--------------------------- MODULE MCDaemonDeploy ---------------------------
(* Two clients of different builds on a host that may run an older one;    *)
(* the newest speaks another protocol.                                     *)
EXTENDS DeployHistory, TLC

CONSTANTS c1, c2

OpensRestarts == (c1 :> "open") @@ (c2 :> "restart")
NewAndNewer == (c1 :> "newer") @@ (c2 :> "new")
NewerOnce == (c1 :> "newer") @@ (c2 :> "none")
Protocols == ("old" :> 1) @@ ("new" :> 1) @@ ("newer" :> 2) @@ ("none" :> 0)
=============================================================================
