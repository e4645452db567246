---------------------------- MODULE DeployHistory ----------------------------
(***************************************************************************)
(* DaemonDeploy with an auxiliary variable that remembers whether two      *)
(* clients have deployed different builds at the same time.  It is read by *)
(* no step: the clients know nothing of it.                                *)
(***************************************************************************)
EXTENDS DaemonDeploy

VARIABLE overlapped

Deploying == {"upload", "rename", "chmod", "move", "version"}

(* From the upload to the writing of the version.                          *)
Overlap ==
  \E c, d \in Client : /\ pc[c] \in Deploying /\ pc[d] \in Deploying
                       /\ LocalBuild(c) # LocalBuild(d)

historyVars == <<deployVars, overlapped>>
HistoryInit == DeployInit /\ overlapped = FALSE
HistoryNext == DeployNext /\ overlapped' = (overlapped \/ Overlap')
HistorySpec == HistoryInit /\ [][HistoryNext]_historyVars /\ Fairness

(* deploy_runtime: the version file names the binary at the final path,    *)
(* wherever deployments stopped, but for one that has replaced the binary  *)
(* and not written its version: it is about to, or ended there. Only two   *)
(* deployments of different builds at once can leave anything else.        *)
VersionIsBinary ==
  \/ version \in {"none", bin.build}
  \/ \E c \in Client : /\ bin.build = LocalBuild(c)
                       /\ pc[c] \in {"version", "clean", "failed", "dead"}
  \/ overlapped

(* What is on record about builds and daemons, on the host and with its    *)
(* clients, is true.                                                       *)
RecordsAreTrue == DeployTypeOK /\ VersionIsBinary /\ StoppedIsGone
=============================================================================
