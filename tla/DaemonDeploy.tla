---------------------------- MODULE DaemonDeploy ----------------------------
(***************************************************************************)
(* How clients install, start, stop and replace the daemon of one remote   *)
(* host (src/infrastructure/persistent.rs, with agentd's bootstrap, serve  *)
(* and socket handling in agentd/src/main.rs, daemonize.rs and rpc.rs).    *)
(*                                                                         *)
(* Nothing coordinates the clients: each works by remote commands on files *)
(* and processes that all of them share, and looks before it acts.  A      *)
(* command is one step on the remote host, except for bootstrap, which     *)
(* runs there beside the process that it starts.  A command may fail       *)
(* before it had an effect or after, and a client may die between two.     *)
(***************************************************************************)
EXTENDS Integers

CONSTANTS
  Client,     \* operations under way: each client performs one
  Does,       \* Client -> "open", "restart" or "list" (listing and attaching
              \* to remote sessions begin alike)
  Build,      \* Client -> its BUILD_VERSION
  Cached,     \* Client -> build of its local copy of agentd, or "none"
  Bundled,    \* Client -> build of the agentd it was released with, or "none"
  Old,        \* the build installed before
  Protocol,   \* build -> the PROTOCOL_VERSION it was built with
  MaxProc,    \* bound: daemon processes ever started
  MaxFaults   \* bound: failed commands, dead clients and daemons, time-outs

ASSUME DeployAssumption ==
  /\ Does \in [Client -> {"open", "restart", "list"}]
  /\ MaxProc \in Nat \ {0} /\ MaxFaults \in Nat

Proc == 1..MaxProc
None == [build |-> "none", exec |-> FALSE]
Builds == {Old, "none"} \cup {Build[c] : c \in Client}
            \cup {Cached[c] : c \in Client} \cup {Bundled[c] : c \in Client}
Binary == [build : Builds, exec : BOOLEAN]

VARIABLES
  bin,      \* the binary at its final path
  tmp,      \* the binary at the temporary path of a deployment
  version,  \* the build the version file names, or "none"
  pidfile,  \* the process the pid file names, or 0
  socket,   \* the process that bound the socket file, or 0 without a file
  proc,     \* Proc -> "none", "started", "unlinked", "serving", "dead", or
            \* "other" once its number belongs to another program
  runs,     \* Proc -> the build the process was started from
  pc,       \* Client -> its next step
  found,    \* Client -> the build its probe read, or "none"
  pid,      \* Client -> the process number it read, or 0
  stopped,  \* Client -> it has stopped a daemon
  boot,     \* Client -> its bootstrap on the host: "none", "probe", "spawn",
            \* "pid", "wait", "existing", "new", "failed"
  started,  \* Client -> the process its bootstrap started, or 0
  talks,    \* Client -> the daemon it is connected to, or 0
  faults    \* failures so far

files == <<bin, tmp, version, pidfile, socket>>
procs == <<proc, runs>>
locals == <<found, pid, stopped, talks>>
boots == <<boot, started>>
deployVars == <<files, procs, pc, locals, boots, faults>>

Steps == {"idle", "probe", "home", "upload", "rename", "chmod", "move",
          "clean", "version", "readpid", "verify", "term", "kill", "unlink",
          "boot", "await", "connect", "connected", "failed", "dead"}
Ended == {"connected", "failed", "dead"}

DeployTypeOK ==
  /\ bin \in Binary /\ tmp \in Binary /\ version \in Builds
  /\ pidfile \in 0..MaxProc /\ socket \in 0..MaxProc
  /\ proc \in [Proc -> {"none", "started", "unlinked", "serving", "dead",
                        "other"}]
  /\ runs \in [Proc -> Builds] /\ pc \in [Client -> Steps]
  /\ found \in [Client -> Builds] /\ pid \in [Client -> 0..MaxProc]
  /\ stopped \in [Client -> BOOLEAN]
  /\ boot \in [Client -> {"none", "probe", "spawn", "pid", "wait",
                          "existing", "new", "failed"}]
  /\ started \in [Client -> 0..MaxProc] /\ talks \in [Client -> 0..MaxProc]
  /\ faults \in 0..MaxFaults

(* The host is new, or has the old build, its daemon running or not.       *)
DeployInit ==
  /\ \E installed, running \in BOOLEAN :
       /\ running => installed
       /\ bin = IF installed THEN [build |-> Old, exec |-> TRUE] ELSE None
       /\ version = IF installed THEN Old ELSE "none"
       /\ socket = (IF running THEN 1 ELSE 0) /\ pidfile = socket
       /\ proc = [p \in Proc |-> IF running /\ p = 1 THEN "serving"
                                                     ELSE "none"]
       /\ runs = [p \in Proc |-> IF running /\ p = 1 THEN Old ELSE "none"]
  /\ tmp = None /\ faults = 0
  /\ pc = [c \in Client |-> "idle"] /\ found = [c \in Client |-> "none"]
  /\ pid = [c \in Client |-> 0] /\ talks = [c \in Client |-> 0]
  /\ stopped = [c \in Client |-> FALSE]
  /\ boot = [c \in Client |-> "none"] /\ started = [c \in Client |-> 0]
-----------------------------------------------------------------------------
(* A remote command of client c has its effect; then its answer arrives    *)
(* and the client goes on, or it is lost.                                  *)
Answered(c, next, onError) ==
  \/ pc' = [pc EXCEPT ![c] = next] /\ UNCHANGED faults
  \/ /\ faults < MaxFaults /\ faults' = faults + 1
     /\ pc' = [pc EXCEPT ![c] = onError]

(* What a failed command leads to.  A probe that fails counts as nothing   *)
(* found, a pid file or process that cannot be read as not running; a      *)
(* failed upload, chmod or mv removes the temporary file; the removal of   *)
(* the socket file may fail.                                               *)
OnError(step) ==
  CASE step = "probe" -> "home"
    [] step \in {"upload", "rename", "chmod", "move"} -> "clean"
    [] step \in {"readpid", "verify", "unlink"} -> "boot"
    [] OTHER -> "failed"

CommandFails(c) ==
  /\ pc[c] \notin Ended \cup {"idle", "await"} /\ faults < MaxFaults
  /\ faults' = faults + 1
  /\ pc' = [pc EXCEPT ![c] = OnError(pc[c])]
  /\ UNCHANGED <<files, procs, locals, boots>>

ClientDies(c) ==
  /\ pc[c] \notin Ended /\ faults < MaxFaults
  /\ faults' = faults + 1
  /\ pc' = [pc EXCEPT ![c] = "dead"]
  /\ UNCHANGED <<files, procs, locals, boots>>

Begin(c) ==
  /\ pc[c] = "idle"
  /\ pc' = [pc EXCEPT ![c] = IF Does[c] = "list" THEN "boot" ELSE "probe"]
  /\ UNCHANGED <<files, procs, locals, boots, faults>>

ProbeOnly(c) ==   \* mutant: a restart does not upgrade
  LET ready == bin.exec /\ version # "none" IN
  /\ pc[c] = "probe"
  /\ found' = [found EXCEPT ![c] = IF ready THEN version ELSE "none"]
  /\ pc' = [pc EXCEPT ![c] = IF Does[c] = "restart" THEN "readpid"
                             ELSE IF found'[c] # Build[c] THEN "home"
                             ELSE "boot"]
  /\ UNCHANGED <<files, procs, pid, stopped, talks, boots, faults>>

(* check_remote_runtime: the version counts only beside an executable. A   *)
(* file that cannot be parsed is like one of another build; a lost answer  *)
(* is CommandFails, and nothing is found.                                  *)
Probe(c) ==
  LET ready == bin.exec /\ version # "none" IN
  /\ pc[c] = "probe"
  /\ found' = [found EXCEPT ![c] = IF ready THEN version ELSE "none"]
  /\ pc' = [pc EXCEPT ![c] = IF found'[c] # Build[c] THEN "home"
                             ELSE IF Does[c] = "restart" THEN "readpid"
                             ELSE "boot"]
  /\ UNCHANGED <<files, procs, pid, stopped, talks, boots, faults>>
-----------------------------------------------------------------------------
(* deploy_runtime.                                                         *)

(* ensure_agentd_copy: a local copy is used whatever its build, else the   *)
(* bundled binary is copied.                                               *)
LocalBuild(c) == IF Cached[c] # "none" THEN Cached[c] ELSE Bundled[c]

PrepareVersion(c) ==   \* mutant: the version is written first
  /\ pc[c] = "home"
  /\ version' = Build[c]
  /\ Answered(c, "upload", "failed")
  /\ UNCHANGED <<bin, tmp, pidfile, socket, procs, locals, boots>>

(* Finding the binary, the remote home, mkdir.                             *)
Prepare(c) ==
  /\ pc[c] = "home"
  /\ IF LocalBuild(c) = "none"
     THEN pc' = [pc EXCEPT ![c] = "failed"] /\ UNCHANGED faults
     ELSE Answered(c, "upload", "failed")
  /\ UNCHANGED <<files, procs, locals, boots>>

(* The upload goes to a file of its own, which then replaces the temporary *)
(* file: rename does not overwrite, so what is there is removed first.     *)
Upload(c) ==
  /\ pc[c] = "upload"
  /\ IF tmp = None
     THEN /\ tmp' = [build |-> LocalBuild(c), exec |-> FALSE]
          /\ Answered(c, "chmod", "clean")
     ELSE tmp' = None /\ Answered(c, "rename", "clean")
  /\ UNCHANGED <<bin, version, pidfile, socket, procs, locals, boots>>

UploadRename(c) ==
  /\ pc[c] = "rename"
  /\ IF tmp = None
     THEN /\ tmp' = [build |-> LocalBuild(c), exec |-> FALSE]
          /\ Answered(c, "chmod", "clean")
     ELSE /\ pc' = [pc EXCEPT ![c] = "clean"] /\ UNCHANGED <<tmp, faults>>
  /\ UNCHANGED <<bin, version, pidfile, socket, procs, locals, boots>>

Chmod(c) ==
  /\ pc[c] = "chmod"
  /\ IF tmp = None
     THEN pc' = [pc EXCEPT ![c] = "clean"] /\ UNCHANGED <<tmp, faults>>
     ELSE tmp' = [tmp EXCEPT !.exec = TRUE] /\ Answered(c, "move", "clean")
  /\ UNCHANGED <<bin, version, pidfile, socket, procs, locals, boots>>

(* mv -f.  A bootstrap running from the replaced file can no longer find   *)
(* its own executable to start the daemon from.                            *)
Move(c) ==
  /\ pc[c] = "move"
  /\ IF tmp = None
     THEN /\ pc' = [pc EXCEPT ![c] = "clean"]
          /\ UNCHANGED <<bin, tmp, boot, faults>>
     ELSE /\ bin' = tmp /\ tmp' = None
          /\ boot' = [x \in Client |-> IF boot[x] \in {"probe", "spawn"}
                                       THEN "failed" ELSE boot[x]]
          /\ Answered(c, "version", "clean")
  /\ UNCHANGED <<version, pidfile, socket, procs, locals, started>>

(* rm -f of the temporary file, as far as that succeeds; the deployment    *)
(* has failed.                                                             *)
CleanUp(c) ==
  /\ pc[c] = "clean"
  /\ tmp' = None
  /\ pc' = [pc EXCEPT ![c] = "failed"]
  /\ UNCHANGED <<bin, version, pidfile, socket, procs, locals, boots, faults>>

AfterDeployKeeps(c) ==   \* mutant: an upgrade leaves the daemon running
  IF Does[c] = "restart" THEN "readpid" ELSE "boot"

(* An upgrade by open stops the daemon, a first deployment does not.       *)
AfterDeploy(c) ==
  IF Does[c] = "restart" \/ found[c] # "none" THEN "readpid" ELSE "boot"

WriteVersion(c) ==
  /\ pc[c] = "version"
  /\ version' = Build[c]
  /\ Answered(c, AfterDeploy(c), "failed")
  /\ UNCHANGED <<bin, tmp, pidfile, socket, procs, locals, boots>>
-----------------------------------------------------------------------------
(* stop_remote_daemon.                                                     *)

Living(p) == p # 0 /\ proc[p] \in {"started", "unlinked", "serving"}

ReadPid(c) ==
  /\ pc[c] = "readpid"
  /\ pid' = [pid EXCEPT ![c] = pidfile]
  /\ Answered(c, IF pidfile = 0 THEN "boot" ELSE "verify", "boot")
  /\ UNCHANGED <<files, procs, found, stopped, talks, boots>>

(* The process must be an agentd.                                          *)
VerifyPid(c) ==
  /\ pc[c] = "verify"
  /\ Answered(c, IF Living(pid[c]) THEN "term" ELSE "boot", "boot")
  /\ UNCHANGED <<files, procs, locals, boots>>

Dies(p) == proc' = [proc EXCEPT ![p] = "dead"]

TerminateOnce(c) ==   \* mutant: the outcome of SIGTERM is not looked at
  /\ pc[c] = "term"
  /\ Dies(pid[c]) \/ UNCHANGED proc
  /\ Answered(c, "unlink", "failed")
  /\ stopped' = [stopped EXCEPT ![c] = (pc'[c] = "unlink")]
  /\ UNCHANGED <<files, runs, found, pid, talks, boots>>

(* SIGTERM ends the process within the grace period, or SIGKILL follows;   *)
(* that this does not help either is a fault.                              *)
Terminate(c) ==
  /\ pc[c] = "term"
  /\ \/ Dies(pid[c]) /\ Answered(c, "unlink", "failed")
     \/ /\ proc[pid[c]] # "dead" /\ UNCHANGED proc
        /\ Answered(c, "kill", "failed")
  /\ stopped' = [stopped EXCEPT ![c] = (pc'[c] = "unlink")]
  /\ UNCHANGED <<files, runs, found, pid, talks, boots>>

Kill(c) ==
  /\ pc[c] = "kill"
  /\ \/ Dies(pid[c]) /\ Answered(c, "unlink", "failed")
     \/ /\ proc[pid[c]] # "dead" /\ UNCHANGED proc
        /\ faults < MaxFaults /\ faults' = faults + 1
        /\ pc' = [pc EXCEPT ![c] = "failed"]
  /\ stopped' = [stopped EXCEPT ![c] = (pc'[c] = "unlink")]
  /\ UNCHANGED <<files, runs, found, pid, talks, boots>>

(* rm -f of the socket file, whoever has bound it by now.                  *)
UnlinkSocket(c) ==
  /\ pc[c] = "unlink"
  /\ socket' = 0
  /\ Answered(c, "boot", "boot")
  /\ UNCHANGED <<bin, tmp, version, pidfile, procs, locals, boots>>
-----------------------------------------------------------------------------
(* bootstrap_daemon and agentd's bootstrap command.                        *)

RunBootstrap(c) ==
  /\ pc[c] = "boot"
  /\ IF bin.exec
     THEN /\ boot' = [boot EXCEPT ![c] = "probe"]
          /\ Answered(c, "await", "failed")
     ELSE /\ pc' = [pc EXCEPT ![c] = "failed"] /\ UNCHANGED <<boot, faults>>
  /\ UNCHANGED <<files, procs, locals, started>>

Serves(p) == p # 0 /\ proc[p] = "serving"

BootProbe(c) ==
  /\ boot[c] = "probe"
  /\ boot' = [boot EXCEPT ![c] = IF Serves(socket) THEN "existing"
                                                   ELSE "spawn"]
  /\ UNCHANGED <<files, procs, pc, locals, started, faults>>

BootSpawn(c, p) ==
  /\ boot[c] = "spawn" /\ proc[p] = "none"
  /\ \A q \in Proc : q < p => proc[q] # "none"
  /\ proc' = [proc EXCEPT ![p] = "started"]
  /\ runs' = [runs EXCEPT ![p] = bin.build]
  /\ started' = [started EXCEPT ![c] = p]
  /\ boot' = [boot EXCEPT ![c] = "pid"]
  /\ UNCHANGED <<files, pc, locals, faults>>

BootWritePid(c) ==
  /\ boot[c] = "pid"
  /\ pidfile' = started[c] /\ boot' = [boot EXCEPT ![c] = "wait"]
  /\ UNCHANGED <<bin, tmp, version, socket, procs, pc, locals, started, faults>>

(* Until some daemon answers on the socket, or for 3 s: a daemon that      *)
(* takes longer to start counts as a fault.                                *)
Starting == {p \in Proc : proc[p] \in {"started", "unlinked"}}

BootWait(c) ==
  /\ boot[c] = "wait"
  /\ \/ (Serves(socket) \/ Starting = {}) /\ UNCHANGED faults
     \/ ~Serves(socket) /\ faults < MaxFaults /\ faults' = faults + 1
  /\ boot' = [boot EXCEPT ![c] = "new"]
  /\ UNCHANGED <<files, procs, pc, locals, started>>

ServeKeep(p) ==   \* mutant: a socket file left behind is not removed
  /\ proc[p] = "started"
  /\ proc' = [proc EXCEPT ![p] = "unlinked"]
  /\ UNCHANGED <<files, runs, pc, locals, boots, faults>>

(* RpcServer::serve: what is at the socket's path is removed, then bound.  *)
ServeUnlink(p) ==
  /\ proc[p] = "started"
  /\ proc' = [proc EXCEPT ![p] = "unlinked"] /\ socket' = 0
  /\ UNCHANGED <<bin, tmp, version, pidfile, runs, pc, locals, boots, faults>>

ServeBind(p) ==
  /\ proc[p] = "unlinked"
  /\ IF socket = 0
     THEN proc' = [proc EXCEPT ![p] = "serving"] /\ socket' = p
     ELSE proc' = [proc EXCEPT ![p] = "dead"] /\ UNCHANGED socket
  /\ UNCHANGED <<bin, tmp, version, pidfile, runs, pc, locals, boots, faults>>

DaemonCrashes(p) ==
  /\ Living(p) /\ faults < MaxFaults
  /\ Dies(p) /\ faults' = faults + 1
  /\ UNCHANGED <<files, runs, pc, locals, boots>>

ReuseNumber(p) ==
  /\ proc[p] = "dead"
  /\ proc' = [proc EXCEPT ![p] = "other"]
  /\ UNCHANGED <<files, runs, pc, locals, boots, faults>>

TakeAnswer(c) ==
  /\ pc[c] = "await" /\ boot[c] \in {"existing", "new", "failed"}
  /\ pc' = [pc EXCEPT ![c] = IF boot[c] = "failed" THEN "failed"
                                                   ELSE "connect"]
  /\ UNCHANGED <<files, procs, locals, boots, faults>>

(* DaemonClient::connect: agentd as a proxy to the socket, then hello,     *)
(* which both sides refuse between different protocols.                    *)
Connect(c) ==
  /\ pc[c] = "connect"
  /\ IF bin.exec /\ Serves(socket)
        /\ Protocol[runs[socket]] = Protocol[Build[c]]
     THEN /\ talks' = [talks EXCEPT ![c] = socket]
          /\ Answered(c, "connected", "failed")
     ELSE pc' = [pc EXCEPT ![c] = "failed"] /\ UNCHANGED <<talks, faults>>
  /\ UNCHANGED <<files, procs, found, pid, stopped, boots>>

ClientStep(c) ==
  \/ Begin(c) \/ Probe(c) \/ Prepare(c) \/ Upload(c) \/ UploadRename(c)
  \/ Chmod(c) \/ Move(c) \/ CleanUp(c) \/ WriteVersion(c)
  \/ ReadPid(c) \/ VerifyPid(c) \/ Terminate(c) \/ Kill(c) \/ UnlinkSocket(c)
  \/ RunBootstrap(c) \/ TakeAnswer(c) \/ Connect(c)
BootStep(c) ==
  \/ BootProbe(c) \/ BootWritePid(c) \/ BootWait(c)
  \/ \E p \in Proc : BootSpawn(c, p)
Serve(p) == ServeUnlink(p) \/ ServeBind(p)

DeployNext ==
  \/ \E c \in Client :
       ClientStep(c) \/ BootStep(c) \/ CommandFails(c) \/ ClientDies(c)
  \/ \E p \in Proc : Serve(p) \/ DaemonCrashes(p) \/ ReuseNumber(p)

(* Clients, bootstraps and daemons go on; failures need not happen.        *)
Fairness ==
  /\ \A c \in Client : WF_deployVars(ClientStep(c)) /\ WF_deployVars(BootStep(c))
  /\ \A p \in Proc : WF_deployVars(Serve(p))

DeploySpec == DeployInit /\ [][DeployNext]_deployVars /\ Fairness
-----------------------------------------------------------------------------
(* persistent.rs:1100: the version is written after the binary was put in  *)
(* place, so that it names that binary. While nobody is between the two it *)
(* would; the code does not keep this (two clients of different builds, or *)
(* a local copy of another build).                                         *)
VersionNamesBinary ==
  (\A c \in Client : pc[c] # "version") => version \in {"none", bin.build}

(* A daemon reported as stopped is dead.                                   *)
StoppedIsGone ==
  \A c \in Client : stopped[c] => ~Living(pid[c])

(* Whoever stopped a daemon and connects talks to one of a build that some *)
(* client has brought, its own if all are of one build: never to the build *)
(* that was there before, although others open and restart in the          *)
(* meantime. Others that list or attach can break this: they bootstrap     *)
(* without a look at the version.                                          *)
UpgradeTakesEffect ==
  \A c \in Client : stopped[c] /\ pc[c] = "connected" =>
    runs[talks[c]] \in {Build[d] : d \in Client}

Alone(c) ==
  /\ pc[c] = "idle" /\ faults = MaxFaults /\ LocalBuild(c) # "none"
  /\ \A d \in Client \ {c} :
       /\ pc[d] \in Ended
       /\ boot[d] \in {"none", "existing", "new", "failed"}
  /\ Starting = {} /\ \E p \in Proc : proc[p] = "none"

(* The build of the daemon that c meets if it is alone: one that serves is *)
(* left alone unless c restarts or upgrades and the pid file names a       *)
(* process to stop.                                                        *)
Meets(c) ==
  LET ready == bin.exec /\ version # "none"
      deploys == Does[c] # "list" /\ ~(ready /\ version = Build[c])
      stops == (Does[c] = "restart" \/ (deploys /\ ready)) /\ Living(pidfile)
  IN  IF Serves(socket) /\ ~stops THEN runs[socket]
      ELSE IF deploys THEN LocalBuild(c) ELSE bin.build

(* Whatever the clients before it left behind, half a deployment, a stale  *)
(* pid or socket file, a daemon nobody can reach: an operation that runs   *)
(* alone and without failures connects, if it meets a daemon of its        *)
(* protocol. It need not meet one: an open that finds its version on       *)
(* record stops no daemon, whatever that runs.                             *)
Recovers ==
  \A c \in Client :
    Alone(c) /\ (bin.exec \/ Does[c] # "list")
             /\ Protocol[Meets(c)] = Protocol[Build[c]]
      ~> pc[c] = "connected"
=============================================================================
