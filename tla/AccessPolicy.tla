---------------------------- MODULE AccessPolicy ----------------------------
(***************************************************************************)
(* What TermBridge lets an agent do: the command and path rules of         *)
(* src/application/policy.rs, the path scopes of path_policy.rs and the    *)
(* hosts.toml scopes of host_policy.rs, in the order in which              *)
(* SessionManager asks them.                                               *)
(*                                                                         *)
(* The command rules see a path as it was written and normalise it         *)
(* lexically; the path scopes see what the server's realpath makes of it.  *)
(* A path is a start ("/", "~" or "" for a relative one), its segments and *)
(* whether it ends in a slash; a real path is a sequence of names.         *)
(* Of the system directories in the rules' lists "etc" stands for those of *)
(* every list, "proc" for /proc, which only chmod's leaves out.            *)
(***************************************************************************)
EXTENDS Integers, Sequences, FiniteSets, SequencesExt

CONSTANTS
  RemotePaths, LocalPaths, Inputs,  \* what an agent may write: paths on
                \* either side, and lines of words
  Files,        \* real paths that exist on either side
  Links,        \* real path -> the real path a symbolic link leads to
  Home,         \* the remote home directory, a real path
  LocalRoots,   \* allowed_local_paths, canonicalised
  GlobalRoots,  \* TERMBRIDGE_ALLOWED_REMOTE_PATHS: sets of paths tried
  HostScopes    \* the host's allowed_remote_paths: sets of paths tried

Operations == {"input", "upload", "download", "mkdir", "list", "remove",
               "rmrec", "chmod"}
Modes == {"standard", "unrestricted"}

VARIABLES
  hosts,     \* hosts.toml: "absent", "unreadable", "unparsable" or "parsed"
  scope,     \* the host's roots there, {} for none
  roots,     \* the global roots
  tilde,     \* "~" at the server: "refused", expanded by "realpath" only,
             \* or "always", whatever the request
  strict,    \* its realpath refuses a path whose last name is missing
  policy,    \* what was loaded of hosts.toml: [corrupt, roots]
  mode,      \* the session's approval mode
  request, stage

config == <<hosts, scope, roots, tilde, strict>>
vars == <<config, policy, mode, request, stage>>

Stages == {"loading", "idle", "asked", "authorized", "scoped", "accepted",
           "denied", "confirm", "local", "remote"}
TypeOK ==
  /\ hosts \in {"absent", "unreadable", "unparsable", "parsed"}
  /\ policy.corrupt \in BOOLEAN /\ mode \in Modes
  /\ stage \in Stages
  /\ stage \notin {"loading", "idle"} => request.op \in Operations
-----------------------------------------------------------------------------
(* The command rules.  A line is a sequence of words; "mkfs" stands for    *)
(* what the blocklist matches, "rm -rf" for the confirm list apart from    *)
(* sudo, ";" for the markers of chained commands that the code looks for,  *)
(* to which a lone & does not belong (policy.rs:189).                      *)
Has(line, word) == \E i \in DOMAIN line : line[i] = word

Blocked(line) == Has(line, "mkfs")
NeedsConfirm(line) == Has(line, "rm -rf")

PassthroughAnywhere(line) ==   \* mutant: sudo -n is looked for anywhere
  Has(line, "sudo") /\ Has(line, "-n")

SudoPassthrough(line) ==
  /\ ~Has(line, ";")
  /\ Len(line) >= 2 /\ line[1] = "sudo" /\ line[2] = "-n"
  /\ \A i \in 3..Len(line) : line[i] # "sudo"

CheckLine(line) ==
  IF Blocked(line) THEN "Deny"
  ELSE IF NeedsConfirm(line) \/ (Has(line, "sudo") /\ ~SudoPassthrough(line))
  THEN "Confirm" ELSE "Allow"

CheckInputFirst(lines) ==   \* mutant: the first verdict counts
  FoldLeft(LAMBDA verdict, line : IF verdict = "Allow" THEN CheckLine(line)
                                                       ELSE verdict,
           "Allow", lines)

(* check_send_input, and PolicyManager::authorize over its policies: the   *)
(* first Deny ends the scan, a Confirm stands unless a Deny follows.       *)
CheckInput(lines) ==
  FoldLeft(LAMBDA verdict, line :
             IF verdict = "Deny" \/ CheckLine(line) = "Allow" THEN verdict
                                                    ELSE CheckLine(line),
           "Allow", lines)

LexicalKeepUp(path) ==   \* mutant: ".." is not resolved
  [segs |-> (IF path.start = "~" THEN <<"~">> ELSE <<>>)
              \o SelectSeq(path.segs, LAMBDA s : s \notin {"", "."}),
   rooted |-> path.start # "", slash |-> path.slash]

(* normalize_remote_path_lexical: "~" counts as a name below the root,     *)
(* ".." above the root stays there, and a relative path keeps its own.     *)
Lexical(path) ==
  LET rooted == path.start # ""
      Step(segs, s) ==
        IF s \in {"", "."} THEN segs
        ELSE IF s # ".." THEN Append(segs, s)
        ELSE IF segs # <<>> /\ (rooted \/ Last(segs) # "..") THEN Front(segs)
        ELSE IF rooted THEN segs ELSE Append(segs, "..")
  IN [segs |-> FoldLeft(Step, IF path.start = "~" THEN <<"~">> ELSE <<>>,
                        path.segs),
      rooted |-> rooted, slash |-> path.slash]

Below(l, names) == l.rooted /\ l.segs # <<>> /\ l.segs[1] \in names
CheckUpload(path) ==
  LET l == Lexical(path) IN
  IF Below(l, {"etc", "proc"}) /\ (Len(l.segs) > 1 \/ l.slash)
  THEN "Confirm" ELSE "Allow"
CheckRemove(path, recursive) ==
  LET l == Lexical(path) IN
  IF recursive /\ l.rooted /\ (l.segs = <<>> \/ Below(l, {"etc", "proc"}))
  THEN "Deny" ELSE "Confirm"
CheckChmod(path, open) ==
  IF open /\ Below(Lexical(path), {"etc"}) THEN "Confirm" ELSE "Allow"

Judge(r) ==
  CASE r.op = "input" -> CheckInput(r.lines)
    [] r.op = "upload" -> CheckUpload(r.remote)
    [] r.op \in {"remove", "rmrec"} -> CheckRemove(r.remote, r.op = "rmrec")
    [] r.op = "chmod" -> CheckChmod(r.remote, r.open)
    [] OTHER -> "Allow"

WithApprovalAll(verdict, m) ==   \* mutant: unrestricted allows everything
  IF m = "unrestricted" THEN "Allow" ELSE verdict

(* authorize_with_approval: unrestricted turns Confirm into Allow, no more. *)
WithApproval(verdict, m) ==
  IF verdict = "Confirm" /\ m = "unrestricted" THEN "Allow" ELSE verdict

SessionApproval(op) == mode   \* mutant: the mode counts for every operation

(* check_policy: the session's mode counts for input only. *)
Approval(op) == IF op = "input" THEN mode ELSE "standard"
-----------------------------------------------------------------------------
(* realpath on a tree: links are followed, ".." leads to the parent of     *)
(* where the path has led.  Every name but the last must exist.            *)
Found(at) == [real |-> at, missing |-> FALSE, ok |-> TRUE]
Follow(w, s) ==
  IF ~w.ok \/ w.missing THEN [w EXCEPT !.ok = FALSE]
  ELSE IF s \in {"", "."} THEN w
  ELSE IF s = ".." THEN Found(IF w.real = <<>> THEN <<>> ELSE Front(w.real))
  ELSE LET child == Append(w.real, s) IN
       IF child \in DOMAIN Links THEN Found(Links[child])
       ELSE [real |-> child, missing |-> child \notin Files, ok |-> TRUE]
Walk(segs) == FoldLeft(Follow, Found(<<>>), segs)

(* What the server answers to realpath; a relative path starts at home.    *)
Whole(path) == (IF path.start = "" THEN Home ELSE <<>>) \o path.segs
Server(path) ==
  LET w == Walk(Whole(path)) IN [w EXCEPT !.ok = @ /\ ~(w.missing /\ strict)]

ExpandTilde(path) ==
  IF path.start = "~" THEN [start |-> "/", segs |-> Home \o path.segs,
                            slash |-> path.slash /\ path.segs # <<>>]
                      ELSE path

(* parent_remote_path, and Path::parent: the text up to the last name.     *)
Parent(path) ==
  [path EXCEPT !.segs = IF @ = <<>> THEN @ ELSE Front(@), !.slash = FALSE]
HasParent(path) ==
  path.segs # <<>> /\ (path.start # "" \/ Len(path.segs) > 1)

IsUnder(real, root) == IsPrefix(root, real)

(* hard_safety_deny on a text: what ends in a slash, or names the file in  *)
(* a relative ".ssh", does not end in the text it looks for.  "keys"       *)
(* stands for authorized_keys and authorized_keys2.                        *)
Text(real) == [segs |-> real, rooted |-> TRUE, slash |-> FALSE]
HardDenied(text, op) ==
  /\ op # "Read"
  /\ \/ /\ IsSuffix(<<".ssh", "keys">>, text.segs) /\ ~text.slash
        /\ text.rooted \/ Len(text.segs) > 2
     \/ Below(text, {"proc"})

(* RemoteOperation of a request. *)
Kind(op) == CASE op \in {"upload", "mkdir"} -> "Create"
              [] op \in {"remove", "rmrec"} -> "Delete"
              [] op = "chmod" -> "Chmod"
              [] OTHER -> "Read"

EffectiveGlobal ==   \* mutant: a damaged hosts.toml counts as none
  IF policy.roots # {} THEN policy.roots ELSE roots

(* allowed_remote_paths_for, then the global roots: a damaged hosts.toml   *)
(* leaves a root that no path is under.                                    *)
Effective ==
  IF policy.corrupt THEN {[start |-> "/", segs |-> <<"deny all">>,
                           slash |-> FALSE]}
  ELSE IF policy.roots # {} THEN policy.roots ELSE roots

ScopeAndSafetyWritten(real, path, op) ==   \* mutant: the path as written
  /\ \E root \in Effective : IsUnder(ExpandTilde(path).segs,
                                     ExpandTilde(root).segs)
  /\ ~HardDenied(Text(real), op)

(* check_scope_and_safety *)
ScopeAndSafety(real, path, op) ==
  /\ \E root \in Effective : IsUnder(real, ExpandTilde(root).segs)
  /\ ~HardDenied(Text(real), op)


(* A new target: its parent must exist and be in scope, and the target as  *)
(* written must not be protected.                                          *)
CreateAllowed(path, op) ==
  LET up == Server(Parent(path)) IN
  /\ HasParent(path) /\ up.ok /\ ScopeAndSafety(up.real, path, op)
  /\ ~HardDenied(Lexical(path), op)

(* check_remote_access *)
RemoteAllowed(r) ==
  LET op == Kind(r.op)
      path == ExpandTilde(r.remote)
      w == Server(path)
      asksHome == \E p \in {r.remote} \cup policy.roots \cup roots :
                    p.start = "~"
  IN
  /\ ~Has(r.remote.segs, "null") /\ (asksHome => tilde # "refused")
  /\ IF w.ok THEN ScopeAndSafety(w.real, path, op)
     ELSE /\ op = "Create" /\ Walk(Whole(path)).missing
          /\ CreateAllowed(path, op)

(* check_local: canonicalised, or its parent when it does not exist.       *)
LocalAllowed(path) ==
  LET w == Walk(path.segs)
      real == IF w.ok /\ ~w.missing THEN w.real ELSE Walk(Parent(path).segs).real
      there == \/ w.ok /\ ~w.missing
               \/ /\ path.segs # <<>> /\ Walk(Parent(path).segs).ok
                  /\ ~Walk(Parent(path).segs).missing
  IN /\ ~Has(path.segs, "null") /\ there
     /\ \E root \in LocalRoots : IsUnder(real, root)
-----------------------------------------------------------------------------
Init ==
  /\ hosts \in {"absent", "unreadable", "unparsable", "parsed"}
  /\ scope \in (IF hosts = "parsed" THEN HostScopes ELSE {{}})
  /\ roots \in GlobalRoots
  /\ tilde \in {"refused", "realpath", "always"} /\ strict \in BOOLEAN
  /\ policy = [corrupt |-> FALSE, roots |-> {}]
  /\ mode = "standard" /\ request = [op |-> "none"] /\ stage = "loading"

(* HostPolicyResolver::load_from, once when the program starts. *)
Load ==
  /\ stage = "loading" /\ stage' = "idle"
  /\ policy' = [corrupt |-> hosts \in {"unreadable", "unparsable"},
                roots |-> IF hosts = "parsed" THEN scope ELSE {}]
  /\ UNCHANGED <<config, mode, request>>

(* The user raises or lowers the mode from the control program. *)
SetApprovalMode(m) ==
  /\ stage = "idle" /\ mode # m /\ mode' = m
  /\ UNCHANGED <<config, policy, request, stage>>

(* send_input asks with what is to be typed, the SFTP operations with a    *)
(* remote path, transfers with a local one too.                            *)
AskInput ==
  /\ stage = "idle" /\ stage' = "asked"
  /\ \E lines \in Inputs : request' = [op |-> "input", lines |-> lines]
  /\ UNCHANGED <<config, policy, mode>>

AskFiles ==
  /\ stage = "idle" /\ stage' = "asked"
  /\ \E op \in Operations \ {"input"}, remote \in RemotePaths, open \in BOOLEAN :
       /\ open => op = "chmod"
       /\ \E near \in IF op \in {"upload", "download"} THEN LocalPaths
                                                       ELSE {remote} :
            request' = [op |-> op, remote |-> remote, near |-> near,
                        open |-> open]
  /\ UNCHANGED <<config, policy, mode>>

(* SessionManager::check_policy; mkdir and list are not judged. *)
Authorize ==
  LET verdict == WithApproval(Judge(request), Approval(request.op)) IN
  /\ stage = "asked"
  /\ stage' = IF request.op \in {"mkdir", "list"} THEN "authorized"
              ELSE CASE verdict = "Deny" -> "denied"
                     [] verdict = "Confirm" -> "confirm"
                     [] OTHER -> IF request.op = "input" THEN "accepted"
                                                         ELSE "authorized"
  /\ UNCHANGED <<config, policy, mode, request>>

CheckLocal ==
  /\ stage = "authorized"
  /\ stage' = IF request.op \in {"upload", "download"}
                 /\ ~LocalAllowed(request.near)
              THEN "local" ELSE "scoped"
  /\ UNCHANGED <<config, policy, mode, request>>

CheckRemote ==
  /\ stage = "scoped"
  /\ stage' = IF RemoteAllowed(request) THEN "accepted" ELSE "remote"
  /\ UNCHANGED <<config, policy, mode, request>>

Next == Load \/ Authorize \/ CheckLocal \/ CheckRemote
        \/ (\E m \in Modes : SetApprovalMode(m))
        \/ AskInput \/ AskFiles
Spec == Init /\ [][Next]_vars
-----------------------------------------------------------------------------
(* Where a request really acts.  The code sends the path as it was given,  *)
(* not the one it judged: "~" is then a name like any other, unless the    *)
(* server expands it; and a removal, or the rename that ends an upload,    *)
(* takes the entry itself, where the rest follow a link in the last name.  *)
OnEntry == {"upload", "remove", "rmrec"}
Given(path) ==
  CASE path.start # "~" -> path
    [] tilde = "always" -> ExpandTilde(path)
    [] OTHER -> [path EXCEPT !.start = "", !.segs = <<"~">> \o @]
Place(r) ==
  LET p == Given(r.remote)
      segs == Whole(p)
      named == segs # <<>> /\ ~p.slash /\ Last(segs) \notin {"", ".", ".."}
  IN IF r.op \in OnEntry /\ named
     THEN Append(Walk(Front(segs)).real, Last(segs)) ELSE Walk(segs).real

(* The requests for which that is the path judged: "~" means the same to   *)
(* the check and to the server, and no entry taken is a link.              *)
ActsAsJudged(r) ==
  /\ r.remote.start = "~" => tilde = "always"
  /\ r.op \in OnEntry => Place(r) \notin DOMAIN Links

ThroughLink(segs) ==
  \E n \in DOMAIN segs :
     /\ segs[n] \notin {"", ".", ".."}
     /\ Append(Walk(SubSeq(segs, 1, n - 1)).real, segs[n]) \in DOMAIN Links
Accepted(ops) == stage = "accepted" /\ request.op \in ops
Writes == {"upload", "mkdir", "remove", "rmrec", "chmod"}

Granted == IF hosts = "parsed" /\ scope # {} THEN scope ELSE roots
InScope(real) ==
  \E root \in Granted : IsPrefix(ExpandTilde(root).segs, real)

(* Whatever links and dots a path is written with, an accepted operation   *)
(* that acts on the path judged acts inside the host's scope, else inside  *)
(* the global one; with a damaged hosts.toml nothing is accepted.          *)
ActsInScope ==
  Accepted(Operations \ {"input"}) =>
  /\ hosts \notin {"unreadable", "unparsable"}
  /\ ActsAsJudged(request) => InScope(Place(request))

(* No accepted operation that acts on the path judged changes the kernel's *)
(* files or an authorized_keys file, whatever the scope, the mode and the  *)
(* way the path is written.  A file yet to be created is judged as written,*)
(* so that for it the claim leaves out relative paths, those through a     *)
(* link and those that end in a slash.                                     *)
ProtectedStays ==
  Accepted(Writes) /\ ActsAsJudged(request) =>
  LET p == ExpandTilde(request.remote)
      place == Place(request)
  IN /\ place = <<>> \/ place[1] # "proc"
     /\ IsSuffix(<<".ssh", "keys">>, place) =>
          /\ place \notin Files
          /\ p.start = "" \/ p.slash \/ ThroughLink(p.segs)


(* What the comments on check_remote_access say: realpath keeps a link     *)
(* from leading an accepted operation out of its scope. The code does not  *)
(* keep this: an upload replaces a link that leads into the scope.         *)
NoEscapeByLink == Accepted(Operations \ {"input"}) => InScope(Place(request))

(* And: however the path to a new authorized_keys is varied, it is refused *)
(* (read for absolute paths without links only).  The code does not keep   *)
(* this: with a trailing slash it is not.                                  *)
NewKeysRefused ==
  Accepted({"upload", "mkdir"}) =>
  LET p == request.remote IN
  p.start = "/" /\ ~ThroughLink(p.segs) =>
    ~IsSuffix(<<".ssh", "keys">>, Place(request))

(* The rules that judge a path as written judge what it leads to: on an    *)
(* absolute path, or one from "~" that means the same to the server,       *)
(* without links in existing directories, a recursive removal that would   *)
(* take a system directory is denied outright, and an upload into one      *)
(* always needs the user, whatever the session's mode.                     *)
JudgedByPlace ==
  LET path == request.remote
      place == Place(request)
      segs == ExpandTilde(path).segs
      plain == /\ path.start # "" /\ ActsAsJudged(request)
               /\ ~ThroughLink(segs) /\ Walk(segs).ok
  IN
  /\ (stage = "confirm" /\ request.op = "rmrec" /\ plain) =>
       place # <<>> /\ place[1] \notin {"etc", "proc"}
  /\ (Accepted({"upload"}) /\ plain) => Len(place) < 2 \/ place[1] # "etc"

(* Input goes through only if no line of it, wherever it stands and        *)
(* whatever comes before it, holds a blocked command; and, unless the user *)
(* lifted the mode, none that needs confirmation.                          *)
InputIsJudgedWhole ==
  Accepted({"input"}) =>
  \A i \in DOMAIN request.lines :
     LET line == request.lines[i] IN
     /\ ~Has(line, "mkfs")
     /\ mode = "standard" =>
          /\ ~Has(line, "rm -rf")
          /\ \A k \in DOMAIN line : line[k] = "sudo" =>
               k = 1 /\ Len(line) > 1 /\ line[2] = "-n" /\ ~Has(line, ";")
=============================================================================
