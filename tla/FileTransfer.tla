---------------------------- MODULE FileTransfer ----------------------------
(***************************************************************************)
(* The SFTP operations of TermBridge (src/infrastructure/sftp.rs, entered  *)
(* through SessionManager in src/application/sessions.rs): uploads and     *)
(* downloads that go through a temporary file beside their target, single  *)
(* requests, and the walks that copy or remove whole directories.          *)
(*                                                                         *)
(* Every operation has a channel of its own, and several run at once on    *)
(* the same two file systems.  A request is one step; it may fail without  *)
(* effect, have its effect and lose its answer, and a job may die between  *)
(* two of them.  What the policies decide about a path is left open here   *)
(* (module AccessPolicy).                                                  *)
(***************************************************************************)
EXTENDS Integers, Sequences, FiniteSets, Functions

CONSTANTS
  Job,          \* operations under way
  Work,         \* Job -> what it may do: records of an operation and its path
  Path, Top,    \* the paths below one directory, which is Top
  Up,           \* Path -> the directory a path is in (Top for Top itself)
  Local, Remote,\* Path -> what is there at first, on either side
  Edited,       \* local paths an editor may replace
  Unsafe,       \* paths whose last name the local file system would not keep
  Stamp,        \* Job -> process number and time, as its temporary names have
  MaxDepth,     \* deepest directory a walk enters
  MaxFaults     \* bound: failed requests, lost answers, dead jobs

NodeKinds == {"none", "dir", "link", "special", "file"}
Walks == {"updir", "downdir", "rmrec"}
Operations == Walks \cup {"upload", "download", "mkdir", "list", "remove",
                          "chmod"}
ASSUME TransferAssumption ==
  /\ Top \in Path /\ Up \in [Path -> Path]
  /\ Unsafe \subseteq Path /\ Edited \subseteq Path
  /\ Local \in [Path -> NodeKinds] /\ Remote \in [Path -> NodeKinds]
  /\ Work \in [Job -> SUBSET [op : Operations, path : Path]]
  /\ MaxDepth \in Nat /\ MaxFaults \in Nat

VARIABLES
  local, remote,  \* what exists on either side: place -> [kind, ino]
  data,           \* contents of every file ever created: ino -> pieces
  overwrites,     \* whether the server renames onto an existing file
  pc, work,       \* Job -> its next step and what it does
  at,             \* Job -> the place it works on
  size, pos,      \* Job -> size of the source when looked at, pieces copied
  src, dst,       \* Job -> the files it has open
  stack, comps,   \* Job -> directories it is in, components left to create
  count, skipped, \* Job -> its report
  faults

sides == <<local, remote, data>>
files == <<size, pos, src, dst>>
report == <<count, skipped>>
walk == <<stack, comps>>
setup == <<work, overwrites>>
transferVars == <<sides, setup, pc, at, files, walk, report, faults>>

(* A place is a path and the stamps its name carries: <<>> for the path    *)
(* itself, <<s>> for a temporary file of it.  Directory listings show the  *)
(* temporary files of other jobs like any other file.                      *)
Plain(p) == [path |-> p, tmp |-> <<>>]
NoFile == <<"none", Plain(Top)>>
Node(kind, ino) == [kind |-> kind, ino |-> ino]

TmpFixed(x, j) ==   \* mutant: one name for all
  [x EXCEPT !.tmp = Append(@, 0)]

(* remote_tmp_path, local_tmp_path *)
TmpOf(x, j) == [x EXCEPT !.tmp = Append(@, Stamp[j])]

Kind(fs, x) == IF x \in DOMAIN fs THEN fs[x].kind ELSE "none"
Dir(x) == Plain(Up[x.path])
Creatable(fs, x) == x.path = Top \/ Kind(fs, Dir(x)) = "dir"
Children(fs, d) ==
  {x \in DOMAIN fs : x.path # Top /\ Dir(x) = d}
Without(fs, x) == Restrict(fs, DOMAIN fs \ {x})
Put(f, x, v) == [y \in DOMAIN f \cup {x} |-> IF y = x THEN v ELSE f[y]]
Moved(fs, x, y) == Put(Without(fs, x), y, fs[x])
Chain(p) == IF p = Top THEN <<Plain(Top)>>
            ELSE IF Up[p] = Top THEN <<Plain(Top), Plain(p)>>
            ELSE <<Plain(Top), Plain(Up[p]), Plain(p)>>

(* A version is <<side>> for the short one an editor leaves, and two       *)
(* pieces long otherwise.                                                  *)
Whole(content) ==
  content \in {<<"local", "local">>, <<"remote", "remote">>, <<"edited">>}
HoldsWhole(fs, x) == Kind(fs, x) = "file" /\ Whole(data[fs[x].ino])

Steps == {"idle", "stat", "create", "copy", "verify", "rename", "remove",
          "again", "cleanup", "open", "replace", "discard", "enter", "ensure",
          "makedir", "list", "walk", "unlink", "rmdir", "mkdir", "setmode",
          "done", "failed", "littered", "dead"}
Over == {"done", "failed", "littered", "dead"}

TransferTypeOK ==
  /\ \A fs \in {local, remote} : \A x \in DOMAIN fs :
       /\ x.path \in Path /\ fs[x].kind \in NodeKinds \ {"none"}
       /\ fs[x].kind = "file" => fs[x].ino \in DOMAIN data
  /\ \A i \in DOMAIN data : Len(data[i]) \in 0..2
  /\ pc \in [Job -> Steps] /\ \A j \in Job : work[j] \in Work[j]
  /\ \A j \in Job : pos[j] \in 0..2 /\ size[j] \in 0..2
  /\ faults \in 0..MaxFaults

TransferInit ==
  LET Tree(kinds, side) ==
        [x \in {Plain(p) : p \in {q \in Path : kinds[q] # "none"}} |->
           Node(kinds[x.path], IF kinds[x.path] = "file" THEN <<side, x>>
                                                         ELSE NoFile)]
  IN
  /\ local = Tree(Local, "local") /\ remote = Tree(Remote, "remote")
  /\ data = [i \in ({local[x].ino : x \in DOMAIN local}
                 \cup {remote[x].ino : x \in DOMAIN remote}) \ {NoFile} |->
               <<i[1], i[1]>>]
  /\ overwrites \in BOOLEAN /\ faults = 0
  /\ work \in {w \in [Job -> UNION Range(Work)] :
                 \A j \in Job : w[j] \in Work[j]}
  /\ pc = [j \in Job |-> "idle"] /\ at = [j \in Job |-> Plain(work[j].path)]
  /\ size = [j \in Job |-> 0] /\ pos = [j \in Job |-> 0]
  /\ src = [j \in Job |-> NoFile] /\ dst = [j \in Job |-> NoFile]
  /\ stack = [j \in Job |-> <<>>] /\ comps = [j \in Job |-> <<>>]
  /\ count = [j \in Job |-> 0] /\ skipped = [j \in Job |-> {}]
-----------------------------------------------------------------------------
Goto(j, step) == pc' = [pc EXCEPT ![j] = step] /\ UNCHANGED faults

(* Where an error leads: the temporary file is removed once it may exist;  *)
(* when that fails too, the job is told the first error and the file stays.*)
OnError(step) ==
  CASE step \in {"create", "copy", "verify", "rename", "remove", "again"} ->
         "cleanup"
    [] step \in {"open", "replace"} -> "discard"
    [] step \in {"cleanup", "discard"} -> "littered"
    [] OTHER -> "failed"
Error(j) == Goto(j, OnError(IF pc[j] = "copy" /\ work[j].op \in
                                  {"download", "downdir"}
                            THEN "open" ELSE pc[j]))

(* The request had its effect: the job goes on, or never hears of it.      *)
Answered(j, step) ==
  \/ Goto(j, step)
  \/ /\ faults < MaxFaults /\ faults' = faults + 1
     /\ pc' = [pc EXCEPT ![j] = OnError(pc[j])]

RequestFails(j) ==
  /\ pc[j] \notin Over \cup {"idle", "walk"} /\ faults < MaxFaults
  /\ faults' = faults + 1
  /\ pc' = [pc EXCEPT ![j] =
              IF @ = "copy" /\ work[j].op \in {"download", "downdir"}
              THEN "discard" ELSE OnError(@)]
  /\ UNCHANGED <<sides, setup, at, files, walk, report>>

JobDies(j) ==
  /\ pc[j] \notin Over \cup {"idle"} /\ faults < MaxFaults
  /\ faults' = faults + 1 /\ pc' = [pc EXCEPT ![j] = "dead"]
  /\ UNCHANGED <<sides, setup, at, files, walk, report>>

(* An operation begins: policy, session and channel, then the paths; each  *)
(* may refuse, with nothing done.                                          *)
Begins(j, ops, first) ==
  /\ pc[j] = "idle" /\ work[j].op \in ops
  /\ Goto(j, first) \/ Goto(j, "failed")
  /\ UNCHANGED <<sides, setup, at, files, walk, report>>

Transfer(j) == \/ Begins(j, {"upload"}, "stat")
               \/ Begins(j, {"download"}, "open")
TransferDir(j) == Begins(j, {"updir", "downdir"}, "enter")
MkdirRequest(j) == Begins(j, {"mkdir"}, "mkdir")
ListRequest(j) == Begins(j, {"list"}, "list")
RemoveRequest(j) == \/ Begins(j, {"remove"}, "unlink")
                    \/ Begins(j, {"rmrec"}, "enter")
ChmodRequest(j) == Begins(j, {"chmod"}, "setmode")

(* An editor replaces a local file by a shorter one, once. *)
Edit(x) ==
  LET i == <<"edited", x>> IN
  /\ Kind(local, x) = "file" /\ x.tmp = <<>> /\ i \notin DOMAIN data
  /\ data' = Put(data, i, <<"edited">>)
  /\ local' = Put(local, x, Node("file", i))
  /\ UNCHANGED <<remote, setup, pc, at, files, walk, report, faults>>
-----------------------------------------------------------------------------
(* One file is copied: within a walk the walk goes on. *)
FileDone(j) == IF work[j].op \in Walks THEN "walk" ELSE "done"
Counted(j) == count' = [count EXCEPT ![j] = @ + 1]

(* The file is created, or truncated when the name is taken.               *)
Creates(j, fs, x) ==
  LET t == TmpOf(x, j)
      i == IF Kind(fs, t) = "file" THEN fs[t].ino ELSE <<j, t, count[j]>>
  IN
  /\ data' = Put(data, i, <<>>)
  /\ dst' = [dst EXCEPT ![j] = i] /\ pos' = [pos EXCEPT ![j] = 0]

UpStat(j) ==
  /\ pc[j] = "stat"
  /\ IF Kind(local, at[j]) = "file"
     THEN /\ size' = [size EXCEPT ![j] = Len(data[local[at[j]].ino])]
          /\ Goto(j, "create")
     ELSE Goto(j, "failed") /\ UNCHANGED size
  /\ UNCHANGED <<sides, setup, at, pos, src, dst, walk, report>>

UpCreateInPlace(j) ==   \* mutant: the old target goes before the copy
  LET x == at[j]  t == TmpOf(x, j) IN
  /\ pc[j] = "create" /\ Kind(local, x) = "file" /\ Creatable(remote, x)
  /\ Creates(j, remote, x) /\ src' = [src EXCEPT ![j] = local[x].ino]
  /\ remote' = Put(Without(remote, x), t, Node("file", dst'[j]))
  /\ Answered(j, "copy")
  /\ UNCHANGED <<local, setup, at, size, walk, report>>

(* The source is opened by name again, then the temporary file created.    *)
UpCreate(j) ==
  LET x == at[j]  t == TmpOf(x, j) IN
  /\ pc[j] = "create"
  /\ IF Kind(local, x) # "file"
     THEN Goto(j, "failed") /\ UNCHANGED <<remote, data, pos, src, dst>>
     ELSE IF ~Creatable(remote, x)
     THEN Error(j) /\ UNCHANGED <<remote, data, pos, src, dst>>
     ELSE /\ Creates(j, remote, x) /\ src' = [src EXCEPT ![j] = local[x].ino]
          /\ remote' = Put(remote, t, Node("file", dst'[j]))
          /\ Answered(j, "copy")
  /\ UNCHANGED <<local, setup, at, size, walk, report>>

(* download: the remote file is opened, the local temporary file created. *)
DownOpen(j) ==
  LET x == at[j]  t == TmpOf(x, j) IN
  /\ pc[j] = "open"
  /\ IF Kind(remote, x) = "file" /\ Creatable(local, x)
     THEN /\ Creates(j, local, x) /\ src' = [src EXCEPT ![j] = remote[x].ino]
          /\ local' = Put(local, t, Node("file", dst'[j]))
          /\ Goto(j, "copy")
     ELSE Error(j) /\ UNCHANGED <<local, data, pos, src, dst>>
  /\ UNCHANGED <<remote, setup, at, size, walk, report>>

(* Pieces are read up to the end the source has by then, and written to    *)
(* the open file at their own offset.                                      *)
Copy(j) ==
  LET k == pos[j] + 1  from == data[src[j]]  to == data[dst[j]] IN
  /\ pc[j] = "copy"
  /\ IF k <= Len(from)
     THEN /\ data' = [data EXCEPT ![dst[j]] =
                       [i \in 1..(IF Len(to) > k THEN Len(to) ELSE k) |->
                          IF i = k THEN from[k]
                          ELSE IF i <= Len(to) THEN to[i] ELSE "hole"]]
          /\ pos' = [pos EXCEPT ![j] = k] /\ Goto(j, "copy")
     ELSE /\ Goto(j, IF work[j].op \in {"upload", "updir"} THEN "verify"
                                                           ELSE "replace")
          /\ UNCHANGED <<data, pos>>
  /\ UNCHANGED <<local, remote, setup, at, size, src, dst, walk, report>>

(* The server keeps less than it was sent.  Not of a source that was       *)
(* replaced after its size was taken: then two errors may cancel out, and  *)
(* comparing sizes finds neither.                                          *)
ShortWrite(j) ==
  /\ pc[j] = "copy" /\ work[j].op \in {"upload", "updir"}
  /\ size[j] = Len(data[src[j]])
  /\ faults < MaxFaults /\ faults' = faults + 1
  /\ pc' = [pc EXCEPT ![j] = "verify"]
  /\ UNCHANGED <<sides, setup, at, files, walk, report>>

UpTrust(j) ==   \* mutant: the size is not compared
  /\ pc[j] = "verify" /\ Goto(j, "rename")
  /\ UNCHANGED <<sides, setup, at, files, walk, report>>

UpVerifyLeave(j) ==   \* mutant: a mismatch returns at once
  LET t == TmpOf(at[j], j) IN
  /\ pc[j] = "verify"
  /\ IF Kind(remote, t) = "file" /\ Len(data[remote[t].ino]) = size[j]
     THEN Goto(j, "rename") ELSE Goto(j, "failed")
  /\ UNCHANGED <<sides, setup, at, files, walk, report>>

UpVerify(j) ==
  LET t == TmpOf(at[j], j) IN
  /\ pc[j] = "verify"
  /\ IF Kind(remote, t) = "file" /\ Len(data[remote[t].ino]) = size[j]
     THEN Goto(j, "rename") ELSE Error(j)
  /\ UNCHANGED <<sides, setup, at, files, walk, report>>

(* replace_remote_file: renamed at once when the name is free or the       *)
(* server overwrites; only SSH_FX_FAILURE leads to removing the old file.  *)
UpRename(j) ==
  LET x == at[j]  t == TmpOf(x, j)  kind == Kind(remote, x) IN
  /\ pc[j] = "rename"
  /\ IF Kind(remote, t) # "file"
     THEN Error(j) /\ UNCHANGED <<remote, count>>
     ELSE IF kind # "none" /\ ~(overwrites /\ kind # "dir")
     THEN Goto(j, "remove") /\ UNCHANGED <<remote, count>>
     ELSE /\ remote' = Moved(remote, t, x) /\ Counted(j)
          /\ Answered(j, FileDone(j))
  /\ UNCHANGED <<local, data, setup, at, files, walk, skipped>>

UpRemoveOld(j) ==
  LET x == at[j] IN
  /\ pc[j] = "remove"
  /\ IF Kind(remote, x) \in {"none", "dir"}
     THEN Error(j) /\ UNCHANGED remote
     ELSE remote' = Without(remote, x) /\ Answered(j, "again")
  /\ UNCHANGED <<local, data, setup, at, files, walk, report>>

UpRenameAgain(j) ==
  LET x == at[j]  t == TmpOf(x, j)  kind == Kind(remote, x) IN
  /\ pc[j] = "again"
  /\ IF Kind(remote, t) # "file" \/ (kind # "none" /\ ~overwrites)
     THEN Error(j) /\ UNCHANGED <<remote, count>>
     ELSE /\ remote' = Moved(remote, t, x) /\ Counted(j)
          /\ Answered(j, FileDone(j))
  /\ UNCHANGED <<local, data, setup, at, files, walk, skipped>>

UpSkip(j) ==   \* mutant: a file that failed is passed over
  /\ pc[j] = "cleanup"
  /\ remote' = Without(remote, TmpOf(at[j], j)) /\ Goto(j, FileDone(j))
  /\ UNCHANGED <<local, data, setup, at, files, walk, report>>

(* A failed upload removes its temporary file; a walk ends with it.        *)
UpCleanUp(j) ==
  /\ pc[j] = "cleanup"
  /\ remote' = Without(remote, TmpOf(at[j], j)) /\ Goto(j, "failed")
  /\ UNCHANGED <<local, data, setup, at, files, walk, report>>

DownReplace(j) ==
  LET x == at[j]  t == TmpOf(x, j) IN
  /\ pc[j] = "replace"
  /\ IF Kind(local, t) = "file" /\ Kind(local, x) # "dir"
     THEN local' = Moved(local, t, x) /\ Counted(j) /\ Goto(j, FileDone(j))
     ELSE Error(j) /\ UNCHANGED <<local, count>>
  /\ UNCHANGED <<remote, data, setup, at, files, walk, skipped>>

DownDiscard(j) ==
  /\ pc[j] = "discard"
  /\ local' = Without(local, TmpOf(at[j], j)) /\ Goto(j, "failed")
  /\ UNCHANGED <<remote, data, setup, at, files, walk, report>>
-----------------------------------------------------------------------------
(* A walk enters the directory at[j]. *)
Enter(j) ==
  LET x == at[j]  op == work[j].op  all == Range(Chain(x.path)) IN
  /\ pc[j] = "enter"
  /\ IF Len(stack[j]) > MaxDepth
        \/ (op = "updir" /\ Kind(local, x) # "dir")
        \/ (op = "downdir" /\ \E y \in all : Kind(local, y) \notin
                                               {"none", "dir"})
     THEN Goto(j, "failed") /\ UNCHANGED <<local, comps>>
     ELSE /\ Goto(j, IF op = "updir" THEN "ensure" ELSE "list")
          /\ comps' = [comps EXCEPT ![j] =
                         IF op = "updir" THEN Chain(x.path) ELSE <<>>]
          /\ local' = IF op = "downdir"
                      THEN [y \in DOMAIN local \cup all |->
                              IF y \in DOMAIN local THEN local[y]
                                                    ELSE Node("dir", NoFile)]
                      ELSE local
  /\ UNCHANGED <<remote, data, setup, at, files, stack, report>>

Entries(fs, d) == {[place |-> x, kind |-> fs[x].kind] : x \in Children(fs, d)}
Push(j, fs) ==
  stack' = [stack EXCEPT ![j] = <<[dir |-> at[j],
                                   left |-> Entries(fs, at[j])]>> \o @]

(* mkdir_p: each component is looked up first and created if missing; then *)
(* the local directory is read.                                            *)
Ensure(j) ==
  /\ pc[j] = "ensure"
  /\ IF comps[j] = <<>>
     THEN Push(j, local) /\ Goto(j, "walk") /\ UNCHANGED comps
     ELSE IF Kind(remote, Head(comps[j])) # "none"
     THEN /\ comps' = [comps EXCEPT ![j] = Tail(@)]
          /\ Goto(j, "ensure") /\ UNCHANGED stack
     ELSE Goto(j, "makedir") /\ UNCHANGED <<comps, stack>>
  /\ UNCHANGED <<sides, setup, at, files, report>>

(* create_dir, of mkdir_p and of mkdir (which then sets the mode). *)
MakeDir(j) ==
  LET x == IF pc[j] = "mkdir" THEN at[j] ELSE Head(comps[j]) IN
  /\ pc[j] \in {"makedir", "mkdir"}
  /\ IF Kind(remote, x) = "none" /\ Creatable(remote, x)
     THEN /\ remote' = Put(remote, x, Node("dir", NoFile))
          /\ comps' = [comps EXCEPT ![j] = IF @ = <<>> THEN @ ELSE Tail(@)]
          /\ \/ Answered(j, IF pc[j] = "mkdir" THEN "setmode" ELSE "ensure")
             \/ (pc[j] = "mkdir" /\ Goto(j, "done"))
     ELSE Goto(j, "failed") /\ UNCHANGED <<remote, comps>>
  /\ UNCHANGED <<local, data, setup, at, files, stack, report>>

SetMode(j) ==
  /\ pc[j] = "setmode"
  /\ Goto(j, IF Kind(remote, at[j]) = "none" THEN "failed" ELSE "done")
  /\ UNCHANGED <<sides, setup, at, files, walk, report>>

ListDir(j) ==
  /\ pc[j] = "list"
  /\ IF Kind(remote, at[j]) # "dir"
     THEN Goto(j, "failed") /\ UNCHANGED stack
     ELSE IF work[j].op = "list"
     THEN Goto(j, "done") /\ UNCHANGED stack
     ELSE Push(j, remote) /\ Goto(j, "walk")
  /\ UNCHANGED <<sides, setup, at, files, comps, report>>

(* What becomes of an entry; a special file is passed over when uploading. *)
Treatment(op, e) ==
  IF op = "rmrec" THEN IF e.kind = "dir" THEN "enter" ELSE "unlink"
  ELSE IF op = "downdir" /\ e.place.path \in Unsafe THEN "skip"
  ELSE CASE e.kind = "dir" -> "enter"
         [] e.kind = "file" -> IF op = "updir" THEN "stat" ELSE "open"
         [] OTHER -> IF e.kind = "link" \/ op = "downdir" THEN "skip"
                                                          ELSE "ignore"

WalkEntry(j) ==
  /\ pc[j] = "walk"
  /\ \E e \in stack[j][1].left :
       LET next == Treatment(work[j].op, e) IN
       /\ stack' = [stack EXCEPT ![j][1].left = @ \ {e}]
       /\ IF next \in {"skip", "ignore"}
          THEN Goto(j, "walk") /\ UNCHANGED at
          ELSE Goto(j, next) /\ at' = [at EXCEPT ![j] = e.place]
       /\ skipped' = [skipped EXCEPT ![j] =
                        IF next = "skip" THEN @ \cup {e.place} ELSE @]
  /\ UNCHANGED <<sides, setup, files, comps, count>>

(* A directory is finished: its parent goes on, or the operation ends.     *)
After(j) == IF Len(stack[j]) > 1 THEN "walk" ELSE "done"
Leave(j) ==
  /\ pc[j] = "walk" /\ stack[j][1].left = {}
  /\ IF work[j].op = "rmrec"
     THEN /\ Goto(j, "rmdir") /\ at' = [at EXCEPT ![j] = stack[j][1].dir]
          /\ UNCHANGED stack
     ELSE /\ Goto(j, After(j)) /\ stack' = [stack EXCEPT ![j] = Tail(@)]
          /\ UNCHANGED at
  /\ UNCHANGED <<sides, setup, files, comps, report>>

Unlink(j) ==
  /\ pc[j] = "unlink"
  /\ IF Kind(remote, at[j]) \in {"none", "dir"}
     THEN Goto(j, "failed") /\ UNCHANGED remote
     ELSE remote' = Without(remote, at[j]) /\ Answered(j, FileDone(j))
  /\ UNCHANGED <<local, data, setup, at, files, walk, report>>

RemoveDir(j) ==
  /\ pc[j] = "rmdir"
  /\ IF Kind(remote, at[j]) = "dir" /\ Children(remote, at[j]) = {}
     THEN /\ remote' = Without(remote, at[j]) /\ Answered(j, After(j))
          /\ stack' = [stack EXCEPT ![j] = Tail(@)]
     ELSE Goto(j, "failed") /\ UNCHANGED <<remote, stack>>
  /\ UNCHANGED <<local, data, setup, at, files, comps, report>>

JobStep(j) ==
  \/ Transfer(j) \/ TransferDir(j) \/ MkdirRequest(j) \/ ListRequest(j)
  \/ RemoveRequest(j) \/ ChmodRequest(j)
  \/ UpStat(j) \/ UpCreate(j) \/ DownOpen(j) \/ Copy(j) \/ UpVerify(j)
  \/ UpRename(j) \/ UpRemoveOld(j) \/ UpRenameAgain(j) \/ UpCleanUp(j)
  \/ DownReplace(j) \/ DownDiscard(j)
  \/ Enter(j) \/ Ensure(j) \/ MakeDir(j) \/ SetMode(j) \/ ListDir(j)
  \/ WalkEntry(j) \/ Leave(j) \/ Unlink(j) \/ RemoveDir(j)

TransferNext == \/ \E j \in Job : \/ JobStep(j) \/ RequestFails(j) \/ JobDies(j)
                          \/ ShortWrite(j)
        \/ \E p \in Edited : Edit(Plain(p))
TransferSpec == TransferInit /\ [][TransferNext]_transferVars
-----------------------------------------------------------------------------
Op(ops) == {j \in Job : work[j].op \in ops}

(* Wherever a job stops, a file under its own name is whole, on both sides:*)
(* never a part, never a mixture of two sources.  This holds of any two    *)
(* jobs with stamps of their own; of three it can be false, when two walks *)
(* carry the unfinished temporary file of the third to the other side and  *)
(* back over itself.                                                       *)
WholeFiles ==
  \A x \in {Plain(p) : p \in Path} :
     /\ Kind(local, x) = "file" => HoldsWhole(local, x)
     /\ Kind(remote, x) = "file" => HoldsWhole(remote, x)

(* While nothing fails and nobody removes anything, a remote file that     *)
(* existed is there, or the upload that removed it holds the whole new     *)
(* content and is about to rename it (replace_remote_file).                *)
OneCopyRemains ==
  faults = 0 /\ Op({"remove", "rmrec"}) = {} =>
  \A p \in Path : Remote[p] = "file" /\ Plain(p) \notin DOMAIN remote =>
     \E j \in Job : /\ pc[j] = "again" /\ at[j] = Plain(p)
                    /\ HoldsWhole(remote, TmpOf(at[j], j))

(* A transfer that ended, by success or by whatever failure, has left no   *)
(* temporary file of its own, unless it died or the removal failed too.    *)
NoLeftovers ==
  \A j \in Job : pc[j] \in {"done", "failed"} =>
     \A x \in (IF work[j].op \in {"download", "downdir"} THEN DOMAIN local
                                                         ELSE DOMAIN remote) :
        x.tmp = <<>> \/ x.tmp[Len(x.tmp)] # Stamp[j]

(* When a directory transfer reports success and no other job wrote, every *)
(* entry of the source has its counterpart or is among those skipped, and  *)
(* the count is the number of files copied; special files of an upload are *)
(* the exception.                                                          *)
ReportIsComplete ==
  \A j \in Op({"updir", "downdir"}) :
     pc[j] = "done" /\ Op(Operations \ {"list", "chmod"}) = {j} =>
     LET up == work[j].op = "updir"
         from == IF up THEN local ELSE remote
         to == IF up THEN remote ELSE local
         hidden(x) == ~up /\ (x.path \in Unsafe \/ Up[x.path] \in Unsafe)
     IN
     /\ \A x \in {y \in DOMAIN from : ~hidden(y)} :
          \/ (from[x].kind \in {"dir", "file"} /\ Kind(to, x) = from[x].kind)
          \/ x \in skipped[j] \/ (up /\ from[x].kind = "special")
     /\ count[j] = Cardinality({x \in DOMAIN from :
                                  from[x].kind = "file" /\ ~hidden(x)})

(* A transfer that has ended has done what it says and left nothing else.  *)
EndsClean == TransferTypeOK /\ NoLeftovers /\ ReportIsComplete
=============================================================================
