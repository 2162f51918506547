------------------------------ MODULE FileTree ------------------------------
(***************************************************************************)
(* The commands that walk a directory tree: copy (commands/copy.c) with    *)
(* what it removes and makes on its way, and sizeof (commands/sizeof.c),   *)
(* over the walk of platfree/fileiter.c and platspec/unix/fileiter.c.      *)
(*                                                                         *)
(* A path is the sequence of its names, the file system a function from    *)
(* the paths that exist to what they are.  Every system call that changes  *)
(* or reads the file system may fail, and other programs change the source *)
(* while it is copied.  The pool of copy threads is left to CpSched: here  *)
(* it takes files, copies some of them before it is joined, and remembers  *)
(* a failure.                                                              *)
(***************************************************************************)
EXTENDS Integers, SequencesExt

CONSTANTS
  Name,         \* the names a directory entry may have
  Width,        \* the length of each name
  Jobs,         \* the command lines, each with the file system it finds
  MaxDepth,     \* PATH_MAX, counted in names
  MaxTroubles   \* how many system calls fail, and entries other programs make or
                \* remove in the source, together

\* part: a regular file of which only the beginning was copied.
Kind == {"dir", "reg", "empty", "lnk", "fifo", "part"}

\* Whatever exists stands in a directory that stands in a directory, up to the root.
IsTree(f) ==
  \A p \in DOMAIN f :
    /\ p \in Seq(Name) /\ f[p] \in Kind
    /\ \A i \in 0..Len(p) - 1 : SubSeq(p, 1, i) \in DOMAIN f /\ f[SubSeq(p, 1, i)] = "dir"

\* Nothing is copied to the root, which exists and cannot be removed.
ASSUME FileTreeAssumption ==
  /\ Width \in [Name -> Nat \ {0}]
  /\ MaxDepth \in Nat
  /\ MaxTroubles \in Nat
  /\ \A j \in Jobs : /\ j.cmd \in {"copy", "sizeof"} /\ j.force \in BOOLEAN
                     /\ j.src \in Seq(Name) /\ j.dst \in Seq(Name) \ {<<>>}
                     /\ IsTree(j.was) /\ IsFiniteSet(DOMAIN j.was)
                     /\ <<>> \in DOMAIN j.was /\ j.was[<<>>] = "dir"

VARIABLES
  job,       \* the command line, and the file system at its start
  fs,        \* the file system
  pc,        \* how far the command is
  walk,      \* fileiter()'s context: its root, the directory it is in, its list of others
  pool,      \* the copy threads' state
  queue,     \* files the copy threads have accepted and not copied
  lost,      \* entries that were passed over though no error was reported for them, and why
  info,      \* what sizeof has added up
  result,    \* how the command ended
  faults,    \* how many system calls have failed
  changed    \* what other programs have made or removed in the source

vars == <<job, fs, pc, walk, pool, queue, lost, info, result, faults, changed>>
dataVars == <<fs, queue, lost, info, faults>>

Mode == {"makedir", "cpyfile", "do_rmdirr", "accumsize"}
Why == {"unset", "missed", "short", "dropped", "unread"}

\* st_size; a symbolic link's is the length of its target.
Size == [dir |-> 4, reg |-> 2, empty |-> 0, lnk |-> 1, fifo |-> 0, part |-> 1]
SizeOfEmpty == 64

With(f, p, k) == [q \in DOMAIN f \cup {p} |-> IF q = p THEN k ELSE f[q]]
Without(f, p) == [q \in DOMAIN f \ {p} |-> f[q]]
KidsIn(f, p) == {q \in DOMAIN f : q # <<>> /\ Front(q) = p}
Kids(p) == KidsIn(fs, p)
IsA(p, k) == p \in DOMAIN fs /\ fs[p] = k
IsDir(p) == IsA(p, "dir")
Under(p, root) == IsPrefix(root, p)

\* The path of a source entry's copy: its part after the root, behind the destination.
DestOf(p) == job.dst \o SubSeq(p, Len(job.src) + 1, Len(p))

\* The length of the path's text, which is all the walk compares.
TextLen(p) == FoldLeft(LAMBDA n, x : n + (1 + Width[x]), 0, p)
Dirname(p) == Front(p)

-----------------------------------------------------------------------------
(* System calls.  Any of them may fail. *)

MoreTrouble == faults + Cardinality(changed) < MaxTroubles
Fault == MoreTrouble /\ faults' = faults + 1
NoFault == UNCHANGED faults
FailsIf(cause) == (cause /\ NoFault) \/ Fault

MayCreate(p) ==
  /\ p \notin DOMAIN fs
  /\ Len(p) <= MaxDepth
  /\ IsDir(Front(p))

Create(p, k) == MayCreate(p) /\ fs' = With(fs, p, k) /\ NoFault

-----------------------------------------------------------------------------
(* What the walk calls for an entry.  r is the value it returns. *)

\* Mutant of makedir: a directory that exists is nothing to complain of.
makedirTolerant(p, r) ==
  /\ \/ r = "ok" /\ Create(DestOf(p), "dir")
     \/ r = "ok" /\ DestOf(p) \in DOMAIN fs /\ NoFault /\ UNCHANGED fs
     \/ r = "error" /\ FailsIf(~MayCreate(DestOf(p)) /\ DestOf(p) \notin DOMAIN fs) /\ UNCHANGED fs
  /\ UNCHANGED <<queue, lost, info>>

makedir(p, r) ==
  /\ \/ r = "ok" /\ Create(DestOf(p), "dir")
     \/ r = "error" /\ FailsIf(~MayCreate(DestOf(p))) /\ UNCHANGED fs
  /\ UNCHANGED <<queue, lost, info>>

\* copy_regfile(): a source that cannot be opened leaves the result unset, a destination
\* that cannot be created leaves fstat()'s, which is a success; so is a copy that ends
\* before the source does.
copy_regfile(p, k, r) ==
  \/ /\ r \in {"ok", "error"}
     /\ FailsIf(p \notin DOMAIN fs)
     /\ lost' = IF r = "ok" THEN lost \cup {<<p, "unset">>} ELSE lost
     /\ UNCHANGED fs
  \/ r = "error" /\ Fault /\ UNCHANGED <<fs, lost>>
  \/ /\ r = "ok"
     /\ FailsIf(~MayCreate(DestOf(p)))
     /\ lost' = lost \cup {<<p, "missed">>}
     /\ UNCHANGED fs
  \/ /\ r = "ok" /\ k = "reg"
     /\ MayCreate(DestOf(p)) /\ Fault
     /\ fs' = With(fs, DestOf(p), "part")
     /\ lost' = lost \cup {<<p, "short">>}
  \/ r = "ok" /\ p \in DOMAIN fs /\ Create(DestOf(p), k) /\ UNCHANGED lost

\* copy_symlink() reports what goes wrong.
copy_symlink(p, r) ==
  /\ \/ r = "ok" /\ p \in DOMAIN fs /\ Create(DestOf(p), "lnk")
     \/ r = "error" /\ FailsIf(p \notin DOMAIN fs \/ ~MayCreate(DestOf(p))) /\ UNCHANGED fs
  /\ UNCHANGED lost

Copy(p, k, r) == IF k = "lnk" THEN copy_symlink(p, r) ELSE copy_regfile(p, k, r)

\* cpyfile(): the copy threads take the file, or they are busy and it is copied here, or
\* one of them has failed and the walk ends.
cpyfile(p, k, r) ==
  /\ \/ /\ r = "ok" /\ pool = "running"
        /\ queue' = queue \cup {<<p, k>>}
        /\ UNCHANGED <<fs, lost, faults>>
     \/ pool = "running" /\ k # "fifo" /\ Copy(p, k, r) /\ UNCHANGED queue
     \/ r = "error" /\ pool = "error" /\ UNCHANGED <<fs, lost, queue, faults>>
  /\ UNCHANGED info

do_rmdirr(p, r) ==
  /\ \/ r = "ok" /\ p \in DOMAIN fs /\ Kids(p) = {} /\ NoFault /\ fs' = Without(fs, p)
     \/ r = "error" /\ FailsIf(p \notin DOMAIN fs \/ Kids(p) # {}) /\ UNCHANGED fs
  /\ UNCHANGED <<queue, lost, info>>

accumsize(p, k, r) ==
  /\ r = "ok"
  /\ info' = IF k = "dir" THEN [info EXCEPT !.dirs = @ + 1]
             ELSE [info EXCEPT !.files = @ + 1,
                               !.size = @ + IF Size[k] = 0 THEN SizeOfEmpty ELSE Size[k]]
  /\ UNCHANGED <<fs, queue, lost, faults>>

Callback(p, k, r) ==
  CASE walk.mode = "makedir"   -> makedir(p, r)
    [] walk.mode = "cpyfile"   -> cpyfile(p, k, r)
    [] walk.mode = "do_rmdirr" -> do_rmdirr(p, r)
    [] walk.mode = "accumsize" -> accumsize(p, k, r)

-----------------------------------------------------------------------------
(* fileiter() *)

\* Mutant of ListsDirs: sizeof's walk does not call back for directories.
ListsDirsMade(mode) == mode = "makedir"

\* FITER_LIST_DIR: directories are dispatched when the walk enters them.
ListsDirs(mode) == mode \in {"makedir", "accumsize"}

Enter(mode, root, dir, stack) ==
  [mode |-> mode, root |-> root, dir |-> dir, stack |-> stack, listing |-> {},
   at |-> IF ListsDirs(mode) THEN "enter" ELSE "open", sb |-> dir, upto |-> -1]
NoWalk == Enter("cpyfile", <<>>, <<>>, <<>>)

\* Mutant of Begin: the root is on the list, too.
BeginTwice(mode, root) == walk' = Enter(mode, root, root, <<root>>)

Begin(mode, root) == walk' = Enter(mode, root, root, <<>>)

End(r) == pc' = "over" /\ result' = r /\ walk' = NoWalk

\* The walk is over; its caller goes on.
Leave(r) ==
  \/ /\ walk.mode = "makedir" /\ r = "ok"
     /\ pc' = "files" /\ pool' = "running" /\ Begin("cpyfile", job.src) /\ UNCHANGED result
  \/ walk.mode = "cpyfile" /\ pc' = "join" /\ result' = r /\ walk' = NoWalk /\ UNCHANGED pool
  \/ walk.mode = "do_rmdirr" /\ r = "ok" /\ pc' = "parent" /\ walk' = NoWalk /\ UNCHANGED <<result, pool>>
  \/ walk.mode = "do_rmdirr" /\ r = "error" /\ End("died") /\ UNCHANGED pool
  \/ walk.mode = "makedir" /\ r = "error" /\ End("error") /\ UNCHANGED pool
  \/ walk.mode = "accumsize" /\ End(r) /\ UNCHANGED pool

Walking == pc \in {"remove", "mkdirs", "files", "sizeof"}
GoOn(w) == walk' = w /\ UNCHANGED <<pc, pool, result>>

\* The callback is called; an error ends the walk, or the walk goes on as w says.
Dispatch(p, k, w) ==
  \E r \in {"ok", "error"} :
    /\ Callback(p, k, r)
    /\ IF r = "ok" THEN GoOn(w) ELSE Leave("error")

EnterDir ==
  /\ Walking /\ walk.at = "enter"
  /\ Dispatch(walk.dir, "dir", [walk EXCEPT !.at = "open"])
  /\ UNCHANGED <<job, changed>>

\* opendir()
OpenDir ==
  /\ Walking /\ walk.at = "open"
  /\ \/ /\ IsDir(walk.dir) /\ NoFault
        /\ GoOn([walk EXCEPT !.at = "read", !.listing = {<<p, fs[p]>> : p \in Kids(walk.dir)}])
     \/ FailsIf(~IsDir(walk.dir)) /\ Leave("error")
  /\ UNCHANGED <<job, fs, queue, lost, info, changed>>

\* readdir() and dispatch_file(): a directory is put on the list, other entries go to the
\* callback.
ReadEntry(p, k) ==
  LET rest == [walk EXCEPT !.listing = @ \ {<<p, k>>}] IN
  /\ Walking /\ walk.at = "read"
  /\ <<p, k>> \in walk.listing
  /\ \/ /\ k = "dir"
        /\ GoOn([rest EXCEPT !.stack = Append(@, p)]) /\ UNCHANGED dataVars
     \/ k # "dir" /\ walk.mode = "makedir" /\ GoOn(rest) /\ UNCHANGED dataVars
     \/ /\ k # "dir" /\ walk.mode # "makedir"
        /\ walk.mode = "accumsize" => p \in DOMAIN fs
        /\ Dispatch(p, k, rest)
  /\ UNCHANGED <<job, changed>>

\* What the walk does not come to without the rest of its directory.
Skipped == {q \in DOMAIN fs : /\ walk.mode # "do_rmdirr"
                              /\ walk.mode = "makedir" => fs[q] = "dir"
                              /\ \E e \in walk.listing : Under(q, e[1])}

\* readdir() fails, and the loop takes that for the end of the directory: the rest is passed
\* over without a word.  (When the first call fails, loop_dir() returns a value it never
\* set: this step, or OpenDir's error.)
ReadFails ==
  /\ Walking /\ walk.at = "read" /\ walk.listing # {}
  /\ Fault
  /\ GoOn([walk EXCEPT !.listing = {}])
  /\ lost' = lost \cup {<<q, "unread">> : q \in Skipped}
  /\ UNCHANGED <<job, fs, queue, info, changed>>

\* The entry's type is not known (makedir()'s walk passes such an entry over, cpyfile()'s
\* finds it again), or sizeof's stat() fails: for a file that is no link, close() is then
\* given the descriptor -1, against cntclose()'s BUG_ON.
EntryFails(p, k) ==
  /\ Walking /\ walk.at = "read"
  /\ <<p, k>> \in walk.listing
  /\ \/ walk.mode # "makedir" /\ Fault /\ Leave("error")
     \/ /\ walk.mode = "accumsize" /\ k # "dir"
        /\ FailsIf(p \notin DOMAIN fs)
        /\ IF k = "lnk" THEN Leave("error") ELSE End("bug") /\ UNCHANGED pool
  /\ UNCHANGED <<job, fs, queue, lost, info, changed>>

\* open() of a fifo that nobody writes to does not return.
OpenFifo(p, k) ==
  /\ Walking /\ walk.at = "read" /\ walk.mode = "cpyfile"
  /\ <<p, k>> \in walk.listing /\ k = "fifo"
  /\ pool = "running"
  /\ GoOn([walk EXCEPT !.at = "blocked"])
  /\ UNCHANGED <<job, dataVars, changed>>

\* Mutant of NextDir: a directory is done as soon as the next one is no child of it.
NextDirOnce ==
  /\ Walking /\ walk.at = "read" /\ walk.listing = {}
  /\ IF walk.stack = <<>>
       THEN IF walk.mode = "do_rmdirr"
              THEN GoOn([walk EXCEPT !.at = "up", !.sb = walk.dir, !.upto = -1]) /\ UNCHANGED dataVars
              ELSE Leave("ok") /\ UNCHANGED dataVars
       ELSE LET next == Last(walk.stack)
                w == Enter(walk.mode, walk.root, next, Front(walk.stack))
            IN  IF \/ walk.mode # "do_rmdirr"
                   \/ TextLen(walk.dir) = TextLen(Dirname(next))
                  THEN GoOn(w) /\ UNCHANGED dataVars
                  ELSE Dispatch(walk.dir, "dir", w)
  /\ UNCHANGED <<job, changed>>

\* Mutant of NextDir: the last directory is read again where it should be dispatched.
NextDirAgain ==
  /\ Walking /\ walk.at = "read" /\ walk.listing = {}
  /\ IF walk.stack = <<>>
       THEN IF walk.mode = "do_rmdirr"
              THEN GoOn([walk EXCEPT !.at = "open"]) /\ UNCHANGED dataVars
              ELSE Leave("ok") /\ UNCHANGED dataVars
       ELSE GoOn(Enter(walk.mode, walk.root, Last(walk.stack), Front(walk.stack))) /\ UNCHANGED dataVars
  /\ UNCHANGED <<job, changed>>

\* The directory is read.  The next one comes from the end of the list; a walk that
\* dispatches directories after what they hold (FITER_RECUR_DIR) first has to find out
\* which directories are done with, and does so by the lengths of the names.
NextDir ==
  /\ Walking /\ walk.at = "read" /\ walk.listing = {}
  /\ IF walk.stack = <<>>
       THEN IF walk.mode = "do_rmdirr"
              THEN GoOn([walk EXCEPT !.at = "up", !.sb = walk.dir, !.upto = -1]) /\ UNCHANGED dataVars
              ELSE Leave("ok") /\ UNCHANGED dataVars
       ELSE LET next == Last(walk.stack)
                ndrlen == TextLen(Dirname(next))
                w == Enter(walk.mode, walk.root, next, Front(walk.stack))
            IN  IF walk.mode # "do_rmdirr" \/ TextLen(walk.dir) = ndrlen
                  THEN GoOn(w) /\ UNCHANGED dataVars
                ELSE IF TextLen(Dirname(walk.dir)) = ndrlen
                  THEN Dispatch(walk.dir, "dir", w)
                ELSE /\ GoOn([w EXCEPT !.at = "up", !.sb = walk.dir, !.upto = ndrlen])
                     /\ UNCHANGED dataVars
  /\ UNCHANGED <<job, changed>>

\* Mutant of Unwind: the walk does not stop at its root.
UnwindPastRoot ==
  /\ Walking /\ walk.at = "up"
  /\ \E r \in {"ok", "error"} :
       /\ Callback(walk.sb, "dir", r)
       /\ IF r = "error" THEN Leave("error")
          ELSE IF Len(walk.sb) = 1 THEN Leave("ok")
          ELSE GoOn([walk EXCEPT !.sb = Dirname(@),
                                 !.at = IF TextLen(Dirname(walk.sb)) = walk.upto THEN "open" ELSE "up"])
  /\ UNCHANGED <<job, changed>>

\* "previous branch is done": dispatch the directory, then its parent, ...
Unwind ==
  /\ Walking /\ walk.at = "up"
  /\ \E r \in {"ok", "error"} :
       /\ Callback(walk.sb, "dir", r)
       /\ IF r = "error" THEN Leave("error")
          ELSE IF TextLen(walk.sb) = TextLen(walk.root) THEN Leave("ok")
          ELSE GoOn([walk EXCEPT !.sb = Dirname(@),
                                 !.at = IF TextLen(Dirname(walk.sb)) = walk.upto THEN "open" ELSE "up"])
  /\ UNCHANGED <<job, changed>>

WalkStep ==
  \/ EnterDir \/ OpenDir \/ ReadFails \/ NextDir \/ Unwind
  \/ \E e \in walk.listing :
       \/ ReadEntry(e[1], e[2])
       \/ EntryFails(e[1], e[2])
       \/ OpenFifo(e[1], e[2])

-----------------------------------------------------------------------------
(* The copy threads. *)

\* A thread copies a file it took from the queue; a failure is kept in the pool's state.
\* One that opens a fifo stays there.
WorkerCopies(p, k) ==
  /\ <<p, k>> \in queue /\ k \notin {"fifo", "open"}
  /\ \E r \in {"ok", "error"} : Copy(p, k, r) /\ pool' = IF r = "ok" THEN pool ELSE "error"
  /\ queue' = queue \ {<<p, k>>}
  /\ UNCHANGED <<job, pc, walk, info, result, changed>>

WorkerBlocks(p, k) ==
  /\ <<p, k>> \in queue /\ k = "fifo"
  /\ queue' = (queue \ {<<p, k>>}) \cup {<<p, "open">>}
  /\ UNCHANGED <<job, fs, pc, walk, pool, lost, info, result, faults, changed>>

-----------------------------------------------------------------------------
(* copy() *)

Goto(l) == pc' = l /\ UNCHANGED <<walk, result>>

Access ==
  /\ pc = "access"
  /\ \/ FailsIf(job.dst \notin DOMAIN fs \/ IsA(job.dst, "lnk")) /\ Goto("parent")
     \/ job.dst \in DOMAIN fs /\ job.force /\ NoFault /\ Goto("unlink")
     \/ job.dst \in DOMAIN fs /\ ~job.force /\ NoFault /\ End("died")
  /\ UNCHANGED <<job, fs, pool, queue, lost, info, changed>>

\* flexremove(): what unlink() takes for a directory is removed with all it holds.
FlexRemove ==
  /\ pc = "unlink"
  /\ \/ /\ job.dst \in DOMAIN fs /\ ~IsDir(job.dst) /\ NoFault
        /\ fs' = Without(fs, job.dst)
        /\ Goto("parent")
     \/ /\ IsDir(job.dst) /\ NoFault
        /\ pc' = "remove" /\ Begin("do_rmdirr", job.dst)
        /\ UNCHANGED <<fs, result>>
     \/ FailsIf(job.dst \notin DOMAIN fs) /\ End("died") /\ UNCHANGED fs
  /\ UNCHANGED <<job, pool, queue, lost, info, changed>>

\* mkfdirp(): one mkdir() after the other, n of them without an error; whatever exists
\* under a name counts as the directory.  Of a destination right under the root no name is
\* left to make, and mkdir("") fails.
MakeParents ==
  LET part(i) == SubSeq(job.dst, 1, i)
      solid(i) == part(i) \in DOMAIN fs /\ ~IsDir(part(i))
      all == Len(job.dst) - 1
  IN
  /\ pc = "parent"
  /\ \E n \in 0..all :
       /\ n <= MaxDepth /\ \A i \in 1..(n - 1) : ~solid(i)
       /\ fs' = [q \in DOMAIN fs \cup {part(i) : i \in 1..n} |-> IF q \in DOMAIN fs THEN fs[q] ELSE "dir"]
       /\ \/ n = all /\ all > 0 /\ NoFault /\ pc' = "mkdirs" /\ Begin("makedir", job.src) /\ UNCHANGED result
          \/ /\ n < all \/ all = 0
             /\ FailsIf(all = 0 \/ n = MaxDepth \/ (n > 0 /\ solid(n))) /\ End("error")
  /\ UNCHANGED <<job, pool, queue, lost, info, changed>>

\* Mutant of Join: the walk's result is the command's.
JoinUnasked ==
  /\ pc = "join"
  /\ \A e \in queue : e[2] # "open"
  /\ End(result)
  /\ lost' = lost \cup {<<e[1], "dropped">> : e \in queue}
  /\ queue' = {}
  /\ pool' = "none"
  /\ UNCHANGED <<job, fs, info, faults, changed>>

\* cpsched_join(), if it returns: what is still in the queue stays there (CpSched shows how,
\* and how a thread may sleep on, so that it does not return).
Join ==
  /\ pc = "join"
  /\ \A e \in queue : e[2] # "open"
  /\ End(IF result = "ok" /\ pool = "running" THEN "ok" ELSE "error")
  /\ lost' = lost \cup {<<e[1], "dropped">> : e \in queue}
  /\ queue' = {}
  /\ pool' = "none"
  /\ UNCHANGED <<job, fs, info, faults, changed>>

-----------------------------------------------------------------------------
(* cmd_sizeof() for one path. *)

Stat ==
  /\ pc = "stat"
  /\ \/ FailsIf(job.src \notin DOMAIN fs) /\ End("error") /\ UNCHANGED info
     \/ /\ job.src \in DOMAIN fs /\ NoFault
        /\ info' = [size |-> Size[fs[job.src]], files |-> 1, dirs |-> 0]
        /\ IF IsDir(job.src)
             THEN pc' = "sizeof" /\ Begin("accumsize", job.src) /\ UNCHANGED result
             ELSE End(IF info'.size = 0 THEN "error" ELSE "ok")
  /\ UNCHANGED <<job, fs, pool, queue, lost, changed>>

-----------------------------------------------------------------------------
\* Another program makes a file or a directory in the source, or removes one.  A
\* directory that is being read may or may not show it.
Outside(p) ==
  /\ pc # "over"
  /\ MoreTrouble /\ p \notin changed
  /\ IsDir(Front(p)) /\ Under(Front(p), job.src)
  /\ changed' = changed \cup {p}
  /\ \/ /\ p \in DOMAIN fs /\ Kids(p) = {}
        /\ fs' = Without(fs, p)
        /\ walk' \in {walk, [walk EXCEPT !.listing = {e \in @ : e[1] # p}]}
     \/ /\ p \notin DOMAIN fs
        /\ \E k \in {"reg", "dir"} :
             /\ fs' = With(fs, p, k)
             /\ walk' \in {walk} \cup
                  {[walk EXCEPT !.listing = @ \cup {<<p, k>>}] :
                     x \in {d \in {walk.dir} : walk.at = "read" /\ d = Front(p)}}
  /\ UNCHANGED <<job, pc, pool, queue, lost, info, result, faults>>

Init ==
  /\ job \in Jobs
  /\ fs = job.was
  /\ pc = IF job.cmd = "copy" THEN "access" ELSE "stat"
  /\ walk = NoWalk
  /\ pool = "none"
  /\ queue = {} /\ lost = {}
  /\ info = [size |-> 0, files |-> 0, dirs |-> 0]
  /\ result = "ok"
  /\ faults = 0
  /\ changed = {}

Running ==
  \/ WalkStep
  \/ Access \/ FlexRemove \/ MakeParents \/ Stat
  \/ \E e \in queue : WorkerCopies(e[1], e[2]) \/ WorkerBlocks(e[1], e[2])

CommandStep == Running \/ Join

InOpen == walk.at = "blocked" \/ \E e \in queue : e[2] = "open"

\* The command is over, or hangs in an open().
Done == (pc = "over" \/ InOpen) /\ UNCHANGED vars

Next ==
  \/ CommandStep
  \/ \E d \in DOMAIN fs, x \in Name : Outside(Append(d, x))
  \/ Done

\* The process runs; the join need not return.
Spec == Init /\ [][Next]_vars /\ WF_vars(Running)

-----------------------------------------------------------------------------
(* Properties. *)

TypeOK ==
  /\ \A p \in DOMAIN fs : p \in Seq(Name) /\ fs[p] \in Kind
  /\ pc \in {"access", "unlink", "remove", "parent", "mkdirs", "files", "join",
             "stat", "sizeof", "over"}
  /\ walk.mode \in Mode
  /\ walk.at \in {"enter", "open", "read", "up", "blocked"}
  /\ \A i \in DOMAIN walk.stack : IsStrictPrefix(walk.root, walk.stack[i])
  /\ pool \in {"none", "running", "error"}
  /\ \A e \in queue : Under(e[1], job.src) /\ e[2] \in (Kind \cup {"open"}) \ {"dir"}
  /\ \A l \in lost : Under(l[1], job.src) /\ l[2] \in Why
  /\ info \in [size : Nat, files : Nat, dirs : Nat]
  /\ result \in {"ok", "error", "died", "bug"}
  /\ faults + Cardinality(changed) <= MaxTroubles

Apart == ~Under(job.src, job.dst) /\ ~Under(job.dst, job.src)
Original == {p \in DOMAIN job.was : Under(p, job.src)}
\* (The destination itself is made before the source is looked at.)
Copied == {job.dst} \cup {DestOf(p) : p \in Original \cup changed}
TooLong(p) == Len(DestOf(p)) > MaxDepth
AtDest == {q \in DOMAIN fs : Under(q, job.dst)}

\* A copy that reports success has copied every entry that was in the source all the time,
\* as what it is and to its place, and nothing else, up to those of a known fate: what the
\* threads still had in their queue, a file whose name would be too long at the destination
\* (which is warned of, and a success: unix/fcpy.c:24), and what a failed system call or a
\* change of the source made it pass over (the rest of a directory, when readdir() fails).
CopyIsWhole ==
  (pc = "over" /\ result = "ok" /\ job.cmd = "copy" /\ Apart) =>
    /\ \A p \in Original \ changed :
         \/ DestOf(p) \in DOMAIN fs /\ fs[DestOf(p)] = job.was[p]
         \/ \E w \in Why : <<p, w>> \in lost
    /\ AtDest \subseteq Copied
    /\ \A l \in lost : l[2] = "dropped" \/ TooLong(l[1]) \/ faults > 0 \/ changed # {}

\* What an earlier copy left at the destination and what this one puts there are never
\* there together, whatever fails: an old tree is removed to the end or not added to.
NeverMixed ==
  Apart => \/ \A q \in AtDest : q \in DOMAIN job.was /\ fs[q] = job.was[q]
           \/ AtDest \subseteq Copied /\ pc \notin {"access", "unlink", "remove"}

\* The copy and the removal before it touch nothing outside the destination.
OnlyDestTouched ==
  Apart => \A p \in DOMAIN job.was \ changed :
             Under(p, job.dst) \/ (p \in DOMAIN fs /\ fs[p] = job.was[p])

\* Removing a tree of any shape reaches every directory after all it holds, once: rmdirr()
\* fails only if a system call does.
RemovalHasCause == (Apart /\ job.cmd = "copy" /\ result = "died" /\ job.force) => faults > 0

\* sizeof counts once what accumsize() takes for every directory and every file, but for what
\* a failing readdir() hides: nothing else is passed over or seen twice.  (It takes 64 bytes for
\* an empty file, against sizeof.c:7-8, and the directory it was given for a file, too.)
SizesAddUp ==
  (pc = "over" /\ result = "ok" /\ job.cmd = "sizeof" /\ changed = {} /\ IsDir(job.src)) =>
    LET read == {p \in Original : <<p, "unread">> \notin lost}
        files == {p \in read : ~IsDir(p)}
    IN  /\ info.dirs = Cardinality(read \ files)
        /\ info.files = Cardinality(files) + 1
        /\ info.size = Size["dir"] + MapThenSumSet(LAMBDA p : IF Size[fs[p]] = 0 THEN SizeOfEmpty ELSE Size[fs[p]], files)

\* Every walk ends, for every tree and whatever fails: a command comes to its end, or to the
\* join of its copy threads (which CpSched is about), or opens a fifo.
CommandEnds == <>(pc \in {"over", "join"} \/ InOpen)

=============================================================================
