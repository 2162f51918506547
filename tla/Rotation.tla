------------------------------ MODULE Rotation -------------------------------
(***************************************************************************)
(* How a routine makes room for the next backup of a configuration:        *)
(* backup() and what it calls in platfree/backup.c, one action per system  *)
(* call.                                                                   *)
(*                                                                         *)
(* The backups of a configuration are the files <prefix>.0 (the oldest) to *)
(* <prefix>.<stack - 1>.  A rotation closes the gaps between them, drops   *)
(* number 0 when there is no gap, closes the gap this left, and picks the  *)
(* number after the newest.  (The call that would then write the backup is *)
(* commented out, backup.c:173.)                                           *)
(***************************************************************************)
EXTENDS Integers, FiniteSets

CONSTANTS
  Sav,        \* the configurations
  Routine,    \* the threads that call backup()
  Stack,      \* a configuration's stack; 1..255, checked by check_stack() and its type
  Backup,     \* backups that may exist
  NoBackup,   \* what a free slot holds
  NoSav       \* a routine has no configuration

ASSUME RotationAssumption ==
  /\ Stack \in 1..255
  /\ NoBackup \notin Backup
  /\ NoSav \notin Sav

VARIABLES
  slot,   \* what each configuration's slots hold
  job,    \* each routine's rotation: where it is, and backup_fetch_sort()'s variables
  start   \* what the slots held when the routine's rotation began (not in the code)

vars == <<slot, job, start>>

Slot == 0..(Stack - 1)
Content == Backup \cup {NoBackup}
Pc == {"idle", "sort", "rename", "drop", "find", "found", "failed"}
Job == [pc : Pc, sav : Sav \cup {NoSav}, i : 0..Stack, room : -1..Stack, round : {1, 2}]
IdleJob == [pc |-> "idle", sav |-> NoSav, i |-> 0, room |-> -1, round |-> 1]

\* Empty slots; and slot contents without a backup in two places.
Nothing == [n \in Slot |-> NoBackup]
Stored == {c \in [Slot -> Content] : \A m, n \in Slot : c[m] = c[n] => m = n \/ c[m] = NoBackup}

Init ==
  /\ slot \in [Sav -> Stored]
  /\ job = [r \in Routine |-> IdleJob]
  /\ start = [r \in Routine |-> Nothing]

Has(r, n) == slot[job[r].sav][n] # NoBackup
Goto(r, pc) == job' = [job EXCEPT ![r].pc = pc]

\* A system call fails for a reason of its own (or the file vanished): the rotation stops.
Fail(r) == Goto(r, "failed") /\ UNCHANGED <<slot, start>>

-----------------------------------------------------------------------------
\* backup() is called.
Begin(r, s) ==
  /\ job[r].pc = "idle"
  /\ job' = [job EXCEPT ![r] = [IdleJob EXCEPT !.pc = "sort", !.sav = s]]
  /\ start' = [start EXCEPT ![r] = slot[s]]
  /\ UNCHANGED slot

\* access() in backup_fetch_sort(): skip what stands before the first gap, remember that
\* gap, rename what stands behind it.
SortAccess(r) ==
  /\ job[r].pc = "sort"
  /\ job[r].i < Stack
  /\ \/ /\ IF Has(r, job[r].i) /\ job[r].room # -1
             THEN Goto(r, "rename")
             ELSE job' = [job EXCEPT ![r].i = @ + 1,
                                     ![r].room = IF @ = -1 /\ ~Has(r, job[r].i)
                                                   THEN job[r].i ELSE @]
        /\ UNCHANGED <<slot, start>>
     \/ Fail(r)

\* Mutants of Rename: the next gap is sought downwards; the slot just freed is the next gap.
RenameGapDown(r) ==
  /\ job[r].pc = "rename"
  /\ LET s == job[r].sav  i == job[r].i  room == job[r].room IN
       \/ /\ slot[s][i] # NoBackup
          /\ slot' = [slot EXCEPT ![s][room] = slot[s][i], ![s][i] = NoBackup]
          /\ job' = [job EXCEPT ![r].pc = "sort", ![r].i = @ + 1, ![r].room = @ - 1]
          /\ UNCHANGED start
       \/ Fail(r)
RenameGapFreed(r) ==
  /\ job[r].pc = "rename"
  /\ LET s == job[r].sav  i == job[r].i  room == job[r].room IN
       \/ /\ slot[s][i] # NoBackup
          /\ slot' = [slot EXCEPT ![s][room] = slot[s][i], ![s][i] = NoBackup]
          /\ job' = [job EXCEPT ![r].pc = "sort", ![r].i = @ + 1, ![r].room = i]
          /\ UNCHANGED start
       \/ Fail(r)

\* rename() into the gap.  It replaces what is there; it fails if the file is gone.
Rename(r) ==
  /\ job[r].pc = "rename"
  /\ LET s == job[r].sav  i == job[r].i  room == job[r].room IN
       \/ /\ slot[s][i] # NoBackup
          /\ slot' = [slot EXCEPT ![s][room] = slot[s][i], ![s][i] = NoBackup]
          /\ job' = [job EXCEPT ![r].pc = "sort", ![r].i = @ + 1, ![r].room = @ + 1]
          /\ UNCHANGED start
       \/ Fail(r)

\* Mutant of SortEnd: the oldest backup goes even if there is a gap.
SortEndDropsAnyway(r) ==
  /\ job[r].pc = "sort"
  /\ job[r].i = Stack
  /\ IF job[r].round = 1
       THEN Goto(r, "drop")
       ELSE job' = [job EXCEPT ![r].pc = "find", ![r].i = Stack - 1]
  /\ UNCHANGED <<slot, start>>

\* The scan is over: without a gap the oldest backup has to go (once), and the search for
\* the newest starts.
SortEnd(r) ==
  /\ job[r].pc = "sort"
  /\ job[r].i = Stack
  /\ IF job[r].room = -1 /\ job[r].round = 1
       THEN Goto(r, "drop")
       ELSE job' = [job EXCEPT ![r].pc = "find", ![r].i = Stack - 1]
  /\ UNCHANGED <<slot, start>>

\* flexremove() of number 0; a second scan follows.
Drop(r) ==
  /\ job[r].pc = "drop"
  /\ \/ /\ Has(r, 0)
        /\ slot' = [slot EXCEPT ![job[r].sav][0] = NoBackup]
        /\ job' = [job EXCEPT ![r] = [@ EXCEPT !.pc = "sort", !.i = 0, !.room = -1, !.round = 2]]
        /\ UNCHANGED start
     \/ Fail(r)

\* Mutants of Find, which counts down an unsigned number: it goes on past zero; it starts
\* again at the top.
FindPastZero(r) ==
  /\ job[r].pc = "find"
  /\ \/ /\ \/ Has(r, job[r].i) /\ job' = [job EXCEPT ![r].pc = "found", ![r].i = @ + 1]
           \/ ~Has(r, job[r].i) /\ job' = [job EXCEPT ![r].i = @ - 1]
        /\ UNCHANGED <<slot, start>>
     \/ Fail(r)
FindWraps(r) ==
  /\ job[r].pc = "find"
  /\ \/ /\ \/ Has(r, job[r].i) /\ job' = [job EXCEPT ![r].pc = "found", ![r].i = @ + 1]
           \/ ~Has(r, job[r].i) /\ job' = [job EXCEPT ![r].i = (@ + Stack - 1) % Stack]
        /\ UNCHANGED <<slot, start>>
     \/ Fail(r)

\* access() in find_next_room(), from the last slot down.
Find(r) ==
  /\ job[r].pc = "find"
  /\ \/ /\ \/ Has(r, job[r].i) /\ job' = [job EXCEPT ![r].pc = "found", ![r].i = @ + 1]
           \/ ~Has(r, job[r].i) /\ job[r].i = 0 /\ Goto(r, "found")
           \/ ~Has(r, job[r].i) /\ job[r].i > 0 /\ job' = [job EXCEPT ![r].i = @ - 1]
        /\ UNCHANGED <<slot, start>>
     \/ Fail(r)

\* backup() returns.
End(r) ==
  /\ job[r].pc \in {"found", "failed"}
  /\ job' = [job EXCEPT ![r] = IdleJob]
  /\ start' = [start EXCEPT ![r] = Nothing]
  /\ UNCHANGED slot

Step(r) == SortAccess(r) \/ Rename(r) \/ SortEnd(r) \/ Drop(r) \/ Find(r)

\* Users, scripts/seed-backups.sh and earlier runs of the program (killed at any point)
\* leave anything behind while no rotation of the configuration runs.
Outside(s) ==
  /\ \A r \in Routine : job[r].sav # s
  /\ \E c \in Stored : slot' = [slot EXCEPT ![s] = c]
  /\ UNCHANGED <<job, start>>

Next ==
  \/ \E s \in Sav : Outside(s) \/ \E r \in Routine : Begin(r, s)
  \/ \E r \in Routine : Step(r) \/ End(r)

\* No two routines rotate the same configuration at once.
Alone(r, s) == \A q \in Routine \ {r} : job[q].sav # s
NextAlone ==
  \/ \E s \in Sav : Outside(s) \/ \E r \in Routine : Begin(r, s) /\ Alone(r, s)
  \/ \E r \in Routine : Step(r) \/ End(r)

Fairness == \A r \in Routine : WF_vars(Step(r) \/ End(r))

Spec == Init /\ [][Next]_vars /\ Fairness
SpecAlone == Init /\ [][NextAlone]_vars /\ Fairness

-----------------------------------------------------------------------------
(* Properties.  They say what a rotation does to the backups it found when no other *)
(* thread rotates the same configuration; BackupDaemon adds the scheduler.           *)

TypeOK ==
  /\ slot \in [Sav -> [Slot -> Content]]
  /\ job \in [Routine -> Job]
  /\ start \in [Routine -> [Slot -> Content]]

Busy(r) == job[r].pc # "idle"
Held(c) == {c[n] : n \in Slot} \ {NoBackup}
Now(r) == slot[job[r].sav]
Full(c) == \A n \in Slot : c[n] # NoBackup

\* At every moment of a rotation, failed and unfinished ones included, all backups are
\* there, except that the oldest is gone after a drop; and there is a drop only if every
\* slot was taken.
LosesOldestOnly(r) ==
  Held(Now(r)) =
    IF job[r].round = 2 THEN Held(start[r]) \ {start[r][0]} ELSE Held(start[r])
DropsWhenFull(r) == job[r].round = 2 => Full(start[r])

\* At every moment of a rotation the backups stand in the order they had.
KeepsOrder(r) ==
  \A m, n \in Slot : \A x, y \in Slot :
    (Now(r)[m] # NoBackup /\ Now(r)[n] # NoBackup
       /\ start[r][x] = Now(r)[m] /\ start[r][y] = Now(r)[n] /\ m < n) => x < y

NothingLost == \A r \in Routine : Busy(r) => LosesOldestOnly(r) /\ DropsWhenFull(r)
OrderKept == \A r \in Routine : Busy(r) => KeepsOrder(r)

\* The number a rotation finds is free, within the stack, and right after the newest
\* backup; no gap is left below it.
NextIsAfterNewest ==
  \A r \in Routine : job[r].pc = "found" =>
    /\ job[r].i \in Slot
    /\ \A n \in Slot : Now(r)[n] # NoBackup <=> n < job[r].i

\* A rotation ends.  (find_next_room() counts an unsigned char down past zero.)
RotationEnds == \A r \in Routine : Busy(r) ~> ~Busy(r)

=============================================================================
