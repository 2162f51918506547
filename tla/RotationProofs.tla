---------------------------- MODULE RotationProofs ---------------------------
(***************************************************************************)
(* What an undisturbed rotation does to the backups it finds, for any      *)
(* number of configurations, routines, slots and backups.                  *)
(*                                                                         *)
(* Working(j, c, S) is what holds of a rotation j that found the slots S   *)
(* and has made them c.  It speaks of no variable, so what each system     *)
(* call does to it is a lemma about functions; the invariant is that it    *)
(* holds of every rotation under way and that no two rotations share a     *)
(* configuration.                                                          *)
(***************************************************************************)
EXTENDS Rotation, TLAPS

Slots == [Slot -> Content]
Distinct(c) == \A m, n \in Slot : c[m] = c[n] => m = n \/ c[m] = NoBackup

\* All backups of S are in c, except the oldest after a drop.
Kept(round, c, S) ==
  \A b \in Backup :
    (\E n \in Slot : c[n] = b) <=> ((\E n \in Slot : S[n] = b) /\ (round = 2 => b # S[0]))

\* They are in the order they had.
Ordered(c, S) ==
  \A m, n \in Slot : \A x, y \in Slot :
    (c[m] # NoBackup /\ c[n] # NoBackup /\ S[x] = c[m] /\ S[y] = c[n] /\ m < n) => x < y

\* backup_fetch_sort(): what stands before slot i, with and without a gap.
Scanned(j, c, S) ==
  /\ j.room = -1 => /\ \A n \in Slot : n < j.i => c[n] # NoBackup
                    /\ j.round = 1 => c = S
                    /\ j.round = 2 => j.i = 0 /\ c[0] = NoBackup
  /\ j.room # -1 => /\ j.room \in Slot /\ j.room < j.i
                    /\ \A n \in Slot : n < j.room => c[n] # NoBackup
                    /\ \A n \in Slot : j.room <= n /\ n < j.i => c[n] = NoBackup

\* After it: the backups stand in the slots before the gap.
Compact(c, room) == \A n \in Slot : c[n] # NoBackup <=> n < room

Working(j, c, S) ==
  /\ Distinct(c) /\ Distinct(S)
  /\ Kept(j.round, c, S)
  /\ j.round = 2 => Full(S)
  /\ Ordered(c, S)
  /\ j.pc \in {"sort", "rename"} => Scanned(j, c, S)
  /\ j.pc = "rename" => j.room # -1 /\ j.i \in Slot
  /\ j.pc = "drop" => j.round = 1 /\ c = S /\ Full(S)
  /\ j.pc = "find" => /\ j.room \in Slot /\ Compact(c, j.room)
                      /\ j.i \in Slot /\ j.room <= j.i + 1
  /\ j.pc = "found" => j.i \in Slot /\ Compact(c, j.i)

Exclusive == \A q, r \in Routine : Busy(q) /\ Busy(r) /\ job[q].sav = job[r].sav => q = r
InHand == \A r \in Routine : IF Busy(r) THEN job[r].sav \in Sav ELSE job[r].sav = NoSav
AllDistinct == \A s \in Sav : Distinct(slot[s])
AllWorking == \A r \in Routine : Busy(r) => Working(job[r], slot[job[r].sav], start[r])

Inv == TypeOK /\ InHand /\ Exclusive /\ AllDistinct /\ AllWorking

-----------------------------------------------------------------------------
(* What the steps do to Working. *)

\* Number 0 is a slot.
LEMMA SlotFacts ==
  /\ Stack \in Nat /\ Stack >= 1
  /\ 0 \in Slot /\ Stack - 1 \in Slot
  /\ \A n : n \in Slot <=> n \in Int /\ 0 <= n /\ n < Stack
BY RotationAssumption DEF Slot

\* A rotation starts from what it finds.
LEMMA WorkingBegins ==
  ASSUME NEW c \in Slots, Distinct(c), NEW s \in Sav
  PROVE  Working([IdleJob EXCEPT !.pc = "sort", !.sav = s], c, c)
<1> DEFINE j == [IdleJob EXCEPT !.pc = "sort", !.sav = s]
<1>1. /\ j.pc = "sort" /\ j.i = 0 /\ j.room = -1 /\ j.round = 1
  BY DEF IdleJob
<1>2. Kept(j.round, c, c)
  BY <1>1 DEF Kept
<1>3. Ordered(c, c)
  BY SlotFacts DEF Ordered, Distinct
<1>4. Scanned(j, c, c)
  BY <1>1, SlotFacts DEF Scanned
<1> HIDE DEF j
<1>5. Working(j, c, c)
  BY <1>1, <1>2, <1>3, <1>4 DEF Working
<1> QED
  BY <1>5 DEF j

\* A step that changes no slot and says where it stands keeps what the rotation has done.
LEMMA WorkingStands ==
  ASSUME NEW c \in Slots, NEW S \in Slots, NEW j \in Job, NEW k \in Job, Working(j, c, S),
         k.round = j.round, k.pc = "failed"
  PROVE  Working(k, c, S)
BY DEF Working

\* access(): the slot is passed.
LEMMA WorkingPasses ==
  ASSUME NEW c \in Slots, NEW S \in Slots, NEW j \in Job, Working(j, c, S),
         j.pc = "sort", j.i < Stack, ~(c[j.i] # NoBackup /\ j.room # -1)
  PROVE  Working([j EXCEPT !.i = @ + 1,
                           !.room = IF @ = -1 /\ ~(c[j.i] # NoBackup) THEN j.i ELSE @],
                 c, S)
<1> DEFINE k == [j EXCEPT !.i = @ + 1,
                          !.room = IF @ = -1 /\ ~(c[j.i] # NoBackup) THEN j.i ELSE @]
<1>1. /\ k.pc = "sort" /\ k.i = j.i + 1 /\ k.round = j.round
      /\ k.room = IF j.room = -1 /\ c[j.i] = NoBackup THEN j.i ELSE j.room
      /\ j.i \in Int /\ j.room \in Int /\ j.i >= 0 /\ j.round \in {1, 2}
      /\ j.i \in Slot
  BY SlotFacts DEF Job
<1>2. Scanned(j, c, S)
  BY DEF Working
<1> HIDE DEF k
<1>3. Scanned(k, c, S)
  <2>1. CASE j.room = -1 /\ c[j.i] = NoBackup
    BY <1>1, <1>2, <2>1, SlotFacts DEF Scanned
  <2>2. CASE j.room = -1 /\ c[j.i] # NoBackup
    BY <1>1, <1>2, <2>2, SlotFacts DEF Scanned
  <2>3. CASE j.room # -1
    BY <1>1, <1>2, <2>3, SlotFacts DEF Scanned
  <2> QED BY <2>1, <2>2, <2>3
<1>4. Working(k, c, S)
  BY <1>1, <1>3 DEF Working
<1> QED
  BY <1>4 DEF k

\* access(): there is a backup behind the gap.
LEMMA WorkingFindsBackup ==
  ASSUME NEW c \in Slots, NEW S \in Slots, NEW j \in Job, Working(j, c, S),
         j.pc = "sort", j.i < Stack, j.room # -1
  PROVE  Working([j EXCEPT !.pc = "rename"], c, S)
<1> DEFINE k == [j EXCEPT !.pc = "rename"]
<1>1. k.pc = "rename" /\ k.i = j.i /\ k.room = j.room /\ k.round = j.round /\ j.i \in Slot
  BY SlotFacts DEF Job
<1>2. Scanned(k, c, S)
  BY <1>1 DEF Working, Scanned
<1> HIDE DEF k
<1>3. Working(k, c, S)
  BY <1>1, <1>2 DEF Working
<1> QED
  BY <1>3 DEF k

\* rename(): a backup moves down into the gap, past free slots only.
LEMMA WorkingRenames ==
  ASSUME NEW c \in Slots, NEW S \in Slots, NEW j \in Job, Working(j, c, S),
         j.pc = "rename", c[j.i] # NoBackup
  PROVE  LET d == [c EXCEPT ![j.room] = c[j.i], ![j.i] = NoBackup] IN
           /\ d \in Slots /\ Distinct(d)
           /\ Working([j EXCEPT !.pc = "sort", !.i = @ + 1, !.room = @ + 1], d, S)
<1> DEFINE d == [c EXCEPT ![j.room] = c[j.i], ![j.i] = NoBackup]
           k == [j EXCEPT !.pc = "sort", !.i = @ + 1, !.room = @ + 1]
           i == j.i
           room == j.room
<1>1. /\ i \in Slot /\ room \in Slot /\ room < i /\ i \in Int /\ room \in Int
      /\ k.pc = "sort" /\ k.i = i + 1 /\ k.room = room + 1 /\ k.round = j.round
  BY SlotFacts DEF Working, Scanned, Job
<1>2. /\ \A n \in Slot : n < room => c[n] # NoBackup
      /\ \A n \in Slot : room <= n /\ n < i => c[n] = NoBackup
  BY DEF Working, Scanned
<1>3. /\ d \in Slots /\ d[room] = c[i] /\ d[i] = NoBackup
      /\ \A n \in Slot \ {room, i} : d[n] = c[n]
  BY <1>1 DEF Slots, Content
<1>4. c[room] = NoBackup /\ c[i] # NoBackup
  BY <1>1, <1>2
<1>5. Distinct(c) /\ Distinct(S) /\ Kept(j.round, c, S) /\ Ordered(c, S)
      /\ (j.round = 2 => Full(S))
  BY DEF Working
<1> HIDE DEF d, k, i, room
<1>6. Distinct(d)
  BY <1>1, <1>3, <1>5 DEF Distinct
<1>7. Kept(k.round, d, S)
  <2>1. ASSUME NEW b \in Backup PROVE (\E n \in Slot : d[n] = b) <=> (\E n \in Slot : c[n] = b)
    BY <1>1, <1>3, <1>4, RotationAssumption
  <2> QED BY <1>1, <1>5, <2>1 DEF Kept
<1>8. Ordered(d, S)
  <2> SUFFICES ASSUME NEW m \in Slot, NEW n \in Slot, NEW x \in Slot, NEW y \in Slot,
                      d[m] # NoBackup, d[n] # NoBackup, S[x] = d[m], S[y] = d[n], m < n
               PROVE  x < y
    BY DEF Ordered
  <2>1. m # i /\ n # i
    BY <1>3
  <2>2. CASE m = room
    <3>1. n \in Int /\ n > room /\ d[n] = c[n] /\ c[n] # NoBackup
      BY <1>1, <1>3, <2>1, <2>2, SlotFacts
    <3>2. i < n
      BY <1>1, <1>2, <2>1, <3>1
    <3>3. c[i] # NoBackup /\ S[x] = c[i] /\ S[y] = c[n]
      BY <1>3, <2>2, <3>1
    <3> QED BY <1>1, <1>5, <3>1, <3>2, <3>3 DEF Ordered
  <2>3. CASE n = room
    <3>1. d[m] = c[m] /\ c[m] # NoBackup /\ m < i
      BY <1>1, <1>3, <2>1, <2>3, SlotFacts
    <3>2. c[i] # NoBackup /\ S[x] = c[m] /\ S[y] = c[i]
      BY <1>3, <2>3, <3>1
    <3> QED BY <1>1, <1>5, <3>1, <3>2 DEF Ordered
  <2>4. CASE m # room /\ n # room
    BY <1>3, <1>5, <2>1, <2>4 DEF Ordered
  <2> QED BY <2>2, <2>3, <2>4
<1>9. Scanned(k, d, S)
  BY <1>1, <1>2, <1>3, <1>4, SlotFacts DEF Scanned
<1>10. Working(k, d, S)
  BY <1>1, <1>5, <1>6, <1>7, <1>8, <1>9 DEF Working
<1> QED
  BY <1>3, <1>6, <1>10 DEF d, k, i, room

\* The scan ends without a gap: every slot is taken and nothing has moved.
LEMMA WorkingNeedsRoom ==
  ASSUME NEW c \in Slots, NEW S \in Slots, NEW j \in Job, Working(j, c, S),
         j.pc = "sort", j.i = Stack, j.room = -1, j.round = 1
  PROVE  Working([j EXCEPT !.pc = "drop"], c, S)
<1> DEFINE k == [j EXCEPT !.pc = "drop"]
<1>1. k.pc = "drop" /\ k.i = j.i /\ k.room = j.room /\ k.round = j.round
  BY DEF Job
<1>2. c = S /\ Full(S)
  BY SlotFacts DEF Working, Scanned, Full
<1> HIDE DEF k
<1>3. Working(k, c, S)
  BY <1>1, <1>2 DEF Working
<1> QED
  BY <1>3 DEF k

\* The scan ends with a gap, and all backups below it.
LEMMA WorkingSorted ==
  ASSUME NEW c \in Slots, NEW S \in Slots, NEW j \in Job, Working(j, c, S),
         j.pc = "sort", j.i = Stack, ~(j.room = -1 /\ j.round = 1)
  PROVE  Working([j EXCEPT !.pc = "find", !.i = Stack - 1], c, S)
<1> DEFINE k == [j EXCEPT !.pc = "find", !.i = Stack - 1]
<1>1. k.pc = "find" /\ k.i = Stack - 1 /\ k.room = j.room /\ k.round = j.round
  BY DEF Job
<1>2. j.room \in Slot /\ Compact(c, j.room)
  BY SlotFacts DEF Working, Scanned, Compact, Job
<1> HIDE DEF k
<1>3. Working(k, c, S)
  BY <1>1, <1>2, SlotFacts DEF Working
<1> QED
  BY <1>3 DEF k

\* flexremove(): the oldest backup goes.
LEMMA WorkingDrops ==
  ASSUME NEW c \in Slots, NEW S \in Slots, NEW j \in Job, Working(j, c, S), j.pc = "drop"
  PROVE  LET d == [c EXCEPT ![0] = NoBackup] IN
           /\ d \in Slots /\ Distinct(d)
           /\ Working([j EXCEPT !.pc = "sort", !.i = 0, !.room = -1, !.round = 2], d, S)
<1> DEFINE d == [c EXCEPT ![0] = NoBackup]
           k == [j EXCEPT !.pc = "sort", !.i = 0, !.room = -1, !.round = 2]
<1>1. k.pc = "sort" /\ k.i = 0 /\ k.room = -1 /\ k.round = 2
  BY DEF Job
<1>2. /\ d \in Slots /\ d[0] = NoBackup /\ \A n \in Slot \ {0} : d[n] = c[n]
  BY SlotFacts DEF Slots, Content
<1>3. c = S /\ Full(S) /\ Distinct(c) /\ Distinct(S) /\ Ordered(c, S)
  BY DEF Working
<1> HIDE DEF d, k
<1>4. Distinct(d)
  BY <1>2, <1>3 DEF Distinct
<1>5. Kept(k.round, d, S)
  <2> SUFFICES ASSUME NEW b \in Backup
               PROVE  (\E n \in Slot : d[n] = b) <=> ((\E n \in Slot : S[n] = b) /\ b # S[0])
    BY <1>1 DEF Kept
  <2>1. b # NoBackup
    BY RotationAssumption
  <2>2. ASSUME NEW n \in Slot, d[n] = b PROVE S[n] = b /\ b # S[0]
    BY <1>2, <1>3, <2>1, <2>2, SlotFacts DEF Distinct
  <2>3. ASSUME NEW n \in Slot, S[n] = b, b # S[0] PROVE d[n] = b
    BY <1>2, <1>3, <2>3, SlotFacts
  <2> QED BY <2>2, <2>3
<1>6. Ordered(d, S)
  BY <1>2, <1>3 DEF Ordered
<1>7. Scanned(k, d, S)
  BY <1>1, <1>2, SlotFacts DEF Scanned
<1>8. Working(k, d, S)
  BY <1>1, <1>3, <1>4, <1>5, <1>6, <1>7 DEF Working
<1> QED
  BY <1>2, <1>4, <1>8 DEF d, k

\* access() from the last slot down: the newest backup, no backup at all, or go on.
LEMMA WorkingFinds ==
  ASSUME NEW c \in Slots, NEW S \in Slots, NEW j \in Job, Working(j, c, S), j.pc = "find"
  PROVE  /\ c[j.i] # NoBackup => Working([j EXCEPT !.pc = "found", !.i = @ + 1], c, S)
         /\ c[j.i] = NoBackup /\ j.i = 0 => Working([j EXCEPT !.pc = "found"], c, S)
         /\ c[j.i] = NoBackup /\ j.i > 0 => Working([j EXCEPT !.i = @ - 1], c, S)
<1> DEFINE k == [j EXCEPT !.pc = "found", !.i = @ + 1]
           l == [j EXCEPT !.pc = "found"]
           m == [j EXCEPT !.i = @ - 1]
<1>1. /\ k.pc = "found" /\ k.i = j.i + 1 /\ k.room = j.room /\ k.round = j.round
      /\ l.pc = "found" /\ l.i = j.i /\ l.room = j.room /\ l.round = j.round
      /\ m.pc = "find" /\ m.i = j.i - 1 /\ m.room = j.room /\ m.round = j.round
  BY DEF Job
<1>2. j.room \in Slot /\ Compact(c, j.room) /\ j.i \in Slot /\ j.room <= j.i + 1
  BY DEF Working
<1> HIDE DEF k, l, m
<1>3. ASSUME c[j.i] # NoBackup PROVE Working(k, c, S)
  <2>1. j.i + 1 = j.room
    BY <1>2, <1>3, SlotFacts DEF Compact
  <2> QED BY <1>1, <1>2, <2>1 DEF Working
<1>4. ASSUME c[j.i] = NoBackup, j.i = 0 PROVE Working(l, c, S)
  <2>1. j.i = j.room
    BY <1>2, <1>4, SlotFacts DEF Compact
  <2> QED BY <1>1, <1>2, <2>1 DEF Working
<1>5. ASSUME c[j.i] = NoBackup, j.i > 0 PROVE Working(m, c, S)
  <2>1. j.room <= j.i /\ j.i - 1 \in Slot
    BY <1>2, <1>5, SlotFacts DEF Compact
  <2>2. m.room <= m.i + 1
    BY <1>1, <1>2, <2>1, SlotFacts
  <2> QED BY <1>1, <1>2, <2>1, <2>2 DEF Working
<1> QED
  BY <1>3, <1>4, <1>5 DEF k, l, m

-----------------------------------------------------------------------------
(* The invariant. *)

\* Nobody is busy at first.
LEMMA InitInv == Init => Inv
<1> SUFFICES ASSUME Init PROVE Inv
  OBVIOUS
<1>1. \A r \in Routine : ~Busy(r) /\ job[r] = IdleJob
  BY DEF Init, Busy, IdleJob
<1>2. IdleJob \in Job
  BY SlotFacts DEF IdleJob, Job, Pc
<1>3. TypeOK
  BY <1>2 DEF Init, TypeOK, Stored, Nothing, Content
<1>4. InHand
  BY <1>1 DEF InHand, IdleJob
<1>5. AllDistinct
  BY DEF Init, AllDistinct, Stored, Distinct
<1> QED
  BY <1>1, <1>3, <1>4, <1>5 DEF Inv, Exclusive, AllWorking

\* A busy routine works on its own configuration: the others do not notice.
LEMMA OneMoves ==
  ASSUME Inv, NEW r \in Routine, Busy(r),
         NEW k \in Job, k.pc # "idle", k.sav = job[r].sav,
         NEW d \in Slots, Distinct(d), Working(k, d, start[r]),
         job' = [job EXCEPT ![r] = k],
         slot' = [slot EXCEPT ![job[r].sav] = d],
         UNCHANGED start
  PROVE  Inv'
<1> DEFINE s == job[r].sav
<1>1. s \in Sav
  BY DEF Inv, InHand
<1>2. job \in [Routine -> Job] /\ slot \in [Sav -> Slots] /\ start \in [Routine -> Slots]
  BY DEF Inv, TypeOK, Slots
<1>3. /\ job'[r] = k /\ \A q \in Routine \ {r} : job'[q] = job[q]
      /\ slot'[s] = d /\ \A t \in Sav \ {s} : slot'[t] = slot[t]
  BY <1>1, <1>2
<1>4. /\ \A q \in Routine : Busy(q)' <=> Busy(q)
      /\ \A q \in Routine : job'[q].sav = job[q].sav
  BY <1>3 DEF Busy
<1>5. TypeOK'
  BY <1>1, <1>2 DEF TypeOK, Slots
<1>6. InHand' /\ Exclusive'
  BY <1>4 DEF Inv, InHand, Exclusive
<1>7. AllDistinct'
  BY <1>1, <1>3 DEF Inv, AllDistinct
<1>8. AllWorking'
  <2> SUFFICES ASSUME NEW q \in Routine, Busy(q)'
               PROVE  Working(job'[q], slot'[job'[q].sav], start'[q])
    BY DEF AllWorking
  <2>1. CASE q = r
    BY <1>3, <2>1
  <2>2. CASE q # r
    <3>1. Busy(q) /\ job[q].sav \in Sav \ {s} /\ job'[q] = job[q]
      BY <1>3, <1>4, <2>2 DEF Inv, InHand, Exclusive
    <3> QED BY <1>3, <3>1 DEF Inv, AllWorking
  <2> QED BY <2>1, <2>2
<1> QED
  BY <1>5, <1>6, <1>7, <1>8 DEF Inv

\* The same for a step that leaves the slots alone.
LEMMA OneLooks ==
  ASSUME Inv, NEW r \in Routine, Busy(r),
         NEW k \in Job, k.pc # "idle", k.sav = job[r].sav,
         Working(k, slot[job[r].sav], start[r]),
         job' = [job EXCEPT ![r] = k], UNCHANGED <<slot, start>>
  PROVE  Inv'
<1> DEFINE s == job[r].sav
<1>1. s \in Sav /\ slot \in [Sav -> Slots] /\ Distinct(slot[s])
  BY DEF Inv, TypeOK, Slots, InHand, AllDistinct
<1>2. slot' = [slot EXCEPT ![s] = slot[s]] /\ slot[s] \in Slots
  BY <1>1
<1> QED
  BY <1>1, <1>2, OneMoves

\* What a busy routine has in hand.
LEMMA InTheHand ==
  ASSUME Inv, NEW r \in Routine, Busy(r)
  PROVE  /\ job[r] \in Job /\ job[r].sav \in Sav
         /\ slot[job[r].sav] \in Slots /\ start[r] \in Slots
         /\ Working(job[r], slot[job[r].sav], start[r])
         /\ job \in [Routine -> Job]
BY DEF Inv, TypeOK, InHand, AllWorking, Slots

\* A failed system call.
LEMMA FailKeepsInv ==
  ASSUME Inv, NEW r \in Routine, Busy(r), Fail(r)
  PROVE  Inv'
<1> DEFINE k == [job[r] EXCEPT !.pc = "failed"]
<1>1. k \in Job /\ k.pc = "failed" /\ k.sav = job[r].sav /\ k.round = job[r].round
      /\ job' = [job EXCEPT ![r] = k] /\ UNCHANGED <<slot, start>>
  BY InTheHand DEF Fail, Goto, Job, Pc
<1> HIDE DEF k
<1>2. Working(k, slot[job[r].sav], start[r])
  BY <1>1, InTheHand, WorkingStands
<1> QED
  BY <1>1, <1>2, OneLooks

\* Each step of a rotation.
LEMMA StepKeepsInv ==
  ASSUME Inv, NEW r \in Routine, Step(r)
  PROVE  Inv'
<1> DEFINE j == job[r]
           c == slot[job[r].sav]
<1>1. Busy(r)
  BY DEF Step, SortAccess, Rename, SortEnd, Drop, Find, Busy
<1>2. /\ j \in Job /\ j.sav \in Sav /\ c \in Slots /\ start[r] \in Slots
      /\ Working(j, c, start[r]) /\ job \in [Routine -> Job] /\ slot \in [Sav -> Slots]
  BY <1>1, InTheHand DEF Inv, TypeOK, Slots
<1>3. CASE SortAccess(r)
  <2>1. CASE Fail(r)
    BY <1>1, <2>1, FailKeepsInv
  <2>2. CASE Has(r, j.i) /\ j.room # -1 /\ ~Fail(r)
    <3> DEFINE k == [j EXCEPT !.pc = "rename"]
    <3>1. k \in Job /\ k.pc # "idle" /\ k.sav = j.sav
          /\ job' = [job EXCEPT ![r] = k] /\ UNCHANGED <<slot, start>>
      BY <1>2, <1>3, <2>2 DEF SortAccess, Goto, Job, Pc
    <3>2. Working(k, c, start[r])
      BY <1>2, <1>3, <2>2, WorkingFindsBackup DEF SortAccess
    <3> QED BY <1>1, <3>1, <3>2, OneLooks
  <2>3. CASE ~(Has(r, j.i) /\ j.room # -1) /\ ~Fail(r)
    <3> DEFINE k == [j EXCEPT !.i = @ + 1,
                              !.room = IF @ = -1 /\ ~(c[j.i] # NoBackup) THEN j.i ELSE @]
    <3>1. job' = [job EXCEPT ![r] = k] /\ UNCHANGED <<slot, start>>
      BY <1>2, <1>3, <2>3 DEF SortAccess, Has
    <3>2. k \in Job /\ k.pc # "idle" /\ k.sav = j.sav
      <4>1. j \in Job /\ j.pc = "sort" /\ j.i \in 0..Stack /\ j.i < Stack
        BY <1>2, <1>3 DEF SortAccess, Job
      <4>2. j.i + 1 \in 0..Stack /\ j.i \in -1..Stack
        BY <4>1, SlotFacts
      <4> QED BY <4>1, <4>2 DEF Job
    <3>3. Working(k, c, start[r])
      BY <1>2, <1>3, <2>3, WorkingPasses DEF SortAccess, Has
    <3> QED BY <1>1, <3>1, <3>2, <3>3, OneLooks
  <2> QED BY <2>1, <2>2, <2>3
<1>4. CASE Rename(r)
  <2>1. CASE Fail(r)
    BY <1>1, <2>1, FailKeepsInv
  <2>2. CASE ~Fail(r)
    <3> DEFINE k == [j EXCEPT !.pc = "sort", !.i = @ + 1, !.room = @ + 1]
               d == [c EXCEPT ![j.room] = c[j.i], ![j.i] = NoBackup]
    <3>1. c[j.i] # NoBackup /\ j.pc = "rename"
          /\ job' = [job EXCEPT ![r] = k] /\ UNCHANGED start
          /\ slot' = [slot EXCEPT ![j.sav] = d]
      BY <1>2, <1>4, <2>2 DEF Rename
    <3>2. d \in Slots /\ Distinct(d) /\ Working(k, d, start[r])
      BY <1>2, <3>1, WorkingRenames
    <3>3. j.i \in Slot /\ j.room \in Slot
      BY <1>2, <3>1 DEF Working, Scanned
    <3>4. k \in Job /\ k.pc # "idle" /\ k.sav = j.sav
      <4>1. j \in Job /\ j.i + 1 \in 0..Stack /\ j.room + 1 \in -1..Stack
        BY <1>2, <3>3, SlotFacts
      <4> QED BY <4>1 DEF Job, Pc
    <3> HIDE DEF k, d
    <3> QED BY <1>1, <3>1, <3>2, <3>4, OneMoves
  <2> QED BY <2>1, <2>2
<1>5. CASE SortEnd(r)
  <2>1. CASE j.room = -1 /\ j.round = 1
    <3> DEFINE k == [j EXCEPT !.pc = "drop"]
    <3>1. k \in Job /\ k.pc # "idle" /\ k.sav = j.sav
          /\ job' = [job EXCEPT ![r] = k] /\ UNCHANGED <<slot, start>>
      BY <1>2, <1>5, <2>1 DEF SortEnd, Goto, Job, Pc
    <3>2. Working(k, c, start[r])
      BY <1>2, <1>5, <2>1, WorkingNeedsRoom DEF SortEnd
    <3> QED BY <1>1, <3>1, <3>2, OneLooks
  <2>2. CASE ~(j.room = -1 /\ j.round = 1)
    <3> DEFINE k == [j EXCEPT !.pc = "find", !.i = Stack - 1]
    <3>1. k \in Job /\ k.pc # "idle" /\ k.sav = j.sav
          /\ job' = [job EXCEPT ![r] = k] /\ UNCHANGED <<slot, start>>
      BY <1>2, <1>5, <2>2, SlotFacts DEF SortEnd, Job, Pc
    <3>2. Working(k, c, start[r])
      BY <1>2, <1>5, <2>2, WorkingSorted DEF SortEnd
    <3> QED BY <1>1, <3>1, <3>2, OneLooks
  <2> QED BY <2>1, <2>2
<1>6. CASE Drop(r)
  <2>1. CASE Fail(r)
    BY <1>1, <2>1, FailKeepsInv
  <2>2. CASE ~Fail(r)
    <3> DEFINE k == [j EXCEPT !.pc = "sort", !.i = 0, !.room = -1, !.round = 2]
               d == [c EXCEPT ![0] = NoBackup]
    <3>1. job' = [job EXCEPT ![r] = k] /\ UNCHANGED start
          /\ slot' = [slot EXCEPT ![j.sav] = d]
      BY <1>2, <1>6, <2>2 DEF Drop
    <3>2. d \in Slots /\ Distinct(d) /\ Working(k, d, start[r])
      BY <1>2, <1>6, WorkingDrops DEF Drop
    <3>3. k \in Job /\ k.pc # "idle" /\ k.sav = j.sav
      <4>1. j \in Job /\ 0 \in 0..Stack /\ -1 \in -1..Stack
        BY <1>2, SlotFacts
      <4> QED BY <4>1 DEF Job, Pc
    <3> HIDE DEF k, d
    <3> QED BY <1>1, <3>1, <3>2, <3>3, OneMoves
  <2> QED BY <2>1, <2>2
<1>7. CASE Find(r)
  <2>1. CASE Fail(r)
    BY <1>1, <2>1, FailKeepsInv
  <2> DEFINE k == [j EXCEPT !.pc = "found", !.i = @ + 1]
             l == [j EXCEPT !.pc = "found"]
             m == [j EXCEPT !.i = @ - 1]
  <2>2. /\ j.pc = "find" /\ j.i \in Slot
        /\ c[j.i] # NoBackup => Working(k, c, start[r])
        /\ c[j.i] = NoBackup /\ j.i = 0 => Working(l, c, start[r])
        /\ c[j.i] = NoBackup /\ j.i > 0 => Working(m, c, start[r])
    BY <1>2, <1>7, WorkingFinds DEF Find, Working
  <2>3. k \in Job /\ k.pc # "idle" /\ k.sav = j.sav
        /\ l \in Job /\ l.pc # "idle" /\ l.sav = j.sav
    <3>1. j \in Job /\ j.i + 1 \in 0..Stack
      BY <1>2, <2>2, SlotFacts
    <3> QED BY <3>1 DEF Job, Pc
  <2>4. ASSUME j.i > 0 PROVE m \in Job /\ m.pc # "idle" /\ m.sav = j.sav
    <3>1. j \in Job /\ j.i - 1 \in 0..Stack
      BY <1>2, <2>2, <2>4, SlotFacts
    <3> QED BY <2>2, <3>1 DEF Job
  <2>5. CASE c[j.i] # NoBackup /\ ~Fail(r)
    <3>1. job' = [job EXCEPT ![r] = k] /\ UNCHANGED <<slot, start>>
      BY <1>2, <1>7, <2>5 DEF Find, Has
    <3> QED BY <1>1, <2>2, <2>3, <2>5, <3>1, OneLooks
  <2>6. CASE c[j.i] = NoBackup /\ j.i = 0 /\ ~Fail(r)
    <3>1. job' = [job EXCEPT ![r] = l] /\ UNCHANGED <<slot, start>>
      BY <1>2, <1>7, <2>6 DEF Find, Has, Goto
    <3> QED BY <1>1, <2>2, <2>3, <2>6, <3>1, OneLooks
  <2>7. CASE c[j.i] = NoBackup /\ j.i > 0 /\ ~Fail(r)
    <3>1. job' = [job EXCEPT ![r] = m] /\ UNCHANGED <<slot, start>>
      BY <1>2, <1>7, <2>7 DEF Find, Has
    <3> QED BY <1>1, <2>2, <2>4, <2>7, <3>1, OneLooks
  <2>8. j.i = 0 \/ j.i > 0
    BY <2>2, SlotFacts
  <2> QED BY <2>1, <2>5, <2>6, <2>7, <2>8
<1> QED
  BY <1>3, <1>4, <1>5, <1>6, <1>7 DEF Step

\* A rotation begins where no other is under way.
LEMMA BeginKeepsInv ==
  ASSUME Inv, NEW r \in Routine, NEW s \in Sav, Begin(r, s), Alone(r, s)
  PROVE  Inv'
<1> DEFINE k == [IdleJob EXCEPT !.pc = "sort", !.sav = s]
<1>1. /\ job \in [Routine -> Job] /\ slot \in [Sav -> Slots] /\ start \in [Routine -> Slots]
      /\ job' = [job EXCEPT ![r] = k] /\ start' = [start EXCEPT ![r] = slot[s]]
      /\ slot' = slot
  BY DEF Inv, TypeOK, Slots, Begin
<1>2. k \in Job /\ k.pc = "sort" /\ k.sav = s
  <2>1. IdleJob \in Job
    BY SlotFacts DEF IdleJob, Job, Pc
  <2> QED BY <2>1 DEF Job, Pc
<1>3. Working(k, slot[s], slot[s])
  BY <1>1, WorkingBegins DEF Inv, AllDistinct
<1> HIDE DEF k
<1>4. /\ job'[r] = k /\ start'[r] = slot[s]
      /\ \A q \in Routine \ {r} : job'[q] = job[q] /\ start'[q] = start[q]
  BY <1>1
<1>5. TypeOK'
  BY <1>1, <1>2 DEF TypeOK, Slots
<1>6. /\ \A q \in Routine \ {r} : job'[q].sav # s
      /\ Busy(r)' /\ \A q \in Routine \ {r} : Busy(q)' <=> Busy(q)
  BY <1>2, <1>4 DEF Alone, Busy
<1>9. InHand'
  BY <1>2, <1>4, <1>6 DEF Inv, InHand
<1>10. Exclusive'
  BY <1>2, <1>4, <1>6 DEF Inv, Exclusive
<1>7. AllDistinct'
  BY <1>1 DEF Inv, AllDistinct
<1>8. AllWorking'
  BY <1>1, <1>2, <1>3, <1>4 DEF Inv, AllWorking, Busy
<1> QED
  BY <1>5, <1>7, <1>8, <1>9, <1>10 DEF Inv

\* A rotation that is over is forgotten.
LEMMA EndKeepsInv ==
  ASSUME Inv, NEW r \in Routine, End(r)
  PROVE  Inv'
<1>1. /\ job \in [Routine -> Job] /\ start \in [Routine -> Slots]
      /\ job' = [job EXCEPT ![r] = IdleJob] /\ start' = [start EXCEPT ![r] = Nothing]
      /\ slot' = slot
  BY DEF Inv, TypeOK, Slots, End
<1>2. IdleJob \in Job /\ IdleJob.pc = "idle" /\ IdleJob.sav = NoSav /\ Nothing \in Slots
  BY SlotFacts DEF IdleJob, Job, Pc, Nothing, Slots, Content
<1>3. /\ job'[r] = IdleJob
      /\ \A q \in Routine \ {r} : job'[q] = job[q] /\ start'[q] = start[q]
  BY <1>1
<1>4. TypeOK'
  BY <1>1, <1>2 DEF Inv, TypeOK, Slots
<1>5. InHand' /\ Exclusive'
  BY <1>2, <1>3 DEF Inv, InHand, Exclusive, Busy
<1>6. AllDistinct' /\ AllWorking'
  BY <1>1, <1>2, <1>3 DEF Inv, AllDistinct, AllWorking, Busy
<1> QED
  BY <1>4, <1>5, <1>6 DEF Inv

\* What others do to a configuration that is not rotated.
LEMMA OutsideKeepsInv ==
  ASSUME Inv, NEW s \in Sav, Outside(s)
  PROVE  Inv'
<1>1. PICK c \in Stored : slot' = [slot EXCEPT ![s] = c]
  BY DEF Outside
<1>2. c \in Slots /\ Distinct(c)
  BY DEF Stored, Slots, Distinct
<1>3. /\ UNCHANGED <<job, start>> /\ \A r \in Routine : job[r].sav # s
      /\ slot \in [Sav -> Slots]
  BY DEF Outside, Inv, TypeOK, Slots
<1>4. slot'[s] = c /\ \A t \in Sav \ {s} : slot'[t] = slot[t]
  BY <1>1, <1>3
<1>5. TypeOK'
  BY <1>1, <1>2, <1>3 DEF Inv, TypeOK, Slots
<1>6. InHand' /\ Exclusive'
  BY <1>3 DEF Inv, InHand, Exclusive, Busy
<1>7. AllDistinct'
  BY <1>2, <1>4 DEF Inv, AllDistinct
<1>8. AllWorking'
  BY <1>3, <1>4 DEF Inv, AllWorking, InHand, Busy
<1> QED
  BY <1>5, <1>6, <1>7, <1>8 DEF Inv

\* Every step keeps the invariant.
LEMMA NextInv == Inv /\ [NextAlone]_vars => Inv'
<1> SUFFICES ASSUME Inv, [NextAlone]_vars PROVE Inv'
  OBVIOUS
<1>1. CASE UNCHANGED vars
  BY <1>1 DEF vars, Inv, TypeOK, InHand, Exclusive, AllDistinct, AllWorking, Busy
<1> QED
  BY <1>1, OutsideKeepsInv, BeginKeepsInv, StepKeepsInv, EndKeepsInv DEF NextAlone

-----------------------------------------------------------------------------
(* The theorems. *)

\* The invariant holds of every behaviour in which no two rotations share a configuration.
THEOREM RotationInvariant == SpecAlone => []Inv
BY InitInv, NextInv, PTL DEF SpecAlone

\* Every variable keeps its type: the unsigned counters stay in their range.
THEOREM TypeCorrect == SpecAlone => []TypeOK
BY RotationInvariant, PTL DEF Inv

\* Kept says of each backup what LosesOldestOnly says of the sets.
LEMMA KeptHolds ==
  ASSUME NEW c \in Slots, NEW S \in Slots, NEW round \in {1, 2}, Kept(round, c, S)
  PROVE  Held(c) = IF round = 2 THEN Held(S) \ {S[0]} ELSE Held(S)
<1>1. /\ \A b : b \in Held(c) <=> b # NoBackup /\ \E n \in Slot : c[n] = b
      /\ \A b : b \in Held(S) <=> b # NoBackup /\ \E n \in Slot : S[n] = b
  BY DEF Held
<1>2. \A b : b \in Held(c) \/ b \in Held(S) => b \in Backup
  BY DEF Held, Slots, Content
<1>3. \A b \in Backup : b # NoBackup
  BY RotationAssumption
<1> QED
  BY <1>1, <1>2, <1>3 DEF Kept

\* At no moment of a rotation, and after no failure, a backup other than a surplus oldest
\* one is gone.
THEOREM NoBackupIsLost == SpecAlone => []NothingLost
<1>1. ASSUME Inv PROVE NothingLost
  <2> SUFFICES ASSUME NEW r \in Routine, Busy(r)
               PROVE  LosesOldestOnly(r) /\ DropsWhenFull(r)
    BY DEF NothingLost
  <2>1. /\ Working(job[r], slot[job[r].sav], start[r]) /\ job[r] \in Job
        /\ slot[job[r].sav] \in Slots /\ start[r] \in Slots
    BY <1>1, InTheHand
  <2>2. Kept(job[r].round, slot[job[r].sav], start[r]) /\ job[r].round \in {1, 2}
    BY <2>1 DEF Working, Job
  <2>3. LosesOldestOnly(r)
    BY <2>1, <2>2, KeptHolds DEF LosesOldestOnly, Now
  <2>4. DropsWhenFull(r)
    BY <2>1 DEF DropsWhenFull, Working
  <2> QED BY <2>3, <2>4
<1> QED
  BY <1>1, RotationInvariant, PTL

\* Nor do two backups ever change places.
THEOREM BackupsKeepTheirOrder == SpecAlone => []OrderKept
<1>1. Inv => OrderKept
  BY InTheHand DEF OrderKept, KeepsOrder, Working, Ordered, Now
<1> QED
  BY <1>1, RotationInvariant, PTL

\* The number found is a slot of the stack, free, and right after the newest backup.
THEOREM TheNextNumberIsRight == SpecAlone => []NextIsAfterNewest
<1>1. Inv => NextIsAfterNewest
  BY InTheHand DEF NextIsAfterNewest, Working, Compact, Now, Busy
<1> QED
  BY <1>1, RotationInvariant, PTL
=============================================================================
