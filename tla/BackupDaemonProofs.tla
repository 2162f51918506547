-------------------------- MODULE BackupDaemonProofs -------------------------
(***************************************************************************)
(* The backup scheduler by itself, for any number of configurations,       *)
(* routines and timer threads and any limits; and the daemon: while no     *)
(* timer expires during its own backup, the scheduler keeps the routines   *)
(* off each other's files, for any number of backups.                      *)
(*                                                                         *)
(* Every step of the daemon is a step or a stutter of BakSched, so what    *)
(* the first part shows of its steps holds there.  What is added is that a *)
(* configuration being backed up is with one routine, not in the queue and *)
(* not about to be posted.                                                 *)
(***************************************************************************)
EXTENDS BackupDaemon, DataFacts, TLAPS

-----------------------------------------------------------------------------
(* Types, and the bits. *)

\* A timer thread that is not idle has a configuration to post.
HandInv == \A p \in Poster : ppc[p] # "idle" => psav[p] \in Sav

BitInv == TypeOK /\ HandInv /\ BitMatchesQueue

LEMMA InitBit == Init => BitInv
  BY BakSchedAssumption
  DEF Init, BitInv, TypeOK, HandInv, BitMatchesQueue, RoutinePc, PosterPc, WatchdogPc

\* A step that leaves the queue and its bits alone keeps what relates them.
LEMMA BitFrame ==
  ASSUME BitMatchesQueue, UNCHANGED queueVars
  PROVE  BitMatchesQueue'
  BY DEF BitMatchesQueue, queueVars

\* Posting a configuration whose bit is clear sets the bit and queues it once.
LEMMA PostBit ==
  ASSUME BitInv, NEW p \in Poster, Post(p)
  PROVE  BitInv'
  <1> USE BakSchedAssumption DEF BitInv, TypeOK, routineVars, posterVars, watchdogVars
  <1>1. psav[p] \in Sav
    BY DEF HandInv, Post
  <1>2. CASE posted[psav[p]]
    BY <1>1, <1>2, BitFrame DEF Post, queueVars, PosterPc, HandInv
  <1>3. CASE ~posted[psav[p]]
    <2> DEFINE s == psav[p]
    <2>1. /\ queue' = Append(queue, s)
          /\ posted' = [posted EXCEPT ![s] = TRUE]
          /\ Signal /\ PosterEnds(p)
      BY <1>3 DEF Post
    <2>2. /\ queue' \in Seq(Sav)
          /\ Len(queue') = Len(queue) + 1 /\ Len(queue) \in Nat
          /\ \A i \in 1..Len(queue) : queue'[i] = queue[i]
          /\ queue'[Len(queue) + 1] = s
      BY <1>1, <2>1, AppendFact
    <2>3. rpc' \in [Routine -> RoutinePc]
      BY <2>1 DEF Signal, RoutinePc
    <2>4. TypeOK' /\ HandInv'
      BY <1>1, <2>1, <2>2, <2>3 DEF Post, PosterEnds, PosterPc, HandInv
    <2>5. \A i \in 1..Len(queue) : queue[i] # s
      BY <1>3 DEF BitMatchesQueue
    <2>6. \A i \in 1..Len(queue') : i \in 1..Len(queue) \/ i = Len(queue) + 1
      BY <2>2
    <2>7. \A i \in 1..Len(queue) : i \in 1..Len(queue')
      BY <2>2
    <2>8. Len(queue) + 1 \in 1..Len(queue')
      BY <2>2
    <2>9. ASSUME NEW t \in Sav
          PROVE  posted'[t] <=> \E i \in 1..Len(queue') : queue'[i] = t
      <3>1. CASE t = s
        BY <1>1, <2>1, <2>2, <2>8, <3>1
      <3>2. CASE t # s
        <4>1. posted'[t] = posted[t]
          BY <1>1, <2>1, <3>2
        <4>2. (\E i \in 1..Len(queue') : queue'[i] = t) <=>
                \E i \in 1..Len(queue) : queue[i] = t
          BY <2>2, <2>6, <2>7, <3>2
        <4>3. QED
          BY <4>1, <4>2 DEF BitMatchesQueue
      <3>3. QED
        BY <3>1, <3>2
    <2>10. \A i, j \in 1..Len(queue') : queue'[i] = queue'[j] => i = j
      BY <2>2, <2>5, <2>6 DEF BitMatchesQueue
    <2>11. QED
      BY <2>4, <2>9, <2>10 DEF BitMatchesQueue
  <1>4. QED
    BY <1>2, <1>3

\* Taking the last entry clears its bit: the bit was set, and no other entry shares it.
LEMMA TakeBit ==
  ASSUME BitInv, NEW r \in Routine, Take(r)
  PROVE  BitInv'
  <1> USE BakSchedAssumption DEF BitInv, TypeOK, posterVars, watchdogVars
  <1> DEFINE n == Len(queue)
  <1>1. queue # <<>> /\ queue' = Front(queue)
    BY DEF Take
  <1>2. /\ queue' \in Seq(Sav)
        /\ Len(queue') = n - 1 /\ n \in Nat \ {0}
        /\ \A i \in 1..(n - 1) : queue'[i] = queue[i]
        /\ Last(queue) \in Sav /\ Last(queue) = queue[n]
    BY <1>1, FrontFact
  <1>3. TypeOK' /\ HandInv'
    BY <1>2 DEF Take, RoutinePc, HandInv
  <1>4. posted[queue[n]]
    <2>1. n \in 1..n
      BY <1>2
    <2>2. QED
      BY <1>2, <2>1 DEF BitMatchesQueue
  <1>5. posted' = [posted EXCEPT ![queue[n]] = ~posted[queue[n]]]
    BY <1>2 DEF Take
  <1>6. \A i \in 1..n : i \in 1..(n - 1) \/ i = n
    BY <1>2
  <1>7. \A i \in 1..(n - 1) : i \in 1..n /\ i # n
    BY <1>2
  <1>8. n \in 1..n
    BY <1>2
  <1>9. \A i \in 1..(n - 1) : queue[i] # queue[n]
    BY <1>7, <1>8 DEF BitMatchesQueue
  <1>10. ASSUME NEW t \in Sav
         PROVE  posted'[t] <=> \E i \in 1..Len(queue') : queue'[i] = t
    <2>1. CASE t = queue[n]
      <3>1. ~posted'[t]
        BY <1>2, <1>4, <1>5, <2>1
      <3>2. QED
        BY <1>2, <1>9, <2>1, <3>1
    <2>2. CASE t # queue[n]
      <3>1. posted'[t] = posted[t]
        BY <1>2, <1>5, <2>2
      <3>2. posted[t] <=> \E i \in 1..n : queue[i] = t
        BY DEF BitMatchesQueue
      <3>3. (\E i \in 1..n : queue[i] = t) <=> \E i \in 1..(n - 1) : queue[i] = t
        BY <1>6, <1>7, <2>2
      <3>4. QED
        BY <1>2, <3>1, <3>2, <3>3
    <2>3. QED
      BY <2>1, <2>2
  <1>11. \A i, j \in 1..Len(queue') : queue'[i] = queue'[j] => i = j
    BY <1>2, <1>7 DEF BitMatchesQueue
  <1>12. QED
    BY <1>3, <1>10, <1>11 DEF BitMatchesQueue

LEMMA NextBit == BitInv /\ [Next]_vars => BitInv'
  <1> SUFFICES ASSUME BitInv, [Next]_vars PROVE BitInv'
    OBVIOUS
  <1> USE BakSchedAssumption
      DEF BitInv, TypeOK, HandInv, queueVars, routineVars, posterVars, watchdogVars
  <1>1. ASSUME NEW s \in Sav, Arm(s) PROVE BitInv'
    BY <1>1, BitFrame DEF Arm
  <1>2. ASSUME NEW s \in Sav, NEW p \in Poster, Expire(s, p) PROVE BitInv'
    BY <1>2, BitFrame DEF Expire, PosterPc
  <1>3. ASSUME NEW p \in Poster, Post(p) PROVE BitInv'
    BY <1>3, PostBit
  <1>4. ASSUME NEW p \in Poster, Heavy(p) PROVE BitInv'
    BY <1>4, BitFrame DEF Heavy, PosterEnds, PosterPc
  <1>5. ASSUME NEW r \in Routine,
               Wait(r) \/ SpuriousWakeup(r) \/ WaitAgain(r) \/ BackupReturns(r)
        PROVE  BitInv'
    BY <1>5, BitFrame DEF Wait, SpuriousWakeup, WaitAgain, BackupReturns, RoutinePc
  <1>6. ASSUME NEW r \in Routine, Take(r) PROVE BitInv'
    BY <1>6, TakeBit
  <1>7. CASE WatchdogStep
    BY <1>7, BitFrame DEF WatchdogStep, WatchdogLoad, WatchdogStore, WatchdogPc
  <1>8. CASE Tick
    BY <1>8, BitFrame DEF Tick, Older, WatchdogPc
  <1>9. CASE UNCHANGED vars
    BY <1>9, BitFrame DEF vars
  <1>10. ASSUME NEW p \in Poster, PostDies(p) PROVE BitInv'
    BY <1>10, BitFrame DEF PostDies
  <1>11. QED
    BY <1>1, <1>2, <1>3, <1>4, <1>5, <1>6, <1>7, <1>8, <1>9, <1>10
    DEF Next, RoutineStep, PosterStep

THEOREM BitInvariant == Spec => []BitInv
  BY InitBit, NextBit, PTL DEF Spec

\* Every variable keeps its type; in particular nobody takes from an empty queue.
THEOREM TypeCorrect == Spec => []TypeOK
  BY BitInvariant, PTL DEF BitInv

\* A configuration's bit and the queue agree: it is queued once while the bit is set and
\* not at all while the bit is clear.
THEOREM BitsMatchTheQueue == Spec => []BitMatchesQueue
  BY BitInvariant, PTL DEF BitInv

-----------------------------------------------------------------------------
(* The watchdog. *)

\* The watchdog's copy never exceeds the count; while they are equal (and not zero) the
\* count has not grown since the watchdog set its time; and it stores zero only after a
\* load that found them equal for long enough.
WatchdogInv ==
  /\ last <= overload
  /\ last = overload /\ overload # 0 => age <= calm
  /\ wpc = "store" => age > Window /\ last # 0

LEMMA NextWatchdog == BitInv /\ WatchdogInv /\ [Next]_vars => WatchdogInv'
  <1> SUFFICES ASSUME BitInv, WatchdogInv, [Next]_vars PROVE WatchdogInv'
    OBVIOUS
  <1> USE BakSchedAssumption
      DEF BitInv, TypeOK, WatchdogInv, queueVars, routineVars, posterVars, watchdogVars
  <1>1. ASSUME NEW p \in Poster, Heavy(p) PROVE WatchdogInv'
    BY <1>1 DEF Heavy
  <1>2. CASE WatchdogLoad
    BY <1>2 DEF WatchdogLoad
  <1>3. CASE WatchdogStore
    BY <1>3 DEF WatchdogStore
  <1>4. CASE Tick
    BY <1>4 DEF Tick, Older
  <1>5. CASE UNCHANGED <<overload, watchdogVars, calm>>
    BY <1>5
  <1>6. QED
    BY <1>1, <1>2, <1>3, <1>4, <1>5 DEF Next, RoutineStep, PosterStep, WatchdogStep, vars,
       Arm, Expire, Post, PostDies, Wait, SpuriousWakeup, WaitAgain, Take, BackupReturns

\* The watchdog clears the count only after OVERLOAD_WINDOW seconds without an early
\* post, or when the count has grown behind its back.
THEOREM WatchdogClearsCalmOnly == Spec => []ClearsCalmOnly
  <1>1. Init => WatchdogInv
    BY DEF Init, WatchdogInv
  <1>2. BitInv /\ WatchdogInv => ClearsCalmOnly
    BY BakSchedAssumption DEF BitInv, TypeOK, WatchdogInv, ClearsCalmOnly
  <1>3. QED
    BY <1>1, <1>2, NextWatchdog, BitInvariant, PTL DEF Spec

-----------------------------------------------------------------------------
(* The daemon. *)

\* The parts of the invariant.
JobShape == [pc : R!Pc, sav : Sav \cup {NoSav}, i : Int, room : Int, round : Int]
Agree ==
  /\ job \in [Routine -> JobShape]
  /\ \A r \in Routine : /\ job[r].sav = rsav[r]
                        /\ job[r].pc = "idle" <=> rpc[r] # "backup"
RunsAlone ==
  /\ \A p \in Poster, r \in Routine : ppc[p] = "post" => rsav[r] # psav[p]
  /\ \A r \in Routine : \A i \in 1..Len(queue) : queue[i] # rsav[r]
  /\ \A q, r \in Routine : rsav[q] = rsav[r] /\ rsav[q] # NoSav => q = r

DaemonInv == BitInv /\ Agree /\ RunsAlone

\* Nothing is under way at first.
LEMMA InitDaemon == DaemonInit => DaemonInv
<1> SUFFICES ASSUME DaemonInit PROVE DaemonInv
  OBVIOUS
<1>1. BitInv
  BY InitBit DEF DaemonInit
<1>2. Agree
  <2>1. R!IdleJob \in JobShape /\ R!IdleJob.sav = NoSav /\ R!IdleJob.pc = "idle"
    BY DEF R!IdleJob, JobShape, R!Pc
  <2> QED BY <2>1 DEF DaemonInit, Init, R!Init, Agree
<1>3. RunsAlone
  BY DEF DaemonInit, Init, RunsAlone
<1> QED
  BY <1>1, <1>2, <1>3 DEF DaemonInv

\* Every step is one of the scheduler's, or leaves it alone.
LEMMA StepsOfTheScheduler ==
  ASSUME DaemonInv, [NextUnhurried]_daemonVars
  PROVE  [Next]_vars /\ BitInv'
<1>1. [Next]_vars
  BY DEF NextUnhurried, Unhurried, TakeAndBegin, EndAndReturn, SchedulerStep, RotationStep,
     Timer, Next, RoutineStep, daemonVars
<1> QED
  BY <1>1, NextBit DEF DaemonInv

\* What the invariant says of the types used below.
LEMMA DaemonTypes ==
  ASSUME DaemonInv
  PROVE  /\ posted \in [Sav -> BOOLEAN] /\ queue \in Seq(Sav)
         /\ rpc \in [Routine -> RoutinePc] /\ rsav \in [Routine -> Sav \cup {NoSav}]
         /\ ppc \in [Poster -> PosterPc] /\ psav \in [Poster -> Sav \cup {NoSav}]
         /\ job \in [Routine -> JobShape] /\ NoSav \notin Sav
         /\ Len(queue) \in Nat /\ \A i \in 1..Len(queue) : queue[i] \in Sav
BY BakSchedAssumption DEF DaemonInv, BitInv, TypeOK, Agree

\* A step that moves no configuration.
LEMMA StandStill ==
  ASSUME DaemonInv, BitInv', Agree', UNCHANGED <<queue, ppc, psav, rsav>>
  PROVE  DaemonInv'
BY DEF DaemonInv, RunsAlone

\* A configuration that is not being backed up goes to the timer's thread.
LEMMA TimerKeeps ==
  ASSUME DaemonInv, BitInv', NEW s \in Sav, NEW p \in Poster, ~Running(s), Timer(s, p)
  PROVE  DaemonInv'
<1>1. /\ psav' = [psav EXCEPT ![p] = s] /\ ppc' = [ppc EXCEPT ![p] = "post"]
      /\ UNCHANGED <<queue, rpc, rsav, job>>
  BY DEF Timer, Expire, queueVars, routineVars, rotationVars
<1>2. /\ psav'[p] = s
      /\ \A q \in Poster \ {p} : psav'[q] = psav[q] /\ ppc'[q] = ppc[q]
  BY <1>1, DaemonTypes
<1>3. RunsAlone'
  BY <1>1, <1>2 DEF RunsAlone, DaemonInv, Running
<1>4. Agree'
  BY <1>1, DaemonTypes DEF DaemonInv, Agree
<1> QED
  BY <1>3, <1>4 DEF DaemonInv

\* A post: the configuration goes to the queue, or is found there.
LEMMA PostKeeps ==
  ASSUME DaemonInv, BitInv', NEW p \in Poster, Post(p), UNCHANGED rotationVars
  PROVE  DaemonInv'
<1> DEFINE s == psav[p]
<1>1. s \in Sav /\ \A r \in Routine : rsav[r] # s
  BY DEF Post, DaemonInv, RunsAlone, BitInv, HandInv
<1>2. UNCHANGED <<rsav, job>>
  BY DEF Post, rotationVars
<1>3. ppc'[p] # "post" /\ \A q \in Poster \ {p} : ppc'[q] = ppc[q] /\ psav'[q] = psav[q]
  BY DaemonTypes DEF Post, PosterEnds
<1>4. \A i \in 1..Len(queue') : queue'[i] = s \/ \E k \in 1..Len(queue) : queue'[i] = queue[k]
  <2>1. CASE posted[s]
    BY <2>1 DEF Post, queueVars
  <2>2. CASE ~posted[s]
    <3>1. queue' = Append(queue, s)
      BY <2>2 DEF Post
    <3>2. /\ Len(queue') = Len(queue) + 1 /\ Len(queue) \in Nat
          /\ \A i \in 1..Len(queue) : queue'[i] = queue[i]
          /\ queue'[Len(queue) + 1] = s
      BY <1>1, <3>1, DaemonTypes, AppendFact
    <3>3. \A i \in 1..Len(queue') : i \in 1..Len(queue) \/ i = Len(queue) + 1
      BY <3>2
    <3> QED BY <3>2, <3>3
  <2> QED BY <2>1, <2>2
<1> HIDE DEF s
<1>5. RunsAlone'
  BY <1>1, <1>2, <1>3, <1>4 DEF RunsAlone, DaemonInv
<1>6. \A r \in Routine : rpc'[r] = "backup" <=> rpc[r] = "backup"
  BY DaemonTypes DEF Post, Signal
<1>7. Agree'
  BY <1>2, <1>6, DaemonTypes DEF Post, Signal, Agree, DaemonInv
<1> QED
  BY <1>5, <1>7 DEF DaemonInv

\* The other steps of the scheduler.
LEMMA SchedulerKeeps ==
  ASSUME DaemonInv, BitInv', SchedulerStep
  PROVE  DaemonInv'
<1>1. UNCHANGED <<slot, job, start>>
  BY DEF SchedulerStep, rotationVars
<1> USE DEF queueVars, routineVars, posterVars, watchdogVars
<1>2. ASSUME NEW p \in Poster, PosterStep(p) PROVE DaemonInv'
  <2>1. CASE Post(p)
    BY <1>1, <2>1, PostKeeps DEF rotationVars
  <2>2. CASE Heavy(p)
    <3>1. /\ UNCHANGED <<queue, rpc, rsav>> /\ ppc'[p] # "post"
          /\ \A q \in Poster \ {p} : ppc'[q] = ppc[q] /\ psav'[q] = psav[q]
      BY <2>2, DaemonTypes DEF Heavy, PosterEnds
    <3>2. RunsAlone' /\ Agree'
      BY <1>1, <3>1, DaemonTypes DEF RunsAlone, Agree, DaemonInv
    <3> QED BY <3>2 DEF DaemonInv
  <2>3. CASE PostDies(p)
    <3>1. UNCHANGED <<queue, rpc, rsav, ppc, psav>>
      BY <2>3 DEF PostDies
    <3>2. RunsAlone' /\ Agree'
      BY <1>1, <3>1, DaemonTypes DEF RunsAlone, Agree, DaemonInv
    <3> QED BY <3>2 DEF DaemonInv
  <2> QED BY <1>2, <2>1, <2>2, <2>3 DEF PosterStep
<1>3. ASSUME NEW r \in Routine, Wait(r) \/ WaitAgain(r) \/ SpuriousWakeup(r)
      PROVE  DaemonInv'
  <2>1. /\ \A q \in Routine : rpc'[q] = "backup" <=> rpc[q] = "backup"
        /\ UNCHANGED <<queue, psav, rsav, ppc>>
    BY <1>3, DaemonTypes DEF Wait, WaitAgain, SpuriousWakeup
  <2>2. Agree'
    BY <1>1, <2>1 DEF Agree, DaemonInv
  <2> QED BY <2>1, <2>2, StandStill
<1>4. ASSUME (\E s \in Sav : Arm(s)) \/ WatchdogStep \/ Tick PROVE DaemonInv'
  <2>1. UNCHANGED <<queue, psav, rsav, rpc, ppc>>
    BY <1>4 DEF Arm, WatchdogStep, WatchdogLoad, WatchdogStore, Tick
  <2>2. Agree'
    BY <1>1, <2>1 DEF Agree, DaemonInv
  <2> QED BY <2>1, <2>2, StandStill
<1> QED
  BY <1>2, <1>3, <1>4 DEF SchedulerStep

\* The last configuration of the queue goes to a routine; no other routine has it.
LEMMA TakeKeeps ==
  ASSUME DaemonInv, BitInv', NEW r \in Routine, TakeAndBegin(r),
         ~AboutToPost(Last(queue))
  PROVE  DaemonInv' /\ R!Alone(r, Last(queue)) /\ Last(queue) \in Sav
<1> DEFINE s == Last(queue)
           n == Len(queue)
<1>1. /\ queue # <<>> /\ queue' = Front(queue) /\ rsav' = [rsav EXCEPT ![r] = s]
      /\ rpc' = [rpc EXCEPT ![r] = "backup"]
      /\ job' = [job EXCEPT ![r] = [R!IdleJob EXCEPT !.pc = "sort", !.sav = s]]
      /\ UNCHANGED <<ppc, psav>>
  BY DEF TakeAndBegin, Take, R!Begin, posterVars
<1>2. /\ s \in Sav /\ s = queue[n] /\ n \in Nat \ {0} /\ Len(queue') = n - 1
      /\ \A i \in 1..(n - 1) : queue'[i] = queue[i]
  BY <1>1, DaemonTypes, FrontFact
<1>3. n \in 1..n /\ \A i \in 1..(n - 1) : i \in 1..n /\ i # n
  BY <1>2
<1>4. \A i \in 1..(n - 1) : queue[i] # s
  BY <1>2, <1>3 DEF DaemonInv, BitInv, BitMatchesQueue
<1>5. rsav'[r] = s /\ \A q \in Routine \ {r} : rsav'[q] = rsav[q]
  BY <1>1, DaemonTypes
<1>6. \A q \in Routine : rsav[q] # s
  BY <1>2, <1>3 DEF DaemonInv, RunsAlone
<1>7. \A p \in Poster : ppc[p] = "post" => psav[p] # s
  BY DEF AboutToPost
<1>8. RunsAlone'
  <2>1. \A p \in Poster, q \in Routine : ppc'[p] = "post" => rsav'[q] # psav'[p]
    BY <1>1, <1>5, <1>7 DEF RunsAlone, DaemonInv
  <2>2. \A q \in Routine : \A i \in 1..Len(queue') : queue'[i] # rsav'[q]
    BY <1>2, <1>3, <1>4, <1>5 DEF RunsAlone, DaemonInv
  <2>3. \A q, t \in Routine : rsav'[q] = rsav'[t] /\ rsav'[q] # NoSav => q = t
    BY <1>5, <1>6 DEF RunsAlone, DaemonInv
  <2> QED BY <2>1, <2>2, <2>3 DEF RunsAlone
<1>9. Agree'
  <2> DEFINE k == [R!IdleJob EXCEPT !.pc = "sort", !.sav = s]
  <2>0. R!IdleJob \in JobShape
    BY DEF R!IdleJob, JobShape, R!Pc
  <2>1. k \in JobShape /\ k.sav = s /\ k.pc = "sort"
    BY <1>2, <2>0 DEF JobShape, R!Pc
  <2> HIDE DEF k
  <2>2. job' = [job EXCEPT ![r] = k]
    BY <1>1 DEF k
  <2> QED BY <1>1, <1>5, <2>1, <2>2, DaemonTypes DEF Agree, DaemonInv
<1>10. R!Alone(r, s)
  BY <1>6 DEF R!Alone, DaemonInv, Agree
<1> QED
  BY <1>2, <1>8, <1>9, <1>10 DEF DaemonInv

\* backup() returns.
LEMMA ReturnKeeps ==
  ASSUME DaemonInv, BitInv', NEW r \in Routine, EndAndReturn(r)
  PROVE  DaemonInv'
<1>1. /\ rsav' = [rsav EXCEPT ![r] = NoSav] /\ rpc' = [rpc EXCEPT ![r] = "loop"]
      /\ job' = [job EXCEPT ![r] = R!IdleJob]
      /\ UNCHANGED <<queue, ppc, psav>>
  BY DEF EndAndReturn, BackupReturns, R!End, queueVars, posterVars
<1>2. rsav'[r] = NoSav /\ \A q \in Routine \ {r} : rsav'[q] = rsav[q]
  BY <1>1, DaemonTypes
<1>3. RunsAlone'
  <2>1. \A q \in Routine : \A i \in 1..Len(queue') : queue'[i] # rsav'[q]
    BY <1>1, <1>2, DaemonTypes DEF RunsAlone, DaemonInv
  <2>2. \A p \in Poster : ppc[p] = "post" => psav[p] # NoSav
    BY DaemonTypes DEF DaemonInv, BitInv, HandInv
  <2> QED BY <1>1, <1>2, <2>1, <2>2 DEF RunsAlone, DaemonInv
<1>4. Agree'
  <2>1. R!IdleJob \in JobShape /\ R!IdleJob.sav = NoSav /\ R!IdleJob.pc = "idle"
    BY DEF R!IdleJob, JobShape, R!Pc
  <2> QED BY <1>1, <1>2, <2>1, DaemonTypes DEF Agree, DaemonInv
<1> QED
  BY <1>3, <1>4 DEF DaemonInv

\* A routine's rotation goes on: what its job is next.
Onward(r, k) == /\ job' = [job EXCEPT ![r] = k]
                /\ k.sav = job[r].sav /\ k.pc # "idle"

\* A rotation's own steps keep its configuration, and do not end it.
LEMMA StepGoesOn ==
  ASSUME NEW r \in Routine, R!Step(r), job[r] \in JobShape
  PROVE  \E k \in JobShape : Onward(r, k)
<1> DEFINE j == job[r]
           At(pc) == [j EXCEPT !.pc = pc]
<1>1. \A pc \in R!Pc \ {"idle"} : At(pc) \in JobShape /\ At(pc).sav = j.sav /\ At(pc).pc # "idle"
  BY DEF JobShape
<1>2. j.i \in Int /\ j.room \in Int /\ j.i + 1 \in Int /\ j.i - 1 \in Int /\ j.room + 1 \in Int
  BY DEF JobShape
<1>3. ASSUME NEW pc \in R!Pc \ {"idle"}, R!Goto(r, pc) PROVE \E k \in JobShape : Onward(r, k)
  <2>1. job' = [job EXCEPT ![r] = At(pc)]
    BY <1>3 DEF R!Goto
  <2> QED BY <1>1, <2>1 DEF Onward
<1>4. ASSUME R!Fail(r) PROVE \E k \in JobShape : Onward(r, k)
  BY <1>3, <1>4 DEF R!Fail, R!Pc
<1>5. CASE R!SortAccess(r)
  <2> DEFINE k == [j EXCEPT !.i = @ + 1, !.room = IF @ = -1 /\ ~R!Has(r, j.i) THEN j.i ELSE @]
  <2>1. k \in JobShape /\ k.sav = j.sav /\ k.pc = j.pc
    BY <1>2 DEF JobShape
  <2>2. ASSUME job' = [job EXCEPT ![r] = k], j.pc = "sort" PROVE \E l \in JobShape : Onward(r, l)
    BY <2>1, <2>2 DEF Onward
  <2>3. \/ R!Goto(r, "rename") \/ R!Fail(r)
        \/ job' = [job EXCEPT ![r] = k] /\ j.pc = "sort"
    BY <1>5 DEF R!SortAccess
  <2> QED BY <1>3, <1>4, <2>2, <2>3 DEF R!Pc
<1>6. CASE R!Rename(r)
  <2> DEFINE k == [j EXCEPT !.pc = "sort", !.i = @ + 1, !.room = @ + 1]
  <2>1. k \in JobShape /\ k.sav = j.sav /\ k.pc # "idle"
    BY <1>2 DEF JobShape, R!Pc
  <2>2. R!Fail(r) \/ job' = [job EXCEPT ![r] = k]
    BY <1>6 DEF R!Rename
  <2> QED BY <1>4, <2>1, <2>2 DEF Onward
<1>7. CASE R!SortEnd(r)
  <2> DEFINE k == [j EXCEPT !.pc = "find", !.i = Stack - 1]
  <2>1. Stack - 1 \in Int
    BY BackupDaemonAssumption DEF R!RotationAssumption
  <2>2. k \in JobShape /\ k.sav = j.sav /\ k.pc # "idle"
    BY <2>1 DEF JobShape, R!Pc
  <2>3. R!Goto(r, "drop") \/ job' = [job EXCEPT ![r] = k]
    BY <1>7 DEF R!SortEnd
  <2> QED BY <1>3, <2>2, <2>3 DEF Onward, R!Pc
<1>8. CASE R!Drop(r)
  <2> DEFINE k == [j EXCEPT !.pc = "sort", !.i = 0, !.room = -1, !.round = 2]
  <2>0. -1 \in Int /\ 0 \in Int /\ 2 \in Int
    OBVIOUS
  <2>1. k \in JobShape /\ k.sav = j.sav /\ k.pc # "idle"
    BY <2>0, Zenon DEF JobShape, R!Pc
  <2>2. R!Fail(r) \/ job' = [job EXCEPT ![r] = k]
    BY <1>8 DEF R!Drop
  <2> QED BY <1>4, <2>1, <2>2 DEF Onward
<1>9. CASE R!Find(r)
  <2> DEFINE k == [j EXCEPT !.pc = "found", !.i = @ + 1]
             l == [j EXCEPT !.i = @ - 1]
  <2>1. k \in JobShape /\ k.sav = j.sav /\ k.pc # "idle"
    BY <1>2 DEF JobShape, R!Pc
  <2>2. l \in JobShape /\ l.sav = j.sav /\ l.pc = j.pc
    BY <1>2 DEF JobShape
  <2>3. \/ R!Fail(r) \/ R!Goto(r, "found") \/ job' = [job EXCEPT ![r] = k]
        \/ job' = [job EXCEPT ![r] = l] /\ j.pc = "find"
    BY <1>9 DEF R!Find
  <2>4. ASSUME job' = [job EXCEPT ![r] = l], j.pc = "find" PROVE \E m \in JobShape : Onward(r, m)
    BY <2>2, <2>4 DEF Onward
  <2> QED BY <1>3, <1>4, <2>1, <2>3, <2>4 DEF Onward, R!Pc
<1> QED
  BY <1>5, <1>6, <1>7, <1>8, <1>9 DEF R!Step

\* A rotation goes on with its configuration.
LEMMA RotationKeeps ==
  ASSUME DaemonInv, BitInv', RotationStep
  PROVE  DaemonInv'
<1>1. UNCHANGED <<queue, psav, rsav, rpc, ppc>>
  BY DEF RotationStep, vars, queueVars, routineVars, posterVars
<1>2. Agree'
  <2>1. CASE \E s \in Sav : R!Outside(s)
    BY <1>1, <2>1 DEF R!Outside, Agree, DaemonInv
  <2>2. ASSUME NEW r \in Routine, R!Step(r) PROVE Agree'
    <3>1. job[r] \in JobShape /\ job[r].pc # "idle"
      BY <2>2, DaemonTypes
      DEF R!Step, R!SortAccess, R!Rename, R!SortEnd, R!Drop, R!Find
    <3>2. PICK k \in JobShape : Onward(r, k)
      BY <2>2, <3>1, StepGoesOn
    <3> QED BY <1>1, <3>1, <3>2, DaemonTypes DEF Onward, Agree, DaemonInv
  <2> QED BY <2>1, <2>2 DEF RotationStep
<1> QED
  BY <1>1, <1>2, StandStill

\* Every step keeps the invariant, and is a step that Rotation allows when no two
\* rotations share a configuration.
LEMMA NextDaemon ==
  ASSUME DaemonInv, [NextUnhurried]_daemonVars
  PROVE  DaemonInv' /\ [R!NextAlone]_rotationVars
<1>1. BitInv'
  BY StepsOfTheScheduler
<1>2. CASE UNCHANGED daemonVars
  <2>1. UNCHANGED <<queue, psav, rsav, rpc, ppc, job>>
        /\ UNCHANGED rotationVars
    BY <1>2
    DEF daemonVars, vars, queueVars, routineVars, posterVars, rotationVars
  <2>2. Agree'
    BY <2>1 DEF DaemonInv, Agree
  <2> QED BY <1>1, <2>1, <2>2, StandStill
<1>3. ASSUME NEW r \in Routine, TakeAndBegin(r), ~AboutToPost(Last(queue))
      PROVE  DaemonInv' /\ R!NextAlone
  BY <1>1, <1>3, TakeKeeps DEF TakeAndBegin, R!NextAlone
<1>4. ASSUME NEW r \in Routine, EndAndReturn(r) PROVE DaemonInv' /\ R!NextAlone
  BY <1>1, <1>4, ReturnKeeps DEF EndAndReturn, R!NextAlone
<1>5. CASE SchedulerStep
  BY <1>1, <1>5, SchedulerKeeps DEF SchedulerStep
<1>6. CASE RotationStep
  BY <1>1, <1>6, RotationKeeps DEF RotationStep, R!NextAlone
<1>7. ASSUME NEW s \in Sav, NEW p \in Poster, ~Running(s), Timer(s, p)
      PROVE  DaemonInv' /\ UNCHANGED rotationVars
  BY <1>1, <1>7, TimerKeeps DEF Timer
<1> QED
  BY <1>2, <1>3, <1>4, <1>5, <1>6, <1>7 DEF NextUnhurried, Unhurried

\* The invariant of the composition.
THEOREM DaemonInvariant == SpecUnhurried => []DaemonInv
BY InitDaemon, NextDaemon, PTL DEF SpecUnhurried

\* While no timer expires during its own backup and its thread posts at once, the scheduler
\* meets Rotation's assumption: what rotations do in the daemon is what they may do when no
\* two of them share a configuration, so that RotationProofs's theorems hold of the daemon's
\* backups; posts that lie unserved and posts counted as too early do not matter.
THEOREM TheDaemonRotatesAlone == SpecUnhurried => RotatesAlone
<1>1. DaemonInit => R!Init
  BY DEF DaemonInit
<1> QED
  BY <1>1, DaemonInvariant, NextDaemon, PTL DEF SpecUnhurried, RotatesAlone
=============================================================================
