--------------------------- MODULE CpSchedProofs ----------------------------
(***************************************************************************)
(* Proofs about CpSched, for any number of workers and files and any       *)
(* MAX_PENDING.                                                            *)
(***************************************************************************)
EXTENDS CpSched, DataFacts, TLAPS

-----------------------------------------------------------------------------
(* The inductive invariant. *)

\* The mutex belongs to the thread that is between a lock and an unlock.
LockInv ==
  /\ \A w \in Worker : lock = w <=> wpc[w] \in {"check", "wait", "recheck", "take"}
  /\ lock = Main <=> mpc \in {"recheck", "push"}

\* A thread has a file in hand exactly while it handles one.
HandInv ==
  /\ \A w \in Worker : wfile[w] # NoFile <=> wpc[w] = "copy"
  /\ mpc # "died" =>
       (mfile # NoFile <=> mpc \in {"load_state", "load_pending", "lock", "recheck",
                                    "push", "inline"})

\* Only the main thread adds to the queue, so what it read of the counter can only have
\* become smaller by the time it adds; and the queue a worker found filled stays filled
\* while the worker holds the mutex.
QueueInv ==
  /\ PendingBound
  /\ mpc \in {"lock", "recheck", "push"} => pending <= MaxPending
  /\ \A w \in Worker : wpc[w] = "take" => queue # <<>>

CoreInv == TypeOK /\ LockInv /\ HandInv /\ QueueInv

\* Deploy keeps the invariant.
LEMMA DeployKeepsCore ==
  ASSUME CoreInv, NEW w \in Worker, Deploy(w)
  PROVE  CoreInv'
  <1> USE CpSchedAssumption DEF CoreInv, Deploy, Goto, poolVars, workerVars, mainVars, fileVars
  <1>1. TypeOK'
    BY DEF TypeOK, LockInv, HandInv, PoolState, WorkerPc, MainPc, Result, Outcome, CopyOutcome
  <1>2. LockInv'
    BY DEF TypeOK, LockInv
  <1>3. HandInv'
    BY DEF TypeOK, HandInv
  <1>4. QueueInv'
    BY DEF TypeOK, LockInv, QueueInv, PendingBound
  <1>5. QED
    BY <1>1, <1>2, <1>3, <1>4

\* NextFile keeps the invariant.
LEMMA NextFileKeepsCore ==
  ASSUME CoreInv, NEW f \in File, NextFile(f)
  PROVE  CoreInv'
  <1> USE CpSchedAssumption DEF CoreInv, NextFile, poolVars, workerVars, mainVars, fileVars
  <1>1. TypeOK'
    BY DEF TypeOK, LockInv, HandInv, PoolState, WorkerPc, MainPc, Result, Outcome, CopyOutcome
  <1>2. LockInv'
    BY DEF TypeOK, LockInv
  <1>3. HandInv'
    BY DEF TypeOK, HandInv
  <1>4. QueueInv'
    BY DEF TypeOK, LockInv, QueueInv, PendingBound
  <1>5. QED
    BY <1>1, <1>2, <1>3, <1>4

\* Die keeps the invariant.
LEMMA DieKeepsCore ==
  ASSUME CoreInv, Die
  PROVE  CoreInv'
  <1> USE CpSchedAssumption DEF CoreInv, Die, poolVars, workerVars, mainVars, fileVars
  <1>1. TypeOK'
    BY DEF TypeOK, LockInv, HandInv, PoolState, WorkerPc, MainPc, Result, Outcome, CopyOutcome
  <1>2. LockInv'
    BY DEF TypeOK, LockInv
  <1>3. HandInv'
    BY DEF TypeOK, HandInv
  <1>4. QueueInv'
    BY DEF TypeOK, LockInv, QueueInv, PendingBound
  <1>5. QED
    BY <1>1, <1>2, <1>3, <1>4

\* IterationEnds keeps the invariant.
LEMMA IterationEndsKeepsCore ==
  ASSUME CoreInv, IterationEnds
  PROVE  CoreInv'
  <1> USE CpSchedAssumption DEF CoreInv, IterationEnds, poolVars, workerVars, mainVars, fileVars
  <1>1. TypeOK'
    BY DEF TypeOK, LockInv, HandInv, PoolState, WorkerPc, MainPc, Result, Outcome, CopyOutcome
  <1>2. LockInv'
    BY DEF TypeOK, LockInv
  <1>3. HandInv'
    BY DEF TypeOK, HandInv
  <1>4. QueueInv'
    BY DEF TypeOK, LockInv, QueueInv, PendingBound
  <1>5. QED
    BY <1>1, <1>2, <1>3, <1>4

\* LoadState keeps the invariant.
LEMMA LoadStateKeepsCore ==
  ASSUME CoreInv, LoadState
  PROVE  CoreInv'
  <1> USE CpSchedAssumption DEF CoreInv, LoadState, Refuse, CallbackReturns, poolVars, workerVars, mainVars, fileVars
  <1>1. TypeOK'
    BY DEF TypeOK, LockInv, HandInv, PoolState, WorkerPc, MainPc, Result, Outcome, CopyOutcome
  <1>2. LockInv'
    BY DEF TypeOK, LockInv
  <1>3. HandInv'
    BY DEF TypeOK, HandInv
  <1>4. QueueInv'
    BY DEF TypeOK, LockInv, QueueInv, PendingBound
  <1>5. QED
    BY <1>1, <1>2, <1>3, <1>4

\* LoadPending keeps the invariant.
LEMMA LoadPendingKeepsCore ==
  ASSUME CoreInv, LoadPending
  PROVE  CoreInv'
  <1> USE CpSchedAssumption DEF CoreInv, LoadPending, poolVars, workerVars, mainVars, fileVars
  <1>1. TypeOK'
    BY DEF TypeOK, LockInv, HandInv, PoolState, WorkerPc, MainPc, Result, Outcome, CopyOutcome
  <1>2. LockInv'
    BY DEF TypeOK, LockInv
  <1>3. HandInv'
    BY DEF TypeOK, HandInv
  <1>4. QueueInv'
    BY DEF TypeOK, LockInv, QueueInv, PendingBound
  <1>5. QED
    BY <1>1, <1>2, <1>3, <1>4

\* LockSchedule keeps the invariant.
LEMMA LockScheduleKeepsCore ==
  ASSUME CoreInv, LockSchedule
  PROVE  CoreInv'
  <1> USE CpSchedAssumption DEF CoreInv, LockSchedule, poolVars, workerVars, mainVars, fileVars
  <1>1. TypeOK'
    BY DEF TypeOK, LockInv, HandInv, PoolState, WorkerPc, MainPc, Result, Outcome, CopyOutcome
  <1>2. LockInv'
    BY DEF TypeOK, LockInv
  <1>3. HandInv'
    BY DEF TypeOK, HandInv
  <1>4. QueueInv'
    BY DEF TypeOK, LockInv, QueueInv, PendingBound
  <1>5. QED
    BY <1>1, <1>2, <1>3, <1>4

\* Recheck keeps the invariant.
LEMMA RecheckKeepsCore ==
  ASSUME CoreInv, Recheck
  PROVE  CoreInv'
  <1> USE CpSchedAssumption DEF CoreInv, Recheck, Refuse, CallbackReturns, poolVars, workerVars, mainVars, fileVars
  <1>1. TypeOK'
    BY DEF TypeOK, LockInv, HandInv, PoolState, WorkerPc, MainPc, Result, Outcome, CopyOutcome
  <1>2. LockInv'
    BY DEF TypeOK, LockInv
  <1>3. HandInv'
    BY DEF TypeOK, HandInv
  <1>4. QueueInv'
    BY DEF TypeOK, LockInv, QueueInv, PendingBound
  <1>5. QED
    BY <1>1, <1>2, <1>3, <1>4

\* Push keeps the invariant.
LEMMA PushKeepsCore ==
  ASSUME CoreInv, Push
  PROVE  CoreInv'
  <1> USE CpSchedAssumption DEF CoreInv, Push, Signal, CallbackReturns, poolVars, workerVars, mainVars, fileVars
  <1>1. TypeOK'
    BY DEF TypeOK, LockInv, HandInv, PoolState, WorkerPc, MainPc, Result, Outcome, CopyOutcome
  <1>2. LockInv'
    BY DEF TypeOK, LockInv
  <1>3. HandInv'
    BY DEF TypeOK, HandInv
  <1>4. QueueInv'
    BY DEF TypeOK, LockInv, QueueInv, PendingBound
  <1>5. QED
    BY <1>1, <1>2, <1>3, <1>4

\* InlineCopy keeps the invariant.
LEMMA InlineCopyKeepsCore ==
  ASSUME CoreInv, InlineCopy
  PROVE  CoreInv'
  <1> USE CpSchedAssumption DEF CoreInv, InlineCopy, CallbackReturns, CopyResult, poolVars, workerVars, mainVars, fileVars
  <1>1. TypeOK'
    BY DEF TypeOK, LockInv, HandInv, PoolState, WorkerPc, MainPc, Result, Outcome, CopyOutcome
  <1>2. LockInv'
    BY DEF TypeOK, LockInv
  <1>3. HandInv'
    BY DEF TypeOK, HandInv
  <1>4. QueueInv'
    BY DEF TypeOK, LockInv, QueueInv, PendingBound
  <1>5. QED
    BY <1>1, <1>2, <1>3, <1>4

\* Exchange keeps the invariant.
LEMMA ExchangeKeepsCore ==
  ASSUME CoreInv, Exchange
  PROVE  CoreInv'
  <1> USE CpSchedAssumption DEF CoreInv, Exchange, poolVars, workerVars, mainVars, fileVars
  <1>1. TypeOK'
    BY DEF TypeOK, LockInv, HandInv, PoolState, WorkerPc, MainPc, Result, Outcome, CopyOutcome
  <1>2. LockInv'
    BY DEF TypeOK, LockInv
  <1>3. HandInv'
    BY DEF TypeOK, HandInv
  <1>4. QueueInv'
    BY DEF TypeOK, LockInv, QueueInv, PendingBound
  <1>5. QED
    BY <1>1, <1>2, <1>3, <1>4

\* Broadcast keeps the invariant.
LEMMA BroadcastKeepsCore ==
  ASSUME CoreInv, Broadcast
  PROVE  CoreInv'
  <1> USE CpSchedAssumption DEF CoreInv, Broadcast, Woken, poolVars, workerVars, mainVars, fileVars
  <1>1. TypeOK'
    BY DEF TypeOK, LockInv, HandInv, PoolState, WorkerPc, MainPc, Result, Outcome, CopyOutcome
  <1>2. LockInv'
    BY DEF TypeOK, LockInv
  <1>3. HandInv'
    BY DEF TypeOK, HandInv
  <1>4. QueueInv'
    BY DEF TypeOK, LockInv, QueueInv, PendingBound
  <1>5. QED
    BY <1>1, <1>2, <1>3, <1>4

\* Join keeps the invariant.
LEMMA JoinKeepsCore ==
  ASSUME CoreInv, Join
  PROVE  CoreInv'
  <1> USE CpSchedAssumption DEF CoreInv, Join, poolVars, workerVars, mainVars, fileVars
  <1>1. TypeOK'
    BY DEF TypeOK, LockInv, HandInv, PoolState, WorkerPc, MainPc, Result, Outcome, CopyOutcome
  <1>2. LockInv'
    BY DEF TypeOK, LockInv
  <1>3. HandInv'
    BY DEF TypeOK, HandInv
  <1>4. QueueInv'
    BY DEF TypeOK, LockInv, QueueInv, PendingBound
  <1>5. QED
    BY <1>1, <1>2, <1>3, <1>4

\* WorkerLock keeps the invariant.
LEMMA WorkerLockKeepsCore ==
  ASSUME CoreInv, NEW w \in Worker, WorkerLock(w), UNCHANGED <<mainVars, fileVars>>
  PROVE  CoreInv'
  <1> USE CpSchedAssumption DEF CoreInv, WorkerLock, Goto, poolVars, workerVars, mainVars, fileVars
  <1>1. TypeOK'
    BY DEF TypeOK, LockInv, HandInv, PoolState, WorkerPc, MainPc, Result, Outcome, CopyOutcome
  <1>2. LockInv'
    BY DEF TypeOK, LockInv
  <1>3. HandInv'
    BY DEF TypeOK, HandInv
  <1>4. QueueInv'
    BY DEF TypeOK, LockInv, QueueInv, PendingBound
  <1>5. QED
    BY <1>1, <1>2, <1>3, <1>4

\* WorkerCheck keeps the invariant.
LEMMA WorkerCheckKeepsCore ==
  ASSUME CoreInv, NEW w \in Worker, WorkerCheck(w), UNCHANGED <<mainVars, fileVars>>
  PROVE  CoreInv'
  <1> USE CpSchedAssumption DEF CoreInv, WorkerCheck, Goto, poolVars, workerVars, mainVars, fileVars
  <1>1. TypeOK'
    BY DEF TypeOK, LockInv, HandInv, PoolState, WorkerPc, MainPc, Result, Outcome, CopyOutcome
  <1>2. LockInv'
    BY DEF TypeOK, LockInv
  <1>3. HandInv'
    BY DEF TypeOK, HandInv
  <1>4. QueueInv'
    BY DEF TypeOK, LockInv, QueueInv, PendingBound
  <1>5. QED
    BY <1>1, <1>2, <1>3, <1>4

\* WorkerWait keeps the invariant.
LEMMA WorkerWaitKeepsCore ==
  ASSUME CoreInv, NEW w \in Worker, WorkerWait(w), UNCHANGED <<mainVars, fileVars>>
  PROVE  CoreInv'
  <1> USE CpSchedAssumption DEF CoreInv, WorkerWait, Goto, poolVars, workerVars, mainVars, fileVars
  <1>1. TypeOK'
    BY DEF TypeOK, LockInv, HandInv, PoolState, WorkerPc, MainPc, Result, Outcome, CopyOutcome
  <1>2. LockInv'
    BY DEF TypeOK, LockInv
  <1>3. HandInv'
    BY DEF TypeOK, HandInv
  <1>4. QueueInv'
    BY DEF TypeOK, LockInv, QueueInv, PendingBound
  <1>5. QED
    BY <1>1, <1>2, <1>3, <1>4

\* WorkerRecheck keeps the invariant.
LEMMA WorkerRecheckKeepsCore ==
  ASSUME CoreInv, NEW w \in Worker, WorkerRecheck(w), UNCHANGED <<mainVars, fileVars>>
  PROVE  CoreInv'
  <1> USE CpSchedAssumption DEF CoreInv, WorkerRecheck, Goto, poolVars, workerVars, mainVars, fileVars
  <1>1. TypeOK'
    BY DEF TypeOK, LockInv, HandInv, PoolState, WorkerPc, MainPc, Result, Outcome, CopyOutcome
  <1>2. LockInv'
    BY DEF TypeOK, LockInv
  <1>3. HandInv'
    BY DEF TypeOK, HandInv
  <1>4. QueueInv'
    BY DEF TypeOK, LockInv, QueueInv, PendingBound
  <1>5. QED
    BY <1>1, <1>2, <1>3, <1>4

\* WorkerTake keeps the invariant.
LEMMA WorkerTakeKeepsCore ==
  ASSUME CoreInv, NEW w \in Worker, WorkerTake(w), UNCHANGED <<mainVars, fileVars>>
  PROVE  CoreInv'
  <1> USE CpSchedAssumption
      DEF CoreInv, WorkerTake, Goto, poolVars, workerVars, mainVars, fileVars
  <1>1. queue \in Seq(File) /\ queue # <<>> /\ queue' = Front(queue)
    BY DEF TypeOK, QueueInv
  <1>2. /\ Last(queue) \in File
        /\ queue' \in Seq(File)
        /\ Len(queue') = Len(queue) - 1
        /\ Len(queue) \in Nat \ {0}
    BY <1>1, FrontFact
  <1>3. TypeOK'
    BY <1>2 DEF TypeOK, QueueInv, PendingBound, WorkerPc
  <1>4. LockInv'
    BY DEF TypeOK, LockInv
  <1>5. HandInv'
    BY <1>2 DEF TypeOK, HandInv
  <1>6. PendingBound' /\ (mpc' \in {"lock", "recheck", "push"} => pending' <= MaxPending)
    BY <1>2 DEF TypeOK, QueueInv, PendingBound
  <1>7. \A v \in Worker : wpc'[v] # "take"
    BY DEF TypeOK, LockInv
  <1>8. QED
    BY <1>3, <1>4, <1>5, <1>6, <1>7 DEF QueueInv

\* WorkerCopy keeps the invariant.
LEMMA WorkerCopyKeepsCore ==
  ASSUME CoreInv, NEW w \in Worker, WorkerCopy(w), UNCHANGED mainVars
  PROVE  CoreInv'
  <1> USE CpSchedAssumption DEF CoreInv, WorkerCopy, Goto, CopyResult, poolVars, workerVars, mainVars, fileVars
  <1>1. TypeOK'
    BY DEF TypeOK, LockInv, HandInv, PoolState, WorkerPc, MainPc, Result, Outcome, CopyOutcome
  <1>2. LockInv'
    BY DEF TypeOK, LockInv
  <1>3. HandInv'
    BY DEF TypeOK, HandInv
  <1>4. QueueInv'
    BY DEF TypeOK, LockInv, QueueInv, PendingBound
  <1>5. QED
    BY <1>1, <1>2, <1>3, <1>4

\* WorkerFail keeps the invariant.
LEMMA WorkerFailKeepsCore ==
  ASSUME CoreInv, NEW w \in Worker, WorkerFail(w), UNCHANGED <<mainVars, fileVars>>
  PROVE  CoreInv'
  <1> USE CpSchedAssumption DEF CoreInv, WorkerFail, Goto, poolVars, workerVars, mainVars, fileVars
  <1>1. TypeOK'
    BY DEF TypeOK, LockInv, HandInv, PoolState, WorkerPc, MainPc, Result, Outcome, CopyOutcome
  <1>2. LockInv'
    BY DEF TypeOK, LockInv
  <1>3. HandInv'
    BY DEF TypeOK, HandInv
  <1>4. QueueInv'
    BY DEF TypeOK, LockInv, QueueInv, PendingBound
  <1>5. QED
    BY <1>1, <1>2, <1>3, <1>4

\* WorkerNotify keeps the invariant.
LEMMA WorkerNotifyKeepsCore ==
  ASSUME CoreInv, NEW w \in Worker, WorkerNotify(w), UNCHANGED <<mainVars, fileVars>>
  PROVE  CoreInv'
  <1> USE CpSchedAssumption DEF CoreInv, WorkerNotify, Woken, poolVars, workerVars, mainVars, fileVars
  <1>1. TypeOK'
    BY DEF TypeOK, LockInv, HandInv, PoolState, WorkerPc, MainPc, Result, Outcome, CopyOutcome
  <1>2. LockInv'
    BY DEF TypeOK, LockInv
  <1>3. HandInv'
    BY DEF TypeOK, HandInv
  <1>4. QueueInv'
    BY DEF TypeOK, LockInv, QueueInv, PendingBound
  <1>5. QED
    BY <1>1, <1>2, <1>3, <1>4

\* SpuriousWakeup keeps the invariant.
LEMMA SpuriousWakeupKeepsCore ==
  ASSUME CoreInv, NEW w \in Worker, SpuriousWakeup(w)
  PROVE  CoreInv'
  <1> USE CpSchedAssumption DEF CoreInv, SpuriousWakeup, Goto, poolVars, workerVars, mainVars, fileVars
  <1>1. TypeOK'
    BY DEF TypeOK, LockInv, HandInv, PoolState, WorkerPc, MainPc, Result, Outcome, CopyOutcome
  <1>2. LockInv'
    BY DEF TypeOK, LockInv
  <1>3. HandInv'
    BY DEF TypeOK, HandInv
  <1>4. QueueInv'
    BY DEF TypeOK, LockInv, QueueInv, PendingBound
  <1>5. QED
    BY <1>1, <1>2, <1>3, <1>4

\* The invariant holds at the start.
LEMMA InitCore == Init => CoreInv
  <1> SUFFICES ASSUME Init PROVE CoreInv
    OBVIOUS
  <1> USE CpSchedAssumption DEF Init
  <1>1. TypeOK
    BY DEF TypeOK, PoolState, WorkerPc, MainPc, Result, Outcome
  <1>2. LockInv /\ HandInv
    BY DEF LockInv, HandInv
  <1>3. QueueInv
    BY DEF QueueInv, PendingBound
  <1>4. QED
    BY <1>1, <1>2, <1>3 DEF CoreInv

\* Every step keeps the invariant.
LEMMA NextCore == CoreInv /\ [Next]_vars => CoreInv'
  <1> SUFFICES ASSUME CoreInv, [Next]_vars PROVE CoreInv'
    OBVIOUS
  <1>1. CASE MainStep
    BY <1>1, DeployKeepsCore, NextFileKeepsCore, DieKeepsCore, IterationEndsKeepsCore,
       LoadStateKeepsCore, LoadPendingKeepsCore, LockScheduleKeepsCore, RecheckKeepsCore,
       PushKeepsCore, InlineCopyKeepsCore, ExchangeKeepsCore, BroadcastKeepsCore,
       JoinKeepsCore DEF MainStep
  <1>2. ASSUME NEW w \in Worker, WorkerStep(w) PROVE CoreInv'
    <2>1. CASE WorkerCopy(w) /\ UNCHANGED mainVars
      BY <2>1, WorkerCopyKeepsCore
    <2>2. CASE /\ \/ WorkerLock(w) \/ WorkerCheck(w) \/ WorkerWait(w) \/ WorkerRecheck(w)
                  \/ WorkerTake(w) \/ WorkerFail(w) \/ WorkerNotify(w)
               /\ UNCHANGED <<mainVars, fileVars>>
      BY <2>2, WorkerLockKeepsCore, WorkerCheckKeepsCore, WorkerWaitKeepsCore,
         WorkerRecheckKeepsCore, WorkerTakeKeepsCore, WorkerFailKeepsCore,
         WorkerNotifyKeepsCore
    <2>3. QED
      BY <1>2, <2>1, <2>2 DEF WorkerStep
  <1>3. ASSUME NEW w \in Worker, SpuriousWakeup(w) PROVE CoreInv'
    BY <1>3, SpuriousWakeupKeepsCore
  <1>4. CASE UNCHANGED vars
    BY <1>4 DEF vars, CoreInv, TypeOK, LockInv, HandInv, QueueInv, PendingBound
  <1>5. QED
    BY <1>1, <1>2, <1>3, <1>4 DEF Next, Done

\* Whatever the constants, the invariant holds in every reachable state of the scheduler.
THEOREM CoreInvariant == Spec => []CoreInv
  BY InitCore, NextCore, PTL DEF Spec

\* Every variable keeps its type: pool.state is always one of the three states, and in
\* particular the unsigned counter pool.pending is never decremented below zero.
THEOREM TypeCorrect == Spec => []TypeOK
  BY CoreInvariant, PTL DEF CoreInv

\* pool.pending is the length of the queue and never exceeds MAX_PENDING + 1.
THEOREM PendingBounded == Spec => []PendingBound
  <1>1. CoreInv => PendingBound
    BY DEF CoreInv, QueueInv
  <1>2. QED
    BY <1>1, CoreInvariant, PTL

-----------------------------------------------------------------------------
(* A file is in one place. *)

\* The queue holds no file twice, and two workers never hold the same file.
NoTwins ==
  /\ \A i, j \in 1..Len(queue) : queue[i] = queue[j] => i = j
  /\ \A v, w \in Worker : wfile[v] # NoFile /\ wfile[v] = wfile[w] => v = w

\* No two of the places a file can be in share one.
Apart ==
  /\ \A i \in 1..Len(queue) :
       /\ queue[i] \notin unseen
       /\ queue[i] # mfile
       /\ outcome[queue[i]] = "none"
       /\ \A w \in Worker : wfile[w] # queue[i]
  /\ \A w \in Worker : wfile[w] # NoFile =>
       wfile[w] \notin unseen /\ wfile[w] # mfile /\ outcome[wfile[w]] = "none"
  /\ mfile # NoFile => mfile \notin unseen /\ outcome[mfile] = "none"
  /\ \A f \in unseen : outcome[f] = "none"

\* Every file is somewhere.
Somewhere ==
  \A f \in File :
    \/ f \in unseen
    \/ f = mfile
    \/ \E i \in 1..Len(queue) : queue[i] = f
    \/ \E w \in Worker : wfile[w] = f
    \/ outcome[f] # "none"

PlaceInv == NoTwins /\ Apart /\ Somewhere

LEMMA InitPlace == Init => PlaceInv
  BY CpSchedAssumption DEF Init, PlaceInv, NoTwins, Apart, Somewhere

\* A step that moves no file keeps PlaceInv.
LEMMA NoMove ==
  ASSUME PlaceInv, UNCHANGED <<queue, wfile, mfile, unseen, outcome>>
  PROVE  PlaceInv'
  BY DEF PlaceInv, NoTwins, Apart, Somewhere

\* The walk hands a file to the main thread.
LEMMA NextFilePlace ==
  ASSUME CoreInv, PlaceInv, NEW f \in File, NextFile(f)
  PROVE  PlaceInv'
  <1> USE CpSchedAssumption DEF NextFile, poolVars, workerVars
  <1>1. mfile = NoFile
    BY DEF CoreInv, HandInv
  <1>2. NoTwins' /\ Apart'
    BY DEF CoreInv, TypeOK, PlaceInv, NoTwins, Apart
  <1>3. Somewhere'
    BY <1>1 DEF PlaceInv, Somewhere
  <1>4. QED
    BY <1>2, <1>3 DEF PlaceInv

\* The main thread settles the file in its hands: it copied or gave it up.
LEMMA MainSettles ==
  ASSUME CoreInv, PlaceInv, mfile # NoFile, NEW o \in Outcome \ {"none"},
         outcome' = [outcome EXCEPT ![mfile] = o], mfile' = NoFile,
         UNCHANGED <<queue, wfile, unseen>>
  PROVE  PlaceInv'
  <1> USE CpSchedAssumption DEF CoreInv, TypeOK
  <1>1. NoTwins'
    BY DEF PlaceInv, NoTwins
  <1>2. Apart'
    BY DEF PlaceInv, Apart
  <1>3. Somewhere'
    BY DEF PlaceInv, Somewhere
  <1>4. QED
    BY <1>1, <1>2, <1>3 DEF PlaceInv

\* A worker settles the file in its hands.
LEMMA WorkerCopyPlace ==
  ASSUME CoreInv, PlaceInv, NEW w \in Worker, WorkerCopy(w), UNCHANGED mainVars
  PROVE  PlaceInv'
  <1> USE CpSchedAssumption DEF CoreInv, TypeOK, poolVars, mainVars
  <1>1. wfile[w] \in File /\ wfile' = [wfile EXCEPT ![w] = NoFile]
    BY DEF HandInv, WorkerCopy
  <1>2. PICK o \in CopyOutcome : outcome' = [outcome EXCEPT ![wfile[w]] = o]
    BY DEF WorkerCopy
  <1>3. o # "none" /\ UNCHANGED <<queue, mfile, unseen>>
    BY DEF CopyOutcome, WorkerCopy
  <1>4. NoTwins'
    BY <1>1, <1>3 DEF PlaceInv, NoTwins
  <1>5. Apart'
    BY <1>1, <1>2, <1>3 DEF PlaceInv, Apart, NoTwins
  <1>6. Somewhere'
    BY <1>1, <1>2, <1>3 DEF PlaceInv, Somewhere
  <1>7. QED
    BY <1>4, <1>5, <1>6 DEF PlaceInv

\* The main thread hands its file to the queue.
LEMMA PushPlace ==
  ASSUME CoreInv, PlaceInv, Push
  PROVE  PlaceInv'
  <1> USE CpSchedAssumption DEF CoreInv, TypeOK
  <1>1. mfile \in File /\ queue \in Seq(File) /\ queue' = Append(queue, mfile)
    BY DEF HandInv, Push
  <1>2. /\ Len(queue') = Len(queue) + 1
        /\ \A i \in 1..Len(queue) : queue'[i] = queue[i]
        /\ queue'[Len(queue) + 1] = mfile
        /\ Len(queue) \in Nat
    BY <1>1, AppendFact
  <1>3. mfile' = NoFile /\ UNCHANGED <<wfile, unseen, outcome>>
    BY DEF Push, CallbackReturns, fileVars
  <1>4. \A i \in 1..Len(queue') : i \in 1..Len(queue) \/ i = Len(queue) + 1
    BY <1>2
  <1>5. NoTwins'
    BY <1>2, <1>3, <1>4 DEF PlaceInv, NoTwins, Apart
  <1>6. Apart'
    BY <1>1, <1>2, <1>3, <1>4 DEF PlaceInv, Apart
  <1>7. Somewhere'
    BY <1>2, <1>3 DEF PlaceInv, Somewhere
  <1>8. QED
    BY <1>5, <1>6, <1>7 DEF PlaceInv

\* A worker gets the file at the end of the queue.
LEMMA WorkerTakePlace ==
  ASSUME CoreInv, PlaceInv, NEW w \in Worker, WorkerTake(w),
         UNCHANGED <<mainVars, fileVars>>
  PROVE  PlaceInv'
  <1> USE CpSchedAssumption DEF CoreInv, TypeOK
  <1>1. queue \in Seq(File) /\ queue # <<>> /\ queue' = Front(queue)
    BY DEF QueueInv, WorkerTake
  <1> DEFINE n == Len(queue)
  <1>2. /\ n \in Nat \ {0}
        /\ Len(queue') = n - 1
        /\ \A i \in 1..(n - 1) : queue'[i] = queue[i]
        /\ Last(queue) = queue[n] /\ queue[n] \in File
    BY <1>1, FrontFact DEF Last
  <1>3. wfile[w] = NoFile /\ wfile' = [wfile EXCEPT ![w] = queue[n]]
    BY <1>2 DEF HandInv, WorkerTake
  <1>4. UNCHANGED <<mfile, unseen, outcome>>
    BY DEF mainVars, fileVars
  <1> HIDE DEF n
  <1>5. \A i \in 1..n : i \in 1..(n - 1) \/ i = n
    BY <1>2
  <1>6. /\ n \in 1..n
        /\ \A i \in 1..(n - 1) : i \in 1..n /\ i # n
    BY <1>2
  <1>7. n = Len(queue)
    BY DEF n
  <1>8. NoTwins'
    BY <1>2, <1>3, <1>6, <1>7 DEF PlaceInv, NoTwins, Apart
  <1>9. Apart'
    BY <1>2, <1>3, <1>4, <1>6, <1>7 DEF PlaceInv, NoTwins, Apart
  <1>10. Somewhere'
    BY <1>2, <1>3, <1>4, <1>5, <1>7 DEF PlaceInv, Somewhere
  <1>11. QED
    BY <1>8, <1>9, <1>10 DEF PlaceInv

LEMMA MainPlace == ASSUME CoreInv, PlaceInv, MainStep PROVE PlaceInv'
  <1> USE DEF poolVars, workerVars, fileVars
  <1>1. ASSUME NEW w \in Worker, Deploy(w) PROVE PlaceInv'
    BY <1>1, NoMove DEF Deploy
  <1>2. ASSUME NEW f \in File, NextFile(f) PROVE PlaceInv'
    BY <1>2, NextFilePlace
  <1>3. CASE Die \/ IterationEnds \/ LoadPending \/ LockSchedule \/ Exchange \/ Broadcast \/ Join
    BY <1>3, NoMove DEF Die, IterationEnds, LoadPending, LockSchedule, Exchange, Broadcast, Join
  <1>4. CASE LoadState \/ Recheck
    <2>1. CASE state = "running"
      BY <1>4, <2>1, NoMove DEF LoadState, Recheck
    <2>2. CASE state # "running"
      <3>1. mfile # NoFile
        BY <1>4 DEF CoreInv, HandInv, LoadState, Recheck
      <3>2. "refused" \in Outcome \ {"none"}
        BY DEF Outcome
      <3>3. /\ outcome' = [outcome EXCEPT ![mfile] = "refused"]
            /\ mfile' = NoFile
            /\ UNCHANGED <<queue, wfile, unseen>>
        BY <1>4, <2>2 DEF LoadState, Recheck, Refuse, CallbackReturns
      <3>4. QED
        BY <3>1, <3>2, <3>3, MainSettles
    <2>3. QED
      BY <2>1, <2>2
  <1>5. CASE Push
    BY <1>5, PushPlace
  <1>6. CASE InlineCopy
    <2>1. mfile # NoFile
      BY <1>6 DEF CoreInv, HandInv, InlineCopy
    <2>2. PICK o \in CopyOutcome : outcome' = [outcome EXCEPT ![mfile] = o]
      BY <1>6 DEF InlineCopy
    <2>3. o \in Outcome \ {"none"}
      BY DEF Outcome, CopyOutcome
    <2>4. mfile' = NoFile /\ UNCHANGED <<queue, wfile, unseen>>
      BY <1>6 DEF InlineCopy, CallbackReturns
    <2>5. QED
      BY <2>1, <2>2, <2>3, <2>4, MainSettles
  <1>7. QED
    BY <1>1, <1>2, <1>3, <1>4, <1>5, <1>6 DEF MainStep

LEMMA NextPlace == CoreInv /\ PlaceInv /\ [Next]_vars => PlaceInv'
  <1> SUFFICES ASSUME CoreInv, PlaceInv, [Next]_vars PROVE PlaceInv'
    OBVIOUS
  <1> USE DEF poolVars, mainVars, fileVars
  <1>1. CASE MainStep
    BY <1>1, MainPlace
  <1>2. ASSUME NEW w \in Worker, WorkerStep(w) PROVE PlaceInv'
    <2>1. CASE WorkerCopy(w)
      BY <1>2, <2>1, WorkerCopyPlace DEF WorkerStep
    <2>2. CASE WorkerTake(w) /\ UNCHANGED fileVars
      BY <1>2, <2>2, WorkerTakePlace DEF WorkerStep
    <2>3. CASE /\ \/ WorkerLock(w) \/ WorkerCheck(w) \/ WorkerWait(w) \/ WorkerRecheck(w)
                  \/ WorkerFail(w) \/ WorkerNotify(w)
               /\ UNCHANGED fileVars
      BY <1>2, <2>3, NoMove DEF WorkerStep, WorkerLock, WorkerCheck, WorkerWait,
         WorkerRecheck, WorkerFail, WorkerNotify
    <2>4. QED
      BY <1>2, <2>1, <2>2, <2>3 DEF WorkerStep
  <1>3. ASSUME NEW w \in Worker, SpuriousWakeup(w) PROVE PlaceInv'
    BY <1>3, NoMove DEF SpuriousWakeup
  <1>4. CASE UNCHANGED vars
    BY <1>4, NoMove DEF vars
  <1>5. QED
    BY <1>1, <1>2, <1>3, <1>4 DEF Next, Done

THEOREM PlaceInvariant == Spec => []PlaceInv
  BY InitPlace, NextPlace, CoreInvariant, PTL DEF Spec

\* PlaceInv says what OnePlace says, without the set of places.
LEMMA PlaceInvGivesOnePlace ==
  ASSUME CoreInv, PlaceInv
  PROVE  OnePlace
  <1> SUFFICES ASSUME NEW f \in File
               PROVE  \E p \in Places(f) : Places(f) = {p}
    BY DEF OnePlace
  <1> USE CpSchedAssumption DEF CoreInv, TypeOK
  <1>0. DOMAIN queue = 1..Len(queue)
    OBVIOUS
  <1>1. CASE f \in unseen
    <2>1. /\ f # mfile /\ outcome[f] = "none"
          /\ \A i \in 1..Len(queue) : queue[i] # f
          /\ \A w \in Worker : wfile[w] # f
      BY <1>1 DEF PlaceInv, Apart
    <2>2. Places(f) = {<<"unseen", 0>>}
      BY <1>0, <1>1, <2>1 DEF Places
    <2>3. QED
      BY <2>2
  <1>2. CASE f = mfile
    <2>1. /\ f \notin unseen /\ outcome[f] = "none"
          /\ \A i \in 1..Len(queue) : queue[i] # f
          /\ \A w \in Worker : wfile[w] # f
      BY <1>2 DEF PlaceInv, Apart
    <2>2. Places(f) = {<<"main", 0>>}
      BY <1>0, <1>2, <2>1 DEF Places
    <2>3. QED
      BY <2>2
  <1>3. CASE \E i \in 1..Len(queue) : queue[i] = f
    <2>1. PICK i \in 1..Len(queue) : queue[i] = f
      BY <1>3
    <2>2. /\ f \notin unseen /\ f # mfile /\ outcome[f] = "none"
          /\ \A w \in Worker : wfile[w] # f
          /\ \A j \in 1..Len(queue) : queue[j] = f => j = i
      BY <2>1 DEF PlaceInv, Apart, NoTwins
    <2>3. Places(f) = {<<"queue", i>>}
      BY <1>0, <2>1, <2>2 DEF Places
    <2>4. QED
      BY <2>3
  <1>4. CASE \E w \in Worker : wfile[w] = f
    <2>1. PICK w \in Worker : wfile[w] = f
      BY <1>4
    <2>2. /\ f \notin unseen /\ f # mfile /\ outcome[f] = "none"
          /\ \A i \in 1..Len(queue) : queue[i] # f
          /\ \A v \in Worker : wfile[v] = f => v = w
      BY <2>1 DEF PlaceInv, Apart, NoTwins
    <2>3. Places(f) = {<<"worker", w>>}
      BY <1>0, <2>1, <2>2 DEF Places
    <2>4. QED
      BY <2>3
  <1>5. CASE outcome[f] # "none"
    <2>1. /\ f \notin unseen /\ f # mfile
          /\ \A i \in 1..Len(queue) : queue[i] # f
          /\ \A w \in Worker : wfile[w] # f
      BY <1>5 DEF PlaceInv, Apart
    <2>2. Places(f) = {<<"settled", 0>>}
      BY <1>0, <1>5, <2>1 DEF Places
    <2>3. QED
      BY <2>2
  <1>6. QED
    BY <1>1, <1>2, <1>3, <1>4, <1>5 DEF PlaceInv, Somewhere

\* Every file is in exactly one place: the walk, the queue and the threads hand files
\* over without losing one or giving one to two threads.
THEOREM EveryFileInOnePlace == Spec => []OnePlace
  BY PlaceInvGivesOnePlace, CoreInvariant, PlaceInvariant, PTL

-----------------------------------------------------------------------------
(* The end of the job, and failures. *)

\* Once copy() has its answer every worker has exited, and an exited worker stays so.
ExitInv == mpc = "returned" => \A w \in Worker : wpc[w] = "exited"

\* The state leaves "running" for an error only after a copy failed; it is closed only by
\* cpsched_join(); and the walk's result is an error only after the walk.
CauseInv ==
  /\ state = "closed" => mpc \in {"broadcast", "join", "returned"}
  /\ (state = "error" \/ \E w \in Worker : wpc[w] = "fail") =>
       \E f \in File : outcome[f] = "failed"
  /\ ret = "error" => mpc \in {"exchange", "broadcast", "join", "returned"}

EndInv == ExitInv /\ CauseInv /\ FailureVisible /\ RefusedForCause

LEMMA InitEnd == Init => EndInv
  BY CpSchedAssumption
  DEF Init, EndInv, ExitInv, CauseInv, FailureVisible, RefusedForCause

LEMMA MainEnd == ASSUME CoreInv, PlaceInv, EndInv, MainStep PROVE EndInv'
  <1> USE CpSchedAssumption
      DEF CoreInv, TypeOK, EndInv, poolVars, workerVars, mainVars, fileVars
  <1>1. ASSUME NEW w \in Worker, Deploy(w) PROVE EndInv'
    BY <1>1 DEF Deploy, Goto, ExitInv, CauseInv, FailureVisible, RefusedForCause
  <1>2. CASE Die \/ IterationEnds \/ LoadPending \/ LockSchedule \/ Exchange \/ Join
    BY <1>2 DEF Die, IterationEnds, LoadPending, LockSchedule, Exchange, Join,
       ExitInv, CauseInv, FailureVisible, RefusedForCause, Result
  <1>3. ASSUME NEW f \in File, NextFile(f) PROVE EndInv'
    BY <1>3 DEF NextFile, ExitInv, CauseInv, FailureVisible, RefusedForCause
  <1>4. CASE Broadcast
    BY <1>4 DEF Broadcast, Woken, ExitInv, CauseInv, FailureVisible, RefusedForCause
  <1>5. CASE Push
    <2>1. \A w \in Worker : wpc'[w] = "fail" <=> wpc[w] = "fail"
      BY <1>5 DEF Push, Signal
    <2>2. ret = "ok" /\ ret' = "ok"
      BY <1>5 DEF Push, CallbackReturns, CauseInv, Result
    <2>3. QED
      BY <1>5, <2>1, <2>2 DEF Push, CallbackReturns, ExitInv, CauseInv, FailureVisible,
         RefusedForCause
  <1>6. CASE LoadState \/ Recheck
    <2>1. CASE state = "running"
      BY <1>6, <2>1 DEF LoadState, Recheck, ExitInv, CauseInv, FailureVisible,
         RefusedForCause
    <2>2. CASE state # "running"
      <3>1. state = "error"
        BY <1>6, <2>2 DEF LoadState, Recheck, CauseInv, PoolState
      <3>2. PICK f \in File : outcome[f] = "failed"
        BY <3>1 DEF CauseInv
      <3>3. mfile # NoFile /\ outcome[mfile] = "none"
        BY <1>6 DEF LoadState, Recheck, HandInv, PlaceInv, Apart
      <3>4. /\ outcome' = [outcome EXCEPT ![mfile] = "refused"]
            /\ ret' = "error" /\ mpc' = "exchange"
            /\ UNCHANGED <<state, wpc>>
        BY <1>6, <2>2 DEF LoadState, Recheck, Refuse, CallbackReturns
      <3>5. outcome'[f] = "failed"
        BY <3>2, <3>3, <3>4
      <3>6. QED
        BY <3>1, <3>4, <3>5 DEF ExitInv, CauseInv, FailureVisible, RefusedForCause
    <2>3. QED
      BY <2>1, <2>2
  <1>7. CASE InlineCopy
    <2>1. mfile \in File /\ outcome[mfile] = "none" /\ ret = "ok"
      BY <1>7 DEF InlineCopy, HandInv, PlaceInv, Apart, CauseInv, Result
    <2>2. PICK o \in CopyOutcome :
             outcome' = [outcome EXCEPT ![mfile] = o] /\ CallbackReturns(CopyResult(o))
      BY <1>7 DEF InlineCopy
    <2>3. UNCHANGED <<state, wpc>> /\ mpc = "inline"
      BY <1>7 DEF InlineCopy
    <2>4. \A f \in File : outcome[f] = "failed" => outcome'[f] = "failed"
      BY <2>1, <2>2
    <2>5. ExitInv' /\ CauseInv'
      BY <2>2, <2>3, <2>4 DEF CallbackReturns, CopyResult, ExitInv, CauseInv
    <2>6. FailureVisible'
      BY <2>1, <2>2, <2>3 DEF CallbackReturns, CopyResult, FailureVisible
    <2>7. o # "refused"
      BY DEF CopyOutcome
    <2>8. RefusedForCause'
      BY <2>1, <2>2, <2>4, <2>7 DEF RefusedForCause
    <2>9. QED
      BY <2>5, <2>6, <2>8
  <1>8. QED
    BY <1>1, <1>2, <1>3, <1>4, <1>5, <1>6, <1>7 DEF MainStep

LEMMA WorkerEnd ==
  ASSUME CoreInv, PlaceInv, EndInv, NEW w \in Worker, WorkerStep(w)
  PROVE  EndInv'
  <1> USE CpSchedAssumption
      DEF CoreInv, TypeOK, EndInv, poolVars, workerVars, mainVars, fileVars
  <1>1. wpc[w] # "exited" /\ UNCHANGED <<mpc, ret>>
    BY DEF WorkerStep, WorkerLock, WorkerCheck, WorkerWait, WorkerRecheck, WorkerTake,
       WorkerFail, WorkerNotify, WorkerCopy
  <1>2. ExitInv'
    BY <1>1 DEF ExitInv
  <1>3. CASE WorkerCopy(w)
    <2>1. wfile[w] \in File /\ outcome[wfile[w]] = "none"
      BY <1>3 DEF WorkerCopy, HandInv, PlaceInv, Apart
    <2>2. PICK o \in CopyOutcome :
             /\ outcome' = [outcome EXCEPT ![wfile[w]] = o]
             /\ Goto(w, IF CopyResult(o) = "ok" THEN "lock" ELSE "fail")
      BY <1>3 DEF WorkerCopy
    <2>3. state' = state /\ o # "refused" /\ wpc[w] = "copy"
      BY <1>3 DEF WorkerCopy, CopyOutcome
    <2>4. \A f \in File : outcome[f] = "failed" => outcome'[f] = "failed"
      BY <2>1, <2>2
    <2>5. wpc'[w] = "fail" <=> o = "failed"
      BY <2>2 DEF Goto, CopyResult
    <2>6. \A v \in Worker : v # w => wpc'[v] = wpc[v]
      BY <2>2 DEF Goto
    <2>7. \A f \in File : outcome'[f] = IF f = wfile[w] THEN o ELSE outcome[f]
      BY <2>1, <2>2
    <2>8. CauseInv'
      BY <1>1, <2>1, <2>3, <2>4, <2>5, <2>6, <2>7 DEF CauseInv
    <2>9. FailureVisible'
      BY <1>1, <2>3, <2>5, <2>6, <2>7 DEF FailureVisible
    <2>10. RefusedForCause'
      BY <2>3, <2>4, <2>7 DEF RefusedForCause
    <2>11. QED
      BY <1>2, <2>8, <2>9, <2>10
  <1>4. CASE WorkerFail(w) /\ UNCHANGED fileVars
    BY <1>1, <1>2, <1>4 DEF WorkerFail, Goto, CauseInv, FailureVisible, RefusedForCause
  <1>5. CASE WorkerNotify(w) /\ UNCHANGED fileVars
    BY <1>1, <1>2, <1>5
    DEF WorkerNotify, Woken, CauseInv, FailureVisible, RefusedForCause
  <1>6. CASE /\ \/ WorkerLock(w) \/ WorkerCheck(w) \/ WorkerWait(w) \/ WorkerRecheck(w)
                \/ WorkerTake(w)
             /\ UNCHANGED fileVars
    <2>1. state' = state /\ \A v \in Worker : wpc'[v] = "fail" <=> wpc[v] = "fail"
      BY <1>6 DEF WorkerLock, WorkerCheck, WorkerWait, WorkerRecheck, WorkerTake, Goto
    <2>2. QED
      BY <1>1, <1>2, <1>6, <2>1 DEF CauseInv, FailureVisible, RefusedForCause
  <1>7. QED
    BY <1>3, <1>4, <1>5, <1>6 DEF WorkerStep

LEMMA NextEnd == CoreInv /\ PlaceInv /\ EndInv /\ [Next]_vars => EndInv'
  <1> SUFFICES ASSUME CoreInv, PlaceInv, EndInv, [Next]_vars PROVE EndInv'
    OBVIOUS
  <1>1. CASE MainStep
    BY <1>1, MainEnd
  <1>2. ASSUME NEW w \in Worker, WorkerStep(w) PROVE EndInv'
    BY <1>2, WorkerEnd
  <1>3. ASSUME NEW w \in Worker, SpuriousWakeup(w) PROVE EndInv'
    BY <1>3 DEF SpuriousWakeup, Goto, poolVars, mainVars, fileVars, CoreInv, TypeOK,
       EndInv, ExitInv, CauseInv, FailureVisible, RefusedForCause
  <1>4. CASE UNCHANGED vars
    BY <1>4 DEF vars, EndInv, ExitInv, CauseInv, FailureVisible, RefusedForCause
  <1>5. QED
    BY <1>1, <1>2, <1>3, <1>4 DEF Next, Done

THEOREM EndInvariant == Spec => []EndInv
  BY InitEnd, NextEnd, CoreInvariant, PlaceInvariant, PTL DEF Spec

\* cpsched_join() destroys the mutex and the condition variable when no thread holds the
\* one, waits on the other or still copies a file.
THEOREM PoolIsQuietAfterJoin == Spec => []JoinedQuiescent
  <1>1. CoreInv /\ EndInv => JoinedQuiescent
    BY DEF CoreInv, TypeOK, LockInv, HandInv, EndInv, ExitInv, JoinedQuiescent
  <1>2. QED
    BY <1>1, CoreInvariant, EndInvariant, PTL

\* No failure is forgotten before cpsched_join() takes the pool's state.
THEOREM FailuresStayVisible == Spec => []FailureVisible
  BY EndInvariant, PTL DEF EndInv

\* The scheduler refuses a file only after some copy failed.
THEOREM RefusalsHaveACause == Spec => []RefusedForCause
  BY EndInvariant, PTL DEF EndInv

-----------------------------------------------------------------------------
(* The scheduler implements CopyJob. *)

\* What the two results of copy() say: success of the walk means that it reached every file
\* and that none was refused, and a pool that was broken means that a copy failed.
AnswerInv ==
  /\ mpc \in {"exchange", "broadcast", "join", "returned"} /\ ret = "ok" => unseen = {}
  /\ (\E f \in File : outcome[f] = "refused") => ret = "error"
  /\ res # "running" => \E f \in File : outcome[f] = "failed"

LEMMA InitAnswer == Init => AnswerInv
  BY DEF Init, AnswerInv

\* A file that is settled stays as it is: only files in hand are settled.
LEMMA SettledStays ==
  ASSUME CoreInv, PlaceInv, Next, NEW f \in File, outcome[f] # "none"
  PROVE  outcome'[f] = outcome[f]
  <1> USE CpSchedAssumption DEF CoreInv, TypeOK, poolVars, workerVars, mainVars, fileVars
  <1>1. CASE MainStep
    <2>1. mpc \in {"load_state", "recheck", "inline"} => mfile \in File /\ mfile # f
      BY DEF HandInv, PlaceInv, Apart
    <2>2. QED
      BY <1>1, <2>1 DEF MainStep, Deploy, NextFile, Die, IterationEnds, LoadState,
         LoadPending, LockSchedule, Recheck, Push, InlineCopy, Exchange, Broadcast, Join,
         Refuse
  <1>2. ASSUME NEW w \in Worker, WorkerStep(w) PROVE outcome'[f] = outcome[f]
    <2>1. wpc[w] = "copy" => wfile[w] \in File /\ wfile[w] # f
      BY DEF HandInv, PlaceInv, Apart
    <2>2. QED
      BY <1>2, <2>1 DEF WorkerStep, WorkerCopy
  <1>3. QED
    BY <1>1, <1>2 DEF Next, SpuriousWakeup, Done, vars

LEMMA NextAnswer ==
  CoreInv /\ PlaceInv /\ EndInv /\ AnswerInv /\ [Next]_vars => AnswerInv'
  <1> SUFFICES ASSUME CoreInv, PlaceInv, EndInv, AnswerInv, [Next]_vars PROVE AnswerInv'
    OBVIOUS
  <1> USE CpSchedAssumption
      DEF CoreInv, TypeOK, EndInv, poolVars, workerVars, mainVars, fileVars
  <1>1. ASSUME Next, NEW f \in File, outcome[f] # "none" PROVE outcome'[f] = outcome[f]
    BY <1>1, SettledStays
  <1>2. CASE MainStep
    <2>1. ASSUME NEW w \in Worker, Deploy(w) PROVE AnswerInv'
      BY <2>1 DEF Deploy, AnswerInv
    <2>2. ASSUME NEW f \in File, NextFile(f) PROVE AnswerInv'
      BY <2>2 DEF NextFile, AnswerInv, CauseInv, Result
    <2>3. CASE Die \/ IterationEnds \/ LoadPending \/ LockSchedule \/ Broadcast \/ Join
      BY <2>3 DEF Die, IterationEnds, LoadPending, LockSchedule, Broadcast, Join,
         AnswerInv, CauseInv, Result
    <2>4. CASE Exchange
      BY <2>4 DEF Exchange, AnswerInv, CauseInv, PoolState
    <2>5. CASE Push
      BY <2>5 DEF Push, CallbackReturns, AnswerInv, CauseInv, Result
    <2>6. CASE LoadState \/ Recheck
      <3>1. state # "running" => \E f \in File : outcome[f] = "failed"
        BY <2>6 DEF LoadState, Recheck, CauseInv, PoolState
      <3>2. CASE state = "running"
        BY <2>6, <3>2 DEF LoadState, Recheck, AnswerInv
      <3>3. CASE state # "running"
        BY <1>1, <1>2, <2>6, <3>1, <3>3
        DEF LoadState, Recheck, Refuse, CallbackReturns, AnswerInv, Next
      <3>4. QED
        BY <3>2, <3>3
    <2>7. CASE InlineCopy
      <3>1. mfile \in File /\ ret = "ok"
        BY <2>7 DEF InlineCopy, HandInv, CauseInv, Result
      <3>2. PICK o \in CopyOutcome :
               outcome' = [outcome EXCEPT ![mfile] = o] /\ CallbackReturns(CopyResult(o))
        BY <2>7 DEF InlineCopy
      <3>3. o # "refused"
        BY DEF CopyOutcome
      <3>4. \A f \in File : outcome[f] = "failed" => outcome'[f] = "failed"
        BY <1>1, <1>2 DEF Next
      <3>5. ~ \E f \in File : outcome'[f] = "refused"
        BY <3>1, <3>2, <3>3 DEF AnswerInv
      <3>6. ret' = "error" => outcome'[mfile] = "failed"
        BY <3>1, <3>2 DEF CallbackReturns, CopyResult
      <3>7. mpc' \in {"iterate", "exchange"} /\ (mpc' = "exchange" => ret' = "error")
        BY <3>2 DEF CallbackReturns, CopyResult
      <3>8. UNCHANGED <<unseen, res>>
        BY <2>7, <3>2 DEF InlineCopy, CallbackReturns
      <3>9. QED
        BY <3>1, <3>4, <3>5, <3>6, <3>7, <3>8 DEF AnswerInv
    <2>8. QED
      BY <1>2, <2>1, <2>2, <2>3, <2>4, <2>5, <2>6, <2>7 DEF MainStep
  <1>3. ASSUME NEW w \in Worker, WorkerStep(w) PROVE AnswerInv'
    <2>1. UNCHANGED <<mpc, ret, res, unseen>>
      BY <1>3 DEF WorkerStep, WorkerCopy
    <2>2. \A f \in File : outcome[f] = "failed" => outcome'[f] = "failed"
      BY <1>1, <1>3 DEF Next
    <2>3. \A f \in File : outcome'[f] = "refused" => outcome[f] = "refused"
      BY <1>3 DEF WorkerStep, WorkerCopy, CopyOutcome
    <2>4. QED
      BY <2>1, <2>2, <2>3 DEF AnswerInv
  <1>4. ASSUME NEW w \in Worker, SpuriousWakeup(w) PROVE AnswerInv'
    BY <1>4 DEF SpuriousWakeup, AnswerInv
  <1>5. CASE UNCHANGED vars
    BY <1>5 DEF vars, AnswerInv
  <1>6. QED
    BY <1>2, <1>3, <1>4, <1>5 DEF Next, Done

THEOREM AnswerInvariant == Spec => []AnswerInv
  BY InitAnswer, NextAnswer, CoreInvariant, PlaceInvariant, EndInvariant, PTL DEF Spec

LEMMA InitJob == Init => Job!Init
  BY DEF Init, Job!Init, JobFate, JobPhase, JobReported

\* A step that settles nothing, does not move the walk on and stays in its phase is
\* invisible to CopyJob.
LEMMA Stutter ==
  ASSUME UNCHANGED <<outcome, unseen, ret, res>>, JobPhase' = JobPhase,
         mpc # "returned", mpc' # "returned"
  PROVE  UNCHANGED Job!vars
  BY DEF Job!vars, JobFate, JobReported

\* Settling one file, from "accepted" to o.
LEMMA SettleStep ==
  ASSUME CoreInv, NEW f \in File, NEW o \in CopyOutcome, outcome[f] = "none",
         f \notin unseen, outcome' = [outcome EXCEPT ![f] = o], UNCHANGED unseen,
         mpc \notin {"returned", "died"}, mpc' \notin {"returned", "died"},
         \/ JobPhase' = JobPhase
         \/ JobPhase = "walking" /\ o = "failed" /\ JobPhase' = "broken"
  PROVE  Job!Settle(f)
  <1>1. JobPhase \in {"walking", "closing", "broken"}
    BY DEF JobPhase
  <1>2. JobFate[f] = "accepted" /\ JobFate' = [JobFate EXCEPT ![f] = o]
    BY DEF JobFate, CoreInv, TypeOK, CopyOutcome
  <1>3. JobReported' = JobReported
    BY DEF JobReported
  <1>4. o \in Job!Settled
    BY DEF Job!Settled, CopyOutcome
  <1>5. QED
    BY <1>1, <1>2, <1>3, <1>4 DEF Job!Settle

\* The main thread's steps are steps of the copy job or invisible to it.
LEMMA MainJob ==
  ASSUME CoreInv, PlaceInv, EndInv, AnswerInv, MainStep
  PROVE  Job!Next \/ UNCHANGED Job!vars
  <1> USE CpSchedAssumption
      DEF CoreInv, TypeOK, EndInv, poolVars, workerVars, mainVars, fileVars
  <1>1. CASE \/ \E w \in Worker : Deploy(w)
             \/ LoadPending \/ LockSchedule \/ Exchange \/ Broadcast
    <2>1. JobPhase' = JobPhase
      BY <1>1 DEF Deploy, LoadPending, LockSchedule, Exchange, Broadcast, JobPhase
    <2>2. CASE Exchange
      BY <2>1, <2>2 DEF Exchange, Job!vars, JobFate, JobReported
    <2>3. CASE ~Exchange
      BY <1>1, <2>1, <2>3, Stutter DEF Deploy, LoadPending, LockSchedule, Broadcast
    <2>4. QED
      BY <2>2, <2>3
  <1>2. CASE Die
    BY <1>2 DEF Die, Job!Next, Job!Abort, JobFate, JobPhase, JobReported
  <1>3. ASSUME NEW f \in File, NextFile(f) PROVE Job!Accept(f)
    <2>1. outcome[f] = "none" /\ f \in unseen
      BY <1>3 DEF NextFile, PlaceInv, Apart
    <2>2. JobFate[f] = "unseen" /\ JobFate' = [JobFate EXCEPT ![f] = "accepted"]
      BY <1>3, <2>1 DEF NextFile, JobFate
    <2>3. JobPhase = "walking" /\ UNCHANGED <<JobPhase, JobReported>>
      BY <1>3 DEF NextFile, JobPhase, JobReported
    <2>4. QED
      BY <2>2, <2>3 DEF Job!Accept
  <1>4. CASE IterationEnds
    <2>1. UNCHANGED <<JobFate, JobReported>>
      BY <1>4 DEF IterationEnds, JobFate, JobReported
    <2>2. JobPhase = "walking"
      BY <1>4 DEF IterationEnds, JobPhase
    <2>3. CASE ret' = "ok"
      <3>1. unseen = {} /\ JobPhase' = "closing"
        BY <1>4, <2>3 DEF IterationEnds, JobPhase
      <3>2. ~Job!Some("unseen")
        BY <3>1 DEF Job!Some, JobFate, Outcome, CopyOutcome
      <3>3. QED
        BY <2>1, <2>2, <3>1, <3>2 DEF Job!Next, Job!Close
    <2>4. CASE ret' # "ok"
      <3>1. JobPhase' = "broken"
        BY <1>4, <2>4 DEF IterationEnds, JobPhase
      <3>2. QED
        BY <2>1, <2>2, <3>1 DEF Job!Next, Job!Break
    <2>5. QED
      BY <2>3, <2>4
  <1>5. CASE Push
    <2>1. UNCHANGED <<outcome, unseen, ret, res>> /\ mpc = "push" /\ mpc' = "iterate"
      BY <1>5 DEF Push, CallbackReturns, CauseInv, Result
    <2>2. JobPhase' = JobPhase
      BY <2>1 DEF JobPhase
    <2>3. QED
      BY <2>1, <2>2, Stutter
  <1>6. CASE (LoadState \/ Recheck) /\ state = "running"
    <2>1. /\ UNCHANGED <<outcome, unseen, ret, res>>
          /\ mpc \in {"load_state", "recheck"} /\ mpc' \in {"load_pending", "push"}
      BY <1>6 DEF LoadState, Recheck
    <2>2. JobPhase' = JobPhase
      BY <2>1 DEF JobPhase
    <2>3. QED
      BY <2>1, <2>2, Stutter
  <1>7. CASE (LoadState \/ Recheck) /\ state # "running"
    <2>1. PICK f \in File : outcome[f] = "failed"
      BY <1>7 DEF LoadState, Recheck, CauseInv, PoolState
    <2>2. mfile \in File /\ outcome[mfile] = "none" /\ mfile \notin unseen
      BY <1>7 DEF LoadState, Recheck, HandInv, PlaceInv, Apart
    <2>3. /\ outcome' = [outcome EXCEPT ![mfile] = "refused"]
          /\ mpc \in {"load_state", "recheck"} /\ mpc' = "exchange" /\ ret' = "error"
          /\ UNCHANGED unseen
      BY <1>7 DEF LoadState, Recheck, Refuse, CallbackReturns
    <2>4. JobFate[f] = "failed" /\ JobFate[mfile] = "accepted"
      BY <2>1, <2>2, <2>3 DEF JobFate
    <2>5. JobFate' = [JobFate EXCEPT ![mfile] = "refused"]
      BY <2>2, <2>3 DEF JobFate
    <2>6. JobPhase = "walking" /\ JobPhase' = "broken" /\ JobReported' = JobReported
      BY <2>3 DEF JobPhase, JobReported
    <2>7. QED
      BY <2>2, <2>4, <2>5, <2>6 DEF Job!Next, Job!Refuse, Job!Some
  <1>8. CASE InlineCopy
    <2>1. mfile \in File /\ outcome[mfile] = "none" /\ mfile \notin unseen
      BY <1>8 DEF InlineCopy, HandInv, PlaceInv, Apart
    <2>2. PICK o \in CopyOutcome :
             outcome' = [outcome EXCEPT ![mfile] = o] /\ CallbackReturns(CopyResult(o))
      BY <1>8 DEF InlineCopy
    <2>3. mpc = "inline" /\ UNCHANGED unseen
      BY <1>8 DEF InlineCopy
    <2>4. /\ mpc' = IF o = "failed" THEN "exchange" ELSE "iterate"
          /\ o = "failed" => ret' = "error"
      BY <2>2 DEF CallbackReturns, CopyResult
    <2>5. \/ JobPhase' = JobPhase
          \/ JobPhase = "walking" /\ o = "failed" /\ JobPhase' = "broken"
      BY <2>3, <2>4 DEF JobPhase
    <2>6. Job!Settle(mfile)
      BY <2>1, <2>2, <2>3, <2>4, <2>5, SettleStep
    <2>7. QED
      BY <2>1, <2>6 DEF Job!Next
  <1>9. CASE Join
    <2>1. mpc = "join" /\ mpc' = "returned" /\ UNCHANGED <<outcome, unseen, ret, res>>
      BY <1>9 DEF Join
    <2>2. JobPhase = (IF ret = "ok" THEN "closing" ELSE "broken") /\ JobPhase' = "over"
      BY <2>1 DEF JobPhase
    <2>3. JobFate' = [f \in File |-> IF JobFate[f] = "accepted" THEN "dropped"
                                     ELSE JobFate[f]]
      BY <2>1 DEF JobFate, Outcome, CopyOutcome
    <2>4. Job!Some("failed") <=> \E f \in File : outcome[f] = "failed"
      BY <2>1 DEF Job!Some, JobFate
    <2>5. CASE ret = "ok" /\ res = "running"
      BY <2>1, <2>2, <2>3, <2>5 DEF Job!Next, Job!Finish, JobReported
    <2>6. CASE ~(ret = "ok" /\ res = "running")
      BY <2>1, <2>2, <2>3, <2>4, <2>6
      DEF Job!Next, Job!Finish, JobReported, AnswerInv
    <2>7. QED
      BY <2>5, <2>6
  <1>10. QED
    BY <1>1, <1>2, <1>3, <1>4, <1>5, <1>6, <1>7, <1>8, <1>9 DEF MainStep, Job!Next

\* A worker's copy settles a file; its other steps are invisible to the copy job.
LEMMA WorkerJob ==
  ASSUME CoreInv, PlaceInv, EndInv, NEW w \in Worker, WorkerStep(w)
  PROVE  Job!Next \/ UNCHANGED Job!vars
  <1> USE CpSchedAssumption
      DEF CoreInv, TypeOK, EndInv, poolVars, workerVars, mainVars, fileVars
  <1>1. mpc' = mpc /\ JobPhase' = JobPhase /\ mpc # "died"
    BY DEF WorkerStep, JobPhase
  <1>2. mpc # "returned"
    BY DEF WorkerStep, WorkerLock, WorkerCheck, WorkerWait, WorkerRecheck, WorkerTake,
       WorkerFail, WorkerNotify, WorkerCopy, ExitInv
  <1>3. CASE WorkerCopy(w)
    <2>1. wfile[w] \in File /\ outcome[wfile[w]] = "none" /\ wfile[w] \notin unseen
      BY <1>3 DEF WorkerCopy, HandInv, PlaceInv, Apart
    <2>2. PICK o \in CopyOutcome : outcome' = [outcome EXCEPT ![wfile[w]] = o]
      BY <1>3 DEF WorkerCopy
    <2>3. UNCHANGED unseen
      BY <1>3 DEF WorkerCopy
    <2>4. Job!Settle(wfile[w])
      BY <1>1, <1>2, <2>1, <2>2, <2>3, SettleStep
    <2>5. QED
      BY <2>1, <2>4 DEF Job!Next
  <1>4. CASE UNCHANGED fileVars
    BY <1>1, <1>2, <1>4, Stutter DEF WorkerStep
  <1>5. QED
    BY <1>3, <1>4 DEF WorkerStep

LEMMA NextJob ==
  CoreInv /\ PlaceInv /\ EndInv /\ AnswerInv /\ [Next]_vars => [Job!Next]_(Job!vars)
  <1> SUFFICES ASSUME CoreInv, PlaceInv, EndInv, AnswerInv, [Next]_vars
               PROVE  Job!Next \/ UNCHANGED Job!vars
    OBVIOUS
  <1>1. CASE MainStep
    BY <1>1, MainJob
  <1>2. ASSUME NEW w \in Worker, WorkerStep(w) PROVE Job!Next \/ UNCHANGED Job!vars
    BY <1>2, WorkerJob
  <1>3. ASSUME NEW w \in Worker, SpuriousWakeup(w) PROVE UNCHANGED Job!vars
    BY <1>3 DEF SpuriousWakeup, mainVars, fileVars, Job!vars, JobFate, JobPhase, JobReported
  <1>4. CASE UNCHANGED vars
    BY <1>4 DEF vars, Job!vars, JobFate, JobPhase, JobReported
  <1>5. QED
    BY <1>1, <1>2, <1>3, <1>4 DEF Next, Done

\* The scheduler implements the copy job, with any number of workers and files: each file
\* is settled at most once, success means a whole walk, an error that the walk broke off or
\* that a copy failed, and nothing moves after the job is over.
THEOREM ImplementsCopyJob == Spec => IsCopyJob
  BY InitJob, NextJob, CoreInvariant, PlaceInvariant, EndInvariant, AnswerInvariant, PTL
  DEF Spec, IsCopyJob, Job!Spec

=============================================================================
