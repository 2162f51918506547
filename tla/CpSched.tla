------------------------------- MODULE CpSched -------------------------------
(***************************************************************************)
(* The copy scheduler of platfree/cpsched.c together with the caller that  *)
(* drives it, copy() and cpyfile() of commands/copy.c.                     *)
(*                                                                         *)
(* The main thread walks the source tree and offers every file to a pool   *)
(* of worker threads; when too many files are pending it copies the file   *)
(* itself.  When the walk is over it closes the pool and joins it.  The    *)
(* pool's state word is read and written without the lock, so every access *)
(* to it is a step of its own; what the lock protects (the queue and the   *)
(* pending counter) changes in one step per critical section.              *)
(***************************************************************************)
EXTENDS Naturals, SequencesExt

CONSTANTS
  Worker,       \* the pool's threads (thrd_numb of them)
  File,         \* the regular files and symbolic links under the source
  MaxPending,   \* MAX_PENDING
  Main,         \* the thread that runs copy()
  NoThread,     \* nobody holds the lock
  NoFile        \* a thread has no file in hand

ASSUME CpSchedAssumption ==
  /\ MaxPending \in Nat
  /\ Worker # {}                            \* cmd_copy() rejects zero threads
  /\ Main \notin Worker
  /\ NoThread \notin Worker \cup {Main}
  /\ NoFile \notin File

VARIABLES
  state,    \* pool.state
  queue,    \* pool.queue, first to last
  pending,  \* pool.pending
  lock,     \* who holds pool.lock
  wpc,      \* where each worker is
  wfile,    \* the file each worker copies
  mpc,      \* where the main thread is
  mfile,    \* the file the main thread handles
  ret,      \* ret[0] of copy(): the walk's result
  res,      \* ret[1] of copy(): the state that cpsched_join() found
  unseen,   \* the files the walk has not reached
  outcome   \* what became of every file that is nobody's any more

vars == <<state, queue, pending, lock, wpc, wfile, mpc, mfile, ret, res, unseen, outcome>>
poolVars == <<state, queue, pending, lock>>
workerVars == <<wpc, wfile>>
mainVars == <<mpc, mfile, ret, res>>
fileVars == <<unseen, outcome>>

PoolState == {"running", "error", "closed"}
Result == {"ok", "error"}
WorkerPc == {"unborn", "lock", "check", "wait", "waiting", "woken", "recheck", "take",
             "copy", "fail", "notify", "exited"}
MainPc == {"deploy", "iterate", "load_state", "load_pending", "lock", "recheck", "push",
           "inline", "exchange", "broadcast", "join", "returned", "died"}
\* copy_regfile() and copy_symlink() copy the file and return 0, return an error, or
\* (the destination cannot be created) return 0 without a copy.
CopyOutcome == {"copied", "failed", "missed"}
Outcome == CopyOutcome \cup {"none", "refused"}

Init ==
  /\ state = "running"
  /\ queue = <<>>
  /\ pending = 0
  /\ lock = NoThread
  /\ wpc = [w \in Worker |-> "unborn"]
  /\ wfile = [w \in Worker |-> NoFile]
  /\ mpc = "deploy"
  /\ mfile = NoFile
  /\ ret = "ok"
  /\ res = "running"
  /\ unseen = File
  /\ outcome = [f \in File |-> "none"]

-----------------------------------------------------------------------------
(* What several steps do to a part of the state. *)

\* cnd_signal(): one of the threads that wait becomes runnable, if any waits.
Signal ==
  \/ \E w \in Worker : wpc[w] = "waiting" /\ wpc' = [wpc EXCEPT ![w] = "woken"]
  \/ (\A w \in Worker : wpc[w] # "waiting") /\ UNCHANGED wpc

\* cnd_broadcast(): every thread that waits becomes runnable.
Woken(pcs) == [w \in Worker |-> IF pcs[w] = "waiting" THEN "woken" ELSE pcs[w]]

\* The walk's callback, cpyfile(), is done with mfile: fileiter() goes on to the next
\* file after a success and returns the error otherwise.
CallbackReturns(r) ==
  /\ mfile' = NoFile
  /\ ret' = r
  /\ mpc' = IF r = "ok" THEN "iterate" ELSE "exchange"
  /\ UNCHANGED res

\* The scheduler found the pool broken: the file stays uncopied.
Refuse ==
  /\ outcome' = [outcome EXCEPT ![mfile] = "refused"]
  /\ CallbackReturns("error")

CopyResult(o) == IF o = "failed" THEN "error" ELSE "ok"

-----------------------------------------------------------------------------
(* cpsched_task(): the worker threads. *)

Goto(w, pc) == wpc' = [wpc EXCEPT ![w] = pc]

\* The mutex is taken at the top of the loop, and taken again inside cnd_wait().
WorkerLock(w) ==
  /\ wpc[w] \in {"lock", "woken"}
  /\ lock = NoThread
  /\ lock' = w
  /\ Goto(w, IF wpc[w] = "lock" THEN "check" ELSE "recheck")
  /\ UNCHANGED <<state, queue, pending, wfile>>

\* The state check before the first wait.
WorkerCheck(w) ==
  /\ wpc[w] = "check"
  /\ IF state = "running"
       THEN Goto(w, "wait") /\ UNCHANGED lock
       ELSE Goto(w, "exited") /\ lock' = NoThread
  /\ UNCHANGED <<state, queue, pending, wfile>>

\* cnd_wait() blocks and releases the mutex at once.
WorkerWait(w) ==
  /\ wpc[w] = "wait"
  /\ Goto(w, "waiting")
  /\ lock' = NoThread
  /\ UNCHANGED <<state, queue, pending, wfile>>

\* Mutant of WorkerRecheck: the worker leaves without unlocking.
WorkerRecheckKeepsLock(w) ==
  /\ wpc[w] = "recheck"
  /\ \/ state # "running" /\ Goto(w, "exited")
     \/ state = "running" /\ queue = <<>> /\ Goto(w, "wait")
     \/ state = "running" /\ queue # <<>> /\ Goto(w, "take")
  /\ UNCHANGED <<state, queue, pending, lock, wfile>>

\* The checks after cnd_wait(): leave, wait again, or take a file.
WorkerRecheck(w) ==
  /\ wpc[w] = "recheck"
  /\ \/ state # "running" /\ Goto(w, "exited") /\ lock' = NoThread
     \/ state = "running" /\ queue = <<>> /\ Goto(w, "wait") /\ UNCHANGED lock
     \/ state = "running" /\ queue # <<>> /\ Goto(w, "take") /\ UNCHANGED lock
  /\ UNCHANGED <<state, queue, pending, wfile>>

\* Mutant of WorkerTake: it takes the last task and unlinks the first.
WorkerTakeOtherEnd(w) ==
  /\ wpc[w] = "take"
  /\ wfile' = [wfile EXCEPT ![w] = Last(queue)]
  /\ queue' = Tail(queue)
  /\ pending' = pending - 1
  /\ lock' = NoThread
  /\ Goto(w, "copy")
  /\ UNCHANGED state

\* The last task of the list is the worker's.
WorkerTake(w) ==
  /\ wpc[w] = "take"
  /\ wfile' = [wfile EXCEPT ![w] = Last(queue)]
  /\ queue' = Front(queue)
  /\ pending' = pending - 1
  /\ lock' = NoThread
  /\ Goto(w, "copy")
  /\ UNCHANGED state

\* Mutant of WorkerCopy: the worker ignores an error and takes the next task.
WorkerCopyIgnoresError(w) ==
  /\ wpc[w] = "copy"
  /\ \E o \in CopyOutcome : outcome' = [outcome EXCEPT ![wfile[w]] = o]
  /\ Goto(w, "lock")
  /\ wfile' = [wfile EXCEPT ![w] = NoFile]
  /\ UNCHANGED <<poolVars, unseen>>

WorkerCopy(w) ==
  /\ wpc[w] = "copy"
  /\ \E o \in CopyOutcome :
       /\ outcome' = [outcome EXCEPT ![wfile[w]] = o]
       /\ Goto(w, IF CopyResult(o) = "ok" THEN "lock" ELSE "fail")
  /\ wfile' = [wfile EXCEPT ![w] = NoFile]
  /\ UNCHANGED <<poolVars, unseen>>

\* A worker whose copy failed stores POOL_ERROR, without the lock ...
WorkerFail(w) ==
  /\ wpc[w] = "fail"
  /\ state' = "error"
  /\ Goto(w, "notify")
  /\ UNCHANGED <<queue, pending, lock, wfile>>

\* ... then broadcasts and exits.
WorkerNotify(w) ==
  /\ wpc[w] = "notify"
  /\ wpc' = [Woken(wpc) EXCEPT ![w] = "exited"]
  /\ UNCHANGED <<poolVars, wfile>>

\* cnd_wait() may return although nobody signalled.
SpuriousWakeup(w) ==
  /\ mpc # "died"
  /\ wpc[w] = "waiting"
  /\ Goto(w, "woken")
  /\ UNCHANGED <<poolVars, wfile, mainVars, fileVars>>

\* A worker gets the mutex, in the loop or inside cnd_wait().
WorkerAcquire(w) == mpc # "died" /\ WorkerLock(w) /\ UNCHANGED <<mainVars, fileVars>>

\* A worker's next step by its own doing; none after die() ended the process.
WorkerStep(w) ==
  /\ mpc # "died"
  /\ \/ /\ \/ WorkerLock(w) \/ WorkerCheck(w) \/ WorkerWait(w) \/ WorkerRecheck(w)
           \/ WorkerTake(w) \/ WorkerFail(w) \/ WorkerNotify(w)
        /\ UNCHANGED fileVars
     \/ WorkerCopy(w)
  /\ UNCHANGED mainVars

-----------------------------------------------------------------------------
(* The main thread: cpsched_deploy(), the walk, cpsched_join(). *)

\* A created worker runs at once; the walk starts when the last one is created.
Deploy(w) ==
  /\ mpc = "deploy"
  /\ wpc[w] = "unborn"
  /\ Goto(w, "lock")
  /\ mpc' = IF \E v \in Worker \ {w} : wpc[v] = "unborn" THEN "deploy" ELSE "iterate"
  /\ UNCHANGED <<poolVars, wfile, mfile, ret, res, fileVars>>

\* xthrd_create() and xmalloc() end the process when they fail.
Die ==
  /\ \/ mpc = "deploy"
     \/ mpc = "load_pending" /\ pending <= MaxPending
  /\ mpc' = "died"
  /\ UNCHANGED <<poolVars, workerVars, mfile, ret, res, fileVars>>

\* fileiter() reaches a file and calls cpyfile().
NextFile(f) ==
  /\ mpc = "iterate"
  /\ f \in unseen
  /\ unseen' = unseen \ {f}
  /\ mfile' = f
  /\ mpc' = "load_state"
  /\ UNCHANGED <<poolVars, workerVars, ret, res, outcome>>

\* fileiter() returns: it visited everything, or there is something it cannot read, in
\* which case files may be left or not (a last directory may hold none).
IterationEnds ==
  /\ mpc = "iterate"
  /\ \/ unseen = {} /\ UNCHANGED ret
     \/ ret' = "error"
  /\ mpc' = "exchange"
  /\ UNCHANGED <<poolVars, workerVars, mfile, res, fileVars>>

\* cpsched_schedule() looks at the state ...
LoadState ==
  /\ mpc = "load_state"
  /\ \/ state = "running" /\ mpc' = "load_pending" /\ UNCHANGED <<mfile, ret, res, outcome>>
     \/ state # "running" /\ Refuse
  /\ UNCHANGED <<poolVars, workerVars, unseen>>

\* Mutants of LoadPending: one more task fits; a busy scheduler is an error.
LoadPendingOffByOne ==
  /\ mpc = "load_pending"
  /\ mpc' = IF pending > MaxPending + 1 THEN "inline" ELSE "lock"
  /\ UNCHANGED <<poolVars, workerVars, mfile, ret, res, fileVars>>
LoadPendingRefuses ==
  /\ mpc = "load_pending"
  /\ \/ pending > MaxPending /\ Refuse
     \/ pending <= MaxPending /\ mpc' = "lock" /\ UNCHANGED <<mfile, ret, res, outcome>>
  /\ UNCHANGED <<poolVars, workerVars, unseen>>

\* ... and at the number of pending tasks, both without the lock, ...
LoadPending ==
  /\ mpc = "load_pending"
  /\ mpc' = IF pending > MaxPending THEN "inline" ELSE "lock"
  /\ UNCHANGED <<poolVars, workerVars, mfile, ret, res, fileVars>>

\* ... makes a task and takes the lock, ...
LockSchedule ==
  /\ mpc = "lock"
  /\ lock = NoThread
  /\ lock' = Main
  /\ mpc' = "recheck"
  /\ UNCHANGED <<state, queue, pending, workerVars, mfile, ret, res, fileVars>>

\* ... looks at the state again ...
Recheck ==
  /\ mpc = "recheck"
  /\ \/ state = "running" /\ mpc' = "push" /\ UNCHANGED <<lock, mfile, ret, res, outcome>>
     \/ state # "running" /\ lock' = NoThread /\ Refuse
  /\ UNCHANGED <<state, queue, pending, workerVars, unseen>>

\* Mutants of Push: the counter is forgotten; the mutex stays locked.
PushUncounted ==
  /\ mpc = "push"
  /\ queue' = Append(queue, mfile)
  /\ lock' = NoThread
  /\ Signal
  /\ CallbackReturns("ok")
  /\ UNCHANGED <<state, pending, wfile, fileVars>>
PushKeepsLock ==
  /\ mpc = "push"
  /\ queue' = Append(queue, mfile)
  /\ pending' = pending + 1
  /\ Signal
  /\ CallbackReturns("ok")
  /\ UNCHANGED <<state, lock, wfile, fileVars>>

\* ... and queues the task, signals one worker and unlocks.
Push ==
  /\ mpc = "push"
  /\ queue' = Append(queue, mfile)
  /\ pending' = pending + 1
  /\ lock' = NoThread
  /\ Signal
  /\ CallbackReturns("ok")
  /\ UNCHANGED <<state, wfile, fileVars>>

\* cpyfile() copies the file itself when the scheduler is busy.
InlineCopy ==
  /\ mpc = "inline"
  /\ \E o \in CopyOutcome :
       /\ outcome' = [outcome EXCEPT ![mfile] = o]
       /\ CallbackReturns(CopyResult(o))
  /\ UNCHANGED <<poolVars, workerVars, unseen>>

\* cpsched_join() swaps the state for POOL_CLOSED, without the lock, ...
Exchange ==
  /\ mpc = "exchange"
  /\ res' = state
  /\ state' = "closed"
  /\ mpc' = "broadcast"
  /\ UNCHANGED <<queue, pending, lock, workerVars, mfile, ret, fileVars>>

\* ... wakes whoever waits, also without the lock, ...
Broadcast ==
  /\ mpc = "broadcast"
  /\ wpc' = Woken(wpc)
  /\ mpc' = "join"
  /\ UNCHANGED <<poolVars, wfile, mfile, ret, res, fileVars>>

\* Mutant of Join: one exited worker is enough.
JoinFirst ==
  /\ mpc = "join"
  /\ \E w \in Worker : wpc[w] = "exited"
  /\ mpc' = "returned"
  /\ UNCHANGED <<poolVars, workerVars, mfile, ret, res, fileVars>>

\* ... and returns when every worker has exited.
Join ==
  /\ mpc = "join"
  /\ \A w \in Worker : wpc[w] = "exited"
  /\ mpc' = "returned"
  /\ UNCHANGED <<poolVars, workerVars, mfile, ret, res, fileVars>>

MainStep ==
  \/ \E w \in Worker : Deploy(w)
  \/ \E f \in File : NextFile(f)
  \/ Die \/ IterationEnds
  \/ LoadState \/ LoadPending \/ LockSchedule \/ Recheck \/ Push \/ InlineCopy
  \/ Exchange \/ Broadcast \/ Join

\* The command is over.
Done == mpc \in {"returned", "died"} /\ UNCHANGED vars

Next ==
  \/ MainStep
  \/ \E w \in Worker : WorkerStep(w) \/ SpuriousWakeup(w)
  \/ Done

\* Every thread that can run does run, a mutex that is free again and again is taken in
\* the end, and nothing is promised about wake-ups nobody asked for.
Fairness ==
  /\ WF_vars(MainStep)
  /\ SF_vars(LockSchedule)
  /\ \A w \in Worker : WF_vars(WorkerStep(w)) /\ SF_vars(WorkerAcquire(w))

Spec == Init /\ [][Next]_vars /\ Fairness

-----------------------------------------------------------------------------
(* Properties. *)

TypeOK ==
  /\ state \in PoolState
  /\ queue \in Seq(File)
  /\ pending \in Nat
  /\ lock \in Worker \cup {Main, NoThread}
  /\ wpc \in [Worker -> WorkerPc]
  /\ wfile \in [Worker -> File \cup {NoFile}]
  /\ mpc \in MainPc
  /\ mfile \in File \cup {NoFile}
  /\ ret \in Result
  /\ res \in PoolState
  /\ unseen \in SUBSET File
  /\ outcome \in [File -> Outcome]

\* The counter the main thread reads without the lock is the length of the queue, and the
\* queue is at most one longer than MAX_PENDING: `pending > MAX_PENDING` (cpsched.c:117)
\* lets in one more task than the name says, and the early, unlocked read of the counter
\* (the lock is taken nine lines later) lets in no further one.
PendingBound ==
  /\ pending = Len(queue)
  /\ pending <= MaxPending + 1

\* Every file is in exactly one place: not reached by the walk, in the main thread's
\* hands, in the queue (once), in one worker's hands, or settled.  No handover between
\* the walk, the queue and the workers loses a file or gives it to two threads.
Places(f) ==
  {<<"unseen", 0>> : x \in {f} \cap unseen}
    \cup {<<"main", 0>> : x \in {f} \cap {mfile}}
    \cup {<<"queue", i>> : i \in {j \in DOMAIN queue : queue[j] = f}}
    \cup {<<"worker", w>> : w \in {v \in Worker : wfile[v] = f}}
    \cup {<<"settled", 0>> : x \in {g \in {f} : outcome[g] # "none"}}
OnePlace == \A f \in File : \E p \in Places(f) : Places(f) = {p}

\* When cpsched_join() has returned (it destroys the mutex and the condition variable,
\* and copy() reports), nobody holds the mutex, nobody waits and nobody still copies.
JoinedQuiescent ==
  mpc = "returned" =>
    /\ lock = NoThread
    /\ \A w \in Worker : wpc[w] = "exited" /\ wfile[w] = NoFile

\* Until cpsched_join() takes the state, a copy that failed is on record: in the pool's
\* state, in the walk's result, or in a worker that is about to store POOL_ERROR.
FailureVisible ==
  (mpc \notin {"broadcast", "join", "returned"} /\ \E f \in File : outcome[f] = "failed") =>
    \/ state = "error"
    \/ ret = "error"
    \/ \E w \in Worker : wpc[w] = "fail"

\* A file is refused only for cause: some copy had failed before.
RefusedForCause ==
  (\E f \in File : outcome[f] = "refused") => \E f \in File : outcome[f] = "failed"

\* The walk never blocks for good: the main thread gets to thrd_join() (or dies).  This
\* needs every worker to leave the mutex free again and again.
WalkEnds == <>(mpc \in {"join", "returned", "died"})

\* The only thing that can keep cpsched_join() from returning is a worker that blocks in
\* cnd_wait(), having missed the broadcast (cpsched.c:159): every other worker exits in the
\* end.
OnlyWaitersRemain ==
  <>[](mpc = "join" => \A w \in Worker : wpc[w] \in {"exited", "waiting"})

\* The refinement mapping to CopyJob: what a file's place and the main thread's mean there.
JobFate ==
  [f \in File |-> IF outcome[f] # "none" THEN outcome[f]
                  ELSE IF f \in unseen THEN "unseen"
                  ELSE IF mpc = "returned" THEN "dropped" ELSE "accepted"]
JobPhase ==
  CASE mpc \in {"exchange", "broadcast", "join"} ->
         IF ret = "ok" THEN "closing" ELSE "broken"
    [] mpc = "returned" -> "over"
    [] mpc = "died" -> "aborted"
    [] OTHER -> "walking"
JobReported ==
  IF mpc # "returned" THEN "none"
  ELSE IF ret = "ok" /\ res = "running" THEN "ok" ELSE "error"

Job == INSTANCE CopyJob WITH fate <- JobFate, phase <- JobPhase, reported <- JobReported

\* The scheduler is a copy job as CopyJob describes it: each file is settled at most once,
\* a file is refused only after a failure, success means a whole walk, an error that the
\* walk broke off or that some copy failed, and nothing happens to any file after copy()
\* has its answer.
IsCopyJob == Job!Spec

\* copy() reports success only after it copied what the scheduler had accepted.
NothingDropped ==
  (mpc = "returned" /\ ret = "ok" /\ res = "running") => queue = <<>>

=============================================================================
