------------------------------ MODULE BakSched -------------------------------
(***************************************************************************)
(* The backup scheduler of platfree/baksched.c and the timers that feed it *)
(* (platspec/unix/baktimer.c).                                             *)
(*                                                                         *)
(* Every expiry of a configuration's timer starts a thread that posts the  *)
(* configuration; two routine threads take posted configurations and back  *)
(* them up; a watchdog clears the count of posts that came too early.      *)
(* What the queue's mutex protects is read and written only under it, so a *)
(* critical section is one step.  The overload count and the clock are     *)
(* read and written without it.                                            *)
(***************************************************************************)
EXTENDS Integers, SequencesExt

CONSTANTS
  Sav,           \* the configurations (at most eight, see the README)
  Routine,       \* qthrd[0] and qthrd[1]
  Poster,        \* bound on the timer threads that run at once
  MaxOverload,   \* MAX_OVERLOAD_COUNT
  Window,        \* OVERLOAD_WINDOW, in seconds
  NoSav          \* a thread has no configuration in hand

ASSUME BakSchedAssumption ==
  /\ MaxOverload \in Nat
  /\ Window \in Nat
  /\ NoSav \notin Sav

VARIABLES
  armed,     \* the configurations whose timer runs
  posted,    \* the bits of ctx->task: the configuration is in the queue
  queue,     \* ctx->queue, first to last
  rpc,       \* where each routine is
  rsav,      \* the configuration it backs up
  ppc,       \* where each timer thread is
  psav,      \* the configuration it posts
  overload,  \* ctx->overload
  wpc,       \* where the watchdog is
  last,      \* its local copy of the overload count
  age,       \* seconds since it set lts, at most Window + 1
  calm,      \* seconds since overload last grew, at most Window + 1 (not in the code)
  alive      \* FALSE once die() ended the process

queueVars == <<posted, queue>>
routineVars == <<rpc, rsav>>
posterVars == <<ppc, psav>>
watchdogVars == <<wpc, last, age>>
vars == <<armed, queueVars, routineVars, posterVars, overload, watchdogVars, calm, alive>>

RoutinePc == {"loop", "waiting", "woken", "backup"}
PosterPc == {"idle", "post", "heavy"}
WatchdogPc == {"load", "store", "sleep"}

Init ==
  /\ armed = {}
  /\ posted = [s \in Sav |-> FALSE]
  /\ queue = <<>>
  /\ rpc = [r \in Routine |-> "loop"]
  /\ rsav = [r \in Routine |-> NoSav]
  /\ ppc = [p \in Poster |-> "idle"]
  /\ psav = [p \in Poster |-> NoSav]
  /\ overload = 0
  /\ wpc = "load"
  /\ last = 0
  /\ age = 0
  /\ calm = 0
  /\ alive = TRUE

-----------------------------------------------------------------------------
(* The timers and baksched_post(). *)

\* baktimer_arm() starts the timers, one after the other.
Arm(s) ==
  /\ s \notin armed
  /\ armed' = armed \cup {s}
  /\ UNCHANGED <<queueVars, routineVars, posterVars, overload, watchdogVars, calm, alive>>

\* A timer expires: a new thread runs tmrfunc().
Expire(s, p) ==
  /\ s \in armed
  /\ ppc[p] = "idle"
  /\ ppc' = [ppc EXCEPT ![p] = "post"]
  /\ psav' = [psav EXCEPT ![p] = s]
  /\ UNCHANGED <<armed, queueVars, routineVars, overload, watchdogVars, calm, alive>>

PosterEnds(p) ==
  /\ ppc' = [ppc EXCEPT ![p] = "idle"]
  /\ psav' = [psav EXCEPT ![p] = NoSav]

\* cnd_signal(): one routine that waits becomes runnable, if any waits.
Signal ==
  \/ \E r \in Routine : rpc[r] = "waiting" /\ rpc' = [rpc EXCEPT ![r] = "woken"]
  \/ (\A r \in Routine : rpc[r] # "waiting") /\ UNCHANGED rpc

\* Mutant of Post: the bit is not set.
PostWithoutBit(p) ==
  /\ ppc[p] = "post"
  /\ \/ /\ posted[psav[p]]
        /\ ppc' = [ppc EXCEPT ![p] = "heavy"]
        /\ UNCHANGED <<queueVars, rpc, psav>>
     \/ /\ ~posted[psav[p]]
        /\ queue' = Append(queue, psav[p])
        /\ Signal
        /\ PosterEnds(p)
        /\ UNCHANGED posted
  /\ UNCHANGED <<armed, rsav, overload, watchdogVars, calm, alive>>

\* xmalloc() finds no memory for the task, and the process ends.
PostDies(p) ==
  /\ ppc[p] = "post"
  /\ alive' = FALSE
  /\ UNCHANGED <<armed, queueVars, routineVars, posterVars, overload, watchdogVars, calm>>

\* The critical section of baksched_post(): queue the configuration and set its bit, or
\* find the bit set.
Post(p) ==
  /\ ppc[p] = "post"
  /\ \/ /\ posted[psav[p]]
        /\ ppc' = [ppc EXCEPT ![p] = "heavy"]
        /\ UNCHANGED <<queueVars, rpc, psav>>
     \/ /\ ~posted[psav[p]]
        /\ posted' = [posted EXCEPT ![psav[p]] = TRUE]
        /\ queue' = Append(queue, psav[p])
        /\ Signal
        /\ PosterEnds(p)
  /\ UNCHANGED <<armed, rsav, overload, watchdogVars, calm, alive>>

\* Too early a post is counted, without the mutex; one too many ends the process.
Heavy(p) ==
  /\ ppc[p] = "heavy"
  /\ overload' = overload + 1
  /\ calm' = 0
  /\ alive' = (overload + 1 <= MaxOverload)
  /\ PosterEnds(p)
  /\ UNCHANGED <<armed, queueVars, routineVars, watchdogVars>>

-----------------------------------------------------------------------------
(* routine(). *)

\* The mutex is locked and cnd_wait() releases it at once: nothing is looked at between.
Wait(r) ==
  /\ rpc[r] = "loop"
  /\ rpc' = [rpc EXCEPT ![r] = "waiting"]
  /\ UNCHANGED <<armed, queueVars, rsav, posterVars, overload, watchdogVars, calm, alive>>

\* cnd_wait() may return although nobody signalled.
SpuriousWakeup(r) ==
  /\ rpc[r] = "waiting"
  /\ rpc' = [rpc EXCEPT ![r] = "woken"]
  /\ UNCHANGED <<armed, queueVars, rsav, posterVars, overload, watchdogVars, calm, alive>>

\* A woken routine finds nothing and waits again ...
WaitAgain(r) ==
  /\ rpc[r] = "woken"
  /\ queue = <<>>
  /\ rpc' = [rpc EXCEPT ![r] = "waiting"]
  /\ UNCHANGED <<armed, queueVars, rsav, posterVars, overload, watchdogVars, calm, alive>>

\* Mutants of Take: the entry stays in the queue; the bit of the first entry flips.
TakeKeepsEntry(r) ==
  /\ rpc[r] = "woken"
  /\ queue # <<>>
  /\ rpc' = [rpc EXCEPT ![r] = "backup"]
  /\ rsav' = [rsav EXCEPT ![r] = Last(queue)]
  /\ posted' = [posted EXCEPT ![Last(queue)] = ~@]
  /\ UNCHANGED <<armed, queue, posterVars, overload, watchdogVars, calm, alive>>
TakeFlipsFirst(r) ==
  /\ rpc[r] = "woken"
  /\ queue # <<>>
  /\ rpc' = [rpc EXCEPT ![r] = "backup"]
  /\ rsav' = [rsav EXCEPT ![r] = Last(queue)]
  /\ queue' = Front(queue)
  /\ posted' = [posted EXCEPT ![Head(queue)] = ~@]
  /\ UNCHANGED <<armed, posterVars, overload, watchdogVars, calm, alive>>

\* ... or takes the last entry of the queue and flips its bit.
Take(r) ==
  /\ rpc[r] = "woken"
  /\ queue # <<>>
  /\ rpc' = [rpc EXCEPT ![r] = "backup"]
  /\ rsav' = [rsav EXCEPT ![r] = Last(queue)]
  /\ queue' = Front(queue)
  /\ posted' = [posted EXCEPT ![Last(queue)] = ~@]
  /\ UNCHANGED <<armed, posterVars, overload, watchdogVars, calm, alive>>

\* backup() returns; its result is ignored.
BackupReturns(r) ==
  /\ rpc[r] = "backup"
  /\ rpc' = [rpc EXCEPT ![r] = "loop"]
  /\ rsav' = [rsav EXCEPT ![r] = NoSav]
  /\ UNCHANGED <<armed, queueVars, posterVars, overload, watchdogVars, calm, alive>>

-----------------------------------------------------------------------------
(* watchdog(), and the clock it reads. *)

\* Mutants of WatchdogLoad: it does not remember when the count changed; it does not
\* remember the count.
WatchdogKeepsTime ==
  /\ wpc = "load"
  /\ \/ overload = 0 /\ wpc' = "sleep" /\ UNCHANGED <<last, age>>
     \/ overload # 0 /\ last # overload /\ last' = overload /\ wpc' = "sleep" /\ UNCHANGED age
     \/ /\ overload # 0 /\ last = overload
        /\ wpc' = IF age > Window THEN "store" ELSE "sleep"
        /\ UNCHANGED <<last, age>>
  /\ UNCHANGED <<armed, queueVars, routineVars, posterVars, overload, calm, alive>>
WatchdogForgetsCount ==
  /\ wpc = "load"
  /\ \/ overload = 0 /\ wpc' = "sleep" /\ UNCHANGED <<last, age>>
     \/ overload # 0 /\ last # overload /\ age' = 0 /\ wpc' = "sleep" /\ UNCHANGED last
     \/ /\ overload # 0 /\ last = overload
        /\ wpc' = IF age > Window THEN "store" ELSE "sleep"
        /\ UNCHANGED <<last, age>>
  /\ UNCHANGED <<armed, queueVars, routineVars, posterVars, overload, calm, alive>>

\* One round up to the store: nothing to do, a new count (remember it and the time), a
\* count that is not old enough, or one to clear.
WatchdogLoad ==
  /\ wpc = "load"
  /\ \/ overload = 0 /\ wpc' = "sleep" /\ UNCHANGED <<last, age>>
     \/ overload # 0 /\ last # overload /\ last' = overload /\ age' = 0 /\ wpc' = "sleep"
     \/ /\ overload # 0 /\ last = overload
        /\ wpc' = IF age > Window THEN "store" ELSE "sleep"
        /\ UNCHANGED <<last, age>>
  /\ UNCHANGED <<armed, queueVars, routineVars, posterVars, overload, calm, alive>>

\* Mutant of WatchdogStore: it takes off what it saw and one more.
WatchdogStoreUnderflows ==
  /\ wpc = "store"
  /\ overload' = overload - (last + 1)
  /\ last' = 0
  /\ wpc' = "sleep"
  /\ UNCHANGED <<armed, queueVars, routineVars, posterVars, age, calm, alive>>

\* The store of zero, whatever the count has become since the load.
WatchdogStore ==
  /\ wpc = "store"
  /\ overload' = 0
  /\ last' = 0
  /\ wpc' = "sleep"
  /\ UNCHANGED <<armed, queueVars, routineVars, posterVars, age, calm, alive>>

\* A second passes.  The watchdog has then slept enough.
Older(n) == IF n > Window THEN n ELSE n + 1
Tick ==
  /\ age' = Older(age)
  /\ calm' = Older(calm)
  /\ wpc' = IF wpc = "sleep" THEN "load" ELSE wpc
  /\ UNCHANGED <<armed, queueVars, routineVars, posterVars, overload, last, alive>>

-----------------------------------------------------------------------------
RoutineStep(r) == Wait(r) \/ WaitAgain(r) \/ Take(r) \/ BackupReturns(r)
PosterStep(p) == Post(p) \/ PostDies(p) \/ Heavy(p)
WatchdogStep == WatchdogLoad \/ WatchdogStore

Next ==
  \/ /\ alive
     /\ \/ \E s \in Sav : Arm(s) \/ \E p \in Poster : Expire(s, p)
        \/ \E p \in Poster : PosterStep(p)
        \/ \E r \in Routine : RoutineStep(r) \/ SpuriousWakeup(r)
        \/ WatchdogStep \/ Tick
  \/ ~alive /\ UNCHANGED vars

\* Threads that can run do run, time passes, and a timer that is armed expires again and
\* again.  Nothing is promised about wake-ups nobody asked for.
Fairness ==
  /\ \A r \in Routine : WF_vars(alive /\ RoutineStep(r))
  /\ \A p \in Poster : WF_vars(alive /\ PosterStep(p))
  /\ \A s \in Sav : /\ WF_vars(alive /\ Arm(s))
                    /\ SF_vars(alive /\ \E p \in Poster : Expire(s, p))
  /\ WF_vars(alive /\ WatchdogStep)
  /\ WF_vars(alive /\ Tick)

Spec == Init /\ [][Next]_vars /\ Fairness

-----------------------------------------------------------------------------
(* Properties. *)

TypeOK ==
  /\ armed \in SUBSET Sav
  /\ posted \in [Sav -> BOOLEAN]
  /\ queue \in Seq(Sav)
  /\ rpc \in [Routine -> RoutinePc]
  /\ rsav \in [Routine -> Sav \cup {NoSav}]
  /\ ppc \in [Poster -> PosterPc]
  /\ psav \in [Poster -> Sav \cup {NoSav}]
  /\ overload \in Nat
  /\ wpc \in WatchdogPc
  /\ last \in Nat
  /\ age \in Nat
  /\ calm \in Nat
  /\ alive \in BOOLEAN

\* A configuration's bit is set exactly while the configuration is in the queue, where it
\* then is once.  The routines flip the bit (baksched.c:39) instead of clearing it, so
\* one flip too many would let a configuration pile up, or lock it out for good.
BitMatchesQueue ==
  /\ \A s \in Sav : posted[s] <=> \E i \in 1..Len(queue) : queue[i] = s
  /\ \A i, j \in 1..Len(queue) : queue[i] = queue[j] => i = j

\* When the watchdog is about to clear the count, then either no post was too early for
\* more than OVERLOAD_WINDOW seconds or the count has grown since the watchdog looked.
\* (In the latter case the store forgets the growth.)
ClearsCalmOnly == wpc = "store" => (calm > Window \/ overload # last)

\* A count that has stopped growing is cleared: after OVERLOAD_WINDOW calm seconds it
\* becomes zero, unless a further early post ends the calm or the process.  A daemon with
\* rare early posts does not die of their sum.
CalmClears == calm > Window ~> (overload = 0 \/ calm = 0 \/ ~alive)

\* .savesave.example:25 says that period is the time between two backups of a
\* configuration; so a configuration whose time has come is backed up in the end.
PostedIsServed == \A s \in Sav : posted[s] ~> (~posted[s] \/ ~alive)

=============================================================================
