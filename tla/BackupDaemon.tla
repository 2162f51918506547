----------------------------- MODULE BackupDaemon ----------------------------
(***************************************************************************)
(* The backup command at work (commands/backup.c): the scheduler of        *)
(* BakSched hands configurations to routines, and a routine's backup() is  *)
(* a rotation of Rotation.                                                 *)
(*                                                                         *)
(* The scheduler's bit keeps a configuration from being queued twice.  It  *)
(* is cleared when a routine takes the configuration, before backup() is   *)
(* called (baksched.c:39 and :46), so nothing but the timing keeps the two *)
(* routines from rotating the same files.                                  *)
(***************************************************************************)
EXTENDS BakSched

CONSTANTS Stack, Backup, NoBackup   \* see Rotation

VARIABLES slot, job, start          \* see Rotation

R == INSTANCE Rotation

ASSUME BackupDaemonAssumption == R!RotationAssumption

rotationVars == <<slot, job, start>>
daemonVars == <<vars, rotationVars>>

DaemonInit == Init /\ R!Init

\* A routine takes a configuration and calls backup() with it.
TakeAndBegin(r) == Take(r) /\ R!Begin(r, Last(queue))

\* backup() returns to the routine.
EndAndReturn(r) == R!End(r) /\ BackupReturns(r)

\* What else the scheduler's threads do, and what else a rotation and the outside do.
SchedulerStep ==
  /\ \/ \E s \in Sav : Arm(s)
     \/ \E p \in Poster : PosterStep(p)
     \/ \E r \in Routine : Wait(r) \/ WaitAgain(r) \/ SpuriousWakeup(r)
     \/ WatchdogStep \/ Tick
  /\ UNCHANGED rotationVars
RotationStep ==
  /\ (\E r \in Routine : R!Step(r)) \/ (\E s \in Sav : R!Outside(s))
  /\ UNCHANGED vars

Timer(s, p) == Expire(s, p) /\ UNCHANGED rotationVars

WorkStep ==
  \/ \E r \in Routine : TakeAndBegin(r) \/ EndAndReturn(r)
  \/ SchedulerStep \/ RotationStep

DaemonNext ==
  \/ alive /\ (WorkStep \/ \E s \in Sav, p \in Poster : Timer(s, p))
  \/ ~alive /\ UNCHANGED daemonVars

\* What the timing must give.  A period is longer than a backup: the timer does not expire
\* while its configuration is backed up.  And a timer's thread posts at once: a routine that
\* has woken up does not take the configuration between the expiry and the post.  A post
\* may lie in the queue for as long as it likes, when its signal found nobody waiting
\* (baksched.c:30), and further expiries may find it there and be counted.
Running(s) == \E r \in Routine : rsav[r] = s
AboutToPost(s) == \E p \in Poster : ppc[p] = "post" /\ psav[p] = s
Unhurried ==
  \/ \E r \in Routine : EndAndReturn(r)
  \/ \E r \in Routine : TakeAndBegin(r) /\ ~AboutToPost(Last(queue))
  \/ \E s \in Sav, p \in Poster : Timer(s, p) /\ ~Running(s)
  \/ SchedulerStep \/ RotationStep
NextUnhurried ==
  \/ alive /\ Unhurried
  \/ ~alive /\ UNCHANGED daemonVars

DaemonSpec == DaemonInit /\ [][DaemonNext]_daemonVars
SpecUnhurried == DaemonInit /\ [][NextUnhurried]_daemonVars

-----------------------------------------------------------------------------
(* Properties. *)

\* With that timing the scheduler keeps the two routines off each other's files, also when
\* posts lie unserved, are counted as too early and end the process: what the routines do
\* to the backups is what Rotation!SpecAlone allows, so what is invariant of undisturbed
\* rotations is invariant in the daemon.
RotatesAlone == R!Init /\ [][R!NextAlone]_rotationVars

\* README:4-7 calls the program a way to duplicate save files that is "perfect for
\* ensuring your progress is safeguarded": whatever the periods are, a rotation leaves
\* every backup it found in place but the oldest, number 0.
OnlyOldestGoes ==
  \A r \in Routine : R!Busy(r) =>
    \A n \in 1..(Stack - 1) : start[r][n] # NoBackup => start[r][n] \in R!Held(R!Now(r))

=============================================================================
