------------------------------- MODULE CopyJob -------------------------------
(***************************************************************************)
(* What copying a directory with a pool of threads amounts to, whatever    *)
(* the threads do: every file goes through its fates in one direction, is  *)
(* settled at most once, and nothing moves after the job is over.  CpSched *)
(* implements this.                                                        *)
(*                                                                         *)
(* The specification promises what the code of platfree/cpsched.c does     *)
(* promise and no more: files that were accepted may be dropped when the   *)
(* job closes, a failure after the walk may go unreported, and the walk    *)
(* may break off at any time, even with every file reached.                *)
(***************************************************************************)
CONSTANT File

VARIABLES
  fate,      \* what has become of each file
  phase,     \* walking the tree, closing after a whole walk or after one that broke off,
             \* over, or given up by die()
  reported   \* what the job said about itself when it was over

vars == <<fate, phase, reported>>

Settled == {"copied", "failed", "missed"}
Fate == Settled \cup {"unseen", "accepted", "refused", "dropped"}

Init ==
  /\ fate = [f \in File |-> "unseen"]
  /\ phase = "walking"
  /\ reported = "none"

Some(x) == \E f \in File : fate[f] = x

\* The walk reaches a file and somebody becomes responsible for it.
Accept(f) ==
  /\ phase = "walking"
  /\ fate[f] = "unseen"
  /\ fate' = [fate EXCEPT ![f] = "accepted"]
  /\ UNCHANGED <<phase, reported>>

\* A file's copy ends.  A failure may break the walk off.
Settle(f) ==
  /\ phase \in {"walking", "closing", "broken"}
  /\ fate[f] = "accepted"
  /\ \E o \in Settled :
       /\ fate' = [fate EXCEPT ![f] = o]
       /\ \/ phase' = phase
          \/ phase = "walking" /\ o = "failed" /\ phase' = "broken"
  /\ UNCHANGED reported

\* After some failure a file in hand is given up, and the walk breaks off.
Refuse(f) ==
  /\ phase = "walking"
  /\ fate[f] = "accepted"
  /\ Some("failed")
  /\ fate' = [fate EXCEPT ![f] = "refused"]
  /\ phase' = "broken"
  /\ UNCHANGED reported

\* The walk has reached every file ...
Close ==
  /\ phase = "walking"
  /\ ~Some("unseen")
  /\ phase' = "closing"
  /\ UNCHANGED <<fate, reported>>

\* ... or finds something it cannot read, which may happen after the last file too.
Break ==
  /\ phase = "walking"
  /\ phase' = "broken"
  /\ UNCHANGED <<fate, reported>>

\* The job is over.  Success means that the walk was whole, and then no file was refused;
\* a walk that broke off is an error, and after a whole one there is an error only if some
\* copy failed.
Finish ==
  /\ phase \in {"closing", "broken"}
  /\ phase' = "over"
  /\ fate' = [f \in File |-> IF fate[f] = "accepted" THEN "dropped" ELSE fate[f]]
  /\ \/ reported' = "ok" /\ phase = "closing"
     \/ reported' = "error" /\ (phase = "broken" \/ Some("failed"))

Abort ==
  /\ phase = "walking"
  /\ phase' = "aborted"
  /\ UNCHANGED <<fate, reported>>

Next ==
  \/ \E f \in File : Accept(f) \/ Settle(f) \/ Refuse(f)
  \/ Close \/ Break \/ Finish \/ Abort

Spec == Init /\ [][Next]_vars

=============================================================================
