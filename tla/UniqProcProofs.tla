---------------------------- MODULE UniqProcProofs ---------------------------
(***************************************************************************)
(* With start-ups that do not overlap there is one daemon, for any number  *)
(* of processes and directories and any reuse of pids.                     *)
(*                                                                         *)
(* The files alone are not enough for an induction: a start-up acts on     *)
(* what it read some steps ago.  What carries the argument is that a       *)
(* start-up past the check is the only process of the program (Past); that *)
(* one still at the check has not passed the directory of a daemon that    *)
(* runs (NotPassed); and that one about to call kill() in that directory   *)
(* has read the daemon's pid and does not reach unlink() (ReadIsFresh).    *)
(***************************************************************************)
EXTENDS UniqProc, TLAPS

Up(p) == pc[p] \in {"daemon", "exiting", "empty", "pop"}
PastCheck(p) == pc[p] \in {"checked", "find", "log", "create", "write"}
\* A start-up that looks into the directories, one after the other.
Looking(p) == pc[p] \in {"check", "kill", "unlink"}

\* The parts of the inductive invariant.
OneStartUp == \A p, q \in Pid : Starting(p) /\ Starting(q) => p = q
Past == \A p, q \in Pid : PastCheck(p) /\ Up(q) => FALSE
AtFirst == \A p \in Pid : Looking(p) \/ at[p] = 1
NotPassed == \A p, q \in Pid : Looking(p) /\ Up(q) => at[p] =< dir[q]
ReadIsFresh ==
  \A p, q \in Pid : Up(q) /\ dir[q] = at[p] => /\ pc[p] = "kill" => read[p] = q
                                              /\ pc[p] # "unlink"
HasDir == \A p \in Pid : Up(p) \/ pc[p] \in {"log", "create", "write"} => dir[p] \in Dir
OneUp == \A p, q \in Pid : Up(p) /\ Up(q) => p = q
Listed == \A p \in Pid : Up(p) /\ p \notin unlisted => pidfile[dir[p]] = p
UnlistedAlone ==
  \A p \in unlisted : Up(p) /\ \A q \in Pid \ {p} : ~Ours(q)
FileHasOwner ==
  ~killed => \A d \in Dir :
    /\ pidfile[d] # Absent => \E p \in Pid : dir[p] = d /\ (pc[p] = "write" \/ Up(p))
    /\ logfile[d] = "empty" =>
         \E p \in Pid : dir[p] = d /\ pc[p] \in {"create", "write", "daemon", "exiting", "empty"}

Inv ==
  /\ TypeOK /\ OneStartUp /\ Past /\ AtFirst /\ NotPassed /\ ReadIsFresh /\ HasDir /\ OneUp /\ Listed
  /\ UnlistedAlone /\ FileHasOwner

USE DEF Starting, Ours, Up, PastCheck, Looking, Goto, Gone

\* What the proofs need to know of directories.
LEMMA DirFacts ==
  /\ 1 \in Dir /\ NoDir \notin Dir
  /\ \A d, e \in Dir : /\ 1 =< d
                       /\ d # Dirs => d + 1 \in Dir
                       /\ d =< e /\ d # e => d # Dirs /\ d + 1 =< e
BY UniqProcAssumption DEF Dir, NoDir

\* The invariant holds at first.
LEMMA InitInv == Init => Inv
BY UniqProcAssumption, DirFacts DEF Init, Inv, TypeOK, Pc, OneStartUp, Past, AtFirst, NotPassed,
   ReadIsFresh, HasDir, OneUp, Listed, UnlistedAlone, FileHasOwner

\* Every step of serialized start-ups keeps it.
LEMMA NextInv == Inv /\ [NextSerial]_vars => Inv'
<1> SUFFICES ASSUME Inv, [NextSerial]_vars PROVE Inv'
  OBVIOUS
<1> USE UniqProcAssumption, DirFacts
    DEF Inv, TypeOK, Pc, OneStartUp, Past, AtFirst, NotPassed, ReadIsFresh, HasDir, OneUp,
        Listed, UnlistedAlone, FileHasOwner, files
<1>1. ASSUME NEW p \in Pid, MayStart, Start(p) PROVE Inv'
  BY <1>1 DEF MayStart, Start
<1>2. ASSUME NEW p \in Pid, ReadPid(p) PROVE Inv'
  <2>1. TypeOK'
    BY <1>2 DEF ReadPid, NextDir
  <2>a. ASSUME NEW q \in Pid, Up(q), pidfile[at[p]] = Absent PROVE at[p] # Dirs
    <3>1. at[p] =< dir[q] /\ at[p] # dir[q]
      BY <1>2, <2>a DEF ReadPid
    <3> QED
      BY <3>1, <2>a
  <2>2. OneStartUp' /\ AtFirst' /\ OneUp' /\ UnlistedAlone'
    BY <1>2 DEF ReadPid, NextDir
  <2>7. Past'
    <3>1. CASE pidfile[at[p]] = Absent /\ at[p] = Dirs
      BY <1>2, <2>a, <3>1 DEF ReadPid, NextDir
    <3>2. CASE ~(pidfile[at[p]] = Absent /\ at[p] = Dirs)
      BY <1>2, <3>2 DEF ReadPid, NextDir
    <3> QED
      BY <3>1, <3>2
  <2>3. NotPassed' /\ HasDir'
    BY <1>2 DEF ReadPid, NextDir
  <2>4. ReadIsFresh'
    BY <1>2 DEF ReadPid, NextDir
  <2>5. Listed'
    BY <1>2 DEF ReadPid, NextDir
  <2>6. FileHasOwner'
    BY <1>2 DEF ReadPid, NextDir
  <2> QED
    BY <2>1, <2>2, <2>3, <2>4, <2>5, <2>6, <2>7
<1>3. ASSUME NEW p \in Pid, CheckAlive(p) PROVE Inv'
  <2>1. TypeOK'
    BY <1>3 DEF CheckAlive
  <2>2. OneStartUp' /\ Past' /\ AtFirst' /\ OneUp' /\ UnlistedAlone'
    BY <1>3 DEF CheckAlive
  <2>3. NotPassed' /\ HasDir'
    BY <1>3 DEF CheckAlive
  <2>4. ReadIsFresh'
    BY <1>3 DEF CheckAlive
  <2>5. Listed'
    BY <1>3 DEF CheckAlive
  <2>6. FileHasOwner'
    BY <1>3 DEF CheckAlive
  <2> QED
    BY <2>1, <2>2, <2>3, <2>4, <2>5, <2>6
<1>4. ASSUME NEW p \in Pid, UnlinkStale(p) PROVE Inv'
  <2>1. TypeOK'
    BY <1>4 DEF UnlinkStale, NextDir
  <2>a. ASSUME NEW q \in Pid, Up(q) PROVE at[p] # Dirs
    <3>1. at[p] =< dir[q] /\ at[p] # dir[q]
      BY <1>4, <2>a DEF UnlinkStale
    <3> QED
      BY <3>1, <2>a
  <2>2. OneStartUp' /\ AtFirst' /\ OneUp' /\ UnlistedAlone'
    BY <1>4 DEF UnlinkStale, NextDir
  <2>7. Past'
    <3>1. CASE at[p] = Dirs
      BY <1>4, <2>a, <3>1 DEF UnlinkStale, NextDir
    <3>2. CASE at[p] # Dirs
      BY <1>4, <3>2 DEF UnlinkStale, NextDir
    <3> QED
      BY <3>1, <3>2
  <2>3. NotPassed' /\ HasDir'
    BY <1>4 DEF UnlinkStale, NextDir
  <2>4. ReadIsFresh'
    BY <1>4 DEF UnlinkStale, NextDir
  <2>5. Listed'
    BY <1>4 DEF UnlinkStale, NextDir
  <2>6. FileHasOwner'
    BY <1>4 DEF UnlinkStale, NextDir
  <2> QED
    BY <2>1, <2>2, <2>3, <2>4, <2>5, <2>6, <2>7
<1>5. ASSUME NEW p \in Pid, DotsavFails(p) PROVE Inv'
  BY <1>5 DEF DotsavFails
<1>6. ASSUME NEW p \in Pid, NEW c \in Pid, Detach(p, c) PROVE Inv'
  BY <1>6 DEF Detach
<1>7. ASSUME NEW p \in Pid, find_data_dirname(p) PROVE Inv'
  BY <1>7 DEF find_data_dirname
<1>8. ASSUME NEW p \in Pid, setup_lr_logging(p) PROVE Inv'
  BY <1>8 DEF setup_lr_logging
<1>9. ASSUME NEW p \in Pid, CreateFile(p) PROVE Inv'
  BY <1>9 DEF CreateFile
<1>10. ASSUME NEW p \in Pid, WritePid(p) PROVE Inv'
  BY <1>10 DEF WritePid
<1>11. ASSUME NEW p \in Pid, Report(p) PROVE Inv'
  <2>1. TypeOK'
    BY <1>11 DEF Report
  <2>2. FileHasOwner'
    BY <1>11 DEF Report
  <2> QED
    BY <1>11, <2>1, <2>2 DEF Report
<1>12. ASSUME NEW p \in Pid, Die(p) PROVE Inv'
  BY <1>12 DEF Die
<1>13. ASSUME NEW p \in Pid, StatLog(p) PROVE Inv'
  BY <1>13 DEF StatLog
<1>14. ASSUME NEW p \in Pid, UnlinkLog(p) PROVE Inv'
  <2>1. CASE UNCHANGED killed
    BY <1>14, <2>1 DEF UnlinkLog
  <2>2. CASE killed' = TRUE /\ UNCHANGED logfile
    BY <1>14, <2>2 DEF UnlinkLog
  <2> QED
    BY <1>14, <2>1, <2>2 DEF UnlinkLog
<1>15. ASSUME NEW p \in Pid, PopProcessId(p) PROVE Inv'
  <2>1. CASE pidfile' = [pidfile EXCEPT ![dir[p]] = Absent] /\ UNCHANGED killed
    BY <1>15, <2>1 DEF PopProcessId
  <2>2. CASE killed' = TRUE /\ UNCHANGED pidfile
    BY <1>15, <2>2 DEF PopProcessId
  <2> QED
    BY <1>15, <2>1, <2>2 DEF PopProcessId
<1>16. ASSUME NEW p \in Pid, Kill(p) PROVE Inv'
  BY <1>16 DEF Kill
<1>17. ASSUME NEW p \in Pid, Other(p) PROVE Inv'
  BY <1>17 DEF Other
<1>18. CASE UserRemoves
  BY <1>18 DEF UserRemoves
<1>19. CASE UNCHANGED vars
  BY <1>19 DEF vars
<1> QED
  BY <1>1, <1>2, <1>3, <1>4, <1>5, <1>6, <1>7, <1>8, <1>9, <1>10, <1>11, <1>12, <1>13, <1>14, <1>15, <1>16, <1>17, <1>18, <1>19
  DEF NextSerial, ProcessStep

\* The whole invariant, for every behaviour.
THEOREM SerialInvariant == SpecSerial => []Inv
BY InitInv, NextInv, PTL DEF SpecSerial

\* Every variable keeps its type: what is read from the file is a pid.
THEOREM TypeCorrect == SpecSerial => []TypeOK
BY SerialInvariant, PTL DEF Inv

\* As long as start-ups do not overlap, the check keeps a second daemon from running.
THEOREM OnlyOneDaemon == SpecSerial => []OneDaemon
<1>1. Inv => OneDaemon
  BY DEF Inv, OneUp, OneDaemon, Daemon
<1> QED
  BY <1>1, SerialInvariant, PTL

\* The pid file names the daemon from its push to its end.
THEOREM TheFileNamesTheDaemon == SpecSerial => []DaemonIsListed
<1>1. Inv => DaemonIsListed
  BY DEF Inv, Listed, DaemonIsListed, Daemon
<1> QED
  BY <1>1, SerialInvariant, PTL

\* A pid file without a process of the program is the work of a kill.
THEOREM FilesAreLeftByKills == SpecSerial => []OnlyKillsLeaveFile
<1>1. Inv => OnlyKillsLeaveFile
  BY DEF Inv, FileHasOwner, OnlyKillsLeaveFile
<1> QED
  BY <1>1, SerialInvariant, PTL
=============================================================================
