------------------------------- MODULE UniqProc ------------------------------
(***************************************************************************)
(* How `savesave backup' makes sure that it runs once: the pid file of     *)
(* platfree/proc.c, from the check at the start of cmd_main() through      *)
(* detaching and the push to the exit handlers, and the log file of        *)
(* platfree/termas.c, which is set up and removed beside it.  One action   *)
(* per system call on a file; processes are killed at any point.           *)
(*                                                                         *)
(* The files lie in the first of several directories that can be used;     *)
(* which can may change from one process to the next.  The check looks     *)
(* for a pid file in each of them.                                         *)
(*                                                                         *)
(* A process is named by its pid, and a pid is used again after its        *)
(* process is gone, by this program or by another.                         *)
(***************************************************************************)
EXTENDS Naturals

CONSTANTS
  Pid,      \* the process ids
  Dirs,     \* how many directories there are: XDG_RUNTIME_DIR and that for temporary files
  Absent,   \* there is no pid file
  Empty,    \* the pid file is there, with nothing in it
  NoPid     \* a process has read no pid

ASSUME UniqProcAssumption ==
  /\ Absent \notin Pid /\ Empty \notin Pid /\ NoPid \notin Pid
  /\ Absent # Empty
  /\ Dirs \in Nat \ {0}

Dir == 1..Dirs
NoDir == 0

VARIABLES
  pc,        \* where each process is; "none" is no process, "other" another program's
  at,        \* the directory check_unique_process() looks at
  read,      \* the pid that it found there
  dir,       \* the directory that get_data_dirname() has chosen
  pidfile,   \* in each directory: Absent, Empty or the pid in it
  logfile,   \* in each directory: "absent", "empty" or "written"
  logging,   \* daemons whose output goes to the log
  unlisted,  \* daemons that failed to write the file (they warn and go on)
  killed     \* some process of this program ended without its exit handlers, or they could
             \* not remove its file (not in the code)

vars == <<pc, at, read, dir, pidfile, logfile, logging, unlisted, killed>>
files == <<pidfile, logfile>>

Pc == {"none", "other", "check", "kill", "unlink", "checked", "find", "log", "create",
       "write", "daemon", "exiting", "empty", "pop"}

Init ==
  /\ pc = [p \in Pid |-> "none"]
  /\ at = [p \in Pid |-> 1]
  /\ read = [p \in Pid |-> NoPid]
  /\ dir = [p \in Pid |-> NoDir]
  /\ pidfile = [d \in Dir |-> Absent]
  /\ logfile = [d \in Dir |-> "absent"]
  /\ logging = {}
  /\ unlisted = {}
  /\ killed = FALSE

Goto(p, l) == pc' = [pc EXCEPT ![p] = l]

\* The process is gone.
Gone(p) ==
  /\ Goto(p, "none")
  /\ at' = [at EXCEPT ![p] = 1]
  /\ read' = [read EXCEPT ![p] = NoPid]
  /\ dir' = [dir EXCEPT ![p] = NoDir]
  /\ logging' = logging \ {p}
  /\ unlisted' = unlisted \ {p}

-----------------------------------------------------------------------------
(* check_unique_process(). *)

\* `savesave backup' is started.
Start(p) ==
  /\ pc[p] = "none"
  /\ Goto(p, "check")
  /\ UNCHANGED <<at, read, dir, files, logging, unlisted, killed>>

\* Mutant of NextDir: only the first directory is looked at.
NextDirNone(p) ==
  /\ Goto(p, "checked")
  /\ at' = [at EXCEPT ![p] = 1]
  /\ read' = [read EXCEPT ![p] = NoPid]

\* The next directory, if there is one.
NextDir(p) ==
  /\ IF at[p] = Dirs
       THEN Goto(p, "checked") /\ at' = [at EXCEPT ![p] = 1]
       ELSE Goto(p, "check") /\ at' = [at EXCEPT ![p] = at[p] + 1]
  /\ read' = [read EXCEPT ![p] = NoPid]

\* Mutant of ReadPid: what is not a number is taken for one.
ReadPidUnparsed(p) ==
  LET found == pidfile[at[p]] IN
  /\ pc[p] = "check"
  /\ IF found = Absent THEN NextDir(p)
     ELSE read' = [read EXCEPT ![p] = found] /\ Goto(p, "kill") /\ UNCHANGED at
  /\ UNCHANGED <<dir, files, logging, unlisted, killed>>

\* readpid(): no file (one that is there can be opened and read), nothing to compare; no pid
\* in it, the process dies (its exit handlers are not registered yet).
ReadPid(p) ==
  LET found == pidfile[at[p]] IN
  /\ pc[p] = "check"
  /\ \/ found = Absent /\ NextDir(p) /\ UNCHANGED <<dir, logging, unlisted>>
     \/ found = Empty /\ Gone(p)
     \/ /\ found \in Pid
        /\ read' = [read EXCEPT ![p] = found]
        /\ Goto(p, "kill")
        /\ UNCHANGED <<at, dir, logging, unlisted>>
  /\ UNCHANGED <<files, killed>>

\* Mutant of CheckAlive: the exit handlers are registered before the check, so a process
\* that is refused runs them.
CheckAliveHandlersSet(p) ==
  /\ pc[p] = "kill"
  /\ IF pc[read[p]] # "none"
       THEN Goto(p, "exiting") /\ dir' = [dir EXCEPT ![p] = at[p]]
       ELSE Goto(p, "unlink") /\ UNCHANGED dir
  /\ UNCHANGED <<at, read, files, logging, unlisted, killed>>

\* kill(pid, 0): any process of that pid will do; the start-up dies of it.
CheckAlive(p) ==
  /\ pc[p] = "kill"
  /\ IF pc[read[p]] # "none"
       THEN Gone(p)
       ELSE Goto(p, "unlink") /\ UNCHANGED <<at, read, dir, logging, unlisted>>
  /\ UNCHANGED <<files, killed>>

\* unlink(): the file goes, whatever is in it by now; or it stays, which nobody minds.
UnlinkStale(p) ==
  /\ pc[p] = "unlink"
  /\ pidfile' \in {pidfile, [pidfile EXCEPT ![at[p]] = Absent]}
  /\ NextDir(p)
  /\ UNCHANGED <<dir, logfile, logging, unlisted, killed>>

-----------------------------------------------------------------------------
(* cmd_main() after the check, and __prepare_longrunning(). *)

\* prepare_dotsav() finds something wrong: the process dies.
DotsavFails(p) ==
  /\ pc[p] = "checked"
  /\ Gone(p)
  /\ UNCHANGED <<files, killed>>

\* detach_process(): the child c goes on; without a child (warned about) p itself does.
Detach(p, c) ==
  /\ pc[p] = "checked"
  /\ pc' = [pc EXCEPT ![p] = "none", ![c] = "find"]
  /\ c # p => pc[c] = "none"
  /\ UNCHANGED <<at, read, dir, files, logging, unlisted, killed>>

\* The first directory that can be used, which is remembered.  (Without any the process
\* crashes: Kill.)
find_data_dirname(p) ==
  /\ pc[p] = "find"
  /\ \E d \in Dir : dir' = [dir EXCEPT ![p] = d]
  /\ Goto(p, "log")
  /\ UNCHANGED <<at, read, files, logging, unlisted, killed>>

\* creat() empties a log that is there; or it fails, or dup2() does, which is warned about.
setup_lr_logging(p) ==
  /\ pc[p] = "log"
  /\ \/ logfile' = [logfile EXCEPT ![dir[p]] = "empty"] /\ logging' \in {logging, logging \cup {p}}
     \/ UNCHANGED <<logfile, logging>>
  /\ Goto(p, "create")
  /\ UNCHANGED <<at, read, dir, pidfile, unlisted, killed>>

\* push_process_id().  creat(): the file is there and empty; or it fails, which is warned
\* about.
CreateFile(p) ==
  /\ pc[p] = "create"
  /\ \/ pidfile' = [pidfile EXCEPT ![dir[p]] = Empty] /\ Goto(p, "write") /\ UNCHANGED unlisted
     \/ Goto(p, "daemon") /\ unlisted' = unlisted \cup {p} /\ UNCHANGED pidfile
  /\ UNCHANGED <<at, read, dir, logfile, logging, killed>>

\* write(), which may fail likewise.
WritePid(p) ==
  /\ pc[p] = "write"
  /\ \/ pidfile' = [pidfile EXCEPT ![dir[p]] = p] /\ UNCHANGED unlisted
     \/ unlisted' = unlisted \cup {p} /\ UNCHANGED pidfile
  /\ Goto(p, "daemon")
  /\ UNCHANGED <<at, read, dir, logfile, logging, killed>>

-----------------------------------------------------------------------------
(* The daemon's messages, and its end. *)

\* A message, from any thread until the process is gone.  (Into a log that is not there any
\* more it is lost.)
Report(p) ==
  /\ p \in logging /\ logfile[dir[p]] = "empty"
  /\ logfile' = [logfile EXCEPT ![dir[p]] = "written"]
  /\ UNCHANGED <<pc, at, read, dir, pidfile, logging, unlisted, killed>>

\* Mutant of Die: the handlers do not run.
DieAtOnce(p) ==
  /\ pc[p] = "daemon"
  /\ Gone(p)
  /\ UNCHANGED <<files, killed>>

\* die() in the daemon (too many overloads): exit() runs the handlers, the last one
\* registered first; atexit_apply() registers them from the end of its list.
Die(p) ==
  /\ pc[p] = "daemon"
  /\ Goto(p, "exiting")
  /\ UNCHANGED <<at, read, dir, files, logging, unlisted, killed>>

\* teardown_lr_logging(): a log with something in it stays.
StatLog(p) ==
  /\ pc[p] = "exiting"
  /\ Goto(p, IF logfile[dir[p]] = "empty" THEN "empty" ELSE "pop")
  /\ UNCHANGED <<at, read, dir, files, logging, unlisted, killed>>

\* The log goes, whatever is in it by now; or it cannot be removed, which nobody notices.
UnlinkLog(p) ==
  /\ pc[p] = "empty"
  /\ \/ logfile' = [logfile EXCEPT ![dir[p]] = "absent"] /\ UNCHANGED killed
     \/ killed' = TRUE /\ UNCHANGED logfile
  /\ Goto(p, "pop")
  /\ UNCHANGED <<at, read, dir, pidfile, logging, unlisted>>

\* pop_process_id(): the file goes or stays likewise, whoever wrote it; and the process is gone.
PopProcessId(p) ==
  /\ pc[p] = "pop"
  /\ \/ pidfile' = [pidfile EXCEPT ![dir[p]] = Absent] /\ UNCHANGED killed
     \/ killed' = TRUE /\ UNCHANGED pidfile
  /\ Gone(p)
  /\ UNCHANGED logfile

Starting(p) == pc[p] \in {"check", "kill", "unlink", "checked", "find", "log", "create", "write"}
Ours(p) == Starting(p) \/ pc[p] \in {"daemon", "exiting", "empty", "pop"}

\* A signal or a crash ends a process; that is also how users stop the daemon.
Kill(p) ==
  /\ Ours(p)
  /\ Gone(p)
  /\ killed' = TRUE
  /\ UNCHANGED files

\* Another program gets the pid, and ends.
Other(p) ==
  /\ \/ pc[p] = "none" /\ Goto(p, "other")
     \/ pc[p] = "other" /\ Goto(p, "none")
  /\ UNCHANGED <<at, read, dir, files, logging, unlisted, killed>>

\* Users remove a malformed file as readpid()'s message tells them: when nothing of this
\* program is left.
UserRemoves ==
  /\ \A p \in Pid : ~Ours(p)
  /\ \E d \in Dir : pidfile[d] = Empty /\ pidfile' = [pidfile EXCEPT ![d] = Absent]
  /\ UNCHANGED <<pc, at, read, dir, logfile, logging, unlisted, killed>>

-----------------------------------------------------------------------------
ProcessStep(p) ==
  \/ ReadPid(p) \/ CheckAlive(p) \/ UnlinkStale(p)
  \/ DotsavFails(p) \/ \E c \in Pid : Detach(p, c)
  \/ find_data_dirname(p) \/ setup_lr_logging(p) \/ CreateFile(p) \/ WritePid(p)
  \/ Report(p) \/ Die(p) \/ StatLog(p) \/ UnlinkLog(p) \/ PopProcessId(p)

\* Who was warned that the detection is disabled starts no second process.
Next ==
  \/ \E p \in Pid : (unlisted = {} /\ Start(p)) \/ ProcessStep(p) \/ Kill(p) \/ Other(p)
  \/ UserRemoves

\* Start-ups do not overlap.
MayStart == unlisted = {} /\ \A p \in Pid : ~Starting(p)
NextSerial ==
  \/ \E p \in Pid : (MayStart /\ Start(p)) \/ ProcessStep(p) \/ Kill(p) \/ Other(p)
  \/ UserRemoves

Spec == Init /\ [][Next]_vars
SpecSerial == Init /\ [][NextSerial]_vars

-----------------------------------------------------------------------------
(* Properties. *)

TypeOK ==
  /\ pc \in [Pid -> Pc]
  /\ at \in [Pid -> Dir]
  /\ read \in [Pid -> Pid \cup {NoPid}]
  /\ dir \in [Pid -> Dir \cup {NoDir}]
  /\ pidfile \in [Dir -> Pid \cup {Absent, Empty}]
  /\ logfile \in [Dir -> {"absent", "empty", "written"}]
  /\ logging \in SUBSET Pid
  /\ unlisted \in SUBSET Pid
  /\ killed \in BOOLEAN

Daemon(p) == pc[p] = "daemon"

\* include/command.h:13 says of UNIQUEPROC, which marks the backup command: "can only be
\* one process at a time".  (A daemon that could not write the file says so.)
OneDaemon == unlisted = {} => \A p, q \in Pid : Daemon(p) /\ Daemon(q) => p = q

\* The pid file names the daemon for as long as it runs: later start-ups that are refused
\* or die, killed ones and programs that reuse pids do not take it away, so the next
\* start-up finds it.
DaemonIsListed == \A p \in Pid : Daemon(p) /\ p \notin unlisted => pidfile[dir[p]] = p

\* Only a killed process, or an unlink() that fails, leaves a pid file or an empty log behind:
\* if every process so far ended by exit(), refused, failed or overloaded, and could remove
\* its files, then each of these files is a daemon's or its start-up's.
OnlyKillsLeaveFile ==
  ~killed => \A d \in Dir :
    pidfile[d] # Absent \/ logfile[d] = "empty" => \E p \in Pid : Ours(p) /\ dir[p] = d

=============================================================================
