# Verification of savesave

Savesave backs up the save files of games.  `savesave backup` becomes a daemon: timers post
configurations to a scheduler, whose threads rotate and write backups.  `savesave copy` copies a
file or a directory, with a pool of threads when it helps.  The modules here model the parts of
the program whose correctness depends on the order of steps of several threads or processes, on
failures half way, or on data that is taken apart and put together, as they are built for Unix.
TLC checks them on small instances, TLAPS proves part of what is checked for every size.

## Inventory

| Component (source) | State | Operations | What is hard | What makes it correct |
|---|---|---|---|---|
| Copy scheduler (`platfree/cpsched.c`, called by `commands/copy.c`) | a queue of tasks and its counter, the pool's state, one mutex, one condition variable | deploy, schedule, join; the workers' loop | lock-free reads before locked ones, signals without the mutex, errors of workers, closing the pool | no file lost or copied twice, failures reported, the join returns and leaves nobody inside the pool |
| Backup scheduler (`platfree/baksched.c`, `baktimer.c`) | a queue, a bit per configuration, the overload count, the watchdog's memory | post (from timer threads), two routines, the watchdog | lost signals, bits cleared before the work is done, an unprotected count | each configuration queued once, each post served, overload counted and forgotten at the right time |
| Rotation (`platfree/backup.c`) | the numbered files of a configuration | sort, drop, find the next number | partial failure, other rotations of the same files, kills | only a surplus oldest backup is lost, the order is kept, the number is free |
| Process uniqueness (`platfree/proc.c`, `path.c`, `entry/`, `platfree/atexit.c`, the log of `termas.c`) | the pid file and the log in the first usable directory | check, detach, set up, push, tear down, pop | check and creation far apart, directories that can be used at one time and not at another, kills, pids used again, exit handlers of the wrong process | one daemon |
| Configurations (`platfree/dotsav.c`) | the array of configurations, where the parser is, the task bits | parse a line, apply it, check, finalise | keys in any order, collisions, limits of the bit table | every configuration complete, its name unique, its bit in the table, its files its own, its fields as written |
| Copy command, file iteration and directories (`commands/copy.c`, `sizeof.c`, `platfree/fileiter.c`, `mkdir.c`, `platspec/unix/fileiter.c`, `fcpy.c`) | the file system, the walk's list of directories and its path | copy, walk with a callback, mkfdirp, rmdirr, sizeof | changes during the walk, failures half way, errors that are dropped, files whose opening blocks | success means a whole copy but for what is known to be dropped, walks end; old and new trees never mixed; every entry once |
| Command line (`platfree/argupar.c`, `commands/`) | where the parser is in the words, the operands moved | short and long options, operands, subcommands | order, abbreviations, one array read and written, parsers one after the other | every word is used once and for what it says |
| Buffers and lists (`platfree/strbuf.c`, `strlist.c`) | memory, the text's length kept beside it | append, replace, grow, push, pop, split | lengths that are not the text's, memory used before | the text read is the one put together |
| Messages (`platfree/termas.c`) | an array of fixed size | put together, cut, replace control characters, write | limits of the array and of the table of positions | a report is written as it was made, and nothing beside the array |
| Services (threads, allocation, I/O retries, i18n, version) | hardly any | one library call each | — | — |
| Windows front end (`entry/win*.c`, `platspec/win32/`) | a window, an icon | window messages | — | — |

How they interact: `cmd_main()` parses the command line, checks that it is alone, reads the
configurations, detaches and writes the pid file; `cmd_backup()` then starts the scheduler's
threads and arms one timer per configuration.  A timer's expiry starts a thread in
`baksched_post()`.  A routine takes the configuration and calls `backup()`, which works on files
only.  `die()` in any thread ends the process through the exit handlers.  The copy command
drives the file iteration, whose callback hands files to the copy scheduler or copies them
itself when the scheduler refuses.

## Modules

| Module | Models |
|---|---|
| `CpSched` | the copy scheduler and the walk of `copy()` that feeds it |
| `CopyJob` | what a copy job promises, which `CpSched` implements |
| `BakSched` | the backup scheduler, its watchdog and the timers |
| `Rotation` | `backup()`, per system call |
| `BackupDaemon` | `BakSched` (extended) and `Rotation` (an instance) composed |
| `UniqProc` | the pid file and the log, from the check to the exit handlers |
| `Dotsav`, `MCDotsav` | the parser of the configurations; files for it to read (in the run of `MCTexts`, beside the texts) |
| `FileTree`, `MCFileTree` | copy, removal and sizeof over a file system; trees for them to walk |
| `ArguPar` | the command line, through the parsers of all commands |
| `StrBuf` | buffers and lists, as their users call them |
| `Termas` | a report, from its prefix to its write |
| `Texts`, `MCTexts` | `ArguPar`, `StrBuf` and `Termas`, one of which runs in each behaviour; texts for them, and the dotsavs of `MCDotsav` as a fourth part |
| `DataFacts` | lemmas about queues, numbers, sums, and functions and sequences made step by step, which several proofs need |
| `CpSchedProofs`, `RotationProofs`, `BackupDaemonProofs` (with `BakSched`'s), `UniqProcProofs`, `DotsavProofs`, `FileTreeProofs`, `TextsProofs` | the theorems |

### CpSched

One action per lock-free access and per critical section.  `lock` is the owner of the mutex,
`wpc` and `mpc` say where a worker and the main thread are, `state` is `pool.state` (running,
closed, or error), `queue` and `pending` are the list and its counter, `wfile` the file a worker
has taken.  A worker locks (`WorkerLock`), looks at the state (`WorkerCheck`), waits
(`WorkerWait`: `cnd_wait()` releases the mutex and takes it again once it was signalled, or for
no reason, `SpuriousWakeup`), looks again (`WorkerRecheck`), takes a task (`WorkerTake`) and
copies it (`WorkerCopy`); after a failure it stores it (`WorkerFail`) and broadcasts
(`WorkerNotify`).  The main thread deploys the workers, and for each file of the walk goes
through `LoadState`, `LoadPending`, `LockSchedule`, `Recheck` and `Push`, unless the scheduler
refuses the file (`Refuse`) or leaves it to the caller (`InlineCopy`); it ends with `Exchange`,
`Broadcast` and `Join`.  `outcome` says what became of each file and exists for the properties
and the refinement only.  A copy's outcome is any the calls in `fcpy.c` can give.  The walk may
fail at any time, after the last file too (`IterationEnds`): a directory that cannot be opened,
or an entry of unknown type.  Thread creation may fail, which ends the process (`Die`).

### BakSched

What the queue's mutex protects is touched only under it, so a critical section is one action
(`Post`, `Take`, `WaitAgain`).  `routine()` locks and waits without looking at anything between,
which is `Wait`.  The overload count is incremented in `Heavy` and read and cleared in
`WatchdogLoad` and `WatchdogStore`, outside the mutex.  `age` is how long ago the watchdog set
its time stamp, `calm` how long ago the count grew; both stop counting above the window, where
nothing tells them apart.  `die()` sets `alive` to FALSE, in `Heavy` and, when no memory is left
for a task, in `PostDies`.

A configuration's bit is one Boolean.  Bits are distinct (`Dotsav`'s `BitsApart`), but from the
ninth configuration on they lie behind the table `baksched_init()` allocates (`BitsInTable`), so
the model holds for up to eight.

### Rotation

`slot[s][n]` is the backup in `<prefix>.<n>` of configuration s, `job[r]` holds the variables of
`backup_fetch_sort()` and `find_next_room()` in the routine r and where it is.  Every
`access()`, `rename()` and removal is a step and may fail.  `Outside` puts anything into the
slots while nobody rotates them: what users, scripts and killed earlier runs leave.  `SpecAlone`
lets no two routines rotate one configuration; `Spec` does.  A file in the slot is a backup in
it, of any kind; removing one is one step.  The source writes no new backup yet (`backup.c:173`
is commented out), so neither does the model.

### BackupDaemon

A routine's `Take` is joined with the rotation's `Begin`, `End` with `BackupReturns`; all else
interleaves.  In `SpecUnhurried` no timer expires while its own configuration is being backed
up, and a timer's thread comes to post before a routine takes the configuration again.  That is
a condition on the timing, not a consequence of long periods alone; it allows what a lost
wake-up does: posts that lie unserved and later ones that come too early.  In `DaemonSpec`
timers expire at will.

### UniqProc

One action per system call on the pid file and the log.  `pc` says where each process is, `at`
the directory it looks at (`check_unique_process()` goes through all of them, `NextDir`), `read`
the pid it found there, `dir` the directory `find_data_dirname()` has chosen: the first that can
be used, which may be any, since what can be used changes with time and user.  The list itself
is the same for all processes.  It has two members: the third of the source is the executable,
which is a file (`get_executable_dirname()` does not take the name off).  `pidfile` is absent,
empty (between `creat()` and `write()`) or a pid.  `logfile` is absent, empty or written;
`logging` are the daemons whose output goes there.  A message that is written between `StatLog`
and `UnlinkLog` is lost with the log.  `unlink()` may fail in the check and in the exit
handlers.  `Kill` ends a process without its exit handlers, `Other` lets another program use a
free pid, `UserRemoves` is what the message about a malformed file asks for.  `unlisted` are
daemons that could not write the file: they warn that detection is disabled and ask for only one
process, and the model's users obey (`unlisted = {}` in the guard of a start).

### Dotsav

`file` is a sequence of lines, `lineno` the line `do_parse()` is at, `savarr` the array so far.
One action per kind of line: `SkipLine`, `OpenConfig`, `SetField`, `BadLine`, which ends the
process as every error does, and `StrayField`, a key before any configuration, which is written
to `savarr[-1]` and crashes it; `Finish` is what follows the last line.  A text is a sequence of
pieces, so that prefixes can be compared as texts; a number and what follows it are given with
the line, and `Span`, `Accepts` and `Stored` do with them what the conversions do, signs and
widths included (`strtoull()` takes a minus, `Unsigned`).  What `stat()` says of a save is any
of its answers.  The table of keys has no end mark (`SE_END()` gives it the type of a
separator); an unknown key runs past it, which in the model, as in the source's intention, is an
error that ends the process.  The keys `snapshot` and `zip` of `.savesave.example` are unknown
to the parser.

What the model shows of the code, beside the properties: a period is checked against 32 bits
before its unit is applied and cut to them after (`string.c:162`), so 1193047H become 1904
seconds, although `.savesave.example:25` calls the period "the time interval between each
backup"; `ReadsAsWritten` leaves such numbers out.  A configuration `a.ss` and an archive's `a`
in one directory have one prefix, as have `a/b` and a `b` in the directory below
(`dotsav.c:270`): with unique names they rotate each other's backups, and `PrefixesApart` leaves
such names out.

### FileTree

A path is the sequence of its names, `fs` a function from paths to kinds.  `walk` is the context
of `fileiter()`: the root, the directory being read (`listing` is what the stream still has),
the list of directories (`stack`).  `Enter` and `EnterDir` begin, `OpenDir`, `ReadEntry` and
`ReadFails` are `fileiter_loop_dir()`, `NextDir` and `Unwind` the end of the loop with its
comparison of name lengths (`TextLen`).  `dispatch_file()` calls back `makedir`, `cpyfile`,
`do_rmdirr` or `accumsize`, by `walk.mode`.  The command around it is in `pc`: `Access`,
`FlexRemove`, `MakeParents`, two walks, `Join`; or `Stat` and one walk.  Every system call may
fail and other programs make and remove entries in the source, `MaxTroubles` times together.  The
copy threads take part as `queue` and `pool`; their interleavings are `CpSched`'s.

What the model shows of the code, beside the properties: a `readdir()` that fails is taken for
the end of the directory (`fileiter.c:122`), and the rest of it is missing from a copy, a
removal's list or a size without a word (`lost` records it as "unread"); `copy_regfile()`
returns an unset variable when the source cannot be opened and success when the destination
cannot be made (`lost` records both, and a copy that stops early), so a file whose name is too
long at the destination is left out of a copy that succeeds; an entry whose `d_type` is unknown
is passed over by the walk that makes directories and found by the one that copies; on a
removal, which directory lies in which is told from the lengths of their names
(`fileiter.c:85`), which is right only because the list is a stack; opening a fifo blocks the
walk or a thread (`InOpen`); with the destination inside the source the walk makes directories
until a path is too long; sizeof closes descriptor -1 when a directory cannot be read, which is
an assertion in `cntclose()` (`result = "bug"`), counts the root as a file, and 64 bytes for an
empty file (`sizeof.c:32`), although the comment over the command says "just the byte it has"; a
destination right under the root leaves `mkfdirp()` an empty path, so the copy fails; `copy` of
a regular file fails, although `copy.c:168` calls the command "Copy a file": the walk cannot
open it.

### ArguPar

`mem` is the array of words, `at` and `argc` what is left of it, `outc` the operands moved to
its front, `next` the rest of a word of short options, `set` what the options have been set to.
`ShortWord` and `ShortOption`, `LongOption`, `Operand`, `Subcommand`, `StopParse` and
`PromptHelp` are the loop's branches; `RunCommand` starts the next parser on the same array.  The
number of an option is a word of digits and other pieces, each digit worth what `Digit` says;
`Number` takes its sign as `strtoull()` does and refuses what is beyond `UINT32_MAX` or
`ULLONG_MAX`.  `copy_multisrc()` compares the last names of its sources (`Basename`).  A command
line ends as `usage`, `error`, `died` (the command refuses it), `run`, `bug` (an assertion is
hit) or `wild` (undefined).

What the model shows of the code, beside the properties: the word `-` is read past its end; a
title of a group is passed over where a command is expected (`argupar.c:67`) but not among long
options, so `--ti` calls no function (`argupar.c:240`); `query --` calls the subcommand nobody
named (`query.c:116`); `--thread=` is an assertion; `savesave log`, a file name option's name in
the place of a command, is taken for one and the file name forgotten.  No table of the program
has an option with a callback, an optional value or a negated form, so the model leaves these
out.

### StrBuf

`sb` is a buffer: its memory, `len` and `baslen`; `sl` a list.  The helpers are those of the
source; the actions are the calls of one user each: the walk (`StartWalk`, `WalkEntry`,
`WalkPush`, `WalkReset`, `WalkPop`, `WalkUp`), the names of a copy, the paths of a query, the
sources of a copy, the pid file and the lines of a usage.  `meant` and `pushed` are what the
user has put together.  Memory that is not written holds junk.  `len` may differ from the length
of the text (`strbuf_concatat()` does not set it); `drifted` marks a path normalised by such a
length, which may keep its last slash (the second name of a query).

### Termas

`msg` is the array, `buf` how much of it is used, `avail` what is left.  One action for the
prefix, the message, what `strerror()` says, the choice of a replacement, each step of
`format_cntrl_char_advanced()`, and the write.  With question marks, `avail` is still lessened
by what the replacements would have needed (`termas.c:157`), so the newline goes behind the
array and bytes that are not the report's are written ("outside"); and since `CAP_ALLOC()` is
asked for one place each time (`termas.c:80`), the table of positions never grows beyond its
first 24, and a position stored behind it leaves the program to chance (`pc = "wild"`).
`ReportAsMade` says nothing of a report with more control characters than places, and of one
whose replacements do not fit only how it begins.

## Runs

| Run | Question | Result |
|---|---|---|
| `cpsched` | all safety and liveness of the copy scheduler; `CopyJob` | holds |
| `cpsched_drop` | are all accepted files copied when the job reports success? | no (`cpsched.c:57`) |
| `baksched` | bits, overload, watchdog | holds |
| `baksched_served` | is a posted configuration backed up? | no: a lost wake-up (`baksched.c:30`) |
| `rotation` | what a rotation does to the backups it finds, alone | holds |
| `daemon` | when no timer expires during its own backup: do rotations stay alone? | holds |
| `daemon_loss` | with any periods: does a rotation drop the oldest at most? | no (`baksched.c:39`) |
| `uniqproc` | one daemon, with start-ups one after the other | holds |
| `uniqproc_race` | one daemon, with overlapping start-ups | no (`proc.c:46`) |
| `dotsav_table` | has the scheduler a word for every configuration? | no: not for the ninth (`dotsav.c:162`) |
| `filetree` | what copy, removal and sizeof do to a tree, whatever fails | holds |
| `texts` | are command lines, buffers and reports what they say? what do the commands get from a dotsav? | holds |

Properties, by run:

* `cpsched`: `PendingBound` (the counter equals the queue's length and stays within its bound
  although it is checked before the lock), `OnePlace` (every file is in one place),
  `JoinedQuiescent` (nobody uses the pool once it is destroyed), `FailureVisible` (a failure is
  on record until the join takes it), `RefusedForCause`, `WalkEnds` (the walk comes to the
  join), `OnlyWaitersRemain` (a join that hangs waits for workers in `cnd_wait()` only: the
  broadcast of `cpsched.c:159` is sent without the mutex and can be missed by a worker between
  its check and its wait, so the join may hang), and `IsCopyJob`, the refinement: success means
  a whole walk, an error that the walk broke off or a copy failed, and in between each file goes
  through its fates in one direction.
* `baksched`: `BitMatchesQueue`, `ClearsCalmOnly`, `CalmClears`.
* `rotation`: `NothingLost`, `OrderKept`, `NextIsAfterNewest`, `RotationEnds`.
* `daemon`: `RotatesAlone` (the composition takes the steps of `Rotation!SpecAlone` only, so the
  invariants of the `rotation` run hold in the daemon as long as the timing is as
  `SpecUnhurried` says; `daemon_loss` is what happens else).
* `uniqproc`: `OneDaemon`, `DaemonIsListed`, `OnlyKillsLeaveFile` (an `unlink()` that fails
  counts as a kill).
* `filetree`: `CopyIsWhole` (with the causes of every loss that a success may hide),
  `NeverMixed` (an old tree is removed to the end or not added to), `OnlyDestTouched`,
  `RemovalHasCause` (a removal reaches every directory after what it holds), `SizesAddUp` (what
  `accumsize()` takes is counted once, but for what a failing `readdir()` hides), `CommandEnds`
  (every walk comes to its end, and the command to its end or to the join, which may hang: that
  is `CpSched`'s).
* `texts`: `ParsedAsMeant` (against a reading of the words that does not go word by word),
  `UnreadUntouched` (operands never overwrite a word not yet read), `TextAsMeant`,
  `ReportAsMade` (a report with room for its replacements is written exactly; one without begins
  with its text); for a dotsav, `ConfigsUsable`, `ReadsAsWritten` (a reading of the file that
  does not go line by line: the last line with a key between two "config" lines counts, and
  numbers are what is written, not what is stored, as far as they fit), `BitsApart`,
  `PrefixesApart`.  `BitsInTable`, that the bits lie in the table, is what `dotsav_table` finds
  violated.

### Bounds

* `CpSched.cfg`: two workers, three files, `MaxPending = 1`.  Two workers are what a lost
  wake-up and a failure beside a success take; three files fill the queue, hold one in each
  worker's hand and leave one to be refused.  61275 distinct states.
* `BakSched.cfg`: two configurations, the two routines of the code, two timer threads,
  `MaxOverload = 1`, `Window = 1`.  The constants are 10 and 5 in the code; at 1 each the count
  can grow, be cleared, grow again and kill the process.  160405 distinct states.
* `Rotation.cfg`: one configuration (configurations share nothing), four slots and backups: all
  placements, among them two gaps with a backup behind each.  Two routines take turns.
* `BackupDaemon.cfg`: two configurations of two slots, 1416132 distinct states;
  `BackupDaemonLoss.cfg`: one.
* `Texts.cfg`, dotsavs (`DotsavTable.cfg` has the same): 3139 files of up to three
  configurations: bodies in three orders, each with one line less or with one more of 23 at any
  place or before all, then others with the same name, a name that contains it, a blank, a
  slash.  Words are two bytes, periods run modulo 4096 and numbers modulo 65536, so that three
  configurations need a second word, two hours are too long, and -65535 is read as 1; all are
  constants of the module.
* `UniqProc.cfg`: three pids: a daemon, a start-up and its child or another program; two
  directories.  78392 distinct states.
* `FileTree.cfg`: sources of one entry of any kind, of a directory with one or two, and with a
  file beside it; destinations that are free, taken by anything, below something that is no
  directory, inside the source, or so deep that the names of its entries are too long; removals
  of trees of up to four levels, among whose names one is as long as two levels of another;
  `MaxTroubles = 2`, so that a failure can follow another or a change; `MaxDepth = 5` names for
  PATH_MAX.  590705 distinct states.
* `Texts.cfg`, texts: 9038 command lines: up to three words after each command that parses any,
  out of up to 18 that are abbreviations of one option and of several, values, numbers, `-`,
  `--` and words that fit nothing; numbers with and without a sign, below, at and beyond limits
  of 69 and 99 for 2^32 - 1 and 2^64 - 1; sources with equal last names; buffers of two to four
  bytes' texts through up to 12 calls, with `Spare = 1` for 16 in `fix_grow()` so that they grow
  several times; lines of 4 bytes; an array of 12 bytes and a table of 3 positions, with every
  message of up to 6 bytes and messages of up to 12 with one control character at any place.
  119585 distinct states with the dotsavs.

### Fairness

* `CpSched`: every thread that can take a step takes one in the end (`WF` of a worker's and of
  the main thread's step), and a mutex that is free again and again is taken in the end (`SF` of
  `LockSchedule` and `WorkerAcquire`), as a scheduler and a futex give.  Nothing wakes a worker
  that nobody signals: spurious wake-ups have no fairness.
* `BakSched`: the same for routines and timer threads; `WF` of time passing and of arming; `SF`
  of a timer's expiry, since a timer goes on expiring while a thread slot is free from time to
  time.
* `Rotation`: a routine inside `backup()` goes on.
* `FileTree`: the process runs (`WF` of `Running`, all its steps but the join's return, which
  nothing guarantees); other programs and failures have none.
* The other modules state no liveness.

## Proofs

All are for any number of threads, files, configurations and processes, and any limits.

* `CpSchedProofs`.  `CoreInvariant` relates the mutex, the places of the threads, the counter
  and the queue: the counter is checked before the lock and used after it, so what keeps it
  bounded is that only the main thread adds to the queue, which needs to be said where the main
  thread is between check and push.  `PlaceInvariant` adds that queue, hands and fates partition
  the files, `EndInvariant` where each thread can be while the pool closes, `AnswerInvariant`
  what the main thread will report.  From them follow `TypeCorrect`, `PendingBounded`,
  `EveryFileInOnePlace`, `PoolIsQuietAfterJoin`, `FailuresStayVisible`, `RefusalsHaveACause` and
  `ImplementsCopyJob` (initial states map to initial states, each step to a step of `CopyJob` or
  none).
* `RotationProofs`.  `RotationInvariant` relates, at each point of a rotation, the slots to what
  they held when it began: before the scan's place the backups stand without gaps up to `room`,
  from there on the slots are as they were, and nothing is missing but number 0 when all slots
  were full.  `NoBackupIsLost`, `BackupsKeepTheirOrder` and `TheNextNumberIsRight` follow, for
  rotations that have their configuration to themselves.
* `BackupDaemonProofs`.  First the scheduler by itself: `BitsMatchTheQueue` needs besides itself
  that a timer thread has a configuration in hand; the queue facts come from `DataFacts`.
  `WatchdogClearsCalmOnly` needs that the time since the count grew is at least the age of the
  watchdog's stamp while the count is the one it remembers.  Then the composition: each step of
  the daemon is one of `BakSched`'s or leaves it alone, so `BitsMatchTheQueue` carries over;
  added to it, a configuration is in one place at a time (timer thread, queue, routine), under
  the timing of `SpecUnhurried`.  `TheDaemonRotatesAlone` is then the refinement that lets the
  theorems of `RotationProofs` speak of the daemon.
* `UniqProcProofs`.  `OnlyOneDaemon`, `TheFileNamesTheDaemon`, `FilesAreLeftByKills`, for any
  number of processes and directories.  The files alone do not make an induction: a start-up
  past the check has to be the only process (`Past`), one at the check must not have passed the
  daemon's directory (`NotPassed`), and one between `readpid()` and `kill()` there must have
  read the daemon's pid (`ReadIsFresh`).
* `DotsavProofs`.  An entry's word and bit are the quotient and the remainder of its place,
  names differ from the moment they are appended, and completeness is what `Finish` asks for:
  `TheConfigsAreUsable`, `TheBitsAreApart`, `TypeCorrect`, for any set of files, any word size
  and any range of periods and numbers.  `ItReadsAsWritten` is an induction over the lines,
  which is one over the steps: while the file is read, each entry says what the lines read so
  far say (`AsWritten`), and one line more changes what the lines say (`Says`) exactly as it
  changes the entry; a value that fits its field is stored as it is.  `ThePrefixesAreApart`
  needs that a finished prefix is some directory, a slash and `Ending` (the name, ".ss" for an
  archive, a dot): what stands behind the last slash is the ending, since plain names have no
  slash, and the ending tells name and kind; for other names the theorem claims nothing, since
  they do collide.
* `FileTreeProofs`, for every tree, set of names and number of failures, in layers.  `Types` is
  an inductive invariant by itself (`TypeCorrect`): the file system stays a tree, and the walk
  under its root.  `Untouched` adds what stays as it was (`DestTouched`).  When source and
  destination lie apart, `Known` says that the walk and the threads know entries of the source
  only and `Stage` which of the old and the new tree the destination holds (`NotMixed`).
  `CopySound` takes two layers more: `Whole` says that every entry that stayed in the source is
  copied, known to be lost, with the threads, or before the walk (`PendingIn`; what a failing
  `readdir()` hides is all that lies below the entries not yet listed), and `Explained` that it
  is in one of these places only (`Once`), without which its own copy could be in its way and
  the loss have no cause.  `RemovalSound` rests on `Rests`: what is left of the tree is the
  branch the walk is on, the directories on its list, each in a directory of the branch, deeper
  ones behind, and the entries it is reading; on a branch the lengths of the names tell
  directories apart (`LengthTells`), so that the comparison of `fileiter.c:85` finds those that
  are done with.  `SizesSound` rests on `Adding`: what has been added up is the entries the walk
  has passed and has not lost to a failing `readdir()`.
* `TextsProofs`.  `UnreadWordsStay`, for command lines of any length and words: what is left to
  read is always the end of the words given (`Counted`), operands stay behind it, and both hold
  again when the next command reads what the last one moved to the front (`LeftInFront`).
  `CommandLinesAreMeant`, for the same lines.  What they mean is defined of all the words at
  once; `Reads` says it of the words before the one that is read: none of them ends the reading,
  the operands among them are what has been moved to the front, and what their options mean
  together is what has been set, with the letters read of this word (`SoFar`).  A step adds one
  word, a word and its value, or a letter to both sides, which takes that a value is told from
  an operand by the words before it only, that letters are read as far as they are flags
  (`Letters`), and that an abbreviation finds the option it fits and no other, in each of the
  five tables (`LongFact`, `LetterFact`).  A second command begins with its own options
  untouched (`Settings`): no two tables have a name in common.  Where the reading stops is the
  first word that ends it (`Stop`), and the words left are behind the operands (`DoneFact`).
  `ReportsAreWritten`, for arrays and tables of any size and any texts, from prefixes that fit
  the array (the code aborts on others).  It claims the exact line where the replacements have
  room and the positions a place in the table, and the line's beginning where they have no room.
  The invariant says what the array holds before each step: a beginning of the line while it is
  put together (`Begun`); then, with the last control characters replaced, the text before the
  next one in its place and each stretch between those replaced two bytes further for each
  replacement before it (`Replacing`), which is what makes moving from the back safe; then the
  line with all of them replaced, or with question marks (`Finished`).  The positions recorded
  are compared with those the line has (`Scan`) byte by byte, and the line of the property is
  joined from as many pieces as it has bytes.
  `TextsAreMeant`, for any paths, names and usages without a NUL, any width of the lines and any
  spare memory.  What the property says is not inductive: it says nothing between two
  operations, where some users leave a buffer whose length is not its text's.  `BufferInv` says
  for every phase of every user how much is true: the memory begins with the text and ends it
  (`Holds`), its length is right, too (`Exact`), or it only begins with the text that the next
  operation will cut or extend (`Starts`).  `Stack` says of a list that the buffers in use hold
  what was put on it and the others have no memory or no length, which is why a buffer used
  before can take a text again.  That the lines of a usage hold its text is an induction over
  the lines read (`Read`): joined, they are what stands before the next one.

`DataFacts` holds what several of these need: queues, the least of a set of numbers, sums over
finite sets, functions defined from one number to the next, and sequences of sequences.  What
the community modules define by recursion (`FoldLeft`, `MapThenSumSet`, `FlattenSeq`) is handled
there by looking at the smallest set, or number, on which two ways of computing would differ.

Assumptions are those each module states about its constants; the one of `ArguPar` says that the
words are C strings.  Every invariant and every action property of the passing runs is proved.
Model-checked only: liveness (`WalkEnds`, `OnlyWaitersRemain`, `CalmClears`, `RotationEnds`,
`CommandEnds`), which the prover cannot do.

## Not modelled

* Windows: the models follow the Unix build.
* The clock is one that only runs forward; the source uses CLOCK_REALTIME.
* A pid file that is there can be opened and read.  A start-up without XDG_RUNTIME_DIR, which
  looks in fewer directories than another, may run a second daemon; the model gives every
  start-up the same list.  With `--log` the log is elsewhere; the model keeps it beside the pid
  file.
* A destination written with a slash at its end, or without any: the paths of `FileTree` are
  absolute.
* Reading a dotsav's bytes, `strbuf_trim()`, `strbuf_printf()` and lists of references.
* What the commands print, translations, the wrappers around single library calls, the choice of
  a home directory, the repetition of interrupted calls (`robio.c`) and the count of descriptors
  (`cntio.c`), which only an assertion reads.

## Plan

1.  The composition of `FileTree` with `CpSched`, in place of its summary of the pool.
