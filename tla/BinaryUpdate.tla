----------------------------- MODULE BinaryUpdate -----------------------------
(* The online update: admin/binary_update.rs and its callers in               *)
(* admin/service.rs.                                                          *)
(*                                                                            *)
(* A pull downloads the latest release beside the program; an apply also      *)
(* renames the program to its backup and the download to the program, and has *)
(* the process exit, so that the container starts the new one.  A rollback    *)
(* renames the backup back.  The scheduler applies once a day.  No two of     *)
(* these exclude each other, and the process may die between any two steps.   *)
(* On Linux the path of the running program follows its file when it is       *)
(* renamed; so does what is being written.                                    *)
EXTENDS Naturals, Sequences, FiniteSets, Functions

CONSTANTS
    Operators,     \* tasks of the operator's requests
    Scheduler,     \* the task of start_auto_update_scheduler
    MaxVersion,    \* bound: releases are 1 .. MaxVersion
    MaxOperations, \* bound: what operators begin or set
    MaxFailures,   \* bound: downloads, renames and writes that fail
    MaxCrashes     \* bound: times the process dies

Tasks == Operators \cup {Scheduler}
None == 0
Versions == 1 .. MaxVersion

ASSUME UpdateAssumption ==
    /\ Scheduler \notin Operators
    /\ MaxVersion \in Nat /\ MaxOperations \in Nat
    /\ MaxFailures \in Nat /\ MaxCrashes \in Nat

VARIABLES
    disk,        \* the program's directory: path -> [version, whole]
    config,      \* config.json: [previous, auto], the runtime part as saved
    running,     \* the version of the process, None when there is none
    self,        \* where the file is that the process was started from
    runtime,     \* RuntimeUpdateConfig: [previous, auto]
    cached,      \* update_check_cache: the latest version it knows, or None
    exiting,     \* schedule_self_exit has been called
    task,        \* task -> [at, op, exe, version, due]
    open,        \* task -> the file it is writing, or Closed
    lastApplied, \* the scheduler's last_applied_version
    latest,      \* the tag of the latest release
    operations, failures, crashes,
    history      \* [ran, restored, overlapped, disturbed]: the version of the last
                 \* process, whether a backup was put back since, see Begin, Disturbed

process == <<running, self, runtime, cached, exiting, lastApplied>>
counts == <<latest, operations, failures, crashes>>
vars == <<disk, config, process, task, open, counts, history>>

-----------------------------------------------------------------------------
(* Paths and files. *)

Exe == << >>  \* the path the container starts; others add suffixes
Suffixed(p, kind, v) == Append(p, [kind |-> kind, version |-> v])
Backup(p) == Suffixed(p, "backup", None)
Staged(p, v) == Suffixed(p, "staged", v)
Aside(p) == Suffixed(p, "rollback-current", None)
Deleted(p) == Suffixed(p, "deleted", None)  \* as /proc/self/exe has it
Closed == <<[kind |-> "closed", version |-> None]>>

Exists(p) == p \in DOMAIN disk
OtherStaged(p, keep) == {Staged(p, v) : v \in Versions \ {keep}}

\* A rename takes the place of what was there.
Rename(p, q) ==
    LET Follow(h) == CASE h = p -> q [] h = q -> Deleted(q) [] OTHER -> h
    IN  /\ disk' = [x \in (DOMAIN disk \ {p}) \cup {q} |->
                      IF x = q THEN disk[p] ELSE disk[x]]
        /\ self' = Follow(self)
        /\ open' = [t \in Tasks |-> Follow(open[t])]

Unlink(ps) ==
    LET Follow(h) == IF h \in ps \cap DOMAIN disk THEN Deleted(h) ELSE h
    IN  /\ disk' = Restrict(disk, DOMAIN disk \ ps)
        /\ self' = Follow(self)
        /\ open' = [t \in Tasks |-> Follow(open[t])]

-----------------------------------------------------------------------------
Idle == [at |-> "idle", op |-> "none", exe |-> Exe, version |-> None, due |-> None]

Init ==
    /\ running \in 1 .. 2 /\ latest \in 1 .. 2
    /\ disk = [p \in {Exe} |-> [version |-> running, whole |-> TRUE]]
    /\ config \in [previous : {None}, auto : BOOLEAN]
    /\ runtime = config
    /\ self = Exe /\ cached = None /\ exiting = FALSE /\ lastApplied = None
    /\ task = [t \in Tasks |-> Idle]
    /\ open = [t \in Tasks |-> Closed]
    /\ operations = 0 /\ failures = 0 /\ crashes = 0
    /\ history = [ran |-> running, restored |-> FALSE, overlapped |-> FALSE,
                  disturbed |-> FALSE]

Busy(t) == task[t].at # "idle"
Doing(t, step) == running # None /\ task[t].at = step
Proceed(t, step) == task' = [task EXCEPT ![t].at = step]
Finish(t) == task' = [task EXCEPT ![t] = Idle]

Goes == failures' = failures
Fails == failures < MaxFailures /\ failures' = failures + 1

\* History: from here on the directory and the recorded version may disagree,
\* no program be at its path, or a file be less than what its name says.
Disturbed(b) == history' = [history EXCEPT !.disturbed = @ \/ b]

Operates ==
    /\ operations < MaxOperations
    /\ operations' = operations + 1

\* Nothing keeps a second update out, nor one in the two seconds before the exit.
Begin(t, op, step, due) ==
    /\ running # None /\ ~Busy(t)
    /\ task' = [task EXCEPT ![t] = [at |-> step, op |-> op, exe |-> self,
                                    version |-> None, due |-> due]]
    /\ LET second == exiting \/ \E u \in Tasks : Busy(u)
       IN history' = [history EXCEPT !.overlapped = @ \/ second, !.disturbed = @ \/ second]

-----------------------------------------------------------------------------
(* Pulling and applying. *)

PullUpdateImage(t) ==
    /\ Operates /\ Begin(t, "pull", "resolve", None)
    /\ UNCHANGED <<disk, config, process, open, latest, failures, crashes>>

ApplyUpdateImage(t) ==
    /\ Operates /\ Begin(t, "apply", "resolve", None)
    /\ UNCHANGED <<disk, config, process, open, latest, failures, crashes>>

\* Mutant: an apply takes the latest release for an update.
ResolveAny(t) ==
    /\ Doing(t, "resolve")
    /\ \/ /\ Goes /\ cached' = latest
          /\ task' = [task EXCEPT ![t].at = "stage", ![t].version = latest]
       \/ Fails /\ Finish(t) /\ UNCHANGED cached
    /\ UNCHANGED <<disk, config, running, self, runtime, exiting, lastApplied, open,
                   latest, operations, crashes, history>>

\* A cached answer comes with a warning, which is an error here.
ResolveTargetVersion(t) ==
    /\ Doing(t, "resolve")
    /\ \/ /\ Goes /\ cached' = latest
          /\ IF task[t].op = "apply" /\ latest <= running
             THEN Finish(t)
             ELSE task' = [task EXCEPT ![t].at = "stage", ![t].version = latest]
       \/ Fails /\ Finish(t) /\ UNCHANGED cached
    /\ UNCHANGED <<disk, config, running, self, runtime, exiting, lastApplied, open,
                   latest, operations, crashes, history>>

\* A staged file that exists is taken for a download that was verified.
UseStaged(t) ==
    /\ Doing(t, "stage") /\ Exists(Staged(task[t].exe, task[t].version))
    /\ Proceed(t, "cleanup")
    /\ UNCHANGED <<disk, config, process, open, counts, history>>

\* Download, checksum and extraction, then fs::copy creates or truncates the
\* staged file.
DownloadReleaseBinary(t) ==
    /\ Doing(t, "stage") /\ ~Exists(Staged(task[t].exe, task[t].version))
    /\ Goes /\ Proceed(t, "create")
    /\ UNCHANGED <<disk, config, process, open, latest, operations, crashes, history>>

DownloadFails(t) ==
    /\ Doing(t, "stage") /\ ~Exists(Staged(task[t].exe, task[t].version))
    /\ Fails /\ Finish(t)
    /\ UNCHANGED <<disk, config, process, open, latest, operations, crashes, history>>

CreateStaged(t) ==
    /\ Doing(t, "create")
    /\ LET p == Staged(task[t].exe, task[t].version) IN
         /\ disk' = [x \in DOMAIN disk \cup {p} |->
                       IF x = p THEN [version |-> task[t].version, whole |-> FALSE]
                                ELSE disk[x]]
         /\ open' = [open EXCEPT ![t] = p]
    /\ Proceed(t, "copy")
    /\ UNCHANGED <<config, process, counts, history>>

\* The copy is whole unless another task has truncated the file and still writes.
CopyEnds(t) ==
    /\ Doing(t, "copy")
    /\ open' = [open EXCEPT ![t] = Closed]
    /\ IF Exists(open[t]) /\ \A u \in Tasks \ {t} : open[u] # open[t]
       THEN disk' = [disk EXCEPT ![open[t]].whole = TRUE]
       ELSE UNCHANGED disk
    /\ IF Exists(Staged(task[t].exe, task[t].version))  \* set_executable
       THEN Proceed(t, "cleanup") ELSE Finish(t)
    /\ UNCHANGED <<config, process, counts, history>>

\* A failed copy leaves what it has written.
CopyFails(t) ==
    /\ Doing(t, "copy") /\ Fails /\ Finish(t) /\ Disturbed(TRUE)
    /\ open' = [open EXCEPT ![t] = Closed]
    /\ UNCHANGED <<disk, config, process, latest, operations, crashes>>

CleanupOtherStaged(t) ==
    /\ Doing(t, "cleanup")
    /\ Unlink(OtherStaged(task[t].exe, task[t].version))
    /\ IF task[t].op = "pull" THEN Finish(t) ELSE Proceed(t, "unback")
    /\ UNCHANGED <<config, running, runtime, cached, exiting, lastApplied, counts, history>>

(* install_binary. *)

\* Mutant: a backup that is there is kept.
RemoveNoBackup(t) ==
    /\ Doing(t, "unback") /\ Proceed(t, IF Exists(Backup(task[t].exe)) THEN "place" ELSE "aside")
    /\ UNCHANGED <<disk, open, config, process, counts, history>>

RemoveBackup(t) ==
    /\ Doing(t, "unback")
    /\ Unlink({Backup(task[t].exe)})
    /\ Proceed(t, "aside")
    /\ UNCHANGED <<config, running, runtime, cached, exiting, lastApplied, counts, history>>

MoveAside(t) ==
    /\ Doing(t, "aside")
    /\ LET e == task[t].exe IN
         \/ Exists(e) /\ Goes /\ Rename(e, Backup(e)) /\ Proceed(t, "place")
         \/ /\ (~Exists(e) /\ Goes) \/ Fails
            /\ Finish(t) /\ UNCHANGED <<disk, self, open>>
    /\ UNCHANGED <<config, running, runtime, cached, exiting, lastApplied, latest,
                   operations, crashes, history>>

\* A rename failed, and what was moved away is renamed back.  That may fail for the
\* same reason, and nobody looks.
TakeBack(t, from) ==
    /\ Finish(t)
    /\ \/ Exists(from) /\ Rename(from, task[t].exe) /\ UNCHANGED history
       \/ Disturbed(TRUE) /\ UNCHANGED <<disk, self, open>>

PlaceStaged(t) ==
    /\ Doing(t, "place")
    /\ LET e == task[t].exe
           s == Staged(e, task[t].version)
       IN  \/ /\ Exists(s) /\ Goes /\ Rename(s, e)
              /\ Proceed(t, "record") /\ UNCHANGED history
           \/ ((~Exists(s) /\ Goes) \/ Fails) /\ TakeBack(t, Backup(e))
    /\ UNCHANGED <<config, running, runtime, cached, exiting, lastApplied, latest,
                   operations, crashes>>

\* update_config_file: a failed write is a warning.
SaveConfig(new) ==
    \/ Goes /\ config' = new /\ UNCHANGED history
    \/ Fails /\ UNCHANGED config /\ Disturbed(TRUE)

\* The versions are recorded and the exit is scheduled.
RecordApplied(t) ==
    /\ Doing(t, "record")
    /\ runtime' = [runtime EXCEPT !.previous = running]
    /\ SaveConfig([config EXCEPT !.previous = running])
    /\ exiting' = TRUE
    /\ lastApplied' = IF t = Scheduler THEN task[t].due ELSE lastApplied
    /\ Finish(t)
    /\ UNCHANGED <<disk, running, self, cached, open, latest, operations, crashes>>

-----------------------------------------------------------------------------
(* Rolling back. *)

RollbackUpdateImage(t) ==
    /\ Operates /\ runtime.previous # None
    /\ Begin(t, "rollback", "restore", None)
    /\ UNCHANGED <<disk, config, process, open, latest, failures, crashes>>

\* Mutant: the program is removed and not set aside.
RemoveCurrent(t) ==
    /\ Doing(t, "restore")
    /\ LET e == task[t].exe IN
         IF Exists(Backup(e)) THEN Unlink({e}) /\ Proceed(t, "back")
                              ELSE Finish(t) /\ UNCHANGED <<disk, self, open>>
    /\ UNCHANGED <<config, running, runtime, cached, exiting, lastApplied, counts, history>>

RestoreBackup(t) ==
    /\ Doing(t, "restore")
    /\ LET e == task[t].exe IN
         \/ /\ Exists(Backup(e)) /\ Exists(e) /\ Goes
            /\ Rename(e, Aside(e)) /\ Proceed(t, "back")
         \/ /\ Exists(Backup(e)) /\ ((~Exists(e) /\ Goes) \/ Fails)
            /\ Unlink({Aside(e)}) /\ Finish(t)
         \/ /\ ~Exists(Backup(e)) /\ Goes
            /\ Finish(t) /\ UNCHANGED <<disk, self, open>>
    /\ UNCHANGED <<config, running, runtime, cached, exiting, lastApplied, latest,
                   operations, crashes, history>>

PutBack(t) ==
    /\ Doing(t, "back")
    /\ LET e == task[t].exe IN
         \/ /\ Exists(Backup(e)) /\ Goes /\ Rename(Backup(e), e)
            /\ Proceed(t, "forget") /\ history' = [history EXCEPT !.restored = TRUE]
         \/ ((~Exists(Backup(e)) /\ Goes) \/ Fails) /\ TakeBack(t, Aside(e))
    /\ UNCHANGED <<config, running, runtime, cached, exiting, lastApplied, latest,
                   operations, crashes>>

ForgetUpdate(t) ==
    /\ Doing(t, "forget")
    /\ Unlink(OtherStaged(task[t].exe, None) \cup {Aside(task[t].exe)})
    /\ Proceed(t, "unrecord")
    /\ UNCHANGED <<config, running, runtime, cached, exiting, lastApplied, counts, history>>

RecordRollback(t) ==
    /\ Doing(t, "unrecord")
    /\ runtime' = [runtime EXCEPT !.previous = None]
    /\ SaveConfig([config EXCEPT !.previous = None])
    /\ exiting' = TRUE /\ Finish(t)
    /\ UNCHANGED <<disk, running, self, cached, lastApplied, open, latest, operations,
                   crashes>>

-----------------------------------------------------------------------------
(* The scheduler, the settings and the process. *)

\* Mutant: a version counts as applied when the scheduler begins with it.
SchedulerCounts ==
    /\ running # None /\ ~Busy(Scheduler) /\ runtime.auto
    /\ \E found \in {latest, cached} :
         /\ \/ found = latest /\ Goes /\ cached' = latest
            \/ found = cached /\ Fails /\ UNCHANGED cached
         /\ IF found > running /\ found # lastApplied
            THEN Begin(Scheduler, "apply", "resolve", found) /\ lastApplied' = found
            ELSE UNCHANGED <<task, history, lastApplied>>
    /\ UNCHANGED <<disk, config, running, self, runtime, exiting, open, latest,
                   operations, crashes>>

\* Once a day, when automatic updates are on.  A failed check may answer with an
\* old result; the apply asks again.
SchedulerApplies ==
    /\ running # None /\ ~Busy(Scheduler) /\ runtime.auto
    /\ \E found \in {latest, cached} :
         /\ \/ found = latest /\ Goes /\ cached' = latest
            \/ found = cached /\ Fails /\ UNCHANGED cached
         /\ IF found > running /\ found # lastApplied
            THEN Begin(Scheduler, "apply", "resolve", found)
            ELSE UNCHANGED <<task, history>>
    /\ UNCHANGED <<disk, config, running, self, runtime, exiting, lastApplied, open,
                   latest, operations, crashes>>

\* force: an operator looks for a new version.
CheckUpdate ==
    /\ running # None /\ cached' = latest
    /\ UNCHANGED <<disk, config, running, self, runtime, exiting, lastApplied, task,
                   open, counts, history>>

SetUpdateConfig(auto) ==
    /\ running # None /\ Operates
    /\ runtime' = [runtime EXCEPT !.auto = auto]
    /\ \/ Goes /\ config' = [config EXCEPT !.auto = auto]
       \/ Fails /\ UNCHANGED config
    /\ UNCHANGED <<disk, running, self, cached, exiting, lastApplied, task, open,
                   latest, crashes, history>>

ProcessEnds ==
    /\ running' = None /\ exiting' = FALSE /\ cached' = None /\ lastApplied' = None
    /\ task' = [t \in Tasks |-> Idle]
    /\ open' = [t \in Tasks |-> Closed]
    /\ UNCHANGED <<disk, config, self, runtime, latest, operations, failures>>

SelfExit ==
    /\ running # None /\ exiting /\ ProcessEnds
    /\ UNCHANGED <<crashes, history>>

\* Steps after which a death leaves the directory between two states.
Crash ==
    /\ running # None /\ crashes < MaxCrashes /\ crashes' = crashes + 1
    /\ ProcessEnds
    /\ Disturbed(\E t \in Tasks : task[t].at \in {"copy", "place", "record", "back"})

\* restart: unless-stopped.
ContainerStarts ==
    /\ running = None /\ Exists(Exe) /\ disk[Exe].whole
    /\ running' = disk[Exe].version /\ self' = Exe /\ runtime' = config
    /\ history' = [history EXCEPT !.ran = disk[Exe].version, !.restored = FALSE]
    /\ UNCHANGED <<disk, config, cached, exiting, lastApplied, task, open, counts>>

Release ==
    /\ latest < MaxVersion /\ latest' = latest + 1
    /\ UNCHANGED <<disk, config, process, task, open, operations, failures, crashes,
                   history>>

-----------------------------------------------------------------------------
Step(t) ==
    \/ ResolveTargetVersion(t) \/ UseStaged(t)
    \/ DownloadReleaseBinary(t) \/ DownloadFails(t)
    \/ CreateStaged(t) \/ CopyEnds(t) \/ CopyFails(t) \/ CleanupOtherStaged(t)
    \/ RemoveBackup(t) \/ MoveAside(t) \/ PlaceStaged(t) \/ RecordApplied(t)
    \/ RestoreBackup(t) \/ PutBack(t) \/ ForgetUpdate(t) \/ RecordRollback(t)

Next ==
    \/ \E t \in Tasks : Step(t)
    \/ \E t \in Operators :
         PullUpdateImage(t) \/ ApplyUpdateImage(t) \/ RollbackUpdateImage(t)
    \/ SchedulerApplies \/ CheckUpdate
    \/ \E auto \in BOOLEAN : SetUpdateConfig(auto)
    \/ SelfExit \/ Crash \/ ContainerStarts \/ Release

Spec == Init /\ [][Next]_vars

\* Tasks are run, the scheduler's minute comes every day, the two seconds pass
\* and the container starts the program again.
Fairness ==
    /\ \A t \in Tasks : WF_vars(Step(t))
    /\ WF_vars(SchedulerApplies) /\ WF_vars(SelfExit) /\ WF_vars(ContainerStarts)

FairSpec == Spec /\ Fairness

-----------------------------------------------------------------------------
(* Properties. *)

\* A whole program that is no older than what ran last, unless a backup was put back.
Sound(p) ==
    Exists(p) /\ disk[p].whole /\ (disk[p].version >= history.ran \/ history.restored)

\* binary_update.rs:404, a failure of any step can be taken back.  Whichever step of
\* an update or a rollback failed, its undoing included, and wherever the process died:
\* a program that works is still in the directory, if perhaps under a name beside its
\* own.  It is at its path, where the container starts it, unless the death or the
\* failure came between the two renames or left half a copy.  All this unless
\* updates overlapped (LostToOverlap).
Startable ==
    running = None /\ ~history.overlapped =>
      /\ \E p \in DOMAIN disk : Sound(p)
      /\ ~history.disturbed => Exists(Exe) /\ disk[Exe].whole

\* The version that a rollback announces is the one it puts back: the backup is
\* that of the update that config.json records.  But for updates that overlapped, a
\* death in the middle of one, a rename that could not be taken back, half a copy
\* and a config.json that could not be written.
RollbackHonest ==
    ~history.disturbed /\ runtime.previous # None /\ Exists(Backup(Exe))
      /\ (\A t \in Tasks : ~Busy(t))
        => disk[Backup(Exe)] = [version |-> runtime.previous, whole |-> TRUE]

\* A restart never brings an older version than ran before, unless a backup was
\* put back: whatever updates overlap, crash or fail.
NoDowngrade ==
    [][running = None /\ running' # None => running' >= history.ran \/ history.restored]_vars

\* With automatic updates on, the latest release runs in the end.
ScheduledUpdateArrives ==
    <>[]runtime.auto /\ []~history.disturbed => <>[](running >= latest)

-----------------------------------------------------------------------------
(* Statements of the sources that the code does not keep (see update.cfg).   *)

\* binary_update.rs:404: a failure of any step can be taken back.  The renames that
\* take it back can fail themselves, and nothing looks for the backup later.
AnyStepTakenBack ==
    running # None /\ (\A t \in Tasks : ~Busy(t)) => Exists(Exe)

\* The same of two updates at once: one removes as an old backup, or as other
\* releases, what the other has just moved, and no program is left.
LostToOverlap ==
    running = None => \E p \in DOMAIN disk : disk[p].whole

\* service.rs:1351: a staged file has been downloaded and verified.  It may be
\* what a failed copy has left.
ReusedIsVerified ==
    [][\A t \in Tasks : task[t].at = "stage" /\ task'[t].at = "cleanup"
         => disk[Staged(task[t].exe, task[t].version)].whole]_vars

\* service.rs:1433: a rollback puts the recorded version back.  install_binary
\* has removed the backup when one of its renames fails.
RollbackOffered ==
    runtime.previous # None /\ (\A t \in Tasks : ~Busy(t)) /\ ~exiting /\ running # None
      => Exists(Backup(Exe))
=============================================================================
