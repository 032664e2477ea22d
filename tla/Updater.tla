------------------------------ MODULE Updater -------------------------------
(***************************************************************************)
(* scripts/update-cores.py: install the latest release of each proxy core, *)
(* record its tag, restart its service; run every day by las-updater.timer *)
(* through scripts/las-update.sh, and by hand.                             *)
(*                                                                         *)
(* A release is a number, a later one a greater number.  A file is told by *)
(* the releases its bytes are from and by the run that has yet to finish   *)
(* it.  Archives are unpacked in a directory of the run's own, but the     *)
(* binary is copied next to its target under a name all runs share.        *)
(*                                                                         *)
(* An operator that stands before another and is not used is a plausible   *)
(* bug of it, to see that the properties tell it from the code.            *)
(***************************************************************************)
EXTENDS Naturals, Sequences

CONSTANTS
  Cores,       \* the proxy cores, each with a binary, a state file, a service
  Runs,        \* who starts the updater: the timer, administrators
  Timer,       \* las-updater.timer, one run at a time
  Lines,       \* per run: the command lines it may have
  MaxRelease,  \* bound on releases
  MaxTrouble,  \* bound on failures, kills, boots and removals
  None         \* no file, nobody, a service or a run that does not run

Release == 1 .. MaxRelease
CommandLine == [cores : Seq(Cores) \ {<<>>}, force : BOOLEAN, dryRun : BOOLEAN,
                restart : BOOLEAN]

(* A state file that is no JSON: empty, because it is being rewritten.     *)
Empty == 0

Step == {"fetch", "read", "download", "copying", "replace", "record", "recording",
         "restart"}
Locals == [step : Step, line : CommandLine, at : Nat \ {0}, tag : Release \cup {None},
           handle : {"closed", "temp", "target", "unlinked"}, changed : SUBSET Cores]
File == [releases : SUBSET Release, writer : Runs \cup {None}]

ASSUME UpdaterAssumption ==
  /\ Timer \in Runs
  /\ Lines \in [Runs -> SUBSET CommandLine]
  /\ MaxRelease \in Nat \ {0}
  /\ MaxTrouble \in Nat
  /\ None \notin Runs \cup Nat \cup Locals \cup File

VARIABLES
  latest,      \* per core: the release GitHub calls the latest
  target,      \* per core: the installed binary
  temp,        \* per core: the file next to it, <binary>.tmp
  recorded,    \* per core: the tag in the state file
  running,     \* per core: the release its service runs
  run,         \* per run: where it is, its command line, the position of its
               \* core there, the tag it has fetched, the file its descriptor
               \* leads to, the cores it has installed or would install
  overlapped,  \* two runs have been under way at once
  spoiled,     \* a run did not get to its end, or was told not to restart
  trouble      \* failures, kills, boots and removals so far

disk == <<target, temp, recorded>>
world == <<latest, running>>
history == <<overlapped, spoiled, trouble>>
vars == <<disk, world, run, history>>

Whole(file, release) == file = [releases |-> {release}, writer |-> None]
Intact(file) == \E release \in Release : Whole(file, release)

TypeOK ==
  /\ latest \in [Cores -> Release]
  /\ target \in [Cores -> File \cup {None}]
  /\ temp \in [Cores -> File \cup {None}]
  /\ recorded \in [Cores -> Release \cup {Empty, None}]
  /\ running \in [Cores -> Release \cup {None}]
  /\ run \in [Runs -> Locals \cup {None}]
  /\ \A r \in Runs : run[r] # None => run[r].at \in DOMAIN run[r].line.cores
  /\ overlapped \in BOOLEAN
  /\ spoiled \in BOOLEAN
  /\ trouble \in 0 .. MaxTrouble

(* Nothing is installed yet, or somebody has installed the binaries and    *)
(* started the services, or not.                                           *)
Init ==
  /\ latest = [c \in Cores |-> 1]
  /\ \/ /\ target = [c \in Cores |-> None]
        /\ running = [c \in Cores |-> None]
     \/ /\ target = [c \in Cores |-> [releases |-> {1}, writer |-> None]]
        /\ \E v \in {1, None} : running = [c \in Cores |-> v]
  /\ temp = [c \in Cores |-> None]
  /\ recorded = [c \in Cores |-> None]
  /\ run = [r \in Runs |-> None]
  /\ overlapped = FALSE
  /\ spoiled = FALSE
  /\ trouble = 0

Active(r) == run[r] # None
At(r, step) == Active(r) /\ run[r].step = step
Core(r) == run[r].line.cores[run[r].at]
HasNextAtEnd(r) == run[r].at <= Len(run[r].line.cores)
HasNext(r) == run[r].at < Len(run[r].line.cores)

Goto(r, step) == run' = [run EXCEPT ![r].step = step]
End(r) == run' = [run EXCEPT ![r] = None]

(* The loop of main: the next core, then the services, then the end.       *)
Proceed(r, cores) ==
  IF HasNext(r)
  THEN run' = [run EXCEPT ![r].step = "fetch", ![r].at = @ + 1, ![r].changed = cores]
  ELSE IF cores # {} /\ run[r].line.restart /\ ~run[r].line.dryRun
  THEN run' = [run EXCEPT ![r].step = "restart", ![r].at = 1, ![r].changed = cores]
  ELSE End(r)

-----------------------------------------------------------------------------
(* The steps of a run.                                                     *)

Start(r, line) ==
  /\ ~Active(r)
  /\ run' = [run EXCEPT ![r] =
               [step |-> "fetch", line |-> line, at |-> 1, tag |-> None,
                handle |-> "closed", changed |-> {}]]
  /\ overlapped' = (overlapped \/ \E q \in Runs : Active(q))
  /\ spoiled' = (spoiled \/ (~line.restart /\ ~line.dryRun))
  /\ UNCHANGED <<disk, world, trouble>>

FetchRelease(r) ==
  /\ At(r, "fetch")
  /\ run' = [run EXCEPT ![r].step = "read", ![r].tag = latest[Core(r)]]
  /\ UNCHANGED <<disk, world, history>>

Readable(r) == At(r, "read") /\ recorded[Core(r)] # Empty

TagIsCurrent(r) == ~run[r].line.force /\ recorded[Core(r)] = run[r].tag
IsCurrent(r) ==
  /\ ~run[r].line.force
  /\ recorded[Core(r)] = run[r].tag
  /\ target[Core(r)] # None

LeaveCurrent(r) ==
  /\ Readable(r)
  /\ IsCurrent(r)
  /\ Proceed(r, run[r].changed)
  /\ UNCHANGED <<disk, world, history>>

WouldUpdate(r) ==
  /\ Readable(r)
  /\ ~IsCurrent(r)
  /\ run[r].line.dryRun
  /\ Proceed(r, run[r].changed \cup {Core(r)})
  /\ UNCHANGED <<disk, world, history>>

RecordAtStart(r) ==
  /\ Readable(r)
  /\ ~IsCurrent(r)
  /\ ~run[r].line.dryRun
  /\ Goto(r, "download")
  /\ recorded' = [recorded EXCEPT ![Core(r)] = run[r].tag]
  /\ UNCHANGED <<target, temp, world, history>>

StartUpdate(r) ==
  /\ Readable(r)
  /\ ~IsCurrent(r)
  /\ ~run[r].line.dryRun
  /\ Goto(r, "download")
  /\ UNCHANGED <<disk, world, history>>

(* An exception ends main.                                                 *)
Raise(r) == End(r) /\ spoiled' = TRUE

(* json.loads raises one.                                                  *)
Unreadable(r) ==
  /\ At(r, "read")
  /\ recorded[Core(r)] = Empty
  /\ Raise(r)
  /\ UNCHANGED <<disk, world, overlapped, trouble>>

(* Another run that has the file open may still write to it.               *)
Writers(core, file) ==
  {q \in Runs : Active(q) /\ run[q].handle = file /\ Core(q) = core}
Opened(r, file) ==
  [releases |-> {run[q].tag : q \in Writers(Core(r), file) \cup {r}}, writer |-> r]

OpenTarget(r) ==
  /\ At(r, "download")
  /\ run' = [run EXCEPT ![r].step = "copying", ![r].handle = "target"]
  /\ target' = [target EXCEPT ![Core(r)] = Opened(r, "target")]
  /\ UNCHANGED <<temp, recorded, world, history>>

(* The archive is downloaded and unpacked in a directory of the run's own; *)
(* then the binary found there is copied next to the target.               *)
OpenTemp(r) ==
  /\ At(r, "download")
  /\ run' = [run EXCEPT ![r].step = "copying", ![r].handle = "temp"]
  /\ temp' = [temp EXCEPT ![Core(r)] = Opened(r, "temp")]
  /\ UNCHANGED <<target, recorded, world, history>>

(* The last bytes go to the file that was opened, under whatever name.     *)
Written(r, file, name) ==
  IF run[r].handle # name THEN file
  ELSE [releases |-> file.releases \cup {run[r].tag},
        writer |-> IF file.writer = r THEN None ELSE file.writer]
FinishCopy(r) ==
  /\ At(r, "copying")
  /\ temp' = [temp EXCEPT ![Core(r)] = Written(r, @, "temp")]
  /\ target' = [target EXCEPT ![Core(r)] = Written(r, @, "target")]
  /\ run' = [run EXCEPT ![r].step = "replace", ![r].handle = "closed"]
  /\ UNCHANGED <<recorded, world, history>>

(* Open descriptors stay with the file when its name goes.                 *)
Unlinked(core, q) ==
  IF q \in Writers(core, "target") THEN [run[q] EXCEPT !.handle = "unlinked"] ELSE run[q]
Moved(core, q) ==
  IF q \in Writers(core, "temp") THEN [run[q] EXCEPT !.handle = "target"]
  ELSE Unlinked(core, q)

(* copystat, chmod and os.replace.                                         *)
Replace(r) ==
  /\ At(r, "replace")
  /\ temp[Core(r)] # None
  /\ target' = [target EXCEPT ![Core(r)] = temp[Core(r)]]
  /\ temp' = [temp EXCEPT ![Core(r)] = None]
  /\ run' = [q \in Runs |-> IF q = r THEN [run[r] EXCEPT !.step = "record"]
                            ELSE Moved(Core(r), q)]
  /\ UNCHANGED <<recorded, world, history>>

(* Somebody else has moved the file away.                                  *)
NothingToReplace(r) ==
  /\ At(r, "replace")
  /\ temp[Core(r)] = None
  /\ Raise(r)
  /\ UNCHANGED <<disk, world, overlapped, trouble>>

(* Path.write_text truncates, then writes.                                 *)
TruncateState(r) ==
  /\ At(r, "record")
  /\ recorded' = [recorded EXCEPT ![Core(r)] = Empty]
  /\ Goto(r, "recording")
  /\ UNCHANGED <<target, temp, world, history>>

WriteState(r) ==
  /\ At(r, "recording")
  /\ recorded' = [recorded EXCEPT ![Core(r)] = run[r].tag]
  /\ Proceed(r, run[r].changed \cup {Core(r)})
  /\ UNCHANGED <<target, temp, world, history>>

(* What a service that runs, and is started anew, runs then.               *)
Installed(c) ==
  IF Intact(target[c]) THEN CHOOSE v \in Release : Whole(target[c], v) ELSE None
Restarted(c) == IF running[c] = None THEN None ELSE Installed(c)

RestartOne(r) ==
  /\ At(r, "restart")
  /\ running' = [running EXCEPT ![Core(r)] =
                   IF Core(r) \in run[r].changed THEN Restarted(Core(r)) ELSE @]
  /\ End(r)
  /\ UNCHANGED <<disk, latest, history>>

(* `systemctl try-restart` of the changed cores in turn; how it ends is    *)
(* ignored.                                                                *)
RestartService(r) ==
  /\ At(r, "restart")
  /\ running' = [running EXCEPT ![Core(r)] =
                   IF Core(r) \in run[r].changed THEN Restarted(Core(r)) ELSE @]
  /\ IF HasNext(r) THEN run' = [run EXCEPT ![r].at = @ + 1] ELSE End(r)
  /\ UNCHANGED <<disk, latest, history>>

-----------------------------------------------------------------------------
(* The environment.                                                        *)

Trouble == trouble < MaxTrouble /\ trouble' = trouble + 1

(* GitHub cannot be reached or has no asset for this machine, the archive  *)
(* is bad, the disk is full.  A failing apt-get, which keeps las-update.sh *)
(* from starting the updater, is a run that fails at once.                 *)
Fail(r) ==
  /\ Active(r)
  /\ run[r].step \notin {"read", "restart"}
  /\ Trouble
  /\ Raise(r)
  /\ UNCHANGED <<disk, world, overlapped>>

Kill(r) ==
  /\ Active(r)
  /\ Trouble
  /\ End(r)
  /\ spoiled' = TRUE
  /\ UNCHANGED <<disk, world, overlapped>>

Boot ==
  /\ Trouble
  /\ run' = [r \in Runs |-> None]
  /\ spoiled' = (spoiled \/ \E r \in Runs : Active(r))
  /\ running' = [c \in Cores |-> Restarted(c)]
  /\ UNCHANGED <<disk, latest, overlapped>>

(* An administrator removes a binary; its state file stays.                *)
Remove(c) ==
  /\ target[c] # None
  /\ Trouble
  /\ target' = [target EXCEPT ![c] = None]
  /\ run' = [q \in Runs |-> Unlinked(c, q)]
  /\ UNCHANGED <<temp, recorded, world, overlapped, spoiled>>

Publish(c) ==
  /\ latest[c] < MaxRelease
  /\ latest' = [latest EXCEPT ![c] = @ + 1]
  /\ UNCHANGED <<disk, running, run, history>>

UpdateCore(r) ==
  \/ FetchRelease(r) \/ LeaveCurrent(r) \/ WouldUpdate(r) \/ StartUpdate(r)
  \/ Unreadable(r) \/ OpenTemp(r) \/ FinishCopy(r) \/ Replace(r)
  \/ NothingToReplace(r) \/ TruncateState(r) \/ WriteState(r)
Continue(r) == UpdateCore(r) \/ RestartService(r)
Begin(r) == \E line \in Lines[r] : Start(r, line)

Next ==
  \/ \E r \in Runs : Begin(r) \/ Continue(r) \/ Fail(r) \/ Kill(r)
  \/ \E c \in Cores : Remove(c) \/ Publish(c)
  \/ Boot

Spec == Init /\ [][Next]_vars

(* A process that is not killed goes on, and the timer elapses every day.  *)
Fairness ==
  /\ \A r \in Runs : WF_vars(Continue(r))
  /\ WF_vars(Begin(Timer))
FairSpec == Spec /\ Fairness

-----------------------------------------------------------------------------
(* Properties.                                                             *)

(* As long as runs do not overlap, installing is atomic: there is a whole  *)
(* binary or none at every moment, whatever was killed or failed before    *)
(* (install_binary).                                                       *)
SerialInstallIsAtomic ==
  ~overlapped => \A c \in Cores : target[c] = None \/ Intact(target[c])

(* What update_core takes for current is current: as long as runs do not   *)
(* overlap, a recorded tag is never ahead of the binary, so no run skips   *)
(* a release because of an earlier one that was cut short.                 *)
SerialTagIsInstalled ==
  ~overlapped =>
    \A c \in Cores :
      recorded[c] \notin {Empty, None} /\ target[c] # None =>
        \E v \in Release : Whole(target[c], v) /\ v >= recorded[c]

(* The core's binary is in place and its run has yet to restart it.        *)
RestartDue(r, c) ==
  /\ Active(r)
  /\ ~run[r].line.dryRun
  /\ \/ c \in run[r].changed
     \/ run[r].step \in {"record", "recording"} /\ Core(r) = c

(* A service runs what is installed, or a run that is under way will       *)
(* restart it, also when runs overlap, unless some run was stopped on its  *)
(* way or told not to restart (main: restart_services comes last).         *)
OldServiceIsRestarted ==
  ~spoiled =>
    \A c \in Cores :
      Intact(target[c]) /\ running[c] \notin {None, Installed(c)} =>
        \E r \in Runs : RestartDue(r, c)

(* Once the troubles and the releases are over, every core is brought to   *)
(* the latest release and stays there, if no run was stopped while it      *)
(* rewrote a state file: nothing repairs that (read_state, write_state).   *)
StateLost ==
  \E c \in Cores :
    recorded[c] = Empty /\ \A r \in Runs : ~(At(r, "recording") /\ Core(r) = c)
UpToDate == \A c \in Cores : Whole(target[c], latest[c])
EventuallyUpToDate == [](~overlapped /\ ~StateLost) => <>[]UpToDate

(* README.md:85 says the updater "installs matching Linux architecture     *)
(* binaries atomically", of runs by hand and by the timer at once too.     *)
InstallIsAtomic == \A c \in Cores : target[c] = None \/ Intact(target[c])
=============================================================================
