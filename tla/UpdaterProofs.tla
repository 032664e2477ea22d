--------------------------- MODULE UpdaterProofs ----------------------------
(***************************************************************************)
(* Theorems about Updater for any cores, any number of runs and any        *)
(* command lines, wherever runs fail or are killed.                        *)
(*                                                                         *)
(* The invariant has three parts.  LocalInv says what a run knows at each  *)
(* of its steps, and that a descriptor still open leads to a file which    *)
(* bears the run's release already.  SerialInv says who else touches a     *)
(* core while runs do not overlap: nobody.  ServiceInv strengthens         *)
(* OldServiceIsRestarted in two ways: a run counts only for the restarts   *)
(* it has still before it, and a binary that is not whole needs a restart  *)
(* as much as a whole one of another release.                              *)
(***************************************************************************)
EXTENDS Updater, TLAPS

USE UpdaterAssumption

Installing == {"download", "copying", "replace", "record", "recording"}
TagFetched == {"read"} \cup Installing

LocalInv(r) ==
  Active(r) =>
    /\ run[r].handle # "closed" <=> run[r].step = "copying"
    /\ run[r].step \in TagFetched =>
         run[r].tag \in Release /\ run[r].tag <= latest[Core(r)]
    /\ run[r].step \in Installing \cup {"restart"} => ~run[r].line.dryRun
    /\ ~spoiled => run[r].line.dryRun \/ run[r].line.restart
    /\ \A c \in run[r].changed : \E i \in DOMAIN run[r].line.cores : run[r].line.cores[i] = c
    /\ run[r].handle = "temp" =>
         temp[Core(r)] # None /\ run[r].tag \in temp[Core(r)].releases
    /\ run[r].handle = "target" =>
         target[Core(r)] # None /\ run[r].tag \in target[Core(r)].releases

RecordedInv(c) == recorded[c] \in Release => recorded[c] <= latest[c]

Alone == \A p, q \in Runs : Active(p) /\ Active(q) => p = q

(* What the only run under way relies on.                                  *)
AloneInv(r) ==
  Active(r) =>
    /\ run[r].handle \in {"closed", "temp"}
    /\ run[r].step \in TagFetched /\ recorded[Core(r)] \in Release =>
         recorded[Core(r)] <= run[r].tag
    /\ run[r].step = "copying" =>
         temp[Core(r)] = [releases |-> {run[r].tag}, writer |-> r]
    /\ run[r].step = "replace" => Whole(temp[Core(r)], run[r].tag)
    /\ run[r].step \in {"record", "recording"} /\ target[Core(r)] # None =>
         Whole(target[Core(r)], run[r].tag)

DiskInv(c) ==
  target[c] # None =>
    /\ Intact(target[c])
    /\ recorded[c] \in Release => \E v \in Release : Whole(target[c], v) /\ v >= recorded[c]

SerialInv ==
  ~overlapped =>
    Alone /\ (\A r \in Runs : AloneInv(r)) /\ (\A c \in Cores : DiskInv(c))

RestartAhead(r, c) ==
  /\ Active(r)
  /\ ~run[r].line.dryRun
  /\ \/ run[r].step # "restart" /\ c \in run[r].changed
     \/ run[r].step \in {"record", "recording"} /\ Core(r) = c
     \/ /\ run[r].step = "restart"
        /\ c \in run[r].changed
        /\ \E i \in DOMAIN run[r].line.cores : i >= run[r].at /\ run[r].line.cores[i] = c

NeedsRestart(c) ==
  target[c] # None /\ running[c] # None /\ ~Whole(target[c], running[c])

ServiceInv ==
  ~spoiled => \A c \in Cores : NeedsRestart(c) => \E r \in Runs : RestartAhead(r, c)

Inv ==
  /\ TypeOK
  /\ \A r \in Runs : LocalInv(r)
  /\ \A c \in Cores : RecordedInv(c)
  /\ SerialInv
  /\ ServiceInv

-----------------------------------------------------------------------------
(* Lemmas about types.                                                     *)

(* A run under way has a command line and a core on it.                    *)
LEMMA LocalsOf ==
  ASSUME TypeOK, NEW r \in Runs, Active(r)
  PROVE  /\ run[r] \in Locals
         /\ run[r].line \in CommandLine
         /\ run[r].line.cores \in Seq(Cores)
         /\ run[r].at \in DOMAIN run[r].line.cores
         /\ Core(r) \in Cores
         /\ run[r].changed \in SUBSET Cores
         /\ run[r].tag \in Release \cup {None}
<1>1. /\ run[r] \in Locals
      /\ run[r].at \in DOMAIN run[r].line.cores
  BY DEF TypeOK, Active
<1>2. run[r].line \in CommandLine /\ run[r].changed \in SUBSET Cores
      /\ run[r].tag \in Release \cup {None}
  BY <1>1 DEF Locals
<1>3. run[r].line.cores \in Seq(Cores)
  BY <1>2 DEF CommandLine
<1> QED BY <1>1, <1>2, <1>3 DEF Core

(* What a step must see to for the runs that do not take it.               *)
LEMMA OtherRun ==
  ASSUME NEW q \in Runs, LocalInv(q), run'[q] = run[q], spoiled => spoiled',
         Active(q) => latest'[Core(q)] = latest[Core(q)],
         Active(q) /\ run[q].handle = "temp" =>
           temp'[Core(q)] # None /\ run[q].tag \in temp'[Core(q)].releases,
         Active(q) /\ run[q].handle = "target" =>
           target'[Core(q)] # None /\ run[q].tag \in target'[Core(q)].releases
  PROVE  LocalInv(q)'
<1>1. Core(q)' = Core(q) /\ Active(q)' = Active(q)
  BY DEF Core, Active
<1> QED BY <1>1 DEF LocalInv

(* A step of a run that is alone need see to that run and to the files.    *)
LEMMA OneRun ==
  ASSUME Inv, NEW r \in Runs, Active(r), overlapped' = overlapped,
         \A q \in Runs \ {r} : run'[q] # None => run[q] # None,
         SerialInv /\ ~overlapped => AloneInv(r)' /\ \A c \in Cores : DiskInv(c)'
  PROVE  SerialInv'
<1> SUFFICES ASSUME ~overlapped PROVE SerialInv'
  BY DEF SerialInv
<1>1. \A q \in Runs \ {r} : ~Active(q)
  BY DEF Inv, SerialInv, Alone
<1>2. \A q \in Runs \ {r} : ~Active(q)'
  BY <1>1 DEF Active
<1> QED BY <1>2 DEF SerialInv, Inv, Alone, AloneInv

LEMMA SameRestarts ==
  ASSUME NEW q \in Runs, run'[q] = run[q], NEW c \in Cores, RestartAhead(q, c)
  PROVE  RestartAhead(q, c)'
  BY DEF RestartAhead, Active, Core

(* A step that makes no restart necessary but its own, and takes none off  *)
(* the list that is still necessary, keeps ServiceInv.                     *)
LEMMA RestartsKept ==
  ASSUME Inv, NEW r \in Runs, spoiled => spoiled',
         \A q \in Runs \ {r} : \A c \in Cores : RestartAhead(q, c) => RestartAhead(q, c)',
         ~spoiled' => \A c \in Cores : NeedsRestart(c)' =>
           \/ RestartAhead(r, c)'
           \/ NeedsRestart(c) /\ ~RestartAhead(r, c)
  PROVE  ServiceInv'
<1> SUFFICES ASSUME NEW c \in Cores, ~spoiled', NeedsRestart(c)', ~RestartAhead(r, c)'
             PROVE  \E q \in Runs : RestartAhead(q, c)'
  BY DEF ServiceInv
<1>1. PICK q \in Runs : RestartAhead(q, c)
  BY DEF Inv, ServiceInv
<1> QED BY <1>1

(* A service is never started on anything but a whole binary.              *)
LEMMA RestartedIsInstalled ==
  ASSUME NEW c \in Cores, Restarted(c) # None
  PROVE  Whole(target[c], Restarted(c))
<1>1. Restarted(c) = Installed(c) /\ Intact(target[c])
  BY DEF Restarted, Installed
<1>2. \E v \in Release : Whole(target[c], v)
  BY <1>1 DEF Intact
<1> QED BY <1>1, <1>2 DEF Installed

LEMMA RestartedTyped ==
  ASSUME TypeOK, NEW c \in Cores
  PROVE  Restarted(c) \in Release \cup {None}
<1>1. CASE Intact(target[c])
  <2>1. (CHOOSE v \in Release : Whole(target[c], v)) \in Release
    BY <1>1 DEF Intact
  <2> QED BY <1>1, <2>1 DEF Restarted, Installed
<1>2. CASE ~Intact(target[c])
  BY <1>2 DEF Restarted, Installed
<1> QED BY <1>1, <1>2

(* A run whose open file is renamed or removed: only its descriptor leads  *)
(* elsewhere.                                                              *)
LEMMA Redirected ==
  ASSUME TypeOK, NEW q \in Runs, Active(q),
         NEW h \in {"closed", "temp", "target", "unlinked"},
         run'[q] = [run[q] EXCEPT !.handle = h]
  PROVE  /\ run'[q] \in Locals /\ run'[q].handle = h
         /\ run'[q].step = run[q].step /\ run'[q].line = run[q].line
         /\ run'[q].at = run[q].at /\ run'[q].tag = run[q].tag
         /\ run'[q].changed = run[q].changed
         /\ Active(q)' /\ Core(q)' = Core(q)
         /\ \A c \in Cores : RestartAhead(q, c) => RestartAhead(q, c)'
<1>1. run[q] \in Locals
  BY LocalsOf
<1>2. /\ run'[q] \in Locals /\ run'[q].handle = h
      /\ run'[q].step = run[q].step /\ run'[q].line = run[q].line
      /\ run'[q].at = run[q].at /\ run'[q].tag = run[q].tag
      /\ run'[q].changed = run[q].changed
  BY <1>1 DEF Locals
<1>3. Active(q)' /\ Core(q)' = Core(q)
  BY <1>2 DEF Active, Core
<1> QED BY <1>2, <1>3 DEF RestartAhead

(* A run that stops short of its end.                                      *)
LEMMA StopInv ==
  ASSUME Inv, NEW r \in Runs, Active(r), End(r), spoiled' = TRUE,
         UNCHANGED <<disk, world, overlapped>>, trouble' \in 0 .. MaxTrouble
  PROVE  Inv'
<1>1. TypeOK /\ UNCHANGED <<target, temp, recorded, latest, running, overlapped>>
  BY DEF Inv, disk, world
<1>2. /\ run'[r] = None /\ \A q \in Runs \ {r} : run'[q] = run[q]
      /\ run' \in [Runs -> Locals \cup {None}]
  BY <1>1 DEF End, TypeOK
<1>3. TypeOK'
  BY <1>1, <1>2 DEF TypeOK
<1>4. ASSUME NEW q \in Runs PROVE LocalInv(q)'
  <2>1. CASE q = r
    BY <1>2, <2>1 DEF LocalInv, Active
  <2>2. CASE q # r
    BY <1>1, <1>2, <2>2, OtherRun DEF Inv, LocalInv
  <2> QED BY <2>1, <2>2
<1>5. ASSUME NEW d \in Cores PROVE RecordedInv(d)'
  BY <1>1 DEF Inv, RecordedInv
<1>6. SerialInv'
  <2>1. SerialInv /\ ~overlapped => AloneInv(r)' /\ \A d \in Cores : DiskInv(d)'
    BY <1>1, <1>2 DEF SerialInv, AloneInv, Active, DiskInv
  <2> QED BY <1>1, <1>2, <2>1, OneRun
<1>7. ServiceInv'
  BY DEF ServiceInv
<1> QED BY <1>3, <1>4, <1>5, <1>6, <1>7 DEF Inv

(* A step of a run between two others of it, in which it may record a tag, *)
(* but leaves the binaries and the services alone.                         *)
LEMMA LocalStepInv ==
  ASSUME Inv, NEW r \in Runs, Active(r),
         \A q \in Runs \ {r} : run'[q] = run[q],
         run' \in [Runs -> Locals \cup {None}],
         Active(r)' => run'[r].at \in DOMAIN run'[r].line.cores,
         UNCHANGED <<target, temp, world, history>>,
         recorded' \in [Cores -> Release \cup {Empty, None}],
         LocalInv(r)',
         \A d \in Cores : RecordedInv(d)',
         SerialInv /\ ~overlapped => AloneInv(r)' /\ \A d \in Cores : DiskInv(d)',
         ~spoiled => \A d \in Cores : RestartAhead(r, d) => RestartAhead(r, d)'
  PROVE  Inv'
<1>1. TypeOK /\ UNCHANGED <<target, temp, latest, running, overlapped, spoiled, trouble>>
  BY DEF Inv, world, history
<1>2. TypeOK'
  BY <1>1 DEF TypeOK, Active
<1>3. ASSUME NEW q \in Runs PROVE LocalInv(q)'
  <2>1. CASE q # r
    BY <1>1, <2>1, OtherRun DEF Inv, LocalInv
  <2> QED BY <2>1
<1>4. SerialInv'
  BY <1>1, OneRun
<1>5. ServiceInv'
  <2>1. \A d \in Cores : NeedsRestart(d)' <=> NeedsRestart(d)
    BY <1>1 DEF NeedsRestart
  <2> QED BY <1>1, <2>1, RestartsKept, SameRestarts
<1> QED BY <1>2, <1>3, <1>4, <1>5 DEF Inv

(* On to the next core, or to the services, or to the end.                 *)
LEMMA Proceeds ==
  ASSUME TypeOK, NEW r \in Runs, Active(r), NEW cores \in SUBSET Cores, Proceed(r, cores)
  PROVE  /\ \A q \in Runs \ {r} : run'[q] = run[q]
         /\ run' \in [Runs -> Locals \cup {None}]
         /\ \/ /\ run'[r] = None
               /\ cores = {} \/ ~run[r].line.restart \/ run[r].line.dryRun
            \/ /\ run'[r] \in Locals
               /\ run'[r].at \in DOMAIN run'[r].line.cores
               /\ run'[r].line = run[r].line
               /\ run'[r].handle = run[r].handle
               /\ run'[r].changed = cores
               /\ \/ run'[r].step = "fetch"
                  \/ /\ run'[r].step = "restart"
                     /\ run'[r].at = 1
                     /\ ~run[r].line.dryRun
<1>1. /\ run[r] \in Locals /\ run[r].line.cores \in Seq(Cores)
      /\ run[r].at \in DOMAIN run[r].line.cores
      /\ run \in [Runs -> Locals \cup {None}]
      /\ run[r].line \in CommandLine
  BY LocalsOf DEF TypeOK
<1>2. CASE HasNext(r)
  <2> DEFINE n == run[r].at + 1
             x == [run[r] EXCEPT !.step = "fetch", !.at = n, !.changed = cores]
  <2>1. n \in DOMAIN run[r].line.cores /\ n \in Nat \ {0}
    BY <1>1, <1>2 DEF HasNext
  <2>2. run' = [run EXCEPT ![r] = x]
    BY <1>1, <1>2 DEF Proceed
  <2> HIDE DEF n
  <2>3. /\ x \in Locals /\ x.at = n /\ x.line = run[r].line
        /\ x.handle = run[r].handle /\ x.changed = cores /\ x.step = "fetch"
    BY <1>1, <2>1 DEF Locals, Step
  <2> HIDE DEF x
  <2>4. run'[r] = x /\ (\A q \in Runs \ {r} : run'[q] = run[q])
        /\ run' \in [Runs -> Locals \cup {None}]
    BY <1>1, <2>2, <2>3
  <2> QED BY <2>1, <2>3, <2>4
<1>3. CASE ~HasNext(r) /\ cores # {} /\ run[r].line.restart /\ ~run[r].line.dryRun
  <2> DEFINE x == [run[r] EXCEPT !.step = "restart", !.at = 1, !.changed = cores]
  <2>1. 1 \in DOMAIN run[r].line.cores /\ 1 \in Nat \ {0}
    BY <1>1
  <2>2. run' = [run EXCEPT ![r] = x]
    BY <1>1, <1>3 DEF Proceed
  <2>3. /\ x \in Locals /\ x.at = 1 /\ x.line = run[r].line
        /\ x.handle = run[r].handle /\ x.changed = cores /\ x.step = "restart"
    BY <1>1, <2>1 DEF Locals, Step
  <2> HIDE DEF x
  <2>4. run'[r] = x /\ (\A q \in Runs \ {r} : run'[q] = run[q])
        /\ run' \in [Runs -> Locals \cup {None}]
    BY <1>1, <2>2, <2>3
  <2> QED BY <1>3, <2>1, <2>3, <2>4
<1>4. CASE ~HasNext(r) /\ ~(cores # {} /\ run[r].line.restart /\ ~run[r].line.dryRun)
  <2>1. run' = [run EXCEPT ![r] = None]
    BY <1>4 DEF Proceed, End
  <2> QED BY <1>1, <1>4, <2>1
<1> QED BY <1>2, <1>3, <1>4

LEMMA ProceedInv ==
  ASSUME Inv, NEW r \in Runs, Active(r), NEW cores \in SUBSET Cores, Proceed(r, cores),
         run[r].handle = "closed",
         \A c \in cores : \E i \in DOMAIN run[r].line.cores : run[r].line.cores[i] = c,
         UNCHANGED <<target, temp, world, history>>,
         recorded' \in [Cores -> Release \cup {Empty, None}],
         \A d \in Cores : RecordedInv(d)',
         SerialInv /\ ~overlapped => \A d \in Cores : DiskInv(d)',
         \A d \in Cores : RestartAhead(r, d) => d \in cores
  PROVE  Inv'
<1>1. TypeOK /\ UNCHANGED <<latest, overlapped, spoiled, trouble>> /\ LocalInv(r)
  BY DEF Inv, world, history
<1>2. \/ /\ run'[r] = None
         /\ cores = {} \/ ~run[r].line.restart \/ run[r].line.dryRun
      \/ /\ run'[r] \in Locals
         /\ run'[r].at \in DOMAIN run'[r].line.cores
         /\ run'[r].line = run[r].line
         /\ run'[r].handle = "closed"
         /\ run'[r].changed = cores
         /\ \/ run'[r].step = "fetch"
            \/ /\ run'[r].step = "restart"
               /\ run'[r].at = 1
               /\ ~run[r].line.dryRun
  BY <1>1, Proceeds
<1>3. LocalInv(r)'
  BY <1>1, <1>2 DEF LocalInv, Active, TagFetched, Installing
<1>4. AloneInv(r)'
  BY <1>2 DEF AloneInv, Active, TagFetched, Installing
<1>5. ASSUME ~spoiled, NEW d \in Cores, RestartAhead(r, d) PROVE RestartAhead(r, d)'
  <2>1. d \in cores /\ ~run[r].line.dryRun /\ run[r].line.restart
    BY <1>1, <1>5 DEF RestartAhead, LocalInv
  <2>2. /\ run'[r] \in Locals
        /\ run'[r].line = run[r].line
        /\ run'[r].changed = cores
        /\ run'[r].step = "fetch" \/ (run'[r].step = "restart" /\ run'[r].at = 1)
    <3>1. ~(run'[r] = None /\ (cores = {} \/ ~run[r].line.restart \/ run[r].line.dryRun))
      BY <2>1
    <3> QED BY <1>2, <3>1
  <2>3. Active(r)'
    BY <2>2 DEF Active
  <2>4. PICK i \in DOMAIN run[r].line.cores : run[r].line.cores[i] = d
    BY <2>1
  <2>5. i >= 1
    BY <1>1, <2>4, LocalsOf
  <2> QED BY <2>1, <2>2, <2>3, <2>4, <2>5 DEF RestartAhead
<1>6. /\ \A q \in Runs \ {r} : run'[q] = run[q]
      /\ run' \in [Runs -> Locals \cup {None}]
      /\ Active(r)' => run'[r].at \in DOMAIN run'[r].line.cores
  BY <1>1, <1>2, Proceeds DEF Active
<1> QED BY <1>3, <1>4, <1>5, <1>6, LocalStepInv

LEMMA Goes ==
  ASSUME TypeOK, NEW r \in Runs, Active(r), NEW step \in Step, Goto(r, step)
  PROVE  /\ \A q \in Runs \ {r} : run'[q] = run[q]
         /\ run' \in [Runs -> Locals \cup {None}]
         /\ run'[r] \in Locals /\ run'[r].step = step
         /\ run'[r].line = run[r].line /\ run'[r].at = run[r].at
         /\ run'[r].tag = run[r].tag /\ run'[r].handle = run[r].handle
         /\ run'[r].changed = run[r].changed
         /\ Active(r)' /\ Core(r)' = Core(r)
<1> DEFINE x == [run[r] EXCEPT !.step = step]
<1>1. run[r] \in Locals /\ run \in [Runs -> Locals \cup {None}]
  BY LocalsOf DEF TypeOK
<1>2. /\ x \in Locals /\ x.step = step /\ x.line = run[r].line /\ x.at = run[r].at
      /\ x.tag = run[r].tag /\ x.handle = run[r].handle /\ x.changed = run[r].changed
  BY <1>1 DEF Locals
<1>3. run' = [run EXCEPT ![r] = x]
  BY DEF Goto
<1> HIDE DEF x
<1>4. run'[r] = x /\ (\A q \in Runs \ {r} : run'[q] = run[q])
      /\ run' \in [Runs -> Locals \cup {None}]
  BY <1>1, <1>2, <1>3
<1> QED BY <1>2, <1>4 DEF Active, Core

-----------------------------------------------------------------------------
(* One lemma per action.                                                   *)

LEMMA FetchReleaseInv ==
  ASSUME Inv, NEW r \in Runs, FetchRelease(r)
  PROVE  Inv'
<1> DEFINE c == Core(r)
           x == [run[r] EXCEPT !.step = "read", !.tag = latest[c]]
<1>1. /\ Active(r) /\ run[r].step = "fetch" /\ TypeOK /\ LocalInv(r)
      /\ UNCHANGED <<target, temp, recorded, world, history>>
      /\ UNCHANGED <<latest, running, overlapped, spoiled>>
      /\ run' = [run EXCEPT ![r] = x]
  BY DEF Inv, FetchRelease, At, disk, world, history
<1>2. /\ run[r] \in Locals /\ run[r].at \in DOMAIN run[r].line.cores /\ c \in Cores
      /\ latest[c] \in Release
  BY <1>1, LocalsOf DEF TypeOK
<1>3. /\ x \in Locals /\ x.at = run[r].at /\ x.line = run[r].line /\ x.changed = run[r].changed
      /\ x.tag = latest[c] /\ x.step = "read" /\ x.handle = run[r].handle
  BY <1>2 DEF Locals, Step
<1> HIDE DEF x
<1>4. /\ run'[r] = x /\ \A q \in Runs \ {r} : run'[q] = run[q]
      /\ run' \in [Runs -> Locals \cup {None}]
  BY <1>1, <1>2, <1>3 DEF TypeOK
<1>5. Core(r)' = c /\ Active(r)'
  BY <1>2, <1>3, <1>4 DEF Core, Active
<1>6. latest[c] <= latest[c]
  BY <1>2 DEF Release
<1>7. LocalInv(r)'
  BY <1>1, <1>2, <1>3, <1>4, <1>5, <1>6 DEF LocalInv, TagFetched, Installing
<1>8. \A d \in Cores : RecordedInv(d)'
  BY <1>1 DEF Inv, RecordedInv
<1>9. SerialInv /\ ~overlapped => AloneInv(r)' /\ \A d \in Cores : DiskInv(d)'
  BY <1>1, <1>2, <1>3, <1>4, <1>5
     DEF Inv, SerialInv, AloneInv, DiskInv, RecordedInv, LocalInv
<1>10. \A d \in Cores : RestartAhead(r, d) => RestartAhead(r, d)'
  BY <1>1, <1>3, <1>4, <1>5 DEF RestartAhead
<1>11. recorded' \in [Cores -> Release \cup {Empty, None}]
       /\ run'[r].at \in DOMAIN run'[r].line.cores
  BY <1>1, <1>2, <1>3, <1>4 DEF TypeOK
<1> QED BY <1>1, <1>4, <1>7, <1>8, <1>9, <1>10, <1>11, LocalStepInv

LEMMA LeaveCurrentInv ==
  ASSUME Inv, NEW r \in Runs, LeaveCurrent(r)
  PROVE  Inv'
<1>1. /\ Active(r) /\ run[r].step = "read" /\ TypeOK /\ LocalInv(r)
      /\ UNCHANGED <<target, temp, recorded, world, history>>
      /\ Proceed(r, run[r].changed)
  BY DEF Inv, LeaveCurrent, Readable, At, disk
<1>2. /\ run[r].changed \in SUBSET Cores /\ run[r].handle = "closed"
      /\ recorded' \in [Cores -> Release \cup {Empty, None}]
  BY <1>1, LocalsOf DEF LocalInv, TypeOK
<1>3. \A c \in run[r].changed : \E i \in DOMAIN run[r].line.cores : run[r].line.cores[i] = c
  BY <1>1 DEF LocalInv
<1>4. \A d \in Cores : RecordedInv(d)'
  BY <1>1 DEF Inv, RecordedInv, world
<1>5. SerialInv /\ ~overlapped => \A d \in Cores : DiskInv(d)'
  BY <1>1 DEF SerialInv, DiskInv
<1>6. \A d \in Cores : RestartAhead(r, d) => d \in run[r].changed
  BY <1>1 DEF RestartAhead
<1> QED BY <1>1, <1>2, <1>3, <1>4, <1>5, <1>6, ProceedInv

LEMMA WouldUpdateInv ==
  ASSUME Inv, NEW r \in Runs, WouldUpdate(r)
  PROVE  Inv'
<1> DEFINE cores == run[r].changed \cup {Core(r)}
<1>1. /\ Active(r) /\ run[r].step = "read" /\ TypeOK /\ LocalInv(r) /\ run[r].line.dryRun
      /\ UNCHANGED <<target, temp, recorded, world, history>>
      /\ Proceed(r, cores)
  BY DEF Inv, WouldUpdate, Readable, At, disk
<1>2. /\ cores \in SUBSET Cores /\ run[r].handle = "closed"
      /\ run[r].at \in DOMAIN run[r].line.cores
      /\ recorded' \in [Cores -> Release \cup {Empty, None}]
  BY <1>1, LocalsOf DEF LocalInv, TypeOK
<1>3. \A c \in cores : \E i \in DOMAIN run[r].line.cores : run[r].line.cores[i] = c
  BY <1>1, <1>2 DEF LocalInv, Core
<1>4. \A d \in Cores : RecordedInv(d)'
  BY <1>1 DEF Inv, RecordedInv, world
<1>5. SerialInv /\ ~overlapped => \A d \in Cores : DiskInv(d)'
  BY <1>1 DEF SerialInv, DiskInv
<1>6. \A d \in Cores : RestartAhead(r, d) => d \in cores
  BY <1>1 DEF RestartAhead
<1> HIDE DEF cores
<1> QED BY <1>1, <1>2, <1>3, <1>4, <1>5, <1>6, ProceedInv

LEMMA StartUpdateInv ==
  ASSUME Inv, NEW r \in Runs, StartUpdate(r)
  PROVE  Inv'
<1>1. /\ Active(r) /\ run[r].step = "read" /\ TypeOK /\ LocalInv(r) /\ ~run[r].line.dryRun
      /\ UNCHANGED <<target, temp, recorded, world, history>>
      /\ UNCHANGED <<latest, overlapped, spoiled>>
      /\ Goto(r, "download") /\ "download" \in Step
  BY DEF Inv, StartUpdate, Readable, At, disk, world, history, Step
<1>2. /\ \A q \in Runs \ {r} : run'[q] = run[q]
      /\ run' \in [Runs -> Locals \cup {None}]
      /\ run'[r].step = "download"
      /\ run'[r].line = run[r].line /\ run'[r].at = run[r].at
      /\ run'[r].tag = run[r].tag /\ run'[r].handle = run[r].handle
      /\ run'[r].changed = run[r].changed
      /\ Active(r)' /\ Core(r)' = Core(r)
  BY <1>1, Goes
<1>3. LocalInv(r)'
  BY <1>1, <1>2 DEF LocalInv, TagFetched, Installing
<1>4. \A d \in Cores : RecordedInv(d)'
  BY <1>1 DEF Inv, RecordedInv
<1>5. SerialInv /\ ~overlapped => AloneInv(r)' /\ \A d \in Cores : DiskInv(d)'
  BY <1>1, <1>2 DEF SerialInv, AloneInv, DiskInv, TagFetched
<1>6. \A d \in Cores : RestartAhead(r, d) => RestartAhead(r, d)'
  BY <1>1, <1>2 DEF RestartAhead
<1>7. /\ recorded' \in [Cores -> Release \cup {Empty, None}]
      /\ run'[r].at \in DOMAIN run'[r].line.cores
  BY <1>1, <1>2, LocalsOf DEF TypeOK
<1> QED BY <1>1, <1>2, <1>3, <1>4, <1>5, <1>6, <1>7, LocalStepInv

LEMMA TruncateStateInv ==
  ASSUME Inv, NEW r \in Runs, TruncateState(r)
  PROVE  Inv'
<1> DEFINE c == Core(r)
<1>1. /\ Active(r) /\ run[r].step = "record" /\ TypeOK /\ LocalInv(r)
      /\ UNCHANGED <<target, temp, world, history>>
      /\ UNCHANGED <<latest, overlapped, spoiled>>
      /\ recorded' = [recorded EXCEPT ![c] = Empty]
      /\ Goto(r, "recording") /\ "recording" \in Step
  BY DEF Inv, TruncateState, At, world, history, Step
<1>2. /\ \A q \in Runs \ {r} : run'[q] = run[q]
      /\ run' \in [Runs -> Locals \cup {None}]
      /\ run'[r].step = "recording"
      /\ run'[r].line = run[r].line /\ run'[r].at = run[r].at
      /\ run'[r].tag = run[r].tag /\ run'[r].handle = run[r].handle
      /\ run'[r].changed = run[r].changed
      /\ Active(r)' /\ Core(r)' = c
  BY <1>1, Goes
<1>3. /\ recorded' \in [Cores -> Release \cup {Empty, None}]
      /\ c \in Cores /\ recorded'[c] = Empty
      /\ \A d \in Cores \ {c} : recorded'[d] = recorded[d]
  BY <1>1, LocalsOf DEF TypeOK
<1>4. Empty \notin Release
  BY DEF Empty, Release
<1>5. LocalInv(r)'
  BY <1>1, <1>2 DEF LocalInv, TagFetched, Installing
<1>6. \A d \in Cores : RecordedInv(d)'
  BY <1>1, <1>3, <1>4 DEF Inv, RecordedInv
<1>7. SerialInv /\ ~overlapped => AloneInv(r)' /\ \A d \in Cores : DiskInv(d)'
  <2> SUFFICES ASSUME SerialInv, ~overlapped
               PROVE  AloneInv(r)' /\ \A d \in Cores : DiskInv(d)'
    OBVIOUS
  <2>1. AloneInv(r)'
    BY <1>1, <1>2, <1>3, <1>4, ZenonT(40) DEF SerialInv, AloneInv
  <2>2. ASSUME NEW d \in Cores PROVE DiskInv(d)'
    BY <1>1, <1>3, <1>4 DEF SerialInv, DiskInv
  <2> QED BY <2>1, <2>2
<1>8. \A d \in Cores : RestartAhead(r, d) => RestartAhead(r, d)'
  BY <1>1, <1>2 DEF RestartAhead
<1>9. run'[r].at \in DOMAIN run'[r].line.cores
  BY <1>1, <1>2, LocalsOf
<1> QED BY <1>1, <1>2, <1>3, <1>5, <1>6, <1>7, <1>8, <1>9, LocalStepInv

LEMMA WriteStateInv ==
  ASSUME Inv, NEW r \in Runs, WriteState(r)
  PROVE  Inv'
<1> DEFINE c == Core(r)
           cores == run[r].changed \cup {c}
<1>1. /\ Active(r) /\ run[r].step = "recording" /\ TypeOK /\ LocalInv(r)
      /\ UNCHANGED <<target, temp, world, history>> /\ latest' = latest
      /\ recorded' = [recorded EXCEPT ![c] = run[r].tag]
      /\ Proceed(r, cores)
  BY DEF Inv, WriteState, At, world
<1>2. /\ cores \in SUBSET Cores /\ run[r].handle = "closed"
      /\ run[r].at \in DOMAIN run[r].line.cores
      /\ c \in Cores /\ run[r].tag \in Release /\ run[r].tag <= latest[c]
  BY <1>1, LocalsOf DEF LocalInv, TypeOK, TagFetched, Installing
<1>3. /\ recorded' \in [Cores -> Release \cup {Empty, None}]
      /\ recorded'[c] = run[r].tag
      /\ \A d \in Cores \ {c} : recorded'[d] = recorded[d]
  BY <1>1, <1>2 DEF TypeOK
<1>4. \A d \in cores : \E i \in DOMAIN run[r].line.cores : run[r].line.cores[i] = d
  BY <1>1, <1>2 DEF LocalInv, Core
<1>5. \A d \in Cores : RecordedInv(d)'
  BY <1>1, <1>2, <1>3 DEF Inv, RecordedInv
<1>6. SerialInv /\ ~overlapped => \A d \in Cores : DiskInv(d)'
  <2>1. SUFFICES ASSUME SerialInv, ~overlapped, NEW d \in Cores, target[d] # None
                 PROVE  DiskInv(d)'
    BY <1>1 DEF DiskInv
  <2>2. CASE d = c
    <3>1. Whole(target[c], run[r].tag) /\ Intact(target[c])
      BY <1>1, <2>1, <2>2 DEF SerialInv, AloneInv, DiskInv
    <3>2. run[r].tag >= recorded'[c]
      BY <1>2, <1>3 DEF Release
    <3> QED BY <1>1, <1>2, <2>2, <3>1, <3>2 DEF DiskInv
  <2>3. CASE d # c
    BY <1>1, <1>3, <2>1, <2>3 DEF SerialInv, DiskInv
  <2> QED BY <2>2, <2>3
<1>7. \A d \in Cores : RestartAhead(r, d) => d \in cores
  BY <1>1 DEF RestartAhead
<1> HIDE DEF cores
<1> QED BY <1>1, <1>2, <1>3, <1>4, <1>5, <1>6, <1>7, ProceedInv

LEMMA UnreadableInv ==
  ASSUME Inv, NEW r \in Runs, Unreadable(r) \/ NothingToReplace(r) PROVE Inv'
<1>1. /\ Active(r) /\ End(r) /\ spoiled' = TRUE
      /\ UNCHANGED <<disk, world, overlapped, trouble>>
  BY DEF Unreadable, NothingToReplace, At, Raise
<1>2. trouble' \in 0 .. MaxTrouble
  BY <1>1 DEF Inv, TypeOK
<1> QED BY <1>1, <1>2, StopInv

LEMMA FailInv == ASSUME Inv, NEW r \in Runs, Fail(r) \/ Kill(r) PROVE Inv'
<1>1. /\ Active(r) /\ End(r) /\ spoiled' = TRUE
      /\ UNCHANGED <<disk, world, overlapped>> /\ Trouble
  BY DEF Fail, Kill, Raise
<1>2. trouble' \in 0 .. MaxTrouble
  BY <1>1 DEF Inv, TypeOK, Trouble
<1> QED BY <1>1, <1>2, StopInv

LEMMA RestartServiceInv ==
  ASSUME Inv, NEW r \in Runs, RestartService(r)
  PROVE  Inv'
<1> DEFINE c == Core(r)
           n == run[r].at + 1
           x == [run[r] EXCEPT !.at = n]
<1>1. /\ Active(r) /\ run[r].step = "restart" /\ TypeOK /\ LocalInv(r)
      /\ UNCHANGED <<target, temp, recorded, latest, overlapped, spoiled, trouble>>
  BY DEF Inv, RestartService, At, disk, history
<1>2. /\ run[r] \in Locals /\ run[r].at \in DOMAIN run[r].line.cores /\ c \in Cores
      /\ run[r].line.cores \in Seq(Cores) /\ run \in [Runs -> Locals \cup {None}]
  BY <1>1, LocalsOf DEF TypeOK
<1>3. n \in Nat \ {0} /\ (HasNext(r) => n \in DOMAIN run[r].line.cores)
  BY <1>2 DEF HasNext
<1>4. run' = [run EXCEPT ![r] = IF HasNext(r) THEN x ELSE None]
  BY <1>2 DEF RestartService, End
<1>5. /\ x \in Locals /\ x.at = n /\ x.line = run[r].line
      /\ x.handle = run[r].handle /\ x.changed = run[r].changed /\ x.step = "restart"
  <2> HIDE DEF n
  <2> QED BY <1>1, <1>2, <1>3 DEF Locals, Step
<1> HIDE DEF x
<1>6. /\ run'[r] = (IF HasNext(r) THEN x ELSE None)
      /\ \A q \in Runs \ {r} : run'[q] = run[q]
      /\ run' \in [Runs -> Locals \cup {None}]
  BY <1>2, <1>4, <1>5
<1>7. running' \in [Cores -> Release \cup {None}]
      /\ running'[c] = (IF c \in run[r].changed THEN Restarted(c) ELSE running[c])
      /\ \A d \in Cores \ {c} : running'[d] = running[d]
  <2>1. Restarted(c) \in Release \cup {None}
    BY <1>1, <1>2, RestartedTyped
  <2> QED BY <1>1, <1>2, <2>1 DEF RestartService, TypeOK
<1>8. TypeOK'
  BY <1>1, <1>3, <1>5, <1>6, <1>7 DEF TypeOK
<1>9. ASSUME NEW q \in Runs PROVE LocalInv(q)'
  <2>1. LocalInv(r)'
    BY <1>1, <1>5, <1>6 DEF LocalInv, Active, TagFetched, Installing
  <2>2. CASE q # r
    BY <1>1, <1>6, <2>2, OtherRun DEF Inv, LocalInv
  <2> QED BY <2>1, <2>2
<1>10. ASSUME NEW d \in Cores PROVE RecordedInv(d)'
  BY <1>1 DEF Inv, RecordedInv
<1>11. SerialInv'
  <2>1. SerialInv /\ ~overlapped => AloneInv(r)' /\ \A d \in Cores : DiskInv(d)'
    BY <1>1, <1>5, <1>6
       DEF SerialInv, AloneInv, DiskInv, Active, TagFetched, Installing
  <2> QED BY <1>1, <1>6, <2>1, OneRun
<1>12. ServiceInv'
  <2>1. ASSUME NEW d \in Cores, NeedsRestart(d)'
        PROVE  RestartAhead(r, d)' \/ (NeedsRestart(d) /\ ~RestartAhead(r, d))
    <3>1. CASE d = c /\ c \in run[r].changed
      BY <1>1, <1>7, <2>1, <3>1, RestartedIsInstalled DEF NeedsRestart, Whole
    <3>2. CASE d = c /\ c \notin run[r].changed
      BY <1>1, <1>7, <2>1, <3>2 DEF NeedsRestart, RestartAhead, Whole
    <3>3. CASE d # c
      <4>1. NeedsRestart(d)
        BY <1>1, <1>7, <2>1, <3>3 DEF NeedsRestart
      <4>2. ASSUME RestartAhead(r, d) PROVE RestartAhead(r, d)'
        <5>1. PICK i \in DOMAIN run[r].line.cores : i >= run[r].at /\ run[r].line.cores[i] = d
          BY <1>1, <4>2 DEF RestartAhead
        <5>2. i >= n /\ HasNext(r)
          BY <1>2, <3>3, <5>1 DEF Core, HasNext
        <5>3. run'[r] = x /\ Active(r)'
          BY <1>5, <1>6, <5>2 DEF Active
        <5>4. ~run[r].line.dryRun /\ d \in run[r].changed
          BY <1>1, <4>2 DEF RestartAhead
        <5> QED BY <1>5, <5>1, <5>2, <5>3, <5>4 DEF RestartAhead
      <4> QED BY <4>1, <4>2
    <3> QED BY <3>1, <3>2, <3>3
  <2> QED BY <1>1, <1>6, <2>1, RestartsKept, SameRestarts
<1> QED BY <1>8, <1>9, <1>10, <1>11, <1>12 DEF Inv

(* The last bytes change neither the releases in a file nor a whole file.  *)
LEMMA WrittenFile ==
  ASSUME TypeOK, NEW r \in Runs, NEW file \in File \cup {None}, NEW name,
         run[r].handle = name => file # None /\ run[r].tag \in file.releases
  PROVE  /\ Written(r, file, name) \in File \cup {None}
         /\ Written(r, file, name) # None <=> file # None
         /\ file # None => Written(r, file, name).releases = file.releases
         /\ \A v : Whole(file, v) => Whole(Written(r, file, name), v)
<1>1. CASE run[r].handle # name
  BY <1>1 DEF Written
<1>2. CASE run[r].handle = name
  <2> DEFINE w == IF file.writer = r THEN None ELSE file.writer
  <2>1. file \in File /\ file.releases \cup {run[r].tag} = file.releases
    BY <1>2
  <2>2. Written(r, file, name) = [releases |-> file.releases, writer |-> w]
    BY <1>2, <2>1 DEF Written
  <2>3. w \in Runs \cup {None}
    BY <2>1 DEF File
  <2>4. Written(r, file, name) \in File /\ Written(r, file, name).releases = file.releases
    BY <2>1, <2>2, <2>3 DEF File
  <2>5. ASSUME NEW v, Whole(file, v) PROVE Whole(Written(r, file, name), v)
    <3>1. file.releases = {v} /\ file.writer = None
      BY <2>5 DEF Whole
    <3> QED BY <2>2, <3>1 DEF Whole
  <2> QED BY <1>2, <2>4, <2>5
<1> QED BY <1>1, <1>2

LEMMA FinishCopyInv ==
  ASSUME Inv, NEW r \in Runs, FinishCopy(r)
  PROVE  Inv'
<1> DEFINE c == Core(r)
           x == [run[r] EXCEPT !.step = "replace", !.handle = "closed"]
           u == Written(r, temp[c], "temp")
           w == Written(r, target[c], "target")
<1>1. /\ Active(r) /\ run[r].step = "copying" /\ TypeOK /\ LocalInv(r)
      /\ UNCHANGED <<recorded, latest, running, overlapped, spoiled, trouble>>
      /\ temp' = [temp EXCEPT ![c] = u] /\ target' = [target EXCEPT ![c] = w]
      /\ run' = [run EXCEPT ![r] = x]
  BY DEF Inv, FinishCopy, At, world, history
<1>2. /\ run[r] \in Locals /\ run[r].at \in DOMAIN run[r].line.cores /\ c \in Cores
  BY <1>1, LocalsOf
<1>3. /\ x \in Locals /\ x.at = run[r].at /\ x.line = run[r].line /\ x.changed = run[r].changed
      /\ x.tag = run[r].tag /\ x.step = "replace" /\ x.handle = "closed"
  BY <1>2 DEF Locals, Step
<1> HIDE DEF x
<1>4. /\ run'[r] = x /\ \A q \in Runs \ {r} : run'[q] = run[q]
      /\ run' \in [Runs -> Locals \cup {None}]
  BY <1>1, <1>2, <1>3 DEF TypeOK
<1>5. Core(r)' = c /\ Active(r)'
  BY <1>2, <1>3, <1>4 DEF Core, Active
<1>6. /\ u \in File \cup {None}
      /\ u # None <=> temp[c] # None
      /\ temp[c] # None => u.releases = temp[c].releases
  BY <1>1, <1>2, WrittenFile DEF TypeOK, LocalInv
<1>7. /\ w \in File \cup {None}
      /\ w # None <=> target[c] # None
      /\ target[c] # None => w.releases = target[c].releases
      /\ \A v : Whole(target[c], v) => Whole(w, v)
  BY <1>1, <1>2, WrittenFile DEF TypeOK, LocalInv
<1>8. /\ temp'[c] = u /\ target'[c] = w
      /\ \A d \in Cores \ {c} : temp'[d] = temp[d] /\ target'[d] = target[d]
      /\ temp' \in [Cores -> File \cup {None}] /\ target' \in [Cores -> File \cup {None}]
  <2>1. c \in Cores /\ temp \in [Cores -> File \cup {None}]
        /\ target \in [Cores -> File \cup {None}]
    BY <1>1, <1>2 DEF TypeOK
  <2> HIDE DEF c, u, w
  <2> QED BY <1>1, <1>6, <1>7, <2>1
<1>a. run[r].handle # "temp" => u = temp[c]
  BY DEF Written
<1>b. run[r].handle # "target" => w = target[c]
  BY DEF Written
<1>c. u = Written(r, temp[c], "temp")
  OBVIOUS
<1> HIDE DEF u, w
<1>9. TypeOK'
  BY <1>1, <1>2, <1>3, <1>4, <1>8 DEF TypeOK
<1>10. ASSUME NEW q \in Runs PROVE LocalInv(q)'
  <2>1. LocalInv(r)'
    BY <1>1, <1>3, <1>4, <1>5 DEF LocalInv, TagFetched, Installing
  <2>2. CASE q # r
    <3>1. Active(q) => Core(q) \in Cores
      BY <1>1, LocalsOf
    <3>2. LocalInv(q)
      BY DEF Inv
    <3>3. Active(q) /\ run[q].handle = "temp" =>
            temp'[Core(q)] # None /\ run[q].tag \in temp'[Core(q)].releases
      BY <1>6, <1>8, <3>1, <3>2 DEF LocalInv
    <3>4. Active(q) /\ run[q].handle = "target" =>
            target'[Core(q)] # None /\ run[q].tag \in target'[Core(q)].releases
      BY <1>7, <1>8, <3>1, <3>2 DEF LocalInv
    <3> QED BY <1>1, <1>4, <2>2, <3>2, <3>3, <3>4, OtherRun
  <2> QED BY <2>1, <2>2
<1>11. ASSUME NEW d \in Cores PROVE RecordedInv(d)'
  BY <1>1 DEF Inv, RecordedInv
<1>12. SerialInv'
  <2>1. ASSUME SerialInv, ~overlapped PROVE AloneInv(r)' /\ \A d \in Cores : DiskInv(d)'
    <3>1. run[r].handle = "temp" /\ temp[c] = [releases |-> {run[r].tag}, writer |-> r]
      BY <1>1, <2>1 DEF SerialInv, AloneInv, LocalInv
    <3>2. Whole(u, run[r].tag)
      <4>1. temp[c].releases \cup {run[r].tag} = {run[r].tag} /\ temp[c].writer = r
        BY <3>1
      <4>2. u = [releases |-> {run[r].tag}, writer |-> None]
        BY <1>c, <3>1, <4>1 DEF Written
      <4> QED BY <4>2 DEF Whole
    <3>3. target' = target
      BY <1>1, <1>2, <1>b, <3>1 DEF TypeOK
    <3>4. AloneInv(r)'
      BY <1>1, <1>3, <1>4, <1>5, <1>8, <2>1, <3>2, ZenonT(40)
         DEF SerialInv, AloneInv, TagFetched, Installing, Whole
    <3> QED BY <1>1, <2>1, <3>3, <3>4 DEF SerialInv, DiskInv
  <2> QED BY <1>1, <1>4, <2>1, OneRun
<1>13. ServiceInv'
  <2>1. \A d \in Cores : NeedsRestart(d)' => NeedsRestart(d)
    BY <1>1, <1>7, <1>8 DEF NeedsRestart, Whole
  <2>2. \A d \in Cores : RestartAhead(r, d) => RestartAhead(r, d)'
    BY <1>1, <1>3, <1>4, <1>5 DEF RestartAhead
  <2> QED BY <1>1, <1>4, <2>1, <2>2, RestartsKept, SameRestarts
<1> QED BY <1>9, <1>10, <1>11, <1>12, <1>13 DEF Inv

(* What is true of the runs that do not move or remove the file.           *)
LEMMA UnlinkedRun ==
  ASSUME TypeOK, NEW q \in Runs, NEW c \in Cores, run'[q] = Unlinked(c, q)
  PROVE  /\ run'[q] \in Locals \cup {None}
         /\ Active(q)' <=> Active(q)
         /\ Active(q) =>
              /\ run'[q].step = run[q].step /\ run'[q].line = run[q].line
              /\ run'[q].at = run[q].at /\ run'[q].tag = run[q].tag
              /\ run'[q].changed = run[q].changed /\ Core(q)' = Core(q)
              /\ run'[q].handle =
                   IF run[q].handle = "target" /\ Core(q) = c THEN "unlinked"
                   ELSE run[q].handle
         /\ \A d \in Cores : RestartAhead(q, d) => RestartAhead(q, d)'
<1>1. CASE Active(q) /\ run[q].handle = "target" /\ Core(q) = c
  <2>1. run'[q] = [run[q] EXCEPT !.handle = "unlinked"]
    BY <1>1 DEF Unlinked, Writers
  <2> QED BY <1>1, <2>1, Redirected
<1>2. CASE ~(Active(q) /\ run[q].handle = "target" /\ Core(q) = c)
  <2>1. run'[q] = run[q]
    BY <1>2 DEF Unlinked, Writers
  <2>2. Core(q)' = Core(q) /\ (Active(q)' <=> Active(q))
    BY <2>1 DEF Core, Active
  <2> QED BY <1>2, <2>1, <2>2, SameRestarts DEF TypeOK
<1> QED BY <1>1, <1>2

LEMMA MovedRun ==
  ASSUME TypeOK, NEW q \in Runs, NEW c \in Cores, run'[q] = Moved(c, q)
  PROVE  /\ run'[q] \in Locals \cup {None}
         /\ Active(q)' <=> Active(q)
         /\ Active(q) =>
              /\ run'[q].step = run[q].step /\ run'[q].line = run[q].line
              /\ run'[q].at = run[q].at /\ run'[q].tag = run[q].tag
              /\ run'[q].changed = run[q].changed /\ Core(q)' = Core(q)
              /\ run'[q].handle =
                   IF Core(q) # c THEN run[q].handle
                   ELSE IF run[q].handle = "temp" THEN "target"
                   ELSE IF run[q].handle = "target" THEN "unlinked"
                   ELSE run[q].handle
         /\ \A d \in Cores : RestartAhead(q, d) => RestartAhead(q, d)'
<1>1. CASE Active(q) /\ run[q].handle = "temp" /\ Core(q) = c
  <2>1. run'[q] = [run[q] EXCEPT !.handle = "target"]
    BY <1>1 DEF Moved, Writers
  <2> QED BY <1>1, <2>1, Redirected
<1>2. CASE ~(Active(q) /\ run[q].handle = "temp" /\ Core(q) = c)
  <2>1. run'[q] = Unlinked(c, q)
    BY <1>2 DEF Moved, Writers
  <2> QED BY <1>2, <2>1, UnlinkedRun
<1> QED BY <1>1, <1>2

LEMMA ReplaceInv ==
  ASSUME Inv, NEW r \in Runs, Replace(r)
  PROVE  Inv'
<1> DEFINE c == Core(r)
           x == [run[r] EXCEPT !.step = "record"]
<1>1. /\ Active(r) /\ run[r].step = "replace" /\ TypeOK /\ LocalInv(r) /\ temp[c] # None
      /\ UNCHANGED <<recorded, latest, running, overlapped, spoiled, trouble>>
      /\ target' = [target EXCEPT ![c] = temp[c]] /\ temp' = [temp EXCEPT ![c] = None]
      /\ run' = [q \in Runs |-> IF q = r THEN x ELSE Moved(c, q)]
  BY DEF Inv, Replace, At, world, history
<1>2. /\ run[r] \in Locals /\ run[r].at \in DOMAIN run[r].line.cores /\ c \in Cores
  BY <1>1, LocalsOf
<1>3. /\ x \in Locals /\ x.at = run[r].at /\ x.line = run[r].line /\ x.changed = run[r].changed
      /\ x.tag = run[r].tag /\ x.step = "record" /\ x.handle = run[r].handle
  BY <1>2 DEF Locals, Step
<1> HIDE DEF x
<1>4. run'[r] = x /\ \A q \in Runs \ {r} : run'[q] = Moved(c, q)
  BY <1>1
<1>5. Core(r)' = c /\ Active(r)'
  BY <1>2, <1>3, <1>4 DEF Core, Active
<1>6. ASSUME NEW q \in Runs, q # r
      PROVE  /\ run'[q] \in Locals \cup {None}
             /\ Active(q)' <=> Active(q)
             /\ Active(q) =>
                  /\ run'[q].step = run[q].step /\ run'[q].line = run[q].line
                  /\ run'[q].at = run[q].at /\ run'[q].tag = run[q].tag
                  /\ run'[q].changed = run[q].changed /\ Core(q)' = Core(q)
                  /\ run'[q].handle =
                       IF Core(q) # c THEN run[q].handle
                       ELSE IF run[q].handle = "temp" THEN "target"
                       ELSE IF run[q].handle = "target" THEN "unlinked"
                       ELSE run[q].handle
             /\ \A d \in Cores : RestartAhead(q, d) => RestartAhead(q, d)'
  BY <1>1, <1>2, <1>4, <1>6, MovedRun
<1>7. /\ target'[c] = temp[c] /\ temp'[c] = None
      /\ \A d \in Cores \ {c} : temp'[d] = temp[d] /\ target'[d] = target[d]
      /\ temp' \in [Cores -> File \cup {None}] /\ target' \in [Cores -> File \cup {None}]
  <2>1. c \in Cores /\ temp \in [Cores -> File \cup {None}]
        /\ target \in [Cores -> File \cup {None}]
    BY <1>1, <1>2 DEF TypeOK
  <2> HIDE DEF c
  <2> QED BY <1>1, <2>1
<1>8. TypeOK'
  <2>1. run' \in [Runs -> Locals \cup {None}]
    BY <1>1, <1>3, <1>4, <1>6
  <2>2. ASSUME NEW q \in Runs, run'[q] # None
        PROVE  run'[q].at \in DOMAIN run'[q].line.cores
    <3>1. CASE q = r
      BY <1>2, <1>3, <1>4, <3>1
    <3>2. CASE q # r
      BY <1>1, <1>6, <2>2, <3>2 DEF TypeOK, Active
    <3> QED BY <3>1, <3>2
  <2> QED BY <1>1, <1>7, <2>1, <2>2 DEF TypeOK
<1>9. ASSUME NEW q \in Runs PROVE LocalInv(q)'
  <2>1. LocalInv(r)'
    BY <1>1, <1>3, <1>4, <1>5 DEF LocalInv, TagFetched, Installing
  <2>2. ASSUME q # r, Active(q) PROVE LocalInv(q)'
    <3>1. LocalInv(q) /\ Core(q) \in Cores
      BY <1>1, <2>2, LocalsOf DEF Inv
    <3>2. /\ run'[q].step = run[q].step /\ run'[q].line = run[q].line
          /\ run'[q].at = run[q].at /\ run'[q].tag = run[q].tag
          /\ run'[q].changed = run[q].changed /\ Core(q)' = Core(q)
          /\ run'[q].handle =
               IF Core(q) # c THEN run[q].handle
               ELSE IF run[q].handle = "temp" THEN "target"
               ELSE IF run[q].handle = "target" THEN "unlinked"
               ELSE run[q].handle
      BY <1>6, <2>2
    <3>3. /\ run'[q].handle # "closed" <=> run[q].handle # "closed"
          /\ run'[q].handle = "temp" =>
               temp'[Core(q)] # None /\ run[q].tag \in temp'[Core(q)].releases
          /\ run'[q].handle = "target" =>
               target'[Core(q)] # None /\ run[q].tag \in target'[Core(q)].releases
      BY <1>1, <1>7, <2>2, <3>1, <3>2 DEF LocalInv
    <3> HIDE DEF c
    <3> QED BY <1>1, <2>2, <3>1, <3>2, <3>3 DEF LocalInv
  <2>3. ASSUME q # r, ~Active(q) PROVE LocalInv(q)'
    BY <1>6, <2>3 DEF LocalInv
  <2> QED BY <2>1, <2>2, <2>3
<1>10. ASSUME NEW d \in Cores PROVE RecordedInv(d)'
  BY <1>1 DEF Inv, RecordedInv
<1>11. SerialInv'
  <2>1. ASSUME SerialInv, ~overlapped PROVE AloneInv(r)' /\ \A d \in Cores : DiskInv(d)'
    <3>1. Whole(temp[c], run[r].tag) /\ run[r].tag \in Release
      BY <1>1, <2>1 DEF SerialInv, AloneInv, LocalInv, TagFetched, Installing
    <3>2. recorded[c] \in Release => run[r].tag >= recorded[c]
      BY <1>1, <2>1, <3>1 DEF SerialInv, AloneInv, TagFetched, Installing, Release
    <3>3. AloneInv(r)'
      BY <1>1, <1>3, <1>4, <1>5, <1>7, <2>1, <3>1, ZenonT(40)
         DEF SerialInv, AloneInv, TagFetched, Installing, Whole
    <3>4. ASSUME NEW d \in Cores PROVE DiskInv(d)'
      <4>1. CASE d = c
        BY <1>1, <1>7, <3>1, <3>2, <4>1 DEF DiskInv, Intact, Whole
      <4>2. CASE d # c
        BY <1>1, <1>7, <2>1, <4>2 DEF SerialInv, DiskInv
      <4> QED BY <4>1, <4>2
    <3> QED BY <3>3, <3>4
  <2> QED BY <1>1, <1>6, <2>1, OneRun DEF Active
<1>12. ServiceInv'
  <2>1. ASSUME NEW d \in Cores, NeedsRestart(d)'
        PROVE  RestartAhead(r, d)' \/ (NeedsRestart(d) /\ ~RestartAhead(r, d))
    <3>1. CASE d = c
      <4>1. RestartAhead(r, d)'
        BY <1>1, <1>3, <1>4, <1>5, <3>1 DEF RestartAhead, LocalInv, Installing
      <4> QED BY <4>1
    <3>2. CASE d # c
      <4>1. NeedsRestart(d)
        BY <1>1, <1>7, <2>1, <3>2 DEF NeedsRestart
      <4>2. RestartAhead(r, d) => RestartAhead(r, d)'
        BY <1>1, <1>3, <1>4, <1>5 DEF RestartAhead
      <4> QED BY <4>1, <4>2
    <3> QED BY <3>1, <3>2
  <2> QED BY <1>1, <1>6, <2>1, RestartsKept
<1> QED BY <1>8, <1>9, <1>10, <1>11, <1>12 DEF Inv

LEMMA OpenTempInv ==
  ASSUME Inv, NEW r \in Runs, OpenTemp(r)
  PROVE  Inv'
<1> DEFINE c == Core(r)
<1> DEFINE x == [run[r] EXCEPT !.step = "copying", !.handle = "temp"]
<1>1. Active(r) /\ run[r].step = "download" /\ TypeOK /\ LocalInv(r)
  BY DEF Inv, OpenTemp, At
<1>2. /\ run[r] \in Locals /\ run[r].at \in DOMAIN run[r].line.cores /\ c \in Cores
      /\ run[r].tag \in Release
  BY <1>1, LocalsOf DEF LocalInv, TagFetched, Installing
<1>3. x \in Locals /\ x.at = run[r].at /\ x.line = run[r].line /\ x.changed = run[r].changed
      /\ x.tag = run[r].tag /\ x.step = "copying" /\ x.handle = "temp"
  BY <1>2 DEF Locals, Step
<1>4. /\ run'[r] = x /\ \A q \in Runs \ {r} : run'[q] = run[q]
      /\ run' \in [Runs -> Locals \cup {None}]
  BY <1>1, <1>2, <1>3 DEF OpenTemp, TypeOK
<1>5. \A q \in Writers(c, "temp") \cup {r} : run[q].tag \in Release
  BY <1>1, <1>2 DEF Writers, Inv, LocalInv, TagFetched, Installing
<1>6. /\ Opened(r, "temp") \in File /\ Opened(r, "temp") # None
      /\ \A q \in Writers(c, "temp") \cup {r} : run[q].tag \in Opened(r, "temp").releases
      /\ Opened(r, "temp").writer = r
  BY <1>5 DEF Opened, File
<1>7. /\ temp'[c] = Opened(r, "temp") /\ \A d \in Cores \ {c} : temp'[d] = temp[d]
      /\ UNCHANGED <<target, recorded, latest, running, overlapped, spoiled, trouble>>
  BY <1>1, <1>2 DEF OpenTemp, TypeOK, world, history
<1>8. TypeOK'
  BY <1>1, <1>2, <1>3, <1>4, <1>6, <1>7 DEF OpenTemp, TypeOK
<1>9. Core(r)' = c /\ Active(r)'
  BY <1>2, <1>3, <1>4 DEF Core, Active
<1>10. ASSUME NEW q \in Runs PROVE LocalInv(q)'
  <2>1. CASE q = r
    <3>1. run[r].tag <= latest[c] /\ ~run[r].line.dryRun
      BY <1>1 DEF LocalInv, TagFetched, Installing
    <3>2. r \in Writers(c, "temp") \cup {r}
      OBVIOUS
    <3>3. LocalInv(r)'
      BY <1>1, <1>2, <1>3, <1>4, <1>6, <1>7, <1>9, <3>1, <3>2 DEF LocalInv
    <3> QED BY <2>1, <3>3
  <2>2. CASE q # r
    <3>1. Active(q) => Core(q) \in Cores
      BY <1>1, LocalsOf
    <3> QED BY <1>4, <1>6, <1>7, <2>2, <3>1, OtherRun DEF Inv, Writers, LocalInv
  <2> QED BY <2>1, <2>2
<1>11. ASSUME NEW d \in Cores PROVE RecordedInv(d)'
  BY <1>7 DEF Inv, RecordedInv
<1>12. SerialInv'
  <2>1. ASSUME SerialInv, ~overlapped PROVE AloneInv(r)' /\ \A d \in Cores : DiskInv(d)'
    <3>1. Writers(c, "temp") = {}
      BY <1>1, <2>1 DEF SerialInv, Alone, Writers, LocalInv
    <3>2. temp'[c] = [releases |-> {run[r].tag}, writer |-> r]
      BY <1>7, <3>1 DEF Opened
    <3> QED BY <1>1, <1>3, <1>4, <1>7, <1>9, <2>1, <3>2
          DEF SerialInv, AloneInv, DiskInv, TagFetched, Installing
  <2> QED BY <1>1, <1>4, <1>7, <2>1, OneRun
<1>13. ServiceInv'
  <2>1. \A d \in Cores : NeedsRestart(d)' <=> NeedsRestart(d)
    BY <1>7 DEF NeedsRestart
  <2>2. \A d \in Cores : RestartAhead(r, d) => RestartAhead(r, d)'
    BY <1>1, <1>3, <1>4, <1>9 DEF RestartAhead
  <2> QED BY <1>4, <1>7, <2>1, <2>2, RestartsKept, SameRestarts
<1> QED BY <1>8, <1>10, <1>11, <1>12, <1>13 DEF Inv

LEMMA StartInv ==
  ASSUME Inv, NEW r \in Runs, Begin(r)
  PROVE  Inv'
<1>1. PICK line \in Lines[r] : Start(r, line)
  BY DEF Begin
<1> DEFINE x == [step |-> "fetch", line |-> line, at |-> 1, tag |-> None,
                 handle |-> "closed", changed |-> {}]
<1>2. /\ ~Active(r) /\ TypeOK /\ run' = [run EXCEPT ![r] = x]
      /\ UNCHANGED <<target, temp, recorded, latest, running, trouble>>
      /\ overlapped' = (overlapped \/ \E q \in Runs : Active(q))
      /\ spoiled' = (spoiled \/ (~line.restart /\ ~line.dryRun))
  BY <1>1 DEF Inv, Start, disk, world
<1>3. line \in CommandLine
  BY <1>1
<1>4. line.cores \in Seq(Cores) \ {<<>>} /\ line.restart \in BOOLEAN /\ line.dryRun \in BOOLEAN
  BY <1>3 DEF CommandLine
<1>5. /\ x \in Locals /\ x.line = line /\ x.changed = {} /\ x.step = "fetch"
      /\ x.handle = "closed" /\ x.at \in DOMAIN x.line.cores
  BY <1>3, <1>4 DEF Locals, Step
<1> HIDE DEF x
<1>6. /\ run'[r] = x /\ \A q \in Runs \ {r} : run'[q] = run[q]
      /\ run' \in [Runs -> Locals \cup {None}]
  BY <1>2, <1>5 DEF TypeOK
<1>7. TypeOK'
  BY <1>2, <1>4, <1>5, <1>6 DEF TypeOK
<1>8. ASSUME NEW q \in Runs PROVE LocalInv(q)'
  <2>1. ~spoiled' => line.restart \/ line.dryRun
    BY <1>2, <1>4
  <2>2. LocalInv(r)'
    BY <1>4, <1>5, <1>6, <2>1 DEF LocalInv, TagFetched, Installing
  <2>3. CASE q # r
    BY <1>2, <1>6, <2>3, OtherRun, ZenonT(40) DEF Inv, LocalInv
  <2> QED BY <2>2, <2>3
<1>9. ASSUME NEW d \in Cores PROVE RecordedInv(d)'
  BY <1>2 DEF Inv, RecordedInv
<1>10. SerialInv'
  <2> SUFFICES ASSUME ~overlapped' PROVE SerialInv'
    BY DEF SerialInv
  <2>1. SerialInv /\ ~overlapped /\ \A q \in Runs : ~Active(q)
    BY <1>2 DEF Inv
  <2>2. \A q \in Runs \ {r} : ~Active(q)'
    BY <1>6, <2>1 DEF Active
  <2>3. AloneInv(r)'
    BY <1>5, <1>6 DEF AloneInv, TagFetched, Installing
  <2>4. \A d \in Cores : DiskInv(d)'
    BY <1>2, <2>1 DEF SerialInv, DiskInv
  <2> QED BY <2>2, <2>3, <2>4 DEF SerialInv, Alone, AloneInv
<1>11. ServiceInv'
  <2>1. \A d \in Cores : NeedsRestart(d)' => NeedsRestart(d)
    BY <1>2 DEF NeedsRestart
  <2>2. \A d \in Cores : ~RestartAhead(r, d)
    BY <1>2 DEF RestartAhead
  <2> QED BY <1>2, <1>6, <2>1, <2>2, RestartsKept, SameRestarts
<1> QED BY <1>7, <1>8, <1>9, <1>10, <1>11 DEF Inv

LEMMA BootInv ==
  ASSUME Inv, Boot
  PROVE  Inv'
<1>1. /\ TypeOK /\ run' = [r \in Runs |-> None]
      /\ UNCHANGED <<target, temp, recorded, latest, overlapped>>
      /\ running' = [c \in Cores |-> Restarted(c)]
      /\ spoiled' \in BOOLEAN /\ trouble' \in 0 .. MaxTrouble
  BY DEF Inv, Boot, Trouble, TypeOK, disk
<1>2. \A r \in Runs : ~Active(r)'
  BY <1>1 DEF Active
<1>3. \A c \in Cores : Restarted(c) \in Release \cup {None}
  BY <1>1, RestartedTyped
<1>4. TypeOK'
  BY <1>1, <1>3 DEF TypeOK
<1>5. \A r \in Runs : LocalInv(r)'
  BY <1>2 DEF LocalInv
<1>6. \A c \in Cores : RecordedInv(c)'
  BY <1>1 DEF Inv, RecordedInv
<1>7. SerialInv'
  BY <1>1, <1>2 DEF Inv, SerialInv, Alone, AloneInv, DiskInv
<1>8. \A c \in Cores : ~NeedsRestart(c)'
  BY <1>1, RestartedIsInstalled DEF NeedsRestart, Whole
<1> QED BY <1>4, <1>5, <1>6, <1>7, <1>8 DEF Inv, ServiceInv

LEMMA RemoveInv ==
  ASSUME Inv, NEW c \in Cores, Remove(c)
  PROVE  Inv'
<1>1. /\ TypeOK /\ target' = [target EXCEPT ![c] = None]
      /\ run' = [q \in Runs |-> Unlinked(c, q)]
      /\ UNCHANGED <<temp, recorded, latest, running, overlapped, spoiled>>
      /\ trouble' \in 0 .. MaxTrouble
  BY DEF Inv, Remove, Trouble, TypeOK, world
<1>2. ASSUME NEW q \in Runs
      PROVE  /\ run'[q] \in Locals \cup {None}
             /\ Active(q)' <=> Active(q)
             /\ Active(q) =>
                  /\ run'[q].step = run[q].step /\ run'[q].line = run[q].line
                  /\ run'[q].at = run[q].at /\ run'[q].tag = run[q].tag
                  /\ run'[q].changed = run[q].changed /\ Core(q)' = Core(q)
                  /\ run'[q].handle =
                       IF run[q].handle = "target" /\ Core(q) = c THEN "unlinked"
                       ELSE run[q].handle
             /\ \A d \in Cores : RestartAhead(q, d) => RestartAhead(q, d)'
  <2>1. run'[q] = Unlinked(c, q)
    BY <1>1
  <2> QED BY <1>1, <2>1, UnlinkedRun
<1>3. /\ target'[c] = None /\ \A d \in Cores \ {c} : target'[d] = target[d]
      /\ target' \in [Cores -> File \cup {None}]
  BY <1>1 DEF TypeOK
<1>4. TypeOK'
  <2>1. run' \in [Runs -> Locals \cup {None}]
    BY <1>1, <1>2
  <2>2. \A q \in Runs : run'[q] # None => run'[q].at \in DOMAIN run'[q].line.cores
    BY <1>1, <1>2 DEF TypeOK, Active
  <2> QED BY <1>1, <1>3, <2>1, <2>2 DEF TypeOK
<1>5. ASSUME NEW q \in Runs PROVE LocalInv(q)'
  <2>1. CASE Active(q)
    <3>1. LocalInv(q) /\ Core(q) \in Cores
      BY <1>1, <2>1, LocalsOf DEF Inv
    <3> QED BY <1>1, <1>2, <1>3, <2>1, <3>1 DEF LocalInv
  <2>2. CASE ~Active(q)
    BY <1>2, <2>2 DEF LocalInv
  <2> QED BY <2>1, <2>2
<1>6. ASSUME NEW d \in Cores PROVE RecordedInv(d)'
  BY <1>1 DEF Inv, RecordedInv
<1>7. SerialInv'
  <2> SUFFICES ASSUME ~overlapped PROVE SerialInv'
    BY <1>1 DEF SerialInv
  <2>1. Alone'
    BY <1>2 DEF Inv, SerialInv, Alone
  <2>2. ASSUME NEW q \in Runs PROVE AloneInv(q)'
    <3>1. CASE Active(q)
      <4>1. AloneInv(q) /\ Core(q) \in Cores
        BY <1>1, <3>1, LocalsOf DEF Inv, SerialInv
      <4>2. /\ run[q].handle \in {"closed", "temp"}
            /\ run'[q].handle = run[q].handle /\ run'[q].step = run[q].step
            /\ run'[q].tag = run[q].tag /\ Core(q)' = Core(q)
        BY <1>2, <3>1, <4>1 DEF AloneInv
      <4>3. target'[Core(q)] # None =>
              target[Core(q)] # None /\ target'[Core(q)] = target[Core(q)]
        BY <1>3, <4>1
      <4> QED BY <1>1, <3>1, <4>1, <4>2, <4>3 DEF AloneInv, Whole
    <3>2. CASE ~Active(q)
      BY <1>2, <3>2 DEF AloneInv
    <3> QED BY <3>1, <3>2
  <2>3. \A d \in Cores : DiskInv(d)'
    BY <1>1, <1>3 DEF Inv, SerialInv, DiskInv
  <2> QED BY <2>1, <2>2, <2>3 DEF SerialInv
<1>8. ServiceInv'
  <2>1. \A d \in Cores : NeedsRestart(d)' => NeedsRestart(d)
    BY <1>1, <1>3 DEF NeedsRestart
  <2> QED BY <1>1, <1>2, <2>1 DEF Inv, ServiceInv
<1> QED BY <1>4, <1>5, <1>6, <1>7, <1>8 DEF Inv

LEMMA PublishInv ==
  ASSUME Inv, NEW c \in Cores, Publish(c)
  PROVE  Inv'
<1>1. /\ TypeOK /\ latest[c] < MaxRelease
      /\ latest' = [latest EXCEPT ![c] = latest[c] + 1]
      /\ UNCHANGED <<target, temp, recorded, running, run, overlapped, spoiled, trouble>>
  BY DEF Inv, Publish, disk, history
<1>2. /\ latest' \in [Cores -> Release]
      /\ \A d \in Cores : latest[d] \in Release /\ latest[d] <= latest'[d]
  BY <1>1 DEF TypeOK, Release
<1>3. TypeOK'
  BY <1>1, <1>2 DEF TypeOK
<1>4. ASSUME NEW q \in Runs PROVE LocalInv(q)'
  <2>1. CASE Active(q)
    <3>1. LocalInv(q) /\ Core(q) \in Cores /\ Active(q)' /\ Core(q)' = Core(q)
      BY <1>1, <2>1, LocalsOf DEF Inv, Active, Core
    <3>2. run[q].tag \in Release /\ run[q].tag <= latest[Core(q)] =>
            run[q].tag <= latest'[Core(q)]
      BY <1>2, <3>1 DEF Release
    <3> QED BY <1>1, <2>1, <3>1, <3>2 DEF LocalInv
  <2>2. CASE ~Active(q)
    BY <1>1, <2>2 DEF LocalInv, Active
  <2> QED BY <2>1, <2>2
<1>5. ASSUME NEW d \in Cores PROVE RecordedInv(d)'
  BY <1>1, <1>2 DEF Inv, RecordedInv, Release
<1>6. SerialInv'
  BY <1>1 DEF Inv, SerialInv, Alone, AloneInv, DiskInv, Active, Core, Whole
<1>7. ServiceInv'
  BY <1>1 DEF Inv, ServiceInv, NeedsRestart, RestartAhead, Active, Core
<1> QED BY <1>3, <1>4, <1>5, <1>6, <1>7 DEF Inv

-----------------------------------------------------------------------------
(* The theorems.                                                           *)

LEMMA InitInv == Init => Inv
<1> SUFFICES ASSUME Init PROVE Inv
  OBVIOUS
<1>1. /\ latest = [c \in Cores |-> 1] /\ temp = [c \in Cores |-> None]
      /\ recorded = [c \in Cores |-> None] /\ run = [r \in Runs |-> None]
      /\ overlapped = FALSE /\ spoiled = FALSE /\ trouble = 0 /\ 1 \in Release
  BY DEF Init, Release
<1>2. /\ target \in [Cores -> File \cup {None}]
      /\ running \in [Cores -> Release \cup {None}]
      /\ \A c \in Cores : target[c] # None =>
           Whole(target[c], 1) /\ (running[c] = 1 \/ running[c] = None)
  <2>1. [releases |-> {1}, writer |-> None] \in File
    BY <1>1 DEF File
  <2>2. CASE /\ target = [c \in Cores |-> None]
             /\ running = [c \in Cores |-> None]
    BY <2>2
  <2>3. CASE /\ target = [c \in Cores |-> [releases |-> {1}, writer |-> None]]
             /\ \E v \in {1, None} : running = [c \in Cores |-> v]
    BY <1>1, <2>1, <2>3 DEF Whole
  <2> QED BY <2>2, <2>3 DEF Init
<1>3. None \notin Release
  BY DEF Release
<1>4. TypeOK
  <2>1. /\ latest \in [Cores -> Release]
        /\ temp \in [Cores -> File \cup {None}]
        /\ recorded \in [Cores -> Release \cup {Empty, None}]
    BY <1>1
  <2>2. /\ run \in [Runs -> Locals \cup {None}]
        /\ \A r \in Runs : run[r] = None
    BY <1>1
  <2>3. trouble \in 0 .. MaxTrouble
    BY <1>1
  <2> QED BY <1>1, <1>2, <2>1, <2>2, <2>3 DEF TypeOK
<1>5. \A r \in Runs : LocalInv(r) /\ AloneInv(r) /\ ~Active(r)
  BY <1>1 DEF LocalInv, AloneInv, Active
<1>6. \A c \in Cores : RecordedInv(c) /\ DiskInv(c)
  BY <1>1, <1>2, <1>3 DEF RecordedInv, DiskInv, Intact
<1>7. \A c \in Cores : ~NeedsRestart(c)
  BY <1>2 DEF NeedsRestart
<1> QED BY <1>4, <1>5, <1>6, <1>7 DEF Inv, SerialInv, ServiceInv, Alone

LEMMA StepInv == Inv /\ [Next]_vars => Inv'
<1> SUFFICES ASSUME Inv, [Next]_vars PROVE Inv'
  OBVIOUS
<1>1. ASSUME NEW r \in Runs, UpdateCore(r) PROVE Inv'
  BY <1>1, FetchReleaseInv, LeaveCurrentInv, WouldUpdateInv, StartUpdateInv,
     UnreadableInv, OpenTempInv, FinishCopyInv, ReplaceInv, TruncateStateInv,
     WriteStateInv
     DEF UpdateCore
<1>2. ASSUME NEW r \in Runs, Begin(r) \/ RestartService(r) \/ Fail(r) \/ Kill(r) PROVE Inv'
  BY <1>2, StartInv, RestartServiceInv, FailInv
<1>3. ASSUME NEW c \in Cores, Remove(c) \/ Publish(c) PROVE Inv'
  BY <1>3, RemoveInv, PublishInv
<1>4. CASE Boot
  BY <1>4, BootInv
<1>5. CASE UNCHANGED vars
  <2>1. UNCHANGED <<latest, target, temp, recorded, running, run, overlapped, spoiled,
                    trouble>>
    BY <1>5 DEF vars, disk, world, history
  <2>2. TypeOK' /\ \A c \in Cores : RecordedInv(c)'
    BY <2>1 DEF Inv, TypeOK, RecordedInv
  <2>3. \A r \in Runs : LocalInv(r)'
    BY <2>1 DEF Inv, LocalInv, Active, Core
  <2>4. SerialInv'
    BY <2>1 DEF Inv, SerialInv, Alone, AloneInv, DiskInv, Active, Core, Whole
  <2>5. ServiceInv'
    BY <2>1 DEF Inv, ServiceInv, NeedsRestart, RestartAhead, Active, Core
  <2> QED BY <2>2, <2>3, <2>4, <2>5 DEF Inv
<1> QED BY <1>1, <1>2, <1>3, <1>4, <1>5 DEF Next, Continue

(* The variables keep their types, and every run is at a core of its       *)
(* command line (main).                                                    *)
THEOREM TypeCorrect == Spec => []TypeOK
<1>1. Inv => TypeOK
  BY DEF Inv
<1> QED BY <1>1, InitInv, StepInv, PTL DEF Spec

(* As long as runs do not overlap, installing a core is atomic, whatever   *)
(* was killed or failed before (install_binary).                           *)
THEOREM SerialInstall == Spec => []SerialInstallIsAtomic
<1>1. Inv => SerialInstallIsAtomic
  BY DEF Inv, SerialInv, DiskInv, SerialInstallIsAtomic
<1> QED BY <1>1, InitInv, StepInv, PTL DEF Spec

(* As long as runs do not overlap, no recorded tag is ahead of its binary  *)
(* (update_core).                                                          *)
THEOREM SerialTag == Spec => []SerialTagIsInstalled
<1>1. ASSUME Inv PROVE SerialTagIsInstalled
  <2>1. \A c \in Cores : recorded[c] \in Release \cup {Empty, None}
    BY <1>1 DEF Inv, TypeOK
  <2> QED BY <1>1, <2>1 DEF Inv, SerialInv, DiskInv, SerialTagIsInstalled
<1> QED BY <1>1, InitInv, StepInv, PTL DEF Spec

(* However runs overlap, a service runs what is installed or a run that is *)
(* under way restarts it (restart_services).                               *)
THEOREM OldServiceRestarted == Spec => []OldServiceIsRestarted
<1>1. ASSUME Inv PROVE OldServiceIsRestarted
  <2> SUFFICES ASSUME ~spoiled, NEW c \in Cores, Intact(target[c]),
                      running[c] \notin {None, Installed(c)}
               PROVE  \E r \in Runs : RestartDue(r, c)
    BY DEF OldServiceIsRestarted
  <2>1. running[c] \in Release
    BY <1>1 DEF Inv, TypeOK
  <2>2. target[c] # None
    <3>1. PICK v \in Release : target[c] = [releases |-> {v}, writer |-> None]
      BY DEF Intact, Whole
    <3>2. target[c] \in File
      BY <3>1 DEF File
    <3> QED BY <3>2
  <2>3. ~Whole(target[c], running[c])
    <3>1. SUFFICES ASSUME Whole(target[c], running[c]) PROVE FALSE
      OBVIOUS
    <3>2. \A v \in Release : Whole(target[c], v) => v = running[c]
      <4> SUFFICES ASSUME NEW v \in Release, Whole(target[c], v) PROVE v = running[c]
        OBVIOUS
      <4>1. {v} = {running[c]}
        BY <3>1 DEF Whole
      <4> QED BY <4>1
    <3>3. Installed(c) = running[c]
      BY <2>1, <3>1, <3>2 DEF Installed
    <3> QED BY <3>3
  <2>4. PICK r \in Runs : RestartAhead(r, c)
    BY <1>1, <2>1, <2>2, <2>3 DEF Inv, ServiceInv, NeedsRestart
  <2> QED BY <2>4 DEF RestartAhead, RestartDue
<1> QED BY <1>1, InitInv, StepInv, PTL DEF Spec
=============================================================================
