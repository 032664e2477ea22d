------------------------------ MODULE Executor ------------------------------
(***************************************************************************)
(* Applying plans: control.Executor.Execute (internal/control/executor.go) *)
(* under the contexts handleApply gives it (internal/web/server.go), any   *)
(* number of requests at a time and nothing serialising them.              *)
(*                                                                         *)
(* A run is one POST /api/apply.  It carries out its plan one step at a    *)
(* time and stops at the first that fails.  A command is a child process   *)
(* whose effects on the kernel are listed one by one, because the children *)
(* of different runs interleave between them.  The kernel maps an object   *)
(* (the nftables table, a rule priority, a sysctl) to the set of values it *)
(* holds: `nft -f` into a table that exists and `ip rule add` at a         *)
(* priority in use add to what is there.  A file is written to a temporary *)
(* file of the run's own, which then takes its place: each may fail, and a *)
(* daemon that is killed leaves the temporary file as it is.               *)
(*                                                                         *)
(* An operator that stands before an action and is not used is a plausible *)
(* bug of it: the model checker is run on each to see that the properties  *)
(* tell it from the code.                                                  *)
(***************************************************************************)
EXTENDS Naturals, Sequences

CONSTANTS
  Runs,        \* apply requests, each served once
  Plan,        \* the plan of each run
  DryRun,      \* the runs whose daemon was started without --apply
  Paths,       \* files that plans write
  Objects,     \* kernel objects that plans change
  Values,      \* file contents and values of objects
  Table,       \* the nftables table inet las_router
  Rendered,    \* the path of the rendered policy, /run/las/nftables.conf
  Absent,      \* no file
  Torn,        \* part of a file's contents
  None         \* no run

(***************************************************************************)
(* The effects commands are made of.  "replace" is ip route replace, ip    *)
(* address replace, sysctl -w; "delete" is ip rule del priority, which     *)
(* removes one of several; "add" is ip rule add, which refuses a duplicate;*)
(* "drop" is nft delete table and "load" is nft -f.                        *)
(***************************************************************************)
Effect == [op : {"replace", "add"}, object : Objects \ {Table}, value : Values]
            \cup [op : {"delete"}, object : Objects \ {Table}]
            \cup [op : {"drop", "load"}]

(* What addHostPlan and its siblings append to a plan (plan.go: AddCommand,*)
(* AddWrite, AddWarning), and the malformed steps Execute knows.           *)
Step == [kind : {"warning", "nocommand", "unknown"}]
          \cup [kind : {"write"}, path : Paths, value : Values]
          \cup [kind : {"command"}, shell : BOOLEAN, effects : Seq(Effect)]

LoadWithoutDrop == [kind |-> "command", shell |-> TRUE,
                    effects |-> <<[op |-> "load"]>>]

(* The last command of every plan (builder.go: BuildPlan).                 *)
LoadCommand == [kind |-> "command", shell |-> TRUE,
                effects |-> <<[op |-> "drop"], [op |-> "load"]>>]

RuleAddOnly(priority, rule) ==
  [kind |-> "command", shell |-> TRUE,
   effects |-> <<[op |-> "add", object |-> priority, value |-> rule]>>]

(* `ip rule del priority P || true; ip rule add priority P ...`            *)
(* (builder.go: addRoutingPlan).                                           *)
RuleCommand(priority, rule) ==
  [kind |-> "command", shell |-> TRUE,
   effects |-> <<[op |-> "delete", object |-> priority],
                 [op |-> "add", object |-> priority, value |-> rule]>>]

HasOp(step, ops) ==
  step.kind = "command" /\ \E i \in DOMAIN step.effects : step.effects[i].op \in ops

WellFormed(r) ==
  \A i \in DOMAIN Plan[r] : Plan[r][i].kind \notin {"nocommand", "unknown"}

ASSUME HostAssumption ==
  /\ Table \in Objects
  /\ Rendered \in Paths
  /\ Absent \notin Values
  /\ Torn \notin Values \cup {Absent}
  /\ DryRun \subseteq Runs
  /\ None \notin Runs

(* BuildPlan loads the policy last and touches the table nowhere else.     *)
ASSUME PlanAssumption ==
  /\ Plan \in [Runs -> Seq(Step)]
  /\ \A r \in Runs :
       /\ Len(Plan[r]) > 0
       /\ Plan[r][Len(Plan[r])] = LoadCommand
       /\ \A i \in 1 .. Len(Plan[r]) - 1 : ~HasOp(Plan[r][i], {"drop", "load"})

(* `ip rule` is run for policy rules only (addRoutingPlan), and the policy *)
(* is rendered before it is loaded (BuildPlan).                            *)
ASSUME RepeatAssumption ==
  \A r \in Runs :
    /\ \A i \in DOMAIN Plan[r] :
         HasOp(Plan[r][i], {"add", "delete"}) =>
           \E priority \in Objects \ {Table} :
             \E rule \in Values : Plan[r][i] = RuleCommand(priority, rule)
    /\ WellFormed(r) =>
         \E i \in DOMAIN Plan[r] :
           Plan[r][i].kind = "write" /\ Plan[r][i].path = Rendered

VARIABLES
  files,      \* per path: its contents
  temp,       \* per run: the contents of its temporary file
  kernel,     \* per object: the values it holds
  pc,         \* per run: where Execute is
  results,    \* per run: the result of every step reported so far
  at,         \* per run: the effect its child is about to have, 1 if it has none
  exit,       \* per run: whether the latest effect of the child succeeded
  cancelled,  \* per run: its context is done
  faulted,    \* per run: whether the host failed a system call or a program of
              \* it, and whether a shell went on after it and hid the failure
  latest,     \* the run that was started last, dry runs apart
  overlapped  \* the runs that were under way at the same time as another,
              \* dry runs apart

host == <<files, temp, kernel>>
vars == <<files, temp, kernel, pc, results, at, exit, cancelled, faulted, latest,
          overlapped>>

Active(r) == pc[r] \in {"step", "filling", "renaming", "running", "draining"}
Current(r) == Plan[r][Len(results[r]) + 1]
Left(r) == Len(results[r]) < Len(Plan[r])

TypeOK ==
  /\ files \in [Paths -> Values \cup {Absent, Torn}]
  /\ kernel \in [Objects -> SUBSET (Values \cup {Torn})]
  /\ temp \in [Runs -> Values \cup {Absent, Torn}]
  /\ pc \in [Runs -> {"idle", "step", "filling", "renaming", "running", "draining",
                      "ok", "error", "dead"}]
  /\ results \in [Runs -> Seq({"ok", "error"})]
  /\ at \in [Runs -> Nat]
  /\ exit \in [Runs -> BOOLEAN]
  /\ cancelled \in [Runs -> BOOLEAN]
  /\ faulted \in [Runs -> {"none", "seen", "hidden"}]
  /\ latest \in Runs \cup {None}
  /\ overlapped \subseteq Runs

Init ==
  /\ files = [p \in Paths |-> Absent]
  /\ temp = [r \in Runs |-> Absent]
  /\ kernel \in [Objects -> {{}} \cup {{v} : v \in Values}]
  /\ pc = [r \in Runs |-> "idle"]
  /\ results = [r \in Runs |-> <<>>]
  /\ at = [r \in Runs |-> 1]
  /\ exit = [r \in Runs |-> TRUE]
  /\ cancelled = [r \in Runs |-> FALSE]
  /\ faulted = [r \in Runs |-> "none"]
  /\ latest = None
  /\ overlapped = {}

ReportAndGoOn(r, result) ==
  /\ results' = [results EXCEPT ![r] = Append(@, result)]
  /\ pc' = [pc EXCEPT ![r] = "step"]
  /\ at' = [at EXCEPT ![r] = 1]
  /\ exit' = [exit EXCEPT ![r] = TRUE]

(* The result of the current step is reported; an error ends the run.      *)
Report(r, result) ==
  /\ results' = [results EXCEPT ![r] = Append(@, result)]
  /\ pc' = [pc EXCEPT ![r] = IF result = "ok" THEN "step" ELSE "error"]
  /\ at' = [at EXCEPT ![r] = 1]
  /\ exit' = [exit EXCEPT ![r] = TRUE]

Fault(r) ==
  faulted' = [faulted EXCEPT ![r] = IF @ = "hidden" THEN "hidden" ELSE "seen"]

-----------------------------------------------------------------------------
(* The request and the loop over the steps.                                *)

Request(r) ==
  /\ pc[r] = "idle"
  /\ pc' = [pc EXCEPT ![r] = "step"]
  /\ latest' = IF r \in DryRun THEN latest ELSE r
  /\ LET others == {q \in Runs \ DryRun : Active(q)} IN
       overlapped' = IF others = {} \/ r \in DryRun THEN overlapped
                     ELSE overlapped \cup others \cup {r}
  /\ UNCHANGED <<host, results, at, exit, cancelled, faulted>>

AtStep(r, kinds) ==
  /\ pc[r] = "step"
  /\ Left(r)
  /\ Current(r).kind \in kinds

(* Warnings are reported, and in a dry run everything a plan can hold      *)
(* except a command step without a command.                                *)
Preview(r) ==
  /\ \/ AtStep(r, {"warning"})
     \/ r \in DryRun /\ AtStep(r, {"command", "write", "unknown"})
  /\ Report(r, "ok")
  /\ UNCHANGED <<host, cancelled, faulted, latest, overlapped>>

Malformed(r) ==
  /\ \/ AtStep(r, {"nocommand"})
     \/ r \notin DryRun /\ AtStep(r, {"unknown"})
  /\ Report(r, "error")
  /\ UNCHANGED <<host, cancelled, faulted, latest, overlapped>>

WriteInDryRun(r) ==
  /\ AtStep(r, {"write"})
  /\ temp' = [temp EXCEPT ![r] = Torn]
  /\ pc' = [pc EXCEPT ![r] = "filling"]
  /\ UNCHANGED <<files, kernel, results, at, exit, cancelled, faulted, latest, overlapped>>

(* writeFile, which does not consult the context.  CreateTemp gives every  *)
(* call a new, empty file in the directory of the path.                    *)
CreateTemp(r) ==
  /\ r \notin DryRun
  /\ AtStep(r, {"write"})
  /\ temp' = [temp EXCEPT ![r] = Torn]
  /\ pc' = [pc EXCEPT ![r] = "filling"]
  /\ UNCHANGED <<files, kernel, results, at, exit, cancelled, faulted, latest, overlapped>>

FillUnchecked(r) ==
  /\ pc[r] = "filling"
  /\ temp' \in {temp, [temp EXCEPT ![r] = Current(r).value]}
  /\ pc' = [pc EXCEPT ![r] = "renaming"]
  /\ UNCHANGED <<files, kernel, results, at, exit, cancelled, faulted, latest, overlapped>>

(* Write, Chmod and Close have all succeeded.                              *)
FillTemp(r) ==
  /\ pc[r] = "filling"
  /\ temp' = [temp EXCEPT ![r] = Current(r).value]
  /\ pc' = [pc EXCEPT ![r] = "renaming"]
  /\ UNCHANGED <<files, kernel, results, at, exit, cancelled, faulted, latest, overlapped>>

(* The path now names what was the temporary file.                         *)
Rename(r) ==
  /\ pc[r] = "renaming"
  /\ files' = [files EXCEPT ![Current(r).path] = temp[r]]
  /\ temp' = [temp EXCEPT ![r] = Absent]
  /\ Report(r, "ok")
  /\ UNCHANGED <<kernel, cancelled, faulted, latest, overlapped>>

(* Any of the calls fails; the deferred Remove takes the file away.        *)
WriteFails(r) ==
  /\ \/ r \notin DryRun /\ AtStep(r, {"write"})
     \/ pc[r] \in {"filling", "renaming"}
  /\ temp' = [temp EXCEPT ![r] = Absent]
  /\ Fault(r)
  /\ Report(r, "error")
  /\ UNCHANGED <<files, kernel, cancelled, latest, overlapped>>

(* exec.Cmd refuses to start a child once the context is done.             *)
Start(r) ==
  /\ r \notin DryRun
  /\ AtStep(r, {"command"})
  /\ ~cancelled[r]
  /\ pc' = [pc EXCEPT ![r] = "running"]
  /\ at' = [at EXCEPT ![r] = 1]
  /\ exit' = [exit EXCEPT ![r] = TRUE]
  /\ UNCHANGED <<host, results, cancelled, faulted, latest, overlapped>>

StartRefused(r) ==
  /\ r \notin DryRun
  /\ AtStep(r, {"command"})
  /\ cancelled[r]
  /\ Report(r, "error")
  /\ UNCHANGED <<host, cancelled, faulted, latest, overlapped>>

StartFails(r) ==
  /\ r \notin DryRun
  /\ AtStep(r, {"command"})
  /\ Fault(r)
  /\ Report(r, "error")
  /\ UNCHANGED <<host, cancelled, latest, overlapped>>

EndRun(r) ==
  /\ pc[r] = "step"
  /\ ~Left(r)
  /\ pc' = [pc EXCEPT ![r] = "ok"]
  /\ UNCHANGED <<host, results, at, exit, cancelled, faulted, latest,
                 overlapped>>

-----------------------------------------------------------------------------
(* The child process.                                                      *)

ChildAlive(r) == at[r] <= Len(Current(r).effects)

Change(object, values) == kernel' = [kernel EXCEPT ![object] = values]

(* The effect succeeds: ok is its exit status.  Both "drop" and "delete"   *)
(* are followed by `|| true`.                                              *)
Happens(e, ok) ==
  \/ e.op = "replace" /\ ok /\ Change(e.object, {e.value})
  \/ /\ e.op = "delete" /\ ok
     /\ \/ kernel[e.object] = {} /\ UNCHANGED kernel
        \/ \E v \in kernel[e.object] : Change(e.object, kernel[e.object] \ {v})
  \/ /\ e.op = "add" /\ e.value \notin kernel[e.object] /\ ok
     /\ Change(e.object, kernel[e.object] \cup {e.value})
  \/ /\ e.op = "add" /\ e.value \in kernel[e.object] /\ ~ok
     /\ UNCHANGED kernel
  \/ e.op = "drop" /\ ok /\ Change(Table, {})
  \/ /\ e.op = "load" /\ files[Rendered] # Absent /\ ok
     /\ Change(Table, kernel[Table] \cup {files[Rendered]})
  \/ /\ e.op = "load" /\ files[Rendered] = Absent /\ ~ok
     /\ UNCHANGED kernel

Effects(r) ==
  /\ pc[r] = "running"
  /\ ChildAlive(r)
  /\ \E ok \in BOOLEAN :
       /\ Happens(Current(r).effects[at[r]], ok)
       /\ exit' = [exit EXCEPT ![r] = ok]
  /\ at' = [at EXCEPT ![r] = @ + 1]
  /\ UNCHANGED <<files, temp, pc, results, cancelled, faulted, latest, overlapped>>

(* The program fails and changes nothing; a shell goes on to the next.     *)
EffectFails(r) ==
  /\ pc[r] = "running"
  /\ ChildAlive(r)
  /\ exit' = [exit EXCEPT ![r] = FALSE]
  /\ faulted' = [faulted EXCEPT ![r] =
                   IF @ = "hidden" \/ at[r] < Len(Current(r).effects)
                   THEN "hidden" ELSE "seen"]
  /\ at' = [at EXCEPT ![r] = @ + 1]
  /\ UNCHANGED <<host, pc, results, cancelled, latest, overlapped>>

Exited(r) ==
  /\ pc[r] = "running"
  /\ ~ChildAlive(r)

IgnoringExit(r) ==
  /\ Exited(r)
  /\ Report(r, IF cancelled[r] THEN "error" ELSE "ok")
  /\ UNCHANGED <<host, cancelled, faulted, latest, overlapped>>

(* The exit status is the last effect's.  A context that is done makes an  *)
(* error of a command that had succeeded.                                  *)
Exit(r) ==
  /\ Exited(r)
  /\ Report(r, IF cancelled[r] \/ ~exit[r] THEN "error" ELSE "ok")
  /\ UNCHANGED <<host, cancelled, faulted, latest, overlapped>>

KillChildNever(r) == FALSE

KillChildInterrupted(r) ==
  /\ pc[r] = "running"
  /\ ChildAlive(r)
  /\ cancelled[r]
  /\ Report(r, "interrupted")
  /\ UNCHANGED <<host, cancelled, faulted, latest, overlapped>>

(* The context kills the child.  For `sh -c` it kills the shell only: the  *)
(* program the shell was waiting for holds the output pipe and goes on,    *)
(* and CombinedOutput waits for it.                                        *)
KillChild(r) ==
  /\ pc[r] = "running"
  /\ ChildAlive(r)
  /\ cancelled[r]
  /\ IF Current(r).shell
     THEN pc' = [pc EXCEPT ![r] = "draining"] /\ UNCHANGED <<results, at, exit>>
     ELSE Report(r, "error")
  /\ UNCHANGED <<host, cancelled, faulted, latest, overlapped>>

Drain(r) ==
  /\ pc[r] = "draining"
  /\ \/ UNCHANGED kernel
     \/ \E ok \in BOOLEAN : Happens(Current(r).effects[at[r]], ok)
  /\ Report(r, "error")
  /\ UNCHANGED <<files, temp, cancelled, faulted, latest, overlapped>>

-----------------------------------------------------------------------------
(* The environment.                                                        *)

(* The 90 s are over, or the client has gone.                              *)
Cancel(r) ==
  /\ Active(r)
  /\ ~cancelled[r]
  /\ cancelled' = [cancelled EXCEPT ![r] = TRUE]
  /\ UNCHANGED <<host, pc, results, at, exit, faulted, latest, overlapped>>

(* A daemon ends with its control group and starts again.                  *)
Stop(R) ==
  /\ \E r \in R : Active(r)
  /\ pc' = [r \in Runs |-> IF r \in R /\ Active(r) THEN "dead" ELSE pc[r]]
  /\ UNCHANGED <<host, results, at, exit, cancelled, faulted, latest,
                 overlapped>>

Loop(r) ==
  \/ Preview(r) \/ Malformed(r)
  \/ CreateTemp(r) \/ FillTemp(r) \/ Rename(r) \/ WriteFails(r)
  \/ Start(r) \/ StartRefused(r) \/ StartFails(r) \/ EndRun(r)
Wait(r) == Exit(r) \/ KillChild(r)
Child(r) == Effects(r) \/ EffectFails(r)

Next ==
  \/ \E r \in Runs :
       Request(r) \/ Loop(r) \/ Child(r) \/ Wait(r) \/ Drain(r) \/ Cancel(r)
  \/ Stop(DryRun)
  \/ Stop(Runs \ DryRun)

Spec == Init /\ [][Next]_vars

(* The goroutine of a run goes on, its timer fires, and a program started  *)
(* by a shell snippet (ip, nft, modprobe, install) ends.  A command run    *)
(* without a shell may hang (certbot, systemctl): the timer kills it.      *)
Fairness ==
  \A r \in Runs :
    /\ WF_vars(Loop(r))
    /\ WF_vars(Wait(r))
    /\ WF_vars(Drain(r))
    /\ WF_vars(Cancel(r))
FairSpec == Spec /\ Fairness

-----------------------------------------------------------------------------
(* Properties.                                                             *)

(* Every step before the last one reported succeeded, and a run is "ok"    *)
(* only with a good result for each step of its plan (Execute stops at the *)
(* first error).                                                           *)
ReportIsFaithful ==
  \A r \in Runs :
    /\ Len(results[r]) <= Len(Plan[r])
    /\ \A i \in 1 .. Len(results[r]) :
         (results[r][i] = "error") <=> (pc[r] = "error" /\ i = Len(results[r]))
    /\ pc[r] = "ok" => Len(results[r]) = Len(Plan[r])

(* The run is between the delete of the table and the load, or it ended    *)
(* there: killed, cancelled or failed inside the last command.             *)
InLoadGap(r) ==
  \/ /\ pc[r] \in {"running", "draining", "dead"}
     /\ Len(results[r]) = Len(Plan[r]) - 1
     /\ at[r] = 2 \/ (at[r] = 3 /\ ~exit[r])
  \/ /\ pc[r] = "error"
     /\ Len(results[r]) = Len(Plan[r])

(* Once an apply has succeeded, the router is without its table only while *)
(* some run is between delete and load, or because one ended there         *)
(* (builder.go: the load command is a delete and an nft -f).               *)
UnprotectedOnlyInLoadGap ==
  (\E r \in Runs \ DryRun : pc[r] = "ok") /\ kernel[Table] = {} =>
    \E r \in Runs : InLoadGap(r)

(* Whichever system call of writeFile fails and wherever a daemon is       *)
(* killed, no path a plan writes ever holds part of a file, no policy is   *)
(* loaded from one, and only a killed daemon leaves its temporary file     *)
(* behind (executor.go:78-115; docs/ARCHITECTURE.md:21: atomic writes).    *)
NoTornPolicy ==
  /\ Torn \notin kernel[Table]
  /\ \A p \in Paths : files[p] # Torn
  /\ \A r \in Runs : temp[r] # Absent => pc[r] \in {"filling", "renaming", "dead"}

(* What the plan asked for is there.                                       *)
EffectHolds(e) ==
  /\ e.op \in {"replace", "add"} => kernel[e.object] = {e.value}
  /\ e.op = "load" => kernel[Table] = {files[Rendered]}
Holds(step) ==
  /\ step.kind = "write" => files[step.path] = step.value
  /\ step.kind = "command" =>
       \A i \in DOMAIN step.effects : EffectHolds(step.effects[i])

(* A shell reports the status of its last program only, so a failure in    *)
(* the middle of a snippet is in no result: what follows leaves it out.    *)
NothingHidden == \A r \in Runs : faulted[r] # "hidden"

(* As long as applies do not overlap, "ok" means that the host is what the *)
(* plan says, whatever earlier runs left half done, if the plan sets every *)
(* file and object once (executor.go: Execute, builder.go: the snippets).  *)
Exact(r) == \A i \in DOMAIN Plan[r] : Holds(Plan[r][i])
SetsOnce(r) ==
  \A i, k \in DOMAIN Plan[r] :
    LET s == Plan[r][i]
        t == Plan[r][k] IN
      /\ s.kind = "write" /\ t.kind = "write" /\ s.path = t.path => i = k
      /\ s.kind = "command" /\ t.kind = "command" =>
           \A j \in DOMAIN s.effects, l \in DOMAIN t.effects :
             LET e == s.effects[j]
                 f == t.effects[l] IN
               /\ e.op \in {"replace", "add"} /\ f.op \in {"replace", "add"}
               /\ e.object = f.object
               => i = k /\ j = l
SerialApplyIsExact ==
  NothingHidden /\ overlapped = {} =>
    \A r \in Runs : latest = r /\ pc[r] = "ok" /\ SetsOnce(r) => Exact(r)

(* As long as applies do not overlap, a well-formed plan fails only when   *)
(* the host fails or its context is done: no earlier run, however it       *)
(* ended, makes a later one fail (builder.go: `ip rule del ...; ip rule    *)
(* add ...` and the load can be repeated from any point).                  *)
SerialApplySucceeds ==
  NothingHidden /\ overlapped = {} =>
    \A r \in Runs :
      pc[r] = "error" /\ WellFormed(r) => cancelled[r] \/ faulted[r] = "seen"

(* A step that a dry run takes changes nothing on the host (README.md: "by *)
(* default the daemon previews plans without changing the host").          *)
DryRunIsPure ==
  [][\A r \in DryRun :
       pc'[r] # pc[r] \/ results'[r] # results[r] => UNCHANGED host]_vars

(* Every apply is answered, even if a command hangs.                       *)
EveryApplyEnds == \A r \in Runs : Active(r) ~> ~Active(r)
=============================================================================
