--------------------------- MODULE ExecutorProofs ---------------------------
(***************************************************************************)
(* Theorems about Executor for any number of runs, any plans of the shape  *)
(* BuildPlan gives them, and any mixture of failures, timeouts and kills.  *)
(***************************************************************************)
EXTENDS Executor, TLAPS

USE HostAssumption, PlanAssumption DEF host

(* The run is at the last step of its plan, the load of the policy.        *)
OnLoad(r) == Len(results[r]) = Len(Plan[r]) - 1

(* Where a run is, and what it has reported.                               *)
RunInv(r) ==
  /\ Len(results[r]) <= Len(Plan[r])
  /\ \A i \in 1 .. Len(results[r]) :
       (results[r][i] = "error") <=> (pc[r] = "error" /\ i = Len(results[r]))
  /\ pc[r] = "idle" => results[r] = <<>>
  /\ pc[r] = "error" => results[r] # <<>>
  /\ pc[r] = "ok" => Len(results[r]) = Len(Plan[r])
  /\ pc[r] \in {"running", "draining"} =>
       /\ r \notin DryRun
       /\ Left(r)
       /\ Current(r).kind = "command"
       /\ at[r] \in 1 .. Len(Current(r).effects) + 1
  /\ pc[r] = "draining" => ChildAlive(r)
  /\ pc[r] \in {"filling", "renaming"} =>
       r \notin DryRun /\ Left(r) /\ Current(r).kind = "write"

(* The temporary file that is about to take the place of a path holds all  *)
(* of what the plan puts there, and a call that is over has none.          *)
WholeTemp(r) ==
  /\ pc[r] = "renaming" => temp[r] = Current(r).value
  /\ temp[r] # Absent => pc[r] \in {"filling", "renaming", "dead"}
Whole == \A r \in Runs : WholeTemp(r)

(* The load of the run has succeeded and nothing of it is left to go wrong.*)
Loaded(r) ==
  \/ pc[r] = "ok"
  \/ pc[r] = "step" /\ ~Left(r)
  \/ pc[r] = "running" /\ OnLoad(r) /\ at[r] = 3 /\ exit[r]

(* The strengthening of UnprotectedOnlyInLoadGap: it holds from the moment *)
(* a load succeeds, not only from the end of the run.                      *)
GapInv ==
  (\E r \in Runs \ DryRun : Loaded(r)) /\ kernel[Table] = {} =>
    \E r \in Runs : InLoadGap(r)

Untorn ==
  /\ \A p \in Paths : files[p] # Torn
  /\ Torn \notin kernel[Table]

Inv ==
  /\ TypeOK
  /\ \A r \in Runs : RunInv(r)
  /\ Untorn
  /\ GapInv

-----------------------------------------------------------------------------
(* Lemmas about plans and effects.                                         *)

(* Every step a run comes to is a step of its plan; it is the load exactly *)
(* at the end, and it does not drop the table before.                      *)
LEMMA CurrentStep ==
  ASSUME TypeOK, NEW r \in Runs, Left(r)
  PROVE  /\ Current(r) \in Step
         /\ OnLoad(r) => Current(r) = LoadCommand
         /\ ~OnLoad(r) => ~HasOp(Current(r), {"drop", "load"})
<1> DEFINE n == Len(results[r]) + 1
<1>1. n \in 1 .. Len(Plan[r]) /\ Plan[r] \in Seq(Step)
  BY DEF TypeOK, Left
<1>2. Current(r) = Plan[r][n]
  BY DEF Current
<1>3. OnLoad(r) <=> n = Len(Plan[r])
  BY <1>1 DEF OnLoad, TypeOK
<1>4. Plan[r][n] \in Step
  BY <1>1
<1> QED BY <1>1, <1>2, <1>3, <1>4

LEMMA CommandEffects ==
  ASSUME NEW step \in Step, step.kind = "command"
  PROVE  step.effects \in Seq(Effect) /\ step.shell \in BOOLEAN
  BY DEF Step

LEMMA EffectShape ==
  ASSUME NEW e \in Effect
  PROVE  /\ e.op \in {"replace", "add", "delete", "drop", "load"}
         /\ e.op \in {"replace", "add", "delete"} => e.object \in Objects \ {Table}
         /\ e.op \in {"replace", "add"} => e.value \in Values
  BY DEF Effect

(* What an effect does to the nftables table: only "drop" empties it, and  *)
(* a load that succeeds leaves something in it.                            *)
LEMMA EffectOnTable ==
  ASSUME TypeOK, Untorn, NEW e \in Effect, NEW ok \in BOOLEAN, Happens(e, ok)
  PROVE  /\ kernel' \in [Objects -> SUBSET (Values \cup {Torn})]
         /\ Torn \notin kernel'[Table]
         /\ kernel'[Table] = {} => kernel[Table] = {} \/ e.op = "drop"
         /\ e.op = "load" /\ ok => kernel'[Table] # {}
<1>a. /\ e.op \in {"replace", "add", "delete", "drop", "load"}
      /\ e.op \in {"replace", "add", "delete"} => e.object \in Objects \ {Table}
      /\ e.op \in {"replace", "add"} => e.value \in Values
  BY EffectShape
<1>b. /\ kernel \in [Objects -> SUBSET (Values \cup {Torn})]
      /\ Torn \notin kernel[Table]
      /\ files[Rendered] \in Values \cup {Absent}
      /\ Table \in Objects
  BY DEF TypeOK, Untorn
<1>1. CASE e.op \in {"replace", "add", "delete"}
  <2>1. kernel' = kernel
        \/ (\E values \in SUBSET (Values \cup {Torn}) : Change(e.object, values))
    <3>1. CASE e.op = "replace"
      BY <1>a, <1>b, <3>1 DEF Happens
    <3>2. CASE e.op = "delete"
      <4>1. PICK v : kernel' = kernel \/ Change(e.object, kernel[e.object] \ {v})
        BY <3>2 DEF Happens
      <4> QED BY <1>a, <1>b, <3>2, <4>1
    <3>3. CASE e.op = "add"
      <4>1. kernel' = kernel
            \/ Change(e.object, kernel[e.object] \cup {e.value})
        BY <3>3 DEF Happens
      <4> QED BY <1>a, <1>b, <3>3, <4>1
    <3> QED BY <1>1, <3>1, <3>2, <3>3
  <2>2. kernel' \in [Objects -> SUBSET (Values \cup {Torn})]
        /\ kernel'[Table] = kernel[Table]
    BY <1>a, <1>b, <1>1, <2>1 DEF Change
  <2> QED BY <1>b, <1>1, <2>2
<1>2. CASE e.op = "drop"
  <2>1. Change(Table, {})
    BY <1>2 DEF Happens
  <2> QED BY <1>b, <1>2, <2>1 DEF Change
<1>3. CASE e.op = "load"
  <2>1. \/ kernel' = kernel /\ ~ok
        \/ /\ files[Rendered] # Absent
           /\ Change(Table, kernel[Table] \cup {files[Rendered]})
    BY <1>3 DEF Happens
  <2>2. CASE kernel' = kernel /\ ~ok
    BY <1>b, <1>3, <2>2
  <2>3. CASE files[Rendered] # Absent /\ Change(Table, kernel[Table] \cup {files[Rendered]})
    <3>1. files[Rendered] \in Values
      BY <1>b, <2>3
    <3>2. kernel' = [kernel EXCEPT ![Table] = kernel[Table] \cup {files[Rendered]}]
      BY <2>3 DEF Change
    <3>3. kernel'[Table] = kernel[Table] \cup {files[Rendered]}
      BY <1>b, <3>2
    <3>4. kernel' \in [Objects -> SUBSET (Values \cup {Torn})]
      BY <1>b, <3>1, <3>2
    <3> QED BY <1>b, <1>3, <3>1, <3>3, <3>4
  <2> QED BY <2>1, <2>2, <2>3
<1> QED BY <1>a, <1>1, <1>2, <1>3

(* The effect a child is about to have is one of its command's, and drops  *)
(* the table only as the first effect of a load.                           *)
LEMMA NextEffect ==
  ASSUME TypeOK, NEW r \in Runs, RunInv(r),
         pc[r] \in {"running", "draining"}, ChildAlive(r)
  PROVE  /\ Current(r).effects[at[r]] \in Effect
         /\ Current(r).effects[at[r]].op = "drop" => OnLoad(r) /\ at[r] = 1
         /\ OnLoad(r) => at[r] \in {1, 2} /\ (at[r] = 2 => Current(r).effects[at[r]].op = "load")
<1>1. /\ Left(r) /\ Current(r).kind = "command" /\ at[r] \in 1 .. Len(Current(r).effects)
  BY DEF RunInv, ChildAlive, TypeOK
<1>2. Current(r) \in Step
  BY <1>1, CurrentStep
<1>3. Current(r).effects \in Seq(Effect)
  BY <1>1, <1>2, CommandEffects
<1>4. Current(r).effects[at[r]] \in Effect
  BY <1>1, <1>3
<1>5. CASE OnLoad(r)
  <2>1. Current(r) = LoadCommand
    BY <1>1, <1>5, CurrentStep
  <2> QED BY <1>1, <1>4, <1>5, <2>1 DEF LoadCommand
<1>6. CASE ~OnLoad(r)
  <2>1. ~HasOp(Current(r), {"drop", "load"})
    BY <1>1, <1>6, CurrentStep
  <2> QED BY <1>1, <1>3, <1>4, <1>6, <2>1 DEF HasOp
<1> QED BY <1>5, <1>6
-----------------------------------------------------------------------------
(* The invariant is inductive.                                             *)

LEMMA InitInv == Init => Inv
<1> SUFFICES ASSUME Init PROVE Inv
  OBVIOUS
<1>1. TypeOK
  <2>1. kernel \in [Objects -> SUBSET (Values \cup {Torn})]
    BY DEF Init
  <2>2. results \in [Runs -> Seq({"ok", "error"})]
    BY DEF Init
  <2> QED BY <2>1, <2>2 DEF Init, TypeOK
<1>2. ASSUME NEW r \in Runs PROVE RunInv(r)
  <2>1. results[r] = <<>> /\ pc[r] = "idle" /\ Len(results[r]) = 0
    BY DEF Init
  <2> QED BY <2>1 DEF RunInv
<1>3. Untorn
  BY DEF Init, Untorn
<1>4. \A r \in Runs : ~Loaded(r)
  BY DEF Init, Loaded
<1> QED BY <1>1, <1>2, <1>3, <1>4 DEF Inv, GapInv

(* Reporting a result keeps the type and the place of the run; the others  *)
(* are not touched.                                                        *)
LEMMA ReportKeeps ==
  ASSUME TypeOK, NEW r \in Runs, RunInv(r), Left(r),
         pc[r] # "error", NEW result \in {"ok", "error"}, Report(r, result)
  PROVE  /\ pc' \in [Runs -> {"idle", "step", "filling", "renaming", "running", "draining",
                              "ok", "error", "dead"}]
         /\ results' \in [Runs -> Seq({"ok", "error"})]
         /\ at' \in [Runs -> Nat]
         /\ exit' \in [Runs -> BOOLEAN]
         /\ RunInv(r)'
         /\ \A q \in Runs \ {r} :
              pc'[q] = pc[q] /\ results'[q] = results[q] /\ at'[q] = at[q]
              /\ exit'[q] = exit[q]
<1>1. /\ pc' = [pc EXCEPT ![r] = IF result = "ok" THEN "step" ELSE "error"]
      /\ results' = [results EXCEPT ![r] = Append(results[r], result)]
      /\ at' = [at EXCEPT ![r] = 1]
      /\ exit' = [exit EXCEPT ![r] = TRUE]
  BY DEF Report
<1>2. /\ results'[r] = Append(results[r], result)
      /\ pc'[r] = IF result = "ok" THEN "step" ELSE "error"
  BY <1>1 DEF TypeOK
<1>3. results[r] \in Seq({"ok", "error"}) /\ Plan[r] \in Seq(Step)
  BY DEF TypeOK
<1>4. /\ Len(results'[r]) = Len(results[r]) + 1
      /\ results'[r][Len(results[r]) + 1] = result
      /\ \A i \in 1 .. Len(results[r]) : results'[r][i] = results[r][i]
      /\ results'[r] # <<>>
      /\ Len(results[r]) \in Nat /\ Len(Plan[r]) \in Nat
  <2>1. Len(results[r]) \in Nat /\ Len(Plan[r]) \in Nat
    BY <1>3
  <2>2. Len(results'[r]) = Len(results[r]) + 1
    BY <1>2, <1>3
  <2>3. results'[r][Len(results[r]) + 1] = result
    BY <1>2, <1>3
  <2>4. \A i \in 1 .. Len(results[r]) : results'[r][i] = results[r][i]
    BY <1>2, <1>3
  <2>5. results'[r] # <<>>
    BY <2>1, <2>2
  <2> QED BY <2>1, <2>2, <2>3, <2>4, <2>5
<1>5. \A i \in 1 .. Len(results[r]) : results[r][i] # "error"
  BY DEF RunInv
<1>6. \A i \in 1 .. Len(results'[r]) :
        (results'[r][i] = "error") <=> (pc'[r] = "error" /\ i = Len(results'[r]))
  <2> SUFFICES ASSUME NEW i \in 1 .. Len(results'[r])
               PROVE  (results'[r][i] = "error")
                        <=> (pc'[r] = "error" /\ i = Len(results'[r]))
    OBVIOUS
  <2>1. CASE i = Len(results[r]) + 1
    BY <1>2, <1>4, <2>1
  <2>2. CASE i \in 1 .. Len(results[r])
    BY <1>4, <1>5, <2>2
  <2> QED BY <1>4, <2>1, <2>2
<1>7. RunInv(r)'
  BY <1>2, <1>4, <1>6 DEF RunInv, Left
<1> QED BY <1>1, <1>7 DEF TypeOK

(* What a run has reached depends on its own variables only.               *)
LEMMA RunInvLocal ==
  ASSUME NEW r \in Runs, RunInv(r), pc'[r] = pc[r], results'[r] = results[r],
         at'[r] = at[r]
  PROVE  RunInv(r)'
  BY DEF RunInv, Left, Current, ChildAlive

(* A step of one run keeps the invariant if it keeps that run's part and   *)
(* does not lose the reason for an empty table.                            *)
LEMMA OneRunMoves ==
  ASSUME Inv, NEW r \in Runs,
         \A q \in Runs \ {r} :
           /\ pc'[q] = pc[q] /\ results'[q] = results[q]
           /\ at'[q] = at[q] /\ exit'[q] = exit[q],
         TypeOK', RunInv(r)', Untorn',
         kernel'[Table] = {} => kernel[Table] = {} \/ InLoadGap(r)',
         r \notin DryRun /\ Loaded(r)' => Loaded(r) \/ kernel'[Table] # {},
         InLoadGap(r) => InLoadGap(r)' \/ kernel'[Table] # {}
  PROVE  Inv'
<1>1. \A q \in Runs : RunInv(q)'
  <2> SUFFICES ASSUME NEW q \in Runs, q # r PROVE RunInv(q)'
    OBVIOUS
  <2>1. RunInv(q)
    BY DEF Inv
  <2> QED BY <2>1, RunInvLocal
<1>2. \A q \in Runs \ {r} : (Loaded(q)' <=> Loaded(q)) /\ (InLoadGap(q)' <=> InLoadGap(q))
  BY DEF Loaded, InLoadGap, Left, OnLoad
<1>3. GapInv'
  BY <1>2 DEF GapInv, Inv
<1> QED BY <1>1, <1>3 DEF Inv

(* A report made outside a child process.                                  *)
LEMMA ReportAtStep ==
  ASSUME Inv, NEW r \in Runs, pc[r] \in {"step", "filling", "renaming"}, Left(r),
         NEW result \in {"ok", "error"}, Report(r, result),
         kernel' = kernel, TypeOK', Untorn',
         result = "ok" /\ r \notin DryRun => Current(r).kind # "command"
  PROVE  Inv'
<1>1. TypeOK /\ RunInv(r)
  BY DEF Inv
<1>2. /\ RunInv(r)'
      /\ \A q \in Runs \ {r} :
           /\ pc'[q] = pc[q] /\ results'[q] = results[q]
           /\ at'[q] = at[q] /\ exit'[q] = exit[q]
  BY <1>1, ReportKeeps
<1>3. ~InLoadGap(r)
  BY DEF InLoadGap
<1>4. ASSUME r \notin DryRun, Loaded(r)' PROVE FALSE
  <2>1. /\ pc'[r] = IF result = "ok" THEN "step" ELSE "error"
        /\ Len(results'[r]) = Len(results[r]) + 1
        /\ Len(results[r]) \in Nat /\ Len(Plan[r]) \in Nat
    BY <1>1 DEF Report, TypeOK
  <2>2. result = "ok" /\ ~(Len(results'[r]) < Len(Plan[r]))
    BY <1>4, <2>1 DEF Loaded, Left
  <2>3. OnLoad(r)
    BY <2>1, <2>2 DEF OnLoad, Left
  <2>4. Current(r) = LoadCommand
    BY <1>1, <2>3, CurrentStep
  <2> QED BY <1>4, <2>2, <2>4 DEF LoadCommand
<1> QED BY <1>2, <1>3, <1>4, OneRunMoves

LEMMA LoopInv ==
  ASSUME Inv, Whole, NEW r \in Runs, Loop(r)
  PROVE  Inv'
<1>0. TypeOK /\ RunInv(r) /\ Untorn
  BY DEF Inv
<1>1. CASE Preview(r)
  <2>1. pc[r] = "step" /\ Left(r) /\ Report(r, "ok") /\ UNCHANGED <<files, temp, kernel>>
    BY <1>1 DEF Preview, AtStep
  <2>2. TypeOK' /\ Untorn'
    BY <1>0, <1>1, <2>1, ReportKeeps DEF Preview, TypeOK, Untorn
  <2>3. r \notin DryRun => Current(r).kind # "command"
    BY <1>1 DEF Preview, AtStep
  <2> QED BY <2>1, <2>2, <2>3, ReportAtStep
<1>2. CASE Malformed(r)
  <2>1. pc[r] = "step" /\ Left(r) /\ Report(r, "error") /\ UNCHANGED <<files, temp, kernel>>
    BY <1>2 DEF Malformed, AtStep
  <2>2. TypeOK' /\ Untorn'
    BY <1>0, <1>2, <2>1, ReportKeeps DEF Malformed, TypeOK, Untorn
  <2> QED BY <2>1, <2>2, ReportAtStep
<1>3. CASE CreateTemp(r) \/ FillTemp(r)
  <2>1. /\ pc[r] \in {"step", "filling"} /\ Left(r) /\ r \notin DryRun
        /\ Current(r).kind = "write"
        /\ \E place \in {"filling", "renaming"} : pc' = [pc EXCEPT ![r] = place]
        /\ \E part \in {Torn, Current(r).value} : temp' = [temp EXCEPT ![r] = part]
        /\ UNCHANGED <<files, kernel, results, at, exit, cancelled, faulted, latest, overlapped>>
    BY <1>0, <1>3 DEF CreateTemp, FillTemp, AtStep, RunInv
  <2>2. Current(r) \in Step
    BY <1>0, <2>1, CurrentStep
  <2>3. Current(r).value \in Values
    BY <2>1, <2>2 DEF Step
  <2>4. TypeOK' /\ Untorn'
    BY <1>0, <2>1, <2>3 DEF TypeOK, Untorn
  <2>5. pc'[r] \in {"filling", "renaming"} /\ Left(r)' /\ Current(r)' = Current(r)
    BY <1>0, <2>1 DEF TypeOK, Left, Current
  <2>6. RunInv(r)'
    BY <1>0, <2>1, <2>5 DEF RunInv
  <2>7. ~InLoadGap(r) /\ ~Loaded(r)'
    BY <2>1, <2>5 DEF InLoadGap, Loaded
  <2> QED BY <1>0, <2>1, <2>4, <2>6, <2>7, OneRunMoves DEF TypeOK
<1>4. CASE Rename(r)
  <2>1. /\ pc[r] = "renaming" /\ Left(r) /\ Current(r).kind = "write"
        /\ Report(r, "ok") /\ kernel' = kernel
        /\ temp' = [temp EXCEPT ![r] = Absent]
        /\ files' = [files EXCEPT ![Current(r).path] = Current(r).value]
    BY <1>0, <1>4 DEF Rename, RunInv, Whole, WholeTemp
  <2>2. Current(r).value \in Values
    <3>1. Current(r) \in Step
      BY <1>0, <2>1, CurrentStep
    <3> QED BY <2>1, <3>1 DEF Step
  <2>3. /\ files' \in [Paths -> Values \cup {Absent, Torn}]
        /\ temp' \in [Runs -> Values \cup {Absent, Torn}]
        /\ \A p \in Paths : files'[p] # Torn
    BY <1>0, <2>1, <2>2 DEF TypeOK, Untorn
  <2>4. TypeOK' /\ Untorn'
    BY <1>0, <1>4, <2>1, <2>3, ReportKeeps DEF Rename, TypeOK, Untorn
  <2> QED BY <2>1, <2>4, ReportAtStep
<1>9. CASE WriteFails(r)
  <2>1. /\ pc[r] \in {"step", "filling", "renaming"} /\ Left(r) /\ Report(r, "error")
        /\ temp' = [temp EXCEPT ![r] = Absent] /\ UNCHANGED <<files, kernel>>
    BY <1>0, <1>9 DEF WriteFails, AtStep, RunInv
  <2>2. TypeOK' /\ Untorn'
    BY <1>0, <1>9, <2>1, ReportKeeps DEF WriteFails, Fault, TypeOK, Untorn
  <2> QED BY <2>1, <2>2, ReportAtStep
<1>5. CASE StartRefused(r)
  <2>1. pc[r] = "step" /\ Left(r) /\ Report(r, "error") /\ UNCHANGED <<files, temp, kernel>>
    BY <1>5 DEF StartRefused, AtStep
  <2>2. TypeOK' /\ Untorn'
    BY <1>0, <1>5, <2>1, ReportKeeps DEF StartRefused, TypeOK, Untorn
  <2> QED BY <2>1, <2>2, ReportAtStep
<1>6. CASE StartFails(r)
  <2>1. pc[r] = "step" /\ Left(r) /\ Report(r, "error") /\ UNCHANGED <<files, temp, kernel>>
    BY <1>6 DEF StartFails, AtStep
  <2>2. TypeOK' /\ Untorn'
    BY <1>0, <1>6, <2>1, ReportKeeps DEF StartFails, Fault, TypeOK, Untorn
  <2> QED BY <2>1, <2>2, ReportAtStep
<1>7. CASE Start(r)
  <2>1. /\ pc[r] = "step" /\ Left(r) /\ Current(r).kind = "command" /\ r \notin DryRun
        /\ pc' = [pc EXCEPT ![r] = "running"]
        /\ at' = [at EXCEPT ![r] = 1]
        /\ exit' = [exit EXCEPT ![r] = TRUE]
        /\ UNCHANGED <<files, temp, kernel, results>>
    BY <1>7 DEF Start, AtStep
  <2>2. TypeOK' /\ Untorn'
    BY <1>0, <1>7, <2>1 DEF Start, TypeOK, Untorn
  <2>3. Current(r).effects \in Seq(Effect)
    BY <1>0, <2>1, CurrentStep, CommandEffects
  <2>4. /\ pc'[r] = "running" /\ at'[r] = 1
        /\ Left(r)' /\ Current(r)' = Current(r)
    BY <1>0, <2>1 DEF TypeOK, Left, Current
  <2>5. RunInv(r)'
    BY <1>0, <2>1, <2>3, <2>4 DEF RunInv
  <2>6. ~InLoadGap(r) /\ ~Loaded(r)'
    BY <2>1, <2>4 DEF InLoadGap, Loaded
  <2> QED BY <1>0, <2>1, <2>2, <2>5, <2>6, OneRunMoves DEF TypeOK
<1>8. CASE EndRun(r)
  <2>1. /\ pc[r] = "step" /\ ~Left(r)
        /\ pc' = [pc EXCEPT ![r] = "ok"]
        /\ UNCHANGED <<files, temp, kernel, results, at, exit>>
    BY <1>8 DEF EndRun
  <2>2. TypeOK' /\ Untorn'
    BY <1>0, <1>8, <2>1 DEF EndRun, TypeOK, Untorn
  <2>3. Len(results[r]) = Len(Plan[r])
    BY <1>0, <2>1 DEF RunInv, Left, TypeOK
  <2>4. RunInv(r)'
    BY <1>0, <2>1, <2>3 DEF RunInv, TypeOK
  <2>5. Loaded(r) /\ ~InLoadGap(r)
    BY <2>1 DEF Loaded, InLoadGap
  <2> QED BY <1>0, <2>1, <2>2, <2>4, <2>5, OneRunMoves DEF TypeOK
<1> QED
  BY <1>1, <1>2, <1>3, <1>4, <1>5, <1>6, <1>7, <1>8, <1>9 DEF Loop

(* The child process does something: the run stays where it is.            *)
LEMMA ChildInv ==
  ASSUME Inv, NEW r \in Runs, Child(r)
  PROVE  Inv'
<1>0. TypeOK /\ RunInv(r) /\ Untorn
  BY DEF Inv
<1> DEFINE e == Current(r).effects[at[r]]
<1>1. pc[r] = "running" /\ ChildAlive(r) /\ at' = [at EXCEPT ![r] = at[r] + 1]
      /\ UNCHANGED <<files, temp, pc, results>>
  BY DEF Child, Effects, EffectFails
<1>2. /\ e \in Effect
      /\ e.op = "drop" => OnLoad(r) /\ at[r] = 1
      /\ OnLoad(r) => at[r] \in {1, 2} /\ (at[r] = 2 => e.op = "load")
  BY <1>0, <1>1, NextEffect
<1>3. PICK ok \in BOOLEAN :
        /\ exit' = [exit EXCEPT ![r] = ok]
        /\ Happens(e, ok) \/ (kernel' = kernel /\ ~ok)
  BY DEF Child, Effects, EffectFails
<1>4. /\ kernel' \in [Objects -> SUBSET (Values \cup {Torn})]
      /\ Torn \notin kernel'[Table]
      /\ kernel'[Table] = {} => kernel[Table] = {} \/ e.op = "drop"
      /\ e.op = "load" /\ ok => kernel'[Table] # {}
  <2>1. CASE Happens(e, ok)
    BY <1>0, <1>2, <2>1, EffectOnTable
  <2>2. CASE kernel' = kernel /\ ~ok
    BY <1>0, <2>2 DEF TypeOK, Untorn
  <2> QED BY <1>3, <2>1, <2>2
<1>5. TypeOK'
  <2>1. UNCHANGED <<files, temp, pc, results, cancelled, latest, overlapped>>
        /\ faulted' \in [Runs -> {"none", "seen", "hidden"}]
    BY <1>0 DEF Child, Effects, EffectFails, TypeOK
  <2>2. at' \in [Runs -> Nat] /\ exit' \in [Runs -> BOOLEAN]
    BY <1>0, <1>1, <1>3 DEF TypeOK
  <2> QED BY <1>0, <1>4, <2>1, <2>2 DEF TypeOK
<1>6. Untorn'
  BY <1>0, <1>1, <1>4 DEF Untorn
<1>7. /\ pc'[r] = "running" /\ results'[r] = results[r]
      /\ at'[r] = at[r] + 1 /\ exit'[r] = ok
      /\ Left(r)' = Left(r) /\ Current(r)' = Current(r)
      /\ OnLoad(r)' = OnLoad(r)
  BY <1>0, <1>1, <1>3 DEF TypeOK, Left, Current, OnLoad
<1>8. RunInv(r)'
  <2>1. at[r] \in Nat /\ at[r] >= 1 /\ at[r] <= Len(Current(r).effects)
    BY <1>0, <1>1 DEF RunInv, ChildAlive, TypeOK
  <2>2. Len(Current(r).effects) \in Nat
    BY <1>0, <1>1, CurrentStep, CommandEffects DEF RunInv
  <2>3. at'[r] \in 1 .. Len(Current(r)'.effects) + 1
    BY <1>7, <2>1, <2>2
  <2> QED BY <1>0, <1>1, <1>7, <2>3 DEF RunInv
<1>9. InLoadGap(r) => InLoadGap(r)' \/ kernel'[Table] # {}
  <2> SUFFICES ASSUME InLoadGap(r), kernel'[Table] = {} PROVE InLoadGap(r)'
    OBVIOUS
  <2>1. OnLoad(r) /\ at[r] \in {1, 2}
    BY <1>1, <1>2 DEF InLoadGap, OnLoad
  <2>2. at[r] = 2
    BY <1>1, <2>1 DEF InLoadGap
  <2>3. e.op = "load" /\ ~ok
    BY <1>2, <1>4, <2>1, <2>2
  <2> QED BY <1>7, <2>1, <2>2, <2>3 DEF InLoadGap, OnLoad
<1>10. kernel'[Table] = {} => kernel[Table] = {} \/ InLoadGap(r)'
  <2>1. e.op = "drop" => InLoadGap(r)'
    BY <1>2, <1>7 DEF InLoadGap, OnLoad
  <2> QED BY <1>4, <2>1
<1>11. Loaded(r)' => Loaded(r) \/ kernel'[Table] # {}
  <2> SUFFICES ASSUME Loaded(r)' PROVE kernel'[Table] # {}
    OBVIOUS
  <2>1. OnLoad(r) /\ at'[r] = 3 /\ ok
    BY <1>7 DEF Loaded
  <2>2. at[r] = 2
    BY <1>0, <1>7, <2>1 DEF TypeOK
  <2> QED BY <1>2, <1>4, <2>1, <2>2
<1>12. \A q \in Runs \ {r} :
         /\ pc'[q] = pc[q] /\ results'[q] = results[q]
         /\ at'[q] = at[q] /\ exit'[q] = exit[q]
  BY <1>0, <1>1, <1>3 DEF TypeOK
<1> QED
  BY <1>5, <1>6, <1>8, <1>9, <1>10, <1>11, <1>12, OneRunMoves

(* The result of a command is reported: an error if the run was inside its *)
(* load, so that an empty table stays explained.                           *)
LEMMA ReportAtChild ==
  ASSUME Inv, NEW r \in Runs, pc[r] \in {"running", "draining"},
         NEW result \in {"ok", "error"}, Report(r, result),
         TypeOK', Untorn',
         kernel'[Table] = {} => kernel[Table] = {} \/ OnLoad(r),
         result = "ok" =>
           /\ kernel' = kernel /\ pc[r] = "running" /\ exit[r]
           /\ at[r] = Len(Current(r).effects) + 1
  PROVE  Inv'
<1>1. TypeOK /\ RunInv(r) /\ Left(r) /\ r \notin DryRun
  BY DEF Inv, RunInv
<1>2. /\ RunInv(r)'
      /\ \A q \in Runs \ {r} :
           /\ pc'[q] = pc[q] /\ results'[q] = results[q]
           /\ at'[q] = at[q] /\ exit'[q] = exit[q]
  BY <1>1, ReportKeeps
<1>3. /\ pc'[r] = IF result = "ok" THEN "step" ELSE "error"
      /\ Len(results'[r]) = Len(results[r]) + 1
      /\ Len(results[r]) \in Nat /\ Len(Plan[r]) \in Nat
  BY <1>1 DEF Report, TypeOK
<1>4. OnLoad(r) /\ result = "error" => InLoadGap(r)'
  BY <1>3 DEF OnLoad, InLoadGap
<1>5. OnLoad(r) /\ result = "ok" => at[r] = 3 /\ exit[r] /\ pc[r] = "running"
  <2> SUFFICES ASSUME OnLoad(r), result = "ok"
               PROVE  at[r] = 3 /\ exit[r] /\ pc[r] = "running"
    OBVIOUS
  <2>1. Current(r) = LoadCommand
    BY <1>1, CurrentStep
  <2>2. Len(Current(r).effects) = 2
    BY <2>1 DEF LoadCommand
  <2>3. at[r] = 3
    BY <2>2
  <2>4. exit[r] /\ pc[r] = "running"
    OBVIOUS
  <2> QED BY <2>3, <2>4
<1>6. InLoadGap(r) => InLoadGap(r)'
  <2> SUFFICES ASSUME InLoadGap(r) PROVE InLoadGap(r)'
    OBVIOUS
  <2>1. OnLoad(r)
    BY DEF InLoadGap, OnLoad
  <2>2. result # "ok"
    BY <1>5, <2>1 DEF InLoadGap
  <2> QED BY <1>4, <2>1, <2>2
<1>7. Loaded(r)' => Loaded(r)
  <2> SUFFICES ASSUME Loaded(r)' PROVE Loaded(r)
    OBVIOUS
  <2>1. result = "ok" /\ ~(Len(results'[r]) < Len(Plan[r]))
    BY <1>3 DEF Loaded, Left
  <2>2. OnLoad(r)
    BY <1>1, <1>3, <2>1 DEF OnLoad, Left
  <2> QED BY <1>5, <2>1, <2>2 DEF Loaded
<1>8. kernel'[Table] = {} => kernel[Table] = {} \/ InLoadGap(r)'
  BY <1>4
<1> QED BY <1>2, <1>6, <1>7, <1>8, OneRunMoves

LEMMA WaitInv ==
  ASSUME Inv, NEW r \in Runs, Wait(r) \/ Drain(r)
  PROVE  Inv'
<1>0. TypeOK /\ RunInv(r) /\ Untorn
  BY DEF Inv
<1>1. CASE Exit(r)
  <2> DEFINE result == IF cancelled[r] \/ ~exit[r] THEN "error" ELSE "ok"
  <2>1. /\ pc[r] = "running" /\ ~ChildAlive(r)
        /\ Report(r, result)
        /\ UNCHANGED <<files, temp, kernel, cancelled, faulted, latest, overlapped>>
    BY <1>1 DEF Exit, Exited
  <2>2. Left(r) /\ result \in {"ok", "error"}
    BY <1>0, <2>1 DEF RunInv
  <2>3. TypeOK' /\ Untorn'
    BY <1>0, <2>1, <2>2, ReportKeeps DEF TypeOK, Untorn
  <2>4. at[r] = Len(Current(r).effects) + 1
    <3>1. Len(Current(r).effects) \in Nat
      BY <1>0, <2>1, CurrentStep, CommandEffects DEF RunInv
    <3> QED BY <1>0, <2>1, <3>1 DEF RunInv, ChildAlive
  <2> HIDE DEF result
  <2>5. result = "ok" => exit[r]
    BY DEF result
  <2> QED BY <2>1, <2>2, <2>3, <2>4, <2>5, ReportAtChild
<1>2. CASE KillChild(r) /\ Current(r).shell
  <2>1. /\ pc[r] = "running" /\ ChildAlive(r)
        /\ pc' = [pc EXCEPT ![r] = "draining"]
        /\ UNCHANGED <<files, temp, kernel, results, at, exit, cancelled, faulted,
                       latest, overlapped>>
    BY <1>2 DEF KillChild
  <2>2. TypeOK' /\ Untorn'
    BY <1>0, <2>1 DEF TypeOK, Untorn
  <2>3. pc'[r] = "draining" /\ Left(r)' = Left(r) /\ Current(r)' = Current(r)
    BY <1>0, <2>1 DEF TypeOK, Left, Current
  <2>4. RunInv(r)'
    BY <1>0, <2>1, <2>3 DEF RunInv, ChildAlive
  <2>5. InLoadGap(r) => InLoadGap(r)'
    BY <2>1, <2>3 DEF InLoadGap
  <2>6. ~Loaded(r)'
    BY <2>3 DEF Loaded
  <2> QED BY <1>0, <2>1, <2>2, <2>4, <2>5, <2>6, OneRunMoves DEF TypeOK
<1>3. CASE KillChild(r) /\ ~Current(r).shell
  <2>1. /\ pc[r] = "running" /\ Report(r, "error")
        /\ UNCHANGED <<files, temp, kernel, cancelled, faulted, latest, overlapped>>
    BY <1>3 DEF KillChild
  <2>2. Left(r)
    BY <1>0, <2>1 DEF RunInv
  <2>3. TypeOK' /\ Untorn'
    BY <1>0, <2>1, <2>2, ReportKeeps DEF TypeOK, Untorn
  <2> QED BY <2>1, <2>3, ReportAtChild
<1>4. CASE Drain(r)
  <2> DEFINE e == Current(r).effects[at[r]]
  <2>1. /\ pc[r] = "draining" /\ Report(r, "error")
        /\ UNCHANGED <<files, temp, cancelled, faulted, latest, overlapped>>
        /\ kernel' = kernel \/ \E ok \in BOOLEAN : Happens(e, ok)
    BY <1>4 DEF Drain
  <2>2. Left(r) /\ ChildAlive(r)
    BY <1>0, <2>1 DEF RunInv
  <2>3. e \in Effect /\ (e.op = "drop" => OnLoad(r))
    BY <1>0, <2>1, <2>2, NextEffect
  <2>4. /\ kernel' \in [Objects -> SUBSET (Values \cup {Torn})]
        /\ Torn \notin kernel'[Table]
        /\ kernel'[Table] = {} => kernel[Table] = {} \/ OnLoad(r)
    <3>1. CASE kernel' = kernel
      BY <1>0, <3>1 DEF TypeOK, Untorn
    <3>2. ASSUME NEW ok \in BOOLEAN, Happens(e, ok)
          PROVE  /\ kernel' \in [Objects -> SUBSET (Values \cup {Torn})]
                 /\ Torn \notin kernel'[Table]
                 /\ kernel'[Table] = {} => kernel[Table] = {} \/ e.op = "drop"
      BY <1>0, <2>3, <3>2, EffectOnTable
    <3> QED BY <2>1, <2>3, <3>1, <3>2
  <2>5. TypeOK' /\ Untorn'
    BY <1>0, <2>1, <2>2, <2>4, ReportKeeps DEF TypeOK, Untorn
  <2> QED BY <2>1, <2>4, <2>5, ReportAtChild
<1> QED BY <1>1, <1>2, <1>3, <1>4 DEF Wait

LEMMA StepInv == Inv /\ Whole /\ [Next]_vars => Inv'
<1> SUFFICES ASSUME Inv, Whole, [Next]_vars PROVE Inv'
  OBVIOUS
<1>0. TypeOK /\ Untorn
  BY DEF Inv
<1>1. ASSUME NEW r \in Runs, Request(r) PROVE Inv'
  <2>1. /\ pc[r] = "idle" /\ pc' = [pc EXCEPT ![r] = "step"]
        /\ UNCHANGED <<files, temp, kernel, results, at, exit, cancelled, faulted>>
        /\ latest' \in {latest, r}
    BY <1>1 DEF Request
  <2>2. overlapped' \subseteq Runs
    BY <1>0, <1>1 DEF Request, TypeOK
  <2>3. TypeOK' /\ Untorn'
    BY <1>0, <2>1, <2>2 DEF TypeOK, Untorn
  <2>4. RunInv(r) /\ results[r] = <<>> /\ Len(results[r]) = 0
    BY <2>1 DEF Inv, RunInv
  <2>5. pc'[r] = "step" /\ Left(r)'
    BY <1>0, <2>1, <2>4 DEF TypeOK, Left
  <2>6. RunInv(r)'
    BY <2>1, <2>4, <2>5 DEF RunInv
  <2>7. ~InLoadGap(r) /\ ~Loaded(r)'
    BY <2>1, <2>5 DEF InLoadGap, Loaded
  <2> QED BY <1>0, <2>1, <2>3, <2>6, <2>7, OneRunMoves DEF TypeOK
<1>2. ASSUME NEW r \in Runs, Cancel(r) PROVE Inv'
  <2>1. TypeOK'
    BY <1>0, <1>2 DEF Cancel, TypeOK
  <2>2. UNCHANGED <<files, temp, kernel, pc, results, at, exit>>
    BY <1>2 DEF Cancel
  <2>3. RunInv(r)' /\ Untorn' /\ (Loaded(r)' <=> Loaded(r))
        /\ (InLoadGap(r)' <=> InLoadGap(r))
    BY <2>2 DEF Inv, RunInv, Untorn, Loaded, InLoadGap, Left, Current,
       ChildAlive, OnLoad
  <2> QED BY <2>1, <2>2, <2>3, OneRunMoves
<1>3. ASSUME NEW R \in SUBSET Runs, Stop(R) PROVE Inv'
  <2>1. /\ pc' = [r \in Runs |-> IF r \in R /\ Active(r) THEN "dead" ELSE pc[r]]
        /\ UNCHANGED <<files, temp, kernel, results, at, exit, cancelled, faulted,
                       latest, overlapped>>
    BY <1>3 DEF Stop
  <2>2. TypeOK' /\ Untorn'
    BY <1>0, <2>1 DEF TypeOK, Untorn
  <2> DEFINE Ends(r) == Active(r) /\ pc'[r] = "dead"
  <2>5. \A r \in Runs : pc'[r] = pc[r] \/ Ends(r)
    BY <1>0, <2>1 DEF TypeOK
  <2>3. ASSUME NEW r \in Runs PROVE RunInv(r)'
    <3>1. RunInv(r)
      BY DEF Inv
    <3>2. CASE pc'[r] = pc[r]
      BY <2>1, <3>1, <3>2, RunInvLocal
    <3>3. CASE Ends(r)
      BY <2>1, <3>1, <3>3 DEF RunInv, Active
    <3> QED BY <2>5, <3>2, <3>3
  <2>4. ASSUME NEW r \in Runs
        PROVE  (Loaded(r)' => Loaded(r)) /\ (InLoadGap(r) => InLoadGap(r)')
    <3>1. CASE pc'[r] = pc[r]
      BY <2>1, <3>1 DEF Loaded, InLoadGap, Left, OnLoad
    <3>2. CASE Ends(r)
      BY <2>1, <3>2 DEF Loaded, InLoadGap, Active
    <3> QED BY <2>5, <3>1, <3>2
  <2> QED BY <2>1, <2>2, <2>3, <2>4 DEF Inv, GapInv
<1>4. CASE UNCHANGED vars
  <2>1. UNCHANGED <<files, temp, kernel, pc, results, at, exit, cancelled, faulted,
                    latest, overlapped>>
    BY <1>4 DEF vars
  <2>2. TypeOK' /\ Untorn'
    BY <1>0, <2>1 DEF TypeOK, Untorn
  <2>3. ASSUME NEW r \in Runs PROVE RunInv(r)'
    BY <2>1, RunInvLocal DEF Inv
  <2>4. ASSUME NEW r \in Runs
        PROVE  (Loaded(r)' <=> Loaded(r)) /\ (InLoadGap(r)' <=> InLoadGap(r))
    BY <2>1 DEF Loaded, InLoadGap, Left, OnLoad
  <2>5. GapInv'
    BY <2>1, <2>4 DEF Inv, GapInv
  <2> QED BY <2>2, <2>3, <2>5 DEF Inv
<1>5. DryRun \in SUBSET Runs /\ Runs \ DryRun \in SUBSET Runs
  OBVIOUS
<1> QED
  BY <1>1, <1>2, <1>3, <1>4, <1>5, LoopInv, ChildInv, WaitInv DEF Next

-----------------------------------------------------------------------------

(* A temporary file is filled by its own run only, and a call that returns *)
(* has renamed or removed it.                                              *)
LEMMA StepWhole == Inv /\ Whole /\ [Next]_vars => Whole'
<1> SUFFICES ASSUME Inv, Whole, [Next]_vars, NEW r \in Runs PROVE WholeTemp(r)'
  BY DEF Whole
<1>0. TypeOK /\ RunInv(r) /\ WholeTemp(r)
  BY DEF Inv, Whole
<1>1. CASE pc'[r] = pc[r] /\ results'[r] = results[r] /\ temp'[r] = temp[r]
  BY <1>0, <1>1 DEF WholeTemp, Current
<1>2. CASE temp'[r] = Absent /\ pc'[r] # "renaming"
  BY <1>2 DEF WholeTemp
<1>3. CASE pc'[r] \in {"filling", "dead"}
  BY <1>3 DEF WholeTemp
<1>4. CASE pc'[r] = "renaming" /\ temp'[r] = Current(r).value /\ results'[r] = results[r]
  BY <1>4 DEF WholeTemp, Current
<1>5. ASSUME NEW q \in Runs, Loop(q) PROVE WholeTemp(r)'
  <2>1. CASE q # r
    <3>1. pc'[r] = pc[r] /\ results'[r] = results[r] /\ temp'[r] = temp[r]
      BY <1>0, <1>5, <2>1 DEF Loop, Preview, Malformed, CreateTemp, FillTemp, Rename, WriteFails,
         Start, StartRefused, StartFails, EndRun, Report, TypeOK
    <3> QED BY <1>1, <3>1
  <2>2. CASE q = r /\ (CreateTemp(q) \/ FillTemp(q))
    <3>1. \/ pc'[r] = "filling"
          \/ pc'[r] = "renaming" /\ temp'[r] = Current(r).value /\ results'[r] = results[r]
      BY <1>0, <2>2 DEF CreateTemp, FillTemp, TypeOK
    <3> QED BY <1>3, <1>4, <3>1
  <2>3. CASE q = r /\ (Rename(q) \/ WriteFails(q))
    <3>1. temp'[r] = Absent /\ pc'[r] # "renaming"
      BY <1>0, <2>3 DEF Rename, WriteFails, Report, TypeOK
    <3> QED BY <1>2, <3>1
  <2>4. CASE q = r /\ (Preview(q) \/ Malformed(q) \/ Start(q) \/ StartRefused(q)
                          \/ StartFails(q) \/ EndRun(q))
    <3>1. temp'[r] = temp[r] /\ pc[r] = "step" /\ pc'[r] # "renaming"
      BY <1>0, <2>4 DEF Preview, Malformed, Start, StartRefused, StartFails, EndRun, AtStep,
         Report, TypeOK
    <3> QED BY <1>0, <1>2, <3>1 DEF WholeTemp
  <2> QED BY <1>5, <2>1, <2>2, <2>3, <2>4 DEF Loop
<1>6. ASSUME NEW q \in Runs, Child(q) \/ Wait(q) \/ Drain(q) PROVE WholeTemp(r)'
  <2>1. temp'[r] = temp[r]
    BY <1>6 DEF Child, Effects, EffectFails, Wait, Exit, KillChild, Drain
  <2>2. CASE q # r
    <3>1. pc'[r] = pc[r] /\ results'[r] = results[r]
      BY <1>0, <1>6, <2>2 DEF Child, Effects, EffectFails, Wait, Exit, KillChild, Drain,
         Report, TypeOK
    <3> QED BY <1>1, <2>1, <3>1
  <2>3. CASE q = r
    <3>1. pc[r] \in {"running", "draining"} /\ pc'[r] # "renaming"
      BY <1>0, <1>6, <2>3 DEF Child, Effects, EffectFails, Wait, Exit, Exited, KillChild, Drain,
         Report, TypeOK
    <3> QED BY <1>0, <1>2, <2>1, <3>1 DEF WholeTemp
  <2> QED BY <2>2, <2>3
<1>7. ASSUME NEW q \in Runs, Request(q) \/ Cancel(q) PROVE WholeTemp(r)'
  <2>1. temp'[r] = temp[r] /\ results'[r] = results[r]
        /\ (pc'[r] = pc[r] \/ (pc[r] = "idle" /\ pc'[r] = "step"))
    BY <1>0, <1>7 DEF Request, Cancel, TypeOK
  <2> QED BY <1>0, <1>1, <1>2, <2>1 DEF WholeTemp
<1>8. ASSUME NEW R \in SUBSET Runs, Stop(R) PROVE WholeTemp(r)'
  <2>1. temp'[r] = temp[r] /\ results'[r] = results[r] /\ (pc'[r] = pc[r] \/ pc'[r] = "dead")
    BY <1>8 DEF Stop
  <2> QED BY <1>1, <1>3, <2>1
<1>9. CASE UNCHANGED vars
  BY <1>1, <1>9 DEF vars
<1>10. DryRun \in SUBSET Runs /\ Runs \ DryRun \in SUBSET Runs
  OBVIOUS
<1> QED BY <1>5, <1>6, <1>7, <1>8, <1>9, <1>10 DEF Next

(* The invariant holds in every reachable state.                           *)
THEOREM Invariance == Spec => [](Inv /\ Whole)
<1>1. Init => Whole
  BY DEF Init, Whole, WholeTemp
<1> QED BY <1>1, InitInv, StepInv, StepWhole, PTL DEF Spec

(* Every variable keeps its type, for any runs and plans.                  *)
THEOREM TypeCorrect == Spec => []TypeOK
<1>1. Inv => TypeOK
  BY DEF Inv
<1> QED BY <1>1, Invariance, PTL

(* An error is reported once, last, and ends the run; "ok" means a good    *)
(* result for every step of the plan.                                      *)
THEOREM FaithfulReports == Spec => []ReportIsFaithful
<1>1. Inv => ReportIsFaithful
  BY DEF Inv, RunInv, ReportIsFaithful
<1> QED BY <1>1, Invariance, PTL

(* Whatever runs overlap, fail, time out or are killed: after a successful *)
(* apply the table is missing only inside a load, or because one ended     *)
(* there.                                                                  *)
THEOREM Protection == Spec => []UnprotectedOnlyInLoadGap
<1>1. Inv => UnprotectedOnlyInLoadGap
  BY DEF Inv, GapInv, Loaded, UnprotectedOnlyInLoadGap
<1> QED BY <1>1, Invariance, PTL

(* Whichever calls of writeFile fail and wherever daemons are killed, no   *)
(* path and no loaded policy is ever part of a file, because what is       *)
(* renamed was written in full before, and what is not is removed.         *)
THEOREM WholePolicies == Spec => []NoTornPolicy
<1>1. Inv /\ Whole => NoTornPolicy
  BY DEF Inv, Untorn, Whole, WholeTemp, NoTornPolicy
<1> QED BY <1>1, Invariance, PTL

(* A step of a dry run leaves every file and every kernel object as it is, *)
(* also when other runs are applied at the same time.                      *)
THEOREM DryRunPurity == Spec => DryRunIsPure
<1>1. Inv /\ [Next]_vars =>
        [\A r \in DryRun :
           pc'[r] # pc[r] \/ results'[r] # results[r] => UNCHANGED host]_vars
  <2> SUFFICES ASSUME Inv, Next, NEW r \in DryRun,
                      pc'[r] # pc[r] \/ results'[r] # results[r]
               PROVE  UNCHANGED host
    OBVIOUS
  <2>1. /\ r \in Runs /\ TypeOK
        /\ pc[r] \notin {"running", "draining", "filling", "renaming"}
    BY DEF Inv, RunInv
  <2>2. ASSUME NEW q \in Runs, Child(q) \/ Wait(q) \/ Drain(q) PROVE FALSE
    <3>1. q # r
      BY <2>1, <2>2 DEF Child, Effects, EffectFails, Wait, Exit, Exited,
         KillChild, Drain
    <3>2. pc'[r] = pc[r] /\ results'[r] = results[r]
      BY <2>1, <2>2, <3>1 DEF Child, Effects, EffectFails, Wait, Exit, Exited,
         KillChild, Drain, Report, TypeOK
    <3> QED BY <3>2
  <2>3. ASSUME NEW q \in Runs, Loop(q) PROVE UNCHANGED host
    <3>1. CASE q = r
      BY <2>1, <2>3, <3>1 DEF Loop, Preview, Malformed, CreateTemp, FillTemp, Rename, WriteFails,
         Start, StartRefused, StartFails, EndRun, host
    <3>2. CASE q # r
      <4>1. pc'[r] = pc[r] /\ results'[r] = results[r]
        BY <2>1, <2>3, <3>2 DEF Loop, Preview, Malformed, CreateTemp, FillTemp, Rename, WriteFails,
           Start, StartRefused, StartFails, EndRun, Report, TypeOK
      <4> QED BY <4>1
    <3> QED BY <3>1, <3>2
  <2>4. ASSUME NEW q \in Runs, Request(q) \/ Cancel(q) PROVE UNCHANGED host
    BY <2>4 DEF Request, Cancel, host
  <2>5. ASSUME Stop(DryRun) \/ Stop(Runs \ DryRun) PROVE UNCHANGED host
    BY <2>5 DEF Stop, host
  <2> QED BY <2>2, <2>3, <2>4, <2>5 DEF Next
<1> QED BY <1>1, Invariance, PTL DEF Spec, DryRunIsPure

-----------------------------------------------------------------------------
(* Applies that do not overlap: whatever earlier runs left half done, a    *)
(* later one does not fail for it, and what it reports as done is there.   *)

(* Nothing has gone wrong yet that the properties leave out.               *)
Serial == NothingHidden /\ overlapped = {}

(* Only the run started last is at work.                                   *)
SoloInv ==
  /\ latest \notin DryRun
  /\ Serial => \A r \in Runs \ DryRun : Active(r) => latest = r

(* A priority has one rule, so that one delete empties it.                 *)
SingleInv ==
  Serial => \A o \in Objects \ {Table} : \A v, w \in kernel[o] : v = w

(* What a run has written is there, by itself or by another run.           *)
WriteInv(r) ==
  r \notin DryRun =>
    \A i \in 1 .. Len(results[r]) :
      results[r][i] = "ok" /\ Plan[r][i].kind = "write" => files[Plan[r][i].path] # Absent

(* A failure has a reason.                                                 *)
FailInv(r) ==
  /\ pc[r] = "running" /\ ~exit[r] /\ WellFormed(r) => faulted[r] # "none"
  /\ pc[r] = "error" /\ WellFormed(r) => cancelled[r] \/ faulted[r] # "none"

(* An effect that adds to an object finds it empty.                        *)
Ready(e) ==
  /\ e.op = "add" => kernel[e.object] = {}
  /\ e.op = "load" => kernel[Table] = {}

ReadyInv(r) ==
  pc[r] \in {"running", "draining"} /\ ChildAlive(r) => Ready(Current(r).effects[at[r]])

(* What the run started last has done is there.                            *)
Reached(r) ==
  /\ \A i \in 1 .. Len(results[r]) : Holds(Plan[r][i])
  /\ pc[r] = "running" =>
       \A j \in 1 .. at[r] - 1 :
         \/ EffectHolds(Current(r).effects[j])
         \/ ~exit[r] /\ j = Len(Current(r).effects)

DoneInv(r) ==
  latest = r /\ SetsOnce(r) /\ pc[r] \in {"step", "filling", "renaming", "running", "ok"} =>
    Reached(r)

Own(r) ==
  /\ WriteInv(r)
  /\ pc[r] = "draining" => cancelled[r]
  /\ Serial => FailInv(r) /\ ReadyInv(r) /\ DoneInv(r)

SerialInv == SoloInv /\ SingleInv /\ \A r \in Runs : Own(r)

-----------------------------------------------------------------------------
(* Lemmas about plans.                                                     *)

(* The step a run is at, and those before it.                              *)
LEMMA PlanSteps ==
  ASSUME NEW r \in Runs, NEW i \in DOMAIN Plan[r]
  PROVE  /\ Plan[r] \in Seq(Step) /\ Len(Plan[r]) \in Nat
         /\ DOMAIN Plan[r] = 1 .. Len(Plan[r])
         /\ Plan[r][i] \in Step
         /\ i # Len(Plan[r]) => ~HasOp(Plan[r][i], {"drop", "load"})
         /\ i = Len(Plan[r]) => Plan[r][i] = LoadCommand
<1>1. Plan[r] \in Seq(Step)
  OBVIOUS
<1>2. Len(Plan[r]) \in Nat /\ DOMAIN Plan[r] = 1 .. Len(Plan[r]) /\ Plan[r][i] \in Step
  BY <1>1
<1>3. i # Len(Plan[r]) => i \in 1 .. Len(Plan[r]) - 1
  BY <1>2
<1>4. /\ Plan[r][Len(Plan[r])] = LoadCommand
      /\ \A k \in 1 .. Len(Plan[r]) - 1 : ~HasOp(Plan[r][k], {"drop", "load"})
  OBVIOUS
<1> QED BY <1>1, <1>2, <1>3, <1>4

(* An effect of a plan, and what stands before it in its command.          *)
LEMMA PlanEffects ==
  ASSUME NEW r \in Runs, NEW i \in DOMAIN Plan[r], Plan[r][i].kind = "command",
         NEW j \in DOMAIN Plan[r][i].effects
  PROVE  LET es == Plan[r][i].effects IN
           /\ es \in Seq(Effect) /\ Len(es) \in Nat /\ DOMAIN es = 1 .. Len(es)
           /\ j \in 1 .. Len(es) /\ es[j] \in Effect
           /\ es[j].op = "add" =>
                j = 2 /\ Len(es) = 2 /\ es[1].op = "delete" /\ es[1].object = es[j].object
           /\ es[j].op = "delete" =>
                j = 1 /\ Len(es) = 2 /\ es[2].op = "add" /\ es[2].object = es[j].object
           /\ es[j].op = "load" =>
                i = Len(Plan[r]) /\ j = 2 /\ Len(es) = 2 /\ es[1].op = "drop"
           /\ es[j].op = "drop" =>
                i = Len(Plan[r]) /\ j = 1 /\ Len(es) = 2 /\ es[2].op = "load"
<1> DEFINE es == Plan[r][i].effects
<1>1. es \in Seq(Effect)
  <2>1. Plan[r][i] \in Step
    BY PlanSteps
  <2> QED BY <2>1, CommandEffects
<1> HIDE DEF es
<1>2. Len(es) \in Nat /\ DOMAIN es = 1 .. Len(es) /\ j \in 1 .. Len(es) /\ es[j] \in Effect
  <2>1. j \in DOMAIN es
    BY DEF es
  <2> QED BY <1>1, <2>1
<1>3. CASE es[j].op \in {"add", "delete"}
  <2>1. HasOp(Plan[r][i], {"add", "delete"})
    BY <1>3 DEF HasOp, es
  <2>2. PICK o \in Objects \ {Table} : \E v \in Values : Plan[r][i] = RuleCommand(o, v)
    BY <2>1, RepeatAssumption
  <2>3. PICK v \in Values : Plan[r][i] = RuleCommand(o, v)
    BY <2>2
  <2>4. es = <<[op |-> "delete", object |-> o], [op |-> "add", object |-> o, value |-> v]>>
    BY <2>3 DEF RuleCommand, es
  <2>5. /\ Len(es) = 2 /\ es[1].op = "delete" /\ es[1].object = o
        /\ es[2].op = "add" /\ es[2].object = o
    BY <2>4
  <2> QED BY <1>1, <1>2, <1>3, <2>5 DEF es
<1>4. CASE es[j].op \in {"drop", "load"}
  <2>1. HasOp(Plan[r][i], {"drop", "load"})
    BY <1>4 DEF HasOp, es
  <2>2. i = Len(Plan[r]) /\ Plan[r][i] = LoadCommand
    BY <2>1, PlanSteps
  <2>3. es = <<[op |-> "drop"], [op |-> "load"]>>
    BY <2>2 DEF LoadCommand, es
  <2>4. Len(es) = 2 /\ es[1].op = "drop" /\ es[2].op = "load"
    BY <2>3
  <2> QED BY <1>1, <1>2, <1>4, <2>2, <2>4 DEF es
<1>5. CASE es[j].op \notin {"add", "delete", "drop", "load"}
  BY <1>1, <1>2, <1>5 DEF es
<1> QED BY <1>3, <1>4, <1>5

-----------------------------------------------------------------------------
(* Frame lemmas.                                                           *)

LEMMA OkSoFar ==
  ASSUME NEW r \in Runs, RunInv(r), pc[r] # "error",
         TypeOK, NEW i \in 1 .. Len(results[r])
  PROVE  results[r][i] = "ok"
<1>1. results[r] \in Seq({"ok", "error"})
  BY DEF TypeOK
<1>2. results[r][i] \in {"ok", "error"}
  BY <1>1
<1> QED BY <1>2 DEF RunInv

LEMMA ReportedSteps ==
  ASSUME NEW r \in Runs, RunInv(r), TypeOK, NEW i \in 1 .. Len(results[r])
  PROVE  i \in DOMAIN Plan[r]
<1>1. Len(results[r]) \in Nat /\ Len(results[r]) <= Len(Plan[r])
  BY DEF TypeOK, RunInv
<1>2. Plan[r] \in Seq(Step)
  OBVIOUS
<1> QED BY <1>1, <1>2

(* A step of one run keeps what is said of the others: only the run that   *)
(* was started last changes the host.                                      *)
LEMMA OneSerialRunMoves ==
  ASSUME Inv, SerialInv, NEW r \in Runs,
         latest' = latest, overlapped' = overlapped,
         \A q \in Runs \ {r} :
           /\ pc'[q] = pc[q] /\ results'[q] = results[q] /\ at'[q] = at[q]
           /\ exit'[q] = exit[q] /\ cancelled'[q] = cancelled[q]
           /\ faulted'[q] = faulted[q],
         Active(r)' => Active(r),
         faulted[r] = "hidden" => faulted'[r] = "hidden",
         \A p \in Paths : files[p] # Absent => files'[p] # Absent,
         (files' = files /\ kernel' = kernel) \/ (r \notin DryRun /\ Active(r)),
         SingleInv', Own(r)'
  PROVE  SerialInv'
<1>1. Serial' => Serial
  BY DEF Serial, NothingHidden
<1>2. SoloInv'
  <2>1. \A q \in Runs : Active(q)' => Active(q)
    BY DEF Active
  <2> QED BY <1>1, <2>1 DEF SerialInv, SoloInv
<1>3. ASSUME NEW q \in Runs, q # r
      PROVE  Own(q)'
  <2>1. Own(q) /\ RunInv(q) /\ TypeOK
    BY DEF SerialInv, Inv
  <2>2. /\ pc'[q] = pc[q] /\ results'[q] = results[q] /\ at'[q] = at[q]
        /\ exit'[q] = exit[q] /\ cancelled'[q] = cancelled[q] /\ faulted'[q] = faulted[q]
    BY <1>3
  <2>3. WriteInv(q)'
    <3> SUFFICES ASSUME q \notin DryRun, NEW i \in 1 .. Len(results[q]),
                        results[q][i] = "ok", Plan[q][i].kind = "write"
                 PROVE  files'[Plan[q][i].path] # Absent
      BY <2>2 DEF WriteInv
    <3>1. files[Plan[q][i].path] # Absent
      BY <2>1 DEF Own, WriteInv
    <3>2. Plan[q][i] \in Step
      BY <2>1, ReportedSteps, PlanSteps
    <3>3. Plan[q][i].path \in Paths
      BY <3>2 DEF Step
    <3> QED BY <3>1, <3>3
  <2>4. pc'[q] = "draining" => cancelled'[q]
    BY <2>1, <2>2 DEF Own
  <2>5. ASSUME Serial'
        PROVE  FailInv(q)' /\ ReadyInv(q)' /\ DoneInv(q)'
    <3>1. Serial /\ FailInv(q) /\ ReadyInv(q) /\ DoneInv(q)
      BY <1>1, <2>1, <2>5 DEF Own
    <3>2. FailInv(q)'
      BY <2>2, <3>1 DEF FailInv
    <3>3. CASE files' = files /\ kernel' = kernel
      <4>1. ReadyInv(q)'
        BY <2>2, <3>1, <3>3 DEF ReadyInv, Ready, ChildAlive, Current
      <4>2. \A e : EffectHolds(e)' = EffectHolds(e)
        BY <3>3 DEF EffectHolds
      <4>3. \A step : Holds(step)' = Holds(step)
        BY <3>3, <4>2 DEF Holds
      <4>4. DoneInv(q)'
        BY <2>2, <3>1, <4>2, <4>3 DEF DoneInv, Reached, Current
      <4> QED BY <3>2, <4>1, <4>4
    <3>4. CASE r \notin DryRun /\ Active(r)
      <4>1. latest = r
        BY <3>1, <3>4 DEF SerialInv, SoloInv
      <4>2. ~(pc[q] \in {"running", "draining"})
        BY <1>3, <2>1, <3>1, <4>1 DEF RunInv, SerialInv, SoloInv, Active
      <4> QED BY <1>3, <2>2, <3>2, <4>1, <4>2 DEF ReadyInv, DoneInv
    <3> QED BY <3>3, <3>4
  <2> QED BY <2>3, <2>4, <2>5 DEF Own
<1> QED BY <1>2, <1>3 DEF SerialInv

(* A run that ends with an error needs a reason.                           *)
LEMMA ErrorReported ==
  ASSUME Inv, SerialInv, NEW r \in Runs, Left(r),
         pc[r] # "error", Report(r, "error"),
         \A p \in Paths : files[p] # Absent => files'[p] # Absent,
         Serial' /\ WellFormed(r) => cancelled'[r] \/ faulted'[r] # "none"
  PROVE  Own(r)'
<1>1. TypeOK /\ RunInv(r) /\ Own(r)
  BY DEF Inv, SerialInv
<1>2. pc'[r] = "error" /\ results'[r] = Append(results[r], "error")
  BY <1>1 DEF Report, TypeOK
<1>3. results[r] \in Seq({"ok", "error"})
  BY <1>1 DEF TypeOK
<1>4. WriteInv(r)'
  <2> SUFFICES ASSUME r \notin DryRun, NEW i \in 1 .. Len(results'[r]),
                      results'[r][i] = "ok", Plan[r][i].kind = "write"
               PROVE  files'[Plan[r][i].path] # Absent
    BY DEF WriteInv
  <2>1. i \in 1 .. Len(results[r]) /\ results[r][i] = "ok"
    BY <1>2, <1>3
  <2>2. files[Plan[r][i].path] # Absent
    BY <1>1, <2>1 DEF Own, WriteInv
  <2>3. Plan[r][i] \in Step
    BY <1>1, <2>1, ReportedSteps, PlanSteps
  <2>4. Plan[r][i].path \in Paths
    BY <2>3 DEF Step
  <2> QED BY <2>2, <2>4
<1> QED BY <1>2, <1>4 DEF Own, FailInv, ReadyInv, DoneInv

(* A step reported as done must have been done, and undone nothing.        *)
LEMMA OkReported ==
  ASSUME Inv, SerialInv, NEW r \in Runs, Left(r),
         pc[r] # "error", Report(r, "ok"),
         \A p \in Paths : files[p] # Absent => files'[p] # Absent,
         r \notin DryRun /\ Current(r).kind = "write" =>
           files'[Current(r).path] # Absent,
         Serial' /\ latest' = r /\ SetsOnce(r) =>
           /\ \A i \in 1 .. Len(results[r]) : Holds(Plan[r][i])'
           /\ \A step : step = Current(r) => Holds(step)'
  PROVE  Own(r)'
<1>1. TypeOK /\ RunInv(r) /\ Own(r)
  BY DEF Inv, SerialInv
<1>2. pc'[r] = "step" /\ results'[r] = Append(results[r], "ok")
  BY <1>1 DEF Report, TypeOK
<1>3. results[r] \in Seq({"ok", "error"})
  BY <1>1 DEF TypeOK
<1>4. \A i \in 1 .. Len(results'[r]) :
        i \in 1 .. Len(results[r]) \/ Plan[r][i] = Current(r)
  BY <1>2, <1>3 DEF Current
<1>5. WriteInv(r)'
  <2> SUFFICES ASSUME r \notin DryRun, NEW i \in 1 .. Len(results'[r]),
                      results'[r][i] = "ok", Plan[r][i].kind = "write"
               PROVE  files'[Plan[r][i].path] # Absent
    BY DEF WriteInv
  <2>1. CASE i \in 1 .. Len(results[r])
    <3>1. results[r][i] = "ok"
      BY <1>2, <1>3, <2>1
    <3>2. files[Plan[r][i].path] # Absent
      BY <1>1, <2>1, <3>1 DEF Own, WriteInv
    <3>3. Plan[r][i] \in Step
      BY <1>1, <2>1, ReportedSteps, PlanSteps
    <3>4. Plan[r][i].path \in Paths
      BY <3>3 DEF Step
    <3> QED BY <3>2, <3>4
  <2> QED BY <1>4, <2>1
<1>6. ASSUME Serial', latest' = r, SetsOnce(r)
      PROVE  Reached(r)'
  <2>1. \A i \in 1 .. Len(results'[r]) : Holds(Plan[r][i])'
    BY <1>4, <1>6
  <2> QED BY <1>2, <2>1 DEF Reached
<1>7. DoneInv(r)' \/ ~Serial'
  <2>1. SetsOnce(r)' = SetsOnce(r)
    BY DEF SetsOnce
  <2> QED BY <1>6, <2>1 DEF DoneInv
<1> QED BY <1>2, <1>5, <1>7 DEF Own, FailInv, ReadyInv
-----------------------------------------------------------------------------
(* The steps of the loop.                                                  *)

(* No effect of an earlier step is one a write could undo.                 *)
LEMMA NoLoadBefore ==
  ASSUME NEW r \in Runs, NEW i \in DOMAIN Plan[r], i # Len(Plan[r]),
         Plan[r][i].kind = "command", NEW j \in DOMAIN Plan[r][i].effects
  PROVE  Plan[r][i].effects[j].op \notin {"drop", "load"}
<1>1. ~HasOp(Plan[r][i], {"drop", "load"})
  BY PlanSteps
<1> QED BY <1>1 DEF HasOp

LEMMA CurrentIsStep ==
  ASSUME NEW r \in Runs, TypeOK, Left(r)
  PROVE  /\ Len(results[r]) + 1 \in DOMAIN Plan[r]
         /\ Current(r) = Plan[r][Len(results[r]) + 1]
         /\ Current(r) \in Step
         /\ \A i \in 1 .. Len(results[r]) :
              i \in DOMAIN Plan[r] /\ i # Len(results[r]) + 1 /\ i # Len(Plan[r])
<1>1. Plan[r] \in Seq(Step) /\ Len(results[r]) \in Nat
  BY DEF TypeOK
<1>2. Len(results[r]) + 1 \in DOMAIN Plan[r] /\ Len(Plan[r]) \in Nat
  BY <1>1 DEF Left
<1>3. \A i \in 1 .. Len(results[r]) :
        i \in DOMAIN Plan[r] /\ i # Len(results[r]) + 1 /\ i # Len(Plan[r])
  BY <1>1, <1>2
<1> QED BY <1>1, <1>2, <1>3 DEF Current

LEMMA LoopSerial ==
  ASSUME Inv, Whole, SerialInv, NEW r \in Runs, Loop(r)
  PROVE  SerialInv'
<1>0. TypeOK /\ RunInv(r) /\ Own(r) /\ SingleInv
  BY DEF Inv, SerialInv
<1>a. /\ UNCHANGED <<cancelled, latest, overlapped, kernel>>
      /\ pc[r] \in {"step", "filling", "renaming"}
  BY DEF Loop, Preview, Malformed, CreateTemp, FillTemp, Rename, WriteFails, Start, StartRefused, StartFails,
     EndRun, AtStep
<1>b. \A q \in Runs \ {r} :
        /\ pc'[q] = pc[q] /\ results'[q] = results[q] /\ at'[q] = at[q]
        /\ exit'[q] = exit[q] /\ faulted'[q] = faulted[q]
  BY <1>0 DEF Loop, Preview, Malformed, CreateTemp, FillTemp, Rename, WriteFails, Start, StartRefused,
     StartFails, EndRun, Report, Fault, TypeOK
<1>c. /\ faulted[r] = "hidden" => faulted'[r] = "hidden"
      /\ faulted'[r] # faulted[r] => faulted'[r] = "seen"
  BY <1>0 DEF Loop, Preview, Malformed, CreateTemp, FillTemp, Rename, WriteFails, Start, StartRefused,
     StartFails, EndRun, Fault, TypeOK
<1>d. Serial' => Serial
  BY <1>a, <1>b, <1>c DEF Serial, NothingHidden
<1>e. SingleInv'
  BY <1>0, <1>a, <1>d DEF SingleInv
<1>f. ASSUME Own(r)', \A p \in Paths : files[p] # Absent => files'[p] # Absent,
             files' = files \/ r \notin DryRun
      PROVE  SerialInv'
  BY <1>a, <1>b, <1>c, <1>e, <1>f, OneSerialRunMoves DEF Active
<1>g. ASSUME files' = files, Serial', latest' = r, SetsOnce(r)
      PROVE  \A i \in 1 .. Len(results[r]) : Holds(Plan[r][i])'
  <2>1. Reached(r)
    BY <1>0, <1>a, <1>d, <1>g DEF Own, DoneInv
  <2>2. \A step : Holds(step)' = Holds(step)
    BY <1>a, <1>g DEF Holds, EffectHolds
  <2> QED BY <2>1, <2>2 DEF Reached
<1>h. ASSUME Left(r), Report(r, "error"), files' = files,
             Serial' /\ WellFormed(r) => cancelled'[r] \/ faulted'[r] # "none"
      PROVE  SerialInv'
  <2>1. Own(r)'
    BY <1>a, <1>h, ErrorReported
  <2> QED BY <1>f, <1>h, <2>1
<1>1. CASE Preview(r)
  <2>1. Left(r) /\ Report(r, "ok") /\ files' = files
    BY <1>1 DEF Preview, AtStep
  <2>2. r \in DryRun \/ Current(r).kind = "warning"
    BY <1>1 DEF Preview, AtStep
  <2>3. latest' = r => Current(r).kind = "warning"
    BY <1>a, <2>2 DEF SerialInv, SoloInv
  <2>4. latest' = r => \A step : step = Current(r) => Holds(step)'
    BY <2>3 DEF Holds
  <2>5. Own(r)'
    BY <1>a, <1>g, <2>1, <2>2, <2>4, OkReported
  <2> QED BY <1>f, <2>1, <2>5
<1>2. CASE Malformed(r)
  <2>1. /\ Left(r) /\ Report(r, "error") /\ files' = files
        /\ Current(r).kind \in {"nocommand", "unknown"}
    BY <1>2 DEF Malformed, AtStep
  <2>2. ~WellFormed(r)
    BY <1>0, <2>1, CurrentIsStep DEF WellFormed
  <2> QED BY <1>h, <2>1, <2>2
<1>3. CASE Rename(r)
  <2> DEFINE n == Len(results[r]) + 1
  <2>1. /\ Left(r) /\ Report(r, "ok") /\ r \notin DryRun
        /\ Current(r).kind = "write"
        /\ files' = [files EXCEPT ![Current(r).path] = Current(r).value]
    BY <1>0, <1>3 DEF Rename, RunInv, Whole, WholeTemp
  <2>2. /\ n \in DOMAIN Plan[r] /\ Current(r) = Plan[r][n] /\ Current(r) \in Step
        /\ \A i \in 1 .. Len(results[r]) :
             i \in DOMAIN Plan[r] /\ i # n /\ i # Len(Plan[r])
    BY <1>0, <2>1, CurrentIsStep
  <2>3. Current(r).path \in Paths /\ Current(r).value \in Values
    BY <2>1, <2>2 DEF Step
  <2>4. /\ files'[Current(r).path] = Current(r).value /\ Current(r).value # Absent
        /\ \A p \in Paths \ {Current(r).path} : files'[p] = files[p]
    BY <1>0, <2>1, <2>3 DEF TypeOK
  <2>5. \A step : step = Current(r) => Holds(step)'
    BY <2>1, <2>4 DEF Holds
  <2>6. ASSUME Serial', latest' = r, SetsOnce(r), NEW i \in 1 .. Len(results[r])
        PROVE  Holds(Plan[r][i])'
    <3>1. Holds(Plan[r][i])
      BY <1>0, <1>a, <1>d, <2>6 DEF Own, DoneInv, Reached
    <3>2. i \in DOMAIN Plan[r] /\ i # n /\ i # Len(Plan[r]) /\ Plan[r][i] \in Step
      BY <2>2, PlanSteps
    <3>3. CASE Plan[r][i].kind = "write"
      <4>1. Plan[r][i].path # Current(r).path
        BY <2>1, <2>2, <2>6, <3>2, <3>3 DEF SetsOnce
      <4>2. Plan[r][i].path \in Paths
        BY <3>2, <3>3 DEF Step
      <4> QED BY <2>4, <3>1, <3>3, <4>1, <4>2 DEF Holds
    <3>4. CASE Plan[r][i].kind = "command"
      <4> SUFFICES ASSUME NEW j \in DOMAIN Plan[r][i].effects
                   PROVE  EffectHolds(Plan[r][i].effects[j])'
        BY <3>4 DEF Holds
      <4>1. EffectHolds(Plan[r][i].effects[j])
        BY <3>1, <3>4 DEF Holds
      <4>2. Plan[r][i].effects[j].op \notin {"drop", "load"}
        BY <3>2, <3>4, NoLoadBefore
      <4> QED BY <1>a, <4>1, <4>2 DEF EffectHolds
    <3> QED BY <3>3, <3>4 DEF Holds
  <2>7. \A p \in Paths : files[p] # Absent => files'[p] # Absent
    BY <2>4
  <2>8. Own(r)'
    BY <1>a, <2>1, <2>4, <2>5, <2>6, <2>7, OkReported
  <2> QED BY <1>f, <2>1, <2>7, <2>8
<1>4. CASE WriteFails(r) \/ StartFails(r)
  <2>1. Left(r) /\ Report(r, "error") /\ files' = files /\ faulted'[r] # "none"
    BY <1>0, <1>4 DEF WriteFails, StartFails, AtStep, Fault, RunInv, TypeOK
  <2> QED BY <1>h, <2>1
<1>8. CASE CreateTemp(r) \/ FillTemp(r)
  <2>1. /\ \E place \in {"filling", "renaming"} : pc' = [pc EXCEPT ![r] = place]
        /\ UNCHANGED <<files, results, at, exit>>
    BY <1>8 DEF CreateTemp, FillTemp
  <2>2. pc'[r] \in {"filling", "renaming"}
    BY <1>0, <2>1 DEF TypeOK
  <2>3. WriteInv(r)'
    BY <1>0, <2>1 DEF Own, WriteInv
  <2>4. Serial' => DoneInv(r)'
    <3> SUFFICES ASSUME Serial', latest' = r, SetsOnce(r) PROVE Reached(r)'
      BY DEF DoneInv, SetsOnce
    <3> QED BY <1>g, <2>1, <2>2 DEF Reached
  <2>5. Own(r)'
    BY <2>2, <2>3, <2>4 DEF Own, FailInv, ReadyInv
  <2> QED BY <1>f, <2>1, <2>5
<1>5. CASE StartRefused(r)
  <2>1. Left(r) /\ Report(r, "error") /\ files' = files /\ cancelled'[r]
    BY <1>5 DEF StartRefused, AtStep
  <2> QED BY <1>h, <2>1
<1>6. CASE Start(r)
  <2>1. /\ Left(r) /\ Current(r).kind = "command"
        /\ pc' = [pc EXCEPT ![r] = "running"]
        /\ at' = [at EXCEPT ![r] = 1]
        /\ exit' = [exit EXCEPT ![r] = TRUE]
        /\ files' = files /\ results' = results
    BY <1>6 DEF Start, AtStep
  <2>2. /\ pc'[r] = "running" /\ at'[r] = 1 /\ exit'[r] = TRUE
        /\ Current(r)' = Current(r)
    BY <1>0, <2>1 DEF TypeOK, Current
  <2>3. WriteInv(r)'
    BY <1>0, <2>1 DEF Own, WriteInv
  <2>4. ReadyInv(r)'
    <3> SUFFICES ASSUME ChildAlive(r)' PROVE Ready(Current(r).effects[1])'
      BY <2>2 DEF ReadyInv
    <3>1. 1 \in DOMAIN Current(r).effects
      <4>1. Current(r).effects \in Seq(Effect)
        BY <1>0, <2>1, CurrentIsStep, CommandEffects
      <4>2. 1 <= Len(Current(r).effects)
        BY <2>2 DEF ChildAlive
      <4> QED BY <4>1, <4>2
    <3>2. Current(r).effects[1].op \notin {"add", "load"}
      <4> DEFINE n == Len(results[r]) + 1
      <4>1. n \in DOMAIN Plan[r] /\ Current(r) = Plan[r][n]
        BY <1>0, <2>1, CurrentIsStep
      <4>2. Plan[r][n].kind = "command" /\ 1 \in DOMAIN Plan[r][n].effects
        BY <2>1, <3>1, <4>1
      <4> HIDE DEF n
      <4>3. Plan[r][n].effects[1].op \notin {"add", "load"}
        BY <4>1, <4>2, PlanEffects
      <4> QED BY <4>1, <4>3
    <3> QED BY <2>2, <3>2 DEF Ready
  <2>5. Serial' => DoneInv(r)'
    <3> SUFFICES ASSUME Serial', latest' = r, SetsOnce(r) PROVE Reached(r)'
      BY DEF DoneInv, SetsOnce
    <3>1. \A i \in 1 .. Len(results[r]) : Holds(Plan[r][i])'
      BY <1>g, <2>1
    <3>2. at'[r] - 1 = 0
      BY <2>2
    <3> QED BY <2>1, <3>1, <3>2 DEF Reached
  <2>6. Own(r)'
    BY <2>2, <2>3, <2>4, <2>5 DEF Own, FailInv
  <2> QED BY <1>f, <2>1, <2>6
<1>7. CASE EndRun(r)
  <2>1. /\ pc' = [pc EXCEPT ![r] = "ok"]
        /\ files' = files /\ results' = results
    BY <1>7 DEF EndRun
  <2>2. pc'[r] = "ok"
    BY <1>0, <2>1 DEF TypeOK
  <2>3. WriteInv(r)'
    BY <1>0, <2>1 DEF Own, WriteInv
  <2>4. Serial' => DoneInv(r)'
    <3> SUFFICES ASSUME Serial', latest' = r, SetsOnce(r) PROVE Reached(r)'
      BY DEF DoneInv, SetsOnce
    <3> QED BY <1>g, <2>1, <2>2 DEF Reached
  <2>5. Own(r)'
    BY <2>2, <2>3, <2>4 DEF Own, FailInv, ReadyInv
  <2> QED BY <1>f, <2>1, <2>5
<1> QED
  BY <1>1, <1>2, <1>3, <1>4, <1>5, <1>6, <1>7, <1>8 DEF Loop
-----------------------------------------------------------------------------
(* The child process.                                                      *)

(* The effect a child is about to have, and its place in the plan.         *)
LEMMA EffectAtHand ==
  ASSUME TypeOK, NEW r \in Runs, RunInv(r),
         pc[r] \in {"running", "draining"}, ChildAlive(r)
  PROVE  /\ r \notin DryRun /\ Left(r) /\ Active(r)
         /\ Len(results[r]) + 1 \in DOMAIN Plan[r]
         /\ Current(r) = Plan[r][Len(results[r]) + 1]
         /\ Current(r).kind = "command"
         /\ at[r] \in DOMAIN Current(r).effects /\ at[r] \in Nat
         /\ DOMAIN Current(r).effects = 1 .. Len(Current(r).effects)
         /\ Len(Current(r).effects) \in Nat
<1>1. /\ r \notin DryRun /\ Left(r) /\ Current(r).kind = "command"
      /\ at[r] \in 1 .. Len(Current(r).effects) + 1
  BY DEF RunInv
<1>2. Current(r).effects \in Seq(Effect)
  BY <1>1, CurrentIsStep, CommandEffects
<1>3. at[r] \in 1 .. Len(Current(r).effects) /\ at[r] \in Nat
  BY <1>1, <1>2 DEF ChildAlive, TypeOK
<1> QED BY <1>1, <1>2, <1>3, CurrentIsStep DEF Active

(* What an effect does to the objects, when it finds them as it must.      *)
LEMMA EffectDoes ==
  ASSUME TypeOK, SingleInv, Serial, NEW e \in Effect, Ready(e),
         NEW ok \in BOOLEAN, Happens(e, ok)
  PROVE  /\ \A o \in Objects \ {Table} :
              /\ \A v, w \in kernel'[o] : v = w
              /\ kernel'[o] # kernel[o] =>
                   e.op \in {"replace", "add", "delete"} /\ e.object = o
         /\ e.op = "delete" => kernel'[e.object] = {}
         /\ e.op = "drop" => kernel'[Table] = {}
         /\ e.op \in {"replace", "add"} => ok /\ kernel'[e.object] = {e.value}
         /\ e.op = "load" /\ ok => kernel'[Table] = {files[Rendered]}
         /\ ~ok => e.op = "load" /\ files[Rendered] = Absent
<1>1. /\ e.op \in {"replace", "add", "delete", "drop", "load"}
      /\ e.op \in {"replace", "add", "delete"} => e.object \in Objects \ {Table}
  BY EffectShape
<1>2. kernel \in [Objects -> SUBSET (Values \cup {Torn})] /\ Table \in Objects
  BY DEF TypeOK
<1>3. \A o \in Objects \ {Table} : \A v, w \in kernel[o] : v = w
  BY DEF SingleInv
<1>4. ASSUME NEW o \in Objects, NEW S, kernel' = [kernel EXCEPT ![o] = S]
      PROVE  kernel'[o] = S /\ \A p \in Objects \ {o} : kernel'[p] = kernel[p]
  BY <1>2, <1>4
<1>5. CASE e.op = "replace"
  <2>1. ok /\ kernel' = [kernel EXCEPT ![e.object] = {e.value}]
    BY <1>5 DEF Happens, Change
  <2>2. /\ kernel'[e.object] = {e.value}
        /\ \A p \in Objects \ {e.object} : kernel'[p] = kernel[p]
    BY <1>1, <1>4, <1>5, <2>1
  <2> QED BY <1>3, <1>5, <2>1, <2>2
<1>6. CASE e.op = "delete"
  <2>1. /\ ok
        /\ \/ kernel[e.object] = {} /\ kernel' = kernel
           \/ \E v \in kernel[e.object] : kernel' = [kernel EXCEPT ![e.object] = kernel[e.object] \ {v}]
    BY <1>6 DEF Happens, Change
  <2>2. /\ kernel'[e.object] = {}
        /\ \A p \in Objects \ {e.object} : kernel'[p] = kernel[p]
    <3>1. CASE kernel[e.object] = {} /\ kernel' = kernel
      BY <3>1
    <3>2. ASSUME NEW v \in kernel[e.object],
                 kernel' = [kernel EXCEPT ![e.object] = kernel[e.object] \ {v}]
          PROVE  /\ kernel'[e.object] = {}
                 /\ \A p \in Objects \ {e.object} : kernel'[p] = kernel[p]
      <4>1. kernel[e.object] \ {v} = {}
        BY <1>1, <1>3, <1>6
      <4> QED BY <1>1, <1>4, <1>6, <3>2, <4>1
    <3> QED BY <2>1, <3>1, <3>2
  <2> QED BY <1>3, <1>6, <2>1, <2>2
<1>7. CASE e.op = "add"
  <2>1. kernel[e.object] = {}
    BY <1>7 DEF Ready
  <2>2. ok /\ kernel' = [kernel EXCEPT ![e.object] = kernel[e.object] \cup {e.value}]
    BY <1>7, <2>1 DEF Happens, Change
  <2>3. kernel[e.object] \cup {e.value} = {e.value}
    BY <2>1
  <2>4. /\ kernel'[e.object] = {e.value}
        /\ \A p \in Objects \ {e.object} : kernel'[p] = kernel[p]
    BY <1>1, <1>4, <1>7, <2>2, <2>3
  <2> QED BY <1>3, <1>7, <2>2, <2>4
<1>8. CASE e.op = "drop"
  <2>1. ok /\ kernel' = [kernel EXCEPT ![Table] = {}]
    BY <1>8 DEF Happens, Change
  <2>2. kernel'[Table] = {} /\ \A p \in Objects \ {Table} : kernel'[p] = kernel[p]
    BY <1>2, <1>4, <2>1
  <2> QED BY <1>3, <1>8, <2>1, <2>2
<1>9. CASE e.op = "load"
  <2>1. kernel[Table] = {}
    BY <1>9 DEF Ready
  <2>2. \/ ok /\ kernel' = [kernel EXCEPT ![Table] = kernel[Table] \cup {files[Rendered]}]
        \/ ~ok /\ files[Rendered] = Absent /\ kernel' = kernel
    BY <1>9 DEF Happens, Change
  <2>3. kernel[Table] \cup {files[Rendered]} = {files[Rendered]}
    BY <2>1
  <2>4. CASE ok /\ kernel' = [kernel EXCEPT ![Table] = kernel[Table] \cup {files[Rendered]}]
    <3>1. /\ kernel'[Table] = {files[Rendered]}
          /\ \A p \in Objects \ {Table} : kernel'[p] = kernel[p]
      BY <1>2, <1>4, <2>3, <2>4
    <3> QED BY <1>3, <1>9, <2>4, <3>1
  <2>5. CASE ~ok /\ files[Rendered] = Absent /\ kernel' = kernel
    BY <1>3, <1>9, <2>5
  <2> QED BY <2>2, <2>4, <2>5
<1> QED BY <1>1, <1>5, <1>6, <1>7, <1>8, <1>9

(* An effect undoes none that came before it in a plan that sets every     *)
(* object once.                                                            *)
LEMMA NothingUndone ==
  ASSUME TypeOK, SingleInv, Serial, NEW r \in Runs, SetsOnce(r),
         NEW n \in DOMAIN Plan[r], Plan[r][n].kind = "command",
         NEW m \in DOMAIN Plan[r][n].effects,
         NEW i \in DOMAIN Plan[r], Plan[r][i].kind = "command",
         NEW j \in DOMAIN Plan[r][i].effects,
         i < n \/ (i = n /\ j < m),
         Ready(Plan[r][n].effects[m]),
         NEW ok \in BOOLEAN, Happens(Plan[r][n].effects[m], ok),
         EffectHolds(Plan[r][i].effects[j]), UNCHANGED files
  PROVE  EffectHolds(Plan[r][i].effects[j])'
<1> DEFINE e == Plan[r][n].effects[m]
           f == Plan[r][i].effects[j]
<1>1. e \in Effect /\ f \in Effect
  BY PlanEffects
<1>2. \A o \in Objects \ {Table} :
        kernel'[o] # kernel[o] =>
          e.op \in {"replace", "add", "delete"} /\ e.object = o
  BY <1>1, EffectDoes
<1>3. f.op # "load"
  <2>1. f.op = "load" => i = Len(Plan[r]) /\ j = 2
    BY PlanEffects
  <2>2. n \in 1 .. Len(Plan[r]) /\ Len(Plan[r]) \in Nat /\ i \in Nat
    BY PlanSteps
  <2>3. n = Len(Plan[r]) => Len(Plan[r][n].effects) = 2
    <3>1. n = Len(Plan[r]) => Plan[r][n] = LoadCommand
      BY PlanSteps
    <3> QED BY <3>1 DEF LoadCommand
  <2>4. m \in 1 .. Len(Plan[r][n].effects)
    BY PlanEffects
  <2> QED BY <2>1, <2>2, <2>3, <2>4
<1>4. ASSUME f.op \in {"replace", "add"}, e.op \in {"replace", "add", "delete"},
             e.object = f.object
      PROVE  FALSE
  <2>1. ASSUME NEW l \in DOMAIN Plan[r][n].effects,
               Plan[r][n].effects[l].op \in {"replace", "add"},
               Plan[r][n].effects[l].object = f.object
        PROVE  i = n /\ j = l
    BY <1>4, <2>1 DEF SetsOnce
  <2>2. i \in Nat /\ n \in Nat /\ j \in Nat /\ m \in Nat
    <3>1. i \in 1 .. Len(Plan[r]) /\ n \in 1 .. Len(Plan[r])
      BY PlanSteps
    <3>2. j \in 1 .. Len(Plan[r][i].effects) /\ m \in 1 .. Len(Plan[r][n].effects)
      BY PlanEffects
    <3> QED BY <3>1, <3>2
  <2>3. CASE e.op \in {"replace", "add"}
    <3>1. i = n /\ j = m
      BY <1>4, <2>1, <2>3
    <3> QED BY <2>2, <3>1
  <2>4. CASE e.op = "delete"
    <3> DEFINE es == Plan[r][n].effects
    <3>1. m = 1 /\ Len(es) = 2 /\ es[2].op = "add" /\ es[2].object = e.object
          /\ DOMAIN es = 1 .. Len(es)
      BY <2>4, PlanEffects
    <3>2. 2 \in DOMAIN es
      BY <3>1
    <3>3. i = n /\ j = 2
      BY <1>4, <2>1, <3>1, <3>2
    <3> QED BY <2>2, <3>1, <3>3
  <2> QED BY <1>4, <2>3, <2>4
<1>5. f.op \in {"replace", "add"} => kernel'[f.object] = kernel[f.object]
  <2>1. f.op \in {"replace", "add"} => f.object \in Objects \ {Table}
    BY <1>1, EffectShape
  <2> HIDE DEF e, f
  <2> QED BY <1>2, <1>4, <2>1
<1> HIDE DEF f
<1>6. EffectHolds(f) => EffectHolds(f)'
  BY <1>3, <1>5 DEF EffectHolds
<1> QED BY <1>6 DEF f

(* The policy a plan renders is there when the plan loads it.              *)
LEMMA PolicyIsThere ==
  ASSUME TypeOK, NEW r \in Runs, RunInv(r), Own(r), r \notin DryRun, WellFormed(r),
         Len(results[r]) + 1 = Len(Plan[r]), pc[r] # "error"
  PROVE  files[Rendered] # Absent
<1>1. PICK i \in DOMAIN Plan[r] : Plan[r][i].kind = "write" /\ Plan[r][i].path = Rendered
  BY RepeatAssumption
<1>2. i # Len(Plan[r])
  <2>1. i = Len(Plan[r]) => Plan[r][i] = LoadCommand
    BY PlanSteps
  <2> QED BY <1>1, <2>1 DEF LoadCommand
<1>3. i \in 1 .. Len(results[r])
  <2>1. i \in 1 .. Len(Plan[r]) /\ Len(Plan[r]) \in Nat /\ Len(results[r]) \in Nat
    BY PlanSteps DEF TypeOK
  <2> QED BY <1>2, <2>1
<1>4. results[r][i] = "ok"
  BY <1>3, OkSoFar
<1> QED BY <1>1, <1>3, <1>4 DEF Own, WriteInv

LEMMA ChildSerial ==
  ASSUME Inv, SerialInv, NEW r \in Runs, Child(r)
  PROVE  SerialInv'
<1>1. TypeOK /\ RunInv(r) /\ Own(r) /\ SingleInv
  BY DEF Inv, SerialInv
<1>2. /\ pc[r] = "running" /\ ChildAlive(r)
      /\ at' = [at EXCEPT ![r] = at[r] + 1]
      /\ UNCHANGED <<files, temp, pc, results, cancelled, latest, overlapped>>
  BY DEF Child, Effects, EffectFails
<1>a. PICK n, m : n = Len(results[r]) + 1 /\ m = at[r]
  OBVIOUS
<1> DEFINE es == Plan[r][n].effects
           e == es[m]
<1>3. /\ r \notin DryRun /\ Left(r) /\ Active(r)
      /\ n \in DOMAIN Plan[r] /\ Current(r) = Plan[r][n] /\ Plan[r][n].kind = "command"
      /\ m \in DOMAIN es /\ m \in Nat /\ DOMAIN es = 1 .. Len(es) /\ Len(es) \in Nat
  BY <1>1, <1>2, <1>a, EffectAtHand
<1>4. e \in Effect
  BY <1>1, <1>2, <1>3, <1>a, NextEffect
<1>5. /\ pc'[r] = "running" /\ at'[r] = m + 1 /\ results'[r] = results[r]
      /\ Current(r)' = Plan[r][n]
  BY <1>1, <1>2, <1>3, <1>a DEF TypeOK, Current
<1>6. \A q \in Runs \ {r} :
        /\ pc'[q] = pc[q] /\ results'[q] = results[q] /\ at'[q] = at[q]
        /\ exit'[q] = exit[q] /\ cancelled'[q] = cancelled[q] /\ faulted'[q] = faulted[q]
  BY <1>1, <1>2 DEF Child, Effects, EffectFails, TypeOK
<1>7. faulted[r] = "hidden" => faulted'[r] = "hidden"
  BY <1>1 DEF Child, Effects, EffectFails, TypeOK
<1>8. Serial' => Serial
  BY <1>2, <1>6, <1>7 DEF Serial, NothingHidden
<1>9. WriteInv(r)'
  BY <1>1, <1>2 DEF Own, WriteInv
<1>10. Serial => Ready(e) /\ FailInv(r)
  BY <1>1, <1>2, <1>3, <1>a DEF Own, ReadyInv
<1>11. latest = r /\ Serial /\ SetsOnce(r) => Reached(r)
  BY <1>1, <1>2 DEF Own, DoneInv
<1>12. ASSUME SingleInv', Serial' => FailInv(r)' /\ ReadyInv(r)' /\ DoneInv(r)'
       PROVE  SerialInv'
  <2>1. Own(r)'
    BY <1>5, <1>9, <1>12 DEF Own
  <2> QED BY <1>2, <1>3, <1>5, <1>6, <1>7, <1>12, <2>1, OneSerialRunMoves
<1>13. CASE Effects(r)
  <2>1. PICK ok \in BOOLEAN : Happens(e, ok) /\ exit' = [exit EXCEPT ![r] = ok]
    BY <1>3, <1>13, <1>a DEF Effects
  <2>2. exit'[r] = ok
    BY <1>1, <2>1 DEF TypeOK
  <2>3. ASSUME Serial'
        PROVE  /\ \A o \in Objects \ {Table} : \A v, w \in kernel'[o] : v = w
               /\ e.op = "delete" => kernel'[e.object] = {}
               /\ e.op = "drop" => kernel'[Table] = {}
               /\ e.op \in {"replace", "add"} => ok /\ kernel'[e.object] = {e.value}
               /\ e.op = "load" /\ ok => kernel'[Table] = {files[Rendered]}
               /\ ~ok => e.op = "load" /\ files[Rendered] = Absent
    <3> HIDE DEF es
    <3>1. SingleInv /\ Serial /\ Ready(e) /\ Happens(e, ok)
      BY <1>1, <1>8, <1>10, <2>1, <2>3
    <3>2. \A o \in Objects \ {Table} :
            /\ \A v, w \in kernel'[o] : v = w
            /\ kernel'[o] # kernel[o] =>
                 e.op \in {"replace", "add", "delete"} /\ e.object = o
      BY <1>1, <1>4, <3>1, EffectDoes
    <3>3. /\ e.op = "delete" => kernel'[e.object] = {}
          /\ e.op = "drop" => kernel'[Table] = {}
          /\ e.op \in {"replace", "add"} => ok /\ kernel'[e.object] = {e.value}
          /\ e.op = "load" /\ ok => kernel'[Table] = {files[Rendered]}
          /\ ~ok => e.op = "load" /\ files[Rendered] = Absent
      BY <1>1, <1>4, <3>1, EffectDoes, SMTT(30)
    <3> QED BY <3>2, <3>3
  <2>4. SingleInv'
    BY <2>3 DEF SingleInv
  <2>5. ASSUME Serial'
        PROVE  FailInv(r)'
    <3>1. ASSUME ~ok, WellFormed(r) PROVE FALSE
      <4>1. e.op = "load" /\ files[Rendered] = Absent
        BY <2>3, <2>5, <3>1
      <4>2. n = Len(Plan[r])
        BY <1>3, <4>1, PlanEffects
      <4>3. Len(results[r]) + 1 = Len(Plan[r]) /\ pc[r] # "error"
        BY <1>2, <1>a, <4>2
      <4>4. files[Rendered] # Absent
        BY <1>1, <1>3, <3>1, <4>3, PolicyIsThere
      <4> QED BY <4>1, <4>4
    <3>2. WellFormed(r)' = WellFormed(r)
      BY DEF WellFormed
    <3> QED BY <1>5, <2>2, <3>1, <3>2 DEF FailInv
  <2>6. ASSUME Serial'
        PROVE  ReadyInv(r)'
    <3> DEFINE k == m + 1
    <3> SUFFICES ASSUME k <= Len(es) PROVE Ready(es[k])'
      BY <1>3, <1>5 DEF ReadyInv, ChildAlive
    <3>1. k \in DOMAIN es
      BY <1>3
    <3>2. es[k].op = "add" => k = 2 /\ es[1].op = "delete" /\ es[1].object = es[k].object
      BY <1>3, <3>1, PlanEffects
    <3>3. es[k].op = "load" => k = 2 /\ es[1].op = "drop"
      BY <1>3, <3>1, PlanEffects
    <3>4. k = 2 => e = es[1]
      BY <1>3
    <3> HIDE DEF k, es
    <3>5. /\ es[k].op = "add" => kernel'[es[k].object] = {}
          /\ es[k].op = "load" => kernel'[Table] = {}
      BY <2>3, <2>6, <3>2, <3>3, <3>4
    <3>6. \A x : (x.op = "add" => kernel'[x.object] = {}) /\ (x.op = "load" => kernel'[Table] = {})
                 => Ready(x)'
      BY DEF Ready
    <3> QED BY <3>5, <3>6
  <2>7. ASSUME Serial'
        PROVE  DoneInv(r)'
    <3> SUFFICES ASSUME latest = r, SetsOnce(r) PROVE Reached(r)'
      BY <1>2 DEF DoneInv, SetsOnce
    <3>1. Reached(r) /\ Serial
      BY <1>8, <1>11, <2>7
    <3>2. Ready(Plan[r][n].effects[m]) /\ Happens(Plan[r][n].effects[m], ok)
      BY <1>3, <1>10, <2>1, <3>1
    <3>3. ASSUME NEW i \in DOMAIN Plan[r], Plan[r][i].kind = "command",
                 NEW j \in DOMAIN Plan[r][i].effects,
                 i < n \/ (i = n /\ j < m), EffectHolds(Plan[r][i].effects[j])
          PROVE  EffectHolds(Plan[r][i].effects[j])'
      <4>1. UNCHANGED files
        BY <1>2
      <4>2. Plan[r][i].kind = "command" /\ (i < n \/ (i = n /\ j < m))
        BY <3>3
      <4>3. EffectHolds(Plan[r][i].effects[j])
        BY <3>3
      <4> QED
        BY <1>1, <1>3, <3>1, <3>2, <4>1, <4>2, <4>3, NothingUndone, ZenonT(60)
    <3>4. ASSUME NEW i \in 1 .. Len(results[r])
          PROVE  Holds(Plan[r][i])'
      <4>1. i \in DOMAIN Plan[r] /\ i < n
        <5>1. i \in DOMAIN Plan[r]
          BY <1>1, ReportedSteps
        <5>2. Len(results[r]) \in Nat
          BY <1>1 DEF TypeOK
        <5> QED BY <1>3, <1>a, <5>1, <5>2
      <4>2. Holds(Plan[r][i])
        BY <3>1 DEF Reached
      <4>3. CASE Plan[r][i].kind = "command"
        BY <3>3, <4>1, <4>2, <4>3 DEF Holds
      <4>4. CASE Plan[r][i].kind # "command"
        BY <1>2, <4>2, <4>4 DEF Holds
      <4> QED BY <4>3, <4>4
    <3>5. ASSUME NEW j \in 1 .. m
          PROVE  EffectHolds(es[j])' \/ (~ok /\ j = Len(es))
      <4>1. CASE j = m
        <5>1. ASSUME ~ok PROVE m = Len(es)
          <6>1. e.op = "load"
            BY <2>3, <2>7, <5>1
          <6> QED BY <1>3, <6>1, PlanEffects
        <5>2. ASSUME ok PROVE EffectHolds(es[j])'
          <6>1. /\ e.op \in {"replace", "add"} => kernel'[e.object] = {e.value}
                /\ e.op = "load" => kernel'[Table] = {files'[Rendered]}
            BY <1>2, <2>3, <2>7, <5>2
          <6>2. \A x : /\ x.op \in {"replace", "add"} => kernel'[x.object] = {x.value}
                       /\ x.op = "load" => kernel'[Table] = {files'[Rendered]}
                       => EffectHolds(x)'
            BY DEF EffectHolds
          <6>3. EffectHolds(e)'
            BY <6>1, <6>2
          <6> QED BY <1>3, <4>1, <6>3
        <5> QED BY <4>1, <5>1, <5>2
      <4>2. CASE j # m
        <5>1. j \in 1 .. m - 1 /\ j \in DOMAIN es /\ j < m /\ j # Len(es)
          BY <1>3, <4>2
        <5>2. EffectHolds(es[j])
          BY <1>2, <1>3, <1>a, <3>1, <5>1 DEF Reached
        <5> QED BY <1>3, <3>3, <5>1, <5>2
      <4> QED BY <4>1, <4>2
    <3> QED BY <1>3, <1>5, <2>2, <3>4, <3>5 DEF Reached
  <2> QED BY <1>12, <2>4, <2>5, <2>6, <2>7
<1>14. CASE EffectFails(r)
  <2>1. /\ kernel' = kernel /\ exit'[r] = FALSE
        /\ faulted'[r] = IF faulted[r] = "hidden" \/ m < Len(es) THEN "hidden" ELSE "seen"
    BY <1>1, <1>3, <1>14, <1>a DEF EffectFails, TypeOK
  <2>2. SingleInv'
    BY <1>1, <1>8, <2>1 DEF SingleInv
  <2>3. Serial' => m = Len(es)
    BY <1>3, <2>1 DEF Serial, NothingHidden
  <2>4. FailInv(r)'
    BY <1>5, <2>1 DEF FailInv
  <2>5. Serial' => ReadyInv(r)'
    BY <1>3, <1>5, <2>3 DEF ReadyInv, ChildAlive
  <2>6. ASSUME Serial' PROVE DoneInv(r)'
    <3> SUFFICES ASSUME latest = r, SetsOnce(r) PROVE Reached(r)'
      BY <1>2 DEF DoneInv, SetsOnce
    <3>1. Reached(r)
      BY <1>8, <1>11, <2>6
    <3>2. \A x : EffectHolds(x)' = EffectHolds(x)
      BY <1>2, <2>1 DEF EffectHolds
    <3>3. \A x : Holds(x)' = Holds(x)
      BY <1>2, <3>2 DEF Holds
    <3>4. ASSUME NEW j \in 1 .. m
          PROVE  EffectHolds(es[j])' \/ j = Len(es)
      <4>1. CASE j \in 1 .. m - 1
        BY <1>2, <1>3, <1>a, <3>1, <3>2, <4>1 DEF Reached
      <4>2. CASE j = m
        BY <2>3, <2>6, <4>2
      <4> QED BY <1>3, <4>1, <4>2
    <3> QED BY <1>3, <1>5, <2>1, <3>1, <3>3, <3>4 DEF Reached
  <2> QED BY <1>12, <2>2, <2>4, <2>5, <2>6
<1> QED BY <1>13, <1>14 DEF Child

LEMMA WaitSerial ==
  ASSUME Inv, SerialInv, NEW r \in Runs, Wait(r)
  PROVE  SerialInv'
<1>1. TypeOK /\ RunInv(r) /\ Own(r) /\ SingleInv
  BY DEF Inv, SerialInv
<1>2. /\ pc[r] = "running" /\ Left(r) /\ Active(r)
      /\ UNCHANGED <<files, temp, kernel, cancelled, faulted, latest, overlapped>>
  BY <1>1 DEF Wait, Exit, Exited, KillChild, RunInv, Active
<1>3. \A q \in Runs \ {r} :
        /\ pc'[q] = pc[q] /\ results'[q] = results[q] /\ at'[q] = at[q]
        /\ exit'[q] = exit[q] /\ cancelled'[q] = cancelled[q] /\ faulted'[q] = faulted[q]
  BY <1>1, <1>2 DEF Wait, Exit, KillChild, Report, TypeOK
<1>4. Serial' = Serial
  BY <1>2 DEF Serial, NothingHidden
<1>5. SingleInv'
  BY <1>1, <1>2, <1>4 DEF SingleInv
<1>6. ASSUME Own(r)'
      PROVE  SerialInv'
  BY <1>2, <1>3, <1>5, <1>6, OneSerialRunMoves
<1>7. ASSUME Report(r, "error"), Serial /\ WellFormed(r) => cancelled[r] \/ faulted[r] # "none"
      PROVE  SerialInv'
  <2>1. Own(r)'
    BY <1>2, <1>4, <1>7, ErrorReported
  <2> QED BY <1>6, <2>1
<1>8. CASE Exit(r)
  <2>1. ~ChildAlive(r) /\ Report(r, IF cancelled[r] \/ ~exit[r] THEN "error" ELSE "ok")
    BY <1>8 DEF Exit, Exited
  <2>2. CASE cancelled[r] \/ ~exit[r]
    <3>1. Serial /\ WellFormed(r) => cancelled[r] \/ faulted[r] # "none"
      BY <1>1, <1>2, <2>2 DEF Own, FailInv
    <3> QED BY <1>7, <2>1, <2>2, <3>1
  <2>3. CASE ~cancelled[r] /\ exit[r]
    <3>1. Report(r, "ok")
      BY <2>1, <2>3
    <3>2. Current(r).kind = "command"
      BY <1>1, <1>2 DEF RunInv
    <3>3. Current(r).effects \in Seq(Effect)
      BY <1>1, <1>2, <3>2, CurrentIsStep, CommandEffects
    <3>4. at[r] - 1 = Len(Current(r).effects) /\ DOMAIN Current(r).effects = 1 .. at[r] - 1
      <4>1. at[r] \in 1 .. Len(Current(r).effects) + 1
        BY <1>1, <1>2 DEF RunInv
      <4> QED BY <2>1, <3>3, <4>1 DEF ChildAlive
    <3>5. ASSUME Serial', latest' = r, SetsOnce(r)
          PROVE  /\ \A i \in 1 .. Len(results[r]) : Holds(Plan[r][i])'
                 /\ \A step : step = Current(r) => Holds(step)'
      <4>1. Reached(r)
        BY <1>1, <1>2, <1>4, <3>5 DEF Own, DoneInv
      <4>2. \A step : Holds(step)' = Holds(step)
        BY <1>2 DEF Holds, EffectHolds
      <4>3. Holds(Current(r))
        BY <1>2, <2>3, <3>2, <3>4, <4>1 DEF Reached, Holds
      <4> QED BY <4>1, <4>2, <4>3 DEF Reached
    <3>6. Own(r)'
      BY <1>2, <3>1, <3>2, <3>5, OkReported
    <3> QED BY <1>6, <3>6
  <2> QED BY <2>2, <2>3
<1>9. CASE KillChild(r)
  <2>1. CASE Current(r).shell
    <3>1. /\ pc' = [pc EXCEPT ![r] = "draining"] /\ cancelled[r]
          /\ UNCHANGED <<results, at, exit>>
      BY <1>9, <2>1 DEF KillChild
    <3>2. pc'[r] = "draining"
      BY <1>1, <3>1 DEF TypeOK
    <3>3. WriteInv(r)'
      BY <1>1, <1>2, <3>1 DEF Own, WriteInv
    <3>4. Serial' => ReadyInv(r)'
      BY <1>1, <1>2, <1>4, <3>1 DEF Own, ReadyInv, Ready, ChildAlive, Current
    <3>5. Own(r)'
      BY <1>2, <3>1, <3>2, <3>3, <3>4 DEF Own, FailInv, DoneInv
    <3> QED BY <1>6, <3>5
  <2>2. CASE ~Current(r).shell
    BY <1>7, <1>9, <2>2 DEF KillChild
  <2> QED BY <2>1, <2>2
<1> QED BY <1>8, <1>9 DEF Wait

LEMMA DrainSerial ==
  ASSUME Inv, SerialInv, NEW r \in Runs, Drain(r)
  PROVE  SerialInv'
<1>1. TypeOK /\ RunInv(r) /\ Own(r) /\ SingleInv
  BY DEF Inv, SerialInv
<1>2. /\ pc[r] = "draining" /\ Left(r) /\ Active(r) /\ r \notin DryRun /\ ChildAlive(r)
      /\ UNCHANGED <<files, temp, cancelled, faulted, latest, overlapped>>
      /\ Report(r, "error")
  BY <1>1 DEF Drain, RunInv, Active
<1>3. \A q \in Runs \ {r} :
        /\ pc'[q] = pc[q] /\ results'[q] = results[q] /\ at'[q] = at[q]
        /\ exit'[q] = exit[q] /\ cancelled'[q] = cancelled[q] /\ faulted'[q] = faulted[q]
  BY <1>1, <1>2 DEF Report, TypeOK
<1>4. Serial' = Serial
  BY <1>2 DEF Serial, NothingHidden
<1>5. SingleInv'
  <2>1. CASE UNCHANGED kernel
    BY <1>1, <1>4, <2>1 DEF SingleInv
  <2>2. ASSUME NEW ok \in BOOLEAN, Happens(Current(r).effects[at[r]], ok), Serial'
        PROVE  \A o \in Objects \ {Table} : \A v, w \in kernel'[o] : v = w
    <3>1. PICK e : e = Current(r).effects[at[r]]
      OBVIOUS
    <3>2. e \in Effect
      BY <1>1, <1>2, <3>1, NextEffect
    <3>3. Serial /\ Ready(e) /\ Happens(e, ok)
      BY <1>1, <1>2, <1>4, <2>2, <3>1 DEF Own, ReadyInv
    <3> QED BY <1>1, <3>2, <3>3, EffectDoes
  <2>3. UNCHANGED kernel \/ \E ok \in BOOLEAN : Happens(Current(r).effects[at[r]], ok)
    BY DEF Drain
  <2> QED BY <2>1, <2>2, <2>3 DEF SingleInv
<1>6. Own(r)'
  <2>1. cancelled'[r]
    BY <1>1, <1>2 DEF Own
  <2> QED BY <1>2, <2>1, ErrorReported
<1> QED BY <1>2, <1>3, <1>5, <1>6, OneSerialRunMoves

-----------------------------------------------------------------------------
(* Requests, contexts and daemons.                                         *)

LEMMA RequestSerial ==
  ASSUME Inv, SerialInv, NEW r \in Runs, Request(r)
  PROVE  SerialInv'
<1>1. TypeOK /\ RunInv(r) /\ SoloInv /\ SingleInv
  BY DEF Inv, SerialInv
<1>2. /\ pc[r] = "idle" /\ pc' = [pc EXCEPT ![r] = "step"]
      /\ UNCHANGED <<files, temp, kernel, results, at, exit, cancelled, faulted>>
      /\ latest' = IF r \in DryRun THEN latest ELSE r
  BY DEF Request
<1>3. pc'[r] = "step" /\ \A q \in Runs \ {r} : pc'[q] = pc[q]
  BY <1>1, <1>2 DEF TypeOK
<1>4. Serial' => overlapped = {} /\ (r \in DryRun \/ \A q \in Runs \ DryRun : ~Active(q))
  BY DEF Request, Serial
<1>5. Serial' => Serial
  BY <1>2, <1>4 DEF Serial, NothingHidden
<1>6. SoloInv'
  <2>1. latest' \notin DryRun
    BY <1>1, <1>2 DEF SoloInv
  <2>2. ASSUME Serial', NEW q \in Runs \ DryRun, Active(q)'
        PROVE  latest' = q
    <3>1. CASE q = r
      BY <1>2, <3>1
    <3>2. CASE q # r
      <4>1. Active(q)
        BY <1>3, <2>2, <3>2 DEF Active
      <4>2. r \in DryRun /\ latest = q
        BY <1>1, <1>4, <1>5, <2>2, <4>1 DEF SoloInv
      <4> QED BY <1>2, <4>2
    <3> QED BY <3>1, <3>2
  <2> QED BY <2>1, <2>2 DEF SoloInv
<1>7. SingleInv'
  BY <1>1, <1>2, <1>5 DEF SingleInv
<1>8. ASSUME NEW q \in Runs
      PROVE  Own(q)'
  <2>1. Own(q)
    BY DEF SerialInv
  <2>2. WriteInv(q)'
    BY <1>2, <2>1 DEF Own, WriteInv
  <2>3. CASE q = r
    <3>1. results'[r] = <<>>
      BY <1>1, <1>2 DEF RunInv
    <3>2. Len(results'[r]) = 0
      BY <3>1
    <3>3. DoneInv(r)'
      BY <1>3, <3>2 DEF DoneInv, Reached
    <3> QED BY <1>3, <2>2, <2>3, <3>3 DEF Own, FailInv, ReadyInv
  <2>4. CASE q # r
    <3>1. pc'[q] = pc[q] /\ (pc[q] = "draining" => cancelled'[q])
      BY <1>2, <1>3, <2>1, <2>4 DEF Own
    <3>2. ASSUME Serial'
          PROVE  FailInv(q)' /\ ReadyInv(q)' /\ DoneInv(q)'
      <4>1. FailInv(q) /\ ReadyInv(q) /\ DoneInv(q)
        BY <1>5, <2>1, <3>2 DEF Own
      <4>2. FailInv(q)'
        BY <1>2, <3>1, <4>1 DEF FailInv
      <4>3. ReadyInv(q)'
        BY <1>2, <3>1, <4>1 DEF ReadyInv, Ready, ChildAlive, Current
      <4>4. latest' = q => latest = q
        BY <1>2, <2>4
      <4>5. \A e : EffectHolds(e)' = EffectHolds(e)
        BY <1>2 DEF EffectHolds
      <4>6. \A step : Holds(step)' = Holds(step)
        BY <1>2, <4>5 DEF Holds
      <4>7. Reached(q) => Reached(q)'
        BY <1>2, <3>1, <4>5, <4>6 DEF Reached, Current
      <4>8. DoneInv(q)'
        BY <3>1, <4>1, <4>4, <4>7 DEF DoneInv, SetsOnce
      <4> QED BY <4>2, <4>3, <4>8
    <3> QED BY <2>2, <3>1, <3>2 DEF Own
  <2> QED BY <2>3, <2>4
<1> QED BY <1>6, <1>7, <1>8 DEF SerialInv

(* A run that is left alone, or given up by a context or with its daemon.  *)
LEMMA GivenUp ==
  ASSUME TypeOK, SerialInv,
         UNCHANGED <<files, temp, kernel, results, at, exit, faulted, latest, overlapped>>,
         \A q \in Runs :
           /\ pc'[q] = pc[q] \/ pc'[q] = "dead"
           /\ cancelled[q] => cancelled'[q]
  PROVE  SerialInv'
<1>1. Serial' = Serial
  BY DEF Serial, NothingHidden
<1>2. SoloInv'
  <2>1. \A q \in Runs : Active(q)' => Active(q)
    BY DEF Active
  <2> QED BY <1>1, <2>1 DEF SerialInv, SoloInv
<1>3. SingleInv'
  BY <1>1 DEF SerialInv, SingleInv
<1>4. ASSUME NEW q \in Runs
      PROVE  Own(q)'
  <2>1. Own(q)
    BY DEF SerialInv
  <2>2. WriteInv(q)'
    BY <2>1 DEF Own, WriteInv
  <2>3. CASE pc'[q] = "dead"
    BY <2>2, <2>3 DEF Own, FailInv, ReadyInv, DoneInv
  <2>4. CASE pc'[q] = pc[q]
    <3>1. pc'[q] = "draining" => cancelled'[q]
      BY <2>1, <2>4 DEF Own
    <3>2. ASSUME Serial
          PROVE  FailInv(q)' /\ ReadyInv(q)' /\ DoneInv(q)'
      <4>1. FailInv(q) /\ ReadyInv(q) /\ DoneInv(q)
        BY <2>1, <3>2 DEF Own
      <4>2. FailInv(q)'
        BY <2>4, <4>1 DEF FailInv
      <4>3. ReadyInv(q)'
        BY <2>4, <4>1 DEF ReadyInv, Ready, ChildAlive, Current
      <4>4. DoneInv(q)'
        BY <2>4, <4>1 DEF DoneInv, Reached, Holds, EffectHolds, Current
      <4> QED BY <4>2, <4>3, <4>4
    <3> QED BY <1>1, <2>2, <3>1, <3>2 DEF Own
  <2> QED BY <2>3, <2>4
<1> QED BY <1>2, <1>3, <1>4 DEF SerialInv

LEMMA InitSerial == Init => SerialInv
<1> SUFFICES ASSUME Init PROVE SerialInv
  OBVIOUS
<1>1. SoloInv
  BY DEF Init, SoloInv, Active
<1>2. SingleInv
  <2>1. ASSUME NEW o \in Objects \ {Table}
        PROVE  \A v, w \in kernel[o] : v = w
    <3>1. kernel[o] \in {{}} \cup {{v} : v \in Values}
      BY DEF Init
    <3> QED BY <3>1
  <2> QED BY <2>1 DEF SingleInv
<1>3. ASSUME NEW r \in Runs PROVE Own(r)
  <2>1. results[r] = <<>> /\ pc[r] = "idle" /\ Len(results[r]) = 0
    BY DEF Init
  <2>2. WriteInv(r)
    BY <2>1 DEF WriteInv
  <2> QED BY <2>1, <2>2 DEF Own, FailInv, ReadyInv, DoneInv
<1> QED BY <1>1, <1>2, <1>3 DEF SerialInv

LEMMA StepSerial == Inv /\ Whole /\ SerialInv /\ [Next]_vars => SerialInv'
<1> SUFFICES ASSUME Inv, Whole, SerialInv, [Next]_vars PROVE SerialInv'
  OBVIOUS
<1>1. TypeOK
  BY DEF Inv
<1>2. ASSUME NEW r \in Runs, Cancel(r) PROVE SerialInv'
  <2>1. /\ UNCHANGED <<files, temp, kernel, pc, results, at, exit, faulted, latest, overlapped>>
        /\ \A q \in Runs : cancelled[q] => cancelled'[q]
    BY <1>1, <1>2 DEF Cancel, TypeOK
  <2> QED BY <1>1, <2>1, GivenUp
<1>3. ASSUME NEW R, Stop(R) PROVE SerialInv'
  <2>1. /\ UNCHANGED <<files, temp, kernel, results, at, exit, cancelled, faulted, latest, overlapped>>
        /\ \A q \in Runs : pc'[q] = pc[q] \/ pc'[q] = "dead"
    BY <1>3 DEF Stop
  <2> QED BY <1>1, <2>1, GivenUp
<1>4. CASE UNCHANGED vars
  BY <1>1, <1>4, GivenUp DEF vars
<1> QED
  BY <1>2, <1>3, <1>4, RequestSerial, LoopSerial, ChildSerial, WaitSerial, DrainSerial
     DEF Next

-----------------------------------------------------------------------------
(* The theorems.                                                           *)

LEMMA SerialInvariant == Spec => [](Inv /\ SerialInv)
<1>1. Init => SerialInv
  BY InitSerial
<1>2. Inv /\ Whole /\ SerialInv /\ [Next]_vars => SerialInv'
  BY StepSerial
<1>3. Spec => [](Inv /\ Whole)
  BY Invariance
<1> QED BY <1>1, <1>2, <1>3, PTL DEF Spec

(* As long as applies do not overlap, a well-formed plan fails only when   *)
(* the host fails or its context is done: whatever earlier runs left half  *)
(* done makes no later one fail (builder.go: the snippets of               *)
(* addRoutingPlan and BuildPlan).                                          *)
THEOREM SerialSucceeds == Spec => []SerialApplySucceeds
<1>1. Inv /\ SerialInv => SerialApplySucceeds
  <2> SUFFICES ASSUME Inv, SerialInv, NothingHidden, overlapped = {}, NEW r \in Runs,
                      pc[r] = "error", WellFormed(r)
               PROVE  cancelled[r] \/ faulted[r] = "seen"
    BY DEF SerialApplySucceeds
  <2>1. FailInv(r)
    BY DEF SerialInv, Own, Serial
  <2>2. faulted[r] \in {"none", "seen", "hidden"} /\ faulted[r] # "hidden"
    BY DEF Inv, TypeOK, NothingHidden
  <2> QED BY <2>1, <2>2 DEF FailInv
<1> QED BY <1>1, SerialInvariant, PTL

(* As long as applies do not overlap, "ok" means that the host is what the *)
(* plan says, whatever earlier runs left half done, if the plan sets every *)
(* file and object once (executor.go: Execute, builder.go: the snippets).  *)
THEOREM SerialExact == Spec => []SerialApplyIsExact
<1>1. Inv /\ SerialInv => SerialApplyIsExact
  <2> SUFFICES ASSUME Inv, SerialInv, NothingHidden, overlapped = {}, NEW r \in Runs,
                      latest = r, pc[r] = "ok", SetsOnce(r), NEW i \in DOMAIN Plan[r]
               PROVE  Holds(Plan[r][i])
    BY DEF SerialApplyIsExact, Exact
  <2>1. Reached(r)
    BY DEF SerialInv, Own, Serial, DoneInv
  <2>2. i \in 1 .. Len(results[r])
    <3>1. Len(results[r]) = Len(Plan[r])
      BY DEF Inv, RunInv
    <3> QED BY <3>1, PlanSteps
  <2> QED BY <2>1, <2>2 DEF Reached
<1> QED BY <1>1, SerialInvariant, PTL
=============================================================================
