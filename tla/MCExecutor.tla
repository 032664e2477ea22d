----------------------------- MODULE MCExecutor -----------------------------
(***************************************************************************)
(* Small instances of Executor.  Each plan has the shape BuildPlan gives   *)
(* it: settings that replace, one policy rule (`ip rule del ...; ip rule   *)
(* add ...`), the rendered policy, the load.  Two runs are enough for any  *)
(* interleaving of two loads.                                              *)
(***************************************************************************)
EXTENDS Executor

CONSTANTS r1, r2, r3, prio, table, conf, p1, p2

Replace(o, v) ==
  [kind |-> "command", shell |-> FALSE,
   effects |-> <<[op |-> "replace", object |-> o, value |-> v]>>]
Write(v) == [kind |-> "write", path |-> conf, value |-> v]
Warning == [kind |-> "warning"]
Missing == [kind |-> "nocommand"]
Unknown == [kind |-> "unknown"]

MCPaths == {conf}
TwoObjects == {prio, table}
MCValues == {p1, p2}

PlanOf(v) ==
  <<Warning, RuleCommand(prio, v), Write(v), LoadCommand>>
TwoRuns == {r1, r2}
ThreeRuns == {r1, r2, r3}

TwoPlans == [r \in TwoRuns |-> PlanOf(IF r = r1 THEN p1 ELSE p2)]
(* The third run is dry, and two plans have steps BuildPlan never makes.   *)
MixedPlans ==
  [r \in ThreeRuns |->
     IF r = r1 THEN <<Replace(prio, p1), Write(p1), LoadCommand>>
     ELSE IF r = r2 THEN <<Unknown, LoadCommand>>
     ELSE <<Write(p2), Missing, LoadCommand>>]
Nobody == {}
ThirdRun == {r3}
=============================================================================
