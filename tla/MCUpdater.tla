----------------------------- MODULE MCUpdater ------------------------------
(***************************************************************************)
(* Small instances of Updater: both cores, the timer and an administrator  *)
(* who updates one core by hand.                                           *)
(***************************************************************************)
EXTENDS Updater

CONSTANTS singbox, xray, timer, admin

MCCores == {singbox, xray}
MCRuns == {timer, admin}

Line(cores) == [cores |-> cores, force |-> FALSE, dryRun |-> FALSE,
                restart |-> TRUE]
(* sorted(CORES), by way of las-update.sh.                                 *)
Daily == Line(<<singbox, xray>>)
MCLines ==
  [r \in MCRuns |->
     IF r = timer THEN {Daily}
     ELSE {[Line(<<xray>>) EXCEPT !.force = TRUE],
           [Line(<<xray>>) EXCEPT !.dryRun = TRUE, !.restart = FALSE]}]
=============================================================================
