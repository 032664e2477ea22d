--------------------------- MODULE MCConfigStore ---------------------------
(***************************************************************************)
(* Small instances of ConfigStore: a handler and a command line are enough *)
(* for every interleaving of two system calls on the file, all the state   *)
(* processes share.                                                        *)
(***************************************************************************)
EXTENDS ConfigStore

CONSTANTS h1, c1, dflt, other, bad

OneHandler == {h1}
OneCli == {c1}
TwoGood == {dflt, other}
OneBad == {bad}

(* No file at first, and nobody but lasd's own processes writes it.        *)
RaceSpec ==
  /\ Init /\ file = NoFile
  /\ [][\E p \in Proc : Request(p) \/ Step(p)]_vars
  /\ Fairness
=============================================================================
