------------------------------ MODULE MCWebUI -------------------------------
(* Two administrators and two calls at a time; the default document, the   *)
(* site's own, and that with one more edit, which leaves a list out.  The  *)
(* default document itself is not edited further.                          *)
EXTENDS WebUI, TLC

CONSTANTS site, list, default, own, edited

MCEdits == {site, list}
Lists == {list}
MCDocuments == {default, own, edited}
MCHas ==
  [d \in MCDocuments |->
     IF d = default THEN {} ELSE IF d = own THEN {site} ELSE {site, list}]

Symmetry == Permutations(Browsers) \cup Permutations(Handlers)
=============================================================================
