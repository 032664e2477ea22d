----------------------------- MODULE HostProofs -----------------------------
(***************************************************************************)
(* The safety properties of Host, for every set of configurations, from    *)
(* the order of their plans (HostPlanProofs).                              *)
(***************************************************************************)
EXTENDS HostPlanProofs, FiniteSetTheorems

(* A step of a plan, with what comes before and after it.                  *)
LEMMA StepsFit ==
  ASSUME NEW c \in Configs
  PROVE  /\ Plans[c] \in Seq(PlanStep) /\ Len(Plans[c]) \in Nat
         /\ DOMAIN Plans[c] = 1 .. Len(Plans[c])
         /\ \A i \in 1 .. Len(Plans[c]) :
              Plans[c][i] \in PlanStep /\ Plans[c][i] \in ToSet(Plans[c])
         /\ \A i \in 1 .. Len(Plans[c]) :
              Fits(c, Before(Plans[c], i), Plans[c][i], After(Plans[c], i))
<1> DEFINE P == Plans[c]
<1>1. P \in Arranged(c, {}, {})
  BY PlanInOrder DEF Part, Plans
<1> HIDE DEF P
<1>2. P \in Seq(PlanStep)
  BY <1>1 DEF Arranged
<1>3. Len(P) \in Nat /\ DOMAIN P = 1 .. Len(P)
      /\ \A i \in 1 .. Len(P) : P[i] \in PlanStep /\ P[i] \in ToSet(P)
  BY <1>2, Members
<1>4. ASSUME NEW i \in 1 .. Len(P) PROVE Fits(c, Before(P, i), P[i], After(P, i))
  <2>1. Fits(c, {} \cup Before(P, i), P[i], {} \cup After(P, i))
    BY <1>1 DEF Arranged
  <2>2. {} \cup Before(P, i) = Before(P, i) /\ {} \cup After(P, i) = After(P, i)
    OBVIOUS
  <2> QED BY <2>1, <2>2
<1> QED BY <1>2, <1>3, <1>4 DEF P

-----------------------------------------------------------------------------
(* The kernel's state.                                                     *)

Pairs == Links \X Families
Nets ==
  [present : SUBSET Links, up : SUBSET Links, addressed : SUBSET Pairs,
   master : [Links -> Links \cup {None}], parent : [Links -> Links \cup {None}],
   routes : [Slots -> SUBSET Links]]
NetOK(n) ==
  /\ n \in Nets
  /\ n.up \subseteq n.present
  /\ \A a \in n.addressed : a[1] \in n.present
  /\ \A s \in Slots : n.routes[s] \subseteq n.present

LEMMA NetFields ==
  ASSUME NEW n, NetOK(n)
  PROVE  /\ n.present \subseteq Links /\ n.up \subseteq n.present
         /\ n.addressed \subseteq Links \X Families
         /\ \A k, f : <<k, f>> \in n.addressed => k \in n.present /\ f \in Families
         /\ n.master \in [Links -> Links \cup {None}]
         /\ n.parent \in [Links -> Links \cup {None}]
         /\ n.routes \in [Slots -> SUBSET Links] /\ DOMAIN n.routes = Slots
         /\ \A s \in Slots : n.routes[s] \subseteq n.present
         /\ \A l : OnTop(n, l) \subseteq n.present
  BY DEF NetOK, Nets, OnTop, Pairs

LEMMA RaisedFields ==
  ASSUME NEW n, NetOK(n), NEW l \in n.present
  PROVE  LET m == Raised(n, l) IN
           /\ NetOK(m)
           /\ m.present = n.present /\ m.addressed = n.addressed
           /\ m.master = n.master /\ m.parent = n.parent /\ m.routes = n.routes
           /\ m.up = n.up \cup {l} \cup OnTop(n, l)
<1> DEFINE m == Raised(n, l)
<1>1. /\ m.present = n.present /\ m.addressed = n.addressed
      /\ m.master = n.master /\ m.parent = n.parent /\ m.routes = n.routes
      /\ m.up = n.up \cup {l} \cup OnTop(n, l)
  BY DEF Raised, NetOK, Nets
<1>2. m.up \subseteq n.present
  BY <1>1, NetFields
<1>3. m \in Nets
  <2>1. n.up \cup {l} \cup OnTop(n, l) \in SUBSET Links
    BY <1>1, <1>2, NetFields
  <2> QED BY <2>1 DEF Raised, NetOK, Nets
<1> HIDE DEF m
<1>4. NetOK(m)
  BY <1>1, <1>2, <1>3, NetFields DEF NetOK
<1> QED BY <1>1, <1>4 DEF m

LEMMA LoweredFields ==
  ASSUME NEW n, NetOK(n), NEW l
  PROVE  LET m == Lowered(n, l) IN
           /\ NetOK(m)
           /\ m.present = n.present /\ m.addressed \subseteq n.addressed
           /\ \A k, f : <<k, f>> \in n.addressed /\ (f = "v6" => k \notin {l} \cup OnTop(n, l)) =>
                <<k, f>> \in m.addressed
           /\ m.master = n.master /\ m.parent = n.parent
           /\ m.up = n.up \ ({l} \cup OnTop(n, l))
           /\ \A s \in Slots : m.routes[s] = IF n.routes[s] \cap m.up = {} THEN {} ELSE n.routes[s]
<1> DEFINE m == Lowered(n, l)
           up == n.up \ ({l} \cup OnTop(n, l))
           fallen == n.up \cap ({l} \cup OnTop(n, l))
           addressed == n.addressed \ (fallen \X {"v6"})
           routes == [s \in Slots |-> IF n.routes[s] \cap up = {} THEN {} ELSE n.routes[s]]
<1>1. m = [n EXCEPT !.up = up, !.addressed = addressed, !.routes = routes]
  <2>1. DOMAIN n.routes = Slots
    BY NetFields
  <2>2. n.up \ fallen = up
    OBVIOUS
  <2> HIDE DEF up
  <2> QED BY <2>1, <2>2 DEF Lowered, NetOK, Nets
<1>2. /\ routes \in [Slots -> SUBSET Links] /\ up \in SUBSET Links
      /\ \A s \in Slots : routes[s] \subseteq n.present
      /\ addressed \subseteq n.addressed /\ addressed \in SUBSET Pairs
  BY NetFields DEF Pairs
<1>8. \A k, f : <<k, f>> \in n.addressed /\ (f = "v6" => k \notin {l} \cup OnTop(n, l)) =>
        <<k, f>> \in addressed
  OBVIOUS
<1>3. \A s \in Slots : routes[s] = IF n.routes[s] \cap up = {} THEN {} ELSE n.routes[s]
  OBVIOUS
<1>4. up \subseteq n.present
  BY NetFields
<1> HIDE DEF m, up, routes, addressed
<1>5. /\ m.present = n.present /\ m.addressed = addressed
      /\ m.master = n.master /\ m.parent = n.parent /\ m.up = up /\ m.routes = routes
  BY <1>1 DEF NetOK, Nets
<1>6. m \in Nets
  BY <1>1, <1>2 DEF NetOK, Nets
<1>7. NetOK(m)
  BY <1>2, <1>4, <1>5, <1>6, NetFields DEF NetOK
<1> QED BY <1>2, <1>3, <1>5, <1>7, <1>8 DEF m, up

(* What s does to a link that it gives a master.                           *)
GivenMaster(n, m, s) ==
  /\ NetOK(m)
  /\ m.present = n.present /\ m.addressed = n.addressed /\ m.up = n.up
  /\ m.parent = n.parent /\ m.routes = n.routes
  /\ \A k \in Links :
       m.master[k] = n.master[k] \/ (k = s.link /\ m.master[k] = s.master)
  /\ s.master \in n.present => m.master[s.link] = s.master

LEMMA MasterFields ==
  ASSUME NEW n, NetOK(n), NEW s, s.link \in Links, s.master \in Links
  PROVE  GivenMaster(n, WithMaster(n, s.link, s.master), s)
<1> DEFINE m == WithMaster(n, s.link, s.master)
           master == [n.master EXCEPT ![s.link] = s.master]
<1>1. CASE s.master \notin n.present
  BY <1>1 DEF WithMaster, GivenMaster
<1>2. CASE s.master \in n.present
  <2>1. m = [n EXCEPT !.master = master]
    BY <1>2 DEF WithMaster, NetOK, Nets
  <2>2. master \in [Links -> Links \cup {None}] /\ master[s.link] = s.master
        /\ \A k \in Links : k # s.link => master[k] = n.master[k]
    BY NetFields
  <2> HIDE DEF m, master
  <2>3. /\ m.present = n.present /\ m.addressed = n.addressed
        /\ m.up = n.up /\ m.parent = n.parent /\ m.routes = n.routes /\ m.master = master
    BY <2>1 DEF NetOK, Nets
  <2>4. m \in Nets
    BY <2>1, <2>2 DEF NetOK, Nets
  <2>5. NetOK(m)
    BY <2>3, <2>4, NetFields DEF NetOK
  <2>6. GivenMaster(n, m, s)
    BY <2>2, <2>3, <2>5 DEF GivenMaster
  <2> QED BY <2>6 DEF m
<1> QED BY <1>1, <1>2

LEMMA RemovedFields ==
  ASSUME NEW n, NetOK(n), NEW links
  PROVE  LET m == Removed(n, links)
             gone == links \cup {k \in n.present : n.parent[k] \in links}
         IN /\ NetOK(m)
            /\ m.present = n.present \ gone /\ m.up = n.up \ gone
            /\ \A k, f : <<k, f>> \in m.addressed <=> <<k, f>> \in n.addressed /\ k \notin gone
            /\ \A k \in Links : m.parent[k] = IF k \in gone THEN None ELSE n.parent[k]
<1> DEFINE m == Removed(n, links)
           gone == links \cup {k \in n.present : n.parent[k] \in links}
           addressed == {a \in n.addressed : a[1] \notin gone}
           master == [k \in Links |-> IF k \in gone THEN None ELSE n.master[k]]
           parent == [k \in Links |-> IF k \in gone THEN None ELSE n.parent[k]]
           routes == [s \in Slots |-> IF n.routes[s] \cap gone = {} THEN n.routes[s] ELSE {}]
<1>1. m = [n EXCEPT !.present = n.present \ gone, !.up = n.up \ gone,
                    !.addressed = addressed, !.master = master,
                    !.parent = parent, !.routes = routes]
  <2>1. DOMAIN n.routes = Slots
    BY NetFields
  <2> HIDE DEF gone
  <2>2. m = [n EXCEPT !.present = n.present \ gone, !.up = n.up \ gone,
                      !.addressed = addressed, !.master = master, !.parent = parent,
                      !.routes = [s \in DOMAIN n.routes |->
                                    IF n.routes[s] \cap gone = {} THEN n.routes[s] ELSE {}]]
    BY DEF Removed, NetOK, Nets, gone
  <2> QED BY <2>1, <2>2
<1>2. /\ master \in [Links -> Links \cup {None}] /\ parent \in [Links -> Links \cup {None}]
      /\ routes \in [Slots -> SUBSET Links]
      /\ \A s \in Slots : routes[s] \subseteq n.present \ gone
      /\ \A k \in Links : parent[k] = IF k \in gone THEN None ELSE n.parent[k]
  BY NetFields
<1>3. /\ n.present \ gone \in SUBSET Links /\ n.up \ gone \in SUBSET Links
      /\ addressed \in SUBSET Pairs
      /\ n.up \ gone \subseteq n.present \ gone
      /\ \A a \in addressed : a[1] \in n.present \ gone
  <2>1. \A a \in n.addressed : a[1] \in n.present
    BY DEF NetOK
  <2> QED BY <2>1, NetFields DEF Pairs
<1>7. \A k, f : <<k, f>> \in addressed <=> <<k, f>> \in n.addressed /\ k \notin gone
  OBVIOUS
<1> HIDE DEF m, gone, addressed, master, parent, routes
<1>4. /\ m.present = n.present \ gone /\ m.up = n.up \ gone /\ m.addressed = addressed
      /\ m.parent = parent /\ m.routes = routes
  BY <1>1 DEF NetOK, Nets
<1>5. m \in Nets
  BY <1>1, <1>2, <1>3 DEF NetOK, Nets
<1>6. NetOK(m)
  BY <1>2, <1>3, <1>4, <1>5 DEF NetOK
<1> QED BY <1>2, <1>4, <1>6, <1>7 DEF m, gone

(* What a step s of the plan may change, from n to m, and what it leaves   *)
(* there: only enslaving and attaching take a link down for a moment, which *)
(* costs its IPv6 addresses, and only "down" leaves one down.              *)
Changed(n, m, s) ==
  /\ NetOK(m)
  /\ n.present \subseteq m.present
  /\ \A k \in m.present \ n.present : s.op = "create" /\ k = s.link /\ m.parent[k] = s.parent
  /\ \A k \in Links : m.parent[k] = n.parent[k] \/ k \in m.present \ n.present
  /\ \A k, f : <<k, f>> \in n.addressed /\ <<k, f>> \notin m.addressed =>
       /\ s.op \in {"down", "enslave", "attach"}
       /\ f = "v6" /\ k \in {s.link} \cup OnTop(n, s.link)
  /\ \A k \in n.up \ m.up : s.op = "down" /\ k \in {s.link} \cup OnTop(n, s.link)
  /\ \A k \in m.up \ n.up :
       s.op \in {"up", "enslave", "join", "attach"}
         /\ (k \in OnTop(n, s.link) \/ (k = s.link /\ s.op # "attach"))
  /\ \A k \in Links :
       \/ m.master[k] = n.master[k]
       \/ s.op \in {"enslave", "join", "attach"} /\ k = s.link /\ m.master[k] = s.master
  /\ \A slot \in Slots :
       \/ m.routes[slot] = n.routes[slot]
       \/ s.op = "route" /\ slot = s.slot
       \/ /\ s.op \in {"down", "enslave", "attach"} /\ m.routes[slot] = {}
          /\ n.routes[slot] \cap (n.up \ ({s.link} \cup OnTop(n, s.link))) = {}

Asked(n, m, s) ==
  /\ s.op = "create" => s.link \in m.present
  /\ s.op \in {"up", "enslave", "join"} => s.link \in m.up
  /\ s.op = "down" => s.link \notin m.up
  /\ s.op = "address" => <<s.link, s.family>> \in m.addressed
  /\ s.op = "route" => m.routes[s.slot] = s.devs /\ s.devs \subseteq m.up

(* No program of a snippet failed, so a link of a kind that every bond and *)
(* bridge takes has got its master.                                        *)
Grouped(n, m, s) ==
  /\ s.op \in {"enslave", "join", "attach"} /\ s.master \in n.present
  /\ s.op # "attach" => s.link \in Ethernet
  => m.master[s.link] = s.master

(* The two ways to set a link up behind a change of its master.            *)
LEMMA RaisedAgain ==
  ASSUME NEW n, NetOK(n), NEW s \in PlanStep, s.op \in {"enslave", "join"}, s.link \in n.present,
         NEW o \in {n, Opened(n, s)},
         NEW p, p = o \/ GivenMaster(o, p, s)
  PROVE  LET m == Raised(p, s.link) IN
           /\ Changed(n, m, s) /\ Asked(n, m, s)
           /\ \A k \in Links : m.master[k] = p.master[k]
<1> DEFINE m == Raised(p, s.link)
<1>1. /\ n.present \subseteq Links /\ n.up \subseteq n.present
      /\ OnTop(n, s.link) \subseteq n.present /\ s.link \in Links /\ s.master \in Links
  BY NetFields, StepFields
<1>2. /\ NetOK(o) /\ o.present = n.present
      /\ \A k, f : <<k, f>> \in n.addressed /\ <<k, f>> \notin o.addressed =>
           s.op = "enslave" /\ f = "v6" /\ k \in {s.link} \cup OnTop(n, s.link)
      /\ o.master = n.master /\ o.parent = n.parent
      /\ o.up \subseteq n.up /\ n.up \subseteq o.up \cup {s.link} \cup OnTop(n, s.link)
      /\ \A t \in Slots :
           \/ o.routes[t] = n.routes[t]
           \/ /\ s.op = "enslave" /\ o.routes[t] = {}
              /\ n.routes[t] \cap (n.up \ ({s.link} \cup OnTop(n, s.link))) = {}
  <2>1. CASE o = n
    BY <1>1, <2>1
  <2>2. CASE o # n
    <3>1. s.op = "enslave" /\ o = Lowered(n, s.link)
      BY <2>2 DEF Opened
    <3> QED BY <1>1, <3>1, LoweredFields, NetFields
  <2> QED BY <2>1, <2>2
<1>3. /\ NetOK(p) /\ p.present = o.present /\ p.addressed = o.addressed
      /\ p.up = o.up /\ p.parent = o.parent /\ p.routes = o.routes
      /\ \A k \in Links :
           p.master[k] = o.master[k] \/ (k = s.link /\ p.master[k] = s.master)
  BY <1>2 DEF GivenMaster
<1>4. /\ NetOK(m) /\ m.present = p.present /\ m.addressed = p.addressed
      /\ m.master = p.master /\ m.parent = p.parent /\ m.routes = p.routes
      /\ m.up = p.up \cup {s.link} \cup OnTop(p, s.link)
  BY <1>2, <1>3, RaisedFields
<1>5. OnTop(p, s.link) = OnTop(n, s.link)
  BY <1>2, <1>3 DEF OnTop
<1> HIDE DEF m
<1>6. Changed(n, m, s)
  BY <1>1, <1>2, <1>3, <1>4, <1>5 DEF Changed
<1>7. Asked(n, m, s)
  BY <1>1, <1>4 DEF Asked
<1> QED BY <1>4, <1>6, <1>7 DEF m

LEMMA LinkStepChanges ==
  ASSUME NetOK(net), Step \in PlanStep, Step.op = "route" => Step.slot \in Slots, LinkStep
  PROVE  Changed(net, net', Step) /\ Asked(net, net', Step) /\ Grouped(net, net', Step)
<1> PICK n, m, s : n = net /\ m = net' /\ s = Step
  OBVIOUS
<1>1. /\ NetOK(n) /\ s \in PlanStep /\ (s.op = "route" => s.slot \in Slots)
      /\ n.present \subseteq Links /\ n.up \subseteq n.present
      /\ OnTop(n, s.link) \subseteq n.present
  BY NetFields
<1>2. CASE CreateLink
  <2>1. s.op = "create" /\ s.link \in Links /\ s.parent \in Links \cup {None}
    BY <1>1, <1>2, StepFields DEF CreateLink, Takes, AtStep
  <2>2. CASE s.link \in n.present
    <3>1. m = n
      BY <1>2, <2>2 DEF CreateLink
    <3> QED BY <1>1, <2>1, <2>2, <3>1 DEF Changed, Asked, Grouped
  <2>3. CASE s.link \notin n.present
    <3> DEFINE parent == [n.parent EXCEPT ![s.link] = s.parent]
    <3>1. m = [n EXCEPT !.present = n.present \cup {s.link}, !.parent = parent]
      BY <1>1, <1>2, <2>3 DEF CreateLink, NetOK, Nets
    <3>2. /\ parent \in [Links -> Links \cup {None}]
          /\ \A k \in Links : parent[k] = IF k = s.link THEN s.parent ELSE n.parent[k]
      BY <1>1, <2>1, NetFields
    <3> HIDE DEF parent
    <3>3. /\ m.present = n.present \cup {s.link} /\ m.parent = parent /\ m.up = n.up
          /\ m.addressed = n.addressed /\ m.master = n.master /\ m.routes = n.routes
      BY <1>1, <3>1 DEF NetOK, Nets
    <3>4. m \in Nets
      <4>1. n.present \cup {s.link} \in SUBSET Links
        BY <1>1, <2>1
      <4> QED BY <1>1, <3>1, <3>2, <4>1 DEF NetOK, Nets
    <3>5. NetOK(m)
      BY <1>1, <3>3, <3>4, NetFields DEF NetOK
    <3> QED BY <1>1, <2>1, <2>3, <3>2, <3>3, <3>5 DEF Changed, Asked, Grouped
  <2> QED BY <2>2, <2>3
<1>3. CASE SetUp
  <2>1. s.op = "up" /\ s.link \in n.present /\ m = Raised(n, s.link)
    BY <1>3 DEF SetUp, Takes, AtStep, Possible, CanRise
  <2> QED BY <1>1, <2>1, RaisedFields DEF Changed, Asked, Grouped
<1>4. CASE SetDown
  <2>1. s.op = "down" /\ m = Lowered(n, s.link)
    BY <1>4 DEF SetDown, Takes, AtStep
  <2> QED BY <1>1, <2>1, LoweredFields DEF Changed, Asked, Grouped
<1>5. CASE Assign
  <2>1. s.op = "address" /\ s.link \in n.present /\ s.family \in Families
    BY <1>1, <1>5, StepFields DEF Assign, Takes, AtStep, Possible, Needs
  <2> DEFINE given == n.addressed \cup {<<s.link, s.family>>}
  <2>5. m = [n EXCEPT !.addressed = given]
    BY <1>1, <1>5 DEF Assign, NetOK, Nets
  <2>6. /\ given \in SUBSET Pairs /\ <<s.link, s.family>> \in given /\ n.addressed \subseteq given
        /\ \A a \in given : a[1] \in n.present
    <3>1. \A a \in n.addressed : a[1] \in n.present
      BY <1>1 DEF NetOK
    <3>2. n.addressed \subseteq Pairs /\ <<s.link, s.family>> \in Pairs
      BY <1>1, <2>1, NetFields DEF Pairs
    <3> QED BY <2>1, <3>1, <3>2
  <2> HIDE DEF given
  <2>2. /\ m.present = n.present /\ m.parent = n.parent /\ m.up = n.up
        /\ m.addressed = given /\ m.master = n.master /\ m.routes = n.routes
    BY <1>1, <2>5 DEF NetOK, Nets
  <2>3. m \in Nets
    BY <1>1, <2>5, <2>6 DEF NetOK, Nets
  <2>4. NetOK(m)
    BY <1>1, <2>2, <2>3, <2>6, NetFields DEF NetOK
  <2> QED BY <1>1, <2>1, <2>2, <2>4, <2>6 DEF Changed, Asked, Grouped
<1>6. CASE Enslave
  <2> DEFINE o == Lowered(n, s.link)
  <2>1. s.op = "enslave" /\ s.link \in n.present /\ o = Opened(n, s)
    BY <1>6 DEF Enslave, Takes, AtStep, Possible, CanRise, Opened
  <2>2. PICK taken \in BOOLEAN :
          /\ s.link \in Ethernet => taken
          /\ m = Raised(IF taken THEN WithMaster(o, s.link, s.master) ELSE o, s.link)
    BY <1>6 DEF Enslave
  <2> DEFINE p == IF taken THEN WithMaster(o, s.link, s.master) ELSE o
  <2>3. s.link \in Links /\ s.master \in Links /\ NetOK(o) /\ o.present = n.present
    BY <1>1, <2>1, StepFields, LoweredFields
  <2> HIDE DEF o
  <2>4. GivenMaster(o, WithMaster(o, s.link, s.master), s)
    BY <2>3, MasterFields
  <2>5. m = Raised(p, s.link) /\ (taken => GivenMaster(o, p, s)) /\ (p = o \/ GivenMaster(o, p, s))
    BY <2>2, <2>4
  <2> HIDE DEF p
  <2>8. o \in {n, Opened(n, s)} /\ s.op \in {"enslave", "join"}
    BY <2>1
  <2>6. Changed(n, m, s) /\ Asked(n, m, s) /\ \A k \in Links : m.master[k] = p.master[k]
    <3>1. NetOK(n) /\ s \in PlanStep /\ s.link \in n.present /\ (p = o \/ GivenMaster(o, p, s))
      BY <1>1, <2>1, <2>5
    <3> QED BY ONLY <2>5, <2>8, <3>1, RaisedAgain
  <2>7. Grouped(n, m, s)
    BY <2>1, <2>2, <2>3, <2>5, <2>6 DEF Grouped, GivenMaster
  <2> QED BY <2>6, <2>7
<1>7. CASE Join
  <2>1. s.op = "join" /\ s.link \in n.present
    BY <1>7 DEF Join, Takes, AtStep, Possible, CanRise
  <2>2. PICK taken \in BOOLEAN :
          /\ s.link \in Ethernet => taken
          /\ m = Raised(IF taken THEN WithMaster(n, s.link, s.master) ELSE n, s.link)
    BY <1>7 DEF Join
  <2> DEFINE p == IF taken THEN WithMaster(n, s.link, s.master) ELSE n
  <2>3. s.link \in Links /\ s.master \in Links
    BY <1>1, <2>1, StepFields
  <2>4. GivenMaster(n, WithMaster(n, s.link, s.master), s)
    BY <1>1, <2>3, MasterFields
  <2>5. m = Raised(p, s.link) /\ (taken => GivenMaster(n, p, s)) /\ (p = n \/ GivenMaster(n, p, s))
    BY <2>2, <2>4
  <2> HIDE DEF p
  <2>6. Changed(n, m, s) /\ Asked(n, m, s) /\ \A k \in Links : m.master[k] = p.master[k]
    BY <1>1, <2>1, <2>5, RaisedAgain
  <2>7. Grouped(n, m, s)
    BY <2>1, <2>2, <2>3, <2>5, <2>6 DEF Grouped, GivenMaster
  <2> QED BY <2>6, <2>7
<1>8. CASE Attach
  <2> DEFINE p == WithMaster(n, s.link, s.master)
             o == Lowered(p, s.link)
  <2>1. /\ s.op = "attach" /\ s.link \in n.present
        /\ m = IF s.link \notin n.up \/ p = n THEN p ELSE Raised(o, s.link)
    BY <1>8 DEF Attach, Takes, AtStep, Possible, Needs
  <2>2. s.link \in Links /\ s.master \in Links
    BY <1>1, <2>1, StepFields
  <2>3. GivenMaster(n, p, s)
    BY <1>1, <2>2, MasterFields
  <2> HIDE DEF p
  <2>4. /\ NetOK(o) /\ o.present = p.present
        /\ \A k, f : <<k, f>> \in p.addressed /\ (f = "v6" => k \notin {s.link} \cup OnTop(p, s.link)) =>
             <<k, f>> \in o.addressed
        /\ o.master = p.master /\ o.parent = p.parent
        /\ o.up = p.up \ ({s.link} \cup OnTop(p, s.link))
        /\ \A t \in Slots : o.routes[t] = IF p.routes[t] \cap o.up = {} THEN {} ELSE p.routes[t]
    BY <2>3, LoweredFields DEF GivenMaster
  <2> HIDE DEF o
  <2>5. OnTop(p, s.link) = OnTop(n, s.link) /\ OnTop(o, s.link) = OnTop(n, s.link)
    BY <2>3, <2>4 DEF OnTop, GivenMaster
  <2>6. CASE m = p
    BY <1>1, <2>1, <2>2, <2>3, <2>6 DEF Changed, Asked, Grouped, GivenMaster
  <2>7. CASE s.link \in n.up /\ m = Raised(o, s.link)
    <3>1. /\ NetOK(m) /\ m.present = o.present /\ m.addressed = o.addressed
          /\ m.master = o.master /\ m.parent = o.parent /\ m.routes = o.routes
          /\ m.up = o.up \cup {s.link} \cup OnTop(o, s.link)
      BY <2>1, <2>3, <2>4, <2>7, RaisedFields DEF GivenMaster
    <3>2. \A k, f : <<k, f>> \in n.addressed => f \in Families
      BY <1>1, NetFields
    <3> QED BY <1>1, <2>1, <2>2, <2>3, <2>4, <2>5, <2>7, <3>1, <3>2
            DEF Changed, Asked, Grouped, GivenMaster, Families
  <2> QED BY <2>1, <2>6, <2>7
<1>9. CASE ReplaceRoute
  <2>1. s.op = "route" /\ s.devs \subseteq n.up
    BY <1>9 DEF ReplaceRoute, Takes, AtStep, Possible
  <2> DEFINE routes == [n.routes EXCEPT ![s.slot] = s.devs]
  <2>2. m = [n EXCEPT !.routes = routes]
    BY <1>1, <1>9 DEF ReplaceRoute, NetOK, Nets
  <2>3. /\ routes \in [Slots -> SUBSET Links]
        /\ \A t \in Slots : routes[t] = IF t = s.slot THEN s.devs ELSE n.routes[t]
    BY <1>1, <2>1, NetFields
  <2> HIDE DEF routes
  <2>4. /\ m.present = n.present /\ m.parent = n.parent /\ m.up = n.up
        /\ m.addressed = n.addressed /\ m.master = n.master /\ m.routes = routes
    BY <1>1, <2>2 DEF NetOK, Nets
  <2>5. m \in Nets
    BY <1>1, <2>2, <2>3 DEF NetOK, Nets
  <2>6. NetOK(m)
    BY <1>1, <2>1, <2>3, <2>4, <2>5, NetFields DEF NetOK
  <2> QED BY <1>1, <2>1, <2>3, <2>4, <2>6 DEF Changed, Asked, Grouped
<1>10. CASE Tune
  <2>1. s.op = "tune" /\ m = n
    BY <1>10 DEF Tune, Takes, AtStep
  <2> QED BY <1>1, <2>1 DEF Changed, Asked, Grouped
<1> QED BY <1>2, <1>3, <1>4, <1>5, <1>6, <1>7, <1>8, <1>9, <1>10 DEF LinkStep

(* A failed program inside a snippet is only felt by the master.           *)
LEMMA SlipChanges ==
  ASSUME NetOK(net), Step \in PlanStep, Slip
  PROVE  Changed(net, net', Step) /\ Asked(net, net', Step)
<1> PICK n, m, s : n = net /\ m = net' /\ s = Step
  OBVIOUS
<1>1. NetOK(n) /\ s \in PlanStep /\ s.op \in {"enslave", "join"} /\ s.link \in n.present
  BY DEF Slip, Takes, AtStep, Possible, CanRise
<1>2. PICK o \in {n, Opened(n, s)} : m = Raised(o, s.link)
  BY DEF Slip
<1>3. Changed(n, m, s) /\ Asked(n, m, s)
  BY <1>1, <1>2, RaisedAgain
<1> QED BY <1>3

(* What a snippet leaves that does not come to its end.                    *)
LEMMA BegunFields ==
  ASSUME NEW n, NetOK(n), NEW s \in PlanStep, NEW m \in Begun(n, s)
  PROVE  /\ NetOK(m) /\ m.present = n.present /\ m.parent = n.parent
         /\ \A k, f : <<k, f>> \in n.addressed /\ <<k, f>> \notin m.addressed => f = "v6"
         /\ \A k \in n.up \ m.up : s.op = "enslave" /\ k \in {s.link} \cup OnTop(n, s.link)
<1> DEFINE o == Opened(n, s)
<1>1. CASE m = n
  BY <1>1
<1>2. CASE m # n
  <2>1. s.op \in {"enslave", "join"} /\ m \in {o, WithMaster(o, s.link, s.master)}
    BY <1>2 DEF Begun
  <2>2. s.link \in Links /\ s.master \in Links
    BY <2>1, StepFields
  <2>3. /\ NetOK(o) /\ o.present = n.present /\ o.parent = n.parent
        /\ \A k, f : <<k, f>> \in n.addressed /\ <<k, f>> \notin o.addressed => f = "v6"
        /\ \A k \in n.up \ o.up : s.op = "enslave" /\ k \in {s.link} \cup OnTop(n, s.link)
    BY LoweredFields DEF Opened
  <2> HIDE DEF o
  <2>4. GivenMaster(o, WithMaster(o, s.link, s.master), s)
    BY <2>2, <2>3, MasterFields
  <2> QED BY <2>1, <2>3, <2>4 DEF GivenMaster
<1> QED BY <1>1, <1>2

-----------------------------------------------------------------------------
(* Type correctness, with where an apply stands.                           *)

Sane ==
  /\ TypeOK
  /\ phase = "idle" => config = None
  /\ phase # "idle" => config \in Configs /\ Valid(config)
  /\ phase = "done" => pos = Len(Plans[config]) + 1

UnitsOK ==
  /\ files \in [Paths -> Profile \cup {None}]
  /\ enabled \subseteq Units
  /\ DOMAIN running = Units
  /\ \A u \in Units :
       running[u] = Stopped \/ running[u] \in [ProfilesOf(u) -> Profile \cup {None}]

AllOK ==
  /\ config \in Configs \cup {None}
  /\ phase \in {"idle", "applying", "done", "aborted"}
  /\ pos \in 1 .. (IF config = None THEN 1 ELSE Len(Plans[config]) + 1)
  /\ NetOK(net) /\ tracked \in BOOLEAN /\ UnitsOK /\ fresh \subseteq Units
  /\ upset \in BOOLEAN /\ trouble \in 0 .. MaxTrouble

LEMMA NetParts ==
  ASSUME NEW n, n \in Nets
  PROVE  NetOK(n) <=> n.up \cup {a[1] : a \in n.addressed} \cup UNION {n.routes[s] : s \in Slots}
                        \subseteq n.present
<1> DEFINE R == UNION {n.routes[s] : s \in Slots}
           A == {a[1] : a \in n.addressed}
<1>1. R \subseteq n.present <=> \A s \in Slots : n.routes[s] \subseteq n.present
  OBVIOUS
<1>2. A \subseteq n.present <=> \A a \in n.addressed : a[1] \in n.present
  OBVIOUS
<1> HIDE DEF R, A
<1> QED BY <1>1, <1>2 DEF NetOK, R, A

LEMMA TypeParts == TypeOK <=> AllOK
<1>1. net \in Nets =>
        (NetOK(net) <=> net.up \cup {a[1] : a \in net.addressed} \cup UNION {net.routes[s] : s \in Slots}
                          \subseteq net.present)
  BY NetParts
<1>2. NetOK(net) => net \in Nets
  BY DEF NetOK
<1>3. net \in Nets <=>
        net \in [present : SUBSET Links, up : SUBSET Links,
                 addressed : SUBSET (Links \X Families),
                 master : [Links -> Links \cup {None}],
                 parent : [Links -> Links \cup {None}],
                 routes : [Slots -> SUBSET Links]]
  BY DEF Nets, Pairs
<1> QED BY <1>1, <1>2, <1>3 DEF TypeOK, AllOK, UnitsOK

LEMMA TypePartsNext == TypeOK' <=> AllOK'
  BY TypeParts, PTL

LEMMA BootedOK == NetOK(Booted)
  BY NameAssumption DEF NetOK, Nets, Booted

LEMMA StepContext ==
  ASSUME Sane, phase = "applying", pos <= Len(Plans[config])
  PROVE  /\ config \in Configs /\ Valid(config) /\ config # None
         /\ Len(Plans[config]) \in Nat /\ pos \in 1 .. Len(Plans[config])
         /\ Step = Plans[config][pos] /\ Step \in PlanStep
         /\ Step.op = "route" => Step.slot \in Slots
         /\ Fits(config, Before(Plans[config], pos), Step, After(Plans[config], pos))
         /\ NetOK(net)
<1>1. config \in Configs /\ Valid(config) /\ config # None
  BY ConfigAssumption DEF Sane
<1>2. pos \in 1 .. Len(Plans[config]) + 1
  BY <1>1 DEF Sane, TypeOK
<1>3. /\ Len(Plans[config]) \in Nat /\ pos \in 1 .. Len(Plans[config])
      /\ Step \in PlanStep /\ Step \in ToSet(Plans[config])
      /\ Fits(config, Before(Plans[config], pos), Step, After(Plans[config], pos))
  <2>1. Len(Plans[config]) \in Nat
    BY <1>1, StepsFit
  <2>2. pos \in 1 .. Len(Plans[config])
    BY <1>2, <2>1
  <2> QED BY <1>1, <2>1, <2>2, StepsFit DEF Step
<1>4. Step.op = "route" => Step.slot \in Slots
  BY <1>1, <1>3 DEF Slots
<1> QED BY <1>1, <1>3, <1>4, TypeParts DEF AllOK, Sane, Step

(* What a step of the plan does to files and units.                        *)
LEMMA UnitStep ==
  ASSUME Sane, phase = "applying", pos <= Len(Plans[config]), WriteProfile \/ StartUnit
  PROVE  UnitsOK'
<1>1. Step \in PlanStep /\ UnitsOK
  BY StepContext, TypeParts DEF AllOK, Sane
<1>2. CASE WriteProfile
  <2>1. Step.path \in Paths /\ Step.profile \in Profile
    BY <1>1, <1>2, StepFields DEF WriteProfile, Takes, AtStep
  <2> QED BY <1>1, <1>2, <2>1 DEF WriteProfile, UnitsOK
<1>3. CASE StartUnit
  <2>1. Step.unit \in Units
    BY <1>1, <1>3, StepFields DEF StartUnit, Takes, AtStep
  <2>2. \A u \in Units : [p \in ProfilesOf(u) |-> files[p]] \in [ProfilesOf(u) -> Profile \cup {None}]
    BY <1>1 DEF UnitsOK, ProfilesOf
  <2>3. files' = files /\ enabled' = enabled \cup {Step.unit}
        /\ DOMAIN running' = Units
        /\ \A u \in Units : running'[u] = running[u] \/ running'[u] = [p \in ProfilesOf(u) |-> files[p]]
    BY <1>1, <1>3, <2>1 DEF StartUnit, UnitsOK
  <2> QED BY <1>1, <2>1, <2>2, <2>3 DEF UnitsOK
<1> QED BY <1>2, <1>3

LEMMA AppearChanges ==
  ASSUME NEW l \in Links, NetOK(net), Appear(l)
  PROVE  /\ NetOK(net') /\ l \notin net.present
         /\ net'.present = net.present \cup {l} /\ net'.up = net.up \cup {l}
         /\ net.addressed \subseteq net'.addressed
         /\ \A f \in Families : <<l, f>> \in net'.addressed
         /\ net'.parent = net.parent
         /\ net'.master = net.master /\ net'.routes = net.routes
<1> PICK n, m : n = net /\ m = net'
  OBVIOUS
<1> DEFINE addressed == n.addressed \cup ({l} \X Families)
<1>1. m = [n EXCEPT !.present = n.present \cup {l}, !.up = n.up \cup {l},
                    !.addressed = addressed]
  BY DEF Appear, NetOK, Nets
<1>3. /\ n.present \cup {l} \in SUBSET Links /\ n.up \cup {l} \in SUBSET Links
      /\ addressed \in SUBSET Pairs /\ n.addressed \subseteq addressed
      /\ \A f \in Families : <<l, f>> \in addressed
      /\ \A a \in addressed : a[1] \in n.present \cup {l}
  BY NetFields DEF Pairs, NetOK
<1> HIDE DEF addressed
<1>2. /\ m.present = n.present \cup {l} /\ m.up = n.up \cup {l} /\ m.parent = n.parent
      /\ m.addressed = addressed /\ m.master = n.master /\ m.routes = n.routes
  BY <1>1 DEF NetOK, Nets
<1>4. m \in Nets
  BY <1>1, <1>3 DEF NetOK, Nets
<1>5. NetOK(m)
  BY <1>2, <1>3, <1>4, NetFields DEF NetOK
<1> QED BY <1>2, <1>3, <1>5 DEF Appear

LEMMA InitSane == Init => Sane
<1> SUFFICES ASSUME Init PROVE Sane
  OBVIOUS
<1>1. NetOK(net) /\ UnitsOK
  BY BootedOK, ConfigAssumption DEF Init, UnitsOK
<1>2. AllOK
  <2>1. pos \in 1 .. (IF config = None THEN 1 ELSE Len(Plans[config]) + 1)
    BY DEF Init
  <2>2. trouble \in 0 .. MaxTrouble
    BY ConfigAssumption DEF Init
  <2> QED BY <1>1, <2>1, <2>2 DEF AllOK, Init
<1>3. TypeOK
  BY <1>2, TypeParts
<1> QED BY <1>3 DEF Sane, Init

LEMMA SaneStep ==
  ASSUME Sane, [Next]_vars
  PROVE  Sane'
<1>1. /\ config \in Configs \cup {None}
      /\ phase \in {"idle", "applying", "done", "aborted"}
      /\ pos \in 1 .. (IF config = None THEN 1 ELSE Len(Plans[config]) + 1)
      /\ NetOK(net) /\ tracked \in BOOLEAN /\ UnitsOK /\ fresh \subseteq Units
      /\ upset \in BOOLEAN /\ trouble \in 0 .. MaxTrouble /\ MaxTrouble \in Nat
  BY TypeParts, ConfigAssumption DEF AllOK, Sane
<1>2. ASSUME NEW c \in Configs, Apply(c) PROVE Sane'
  <2>1. Len(Plans[c]) \in Nat /\ c # None
    BY StepsFit, ConfigAssumption
  <2>2. pos' \in 1 .. (IF config' = None THEN 1 ELSE Len(Plans[config']) + 1)
    BY <1>2, <2>1 DEF Apply
  <2>3. NetOK(net)' /\ UnitsOK' /\ fresh' \subseteq Units
    BY <1>1, <1>2 DEF Apply, units, UnitsOK
  <2>4. TypeOK'
    BY <1>1, <1>2, <2>2, <2>3, TypePartsNext DEF AllOK, Apply
  <2> QED BY <1>2, <2>4 DEF Sane, Apply
<1>3. CASE RunStep
  <2>1. /\ phase = "applying" /\ pos <= Len(Plans[config])
        /\ config' = config /\ phase' = phase /\ pos' = pos + 1 /\ fresh' = fresh
        /\ upset' = upset /\ trouble' = trouble
    BY <1>3 DEF RunStep, LinkStep, CreateLink, SetUp, SetDown, Assign, Enslave, Join, Attach,
                ReplaceRoute, Tune, WriteProfile, StartUnit, RequestCertificates, SetCapacity,
                LoadChains, Takes, AtStep, notes
  <2>2. /\ config \in Configs /\ config # None /\ Len(Plans[config]) \in Nat
        /\ pos \in 1 .. Len(Plans[config]) /\ Step \in PlanStep
        /\ Step.op = "route" => Step.slot \in Slots
    BY <2>1, StepContext
  <2>3. NetOK(net)' /\ UnitsOK' /\ tracked' \in BOOLEAN
    <3>1. CASE LinkStep /\ UNCHANGED <<units, tracked>>
      <4>1. Changed(net, net', Step)
        BY <1>1, <2>2, <3>1, LinkStepChanges
      <4> QED BY <1>1, <3>1, <4>1 DEF Changed, units, UnitsOK
    <3>2. CASE (WriteProfile \/ StartUnit) /\ UNCHANGED <<net, tracked>>
      BY <1>1, <2>1, <3>2, UnitStep
    <3>3. CASE (RequestCertificates \/ SetCapacity \/ LoadChains) /\ UNCHANGED <<net, units>>
      BY <1>1, <3>3 DEF units, UnitsOK, RequestCertificates, SetCapacity, LoadChains
    <3> QED BY <1>3, <3>1, <3>2, <3>3 DEF RunStep
  <2>4. pos' \in 1 .. (IF config' = None THEN 1 ELSE Len(Plans[config']) + 1)
    BY <2>1, <2>2
  <2>5. TypeOK'
    BY <1>1, <2>1, <2>3, <2>4, TypePartsNext DEF AllOK
  <2> QED BY <2>1, <2>5 DEF Sane
<1>4. CASE Refused \/ Finish
  <2>1. /\ phase = "applying" /\ phase' \in {"aborted", "done"}
        /\ UNCHANGED <<config, pos, tracked, files, enabled, running, fresh, upset, trouble>>
        /\ phase' = "done" => pos > Len(Plans[config])
    BY <1>4 DEF Refused, Blocked, Finish, units, notes
  <2>6. NetOK(net')
    <3>1. CASE Refused
      <4>1. pos <= Len(Plans[config]) /\ net' \in Begun(net, Step)
        BY <3>1 DEF Refused, Blocked
      <4>2. Step \in PlanStep
        BY <2>1, <4>1, StepContext
      <4> QED BY <1>1, <4>1, <4>2, BegunFields
    <3>2. CASE Finish
      BY <1>1, <3>2 DEF Finish
    <3> QED BY <1>4, <3>1, <3>2
  <2>2. config \in Configs /\ Valid(config) /\ config # None /\ Len(Plans[config]) \in Nat
    BY <2>1, ConfigAssumption, StepsFit DEF Sane
  <2>3. phase' = "done" => pos = Len(Plans[config]) + 1
    BY <1>1, <2>1, <2>2
  <2>4. UnitsOK'
    BY <1>1, <2>1 DEF UnitsOK
  <2>5. TypeOK'
    BY <1>1, <2>1, <2>4, <2>6, TypePartsNext DEF AllOK
  <2> QED BY <2>1, <2>2, <2>3, <2>5 DEF Sane
<1>5. ASSUME NEW l \in Links, Appear(l) PROVE Sane'
  <2>1. UNCHANGED <<config, phase, pos, tracked, files, enabled, running, fresh, upset, trouble>>
    BY <1>5 DEF Appear, lasd, units, notes
  <2>2. NetOK(net') /\ UnitsOK'
    BY <1>1, <1>5, <2>1, AppearChanges DEF UnitsOK
  <2>3. TypeOK'
    BY <1>1, <2>1, <2>2, TypePartsNext DEF AllOK
  <2> QED BY <2>1, <2>3 DEF Sane
<1>6. ASSUME NEW l \in Links, Vanish(l) PROVE Sane'
  <2>1. /\ UNCHANGED <<config, phase, pos, tracked, files, enabled, running, fresh>>
        /\ upset' = TRUE /\ trouble < MaxTrouble /\ trouble' = trouble + 1
        /\ \E tunnels \in SUBSET Over(l) : net' = Removed(net, {l} \cup tunnels)
    BY <1>6 DEF Vanish, lasd, units, Trouble
  <2>2. NetOK(net') /\ UnitsOK'
    BY <1>1, <2>1, RemovedFields DEF UnitsOK
  <2>3. trouble' \in 0 .. MaxTrouble
    BY <1>1, <2>1
  <2>4. TypeOK'
    BY <1>1, <2>1, <2>2, <2>3, TypePartsNext DEF AllOK
  <2> QED BY <2>1, <2>4 DEF Sane
<1>7. CASE Fail
  <2>1. /\ UNCHANGED <<config, pos, tracked, fresh>>
        /\ phase = "applying" /\ phase' = "aborted"
        /\ upset' = TRUE /\ trouble < MaxTrouble /\ trouble' = trouble + 1
    BY <1>7 DEF Fail, Trouble
  <2>2. trouble' \in 0 .. MaxTrouble
    BY <1>1, <2>1
  <2>3. NetOK(net') /\ UnitsOK'
    <3>1. CASE UNCHANGED <<net, units>>
      BY <1>1, <3>1 DEF units, UnitsOK
    <3>2. CASE AtStep({"enslave", "join"}) /\ net' \in Begun(net, Step) /\ UNCHANGED units
      <4>1. Step \in PlanStep
        BY <2>1, <3>2, StepContext DEF AtStep
      <4> QED BY <1>1, <3>2, <4>1, BegunFields DEF units, UnitsOK
    <3>3. CASE /\ AtStep({"start"}) /\ enabled' = enabled \cup {Step.unit}
               /\ UNCHANGED <<net, files, running>>
      <4>1. Step \in PlanStep /\ Step.op = "start"
        BY <2>1, <3>3, StepContext DEF AtStep
      <4>2. Step.unit \in Units
        BY <4>1, StepFields
      <4> QED BY <1>1, <3>3, <4>2 DEF UnitsOK
    <3> QED BY <1>7, <3>1, <3>2, <3>3 DEF Fail
  <2>4. TypeOK'
    BY <1>1, <2>1, <2>2, <2>3, TypePartsNext DEF AllOK
  <2> QED BY <2>1, <2>4 DEF Sane
<1>10. CASE Slip
  <2>1. /\ UNCHANGED <<config, phase, tracked, files, enabled, running, fresh>>
        /\ phase = "applying" /\ pos <= Len(Plans[config]) /\ pos' = pos + 1
        /\ upset' = TRUE /\ trouble < MaxTrouble /\ trouble' = trouble + 1
    BY <1>10 DEF Slip, Takes, AtStep, units, Trouble
  <2>2. /\ config \in Configs /\ config # None /\ Len(Plans[config]) \in Nat
        /\ pos \in 1 .. Len(Plans[config]) /\ Step \in PlanStep
    BY <2>1, StepContext
  <2>3. NetOK(net') /\ UnitsOK' /\ trouble' \in 0 .. MaxTrouble
    <3>1. NetOK(net')
      BY <1>1, <1>10, <2>2, SlipChanges DEF Changed
    <3> QED BY <1>1, <2>1, <3>1 DEF UnitsOK
  <2>4. pos' \in 1 .. (IF config' = None THEN 1 ELSE Len(Plans[config']) + 1)
    BY <2>1, <2>2
  <2>5. TypeOK'
    BY <1>1, <2>1, <2>3, <2>4, TypePartsNext DEF AllOK
  <2> QED BY <2>1, <2>5 DEF Sane
<1>8. CASE Boot
  <2>1. /\ config' = None /\ phase' = "idle" /\ pos' = 1 /\ net' = Booted /\ tracked' \in BOOLEAN
        /\ running' = [u \in Units |-> IF u \in enabled THEN [p \in ProfilesOf(u) |-> files[p]]
                                      ELSE Stopped]
        /\ fresh' = Units \ enabled /\ upset' = FALSE /\ trouble < MaxTrouble
        /\ trouble' = trouble + 1 /\ UNCHANGED <<files, enabled>>
    BY <1>8 DEF Boot, Trouble
  <2>2. trouble' \in 0 .. MaxTrouble /\ UnitsOK'
    BY <1>1, <2>1 DEF UnitsOK, ProfilesOf
  <2>3. TypeOK'
    <3>1. pos' \in 1 .. (IF config' = None THEN 1 ELSE Len(Plans[config']) + 1)
      BY <2>1
    <3>2. NetOK(net')
      BY <2>1, BootedOK
    <3>3. fresh' \subseteq Units
      BY <2>1
    <3> QED BY <1>1, <2>1, <2>2, <3>1, <3>2, <3>3, TypePartsNext DEF AllOK
  <2> QED BY <2>1, <2>3 DEF Sane
<1>9. CASE UNCHANGED vars
  BY <1>9 DEF vars, Sane, TypeOK
<1> QED BY <1>2, <1>3, <1>4, <1>5, <1>6, <1>7, <1>8, <1>9, <1>10 DEF Next

(* The router's state keeps its types: every link that is up, has an       *)
(* address or carries a route is there, and an apply stays within its      *)
(* plan, whatever is applied, refused, lost or booted.                     *)
THEOREM TypeCorrect == Spec => []TypeOK
<1>1. Sane => TypeOK
  BY DEF Sane
<1> QED BY <1>1, InitSane, SaneStep, PTL DEF Spec

-----------------------------------------------------------------------------
(* A unit reads what was written for it.                                   *)

(* What a step of the plan leaves alone.                                   *)
LEMMA RunStepFrame ==
  ASSUME RunStep
  PROVE  /\ phase = "applying" /\ pos <= Len(Plans[config])
         /\ config' = config /\ phase' = phase /\ pos' = pos + 1 /\ fresh' = fresh
         /\ upset' = upset /\ trouble' = trouble
         /\ WriteProfile => Step.op = "write"
         /\ StartUnit => Step.op = "start"
         /\ WriteProfile \/ StartUnit \/ (Step.op \notin {"write", "start"} /\ UNCHANGED units)
         /\ WriteProfile \/ StartUnit \/ RequestCertificates \/ SetCapacity \/ LoadChains =>
              Step.op \in {"write", "start", "certbot", "conntrack", "load"} /\ UNCHANGED net
         /\ LinkStep => Step.op \notin {"write", "start", "certbot", "conntrack", "load"}
  BY DEF RunStep, LinkStep, CreateLink, SetUp, SetDown, Assign, Enslave, Join, Attach,
         ReplaceRoute, Tune, WriteProfile, StartUnit, RequestCertificates, SetCapacity,
         LoadChains, Takes, AtStep, notes

Starts(c, u) == {i \in DOMAIN Plans[c] : Plans[c][i].op = "start" /\ Plans[c][i].unit = u}
HasRead(u) == u \in Running /\ \A p \in ProfilesOf(u) : running[u][p] = files[p]

(* A unit with one start in the plan is stopped up to it and then runs     *)
(* with the profiles that are on disk, which are not written again.        *)
ReadAtStart ==
  phase \in {"applying", "done"} =>
    \A u \in fresh, k \in DOMAIN Plans[config] :
      Starts(config, u) = {k} =>
        /\ pos <= k => running[u] = Stopped
        /\ pos > k => HasRead(u)

LEMMA ReadAtStartStep ==
  ASSUME Sane, ReadAtStart, [Next]_vars
  PROVE  ReadAtStart'
<1>1. ASSUME NEW c \in Configs, Apply(c) PROVE ReadAtStart'
  <2>1. config' = c /\ pos' = 1 /\ fresh' = Units \ Running /\ running' = running
    BY <1>1 DEF Apply, units
  <2>2. \A k \in DOMAIN Plans[c] : k \in Nat /\ 1 <= k /\ ~(1 > k)
    BY StepsFit
  <2> QED BY <2>1, <2>2 DEF ReadAtStart, Running
<1>2. CASE RunStep
  <2>1. /\ phase = "applying" /\ pos <= Len(Plans[config])
        /\ config' = config /\ phase' = phase /\ pos' = pos + 1 /\ fresh' = fresh
    BY <1>2, RunStepFrame
  <2>2. /\ config \in Configs /\ pos \in 1 .. Len(Plans[config]) /\ Step = Plans[config][pos]
        /\ DOMAIN Plans[config] = 1 .. Len(Plans[config]) /\ Len(Plans[config]) \in Nat
        /\ Step \in PlanStep
        /\ Fits(config, Before(Plans[config], pos), Step, After(Plans[config], pos))
    BY <2>1, StepContext, StepsFit
  <2> SUFFICES ASSUME NEW u \in fresh, NEW k \in DOMAIN Plans[config], Starts(config, u) = {k}
               PROVE  /\ pos + 1 <= k => running'[u] = Stopped
                      /\ pos + 1 > k => HasRead(u)'
    BY <2>1 DEF ReadAtStart
  <2>3. /\ k \in Nat /\ pos \in Nat /\ (pos <= k => running[u] = Stopped) /\ (pos > k => HasRead(u))
        /\ u \in Units /\ DOMAIN running = Units /\ files \in [Paths -> Profile \cup {None}]
    BY <2>1, <2>2 DEF ReadAtStart, Sane, TypeOK
  <2>4. \A i \in DOMAIN Plans[config] :
          Plans[config][i].op = "start" /\ Plans[config][i].unit = u => i = k
    BY DEF Starts
  <2>5. Plans[config][k].op = "start" /\ Plans[config][k].unit = u
    BY DEF Starts
  <2>6. CASE WriteProfile
    <3>1. /\ Step.op = "write" /\ Step.path \in Paths /\ running' = running
          /\ \A p \in Paths : p # Step.path => files'[p] = files[p]
      BY <1>2, <2>2, <2>3, <2>6, RunStepFrame, StepFields DEF WriteProfile
    <3>2. pos # k
      BY <2>2, <2>5, <3>1
    <3>3. PICK j \in pos + 1 .. Len(Plans[config]) :
            Plans[config][j].op = "start" /\ Plans[config][j].unit = UnitOf[Step.path]
      BY <2>2, <3>1 DEF Fits, After
    <3>4. u = UnitOf[Step.path] => j = k
      BY <2>2, <2>4, <3>3
    <3>5. pos > k => \A p \in ProfilesOf(u) : files'[p] = files[p]
      BY <2>2, <2>3, <3>1, <3>3, <3>4 DEF ProfilesOf
    <3> QED BY <2>3, <3>1, <3>2, <3>5 DEF HasRead, Running
  <2>7. CASE StartUnit
    <3>1. /\ Step.op = "start" /\ Step.unit \in Units /\ files' = files
          /\ running' = [running EXCEPT ![Step.unit] =
                           IF @ = Stopped THEN [p \in ProfilesOf(Step.unit) |-> files[p]] ELSE @]
      BY <1>2, <2>2, <2>7, RunStepFrame, StepFields DEF StartUnit
    <3>2. CASE u = Step.unit
      <4>1. pos = k
        BY <2>2, <2>4, <3>1, <3>2
      <4>2. running'[u] = [p \in ProfilesOf(u) |-> files[p]]
        BY <2>3, <3>1, <3>2, <4>1
      <4>3. [p \in ProfilesOf(u) |-> files[p]] \in [ProfilesOf(u) -> Profile \cup {None}]
        BY <2>3 DEF ProfilesOf
      <4>4. running'[u] # Stopped
        BY <2>3, <4>2, <4>3, ConfigAssumption DEF ProfilesOf
      <4> QED BY <2>3, <3>1, <4>1, <4>2, <4>4 DEF HasRead, Running
    <3>3. CASE u # Step.unit
      <4>1. pos # k /\ running'[u] = running[u]
        BY <2>2, <2>3, <2>5, <3>1, <3>3
      <4> QED BY <2>3, <3>1, <4>1 DEF HasRead, Running
    <3> QED BY <3>2, <3>3
  <2>8. CASE Step.op \notin {"write", "start"} /\ UNCHANGED units
    <3>1. pos # k
      BY <2>2, <2>5, <2>8
    <3> QED BY <2>3, <2>8, <3>1 DEF HasRead, Running, units
  <2> QED BY <1>2, <2>6, <2>7, <2>8, RunStepFrame
<1>3. CASE Refused \/ Fail \/ Boot
  BY <1>3 DEF Refused, Fail, Boot, ReadAtStart
<1>5. CASE Slip
  <2>1. /\ phase = "applying" /\ pos <= Len(Plans[config]) /\ Step.op \in {"enslave", "join"}
        /\ pos' = pos + 1 /\ UNCHANGED <<config, phase, files, running, fresh>>
    BY <1>5 DEF Slip, Takes, AtStep, units
  <2>2. pos \in Nat /\ DOMAIN Plans[config] = 1 .. Len(Plans[config]) /\ Len(Plans[config]) \in Nat
    BY <2>1, StepContext, StepsFit
  <2> SUFFICES ASSUME NEW u \in fresh, NEW k \in DOMAIN Plans[config], Starts(config, u) = {k}
               PROVE  /\ pos + 1 <= k => running[u] = Stopped
                      /\ pos + 1 > k => HasRead(u)
    BY <2>1 DEF ReadAtStart, HasRead, Running
  <2>3. Plans[config][k].op = "start"
    BY DEF Starts
  <2>4. pos # k
    BY <2>1, <2>3 DEF Step
  <2> QED BY <2>1, <2>2, <2>4 DEF ReadAtStart
<1>4. CASE Finish \/ (\E l \in Links : Appear(l) \/ Vanish(l)) \/ UNCHANGED vars
  <2>1. UNCHANGED <<config, pos, files, enabled, running, fresh>>
        /\ (phase' \in {"applying", "done"} => phase \in {"applying", "done"})
    <3>1. CASE Finish
      BY <3>1 DEF Finish, units, notes
    <3>2. ASSUME NEW l \in Links, Appear(l) \/ Vanish(l)
          PROVE  UNCHANGED <<config, phase, pos, files, enabled, running, fresh>>
      BY <3>2 DEF Appear, Vanish, lasd, units, notes
    <3>3. CASE UNCHANGED vars
      BY <3>3 DEF vars
    <3> QED BY <1>4, <3>1, <3>2, <3>3
  <2> QED BY <2>1 DEF ReadAtStart, HasRead, Running
<1> QED BY <1>1, <1>2, <1>3, <1>4, <1>5 DEF Next

(* A unit that an apply started, in one step, has read what the plan wrote *)
(* for it: the start follows every write, and none comes after it          *)
(* (builder.go:278-279, 312-314).                                          *)
THEOREM FirstStart == Spec => []FirstStartReadsProfile
<1>1. Init => ReadAtStart
  BY DEF Init, ReadAtStart
<1>2. Sane /\ ReadAtStart => FirstStartReadsProfile
  <2> SUFFICES ASSUME Sane, ReadAtStart, phase = "done",
                      NEW i \in DOMAIN Plans[config],
                      Plans[config][i].op = "write", UnitOf[Plans[config][i].path] \in fresh,
                      Cardinality(Starts(config, UnitOf[Plans[config][i].path])) = 1
               PROVE  LET u == UnitOf[Plans[config][i].path] IN
                        u \in Running /\ running[u][Plans[config][i].path] = files[Plans[config][i].path]
    BY DEF FirstStartReadsProfile, Starts
  <2> DEFINE path == Plans[config][i].path
             u == UnitOf[path]
  <2>1. config \in Configs /\ pos = Len(Plans[config]) + 1
    BY DEF Sane
  <2>2. DOMAIN Plans[config] = 1 .. Len(Plans[config]) /\ Len(Plans[config]) \in Nat
        /\ Plans[config][i] \in PlanStep
    BY <2>1, StepsFit
  <2>3. path \in Paths
    BY <2>2, StepFields
  <2>4. IsFiniteSet(Starts(config, u))
    <3>1. IsFiniteSet(1 .. Len(Plans[config]))
      BY <2>2, FS_Interval
    <3>2. Starts(config, u) \subseteq 1 .. Len(Plans[config])
      BY <2>2 DEF Starts
    <3> QED BY <3>1, <3>2, FS_Subset
  <2>5. PICK k : Starts(config, u) = {k}
    BY <2>4, FS_Singleton
  <2>6. k \in DOMAIN Plans[config]
    BY <2>5 DEF Starts
  <2>7. HasRead(u)
    BY <2>1, <2>2, <2>5, <2>6 DEF ReadAtStart
  <2> QED BY <2>3, <2>7 DEF HasRead, ProfilesOf
<1> QED BY <1>1, <1>2, InitSane, SaneStep, ReadAtStartStep, PTL DEF Spec

-----------------------------------------------------------------------------
(* What is on the host whatever has been applied to it.                    *)

(* Profiles, on disk or read, ask for links of services.                   *)
Asks(profiles, P) ==
  \A p \in P : profiles[p] # None => profiles[p].dev \in Foreign \cup {None}
Supplies ==
  Asks(files, Paths) /\ \A u \in Running : Asks(running[u], ProfilesOf(u))

LEMMA DevicesAreForeign ==
  ASSUME Supplies, NEW l \in Links, l \in Devices
  PROVE  l \in Foreign
  BY NameAssumption DEF Supplies, Asks, Devices

LEMMA InitSupplies == Init => Supplies
<1> SUFFICES ASSUME Init, NEW p \in Paths, Supplied[p] # None
             PROVE  Supplied[p].dev \in Foreign
  BY DEF Init, Supplies, Asks, Running
<1> QED BY DEF Foreign

LEMMA SuppliesStep ==
  ASSUME Sane, Supplies, [Next]_vars
  PROVE  Supplies'
<1>1. DOMAIN running = Units /\ files \in [Paths -> Profile \cup {None}]
      /\ \A u \in Units : ProfilesOf(u) \subseteq Paths
  BY DEF Sane, TypeOK, ProfilesOf
<1>2. CASE RunStep
  <2>1. phase = "applying" /\ pos <= Len(Plans[config])
    BY <1>2, RunStepFrame
  <2>2. /\ config \in Configs /\ Step \in PlanStep
        /\ Fits(config, Before(Plans[config], pos), Step, After(Plans[config], pos))
    BY <2>1, StepContext
  <2>3. CASE WriteProfile
    <3>1. /\ Step.op = "write" /\ Step.path \in Paths /\ running' = running
          /\ files' = [files EXCEPT ![Step.path] = Step.profile]
      BY <1>2, <2>2, <2>3, RunStepFrame, StepFields DEF WriteProfile
    <3>2. Step.profile.dev \in Foreign \cup {None}
      BY <2>2, <3>1 DEF Fits, Foreign
    <3> QED BY <1>1, <3>1, <3>2 DEF Supplies, Asks, Running
  <2>4. CASE StartUnit
    <3>1. /\ Step.unit \in Units /\ files' = files
          /\ running' = [running EXCEPT ![Step.unit] =
                           IF @ = Stopped THEN [p \in ProfilesOf(Step.unit) |-> files[p]] ELSE @]
      BY <1>2, <2>2, <2>4, RunStepFrame, StepFields DEF StartUnit
    <3>2. ASSUME NEW u \in Units
          PROVE  running'[u] = running[u] \/ running'[u] = [p \in ProfilesOf(u) |-> files[p]]
      BY <1>1, <3>1
    <3> QED BY <1>1, <3>1, <3>2 DEF Supplies, Asks, Running
  <2> QED BY <1>2, <2>3, <2>4, RunStepFrame DEF Supplies, Asks, Running, units
<1>3. CASE Boot
  <2>1. files' = files
        /\ running' = [u \in Units |-> IF u \in enabled THEN [p \in ProfilesOf(u) |-> files[p]]
                                      ELSE Stopped]
    BY <1>3 DEF Boot
  <2> QED BY <1>1, <2>1 DEF Supplies, Asks, Running
<1>4. CASE UNCHANGED units
  BY <1>4 DEF units, Supplies, Asks, Running
<1>5. ASSUME NEW c \in Configs, Apply(c) PROVE UNCHANGED units
  BY <1>5 DEF Apply
<1>6. Refused \/ Finish \/ Slip \/ UNCHANGED vars => UNCHANGED units
  BY DEF Refused, Finish, Slip, vars, units
<1>7. ASSUME NEW l \in Links, Appear(l) \/ Vanish(l) PROVE UNCHANGED units
  BY <1>7 DEF Appear, Vanish
<1>8. CASE Fail
  <2>1. UNCHANGED <<files, running>>
    BY <1>8 DEF Fail, units
  <2> QED BY <2>1 DEF Supplies, Asks, Running
<1> QED BY <1>2, <1>3, <1>4, <1>5, <1>6, <1>7, <1>8 DEF Next

(* What is in the machine is there; a link that no plan creates stands on  *)
(* no other, one that plans create on the same whichever plan did it; and  *)
(* a link of a service is up and has its IPv4 address from the start.      *)
Rooted(n) ==
  /\ Physical \subseteq n.present
  /\ \A l \in Links \ Made : n.parent[l] = None
  /\ \A s \in AllSteps("create") : s.link \in n.present => n.parent[s.link] = s.parent
  /\ \A l \in Foreign \cap n.present : l \in n.up /\ <<l, "v4">> \in n.addressed

LEMMA PlanSteps ==
  ASSUME NEW c \in Configs, NEW s \in ToSet(Plans[c])
  PROVE  /\ s \in PlanStep
         /\ s \in AllSteps(s.op)
         /\ s.op = "create" => s.link \in Made
<1>1. s \in PlanStep
  BY StepsFit, Members
<1>2. s \in AllSteps(s.op)
  BY DEF AllSteps
<1> QED BY <1>1, <1>2 DEF Made

LEMMA BootedRooted == Alike => Rooted(Booted)
<1>1. NetOK(Booted)
  BY BootedOK
<1>2. /\ Booted.present = Physical /\ Booted.up = {}
      /\ \A l \in Links : Booted.parent[l] = None
  BY DEF Booted
<1> SUFFICES ASSUME Alike PROVE Rooted(Booted)
  OBVIOUS
<1>3. \A s \in AllSteps("create") : s.link \notin Physical
  BY DEF Alike, Made
<1>4. Foreign \cap Physical = {}
  BY DEF Alike
<1> QED BY <1>2, <1>3, <1>4 DEF Rooted

LEMMA ChangedRooted ==
  ASSUME Alike, NEW n, NEW m, NEW c \in Configs, NEW s \in ToSet(Plans[c]),
         NetOK(n), Rooted(n), Changed(n, m, s)
  PROVE  Rooted(m)
<1>1. s \in PlanStep /\ s \in AllSteps(s.op) /\ (s.op = "create" => s.link \in Made)
  BY PlanSteps
<1>2. Physical \subseteq m.present
  BY DEF Rooted, Changed
<1>3. ASSUME NEW k \in m.present \ n.present
      PROVE  s.op = "create" /\ k = s.link /\ m.parent[k] = s.parent /\ k \in Made
  BY <1>1 DEF Changed
<1>4. ASSUME NEW l \in Links \ Made PROVE m.parent[l] = None
  BY <1>3 DEF Changed, Rooted
<1>5. ASSUME NEW t \in AllSteps("create"), t.link \in m.present PROVE m.parent[t.link] = t.parent
  <2>1. CASE t.link \in n.present
    <3>1. t.link \in Links
      BY <2>1, NetFields
    <3> QED BY <2>1, <3>1 DEF Changed, Rooted
  <2>2. CASE t.link \notin n.present
    <3>1. s.op = "create" /\ t.link = s.link /\ m.parent[t.link] = s.parent
      BY <1>3, <1>5, <2>2
    <3> QED BY <1>1, <3>1 DEF Alike
  <2> QED BY <2>1, <2>2
<1>6. ASSUME NEW k \in Foreign \cap m.present PROVE k \in m.up /\ <<k, "v4">> \in m.addressed
  <2>1. k \notin Made
    BY DEF Alike
  <2>2. k \in n.present /\ k \in n.up /\ <<k, "v4">> \in n.addressed /\ k \in Links
    BY <1>3, <2>1, NetFields DEF Rooted
  <2>3. <<k, "v4">> \in m.addressed
    BY <2>2 DEF Changed
  <2>4. ASSUME k \notin m.up PROVE FALSE
    <3>1. s.op = "down" /\ k \in {s.link} \cup OnTop(n, s.link)
      BY <2>2, <2>4 DEF Changed
    <3>2. s.link \in Links /\ s.link \notin Foreign
      BY <1>1, <3>1, StepFields DEF Alike
    <3>3. n.parent[k] = None
      BY <2>1, <2>2 DEF Rooted
    <3> QED BY <3>1, <3>2, <3>3, NameAssumption DEF OnTop
  <2> QED BY <2>3, <2>4
<1> QED BY <1>2, <1>4, <1>5, <1>6 DEF Rooted

LEMMA RemovedRooted ==
  ASSUME Alike, NEW n, NetOK(n), Rooted(n), NEW l \in Links, l \in Foreign,
         NEW tunnels \in SUBSET Over(l)
  PROVE  Rooted(Removed(n, {l} \cup tunnels))
<1> DEFINE links == {l} \cup tunnels
           m == Removed(n, links)
           gone == links \cup {k \in n.present : n.parent[k] \in links}
<1>0. None \notin links /\ tunnels \subseteq Made
  <2>1. tunnels \subseteq Made
    BY DEF Over, Made
  <2>2. None \notin Made
    <3>1. ASSUME NEW s \in AllSteps("create") PROVE s.link # None
      <4>1. PICK c \in Configs : s \in ToSet(Plans[c]) /\ s.op = "create"
        BY DEF AllSteps
      <4>2. s \in PlanStep
        BY <4>1, PlanSteps
      <4> QED BY <4>1, <4>2, StepFields, NameAssumption
    <3> QED BY <3>1 DEF Made
  <2> QED BY <2>1, <2>2, NameAssumption
<1>2. ASSUME NEW k \in Physical PROVE k \notin gone
  <2>1. k \in Links /\ k \notin Made /\ k # l
    BY NameAssumption DEF Alike
  <2>2. n.parent[k] = None
    BY <2>1 DEF Rooted
  <2> QED BY <1>0, <2>1, <2>2
<1> HIDE DEF links
<1>1. /\ NetOK(m)
      /\ m.present = n.present \ gone /\ m.up = n.up \ gone
      /\ \A k, f : <<k, f>> \in m.addressed <=> <<k, f>> \in n.addressed /\ k \notin gone
      /\ \A k \in Links : m.parent[k] = IF k \in gone THEN None ELSE n.parent[k]
  BY RemovedFields
<1> HIDE DEF m, gone
<1>3. Physical \subseteq m.present
  BY <1>1, <1>2 DEF Rooted
<1>4. ASSUME NEW k \in Links \ Made PROVE m.parent[k] = None
  BY <1>1 DEF Rooted
<1>5. ASSUME NEW s \in AllSteps("create"), s.link \in m.present PROVE m.parent[s.link] = s.parent
  <2>1. s.link \in n.present /\ s.link \notin gone /\ s.link \in Links
    BY <1>1, <1>5, NetFields
  <2> QED BY <1>1, <2>1 DEF Rooted
<1>6. ASSUME NEW k \in Foreign \cap m.present PROVE k \in m.up /\ <<k, "v4">> \in m.addressed
  <2>1. k \in n.present /\ k \notin gone
    BY <1>1
  <2>2. k \in n.up /\ <<k, "v4">> \in n.addressed
    BY <2>1 DEF Rooted
  <2> QED BY <1>1, <2>1, <2>2
<1>7. Rooted(m)
  BY <1>3, <1>4, <1>5, <1>6 DEF Rooted
<1> QED BY <1>7 DEF m, links

(* A snippet that does not come to its end takes no link of a service down.*)
LEMMA BegunRooted ==
  ASSUME Alike, NEW n, NetOK(n), Rooted(n), NEW c \in Configs, NEW s \in ToSet(Plans[c]),
         NEW m \in Begun(n, s)
  PROVE  Rooted(m)
<1>1. s \in PlanStep /\ s \in AllSteps(s.op)
  BY PlanSteps
<1>2. /\ NetOK(m) /\ m.present = n.present /\ m.parent = n.parent
      /\ \A k, f : <<k, f>> \in n.addressed /\ <<k, f>> \notin m.addressed => f = "v6"
      /\ \A k \in n.up \ m.up : s.op = "enslave" /\ k \in {s.link} \cup OnTop(n, s.link)
  BY <1>1, BegunFields
<1>3. ASSUME NEW k \in Foreign \cap m.present PROVE k \in m.up /\ <<k, "v4">> \in m.addressed
  <2>1. k \notin Made /\ k \in Links /\ k \in n.up /\ <<k, "v4">> \in n.addressed
    BY <1>2, NetFields DEF Alike, Rooted
  <2>2. ASSUME k \notin m.up PROVE FALSE
    <3>1. s.op = "enslave" /\ k \in {s.link} \cup OnTop(n, s.link)
      BY <1>2, <2>1, <2>2
    <3>2. s.link \in Links /\ s.link \notin Foreign
      BY <1>1, <3>1, StepFields DEF Alike
    <3>3. n.parent[k] = None
      BY <2>1 DEF Rooted
    <3> QED BY <3>1, <3>2, <3>3, NameAssumption DEF OnTop
  <2> QED BY <1>2, <2>1, <2>2
<1> QED BY <1>2, <1>3 DEF Rooted

LEMMA AppearRooted ==
  ASSUME Alike, NetOK(net), Rooted(net), Supplies, NEW l \in Links, Appear(l)
  PROVE  Rooted(net')
<1> PICK n, m : n = net /\ m = net'
  OBVIOUS
<1>1. /\ NetOK(m) /\ m.present = n.present \cup {l} /\ m.up = n.up \cup {l}
      /\ n.addressed \subseteq m.addressed /\ <<l, "v4">> \in m.addressed
      /\ m.parent = n.parent
  BY AppearChanges DEF Families
<1>2. l \in Foreign
  BY DevicesAreForeign DEF Appear
<1>3. \A s \in AllSteps("create") : s.link # l
  BY <1>2 DEF Alike, Made
<1>4. Rooted(m)
  BY <1>1, <1>2, <1>3 DEF Rooted
<1> QED BY <1>4

LEMMA RootedStep ==
  ASSUME Sane, Supplies, Alike => Rooted(net), [Next]_vars
  PROVE  Alike => Rooted(net)'
<1> SUFFICES ASSUME Alike PROVE Rooted(net)'
  BY DEF Alike
<1>1. NetOK(net) /\ Rooted(net)
  BY TypeParts DEF Sane, AllOK
<1>2. net' = net => Rooted(net)'
  BY <1>1 DEF Rooted
<1>3. CASE RunStep
  <2>1. phase = "applying" /\ pos <= Len(Plans[config])
    BY <1>3, RunStepFrame
  <2>2. /\ config \in Configs /\ Step \in PlanStep /\ (Step.op = "route" => Step.slot \in Slots)
        /\ Step \in ToSet(Plans[config])
    BY <2>1, StepContext, StepsFit
  <2>3. CASE LinkStep
    <3>1. Changed(net, net', Step)
      BY <1>1, <2>2, <2>3, LinkStepChanges
    <3>2. Rooted(net')
      BY <1>1, <2>2, <3>1, ChangedRooted
    <3> QED BY <3>2
  <2> QED BY <1>2, <1>3, <2>3 DEF RunStep
<1>4. ASSUME NEW l \in Links, Appear(l) PROVE Rooted(net)'
  BY <1>1, <1>4, AppearRooted
<1>5. ASSUME NEW l \in Links, Vanish(l) PROVE Rooted(net)'
  <2>1. l \in Foreign
    BY <1>5, DevicesAreForeign DEF Vanish
  <2>2. PICK tunnels \in SUBSET Over(l) : net' = Removed(net, {l} \cup tunnels)
    BY <1>5 DEF Vanish
  <2>3. Rooted(Removed(net, {l} \cup tunnels))
    BY <1>1, <2>1, RemovedRooted
  <2> QED BY <2>2, <2>3
<1>6. CASE Boot
  BY <1>6, BootedRooted DEF Boot
<1>7. ASSUME NEW c \in Configs, Apply(c) PROVE net' = net
  BY <1>7 DEF Apply
<1>8. Finish \/ UNCHANGED vars => net' = net
  BY DEF Finish, vars
<1>9. ASSUME Refused \/ Fail PROVE Rooted(net)'
  <2> SUFFICES ASSUME net' # net PROVE Rooted(net)'
    BY <1>2
  <2>1. phase = "applying" /\ pos <= Len(Plans[config]) /\ net' \in Begun(net, Step)
    BY <1>9 DEF Refused, Blocked, Fail, AtStep
  <2>2. config \in Configs /\ Step \in ToSet(Plans[config])
    BY <2>1, StepContext, StepsFit
  <2>3. Rooted(net')
    BY <1>1, <2>1, <2>2, BegunRooted
  <2> QED BY <2>3
<1>10. CASE Slip
  <2>1. phase = "applying" /\ pos <= Len(Plans[config])
    BY <1>10 DEF Slip, Takes, AtStep
  <2>2. config \in Configs /\ Step \in PlanStep /\ Step \in ToSet(Plans[config])
    BY <2>1, StepContext, StepsFit
  <2>3. Changed(net, net', Step)
    BY <1>1, <1>10, <2>2, SlipChanges
  <2>4. Rooted(net')
    BY <1>1, <2>2, <2>3, ChangedRooted
  <2> QED BY <2>4
<1> QED BY <1>2, <1>3, <1>4, <1>5, <1>6, <1>7, <1>8, <1>9, <1>10 DEF Next

-----------------------------------------------------------------------------
(* How far an apply has come.                                              *)

(* What the steps E of a plan have made, set up and addressed is there,    *)
(* its IPv6 addresses as long as no link got a master; links of services   *)
(* come and go as they like.                                               *)
Prepared(n, E) ==
  /\ CreatedBy(E) \subseteq n.present
  /\ RisenBy(E) \ Foreign \subseteq n.up
  /\ \A k, f : <<k, f>> \in AddressedBy(E) /\ k \notin Foreign /\ (f = "v4" \/ E \subseteq Forward) =>
       <<k, f>> \in n.addressed

(* Steps of a plan, each fitting among themselves.                         *)
Sound(c, E) ==
  E \subseteq ToSet(Plans[c]) /\ \A s \in E : \E L : Fits(c, E, s, L)

LEMMA BeforeIsSound ==
  ASSUME NEW c \in Configs, NEW i \in 1 .. Len(Plans[c]) + 1
  PROVE  Sound(c, Before(Plans[c], i))
<1> DEFINE P == Plans[c]
<1>1. /\ Len(P) \in Nat
      /\ \A j \in 1 .. Len(P) : P[j] \in ToSet(P) /\ Fits(c, Before(P, j), P[j], After(P, j))
  BY StepsFit
<1> HIDE DEF P
<1>2. ASSUME NEW j \in 1 .. i - 1
      PROVE  P[j] \in ToSet(P) /\ Fits(c, Before(P, i), P[j], After(P, j))
  <2>1. j \in 1 .. Len(P)
    BY <1>1 DEF P
  <2>2. Before(P, j) \subseteq Before(P, i)
    <3>1. 1 .. j - 1 \subseteq 1 .. i - 1
      BY <1>1 DEF P
    <3> QED BY <3>1 DEF Before
  <2>3. P[j] \in ToSet(P) /\ Fits(c, Before(P, j), P[j], After(P, j))
    BY <1>1, <2>1
  <2> QED BY <2>2, <2>3, FitsMore
<1>3. Before(P, i) \subseteq ToSet(P) /\ \A s \in Before(P, i) : \E L : Fits(c, Before(P, i), s, L)
  BY <1>2 DEF Before
<1> QED BY <1>3 DEF Sound, P

LEMMA SpareIsPhysical ==
  ASSUME NEW c \in ServedConfigs
  PROVE  Spare(c) \subseteq Physical
<1> SUFFICES ASSUME NEW j \in ToSet(c.interfaces) PROVE j.name \in Physical
  BY DEF Spare
<1> QED BY ServedFacts DEF Served, Names, Elements, NameOf, ToSet

(* Names keep apart: what is usable is no spare port, and no link of a     *)
(* service unless it is one of the configuration's.                        *)
LEMMA NamesApart ==
  ASSUME NEW c \in ServedConfigs, NEW E, Sound(c, E)
  PROVE  /\ c \in Configs /\ Alike
         /\ CreatedBy(E) \subseteq Made /\ CreatedBy(E) \subseteq Links
         /\ ServiceLinks(c) \subseteq Foreign
         /\ CreatedBy(E) \cap (Physical \cup Foreign) = {} /\ Physical \cap Foreign = {}
         /\ Spare(c) \subseteq Physical /\ Usable(c, E) \cap Spare(c) = {}
         /\ Made \cap (Physical \cup Foreign) = {} /\ Physical \subseteq Links
<1>1. c \in Configs /\ Served(c) /\ Alike
  BY ServedFacts
<1>2. \A s \in E : s \in PlanStep /\ (s.op = "create" => s.link \in Made /\ s.link \in Links)
  BY <1>1, PlanSteps, StepFields DEF Sound
<1>3. CreatedBy(E) \subseteq Made /\ CreatedBy(E) \subseteq Links
  BY <1>2 DEF CreatedBy
<1>4. ServiceLinks(c) \subseteq Foreign
  BY <1>1 DEF Foreign
<1>5. Made \cap (Physical \cup Foreign) = {} /\ Physical \cap Foreign = {}
  BY <1>1 DEF Alike
<1>6. Spare(c) \subseteq Physical
  BY SpareIsPhysical
<1>7. Usable(c, E) \cap Spare(c) = {}
  BY <1>3, <1>4, <1>5, <1>6 DEF Usable
<1> QED BY <1>1, <1>3, <1>4, <1>5, <1>6, <1>7, NameAssumption

(* What the steps of a plan work on is usable after them.                  *)
LEMMA WorkIsUsable ==
  ASSUME NEW c \in ServedConfigs, Valid(c), NEW E, Sound(c, E)
  PROVE  /\ RisenBy(E) \cup CreatedBy(E) \subseteq Usable(c, E)
         /\ \A k, f : <<k, f>> \in AddressedBy(E) => k \in Usable(c, E) /\ f \in Families
<1>1. ASSUME NEW s \in E, s.op \in {"up", "enslave", "join", "address"} PROVE s.link \in Usable(c, E)
  <2>1. PICK L : Fits(c, E, s, L)
    BY DEF Sound
  <2>2. s.link \in Needs(s)
    BY <1>1 DEF Needs
  <2> QED BY <1>1, <2>1, <2>2 DEF Fits
<1>2. RisenBy(E) \subseteq Usable(c, E)
  BY <1>1 DEF RisenBy
<1>3. ASSUME NEW k, NEW f, <<k, f>> \in AddressedBy(E) PROVE k \in Usable(c, E) /\ f \in Families
  <2>1. PICK s \in E : s.op = "address" /\ k = s.link /\ f = s.family
    BY <1>3 DEF AddressedBy
  <2>2. s \in PlanStep
    BY ServedFacts, PlanSteps DEF Sound
  <2> QED BY <1>1, <2>1, <2>2, StepFields
<1> QED BY <1>2, <1>3 DEF Usable

(* A link the plan can use stands on none that a service or a spare port   *)
(* could take with it, and on one that is set up.                          *)
LEMMA ParentsStay ==
  ASSUME NEW c \in ServedConfigs, Valid(c), NEW E, Sound(c, E), NEW n, NetOK(n), Rooted(n),
         NEW k, k \in Physical \cup ServiceLinks(c) \cup CreatedBy(E), k \in n.present
  PROVE  /\ n.parent[k] = None
            \/ /\ n.parent[k] \in RisenBy(E) \cap (Physical \cup CreatedBy(E))
               /\ n.parent[k] \notin Foreign \cup Spare(c)
         /\ \A l \in Links : l \in Foreign \cup Spare(c) => k \notin OnTop(n, l)
         /\ k \notin CreatedBy(E) => n.parent[k] = None
<1>1. /\ c \in Configs /\ Alike /\ ServiceLinks(c) \subseteq Foreign
      /\ CreatedBy(E) \cap (Physical \cup Foreign) = {} /\ Physical \cap Foreign = {}
      /\ Spare(c) \subseteq Physical /\ Usable(c, E) \cap Spare(c) = {}
      /\ Made \cap (Physical \cup Foreign) = {} /\ k \in Links
  BY NamesApart, NetFields
<1>2. k \notin CreatedBy(E) => n.parent[k] = None
  BY <1>1 DEF Rooted
<1>3. ASSUME k \in CreatedBy(E), n.parent[k] # None
      PROVE  /\ n.parent[k] \in RisenBy(E) \cap (Physical \cup CreatedBy(E))
             /\ n.parent[k] \notin Foreign \cup Spare(c)
  <2>1. PICK s \in E : s.op = "create" /\ s.link = k
    BY <1>3 DEF CreatedBy
  <2>2. s \in AllSteps("create")
    BY <1>1, <2>1, PlanSteps DEF Sound
  <2>3. n.parent[k] = s.parent
    BY <2>1, <2>2 DEF Rooted
  <2>4. PICK L : Fits(c, E, s, L)
    BY DEF Sound
  <2>5. s.parent \in RisenBy(E) \cap (Physical \cup CreatedBy(E))
    BY <1>3, <2>1, <2>3, <2>4 DEF Fits
  <2>6. s.parent \in Usable(c, E)
    BY <2>5, WorkIsUsable
  <2> QED BY <1>1, <2>3, <2>5, <2>6
<1>4. n.parent[k] = None
            \/ /\ n.parent[k] \in RisenBy(E) \cap (Physical \cup CreatedBy(E))
               /\ n.parent[k] \notin Foreign \cup Spare(c)
  BY <1>2, <1>3
<1> QED BY <1>2, <1>4, NameAssumption DEF OnTop

LEMMA ChangedPrepared ==
  ASSUME NEW c \in ServedConfigs, Valid(c), NEW E, Sound(c, E), NEW s \in ToSet(Plans[c]), NEW L,
         Fits(c, E, s, L), NEW n, NEW m, NetOK(n), Rooted(n), Changed(n, m, s), Asked(n, m, s),
         Prepared(n, E)
  PROVE  Prepared(m, E \cup {s})
<1>1. /\ c \in Configs /\ ServiceLinks(c) \subseteq Foreign
      /\ Usable(c, E) \cap Spare(c) = {} /\ Spare(c) \subseteq Links /\ s \in PlanStep
  BY NamesApart, PlanSteps
<1>2. CreatedBy(E \cup {s}) \subseteq m.present
  BY DEF CreatedBy, Prepared, Changed, Asked
<1>6. ASSUME NEW k \in Usable(c, E), k \in n.present, s.op = "down"
      PROVE  k \notin {s.link} \cup OnTop(n, s.link)
  <2>1. s.link \in Spare(c) /\ s.link \in Links
    BY <1>1, <1>6 DEF Fits
  <2>2. k \in Physical \cup ServiceLinks(c) \cup CreatedBy(E)
    BY DEF Usable
  <2>3. k \notin OnTop(n, s.link)
    BY <1>6, <2>1, <2>2, ParentsStay
  <2> QED BY <1>1, <2>1, <2>3
<1>4. ASSUME NEW k \in RisenBy(E) \ Foreign PROVE k \in m.up
  <2>1. k \in n.up /\ k \in n.present /\ k \in Usable(c, E)
    BY WorkIsUsable, NetFields DEF Prepared
  <2>2. k \in n.up \ m.up => s.op = "down" /\ k \in {s.link} \cup OnTop(n, s.link)
    BY DEF Changed
  <2> QED BY <1>6, <2>1, <2>2
<1>3. ASSUME NEW k, NEW f, <<k, f>> \in AddressedBy(E \cup {s}), k \notin Foreign,
             f = "v4" \/ E \cup {s} \subseteq Forward
      PROVE  <<k, f>> \in m.addressed
  <2>1. CASE <<k, f>> \notin AddressedBy(E)
    <3>1. s.op = "address" /\ k = s.link /\ f = s.family
      BY <1>3, <2>1 DEF AddressedBy
    <3> QED BY <3>1 DEF Asked
  <2>2. CASE <<k, f>> \in AddressedBy(E)
    <3>1. <<k, f>> \in n.addressed
      BY <1>3, <2>2 DEF Prepared
    <3>2. k \in Usable(c, E) /\ k \in n.present
      BY <2>2, <3>1, WorkIsUsable, NetFields
    <3>3. <<k, f>> \notin m.addressed =>
            s.op \in {"down", "enslave", "attach"} /\ f = "v6" /\ k \in {s.link} \cup OnTop(n, s.link)
      BY <3>1 DEF Changed
    <3>4. f = "v6" => s.op \notin {"enslave", "attach"}
      BY <1>3 DEF Forward
    <3> QED BY <1>6, <3>2, <3>3, <3>4
  <2> QED BY <2>1, <2>2
<1>5. RisenBy(E \cup {s}) \ Foreign \subseteq m.up
  BY <1>4 DEF RisenBy, Asked
<1> QED BY <1>2, <1>3, <1>5 DEF Prepared

(* No tunnel of the plan runs over the link of a service.                  *)
LEMMA NotOver ==
  ASSUME NEW c \in ServedConfigs, Valid(c), NEW E, Sound(c, E),
         NEW l \in Links, l \in Foreign, NEW k \in Physical \cup CreatedBy(E)
  PROVE  k \notin Over(l)
<1>1. c \in Configs /\ Alike /\ Physical \cap Foreign = {} /\ Made \cap Physical = {}
  BY NamesApart
<1>2. SUFFICES ASSUME k \in Over(l) PROVE FALSE
  OBVIOUS
<1>3. PICK t \in AllSteps("create") : t.under = l /\ t.link = k
  BY <1>2 DEF Over
<1>4. k \in CreatedBy(E)
  BY <1>1, <1>3 DEF Made
<1>5. PICK s \in E : s.op = "create" /\ s.link = k
  BY <1>4 DEF CreatedBy
<1>6. s \in AllSteps("create")
  BY <1>1, <1>5, PlanSteps DEF Sound
<1>7. s.under = l
  BY <1>1, <1>3, <1>5, <1>6 DEF Alike
<1>8. s.under \in Physical \cup {None}
  BY <1>5 DEF Sound, Fits
<1> QED BY <1>1, <1>7, <1>8, NameAssumption

LEMMA RemovedPrepared ==
  ASSUME NEW c \in ServedConfigs, Valid(c), NEW E, Sound(c, E), NEW n, NetOK(n), Rooted(n),
         NEW l \in Links, l \in Foreign, NEW tunnels \in SUBSET Over(l), Prepared(n, E)
  PROVE  Prepared(Removed(n, {l} \cup tunnels), E)
<1> DEFINE links == {l} \cup tunnels
           m == Removed(n, links)
           gone == links \cup {k \in n.present : n.parent[k] \in links}
<1>0. None \notin links
  <2>1. \A s \in AllSteps("create") : s.link # None
    <3> SUFFICES ASSUME NEW s \in AllSteps("create") PROVE s.link # None
      OBVIOUS
    <3>1. PICK d \in Configs : s \in ToSet(Plans[d]) /\ s.op = "create"
      BY DEF AllSteps
    <3>2. s \in PlanStep
      BY <3>1, PlanSteps
    <3> QED BY <3>1, <3>2, StepFields, NameAssumption
  <2> QED BY <2>1, NameAssumption DEF Over
<1>2. ASSUME NEW k \in Usable(c, E), k \notin Foreign, k \in n.present PROVE k \notin gone
  <2>1. k \in Physical \cup CreatedBy(E)
    BY <1>2, NamesApart DEF Usable
  <2>2. k \notin links
    BY <1>2, <2>1, NotOver
  <2>3. \/ n.parent[k] = None
        \/ n.parent[k] \in Physical \cup CreatedBy(E) /\ n.parent[k] \notin Foreign
    BY <1>2, <2>1, ParentsStay
  <2>4. n.parent[k] \notin links
    BY <1>0, <2>3, NotOver
  <2> QED BY <2>2, <2>4
<1> HIDE DEF links
<1>1. /\ m.present = n.present \ gone /\ m.up = n.up \ gone
      /\ \A k, f : <<k, f>> \in m.addressed <=> <<k, f>> \in n.addressed /\ k \notin gone
  BY RemovedFields
<1>3. /\ CreatedBy(E) \cup RisenBy(E) \subseteq Usable(c, E)
      /\ \A k, f : <<k, f>> \in AddressedBy(E) => k \in Usable(c, E)
      /\ CreatedBy(E) \cap Foreign = {}
      /\ n.up \subseteq n.present
      /\ \A k, f : <<k, f>> \in n.addressed => k \in n.present
  BY WorkIsUsable, NamesApart, NetFields
<1> HIDE DEF m, gone
<1>4. CreatedBy(E) \subseteq m.present /\ RisenBy(E) \ Foreign \subseteq m.up
  BY <1>1, <1>2, <1>3 DEF Prepared
<1>5. ASSUME NEW k, NEW f, <<k, f>> \in AddressedBy(E), k \notin Foreign, f = "v4" \/ E \subseteq Forward
      PROVE  <<k, f>> \in m.addressed
  <2>1. <<k, f>> \in n.addressed
    BY <1>5 DEF Prepared
  <2>2. k \notin gone
    BY <1>2, <1>3, <1>5, <2>1
  <2> QED BY <1>1, <2>1, <2>2
<1>6. Prepared(m, E)
  BY <1>4, <1>5 DEF Prepared
<1> QED BY <1>6 DEF m, links

LEMMA BeforeNext ==
  ASSUME NEW c \in Configs
  PROVE  /\ Before(Plans[c], 1) = {}
         /\ \A i \in 1 .. Len(Plans[c]) :
              Before(Plans[c], i + 1) = Before(Plans[c], i) \cup {Plans[c][i]}
<1> DEFINE P == Plans[c]
<1>1. Len(P) \in Nat
  BY StepsFit
<1> HIDE DEF P
<1>2. 1 .. 1 - 1 = {}
  OBVIOUS
<1>3. ASSUME NEW i \in 1 .. Len(P) PROVE Before(P, i + 1) = Before(P, i) \cup {P[i]}
  <2>1. i \in Nat /\ 1 <= i
    BY <1>1
  <2>2. 1 .. (i + 1) - 1 = (1 .. i - 1) \cup {i}
    BY <2>1
  <2> QED BY <2>2 DEF Before
<1>4. Before(P, 1) = {}
  BY <1>2 DEF Before
<1> QED BY <1>3, <1>4 DEF P

(* A plan's steps have had their effect on the links up to where it is.    *)
Ready ==
  phase \in {"applying", "done"} /\ config \in ServedConfigs =>
    Prepared(net, Before(Plans[config], pos))

LEMMA ReadyStep ==
  ASSUME Sane, Supplies, Alike => Rooted(net), Ready, [Next]_vars
  PROVE  Ready'
<1>1. NetOK(net)
  BY TypeParts DEF Sane, AllOK
<1>2. ASSUME NEW c \in Configs, Apply(c) PROVE Ready'
  <2>1. config' = c /\ pos' = 1 /\ net' = net
    BY <1>2 DEF Apply
  <2>2. Before(Plans[c], 1) = {}
    BY BeforeNext
  <2>3. Prepared(net, {})
    BY DEF Prepared, CreatedBy, RisenBy, AddressedBy
  <2> QED BY <2>1, <2>2, <2>3 DEF Ready
<1>3. CASE RunStep
  <2>1. /\ phase = "applying" /\ pos <= Len(Plans[config])
        /\ config' = config /\ phase' = phase /\ pos' = pos + 1
    BY <1>3, RunStepFrame
  <2> DEFINE E == Before(Plans[config], pos)
  <2> SUFFICES ASSUME config \in ServedConfigs
               PROVE  Prepared(net', Before(Plans[config], pos + 1))
    BY <2>1 DEF Ready
  <2>2. /\ config \in Configs /\ Valid(config) /\ Step = Plans[config][pos] /\ Step \in PlanStep
        /\ pos \in 1 .. Len(Plans[config]) /\ Len(Plans[config]) \in Nat
        /\ Step.op = "route" => Step.slot \in Slots
        /\ Fits(config, E, Step, After(Plans[config], pos))
    BY <2>1, StepContext
  <2>3. Step \in ToSet(Plans[config])
    BY <2>2, StepsFit
  <2>4. Before(Plans[config], pos + 1) = E \cup {Step}
    BY <2>2, BeforeNext
  <2>5. Sound(config, E)
    BY <2>2, BeforeIsSound
  <2>6. Rooted(net) /\ Prepared(net, E)
    BY <2>1, ServedFacts DEF Ready
  <2> HIDE DEF E
  <2>7. CASE LinkStep
    <3>1. Changed(net, net', Step) /\ Asked(net, net', Step)
      BY <1>1, <2>2, <2>7, LinkStepChanges
    <3>2. Prepared(net', E \cup {Step})
      BY <1>1, <2>2, <2>3, <2>5, <2>6, <3>1, ChangedPrepared
    <3> QED BY <2>4, <3>2
  <2>8. CASE Step.op \in {"write", "start", "certbot", "conntrack", "load"} /\ UNCHANGED net
    <3>1. /\ CreatedBy(E \cup {Step}) = CreatedBy(E) /\ RisenBy(E \cup {Step}) = RisenBy(E)
          /\ AddressedBy(E \cup {Step}) = AddressedBy(E)
          /\ E \cup {Step} \subseteq Forward => E \subseteq Forward
      BY <2>8 DEF CreatedBy, RisenBy, AddressedBy
    <3> QED BY <2>4, <2>6, <2>8, <3>1 DEF Prepared
  <2> QED BY <1>3, <2>7, <2>8, RunStepFrame DEF RunStep
<1>4. ASSUME NEW l \in Links, Appear(l) PROVE Ready'
  <2>1. config' = config /\ phase' = phase /\ pos' = pos
    BY <1>4 DEF Appear, lasd
  <2>2. /\ net.present \subseteq net'.present /\ net.up \subseteq net'.up
        /\ net.addressed \subseteq net'.addressed
    BY <1>1, <1>4, AppearChanges
  <2> QED BY <2>1, <2>2 DEF Ready, Prepared
<1>5. ASSUME NEW l \in Links, Vanish(l) PROVE Ready'
  <2>1. l \in Foreign /\ config' = config /\ phase' = phase /\ pos' = pos
    BY <1>5, DevicesAreForeign DEF Vanish, lasd
  <2>7. PICK tunnels \in SUBSET Over(l) : net' = Removed(net, {l} \cup tunnels)
    BY <1>5 DEF Vanish
  <2> SUFFICES ASSUME phase \in {"applying", "done"}, config \in ServedConfigs
               PROVE  Prepared(net', Before(Plans[config], pos))
    BY <2>1 DEF Ready
  <2>2. config \in Configs /\ Valid(config) /\ config # None
    BY ServedFacts, ConfigAssumption DEF Sane
  <2>3. pos \in 1 .. Len(Plans[config]) + 1
    BY <2>2 DEF Sane, TypeOK
  <2>4. Sound(config, Before(Plans[config], pos))
    BY <2>2, <2>3, BeforeIsSound
  <2>5. Rooted(net) /\ Prepared(net, Before(Plans[config], pos))
    BY ServedFacts DEF Ready
  <2>6. Prepared(Removed(net, {l} \cup tunnels), Before(Plans[config], pos))
    BY <1>1, <2>1, <2>2, <2>4, <2>5, RemovedPrepared
  <2> QED BY <2>6, <2>7
<1>6. CASE Refused \/ Fail \/ Boot
  BY <1>6 DEF Refused, Fail, Boot, Ready
<1>7. CASE Finish
  BY <1>7 DEF Finish, Ready
<1>8. CASE UNCHANGED vars
  BY <1>8 DEF vars, Ready
<1>9. CASE Slip
  <2>1. /\ phase = "applying" /\ pos <= Len(Plans[config])
        /\ config' = config /\ phase' = phase /\ pos' = pos + 1
    BY <1>9 DEF Slip, Takes, AtStep
  <2> DEFINE E == Before(Plans[config], pos)
  <2> SUFFICES ASSUME config \in ServedConfigs
               PROVE  Prepared(net', Before(Plans[config], pos + 1))
    BY <2>1 DEF Ready
  <2>2. /\ config \in Configs /\ Valid(config) /\ Step = Plans[config][pos] /\ Step \in PlanStep
        /\ pos \in 1 .. Len(Plans[config]) /\ Len(Plans[config]) \in Nat
        /\ Fits(config, E, Step, After(Plans[config], pos))
    BY <2>1, StepContext
  <2>3. Step \in ToSet(Plans[config])
    BY <2>2, StepsFit
  <2>4. Before(Plans[config], pos + 1) = E \cup {Step}
    BY <2>2, BeforeNext
  <2>5. Sound(config, E)
    BY <2>2, BeforeIsSound
  <2>6. Rooted(net) /\ Prepared(net, E)
    BY <2>1, ServedFacts DEF Ready
  <2> HIDE DEF E
  <2>7. Changed(net, net', Step) /\ Asked(net, net', Step)
    BY <1>1, <1>9, <2>2, SlipChanges
  <2>8. Prepared(net', E \cup {Step})
    BY <1>1, <2>2, <2>3, <2>5, <2>6, <2>7, ChangedPrepared
  <2> QED BY <2>4, <2>8
<1> QED BY <1>2, <1>3, <1>4, <1>5, <1>6, <1>7, <1>8, <1>9 DEF Next

(* A step runs where the plan has come to it and the services have brought *)
(* up the links that it needs of them.                                     *)
LEMMA NothingElseBlocks ==
  ASSUME NEW c \in ServedConfigs, Valid(c), NEW E, Sound(c, E), NEW s \in PlanStep, NEW L,
         Fits(c, E, s, L), NEW n, NetOK(n), Rooted(n), Prepared(n, E),
         Needs(s) \cap ServiceLinks(c) \subseteq n.present, s.op = "route" => E \subseteq Forward
  PROVE  Possible(n, s)
<1>1. /\ ServiceLinks(c) \subseteq Foreign /\ Spare(c) \subseteq Physical
      /\ Usable(c, E) \subseteq Physical \cup ServiceLinks(c) \cup CreatedBy(E)
  BY NamesApart DEF Usable
<1>2. Needs(s) \subseteq n.present
  <2>1. CASE s.op = "down"
    BY <1>1, <2>1 DEF Fits, Needs, Rooted
  <2>2. CASE s.op # "down"
    <3>1. Needs(s) \subseteq Usable(c, E)
      BY <2>2 DEF Fits
    <3> QED BY <1>1, <3>1 DEF Rooted, Prepared
  <2> QED BY <2>1, <2>2
<1>3. ASSUME s.op \in {"up", "enslave", "join"} PROVE CanRise(n, s.link)
  <2>1. s.link \in Needs(s)
    BY <1>3 DEF Needs
  <2>2. s.link \in Usable(c, E) /\ s.link \in n.present
    BY <1>2, <1>3, <2>1 DEF Fits
  <2>3. s.link \in Physical \cup ServiceLinks(c) \cup CreatedBy(E)
    BY <1>1, <2>2
  <2>4. \/ n.parent[s.link] = None
        \/ n.parent[s.link] \in RisenBy(E) /\ n.parent[s.link] \notin Foreign
    BY <2>2, <2>3, ParentsStay
  <2> QED BY <2>2, <2>4 DEF CanRise, Prepared
<1>4. ASSUME s.op = "route"
      PROVE  s.devs \subseteq n.up /\ (s.via # None => s.devs \X {s.via} \subseteq n.addressed)
  <2>1. s.devs \subseteq n.present
    BY <1>2, <1>4 DEF Needs
  <2>2. /\ s.devs \subseteq ServiceLinks(c) \cup RisenBy(E)
        /\ s.via # None => \A d \in s.devs : Reaches(c, E, d, s.via)
    BY <1>4 DEF Fits
  <2>3. s.devs \subseteq n.up
    BY <1>1, <2>1, <2>2 DEF Rooted, Prepared
  <2>4. ASSUME s.via # None, NEW d \in s.devs PROVE <<d, s.via>> \in n.addressed
    <3>1. Reaches(c, E, d, s.via)
      BY <2>2, <2>4
    <3>2. CASE d \in ServiceLinks(c) /\ s.via = "v4"
      BY <1>1, <2>1, <2>4, <3>2 DEF Rooted
    <3>3. CASE <<d, s.via>> \in AddressedBy(E) /\ d \in Physical \cup CreatedBy(E)
      <4>1. d \notin Foreign
        BY <3>3, NamesApart
      <4> QED BY <1>4, <3>3, <4>1 DEF Prepared
    <3> QED BY <3>1, <3>2, <3>3 DEF Reaches
  <2> QED BY <2>3, <2>4
<1> QED BY <1>2, <1>3, <1>4 DEF Possible

(* Whatever earlier plans, failures and boots left on the host, a step of  *)
(* a configuration the plan's order serves is refused only because a       *)
(* service has not brought its device up yet (builder.go:242-259) or, the  *)
(* conntrack capacity, because nothing has loaded the module               *)
(* (builder.go:46-48): never for want of what the plan itself sets up.     *)
THEOREM HostBlocks == Spec => []OnlyHostBlocks
<1> DEFINE Inv == Sane /\ Supplies /\ (Alike => Rooted(net)) /\ Ready
<1>1. Init => Inv
  <2>1. Init => (Alike => Rooted(net)) /\ Ready
    BY BootedRooted DEF Init, Ready
  <2> QED BY <2>1, InitSane, InitSupplies
<1>2. Inv /\ [Next]_vars => Inv'
  BY SaneStep, SuppliesStep, RootedStep, ReadyStep
<1>3. Inv => OnlyHostBlocks
  <2> SUFFICES ASSUME Inv, Blocked, config \in ServedConfigs,
                      ~ServiceIsMissing, ~ModuleIsMissing
               PROVE  FALSE
    BY DEF OnlyHostBlocks
  <2> DEFINE E == Before(Plans[config], pos)
  <2>1. phase = "applying" /\ pos <= Len(Plans[config]) /\ ~Possible(net, Step)
    BY DEF Blocked
  <2>2. /\ config \in Configs /\ Valid(config) /\ Step \in PlanStep /\ NetOK(net)
        /\ pos \in 1 .. Len(Plans[config]) /\ Len(Plans[config]) \in Nat
        /\ Fits(config, E, Step, After(Plans[config], pos))
    BY <2>1, StepContext
  <2>3. Sound(config, E)
    BY <2>2, BeforeIsSound
  <2>4. Rooted(net) /\ Prepared(net, E)
    BY <2>1, ServedFacts DEF Ready
  <2>5. Needs(Step) \cap ServiceLinks(config) \subseteq net.present
    BY DEF ServiceIsMissing
  <2>6. Step.op = "route" => E \subseteq Forward
    <3>1. Plans[config] \in RoutesFirst
      BY <2>2, PlanRoutesFirst DEF Plans
    <3>2. \A j \in 1 .. pos - 1 : j \in 1 .. Len(Plans[config]) /\ j < pos
      BY <2>2
    <3> QED BY <2>2, <3>1, <3>2 DEF RoutesFirst, Before, Step
  <2> HIDE DEF E
  <2> QED BY <2>1, <2>2, <2>3, <2>4, <2>5, <2>6, NothingElseBlocks
<1> QED BY <1>1, <1>2, <1>3, PTL DEF Spec

-----------------------------------------------------------------------------
(* What an apply has done stays done.                                      *)

(* InPlace, as far as it is about the links and about the units; a route   *)
(* leads over links that are up.                                           *)
LinksInPlace(n, s) ==
  /\ s.op = "create" => s.link \in n.present /\ n.parent[s.link] = s.parent
  /\ s.op \in {"up", "enslave", "join"} => s.link \in n.up
  /\ s.op = "down" => s.link \notin n.up
  /\ s.op = "address" => <<s.link, s.family>> \in n.addressed
  /\ s.op \in {"enslave", "join", "attach"} => n.master[s.link] = s.master
  /\ s.op = "route" => n.routes[s.slot] = s.devs /\ s.devs \subseteq n.up
UnitsInPlace(s) ==
  /\ s.op = "write" => files[s.path] = s.profile
  /\ s.op = "start" => s.unit \in enabled \cap Running

(* Where links stand when a plan has come behind the steps E: of the links *)
(* that its routes lead over none goes with one that a step takes down.    *)
LEMMA RouteDevices ==
  ASSUME NEW c \in ServedConfigs, Valid(c), NEW E, Sound(c, E), NEW t \in E, t.op = "route",
         NEW n, NetOK(n), Rooted(n), NEW d \in t.devs, d \in n.present, NEW l \in Links
  PROVE  d \notin OnTop(n, l) /\ d \notin Spare(c)
<1>1. /\ c \in Configs /\ ServiceLinks(c) \subseteq Foreign /\ d \in Links
      /\ Made \cap (Physical \cup Foreign) = {} /\ Usable(c, E) \cap Spare(c) = {}
  BY NamesApart, NetFields
<1>2. PICK L : Fits(c, E, t, L)
  BY DEF Sound
<1>3. d \in Usable(c, E) /\ (d \in ServiceLinks(c) \cup Physical \/ d \in Freestanding(E))
  BY <1>2 DEF Fits, Needs
<1>4. CASE d \in ServiceLinks(c) \cup Physical
  BY <1>1, <1>3, <1>4, NameAssumption DEF Rooted, OnTop
<1>5. CASE d \in Freestanding(E)
  <2>1. PICK u \in E : u.op = "create" /\ u.link = d /\ u.parent = None
    BY <1>5 DEF Freestanding
  <2>2. u \in AllSteps("create")
    BY <1>1, <2>1, PlanSteps DEF Sound
  <2>3. n.parent[d] = None
    BY <2>1, <2>2 DEF Rooted
  <2> QED BY <1>1, <1>3, <2>3, NameAssumption DEF OnTop
<1> QED BY <1>3, <1>4, <1>5

LEMMA KeptInPlace ==
  ASSUME NEW c \in ServedConfigs, Valid(c), NEW E, Sound(c, E), NEW t \in E,
         NEW s \in ToSet(Plans[c]), NEW L, Fits(c, E, s, L),
         NEW n, NEW m, NetOK(n), Rooted(n), Changed(n, m, s),
         LinksInPlace(n, t), ~TakesBack(Plans[c], s, t)
  PROVE  LinksInPlace(m, t)
<1>1. /\ c \in Configs /\ s \in PlanStep /\ t \in PlanStep /\ t \in ToSet(Plans[c])
      /\ Spare(c) \subseteq Physical /\ Made \cap (Physical \cup Foreign) = {}
      /\ n.up \subseteq n.present /\ n.present \subseteq Links
  BY NamesApart, PlanSteps, NetFields DEF Sound
<1>2. PICK M : Fits(c, E, t, M)
  BY DEF Sound
<1>3. s.op \in {"up", "down", "address", "tune", "create", "enslave", "join", "attach"} => s.link \in Links
  BY <1>1, StepFields
<1>4. CASE t.op = "create"
  BY <1>1, <1>4 DEF LinksInPlace, Changed
<1>5. ASSUME t.op \in {"up", "enslave", "join"} PROVE t.link \in m.up
  <2>1. t.link \in n.up
    BY <1>5 DEF LinksInPlace
  <2>2. t.link \in Physical \cup ServiceLinks(c) \cup CreatedBy(E)
    <3>1. t.link \in RisenBy(E)
      BY <1>5 DEF RisenBy
    <3> QED BY <3>1, WorkIsUsable DEF Usable
  <2>3. ASSUME t.link \notin m.up PROVE FALSE
    <3>1. s.op = "down" /\ t.link \in {s.link} \cup OnTop(n, s.link)
      BY <2>1, <2>3 DEF Changed
    <3>2. t.link # s.link
      BY <1>5, <3>1 DEF TakesBack
    <3>3. s.link \in Links /\ s.link \in Spare(c)
      BY <1>3, <3>1 DEF Fits
    <3>4. t.link \notin OnTop(n, s.link)
      BY <1>1, <2>1, <2>2, <3>3, ParentsStay
    <3> QED BY <3>1, <3>2, <3>4
  <2> QED BY <2>3
<1>6. ASSUME t.op = "down" PROVE t.link \notin m.up
  <2>1. t.link \notin n.up /\ t.link \in Links /\ t.link \in Physical
    BY <1>1, <1>2, <1>6, StepFields DEF LinksInPlace, Fits
  <2>2. n.parent[t.link] = None
    BY <1>1, <2>1 DEF Rooted
  <2>3. ASSUME t.link \in m.up PROVE FALSE
    <3>1. /\ s.op \in {"up", "enslave", "join", "attach"}
          /\ t.link \in OnTop(n, s.link) \/ (t.link = s.link /\ s.op # "attach")
      BY <2>1, <2>3 DEF Changed
    <3>2. t.link \notin OnTop(n, s.link)
      BY <1>3, <2>2, <3>1, NameAssumption DEF OnTop
    <3> QED BY <1>6, <3>1, <3>2 DEF TakesBack
  <2> QED BY <2>3
<1>7. ASSUME t.op = "address" PROVE <<t.link, t.family>> \in m.addressed
  <2>1. <<t.link, t.family>> \in n.addressed /\ t.link \in n.present
    BY <1>7, NetFields DEF LinksInPlace
  <2>2. <<t.link, t.family>> \in AddressedBy(E)
    BY <1>7 DEF AddressedBy
  <2>3. t.link \in Usable(c, E)
    BY <2>2, WorkIsUsable
  <2>4. ASSUME <<t.link, t.family>> \notin m.addressed PROVE FALSE
    <3>1. /\ s.op \in {"down", "enslave", "attach"}
          /\ t.family = "v6" /\ t.link \in {s.link} \cup OnTop(n, s.link)
      BY <2>1, <2>4 DEF Changed
    <3>2. s.link \in Links
      BY <1>3, <3>1
    <3>3. CASE s.op = "down"
      <4>1. s.link \in Spare(c) /\ t.link # s.link
        BY <2>3, <3>3, NamesApart DEF Fits
      <4>2. t.link \notin OnTop(n, s.link)
        BY <2>1, <2>3, <3>2, <4>1, ParentsStay DEF Usable
      <4> QED BY <3>1, <4>1, <4>2
    <3>4. CASE s.op \in {"enslave", "attach"}
      <4>1. Carries(Plans[c], s.link, t.link)
        <5>1. CASE t.link = s.link
          BY <5>1 DEF Carries
        <5>2. CASE t.link \in OnTop(n, s.link)
          <6>1. n.parent[t.link] = s.link
            BY <5>2 DEF OnTop
          <6>2. t.link \in CreatedBy(E)
            BY <2>1, <2>3, <3>2, <6>1, ParentsStay, NameAssumption DEF Usable
          <6>3. PICK u \in E : u.op = "create" /\ u.link = t.link
            BY <6>2 DEF CreatedBy
          <6>4. u \in AllSteps("create") /\ u \in ToSet(Plans[c])
            BY <1>1, <6>3, PlanSteps DEF Sound
          <6>5. u.parent = s.link
            BY <2>1, <6>1, <6>3, <6>4 DEF Rooted
          <6> QED BY <6>3, <6>4, <6>5 DEF Carries
        <5> QED BY <3>1, <5>1, <5>2
      <4> QED BY <1>7, <3>1, <3>4, <4>1 DEF TakesBack
    <3> QED BY <3>1, <3>3, <3>4
  <2> QED BY <2>4
<1>8. ASSUME t.op \in {"enslave", "join", "attach"} PROVE m.master[t.link] = t.master
  <2>1. t.link \in Links /\ n.master[t.link] = t.master
    BY <1>1, <1>8, StepFields DEF LinksInPlace
  <2>2. \/ m.master[t.link] = n.master[t.link]
        \/ s.op \in {"enslave", "join", "attach"} /\ t.link = s.link /\ m.master[t.link] = s.master
    BY <2>1 DEF Changed
  <2> QED BY <1>8, <2>1, <2>2 DEF TakesBack
<1>9. ASSUME t.op = "route" PROVE m.routes[t.slot] = t.devs /\ t.devs \subseteq m.up
  <2>1. n.routes[t.slot] = t.devs /\ t.devs \subseteq n.up /\ t.slot \in Slots
    BY <1>1, <1>9 DEF LinksInPlace, Slots
  <2>2. ASSUME NEW d \in t.devs, s.op \in {"down", "enslave", "attach"}
        PROVE  d \notin {s.link} \cup OnTop(n, s.link)
    <3>1. s.link \in Links /\ d \in n.present
      BY <1>1, <1>3, <2>1, <2>2
    <3>2. d \notin OnTop(n, s.link) /\ d \notin Spare(c)
      BY <1>9, <3>1, RouteDevices
    <3>3. d # s.link
      BY <1>9, <2>2, <3>2 DEF Fits, TakesBack
    <3> QED BY <3>2, <3>3
  <2>3. t.devs \subseteq m.up
    BY <2>1, <2>2 DEF Changed
  <2>4. \/ m.routes[t.slot] = n.routes[t.slot]
        \/ s.op = "route" /\ t.slot = s.slot
        \/ /\ s.op \in {"down", "enslave", "attach"} /\ m.routes[t.slot] = {}
           /\ n.routes[t.slot] \cap (n.up \ ({s.link} \cup OnTop(n, s.link))) = {}
    BY <2>1 DEF Changed
  <2>5. m.routes[t.slot] = t.devs
    BY <1>9, <2>1, <2>2, <2>4 DEF TakesBack
  <2> QED BY <2>3, <2>5
<1> QED BY <1>4, <1>5, <1>6, <1>7, <1>8, <1>9 DEF LinksInPlace

LEMMA NewInPlace ==
  ASSUME NEW c \in ServedConfigs, Valid(c), NEW E, NEW s \in ToSet(Plans[c]), NEW L,
         Fits(c, E, s, L), NEW n, NEW m, NetOK(n), Rooted(n), Prepared(n, E),
         Changed(n, m, s), Asked(n, m, s), Grouped(n, m, s)
  PROVE  LinksInPlace(m, s)
<1>1. c \in Configs /\ Alike
  BY ServedFacts
<1>2. s.op = "create" => s \in AllSteps("create")
  BY <1>1, PlanSteps
<1>3. Rooted(m)
  BY <1>1, ChangedRooted
<1>4. s.op = "create" => s.link \in m.present /\ m.parent[s.link] = s.parent
  BY <1>2, <1>3 DEF Asked, Rooted
<1>5. s.op \in {"enslave", "join", "attach"} =>
        s.master \in n.present /\ (s.op # "attach" => s.link \in Ethernet)
  BY DEF Fits, Prepared
<1> QED BY <1>4, <1>5 DEF Asked, Grouped, LinksInPlace

(* Of the steps before the k-th of a plan, each is in place or a later one *)
(* took it back.                                                           *)
Overruled(P, i, k) == \E j \in i + 1 .. k - 1 : TakesBack(P, P[j], P[i])
Configured ==
  phase \in {"applying", "done"} /\ ~upset /\ config \in ServedConfigs =>
    \A i \in 1 .. pos - 1 :
      \/ LinksInPlace(net, Plans[config][i]) /\ UnitsInPlace(Plans[config][i])
      \/ Overruled(Plans[config], i, pos)

LEMMA OverruledMore ==
  ASSUME NEW P, NEW k \in Nat, NEW i \in 1 .. k - 1
  PROVE  /\ Overruled(P, i, k) => Overruled(P, i, k + 1)
         /\ TakesBack(P, P[k], P[i]) => Overruled(P, i, k + 1)
<1>1. i + 1 .. k - 1 \subseteq i + 1 .. (k + 1) - 1 /\ k \in i + 1 .. (k + 1) - 1
  OBVIOUS
<1> QED BY <1>1 DEF Overruled

(* A step that is about units and files.                                   *)
LEMMA UnitsStay ==
  ASSUME Sane, RunStep, NEW t \in PlanStep, UnitsInPlace(t), ~TakesBack(Plans[config], Step, t)
  PROVE  UnitsInPlace(t)'
<1>1. /\ UnitsOK /\ Step \in PlanStep
      /\ t.op = "write" => t.path \in Paths
      /\ Step.op = "start" => Step.unit \in Units
  BY RunStepFrame, StepContext, TypeParts, StepFields DEF Sane, AllOK
<1>2. CASE WriteProfile
  <2>1. /\ Step.op = "write" /\ running' = running /\ enabled' = enabled
        /\ files' = [files EXCEPT ![Step.path] = Step.profile]
    BY <1>2, RunStepFrame DEF WriteProfile
  <2>2. t.op = "write" => t.path # Step.path
    BY <2>1 DEF TakesBack
  <2> QED BY <1>1, <2>1, <2>2 DEF UnitsInPlace, Running, UnitsOK
<1>3. CASE StartUnit
  <2>1. /\ Step.op = "start" /\ files' = files /\ enabled' = enabled \cup {Step.unit}
        /\ running' = [running EXCEPT ![Step.unit] =
                         IF @ = Stopped THEN [p \in ProfilesOf(Step.unit) |-> files[p]] ELSE @]
    BY <1>3, RunStepFrame DEF StartUnit
  <2>2. Running \subseteq Running'
    BY <1>1, <2>1 DEF Running, UnitsOK
  <2> QED BY <2>1, <2>2 DEF UnitsInPlace
<1>4. CASE UNCHANGED units
  BY <1>4 DEF UnitsInPlace, units, Running
<1> QED BY <1>2, <1>3, <1>4, RunStepFrame

LEMMA UnitsDone ==
  ASSUME Sane, RunStep, NEW s, s = Step
  PROVE  UnitsInPlace(s)'
<1>1. /\ UnitsOK /\ s \in PlanStep
      /\ s.op = "write" => s.path \in Paths
      /\ s.op = "start" => s.unit \in Units
  BY RunStepFrame, StepContext, TypeParts, StepFields DEF Sane, AllOK
<1>2. CASE WriteProfile
  <2>1. s.op = "write" /\ files' = [files EXCEPT ![s.path] = s.profile]
    BY <1>2, RunStepFrame DEF WriteProfile
  <2>2. files'[s.path] = s.profile
    BY <1>1, <2>1 DEF UnitsOK
  <2> QED BY <2>1, <2>2 DEF UnitsInPlace
<1>3. CASE StartUnit
  <2>1. /\ s.op = "start" /\ enabled' = enabled \cup {s.unit}
        /\ running' = [running EXCEPT ![s.unit] =
                         IF @ = Stopped THEN [p \in ProfilesOf(s.unit) |-> files[p]] ELSE @]
    BY <1>3, RunStepFrame DEF StartUnit
  <2>2. [p \in ProfilesOf(s.unit) |-> files[p]] \in [ProfilesOf(s.unit) -> Profile \cup {None}]
    BY <1>1 DEF UnitsOK, ProfilesOf
  <2>3. [p \in ProfilesOf(s.unit) |-> files[p]] # Stopped
    BY <1>1, <2>1, <2>2, ConfigAssumption DEF ProfilesOf
  <2>4. s.unit \in Running'
    BY <1>1, <2>1, <2>3 DEF Running, UnitsOK
  <2> QED BY <2>1, <2>4 DEF UnitsInPlace
<1>4. CASE s.op \notin {"write", "start"}
  BY <1>4 DEF UnitsInPlace
<1> QED BY <1>2, <1>3, <1>4, RunStepFrame

LEMMA ConfiguredStep ==
  ASSUME Sane, Supplies, Alike => Rooted(net), Ready, Configured, [Next]_vars
  PROVE  Configured'
<1>1. NetOK(net) /\ UnitsOK
  BY TypeParts DEF Sane, AllOK
<1>2. ASSUME NEW c \in Configs, Apply(c) PROVE Configured'
  <2>1. pos' = 1
    BY <1>2 DEF Apply
  <2>2. 1 .. 1 - 1 = {}
    OBVIOUS
  <2> QED BY <2>1, <2>2 DEF Configured
<1>3. CASE RunStep
  <2>1. /\ phase = "applying" /\ pos <= Len(Plans[config])
        /\ config' = config /\ phase' = phase /\ pos' = pos + 1 /\ upset' = upset
    BY <1>3, RunStepFrame
  <2> DEFINE P == Plans[config]
             E == Before(P, pos)
  <2> SUFFICES ASSUME config \in ServedConfigs, ~upset, NEW i \in 1 .. (pos + 1) - 1,
                      NEW t, t = Plans[config][i]
               PROVE  \/ LinksInPlace(net', t) /\ UnitsInPlace(t)'
                      \/ Overruled(P, i, pos + 1)
    BY <2>1 DEF Configured, UnitsInPlace
  <2>2. /\ config \in Configs /\ Valid(config) /\ Step = P[pos] /\ Step \in PlanStep
        /\ pos \in 1 .. Len(P) /\ Len(P) \in Nat /\ pos \in Nat /\ i \in 1 .. pos
        /\ Step.op = "route" => Step.slot \in Slots
        /\ Fits(config, E, Step, After(P, pos))
    BY <2>1, StepContext
  <2>3. /\ \A j \in 1 .. Len(P) : P[j] \in PlanStep /\ P[j] \in ToSet(P)
        /\ Step \in ToSet(P)
    BY <2>2, StepsFit
  <2>4. Rooted(net) /\ Prepared(net, E) /\ Sound(config, E)
    BY <2>1, <2>2, ServedFacts, BeforeIsSound DEF Ready
  <2>5. \/ LinkStep /\ Changed(net, net', Step) /\ Asked(net, net', Step)
             /\ Grouped(net, net', Step)
        \/ /\ Step.op \in {"write", "start", "certbot", "conntrack", "load"} /\ UNCHANGED net
    <3>1. CASE LinkStep
      BY <1>1, <2>2, <3>1, LinkStepChanges
    <3> QED BY <1>3, <3>1, RunStepFrame DEF RunStep
  <2>6. CASE i = pos
    <3>1. t = Step
      BY <2>2, <2>6
    <3>2. UnitsInPlace(t)'
      BY <1>3, <3>1, UnitsDone
    <3>3. LinksInPlace(net', t)
      <4>1. CASE Step.op \in {"write", "start", "certbot", "conntrack", "load"}
        BY <3>1, <4>1 DEF LinksInPlace
      <4>2. CASE Changed(net, net', Step) /\ Asked(net, net', Step) /\ Grouped(net, net', Step)
        <5> HIDE DEF P, E
        <5>1. LinksInPlace(net', Step)
          BY <1>1, <2>2, <2>3, <2>4, <4>2, NewInPlace DEF P
        <5> QED BY <3>1, <5>1
      <4> QED BY <2>5, <4>1, <4>2
    <3> QED BY <3>2, <3>3
  <2>7. CASE i # pos
    <3>1. i \in 1 .. pos - 1 /\ i \in 1 .. Len(P)
      BY <2>2, <2>7
    <3>2. t \in PlanStep /\ t \in E
      BY <2>3, <3>1 DEF Before
    <3>3. CASE Overruled(P, i, pos)
      BY <2>2, <3>1, <3>3, OverruledMore
    <3>4. CASE TakesBack(P, Step, t)
      <4> HIDE DEF P
      <4> QED BY <2>2, <3>1, <3>4, OverruledMore DEF P
    <3>5. CASE LinksInPlace(net, t) /\ UnitsInPlace(t) /\ ~TakesBack(P, Step, t)
      <4>1. UnitsInPlace(t)'
        BY <1>3, <3>2, <3>5, UnitsStay
      <4>2. LinksInPlace(net', t)
        <5>1. CASE UNCHANGED net
          BY <3>5, <5>1
        <5>2. CASE Changed(net, net', Step)
          <6> HIDE DEF E
          <6> QED BY <1>1, <2>2, <2>3, <2>4, <3>2, <3>5, <5>2, KeptInPlace
        <5> QED BY <2>5, <5>1, <5>2
      <4> QED BY <4>1, <4>2
    <3>6. \/ LinksInPlace(net, t) /\ UnitsInPlace(t)
          \/ Overruled(P, i, pos)
      BY <2>1, <3>1 DEF Configured
    <3> QED BY <3>3, <3>4, <3>5, <3>6
  <2> QED BY <2>6, <2>7
<1>4. ASSUME NEW l \in Links, Appear(l) PROVE Configured'
  <2>1. UNCHANGED <<config, phase, pos, files, enabled, running, upset>>
    BY <1>4 DEF Appear, lasd, units, notes
  <2>2. /\ l \notin net.present /\ net'.present = net.present \cup {l} /\ net'.up = net.up \cup {l}
        /\ net.addressed \subseteq net'.addressed /\ net'.parent = net.parent
        /\ net'.master = net.master /\ net'.routes = net.routes
    BY <1>1, <1>4, AppearChanges
  <2> SUFFICES ASSUME phase \in {"applying", "done"}, config \in ServedConfigs, ~upset,
                      NEW i \in 1 .. pos - 1, NEW t, t = Plans[config][i],
                      LinksInPlace(net, t) /\ UnitsInPlace(t)
               PROVE  LinksInPlace(net', t) /\ UnitsInPlace(t)'
    BY <2>1 DEF Configured, UnitsInPlace, Running
  <2>3. UnitsInPlace(t)'
    BY <2>1 DEF UnitsInPlace, Running
  <2>4. config \in Configs /\ pos \in 1 .. Len(Plans[config]) + 1 /\ Len(Plans[config]) \in Nat
    BY ServedFacts, StepsFit, ConfigAssumption DEF Sane, TypeOK
  <2>5. i \in 1 .. Len(Plans[config])
    BY <2>4
  <2>6. t.op = "down" => t.link \in Spare(config)
    BY <2>4, <2>5, StepsFit DEF Fits
  <2>7. Spare(config) \subseteq net.present
    <3>1. Spare(config) \subseteq Physical
      BY SpareIsPhysical
    <3> QED BY <3>1, ServedFacts DEF Rooted
  <2>8. LinksInPlace(net', t)
    BY <2>2, <2>6, <2>7 DEF LinksInPlace
  <2> QED BY <2>3, <2>8
<1>5. ASSUME NEW l \in Links, Vanish(l) PROVE Configured'
  BY <1>5 DEF Vanish, Configured
<1>9. Slip => Configured'
  BY DEF Slip, Configured
<1>6. CASE Refused \/ Fail \/ Boot
  BY <1>6 DEF Refused, Fail, Boot, Configured
<1>7. CASE Finish
  <2>1. UNCHANGED <<config, pos, net, files, enabled, running, upset>> /\ phase = "applying"
    BY <1>7 DEF Finish, units, notes
  <2> QED BY <2>1 DEF Configured, UnitsInPlace, Running
<1>8. CASE UNCHANGED vars
  BY <1>8 DEF vars, Configured, UnitsInPlace, Running
<1> QED BY <1>2, <1>3, <1>4, <1>5, <1>6, <1>7, <1>8, <1>9 DEF Next

(* An apply that reports success has configured the host: what each step   *)
(* asked for is there, unless a later step took it back, on top of         *)
(* whatever earlier plans, complete or not, left (executor.go:16-61).      *)
THEOREM SuccessMeansConfigured == Spec => []AppliedMeansConfigured
<1> DEFINE Inv == Sane /\ Supplies /\ (Alike => Rooted(net)) /\ Ready /\ Configured
<1>1. Init => Inv
  <2>1. Init => (Alike => Rooted(net)) /\ Ready /\ Configured
    BY BootedRooted DEF Init, Ready, Configured
  <2> QED BY <2>1, InitSane, InitSupplies
<1>2. Inv /\ [Next]_vars => Inv'
  BY SaneStep, SuppliesStep, RootedStep, ReadyStep, ConfiguredStep
<1>3. Inv => AppliedMeansConfigured
  <2> DEFINE P == Plans[config]
  <2> SUFFICES ASSUME Inv, phase = "done", ~upset, config \in ServedConfigs, NEW i \in DOMAIN P
               PROVE  InPlace(P[i]) \/ \E j \in i + 1 .. Len(P) : TakesBack(P, P[j], P[i])
    BY DEF AppliedMeansConfigured
  <2>1. config \in Configs /\ pos = Len(P) + 1 /\ Len(P) \in Nat /\ DOMAIN P = 1 .. Len(P)
    BY ServedFacts, StepsFit DEF Sane
  <2>2. i \in 1 .. pos - 1 /\ pos - 1 = Len(P)
    BY <2>1
  <2>3. \/ LinksInPlace(net, P[i]) /\ UnitsInPlace(P[i])
        \/ Overruled(P, i, pos)
    BY <2>2 DEF Configured
  <2> HIDE DEF P
  <2>4. LinksInPlace(net, P[i]) /\ UnitsInPlace(P[i]) => InPlace(P[i])
    BY DEF LinksInPlace, UnitsInPlace, InPlace
  <2> QED BY <2>2, <2>3, <2>4 DEF Overruled
<1> QED BY <1>1, <1>2, <1>3, PTL DEF Spec

=============================================================================
