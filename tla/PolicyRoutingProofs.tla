------------------------- MODULE PolicyRoutingProofs -------------------------
(***************************************************************************)
(* Proofs about PolicyRouting: the rendered expressions of a rule match    *)
(* what its fields say, for every address, port and packet; and a rule     *)
(* priority never has two entries, however applies are cut short.          *)
(***************************************************************************)
EXTENDS PolicyRouting, TLAPS

-----------------------------------------------------------------------------
(* One entry per priority.                                                 *)

(* Commands are run from the first to the last: what is left is the rest   *)
(* of the plan, and a priority that is to be filled next has been emptied. *)
RestOfPlan ==
  /\ phase = "applying" =>
       /\ config \in Configs
       /\ todo \subseteq Commands(config)
       /\ \A x \in Commands(config), y \in todo : Before(y.at, x.at) => x \in todo
  /\ phase # "applying" => todo = {}

Emptied ==
  \A x \in todo : x.op = "rule" =>
    \/ \E y \in todo : /\ y.op = "unrule" /\ y.priority = x.rule.priority
                       /\ Before(y.at, x.at)
    \/ \A r \in rules : r.priority # x.rule.priority

RuleInv == RestOfPlan /\ Emptied /\ OneRulePerPriority

(* The command that empties a priority stands right before the one that    *)
(* fills it, and no other command has their place.                         *)
LEMMA RulePairs ==
  ASSUME NEW c \in Configs, NEW x \in Commands(c), x.op = "rule"
  PROVE  \E i \in Nat :
           /\ x.rule.priority \in Nat
           /\ x.at = <<4, x.rule.priority, 2 * i + 1>>
           /\ x = [at |-> x.at, op |-> "rule", rule |->
                     [priority |-> x.rule.priority,
                      mark |-> Resolve(c, c.rules[i].action, "mark"),
                      table |-> Resolve(c, c.rules[i].action, "table")]]
           /\ [at |-> <<4, x.rule.priority, 2 * i>>, op |-> "unrule",
               priority |-> x.rule.priority] \in Commands(c)
  <1>1. x \in RuleCommands(c)
    BY DEF Commands, TunnelRoutes, WANGroupRoutes, GroupRoutes, StaticRoutes, RouteCommand
  <1>2. PICK i \in DOMAIN c.rules :
          /\ x = [at |-> <<4, c.rules[i].priority, 2 * i + 1>>, op |-> "rule",
                  rule |-> [priority |-> c.rules[i].priority,
                            mark |-> Resolve(c, c.rules[i].action, "mark"),
                            table |-> Resolve(c, c.rules[i].action, "table")]]
          /\ [at |-> <<4, c.rules[i].priority, 2 * i>>, op |-> "unrule",
              priority |-> c.rules[i].priority] \in RuleCommands(c)
    BY <1>1 DEF RuleCommands
  <1>3. /\ c.rules \in Seq(Rule)
        /\ i \in Nat
    BY ConfigAssumption DEF Config
  <1>4. c.rules[i] \in Rule
    BY <1>3
  <1>5. c.rules[i].priority \in Nat
    BY <1>4 DEF Rule
  <1> QED
    BY <1>2, <1>3, <1>5 DEF Commands

LEMMA CommandsAreOrdered ==
  ASSUME NEW c \in Configs, NEW x \in Commands(c), x.op \in {"rule", "unrule"}
  PROVE  x.at \in {4} \X Nat \X Nat
  <1>1. x \in RuleCommands(c)
    BY DEF Commands, TunnelRoutes, WANGroupRoutes, GroupRoutes, StaticRoutes, RouteCommand
  <1>2. PICK i \in DOMAIN c.rules :
          x.at \in {<<4, c.rules[i].priority, 2 * i>>, <<4, c.rules[i].priority, 2 * i + 1>>}
    BY <1>1 DEF RuleCommands
  <1>3. /\ c.rules \in Seq(Rule)
        /\ i \in Nat
    BY ConfigAssumption DEF Config
  <1>4. c.rules[i] \in Rule
    BY <1>3
  <1>5. c.rules[i].priority \in Nat
    BY <1>4 DEF Rule
  <1> QED
    BY <1>2, <1>3, <1>5

LEMMA RuleInvInit == Init => RuleInv
  BY DEF Init, RuleInv, RestOfPlan, Emptied, OneRulePerPriority

LEMMA RunCommandKeeps ==
  ASSUME RuleInv, RunCommand
  PROVE  RuleInv'
  <1>1. PICK x \in Firsts(todo) :
          /\ InstallRoute(x) \/ DeleteRule(x) \/ AddRule(x)
          /\ todo' = todo \ {x}
    BY DEF RunCommand
  <1>2. /\ x \in todo
        /\ \A y \in todo : ~Before(y.at, x.at)
    BY DEF Firsts
  <1>3. /\ config \in Configs
        /\ todo \subseteq Commands(config)
        /\ \A w \in Commands(config), y \in todo : Before(y.at, w.at) => w \in todo
    BY DEF RunCommand, RuleInv, RestOfPlan
  <1>4. RestOfPlan'
    <2>1. UNCHANGED <<config, phase>> /\ phase = "applying"
      BY DEF RunCommand
    <2>2. \A w \in Commands(config), y \in todo' : Before(y.at, w.at) => w \in todo'
      BY <1>1, <1>2, <1>3
    <2> QED
      BY <1>1, <1>3, <2>1, <2>2 DEF RestOfPlan
  <1>5. CASE InstallRoute(x)
    <2>1. UNCHANGED rules /\ x.op = "route"
      BY <1>5 DEF InstallRoute
    <2>2. Emptied'
      BY <1>1, <2>1 DEF RuleInv, Emptied
    <2> QED
      BY <1>4, <2>1, <2>2 DEF RuleInv, OneRulePerPriority
  <1>6. CASE DeleteRule(x)
    <2>1. /\ x.op = "unrule"
          /\ rules' \subseteq rules
          /\ \A r \in rules' : r.priority # x.priority
      BY <1>6 DEF DeleteRule, RuleInv, OneRulePerPriority
    <2>2. Emptied'
      BY <1>1, <2>1 DEF RuleInv, Emptied
    <2> QED
      BY <1>4, <2>1, <2>2 DEF RuleInv, OneRulePerPriority
  <1>7. CASE AddRule(x)
    <2>1. /\ x.op = "rule"
          /\ rules' = rules \cup {x.rule}
      BY <1>7 DEF AddRule
    <2>2. \A r \in rules : r.priority # x.rule.priority
      BY <1>2, <2>1 DEF RuleInv, Emptied
    <2>3. ASSUME NEW z \in todo', z.op = "rule"
          PROVE  \/ \E y \in todo' : /\ y.op = "unrule" /\ y.priority = z.rule.priority
                                     /\ Before(y.at, z.at)
                 \/ \A r \in rules' : r.priority # z.rule.priority
      <3>1. CASE z.rule.priority # x.rule.priority
        BY <1>1, <2>1, <2>3, <3>1 DEF RuleInv, Emptied
      <3>2. CASE z.rule.priority = x.rule.priority
        <4>1. z \in Commands(config) /\ x \in Commands(config) /\ z # x
          BY <1>1, <1>2, <1>3, <2>3
        <4>2. PICK i \in Nat :
                /\ x.rule.priority \in Nat
                /\ x.at = <<4, x.rule.priority, 2 * i + 1>>
                /\ x = [at |-> x.at, op |-> "rule", rule |->
                          [priority |-> x.rule.priority,
                           mark |-> Resolve(config, config.rules[i].action, "mark"),
                           table |-> Resolve(config, config.rules[i].action, "table")]]
          BY <1>3, <2>1, <4>1, RulePairs, ZenonT(40)
        <4>3. PICK j \in Nat :
                /\ z.at = <<4, z.rule.priority, 2 * j + 1>>
                /\ z = [at |-> z.at, op |-> "rule", rule |->
                          [priority |-> z.rule.priority,
                           mark |-> Resolve(config, config.rules[j].action, "mark"),
                           table |-> Resolve(config, config.rules[j].action, "table")]]
                /\ [at |-> <<4, z.rule.priority, 2 * j>>, op |-> "unrule",
                    priority |-> z.rule.priority] \in Commands(config)
          BY <1>3, <2>3, <4>1, RulePairs
        <4>4. i # j
          BY <3>2, <4>1, <4>2, <4>3
        <4>5. ~Before(z.at, x.at)
          BY <1>1, <1>2, <2>3
        <4>6. i < j
          BY <3>2, <4>2, <4>3, <4>4, <4>5 DEF Before
        <4> DEFINE u == [at |-> <<4, z.rule.priority, 2 * j>>, op |-> "unrule",
                         priority |-> z.rule.priority]
        <4>7. Before(x.at, u.at) /\ Before(u.at, z.at)
          BY <3>2, <4>2, <4>3, <4>6 DEF Before
        <4>8. u \in todo'
          BY <1>1, <1>2, <1>3, <2>1, <4>3, <4>7
        <4> QED
          BY <4>7, <4>8
      <3> QED
        BY <3>1, <3>2
    <2>4. Emptied'
      BY <2>3 DEF Emptied
    <2>5. OneRulePerPriority'
      BY <2>1, <2>2 DEF RuleInv, OneRulePerPriority
    <2> QED
      BY <1>4, <2>4, <2>5 DEF RuleInv
  <1> QED
    BY <1>1, <1>5, <1>6, <1>7

(* What is applied is one of the configurations.                           *)
LEMMA AppliesAConfig ==
  ASSUME NEW H \in Histories, seen \subseteq H, \E c \in H : Apply(c)
  PROVE  \E c \in Configs : Apply(c)
  BY DEF Configs

(* A new plan starts with all its commands: every priority it fills it     *)
(* empties first.                                                          *)
LEMMA ApplyKeeps ==
  ASSUME RuleInv, NEW c \in Configs, Apply(c)
  PROVE  RuleInv'
  <1>1. /\ config' = c
        /\ todo' = Commands(c)
        /\ phase' = "applying"
        /\ UNCHANGED rules
    BY DEF Apply
  <1>2. ASSUME NEW x \in Commands(c), x.op = "rule"
        PROVE  \E y \in Commands(c) : /\ y.op = "unrule" /\ y.priority = x.rule.priority
                                      /\ Before(y.at, x.at)
    <2>1. PICK i \in Nat :
            /\ x.rule.priority \in Nat
            /\ x.at = <<4, x.rule.priority, 2 * i + 1>>
            /\ [at |-> <<4, x.rule.priority, 2 * i>>, op |-> "unrule",
                priority |-> x.rule.priority] \in Commands(c)
      BY <1>2, RulePairs
    <2> QED
      BY <2>1 DEF Before
  <1> QED
    BY <1>1, <1>2 DEF RuleInv, RestOfPlan, Emptied, OneRulePerPriority

LEMMA RuleInvStep == RuleInv /\ [Next]_vars => RuleInv'
  <1> SUFFICES ASSUME RuleInv, [Next]_vars
               PROVE  RuleInv'
    OBVIOUS
  <1>1. CASE \E c \in Configs : Apply(c)
    BY <1>1, ApplyKeeps
  <1>2. CASE RunCommand
    BY <1>2, RunCommandKeeps
  <1>3. CASE DropPolicy
    BY <1>3 DEF DropPolicy, RuleInv, RestOfPlan, Emptied, OneRulePerPriority
  <1>4. CASE LoadPolicy
    BY <1>4 DEF LoadPolicy, RuleInv, RestOfPlan, Emptied, OneRulePerPriority
  <1>5. CASE Abort
    BY <1>5 DEF Abort, RuleInv, RestOfPlan, Emptied, OneRulePerPriority
  <1>6. CASE Boot
    BY <1>6 DEF Boot, RuleInv, RestOfPlan, Emptied, OneRulePerPriority
  <1>7. CASE UNCHANGED vars
    BY <1>7 DEF vars, RuleInv, RestOfPlan, Emptied, OneRulePerPriority
  <1> QED
    BY <1>1, <1>2, <1>3, <1>4, <1>5, <1>6, <1>7, AppliesAConfig DEF Next

(* For every set of configurations and however applies end, a priority has *)
(* at most one `ip rule` entry, so that the next apply's delete leaves     *)
(* none (builder.go: addRoutingPlan).                                      *)
THEOREM OneRule == Spec => []OneRulePerPriority
  <1>1. RuleInv => OneRulePerPriority
    BY DEF RuleInv
  <1> QED
    BY <1>1, RuleInvInit, RuleInvStep, PTL DEF Spec
-----------------------------------------------------------------------------
(* What a rule renders is what its fields say.                             *)

Packet(pkt) ==
  /\ {pkt.src, pkt.dst} \subseteq Addr4 \/ {pkt.src, pkt.dst} \subseteq Addr6
  /\ {pkt.sport, pkt.dport} # {None} => pkt.proto \in {"tcp", "udp"}
  /\ pkt.iif # None

LEMMA ConditionIsExact ==
  ASSUME NEW pkt, NEW f, NEW S
  PROVE  Satisfies(pkt, {Condition(f, S)}) <=> pkt[f] \in S
  <1>1. Condition(f, S).field = f /\ Condition(f, S).in = S
    BY DEF Condition
  <1>2. Satisfies(pkt, {Condition(f, S)}) <=>
          pkt[Condition(f, S).field] \in Condition(f, S).in
    BY DEF Satisfies
  <1> QED
    BY <1>1, <1>2

LEMMA GivenIsExact ==
  ASSUME NEW pkt, NEW f, NEW S
  PROVE  Satisfies(pkt, Given(f, S)) <=> S = {} \/ pkt[f] \in S
  BY ConditionIsExact DEF Given, Satisfies

LEMMA BothAreExact ==
  ASSUME NEW pkt, NEW S, NEW T
  PROVE  Satisfies(pkt, S \cup T) <=> Satisfies(pkt, S) /\ Satisfies(pkt, T)
  BY DEF Satisfies

LEMMA BaseIsExact ==
  ASSUME NEW m \in Match, NEW pkt, pkt.iif # None, m.oif = None \/ pkt.oif # None
  PROVE  Satisfies(pkt, BaseExpr(m)) <=>
           /\ m.iif \in {None, pkt.iif}
           /\ m.oif \in {None, pkt.oif}
           /\ m.protos = {} \/ pkt.proto \in m.protos
  <1>1. Satisfies(pkt, Named("iif", m.iif)) <=> m.iif \in {None, pkt.iif}
    BY GivenIsExact DEF Named
  <1>2. Satisfies(pkt, Named("oif", m.oif)) <=> m.oif \in {None, pkt.oif}
    BY GivenIsExact DEF Named
  <1>3. Satisfies(pkt, Given("proto", m.protos)) <=> m.protos = {} \/ pkt.proto \in m.protos
    BY GivenIsExact
  <1> DEFINE links == Named("iif", m.iif) \cup Named("oif", m.oif)
  <1>4. Satisfies(pkt, links) <=>
          m.iif \in {None, pkt.iif} /\ m.oif \in {None, pkt.oif}
    BY <1>1, <1>2, BothAreExact
  <1>5. BaseExpr(m) = links \cup Given("proto", m.protos)
    BY DEF BaseExpr
  <1>6. Satisfies(pkt, BaseExpr(m)) <=>
          Satisfies(pkt, links) /\ Satisfies(pkt, Given("proto", m.protos))
    BY <1>5, BothAreExact
  <1> QED
    BY <1>3, <1>4, <1>6

LEMMA FamilyIsExact ==
  ASSUME NEW m \in Match, NEW pkt, NEW F, {pkt.src, pkt.dst} \subseteq F
  PROVE  Satisfies(pkt, FamilyExpr(m, F)) <=>
           /\ m.src \cap F = {} \/ pkt.src \in m.src
           /\ m.dst \cap F = {} \/ pkt.dst \in m.dst
  <1>1. Satisfies(pkt, Given("src", m.src \cap F)) <=> m.src \cap F = {} \/ pkt.src \in m.src
    BY GivenIsExact
  <1>2. Satisfies(pkt, Given("dst", m.dst \cap F)) <=> m.dst \cap F = {} \/ pkt.dst \in m.dst
    BY GivenIsExact
  <1> QED
    BY <1>1, <1>2, BothAreExact DEF FamilyExpr

(* An expression of one family and a packet of the other.                  *)
LEMMA OtherFamily ==
  ASSUME NEW m \in Match, NEW pkt, NEW F, NEW G, F \cap G = {},
         {pkt.src, pkt.dst} \subseteq F, FamilyExpr(m, G) # {}
  PROVE  ~Satisfies(pkt, FamilyExpr(m, G))
  <1>1. Satisfies(pkt, FamilyExpr(m, G)) <=>
          /\ m.src \cap G = {} \/ pkt.src \in m.src \cap G
          /\ m.dst \cap G = {} \/ pkt.dst \in m.dst \cap G
    <2>1. Satisfies(pkt, Given("src", m.src \cap G)) <=>
            m.src \cap G = {} \/ pkt.src \in m.src \cap G
      BY GivenIsExact
    <2>2. Satisfies(pkt, Given("dst", m.dst \cap G)) <=>
            m.dst \cap G = {} \/ pkt.dst \in m.dst \cap G
      BY GivenIsExact
    <2> QED
      BY <2>1, <2>2, BothAreExact DEF FamilyExpr
  <1>2. m.src \cap G # {} \/ m.dst \cap G # {}
    BY DEF FamilyExpr, Given
  <1> QED
    BY <1>1, <1>2

LEMMA CIDRsAreExact ==
  ASSUME NEW m \in Match, NEW pkt, Packet(pkt),
         m.src # {} /\ m.dst # {} =>
           \A F \in {Addr4, Addr6} : (m.src \cap F = {}) <=> (m.dst \cap F = {})
  PROVE  (\E e \in OrAny(CombineCIDRs(m)) : Satisfies(pkt, e)) <=>
           /\ m.src = {} \/ pkt.src \in m.src
           /\ m.dst = {} \/ pkt.dst \in m.dst
  <1>1. PICK F \in {Addr4, Addr6}, G \in {Addr4, Addr6} :
          /\ {Addr4, Addr6} = {F, G}
          /\ F \cap G = {}
          /\ {pkt.src, pkt.dst} \subseteq F
    BY AddressAssumption DEF Packet
  <1>2. CombineCIDRs(m) = {FamilyExpr(m, F), FamilyExpr(m, G)} \ {{}}
    BY <1>1 DEF CombineCIDRs
  <1>3. /\ (FamilyExpr(m, F) = {}) <=> (m.src \cap F = {} /\ m.dst \cap F = {})
        /\ (FamilyExpr(m, G) = {}) <=> (m.src \cap G = {} /\ m.dst \cap G = {})
    BY DEF FamilyExpr, Given
  <1>4. /\ m.src \subseteq F \cup G
        /\ m.dst \subseteq F \cup G
    BY <1>1 DEF Match
  <1>5. FamilyExpr(m, G) # {} => ~Satisfies(pkt, FamilyExpr(m, G))
    BY <1>1, OtherFamily
  <1>6. Satisfies(pkt, FamilyExpr(m, F)) <=>
          /\ m.src \cap F = {} \/ pkt.src \in m.src
          /\ m.dst \cap F = {} \/ pkt.dst \in m.dst
    BY <1>1, FamilyIsExact
  <1>7. Satisfies(pkt, {})
    BY DEF Satisfies
  <1>8. CASE CombineCIDRs(m) = {}
    <2>1. m.src = {} /\ m.dst = {}
      BY <1>2, <1>3, <1>4, <1>8
    <2> QED
      BY <1>7, <1>8, <2>1 DEF OrAny
  <1>9. CASE CombineCIDRs(m) # {}
    <2>1. (\E e \in OrAny(CombineCIDRs(m)) : Satisfies(pkt, e)) <=>
            (FamilyExpr(m, F) # {} /\ Satisfies(pkt, FamilyExpr(m, F)))
      BY <1>2, <1>5, <1>9 DEF OrAny
    <2>2. CASE FamilyExpr(m, F) # {}
      <3>1. (m.src \cap F = {}) <=> (m.src = {})
        BY <1>1, <1>3, <1>4, <2>2
      <3>2. (m.dst \cap F = {}) <=> (m.dst = {})
        BY <1>1, <1>3, <1>4, <2>2
      <3> QED
        BY <1>6, <2>1, <2>2, <3>1, <3>2
    <2>3. CASE FamilyExpr(m, F) = {}
      <3>1. m.src # {} \/ m.dst # {}
        BY <1>2, <1>3, <1>9, <2>3
      <3>2. pkt.src \notin m.src /\ pkt.dst \notin m.dst
        BY <1>1, <1>3, <2>3
      <3> QED
        BY <2>1, <2>3, <3>1, <3>2
    <2> QED
      BY <2>2, <2>3
  <1> QED
    BY <1>8, <1>9

LEMMA SetsAreExact ==
  ASSUME NEW c \in Config, NEW m \in Match, NEW pkt, Packet(pkt),
         m.sets # {} => \E s \in ReferencedSets(c, m) : s.cidrs # {},
         m.sets = {} => ReferencedSets(c, m) = {},
         \A s \in ReferencedSets(c, m) : s.cidrs \subseteq Addr4 \cup Addr6
  PROVE  (\E e \in OrAny(SetExprs(c, m)) : Satisfies(pkt, e)) <=>
           m.sets = {} \/ \E s \in ReferencedSets(c, m) : pkt.dst \in s.cidrs
  <1>1. \A S : Satisfies(pkt, {Condition("dst", S)}) <=> pkt.dst \in S
    BY ConditionIsExact
  <1>2. ASSUME NEW s, NEW F
        PROVE  Satisfies(pkt, SetExpr(s, F)) <=> pkt.dst \in s.cidrs \cap F
    BY <1>1 DEF SetExpr
  <1>3. Satisfies(pkt, {})
    BY DEF Satisfies
  <1>4. CASE m.sets = {}
    <2>1. SetExprs(c, m) = {}
      BY <1>4 DEF SetExprs, RenderedSets
    <2> QED
      BY <1>3, <1>4, <2>1 DEF OrAny
  <1>5. CASE m.sets # {}
    <2>1. PICK s \in ReferencedSets(c, m), F \in {Addr4, Addr6} : s.cidrs \cap F # {}
      BY <1>5
    <2>2. SetExpr(s, F) \in SetExprs(c, m)
      <3>1. <<s, F>> \in ReferencedSets(c, m) \X {Addr4, Addr6}
        OBVIOUS
      <3> QED
        BY <2>1, <3>1 DEF SetExprs, RenderedSets
    <2>3. OrAny(SetExprs(c, m)) = SetExprs(c, m)
      BY <2>2 DEF OrAny
    <2>4. ASSUME NEW e \in SetExprs(c, m), Satisfies(pkt, e)
          PROVE  \E t \in ReferencedSets(c, m) : pkt.dst \in t.cidrs
      <3>1. PICK t \in ReferencedSets(c, m), G \in {Addr4, Addr6} :
              e = SetExpr(t, G)
        BY <2>4 DEF SetExprs, RenderedSets
      <3> QED
        BY <1>2, <2>4, <3>1
    <2>5. ASSUME NEW t \in ReferencedSets(c, m), pkt.dst \in t.cidrs
          PROVE  \E e \in SetExprs(c, m) : Satisfies(pkt, e)
      <3>1. PICK G \in {Addr4, Addr6} : pkt.dst \in t.cidrs \cap G
        BY <2>5 DEF Packet
      <3>2. <<t, G>> \in ReferencedSets(c, m) \X {Addr4, Addr6}
        OBVIOUS
      <3>3. SetExpr(t, G) \in SetExprs(c, m)
        BY <3>1, <3>2 DEF SetExprs, RenderedSets
      <3> QED
        BY <1>2, <3>1, <3>3
    <2> QED
      BY <1>5, <2>3, <2>4, <2>5
  <1> QED
    BY <1>4, <1>5

LEMMA PortsAreExact ==
  ASSUME NEW m \in Match, NEW pkt, Packet(pkt), PortsHaveProtocols(m),
         None \notin Nat, m.protos = {} \/ pkt.proto \in m.protos
  PROVE  (\E e \in OrAny(PortExprs(m)) : Satisfies(pkt, e)) <=>
           /\ m.sports = {} \/ pkt.sport \in m.sports
           /\ m.dports = {} \/ pkt.dport \in m.dports
  <1>1. ASSUME NEW p
        PROVE  Satisfies(pkt, PortExpr(m, p)) <=>
                 /\ pkt.proto = p
                 /\ m.sports = {} \/ pkt.sport \in m.sports
                 /\ m.dports = {} \/ pkt.dport \in m.dports
    <2>1. Satisfies(pkt, {Condition("proto", {p})}) <=> pkt.proto = p
      <3>1. Satisfies(pkt, {Condition("proto", {p})}) <=> pkt["proto"] \in {p}
        BY ConditionIsExact
      <3> QED
        BY <3>1
    <2>2. Satisfies(pkt, Given("sport", m.sports)) <=> m.sports = {} \/ pkt.sport \in m.sports
      BY GivenIsExact
    <2>3. Satisfies(pkt, Given("dport", m.dports)) <=> m.dports = {} \/ pkt.dport \in m.dports
      BY GivenIsExact
    <2> QED
      BY <2>1, <2>2, <2>3, BothAreExact DEF PortExpr
  <1>2. CASE m.sports = {} /\ m.dports = {}
    BY <1>2 DEF PortExprs, OrAny, Satisfies
  <1>3. CASE m.sports # {} \/ m.dports # {}
    <2> DEFINE protos == IF m.protos = {} THEN {"tcp", "udp"} ELSE m.protos
    <2>1. protos \subseteq {"tcp", "udp"} /\ protos # {}
      BY <1>3 DEF PortsHaveProtocols
    <2>2. OrAny(PortExprs(m)) = {PortExpr(m, p) : p \in protos}
      BY <1>3, <2>1 DEF PortExprs, OrAny
    <2>3. (\E e \in OrAny(PortExprs(m)) : Satisfies(pkt, e)) <=>
            /\ pkt.proto \in protos
            /\ m.sports = {} \/ pkt.sport \in m.sports
            /\ m.dports = {} \/ pkt.dport \in m.dports
      BY <1>1, <2>2
    <2>4. (m.sports # {} /\ pkt.sport \in m.sports) => pkt.sport # None
      BY DEF Match
    <2>5. (m.dports # {} /\ pkt.dport \in m.dports) => pkt.dport # None
      BY DEF Match
    <2>6. (pkt.sport # None \/ pkt.dport # None) => pkt.proto \in {"tcp", "udp"}
      BY DEF Packet
    <2> QED
      BY <1>3, <2>3, <2>4, <2>5, <2>6
  <1> QED
    BY <1>2, <1>3
(* The expressions of a rule whose fields are all rendered.                *)
LEMMA RenderingIsExact ==
  ASSUME NEW c \in Configs, FieldsAreRendered(c), NEW i \in Enabled(c),
         NEW pkt, Packet(pkt), c.rules[i].match.oif = None \/ pkt.oif # None
  PROVE  (\E e \in MatchExprs(c, c.rules[i].match) : Satisfies(pkt, e)) <=>
           Matches(c, c.rules[i].match, pkt)
  <1> DEFINE m == c.rules[i].match
  <1>1. c.rules[i] \in Rule
    <2>1. c.rules \in Seq(Rule) /\ i \in DOMAIN c.rules
      BY ConfigAssumption DEF Config, Enabled
    <2> QED
      BY <2>1
  <1>2. m \in Match
    BY <1>1 DEF Rule
  <1>3. /\ FamiliesAgree(c, m)
        /\ PortsHaveProtocols(m)
        /\ m.tunnels = {} /\ m.labels = {}
    BY DEF FieldsAreRendered
  <1>4. Satisfies(pkt, BaseExpr(m)) <=>
          /\ m.iif \in {None, pkt.iif}
          /\ m.oif \in {None, pkt.oif}
          /\ m.protos = {} \/ pkt.proto \in m.protos
    BY <1>2, BaseIsExact DEF Packet
  <1>5. (\E e \in OrAny(CombineCIDRs(m)) : Satisfies(pkt, e)) <=>
          /\ m.src = {} \/ pkt.src \in m.src
          /\ m.dst = {} \/ pkt.dst \in m.dst
    <2>1. m.src # {} /\ m.dst # {} =>
            \A F \in {Addr4, Addr6} : (m.src \cap F = {}) <=> (m.dst \cap F = {})
      BY <1>3 DEF FamiliesAgree
    <2> QED
      BY <1>2, <2>1, CIDRsAreExact
  <1>6. (\E e \in OrAny(SetExprs(c, m)) : Satisfies(pkt, e)) <=>
          m.sets = {} \/ \E s \in ReferencedSets(c, m) : pkt.dst \in s.cidrs
    <2>1. m.sets # {} => \E s \in ReferencedSets(c, m) : s.cidrs # {}
      BY <1>3 DEF FamiliesAgree
    <2>2. m.sets = {} => ReferencedSets(c, m) = {}
      BY DEF ReferencedSets
    <2>3. c \in Config /\ c.sets \in Seq(RouteSet)
      BY ConfigAssumption DEF Config
    <2>4. \A s \in ReferencedSets(c, m) : s \in RouteSet
      BY <2>3 DEF ReferencedSets, Members
    <2>5. \A s \in ReferencedSets(c, m) : s.cidrs \subseteq Addr4 \cup Addr6
      BY <2>4 DEF RouteSet
    <2> QED
      BY <1>2, <2>1, <2>2, <2>3, <2>5, SetsAreExact
  <1>7. m.protos = {} \/ pkt.proto \in m.protos =>
          ((\E e \in OrAny(PortExprs(m)) : Satisfies(pkt, e)) <=>
             /\ m.sports = {} \/ pkt.sport \in m.sports
             /\ m.dports = {} \/ pkt.dport \in m.dports)
    BY <1>2, <1>3, NoneAssumption, PortsAreExact
  <1>8. (\E e \in MatchExprs(c, m) : Satisfies(pkt, e)) <=>
          /\ Satisfies(pkt, BaseExpr(m))
          /\ \E e \in OrAny(CombineCIDRs(m)) : Satisfies(pkt, e)
          /\ \E e \in OrAny(SetExprs(c, m)) : Satisfies(pkt, e)
          /\ \E e \in OrAny(PortExprs(m)) : Satisfies(pkt, e)
    <2> DEFINE All == OrAny(CombineCIDRs(m)) \X OrAny(SetExprs(c, m)) \X OrAny(PortExprs(m))
    <2>1. \A x \in All : Satisfies(pkt, BaseExpr(m) \cup x[1] \cup x[2] \cup x[3]) <=>
            /\ Satisfies(pkt, BaseExpr(m)) /\ Satisfies(pkt, x[1])
            /\ Satisfies(pkt, x[2]) /\ Satisfies(pkt, x[3])
      BY DEF Satisfies
    <2>2. MatchExprs(c, m) = {BaseExpr(m) \cup x[1] \cup x[2] \cup x[3] : x \in All}
      BY DEF MatchExprs
    <2>3. ASSUME NEW e \in MatchExprs(c, m), Satisfies(pkt, e)
          PROVE  /\ Satisfies(pkt, BaseExpr(m))
                 /\ \E f \in OrAny(CombineCIDRs(m)) : Satisfies(pkt, f)
                 /\ \E f \in OrAny(SetExprs(c, m)) : Satisfies(pkt, f)
                 /\ \E f \in OrAny(PortExprs(m)) : Satisfies(pkt, f)
      <3>1. PICK x \in All : e = BaseExpr(m) \cup x[1] \cup x[2] \cup x[3]
        BY <2>2
      <3> QED
        BY <2>1, <2>3, <3>1
    <2>4. ASSUME Satisfies(pkt, BaseExpr(m)),
                 NEW f \in OrAny(CombineCIDRs(m)), Satisfies(pkt, f),
                 NEW g \in OrAny(SetExprs(c, m)), Satisfies(pkt, g),
                 NEW h \in OrAny(PortExprs(m)), Satisfies(pkt, h)
          PROVE  \E e \in MatchExprs(c, m) : Satisfies(pkt, e)
      <3>1. <<f, g, h>> \in All
        OBVIOUS
      <3> QED
        BY <2>1, <2>2, <2>4, <3>1
    <2> QED
      BY <2>3, <2>4
  <1> QED
    BY <1>3, <1>4, <1>5, <1>6, <1>7, <1>8 DEF Matches
Candidates(c, pkt) ==
  {a \in Applicable(c, pkt) : ~IsFilter(a.rule) /\ Renders(c, a.rule)}

MatchingLines(c, pkt) == {line \in Prerouting(c) : Satisfies(pkt, line.expr)}

(* The rule with index i stands behind both a line and a candidate.        *)
LinePlace(c, i, at, mark) ==
  /\ i \in Enabled(c)
  /\ i \in Nat /\ c.rules[i].priority \in Nat
  /\ at = <<c.rules[i].priority, i, 0>>
  /\ mark = MarkSet(c, c.rules[i].action)

LEMMA RuleIndices ==
  ASSUME NEW c \in Configs, NEW i \in DOMAIN c.rules
  PROVE  i \in Nat /\ c.rules[i].priority \in Nat
  <1>1. c.rules \in Seq(Rule)
    BY ConfigAssumption DEF Config
  <1>2. c.rules[i] \in Rule
    BY <1>1
  <1> QED
    BY <1>1, <1>2 DEF Rule

LEMMA LinesHaveCandidates ==
  ASSUME NEW c \in Configs, FieldsAreRendered(c), NEW pkt \in Packets,
         NEW line \in MatchingLines(c, pkt)
  PROVE  \E a \in Candidates(c, pkt), i \in Nat :
           a.at = line.at /\ LinePlace(c, i, line.at, line.mark)
  <1>1. PICK i \in DOMAIN c.rules :
          /\ Renders(c, c.rules[i]) /\ ~IsFilter(c.rules[i])
          /\ line.at = Position(c, i)
          /\ line.mark = MarkSet(c, c.rules[i].action)
          /\ line.expr \in MatchExprs(c, c.rules[i].match)
    BY DEF MatchingLines, Prerouting
  <1>2. i \in Enabled(c)
    BY <1>1 DEF Renders, Enabled
  <1>3. Packet(pkt) /\ c.rules[i].match.oif = None
    BY <1>1, <1>2, PacketAssumption DEF Packet, FieldsAreRendered
  <1>4. Matches(c, c.rules[i].match, pkt)
    BY <1>1, <1>2, <1>3, RenderingIsExact DEF MatchingLines
  <1> DEFINE a == [at |-> <<c.rules[i].priority, i, 0>>, rule |-> c.rules[i]]
  <1>5. a \in Applicable(c, pkt)
    BY <1>2, <1>4 DEF Applicable, Enabled
  <1>6. a \in Candidates(c, pkt)
    BY <1>1, <1>5 DEF Candidates
  <1>7. a.at = line.at
    BY <1>1 DEF Position
  <1>8. LinePlace(c, i, line.at, line.mark)
    BY <1>1, <1>2, RuleIndices DEF LinePlace, Position
  <1>9. i \in Nat
    BY RuleIndices
  <1> QED
    BY <1>6, <1>7, <1>8, <1>9

LEMMA CandidatesHaveLines ==
  ASSUME NEW c \in Configs, FieldsAreRendered(c), NEW pkt \in Packets,
         NEW a \in Candidates(c, pkt)
  PROVE  \E line \in MatchingLines(c, pkt), i \in Nat :
           /\ line.at = a.at
           /\ LinePlace(c, i, a.at, MarkSet(c, a.rule.action))
  <1>1. PICK i \in DOMAIN c.rules :
          /\ c.rules[i].enabled
          /\ Matches(c, c.rules[i].match, pkt)
          /\ a = [at |-> <<c.rules[i].priority, i, 0>>, rule |-> c.rules[i]]
    BY DEF Candidates, Applicable
  <1>2. i \in Enabled(c) /\ Renders(c, c.rules[i]) /\ ~IsFilter(c.rules[i])
    BY <1>1 DEF Enabled, Candidates
  <1>3. Packet(pkt) /\ c.rules[i].match.oif = None
    BY <1>1, <1>2, PacketAssumption DEF Packet, FieldsAreRendered
  <1>4. PICK e \in MatchExprs(c, c.rules[i].match) : Satisfies(pkt, e)
    BY <1>1, <1>2, <1>3, RenderingIsExact
  <1> DEFINE line == [at |-> Position(c, i), expr |-> e,
                      mark |-> MarkSet(c, c.rules[i].action)]
  <1>5. line \in Prerouting(c)
    BY <1>2, <1>4 DEF Prerouting
  <1>6. line \in MatchingLines(c, pkt) /\ line.at = a.at
    BY <1>1, <1>4, <1>5 DEF MatchingLines, Position
  <1>7. LinePlace(c, i, a.at, MarkSet(c, a.rule.action))
    BY <1>1, <1>2, RuleIndices DEF LinePlace
  <1>8. i \in Nat
    BY RuleIndices
  <1> QED
    BY <1>6, <1>7, <1>8

LEMMA FirstLineDecides ==
  ASSUME NEW pkt \in Packets, loaded \in Configs, loaded # None,
         FieldsAreRendered(loaded)
  PROVE  /\ Candidates(loaded, pkt) = {} => Mark(pkt) = 0
         /\ \A a \in Firsts(Candidates(loaded, pkt)) :
              Mark(pkt) = MarkSet(loaded, a.rule.action)
  <1> DEFINE hit == Hit(Prerouting(loaded), pkt)
  <1>1. hit = Firsts(MatchingLines(loaded, pkt))
    BY DEF Hit, MatchingLines
  <1>2. Mark(pkt) = IF hit = {} THEN 0 ELSE (CHOOSE line \in hit : TRUE).mark
    BY DEF Mark
  <1>3. Candidates(loaded, pkt) = {} => Mark(pkt) = 0
    <2>1. Candidates(loaded, pkt) = {} => MatchingLines(loaded, pkt) = {}
      BY LinesHaveCandidates
    <2> QED
      BY <1>1, <1>2, <2>1 DEF Firsts
  <1>4. ASSUME NEW a \in Firsts(Candidates(loaded, pkt))
        PROVE  Mark(pkt) = MarkSet(loaded, a.rule.action)
    <2>1. /\ a \in Candidates(loaded, pkt)
          /\ \A b \in Candidates(loaded, pkt) : ~Before(b.at, a.at)
      BY DEF Firsts
    <2>2. PICK line \in MatchingLines(loaded, pkt), i \in Nat :
            /\ line.at = a.at
            /\ LinePlace(loaded, i, a.at, MarkSet(loaded, a.rule.action))
      BY <2>1, CandidatesHaveLines
    <2>3. \A other \in MatchingLines(loaded, pkt) : ~Before(other.at, line.at)
      BY <2>1, <2>2, LinesHaveCandidates
    <2>4. line \in hit
      BY <1>1, <2>3 DEF Firsts
    <2>5. PICK chosen \in hit : chosen = CHOOSE l \in hit : TRUE
      BY <2>4
    <2>6. /\ chosen \in MatchingLines(loaded, pkt)
          /\ ~Before(line.at, chosen.at)
          /\ ~Before(chosen.at, line.at)
      BY <1>1, <2>3, <2>5 DEF Firsts
    <2>7. PICK j \in Nat : LinePlace(loaded, j, chosen.at, chosen.mark)
      BY <2>6, LinesHaveCandidates
    <2>8. i = j
      BY <2>2, <2>6, <2>7 DEF LinePlace, Before
    <2>9. chosen.mark = MarkSet(loaded, a.rule.action)
      BY <2>2, <2>7, <2>8 DEF LinePlace
    <2> QED
      BY <1>2, <2>4, <2>5, <2>9
  <1> QED
    BY <1>3, <1>4

LoadInv == RuleInv /\ loaded \in Configs \cup {None}

LEMMA LoadInvInit == Init => LoadInv
  BY RuleInvInit DEF LoadInv, Init

LEMMA LoadInvStep == LoadInv /\ [Next]_vars => LoadInv'
  <1> SUFFICES ASSUME LoadInv, [Next]_vars
               PROVE  loaded' \in Configs \cup {None}
    BY RuleInvStep DEF LoadInv
  <1>1. loaded \in Configs \cup {None}
    BY DEF LoadInv
  <1>2. CASE LoadPolicy
    BY <1>1, <1>2 DEF LoadPolicy, LoadInv, RuleInv, RestOfPlan
  <1>3. CASE DropPolicy \/ Boot
    BY <1>3 DEF DropPolicy, Boot
  <1>4. CASE RunCommand \/ Abort \/ UNCHANGED vars \/ \E c \in Configs : Apply(c)
    BY <1>1, <1>4 DEF RunCommand, Abort, Apply, vars
  <1> QED
    BY <1>2, <1>3, <1>4, AppliesAConfig DEF Next

(* For every set of configurations, addresses, ports and packets: while    *)
(* chains are loaded whose rules use only fields that are rendered, a      *)
(* packet gets the mark of the first rule that applies to it               *)
(* (nft.go: writePreroutingChain, nftMatchExpressions, nftAction).         *)
THEOREM FirstRuleMarks == Spec => []MarkIsOfFirstRule
  <1>1. LoadInv => MarkIsOfFirstRule
    BY FirstLineDecides DEF LoadInv, MarkIsOfFirstRule, Candidates
  <1> QED
    BY <1>1, LoadInvInit, LoadInvStep, PTL DEF Spec
=============================================================================
