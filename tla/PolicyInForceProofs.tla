------------------------- MODULE PolicyInForceProofs -------------------------
(***************************************************************************)
(* Proofs about PolicyRouting as a whole: chains, ip rules and routes      *)
(* together send packets where the configurations mean them to go, at      *)
(* every moment and, after a complete apply, just as the last one says.    *)
(***************************************************************************)
EXTENDS PolicyRoutingProofs, WellFoundedInduction

-----------------------------------------------------------------------------
(* Types, and which configuration what is in the kernel comes from.        *)

SeenInv ==
  /\ loaded \in seen \cup {None}
  /\ phase # "booted" => config \in seen
  /\ phase = "done" => loaded = config

PlanInv == TypeOK /\ SeenInv /\ RuleInv

LEMMA PlanInvInit == Init => PlanInv
  BY RuleInvInit DEF Init, PlanInv, TypeOK, SeenInv

LEMMA ApplyIsTyped ==
  ASSUME PlanInv, NEW c \in Configs, Apply(c)
  PROVE  TypeOK' /\ SeenInv'
  <1>1. /\ config' = c
        /\ phase' = "applying"
        /\ todo' = Commands(c)
        /\ seen' = seen \cup {c}
        /\ UNCHANGED <<loaded, rules, routes>>
    BY DEF Apply
  <1>2. Ordered \subseteq Ordered'
    BY <1>1 DEF Ordered
  <1>3. c # None
    BY NoneAssumption
  <1> QED
    BY <1>1, <1>2, <1>3 DEF PlanInv, TypeOK, SeenInv

LEMMA RunCommandIsTyped ==
  ASSUME PlanInv, RunCommand
  PROVE  TypeOK' /\ SeenInv'
  <1>1. PICK x \in Firsts(todo) :
          /\ InstallRoute(x) \/ DeleteRule(x) \/ AddRule(x)
          /\ todo' = todo \ {x}
    BY DEF RunCommand
  <1>2. /\ phase = "applying"
        /\ UNCHANGED <<config, phase, loaded, seen>>
    BY DEF RunCommand
  <1>3. x \in todo
    BY DEF Firsts
  <1>4. x \in Ordered
    BY <1>2, <1>3 DEF PlanInv, RuleInv, RestOfPlan, SeenInv, Ordered
  <1>5. Ordered' = Ordered
    BY <1>2 DEF Ordered
  <1>6. rules' \subseteq {z.rule : z \in {y \in Ordered : y.op = "rule"}}
    BY <1>1, <1>4 DEF PlanInv, TypeOK, InstallRoute, DeleteRule, AddRule
  <1>7. routes' \subseteq {z.route : z \in {y \in Ordered : y.op = "route"}}
    BY <1>1, <1>4 DEF PlanInv, TypeOK, InstallRoute, DeleteRule, AddRule, Replace
  <1> QED
    BY <1>1, <1>2, <1>5, <1>6, <1>7 DEF PlanInv, TypeOK, SeenInv

LEMMA PlanInvStep == PlanInv /\ [Next]_vars => PlanInv'
  <1> SUFFICES ASSUME PlanInv, [Next]_vars
               PROVE  TypeOK' /\ SeenInv'
    BY RuleInvStep DEF PlanInv
  <1>1. CASE \E c \in Configs : Apply(c)
    BY <1>1, ApplyIsTyped
  <1>2. CASE RunCommand
    BY <1>2, RunCommandIsTyped
  <1>3. CASE DropPolicy
    BY <1>3 DEF DropPolicy, PlanInv, TypeOK, SeenInv, Ordered
  <1>4. CASE LoadPolicy
    BY <1>4 DEF LoadPolicy, PlanInv, TypeOK, SeenInv, Ordered, RuleInv, RestOfPlan
  <1>5. CASE Abort
    BY <1>5 DEF Abort, PlanInv, TypeOK, SeenInv, Ordered
  <1>6. CASE Boot
    BY <1>6 DEF Boot, PlanInv, TypeOK, SeenInv, Ordered
  <1>7. CASE UNCHANGED vars
    BY <1>7 DEF vars, PlanInv, TypeOK, SeenInv, Ordered
  <1> QED
    BY <1>1, <1>2, <1>3, <1>4, <1>5, <1>6, <1>7, AppliesAConfig DEF Next

(* Every variable of PolicyRouting keeps its type: what the kernel holds   *)
(* is from plans applied since the boot.                                   *)
THEOREM TypeCorrect == Spec => []TypeOK
  <1>1. PlanInv => TypeOK
    BY DEF PlanInv
  <1> QED
    BY <1>1, PlanInvInit, PlanInvStep, PTL DEF Spec

-----------------------------------------------------------------------------
(* Routes: in configurations that agree on what a table is for, a command  *)
(* never puts another route in the place of one that is there.             *)

PlanRoutes(c) == {x.route : x \in {y \in Commands(c) : y.op = "route"}}
PlanRules(c) == {x.rule : x \in {y \in Commands(c) : y.op = "rule"}}

LEMMA SeqElements ==
  ASSUME NEW S, NEW s \in Seq(S), NEW j \in DOMAIN s
  PROVE  j \in Nat /\ s[j] \in S
  OBVIOUS

LEMMA RouteCommandsAre ==
  ASSUME NEW c \in Configs, NEW x \in Commands(c), x.op = "route"
  PROVE  /\ x \in TunnelRoutes(c) \cup WANGroupRoutes(c) \cup StaticRoutes(c)
         /\ x.at \in Nat \X Nat \X Nat
         /\ x.route.table # 0
         /\ None \notin x.route.devs
  <1>1. x \in TunnelRoutes(c) \cup WANGroupRoutes(c) \cup StaticRoutes(c)
    BY DEF Commands, RuleCommands
  <1>2. CASE x \in TunnelRoutes(c)
    <2>1. PICK i \in DOMAIN c.tunnels :
            /\ c.tunnels[i].table > 0 /\ c.tunnels[i].dev # None
            /\ x = RouteCommand(<<1, i, 0>>, c.tunnels[i].table, Addr4, 0, {c.tunnels[i].dev})
      BY <1>2 DEF TunnelRoutes
    <2>2. i \in Nat
      BY ConfigAssumption DEF Config
    <2> QED
      BY <1>1, <2>1, <2>2 DEF RouteCommand
  <1>3. CASE x \in WANGroupRoutes(c)
    <2>1. PICK i \in DOMAIN c.groups : x \in GroupRoutes(c.groups[i], i)
      BY <1>3 DEF WANGroupRoutes
    <2>2. i \in Nat /\ c.groups[i] \in Group
      BY ConfigAssumption DEF Config
    <2> DEFINE ms == c.groups[i].members
    <2>3. PICK at \in {<<2, i, 0>>} \cup {<<2, i, j>> : j \in DOMAIN ms},
               devs \in {{m.dev : m \in Members(ms)}} \cup {{ms[j].dev} : j \in DOMAIN ms} :
            \E metric : x = RouteCommand(at, c.groups[i].table, Addr4, metric, devs)
      BY <2>1 DEF GroupRoutes
    <2>4. c.groups[i].table # 0
      BY <2>1 DEF GroupRoutes
    <2>5. DOMAIN ms \subseteq Nat /\ \A j \in DOMAIN ms : ms[j].dev \in STRING
      <3>1. ms \in Seq([dev : STRING, priority : Nat])
        BY <2>2 DEF Group
      <3> HIDE DEF ms
      <3>2. ASSUME NEW j \in DOMAIN ms
            PROVE  j \in Nat /\ ms[j] \in [dev : STRING, priority : Nat]
        BY <3>1, SeqElements
      <3> QED
        BY <3>2
    <2>6. None \notin devs
      BY <2>3, <2>5, NoneAssumption DEF Members
    <2> QED
      BY <1>1, <2>2, <2>3, <2>4, <2>5, <2>6 DEF RouteCommand
  <1>4. CASE x \in StaticRoutes(c)
    <2>1. PICK i \in DOMAIN c.statics :
            /\ c.statics[i].table > 0
            /\ x = RouteCommand(<<3, i, 0>>, c.statics[i].table, c.statics[i].dest,
                                c.statics[i].metric, {c.statics[i].dev})
      BY <1>4 DEF StaticRoutes
    <2>2. i \in Nat /\ c.statics[i] \in Static
      BY ConfigAssumption DEF Config
    <2>3. c.statics[i].dev # None
      BY <2>2, NoneAssumption DEF Static
    <2> QED
      BY <1>1, <2>1, <2>2, <2>3 DEF RouteCommand
  <1> QED
    BY <1>1, <1>2, <1>3, <1>4

LEMMA OwnAreAll ==
  ASSUME NEW c \in Configs, RoutesOnce(c)
  PROVE  OwnRoutes(c) = PlanRoutes(c)
  <1> DEFINE all == TunnelRoutes(c) \cup WANGroupRoutes(c) \cup StaticRoutes(c)
  <1>1. all = {y \in Commands(c) : y.op = "route"}
    BY RouteCommandsAre DEF Commands, TunnelRoutes, WANGroupRoutes, GroupRoutes,
       StaticRoutes, RouteCommand
  <1>2. ASSUME NEW y \in all, NEW z \in all, Slot(z.route) = Slot(y.route)
        PROVE  ~Before(y.at, z.at)
    <2>1. z = y
      BY <1>1, <1>2 DEF RoutesOnce
    <2>2. y.at \in Nat \X Nat \X Nat
      BY <1>1, RouteCommandsAre
    <2> QED
      BY <2>1, <2>2 DEF Before
  <1> HIDE DEF all
  <1>3. OwnRoutes(c) = {x.route : x \in {y \in all : \A z \in all :
                          Slot(z.route) = Slot(y.route) => ~Before(y.at, z.at)}}
    BY DEF OwnRoutes, all
  <1>4. {y \in all : \A z \in all : Slot(z.route) = Slot(y.route) => ~Before(y.at, z.at)} = all
    BY <1>2
  <1> QED
    BY <1>1, <1>3, <1>4 DEF PlanRoutes

LEMMA TablesAgree ==
  ASSUME NEW C, C \subseteq Configs, Agreeing(C), NEW c \in C, NEW d \in C,
         NEW r \in PlanRoutes(c), NEW q \in PlanRoutes(d), r.table = q.table
  PROVE  q \in PlanRoutes(c)
  BY OwnAreAll DEF Agreeing, Compatible

LEMMA SlotsAgree ==
  ASSUME NEW C, C \subseteq Configs, Agreeing(C), NEW c \in C, NEW d \in C,
         NEW r \in PlanRoutes(c), NEW q \in PlanRoutes(d), Slot(r) = Slot(q)
  PROVE  r = q
  <1>1. r.table = q.table
    BY DEF Slot
  <1>2. q \in PlanRoutes(c)
    BY <1>1, TablesAgree
  <1> QED
    BY <1>2 DEF PlanRoutes, Agreeing, RoutesOnce

RouteInv ==
  Agreeing(seen) =>
    /\ loaded # None => PlanRoutes(loaded) \subseteq routes
    /\ phase = "applying" =>
         \A x \in Commands(config) \ todo : x.op = "route" => x.route \in routes

LEMMA RoutesStay ==
  ASSUME PlanInv, Agreeing(seen), NEW x \in Commands(config), x.op = "route",
         config \in seen, NEW d \in seen, NEW r \in PlanRoutes(d), r \in routes
  PROVE  r \in Replace(routes, x.route)
  <1>1. x.route \in PlanRoutes(config)
    BY DEF PlanRoutes
  <1>2. seen \subseteq Configs
    BY DEF PlanInv, TypeOK
  <1>3. Slot(r) = Slot(x.route) => r = x.route
    BY <1>1, <1>2, SlotsAgree
  <1> QED
    BY <1>3 DEF Replace

LEMMA RouteInvInit == Init => RouteInv
  BY DEF Init, RouteInv

LEMMA RouteInvStep == PlanInv /\ RouteInv /\ [Next]_vars => RouteInv'
  <1> SUFFICES ASSUME PlanInv, RouteInv, [Next]_vars, Agreeing(seen)'
               PROVE  /\ loaded' # None => PlanRoutes(loaded') \subseteq routes'
                      /\ phase' = "applying" =>
                           \A x \in Commands(config') \ todo' :
                             x.op = "route" => x.route \in routes'
    BY DEF RouteInv
  <1>1. CASE \E c \in Configs : Apply(c)
    <2>1. PICK c \in Configs : Apply(c)
      BY <1>1
    <2>2. seen' = seen \cup {c}
      BY <2>1 DEF Apply
    <2>3. Agreeing(seen)
      BY <2>2 DEF Agreeing, Compatible
    <2> QED
      BY <2>1, <2>3 DEF Apply, RouteInv
  <1>2. CASE RunCommand
    <2>1. PICK x \in Firsts(todo) :
            /\ InstallRoute(x) \/ DeleteRule(x) \/ AddRule(x)
            /\ todo' = todo \ {x}
      BY <1>2 DEF RunCommand
    <2>2. /\ phase = "applying"
          /\ UNCHANGED <<config, phase, loaded, seen>>
      BY <1>2 DEF RunCommand
    <2>3. /\ Agreeing(seen)
          /\ config \in seen
          /\ x \in Commands(config)
      BY <2>2 DEF Firsts, PlanInv, SeenInv, RuleInv, RestOfPlan
    <2>4. CASE InstallRoute(x)
      <3>1. x.op = "route" /\ routes' = Replace(routes, x.route)
        BY <2>4 DEF InstallRoute
      <3>2. x.route \in routes'
        BY <3>1 DEF Replace
      <3>3. ASSUME NEW z \in Commands(config), z.op = "route", z \notin todo'
            PROVE  z.route \in routes'
        <4>1. CASE z = x
          BY <3>2, <4>1
        <4>2. CASE z # x
          <5>1. z.route \in routes
            BY <2>1, <2>2, <2>3, <3>3, <4>2 DEF RouteInv
          <5>2. z.route \in PlanRoutes(config)
            BY <3>3 DEF PlanRoutes
          <5> QED
            BY <2>3, <3>1, <5>1, <5>2, RoutesStay
        <4> QED
          BY <4>1, <4>2
      <3>4. ASSUME loaded # None, NEW r \in PlanRoutes(loaded)
            PROVE  r \in routes'
        <4>1. loaded \in seen
          BY <3>4 DEF PlanInv, SeenInv
        <4>2. r \in routes
          BY <2>3, <3>4 DEF RouteInv
        <4> QED
          BY <2>3, <3>1, <4>1, <4>2, RoutesStay
      <3> QED
        BY <2>2, <3>3, <3>4
    <2>5. CASE DeleteRule(x) \/ AddRule(x)
      BY <2>1, <2>2, <2>3, <2>5 DEF DeleteRule, AddRule, RouteInv
    <2> QED
      BY <2>1, <2>4, <2>5
  <1>3. CASE DropPolicy
    BY <1>3 DEF DropPolicy, RouteInv
  <1>4. CASE LoadPolicy
    BY <1>4 DEF LoadPolicy, RouteInv, PlanRoutes
  <1>5. CASE Abort
    BY <1>5 DEF Abort, RouteInv
  <1>6. CASE Boot
    BY <1>6 DEF Boot, RouteInv
  <1>7. CASE UNCHANGED vars
    BY <1>7 DEF vars, RouteInv
  <1> QED
    BY <1>1, <1>2, <1>3, <1>4, <1>5, <1>6, <1>7, AppliesAConfig DEF Next

(* The ip rules of a plan stay where they were put until it is done.       *)
RulesInstalled ==
  DistinctPriorities(config) =>
    /\ phase = "applying" =>
         \A x \in Commands(config) \ todo : x.op = "rule" => x.rule \in rules
    /\ phase = "done" => PlanRules(config) \subseteq rules

LEMMA RuleCommandsAre ==
  ASSUME NEW c \in Configs, NEW x \in Commands(c), x.op \in {"rule", "unrule"}
  PROVE  \E i \in Enabled(c) :
           /\ i \in Nat /\ c.rules[i].priority \in Nat
           /\ Resolve(c, c.rules[i].action, "mark") # 0
           /\ \/ /\ x.op = "rule" /\ x.at = <<4, c.rules[i].priority, 2 * i + 1>>
                 /\ x.rule = [priority |-> c.rules[i].priority,
                              mark |-> Resolve(c, c.rules[i].action, "mark"),
                              table |-> Resolve(c, c.rules[i].action, "table")]
              \/ /\ x.op = "unrule" /\ x.at = <<4, c.rules[i].priority, 2 * i>>
                 /\ x.priority = c.rules[i].priority
  <1>1. x \in RuleCommands(c)
    BY DEF Commands, TunnelRoutes, WANGroupRoutes, GroupRoutes, StaticRoutes, RouteCommand
  <1>2. PICK i \in DOMAIN c.rules :
          /\ c.rules[i].enabled
          /\ Resolve(c, c.rules[i].action, "mark") # 0
          /\ x \in {[at |-> <<4, c.rules[i].priority, 2 * i>>, op |-> "unrule",
                     priority |-> c.rules[i].priority],
                    [at |-> <<4, c.rules[i].priority, 2 * i + 1>>, op |-> "rule",
                     rule |-> [priority |-> c.rules[i].priority,
                               mark |-> Resolve(c, c.rules[i].action, "mark"),
                               table |-> Resolve(c, c.rules[i].action, "table")]]}
    BY <1>1 DEF RuleCommands
  <1>3. i \in Nat /\ c.rules[i].priority \in Nat
    BY RuleIndices
  <1>4. i \in Enabled(c)
    BY <1>2 DEF Enabled
  <1> QED
    BY <1>2, <1>3, <1>4

LEMMA RulesInstalledInit == Init => RulesInstalled
  BY DEF Init, RulesInstalled

LEMMA RulesInstalledStep == PlanInv /\ RulesInstalled /\ [Next]_vars => RulesInstalled'
  <1> SUFFICES ASSUME PlanInv, RulesInstalled, [Next]_vars
               PROVE  RulesInstalled'
    OBVIOUS
  <1>1. CASE \E c \in Configs : Apply(c)
    BY <1>1 DEF Apply, RulesInstalled
  <1>2. CASE RunCommand
    <2>1. PICK x \in Firsts(todo) :
            /\ InstallRoute(x) \/ DeleteRule(x) \/ AddRule(x)
            /\ todo' = todo \ {x}
      BY <1>2 DEF RunCommand
    <2>2. /\ phase = "applying"
          /\ UNCHANGED <<config, phase, loaded, seen>>
      BY <1>2 DEF RunCommand
    <2>3. /\ config \in Configs
          /\ x \in Commands(config) /\ x \in todo
          /\ \A z \in Commands(config), y \in todo : Before(y.at, z.at) => z \in todo
      BY <2>2 DEF Firsts, PlanInv, RuleInv, RestOfPlan
    <2>4. SUFFICES ASSUME DistinctPriorities(config),
                          NEW z \in Commands(config), z.op = "rule", z \notin todo'
                   PROVE  z.rule \in rules'
      BY <2>2 DEF RulesInstalled
    <2>5. z = x \/ z.rule \in rules
      BY <2>1, <2>2, <2>4 DEF RulesInstalled
    <2>6. CASE InstallRoute(x) \/ AddRule(x)
      BY <2>4, <2>5, <2>6 DEF InstallRoute, AddRule
    <2>7. CASE DeleteRule(x)
      <3>1. x.op = "unrule" /\ z # x
        BY <2>4, <2>7 DEF DeleteRule
      <3>2. z \notin todo
        BY <2>1, <2>4, <3>1
      <3>3. ASSUME z.rule.priority = x.priority
            PROVE  FALSE
        <4>1. PICK i \in Enabled(config) :
                /\ i \in Nat /\ config.rules[i].priority \in Nat
                /\ z.at = <<4, config.rules[i].priority, 2 * i + 1>>
                /\ z.rule = [priority |-> config.rules[i].priority,
                             mark |-> Resolve(config, config.rules[i].action, "mark"),
                             table |-> Resolve(config, config.rules[i].action, "table")]
          <5>1. z.op \in {"rule", "unrule"} /\ z.op # "unrule"
            BY <2>4
          <5> QED
            BY <2>3, <5>1, RuleCommandsAre
        <4>2. PICK j \in Enabled(config) :
                /\ j \in Nat /\ config.rules[j].priority \in Nat
                /\ x.at = <<4, config.rules[j].priority, 2 * j>>
                /\ x.priority = config.rules[j].priority
          BY <2>3, <3>1, RuleCommandsAre
        <4>3. i = j
          BY <2>4, <3>3, <4>1, <4>2 DEF DistinctPriorities
        <4>4. Before(x.at, z.at)
          BY <4>1, <4>2, <4>3 DEF Before
        <4> QED
          BY <2>3, <3>2, <4>4
      <3> QED
        BY <2>5, <2>7, <3>1, <3>3 DEF DeleteRule
    <2> QED
      BY <2>1, <2>6, <2>7
  <1>3. CASE DropPolicy
    BY <1>3 DEF DropPolicy, RulesInstalled
  <1>4. CASE LoadPolicy
    BY <1>4 DEF LoadPolicy, RulesInstalled, PlanRules
  <1>5. CASE Abort
    BY <1>5 DEF Abort, RulesInstalled
  <1>6. CASE Boot
    BY <1>6 DEF Boot, RulesInstalled
  <1>7. CASE UNCHANGED vars
    BY <1>7 DEF vars, RulesInstalled
  <1> QED
    BY <1>1, <1>2, <1>3, <1>4, <1>5, <1>6, <1>7, AppliesAConfig DEF Next
-----------------------------------------------------------------------------
(* Which rule, line or route comes first.                                  *)

LEMMA SmallestNat ==
  ASSUME NEW T, T \subseteq Nat, T # {}
  PROVE  \E n \in T : \A k \in T : n <= k
  <1> DEFINE R == {p \in Nat \X Nat : p[1] < p[2]}
  <1>1. IsWellFoundedOn(R, Nat)
    <2>1. R \subseteq OpToRel(<, Nat)
      BY DEF OpToRel
    <2> QED
      BY <2>1, NatLessThanWellFounded, IsWellFoundedOnSubrelation
  <1>2. PICK n \in T : \A k \in T : <<k, n>> \notin R
    BY <1>1, WFMin
  <1>3. ASSUME NEW k \in Nat, n \in Nat, k < n
        PROVE  <<k, n>> \in R
    BY <1>3
  <1> HIDE DEF R
  <1>4. \A k \in T : ~(k < n)
    BY <1>2, <1>3
  <1> QED
    BY <1>2, <1>4

LEMMA FirstsExist ==
  ASSUME NEW S, NEW z \in S, \A x \in S : x.at \in Nat \X Nat \X Nat
  PROVE  \E x \in S : x \in Firsts(S)
  <1> DEFINE A == {x.at[1] : x \in S}
  <1>1. PICK a \in S : \A x \in S : a.at[1] <= x.at[1]
    <2>1. A \subseteq Nat /\ A # {}
      OBVIOUS
    <2>2. PICK n \in A : \A k \in A : n <= k
      BY <2>1, SmallestNat
    <2> QED
      BY <2>2
  <1> DEFINE T == {x \in S : x.at[1] = a.at[1]}
             B == {x.at[2] : x \in T}
  <1>2. PICK b \in T : \A x \in T : b.at[2] <= x.at[2]
    <2>1. B \subseteq Nat /\ B # {}
      OBVIOUS
    <2>2. PICK n \in B : \A k \in B : n <= k
      BY <2>1, SmallestNat
    <2> QED
      BY <2>2
  <1> DEFINE U == {x \in T : x.at[2] = b.at[2]}
             C == {x.at[3] : x \in U}
  <1>3. PICK c \in U : \A x \in U : c.at[3] <= x.at[3]
    <2>1. C \subseteq Nat /\ C # {}
      OBVIOUS
    <2>2. PICK n \in C : \A k \in C : n <= k
      BY <2>1, SmallestNat
    <2> QED
      BY <2>2
  <1>4. ASSUME NEW x \in S
        PROVE  ~Before(x.at, c.at)
    BY <1>1, <1>2, <1>3 DEF Before
  <1> QED
    BY <1>3, <1>4 DEF Firsts

LEMMA ApplicableAre ==
  ASSUME NEW c \in Configs, NEW pkt, NEW a \in Applicable(c, pkt)
  PROVE  \E i \in Enabled(c) :
           /\ i \in Nat /\ i # 0 /\ c.rules[i].priority \in Nat
           /\ a = [at |-> <<c.rules[i].priority, i, 0>>, rule |-> c.rules[i]]
           /\ Matches(c, c.rules[i].match, pkt)
  <1>1. PICK i \in DOMAIN c.rules :
          /\ c.rules[i].enabled
          /\ a = [at |-> <<c.rules[i].priority, i, 0>>, rule |-> c.rules[i]]
          /\ Matches(c, c.rules[i].match, pkt)
    BY DEF Applicable
  <1>2. i # 0
    BY ConfigAssumption DEF Config
  <1> QED
    BY <1>1, <1>2, RuleIndices DEF Enabled

LEMMA FirstsAreOne ==
  ASSUME NEW c \in Configs, NEW pkt, NEW S, S \subseteq Applicable(c, pkt),
         NEW a \in Firsts(S), NEW b \in Firsts(S)
  PROVE  a = b
  <1>1. /\ a \in Applicable(c, pkt) /\ b \in Applicable(c, pkt)
        /\ ~Before(a.at, b.at) /\ ~Before(b.at, a.at)
    BY DEF Firsts
  <1>2. PICK i \in Enabled(c) :
          /\ i \in Nat /\ c.rules[i].priority \in Nat
          /\ a = [at |-> <<c.rules[i].priority, i, 0>>, rule |-> c.rules[i]]
    BY <1>1, ApplicableAre
  <1>3. PICK j \in Enabled(c) :
          /\ j \in Nat /\ c.rules[j].priority \in Nat
          /\ b = [at |-> <<c.rules[j].priority, j, 0>>, rule |-> c.rules[j]]
    BY <1>1, ApplicableAre
  <1>4. i = j
    BY <1>1, <1>2, <1>3 DEF Before
  <1> QED
    BY <1>2, <1>3, <1>4

(* The rules that decide where a packet goes.                              *)
NonFilters(c, pkt) == {a \in Applicable(c, pkt) : ~IsFilter(a.rule)}

LEMMA FirstNonFilter ==
  ASSUME NEW c \in Configs, NEW pkt, NonFilters(c, pkt) # {}
  PROVE  \E a \in NonFilters(c, pkt) : Firsts(NonFilters(c, pkt)) = {a}
  <1>1. \A a \in NonFilters(c, pkt) : a.at \in Nat \X Nat \X Nat
    BY ApplicableAre DEF NonFilters
  <1>2. PICK a \in NonFilters(c, pkt) : a \in Firsts(NonFilters(c, pkt))
    BY <1>1, FirstsExist
  <1>3. NonFilters(c, pkt) \subseteq Applicable(c, pkt)
    BY DEF NonFilters
  <1> QED
    BY <1>2, <1>3, FirstsAreOne

LEMMA AllRender ==
  ASSUME NEW c \in Configs, MarksResolve(c), NEW pkt
  PROVE  Candidates(c, pkt) = NonFilters(c, pkt)
  <1>1. ASSUME NEW a \in NonFilters(c, pkt)
        PROVE  Renders(c, a.rule)
    <2>1. PICK i \in Enabled(c) : a.rule = c.rules[i]
      BY ApplicableAre DEF NonFilters
    <2>2. a.rule.action.type = "direct" \/ i \in Forwarding(c)
      BY <2>1 DEF NonFilters, Forwarding
    <2> QED
      BY <2>1, <2>2 DEF MarksResolve, Renders, MarkSet, Enabled
  <1> QED
    BY <1>1 DEF Candidates, NonFilters
-----------------------------------------------------------------------------
(* From marks to interfaces.                                               *)

LEMMA RulesAre ==
  ASSUME PlanInv, NEW r \in rules
  PROVE  /\ r.mark # 0
         /\ r.priority \in Nat
         /\ \E d \in seen : \E x \in RuleCommands(d) : x.op = "rule" /\ x.rule = r
  <1>1. PICK d \in seen : \E x \in Commands(d) : x.op = "rule" /\ x.rule = r
    BY DEF PlanInv, TypeOK, Ordered
  <1>2. d \in Configs
    BY DEF PlanInv, TypeOK
  <1>3. PICK x \in Commands(d) : x.op = "rule" /\ x.rule = r
    BY <1>1
  <1>4. x \in RuleCommands(d)
    BY <1>3 DEF Commands, TunnelRoutes, WANGroupRoutes, GroupRoutes, StaticRoutes, RouteCommand
  <1>5. x.op \in {"rule", "unrule"} /\ x.op # "unrule"
    BY <1>3
  <1>6. PICK i \in Enabled(d) :
          /\ d.rules[i].priority \in Nat
          /\ Resolve(d, d.rules[i].action, "mark") # 0
          /\ x.rule = [priority |-> d.rules[i].priority,
                       mark |-> Resolve(d, d.rules[i].action, "mark"),
                       table |-> Resolve(d, d.rules[i].action, "table")]
    BY <1>3, <1>2, <1>5, RuleCommandsAre
  <1>7. r.priority \in Nat /\ r.mark # 0
    BY <1>3, <1>6
  <1> QED
    BY <1>3, <1>4, <1>7

(* The table of a rule that forwards, and its entry.                       *)
LEMMA ForwardingRules ==
  ASSUME NEW c \in Configs, MarksResolve(c), NEW i \in Forwarding(c)
  PROVE  /\ MarkSet(c, c.rules[i].action) = Resolve(c, c.rules[i].action, "mark")
         /\ Addr4 # {} =>
              \E x \in RuleCommands(c) :
                /\ x.op = "rule"
                /\ x.rule.mark = Resolve(c, c.rules[i].action, "mark")
                /\ x.rule.table = Resolve(c, c.rules[i].action, "table")
  <1> DEFINE action == c.rules[i].action
             T == Resolve(c, action, "table")
             M == Resolve(c, action, "mark")
  <1>1. MarkSet(c, action) = M
    BY DEF MarkSet, Forwarding
  <1>2. ASSUME NEW dst \in Addr4
        PROVE  T # 0
    <2>1. Lookup(OwnRoutes(c), T, dst) # {}
      BY DEF MarksResolve
    <2>2. PICK q \in OwnRoutes(c) : q.table = T
      <3>1. PICK q \in Best({r \in OwnRoutes(c) : r.table = T /\ dst \in r.dest}) : TRUE
        BY <2>1 DEF Lookup
      <3> QED
        BY <3>1 DEF Best
    <2>3. PICK y \in TunnelRoutes(c) \cup WANGroupRoutes(c) \cup StaticRoutes(c) :
            q = y.route
      BY DEF OwnRoutes
    <2>4. y \in Commands(c) /\ y.op = "route"
      BY <2>3 DEF Commands, TunnelRoutes, WANGroupRoutes, GroupRoutes, StaticRoutes, RouteCommand
    <2> QED
      BY <2>2, <2>3, <2>4, RouteCommandsAre
  <1>3. ASSUME Addr4 # {}
        PROVE  \E x \in RuleCommands(c) :
                 x.op = "rule" /\ x.rule.mark = M /\ x.rule.table = T
    <2>1. /\ i \in DOMAIN c.rules /\ c.rules[i].enabled
          /\ M # 0 /\ T # 0
      BY <1>2, <1>3 DEF Forwarding, Enabled, MarksResolve
    <2> DEFINE x == [at |-> <<4, c.rules[i].priority, 2 * i + 1>>, op |-> "rule",
                     rule |-> [priority |-> c.rules[i].priority, mark |-> M, table |-> T]]
    <2>2. x \in RuleCommands(c)
      BY <2>1 DEF RuleCommands
    <2>3. x.op = "rule" /\ x.rule.mark = M /\ x.rule.table = T
      OBVIOUS
    <2> QED
      BY <2>2, <2>3
  <1> QED
    BY <1>1, <1>3

LEMMA OrderAgrees ==
  ASSUME PlanInv, InOrder(seen)
  PROVE  /\ Agreeing(seen)
         /\ \A c \in seen : /\ c \in Configs
                            /\ MarksResolve(c) /\ RoutesOnce(c)
                            /\ FieldsAreRendered(c) /\ DistinctPriorities(c)
  BY DEF InOrder, Meaningful, Agreeing, PlanInv, TypeOK

(* A table of the loaded configuration holds its routes and no others.     *)
LEMMA TableIsLoaded ==
  ASSUME PlanInv, Agreeing(seen), loaded # None,
         NEW q \in PlanRoutes(loaded), NEW r \in routes, r.table = q.table
  PROVE  r \in PlanRoutes(loaded)
  <1>1. loaded \in seen /\ seen \subseteq Configs
    BY DEF PlanInv, SeenInv, TypeOK
  <1>2. PICK d \in seen : r \in PlanRoutes(d)
    BY DEF PlanInv, TypeOK, Ordered, PlanRoutes
  <1> QED
    BY <1>1, <1>2, TablesAgree

LEMMA TableIsOwn ==
  ASSUME PlanInv, RouteInv, InOrder(seen), loaded # None,
         NEW T, NEW dst, Lookup(OwnRoutes(loaded), T, dst) # {}
  PROVE  Lookup(routes, T, dst) = Lookup(OwnRoutes(loaded), T, dst)
  <1>1. /\ loaded \in seen /\ loaded \in Configs
        /\ seen \subseteq Configs
        /\ Agreeing(seen)
    BY OrderAgrees DEF PlanInv, SeenInv, TypeOK
  <1>2. OwnRoutes(loaded) = PlanRoutes(loaded)
    BY <1>1, OwnAreAll DEF Agreeing
  <1>3. PICK q \in PlanRoutes(loaded) : q.table = T
    BY <1>2 DEF Lookup, Best
  <1>4. PlanRoutes(loaded) \subseteq routes
    BY <1>1 DEF RouteInv
  <1>5. ASSUME NEW r \in routes, r.table = T
        PROVE  r \in PlanRoutes(loaded)
    BY <1>1, <1>3, <1>5, TableIsLoaded
  <1>6. {r \in routes : r.table = T /\ dst \in r.dest} =
          {r \in OwnRoutes(loaded) : r.table = T /\ dst \in r.dest}
    BY <1>2, <1>4, <1>5
  <1> QED
    BY <1>6 DEF Lookup

LEMMA UnmarkedGoByMain ==
  ASSUME PlanInv, NEW pkt, Mark(pkt) = 0 \/ pkt.dst \notin Addr4
  PROVE  Devs(pkt) = {Main}
  <1>1. Usable(pkt, routes) = {}
    BY RulesAre DEF Usable
  <1> QED
    BY <1>1 DEF Devs, DevsOver

(* What the mark of a packet stands for while chains are loaded.           *)
LEMMA MarkDecides ==
  ASSUME PlanInv, InOrder(seen), loaded # None, NEW pkt \in Packets
  PROVE  \/ /\ Mark(pkt) = 0
            /\ IntendedDevs(loaded, pkt) = {Main}
         \/ \E i \in Forwarding(loaded) :
              /\ Mark(pkt) = MarkSet(loaded, loaded.rules[i].action)
              /\ IntendedDevs(loaded, pkt) = TargetDevs(loaded, loaded.rules[i].action)
  <1> DEFINE first == Firsts(NonFilters(loaded, pkt))
  <1>1. /\ loaded \in seen /\ loaded \in Configs
        /\ MarksResolve(loaded) /\ FieldsAreRendered(loaded)
    BY OrderAgrees DEF PlanInv, SeenInv
  <1>2. /\ NonFilters(loaded, pkt) = {} => Mark(pkt) = 0
        /\ \A a \in first : Mark(pkt) = MarkSet(loaded, a.rule.action)
    BY <1>1, FirstLineDecides, AllRender
  <1>3. IntendedDevs(loaded, pkt) =
          IF first = {} THEN {Main} ELSE UNION {TargetDevs(loaded, a.rule.action) : a \in first}
    BY DEF IntendedDevs, NonFilters
  <1>4. CASE NonFilters(loaded, pkt) = {}
    BY <1>2, <1>3, <1>4 DEF Firsts
  <1>5. CASE NonFilters(loaded, pkt) # {}
    <2>1. PICK a \in NonFilters(loaded, pkt) : first = {a}
      BY <1>1, <1>5, FirstNonFilter
    <2>2. IntendedDevs(loaded, pkt) = TargetDevs(loaded, a.rule.action)
      BY <1>3, <2>1
    <2>3. PICK i \in Enabled(loaded) : a.rule = loaded.rules[i]
      BY <1>1, ApplicableAre DEF NonFilters
    <2>4. CASE a.rule.action.type = "direct"
      BY <1>2, <2>1, <2>2, <2>4 DEF MarkSet, TargetDevs
    <2>5. CASE a.rule.action.type # "direct"
      <3>1. i \in Forwarding(loaded)
        BY <2>3, <2>5 DEF Forwarding, NonFilters
      <3> QED
        BY <1>2, <2>1, <2>2, <2>3, <3>1
    <2> QED
      BY <2>4, <2>5
  <1> QED
    BY <1>4, <1>5

(* A marked packet finds the table of the rule that marked it, whoever put *)
(* the ip rule there.                                                      *)
LEMMA MarkLeadsToTable ==
  ASSUME PlanInv, InOrder(seen), loaded # None, NEW pkt,
         NEW i \in Forwarding(loaded),
         Mark(pkt) = MarkSet(loaded, loaded.rules[i].action),
         NEW r \in rules, r.mark = Mark(pkt), pkt.dst \in Addr4
  PROVE  r.table = Resolve(loaded, loaded.rules[i].action, "table")
  <1> DEFINE action == loaded.rules[i].action
  <1>1. loaded \in seen /\ loaded \in Configs /\ MarksResolve(loaded)
    BY OrderAgrees DEF PlanInv, SeenInv
  <1>2. PICK x \in RuleCommands(loaded) :
          /\ x.op = "rule"
          /\ x.rule.mark = Resolve(loaded, action, "mark")
          /\ x.rule.table = Resolve(loaded, action, "table")
    BY <1>1, ForwardingRules
  <1>3. MarkSet(loaded, action) = Resolve(loaded, action, "mark")
    BY <1>1, ForwardingRules
  <1>4. PICK d \in seen : \E y \in RuleCommands(d) : y.op = "rule" /\ y.rule = r
    BY RulesAre
  <1> QED
    BY <1>1, <1>2, <1>3, <1>4 DEF InOrder, Compatible

LEMMA MarkLeadsToTarget ==
  ASSUME PlanInv, RouteInv, InOrder(seen), loaded # None, NEW pkt,
         NEW i \in Forwarding(loaded),
         Mark(pkt) = MarkSet(loaded, loaded.rules[i].action),
         NEW r \in rules, r.mark = Mark(pkt), pkt.dst \in Addr4
  PROVE  Lookup(routes, r.table, pkt.dst) = TargetDevs(loaded, loaded.rules[i].action)
  <1> DEFINE action == loaded.rules[i].action
  <1>1. loaded \in seen /\ loaded \in Configs /\ MarksResolve(loaded)
    BY OrderAgrees DEF PlanInv, SeenInv
  <1>2. r.table = Resolve(loaded, action, "table")
    BY MarkLeadsToTable
  <1>3. /\ Lookup(OwnRoutes(loaded), r.table, pkt.dst) = TargetDevs(loaded, action)
        /\ TargetDevs(loaded, action) # {}
    BY <1>1, <1>2 DEF MarksResolve
  <1> QED
    BY <1>3, TableIsOwn
-----------------------------------------------------------------------------
(* No packet goes astray.                                                  *)

LEMMA DevsWhileLoaded ==
  ASSUME PlanInv, RouteInv, InOrder(seen), loaded # None, NEW pkt \in Packets
  PROVE  Devs(pkt) \subseteq {Main} \cup IntendedDevs(loaded, pkt)
  <1>1. CASE Mark(pkt) = 0 \/ pkt.dst \notin Addr4
    BY <1>1, UnmarkedGoByMain
  <1>2. CASE Mark(pkt) # 0 /\ pkt.dst \in Addr4
    <2>1. PICK i \in Forwarding(loaded) :
            /\ Mark(pkt) = MarkSet(loaded, loaded.rules[i].action)
            /\ IntendedDevs(loaded, pkt) = TargetDevs(loaded, loaded.rules[i].action)
      BY <1>2, MarkDecides
    <2>2. ASSUME NEW r \in Usable(pkt, routes)
          PROVE  Lookup(routes, r.table, pkt.dst) = IntendedDevs(loaded, pkt)
      <3>1. r \in rules /\ r.mark = Mark(pkt)
        BY DEF Usable
      <3> QED
        BY <1>2, <2>1, <3>1, MarkLeadsToTarget
    <2> QED
      BY <2>2 DEF Devs, DevsOver
  <1> QED
    BY <1>1, <1>2

RoutingInv == PlanInv /\ RouteInv /\ RulesInstalled

LEMMA RoutingInvInit == Init => RoutingInv
  BY PlanInvInit, RouteInvInit, RulesInstalledInit DEF RoutingInv

LEMMA RoutingInvStep == RoutingInv /\ [Next]_vars => RoutingInv'
  BY PlanInvStep, RouteInvStep, RulesInstalledStep DEF RoutingInv

(* In the middle of an apply, after an abort and while there are no        *)
(* chains, a packet leaves by an interface that a configuration since the  *)
(* boot meant for it, or by table main.                                    *)
THEOREM NoneMisrouted == Spec => []NeverMisrouted
  <1>1. RoutingInv => NeverMisrouted
    <2> SUFFICES ASSUME RoutingInv, InOrder(seen), NEW pkt \in Packets
                 PROVE  Devs(pkt) \subseteq {Main} \cup UNION {IntendedDevs(c, pkt) : c \in seen}
      BY DEF NeverMisrouted
    <2>1. CASE loaded = None
      BY <2>1, UnmarkedGoByMain DEF RoutingInv, Mark
    <2>2. CASE loaded # None
      <3>1. loaded \in seen
        BY <2>2 DEF RoutingInv, PlanInv, SeenInv
      <3>2. Devs(pkt) \subseteq {Main} \cup IntendedDevs(loaded, pkt)
        BY <2>2, DevsWhileLoaded DEF RoutingInv
      <3> QED
        BY <3>1, <3>2
    <2> QED
      BY <2>1, <2>2
  <1> QED
    BY <1>1, RoutingInvInit, RoutingInvStep, PTL DEF Spec
-----------------------------------------------------------------------------
(* After a complete apply the interfaces are just those meant.             *)

LEMMA DevsInForce ==
  ASSUME RoutingInv, phase = "done", InOrder(seen), NEW pkt \in Packets,
         pkt.dst \in Addr4 \/ Mark(pkt) = 0
  PROVE  Devs(pkt) = IntendedDevs(config, pkt)
  <1>1. /\ PlanInv /\ RouteInv /\ RulesInstalled
        /\ config \in seen /\ config \in Configs
        /\ loaded = config /\ loaded # None
        /\ MarksResolve(config) /\ DistinctPriorities(config)
    BY OrderAgrees, NoneAssumption DEF RoutingInv, PlanInv, SeenInv
  <1>2. CASE Mark(pkt) = 0
    <2>1. Devs(pkt) = {Main}
      BY <1>1, <1>2, UnmarkedGoByMain
    <2>2. ASSUME NEW i \in Forwarding(config)
          PROVE  MarkSet(config, config.rules[i].action) # 0
      BY <1>1, ForwardingRules DEF MarksResolve
    <2> QED
      BY <1>1, <1>2, <2>1, <2>2, MarkDecides
  <1>3. CASE Mark(pkt) # 0
    <2>1. pkt.dst \in Addr4 /\ Addr4 # {}
      BY <1>3
    <2>2. PICK i \in Forwarding(config) :
            /\ Mark(pkt) = MarkSet(config, config.rules[i].action)
            /\ IntendedDevs(config, pkt) = TargetDevs(config, config.rules[i].action)
      BY <1>1, <1>3, MarkDecides
    <2>3. IntendedDevs(config, pkt) # {}
      BY <1>1, <2>2 DEF MarksResolve
    <2>4. ASSUME NEW r \in rules, r.mark = Mark(pkt)
          PROVE  Lookup(routes, r.table, pkt.dst) = IntendedDevs(config, pkt)
      BY <1>1, <2>1, <2>2, <2>4, MarkLeadsToTarget
    <2>5. Usable(pkt, routes) # {}
      <3>1. PICK x \in RuleCommands(config) :
              /\ x.op = "rule"
              /\ x.rule.mark = Mark(pkt)
        BY <1>1, <2>1, <2>2, ForwardingRules
      <3>2. x.rule \in PlanRules(config)
        BY <3>1 DEF PlanRules, Commands
      <3>3. x.rule \in rules
        BY <1>1, <3>2 DEF RulesInstalled
      <3>4. x.rule \in Usable(pkt, routes)
        BY <2>1, <2>3, <2>4, <3>1, <3>3 DEF Usable
      <3> QED
        BY <3>4
    <2> DEFINE usable == Usable(pkt, routes)
               P == {r.priority : r \in usable}
    <2>6. PICK r \in usable : \A q \in usable : r.priority <= q.priority
      <3>1. P \subseteq Nat /\ P # {}
        BY <1>1, <2>5, RulesAre DEF Usable
      <3>2. PICK n \in P : \A k \in P : n <= k
        BY <3>1, SmallestNat
      <3> QED
        BY <3>2
    <2>7. \A q \in usable : Lookup(routes, q.table, pkt.dst) = IntendedDevs(config, pkt)
      BY <2>4 DEF Usable
    <2> DEFINE first == {q \in usable : \A k \in usable : q.priority <= k.priority}
    <2>8. Devs(pkt) = UNION {Lookup(routes, q.table, pkt.dst) : q \in first}
      BY <2>5 DEF Devs, DevsOver
    <2>9. r \in first /\ first \subseteq usable
      BY <2>6
    <2> HIDE DEF usable, first
    <2> QED
      BY <2>7, <2>8, <2>9
  <1> QED
    BY <1>2, <1>3

(* No packet is meant for the interface that stands for none.              *)
LEMMA IntendedDevsAre ==
  ASSUME PlanInv, InOrder(seen), loaded # None, NEW pkt \in Packets,
         pkt.dst \in Addr4 \/ Mark(pkt) = 0, NEW d \in IntendedDevs(loaded, pkt)
  PROVE  /\ d # None
         /\ d \in UNION {{Main}, UNION {TargetDevs(loaded, loaded.rules[i].action) :
                                          i \in Forwarding(loaded)}}
  <1>1. loaded \in Configs /\ MarksResolve(loaded) /\ RoutesOnce(loaded)
    BY OrderAgrees DEF PlanInv, SeenInv
  <1>2. CASE d = Main
    BY <1>2, MainAssumption, NoneAssumption
  <1>3. CASE d # Main
    <2>1. PICK i \in Forwarding(loaded) :
            /\ Mark(pkt) = MarkSet(loaded, loaded.rules[i].action)
            /\ IntendedDevs(loaded, pkt) = TargetDevs(loaded, loaded.rules[i].action)
      BY <1>3, MarkDecides
    <2>2. Mark(pkt) # 0
      BY <1>1, <2>1, ForwardingRules DEF MarksResolve
    <2>3. d \in Lookup(OwnRoutes(loaded),
                       Resolve(loaded, loaded.rules[i].action, "table"), pkt.dst)
      BY <1>1, <2>1, <2>2 DEF MarksResolve
    <2>4. PICK q \in OwnRoutes(loaded) : d \in q.devs
      BY <2>3 DEF Lookup, Best
    <2>5. PICK x \in Commands(loaded) : x.op = "route" /\ x.route = q
      BY <1>1, <2>4, OwnAreAll DEF PlanRoutes
    <2>6. d # None
      BY <1>1, <2>4, <2>5, RouteCommandsAre
    <2> QED
      BY <2>1, <2>6
  <1> QED
    BY <1>2, <1>3
-----------------------------------------------------------------------------
(* The forward chain.                                                      *)

LEMMA OutIsPacket ==
  ASSUME NEW pkt \in Packets, NEW d, d # None
  PROVE  /\ Packet([pkt EXCEPT !.oif = d])
         /\ [pkt EXCEPT !.oif = d].oif = d
         /\ [pkt EXCEPT !.oif = d].ct = pkt.ct
  BY PacketFields, PacketAssumption DEF Packet

FilterLines(c, out) ==
  {line \in ForwardWithoutState(c) : Satisfies(out, line.expr)}

LEMMA FilterLinesAre ==
  ASSUME NEW c \in Configs, FieldsAreRendered(c),
         NEW out, Packet(out), out.oif # None
  PROVE  /\ \A line \in FilterLines(c, out) :
              /\ line.accept = FALSE
              /\ line.at \in Nat \X (Nat \ {0}) \X {0}
              /\ \E a \in Applicable(c, out) : IsFilter(a.rule)
         /\ \A a \in Applicable(c, out) : IsFilter(a.rule) => FilterLines(c, out) # {}
  <1>1. ASSUME NEW line \in FilterLines(c, out)
        PROVE  /\ line.accept = FALSE
               /\ line.at \in Nat \X (Nat \ {0}) \X {0}
               /\ \E a \in Applicable(c, out) : IsFilter(a.rule)
    <2>1. PICK i \in DOMAIN c.rules :
            /\ c.rules[i].enabled /\ IsFilter(c.rules[i])
            /\ line.at = <<c.rules[i].priority, i, 0>>
            /\ line.accept = FALSE
            /\ line.expr \in MatchExprs(c, c.rules[i].match)
      BY DEF FilterLines, ForwardWithoutState, Renders, Position
    <2>2. i \in Nat \ {0} /\ c.rules[i].priority \in Nat
      BY RuleIndices, ConfigAssumption DEF Config
    <2>3. Matches(c, c.rules[i].match, out)
      BY <2>1, RenderingIsExact DEF FilterLines, Enabled
    <2> DEFINE a == [at |-> <<c.rules[i].priority, i, 0>>, rule |-> c.rules[i]]
    <2>4. a \in Applicable(c, out) /\ IsFilter(a.rule)
      BY <2>1, <2>3 DEF Applicable
    <2> QED
      BY <2>1, <2>2, <2>4
  <1>2. ASSUME NEW a \in Applicable(c, out), IsFilter(a.rule)
        PROVE  FilterLines(c, out) # {}
    <2>1. PICK i \in Enabled(c) :
            a.rule = c.rules[i] /\ Matches(c, c.rules[i].match, out)
      BY ApplicableAre
    <2>2. PICK e \in MatchExprs(c, c.rules[i].match) : Satisfies(out, e)
      BY <2>1, RenderingIsExact
    <2> DEFINE line == [at |-> Position(c, i), expr |-> e, accept |-> FALSE]
    <2>3. line \in ForwardWithoutState(c)
      <3>1. i \in {j \in DOMAIN c.rules : Renders(c, c.rules[j]) /\ IsFilter(c.rules[j])}
        BY <1>2, <2>1 DEF Renders, Enabled
      <3>2. line \in {[at |-> Position(c, i), expr |-> f, accept |-> FALSE] :
                        f \in MatchExprs(c, c.rules[i].match)}
        BY <2>2
      <3> HIDE DEF line
      <3> QED
        BY <3>1, <3>2 DEF ForwardWithoutState
    <2>4. line \in FilterLines(c, out)
      BY <2>2, <2>3 DEF FilterLines
    <2> QED
      BY <2>4
  <1> QED
    BY <1>1, <1>2
-----------------------------------------------------------------------------
(* A packet is dropped just when it is meant to be.                        *)

(* What IntendedFate says of a packet that leaves by a known interface.    *)
MeantToDrop(c, out) ==
  \/ out.ct = "invalid"
  \/ /\ ~(out.ct = "established" /\ c.allowEstablished)
     /\ \E a \in Firsts(Applicable(c, out)) : IsFilter(a.rule)

ForwardHits(c, out) == {line \in Forward(c) : Satisfies(out, line.expr)}

InvalidLine ==
  [at |-> <<0, 1, 0>>, expr |-> {Condition("ct", {"invalid"})}, accept |-> FALSE]
EstablishedLine ==
  [at |-> <<0, 0, 0>>, expr |-> {Condition("ct", {"established"})}, accept |-> TRUE]

LEMMA StateLines ==
  ASSUME NEW c, NEW out
  PROVE  ForwardHits(c, out) =
           FilterLines(c, out)
             \cup (IF out.ct = "invalid" THEN {InvalidLine} ELSE {})
             \cup (IF out.ct = "established" /\ c.allowEstablished
                   THEN {EstablishedLine} ELSE {})
  <1>1. Satisfies(out, InvalidLine.expr) <=> out.ct = "invalid"
    <2>1. Satisfies(out, {Condition("ct", {"invalid"})}) <=> out["ct"] \in {"invalid"}
      BY ConditionIsExact
    <2>2. InvalidLine.expr = {Condition("ct", {"invalid"})}
      BY DEF InvalidLine
    <2> QED
      BY <2>1, <2>2
  <1>2. Satisfies(out, EstablishedLine.expr) <=> out.ct = "established"
    <2>1. Satisfies(out, {Condition("ct", {"established"})}) <=> out["ct"] \in {"established"}
      BY ConditionIsExact
    <2>2. EstablishedLine.expr = {Condition("ct", {"established"})}
      BY DEF EstablishedLine
    <2> QED
      BY <2>1, <2>2
  <1>3. Forward(c) = ForwardWithoutState(c) \cup {InvalidLine}
                       \cup (IF c.allowEstablished THEN {EstablishedLine} ELSE {})
    BY DEF Forward, InvalidLine, EstablishedLine
  <1> QED
    BY <1>1, <1>2, <1>3 DEF ForwardHits, FilterLines

LEMMA DropsAsMeant ==
  ASSUME NEW c \in Configs, FieldsAreRendered(c), loaded = c,
         NEW out, Packet(out), out.oif # None,
         \A a, b \in Applicable(c, out) :
           IsFilter(b.rule) /\ ~IsFilter(a.rule) => Before(b.at, a.at)
  PROVE  Dropped(out) <=> MeantToDrop(c, out)
  <1> DEFINE hits == ForwardHits(c, out)
             filters == FilterLines(c, out)
  <1>1. Dropped(out) <=> \E line \in Firsts(hits) : ~line.accept
    BY NoneAssumption DEF Dropped, Hit, ForwardHits
  <1>2. \A line \in filters :
          line.accept = FALSE /\ line.at \in Nat \X (Nat \ {0}) \X {0}
    BY FilterLinesAre
  <1> HIDE DEF hits, filters
  <1>3. CASE out.ct = "invalid"
    <2>1. hits = filters \cup {InvalidLine}
      BY <1>3, StateLines DEF hits, filters
    <2>2. \A line \in hits : ~Before(line.at, InvalidLine.at)
      BY <1>2, <2>1 DEF InvalidLine, Before
    <2>3. InvalidLine \in Firsts(hits) /\ ~InvalidLine.accept
      BY <2>1, <2>2 DEF Firsts, InvalidLine
    <2> QED
      BY <1>1, <1>3, <2>3 DEF MeantToDrop
  <1>4. CASE out.ct = "established" /\ c.allowEstablished
    <2>1. hits = filters \cup {EstablishedLine}
      BY <1>4, StateLines DEF hits, filters
    <2>2. \A line \in filters : Before(EstablishedLine.at, line.at)
      BY <1>2 DEF EstablishedLine, Before
    <2>3. \A line \in Firsts(hits) : line = EstablishedLine
      BY <2>1, <2>2 DEF Firsts
    <2>4. EstablishedLine.accept
      BY DEF EstablishedLine
    <2> QED
      BY <1>1, <1>4, <2>3, <2>4 DEF MeantToDrop
  <1>5. CASE out.ct # "invalid" /\ ~(out.ct = "established" /\ c.allowEstablished)
    <2>1. hits = filters
      BY <1>5, StateLines DEF hits, filters
    <2>2. Dropped(out) <=> filters # {}
      <3>1. \A line \in filters : line.at \in Nat \X Nat \X Nat
        BY <1>2
      <3>2. filters # {} => Firsts(filters) # {}
        BY <3>1, FirstsExist
      <3>3. Firsts(filters) \subseteq filters
        BY DEF Firsts
      <3> QED
        BY <1>1, <1>2, <2>1, <3>2, <3>3
    <2>3. filters # {} <=> \E a \in Applicable(c, out) : IsFilter(a.rule)
      BY FilterLinesAre DEF filters
    <2>4. (\E a \in Applicable(c, out) : IsFilter(a.rule)) <=>
            \E a \in Firsts(Applicable(c, out)) : IsFilter(a.rule)
      <3>1. ASSUME NEW a \in Applicable(c, out), IsFilter(a.rule)
            PROVE  \E b \in Firsts(Applicable(c, out)) : IsFilter(b.rule)
        <4>1. \A x \in Applicable(c, out) : x.at \in Nat \X Nat \X Nat
          BY ApplicableAre
        <4>2. PICK b \in Applicable(c, out) : b \in Firsts(Applicable(c, out))
          BY <4>1, FirstsExist
        <4>3. ~Before(a.at, b.at)
          BY <4>2 DEF Firsts
        <4>4. IsFilter(b.rule)
          BY <3>1, <4>3
        <4> QED
          BY <4>2, <4>4
      <3> QED
        BY <3>1 DEF Firsts
    <2> QED
      BY <1>5, <2>2, <2>3, <2>4 DEF MeantToDrop
  <1> QED
    BY <1>3, <1>4, <1>5

(* After a complete apply packets do what the rules of that configuration  *)
(* say, whatever complete and aborted applies came before: they leave by   *)
(* the interfaces meant, and those that are to be dropped are.             *)
THEOREM PolicyHolds == Spec => []PolicyInForce
  <1>1. RoutingInv => PolicyInForce
    <2> SUFFICES ASSUME RoutingInv, phase = "done", InOrder(seen), FiltersFirst(config),
                        NEW pkt \in Packets, pkt.dst \in Addr4 \/ Mark(pkt) = 0
                 PROVE  Fate(pkt) = IntendedFate(config, pkt)
      BY DEF PolicyInForce
    <2>1. /\ PlanInv
          /\ config \in Configs /\ loaded = config /\ loaded # None
          /\ FieldsAreRendered(config)
      BY OrderAgrees, NoneAssumption DEF RoutingInv, PlanInv, SeenInv
    <2> DEFINE Out(d) == [pkt EXCEPT !.oif = d]
               D == IntendedDevs(config, pkt)
    <2>2. Devs(pkt) = D
      BY DevsInForce
    <2>3. ASSUME NEW d \in D
          PROVE  Dropped(Out(d)) <=> MeantToDrop(config, Out(d))
      <3>1. /\ d # None
            /\ d \in UNION {{Main}, UNION {TargetDevs(config, config.rules[i].action) :
                                             i \in Forwarding(config)}}
        BY <2>1, IntendedDevsAre
      <3>2. Packet(Out(d)) /\ Out(d).oif # None
        BY <3>1, OutIsPacket
      <3>3. \A a, b \in Applicable(config, Out(d)) :
              IsFilter(b.rule) /\ ~IsFilter(a.rule) => Before(b.at, a.at)
        BY <3>1 DEF FiltersFirst
      <3> QED
        BY <2>1, <3>2, <3>3, DropsAsMeant
    <2>4. ASSUME NEW d \in D
          PROVE  (IF Dropped(Out(d)) THEN "drop" ELSE d) =
                   (IF pkt.ct = "invalid" THEN "drop"
                    ELSE IF pkt.ct = "established" /\ config.allowEstablished THEN d
                    ELSE IF \E a \in Firsts(Applicable(config, Out(d))) : IsFilter(a.rule)
                    THEN "drop" ELSE d)
      <3>1. d # None
        BY <2>1, IntendedDevsAre
      <3>2. Out(d).ct = pkt.ct
        BY <3>1, OutIsPacket
      <3> QED
        BY <2>3, <3>2 DEF MeantToDrop
    <2>5. Fate(pkt) = {IF Dropped(Out(d)) THEN "drop" ELSE d : d \in D}
      BY <2>2 DEF Fate
    <2>6. IntendedFate(config, pkt) =
            {IF pkt.ct = "invalid" THEN "drop"
             ELSE IF pkt.ct = "established" /\ config.allowEstablished THEN d
             ELSE IF \E a \in Firsts(Applicable(config, Out(d))) : IsFilter(a.rule)
             THEN "drop" ELSE d : d \in D}
      BY DEF IntendedFate
    <2> HIDE DEF D, Out
    <2> QED
      BY <2>4, <2>5, <2>6
  <1> QED
    BY <1>1, RoutingInvInit, RoutingInvStep, PTL DEF Spec

-----------------------------------------------------------------------------
(* Links are lost and their routes with them: the members of a failover    *)
(* group back each other up, and the source NAT a rule asks for holds on   *)
(* whatever link is left.                                                  *)

(* The routes that are left.                                               *)

LEMMA RoutesAreRecords ==
  ASSUME PlanInv, NEW r \in routes
  PROVE  /\ r = [table |-> r.table, dest |-> r.dest, metric |-> r.metric, devs |-> r.devs]
         /\ None \notin r.devs
  <1>1. PICK c \in seen : \E x \in Commands(c) : x.op = "route" /\ x.route = r
    BY DEF PlanInv, TypeOK, Ordered
  <1>2. c \in Configs
    BY DEF PlanInv, TypeOK
  <1>3. PICK x \in Commands(c) : x.op = "route" /\ x.route = r
    BY <1>1
  <1>4. /\ x \in TunnelRoutes(c) \cup WANGroupRoutes(c) \cup StaticRoutes(c)
        /\ None \notin r.devs
    BY <1>2, <1>3, RouteCommandsAre
  <1>5. CASE x \in TunnelRoutes(c)
    <2>1. PICK i \in DOMAIN c.tunnels :
            x = RouteCommand(<<1, i, 0>>, c.tunnels[i].table, Addr4, 0, {c.tunnels[i].dev})
      BY <1>5 DEF TunnelRoutes
    <2> QED
      BY <1>3, <1>4, <2>1 DEF RouteCommand
  <1>6. CASE x \in WANGroupRoutes(c)
    <2>1. PICK i \in DOMAIN c.groups : x \in GroupRoutes(c.groups[i], i)
      BY <1>6 DEF WANGroupRoutes
    <2> DEFINE g == c.groups[i]
    <2>2. \/ x = RouteCommand(<<2, i, 0>>, g.table, Addr4, 0, {m.dev : m \in Members(g.members)})
          \/ \E j \in DOMAIN g.members :
               x = RouteCommand(<<2, i, j>>, g.table, Addr4, Metric(g.members[j]),
                                {g.members[j].dev})
      BY <2>1 DEF GroupRoutes
    <2> QED
      BY <1>3, <1>4, <2>2 DEF RouteCommand
  <1>7. CASE x \in StaticRoutes(c)
    <2>1. PICK i \in DOMAIN c.statics :
            x = RouteCommand(<<3, i, 0>>, c.statics[i].table, c.statics[i].dest,
                             c.statics[i].metric, {c.statics[i].dev})
      BY <1>7 DEF StaticRoutes
    <2> QED
      BY <1>3, <1>4, <2>1 DEF RouteCommand
  <1> QED
    BY <1>4, <1>5, <1>6, <1>7

LEMMA WithoutIs ==
  ASSUME PlanInv, NEW lost
  PROVE  Without(lost) =
           {[table |-> r.table, dest |-> r.dest, metric |-> r.metric, devs |-> r.devs \ lost] :
              r \in {q \in routes : ~(q.devs \subseteq lost)}}
  <1>1. ASSUME NEW r \in routes
        PROVE  [r EXCEPT !.devs = @ \ lost] =
                 [table |-> r.table, dest |-> r.dest, metric |-> r.metric,
                  devs |-> r.devs \ lost]
    <2>1. r = [table |-> r.table, dest |-> r.dest, metric |-> r.metric, devs |-> r.devs]
      BY RoutesAreRecords
    <2> QED
      BY <2>1
  <1> QED
    BY <1>1, ZenonT(40) DEF Without
-----------------------------------------------------------------------------
(* Failover.                                                               *)

MemberRoute(g, m) ==
  [table |-> g.table, dest |-> Addr4, metric |-> Metric(m), devs |-> {m.dev}]

LEMMA GroupTableIs ==
  ASSUME NEW c \in Configs, NEW g \in Failover(c), OwnTable(c, g)
  PROVE  {r \in PlanRoutes(c) : r.table = g.table} =
           {MemberRoute(g, m) : m \in Members(g.members)}
  <1>1. g \in Members(c.groups) /\ g.enabled /\ g.mode # "weighted-ecmp" /\ g.table # 0
    BY DEF Failover
  <1>2. ASSUME NEW m \in Members(g.members)
        PROVE  MemberRoute(g, m) \in PlanRoutes(c)
    <2>1. PICK i \in DOMAIN c.groups : c.groups[i] = g
      BY <1>1 DEF Members
    <2>2. PICK j \in DOMAIN g.members : g.members[j] = m
      BY DEF Members
    <2> DEFINE x == RouteCommand(<<2, i, j>>, g.table, Addr4, Metric(m), {m.dev})
    <2>3. x \in GroupRoutes(c.groups[i], i)
      BY <1>1, <2>1, <2>2 DEF GroupRoutes
    <2>4. x \in WANGroupRoutes(c)
      BY <1>1, <2>1, <2>3 DEF WANGroupRoutes
    <2>5. x \in Commands(c) /\ x.op = "route" /\ x.route = MemberRoute(g, m)
      BY <2>4 DEF Commands, RouteCommand, MemberRoute
    <2> QED
      BY <2>5 DEF PlanRoutes
  <1>3. ASSUME NEW r \in PlanRoutes(c), r.table = g.table
        PROVE  \E m \in Members(g.members) : r = MemberRoute(g, m)
    <2>1. PICK x \in Commands(c) : x.op = "route" /\ x.route = r
      BY DEF PlanRoutes
    <2>2. x \in WANGroupRoutes(c)
      BY <1>3, <2>1, RouteCommandsAre DEF OwnTable
    <2>3. PICK i \in DOMAIN c.groups : x \in GroupRoutes(c.groups[i], i)
      BY <2>2 DEF WANGroupRoutes
    <2>4. x.route.table = c.groups[i].table
      BY <2>3 DEF GroupRoutes, RouteCommand
    <2>5. c.groups[i] = g
      BY <1>3, <2>1, <2>4 DEF OwnTable, Members
    <2>6. PICK j \in DOMAIN g.members :
            x = RouteCommand(<<2, i, j>>, g.table, Addr4, Metric(g.members[j]),
                             {g.members[j].dev})
      BY <1>1, <2>3, <2>5 DEF GroupRoutes
    <2>7. g.members[j] \in Members(g.members) /\ r = MemberRoute(g, g.members[j])
      BY <2>1, <2>6 DEF Members, MemberRoute, RouteCommand
    <2> QED
      BY <2>7
  <1>4. \A m \in Members(g.members) : MemberRoute(g, m).table = g.table
    BY DEF MemberRoute
  <1> QED
    BY <1>2, <1>3, <1>4

LEMMA GroupRoutesThere ==
  ASSUME RoutingInv, phase = "done", Agreeing(seen),
         NEW g \in Failover(config), OwnTable(config, g)
  PROVE  {r \in routes : r.table = g.table} =
           {MemberRoute(g, m) : m \in Members(g.members)}
  <1>1. /\ PlanInv /\ RouteInv /\ config \in Configs
        /\ loaded = config /\ loaded # None
    BY NoneAssumption DEF RoutingInv, PlanInv, SeenInv, TypeOK
  <1>2. {r \in PlanRoutes(config) : r.table = g.table} =
          {MemberRoute(g, m) : m \in Members(g.members)}
    BY <1>1, GroupTableIs
  <1>3. PlanRoutes(config) \subseteq routes
    BY <1>1 DEF RouteInv
  <1>4. PICK m \in Members(g.members) : TRUE
    <2>1. PICK i \in DOMAIN config.groups : config.groups[i] = g
      BY DEF Failover, Members
    <2>2. config.groups \in Seq(Group)
      BY <1>1, ConfigAssumption DEF Config
    <2>3. g \in Group
      BY <2>1, <2>2, SeqElements
    <2> DEFINE ms == g.members
    <2>4. ms \in Seq([dev : STRING, priority : Nat]) /\ ms # <<>>
      BY <2>3 DEF Group
    <2> HIDE DEF ms
    <2>5. 1 \in DOMAIN ms
      BY <2>4
    <2> QED
      BY <2>5 DEF Members, ms
  <1>5. ASSUME NEW r \in routes, r.table = g.table
        PROVE  r \in PlanRoutes(config)
    <2>1. MemberRoute(g, m) \in PlanRoutes(config) /\ MemberRoute(g, m).table = g.table
      BY <1>2, <1>4 DEF MemberRoute
    <2> QED
      BY <1>1, <1>5, <2>1, TableIsLoaded
  <1> QED
    BY <1>2, <1>3, <1>5

(* Whichever links of a failover group are lost, its packets leave by the  *)
(* member of lowest priority that is left, for any group with a table of   *)
(* its own.                                                                *)
THEOREM Failovers == Spec => []FailoverBacksUp
  <1>1. RoutingInv => FailoverBacksUp
    <2> SUFFICES ASSUME RoutingInv, phase = "done", Agreeing(seen),
                        NEW g \in Failover(config), OwnTable(config, g),
                        NEW lost, NEW dst \in Addr4
                 PROVE  Lookup(Without(lost), g.table, dst) =
                          {m.dev : m \in {n \in {k \in Members(g.members) : k.dev \notin lost} :
                             \A k \in {l \in Members(g.members) : l.dev \notin lost} :
                               Metric(n) <= Metric(k)}}
      BY DEF FailoverBacksUp
    <2> DEFINE rest == {k \in Members(g.members) : k.dev \notin lost}
               left == {q \in Without(lost) : q.table = g.table /\ dst \in q.dest}
               first == {n \in rest : \A k \in rest : Metric(n) <= Metric(k)}
    <2>1. {r \in routes : r.table = g.table} = {MemberRoute(g, m) : m \in Members(g.members)}
      BY GroupRoutesThere
    <2>2. left = {MemberRoute(g, m) : m \in rest}
      <3>1. ASSUME NEW q \in left
            PROVE  \E m \in rest : q = MemberRoute(g, m)
        <4>1. PICK r \in routes :
                /\ ~(r.devs \subseteq lost)
                /\ q = [table |-> r.table, dest |-> r.dest, metric |-> r.metric,
                        devs |-> r.devs \ lost]
          BY WithoutIs DEF RoutingInv
        <4>2. r.table = g.table
          BY <4>1
        <4>3. PICK m \in Members(g.members) : r = MemberRoute(g, m)
          BY <2>1, <4>2
        <4>4. m \in rest /\ r.devs \ lost = r.devs
          BY <4>1, <4>3 DEF MemberRoute
        <4> QED
          BY <4>1, <4>3, <4>4 DEF MemberRoute
      <3>2. ASSUME NEW m \in rest
            PROVE  MemberRoute(g, m) \in left
        <4> DEFINE r == MemberRoute(g, m)
        <4>1. r \in routes /\ ~(r.devs \subseteq lost)
          BY <2>1 DEF MemberRoute
        <4>2. r = [table |-> r.table, dest |-> r.dest, metric |-> r.metric,
                   devs |-> r.devs \ lost]
          BY DEF MemberRoute
        <4>3. r.table = g.table /\ dst \in r.dest
          BY DEF MemberRoute
        <4> HIDE DEF r
        <4>4. r \in Without(lost)
          BY <4>1, <4>2, WithoutIs DEF RoutingInv
        <4>5. r \in left
          BY <4>3, <4>4
        <4> QED
          BY <4>5 DEF r
      <3> HIDE DEF left, rest
      <3> QED
        BY <3>1, <3>2
    <2>3. \A m : /\ MemberRoute(g, m).dest = Addr4
                 /\ MemberRoute(g, m).metric = Metric(m)
                 /\ MemberRoute(g, m).devs = {m.dev}
      BY DEF MemberRoute
    <2>4. Best(left) = {MemberRoute(g, m) : m \in first}
      <3> HIDE DEF left, rest
      <3>1. ASSUME NEW r \in Best(left)
            PROVE  \E m \in first : r = MemberRoute(g, m)
        <4>1. /\ r \in left
              /\ \A q \in left :
                   \/ r.dest \subseteq q.dest /\ r.dest # q.dest
                   \/ r.dest = q.dest /\ r.metric <= q.metric
          BY DEF Best
        <4>2. PICK m \in rest : r = MemberRoute(g, m)
          BY <2>2, <4>1
        <4>3. ASSUME NEW k \in rest
              PROVE  Metric(m) <= Metric(k)
          <5>1. MemberRoute(g, k) \in left
            BY <2>2
          <5> QED
            BY <2>3, <4>1, <4>2, <5>1
        <4> QED
          BY <4>2, <4>3
      <3>2. ASSUME NEW m \in first
            PROVE  MemberRoute(g, m) \in Best(left)
        <4>1. MemberRoute(g, m) \in left
          BY <2>2
        <4>2. ASSUME NEW q \in left
              PROVE  /\ MemberRoute(g, m).dest = q.dest
                     /\ MemberRoute(g, m).metric <= q.metric
          <5>1. PICK k \in rest : q = MemberRoute(g, k)
            BY <2>2
          <5> QED
            BY <2>3, <5>1
        <4> QED
          BY <4>1, <4>2 DEF Best
      <3> HIDE DEF first
      <3> QED
        BY <3>1, <3>2
    <2>5. UNION {r.devs : r \in Best(left)} = {m.dev : m \in first}
      <3> HIDE DEF left, first
      <3> QED
        BY <2>3, <2>4
    <2>6. Lookup(Without(lost), g.table, dst) = UNION {r.devs : r \in Best(left)}
      BY DEF Lookup
    <2> QED
      BY <2>5, <2>6
  <1> QED
    BY <1>1, RoutingInvInit, RoutingInvStep, PTL DEF Spec
-----------------------------------------------------------------------------
(* Source NAT.                                                             *)

(* The 1:1 entries that hold for a packet on the link it leaves by, and    *)
(* the line of each.                                                       *)
OneToOnes(c, out) ==
  {i \in DOMAIN c.oneToOne :
     /\ c.oneToOne[i].enabled /\ SingleHost(c.oneToOne[i])
     /\ out.src \in c.oneToOne[i].inner
     /\ c.oneToOne[i].devs = {} \/ out.oif \in c.oneToOne[i].devs}

OneToOneLine(c, i) ==
  [at |-> <<1, i, 0>>, to |-> c.oneToOne[i].outer,
   expr |-> Given("oif", c.oneToOne[i].devs) \cup {Condition("src", c.oneToOne[i].inner)}]

LinkLine(c, i) == [at |-> <<2, i, 0>>, to |-> {}, expr |-> {Condition("oif", {c.links[i].dev})}]

RuleLine(i, d) == [at |-> <<3, i, 0>>, to |-> {}, expr |-> {Condition("oif", {d})}]

NatRules(c) ==
  {j \in DOMAIN c.rules :
     c.rules[j].enabled /\ c.rules[j].action.nat /\ c.rules[j].action.target # ""}

LEMMA RuleLinesAre ==
  ASSUME NEW c, NEW line
  PROVE  line \in RuleLines(c) <=>
           \E i \in NatRules(c) : \E d \in NatDevs(c, c.rules[i].action) : line = RuleLine(i, d)
  <1> DEFINE L(i) == {RuleLine(i, d) : d \in NatDevs(c, c.rules[i].action)}
  <1>1. RuleLines(c) = UNION {L(i) : i \in NatRules(c)}
    BY DEF RuleLines, RuleLine, NatRules
  <1>2. \A i : line \in L(i) <=> \E d \in NatDevs(c, c.rules[i].action) : line = RuleLine(i, d)
    OBVIOUS
  <1> HIDE DEF L
  <1>3. line \in RuleLines(c) <=> \E i \in NatRules(c) : line \in L(i)
    BY <1>1
  <1> QED
    BY <1>2, <1>3

LEMMA OneToOneLineIsExact ==
  ASSUME NEW c, NEW out, NEW i
  PROVE  Satisfies(out, OneToOneLine(c, i).expr) <=>
           /\ out.src \in c.oneToOne[i].inner
           /\ c.oneToOne[i].devs = {} \/ out.oif \in c.oneToOne[i].devs
  <1> DEFINE n == c.oneToOne[i]
  <1>1. OneToOneLine(c, i).expr = Given("oif", n.devs) \cup {Condition("src", n.inner)}
    BY DEF OneToOneLine
  <1>2. Satisfies(out, {Condition("src", n.inner)}) <=> out["src"] \in n.inner
    BY ConditionIsExact
  <1>3. Satisfies(out, Given("oif", n.devs)) <=> n.devs = {} \/ out["oif"] \in n.devs
    BY GivenIsExact
  <1> HIDE DEF n
  <1>4. Satisfies(out, Given("oif", n.devs) \cup {Condition("src", n.inner)}) <=>
          Satisfies(out, Given("oif", n.devs)) /\ Satisfies(out, {Condition("src", n.inner)})
    BY BothAreExact
  <1>5. Satisfies(out, OneToOneLine(c, i).expr) <=>
          out["src"] \in n.inner /\ (n.devs = {} \/ out["oif"] \in n.devs)
    BY <1>1, <1>2, <1>3, <1>4
  <1> QED
    BY <1>5 DEF n

(* A line that holds for a packet is that of a 1:1 entry that does, or a   *)
(* later one that leaves the source to the link.                           *)
LEMMA NatLinesAre ==
  ASSUME NEW c \in Configs, NEW out,
         NEW line \in Postrouting(c), Satisfies(out, line.expr)
  PROVE  /\ line.at \in Nat \X Nat \X Nat
         /\ \/ \E i \in OneToOnes(c, out) : line = OneToOneLine(c, i)
            \/ line.at[1] > 1 /\ line.to = {}
  <1>1. line \in OneToOneLines(c) \cup LinkLines(c) \cup RuleLines(c)
    BY DEF Postrouting
  <1>2. CASE line \in OneToOneLines(c)
    <2>1. PICK i \in DOMAIN c.oneToOne :
            /\ c.oneToOne[i].enabled /\ SingleHost(c.oneToOne[i])
            /\ line = OneToOneLine(c, i)
      BY <1>2 DEF OneToOneLines, OneToOneLine
    <2>2. i \in Nat
      BY ConfigAssumption DEF Config
    <2>3. i \in OneToOnes(c, out)
      BY <2>1, OneToOneLineIsExact DEF OneToOnes
    <2>4. line.at \in Nat \X Nat \X Nat
      BY <2>1, <2>2 DEF OneToOneLine
    <2> QED
      BY <2>1, <2>3, <2>4
  <1>3. CASE line \in LinkLines(c)
    <2>1. PICK i \in DOMAIN c.links : line = LinkLine(c, i)
      BY <1>3 DEF LinkLines, LinkLine
    <2>2. i \in Nat
      BY ConfigAssumption DEF Config
    <2>3. line.at = <<2, i, 0>> /\ line.to = {}
      BY <2>1 DEF LinkLine
    <2> QED
      BY <2>2, <2>3
  <1>4. CASE line \in RuleLines(c)
    <2>1. PICK i \in NatRules(c) : \E d \in NatDevs(c, c.rules[i].action) : line = RuleLine(i, d)
      <3>1. line \in RuleLines(c) <=>
              \E i \in NatRules(c) : \E d \in NatDevs(c, c.rules[i].action) : line = RuleLine(i, d)
        BY RuleLinesAre
      <3>2. line \in RuleLines(c)
        BY <1>4
      <3> QED
        BY <3>1, <3>2
    <2>2. i \in Nat
      BY RuleIndices DEF NatRules
    <2>3. line.at = <<3, i, 0>> /\ line.to = {}
      BY <2>1 DEF RuleLine
    <2> QED
      BY <2>2, <2>3
  <1> QED
    BY <1>1, <1>2, <1>3, <1>4

LEMMA SourceIs ==
  ASSUME loaded \in Configs, loaded # None, loaded.nat, NEW out,
         NEW line \in Postrouting(loaded), Satisfies(out, line.expr)
  PROVE  Source(out) = UNION {n.outer : n \in Firsts(OwnAddresses(loaded, out))}
  <1> DEFINE hits == {l \in Postrouting(loaded) : Satisfies(out, l.expr)}
             own == OneToOnes(loaded, out)
             entries == OwnAddresses(loaded, out)
  <1>1. \A l \in hits : l.at \in Nat \X Nat \X Nat
    BY NatLinesAre
  <1>2. PICK first \in Firsts(hits) : first = CHOOSE l \in Firsts(hits) : TRUE
    <2>1. line \in hits
      OBVIOUS
    <2> HIDE DEF hits
    <2> QED
      BY <1>1, <2>1, FirstsExist
  <1>3. Source(out) = first.to
    BY <1>2 DEF Source, Hit
  <1>4. entries = {[at |-> <<i, 0, 0>>, outer |-> loaded.oneToOne[i].outer] : i \in own}
    BY DEF OwnAddresses, OneToOnes
  <1>5. first \in hits /\ \A l \in hits : ~Before(l.at, first.at)
    BY <1>2 DEF Firsts
  <1>6. CASE own = {}
    <2>1. first.to = {}
      BY <1>5, <1>6, NatLinesAre
    <2>2. Firsts(entries) = {}
      BY <1>4, <1>6 DEF Firsts
    <2> QED
      BY <1>3, <2>1, <2>2
  <1>7. CASE own # {}
    <2>1. own \subseteq Nat
      BY ConfigAssumption DEF Config, OneToOnes
    <2>2. PICK k \in own : \A i \in own : k <= i
      BY <1>7, <2>1, SmallestNat
    <2>3. OneToOneLine(loaded, k) \in hits
      <3>1. OneToOneLine(loaded, k) \in OneToOneLines(loaded)
        BY DEF OneToOnes, OneToOneLines, OneToOneLine
      <3>2. Satisfies(out, OneToOneLine(loaded, k).expr)
        BY OneToOneLineIsExact DEF OneToOnes
      <3> QED
        BY <3>1, <3>2 DEF Postrouting
    <2>4. OneToOneLine(loaded, k).at = <<1, k, 0>>
      BY DEF OneToOneLine
    <2>5. ~(first.at[1] > 1)
      BY <1>1, <1>5, <2>1, <2>3, <2>4 DEF Before
    <2>6. PICK i \in own : first = OneToOneLine(loaded, i)
      BY <1>5, <2>5, NatLinesAre
    <2>7. i = k
      <3>1. first.at = <<1, i, 0>>
        BY <2>6 DEF OneToOneLine
      <3>2. ~(k < i)
        BY <1>5, <2>3, <2>4, <3>1 DEF Before
      <3> QED
        BY <2>1, <2>2, <3>2
    <2>8. first.to = loaded.oneToOne[k].outer
      BY <2>6, <2>7 DEF OneToOneLine
    <2> DEFINE entry == [at |-> <<k, 0, 0>>, outer |-> loaded.oneToOne[k].outer]
    <2>9. Firsts(entries) = {entry}
      <3>1. entry \in entries
        BY <1>4
      <3>2. ASSUME NEW e \in entries
            PROVE  /\ ~Before(e.at, entry.at)
                   /\ Before(entry.at, e.at) \/ e = entry
        <4>1. PICK j \in own : e = [at |-> <<j, 0, 0>>, outer |-> loaded.oneToOne[j].outer]
          BY <1>4
        <4>2. j \in Nat /\ k \in Nat /\ k <= j
          BY <2>1, <2>2
        <4> QED
          BY <4>1, <4>2 DEF Before
      <3> HIDE DEF entry, entries
      <3> QED
        BY <3>1, <3>2 DEF Firsts
    <2>10. UNION {n.outer : n \in Firsts(entries)} = loaded.oneToOne[k].outer
      BY <2>9
    <2> QED
      BY <1>3, <2>8, <2>10
  <1> QED
    BY <1>6, <1>7

(* A marked packet whose rule asks for NAT leaves by a link of the rule.   *)
LEMMA NatLinkIsOfRule ==
  ASSUME RoutingInv, InOrder(seen), loaded # None, NatTablesAreOwn(loaded),
         NEW pkt \in Packets, AsksForNat(loaded, pkt), NEW lost,
         NEW d \in DevsOver(pkt, Without(lost)) \ {Main}
  PROVE  /\ d # None
         /\ \E i \in NatRules(loaded) : d \in NatDevs(loaded, loaded.rules[i].action)
  <1>1. /\ PlanInv /\ RouteInv
        /\ loaded \in seen /\ loaded \in Configs /\ Agreeing(seen)
        /\ MarksResolve(loaded) /\ RoutesOnce(loaded) /\ FieldsAreRendered(loaded)
    BY OrderAgrees DEF RoutingInv, PlanInv, SeenInv
  <1>2. PICK r \in rules : /\ r.mark = Mark(pkt) /\ pkt.dst \in Addr4
                           /\ d \in Lookup(Without(lost), r.table, pkt.dst)
    BY DEF DevsOver, Usable
  <1>3. PICK a \in Firsts(NonFilters(loaded, pkt)) : a.rule.action.nat
    BY DEF AsksForNat, NonFilters
  <1>4. Mark(pkt) = MarkSet(loaded, a.rule.action)
    BY <1>1, <1>3, FirstLineDecides, AllRender
  <1>5. a.rule.action.type # "direct"
    BY <1>1, <1>2, <1>4, RulesAre DEF MarkSet
  <1>6. PICK i \in Enabled(loaded) : a.rule = loaded.rules[i]
    BY <1>1, <1>3, ApplicableAre DEF NonFilters, Firsts
  <1>7. i \in Forwarding(loaded)
    BY <1>3, <1>5, <1>6 DEF Forwarding, NonFilters, Firsts
  <1> DEFINE action == loaded.rules[i].action
             T == Resolve(loaded, action, "table")
  <1>8. r.table = T
    BY <1>1, <1>2, <1>4, <1>6, <1>7, MarkLeadsToTable
  <1>9. PICK q \in routes : q.table = T /\ d \in q.devs
    <2>1. PICK w \in Without(lost) : w.table = T /\ d \in w.devs
      BY <1>2, <1>8 DEF Lookup, Best
    <2> QED
      BY <1>1, <2>1, WithoutIs
  <1>10. OwnRoutes(loaded) = PlanRoutes(loaded)
    BY <1>1, OwnAreAll
  <1>11. PICK p \in PlanRoutes(loaded) : p.table = T
    <2>1. Lookup(OwnRoutes(loaded), T, pkt.dst) # {}
      BY <1>1, <1>2, <1>7 DEF MarksResolve
    <2> QED
      BY <1>10, <2>1 DEF Lookup, Best
  <1>12. q \in OwnRoutes(loaded)
    BY <1>1, <1>9, <1>10, <1>11, TableIsLoaded
  <1>13. d \in Reach(loaded, action) /\ action.target # ""
    BY <1>3, <1>6, <1>7, <1>9, <1>12 DEF NatTablesAreOwn
  <1>14. d # None
    BY <1>1, <1>9, RoutesAreRecords
  <1>15. d \in NatDevs(loaded, action)
    BY <1>5, <1>6, <1>13, <1>14 DEF Reach, NatDevs, TargetDevs, Groups
  <1> QED
    BY <1>3, <1>6, <1>13, <1>14, <1>15 DEF Enabled, NatRules

(* The source NAT a rule asks for holds on every link its packets may      *)
(* leave by, those that are left when others are lost included.            *)
THEOREM NatFollows == Spec => []NatFollowsRule
  <1>1. RoutingInv => NatFollowsRule
    <2> SUFFICES ASSUME RoutingInv, phase = "done", config.nat, InOrder(seen),
                        NatTablesAreOwn(config),
                        NEW pkt \in Packets, AsksForNat(config, pkt), NEW lost,
                        NEW d \in DevsOver(pkt, Without(lost)) \ {Main}
                 PROVE  Source([pkt EXCEPT !.oif = d]) =
                          UNION {n.outer : n \in
                                   Firsts(OwnAddresses(config, [pkt EXCEPT !.oif = d]))}
      BY DEF NatFollowsRule
    <2> DEFINE out == [pkt EXCEPT !.oif = d]
    <2>1. loaded = config /\ loaded # None /\ loaded \in Configs
      BY NoneAssumption DEF RoutingInv, PlanInv, SeenInv, TypeOK
    <2>2. PICK i \in NatRules(loaded) : d \in NatDevs(loaded, loaded.rules[i].action)
      BY <2>1, NatLinkIsOfRule
    <2>3. out.oif = d
      BY <2>1, NatLinkIsOfRule, OutIsPacket
    <2> DEFINE line == RuleLine(i, d)
    <2>4. line \in Postrouting(loaded)
      <3>1. line \in RuleLines(loaded)
        BY <2>2, RuleLinesAre
      <3> QED
        BY <2>1, <3>1 DEF Postrouting
    <2>5. Satisfies(out, line.expr)
      <3> HIDE DEF out
      <3>1. Satisfies(out, {Condition("oif", {d})}) <=> out["oif"] \in {d}
        BY ConditionIsExact
      <3> QED
        BY <2>3, <3>1 DEF RuleLine
    <2> HIDE DEF line, out
    <2>6. Source(out) = UNION {n.outer : n \in Firsts(OwnAddresses(loaded, out))}
      BY <2>1, <2>4, <2>5, SourceIs
    <2> QED
      BY <2>1, <2>6 DEF out
  <1> QED
    BY <1>1, RoutingInvInit, RoutingInvStep, PTL DEF Spec
=============================================================================
