---------------------------- MODULE PolicyRouting ----------------------------
(***************************************************************************)
(* From rules to packets: the policy part of a plan is applied command by  *)
(* command (BuildPlan and addRoutingPlan of internal/router/builder.go,    *)
(* the load of the rendered chains last) to a kernel that still holds what *)
(* earlier applies, complete or not, left there; packets are forwarded all *)
(* the while.  One apply at a time: Executor.tla is about several.         *)
(***************************************************************************)
EXTENDS PolicyRules, FiniteSets

CONSTANTS
  Histories, \* bound: the sets of configurations applied between two boots
  Packets    \* the packets that are looked at

Configs == UNION Histories

ASSUME ConfigAssumption == Configs \subseteq Config
ASSUME NoneAssumption == None \notin STRING /\ None \notin Nat /\ None \notin Configs
ASSUME MainAssumption == Main \in STRING
ASSUME PacketFields ==
  Packets \subseteq [iif : STRING, oif : {None}, ct : {"new", "established", "invalid"},
                     proto : STRING, sport : Nat \cup {None}, dport : Nat \cup {None},
                     src : Addr4 \cup Addr6, dst : Addr4 \cup Addr6]
ASSUME PacketAssumption ==
  \A pkt \in Packets :
    /\ pkt.oif = None /\ pkt.iif # None
    /\ {pkt.sport, pkt.dport} # {None} => pkt.proto \in {"tcp", "udp"}
    /\ {pkt.src, pkt.dst} \subseteq Addr4 \/ {pkt.src, pkt.dst} \subseteq Addr6

VARIABLES
  config,    \* the configuration applied last, None after a boot
  phase,     \* "booted", "applying", "done" or "aborted"
  todo,      \* the routing commands still to be run
  loaded,    \* the configuration whose chains the kernel has, or None
  rules,     \* the IPv4 `ip rule` entries: [priority, mark, table]
  routes,    \* the routes of the policy tables: [table, dest, metric, devs]
  seen       \* the configurations applied since the last boot

vars == <<config, phase, todo, loaded, rules, routes, seen>>

(* The commands of every plan since the boot: the kernel holds nothing else. *)
Ordered == UNION {Commands(c) : c \in seen}

TypeOK ==
  /\ config \in Configs \cup {None}
  /\ phase \in {"booted", "applying", "done", "aborted"}
  /\ todo \subseteq IF config = None THEN {} ELSE Commands(config)
  /\ loaded \in Configs \cup {None}
  /\ rules \subseteq {x.rule : x \in {y \in Ordered : y.op = "rule"}}
  /\ routes \subseteq {x.route : x \in {y \in Ordered : y.op = "route"}}
  /\ seen \subseteq Configs

Init ==
  /\ config = None
  /\ phase = "booted"
  /\ todo = {}
  /\ loaded = None
  /\ rules = {}
  /\ routes = {}
  /\ seen = {}

Apply(c) ==
  /\ phase # "applying"
  /\ config' = c
  /\ phase' = "applying"
  /\ todo' = Commands(c)
  /\ seen' = seen \cup {c}
  /\ UNCHANGED <<loaded, rules, routes>>

InstallRoute(x) ==
  /\ x.op = "route"
  /\ routes' = Replace(routes, x.route)
  /\ UNCHANGED rules

KeepRule(x) ==
  /\ x.op = "unrule"
  /\ UNCHANGED <<rules, routes>>

(* One of the entries at the priority goes; it is no error if none is there. *)
DeleteRule(x) ==
  /\ x.op = "unrule"
  /\ LET there == {r \in rules : r.priority = x.priority} IN
       IF there = {} THEN UNCHANGED rules
       ELSE \E r \in there : rules' = rules \ {r}
  /\ UNCHANGED routes

(* The kernel refuses an entry it has: then the plan stops (Abort).        *)
AddRule(x) ==
  /\ x.op = "rule"
  /\ x.rule \notin rules
  /\ rules' = rules \cup {x.rule}
  /\ UNCHANGED routes

(* The next command of the plan.                                           *)
RunCommand ==
  /\ phase = "applying"
  /\ \E x \in Firsts(todo) :
       /\ InstallRoute(x) \/ DeleteRule(x) \/ AddRule(x)
       /\ todo' = todo \ {x}
  /\ UNCHANGED <<config, phase, loaded, seen>>

(* `nft delete table`, the first half of the last command.                 *)
DropPolicy ==
  /\ phase = "applying" /\ todo = {} /\ loaded # None
  /\ loaded' = None
  /\ UNCHANGED <<config, phase, todo, rules, routes, seen>>

LoadPolicy ==
  /\ phase = "applying" /\ todo = {} /\ loaded = None
  /\ IF Loads(config) THEN loaded' = config /\ phase' = "done"
                      ELSE phase' = "aborted" /\ UNCHANGED loaded
  /\ todo' = {}
  /\ UNCHANGED <<config, rules, routes, seen>>

AbortUnknown ==
  /\ phase = "applying"
  /\ phase' = "failed"
  /\ todo' = {}
  /\ UNCHANGED <<config, loaded, rules, routes, seen>>

(* A command fails, the context is done or the daemon is killed.           *)
Abort ==
  /\ phase = "applying"
  /\ phase' = "aborted"
  /\ todo' = {}
  /\ UNCHANGED <<config, loaded, rules, routes, seen>>

(* Nothing the kernel holds survives a boot; lasd applies nothing by itself. *)
Boot ==
  /\ config' = None
  /\ phase' = "booted"
  /\ todo' = {}
  /\ loaded' = None
  /\ rules' = {}
  /\ routes' = {}
  /\ seen' = {}

Next ==
  \/ \E H \in Histories : seen \subseteq H /\ \E c \in H : Apply(c)
  \/ RunCommand
  \/ DropPolicy \/ LoadPolicy
  \/ Abort \/ Boot

Spec == Init /\ [][Next]_vars

-----------------------------------------------------------------------------
(* What the kernel does with a packet to be forwarded.                     *)

Hit(lines, pkt) == Firsts({line \in lines : Satisfies(pkt, line.expr)})

Mark(pkt) ==
  LET hit == IF loaded = None THEN {} ELSE Hit(Prerouting(loaded), pkt) IN
    IF hit = {} THEN 0 ELSE (CHOOSE line \in hit : TRUE).mark

(* The routes of a link that goes down go with it.                         *)
Without(lost) ==
  {[r EXCEPT !.devs = @ \ lost] : r \in {q \in routes : ~(q.devs \subseteq lost)}}

(* A rule whose table has no route for the packet is passed over.          *)
Usable(pkt, there) ==
  {r \in rules : /\ r.mark = Mark(pkt)
                 /\ pkt.dst \in Addr4
                 /\ Lookup(there, r.table, pkt.dst) # {}}

DevsOver(pkt, there) ==
  LET usable == Usable(pkt, there)
      first == {r \in usable : \A q \in usable : r.priority <= q.priority} IN
    IF usable = {} THEN {Main}
    ELSE UNION {Lookup(there, r.table, pkt.dst) : r \in first}

Devs(pkt) == DevsOver(pkt, routes)

Dropped(pkt) ==
  loaded # None /\ \E line \in Hit(Forward(loaded), pkt) : ~line.accept

(* The interfaces it may leave by, or "drop".                              *)
Fate(pkt) ==
  {IF Dropped([pkt EXCEPT !.oif = d]) THEN "drop" ELSE d : d \in Devs(pkt)}

(* The source with which the first packet of a connection leaves: {} for   *)
(* that of the link it leaves by.                                          *)
Source(pkt) ==
  LET hit == IF loaded = None THEN {} ELSE Hit(Postrouting(loaded), pkt) IN
    IF hit = {} THEN {pkt.src} ELSE (CHOOSE line \in hit : TRUE).to

-----------------------------------------------------------------------------
(* Configurations that say what they mean.  Validate checks none of this.  *)

Enabled(c) == {i \in DOMAIN c.rules : c.rules[i].enabled}
Forwarding(c) ==
  {i \in Enabled(c) : ~IsFilter(c.rules[i]) /\ c.rules[i].action.type # "direct"}

DistinctPriorities(c) ==
  \A i, j \in Enabled(c) : c.rules[i].priority = c.rules[j].priority => i = j

(* A plan sets a route of a table, prefix and metric once.                 *)
RoutesOnce(c) ==
  \A x, y \in Commands(c) :
    x.op = "route" /\ y.op = "route" /\ Slot(x.route) = Slot(y.route) => x = y

(* Every mark a rule stands for has one table, and that table leads to the *)
(* target of every rule that sets the mark.                                *)
MarksResolve(c) ==
  /\ \A x, y \in RuleCommands(c) :
       x.op = "rule" /\ y.op = "rule" /\ x.rule.mark = y.rule.mark =>
         x.rule.table = y.rule.table
  /\ \A i \in Forwarding(c) :
       LET action == c.rules[i].action IN
         /\ Resolve(c, action, "mark") # 0
         /\ TargetDevs(c, action) # {}
         /\ \A dst \in Addr4 :
              Lookup(OwnRoutes(c), Resolve(c, action, "table"), dst) = TargetDevs(c, action)

FamiliesAgree(c, m) ==
  LET Families(S) == {F \in {Addr4, Addr6} : S \cap F # {}}
      sets == UNION {s.cidrs : s \in ReferencedSets(c, m)} IN
    /\ m.src # {} /\ m.dst # {} => Families(m.src) = Families(m.dst)
    /\ m.sets # {} => sets # {}
    /\ m.sets # {} /\ m.src \cup m.dst # {} =>
         Cardinality(Families(m.src \cup m.dst \cup sets)) = 1

PortsHaveProtocols(m) ==
  m.sports \cup m.dports # {} => m.protos \subseteq {"tcp", "udp"}

FieldsAreRendered(c) ==
  \A i \in Enabled(c) :
    LET m == c.rules[i].match IN
      /\ FamiliesAgree(c, m)
      /\ PortsHaveProtocols(m)
      /\ m.tunnels = {} /\ m.labels = {}
      /\ ~IsFilter(c.rules[i]) => m.oif = None

(* No rule that forwards comes before one that drops the same packet.      *)
FiltersFirst(c) ==
  \A pkt \in Packets, d \in UNION {{Main}, UNION {TargetDevs(c, c.rules[i].action) :
                                               i \in Forwarding(c)}} :
    LET out == [pkt EXCEPT !.oif = d] IN
      \A a, b \in Applicable(c, out) :
        IsFilter(b.rule) /\ ~IsFilter(a.rule) => Before(b.at, a.at)

Meaningful(c) ==
  /\ DistinctPriorities(c) /\ RoutesOnce(c)
  /\ MarksResolve(c) /\ FieldsAreRendered(c)

(* Marks and tables keep their meaning from one configuration to the next. *)
Compatible(C) ==
  /\ \A c, d \in C : \A x \in RuleCommands(c), y \in RuleCommands(d) :
       x.op = "rule" /\ y.op = "rule" /\ x.rule.mark = y.rule.mark =>
         x.rule.table = y.rule.table
  /\ \A c, d \in C : \A r \in OwnRoutes(c), q \in OwnRoutes(d) :
       r.table = q.table => r \in OwnRoutes(d) /\ q \in OwnRoutes(c)

Agreeing(C) == Compatible(C) /\ \A c \in C : RoutesOnce(c)
InOrder(C) == Compatible(C) /\ \A c \in C : Meaningful(c)

-----------------------------------------------------------------------------
(* Properties.                                                             *)

(* However applies are cut short, a priority never has two entries, so that *)
(* the `ip rule del` of the next apply leaves none (builder.go:            *)
(* addRoutingPlan deletes one entry, then adds one).                       *)
OneRulePerPriority ==
  \A r, q \in rules : r.priority = q.priority => r = q

(* The mark of a packet is that of the first rule, by priority, that       *)
(* applies to it, if every given field is one that is rendered: the lines  *)
(* of a rule match what its fields say, no packet more and none less       *)
(* (nft.go: writePreroutingChain and nftMatchExpressions).                 *)
MarkIsOfFirstRule ==
  loaded # None /\ FieldsAreRendered(loaded) =>
    \A pkt \in Packets :
      LET candidates == {a \in Applicable(loaded, pkt) :
                           ~IsFilter(a.rule) /\ Renders(loaded, a.rule)} IN
        /\ candidates = {} => Mark(pkt) = 0
        /\ \A a \in Firsts(candidates) : Mark(pkt) = MarkSet(loaded, a.rule.action)

(* After a complete apply every IPv4 packet, and every IPv6 packet that is *)
(* not to be sent to a table, does what the rules of that configuration    *)
(* say, whatever complete and aborted applies of other configurations in   *)
(* order came before (nft.go, builder.go: addRoutingPlan).                 *)
PolicyInForce ==
  phase = "done" /\ InOrder(seen) /\ FiltersFirst(config) =>
    \A pkt \in Packets :
      pkt.dst \in Addr4 \/ Mark(pkt) = 0 => Fate(pkt) = IntendedFate(config, pkt)

(* At no moment, in the middle of an apply, after an abort or while there  *)
(* are no chains, does a packet leave by an interface no configuration     *)
(* since the boot meant for it, unless by table main.                      *)
NeverMisrouted ==
  InOrder(seen) =>
    \A pkt \in Packets :
      Devs(pkt) \subseteq {Main} \cup UNION {IntendedDevs(c, pkt) : c \in seen}

(* After a complete apply the members of a failover group back each other  *)
(* up: whichever links are lost, and their routes with them, the packets   *)
(* for the group leave by the member of lowest priority of the rest.  The  *)
(* members' priorities must differ, 100 where none is given, so that each  *)
(* has a route (Agreeing), and nothing else may use the group's table      *)
(* (builder.go: addWANGroupPlan).                                          *)
Failover(c) ==
  {g \in Members(c.groups) : g.enabled /\ g.mode # "weighted-ecmp" /\ g.table # 0}
OwnTable(c, g) ==
  /\ \A x \in TunnelRoutes(c) \cup StaticRoutes(c) : x.route.table # g.table
  /\ \A h \in Members(c.groups) \ {g} : h.table # g.table

FailoverBacksUp ==
  phase = "done" /\ Agreeing(seen) =>
    \A g \in {h \in Failover(config) : OwnTable(config, h)} :
      \A lost \in SUBSET {m.dev : m \in Members(g.members)} :
        LET rest == {m \in Members(g.members) : m.dev \notin lost} IN
          \A dst \in Addr4 :
            Lookup(Without(lost), g.table, dst) =
              {m.dev : m \in {n \in rest : \A k \in rest : Metric(n) <= Metric(k)}}

(* After a complete apply, a packet whose rule asks for NAT never leaves   *)
(* with its own source by any link of the rule's tunnel, group or          *)
(* interface, whichever of them are lost: it has the address of its 1:1    *)
(* NAT for that link, or else the link's own.  The lines go by links       *)
(* (nft.go: writePostroutingChain); by which one a packet leaves is        *)
(* decided by marks, ip rules and routes, and by table main as a last      *)
(* resort, which is nothing the rule can speak of.  The routes of the      *)
(* rule's table, fallbacks included, must be by links of its target.       *)
Reach(c, action) ==
  IF action.type \in Groups
  THEN UNION {{m.dev : m \in Members(g.members)} : g \in Targets(c, action)}
  ELSE TargetDevs(c, action)

NatTablesAreOwn(c) ==
  \A i \in {j \in Forwarding(c) : c.rules[j].action.nat} :
    LET action == c.rules[i].action IN
      /\ action.target # ""
      /\ \A r \in OwnRoutes(c) :
           r.table = Resolve(c, action, "table") => r.devs \subseteq Reach(c, action)

OwnAddresses(c, pkt) ==
  {[at |-> <<i, 0, 0>>, outer |-> c.oneToOne[i].outer] :
     i \in {j \in DOMAIN c.oneToOne :
              /\ c.oneToOne[j].enabled /\ SingleHost(c.oneToOne[j])
              /\ pkt.src \in c.oneToOne[j].inner
              /\ c.oneToOne[j].devs = {} \/ pkt.oif \in c.oneToOne[j].devs}}

AsksForNat(c, pkt) ==
  \E a \in Firsts({b \in Applicable(c, pkt) : ~IsFilter(b.rule)}) : a.rule.action.nat

NatFollowsRule ==
  phase = "done" /\ config.nat /\ InOrder(seen) /\ NatTablesAreOwn(config) =>
    \A pkt \in {p \in Packets : AsksForNat(config, p)},
       lost \in SUBSET UNION {r.devs : r \in routes} :
      \A d \in DevsOver(pkt, Without(lost)) \ {Main} :
        LET out == [pkt EXCEPT !.oif = d] IN
          Source(out) = UNION {n.outer : n \in Firsts(OwnAddresses(config, out))}

(* docs/ARCHITECTURE.md: "Rules run in priority order."                    *)
PriorityOrder ==
  phase = "done" /\ InOrder(seen) =>
    \A pkt \in Packets :
      pkt.dst \in Addr4 => Fate(pkt) = IntendedFate(config, pkt)

(* README.md: "All state lives in one JSON file": what a complete apply    *)
(* makes of the router depends on the file and not on what was applied     *)
(* before.                                                                 *)
OneFileDecides ==
  phase = "done" /\ Meaningful(config) /\ FiltersFirst(config) =>
    \A pkt \in Packets :
      pkt.dst \in Addr4 => Fate(pkt) = IntendedFate(config, pkt)
=============================================================================
