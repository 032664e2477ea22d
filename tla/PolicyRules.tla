----------------------------- MODULE PolicyRules -----------------------------
(***************************************************************************)
(* What a configuration turns into: the packet-marking, filter and source  *)
(* NAT chains of internal/router/nft.go, the routes and `ip rule` commands *)
(* that internal/router/builder.go adds to the plan, and what the rules    *)
(* are meant to do with a packet.                                          *)
(*                                                                         *)
(* An address is IPv4 or IPv6 by the set it is in; a list of CIDRs is the  *)
(* set of addresses it covers and a list of port ranges the set of ports.  *)
(* The empty set means "not given" as it does in the code.  A rendered     *)
(* line is a set of conditions [field, in] on a packet, all of which must  *)
(* hold, and a verdict; the first line that matches decides.  Sets go by   *)
(* their own names: nftIdentifier, which may fold two of them into one, is *)
(* taken for the identity.                                                 *)
(*                                                                         *)
(* An operator that stands before another and is not used is a plausible   *)
(* bug of it, to see that the properties tell it from the code.            *)
(***************************************************************************)
EXTENDS Integers, Sequences

CONSTANTS
  Addr4, Addr6,  \* IPv4 and IPv6 addresses
  None,          \* no interface, no table entry, no configuration
  Main           \* the interface of the default route of table main

ASSUME AddressAssumption == Addr4 \cap Addr6 = {}

(* The part of config.Config that is about forwarding.  Validate bounds    *)
(* priorities, marks and tables and resolves every id.                     *)
Match == [iif : STRING \cup {None}, oif : STRING \cup {None}, protos : SUBSET STRING,
          sports : SUBSET Nat, dports : SUBSET Nat,
          src : SUBSET (Addr4 \cup Addr6), dst : SUBSET (Addr4 \cup Addr6),
          sets : SUBSET STRING, tunnels : SUBSET STRING, labels : SUBSET STRING]
Action == [type : STRING, target : STRING, mark : Nat, table : Nat, nat : BOOLEAN]
Rule == [enabled : BOOLEAN, priority : Nat, match : Match, action : Action]
Tunnel == [id : STRING, enabled : BOOLEAN, dev : STRING \cup {None},
           mark : Nat, table : Nat]
Group == [id : STRING, enabled : BOOLEAN, mode : STRING, mark : Nat, table : Nat,
          members : Seq([dev : STRING, priority : Nat]) \ {<<>>}]
Static == [dest : {Addr4, Addr6} \cup SUBSET (Addr4 \cup Addr6), dev : STRING,
           table : Nat, metric : Nat]
RouteSet == [id : STRING, enabled : BOOLEAN, cidrs : SUBSET (Addr4 \cup Addr6)]
Link == [dev : STRING, enabled : BOOLEAN, wan : BOOLEAN, masquerade : BOOLEAN]
OneToOne == [enabled : BOOLEAN, inner : SUBSET (Addr4 \cup Addr6),
             outer : SUBSET (Addr4 \cup Addr6), devs : SUBSET STRING]
Config == [tunnels : Seq(Tunnel), groups : Seq(Group), statics : Seq(Static),
           sets : Seq(RouteSet), rules : Seq(Rule), allowEstablished : BOOLEAN,
           links : Seq(Link), nat : BOOLEAN, oneToOne : Seq(OneToOne)]

(* Positions in a chain or a plan are compared like the words of a         *)
(* dictionary.                                                             *)
Before(p, q) ==
  \/ p[1] < q[1]
  \/ p[1] = q[1] /\ p[2] < q[2]
  \/ p[1] = q[1] /\ p[2] = q[2] /\ p[3] < q[3]

Firsts(S) == {x \in S : \A y \in S : ~Before(y.at, x.at)}
Members(s) == {s[i] : i \in DOMAIN s}
OrAny(S) == IF S = {} THEN {{}} ELSE S

-----------------------------------------------------------------------------
(* Match expressions.                                                      *)

Condition(field, in) == [field |-> field, in |-> in]
Given(field, in) == IF in = {} THEN {} ELSE {Condition(field, in)}
Named(field, name) == Given(field, {name} \ {None})

BaseExpr(m) ==
  Named("iif", m.iif) \cup Named("oif", m.oif) \cup Given("proto", m.protos)

ProtocolOnly(m, proto) == {Condition("proto", {proto})}

PortExpr(m, proto) ==
  {Condition("proto", {proto})}
    \cup Given("sport", m.sports) \cup Given("dport", m.dports)

(* Ports are rendered for tcp and udp only, the default pair if no         *)
(* protocol is given.                                                      *)
PortExprs(m) ==
  LET protos == IF m.protos = {} THEN {"tcp", "udp"} ELSE m.protos IN
    IF m.sports = {} /\ m.dports = {} THEN {}
    ELSE {PortExpr(m, p) : p \in protos \cap {"tcp", "udp"}}

FamilyExpr(m, family) ==
  Given("src", m.src \cap family) \cup Given("dst", m.dst \cap family)

(* One expression per family: the sources of one with its destinations.    *)
CombineCIDRs(m) == {FamilyExpr(m, Addr4), FamilyExpr(m, Addr6)} \ {{}}

SetExpr(s, family) == {Condition("dst", s.cidrs \cap family)}

ReferencedSets(c, m) == {s \in Members(c.sets) : s.id \in m.sets /\ s.enabled}

DisabledToo(c, m) == {s \in Members(c.sets) : s.id \in m.sets}

(* A set renders one expression per family it has addresses of; a disabled *)
(* one renders none.                                                       *)
RenderedSets(c, m) == ReferencedSets(c, m)
SetExprs(c, m) ==
  {SetExpr(x[1], x[2]) :
     x \in {y \in RenderedSets(c, m) \X {Addr4, Addr6} : y[1].cidrs \cap y[2] # {}}}

(* Tunnel ids are not rendered, nor are labels (domains, GeoIP,            *)
(* applications, services), for which there are warnings.                  *)
MatchExprs(c, m) ==
  {BaseExpr(m) \cup e[1] \cup e[2] \cup e[3] :
     e \in OrAny(CombineCIDRs(m)) \X OrAny(SetExprs(c, m)) \X OrAny(PortExprs(m))}

Satisfies(pkt, expr) == \A a \in expr : pkt[a.field] \in a.in

(* nft refuses a line with `ip` and `ip6` conditions.                      *)
MixesFamilies(expr) ==
  \E a, b \in expr :
    /\ {a.field, b.field} \subseteq {"src", "dst"}
    /\ a.in \subseteq Addr4
    /\ b.in \subseteq Addr6

-----------------------------------------------------------------------------
(* Actions.                                                                *)

IsFilter(rule) == rule.action.type \in {"blackhole", "reject"}
Groups == {"wan-group", "load-balance"}

(* The tunnel or WAN group a rule names: ids are unique (Validate).        *)
Targets(c, action) ==
  {t \in Members(c.tunnels) : action.type = "tunnel" /\ t.id = action.target}
    \cup {g \in Members(c.groups) : action.type \in Groups /\ g.id = action.target}

(* The mark or table of a rule: its own, or else its target's.             *)
Resolve(c, action, field) ==
  IF action[field] # 0 \/ Targets(c, action) = {} THEN action[field]
  ELSE (CHOOSE t \in Targets(c, action) : TRUE)[field]

MarkSet(c, action) ==
  IF action.type = "direct" THEN 0 ELSE Resolve(c, action, "mark")

(* No line at all for a rule without a mark to set.                        *)
Renders(c, rule) ==
  /\ rule.enabled
  /\ IsFilter(rule) \/ rule.action.type = "direct" \/ MarkSet(c, rule.action) # 0

(* Sorted by priority, stable.                                             *)
Position(c, i) == <<c.rules[i].priority, i, 0>>

Prerouting(c) ==
  UNION {{[at |-> Position(c, i), expr |-> e, mark |-> MarkSet(c, c.rules[i].action)] :
            e \in MatchExprs(c, c.rules[i].match)} :
         i \in {j \in DOMAIN c.rules : Renders(c, c.rules[j]) /\ ~IsFilter(c.rules[j])}}

ForwardWithoutState(c) ==
  UNION {{[at |-> Position(c, i), expr |-> e, accept |-> FALSE] :
            e \in MatchExprs(c, c.rules[i].match)} :
         i \in {j \in DOMAIN c.rules : Renders(c, c.rules[j]) /\ IsFilter(c.rules[j])}}

(* Established connections are accepted before any rule is looked at.      *)
Forward(c) ==
  ForwardWithoutState(c)
    \cup {[at |-> <<0, 1, 0>>, expr |-> {Condition("ct", {"invalid"})}, accept |-> FALSE]}
    \cup (IF ~c.allowEstablished THEN {}
          ELSE {[at |-> <<0, 0, 0>>, expr |-> {Condition("ct", {"established"})},
                 accept |-> TRUE]})

-----------------------------------------------------------------------------
(* Source NAT: lines by outgoing link, with the address that becomes the   *)
(* source, or none for the address of the link (masquerade).               *)

(* Whole networks are not mapped, for which there is a warning.            *)
SingleHost(n) ==
  \E F \in {Addr4, Addr6} : \E a, b \in F : n.inner = {a} /\ n.outer = {b}

NatDevsOfFirst(c, action) ==
  IF action.type \in Groups
  THEN {g.members[1].dev : g \in {h \in Targets(c, action) : h.members # <<>>}}
  ELSE IF action.type = "tunnel" THEN {t.dev : t \in Targets(c, action)} \ {None}
  ELSE {action.target}

(* Every link a rule may send its packets to.                              *)
NatDevs(c, action) ==
  IF action.type \in Groups
  THEN UNION {{m.dev : m \in Members(g.members)} : g \in Targets(c, action)}
  ELSE IF action.type = "tunnel" THEN {t.dev : t \in Targets(c, action)} \ {None}
  ELSE {action.target}

OneToOneLines(c) ==
  {[at |-> <<1, i, 0>>, to |-> c.oneToOne[i].outer,
    expr |-> Given("oif", c.oneToOne[i].devs) \cup {Condition("src", c.oneToOne[i].inner)}] :
     i \in {j \in DOMAIN c.oneToOne : c.oneToOne[j].enabled /\ SingleHost(c.oneToOne[j])}}

LinkLines(c) ==
  {[at |-> <<2, i, 0>>, to |-> {}, expr |-> {Condition("oif", {c.links[i].dev})}] :
     i \in {j \in DOMAIN c.links :
              c.links[j].enabled /\ (c.links[j].masquerade \/ c.links[j].wan)}}

RuleLines(c) ==
  UNION {{[at |-> <<3, i, 0>>, to |-> {}, expr |-> {Condition("oif", {d})}] :
            d \in NatDevs(c, c.rules[i].action)} :
         i \in {j \in DOMAIN c.rules :
                  /\ c.rules[j].enabled /\ c.rules[j].action.nat
                  /\ c.rules[j].action.target # ""}}

Postrouting(c) ==
  IF c.nat THEN OneToOneLines(c) \cup LinkLines(c) \cup RuleLines(c) ELSE {}

(* nft takes the whole file or none of it.  1:1 NAT is written with the    *)
(* keyword `ip`, so an IPv6 host makes it refuse the file.                 *)
Loads(c) ==
  /\ \A line \in Prerouting(c) \cup Forward(c) : ~MixesFamilies(line.expr)
  /\ c.nat => \A line \in OneToOneLines(c) : line.to \subseteq Addr4

-----------------------------------------------------------------------------
(* The routing commands of the plan, in its order.                         *)

RouteCommand(at, table, dest, metric, devs) ==
  [at |-> at, op |-> "route",
   route |-> [table |-> table, dest |-> dest, metric |-> metric, devs |-> devs]]

TunnelRoutes(c) ==
  {RouteCommand(<<1, i, 0>>, c.tunnels[i].table, Addr4, 0, {c.tunnels[i].dev}) :
     i \in {j \in DOMAIN c.tunnels :
              c.tunnels[j].enabled /\ c.tunnels[j].dev # None /\ c.tunnels[j].table > 0}}

Metric(member) == IF member.priority = 0 THEN 100 ELSE member.priority

GroupRoutesWithoutDefault(g, i) ==
  IF g.table = 0 THEN {}
  ELSE IF g.mode = "weighted-ecmp"
  THEN {RouteCommand(<<2, i, 0>>, g.table, Addr4, 0,
                     {m.dev : m \in Members(g.members)})}
  ELSE {RouteCommand(<<2, i, j>>, g.table, Addr4, g.members[j].priority,
                     {g.members[j].dev}) : j \in DOMAIN g.members}

(* One multipath route, or one route per member.                           *)
GroupRoutes(g, i) ==
  IF g.table = 0 THEN {}
  ELSE IF g.mode = "weighted-ecmp"
  THEN {RouteCommand(<<2, i, 0>>, g.table, Addr4, 0,
                     {m.dev : m \in Members(g.members)})}
  ELSE {RouteCommand(<<2, i, j>>, g.table, Addr4, Metric(g.members[j]),
                     {g.members[j].dev}) : j \in DOMAIN g.members}

WANGroupRoutes(c) ==
  UNION {GroupRoutes(c.groups[i], i) : i \in {j \in DOMAIN c.groups : c.groups[j].enabled}}

(* Static routes outside the policy tables are not followed further.       *)
StaticRoutes(c) ==
  {RouteCommand(<<3, i, 0>>, c.statics[i].table, c.statics[i].dest,
                c.statics[i].metric, {c.statics[i].dev}) :
     i \in {j \in DOMAIN c.statics : c.statics[j].table > 0}}

(* `ip rule del priority P || true; ip rule add priority P fwmark M table T` *)
RuleCommands(c) ==
  LET Mark(i) == Resolve(c, c.rules[i].action, "mark")
      Table(i) == Resolve(c, c.rules[i].action, "table")
      Installed == {j \in DOMAIN c.rules :
                      c.rules[j].enabled /\ Mark(j) # 0 /\ Table(j) # 0} IN
  UNION {{[at |-> <<4, c.rules[i].priority, 2 * i>>, op |-> "unrule",
           priority |-> c.rules[i].priority],
          [at |-> <<4, c.rules[i].priority, 2 * i + 1>>, op |-> "rule",
           rule |-> [priority |-> c.rules[i].priority,
                     mark |-> Mark(i), table |-> Table(i)]]} : i \in Installed}

Commands(c) ==
  TunnelRoutes(c) \cup WANGroupRoutes(c) \cup StaticRoutes(c) \cup RuleCommands(c)

-----------------------------------------------------------------------------
(* How the kernel looks a route up: the longest prefix, then the lowest    *)
(* metric.  `ip route replace` replaces by table, prefix and metric.       *)

Slot(r) == <<r.table, r.dest, r.metric>>
Replace(routes, r) == {q \in routes : Slot(q) # Slot(r)} \cup {r}

Best(routes) ==
  {r \in routes : \A q \in routes :
     \/ r.dest \subseteq q.dest /\ r.dest # q.dest
     \/ r.dest = q.dest /\ r.metric <= q.metric}

Lookup(routes, table, dst) ==
  UNION {r.devs : r \in Best({q \in routes : q.table = table /\ dst \in q.dest})}

(* The routes the plan leaves in a kernel that had none.                   *)
OwnRoutes(c) ==
  LET all == TunnelRoutes(c) \cup WANGroupRoutes(c) \cup StaticRoutes(c) IN
    {x.route : x \in {y \in all : \A z \in all :
                        Slot(z.route) = Slot(y.route) => ~Before(y.at, z.at)}}

-----------------------------------------------------------------------------
(* The reference: what docs/ARCHITECTURE.md says rules do.                 *)

(* Every match field that is given restricts the rule; labels are not      *)
(* enforced before there are sets for them.                                *)
Matches(c, m, pkt) ==
  /\ m.iif \in {None, pkt.iif}
  /\ m.oif \in {None, pkt.oif}
  /\ m.protos = {} \/ pkt.proto \in m.protos
  /\ m.src = {} \/ pkt.src \in m.src
  /\ m.dst = {} \/ pkt.dst \in m.dst
  /\ m.sports = {} \/ pkt.sport \in m.sports
  /\ m.dports = {} \/ pkt.dport \in m.dports
  /\ m.sets = {} \/ \E s \in ReferencedSets(c, m) : pkt.dst \in s.cidrs
  /\ m.tunnels = {} \/ \E t \in Members(c.tunnels) : t.id \in m.tunnels /\ t.dev = pkt.iif
  /\ m.labels = {}

Applicable(c, pkt) ==
  {[at |-> <<c.rules[i].priority, i, 0>>, rule |-> c.rules[i]] :
     i \in {j \in DOMAIN c.rules :
              c.rules[j].enabled /\ Matches(c, c.rules[j].match, pkt)}}

(* The interfaces a rule sends its packets to: all of a weighted group,    *)
(* the member of lowest metric of a failover group.                        *)
TargetDevs(c, action) ==
  IF action.type = "direct" THEN {Main}
  ELSE IF action.type = "tunnel" THEN {t.dev : t \in Targets(c, action)}
  ELSE IF action.type \in Groups
  THEN UNION {IF g.mode = "weighted-ecmp" THEN {m.dev : m \in Members(g.members)}
              ELSE {m.dev : m \in {n \in Members(g.members) :
                      \A k \in Members(g.members) : Metric(n) <= Metric(k)}} :
              g \in Targets(c, action)}
  ELSE {action.target}

IntendedDevs(c, pkt) ==
  LET first == Firsts({a \in Applicable(c, pkt) : ~IsFilter(a.rule)}) IN
    IF first = {} THEN {Main} ELSE UNION {TargetDevs(c, a.rule.action) : a \in first}

(* The first rule that applies to the packet decides, whatever its kind.   *)
IntendedFate(c, pkt) ==
  {LET out == [pkt EXCEPT !.oif = d] IN
     IF pkt.ct = "invalid" THEN "drop"
     ELSE IF pkt.ct = "established" /\ c.allowEstablished THEN d
     ELSE IF \E a \in Firsts(Applicable(c, out)) : IsFilter(a.rule) THEN "drop"
     ELSE d : d \in IntendedDevs(c, pkt)}
=============================================================================
