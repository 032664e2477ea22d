-------------------------- MODULE MCPolicyRouting --------------------------
(***************************************************************************)
(* Small instances of PolicyRouting: one tunnel, one WAN group and one     *)
(* policy table for a link, at most two or three rules to a configuration. *)
(* Two addresses of each family and two ports tell every condition apart.  *)
(***************************************************************************)
EXTENDS PolicyRouting

a4 == "192.0.2.1"
b4 == "198.51.100.1"
a6 == "2001:db8::1"
b6 == "2001:db8::2"
MCAddr4 == {a4, b4}
MCAddr6 == {a6, b6}
MCMain == "wan0"

Any == [iif |-> None, oif |-> None, protos |-> {}, sports |-> {}, dports |-> {},
        src |-> {}, dst |-> {}, sets |-> {}, tunnels |-> {}, labels |-> {}]
Https == [Any EXCEPT !.protos = {"tcp"}, !.dports = {443}]
FromA == [Any EXCEPT !.src = {a4}]
ToSet(s) == [Any EXCEPT !.sets = {s}]

DoWith(type, target, mark, table) ==
  [type |-> type, target |-> target, mark |-> mark, table |-> table, nat |-> FALSE]
Do(type, target) == DoWith(type, target, 0, 0)
DoNat(type, target) == [Do(type, target) EXCEPT !.nat = TRUE]
R(priority, match, action) ==
  [enabled |-> TRUE, priority |-> priority, match |-> match, action |-> action]

Vpn == [id |-> "vpn", enabled |-> TRUE, dev |-> "wg0", mark |-> 10, table |-> 100]
Uplinks == [id |-> "uplinks", enabled |-> TRUE, mode |-> "failover", mark |-> 20,
            table |-> 200, members |-> <<[dev |-> "wan1", priority |-> 10],
                                         [dev |-> "wan3", priority |-> 0],
                                         [dev |-> "wan2", priority |-> 20]>>]
Ecmp == [Uplinks EXCEPT !.id = "ecmp", !.mode = "weighted-ecmp", !.mark = 25, !.table = 210]
ViaWan2 == [dest |-> MCAddr4, dev |-> "wan2", table |-> 44, metric |-> 0]
Wan == [dev |-> "wan0", enabled |-> TRUE, wan |-> TRUE, masquerade |-> FALSE]
Lan == [dev |-> "lan0", enabled |-> TRUE, wan |-> FALSE, masquerade |-> FALSE]
OwnA == [enabled |-> TRUE, inner |-> {a4}, outer |-> {b4}, devs |-> {"wan1"}]
RouteSets ==
  <<[id |-> "v4", enabled |-> TRUE, cidrs |-> {b4}],
    [id |-> "dual", enabled |-> TRUE, cidrs |-> {b4, b6}],
    [id |-> "off", enabled |-> FALSE, cidrs |-> {a4}]>>

Cfg(rs) == [tunnels |-> <<Vpn>>, groups |-> <<Uplinks, Ecmp>>, statics |-> <<ViaWan2>>,
            sets |-> RouteSets, rules |-> rs, allowEstablished |-> TRUE,
            links |-> <<Wan, Lan>>, nat |-> TRUE, oneToOne |-> <<OwnA>>]

ToVpn == Cfg(<<R(200, FromA, Do("direct", "")), R(100, Https, Do("tunnel", "vpn")),
               R(50, ToSet("v4"), Do("blackhole", ""))>>)
ToUplinks == Cfg(<<R(100, FromA, DoNat("wan-group", "uplinks")),
                   R(200, Any, DoNat("tunnel", "vpn"))>>)
ToEcmp == Cfg(<<R(100, FromA, DoNat("load-balance", "ecmp")),
                R(50, [Any EXCEPT !.oif = "wan1"], Do("reject", ""))>>)
ToLink == Cfg(<<R(100, Https, DoWith("interface", "wan2", 40, 44)),
                R(150, ToSet("dual"), DoWith("tunnel", "vpn", 11, 0))>>)
VpnOff == [Cfg(<<R(100, FromA, Do("tunnel", "vpn"))>>) EXCEPT !.tunnels[1].enabled = FALSE]
Rejected == [Cfg(<<R(100, FromA, Do("tunnel", "vpn"))>>)
               EXCEPT !.oneToOne[1].inner = {a6}, !.oneToOne[1].outer = {b6}]
Moved == [Cfg(<<R(300, FromA, Do("tunnel", "vpn"))>>)
            EXCEPT !.tunnels[1].mark = 20, !.groups[1].mark = 21]
RouteBeforeDrop == Cfg(<<R(100, Https, Do("direct", "")), R(200, FromA, Do("blackhole", ""))>>)

Sequences == {ToVpn, ToUplinks, ToEcmp, ToLink, VpnOff, Rejected, Moved}
UpTo(n, S) == {H \in SUBSET S : Cardinality(H) <= n}
InConflict == UpTo(2, {ToUplinks, Moved})
Unordered == UpTo(2, {RouteBeforeDrop, ToUplinks})
Dual == {{ToLink}}

(* One rule with any combination of fields, before a rule for the rest.    *)
Matchers ==
  {[Any EXCEPT !.iif = i, !.protos = p, !.dports = d, !.src = s, !.sets = t] :
     i \in {None, "lan0"}, p \in {{}, {"tcp"}, {"tcp", "udp"}, {"icmp"}, {"tcp", "icmp"}},
     d \in {{}, {443}}, s \in {{}, {a4}, {a4, a6}},
     t \in {{}, {"v4"}, {"dual"}, {"off"}, {"v4", "off"}}}
Rendered ==
  {[Cfg(<<R(200, FromA, Do("direct", "")), R(100, m, a)>>)
      EXCEPT !.groups = <<>>, !.statics = <<>>] :
     m \in Matchers, a \in {Do("tunnel", "vpn"), Do("blackhole", "")}}

(* Any two of the sequences after one another, or a rendered one alone.    *)
MCHistories == UpTo(2, Sequences) \cup {{c} : c \in Rendered}

P(iif, ct, proto, port, src, dst) ==
  [iif |-> iif, oif |-> None, ct |-> ct, proto |-> proto, sport |-> port,
   dport |-> port, src |-> src, dst |-> dst]
MCPackets ==
  {P(i, "new", q[1], q[2], x[1], x[2]) :
     i \in {"lan0", "wg0"},
     q \in {<<"tcp", 443>>, <<"tcp", 80>>, <<"udp", 443>>, <<"icmp", None>>},
     x \in {<<a4, b4>>, <<b4, a4>>, <<a6, b6>>, <<b6, a6>>}}
  \cup {P("lan0", ct, "tcp", 443, a4, b4) : ct \in {"established", "invalid"}}
=============================================================================
