------------------------------ MODULE HostPlan ------------------------------
(***************************************************************************)
(* The plan internal/router/builder.go makes of a configuration, as far as *)
(* it changes links, addresses, routes and services, step by step and in   *)
(* its order; and what such a step needs and does on a Linux host.         *)
(*                                                                         *)
(* Of the addresses of a link only the family matters, and none that are   *)
(* DHCP's or somebody else's business.  A profile is a file that a service *)
(* reads when it starts: the link it asks for, if any, and the version of  *)
(* the rest.  Files nobody starts a service for are left out, and so are   *)
(* MTUs, trusted CAs and all sysctls but the one that needs a module.  The *)
(* policy rules and the rendered chains are the subject of PolicyRules;    *)
(* here their load only pulls in conntrack.                                *)
(*                                                                         *)
(* An operator that stands before another and is not used is a plausible   *)
(* bug of it, to see that the properties tell it from the code.            *)
(***************************************************************************)
EXTENDS Naturals, FiniteSets, SequencesExt

CONSTANTS
  Links,     \* names of network links
  Physical,  \* the links that are there after a boot
  Ethernet,  \* the links that every bond and every bridge takes
  Units,     \* systemd units
  Frr,       \* the unit of the routing daemons
  Paths,     \* profiles, one or more to a unit
  None       \* no link, no unit, no profile

ASSUME NameAssumption ==
  /\ Physical \subseteq Links /\ Ethernet \subseteq Links
  /\ Frr \in Units
  /\ None \notin Links \cup Units \cup Paths \cup {"v4", "v6"}

Families == {"v4", "v6"}
Profile == [dev : Links \cup {None}, version : Nat]

(* The part of config.Config the plan is made of.  creates: the plan adds  *)
(* the tunnel's link itself, over the link under if options.dev names one; *)
(* managed: a service makes the link; path is None if the administrator    *)
(* supplies its profile.  A link the plan makes has no service, and a      *)
(* profile is written for a service to read it.  A gateway is given by its *)
(* family, which some address of its link has to have.  routes: what       *)
(* PolicyRules makes of WAN groups and static routes, a slot for each      *)
(* table, metric and family.                                               *)
Interface ==
  [name : Links, enabled : BOOLEAN, addresses : Seq(Families), gateway : Families \cup {None}]
Tunnel ==
  {t \in [enabled : BOOLEAN, dev : Links \cup {None}, creates : BOOLEAN,
          under : Links \cup {None}, managed : BOOLEAN, unit : Units \cup {None},
          path : Paths \cup {None}, version : Nat, addresses : Seq(Families), table : Nat] :
     (t.creates => ~t.managed /\ t.unit = None) /\ (t.path # None => t.unit # None)}
Route == [slot : Nat, devs : SUBSET Links, via : Families \cup {None}]
Service == [unit : Units, path : Paths \cup {None}, version : Nat]
Master == [name : Links, members : Seq(Links)]
Vlan == [name : Links, parent : Links, addresses : Seq(Families)]
Config == [conntrack : BOOLEAN, interfaces : Seq(Interface), acme : Seq(Service),
           tunnels : Seq(Tunnel), routes : Seq(Route), services : Seq(Service), mpls : Seq(Links),
           bonds : Seq(Master), bridges : Seq(Master), vlans : Seq(Vlan),
           vrrp : Seq(Service), vrfs : Seq(Master), frr : Seq(Service),
           queues : Seq(Links), jobs : Seq(Service), guards : Seq(Service)]

-----------------------------------------------------------------------------
(* Steps.                                                                  *)

Simple(op, link) == [op |-> op, link |-> link]
Create(link, parent, under) ==
  [op |-> "create", link |-> link, parent |-> parent, under |-> under]
Address(link, family) == [op |-> "address", link |-> link, family |-> family]
Under(op, link, master) == [op |-> op, link |-> link, master |-> master]
InstallRoute(r) == [op |-> "route", slot |-> r.slot, devs |-> r.devs, via |-> r.via]
Write(path, dev, version) ==
  [op |-> "write", path |-> path, profile |-> [dev |-> dev, version |-> version]]
Start(unit) == [op |-> "start", unit |-> unit]
Only(op) == [op |-> op]

Given(condition, steps) == IF condition THEN steps ELSE <<>>
ForEach(list, StepsOf(_)) == FlattenSeq([i \in DOMAIN list |-> StepsOf(list[i])])

AddressSteps(link, addresses) ==
  [k \in DOMAIN addresses |-> Address(link, addresses[k])]

(* The slots of the default routes.                                        *)
MainSlot(family) == IF family = "v4" THEN 0 ELSE 1
TableSlot(table) == table + 1

InterfaceSteps(i) ==
  IF ~i.enabled THEN <<Simple("down", i.name)>>
  ELSE <<Simple("up", i.name)>>
         \o AddressSteps(i.name, i.addresses)
         \o Given(i.gateway # None,
                  <<InstallRoute([slot |-> MainSlot(i.gateway), devs |-> {i.name},
                                  via |-> i.gateway])>>)

(* The deploy hook, the certificates, the timer that renews them.          *)
AcmeSteps(s) == Given(s.path # None, <<Write(s.path, None, s.version)>>)
                  \o <<Only("certbot"), Start(s.unit)>>

(* A tunnel without a link has no steps, whatever its type.                *)
TunnelSteps(t) ==
  IF ~t.enabled \/ t.dev = None THEN <<>>
  ELSE Given(t.creates, <<Create(t.dev, None, t.under)>>)
         \o Given(t.path # None, <<Write(t.path, t.dev, t.version)>>)
         \o Given(t.unit # None, <<Start(t.unit)>>)
         \o Given(~t.managed, <<Simple("up", t.dev)>> \o AddressSteps(t.dev, t.addresses))
         \o Given(t.table > 0,
                  <<InstallRoute([slot |-> TableSlot(t.table), devs |-> {t.dev}, via |-> None])>>)

RouteSteps(r) == <<InstallRoute(r)>>

Profiles(s) == Given(s.path # None, <<Write(s.path, None, s.version)>>)

StartThenWrite(s) == <<Start(s.unit)>> \o Profiles(s)

ServiceSteps(s) == Profiles(s) \o <<Start(s.unit)>>

(* The snippets that add a member set it down, give it its master and set  *)
(* it up; a bridge does without the first.                                 *)
BondSteps(b) ==
  <<Create(b.name, None, None)>>
    \o [i \in DOMAIN b.members |-> Under("enslave", b.members[i], b.name)]
    \o <<Simple("up", b.name)>>

BridgeSteps(b) ==
  <<Create(b.name, None, None)>>
    \o [i \in DOMAIN b.members |-> Under("join", b.members[i], b.name)]
    \o <<Simple("up", b.name)>>

VlanSteps(v) ==
  <<Create(v.name, v.parent, None)>>
    \o AddressSteps(v.name, v.addresses)
    \o <<Simple("up", v.name)>>

VrfSteps(v) ==
  <<Create(v.name, None, None), Simple("up", v.name)>>
    \o [i \in DOMAIN v.members |-> Under("attach", v.members[i], v.name)]

(* A qdisc or an MPLS setting of a link.                                   *)
TuneSteps(link) == <<Simple("tune", link)>>

VlansFirst(c) ==
  ForEach(c.vlans, VlanSteps) \o ForEach(c.bonds, BondSteps)
    \o ForEach(c.bridges, BridgeSteps) \o ForEach(c.vrrp, ServiceSteps)

Layer2(c) ==
  ForEach(c.bonds, BondSteps) \o ForEach(c.bridges, BridgeSteps)
    \o ForEach(c.vlans, VlanSteps) \o ForEach(c.vrrp, ServiceSteps)

DynamicRouting(c) ==
  ForEach(c.vrfs, VrfSteps) \o ForEach(c.frr, ServiceSteps) \o ForEach(c.mpls, TuneSteps)

Queues(c) == ForEach(c.queues, TuneSteps)

(* Monitoring, scheduled jobs and backups.                                 *)
Jobs(c) == ForEach(c.jobs, ServiceSteps)

Platform(c) == Layer2(c) \o DynamicRouting(c) \o Queues(c) \o Jobs(c)

(* MPLS starts the routing daemons before DynamicRouting has written their *)
(* configuration.                                                          *)
Services(c) == ForEach(c.services, ServiceSteps) \o Given(c.mpls # <<>>, <<Start(Frr)>>)

(* IPS, antivirus, DNS filtering, captive portal, RADIUS and UPnP.         *)
Security(c) == ForEach(c.guards, ServiceSteps)

(* The firewall is last.                                                   *)
Plan(c) ==
  Given(c.conntrack, <<Only("conntrack")>>)
    \o ForEach(c.interfaces, InterfaceSteps) \o ForEach(c.acme, AcmeSteps)
    \o ForEach(c.tunnels, TunnelSteps) \o ForEach(c.routes, RouteSteps)
    \o Services(c) \o Platform(c) \o Security(c) \o <<Only("load")>>

-----------------------------------------------------------------------------
(* Validate: every link a part of the configuration refers to has a name   *)
(* somewhere in it.                                                        *)

Elements(list, Part(_)) == UNION {Part(list[i]) : i \in DOMAIN list}
NameOf(x) == {x.name}
MembersOf(x) == ToSet(x.members)
ParentOf(v) == {v.parent}
DevsOf(r) == r.devs
LinkOf(t) == {t.dev} \ {None}

KnownLinks(c) ==
  Elements(c.interfaces, NameOf)
    \cup Elements(c.tunnels, LinkOf)
    \cup Elements(c.vlans, NameOf) \cup Elements(c.bridges, NameOf)
    \cup Elements(c.bonds, NameOf)

Layer2Links(c) ==
  Elements(c.vlans, ParentOf) \cup Elements(c.bridges, MembersOf) \cup Elements(c.bonds, MembersOf)
VrfLinks(c) == Elements(c.vrfs, MembersOf)
QueueLinks(c) == ToSet(c.queues)
RouteLinks(c) == Elements(c.routes, DevsOf)
MplsLinks(c) == ToSet(c.mpls)

Valid(c) ==
  /\ \A i, j \in DOMAIN c.interfaces :
       c.interfaces[i].name = c.interfaces[j].name => i = j
  /\ Layer2Links(c) \cup VrfLinks(c) \cup QueueLinks(c) \cup RouteLinks(c)
       \cup MplsLinks(c) \subseteq KnownLinks(c)

-----------------------------------------------------------------------------
(* The kernel's links and routes: a record of the links that are present   *)
(* and up, the families of addresses they have, master and parent per      *)
(* link, and the links each route leads to, none if there is no such       *)
(* route.                                                                  *)

OnTop(n, l) == {k \in n.present : n.parent[k] = l}

(* A VLAN follows its parent up and down.  A link that goes down loses its *)
(* IPv6 addresses (keep_addr_on_down is 0), and a route is gone with the   *)
(* last link it leads to.                                                  *)
Lowered(n, l) ==
  LET fallen == n.up \cap ({l} \cup OnTop(n, l))
      up == n.up \ fallen
  IN [n EXCEPT !.up = up, !.addressed = @ \ (fallen \X {"v6"}),
               !.routes = [s \in DOMAIN @ |-> IF @[s] \cap up = {} THEN {} ELSE @[s]]]

CanRise(n, l) == l \in n.present /\ n.parent[l] \in n.up \cup {None}
Raised(n, l) == [n EXCEPT !.up = @ \cup {l} \cup OnTop(n, l)]

(* A link that is unregistered takes its VLANs along, and every route that *)
(* names it.                                                               *)
Removed(n, links) ==
  LET gone == links \cup {k \in n.present : n.parent[k] \in links} IN
    [n EXCEPT !.present = @ \ gone, !.up = @ \ gone,
              !.addressed = {a \in @ : a[1] \notin gone},
              !.master = [k \in Links |-> IF k \in gone THEN None ELSE @[k]],
              !.parent = [k \in Links |-> IF k \in gone THEN None ELSE @[k]],
              !.routes = [s \in DOMAIN @ |-> IF @[s] \cap gone = {} THEN @[s] ELSE {}]]

WithMaster(n, l, m) == IF m \in n.present THEN [n EXCEPT !.master[l] = m] ELSE n

(* The snippets that add a member: what the link is like when it is given  *)
(* its master, and what they may leave if they do not come to their end.   *)
Opened(n, step) == IF step.op = "enslave" THEN Lowered(n, step.link) ELSE n
Begun(n, step) ==
  {n} \cup IF step.op \in {"enslave", "join"} /\ step.link \in n.present
           THEN {Opened(n, step), WithMaster(Opened(n, step), step.link, step.master)}
           ELSE {}

Needs(step) ==
  IF step.op \in {"up", "down", "address", "tune", "enslave", "join"} THEN {step.link}
  ELSE IF step.op = "attach" THEN {step.link, step.master}
  ELSE IF step.op = "create" THEN {step.parent, step.under} \ {None}
  ELSE IF step.op = "route" THEN step.devs
  ELSE {}

(* What a step needs to find.  A snippet's status is its last program's;   *)
(* `ip link show || ip link add` is content with a link that is there.     *)
Possible(n, step) ==
  /\ Needs(step) \subseteq n.present \/ (step.op = "create" /\ step.link \in n.present)
  /\ step.op \in {"up", "enslave", "join"} => CanRise(n, step.link)
  /\ step.op = "route" => step.devs \subseteq n.up
  /\ step.op = "route" /\ step.via # None => step.devs \X {step.via} \subseteq n.addressed
=============================================================================
