-------------------------------- MODULE Host --------------------------------
(***************************************************************************)
(* A router while plans are applied to it: the plan of HostPlan, run step  *)
(* by step (control.Executor), on a host where services bring their links  *)
(* up in their own time, tunnels flap, steps fail and the machine boots,   *)
(* and that still holds what earlier plans, complete or not, left there.   *)
(* One apply at a time: Executor is about several.                         *)
(***************************************************************************)
EXTENDS HostPlan

CONSTANTS
  Configs,    \* the configurations that are applied
  UnitOf,     \* per profile: the unit that reads it
  Supplied,   \* the profiles on disk before lasd writes any
  Stopped,    \* a unit that does not run
  MaxTrouble  \* bound: failed steps, lost tunnels and boots

ASSUME ConfigAssumption ==
  /\ Configs \subseteq Config /\ None \notin Configs
  /\ UnitOf \in [Paths -> Units]
  /\ Supplied \in [Paths -> Profile \cup {None}]
  /\ \A u \in Units : Stopped \notin [{p \in Paths : UnitOf[p] = u} -> Profile \cup {None}]
  /\ MaxTrouble \in Nat

(* What a part of a configuration writes is read by the unit it starts.    *)
ASSUME ProfileAssumption ==
  \A c \in Configs :
    \A list \in {c.acme, c.tunnels, c.services, c.vrrp, c.frr, c.jobs, c.guards} :
      \A s \in ToSet(list) : s.path # None => UnitOf[s.path] = s.unit

VARIABLES
  config,   \* the configuration applied last, None after a boot
  phase,    \* "idle", "applying", "done" or "aborted"
  pos,      \* the next step of its plan
  net,      \* links, addresses and routes of the kernel
  tracked,  \* nf_conntrack is loaded
  files,    \* per path: the profile on disk, or None
  enabled,  \* units that start at boot
  running,  \* per unit: Stopped, or the profiles it read when it started
  fresh,    \* units that were stopped when the latest apply began
  upset,    \* the host failed a step or lost a link since then
  trouble   \* how often it did, boots included

vars == <<config, phase, pos, net, tracked, files, enabled, running, fresh,
          upset, trouble>>
lasd == <<config, phase, pos>>
units == <<files, enabled, running>>
notes == <<fresh, upset, trouble>>

Plans == [c \in Configs |-> Plan(c)]
Slots == {0} \cup UNION {{s.slot : s \in {t \in ToSet(Plans[c]) : t.op = "route"}} :
                        c \in Configs}
ProfilesOf(u) == {p \in Paths : UnitOf[p] = u}

TypeOK ==
  /\ config \in Configs \cup {None}
  /\ phase \in {"idle", "applying", "done", "aborted"}
  /\ pos \in 1 .. (IF config = None THEN 1 ELSE Len(Plans[config]) + 1)
  /\ net \in [present : SUBSET Links, up : SUBSET Links,
              addressed : SUBSET (Links \X Families),
              master : [Links -> Links \cup {None}],
              parent : [Links -> Links \cup {None}],
              routes : [Slots -> SUBSET Links]]
  /\ net.up \cup {a[1] : a \in net.addressed} \cup UNION {net.routes[s] : s \in Slots}
       \subseteq net.present
  /\ tracked \in BOOLEAN
  /\ files \in [Paths -> Profile \cup {None}]
  /\ enabled \subseteq Units
  /\ DOMAIN running = Units
  /\ \A u \in Units :
       running[u] = Stopped \/ running[u] \in [ProfilesOf(u) -> Profile \cup {None}]
  /\ fresh \subseteq Units
  /\ upset \in BOOLEAN
  /\ trouble \in 0 .. MaxTrouble

(* The kernel after a boot: no link is up before somebody sets it up.      *)
Booted ==
  [present |-> Physical, up |-> {}, addressed |-> {},
   master |-> [l \in Links |-> None], parent |-> [l \in Links |-> None],
   routes |-> [s \in Slots |-> {}]]

Init ==
  /\ config = None
  /\ phase = "idle"
  /\ pos = 1
  /\ net = Booted
  /\ tracked \in BOOLEAN
  /\ files = Supplied
  /\ enabled = {}
  /\ running = [u \in Units |-> Stopped]
  /\ fresh = Units
  /\ upset = FALSE
  /\ trouble = 0

Running == {u \in Units : running[u] # Stopped}
Step == Plans[config][pos]

-----------------------------------------------------------------------------
(* The plan.                                                               *)

GoOn(c) ==
  /\ phase # "applying"
  /\ Valid(c)
  /\ config' = c
  /\ phase' = "applying"
  /\ fresh' = Units \ Running
  /\ upset' = FALSE
  /\ UNCHANGED <<pos, net, tracked, units, trouble>>

(* handleApply: nothing is done for a configuration that does not validate. *)
Apply(c) ==
  /\ phase # "applying"
  /\ Valid(c)
  /\ config' = c
  /\ phase' = "applying"
  /\ pos' = 1
  /\ fresh' = Units \ Running
  /\ upset' = FALSE
  /\ UNCHANGED <<net, tracked, units, trouble>>

AtStep(ops) ==
  /\ phase = "applying"
  /\ pos <= Len(Plans[config])
  /\ Step.op \in ops

Takes(ops) == AtStep(ops) /\ Possible(net, Step)

(* `ip link show || ip link add`: a link that exists stays as it is.       *)
CreateLink ==
  /\ Takes({"create"})
  /\ net' = IF Step.link \in net.present THEN net
            ELSE [net EXCEPT !.present = @ \cup {Step.link},
                             !.parent[Step.link] = Step.parent]

SetUp == Takes({"up"}) /\ net' = Raised(net, Step.link)
SetDown == Takes({"down"}) /\ net' = Lowered(net, Step.link)

Assign ==
  /\ Takes({"address"})
  /\ net' = [net EXCEPT !.addressed = @ \cup {<<Step.link, Step.family>>}]

LeaveDown ==
  /\ Takes({"enslave"})
  /\ net' = WithMaster(Lowered(net, Step.link), Step.link, Step.master)

(* `ip link set M down; ip link set M master B; ip link set M up`: the     *)
(* second may be refused, but what counts is the third.                    *)
Enslave ==
  /\ Takes({"enslave"})
  /\ \E taken \in BOOLEAN :
       /\ Step.link \in Ethernet => taken
       /\ LET low == Lowered(net, Step.link) IN
            net' = Raised(IF taken THEN WithMaster(low, Step.link, Step.master) ELSE low,
                          Step.link)

(* `ip link set M master B; ip link set M up`                              *)
Join ==
  /\ Takes({"join"})
  /\ \E taken \in BOOLEAN :
       /\ Step.link \in Ethernet => taken
       /\ net' = Raised(IF taken THEN WithMaster(net, Step.link, Step.master) ELSE net,
                        Step.link)

(* The kernel takes a link that is up down and up when its VRF changes.    *)
Attach ==
  /\ Takes({"attach"})
  /\ LET moved == WithMaster(net, Step.link, Step.master) IN
       net' = IF Step.link \notin net.up \/ moved = net THEN moved
              ELSE Raised(Lowered(moved, Step.link), Step.link)

ReplaceRoute ==
  /\ Takes({"route"})
  /\ net' = [net EXCEPT !.routes[Step.slot] = Step.devs]

Tune == Takes({"tune"}) /\ UNCHANGED net

WriteProfile ==
  /\ Takes({"write"})
  /\ files' = [files EXCEPT ![Step.path] = Step.profile]
  /\ UNCHANGED <<enabled, running>>

EnableUnit ==
  /\ Takes({"start"})
  /\ enabled' = enabled \cup {Step.unit}
  /\ UNCHANGED <<files, running>>

(* `systemctl enable --now`: a unit that runs is left alone.               *)
StartUnit ==
  /\ Takes({"start"})
  /\ enabled' = enabled \cup {Step.unit}
  /\ running' = [running EXCEPT ![Step.unit] =
                   IF @ = Stopped THEN [p \in ProfilesOf(Step.unit) |-> files[p]] ELSE @]
  /\ UNCHANGED files

(* Let's Encrypt answers, or refuses, which is a Fail.                     *)
RequestCertificates == Takes({"certbot"}) /\ UNCHANGED tracked

(* `sysctl -w net.netfilter...` works once the module is there, which the  *)
(* first rendered chain with a ct expression loads.                        *)
SetCapacity == Takes({"conntrack"}) /\ tracked /\ UNCHANGED tracked
LoadChains == Takes({"load"}) /\ tracked' = TRUE

LinkStep ==
  CreateLink \/ SetUp \/ SetDown \/ Assign \/ Enslave \/ Join \/ Attach \/ ReplaceRoute \/ Tune

RunStep ==
  /\ \/ LinkStep /\ UNCHANGED <<units, tracked>>
     \/ (WriteProfile \/ StartUnit) /\ UNCHANGED <<net, tracked>>
     \/ (RequestCertificates \/ SetCapacity \/ LoadChains) /\ UNCHANGED <<net, units>>
  /\ pos' = pos + 1
  /\ UNCHANGED <<config, phase, notes>>

ModuleIsMissing == Step.op = "conntrack" /\ ~tracked
Blocked ==
  /\ phase = "applying" /\ pos <= Len(Plans[config])
  /\ ~Possible(net, Step) \/ ModuleIsMissing

(* The program refuses, the last one of a snippet: the plan stops there.   *)
Refused ==
  /\ Blocked
  /\ net' \in Begun(net, Step)
  /\ phase' = "aborted"
  /\ UNCHANGED <<config, pos, tracked, units, notes>>

Finish ==
  /\ phase = "applying" /\ pos > Len(Plans[config])
  /\ phase' = "done"
  /\ UNCHANGED <<config, pos, net, tracked, units, notes>>

-----------------------------------------------------------------------------
(* The host.                                                               *)

Trouble == trouble < MaxTrouble /\ trouble' = trouble + 1

(* A step fails, times out, or the daemon is killed, a snippet perhaps     *)
(* half done and a unit enabled but not started.                           *)
Fail ==
  /\ phase = "applying"
  /\ Trouble
  /\ \/ UNCHANGED <<net, units>>
     \/ AtStep({"enslave", "join"}) /\ net' \in Begun(net, Step) /\ UNCHANGED units
     \/ /\ AtStep({"start"})
        /\ enabled' = enabled \cup {Step.unit}
        /\ UNCHANGED <<net, files, running>>
  /\ phase' = "aborted"
  /\ upset' = TRUE
  /\ UNCHANGED <<config, pos, tracked, fresh>>

(* A program of a snippet fails, but not the last: the link does not get   *)
(* its master, and the plan goes on.                                       *)
Slip ==
  /\ Takes({"enslave", "join"})
  /\ Trouble
  /\ \E n \in {net, Opened(net, Step)} : net' = Raised(n, Step.link)
  /\ pos' = pos + 1
  /\ upset' = TRUE
  /\ UNCHANGED <<config, phase, tracked, units, fresh>>

(* The links that the profiles of the running units ask for.               *)
Devices ==
  UNION {{running[u][p].dev : p \in {q \in ProfilesOf(u) : running[u][q] # None}} :
           u \in Running}

(* A service brings its link up, some time after its start.                *)
Appear(l) ==
  /\ l \in Devices \ net.present
  /\ net' = [net EXCEPT !.present = @ \cup {l}, !.up = @ \cup {l},
                        !.addressed = @ \cup ({l} \X Families)]
  /\ UNCHANGED <<lasd, tracked, units, notes>>

(* The tunnel breaks and the service takes its link away; tunnels over it  *)
(* go with it (VXLAN) or stay (GRE).                                       *)
AllSteps(op) == UNION {{s \in ToSet(Plans[c]) : s.op = op} : c \in Configs}
Over(l) == {s.link : s \in {t \in AllSteps("create") : t.under = l}}

Vanish(l) ==
  /\ l \in Devices \cap net.present
  /\ Trouble
  /\ upset' = TRUE
  /\ \E tunnels \in SUBSET Over(l) : net' = Removed(net, {l} \cup tunnels)
  /\ UNCHANGED <<lasd, tracked, units, fresh>>

(* Files and enabled units survive; units start with the files on disk.    *)
Boot ==
  /\ Trouble
  /\ config' = None
  /\ phase' = "idle"
  /\ pos' = 1
  /\ net' = Booted
  /\ tracked' \in BOOLEAN
  /\ running' = [u \in Units |-> IF u \in enabled THEN [p \in ProfilesOf(u) |-> files[p]]
                                ELSE Stopped]
  /\ fresh' = Units \ enabled
  /\ upset' = FALSE
  /\ UNCHANGED <<files, enabled>>

Next ==
  \/ \E c \in Configs : Apply(c)
  \/ RunStep \/ Refused \/ Finish
  \/ \E l \in Links : Appear(l) \/ Vanish(l)
  \/ Fail \/ Slip \/ Boot

Spec == Init /\ [][Next]_vars

(* The executor goes on, and a service that runs gets its link up.         *)
Fairness ==
  /\ WF_vars(RunStep \/ Refused \/ Finish)
  /\ \A l \in Links : WF_vars(Appear(l))
FairSpec == Spec /\ Fairness

-----------------------------------------------------------------------------
(* Properties.                                                             *)

(* Links somebody else than the plan has to make.                          *)
ServiceLinks(c) ==
  {t.dev : t \in {u \in ToSet(c.tunnels) : u.enabled /\ u.dev # None /\ ~u.creates}}

(* The links that interfaces and tunnels give a plan before it comes to    *)
(* routes and layer 2, and those of them that have an address; the bonds   *)
(* and bridges.                                                            *)
Names(list) == Elements(list, NameOf)
Ports(c) == {i \in ToSet(c.interfaces) : i.enabled}
OwnTunnels(c) == {t \in ToSet(c.tunnels) : t.enabled /\ t.creates}
Own(c) == {i.name : i \in Ports(c)} \cup {t.dev : t \in OwnTunnels(c)}
Early(c) == Own(c) \cup ServiceLinks(c)
Addressed(c) ==
  (UNION {{i.name} \X ToSet(i.addresses) : i \in Ports(c)})
    \cup (UNION {{t.dev} \X ToSet(t.addresses) : t \in OwnTunnels(c)})
    \cup (ServiceLinks(c) \X {"v4"})
Masters(c) == Names(c.bonds) \cup Names(c.bridges)

(* A configuration the order of the plan serves: what is set up first does *)
(* not rest on what is made later.  `interfaces` names physical links;     *)
(* tunnels run over them; routes lead over them and over tunnels, with a   *)
(* gateway only where the link has an address of its family, of services   *)
(* an IPv4 one; bonds and bridges have Ethernet links as members; bridges  *)
(* do without VLANs, and VLANs without devices of services.                *)
Served(c) ==
  /\ Names(c.interfaces) \subseteq Physical
  /\ \A i \in ToSet(c.interfaces) : i.gateway \in ToSet(i.addresses) \cup {None}
  /\ \A t \in OwnTunnels(c) : t.under \in {i.name : i \in Ports(c)} \cup {None}
  /\ \A r \in ToSet(c.routes) :
       r.devs \subseteq Early(c) /\ (r.via # None => r.devs \X {r.via} \subseteq Addressed(c))
  /\ Elements(c.bonds, MembersOf) \subseteq Own(c) \cap Ethernet
  /\ Elements(c.bridges, MembersOf) \subseteq (Early(c) \cup Names(c.bonds)) \cap Ethernet
  /\ Elements(c.vlans, ParentOf) \subseteq Own(c) \cup Masters(c)
  /\ Elements(c.vrfs, MembersOf) \cup ToSet(c.queues) \cup ToSet(c.mpls)
       \subseteq Early(c) \cup Masters(c) \cup Names(c.vlans)

(* No two configurations mean different things by the name of a link: what *)
(* plans create, what services bring up and what is in the machine have    *)
(* names of their own, and no plan takes the link of a service down.       *)
Made == {s.link : s \in AllSteps("create")}
Foreign ==
  {Supplied[p].dev : p \in {q \in Paths : Supplied[q] # None}}
    \cup (UNION {ServiceLinks(c) : c \in Configs})
Alike ==
  /\ \A s, t \in AllSteps("create") :
       s.link = t.link => s.parent = t.parent /\ s.under = t.under
  /\ Made \cap (Physical \cup Foreign) = {}
  /\ Foreign \cap (Physical \cup {s.link : s \in AllSteps("down") \cup AllSteps("enslave")}) = {}

ServedConfigs == IF Alike THEN {c \in Configs : Served(c)} ELSE {}

ServiceIsMissing == ~(Needs(Step) \cap ServiceLinks(config) \subseteq net.present)

(* Whatever earlier plans, failures and boots left on the host, a step of  *)
(* a configuration the plan's order serves is refused only because a       *)
(* service has not brought its device up yet (builder.go:242-259) or, the  *)
(* conntrack capacity, because nothing has loaded the module               *)
(* (builder.go:46-48): never for want of what the plan itself sets up.     *)
OnlyHostBlocks ==
  Blocked /\ config \in ServedConfigs => ServiceIsMissing \/ ModuleIsMissing

(* The same for every configuration Validate accepts, which is what        *)
(* docs/ARCHITECTURE.md:16-17 says of the plan: the links are validated    *)
(* and the plan is ordered.                                                *)
ValidPlanRuns == Blocked => ServiceIsMissing \/ ModuleIsMissing

(* What a step asks for is in place, *)
InPlace(s) ==
  /\ s.op = "create" => s.link \in net.present /\ net.parent[s.link] = s.parent
  /\ s.op \in {"up", "enslave", "join"} => s.link \in net.up
  /\ s.op = "down" => s.link \notin net.up
  /\ s.op = "address" => <<s.link, s.family>> \in net.addressed
  /\ s.op \in {"enslave", "join", "attach"} => net.master[s.link] = s.master
  /\ s.op = "route" => net.routes[s.slot] = s.devs
  /\ s.op = "write" => files[s.path] = s.profile
  /\ s.op = "start" => s.unit \in enabled \cap Running

(* unless a later step t of the plan P takes it back: enslaving and        *)
(* attaching a link set it down for a moment, which costs its routes and   *)
(* the IPv6 addresses of the link and of the VLANs on it.                  *)
Carries(P, l, k) ==
  l = k \/ \E u \in ToSet(P) : u.op = "create" /\ u.link = k /\ u.parent = l
TakesBack(P, t, s) ==
  \/ t.op = "route" /\ s.op = "route" /\ t.slot = s.slot
  \/ t.op = "write" /\ s.op = "write" /\ t.path = s.path
  \/ t.op \in {"enslave", "attach"} /\ s.op = "route" /\ t.link \in s.devs
  \/ /\ t.op \in {"enslave", "attach"} /\ s.op = "address" /\ s.family = "v6"
     /\ Carries(P, t.link, s.link)
  \/ /\ {s.op, t.op} \subseteq {"enslave", "join", "attach"}
     /\ t.link = s.link /\ t.master # s.master
  \/ t.op = "down" /\ s.op \in {"up", "enslave", "join"} /\ t.link = s.link
  \/ s.op = "down" /\ t.op \in {"up", "enslave", "join"} /\ t.link = s.link

(* An apply that reports success has configured the host: when the last    *)
(* step is done and the host has not failed a step or lost a link in the   *)
(* meantime, what each step asked for is there, on top of whatever earlier *)
(* plans left (executor.go:16-61).                                         *)
AppliedMeansConfigured ==
  phase = "done" /\ ~upset /\ config \in ServedConfigs =>
    LET P == Plans[config] IN
      \A i \in DOMAIN P :
        InPlace(P[i]) \/ \E j \in i + 1 .. Len(P) : TakesBack(P, P[j], P[i])

(* A unit that the apply started, in one step, has read the profiles the   *)
(* plan wrote for it (builder.go:278-279, 312-314).  Two services of one   *)
(* unit, and FRR with MPLS, start it twice, the first time too early.      *)
FirstStartReadsProfile ==
  phase = "done" =>
    LET P == Plans[config]
        Starts(u) == {i \in DOMAIN P : P[i].op = "start" /\ P[i].unit = u}
    IN \A i \in DOMAIN P :
         LET u == UnitOf[P[i].path] IN
           P[i].op = "write" /\ u \in fresh /\ Cardinality(Starts(u)) = 1 =>
             u \in Running /\ running[u][P[i].path] = files[P[i].path]

(* An administrator who applies again and again succeeds in the end, on a  *)
(* host that has conntrack (builder.go:13-36): the devices that delay a    *)
(* plan are up when the next one comes.                                    *)
RetriesSucceed ==
  []<>(phase = "applying" /\ config \in ServedConfigs) /\ <>[]tracked => []<>(phase = "done")
=============================================================================
