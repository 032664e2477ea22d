------------------------------- MODULE MCHost -------------------------------
(***************************************************************************)
(* Instances of Host for TLC: two physical links, the links and services   *)
(* four configurations of a small router make of them.                     *)
(***************************************************************************)
EXTENDS Host

CONSTANTS eth0, eth1, tun0, gre0, bond0, br0, vlan10, blue,
          ovpn, dnsmasq, frr, keepalived, certbot

MCLinks == {eth0, eth1, tun0, gre0, bond0, br0, vlan10, blue}
MCPhysical == {eth0, eth1}
MCEthernet == {eth0, eth1, bond0, br0, vlan10}
MCUnits == {ovpn, dnsmasq, frr, keepalived, certbot}
MCPaths == {"client", "dns", "bgp", "vrrp", "hook"}
MCUnitOf == [p \in MCPaths |->
               IF p = "client" THEN ovpn ELSE IF p = "dns" THEN dnsmasq
               ELSE IF p = "bgp" THEN frr ELSE IF p = "vrrp" THEN keepalived ELSE certbot]
NoFiles == [p \in Paths |-> None]

Port(l, addresses, gateway) ==
  [name |-> l, enabled |-> TRUE, addresses |-> addresses, gateway |-> gateway]
Unused(l) == [name |-> l, enabled |-> FALSE, addresses |-> <<>>, gateway |-> None]

(* An OpenVPN client, whose device is the service's, and a GRE tunnel.     *)
Client(version) ==
  [enabled |-> TRUE, dev |-> tun0, creates |-> FALSE, under |-> None, managed |-> TRUE,
   unit |-> ovpn, path |-> "client", version |-> version, addresses |-> <<>>, table |-> 1]
Gre ==
  [enabled |-> TRUE, dev |-> gre0, creates |-> TRUE, under |-> eth0, managed |-> FALSE,
   unit |-> None, path |-> None, version |-> 1, addresses |-> <<"v4">>, table |-> 2]

Empty ==
  [conntrack |-> FALSE, interfaces |-> <<>>, acme |-> <<>>, tunnels |-> <<>>, routes |-> <<>>,
   services |-> <<>>, mpls |-> <<>>, bonds |-> <<>>, bridges |-> <<>>, vlans |-> <<>>,
   vrrp |-> <<>>, vrfs |-> <<>>, frr |-> <<>>, queues |-> <<>>,
   jobs |-> <<>>, guards |-> <<>>]

(* Two uplinks in a failover group, a VPN and DNS for the clients.         *)
Edge ==
  [Empty EXCEPT !.conntrack = TRUE,
     !.interfaces = <<Port(eth0, <<"v4">>, "v4"), Port(eth1, <<"v6">>, None)>>,
     !.acme = <<[unit |-> certbot, path |-> "hook", version |-> 1]>>,
     !.tunnels = <<Client(1)>>,
     !.routes = <<[slot |-> 4, devs |-> {eth1}, via |-> "v6"],
                  [slot |-> 5, devs |-> {tun0}, via |-> None]>>,
     !.services = <<[unit |-> dnsmasq, path |-> "dns", version |-> 1]>>]

(* The second port in a bond under a bridge, with a VLAN on the bridge.    *)
Trunk ==
  [Empty EXCEPT
     !.interfaces = <<Port(eth0, <<"v4">>, "v4"), Port(eth1, <<>>, None)>>,
     !.tunnels = <<Client(2)>>,
     !.bonds = <<[name |-> bond0, members |-> <<eth1>>]>>,
     !.bridges = <<[name |-> br0, members |-> <<bond0>>]>>,
     !.vlans = <<[name |-> vlan10, parent |-> br0, addresses |-> <<"v6">>]>>,
     !.vrrp = <<[unit |-> keepalived, path |-> "vrrp", version |-> 1]>>,
     !.guards = <<[unit |-> dnsmasq, path |-> "dns", version |-> 2]>>]

(* A VRF over the first port and a tunnel, dynamic routing and MPLS.       *)
Core ==
  [Empty EXCEPT
     !.interfaces = <<Port(eth0, <<"v4", "v6">>, "v6"), Unused(eth1)>>,
     !.tunnels = <<Gre>>,
     !.routes = <<[slot |-> 4, devs |-> {eth0, gre0}, via |-> "v4"]>>,
     !.mpls = <<eth0>>,
     !.vrfs = <<[name |-> blue, members |-> <<eth0, gre0>>]>>,
     !.frr = <<[unit |-> frr, path |-> "bgp", version |-> 1]>>,
     !.queues = <<eth0>>,
     !.jobs = <<[unit |-> dnsmasq, path |-> None, version |-> 1]>>]

MCConfigs == {Edge, Trunk, Core}

(* A route of a WAN group over a VLAN, accepted by Validate.               *)
VlanUplink ==
  [Empty EXCEPT
     !.interfaces = <<Port(eth0, <<>>, None)>>,
     !.routes = <<[slot |-> 1, devs |-> {vlan10}, via |-> "v4"]>>,
     !.vlans = <<[name |-> vlan10, parent |-> eth0, addresses |-> <<"v4">>]>>]

OrderConfigs == {VlanUplink}
=============================================================================
