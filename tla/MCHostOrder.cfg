SPECIFICATION Spec
CONSTANTS
  eth0 = eth0
  eth1 = eth1
  tun0 = tun0
  gre0 = gre0
  bond0 = bond0
  br0 = br0
  vlan10 = vlan10
  blue = blue
  ovpn = ovpn
  dnsmasq = dnsmasq
  frr = frr
  keepalived = keepalived
  certbot = certbot
  None = None
  Stopped = Stopped
  Links <- MCLinks
  Physical <- MCPhysical
  Ethernet <- MCEthernet
  Units <- MCUnits
  Frr = frr
  Paths <- MCPaths
  Configs <- OrderConfigs
  UnitOf <- MCUnitOf
  Supplied <- NoFiles
  MaxTrouble = 0
INVARIANT ValidPlanRuns
