SPECIFICATION Spec
CONSTANTS
  Addr4 <- MCAddr4
  Addr6 <- MCAddr6
  Main <- MCMain
  None = None
  Histories <- MCHistories
  Packets <- MCPackets
INVARIANTS
  TypeOK
  OneRulePerPriority
  MarkIsOfFirstRule
  PolicyInForce
  NeverMisrouted
  FailoverBacksUp
  NatFollowsRule
