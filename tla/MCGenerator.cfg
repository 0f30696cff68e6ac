CONSTANTS
  Nil = Nil
  Width = 3
  LowerCase <- MCLowerCase
  MaxInt32 = 65535
  Inputs <- MCInputs
  SharedPools <- MCSharedPools
  IngressConfigs <- MCIngressConfigs
  PortLookups <- MCPortLookups
  Workloads <- MCWorkloads
  ProbePorts <- MCProbePorts
SPECIFICATION Spec
INVARIANTS
  NeverGuesses
  PortsLookedUp
  CompanionsAgree
  AmbientReachable
  RoutesAdmitTheirGateways
  EveryObjectIsPrunable
  ExclusionsHold
  MirroredRulesMeet
  DefaultsSwitchAlone
