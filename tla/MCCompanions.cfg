CONSTANTS
  Nil = Nil
  Width = 3
  LowerCase <- MCLowerCase
  MaxInt32 = 65535
  Inputs <- MonitoringRule
  SharedPools <- MCSharedPools
  IngressConfigs <- MCIngressConfigs
  PortLookups <- MCPortLookups
  Workloads <- MCWorkloads
  ProbePorts <- MCProbePorts
SPECIFICATION Spec
INVARIANT EveryRuleHasItsCompanion
