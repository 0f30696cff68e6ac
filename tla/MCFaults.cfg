CONSTANTS
  Packages = {"app"}
  Specs = {"small", "kube"}
  Entries = {"pool"}
  ConfigMaps <- MCConfigMaps
  ServicePorts = {"6443"}
  GlobalConfig = TRUE
  Budget <- FaultBudget
  Keys <- MCKeys
  Vals <- OperatorVals
  Drifted <- MCDrifted
  ReferencesKubeAPI <- OperatorReferencesKubeAPI
  GenerateFor <- OperatorGenerateFor
  SpecOf <- MCSpecOf
  EgressPool <- MCEgressPool
  IngressPool <- MCIngressPool
  IngressConfigOf <- MCIngressConfigOf
  PortsOf <- MCPortsOf
  Nil = Nil
  Width = 3
  LowerCase <- MCLowerCase
  MaxInt32 = 65535
SPECIFICATION Spec
INVARIANTS
  StatusConsistent
  MakeBeforeBreak
  BaselineStays
  SettledMeansCorrect
CHECK_DEADLOCK FALSE
