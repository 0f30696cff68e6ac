CONSTANTS
  Packages = {"app", "web"}
  Specs = {"small", "shared"}
  Entries = {"pool"}
  ConfigMaps <- TwoConfigMaps
  ServicePorts = {"6443"}
  GlobalConfig = FALSE
  Budget <- TwoBudget
  Keys <- MCKeys
  Vals <- OperatorVals
  Drifted <- MCDrifted
  ReferencesKubeAPI <- OperatorReferencesKubeAPI
  GenerateFor <- OperatorGenerateFor
  SpecOf <- MCSpecOf
  EgressPool <- MCEgressPool
  IngressPool <- MCIngressPool
  IngressConfigOf <- MCIngressConfigOf
  PortsOf <- MCPortsOf
  Nil = Nil
  Width = 3
  LowerCase <- MCLowerCase
  MaxInt32 = 65535
SPECIFICATION FairSpec
INVARIANTS
  BaselineStays
PROPERTIES
  Converges
CHECK_DEADLOCK FALSE
