CONSTANTS
  Packages = {"app"}
  Specs = {"pooled", "routed"}
  Entries = {"pool"}
  ConfigMaps <- MCConfigMaps
  ServicePorts = {"6443"}
  GlobalConfig = TRUE
  Budget <- ConfigBudget
  Keys <- MCKeys
  Vals <- OperatorVals
  Drifted <- MCDrifted
  ReferencesKubeAPI <- OperatorReferencesKubeAPI
  GenerateFor <- OperatorGenerateFor
  SpecOf <- MCSpecOf
  EgressPool <- MCEgressPool
  IngressPool <- MCIngressPool
  IngressConfigOf <- MCIngressConfigOf
  PortsOf <- MCPortsOf
  Nil = Nil
  Width = 3
  LowerCase <- MCLowerCase
  MaxInt32 = 65535
SPECIFICATION FairSpec
INVARIANTS
  VerdictReflectsSpec
  SettledMeansCorrect
PROPERTIES
  Converges
CHECK_DEADLOCK FALSE
