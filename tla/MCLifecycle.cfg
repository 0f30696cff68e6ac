CONSTANTS
  Packages = {"app"}
  Specs = {"plain", "kube"}
  Entries = {"pool"}
  ConfigMaps <- MCConfigMaps
  ServicePorts = {"6443"}
  GlobalConfig = TRUE
  Budget <- EditBudget
  Keys <- MCKeys
  Vals <- OperatorVals
  Drifted <- MCDrifted
  ReferencesKubeAPI <- OperatorReferencesKubeAPI
  GenerateFor <- OperatorGenerateFor
  SpecOf <- MCSpecOf
  EgressPool <- MCEgressPool
  IngressPool <- MCIngressPool
  IngressConfigOf <- MCIngressConfigOf
  PortsOf <- MCPortsOf
  Nil = Nil
  Width = 3
  LowerCase <- MCLowerCase
  MaxInt32 = 65535
SPECIFICATION FairSpec
INVARIANTS
  TypeOK
PROPERTIES
  ObservedNeverGoesBack
  Converges
  Quiesces
  ImplementsLifecycle
CHECK_DEADLOCK FALSE
