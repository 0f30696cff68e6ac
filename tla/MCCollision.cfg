CONSTANTS
  Packages = {"app"}
  Specs = {"twice"}
  Entries = {"pool"}
  ConfigMaps <- MCConfigMaps
  ServicePorts = {"6443"}
  GlobalConfig = TRUE
  Budget <- OneEdit
  Keys <- MCKeys
  Vals <- OperatorVals
  Drifted <- MCDrifted
  ReferencesKubeAPI <- OperatorReferencesKubeAPI
  GenerateFor <- OperatorGenerateFor
  SpecOf <- MCSpecOf
  EgressPool <- MCEgressPool
  IngressPool <- MCIngressPool
  IngressConfigOf <- MCIngressConfigOf
  PortsOf <- MCPortsOf
  Nil = Nil
  Width = 3
  LowerCase <- MCLowerCase
  MaxInt32 = 65535
SPECIFICATION FairSpec
PROPERTIES
  Quiesces
CHECK_DEADLOCK FALSE
