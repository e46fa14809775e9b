SPECIFICATION Spec
CONSTANTS
  Configs <- MCConfigs
  Disabled <- MCDisabled
  Produces <- MCProduces
  MaxFaults = 2
INVARIANTS AttestedOnly SessionOutlivesPasses FailuresAreTold ReportIsComplete
CHECK_DEADLOCK FALSE
