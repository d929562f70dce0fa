SPECIFICATION CommandSpec
CONSTANTS
  Executables = {"v1", "v2", "v3"}
  Configs = {"c1", "c3"}
  Broken = {"v3", "c3"}
  MaxFaults = 2
  MaxCommands = 3
  Absent = "absent"
  Torn = "torn"
CHECK_DEADLOCK FALSE
INVARIANTS
  CommandTypeOK
  DeployedExecutableSurvives
  ConfigurationSurvives
  InstalledExecutableIsWhole
  ReportIsTrue
PROPERTIES
  UpgradeKeepsServiceUp
