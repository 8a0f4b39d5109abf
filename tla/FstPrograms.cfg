SPECIFICATION FairSpec
CONSTANTS
  ParamCount = 1
  Values = {"off", "on"}
  DefaultValue = "off"
  Programs = {0, 1}
  Names = {"Prog", "Default"}
  DefaultName = "Prog"
  BuiltInName = "Default"
  HostBanks <- MCHostBanks
  QueueCapacity = 18
  MinSamples = 1
  BlockSizes = {1, 2}
  Calls = {"set_program", "set_program_name", "set_patch", "set_bank", "set_parameter", "get_patch", "knob", "resume", "set_sample_rate"}
  MaxCalls = 3
INVARIANTS TypeOK CopiesAreCurrent
PROPERTIES ImplementsProgramBank CopiesCatchUp
