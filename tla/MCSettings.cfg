CONSTANTS
  NumberOf <- MCNumberOf
  DumpOf <- MCDumpOf
  Names = {"chain.reset.enable", "rest.port", "mining.miner.address", "logs.level"}
  Texts = {"", "1", "08080", "70000"}
  MaxItems = 2
  MaxCalls = 2
SPECIFICATION Spec
INVARIANTS
  TypeOK
  SavedFileLoads
  ThrowsOnlyOnForeignKinds
  ListensOnFilePort
