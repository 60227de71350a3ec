CONSTANTS
  PeersFile = {"peer1", "peer2"}
SPECIFICATION FairSpec
INVARIANTS
  TypeOK
  JoinsOnlyLeavers
  StateTellsThread
  NullOnlyWhileOpening
  DestroyedQuiet
PROPERTIES
  LostPeerRetried
  DestructorReturns
