CONSTANTS
  IsServer = TRUE
  Setup = Setup
  Nobody = Nobody
  Peers <- TwoPeers
  Owns = {o1}
  Acks <- TwoAcks
  Scenes <- PeersOrGlare
  MaxTries = 2
SPECIFICATION FairSpec
CHECK_DEADLOCK FALSE
INVARIANTS
  OneFinalResponse
  NothingLeaks
  ReInvitesExclusive
PROPERTIES
  NoSuccessAfterBye
  EveryReInviteEnds
