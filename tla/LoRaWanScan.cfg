CONSTANTS
  Modes = {0, 1, 2}
  GwChannels <- MCGwChannels
  InboxMax = 2
  Payloads <- MCPayloads
  FCnts <- MCFCnts
  FOpts <- MCFOpts
  Places <- MCPlaces
  Era <- MCEra
  OtherSettings <- MCOtherSettings
  Uptimes = {60, 400000}
  None = None
SPECIFICATION FairSpec
INVARIANTS
  DecodedAsSent
  AnswersAreAcks
  RadioIsSet
PROPERTIES
  BeaconsFollowed
