SPECIFICATION WireSpec
CONSTANTS
  MaxTopicLength = 64
  MaxPacketSize = 2304
  MaxPayloadSize = 2048
  MaxClientIdLength = 64
  MaxUint = 255
  MaxString = 4
  Alphabet <- MCAlphabet
  MaxLength <- MCMaxLength
  Messages <- MCMessages
  Contracts <- MCContracts
  Seeds <- MCSeeds
  EditTokens <- MCEditTokens
  MaxEdits = 2
INVARIANT
  PacketsReadBack
  TextsAgree
  CommandsAgree
CHECK_DEADLOCK FALSE
