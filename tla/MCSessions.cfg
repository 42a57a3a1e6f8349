CONSTANTS
  Text <- MCText
  Now = 9
  Bad = Bad
  Msg <- MCMsg
  InitFiles <- MCInitFiles
  Pubkeys <- MCPubkeys
  MaxEvents = 6
  Client = {"pub1", "pub2", "req"}
  Kind <- MCKind
  Sent <- MCSent
SPECIFICATION SessionSpec
INVARIANTS
  SessionTypeOK
  OwnAnswer
  ToldIsKept
  SilenceIsFailure
