CONSTANTS
  Text <- MCText
  Now = 9
  Bad = Bad
  Msg <- MCMsg
  InitFiles <- MCInitFiles
  Pubkeys <- MCPubkeys
  MaxEvents = 6
  Client = {"pub1", "req", "bad"}
  Kind <- MCKind
  Sent <- MCSent
SPECIFICATION SessionSpec
PROPERTIES
  StartReturns
