CONSTANTS
  Text <- MCText
  Now = 9
  Bad = Bad
  Msg <- MCMsg
  InitFiles <- MCInitFiles
  Pubkeys <- MCPubkeys
  MaxEvents = 6
  Client = {"pub1", "req"}
  Kind <- Wostro
  Sent <- MCSent
SPECIFICATION SessionSpec
PROPERTIES
  StoredEventsEnd
