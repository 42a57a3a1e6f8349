CONSTANTS
  Text <- MCText
  Now = 9
  Bad = Bad
  Msg <- MCMsg
  InitFiles <- MCInitFiles
  Pubkeys <- MCPubkeys
  MaxEvents = 2
SPECIFICATION Spec
PROPERTIES
  JustInsertedIsFound
