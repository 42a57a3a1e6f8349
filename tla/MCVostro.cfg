CONSTANTS
  Text <- MCText
  Now = 9
  Bad = Bad
  Msg <- MCMsg
  InitFiles <- MCInitFiles
  Pubkeys <- MCPubkeys
  MaxEvents = 3
SPECIFICATION Spec
INVARIANTS
  TypeOK
  Durable
  Agreement
PROPERTIES
  OldestWins
  ReadYourWrites
  ImplementsStore
