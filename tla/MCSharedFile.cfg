CONSTANTS
  Text <- MCText
  Now = 9
  Bad = Bad
  Msg <- MCMsg
  InitFiles <- MCInitFiles
  MaxEvents = 2
  MaxEntries = 3
SPECIFICATION Spec
INVARIANTS
  SharedTypeOK
  LastWriterKept
PROPERTIES
  SaveAloneLosesNothing
  StartsEmpty
  ImplementsUnlocked
