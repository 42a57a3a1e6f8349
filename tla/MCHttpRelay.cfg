CONSTANTS
  Text <- MCText
  Now = 9
  Bad = Bad
  Client = {"http_client", "odd"}
  Program <- MCProgram
  InitFiles <- MCInitFiles
  Word = 16
SPECIFICATION Spec
CHECK_DEADLOCK FALSE
INVARIANTS
  HttpTypeOK
  ExactlyTheBody
  WholeIsAnswered
PROPERTIES
  AckedIsRead
  AllFinish
  ImplementsPosts
