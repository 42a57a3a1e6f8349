CONSTANTS
  Argv <- MCArgv
  Calls <- MCCalls
  TimeLimit = 100
  Time = 50
  BadHex = {"junk"}
  NoNumber = NoNumber
  StrLen <- MCStrLen
  TagsInStr <- MCTagsInStr
  TextInStr <- MCTextInStr
  Huge = {"huge"}
  MaxTags = 2
  Lucky = {2}
  Nonces = 4
  None = None
SPECIFICATION Spec
CHECK_DEADLOCK FALSE
INVARIANTS
  NostrilTypeOK
  IdCommits
  WorkIsDone
  NoTagIsLost
PROPERTIES
  Terminates
