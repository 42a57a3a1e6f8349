CONSTANTS
  Session = {"a", "b"}
  Writer = {"a"}
  Key = {"k1"}
  DefKey = "default"
  Torn = "torn"
  None = None
SPECIFICATION Spec
INVARIANTS
  WostroTypeOK
  FeedIsOwn
  RequestsAreOwn
