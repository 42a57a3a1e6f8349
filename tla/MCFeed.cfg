CONSTANTS
  Text <- MCText
  Now = 9
  Bad = Bad
  User = "user"
  Published <- MCPublished
  MaxEvents = 4
SPECIFICATION Spec
CHECK_DEADLOCK FALSE
INVARIANTS
  FeedTypeOK
  RowsAreByTheirKeys
  ContactsAreShown
  OnlyLossAborts
  FollowsAreContacts
