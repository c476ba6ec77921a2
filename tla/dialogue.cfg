SPECIFICATION Spec
CONSTANTS
  Chars = {"a", "b", ";"}
  Lists <- MCLists
  CheckLimit = 2
  MailLimit = 1
  MaxAnswers = 4
  MaxReplies = 8
INVARIANTS TypeOK PassedIsExpected LockStep EveryoneNamed InTime SocketKept
PROPERTY SocketReturned
CHECK_DEADLOCK FALSE
