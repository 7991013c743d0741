CONSTANTS
  Requests = {r1}
  Windows <- FourWindows
  Malformed <- Unreadable
  MaxVersion = 2
  MaxParts = 2
  MaxMishaps = 1
  Mishaps = {"oldCopy", "unrefreshed", "expiry", "amid", "redisError", "storeError", "exit"}
  None = None
  Day = Day
  Hour = Hour
SPECIFICATION FairSpec
INVARIANTS
  TypeOK
  AnswersWindowAsked
  StatusNotOlder
  AnsweredOnce
  DeletedForgotten
PROPERTIES
  Settles
