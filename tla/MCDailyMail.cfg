CONSTANTS
  Users = {u1, u2}
  Servers = {s1, s2}
  Mishaps = {"demotion", "isError", "exit"}
SPECIFICATION FairSpec
INVARIANTS
  ReachesAll
  OnlyAdministrators
PROPERTIES
  MailsGoOn
