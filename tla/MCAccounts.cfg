CONSTANTS
  Users = {u1, u2}
  Founder = u1
  Usernames = {n1}
  Passwords = {p1}
  Actions <- OnlyExport
  Requests = {r1, r2}
  Duration = 1
  MaxTokens = 1
SPECIFICATION Spec
SYMMETRY Symmetry
INVARIANTS
  TypeOK
  OutdatedBriefly
PROPERTIES
  PowerFromPower
