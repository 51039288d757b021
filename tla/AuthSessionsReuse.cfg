\* One account, two API workers.
CONSTANTS
  User = {u1}
  Worker = {w1, w2}
  NoUser = NoUser
  MaxTokens = 2
  MaxResets = 0
  MaxPasswords = 0
SPECIFICATION Spec
PROPERTIES
  ReuseRevokesFamily
