\* Two accounts, two addresses, two links, one Google id and one browser.
CONSTANTS
  Username = {n1, n2}
  NoName = NoName
  Email = {e1, e2}
  NoEmail = NoEmail
  Sub = {g1}
  NoSub = NoSub
  Text = {empty, text}
  Empty = empty
  Browser = {b1}
  NoBrowser = NoBrowser
  Worker = {w1, w2}
  MaxUsers = 2
  MaxLinks = 2
  MaxPasswords = 3
  MaxRequests = 5
SPECIFICATION Spec
SYMMETRY Sym
INVARIANTS
  SharedAddressesAreRaced
  SpentLinksVerify
PROPERTIES
  OnlyOvertakenResetsRepeat
  GoogleSignsInLinkedUser
  OnlyOvertakenEditsAreLost
