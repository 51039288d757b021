\* Two accounts, two addresses, two links, one Google account.
CONSTANTS
  Email = {e1, e2}
  NoEmail = NoEmail
  Sub = {g1}
  NoSub = NoSub
  Worker = {w1, w2}
  MaxUsers = 2
  MaxLinks = 2
SPECIFICATION Spec
SYMMETRY Sym
INVARIANTS
  VerifiedAddressIsProven
PROPERTIES
  OnlyOvertakenUsesRepeat
  LinksAreForOwners
  GoogleSignsInLinkedUser
