\* One account, two API workers, three tokens, a browser with two tabs.
CONSTANTS
  User = {u1}
  Worker = {w1, w2}
  NoUser = NoUser
  MaxTokens = 3
  MaxResets = 0
  MaxPasswords = 0
  Tab = {tab1, tab2}
  NoTab = NoTab
  Lost = Lost
SPECIFICATION BrowserSpec
SYMMETRY SymTabsWorkers
INVARIANTS
  ReplacementLinks
  SuccessorRetiresParent
  OnlyOvertakenRefreshesFork
  EndedSessionsHaveNoLateSuccessor
  OnlyOverlappingAnswersUndoLogout
  RacingTabsKeepTheCookie
