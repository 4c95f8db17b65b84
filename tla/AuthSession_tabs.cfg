SPECIFICATION Spec
CONSTANTS
  t1 = t1
  t2 = t2
  c1 = c1
  c2 = c2
  Users = {u1, u2}
  Tabs = {t1, t2}
  Calls = {c1, c2}
  TabOf <- MCTabOf
  Writers = {c2}
  Readers = {c1}
  SignsOut = {t1}
  LoginsOf <- MCLoginsOf
  u1 = u1
  u2 = u2
  NoUser = NoUser
  NoTab = NoTab
  MaxSessions = 3
  MaxFaults = 1
INVARIANTS
  MutationScoped
  OneLivePerLogin
  MarkerNamesOwner
  NoTabStuck
  StaleTabHasNews
PROPERTY NoFalseReplay
SYMMETRY Accounts
VIEW MCView
