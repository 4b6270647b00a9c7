SPECIFICATION FairSpec
CONSTANTS
  Users = {ann, bob}
  NoUser = NoUser
  MaxChains = 3
INVARIANTS TypeOK ShownIsSignedIn ProfilesHaveAccounts
PROPERTIES LoadingEnds NetworkComesBack
CHECK_DEADLOCK FALSE
