SPECIFICATION Spec
CONSTANTS
    Business <- TwoBusinesses
    Call = {c1, c2}
    ConfigDefault = 0
    Redirect <- OwnRedirect
INVARIANTS
    StoredForOwner
