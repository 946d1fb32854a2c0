SPECIFICATION Spec
CONSTANTS
    Business <- Businesses
    Call = {c1, c2}
    ConfigDefault = 2
    Redirect <- AnyRedirect
SYMMETRY Symmetry
VIEW View
INVARIANTS
    TypeOK
    DefaultAuthorised
    ActiveAuthorised
    CarefulStoredForOwner
    RequestsWithOwnToken
    ForgottenStaysForgotten
