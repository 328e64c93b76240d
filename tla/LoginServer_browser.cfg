SPECIFICATION FairLoginSpec
CONSTANTS
    Requests = {r1, r2}
    r1 = r1
    r2 = r2
    Users = {ann, bob}
    ann = ann
    bob = bob
    NoToken = NoToken
    BadToken = BadToken
    SignUp = SignUp
INVARIANTS
    LoginNeedsUser
    PageIsTrue
PROPERTIES
    LoginEnds
CHECK_DEADLOCK FALSE
