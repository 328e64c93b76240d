SPECIFICATION LoginSpec
CONSTANTS
    Requests = {r1, r2}
    r1 = r1
    r2 = r2
    Users = {ann, bob}
    ann = ann
    bob = bob
    NoToken = NoToken
    BadToken = BadToken
    SignUp = SignUp
INVARIANTS
    CredentialsOrError
CHECK_DEADLOCK FALSE
