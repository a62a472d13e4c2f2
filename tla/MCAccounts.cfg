SPECIFICATION PartSpec
CHECK_DEADLOCK FALSE
CONSTANTS
    u1 = u1
    Users = {u1, u2}
    Holders = {u1}
    Mailboxes = {m1}
    Calls = {c1, c2}
    MaxTokens = 2
    NoEmail = NoEmail
    MaxTime = 3
    RaceTime = 2
    MaxLogins = 2
    ShortTtl = 1
    LongTtl = 2
SYMMETRY Symmetry
INVARIANTS
    TokensSingleUse
    TokensHaveUsers
    AccountsInOrder
    SessionsNeverMultiply
    RevocationsLast
