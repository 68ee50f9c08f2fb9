\* Two admins, an account more and two calls at once; two default strategies, a third
\* name, two tokens and one webhook; three connections and three broadcasts.
SPECIFICATION Spec
CONSTANTS
    v1 = v1  v2 = v2  v3 = v3  v4 = v4
    w1 = w1  w2 = w2
    c1 = c1  c2 = c2
    bot = bot  plain = plain  other = other
    Id <- Values
    Email <- Words
    Call <- AdminCalls
    RowId <- Values4
    Name <- Names
    Default <- Seeded
    Bot = {bot}
    Token <- Words
    Post = {"p1"}
    Socket <- Values
    MaxMessages = 3
SYMMETRY Symmetry
INVARIANTS
    TokenKeepsItsRow
    CreditedAsPosted
    NothingMissed
PROPERTIES
    RevokedIsRefused
    RevocationSticks
    LastAdminFallsToAStaleCall
\* The hub is over when every connection has been used.
CHECK_DEADLOCK FALSE
