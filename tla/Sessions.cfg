SPECIFICATION AccountsSpec
CONSTANTS
    Visitors = {v1, v2}
    Users = {u1, u2}
    Tokens = {k1}
    Sids = {sid1, sid2, sid3}
    Nobody = Nobody
    NoToken = NoToken
    NoSid = NoSid
    NoSession = NoSession
PROPERTIES
    TakenStaysTaken
