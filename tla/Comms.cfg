SPECIFICATION MCSpec
CONSTANTS
    Handlers = {h1, h2}
    First = h1
    Staff = {s, o}
    OrgWide = {s, t}
    Tenants = {t}
    OwnerUsers = {o}
    Conversation = {1}
    Message = {1, 2}
    MaxTime = 2
    NoId = NoId
    RowId = {1, 2, 3}
    Values = {1, 2}
    MaxPage = 2
    Null = Null
    Absent = Absent
    PushUser = {u1, u2}
    Token = {t1, t2}
    Device = {d1}
    Home = d1
    Ticket = {1, 2, 3}
    Take = 2
    MaxLost = 1
    MaxFaults = 1
    Nobody = Nobody
    Clerks = {k1, k2}
    UnitId = {1, 2}
    Label = {l1, l2}
    Owner = {w1, w2}
    PortalUser = {pu, pw}
    OwnerAccess <- MCOwnerAccess
    Amenity = {a1}
    Resident = {r1}
    Visitor = {v1}
    MaxRows = 2
    Keep = Keep
    Nil = Nil
INVARIANTS CommsTypeOK CaughtUp ListedOnce OwnersAgree
PROPERTY AnsweredReceiptSettles
CHECK_DEADLOCK FALSE
