SPECIFICATION FairSpec
INVARIANTS TypeOK CustomersApart NoReplyLost
PROPERTIES MessagesArrive
\* Everything has been connected and answered, or was cut short.
CHECK_DEADLOCK FALSE
CONSTANTS
    a1 = a1
    a2 = a2
    a3 = a3
    w1 = w1
    w2 = w2
    app = app
    m1 = m1
    m2 = m2
    m3 = m3
    p1 = p1
    p2 = p2
    Accounts = {a1, a2, a3}
    Coexistence = {a2, a3}
    Wabas = {w1, w2}
    WabaOf <- MCWabaOf
    Apps = {app}
    AppOf <- MCAppOf
    ByHand = {w2}
    Messages = {m1, m2, m3}
    Textual = {m1, m2}
    SentTo <- MCSentTo
    Posts = {p1, p2}
    MaxFailures = 1
    NoAccount = NoAccount
