SPECIFICATION Spec
INVARIANTS OneInFlight
CONSTANTS
    o1 = o1
    o2 = o2
    m1 = m1
    m2 = m2
    Leads = {l1}
    Owners = {o1}
    Members = {m1}
    Deliveries = {d1, d2}
    Admins = {}
    EmailMatch <- EachHisOwn
    MaxJourneys = 2
    NoLead = NoLead
    NoOwner = NoOwner
    NoUser = NoUser
