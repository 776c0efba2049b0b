SPECIFICATION Spec
INVARIANTS TypeOK OneOwnerPerMember
PROPERTIES ResumedWithOwner
SYMMETRY AdminSymmetry
CONSTANTS
    o1 = o1
    o2 = o2
    m1 = m1
    m2 = m2
    Leads = {l1}
    Owners = {o1, o2}
    Members = {m1, m2}
    Deliveries = {d1}
    Admins = {a1, a2}
    EmailMatch <- BothTheSame
    MaxJourneys = 1
    NoLead = NoLead
    NoOwner = NoOwner
    NoUser = NoUser
