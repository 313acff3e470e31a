CONSTANTS
    UUIDs = {u1, u2}
    Machines = {m1, m2}
    Clients = {c1, c2}
    Scope <- MCScope
    All = All
    Absent = Absent
    c1 = c1
    c2 = c2
    m1 = m1
    m2 = m2
    u1 = u1
    u2 = u2
SPECIFICATION Spec
INVARIANTS ReadAuthorized
