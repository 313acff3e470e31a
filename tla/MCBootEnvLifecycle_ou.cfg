CONSTANTS
    Names = {b1, b2}
    OSes = {o1, o2}
    RepoOSes = {o1}
    Install <- MCInstall
    OUValues = {FALSE, TRUE}
    Machines = {m1}
    Stages = {s1}
    None = None
    Absent = Absent
    b1 = b1
    b2 = b2
    o1 = o1
    o2 = o2
    m1 = m1
    s1 = s1
SPECIFICATION Spec
PROPERTIES DeleteGuard
