CONSTANTS
    Names = {t1, t2}
    Stages = {s1}
    Machines = {m1}
    Absent = Absent
    t1 = t1
    t2 = t2
    s1 = s1
    m1 = m1
SPECIFICATION Spec
INVARIANTS TypeOK TaskStageCascade
