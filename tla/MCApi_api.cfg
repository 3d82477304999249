\* Two processes, two callers.
SPECIFICATION ApiSpec
CONSTANTS
    None = None
    Big = Big
    a = a
    b = b
    r1 = r1
    h = h
    m1 = m1
    m2 = m2
    p1 = p1
    c1 = c1
    u = u
    v = v
    q1 = q1
    q2 = q2
    Run = {p1, c1}
    Parent <- Lineage
    Caller = {u, v}
    Id = {q1, q2}
    Actor = {"actor"}
    Offered <- Holding
    Asks = 3
    Losses = 1
SYMMETRY Symmetry
INVARIANTS
    AdmissionIsSound
    ControlIsSound
CHECK_DEADLOCK FALSE
