CONSTANTS
    Threads = {t1, t2}
    Procs = {p1, p2}
    Paths = {work, demo, other}
    Work = work
    Demo = demo
    None = None
SPECIFICATION Spec
SYMMETRY ThreadSymmetry
INVARIANTS
    TypeOK
    ActiveIsRegistered
    StaleOnlyByRace
    WayBack
