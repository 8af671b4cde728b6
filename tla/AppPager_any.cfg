SPECIFICATION Spec
CONSTANTS
    t1 = t1
    t2 = t2
    t3 = t3
    fa = fa
    fb = fb
    fc = fc
    Threads = {t1, t2, t3}
    Files = {fa, fb, fc}
    StoredFiles = {fa, fb}
    MaxPages = 4
INVARIANTS
    PagesNotShared
    ThreadListsAgree
    PagesConserved
    NewestFromOwnFile
PROPERTY LostOnlyByEarlyKill
SYMMETRY Symmetry
CHECK_DEADLOCK FALSE
