SPECIFICATION Spec
CONSTANTS
    f1 = f1
    Files = {f1, f2}
    Contents = {a, b}
    Goals = {g, h}
    Absent = absent
    Calls = {c1, c2}
    Undos = {u1, u2}
    MaxUser = 1
    MaxFaults = 1
CONSTRAINT Bounded
SYMMETRY Symmetry
INVARIANTS
    RecordsConsistent
    UndoneOnce
    UndoRestores
CHECK_DEADLOCK FALSE
