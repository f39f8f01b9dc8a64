SPECIFICATION Spec
CONSTANTS
    Fixers = {f1, f2}
    Original = Original
    Torn = Torn
    Absent = Absent
INVARIANTS TargetWhole NoOrphans
