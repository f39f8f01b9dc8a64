SPECIFICATION Spec
CONSTANTS
    Size = 5
    RawSlices <- MCRawSlices
    Texts = {t1, t2}
    Variants = 2
    MaxPatches = 3
INVARIANTS
    TypeOK
    FixedIsSourcePatched
    TagsIntact
    PatchesSurvive
