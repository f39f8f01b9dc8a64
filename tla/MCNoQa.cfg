SPECIFICATION Spec
CONSTANTS
    ra = ra
    prs = prs
    Lines <- MCLines
    Renderings <- MCRenderings
    RuleCodes = {ra}
    PRS = prs
    RefSets <- MCRefSets
    ReferenceMap <- MCReferenceMap
    ExceptChoices <- MCExceptChoices
    NoExcept = NoExcept
    AllRules = AllRules
    MaxViolations = 2
INVARIANTS
    KeptAsDocumented
    UnusedAreRedundant
