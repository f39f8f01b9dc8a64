SPECIFICATION VariantsSpec
CONSTANTS
    ra = ra
    prs = prs
    tmp = tmp
    Lines <- MCLines
    Templates <- MCTemplates
    ErrorLines = {2}
    Limits = {1, 2}
    RuleCodes = {ra}
    PRS = prs
    TMP = tmp
    RefSets <- MCRefSets
    ReferenceMap <- MCReferenceMap
    AllRules = AllRules
    MaxComments = 2
    MaxFaults = 1
INVARIANTS
    ReportedAsDocumented
    AlternatesOnlyAdd
