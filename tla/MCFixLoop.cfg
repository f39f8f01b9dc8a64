SPECIFICATION FairSpec
CONSTANTS
    layout = layout
    caps = caps
    report = report
    Rules = {layout, caps, report}
    RulePack <- MCRulePack
    PostRules = {caps}
    FixCompatible = {layout, caps}
    Versions = {0, 1, 2, 3}
    InitVersion = 0
    FixSets = {f1, f2}
    NoFixes = NoFixes
    NoResult = NoResult
    NoRule = NoRule
    MaxErrors = 1
    RunawayLimit = 2
    IgnoreTemplated = TRUE
INVARIANTS FixedIsStable EveryRuleReports RunawayIsUnfixable
PROPERTIES ImplementsFixPromise ReportFrozen Termination
