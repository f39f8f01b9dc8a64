SPECIFICATION Spec
CONSTANTS
    Paths = {p1, p2}
INVARIANTS
    TypeOK
    UnparsableUntouched
    ExitTellsLeftovers
PROPERTIES
    WritesAwaitConsent
