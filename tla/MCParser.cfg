CONSTANTS
    CodeRaws <- MCCodeRaws
    Words <- MCWords
    Closer <- MCCloser
    Persisting <- MCPersisting
    Blanks <- MCBlanks
    Comments <- MCComments
    BlockStarts <- MCBlockStarts
    BlockEnds <- MCBlockEnds
    Dialects <- MCDialects
SPECIFICATION Spec
INVARIANTS
    WellNested
    NothingDropped
    RaisesOnlyOnBrackets
    CleanIsDerived
    PrunedCannotMatch
    CacheIsTransparent
    IndentsBalance
CHECK_DEADLOCK FALSE
