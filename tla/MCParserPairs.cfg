CONSTANTS
    CodeRaws <- MCCodeRaws
    Words <- MCWords
    Closer <- MCCloser
    Persisting <- MCPersisting
    Blanks <- MCBlanks
    Comments <- MCComments
    BlockStarts <- MCBlockStarts
    BlockEnds <- MCBlockEnds
    Dialects <- MCPairs
SPECIFICATION Spec
INVARIANT NoAssertionFails
CHECK_DEADLOCK FALSE
