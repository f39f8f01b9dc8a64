SPECIFICATION Spec
CONSTANTS
  Raws = {"a", "ws", "b", "c", "d", "(", ")", "end"}
  NewRaws = {"x", "B", "C", "_"}
  SourceFixes = {"s1", "s2"}
  NonCode = {"ws", "_", "end"}
  Root = "file"
  Trees <- MCTrees
  FixesOf <- MCFixesOf
  MaxFixes = 2
INVARIANTS TextIsEdited UnparsableKept ValidMeansReparsed SourceFixesKept
CHECK_DEADLOCK FALSE
