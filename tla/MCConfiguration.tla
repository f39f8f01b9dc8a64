--------------------------- MODULE MCConfiguration ---------------------------
(***************************************************************************)
(* A home directory with a project in it and a directory outside; a file   *)
(* in each of three directories and a string; registers whose names,       *)
(* groups and aliases collide.                                             *)
(***************************************************************************)
EXTENDS Configuration

MCAncestry == [d \in Dirs |->
    CASE d = "top" -> <<"top">>
      [] d = "home" -> <<"top", "home">>
      [] d = "proj" -> <<"top", "home", "proj">>
      [] d = "models" -> <<"top", "home", "proj", "models">>
      [] d = "drive" -> <<"drive">>]

MCDirOf == [f \in Files |->
    CASE f = "plain.sql" -> "models" [] f = "inline.sql" -> "models" [] f = "far.sql" -> "drive"]

MCDirectives == [d \in Docs |->
    CASE d = "inline.sql" -> {"rules"} [] d = "query" -> {"exclude_rules"} [] OTHER -> {}]

\* Every source has lists of its own: a code, a group, an alias, a glob.
MCLists == [s \in Sources |->
    IF s = Default THEN [rules |-> {"all"}, exclude_rules |-> {}]
    ELSE [rules |-> CASE s = "home" -> {"layout"} [] s = "proj" -> {"L001", "nonsense"}
                      [] s = "models" -> {"LT*"} [] s = "inline.sql" -> {"AM01"}
                      [] OTHER -> {},
          exclude_rules |-> CASE s = "proj" -> {"spacing"} [] s = Override -> {"LT*"}
                              [] s = "query" -> {"LT01"} [] OTHER -> {"L001"}]]

MCGlobOf == [g \in Globs |-> {"LT01", "LT02", "LT.old"}]

Rule(code, name, groups, aliases) ==
    [code |-> code, name |-> name, groups |-> groups \cup {"all"}, aliases |-> aliases]

\* In the second an alias and a group are also a name and a code.
MCRegisters == {
    << Rule("LT01", "spacing", {"layout"}, {"L001", "LT.old"}),
       Rule("LT02", "indent", {"layout"}, {"L001"}),
       Rule("AM01", NoName, {}, {}) >>,
    << Rule("LT01", "spacing", {"layout"}, {"L001"}),
       Rule("AM01", "L001", {"LT02"}, {"layout"}),
       Rule("LT02", "spacing", {"AM01"}, {"spacing", "LT.old"}) >> }
==============================================================================
