--------------------------- MODULE MCLintVariants ---------------------------
(* Three lines: a shared line before or after the two branches of an if, and a   *)
(* first rendering that is empty.                                               *)
EXTENDS LintVariants

CONSTANTS ra, prs, tmp

MCLines == 1..3
MCTemplates == {<< <<1, 2>>, <<1, 3>> >>, << <<1, 3>>, <<2, 3>> >>, << <<>>, <<1, 2, 3>> >>}
MCReferenceMap == [r \in {ra} |-> {ra}]
MCRefSets == {{ra}}
=============================================================================
