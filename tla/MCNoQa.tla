------------------------------- MODULE MCNoQa -------------------------------
(* Three lines, one rule and the parser; a loop around lines 1 and 2, or one that *)
(* renders line 2 the first time and line 1 the second; or no line 2 at all.     *)
EXTENDS NoQa

CONSTANTS ra, prs

MCLines == 1..3
MCRenderings == {<<1, 2, 3>>, <<1, 2, 1, 2, 3>>, <<2, 1, 3>>, <<1, 3>>}
MCReferenceMap == [r \in {ra} |-> {ra}]
MCRefSets == {{ra}, {prs}}
MCExceptChoices == {NoExcept, {ra}}
=============================================================================
