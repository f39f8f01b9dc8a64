----------------------------- MODULE FixPromise -----------------------------
(***************************************************************************)
(* What Linter.lint_fix_parsed promises about the file it is given,        *)
(* without saying anything about rules, phases or passes: starting from    *)
(* the version it was handed it moves only to versions it has not held     *)
(* before, and it answers once, either with the version it has reached or, *)
(* having moved at all, with the one it started from.                      *)
(***************************************************************************)
CONSTANTS
    Versions,       \* what identifies a tree: its raw text and its source fixes
    InitVersion,    \* the version handed in
    NoResult        \* nothing answered yet

VARIABLES
    fix,            \* was fixing asked for, or only linting
    current,        \* the version held
    seen,           \* every version held so far
    answer          \* the version returned, or NoResult

vars == <<fix, current, seen, answer>>

Init ==
    /\ fix \in BOOLEAN
    /\ current = InitVersion
    /\ seen = {InitVersion}
    /\ answer = NoResult

\* Move to a version never held before; linting never moves.
Adopt ==
    /\ answer = NoResult
    /\ fix
    /\ \E v \in Versions \ seen :
          /\ current' = v
          /\ seen' = seen \union {v}
    /\ UNCHANGED <<fix, answer>>

Finish ==
    /\ answer = NoResult
    /\ answer' = current
    /\ UNCHANGED <<fix, current, seen>>

\* Throw the work away; only where there was some.
GiveUp ==
    /\ answer = NoResult
    /\ current # InitVersion
    /\ answer' = InitVersion
    /\ UNCHANGED <<fix, current, seen>>

Next == Adopt \/ Finish \/ GiveUp

Spec == Init /\ [][Next]_vars
=============================================================================
