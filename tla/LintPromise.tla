----------------------------- MODULE LintPromise -----------------------------
(***************************************************************************)
(* What Linter.lint_paths promises about the files it expands its paths    *)
(* to, whichever runner it uses: each is settled at most once, and if it   *)
(* returns without having halted, each has been settled.                   *)
(***************************************************************************)
CONSTANTS
    Files,          \* the positions of expanded_paths
    Pending,        \* a file not settled yet
    Dispositions    \* the ways of settling one; "added" is one of them

VARIABLES
    fate,           \* of each file
    halted,         \* linting was stopped early, by a fatal error or an interrupt
    status          \* "running", "returned" or "raised"

vars == <<fate, halted, status>>

Init ==
    /\ fate = [f \in Files |-> Pending]
    /\ halted = FALSE
    /\ status = "running"

\* Settle a file; once halted no more results are taken, and once an exception
\* has left a file may at most still be passed over.
Settle(f, d) ==
    /\ status = "running" \/ (status = "raised" /\ halted)
    /\ fate[f] = Pending
    /\ halted => d # "added"
    /\ fate' = [fate EXCEPT ![f] = d]
    /\ UNCHANGED status

SettleOne ==
    /\ \E f \in Files, d \in Dispositions : Settle(f, d)
    /\ halted' \in {halted, TRUE}

Halt ==
    /\ status = "running"
    /\ halted' = TRUE
    /\ UNCHANGED <<fate, status>>

Return ==
    /\ status = "running"
    /\ halted \/ \A f \in Files : fate[f] # Pending
    /\ status' = "returned"
    /\ UNCHANGED <<fate, halted>>

Raise ==
    /\ status = "running"
    /\ status' = "raised"
    /\ halted' \in {halted, TRUE}
    /\ UNCHANGED fate

Next == SettleOne \/ Halt \/ Return \/ Raise

Spec == Init /\ [][Next]_vars
=============================================================================
