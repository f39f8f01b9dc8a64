----------------------------- MODULE FixCommand -----------------------------
(***************************************************************************)
(* `sqlfluff fix` from linted files to written files and an exit code      *)
(* (_paths_fix, _stdin_fix and _handle_unparsable of cli/commands.py), with *)
(* the counters a LintedDir caches and persist_tree.                       *)
(*                                                                         *)
(* A file is the kinds of lint violations it has, at most one of each, and *)
(* what was wrong in templating or parsing it. Its fixes may come to no    *)
(* change of the source: fix_string then reports no success.               *)
(***************************************************************************)
EXTENDS Integers, FiniteSets

CONSTANTS Paths    \* the files given; one of them is what stdin would hold

ASSUME PathsAssumption == Paths # {} /\ IsFiniteSet(Paths)

Modes == {"apply", "check", "stdin"}

VARIABLES
    mode,        \* "check" is --check, "stdin" a path of "-"
    fixEven,     \* fix_even_unparsable
    answer,      \* what the user answers when --check asks
    skipFails,   \* files were skipped, and large_file_skip_fail is set
    files,       \* the LintedFiles, by path
    pc,          \* "lint", "unparsable", "ask", "fix", "exit" or "done"
    todo,        \* paths the runner has not delivered; once linting is over, those it never did
    fatal,       \* the path whose fatal violation halted the linting, in a set
    unfiltered,  \* _unfiltered_tmp_prs_errors_map
    filtered,    \* num_tmp_prs_errors
    unfixable,   \* num_unfixable_lint_errors, a cache in the LintedDir
    discarded,   \* paths whose violations lost their fixes
    written,     \* paths whose fixed source was written (or echoed, for stdin)
    exit         \* the exit code

settings == <<mode, fixEven, answer, skipFails, files>>
counters == <<unfiltered, filtered, unfixable>>
vars == <<settings, pc, todo, fatal, counters, discarded, written, exit>>

-----------------------------------------------------------------------------
LintKinds == [fixable : BOOLEAN, warning : BOOLEAN]

\* An error of templating or of parsing; one the warnings setting names; one
\* the ignore setting names.
ParseOutcomes == {"ok", "TMP", "PRS", "warning", "ignored"}

FileStates ==
    {file \in [lint : SUBSET LintKinds, parse : ParseOutcomes, changes : BOOLEAN] :
        file.changes => \E v \in file.lint : v.fixable}

ExitFail == 1
ExitSuccess == 0

Init ==
    /\ mode \in Modes
    /\ fixEven \in BOOLEAN
    /\ answer \in (IF mode = "check" THEN {"y", "n"} ELSE {"none"})
    /\ skipFails \in (IF mode = "stdin" THEN {FALSE} ELSE BOOLEAN)
    /\ files \in [IF mode = "stdin" THEN {CHOOSE p \in Paths : TRUE} ELSE Paths -> FileStates]
    /\ pc = "lint"
    /\ todo = DOMAIN files
    /\ fatal = {}
    /\ unfiltered = [p \in DOMAIN files |-> 0]
    /\ filtered = 0
    /\ unfixable = 0
    /\ discarded = {}
    /\ written = {}
    /\ exit = ExitSuccess

\* The violations of a file that have fixes: none of them once discarded.
WithFixes(p) == IF p \in discarded THEN {} ELSE {v \in files[p].lint : v.fixable}

\* The violations that files may have, each with its path; the fixable ones.
Violations(paths) == paths \X LintKinds
FixableIn(paths) == {w \in Violations(paths) : w[2] \in WithFixes(w[1])}

CountIf(condition) == IF condition THEN 1 ELSE 0

\* Mutant for TypeOK: warnings are counted as unfixable errors.
AddWarnings(p) ==
    /\ unfiltered' = [unfiltered EXCEPT ![p] = CountIf(files[p].parse # "ok")]
    /\ filtered' = filtered + CountIf(files[p].parse \in {"TMP", "PRS"})
    /\ unfixable' = unfixable + Cardinality({v \in files[p].lint : ~v.fixable})

\* Mutant for UnparsableUntouched: errors are counted once filtered.
AddFiltered(p) ==
    /\ unfiltered' = [unfiltered EXCEPT ![p] = CountIf(files[p].parse \in {"TMP", "PRS"})]
    /\ filtered' = filtered + CountIf(files[p].parse \in {"TMP", "PRS"})
    /\ unfixable' = unfixable + Cardinality({v \in files[p].lint : ~v.fixable /\ ~v.warning})

\* LintedDir.add
Add(p) ==
    /\ unfiltered' = [unfiltered EXCEPT ![p] = CountIf(files[p].parse # "ok")]
    /\ filtered' = filtered + CountIf(files[p].parse \in {"TMP", "PRS"})
    /\ unfixable' = unfixable + Cardinality({v \in files[p].lint : ~v.fixable /\ ~v.warning})

\* persist_tree: warnings count too, and what changes nothing is not written.
Persists(p) == WithFixes(p) # {} /\ files[p].changes
PersistSucceeds(p) == WithFixes(p) # {} => files[p].changes

\* Mutant for WritesAwaitConsent: files are persisted as they come, whatever
\* apply_fixes says.
LintFileEager(p) ==
    /\ pc = "lint"
    /\ p \in todo
    /\ todo' = todo \ {p}
    /\ Add(p)
    /\ written' = IF (fixEven \/ files[p].parse = "ok") /\ Persists(p)
                  THEN written \union {p} ELSE written
    /\ UNCHANGED <<settings, pc, fatal, discarded, exit>>

\* An iteration of lint_paths. With apply_fixes it persists the file at once.
LintFile(p) ==
    /\ pc = "lint"
    /\ p \in todo
    /\ todo' = todo \ {p}
    /\ Add(p)
    /\ written' = IF mode = "apply" /\ (fixEven \/ files[p].parse = "ok") /\ Persists(p)
                  THEN written \union {p} ELSE written
    /\ UNCHANGED <<settings, pc, fatal, discarded, exit>>

\* A file with a fatal violation, of templating or parsing it, is not persisted:
\* linting halts with it. Only a templater of a plugin gives one.
LintFatal(p) ==
    /\ pc = "lint"
    /\ mode # "stdin"
    /\ p \in todo
    /\ files[p].parse # "ok"
    /\ todo' = todo \ {p}
    /\ fatal' = {p}
    /\ Add(p)
    /\ pc' = "unparsable"
    /\ UNCHANGED <<settings, discarded, written, exit>>

\* lint_paths returns. It never delivers a file that failed with an internal
\* error, and where a parallel runner was interrupted any number of files.
LintEnds ==
    /\ pc = "lint"
    /\ mode = "stdin" => todo = {}
    /\ pc' = "unparsable"
    /\ UNCHANGED <<settings, todo, fatal, counters, discarded, written, exit>>

\* Mutant for ExitTellsLeftovers: the cached count is not raised.
HandleUnparsableUncounted ==
    /\ pc = "unparsable"
    /\ pc' = IF mode = "stdin" THEN "fix" ELSE "ask"
    /\ IF fixEven THEN UNCHANGED <<discarded, exit>>
       ELSE /\ discarded' = {p \in DOMAIN files : unfiltered[p] > 0}
            /\ exit' = IF filtered > 0 THEN ExitFail ELSE ExitSuccess
    /\ UNCHANGED <<settings, todo, fatal, counters, written>>

\* _handle_unparsable: fixes in files that did not template or parse are
\* discarded, and the cache counts each violation that loses its fixes.
HandleUnparsable ==
    /\ pc = "unparsable"
    /\ pc' = IF mode = "stdin" THEN "fix" ELSE "ask"
    /\ IF fixEven THEN UNCHANGED <<discarded, unfixable, exit>>
       ELSE LET lost == {p \in DOMAIN files : unfiltered[p] > 0}
            IN  /\ discarded' = lost
                /\ unfixable' = unfixable + Cardinality(FixableIn(lost))
                /\ exit' = IF filtered > 0 THEN ExitFail ELSE ExitSuccess
    /\ UNCHANGED <<settings, todo, fatal, unfiltered, filtered, written>>

Delivered == DOMAIN files \ todo
NumFixable == Cardinality(FixableIn(Delivered))

\* _paths_fix: with --check and something to fix the user is asked.
Ask ==
    /\ pc = "ask"
    /\ IF mode = "check" /\ NumFixable > 0
       THEN IF answer = "y" THEN pc' = "fix" /\ UNCHANGED exit
            ELSE pc' = "exit" /\ exit' = ExitFail
       ELSE pc' = "exit" /\ UNCHANGED exit
    /\ UNCHANGED <<settings, todo, fatal, counters, discarded, written>>

\* do_fixes: every file delivered is persisted; any failure ends the command.
DoFixes ==
    /\ pc = "fix"
    /\ mode = "check"
    /\ written' = {p \in Delivered : Persists(p)}
    /\ IF \A p \in Delivered : PersistSucceeds(p)
       THEN pc' = "exit" /\ UNCHANGED exit
       ELSE pc' = "done" /\ exit' = ExitFail
    /\ UNCHANGED <<settings, todo, fatal, counters, discarded>>

\* The end of _paths_fix.
ExitPaths ==
    /\ pc = "exit"
    /\ pc' = "done"
    /\ exit' = IF unfixable > 0 \/ skipFails THEN ExitFail ELSE exit
    /\ UNCHANGED <<settings, todo, fatal, counters, discarded, written>>

\* The end of _stdin_fix: what is unfixable was counted before the discarding.
ExitStdin ==
    /\ pc = "fix"
    /\ mode = "stdin"
    /\ pc' = "done"
    /\ written' = {p \in DOMAIN files : /\ \E v \in WithFixes(p) : ~v.warning
                                        /\ files[p].changes}
    /\ exit' = IF \E p \in DOMAIN files :
                      \/ files[p].parse = "TMP"
                      \/ \E v \in files[p].lint : ~v.fixable /\ ~v.warning
               THEN ExitFail ELSE exit
    /\ UNCHANGED <<settings, todo, fatal, counters, discarded>>

\* The command has exited.
Done == pc = "done" /\ UNCHANGED vars

Next ==
    \/ \E p \in Paths : LintFile(p) \/ LintFatal(p)
    \/ LintEnds
    \/ HandleUnparsable
    \/ Ask
    \/ DoFixes
    \/ ExitPaths
    \/ ExitStdin
    \/ Done

Spec == Init /\ [][Next]_vars

-----------------------------------------------------------------------------
\* The violations that the run leaves behind in a file, but for warnings. Those
\* with fixes count as fixed, as for the command, once their file is written.
Leftovers(p) == {v \in files[p].lint : ~v.warning /\ ~(v.fixable /\ p \in written)}

\* Of the violations of the files delivered, those that cannot be fixed, or no more.
Unfixables ==
    {w \in Violations(Delivered) :
        /\ w[2] \in files[w[1]].lint
        /\ IF w[2].fixable THEN w[1] \in discarded ELSE ~w[2].warning}

\* The files delivered that count as not templated or not parsed.
Failed == {p \in Delivered : files[p].parse \in {"TMP", "PRS"}}

(* The counters agree with the files they were cached from: each unfixable  *)
(* error is counted once, and after the discarding so is each violation     *)
(* that lost its fixes.                                                     *)
TypeOK ==
    /\ pc \in {"lint", "unparsable", "ask", "fix", "exit", "done"}
    /\ todo \subseteq DOMAIN files
    /\ fatal \subseteq Delivered /\ (mode = "apply" => written \cap fatal = {})
    /\ written \subseteq Delivered
    /\ discarded \subseteq {p \in DOMAIN files : unfiltered[p] > 0}
    /\ filtered = Cardinality(Failed)
    /\ unfixable = Cardinality(Unfixables)
    /\ exit \in {ExitSuccess, ExitFail}

(* --FIX-EVEN-UNPARSABLE (cli/commands.py): no fix is made in a file with a *)
(* templating or parse error, even one ignored or shown as a warning only,  *)
(* whether files are written one by one, after --check, or echoed.          *)
UnparsableUntouched ==
    \A p \in written : files[p].parse # "ok" => fixEven

(* docsv/usage/cli.md of exit code 0: "Operation succeeded, no issues       *)
(* found". Fixing paths keeps to this for the files that were delivered:    *)
(* nothing is left in them, nothing failed to template or parse, unless     *)
(* that was to be overlooked, and no file skipped was to be a failure. Not  *)
(* so for fixable violations where files are written one by one: those of a *)
(* file whose fixes come to no change, for the result of persist_tree is    *)
(* dropped, and of the one that halted the run. Of files that were never    *)
(* delivered exit code 0 tells nothing.                                     *)
ExitTellsLeftovers ==
    /\ pc = "done"
    /\ mode # "stdin"
    /\ exit = ExitSuccess
    => /\ ~skipFails
       /\ \A p \in Delivered :
           /\ \A v \in Leftovers(p) :
                  mode = "apply" /\ v.fixable /\ (~files[p].changes \/ p \in fatal)
           /\ files[p].parse \in {"TMP", "PRS"} => fixEven

(* --check: nothing is written before linting is over and the user has      *)
(* agreed, and then only what was linted; fixing from stdin writes only     *)
(* once linting is over.                                                    *)
WritesAwaitConsent ==
    [][written' # written /\ mode # "apply" =>
           pc # "lint" /\ answer # "n" /\ written' \subseteq Delivered]_vars
=============================================================================
