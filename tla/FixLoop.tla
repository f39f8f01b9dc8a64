------------------------------- MODULE FixLoop -------------------------------
(***************************************************************************)
(* Linter.lint_fix_parsed (core/linter/linter.py): the loop that runs the  *)
(* rules of a rule pack over one parse tree and, when fixing, feeds what   *)
(* each rule edits to the rule after it.                                   *)
(*                                                                         *)
(* A tree is its loop_check_tuple: the raw text with its source fixes. A   *)
(* rule may find anything on any tree, and applying its fixes may give any *)
(* version: the model says nothing of single rules, so what it shows holds *)
(* whichever rules a pack has. The anchors, edits and the reparse check of *)
(* apply_fixes are seen only through their outcome.                        *)
(***************************************************************************)
EXTENDS Naturals, Sequences, FiniteSets

CONSTANTS
    Rules,           \* rules that exist
    RulePack,        \* rule_pack.rules, in order
    PostRules,       \* those with lint_phase = "post"
    FixCompatible,   \* those with is_fix_compatible
    Versions,        \* versions of the file
    InitVersion,     \* the version handed in
    FixSets,         \* non-empty lists of fixes, up to LintFix equality
    NoFixes,         \* the empty list (and the None of last_fixes)
    NoResult,        \* no answer yet
    NoRule,          \* the "rule" of an error that is not an SQLLintError
    MaxErrors,       \* bound on the errors one crawl returns
    RunawayLimit,    \* the runaway_limit setting
    IgnoreTemplated  \* the ignore_templated_areas setting

\* config/validate.py:262 refuses a runaway_limit below 1.
ASSUME RunawayAssumption == RunawayLimit \in Nat \ {0}
ASSUME PackAssumption == RulePack \in Seq(Rules)
ASSUME RuleAssumption == PostRules \subseteq Rules /\ FixCompatible \subseteq Rules
ASSUME VersionAssumption == InitVersion \in Versions
ASSUME OutsideAssumption ==
    NoFixes \notin FixSets /\ NoResult \notin Versions /\ NoRule \notin Rules
ASSUME IgnoreAssumption == IgnoreTemplated \in BOOLEAN
ASSUME BoundAssumption == MaxErrors \in Nat

VARIABLES
    fix,               \* the fix argument
    pc,                \* where the function stands
    phase,             \* "main" or "post"
    loop,              \* passes of this phase completed
    rulesThisPhase,    \* rules_this_phase, as a set: its order is the pack's
    idx,               \* position in the pack of the rule to run next
    tree,              \* tree
    changed,           \* changed
    previousVersions,  \* previous_versions
    lastFixes,         \* last_fixes
    errors,            \* initial_linting_errors
    answer,            \* the tree returned
    runaway,           \* was it returned from the for-else
    settled,           \* history: rules crawled since the tree last changed
    lintedFirst        \* history: rules crawled in the first pass

control == <<phase, loop, rulesThisPhase>>
versionVars == <<tree, changed, previousVersions>>
outcome == <<answer, runaway>>
history == <<settled, lintedFirst>>
vars == <<fix, pc, control, idx, versionVars, lastFixes, errors, outcome, history>>

-----------------------------------------------------------------------------
PackRules == {RulePack[i] : i \in DOMAIN RulePack}

\* An error: the rule that raised it (NoRule for a malformed noqa comment), the
\* version it was found on, whether it still carries fixes, and whether it lies
\* in a templated area its rule does not target.
Errors == [rule : Rules \union {NoRule}, on : Versions,
           fixable : BOOLEAN, templated : BOOLEAN]

NoqaError == [rule |-> NoRule, on |-> InitVersion, fixable |-> FALSE, templated |-> FALSE]

Unfixable(e) == [e EXCEPT !.fixable = FALSE]

\* With one phase (linting) the pack is taken whole; with two it is split.
PhaseRules(p) ==
    IF ~fix THEN PackRules
    ELSE IF p = "main" THEN PackRules \ PostRules ELSE PackRules \intersect PostRules

\* "twice at the end (once to fix, and once again to check result of fixes)"
PostLimit == 2
LoopLimit == IF ~fix THEN 1 ELSE IF phase = "main" THEN RunawayLimit ELSE PostLimit

FirstPass == phase = "main" /\ loop = 0

Init ==
    /\ fix \in BOOLEAN
    /\ pc = "pass"
    /\ phase = "main"
    /\ loop = 0
    /\ rulesThisPhase = PhaseRules("main")
    /\ idx = 1
    /\ tree = InitVersion
    /\ changed = FALSE
    /\ previousVersions = {InitVersion}
    /\ lastFixes = NoFixes
    /\ errors \in {{}, {NoqaError}}
    /\ answer = NoResult
    /\ runaway = FALSE
    /\ settled = {}
    /\ lintedFirst = {}

-----------------------------------------------------------------------------
\* Mutant: the first pass takes the rules of its phase only.
StartPassOfPhase ==
    /\ pc = "pass"
    /\ pc' = "rules"
    /\ changed' = FALSE
    /\ idx' = 1
    /\ UNCHANGED <<fix, control, tree, previousVersions, lastFixes, errors, outcome, history>>

\* The head of the loop over passes. The first pass takes every rule, and
\* rules_this_phase keeps that value until the next phase begins.
StartPass ==
    /\ pc = "pass"
    /\ pc' = "rules"
    /\ changed' = FALSE
    /\ rulesThisPhase' = IF FirstPass THEN PackRules ELSE rulesThisPhase
    /\ idx' = 1
    /\ UNCHANGED <<fix, phase, loop, tree, previousVersions, lastFixes, errors, outcome, history>>

AtRule == pc = "rules" /\ idx <= Len(RulePack)
Crawler == RulePack[idx]

\* A rule that cannot fix says nothing new after the first pass.
Skipped == fix /\ ~FirstPass /\ Crawler \notin FixCompatible

Crawls == Crawler \in rulesThisPhase /\ ~Skipped
AtCrawl == AtRule /\ Crawls

SkipRule ==
    /\ AtRule
    /\ ~Crawls
    /\ idx' = idx + 1
    /\ UNCHANGED <<fix, pc, control, versionVars, lastFixes, errors, outcome, history>>

\* What a crawl may return: errors of its rule on this tree, with a list of
\* fixes exactly when one of them carries fixes.
Found(fixes) ==
    {found \in SUBSET [rule : {Crawler}, on : {tree}, fixable : BOOLEAN, templated : BOOLEAN] :
        /\ Cardinality(found) <= MaxErrors
        /\ (\E e \in found : e.fixable) <=> fixes # NoFixes}

\* Mutant: forgets that the post phase has a loop 0 as well.
ReportInAnyPhase(found) == IF loop = 0 THEN errors \union found ELSE errors

\* Only the first pass reports.
Report(found) == IF FirstPass THEN errors \union found ELSE errors

\* What every crawl does, `found` being its errors as they are left.
Crawl(found) ==
    /\ errors' = Report(found)
    /\ idx' = idx + 1
    /\ lintedFirst' = IF FirstPass THEN lintedFirst \union {Crawler} ELSE lintedFirst
    /\ UNCHANGED <<fix, pc, control, outcome>>

\* The tree stays: the crawler has nothing (more) to do to it.
Keeps ==
    /\ settled' = settled \union {Crawler}
    /\ UNCHANGED versionVars

\* No fixes proposed, or fixing was not asked for.
NothingToFix ==
    /\ AtCrawl
    /\ \E fixes \in FixSets \union {NoFixes} :
           /\ fix => fixes = NoFixes
           /\ \E found \in Found(fixes) : Crawl(found)
    /\ Keeps
    /\ UNCHANGED lastFixes

\* compute_anchor_edit_info finds two edits of one anchor: the fixes are
\* dropped, from the reported errors as well.
ConflictingFixes ==
    /\ AtCrawl
    /\ fix
    /\ \E fixes \in FixSets : \E found \in Found(fixes) :
           Crawl({Unfixable(e) : e \in found})
    /\ Keeps
    /\ UNCHANGED lastFixes

\* The same fixes as those last applied, whichever rule proposed those.
SameFixesAgain ==
    /\ AtCrawl
    /\ fix
    /\ lastFixes # NoFixes
    /\ \E found \in Found(lastFixes) : Crawl(found)
    /\ Keeps
    /\ UNCHANGED lastFixes

\* apply_fixes is called, and its tree is not adopted: it is the tree there
\* was, or it does not parse, or it is one held before (_warn_unfixable).
FixesNotApplied ==
    /\ AtCrawl
    /\ fix
    /\ \E fixes \in FixSets \ {lastFixes} : \E found \in Found(fixes) :
           /\ Crawl(found)
           /\ lastFixes' = fixes
    /\ Keeps

\* Mutant: previous_versions is not consulted.
FixesAppliedUnchecked ==
    /\ AtCrawl
    /\ fix
    /\ \E fixes \in FixSets \ {lastFixes} : \E found \in Found(fixes) :
           /\ Crawl(found)
           /\ lastFixes' = fixes
    /\ \E newTree \in Versions \ {tree} :
           /\ tree' = newTree
           /\ previousVersions' = previousVersions \union {newTree}
    /\ changed' = TRUE
    /\ settled' = {}

\* Mutant: a change does not set the flag.
FixesAppliedUnflagged ==
    /\ AtCrawl
    /\ fix
    /\ \E fixes \in FixSets \ {lastFixes} : \E found \in Found(fixes) :
           /\ Crawl(found)
           /\ lastFixes' = fixes
    /\ \E newTree \in Versions \ previousVersions :
           /\ tree' = newTree
           /\ previousVersions' = previousVersions \union {newTree}
    /\ settled' = {}
    /\ UNCHANGED changed

\* The happy path: a version never held before, which is adopted.
FixesApplied ==
    /\ AtCrawl
    /\ fix
    /\ \E fixes \in FixSets \ {lastFixes} : \E found \in Found(fixes) :
           /\ Crawl(found)
           /\ lastFixes' = fixes
    /\ \E newTree \in Versions \ previousVersions :
           /\ tree' = newTree
           /\ previousVersions' = previousVersions \union {newTree}
    /\ changed' = TRUE
    /\ settled' = {}

-----------------------------------------------------------------------------
PassDone == pc = "rules" /\ idx = Len(RulePack) + 1
Stable == fix /\ ~changed
LastPass == loop + 1 = LoopLimit

\* `break`, and the next phase.
EnterPost ==
    /\ PassDone
    /\ Stable
    /\ phase = "main"
    /\ phase' = "post"
    /\ rulesThisPhase' = PhaseRules("post")
    /\ loop' = 0
    /\ pc' = "pass"
    /\ UNCHANGED <<fix, idx, versionVars, lastFixes, errors, outcome, history>>

\* Mutant: passes are repeated, uncounted, for as long as a rule has something to say.
RepeatPassUncounted ==
    /\ PassDone
    /\ fix
    /\ pc' = "pass"
    /\ UNCHANGED <<fix, control, idx, versionVars, lastFixes, errors, outcome, history>>

RepeatPass ==
    /\ PassDone
    /\ ~Stable
    /\ ~LastPass
    /\ loop' = loop + 1
    /\ pc' = "pass"
    /\ UNCHANGED <<fix, phase, rulesThisPhase, idx, versionVars, lastFixes, errors, outcome, history>>

\* Mutant: the errors keep the fixes that caused the loop.
RunawayKeepsFixes ==
    /\ PassDone
    /\ fix
    /\ changed
    /\ LastPass
    /\ answer' = InitVersion
    /\ runaway' = TRUE
    /\ pc' = "done"
    /\ UNCHANGED <<fix, control, idx, versionVars, lastFixes, errors, history>>

\* The for-else of either phase: the limit is reached and the file was still
\* changing. Every reported lint error loses its fixes, the original tree is
\* returned, and remove_templated_errors is not reached.
Runaway ==
    /\ PassDone
    /\ fix
    /\ changed
    /\ LastPass
    /\ errors' = {IF e.rule = NoRule THEN e ELSE Unfixable(e) : e \in errors}
    /\ answer' = InitVersion
    /\ runaway' = TRUE
    /\ pc' = "done"
    /\ UNCHANGED <<fix, control, idx, versionVars, lastFixes, history>>

\* remove_templated_errors
Reportable(e) == e.rule = NoRule \/ ~e.templated

\* The end of the function: after a stable post phase, or the one lint pass.
Finish ==
    /\ PassDone
    /\ IF fix THEN Stable /\ phase = "post" ELSE LastPass
    /\ errors' = IF IgnoreTemplated THEN {e \in errors : Reportable(e)} ELSE errors
    /\ answer' = tree
    /\ pc' = "done"
    /\ UNCHANGED <<fix, control, idx, versionVars, lastFixes, runaway, history>>

Done == pc = "done" /\ UNCHANGED vars

CrawlRule ==
    \/ NothingToFix \/ ConflictingFixes \/ SameFixesAgain \/ FixesNotApplied \/ FixesApplied

EndPass == EnterPost \/ RepeatPass \/ Runaway \/ Finish

Step == StartPass \/ SkipRule \/ CrawlRule \/ EndPass

Next == Step \/ Done

Spec == Init /\ [][Next]_vars

\* The function is sequential code: once called it keeps running.
FairSpec == Spec /\ WF_vars(Step)

-----------------------------------------------------------------------------
\* Every variable holds a value the code can give it.
TypeOK ==
    /\ fix \in BOOLEAN
    /\ pc \in {"pass", "rules", "done"}
    /\ phase \in {"main", "post"}
    /\ loop \in Nat
    /\ rulesThisPhase \subseteq PackRules
    /\ idx \in 1 .. Len(RulePack) + 1
    /\ tree \in Versions
    /\ changed \in BOOLEAN
    /\ previousVersions \subseteq Versions
    /\ lastFixes \in FixSets \union {NoFixes}
    /\ errors \subseteq Errors
    /\ answer \in Versions \union {NoResult}
    /\ runaway \in BOOLEAN
    /\ settled \subseteq Rules
    /\ lintedFirst \subseteq Rules

\* The file moves only through versions it never held, is never touched when
\* linting, and the answer is the version reached or, after some change, the
\* original: lint_fix_parsed keeps the promise of FixPromise.
Promise == INSTANCE FixPromise WITH current <- tree, seen <- previousVersions
ImplementsFixPromise == Promise!Spec

Fixed == pc = "done" /\ fix /\ ~runaway

\* A fixed file is one the fixing rules were content with: every fixing rule of
\* the post phase looked at the very tree returned and left it as it is. (The
\* main rules are not run again after the post phase changed something.)
FixedIsStable ==
    Fixed => PackRules \intersect PostRules \intersect FixCompatible \subseteq settled

\* Which rules report does not depend on fixing or on their phase: by the end
\* of the first pass every rule of the pack has been run once.
EveryRuleReports ==
    phase = "post" \/ loop > 0 \/ pc = "done" => lintedFirst = PackRules

\* An error is never added to the report by a pass after the first, nor one
\* that had lost its fixes given them back.
ReportFrozen ==
    [][~FirstPass => \A e \in errors' : e \in errors \/ \E d \in errors : e = Unfixable(d)]_vars

\* When the loop gives up, no error it reports may still claim to be fixable
\* (the exit code of `sqlfluff fix` rests on it), and the file is handed back
\* as it came although it had been changed.
RunawayIsUnfixable ==
    runaway => /\ \A e \in errors : ~e.fixable
               /\ answer = InitVersion
               /\ tree # InitVersion

\* The function returns, whatever the rules do.
Termination == <>(pc = "done")
=============================================================================
