-------------------------------- MODULE NoQa --------------------------------
(***************************************************************************)
(* What the noqa comments of a file do to its violations, in the order the *)
(* crawls of the rules find them (core/rules/noqa.py, the crawl of         *)
(* core/rules/base.py, lint_fix_parsed and get_violations), with the       *)
(* settings disable_noqa and disable_noqa_except.                          *)
(*                                                                         *)
(* A file without a tree (from_source) is the case of a rendering in       *)
(* source order and no violation of a rule.                                *)
(***************************************************************************)
EXTENDS LintedFile

CONSTANTS
    Renderings,     \* sequences of lines: the comments of the tree, in order
    ExceptChoices,  \* values of disable_noqa_except, as sets of codes, or NoExcept
    NoExcept,       \* disable_noqa_except is not set
    MaxViolations   \* bound on the violations found in a file

ASSUME RenderingsAssumption == Renderings \subseteq Seq(Lines)
ASSUME ExceptAssumption == NoExcept \in ExceptChoices

\* Of the variables of LintedFile, violations and kept are sets here, and pc is
\* "start", "crawl", "report" or "done".
VARIABLES
    rendering,    \* the source line of each comment of the tree
    disableNoqa,  \* the disable_noqa setting
    exceptCodes,  \* disable_noqa_except, expanded, or NoExcept
    found,        \* what the parser and the rules find wrong in the file
    mask,         \* _ignore_list, by the place of each directive in the tree
    waiting,      \* errors of rules the crawl has not reached
    warned        \* the places of the directives warned of as unused

file == <<comments, rendering, disableNoqa, exceptCodes, found>>
vars == <<file, pc, mask, used, waiting, violations, kept, warned>>

-----------------------------------------------------------------------------
Violations == [line : Lines, code : Codes]

\* A mask is used unless disable_noqa is set without exceptions.
Masking == ~disableNoqa \/ exceptCodes # NoExcept

\* allowed_rule_ref_map: with exceptions the special codes are references too,
\* and every reference is cut down to the codes excepted.
AllowedRefMap ==
    IF exceptCodes = NoExcept THEN ReferenceMap
    ELSE [r \in DOMAIN ReferenceMap \union {PRS} |->
             (IF r = PRS THEN {PRS} ELSE ReferenceMap[r]) \intersect exceptCodes]

Init ==
    /\ comments \in [Lines -> CommentForms]
    /\ rendering \in Renderings
    /\ disableNoqa \in BOOLEAN
    /\ exceptCodes \in ExceptChoices
    /\ pc = "start"
    /\ mask = <<>>
    /\ used = {}
    /\ found \in {vs \in SUBSET Violations : Cardinality(vs) <= MaxViolations}
    /\ waiting = {v \in found : v.code # PRS}
    /\ violations = {v \in found : v.code = PRS}
    /\ kept = {}
    /\ warned = {}

-----------------------------------------------------------------------------
\* IgnoreMask.from_tree: the directives in the order of the tree, and a parse
\* error for each malformed comment.
FromTree ==
    /\ pc = "start"
    /\ pc' = "crawl"
    /\ IF Masking
       THEN /\ mask' = DirectivesOf(comments, AllowedRefMap, rendering)
            /\ violations' = violations \union MalformedOf(comments, rendering)
       ELSE UNCHANGED <<mask, violations>>
    /\ UNCHANGED <<file, used, waiting, kept, warned>>

\* Mutant for UnusedAreRedundant: only get_violations marks directives as used.
CrawlErrorUnmarked(v) ==
    /\ pc = "crawl"
    /\ v \in waiting
    /\ waiting' = waiting \ {v}
    /\ violations' = violations \union (IF Masking THEN Filter(mask, {v}).left ELSE {v})
    /\ UNCHANGED <<file, pc, mask, used, kept, warned>>

\* _process_lint_result passes the errors of the rules through the mask one by
\* one, as the crawls find them.
CrawlError(v) ==
    /\ pc = "crawl"
    /\ v \in waiting
    /\ waiting' = waiting \ {v}
    /\ IF Masking
       THEN /\ violations' = violations \union Filter(mask, {v}).left
            /\ used' = used \union Filter(mask, {v}).used
       ELSE /\ violations' = violations \union {v}
            /\ UNCHANGED used
    /\ UNCHANGED <<file, pc, mask, kept, warned>>

CrawlEnds ==
    /\ pc = "crawl"
    /\ waiting = {}
    /\ pc' = "report"
    /\ UNCHANGED <<file, mask, used, waiting, violations, kept, warned>>

\* get_violations, with warn_unused_ignores: all the violations of the file
\* pass the mask in one list, then the directives not used are warned of.
GetViolations ==
    /\ pc = "report"
    /\ pc' = "done"
    /\ IF Masking
       THEN LET filtered == Filter(mask, violations)
            IN  /\ kept' = filtered.left
                /\ used' = used \union filtered.used
                /\ warned' = DOMAIN mask \ used'
       ELSE /\ kept' = violations
            /\ UNCHANGED <<used, warned>>
    /\ UNCHANGED <<file, mask, waiting, violations>>

\* The check has nothing more to do with the file.
Done == pc = "done" /\ UNCHANGED vars

Next ==
    \/ FromTree
    \/ \E v \in Violations : CrawlError(v)
    \/ CrawlEnds
    \/ GetViolations
    \/ Done

Spec == Init /\ [][Next]_vars

-----------------------------------------------------------------------------
Rendered == Range(rendering)

\* Everything there is to report: a malformed comment is a parse error.
Reportable == found \union (IF Masking THEN MalformedOf(comments, rendering) ELSE {})

(* The mask and its places are of the kinds the code keeps, and no          *)
(* directive is both used and warned of.                                   *)
TypeOK ==
    /\ pc \in {"start", "crawl", "report", "done"}
    /\ DOMAIN mask \subseteq DOMAIN rendering
    /\ \A i \in DOMAIN mask :
           /\ mask[i].line \in Lines /\ mask[i].action \in Actions
           /\ mask[i].rules = AllRules \/ mask[i].rules \subseteq Codes \union UNION RefSets
    /\ used \subseteq DOMAIN mask
    /\ warned \subseteq DOMAIN mask \ used
    /\ waiting \subseteq found
    /\ kept \subseteq violations
    /\ violations \subseteq Reportable

(* However often a loop renders a line and in whatever order the errors     *)
(* reach the mask, one by one from the crawls and again in one list, what   *)
(* get_violations keeps is what the rendered comments do not ask to ignore; *)
(* with disable_noqa it is everything.                                      *)
KeptAsDocumented ==
    pc = "done" /\ exceptCodes = NoExcept =>
        kept = {v \in Reportable : ~(Masking /\ IgnoredBy(comments, AllowedRefMap, Rendered, v))}

(* The lines all of whose directives were warned of as unused can lose      *)
(* their comments together: nothing more would be reported.                 *)
UnusedAreRedundant ==
    LET needed == {mask[i].line : i \in DOMAIN mask \ warned}
    IN  pc = "done" /\ Masking /\ exceptCodes = NoExcept =>
            kept = {v \in Reportable : ~IgnoredBy(comments, AllowedRefMap, needed, v)}
=============================================================================
