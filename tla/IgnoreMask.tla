----------------------------- MODULE IgnoreMask -----------------------------
(***************************************************************************)
(* The noqa comments of a file and the class IgnoreMask made of them       *)
(* (core/rules/noqa.py), as operators on the comment of each source line,  *)
(* the reference map of the rules, and the mask.                           *)
(*                                                                         *)
(* A source line has at most one comment. A rendering shows source lines   *)
(* more than once (a loop) or not at all (a branch), so the directives of  *)
(* a tree are those of a sequence of lines; from_source is the case of all *)
(* the lines in order. A mask is a function on the places of the comments, *)
(* and the loops over it are stated by what they find: the first directive *)
(* that matches, the last one passed, the next one. Comments are           *)
(* abstracted to the form they have, and fnmatch globs to references that  *)
(* the reference map knows or not.                                         *)
(***************************************************************************)
EXTENDS Integers, Sequences, FiniteSets, Functions

CONSTANTS
    Lines,          \* source lines, 1 .. n
    RuleCodes,      \* codes of the rules of the pack
    PRS,            \* the special code of parse errors
    RefSets,        \* the sets of references a comment may list
    ReferenceMap,   \* the codes of the references the rules know, a function
    AllRules        \* rules = None: the directive names no rule, or "all"

ASSUME LinesAssumption == IsFiniteSet(Lines) /\ Lines = 1 .. Cardinality(Lines)
ASSUME CodesAssumption ==
    /\ IsFiniteSet(RuleCodes)
    /\ PRS \notin RuleCodes
    /\ {} \notin RefSets
    /\ \A r \in DOMAIN ReferenceMap : ReferenceMap[r] \subseteq RuleCodes /\ ReferenceMap[r] # {}
    /\ \A refs \in SUBSET (RuleCodes \union {PRS} \union UNION RefSets) : AllRules # refs

-----------------------------------------------------------------------------
Codes == RuleCodes \union {PRS}

Actions == {"line", "disable", "enable"}

CommentForms ==
    [form : {"none", "bare", "malformed"}]
    \union [form : {"rules"}, action : Actions, refs : RefSets \union {AllRules}]

\* A reference that the map does not know stands for itself.
Expand(map, refs) == UNION {IF r \in DOMAIN map THEN map[r] ELSE {r} : r \in refs}

\* _parse_noqa of a comment that is a well-formed directive.
IsDirective(c) == c.form \in {"bare", "rules"}

Directive(map, line, c) ==
    [line   |-> line,
     action |-> IF c.form = "bare" THEN "line" ELSE c.action,
     rules  |-> IF c.form = "bare" \/ c.refs = AllRules THEN AllRules ELSE Expand(map, c.refs)]

\* The directives of the comments on a sequence of lines, by their places in it.
DirectivesOf(comments, map, lines) ==
    [i \in {i \in DOMAIN lines : IsDirective(comments[lines[i]])} |->
        Directive(map, lines[i], comments[lines[i]])]

\* The parse errors for the malformed comments among them.
MalformedOf(comments, lines) ==
    {[line |-> l, code |-> PRS] : l \in {l \in Range(lines) : comments[l].form = "malformed"}}

-----------------------------------------------------------------------------
Covers(d, code) == d.rules = AllRules \/ code \in d.rules

\* _ignore_masked_violations_single_line: the directives for the line of v. The
\* first of them takes v off the list, so that the others do not meet it.
SingleLine(mask, v) ==
    {i \in DOMAIN mask : mask[i].action = "line" /\ mask[i].line = v.line /\ Covers(mask[i], v.code)}

First(places) == {i \in places : \A j \in places : i <= j}

\* The range directives taken to concern a code. The test `not ignore.rules`
\* holds of None and of the empty tuple alike.
RangeDirectives(mask, code) ==
    {i \in DOMAIN mask : mask[i].action # "line" /\ (mask[i].rules = {} \/ Covers(mask[i], code))}

\* Mutant for KeptAsDocumented: the directives stay in the order of the tree.
PrecedesInTree(mask, i, j) == i < j

\* They are sorted by line, stably.
Precedes(mask, i, j) ==
    mask[i].line < mask[j].line \/ (mask[i].line = mask[j].line /\ i < j)

\* _should_ignore_violation_line_range: the directives passed on the way to v,
\* and the disable in force there (last_ignore), if the last of them is one.
Passed(mask, v) == {i \in RangeDirectives(mask, v.code) : mask[i].line <= v.line}

InForce(mask, v) ==
    {i \in Passed(mask, v) :
        mask[i].action = "disable" /\ \A j \in Passed(mask, v) : j = i \/ Precedes(mask, j, i)}

\* An enable passed is used if it follows on a disable, and so is one that is
\* the next beyond v.
EnablesUsed(mask, v) ==
    LET passed == Passed(mask, v)
        beyond == RangeDirectives(mask, v.code) \ passed
        FollowsOn(i, j) == /\ Precedes(mask, j, i)
                           /\ \A k \in passed : ~(Precedes(mask, j, k) /\ Precedes(mask, k, i))
        ending == {i \in passed : \E j \in passed : mask[j].action = "disable" /\ FollowsOn(i, j)}
        next == {i \in beyond : \A j \in beyond : j = i \/ Precedes(mask, i, j)}
    IN  {i \in ending \union next : mask[i].action = "enable"}

\* ignore_masked_violations: what is left of a batch, and the directives used.
Ignored(mask, v) == SingleLine(mask, v) # {} \/ InForce(mask, v) # {}

UsedFor(mask, v) ==
    IF SingleLine(mask, v) # {} THEN First(SingleLine(mask, v))
    ELSE InForce(mask, v) \union EnablesUsed(mask, v)

Filter(mask, batch) ==
    [left |-> {v \in batch : ~Ignored(mask, v)},
     used |-> UNION {UsedFor(mask, v) : v \in batch}]

-----------------------------------------------------------------------------
(* What the comments say, read from the source and not from the mask. *)

Names(map, c, code) ==
    \/ c.form = "bare"
    \/ c.form = "rules" /\ (c.refs = AllRules \/ code \in Expand(map, c.refs))

Says(comments, map, l, action, code) ==
    /\ IsDirective(comments[l])
    /\ Directive(map, l, comments[l]).action = action
    /\ Names(map, comments[l], code)

\* Of the comments on the lines ls: one on the line of v names its code, or one
\* above disabled the code and none since enabled it.
IgnoredBy(comments, map, ls, v) ==
    \/ v.line \in ls /\ Says(comments, map, v.line, "line", v.code)
    \/ \E d \in ls :
           /\ d <= v.line
           /\ Says(comments, map, d, "disable", v.code)
           /\ \A e \in ls : e > d /\ e <= v.line => ~Says(comments, map, e, "enable", v.code)
=============================================================================
