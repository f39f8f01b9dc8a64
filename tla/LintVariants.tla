---------------------------- MODULE LintVariants ----------------------------
(***************************************************************************)
(* A file from its template to its report (core/linter/linter.py:          *)
(* render_string, parse_rendered, lint_parsed; core/linter/linted_file.py: *)
(* get_violations), when the templater renders several variants of it, one *)
(* for each branch the template may take.                                  *)
(*                                                                         *)
(* A variant renders some of the source lines. What its parser and rules   *)
(* find is arbitrary; errors of the lexer are among those of the parser.   *)
(* A violation is a line and a code: its position and signature in the     *)
(* source. No disable_noqa setting is made: NoQa has them. Nothing is      *)
(* fixed here: FixLoop does that for each variant, Patches for what the    *)
(* variants change.                                                        *)
(***************************************************************************)
EXTENDS LintedFile, SequencesExt

CONSTANTS
    Templates,      \* files: the lines of each rendering that the templater yields
    ErrorLines,     \* the lines at which the templater may find an error
    Limits,         \* values of render_variant_limit
    TMP,            \* the special code of templating errors
    MaxComments,    \* bound on the comments of a file
    MaxFaults       \* bound on what the rules find in a variant

ASSUME VariantsAssumption ==
    /\ Templates \subseteq Seq(Seq(Lines))
    /\ ErrorLines \subseteq Lines
    /\ Limits \subseteq Nat \ {0}
    /\ TMP \notin Codes

\* Of the variables of LintedFile, violations and kept are lists here, used are
\* places in ignoreMask, and pc is "render", "parse", "lint", "report" or "done".
VARIABLES
    limit,       \* render_variant_limit
    yields,      \* the renderings the templater has not yielded yet
    yieldErrors, \* the errors it yields with each of them
    templating,  \* templater_violations
    variants,    \* templated_variants
    parsed,      \* parsed_variants: the lines, tree, errors and faults of each
    linted,      \* how many of parsed_variants lint_parsed is done with
    ignoreMask   \* the ignore_mask of the LintedFile

inputs == <<comments, limit, yieldErrors>>
variantsVars == <<inputs, yields, templating, variants, parsed, linted, ignoreMask,
                  used, violations, kept, pc>>

-----------------------------------------------------------------------------
NoMask == <<>>

\* The mask and the parse errors that the comments on a sequence of lines make.
MaskOf(lines) == DirectivesOf(comments, ReferenceMap, lines)

Malformed(lines) == MalformedOf(comments, lines)

SourceOrder == [l \in Lines |-> l]

ErrorsAt(lines, codes) == [line : Range(lines), code : codes]

\* What there may be to find in a rendering: a variant without a tree has an
\* error to tell why, and nothing for the rules to crawl.
Outcomes(lines) ==
    LET errors == {es \in SUBSET ErrorsAt(lines, {PRS}) : Cardinality(es) <= 1}
        faults == {fs \in SUBSET ErrorsAt(lines, RuleCodes) : Cardinality(fs) <= MaxFaults}
    IN  [lines : {lines}, tree : {TRUE}, errors : errors, faults : faults]
        \union [lines : {lines}, tree : {FALSE}, errors : errors \ {{}}, faults : {{}}]

TemplaterErrors == [line : ErrorLines, code : {TMP}]

\* ParsedString.root_variant: the first variant, if it has a tree.
HasRoot == parsed # <<>> /\ parsed[1].tree

VariantsInit ==
    /\ comments \in [Lines -> CommentForms]
    /\ Cardinality({l \in Lines : comments[l].form # "none"}) <= MaxComments
    /\ limit \in Limits
    /\ yields \in Templates
    /\ yieldErrors \in {<<>>} \union {<<e>> : e \in TemplaterErrors}
    /\ templating = <<>>
    /\ variants = <<>>
    /\ parsed = <<>>
    /\ linted = 0
    /\ ignoreMask = NoMask
    /\ used = {}
    /\ violations = <<>>
    /\ kept = <<>>
    /\ pc = "render"

-----------------------------------------------------------------------------
\* render_string takes the next variant of the templater, unless it has enough.
\* Every variant comes with the errors of the first rendering.
Render ==
    /\ pc = "render"
    /\ yields # <<>>
    /\ yields' = Tail(yields)
    /\ variants' = Append(variants, Head(yields))
    /\ templating' = templating \o yieldErrors
    /\ pc' = IF Len(variants') >= limit THEN "parse" ELSE "render"
    /\ UNCHANGED <<inputs, parsed, linted, ignoreMask, used, violations, kept>>

\* The templater has no more variants, or raises SQLFluffSkipFile.
RenderEnds ==
    /\ pc = "render"
    /\ pc' = "parse"
    /\ UNCHANGED <<inputs, yields, templating, variants, parsed, linted, ignoreMask, used,
                   violations, kept>>

\* The templater raises SQLTemplaterError: the variants so far are used.
TemplaterRaises(error) ==
    /\ pc = "render"
    /\ templating' = Append(templating, error)
    /\ pc' = "parse"
    /\ UNCHANGED <<inputs, yields, variants, parsed, linted, ignoreMask, used,
                   violations, kept>>

\* parse_rendered lexes and parses the next variant.
Parse(outcome) ==
    /\ pc = "parse"
    /\ parsed' = Append(parsed, outcome)
    /\ UNCHANGED <<inputs, yields, templating, variants, linted, ignoreMask, used,
                   violations, kept, pc>>

\* The parse errors a variant gives to the report, in some order.
ErrorsOf(variant) == SetToSeq(variant.errors)

\* Mutant for ReportedAsDocumented: the errors of every variant are reported.
SeedFromAll ==
    /\ pc = "parse"
    /\ Len(parsed) = Len(variants)
    /\ violations' = templating \o FlattenSeq([i \in DOMAIN parsed |-> ErrorsOf(parsed[i])])
    /\ pc' = "lint"
    /\ UNCHANGED <<inputs, yields, templating, variants, parsed, linted, ignoreMask, used, kept>>

\* lint_parsed starts from the errors of templating and those of the root
\* variant, or of every variant if the root has no tree.
Seed ==
    /\ pc = "parse"
    /\ Len(parsed) = Len(variants)
    /\ violations' = templating \o
           (IF HasRoot THEN ErrorsOf(parsed[1])
            ELSE FlattenSeq([i \in DOMAIN parsed |-> ErrorsOf(parsed[i])]))
    /\ pc' = "lint"
    /\ UNCHANGED <<inputs, yields, templating, variants, parsed, linted, ignoreMask, used, kept>>

\* What lint_fix_parsed returns for a variant: the errors of its malformed
\* comments and the faults that its own mask lets through.
LintErrors(variant) ==
    LET mask == MaskOf(variant.lines)
    IN  SetToSeq(Malformed(variant.lines))
            \o SetToSeq(Filter(mask, variant.faults).left)

\* The root variant is linted first, and its mask becomes that of the file.
LintRoot ==
    LET mask == MaskOf(parsed[1].lines)
    IN  /\ pc = "lint"
        /\ HasRoot
        /\ linted = 0
        /\ linted' = 1
        /\ ignoreMask' = mask
        /\ used' = Filter(mask, parsed[1].faults).used
        /\ violations' = violations \o LintErrors(parsed[1])
        /\ UNCHANGED <<inputs, yields, templating, variants, parsed, kept, pc>>

\* Mutant for AlternatesOnlyAdd: the mask of the last variant is kept.
LintAlternateKeepingMask ==
    LET variant == parsed[linted + 1]
    IN  /\ pc = "lint"
        /\ HasRoot
        /\ linted \in 1..(Len(parsed) - 1)
        /\ linted' = linted + 1
        /\ IF variant.tree
           THEN /\ violations' = violations \o LintErrors(variant)
                /\ ignoreMask' = MaskOf(variant.lines)
           ELSE UNCHANGED <<violations, ignoreMask>>
        /\ UNCHANGED <<inputs, yields, templating, variants, parsed, used, kept, pc>>

\* The other variants with a tree are linted for their faults; their masks,
\* with the directives used, are dropped.
LintAlternate ==
    LET variant == parsed[linted + 1]
    IN  /\ pc = "lint"
        /\ HasRoot
        /\ linted \in 1..(Len(parsed) - 1)
        /\ linted' = linted + 1
        /\ violations' = violations \o (IF variant.tree THEN LintErrors(variant) ELSE <<>>)
        /\ UNCHANGED <<inputs, yields, templating, variants, parsed, ignoreMask, used, kept, pc>>

\* Without a root nothing is linted, and the mask is read from the source.
MaskFromSource ==
    /\ pc = "lint"
    /\ ~HasRoot
    /\ ignoreMask' = MaskOf(SourceOrder)
    /\ violations' = violations \o SetToSeq(Malformed(SourceOrder))
    /\ pc' = "report"
    /\ UNCHANGED <<inputs, yields, templating, variants, parsed, linted, used, kept>>

LintEnds ==
    /\ pc = "lint"
    /\ HasRoot
    /\ linted = Len(parsed)
    /\ pc' = "report"
    /\ UNCHANGED <<inputs, yields, templating, variants, parsed, linted, ignoreMask, used,
                   violations, kept>>

\* deduplicate_in_source_space: the first violation of each signature, sorted
\* by line, stably (their positions in a line are left out).
FirstOfEach(vs) == {i \in DOMAIN vs : \A j \in 1..(i - 1) : vs[j] # vs[i]}

IsBefore(vs, i, j) == vs[i].line < vs[j].line \/ (vs[i].line = vs[j].line /\ i < j)

InSourceOrder(vs, places) ==
    LET before(i) == {j \in places : IsBefore(vs, j, i)}
    IN  [k \in 1..Cardinality(places) |->
            vs[CHOOSE i \in places : Cardinality(before(i)) = k - 1]]

\* The LintedFile is made of them and get_violations filters it, in their order.
Report ==
    LET unique == FirstOfEach(violations)
        filtered == Filter(ignoreMask, {violations[i] : i \in unique})
    IN  /\ pc = "report"
        /\ kept' = InSourceOrder(violations, {i \in unique : violations[i] \in filtered.left})
        /\ used' = used \union filtered.used
        /\ pc' = "done"
        /\ UNCHANGED <<inputs, yields, templating, variants, parsed, linted, ignoreMask, violations>>

\* The file is reported.
Reported == pc = "done" /\ UNCHANGED variantsVars

ParseNext == Len(parsed) < Len(variants)
                 /\ \E outcome \in Outcomes(variants[Len(parsed) + 1]) : Parse(outcome)

VariantsNext ==
    \/ Render
    \/ RenderEnds
    \/ \E error \in TemplaterErrors : TemplaterRaises(error)
    \/ ParseNext
    \/ Seed
    \/ LintRoot
    \/ LintAlternate
    \/ MaskFromSource
    \/ LintEnds
    \/ Report
    \/ Reported

VariantsSpec == VariantsInit /\ [][VariantsNext]_variantsVars

-----------------------------------------------------------------------------
(* The lines, errors and faults are of their kinds, no more variants are    *)
(* rendered than the limit allows, and the templater's errors are kept for  *)
(* each of them.                                                            *)
VariantsTypeOK ==
    /\ pc \in {"render", "parse", "lint", "report", "done"}
    /\ variants \in Seq(Seq(Lines))
    /\ Len(variants) <= limit
    /\ Len(parsed) <= Len(variants)
    /\ linted <= Len(parsed)
    /\ \A i \in DOMAIN parsed : parsed[i] \in Outcomes(variants[i])
    /\ Len(templating) <= Len(variants) * Len(yieldErrors) + 1
    /\ used \subseteq DOMAIN ignoreMask

Linted == {i \in DOMAIN parsed : HasRoot /\ parsed[i].tree}

\* What the variants and the source have to report.
ToReport ==
    Range(templating) \union
    IF HasRoot
    THEN parsed[1].errors
             \union UNION {parsed[i].faults \union Malformed(parsed[i].lines) :
                              i \in Linted}
    ELSE Malformed(SourceOrder)
             \union UNION {parsed[i].errors : i \in DOMAIN parsed}

\* Range comments only where every variant that is linted renders them.
RangesAreShared ==
    \A l \in Lines, i \in Linted :
        comments[l].form = "rules" /\ comments[l].action # "line" => l \in Range(parsed[i].lines)

\* The lines whose comments concern a violation. Only the mask of the root is
\* there for the templater's errors.
Concerning(v) == IF HasRoot /\ v.code = TMP THEN Range(parsed[1].lines) ELSE Lines

(* Whatever variants a template has, a violation is reported once, if the   *)
(* templater, the root's parser or the rules in any linted variant found it *)
(* and the comments of the source do not ask to ignore it (ignoring.md);    *)
(* parse errors of other variants are not, unless the root has no tree.     *)
(* Stated for range comments that every variant renders: a branch's own     *)
(* `enable` does nothing against a `disable` in the mask of the root.       *)
ReportedAsDocumented ==
    pc = "done" /\ RangesAreShared =>
        /\ Range(kept) = {v \in ToReport : ~IgnoredBy(comments, ReferenceMap, Concerning(v), v)}
        /\ IsInjective(kept)

(* Linting the other variants takes nothing away from what is reported of   *)
(* the root, whatever comments they render: its own mask alone decides.     *)
AlternatesOnlyAdd ==
    pc = "done" /\ HasRoot =>
        LET root == parsed[1]
            own == root.errors \union root.faults \union Malformed(root.lines)
        IN  Filter(MaskOf(root.lines), own).left \subseteq Range(kept)
=============================================================================
