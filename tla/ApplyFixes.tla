----------------------------- MODULE ApplyFixes -----------------------------
(***************************************************************************)
(* How the fixes of a rule are put into the tree (core/linter/fix.py):     *)
(* compute_anchor_edit_info gathers them by anchor, apply_fixes edits the  *)
(* children of each segment, moves non-code at the ends up to the parent,  *)
(* and has what was changed parsed again.                                  *)
(*                                                                         *)
(* A tree has inner segments, with their children, and raws; an item of    *)
(* the text is a raw with its source fixes. Whether an edited segment      *)
(* parses is an arbitrary set `fails`. Metas and positions are left out.   *)
(***************************************************************************)
EXTENDS Naturals, Sequences, FiniteSets, SequencesExt

CONSTANTS
    Raws,       \* raw segments of the trees, each named by its text
    NewRaws,    \* texts that fixes bring in
    SourceFixes, \* what a source edit says of the template
    NonCode,    \* the raws that are whitespace, of both kinds
    Root,       \* the file segment
    Trees,      \* trees: [kids, grammar, unparsable]
    FixesOf,    \* the fixes that a rule may propose for each tree
    MaxFixes    \* bound on the fixes of a crawl

Inner(tr) == DOMAIN tr.kids
Kids(tr, n) == ToSet(tr.kids[n])
Items == [raw : Raws \cup NewRaws, sources : Seq(SourceFixes)]
Item(raw) == [raw |-> raw, sources |-> <<>>]
EditTypes == {"delete", "replace", "create_before", "create_after"}
\* The edit of a fix by its text. `alike`: it is one segment of the class_types
\* of the anchor, so an inner one for an inner anchor; otherwise it is raws.
Fixes(tr) ==
    [type : EditTypes, anchor : Inner(tr) \cup Raws, edit : Seq(Items), alike : BOOLEAN]

\* The segments below each segment, itself included.
Below(tr) ==
    LET below[n \in Inner(tr)] ==
            {n} \cup UNION {IF k \in Inner(tr) THEN below[k] ELSE {k} : k \in Kids(tr, n)}
    IN  below

\* Each segment has its place (and uuid), and they form a tree.
ASSUME TreesAssumption == \A tr \in Trees :
    /\ Root \in Inner(tr) /\ Inner(tr) \cap Raws = {} /\ IsFiniteSet(Inner(tr))
    /\ \A n \in Inner(tr) : tr.kids[n] \in Seq(Inner(tr) \cup Raws) /\ tr.kids[n] # <<>>
    /\ \A n, m \in Inner(tr) : \A i \in DOMAIN tr.kids[n], j \in DOMAIN tr.kids[m] :
           tr.kids[n][i] = tr.kids[m][j] => n = m /\ i = j
    /\ \E height \in [Inner(tr) -> 0..Cardinality(Inner(tr))] :
           \A n \in Inner(tr) : \A k \in Kids(tr, n) \cap Inner(tr) : height[k] < height[n]
    /\ Inner(tr) \subseteq Below(tr)[Root]
    /\ tr.grammar \cup tr.unparsable \subseteq Inner(tr)
    /\ tr.grammar \cap tr.unparsable = {}
ASSUME FixesAssumption == \A tr \in Trees :
    /\ FixesOf[tr] \subseteq Fixes(tr)
    /\ \A f \in FixesOf[tr] : f.type # "delete" => f.edit # <<>>
    /\ \A f \in FixesOf[tr] :
           f.alike => f.type = "replace" /\ (f.anchor \in Raws => Len(f.edit) = 1)
    \* Brackets stay: only they keep a segment without a grammar from being emptied.
    /\ \A n \in Inner(tr) \ (tr.grammar \cup tr.unparsable) :
           \A f \in FixesOf[tr] : f.anchor # Last(tr.kids[n])
ASSUME RawsAssumption ==
    /\ NonCode \subseteq Raws \cup NewRaws
    /\ MaxFixes \in Nat

VARIABLES
    tree, fails, fixEvenUnparsable,     \* the input: the tree, what will not parse
    given,      \* the fixes the rule gave, in order
    infos,      \* the AnchorEditInfo of each anchor
    stage,      \* "collecting", "conflict" or "applied"
    result      \* what apply_fixes returned for the root

vars == <<tree, fails, fixEvenUnparsable, given, infos, stage, result>>

Anchors(tr) == Inner(tr) \cup UNION {Kids(tr, n) : n \in Inner(tr)}

\* can_start_end_non_code: the file and unparsable segments.
FreeEnds(tr, n) == n = Root \/ n \in tr.unparsable

\* descendant_type_set and class_types have unparsable.
IsUnparsable(tr, n) == Below(tr)[n] \cap tr.unparsable # {}

-----------------------------------------------------------------------------
(* AnchorEditInfo                                                          *)

NoInfo == [fixes |-> <<>>, sources |-> <<>>]

\* is_just_source_edit: the raw stays, only source fixes are new.
IsJustSourceEdit(f) ==
    f.type = "replace" /\ Len(f.edit) = 1 /\ f.edit[1].raw = f.anchor

FirstReplace(info) ==
    SelectInSeq(info.fixes, LAMBDA f : f.type = "replace")

\* LintFix.__eq__ compares the segments of the edits one by one by their texts,
\* and does not look at their classes.
SameFix(f, g) ==
    /\ f.type = g.type /\ f.anchor = g.anchor /\ f.edit = g.edit
    /\ f.alike = g.alike \/ Len(f.edit) = 1
Known(info, f) == \E g \in ToSet(info.fixes) : SameFix(f, g)

\* Mutant for SourceFixesKept: only the latest source fix is condensed.
AddLatest(info, f) ==
    LET first == FirstReplace(info)
    IN  IF Known(info, f) THEN info
        ELSE IF IsJustSourceEdit(f) /\ first # 0
        THEN [info EXCEPT !.fixes[first].edit[1].sources = f.edit[1].sources]
        ELSE [info EXCEPT !.fixes = Append(@, f)]

\* add: an equal fix is dropped, a source edit is condensed onto the first replace.
Add(info, f) ==
    LET sources == info.sources \o (IF IsJustSourceEdit(f) THEN f.edit[1].sources ELSE <<>>)
        first == FirstReplace(info)
    IN  IF Known(info, f) THEN info
        ELSE IF IsJustSourceEdit(f) /\ first # 0
        THEN [fixes |-> [info.fixes EXCEPT ![first].edit[1].sources = sources],
              sources |-> sources]
        ELSE [fixes |-> Append(info.fixes, f), sources |-> sources]

IsValid(info) ==
    \/ Len(info.fixes) <= 1
    \/ /\ Len(info.fixes) = 2
       /\ {info.fixes[1].type, info.fixes[2].type} = {"create_before", "create_after"}

-----------------------------------------------------------------------------
(* The text inside the segments.                                           *)

\* What the fixes of a type at a segment bring in.
Brought(k, type) ==
    FlattenSeq([i \in DOMAIN infos[k].fixes |->
        IF infos[k].fixes[i].type = type THEN infos[k].fixes[i].edit ELSE <<>>])

Removed(k) == \E f \in ToSet(infos[k].fixes) : f.type \in {"delete", "replace"}

\* A child's text with its fixes carried out, if it is one of the given segments.
Carried(as, k, own) ==
    IF k \in as
    THEN Brought(k, "create_before") \o Brought(k, "replace")
           \o (IF Removed(k) THEN <<>> ELSE own) \o Brought(k, "create_after")
    ELSE own

\* The text inside each segment with the fixes at some carried out where they
\* stand, and with those below a deleted or replaced segment lost with it.
Content(as) ==
    LET content[n \in Inner(tree)] ==
            FlattenSeq([i \in DOMAIN tree.kids[n] |->
                LET k == tree.kids[n][i]
                IN  Carried(as, k, IF k \in Inner(tree) THEN content[k] ELSE <<Item(k)>>)])
    IN  content

Original == Content({})

-----------------------------------------------------------------------------
(* apply_fixes                                                             *)

\* What the fixes at a child put around it, and whether it stays. Of a pair the
\* new segments before come first, in whatever order they were given.
EditsAt(k) ==
    LET fixes == infos[k].fixes
        edits(before, stays, after) == [before |-> before, stays |-> stays, after |-> after]
    IN  CASE fixes = <<>> -> edits(<<>>, TRUE, <<>>)
          [] Len(fixes) = 2 -> IF fixes[1].type = "create_after"
                               THEN edits(fixes[2].edit, TRUE, fixes[1].edit)
                               ELSE edits(fixes[1].edit, TRUE, fixes[2].edit)
          [] OTHER -> CASE fixes[1].type = "delete" -> edits(<<>>, FALSE, <<>>)
                        [] fixes[1].type = "replace" -> edits(fixes[1].edit, FALSE, <<>>)
                        [] fixes[1].type = "create_before" -> edits(fixes[1].edit, TRUE, <<>>)
                        [] fixes[1].type = "create_after" -> edits(<<>>, TRUE, fixes[1].edit)

\* Edits that call for validation: all but a replacement by one of its class.
NeedsValidation(f) == ~(f.type = "replace" /\ f.alike)
OwnValidation(n) ==
    \E k \in Kids(tree, n) : \E f \in ToSet(infos[k].fixes) : NeedsValidation(f)

\* A segment's children are units of text; one is code if an item of it is.
IsCode(unit) == \E i \in DOMAIN unit : unit[i].raw \notin NonCode

\* The non-code that leaves on the left: the last child stays in any case.
Leading(units) ==
    LET code == SelectInSeq(units, IsCode)
    IN  IF units = <<>> THEN 0 ELSE IF code = 0 THEN Len(units) - 1 ELSE code - 1
Trailing(units) ==
    LET code == SelectLastInSeq(units, IsCode)
    IN  IF code = 0 THEN 0 ELSE Len(units) - code

Kept(text) == [before |-> <<>>, text |-> text, after |-> <<>>, validated |-> TRUE, unchecked |-> {}]

\* The result for a child, given those for the inner segments.
ResultOf(applied, k) == IF k \in Inner(tree) THEN applied[k] ELSE Kept(<<Item(k)>>)

\* Mutant for TextIsEdited: non-code from before and after a child both go after.
UnitsOfSwapped(r) == Append(r.before \o r.after, r.text)
\* What a child's result puts among its parent's children.
UnitsOf(r) == Append(r.before, r.text) \o r.after

\* The children of a segment after its own edits and those below.
NewUnits(edit) == [i \in DOMAIN edit |-> <<edit[i]>>]
\* A segment of the class of the one it replaces is a unit, as that was.
NewBefore(k) ==
    IF \E f \in ToSet(infos[k].fixes) : ~NeedsValidation(f) THEN <<EditsAt(k).before>>
    ELSE NewUnits(EditsAt(k).before)
UnitsAt(applied, k) ==
    NewBefore(k)
      \o (IF EditsAt(k).stays THEN UnitsOf(ResultOf(applied, k)) ELSE <<>>)
      \o NewUnits(EditsAt(k).after)
Units(applied, n) ==
    FlattenSeq([i \in DOMAIN tree.kids[n] |-> UnitsAt(applied, tree.kids[n][i])])

Staying(n) == {k \in Kids(tree, n) : EditsAt(k).stays}

\* Mutant for ValidMeansReparsed: a child that failed is not followed up.
RequiresValidateOwn(applied, n) == OwnValidation(n)
\* requires_validate: for edits of its own, or for a child that failed.
RequiresValidate(applied, n) ==
    OwnValidation(n) \/ \E k \in Staying(n) : ~ResultOf(applied, k).validated

\* Mutant for UnparsableKept: the class of the segment itself is not looked at.
GivesUpBelow(n) == \E k \in Below(tree)[n] \ {n} : k \in tree.unparsable
\* Already unparsable: the original goes back, fixes and all. The flag reaches
\* the root only, being left out of the recursive call.
GivesUp(n) == IsUnparsable(tree, n) /\ ~(fixEvenUnparsable /\ n = Root)

\* A segment made anew from its children, what of them leaves it at the ends, and
\* whether it is valid: where there is no grammar to parse with, `validated` is
\* still that of the last child. `unchecked` is history: the segments changed in
\* what was not parsed again with success.
Reform(applied, n) ==
    LET units == Units(applied, n)
        lead == IF FreeEnds(tree, n) THEN 0 ELSE Leading(units)
        trail == IF FreeEnds(tree, n) THEN 0 ELSE Trailing(units)
        requires == RequiresValidate(applied, n)
        reparsed == requires /\ ~IsUnparsable(tree, n) /\ n \in tree.grammar /\ n \notin fails
        unchecked == (UNION {ResultOf(applied, k).unchecked : k \in Staying(n)})
                        \cup (IF OwnValidation(n) THEN {n} ELSE {})
    IN  [before |-> SubSeq(units, 1, lead),
         text |-> FlattenSeq(SubSeq(units, lead + 1, Len(units) - trail)),
         after |-> SubSeq(units, Len(units) - trail + 1, Len(units)),
         validated |-> \/ ~requires
                       \/ IsUnparsable(tree, n)
                       \/ reparsed
                       \/ n \notin tree.grammar /\ ResultOf(applied, Last(tree.kids[n])).validated,
         unchecked |-> IF reparsed THEN {} ELSE unchecked]

\* The result for each segment.
Apply ==
    LET apply[n \in Inner(tree)] ==
            IF RequiresValidate(apply, n) /\ GivesUp(n) THEN Kept(Original[n]) ELSE Reform(apply, n)
    IN  apply

-----------------------------------------------------------------------------
NotApplied == Kept(<<>>)

Init ==
    /\ tree \in Trees
    /\ fails \in SUBSET tree.grammar
    /\ fixEvenUnparsable \in BOOLEAN
    /\ given = <<>>
    /\ infos = [k \in Anchors(tree) |-> NoInfo]
    /\ stage = "collecting"
    /\ result = NotApplied

\* The next fix of the crawl, in compute_anchor_edit_info.
Collect(f) ==
    /\ stage = "collecting"
    /\ Len(given) < MaxFixes
    /\ given' = Append(given, f)
    /\ infos' = [infos EXCEPT ![f.anchor] = Add(@, f)]
    /\ UNCHANGED <<tree, fails, fixEvenUnparsable, stage, result>>

\* lint_fix_parsed refuses a set of fixes that conflict.
Refuse ==
    /\ stage = "collecting"
    /\ \E k \in Anchors(tree) : ~IsValid(infos[k])
    /\ stage' = "conflict"
    /\ UNCHANGED <<tree, fails, fixEvenUnparsable, given, infos, result>>

ApplyFixes ==
    /\ stage = "collecting"
    /\ given # <<>>
    /\ \A k \in Anchors(tree) : IsValid(infos[k])
    /\ result' = Apply[Root]
    /\ stage' = "applied"
    /\ UNCHANGED <<tree, fails, fixEvenUnparsable, given, infos>>

Next ==
    \/ \E f \in FixesOf[tree] : Collect(f)
    \/ Refuse
    \/ ApplyFixes

Spec == Init /\ [][Next]_vars

-----------------------------------------------------------------------------
Edited == {k \in Anchors(tree) : infos[k].fixes # <<>>}

TypeOK ==
    /\ stage \in {"collecting", "conflict", "applied"}
    /\ Len(given) <= MaxFixes
    /\ \A k \in Anchors(tree) : \A f \in ToSet(infos[k].fixes) : f.anchor = k
    /\ result.unchecked \subseteq Inner(tree)
    \* The root ejects nothing: its caller would drop it.
    /\ result.before = <<>> /\ result.after = <<>>

\* The text returned is the text given with edits carried out at their anchors
\* and nothing else: no raw is lost, doubled or moved by re-forming segments and
\* passing whitespace up. Where all is parsable, no edit is left out.
TextIsEdited ==
    stage = "applied" =>
        /\ \E as \in SUBSET Edited : result.text = Content(as)[Root]
        /\ tree.unparsable = {} => result.text = Content(Edited)[Root]

\* The raws of unparsable sections stay where they are unless fix_even_unparsable
\* is set, with one exception that the code makes: no validation is called for
\* where a segment, the raw or one that the section is in, is replaced by one of
\* the same class_types, and then the new one is there instead. What stands deeper
\* in a section is not promised to stay: a segment that was matched before its
\* parent ran out of segments is edited, and parsed again, within the section.
Holds(k, r) == r = k \/ (k \in Inner(tree) /\ r \in Below(tree)[k])
UnparsableKept ==
    stage = "applied" /\ ~fixEvenUnparsable =>
        \A u \in tree.unparsable : \A r \in Kids(tree, u) \cap Raws :
            \/ Item(r) \in ToSet(result.text)
            \/ \E k \in Edited : /\ Holds(k, r)
                                 /\ \E f \in ToSet(infos[k].fixes) :
                                       ~NeedsValidation(f) /\ ToSet(f.edit) \subseteq ToSet(result.text)

\* A valid result: what was changed has been parsed again, by the segment or one
\* around it, except in segments that have no grammar.
HasGrammarAround(n) == \A m \in Inner(tree) : n \in Below(tree)[m] => m \in tree.grammar
ValidMeansReparsed ==
    stage = "applied" /\ result.validated /\ tree.unparsable = {} =>
        \A n \in result.unchecked : ~HasGrammarAround(n)

\* The docstring of apply_fixes says that "if an inner element doesn't parse after
\* fixing, then the outer segment will also be checked": what failed to parse and
\* was not checked again from outside does not count as valid.
FailedIsChecked ==
    stage = "applied" /\ result.validated /\ tree.unparsable = {} =>
        result.unchecked \cap fails = {}

\* Of several source fixes on one anchor none is lost by condensing them.
SourceFixesKept ==
    \A k \in Anchors(tree) : IsValid(infos[k]) =>
        \A f \in {g \in ToSet(given) : g.anchor = k /\ IsJustSourceEdit(g)} :
            \E g \in ToSet(infos[k].fixes) : ToSet(f.edit[1].sources) \subseteq ToSet(g.edit[1].sources)
=============================================================================
