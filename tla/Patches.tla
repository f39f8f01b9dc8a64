------------------------------ MODULE Patches ------------------------------
(***************************************************************************)
(* How the fixed trees of the variants of a file become its fixed source:  *)
(* the filter of generate_source_patches, merge_source_patches (patch.py), *)
(* and the slicing and rebuilding of LintedFile.fix_string.                *)
(*                                                                         *)
(* The source is 0 .. Size-1, cut into raw slices. What the iteration over *)
(* a fixed tree yields is any sequence of patches: a loop in the template  *)
(* yields patches of the same source again, differing or overlapping, and  *)
(* in no source order.                                                     *)
(***************************************************************************)
EXTENDS Integers, Sequences, Functions

CONSTANTS
    Size,         \* length of the source
    RawSlices,    \* the raw slices, [type, start, stop], contiguous
    Texts,        \* replacement texts
    Variants,     \* variants of the file that were linted
    MaxPatches    \* bound on the patches yielded over all variants

SliceTypes == {"literal", "templated", "tag"}

ASSUME SizeAssumption == Size \in Nat /\ Variants \in Nat \ {0} /\ MaxPatches \in Nat
ASSUME SlicesAssumption ==
    /\ RawSlices \in Seq([type : SliceTypes, start : 0..Size, stop : 0..Size])
    /\ RawSlices # <<>>
    /\ RawSlices[1].start = 0
    /\ RawSlices[Len(RawSlices)].stop = Size
    /\ \A i \in DOMAIN RawSlices :
           /\ RawSlices[i].start < RawSlices[i].stop
           /\ i > 1 => RawSlices[i].start = RawSlices[i-1].stop

VARIABLES
    pc,        \* "iterate", "merge", "slice", "build" or "done"
    yielded,   \* every patch the iterations yielded
    count,     \* how many there were
    buffers,   \* variant_source_patches: the patches kept, a sequence per variant
    pending,   \* places in buffers, variant and index, of what is still to be merged
    merged,    \* merged_source_patches
    next,      \* the place in merged of the next patch to slice the source by
    tags,      \* source_only_slices left, by their places in RawSlices
    at,        \* source_idx
    slices,    \* slice_buff
    fixed      \* the fixed source: its slices in order, with the patch put there

iteration == <<yielded, count, buffers>>
slicing == <<next, tags, at, slices>>
vars == <<pc, iteration, pending, merged, slicing, fixed>>

-----------------------------------------------------------------------------
\* An explicit source fix replaces one tag or templated section.
Patches ==
    {p \in [start : 0..Size, stop : 0..Size, text : Texts, source : BOOLEAN] :
        /\ p.start <= p.stop
        /\ p.source => \E i \in DOMAIN RawSlices :
                           /\ RawSlices[i].type # "literal"
                           /\ RawSlices[i].start = p.start
                           /\ RawSlices[i].stop = p.stop}

IsInsertion(p) == p.start = p.stop
SameSlice(p, q) == p.start = q.start /\ p.stop = q.stop
Duplicate(p, q) == SameSlice(p, q) /\ p.text = q.text

\* raw_slices_spanning_source_slice: none at the end of the file.
Spanned(p) ==
    {i \in DOMAIN RawSlices :
        /\ p.start < RawSlices[i].stop
        /\ RawSlices[i].start <= p.start \/ RawSlices[i].start < p.stop}

\* Mutant for TagsIntact: one literal slice is enough to keep a patch.
CertainIfSomeLiteral(p) ==
    \/ Spanned(p) = {}
    \/ \E i \in Spanned(p) : RawSlices[i].type = "literal"
    \/ p.source
    \/ IsInsertion(p) /\ \E i \in Spanned(p) : RawSlices[i].start = p.start

\* The patches that generate_source_patches keeps.
Certain(p) ==
    \/ \A i \in Spanned(p) : RawSlices[i].type = "literal"
    \/ p.source
    \/ IsInsertion(p) /\ \E i \in Spanned(p) : RawSlices[i].start = p.start

Tags == {k \in DOMAIN RawSlices : RawSlices[k].type = "tag"}

Init ==
    /\ pc = "iterate"
    /\ yielded = {}
    /\ count = 0
    /\ buffers = <<<<>>>>
    /\ pending = {}
    /\ merged = <<>>
    /\ next = 1
    /\ tags = Tags
    /\ at = 0
    /\ slices = <<>>
    /\ fixed = <<>>

\* One iteration of generate_source_patches on the last variant.
Yield(p) ==
    /\ pc = "iterate"
    /\ count < MaxPatches
    /\ count' = count + 1
    /\ yielded' = yielded \union {p}
    /\ LET v == Len(buffers)
           duplicate == \E i \in DOMAIN buffers[v] : Duplicate(buffers[v][i], p)
       IN  buffers' = IF ~duplicate /\ Certain(p)
                      THEN [buffers EXCEPT ![v] = Append(@, p)] ELSE buffers
    /\ UNCHANGED <<pc, pending, merged, slicing, fixed>>

\* sorted is stable: patches that start together stay in order.
StableOrders(patches) ==
    {order \in [DOMAIN patches -> DOMAIN patches] :
        /\ Range(order) = DOMAIN patches
        /\ \A i, j \in DOMAIN order : i < j =>
               \/ patches[order[i]].start < patches[order[j]].start
               \/ patches[order[i]].start = patches[order[j]].start /\ order[i] < order[j]}

\* The places of the patches in all buffers.
Places(bs) == UNION {{<<v, i>> : i \in DOMAIN bs[v]} : v \in DOMAIN bs}

\* The end of generate_source_patches, and lint_parsed going on to the next
\* variant or to the merge.
EndVariant ==
    LET v == Len(buffers)
        sorted(order) == [buffers EXCEPT ![v] = [i \in DOMAIN @ |-> @[order[i]]]]
    IN  /\ pc = "iterate"
        /\ \E order \in StableOrders(buffers[v]) :
               IF v < Variants
               THEN /\ buffers' = Append(sorted(order), <<>>)
                    /\ UNCHANGED <<pc, pending>>
               ELSE /\ buffers' = sorted(order)
                    /\ pending' = Places(buffers')
                    /\ pc' = "merge"
        /\ UNCHANGED <<yielded, count, merged, slicing, fixed>>

\* _patches_conflict
LargerOf(a, b) == IF a >= b THEN a ELSE b
SmallerOf(a, b) == IF a <= b THEN a ELSE b

\* Mutant for PatchesSurvive: patches that touch conflict.
ConflictIfTouching(p, q) ==
    IF SameSlice(p, q) THEN p.text # q.text
    ELSE LargerOf(p.start, q.start) <= SmallerOf(p.stop, q.stop)

Conflict(p, q) ==
    IF SameSlice(p, q) THEN p.text # q.text
    ELSE LargerOf(p.start, q.start) < SmallerOf(p.stop, q.stop)

PatchAt(place) == buffers[place[1]][place[2]]

\* Mutant for TypeOK: the patches stay in the order of the variants.
PrecedesByVariant(a, b) == a[1] < b[1] \/ (a[1] = b[1] /\ a[2] < b[2])

\* The order of the patches of all buffers: by slice, or as they came.
Precedes(a, b) ==
    LET p == PatchAt(a)
        q == PatchAt(b)
    IN  \/ p.start < q.start
        \/ p.start = q.start /\ p.stop < q.stop
        \/ SameSlice(p, q) /\ (a[1] < b[1] \/ (a[1] = b[1] /\ a[2] < b[2]))

\* An iteration of merge_source_patches.
MergePatch(place) ==
    LET p == PatchAt(place)
        clashes == \E i \in DOMAIN merged : Duplicate(merged[i], p) \/ Conflict(merged[i], p)
    IN  /\ pc = "merge"
        /\ \A other \in pending : other = place \/ Precedes(place, other)
        /\ pending' = pending \ {place}
        /\ merged' = IF clashes THEN merged ELSE Append(merged, p)
        /\ UNCHANGED <<pc, iteration, slicing, fixed>>

\* fix_string goes on with what was merged.
MergeEnds ==
    /\ pc = "merge"
    /\ pending = {}
    /\ pc' = "slice"
    /\ UNCHANGED <<iteration, pending, merged, slicing, fixed>>

-----------------------------------------------------------------------------
Slice(from, to) == [start |-> from, stop |-> to]

SliceOf(s) == Slice(s.start, s.stop)

\* The slices up to the next one, if there is a gap.
Gap(to) == IF to > at THEN Append(slices, Slice(at, to)) ELSE slices

\* _slice_source_file_using_patches: the tags before a patch are cut out first.
FirstTag == {k \in tags : \A j \in tags : k <= j}

CutTag(k) ==
    LET tag == RawSlices[k]
    IN  /\ pc = "slice"
        /\ next <= Len(merged)
        /\ k \in FirstTag
        /\ tag.start < merged[next].start
        /\ tags' = tags \ {k}
        /\ slices' = Append(Gap(tag.start), SliceOf(tag))
        /\ at' = tag.stop
        /\ UNCHANGED <<pc, iteration, pending, merged, next, fixed>>

\* Mutant for FixedIsSourcePatched: a tag that a patch covers is cut out too.
CutPatchKeepingTag ==
    LET patch == merged[next]
    IN  /\ pc = "slice"
        /\ next <= Len(merged)
        /\ \A k \in FirstTag : RawSlices[k].start >= patch.start
        /\ next' = next + 1
        /\ IF patch.start < at THEN UNCHANGED <<slices, at>>
           ELSE /\ slices' = Append(Gap(patch.start), SliceOf(patch))
                /\ at' = patch.stop
        /\ UNCHANGED <<pc, iteration, pending, merged, tags, fixed>>

\* Then the patch: a tag that it covers exactly is dropped, and a patch that
\* starts in what was cut already is passed over.
CutPatch ==
    LET patch == merged[next]
    IN  /\ pc = "slice"
        /\ next <= Len(merged)
        /\ \A k \in FirstTag : RawSlices[k].start >= patch.start
        /\ next' = next + 1
        /\ tags' = tags \ {k \in FirstTag : SameSlice(RawSlices[k], patch)}
        /\ IF patch.start < at THEN UNCHANGED <<slices, at>>
           ELSE /\ slices' = Append(Gap(patch.start), SliceOf(patch))
                /\ at' = patch.stop
        /\ UNCHANGED <<pc, iteration, pending, merged, fixed>>

\* The rest of the source is the last slice.
SliceEnds ==
    /\ pc = "slice"
    /\ next > Len(merged)
    /\ slices' = Gap(Size)
    /\ pc' = "build"
    /\ UNCHANGED <<iteration, pending, merged, next, tags, at, fixed>>

\* The first patch of exactly the slice, or none: the source itself.
PutAt(s) ==
    {merged[i] : i \in {i \in DOMAIN merged :
        /\ SameSlice(merged[i], s)
        /\ \A j \in DOMAIN merged : SameSlice(merged[j], s) => i <= j}}

\* _build_up_fixed_source_string
Build ==
    /\ pc = "build"
    /\ pc' = "done"
    /\ fixed' = [i \in DOMAIN slices |->
                    [start |-> slices[i].start, stop |-> slices[i].stop, put |-> PutAt(slices[i])]]
    /\ UNCHANGED <<iteration, pending, merged, slicing>>

\* The fixed source is ready.
Done == pc = "done" /\ UNCHANGED vars

Next ==
    \/ \E p \in Patches : Yield(p)
    \/ EndVariant
    \/ \E place \in pending : MergePatch(place)
    \/ MergeEnds
    \/ \E k \in tags : CutTag(k)
    \/ CutPatch
    \/ SliceEnds
    \/ Build
    \/ Done

Spec == Init /\ [][Next]_vars

-----------------------------------------------------------------------------
\* Two patches that cannot both be applied: they replace the same slice or
\* common source, or one inserts into what the other replaces.
Collide(p, q) ==
    \/ SameSlice(p, q)
    \/ \E i \in 0..(Size - 1) : p.start <= i /\ i < p.stop /\ q.start <= i /\ i < q.stop
    \/ IsInsertion(p) /\ q.start < p.start /\ p.start < q.stop

Applied == {p \in Range(merged) : \A q \in Range(merged) : q = p \/ ~Collide(p, q)}

Put == UNION {fixed[i].put : i \in DOMAIN fixed}

\* Pieces in order, from one place of the source to another, without gaps.
Tile(pieces, from, to) ==
    /\ pieces # <<>>
    /\ pieces[1].start = from
    /\ pieces[Len(pieces)].stop = to
    /\ \A i \in DOMAIN pieces :
           /\ pieces[i].start <= pieces[i].stop
           /\ i > 1 => pieces[i].start = pieces[i - 1].stop

(* The buffers and patches are of the kinds the code keeps; what goes into  *)
(* the slicing is sorted, as _slice_source_file_using_patches assumes, and  *)
(* holds no slice twice.                                                    *)
TypeOK ==
    /\ pc \in {"iterate", "merge", "slice", "build", "done"}
    /\ yielded \subseteq Patches /\ count \in 0..MaxPatches
    /\ Len(buffers) \in 1..Variants
    /\ \A v \in DOMAIN buffers : Range(buffers[v]) \subseteq yielded
    /\ pending \subseteq Places(buffers)
    /\ Range(merged) \subseteq yielded
    /\ \A i, j \in DOMAIN merged : i < j =>
           /\ merged[i].start <= merged[j].start
           /\ ~SameSlice(merged[i], merged[j])
    /\ next \in 1..(Len(merged) + 1)
    /\ tags \subseteq Tags
    /\ at \in 0..Size

(* The fixed source is the source with each applied patch in place of its   *)
(* slice, once, and with no other change: the cutting around tags and       *)
(* patches loses, repeats and reorders nothing.                             *)
FixedIsSourcePatched ==
    pc = "done" =>
        /\ Tile(fixed, 0, Size)
        /\ IsInjective(fixed)
        /\ \A i \in DOMAIN fixed : \A p \in fixed[i].put : SameSlice(p, fixed[i])
        /\ Put = Applied

(* Template tags are off limits, whatever the trees and however the patches *)
(* of several variants meet: each tag stands in the fixed source unbroken,  *)
(* or a source fix of exactly that tag replaces it.                         *)
TagsIntact ==
    pc = "done" =>
        \A k \in Tags : \E i \in DOMAIN fixed :
            \/ /\ fixed[i].put = {}
               /\ fixed[i].start <= RawSlices[k].start /\ RawSlices[k].stop <= fixed[i].stop
            \/ \E p \in fixed[i].put : p.source /\ SameSlice(p, RawSlices[k])

(* No change is lost but to one it collides with: a patch of any variant on *)
(* literal source, or an explicit source fix, is in the fixed source, or a  *)
(* patch of the same or of overlapping source is.                           *)
PatchesSurvive ==
    pc = "done" =>
        \A p \in yielded :
            (p.source \/ \E i \in DOMAIN RawSlices :
                             /\ RawSlices[i].type = "literal"
                             /\ RawSlices[i].start <= p.start
                             /\ p.stop <= RawSlices[i].stop)
            => \E q \in Put : Collide(p, q)
=============================================================================
