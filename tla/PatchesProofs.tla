----------------------------- MODULE PatchesProofs --------------------------
(***************************************************************************)
(* Proofs about Patches, for any source, any raw slices of it, any number  *)
(* of variants and whatever their trees yield: the fixed source is the     *)
(* source with the applied patches in place, template tags are whole, and  *)
(* a patch is lost only to one that it collides with.                      *)
(*                                                                         *)
(* What is merged is sorted and does not overlap (MergeInv). The slicing   *)
(* then keeps a chain of slices up to source_idx, and a tag still ahead is *)
(* never reached into: a patch that was kept covers no tag, or covers it   *)
(* exactly and is a source fix (CertainSparesTags).                        *)
(***************************************************************************)
EXTENDS Patches, WellFoundedInduction, TLAPS

-----------------------------------------------------------------------------
(* Raw slices and the patches that are kept.                               *)

LEMMA RawsAre ==
    ASSUME NEW i \in DOMAIN RawSlices
    PROVE  /\ i \in Nat /\ Len(RawSlices) \in Nat /\ 1 <= i /\ i <= Len(RawSlices)
           /\ RawSlices[i].start \in 0 .. Size /\ RawSlices[i].stop \in 0 .. Size
           /\ RawSlices[i].start \in Nat /\ RawSlices[i].stop \in Nat
           /\ RawSlices[i].start < RawSlices[i].stop
           /\ i > 1 => RawSlices[i].start = RawSlices[i - 1].stop
  <1>. DEFINE RawSet == [type : SliceTypes, start : 0 .. Size, stop : 0 .. Size]
  <1>1. RawSlices \in Seq(RawSet)
    BY SlicesAssumption
  <1>2. i \in Nat /\ Len(RawSlices) \in Nat /\ 1 <= i /\ i <= Len(RawSlices)
    BY <1>1
  <1>3. RawSlices[i] \in RawSet
    <2>. HIDE DEF RawSet
    <2>. QED  BY <1>1
  <1>4. RawSlices[i].start \in 0 .. Size /\ RawSlices[i].stop \in 0 .. Size
    BY <1>3
  <1>5. RawSlices[i].start < RawSlices[i].stop
        /\ (i > 1 => RawSlices[i].start = RawSlices[i - 1].stop)
    BY SlicesAssumption
  <1>. QED  BY <1>2, <1>4, <1>5, SizeAssumption

\* The raw slices are apart, in the order of their places.
LEMMA RawsApart ==
    ASSUME NEW i \in DOMAIN RawSlices, NEW j \in DOMAIN RawSlices, i < j
    PROVE  RawSlices[i].stop <= RawSlices[j].start
  <1>. DEFINE Bad == {k \in DOMAIN RawSlices : i < k /\ ~(RawSlices[i].stop <= RawSlices[k].start)}
  <1>1. Bad \in SUBSET Nat
    BY RawsAre
  <1>2. SUFFICES ASSUME Bad # {} PROVE FALSE
    OBVIOUS
  <1>3. PICK k \in Bad : \A l \in Bad : ~(l < k)
    <2>. HIDE DEF Bad
    <2>1. PICK k \in Bad : \A l \in Bad : ~(<<l, k>> \in OpToRel(<, Nat))
      BY <1>1, <1>2, WFMin, NatLessThanWellFounded
    <2>. QED  BY <1>1, <2>1 DEF OpToRel
  <1>4. /\ k \in DOMAIN RawSlices /\ i < k /\ ~(RawSlices[i].stop <= RawSlices[k].start)
        /\ i \in Nat /\ k \in Nat /\ 1 <= i /\ k <= Len(RawSlices)
        /\ Len(RawSlices) \in Nat /\ RawSlices[k].start = RawSlices[k - 1].stop
    BY <1>3, RawsAre
  <1>5. k - 1 \in DOMAIN RawSlices
    BY <1>4, SlicesAssumption
  <1>6. CASE i = k - 1
    BY <1>4, <1>6, RawsAre
  <1>7. CASE i # k - 1
    <2>1. k - 1 \notin Bad /\ i < k - 1
      BY <1>3, <1>4, <1>7
    <2>2. RawSlices[i].stop <= RawSlices[k - 1].start
      BY <1>5, <2>1
    <2>. QED  BY <1>4, <1>5, <2>2, RawsAre
  <1>. QED  BY <1>6, <1>7

LEMMA PatchesAre ==
    ASSUME NEW p \in Patches
    PROVE  /\ p.start \in 0 .. Size /\ p.stop \in 0 .. Size
           /\ p.start \in Nat /\ p.stop \in Nat /\ p.start <= p.stop
           /\ p.source \in BOOLEAN
           /\ p.source => \E i \in DOMAIN RawSlices :
                  RawSlices[i].type # "literal" /\ SameSlice(RawSlices[i], p)
  BY SizeAssumption DEF Patches, SameSlice

LEMMA TagsAre ==
    ASSUME NEW k \in Tags
    PROVE  k \in DOMAIN RawSlices /\ RawSlices[k].type = "tag" /\ k \in Nat
  BY RawsAre DEF Tags

\* A patch that is kept does not reach into a tag, but for a source fix of it.
LEMMA CertainSparesTags ==
    ASSUME NEW p \in Patches, Certain(p), NEW k \in Tags
    PROVE  \/ p.stop <= RawSlices[k].start
           \/ RawSlices[k].stop <= p.start
           \/ SameSlice(RawSlices[k], p) /\ p.source
  <1>1. /\ k \in DOMAIN RawSlices /\ RawSlices[k].type # "literal"
        /\ RawSlices[k].start \in Nat /\ RawSlices[k].stop \in Nat
        /\ RawSlices[k].start < RawSlices[k].stop
        /\ p.start \in Nat /\ p.stop \in Nat /\ p.start <= p.stop
    BY TagsAre, RawsAre, PatchesAre
  <1>2. SUFFICES ASSUME RawSlices[k].start < p.stop, p.start < RawSlices[k].stop
                 PROVE  SameSlice(RawSlices[k], p) /\ p.source
    BY <1>1
  <1>3. k \in Spanned(p)
    BY <1>1, <1>2 DEF Spanned
  <1>4. CASE p.source
    <2>1. PICK i \in DOMAIN RawSlices : SameSlice(RawSlices[i], p)
      BY <1>4, PatchesAre
    <2>2. i = k
      <3>1. i \in Nat /\ k \in Nat /\ RawSlices[i].start \in Nat /\ RawSlices[i].stop \in Nat
        BY <1>1, RawsAre
      <3>2. ~(i < k)
        BY <1>1, <1>2, <2>1, <3>1, RawsApart DEF SameSlice
      <3>3. ~(k < i)
        BY <1>1, <1>2, <2>1, <3>1, RawsApart DEF SameSlice
      <3>. QED  BY <3>1, <3>2, <3>3
    <2>. QED  BY <1>4, <2>1, <2>2
  <1>5. CASE ~p.source
    <2>1. PICK i \in Spanned(p) : IsInsertion(p) /\ RawSlices[i].start = p.start
      BY <1>1, <1>3, <1>5 DEF Certain
    <2>2. i \in DOMAIN RawSlices /\ p.start = p.stop
      BY <2>1 DEF Spanned, IsInsertion
    <2>3. i \in Nat /\ k \in Nat /\ RawSlices[i].start \in Nat /\ RawSlices[i].stop \in Nat
          /\ RawSlices[i].start < RawSlices[i].stop
      BY <1>1, <2>2, RawsAre
    <2>4. i # k
      BY <1>2, <2>1, <2>2, <2>3
    <2>5. ~(i < k)
      BY <1>1, <1>2, <2>1, <2>2, <2>3, RawsApart
    <2>6. ~(k < i)
      BY <1>1, <1>2, <2>1, <2>2, <2>3, RawsApart
    <2>. QED  BY <2>3, <2>4, <2>5, <2>6
  <1>. QED  BY <1>4, <1>5

\* A patch within a tag, but not at its start, is not kept.
LEMMA NoneWithinTags ==
    ASSUME NEW p \in Patches, Certain(p), NEW k \in Tags,
           RawSlices[k].start < p.start, p.start < RawSlices[k].stop
    PROVE  FALSE
  <1>1. p.start \in Nat /\ p.stop \in Nat /\ p.start <= p.stop
        /\ RawSlices[k].start \in Nat /\ RawSlices[k].stop \in Nat
    BY TagsAre, RawsAre, PatchesAre
  <1>. QED  BY <1>1, CertainSparesTags DEF SameSlice

\* What is worth keeping is kept.
WorthKeeping(p) ==
    p.source \/ \E i \in DOMAIN RawSlices :
                    /\ RawSlices[i].type = "literal"
                    /\ RawSlices[i].start <= p.start
                    /\ p.stop <= RawSlices[i].stop

LEMMA WorthIsCertain ==
    ASSUME NEW p \in Patches, WorthKeeping(p)
    PROVE  Certain(p)
  <1>1. CASE p.source
    BY <1>1 DEF Certain
  <1>2. CASE ~p.source
    <2>1. PICK l \in DOMAIN RawSlices :
              /\ RawSlices[l].type = "literal"
              /\ RawSlices[l].start <= p.start /\ p.stop <= RawSlices[l].stop
      BY <1>2 DEF WorthKeeping
    <2>2. /\ p.start \in Nat /\ p.stop \in Nat /\ p.start <= p.stop
          /\ l \in Nat /\ RawSlices[l].start \in Nat /\ RawSlices[l].stop \in Nat
          /\ RawSlices[l].start < RawSlices[l].stop
      BY PatchesAre, RawsAre
    <2>3. ASSUME NEW i \in Spanned(p), i # l
          PROVE  IsInsertion(p) /\ RawSlices[i].start = p.start
      <3>1. /\ i \in DOMAIN RawSlices /\ p.start < RawSlices[i].stop
            /\ RawSlices[i].start <= p.start \/ RawSlices[i].start < p.stop
        BY <2>3 DEF Spanned
      <3>2. i \in Nat /\ RawSlices[i].start \in Nat /\ RawSlices[i].stop \in Nat
        BY <3>1, RawsAre
      <3>3. CASE i < l
        <4>1. RawSlices[i].stop <= RawSlices[l].start
          BY <3>1, <3>3, RawsApart
        <4>. QED  BY <2>1, <2>2, <3>1, <3>2, <4>1
      <3>4. CASE l < i
        <4>1. RawSlices[l].stop <= RawSlices[i].start
          BY <3>1, <3>4, RawsApart
        <4>. QED  BY <2>1, <2>2, <3>1, <3>2, <4>1 DEF IsInsertion
      <3>. QED  BY <2>2, <2>3, <3>2, <3>3, <3>4
    <2>. QED  BY <2>1, <2>3 DEF Certain
  <1>. QED  BY <1>1, <1>2
-----------------------------------------------------------------------------
(* The invariant of iterating and merging.                                 *)

Overlap(p, q) == LargerOf(p.start, q.start) < SmallerOf(p.stop, q.stop)

Before(p, q) == p.start < q.start \/ (p.start = q.start /\ p.stop < q.stop)

BufferInv ==
    /\ yielded \subseteq Patches
    /\ count \in 0 .. MaxPatches
    /\ buffers \in Seq(Seq(Patches))
    /\ Len(buffers) \in 1 .. Variants
    /\ \A v \in DOMAIN buffers : \A i \in DOMAIN buffers[v] :
           buffers[v][i] \in yielded /\ Certain(buffers[v][i])
    /\ \A p \in yielded : Certain(p) =>
           \E v \in DOMAIN buffers : \E i \in DOMAIN buffers[v] : Duplicate(buffers[v][i], p)

MergedInv ==
    /\ merged \in Seq(Patches)
    /\ \A i \in DOMAIN merged : merged[i] \in yielded /\ Certain(merged[i])
    /\ \A i, j \in DOMAIN merged : i < j =>
           Before(merged[i], merged[j]) /\ ~Overlap(merged[i], merged[j])

PendingInv ==
    /\ pending \subseteq Places(buffers)
    /\ pc = "iterate" => merged = <<>>
    /\ pc # "merge" => pending = {}
    /\ pc # "iterate" => \A place \in Places(buffers) \ pending : \E i \in DOMAIN merged :
           SameSlice(merged[i], PatchAt(place)) \/ Overlap(merged[i], PatchAt(place))
    /\ \A i \in DOMAIN merged, place \in pending :
           Before(merged[i], PatchAt(place)) \/ SameSlice(merged[i], PatchAt(place))

MergeInv ==
    /\ pc \in {"iterate", "merge", "slice", "build", "done"}
    /\ BufferInv
    /\ MergedInv
    /\ PendingInv

LEMMA OverlapsAre ==
    ASSUME NEW p \in Patches, NEW q \in Patches
    PROVE  /\ Overlap(p, q) <=> p.start < q.stop /\ q.start < p.stop /\ ~IsInsertion(p) /\ ~IsInsertion(q)
           /\ Duplicate(p, q) \/ Conflict(p, q) => SameSlice(p, q) \/ Overlap(p, q)
           /\ ~(Duplicate(p, q) \/ Conflict(p, q)) => ~SameSlice(p, q) /\ ~Overlap(p, q)
  <1>1. /\ p.start \in Nat /\ p.stop \in Nat /\ p.start <= p.stop
        /\ q.start \in Nat /\ q.stop \in Nat /\ q.start <= q.stop
    BY PatchesAre
  <1>2. Overlap(p, q) <=> p.start < q.stop /\ q.start < p.stop /\ ~IsInsertion(p) /\ ~IsInsertion(q)
    BY <1>1 DEF Overlap, LargerOf, SmallerOf, IsInsertion
  <1>. QED  BY <1>2 DEF Duplicate, Conflict, Overlap

LEMMA EntriesAre ==
    ASSUME BufferInv, NEW place \in Places(buffers)
    PROVE  PatchAt(place) \in yielded /\ PatchAt(place) \in Patches /\ Certain(PatchAt(place))
  <1>1. PICK v \in DOMAIN buffers : \E i \in DOMAIN buffers[v] : place = <<v, i>>
    BY DEF Places
  <1>2. PICK i \in DOMAIN buffers[v] : place = <<v, i>>
    BY <1>1
  <1>. QED  BY <1>2 DEF BufferInv, PatchAt

LEMMA InitMerge == Init => MergeInv
  <1>. SUFFICES ASSUME Init PROVE MergeInv
    OBVIOUS
  <1>1. BufferInv
    <2>1. <<>> \in Seq(Patches)
      OBVIOUS
    <2>2. buffers \in Seq(Seq(Patches)) /\ Len(buffers) = 1 /\ buffers[1] = <<>>
      BY <2>1 DEF Init
    <2>. QED  BY <2>2, SizeAssumption DEF Init, BufferInv
  <1>2. MergedInv /\ PendingInv
    BY DEF Init, MergedInv, PendingInv
  <1>. QED  BY <1>1, <1>2 DEF Init, MergeInv

\* A patch put into the buffer of the last variant, if it is new and certain.
LEMMA YieldBuffers ==
    ASSUME BufferInv, NEW p \in Patches, Yield(p)
    PROVE  BufferInv'
  <1>. DEFINE v == Len(buffers)
  <1>1. /\ yielded \subseteq Patches /\ count \in 0 .. MaxPatches
        /\ buffers \in Seq(Seq(Patches)) /\ v \in 1 .. Variants /\ v \in DOMAIN buffers
        /\ DOMAIN buffers = 1 .. v
        /\ \A w \in DOMAIN buffers : buffers[w] \in Seq(Patches)
    BY SizeAssumption DEF BufferInv
  <1>2. /\ yielded' = yielded \union {p} /\ count' = count + 1 /\ count < MaxPatches
    BY DEF Yield
  <1>3. yielded' \subseteq Patches /\ count' \in 0 .. MaxPatches
    BY <1>1, <1>2, SizeAssumption
  <1>4. CASE Certain(p) /\ ~ \E i \in DOMAIN buffers[v] : Duplicate(buffers[v][i], p)
    <2>1. buffers' = [buffers EXCEPT ![v] = Append(buffers[v], p)]
      BY <1>4 DEF Yield
    <2>. DEFINE new == Append(buffers[v], p)
    <2>2. /\ new \in Seq(Patches)
          /\ DOMAIN new = DOMAIN buffers[v] \union {Len(buffers[v]) + 1}
          /\ new[Len(buffers[v]) + 1] = p
          /\ \A i \in DOMAIN buffers[v] : new[i] = buffers[v][i]
      BY <1>1
    <2>. HIDE DEF new
    <2>3. /\ buffers' \in Seq(Seq(Patches)) /\ Len(buffers') = v /\ DOMAIN buffers' = DOMAIN buffers
          /\ buffers'[v] = new /\ \A w \in DOMAIN buffers : w # v => buffers'[w] = buffers[w]
      BY <1>1, <2>1, <2>2 DEF new
    <2>4. ASSUME NEW w \in DOMAIN buffers', NEW i \in DOMAIN buffers'[w]
          PROVE  buffers'[w][i] \in yielded' /\ Certain(buffers'[w][i])
      <3>1. CASE w = v
        BY <1>2, <1>4, <2>2, <2>3, <3>1, <2>4, <1>1 DEF BufferInv
      <3>2. CASE w # v
        BY <1>2, <2>3, <3>2, <2>4 DEF BufferInv
      <3>. QED  BY <3>1, <3>2
    <2>5. ASSUME NEW q \in yielded', Certain(q)
          PROVE  \E w \in DOMAIN buffers' : \E i \in DOMAIN buffers'[w] : Duplicate(buffers'[w][i], q)
      <3>1. CASE q = p
        BY <1>1, <2>2, <2>3, <3>1 DEF Duplicate, SameSlice
      <3>2. CASE q \in yielded
        <4>1. PICK w \in DOMAIN buffers : \E i \in DOMAIN buffers[w] : Duplicate(buffers[w][i], q)
          BY <2>5, <3>2 DEF BufferInv
        <4>. QED  BY <2>2, <2>3, <4>1
      <3>. QED  BY <1>2, <3>1, <3>2
    <2>. QED  BY <1>1, <1>3, <2>3, <2>4, <2>5 DEF BufferInv, Certain, Spanned
  <1>5. CASE ~(Certain(p) /\ ~ \E i \in DOMAIN buffers[v] : Duplicate(buffers[v][i], p))
    <2>1. buffers' = buffers
      BY <1>5 DEF Yield
    <2>2. ASSUME NEW q \in yielded', Certain(q)
          PROVE  \E w \in DOMAIN buffers : \E i \in DOMAIN buffers[w] : Duplicate(buffers[w][i], q)
      BY <1>1, <1>2, <1>5, <2>2 DEF BufferInv
    <2>. QED  BY <1>1, <1>2, <1>3, <2>1, <2>2 DEF BufferInv
  <1>. QED  BY <1>4, <1>5
\* Sorting a buffer keeps its patches.
LEMMA SortBuffers ==
    ASSUME BufferInv, NEW order \in StableOrders(buffers[Len(buffers)])
    PROVE  LET v == Len(buffers)
               sorted == [buffers EXCEPT ![v] = [i \in DOMAIN @ |-> @[order[i]]]]
           IN  /\ sorted \in Seq(Seq(Patches)) /\ Len(sorted) = v /\ DOMAIN sorted = DOMAIN buffers
               /\ \A w \in DOMAIN buffers : \A i \in DOMAIN sorted[w] :
                      \E j \in DOMAIN buffers[w] : sorted[w][i] = buffers[w][j]
               /\ \A w \in DOMAIN buffers : \A j \in DOMAIN buffers[w] :
                      \E i \in DOMAIN sorted[w] : sorted[w][i] = buffers[w][j]
  <1>. DEFINE v == Len(buffers)
              b == buffers[v]
              s == [i \in DOMAIN b |-> b[order[i]]]
              sorted == [buffers EXCEPT ![v] = s]
  <1>1. /\ buffers \in Seq(Seq(Patches)) /\ v \in 1 .. Variants /\ v \in DOMAIN buffers
        /\ v \in Nat /\ b \in Seq(Patches)
    BY SizeAssumption DEF BufferInv
  <1>2. /\ order \in [DOMAIN b -> DOMAIN b] /\ Range(order) = DOMAIN b
    BY DEF StableOrders
  <1>3. /\ DOMAIN s = DOMAIN b /\ \A i \in DOMAIN b : order[i] \in DOMAIN b /\ s[i] = b[order[i]]
    BY <1>2
  <1>4. s \in Seq(Patches)
    <2>1. Len(b) \in Nat /\ DOMAIN b = 1 .. Len(b) /\ \A i \in 1 .. Len(b) : s[i] \in Patches
      BY <1>1, <1>3
    <2>2. s \in [1 .. Len(b) -> Patches]
      BY <2>1
    <2>. HIDE DEF s
    <2>. QED  BY <2>1, <2>2
  <1>5. \A j \in DOMAIN b : \E i \in DOMAIN b : order[i] = j
    BY <1>2 DEF Range
  <1>. HIDE DEF s
  <1>6. /\ sorted \in Seq(Seq(Patches)) /\ Len(sorted) = v /\ DOMAIN sorted = DOMAIN buffers
        /\ sorted[v] = s /\ \A w \in DOMAIN buffers : w # v => sorted[w] = buffers[w]
    BY <1>1, <1>4
  <1>. HIDE DEF sorted
  <1>7. ASSUME NEW w \in DOMAIN buffers, NEW i \in DOMAIN sorted[w]
        PROVE  \E j \in DOMAIN buffers[w] : sorted[w][i] = buffers[w][j]
    <2>1. CASE w = v
      BY <1>3, <1>6, <2>1
    <2>2. CASE w # v
      BY <1>6, <2>2
    <2>. QED  BY <2>1, <2>2
  <1>8. ASSUME NEW w \in DOMAIN buffers, NEW j \in DOMAIN buffers[w]
        PROVE  \E i \in DOMAIN sorted[w] : sorted[w][i] = buffers[w][j]
    <2>1. CASE w = v
      <3>1. PICK i \in DOMAIN b : order[i] = j
        BY <1>5, <2>1
      <3>. QED  BY <1>3, <1>6, <2>1, <3>1
    <2>2. CASE w # v
      BY <1>6, <2>2
    <2>. QED  BY <2>1, <2>2
  <1>. USE DEF sorted, s
  <1>. QED  BY <1>6, <1>7, <1>8

LEMMA EndVariantMerge ==
    ASSUME MergeInv, EndVariant
    PROVE  MergeInv'
  <1>. DEFINE v == Len(buffers)
              sorted(order) == [buffers EXCEPT ![v] = [i \in DOMAIN @ |-> @[order[i]]]]
  <1>1. /\ pc = "iterate" /\ merged = <<>> /\ pending = {} /\ BufferInv
        /\ UNCHANGED <<yielded, count, merged>>
    BY DEF EndVariant, MergeInv, PendingInv
  <1>2. PICK order \in StableOrders(buffers[v]) :
            IF v < Variants
            THEN buffers' = Append(sorted(order), <<>>) /\ UNCHANGED <<pc, pending>>
            ELSE buffers' = sorted(order) /\ pending' = Places(buffers') /\ pc' = "merge"
    BY DEF EndVariant
  <1>. DEFINE bs == sorted(order)
  <1>3. /\ bs \in Seq(Seq(Patches)) /\ Len(bs) = v /\ DOMAIN bs = DOMAIN buffers
        /\ \A w \in DOMAIN bs : \A i \in DOMAIN bs[w] :
               \E j \in DOMAIN buffers[w] : bs[w][i] = buffers[w][j]
        /\ \A w \in DOMAIN bs : \A j \in DOMAIN buffers[w] :
               \E i \in DOMAIN bs[w] : bs[w][i] = buffers[w][j]
    BY <1>1, SortBuffers
  <1>. HIDE DEF bs
  <1>4. /\ \A w \in DOMAIN bs : \A i \in DOMAIN bs[w] : bs[w][i] \in yielded /\ Certain(bs[w][i])
        /\ \A p \in yielded : Certain(p) =>
               \E w \in DOMAIN bs : \E i \in DOMAIN bs[w] : Duplicate(bs[w][i], p)
    <2>1. ASSUME NEW w \in DOMAIN bs, NEW i \in DOMAIN bs[w]
          PROVE  bs[w][i] \in yielded /\ Certain(bs[w][i])
      BY <1>1, <1>3 DEF BufferInv
    <2>2. ASSUME NEW p \in yielded, Certain(p)
          PROVE  \E w \in DOMAIN bs : \E i \in DOMAIN bs[w] : Duplicate(bs[w][i], p)
      <3>1. PICK w \in DOMAIN buffers : \E j \in DOMAIN buffers[w] : Duplicate(buffers[w][j], p)
        BY <1>1, <2>2 DEF BufferInv
      <3>2. PICK j \in DOMAIN buffers[w] : Duplicate(buffers[w][j], p)
        BY <3>1
      <3>3. PICK i \in DOMAIN bs[w] : bs[w][i] = buffers[w][j]
        BY <1>3
      <3>. QED  BY <1>3, <3>2, <3>3
    <2>. QED  BY <2>1, <2>2
  <1>5. v \in 1 .. Variants /\ Variants \in Nat /\ v \in Nat /\ DOMAIN bs = 1 .. v
    BY <1>1, <1>3, SizeAssumption DEF BufferInv
  <1>6. CASE v < Variants
    <2>1. buffers' = Append(bs, <<>>) /\ UNCHANGED <<pc, pending>>
      BY <1>2, <1>6 DEF bs
    <2>2. <<>> \in Seq(Patches)
      OBVIOUS
    <2>3. /\ buffers' \in Seq(Seq(Patches)) /\ Len(buffers') = v + 1
          /\ DOMAIN buffers' = DOMAIN bs \union {v + 1} /\ buffers'[v + 1] = <<>>
          /\ \A w \in DOMAIN bs : buffers'[w] = bs[w]
      BY <1>3, <1>5, <2>1, <2>2
    <2>4. /\ \A w \in DOMAIN buffers' : \A i \in DOMAIN buffers'[w] :
                 buffers'[w][i] \in yielded /\ Certain(buffers'[w][i])
          /\ \A p \in yielded : Certain(p) =>
                 \E w \in DOMAIN buffers' : \E i \in DOMAIN buffers'[w] : Duplicate(buffers'[w][i], p)
      BY <1>4, <2>3
    <2>5. BufferInv'
      <3>1. Len(buffers') \in 1 .. Variants
        BY <1>5, <1>6, <2>3
      <3>2. yielded' \subseteq Patches /\ count' \in 0 .. MaxPatches
        BY <1>1 DEF BufferInv
      <3>. QED  BY <1>1, <2>3, <2>4, <3>1, <3>2 DEF BufferInv
    <2>. QED  BY <1>1, <2>1, <2>5 DEF MergeInv, MergedInv, PendingInv
  <1>7. CASE ~(v < Variants)
    <2>1. buffers' = bs /\ pending' = Places(buffers') /\ pc' = "merge"
      BY <1>2, <1>7 DEF bs
    <2>2. BufferInv'
      BY <1>1, <1>3, <1>4, <1>5, <2>1 DEF BufferInv
    <2>. QED  BY <1>1, <2>1, <2>2 DEF MergeInv, MergedInv, PendingInv
  <1>. QED  BY <1>6, <1>7

\* The next patch comes after all that was merged, and clashes with it or not.
LEMMA MergePatchMerge ==
    ASSUME MergeInv, NEW place \in pending, MergePatch(place)
    PROVE  MergeInv'
  <1>. DEFINE p == PatchAt(place)
              clashes == \E i \in DOMAIN merged : Duplicate(merged[i], p) \/ Conflict(merged[i], p)
  <1>1. /\ pc = "merge" /\ BufferInv /\ MergedInv /\ PendingInv
        /\ \A other \in pending : other = place \/ Precedes(place, other)
        /\ pending' = pending \ {place}
        /\ merged' = (IF clashes THEN merged ELSE Append(merged, p))
        /\ UNCHANGED <<pc, iteration, slicing, fixed>>
    BY DEF MergePatch, MergeInv
  <1>2. BufferInv' /\ buffers' = buffers /\ \A other : PatchAt(other)' = PatchAt(other)
    BY <1>1 DEF BufferInv, iteration, PatchAt
  <1>3. place \in Places(buffers) /\ p \in Patches /\ p \in yielded /\ Certain(p)
    BY <1>1, EntriesAre DEF PendingInv
  <1>4. \A i \in DOMAIN merged : merged[i] \in Patches
    BY <1>1 DEF MergedInv
  <1>5. ASSUME NEW other \in pending' PROVE Before(p, PatchAt(other)) \/ SameSlice(p, PatchAt(other))
    BY <1>1 DEF Precedes, Before
  <1>. HIDE DEF p
  <1>6. CASE clashes
    <2>1. merged' = merged
      BY <1>1, <1>6
    <2>2. \E i \in DOMAIN merged : SameSlice(merged[i], p) \/ Overlap(merged[i], p)
      BY <1>3, <1>4, <1>6, OverlapsAre
    <2>3. PendingInv'
      BY <1>1, <1>2, <1>3, <2>1, <2>2 DEF PendingInv, p
    <2>. QED  BY <1>1, <1>2, <2>1, <2>3 DEF MergeInv, MergedInv, iteration
  <1>7. CASE ~clashes
    <2>. DEFINE n == Len(merged)
    <2>1. /\ merged \in Seq(Patches) /\ n \in Nat /\ DOMAIN merged = 1 .. n
          /\ merged' \in Seq(Patches) /\ DOMAIN merged' = 1 .. (n + 1)
          /\ merged'[n + 1] = p /\ \A i \in 1 .. n : merged'[i] = merged[i]
      BY <1>1, <1>3, <1>7 DEF MergedInv
    <2>2. ASSUME NEW i \in DOMAIN merged PROVE Before(merged[i], p) /\ ~Overlap(merged[i], p)
      <3>1. ~SameSlice(merged[i], p) /\ ~Overlap(merged[i], p)
        BY <1>3, <1>4, <1>7, OverlapsAre
      <3>. QED  BY <1>1, <3>1 DEF PendingInv, p
    <2>3. MergedInv'
      <3>1. \A i \in DOMAIN merged' : merged'[i] \in yielded' /\ Certain(merged'[i])
        BY <1>1, <1>3, <2>1 DEF MergedInv, iteration
      <3>2. \A i, j \in DOMAIN merged' : i < j =>
                Before(merged'[i], merged'[j]) /\ ~Overlap(merged'[i], merged'[j])
        BY <1>1, <2>1, <2>2 DEF MergedInv
      <3>. QED  BY <2>1, <3>1, <3>2 DEF MergedInv
    <2>4. PendingInv'
      <3>1. ASSUME NEW other \in Places(buffers) \ pending'
            PROVE  \E i \in DOMAIN merged' :
                       SameSlice(merged'[i], PatchAt(other)) \/ Overlap(merged'[i], PatchAt(other))
        <4>1. CASE other = place
          BY <2>1, <4>1 DEF SameSlice, p
        <4>2. CASE other # place
          BY <1>1, <2>1, <3>1, <4>2 DEF PendingInv
        <4>. QED  BY <4>1, <4>2
      <3>2. ASSUME NEW i \in DOMAIN merged', NEW other \in pending'
            PROVE  Before(merged'[i], PatchAt(other)) \/ SameSlice(merged'[i], PatchAt(other))
        BY <1>1, <1>5, <2>1 DEF PendingInv
      <3>. QED  BY <1>1, <1>2, <3>1, <3>2 DEF PendingInv
    <2>. QED  BY <1>1, <1>2, <2>3, <2>4 DEF MergeInv
  <1>. QED  BY <1>6, <1>7

LEMMA NextMerge == MergeInv /\ [Next]_vars => MergeInv'
  <1>. SUFFICES ASSUME MergeInv, [Next]_vars PROVE MergeInv'
    OBVIOUS
  <1>1. ASSUME NEW p \in Patches, Yield(p) PROVE MergeInv'
    <2>1. BufferInv'
      BY <1>1, YieldBuffers DEF MergeInv
    <2>2. pc = "iterate" /\ UNCHANGED <<pc, pending, merged>>
      BY <1>1 DEF Yield
    <2>. QED  BY <2>1, <2>2 DEF MergeInv, MergedInv, PendingInv
  <1>2. CASE EndVariant
    BY <1>2, EndVariantMerge
  <1>3. ASSUME NEW place \in pending, MergePatch(place) PROVE MergeInv'
    BY <1>3, MergePatchMerge
  <1>4. ASSUME UNCHANGED <<iteration, merged, pending>>,
               pc' # "iterate", pc # "iterate", pc' # "merge", pending = {},
               pc' \in {"iterate", "merge", "slice", "build", "done"}
        PROVE  MergeInv'
    BY <1>4 DEF MergeInv, BufferInv, MergedInv, PendingInv, PatchAt, iteration
  <1>5. CASE MergeEnds
    BY <1>4, <1>5 DEF MergeEnds
  <1>6. ASSUME NEW k \in tags, CutTag(k) PROVE MergeInv'
    BY <1>4, <1>6 DEF CutTag, MergeInv, PendingInv
  <1>7. CASE CutPatch
    BY <1>4, <1>7 DEF CutPatch, MergeInv, PendingInv
  <1>8. CASE SliceEnds
    BY <1>4, <1>8 DEF SliceEnds, MergeInv, PendingInv
  <1>9. CASE Build
    BY <1>4, <1>9 DEF Build, MergeInv, PendingInv
  <1>10. CASE UNCHANGED vars
    BY <1>10 DEF vars, MergeInv, BufferInv, MergedInv, PendingInv, PatchAt, iteration
  <1>. QED  BY <1>1, <1>2, <1>3, <1>5, <1>6, <1>7, <1>8, <1>9, <1>10 DEF Next, Done

\* What is merged is sorted and holds no two patches of common source; each
\* patch that was kept has its slice in it or overlaps one that has.
THEOREM MergeInvariance == Spec => []MergeInv
  <1>. QED  BY InitMerge, NextMerge, PTL DEF Spec
-----------------------------------------------------------------------------
(* The invariant of slicing.                                               *)

SliceSet == [start : 0 .. Size, stop : 0 .. Size]

\* Slices in order that leave no gap and hold no slice twice.
Chain(ss, to) ==
    /\ ss \in Seq(SliceSet)
    /\ IF ss = <<>> THEN to = 0 ELSE Tile(ss, 0, to)
    /\ \A i \in DOMAIN ss : ss[i].start <= ss[i].stop /\ ss[i].stop <= to
    /\ \A i, j \in DOMAIN ss : i < j => ss[i].stop <= ss[j].start
    /\ IsInjective(ss)

IsIn(p) == SliceOf(p) \in Range(slices)

\* A patch has its slice, or it is an insertion into what another replaces.
Handled(j) ==
    \/ IsIn(merged[j])
    \/ /\ IsInsertion(merged[j])
       /\ \E i \in 1 .. (next - 1) :
              /\ IsIn(merged[i])
              /\ merged[i].start < merged[j].start /\ merged[j].start < merged[i].stop

TagsInv ==
    /\ tags \subseteq Tags
    /\ \A k \in tags : at <= RawSlices[k].start
    /\ \A k \in Tags \ tags, j \in tags : k < j

\* What was cut last: a patch, or a tag before all the patches left.
AtInv ==
    \/ at = 0
    \/ \E j \in 1 .. (next - 1) : IsIn(merged[j]) /\ at = merged[j].stop
    \/ \E k \in Tags \ tags :
           at = RawSlices[k].stop /\ \A j \in next .. Len(merged) : RawSlices[k].start < merged[j].start

SlicingInv ==
    /\ Chain(slices, at)
    /\ \A s \in Range(slices) : s.start = s.stop => \E j \in 1 .. (next - 1) : SameSlice(merged[j], s)
    /\ \A k \in Tags \ tags : SliceOf(RawSlices[k]) \in Range(slices)
    /\ \A j \in 1 .. (next - 1) : Handled(j)
    /\ AtInv

SlicedInv ==
    /\ Chain(slices, Size)
    /\ slices # <<>>
    /\ next = Len(merged) + 1
    /\ \A j \in DOMAIN merged : Handled(j)
    /\ \A k \in Tags :
           \/ SliceOf(RawSlices[k]) \in Range(slices)
           \/ \E s \in Range(slices) :
                  /\ s.start <= RawSlices[k].start /\ RawSlices[k].stop <= s.stop
                  /\ \A j \in DOMAIN merged : ~SameSlice(merged[j], s)

SliceInv ==
    /\ next \in 1 .. (Len(merged) + 1)
    /\ at \in 0 .. Size
    /\ TagsInv
    /\ pc \in {"iterate", "merge"} => next = 1 /\ tags = Tags /\ at = 0 /\ slices = <<>>
    /\ pc = "slice" => SlicingInv
    /\ pc \in {"build", "done"} => SlicedInv
    /\ pc = "done" =>
           fixed = [i \in DOMAIN slices |-> [start |-> slices[i].start, stop |-> slices[i].stop,
                                             put |-> PutAt(slices[i])]]

LEMMA ChainAppend ==
    ASSUME NEW ss, NEW a \in 0 .. Size, NEW b \in 0 .. Size, a <= b, Chain(ss, a),
           Slice(a, b) \notin Range(ss)
    PROVE  /\ Chain(Append(ss, Slice(a, b)), b)
           /\ Range(Append(ss, Slice(a, b))) = Range(ss) \union {Slice(a, b)}
           /\ Append(ss, Slice(a, b)) # <<>>
  <1>. DEFINE n == Len(ss)
              new == Append(ss, Slice(a, b))
  <1>1. Slice(a, b) \in SliceSet /\ Slice(a, b).start = a /\ Slice(a, b).stop = b
    BY DEF Slice, SliceSet
  <1>2. ss \in Seq(SliceSet) /\ n \in Nat /\ DOMAIN ss = 1 .. n
        /\ \A i \in 1 .. n : ss[i] \in SliceSet
    BY DEF Chain
  <1>3. /\ new \in Seq(SliceSet) /\ Len(new) = n + 1 /\ DOMAIN new = 1 .. (n + 1)
        /\ new[n + 1] = Slice(a, b) /\ \A i \in 1 .. n : new[i] = ss[i]
        /\ new # <<>>
    <2>. DEFINE e == Slice(a, b)
    <2>1. e \in SliceSet
      BY <1>1
    <2>. HIDE DEF e
    <2>2. /\ Append(ss, e) \in Seq(SliceSet) /\ Len(Append(ss, e)) = n + 1
          /\ Append(ss, e)[n + 1] = e /\ \A i \in 1 .. n : Append(ss, e)[i] = ss[i]
      BY <1>2, <2>1
    <2>3. Append(ss, e) # <<>> /\ DOMAIN Append(ss, e) = 1 .. (n + 1)
      BY <1>2, <2>2
    <2>. QED  BY <2>2, <2>3 DEF e
  <1>4. \A i \in 1 .. n : ss[i].start \in Nat /\ ss[i].stop \in Nat /\ ss[i].start <= ss[i].stop
            /\ ss[i].stop <= a
    BY <1>2, SizeAssumption DEF Chain, SliceSet
  <1>. HIDE DEF new
  <1>5. Tile(new, 0, b)
    <2>1. CASE ss = <<>>
      <3>1. n = 0 /\ a = 0
        BY <2>1 DEF Chain
      <3>. QED  BY <1>1, <1>3, <3>1 DEF Tile
    <2>2. CASE ss # <<>>
      <3>1. Tile(ss, 0, a) /\ n >= 1
        BY <1>2, <2>2 DEF Chain
      <3>2. new[1].start = 0 /\ new[n + 1].stop = b /\ new[n].stop = a
        BY <1>1, <1>2, <1>3, <3>1 DEF Tile
      <3>3. ASSUME NEW i \in 1 .. (n + 1)
            PROVE  new[i].start <= new[i].stop /\ (i > 1 => new[i].start = new[i - 1].stop)
        <4>1. CASE i = n + 1
          BY <1>1, <1>2, <1>3, <3>2, <4>1
        <4>2. CASE i # n + 1
          <5>1. i \in 1 .. n /\ (i > 1 => i - 1 \in 1 .. n)
            BY <1>2, <4>2
          <5>. QED  BY <1>2, <1>3, <3>1, <5>1 DEF Tile
        <4>. QED  BY <4>1, <4>2
      <3>. QED  BY <1>3, <3>2, <3>3 DEF Tile
    <2>. QED  BY <2>1, <2>2
  <1>6. \A i \in DOMAIN new : new[i].start <= new[i].stop /\ new[i].stop <= b
    BY <1>1, <1>2, <1>3, <1>4, SizeAssumption
  <1>7. \A i, j \in DOMAIN new : i < j => new[i].stop <= new[j].start
    BY <1>1, <1>2, <1>3, <1>4, SizeAssumption DEF Chain
  <1>8. IsInjective(new)
    <2>1. \A i \in 1 .. n : ss[i] # Slice(a, b)
      BY <1>2 DEF Range
    <2>. QED  BY <1>2, <1>3, <2>1 DEF Chain, IsInjective
  <1>9. Range(new) = Range(ss) \union {Slice(a, b)}
    BY <1>2, <1>3 DEF Range
  <1>. QED  BY <1>3, <1>5, <1>6, <1>7, <1>8, <1>9 DEF Chain, new

LEMMA ChainEnds ==
    ASSUME NEW ss, NEW a \in 0 .. Size, Chain(ss, a), NEW s \in Range(ss)
    PROVE  /\ s.start \in Nat /\ s.stop \in Nat /\ s.start <= s.stop /\ s.stop <= a
           /\ s = Slice(s.start, s.stop)
  <1>1. PICK i \in DOMAIN ss : s = ss[i]
    BY DEF Range
  <1>2. ss[i] \in SliceSet
    BY DEF Chain
  <1>. QED  BY <1>1, <1>2, SizeAssumption DEF Chain, SliceSet, Slice

\* The slices up to the next one, if there is a gap.
LEMMA GapChain ==
    ASSUME Chain(slices, at), at \in 0 .. Size, NEW to \in 0 .. Size, at <= to
    PROVE  /\ Chain(Gap(to), to)
           /\ Range(Gap(to)) = Range(slices) \union (IF at < to THEN {Slice(at, to)} ELSE {})
           /\ at < to => Gap(to) # <<>>
  <1>1. CASE at = to
    BY <1>1, SizeAssumption DEF Gap
  <1>2. CASE at < to
    <2>1. Slice(at, to) \notin Range(slices)
      BY <1>2, ChainEnds, SizeAssumption DEF Slice
    <2>2. Gap(to) = Append(slices, Slice(at, to))
      BY <1>2, SizeAssumption DEF Gap
    <2>. QED  BY <1>2, <2>1, <2>2, ChainAppend, SizeAssumption
  <1>. QED  BY <1>1, <1>2, SizeAssumption

LEMMA CutChain ==
    ASSUME Chain(slices, at), at \in 0 .. Size, NEW from \in 0 .. Size, NEW to \in 0 .. Size,
           at <= from, from <= to, from = to => Slice(from, to) \notin Range(slices)
    PROVE  LET ss == Append(Gap(from), Slice(from, to))
           IN  /\ Chain(ss, to)
               /\ Range(ss) = Range(slices) \union {Slice(from, to)}
                                  \union (IF at < from THEN {Slice(at, from)} ELSE {})
  <1>1. /\ Chain(Gap(from), from)
        /\ Range(Gap(from)) = Range(slices) \union (IF at < from THEN {Slice(at, from)} ELSE {})
    BY GapChain
  <1>2. Slice(from, to) \notin Range(Gap(from))
    <2>1. CASE from = to
      <3>1. at < from => Slice(at, from) # Slice(from, to)
        BY SizeAssumption DEF Slice
      <3>. QED  BY <1>1, <2>1, <3>1
    <2>2. CASE from < to
      BY <1>1, <2>2, ChainEnds, SizeAssumption DEF Slice
    <2>. QED  BY <2>1, <2>2, SizeAssumption
  <1>. QED  BY <1>1, <1>2, ChainAppend, SizeAssumption
LEMMA InitSlice == Init => SliceInv
  <1>. SUFFICES ASSUME Init PROVE SliceInv
    OBVIOUS
  <1>1. next = 1 /\ merged = <<>> /\ tags = Tags /\ at = 0 /\ slices = <<>> /\ pc = "iterate"
    BY DEF Init
  <1>2. TagsInv
    BY <1>1, TagsAre, RawsAre DEF TagsInv
  <1>. QED  BY <1>1, <1>2, SizeAssumption DEF SliceInv

\* The first tag left is there, and comes before the others in the source.
LEMMA FirstTagIs ==
    ASSUME TagsInv, tags # {}
    PROVE  /\ FirstTag # {} /\ FirstTag \subseteq tags
           /\ \A k \in FirstTag, j \in tags : j = k \/ (k < j /\ RawSlices[k].stop <= RawSlices[j].start)
  <1>1. tags \in SUBSET Nat /\ \A k \in tags : k \in DOMAIN RawSlices
    BY TagsAre DEF TagsInv
  <1>2. PICK k \in tags : \A j \in tags : ~(j < k)
    <2>1. PICK k \in tags : \A l \in tags : ~(<<l, k>> \in OpToRel(<, Nat))
      BY <1>1, WFMin, NatLessThanWellFounded
    <2>. QED  BY <1>1, <2>1 DEF OpToRel
  <1>3. k \in FirstTag
    BY <1>1, <1>2 DEF FirstTag
  <1>4. ASSUME NEW l \in FirstTag, NEW j \in tags, j # l
        PROVE  l < j /\ RawSlices[l].stop <= RawSlices[j].start
    <2>1. l \in tags /\ l <= j /\ l \in Nat /\ j \in Nat
      BY <1>1 DEF FirstTag
    <2>. QED  BY <1>1, <1>4, <2>1, RawsApart
  <1>. QED  BY <1>3, <1>4 DEF FirstTag

LEMMA SlicesGrow ==
    ASSUME Range(slices) \subseteq Range(slices)', UNCHANGED merged, next' \in Nat, next \in Nat,
           next <= next', NEW j, Handled(j)
    PROVE  Handled(j)'
  <1>1. \A i : IsIn(merged[i]) => IsIn(merged[i])'
    BY DEF IsIn, SliceOf, Slice
  <1>2. ASSUME NEW m \in Nat, NEW n \in Nat, m <= n PROVE 1 .. (m - 1) \subseteq 1 .. (n - 1)
    BY <1>2
  <1>3. 1 .. (next - 1) \subseteq 1 .. (next' - 1)
    BY <1>2
  <1>. QED  BY <1>1, <1>3 DEF Handled, IsInsertion

LEMMA CutTagSlice ==
    ASSUME MergeInv, SliceInv, NEW k \in tags, CutTag(k)
    PROVE  SliceInv'
  <1>. DEFINE tag == RawSlices[k]
  <1>1. /\ pc = "slice" /\ pc' = "slice" /\ next <= Len(merged) /\ k \in FirstTag
        /\ tag.start < merged[next].start /\ tags' = tags \ {k} /\ at' = tag.stop
        /\ slices' = Append(Gap(tag.start), Slice(tag.start, tag.stop))
        /\ UNCHANGED <<merged, next>>
    BY DEF CutTag, SliceOf
  <1>2. /\ TagsInv /\ SlicingInv /\ at \in 0 .. Size /\ next \in 1 .. (Len(merged) + 1)
        /\ MergedInv /\ Len(merged) \in Nat /\ next \in Nat
    BY <1>1 DEF SliceInv, MergeInv, MergedInv
  <1>3. /\ k \in Tags /\ k \in DOMAIN RawSlices /\ k \in Nat
        /\ tag.start \in 0 .. Size /\ tag.stop \in 0 .. Size /\ tag.start \in Nat /\ tag.stop \in Nat
        /\ tag.start < tag.stop /\ at <= tag.start /\ at \in Nat
    BY <1>2, TagsAre, RawsAre DEF TagsInv
  <1>4. /\ Chain(slices', at')
        /\ Range(slices') = Range(slices) \union {Slice(tag.start, tag.stop)}
                                \union (IF at < tag.start THEN {Slice(at, tag.start)} ELSE {})
    BY <1>1, <1>2, <1>3, CutChain DEF SlicingInv
  <1>5. TagsInv'
    <2>1. \A j \in tags' : k < j /\ tag.stop <= RawSlices[j].start
      BY <1>1, <1>2, <1>3, FirstTagIs
    <2>. QED  BY <1>1, <1>2, <1>3, <2>1 DEF TagsInv
  <1>6. \A s \in Range(slices') : s.start = s.stop => \E j \in 1 .. (next - 1) : SameSlice(merged[j], s)
    BY <1>2, <1>3, <1>4 DEF SlicingInv, Slice
  <1>7. \A l \in Tags \ tags' : SliceOf(RawSlices[l]) \in Range(slices')
    BY <1>1, <1>2, <1>4 DEF SlicingInv, SliceOf
  <1>8. \A j \in 1 .. (next - 1) : Handled(j)'
    BY <1>1, <1>2, <1>4, SlicesGrow DEF SlicingInv
  <1>9. AtInv'
    <2>1. ASSUME NEW j \in next .. Len(merged) PROVE tag.start < merged[j].start
      <3>1. next \in DOMAIN merged /\ j \in DOMAIN merged
        BY <1>1, <1>2 DEF MergedInv
      <3>2. merged[next].start \in Nat /\ merged[j].start \in Nat
        BY <1>2, <3>1, PatchesAre DEF MergedInv
      <3>3. merged[next].start <= merged[j].start
        BY <1>2, <3>1, <3>2 DEF MergedInv, Before
      <3>. QED  BY <1>1, <1>3, <3>2, <3>3
    <2>. QED  BY <1>1, <1>3, <2>1 DEF AtInv
  <1>10. SlicingInv'
    BY <1>1, <1>4, <1>6, <1>7, <1>8, <1>9 DEF SlicingInv
  <1>. QED  BY <1>1, <1>2, <1>3, <1>5, <1>10 DEF SliceInv

\* The tags that are left after a patch begin where it ends, or later.
LEMMA PatchSparesTags ==
    ASSUME MergeInv, SliceInv, pc = "slice", next <= Len(merged),
           \A k \in FirstTag : RawSlices[k].start >= merged[next].start
    PROVE  LET p == merged[next]
               covered == {k \in FirstTag : SameSlice(RawSlices[k], p)}
           IN  /\ \A k \in tags \ covered : p.stop <= RawSlices[k].start
               /\ \A k \in covered : at <= p.start /\ k \in tags /\ \A j \in tags : j = k \/ k < j
  <1>. DEFINE p == merged[next]
              covered == {k \in FirstTag : SameSlice(RawSlices[k], p)}
  <1>1. TagsInv /\ MergedInv /\ next \in DOMAIN merged
    BY DEF SliceInv, MergeInv, MergedInv
  <1>2. p \in Patches /\ Certain(p) /\ p.start \in Nat /\ p.stop \in Nat /\ p.start <= p.stop
    BY <1>1, PatchesAre DEF MergedInv
  <1>3. ASSUME NEW k \in tags
        PROVE  /\ RawSlices[k].start >= p.start /\ RawSlices[k].start \in Nat /\ RawSlices[k].stop \in Nat
               /\ RawSlices[k].start < RawSlices[k].stop /\ k \in Tags
    <2>1. \A l \in tags : RawSlices[l].start \in Nat /\ RawSlices[l].stop \in Nat
              /\ RawSlices[l].start < RawSlices[l].stop /\ l \in Tags
      BY <1>1, TagsAre, RawsAre DEF TagsInv
    <2>2. PICK f \in FirstTag : f \in tags /\ (k = f \/ RawSlices[f].stop <= RawSlices[k].start)
      BY <1>1, FirstTagIs
    <2>3. RawSlices[f].start >= p.start
      OBVIOUS
    <2>. QED  BY <1>2, <2>1, <2>2, <2>3
  <1>4. ASSUME NEW k \in tags \ covered PROVE p.stop <= RawSlices[k].start
    <2>1. SUFFICES ASSUME SameSlice(RawSlices[k], p) PROVE FALSE
      BY <1>2, <1>3, CertainSparesTags
    <2>2. PICK f \in FirstTag : f \in tags /\ f # k /\ RawSlices[f].stop <= RawSlices[k].start
      BY <1>1, <2>1, FirstTagIs
    <2>. QED  BY <1>2, <1>3, <2>1, <2>2 DEF SameSlice
  <1>5. ASSUME NEW k \in covered
        PROVE  at <= p.start /\ k \in tags /\ \A j \in tags : j = k \/ k < j
    <2>1. k \in FirstTag /\ k \in tags /\ SameSlice(RawSlices[k], p)
      BY DEF FirstTag
    <2>. QED  BY <1>1, <2>1, FirstTagIs DEF TagsInv, SameSlice
  <1>. QED  BY <1>4, <1>5

\* Only an insertion into what another patch replaces is passed over.
LEMMA PassedOver ==
    ASSUME MergeInv, SliceInv, pc = "slice", next <= Len(merged), merged[next].start < at
    PROVE  /\ IsInsertion(merged[next])
           /\ \E i \in 1 .. (next - 1) :
                  /\ IsIn(merged[i])
                  /\ merged[i].start < merged[next].start /\ merged[next].start < merged[i].stop
  <1>. DEFINE p == merged[next]
  <1>1. MergedInv /\ next \in DOMAIN merged /\ next \in Nat /\ next \in next .. Len(merged)
        /\ at \in 0 .. Size /\ SlicingInv /\ Len(merged) \in Nat /\ DOMAIN merged = 1 .. Len(merged)
    BY DEF SliceInv, MergeInv, MergedInv
  <1>2. p \in Patches /\ Certain(p) /\ p.start \in Nat /\ p.stop \in Nat /\ p.start <= p.stop
    BY <1>1, PatchesAre DEF MergedInv
  <1>3. ~(at = 0)
    BY <1>2
  <1>4. ASSUME NEW k \in Tags \ tags, at = RawSlices[k].stop, RawSlices[k].start < p.start
        PROVE  FALSE
    BY <1>2, <1>4, NoneWithinTags
  <1>5. ASSUME NEW i \in 1 .. (next - 1), IsIn(merged[i]), at = merged[i].stop
        PROVE  /\ IsInsertion(p)
               /\ merged[i].start < p.start /\ p.start < merged[i].stop
    <2>1. /\ i \in DOMAIN merged /\ i < next /\ merged[i] \in Patches
          /\ merged[i].start \in Nat /\ merged[i].stop \in Nat /\ merged[i].start <= merged[i].stop
      BY <1>1, PatchesAre DEF MergedInv
    <2>2. Before(merged[i], p) /\ ~Overlap(merged[i], p)
      BY <1>1, <2>1 DEF MergedInv
    <2>3. ~(merged[i].start < p.stop /\ p.start < merged[i].stop /\ ~IsInsertion(merged[i]) /\ ~IsInsertion(p))
      BY <1>2, <2>1, <2>2, OverlapsAre
    <2>. QED  BY <1>2, <1>5, <2>1, <2>2, <2>3 DEF Before, IsInsertion
  <1>. QED  BY <1>1, <1>3, <1>4, <1>5 DEF SlicingInv, AtInv

LEMMA CutPatchSlice ==
    ASSUME MergeInv, SliceInv, CutPatch
    PROVE  SliceInv'
  <1>. DEFINE p == merged[next]
              covered == {k \in FirstTag : SameSlice(RawSlices[k], p)}
  <1>1. /\ pc = "slice" /\ pc' = "slice" /\ next <= Len(merged) /\ next' = next + 1
        /\ \A k \in FirstTag : RawSlices[k].start >= p.start
        /\ tags' = tags \ covered
        /\ UNCHANGED merged
    BY DEF CutPatch
  <1>2. /\ TagsInv /\ SlicingInv /\ at \in 0 .. Size /\ next \in 1 .. (Len(merged) + 1)
        /\ MergedInv /\ Len(merged) \in Nat /\ next \in Nat /\ DOMAIN merged = 1 .. Len(merged)
        /\ next \in DOMAIN merged /\ at \in Nat
    BY <1>1, SizeAssumption DEF SliceInv, MergeInv, MergedInv
  <1>3. /\ p \in Patches /\ p.start \in Nat /\ p.stop \in Nat /\ p.start <= p.stop
        /\ p.start \in 0 .. Size /\ p.stop \in 0 .. Size
    BY <1>2, PatchesAre DEF MergedInv
  <1>4. /\ \A k \in tags \ covered : p.stop <= RawSlices[k].start
        /\ \A k \in covered : at <= p.start /\ k \in tags /\ \A j \in tags : j = k \/ k < j
    BY <1>1, PatchSparesTags
  <1>5. next' \in 1 .. (Len(merged') + 1) /\ next' \in Nat /\ next' - 1 = next
        /\ 1 .. (next' - 1) = 1 .. (next - 1) \union {next}
    BY <1>1, <1>2
  <1>. HIDE DEF p, covered
  <1>6. CASE p.start < at
    <2>1. UNCHANGED <<slices, at>>
      BY <1>6 DEF CutPatch, p
    <2>2. covered = {}
      BY <1>2, <1>3, <1>4, <1>6
    <2>3. /\ IsInsertion(p)
          /\ \E i \in 1 .. (next - 1) :
                 /\ IsIn(merged[i])
                 /\ merged[i].start < p.start /\ p.start < merged[i].stop
      BY <1>1, <1>6, PassedOver DEF p
    <2>4. TagsInv'
      BY <1>1, <1>2, <2>1, <2>2 DEF TagsInv
    <2>5. ASSUME NEW j \in 1 .. (next' - 1) PROVE Handled(j)'
      <3>1. Handled(j)
        BY <1>5, <1>2, <2>3 DEF SlicingInv, Handled, p
      <3>. QED  BY <1>1, <1>2, <1>5, <2>1, <3>1, SlicesGrow
    <2>6. AtInv'
      <3>1. next' .. Len(merged') \subseteq next .. Len(merged)
        BY <1>1, <1>2
      <3>2. \A j : IsIn(merged[j])' <=> IsIn(merged[j])
        BY <1>1, <2>1 DEF IsIn, SliceOf, Slice
      <3>. QED  BY <1>1, <1>2, <1>5, <2>1, <2>2, <3>1, <3>2 DEF SlicingInv, AtInv
    <2>7. SlicingInv'
      BY <1>1, <1>2, <1>5, <2>1, <2>2, <2>5, <2>6 DEF SlicingInv
    <2>. QED  BY <1>1, <1>2, <1>5, <2>1, <2>4, <2>7 DEF SliceInv
  <1>7. CASE ~(p.start < at)
    <2>1. /\ slices' = Append(Gap(p.start), Slice(p.start, p.stop)) /\ at' = p.stop
      BY <1>7 DEF CutPatch, p, SliceOf
    <2>2. p.start = p.stop => Slice(p.start, p.stop) \notin Range(slices)
      <3>1. SUFFICES ASSUME p.start = p.stop, Slice(p.start, p.stop) \in Range(slices) PROVE FALSE
        OBVIOUS
      <3>2. PICK j \in 1 .. (next - 1) : SameSlice(merged[j], Slice(p.start, p.stop))
        BY <1>2, <3>1 DEF SlicingInv, Slice
      <3>3. j \in DOMAIN merged /\ j < next
        BY <1>2
      <3>4. Before(merged[j], p)
        BY <1>2, <3>3 DEF MergedInv, p
      <3>. QED  BY <1>3, <3>2, <3>4 DEF SameSlice, Slice, Before
    <2>3. /\ Chain(slices', at')
          /\ Range(slices') = Range(slices) \union {Slice(p.start, p.stop)}
                                  \union (IF at < p.start THEN {Slice(at, p.start)} ELSE {})
      BY <1>2, <1>3, <1>7, <2>1, <2>2, CutChain DEF SlicingInv
    <2>4. TagsInv'
      <3>1. \A k \in tags' : at' <= RawSlices[k].start
        BY <1>1, <1>4, <2>1
      <3>2. \A k \in Tags \ tags', j \in tags' : k < j
        BY <1>1, <1>2, <1>4 DEF TagsInv
      <3>. QED  BY <1>1, <1>2, <3>1, <3>2 DEF TagsInv
    <2>5. ASSUME NEW s \in Range(slices'), s.start = s.stop
          PROVE  \E j \in 1 .. (next' - 1) : SameSlice(merged[j], s)
      <3>1. CASE s \in Range(slices)
        BY <1>2, <1>5, <2>5, <3>1 DEF SlicingInv
      <3>2. CASE s = Slice(p.start, p.stop)
        BY <1>5, <3>2 DEF Slice, SameSlice, p
      <3>3. CASE at < p.start /\ s = Slice(at, p.start)
        BY <1>2, <1>3, <2>5, <3>3 DEF Slice
      <3>. QED  BY <2>3, <3>1, <3>2, <3>3
    <2>6. ASSUME NEW k \in Tags \ tags' PROVE SliceOf(RawSlices[k]) \in Range(slices')
      <3>1. CASE k \in covered
        BY <2>3, <3>1 DEF covered, SameSlice, SliceOf
      <3>2. CASE k \notin covered
        BY <1>1, <1>2, <2>3, <2>6, <3>2 DEF SlicingInv
      <3>. QED  BY <3>1, <3>2
    <2>8. ASSUME NEW j \in 1 .. (next' - 1) PROVE Handled(j)'
      <3>1. CASE j = next
        <4>1. (SliceOf(merged[j]) \in Range(slices))'
          BY <1>1, <2>3, <3>1 DEF SliceOf, Slice, p
        <4>. QED  BY <4>1 DEF Handled, IsIn
      <3>2. CASE j # next
        <4>1. Handled(j)
          BY <1>2, <1>5, <3>2 DEF SlicingInv
        <4>. QED  BY <1>1, <1>2, <1>5, <2>3, <4>1, SlicesGrow
      <3>. QED  BY <3>1, <3>2
    <2>9. AtInv'
      <3>1. (SliceOf(merged[next]) \in Range(slices'))
        BY <1>1, <2>3 DEF SliceOf, p
      <3>2. merged' = merged /\ next \in 1 .. (next' - 1) /\ at' = merged[next].stop
        BY <1>1, <1>5, <2>1 DEF p
      <3>. QED  BY <3>1, <3>2 DEF AtInv, IsIn, SliceOf, Slice
    <2>10. SlicingInv'
      BY <1>1, <2>3, <2>5, <2>6, <2>8, <2>9 DEF SlicingInv
    <2>. QED  BY <1>1, <1>3, <1>5, <2>1, <2>4, <2>10 DEF SliceInv
  <1>. QED  BY <1>6, <1>7

LEMMA SliceEndsSlice ==
    ASSUME MergeInv, SliceInv, SliceEnds
    PROVE  SliceInv'
  <1>1. /\ pc = "slice" /\ pc' = "build" /\ next > Len(merged) /\ slices' = Gap(Size)
        /\ UNCHANGED <<merged, next, tags, at, fixed>>
    BY DEF SliceEnds
  <1>2. /\ TagsInv /\ SlicingInv /\ at \in 0 .. Size /\ next \in 1 .. (Len(merged) + 1)
        /\ MergedInv /\ Len(merged) \in Nat /\ DOMAIN merged = 1 .. Len(merged)
        /\ Size \in 0 .. Size /\ Size \in Nat /\ at \in Nat /\ at <= Size
    BY <1>1, SizeAssumption DEF SliceInv, MergeInv, MergedInv
  <1>3. next = Len(merged) + 1 /\ 1 .. (next - 1) = DOMAIN merged /\ next \in Nat
    BY <1>1, <1>2
  <1>4. /\ Chain(slices', Size)
        /\ Range(slices') = Range(slices) \union (IF at < Size THEN {Slice(at, Size)} ELSE {})
        /\ at < Size => slices' # <<>>
    BY <1>1, <1>2, GapChain DEF SlicingInv
  <1>5. slices' # <<>>
    <2>1. CASE at < Size
      BY <1>4, <2>1
    <2>2. CASE ~(at < Size)
      <3>1. 1 \in DOMAIN RawSlices
        BY SlicesAssumption
      <3>2. at # 0
        <4>1. /\ RawSlices[1].start \in Nat /\ RawSlices[1].stop \in 0 .. Size
              /\ RawSlices[1].start < RawSlices[1].stop
          BY <3>1, RawsAre
        <4>. QED  BY <1>2, <2>2, <4>1
      <3>3. slices # <<>> /\ slices' = slices
        BY <1>1, <1>2, <2>2, <3>2 DEF SlicingInv, Chain, Gap
      <3>. QED  BY <3>3
    <2>. QED  BY <2>1, <2>2
  <1>6. \A j \in DOMAIN merged : Handled(j)'
    BY <1>1, <1>2, <1>3, <1>4, SlicesGrow DEF SlicingInv
  <1>7. \A j \in DOMAIN merged : merged[j].start <= at /\ merged[j].stop <= at
    <2>1. ASSUME NEW j \in DOMAIN merged, IsIn(merged[j]) PROVE merged[j].stop <= at
      BY <1>2, <2>1, ChainEnds DEF SlicingInv, IsIn, SliceOf, Slice
    <2>2. ASSUME NEW j \in DOMAIN merged PROVE merged[j].stop <= at
      <3>1. merged[j].start \in Nat /\ merged[j].stop \in Nat
        BY <1>2, PatchesAre DEF MergedInv
      <3>2. CASE IsIn(merged[j])
        BY <2>1, <3>2
      <3>3. CASE ~IsIn(merged[j])
        <4>1. PICK i \in DOMAIN merged : IsIn(merged[i]) /\ merged[j].start < merged[i].stop
          BY <1>2, <1>3, <3>3 DEF SlicingInv, Handled
        <4>2. merged[i].stop \in Nat /\ merged[i].stop <= at /\ IsInsertion(merged[j])
          BY <1>2, <1>3, <2>1, <3>3, <4>1, PatchesAre DEF MergedInv, SlicingInv, Handled
        <4>. QED  BY <1>2, <3>1, <4>1, <4>2 DEF IsInsertion
      <3>. QED  BY <3>2, <3>3
    <2>. QED  BY <1>2, <2>2, PatchesAre DEF MergedInv
  <1>8. ASSUME NEW k \in Tags
        PROVE  \/ SliceOf(RawSlices[k]) \in Range(slices')
               \/ \E s \in Range(slices') :
                      /\ s.start <= RawSlices[k].start /\ RawSlices[k].stop <= s.stop
                      /\ \A j \in DOMAIN merged : ~SameSlice(merged[j], s)
    <2>1. CASE k \notin tags
      BY <1>2, <1>4, <2>1 DEF SlicingInv
    <2>2. CASE k \in tags
      <3>1. /\ RawSlices[k].start \in Nat /\ RawSlices[k].stop \in 0 .. Size
            /\ RawSlices[k].start < RawSlices[k].stop
        BY TagsAre, RawsAre
      <3>2. at <= RawSlices[k].start /\ at < Size
        BY <1>2, <2>2, <3>1 DEF TagsInv
      <3>3. Slice(at, Size) \in Range(slices')
        BY <1>4, <3>2
      <3>4. \A j \in DOMAIN merged : ~SameSlice(merged[j], Slice(at, Size))
        BY <1>2, <1>7, <3>2, PatchesAre DEF MergedInv, SameSlice, Slice
      <3>. QED  BY <3>1, <3>2, <3>3, <3>4 DEF Slice
    <2>. QED  BY <2>1, <2>2
  <1>9. SlicedInv'
    BY <1>1, <1>3, <1>4, <1>5, <1>6, <1>8 DEF SlicedInv
  <1>10. TagsInv'
    BY <1>1, <1>2 DEF TagsInv
  <1>. QED  BY <1>1, <1>2, <1>9, <1>10 DEF SliceInv

LEMMA NextSlice == MergeInv /\ MergeInv' /\ SliceInv /\ [Next]_vars => SliceInv'
  <1>. SUFFICES ASSUME MergeInv, MergeInv', SliceInv, [Next]_vars PROVE SliceInv'
    OBVIOUS
  <1>1. Len(merged') \in Nat
    BY DEF MergeInv, MergedInv
  <1>2. ASSUME pc \in {"iterate", "merge"}, pc' \in {"iterate", "merge"}, UNCHANGED slicing
        PROVE  SliceInv'
    <2>1. TagsInv'
      BY <1>2 DEF slicing, SliceInv, TagsInv
    <2>. QED  BY <1>1, <1>2, <2>1 DEF slicing, SliceInv
  <1>3. ASSUME NEW p \in Patches, Yield(p) PROVE SliceInv'
    BY <1>2, <1>3 DEF Yield
  <1>4. CASE EndVariant
    BY <1>2, <1>4 DEF EndVariant
  <1>5. ASSUME NEW place \in pending, MergePatch(place) PROVE SliceInv'
    BY <1>2, <1>5 DEF MergePatch
  <1>6. CASE MergeEnds
    <2>1. /\ pc = "merge" /\ pc' = "slice" /\ UNCHANGED <<merged, next, tags, at, slices>>
          /\ next = 1 /\ tags = Tags /\ at = 0 /\ slices = <<>>
      BY <1>6 DEF MergeEnds, slicing, SliceInv
    <2>2. TagsInv'
      BY <2>1 DEF SliceInv, TagsInv
    <2>3. Chain(slices', at') /\ Range(slices') = {}
      BY <2>1 DEF Chain, Range, IsInjective
    <2>4. SlicingInv'
      BY <2>1, <2>3 DEF SlicingInv, AtInv
    <2>. QED  BY <1>1, <2>1, <2>2, <2>4, SizeAssumption DEF SliceInv
  <1>7. ASSUME NEW k \in tags, CutTag(k) PROVE SliceInv'
    BY <1>7, CutTagSlice
  <1>8. CASE CutPatch
    BY <1>8, CutPatchSlice
  <1>9. CASE SliceEnds
    BY <1>9, SliceEndsSlice
  <1>10. ASSUME UNCHANGED <<merged, slicing>> PROVE (TagsInv => TagsInv') /\ (SlicedInv => SlicedInv')
                                                    /\ (SlicingInv => SlicingInv')
    <2>1. UNCHANGED <<merged, next, tags, at, slices>>
      BY <1>10 DEF slicing
    <2>2. (\A p : IsIn(p)' <=> IsIn(p)) /\ (\A j : Handled(j)' <=> Handled(j))
      BY <2>1 DEF IsIn, SliceOf, Slice, Handled, IsInsertion
    <2>3. AtInv => AtInv'
      BY <2>1, <2>2 DEF AtInv
    <2>. QED  BY <2>1, <2>2, <2>3 DEF TagsInv, SlicedInv, SlicingInv
  <1>11. CASE Build
    <2>1. /\ pc = "build" /\ pc' = "done" /\ UNCHANGED <<merged, slicing>>
          /\ fixed' = [i \in DOMAIN slices |-> [start |-> slices[i].start, stop |-> slices[i].stop,
                                                put |-> PutAt(slices[i])]]
      BY <1>11 DEF Build
    <2>2. UNCHANGED <<next, at, slices>> /\ \A s : PutAt(s)' = PutAt(s)
      BY <2>1 DEF slicing, PutAt, SameSlice
    <2>. QED  BY <1>1, <1>10, <2>1, <2>2 DEF SliceInv
  <1>12. CASE UNCHANGED vars
    <2>1. UNCHANGED <<pc, merged, slicing, fixed>>
      BY <1>12 DEF vars
    <2>2. UNCHANGED <<next, at, slices, tags>> /\ \A s : PutAt(s)' = PutAt(s)
      BY <2>1 DEF slicing, PutAt, SameSlice
    <2>. QED  BY <1>10, <2>1, <2>2 DEF SliceInv
  <1>. QED  BY <1>3, <1>4, <1>5, <1>6, <1>7, <1>8, <1>9, <1>11, <1>12 DEF Next, Done

\* The slices are a chain up to source_idx, hold each tag that is behind and the
\* slice of each patch, and end with the source.
THEOREM SliceInvariance == Spec => []SliceInv
  <1>. QED  BY MergeInvariance, InitSlice, NextSlice, PTL DEF Spec
-----------------------------------------------------------------------------
(* What was built.                                                         *)

LEMMA MergedAre ==
    ASSUME MergeInv, NEW i \in DOMAIN merged
    PROVE  /\ i \in Nat
           /\ merged[i] \in Patches /\ merged[i] \in yielded /\ Certain(merged[i])
           /\ merged[i].start \in Nat /\ merged[i].stop \in Nat
           /\ merged[i].start <= merged[i].stop
  <1>1. merged[i] \in Patches /\ merged[i] \in yielded /\ Certain(merged[i]) /\ i \in Nat
    BY DEF MergeInv, MergedInv
  <1>. QED  BY <1>1, PatchesAre

\* No two merged patches have one slice.
LEMMA MergedApart ==
    ASSUME MergeInv, NEW i \in DOMAIN merged, NEW j \in DOMAIN merged,
           SameSlice(merged[i], merged[j])
    PROVE  i = j
  <1>1. /\ i \in Nat /\ j \in Nat
        /\ merged[i].start \in Nat /\ merged[i].stop \in Nat
        /\ merged[j].start \in Nat /\ merged[j].stop \in Nat
    BY MergedAre
  <1>2. ~(i < j) /\ ~(j < i)
    BY <1>1 DEF MergeInv, MergedInv, Before, SameSlice
  <1>. QED  BY <1>1, <1>2

\* What is put in place of a slice is every merged patch of it.
LEMMA PutIs ==
    ASSUME MergeInv, NEW s
    PROVE  PutAt(s) = {p \in Range(merged) : SameSlice(p, s)}
  <1>1. ASSUME NEW p \in PutAt(s) PROVE p \in Range(merged) /\ SameSlice(p, s)
    BY <1>1 DEF PutAt, Range
  <1>2. ASSUME NEW p \in Range(merged), SameSlice(p, s) PROVE p \in PutAt(s)
    <2>1. PICK i \in DOMAIN merged : merged[i] = p
      BY <1>2 DEF Range
    <2>2. ASSUME NEW j \in DOMAIN merged, SameSlice(merged[j], s) PROVE i <= j
      <3>1. SameSlice(merged[i], merged[j])
        BY <1>2, <2>1, <2>2 DEF SameSlice
      <3>. QED  BY <3>1, MergedApart, MergedAre
    <2>. QED  BY <1>2, <2>1, <2>2 DEF PutAt
  <1>. QED  BY <1>1, <1>2

LEMMA SlicesAre ==
    ASSUME Chain(slices, Size), NEW i \in DOMAIN slices
    PROVE  /\ slices[i] \in SliceSet /\ i \in Nat
           /\ slices[i].start \in Nat /\ slices[i].stop \in Nat
           /\ slices[i].start <= slices[i].stop
           /\ \A p : SameSlice(p, slices[i]) <=> SliceOf(p) = slices[i]
  <1>1. slices[i] \in SliceSet /\ i \in Nat /\ slices[i].start <= slices[i].stop
    BY DEF Chain
  <1>2. slices[i].start \in Nat /\ slices[i].stop \in Nat
    BY <1>1, SizeAssumption DEF SliceSet
  <1>3. slices[i] = [start |-> slices[i].start, stop |-> slices[i].stop]
    BY <1>1 DEF SliceSet
  <1>4. ASSUME NEW p PROVE SameSlice(p, slices[i]) <=> SliceOf(p) = slices[i]
    BY <1>3 DEF SameSlice, SliceOf, Slice
  <1>. QED  BY <1>1, <1>2, <1>4

\* The pieces of the fixed source, and that a patch is put if its slice is in.
LEMMA PiecesAre ==
    ASSUME MergeInv, SliceInv, pc = "done"
    PROVE  /\ Chain(slices, Size) /\ slices # <<>>
           /\ DOMAIN fixed = DOMAIN slices /\ Len(fixed) = Len(slices) /\ fixed # <<>>
           /\ \A i \in DOMAIN slices :
                  /\ fixed[i].start = slices[i].start
                  /\ fixed[i].stop = slices[i].stop
                  /\ fixed[i].put = {p \in Range(merged) : SameSlice(p, slices[i])}
           /\ Put = {p \in Range(merged) : IsIn(p)}
  <1>1. /\ Chain(slices, Size) /\ slices # <<>>
        /\ fixed = [i \in DOMAIN slices |-> [start |-> slices[i].start, stop |-> slices[i].stop,
                                             put |-> PutAt(slices[i])]]
    BY DEF SliceInv, SlicedInv
  <1>2. /\ DOMAIN fixed = DOMAIN slices
        /\ \A i \in DOMAIN slices :
               /\ fixed[i].start = slices[i].start
               /\ fixed[i].stop = slices[i].stop
               /\ fixed[i].put = {p \in Range(merged) : SameSlice(p, slices[i])}
    BY <1>1, PutIs
  <1>3. Len(slices) \in Nat /\ DOMAIN slices = 1 .. Len(slices) /\ 1 \in DOMAIN slices
    BY <1>1 DEF Chain
  <1>4. Len(fixed) = Len(slices) /\ fixed # <<>>
    BY <1>1, <1>2, <1>3
  <1>5. Put = {p \in Range(merged) : IsIn(p)}
    <2>1. ASSUME NEW p \in Put PROVE p \in Range(merged) /\ IsIn(p)
      <3>1. PICK i \in DOMAIN slices : p \in Range(merged) /\ SameSlice(p, slices[i])
        BY <1>2, <2>1 DEF Put
      <3>. QED  BY <1>1, <3>1, SlicesAre DEF IsIn, Range
    <2>2. ASSUME NEW p \in Range(merged), IsIn(p) PROVE p \in Put
      <3>1. PICK i \in DOMAIN slices : slices[i] = SliceOf(p)
        BY <2>2 DEF IsIn, Range
      <3>2. p \in fixed[i].put
        BY <1>1, <1>2, <2>2, <3>1, SlicesAre
      <3>. QED  BY <1>2, <3>2 DEF Put
    <2>. QED  BY <2>1, <2>2
  <1>. QED  BY <1>1, <1>2, <1>4, <1>5

\* A merged patch has its slice in, or inserts into a patch that has.
LEMMA HandledAtEnd ==
    ASSUME MergeInv, SliceInv, pc = "done", NEW p \in Range(merged)
    PROVE  \/ IsIn(p)
           \/ /\ IsInsertion(p)
              /\ \E q \in Range(merged) : IsIn(q) /\ q.start < p.start /\ p.start < q.stop
  <1>1. SlicedInv /\ Len(merged) \in Nat /\ DOMAIN merged = 1 .. Len(merged)
    BY DEF SliceInv, MergeInv, MergedInv
  <1>2. PICK j \in DOMAIN merged : merged[j] = p
    BY DEF Range
  <1>3. Handled(j) /\ 1 .. (next - 1) = DOMAIN merged
    BY <1>1, <1>2 DEF SlicedInv
  <1>. QED  BY <1>2, <1>3 DEF Handled, Range

LEMMA InAreApart ==
    ASSUME MergeInv, Chain(slices, Size), NEW p \in Range(merged), NEW q \in Range(merged),
           IsIn(p), IsIn(q), ~SameSlice(p, q)
    PROVE  p.stop <= q.start \/ q.stop <= p.start
  <1>1. PICK i \in DOMAIN slices : slices[i] = SliceOf(p)
    BY DEF IsIn, Range
  <1>2. PICK j \in DOMAIN slices : slices[j] = SliceOf(q)
    BY DEF IsIn, Range
  <1>3. SameSlice(p, slices[i]) /\ SameSlice(q, slices[j]) /\ i \in Nat /\ j \in Nat
    BY <1>1, <1>2, SlicesAre
  <1>4. i # j
    BY <1>3 DEF SameSlice
  <1>5. i < j \/ j < i
    BY <1>3, <1>4
  <1>6. \A k, l \in DOMAIN slices : k < l => slices[k].stop <= slices[l].start
    BY DEF Chain
  <1>. QED  BY <1>3, <1>5, <1>6 DEF SameSlice

LEMMA RangeIs ==
    ASSUME MergeInv, NEW p \in Range(merged)
    PROVE  /\ p \in Patches /\ p \in yielded /\ Certain(p)
           /\ p.start \in Nat /\ p.stop \in Nat /\ p.start <= p.stop
  BY MergedAre DEF Range

\* The patches put are those that collide with no other.
LEMMA PutIsApplied ==
    ASSUME MergeInv, SliceInv, pc = "done"
    PROVE  Put = Applied
  <1>1. Chain(slices, Size) /\ Put = {p \in Range(merged) : IsIn(p)}
    BY PiecesAre
  <1>2. ASSUME NEW p \in Range(merged), IsIn(p), NEW q \in Range(merged), q # p, Collide(p, q)
        PROVE  FALSE
    <2>1. /\ p.start \in Nat /\ p.stop \in Nat /\ p.start <= p.stop
          /\ q.start \in Nat /\ q.stop \in Nat /\ q.start <= q.stop
      BY RangeIs
    <2>2. ~SameSlice(p, q)
      BY <1>2, MergedApart DEF Range
    <2>3. q.start < q.stop /\ p.start < q.stop /\ (q.start < p.stop)
      <3>1. CASE \E i \in 0..(Size - 1) : p.start <= i /\ i < p.stop /\ q.start <= i /\ i < q.stop
        <4>1. PICK i \in 0..(Size - 1) : p.start <= i /\ i < p.stop /\ q.start <= i /\ i < q.stop
          BY <3>1
        <4>2. i \in Nat
          BY <4>1, SizeAssumption
        <4>. QED  BY <2>1, <4>1, <4>2
      <3>2. CASE IsInsertion(p) /\ q.start < p.start /\ p.start < q.stop
        BY <2>1, <3>2 DEF IsInsertion
      <3>. QED  BY <1>2, <2>2, <3>1, <3>2 DEF Collide
    <2>4. IsIn(q)
      BY <2>1, <2>3, HandledAtEnd DEF IsInsertion
    <2>. QED  BY <1>1, <1>2, <2>1, <2>2, <2>3, <2>4, InAreApart
  <1>3. ASSUME NEW p \in Applied PROVE IsIn(p)
    <2>1. SUFFICES ASSUME ~IsIn(p) PROVE FALSE
      OBVIOUS
    <2>2. p \in Range(merged)
      BY <1>3 DEF Applied
    <2>3. PICK q \in Range(merged) : IsIn(q) /\ IsInsertion(p) /\ q.start < p.start /\ p.start < q.stop
      BY <2>1, <2>2, HandledAtEnd
    <2>4. Collide(p, q) /\ q # p
      BY <2>1, <2>3 DEF Collide
    <2>. QED  BY <1>3, <2>3, <2>4 DEF Applied
  <1>. QED  BY <1>1, <1>2, <1>3 DEF Applied

\* FixedIsSourcePatched at the end of the slicing.
LEMMA Patched == MergeInv /\ SliceInv => FixedIsSourcePatched
  <1>. SUFFICES ASSUME MergeInv, SliceInv, pc = "done"
                PROVE  /\ Tile(fixed, 0, Size)
                       /\ IsInjective(fixed)
                       /\ \A i \in DOMAIN fixed : \A p \in fixed[i].put : SameSlice(p, fixed[i])
                       /\ Put = Applied
    BY DEF FixedIsSourcePatched
  <1>1. /\ Chain(slices, Size) /\ slices # <<>>
        /\ DOMAIN fixed = DOMAIN slices /\ Len(fixed) = Len(slices) /\ fixed # <<>>
        /\ \A i \in DOMAIN slices :
               /\ fixed[i].start = slices[i].start
               /\ fixed[i].stop = slices[i].stop
               /\ fixed[i].put = {p \in Range(merged) : SameSlice(p, slices[i])}
    BY PiecesAre
  <1>2. Tile(fixed, 0, Size)
    <2>1. Tile(slices, 0, Size) /\ Len(slices) \in Nat /\ DOMAIN slices = 1 .. Len(slices)
          /\ Len(slices) >= 1
      BY <1>1 DEF Chain
    <2>2. 1 \in DOMAIN slices /\ Len(slices) \in DOMAIN slices
          /\ \A i \in DOMAIN slices : i > 1 => i - 1 \in DOMAIN slices
      BY <2>1
    <2>. QED  BY <1>1, <2>1, <2>2 DEF Tile
  <1>3. IsInjective(fixed)
    <2>1. ASSUME NEW i \in DOMAIN fixed, NEW j \in DOMAIN fixed, fixed[i] = fixed[j]
          PROVE  i = j
      <3>1. SameSlice(slices[i], slices[j])
        BY <1>1, <2>1 DEF SameSlice
      <3>2. slices[i] = slices[j]
        BY <1>1, <2>1, <3>1, SlicesAre DEF SliceSet, SameSlice
      <3>. QED  BY <1>1, <2>1, <3>2 DEF Chain, IsInjective
    <2>. QED  BY <2>1 DEF IsInjective
  <1>4. \A i \in DOMAIN fixed : \A p \in fixed[i].put : SameSlice(p, fixed[i])
    BY <1>1 DEF SameSlice
  <1>. QED  BY <1>2, <1>3, <1>4, PutIsApplied

\* A tag's slice holds the tag or a source fix of it; or the slice around it
\* was cut for no patch.
LEMMA TagsStand == MergeInv /\ SliceInv => TagsIntact
  <1>. SUFFICES ASSUME MergeInv, SliceInv, pc = "done", NEW k \in Tags
                PROVE  \E i \in DOMAIN fixed :
                           \/ /\ fixed[i].put = {}
                              /\ fixed[i].start <= RawSlices[k].start
                              /\ RawSlices[k].stop <= fixed[i].stop
                           \/ \E p \in fixed[i].put : p.source /\ SameSlice(p, RawSlices[k])
    BY DEF TagsIntact
  <1>1. /\ Chain(slices, Size) /\ DOMAIN fixed = DOMAIN slices
        /\ \A i \in DOMAIN slices :
               /\ fixed[i].start = slices[i].start
               /\ fixed[i].stop = slices[i].stop
               /\ fixed[i].put = {p \in Range(merged) : SameSlice(p, slices[i])}
    BY PiecesAre
  <1>2. /\ RawSlices[k].start \in Nat /\ RawSlices[k].stop \in Nat
        /\ RawSlices[k].start < RawSlices[k].stop
    BY TagsAre, RawsAre
  <1>3. CASE SliceOf(RawSlices[k]) \in Range(slices)
    <2>1. PICK i \in DOMAIN slices : slices[i] = SliceOf(RawSlices[k])
      BY <1>3 DEF Range
    <2>2. slices[i].start = RawSlices[k].start /\ slices[i].stop = RawSlices[k].stop
      BY <2>1 DEF SliceOf, Slice
    <2>3. CASE fixed[i].put = {}
      BY <1>1, <1>2, <2>2, <2>3
    <2>4. CASE fixed[i].put # {}
      <3>1. PICK p \in fixed[i].put : TRUE
        BY <2>4
      <3>2. p \in Range(merged) /\ p.start = RawSlices[k].start /\ p.stop = RawSlices[k].stop
        BY <1>1, <2>2, <3>1 DEF SameSlice
      <3>3. p.source
        BY <1>2, <3>2, RangeIs, CertainSparesTags
      <3>. QED  BY <1>1, <3>1, <3>2, <3>3 DEF SameSlice
    <2>. QED  BY <2>3, <2>4
  <1>4. CASE SliceOf(RawSlices[k]) \notin Range(slices)
    <2>1. PICK s \in Range(slices) :
              /\ s.start <= RawSlices[k].start /\ RawSlices[k].stop <= s.stop
              /\ \A j \in DOMAIN merged : ~SameSlice(merged[j], s)
      BY <1>4 DEF SliceInv, SlicedInv
    <2>2. PICK i \in DOMAIN slices : slices[i] = s
      BY DEF Range
    <2>3. fixed[i].put = {}
      BY <1>1, <2>1, <2>2 DEF Range
    <2>. QED  BY <1>1, <2>1, <2>2, <2>3
  <1>. QED  BY <1>3, <1>4

\* A patch worth keeping is in a buffer, and so is matched or overlapped by a
\* merged patch; if that is not put, it is an insertion into one that is.
LEMMA Survives == MergeInv /\ SliceInv => PatchesSurvive
  <1>. SUFFICES ASSUME MergeInv, SliceInv, pc = "done", NEW p \in yielded, WorthKeeping(p)
                PROVE  \E q \in Put : Collide(p, q)
    BY DEF PatchesSurvive, WorthKeeping
  <1>1. p \in Patches /\ BufferInv /\ PendingInv /\ pending = {}
    BY DEF MergeInv, BufferInv, PendingInv
  <1>2. Put = {q \in Range(merged) : IsIn(q)}
    BY PiecesAre
  <1>3. Certain(p)
    BY <1>1, WorthIsCertain
  <1>4. PICK v \in DOMAIN buffers : \E i \in DOMAIN buffers[v] : Duplicate(buffers[v][i], p)
    BY <1>1, <1>3 DEF BufferInv
  <1>5. PICK i \in DOMAIN buffers[v] : Duplicate(buffers[v][i], p)
    BY <1>4
  <1>. DEFINE place == <<v, i>>
              b == buffers[v][i]
  <1>6. place \in Places(buffers) /\ PatchAt(place) = b /\ SameSlice(b, p)
    BY <1>5 DEF Places, PatchAt, Duplicate
  <1>7. PICK j \in DOMAIN merged : SameSlice(merged[j], b) \/ Overlap(merged[j], b)
    BY <1>1, <1>6 DEF PendingInv
  <1>. DEFINE m == merged[j]
  <1>8. m \in Range(merged) /\ (SameSlice(m, p) \/ Overlap(m, p))
    BY <1>6, <1>7 DEF Range, SameSlice, Overlap
  <1>. HIDE DEF m
  <1>9. /\ m \in Patches /\ m.start \in Nat /\ m.stop \in Nat /\ m.start <= m.stop
        /\ p.start \in Nat /\ p.stop \in Nat /\ p.start <= p.stop /\ p.stop \in 0 .. Size
    BY <1>1, <1>8, RangeIs, PatchesAre
  <1>10. CASE IsIn(m)
    <2>1. CASE SameSlice(m, p)
      BY <1>2, <1>8, <1>10, <2>1 DEF Collide, SameSlice
    <2>2. CASE Overlap(m, p)
      <3>1. m.start < p.stop /\ p.start < m.stop /\ m.start < m.stop /\ p.start < p.stop
        BY <1>1, <1>9, <2>2, OverlapsAre DEF IsInsertion
      <3>. DEFINE c == IF m.start >= p.start THEN m.start ELSE p.start
      <3>2. c \in 0 .. (Size - 1) /\ p.start <= c /\ c < p.stop /\ m.start <= c /\ c < m.stop
        BY <1>9, <3>1, SizeAssumption
      <3>. HIDE DEF c
      <3>. QED  BY <1>2, <1>8, <1>10, <3>2 DEF Collide
    <2>. QED  BY <1>8, <2>1, <2>2
  <1>11. CASE ~IsIn(m)
    <2>1. PICK q \in Range(merged) : IsIn(q) /\ IsInsertion(m) /\ q.start < m.start /\ m.start < q.stop
      BY <1>8, <1>11, HandledAtEnd
    <2>2. SameSlice(m, p)
      BY <1>1, <1>8, <1>9, <2>1, OverlapsAre
    <2>. QED  BY <1>2, <2>1, <2>2 DEF Collide, SameSlice, IsInsertion
  <1>. QED  BY <1>10, <1>11

LEMMA Types == MergeInv /\ SliceInv => TypeOK
  <1>. SUFFICES ASSUME MergeInv, SliceInv PROVE TypeOK
    OBVIOUS
  <1>1. /\ BufferInv /\ MergedInv /\ PendingInv
        /\ pc \in {"iterate", "merge", "slice", "build", "done"}
    BY DEF MergeInv
  <1>2. \A w \in DOMAIN buffers : Range(buffers[w]) \subseteq yielded
    BY <1>1 DEF BufferInv, Range
  <1>3. Range(merged) \subseteq yielded
    BY <1>1 DEF MergedInv, Range
  <1>4. ASSUME NEW i \in DOMAIN merged, NEW j \in DOMAIN merged, i < j
        PROVE  merged[i].start <= merged[j].start /\ ~SameSlice(merged[i], merged[j])
    <2>1. Before(merged[i], merged[j])
      BY <1>1, <1>4 DEF MergedInv
    <2>2. /\ merged[i].start \in Nat /\ merged[i].stop \in Nat
          /\ merged[j].start \in Nat /\ merged[j].stop \in Nat
      BY MergedAre
    <2>. QED  BY <2>1, <2>2 DEF Before, SameSlice
  <1>5. next \in 1 .. (Len(merged) + 1) /\ tags \subseteq Tags /\ at \in 0 .. Size
    BY DEF SliceInv, TagsInv
  <1>. QED  BY <1>1, <1>2, <1>3, <1>4, <1>5 DEF TypeOK, BufferInv, PendingInv

-----------------------------------------------------------------------------
\* The buffers and patches are of their kinds, and what goes into the slicing
\* is sorted and holds no slice twice.
THEOREM TypeCorrect == Spec => []TypeOK
  <1>. QED  BY MergeInvariance, SliceInvariance, Types, PTL

\* The fixed source is the source, each applied patch once in place of its
\* slice, and nothing else changed.
THEOREM FixedIsPatched == Spec => []FixedIsSourcePatched
  <1>. QED  BY MergeInvariance, SliceInvariance, Patched, PTL

\* Each template tag is in the fixed source unbroken, or a source fix of
\* exactly that tag is.
THEOREM TagsStay == Spec => []TagsIntact
  <1>. QED  BY MergeInvariance, SliceInvariance, TagsStand, PTL

\* A patch on literal source, or a source fix, is lost only to a patch in the
\* fixed source that it collides with.
THEOREM NoPatchIsLost == Spec => []PatchesSurvive
  <1>. QED  BY MergeInvariance, SliceInvariance, Survives, PTL
=============================================================================
