----------------------------- MODULE NoQaProofs -----------------------------
(***************************************************************************)
(* Proofs about NoQa and LintVariants, for any comments, any rendering of  *)
(* them and any number of violations.                                      *)
(*                                                                         *)
(* NoQa: what get_violations keeps is what the comments rendered do not    *)
(* ask to ignore, and the directives it warns of as unused can go, all of  *)
(* them together. What the mask does to a violation is first put in terms  *)
(* of the comments (IgnoredAsAsked, UsedSuffice): from the directives      *)
(* passed, sorted by line, the last one counts. The invariant then says    *)
(* that each violation was dropped by the mask or is still listed, and     *)
(* that what was marked for it stays marked.                               *)
(*                                                                         *)
(* LintVariants: what is reported of the variants of a file is what the    *)
(* comments of the source do not ask to ignore. What the code's lists hold *)
(* comes first (concatenated, flattened, deduplicated and sorted), then    *)
(* the invariant: what is listed after each variant, and which mask will   *)
(* filter it. The operators on masks are those of IgnoreMask in both, so   *)
(* that IgnoredAsAsked serves both.                                        *)
(***************************************************************************)
EXTENDS NoQa, LintVariants, FiniteSetTheorems, SequenceTheorems, WellFoundedInduction, TLAPS

-----------------------------------------------------------------------------
(* Sets of numbers and of directives have a first and a last element.      *)

LEMMA LeastNumber ==
    ASSUME NEW S \in SUBSET Nat, S # {}
    PROVE  \E x \in S : \A y \in S : x <= y
  <1>1. PICK x \in S : \A y \in S : ~(<<y, x>> \in OpToRel(<, Nat))
    BY WFMin, NatLessThanWellFounded
  <1>2. \A y \in S : ~(y < x)
    BY <1>1 DEF OpToRel
  <1>. QED  BY <1>2

LEMMA GreatestNumber ==
    ASSUME NEW n \in Nat, NEW S \in SUBSET Nat, S # {}, \A x \in S : x <= n
    PROVE  \E x \in S : \A y \in S : y <= x
  <1>. DEFINE T == {n - x : x \in S}
  <1>1. T \in SUBSET Nat /\ T # {}
    <2>1. \A x \in S : n - x \in Nat
      OBVIOUS
    <2>. QED  BY <2>1
  <1>2. PICK t \in T : \A u \in T : t <= u
    <2>. HIDE DEF T
    <2>. QED  BY <1>1, LeastNumber
  <1>3. PICK x \in S : t = n - x
    OBVIOUS
  <1>4. ASSUME NEW y \in S PROVE y <= x
    <2>1. n - x <= n - y
      BY <1>2, <1>3
    <2>. QED  BY <2>1
  <1>. QED  BY <1>4

LEMMA LinesAreNumbers ==
    /\ Cardinality(Lines) \in Nat
    /\ Lines \subseteq Nat
  <1>1. Cardinality(Lines) \in Nat
    BY LinesAssumption, FS_CardinalityType
  <1>. QED  BY <1>1, LinesAssumption

\* A mask: directives of lines, made of n comments at most.
Masked(m, n) ==
    /\ n \in Nat
    /\ DOMAIN m \subseteq 1 .. n
    /\ \A i \in DOMAIN m : m[i].line \in Nat

LEMMA FirstExists ==
    ASSUME NEW m, NEW n, Masked(m, n), NEW S \in SUBSET DOMAIN m, S # {}
    PROVE  First(S) # {}
  <1>1. S \in SUBSET Nat
    BY DEF Masked
  <1>2. PICK i \in S : \A j \in S : i <= j
    BY <1>1, LeastNumber
  <1>. QED  BY <1>2 DEF First

LEMMA LastExists ==
    ASSUME NEW m, NEW n, Masked(m, n), NEW S \in SUBSET DOMAIN m, S # {},
           NEW top \in Nat, \A i \in S : m[i].line <= top
    PROVE  \E i \in S : \A j \in S : j = i \/ Precedes(m, j, i)
  <1>. DEFINE L == {m[i].line : i \in S}
  <1>1. PICK l \in L : \A k \in L : k <= l
    <2>1. L \in SUBSET Nat /\ L # {} /\ \A k \in L : k <= top
      BY DEF Masked
    <2>. HIDE DEF L
    <2>. QED  BY <2>1, GreatestNumber
  <1>. DEFINE T == {i \in S : m[i].line = l}
  <1>2. PICK i \in T : \A j \in T : j <= i
    <2>1. T \in SUBSET Nat /\ T # {} /\ \A j \in T : j <= n
      BY DEF Masked
    <2>. HIDE DEF T
    <2>2. n \in Nat
      BY DEF Masked
    <2>. QED  BY <2>1, <2>2, GreatestNumber
  <1>3. ASSUME NEW j \in S PROVE j = i \/ Precedes(m, j, i)
    <2>1. m[j].line <= l /\ m[i].line = l /\ m[j].line \in Nat /\ l \in Nat
      BY <1>1 DEF Masked
    <2>2. i \in Nat /\ j \in Nat
      BY DEF Masked
    <2>3. CASE m[j].line = l
      BY <1>2, <2>1, <2>2, <2>3 DEF Precedes
    <2>4. CASE m[j].line # l
      BY <2>1, <2>4 DEF Precedes
    <2>. QED  BY <2>3, <2>4
  <1>. QED  BY <1>3

\* Of several directives one comes first as well.
LEMMA EarliestExists ==
    ASSUME NEW m, NEW n, Masked(m, n), NEW S \in SUBSET DOMAIN m, S # {}
    PROVE  \E i \in S : \A j \in S : j = i \/ Precedes(m, i, j)
  <1>. DEFINE L == {m[i].line : i \in S}
  <1>1. PICK l \in L : \A k \in L : l <= k
    <2>1. L \in SUBSET Nat /\ L # {}
      BY DEF Masked
    <2>. HIDE DEF L
    <2>. QED  BY <2>1, LeastNumber
  <1>. DEFINE T == {i \in S : m[i].line = l}
  <1>2. PICK i \in T : \A j \in T : i <= j
    <2>1. T \in SUBSET Nat /\ T # {}
      BY DEF Masked
    <2>. HIDE DEF T
    <2>. QED  BY <2>1, LeastNumber
  <1>3. ASSUME NEW j \in S PROVE j = i \/ Precedes(m, i, j)
    <2>1. l <= m[j].line /\ m[i].line = l /\ m[j].line \in Nat /\ l \in Nat
      BY <1>1 DEF Masked
    <2>2. i \in Nat /\ j \in Nat
      BY DEF Masked
    <2>3. CASE m[j].line = l
      BY <1>2, <2>1, <2>2, <2>3 DEF Precedes
    <2>4. CASE m[j].line # l
      BY <2>1, <2>4 DEF Precedes
    <2>. QED  BY <2>3, <2>4
  <1>. QED  BY <1>3

LEMMA PrecedesIsAnOrder ==
    ASSUME NEW m, NEW n, Masked(m, n)
    PROVE  /\ \A i \in DOMAIN m : ~Precedes(m, i, i)
           /\ \A i, j \in DOMAIN m : ~(Precedes(m, i, j) /\ Precedes(m, j, i))
           /\ \A i, j, k \in DOMAIN m : Precedes(m, i, j) /\ Precedes(m, j, k) => Precedes(m, i, k)
           /\ \A i, j \in DOMAIN m : i = j \/ Precedes(m, i, j) \/ Precedes(m, j, i)
           /\ \A i, j \in DOMAIN m : Precedes(m, i, j) => m[i].line <= m[j].line
  <1>1. \A i \in DOMAIN m : i \in Nat /\ m[i].line \in Nat
    BY DEF Masked
  <1>. QED  BY <1>1 DEF Precedes

-----------------------------------------------------------------------------
(* What directives say.                                                    *)

LEMMA CommentsAre ==
    ASSUME NEW c \in CommentForms
    PROVE  /\ c.form \in {"none", "bare", "malformed", "rules"}
           /\ c.form = "rules" => c.action \in Actions /\ c.refs \in RefSets \union {AllRules}
  <1>1. CASE c \in [form : {"none", "bare", "malformed"}]
    BY <1>1
  <1>2. CASE c \in [form : {"rules"}, action : Actions, refs : RefSets \union {AllRules}]
    BY <1>2
  <1>. QED  BY <1>1, <1>2 DEF CommentForms

\* References stand for codes, or for themselves.
Refers(map) == \A r \in DOMAIN map : map[r] \subseteq Codes

LEMMA ExpansionsAre ==
    ASSUME NEW map, Refers(map), NEW refs \in RefSets
    PROVE  /\ Expand(map, refs) \subseteq Codes \union UNION RefSets
           /\ Expand(map, refs) # AllRules
  <1>1. \A r \in refs : (IF r \in DOMAIN map THEN map[r] ELSE {r}) \subseteq Codes \union UNION RefSets
    BY DEF Refers
  <1>2. Expand(map, refs) \in SUBSET (RuleCodes \union {PRS} \union UNION RefSets)
    BY <1>1 DEF Expand, Codes
  <1>. QED  BY <1>2, CodesAssumption DEF Codes

\* None of the rules' own references stands for nothing.
LEMMA ReferencesStand ==
    /\ Refers(ReferenceMap)
    /\ \A refs \in RefSets : Expand(ReferenceMap, refs) # {}
  <1>1. ASSUME NEW refs \in RefSets PROVE Expand(ReferenceMap, refs) # {}
    <2>1. PICK r \in refs : TRUE
      BY CodesAssumption
    <2>2. PICK x : x \in IF r \in DOMAIN ReferenceMap THEN ReferenceMap[r] ELSE {r}
      BY CodesAssumption
    <2>3. x \in Expand(ReferenceMap, refs)
      BY <2>2 DEF Expand
    <2>. QED  BY <2>3
  <1>. QED  BY <1>1, CodesAssumption DEF Refers, Codes

LEMMA AllRulesIsNoSet ==
    AllRules # {}
  <1>1. {} \in SUBSET (RuleCodes \union {PRS} \union UNION RefSets)
    OBVIOUS
  <1>. QED  BY <1>1, CodesAssumption

LEMMA DirectivesAre ==
    ASSUME NEW map, Refers(map), NEW l, NEW c \in CommentForms, IsDirective(c)
    PROVE  LET d == Directive(map, l, c)
           IN  /\ d.line = l
               /\ d.action \in Actions
               /\ d.rules = AllRules \/ d.rules \subseteq Codes \union UNION RefSets
               /\ map = ReferenceMap => d.rules # {}
               /\ \A code : Covers(d, code) <=> Names(map, c, code)
  <1>. DEFINE d == Directive(map, l, c)
  <1>1. /\ d.line = l
        /\ d.action = IF c.form = "bare" THEN "line" ELSE c.action
        /\ d.rules = IF c.form = "bare" \/ c.refs = AllRules THEN AllRules ELSE Expand(map, c.refs)
    BY DEF Directive
  <1>2. CASE c.form = "bare"
    BY <1>1, <1>2, AllRulesIsNoSet DEF Actions, Covers, Names
  <1>3. CASE c.form = "rules"
    <2>1. c.action \in Actions /\ c.refs \in RefSets \union {AllRules}
      BY <1>3, CommentsAre
    <2>2. CASE c.refs = AllRules
      BY <1>1, <1>3, <2>1, <2>2, AllRulesIsNoSet DEF Covers, Names
    <2>3. CASE c.refs # AllRules
      BY <1>1, <1>3, <2>1, <2>3, ExpansionsAre, ReferencesStand DEF Covers, Names
    <2>. QED  BY <2>2, <2>3
  <1>. QED  BY <1>2, <1>3 DEF IsDirective

\* What the comment on a line asks for, with the references of the rules.
Asks(cs, l, action, code) == Says(cs, ReferenceMap, l, action, code)

\* A mask with the directives of the comments cs on the lines ls.
Loaded(cs, ls, m) ==
    /\ cs \in [Lines -> CommentForms]
    /\ ls \in Seq(Lines)
    /\ m = DirectivesOf(cs, ReferenceMap, ls)

LEMMA MaskSays ==
    ASSUME NEW cs, NEW ls, NEW m, Loaded(cs, ls, m)
    PROVE  /\ Masked(m, Len(ls))
           /\ \A i \in DOMAIN m :
                  /\ m[i].line \in Range(ls)
                  /\ m[i].action \in Actions
                  /\ m[i].rules # {}
                  /\ \A code, a : Asks(cs, m[i].line, a, code) <=>
                                      m[i].action = a /\ Covers(m[i], code)
           /\ \A l \in Range(ls) : \A a, code :
                  Asks(cs, l, a, code) =>
                      \E i \in DOMAIN m : m[i].line = l /\ m[i].action = a /\ Covers(m[i], code)
           /\ \A i, j \in DOMAIN m : m[i].line = m[j].line =>
                  m[i].action = m[j].action /\ m[i].rules = m[j].rules
  <1>1. /\ ls \in Seq(Lines) /\ Len(ls) \in Nat /\ DOMAIN ls = 1 .. Len(ls)
        /\ \A i \in DOMAIN ls : ls[i] \in Lines /\ ls[i] \in Range(ls)
    BY DEF Loaded, Range
  <1>2. DOMAIN m = {i \in DOMAIN ls : IsDirective(cs[ls[i]])}
    BY DEF Loaded, DirectivesOf
  <1>3. \A i \in DOMAIN m : m[i] = Directive(ReferenceMap, ls[i], cs[ls[i]])
    BY <1>2 DEF Loaded, DirectivesOf
  <1>4. ASSUME NEW i \in DOMAIN m
        PROVE  /\ m[i].line = ls[i] /\ ls[i] \in Lines
               /\ m[i].action \in Actions
               /\ m[i].rules # {}
               /\ \A code : Covers(m[i], code) <=> Names(ReferenceMap, cs[ls[i]], code)
    <2>1. IsDirective(cs[ls[i]]) /\ cs[ls[i]] \in CommentForms /\ ls[i] \in Lines
      BY <1>1, <1>2 DEF Loaded
    <2>2. m[i] = Directive(ReferenceMap, ls[i], cs[ls[i]])
      BY <1>3
    <2>. QED  BY <2>1, <2>2, DirectivesAre, ReferencesStand
  <1>5. Masked(m, Len(ls))
    BY <1>1, <1>2, <1>4, LinesAreNumbers DEF Masked
  <1>6. \A i \in DOMAIN m : m[i].line \in Range(ls)
    BY <1>1, <1>2, <1>4
  <1>7. \A i \in DOMAIN m : \A code, a : Asks(cs, m[i].line, a, code) <=>
            m[i].action = a /\ Covers(m[i], code)
    BY <1>2, <1>3, <1>4 DEF Says, Asks
  <1>8. ASSUME NEW l \in Range(ls), NEW a, NEW code, Asks(cs, l, a, code)
        PROVE  \E i \in DOMAIN m : m[i].line = l /\ m[i].action = a /\ Covers(m[i], code)
    <2>1. PICK i \in DOMAIN ls : l = ls[i]
      BY DEF Range
    <2>2. i \in DOMAIN m /\ m[i].line = l
      BY <1>2, <1>4, <1>8, <2>1 DEF Says, Asks
    <2>. QED  BY <1>7, <1>8, <2>2
  <1>9. \A i, j \in DOMAIN m : m[i].line = m[j].line =>
            m[i].action = m[j].action /\ m[i].rules = m[j].rules
    BY <1>3, <1>4
  <1>. QED  BY <1>4, <1>5, <1>6, <1>7, <1>8, <1>9

-----------------------------------------------------------------------------
(* What the mask does to a violation.                                      *)

LEMMA SingleAsAsked ==
    ASSUME NEW cs, NEW ls, NEW m, Loaded(cs, ls, m), NEW v, v.line \in Nat
    PROVE  SingleLine(m, v) # {} <=> v.line \in Range(ls) /\ Asks(cs, v.line, "line", v.code)
  <1>1. ASSUME NEW i \in SingleLine(m, v)
        PROVE  v.line \in Range(ls) /\ Asks(cs, v.line, "line", v.code)
    BY <1>1, MaskSays DEF SingleLine
  <1>2. ASSUME v.line \in Range(ls), Asks(cs, v.line, "line", v.code) PROVE SingleLine(m, v) # {}
    <2>1. PICK i \in DOMAIN m :
              m[i].line = v.line /\ m[i].action = "line" /\ Covers(m[i], v.code)
      BY <1>2, MaskSays
    <2>. QED  BY <2>1 DEF SingleLine
  <1>. QED  BY <1>1, <1>2

\* The directives passed on the way to a violation.
LEMMA PassedSay ==
    ASSUME NEW cs, NEW ls, NEW m, Loaded(cs, ls, m), NEW v, v.line \in Nat
    PROVE  /\ Passed(m, v) \subseteq DOMAIN m
           /\ \A i \in Passed(m, v) :
                  /\ m[i].line \in Range(ls) /\ m[i].line \in Nat /\ m[i].line <= v.line
                  /\ m[i].action = "disable" \/ m[i].action = "enable"
                  /\ Asks(cs, m[i].line, m[i].action, v.code)
           /\ \A l \in Range(ls), a \in {"disable", "enable"} :
                  l <= v.line /\ Asks(cs, l, a, v.code) =>
                      \E i \in Passed(m, v) : m[i].line = l /\ m[i].action = a
  <1>1. ASSUME NEW i \in Passed(m, v)
        PROVE  /\ i \in DOMAIN m
               /\ m[i].line \in Range(ls) /\ m[i].line \in Nat /\ m[i].line <= v.line
               /\ m[i].action = "disable" \/ m[i].action = "enable"
               /\ Asks(cs, m[i].line, m[i].action, v.code)
    <2>1. /\ i \in DOMAIN m /\ m[i].action # "line" /\ m[i].line <= v.line
          /\ m[i].rules = {} \/ Covers(m[i], v.code)
      BY <1>1 DEF Passed, RangeDirectives
    <2>2. /\ m[i].line \in Range(ls) /\ m[i].action \in Actions /\ m[i].rules # {}
          /\ Asks(cs, m[i].line, m[i].action, v.code) <=> Covers(m[i], v.code)
          /\ Masked(m, Len(ls))
      BY <2>1, MaskSays
    <2>. QED  BY <2>1, <2>2 DEF Masked, Actions
  <1>2. ASSUME NEW l \in Range(ls), NEW a \in {"disable", "enable"}, l <= v.line,
               Asks(cs, l, a, v.code)
        PROVE  \E i \in Passed(m, v) : m[i].line = l /\ m[i].action = a
    <2>1. PICK i \in DOMAIN m : m[i].line = l /\ m[i].action = a /\ Covers(m[i], v.code)
      BY <1>2, MaskSays
    <2>2. i \in Passed(m, v)
      BY <1>2, <2>1 DEF Passed, RangeDirectives
    <2>. QED  BY <2>1, <2>2
  <1>. QED  BY <1>1, <1>2

\* Of those passed, all with the line of the last one do the same.
LEMMA LastPassed ==
    ASSUME NEW cs, NEW ls, NEW m, Loaded(cs, ls, m), NEW v, v.line \in Nat,
           NEW S \in SUBSET Passed(m, v), S # {}
    PROVE  \E i \in S : /\ \A j \in S : j = i \/ Precedes(m, j, i)
                        /\ \A j \in S : m[j].line <= m[i].line
  <1>1. Masked(m, Len(ls)) /\ S \in SUBSET DOMAIN m /\ v.line \in Nat
        /\ \A i \in S : m[i].line \in Nat /\ m[i].line <= v.line
    BY MaskSays, PassedSay
  <1>2. PICK i \in S : \A j \in S : j = i \/ Precedes(m, j, i)
    BY <1>1, LastExists
  <1>3. \A j \in S : m[j].line <= m[i].line
    BY <1>1, <1>2, PrecedesIsAnOrder
  <1>. QED  BY <1>2, <1>3

DisabledAt(cs, ls, v) ==
    \E d \in ls :
        /\ d <= v.line
        /\ Asks(cs, d, "disable", v.code)
        /\ \A e \in ls : e > d /\ e <= v.line => ~Asks(cs, e, "enable", v.code)

\* The last directive passed decides, as the comments ask.
LEMMA RangeAsAsked ==
    ASSUME NEW cs, NEW ls, NEW m, Loaded(cs, ls, m), NEW v, v.line \in Nat
    PROVE  InForce(m, v) # {} <=> DisabledAt(cs, Range(ls), v)
  <1>1. ASSUME NEW i \in InForce(m, v) PROVE DisabledAt(cs, Range(ls), v)
    <2>1. i \in Passed(m, v) /\ m[i].action = "disable" /\ \A j \in Passed(m, v) : j = i \/ Precedes(m, j, i)
      BY <1>1 DEF InForce
    <2>2. m[i].line \in Range(ls) /\ m[i].line <= v.line /\ Asks(cs, m[i].line, "disable", v.code)
      BY <2>1, PassedSay
    <2>3. ASSUME NEW e \in Range(ls), e > m[i].line, e <= v.line, Asks(cs, e, "enable", v.code)
          PROVE  FALSE
      <3>1. PICK j \in Passed(m, v) : m[j].line = e
        BY <2>3, PassedSay
      <3>2. m[j].line <= m[i].line
        BY <2>1, <3>1, MaskSays, PassedSay, PrecedesIsAnOrder
      <3>3. m[i].line \in Nat /\ m[j].line \in Nat
        BY <2>1, <3>1, PassedSay
      <3>. QED  BY <2>3, <3>1, <3>2, <3>3
    <2>. QED  BY <2>2, <2>3 DEF DisabledAt
  <1>2. ASSUME DisabledAt(cs, Range(ls), v) PROVE InForce(m, v) # {}
    <2>1. PICK d \in Range(ls) : /\ d <= v.line /\ Asks(cs, d, "disable", v.code)
                                /\ \A e \in Range(ls) : e > d /\ e <= v.line => ~Asks(cs, e, "enable", v.code)
      BY <1>2 DEF DisabledAt
    <2>2. PICK k \in Passed(m, v) : m[k].line = d
      BY <2>1, PassedSay
    <2>3. PICK i \in Passed(m, v) : /\ \A j \in Passed(m, v) : j = i \/ Precedes(m, j, i)
                                 /\ \A j \in Passed(m, v) : m[j].line <= m[i].line
      <3>1. Passed(m, v) # {}
        BY <2>2
      <3>. QED  BY <3>1, LastPassed
    <2>4. m[i].action = "disable"
      <3>1. CASE m[i].line = d
        <4>1. PICK l \in Passed(m, v) : m[l].line = d /\ m[l].action = "disable"
          BY <2>1, PassedSay
        <4>2. i \in DOMAIN m /\ l \in DOMAIN m
          BY PassedSay
        <4>. QED  BY <3>1, <4>1, <4>2, MaskSays
      <3>2. CASE m[i].line # d
        <4>1. m[i].line > d
          BY <2>2, <2>3, <3>2, PassedSay
        <4>. QED  BY <2>1, <4>1, PassedSay
      <3>. QED  BY <3>1, <3>2
    <2>. QED  BY <2>3, <2>4 DEF InForce
  <1>. QED  BY <1>1, <1>2

\* A violation is dropped exactly if the rendered comments ask for it.
LEMMA IgnoredAsAsked ==
    ASSUME NEW cs, NEW ls, NEW m, Loaded(cs, ls, m), NEW v, v.line \in Nat
    PROVE  Ignored(m, v) <=> IgnoredBy(cs, ReferenceMap, Range(ls), v)
  BY SingleAsAsked, RangeAsAsked DEF Ignored, IgnoredBy, DisabledAt, Asks
\* Whatever other comments go, those on the lines of the directives used for a
\* violation decide it alike.
LEMMA UsedSuffice ==
    ASSUME NEW cs, NEW ls, NEW m, Loaded(cs, ls, m), NEW v, v.line \in Nat,
           NEW needed \in SUBSET Range(ls), \A i \in UsedFor(m, v) : m[i].line \in needed
    PROVE  IgnoredBy(cs, ReferenceMap, needed, v) <=> Ignored(m, v)
  <1>1. Masked(m, Len(ls)) /\ Passed(m, v) \subseteq DOMAIN m
    BY MaskSays, PassedSay
  <1>2. CASE SingleLine(m, v) # {}
    <2>1. PICK i \in First(SingleLine(m, v)) : TRUE
      <3>1. SingleLine(m, v) \in SUBSET DOMAIN m
        BY DEF SingleLine
      <3>. QED  BY <1>1, <1>2, <3>1, FirstExists
    <2>2. i \in SingleLine(m, v) /\ m[i].line \in needed
      BY <1>2, <2>1 DEF UsedFor, First
    <2>3. v.line \in needed /\ Asks(cs, v.line, "line", v.code)
      BY <1>2, <2>2, SingleAsAsked DEF SingleLine
    <2>. QED  BY <1>2, <2>3 DEF Ignored, IgnoredBy, Asks
  <1>3. CASE SingleLine(m, v) = {}
    <2>1. \A i \in InForce(m, v) \union EnablesUsed(m, v) : m[i].line \in needed
      BY <1>3 DEF UsedFor
    <2>2. ~(v.line \in needed /\ Asks(cs, v.line, "line", v.code))
      BY <1>3, SingleAsAsked
    <2>3. ASSUME NEW i \in InForce(m, v) PROVE DisabledAt(cs, needed, v)
      <3>1. i \in Passed(m, v) /\ m[i].action = "disable" /\ \A j \in Passed(m, v) : j = i \/ Precedes(m, j, i)
        BY <2>3 DEF InForce
      <3>2. m[i].line \in needed /\ m[i].line <= v.line /\ Asks(cs, m[i].line, "disable", v.code)
        BY <2>1, <3>1, PassedSay
      <3>3. ASSUME NEW e \in needed, e > m[i].line, e <= v.line, Asks(cs, e, "enable", v.code)
            PROVE  FALSE
        <4>1. PICK j \in Passed(m, v) : m[j].line = e
          BY <3>3, PassedSay
        <4>2. m[j].line <= m[i].line
          BY <1>1, <3>1, <4>1, PassedSay, PrecedesIsAnOrder
        <4>3. m[i].line \in Nat /\ m[j].line \in Nat
          BY <3>1, <4>1, PassedSay
        <4>. QED  BY <3>3, <4>1, <4>2, <4>3
      <3>. QED  BY <3>2, <3>3 DEF DisabledAt
    <2>4. ASSUME DisabledAt(cs, needed, v), InForce(m, v) = {} PROVE FALSE
      <3>1. PICK d \in needed : /\ d <= v.line /\ Asks(cs, d, "disable", v.code)
                                /\ \A e \in needed : e > d /\ e <= v.line => ~Asks(cs, e, "enable", v.code)
        BY <2>4 DEF DisabledAt
      <3>. DEFINE disables == {i \in Passed(m, v) : m[i].action = "disable"}
      <3>2. PICK i \in disables : m[i].line = d
        BY <3>1, PassedSay
      <3>3. PICK l \in disables : /\ \A j \in disables : j = l \/ Precedes(m, j, l)
                                  /\ \A j \in disables : m[j].line <= m[l].line
        <4>1. disables \in SUBSET Passed(m, v) /\ disables # {}
          BY <3>2
        <4>. HIDE DEF disables
        <4>. QED  BY <4>1, LastPassed
      <3>. DEFINE after == {j \in Passed(m, v) : Precedes(m, l, j)}
      <3>4. after # {}
        <4>1. PICK j \in Passed(m, v) : ~(j = l \/ Precedes(m, j, l))
          BY <2>4, <3>3 DEF InForce
        <4>. QED  BY <1>1, <3>3, <4>1, PrecedesIsAnOrder
      <3>5. PICK e \in after : \A j \in after : j = e \/ Precedes(m, e, j)
        <4>1. after \in SUBSET DOMAIN m
          BY <1>1
        <4>. HIDE DEF after
        <4>. QED  BY <1>1, <3>4, <4>1, EarliestExists
      <3>6. m[e].action = "enable"
        <4>1. e \notin disables
          BY <1>1, <3>3, <3>5, PrecedesIsAnOrder
        <4>. QED  BY <3>5, <4>1, PassedSay
      <3>7. e \in EnablesUsed(m, v)
        <4>1. \A k \in Passed(m, v) : ~(Precedes(m, l, k) /\ Precedes(m, k, e))
          BY <1>1, <3>3, <3>5, PrecedesIsAnOrder
        <4>. QED  BY <3>3, <3>5, <3>6, <4>1 DEF EnablesUsed
      <3>8. /\ m[e].line \in needed /\ m[e].line <= v.line
            /\ Asks(cs, m[e].line, "enable", v.code)
        BY <2>1, <3>5, <3>6, <3>7, PassedSay
      <3>9. m[e].line > d
        <4>1. m[l].line <= m[e].line /\ d <= m[l].line
          BY <1>1, <3>2, <3>3, <3>5, PrecedesIsAnOrder
        <4>2. m[l].line # m[e].line
          BY <1>1, <3>3, <3>5, <3>6, MaskSays
        <4>3. m[l].line \in Nat /\ m[e].line \in Nat /\ d \in Nat
          BY <3>2, <3>3, <3>5, PassedSay
        <4>. QED  BY <4>1, <4>2, <4>3
      <3>. QED  BY <3>1, <3>8, <3>9
    <2>. QED  BY <1>3, <2>2, <2>3, <2>4 DEF Ignored, IgnoredBy, DisabledAt, Asks
  <1>. QED  BY <1>2, <1>3

-----------------------------------------------------------------------------
(* The invariant: where each violation is, and what has been marked for it. *)

Dropped(v) == Masking /\ Ignored(mask, v)

RenderedMask == DirectivesOf(comments, AllowedRefMap, rendering)

MaskInv == mask = IF pc # "start" /\ Masking THEN RenderedMask ELSE <<>>

FromParser ==
    {v \in found : v.code = PRS}
        \union (IF pc # "start" /\ Masking THEN MalformedOf(comments, rendering) ELSE {})

FromRules == {v \in found : v.code # PRS}

ListInv ==
    /\ waiting \subseteq FromRules
    /\ pc = "start" => waiting = FromRules
    /\ pc \in {"report", "done"} => waiting = {}
    /\ violations = FromParser \union {v \in FromRules \ waiting : ~Dropped(v)}

MarkInv ==
    /\ used \subseteq DOMAIN mask
    /\ Masking => \A v \in FromRules \ waiting : UsedFor(mask, v) \subseteq used

ReportInv ==
    IF pc = "done"
    THEN /\ kept = {v \in violations : ~Dropped(v)}
         /\ warned = IF Masking THEN DOMAIN mask \ used ELSE {}
         /\ Masking => \A v \in violations : UsedFor(mask, v) \subseteq used
    ELSE kept = {} /\ warned = {}

InputInv ==
    /\ comments \in [Lines -> CommentForms]
    /\ rendering \in Seq(Lines)
    /\ exceptCodes \in ExceptChoices
    /\ disableNoqa \in BOOLEAN
    /\ found \subseteq Violations

Inv ==
    /\ pc \in {"start", "crawl", "report", "done"}
    /\ InputInv
    /\ MaskInv
    /\ ListInv
    /\ MarkInv
    /\ ReportInv

\* What the mask does to a violation changes only with the mask.
LEMMA MaskDecides ==
    ASSUME UNCHANGED <<file, mask>>, NEW v
    PROVE  /\ Dropped(v)' <=> Dropped(v)
           /\ UsedFor(mask, v)' = UsedFor(mask, v)
  <1>1. mask' = mask /\ (Masking' <=> Masking)
    BY DEF Masking, file
  <1>. QED  BY <1>1 DEF Dropped

LEMMA InputsStay ==
    ASSUME UNCHANGED file
    PROVE  /\ InputInv => InputInv'
           /\ Masking' <=> Masking
           /\ RenderedMask' = RenderedMask
           /\ MalformedOf(comments, rendering)' = MalformedOf(comments, rendering)
           /\ FromRules' = FromRules
  <1>1. UNCHANGED <<comments, rendering, disableNoqa, exceptCodes, found>>
    BY DEF file
  <1>2. AllowedRefMap' = AllowedRefMap
    BY <1>1 DEF AllowedRefMap
  <1>. QED  BY <1>1, <1>2 DEF InputInv, Masking, RenderedMask, FromRules

\* Only directives of the mask are marked as used.
LEMMA UsedArePlaces ==
    ASSUME NEW m, NEW v PROVE UsedFor(m, v) \subseteq DOMAIN m
  BY DEF UsedFor, First, SingleLine, InForce, EnablesUsed, Passed, RangeDirectives

LEMMA InitInv == Init => Inv
  <1>. SUFFICES ASSUME Init PROVE Inv
    OBVIOUS
  <1>1. InputInv
    BY RenderingsAssumption DEF Init, InputInv
  <1>. QED  BY <1>1 DEF Init, Inv, MaskInv, ListInv, MarkInv, ReportInv, FromParser, FromRules

LEMMA NextInv == Inv /\ [Next]_vars => Inv'
  <1>. SUFFICES ASSUME Inv, [Next]_vars PROVE Inv'
    OBVIOUS
  <1>1. UNCHANGED file
    BY DEF Next, FromTree, CrawlError, CrawlEnds, GetViolations, Done, vars
  <1>2. /\ InputInv'
        /\ Masking' <=> Masking
        /\ RenderedMask' = RenderedMask
        /\ MalformedOf(comments, rendering)' = MalformedOf(comments, rendering)
        /\ FromRules' = FromRules
        /\ found' = found
    BY <1>1, InputsStay DEF Inv, file
  <1>3. CASE FromTree
    <2>1. /\ pc = "start" /\ pc' = "crawl" /\ waiting = FromRules /\ used = {}
          /\ mask' = (IF Masking THEN RenderedMask ELSE <<>>)
          /\ UNCHANGED <<used, waiting, kept, warned>>
      BY <1>3 DEF FromTree, Inv, ListInv, MarkInv, MaskInv, RenderedMask
    <2>2. MaskInv'
      BY <1>2, <2>1 DEF MaskInv
    <2>3. ListInv'
      BY <1>2, <1>3, <2>1 DEF FromTree, Inv, ListInv, FromParser
    <2>. QED  BY <1>2, <2>1, <2>2, <2>3 DEF Inv, MarkInv, ReportInv
  <1>4. ASSUME NEW v \in Violations, CrawlError(v) PROVE Inv'
    <2>1. /\ pc = "crawl" /\ pc' = "crawl" /\ v \in waiting /\ waiting' = waiting \ {v}
          /\ UNCHANGED <<file, mask, kept, warned>>
      BY <1>4 DEF CrawlError
    <2>2. \A w : (Dropped(w)' <=> Dropped(w)) /\ UsedFor(mask, w)' = UsedFor(mask, w)
      BY <2>1, MaskDecides
    <2>3. violations' = violations \union {w \in {v} : ~Dropped(w)}
      BY <1>4 DEF CrawlError, Filter, Dropped
    <2>4. used' = used \union (IF Masking THEN UsedFor(mask, v) ELSE {})
      BY <1>4 DEF CrawlError, Filter
    <2>5. v \in FromRules
      BY <2>1 DEF Inv, ListInv
    <2>6. MaskInv'
      BY <1>2, <2>1 DEF Inv, MaskInv
    <2>7. ListInv'
      <3>1. FromParser' = FromParser
        BY <1>2, <2>1 DEF FromParser
      <3>2. {w \in FromRules \ waiting' : ~Dropped(w)} =
                {w \in FromRules \ waiting : ~Dropped(w)} \union {w \in {v} : ~Dropped(w)}
        BY <2>1, <2>5
      <3>3. {w \in FromRules \ waiting : ~Dropped(w)}' = {w \in FromRules \ waiting' : ~Dropped(w)}
        BY <1>2, <2>2
      <3>. QED  BY <1>2, <2>1, <2>3, <3>1, <3>2, <3>3 DEF Inv, ListInv
    <2>8. MarkInv'
      BY <1>2, <2>1, <2>2, <2>4, UsedArePlaces DEF Inv, MarkInv
    <2>. QED  BY <1>2, <2>1, <2>6, <2>7, <2>8 DEF Inv, ReportInv
  <1>5. CASE CrawlEnds
    <2>1. /\ pc = "crawl" /\ pc' = "report" /\ waiting = {}
          /\ UNCHANGED <<file, mask, used, waiting, violations, kept, warned>>
      BY <1>5 DEF CrawlEnds
    <2>2. \A w : (Dropped(w)' <=> Dropped(w)) /\ UsedFor(mask, w)' = UsedFor(mask, w)
      BY <2>1, MaskDecides
    <2>3. MaskInv'
      BY <1>2, <2>1 DEF Inv, MaskInv
    <2>4. ListInv'
      BY <1>2, <2>1, <2>2 DEF Inv, ListInv, FromParser
    <2>5. MarkInv'
      BY <1>2, <2>1, <2>2 DEF Inv, MarkInv
    <2>. QED  BY <1>2, <2>1, <2>3, <2>4, <2>5 DEF Inv, ReportInv
  <1>6. CASE GetViolations
    <2>1. /\ pc = "report" /\ pc' = "done" /\ UNCHANGED <<file, mask, waiting, violations>>
      BY <1>6 DEF GetViolations
    <2>2. \A w : (Dropped(w)' <=> Dropped(w)) /\ UsedFor(mask, w)' = UsedFor(mask, w)
      BY <2>1, MaskDecides
    <2>3. kept' = {w \in violations : ~Dropped(w)}
      BY <1>6 DEF GetViolations, Filter, Dropped
    <2>4. used' = used \union (IF Masking THEN UNION {UsedFor(mask, w) : w \in violations} ELSE {})
      BY <1>6 DEF GetViolations, Filter
    <2>5. warned' = IF Masking THEN DOMAIN mask \ used' ELSE {}
      BY <1>6 DEF GetViolations, Inv, ReportInv
    <2>6. MaskInv'
      BY <1>2, <2>1 DEF Inv, MaskInv
    <2>7. ListInv'
      BY <1>2, <2>1, <2>2 DEF Inv, ListInv, FromParser
    <2>8. MarkInv'
      BY <1>2, <2>1, <2>2, <2>4, UsedArePlaces DEF Inv, MarkInv
    <2>9. ReportInv'
      BY <1>2, <2>1, <2>2, <2>3, <2>4, <2>5 DEF ReportInv
    <2>. QED  BY <1>2, <2>1, <2>6, <2>7, <2>8, <2>9 DEF Inv
  <1>7. CASE UNCHANGED vars
    <2>1. UNCHANGED <<file, pc, mask, used, waiting, violations, kept, warned>>
      BY <1>7 DEF vars
    <2>2. \A w : (Dropped(w)' <=> Dropped(w)) /\ UsedFor(mask, w)' = UsedFor(mask, w)
      BY <2>1, MaskDecides
    <2>3. MaskInv'
      BY <1>2, <2>1 DEF Inv, MaskInv
    <2>4. ListInv'
      BY <1>2, <2>1, <2>2 DEF Inv, ListInv, FromParser
    <2>5. MarkInv'
      BY <1>2, <2>1, <2>2 DEF Inv, MarkInv
    <2>6. ReportInv'
      BY <1>2, <2>1, <2>2 DEF Inv, ReportInv
    <2>. QED  BY <1>2, <2>1, <2>3, <2>4, <2>5, <2>6 DEF Inv
  <1>. QED  BY <1>3, <1>4, <1>5, <1>6, <1>7 DEF Next, Done

\* From the start to the report, each violation is where the mask left it, and
\* what was marked for it stays marked: the order of the crawls does not matter.
THEOREM Invariance == Spec => []Inv
  <1>. QED  BY InitInv, NextInv, PTL DEF Spec

LEMMA ViolationsAre ==
    ASSUME NEW v \in Violations
    PROVE  v.line \in Lines /\ v.line \in Nat /\ v.code \in Codes
  BY LinesAreNumbers DEF Violations

LEMMA ReportedAreViolations ==
    ASSUME InputInv
    PROVE  /\ Reportable \subseteq Violations
           /\ \A v \in MalformedOf(comments, rendering) : v.code = PRS
  <1>1. Range(rendering) \subseteq Lines
    BY DEF InputInv, Range
  <1>2. MalformedOf(comments, rendering) \subseteq Violations
    BY <1>1 DEF MalformedOf, Violations, Codes
  <1>3. \A v \in MalformedOf(comments, rendering) : v.code = PRS
    BY DEF MalformedOf
  <1>. QED  BY <1>2, <1>3 DEF Reportable, InputInv

\* At the end, what there was to report is in the list or was dropped.
LEMMA WhatIsKept ==
    ASSUME Inv, pc = "done"
    PROVE  /\ kept = {v \in Reportable : ~Dropped(v)}
           /\ Masking => \A v \in Reportable : UsedFor(mask, v) \subseteq used
  <1>1. violations = FromParser \union {v \in FromRules : ~Dropped(v)}
    BY DEF Inv, ListInv
  <1>2. Reportable = FromParser \union FromRules
    BY DEF Reportable, FromParser, FromRules
  <1>3. kept = {v \in Reportable : ~Dropped(v)}
    BY <1>1, <1>2 DEF Inv, ReportInv
  <1>4. ASSUME Masking, NEW v \in Reportable PROVE UsedFor(mask, v) \subseteq used
    <2>1. v \in violations \/ v \in FromRules \ waiting
      BY <1>1, <1>2 DEF Inv, ListInv
    <2>. QED  BY <1>4, <2>1 DEF Inv, MarkInv, ReportInv
  <1>. QED  BY <1>3, <1>4

LEMMA AllowedRefers == Refers(AllowedRefMap)
  <1>1. CASE exceptCodes = NoExcept
    BY <1>1, ReferencesStand DEF AllowedRefMap
  <1>2. CASE exceptCodes # NoExcept
    <2>1. \A r \in DOMAIN AllowedRefMap :
              /\ AllowedRefMap[r] = (IF r = PRS THEN {PRS} ELSE ReferenceMap[r]) \intersect exceptCodes
              /\ r = PRS \/ r \in DOMAIN ReferenceMap
      BY <1>2 DEF AllowedRefMap
    <2>. QED  BY <2>1, ReferencesStand DEF Refers, Codes
  <1>. QED  BY <1>1, <1>2

\* Without exceptions the mask is loaded with the directives of the rendering.
LEMMA MaskIsLoaded ==
    ASSUME Inv, pc = "done", Masking, exceptCodes = NoExcept
    PROVE  Loaded(comments, rendering, mask) /\ AllowedRefMap = ReferenceMap
  BY DEF Inv, InputInv, MaskInv, RenderedMask, Loaded, AllowedRefMap

LEMMA Types == Inv => TypeOK
  <1>. SUFFICES ASSUME Inv PROVE TypeOK
    OBVIOUS
  <1>1. DOMAIN mask \subseteq DOMAIN rendering
    BY DEF Inv, MaskInv, RenderedMask, DirectivesOf
  <1>2. ASSUME NEW i \in DOMAIN mask
        PROVE  /\ mask[i].line \in Lines /\ mask[i].action \in Actions
               /\ mask[i].rules = AllRules \/ mask[i].rules \subseteq Codes \union UNION RefSets
    <2>1. mask = DirectivesOf(comments, AllowedRefMap, rendering)
      BY DEF Inv, MaskInv, RenderedMask
    <2>2. /\ i \in DOMAIN rendering /\ IsDirective(comments[rendering[i]])
          /\ mask[i] = Directive(AllowedRefMap, rendering[i], comments[rendering[i]])
      BY <2>1 DEF DirectivesOf
    <2>3. rendering[i] \in Lines /\ comments[rendering[i]] \in CommentForms
      BY <2>2 DEF Inv, InputInv
    <2>. QED  BY <2>2, <2>3, DirectivesAre, AllowedRefers
  <1>3. waiting \subseteq found
    BY DEF Inv, ListInv, FromRules
  <1>4. violations \subseteq Reportable
    BY DEF Inv, ListInv, Reportable, FromParser, FromRules
  <1>. QED  BY <1>1, <1>2, <1>3, <1>4 DEF Inv, MarkInv, ReportInv, TypeOK

\* The state of the check is of the kinds the code keeps: directives of lines
\* of the source, with codes or unknown references, and none of them both used
\* and warned of; nothing is reported that was not found.
THEOREM TypeCorrect == Spec => []TypeOK
  <1>. QED  BY Invariance, Types, PTL

LEMMA KeepsAsDocumented == Inv => KeptAsDocumented
  <1>. SUFFICES ASSUME Inv, pc = "done", exceptCodes = NoExcept
                PROVE  kept = {v \in Reportable : ~(Masking /\ IgnoredBy(comments, AllowedRefMap, Rendered, v))}
    BY DEF KeptAsDocumented
  <1>1. CASE ~Masking
    BY <1>1, WhatIsKept DEF Dropped
  <1>2. CASE Masking
    <2>1. Loaded(comments, rendering, mask) /\ AllowedRefMap = ReferenceMap
      BY <1>2, MaskIsLoaded
    <2>2. \A v \in Reportable : v.line \in Nat
      BY ReportedAreViolations, ViolationsAre DEF Inv
    <2>3. \A v \in Reportable :
              Dropped(v) <=> Masking /\ IgnoredBy(comments, AllowedRefMap, Rendered, v)
      BY <1>2, <2>1, <2>2, IgnoredAsAsked DEF Dropped, Rendered
    <2>. QED  BY <2>3, WhatIsKept
  <1>. QED  BY <1>1, <1>2

\* Whatever the order of the crawls and however often the templater rendered a
\* line, get_violations keeps what the rendered comments do not ask to ignore.
THEOREM CommentsDecide == Spec => []KeptAsDocumented
  <1>. QED  BY Invariance, KeepsAsDocumented, PTL

LEMMA UnusedAreNotNeeded == Inv => UnusedAreRedundant
  <1>. DEFINE needed == {mask[i].line : i \in DOMAIN mask \ warned}
  <1>. SUFFICES ASSUME Inv, pc = "done", Masking, exceptCodes = NoExcept
                PROVE  kept = {v \in Reportable : ~IgnoredBy(comments, AllowedRefMap, needed, v)}
    BY DEF UnusedAreRedundant
  <1>1. Loaded(comments, rendering, mask) /\ AllowedRefMap = ReferenceMap
    BY MaskIsLoaded
  <1>2. used \subseteq DOMAIN mask \ warned
    BY DEF Inv, MarkInv, ReportInv
  <1>3. needed \in SUBSET Rendered
    BY <1>1, MaskSays DEF Rendered
  <1>4. ASSUME NEW v \in Reportable PROVE Dropped(v) <=> IgnoredBy(comments, AllowedRefMap, needed, v)
    <2>1. v.line \in Nat
      BY ReportedAreViolations, ViolationsAre DEF Inv
    <2>2. \A i \in UsedFor(mask, v) : mask[i].line \in needed
      BY <1>2, WhatIsKept
    <2>3. IgnoredBy(comments, AllowedRefMap, needed, v) <=> Ignored(mask, v)
      <3>. HIDE DEF needed
      <3>. QED  BY <1>1, <1>3, <2>1, <2>2, UsedSuffice DEF Rendered
    <2>. QED  BY <2>3 DEF Dropped
  <1>. HIDE DEF needed
  <1>. QED  BY <1>4, WhatIsKept

\* The directives warned of as unused can go, all of them together: those on
\* the lines that stay leave the same violations.
THEOREM UnusedCanGo == Spec => []UnusedAreRedundant
  <1>. QED  BY Invariance, UnusedAreNotNeeded, PTL

-----------------------------------------------------------------------------
(* LintVariants: what the code's lists hold.                               *)

\* SetToSeq lists a finite set.
LEMMA ListingOf ==
    ASSUME NEW S, IsFiniteSet(S)
    PROVE  SetToSeq(S) \in Seq(S) /\ Range(SetToSeq(S)) = S
  <1>. DEFINE n == Cardinality(S)
              s == SetToSeq(S)
  <1>1. n \in Nat /\ ExistsBijection(1..n, S)
    BY FS_CardinalityType
  <1>2. s = CHOOSE f \in [1..n -> S] : IsInjective(f)
    BY DEF SetToSeq
  <1>3. \E f \in [1..n -> S] : IsInjective(f)
    BY <1>1 DEF ExistsBijection, Bijection, Injection
  <1>4. s \in Injection(1..n, S)
    BY <1>2, <1>3 DEF Injection
  <1>5. IsFiniteSet(1..n) /\ Cardinality(1..n) = n
    BY <1>1, FS_Interval
  <1>. HIDE DEF n, s
  <1>6. s \in Surjection(1..n, S)
    BY <1>4, <1>5, FS_Injection DEF n
  <1>7. s \in Seq(S)
    BY <1>1, <1>4 DEF Injection
  <1>8. Range(s) = S
    BY <1>6 DEF Surjection, Range
  <1>. QED  BY <1>7, <1>8 DEF s

\* The places of a list are sorted by how many come before them.
LEMMA Ranked ==
    ASSUME NEW places, IsFiniteSet(places), NEW Before,
           \A i \in places : <<i, i>> \notin Before,
           \A i, j, k \in places : <<i, j>> \in Before /\ <<j, k>> \in Before => <<i, k>> \in Before,
           \A i, j \in places : i = j \/ <<i, j>> \in Before \/ <<j, i>> \in Before
    PROVE  \A k \in 1..Cardinality(places) : \E i \in places :
               /\ Cardinality({j \in places : <<j, i>> \in Before}) = k - 1
               /\ \A l \in places : Cardinality({j \in places : <<j, l>> \in Before}) = k - 1 => l = i
  <1>. DEFINE n == Cardinality(places)
              Ahead(i) == {j \in places : <<j, i>> \in Before}
              rank == [i \in places |-> Cardinality(Ahead(i)) + 1]
  <1>1. n \in Nat
    BY FS_CardinalityType
  <1>2. ASSUME NEW i \in places
        PROVE  IsFiniteSet(Ahead(i)) /\ Cardinality(Ahead(i)) \in Nat /\ Cardinality(Ahead(i)) < n
    <2>1. Ahead(i) \in SUBSET places /\ Ahead(i) # places
      OBVIOUS
    <2>2. IsFiniteSet(Ahead(i)) /\ Cardinality(Ahead(i)) <= n /\ Cardinality(Ahead(i)) # n
      <3>. HIDE DEF Ahead
      <3>. QED  BY <2>1, FS_Subset
    <2>3. Cardinality(Ahead(i)) \in Nat
      <3>. HIDE DEF Ahead
      <3>. QED  BY <2>2, FS_CardinalityType
    <2>. HIDE DEF Ahead
    <2>. QED  BY <1>1, <2>2, <2>3
  <1>3. ASSUME NEW i \in places, NEW j \in places, <<i, j>> \in Before
        PROVE  Cardinality(Ahead(i)) # Cardinality(Ahead(j))
    <2>1. Ahead(i) \in SUBSET Ahead(j) /\ i \in Ahead(j) /\ i \notin Ahead(i)
      BY <1>3
    <2>2. Ahead(i) # Ahead(j)
      BY <2>1
    <2>. HIDE DEF Ahead
    <2>. QED  BY <1>2, <2>1, <2>2, FS_Subset
  <1>4. rank \in Injection(places, 1..n)
    <2>1. \A i \in places : Cardinality(Ahead(i)) + 1 \in 1..n
      <3>. HIDE DEF Ahead
      <3>. QED  BY <1>1, <1>2
    <2>2. \A i, j \in places : Cardinality(Ahead(i)) = Cardinality(Ahead(j)) => i = j
      <3>. HIDE DEF Ahead
      <3>. QED  BY <1>3
    <2>3. \A i, j \in places : rank[i] = rank[j] => i = j
      <3>. HIDE DEF Ahead
      <3>. QED  BY <1>2, <2>2
    <2>. HIDE DEF Ahead
    <2>. QED  BY <2>1, <2>3 DEF Injection, IsInjective
  <1>5. IsFiniteSet(1..n) /\ Cardinality(1..n) = n
    BY <1>1, FS_Interval
  <1>6. rank \in Surjection(places, 1..n)
    <2>. HIDE DEF rank
    <2>. QED  BY <1>4, <1>5, FS_Injection
  <1>7. ASSUME NEW k \in 1..n
        PROVE  \E i \in places :
                   /\ Cardinality(Ahead(i)) = k - 1
                   /\ \A l \in places : Cardinality(Ahead(l)) = k - 1 => l = i
    <2>1. PICK i \in places : rank[i] = k
      <3>. HIDE DEF rank
      <3>. QED  BY <1>6 DEF Surjection
    <2>2. Cardinality(Ahead(i)) = k - 1
      <3>. HIDE DEF Ahead
      <3>. QED  BY <1>2, <2>1
    <2>3. \A l \in places : Cardinality(Ahead(l)) = k - 1 => l = i
      <3>. HIDE DEF Ahead
      <3>. QED  BY <1>3, <2>2
    <2>. QED  BY <2>2, <2>3
  <1>. QED  BY <1>7

-----------------------------------------------------------------------------
(* Lists of violations.                                                    *)

\* The function that FlattenSeq is defined by.
Flattens(f, ss) == f = [i \in 1..Len(ss) |-> IF i = 1 THEN ss[i] ELSE f[i-1] \o ss[i]]

LEMMA FlattensExists ==
    ASSUME NEW S, NEW ss \in Seq(Seq(S))
    PROVE  \E f : Flattens(f, ss)
  <1>. DEFINE n == Len(ss)
              Step(g, i) == IF i = 1 THEN ss[i] ELSE g[i-1] \o ss[i]
              Good(m) == \E g \in [1..n -> Seq(S)] : \A i \in 1..m : g[i] = Step(g, i)
              Bad == {m \in 0..n : ~Good(m)}
  <1>1. n \in Nat /\ \A i \in 1..n : ss[i] \in Seq(S)
    OBVIOUS
  <1>2. SUFFICES ASSUME Bad # {} PROVE FALSE
    <2>1. Good(n)
      <3>. HIDE DEF Good
      <3>. QED  BY <1>1, <1>2
    <2>2. PICK g \in [1..n -> Seq(S)] : \A i \in 1..n : g[i] = Step(g, i)
      BY <2>1
    <2>3. g = [i \in 1..n |-> Step(g, i)]
      BY <2>2
    <2>. QED  BY <2>3 DEF Flattens
  <1>3. PICK m \in Bad : \A l \in Bad : m <= l
    <2>1. Bad \in SUBSET Nat
      BY <1>1
    <2>. HIDE DEF Bad
    <2>. QED  BY <1>2, <2>1, LeastNumber
  <1>4. m # 0
    <2>1. [i \in 1..n |-> <<>>] \in [1..n -> Seq(S)]
      BY EmptySeq
    <2>2. Good(0)
      BY <2>1
    <2>. QED  BY <2>2
  <1>5. m \in 1..n /\ m - 1 \in 0..n /\ m - 1 \notin Bad
    <2>. HIDE DEF Good
    <2>. QED  BY <1>1, <1>3, <1>4
  <1>6. PICK g \in [1..n -> Seq(S)] : \A i \in 1..(m-1) : g[i] = Step(g, i)
    BY <1>5
  <1>. DEFINE e == Step(g, m)
              h == [g EXCEPT ![m] = e]
  <1>7. e \in Seq(S)
    <2>1. CASE m = 1
      BY <1>1, <1>5, <2>1
    <2>2. CASE m # 1
      <3>1. m - 1 \in 1..n
        BY <1>5, <2>2
      <3>2. g[m-1] \in Seq(S) /\ ss[m] \in Seq(S)
        BY <1>1, <1>5, <1>6, <3>1
      <3>. QED  BY <2>2, <3>2, ConcatProperties
    <2>. QED  BY <2>1, <2>2
  <1>8. h \in [1..n -> Seq(S)] /\ h[m] = e /\ \A i \in 1..n : i # m => h[i] = g[i]
    <2>. HIDE DEF e
    <2>. QED  BY <1>5, <1>6, <1>7
  <1>9. ASSUME NEW i \in 1..m PROVE h[i] = Step(h, i)
    <2>1. i \in Nat /\ i \in 1..n /\ (i # 1 => i - 1 \in 1..n /\ i - 1 # m)
      BY <1>5
    <2>2. Step(h, i) = Step(g, i)
      BY <1>8, <2>1
    <2>3. CASE i = m
      BY <1>8, <2>2, <2>3
    <2>4. CASE i # m
      <3>1. i \in 1..(m-1)
        BY <1>5, <2>1, <2>4
      <3>2. g[i] = Step(g, i)
        BY <1>6, <3>1
      <3>. QED  BY <1>8, <2>1, <2>2, <2>4, <3>2
    <2>. QED  BY <2>3, <2>4
  <1>. HIDE DEF h, Step
  <1>10. Good(m)
    BY <1>8, <1>9
  <1>. QED  BY <1>3, <1>10

LEMMA FlattensType ==
    ASSUME NEW S, NEW ss \in Seq(Seq(S)), NEW f, Flattens(f, ss)
    PROVE  f \in [1..Len(ss) -> Seq(S)]
  <1>. DEFINE n == Len(ss)
              Bad == {m \in 1..n : f[m] \notin Seq(S)}
  <1>1. n \in Nat /\ \A i \in 1..n : ss[i] \in Seq(S)
    OBVIOUS
  <1>2. DOMAIN f = 1..n /\ f = [i \in 1..n |-> f[i]]
        /\ \A i \in 1..n : f[i] = IF i = 1 THEN ss[i] ELSE f[i-1] \o ss[i]
    BY DEF Flattens
  <1>3. SUFFICES ASSUME Bad # {} PROVE FALSE
    BY <1>2
  <1>4. PICK m \in Bad : \A l \in Bad : m <= l
    <2>1. Bad \in SUBSET Nat
      BY <1>1
    <2>. HIDE DEF Bad
    <2>. QED  BY <1>3, <2>1, LeastNumber
  <1>5. m # 1 /\ m \in 1..n
    BY <1>1, <1>2
  <1>6. m - 1 \in 1..n /\ m - 1 \notin Bad
    BY <1>4, <1>5
  <1>7. f[m-1] \in Seq(S) /\ ss[m] \in Seq(S) /\ f[m] = f[m-1] \o ss[m]
    BY <1>1, <1>2, <1>5, <1>6
  <1>8. f[m] \in Seq(S)
    BY <1>7, ConcatProperties
  <1>. QED  BY <1>5, <1>8

LEMMA FlattenIs ==
    ASSUME NEW S, NEW ss \in Seq(Seq(S)), NEW f, Flattens(f, ss)
    PROVE  FlattenSeq(ss) = IF ss = <<>> THEN <<>> ELSE f[Len(ss)]
  <1>1. CASE ss = <<>>
    BY <1>1 DEF FlattenSeq
  <1>2. CASE ss # <<>>
    <2>. DEFINE n == Len(ss)
                g == CHOOSE g : Flattens(g, ss)
                Bad == {m \in 1..n : f[m] # g[m]}
    <2>1. n \in Nat /\ n # 0 /\ n \in 1..n
      BY <1>2
    <2>2. Flattens(g, ss)
      OBVIOUS
    <2>3. FlattenSeq(ss) = g[n]
      BY <2>1 DEF FlattenSeq, Flattens
    <2>. HIDE DEF g
    <2>4. Bad = {}
      <3>1. SUFFICES ASSUME Bad # {} PROVE FALSE
        OBVIOUS
      <3>2. PICK m \in Bad : \A l \in Bad : m <= l
        <4>1. Bad \in SUBSET Nat
          BY <2>1
        <4>. HIDE DEF Bad
        <4>. QED  BY <3>1, <4>1, LeastNumber
      <3>3. \A i \in 1..n : /\ f[i] = IF i = 1 THEN ss[i] ELSE f[i-1] \o ss[i]
                            /\ g[i] = IF i = 1 THEN ss[i] ELSE g[i-1] \o ss[i]
        BY <2>2 DEF Flattens
      <3>4. m # 1 /\ m \in 1..n
        BY <3>3
      <3>5. m - 1 \in 1..n /\ m - 1 \notin Bad
        BY <2>1, <3>2, <3>4
      <3>. QED  BY <3>3, <3>4, <3>5
    <2>. QED  BY <1>2, <2>1, <2>3, <2>4
  <1>. QED  BY <1>1, <1>2

LEMMA FlattenedAre ==
    ASSUME NEW S, NEW ss \in Seq(Seq(S))
    PROVE  /\ FlattenSeq(ss) \in Seq(S)
           /\ Range(FlattenSeq(ss)) = UNION {Range(ss[i]) : i \in DOMAIN ss}
  <1>. DEFINE n == Len(ss)
              Parts(m) == UNION {Range(ss[i]) : i \in 1..m}
  <1>1. PICK f : Flattens(f, ss)
    BY FlattensExists
  <1>2. /\ n \in Nat /\ DOMAIN ss = 1..n
        /\ f \in [1..n -> Seq(S)]
        /\ \A i \in 1..n : ss[i] \in Seq(S) /\ f[i] = IF i = 1 THEN ss[i] ELSE f[i-1] \o ss[i]
    <2>1. n \in Nat /\ DOMAIN ss = 1..n /\ \A i \in 1..n : ss[i] \in Seq(S)
      OBVIOUS
    <2>2. f \in [1..n -> Seq(S)]
      BY <1>1, FlattensType
    <2>3. \A i \in 1..n : f[i] = IF i = 1 THEN ss[i] ELSE f[i-1] \o ss[i]
      BY <1>1 DEF Flattens
    <2>. QED  BY <2>1, <2>2, <2>3
  <1>. DEFINE Bad == {m \in 1..n : Range(f[m]) # Parts(m)}
  <1>3. Bad = {}
    <2>1. SUFFICES ASSUME Bad # {} PROVE FALSE
      OBVIOUS
    <2>2. PICK m \in Bad : \A l \in Bad : m <= l
      <3>1. Bad \in SUBSET Nat
        BY <1>2
      <3>. HIDE DEF Bad
      <3>. QED  BY <2>1, <3>1, LeastNumber
    <2>3. m \in 1..n
      OBVIOUS
    <2>4. CASE m = 1
      <3>1. f[m] = ss[1] /\ 1..m = {1}
        BY <1>2, <2>3, <2>4
      <3>2. Range(f[m]) = Parts(m)
        BY <3>1
      <3>. QED  BY <3>2
    <2>5. CASE m # 1
      <3>1. m - 1 \in 1..n /\ m - 1 \notin Bad /\ 1..m = (1..(m-1)) \cup {m}
        <4>1. m - 1 \in 1..n /\ ~(m <= m - 1) /\ 1..m = (1..(m-1)) \cup {m}
          BY <1>2, <2>3, <2>5
        <4>. HIDE DEF Bad
        <4>. QED  BY <2>2, <4>1
      <3>2. f[m] = f[m-1] \o ss[m] /\ f[m-1] \in Seq(S) /\ ss[m] \in Seq(S)
        BY <1>2, <2>3, <2>5, <3>1
      <3>3. Range(f[m]) = Range(f[m-1]) \cup Range(ss[m])
        BY <3>2, RangeConcatenation
      <3>4. Parts(m) = Parts(m-1) \cup Range(ss[m])
        BY <3>1
      <3>5. Range(f[m-1]) = Parts(m-1)
        BY <3>1
      <3>. QED  BY <3>3, <3>4, <3>5
    <2>. QED  BY <2>4, <2>5
  <1>4. CASE ss = <<>>
    <2>1. FlattenSeq(ss) = <<>>
      BY <1>1, <1>4, FlattenIs
    <2>2. Range(<<>>) = {} /\ DOMAIN ss = {}
      BY <1>4 DEF Range
    <2>. QED  BY <2>1, <2>2
  <1>5. CASE ss # <<>>
    <2>1. FlattenSeq(ss) = f[n] /\ n \in 1..n
      BY <1>1, <1>2, <1>5, FlattenIs
    <2>2. Range(f[n]) = Parts(n)
      BY <1>3, <2>1
    <2>. QED  BY <1>2, <2>1, <2>2
  <1>. QED  BY <1>4, <1>5

\* Each violation of a list has one first occurrence in it.
LEMMA FirstsAre ==
    ASSUME NEW S, NEW vs \in Seq(S)
    PROVE  /\ FirstOfEach(vs) \subseteq DOMAIN vs
           /\ {vs[i] : i \in FirstOfEach(vs)} = Range(vs)
           /\ \A i, j \in FirstOfEach(vs) : vs[i] = vs[j] => i = j
  <1>1. FirstOfEach(vs) \subseteq DOMAIN vs /\ DOMAIN vs \subseteq Nat /\ DOMAIN vs = 1..Len(vs)
    BY DEF FirstOfEach
  <1>2. ASSUME NEW v \in Range(vs) PROVE \E i \in FirstOfEach(vs) : vs[i] = v
    <2>. DEFINE places == {i \in DOMAIN vs : vs[i] = v}
    <2>1. places \in SUBSET Nat /\ places # {}
      BY <1>1 DEF Range
    <2>2. PICK i \in places : \A j \in places : i <= j
      <3>. HIDE DEF places
      <3>. QED  BY <2>1, LeastNumber
    <2>3. \A j \in 1..(i - 1) : vs[j] # vs[i]
      BY <1>1, <2>2
    <2>. QED  BY <2>2, <2>3 DEF FirstOfEach
  <1>3. ASSUME NEW i \in FirstOfEach(vs), NEW j \in FirstOfEach(vs), vs[i] = vs[j]
        PROVE  i = j
    <2>1. i \in Nat /\ j \in Nat /\ i >= 1 /\ j >= 1
      BY <1>1
    <2>2. ~(i < j) /\ ~(j < i)
      BY <1>3, <2>1 DEF FirstOfEach
    <2>. QED  BY <2>1, <2>2
  <1>. QED  BY <1>1, <1>2, <1>3 DEF Range

\* Sorting loses no violation and repeats none.
LEMMA SortedAre ==
    ASSUME NEW S, NEW vs \in Seq(S), \A v \in S : v.line \in Nat,
           NEW places \in SUBSET DOMAIN vs,
           \A i, j \in places : vs[i] = vs[j] => i = j
    PROVE  LET sorted == InSourceOrder(vs, places)
           IN  Range(sorted) = {vs[i] : i \in places} /\ IsInjective(sorted)
  <1>. DEFINE n == Cardinality(places)
              Before == {p \in places \X places : IsBefore(vs, p[1], p[2])}
              Ahead(i) == {j \in places : IsBefore(vs, j, i)}
              at == [k \in 1..n |-> CHOOSE i \in places : Cardinality(Ahead(i)) = k - 1]
              sorted == InSourceOrder(vs, places)
  <1>1. \A i \in places : i \in Nat /\ vs[i].line \in Nat
    OBVIOUS
  <1>2. IsFiniteSet(places)
    <2>1. IsFiniteSet(1..Len(vs)) /\ DOMAIN vs = 1..Len(vs)
      BY FS_Interval
    <2>. QED  BY <2>1, FS_Subset
  <1>3. \A i, j \in places : <<i, j>> \in Before <=> IsBefore(vs, i, j)
    OBVIOUS
  <1>4. /\ \A i \in places : <<i, i>> \notin Before
        /\ \A i, j, k \in places : <<i, j>> \in Before /\ <<j, k>> \in Before => <<i, k>> \in Before
        /\ \A i, j \in places : i = j \/ <<i, j>> \in Before \/ <<j, i>> \in Before
    <2>. HIDE DEF Before
    <2>. QED  BY <1>1, <1>3 DEF IsBefore
  <1>5. \A i \in places : Ahead(i) = {j \in places : <<j, i>> \in Before}
    BY <1>3
  <1>. HIDE DEF Ahead, Before
  <1>6. \A k \in 1..n : \E i \in places :
            /\ Cardinality(Ahead(i)) = k - 1
            /\ \A l \in places : Cardinality(Ahead(l)) = k - 1 => l = i
    <2>1. \A k \in 1..n : \E i \in places :
              /\ Cardinality({j \in places : <<j, i>> \in Before}) = k - 1
              /\ \A l \in places : Cardinality({j \in places : <<j, l>> \in Before}) = k - 1 => l = i
      BY <1>2, <1>4, Ranked
    <2>2. \A i \in places : Cardinality({j \in places : <<j, i>> \in Before}) = Cardinality(Ahead(i))
      BY <1>5
    <2>. QED  BY <2>1, <2>2
  <1>7. ASSUME NEW k \in 1..n PROVE at[k] \in places /\ Cardinality(Ahead(at[k])) = k - 1
    BY <1>6
  <1>8. n \in Nat
    BY <1>2, FS_CardinalityType
  <1>9. ASSUME NEW j \in 1..n, NEW k \in 1..n, at[j] = at[k] PROVE j = k
    <2>1. j - 1 = k - 1
      BY <1>7, <1>9
    <2>. QED  BY <1>8, <2>1
  <1>10. at \in Injection(1..n, places)
    <2>1. at \in [1..n -> places]
      BY <1>7
    <2>. HIDE DEF at
    <2>. QED  BY <1>9, <2>1 DEF Injection, IsInjective
  <1>11. at \in Surjection(1..n, places)
    <2>1. IsFiniteSet(1..n) /\ Cardinality(1..n) = n
      BY <1>8, FS_Interval
    <2>. HIDE DEF at
    <2>. QED  BY <1>2, <1>10, <2>1, FS_Injection
  <1>12. sorted = [k \in 1..n |-> vs[at[k]]]
    BY DEF InSourceOrder, Ahead, at
  <1>. HIDE DEF at, sorted
  <1>13. Range(sorted) = {vs[i] : i \in places}
    BY <1>11, <1>12 DEF Surjection, Range
  <1>14. IsInjective(sorted)
    BY <1>10, <1>12 DEF Injection, IsInjective
  <1>. QED  BY <1>13, <1>14 DEF sorted

-----------------------------------------------------------------------------
(* What is found in the variants and listed.                               *)

Problems == [line : Lines, code : Codes \union {TMP}]

ParsedVariants == UNION {Outcomes(lines) : lines \in Seq(Lines)}

LEMMA LinesOf ==
    ASSUME NEW lines \in Seq(Lines)
    PROVE  Range(lines) \subseteq Lines /\ IsFiniteSet(Range(lines))
  <1>1. Range(lines) \subseteq Lines
    BY DEF Range
  <1>. QED  BY <1>1, LinesAssumption, FS_Subset

LEMMA FinitelyMany ==
    ASSUME NEW L, IsFiniteSet(L), NEW C, IsFiniteSet(C)
    PROVE  IsFiniteSet([line : L, code : C])
  <1>. DEFINE f == [p \in L \X C |-> [line |-> p[1], code |-> p[2]]]
  <1>1. IsFiniteSet(L \X C)
    BY FS_Product
  <1>2. f \in Surjection(L \X C, [line : L, code : C])
    <2>1. f \in [L \X C -> [line : L, code : C]]
      OBVIOUS
    <2>2. ASSUME NEW v \in [line : L, code : C] PROVE \E p \in L \X C : f[p] = v
      <3>1. <<v.line, v.code>> \in L \X C /\ f[<<v.line, v.code>>] = v
        OBVIOUS
      <3>. QED  BY <3>1
    <2>. HIDE DEF f
    <2>. QED  BY <2>1, <2>2 DEF Surjection
  <1>. HIDE DEF f
  <1>. QED  BY <1>1, <1>2, FS_Surjection

LEMMA OutcomesAre ==
    ASSUME NEW lines \in Seq(Lines), NEW o \in Outcomes(lines)
    PROVE  /\ o.lines = lines
           /\ o.errors \subseteq [line : Range(lines), code : {PRS}] /\ IsFiniteSet(o.errors)
           /\ o.faults \subseteq [line : Range(lines), code : RuleCodes] /\ IsFiniteSet(o.faults)
           /\ o.errors \subseteq Problems /\ o.faults \subseteq Problems
  <1>1. /\ o.lines = lines
        /\ o.errors \subseteq [line : Range(lines), code : {PRS}]
        /\ o.faults \subseteq [line : Range(lines), code : RuleCodes]
    BY DEF Outcomes, ErrorsAt
  <1>2. IsFiniteSet([line : Range(lines), code : {PRS}])
        /\ IsFiniteSet([line : Range(lines), code : RuleCodes])
    BY LinesOf, FinitelyMany, FS_Singleton, CodesAssumption
  <1>3. IsFiniteSet(o.errors) /\ IsFiniteSet(o.faults)
    BY <1>1, <1>2, FS_Subset
  <1>4. Range(lines) \subseteq Lines
    BY LinesOf
  <1>5. o.errors \subseteq Problems /\ o.faults \subseteq Problems
    BY <1>1, <1>4 DEF Problems, Codes
  <1>. QED  BY <1>1, <1>3, <1>5

LEMMA MalformedAre ==
    ASSUME NEW cs, NEW lines \in Seq(Lines)
    PROVE  /\ MalformedOf(cs, lines) \subseteq [line : Range(lines), code : {PRS}]
           /\ MalformedOf(cs, lines) \subseteq Problems
           /\ IsFiniteSet(MalformedOf(cs, lines))
  <1>1. MalformedOf(cs, lines) \subseteq [line : Range(lines), code : {PRS}]
    BY DEF MalformedOf
  <1>2. IsFiniteSet([line : Range(lines), code : {PRS}])
    BY LinesOf, FinitelyMany, FS_Singleton
  <1>. QED  BY <1>1, <1>2, LinesOf, FS_Subset DEF Problems, Codes

\* What lint_fix_parsed finds in a variant and its mask lets through.
Found(cs, o) ==
    MalformedOf(cs, o.lines)
        \union {v \in o.faults : ~Ignored(DirectivesOf(cs, ReferenceMap, o.lines), v)}

LEMMA ErrorsListed ==
    ASSUME NEW lines \in Seq(Lines), NEW o \in Outcomes(lines)
    PROVE  ErrorsOf(o) \in Seq(Problems) /\ Range(ErrorsOf(o)) = o.errors
  <1>1. o.errors \subseteq Problems /\ IsFiniteSet(o.errors)
    BY OutcomesAre
  <1>2. SetToSeq(o.errors) \in Seq(o.errors) /\ Range(SetToSeq(o.errors)) = o.errors
    BY <1>1, ListingOf
  <1>. QED  BY <1>1, <1>2 DEF ErrorsOf

LEMMA FoundListed ==
    ASSUME NEW lines \in Seq(Lines), NEW o \in Outcomes(lines)
    PROVE  LintErrors(o) \in Seq(Problems) /\ Range(LintErrors(o)) = Found(comments, o)
  <1>. DEFINE left == {v \in o.faults : ~Ignored(DirectivesOf(comments, ReferenceMap, o.lines), v)}
              bad == MalformedOf(comments, o.lines)
  <1>1. left \subseteq Problems /\ IsFiniteSet(left)
    <2>1. o.faults \subseteq Problems /\ IsFiniteSet(o.faults)
      BY OutcomesAre
    <2>. QED  BY <2>1, FS_Subset
  <1>2. bad \subseteq Problems /\ IsFiniteSet(bad)
    BY OutcomesAre, MalformedAre
  <1>3. LintErrors(o) = SetToSeq(bad) \o SetToSeq(left)
    BY DEF LintErrors, Malformed, MaskOf, Filter
  <1>. HIDE DEF left, bad
  <1>4. /\ SetToSeq(bad) \in Seq(Problems) /\ Range(SetToSeq(bad)) = bad
        /\ SetToSeq(left) \in Seq(Problems) /\ Range(SetToSeq(left)) = left
    <2>1. SetToSeq(bad) \in Seq(bad) /\ SetToSeq(left) \in Seq(left)
      BY <1>1, <1>2, ListingOf
    <2>. QED  BY <1>1, <1>2, <2>1, ListingOf
  <1>5. Found(comments, o) = bad \union left
    BY DEF Found, left, bad
  <1>. QED  BY <1>3, <1>4, <1>5, RangeConcatenation, ConcatProperties

ErrorsIn(ps) == UNION {ps[i].errors : i \in DOMAIN ps}

\* Without a root the errors of all the variants are listed.
AllErrors == FlattenSeq([i \in DOMAIN parsed |-> ErrorsOf(parsed[i])])

LEMMA AllErrorsListed ==
    ASSUME parsed \in Seq(ParsedVariants)
    PROVE  /\ AllErrors \in Seq(Problems)
           /\ Range(AllErrors) = ErrorsIn(parsed)
  <1>. DEFINE lists == [i \in DOMAIN parsed |-> ErrorsOf(parsed[i])]
  <1>1. \A i \in DOMAIN parsed :
            ErrorsOf(parsed[i]) \in Seq(Problems) /\ Range(ErrorsOf(parsed[i])) = parsed[i].errors
    BY ErrorsListed DEF ParsedVariants
  <1>2. lists \in Seq(Seq(Problems)) /\ DOMAIN lists = DOMAIN parsed
        /\ \A i \in DOMAIN parsed : Range(lists[i]) = parsed[i].errors
    BY <1>1
  <1>. HIDE DEF lists
  <1>3. /\ FlattenSeq(lists) \in Seq(Problems)
        /\ Range(FlattenSeq(lists)) = UNION {Range(lists[i]) : i \in DOMAIN lists}
    BY <1>2, FlattenedAre
  <1>4. AllErrors = FlattenSeq(lists)
    BY DEF AllErrors, lists
  <1>5. UNION {Range(lists[i]) : i \in DOMAIN lists} = ErrorsIn(parsed)
    BY <1>2 DEF ErrorsIn
  <1>. QED  BY <1>3, <1>4, <1>5

-----------------------------------------------------------------------------
(* The invariant: what is in the list, and which mask will filter it.      *)

VariantsTypeInv ==
    /\ pc \in {"render", "parse", "lint", "report", "done"}
    /\ comments \in [Lines -> CommentForms]
    /\ limit \in Nat \ {0}
    /\ yields \in Seq(Seq(Lines))
    /\ yieldErrors \in Seq(TemplaterErrors) /\ Len(yieldErrors) <= 1
    /\ templating \in Seq(TemplaterErrors)
    /\ variants \in Seq(Seq(Lines))
    /\ parsed \in Seq(ParsedVariants)
    /\ Len(parsed) <= Len(variants)
    /\ \A i \in DOMAIN parsed : parsed[i] \in Outcomes(variants[i])
    /\ linted \in Nat /\ linted <= Len(parsed)
    /\ violations \in Seq(Problems)

\* Up to the limit, each variant comes with the errors of the templater.
RenderInv ==
    /\ Len(variants) <= limit
    /\ pc = "render" => Len(variants) < limit
    /\ Len(templating) <= Len(variants) * Len(yieldErrors) + (IF pc = "render" THEN 0 ELSE 1)

\* What is found in the first n of the variants ps.
FoundIn(cs, ps, n) == UNION {Found(cs, ps[i]) : i \in {i \in 1..n : ps[i].tree}}

\* With a root, the list grows by what is found in each variant linted; without
\* one, by the malformed comments of the source.
ListedInv ==
    /\ pc \in {"render", "parse"} => linted = 0
    /\ pc \in {"lint", "report", "done"} /\ HasRoot =>
           /\ Range(violations) =
                  Range(templating) \union parsed[1].errors \union FoundIn(comments, parsed, linted)
           /\ linted > 0 => ignoreMask = DirectivesOf(comments, ReferenceMap, parsed[1].lines)
           /\ pc # "lint" => linted = Len(parsed)
    /\ pc \in {"lint", "report", "done"} /\ ~HasRoot =>
           /\ Range(violations) =
                  Range(templating) \union ErrorsIn(parsed)
                      \union (IF pc = "lint" THEN {} ELSE MalformedOf(comments, SourceOrder))
           /\ pc # "lint" => ignoreMask = DirectivesOf(comments, ReferenceMap, SourceOrder)

\* Only directives of the mask are marked, and none before there is a mask.
MarkedInv ==
    /\ used \subseteq DOMAIN ignoreMask
    /\ pc # "done" /\ linted = 0 => used = {}
    /\ ~HasRoot => linted = 0

\* What the mask does not ignore is kept, once.
KeptInv ==
    pc = "done" =>
        /\ Range(kept) = {v \in Range(violations) : ~Ignored(ignoreMask, v)}
        /\ IsInjective(kept)

VariantsInv == VariantsTypeInv /\ RenderInv /\ ListedInv /\ MarkedInv /\ KeptInv

LEMMA VariantsStart ==
    ASSUME VariantsInit
    PROVE  VariantsInv
  <1>1. /\ comments \in [Lines -> CommentForms] /\ limit \in Nat \ {0} /\ yields \in Seq(Seq(Lines))
        /\ yieldErrors \in Seq(TemplaterErrors) /\ Len(yieldErrors) <= 1
        /\ templating = <<>> /\ variants = <<>> /\ parsed = <<>> /\ linted = 0
        /\ violations = <<>> /\ pc = "render" /\ used = {}
    <2>1. comments \in [Lines -> CommentForms]
      BY DEF VariantsInit
    <2>2. limit \in Nat \ {0} /\ yields \in Seq(Seq(Lines))
      BY VariantsAssumption DEF VariantsInit
    <2>3. yieldErrors \in Seq(TemplaterErrors) /\ Len(yieldErrors) <= 1
      <3>1. yieldErrors = <<>> \/ \E e \in TemplaterErrors : yieldErrors = <<e>>
        BY DEF VariantsInit
      <3>2. CASE yieldErrors = <<>>
        BY <3>2
      <3>3. ASSUME NEW e \in TemplaterErrors, yieldErrors = <<e>>
            PROVE  yieldErrors \in Seq(TemplaterErrors) /\ Len(yieldErrors) <= 1
        BY <3>3
      <3>. QED  BY <3>1, <3>2, <3>3
    <2>. QED  BY <2>1, <2>2, <2>3 DEF VariantsInit
  <1>2. \A S : <<>> \in Seq(S)
    BY EmptySeq
  <1>3. VariantsTypeInv
    BY <1>1, <1>2 DEF VariantsTypeInv
  <1>4. RenderInv
    BY <1>1 DEF RenderInv
  <1>5. ListedInv /\ MarkedInv /\ KeptInv
    BY <1>1 DEF ListedInv, MarkedInv, KeptInv, HasRoot
  <1>. QED  BY <1>3, <1>4, <1>5 DEF VariantsInv

\* The templater's variants and errors are collected.
LEMMA RenderKeeps ==
    ASSUME VariantsInv,
           Render \/ RenderEnds \/ \E error \in TemplaterErrors : TemplaterRaises(error)
    PROVE  VariantsInv'
  <1>. DEFINE T == Seq(Lines)
  <1>1. /\ pc = "render" /\ pc' \in {"render", "parse"}
        /\ UNCHANGED <<comments, limit, yieldErrors, parsed, linted, ignoreMask, used, violations, kept>>
    BY DEF Render, RenderEnds, TemplaterRaises, inputs
  <1>2. /\ yields' \in Seq(T) /\ variants' \in Seq(T)
        /\ templating' \in Seq(TemplaterErrors)
        /\ Len(variants') >= Len(variants)
        /\ \A i \in 1..Len(variants) : variants'[i] = variants[i]
        /\ RenderInv'
    <2>1. /\ yields \in Seq(T) /\ variants \in Seq(T) /\ templating \in Seq(TemplaterErrors)
          /\ yieldErrors \in Seq(TemplaterErrors) /\ Len(yieldErrors) \in {0, 1}
          /\ limit \in Nat /\ Len(variants) < limit /\ Len(variants) \in Nat
          /\ Len(templating) <= Len(variants) * Len(yieldErrors) /\ Len(templating) \in Nat
      <3>1. /\ yields \in Seq(T) /\ variants \in Seq(T) /\ templating \in Seq(TemplaterErrors)
            /\ yieldErrors \in Seq(TemplaterErrors) /\ Len(yieldErrors) <= 1 /\ limit \in Nat
        BY DEF VariantsInv, VariantsTypeInv
      <3>. HIDE DEF T
      <3>2. /\ Len(variants) \in Nat /\ Len(templating) \in Nat /\ Len(yieldErrors) \in Nat
        BY <3>1
      <3>3. Len(yieldErrors) \in {0, 1}
        <4>1. \A n \in Nat : n <= 1 => n \in {0, 1}
          OBVIOUS
        <4>. QED  BY <3>1, <3>2, <4>1
      <3>4. Len(variants) < limit
            /\ Len(templating) <= Len(variants) * Len(yieldErrors) + 0
        BY <1>1 DEF VariantsInv, RenderInv
      <3>5. Len(variants) * Len(yieldErrors) + 0 = Len(variants) * Len(yieldErrors)
        BY <3>2, <3>3
      <3>. QED  BY <3>1, <3>2, <3>3, <3>4, <3>5
    <2>2. CASE Render
      <3>1. /\ yields # <<>> /\ yields' = Tail(yields) /\ variants' = Append(variants, Head(yields))
            /\ templating' = templating \o yieldErrors
            /\ pc' = IF Len(variants') >= limit THEN "parse" ELSE "render"
        BY <2>2 DEF Render
      <3>. HIDE DEF T
      <3>2. yields' \in Seq(T) /\ Head(yields) \in T
        BY <2>1, <3>1
      <3>3. /\ variants' \in Seq(T) /\ Len(variants') = Len(variants) + 1
            /\ \A i \in 1..Len(variants) : variants'[i] = variants[i]
        BY <2>1, <3>1, <3>2, AppendProperties
      <3>4. templating' \in Seq(TemplaterErrors) /\ Len(templating') = Len(templating) + Len(yieldErrors)
        BY <2>1, <3>1, ConcatProperties
      <3>5. Len(templating') <= Len(variants') * Len(yieldErrors)
        <4>1. CASE Len(yieldErrors) = 0
          BY <2>1, <3>3, <3>4, <4>1
        <4>2. CASE Len(yieldErrors) = 1
          BY <2>1, <3>3, <3>4, <4>2
        <4>. QED  BY <2>1, <4>1, <4>2
      <3>6. RenderInv'
        <4>1. Len(yieldErrors') = Len(yieldErrors) /\ limit' = limit
          BY <1>1
        <4>2. Len(templating') <= Len(variants') * Len(yieldErrors') + (IF pc' = "render" THEN 0 ELSE 1)
          <5>1. CASE Len(yieldErrors) = 0
            BY <2>1, <3>3, <3>4, <3>5, <4>1, <5>1
          <5>2. CASE Len(yieldErrors) = 1
            BY <2>1, <3>3, <3>4, <3>5, <4>1, <5>2
          <5>. QED  BY <2>1, <5>1, <5>2
        <4>3. Len(variants') <= limit' /\ (pc' = "render" => Len(variants') < limit')
          BY <2>1, <3>1, <3>3, <4>1
        <4>. QED  BY <4>2, <4>3 DEF RenderInv
      <3>. QED  BY <2>1, <3>2, <3>3, <3>4, <3>6
    <2>3. CASE RenderEnds
      <3>1. pc' = "parse" /\ UNCHANGED <<yields, variants, templating>>
        BY <2>3 DEF RenderEnds
      <3>2. RenderInv'
        <4>1. CASE Len(yieldErrors) = 0
          BY <1>1, <2>1, <3>1, <4>1 DEF RenderInv
        <4>2. CASE Len(yieldErrors) = 1
          BY <1>1, <2>1, <3>1, <4>2 DEF RenderInv
        <4>. QED  BY <2>1, <4>1, <4>2
      <3>. HIDE DEF T
      <3>. QED  BY <2>1, <3>1, <3>2
    <2>4. ASSUME NEW error \in TemplaterErrors, TemplaterRaises(error)
          PROVE  /\ pc' = "parse" /\ UNCHANGED <<yields, variants>>
                 /\ templating' \in Seq(TemplaterErrors) /\ Len(templating') = Len(templating) + 1
      <3>1. pc' = "parse" /\ UNCHANGED <<yields, variants>> /\ templating' = Append(templating, error)
        BY <2>4 DEF TemplaterRaises
      <3>. QED  BY <2>1, <3>1, AppendProperties
    <2>5. ASSUME NEW error \in TemplaterErrors, TemplaterRaises(error) PROVE RenderInv'
      <3>1. CASE Len(yieldErrors) = 0
        BY <1>1, <2>1, <2>4, <2>5, <3>1 DEF RenderInv
      <3>2. CASE Len(yieldErrors) = 1
        BY <1>1, <2>1, <2>4, <2>5, <3>2 DEF RenderInv
      <3>. QED  BY <2>1, <3>1, <3>2
    <2>. HIDE DEF T
    <2>. QED  BY <2>1, <2>2, <2>3, <2>4, <2>5
  <1>3. VariantsTypeInv'
    <2>1. /\ Len(parsed) <= Len(variants') /\ Len(variants') \in Nat
          /\ \A i \in DOMAIN parsed : parsed[i] \in Outcomes(variants'[i])
      <3>1. Len(parsed) \in Nat /\ Len(variants) \in Nat /\ Len(variants') \in Nat
            /\ DOMAIN parsed = 1..Len(parsed) /\ Len(parsed) <= Len(variants)
        BY <1>2 DEF VariantsInv, VariantsTypeInv
      <3>2. ASSUME NEW i \in DOMAIN parsed PROVE parsed[i] \in Outcomes(variants'[i])
        <4>1. parsed[i] \in Outcomes(variants[i])
          BY DEF VariantsInv, VariantsTypeInv
        <4>2. i \in 1..Len(variants)
          BY <3>1
        <4>3. variants'[i] = variants[i]
          BY <1>2, <4>2
        <4>. QED  BY <4>1, <4>3
      <3>. HIDE DEF T
      <3>3. Len(parsed) <= Len(variants')
        BY <1>2, <3>1
      <3>. QED  BY <3>1, <3>2, <3>3
    <2>. QED  BY <1>1, <1>2, <2>1 DEF VariantsInv, VariantsTypeInv
  <1>4. (HasRoot)' <=> HasRoot
    BY <1>1 DEF HasRoot
  <1>5. ListedInv' /\ MarkedInv' /\ KeptInv'
    BY <1>1, <1>4 DEF VariantsInv, ListedInv, MarkedInv, KeptInv
  <1>. QED  BY <1>2, <1>3, <1>5 DEF VariantsInv

LEMMA ParseKeeps ==
    ASSUME VariantsInv, ParseNext
    PROVE  VariantsInv'
  <1>. DEFINE T == Seq(Lines)
              n == Len(parsed)
  <1>1. PICK outcome \in Outcomes(variants[n + 1]) :
            /\ n < Len(variants)
            /\ pc = "parse" /\ parsed' = Append(parsed, outcome)
            /\ UNCHANGED <<comments, limit, yieldErrors, yields, templating, variants, linted,
                           ignoreMask, used, violations, kept, pc>>
    BY DEF ParseNext, Parse, inputs
  <1>2. /\ parsed \in Seq(ParsedVariants) /\ n \in Nat /\ variants \in Seq(T) /\ Len(variants) \in Nat
        /\ DOMAIN parsed = 1..n
        /\ \A i \in 1..n : parsed[i] \in Outcomes(variants[i])
    BY DEF VariantsInv, VariantsTypeInv
  <1>3. outcome \in ParsedVariants
    <2>1. variants[n + 1] \in T
      <3>. HIDE DEF T
      <3>. QED  BY <1>1, <1>2
    <2>. QED  BY <2>1 DEF ParsedVariants
  <1>. HIDE DEF T
  <1>4. /\ parsed' \in Seq(ParsedVariants) /\ Len(parsed') = n + 1 /\ DOMAIN parsed' = 1..(n + 1)
        /\ parsed'[n + 1] = outcome /\ \A i \in 1..n : parsed'[i] = parsed[i]
    BY <1>1, <1>2, <1>3, AppendProperties
  <1>5. ASSUME NEW i \in 1..(n + 1) PROVE parsed'[i] \in Outcomes(variants[i])
    <2>1. CASE i = n + 1
      BY <1>4, <2>1
    <2>2. CASE i # n + 1
      <3>1. i \in 1..n
        BY <1>2, <2>2
      <3>. QED  BY <1>2, <1>4, <3>1
    <2>. QED  BY <2>1, <2>2
  <1>6. VariantsTypeInv'
    <2>1. Len(parsed') <= Len(variants) /\ linted <= Len(parsed') /\ linted \in Nat
      BY <1>1, <1>2, <1>4 DEF VariantsInv, VariantsTypeInv
    <2>. HIDE DEF n
    <2>. QED  BY <1>1, <1>4, <1>5, <2>1 DEF VariantsInv, VariantsTypeInv
  <1>7. RenderInv'
    BY <1>1 DEF VariantsInv, RenderInv
  <1>8. ListedInv' /\ MarkedInv' /\ KeptInv'
    BY <1>1 DEF VariantsInv, ListedInv, MarkedInv, KeptInv
  <1>. QED  BY <1>6, <1>7, <1>8 DEF VariantsInv

LEMMA TemplatingIsListed ==
    ASSUME VariantsInv
    PROVE  templating \in Seq(Problems)
  <1>1. TemplaterErrors \subseteq Problems
    BY VariantsAssumption DEF TemplaterErrors, Problems
  <1>2. templating \in Seq(TemplaterErrors)
    BY DEF VariantsInv, VariantsTypeInv
  <1>. QED  BY <1>1, <1>2

LEMMA SeedKeeps ==
    ASSUME VariantsInv, Seed
    PROVE  VariantsInv'
  <1>. DEFINE errors == IF HasRoot THEN ErrorsOf(parsed[1]) ELSE AllErrors
  <1>1. /\ pc = "parse" /\ pc' = "lint" /\ violations' = templating \o errors
        /\ UNCHANGED <<comments, limit, yieldErrors, yields, templating, variants, parsed, linted,
                       ignoreMask, used, kept>>
    BY DEF Seed, inputs, AllErrors
  <1>2. parsed \in Seq(ParsedVariants) /\ linted = 0
    BY <1>1 DEF VariantsInv, VariantsTypeInv, ListedInv
  <1>3. /\ errors \in Seq(Problems)
        /\ Range(errors) = IF HasRoot THEN parsed[1].errors ELSE ErrorsIn(parsed)
    <2>1. CASE HasRoot
      <3>1. parsed[1] \in ParsedVariants
        BY <1>2, <2>1 DEF HasRoot
      <3>. QED  BY <2>1, <3>1, ErrorsListed DEF ParsedVariants
    <2>2. CASE ~HasRoot
      BY <1>2, <2>2, AllErrorsListed
    <2>. QED  BY <2>1, <2>2
  <1>. HIDE DEF errors
  <1>4. violations' \in Seq(Problems) /\ Range(violations') = Range(templating) \union Range(errors)
    BY <1>1, <1>3, TemplatingIsListed, RangeConcatenation, ConcatProperties
  <1>5. VariantsTypeInv'
    BY <1>1, <1>4 DEF VariantsInv, VariantsTypeInv
  <1>6. RenderInv'
    BY <1>1 DEF VariantsInv, RenderInv
  <1>7. (HasRoot)' <=> HasRoot
    BY <1>1 DEF HasRoot
  <1>8. ListedInv'
    <2>1. FoundIn(comments, parsed, 0) = {}
      BY DEF FoundIn
    <2>. QED  BY <1>1, <1>2, <1>3, <1>4, <1>7, <2>1 DEF ListedInv
  <1>9. MarkedInv' /\ KeptInv'
    BY <1>1, <1>7 DEF VariantsInv, MarkedInv, KeptInv
  <1>. QED  BY <1>5, <1>6, <1>8, <1>9 DEF VariantsInv

LEMMA RootKeeps ==
    ASSUME VariantsInv, LintRoot
    PROVE  VariantsInv'
  <1>. DEFINE root == parsed[1]
              m == DirectivesOf(comments, ReferenceMap, root.lines)
  <1>1. /\ pc = "lint" /\ HasRoot /\ linted = 0 /\ linted' = 1
        /\ ignoreMask' = m
        /\ used' = UNION {UsedFor(m, v) : v \in root.faults}
        /\ violations' = violations \o LintErrors(root)
        /\ UNCHANGED <<comments, limit, yieldErrors, yields, templating, variants, parsed, kept, pc>>
    BY DEF LintRoot, MaskOf, inputs, Filter
  <1>2. /\ parsed \in Seq(ParsedVariants) /\ 1 \in DOMAIN parsed /\ Len(parsed) \in Nat
        /\ Len(parsed) >= 1 /\ root.tree /\ violations \in Seq(Problems)
    BY <1>1 DEF VariantsInv, VariantsTypeInv, HasRoot
  <1>3. LintErrors(root) \in Seq(Problems) /\ Range(LintErrors(root)) = Found(comments, root)
    BY <1>2, FoundListed DEF ParsedVariants
  <1>. HIDE DEF root
  <1>4. /\ violations' \in Seq(Problems)
        /\ Range(violations') = Range(violations) \union Found(comments, root)
    BY <1>1, <1>2, <1>3, RangeConcatenation, ConcatProperties
  <1>5. VariantsTypeInv'
    BY <1>1, <1>2, <1>4 DEF VariantsInv, VariantsTypeInv
  <1>6. RenderInv'
    BY <1>1 DEF VariantsInv, RenderInv
  <1>7. (HasRoot)' <=> HasRoot
    BY <1>1 DEF HasRoot
  <1>8. FoundIn(comments, parsed, 0) = {} /\ FoundIn(comments, parsed, 1) = Found(comments, root)
    <2>1. 1..0 = {} /\ 1..1 = {1}
      OBVIOUS
    <2>. QED  BY <1>2, <2>1 DEF FoundIn, root
  <1>9. ListedInv'
    <2>1. Range(violations) = Range(templating) \union root.errors \union FoundIn(comments, parsed, 0)
      BY <1>1 DEF VariantsInv, ListedInv, root
    <2>. QED  BY <1>1, <1>4, <1>7, <1>8, <2>1 DEF ListedInv, root
  <1>10. MarkedInv' /\ KeptInv'
    <2>1. used' \subseteq DOMAIN ignoreMask'
      BY <1>1, UsedArePlaces
    <2>. QED  BY <1>1, <1>7, <2>1 DEF MarkedInv, KeptInv
  <1>. QED  BY <1>5, <1>6, <1>9, <1>10 DEF VariantsInv

LEMMA AlternateKeeps ==
    ASSUME VariantsInv, LintAlternate
    PROVE  VariantsInv'
  <1>. DEFINE n == linted + 1
              variant == parsed[n]
              found2 == IF variant.tree THEN LintErrors(variant) ELSE <<>>
  <1>1. /\ pc = "lint" /\ HasRoot /\ linted \in 1..(Len(parsed) - 1) /\ linted' = n
        /\ violations' = violations \o found2
        /\ UNCHANGED <<comments, limit, yieldErrors, yields, templating, variants, parsed, ignoreMask,
                       used, kept, pc>>
    BY DEF LintAlternate, inputs
  <1>2. /\ parsed \in Seq(ParsedVariants) /\ Len(parsed) \in Nat /\ violations \in Seq(Problems)
        /\ n \in 1..Len(parsed) /\ n \in Nat
    BY <1>1 DEF VariantsInv, VariantsTypeInv
  <1>3. /\ found2 \in Seq(Problems)
        /\ Range(found2) = IF variant.tree THEN Found(comments, variant) ELSE {}
    <2>1. CASE variant.tree
      <3>1. variant \in ParsedVariants
        BY <1>2
      <3>. QED  BY <2>1, <3>1, FoundListed DEF ParsedVariants
    <2>2. CASE ~variant.tree
      <3>1. <<>> \in Seq(Problems) /\ Range(<<>>) = {}
        BY DEF Range
      <3>. QED  BY <2>2, <3>1
    <2>. QED  BY <2>1, <2>2
  <1>. HIDE DEF found2
  <1>4. violations' \in Seq(Problems) /\ Range(violations') = Range(violations) \union Range(found2)
    BY <1>1, <1>2, <1>3, RangeConcatenation, ConcatProperties
  <1>5. VariantsTypeInv'
    <2>1. linted' \in Nat /\ linted' <= Len(parsed)
      BY <1>1, <1>2
    <2>. QED  BY <1>1, <1>4, <2>1 DEF VariantsInv, VariantsTypeInv
  <1>6. RenderInv'
    BY <1>1 DEF VariantsInv, RenderInv
  <1>7. (HasRoot)' <=> HasRoot
    BY <1>1 DEF HasRoot
  <1>8. FoundIn(comments, parsed, n) = FoundIn(comments, parsed, linted) \union Range(found2)
    <2>1. 1..n = (1..linted) \union {n}
      BY <1>1, <1>2
    <2>. HIDE DEF n
    <2>2. CASE variant.tree
      BY <1>3, <2>1, <2>2 DEF FoundIn
    <2>3. CASE ~variant.tree
      BY <1>3, <2>1, <2>3 DEF FoundIn
    <2>. QED  BY <2>2, <2>3
  <1>9. ListedInv'
    <2>1. /\ Range(violations) =
                 Range(templating) \union parsed[1].errors \union FoundIn(comments, parsed, linted)
          /\ ignoreMask = DirectivesOf(comments, ReferenceMap, parsed[1].lines)
      BY <1>1 DEF VariantsInv, ListedInv
    <2>. HIDE DEF n
    <2>. QED  BY <1>1, <1>4, <1>7, <1>8, <2>1 DEF ListedInv
  <1>10. MarkedInv' /\ KeptInv'
    BY <1>1, <1>2, <1>7 DEF VariantsInv, MarkedInv, KeptInv
  <1>. QED  BY <1>5, <1>6, <1>9, <1>10 DEF VariantsInv

LEMMA SourceInOrder ==
    SourceOrder \in Seq(Lines) /\ Range(SourceOrder) = Lines
  <1>1. SourceOrder \in Seq(Lines)
    BY LinesAssumption, LinesAreNumbers DEF SourceOrder
  <1>. QED  BY <1>1 DEF SourceOrder, Range

LEMMA SourceKeeps ==
    ASSUME VariantsInv, MaskFromSource
    PROVE  VariantsInv'
  <1>. DEFINE bad == MalformedOf(comments, SourceOrder)
  <1>1. /\ pc = "lint" /\ ~HasRoot /\ pc' = "report"
        /\ ignoreMask' = DirectivesOf(comments, ReferenceMap, SourceOrder)
        /\ violations' = violations \o SetToSeq(bad)
        /\ UNCHANGED <<comments, limit, yieldErrors, yields, templating, variants, parsed, linted,
                       used, kept>>
    BY DEF MaskFromSource, MaskOf, Malformed, inputs
  <1>2. bad \subseteq Problems /\ IsFiniteSet(bad)
    BY SourceInOrder, MalformedAre
  <1>. HIDE DEF bad
  <1>3. SetToSeq(bad) \in Seq(Problems) /\ Range(SetToSeq(bad)) = bad
    <2>1. SetToSeq(bad) \in Seq(bad)
      BY <1>2, ListingOf
    <2>. QED  BY <1>2, <2>1, ListingOf
  <1>4. violations' \in Seq(Problems) /\ Range(violations') = Range(violations) \union bad
    <2>1. violations \in Seq(Problems)
      BY DEF VariantsInv, VariantsTypeInv
    <2>. QED  BY <1>1, <1>3, <2>1, RangeConcatenation, ConcatProperties
  <1>5. VariantsTypeInv'
    BY <1>1, <1>4 DEF VariantsInv, VariantsTypeInv
  <1>6. RenderInv'
    BY <1>1 DEF VariantsInv, RenderInv
  <1>7. (HasRoot)' <=> HasRoot
    BY <1>1 DEF HasRoot
  <1>8. ListedInv'
    <2>1. Range(violations) = Range(templating) \union ErrorsIn(parsed)
      BY <1>1 DEF VariantsInv, ListedInv
    <2>2. SourceOrder' = SourceOrder
      BY DEF SourceOrder
    <2>. QED  BY <1>1, <1>4, <1>7, <2>1, <2>2 DEF ListedInv, bad
  <1>9. MarkedInv' /\ KeptInv'
    BY <1>1, <1>7 DEF VariantsInv, MarkedInv, KeptInv
  <1>. QED  BY <1>5, <1>6, <1>8, <1>9 DEF VariantsInv

LEMMA LintEndKeeps ==
    ASSUME VariantsInv, LintEnds
    PROVE  VariantsInv'
  <1>1. /\ pc = "lint" /\ HasRoot /\ linted = Len(parsed) /\ pc' = "report"
        /\ UNCHANGED <<comments, limit, yieldErrors, yields, templating, variants, parsed, linted,
                       ignoreMask, used, violations, kept>>
    BY DEF LintEnds, inputs
  <1>2. (HasRoot)' <=> HasRoot
    BY <1>1 DEF HasRoot
  <1>3. VariantsTypeInv'
    BY <1>1 DEF VariantsInv, VariantsTypeInv
  <1>4. RenderInv'
    BY <1>1 DEF VariantsInv, RenderInv
  <1>5. ListedInv' /\ MarkedInv' /\ KeptInv'
    BY <1>1, <1>2 DEF VariantsInv, ListedInv, MarkedInv, KeptInv
  <1>. QED  BY <1>3, <1>4, <1>5 DEF VariantsInv

LEMMA ReportKeeps ==
    ASSUME VariantsInv, Report
    PROVE  VariantsInv'
  <1>. DEFINE unique == FirstOfEach(violations)
              batch == {violations[i] : i \in unique}
              places == {i \in unique : violations[i] \in Filter(ignoreMask, batch).left}
  <1>1. /\ pc = "report" /\ pc' = "done"
        /\ kept' = InSourceOrder(violations, places)
        /\ used' = used \union UNION {UsedFor(ignoreMask, v) : v \in batch}
        /\ UNCHANGED <<comments, limit, yieldErrors, yields, templating, variants, parsed, linted,
                       ignoreMask, violations>>
    BY DEF Report, inputs, Filter
  <1>2. violations \in Seq(Problems) /\ \A v \in Problems : v.line \in Nat
    BY LinesAreNumbers DEF VariantsInv, VariantsTypeInv, Problems
  <1>3. /\ unique \subseteq DOMAIN violations /\ batch = Range(violations)
        /\ \A i, j \in unique : violations[i] = violations[j] => i = j
    BY <1>2, FirstsAre
  <1>4. {violations[i] : i \in places} = {v \in Range(violations) : ~Ignored(ignoreMask, v)}
    <2>1. places = {i \in unique : ~Ignored(ignoreMask, violations[i])}
      BY DEF Filter
    <2>2. batch = {violations[i] : i \in unique}
      OBVIOUS
    <2>. HIDE DEF places, batch, unique
    <2>. QED  BY <1>3, <2>1, <2>2
  <1>5. places \in SUBSET DOMAIN violations
        /\ \A i, j \in places : violations[i] = violations[j] => i = j
    BY <1>3
  <1>. HIDE DEF places, batch, unique
  <1>6. Range(kept') = {violations[i] : i \in places} /\ IsInjective(kept')
    BY <1>1, <1>2, <1>5, SortedAre
  <1>7. VariantsTypeInv'
    BY <1>1 DEF VariantsInv, VariantsTypeInv
  <1>8. RenderInv'
    BY <1>1 DEF VariantsInv, RenderInv
  <1>9. (HasRoot)' <=> HasRoot
    BY <1>1 DEF HasRoot
  <1>10. ListedInv'
    BY <1>1, <1>9 DEF VariantsInv, ListedInv
  <1>11. MarkedInv'
    <2>1. used' \subseteq DOMAIN ignoreMask'
      BY <1>1, UsedArePlaces DEF VariantsInv, MarkedInv
    <2>. QED  BY <1>1, <1>9, <2>1 DEF VariantsInv, MarkedInv
  <1>12. KeptInv'
    BY <1>1, <1>4, <1>6 DEF KeptInv
  <1>. QED  BY <1>7, <1>8, <1>10, <1>11, <1>12 DEF VariantsInv

LEMMA VariantsStutter ==
    ASSUME VariantsInv, UNCHANGED variantsVars
    PROVE  VariantsInv'
  <1>1. UNCHANGED <<comments, limit, yieldErrors, yields, templating, variants, parsed, linted,
                    ignoreMask, used, violations, kept, pc>>
    BY DEF variantsVars, inputs
  <1>2. (HasRoot)' <=> HasRoot
    BY <1>1 DEF HasRoot
  <1>3. VariantsTypeInv'
    BY <1>1 DEF VariantsInv, VariantsTypeInv
  <1>4. RenderInv'
    BY <1>1 DEF VariantsInv, RenderInv
  <1>5. ListedInv' /\ MarkedInv' /\ KeptInv'
    BY <1>1, <1>2 DEF VariantsInv, ListedInv, MarkedInv, KeptInv
  <1>. QED  BY <1>3, <1>4, <1>5 DEF VariantsInv

\* From the template to the report, the list holds what was found in the
\* variants linted so far, and the mask is the one of the root or the source.
THEOREM VariantsInvariance == VariantsSpec => []VariantsInv
  <1>1. VariantsInit => VariantsInv
    BY VariantsStart
  <1>2. VariantsInv /\ [VariantsNext]_variantsVars => VariantsInv'
    BY RenderKeeps, ParseKeeps, SeedKeeps, RootKeeps, AlternateKeeps, SourceKeeps, LintEndKeeps,
       ReportKeeps, VariantsStutter DEF VariantsNext, Reported
  <1>. QED  BY <1>1, <1>2, PTL DEF VariantsSpec

-----------------------------------------------------------------------------
(* What the invariant gives at the end.                                    *)

LEMMA VariantsTypes == VariantsInv => VariantsTypeOK
  <1>. SUFFICES ASSUME VariantsInv PROVE VariantsTypeOK
    OBVIOUS
  <1>1. /\ pc \in {"render", "parse", "lint", "report", "done"}
        /\ variants \in Seq(Seq(Lines))
        /\ Len(variants) <= limit
        /\ Len(parsed) <= Len(variants)
        /\ linted <= Len(parsed)
        /\ \A i \in DOMAIN parsed : parsed[i] \in Outcomes(variants[i])
        /\ used \subseteq DOMAIN ignoreMask
    BY DEF VariantsInv, VariantsTypeInv, RenderInv, MarkedInv
  <1>2. Len(templating) <= Len(variants) * Len(yieldErrors) + 1
    <2>1. Len(templating) \in Nat /\ Len(variants) \in Nat /\ Len(yieldErrors) \in Nat
          /\ Len(yieldErrors) <= 1
      BY DEF VariantsInv, VariantsTypeInv
    <2>2. Len(templating) <= Len(variants) * Len(yieldErrors) + (IF pc = "render" THEN 0 ELSE 1)
      BY DEF VariantsInv, RenderInv
    <2>3. Len(variants) * Len(yieldErrors) \in Nat
      BY <2>1
    <2>. HIDE DEF VariantsTypeOK
    <2>. QED  BY <2>1, <2>2, <2>3
  <1>. QED  BY <1>1, <1>2 DEF VariantsTypeOK

\* The state of the check of the variants is of the kinds the code keeps: no
\* more variants than the limit allows, each parsed as it was rendered, and no
\* more templating errors than came with them.
THEOREM VariantsTyped == VariantsSpec => []VariantsTypeOK
  <1>. QED  BY VariantsInvariance, VariantsTypes, PTL

\* The mask that the comments of the variant numbered i make.
VariantMask(i) == DirectivesOf(comments, ReferenceMap, parsed[i].lines)

\* What is found in a variant is on its lines, and a malformed comment is one.
LEMMA VariantsAre ==
    ASSUME VariantsInv, NEW i \in DOMAIN parsed
    PROVE  /\ Loaded(comments, parsed[i].lines, VariantMask(i))
           /\ Range(parsed[i].lines) \subseteq Lines
           /\ \A v \in parsed[i].errors \union parsed[i].faults
                           \union MalformedOf(comments, parsed[i].lines) :
                  v.line \in Range(parsed[i].lines) /\ v.line \in Nat /\ v.code \in Codes
           /\ \A v \in MalformedOf(comments, parsed[i].lines) : comments[v.line].form = "malformed"
  <1>. DEFINE T == Seq(Lines)
  <1>1. variants[i] \in T /\ parsed[i] \in Outcomes(variants[i])
    <2>1. /\ variants \in Seq(T) /\ Len(parsed) <= Len(variants) /\ parsed \in Seq(ParsedVariants)
          /\ parsed[i] \in Outcomes(variants[i])
      BY DEF VariantsInv, VariantsTypeInv
    <2>. HIDE DEF T
    <2>2. Len(parsed) \in Nat /\ Len(variants) \in Nat /\ DOMAIN parsed = 1..Len(parsed)
      BY <2>1
    <2>3. i \in 1..Len(variants)
      BY <2>1, <2>2
    <2>. QED  BY <2>1, <2>3
  <1>2. /\ parsed[i].lines \in Seq(Lines)
        /\ parsed[i].errors \subseteq [line : Range(parsed[i].lines), code : {PRS}]
        /\ parsed[i].faults \subseteq [line : Range(parsed[i].lines), code : RuleCodes]
    BY <1>1, OutcomesAre
  <1>. HIDE DEF T
  <1>3. MalformedOf(comments, parsed[i].lines) \subseteq [line : Range(parsed[i].lines), code : {PRS}]
    BY <1>2, MalformedAre
  <1>4. Range(parsed[i].lines) \subseteq Lines
    BY <1>2, LinesOf
  <1>5. comments \in [Lines -> CommentForms]
    BY DEF VariantsInv, VariantsTypeInv
  <1>6. \A v \in parsed[i].errors \union parsed[i].faults \union MalformedOf(comments, parsed[i].lines) :
            v.line \in Range(parsed[i].lines) /\ v.line \in Nat /\ v.code \in Codes
    BY <1>2, <1>3, <1>4, LinesAreNumbers DEF Codes
  <1>7. \A v \in MalformedOf(comments, parsed[i].lines) : comments[v.line].form = "malformed"
    BY DEF MalformedOf
  <1>. QED  BY <1>2, <1>4, <1>5, <1>6, <1>7 DEF Loaded, VariantMask

\* With a root, what is kept is what was found and its mask does not ignore.
LEMMA RootDecides ==
    ASSUME VariantsInv, pc = "done", HasRoot
    PROVE  /\ 1 \in DOMAIN parsed /\ parsed[1].tree
           /\ Range(kept) = {v \in Range(templating) \union parsed[1].errors
                                 \union UNION {Found(comments, parsed[i]) : i \in Linted} :
                                 ~Ignored(VariantMask(1), v)}
  <1>1. /\ parsed \in Seq(ParsedVariants) /\ DOMAIN parsed = 1..Len(parsed) /\ Len(parsed) \in Nat
        /\ 1 \in DOMAIN parsed /\ parsed[1].tree /\ Len(parsed) > 0
    BY DEF VariantsInv, VariantsTypeInv, HasRoot
  <1>2. /\ linted = Len(parsed)
        /\ Range(violations) =
               Range(templating) \union parsed[1].errors \union FoundIn(comments, parsed, linted)
        /\ linted > 0 => ignoreMask = VariantMask(1)
    BY DEF VariantsInv, ListedInv, VariantMask
  <1>3. ignoreMask = VariantMask(1)
    BY <1>1, <1>2
  <1>4. FoundIn(comments, parsed, linted) = UNION {Found(comments, parsed[i]) : i \in Linted}
    BY <1>1, <1>2 DEF FoundIn, Linted
  <1>5. Range(kept) = {v \in Range(violations) : ~Ignored(ignoreMask, v)}
    BY DEF VariantsInv, KeptInv
  <1>. QED  BY <1>1, <1>2, <1>3, <1>4, <1>5

LEMMA RootIsKept == VariantsInv => AlternatesOnlyAdd
  <1>. DEFINE root == parsed[1]
              own == root.errors \union root.faults \union MalformedOf(comments, root.lines)
              m == VariantMask(1)
  <1>1. SUFFICES ASSUME VariantsInv, pc = "done", HasRoot
                 PROVE  {v \in own : ~Ignored(m, v)} \subseteq Range(kept)
    BY DEF AlternatesOnlyAdd, MaskOf, Malformed, Filter, VariantMask
  <1>2. 1 \in Linted
    BY <1>1, RootDecides DEF Linted
  <1>3. {v \in own : ~Ignored(m, v)} \subseteq root.errors \union Found(comments, root)
    BY DEF Found, VariantMask
  <1>. HIDE DEF own, m, root
  <1>4. Found(comments, root) \subseteq UNION {Found(comments, parsed[i]) : i \in Linted}
    BY <1>2 DEF root
  <1>. QED  BY <1>1, <1>3, <1>4, RootDecides DEF m, root

\* Whatever the other variants render and their comments say, all that the root
\* has to report and its own mask lets through is reported.
THEOREM AlternatesAdd == VariantsSpec => []AlternatesOnlyAdd
  <1>. QED  BY VariantsInvariance, RootIsKept, PTL

\* Range comments that every linted variant renders disable alike in its mask
\* and in the source.
LEMMA DisablesAreShared ==
    ASSUME VariantsInv, RangesAreShared, NEW i \in Linted, NEW v
    PROVE  DisabledAt(comments, Range(parsed[i].lines), v) <=> DisabledAt(comments, Lines, v)
  <1>. DEFINE own == Range(parsed[i].lines)
  <1>1. own \subseteq Lines
    BY VariantsAre DEF Linted
  <1>2. ASSUME NEW l \in Lines, NEW a \in {"disable", "enable"}, Asks(comments, l, a, v.code)
        PROVE  l \in own
    <2>1. IsDirective(comments[l]) /\ Directive(ReferenceMap, l, comments[l]).action = a
      BY <1>2 DEF Asks, Says
    <2>2. comments[l].form = "rules" /\ comments[l].action # "line"
      BY <2>1 DEF IsDirective, Directive
    <2>. QED  BY <2>2 DEF RangesAreShared
  <1>. HIDE DEF own
  <1>3. DisabledAt(comments, own, v) <=> DisabledAt(comments, Lines, v)
    BY <1>1, <1>2 DEF DisabledAt
  <1>. QED  BY <1>3 DEF own

\* So a linted variant ignores at its own lines what the source asks to.
LEMMA MasksAgree ==
    ASSUME VariantsInv, RangesAreShared, NEW i \in Linted, NEW v, v.line \in Nat
    PROVE  /\ Ignored(VariantMask(i), v) => IgnoredBy(comments, ReferenceMap, Lines, v)
           /\ v.line \in Range(parsed[i].lines) \/ comments[v.line].form = "malformed" =>
                  (Ignored(VariantMask(i), v) <=> IgnoredBy(comments, ReferenceMap, Lines, v))
  <1>1. i \in DOMAIN parsed
    BY DEF Linted
  <1>2. /\ Range(parsed[i].lines) \subseteq Lines
        /\ Ignored(VariantMask(i), v) <=>
               IgnoredBy(comments, ReferenceMap, Range(parsed[i].lines), v)
    BY <1>1, VariantsAre, IgnoredAsAsked
  <1>3. \A ls : IgnoredBy(comments, ReferenceMap, ls, v) <=>
                    \/ v.line \in ls /\ Asks(comments, v.line, "line", v.code)
                    \/ DisabledAt(comments, ls, v)
    BY DEF IgnoredBy, DisabledAt, Asks
  <1>4. comments[v.line].form = "malformed" => ~Asks(comments, v.line, "line", v.code)
    BY DEF Asks, Says, IsDirective
  <1>. QED  BY <1>2, <1>3, <1>4, DisablesAreShared

LEMMA RootReports ==
    ASSUME VariantsInv, pc = "done", HasRoot, RangesAreShared
    PROVE  Range(kept) = {v \in ToReport :
                              ~IgnoredBy(comments, ReferenceMap, Concerning(v), v)}
  <1>. DEFINE m == VariantMask(1)
              Asked(v) == IgnoredBy(comments, ReferenceMap, Lines, v)
              others == parsed[1].errors
                  \union UNION {parsed[i].faults \union MalformedOf(comments, parsed[i].lines) :
                                    i \in Linted}
              listed == parsed[1].errors \union UNION {Found(comments, parsed[i]) : i \in Linted}
  <1>1. ToReport = Range(templating) \union others
    BY DEF ToReport, Malformed
  <1>2. Range(kept) = {v \in Range(templating) \union listed : ~Ignored(m, v)}
    BY RootDecides
  <1>3. /\ 1 \in Linted /\ 1 \in DOMAIN parsed
        /\ \A i \in Linted : i \in DOMAIN parsed
    BY RootDecides DEF Linted
  <1>4. ASSUME NEW v \in Range(templating)
        PROVE  /\ v.code = TMP /\ v.line \in Nat
               /\ Ignored(m, v) <=> IgnoredBy(comments, ReferenceMap, Concerning(v), v)
    <2>1. v \in TemplaterErrors
      BY DEF VariantsInv, VariantsTypeInv, Range
    <2>2. v.code = TMP /\ v.line \in Nat
      BY <2>1, LinesAreNumbers, VariantsAssumption DEF TemplaterErrors
    <2>3. Concerning(v) = Range(parsed[1].lines)
      BY <2>2 DEF Concerning
    <2>. QED  BY <1>3, <2>2, <2>3, VariantsAre, IgnoredAsAsked
  <1>5. ASSUME NEW v \in others
        PROVE  v.line \in Nat /\ v.code # TMP /\ Concerning(v) = Lines
    <2>1. v.line \in Nat /\ v.code \in Codes
      BY <1>3, VariantsAre
    <2>2. v.code # TMP
      BY <2>1, VariantsAssumption
    <2>. QED  BY <2>1, <2>2 DEF Concerning
  <1>6. ASSUME NEW v \in others
        PROVE  v \in listed /\ ~Ignored(m, v) <=> ~Asked(v)
    <2>1. v.line \in Nat
      BY <1>5
    <2>2. CASE v \in parsed[1].errors
      <3>1. v \in listed /\ v.line \in Range(parsed[1].lines)
        BY <1>3, <2>2, VariantsAre
      <3>. QED  BY <1>3, <2>1, <3>1, MasksAgree
    <2>3. ASSUME NEW i \in Linted, v \in MalformedOf(comments, parsed[i].lines)
          PROVE  v \in listed /\ ~Ignored(m, v) <=> ~Asked(v)
      <3>1. v \in listed /\ comments[v.line].form = "malformed"
        BY <1>3, <2>3, VariantsAre DEF Found
      <3>. QED  BY <1>3, <2>1, <3>1, MasksAgree
    <2>4. ASSUME v \in UNION {parsed[i].faults : i \in Linted}, v \notin parsed[1].errors,
                 \A i \in Linted : v \notin MalformedOf(comments, parsed[i].lines)
          PROVE  v \in listed /\ ~Ignored(m, v) <=> ~Asked(v)
      <3>1. ASSUME NEW i \in Linted, v \in parsed[i].faults
            PROVE  Ignored(VariantMask(i), v) <=> Asked(v)
        <4>1. v.line \in Range(parsed[i].lines)
          BY <1>3, <3>1, VariantsAre
        <4>. QED  BY <2>1, <4>1, MasksAgree
      <3>2. v \in listed <=> \E i \in Linted : v \in parsed[i].faults /\ ~Ignored(VariantMask(i), v)
        BY <2>4 DEF Found, VariantMask
      <3>3. Ignored(m, v) => Asked(v)
        BY <1>3, <2>1, MasksAgree
      <3>. QED  BY <2>4, <3>1, <3>2, <3>3
    <2>. QED  BY <2>2, <2>3, <2>4
  <1>7. listed \subseteq others
    BY DEF Found
  <1>. HIDE DEF others, listed, m
  <1>8. ASSUME NEW v \in others
        PROVE  v \in Range(kept) <=> ~IgnoredBy(comments, ReferenceMap, Concerning(v), v)
    <2>1. v \notin Range(templating)
      <3>1. v.code # TMP
        BY <1>5
      <3>. QED  BY <1>4, <3>1
    <2>. QED  BY <1>2, <1>5, <1>6, <2>1
  <1>9. ASSUME NEW v \in Range(templating)
        PROVE  v \in Range(kept) <=> ~IgnoredBy(comments, ReferenceMap, Concerning(v), v)
    BY <1>2, <1>4, <1>9
  <1>10. Range(kept) \subseteq ToReport
    BY <1>1, <1>2, <1>7
  <1>. QED  BY <1>1, <1>8, <1>9, <1>10

LEMMA SourceReports ==
    ASSUME VariantsInv, pc = "done", ~HasRoot
    PROVE  Range(kept) = {v \in ToReport :
                              ~IgnoredBy(comments, ReferenceMap, Concerning(v), v)}
  <1>. DEFINE m == DirectivesOf(comments, ReferenceMap, SourceOrder)
  <1>1. /\ Range(violations) = ToReport
        /\ ignoreMask = m
    <2>1. /\ Range(violations) = Range(templating) \union ErrorsIn(parsed)
                                     \union MalformedOf(comments, SourceOrder)
          /\ ignoreMask = m
      BY DEF VariantsInv, ListedInv
    <2>2. ToReport = Range(templating) \union ErrorsIn(parsed)
                              \union MalformedOf(comments, SourceOrder)
      BY DEF ToReport, Malformed, ErrorsIn
    <2>. QED  BY <2>1, <2>2
  <1>2. Loaded(comments, SourceOrder, m) /\ Range(SourceOrder) = Lines
    BY SourceInOrder DEF Loaded, VariantsInv, VariantsTypeInv
  <1>. HIDE DEF m
  <1>3. ASSUME NEW v \in Range(violations)
        PROVE  Ignored(m, v) <=> IgnoredBy(comments, ReferenceMap, Concerning(v), v)
    <2>1. v.line \in Nat
      <3>1. v \in Problems
        BY DEF VariantsInv, VariantsTypeInv, Range
      <3>. QED  BY <3>1, LinesAreNumbers DEF Problems
    <2>2. Concerning(v) = Lines
      BY DEF Concerning
    <2>. QED  BY <1>2, <2>1, <2>2, IgnoredAsAsked
  <1>4. Range(kept) = {v \in Range(violations) : ~Ignored(ignoreMask, v)}
    BY DEF VariantsInv, KeptInv
  <1>. QED  BY <1>1, <1>3, <1>4

LEMMA VariantsReport == VariantsInv => ReportedAsDocumented
  <1>. SUFFICES ASSUME VariantsInv, pc = "done", RangesAreShared
                PROVE  /\ Range(kept) = {v \in ToReport :
                               ~IgnoredBy(comments, ReferenceMap, Concerning(v), v)}
                       /\ IsInjective(kept)
    BY DEF ReportedAsDocumented
  <1>1. IsInjective(kept)
    BY DEF VariantsInv, KeptInv
  <1>. QED  BY <1>1, RootReports, SourceReports

\* Whatever variants a template has, in number, lines, errors and faults, each
\* violation of the templater, the root's parser or the rules in a variant is
\* reported once unless the comments of the source ask to ignore it.
THEOREM CommentsDecideVariants == VariantsSpec => []ReportedAsDocumented
  <1>. QED  BY VariantsInvariance, VariantsReport, PTL
=============================================================================
