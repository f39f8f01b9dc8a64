------------------------------- MODULE Parser -------------------------------
(***************************************************************************)
(* Parser.parse and BaseFileSegment.root_parse: non-code at both ends is   *)
(* set aside, the root grammar matches what is between, the match is       *)
(* applied, and code that it left is unparsable. One step parses one file. *)
(*                                                                         *)
(* The second half states what a grammar means, as the places where it may *)
(* end, and what a parse promises with respect to it.                      *)
(***************************************************************************)
EXTENDS Grammar

VARIABLES
    segs,           \* the raws of the file
    match,          \* the match of the root grammar
    mixed,          \* whether the cache gave a match that was made for something else
    tree            \* the parsed file, <<>> if there is none

vars == <<dialect, grammars, segs, match, mixed, tree>>

-----------------------------------------------------------------------------
Awaited == Match(0, 0, "awaited", <<>>, <<>>)

Files(d) == {FlattenSeq(phrases) : phrases \in BoundedSeq(Dialects[d].phrases, Dialects[d].length)}

Init ==
    /\ dialect \in DOMAIN Dialects
    /\ segs \in Files(dialect) \ {<<>>}
    /\ match = Awaited /\ mixed = FALSE
    /\ tree = <<>> /\ grammars = Dialects[dialect].grammars

Start == SkipForward(segs, 0, Len(segs))
End == SkipBackward(segs, Len(segs), 0)
Code == SubSeq(segs, 1, End)

RootMatch(memo) == IF Start = Len(segs) THEN Result(EmptyAt(Start), memo)
                   ELSE MatchAt(Root, Code, Start, {}, memo)

ContentDropsGap(m) ==
    LET rest == SkipForward(segs, m.to, End)
    IN  IF ~IsTruthy(m) THEN Apply(Unparsable(Start, End))
        ELSE IF m.to = End THEN Apply(m)
        ELSE Apply(m) \o Apply(Unparsable(rest, End))
\* What the file is made of, from the first code to the last.
Content(m) ==
    LET rest == SkipForward(segs, m.to, End)
    IN  IF ~IsTruthy(m) THEN Apply(Unparsable(Start, End))
        ELSE IF m.to = End THEN Apply(m)
        ELSE Apply(m) \o Leaves(m.to, rest) \o Apply(Unparsable(rest, End))

RootParse(m) ==
    IF Aborted(m) THEN <<>>
    ELSE IF Start = Len(segs) THEN Leaves(0, Len(segs))
    ELSE Leaves(0, Start) \o Content(m) \o Leaves(End, Len(segs))

Parse ==
    /\ match = Awaited
    /\ \E r \in {RootMatch(EmptyMemo)} : match' = r.m /\ mixed' = r.memo.mixed
    /\ tree' = RootParse(match')
    /\ UNCHANGED <<dialect, grammars, segs>>

Next == Parse
Spec == Init /\ [][Next]_vars

Parsed == tree # <<>>

-----------------------------------------------------------------------------
(* What a tree holds.                                                      *)

RECURSIVE Raws(_)
Raws(nodes) ==
    FlattenSeq([k \in DOMAIN nodes |->
        IF nodes[k].class = "raw" THEN <<nodes[k].at>> ELSE Raws(nodes[k].kids)])

RECURSIVE Nodes(_)
Nodes(nodes) == UNION {{nodes[k]} \cup Nodes(nodes[k].kids) : k \in DOMAIN nodes}

UnparsableNodes == {n \in Nodes(tree) : n.class = "unparsable"}
Clean == Parsed /\ UnparsableNodes = {}

RECURSIVE Metas(_)
Metas(nodes) ==
    FlattenSeq([k \in DOMAIN nodes |->
        IF nodes[k].class \in {"indent", "dedent"} THEN <<nodes[k].class>>
        ELSE Metas(nodes[k].kids)])

\* Children follow each other inside their parent, and so do inserts.
RECURSIVE Nested(_)
Nested(m) ==
    /\ \A k \in DOMAIN m.kids :
        LET kid == m.kids[k]
        IN  /\ m.from <= kid.from /\ kid.from < kid.to /\ kid.to <= m.to
            /\ k > 1 => m.kids[k - 1].to <= kid.from
            /\ Nested(kid)
    /\ \A k \in DOMAIN m.inserts :
        LET at == m.inserts[k][1]
        IN  /\ m.from <= at /\ at <= m.to
            /\ \A j \in DOMAIN m.kids : at <= m.kids[j].from \/ m.kids[j].to <= at

\* Brackets are closed in the order they are opened.
Balanced ==
    LET Stack == FoldLeft(LAMBDA open, raw :
                    IF raw \in Openers THEN <<raw>> \o open
                    ELSE IF raw \notin Closers THEN open
                    ELSE IF open # <<>> /\ Closer[Head(open)] = raw THEN Tail(open)
                    ELSE <<raw>> \o open, <<>>, segs)
    IN  Stack = <<>>

-----------------------------------------------------------------------------
(* What grammars mean: where something that starts at i may end.           *)

Gap(g, s, ends) == IF g.gaps THEN {SkipForward(s, i, Len(s)) : i \in ends} ELSE ends

RECURSIVE EndsOf(_, _, _)
EndsOf(name, s, i) ==
    LET g == G(name)
        After(names, from) == UNION {EndsOf(n, s, j) : n \in names, j \in from}
        RECURSIVE InOrder(_, _)
        InOrder(k, from) ==
            IF k > Len(g.elements) THEN from
            ELSE IF G(g.elements[k]).kind = "meta" THEN InOrder(k + 1, from)
            ELSE InOrder(k + 1, After({g.elements[k]}, Gap(g, s, from))
                                    \cup (IF IsOptional(g.elements[k]) THEN from ELSE {}))
        \* Places reached, each with the options taken before it if their number counts.
        Options(place) ==
            {o \in ToSet(g.elements) :
                g.perElement > 0 =>
                    Cardinality({k \in DOMAIN place.taken : place.taken[k] = KeyOf(o)}) < g.perElement}
        Take(place, o, from) ==
            {[at |-> j, taken |-> IF g.perElement > 0 THEN Append(place.taken, KeyOf(o)) ELSE <<>>] :
                j \in EndsOf(o, s, from)}
        RECURSIVE Times(_, _)
        Times(n, places) ==
            LET From(place) == IF n > 0 /\ g.gaps THEN SkipForward(s, place.at, Len(s)) ELSE place.at
                next == UNION {UNION {Take(place, o, From(place)) : o \in Options(place)} :
                                   place \in places}
            IN  (IF n >= g.min THEN {place.at : place \in places} ELSE {})
                \cup (IF next = {} \/ (g.max > 0 /\ n = g.max) THEN {} ELSE Times(n + 1, next))
        Past(raws, from) == {j + 1 : j \in {j \in from : j < Len(s) /\ s[j + 1] \in raws}}
        RECURSIVE Delimiting(_, _)
        Delimiting(n, from) ==
            LET ends == After(ToSet(g.elements), from)
                over == Past(g.delimiter, Gap(g, s, ends))
                next == Gap(g, s, over) \cup (IF g.optionalDelimiter THEN Gap(g, s, ends) ELSE {})
            IN  IF ends = {} THEN {}
                ELSE (IF n >= g.minDelimiters THEN ends ELSE {})
                     \cup (IF g.trailing /\ n + 1 >= g.minDelimiters THEN over ELSE {})
                     \cup Delimiting(n + 1, next)
    IN  CASE g.kind = "string" -> Past(g.raws, {i})
          [] g.kind = "sequence" -> InOrder(1, {i})
          [] g.kind = "bracketed" ->
                Past({Closer[b] : b \in g.raws}, Gap(g, s, InOrder(1, Gap(g, s, Past(g.raws, {i})))))
          [] g.kind = "anyof" -> IF Excluded(g, s, i) THEN {} ELSE Times(0, {[at |-> i, taken |-> <<>>]})
          [] g.kind = "delimited" -> Delimiting(0, {i})
          [] g.kind = "ref" -> IF Excluded(g, s, i) THEN {} ELSE EndsOf(g.elements[1], s, i)
          [] g.kind = "segment" -> EndsOf(g.elements[1], s, i)
          [] g.kind = "anything" -> i .. Len(s)
          [] OTHER -> {}

-----------------------------------------------------------------------------
(* Properties                                                              *)

\* The trees that matching and parsing produce are made of what they should be.
TypeOK ==
    /\ dialect \in DOMAIN Dialects /\ mixed \in BOOLEAN
    /\ segs \in Seq(SegmentRaws) \ {<<>>}
    /\ Aborted(match) \/ (match.from <= match.to /\ match.to <= Len(segs))
    /\ \A n \in Nodes(tree) :
        /\ n.class \in {"raw", "indent", "dedent", "unparsable", "bracketed"}
                          \cup DOMAIN grammars
        /\ n.at \in 0 .. Len(segs)
        /\ n.class \in {"raw", "indent", "dedent"} <=> n.kids = <<>>

\* Child matches sit within their parent, in order and without overlaps, as
\* MatchResult.apply relies on and a TODO in Sequence.match wants tested; the
\* assertions of append and wrap, which guard this, do not fail, at least without
\* optional delimiters (NoAssertionFails).
WellNested ==
    /\ match.class # "crashed"
    /\ ~Aborted(match) => Nested(match)

\* The raws of the tree are those of the file, in order: Parser.parse checks
\* that nothing was dropped (check_still_complete).
NothingDropped == Parsed => Raws(tree) = [k \in DOMAIN segs |-> k - 1]

\* The parse stops with a SQLParseError for a bracket only if brackets do not match.
RaisesOnlyOnBrackets == match.class = "raised" => ~Balanced

\* None of the assertions on match results fails, whatever the file holds:
\* MatchResult.append says that the two must follow each other.
NoAssertionFails == match.class # "crashed"

\* A tree without unparsable sections is derived from the grammar. Greedy modes,
\* terminators, pruning and caching decide what is tried, never what is correct;
\* no option is taken more often than it may be.
CleanIsDerived == Clean /\ Start < Len(segs) => End \in EndsOf(Root, Code, Start)

\* An option that its first raw rules out could not have matched cleanly.
PrunedCannotMatch ==
    match # Awaited =>
        \A name \in DOMAIN grammars, i \in 0 .. Len(segs) - 1 :
            LET g == G(name)
            IN  g.kind # "meta" /\ IsCode(segs, i) /\ Prune(<<name>>, segs, i) = <<>>
                    => EndsOf(name, segs, i) \subseteq {i}

\* The parse cache, which is there to speed up repeated matching (longest_match),
\* does not change what is parsed, unless it gave a match made for something else:
\* what is looked up at the same place, for the same end, by an equal grammar and
\* under the same terminators is what would be matched there. Its key says all of
\* this but the terminators, and takes a modified copy for its original.
CacheIsTransparent == match # Awaited /\ ~mixed => match = RootMatch(NoMemo).m

\* Every indent has its dedent after it where all is parsed, whichever optional
\* parts are missing and wherever metas were moved around blocks and whitespace.
IndentsBalance ==
    LET metas == Metas(tree)
        Depth(n) == Cardinality({k \in 1 .. n : metas[k] = "indent"})
                        - Cardinality({k \in 1 .. n : metas[k] = "dedent"})
    IN  Clean => /\ \A n \in DOMAIN metas : Depth(n) >= 0
                 /\ Depth(Len(metas)) = 0
=============================================================================
