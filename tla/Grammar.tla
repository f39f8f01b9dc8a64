------------------------------ MODULE Grammar ------------------------------
(***************************************************************************)
(* The grammars of core/parser: how each matches a sequence of segments    *)
(* (grammar/sequence, anyof, delimited, base, noncode and parsers), with   *)
(* the pruning, the cache and the terminators they share (longest_match    *)
(* and ParseContext). A dialect is a graph of named grammars, so that one  *)
(* grammar may be reached along several paths. Terminators and excluded    *)
(* patterns are sets of raws.                                              *)
(*                                                                         *)
(* The parser is sequential; what it keeps from one match to the next, its *)
(* cache, is threaded through as `memo`.                                   *)
(***************************************************************************)
EXTENDS Matching, TLC

CONSTANT Dialects   \* name -> [grammars |-> [name -> grammar], and what files hold: phrases,
                    \*          each a sequence of raws, and the bound length on their number]

Root == "root"

\* A grammar, with the defaults of its keyword arguments.
Grammar(kind, elements) ==
    [kind |-> kind, elements |-> elements, raws |-> {}, optional |-> FALSE, gaps |-> TRUE,
     mode |-> "strict", terminators |-> {}, reset |-> FALSE, exclude |-> {},
     min |-> 0, max |-> 0, perElement |-> 0, copyOf |-> "",
     delimiter |-> {}, trailing |-> FALSE, optionalDelimiter |-> FALSE, minDelimiters |-> 0]

Kinds == {"string", "sequence", "bracketed", "anyof", "delimited", "ref", "segment",
          "anything", "nothing", "meta"}

ASSUME DialectsAssumption ==
    \A d \in DOMAIN Dialects :
        /\ Dialects[d].length \in Nat
        /\ \A phrase \in Dialects[d].phrases : ToSet(phrase) \subseteq SegmentRaws
        /\ Root \in DOMAIN Dialects[d].grammars
        /\ \A name \in DOMAIN Dialects[d].grammars :
            LET g == Dialects[d].grammars[name]
            IN  /\ g.kind \in Kinds
                /\ g.kind = "string" => g.raws \subseteq CodeRaws
                /\ g.kind = "bracketed" => g.raws \subseteq Openers
                /\ g.kind # "meta" => ToSet(g.elements) \subseteq DOMAIN Dialects[d].grammars
                /\ g.copyOf # "" => g.copyOf \in DOMAIN Dialects[d].grammars

VARIABLES
    dialect,        \* the dialect of the file
    grammars        \* its grammars

G(name) == grammars[name]

-----------------------------------------------------------------------------
(* simple and is_optional.                                                 *)

Optional(g) == g.optional \/ (g.kind = "anyof" /\ g.min = 0)
IsOptional(name) == Optional(G(name))

\* simple: the raws a grammar can start with, if it can tell. A sequence tells
\* if all up to its first element that is not optional do.
NotSimple == [known |-> FALSE, raws |-> {}]
Hints(raws) == [known |-> TRUE, raws |-> raws]

AllHints(hints) ==
    IF \A h \in hints : h.known THEN Hints(UNION {h.raws : h \in hints}) ELSE NotSimple

LeadingElementsOnlyFirst(graph, elements) == {elements[k] : k \in {1} \cap DOMAIN elements}
LeadingElements(graph, elements) ==
    {elements[k] : k \in {k \in DOMAIN elements :
                              \A j \in 1 .. k - 1 : Optional(graph[elements[j]])}}

RECURSIVE SimpleIn(_, _)
SimpleIn(graph, name) ==
    LET g == graph[name]
        Each(names) == AllHints({SimpleIn(graph, n) : n \in names})
    IN  CASE g.kind \in {"string", "bracketed"} -> Hints(g.raws)
          [] g.kind = "sequence" -> Each(LeadingElements(graph, g.elements))
          [] g.kind \in {"anyof", "delimited", "ref", "segment"} -> Each(ToSet(g.elements))
          [] OTHER -> NotSimple

\* They are computed once (cached_method_for_parse_context).
SimpleHints ==
    [d \in DOMAIN Dialects |->
        [name \in DOMAIN Dialects[d].grammars |-> SimpleIn(Dialects[d].grammars, name)]]
Simple(name) == SimpleHints[dialect][name]

\* prune_options: whitespace and placeholders are passed over for the raw that
\* options are compared with; comments are not.
Prune(names, s, i) ==
    LET visible == {j \in i .. Len(s) - 1 : s[j + 1] \in CodeRaws \cup Comments}
        first == s[Min(visible) + 1]
    IN  IF visible = {} THEN names
        ELSE SelectSeq(names, LAMBDA n : Simple(n).known => first \in Simple(n).raws)

-----------------------------------------------------------------------------
(* What the grammars below share.                                          *)

\* deeper_match: the terminators in force below a grammar.
Push(g, terms) == IF g.reset THEN g.terminators ELSE terms \cup g.terminators

\* The outcome of a match, and the memo after it.
Result(m, memo) == [m |-> m, memo |-> memo]

\* cache_key: a copy of a grammar keeps the key of its original.
KeyOf(name) == IF G(name).copyOf = "" THEN name ELSE G(name).copyOf

\* A memo keeps what was matched, and for what; without one every match is made
\* afresh. It is mixed once it gave a match that was made for something else: for
\* a grammar that differs, or under other terminators.
EmptyMemo == [on |-> TRUE, kept |-> <<>>, mixed |-> FALSE]
NoMemo == [on |-> FALSE, kept |-> <<>>, mixed |-> FALSE]
CacheKeyWithoutEnd(name, s, i) == <<KeyOf(name), i>>
\* loc_key and matcher_key: the terminators in force are not part of the key.
CacheKey(name, s, i) == <<KeyOf(name), i, Len(s)>>
Remember(name, s, i, terms, r) ==
    LET entry == [m |-> r.m, grammar |-> [G(name) EXCEPT !.copyOf = ""], terms |-> terms]
    IN  IF r.memo.on THEN [r EXCEPT !.memo.kept = (CacheKey(name, s, i) :> entry) @@ @] ELSE r
MadeFor(entry, name, terms) ==
    entry.grammar = [G(name) EXCEPT !.copyOf = ""] /\ entry.terms = terms

Excluded(g, s, i) == i < Len(s) /\ s[i + 1] \in g.exclude

\* What follows a match ends it: a terminator, or nothing.
Terminated(s, to, terms) ==
    LET next == SkipForward(s, to, Len(s))
    IN  terms # {} /\ (next = Len(s) \/ s[next + 1] \in terms)

\* _flush_metas: where metas that wait go between the code before and after a gap.
FlushMetas(s, from, to, metas) ==
    LET blocks == {j \in from .. to - 1 : s[j + 1] \in Placeholders}
        at == IF "dedent" \notin ToSet(metas)
              THEN IF blocks # {} /\ s[Max(blocks) + 1] \in BlockEnds THEN Max(blocks) + 1 ELSE from
              ELSE IF blocks # {} /\ s[Min(blocks) + 1] \in BlockStarts THEN Min(blocks) ELSE to
    IN  [k \in DOMAIN metas |-> <<at, metas[k]>>]

\* _parse_mode_match_result: what a greedy choice could not match is unparsable.
ParseModeResult(g, s, m, max) ==
    IF g.mode = "strict" \/ \A j \in m.to .. max - 1 : ~IsCode(s, j)
    THEN m
    ELSE AppendMatch(m, Unparsable(SkipForward(s, m.to, Len(s)), max))

FinishSequenceTooShort(g, s, from, done) ==
    LET rest == SkipForward(s, done.at, done.max)
        stop == SkipBackward(s, done.max, rest)
        inserts == done.inserts \o [k \in DOMAIN done.metas |-> <<done.at, done.metas[k]>>]
    IN  IF g.mode = "strict" \/ done.max <= done.at \/ stop <= rest
        THEN Match(from, done.at, NoClass, inserts, done.kids)
        ELSE Match(from, rest, NoClass, inserts, Append(done.kids, Unparsable(rest, stop)))
FinishSequenceForgetsMetas(g, s, from, done) ==
    LET rest == SkipForward(s, done.at, done.max)
        stop == SkipBackward(s, done.max, rest)
    IN  IF g.mode = "strict" \/ done.max <= done.at \/ stop <= rest
        THEN Match(from, done.at, NoClass, done.inserts, done.kids)
        ELSE Match(from, stop, NoClass, done.inserts, Append(done.kids, Unparsable(rest, stop)))
\* A sequence that is through its elements: in a greedy mode what code is left is unparsable.
FinishSequence(g, s, from, done) ==
    LET rest == SkipForward(s, done.at, done.max)
        stop == SkipBackward(s, done.max, rest)
        inserts == done.inserts \o [k \in DOMAIN done.metas |-> <<done.at, done.metas[k]>>]
    IN  IF g.mode = "strict" \/ done.max <= done.at \/ stop <= rest
        THEN Match(from, done.at, NoClass, inserts, done.kids)
        ELSE Match(from, stop, NoClass, inserts, Append(done.kids, Unparsable(rest, stop)))

\* A sequence that ran out of segments before an element it needs.
RunOut(g, from, done) ==
    IF g.mode = "strict" \/ done.at = from THEN EmptyAt(from)
    ELSE Wrap(Match(from, done.at, NoClass,
                    done.inserts \o [k \in DOMAIN done.metas |-> <<done.at, done.metas[k]>>],
                    done.kids), "unparsable")

\* A sequence that met something else than an element it needs.
Mismatch(g, s, from, done) ==
    IF g.mode = "strict" \/ (g.mode = "once" /\ done.at = from) THEN EmptyAt(from)
    ELSE IF done.at = from THEN Unparsable(from, done.max)
    ELSE Match(from, done.max, NoClass, done.inserts,
               Append(done.kids, Unparsable(SkipForward(s, done.at, done.max), done.max)))

NeedsContentNever(g) == FALSE
\* A bracketed grammar whose content needs something cannot match empty brackets.
NeedsContent(g) ==
    \E k \in DOMAIN g.elements : G(g.elements[k]).kind # "meta" /\ ~IsOptional(g.elements[k])

-----------------------------------------------------------------------------
(* match of each grammar, on the segments s from i, with the terminators    *)
(* in force and the memo.                                                  *)

RECURSIVE MatchAt(_, _, _, _, _)

\* What the memo has for a grammar at a place, or else its match there.
Recall(name, s, i, terms, memo) ==
    LET key == CacheKey(name, s, i)
        Hit(entry) == Result(entry.m, [memo EXCEPT !.mixed = @ \/ ~MadeFor(entry, name, terms)])
    IN  IF key \in DOMAIN memo.kept THEN Hit(memo.kept[key])
        ELSE Remember(name, s, i, terms, MatchAt(name, s, i, terms, memo))

\* longest_match: the first option that matches everything or is followed by a
\* terminator, or else the longest; of equals the first.
LongestMatch(names, s, i, terms, memo) ==
    LET RECURSIVE Try(_, _)
        Weigh(options, best, r) ==
            LET found == [m |-> r.m, option |-> Head(options), memo |-> r.memo]
            IN  IF Aborted(r.m) \/ (IsTruthy(r.m) /\ r.m.to = Len(s)) THEN found
                ELSE IF Length(r.m) <= Length(best.m)
                THEN Try(Tail(options), [best EXCEPT !.memo = r.memo])
                ELSE IF Terminated(s, r.m.to, terms) THEN found
                ELSE Try(Tail(options), found)
        Try(options, best) ==
            IF options = <<>> THEN best
            ELSE Weigh(options, best, Recall(Head(options), s, i, terms, best.memo))
    IN  Try(IF i = Len(s) THEN <<>> ELSE Prune(names, s, i),
            [m |-> EmptyAt(i), option |-> Root, memo |-> memo])

\* Sequence.match. Metas wait until the code after them is known.
MatchSequence(g, s, i, terms, memo) ==
    LET Limit(from) == TrimToTerminator(s, from, g.terminators \cup terms)
        RECURSIVE Steps(_, _)
        Take(k, done, from, r) ==
            IF Aborted(r.m) THEN r
            ELSE IF IsTruthy(r.m)
            THEN Steps(k + 1, [done EXCEPT
                    !.at = r.m.to, !.first = FALSE, !.metas = <<>>, !.memo = r.memo,
                    !.max = IF done.first /\ g.mode = "once" THEN Limit(r.m.to) ELSE @,
                    !.inserts = @ \o FlushMetas(s, done.at, from, done.metas) \o InsertsOf(r.m),
                    !.kids = @ \o KidsOf(r.m)])
            ELSE IF IsOptional(g.elements[k]) THEN Steps(k + 1, [done EXCEPT !.memo = r.memo])
            ELSE Result(Mismatch(g, s, i, done), r.memo)
        Reach(k, done, from) ==
            IF from < done.max
            THEN Take(k, done, from,
                      MatchAt(g.elements[k], SubSeq(s, 1, done.max), from, terms, done.memo))
            ELSE IF IsOptional(g.elements[k]) THEN Steps(k + 1, done)
            ELSE Result(RunOut(g, i, done), done.memo)
        Steps(k, done) ==
            IF done.max = Unclosed THEN Result(Raised, done.memo)
            ELSE IF k > Len(g.elements) THEN Result(FinishSequence(g, s, i, done), done.memo)
            ELSE IF G(g.elements[k]).kind = "meta"
            THEN Steps(k + 1, [done EXCEPT !.metas = @ \o G(g.elements[k]).elements])
            ELSE Reach(k, done, IF g.gaps THEN SkipForward(s, done.at, done.max) ELSE done.at)
    IN  Steps(1, [at |-> i, max |-> IF g.mode = "greedy" THEN Limit(i) ELSE Len(s),
                  first |-> TRUE, metas |-> <<>>, inserts |-> <<>>, kids |-> <<>>, memo |-> memo])

\* Bracketed.match: the bracket, the content as a sequence that only the closing
\* bracket terminates, and the closing bracket. Metas of the content are dropped.
MatchBracketed(g, s, i, memo) ==
    LET Skip(j) == IF g.gaps THEN SkipForward(s, j, Len(s)) ELSE j
        close == Closer[s[i + 1]]
        Gap(from, to) ==
            IF to > from THEN <<Match(from, to, NoClass, <<>>, <<>>)>> ELSE <<>>
        Pair(m, end) ==
            Match(i, end + 1, IF s[i + 1] \in Persisting THEN "bracketed" ELSE NoClass,
                  << <<i + 1, "indent">>, <<end, "dedent">> >>,
                  <<Token(i)>> \o (IF Length(m) = 0 THEN <<>> ELSE KidsOf(m))
                      \o Gap(m.to, end) \o <<Token(end)>>)
        Close(r, end) ==
            IF end < Len(s) /\ s[end + 1] = close THEN Result(Pair(r.m, end), r.memo)
            ELSE Result(IF g.mode = "strict" THEN EmptyAt(i) ELSE Raised, r.memo)
        Around(r) ==
            IF Aborted(r.m) THEN r
            ELSE IF Length(r.m) = 0 /\ NeedsContent(g) THEN Result(EmptyAt(i), r.memo)
            ELSE Close(r, Skip(r.m.to))
    IN  IF s[i + 1] \notin g.raws THEN Result(EmptyAt(i), memo)
        ELSE Around(MatchSequence(g, s, Skip(i + 1), {close}, memo))

\* AnyNumberOf.match (OneOf: min and max are 1; AnySetOf: perElement is 1).
MatchAnyOf(g, s, i, terms, memo) ==
    LET RECURSIVE Times(_, _, _, _, _)
        Return(max, m, after) == Result(ParseModeResult(g, s, m, max), after)
        Add(max, n, matched, counts, r) ==
            IF Aborted(r.m) THEN Result(r.m, r.memo)
            ELSE IF ~IsTruthy(r.m)
            THEN Return(max, IF n < g.min THEN EmptyAt(i) ELSE matched, r.memo)
            ELSE IF g.perElement > 0 /\ counts[KeyOf(r.option)] >= g.perElement
            THEN Return(max, matched, r.memo)
            ELSE Times(max, n + 1, AppendMatch(matched, r.m),
                       [counts EXCEPT ![KeyOf(r.option)] = @ + 1], r.memo)
        Times(max, n, matched, counts, before) ==
            IF Aborted(matched) THEN Result(matched, before)
            ELSE IF n >= g.min /\ (matched.to >= max \/ (g.max > 0 /\ n >= g.max))
            THEN Return(max, matched, before)
            ELSE IF matched.to >= max THEN Result(EmptyAt(i), before)
            ELSE Add(max, n, matched, counts,
                     LongestMatch(g.elements, SubSeq(s, 1, max),
                                  IF g.gaps /\ n > 0 THEN SkipForward(s, matched.to, Len(s))
                                  ELSE matched.to,
                                  Push(g, terms), before))
        Within(max) ==
            IF max = Unclosed THEN Result(Raised, memo)
            ELSE Times(max, 0, EmptyAt(i), [key \in {KeyOf(n) : n \in ToSet(g.elements)} |-> 0], memo)
    IN  IF Excluded(g, s, i) THEN Result(EmptyAt(i), memo)
        ELSE Within(IF g.mode = "greedy" THEN TrimToTerminator(s, i, Push(g, terms)) ELSE Len(s))

\* Delimited.match: content and delimiters in turn. The delimiter passed last is
\* appended only with the content after it, and it is never reset.
MatchDelimited(g, s, i, terms, memo) ==
    LET Ends(at) ==
            \/ at >= Len(s)
            \/ s[at + 1] \in g.terminators \cup (terms \ g.delimiter)
            \/ ~g.gaps /\ ~IsCode(s, at) /\ at < Len(s) - 1
        Finish(done) ==
            LET trails == g.trailing /\ IsTruthy(done.delimiter) /\ ~done.seeking
            IN  IF done.count + (IF trails THEN 1 ELSE 0) < g.minDelimiters THEN EmptyAt(i)
                ELSE IF trails THEN AppendMatch(done.m, done.delimiter) ELSE done.m
        RECURSIVE Alternate(_)
        Add(done, delimited, r) ==
            IF Aborted(r.m) THEN Result(r.m, r.memo)
            ELSE IF ~IsTruthy(r.m) THEN Result(Finish(done), r.memo)
            ELSE Alternate([done EXCEPT
                    !.m = AppendMatch(IF delimited THEN AppendMatch(@, done.delimiter) ELSE @, r.m),
                    !.at = r.m.to, !.seeking = TRUE, !.memo = r.memo,
                    !.count = IF delimited THEN @ + 1 ELSE @])
        Reach(done, at) ==
            IF Ends(at) THEN Result(Finish(done), done.memo)
            ELSE IF ~done.seeking
            THEN Add(done, IsTruthy(done.delimiter),
                     LongestMatch(g.elements, s, at, terms \cup g.delimiter, done.memo))
            ELSE IF s[at + 1] \in g.delimiter
            THEN Alternate([done EXCEPT !.delimiter = Token(at), !.at = at + 1, !.seeking = FALSE])
            ELSE IF g.optionalDelimiter
            THEN Alternate([done EXCEPT !.at = at, !.seeking = FALSE])
            ELSE Result(Finish(done), done.memo)
        Alternate(done) ==
            IF Aborted(done.m) THEN Result(done.m, done.memo)
            ELSE Reach(done, IF g.gaps /\ done.at > i THEN SkipForward(s, done.at, Len(s))
                             ELSE done.at)
    IN  Alternate([m |-> EmptyAt(i), delimiter |-> EmptyAt(i), count |-> 0, seeking |-> FALSE,
                   at |-> i, memo |-> memo])

\* Anything.match
MatchAnything(g, s, i, terms) ==
    LET stops == Push(g, terms)
    IN  IF stops = {} THEN Match(i, Len(s), NoClass, <<>>, <<>>)
        ELSE GreedyMatch(s, i, stops, TRUE)

\* Ref.match and BaseSegment.match go on to the grammar they stand for.
MatchAt(name, s, i, terms, memo) ==
    LET g == G(name)
        Below(r) == IF g.kind = "segment" THEN Result(Wrap(r.m, name), r.memo) ELSE r
    IN  CASE g.kind = "string" ->
                Result(IF s[i + 1] \in g.raws THEN Token(i) ELSE EmptyAt(i), memo)
          [] g.kind = "sequence" -> MatchSequence(g, s, i, terms, memo)
          [] g.kind = "bracketed" -> MatchBracketed(g, s, i, memo)
          [] g.kind = "anyof" -> MatchAnyOf(g, s, i, terms, memo)
          [] g.kind = "delimited" -> MatchDelimited(g, s, i, terms, memo)
          [] g.kind \in {"ref", "segment"} ->
                IF Excluded(g, s, i) THEN Result(EmptyAt(i), memo)
                ELSE Below(MatchAt(g.elements[1], s, i, Push(g, terms), memo))
          [] g.kind = "anything" -> Result(MatchAnything(g, s, i, terms), memo)
          [] OTHER -> Result(EmptyAt(i), memo)
=============================================================================
