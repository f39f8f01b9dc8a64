------------------------------ MODULE Matching ------------------------------
(***************************************************************************)
(* What matching in core/parser rests on: MatchResult (match_result), and  *)
(* the algorithms of match_algorithms that move over the segments: skip    *)
(* non-code, resolve brackets, look ahead to a terminator. `s` is the      *)
(* sequence of raws handed to them, cut off where the code slices it, and  *)
(* indices count from 0 as in the code.                                    *)
(*                                                                         *)
(* Terminators are keywords and symbols, each one raw; so are brackets.    *)
(***************************************************************************)
EXTENDS Integers, Sequences, FiniteSets, SequencesExt

CONSTANTS
    CodeRaws,       \* raws that are code
    Words,          \* those that are alphabetic, as keywords are
    Closer,         \* the closing bracket of each opening one
    Persisting,     \* opening brackets of the pairs that stay in the tree
    Blanks,         \* whitespace and newlines
    Comments,       \* comments
    BlockStarts, BlockEnds  \* placeholders of templated blocks; they are metas

Placeholders == BlockStarts \cup BlockEnds
Openers == DOMAIN Closer
Closers == {Closer[b] : b \in Openers}
SegmentRaws == CodeRaws \cup Blanks \cup Comments \cup Placeholders

ASSUME RawsAssumption ==
    /\ Words \subseteq CodeRaws /\ Openers \cup Closers \subseteq CodeRaws \ Words
    /\ Openers \cap Closers = {} /\ Persisting \subseteq Openers
    /\ CodeRaws \cap (Blanks \cup Comments \cup Placeholders) = {}

IsCode(s, i) == s[i + 1] \in CodeRaws

-----------------------------------------------------------------------------
(* MatchResult. A match without a class is taken apart by its parent.      *)

NoClass == "none"
Match(from, to, class, inserts, kids) ==
    [from |-> from, to |-> to, class |-> class, inserts |-> inserts, kids |-> kids]
EmptyAt(i) == Match(i, i, NoClass, <<>>, <<>>)
Token(i) == Match(i, i + 1, "token", <<>>, <<>>)
Unparsable(from, to) == Match(from, to, "unparsable", <<>>, <<>>)

\* The parse ended in a SQLParseError, or in a failed assertion.
Raised == Match(0, 0, "raised", <<>>, <<>>)
Crashed == Match(0, 0, "crashed", <<>>, <<>>)
Aborted(m) == m.class \in {"raised", "crashed"}

Length(m) == m.to - m.from
IsTruthy(m) == Length(m) > 0 \/ m.inserts # <<>>

\* What a parent takes over from a match.
KidsOf(m) == IF m.class = NoClass THEN m.kids ELSE <<m>>
InsertsOf(m) == IF m.class = NoClass THEN m.inserts ELSE <<>>

\* append: a match put behind another; it must not start before the other ends.
AppendMatch(m, other) ==
    IF Aborted(m) THEN m
    ELSE IF ~IsTruthy(m) THEN other
    ELSE IF ~IsTruthy(other) THEN m
    ELSE IF m.to > other.from THEN Crashed
    ELSE Match(m.from, other.to, NoClass, InsertsOf(m) \o InsertsOf(other),
               KidsOf(m) \o KidsOf(other))

\* wrap: a match without length cannot have a class.
Wrap(m, class) ==
    IF Aborted(m) \/ ~IsTruthy(m) THEN m
    ELSE IF Length(m) = 0 THEN Crashed
    ELSE Match(m.from, m.to, class, InsertsOf(m), KidsOf(m))

\* The tree: raws by their index, metas, and segments of a class.
Leaf(i) == [class |-> "raw", at |-> i, kids |-> <<>>]
Meta(meta, i) == [class |-> meta, at |-> i, kids |-> <<>>]
Segment(class, i, kids) == [class |-> class, at |-> i, kids |-> kids]
Leaves(from, to) == [k \in 1 .. to - from |-> Leaf(from + k - 1)]

\* apply: from left to right the inserts of a place, its children, or its raw.
RECURSIVE Apply(_)
Apply(m) ==
    LET RECURSIVE Items(_)
        Items(p) ==
            LET metas == SelectSeq(m.inserts, LAMBDA ins : ins[1] = p)
                kids == SelectSeq(m.kids, LAMBDA kid : kid.from = p)
            IN  [k \in DOMAIN metas |-> Meta(metas[k][2], p)]
                    \o (IF kids # <<>>
                        THEN FlattenSeq([k \in DOMAIN kids |-> Apply(kids[k])])
                                 \o Items(Last(kids).to)
                        ELSE IF p < m.to THEN <<Leaf(p)>> \o Items(p + 1) ELSE <<>>)
    IN  IF m.class \in {NoClass, "token"} THEN Items(m.from)
        ELSE <<Segment(m.class, m.from, Items(m.from))>>

-----------------------------------------------------------------------------
(* Moving over segments.                                                   *)

\* skip_start_index_forward_to_code and skip_stop_index_backward_to_code
SkipForward(s, i, limit) ==
    LET code == {j \in i .. limit - 1 : IsCode(s, j)}
    IN  IF code = {} THEN limit ELSE Min(code)
SkipBackward(s, i, least) ==
    LET code == {j \in least + 1 .. i : IsCode(s, j - 1)}
    IN  IF code = {} THEN least ELSE Max(code)

\* next_match for matchers of one raw each: where the next of them is.
Nowhere == -1
NextMatch(s, i, raws) ==
    LET found == {j \in i .. Len(s) - 1 : s[j + 1] \in raws}
    IN  IF found = {} THEN Nowhere ELSE Min(found)

\* resolve_bracket: where the bracket opened at i is closed. A closing bracket
\* of another type before that, or none, is a SQLParseError.
RECURSIVE CloseOf(_, _)
CloseOf(s, i) ==
    LET RECURSIVE Seek(_)
        Seek(j) ==
            LET at == NextMatch(s, j, Openers \cup Closers)
                inner == CloseOf(s, at)
            IN  IF at = Nowhere THEN Nowhere
                ELSE IF s[at + 1] \in Openers
                THEN IF inner = Nowhere THEN Nowhere ELSE Seek(inner + 1)
                ELSE IF s[at + 1] = Closer[s[i + 1]] THEN at ELSE Nowhere
    IN  Seek(i + 1)

\* The match of a bracket pair, with the pairs directly inside it.
RECURSIVE BracketMatch(_, _, _)
BracketMatch(s, i, nested) ==
    LET close == CloseOf(s, i)
        RECURSIVE Inside(_)
        Inside(j) ==
            LET at == NextMatch(s, j, Openers)
            IN  IF at = Nowhere \/ at > close THEN <<>>
                ELSE <<BracketMatch(s, at, FALSE)>> \o Inside(CloseOf(s, at) + 1)
    IN  Match(i, close + 1, IF s[i + 1] \in Persisting THEN "bracketed" ELSE NoClass,
              << <<i + 1, "indent">>, <<close, "dedent">> >>,
              <<Token(i)>> \o (IF nested THEN Inside(i + 1) ELSE <<>>) \o <<Token(close)>>)

\* next_ex_bracket_match: the next of the raws that is not inside brackets, and
\* the brackets passed. A closing bracket first means no match.
Unclosed == -2
RECURSIVE NextExBracketMatch(_, _, _)
NextExBracketMatch(s, i, raws) ==
    LET at == NextMatch(s, i, raws \cup Openers \cup Closers)
        close == CloseOf(s, at)
        rest == NextExBracketMatch(s, close + 1, raws)
        stray == at # Nowhere /\ s[at + 1] \in Closers
    IN  IF at = Nowhere \/ s[at + 1] \in raws THEN [at |-> at, stray |-> FALSE, kids |-> <<>>]
        ELSE IF stray THEN [at |-> Nowhere, stray |-> TRUE, kids |-> <<>>]
        ELSE IF close = Nowhere THEN [at |-> Unclosed, stray |-> FALSE, kids |-> <<>>]
        ELSE [rest EXCEPT !.kids = IF rest.stray THEN <<>> ELSE <<BracketMatch(s, at, TRUE)>> \o @]

AllowedAtForSymbolsToo(s, at, working) ==
    \/ at = working
    \/ \E j \in working .. at - 1 :
           s[j + 1] \in Blanks /\ \A k \in j + 1 .. at - 1 : s[k + 1] \in Placeholders
\* A keyword ends a greedy match only where whitespace comes before it, or at
\* the start.
AllowedAt(s, at, working) ==
    \/ s[at + 1] \notin Words
    \/ at = working
    \/ \E j \in working .. at - 1 :
           s[j + 1] \in Blanks /\ \A k \in j + 1 .. at - 1 : s[k + 1] \in Placeholders

\* greedy_match: everything up to one of the raws, without the non-code before
\* it, with the brackets passed as children if nested.
GreedyMatch(s, i, raws, nested) ==
    LET Upto(stop, at, kids) == Match(i, IF stop = i THEN at ELSE stop, NoClass, <<>>, kids)
        RECURSIVE Claim(_, _, _)
        Claim(working, before, next) ==
            LET kids == before \o (IF nested THEN next.kids ELSE <<>>)
            IN  IF next.at = Unclosed THEN Raised
                ELSE IF next.at = Nowhere THEN Match(i, Len(s), NoClass, <<>>, kids)
                ELSE IF AllowedAt(s, next.at, working)
                THEN Upto(SkipBackward(s, next.at, i), next.at, kids)
                ELSE Claim(next.at + 1, kids, NextExBracketMatch(s, next.at + 1, raws))
    IN  Claim(i, <<>>, NextExBracketMatch(s, i, raws))

\* trim_to_terminator: how far a greedy grammar may go.
TrimToTerminator(s, i, raws) ==
    LET Before(term) == IF Aborted(term) THEN Unclosed ELSE SkipBackward(s, term.to, i)
    IN  IF i >= Len(s) THEN Len(s)
        ELSE IF s[i + 1] \in raws THEN i
        ELSE Before(GreedyMatch(s, i, raws, FALSE))
=============================================================================
