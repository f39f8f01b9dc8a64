---------------------------- MODULE MCApplyFixes ----------------------------
(***************************************************************************)
(* Four trees of the same raws: a statement with an expression in it, the  *)
(* expression in brackets, which have no grammar of their own, with an     *)
(* unparsable section beside it, and within an unparsable section.         *)
(***************************************************************************)
EXTENDS ApplyFixes

Segments(inner) == [n \in {Root, "stmt", "expr"} |->
    CASE n = Root -> <<"stmt", "end">>
      [] n = "stmt" -> <<"a", "ws">> \o inner
      [] n = "expr" -> <<"b", "c">>]

Plain == [kids |-> Segments(<<"expr">>), grammar |-> {Root, "stmt", "expr"}, unparsable |-> {}]
Bracketed == [kids |-> Segments(<<"bracketed">>) @@ ("bracketed" :> <<"(", "expr", ")">>),
              grammar |-> {Root, "stmt", "expr"}, unparsable |-> {}]
Unparsed == [kids |-> Segments(<<"expr", "junk">>) @@ ("junk" :> <<"d">>),
             grammar |-> {Root, "stmt", "expr"}, unparsable |-> {"junk"}]

Wrapped == [kids |-> Segments(<<"junk">>) @@ ("junk" :> <<"d", "expr">>),
            grammar |-> {Root, "stmt", "expr"}, unparsable |-> {"junk"}]

MCTrees == {Plain, Bracketed, Unparsed, Wrapped}

New(raw) == [raw |-> raw, sources |-> <<>>]
Fix(type, anchor, edit) == [type |-> type, anchor |-> anchor, edit |-> edit, alike |-> FALSE]
Swap(anchor, edit) == [type |-> "replace", anchor |-> anchor, edit |-> edit, alike |-> TRUE]

MCFixesOf == [tr \in Trees |->
    LET anchors == Anchors(tr) \ {Root, "end", "ws", "(", ")"}
    IN  {Fix("delete", k, <<>>) : k \in anchors \cup {"ws"}}
        \cup {Fix("replace", k, <<New("x")>>) : k \in anchors}
        \cup {Swap("b", <<New("B")>>), Swap("c", <<New("C")>>), Fix("replace", "b", <<New("_")>>)}
        \cup {Swap(k, <<New("x"), New("_"), New("C")>>) : k \in anchors \cap Inner(tr)}
        \cup {Fix("create_before", k, <<New("x"), New("_")>>) : k \in anchors}
        \cup {Fix("create_before", k, <<New("_")>>) : k \in anchors}
        \cup {Fix("create_after", k, <<New("_")>>) : k \in anchors}
        \cup {Swap("b", <<[raw |-> "b", sources |-> <<s>>]>>) : s \in {"s1", "s2"}}]
=============================================================================
