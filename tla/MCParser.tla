------------------------------ MODULE MCParser ------------------------------
(***************************************************************************)
(* Small dialects for TLC, each built the way the bundled dialects build   *)
(* the construct it is named after, and all short files over its raws.     *)
(***************************************************************************)
EXTENDS Parser

MCWords == {"select", "from", "case", "when", "end", "a", "b"}
MCCodeRaws == MCWords \cup {",", ";", "=", "(", ")", "[", "]"}
MCCloser == ("(" :> ")") @@ ("[" :> "]")
MCPersisting == {"("}
MCBlanks == {" "}
MCComments == {"--"}
MCBlockStarts == {"{if}"}
MCBlockEnds == {"{endif}"}

Word(raw) == raw :> [Grammar("string", <<>>) EXCEPT !.raws = {raw}]
WordsOf(raws) == [raw \in raws |-> Word(raw)[raw]]
Metas_ == ("Indent" :> Grammar("meta", <<"indent">>)) @@ ("Dedent" :> Grammar("meta", <<"dedent">>))
Maybe(name) == [Grammar("ref", <<name>>) EXCEPT !.optional = TRUE]
OneOf(names) == [Grammar("anyof", names) EXCEPT !.min = 1, !.max = 1]
Sequence(names) == Grammar("sequence", names)
SegmentOf(name) == Grammar("segment", <<name>>)
Delimited(names) == [Grammar("delimited", names) EXCEPT !.min = 1, !.max = 1, !.delimiter = {","}]
Bracketed(names) == [Grammar("bracketed", names) EXCEPT !.raws = {"("}]

\* Statements between semicolons; the select clause is greedy once started, and
\* nests in brackets, whose content is greedy.
SelectDialect ==
    [phrases |-> {<<"select", " ">>, <<"select", " ", "a">>, <<" ", "from", " ", "a">>, <<"a">>,
                  <<",">>, <<" ", ";">>, <<"(">>, <<")">>},
     length |-> 4,
     grammars |-> WordsOf({"select", "from", "a"}) @@ Metas_
        @@ ("root" :> [Delimited(<<"statement">>) EXCEPT !.delimiter = {";"}, !.trailing = TRUE])
        @@ ("statement" :> SegmentOf("select_statement"))
        @@ ("select_statement" :> Sequence(<<"select_clause", "from_clause?">>))
        @@ ("select_clause" :> SegmentOf("select_clause_grammar"))
        @@ ("select_clause_grammar" :>
                [Sequence(<<"select", "Indent", "elements", "Dedent">>) EXCEPT
                    !.mode = "once", !.terminators = {"from"}])
        @@ ("elements" :> Delimited(<<"element">>))
        @@ ("element" :> OneOf(<<"a", "bracketed">>))
        @@ ("bracketed" :> [Bracketed(<<"inner">>) EXCEPT !.mode = "greedy"])
        @@ ("inner" :> OneOf(<<"statement", "element">>))
        @@ ("from_clause?" :> Maybe("from_clause"))
        @@ ("from_clause" :> Sequence(<<"from", "Indent", "elements", "Dedent">>))]

\* A case expression: its clauses reset the terminators; a function name and its
\* brackets have no gap between them.
CaseDialect ==
    [phrases |-> {<<"case", " ", "when", " ">>, <<" ", "when", " ">>, <<" ", "end">>, <<"a">>,
                  <<"a", " ">>, <<"(">>, <<")">>},
     length |-> 4,
     grammars |-> WordsOf({"case", "when", "end", "a"}) @@ Metas_
        @@ ("root" :> Delimited(<<"expression">>))
        @@ ("expression" :> OneOf(<<"case_expression", "function", "a", "parens">>))
        @@ ("case_expression" :> SegmentOf("case_grammar"))
        @@ ("case_grammar" :> Sequence(<<"case", "Indent", "when_clauses", "Dedent", "end">>))
        @@ ("when_clauses" :> [Grammar("anyof", <<"when_clause">>) EXCEPT
                                    !.reset = TRUE, !.terminators = {"end"}])
        @@ ("when_clause" :> Sequence(<<"when", "Indent", "expression", "Dedent">>))
        @@ ("function" :> SegmentOf("function_grammar"))
        @@ ("function_grammar" :> [Sequence(<<"a", "arguments">>) EXCEPT !.gaps = FALSE])
        @@ ("arguments" :> Bracketed(<<"argument?">>))
        @@ ("argument?" :> Maybe("expression"))
        @@ ("parens" :> Bracketed(<<"expression">>))]

\* Options in any order, each once; the value of one is greedy, another is
\* anything; a name may not be the keyword that starts an option.
OptionsDialect ==
    [phrases |-> {<<"a", "=">>, <<"a">>, <<"=">>, <<"b", " ">>, <<",">>, <<"[", "a">>, <<"[">>, <<"]">>,
                  <<"--", " ">>},
     length |-> 4,
     grammars |-> WordsOf({"a", "b", "=", ","})
        @@ ("root" :> Sequence(<<"options", "rest?">>))
        @@ ("options" :> [Grammar("anyof", <<"option_a", "option_b">>) EXCEPT
                                !.perElement = 1, !.terminators = {","}])
        @@ ("option_a" :> Sequence(<<"a", "=", "value">>))
        @@ ("option_b" :> Sequence(<<"b", "list">>))
        @@ ("value" :> [OneOf(<<"name", "list">>) EXCEPT
                                !.mode = "greedy", !.terminators = {",", "b"}])
        @@ ("name" :> [Grammar("ref", <<"word">>) EXCEPT !.exclude = {"b"}])
        @@ ("word" :> [Grammar("string", <<>>) EXCEPT !.raws = {"a", "b"}])
        @@ ("list" :> [Bracketed(<<"a", "b?">>) EXCEPT !.raws = {"["}])
        @@ ("b?" :> Maybe("b"))
        @@ ("rest?" :> Maybe("rest"))
        @@ ("rest" :> Sequence(<<",", "anything">>))
        @@ ("anything" :> Grammar("anything", <<>>))]

\* Indents around templated blocks: metas move to the right side of the blocks.
BlocksDialect ==
    [phrases |-> {<<"select">>, <<"a">>, <<"from">>, <<" ">>, <<"{if}">>, <<"{endif}">>},
     length |-> 5,
     grammars |-> WordsOf({"select", "a", "from"}) @@ Metas_
        @@ ("root" :> Sequence(<<"clause", "tail?">>))
        @@ ("clause" :> SegmentOf("clause_grammar"))
        @@ ("clause_grammar" :> [Sequence(<<"select", "Indent", "names?", "Dedent">>) EXCEPT
                                    !.mode = "greedy", !.terminators = {"from"}])
        @@ ("names?" :> Maybe("names"))
        @@ ("names" :> Grammar("anyof", <<"a">>))
        @@ ("tail?" :> Maybe("tail"))
        @@ ("tail" :> Sequence(<<"Indent", "from", "Dedent">>))]

\* A value that ends before a terminator, or not: the same options are matched at
\* one place with two different ends. The second list is a copy of the first one.
LimitsDialect ==
    [phrases |-> {<<"a">>, <<"b">>, <<" ">>},
     length |-> 5,
     grammars |-> WordsOf({"a", "b"})
        @@ ("root" :> OneOf(<<"short", "long", "copies">>))
        @@ ("short" :> Sequence(<<"value", "b">>))
        @@ ("value" :> [Sequence(<<"choice">>) EXCEPT !.mode = "greedy", !.terminators = {"b"}])
        @@ ("long" :> Sequence(<<"choice", "a">>))
        @@ ("copies" :> Sequence(<<"pairs", "pairs">>))
        @@ ("choice" :> OneOf(<<"pair">>))
        @@ ("pairs" :> OneOf(<<"copy">>))
        @@ ("pair" :> Sequence(<<"a", "b?">>))
        @@ ("copy" :> [Sequence(<<"a", "b?">>) EXCEPT !.copyOf = "pair"])
        @@ ("b?" :> Maybe("b"))]

\* A list that a word ends, or without an end: the same options are matched at one
\* place, to one end, under two sets of terminators, and the cache has one answer.
TermsDialect ==
    [phrases |-> {<<"a">>, <<"b">>, <<" ">>},
     length |-> 5,
     grammars |-> WordsOf({"a", "b"})
        @@ ("root" :> OneOf(<<"ended", "open">>))
        @@ ("ended" :> Sequence(<<"ended_list", "b", "b">>))
        @@ ("ended_list" :> [Grammar("anyof", <<"item">>) EXCEPT !.terminators = {"b"}])
        @@ ("open" :> Grammar("anyof", <<"item">>))
        @@ ("item" :> OneOf(<<"a", "pair">>))
        @@ ("pair" :> Sequence(<<"a", "b">>))]

MCDialects == ("select" :> SelectDialect) @@ ("case" :> CaseDialect)
                @@ ("options" :> OptionsDialect) @@ ("blocks" :> BlocksDialect)
                @@ ("limits" :> LimitsDialect) @@ ("terms" :> TermsDialect)

\* A list with optional delimiters.
PairsDialect ==
    [phrases |-> {<<"a">>, <<",">>, <<" ">>},
     length |-> 5,
     grammars |-> WordsOf({"a"})
        @@ ("root" :> [Delimited(<<"a">>) EXCEPT !.optionalDelimiter = TRUE])]
MCPairs == ("pairs" :> PairsDialect)

=============================================================================
