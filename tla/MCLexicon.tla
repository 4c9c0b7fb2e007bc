------------------------------ MODULE MCLexicon ------------------------------
\* The tokens of the small instances that are not plain words, with what the
\* parser sees of each, and the readings of pieces, paths and query strings.
EXTENDS Integers, Sequences, TLC

Call(name, arguments, text) ==
    [long |-> TRUE, opens |-> TRUE, closes |-> TRUE, name |-> name,
     ended |-> TRUE, arguments |-> arguments, text |-> text]

MCForm ==
       "%[hdr(a)]"      :> Call("hdr", <<"a">>, <<"%[hdr(a)]">>)
    @@ "%[hdr(A,0)]"    :> Call("hdr", <<"A", "0">>, <<"%[hdr(A", "0)]">>)
    @@ "%[hdr(a,-2)]"   :> Call("hdr", <<"a", "-2">>, <<"%[hdr(a", "-2)]">>)
    @@ "%[hdr(a,x)]"    :> Call("hdr", <<"a", "x">>, <<"%[hdr(a", "x)]">>)
    @@ "%[hdr(a,0,0)]"  :> Call("hdr", <<"a", "0", "0">>, <<"%[hdr(a", "0", "0)]">>)
    @@ "%[urlp(p)]"     :> Call("urlp", <<"p">>, <<"%[urlp(p)]">>)
    @@ "%[metadata(k)]" :> Call("metadata", <<"k">>, <<"%[metadata(k)]">>)
    @@ "%[path(a)]"     :> Call("path", <<"a">>, <<"%[path(a)]">>)
    \* the closing delimiter alone
    @@ "xxhdr(a)]" :> [Call("hdr", <<"a">>, <<"xxhdr(a)]">>) EXCEPT !.opens = FALSE]
    @@ "a[0]"      :> [Call("0", <<>>, <<"a[0]">>) EXCEPT !.opens = FALSE, !.ended = FALSE]
    \* the opening delimiter alone: the last character is cut off as if it were `]'
    @@ "%[hdr(a)"  :> [Call("hdr", <<>>, <<"%[hdr(a)">>) EXCEPT !.closes = FALSE, !.ended = FALSE]
    @@ "v,w"       :> [Call("w", <<>>, <<"v", "w">>) EXCEPT
                         !.opens = FALSE, !.closes = FALSE, !.ended = FALSE]
    @@ "%["        :> [Call("", <<>>, <<"%[">>) EXCEPT
                         !.long = FALSE, !.closes = FALSE, !.ended = FALSE]

MCNumeral == "0" :> 0 @@ "-2" :> -2
MCLowerCase == "A" :> "a"

MCPathForm == <<"/n?p=w">> :> [base |-> <<"/n">>, query |-> <<"?p=w">>]

MCParams ==
       "?p=v&p=w" :> <<[name |-> "p", value |-> <<"v">>], [name |-> "p", value |-> <<"w">>]>>
    @@ "?p=w"     :> <<[name |-> "p", value |-> <<"w">>]>>
    @@ "?"        :> <<>>

MCGluedValue == <<"?glued">>

MCPrefixOf == {<<<<"v">>, <<"v", "w">>>>}
MCSubstringOf == MCPrefixOf \cup {<<<<"w">>, <<"v", "w">>>>}
=============================================================================
