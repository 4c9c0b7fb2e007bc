--------------------------- MODULE MCFilterStream ---------------------------
\* Every configuration of at most MaxLines lines from a set in which every
\* operation can succeed and can fail at run time, on messages with a header
\* present, empty or absent and a query string with the parameter or without.
EXTENDS FilterStream, MCLexicon

CONSTANT MaxLines

MCLines == {
    <<"http-request", "set-bool", "b", "%[hdr(a)]", "-m", "found">>,
    <<"http-request", "set-bool", "c", "%[hdr(a,-2)]", "-m", "beg", "v">>,
    <<"http-request", "set-header", "a", "%[urlp(p)]">>,
    <<"http-request", "set-header", "%[hdr(A,0)]", "v,w", "if", "not", "b", "or", "b", "and", "c">>,
    <<"http-request", "append-header", "a", "v", "%[hdr(a,-2)]">>,
    <<"http-request", "append-header", "a", "%[hdr(a)]", "v">>,
    <<"http-request", "append-header", "%[hdr(a,x)]", "v", "if", "b">>,
    <<"http-request", "set-path", "/n?p=w">>,
    <<"http-request", "set-path", "%[hdr(a,x)]", "if", "b">>,
    <<"http-request", "set-metadata", "k", "%[hdr(a)]">>,
    <<"http-response", "set-bool", "b", "%[metadata(k)]", "-m", "sub", "w">>,
    <<"http-response", "set-bool", "c", "%[hdr(a,x)]", "-m", "str", "v">>,
    <<"http-response", "append-header", "a", "%[metadata(k)]", "%[hdr(a,x)]", "if", "b">>,
    <<"http-response", "set-header", "a", "v", "if", "c">>,
    <<"http-response", "set-metadata", "%[hdr(a)]", "v">>,
    <<"http-response", "set-metadata", "%[hdr(a,x)]", "v", "if", "b">>,
    <<"http-request", "set-header", "a">>}

MCConfigs == UNION {[1 .. n -> MCLines] : n \in 0 .. MaxLines}

MCHeaders == {<<>>, <<"a">> :> <<>>, <<"a">> :> <<"v">>, <<"a">> :> <<"v", "w">>}
MCQueries == {<<>>, <<"?p=v&p=w">>}

MCRequests ==
    [headers : MCHeaders, path : {[base |-> <<"/">>, query |-> q] : q \in MCQueries}]
MCResponses == {<<>>, <<"a">> :> <<"w">>}
=============================================================================
