------------------------ MODULE MCFilterStreamContract ------------------------
\* Configurations of at most MaxLines lines in which one line reads what
\* another has written: a variable over a header that set-header and
\* append-header change, a header appended to itself, a path set twice and read
\* back, metadata handed from the request to the response.
EXTENDS FilterStreamContract, MCLexicon

CONSTANT MaxLines

MCLines == {
    <<"http-request", "set-bool", "b", "%[hdr(a)]", "-m", "str", "v">>,
    <<"http-request", "set-bool", "b", "%[urlp(p)]", "-m", "beg", "%[hdr(a)]">>,
    <<"http-request", "set-header", "a", "%[urlp(p)]", "if", "not", "b">>,
    <<"http-request", "append-header", "a", "v", "%[hdr(a)]">>,
    <<"http-request", "append-header", "%[hdr(a)]", "%[hdr(A,0)]", "w", "%[hdr(a,-2)]", "if", "b">>,
    <<"http-request", "set-path", "/n?p=w", "if", "b">>,
    <<"http-request", "set-path", "%[hdr(a,-2)]">>,
    <<"http-request", "set-header", "%[hdr(a,x)]", "v", "if", "b">>,
    <<"http-request", "set-metadata", "k", "%[hdr(a)]">>,
    <<"http-request", "set-bool">>,
    <<"http-response", "set-bool", "b", "%[metadata(k)]", "-m", "found">>,
    <<"http-response", "append-header", "a", "%[metadata(k)]", "if", "b">>,
    <<"http-response", "set-metadata", "k", "%[hdr(a)]", "if", "not", "b">>}

MCConfigs == UNION {[1 .. n -> MCLines] : n \in 0 .. MaxLines}

MCHeaders == {<<>>, <<"a">> :> <<"v">>}
MCQueries == {<<>>, <<"?p=v&p=w">>}

MCRequests ==
    [headers : MCHeaders, path : {[base |-> <<"/">>, query |-> q] : q \in MCQueries}]
MCResponses == {<<>>, <<"a">> :> <<"w">>}
=============================================================================
