--------------------------- MODULE MCFilterConfig ---------------------------
\* Every configuration of at most MaxLines lines, taken from a set that holds,
\* for each operation, lines that parse and lines that fail each test of it.
EXTENDS FilterConfig, MCLexicon

CONSTANT MaxLines

MCLines == {
    <<"http-request">>,
    <<"http-reply", "set-header", "a", "v">>,
    <<"http-request", "del-header", "a">>,
    <<"http-request", "set-bool">>,
    <<"http-request", "set-bool", "b", "%[hdr(a)]", "-m", "found">>,
    <<"http-request", "set-bool", "b", "v", "-m", "str", "%[urlp(p)]">>,
    <<"http-request", "set-bool", "b", "v", "-m", "found", "w">>,
    <<"http-request", "set-bool", "b", "v", "-m", "beg">>,
    <<"http-response", "set-bool", "b", "v", "-m", "sub", "%[urlp(p)]">>,
    <<"http-response", "set-bool", "b", "%[hdr(a,x)]", "-m", "found">>,
    <<"http-request", "set-header", "a", "v", "if", "b">>,
    <<"http-request", "set-header", "k", "xxhdr(a)]">>,
    <<"http-request", "set-header", "a", "if">>,
    <<"http-request", "set-header", "a">>,
    <<"http-request", "append-header", "a", "v", "w", "if", "not", "b", "or", "b">>,
    <<"http-request", "append-header", "a", "if", "b">>,
    <<"http-response", "append-header", "a", "v", "%[hdr(a,0,0)]">>,
    <<"http-request", "set-path", "/n">>,
    <<"http-request", "set-path", "/n", "if", "b", "b">>,
    <<"http-response", "set-path", "/n">>,
    <<"http-response", "set-metadata", "k", "%[metadata(k)]", "if", "b">>,
    <<"http-response", "set-metadata", "k", "%[urlp(p)]">>,
    <<"http-response", "set-metadata", "k", "a[0]">>}

MCConfigs == UNION {[1 .. n -> MCLines] : n \in 0 .. MaxLines}
=============================================================================
