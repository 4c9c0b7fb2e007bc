------------------------- MODULE MCConditionEvaluator -------------------------
\* Every expression of at most MaxTerms terms, a term being one of three, under
\* every outcome of the two variables, and the malformed expressions of at most
\* three tokens.
EXTENDS ConditionEvaluator

CONSTANT MaxTerms

MCDeclared == {"b", "c"}
MCTerms == {<<"b">>, <<"not", "b">>, <<"c">>}

\* The expressions whose terms are t[1] .. t[n], joined by the operators o.
MCJoin(t, o) ==
    FoldLeft(LAMBDA e, k : e \o <<o[k]>> \o t[k + 1], t[1], [k \in 1 .. Len(o) |-> k])

MCWellFormed ==
    UNION {{MCJoin(t, o) : t \in [1 .. n -> MCTerms], o \in [1 .. n - 1 -> {"and", "or"}]} :
             n \in 1 .. MaxTerms}

MCMalformed ==
    {e \in UNION {[1 .. n -> {"b", "d", "or", "not"}] : n \in 0 .. 3} :
        ~WellFormed(e, MCDeclared)}

MCExpressions == MCWellFormed \cup MCMalformed
=============================================================================
