-------------------------- MODULE MCConditionParser --------------------------
\* Every expression of at most MaxLength tokens over two operators, `not', two
\* declared variables and one that no set-bool declares.
EXTENDS ConditionParser

CONSTANT MaxLength

MCTokens == {"and", "or", "not", "a", "b", "x"}
MCDeclared == {"a", "b"}
MCExpressions == UNION {[1 .. n -> MCTokens] : n \in 0 .. MaxLength}
=============================================================================
