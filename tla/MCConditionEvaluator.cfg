SPECIFICATION Spec
CONSTANTS
    MaxTerms = 4
    Declared <- MCDeclared
    Expressions <- MCExpressions
INVARIANTS
    RangesMatch
    GivesMeaning
    ReportsLeftmost
    EvaluatesInOrder
PROPERTY
    EvaluationReturns
