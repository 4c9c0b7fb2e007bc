SPECIFICATION Spec
CONSTANTS
    MaxLength = 5
    Expressions <- MCExpressions
    Declared <- MCDeclared
INVARIANTS
    ParserTypeOK
    AcceptsOnlyWellFormed
    RefusesOnlyMalformed
    RecordsExpression
    ParserIInv
PROPERTY
    Terminates
