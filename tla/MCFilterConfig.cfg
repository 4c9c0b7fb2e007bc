SPECIFICATION ConfigSpec
CONSTANTS
    MaxLines = 3
    Configs <- MCConfigs
    Form <- MCForm
    Numeral <- MCNumeral
    LowerCase <- MCLowerCase
    PathForm <- MCPathForm
    Params <- MCParams
    GluedValue <- MCGluedValue
    PrefixOf <- MCPrefixOf
    SubstringOf <- MCSubstringOf
INVARIANTS
    ConfigTypeOK
    ErrorExactlyForBadLine
    StoredInOrder
    NothingStoredPastBadLine
    ConditionsClosed
    ResponseNeverReadsUrl
    ConfigIInv
PROPERTIES
    BoolsKeepDefinition
