SPECIFICATION Spec
CONSTANTS
    MaxLines = 2
    Configs <- MCConfigs
    Form <- MCForm
    Numeral <- MCNumeral
    LowerCase <- MCLowerCase
    PathForm <- MCPathForm
    Params <- MCParams
    GluedValue <- MCGluedValue
    Requests <- MCRequests
    Responses <- MCResponses
    PrefixOf <- MCPrefixOf
    SubstringOf <- MCSubstringOf
INVARIANT
    QueryStringPreserved
