SPECIFICATION Spec
CONSTANTS
    MaxLines = 3
    Configs <- MCConfigs
    Form <- MCForm
    Numeral <- MCNumeral
    LowerCase <- MCLowerCase
    PathForm <- MCPathForm
    Params <- MCParams
    GluedValue <- MCGluedValue
    Requests <- MCRequests
    Responses <- MCResponses
    PrefixOf <- MCPrefixOf
    SubstringOf <- MCSubstringOf
INVARIANTS
    TypeOK
    BadConfigChangesNothing
    QueryStringKept
    OnlyPositionsEscape
    FailureHasCause
    MetadataHasValues
PROPERTIES
    HeadersNeverLost
    RequestSettled
    HandlersReturn
