SPECIFICATION ConfigSpec
CONSTANTS
    MaxLines = 2
    Configs <- MCConfigs
    Form <- MCForm
    Numeral <- MCNumeral
    LowerCase <- MCLowerCase
    PathForm <- MCPathForm
    Params <- MCParams
    GluedValue <- MCGluedValue
    PrefixOf <- MCPrefixOf
    SubstringOf <- MCSubstringOf
INVARIANT
    ConstructorNeverThrows
