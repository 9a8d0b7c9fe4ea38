SPECIFICATION Spec
CONSTANTS
    Sources <- MCSources
    Letters <- MCLetters
    Keywords <- MCKeywords
    Digit <- MCDigit
    LitBits = 4
    Tokens <- MCTokens
    MaxOpen = 2
    Files <- MCFiles
    ScalarTypes <- MCScalarTypes
    Width <- MCWidth
    Magnitudes = {3, 4, 5}
    LocalNames = {"x"}
    FieldNames = {"f", "h"}
    LocalTypes <- MCLocalTypes
    MaxScopes = 3
    MaxDepth = 1
INVARIANTS
    TypeOK
    TokensExact
    NoStructLitExact
    NodesGrammatical
    ResolvedRight
    ScopesNest
    NilMeansError
PROPERTIES
    AnnotationsSound
    StagesEnd
