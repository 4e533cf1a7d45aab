\* The pure functions: 4 byte values, 2-byte groups and 2-byte versions for
\* the MVCC codec, octal bytes for the graph codec, rows within the offset
\* width.
CONSTANTS
    Byte = 4
    G = 2
    W = 2
    MaxKeyLen = 3
    MaxRawLen = 7
    Radix = 8
    TInt = 1
    TFloat = 2
    TString = 3
    TDate = 4
    TBool = 5
    Letters = {"e", "x"}
    Punct = {"-", ">", "%", "!"}
    MaxTokens = 10
    UintBits = 4
    RowValues <- SmallValues
SPECIFICATION Spec
INVARIANT RoundTrip
INVARIANT EncodedOrder
INVARIANT DecodeCanonical
INVARIANT LookupMatchesAbstract
INVARIANT SnapshotGetMatchesAbstract
INVARIANT SkipLeavesKey
INVARIANT RowRoundTrip
INVARIANT KeysRoundTrip
INVARIANT StringLitUnescapes
INVARIANT PropertyIDsUnique
INVARIANT CatalogMatchesStore
INVARIANT RewriteMatchesTranslate
INVARIANT QueryMatchesReference
INVARIANT NilMeansCommitted
INVARIANT IDsReserved
PROPERTY LexAdvances
