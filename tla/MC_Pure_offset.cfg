\* Rows that may hold a string whose encoding reaches the uint16 offset
\* range (64 bytes at Radix 8): the encoder truncates the offset.
CONSTANTS
    Byte = 4
    G = 2
    W = 2
    MaxKeyLen = 3
    MaxRawLen = 7
    Radix = 8
    TInt = 1
    TFloat = 2
    TString = 3
    TDate = 4
    TBool = 5
    Letters = {"e", "x"}
    Punct = {"-", ">", "%", "!"}
    MaxTokens = 10
    UintBits = 4
    RowValues <- WideValues
INIT InitRow
NEXT Next
INVARIANT RowRoundTrip
