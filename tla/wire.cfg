SPECIFICATION MCSpec
CONSTANTS
    GroupBits = 3
    WordBits = 7
    FloatBytes = 1
    ReaderDepth = 2
    Inputs <- MCInputs
    MaxDepth = 2
    Indent = TRUE
    Texts = {"key", "malformed"}
    Malformed = {"malformed"}
    Numbers <- MCJsonNumbers
    MaxTokens = 8
    WriterDepth = 2
    ByteTexts <- MCByteTexts
    Words <- MCWords
    Integers64 <- MCIntegers
    Floats <- MCFloats
    Sizes = {0, 1, 2}
    MaxOutput = 7
    Trailing = {0, 8}
CHECK_DEADLOCK FALSE
INVARIANTS InBounds CountsFit DepthBounded BinaryExact  TextExact
PROPERTIES ReadingEnds
