SPECIFICATION Spec
CONSTANTS
    Printer <- Printers
    Number <- NumberTokens
    Cut <- Shortened
    Lower <- Lowered
    Pad <- Padded
    Quote <- Quoted
    Unquote <- Unquoted
INVARIANTS
    TypeOK
    ReadsThePairs
    CanonicalReadsAlike
    CanonicalDeduplicates
PROPERTIES
    KeyIsSettled
CHECK_DEADLOCK FALSE
