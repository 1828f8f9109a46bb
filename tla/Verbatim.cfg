SPECIFICATION Spec
CONSTANTS
    Printer <- Printers
    Number <- NumberTokens
    Cut <- Shortened
    Lower <- Lowered
    Pad <- Padded
    Quote <- Quoted
    Unquote <- Unquoted
INVARIANTS
    ValuesAreVerbatim
CHECK_DEADLOCK FALSE
