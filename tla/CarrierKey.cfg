CONSTANTS
    bad = bad
    null = null
    number = number
    Malformed = bad
    Null = null
    NoText = number
    Character <- MCCharacter
    Rule <- MCRule
    Pair <- MCPair
    Param <- MCParam
    Bound <- MCBound
    Plain <- MCPlain
    Decoded <- MCDecoded
    Cut <- MCCut
    Spelt <- MCSpelt
    unquote_plus <- MCPlus
    Splits <- MCSplits
    Oversized <- MCOversized
    DigitsOf <- MCDigitsOf
    Number <- MCNumber
    Lower <- MCLower
    Pad <- MCPad
    Quote <- MCQuote
    StartsWith <- MCStartsWith
    FullMatch <- MCFullMatch
    Among <- MCAmong
SPECIFICATION Spec
INVARIANTS CarrierKeyIsForwarded
CHECK_DEADLOCK FALSE
