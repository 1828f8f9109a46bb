SPECIFICATION Spec
CONSTANTS
    expand_rel <- Expanded
    None = None
    Link <- Links
    Entry <- Entries
    LinkType <- LinkTypes
    Target = "target"
    Bound <- Bounds
INVARIANTS
    TypeOK
    LinkTypeNarrows
    BrokenLinksAreConfined
    SpellingIsIrrelevant
    BestOfferIsChosen
PROPERTIES
    DefaultIsStable
CHECK_DEADLOCK FALSE
