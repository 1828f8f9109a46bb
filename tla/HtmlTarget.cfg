SPECIFICATION Spec
CONSTANTS
    expand_rel <- Expanded
    None = None
    Link <- Links
    Entry <- Entries
    LinkType <- LinkTypes
    Target = "target"
    Bound <- Bounds
INVARIANTS
    HtmlGoesToTheDefault
CHECK_DEADLOCK FALSE
