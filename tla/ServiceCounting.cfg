CONSTANTS
    r1 = r1  r2 = r2  d1 = d1  p1 = p1  s1 = s1
    NoRouter = NoRouter  NoLoad = NoLoad  Opening = Opening
    HttpxAvailable = TRUE
    JsonschemaAvailable = TRUE
    Resolve <- Two
    Describe <- Nobody
    Probe <- Nobody
    Scrape <- OneScrape
    Config <- Mixed
    Loadable <- Mixed
    ValidatorOf <- MCValidatorOf
    Uri <- MCUri
    Readable <- MCReadable
    RouteOf <- MCRouteOf
    WantsHtml <- MCHtml
    LinksOf <- MCLinksOf
    Describable <- MCDescribable
SPECIFICATION Spec
SYMMETRY Symmetric
INVARIANTS HandlersTakeTurns RequestsAccounted ValidationsAccounted ScrapesLagByOne
