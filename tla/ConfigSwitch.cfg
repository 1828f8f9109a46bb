CONSTANTS
    r1 = r1  r2 = r2  d1 = d1  p1 = p1  s1 = s1
    NoRouter = NoRouter  NoLoad = NoLoad  Opening = Opening
    HttpxAvailable = TRUE
    JsonschemaAvailable = TRUE
    Resolve <- One
    Describe <- OneReader
    Probe <- Nobody
    Scrape <- Nobody
    Config <- NoopOrSmoke
    Loadable <- NoopOrSmoke
    ValidatorOf <- MCValidatorOf
    Uri <- OneUri
    Readable <- OneUri
    RouteOf <- MCRouteOf
    WantsHtml <- MCHtml
    LinksOf <- MCLinksOf
    Describable <- MCDescribable
SPECIFICATION Spec
PROPERTY ConfigReadOnce
