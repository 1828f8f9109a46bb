CONSTANTS
    r1 = r1  r2 = r2  d1 = d1  p1 = p1  s1 = s1
    NoRouter = NoRouter  NoLoad = NoLoad  Opening = Opening
    HttpxAvailable = TRUE
    JsonschemaAvailable = TRUE
    Resolve <- One
    Describe <- Nobody
    Probe <- Nobody
    Scrape <- Nobody
    Config <- HttpOnly
    Loadable <- HttpOnly
    ValidatorOf <- MCValidatorOf
    Uri <- OneUri
    Readable <- OneUri
    RouteOf <- MCRouteOf
    WantsHtml <- MCHtml
    LinksOf <- MCLinksOf
    Describable <- MCDescribable
SPECIFICATION Spec
INVARIANT ValidationIsAdvisory
