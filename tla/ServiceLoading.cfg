CONSTANTS
    r1 = r1  r2 = r2  d1 = d1  p1 = p1  s1 = s1
    NoRouter = NoRouter  NoLoad = NoLoad  Opening = Opening
    HttpxAvailable = TRUE
    JsonschemaAvailable = TRUE
    Resolve <- One
    Describe <- OneReader
    Probe <- OneProbe
    Scrape <- Nobody
    Config <- OrBroken
    Loadable <- HttpOrSmoke
    ValidatorOf <- MCValidatorOf
    Uri <- MCUri
    Readable <- MCReadable
    RouteOf <- MCRouteOf
    WantsHtml <- MCHtml
    LinksOf <- MCLinksOf
    Describable <- MCDescribable
SPECIFICATION TimelySpec
INVARIANTS TypeOK ConfigsAreCurrent AnswersHaveReasons
PROPERTIES SettledOnceDrained EveryRequestEnds KeepsContract
