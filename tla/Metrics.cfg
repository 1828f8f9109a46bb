CONSTANTS
    c1 = c1  c2 = c2  v1 = v1  s1 = s1  s2 = s2
    Nobody = Nobody
    Call <- MCCall
    Render <- MCRender
    KeysOf <- MCKeysOf
SPECIFICATION Spec
INVARIANTS TypeOK NoUpdateLost ScrapeConsistent
PROPERTIES ImplementsLedger EveryCallReturns
