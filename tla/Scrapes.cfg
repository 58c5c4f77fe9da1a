CONSTANTS
    Callers <- MCCallers
    Families <- MCFamilies
    Versions <- MCVersions
    Scripts = {2}
    Monitors = {m1}
    Workers = {w1}
    Scrapers = {s1}
    NumStores = 2
    Populated = {1}
    NumFamilies = 2
    MaxBuilds = 2
    MaxAdds = 2
    MaxGoroutines = 2
    None = None
SPECIFICATION FairSpec
CHECK_DEADLOCK FALSE
INVARIANTS
    TypeOK
    RenderedTogether
    ScrapedAtOnce
PROPERTIES
    ScrapesEnd
    GoroutinesEnd
