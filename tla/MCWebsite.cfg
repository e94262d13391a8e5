SPECIFICATION CrawlSpec
CONSTANTS
    Sites <- RenamedSites
    Crawlers = {"builtin"}
    MaxPages = 3
    MaxDepth = 2
    Concurrency = 2
    MaxRedirects = 2
    MaxTotalBytes = 4
    MaxPageBytes = 2
    HeaderBytes = 1
    DiscoveredCap = 4
    MaxLinks = 2
    MaxCaptures_ = 2
CHECK_DEADLOCK FALSE
INVARIANT UnchangedSiteKeepsVersion
