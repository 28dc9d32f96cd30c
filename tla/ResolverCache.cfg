SPECIFICATION HFairSpec
CONSTANTS
    parent = parent
    child = child
    www = www
    apexp = apexp
    apexc = apexc
    da = da
    db = db
    dbad = dbad
    dsoa = dsoa
    us = us
    h1 = h1
    h2 = h2
    p1 = p1
    p2 = p2
    Data = {da, db, dbad, dsoa}
    Country = {us}
    Continent = {}
    ASN = {}
    Subnet = {}
    Nil = Nil
    Zones = {parent, child}
    Owners = {www, apexp, apexc}
    Types = {"SOA", "A", "CNAME", "TXT"}
    DefaultTTL = 0
    WebTTL = 1
    AutoSOA = FALSE
    Apex <- MCApex
    DefaultSOA <- MCDefaultSOA
    SOATTL = 1
    UnixNow = 1
    NonNumeric <- MCNonNumeric
    TooShort <- MCTooShort
    NoReq = NoReq
    NoRow = NoRow
    NoEntry = NoEntry
    Under <- ForeignUnder
    NameLen <- MCNameLen
    BadData = {dbad}
    QNames = {www}
    ZoneTTL = 2
    NegativeTTL = 2
    InitZones <- BothLiveZones
    InitSets <- BothSets
    InitData <- BothData
    Requests <- MoveRequests
    MaxRequests = 1
    MaxFaults = 0
    Handlers = {h1}
    Queries = {p1, p2}
    QTypes = {"A", "CNAME"}
    Clients <- OneClient
    CacheSize = 1
    Forwarder = FALSE
INVARIANTS
    ResolverTypeOK
    AnswersFromCoveringZone
    NoEntryOutlivesTTL
    CacheBounded
PROPERTIES
    LookupsPassOverDeleted
    EventuallyFresh
