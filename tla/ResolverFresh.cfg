SPECIFICATION HFairSpec
CONSTANTS
    parent = parent
    child = child
    www = www
    apexp = apexp
    apexc = apexc
    da = da
    db = db
    dbad = dbad
    dsoa = dsoa
    us = us
    h1 = h1
    h2 = h2
    p1 = p1
    p2 = p2
    Data = {da, db, dbad, dsoa}
    Country = {us}
    Continent = {}
    ASN = {}
    Subnet = {}
    Nil = Nil
    Zones = {parent, child}
    Owners = {www, apexp, apexc}
    Types = {"SOA", "A", "CNAME", "TXT"}
    DefaultTTL = 0
    WebTTL = 1
    AutoSOA = FALSE
    Apex <- MCApex
    DefaultSOA <- MCDefaultSOA
    SOATTL = 1
    UnixNow = 1
    NonNumeric <- MCNonNumeric
    TooShort <- MCTooShort
    NoReq = NoReq
    NoRow = NoRow
    NoEntry = NoEntry
    Under <- MCUnder
    NameLen <- MCNameLen
    BadData = {dbad}
    QNames = {www}
    ZoneTTL = 2
    NegativeTTL = 2
    InitZones <- ParentOnlyZones
    InitSets <- GeoSets
    InitData <- GeoData
    Requests <- FreshRequests
    MaxRequests = 2
    MaxFaults = 1
    Handlers = {h1}
    Queries = {p1}
    QTypes = {"A", "CNAME"}
    Clients <- TwoClients
    CacheSize = 1
    Forwarder = TRUE
PROPERTIES
    EventuallyFresh
