SPECIFICATION MCBackupSpec
CONSTANTS
    z1 = z1
    z2 = z2
    www = www
    api = api
    apex1 = apex1
    apex2 = apex2
    da = da
    db = db
    dw = dw
    dsoa = dsoa
    h1 = h1
    h2 = h2
    Data = {da, db, dw, dsoa}
    Country = {}
    Continent = {}
    ASN = {}
    Subnet = {}
    Nil = Nil
    Zones = {z1, z2}
    Owners = {www, api, apex1, apex2}
    Types = {"SOA", "A", "CNAME", "TXT"}
    DefaultTTL = 1
    WebTTL = 2
    AutoSOA = TRUE
    Apex <- MCApex
    DefaultSOA <- MCDefaultSOA
    SOATTL = 2
    UnixNow = 1
    NonNumeric <- MCNonNumeric
    TooShort <- MCTooShort
    NoReq = NoReq
    NoRow = NoRow
    InitZones <- MCInitZones
    InitSets <- MCInitSets
    InitData <- MCInitData
    Handlers = {h1, h2}
    MaxRequests = 3
    MaxFaults = 1
    MaxCommands = 2
    MaxEvents = 4
    Requests <- MixedRequests
    Backups <- MCBackups
INVARIANTS
    StoreTypeOK
    
    RecordsOfOneRequest
    BackupOfOneRequest
PROPERTIES
    ReplaceRestores
    
SYMMETRY HandlerSymmetry
