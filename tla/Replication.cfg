SPECIFICATION HFairSpec
CONSTANTS
    z1 = z1
    z2 = z2
    www = www
    api = api
    apex1 = apex1
    apex2 = apex2
    da = da
    db = db
    dsoa = dsoa
    h1 = h1
    Data = {da, db, dsoa}
    Country = {}
    Continent = {}
    ASN = {}
    Subnet = {}
    Nil = Nil
    Zones = {z1, z2}
    Owners = {www, api, apex1, apex2}
    Types = {"SOA", "A", "CNAME", "TXT"}
    DefaultTTL = 1
    WebTTL = 2
    Apex <- MCApex
    DefaultSOA <- MCDefaultSOA
    SOATTL = 2
    UnixNow = 1
    NonNumeric <- MCNonNumeric
    TooShort <- MCTooShort
    NoReq = NoReq
    NoRow = NoRow
    InitZones <- MCInitZones
    InitSets <- MCInitSets
    InitData <- MCInitData
    AutoSOA = FALSE
    t1 = t1
    x1 = x1
    x2 = x2
    TemplateNames = {t1}
    Contents = {x1, x2}
    Editors = {e1}
    InitTemplates <- MCInitTemplates
    InitRecords <- MCInitRecords
    NoTemplate = NoTemplate
    Handlers = {h1}
    MaxFaults = 0
    Requests <- MasterRequests
    InitSlaveZones <- FreshZones
    InitSlaveSets <- FreshSets
    MaxRequests = 2
    MaxTemplateChanges = 1
    MaxOutages = 1
INVARIANTS
    ReplicationTypeOK
    SlaveKeysUnique
    SlaveRecordsOfOneRequest
PROPERTIES
    SlaveCopiesMaster
    EventuallySynced
