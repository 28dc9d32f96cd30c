SPECIFICATION Spec
CONSTANTS
    Data = {d1}
    Country = {DE, FR}
    Continent = {EU}
    ASN = {as1}
    Subnet = {net1}
    Nil = Nil
    MaxRecords = 2
INVARIANTS
    SelectIsTargeted
