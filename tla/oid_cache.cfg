SPECIFICATION Spec
CONSTANTS
    s1 = s1
    s2 = s2
    null = null
    builtin = builtin
    raw = raw
    x = x
    y = y
    low = low
    Sessions <- MCSessions
    Ids <- MCIds
    Null = null
    RawOid <- MCRawOid
    builtinOidLimit = 3
    MaxOid = 8
    Crc <- CollidingCrc
    BuiltinOID <- MCBuiltinOID
    BuiltinInternal <- MCBuiltinInternal
INVARIANTS TypeOK RoundTrip OneOidPerObject
PROPERTIES MappingsAreStable

