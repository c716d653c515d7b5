SPECIFICATION ReadingSpec
CONSTANTS
    Null = Null c1 = c1 c2 = c2 c3 = c3 c4 = c4
    r1 = r1 u1 = u1 u2 = u2
    Calls = {c1, c2, c3, c4}
    Data <- MixedRows
    Readers = {r1}
    ReaderUser <- OneUser
    Queries <- Everything
    Limit = 2
    MaxTop = 1
    MaxPeriod = 5
    Backends = {"sqlite", "postgres"}
INVARIANTS
    PartsAddUp
    AggregateIsBetween
    NothingSkipped
    DetailIsWhole
