SPECIFICATION ExchangeSpec
CONSTANTS
    None = None Null = Null m1 = m1 m2 = m2
    Models = {m1, m2}
    Lines <- LinesOf
    Usages <- FewUsages
    MaxLines = 8
INVARIANTS
    UsageIsLastReported
    ReplayKeepsEvents
