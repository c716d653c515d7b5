SPECIFICATION EstimateSpec
CONSTANTS
    Null = Null Due = Due
    Prompts <- FewPrompts
    Outputs <- FewOutputs
    Reported <- FewReported
    Timings <- FewTimings
    Names <- TableNames
    Prices <- TableRows
    DefaultPrice = 1500
    ShortSums <- ShortSumsHere
    ShortHighs <- ShortHighsHere
INVARIANTS
    IntervalHoldsEstimate
    CombinedIsBetween
    OneStory
