SPECIFICATION MCSpec
CONSTANTS
    NaN = NaN
    None = None
    NoDir = NoDir
    Garbage = Garbage
    FloatStep = 4
    Chunk = 2
    Alpha = 25
    Quantiles <- MCQuantiles
    IntOf <- MCIntOf
    Alphabetical <- MCAlphabetical
    Inputs <- MCInputs
    Arguments <- NoCalls
INVARIANT UserErrorsReported
