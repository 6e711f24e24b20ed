CONSTANTS
    zero = zero
    d1 = d1
    d2 = d2
    Data <- BenchData
    Zero <- zero
    Mixed = Mixed
    Empty = Empty
SPECIFICATION BenchSpec
INVARIANTS MutualExclusion OpenShowsWritten OneEventPerRequest
PROPERTIES OneSlotSpec CrossingsGoOn
