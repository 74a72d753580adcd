SPECIFICATION Spec
CONSTANT Batches = {b1, b2, b3}
CONSTANT SourceOf <- MCSourceOf
CONSTANT Files <- MCFiles
CONSTANT MaxAttempts = 2
CONSTANT None = None
SYMMETRY MCSymmetry
INVARIANT SaleLineCountedOnce
INVARIANT NewestPriceIsCurrent
INVARIANT OrderlyHistoryIsExact
INVARIANT CurrentMemberIsTrue
