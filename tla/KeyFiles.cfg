SPECIFICATION CryptoSpec
CONSTANTS
    PlainTexts = {"old", "new"}
    MaxPairs = 4
INVARIANTS
    ReturnedIsSaved
