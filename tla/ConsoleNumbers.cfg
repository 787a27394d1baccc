SPECIFICATION Spec
CONSTANTS
    Lines <- NumberLines
    Word <- TenBits
    MaxLength <- Longest
    PowersOfTen <- Four
    Lossy = TRUE
INVARIANT TypeOK
INVARIANT NumberShown
INVARIANT NoLeadingZero
