SPECIFICATION Spec
CONSTANTS
    Lines <- EmptyLines
    Word <- TenBits
    MaxLength <- Longest
    PowersOfTen <- Four
    Lossy = FALSE
INVARIANT WithinView
