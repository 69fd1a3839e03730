SPECIFICATION Spec
CONSTANTS
    Files = {"f0", "f1", "f2"}
    Root = "f0"
    Exists = {"rsa"}
    DefaultKeys <- MCDefaultKeys
    Numeral <- MCNumeral
    Digest <- MCDigest
    Cases <- MCCases
INVARIANTS
    NoFileTwice
    FirstWins
    EachHostItsOwn
    ForwardsAsWritten
    TunPaired
CHECK_DEADLOCK FALSE
