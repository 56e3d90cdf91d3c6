CONSTANTS
    Commands <- OneFlag
    Number <- SmallNumbers
    Word = 4
    MaxCOPs = 3
    MaxRuns = 3
    WitnessesOf <- FewWitnesses
    Malformed = Malformed
    Lines <- SmallLines
    Numeral <- SmallNumerals
    NumberBits = 3
    MaxLines = 4
    TypeBits = 4
    ThreadBits = 2
    TargetBits = 1
    ValueBits = 2
SPECIFICATION PredictionSpec
CONSTRAINT Sessions
INVARIANTS BinaryWitnessesAreJudged
CHECK_DEADLOCK FALSE
