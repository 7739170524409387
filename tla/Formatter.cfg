\* Texts of prose and texts with code blocks, with limits on both sides of a
\* character, a break, a fence, and what the platform takes.
SPECIFICATION FormatterSpec
CONSTANTS
    Alphabets <- ProseAndCode
    HardLimit = 4
    Suffix <- Dots
INVARIANTS
    NothingLost
    WithinLimit
    WholeCharacters
    BlocksWhole
\* The output stops growing.
CHECK_DEADLOCK FALSE
