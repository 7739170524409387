\* One set with any of some four hundred keys, or two commands of a kind that may
\* overlap, be killed and follow each other, on every initial config and override.
SPECIFICATION Spec
CONSTANTS
    c1 = c1
    c2 = c2
    Scenarios <- SomeScenarios
    Parents <- ParentsOf
    Template <- Starter
    Grammar <- SomeGrammar
    Numbers <- SomeNumbers
    Placeholders <- SomePlaceholders
    Environment <- SomeEnvironment
INVARIANTS
    TypeOK
    SetExact
    ListedMeansGranted
    AllowedIsWritable
\* Commands end.
CHECK_DEADLOCK FALSE
