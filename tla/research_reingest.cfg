\* One agent and two raw files: what an ingestion run takes up.
SPECIFICATION WikiSpec
CONSTANTS
    a1 = a1
    a2 = a2
    c1 = c1
    c2 = c2
    Agents = {a1}
    Files = {1, 2}
    Concepts = {c1}
    Compiled = {}
    Answers <- SomeAnswers
    MaxStarts = 3
    MaxLoop = 1
    MaxDisputes = 1
    MaxFaults = 0
PROPERTIES OnlyNewFiles
CHECK_DEADLOCK FALSE
