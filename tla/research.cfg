\* Two agents, three runs asked for, two deaths or steps that raise;
\* the weekly agents for ever.
SPECIFICATION WikiSpec
CONSTANTS
    a1 = a1
    a2 = a2
    c1 = c1
    c2 = c2
    Agents <- TwoAgents
    Files = {1}
    Concepts <- TwoConcepts
    Compiled = {}
    Answers <- SomeAnswers
    MaxStarts = 3
    MaxLoop = 1
    MaxDisputes = 1
    MaxFaults = 2
INVARIANTS IdSharing FilesAreLogged
PROPERTIES IndexCatchesUp
CHECK_DEADLOCK FALSE
