SPECIFICATION Spec
CONSTANTS
    main = main
    title = title
    Agents = {main}
    Main = main
    Titles = {title}
    Posts = {r1, r2}
    Polls = {}
    Stops = {}
    Keys = {"m1"}
    KeysOf <- OneKey
    Configured <- AnyOf
    Priced = {FALSE}
    Raised <- Higher
    MaxUsage = 1
    MaxElapsed = 1
    MaxCalls = 2
    MaxResumes = 1
    Events = {"worker", "pricing"}
INVARIANTS WithinLimit CostIsKnown OneAnswer
SYMMETRY Pages
CHECK_DEADLOCK FALSE
