SPECIFICATION FairSpec
CONSTANTS
    main = main
    title = title
    Agents = {main}
    Main = main
    Titles = {}
    Posts = {r1}
    Polls = {u1}
    Stops = {s1}
    Keys = {"m1"}
    KeysOf <- OneKey
    Configured <- OneOf
    Priced = {TRUE}
    Raised <- Higher
    MaxUsage = 0
    MaxElapsed = 0
    MaxCalls = 1
    MaxResumes = 1
    Events = {"worker", "backend", "user", "giveup", "leave", "interrupt", "message"}
INVARIANTS EndedIsSettled
PROPERTIES EndsTogether
CHECK_DEADLOCK FALSE
