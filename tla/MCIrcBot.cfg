SPECIFICATION FairSpec
CONSTANTS
    Servers <- MCServers
    ChannelsOf <- MCChannelsOf
    Nick = "n"
    Words = {"w"}
    NoWord = "-"
    Registrable <- MCRegistrable
    RunWith <- MCRunWith
    Levels = {"ERROR", "WARNING", "INFO"}
    MaxHandlers = 3
    MaxJobs = 3
    MaxJoins = 2
    MaxQuit = 2
    Workers = 1
    Length = 1
INVARIANTS RightHandler ArgumentLives NoStaleUse
PROPERTIES HandlersInOrder Served Stops
