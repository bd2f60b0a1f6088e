CONSTANTS
    Main = Main
    Other = Other
    NWorkers = 2
    MapSvr = MapSvr
    PlayerMgr = PlayerMgr
    CoroutineMgr = CoroutineMgr
    FromClient = FromClient
    Mods <- MCMods
    Needs <- MCNeeds
    Handlers <- MCHandlers
    Stopping = {Other}
    MaxEdits = 1
SPECIFICATION FairSpec
INVARIANTS
    RequestKept
    HandlersFresh
PROPERTIES
    Served
CHECK_DEADLOCK FALSE
