SPECIFICATION FairSpec
CONSTANTS
    Handlers = {1, 2}
    Actors = {"agent", "bad id"}
    ValidIds = {"agent"}
PROPERTY RpcReturns
CHECK_DEADLOCK FALSE
