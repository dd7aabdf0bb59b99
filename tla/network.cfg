CONSTANTS
    public = public
    local = local
    worker = worker
    request = request
    Nobody = Nobody
    Host <- MCHost
    Local <- MCLocal
    Self <- MCSelf
    Caller <- MCCaller
    Worker = worker
    Request <- MCRequest
    RetainHours = 1
    MaxRestarts = 1

SPECIFICATION FairNetSpec

INVARIANT NetTypeOK
PROPERTY NothingErased
PROPERTY ListedLeavesByAge
PROPERTY Forgotten
PROPERTY Heals
