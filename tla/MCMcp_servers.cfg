\* One configured server and one of a plugin, a reload, and calls that time out.
CONSTANTS
    notes = notes
    search = search
    Configured = {notes}
    Plugged = {search}
    Invalid = {}
    MaxSpawns = 2
    MaxCalls = 2
    MaxReloads = 1
    MaxBacklog = 1
SPECIFICATION McpSpec
CHECK_DEADLOCK FALSE
INVARIANTS
    McpTypeOK
    RunningProcessesAreOwned
PROPERTY
    OperationsReturn
