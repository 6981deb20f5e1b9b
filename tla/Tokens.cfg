SPECIFICATION Spec
CONSTANTS
    Names = {"tcp", "udp"}
    Libraries = {"plugin"}
    Kernel = "kernel"
    Main = "main"
    Workers = {"worker"}
    MaxCalls = 2
INVARIANTS
    OneToken
    NamesComeBack
PROPERTY CallsReturn
CHECK_DEADLOCK FALSE
