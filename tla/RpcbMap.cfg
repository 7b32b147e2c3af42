SPECIFICATION Spec
CONSTANTS
    Progs = {100000}
    Vers = {2, 3}
    NetIds = {"", "udp", "UDP", "tcp"}
    Owners = {"unknown", "datagram"}
    Lower <- LowerCase
    AnyNetid = ""
    udptrans = "udp"
    tcptrans = "tcp"
    Addrs <- TwoPorts
    NotIp = "path"
    Any = "any"
    PortMod = 2
    PmPorts = {2}
    PMAPPROG = 100000
    PMAPPORT = 1
    OwnVers = {2}
    rpcbind_superuser = "superuser"
    MemoryFails = TRUE
    MaxAt = 3
INVARIANTS
    RegistrationsAreSound
    RpcbindIsFound
PROPERTIES
    PortsStayWithEntry
