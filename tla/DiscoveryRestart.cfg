\* A master and one member; one of them crashes once and is started again.
SPECIFICATION RestartSpec
CONSTANTS
    None = None
    M = M
    A = A
    B = B
    Admin = Admin
    Echo = Echo
    Chat = Chat
    ClientService = ClientService
    Nodes = {M, A}
    Masters = {M}
    Master = M
    Services = {ClientService, Admin, Echo}
    DC = ClientService
    Public <- MCPublic
    DiscoveryService <- MCDiscoveryService
    MaxClients = 6
    MaxBreaks = 0
    MaxCrashes = 1
    DialLimit = FALSE
PROPERTIES Converges
CHECK_DEADLOCK FALSE
