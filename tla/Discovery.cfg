\* A master and two members: every start order, and one failure.
SPECIFICATION OneFailureSpec
CONSTANTS
    None = None
    M = M
    A = A
    B = B
    Admin = Admin
    Echo = Echo
    Chat = Chat
    ClientService = ClientService
    Nodes = {M, A, B}
    Masters = {M}
    Master = M
    Services = {ClientService, Admin, Echo, Chat}
    DC = ClientService
    Public <- MCPublic
    DiscoveryService <- MCDiscoveryService
    MaxClients = 6
    MaxBreaks = 1
    MaxCrashes = 1
    DialLimit = TRUE
INVARIANTS
    TypeOK TablesSound AnnouncedIsRouted
PROPERTIES Heals
CHECK_DEADLOCK FALSE
