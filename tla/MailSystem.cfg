SPECIFICATION FairSpec
CONSTANTS
    ann = ann
    bob = bob
    a = a
    b = b
    s1 = s1
    s2 = s2
    ssh = ssh
    imap = imap
    None = None
    Players = {ann, bob}
    Letters = {a, b}
    MaxItems = 4
    RoomPlayer = ann
    Sessions = {s1, s2}
    Owner = ann
    MaxPosts = 1
    MaxRecipients = 2
    Connections = {ssh}
    PlayerOf <- MCPlayerOf
    ListenerMayFail = TRUE
    Clients = {imap}
    Window = 2
    Casts <- MCCasts
INVARIANTS
    TypeOK
    AnsweredLettersArrived
    RequestsNumberThemselves
    PostsArriveOnce
    SentPostsReachSubscribers
    NothingLeftOfTheGone
    SeenIsWhatWasFetched
PROPERTIES
    DoneItemsStayDone
    ConnectionsAreTold
CHECK_DEADLOCK FALSE
