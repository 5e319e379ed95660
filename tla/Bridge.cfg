SPECIFICATION BridgeFairSpec
CONSTANTS
    Ids <- MCIds
    ClientId = "me"
    Profiles = {}
    LoadedProfiles = {}
    Friends <- MCRoster
    LoadedBlocked = {}
    NoSuchUser = "grag"
    Groups = {"Friends"}
    OwnGroup = "Friends"
    NoGroup = ""
    Messages = {"booters"}
    NoMessage = ""
    Absent = Absent
    Requests <- MCRequests
    Careful = TRUE
    MaxUpstream = 1
    MaxDownstream = 2
    Bare <- MCBare
    Stanzas <- MCStanzas
    MaxStanzas = 2
INVARIANTS
    BridgeTypeOK
    StatusReplicated
    ShownIsPublished
    OnlyStrangersEndIt
PROPERTY BridgeConverges
CHECK_DEADLOCK FALSE
