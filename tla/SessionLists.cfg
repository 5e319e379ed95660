SPECIFICATION Spec
CONSTANTS
    Ids <- MCIds
    ClientId = "me"
    Profiles <- MCProfiles
    LoadedProfiles = {"winky"}
    Friends <- MCFriends
    LoadedBlocked = {"jerk"}
    NoSuchUser = "grag"
    Groups = {"Friends", "Myself"}
    OwnGroup = "Myself"
    NoGroup = ""
    Messages = {"booters", "paradise"}
    NoMessage = ""
    Absent = Absent
    Requests <- ListRequests
    Careful = FALSE
    MaxUpstream = 2
    MaxDownstream = 2
INVARIANT TypeOK
INVARIANT ContactListReplicated
INVARIANT BlockedListReplicated
PROPERTY BlockedStrangersStayOut
CHECK_DEADLOCK FALSE
