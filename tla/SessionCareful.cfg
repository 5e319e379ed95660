SPECIFICATION FairSpec
CONSTANTS
    Ids <- MCIds
    ClientId = "me"
    Profiles <- MCProfiles
    LoadedProfiles = {"winky"}
    Friends <- MCFriends
    LoadedBlocked = {"jerk"}
    NoSuchUser = "grag"
    Groups = {"Friends", "Myself"}
    OwnGroup = "Myself"
    NoGroup = ""
    Messages = {"booters", "paradise"}
    NoMessage = ""
    Absent = Absent
    Requests <- MixedRequests
    Careful = TRUE
    MaxUpstream = 1
    MaxDownstream = 1
INVARIANT CarefulMessengerIsSafe
PROPERTY Converges
CHECK_DEADLOCK FALSE
