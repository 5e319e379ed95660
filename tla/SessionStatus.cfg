SPECIFICATION FairSpec
CONSTANTS
    Ids <- MCIds
    ClientId = "me"
    Profiles <- MCProfiles
    LoadedProfiles = {"winky"}
    Friends <- MCFriends
    LoadedBlocked = {"jerk"}
    NoSuchUser = "grag"
    Groups = {"Friends", "Myself"}
    OwnGroup = "Myself"
    NoGroup = ""
    Messages = {"booters", "paradise"}
    NoMessage = ""
    Absent = Absent
    Requests <- StatusRequests
    Careful = FALSE
    MaxUpstream = 2
    MaxDownstream = 2
INVARIANT StatusReplicated
INVARIANT OwnContactsFollowPresence
INVARIANT InvisibleNeverShown
INVARIANT StatusOnlyForListed
PROPERTY Converges
CHECK_DEADLOCK FALSE
