---------------------------- MODULE MCYMsgSession ----------------------------
(***************************************************************************)
(* Instances of YMsgSession: a short cut of the address book the mock      *)
(* loads, and one request set for each group of questions.                 *)
(***************************************************************************)
EXTENDS YMsgSession

MCIds == {"me", "winky", "greg", "jay", "jerk", "grag"}
MCProfiles == {"winky", "greg"}

Contact(group, availability, isBusy, message) ==
    [group |-> group, state |-> "Linked", availability |-> availability,
     isBusy |-> isBusy, customMessage |-> message]

MCFriends ==
    [id \in MCIds |-> IF id = "jay" THEN Contact("Friends", "Custom", FALSE, "booters") ELSE Absent]

Add(id, group) == [op |-> "AddContact", contactId |-> id, group |-> group]
Remove(id) == [op |-> "RemoveContact", contactId |-> id]
Rename(current, new) == [op |-> "RenameContactGroup", current |-> current, new |-> new]
Change(mode, id) == [op |-> "ChangeBlockedUser", mode |-> mode, contactId |-> id]
Away(status, busy, message) ==
    [op |-> "SetAway", status |-> status, busy |-> busy, message |-> message]
On(kind, id) == [op |-> kind, contactId |-> id]
Typing(operation) == [op |-> "ServiceOperation", operation |-> operation, contactId |-> "jay"]
Plain(kind) == [op |-> kind]

\* Changing status while own profiles come and go.
StatusRequests ==
    {Plain("SetAvailable"), Away("Busy", "1", ""), Away("Invisible", "", ""),
     Away("Custom", "0", "booters"), Away("Custom", "1", "paradise"),
     Away("Idle", "", "booters"), Away("Offline", "1", ""), Away("Brb", "other", ""),
     Remove("winky"), Add("winky", "Myself"), Add("greg", "Myself")}

\* Editing the contact list and the blocked one, with the same ids.
ListRequests ==
    {Add("jay", "Friends"), Add("greg", "Myself"), Add("grag", "Friends"), Add("jerk", "Friends"),
     Remove("jay"), Remove("winky"), Rename("Friends", "Myself"), Rename("Friends", "Friends"),
     Change("1", "jerk"), Change("2", "jerk"), Change("1", "jay"), Change("2", "jay")}

\* Everything a session dispatches that could end the process, and the rest
\* of the dispatch map.
MixedRequests ==
    {Change("1", "jerk"), Change("2", "jerk"), Change("1", "jay"), Change("2", "jay"),
     On("ActivateProfile", "greg"), On("ActivateProfile", "jay"), On("DeactivateProfile", "me"),
     On("DeactivateProfile", "jay"), Plain("RequestProfile"), Plain("Unknown"),
     On("DenyContactAddRequest", "winky"), On("DenyContactAddRequest", "jay"),
     On("PrivateMessage", "jay"), Typing("TYPING"), Typing("other"),
     Plain("MassPrivateMessage"), Plain("ChatLogin"), Plain("ChatJoin"),
     Away("Invisible", "other", ""), Away("Brb", "other", ""),
     Remove("jay"), Add("jerk", "Friends"), Add("jay", ""),
     Add("me", "Friends"), Change("other", "jay"), Remove("jerk"), Rename("Myself", "Friends")}
=============================================================================
