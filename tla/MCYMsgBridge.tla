----------------------------- MODULE MCYMsgBridge -----------------------------
(***************************************************************************)
(* An instance of YMsgBridge: a roster of two, one of whom the messenger   *)
(* removes and adds again, while the other is there under an id with a     *)
(* resource, and the user, whose own presence comes back from the XMPP     *)
(* server and who may be added as a contact, too.                          *)
(***************************************************************************)
EXTENDS YMsgBridge

MCIds == {"me", "me/giblet", "jay", "jay/phone", "kim", "kim/home"}

MCBare ==
    [id \in MCIds |->
        CASE id = "me/giblet" -> "me"
          [] id = "jay/phone" -> "jay"
          [] id = "kim/home" -> "kim"
          [] OTHER -> id]

MCRoster ==
    [id \in MCIds |->
        IF id \in {"jay", "kim/home"}
        THEN [group |-> "Friends", state |-> "Linked", availability |-> "Offline",
              isBusy |-> FALSE, customMessage |-> ""]
        ELSE Absent]

MCRequests ==
    {[op |-> "RemoveContact", contactId |-> "jay"],
     [op |-> "AddContact", contactId |-> "jay", group |-> "Friends"],
     [op |-> "AddContact", contactId |-> "me", group |-> "Friends"]}

Says(id, show, status) == [from |-> id, presence |-> [show |-> show, status |-> status]]

MCStanzas ==
    {Says("jay/phone", show, "") : show \in {"Chat", "XA", "Unavailable", "Error"}}
    \cup {Says("jay/phone", show, "booters") : show \in {"Unavailable"}}
    \cup {Says("me/giblet", "Available", ""), Says("kim/home", "DND", "")}
=============================================================================
