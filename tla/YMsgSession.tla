----------------------------- MODULE YMsgSession -----------------------------
(***************************************************************************)
(* One YMSG session after the login: the session thread of the test        *)
(* harness serves the requests of one messenger, one at a time and in the  *)
(* order of the TCP stream, against the in-memory address book of the mock *)
(* back end, and writes packets back on the same connection.               *)
(*                                                                         *)
(* The messenger is the only external part.  It sends requests at any time *)
(* and keeps a picture of the session, built from nothing but the packets  *)
(* it has read, so what it believes lags behind what the server holds by   *)
(* the packets still in flight in downstream.                              *)
(***************************************************************************)
EXTENDS Naturals, Sequences, FiniteSets

CONSTANTS
    Ids,            \* every contact id in the instance
    ClientId,       \* the id the messenger logged in with
    Profiles,       \* the profile ids of the ProfileManager
    LoadedProfiles, \* those of them that are loaded as contacts as well
    Friends,        \* the other contacts the login loads: id -> ContactInfo
    LoadedBlocked,  \* the blocked list the login loads
    NoSuchUser,     \* the id the mock address book does not know
    Groups,         \* the non-empty group names
    OwnGroup,       \* the group the own profiles are loaded into
    NoGroup,        \* the empty group name
    Messages,       \* the non-empty custom status messages
    NoMessage,      \* the empty message
    Absent,         \* an id without an entry in a map
    Requests,       \* the requests the messenger may send
    Careful,        \* TRUE: the messenger waits for the replies (see Ask)
    MaxUpstream,    \* bound: requests in flight
    MaxDownstream   \* bound: packets in flight when a request is served

Availability ==
    {"Offline", "Available", "Brb", "Busy", "Notathome", "NotAtDesk", "NotInOffice",
     "OnPhone", "OnVacation", "OutToLunch", "SteppedOut", "Invisible", "Custom", "Idle"}

GroupName == Groups \cup {NoGroup}
Message == Messages \cup {NoMessage}

ContactInfo ==
    [group : GroupName, state : {"Linked", "AddPending"}, availability : Availability,
     isBusy : BOOLEAN, customMessage : Message]

PresenceProperties == [availability : Availability, busy : BOOLEAN, message : Message]

Status == [availability : Availability, isBusy : BOOLEAN, customMessage : Message]

\* A std::map keyed by contact id, and the ids that have an entry in it.
ContactMap(S) == [Ids -> S \cup {Absent}]
Listed(map) == {id \in Ids : map[id] # Absent}

ASSUME SessionAssumption ==
    /\ ClientId \in Ids
    /\ LoadedProfiles \subseteq Profiles
    /\ Profiles \subseteq Ids
    /\ Friends \in ContactMap(ContactInfo)
    /\ Absent \notin ContactInfo \cup Status \cup GroupName
    /\ Listed(Friends) \cap Profiles = {}
    /\ \A id \in Listed(Friends) : Friends[id].availability # "Invisible"
    /\ LoadedBlocked \subseteq Ids
    /\ OwnGroup \in Groups
    /\ NoGroup \notin Groups
    /\ NoMessage \notin Messages
    /\ Careful \in BOOLEAN
    /\ MaxUpstream \in Nat \ {0}
    /\ MaxDownstream \in Nat \ {0}

VARIABLES
    contacts,   \* ContactManager::contacts_
    blocked,    \* BlockedContactManager::blockedUsers_
    presence,   \* MockPresenceManagementLink::properties_
    process,    \* "running", or ended by an exception no one catches: "terminated"
                \* by a handler's, "outgrown" by the Builder's
    upstream,   \* requests sent and not yet dispatched
    downstream, \* packets sent and not yet read by the messenger
    picture     \* what the messenger knows from the packets it has read

vars == <<contacts, blocked, presence, process, upstream, downstream, picture>>

-----------------------------------------------------------------------------
(* The packets the server builds, without the fields no property needs.    *)

\* The part of a ContactInfo that goes on the wire in a status packet.
StatusOf(c) ==
    [availability |-> c.availability, isBusy |-> c.isBusy,
     customMessage |-> IF c.availability = "Custom" THEN c.customMessage ELSE NoMessage]

GroupOf(book) == [id \in Ids |-> IF book[id] = Absent THEN Absent ELSE book[id].group]

ClientProfile(book, ignored) ==
    [type |-> "ClientProfile", contactList |-> GroupOf(book), blockedList |-> ignored]

\* The entries a status packet makes of some contacts.
Entries(book, ids) == [id \in Ids |-> IF id \in ids THEN StatusOf(book[id]) ELSE Absent]

\* One UpdateContactStatus packet for each id of ids, taken as one message:
\* they are about different contacts.  No contact, no packet.
UpdateContactStatus(book, ids) ==
    IF ids = {} THEN <<>>
    ELSE <<[type |-> "ContactStatus", statuses |-> Entries(book, ids)]>>

\* The same for ContactOffline, which carries nothing but the id.
ContactOffline(ids) ==
    IF ids = {} THEN <<>> ELSE <<[type |-> "ContactOffline", ids |-> ids]>>

AddContactRequestResult(id, group, status) ==
    [type |-> "AddContactRequestResult", contactId |-> id, group |-> group, status |-> status]

ContactRemoved(id, status) == [type |-> "ContactRemoved", contactId |-> id, status |-> status]

ContactGroupRenamed(oldGroupName, newGroupName) ==
    [type |-> "ContactGroupRenamed", oldGroup |-> oldGroupName, newGroup |-> newGroupName]

ContactBlocked(id) == [type |-> "ContactBlocked", contactId |-> id]
ContactUnblocked(id) == [type |-> "ContactUnblocked", contactId |-> id]

\* A packet that changes nothing in the messenger's picture.
Notice(kind, id) == [type |-> "Notice", kind |-> kind, contactId |-> id]

NoticeKinds ==
    {"AddContactRequest", "DenyContactAddRequest", "ProfileActivated", "ProfileDeactivated",
     "PrivateMessage", "TypingNotification"}

Packet ==
         [type : {"ClientProfile"}, contactList : ContactMap(GroupName), blockedList : SUBSET Ids]
    \cup [type : {"ContactStatus"}, statuses : ContactMap(Status)]
    \cup [type : {"ContactOffline"}, ids : SUBSET Ids]
    \cup [type : {"AddContactRequestResult"}, contactId : Ids, group : GroupName,
          status : {"AddPending", "GeneralFailure", "DuplicateContact", "ContactDoesNotExist",
                    "GroupAlreadyExists"}]
    \cup [type : {"ContactRemoved"}, contactId : Ids, status : {"Success", "GeneralFailure"}]
    \cup [type : {"ContactGroupRenamed"}, oldGroup : GroupName, newGroup : GroupName]
    \cup [type : {"ContactBlocked", "ContactUnblocked"}, contactId : Ids]
    \cup [type : {"Notice"}, kind : NoticeKinds, contactId : Ids]
    \cup [type : {"SystemMessage", "ChatLoginResponse", "ChatroomJoined", "PingConfiguration"}]

\* The requests of the dispatch map of a session.
Request ==
         [op : {"AddContact"}, contactId : Ids, group : GroupName]
    \cup [op : {"RemoveContact", "DenyContactAddRequest"}, contactId : Ids]
    \cup [op : {"RenameContactGroup"}, current : GroupName, new : GroupName]
    \cup [op : {"ChangeBlockedUser"}, mode : {"1", "2", "other"}, contactId : Ids]
    \cup [op : {"SetAway"}, status : Availability, busy : {"", "0", "1", "other"},
          message : Message]
    \cup [op : {"ActivateProfile", "DeactivateProfile", "PrivateMessage"}, contactId : Ids]
    \cup [op : {"ServiceOperation"}, operation : {"TYPING", "other"}, contactId : Ids]
    \cup [op : {"SetAvailable", "RequestProfile", "MassPrivateMessage", "ChatLogin", "ChatJoin",
                "Unknown"}]

ASSUME RequestsAssumption == Requests \subseteq Request

-----------------------------------------------------------------------------
(* ContactManager, ProfileManager and PresenceProperties.                  *)

IsContact(id) == contacts[id] # Absent
IsBlocked(id) == id \in blocked
IsClientOrProfileId(id) == id = ClientId \/ id \in Profiles

\* The profiles the presence loops find in the contact list.  They iterate
\* over profiles_, so the ClientId itself is not among them.
OwnContacts == {id \in Profiles : IsContact(id)}

\* Slip: the constructor leaves the state out.
AddPendingContactNoState(id, group) ==
    [contacts EXCEPT ![id] =
        [group |-> group, state |-> "Uninitialised", availability |-> "Offline",
         isBusy |-> FALSE, customMessage |-> NoMessage]]

AddPendingContact(id, group) ==
    [contacts EXCEPT ![id] =
        [group |-> group, state |-> "AddPending", availability |-> "Offline",
         isBusy |-> FALSE, customMessage |-> NoMessage]]

EraseContact(id) == [contacts EXCEPT ![id] = Absent]

RenameGroup(current, new) ==
    [id \in Ids |->
        IF IsContact(id) /\ contacts[id].group = current
        THEN [contacts[id] EXCEPT !.group = new] ELSE contacts[id]]

SetContactAvailable(c) == [c EXCEPT !.availability = "Available"]

SetContactIdle(c, message, busy) ==
    [c EXCEPT !.availability = "Idle", !.isBusy = busy, !.customMessage = message]

\* Slip: the busy flag is not taken over.
SetContactAwayNotBusy(c, availability, busy) == [c EXCEPT !.availability = availability]

SetContactAway(c, availability, busy) ==
    [c EXCEPT !.availability = availability, !.isBusy = busy]

SetContactStatusMessage(c, message, busy) ==
    [c EXCEPT !.availability = "Custom", !.isBusy = busy, !.customMessage = message]

SetContactOffline(c) == [c EXCEPT !.availability = "Offline"]

PropertiesAvailable == [availability |-> "Available", busy |-> FALSE, message |-> NoMessage]
PropertiesInvisible == [availability |-> "Invisible", busy |-> FALSE, message |-> NoMessage]
PropertiesIdle(message, busy) == [availability |-> "Idle", busy |-> busy, message |-> message]
PropertiesCustom(message, busy) == [availability |-> "Custom", busy |-> busy, message |-> message]
PropertiesAway(availability, busy) ==
    [availability |-> availability, busy |-> busy, message |-> NoMessage]

-----------------------------------------------------------------------------
(* The login: the address book the mock loads and the packets BeginSession *)
(* sends before the session's dispatch map is installed.                   *)

LoadContacts(initialAvailability) ==
    [id \in Ids |->
        IF id \in LoadedProfiles
        THEN [group |-> OwnGroup, state |-> "Linked", availability |-> initialAvailability,
              isBusy |-> FALSE, customMessage |-> NoMessage]
        ELSE Friends[id]]

IsOnline(c) == c.availability # "Offline"
Online(book) == {id \in Listed(book) : IsOnline(book[id])}

\* Slip: the statuses before the list they are about.
BeginSessionStatusFirst(book, ignored) ==
    <<[type |-> "ContactStatus", statuses |-> Entries(book, Online(book))],
      ClientProfile(book, ignored),
      [type |-> "PingConfiguration"]>>

BeginSession(book, ignored) ==
    <<ClientProfile(book, ignored),
      [type |-> "ContactStatus", statuses |-> Entries(book, Online(book))],
      [type |-> "PingConfiguration"]>>

\* A messenger that has read nothing.
Nothing == [id \in Ids |-> Absent]
EmptyPicture == [contactList |-> Nothing, blockedList |-> {}, statuses |-> Nothing]

Init ==
    \E initialAvailability \in {"Available", "Offline"} :
        /\ contacts = LoadContacts(initialAvailability)
        /\ blocked = LoadedBlocked
        /\ presence = PropertiesAway(initialAvailability, FALSE)
        /\ process = "running"
        /\ upstream = <<>>
        /\ downstream = BeginSession(contacts, blocked)
        /\ picture = EmptyPicture

-----------------------------------------------------------------------------
(* The messenger.                                                          *)

\* A request a messenger that trusts its picture would offer its user.
Sensible(r) ==
    CASE r.op = "ChangeBlockedUser" /\ r.mode = "1" -> r.contactId \notin picture.blockedList
      [] r.op = "ChangeBlockedUser" /\ r.mode = "2" -> r.contactId \in picture.blockedList
      [] r.op \in {"ActivateProfile", "DeactivateProfile"} -> IsClientOrProfileId(r.contactId)
      [] r.op = "SetAway" -> r.status = "Invisible" \/ r.busy # "other"
      [] OTHER -> TRUE

\* The messenger sends a request.  A careful one waits until every reply it
\* is owed has arrived and consults its picture; any other one pipelines.
Ask(r) ==
    /\ process = "running"
    /\ Len(upstream) < MaxUpstream
    /\ Careful => upstream = <<>> /\ downstream = <<>> /\ Sensible(r)
    /\ upstream' = Append(upstream, r)
    /\ UNCHANGED <<contacts, blocked, presence, process, downstream, picture>>

\* What a packet tells about the status of a contact: offline is shown as no
\* status at all.
Speaks(p, id) ==
    \/ p.type = "ContactStatus" /\ p.statuses[id] # Absent
    \/ p.type = "ContactOffline" /\ id \in p.ids
    \/ p.type = "ContactRemoved" /\ p.status = "Success" /\ p.contactId = id

Told(p, id) ==
    IF p.type = "ContactStatus" /\ p.statuses[id].availability # "Offline"
    THEN p.statuses[id] ELSE Absent

\* What the messenger makes of a packet: a profile replaces both lists, the
\* other packets are incremental.
Learn(p) ==
    [contactList |->
        CASE p.type = "ClientProfile" -> p.contactList
          [] p.type = "ContactRemoved" /\ p.status = "Success" ->
               [picture.contactList EXCEPT ![p.contactId] = Absent]
          [] p.type = "ContactGroupRenamed" ->
               [id \in Ids |-> IF picture.contactList[id] = p.oldGroup
                               THEN p.newGroup ELSE picture.contactList[id]]
          [] OTHER -> picture.contactList,
     blockedList |->
        CASE p.type = "ClientProfile" -> p.blockedList
          [] p.type = "ContactBlocked" -> picture.blockedList \cup {p.contactId}
          [] p.type = "ContactUnblocked" -> picture.blockedList \ {p.contactId}
          [] OTHER -> picture.blockedList,
     statuses |->
        [id \in Ids |-> IF Speaks(p, id) THEN Told(p, id) ELSE picture.statuses[id]]]

\* The messenger reads the next packet.
Read ==
    /\ downstream # <<>>
    /\ picture' = Learn(Head(downstream))
    /\ downstream' = Tail(downstream)
    /\ UNCHANGED <<contacts, blocked, presence, process, upstream>>

-----------------------------------------------------------------------------
(* The handlers.  Each is one dispatched packet: the processor, the mock   *)
(* link it calls and the events object that changes state and replies.     *)

\* The session thread is about to dispatch a request of this kind.  The
\* socket is a blocking one: nothing is served while the messenger leaves
\* MaxDownstream packets unread.
Serve(op) ==
    /\ process = "running"
    /\ upstream # <<>>
    /\ Head(upstream).op = op
    /\ Len(downstream) < MaxDownstream
    /\ upstream' = Tail(upstream)
    /\ UNCHANGED picture

Sends(packets) == downstream' = downstream \o packets /\ UNCHANGED process

\* How long ids, names and texts are is left out: only the packets made of
\* constants are known to fit.
HasFixedSize(p) == p.type \in {"SystemMessage", "PingConfiguration"}

\* The Builder throws for a packet of 64K and more, and ends the process as a
\* handler's exception does.  What was built before has been sent; what the
\* process held is gone with it.
Outgrows(packets) ==
    /\ process' = "outgrown"
    /\ \E n \in DOMAIN packets :
          /\ ~HasFixedSize(packets[n])
          /\ downstream' = downstream \o SubSeq(packets, 1, n - 1)

Reply(packets) == Sends(packets) \/ Outgrows(packets)

\* A handler that only answers.
Answer(packets) == Reply(packets) /\ UNCHANGED <<contacts, blocked, presence>>

\* A handler that throws: no one catches between the processor and the
\* thread function, so std::terminate ends the process with every session.
Throw ==
    /\ process' = "terminated"
    /\ UNCHANGED <<contacts, blocked, presence, downstream>>

\* Slip: the profile is built before the change it is to show.
RefreshProfileStale == <<ClientProfile(contacts, blocked)>>

RefreshProfile == <<ClientProfile(contacts', blocked)>>

OnAddRequestPending(id, group) ==
    /\ contacts' = AddPendingContact(id, group)
    /\ Reply(<<AddContactRequestResult(id, group, "AddPending")>>
             \o RefreshProfile
             \o IF IsClientOrProfileId(id) THEN <<Notice("AddContactRequest", id)>> ELSE <<>>)
    /\ UNCHANGED <<blocked, presence>>

\* The add is answered with the reason it is refused for.
Refuse(id, group, status) == Answer(<<AddContactRequestResult(id, group, status)>>)

\* Slip: the blocked list is not consulted.
AddContactUnchecked ==
    /\ Serve("AddContact")
    /\ LET id == Head(upstream).contactId
           group == Head(upstream).group
       IN  \/ group = NoGroup /\ Refuse(id, group, "GroupAlreadyExists")
           \/ group # NoGroup /\ IsContact(id) /\ Refuse(id, group, "DuplicateContact")
           \/ group # NoGroup /\ ~IsContact(id) /\ OnAddRequestPending(id, group)

AddContact ==
    /\ Serve("AddContact")
    /\ LET id == Head(upstream).contactId
           group == Head(upstream).group
       IN  \/ group = NoGroup /\ Refuse(id, group, "GroupAlreadyExists")
           \/ /\ group # NoGroup
              /\ \/ IsContact(id) /\ Refuse(id, group, "DuplicateContact")
                 \/ ~IsContact(id) /\ IsBlocked(id) /\ Refuse(id, group, "GeneralFailure")
                 \/ /\ ~IsContact(id) /\ ~IsBlocked(id)
                    /\ \/ id = NoSuchUser /\ Refuse(id, group, "ContactDoesNotExist")
                       \/ id # NoSuchUser /\ OnAddRequestPending(id, group)

OnContactRemoved(id) ==
    /\ contacts' = EraseContact(id)
    /\ Reply(<<ContactRemoved(id, "Success")>> \o RefreshProfile)
    /\ UNCHANGED <<blocked, presence>>

RemoveContact ==
    /\ Serve("RemoveContact")
    /\ LET id == Head(upstream).contactId
       IN  \/ IsContact(id) /\ OnContactRemoved(id)
           \/ ~IsContact(id) /\ Answer(<<ContactRemoved(id, "GeneralFailure")>>)

\* The rename's reply names the groups in the order OnGroupRenamed passes
\* them to the builder, which declares them the other way round.
OnGroupRenamed(current, new) ==
    /\ contacts' = RenameGroup(current, new)
    /\ Reply(<<ContactGroupRenamed(new, current)>> \o RefreshProfile)
    /\ UNCHANGED <<blocked, presence>>

\* A rename to the same name fails silently: OnGroupRenameFailed constructs
\* an exception and does not throw it.
RenameContactGroup ==
    /\ Serve("RenameContactGroup")
    /\ LET r == Head(upstream)
       IN  \/ r.current = r.new /\ Answer(<<>>)
           \/ r.current # r.new /\ OnGroupRenamed(r.current, r.new)

DenyContactAddRequest ==
    /\ Serve("DenyContactAddRequest")
    /\ LET id == Head(upstream).contactId
       IN  Answer(IF IsClientOrProfileId(id)
                  THEN <<Notice("DenyContactAddRequest", id)>> ELSE <<>>)

\* Slip: the messenger is not told.
OnBlockedSilent(id) ==
    /\ blocked' = blocked \cup {id}
    /\ UNCHANGED <<contacts, presence, process, downstream>>

OnBlocked(id) ==
    /\ blocked' = blocked \cup {id}
    /\ Reply(<<ContactBlocked(id)>>)
    /\ UNCHANGED <<contacts, presence>>

\* Slips: the list is not changed, or the messenger is not told.
OnUnblockedForgotten(id) == Answer(<<ContactUnblocked(id)>>)
OnUnblockedSilent(id) ==
    /\ blocked' = blocked \ {id}
    /\ UNCHANGED <<contacts, presence, process, downstream>>

OnUnblocked(id) ==
    /\ blocked' = blocked \ {id}
    /\ Reply(<<ContactUnblocked(id)>>)
    /\ UNCHANGED <<contacts, presence>>

ChangeBlockedUser ==
    /\ Serve("ChangeBlockedUser")
    /\ LET id == Head(upstream).contactId
           mode == Head(upstream).mode
       IN  \/ mode = "1" /\ IsBlocked(id) /\ Throw
           \/ mode = "1" /\ ~IsBlocked(id) /\ OnBlocked(id)
           \/ mode = "2" /\ ~IsBlocked(id) /\ Throw
           \/ mode = "2" /\ IsBlocked(id) /\ OnUnblocked(id)
           \/ mode = "other" /\ Answer(<<>>)

\* The presence loops: the properties first, then for every own profile in
\* the contact list the contact and the packet that shows it.
SetPresence(properties, changed, packets) ==
    /\ presence' = properties
    /\ contacts' = [id \in Ids |-> IF id \in OwnContacts THEN changed[id] ELSE contacts[id]]
    /\ Reply(packets)
    /\ UNCHANGED blocked

SetAvailable ==
    /\ Serve("SetAvailable")
    /\ LET changed == [id \in OwnContacts |-> SetContactAvailable(contacts[id])]
       IN  SetPresence(PropertiesAvailable, changed, UpdateContactStatus(changed, OwnContacts))

\* Slip: no contact offline packet.
SetInvisibleSilent ==
    LET changed == [id \in OwnContacts |-> SetContactOffline(contacts[id])]
    IN  SetPresence(PropertiesInvisible, changed, <<>>)

SetInvisible ==
    LET changed == [id \in OwnContacts |-> SetContactOffline(contacts[id])]
    IN  SetPresence(PropertiesInvisible, changed, ContactOffline(OwnContacts))

SetIdle(message, busy) ==
    LET changed == [id \in OwnContacts |-> SetContactIdle(contacts[id], message, busy)]
    IN  SetPresence(PropertiesIdle(message, busy), changed,
                    UpdateContactStatus(changed, OwnContacts))

SetCustomStatus(message, busy) ==
    LET changed == [id \in OwnContacts |-> SetContactStatusMessage(contacts[id], message, busy)]
    IN  SetPresence(PropertiesCustom(message, busy), changed,
                    UpdateContactStatus(changed, OwnContacts))

SetAwayAs(availability, busy) ==
    LET changed == [id \in OwnContacts |-> SetContactAway(contacts[id], availability, busy)]
    IN  SetPresence(PropertiesAway(availability, busy), changed,
                    UpdateContactStatus(changed, OwnContacts))

\* The text of a busy state: none at all and "0" are not busy, "1" stands for
\* the other numbers and "other" for what is no number.
IsBusy(r) == r.busy = "1"

\* Slip: invisible is an away state like any other.
SetAwayInvisibleToo ==
    /\ Serve("SetAway")
    /\ LET r == Head(upstream)
       IN  \/ r.busy = "other" /\ Throw
           \/ r.busy # "other" /\ r.status = "Idle" /\ SetIdle(r.message, IsBusy(r))
           \/ r.busy # "other" /\ r.status = "Custom" /\ SetCustomStatus(r.message, IsBusy(r))
           \/ r.busy # "other" /\ r.status \notin {"Idle", "Custom"} /\ SetAwayAs(r.status, IsBusy(r))

\* The processor sorts the away states out by status id.  It reads the busy
\* state of all but the invisible one, and throws when that is no number.
SetAway ==
    /\ Serve("SetAway")
    /\ LET r == Head(upstream)
       IN  \/ r.status = "Invisible" /\ SetInvisible
           \/ r.status # "Invisible" /\ r.busy = "other" /\ Throw
           \/ r.busy # "other" /\ r.status = "Idle" /\ SetIdle(r.message, IsBusy(r))
           \/ r.busy # "other" /\ r.status = "Custom" /\ SetCustomStatus(r.message, IsBusy(r))
           \/ /\ r.busy # "other"
              /\ r.status \notin {"Invisible", "Idle", "Custom"}
              /\ SetAwayAs(r.status, IsBusy(r))

RequestProfile ==
    /\ Serve("RequestProfile")
    /\ Answer(<<ClientProfile(contacts, blocked)>>)

ActivateProfile ==
    /\ Serve("ActivateProfile")
    /\ LET id == Head(upstream).contactId
       IN  \/ IsClientOrProfileId(id) /\ Answer(<<Notice("ProfileActivated", id)>>)
           \/ ~IsClientOrProfileId(id) /\ Throw

DeactivateProfile ==
    /\ Serve("DeactivateProfile")
    /\ LET id == Head(upstream).contactId
       IN  \/ IsClientOrProfileId(id) /\ Answer(<<Notice("ProfileDeactivated", id)>>)
           \/ ~IsClientOrProfileId(id) /\ Throw

\* The messaging processors keep no state: they echo or refuse.
PrivateMessage ==
    /\ Serve("PrivateMessage")
    /\ Answer(<<Notice("PrivateMessage", Head(upstream).contactId)>>)

ServiceOperation ==
    /\ Serve("ServiceOperation")
    /\ LET r == Head(upstream)
       IN  Answer(IF r.operation = "TYPING"
                  THEN <<Notice("TypingNotification", r.contactId)>> ELSE <<>>)

MassPrivateMessage == Serve("MassPrivateMessage") /\ Answer(<<[type |-> "SystemMessage"]>>)
ChatLogin == Serve("ChatLogin") /\ Answer(<<[type |-> "ChatLoginResponse"]>>)
ChatJoin == Serve("ChatJoin") /\ Answer(<<[type |-> "ChatroomJoined"]>>)

\* A service without a processor is parsed, logged and forgotten.
UnknownService == Serve("Unknown") /\ Answer(<<>>)

Handle ==
    \/ AddContact \/ RemoveContact \/ RenameContactGroup \/ DenyContactAddRequest
    \/ ChangeBlockedUser
    \/ SetAvailable \/ SetAway
    \/ RequestProfile \/ ActivateProfile \/ DeactivateProfile
    \/ PrivateMessage \/ ServiceOperation \/ MassPrivateMessage \/ ChatLogin \/ ChatJoin
    \/ UnknownService

Next ==
    \/ \E r \in Requests : Ask(r)
    \/ Handle
    \/ Read

Spec == Init /\ [][Next]_vars

\* The session thread loops over select for ever and the messenger keeps
\* reading its socket while the process lives; nobody is obliged to send a
\* request.
FairSpec == Spec /\ WF_vars(Handle) /\ WF_vars(process = "running" /\ Read)

-----------------------------------------------------------------------------
(* Properties.                                                             *)

\* Type invariant.
TypeOK ==
    /\ contacts \in ContactMap(ContactInfo)
    /\ blocked \subseteq Ids
    /\ presence \in PresenceProperties
    /\ process \in {"running", "terminated", "outgrown"}
    /\ upstream \in Seq(Request)
    /\ downstream \in Seq(Packet)
    /\ picture \in [contactList : ContactMap(GroupName), blockedList : SUBSET Ids,
                    statuses : ContactMap(Status)]

\* Packets that make the messenger redraw its contact list.
ChangesList(p) ==
    \/ p.type \in {"ClientProfile", "ContactGroupRenamed"}
    \/ p.type = "ContactRemoved" /\ p.status = "Success"

\* The messenger's contact list is a replica of ContactManager that only
\* lags: either nothing in flight touches the list and the two are equal, or
\* the last packet in flight that touches it is a profile of what the server
\* holds now.  This is what the RefreshProfile after every add, remove and
\* rename is for (ContactManagementEvents), and it holds although the rename
\* packet before the refresh names the groups the wrong way round; where the
\* refresh outgrows the Builder there is no server left to agree with.
ContactListReplicated ==
    process # "outgrown" =>
        \/ /\ \A i \in DOMAIN downstream : ~ChangesList(downstream[i])
           /\ picture.contactList = GroupOf(contacts)
        \/ \E i \in DOMAIN downstream :
              /\ downstream[i].type = "ClientProfile"
              /\ downstream[i].contactList = GroupOf(contacts)
              /\ \A j \in i + 1 .. Len(downstream) : ~ChangesList(downstream[j])

ChangesBlocked(p, id) ==
    \/ p.type = "ClientProfile"
    \/ p.type \in {"ContactBlocked", "ContactUnblocked"} /\ p.contactId = id

LeavesBlocked(p, id) ==
    p.type = "ContactBlocked" \/ (p.type = "ClientProfile" /\ id \in p.blockedList)

\* The messenger's ignore list lags behind BlockedContactManager in the same
\* way, for each id on its own: blocking and unblocking send no profile, so
\* snapshots and increments interleave on the wire, and the last packet in
\* flight that speaks of an id must tell the server's present answer.
BlockedListReplicated ==
    process # "outgrown" => \A id \in Ids :
        \/ /\ \A i \in DOMAIN downstream : ~ChangesBlocked(downstream[i], id)
           /\ id \in picture.blockedList <=> id \in blocked
        \/ \E i \in DOMAIN downstream :
              /\ ChangesBlocked(downstream[i], id)
              /\ LeavesBlocked(downstream[i], id) <=> id \in blocked
              /\ \A j \in i + 1 .. Len(downstream) : ~ChangesBlocked(downstream[j], id)

HeldStatus(id) ==
    IF IsContact(id) /\ IsOnline(contacts[id]) THEN StatusOf(contacts[id]) ELSE Absent

\* The status the messenger shows for a contact lags behind ContactManager
\* in the same way.  A profile carries no status, so a contact that is
\* removed and added again must not come back with the old one on either
\* side, and the login must announce exactly the contacts that are online.
StatusReplicated ==
    process # "outgrown" => \A id \in Ids :
        \/ /\ \A i \in DOMAIN downstream : ~Speaks(downstream[i], id)
           /\ picture.statuses[id] = HeldStatus(id)
        \/ \E i \in DOMAIN downstream :
              /\ Speaks(downstream[i], id)
              /\ Told(downstream[i], id) = HeldStatus(id)
              /\ \A j \in i + 1 .. Len(downstream) : ~Speaks(downstream[j], id)

\* A status packet reaches the messenger only when every contact it speaks of
\* is in the messenger's list: BeginSession sends the profile before the
\* statuses, and presence is sent for profiles still in the list.
StatusOnlyForListed ==
    downstream # <<>> =>
        LET p == Head(downstream)
        IN  /\ p.type = "ContactStatus" =>
                 Listed(p.statuses) \subseteq Listed(picture.contactList)
            /\ p.type = "ContactOffline" => p.ids \subseteq Listed(picture.contactList)

Follows(c) ==
    /\ c.availability = IF presence.availability = "Invisible"
                        THEN "Offline" ELSE presence.availability
    /\ c.availability = "Custom" => c.customMessage = presence.message
    /\ c.availability \notin {"Available", "Offline"} => c.isBusy = presence.busy

\* The two places that keep the user's own status agree: a contact that is
\* one of the user's profiles has the status PresenceProperties holds, with
\* invisible shown as offline, and one that was removed and added again is
\* offline until the next change of status reaches it.  The busy flag is
\* left out of Available, where ContactManager keeps the old one.
OwnContactsFollowPresence ==
    \A id \in OwnContacts :
        \/ Follows(contacts[id])
        \/ contacts[id].state = "AddPending" /\ contacts[id].availability = "Offline"

\* "This is only sent by the client never to the client. Send contact
\* offline packet instead." (Types.h): no status packet says Invisible,
\* whatever order logins, away requests and re-added contacts come in.
InvisibleNeverShown ==
    \A i \in DOMAIN downstream :
        downstream[i].type = "ContactStatus" =>
            \A id \in Listed(downstream[i].statuses) :
                downstream[i].statuses[id].availability # "Invisible"

\* A blocked id that is not a contact cannot become one before it is
\* unblocked: the add that is refused is refused on BlockedContactManager's
\* answer at the moment it is served, not at the moment it was sent.
BlockedStrangersStayOut ==
    [][\A id \in blocked : id \in Listed(contacts') => IsContact(id)]_vars

\* A messenger that waits for its replies, blocks, unblocks and activates only
\* what its picture allows and sends no odd busy state makes no handler throw:
\* only a reply that outgrows the Builder ends its process.
CarefulMessengerIsSafe == Careful => process # "terminated"

InStep ==
    /\ upstream = <<>>
    /\ downstream = <<>>
    /\ picture.contactList = GroupOf(contacts)
    /\ picture.blockedList = blocked
    /\ \A id \in Ids : picture.statuses[id] = HeldStatus(id)

\* When the user stops asking, every request is served and the messenger ends
\* up with exactly the server's address book, unless a request has brought
\* the process down.
Converges ==
    (<>[][\A r \in Requests : ~Ask(r)]_vars)
        => <>[](process # "running" \/ InStep)
=============================================================================
