-------------------------- MODULE YMsgSessionProofs --------------------------
(***************************************************************************)
(* Theorems about YMsgSession, for every set of ids, groups and requests   *)
(* and every bound: the types, what each step does to the parts of the     *)
(* state, and that what the messenger believes of the contact list and of  *)
(* the ignore list lags behind what the server holds by the packets in     *)
(* flight and by nothing else.                                             *)
(*                                                                         *)
(* The three replicas, these two and the statuses, have the same argument: *)
(* Caught, an invariant of a first-in first-out queue, is kept by reading  *)
(* a packet, by sending packets that do not touch the replica and by       *)
(* sending packets whose last word on it is true.                          *)
(***************************************************************************)
EXTENDS YMsgSession, SequenceTheorems, TLAPS

USE DEF ContactMap, GroupName, Message

-----------------------------------------------------------------------------
(* What the helpers return.                                                *)

\* The operations of ContactManager yield contact records.
LEMMA ContactOperations ==
    ASSUME NEW c \in ContactInfo, NEW a \in Availability, NEW m \in Message,
           NEW b \in BOOLEAN
    PROVE  /\ SetContactAvailable(c) \in ContactInfo
           /\ SetContactIdle(c, m, b) \in ContactInfo
           /\ SetContactAway(c, a, b) \in ContactInfo
           /\ SetContactStatusMessage(c, m, b) \in ContactInfo
           /\ SetContactOffline(c) \in ContactInfo
           /\ StatusOf(c) \in Status
  <1> USE DEF ContactInfo, Availability
  <1>1. SetContactAvailable(c) \in ContactInfo
    BY DEF SetContactAvailable
  <1>2. SetContactIdle(c, m, b) \in ContactInfo
    BY DEF SetContactIdle
  <1>3. SetContactAway(c, a, b) \in ContactInfo
    BY DEF SetContactAway
  <1>4. SetContactStatusMessage(c, m, b) \in ContactInfo
    BY DEF SetContactStatusMessage
  <1>5. SetContactOffline(c) \in ContactInfo
    BY DEF SetContactOffline
  <1>6. StatusOf(c) \in Status
    BY DEF StatusOf, Status
  <1> QED
    BY <1>1, <1>2, <1>3, <1>4, <1>5, <1>6

\* The operations of PresenceProperties yield properties.
LEMMA PropertyOperations ==
    ASSUME NEW a \in Availability, NEW m \in Message, NEW b \in BOOLEAN
    PROVE  /\ PropertiesAvailable \in PresenceProperties
           /\ PropertiesInvisible \in PresenceProperties
           /\ PropertiesIdle(m, b) \in PresenceProperties
           /\ PropertiesCustom(m, b) \in PresenceProperties
           /\ PropertiesAway(a, b) \in PresenceProperties
  BY DEF Availability, PresenceProperties, PropertiesAvailable, PropertiesInvisible,
         PropertiesIdle, PropertiesCustom, PropertiesAway

\* The contact list after an add, a removal, a rename.
LEMMA ListOperations ==
    ASSUME contacts \in ContactMap(ContactInfo), NEW id \in Ids,
           NEW g \in GroupName, NEW h \in GroupName
    PROVE  /\ AddPendingContact(id, g) \in ContactMap(ContactInfo)
           /\ EraseContact(id) \in ContactMap(ContactInfo)
           /\ RenameGroup(g, h) \in ContactMap(ContactInfo)
  BY DEF ContactInfo, Availability, AddPendingContact, EraseContact, RenameGroup, IsContact

\* The packets the builders build are packets.
LEMMA ProfilePacket ==
    ASSUME NEW book \in ContactMap(ContactInfo), NEW ignored \in SUBSET Ids
    PROVE  ClientProfile(book, ignored) \in Packet
  <1>1. GroupOf(book) \in ContactMap(GroupName)
    BY DEF GroupOf, ContactInfo
  <1> QED
    BY <1>1 DEF ClientProfile, Packet

\* The statuses of some contacts make a well-formed status packet.
LEMMA StatusPacket ==
    ASSUME NEW book, NEW ids \in SUBSET Ids, \A id \in ids : book[id] \in ContactInfo
    PROVE  /\ Entries(book, ids) \in ContactMap(Status)
           /\ [type |-> "ContactStatus", statuses |-> Entries(book, ids)] \in Packet
           /\ UpdateContactStatus(book, ids) \in Seq(Packet)
  <1>1. \A id \in ids : StatusOf(book[id]) \in Status
    BY ContactOperations DEF Availability
  <1>2. Entries(book, ids) \in ContactMap(Status)
    BY <1>1 DEF Entries
  <1>3. [type |-> "ContactStatus", statuses |-> Entries(book, ids)] \in Packet
    BY <1>2 DEF Packet
  <1> QED
    BY <1>2, <1>3 DEF UpdateContactStatus

\* What a request record of each kind carries.
LEMMA RequestFields ==
    ASSUME NEW r \in Request
    PROVE  /\ r.op = "AddContact" => r.contactId \in Ids /\ r.group \in GroupName
           /\ r.op \in {"RemoveContact", "DenyContactAddRequest", "ChangeBlockedUser",
                        "ActivateProfile", "DeactivateProfile", "PrivateMessage",
                        "ServiceOperation"} => r.contactId \in Ids
           /\ r.op = "RenameContactGroup" => r.current \in GroupName /\ r.new \in GroupName
           /\ r.op = "SetAway" =>
                r.status \in Availability /\ IsBusy(r) \in BOOLEAN /\ r.message \in Message
  BY DEF Request, IsBusy

\* What a packet of each kind carries.
LEMMA PacketFields ==
    ASSUME NEW p \in Packet
    PROVE  /\ p.type = "ClientProfile" =>
                p.contactList \in ContactMap(GroupName) /\ p.blockedList \in SUBSET Ids
           /\ p.type = "ContactStatus" => p.statuses \in ContactMap(Status)
           /\ p.type = "ContactOffline" => p.ids \in SUBSET Ids
           /\ p.type = "ContactGroupRenamed" =>
                p.oldGroup \in GroupName /\ p.newGroup \in GroupName
           /\ p.type \in {"AddContactRequestResult", "ContactRemoved", "ContactBlocked",
                          "ContactUnblocked"} => p.contactId \in Ids
  BY DEF Packet

\* The small replies are packets.
LEMMA ReplyPackets ==
    ASSUME NEW id \in Ids, NEW g \in GroupName, NEW h \in GroupName
    PROVE  /\ \A status \in {"AddPending", "GeneralFailure", "DuplicateContact",
                             "ContactDoesNotExist", "GroupAlreadyExists"} :
                AddContactRequestResult(id, g, status) \in Packet
           /\ \A status \in {"Success", "GeneralFailure"} : ContactRemoved(id, status) \in Packet
           /\ ContactGroupRenamed(g, h) \in Packet
           /\ ContactBlocked(id) \in Packet
           /\ ContactUnblocked(id) \in Packet
           /\ \A kind \in NoticeKinds : Notice(kind, id) \in Packet
  <1>1. \A status \in {"AddPending", "GeneralFailure", "DuplicateContact",
                       "ContactDoesNotExist", "GroupAlreadyExists"} :
          AddContactRequestResult(id, g, status) \in Packet
    BY DEF Packet, AddContactRequestResult
  <1>2. \A status \in {"Success", "GeneralFailure"} : ContactRemoved(id, status) \in Packet
    BY DEF Packet, ContactRemoved
  <1>3. ContactGroupRenamed(g, h) \in Packet
    BY DEF Packet, ContactGroupRenamed
  <1>4. ContactBlocked(id) \in Packet /\ ContactUnblocked(id) \in Packet
    BY DEF Packet, ContactBlocked, ContactUnblocked
  <1>5. \A kind \in NoticeKinds : Notice(kind, id) \in Packet
    BY DEF Packet, Notice
  <1> QED
    BY <1>1, <1>2, <1>3, <1>4, <1>5

\* The replies without content are packets.
LEMMA PlainPackets ==
    \A kind \in {"SystemMessage", "ChatLoginResponse", "ChatroomJoined", "PingConfiguration"} :
        [type |-> kind] \in Packet
  BY DEF Packet

\* The contact offline packet, if one is sent.
LEMMA OfflinePackets ==
    ASSUME NEW ids \in SUBSET Ids
    PROVE  ContactOffline(ids) \in Seq(Packet)
  <1>1. [type |-> "ContactOffline", ids |-> ids] \in Packet
    BY DEF Packet
  <1>2. <<[type |-> "ContactOffline", ids |-> ids]>> \in Seq(Packet) /\ <<>> \in Seq(Packet)
    BY <1>1
  <1> QED
    BY <1>2, Zenon DEF ContactOffline

\* What the messenger learns from a packet is a picture.
LEMMA PictureOfPacket ==
    ASSUME TypeOK, NEW p \in Packet
    PROVE  Learn(p) \in [contactList : ContactMap(GroupName), blockedList : SUBSET Ids,
                         statuses : ContactMap(Status)]
  <1> DEFINE L == Learn(p)
  <1>1. /\ picture.contactList \in ContactMap(GroupName)
        /\ picture.blockedList \in SUBSET Ids
        /\ picture.statuses \in ContactMap(Status)
    BY DEF TypeOK
  <1>2. L.contactList \in ContactMap(GroupName)
    <2>1. CASE p.type = "ClientProfile"
      BY <2>1, PacketFields DEF Learn
    <2>2. CASE p.type = "ContactRemoved" /\ p.status = "Success"
      BY <1>1, <2>2, PacketFields DEF Learn
    <2>3. CASE p.type = "ContactGroupRenamed"
      BY <1>1, <2>3, PacketFields DEF Learn
    <2>4. CASE /\ p.type \notin {"ClientProfile", "ContactGroupRenamed"}
               /\ ~(p.type = "ContactRemoved" /\ p.status = "Success")
      BY <1>1, <2>4 DEF Learn
    <2> QED
      BY <2>1, <2>2, <2>3, <2>4
  <1>3. L.blockedList \in SUBSET Ids
    <2>1. CASE p.type \in {"ContactBlocked", "ContactUnblocked"}
      BY <1>1, <2>1, PacketFields DEF Learn
    <2>2. CASE p.type = "ClientProfile"
      BY <2>2, PacketFields DEF Learn
    <2>3. CASE p.type \notin {"ContactBlocked", "ContactUnblocked", "ClientProfile"}
      BY <1>1, <2>3 DEF Learn
    <2> QED
      BY <2>1, <2>2, <2>3
  <1>4. L.statuses \in ContactMap(Status)
    BY <1>1, PacketFields DEF Learn, Told
  <1> QED
    BY <1>2, <1>3, <1>4 DEF Learn

-----------------------------------------------------------------------------
(* Type correctness.                                                       *)

\* The part of TypeOK a handler can disturb besides upstream and picture.
ServerTypeOK ==
    /\ contacts \in ContactMap(ContactInfo)
    /\ blocked \subseteq Ids
    /\ presence \in PresenceProperties
    /\ process \in {"running", "terminated", "outgrown"}
    /\ downstream \in Seq(Packet)

\* What PacketDispatcher::Dispatch takes off the wire is a request.
LEMMA ServeTypes ==
    ASSUME TypeOK, NEW op, Serve(op)
    PROVE  /\ Head(upstream) \in Request
           /\ Head(upstream).op = op
           /\ upstream' \in Seq(Request)
           /\ picture' = picture
  BY DEF TypeOK, Serve

\* The first packets of a reply.
LEMMA PacketsBefore ==
    ASSUME NEW packets \in Seq(Packet), NEW n \in 0 .. Len(packets)
    PROVE  /\ SubSeq(packets, 1, n) \in Seq(Packet)
           /\ Len(SubSeq(packets, 1, n)) = n
           /\ \A i \in 1 .. n : i \in 1 .. Len(packets) /\ SubSeq(packets, 1, n)[i] = packets[i]
  OBVIOUS

\* Sending packets keeps the queue to the messenger a queue of packets.
LEMMA ReplyTypes ==
    ASSUME TypeOK, NEW packets \in Seq(Packet), Reply(packets)
    PROVE  /\ downstream' \in Seq(Packet)
           /\ process' \in {"running", "terminated", "outgrown"}
  <1>1. downstream \in Seq(Packet) /\ process \in {"running", "terminated", "outgrown"}
    BY DEF TypeOK
  <1>2. CASE Sends(packets)
    BY <1>1, <1>2 DEF Sends
  <1>3. CASE Outgrows(packets)
    <2>1. PICK n \in DOMAIN packets : downstream' = downstream \o SubSeq(packets, 1, n - 1)
      BY <1>3 DEF Outgrows
    <2>2. n - 1 \in 0 .. Len(packets)
      OBVIOUS
    <2>3. SubSeq(packets, 1, n - 1) \in Seq(Packet)
      BY <2>2, PacketsBefore
    <2> QED
      BY <1>1, <1>3, <2>1, <2>3 DEF Outgrows
  <1> QED
    BY <1>2, <1>3 DEF Reply

\* A handler that only replies keeps the server's part of the types.
LEMMA AnswerTypes ==
    ASSUME TypeOK, NEW packets \in Seq(Packet), Answer(packets)
    PROVE  ServerTypeOK'
  BY ReplyTypes DEF TypeOK, Answer, ServerTypeOK

\* So does one that does nothing.
LEMMA SilentTypes ==
    ASSUME TypeOK, Answer(<<>>)
    PROVE  ServerTypeOK'
  <1>1. <<>> \in Seq(Packet)
    OBVIOUS
  <1> QED
    BY <1>1, AnswerTypes

\* And one that throws.
LEMMA ThrowTypes ==
    ASSUME TypeOK, Throw
    PROVE  ServerTypeOK'
  BY DEF TypeOK, Throw, ServerTypeOK

\* The profile that RefreshProfile sends.
LEMMA RefreshTypes ==
    ASSUME TypeOK, contacts' \in ContactMap(ContactInfo)
    PROVE  RefreshProfile \in Seq(Packet)
  <1>1. ClientProfile(contacts', blocked) \in Packet
    BY ProfilePacket DEF TypeOK
  <1> QED
    BY <1>1 DEF RefreshProfile

\* MockContactManagementLink::AddContact keeps the types, refused or not.
LEMMA AddContactTypes ==
    ASSUME TypeOK, AddContact
    PROVE  ServerTypeOK'
  <1> DEFINE id == Head(upstream).contactId
             group == Head(upstream).group
  <1>1. id \in Ids /\ group \in GroupName
    BY ServeTypes, RequestFields DEF AddContact
  <1>2. ASSUME NEW status \in {"GeneralFailure", "DuplicateContact", "ContactDoesNotExist",
                               "GroupAlreadyExists"},
               Refuse(id, group, status)
        PROVE  ServerTypeOK'
    <2>1. AddContactRequestResult(id, group, status) \in Packet
      BY <1>1, ReplyPackets
    <2>2. <<AddContactRequestResult(id, group, status)>> \in Seq(Packet)
      BY <2>1
    <2> QED
      BY <1>2, <2>2, AnswerTypes DEF Refuse
  <1>3. ASSUME OnAddRequestPending(id, group)
        PROVE  ServerTypeOK'
    <2>1. contacts' \in ContactMap(ContactInfo)
      BY <1>1, <1>3, ListOperations DEF OnAddRequestPending, TypeOK
    <2>2. RefreshProfile \in Seq(Packet)
      BY <2>1, RefreshTypes
    <2>3. /\ <<AddContactRequestResult(id, group, "AddPending")>> \in Seq(Packet)
          /\ <<Notice("AddContactRequest", id)>> \in Seq(Packet)
      BY <1>1, ReplyPackets DEF NoticeKinds
    <2> DEFINE packets == <<AddContactRequestResult(id, group, "AddPending")>>
                          \o RefreshProfile
                          \o IF IsClientOrProfileId(id)
                             THEN <<Notice("AddContactRequest", id)>> ELSE <<>>
    <2>4. packets \in Seq(Packet)
      <3> HIDE DEF id, group
      <3> QED
        BY <2>2, <2>3
    <2>5. downstream' \in Seq(Packet) /\ process' \in {"running", "terminated", "outgrown"}
      <3>1. Reply(packets)
        BY <1>3 DEF OnAddRequestPending
      <3> HIDE DEF packets
      <3> QED
        BY <2>4, <3>1, ReplyTypes
    <2> QED
      BY <1>3, <2>1, <2>5 DEF OnAddRequestPending, ServerTypeOK, TypeOK
  <1> QED
    BY <1>2, <1>3 DEF AddContact

\* MockContactManagementLink::RemoveContact keeps the types.
LEMMA RemoveContactTypes ==
    ASSUME TypeOK, RemoveContact
    PROVE  ServerTypeOK'
  <1> DEFINE id == Head(upstream).contactId
  <1>1. id \in Ids
    BY ServeTypes, RequestFields DEF RemoveContact
  <1>2. /\ <<ContactRemoved(id, "Success")>> \in Seq(Packet)
        /\ <<ContactRemoved(id, "GeneralFailure")>> \in Seq(Packet)
    <2>1. \E g \in GroupName : TRUE
      OBVIOUS
    <2> QED
      BY <1>1, <2>1, ReplyPackets
  <1>3. ASSUME OnContactRemoved(id)
        PROVE  ServerTypeOK'
    <2>1. contacts' \in ContactMap(ContactInfo)
      BY <1>1, <1>3, ListOperations DEF OnContactRemoved, TypeOK
    <2>2. RefreshProfile \in Seq(Packet)
      BY <2>1, RefreshTypes
    <2>3. <<ContactRemoved(id, "Success")>> \o RefreshProfile \in Seq(Packet)
      BY <1>2, <2>2
    <2>4. downstream' \in Seq(Packet) /\ process' \in {"running", "terminated", "outgrown"}
      BY <1>3, <2>3, ReplyTypes DEF OnContactRemoved
    <2> QED
      BY <1>3, <2>1, <2>4 DEF OnContactRemoved, ServerTypeOK, TypeOK
  <1>4. ASSUME Answer(<<ContactRemoved(id, "GeneralFailure")>>)
        PROVE  ServerTypeOK'
    BY <1>2, <1>4, AnswerTypes
  <1> QED
    BY <1>3, <1>4 DEF RemoveContact

\* MockContactManagementLink::RenameGroup keeps the types.
LEMMA RenameContactGroupTypes ==
    ASSUME TypeOK, RenameContactGroup
    PROVE  ServerTypeOK'
  <1> DEFINE current == Head(upstream).current
             new == Head(upstream).new
  <1>1. current \in GroupName /\ new \in GroupName
    BY ServeTypes, RequestFields DEF RenameContactGroup
  <1>2. ASSUME OnGroupRenamed(current, new)
        PROVE  ServerTypeOK'
    <2>1. contacts' \in ContactMap(ContactInfo)
      BY <1>1, <1>2, ListOperations, SessionAssumption DEF OnGroupRenamed, TypeOK
    <2>2. RefreshProfile \in Seq(Packet)
      BY <2>1, RefreshTypes
    <2>3. <<ContactGroupRenamed(new, current)>> \in Seq(Packet)
      BY <1>1, ReplyPackets, SessionAssumption
    <2>4. <<ContactGroupRenamed(new, current)>> \o RefreshProfile \in Seq(Packet)
      BY <2>2, <2>3
    <2>5. downstream' \in Seq(Packet) /\ process' \in {"running", "terminated", "outgrown"}
      BY <1>2, <2>4, ReplyTypes DEF OnGroupRenamed
    <2> QED
      BY <1>2, <2>1, <2>5 DEF OnGroupRenamed, ServerTypeOK, TypeOK
  <1>3. ASSUME Answer(<<>>)
        PROVE  ServerTypeOK'
    BY <1>3, SilentTypes
  <1> QED
    BY <1>2, <1>3 DEF RenameContactGroup

\* Blocking and unblocking keep the types.
LEMMA ChangeBlockedUserTypes ==
    ASSUME TypeOK, ChangeBlockedUser
    PROVE  ServerTypeOK'
  <1> DEFINE id == Head(upstream).contactId
  <1>1. id \in Ids
    BY ServeTypes, RequestFields DEF ChangeBlockedUser
  <1>2. <<ContactBlocked(id)>> \in Seq(Packet) /\ <<ContactUnblocked(id)>> \in Seq(Packet)
    BY <1>1, ReplyPackets, SessionAssumption
  <1>3. ASSUME OnBlocked(id) \/ OnUnblocked(id)
        PROVE  ServerTypeOK'
    <2>1. downstream' \in Seq(Packet) /\ process' \in {"running", "terminated", "outgrown"}
      BY <1>2, <1>3, ReplyTypes DEF OnBlocked, OnUnblocked
    <2>2. blocked' \subseteq Ids
      BY <1>1, <1>3 DEF OnBlocked, OnUnblocked, TypeOK
    <2> QED
      BY <1>3, <2>1, <2>2 DEF OnBlocked, OnUnblocked, ServerTypeOK, TypeOK
  <1> QED
    BY <1>3, ThrowTypes, SilentTypes DEF ChangeBlockedUser

\* A change of the user's status, applied to its own contacts, keeps the types.
LEMMA SetPresenceTypes ==
    ASSUME TypeOK, NEW properties \in PresenceProperties,
           NEW changed \in [OwnContacts -> ContactInfo], NEW packets \in Seq(Packet),
           SetPresence(properties, changed, packets)
    PROVE  ServerTypeOK'
  <1>1. contacts' \in ContactMap(ContactInfo)
    BY DEF SetPresence, TypeOK
  <1>2. downstream' \in Seq(Packet) /\ process' \in {"running", "terminated", "outgrown"}
    BY ReplyTypes DEF SetPresence
  <1> QED
    BY <1>1, <1>2 DEF SetPresence, ServerTypeOK, TypeOK

\* The contacts the presence loops work on, and the status packets they send.
LEMMA OwnContactsTypes ==
    ASSUME TypeOK
    PROVE  /\ OwnContacts \subseteq Ids
           /\ \A id \in OwnContacts : contacts[id] \in ContactInfo
           /\ \A changed \in [OwnContacts -> ContactInfo] :
                UpdateContactStatus(changed, OwnContacts) \in Seq(Packet)
  <1>1. OwnContacts \subseteq Ids /\ \A id \in OwnContacts : contacts[id] \in ContactInfo
    BY SessionAssumption DEF OwnContacts, IsContact, TypeOK
  <1>2. ASSUME NEW changed \in [OwnContacts -> ContactInfo]
        PROVE  UpdateContactStatus(changed, OwnContacts) \in Seq(Packet)
    <2>1. \A id \in OwnContacts : changed[id] \in ContactInfo
      OBVIOUS
    <2> QED
      BY <1>1, <2>1, StatusPacket
  <1> QED
    BY <1>1, <1>2

\* MockPresenceManagementLink::SetAvailable keeps the types.
LEMMA SetAvailableTypes ==
    ASSUME TypeOK, SetAvailable
    PROVE  ServerTypeOK'
  <1> DEFINE changed == [id \in OwnContacts |-> SetContactAvailable(contacts[id])]
  <1>1. changed \in [OwnContacts -> ContactInfo]
    <2> SUFFICES ASSUME NEW id \in OwnContacts
                 PROVE  SetContactAvailable(contacts[id]) \in ContactInfo
      OBVIOUS
    <2> QED
      BY OwnContactsTypes DEF SetContactAvailable, ContactInfo, Availability
  <1>2. PropertiesAvailable \in PresenceProperties
    BY DEF PropertiesAvailable, PresenceProperties, Availability
  <1>3. SetPresence(PropertiesAvailable, changed, UpdateContactStatus(changed, OwnContacts))
    BY DEF SetAvailable
  <1> HIDE DEF changed
  <1> QED
    BY <1>1, <1>2, <1>3, SetPresenceTypes, OwnContactsTypes

\* MockPresenceManagementLink::SetInvisible keeps the types.
LEMMA SetInvisibleTypes ==
    ASSUME TypeOK, SetInvisible
    PROVE  ServerTypeOK'
  <1> DEFINE changed == [id \in OwnContacts |-> SetContactOffline(contacts[id])]
  <1>1. changed \in [OwnContacts -> ContactInfo]
    <2> SUFFICES ASSUME NEW id \in OwnContacts
                 PROVE  SetContactOffline(contacts[id]) \in ContactInfo
      OBVIOUS
    <2> QED
      BY OwnContactsTypes DEF SetContactOffline, ContactInfo, Availability
  <1>2. PropertiesInvisible \in PresenceProperties
    BY DEF PropertiesInvisible, PresenceProperties, Availability
  <1>3. ContactOffline(OwnContacts) \in Seq(Packet)
    BY OwnContactsTypes, OfflinePackets
  <1>4. SetPresence(PropertiesInvisible, changed, ContactOffline(OwnContacts))
    BY DEF SetInvisible
  <1> HIDE DEF changed
  <1> QED
    BY <1>1, <1>2, <1>3, <1>4, SetPresenceTypes

\* SetAway::Process keeps the types, whichever of its branches is taken.
LEMMA SetAwayTypes ==
    ASSUME TypeOK, SetAway
    PROVE  ServerTypeOK'
  <1> DEFINE r == Head(upstream)
  <1>1. r.status \in Availability /\ IsBusy(r) \in BOOLEAN /\ r.message \in Message
    BY ServeTypes, RequestFields DEF SetAway
  <1>2. CASE SetInvisible
    BY <1>2, SetInvisibleTypes
  <1>3. CASE SetIdle(r.message, IsBusy(r))
    <2> DEFINE changed == [id \in OwnContacts |-> SetContactIdle(contacts[id], r.message, IsBusy(r))]
    <2>1. changed \in [OwnContacts -> ContactInfo]
      BY <1>1, OwnContactsTypes, ContactOperations
    <2>2. PropertiesIdle(r.message, IsBusy(r)) \in PresenceProperties
      BY <1>1, PropertyOperations
    <2>3. SetPresence(PropertiesIdle(r.message, IsBusy(r)), changed,
                      UpdateContactStatus(changed, OwnContacts))
      BY <1>3 DEF SetIdle
    <2> HIDE DEF changed, r
    <2> QED
      BY <2>1, <2>2, <2>3, SetPresenceTypes, OwnContactsTypes
  <1>4. CASE SetCustomStatus(r.message, IsBusy(r))
    <2> DEFINE changed == [id \in OwnContacts |->
                              SetContactStatusMessage(contacts[id], r.message, IsBusy(r))]
    <2>1. changed \in [OwnContacts -> ContactInfo]
      BY <1>1, OwnContactsTypes, ContactOperations
    <2>2. PropertiesCustom(r.message, IsBusy(r)) \in PresenceProperties
      BY <1>1, PropertyOperations
    <2>3. SetPresence(PropertiesCustom(r.message, IsBusy(r)), changed,
                      UpdateContactStatus(changed, OwnContacts))
      BY <1>4 DEF SetCustomStatus
    <2> HIDE DEF changed, r
    <2> QED
      BY <2>1, <2>2, <2>3, SetPresenceTypes, OwnContactsTypes
  <1>5. CASE SetAwayAs(r.status, IsBusy(r))
    <2> DEFINE changed == [id \in OwnContacts |-> SetContactAway(contacts[id], r.status, IsBusy(r))]
    <2>1. changed \in [OwnContacts -> ContactInfo]
      BY <1>1, OwnContactsTypes, ContactOperations
    <2>2. PropertiesAway(r.status, IsBusy(r)) \in PresenceProperties
      BY <1>1, PropertyOperations
    <2>3. SetPresence(PropertiesAway(r.status, IsBusy(r)), changed,
                      UpdateContactStatus(changed, OwnContacts))
      BY <1>5 DEF SetAwayAs
    <2> HIDE DEF changed, r
    <2> QED
      BY <2>1, <2>2, <2>3, SetPresenceTypes, OwnContactsTypes
  <1>6. CASE Throw
    BY <1>6, ThrowTypes
  <1> QED
    BY <1>2, <1>3, <1>4, <1>5, <1>6 DEF SetAway

\* The handlers that only answer.
LEMMA AnsweringTypes ==
    ASSUME TypeOK,
           \/ DenyContactAddRequest \/ RequestProfile \/ ActivateProfile \/ DeactivateProfile
           \/ PrivateMessage \/ ServiceOperation \/ MassPrivateMessage \/ ChatLogin
           \/ ChatJoin \/ UnknownService
    PROVE  ServerTypeOK'
  <1> DEFINE id == Head(upstream).contactId
  <1>1. ASSUME NEW kind \in NoticeKinds, id \in Ids, Answer(<<Notice(kind, id)>>)
        PROVE  ServerTypeOK'
    <2>1. <<Notice(kind, id)>> \in Seq(Packet)
      <3> HIDE DEF id
      <3> QED
        BY <1>1, ReplyPackets, SessionAssumption
    <2> QED
      BY <1>1, <2>1, AnswerTypes
  <1>2. ASSUME NEW kind \in {"SystemMessage", "ChatLoginResponse", "ChatroomJoined"},
               Answer(<<[type |-> kind]>>)
        PROVE  ServerTypeOK'
    <2>1. <<[type |-> kind]>> \in Seq(Packet)
      BY PlainPackets
    <2> QED
      BY <1>2, <2>1, AnswerTypes
  <1>3. CASE DenyContactAddRequest
    <2>1. id \in Ids
      BY <1>3, ServeTypes, RequestFields DEF DenyContactAddRequest
    <2> QED
      BY <1>1, <1>3, <2>1, SilentTypes DEF DenyContactAddRequest, NoticeKinds
  <1>4. CASE RequestProfile
    <2>1. <<ClientProfile(contacts, blocked)>> \in Seq(Packet)
      <3>1. ClientProfile(contacts, blocked) \in Packet
        BY ProfilePacket DEF TypeOK
      <3> QED
        BY <3>1
    <2> QED
      BY <1>4, <2>1, AnswerTypes DEF RequestProfile
  <1>5. CASE ActivateProfile
    <2>1. id \in Ids
      BY <1>5, ServeTypes, RequestFields DEF ActivateProfile
    <2> QED
      BY <1>1, <1>5, <2>1, ThrowTypes DEF ActivateProfile, NoticeKinds
  <1>6. CASE DeactivateProfile
    <2>1. id \in Ids
      BY <1>6, ServeTypes, RequestFields DEF DeactivateProfile
    <2> QED
      BY <1>1, <1>6, <2>1, ThrowTypes DEF DeactivateProfile, NoticeKinds
  <1>7. CASE PrivateMessage
    <2>1. id \in Ids
      BY <1>7, ServeTypes, RequestFields DEF PrivateMessage
    <2> QED
      BY <1>1, <1>7, <2>1 DEF PrivateMessage, NoticeKinds
  <1>8. CASE ServiceOperation
    <2>1. id \in Ids
      BY <1>8, ServeTypes, RequestFields DEF ServiceOperation
    <2> QED
      BY <1>1, <1>8, <2>1, SilentTypes DEF ServiceOperation, NoticeKinds
  <1>9. CASE MassPrivateMessage \/ ChatLogin \/ ChatJoin
    BY <1>2, <1>9 DEF MassPrivateMessage, ChatLogin, ChatJoin
  <1>10. CASE UnknownService
    BY <1>10, SilentTypes DEF UnknownService
  <1> QED
    BY <1>3, <1>4, <1>5, <1>6, <1>7, <1>8, <1>9, <1>10

\* Every handler of the session's dispatch map keeps the types.
LEMMA HandleTypes ==
    ASSUME TypeOK, Handle
    PROVE  TypeOK'
  <1>1. upstream' \in Seq(Request) /\ picture' = picture
    BY ServeTypes
       DEF Handle, AddContact, RemoveContact, RenameContactGroup, DenyContactAddRequest,
           ChangeBlockedUser, SetAvailable, SetAway, RequestProfile, ActivateProfile,
           DeactivateProfile, PrivateMessage, ServiceOperation, MassPrivateMessage, ChatLogin,
           ChatJoin, UnknownService
  <1>2. ServerTypeOK'
    BY AddContactTypes, RemoveContactTypes, RenameContactGroupTypes, ChangeBlockedUserTypes,
       SetAvailableTypes, SetAwayTypes, AnsweringTypes DEF Handle
  <1> QED
    BY <1>1, <1>2 DEF TypeOK, ServerTypeOK

\* The state after the login has the right types.
LEMMA InitTypes ==
    ASSUME Init
    PROVE  TypeOK
  <1> PICK a \in {"Available", "Offline"} :
        /\ contacts = LoadContacts(a)
        /\ presence = PropertiesAway(a, FALSE)
    BY DEF Init
  <1>1. blocked = LoadedBlocked /\ process = "running" /\ upstream = <<>>
        /\ downstream = BeginSession(contacts, blocked) /\ picture = EmptyPicture
    BY DEF Init
  <1>2. contacts \in ContactMap(ContactInfo)
    BY SessionAssumption DEF LoadContacts, ContactInfo, Availability
  <1>3. presence \in PresenceProperties
    BY DEF PropertiesAway, PresenceProperties, Availability
  <1>4. downstream \in Seq(Packet)
    <2>1. ClientProfile(contacts, blocked) \in Packet
      BY <1>1, <1>2, ProfilePacket, SessionAssumption
    <2>2. \A id \in Online(contacts) : id \in Ids /\ contacts[id] \in ContactInfo
      BY <1>2 DEF Online, Listed
    <2>3. [type |-> "ContactStatus", statuses |-> Entries(contacts, Online(contacts))] \in Packet
      BY <2>2, StatusPacket
    <2>4. [type |-> "PingConfiguration"] \in Packet
      BY PlainPackets
    <2> QED
      BY <1>1, <2>1, <2>3, <2>4 DEF BeginSession
  <1>5. picture \in [contactList : ContactMap(GroupName), blockedList : SUBSET Ids,
                     statuses : ContactMap(Status)]
    BY <1>1 DEF EmptyPicture, Nothing
  <1>6. upstream \in Seq(Request) /\ blocked \subseteq Ids
    BY <1>1, SessionAssumption
  <1> QED
    BY <1>1, <1>2, <1>3, <1>4, <1>5, <1>6 DEF TypeOK

\* So has the state after every step.
LEMMA NextTypes ==
    ASSUME TypeOK, [Next]_vars
    PROVE  TypeOK'
  <1>1. ASSUME NEW r \in Requests, Ask(r)
        PROVE  TypeOK'
    BY <1>1, RequestsAssumption DEF TypeOK, Ask
  <1>2. CASE Handle
    BY <1>2, HandleTypes
  <1>3. CASE Read
    <2>1. Head(downstream) \in Packet /\ Tail(downstream) \in Seq(Packet)
      BY <1>3 DEF TypeOK, Read
    <2>2. picture' \in [contactList : ContactMap(GroupName), blockedList : SUBSET Ids,
                        statuses : ContactMap(Status)]
      BY <1>3, <2>1, PictureOfPacket DEF Read
    <2> QED
      BY <1>3, <2>1, <2>2 DEF TypeOK, Read
  <1>4. CASE UNCHANGED vars
    BY <1>4 DEF TypeOK, vars
  <1> QED
    BY <1>1, <1>2, <1>3, <1>4 DEF Next

\* Every value ContactManager, BlockedContactManager, PresenceProperties, the
\* two directions of the connection and the messenger's picture ever hold is
\* of its type, whatever requests arrive in whatever order.
THEOREM TypeCorrect == Spec => []TypeOK
  <1>1. Init => TypeOK
    BY InitTypes
  <1>2. TypeOK /\ [Next]_vars => TypeOK'
    BY NextTypes
  <1> QED
    BY <1>1, <1>2, PTL DEF Spec

-----------------------------------------------------------------------------
(* The sixteen handlers do one of seven things to the server's state and   *)
(* the packets in flight.  The safety proofs go by these seven, sorted by  *)
(* what they change.                                                       *)

\* What becomes of the packets of a handler, a throwing one's included: those
\* before some point are sent, and all of them unless the Builder throws.
Delivered(packets) ==
    /\ \E n \in 0 .. Len(packets) : downstream' = downstream \o SubSeq(packets, 1, n)
    /\ process' # "outgrown" => downstream' = downstream \o packets /\ process # "outgrown"

\* A reply is delivered.
LEMMA ReplyDelivered ==
    ASSUME NEW packets \in Seq(Packet), Reply(packets)
    PROVE  Delivered(packets)
  <1>1. CASE Sends(packets)
    <2>1. Len(packets) \in 0 .. Len(packets) /\ SubSeq(packets, 1, Len(packets)) = packets
      OBVIOUS
    <2>2. CASE process = "outgrown"
      BY <1>1, <2>1, <2>2 DEF Sends, Delivered
    <2>3. CASE process # "outgrown"
      BY <1>1, <2>1, <2>3 DEF Sends, Delivered
    <2> QED
      BY <2>2, <2>3
  <1>2. CASE Outgrows(packets)
    <2>1. PICK n \in DOMAIN packets : downstream' = downstream \o SubSeq(packets, 1, n - 1)
      BY <1>2 DEF Outgrows
    <2>2. n - 1 \in 0 .. Len(packets)
      OBVIOUS
    <2> QED
      BY <1>2, <2>1, <2>2 DEF Outgrows, Delivered
  <1> QED
    BY <1>1, <1>2 DEF Reply

\* What of a delivery has been sent.
LEMMA DeliveredPart ==
    ASSUME NEW packets \in Seq(Packet), Delivered(packets)
    PROVE  \E sent \in Seq(Packet) :
              /\ downstream' = downstream \o sent
              /\ \A i \in 1 .. Len(sent) : i \in 1 .. Len(packets) /\ sent[i] = packets[i]
  <1>1. PICK n \in 0 .. Len(packets) : downstream' = downstream \o SubSeq(packets, 1, n)
    BY DEF Delivered
  <1> DEFINE sent == SubSeq(packets, 1, n)
  <1>2. /\ sent \in Seq(Packet)
        /\ \A i \in 1 .. Len(sent) : i \in 1 .. Len(packets) /\ sent[i] = packets[i]
    BY PacketsBefore
  <1>3. downstream' = downstream \o sent
    BY <1>1
  <1> HIDE DEF sent
  <1> QED
    BY <1>2, <1>3

\* Packets that are about none of the replicas.
Quiet(p) ==
    \/ p.type \in {"AddContactRequestResult", "Notice", "SystemMessage", "ChatLoginResponse",
                   "ChatroomJoined"}
    \/ p.type = "ContactRemoved" /\ p.status = "GeneralFailure"

QuietStep ==
    \E packets \in Seq(Packet) :
        /\ \A i \in 1 .. Len(packets) : Quiet(packets[i])
        /\ Delivered(packets)
        /\ UNCHANGED <<contacts, blocked, presence>>

PresenceStepTo(properties, changed, packets) ==
    /\ \A id \in OwnContacts :
          /\ changed[id].group = contacts[id].group
          /\ changed[id].availability = IF properties.availability = "Invisible"
                                        THEN "Offline" ELSE properties.availability
          /\ changed[id].availability = "Custom" =>
                changed[id].customMessage = properties.message
          /\ changed[id].availability \notin {"Available", "Offline"} =>
                changed[id].isBusy = properties.busy
    /\ IF properties.availability = "Invisible"
       THEN packets = ContactOffline(OwnContacts)
       ELSE packets = UpdateContactStatus(changed, OwnContacts)
    /\ SetPresence(properties, changed, packets)

PresenceStep ==
    \E properties \in PresenceProperties, changed \in [OwnContacts -> ContactInfo],
       packets \in Seq(Packet) : PresenceStepTo(properties, changed, packets)

HandlerStep ==
    \/ QuietStep
    \/ Answer(<<ClientProfile(contacts, blocked)>>)
    \/ \E id \in Ids, group \in GroupName :
          ~IsContact(id) /\ ~IsBlocked(id) /\ OnAddRequestPending(id, group)
    \/ \E id \in Ids : OnContactRemoved(id)
    \/ \E current \in GroupName, new \in GroupName : OnGroupRenamed(current, new)
    \/ \E id \in Ids : OnBlocked(id) \/ OnUnblocked(id)
    \/ PresenceStep

\* One quiet packet, or none at all.
LEMMA QuietAnswer ==
    ASSUME NEW p \in Packet, Quiet(p), Answer(<<p>>)
    PROVE  QuietStep
  <1> DEFINE packets == <<p>>
  <1>1. packets \in Seq(Packet) /\ \A i \in 1 .. Len(packets) : packets[i] = p
    OBVIOUS
  <1>2. Delivered(packets) /\ UNCHANGED <<contacts, blocked, presence>>
    BY <1>1, ReplyDelivered DEF Answer
  <1> HIDE DEF packets
  <1>3. \A i \in 1 .. Len(packets) : Quiet(packets[i])
    BY <1>1
  <1> QED
    BY <1>1, <1>2, <1>3 DEF QuietStep

\* A handler that sends nothing and changes no manager is quiet.
LEMMA QuietNothing ==
    ASSUME TypeOK, NEW op, Serve(op), Answer(<<>>) \/ Throw
    PROVE  QuietStep
  <1> DEFINE packets == <<>>
  <1>1. packets \in Seq(Packet) /\ \A i \in 1 .. Len(packets) : Quiet(packets[i])
    OBVIOUS
  <1>2. Delivered(packets) /\ UNCHANGED <<contacts, blocked, presence>>
    <2>1. CASE Answer(<<>>)
      BY <1>1, <2>1, ReplyDelivered DEF Answer
    <2>2. CASE Throw
      <3>1. /\ downstream' = downstream \o SubSeq(packets, 1, 0) /\ 0 \in 0 .. Len(packets)
            /\ downstream' = downstream \o packets
        BY <2>2 DEF Throw, TypeOK
      <3> QED
        BY <2>2, <3>1 DEF Throw, Serve, Delivered
    <2> QED
      BY <2>1, <2>2
  <1> HIDE DEF packets
  <1> QED
    BY <1>1, <1>2 DEF QuietStep

\* AddContact is one of the steps of HandlerStep.
LEMMA AddContactStep ==
    ASSUME TypeOK, AddContact
    PROVE  HandlerStep
  <1> DEFINE id == Head(upstream).contactId
             group == Head(upstream).group
  <1>1. id \in Ids /\ group \in GroupName
    BY ServeTypes, RequestFields DEF AddContact
  <1>2. ASSUME NEW status \in {"GeneralFailure", "DuplicateContact", "ContactDoesNotExist",
                               "GroupAlreadyExists"},
               Refuse(id, group, status)
        PROVE  QuietStep
    <2>1. /\ AddContactRequestResult(id, group, status) \in Packet
          /\ Quiet(AddContactRequestResult(id, group, status))
      BY <1>1, ReplyPackets DEF Quiet, AddContactRequestResult
    <2> QED
      BY <1>2, <2>1, QuietAnswer DEF Refuse
  <1> HIDE DEF id, group
  <1>3. \/ QuietStep
        \/ ~IsContact(id) /\ ~IsBlocked(id) /\ OnAddRequestPending(id, group)
    BY <1>2 DEF AddContact, id, group
  <1> QED
    BY <1>1, <1>3 DEF HandlerStep

\* So is RemoveContact.
LEMMA RemoveContactStep ==
    ASSUME TypeOK, RemoveContact
    PROVE  HandlerStep
  <1> DEFINE id == Head(upstream).contactId
  <1>1. id \in Ids
    BY ServeTypes, RequestFields DEF RemoveContact
  <1>2. ASSUME Answer(<<ContactRemoved(id, "GeneralFailure")>>)
        PROVE  QuietStep
    <2>1. ContactRemoved(id, "GeneralFailure") \in Packet
      BY <1>1, ReplyPackets, SessionAssumption
    <2>2. Quiet(ContactRemoved(id, "GeneralFailure"))
      BY DEF Quiet, ContactRemoved
    <2> QED
      BY <1>2, <2>1, <2>2, QuietAnswer
  <1> QED
    BY <1>1, <1>2 DEF RemoveContact, HandlerStep

\* So is the renaming of a group.
LEMMA RenameContactGroupStep ==
    ASSUME TypeOK, RenameContactGroup
    PROVE  HandlerStep
  <1>1. Head(upstream).current \in GroupName /\ Head(upstream).new \in GroupName
    BY ServeTypes, RequestFields DEF RenameContactGroup
  <1>2. ASSUME Answer(<<>>)
        PROVE  QuietStep
    BY <1>2, QuietNothing DEF RenameContactGroup
  <1> QED
    BY <1>1, <1>2 DEF RenameContactGroup, HandlerStep

\* So are blocking and unblocking.
LEMMA ChangeBlockedUserStep ==
    ASSUME TypeOK, ChangeBlockedUser
    PROVE  HandlerStep
  <1>1. Head(upstream).contactId \in Ids
    BY ServeTypes, RequestFields DEF ChangeBlockedUser
  <1>2. ASSUME Answer(<<>>) \/ Throw
        PROVE  QuietStep
    BY <1>2, QuietNothing DEF ChangeBlockedUser
  <1> QED
    BY <1>1, <1>2 DEF ChangeBlockedUser, HandlerStep

\* SetAvailable is a change of the user's status.
LEMMA SetAvailableStep ==
    ASSUME TypeOK, SetAvailable
    PROVE  PresenceStep
  <1> DEFINE changed == [id \in OwnContacts |-> SetContactAvailable(contacts[id])]
             properties == PropertiesAvailable
             packets == UpdateContactStatus(changed, OwnContacts)
  <1>1. changed \in [OwnContacts -> ContactInfo]
    <2> SUFFICES ASSUME NEW id \in OwnContacts
                 PROVE  SetContactAvailable(contacts[id]) \in ContactInfo
      OBVIOUS
    <2> QED
      BY OwnContactsTypes DEF SetContactAvailable, ContactInfo, Availability
  <1>2. properties \in PresenceProperties /\ properties.availability = "Available"
    BY DEF PropertiesAvailable, PresenceProperties, Availability
  <1>3. packets \in Seq(Packet)
    BY <1>1, OwnContactsTypes
  <1>4. \A id \in OwnContacts :
          changed[id].group = contacts[id].group /\ changed[id].availability = "Available"
    BY OwnContactsTypes DEF SetContactAvailable, ContactInfo
  <1>5. SetPresence(properties, changed, packets)
    BY DEF SetAvailable
  <1> HIDE DEF changed, properties
  <1> QED
    BY <1>1, <1>2, <1>3, <1>4, <1>5 DEF PresenceStep, PresenceStepTo

\* So is SetInvisible.
LEMMA SetInvisibleStep ==
    ASSUME TypeOK, SetInvisible
    PROVE  PresenceStep
  <1> DEFINE changed == [id \in OwnContacts |-> SetContactOffline(contacts[id])]
             properties == PropertiesInvisible
             packets == ContactOffline(OwnContacts)
  <1>1. changed \in [OwnContacts -> ContactInfo]
    <2> SUFFICES ASSUME NEW id \in OwnContacts
                 PROVE  SetContactOffline(contacts[id]) \in ContactInfo
      OBVIOUS
    <2> QED
      BY OwnContactsTypes DEF SetContactOffline, ContactInfo, Availability
  <1>2. properties \in PresenceProperties /\ properties.availability = "Invisible"
    BY DEF PropertiesInvisible, PresenceProperties, Availability
  <1>3. packets \in Seq(Packet)
    BY OwnContactsTypes, OfflinePackets
  <1>4. \A id \in OwnContacts :
          changed[id].group = contacts[id].group /\ changed[id].availability = "Offline"
    BY OwnContactsTypes DEF SetContactOffline, ContactInfo
  <1>5. SetPresence(properties, changed, packets)
    BY DEF SetInvisible
  <1> HIDE DEF changed, properties, packets
  <1>6. packets = ContactOffline(OwnContacts)
    BY DEF packets
  <1> QED
    BY <1>1, <1>2, <1>3, <1>4, <1>5, <1>6 DEF PresenceStep, PresenceStepTo

\* So is SetAway, in each of its branches but the one that throws.
LEMMA SetAwayStep ==
    ASSUME TypeOK, SetAway
    PROVE  PresenceStep \/ QuietStep
  <1> DEFINE r == Head(upstream)
  <1>1. r.status \in Availability /\ IsBusy(r) \in BOOLEAN /\ r.message \in Message
    BY ServeTypes, RequestFields DEF SetAway
  <1>2. CASE r.status = "Invisible"
    BY <1>2, SetInvisibleStep DEF SetAway
  <1>3. CASE r.busy # "other" /\ r.status = "Idle"
    <2> DEFINE changed == [id \in OwnContacts |-> SetContactIdle(contacts[id], r.message, IsBusy(r))]
               properties == PropertiesIdle(r.message, IsBusy(r))
               packets == UpdateContactStatus(changed, OwnContacts)
    <2>1. changed \in [OwnContacts -> ContactInfo]
      BY <1>1, OwnContactsTypes, ContactOperations
    <2>2. /\ properties \in PresenceProperties
          /\ properties.availability = "Idle" /\ properties.busy = IsBusy(r)
      BY <1>1, PropertyOperations DEF PropertiesIdle
    <2>3. packets \in Seq(Packet)
      BY <2>1, OwnContactsTypes
    <2>4. \A id \in OwnContacts :
            /\ changed[id].group = contacts[id].group
            /\ changed[id].availability = "Idle" /\ changed[id].isBusy = IsBusy(r)
      BY OwnContactsTypes DEF SetContactIdle, ContactInfo
    <2>5. SetPresence(properties, changed, packets)
      BY <1>3 DEF SetAway, SetIdle
    <2> HIDE DEF changed, properties, r
    <2> QED
      BY <2>1, <2>2, <2>3, <2>4, <2>5 DEF PresenceStep, PresenceStepTo
  <1>4. CASE r.busy # "other" /\ r.status = "Custom"
    <2> DEFINE changed == [id \in OwnContacts |->
                              SetContactStatusMessage(contacts[id], r.message, IsBusy(r))]
               properties == PropertiesCustom(r.message, IsBusy(r))
               packets == UpdateContactStatus(changed, OwnContacts)
    <2>1. changed \in [OwnContacts -> ContactInfo]
      BY <1>1, OwnContactsTypes, ContactOperations
    <2>2. /\ properties \in PresenceProperties
          /\ properties.availability = "Custom"
          /\ properties.busy = IsBusy(r) /\ properties.message = r.message
      BY <1>1, PropertyOperations DEF PropertiesCustom
    <2>3. packets \in Seq(Packet)
      BY <2>1, OwnContactsTypes
    <2>4. \A id \in OwnContacts :
            /\ changed[id].group = contacts[id].group
            /\ changed[id].availability = "Custom"
            /\ changed[id].isBusy = IsBusy(r) /\ changed[id].customMessage = r.message
      BY OwnContactsTypes DEF SetContactStatusMessage, ContactInfo
    <2>5. SetPresence(properties, changed, packets)
      BY <1>4 DEF SetAway, SetCustomStatus
    <2> HIDE DEF changed, properties, r
    <2> QED
      BY <2>1, <2>2, <2>3, <2>4, <2>5 DEF PresenceStep, PresenceStepTo
  <1>5. CASE r.busy # "other" /\ r.status \notin {"Invisible", "Idle", "Custom"}
    <2> DEFINE changed == [id \in OwnContacts |-> SetContactAway(contacts[id], r.status, IsBusy(r))]
               properties == PropertiesAway(r.status, IsBusy(r))
               packets == UpdateContactStatus(changed, OwnContacts)
    <2>1. changed \in [OwnContacts -> ContactInfo]
      BY <1>1, OwnContactsTypes, ContactOperations
    <2>2. /\ properties \in PresenceProperties
          /\ properties.availability = r.status /\ properties.busy = IsBusy(r)
      BY <1>1, PropertyOperations DEF PropertiesAway
    <2>3. packets \in Seq(Packet)
      BY <2>1, OwnContactsTypes
    <2>4. \A id \in OwnContacts :
            /\ changed[id].group = contacts[id].group
            /\ changed[id].availability = r.status /\ changed[id].isBusy = IsBusy(r)
      BY OwnContactsTypes DEF SetContactAway, ContactInfo
    <2>5. SetPresence(properties, changed, packets)
      BY <1>5 DEF SetAway, SetAwayAs
    <2> HIDE DEF changed, properties, r
    <2> QED
      BY <1>5, <2>1, <2>2, <2>3, <2>4, <2>5 DEF PresenceStep, PresenceStepTo
  <1>6. CASE r.status # "Invisible" /\ r.busy = "other"
    <2>1. Throw /\ Serve("SetAway")
      BY <1>6 DEF SetAway
    <2> QED
      BY <2>1, QuietNothing
  <1> HIDE DEF r
  <1> QED
    BY <1>2, <1>3, <1>4, <1>5, <1>6

\* The handlers that keep no state are quiet.
LEMMA AnsweringStep ==
    ASSUME TypeOK,
           \/ DenyContactAddRequest \/ ActivateProfile \/ DeactivateProfile
           \/ PrivateMessage \/ ServiceOperation \/ MassPrivateMessage \/ ChatLogin
           \/ ChatJoin \/ UnknownService
    PROVE  QuietStep
  <1> DEFINE id == Head(upstream).contactId
  <1>1. ASSUME NEW kind \in NoticeKinds, id \in Ids, Answer(<<Notice(kind, id)>>)
        PROVE  QuietStep
    <2>1. Notice(kind, id) \in Packet
      <3> HIDE DEF id
      <3> QED
        BY <1>1, ReplyPackets, SessionAssumption
    <2>2. Quiet(Notice(kind, id))
      BY DEF Quiet, Notice
    <2> QED
      BY <1>1, <2>1, <2>2, QuietAnswer
  <1>2. ASSUME NEW kind \in {"SystemMessage", "ChatLoginResponse", "ChatroomJoined"},
               Answer(<<[type |-> kind]>>)
        PROVE  QuietStep
    <2>1. [type |-> kind] \in Packet /\ Quiet([type |-> kind])
      BY PlainPackets DEF Quiet
    <2> QED
      BY <1>2, <2>1, QuietAnswer
  <1>3. ASSUME Answer(<<>>) \/ Throw
        PROVE  QuietStep
    BY <1>3, QuietNothing
       DEF DenyContactAddRequest, ActivateProfile, DeactivateProfile, PrivateMessage,
           ServiceOperation, MassPrivateMessage, ChatLogin, ChatJoin, UnknownService
  <1>4. DenyContactAddRequest \/ ActivateProfile \/ DeactivateProfile \/ PrivateMessage
        \/ ServiceOperation => id \in Ids
    BY ServeTypes, RequestFields
       DEF DenyContactAddRequest, ActivateProfile, DeactivateProfile, PrivateMessage,
           ServiceOperation
  <1>5. CASE DenyContactAddRequest
    BY <1>1, <1>3, <1>4, <1>5 DEF DenyContactAddRequest, NoticeKinds
  <1>6. CASE ActivateProfile \/ DeactivateProfile
    BY <1>1, <1>3, <1>4, <1>6 DEF ActivateProfile, DeactivateProfile, NoticeKinds
  <1>7. CASE PrivateMessage \/ ServiceOperation
    BY <1>1, <1>3, <1>4, <1>7 DEF PrivateMessage, ServiceOperation, NoticeKinds
  <1>8. CASE MassPrivateMessage \/ ChatLogin \/ ChatJoin
    BY <1>2, <1>8 DEF MassPrivateMessage, ChatLogin, ChatJoin
  <1>9. CASE UnknownService
    BY <1>3, <1>9 DEF UnknownService
  <1> QED
    BY <1>5, <1>6, <1>7, <1>8, <1>9

\* Every handler is one of the seven kinds of HandlerStep.
LEMMA HandlerSteps ==
    ASSUME TypeOK, Handle
    PROVE  HandlerStep
  <1>1. CASE RequestProfile
    BY <1>1 DEF RequestProfile, HandlerStep
  <1>2. ASSUME PresenceStep \/ QuietStep
        PROVE  HandlerStep
    BY <1>2 DEF HandlerStep
  <1> QED
    BY <1>1, <1>2, AddContactStep, RemoveContactStep, RenameContactGroupStep,
       ChangeBlockedUserStep, SetAvailableStep, SetAwayStep, AnsweringStep DEF Handle

\* No handler touches the messenger's picture, and none runs after the process ended.
LEMMA HandlePicture ==
    ASSUME TypeOK, Handle
    PROVE  picture' = picture /\ process = "running"
  BY ServeTypes
     DEF Handle, AddContact, RemoveContact, RenameContactGroup, DenyContactAddRequest,
         ChangeBlockedUser, SetAvailable, SetAway, RequestProfile, ActivateProfile,
         DeactivateProfile, PrivateMessage, ServiceOperation, MassPrivateMessage, ChatLogin,
         ChatJoin, UnknownService, Serve

\* The replies of the three changes of the list, packet by packet.
LEMMA AddReply ==
    ASSUME TypeOK, TypeOK', NEW id \in Ids, NEW group \in GroupName, OnAddRequestPending(id, group)
    PROVE  \E packets \in Seq(Packet) :
              /\ Delivered(packets)
              /\ Len(packets) \in {2, 3}
              /\ packets[1] = AddContactRequestResult(id, group, "AddPending")
              /\ packets[2] = ClientProfile(contacts', blocked)
              /\ Len(packets) = 3 => packets[3] = Notice("AddContactRequest", id)
  <1> DEFINE A == AddContactRequestResult(id, group, "AddPending")
             P == ClientProfile(contacts', blocked)
             N == Notice("AddContactRequest", id)
  <1>1. A \in Packet /\ P \in Packet /\ N \in Packet
    BY ReplyPackets, ProfilePacket DEF TypeOK, NoticeKinds
  <1>2. Reply(<<A>> \o <<P>> \o IF IsClientOrProfileId(id) THEN <<N>> ELSE <<>>)
    BY DEF OnAddRequestPending, RefreshProfile
  <1> HIDE DEF A, P, N
  <1>3. CASE IsClientOrProfileId(id)
    <2> DEFINE packets == <<A>> \o <<P>> \o <<N>>
    <2>1. packets \in Seq(Packet) /\ Len(packets) = 3
          /\ packets[1] = A /\ packets[2] = P /\ packets[3] = N
      BY <1>1
    <2>2. Delivered(packets)
      BY <1>2, <1>3, <2>1, ReplyDelivered
    <2> HIDE DEF packets
    <2> QED
      BY <2>1, <2>2 DEF A, P, N
  <1>4. CASE ~IsClientOrProfileId(id)
    <2> DEFINE packets == <<A>> \o <<P>> \o <<>>
    <2>1. packets \in Seq(Packet) /\ Len(packets) = 2 /\ packets[1] = A /\ packets[2] = P
      BY <1>1
    <2>2. Delivered(packets)
      BY <1>2, <1>4, <2>1, ReplyDelivered
    <2> HIDE DEF packets
    <2> QED
      BY <2>1, <2>2 DEF A, P
  <1> QED
    BY <1>3, <1>4

\* A removed contact is told of first and left out of the profile behind it.
LEMMA RemoveReply ==
    ASSUME TypeOK, TypeOK', NEW id \in Ids, OnContactRemoved(id)
    PROVE  \E packets \in Seq(Packet) :
              /\ Delivered(packets)
              /\ Len(packets) = 2
              /\ packets[1] = ContactRemoved(id, "Success")
              /\ packets[2] = ClientProfile(contacts', blocked)
  <1> DEFINE R == ContactRemoved(id, "Success")
             P == ClientProfile(contacts', blocked)
  <1>1. R \in Packet /\ P \in Packet
    BY ReplyPackets, ProfilePacket, SessionAssumption DEF TypeOK
  <1>2. Reply(<<R>> \o <<P>>)
    BY DEF OnContactRemoved, RefreshProfile
  <1> HIDE DEF R, P
  <1> DEFINE packets == <<R>> \o <<P>>
  <1>3. packets \in Seq(Packet) /\ Len(packets) = 2 /\ packets[1] = R /\ packets[2] = P
    BY <1>1
  <1>4. Delivered(packets)
    BY <1>2, <1>3, ReplyDelivered
  <1> HIDE DEF packets
  <1> QED
    BY <1>3, <1>4 DEF R, P

\* A renamed group: the names swapped, and the profile behind it.
LEMMA RenameReply ==
    ASSUME TypeOK, TypeOK', NEW current \in GroupName, NEW new \in GroupName,
           OnGroupRenamed(current, new)
    PROVE  \E packets \in Seq(Packet) :
              /\ Delivered(packets)
              /\ Len(packets) = 2
              /\ packets[1] = ContactGroupRenamed(new, current)
              /\ packets[2] = ClientProfile(contacts', blocked)
  <1> DEFINE R == ContactGroupRenamed(new, current)
             P == ClientProfile(contacts', blocked)
  <1>1. R \in Packet /\ P \in Packet
    BY ReplyPackets, ProfilePacket, SessionAssumption DEF TypeOK
  <1>2. Reply(<<R>> \o <<P>>)
    BY DEF OnGroupRenamed, RefreshProfile
  <1> HIDE DEF R, P
  <1> DEFINE packets == <<R>> \o <<P>>
  <1>3. packets \in Seq(Packet) /\ Len(packets) = 2 /\ packets[1] = R /\ packets[2] = P
    BY <1>1
  <1>4. Delivered(packets)
    BY <1>2, <1>3, ReplyDelivered
  <1> HIDE DEF packets
  <1> QED
    BY <1>3, <1>4 DEF R, P

\* A reply of one packet.
LEMMA OneReply ==
    ASSUME NEW p \in Packet, Reply(<<p>>)
    PROVE  \E packets \in Seq(Packet) : Delivered(packets) /\ Len(packets) = 1 /\ packets[1] = p
  <1> DEFINE packets == <<p>>
  <1>1. packets \in Seq(Packet) /\ Len(packets) = 1 /\ packets[1] = p
    OBVIOUS
  <1> HIDE DEF packets
  <1>2. Delivered(packets)
    BY <1>1, ReplyDelivered DEF packets
  <1> QED
    BY <1>1, <1>2

\* What the loops of a change of presence send: nothing, or one packet about
\* the user's own contacts.
PresencePackets(properties, changed, packets) ==
    \/ Len(packets) = 0 /\ OwnContacts = {}
    \/ /\ Len(packets) = 1 /\ properties.availability = "Invisible"
       /\ packets[1] = [type |-> "ContactOffline", ids |-> OwnContacts]
    \/ /\ Len(packets) = 1 /\ properties.availability # "Invisible"
       /\ packets[1] = [type |-> "ContactStatus", statuses |-> Entries(changed, OwnContacts)]

\* The packets of a change of the user's status.
LEMMA PresenceReply ==
    ASSUME TypeOK, NEW properties \in PresenceProperties,
           NEW changed \in [OwnContacts -> ContactInfo], NEW packets \in Seq(Packet),
           PresenceStepTo(properties, changed, packets)
    PROVE  Delivered(packets) /\ PresencePackets(properties, changed, packets)
  <1>1. CASE properties.availability = "Invisible"
    BY <1>1, ReplyDelivered DEF PresenceStepTo, SetPresence, ContactOffline, PresencePackets
  <1>2. CASE properties.availability # "Invisible"
    BY <1>2, ReplyDelivered DEF PresenceStepTo, SetPresence, UpdateContactStatus, PresencePackets
  <1> QED
    BY <1>1, <1>2

-----------------------------------------------------------------------------
(* The queue argument.                                                     *)

\* Either no packet of queue is about the replica and it is right, or the
\* last packet that is about it tells the truth.
Caught(queue, about, truth, right) ==
    \/ (\A i \in 1 .. Len(queue) : queue[i] \notin about) /\ right
    \/ \E i \in 1 .. Len(queue) :
          queue[i] \in truth /\ \A j \in i + 1 .. Len(queue) : queue[j] \notin about

\* Reading a packet.
LEMMA CaughtTail ==
    ASSUME NEW S, NEW queue \in Seq(S), NEW about, NEW truth \in SUBSET about,
           NEW right \in BOOLEAN, NEW next \in BOOLEAN,
           Caught(queue, about, truth, right), queue # <<>>,
           Head(queue) \in truth => next,
           Head(queue) \notin about /\ right => next
    PROVE  Caught(Tail(queue), about, truth, next)
  <1>1. /\ Len(queue) \in Nat \ {0} /\ Len(Tail(queue)) = Len(queue) - 1
        /\ \A i \in 1 .. Len(queue) - 1 : Tail(queue)[i] = queue[i + 1]
        /\ Head(queue) = queue[1]
    OBVIOUS
  <1>2. CASE (\A i \in 1 .. Len(queue) : queue[i] \notin about) /\ right
    <2>1. next
      <3>1. Head(queue) \notin about
        BY <1>1, <1>2
      <3> QED
        BY <1>2, <3>1, Zenon
    <2>2. \A i \in 1 .. Len(Tail(queue)) : Tail(queue)[i] \notin about
      BY <1>1, <1>2
    <2> QED
      BY <2>1, <2>2 DEF Caught
  <1>3. ASSUME NEW i \in 1 .. Len(queue), queue[i] \in truth,
               \A j \in i + 1 .. Len(queue) : queue[j] \notin about
        PROVE  Caught(Tail(queue), about, truth, next)
    <2>1. CASE i = 1
      <3>1. \A j \in 1 .. Len(Tail(queue)) : Tail(queue)[j] \notin about
        BY <1>1, <1>3, <2>1
      <3>2. next
        BY <1>1, <1>3, <2>1
      <3> QED
        BY <3>1, <3>2 DEF Caught
    <2>2. CASE i # 1
      <3>1. i - 1 \in 1 .. Len(Tail(queue)) /\ Tail(queue)[i - 1] \in truth
        BY <1>1, <1>3, <2>2
      <3>2. \A j \in (i - 1) + 1 .. Len(Tail(queue)) : Tail(queue)[j] \notin about
        BY <1>1, <1>3, <2>2
      <3> QED
        BY <3>1, <3>2 DEF Caught
    <2> QED
      BY <2>1, <2>2
  <1> QED
    BY <1>2, <1>3 DEF Caught

\* The elements of a concatenation.
LEMMA Concatenation ==
    ASSUME NEW S, NEW queue \in Seq(S), NEW packets \in Seq(S)
    PROVE  /\ queue \o packets \in Seq(S)
           /\ Len(queue \o packets) = Len(queue) + Len(packets)
           /\ Len(queue) \in Nat /\ Len(packets) \in Nat
           /\ \A i \in 1 .. Len(queue) : (queue \o packets)[i] = queue[i]
           /\ \A i \in 1 .. Len(packets) : (queue \o packets)[Len(queue) + i] = packets[i]
           /\ \A i \in Len(queue) + 1 .. Len(queue) + Len(packets) :
                (queue \o packets)[i] = packets[i - Len(queue)]
  OBVIOUS

\* Sending packets that are not about the replica.
LEMMA CaughtQuiet ==
    ASSUME NEW S, NEW queue \in Seq(S), NEW packets \in Seq(S), NEW about, NEW truth,
           NEW right \in BOOLEAN,
           Caught(queue, about, truth, right),
           \A i \in 1 .. Len(packets) : packets[i] \notin about
    PROVE  Caught(queue \o packets, about, truth, right)
  <1> DEFINE all == queue \o packets
  <1>1. \A i \in 1 .. Len(all) : i \in Len(queue) + 1 .. Len(all) => all[i] \notin about
    <2> TAKE i \in 1 .. Len(all)
    <2> HAVE i \in Len(queue) + 1 .. Len(all)
    <2>1. i - Len(queue) \in 1 .. Len(packets) /\ all[i] = packets[i - Len(queue)]
      BY Concatenation
    <2> QED
      BY <2>1
  <1>2. CASE (\A i \in 1 .. Len(queue) : queue[i] \notin about) /\ right
    <2>1. \A i \in 1 .. Len(all) : all[i] \notin about
      BY <1>1, <1>2, Concatenation
    <2> QED
      BY <1>2, <2>1 DEF Caught
  <1>3. ASSUME NEW i \in 1 .. Len(queue), queue[i] \in truth,
               \A j \in i + 1 .. Len(queue) : queue[j] \notin about
        PROVE  Caught(all, about, truth, right)
    <2>1. i \in 1 .. Len(all) /\ all[i] \in truth
      BY <1>3, Concatenation
    <2>2. \A j \in i + 1 .. Len(all) : all[j] \notin about
      BY <1>1, <1>3, Concatenation
    <2> QED
      BY <2>1, <2>2 DEF Caught
  <1> QED
    BY <1>2, <1>3 DEF Caught

\* Sending packets whose last word on the replica is true.
LEMMA CaughtTruth ==
    ASSUME NEW S, NEW queue \in Seq(S), NEW packets \in Seq(S), NEW about, NEW truth, NEW right,
           NEW k \in 1 .. Len(packets), packets[k] \in truth,
           \A i \in k + 1 .. Len(packets) : packets[i] \notin about
    PROVE  Caught(queue \o packets, about, truth, right)
  <1> DEFINE all == queue \o packets
             m == Len(queue) + k
  <1>1. m \in 1 .. Len(all) /\ all[m] \in truth
    BY Concatenation
  <1>2. \A j \in m + 1 .. Len(all) : all[j] \notin about
    <2> TAKE j \in m + 1 .. Len(all)
    <2>1. j - Len(queue) \in k + 1 .. Len(packets) /\ all[j] = packets[j - Len(queue)]
      BY Concatenation
    <2> QED
      BY <2>1
  <1> QED
    BY <1>1, <1>2 DEF Caught

-----------------------------------------------------------------------------
(* The contact list.                                                       *)

AboutList == {p \in Packet : ChangesList(p)}
TrueList == {p \in Packet : p.type = "ClientProfile" /\ p.contactList = GroupOf(contacts)}
ListRight == picture.contactList = GroupOf(contacts)

ListCaught == process # "outgrown" => Caught(downstream, AboutList, TrueList, ListRight)

\* ContactListReplicated is an instance of Caught.
LEMMA ContactListCaught ==
    ASSUME TypeOK
    PROVE  ContactListReplicated <=> ListCaught
  <1>1. \A i \in 1 .. Len(downstream) : downstream[i] \in Packet
    BY DEF TypeOK
  <1>2. DOMAIN downstream = 1 .. Len(downstream) /\ Len(downstream) \in Nat
    BY DEF TypeOK
  <1>3. \A i \in 1 .. Len(downstream) : downstream[i] \in AboutList <=> ChangesList(downstream[i])
    BY <1>1 DEF AboutList
  <1>4. \A i \in 1 .. Len(downstream) : \A j \in i + 1 .. Len(downstream) :
          downstream[j] \in AboutList <=> ChangesList(downstream[j])
    BY <1>2, <1>3
  <1>5. \A i \in 1 .. Len(downstream) :
          downstream[i] \in TrueList <=>
            (downstream[i].type = "ClientProfile" /\ downstream[i].contactList = GroupOf(contacts))
    BY <1>1 DEF TrueList
  <1> QED
    BY <1>2, <1>3, <1>4, <1>5 DEF ContactListReplicated, ListCaught, Caught, ListRight

\* Reading a packet keeps the contact list replicated.
LEMMA ContactListRead ==
    ASSUME TypeOK, ContactListReplicated, Read, TypeOK'
    PROVE  ContactListReplicated'
  <1> DEFINE p == Head(downstream)
  <1>1. /\ downstream \in Seq(Packet) /\ downstream # <<>> /\ p \in Packet
        /\ downstream' = Tail(downstream) /\ contacts' = contacts /\ process' = process
        /\ picture'.contactList = Learn(p).contactList
    BY DEF TypeOK, Read
  <1>2. TrueList' = TrueList /\ TrueList \in SUBSET AboutList
    BY <1>1 DEF TrueList, AboutList, ChangesList
  <1>3. p \in TrueList => ListRight'
    BY <1>1 DEF TrueList, ListRight, Learn
  <1>4. p \notin AboutList => picture'.contactList = picture.contactList
    BY <1>1 DEF AboutList, ChangesList, Learn
  <1>5. p \notin AboutList /\ ListRight => ListRight'
    BY <1>1, <1>4 DEF ListRight
  <1>6. process # "outgrown" => Caught(downstream, AboutList, TrueList, ListRight)
    BY ContactListCaught DEF ListCaught
  <1>7. ListRight \in BOOLEAN /\ ListRight' \in BOOLEAN
    BY DEF ListRight
  <1> HIDE DEF p
  <1>8. process # "outgrown" => Caught(Tail(downstream), AboutList, TrueList, ListRight')
    BY <1>1, <1>2, <1>3, <1>5, <1>6, <1>7, CaughtTail DEF p
  <1>9. ListCaught'
    BY <1>1, <1>2, <1>8 DEF ListCaught
  <1> QED
    BY <1>9, ContactListCaught, PTL

\* Packets that do not touch the list, and groups that stay as they are.
LEMMA ContactListQuiet ==
    ASSUME TypeOK, ContactListReplicated, TypeOK',
           NEW packets \in Seq(Packet), Delivered(packets),
           \A i \in 1 .. Len(packets) : ~ChangesList(packets[i]),
           GroupOf(contacts') = GroupOf(contacts), picture' = picture
    PROVE  ContactListReplicated'
  <1>1. TrueList' = TrueList /\ ListRight' = ListRight /\ ListRight \in BOOLEAN
    BY DEF TrueList, ListRight
  <1>2. \A i \in 1 .. Len(packets) : packets[i] \notin AboutList
    BY DEF AboutList
  <1>3. downstream \in Seq(Packet)
    BY DEF TypeOK
  <1>4. ListCaught'
    <2> SUFFICES ASSUME process' # "outgrown"
                 PROVE  Caught(downstream, AboutList, TrueList, ListRight)'
      BY DEF ListCaught
    <2>1. downstream' = downstream \o packets /\ process # "outgrown"
      BY DEF Delivered
    <2>2. Caught(downstream, AboutList, TrueList, ListRight)
      BY <2>1, ContactListCaught DEF ListCaught
    <2>3. Caught(downstream \o packets, AboutList, TrueList, ListRight)
      BY <1>1, <1>2, <1>3, <2>2, CaughtQuiet
    <2> QED
      BY <1>1, <2>1, <2>3
  <1> QED
    BY <1>4, ContactListCaught, PTL

\* Packets that end with a profile of what the server holds now.
LEMMA ContactListTruth ==
    ASSUME TypeOK, TypeOK', NEW packets \in Seq(Packet), Delivered(packets),
           NEW k \in 1 .. Len(packets), packets[k] = ClientProfile(contacts', blocked),
           \A i \in k + 1 .. Len(packets) : ~ChangesList(packets[i])
    PROVE  ContactListReplicated'
  <1>1. packets[k] \in TrueList'
    <2>1. packets[k] \in Packet
      OBVIOUS
    <2> QED
      BY <2>1 DEF TrueList, ClientProfile
  <1>2. \A i \in k + 1 .. Len(packets) : packets[i] \notin AboutList
    BY DEF AboutList
  <1>3. downstream \in Seq(Packet)
    BY DEF TypeOK
  <1>4. Caught(downstream \o packets, AboutList, TrueList', ListRight')
    BY <1>1, <1>2, <1>3, CaughtTruth
  <1>5. ListCaught'
    BY <1>4 DEF Delivered, ListCaught
  <1> QED
    BY <1>5, ContactListCaught, PTL

\* Every handler keeps the contact list replicated.
LEMMA ContactListHandled ==
    ASSUME TypeOK, TypeOK', ContactListReplicated, Handle
    PROVE  ContactListReplicated'
  <1>1. picture' = picture /\ HandlerStep
    BY HandlePicture, HandlerSteps
  <1>2. CASE QuietStep
    <2> PICK packets \in Seq(Packet) :
          /\ \A i \in 1 .. Len(packets) : Quiet(packets[i])
          /\ Delivered(packets)
      BY <1>2 DEF QuietStep
    <2>1. \A i \in 1 .. Len(packets) : ~ChangesList(packets[i])
      BY DEF Quiet, ChangesList
    <2>2. GroupOf(contacts') = GroupOf(contacts)
      BY <1>2 DEF QuietStep
    <2> QED
      BY <1>1, <2>1, <2>2, ContactListQuiet
  <1>3. CASE Answer(<<ClientProfile(contacts, blocked)>>)
    <2>1. ClientProfile(contacts, blocked) \in Packet
      BY ProfilePacket DEF TypeOK
    <2>2. PICK packets \in Seq(Packet) :
            Delivered(packets) /\ Len(packets) = 1 /\ packets[1] = ClientProfile(contacts, blocked)
      BY <1>3, <2>1, OneReply DEF Answer
    <2>3. contacts' = contacts
      BY <1>3 DEF Answer
    <2> QED
      BY <2>2, <2>3, ContactListTruth
  <1>4. ASSUME NEW id \in Ids, NEW group \in GroupName, OnAddRequestPending(id, group)
        PROVE  ContactListReplicated'
    <2>1. PICK packets \in Seq(Packet) :
            /\ Delivered(packets)
            /\ Len(packets) \in {2, 3}
            /\ packets[2] = ClientProfile(contacts', blocked)
            /\ Len(packets) = 3 => packets[3] = Notice("AddContactRequest", id)
      BY <1>4, AddReply
    <2>2. \A i \in 2 + 1 .. Len(packets) : ~ChangesList(packets[i])
      BY <2>1 DEF Notice, ChangesList
    <2> QED
      BY <2>1, <2>2, ContactListTruth
  <1>5. ASSUME NEW id \in Ids, OnContactRemoved(id)
        PROVE  ContactListReplicated'
    <2>1. PICK packets \in Seq(Packet) :
            /\ Delivered(packets)
            /\ Len(packets) = 2
            /\ packets[2] = ClientProfile(contacts', blocked)
      BY <1>5, RemoveReply
    <2>2. 2 \in 1 .. Len(packets) /\ \A i \in 2 + 1 .. Len(packets) : ~ChangesList(packets[i])
      BY <2>1
    <2> QED
      BY <2>1, <2>2, ContactListTruth
  <1>6. ASSUME NEW current \in GroupName, NEW new \in GroupName, OnGroupRenamed(current, new)
        PROVE  ContactListReplicated'
    <2>1. PICK packets \in Seq(Packet) :
            /\ Delivered(packets)
            /\ Len(packets) = 2
            /\ packets[2] = ClientProfile(contacts', blocked)
      BY <1>6, RenameReply
    <2>2. 2 \in 1 .. Len(packets) /\ \A i \in 2 + 1 .. Len(packets) : ~ChangesList(packets[i])
      BY <2>1
    <2> QED
      BY <2>1, <2>2, ContactListTruth
  <1>7. ASSUME NEW id \in Ids, OnBlocked(id) \/ OnUnblocked(id)
        PROVE  ContactListReplicated'
    <2>1. PICK p \in Packet :
            Reply(<<p>>) /\ p.type \in {"ContactBlocked", "ContactUnblocked"}
      BY <1>7, ReplyPackets, SessionAssumption
         DEF OnBlocked, OnUnblocked, ContactBlocked, ContactUnblocked
    <2>2. PICK packets \in Seq(Packet) : Delivered(packets) /\ Len(packets) = 1 /\ packets[1] = p
      BY <2>1, OneReply
    <2>3. \A i \in 1 .. Len(packets) : ~ChangesList(packets[i])
      BY <2>1, <2>2 DEF ChangesList
    <2>4. GroupOf(contacts') = GroupOf(contacts)
      BY <1>7 DEF OnBlocked, OnUnblocked
    <2> QED
      BY <1>1, <2>2, <2>3, <2>4, ContactListQuiet
  <1>8. CASE PresenceStep
    <2> PICK properties \in PresenceProperties, changed \in [OwnContacts -> ContactInfo],
             packets \in Seq(Packet) : PresenceStepTo(properties, changed, packets)
      BY <1>8 DEF PresenceStep
    <2>1. Delivered(packets) /\ PresencePackets(properties, changed, packets)
      BY PresenceReply
    <2>3. \A i \in 1 .. Len(packets) : ~ChangesList(packets[i])
      BY <2>1 DEF PresencePackets, ChangesList
    <2>2. GroupOf(contacts') = GroupOf(contacts)
      <3>1. ASSUME NEW id \in Ids
            PROVE  /\ contacts'[id] = Absent <=> contacts[id] = Absent
                   /\ contacts[id] # Absent => contacts'[id].group = contacts[id].group
        BY OwnContactsTypes, SessionAssumption
           DEF PresenceStepTo, SetPresence, OwnContacts, IsContact
      <3> QED
        BY <3>1 DEF GroupOf
    <2> QED
      BY <1>1, <2>1, <2>2, <2>3, ContactListQuiet
  <1> QED
    BY <1>1, <1>2, <1>3, <1>4, <1>5, <1>6, <1>7, <1>8 DEF HandlerStep

\* The login sends the contact list it loads.
LEMMA ContactListInit == Init => ContactListReplicated
  <1> SUFFICES ASSUME Init
               PROVE  ContactListReplicated
    OBVIOUS
  <1>1. downstream = BeginSession(contacts, blocked) /\ TypeOK
    BY InitTypes DEF Init
  <1>2. /\ Len(downstream) = 3 /\ DOMAIN downstream = 1 .. 3
        /\ downstream[1].type = "ClientProfile"
        /\ downstream[1].contactList = GroupOf(contacts)
        /\ downstream[2].type = "ContactStatus"
        /\ downstream[3].type = "PingConfiguration"
    BY <1>1 DEF BeginSession, ClientProfile
  <1>3. \A j \in 1 + 1 .. Len(downstream) : ~ChangesList(downstream[j])
    BY <1>2 DEF ChangesList
  <1> QED
    BY <1>2, <1>3 DEF ContactListReplicated

\* Every step keeps the contact list replicated.
LEMMA ContactListNext ==
    TypeOK /\ TypeOK' /\ ContactListReplicated /\ [Next]_vars => ContactListReplicated'
  <1> SUFFICES ASSUME TypeOK, TypeOK', ContactListReplicated, [Next]_vars
               PROVE  ContactListReplicated'
    OBVIOUS
  <1>1. ASSUME NEW r \in Requests, Ask(r)
        PROVE  ContactListReplicated'
    BY <1>1 DEF Ask, ContactListReplicated, GroupOf
  <1>2. CASE Handle
    BY <1>2, ContactListHandled
  <1>3. CASE Read
    BY <1>3, ContactListRead
  <1>4. CASE UNCHANGED vars
    BY <1>4 DEF vars, ContactListReplicated, GroupOf
  <1> QED
    BY <1>1, <1>2, <1>3, <1>4 DEF Next

\* The messenger's contact list is ContactManager's, up to the packets in
\* flight, for every contact list, every set of requests and every
\* interleaving of the two ends of the connection.  The profile behind every
\* add, remove and rename is what makes it inductive.
THEOREM ContactListIsReplicated == Spec => []ContactListReplicated
  BY ContactListInit, ContactListNext, TypeCorrect, PTL DEF Spec

-----------------------------------------------------------------------------
(* The ignore list, one id at a time.                                      *)

AboutBlocked(id) == {p \in Packet : ChangesBlocked(p, id)}
TrueBlocked(id) ==
    {p \in Packet : ChangesBlocked(p, id) /\ (LeavesBlocked(p, id) <=> id \in blocked)}
BlockedRight(id) == id \in picture.blockedList <=> id \in blocked

BlockedCaught(id) ==
    process # "outgrown" =>
        Caught(downstream, AboutBlocked(id), TrueBlocked(id), BlockedRight(id))

\* BlockedListReplicated is Caught for each id.
LEMMA BlockedListCaught ==
    ASSUME TypeOK
    PROVE  BlockedListReplicated <=> \A id \in Ids : BlockedCaught(id)
  <1> DEFINE Part(id) ==
        process # "outgrown" =>
            \/ /\ \A i \in DOMAIN downstream : ~ChangesBlocked(downstream[i], id)
               /\ id \in picture.blockedList <=> id \in blocked
            \/ \E i \in DOMAIN downstream :
                  /\ ChangesBlocked(downstream[i], id)
                  /\ LeavesBlocked(downstream[i], id) <=> id \in blocked
                  /\ \A j \in i + 1 .. Len(downstream) : ~ChangesBlocked(downstream[j], id)
  <1>1. ASSUME NEW id \in Ids
        PROVE  Part(id) <=> BlockedCaught(id)
    <2>1. \A i \in 1 .. Len(downstream) : downstream[i] \in Packet
      BY DEF TypeOK
    <2>2. DOMAIN downstream = 1 .. Len(downstream) /\ Len(downstream) \in Nat
      BY DEF TypeOK
    <2>3. \A i \in 1 .. Len(downstream) :
            downstream[i] \in AboutBlocked(id) <=> ChangesBlocked(downstream[i], id)
      BY <2>1 DEF AboutBlocked
    <2>4. \A i \in 1 .. Len(downstream) : \A j \in i + 1 .. Len(downstream) :
            downstream[j] \in AboutBlocked(id) <=> ChangesBlocked(downstream[j], id)
      BY <2>2, <2>3
    <2>5. \A i \in 1 .. Len(downstream) :
            downstream[i] \in TrueBlocked(id) <=>
              /\ ChangesBlocked(downstream[i], id)
              /\ LeavesBlocked(downstream[i], id) <=> id \in blocked
      BY <2>1 DEF TrueBlocked
    <2> QED
      BY <2>2, <2>3, <2>4, <2>5 DEF BlockedCaught, Caught, BlockedRight
  <1>2. BlockedListReplicated <=> \A id \in Ids : Part(id)
    BY DEF BlockedListReplicated
  <1> QED
    BY <1>1, <1>2

\* Reading a packet keeps an id of the blocked list replicated.
LEMMA BlockedListRead ==
    ASSUME TypeOK, NEW id \in Ids, BlockedCaught(id), Read
    PROVE  BlockedCaught(id)'
  <1> DEFINE p == Head(downstream)
  <1>1. /\ downstream \in Seq(Packet) /\ downstream # <<>> /\ p \in Packet
        /\ downstream' = Tail(downstream) /\ blocked' = blocked /\ process' = process
        /\ picture'.blockedList = Learn(p).blockedList
    BY DEF TypeOK, Read
  <1>2. TrueBlocked(id)' = TrueBlocked(id) /\ TrueBlocked(id) \in SUBSET AboutBlocked(id)
    BY <1>1 DEF TrueBlocked, AboutBlocked
  <1>3. p \in TrueBlocked(id) => BlockedRight(id)'
    <2>1. p.type \in {"ContactBlocked", "ContactUnblocked"} \/ p.type = "ClientProfile"
            \/ p \notin TrueBlocked(id)
      BY DEF TrueBlocked, ChangesBlocked
    <2>2. CASE p.type = "ClientProfile"
      BY <1>1, <2>2 DEF TrueBlocked, LeavesBlocked, BlockedRight, Learn
    <2>3. CASE p.type = "ContactBlocked"
      BY <1>1, <2>3 DEF TrueBlocked, ChangesBlocked, LeavesBlocked, BlockedRight, Learn
    <2>4. CASE p.type = "ContactUnblocked"
      BY <1>1, <2>4 DEF TrueBlocked, ChangesBlocked, LeavesBlocked, BlockedRight, Learn
    <2> QED
      BY <2>1, <2>2, <2>3, <2>4
  <1>4. p \notin AboutBlocked(id) => (id \in picture'.blockedList <=> id \in picture.blockedList)
    BY <1>1 DEF AboutBlocked, ChangesBlocked, Learn
  <1>5. p \notin AboutBlocked(id) /\ BlockedRight(id) => BlockedRight(id)'
    BY <1>1, <1>4 DEF BlockedRight
  <1>6. BlockedRight(id) \in BOOLEAN /\ BlockedRight(id)' \in BOOLEAN
    BY DEF BlockedRight
  <1> HIDE DEF p
  <1>7. process # "outgrown" =>
            Caught(Tail(downstream), AboutBlocked(id), TrueBlocked(id), BlockedRight(id)')
    BY <1>1, <1>2, <1>3, <1>5, <1>6, CaughtTail DEF p, BlockedCaught
  <1> QED
    BY <1>1, <1>2, <1>7 DEF BlockedCaught

\* Packets that do not speak of an id whose being blocked does not change.
LEMMA BlockedListQuiet ==
    ASSUME TypeOK, NEW id \in Ids, BlockedCaught(id),
           NEW packets \in Seq(Packet), Delivered(packets),
           \A i \in 1 .. Len(packets) : ~ChangesBlocked(packets[i], id),
           id \in blocked' <=> id \in blocked, picture' = picture
    PROVE  BlockedCaught(id)'
  <1>1. TrueBlocked(id)' = TrueBlocked(id)
    BY DEF TrueBlocked
  <1>2. BlockedRight(id)' = BlockedRight(id) /\ BlockedRight(id) \in BOOLEAN
    BY DEF BlockedRight
  <1>3. \A i \in 1 .. Len(packets) : packets[i] \notin AboutBlocked(id)
    BY DEF AboutBlocked
  <1>4. downstream \in Seq(Packet)
    BY DEF TypeOK
  <1>5. process # "outgrown" =>
            Caught(downstream \o packets, AboutBlocked(id), TrueBlocked(id), BlockedRight(id))
    BY <1>2, <1>3, <1>4, CaughtQuiet DEF BlockedCaught
  <1> QED
    BY <1>1, <1>2, <1>5 DEF Delivered, BlockedCaught

\* Packets the last of which to speak of the id tells the present answer.
LEMMA BlockedListTruth ==
    ASSUME TypeOK, NEW id \in Ids, NEW packets \in Seq(Packet), Delivered(packets),
           NEW k \in 1 .. Len(packets), ChangesBlocked(packets[k], id),
           LeavesBlocked(packets[k], id) <=> id \in blocked',
           \A i \in k + 1 .. Len(packets) : ~ChangesBlocked(packets[i], id)
    PROVE  BlockedCaught(id)'
  <1>1. packets[k] \in TrueBlocked(id)'
    BY DEF TrueBlocked
  <1>2. \A i \in k + 1 .. Len(packets) : packets[i] \notin AboutBlocked(id)
    BY DEF AboutBlocked
  <1>3. downstream \in Seq(Packet)
    BY DEF TypeOK
  <1>4. Caught(downstream \o packets, AboutBlocked(id), TrueBlocked(id)', BlockedRight(id)')
    BY <1>1, <1>2, <1>3, CaughtTruth
  <1> QED
    BY <1>4 DEF Delivered, BlockedCaught

\* A profile is sent on its own, after an add, a removal or a rename.
LEMMA BlockedListRefreshed ==
    ASSUME TypeOK, NEW id \in Ids, NEW packets \in Seq(Packet), Delivered(packets),
           NEW k \in 1 .. Len(packets), packets[k] = ClientProfile(contacts', blocked),
           blocked' = blocked,
           \A i \in k + 1 .. Len(packets) : packets[i].type = "Notice"
    PROVE  BlockedCaught(id)'
  <1>1. ChangesBlocked(packets[k], id) /\ (LeavesBlocked(packets[k], id) <=> id \in blocked')
    BY DEF ClientProfile, ChangesBlocked, LeavesBlocked
  <1>2. \A i \in k + 1 .. Len(packets) : ~ChangesBlocked(packets[i], id)
    BY DEF ChangesBlocked
  <1> QED
    BY <1>1, <1>2, BlockedListTruth

\* Every handler keeps an id of the blocked list replicated.
LEMMA BlockedListHandled ==
    ASSUME TypeOK, TypeOK', NEW id \in Ids, BlockedCaught(id), Handle
    PROVE  BlockedCaught(id)'
  <1>1. picture' = picture /\ HandlerStep
    BY HandlePicture, HandlerSteps
  <1>2. CASE QuietStep
    <2> PICK packets \in Seq(Packet) :
          /\ \A i \in 1 .. Len(packets) : Quiet(packets[i])
          /\ Delivered(packets)
      BY <1>2 DEF QuietStep
    <2>1. \A i \in 1 .. Len(packets) : ~ChangesBlocked(packets[i], id)
      BY DEF Quiet, ChangesBlocked
    <2>2. id \in blocked' <=> id \in blocked
      BY <1>2 DEF QuietStep
    <2> QED
      BY <1>1, <2>1, <2>2, BlockedListQuiet
  <1>3. CASE Answer(<<ClientProfile(contacts, blocked)>>)
    <2>1. ClientProfile(contacts, blocked) \in Packet
      BY ProfilePacket DEF TypeOK
    <2>2. PICK packets \in Seq(Packet) :
            Delivered(packets) /\ Len(packets) = 1 /\ packets[1] = ClientProfile(contacts, blocked)
      BY <1>3, <2>1, OneReply DEF Answer
    <2>3. contacts' = contacts /\ blocked' = blocked
      BY <1>3 DEF Answer
    <2> QED
      BY <2>2, <2>3, BlockedListRefreshed
  <1>4. ASSUME NEW x \in Ids, NEW group \in GroupName, OnAddRequestPending(x, group)
        PROVE  BlockedCaught(id)'
    <2>1. PICK packets \in Seq(Packet) :
            /\ Delivered(packets)
            /\ Len(packets) \in {2, 3}
            /\ packets[2] = ClientProfile(contacts', blocked)
            /\ Len(packets) = 3 => packets[3] = Notice("AddContactRequest", x)
      BY <1>4, AddReply
    <2>2. \A i \in 2 + 1 .. Len(packets) : packets[i].type = "Notice"
      BY <2>1 DEF Notice
    <2>3. blocked' = blocked
      BY <1>4 DEF OnAddRequestPending
    <2> QED
      BY <2>1, <2>2, <2>3, BlockedListRefreshed
  <1>5. ASSUME NEW x \in Ids, OnContactRemoved(x)
        PROVE  BlockedCaught(id)'
    <2>1. PICK packets \in Seq(Packet) :
            /\ Delivered(packets)
            /\ Len(packets) = 2
            /\ packets[2] = ClientProfile(contacts', blocked)
      BY <1>5, RemoveReply
    <2>2. blocked' = blocked
      BY <1>5 DEF OnContactRemoved
    <2> QED
      BY <2>1, <2>2, BlockedListRefreshed
  <1>6. ASSUME NEW current \in GroupName, NEW new \in GroupName, OnGroupRenamed(current, new)
        PROVE  BlockedCaught(id)'
    <2>1. PICK packets \in Seq(Packet) :
            /\ Delivered(packets)
            /\ Len(packets) = 2
            /\ packets[2] = ClientProfile(contacts', blocked)
      BY <1>6, RenameReply
    <2>2. blocked' = blocked
      BY <1>6 DEF OnGroupRenamed
    <2> QED
      BY <2>1, <2>2, BlockedListRefreshed
  <1>7. ASSUME NEW x \in Ids, OnBlocked(x) \/ OnUnblocked(x)
        PROVE  BlockedCaught(id)'
    <2>1. PICK p \in Packet :
            /\ Reply(<<p>>)
            /\ p.contactId = x
            /\ \/ p.type = "ContactBlocked" /\ blocked' = blocked \cup {x}
               \/ p.type = "ContactUnblocked" /\ blocked' = blocked \ {x}
      BY <1>7, ReplyPackets, SessionAssumption
         DEF OnBlocked, OnUnblocked, ContactBlocked, ContactUnblocked
    <2>2. PICK packets \in Seq(Packet) : Delivered(packets) /\ Len(packets) = 1 /\ packets[1] = p
      BY <2>1, OneReply
    <2>3. CASE x = id
      <3>1. ChangesBlocked(packets[1], id) /\ (LeavesBlocked(packets[1], id) <=> id \in blocked')
        BY <2>1, <2>2, <2>3 DEF ChangesBlocked, LeavesBlocked
      <3>2. \A i \in 1 + 1 .. Len(packets) : ~ChangesBlocked(packets[i], id)
        BY <2>2
      <3>3. 1 \in 1 .. Len(packets)
        BY <2>2
      <3> QED
        BY <2>2, <3>1, <3>2, <3>3, BlockedListTruth
    <2>4. CASE x # id
      <3>1. \A i \in 1 .. Len(packets) : ~ChangesBlocked(packets[i], id)
        BY <2>1, <2>2, <2>4 DEF ChangesBlocked
      <3>2. id \in blocked' <=> id \in blocked
        BY <2>1, <2>4
      <3> QED
        BY <1>1, <2>2, <3>1, <3>2, BlockedListQuiet
    <2> QED
      BY <2>3, <2>4
  <1>8. CASE PresenceStep
    <2> PICK properties \in PresenceProperties, changed \in [OwnContacts -> ContactInfo],
             packets \in Seq(Packet) : PresenceStepTo(properties, changed, packets)
      BY <1>8 DEF PresenceStep
    <2>1. Delivered(packets) /\ PresencePackets(properties, changed, packets)
      BY PresenceReply
    <2>2. \A i \in 1 .. Len(packets) : ~ChangesBlocked(packets[i], id)
      BY <2>1 DEF PresencePackets, ChangesBlocked
    <2>3. id \in blocked' <=> id \in blocked
      BY DEF PresenceStepTo, SetPresence
    <2> QED
      BY <1>1, <2>1, <2>2, <2>3, BlockedListQuiet
  <1> QED
    BY <1>1, <1>2, <1>3, <1>4, <1>5, <1>6, <1>7, <1>8 DEF HandlerStep

\* The login sends the ignore list it loads.
LEMMA BlockedListInit == Init => BlockedListReplicated
  <1> SUFFICES ASSUME Init, NEW id \in Ids
               PROVE  BlockedCaught(id)
    BY InitTypes, BlockedListCaught
  <1>1. downstream = BeginSession(contacts, blocked) /\ TypeOK
    BY InitTypes DEF Init
  <1>2. /\ Len(downstream) = 3 /\ downstream[1] \in Packet
        /\ downstream[1].type = "ClientProfile" /\ downstream[1].blockedList = blocked
        /\ downstream[2].type = "ContactStatus"
        /\ downstream[3].type = "PingConfiguration"
    BY <1>1 DEF BeginSession, ClientProfile, TypeOK
  <1>3. downstream[1] \in TrueBlocked(id)
    BY <1>2 DEF TrueBlocked, ChangesBlocked, LeavesBlocked
  <1>4. \A j \in 1 + 1 .. Len(downstream) : downstream[j] \notin AboutBlocked(id)
    BY <1>2 DEF AboutBlocked, ChangesBlocked
  <1> QED
    BY <1>2, <1>3, <1>4 DEF BlockedCaught, Caught

\* Every step keeps the ignore list replicated.
LEMMA BlockedListNext ==
    TypeOK /\ TypeOK' /\ BlockedListReplicated /\ [Next]_vars => BlockedListReplicated'
  <1> SUFFICES ASSUME TypeOK, TypeOK', BlockedListReplicated, [Next]_vars
               PROVE  BlockedListReplicated'
    OBVIOUS
  <1>1. ASSUME NEW r \in Requests, Ask(r)
        PROVE  BlockedListReplicated'
    BY <1>1 DEF Ask, BlockedListReplicated
  <1>2. CASE Handle \/ Read
    <2>1. \A id \in Ids : BlockedCaught(id)
      BY BlockedListCaught
    <2>2. (\A id \in Ids : BlockedCaught(id))'
      BY <1>2, <2>1, BlockedListHandled, BlockedListRead
    <2> QED
      BY <2>2, BlockedListCaught, PTL
  <1>3. CASE UNCHANGED vars
    BY <1>3 DEF vars, BlockedListReplicated
  <1> QED
    BY <1>1, <1>2, <1>3 DEF Next

\* The messenger's ignore list is BlockedContactManager's, up to the packets
\* in flight, although a block and an unblock are answered by increments and
\* everything else by snapshots.
THEOREM BlockedListIsReplicated == Spec => []BlockedListReplicated
  BY BlockedListInit, BlockedListNext, TypeCorrect, PTL DEF Spec
=============================================================================
