----------------------- MODULE YMsgSessionStatusProofs -----------------------
(***************************************************************************)
(* The user's own status, the statuses the messenger shows, blocked        *)
(* strangers and the careful messenger: the remaining safety properties of *)
(* YMsgSession, for every value of the constants.                          *)
(***************************************************************************)
EXTENDS YMsgSessionProofs

USE DEF ContactMap, GroupName, Message

-----------------------------------------------------------------------------
(* The two places that keep the user's own status.                         *)

\* Every handler keeps the user's own contacts and PresenceProperties in step.
LEMMA FollowingHandled ==
    ASSUME TypeOK, TypeOK', OwnContactsFollowPresence, Handle
    PROVE  OwnContactsFollowPresence'
  <1>1. HandlerStep
    BY HandlerSteps
  <1>2. CASE UNCHANGED <<contacts, presence>>
    BY <1>2 DEF OwnContactsFollowPresence, OwnContacts, IsContact, Follows
  <1>3. ASSUME NEW x \in Ids, NEW group \in GroupName, OnAddRequestPending(x, group)
        PROVE  OwnContactsFollowPresence'
    <2> SUFFICES ASSUME NEW id \in Profiles, contacts'[id] # Absent
                 PROVE  \/ Follows(contacts[id])'
                        \/ contacts'[id].state = "AddPending"
                             /\ contacts'[id].availability = "Offline"
      BY DEF OwnContactsFollowPresence, OwnContacts, IsContact
    <2>1. presence' = presence /\ contacts' = AddPendingContact(x, group) /\ id \in Ids
      BY <1>3, SessionAssumption DEF OnAddRequestPending
    <2>2. CASE id = x
      BY <2>1, <2>2 DEF AddPendingContact, TypeOK
    <2>3. CASE id # x
      <3>1. contacts'[id] = contacts[id] /\ id \in OwnContacts
        BY <2>1, <2>3 DEF AddPendingContact, TypeOK, OwnContacts, IsContact
      <3> QED
        BY <2>1, <3>1 DEF OwnContactsFollowPresence, Follows
    <2> QED
      BY <2>2, <2>3
  <1>4. ASSUME NEW x \in Ids, OnContactRemoved(x)
        PROVE  OwnContactsFollowPresence'
    <2> SUFFICES ASSUME NEW id \in Profiles, contacts'[id] # Absent
                 PROVE  \/ Follows(contacts[id])'
                        \/ contacts'[id].state = "AddPending"
                             /\ contacts'[id].availability = "Offline"
      BY DEF OwnContactsFollowPresence, OwnContacts, IsContact
    <2>1. presence' = presence /\ contacts'[id] = contacts[id] /\ id \in OwnContacts
      BY <1>4, SessionAssumption DEF OnContactRemoved, EraseContact, TypeOK, OwnContacts, IsContact
    <2> QED
      BY <2>1 DEF OwnContactsFollowPresence, Follows
  <1>5. ASSUME NEW current \in GroupName, NEW new \in GroupName, OnGroupRenamed(current, new)
        PROVE  OwnContactsFollowPresence'
    <2> SUFFICES ASSUME NEW id \in Profiles, contacts'[id] # Absent
                 PROVE  \/ Follows(contacts[id])'
                        \/ contacts'[id].state = "AddPending"
                             /\ contacts'[id].availability = "Offline"
      BY DEF OwnContactsFollowPresence, OwnContacts, IsContact
    <2>1. presence' = presence /\ id \in Ids /\ contacts' = RenameGroup(current, new)
      BY <1>5, SessionAssumption DEF OnGroupRenamed
    <2>2. contacts[id] # Absent /\ contacts[id] \in ContactInfo
      BY <2>1 DEF RenameGroup, IsContact, TypeOK
    <2>3. /\ contacts'[id].state = contacts[id].state
          /\ contacts'[id].availability = contacts[id].availability
          /\ contacts'[id].isBusy = contacts[id].isBusy
          /\ contacts'[id].customMessage = contacts[id].customMessage
      BY <2>1, <2>2 DEF RenameGroup, ContactInfo
    <2> QED
      BY <2>1, <2>2, <2>3 DEF OwnContactsFollowPresence, Follows, OwnContacts, IsContact
  <1>6. CASE PresenceStep
    <2> PICK properties \in PresenceProperties, changed \in [OwnContacts -> ContactInfo],
             packets \in Seq(Packet) : PresenceStepTo(properties, changed, packets)
      BY <1>6 DEF PresenceStep
    <2> SUFFICES ASSUME NEW id \in Profiles, contacts'[id] # Absent
                 PROVE  Follows(contacts[id])'
      BY DEF OwnContactsFollowPresence, OwnContacts, IsContact
    <2>1. presence' = properties /\ id \in OwnContacts /\ contacts'[id] = changed[id]
      BY SessionAssumption DEF PresenceStepTo, SetPresence, OwnContacts, IsContact
    <2> QED
      BY <2>1 DEF PresenceStepTo, Follows
  <1>7. UNCHANGED <<contacts, presence>>
        \/ (\E x \in Ids, group \in GroupName : OnAddRequestPending(x, group))
        \/ (\E x \in Ids : OnContactRemoved(x))
        \/ (\E current \in GroupName, new \in GroupName : OnGroupRenamed(current, new))
        \/ PresenceStep
    BY <1>1 DEF HandlerStep, QuietStep, Answer, OnBlocked, OnUnblocked
  <1> QED
    BY <1>2, <1>3, <1>4, <1>5, <1>6, <1>7

\* PresenceProperties and the user's own contacts agree, for every set of
\* profiles and however they are removed, added and renamed in between.
THEOREM OwnContactsAlwaysFollow == Spec => []OwnContactsFollowPresence
  <1>1. Init => OwnContactsFollowPresence
    <2> SUFFICES ASSUME Init
                 PROVE  OwnContactsFollowPresence
      OBVIOUS
    <2> PICK a \in {"Available", "Offline"} :
          contacts = LoadContacts(a) /\ presence = PropertiesAway(a, FALSE)
      BY DEF Init
    <2> SUFFICES ASSUME NEW id \in Profiles, contacts[id] # Absent
                 PROVE  Follows(contacts[id])
      BY DEF OwnContactsFollowPresence, OwnContacts, IsContact
    <2>1. id \in LoadedProfiles /\ id \in Ids
      BY SessionAssumption DEF LoadContacts, Listed
    <2> QED
      BY <2>1 DEF LoadContacts, PropertiesAway, Follows
  <1>2. TypeOK /\ TypeOK' /\ OwnContactsFollowPresence /\ [Next]_vars
          => OwnContactsFollowPresence'
    <2> SUFFICES ASSUME TypeOK, TypeOK', OwnContactsFollowPresence, [Next]_vars
                 PROVE  OwnContactsFollowPresence'
      OBVIOUS
    <2>1. CASE Handle
      BY <2>1, FollowingHandled
    <2>2. CASE UNCHANGED <<contacts, presence>>
      BY <2>2 DEF OwnContactsFollowPresence, OwnContacts, IsContact, Follows
    <2> QED
      BY <2>1, <2>2 DEF Next, Ask, Read, vars
  <1> QED
    BY <1>1, <1>2, TypeCorrect, PTL DEF Spec

-----------------------------------------------------------------------------
(* Invisible on the wire.                                                  *)

\* A packet that shows no one as invisible.
Discreet(p) ==
    p.type = "ContactStatus" =>
        \A id \in Listed(p.statuses) : p.statuses[id].availability # "Invisible"

\* A status packet shows the availability its contacts have.
LEMMA StatusPacketDiscreet ==
    ASSUME NEW book, NEW ids \in SUBSET Ids,
           \A id \in ids : book[id].availability # "Invisible"
    PROVE  Discreet([type |-> "ContactStatus", statuses |-> Entries(book, ids)])
  BY DEF Discreet, Entries, StatusOf, Listed

\* Sending discreet packets keeps Invisible off the wire.
LEMMA DiscreetReply ==
    ASSUME TypeOK, InvisibleNeverShown, NEW packets \in Seq(Packet), Delivered(packets),
           \A i \in 1 .. Len(packets) : Discreet(packets[i])
    PROVE  InvisibleNeverShown'
  <1> PICK sent \in Seq(Packet) :
        /\ downstream' = downstream \o sent
        /\ \A i \in 1 .. Len(sent) : i \in 1 .. Len(packets) /\ sent[i] = packets[i]
    BY DeliveredPart
  <1>1. \A i \in 1 .. Len(downstream) : Discreet(downstream[i])
    BY DEF InvisibleNeverShown, Discreet, TypeOK
  <1>2. \A i \in 1 .. Len(downstream \o sent) : Discreet((downstream \o sent)[i])
    <2> TAKE i \in 1 .. Len(downstream \o sent)
    <2>1. CASE i \in 1 .. Len(downstream)
      BY <1>1, <2>1, Concatenation DEF TypeOK
    <2>2. CASE i \in Len(downstream) + 1 .. Len(downstream) + Len(sent)
      <3>1. i - Len(downstream) \in 1 .. Len(sent)
            /\ (downstream \o sent)[i] = sent[i - Len(downstream)]
        BY <2>2, Concatenation DEF TypeOK
      <3> QED
        BY <3>1
    <2> QED
      BY <2>1, <2>2, Concatenation DEF TypeOK
  <1>3. downstream \o sent \in Seq(Packet)
    BY Concatenation DEF TypeOK
  <1> QED
    BY <1>2, <1>3 DEF InvisibleNeverShown, Discreet

\* Every handler keeps Invisible off the wire.
LEMMA InvisibleHandled ==
    ASSUME TypeOK, TypeOK', InvisibleNeverShown, Handle
    PROVE  InvisibleNeverShown'
  <1>1. HandlerStep
    BY HandlerSteps
  <1>2. ASSUME NEW packets \in Seq(Packet), Delivered(packets),
               \A i \in 1 .. Len(packets) : packets[i].type # "ContactStatus"
        PROVE  InvisibleNeverShown'
    BY <1>2, DiscreetReply DEF Discreet
  <1>3. CASE QuietStep
    <2> PICK packets \in Seq(Packet) :
          /\ \A i \in 1 .. Len(packets) : Quiet(packets[i])
          /\ Delivered(packets)
      BY <1>3 DEF QuietStep
    <2>1. \A i \in 1 .. Len(packets) : packets[i].type # "ContactStatus"
      BY DEF Quiet
    <2> QED
      BY <1>2, <2>1
  <1>4. CASE Answer(<<ClientProfile(contacts, blocked)>>)
    <2>1. ClientProfile(contacts, blocked) \in Packet
      BY ProfilePacket DEF TypeOK
    <2>2. PICK packets \in Seq(Packet) :
            Delivered(packets) /\ Len(packets) = 1 /\ packets[1] = ClientProfile(contacts, blocked)
      BY <1>4, <2>1, OneReply DEF Answer
    <2>3. \A i \in 1 .. Len(packets) : packets[i].type # "ContactStatus"
      BY <2>2 DEF ClientProfile
    <2> QED
      BY <1>2, <2>2, <2>3
  <1>5. ASSUME NEW x \in Ids, NEW group \in GroupName, OnAddRequestPending(x, group)
        PROVE  InvisibleNeverShown'
    <2>1. PICK packets \in Seq(Packet) :
            /\ Delivered(packets)
            /\ Len(packets) \in {2, 3}
            /\ packets[1] = AddContactRequestResult(x, group, "AddPending")
            /\ packets[2] = ClientProfile(contacts', blocked)
            /\ Len(packets) = 3 => packets[3] = Notice("AddContactRequest", x)
      BY <1>5, AddReply
    <2>2. \A i \in 1 .. Len(packets) : packets[i].type # "ContactStatus"
      BY <2>1 DEF AddContactRequestResult, ClientProfile, Notice
    <2> QED
      BY <1>2, <2>1, <2>2
  <1>6. ASSUME NEW x \in Ids, OnContactRemoved(x)
        PROVE  InvisibleNeverShown'
    <2>1. PICK packets \in Seq(Packet) :
            /\ Delivered(packets)
            /\ Len(packets) = 2
            /\ packets[1] = ContactRemoved(x, "Success")
            /\ packets[2] = ClientProfile(contacts', blocked)
      BY <1>6, RemoveReply
    <2>2. \A i \in 1 .. Len(packets) : packets[i].type # "ContactStatus"
      BY <2>1 DEF ContactRemoved, ClientProfile
    <2> QED
      BY <1>2, <2>1, <2>2
  <1>7. ASSUME NEW current \in GroupName, NEW new \in GroupName, OnGroupRenamed(current, new)
        PROVE  InvisibleNeverShown'
    <2>1. PICK packets \in Seq(Packet) :
            /\ Delivered(packets)
            /\ Len(packets) = 2
            /\ packets[1] = ContactGroupRenamed(new, current)
            /\ packets[2] = ClientProfile(contacts', blocked)
      BY <1>7, RenameReply
    <2>2. \A i \in 1 .. Len(packets) : packets[i].type # "ContactStatus"
      BY <2>1 DEF ContactGroupRenamed, ClientProfile
    <2> QED
      BY <1>2, <2>1, <2>2
  <1>8. ASSUME NEW x \in Ids, OnBlocked(x) \/ OnUnblocked(x)
        PROVE  InvisibleNeverShown'
    <2>1. PICK p \in Packet :
            Reply(<<p>>) /\ p.type \in {"ContactBlocked", "ContactUnblocked"}
      BY <1>8, ReplyPackets, SessionAssumption
         DEF OnBlocked, OnUnblocked, ContactBlocked, ContactUnblocked
    <2>2. PICK packets \in Seq(Packet) : Delivered(packets) /\ Len(packets) = 1 /\ packets[1] = p
      BY <2>1, OneReply
    <2>3. \A i \in 1 .. Len(packets) : packets[i].type # "ContactStatus"
      BY <2>1, <2>2
    <2> QED
      BY <1>2, <2>2, <2>3
  <1>9. CASE PresenceStep
    <2> PICK properties \in PresenceProperties, changed \in [OwnContacts -> ContactInfo],
             packets \in Seq(Packet) : PresenceStepTo(properties, changed, packets)
      BY <1>9 DEF PresenceStep
    <2>1. Delivered(packets) /\ PresencePackets(properties, changed, packets)
      BY PresenceReply
    <2>2. CASE properties.availability = "Invisible"
      <3>1. \A i \in 1 .. Len(packets) : packets[i].type # "ContactStatus"
        BY <2>1, <2>2 DEF PresencePackets
      <3> QED
        BY <1>2, <2>1, <3>1
    <2>3. CASE properties.availability # "Invisible"
      <3>1. \A id \in OwnContacts : changed[id].availability # "Invisible"
        BY <2>3 DEF PresenceStepTo
      <3>2. Discreet([type |-> "ContactStatus", statuses |-> Entries(changed, OwnContacts)])
        BY <3>1, OwnContactsTypes, StatusPacketDiscreet
      <3>3. \A i \in 1 .. Len(packets) : Discreet(packets[i])
        BY <2>1, <2>3, <3>2 DEF PresencePackets
      <3> QED
        BY <2>1, <3>3, DiscreetReply
    <2> QED
      BY <2>2, <2>3
  <1> QED
    BY <1>1, <1>3, <1>4, <1>5, <1>6, <1>7, <1>8, <1>9 DEF HandlerStep

\* No packet shows a contact as invisible: the away processor sorts that
\* state out before the presence loops see it, and the address book is
\* assumed not to hold it (the mock never loads it).
THEOREM InvisibleIsNeverShown == Spec => []InvisibleNeverShown
  <1>1. Init => InvisibleNeverShown
    <2> SUFFICES ASSUME Init
                 PROVE  InvisibleNeverShown
      OBVIOUS
    <2> PICK a \in {"Available", "Offline"} : contacts = LoadContacts(a)
      BY DEF Init
    <2>1. downstream = BeginSession(contacts, blocked)
      BY DEF Init
    <2>2. \A id \in Online(contacts) : contacts[id].availability # "Invisible"
      BY SessionAssumption DEF Online, Listed, LoadContacts
    <2>3. Discreet([type |-> "ContactStatus", statuses |-> Entries(contacts, Online(contacts))])
      BY <2>2, StatusPacketDiscreet DEF Online, Listed
    <2>4. \A i \in 1 .. 3 : Discreet(downstream[i])
      BY <2>1, <2>3 DEF BeginSession, ClientProfile, Discreet
    <2>5. DOMAIN downstream = 1 .. 3
      BY <2>1 DEF BeginSession
    <2> QED
      BY <2>4, <2>5 DEF InvisibleNeverShown, Discreet
  <1>2. TypeOK /\ TypeOK' /\ InvisibleNeverShown /\ [Next]_vars => InvisibleNeverShown'
    <2> SUFFICES ASSUME TypeOK, TypeOK', InvisibleNeverShown, [Next]_vars
                 PROVE  InvisibleNeverShown'
      OBVIOUS
    <2>1. CASE Handle
      BY <2>1, InvisibleHandled
    <2>2. CASE Read
      BY <2>2 DEF Read, InvisibleNeverShown, TypeOK
    <2>3. CASE downstream' = downstream
      BY <2>3 DEF InvisibleNeverShown
    <2> QED
      BY <2>1, <2>2, <2>3 DEF Next, Ask, vars
  <1> QED
    BY <1>1, <1>2, TypeCorrect, PTL DEF Spec

-----------------------------------------------------------------------------
(* Blocked strangers and the careful messenger.                            *)

\* No step makes a contact of an id that is blocked when the step is taken.
THEOREM BlockedStrangersAlwaysStayOut == Spec => BlockedStrangersStayOut
  <1>1. TypeOK /\ TypeOK' /\ [Next]_vars
          => [\A id \in blocked : id \in Listed(contacts') => IsContact(id)]_vars
    <2> SUFFICES ASSUME TypeOK, TypeOK', [Next]_vars, NEW id \in blocked, id \in Listed(contacts')
                 PROVE  IsContact(id)
      OBVIOUS
    <2>1. id \in Ids /\ contacts'[id] # Absent
      BY DEF TypeOK, Listed
    <2>2. CASE contacts' = contacts
      BY <2>1, <2>2 DEF IsContact
    <2>3. CASE Handle
      <3>1. ASSUME NEW x \in Ids, NEW group \in GroupName, ~IsBlocked(x),
                   OnAddRequestPending(x, group)
            PROVE  IsContact(id)
        BY <2>1, <3>1 DEF OnAddRequestPending, AddPendingContact, IsBlocked, IsContact, TypeOK
      <3>2. ASSUME NEW x \in Ids, OnContactRemoved(x)
            PROVE  IsContact(id)
        BY <2>1, <3>2 DEF OnContactRemoved, EraseContact, IsContact, TypeOK
      <3>3. ASSUME NEW current \in GroupName, NEW new \in GroupName, OnGroupRenamed(current, new)
            PROVE  IsContact(id)
        BY <2>1, <3>3 DEF OnGroupRenamed, RenameGroup, IsContact, TypeOK
      <3>4. CASE PresenceStep
        BY <2>1, <3>4
           DEF PresenceStep, PresenceStepTo, SetPresence, OwnContacts, IsContact, TypeOK
      <3>5. HandlerStep
        BY <2>3, HandlerSteps
      <3> QED
        BY <2>2, <3>1, <3>2, <3>3, <3>4, <3>5
           DEF HandlerStep, QuietStep, Answer, OnBlocked, OnUnblocked
    <2> QED
      BY <2>2, <2>3 DEF Next, Ask, Read, vars
  <1> QED
    BY <1>1, TypeCorrect, PTL DEF Spec, BlockedStrangersStayOut

\* A careful messenger has at most one request out, and only when nothing is
\* on its way back to it, so the picture it consulted is the server's state.
InLockstep ==
    Careful =>
        /\ process # "terminated"
        /\ process = "running" =>
              \/ upstream = <<>>
              \/ Len(upstream) = 1 /\ downstream = <<>> /\ Sensible(Head(upstream))

\* The replica of the ignore list is exact when nothing is in flight.
LEMMA BlockedListExact ==
    ASSUME TypeOK, BlockedListReplicated, process = "running", downstream = <<>>
    PROVE  picture.blockedList = blocked
  <1>1. \A id \in Ids : id \in picture.blockedList <=> id \in blocked
    BY DEF BlockedListReplicated
  <1>2. picture.blockedList \in SUBSET Ids /\ blocked \in SUBSET Ids
    BY DEF TypeOK
  <1> QED
    BY <1>1, <1>2

\* A handler that replies does not throw itself.
LEMMA ReplyDoesNotThrow ==
    ASSUME NEW packets, Reply(packets), process = "running"
    PROVE  process' # "terminated"
  BY DEF Reply, Sends, Outgrows

\* A request that is sensible for an exact picture makes no handler throw.
LEMMA SensibleRequests ==
    ASSUME TypeOK, picture.blockedList = blocked, upstream # <<>>,
           Sensible(Head(upstream)), Handle
    PROVE  ~Throw
  <1> DEFINE r == Head(upstream)
  <1>1. \A id \in Ids : id \in picture.blockedList <=> id \in blocked
    OBVIOUS
  <1>2. process = "running" /\ r \in Request
    BY HandlePicture DEF TypeOK
  <1> SUFFICES ASSUME Throw
               PROVE  FALSE
    OBVIOUS
  <1>3. process' = "terminated"
    BY DEF Throw
  <1>4. CASE ChangeBlockedUser
    <2>1. r.op = "ChangeBlockedUser" /\ r.contactId \in Ids
      BY <1>2, <1>4, RequestFields DEF ChangeBlockedUser, Serve
    <2>2. r.mode = "1" => ~IsBlocked(r.contactId)
      BY <1>1, <2>1 DEF Sensible, IsBlocked
    <2>3. r.mode = "2" => IsBlocked(r.contactId)
      BY <1>1, <2>1 DEF Sensible, IsBlocked
    <2> HIDE DEF r
    <2> QED
      BY <1>2, <1>3, <1>4, <2>2, <2>3, ReplyDoesNotThrow
         DEF r, ChangeBlockedUser, OnBlocked, OnUnblocked, Answer
  <1>5. CASE ActivateProfile \/ DeactivateProfile
    <2>1. IsClientOrProfileId(r.contactId)
      BY <1>5 DEF ActivateProfile, DeactivateProfile, Serve, Sensible
    <2> QED
      BY <1>2, <1>3, <1>5, <2>1, ReplyDoesNotThrow DEF ActivateProfile, DeactivateProfile, Answer
  <1>6. CASE SetAway
    <2>1. r.status = "Invisible" \/ r.busy # "other"
      BY <1>6 DEF SetAway, Serve, Sensible
    <2>2. process' # "terminated"
      BY <1>2, <1>6, <2>1, ReplyDoesNotThrow
         DEF SetAway, SetInvisible, SetIdle, SetCustomStatus, SetAwayAs, SetPresence
    <2> QED
      BY <1>2, <1>3, <2>2
  <1>7. CASE ~(ChangeBlockedUser \/ ActivateProfile \/ DeactivateProfile \/ SetAway)
    <2>1. process' # "terminated"
      BY <1>2, <1>7, ReplyDoesNotThrow
         DEF Handle, AddContact, Refuse, OnAddRequestPending, RemoveContact, OnContactRemoved,
             RenameContactGroup, OnGroupRenamed, DenyContactAddRequest, SetAvailable,
             SetInvisible, SetPresence, RequestProfile, PrivateMessage, ServiceOperation,
             MassPrivateMessage, ChatLogin, ChatJoin, UnknownService, Answer
    <2> QED
      BY <1>2, <1>3, <2>1
  <1> QED
    BY <1>4, <1>5, <1>6, <1>7

\* A handler that does not throw ends the process in the Builder or not at all.
LEMMA OnlyThrowTerminates ==
    ASSUME Handle, ~Throw
    PROVE  process' # "terminated" /\ upstream' = Tail(upstream) /\ upstream # <<>>
  BY ReplyDoesNotThrow
     DEF Handle, AddContact, Refuse, OnAddRequestPending, RemoveContact, OnContactRemoved,
         RenameContactGroup, OnGroupRenamed, DenyContactAddRequest, ChangeBlockedUser, OnBlocked,
         OnUnblocked, SetAvailable, SetAway, SetInvisible, SetIdle, SetCustomStatus, SetAwayAs,
         SetPresence, RequestProfile, ActivateProfile, DeactivateProfile, PrivateMessage,
         ServiceOperation, MassPrivateMessage, ChatLogin, ChatJoin, UnknownService, Answer, Serve

\* A messenger that waits for its replies and trusts its picture never makes
\* a handler throw, whatever address book it logs in to: its picture is exact
\* when it asks and nothing can change before the request is served.  That no
\* reply of 64K makes the Builder throw is not part of it.
THEOREM CarefulMessengerIsAlwaysSafe == Spec => []CarefulMessengerIsSafe
  <1>1. Init => InLockstep
    BY DEF Init, InLockstep
  <1>2. TypeOK /\ BlockedListReplicated /\ InLockstep /\ [Next]_vars => InLockstep'
    <2> SUFFICES ASSUME TypeOK, BlockedListReplicated, InLockstep, [Next]_vars, Careful
                 PROVE  InLockstep'
      BY DEF InLockstep
    <2>1. ASSUME NEW r \in Requests, Ask(r)
          PROVE  InLockstep'
      <3>1. /\ upstream' = Append(upstream, r) /\ upstream = <<>>
            /\ downstream' = <<>> /\ process' = process /\ picture' = picture /\ Sensible(r)
        BY <2>1 DEF Ask
      <3>2. Len(upstream') = 1 /\ Head(upstream') = r
        BY <3>1
      <3>3. Sensible(Head(upstream))'
        BY <3>1, <3>2 DEF Sensible
      <3> QED
        BY <3>1, <3>2, <3>3 DEF InLockstep
    <2>2. CASE Handle
      <3>1. upstream # <<>>
        BY <2>2, ServeTypes
           DEF Handle, AddContact, RemoveContact, RenameContactGroup, DenyContactAddRequest,
               ChangeBlockedUser, SetAvailable, SetAway, RequestProfile, ActivateProfile,
               DeactivateProfile, PrivateMessage, ServiceOperation, MassPrivateMessage,
               ChatLogin, ChatJoin, UnknownService, Serve
      <3>2. Len(upstream) = 1 /\ downstream = <<>> /\ Sensible(Head(upstream))
            /\ process = "running"
        BY <2>2, <3>1, HandlePicture DEF InLockstep
      <3>3. process' # "terminated" /\ upstream' = Tail(upstream)
        BY <2>2, <3>1, <3>2, BlockedListExact, SensibleRequests, OnlyThrowTerminates
      <3>4. Tail(upstream) = <<>>
        <4>1. Tail(upstream) \in Seq(Request) /\ Len(Tail(upstream)) = 0
          BY <3>1, <3>2 DEF TypeOK
        <4> QED
          BY <4>1, EmptySeq
      <3> QED
        BY <3>3, <3>4 DEF InLockstep
    <2>3. CASE Read
      <3>1. process = "running" => upstream = <<>>
        BY <2>3 DEF Read, InLockstep
      <3> QED
        BY <2>3, <3>1 DEF Read, InLockstep
    <2>4. CASE UNCHANGED vars
      BY <2>4 DEF vars, InLockstep, Sensible
    <2> QED
      BY <2>1, <2>2, <2>3, <2>4 DEF Next
  <1>3. InLockstep => CarefulMessengerIsSafe
    BY DEF InLockstep, CarefulMessengerIsSafe
  <1> QED
    BY <1>1, <1>2, <1>3, TypeCorrect, BlockedListIsReplicated, PTL DEF Spec

-----------------------------------------------------------------------------
(* The statuses the messenger shows, one contact at a time.                *)

AboutStatus(id) == {p \in Packet : Speaks(p, id)}
TrueStatus(id) == {p \in Packet : Speaks(p, id) /\ Told(p, id) = HeldStatus(id)}
StatusRight(id) == picture.statuses[id] = HeldStatus(id)

StatusCaught(id) ==
    process # "outgrown" => Caught(downstream, AboutStatus(id), TrueStatus(id), StatusRight(id))

\* StatusReplicated is Caught for each id.
LEMMA StatusesCaught ==
    ASSUME TypeOK
    PROVE  StatusReplicated <=> \A id \in Ids : StatusCaught(id)
  <1> DEFINE Part(id) ==
        process # "outgrown" =>
            \/ /\ \A i \in DOMAIN downstream : ~Speaks(downstream[i], id)
               /\ picture.statuses[id] = HeldStatus(id)
            \/ \E i \in DOMAIN downstream :
                  /\ Speaks(downstream[i], id)
                  /\ Told(downstream[i], id) = HeldStatus(id)
                  /\ \A j \in i + 1 .. Len(downstream) : ~Speaks(downstream[j], id)
  <1>1. ASSUME NEW id \in Ids
        PROVE  Part(id) <=> StatusCaught(id)
    <2>1. \A i \in 1 .. Len(downstream) : downstream[i] \in Packet
      BY DEF TypeOK
    <2>2. DOMAIN downstream = 1 .. Len(downstream) /\ Len(downstream) \in Nat
      BY DEF TypeOK
    <2>3. \A i \in 1 .. Len(downstream) :
            downstream[i] \in AboutStatus(id) <=> Speaks(downstream[i], id)
      BY <2>1 DEF AboutStatus
    <2>4. \A i \in 1 .. Len(downstream) : \A j \in i + 1 .. Len(downstream) :
            downstream[j] \in AboutStatus(id) <=> Speaks(downstream[j], id)
      BY <2>2, <2>3
    <2>5. \A i \in 1 .. Len(downstream) :
            downstream[i] \in TrueStatus(id) <=>
              /\ Speaks(downstream[i], id)
              /\ Told(downstream[i], id) = HeldStatus(id)
      BY <2>1 DEF TrueStatus
    <2> QED
      BY <2>2, <2>3, <2>4, <2>5 DEF StatusCaught, Caught, StatusRight
  <1>2. StatusReplicated <=> \A id \in Ids : Part(id)
    BY DEF StatusReplicated
  <1> QED
    BY <1>1, <1>2

\* Reading a packet keeps the status of a contact replicated.
LEMMA StatusRead ==
    ASSUME TypeOK, NEW id \in Ids, StatusCaught(id), Read
    PROVE  StatusCaught(id)'
  <1> DEFINE p == Head(downstream)
  <1>1. /\ downstream \in Seq(Packet) /\ downstream # <<>> /\ p \in Packet
        /\ downstream' = Tail(downstream) /\ contacts' = contacts /\ process' = process
        /\ picture'.statuses = Learn(p).statuses
    BY DEF TypeOK, Read
  <1>2. HeldStatus(id)' = HeldStatus(id)
    BY <1>1 DEF HeldStatus, IsContact
  <1>3. TrueStatus(id)' = TrueStatus(id) /\ TrueStatus(id) \in SUBSET AboutStatus(id)
    BY <1>2 DEF TrueStatus, AboutStatus
  <1>4. picture'.statuses[id] = IF Speaks(p, id) THEN Told(p, id) ELSE picture.statuses[id]
    BY <1>1 DEF Learn
  <1> HIDE DEF p
  <1>5. p \in TrueStatus(id) => StatusRight(id)'
    BY <1>2, <1>4 DEF TrueStatus, StatusRight
  <1>6. p \notin AboutStatus(id) /\ StatusRight(id) => StatusRight(id)'
    BY <1>1, <1>2, <1>4 DEF AboutStatus, StatusRight
  <1>7. StatusRight(id) \in BOOLEAN /\ StatusRight(id)' \in BOOLEAN
    BY DEF StatusRight
  <1>8. process # "outgrown" =>
            Caught(Tail(downstream), AboutStatus(id), TrueStatus(id), StatusRight(id)')
    BY <1>1, <1>3, <1>5, <1>6, <1>7, CaughtTail DEF p, StatusCaught
  <1> QED
    BY <1>1, <1>3, <1>8 DEF StatusCaught, AboutStatus

\* Packets that do not speak of a contact whose status does not change.
LEMMA StatusQuiet ==
    ASSUME TypeOK, NEW id \in Ids, StatusCaught(id),
           NEW packets \in Seq(Packet), Delivered(packets),
           \A i \in 1 .. Len(packets) : ~Speaks(packets[i], id),
           HeldStatus(id)' = HeldStatus(id), picture' = picture
    PROVE  StatusCaught(id)'
  <1>1. TrueStatus(id)' = TrueStatus(id)
    BY DEF TrueStatus
  <1>2. StatusRight(id)' = StatusRight(id) /\ StatusRight(id) \in BOOLEAN
    BY DEF StatusRight
  <1>3. \A i \in 1 .. Len(packets) : packets[i] \notin AboutStatus(id)
    BY DEF AboutStatus
  <1>4. downstream \in Seq(Packet)
    BY DEF TypeOK
  <1>5. process # "outgrown" =>
            Caught(downstream \o packets, AboutStatus(id), TrueStatus(id), StatusRight(id))
    BY <1>2, <1>3, <1>4, CaughtQuiet DEF StatusCaught
  <1> QED
    BY <1>1, <1>2, <1>5 DEF Delivered, StatusCaught, AboutStatus

\* Packets the last of which to speak of the contact tells its status.
LEMMA StatusTruth ==
    ASSUME TypeOK, NEW id \in Ids, NEW packets \in Seq(Packet), Delivered(packets),
           NEW k \in 1 .. Len(packets), Speaks(packets[k], id),
           Told(packets[k], id) = HeldStatus(id)',
           \A i \in k + 1 .. Len(packets) : ~Speaks(packets[i], id)
    PROVE  StatusCaught(id)'
  <1>1. packets[k] \in TrueStatus(id)'
    BY DEF TrueStatus
  <1>2. \A i \in k + 1 .. Len(packets) : packets[i] \notin AboutStatus(id)
    BY DEF AboutStatus
  <1>3. downstream \in Seq(Packet)
    BY DEF TypeOK
  <1>4. Caught(downstream \o packets, AboutStatus(id), TrueStatus(id)', StatusRight(id)')
    BY <1>1, <1>2, <1>3, CaughtTruth
  <1> QED
    BY <1>4 DEF Delivered, StatusCaught, AboutStatus

\* A status packet speaks of exactly the contacts it is made for, and tells
\* what a contact of that book is held to show.
LEMMA StatusPacketSpeaks ==
    ASSUME NEW book, NEW ids \in SUBSET Ids, \A x \in ids : book[x] \in ContactInfo,
           NEW id \in Ids, NEW p,
           p = [type |-> "ContactStatus", statuses |-> Entries(book, ids)]
    PROVE  /\ Speaks(p, id) <=> id \in ids
           /\ id \in ids => Told(p, id) = IF IsOnline(book[id]) THEN StatusOf(book[id]) ELSE Absent
  <1>1. id \in ids => StatusOf(book[id]) \in Status /\ StatusOf(book[id]) # Absent
    BY ContactOperations, SessionAssumption DEF Availability
  <1>2. p.type = "ContactStatus" /\ p.statuses[id] = IF id \in ids THEN StatusOf(book[id]) ELSE Absent
    BY DEF Entries
  <1>3. Speaks(p, id) <=> id \in ids
    BY <1>1, <1>2 DEF Speaks
  <1>4. id \in ids => StatusOf(book[id]).availability = book[id].availability
    BY DEF StatusOf
  <1> QED
    BY <1>2, <1>3, <1>4 DEF Told, IsOnline

\* Every handler keeps the status of a contact replicated.
LEMMA StatusHandled ==
    ASSUME TypeOK, TypeOK', NEW id \in Ids, StatusCaught(id), Handle
    PROVE  StatusCaught(id)'
  <1>1. picture' = picture /\ HandlerStep
    BY HandlePicture, HandlerSteps
  <1>2. contacts'[id] = contacts[id] => HeldStatus(id)' = HeldStatus(id)
    BY DEF HeldStatus, IsContact
  <1>3. CASE QuietStep
    <2> PICK packets \in Seq(Packet) :
          /\ \A i \in 1 .. Len(packets) : Quiet(packets[i])
          /\ Delivered(packets)
      BY <1>3 DEF QuietStep
    <2>1. \A i \in 1 .. Len(packets) : ~Speaks(packets[i], id)
      BY DEF Quiet, Speaks
    <2>2. HeldStatus(id)' = HeldStatus(id)
      BY <1>2, <1>3 DEF QuietStep
    <2> QED
      BY <1>1, <2>1, <2>2, StatusQuiet
  <1>4. CASE Answer(<<ClientProfile(contacts, blocked)>>)
    <2>1. ClientProfile(contacts, blocked) \in Packet
      BY ProfilePacket DEF TypeOK
    <2>2. PICK packets \in Seq(Packet) :
            Delivered(packets) /\ Len(packets) = 1 /\ packets[1] = ClientProfile(contacts, blocked)
      BY <1>4, <2>1, OneReply DEF Answer
    <2>3. \A i \in 1 .. Len(packets) : ~Speaks(packets[i], id)
      BY <2>2 DEF ClientProfile, Speaks
    <2>4. HeldStatus(id)' = HeldStatus(id)
      BY <1>2, <1>4 DEF Answer
    <2> QED
      BY <1>1, <2>2, <2>3, <2>4, StatusQuiet
  <1>5. ASSUME NEW x \in Ids, NEW group \in GroupName, ~IsContact(x),
               OnAddRequestPending(x, group)
        PROVE  StatusCaught(id)'
    <2>1. PICK packets \in Seq(Packet) :
            /\ Delivered(packets)
            /\ Len(packets) \in {2, 3}
            /\ packets[1] = AddContactRequestResult(x, group, "AddPending")
            /\ packets[2] = ClientProfile(contacts', blocked)
            /\ Len(packets) = 3 => packets[3] = Notice("AddContactRequest", x)
      BY <1>5, AddReply
    <2>2. \A i \in 1 .. Len(packets) : ~Speaks(packets[i], id)
      BY <2>1 DEF AddContactRequestResult, ClientProfile, Notice, Speaks
    <2>3. HeldStatus(id)' = HeldStatus(id)
      <3>1. CASE id = x
        BY <1>5, <3>1
           DEF HeldStatus, IsContact, IsOnline, OnAddRequestPending, AddPendingContact, TypeOK
      <3>2. CASE id # x
        BY <1>2, <1>5, <3>2 DEF OnAddRequestPending, AddPendingContact, TypeOK
      <3> QED
        BY <3>1, <3>2
    <2> QED
      BY <1>1, <2>1, <2>2, <2>3, StatusQuiet
  <1>6. ASSUME NEW x \in Ids, OnContactRemoved(x)
        PROVE  StatusCaught(id)'
    <2>1. PICK packets \in Seq(Packet) :
            /\ Delivered(packets)
            /\ Len(packets) = 2
            /\ packets[1] = ContactRemoved(x, "Success")
            /\ packets[2] = ClientProfile(contacts', blocked)
      BY <1>6, RemoveReply
    <2>2. ~Speaks(packets[2], id) /\ (Speaks(packets[1], id) <=> x = id)
      BY <2>1 DEF ContactRemoved, ClientProfile, Speaks
    <2>3. CASE x = id
      <3>1. Told(packets[1], id) = HeldStatus(id)'
        BY <1>6, <2>1, <2>3
           DEF ContactRemoved, Told, HeldStatus, IsContact, OnContactRemoved, EraseContact, TypeOK
      <3>2. \A i \in 1 + 1 .. Len(packets) : ~Speaks(packets[i], id)
        BY <2>1, <2>2
      <3>3. 1 \in 1 .. Len(packets) /\ Speaks(packets[1], id)
        BY <2>1, <2>2, <2>3
      <3> QED
        BY <2>1, <3>1, <3>2, <3>3, StatusTruth
    <2>4. CASE x # id
      <3>1. \A i \in 1 .. Len(packets) : ~Speaks(packets[i], id)
        BY <2>1, <2>2, <2>4
      <3>2. HeldStatus(id)' = HeldStatus(id)
        BY <1>2, <1>6, <2>4 DEF OnContactRemoved, EraseContact, TypeOK
      <3> QED
        BY <1>1, <2>1, <3>1, <3>2, StatusQuiet
    <2> QED
      BY <2>3, <2>4
  <1>7. ASSUME NEW current \in GroupName, NEW new \in GroupName, OnGroupRenamed(current, new)
        PROVE  StatusCaught(id)'
    <2>1. PICK packets \in Seq(Packet) :
            /\ Delivered(packets)
            /\ Len(packets) = 2
            /\ packets[1] = ContactGroupRenamed(new, current)
            /\ packets[2] = ClientProfile(contacts', blocked)
      BY <1>7, RenameReply
    <2>2. \A i \in 1 .. Len(packets) : ~Speaks(packets[i], id)
      BY <2>1 DEF ContactGroupRenamed, ClientProfile, Speaks
    <2>3. HeldStatus(id)' = HeldStatus(id)
      <3>1. CASE contacts[id] = Absent
        BY <1>2, <1>7, <3>1 DEF OnGroupRenamed, RenameGroup, IsContact
      <3>2. CASE contacts[id] # Absent
        <4>1. contacts[id] \in ContactInfo /\ contacts' = RenameGroup(current, new)
          BY <1>7, <3>2 DEF TypeOK, OnGroupRenamed
        <4>2. /\ contacts'[id] # Absent
              /\ contacts'[id].availability = contacts[id].availability
              /\ contacts'[id].isBusy = contacts[id].isBusy
              /\ contacts'[id].customMessage = contacts[id].customMessage
          <5>1. contacts'[id] \in ContactInfo
            BY <4>1, <3>2 DEF RenameGroup, ContactInfo, IsContact
          <5> QED
            BY <4>1, <5>1, SessionAssumption DEF RenameGroup, ContactInfo
        <4> QED
          BY <3>2, <4>2 DEF HeldStatus, IsContact, IsOnline, StatusOf
      <3> QED
        BY <3>1, <3>2
    <2> QED
      BY <1>1, <2>1, <2>2, <2>3, StatusQuiet
  <1>8. ASSUME NEW x \in Ids, OnBlocked(x) \/ OnUnblocked(x)
        PROVE  StatusCaught(id)'
    <2>1. PICK p \in Packet :
            Reply(<<p>>) /\ p.type \in {"ContactBlocked", "ContactUnblocked"}
      BY <1>8, ReplyPackets, SessionAssumption
         DEF OnBlocked, OnUnblocked, ContactBlocked, ContactUnblocked
    <2>2. PICK packets \in Seq(Packet) : Delivered(packets) /\ Len(packets) = 1 /\ packets[1] = p
      BY <2>1, OneReply
    <2>3. \A i \in 1 .. Len(packets) : ~Speaks(packets[i], id)
      BY <2>1, <2>2 DEF Speaks
    <2>4. HeldStatus(id)' = HeldStatus(id)
      BY <1>2, <1>8 DEF OnBlocked, OnUnblocked
    <2> QED
      BY <1>1, <2>2, <2>3, <2>4, StatusQuiet
  <1>9. CASE PresenceStep
    <2> PICK properties \in PresenceProperties, changed \in [OwnContacts -> ContactInfo],
             packets \in Seq(Packet) : PresenceStepTo(properties, changed, packets)
      BY <1>9 DEF PresenceStep
    <2>1. Delivered(packets) /\ PresencePackets(properties, changed, packets)
      BY PresenceReply
    <2>2. contacts'[id] = IF id \in OwnContacts THEN changed[id] ELSE contacts[id]
      BY DEF PresenceStepTo, SetPresence
    <2>3. OwnContacts \in SUBSET Ids /\ \A x \in OwnContacts : changed[x] \in ContactInfo
      BY OwnContactsTypes
    <2>4. \A i \in 1 .. Len(packets) : i = 1 /\ (Speaks(packets[i], id) <=> id \in OwnContacts)
      <3>1. CASE properties.availability = "Invisible" /\ Len(packets) = 1
        <4>1. packets[1] = [type |-> "ContactOffline", ids |-> OwnContacts]
          BY <2>1, <3>1 DEF PresencePackets
        <4>2. Speaks(packets[1], id) <=> id \in OwnContacts
          BY <4>1 DEF Speaks
        <4> QED
          BY <3>1, <4>2
      <3>2. CASE properties.availability # "Invisible" /\ Len(packets) = 1
        <4>1. packets[1] = [type |-> "ContactStatus", statuses |-> Entries(changed, OwnContacts)]
          BY <2>1, <3>2 DEF PresencePackets
        <4>2. Speaks(packets[1], id) <=> id \in OwnContacts
          BY <2>3, <4>1, StatusPacketSpeaks
        <4> QED
          BY <3>2, <4>2
      <3>3. CASE Len(packets) # 1
        BY <2>1, <3>3 DEF PresencePackets
      <3> QED
        BY <3>1, <3>2, <3>3
    <2>5. CASE id \notin OwnContacts
      <3>1. \A i \in 1 .. Len(packets) : ~Speaks(packets[i], id)
        BY <2>4, <2>5
      <3>2. HeldStatus(id)' = HeldStatus(id)
        BY <1>2, <2>2, <2>5
      <3> QED
        BY <1>1, <2>1, <3>1, <3>2, StatusQuiet
    <2>6. CASE id \in OwnContacts
      <3>1. Len(packets) = 1 /\ 1 \in 1 .. Len(packets)
        BY <2>1, <2>6 DEF PresencePackets
      <3>2. HeldStatus(id)' = IF IsOnline(changed[id]) THEN StatusOf(changed[id]) ELSE Absent
        BY <2>2, <2>3, <2>6, SessionAssumption DEF HeldStatus, IsContact
      <3>3. Told(packets[1], id) = HeldStatus(id)'
        <4>1. CASE properties.availability = "Invisible"
          <5>1. changed[id].availability = "Offline"
            BY <2>6, <4>1 DEF PresenceStepTo
          <5> QED
            BY <2>1, <3>1, <3>2, <4>1, <5>1 DEF PresencePackets, Told, IsOnline
        <4>2. CASE properties.availability # "Invisible"
          <5>1. packets[1] = [type |-> "ContactStatus", statuses |-> Entries(changed, OwnContacts)]
            BY <2>1, <3>1, <4>2 DEF PresencePackets
          <5> QED
            BY <2>3, <2>6, <3>2, <5>1, StatusPacketSpeaks
        <4> QED
          BY <4>1, <4>2
      <3>4. Speaks(packets[1], id) /\ \A i \in 1 + 1 .. Len(packets) : ~Speaks(packets[i], id)
        BY <2>4, <2>6, <3>1
      <3> QED
        BY <2>1, <3>1, <3>3, <3>4, StatusTruth
    <2> QED
      BY <2>5, <2>6
  <1> QED
    BY <1>1, <1>3, <1>4, <1>5, <1>6, <1>7, <1>8, <1>9 DEF HandlerStep

\* The login announces the contacts that are online.
LEMMA StatusInit == Init => StatusReplicated
  <1> SUFFICES ASSUME Init, NEW id \in Ids
               PROVE  StatusCaught(id)
    BY InitTypes, StatusesCaught
  <1>1. /\ downstream = BeginSession(contacts, blocked) /\ TypeOK
        /\ picture = EmptyPicture
    BY InitTypes DEF Init
  <1>2. /\ Len(downstream) = 3
        /\ \A i \in 1 .. 3 : downstream[i] \in Packet
        /\ downstream[1].type = "ClientProfile"
        /\ downstream[2] = [type |-> "ContactStatus",
                            statuses |-> Entries(contacts, Online(contacts))]
        /\ downstream[3].type = "PingConfiguration"
    BY <1>1 DEF BeginSession, ClientProfile, TypeOK
  <1>3. ~Speaks(downstream[1], id) /\ ~Speaks(downstream[3], id)
    BY <1>2 DEF Speaks
  <1>4. \A x \in Online(contacts) : x \in Ids /\ contacts[x] \in ContactInfo
    BY <1>1 DEF Online, Listed, TypeOK
  <1>5. Online(contacts) \in SUBSET Ids
    BY <1>4
  <1>6. /\ Speaks(downstream[2], id) <=> id \in Online(contacts)
        /\ id \in Online(contacts) =>
             Told(downstream[2], id) = IF IsOnline(contacts[id])
                                       THEN StatusOf(contacts[id]) ELSE Absent
    BY <1>2, <1>4, <1>5, StatusPacketSpeaks
  <1>7. CASE id \in Online(contacts)
    <2>1. Speaks(downstream[2], id) /\ Told(downstream[2], id) = HeldStatus(id)
      BY <1>6, <1>7 DEF HeldStatus, IsContact, Online, Listed
    <2>2. downstream[2] \in TrueStatus(id)
      BY <1>2, <2>1 DEF TrueStatus
    <2>3. \A j \in 2 + 1 .. Len(downstream) : downstream[j] \notin AboutStatus(id)
      BY <1>2, <1>3 DEF AboutStatus
    <2> QED
      BY <1>2, <2>2, <2>3 DEF StatusCaught, Caught
  <1>8. CASE id \notin Online(contacts)
    <2>1. \A i \in 1 .. Len(downstream) : downstream[i] \notin AboutStatus(id)
      BY <1>2, <1>3, <1>6, <1>8 DEF AboutStatus
    <2>2. StatusRight(id)
      BY <1>1, <1>8
         DEF StatusRight, EmptyPicture, Nothing, HeldStatus, Online, Listed, IsContact
    <2> QED
      BY <2>1, <2>2 DEF StatusCaught, Caught
  <1> QED
    BY <1>7, <1>8

\* Every step keeps the statuses replicated.
LEMMA StatusNext ==
    TypeOK /\ TypeOK' /\ StatusReplicated /\ [Next]_vars => StatusReplicated'
  <1> SUFFICES ASSUME TypeOK, TypeOK', StatusReplicated, [Next]_vars
               PROVE  StatusReplicated'
    OBVIOUS
  <1>1. CASE UNCHANGED <<contacts, process, downstream, picture>>
    BY <1>1 DEF StatusReplicated, HeldStatus, IsContact
  <1>2. CASE Handle \/ Read
    <2>1. \A id \in Ids : StatusCaught(id)
      BY StatusesCaught
    <2>2. (\A id \in Ids : StatusCaught(id))'
      BY <1>2, <2>1, StatusHandled, StatusRead
    <2> QED
      BY <2>2, StatusesCaught, PTL
  <1> QED
    BY <1>1, <1>2 DEF Next, Ask, vars

\* The statuses the messenger shows are ContactManager's, up to the packets
\* in flight, although no profile ever carries one: every change of status
\* and every removal sends its own packet, and an added contact starts out
\* with the status a removed one left behind.
THEOREM StatusIsReplicated == Spec => []StatusReplicated
  BY StatusInit, StatusNext, TypeCorrect, PTL DEF Spec

-----------------------------------------------------------------------------
(* Statuses reach a messenger that lists the contact.                      *)

\* At place k of a queue, what was the case before or has been told since
\* has not been taken back.
Covered(queue, k, tells, revokes, before) ==
    \/ before /\ \A j \in 1 .. k - 1 : queue[j] \notin revokes
    \/ \E i \in 1 .. k - 1 :
          queue[i] \in tells /\ \A j \in i + 1 .. k - 1 : queue[j] \notin revokes

\* Every packet that relies on it comes when it is so.
AllCovered(queue, relies, tells, revokes, before) ==
    \A k \in 1 .. Len(queue) :
        queue[k] \in relies => Covered(queue, k, tells, revokes, before)

\* Reading a packet.
LEMMA AllCoveredTail ==
    ASSUME NEW S, NEW queue \in Seq(S), NEW relies, NEW tells, NEW revokes,
           NEW before \in BOOLEAN, NEW next \in BOOLEAN,
           AllCovered(queue, relies, tells, revokes, before), queue # <<>>,
           Head(queue) \in tells => next,
           Head(queue) \notin revokes /\ before => next
    PROVE  AllCovered(Tail(queue), relies, tells, revokes, next)
  <1> DEFINE rest == Tail(queue)
  <1>1. /\ Len(queue) \in Nat \ {0} /\ Len(rest) = Len(queue) - 1
        /\ \A i \in 1 .. Len(queue) - 1 : rest[i] = queue[i + 1]
        /\ Head(queue) = queue[1]
    OBVIOUS
  <1> HIDE DEF rest
  <1> SUFFICES ASSUME NEW k \in 1 .. Len(rest), rest[k] \in relies
               PROVE  Covered(rest, k, tells, revokes, next)
    BY DEF AllCovered, rest
  <1>2. k + 1 \in 1 .. Len(queue) /\ queue[k + 1] \in relies /\ k \in Nat \ {0}
    BY <1>1
  <1>3. Covered(queue, k + 1, tells, revokes, before)
    BY <1>2 DEF AllCovered
  <1>4. CASE before /\ \A j \in 1 .. (k + 1) - 1 : queue[j] \notin revokes
    <2>1. next
      <3>1. Head(queue) \notin revokes
        BY <1>1, <1>2, <1>4
      <3> QED
        BY <1>4, <3>1, Zenon
    <2>2. \A j \in 1 .. k - 1 : rest[j] \notin revokes
      <3> TAKE j \in 1 .. k - 1
      <3>1. j \in 1 .. Len(queue) - 1 /\ j + 1 \in 1 .. (k + 1) - 1
        BY <1>1, <1>2
      <3> QED
        BY <1>1, <1>4, <3>1
    <2> QED
      BY <2>1, <2>2 DEF Covered
  <1>5. ASSUME NEW i \in 1 .. (k + 1) - 1, queue[i] \in tells,
               \A j \in i + 1 .. (k + 1) - 1 : queue[j] \notin revokes
        PROVE  Covered(rest, k, tells, revokes, next)
    <2>1. \A j \in i .. k - 1 : j \in Int /\ j >= 1 => rest[j] \notin revokes
      <3> TAKE j \in i .. k - 1
      <3>1. j \in 1 .. Len(queue) - 1 /\ j + 1 \in i + 1 .. (k + 1) - 1
        BY <1>1, <1>2
      <3> QED
        BY <1>1, <1>5, <3>1
    <2>2. CASE i = 1
      <3>1. next
        BY <1>1, <1>5, <2>2
      <3>2. \A j \in 1 .. k - 1 : rest[j] \notin revokes
        BY <2>1, <2>2
      <3> QED
        BY <3>1, <3>2 DEF Covered
    <2>3. CASE i # 1
      <3>1. i - 1 \in 1 .. k - 1 /\ i - 1 \in 1 .. Len(queue) - 1 /\ (i - 1) + 1 = i
        BY <1>1, <1>2, <2>3
      <3>2. rest[i - 1] \in tells
        BY <1>1, <1>5, <3>1
      <3>3. \A j \in (i - 1) + 1 .. k - 1 : rest[j] \notin revokes
        BY <2>1, <3>1
      <3> QED
        BY <3>1, <3>2, <3>3 DEF Covered
    <2> QED
      BY <2>2, <2>3
  <1> QED
    BY <1>3, <1>4, <1>5 DEF Covered

\* What is sent behind a place of the queue does not concern it.
LEMMA CoveredConcat ==
    ASSUME NEW S, NEW queue \in Seq(S), NEW packets \in Seq(S), NEW tells, NEW revokes,
           NEW before, NEW k \in 1 .. Len(queue) + 1,
           Covered(queue, k, tells, revokes, before)
    PROVE  Covered(queue \o packets, k, tells, revokes, before)
  <1>1. \A j \in 1 .. k - 1 : (queue \o packets)[j] = queue[j]
    BY Concatenation
  <1>2. CASE before /\ \A j \in 1 .. k - 1 : queue[j] \notin revokes
    BY <1>1, <1>2 DEF Covered
  <1>3. ASSUME NEW i \in 1 .. k - 1, queue[i] \in tells,
               \A j \in i + 1 .. k - 1 : queue[j] \notin revokes
        PROVE  Covered(queue \o packets, k, tells, revokes, before)
    <2>1. \A j \in i + 1 .. k - 1 : j \in 1 .. k - 1
      OBVIOUS
    <2>2. \A j \in i + 1 .. k - 1 : (queue \o packets)[j] \notin revokes
      BY <1>1, <1>3, <2>1
    <2> QED
      BY <1>1, <1>3, <2>2 DEF Covered
  <1> QED
    BY <1>2, <1>3 DEF Covered

\* Sending packets of which only the first may rely on it, and does so when
\* it is the case.
LEMMA AllCoveredConcat ==
    ASSUME NEW S, NEW queue \in Seq(S), NEW packets \in Seq(S), NEW relies, NEW tells,
           NEW revokes, NEW before,
           AllCovered(queue, relies, tells, revokes, before),
           \A i \in 2 .. Len(packets) : packets[i] \notin relies,
           Len(packets) > 0 /\ packets[1] \in relies =>
               Covered(queue, Len(queue) + 1, tells, revokes, before)
    PROVE  AllCovered(queue \o packets, relies, tells, revokes, before)
  <1> DEFINE all == queue \o packets
  <1>1. /\ Len(all) = Len(queue) + Len(packets) /\ Len(queue) \in Nat /\ Len(packets) \in Nat
        /\ \A i \in 1 .. Len(queue) : all[i] = queue[i]
        /\ \A i \in Len(queue) + 1 .. Len(queue) + Len(packets) : all[i] = packets[i - Len(queue)]
    BY Concatenation
  <1> HIDE DEF all
  <1> SUFFICES ASSUME NEW k \in 1 .. Len(all), all[k] \in relies
               PROVE  Covered(all, k, tells, revokes, before)
    BY DEF AllCovered, all
  <1>2. CASE k \in 1 .. Len(queue)
    <2>1. Covered(queue, k, tells, revokes, before) /\ k \in 1 .. Len(queue) + 1
      BY <1>1, <1>2 DEF AllCovered
    <2> QED
      BY <2>1, CoveredConcat DEF all
  <1>3. CASE k \notin 1 .. Len(queue)
    <2>1. /\ k - Len(queue) \in 1 .. Len(packets)
          /\ packets[k - Len(queue)] \in relies
      BY <1>1, <1>3
    <2>2. k - Len(queue) = 1
      BY <1>1, <2>1
    <2>3. k = Len(queue) + 1 /\ Len(packets) > 0 /\ packets[1] \in relies
      BY <1>1, <2>1, <2>2
    <2>4. Covered(queue, k, tells, revokes, before) /\ k \in 1 .. Len(queue) + 1
      BY <1>1, <2>3
    <2> QED
      BY <2>4, CoveredConcat DEF all
  <1> QED
    BY <1>2, <1>3

ShowsContact(id) ==
    {p \in Packet : \/ p.type = "ContactStatus" /\ p.statuses[id] # Absent
                    \/ p.type = "ContactOffline" /\ id \in p.ids}
ListsContact(id) == {p \in Packet : p.type = "ClientProfile" /\ p.contactList[id] # Absent}
DropsContact(id) ==
    {p \in Packet : \/ p.type = "ClientProfile" /\ p.contactList[id] = Absent
                    \/ p.type = "ContactRemoved" /\ p.status = "Success" /\ p.contactId = id}
IsListed(id) == picture.contactList[id] # Absent

\* The strengthening: not only the next packet, every packet in flight finds
\* its contact in the list when its turn comes.
ShownWhenListed(id) ==
    AllCovered(downstream, ShowsContact(id), ListsContact(id), DropsContact(id), IsListed(id))

LEMMA ShownWhenListedImplies ==
    ASSUME TypeOK, \A id \in Ids : ShownWhenListed(id)
    PROVE  StatusOnlyForListed
  <1> SUFFICES ASSUME downstream # <<>>, NEW id \in Ids, Head(downstream) \in ShowsContact(id)
               PROVE  picture.contactList[id] # Absent
    <2>1. downstream # <<>> => Head(downstream) \in Packet
      BY DEF TypeOK
    <2> QED
      BY <2>1, PacketFields DEF StatusOnlyForListed, ShowsContact, Listed
  <1>1. 1 \in 1 .. Len(downstream) /\ Head(downstream) = downstream[1]
    BY DEF TypeOK
  <1>2. Covered(downstream, 1, ListsContact(id), DropsContact(id), IsListed(id))
    BY <1>1 DEF ShownWhenListed, AllCovered
  <1> QED
    BY <1>2 DEF Covered, IsListed

\* Reading a packet.
LEMMA ShownRead ==
    ASSUME TypeOK, TypeOK', NEW id \in Ids, ShownWhenListed(id), Read
    PROVE  ShownWhenListed(id)'
  <1> DEFINE p == Head(downstream)
  <1>1. /\ downstream \in Seq(Packet) /\ downstream # <<>> /\ p \in Packet
        /\ downstream' = Tail(downstream)
        /\ picture'.contactList = Learn(p).contactList
    BY DEF TypeOK, Read
  <1>2. p \in ListsContact(id) => IsListed(id)'
    BY <1>1 DEF ListsContact, IsListed, Learn
  <1>3. p \notin DropsContact(id) /\ IsListed(id) => IsListed(id)'
    <2> SUFFICES ASSUME p \notin DropsContact(id), picture.contactList[id] # Absent
                 PROVE  Learn(p).contactList[id] # Absent
      BY <1>1 DEF IsListed
    <2>1. CASE p.type = "ClientProfile"
      BY <1>1, <2>1 DEF DropsContact, Learn
    <2>2. CASE p.type = "ContactRemoved" /\ p.status = "Success"
      <3>1. p.contactId # id
        BY <1>1, <2>2 DEF DropsContact
      <3> QED
        BY <2>2, <3>1 DEF Learn, TypeOK
    <2>3. CASE p.type = "ContactGroupRenamed"
      <3>1. p.newGroup \in GroupName /\ Absent \notin GroupName
        BY <1>1, <2>3, PacketFields, SessionAssumption
      <3> QED
        BY <2>3, <3>1 DEF Learn
    <2>4. CASE /\ p.type \notin {"ClientProfile", "ContactGroupRenamed"}
               /\ ~(p.type = "ContactRemoved" /\ p.status = "Success")
      BY <2>4 DEF Learn
    <2> QED
      BY <2>1, <2>2, <2>3, <2>4
  <1>4. IsListed(id) \in BOOLEAN /\ IsListed(id)' \in BOOLEAN
    BY DEF IsListed
  <1> HIDE DEF p
  <1>5. AllCovered(Tail(downstream), ShowsContact(id), ListsContact(id), DropsContact(id),
                   IsListed(id)')
    BY <1>1, <1>2, <1>3, <1>4, AllCoveredTail DEF ShownWhenListed, p
  <1> QED
    BY <1>1, <1>5 DEF ShownWhenListed, ShowsContact, ListsContact, DropsContact

\* Sending packets that show no contact.
LEMMA ShownQuiet ==
    ASSUME TypeOK, NEW id \in Ids, ShownWhenListed(id), picture' = picture,
           NEW packets \in Seq(Packet), Delivered(packets),
           \A i \in 1 .. Len(packets) : packets[i].type \notin {"ContactStatus", "ContactOffline"}
    PROVE  ShownWhenListed(id)'
  <1> PICK sent \in Seq(Packet) :
        /\ downstream' = downstream \o sent
        /\ \A i \in 1 .. Len(sent) : i \in 1 .. Len(packets) /\ sent[i] = packets[i]
    BY DeliveredPart
  <1>1. downstream \in Seq(Packet) /\ downstream' = downstream \o sent /\ Len(sent) \in Nat
    BY DEF TypeOK
  <1>2. \A i \in 1 .. Len(sent) : sent[i] \notin ShowsContact(id)
    BY DEF ShowsContact
  <1>3. \A i \in 2 .. Len(sent) : sent[i] \notin ShowsContact(id)
    BY <1>1, <1>2
  <1>4. ~(Len(sent) > 0 /\ sent[1] \in ShowsContact(id))
    BY <1>1, <1>2
  <1>5. AllCovered(downstream \o sent, ShowsContact(id), ListsContact(id), DropsContact(id),
                   IsListed(id))
    BY <1>1, <1>3, <1>4, AllCoveredConcat DEF ShownWhenListed
  <1> QED
    BY <1>1, <1>5 DEF ShownWhenListed, IsListed, ShowsContact, ListsContact, DropsContact

\* At the end of the queue the messenger will list whoever is a contact now.
LEMMA ContactsCovered ==
    ASSUME TypeOK, ContactListReplicated, process = "running", NEW id \in Ids, IsContact(id)
    PROVE  Covered(downstream, Len(downstream) + 1, ListsContact(id), DropsContact(id), IsListed(id))
  <1>1. GroupOf(contacts)[id] # Absent
    BY SessionAssumption DEF GroupOf, IsContact, TypeOK, ContactInfo
  <1>2. /\ DOMAIN downstream = 1 .. Len(downstream) /\ Len(downstream) \in Nat
        /\ \A i \in 1 .. Len(downstream) : downstream[i] \in Packet
    BY DEF TypeOK
  <1>3. \A i \in 1 .. Len(downstream) :
          downstream[i] \in DropsContact(id) => ChangesList(downstream[i])
    BY DEF DropsContact, ChangesList
  <1>4. CASE /\ \A i \in DOMAIN downstream : ~ChangesList(downstream[i])
             /\ picture.contactList = GroupOf(contacts)
    <2>1. IsListed(id) /\ \A j \in 1 .. (Len(downstream) + 1) - 1 : downstream[j] \notin DropsContact(id)
      BY <1>1, <1>2, <1>3, <1>4 DEF IsListed
    <2> QED
      BY <2>1 DEF Covered
  <1>5. ASSUME NEW i \in DOMAIN downstream,
               downstream[i].type = "ClientProfile",
               downstream[i].contactList = GroupOf(contacts),
               \A j \in i + 1 .. Len(downstream) : ~ChangesList(downstream[j])
        PROVE  Covered(downstream, Len(downstream) + 1, ListsContact(id), DropsContact(id), IsListed(id))
    <2>1. i \in 1 .. (Len(downstream) + 1) - 1 /\ downstream[i] \in ListsContact(id)
      BY <1>1, <1>2, <1>5 DEF ListsContact
    <2>2. \A j \in i + 1 .. (Len(downstream) + 1) - 1 :
            j \in 1 .. Len(downstream) /\ j \in i + 1 .. Len(downstream)
      BY <1>2
    <2>3. \A j \in i + 1 .. (Len(downstream) + 1) - 1 : downstream[j] \notin DropsContact(id)
      BY <1>3, <1>5, <2>2
    <2> QED
      BY <2>1, <2>3 DEF Covered
  <1> QED
    BY <1>4, <1>5 DEF ContactListReplicated

\* Every handler shows contacts that are in the list.
LEMMA ShownHandled ==
    ASSUME TypeOK, TypeOK', ContactListReplicated, NEW id \in Ids, ShownWhenListed(id), Handle
    PROVE  ShownWhenListed(id)'
  <1>1. picture' = picture /\ process = "running" /\ HandlerStep
    BY HandlePicture, HandlerSteps
  <1>2. ASSUME NEW packets \in Seq(Packet), Delivered(packets),
               \A i \in 1 .. Len(packets) :
                   packets[i].type \notin {"ContactStatus", "ContactOffline"}
        PROVE  ShownWhenListed(id)'
    BY <1>1, <1>2, ShownQuiet
  <1>3. CASE QuietStep
    <2> PICK packets \in Seq(Packet) :
          /\ \A i \in 1 .. Len(packets) : Quiet(packets[i])
          /\ Delivered(packets)
      BY <1>3 DEF QuietStep
    <2>1. \A i \in 1 .. Len(packets) : packets[i].type \notin {"ContactStatus", "ContactOffline"}
      BY DEF Quiet
    <2> QED
      BY <1>2, <2>1
  <1>4. CASE Answer(<<ClientProfile(contacts, blocked)>>)
    <2>1. ClientProfile(contacts, blocked) \in Packet
      BY ProfilePacket DEF TypeOK
    <2>2. PICK packets \in Seq(Packet) :
            Delivered(packets) /\ Len(packets) = 1 /\ packets[1] = ClientProfile(contacts, blocked)
      BY <1>4, <2>1, OneReply DEF Answer
    <2>3. \A i \in 1 .. Len(packets) : packets[i].type \notin {"ContactStatus", "ContactOffline"}
      BY <2>2 DEF ClientProfile
    <2> QED
      BY <1>2, <2>2, <2>3
  <1>5. ASSUME NEW x \in Ids, NEW group \in GroupName, OnAddRequestPending(x, group)
        PROVE  ShownWhenListed(id)'
    <2>1. PICK packets \in Seq(Packet) :
            /\ Delivered(packets)
            /\ Len(packets) \in {2, 3}
            /\ packets[1] = AddContactRequestResult(x, group, "AddPending")
            /\ packets[2] = ClientProfile(contacts', blocked)
            /\ Len(packets) = 3 => packets[3] = Notice("AddContactRequest", x)
      BY <1>5, AddReply
    <2>2. \A i \in 1 .. Len(packets) : packets[i].type \notin {"ContactStatus", "ContactOffline"}
      BY <2>1 DEF AddContactRequestResult, ClientProfile, Notice
    <2> QED
      BY <1>2, <2>1, <2>2
  <1>6. ASSUME NEW x \in Ids, OnContactRemoved(x)
        PROVE  ShownWhenListed(id)'
    <2>1. PICK packets \in Seq(Packet) :
            /\ Delivered(packets)
            /\ Len(packets) = 2
            /\ packets[1] = ContactRemoved(x, "Success")
            /\ packets[2] = ClientProfile(contacts', blocked)
      BY <1>6, RemoveReply
    <2>2. \A i \in 1 .. Len(packets) : packets[i].type \notin {"ContactStatus", "ContactOffline"}
      BY <2>1 DEF ContactRemoved, ClientProfile
    <2> QED
      BY <1>2, <2>1, <2>2
  <1>7. ASSUME NEW current \in GroupName, NEW new \in GroupName, OnGroupRenamed(current, new)
        PROVE  ShownWhenListed(id)'
    <2>1. PICK packets \in Seq(Packet) :
            /\ Delivered(packets)
            /\ Len(packets) = 2
            /\ packets[1] = ContactGroupRenamed(new, current)
            /\ packets[2] = ClientProfile(contacts', blocked)
      BY <1>7, RenameReply
    <2>2. \A i \in 1 .. Len(packets) : packets[i].type \notin {"ContactStatus", "ContactOffline"}
      BY <2>1 DEF ContactGroupRenamed, ClientProfile
    <2> QED
      BY <1>2, <2>1, <2>2
  <1>8. ASSUME NEW x \in Ids, OnBlocked(x) \/ OnUnblocked(x)
        PROVE  ShownWhenListed(id)'
    <2>1. PICK p \in Packet :
            Reply(<<p>>) /\ p.type \in {"ContactBlocked", "ContactUnblocked"}
      BY <1>8, ReplyPackets, SessionAssumption
         DEF OnBlocked, OnUnblocked, ContactBlocked, ContactUnblocked
    <2>2. PICK packets \in Seq(Packet) : Delivered(packets) /\ Len(packets) = 1 /\ packets[1] = p
      BY <2>1, OneReply
    <2>3. \A i \in 1 .. Len(packets) : packets[i].type \notin {"ContactStatus", "ContactOffline"}
      BY <2>1, <2>2
    <2> QED
      BY <1>2, <2>2, <2>3
  <1>9. CASE PresenceStep
    <2> PICK properties \in PresenceProperties, changed \in [OwnContacts -> ContactInfo],
             packets \in Seq(Packet) : PresenceStepTo(properties, changed, packets)
      BY <1>9 DEF PresenceStep
    <2>1. Delivered(packets) /\ PresencePackets(properties, changed, packets)
      BY PresenceReply
    <2> PICK sent \in Seq(Packet) :
          /\ downstream' = downstream \o sent
          /\ \A i \in 1 .. Len(sent) : i \in 1 .. Len(packets) /\ sent[i] = packets[i]
      BY <2>1, DeliveredPart
    <2>2. Len(packets) \in {0, 1}
      BY <2>1 DEF PresencePackets
    <2>3. \A i \in 2 .. Len(sent) : sent[i] \notin ShowsContact(id)
      BY <2>2
    <2>4. ASSUME Len(sent) > 0, sent[1] \in ShowsContact(id)
          PROVE  Covered(downstream, Len(downstream) + 1, ListsContact(id), DropsContact(id),
                         IsListed(id))
      <3>1. 1 \in 1 .. Len(sent)
        BY <2>4
      <3>2. 1 \in 1 .. Len(packets) /\ packets[1] \in ShowsContact(id)
        BY <2>4, <3>1
      <3>3. id \in OwnContacts
        BY <2>1, <3>2 DEF PresencePackets, ShowsContact, Entries
      <3> QED
        BY <1>1, <3>3, ContactsCovered DEF OwnContacts
    <2>5. downstream \in Seq(Packet) /\ downstream' = downstream \o sent
      BY DEF TypeOK
    <2>6. AllCovered(downstream \o sent, ShowsContact(id), ListsContact(id), DropsContact(id),
                     IsListed(id))
      BY <2>3, <2>4, <2>5, AllCoveredConcat DEF ShownWhenListed
    <2> QED
      BY <1>1, <2>5, <2>6
         DEF ShownWhenListed, IsListed, ShowsContact, ListsContact, DropsContact
  <1> QED
    BY <1>1, <1>3, <1>4, <1>5, <1>6, <1>7, <1>8, <1>9 DEF HandlerStep

\* No status reaches a messenger that does not list its contact: a status
\* that is sent is of someone in the server's list, and the messenger's list
\* follows the server's in the order in which the two are sent.
THEOREM StatusAlwaysForListed == Spec => []StatusOnlyForListed
  <1> DEFINE I == \A id \in Ids : ShownWhenListed(id)
  <1>1. Init => I
    <2> SUFFICES ASSUME Init, NEW id \in Ids
                 PROVE  ShownWhenListed(id)
      OBVIOUS
    <2>1. downstream = BeginSession(contacts, blocked) /\ TypeOK
      BY InitTypes DEF Init
    <2>2. /\ Len(downstream) = 3
          /\ \A i \in 1 .. 3 : downstream[i] \in Packet
          /\ downstream[1].type = "ClientProfile"
          /\ downstream[1].contactList = GroupOf(contacts)
          /\ downstream[2] = [type |-> "ContactStatus",
                              statuses |-> Entries(contacts, Online(contacts))]
          /\ downstream[3].type = "PingConfiguration"
      BY <2>1 DEF BeginSession, ClientProfile, TypeOK
    <2>3. ASSUME NEW k \in 1 .. Len(downstream), downstream[k] \in ShowsContact(id)
          PROVE  k = 2 /\ contacts[id] # Absent
      <3>1. k = 2
        BY <2>2, <2>3 DEF ShowsContact
      <3>2. id \in Online(contacts)
        BY <2>2, <2>3, <3>1 DEF ShowsContact, Entries
      <3> QED
        BY <3>1, <3>2 DEF Online, Listed
    <2>4. contacts[id] # Absent => downstream[1] \in ListsContact(id)
      <3>1. contacts[id] # Absent => GroupOf(contacts)[id] # Absent
        BY <2>1, SessionAssumption DEF GroupOf, TypeOK, ContactInfo
      <3> QED
        BY <2>2, <3>1 DEF ListsContact
    <2>5. ASSUME downstream[1] \in ListsContact(id)
          PROVE  Covered(downstream, 2, ListsContact(id), DropsContact(id), IsListed(id))
      BY <2>5 DEF Covered
    <2> QED
      BY <2>3, <2>4, <2>5 DEF ShownWhenListed, AllCovered
  <1>2. TypeOK /\ TypeOK' /\ ContactListReplicated /\ I /\ [Next]_vars => I'
    <2> SUFFICES ASSUME TypeOK, TypeOK', ContactListReplicated, I, [Next]_vars, NEW id \in Ids
                 PROVE  ShownWhenListed(id)'
      OBVIOUS
    <2>1. ShownWhenListed(id)
      OBVIOUS
    <2>2. CASE Handle
      BY <2>1, <2>2, ShownHandled
    <2>3. CASE Read
      BY <2>1, <2>3, ShownRead
    <2>4. CASE UNCHANGED <<downstream, picture>>
      BY <2>1, <2>4 DEF ShownWhenListed, IsListed, ShowsContact, ListsContact, DropsContact
    <2> QED
      BY <2>2, <2>3, <2>4 DEF Next, Ask, vars
  <1>3. TypeOK /\ I => StatusOnlyForListed
    BY ShownWhenListedImplies
  <1> HIDE DEF I
  <1> QED
    BY <1>1, <1>2, <1>3, TypeCorrect, ContactListIsReplicated, PTL DEF Spec
=============================================================================
