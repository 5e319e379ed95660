--------------------------- MODULE YMsgBridgeProofs ---------------------------
(***************************************************************************)
(* The session of the gloox back end, with presence coming in between the  *)
(* messenger's requests: what the messenger holds is still a replica that  *)
(* only lags, it ends up showing what each contact has published last, and *)
(* nothing but a stranger's presence makes a careful one's handlers throw. *)
(*                                                                         *)
(* A step of the session is one of YMsgSession, and its lemmas apply.  The *)
(* presence that arrives is one step more for every invariant, and the     *)
(* queue it comes through has the queue argument (Caught) once more, with  *)
(* the contact list as the replica and what is published as the truth.     *)
(***************************************************************************)
EXTENDS YMsgBridge, YMsgSessionStatusProofs

USE DEF ContactMap, GroupName, Message

-----------------------------------------------------------------------------
(* Handling a presence does one of three things.                           *)

\* What the operations of ContactManager leave and set.
LEMMA ContactFields ==
    ASSUME NEW c \in ContactInfo
    PROVE  /\ SetContactAvailable(c) \in ContactInfo
           /\ SetContactAvailable(c).group = c.group
           /\ SetContactAvailable(c).availability = "Available"
           /\ SetContactOffline(c) \in ContactInfo
           /\ SetContactOffline(c).group = c.group
           /\ SetContactOffline(c).availability = "Offline"
           /\ \A a \in Availability, b \in BOOLEAN :
                 /\ SetContactAway(c, a, b) \in ContactInfo
                 /\ SetContactAway(c, a, b).group = c.group
                 /\ SetContactAway(c, a, b).availability = a
           /\ \A m \in Message, b \in BOOLEAN :
                 /\ SetContactStatusMessage(c, m, b) \in ContactInfo
                 /\ SetContactStatusMessage(c, m, b).group = c.group
                 /\ SetContactStatusMessage(c, m, b).availability = "Custom"
                 /\ SetContactStatusMessage(c, m, b).customMessage = m
  <1>1. NoMessage \in Message /\ "Offline" \in Availability
    BY DEF Availability
  <1>2. SetContactAvailable(c) \in ContactInfo /\ SetContactOffline(c) \in ContactInfo
    BY <1>1, ContactOperations
  <1>3. \A a \in Availability, b \in BOOLEAN : SetContactAway(c, a, b) \in ContactInfo
    BY <1>1, ContactOperations
  <1>4. \A m \in Message, b \in BOOLEAN : SetContactStatusMessage(c, m, b) \in ContactInfo
    BY <1>1, ContactOperations
  <1> QED
    BY <1>2, <1>3, <1>4
       DEF ContactInfo, SetContactAvailable, SetContactAway, SetContactStatusMessage,
           SetContactOffline

\* A contact changed by a presence is a contact of the same group that is as
\* the presence says.
LEMMA ChangedContact ==
    ASSUME NEW c \in ContactInfo, NEW p \in Presence
    PROVE  /\ Changed(c, p) \in ContactInfo
           /\ Changed(c, p).group = c.group
           /\ Changed(c, p).availability = Shown(p)
           /\ Shown(p) = "Custom" => Changed(c, p).customMessage = p.status
  <1>1. /\ p.show \in {"Available", "Chat", "Away", "DND", "XA", "Unavailable", "Error"}
        /\ p.status \in Message
    BY DEF Presence
  <1>2. IsAwayOrBusy(p.show) \in BOOLEAN /\ IsBusyWhen(p.show) \in BOOLEAN
    BY DEF IsAwayOrBusy, IsBusyWhen
  <1>4. CASE p.status # NoMessage
    <2> PICK d : d = SetContactStatusMessage(c, p.status, IsAwayOrBusy(p.show))
      OBVIOUS
    <2>1. Changed(c, p) = d /\ Shown(p) = "Custom"
      BY <1>4 DEF Changed, Shown
    <2>2. /\ d \in ContactInfo /\ d.group = c.group
          /\ d.availability = "Custom" /\ d.customMessage = p.status
      BY <1>1, <1>2, ContactFields, ZenonT(40)
    <2> QED
      BY <2>1, <2>2
  <1>5. CASE p.status = NoMessage /\ p.show \in {"Available", "Chat"}
    <2> PICK d : d = SetContactAvailable(c)
      OBVIOUS
    <2>1. ~IsAwayOrBusy(p.show) /\ p.show \in AtHome
      BY <1>5 DEF IsAwayOrBusy, AtHome
    <2>2. Changed(c, p) = d
      BY <1>5, <2>1 DEF Changed
    <2>3. Shown(p) = "Available"
      BY <1>5 DEF Shown
    <2>4. d \in ContactInfo /\ d.group = c.group /\ d.availability = "Available"
      BY ContactFields, Zenon
    <2> QED
      BY <2>2, <2>3, <2>4
  <1>6. CASE p.status = NoMessage /\ p.show \in {"Away", "DND", "XA"}
    <2> PICK d : d = SetContactAway(c, AwayAs(p.show), IsBusyWhen(p.show))
      OBVIOUS
    <2>1. IsAwayOrBusy(p.show) /\ p.show \notin AtHome
      BY <1>6 DEF IsAwayOrBusy, AtHome
    <2>2. Changed(c, p) = d
      BY <1>6, <2>1 DEF Changed
    <2>3. Shown(p) = AwayAs(p.show) /\ AwayAs(p.show) \in Availability
          /\ AwayAs(p.show) # "Custom"
      BY <1>6 DEF Shown, AwayAs, Availability
    <2>4. d \in ContactInfo /\ d.group = c.group /\ d.availability = AwayAs(p.show)
      BY <1>2, <2>3, ContactFields, ZenonT(40)
    <2> QED
      BY <2>2, <2>3, <2>4
  <1>7. CASE p.status = NoMessage /\ p.show \in {"Unavailable", "Error"}
    <2> PICK d : d = SetContactOffline(c)
      OBVIOUS
    <2>1. ~IsAwayOrBusy(p.show) /\ p.show \notin AtHome
      BY <1>7 DEF IsAwayOrBusy, AtHome
    <2>2. Changed(c, p) = d /\ Shown(p) = "Offline"
      BY <1>7, <2>1 DEF Changed, Shown
    <2>3. d \in ContactInfo /\ d.group = c.group /\ d.availability = "Offline"
      BY ContactFields, Zenon
    <2> QED
      BY <2>2, <2>3
  <1> QED
    BY <1>1, <1>4, <1>5, <1>6, <1>7

\* Whoever a stanza is from has a bare id.
LEMMA SenderIsId == \A s \in Stanza : Sender(s) \in Ids
  BY BridgeAssumption DEF Sender, Stanza

\* The stanza s is handled, and nobody hears of it.
PassOver(s) ==
    /\ Ignored(s.presence)
    /\ UNCHANGED <<contacts, process, downstream, followed>>

\* It is from someone who is no contact.
Refuted(s) ==
    /\ ~Ignored(s.presence) /\ ~IsContact(Sender(s))
    /\ process' = "terminated"
    /\ UNCHANGED <<contacts, downstream, followed>>

\* It changes a contact, and the messenger is told.
Shows(s) ==
    /\ ~Ignored(s.presence) /\ IsContact(Sender(s))
    /\ contacts' = [contacts EXCEPT ![Sender(s)] = Changed(@, s.presence)]
    /\ Reply(Show(Sender(s)))
    /\ followed' = followed \cup {Sender(s)}

PresenceHandled(s) ==
    /\ s = Head(stanzas) /\ stanzas # <<>> /\ stanzas' = Tail(stanzas)
    /\ process = "running"
    /\ UNCHANGED <<blocked, presence, upstream, picture, published>>
    /\ PassOver(s) \/ Refuted(s) \/ Shows(s)

\* Handling the presence in front does one of the three.
LEMMA HandlePresenceStep ==
    ASSUME BridgeTypeOK, HandlePresence
    PROVE  \E s \in Stanza : PresenceHandled(s)
  <1>1. stanzas \in Seq(Stanza) /\ downstream \in Seq(Packet)
    BY DEF BridgeTypeOK, TypeOK
  <1>2. PICK s \in Stanza : s = Head(stanzas)
    BY <1>1 DEF HandlePresence
  <1>3. Reply(<<>>) => downstream' = downstream /\ process' = process
    BY <1>1 DEF Reply, Sends, Outgrows
  <1>4. /\ stanzas # <<>> /\ stanzas' = Tail(stanzas) /\ process = "running"
        /\ UNCHANGED <<upstream, picture, published>>
    BY DEF HandlePresence
  <1>5. \/ Ignored(s.presence) /\ Answer(<<>>) /\ UNCHANGED followed
        \/ ~Ignored(s.presence) /\ ~IsKnown(Sender(s)) /\ Throw /\ UNCHANGED followed
        \/ /\ ~Ignored(s.presence) /\ IsKnown(Sender(s))
           /\ contacts' = [contacts EXCEPT ![Sender(s)] = Changed(@, s.presence)]
           /\ Reply(Show(Sender(s)))
           /\ followed' = followed \cup {Sender(s)}
           /\ UNCHANGED <<blocked, presence>>
    BY <1>2 DEF HandlePresence
  <1>6. CASE Ignored(s.presence) /\ Answer(<<>>) /\ UNCHANGED followed
    BY <1>2, <1>3, <1>4, <1>6 DEF Answer, PresenceHandled, PassOver
  <1>7. CASE ~Ignored(s.presence) /\ ~IsKnown(Sender(s)) /\ Throw /\ UNCHANGED followed
    BY <1>2, <1>4, <1>7 DEF Throw, IsKnown, PresenceHandled, Refuted
  <1>8. CASE /\ ~Ignored(s.presence) /\ IsKnown(Sender(s))
             /\ contacts' = [contacts EXCEPT ![Sender(s)] = Changed(@, s.presence)]
             /\ Reply(Show(Sender(s)))
             /\ followed' = followed \cup {Sender(s)}
             /\ UNCHANGED <<blocked, presence>>
    BY <1>2, <1>4, <1>8 DEF IsKnown, PresenceHandled, Shows
  <1> QED
    BY <1>5, <1>6, <1>7, <1>8

\* The contact list after a presence that is shown.
LEMMA ShownContacts ==
    ASSUME TypeOK, NEW s \in Stanza, Shows(s)
    PROVE  /\ contacts' \in ContactMap(ContactInfo)
           /\ Sender(s) \in Ids /\ contacts[Sender(s)] \in ContactInfo
           /\ contacts'[Sender(s)] = Changed(contacts[Sender(s)], s.presence)
           /\ contacts'[Sender(s)] \in ContactInfo
           /\ \A id \in Ids : id # Sender(s) => contacts'[id] = contacts[id]
  <1>1. Sender(s) \in Ids /\ s.presence \in Presence
    BY SenderIsId DEF Stanza
  <1>2. contacts \in ContactMap(ContactInfo) /\ contacts[Sender(s)] \in ContactInfo
    BY <1>1 DEF TypeOK, Shows, IsContact
  <1>3. Changed(contacts[Sender(s)], s.presence) \in ContactInfo
    BY <1>1, <1>2, ChangedContact
  <1>4. contacts' = [contacts EXCEPT ![Sender(s)] = Changed(contacts[Sender(s)], s.presence)]
    BY DEF Shows
  <1> QED
    BY <1>1, <1>2, <1>3, <1>4

\* What is sent is a packet of the contact it changes.
LEMMA ShownReply ==
    ASSUME TypeOK, NEW s \in Stanza, Shows(s)
    PROVE  \E packets \in Seq(Packet) : Reply(packets)
  <1> PICK x \in Ids, book \in ContactMap(ContactInfo) : x = Sender(s) /\ book = contacts'
    BY ShownContacts
  <1>1. Reply(IF IsOnline(book[x]) THEN UpdateContactStatus(book, {x}) ELSE ContactOffline({x}))
    BY DEF Shows, Show
  <1>2. UpdateContactStatus(book, {x}) \in Seq(Packet)
    <2>1. {x} \in SUBSET Ids /\ \A id \in {x} : book[id] \in ContactInfo
      BY ShownContacts
    <2> QED
      BY <2>1, StatusPacket
  <1>3. ContactOffline({x}) \in Seq(Packet)
    <2>1. [type |-> "ContactOffline", ids |-> {x}] \in Packet
      BY DEF Packet
    <2> QED
      BY <2>1 DEF ContactOffline
  <1> QED
    BY <1>1, <1>2, <1>3

\* The packet that is sent speaks of that contact only, and tells its status.
LEMMA ShownPacket ==
    ASSUME TypeOK, NEW s \in Stanza, Shows(s)
    PROVE  \E packets \in Seq(Packet) :
              /\ Delivered(packets) /\ Len(packets) = 1
              /\ packets[1].type \in {"ContactStatus", "ContactOffline"}
              /\ \A id \in Ids : Speaks(packets[1], id) <=> id = Sender(s)
              /\ Told(packets[1], Sender(s)) = HeldStatus(Sender(s))'
  <1> PICK x \in Ids, book \in ContactMap(ContactInfo) : x = Sender(s) /\ book = contacts'
    BY ShownContacts
  <1>1. book[x] \in ContactInfo /\ book[x] # Absent
    BY ShownContacts, SessionAssumption
  <1>2. HeldStatus(x)' = IF IsOnline(book[x]) THEN StatusOf(book[x]) ELSE Absent
    BY <1>1 DEF HeldStatus, IsContact
  <1>3. Reply(IF IsOnline(book[x]) THEN UpdateContactStatus(book, {x}) ELSE ContactOffline({x}))
    BY DEF Shows, Show
  <1>4. CASE IsOnline(book[x])
    <2> DEFINE p == [type |-> "ContactStatus", statuses |-> Entries(book, {x})]
    <2>1. p \in Packet
      BY <1>1, StatusPacket
    <2>2. Reply(<<p>>)
      BY <1>3, <1>4 DEF UpdateContactStatus
    <2>3. /\ \A id \in Ids : Speaks(p, id) <=> id \in {x}
          /\ Told(p, x) = IF IsOnline(book[x]) THEN StatusOf(book[x]) ELSE Absent
      <3>1. {x} \in SUBSET Ids /\ \A y \in {x} : book[y] \in ContactInfo
        BY <1>1
      <3> QED
        BY <3>1, StatusPacketSpeaks
    <2>4. p.type = "ContactStatus"
      OBVIOUS
    <2> HIDE DEF p
    <2>5. PICK packets \in Seq(Packet) : Delivered(packets) /\ Len(packets) = 1 /\ packets[1] = p
      BY <2>1, <2>2, OneReply
    <2> QED
      BY <1>2, <2>3, <2>4, <2>5
  <1>5. CASE ~IsOnline(book[x])
    <2> DEFINE p == [type |-> "ContactOffline", ids |-> {x}]
    <2>1. p \in Packet
      BY DEF Packet
    <2>2. Reply(<<p>>)
      BY <1>3, <1>5 DEF ContactOffline
    <2>3. /\ \A id \in Ids : Speaks(p, id) <=> id = x
          /\ Told(p, x) = Absent /\ p.type = "ContactOffline"
      BY DEF Speaks, Told
    <2> HIDE DEF p
    <2>4. PICK packets \in Seq(Packet) : Delivered(packets) /\ Len(packets) = 1 /\ packets[1] = p
      BY <2>1, <2>2, OneReply
    <2> QED
      BY <1>2, <1>5, <2>3, <2>4
  <1> QED
    BY <1>4, <1>5

-----------------------------------------------------------------------------
(* Type correctness.                                                       *)

\* The variables of the session keep their types when a presence is handled.
LEMMA HandlePresenceTypes ==
    ASSUME BridgeTypeOK, NEW s \in Stanza, PresenceHandled(s)
    PROVE  TypeOK' /\ followed' \subseteq Ids
  <1>1. TypeOK /\ followed \subseteq Ids /\ Sender(s) \in Ids
    BY SenderIsId DEF BridgeTypeOK
  <1>2. UNCHANGED <<blocked, presence, upstream, picture>>
    BY DEF PresenceHandled
  <1>3. CASE PassOver(s) \/ Refuted(s)
    <2>1. /\ UNCHANGED <<contacts, downstream, followed>>
          /\ process' \in {process, "terminated"}
      BY <1>3 DEF PassOver, Refuted
    <2> QED
      BY <1>1, <1>2, <2>1 DEF TypeOK
  <1>4. CASE Shows(s)
    <2>1. contacts' \in ContactMap(ContactInfo)
      BY <1>1, <1>4, ShownContacts
    <2>2. downstream' \in Seq(Packet) /\ process' \in {"running", "terminated", "outgrown"}
      <3>1. \E packets \in Seq(Packet) : Reply(packets)
        BY <1>1, <1>4, ShownReply
      <3> QED
        BY <1>1, <3>1, ReplyTypes
    <2>3. followed' = followed \cup {Sender(s)}
      BY <1>4 DEF Shows
    <2> QED
      BY <1>1, <1>2, <2>1, <2>2, <2>3 DEF TypeOK
  <1> QED
    BY <1>3, <1>4 DEF PresenceHandled

\* The bridge starts in a state of its types.
LEMMA BridgeInitTypes == BridgeInit => BridgeTypeOK
  BY InitTypes DEF BridgeInit, BridgeTypeOK, Nothing

\* Every step keeps them.
LEMMA BridgeNextTypes ==
    ASSUME BridgeTypeOK, [BridgeNext]_bridgeVars
    PROVE  BridgeTypeOK'
  <1>1. /\ TypeOK /\ stanzas \in Seq(Stanza) /\ followed \subseteq Ids
        /\ published \in ContactMap(Presence)
    BY DEF BridgeTypeOK
  <1>2. CASE Session
    <2>1. TypeOK'
      BY <1>1, <1>2, NextTypes DEF Session
    <2> QED
      BY <1>1, <1>2, <2>1 DEF Session, BridgeTypeOK
  <1>3. ASSUME NEW s \in Stanzas, Publish(s)
        PROVE  BridgeTypeOK'
    <2>1. s \in Stanza /\ Sender(s) \in Ids /\ s.presence \in Presence
      BY BridgeAssumption, SenderIsId DEF Stanza
    <2>2. UNCHANGED vars /\ TypeOK'
      BY <1>1, <1>3, NextTypes DEF Publish
    <2>3. stanzas' \in Seq(Stanza)
      BY <1>1, <1>3, <2>1 DEF Publish
    <2>4. published' \in ContactMap(Presence)
      BY <1>1, <1>3, <2>1 DEF Publish
    <2>5. followed' = followed
      BY <1>3 DEF Publish
    <2> QED
      BY <1>1, <2>2, <2>3, <2>4, <2>5 DEF BridgeTypeOK
  <1>4. CASE HandlePresence
    <2>1. PICK s \in Stanza : PresenceHandled(s)
      BY <1>4, HandlePresenceStep
    <2>2. TypeOK' /\ followed' \subseteq Ids
      BY <2>1, HandlePresenceTypes
    <2>3. stanzas' \in Seq(Stanza) /\ published' = published
      BY <1>1, <2>1 DEF PresenceHandled
    <2> QED
      BY <1>1, <2>2, <2>3 DEF BridgeTypeOK
  <1>5. CASE UNCHANGED bridgeVars
    <2>1. UNCHANGED vars /\ TypeOK'
      BY <1>1, <1>5, NextTypes DEF bridgeVars
    <2> QED
      BY <1>1, <1>5, <2>1 DEF BridgeTypeOK, bridgeVars
  <1> QED
    BY <1>2, <1>3, <1>4, <1>5 DEF BridgeNext

\* With presence coming in from the XMPP client in between, every value the
\* session holds is still of its type, and so is what the client has read.
THEOREM BridgeTypeCorrect == BridgeSpec => []BridgeTypeOK
  BY BridgeInitTypes, BridgeNextTypes, PTL DEF BridgeSpec

-----------------------------------------------------------------------------
(* The three replicas, with presence coming in.                            *)

\* For the session a step of the bridge is one of its own, or a presence.
LEMMA SessionOrPresence ==
    ASSUME BridgeTypeOK, [BridgeNext]_bridgeVars
    PROVE  [Next]_vars \/ \E s \in Stanza : PresenceHandled(s)
  BY HandlePresenceStep DEF BridgeNext, Session, Publish, bridgeVars

\* What is behind the replicas changes only with a presence that is shown.
LEMMA ShownOrUnchanged ==
    ASSUME NEW s \in Stanza, PresenceHandled(s)
    PROVE  /\ blocked' = blocked /\ picture' = picture /\ process = "running"
           /\ (contacts' = contacts /\ downstream' = downstream) \/ Shows(s)
  BY DEF PresenceHandled, PassOver, Refuted

\* A presence leaves every contact in its group, and its packets leave the list alone.
LEMMA ContactListBridge ==
    BridgeTypeOK /\ BridgeTypeOK' /\ ContactListReplicated /\ [BridgeNext]_bridgeVars
        => ContactListReplicated'
  <1> SUFFICES ASSUME BridgeTypeOK, BridgeTypeOK', ContactListReplicated,
                      [BridgeNext]_bridgeVars
               PROVE  ContactListReplicated'
    OBVIOUS
  <1>1. TypeOK /\ TypeOK'
    BY DEF BridgeTypeOK
  <1>2. CASE [Next]_vars
    BY <1>1, <1>2, ContactListNext
  <1>3. ASSUME NEW s \in Stanza, PresenceHandled(s)
        PROVE  ContactListReplicated'
    <2>1. CASE contacts' = contacts /\ downstream' = downstream
      BY <1>3, <2>1, ShownOrUnchanged DEF ContactListReplicated, GroupOf
    <2>2. CASE Shows(s)
      <3>1. GroupOf(contacts') = GroupOf(contacts)
        <4>1. /\ Sender(s) \in Ids /\ contacts[Sender(s)] \in ContactInfo
              /\ contacts'[Sender(s)] = Changed(contacts[Sender(s)], s.presence)
              /\ contacts'[Sender(s)] \in ContactInfo
              /\ \A id \in Ids : id # Sender(s) => contacts'[id] = contacts[id]
          BY <1>1, <2>2, ShownContacts
        <4>2. contacts'[Sender(s)].group = contacts[Sender(s)].group
          BY <4>1, ChangedContact DEF Stanza
        <4>3. contacts'[Sender(s)] # Absent /\ contacts[Sender(s)] # Absent
          BY <4>1, SessionAssumption
        <4> QED
          BY <4>1, <4>2, <4>3 DEF GroupOf
      <3>2. PICK packets \in Seq(Packet) :
              /\ Delivered(packets) /\ Len(packets) = 1
              /\ packets[1].type \in {"ContactStatus", "ContactOffline"}
        BY <1>1, <2>2, ShownPacket
      <3>3. \A i \in 1 .. Len(packets) : ~ChangesList(packets[i])
        BY <3>2 DEF ChangesList
      <3>4. picture' = picture
        BY <1>3, ShownOrUnchanged
      <3> QED
        BY <1>1, <3>1, <3>2, <3>3, <3>4, ContactListQuiet
    <2> QED
      BY <1>3, <2>1, <2>2, ShownOrUnchanged
  <1> QED
    BY <1>2, <1>3, SessionOrPresence

\* They leave the ignore list alone, too.
LEMMA BlockedListBridge ==
    BridgeTypeOK /\ BridgeTypeOK' /\ BlockedListReplicated /\ [BridgeNext]_bridgeVars
        => BlockedListReplicated'
  <1> SUFFICES ASSUME BridgeTypeOK, BridgeTypeOK', BlockedListReplicated,
                      [BridgeNext]_bridgeVars
               PROVE  BlockedListReplicated'
    OBVIOUS
  <1>1. TypeOK /\ TypeOK'
    BY DEF BridgeTypeOK
  <1>2. CASE [Next]_vars
    BY <1>1, <1>2, BlockedListNext
  <1>3. ASSUME NEW s \in Stanza, PresenceHandled(s)
        PROVE  BlockedListReplicated'
    <2>1. CASE contacts' = contacts /\ downstream' = downstream
      BY <1>3, <2>1, ShownOrUnchanged DEF BlockedListReplicated
    <2>2. CASE Shows(s)
      <3>1. PICK packets \in Seq(Packet) :
              /\ Delivered(packets) /\ Len(packets) = 1
              /\ packets[1].type \in {"ContactStatus", "ContactOffline"}
        BY <1>1, <2>2, ShownPacket
      <3>2. blocked' = blocked /\ picture' = picture
        BY <1>3, ShownOrUnchanged
      <3>3. \A id \in Ids : BlockedCaught(id)
        BY <1>1, BlockedListCaught
      <3>4. ASSUME NEW id \in Ids
            PROVE  BlockedCaught(id)'
        <4>1. \A i \in 1 .. Len(packets) : ~ChangesBlocked(packets[i], id)
          BY <3>1 DEF ChangesBlocked
        <4> QED
          BY <1>1, <3>1, <3>2, <3>3, <4>1, BlockedListQuiet
      <3>5. (\A id \in Ids : BlockedCaught(id))'
        BY <3>4
      <3> QED
        BY <1>1, <3>5, BlockedListCaught, PTL
    <2> QED
      BY <1>3, <2>1, <2>2, ShownOrUnchanged
  <1> QED
    BY <1>2, <1>3, SessionOrPresence

\* The packet of a presence tells the status the contact has from then on.
LEMMA StatusBridge ==
    BridgeTypeOK /\ BridgeTypeOK' /\ StatusReplicated /\ [BridgeNext]_bridgeVars
        => StatusReplicated'
  <1> SUFFICES ASSUME BridgeTypeOK, BridgeTypeOK', StatusReplicated,
                      [BridgeNext]_bridgeVars
               PROVE  StatusReplicated'
    OBVIOUS
  <1>1. TypeOK /\ TypeOK'
    BY DEF BridgeTypeOK
  <1>2. CASE [Next]_vars
    BY <1>1, <1>2, StatusNext
  <1>3. ASSUME NEW s \in Stanza, PresenceHandled(s)
        PROVE  StatusReplicated'
    <2>1. CASE contacts' = contacts /\ downstream' = downstream
      BY <1>3, <2>1, ShownOrUnchanged DEF StatusReplicated, HeldStatus, IsContact
    <2>2. CASE Shows(s)
      <3>1. PICK packets \in Seq(Packet) :
              /\ Delivered(packets) /\ Len(packets) = 1
              /\ packets[1].type \in {"ContactStatus", "ContactOffline"}
              /\ \A id \in Ids : Speaks(packets[1], id) <=> id = Sender(s)
              /\ Told(packets[1], Sender(s)) = HeldStatus(Sender(s))'
        BY <1>1, <2>2, ShownPacket
      <3>2. picture' = picture
        BY <1>3, ShownOrUnchanged
      <3>3. \A id \in Ids : StatusCaught(id)
        BY <1>1, StatusesCaught
      <3>4. ASSUME NEW id \in Ids
            PROVE  StatusCaught(id)'
        <4>1. CASE id = Sender(s)
          <5>1. 1 \in 1 .. Len(packets) /\ \A i \in 1 + 1 .. Len(packets) : ~Speaks(packets[i], id)
            BY <3>1
          <5>2. Speaks(packets[1], id) /\ Told(packets[1], id) = HeldStatus(id)'
            BY <3>1, <4>1
          <5> QED
            BY <1>1, <3>1, <5>1, <5>2, StatusTruth
        <4>2. CASE id # Sender(s)
          <5>1. \A i \in 1 .. Len(packets) : ~Speaks(packets[i], id)
            BY <3>1, <4>2
          <5>2. contacts'[id] = contacts[id]
            BY <1>1, <2>2, <4>2, ShownContacts
          <5>3. HeldStatus(id)' = HeldStatus(id)
            BY <5>2 DEF HeldStatus, IsContact
          <5> QED
            BY <1>1, <3>1, <3>2, <3>3, <5>1, <5>3, StatusQuiet
        <4> QED
          BY <4>1, <4>2
      <3>5. (\A id \in Ids : StatusCaught(id))'
        BY <3>4
      <3> QED
        BY <1>1, <3>5, StatusesCaught, PTL
    <2> QED
      BY <1>3, <2>1, <2>2, ShownOrUnchanged
  <1> QED
    BY <1>2, <1>3, SessionOrPresence

\* Although the contacts' presence changes the contact list behind the back
\* of whoever edits it, the messenger's contact list only lags.
THEOREM BridgeContactListIsReplicated == BridgeSpec => []ContactListReplicated
  BY ContactListInit, ContactListBridge, BridgeTypeCorrect, PTL DEF BridgeSpec, BridgeInit

\* So does its ignore list.
THEOREM BridgeBlockedListIsReplicated == BridgeSpec => []BlockedListReplicated
  BY BlockedListInit, BlockedListBridge, BridgeTypeCorrect, PTL DEF BridgeSpec, BridgeInit

\* So do the statuses it shows, whatever order the presence of the contacts
\* and the requests of the messenger are handled in.
THEOREM BridgeStatusIsReplicated == BridgeSpec => []StatusReplicated
  BY StatusInit, StatusBridge, BridgeTypeCorrect, PTL DEF BridgeSpec, BridgeInit

-----------------------------------------------------------------------------
(* From the presence a contact publishes to the contact list.              *)

AboutPresence(id) == {s \in Stanza : Sender(s) = id /\ ~Ignored(s.presence)}
TruePresence(id) == {s \in AboutPresence(id) : s.presence = published[id]}

\* The contact list shows the contact as its last presence says.
PresenceRight(id) ==
    id \in followed =>
        /\ contacts[id].availability = Shown(published[id])
        /\ Shown(published[id]) = "Custom" => contacts[id].customMessage = published[id].status

PresenceCaught(id) == Caught(stanzas, AboutPresence(id), TruePresence(id), PresenceRight(id))

\* The inductive invariant: the contact list is a replica of what is
\* published, for the contacts that have been heard of since they were added.
FollowsPublished ==
    /\ followed \subseteq Listed(contacts)
    /\ \A id \in Ids : PresenceCaught(id)

\* Nothing is promised of a contact that is removed.
LEMMA CaughtWeaker ==
    ASSUME NEW queue, NEW about, NEW truth, NEW right \in BOOLEAN, NEW next \in BOOLEAN,
           Caught(queue, about, truth, right), right => next
    PROVE  Caught(queue, about, truth, next)
  BY DEF Caught

\* What a request of the messenger leaves of a contact that stays in the list.
LEMMA RequestsKeepPresence ==
    ASSUME TypeOK, TypeOK', Next, NEW id \in Ids,
           IsContact(id), contacts'[id] # Absent
    PROVE  /\ contacts'[id].availability = contacts[id].availability
           /\ contacts'[id].customMessage = contacts[id].customMessage
  <1>1. CASE contacts' = contacts
    BY <1>1
  <1>2. CASE Handle
    <2>1. HandlerStep /\ contacts \in ContactMap(ContactInfo)
      BY <1>2, HandlerSteps DEF TypeOK
    <2>2. CASE QuietStep \/ Answer(<<ClientProfile(contacts, blocked)>>)
      BY <1>1, <2>2 DEF QuietStep, Answer
    <2>3. ASSUME NEW x \in Ids, NEW group \in GroupName, ~IsContact(x),
                 OnAddRequestPending(x, group)
          PROVE  contacts'[id] = contacts[id]
      BY <2>1, <2>3 DEF OnAddRequestPending, AddPendingContact
    <2>4. ASSUME NEW x \in Ids, OnContactRemoved(x)
          PROVE  contacts'[id] = contacts[id]
      BY <2>1, <2>4 DEF OnContactRemoved, EraseContact
    <2>5. ASSUME NEW current \in GroupName, NEW new \in GroupName, OnGroupRenamed(current, new)
          PROVE  /\ contacts'[id].availability = contacts[id].availability
                 /\ contacts'[id].customMessage = contacts[id].customMessage
      <3>1. contacts[id] \in ContactInfo
        BY <2>1 DEF IsContact
      <3>2. contacts'[id] = IF IsContact(id) /\ contacts[id].group = current
                            THEN [contacts[id] EXCEPT !.group = new] ELSE contacts[id]
        BY <2>5 DEF OnGroupRenamed, RenameGroup
      <3> QED
        BY <3>1, <3>2 DEF ContactInfo
    <2>6. ASSUME NEW x \in Ids, OnBlocked(x) \/ OnUnblocked(x)
          PROVE  contacts' = contacts
      BY <2>6 DEF OnBlocked, OnUnblocked, Answer
    <2>7. CASE PresenceStep
      <3>1. OwnContacts = {}
        BY BridgeAssumption DEF OwnContacts
      <3>2. contacts'[id] = contacts[id]
        BY <2>7, <3>1 DEF PresenceStep, PresenceStepTo, SetPresence
      <3> QED
        BY <3>2
    <2> QED
      BY <1>1, <2>1, <2>2, <2>3, <2>4, <2>5, <2>6, <2>7 DEF HandlerStep
  <1> QED
    BY <1>1, <1>2 DEF Next, Ask, Read

\* A request of the messenger keeps the invariant.
LEMMA SessionFollows ==
    ASSUME BridgeTypeOK, BridgeTypeOK', FollowsPublished, Session
    PROVE  FollowsPublished'
  <1>1. /\ TypeOK /\ TypeOK' /\ Next /\ followed \subseteq Listed(contacts)
        /\ followed' = followed \cap Listed(contacts')
        /\ stanzas' = stanzas /\ published' = published
    BY DEF BridgeTypeOK, FollowsPublished, Session
  <1>2. (followed \subseteq Listed(contacts))'
    BY <1>1
  <1>3. ASSUME NEW id \in Ids
        PROVE  PresenceCaught(id)'
    <2>1. PresenceCaught(id)
      BY DEF FollowsPublished
    <2>2. TruePresence(id)' = TruePresence(id)
      BY <1>1 DEF TruePresence
    <2>3. PresenceRight(id) => PresenceRight(id)'
      <3> SUFFICES ASSUME PresenceRight(id), id \in followed'
                   PROVE  /\ contacts'[id].availability = Shown(published[id])
                          /\ Shown(published[id]) = "Custom" =>
                               contacts'[id].customMessage = published[id].status
        BY <1>1 DEF PresenceRight
      <3>1. id \in followed /\ IsContact(id) /\ contacts'[id] # Absent
        BY <1>1 DEF Listed, IsContact
      <3>2. /\ contacts'[id].availability = contacts[id].availability
            /\ contacts'[id].customMessage = contacts[id].customMessage
        BY <1>1, <3>1, RequestsKeepPresence
      <3> QED
        BY <3>1, <3>2 DEF PresenceRight
    <2>4. PresenceRight(id) \in BOOLEAN /\ PresenceRight(id)' \in BOOLEAN
      BY DEF PresenceRight
    <2>5. Caught(stanzas, AboutPresence(id), TruePresence(id), PresenceRight(id)')
      BY <2>1, <2>3, <2>4, CaughtWeaker DEF PresenceCaught
    <2> QED
      BY <1>1, <2>2, <2>5 DEF PresenceCaught
  <1>4. (\A id \in Ids : PresenceCaught(id))'
    BY <1>3
  <1> QED
    BY <1>2, <1>4 DEF FollowsPublished

\* So does a presence that is published.
LEMMA PublishFollows ==
    ASSUME BridgeTypeOK, FollowsPublished, NEW s \in Stanzas, Publish(s)
    PROVE  FollowsPublished'
  <1>1. /\ stanzas \in Seq(Stanza) /\ published \in ContactMap(Presence)
        /\ contacts' = contacts /\ followed' = followed
        /\ stanzas' = Append(stanzas, s)
        /\ published' = IF Ignored(s.presence) THEN published
                        ELSE [published EXCEPT ![Sender(s)] = s.presence]
        /\ s \in Stanza /\ Sender(s) \in Ids
    BY BridgeAssumption, SenderIsId DEF BridgeTypeOK, Publish, vars
  <1> DEFINE one == <<s>>
  <1>2. one \in Seq(Stanza) /\ Len(one) = 1 /\ one[1] = s
    BY <1>1
  <1>3. stanzas' = stanzas \o one
    BY <1>1
  <1> HIDE DEF one
  <1>4. ASSUME NEW id \in Ids
        PROVE  PresenceCaught(id)'
    <2>1. Caught(stanzas, AboutPresence(id), TruePresence(id), PresenceRight(id))
      BY DEF FollowsPublished, PresenceCaught
    <2>2. PresenceRight(id) \in BOOLEAN
      BY DEF PresenceRight
    <2>3. CASE Ignored(s.presence) \/ Sender(s) # id
      <3>1. published'[id] = published[id]
        BY <1>1, <2>3
      <3>2. TruePresence(id)' = TruePresence(id) /\ PresenceRight(id)' = PresenceRight(id)
        BY <1>1, <3>1 DEF TruePresence, PresenceRight
      <3>3. \A i \in 1 .. Len(one) : one[i] \notin AboutPresence(id)
        BY <1>2, <2>3 DEF AboutPresence
      <3>4. Caught(stanzas \o one, AboutPresence(id), TruePresence(id), PresenceRight(id))
        BY <1>1, <1>2, <2>1, <2>2, <3>3, CaughtQuiet
      <3> QED
        BY <1>3, <3>2, <3>4 DEF PresenceCaught
    <2>4. CASE ~Ignored(s.presence) /\ Sender(s) = id
      <3>1. published'[id] = s.presence
        BY <1>1, <2>4
      <3>2. one[1] \in TruePresence(id)'
        BY <1>1, <1>2, <2>4, <3>1 DEF TruePresence, AboutPresence
      <3>3. 1 \in 1 .. Len(one) /\ \A i \in 1 + 1 .. Len(one) : one[i] \notin AboutPresence(id)
        BY <1>2
      <3>4. Caught(stanzas \o one, AboutPresence(id), TruePresence(id)', PresenceRight(id)')
        BY <1>1, <1>2, <3>2, <3>3, CaughtTruth
      <3> QED
        BY <1>3, <3>4 DEF PresenceCaught
    <2> QED
      BY <2>3, <2>4
  <1>5. (\A id \in Ids : PresenceCaught(id))'
    BY <1>4
  <1> QED
    BY <1>1, <1>5 DEF FollowsPublished, Listed

\* So does one that is handled.
LEMMA PresenceFollows ==
    ASSUME BridgeTypeOK, FollowsPublished, NEW s \in Stanza, PresenceHandled(s)
    PROVE  FollowsPublished'
  <1>1. /\ TypeOK /\ stanzas \in Seq(Stanza) /\ stanzas # <<>> /\ s = Head(stanzas)
        /\ stanzas' = Tail(stanzas) /\ published' = published
        /\ Sender(s) \in Ids /\ s.presence \in Presence
    BY SenderIsId DEF BridgeTypeOK, PresenceHandled, Stanza
  <1>2. \/ PassOver(s) \/ Refuted(s) \/ Shows(s)
    BY DEF PresenceHandled
  <1>3. followed \subseteq Listed(contacts)
    BY DEF FollowsPublished
  <1>4. (followed \subseteq Listed(contacts))'
    <2>1. CASE Shows(s)
      <3>1. followed' = followed \cup {Sender(s)}
        BY <2>1 DEF Shows
      <3>2. /\ contacts'[Sender(s)] \in ContactInfo
            /\ \A id \in Ids : id # Sender(s) => contacts'[id] = contacts[id]
        BY <1>1, <2>1, ShownContacts
      <3> QED
        BY <1>1, <1>3, <3>1, <3>2, SessionAssumption DEF Listed
    <2> QED
      BY <1>2, <1>3, <2>1 DEF PassOver, Refuted
  <1>5. ASSUME NEW id \in Ids
        PROVE  PresenceCaught(id)'
    <2>1. Caught(stanzas, AboutPresence(id), TruePresence(id), PresenceRight(id))
      BY DEF FollowsPublished, PresenceCaught
    <2>2. PresenceRight(id) \in BOOLEAN /\ PresenceRight(id)' \in BOOLEAN
      BY DEF PresenceRight
    <2>3. TruePresence(id)' = TruePresence(id) /\ TruePresence(id) \in SUBSET AboutPresence(id)
      BY <1>1 DEF TruePresence
    <2>4. s \in TruePresence(id) => PresenceRight(id)'
      <3> SUFFICES ASSUME s \in TruePresence(id)
                   PROVE  PresenceRight(id)'
        OBVIOUS
      <3>1. Sender(s) = id /\ ~Ignored(s.presence) /\ s.presence = published[id]
        BY DEF TruePresence, AboutPresence
      <3>2. CASE Refuted(s)
        <4>1. id \notin followed'
          BY <1>3, <3>1, <3>2 DEF Refuted, Listed, IsContact
        <4> QED
          BY <4>1 DEF PresenceRight
      <3>3. CASE Shows(s)
        <4>1. /\ contacts[id] \in ContactInfo
              /\ contacts'[id] = Changed(contacts[id], s.presence)
          BY <1>1, <3>1, <3>3, ShownContacts
        <4>2. /\ contacts'[id].availability = Shown(s.presence)
              /\ Shown(s.presence) = "Custom" => contacts'[id].customMessage = s.presence.status
          BY <1>1, <4>1, ChangedContact
        <4> QED
          BY <1>1, <3>1, <4>2 DEF PresenceRight
      <3> QED
        BY <1>2, <3>1, <3>2, <3>3 DEF PassOver
    <2>5. s \notin AboutPresence(id) /\ PresenceRight(id) => PresenceRight(id)'
      <3>1. CASE Shows(s) /\ s \notin AboutPresence(id)
        <4>1. Sender(s) # id
          BY <3>1 DEF Shows, AboutPresence
        <4>2. contacts'[id] = contacts[id]
          BY <1>1, <3>1, <4>1, ShownContacts
        <4>3. id \in followed' <=> id \in followed
          BY <3>1, <4>1 DEF Shows
        <4> QED
          BY <1>1, <4>2, <4>3 DEF PresenceRight
      <3>2. CASE PassOver(s) \/ Refuted(s)
        BY <1>1, <3>2 DEF PassOver, Refuted, PresenceRight
      <3> QED
        BY <1>2, <3>1, <3>2
    <2>6. Caught(Tail(stanzas), AboutPresence(id), TruePresence(id), PresenceRight(id)')
      BY <1>1, <2>1, <2>2, <2>3, <2>4, <2>5, CaughtTail
    <2> QED
      BY <1>1, <2>3, <2>6 DEF PresenceCaught
  <1>6. (\A id \in Ids : PresenceCaught(id))'
    BY <1>5
  <1> QED
    BY <1>4, <1>6 DEF FollowsPublished

\* Every step keeps it.
LEMMA FollowsNext ==
    BridgeTypeOK /\ BridgeTypeOK' /\ FollowsPublished /\ [BridgeNext]_bridgeVars
        => FollowsPublished'
  <1> SUFFICES ASSUME BridgeTypeOK, BridgeTypeOK', FollowsPublished, [BridgeNext]_bridgeVars
               PROVE  FollowsPublished'
    OBVIOUS
  <1>1. CASE HandlePresence
    BY <1>1, HandlePresenceStep, PresenceFollows
  <1>2. CASE UNCHANGED bridgeVars
    <2>1. UNCHANGED <<contacts, stanzas, published, followed>>
      BY <1>2 DEF bridgeVars, vars
    <2> QED
      BY <2>1
         DEF FollowsPublished, Listed, PresenceCaught, TruePresence, PresenceRight
  <1> QED
    BY <1>1, <1>2, SessionFollows, PublishFollows DEF BridgeNext

\* The messenger shows each contact as its last presence says once everything
\* has arrived, for every roster and every presence that may come: two queues,
\* one behind the other, each of which ends with the truth.
THEOREM ShownIsAlwaysPublished == BridgeSpec => []ShownIsPublished
  <1>1. BridgeInit => FollowsPublished
    <2> SUFFICES ASSUME BridgeInit
                 PROVE  FollowsPublished
      OBVIOUS
    <2>1. followed = {} /\ stanzas = <<>> /\ Len(stanzas) = 0
      BY DEF BridgeInit
    <2>2. \A id \in Ids : PresenceRight(id)
      BY <2>1 DEF PresenceRight
    <2> QED
      BY <2>1, <2>2 DEF FollowsPublished, PresenceCaught, Caught
  <1>2. BridgeTypeOK /\ StatusReplicated /\ FollowsPublished => ShownIsPublished
    <2> SUFFICES ASSUME BridgeTypeOK, StatusReplicated, FollowsPublished, AllArrived,
                        NEW id \in followed
                 PROVE  LET status == picture.statuses[id]
                            p == published[id]
                        IN  IF status = Absent THEN Shown(p) = "Offline"
                            ELSE /\ status.availability = Shown(p)
                                 /\ Shown(p) = "Custom" => status.customMessage = p.status
      BY DEF ShownIsPublished
    <2>1. /\ id \in Ids /\ IsContact(id) /\ contacts[id] \in ContactInfo
          /\ PresenceCaught(id) /\ Len(stanzas) = 0 /\ Len(downstream) = 0
      BY DEF FollowsPublished, Listed, IsContact, BridgeTypeOK, TypeOK, AllArrived
    <2>2. /\ contacts[id].availability = Shown(published[id])
          /\ Shown(published[id]) = "Custom" => contacts[id].customMessage = published[id].status
      BY <2>1 DEF PresenceCaught, Caught, PresenceRight
    <2>3. picture.statuses[id] = HeldStatus(id)
      BY <2>1 DEF StatusReplicated, AllArrived
    <2>4. CASE IsOnline(contacts[id])
      <3>1. picture.statuses[id] = StatusOf(contacts[id]) /\ StatusOf(contacts[id]) # Absent
        BY <2>1, <2>3, <2>4, ContactOperations, SessionAssumption DEF HeldStatus, Availability
      <3> QED
        BY <2>2, <3>1 DEF StatusOf
    <2>5. CASE ~IsOnline(contacts[id])
      BY <2>1, <2>2, <2>3, <2>5 DEF HeldStatus, IsOnline
    <2> QED
      BY <2>4, <2>5
  <1> QED
    BY <1>1, <1>2, FollowsNext, BridgeTypeCorrect, BridgeStatusIsReplicated, PTL DEF BridgeSpec

-----------------------------------------------------------------------------
(* What ends the session of a careful messenger.                           *)

IsStatusPacket(p) == p.type \in {"ContactStatus", "ContactOffline"}

\* A careful messenger has one request out at most, and the ignore list it
\* has consulted stays exact although presence comes in before it is served.
OneAtATime ==
    Careful /\ process = "running" =>
        \/ upstream = <<>>
        \/ /\ Len(upstream) = 1 /\ Sensible(Head(upstream))
           /\ picture.blockedList = blocked
           /\ \A i \in 1 .. Len(downstream) : IsStatusPacket(downstream[i])

\* Whoever has a presence on its way has published it.
StanzasPublished ==
    \A i \in 1 .. Len(stanzas) :
        ~Ignored(stanzas[i].presence) => Sender(stanzas[i]) \in Listed(published)

\* The inductive invariant.
EndedByStrangers == OneAtATime /\ StanzasPublished /\ OnlyStrangersEndIt

\* What a presence that is published keeps.
LEMMA PublishEnds ==
    ASSUME BridgeTypeOK, EndedByStrangers, NEW s \in Stanzas, Publish(s)
    PROVE  EndedByStrangers'
  <1>1. /\ stanzas \in Seq(Stanza) /\ published \in ContactMap(Presence)
        /\ contacts' = contacts /\ blocked' = blocked /\ picture' = picture
        /\ upstream' = upstream /\ downstream' = downstream /\ process' = process
        /\ process = "running"
        /\ stanzas' = Append(stanzas, s)
        /\ published' = IF Ignored(s.presence) THEN published
                        ELSE [published EXCEPT ![Sender(s)] = s.presence]
        /\ Sender(s) \in Ids /\ s.presence # Absent /\ s \in Stanza
    BY BridgeAssumption, SenderIsId DEF BridgeTypeOK, Publish, vars, Stanza
  <1>2. OneAtATime'
    BY <1>1 DEF EndedByStrangers, OneAtATime, Sensible
  <1>3. OnlyStrangersEndIt'
    BY <1>1 DEF OnlyStrangersEndIt
  <1>4. /\ \A id \in Ids : published[id] # Absent => published'[id] # Absent
        /\ ~Ignored(s.presence) => published'[Sender(s)] # Absent
    BY <1>1
  <1>5. Listed(published) \subseteq Listed(published')
        /\ (~Ignored(s.presence) => Sender(s) \in Listed(published'))
    BY <1>1, <1>4 DEF Listed
  <1>6. StanzasPublished'
    <2> SUFFICES ASSUME NEW i \in 1 .. Len(stanzas'), ~Ignored(stanzas'[i].presence)
                 PROVE  Sender(stanzas'[i]) \in Listed(published')
      BY DEF StanzasPublished
    <2>1. CASE i \in 1 .. Len(stanzas)
      <3>1. stanzas'[i] = stanzas[i]
        BY <1>1, <2>1
      <3> QED
        BY <1>5, <2>1, <3>1 DEF EndedByStrangers, StanzasPublished
    <2>2. CASE i \notin 1 .. Len(stanzas)
      <3>1. stanzas'[i] = s
        BY <1>1, <2>2
      <3> QED
        BY <1>5, <3>1
    <2> QED
      BY <2>1, <2>2
  <1> QED
    BY <1>2, <1>3, <1>6 DEF EndedByStrangers

\* What is still on its way when one presence is handled.
LEMMA StanzasLeft ==
    ASSUME BridgeTypeOK, StanzasPublished, NEW s \in Stanza, PresenceHandled(s)
    PROVE  StanzasPublished' /\ (~Ignored(s.presence) => Sender(s) \in Listed(published))
  <1>1. /\ stanzas \in Seq(Stanza) /\ stanzas # <<>> /\ s = Head(stanzas)
        /\ stanzas' = Tail(stanzas) /\ published' = published
    BY DEF BridgeTypeOK, PresenceHandled
  <1>2. /\ Len(stanzas) \in Nat \ {0} /\ s = stanzas[1]
        /\ Len(stanzas') = Len(stanzas) - 1
        /\ \A i \in 1 .. Len(stanzas') : stanzas'[i] = stanzas[i + 1] /\ i + 1 \in 1 .. Len(stanzas)
    BY <1>1
  <1> QED
    BY <1>1, <1>2 DEF StanzasPublished

\* What a presence that is handled keeps: only a stranger's ends the session,
\* and one that is shown is a status packet more.
LEMMA PresenceEnds ==
    ASSUME BridgeTypeOK, EndedByStrangers, NEW s \in Stanza, PresenceHandled(s)
    PROVE  EndedByStrangers'
  <1>1. /\ TypeOK /\ process = "running" /\ Sender(s) \in Ids
        /\ blocked' = blocked /\ upstream' = upstream /\ picture' = picture
        /\ published' = published
    BY SenderIsId DEF BridgeTypeOK, PresenceHandled
  <1>2. PassOver(s) \/ Refuted(s) \/ Shows(s)
    BY DEF PresenceHandled
  <1>3. StanzasPublished' /\ (~Ignored(s.presence) => Sender(s) \in Listed(published))
    BY StanzasLeft DEF EndedByStrangers
  <1>4. CASE PassOver(s)
    <2>1. contacts' = contacts /\ downstream' = downstream /\ process' = process
      BY <1>4 DEF PassOver
    <2> QED
      BY <1>1, <1>3, <2>1
         DEF EndedByStrangers, OneAtATime, OnlyStrangersEndIt, Sensible
  <1>5. CASE Refuted(s)
    <2>1. process' = "terminated" /\ Sender(s) \in Listed(published') /\ ~IsContact(Sender(s))'
      BY <1>1, <1>3, <1>5 DEF Refuted, IsContact
    <2> QED
      BY <1>3, <2>1 DEF EndedByStrangers, OneAtATime, OnlyStrangersEndIt
  <1>6. CASE Shows(s)
    <2>1. process' # "terminated"
      BY <1>1, <1>6, ReplyDoesNotThrow DEF Shows
    <2>2. PICK packets \in Seq(Packet) :
            Delivered(packets) /\ Len(packets) = 1 /\ IsStatusPacket(packets[1])
      BY <1>1, <1>6, ShownPacket DEF IsStatusPacket
    <2>3. ASSUME \A i \in 1 .. Len(downstream) : IsStatusPacket(downstream[i])
          PROVE  \A i \in 1 .. Len(downstream') : IsStatusPacket(downstream'[i])
      <3>1. PICK sent \in Seq(Packet) :
              /\ downstream' = downstream \o sent
              /\ \A i \in 1 .. Len(sent) : i \in 1 .. Len(packets) /\ sent[i] = packets[i]
        BY <2>2, DeliveredPart
      <3>2. downstream \in Seq(Packet)
        BY <1>1 DEF TypeOK
      <3>3. ASSUME NEW i \in 1 .. Len(sent)
            PROVE  IsStatusPacket(sent[i])
        <4>1. i \in 1 .. Len(packets) /\ sent[i] = packets[i]
          BY <3>1, <3>3
        <4>2. i = 1
          BY <2>2, <4>1
        <4> QED
          BY <2>2, <4>1, <4>2
      <3>4. ASSUME NEW i \in 1 .. Len(downstream')
            PROVE  IsStatusPacket(downstream'[i])
        <4>1. /\ Len(downstream \o sent) = Len(downstream) + Len(sent)
              /\ Len(downstream) \in Nat /\ Len(sent) \in Nat
              /\ \A j \in 1 .. Len(downstream) : (downstream \o sent)[j] = downstream[j]
              /\ \A j \in Len(downstream) + 1 .. Len(downstream) + Len(sent) :
                    (downstream \o sent)[j] = sent[j - Len(downstream)]
          BY <3>1, <3>2, Concatenation, ZenonT(40)
        <4>2. CASE i \in 1 .. Len(downstream)
          BY <2>3, <3>1, <4>1, <4>2
        <4>3. CASE i \notin 1 .. Len(downstream)
          <5>1. i \in Len(downstream) + 1 .. Len(downstream) + Len(sent)
                /\ i - Len(downstream) \in 1 .. Len(sent)
            BY <3>1, <4>1, <4>3
          <5> QED
            BY <3>1, <3>3, <4>1, <5>1
        <4> QED
          BY <4>2, <4>3
      <3> QED
        BY <3>4
    <2>4. OneAtATime'
      BY <1>1, <2>1, <2>3 DEF EndedByStrangers, OneAtATime, Sensible
    <2> QED
      BY <1>1, <1>3, <2>1, <2>4 DEF EndedByStrangers, OnlyStrangersEndIt
  <1> QED
    BY <1>2, <1>4, <1>5, <1>6

\* What a request keeps: it is asked on an exact picture, and served on it.
LEMMA SessionEnds ==
    ASSUME BridgeTypeOK, BlockedListReplicated, EndedByStrangers, Session
    PROVE  EndedByStrangers'
  <1>1. TypeOK /\ Next /\ stanzas' = stanzas /\ published' = published
    BY DEF BridgeTypeOK, Session
  <1>2. StanzasPublished'
    BY <1>1 DEF EndedByStrangers, StanzasPublished
  <1>3. ASSUME NEW r \in Requests, Ask(r)
        PROVE  EndedByStrangers'
    <2>1. /\ process' = process /\ process = "running"
          /\ picture' = picture /\ blocked' = blocked
      BY <1>3 DEF Ask
    <2>2. OneAtATime'
      <3> SUFFICES ASSUME Careful
                   PROVE  OneAtATime'
        BY DEF OneAtATime
      <3>1. /\ upstream' = Append(upstream, r) /\ upstream = <<>>
            /\ downstream = <<>> /\ downstream' = <<>> /\ Sensible(r)
        BY <1>3 DEF Ask
      <3>2. Len(upstream') = 1 /\ Head(upstream') = r
        BY <3>1
      <3>3. Sensible(Head(upstream))'
        BY <2>1, <3>1, <3>2 DEF Sensible
      <3>4. picture'.blockedList = blocked'
        BY <1>1, <2>1, <3>1, BlockedListExact
      <3>5. Len(downstream') = 0
        BY <3>1
      <3> QED
        BY <3>2, <3>3, <3>4, <3>5 DEF OneAtATime
    <2> QED
      BY <1>2, <2>1, <2>2 DEF EndedByStrangers, OnlyStrangersEndIt
  <1>4. CASE Handle
    <2>1. process = "running"
      BY <1>1, <1>4, HandlePicture
    <2>2. ASSUME Careful
          PROVE  process' # "terminated" /\ upstream' = <<>>
      <3>1. upstream # <<>>
        BY <1>4 DEF Handle, AddContact, RemoveContact, RenameContactGroup,
               DenyContactAddRequest, ChangeBlockedUser, SetAvailable, SetAway, RequestProfile,
               ActivateProfile, DeactivateProfile, PrivateMessage, ServiceOperation,
               MassPrivateMessage, ChatLogin, ChatJoin, UnknownService, Serve
      <3>2. Len(upstream) = 1 /\ Sensible(Head(upstream)) /\ picture.blockedList = blocked
        BY <2>1, <2>2, <3>1 DEF EndedByStrangers, OneAtATime
      <3>3. process' # "terminated" /\ upstream' = Tail(upstream)
        BY <1>1, <1>4, <3>1, <3>2, SensibleRequests, OnlyThrowTerminates
      <3>4. Tail(upstream) \in Seq(Request) /\ Len(Tail(upstream)) = 0
        BY <1>1, <3>1, <3>2 DEF TypeOK
      <3> QED
        BY <3>3, <3>4, EmptySeq
    <2>3. OneAtATime' /\ OnlyStrangersEndIt'
      BY <2>1, <2>2 DEF OneAtATime, OnlyStrangersEndIt
    <2> QED
      BY <1>2, <2>3 DEF EndedByStrangers
  <1>5. CASE Read
    <2>1. /\ process' = process /\ contacts' = contacts /\ blocked' = blocked
          /\ upstream' = upstream /\ downstream' = Tail(downstream)
          /\ downstream # <<>> /\ downstream \in Seq(Packet)
          /\ picture'.blockedList = Learn(Head(downstream)).blockedList
      BY <1>1, <1>5 DEF Read, TypeOK
    <2>2. /\ Head(downstream) = downstream[1] /\ Len(downstream) \in Nat \ {0}
          /\ Len(downstream') = Len(downstream) - 1
          /\ \A i \in 1 .. Len(downstream') :
                downstream'[i] = downstream[i + 1] /\ i + 1 \in 1 .. Len(downstream)
      BY <2>1
    <2>3. OnlyStrangersEndIt'
      BY <1>1, <2>1 DEF EndedByStrangers, OnlyStrangersEndIt, IsContact, Listed
    <2>4. ASSUME \A i \in 1 .. Len(downstream) : IsStatusPacket(downstream[i])
          PROVE  /\ \A i \in 1 .. Len(downstream') : IsStatusPacket(downstream'[i])
                 /\ picture'.blockedList = picture.blockedList
      <3>1. IsStatusPacket(Head(downstream))
        BY <2>2, <2>4
      <3>2. Learn(Head(downstream)).blockedList = picture.blockedList
        BY <3>1 DEF IsStatusPacket, Learn
      <3> QED
        BY <2>1, <2>2, <2>4, <3>2
    <2>5. ASSUME picture'.blockedList = picture.blockedList, Sensible(Head(upstream))
          PROVE  Sensible(Head(upstream))'
      BY <2>1, <2>5 DEF Sensible
    <2>6. OneAtATime'
      BY <2>1, <2>4, <2>5 DEF EndedByStrangers, OneAtATime
    <2> QED
      BY <1>2, <2>3, <2>6 DEF EndedByStrangers
  <1> QED
    BY <1>1, <1>3, <1>4, <1>5 DEF Next

\* With a careful messenger no handler throws but the one of a presence whose
\* bare id is not in the contact list, although contacts come and go between
\* what they publish and what is made of it.  The Builder may still throw, at
\* a listed contact's text, too: it is not what is counted here.
THEOREM OnlyStrangersEverEndIt == BridgeSpec => []OnlyStrangersEndIt
  <1>1. BridgeInit => EndedByStrangers
    <2> SUFFICES ASSUME BridgeInit
                 PROVE  EndedByStrangers
      OBVIOUS
    <2>1. upstream = <<>> /\ process = "running" /\ Len(stanzas) = 0
      BY DEF BridgeInit, Init
    <2> QED
      BY <2>1 DEF EndedByStrangers, OneAtATime, StanzasPublished, OnlyStrangersEndIt
  <1>2. BridgeTypeOK /\ BlockedListReplicated /\ EndedByStrangers /\ [BridgeNext]_bridgeVars
            => EndedByStrangers'
    <2> SUFFICES ASSUME BridgeTypeOK, BlockedListReplicated, EndedByStrangers,
                        [BridgeNext]_bridgeVars
                 PROVE  EndedByStrangers'
      OBVIOUS
    <2>1. CASE HandlePresence
      BY <2>1, HandlePresenceStep, PresenceEnds
    <2>2. CASE UNCHANGED bridgeVars
      BY <2>2
         DEF bridgeVars, vars, EndedByStrangers, OneAtATime, StanzasPublished,
             OnlyStrangersEndIt, Sensible, IsContact, Listed
    <2> QED
      BY <2>1, <2>2, SessionEnds, PublishEnds DEF BridgeNext
  <1>3. EndedByStrangers => OnlyStrangersEndIt
    BY DEF EndedByStrangers
  <1> QED
    BY <1>1, <1>2, <1>3, BridgeTypeCorrect, BridgeBlockedListIsReplicated, PTL DEF BridgeSpec
=============================================================================
