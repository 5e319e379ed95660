------------------------------ MODULE YMsgBridge ------------------------------
(***************************************************************************)
(* A session of the gloox back end: the session of YMsgSession, with the   *)
(* XMPP roster as its contacts, under the full ids they have there, and no *)
(* profiles, and the presence of these contacts, looked up under the bare  *)
(* ids of those it is from.  It arrives on the XMPP client's socket, and   *)
(* the thread that serves the messenger's requests handles it between two  *)
(* of them, against a contact list the messenger may have edited since:    *)
(* the XMPP server never hears of these edits.                             *)
(***************************************************************************)
EXTENDS YMsgSession

CONSTANTS
    Bare,      \* an id without its resource
    Stanzas,   \* the presence the XMPP server may send: whose, and what
    MaxStanzas \* bound: stanzas on their way to the client

\* gloox::Presence
Presence ==
    [show : {"Available", "Chat", "Away", "DND", "XA", "Unavailable", "Error"}, status : Message]

\* It is from the full id of someone's client.
Stanza == [from : Ids, presence : Presence]

ASSUME BridgeAssumption ==
    /\ Profiles = {}
    /\ Bare \in [Ids -> Ids]
    /\ \A id \in Ids : Bare[Bare[id]] = Bare[id]
    /\ Stanzas \subseteq Stanza
    /\ Absent \notin Presence
    /\ MaxStanzas \in Nat

VARIABLES
    stanzas,   \* presence on its way to the client
    published, \* history: the last presence of everyone, by bare id
    followed   \* history: the contacts whose present entry has seen a presence

bridgeVars == <<vars, stanzas, published, followed>>

BridgeInit ==
    /\ Init
    /\ stanzas = <<>>
    /\ published = Nothing
    /\ followed = {}

Sender(s) == Bare[s.from]

\* A presence without a text that is no state of a contact.
Ignored(p) == p.show = "Error" /\ p.status = NoMessage

\* Someone's presence changes, or someone cannot be reached.
Publish(s) ==
    /\ process = "running"
    /\ Len(stanzas) < MaxStanzas
    /\ stanzas' = Append(stanzas, s)
    /\ published' = IF Ignored(s.presence) THEN published
                    ELSE [published EXCEPT ![Sender(s)] = s.presence]
    /\ UNCHANGED <<vars, followed>>

-----------------------------------------------------------------------------
(* PresenceHandler and PresenceEvents.                                     *)

\* Slip: one that is free to chat is not.
AtHomeAvailable == {"Available"}

\* Those of a contact that is there.
AtHome == {"Available", "Chat"}

\* Slip: the two protocols' states are taken for the same.
AwayAsIs(show) == show

\* Those of a contact that is away, which the messenger knows by other names.
AwayAs(show) == IF show = "Away" THEN "Brb" ELSE "Busy"

IsBusyWhen(show) == show # "Away"

\* isAwayOrBusy
IsAwayOrBusy(show) == show \in {"Away", "DND", "XA"}

\* A text counts for more than the state it comes with.
Changed(c, p) ==
    IF p.status # NoMessage THEN SetContactStatusMessage(c, p.status, IsAwayOrBusy(p.show))
    ELSE CASE p.show \in AtHome -> SetContactAvailable(c)
           [] IsAwayOrBusy(p.show) -> SetContactAway(c, AwayAs(p.show), IsBusyWhen(p.show))
           [] OTHER -> SetContactOffline(c)

\* Slip: a contact the user has added is not found.
IsKnownLinked(id) == IsContact(id) /\ contacts[id].state = "Linked"

IsKnown(id) == IsContact(id)

\* Slip: nobody is told of one that leaves.
ShowSilent(id) ==
    IF IsOnline(contacts'[id]) THEN UpdateContactStatus(contacts', {id}) ELSE <<>>

\* Whether the packet asks the messenger for a notification is left out.
Show(id) ==
    IF IsOnline(contacts'[id]) THEN UpdateContactStatus(contacts', {id}) ELSE ContactOffline({id})

HandlePresence ==
    /\ process = "running"
    /\ stanzas # <<>>
    /\ Len(downstream) < MaxDownstream
    /\ stanzas' = Tail(stanzas)
    /\ LET id == Sender(Head(stanzas))
           p == Head(stanzas).presence
       IN  \/ Ignored(p) /\ Answer(<<>>) /\ UNCHANGED followed
           \/ ~Ignored(p) /\ ~IsKnown(id) /\ Throw /\ UNCHANGED followed
           \/ /\ ~Ignored(p) /\ IsKnown(id)
              /\ contacts' = [contacts EXCEPT ![id] = Changed(@, p)]
              /\ Reply(Show(id))
              /\ followed' = followed \cup {id}
              /\ UNCHANGED <<blocked, presence>>
    /\ UNCHANGED <<upstream, picture, published>>

\* What the messenger asks for meanwhile.
Session ==
    /\ Next
    /\ followed' = followed \cap Listed(contacts')
    /\ UNCHANGED <<stanzas, published>>

BridgeNext ==
    \/ Session
    \/ \E s \in Stanzas : Publish(s)
    \/ HandlePresence

BridgeSpec == BridgeInit /\ [][BridgeNext]_bridgeVars

\* The pump visits every socket that has something to read in each of its
\* rounds, and the messenger keeps reading.  Nobody has to ask or to publish.
BridgeFairSpec ==
    /\ BridgeSpec
    /\ WF_bridgeVars(Session /\ Handle)
    /\ WF_bridgeVars(HandlePresence)
    /\ WF_bridgeVars(Session /\ process = "running" /\ Read)

-----------------------------------------------------------------------------
(* Properties, besides those of YMsgSession: with presence coming in from  *)
(* the other side the messenger's picture must still be a replica that     *)
(* only lags (StatusReplicated, ContactListReplicated).                    *)

\* Type invariant.
BridgeTypeOK ==
    /\ TypeOK
    /\ stanzas \in Seq(Stanza)
    /\ published \in ContactMap(Presence)
    /\ followed \subseteq Ids

\* What a contact that has published p is shown as.
Shown(p) ==
    IF p.status # NoMessage THEN "Custom"
    ELSE CASE p.show \in {"Available", "Chat"} -> "Available"
           [] p.show = "Away" -> "Brb"
           [] p.show \in {"DND", "XA"} -> "Busy"
           [] OTHER -> "Offline"

AllArrived == process # "outgrown" /\ stanzas = <<>> /\ downstream = <<>>

\* From one end to the other: once everything on its way has arrived, the
\* messenger shows each contact as its last presence says, whatever it
\* published before, and although the user edits the list, and removes and
\* adds the contact, meanwhile.  The busy flag is not part of it: it may
\* still be that of an earlier presence.
ShownIsPublished ==
    AllArrived =>
        \A id \in followed :
            LET status == picture.statuses[id]
                p == published[id]
            IN  IF status = Absent THEN Shown(p) = "Offline"
                ELSE /\ status.availability = Shown(p)
                     /\ Shown(p) = "Custom" => status.customMessage = p.status

\* With a careful messenger no handler's own throw ends the session but that
\* of a presence that nobody in the contact list has under its bare id: the
\* user's, that of a contact the user has removed or of one added from
\* elsewhere, or that of one the roster has under an id with a resource.  The
\* Builder's throw, which any text that is too long may cause, is not one of
\* them: it leaves the process "outgrown".
OnlyStrangersEndIt ==
    process = "terminated" /\ Careful =>
        \E id \in Listed(published) : ~IsContact(id)

\* When the user stops asking and the contacts stop publishing, everything
\* is handled and the messenger holds the server's address book.
BridgeConverges ==
    (<>[][(\A r \in Requests : ~Ask(r)) /\ (\A s \in Stanzas : ~Publish(s))]_bridgeVars)
        => <>[](process # "running" \/ (InStep /\ stanzas = <<>>))

\* Contrary to the code: a presence "Unavailable" says "The entity is
\* offline", so the messenger shows no status of such a contact.
LeavingIsOffline ==
    AllArrived => \A id \in followed :
                published[id].show = "Unavailable" => picture.statuses[id] = Absent
=============================================================================
