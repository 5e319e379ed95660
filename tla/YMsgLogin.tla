------------------------------ MODULE YMsgLogin ------------------------------
(***************************************************************************)
(* The login of one messenger: the AuthenticationHandler whose dispatch    *)
(* map is installed first, the two back ends that can begin the session,   *)
(* and the step from the login's dispatch map to the session's.            *)
(*                                                                         *)
(* The mock back end begins the session while it handles the               *)
(* Authentication packet.  The gloox back end opens an XMPP connection     *)
(* first, whose socket joins the same pump, and begins the session when    *)
(* that is up; the login's dispatch map stays in place meanwhile.          *)
(*                                                                         *)
(* The session thread runs one handler at a time.  BeginSession writes its *)
(* packets one after the other, so the messenger may have read and         *)
(* answered the first before the last is sent and the map is replaced.     *)
(***************************************************************************)
EXTENDS Naturals, Sequences, FiniteSets

CONSTANTS
    BackEnd,       \* "mock" or "gloox"
    Ids,           \* login ids
    NoId,          \* the empty id
    Versions,      \* protocol versions
    SessionIds,    \* session ids
    Leftover,      \* what an uninitialised field holds: any value, told apart here
    Orderly,       \* TRUE: the messenger waits for each reply (see InTurn)
    MaxAsked,      \* bound: packets the messenger sends
    MaxDownstream  \* bound: packets in flight when a handler starts

ASSUME LoginAssumption ==
    /\ BackEnd \in {"mock", "gloox"}
    /\ NoId \notin Ids
    /\ Leftover \notin Versions \cup SessionIds
    /\ Orderly \in BOOLEAN
    /\ MaxAsked \in Nat
    /\ MaxDownstream \in Nat \ {0}

VARIABLES
    version,      \* ClientConnection::protocolVersion_
    sessionId,    \* ClientConnection::sessionId_
    clientId,     \* AuthenticationHandler::clientId_
    availability, \* AuthenticationHandler::initialAvailability_
    map,          \* PacketDispatcher::processors_: the "login"'s or the "session"'s
    session,      \* what the SessionContext was built with, or NoSession
    xmpp,         \* the XMPP clients, in the order they were made
    running,      \* the step of the running handler, or "idle"
    process,      \* "running", or "terminated" by an exception no one catches
    asked,        \* history: the packets the messenger has sent
    upstream,     \* those not yet dispatched
    downstream,   \* packets sent and not yet read by the messenger
    heard,        \* the types of the packets the messenger has read
    ignored       \* history: requests of a session dispatched to the login's map

connection == <<version, sessionId>>
handler == <<clientId, availability>>
messenger == <<asked, heard>>
vars == <<connection, handler, map, session, xmpp, running, process, messenger, upstream,
          downstream, ignored>>

NoSession == [clientId |-> NoId, availability |-> "Offline", begun |-> FALSE]

\* What the messenger sends.  A request of a session remembers whether the
\* messenger had its profile by then.
Request ==
         [service : {"ProtocolSync"}, version : Versions]
    \cup [service : {"ChallengeRequest"}, clientId : Ids]
    \cup [service : {"Authentication"}, clientId : Ids, invisible : BOOLEAN]
    \cup [service : {"SessionRequest"}, informed : BOOLEAN]

\* An XMPP client of the gloox back end, in the states XmppLink has for it:
\* a link that is up is one of a session that has begun or has not.
XmppState == {"connecting", "connected", "refused", "dead", "lost"}
XmppClient == [clientId : Ids \cup {NoId}, state : XmppState]

SessionPacketType == {"ClientProfile", "ContactStatus", "PingConfiguration", "SessionReply"}

Packet ==
    [type : {"ProtocolAck", "ChallengeResponse"} \cup SessionPacketType,
     version : Versions \cup {Leftover}, sessionId : SessionIds \cup {Leftover}]

-----------------------------------------------------------------------------

\* The connection's fields are read before anything has written them, so
\* their first values are whatever the memory held.
Init ==
    /\ version = Leftover
    /\ sessionId = Leftover
    /\ clientId = NoId
    /\ availability = "Offline"
    /\ map = "login"
    /\ session = NoSession
    /\ xmpp = <<>>
    /\ running = "idle"
    /\ process = "running"
    /\ asked = <<>>
    /\ upstream = <<>>
    /\ downstream = <<>>
    /\ heard = {}
    /\ ignored = {}

-----------------------------------------------------------------------------
(* The messenger.                                                          *)

\* An orderly messenger sends each packet of the handshake once, in turn,
\* when it has read the reply to the one before, and logs in as the id it
\* was challenged for.  It asks for nothing before it has its profile.
InTurn(r) ==
    \/ r.service = "ProtocolSync" /\ asked = <<>>
    \/ r.service = "ChallengeRequest" /\ Len(asked) = 1 /\ "ProtocolAck" \in heard
    \/ /\ r.service = "Authentication" /\ Len(asked) = 2 /\ "ChallengeResponse" \in heard
       /\ r.clientId = asked[2].clientId
    \/ r.service = "SessionRequest" /\ r.informed

Ask(r) ==
    /\ process = "running"
    /\ Len(asked) < MaxAsked
    /\ r.service = "SessionRequest" => r.informed = ("ClientProfile" \in heard)
    /\ Orderly => InTurn(r)
    /\ asked' = Append(asked, r)
    /\ upstream' = Append(upstream, r)
    /\ UNCHANGED <<connection, handler, map, session, xmpp, running, process, downstream, heard,
                   ignored>>

Read ==
    /\ downstream # <<>>
    /\ heard' = heard \cup {Head(downstream).type}
    /\ downstream' = Tail(downstream)
    /\ UNCHANGED <<connection, handler, map, session, xmpp, running, process, asked, upstream,
                   ignored>>

-----------------------------------------------------------------------------
(* The login's handlers.                                                   *)

\* The pump polls the socket of a client that has closed it: select fails and
\* nothing is served.
Starved == \E i \in DOMAIN xmpp : xmpp[i].state = "dead"

\* The session thread is about to dispatch a packet of this service.
Dispatch(service) ==
    /\ process = "running"
    /\ running = "idle"
    /\ ~Starved
    /\ upstream # <<>>
    /\ Head(upstream).service = service
    /\ Len(downstream) < MaxDownstream
    /\ upstream' = Tail(upstream)
    /\ UNCHANGED messenger

\* Builder::Initialize stamps a packet with what the connection holds now.
Reply(type) ==
    downstream' = Append(downstream, [type |-> type, version |-> version', sessionId |-> sessionId'])

\* Slip: no acknowledgement.
OnProtocolSyncSilent ==
    /\ Dispatch("ProtocolSync")
    /\ map = "login"
    /\ version' = Head(upstream).version
    /\ UNCHANGED <<sessionId, handler, map, session, xmpp, running, process, downstream, ignored>>

OnProtocolSync ==
    /\ Dispatch("ProtocolSync")
    /\ map = "login"
    /\ version' = Head(upstream).version
    /\ UNCHANGED sessionId
    /\ Reply("ProtocolAck")
    /\ UNCHANGED <<handler, map, session, xmpp, running, process, ignored>>

\* Slip: the id is answered and not kept.
OnChallengeRequestForgotten ==
    /\ Dispatch("ChallengeRequest")
    /\ map = "login"
    /\ UNCHANGED connection
    /\ Reply("ChallengeResponse")
    /\ UNCHANGED <<handler, map, session, xmpp, running, process, ignored>>

OnChallengeRequest ==
    /\ Dispatch("ChallengeRequest")
    /\ map = "login"
    /\ clientId' = Head(upstream).clientId
    /\ UNCHANGED connection
    /\ Reply("ChallengeResponse")
    /\ UNCHANGED <<availability, map, session, xmpp, running, process, ignored>>

\* The mock back end builds the session with what the handler holds.
BeginMockSession ==
    /\ session' = [clientId |-> clientId, availability |-> availability', begun |-> TRUE]
    /\ running' = "SetSessionId"
    /\ UNCHANGED <<xmpp, process>>

\* The gloox back end connects and hands its socket to the pump, or throws.
\* The client it makes is to call the handler back.
ConnectXmpp ==
    \/ /\ xmpp' = Append(xmpp, [clientId |-> clientId, state |-> "connecting"])
       /\ UNCHANGED <<session, running, process>>
    \/ /\ process' = "terminated"
       /\ UNCHANGED <<session, xmpp, running>>

\* Slip: the attribute is taken for the availability.
OnAuthenticateInvisible ==
    /\ Dispatch("Authentication")
    /\ map = "login"
    /\ availability' = IF Head(upstream).invisible THEN "Invisible" ELSE "Available"
    /\ \/ BackEnd = "mock" /\ BeginMockSession
       \/ BackEnd = "gloox" /\ ConnectXmpp
    /\ UNCHANGED <<connection, clientId, map, downstream, ignored>>

\* An id other than the one challenged for goes unnoticed.
OnAuthenticate ==
    /\ Dispatch("Authentication")
    /\ map = "login"
    /\ availability' = IF Head(upstream).invisible THEN "Offline" ELSE "Available"
    /\ \/ BackEnd = "mock" /\ BeginMockSession
       \/ BackEnd = "gloox" /\ ConnectXmpp
    /\ UNCHANGED <<connection, clientId, map, downstream, ignored>>

\* The XMPP connection is up: the session is built with what the handler
\* holds by now, or the roster is one the bridge throws on.  gloox may have
\* closed its socket in the same recv.
OnSessionAuthenticated ==
    /\ process = "running"
    /\ running = "idle"
    /\ ~Starved
    /\ Len(downstream) < MaxDownstream
    /\ \E i \in DOMAIN xmpp, state \in {"connected", "dead"} :
          /\ xmpp[i].state = "connecting"
          /\ xmpp' = [xmpp EXCEPT ![i].state = state]
    /\ \/ /\ session' = [clientId |-> clientId, availability |-> availability, begun |-> TRUE]
          /\ running' = "SetSessionId"
          /\ UNCHANGED process
       \/ /\ process' = "terminated"
          /\ UNCHANGED <<session, running>>
    /\ UNCHANGED <<connection, handler, map, messenger, upstream, downstream, ignored>>

\* The server refuses to go on with a login; gloox closes its socket; or the
\* pump drops it and with it the client, which it can no more while it is
\* starved, unless the dead handle comes to stand for another socket.
Before(state) ==
    CASE state = "refused" -> {"connecting"}
      [] state = "dead" -> {"connecting", "connected", "refused"}
      [] state = "lost" -> IF Starved THEN {"dead"} ELSE XmppState \ {"dead", "lost"}

\* Nobody tells the messenger.
LoseXmpp ==
    /\ process = "running"
    /\ running = "idle"
    /\ \E i \in DOMAIN xmpp, state \in {"refused", "dead", "lost"} :
          /\ state # "lost" => ~Starved
          /\ xmpp[i].state \in Before(state)
          /\ xmpp' = [xmpp EXCEPT ![i].state = state]
    /\ UNCHANGED <<connection, clientId, availability, map, session, running, process, messenger, upstream,
                   downstream, ignored>>

-----------------------------------------------------------------------------
(* The rest of the handler that begins the session, one step at a time.    *)

Step(this, next) ==
    /\ process = "running"
    /\ running = this
    /\ running' = next
    /\ UNCHANGED <<clientId, availability, session, xmpp, process, messenger, upstream, ignored>>

\* Slip: no id is drawn.
SetSessionIdForgotten ==
    /\ Step("SetSessionId", "SendProfile")
    /\ UNCHANGED <<connection, map, downstream>>

\* The id is a call of rand.
SetSessionId ==
    /\ Step("SetSessionId", "SendProfile")
    /\ sessionId' \in SessionIds
    /\ UNCHANGED <<version, map, downstream>>

SendProfile ==
    /\ Step("SendProfile", "SendStatus")
    /\ UNCHANGED <<connection, map>>
    /\ Reply("ClientProfile")

SendStatus ==
    /\ Step("SendStatus", "SendPing")
    /\ UNCHANGED <<connection, map>>
    /\ Reply("ContactStatus")

SendPing ==
    /\ Step("SendPing", "SetDispatchMap")
    /\ UNCHANGED <<connection, map>>
    /\ Reply("PingConfiguration")

\* Slip: the dispatcher keeps the login's map.
SetDispatchMapForgotten ==
    /\ Step("SetDispatchMap", "idle")
    /\ UNCHANGED <<connection, map, downstream>>

\* The map that held the handler is gone.
SetDispatchMap ==
    /\ Step("SetDispatchMap", "idle")
    /\ map' = "session"
    /\ UNCHANGED <<connection, downstream>>

-----------------------------------------------------------------------------

\* A packet of a service the map does not have is parsed and forgotten.
Ignore ==
    \E service \in {"ProtocolSync", "ChallengeRequest", "Authentication", "SessionRequest"} :
        /\ Dispatch(service)
        /\ (map = "login") <=> (service = "SessionRequest")
        /\ ignored' = IF service = "SessionRequest" THEN ignored \cup {Head(upstream)} ELSE ignored
        /\ UNCHANGED <<connection, handler, map, session, xmpp, running, process, downstream>>

\* A request of the session, whose handlers are those of YMsgSession.
ServeSession ==
    /\ Dispatch("SessionRequest")
    /\ map = "session"
    /\ UNCHANGED connection
    /\ Reply("SessionReply")
    /\ UNCHANGED <<handler, map, session, xmpp, running, process, ignored>>

Begin == SetSessionId \/ SendProfile \/ SendStatus \/ SendPing \/ SetDispatchMap

Handle ==
    \/ OnProtocolSync \/ OnChallengeRequest \/ OnAuthenticate
    \/ Begin
    \/ Ignore \/ ServeSession

Next ==
    \/ \E r \in Request : Ask(r)
    \/ Read
    \/ Handle
    \/ OnSessionAuthenticated
    \/ LoseXmpp

Spec == Init /\ [][Next]_vars

\* A login with an XMPP server comes to an end.
EndAttempt ==
    /\ OnSessionAuthenticated \/ LoseXmpp
    /\ \E i \in DOMAIN xmpp : xmpp[i].state = "connecting" /\ xmpp'[i].state # "connecting"

\* The session thread keeps polling and the messenger keeps reading.  That an
\* attempt ends is what XmppClient shows of the gloox client (LoginEnds).  An
\* XMPP connection that is up may stay up.
FairSpec ==
    /\ Spec
    /\ WF_vars(Handle)
    /\ WF_vars(EndAttempt)
    /\ WF_vars(Read)

-----------------------------------------------------------------------------
(* Properties.                                                             *)

\* Type invariant.
TypeOK ==
    /\ version \in Versions \cup {Leftover}
    /\ sessionId \in SessionIds \cup {Leftover}
    /\ clientId \in Ids \cup {NoId}
    /\ availability \in {"Available", "Offline"}
    /\ map \in {"login", "session"}
    /\ session \in [clientId : Ids \cup {NoId}, availability : {"Available", "Offline"},
                    begun : BOOLEAN]
    /\ xmpp \in Seq(XmppClient)
    /\ running \in {"idle", "SetSessionId", "SendProfile", "SendStatus", "SendPing",
                    "SetDispatchMap"}
    /\ process \in {"running", "terminated"}
    /\ asked \in Seq(Request)
    /\ upstream \in Seq(Request)
    /\ downstream \in Seq(Packet)
    /\ heard \subseteq {"ProtocolAck", "ChallengeResponse"} \cup SessionPacketType
    /\ ignored \subseteq Request

\* The mock back end, or a messenger that authenticates only once: with the
\* gloox one a second Authentication packet makes a second XMPP client.
OneLogin == BackEnd = "mock" \/ Orderly

\* Every packet of a session in flight carries the session id that was drawn
\* for it, never what the connection held before SetSessionId, and the
\* version in force: neither field changes under the packets of a session.
SessionPacketsAreStamped ==
    OneLogin => \A i \in DOMAIN downstream :
        downstream[i].type \in SessionPacketType =>
            /\ downstream[i].sessionId = sessionId /\ sessionId # Leftover
            /\ downstream[i].version = version

\* A session that has begun is not replaced by another one on the same
\* connection: the map that would dispatch a second Authentication packet is
\* gone when the next packet is dispatched.
OneSession == [][session.begun /\ OneLogin => session' = session]_vars

\* A request the messenger sent after it had read its profile is served by
\* the session, although the profile is sent before the session's map is in
\* place.
InformedRequestsAreServed == \A r \in ignored : ~r.informed

\* An orderly messenger gets the session it asked for: its id, its version,
\* and offline if and only if it logged in invisible.  With the gloox back
\* end the session is built from the handler's fields when XMPP is up, and
\* it is for the account that logged in there.
OrderlyGetsItsSession ==
    Orderly /\ session.begun =>
        /\ version = asked[1].version
        /\ session.clientId = asked[2].clientId
        /\ session.availability = "Offline" <=> asked[3].invisible
        /\ BackEnd = "gloox" => session.clientId = xmpp[1].clientId

\* The session cannot be had, or no more: an exception, or a connection to
\* XMPP that was refused, is dead or lost.
GivenUp ==
    process = "terminated" \/ \E i \in DOMAIN xmpp : xmpp[i].state \in {"refused", "dead", "lost"}
Answers == <<"ProtocolAck", "ChallengeResponse", "PingConfiguration">>

\* An orderly messenger that has sent a packet of the handshake hears of it,
\* and its requests are dispatched to a session in the end, unless the back
\* end has lost or refused the connection to XMPP.
LoginCompletes ==
    Orderly =>
        /\ \A i \in 1 .. 3 : Len(asked) >= i ~> (Answers[i] \in heard \/ GivenUp)
        /\ Len(asked) >= 3 ~> (map = "session" \/ GivenUp)
=============================================================================
