------------------------------ MODULE XmppClient ------------------------------
(***************************************************************************)
(* The XMPP side of a bridged session: the ConnectionPump with its two     *)
(* sockets, the messenger's and the XMPP client's, and gloox's client from *)
(* its connect to the callback that begins the session.                    *)
(*                                                                         *)
(* gloox works inside the callback of its socket: one recv brings in some  *)
(* elements of the XML stream, and each is handled, and answered, before   *)
(* the callback returns.  It may close the socket meanwhile, because the   *)
(* server ends the stream, refuses the login, or a send fails.  Its recv   *)
(* reports no error then, and the pump keeps the handle.                   *)
(***************************************************************************)
EXTENDS Naturals, Sequences, FiniteSets

CONSTANTS
    Offers,      \* the features a server may advertise on a stream
    MaxUnread,   \* bound: elements unread when the server sends one unasked
    MaxUnasked   \* bound: elements the server sends unasked

\* What this client looks for among the features.  Any other is "other".
Login == {"scram", "digest", "plain", "iq"}
Feature == Login \cup {"starttls", "bind", "session", "other"}

ASSUME ClientAssumption ==
    /\ Offers \subseteq SUBSET Feature
    /\ MaxUnread \in Nat
    /\ MaxUnasked \in Nat

VARIABLES
    messenger,  \* its end of its connection: "open", "closed" or "reset"
    request,    \* the packet it waits to have dispatched: "authentication", "other" or "none"
    tried,      \* history: whether it has authenticated
    attached,   \* the sockets ConnectionPump::onDateCallbacks_ has
    ready,      \* those select has reported and the pump has not visited
    pump,       \* the session thread: about to "select", in the "walk" over what is
                \* ready, handling the "elements" of a recv, back from Pump ("returned"),
                \* or "terminated" by an exception
    run,        \* Pump's loop condition
    client,     \* the gloox client
    handle,     \* what the socket handle it was attached under stands for: nothing yet
                \* ("none"), its "own" socket, none any more ("closed") or "another" of the process
    elements,   \* what the recv under way has read and not handled
    fromServer, \* elements on their way to the client
    toServer,   \* elements on their way to the server
    line,       \* the server's end of the connection: "open", "closed" or "reset"
    server,     \* what the server holds of the login
    sessions,   \* history: how often the session has begun
    refused,    \* history: whether the login has met an answer that leads nowhere
    exposed     \* history: whether a secret has been sent without encryption

network == <<fromServer, toServer>>
thread == <<attached, ready, pump, run>>
history == <<sessions, refused, exposed>>
vars == <<messenger, request, tried, thread, client, handle, elements, network, line, server, history>>

-----------------------------------------------------------------------------
(* The elements of the stream.                                             *)

\* The context of an IQ, by which its answer finds the handler.
Context == {"fields", "credentials", "bind", "session", "roster"}

\* A challenge as the mechanism has it, one with an iteration count that makes
\* for no rounds, and one that lacks a field.
Kind == {"proper", "uncounted", "lacking"}

\* The server's signature in a success: what the password makes of the
\* challenge, what an uncounted challenge makes of no password, anything else,
\* or none because the mechanism has none.
Signature == {"secret", "open", "wrong", "none"}

\* What the server sends.
Element ==
         [name : {"stream", "old stream", "stream error", "end", "proceed", "tls failure",
                  "tls done", "tls broken", "sasl failure", "ask", "presence"}]
    \cup [name : {"features"}, offers : SUBSET Feature]
    \cup [name : {"challenge"}, kind : Kind]
    \cup [name : {"success"}, signature : Signature]
    \cup [name : {"result", "error"}, to : Context]

\* What the client sends.
Stanza ==
         [name : {"header", "starttls", "handshake", "close", "answer", "presence"}]
    \cup [name : {"auth", "response"}, mech : Login]
    \cup [name : {"iq"}, to : Context]

\* Those that hold the password, or what can stand for it.
Secret(stanza) ==
    \/ stanza.name = "auth" /\ stanza.mech = "plain"
    \/ stanza.name = "iq" /\ stanza.to = "credentials"

NoClient ==
    [connected |-> FALSE, encrypted |-> FALSE, authed |-> FALSE, bound |-> FALSE,
     features |-> {}, mech |-> "none", signature |-> "unset", awaiting |-> {}]

\* A server holds "forged" when it accepts a login by a mechanism that asks it
\* to prove that it knows the password, and does not know it.
NoLogin ==
    [encrypted |-> FALSE, authed |-> "no", bound |-> FALSE, offered |-> {}, challenges |-> 0,
     unasked |-> 0, ended |-> FALSE]

Init ==
    /\ messenger = "open"
    /\ request = "none"
    /\ tried = FALSE
    /\ attached = {"messenger"}
    /\ ready = {}
    /\ pump = "select"
    /\ run = TRUE
    /\ client = NoClient
    /\ handle = "none"
    /\ elements = <<>>
    /\ fromServer = <<>>
    /\ toServer = <<>>
    /\ line = "open"
    /\ server = NoLogin
    /\ sessions = 0
    /\ refused = FALSE
    /\ exposed = FALSE

-----------------------------------------------------------------------------
(* The messenger, which waits for each reply.                              *)

Ask ==
    /\ messenger = "open"
    /\ request = "none"
    /\ request' = IF tried THEN "other" ELSE "authentication"
    /\ UNCHANGED <<messenger, tried, thread, client, handle, elements, network, line, server,
                   history>>

Leave ==
    /\ messenger = "open"
    /\ messenger' \in {"closed", "reset"}
    /\ request' = "none"
    /\ UNCHANGED <<tried, thread, client, handle, elements, network, line, server, history>>

-----------------------------------------------------------------------------
(* The XMPP server, and the line.                                          *)

Says(name) == [name |-> name]

\* A stream offers TLS until it is encrypted, ways to log in until the
\* client has, and the rest only then.
Fitting ==
    {offers \in Offers :
        /\ server.encrypted => "starttls" \notin offers
        /\ IF server.authed = "no" THEN offers \cap {"bind", "session"} = {}
           ELSE offers \cap (Login \cup {"starttls"}) = {}}

\* What it says, and what it holds from then on.
Reply(says, holds) == [says |-> says, holds |-> holds]
Simply(names) == {Reply(<<Says(name)>>, server) : name \in names}

\* It authenticates a client once.
Accept(as, signatures) ==
    {Reply(<<[name |-> "success", signature |-> signature]>>, [server EXCEPT !.authed = as]) :
        signature \in IF server.authed = "no" THEN signatures ELSE {}}

Challenge ==
    {Reply(<<[name |-> "challenge", kind |-> kind]>>, [server EXCEPT !.challenges = @ + 1]) :
        kind \in IF server.authed = "no" THEN Kind ELSE {}}

Result(context, holds) ==
    {Reply(<<[name |-> "result", to |-> context]>>, holds),
     Reply(<<[name |-> "error", to |-> context]>>, server)}

\* The answers to what the client has sent.
Replies(stanza) ==
    CASE stanza.name = "header" ->
            {Reply(<<Says("stream"), [name |-> "features", offers |-> offers]>>,
                   [server EXCEPT !.offered = @ \cup offers]) : offers \in Fitting}
            \cup Simply({"old stream"})
      [] stanza.name = "starttls" -> Simply({"proceed", "tls failure"})
      [] stanza.name = "handshake" ->
            {Reply(<<Says("tls done")>>, [server EXCEPT !.encrypted = TRUE])}
            \cup Simply({"tls broken"})
      [] stanza.name = "auth" ->
            Simply({"sasl failure"})
            \cup (IF stanza.mech = "plain" THEN Accept("yes", {"none"}) ELSE Challenge)
      [] stanza.name = "response" ->
            Simply({"sasl failure"})
            \cup (IF server.challenges < 2 THEN Challenge ELSE {})
            \cup (IF stanza.mech = "scram"
                  THEN Accept("yes", {"secret", "open"}) \cup Accept("forged", {"open", "wrong"})
                  ELSE Accept("yes", {"none"}))
      [] stanza.name = "iq" ->
            Result(stanza.to, CASE stanza.to = "credentials" -> [server EXCEPT !.authed = "yes"]
                                [] stanza.to = "bind" -> [server EXCEPT !.bound = TRUE]
                                [] OTHER -> server)
      [] OTHER -> {Reply(<<>>, server)}

\* What a server does after the client has closed its socket reaches nobody.
Serving ==
    /\ client.connected
    /\ line = "open"
    /\ ~server.ended
    /\ UNCHANGED <<messenger, request, tried, thread, client, handle, elements, history>>

Answer ==
    /\ Serving
    /\ toServer # <<>>
    /\ toServer' = Tail(toServer)
    /\ \E reply \in Replies(Head(toServer)) :
          /\ fromServer' = fromServer \o reply.says
          /\ server' = reply.holds
    /\ UNCHANGED line

\* Unasked: a request of its own (a ping, a roster push) to a client that
\* has bound its resource, presence, or the end of the stream.
Volunteer ==
    /\ Serving
    /\ Len(fromServer) < MaxUnread
    /\ server.unasked < MaxUnasked
    /\ \/ /\ server.bound
          /\ \E name \in {"ask", "presence"} : fromServer' = Append(fromServer, Says(name))
          /\ server' = [server EXCEPT !.unasked = @ + 1]
       \/ /\ \E says \in {<<Says("end")>>, <<Says("stream error"), Says("end")>>} :
                fromServer' = fromServer \o says
          /\ server' = [server EXCEPT !.unasked = @ + 1, !.ended = TRUE]
    /\ UNCHANGED <<toServer, line>>

\* The server shuts the connection down: what it sent before still arrives.
CloseLine ==
    /\ client.connected
    /\ line = "open"
    /\ line' = "closed"
    /\ UNCHANGED <<messenger, request, tried, thread, client, handle, elements, network, server,
                   history>>

\* The connection breaks: what has not been read is lost.
ResetLine ==
    /\ client.connected
    /\ line # "reset"
    /\ line' = "reset"
    /\ fromServer' = <<>>
    /\ toServer' = <<>>
    /\ UNCHANGED <<messenger, request, tried, thread, client, handle, elements, server, history>>

-----------------------------------------------------------------------------
(* gloox.                                                                  *)

\* Client::cleanup, which leaves what is awaited.
LoggedOut(c) == [c EXCEPT !.authed = FALSE, !.bound = FALSE, !.features = {}]

HungUp(c) == [LoggedOut(c) EXCEPT !.connected = FALSE, !.encrypted = FALSE]

\* The client is c and its socket is open or not accordingly.
Become(c) ==
    /\ client' = c
    /\ handle' = IF client.connected /\ ~c.connected THEN "closed" ELSE handle
    /\ fromServer' = IF c.connected THEN fromServer ELSE <<>>

\* ClientBase::send: nothing without a connection; when the socket refuses
\* the data, gloox disconnects there and then.
Send(c, stanza) ==
    /\ Become(IF c.connected /\ line = "reset" THEN HungUp(c) ELSE c)
    /\ toServer' = IF c.connected /\ line = "open" THEN Append(toServer, stanza) ELSE toServer
    /\ exposed' = (exposed \/ (c.connected /\ ~c.encrypted /\ Secret(stanza)))

Keep(c) == Become(c) /\ UNCHANGED <<toServer, exposed>>

\* Client::disconnect, which ends the stream unless TLS has failed.
Disconnect(farewell) ==
    /\ Become(IF client.connected THEN HungUp(client) ELSE LoggedOut(client))
    /\ toServer' = IF farewell /\ client.connected /\ line = "open"
                   THEN Append(toServer, Says("close")) ELSE toServer
    /\ UNCHANGED exposed

SendIq(c, context) == Send([c EXCEPT !.awaiting = @ \cup {context}], [name |-> "iq", to |-> context])

\* The next element of the recv under way.
Handle(name) ==
    /\ pump = "elements"
    /\ elements # <<>>
    /\ Head(elements).name = name
    /\ elements' = Tail(elements)
    /\ UNCHANGED <<messenger, request, tried, attached, ready, run, line, server>>

Quietly == UNCHANGED <<pump, sessions, refused>>

\* notifyOnConnect: the bridge begins the session, or throws on the roster.
BeginSession ==
    \/ sessions' = sessions + 1 /\ UNCHANGED <<pump, refused>>
    \/ pump' = "terminated" /\ UNCHANGED <<sessions, refused>>

\* Slip: the roster is asked for and not waited for.
ConnectedEarly(c) ==
    IF c.authed THEN SendIq(c, "roster") /\ BeginSession
    ELSE Keep(c) /\ BeginSession

\* Slip: the roster is not asked for.
ConnectedWithoutRoster(c) ==
    IF c.authed THEN Send(c, Says("presence")) /\ BeginSession
    ELSE Keep(c) /\ BeginSession

\* Client::connected.  A client that has lost its authentication meanwhile
\* is taken for one that needs none.
Connected(c) ==
    IF c.authed THEN SendIq(c, "roster") /\ Quietly ELSE Keep(c) /\ BeginSession

OnStream == Handle("stream") /\ Keep(client) /\ Quietly

OnOldStream == Handle("old stream") /\ Disconnect(TRUE) /\ Quietly

OnStreamError == Handle("stream error") /\ Disconnect(TRUE) /\ Quietly

OnEnd == Handle("end") /\ Disconnect(TRUE) /\ Quietly

\* Client::login, by the first way both sides know.
Authenticate(c) ==
    IF c.features \cap Login = {} THEN Disconnect(TRUE)
    ELSE LET mech == IF "scram" \in c.features THEN "scram"
                     ELSE IF "digest" \in c.features THEN "digest"
                     ELSE IF "plain" \in c.features THEN "plain" ELSE "iq"
         IN  IF mech = "iq" THEN SendIq(c, "fields")
             ELSE Send([c EXCEPT !.mech = mech], [name |-> "auth", mech |-> mech])

\* Slip: a stream without features is one without a way to log in.
StreamFeaturesNone(offers) == IF offers = {} THEN {"none"} ELSE offers

\* A stream without features is one of before there were any.
StreamFeatures(offers) == IF offers = {} THEN {"iq"} ELSE offers

OnFeatures ==
    /\ Handle("features")
    /\ LET c == [client EXCEPT !.features = StreamFeatures(Head(elements).offers)]
       IN  \/ /\ "starttls" \in c.features /\ ~c.encrypted
              /\ Send(c, Says("starttls")) /\ Quietly
           \/ /\ "starttls" \in c.features => c.encrypted
              /\ ~c.authed
              /\ Authenticate(c) /\ Quietly
           \/ /\ "starttls" \in c.features => c.encrypted
              /\ c.authed /\ "bind" \in c.features
              /\ SendIq(c, "bind") /\ Quietly
           \/ /\ "starttls" \in c.features => c.encrypted
              /\ c.authed /\ "bind" \notin c.features
              /\ Keep(c) /\ refused' = TRUE /\ UNCHANGED <<pump, sessions>>

OnProceed ==
    /\ Handle("proceed")
    /\ Send([client EXCEPT !.encrypted = TRUE], Says("handshake"))
    /\ Quietly

\* The bridge accepts every certificate.
OnTlsDone == Handle("tls done") /\ Send(client, Says("header")) /\ Quietly

\* Slip: the login goes on without TLS.
OnTlsFailedAnyway ==
    /\ Handle("tls failure") \/ Handle("tls broken")
    /\ Authenticate([client EXCEPT !.encrypted = FALSE])
    /\ Quietly

OnTlsFailed ==
    /\ Handle("tls failure") \/ Handle("tls broken")
    /\ Disconnect(FALSE)
    /\ Quietly

OnSaslFailure == Handle("sasl failure") /\ Disconnect(TRUE) /\ Quietly

Respond(c) == Send(c, [name |-> "response", mech |-> c.mech]) /\ Quietly

\* A challenge of SCRAM's sets the signature its server will have to show, if
\* it lacks nothing and the password can be prepared; a response goes out in
\* any case.  One of DIGEST-MD5's that lacks the nonce gets none.
OnChallenge ==
    /\ Handle("challenge")
    /\ LET kind == Head(elements).kind
       IN  \/ /\ client.mech = "scram" /\ kind # "lacking"
              /\ Respond([client EXCEPT !.signature =
                             IF kind = "proper" THEN "secret" ELSE "open"])
           \/ /\ client.mech = "digest" => kind # "lacking"
              /\ Respond(client)
           \/ /\ client.mech = "digest" /\ kind = "lacking"
              /\ Keep(client) /\ refused' = TRUE /\ UNCHANGED <<pump, sessions>>

\* Slip: the server's signature is not verified.
OnSuccessUnverified ==
    /\ Handle("success")
    /\ Send([client EXCEPT !.authed = TRUE], Says("header"))
    /\ Quietly

\* Of the mechanisms, SCRAM lets the client check that the server knows the
\* password as well.  No signature is one that was never set: it has a length.
OnSuccess ==
    /\ Handle("success")
    /\ IF client.mech = "scram" /\ Head(elements).signature # client.signature
       THEN Disconnect(TRUE)
       ELSE Send([client EXCEPT !.authed = TRUE], Says("header"))
    /\ Quietly

\* The answer to an IQ that is awaited, and is then awaited no more.  A server
\* answers nothing else, and what is awaited outlasts the connection.
HandleIq(name, context) ==
    /\ Handle(name)
    /\ Head(elements).to = context
    /\ context \in client.awaiting

Answered(context) == [client EXCEPT !.awaiting = @ \ {context}]

OnBind ==
    /\ HandleIq("result", "bind")
    /\ LET c == [Answered("bind") EXCEPT !.bound = TRUE]
       IN  IF "session" \in c.features THEN SendIq(c, "session") /\ Quietly ELSE Connected(c)

OnSession == HandleIq("result", "session") /\ Connected(Answered("session"))

\* Nobody listens for a resource or a session that is refused.
OnRefused ==
    /\ HandleIq("error", "bind") \/ HandleIq("error", "session")
    /\ Keep(Answered(Head(elements).to))
    /\ refused' = TRUE
    /\ UNCHANGED <<pump, sessions>>

\* RosterManager::handleIqID: with the roster or without, the client is
\* available from now on.
OnRoster ==
    /\ HandleIq("result", "roster") \/ HandleIq("error", "roster")
    /\ Send(Answered("roster"), Says("presence"))
    /\ BeginSession

\* Slip: the answer is taken for the end of the login.
OnFieldsSilent ==
    /\ HandleIq("result", "fields")
    /\ Keep(Answered("fields"))
    /\ Quietly

\* Without the fields in the answer gloox does nothing more.
OnFields ==
    /\ HandleIq("result", "fields")
    /\ \/ SendIq(Answered("fields"), "credentials") /\ Quietly
       \/ Keep(Answered("fields")) /\ refused' = TRUE /\ UNCHANGED <<pump, sessions>>

OnCredentials ==
    /\ HandleIq("result", "credentials")
    /\ Connected([Answered("credentials") EXCEPT !.authed = TRUE])

OnNotAuthorized ==
    /\ HandleIq("error", "fields") \/ HandleIq("error", "credentials")
    /\ Disconnect(TRUE)
    /\ Quietly

\* A ping or a push of the roster.
OnAsk == Handle("ask") /\ Send(client, Says("answer")) /\ Quietly

\* The presence handler is there once the session has begun; it throws on a
\* contact it does not know.
OnPresence ==
    /\ Handle("presence")
    /\ Keep(client)
    /\ \/ Quietly
       \/ sessions > 0 /\ pump' = "terminated" /\ UNCHANGED <<sessions, refused>>

OnElement ==
    \/ OnStream \/ OnOldStream \/ OnStreamError \/ OnEnd
    \/ OnFeatures \/ OnProceed \/ OnTlsDone \/ OnTlsFailed
    \/ OnSaslFailure \/ OnChallenge \/ OnSuccess
    \/ OnBind \/ OnSession \/ OnRefused \/ OnRoster
    \/ OnFields \/ OnCredentials \/ OnNotAuthorized
    \/ OnAsk \/ OnPresence

-----------------------------------------------------------------------------
(* ConnectionPump::Pump and the callbacks of its two sockets.              *)

Env == <<messenger, line, server, history>>

\* The socket the pump's handle of the client stands for has data or an end.
Readable(socket) ==
    IF socket = "messenger" THEN request # "none" \/ messenger # "open"
    ELSE handle = "own" /\ (fromServer # <<>> \/ line # "open")

\* select looks at every socket attached, and fails as a whole if one of the
\* handles stands for none, or if there is none.
Select ==
    /\ pump = "select"
    /\ attached # {}
    /\ "xmpp" \in attached => handle # "closed"
    /\ \E strange \in SUBSET (IF handle = "another" THEN {"xmpp"} ELSE {}) :
          ready' = attached \cap (strange \cup {s \in {"messenger", "xmpp"} : Readable(s)})
    /\ ready' # {}
    /\ pump' = "walk"
    /\ UNCHANGED <<Env, request, tried, attached, run, client, handle, elements, network>>

Visit(socket) ==
    /\ pump = "walk"
    /\ socket \in ready
    /\ ready' = ready \ {socket}

\* FIONREAD fails on a broken connection, or on a handle given back: this
\* round is the last.
FailIoctl(socket) ==
    /\ Visit(socket)
    /\ IF socket = "messenger" THEN messenger = "reset"
       ELSE handle = "closed" \/ (handle = "own" /\ line = "reset")
    /\ run' = FALSE
    /\ UNCHANGED <<Env, request, tried, attached, pump, client, handle, elements, network>>

\* ProcessPendingData at the end of the messenger's stream.
DropMessenger ==
    /\ Visit("messenger")
    /\ messenger # "open"
    /\ attached' = attached \ {"messenger"}
    /\ UNCHANGED <<Env, request, tried, pump, run, client, handle, elements, network>>

\* Slip: the client's socket takes the place of the messenger's.
AuthenticationReplacing ==
    /\ Visit("messenger")
    /\ messenger = "open"
    /\ request = "authentication"
    /\ request' = "none"
    /\ tried' = TRUE
    /\ client' = [NoClient EXCEPT !.connected = TRUE]
    /\ handle' = "own"
    /\ attached' = {"xmpp"}
    /\ toServer' = <<Says("header")>>
    /\ UNCHANGED <<Env, pump, run, elements, fromServer>>

\* OnClientAuthenticated: connect, and attach the client's socket; the walk
\* under way does not see it.  Without a connection it throws.
Authentication ==
    /\ Visit("messenger")
    /\ messenger = "open"
    /\ request = "authentication"
    /\ request' = "none"
    /\ tried' = TRUE
    /\ \/ /\ client' = [NoClient EXCEPT !.connected = TRUE]
          /\ handle' = "own"
          /\ attached' = attached \cup {"xmpp"}
          /\ toServer' = <<Says("header")>>
          /\ UNCHANGED pump
       \/ /\ pump' = "terminated"
          /\ UNCHANGED <<client, handle, attached, toServer>>
    /\ UNCHANGED <<Env, run, elements, fromServer>>

\* Any other packet, whose handler is another module's.
ServeMessenger ==
    /\ Visit("messenger")
    /\ messenger = "open"
    /\ request = "other"
    /\ request' = "none"
    /\ UNCHANGED <<Env, tried, attached, pump, run, client, handle, elements, network>>

\* Slip: the end of the stream is taken for a read of nothing.
DropXmppUnnoticed ==
    /\ Visit("xmpp")
    /\ handle # "closed"
    /\ \/ /\ ~client.connected \/ line = "reset"
          /\ Become(HungUp(client))
          /\ attached' = attached \ {"xmpp"}
       \/ /\ client.connected /\ fromServer = <<>> /\ line = "closed"
          /\ UNCHANGED <<client, handle, fromServer, attached>>
    /\ UNCHANGED <<Env, request, tried, pump, run, elements, toServer>>

\* ConnectionTCPClient::recv finds the connection ended or broken and says
\* so, or the handle is not its socket's any more: the pump forgets it.
DropXmpp ==
    /\ Visit("xmpp")
    /\ handle # "closed"
    /\ ~client.connected \/ line = "reset" \/ (fromServer = <<>> /\ line = "closed")
    /\ Become(HungUp(client))
    /\ attached' = attached \ {"xmpp"}
    /\ UNCHANGED <<Env, request, tried, pump, run, elements, toServer>>

\* It reads some of what has arrived.
Recv ==
    /\ Visit("xmpp")
    /\ client.connected
    /\ line # "reset"
    /\ \E n \in 1 .. Len(fromServer) :
          /\ elements' = SubSeq(fromServer, 1, n)
          /\ fromServer' = SubSeq(fromServer, n + 1, Len(fromServer))
    /\ pump' = "elements"
    /\ UNCHANGED <<Env, request, tried, attached, run, client, handle, toServer>>

\* Whatever has become of the connection meanwhile, recv returns ConnNoError.
RecvReturns ==
    /\ pump = "elements"
    /\ elements = <<>>
    /\ pump' = "walk"
    /\ UNCHANGED <<Env, request, tried, attached, ready, run, client, handle, elements, network>>

EndWalk ==
    /\ pump = "walk"
    /\ ready = {}
    /\ pump' = IF run THEN "select" ELSE "returned"
    /\ UNCHANGED <<Env, request, tried, attached, ready, run, client, handle, elements, network>>

\* Another socket of the process gets the handle, or gives it back.
Reuse ==
    /\ "xmpp" \in attached
    /\ handle \in {"closed", "another"}
    /\ handle' = IF handle = "closed" THEN "another" ELSE "closed"
    /\ UNCHANGED <<Env, request, tried, thread, client, elements, network>>

Pump ==
    \/ Select
    \/ \E socket \in {"messenger", "xmpp"} : FailIoctl(socket)
    \/ DropMessenger \/ Authentication \/ ServeMessenger
    \/ DropXmpp \/ Recv \/ OnElement \/ RecvReturns
    \/ EndWalk

Next ==
    \/ Ask \/ Leave
    \/ Answer \/ Volunteer \/ CloseLine \/ ResetLine
    \/ Pump
    \/ Reuse

Spec == Init /\ [][Next]_vars

\* The session thread keeps going, and a server that owes an answer gives
\* it, or the line goes.  Nothing else has to happen: a server may stay up.
FairSpec ==
    /\ Spec
    /\ WF_vars(Pump)
    /\ WF_vars(toServer # <<>> /\ (Answer \/ CloseLine \/ ResetLine))

-----------------------------------------------------------------------------
(* Properties.                                                             *)

\* Type invariant.
TypeOK ==
    /\ messenger \in {"open", "closed", "reset"}
    /\ request \in {"none", "authentication", "other"}
    /\ tried \in BOOLEAN
    /\ attached \subseteq {"messenger", "xmpp"}
    /\ ready \subseteq {"messenger", "xmpp"}
    /\ pump \in {"select", "walk", "elements", "returned", "terminated"}
    /\ run \in BOOLEAN
    /\ client \in [connected : BOOLEAN, encrypted : BOOLEAN, authed : BOOLEAN, bound : BOOLEAN,
                   features : SUBSET Feature, mech : Login \cup {"none"},
                   signature : {"unset", "secret", "open"}, awaiting : SUBSET Context]
    /\ handle \in {"none", "own", "closed", "another"}
    /\ elements \in Seq(Element)
    /\ fromServer \in Seq(Element)
    /\ toServer \in Seq(Stanza)
    /\ line \in {"open", "closed", "reset"}
    /\ server \in [encrypted : BOOLEAN, authed : {"no", "yes", "forged"}, bound : BOOLEAN,
                   offered : SUBSET Feature, challenges : Nat, unasked : Nat, ended : BOOLEAN]
    /\ sessions \in Nat
    /\ refused \in BOOLEAN
    /\ exposed \in BOOLEAN

\* gloox has closed the socket and the pump still has its handle.
Dead == "xmpp" \in attached /\ ~client.connected

\* The client as a link the login hangs on.
Link ==
    INSTANCE XmppLink WITH
        link <- IF ~tried \/ handle = "none" THEN "none"
                ELSE IF "xmpp" \notin attached THEN "lost"
                ELSE IF ~client.connected THEN "dead"
                ELSE IF refused THEN "refused" ELSE "up",
        begun <- sessions

\* Whatever the server says, and in whatever pieces it arrives, the session
\* begins on a client at most once, never after an answer that leads nowhere
\* (the resource or the session refused, a stream or fields that offer nothing
\* more, a challenge without a nonce), and never after the pump has dropped it.
IsLink == Link!Spec

\* The session begins only if the server has accepted the login, and where the
\* mechanism asks it to prove that it knows the password, it has proved it:
\* one that does not know it gets a session only if its last challenge had an
\* iteration count that makes for no rounds, which gloox does not check.
SessionNeedsAcceptance ==
    sessions > 0 =>
        \/ server.authed = "yes"
        \/ server.authed = "forged" /\ client.signature = "open"

\* The password never leaves unencrypted once the server has offered TLS,
\* also if TLS is then refused or fails.
NoSecretInClear == exposed => "starttls" \notin server.offered

\* A session begins without having asked for the roster only when the line
\* has broken under the login.
SessionHasAskedForRoster ==
    [][sessions' # sessions /\ "roster" \notin client.awaiting => line = "reset"]_vars

\* A request of a messenger that stays is dispatched, whatever the XMPP
\* server does, unless gloox hangs up by itself (see RecvReturnsState), the
\* pump gives up on a broken socket or an exception ends the process.
MessengerIsServed ==
    request # "none" ~> (request = "none" \/ Dead \/ pump \in {"returned", "terminated"})

\* When the server closes the line or it breaks, the pump drops the client.
LineLossDetaches ==
    line # "open" /\ "xmpp" \in attached
        ~> ("xmpp" \notin attached \/ Dead \/ pump \in {"returned", "terminated"})

\* A login ends: in a session, in a loss, or in an answer of the server that
\* leads nowhere and that nobody hears of.
LoginEnds == tried ~> (sessions > 0 \/ refused \/ "xmpp" \notin attached \/ Dead
                       \/ pump \in {"returned", "terminated"})

\* Contrary to the code: recv returns "The state of the connection", so the
\* pump, which drops a socket whose recv does not return ConnNoError, is
\* never left with the handle of a client that is not connected.
RecvReturnsState == pump = "select" => ~Dead
=============================================================================
