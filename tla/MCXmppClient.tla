----------------------------- MODULE MCXmppClient -----------------------------
(***************************************************************************)
(* An instance of XmppClient: servers with and without TLS, with each way  *)
(* to log in, with none that is known and with no features at all, and     *)
(* after the login with and without a resource and a session to ask for.   *)
(***************************************************************************)
EXTENDS XmppClient

MCOffers ==
    {{"starttls", "plain"}, {"starttls"}, {"scram", "plain"}, {"plain"}, {"digest"}, {"iq"},
     {"other"}, {}, {"bind"}, {"bind", "session"}}
=============================================================================
