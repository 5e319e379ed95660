----------------------------- MODULE MCYMsgLogin -----------------------------
(***************************************************************************)
(* Instances of YMsgLogin.  Two ids tell the challenged one from another,  *)
(* two versions and two session ids a value from the one that replaces it. *)
(***************************************************************************)
EXTENDS YMsgLogin

CONSTANTS alice, bob

TwoIds == {alice, bob}
TwoVersions == {11, 12}
TwoSessionIds == {1, 2}
=============================================================================
