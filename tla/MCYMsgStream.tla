----------------------------- MODULE MCYMsgStream -----------------------------
(***************************************************************************)
(* Instances of YMsgStream.  A header of three bytes with the payload's    *)
(* size in the middle keeps the cases of the real one (twenty bytes, the   *)
(* size in the ninth and tenth): a read may end before, at and behind the  *)
(* size, at the end of the header and inside the payload.                  *)
(***************************************************************************)
EXTENDS YMsgStream

ShortHeader == 3
MiddleByte == 2
=============================================================================
