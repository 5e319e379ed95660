----------------------------- MODULE MCYMsgCodec -----------------------------
(***************************************************************************)
(* Instances of YMsgCodec.  ShortPayloads are all the strings of a few     *)
(* bytes: both bytes of a terminator, a digit that is a key, and either    *)
(* null and a letter or a blank and a sign.  Messages are laid out like a  *)
(* private message, with texts that are empty, end in the first byte of a  *)
(* terminator or begin with the second, with every way a sender may end    *)
(* its payload, and with every kind of number an encoding may be.          *)
(***************************************************************************)
EXTENDS YMsgCodec

ShortPayloads ==
    UNION {[1 .. n -> {0, 49, 97, 128, 192}] : n \in 0 .. 5}
    \cup UNION {[1 .. n -> {32, 45, 49, 128, 192}] : n \in 0 .. 5}

Values == {<<>>, <<97>>, <<97, 192>>, <<128, 49>>, <<97, 97, 97, 97>>}

Pair(key, value) == Text[key] \o Terminator \o value \o Terminator

\* Behind blanks, with a sign, twice a sign, a blank behind it, at the ends of
\* the range and beyond.
Numbers ==
    {<<32, 9, 55>>, <<45, 49>>, <<43, 53>>, <<45, 45, 49>>, <<45, 32, 49>>, <<32>>, <<45>>,
     <<49, 50, 55>>, <<49, 50, 56>>, <<45, 49, 50, 56>>, <<45, 49, 50, 57>>}

AnyLeftovers == {3, 12, -5}

\* Nothing, a digit, or a null byte and a digit.
AfterPayload == {<<>>, <<48>>, <<0, 48>>}

Endings == {<<>>, <<0, 192, 128>>}

\* All pairs in the order of the messenger, or the encoding missing, empty,
\* or last and cut before or inside its terminator.
Messages ==
    {Pair(1, a) \o Pair(5, b) \o Pair(14, c) \o encoding \o ending :
        a \in Values, b \in Values, c \in Values, ending \in Endings,
        encoding \in {<<>>, Pair(97, <<49>>), Pair(97, <<48, 49, 97>>)}}
    \cup
    {Pair(1, <<97>>) \o Pair(97, <<49>>) \o Pair(1, a) \o Pair(33, b) \o Text[97] \o Terminator
        \o <<49>> \o rest : a \in Values, b \in Values, rest \in {<<>>, <<192>>}}
    \cup {Pair(5, <<97>>) \o Pair(97, <<>>)}
    \cup {Pair(1, <<97>>) \o Pair(97, number) : number \in Numbers}
    \cup {Pair(14, <<97>>) \o Text[97] \o Terminator \o number : number \in Numbers}

AllPayloads == ShortPayloads \cup Messages
=============================================================================
