---------------------------- MODULE MCConnection ----------------------------
(***************************************************************************)
(* One connection with a small buffer, clients that send messages, broken  *)
(* messages and the beginnings of messages.                                *)
(***************************************************************************)
EXTENDS Connection

CRLF == <<13, 10>>
RequestLine == <<71, 32, 47, 32>> \o VersionPrefix \o <<49, 46, 48>> \o CRLF
HeaderLine == <<65, 58, 32, 98>> \o CRLF              \* "A: b"
LongHeader == <<65, 58, 32, 98, 98, 98, 98, 98>> \o CRLF

Messages ==
    {RequestLine \o h \o CRLF :
        h \in {<<>>, LongHeader,
              HeaderLine \o LongHeader \o HeaderLine \o HeaderLine}}

\* The streams that are the beginning of a message.
Unfinished == UNION {{SubSeq(m, 1, k) : k \in 1..(Len(m) - 1)} : m \in Messages}

\* A message, one with a byte replaced, a part of one, one and a bit more.
MCStreams ==
    Messages
      \cup UNION {{[m EXCEPT ![i] = b] : i \in DOMAIN m, b \in {0, 10, 32, 65}} :
                     m \in Messages}
      \cup Unfinished
      \cup {m \o <<71, 32>> : m \in Messages}
=============================================================================
