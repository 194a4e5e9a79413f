---------------------------- MODULE MCParseLoop ----------------------------
(***************************************************************************)
(* The parse loop on messages put together from a few parts, each also     *)
(* with one byte replaced by any byte of Alphabet, and each with a byte    *)
(* more after its end.                                                     *)
(***************************************************************************)
EXTENDS ParseLoop

CRLF == <<13, 10>>

Uris == {<<>>, <<47, 193>>}                          \* "" and "/" 0xC1
Versions == {<<49, 46, 48>>, <<50, 53, 57, 46, 51>>} \* 1.0 and 259.3
Fold == <<9, 32, 99>> \o CRLF                         \* HT SP "c"
HeaderBlocks ==
    LET hdr == <<65, 66, 58, 32, 98>> \o CRLF         \* "AB: b"
    IN  {<<>>, hdr, hdr \o Fold, hdr \o hdr, Fold}

Messages ==
    {<<71>> \o <<32>> \o u \o <<32>> \o VersionPrefix \o v \o CRLF \o h \o CRLF :
        u \in Uris, v \in Versions, h \in HeaderBlocks}

Alphabet == {0, 9, 10, 13, 32, 46, 47, 49, 58, 65, 40, 127, 200}

MCStreams ==
    Messages
      \cup {Append(m, 65) : m \in Messages}
      \cup UNION {{[m EXCEPT ![i] = b] : i \in DOMAIN m, b \in Alphabet} :
                     m \in Messages}
=============================================================================
