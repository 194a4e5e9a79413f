-------------------------- MODULE MCRequestHandler --------------------------
(***************************************************************************)
(* The request handler on uris put together from pieces that url_decode    *)
(* treats differently, and on the percent-encodings of all short texts.    *)
(***************************************************************************)
EXTENDS RequestHandler, SequencesExt

\* "/" "." "a" "+" "%2e" "%2F" "%00" "%-1" "%1z" "%0x" "%"
Pieces ==
    {<<47>>, <<46>>, <<97>>, <<43>>, <<37, 50, 101>>, <<37, 50, 70>>,
     <<37, 48, 48>>, <<37, 45, 49>>, <<37, 49, 122>>, <<37, 48, 120>>, <<37>>}

MCTexts == BoundedSeq({-1, 0, 32, 37, 43, 46, 47, 79}, 2)

MCUris ==
    {FlattenSeq(ps) : ps \in BoundedSeq(Pieces, 3)}
      \cup {PercentEncoded(t) : t \in MCTexts}

MCNames == {<<47>> \o INDEX_HTML, <<47, 97>>}

\* An empty file, one of a full read, and one of two and a bit; each may take
\* the place of another between the reads.
MCContents == {<<>>, <<1, 1>>, <<2, 2, 2, 2, 2>>}
=============================================================================
