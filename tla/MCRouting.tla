------------------------------ MODULE MCRouting ------------------------------
(***************************************************************************)
(* The routing table with a file whose name is also a page's, in a         *)
(* directory of one or two parts; the page; a path without a slash; and a  *)
(* path that is no uri.                                                    *)
(***************************************************************************)
EXTENDS HttpRouting

Uri(absolute, path) == [absolute |-> absolute, path |-> path]

MCPathUris ==
    {Uri(TRUE, <<"/", "a">>), Uri(TRUE, <<"/", "b", "/", "a">>),
     Uri(TRUE, <<"/", "a", "b">>), Uri(TRUE, <<"/", "a", "/">>),
     Uri(TRUE, <<"a">>), Uri(FALSE, <<"/", "a">>)}

MCPathKeys == {<<>>, <<"a">>, <<"a", "b">>, <<"/", "a">>}
=============================================================================
