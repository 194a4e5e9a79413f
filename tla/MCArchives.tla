----------------------------- MODULE MCArchives ------------------------------
(***************************************************************************)
(* The archives on two files of one name in different directories, and     *)
(* another.                                                                *)
(***************************************************************************)
EXTENDS DataCompression

At(dir, name) == [dir |-> dir, name |-> name]

MCPaths == {At("x", "a"), At("y", "a"), At("y", "b")}

MCFileLists ==
    {<<>>, <<At("x", "a"), At("y", "b")>>, <<At("x", "a"), At("y", "a"), At("y", "b")>>}
=============================================================================
