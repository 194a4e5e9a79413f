----------------------------- MODULE HttpRouting -----------------------------
(***************************************************************************)
(* whz::http_routing: a multimap from the last part of a path to the path. *)
(*                                                                         *)
(* A uri is a record: absolute, whether boost::urls::parse_uri takes it    *)
(* (it has to name a scheme), and path, the path of the parsed uri as a    *)
(* sequence of characters.  Positions count from 1, so that 0 is npos.     *)
(***************************************************************************)
EXTENDS Integers, Sequences, SequencesExt, Bags

CONSTANTS
    PathChars,  \* the characters of paths and names, the slash among them
    PathUris,   \* the arguments of addPathResource
    PathKeys,   \* the arguments of findPath
    MaxPaths    \* bound: paths added

ASSUME PathCharsAssumption == "/" \in PathChars
ASSUME PathUrisAssumption ==
    \A u \in PathUris : u.absolute \in BOOLEAN /\ u.path \in Seq(PathChars)
ASSUME PathKeysAssumption == \A k \in PathKeys : k \in Seq(PathChars)
ASSUME MaxPathsAssumption == MaxPaths \in Nat

VARIABLES
    page_pathResources,     \* the multimap, as a bag of <<name, path>>
    accepted,               \* history: the bag of paths that were taken
    pathlist                \* what the last call, a findPath, returned

routing_vars == <<page_pathResources, accepted, pathlist>>

no_pathlist == [key |-> <<>>, engaged |-> FALSE, list |-> EmptyBag]

RoutingInit ==
    /\ page_pathResources = EmptyBag
    /\ accepted = EmptyBag
    /\ pathlist = no_pathlist

\* rfind('/'): the last slash of s at or before a position.
rfind(s, from) ==
    LET slashes == {i \in 1..Len(s) : i <= from /\ s[i] = "/"}
    IN  IF slashes = {} THEN 0 ELSE Max(slashes)

\* The name of a path-page.  The search for the second last slash starts at
\* the last character, which is the last slash.
page_name(s) ==
    LET pos == rfind(s, Len(s))
        spos == rfind(s, Len(s))
    IN  SubSeq(s, spos + 1, Min({Len(s), spos + pos - 1}))

\* Mutant: the slash belongs to the name.
file_name_slash(s) == SubSeq(s, rfind(s, Len(s)), Len(s))

file_name(s) == SubSeq(s, rfind(s, Len(s)) + 1, Len(s))

path_name(s) == IF rfind(s, Len(s)) = Len(s) THEN page_name(s) ELSE file_name(s)

\* addPathResource(): a path that is no uri, or has no slash, is refused.
AddRefused ==
    /\ \E u \in PathUris : ~u.absolute \/ rfind(u.path, Len(u.path)) = 0
    /\ pathlist' = no_pathlist
    /\ UNCHANGED <<page_pathResources, accepted>>

AddPathResource ==
    /\ BagCardinality(accepted) < MaxPaths
    /\ \E u \in PathUris :
        /\ u.absolute
        /\ rfind(u.path, Len(u.path)) # 0
        /\ page_pathResources' =
              page_pathResources (+) SetToBag({<<path_name(u.path), u.path>>})
        /\ accepted' = accepted (+) SetToBag({u.path})
    /\ pathlist' = no_pathlist

\* findPath(): all entries of that name, or nullopt for the empty name.
FindPath ==
    /\ \E k \in PathKeys :
        pathlist' =
            IF k = <<>> THEN no_pathlist
            ELSE LET hits == {e \in DOMAIN page_pathResources : e[1] = k}
                 IN  [key |-> k, engaged |-> TRUE,
                      list |-> [e \in hits |-> page_pathResources[e]]]
    /\ UNCHANGED <<page_pathResources, accepted>>

RoutingNext == AddRefused \/ AddPathResource \/ FindPath

RoutingSpec == RoutingInit /\ [][RoutingNext]_routing_vars

----------------------------------------------------------------------------
\* The part after the last slash of a path-file, and the one between the
\* second-last and the last slash of a path-page.
IsPage(p) == p # <<>> /\ p[Len(p)] = "/"
IsLastPart(k, p) == k # <<>> /\ "/" \notin Range(k) /\ IsSuffix(<<"/">> \o k, p)
IsPagePart(k, p) == k # <<>> /\ "/" \notin Range(k) /\ IsSuffix(<<"/">> \o k \o <<"/">>, p)

\* Of the path-files, findPath returns exactly those that were added and whose
\* last part is the name asked for, each as often as it was added, whatever
\* other names begin or end like it and whatever path-pages were added.
FilesFound ==
    pathlist.engaged =>
        LET listed == {e \in DOMAIN pathlist.list : ~IsPage(e[2])}
            named == {p \in DOMAIN accepted : ~IsPage(p) /\ IsLastPart(pathlist.key, p)}
        IN  [e \in listed |-> pathlist.list[e]] =
                [e \in {<<pathlist.key, p>> : p \in named} |-> accepted[e[2]]]

\* A path-page that was added is found under the part between its second-last
\* and its last slash.
PagesFound ==
    pathlist.engaged =>
        \A p \in DOMAIN accepted :
            IsPagePart(pathlist.key, p) => <<pathlist.key, p>> \in DOMAIN pathlist.list
=============================================================================
