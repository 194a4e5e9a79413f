------------------------------ MODULE Resources ------------------------------
(***************************************************************************)
(* whz::resources (and its older copy WHZ::Resources): one file read into  *)
(* memory.  loadResource() checks the file, opens it, and twice measures   *)
(* it and reads as many bytes, the second time always into the string;     *)
(* other processes change the files between any two steps.                 *)
(*                                                                         *)
(* A text is a sequence of blocks, positive numbers; a read gets a block   *)
(* per step.  0 stands for a block that was asked for and not read.  The   *)
(* constructor is declared and defined nowhere; it is taken to leave what  *)
(* unloadResource() leaves.                                                *)
(***************************************************************************)
EXTENDS Integers, Sequences

CONSTANTS
    ResourceFiles,  \* the paths given to loadResource
    ResourceType,   \* [ResourceFiles -> types]: by the extension
    ResourceTexts,  \* what the files may hold
    MaxLoads        \* bound: calls of loadResource

ASSUME ResourceTypeAssumption ==
    ResourceType \in
        [ResourceFiles ->
            {"CSS", "HTML", "WHZT", "JS", "IMAGE_PNG", "IMAGE_JPG", "UNKNOWN"}]
ASSUME ResourceTextsAssumption ==
    /\ ResourceTexts \subseteq Seq(Nat \ {0})
    /\ "empty" \notin ResourceFiles

VARIABLES
    node,       \* the file system: a file with a text, a directory or nothing
    resource,   \* the members of the object; array: bytes is not null
    buffers,    \* char arrays allocated and not deleted
    loading,    \* the call of loadResource: its step, file and result; of the
                \* read under way, the size measured and what it has got
    held,       \* history: the texts the file has held during the call
    before,     \* history: the string when the call began
    loads

resource_vars == <<node, resource, buffers, loading, held, before, loads>>

no_file(kind) == [kind |-> kind, text |-> <<>>]

Nodes == {[kind |-> "file", text |-> t] : t \in ResourceTexts}
            \cup {no_file("absent"), no_file("directory")}

unloaded ==
    [path |-> "empty", exists |-> FALSE, type |-> "UNKNOWN", str |-> <<>>,
     array |-> FALSE, bytes |-> <<>>]

load_call(step, file, result) ==
    [step |-> step, file |-> file, result |-> result, size |-> 0, got |-> <<>>]

no_load == load_call("idle", "empty", "none")

ResourcesInit ==
    /\ node = [f \in ResourceFiles |-> no_file("absent")]
    /\ resource = unloaded
    /\ buffers = 0
    /\ loading = no_load
    /\ held = {}
    /\ before = <<>>
    /\ loads = 0

IsImage(type) == type \in {"IMAGE_PNG", "IMAGE_JPG"}

LoadReturns(result) == loading' = [loading EXCEPT !.step = "idle", !.result = result]

\* loadResource() up to the end of checkResourceFileExists().  Only a file
\* that is there changes more than the path.
checked(f) ==
    CASE node[f].kind = "absent" -> [resource EXCEPT !.path = f]
      [] node[f].kind = "directory" ->
            [resource EXCEPT !.path = "empty", !.exists = FALSE, !.type = ResourceType[f]]
      [] OTHER ->
            [resource EXCEPT !.path = f, !.exists = TRUE, !.type = ResourceType[f]]

LoadBegins(f) ==
    /\ loading.step = "idle"
    /\ loads < MaxLoads
    /\ loads' = loads + 1
    /\ resource' = checked(f)
    /\ loading' = IF node[f].kind = "file"
                  THEN load_call("open", f, "none")
                  ELSE load_call("idle", f, "false")
    /\ held' = IF node[f].kind = "file" THEN {node[f].text} ELSE {}
    /\ before' = resource.str
    /\ UNCHANGED <<node, buffers>>

\* Mutant: the result of the check is returned although the file did not open.
OpenFails_true ==
    /\ loading.step = "open"
    /\ LoadReturns("true")
    /\ UNCHANGED <<node, resource, buffers, held, before, loads>>

\* The file cannot be opened: it is locked, or gone by now.
OpenFails ==
    /\ loading.step = "open"
    /\ LoadReturns("false")
    /\ UNCHANGED <<node, resource, buffers, held, before, loads>>

\* seekg to the end and tellg: as many bytes are asked for.
MeasureFor(step) ==
    loading' = [loading EXCEPT !.step = step, !.got = <<>>,
                               !.size = Len(node[loading.file].text)]

OpenAndMeasure ==
    /\ loading.step = "open"
    /\ node[loading.file].kind = "file"
    /\ MeasureFor("first")
    /\ UNCHANGED <<node, resource, buffers, held, before, loads>>

Reading == loading.step \in {"first", "again"} /\ Len(loading.got) < loading.size

\* ifs.read: a block more, of the file as it is now.
ReadBlock ==
    /\ Reading
    /\ LET text == node[loading.file].text
           next == Len(loading.got) + 1
       IN  /\ next <= Len(text)
           /\ loading' = [loading EXCEPT !.got = Append(@, text[next])]
    /\ UNCHANGED <<node, resource, buffers, held, before, loads>>

\* The first read: an image into a new array, whose predecessor is forgotten,
\* anything else into the string.
FirstRead(text) ==
    IF IsImage(resource.type)
    THEN /\ resource' = [resource EXCEPT !.array = TRUE, !.bytes = text]
         /\ buffers' = buffers + 1
    ELSE /\ resource' = [resource EXCEPT !.str = text]
         /\ UNCHANGED buffers

\* It is complete; the file is measured again.
FirstReadEnds ==
    /\ loading.step = "first"
    /\ Len(loading.got) = loading.size
    /\ FirstRead(loading.got)
    /\ MeasureFor("again")
    /\ UNCHANGED <<node, held, before, loads>>

ReadAgainEnds ==
    /\ loading.step = "again"
    /\ Len(loading.got) = loading.size
    /\ resource' = [resource EXCEPT !.str = loading.got]
    /\ LoadReturns("true")
    /\ UNCHANGED <<node, buffers, held, before, loads>>

\* The file has shrunk since it was measured, and the stream fails.
Short == Reading /\ Len(node[loading.file].text) <= Len(loading.got)

padded ==
    [i \in 1..loading.size |-> IF i <= Len(loading.got) THEN loading.got[i] ELSE 0]

\* tellg on the failed stream returns -1, and the resize to that many
\* characters throws.
FirstReadThrows ==
    /\ loading.step = "first"
    /\ Short
    /\ FirstRead(padded)
    /\ LoadReturns("threw")
    /\ UNCHANGED <<node, held, before, loads>>

ReadAgainShort ==
    /\ loading.step = "again"
    /\ Short
    /\ resource' = [resource EXCEPT !.str = padded]
    /\ LoadReturns("false")
    /\ UNCHANGED <<node, buffers, held, before, loads>>

UnloadResource ==
    /\ loading.step = "idle"
    /\ resource' = unloaded
    /\ buffers' = IF resource.array THEN buffers - 1 ELSE buffers
    /\ loading' = no_load
    /\ UNCHANGED <<node, held, before, loads>>

\* Other processes.  A file that is open keeps its text when it is removed,
\* so removal and replacement count up to the open only.
Change(f, n) ==
    /\ node[f] # n
    /\ loads < MaxLoads \/ loading.step # "idle"
    /\ loading.step \in {"first", "again"} /\ f = loading.file => n.kind = "file"
    /\ node' = [node EXCEPT ![f] = n]
    /\ held' = IF loading.step # "idle" /\ f = loading.file /\ n.kind = "file"
               THEN held \cup {n.text}
               ELSE held
    /\ UNCHANGED <<resource, buffers, loading, before, loads>>

ResourcesNext ==
    \/ \E f \in ResourceFiles : LoadBegins(f)
    \/ OpenFails \/ OpenAndMeasure \/ ReadBlock
    \/ FirstReadEnds \/ FirstReadThrows \/ ReadAgainEnds \/ ReadAgainShort
    \/ UnloadResource
    \/ \E f \in ResourceFiles, n \in Nodes : Change(f, n)

ResourcesSpec == ResourcesInit /\ [][ResourcesNext]_resource_vars

----------------------------------------------------------------------------
\* Every block of s is one that the file has held during the call, at the
\* place where it is.
Blended(s) ==
    \A i \in 1..Len(s) : \E t \in held : i <= Len(t) /\ s[i] = t[i]

\* So is its length: if the file has held one text only, s is this text.
FromTheFile(s) == Blended(s) /\ \E t \in held : Len(s) = Len(t)

Changed == \E t, u \in held : t # u

\* After a loadResource() that returned true, path, type and contents belong
\* together: they are those of the file that was asked for, whatever loads
\* failed before.  The contents are the file's own text if it did not change
\* during the call; else they may be a beginning of one text or a blend of
\* several, but never longer than the file was and never another file's.  A
\* load that fails or throws leaves the string as it was before the call,
\* unless the file changed during it.  The array is one that has not been
\* deleted.
LoadedTogether ==
    /\ loading.result = "true" =>
        /\ resource.path = loading.file
        /\ resource.exists
        /\ resource.type = ResourceType[loading.file]
        /\ FromTheFile(resource.str)
        /\ IsImage(resource.type) => FromTheFile(resource.bytes)
    /\ loading.result \in {"false", "threw"} => resource.str = before \/ Changed
    /\ resource.array => buffers > 0
=============================================================================
