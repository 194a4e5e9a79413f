---------------------------- MODULE TemplateCache ----------------------------
(***************************************************************************)
(* whz::whz_templateCache: the texts of the .whzt files of a directory, in *)
(* a multimap by path.  loadTemplates() adds what it finds, reload clears  *)
(* first.  A pass over the directory opens one file after the other and    *)
(* reads it piece by piece; others edit the files meanwhile, and the       *)
(* directory iterator may throw.  A file that is rewritten while it is     *)
(* read may be cached as "torn", a mixture of its texts.                   *)
(*                                                                         *)
(* The calls do not overlap: the class has no lock, and its comments leave *)
(* a reload at runtime to the caller's risk.                               *)
(***************************************************************************)
EXTENDS Naturals, FiniteSets

CONSTANTS
    TemplatePaths,  \* the paths of regular files with extension .whzt
    TemplateTexts,  \* their contents
    MaxPasses,      \* bound: calls of loadTemplates and reloadTemplates
    MaxEdits        \* bound: changes to the files

ASSUME TemplateTextsAssumption ==
    /\ TemplateTexts \cap {"absent", "unreadable", "empty", "torn"} = {}
    /\ "none" \notin TemplatePaths
ASSUME PassesAssumption == MaxPasses \in Nat /\ MaxEdits \in Nat

VARIABLES
    file,           \* the directory: [TemplatePaths -> texts, unreadable, absent]
    whz_templates,  \* [TemplatePaths -> the texts of the entries of this path]
    pass,           \* idle, running or mapping
    domemorymap,    \* the parameter of the call
    visited,        \* paths the iterator has returned in this pass
    present,        \* paths that have been there since the pass began
    reading,        \* the file that is open: its path, and the texts it has held
                    \* since it was opened (none if no file is open)
    mmf,            \* the memory-mapped file: absent, undefined or a cache
    shown,          \* what the last call, a getTemplate, returned
    complete,       \* history: a pass has ended since the cache was cleared
    since,          \* history: what the files have been since then
    passes, edits

cache_vars == <<whz_templates, pass, domemorymap, visited, present, reading, mmf,
                shown, complete, since, passes>>

template_vars == <<file, cache_vars, edits>>

FileStates == TemplateTexts \cup {"absent", "unreadable"}

\* What getTemplate should return for a file in such a state; the empty string
\* is written "empty".
text_of(s) == IF s \in TemplateTexts THEN s ELSE "empty"

empty_cache == [p \in TemplatePaths |-> {}]

not_reading == [path |-> "none", texts |-> {}]

nothing_shown == [path |-> "none", text |-> "empty"]

TemplatesInit ==
    /\ file = [p \in TemplatePaths |-> "absent"]
    /\ whz_templates = empty_cache
    /\ pass = "idle"
    /\ domemorymap = FALSE
    /\ visited = {}
    /\ present = {}
    /\ reading = not_reading
    /\ mmf = [state |-> "absent", entries |-> empty_cache]
    /\ shown = nothing_shown
    /\ complete = FALSE
    /\ since = [p \in TemplatePaths |-> {file[p]}]
    /\ passes = 0
    /\ edits = 0

\* The iterator is opened.
PassBegins ==
    /\ pass = "idle"
    /\ passes < MaxPasses
    /\ passes' = passes + 1
    /\ pass' = "running"
    /\ visited' = {}
    /\ present' = {p \in TemplatePaths : file[p] # "absent"}
    /\ shown' = nothing_shown
    /\ UNCHANGED <<file, reading, mmf, edits>>

LoadTemplates ==
    /\ PassBegins
    /\ domemorymap' \in BOOLEAN
    /\ UNCHANGED <<whz_templates, complete, since>>

\* Mutant: the cache is not cleared.
ReloadTemplates_keep ==
    /\ PassBegins
    /\ domemorymap' = FALSE
    /\ UNCHANGED whz_templates
    /\ complete' = FALSE
    /\ since' = [p \in TemplatePaths |-> {file[p]}]

ReloadTemplates ==
    /\ PassBegins
    /\ domemorymap' = FALSE
    /\ whz_templates' = empty_cache
    /\ complete' = FALSE
    /\ since' = [p \in TemplatePaths |-> {file[p]}]

\* A turn of the loop: an entry the iterator returns.
Visit(p) ==
    /\ pass = "running"
    /\ reading = not_reading
    /\ p \notin visited
    /\ file[p] # "absent"

\* Its file does not open; that is logged.
OpenTemplateFails(p) ==
    /\ Visit(p)
    /\ file[p] = "unreadable"
    /\ visited' = visited \cup {p}
    /\ UNCHANGED <<file, whz_templates, pass, domemorymap, present, reading, mmf,
                   shown, complete, since, passes, edits>>

OpenTemplate(p) ==
    /\ Visit(p)
    /\ file[p] # "unreadable"
    /\ reading' = [path |-> p, texts |-> {file[p]}]
    /\ UNCHANGED <<file, whz_templates, pass, domemorymap, visited, present, mmf,
                   shown, complete, since, passes, edits>>

\* The content has been read, and is emplaced.  (An entry equal to one that is
\* there already is added too; that is not told apart here.)
Emplace ==
    /\ reading # not_reading
    /\ \E content \in reading.texts \cup {"torn"} :
        /\ content = "torn" => \E s, t \in reading.texts : s # t
        /\ whz_templates' = [whz_templates EXCEPT ![reading.path] = @ \cup {content}]
    /\ visited' = visited \cup {reading.path}
    /\ reading' = not_reading
    /\ UNCHANGED <<file, pass, domemorymap, present, mmf, shown, complete, since,
                   passes, edits>>

\* The directory cannot be opened, or the iterator not be advanced.
IteratorThrows ==
    /\ pass = "running"
    /\ reading = not_reading
    /\ pass' = "idle"
    /\ UNCHANGED <<file, whz_templates, domemorymap, visited, present, reading, mmf,
                   shown, complete, since, passes, edits>>

\* The end of the loop.  The iterator may miss a file that came meanwhile, but
\* none that has been there all the time.
PassEnds ==
    /\ pass = "running"
    /\ reading = not_reading
    /\ present \subseteq visited
    /\ pass' = IF domemorymap /\ whz_templates # empty_cache THEN "mapping" ELSE "idle"
    /\ complete' = TRUE
    /\ UNCHANGED <<file, whz_templates, domemorymap, visited, present, reading, mmf,
                   shown, since, passes, edits>>

\* memoryMapTemplates(): open or ftruncate fails, and the file stays as it
\* was; mmap fails, and it has its new size but not its contents; or the
\* entries are copied.  Errors of msync and munmap are only logged.
MapTemplates ==
    /\ pass = "mapping"
    /\ pass' = "idle"
    /\ mmf' \in {mmf,
                 [state |-> "undefined", entries |-> empty_cache],
                 [state |-> "written", entries |-> whz_templates]}
    /\ UNCHANGED <<file, whz_templates, domemorymap, visited, present, reading,
                   shown, complete, since, passes, edits>>

\* getTemplate(): one of the entries of that path.  Which one comes first is
\* up to the library.
GetTemplate(p) ==
    /\ pass = "idle"
    /\ shown' \in
          IF whz_templates[p] = {} THEN {[path |-> p, text |-> "empty"]}
          ELSE {[path |-> p, text |-> t] : t \in whz_templates[p]}
    /\ UNCHANGED <<file, whz_templates, pass, domemorymap, visited, present, reading,
                   mmf, complete, since, passes, edits>>

\* Somebody writes, removes or locks a file.  One that is open is rewritten in
\* place; removed or locked, it stays open with its text.
Edit(p, s) ==
    /\ file[p] # s
    /\ edits < MaxEdits
    /\ edits' = edits + 1
    /\ file' = [file EXCEPT ![p] = s]
    /\ since' = [since EXCEPT ![p] = @ \cup {s}]
    /\ present' = IF s = "absent" THEN present \ {p} ELSE present
    /\ reading' = IF reading.path = p /\ s \in TemplateTexts
                  THEN [reading EXCEPT !.texts = @ \cup {s}]
                  ELSE reading
    /\ UNCHANGED <<whz_templates, pass, domemorymap, visited, mmf, shown, complete,
                   passes>>

TemplatesNext ==
    \/ LoadTemplates \/ ReloadTemplates \/ Emplace
    \/ IteratorThrows \/ PassEnds \/ MapTemplates
    \/ \E p \in TemplatePaths :
          OpenTemplate(p) \/ OpenTemplateFails(p) \/ GetTemplate(p)
    \/ \E p \in TemplatePaths, s \in FileStates : Edit(p, s)

TemplatesSpec == TemplatesInit /\ [][TemplatesNext]_template_vars

----------------------------------------------------------------------------
CachedTexts == TemplateTexts \cup {"torn"}

TemplatesTypeOK ==
    /\ file \in [TemplatePaths -> FileStates]
    /\ whz_templates \in [TemplatePaths -> SUBSET CachedTexts]
    /\ pass \in {"idle", "running", "mapping"}
    /\ domemorymap \in BOOLEAN
    /\ visited \subseteq TemplatePaths
    /\ present \subseteq TemplatePaths
    /\ reading # not_reading =>
          reading.path \in TemplatePaths /\ reading.texts \subseteq TemplateTexts
    /\ mmf.state \in {"absent", "undefined", "written"}
    /\ mmf.entries \in [TemplatePaths -> SUBSET CachedTexts]
    /\ shown.path \in TemplatePaths \cup {"none"}
    /\ shown.text \in CachedTexts \cup {"empty"}
    /\ complete \in BOOLEAN
    /\ since \in [TemplatePaths -> SUBSET FileStates]
    /\ passes \in 0..MaxPasses
    /\ edits \in 0..MaxEdits

\* The file has held more than one text since the cache was cleared.
Rewritten(p) == \E s, t \in since[p] \cap TemplateTexts : s # t

\* A reload makes the cache follow the files: getTemplate returns a text that
\* the file has held since the cache was last cleared, or, if it has been
\* missing or unreadable since then, perhaps nothing.  For a file nobody has
\* touched this is its text.  Only of a file that was rewritten since then may
\* the text be torn, and only while no pass has come to its end since then,
\* because the iterator threw, may a file that is there give nothing.
ReloadSees ==
    shown.path # "none" =>
        \/ shown.text \in {text_of(s) : s \in since[shown.path]}
        \/ shown.text = "torn" /\ Rewritten(shown.path)
        \/ shown.text = "empty" /\ ~complete
=============================================================================
