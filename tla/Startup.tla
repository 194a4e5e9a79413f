------------------------------- MODULE Startup -------------------------------
(***************************************************************************)
(* main(): the command line, the configuration, a demonstration of every   *)
(* part, and the server; with TemplateProcessor, which only main() uses.   *)
(*                                                                         *)
(* The other parts have modules of their own: a demonstration is a step    *)
(* here, with the ways in which it may end the process.  The files main()  *)
(* looks for may come and go while it runs; seen records what it found.    *)
(***************************************************************************)
EXTENDS Naturals, Sequences

CONSTANT MaxFileChanges     \* bound: changes to the files by others

\* The configuration: read_config() returns false without it, or throws if it
\* is no object; the database, if it opens; and the template.
ConfigFile == {"absent", "not_object", "object"}
DatabaseFile == {"absent", "opens"}
TemplateFile == {"absent", "broken", "compiles"}
FilesFound == [config : ConfigFile, database : DatabaseFile, template : TemplateFile]

VARIABLES
    main_at,            \* the stage main() has come to
    ended,              \* running, 0, 1, cli (exit of CLI11) or terminated
    there,              \* what the files are now
    seen,               \* history: what main() found, "unread" before
    template_definer_,  \* whether the processor has one
    rendered,           \* the outcome of ProcessTemplate()
    file_changes

startup_vars ==
    <<main_at, ended, there, seen, template_definer_, rendered, file_changes>>

Stages ==
    <<"commandline", "config_object", "config", "logger", "localization",
      "encryption", "compression", "processor", "definer", "template", "vcard",
      "utils", "qrcode", "server", "serving">>

StartupInit ==
    /\ main_at = 1
    /\ ended = "running"
    /\ there = [config |-> "absent", database |-> "absent", template |-> "absent"]
    /\ seen = [config |-> "unread", database |-> "unread", template |-> "unread"]
    /\ template_definer_ = FALSE
    /\ rendered = "none"
    /\ file_changes = 0

Reached(stage) == ended = "running" /\ Stages[main_at] = stage

\* A stage is over, or the process with it.
Continue == main_at' = main_at + 1 /\ UNCHANGED ended
End(how) == ended' = how /\ UNCHANGED main_at

\* The stages that keep nothing for the rest of main().  A whz_qlogger, first
\* that of the Config object, throws if the log file does not open,
\* decompress() if a directory cannot be made, the server if the port is
\* taken; nothing in main() catches.  What they return is not looked at.
MayThrow == {"config_object", "logger", "compression", "server"}

Demonstrate ==
    /\ ended = "running"
    /\ Stages[main_at] \in MayThrow \cup {"localization", "encryption", "vcard",
                                          "utils", "qrcode"}
    /\ \/ Continue
       \/ Stages[main_at] \in MayThrow /\ End("terminated")
    /\ UNCHANGED <<there, seen, template_definer_, rendered, file_changes>>

ParseCommandline ==
    /\ Reached("commandline")
    /\ Continue \/ End("cli")
    /\ UNCHANGED <<there, seen, template_definer_, rendered, file_changes>>

\* read_config() of the named file or of ./whz_config.json.
ReadConfig ==
    /\ Reached("config")
    /\ seen' = [seen EXCEPT !.config = there.config]
    /\ \/ there.config = "object" /\ Continue
       \/ there.config = "absent" /\ End("1")
       \/ there.config = "not_object" /\ End("terminated")
    /\ UNCHANGED <<there, template_definer_, rendered, file_changes>>

\* TemplateProcessor::Create().
CreateProcessor ==
    /\ Reached("processor")
    /\ seen' = [seen EXCEPT !.database = there.database]
    /\ IF there.database = "opens" THEN Continue ELSE End("1")
    /\ UNCHANGED <<there, template_definer_, rendered, file_changes>>

SetTemplateDefiner ==
    /\ Reached("definer")
    /\ template_definer_' = TRUE
    /\ Continue
    /\ UNCHANGED <<there, seen, rendered, file_changes>>

\* FetchData(): GetTemplateVariables() is std::terminate().
FetchData ==
    IF template_definer_ THEN End("terminated") /\ UNCHANGED rendered
    ELSE Continue /\ rendered' = "Template definer not set."

\* ProcessTemplate(): every outcome but one is an error that main() prints.
\* Rendering, which comes after FetchData(), is never reached.
ProcessTemplate ==
    /\ Reached("template")
    /\ seen' = [seen EXCEPT !.template = there.template]
    /\ \/ there.template = "absent" /\ Continue /\ rendered' = "Failed to open"
       \/ there.template = "broken" /\ Continue /\ rendered' = "compilation failed"
       \/ there.template = "compiles" /\ FetchData
    /\ UNCHANGED <<there, template_definer_, file_changes>>

\* listen_and_serve() returns after a signal, and main() with it.
ServerReturns ==
    /\ Reached("serving")
    /\ End("0")
    /\ UNCHANGED <<there, seen, template_definer_, rendered, file_changes>>

FilesChange ==
    /\ ended = "running"
    /\ file_changes < MaxFileChanges
    /\ file_changes' = file_changes + 1
    /\ there' \in FilesFound
    /\ UNCHANGED <<main_at, ended, seen, template_definer_, rendered>>

StartupNext ==
    \/ ParseCommandline \/ ReadConfig
    \/ Demonstrate
    \/ CreateProcessor \/ SetTemplateDefiner \/ ProcessTemplate
    \/ ServerReturns
    \/ FilesChange

StartupSpec == StartupInit /\ [][StartupNext]_startup_vars

----------------------------------------------------------------------------
\* ProcessTemplate() returns the rendered string or an error message: once
\* main() has called it there is one or the other to print.
TemplateReported == seen.template # "unread" => rendered # "none"
=============================================================================
