------------------------------ MODULE MCLibrary ------------------------------
(***************************************************************************)
(* The parts of the program that are looked at each by itself: the request *)
(* parser, and those around the server, of which none calls another and    *)
(* only the logger and the Lua core share an object, the configuration.    *)
(* component is the part a behaviour is about; the others rest.            *)
(***************************************************************************)
EXTENDS MCParseLoop, MCLogger, MCLuaCore, MCRouting, Resources, TemplateCache,
        Localization, Encryption, MCArchives, QrCodeGenerator

VARIABLE component

MCResourceType == [f \in {"page.html", "logo.png"} |->
                      IF f = "logo.png" THEN "IMAGE_PNG" ELSE "HTML"]

\* A short text, and two longer ones that may be blended.
MCResourceTexts == {<<1>>, <<2, 2>>, <<3, 3>>}

\* Up to five bytes, so that the last four digits hold one, two or three.
MCPngBytes ==
    {<<>>, <<1>>, <<170>>, <<1, 170>>, <<255, 1>>, <<170, 1, 255>>,
     <<255, 7, 129, 64>>, <<3, 252, 0, 63, 192>>}

MCConfigFiles == MCLoggerFiles \cup MCLuaFiles

Components ==
    {"parser", "logger", "lua", "routing", "resources", "templates",
     "localization", "encryption", "archives", "qrcode"}

LibraryInit ==
    /\ component \in Components
    /\ \/ component = "parser"
       \/ stream = (CHOOSE m \in Messages : TRUE) /\ parser = new_parser(0, 0)
    /\ LoopInit
    /\ LoggerInit /\ LuaInit /\ RoutingInit /\ ResourcesInit /\ TemplatesInit
    /\ LocInit /\ CryptoInit /\ ArchivesInit /\ QrInit

\* The variables of every part but the one named.
Rest(c) ==
    /\ UNCHANGED component
    /\ c # "parser" => UNCHANGED loop_vars
    /\ c \notin {"logger", "lua"} => UNCHANGED config_vars
    /\ c # "logger" => UNCHANGED logger_vars
    /\ c # "lua" => UNCHANGED lua_vars
    /\ c # "routing" => UNCHANGED routing_vars
    /\ c # "resources" => UNCHANGED resource_vars
    /\ c # "templates" => UNCHANGED template_vars
    /\ c # "localization" => UNCHANGED loc_vars
    /\ c # "encryption" => UNCHANGED crypto_vars
    /\ c # "archives" => UNCHANGED archive_vars
    /\ c # "qrcode" => UNCHANGED qr_vars

\* The logger and the Lua core are given the files that concern them.
Reads(files) == Range(reads') \subseteq files

LibraryNext ==
    \/ component = "parser" /\ LoopNext /\ Rest("parser")
    \/ component = "logger" /\ LoggerNext /\ Rest("logger") /\ Reads(MCLoggerFiles)
    \/ component = "lua" /\ LuaNext /\ Rest("lua") /\ Reads(MCLuaFiles)
    \/ component = "routing" /\ RoutingNext /\ Rest("routing")
    \/ component = "resources" /\ ResourcesNext /\ Rest("resources")
    \/ component = "templates" /\ TemplatesNext /\ Rest("templates")
    \/ component = "localization" /\ LocNext /\ Rest("localization")
    \/ component = "encryption" /\ CryptoNext /\ Rest("encryption")
    \/ component = "archives" /\ ArchivesNext /\ Rest("archives")
    \/ component = "qrcode" /\ QrNext /\ Rest("qrcode")

library_vars ==
    <<component, loop_vars, config_vars, logger_vars, lua_vars, routing_vars,
      resource_vars, template_vars, loc_vars, crypto_vars, archive_vars, qr_vars>>

LibrarySpec == LibraryInit /\ [][LibraryNext]_library_vars
=============================================================================
