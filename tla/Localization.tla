---------------------------- MODULE Localization ----------------------------
(***************************************************************************)
(* whz::LocalizationManager: a table of locales by language, and a switch  *)
(* that sets the global locale of the process.  Each method holds the      *)
(* mutex from its first to its last access, so a call is a step; two calls *)
(* of a thread are two steps, with those of other threads in between.      *)
(*                                                                         *)
(* A locale is the language and the directory its messages come from.      *)
(***************************************************************************)
EXTENDS Naturals

CONSTANTS
    LocThreads,     \* the threads that use the singleton
    Languages,      \* the languages they name
    LocaleDirs,     \* the directories they give for them
    MaxLocCalls     \* bound: calls of addLocale and switchLocale

ASSUME MaxLocCallsAssumption == MaxLocCalls \in Nat
ASSUME LocNamesAssumption == "C" \notin Languages /\ "none" \notin LocaleDirs

VARIABLES
    locales,        \* the table: a directory, or "none"
    global_locale,  \* std::locale(), of the process
    message,        \* per thread, the locale its last translate used
    first_dir,      \* history: the directories given for a language, first one
    mine,           \* history: per thread, the language it last switched to
    foreign,        \* history: per thread, another one has switched since
    loc_calls

loc_vars == <<locales, global_locale, message, first_dir, mine, foreign, loc_calls>>

classic == [language |-> "C", dir |-> "none"]

no_message == [language |-> "none", dir |-> "none"]

LocInit ==
    /\ locales = [l \in Languages |-> "none"]
    /\ global_locale = classic
    /\ message = [t \in LocThreads |-> no_message]
    /\ first_dir = [l \in Languages |-> "none"]
    /\ mine = [t \in LocThreads |-> "C"]
    /\ foreign = [t \in LocThreads |-> FALSE]
    /\ loc_calls = 0

LocCall == loc_calls < MaxLocCalls /\ loc_calls' = loc_calls + 1

RecordDir(l, d) ==
    first_dir' = IF first_dir[l] = "none" THEN [first_dir EXCEPT ![l] = d] ELSE first_dir

\* Mutant: a later locale of the same language takes the place of the first.
AddLocale_replace(l, d) ==
    /\ LocCall
    /\ locales' = [locales EXCEPT ![l] = d]
    /\ RecordDir(l, d)
    /\ UNCHANGED <<global_locale, message, mine, foreign>>

\* addLocale(): emplace leaves a language alone that is there already.
AddLocale(l, d) ==
    /\ LocCall
    /\ locales' = IF locales[l] = "none" THEN [locales EXCEPT ![l] = d] ELSE locales
    /\ RecordDir(l, d)
    /\ UNCHANGED <<global_locale, message, mine, foreign>>

\* switchLocale() of a language that has been added.
SwitchLocale(t, l) ==
    /\ LocCall
    /\ locales[l] # "none"
    /\ global_locale' = [language |-> l, dir |-> locales[l]]
    /\ message' = [message EXCEPT ![t] = no_message]
    /\ mine' = [mine EXCEPT ![t] = l]
    /\ foreign' = [u \in LocThreads |-> u # t]
    /\ UNCHANGED <<locales, first_dir>>

\* switchLocale() of one that has not: no effect, no error.
SwitchUnknown(l) ==
    /\ LocCall
    /\ locales[l] = "none"
    /\ UNCHANGED <<locales, global_locale, message, first_dir, mine, foreign>>

\* translate(): the messages of the global locale.
Translate(t) ==
    /\ message' = [message EXCEPT ![t] = global_locale]
    /\ UNCHANGED <<locales, global_locale, first_dir, mine, foreign, loc_calls>>

LocNext ==
    \/ \E l \in Languages, d \in LocaleDirs : AddLocale(l, d)
    \/ \E t \in LocThreads, l \in Languages : SwitchLocale(t, l)
    \/ \E l \in Languages : SwitchUnknown(l)
    \/ \E t \in LocThreads : Translate(t)

LocSpec == LocInit /\ [][LocNext]_loc_vars

----------------------------------------------------------------------------
Locales == [language : Languages \cup {"C", "none"}, dir : LocaleDirs \cup {"none"}]

LocTypeOK ==
    /\ locales \in [Languages -> LocaleDirs \cup {"none"}]
    /\ global_locale \in Locales
    /\ message \in [LocThreads -> Locales]
    /\ first_dir \in [Languages -> LocaleDirs \cup {"none"}]
    /\ mine \in [LocThreads -> Languages \cup {"C"}]
    /\ foreign \in [LocThreads -> BOOLEAN]

\* A thread that has switched to a language gets its messages in it, from the
\* directory the language was first added with, as long as no other thread
\* has switched in between.  (The locale belongs to the process: if one has,
\* translate answers in the other's language.)
SwitchHolds ==
    \A t \in LocThreads :
        message[t] # no_message /\ ~foreign[t] =>
            message[t] = [language |-> mine[t],
                          dir |-> IF mine[t] = "C" THEN "none" ELSE first_dir[mine[t]]]
=============================================================================
