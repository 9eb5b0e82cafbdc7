---------------------------- MODULE PluginRuntime ----------------------------
(***************************************************************************)
(* The plugin registry of the TUI, the indexes derived from it, the        *)
(* manager screen that toggles plugins, the commands users write as files, *)
(* and the trust decision their shell substitutions need. Everything runs  *)
(* on the main loop: a step is a key with all the effects it causes.       *)
(*                                                                         *)
(* Of what a plugin contributes only command names are kept: screens and   *)
(* key bindings conflict in the same way, slots and hooks never do. One    *)
(* project is open, and its command files are those of the project.        *)
(***************************************************************************)
EXTENDS Naturals

CONSTANTS
    Optional,        \* plugins of kind Optional; the others cannot be disabled
    Names,           \* command names
    Contributes,     \* the names each optional plugin contributes
    CoreNames,       \* names of Core plugins, `reload-commands` among them
    FileNames,       \* names the user has written command files for, at one time or other
    ShellCommands,   \* those whose body runs a shell command
    ModelCommands,   \* those whose front matter names a model
    MaxEdits,        \* bound: edits of the command files
    NoOne, User, Core

\* The owners of a name can be told apart, and the bound is a number.
ASSUME OwnersAssumption ==
    /\ {User, Core, NoOne} \cap Optional = {}
    /\ User # Core /\ User # NoOne /\ Core # NoOne
    /\ MaxEdits \in Nat

VARIABLES
    proc,            \* "down", "up" or "panicked"
    files, edits,    \* the command files
    cache,           \* UserSlashCommandsPlugin::cache
    enabled,         \* PluginRegistry::enabled, of the optional plugins
    slash,           \* Indexes::slash: the owner of each name
    plugins_toml,    \* the plugins.toml: who is enabled
    unsaved,         \* the last toggle could not be saved
    manager,         \* the manager screen: its rows that say "enabled"
    trust,           \* App::trust_levels for the project
    trusted_projects,\* trusted-projects.json has the project
    pending,         \* App::pending_slash_after_trust, the trust modal over it
    override,        \* App::next_turn_model_override
    granted,         \* the user has answered "always" at some time
    shell_ran,       \* a shell substitution has run
    foreign          \* an override was spent on a prompt that is not the command's

indexVars == <<cache, enabled, slash, plugins_toml, unsaved, manager>>
trustVars == <<trust, trusted_projects, pending, granted, shell_ran>>
turnVars  == <<override, foreign>>
vars == <<proc, files, edits, indexVars, trustVars, turnVars>>

Owners == Optional \cup {User, Core}
Closed == [open |-> FALSE, rows |-> {}]

TypeOK ==
    /\ proc \in {"down", "up", "panicked"}
    /\ files \subseteq FileNames /\ cache \subseteq FileNames /\ edits \in 0 .. MaxEdits
    /\ enabled \subseteq Optional /\ plugins_toml \subseteq Optional /\ unsaved \in BOOLEAN
    /\ slash \in [Names -> Owners \cup {NoOne}]
    /\ manager \in [open : BOOLEAN, rows : SUBSET Optional]
    /\ trust \in {"none", "always", "session"}
    /\ trusted_projects \in BOOLEAN /\ granted \in BOOLEAN /\ shell_ran \in BOOLEAN
    /\ pending \in FileNames \cup {NoOne}
    /\ override \in FileNames \cup {NoOne} /\ foreign \in BOOLEAN

Init ==
    /\ proc = "down" /\ files = {} /\ edits = 0
    /\ cache = {} /\ enabled = Optional /\ plugins_toml = Optional /\ unsaved = FALSE
    /\ slash = [n \in Names |-> NoOne] /\ manager = Closed
    /\ trust = "none" /\ trusted_projects = FALSE /\ pending = NoOne
    /\ granted = FALSE /\ shell_ran = FALSE
    /\ override = NoOne /\ foreign = FALSE

-----------------------------------------------------------------------------
(* Indexes.                                                                *)

\* The enabled plugins, and the user's commands, that contribute n.
Claimants(n, on, commands) ==
    {p \in on : n \in Contributes[p]}
        \cup (IF n \in commands THEN {User} ELSE {})
        \cup (IF n \in CoreNames THEN {Core} ELSE {})

\* insert_slash refuses a name that is taken.
Conflict(on, commands) ==
    \E n \in Names, p, q \in Owners : p # q /\ {p, q} \subseteq Claimants(n, on, commands)

\* Indexes::build, where nothing conflicts.
Build(on, commands) ==
    [n \in Names |-> LET who == Claimants(n, on, commands) IN
                     IF who = {} THEN NoOne ELSE CHOOSE p \in who : TRUE]

\* reindex_plugin: the user's entries go, and come back where the name is free.
Reindex(commands) ==
    [n \in Names |-> IF slash[n] \notin {User, NoOne} THEN slash[n]
                     ELSE IF n \in commands THEN User ELSE NoOne]

-----------------------------------------------------------------------------
\* The saved choices are applied, then the indexes are built; a conflict panics.
Start ==
    /\ proc # "up"
    /\ enabled' = plugins_toml
    /\ cache' = files
    /\ IF Conflict(plugins_toml, files)
       THEN proc' = "panicked" /\ UNCHANGED slash
       ELSE proc' = "up" /\ slash' = Build(plugins_toml, files)
    /\ trust' = IF trusted_projects THEN "always" ELSE "none"
    /\ unsaved' = FALSE
    /\ UNCHANGED <<files, edits, plugins_toml, manager, trusted_projects, pending, granted,
                   shell_ran, turnVars>>

Quit ==
    /\ proc = "up"
    /\ proc' = "down"
    /\ manager' = Closed /\ pending' = NoOne /\ override' = NoOne
    /\ UNCHANGED <<files, edits, cache, enabled, slash, plugins_toml, unsaved, trust,
                   trusted_projects, granted, shell_ran, foreign>>

\* The user writes or removes a command file, at any time.
EditFiles ==
    /\ edits < MaxEdits
    /\ edits' = edits + 1
    /\ \E n \in FileNames : files' = IF n \in files THEN files \ {n} ELSE files \cup {n}
    /\ UNCHANGED <<proc, indexVars, trustVars, turnVars>>

Free == proc = "up" /\ ~manager.open /\ pending = NoOne

\* Variant: the entries are renewed from the commands known so far.
ReloadReindexFirst ==
    /\ Free
    /\ cache' = files
    /\ slash' = Reindex(cache)
    /\ UNCHANGED <<proc, files, edits, enabled, plugins_toml, unsaved, manager, trustVars, turnVars>>

\* `/reload-commands`.
Reload ==
    /\ Free
    /\ cache' = files
    /\ slash' = Reindex(files)
    /\ UNCHANGED <<proc, files, edits, enabled, plugins_toml, unsaved, manager, trustVars, turnVars>>

-----------------------------------------------------------------------------
(* The manager screen.                                                     *)

OpenManager ==
    /\ Free
    /\ manager' = [open |-> TRUE, rows |-> enabled]
    /\ UNCHANGED <<proc, files, edits, cache, enabled, slash, plugins_toml, unsaved, trustVars,
                   turnVars>>

CloseManager ==
    /\ manager.open
    /\ manager' = Closed
    /\ UNCHANGED <<proc, files, edits, cache, enabled, slash, plugins_toml, unsaved, trustVars,
                   turnVars>>

With(set, p, on) == IF on THEN set \cup {p} ELSE set \ {p}

\* Variant: what the row says is saved before the indexes are built.
ApplyToggleSaving(p, on) ==
    LET asked == With(enabled, p, on) IN
    /\ plugins_toml' = asked /\ unsaved' = FALSE
    /\ IF Conflict(asked, cache)
       THEN enabled' = With(enabled, p, ~on) /\ UNCHANGED slash
       ELSE enabled' = asked /\ slash' = Build(asked, cache)

\* apply_toggle_plugin. When the indexes cannot be built the set is rolled back, to the
\* opposite of what was asked; otherwise it is saved, if that succeeds.
ApplyToggle(p, on) ==
    LET asked == With(enabled, p, on) IN
    IF Conflict(asked, cache)
    THEN enabled' = With(enabled, p, ~on) /\ UNCHANGED <<slash, plugins_toml, unsaved>>
    ELSE /\ enabled' = asked /\ slash' = Build(asked, cache)
         /\ \/ plugins_toml' = asked /\ unsaved' = FALSE
            \/ UNCHANGED plugins_toml /\ unsaved' = TRUE

\* Enter or Space on a row: the row flips, whatever comes of the toggle.
PressRow(p) ==
    /\ manager.open
    /\ manager' = [manager EXCEPT !.rows = With(@, p, p \notin @)]
    /\ ApplyToggle(p, p \notin manager.rows)
    /\ UNCHANGED <<proc, files, edits, cache, trustVars, turnVars>>

-----------------------------------------------------------------------------
(* The user's commands and the trust they need.                            *)

\* The command is expanded: its shell parts run, its model is set for the next turn.
\* The PromptSend that follows is ignored by App::submit_prompt.
Expanded(n, level) ==
    /\ shell_ran' = (shell_ran \/ (n \in ShellCommands /\ level = "always"))
    /\ override' = IF n \in ModelCommands /\ (n \in ShellCommands => level = "always")
                   THEN n ELSE override

\* handle_slash. A shell command without a decision waits for the trust modal; under
\* "session" it ends in an error note.
RunCommand(n) ==
    /\ Free /\ slash[n] = User /\ n \in cache
    /\ IF n \in ShellCommands /\ trust = "none"
       THEN pending' = n /\ UNCHANGED <<shell_ran, override>>
       ELSE Expanded(n, trust) /\ UNCHANGED pending
    /\ UNCHANGED <<proc, files, edits, indexVars, trust, trusted_projects, granted, foreign>>

\* Variant: every decision is saved.
SavedTrust(level) == {TRUE}

\* trust::save after "always": the project is written, or nothing is; "this session"
\* stays in memory.
TrustSaved(level) == IF level = "always" THEN {TRUE, trusted_projects} ELSE {trusted_projects}

\* SetTrustLevel: y or n in the modal; the waiting command is dispatched again.
AnswerTrust(level) ==
    /\ pending # NoOne
    /\ trust' = level
    /\ granted' = (granted \/ level = "always")
    /\ trusted_projects' \in TrustSaved(level)
    /\ Expanded(pending, level)
    /\ pending' = NoOne
    /\ UNCHANGED <<proc, files, edits, indexVars, foreign>>

\* q or Esc: no decision is kept, the command is dropped.
CancelTrust ==
    /\ pending # NoOne
    /\ trust' = "none" /\ pending' = NoOne
    /\ UNCHANGED <<proc, files, edits, indexVars, trusted_projects, granted, shell_ran, turnVars>>

\* The user submits a prompt; the override is consumed by its turn.
SubmitPrompt ==
    /\ Free
    /\ foreign' = (foreign \/ override # NoOne)
    /\ override' = NoOne
    /\ UNCHANGED <<proc, files, edits, indexVars, trustVars>>

-----------------------------------------------------------------------------
Next ==
    \/ Start \/ Quit \/ EditFiles \/ Reload \/ OpenManager \/ CloseManager
    \/ \E p \in Optional : PressRow(p)
    \/ \E n \in Names : RunCommand(n)
    \/ \E level \in {"always", "session"} : AnswerTrust(level)
    \/ CancelTrust \/ SubmitPrompt

Spec == Init /\ [][Next]_vars

-----------------------------------------------------------------------------
\* A name that routes to the user's commands has one, and one that routes to a plugin
\* is among its contributions: no dispatch ends in nothing. Reloads, toggles and their
\* failures in any order keep it so.
RoutesAreServed ==
    proc = "up" => \A n \in Names :
        /\ slash[n] = User => n \in cache
        /\ slash[n] \in Optional => n \in Contributes[slash[n]]

\* What a toggle has saved starts again: if every command that is loaded has its name,
\* the next start does not panic, even after toggles that failed and were rolled back.
\* (A toggle that could not be saved leaves the choices of an earlier one.)
SavedSetStarts ==
    proc = "up" /\ ~unsaved /\ (\A n \in cache : slash[n] = User) => ~Conflict(plugins_toml, cache)

\* A shell substitution of the project has run only if the user trusted the project
\* "always", in this session or in an earlier one that could save it.
ShellNeedsTrust == shell_ran => granted

\* effects.rs:526-529: a toggle that fails leaves "the indexes (which were never
\* replaced) coherent with the rolled-back registry": the plugins that own commands are
\* the enabled ones. The roll back assumes that the row showed what was enabled.
IndexesFollowRegistry ==
    proc = "up" => \A n \in Names : slash[n] \in Optional => slash[n] \in enabled

\* effect.rs:159: the override is for "the next single turn submitted via PromptSend".
\* That effect submits nothing, and the next prompt of the user takes the override.
OverrideIsTheCommands == ~foreign
=============================================================================
