-------------------------------- MODULE Records --------------------------------
(***************************************************************************)
(* Components that share no state and make no promise of progress: the     *)
(* plugin runtime, the permission rules, the fence parser, the way of an   *)
(* answer, the router, and the installer of language servers. A behaviour  *)
(* is one of one of them, chosen at the start; the others rest in one of   *)
(* their initial states.                                                   *)
(***************************************************************************)
EXTENDS PluginRuntime, Sequences, FiniteSets

CONSTANTS
    Calls, OtherPatterns, Covers, Sensitive, AllowedByDefault, MaxRules, MaxSessions, NoCall,
    MaxText, MaxFragment,
    MaxPieces, MaxItems, MaxTurns,
    Registered, Catalog, DefaultModel, SeesImages, Tier, Aliases, Messages, RuleFiles, EnvModels,
    Nothing,
    Npm, Downloads, Selections, Others, Broken, MaxBatches, NoFile

VARIABLES
    focus,           \* the component that runs
    up, sessions, front_matter, toml_rules, entries, asking, writing, recorded, saved,
    text, buf, inside_canvas, out, finished, parted,
    phase, acc, seen, garbled, answer, last_text, app, messages, transcript, sent, start,
    cut, skewed, spent,
    pool, active, current_model, rules, env, app_active, app_model, switching, turn,
    driver, chosen, left, stage, rows, notices, config_error, content, lsp_toml, tmp, handle,
    merged, succeeded, overlapped

ruleVars   == <<up, sessions, front_matter, toml_rules, entries, asking, writing, recorded, saved>>
fenceVars  == <<text, buf, inside_canvas, out, finished, parted>>
answerVars == <<phase, acc, seen, garbled, answer, last_text, app, messages, transcript, sent,
                start, cut, skewed, spent>>
routeVars  == <<pool, active, current_model, rules, env, app_active, app_model, switching, turn>>
installVars == <<driver, chosen, left, stage, rows, notices, config_error, content, lsp_toml,
                 tmp, handle, merged, succeeded, overlapped>>
allVars == <<focus, vars, ruleVars, fenceVars, answerVars, routeVars, installVars>>

Permissions == INSTANCE PermissionRules
Fences      == INSTANCE FenceParser
Answers     == INSTANCE AnswerStream
Routes      == INSTANCE Router
Installs    == INSTANCE LspInstaller

\* ArgPattern::for_call: the pattern built from a call matches it.
ASSUME PatternsAssumption == \A c \in Calls : c \in Covers[c]

\* A catalog is a list of models.
ASSUME CatalogAssumption ==
    \A p \in Routes!Providers : Catalog[p] \in Seq(Routes!Models)

\* The picker offers each entry of the catalog once.
ASSUME PickerAssumption ==
    \A s \in Selections : /\ s \in Seq(Installs!Servers)
                          /\ \A i, j \in DOMAIN s : s[i] = s[j] => i = j

ASSUME FilesAssumption ==
    /\ MaxBatches \in Nat \ {0} /\ NoFile \notin 0 .. MaxBatches

\* A bound is a number.
ASSUME PiecesAssumption == MaxPieces \in Nat
ASSUME BoundsAssumption == MaxSessions \in Nat /\ MaxItems \in Nat /\ MaxTurns \in Nat

\* The router is given providers in an order, defaults, aliases, rules and an environment
\* that name models of the catalogs.
ASSUME RoutingAssumption ==
    /\ Registered \in Seq(Routes!Providers)
    /\ DefaultModel \in [Routes!Providers -> Routes!Models]
    /\ \A a \in Aliases : a.provider \in Routes!Providers /\ a.model \in Routes!Models
    /\ \A f \in RuleFiles : \A i \in DOMAIN f.rules : f.rules[i].model \in Routes!Models
    /\ \A e \in EnvModels \ {Nothing} : e.provider \in Routes!Providers /\ e.model \in Routes!Models

Foci == {"plugins", "permissions", "fences", "answers", "routes", "installs"}

FocusInit ==
    /\ focus \in Foci
    /\ Init /\ Permissions!Init /\ Fences!Init /\ Answers!Init /\ Routes!Init /\ Installs!Init

FocusNext ==
    /\ UNCHANGED focus
    /\ \/ focus = "plugins" /\ Next
            /\ UNCHANGED <<ruleVars, fenceVars, answerVars, routeVars, installVars>>
       \/ focus = "permissions" /\ Permissions!Next
            /\ UNCHANGED <<vars, fenceVars, answerVars, routeVars, installVars>>
       \/ focus = "fences" /\ Fences!Next
            /\ UNCHANGED <<vars, ruleVars, answerVars, routeVars, installVars>>
       \/ focus = "answers" /\ Answers!Next
            /\ UNCHANGED <<vars, ruleVars, fenceVars, routeVars, installVars>>
       \/ focus = "routes" /\ Routes!Next
            /\ UNCHANGED <<vars, ruleVars, fenceVars, answerVars, installVars>>
       \/ focus = "installs" /\ Installs!Next
            /\ UNCHANGED <<vars, ruleVars, fenceVars, answerVars, routeVars>>

FocusSpec == FocusInit /\ [][FocusNext]_allVars

-----------------------------------------------------------------------------
(* The properties, each as its module states it; those of the plugin       *)
(* runtime are its own.                                                    *)

\* The variables of the component that runs have their types.
RecordsTypeOK ==
    /\ focus \in Foci
    /\ focus = "plugins" => TypeOK
    /\ focus = "permissions" => Permissions!TypeOK
    /\ focus = "fences" => Fences!TypeOK
    /\ focus = "answers" => Answers!TypeOK
    /\ focus = "routes" => Routes!TypeOK
    /\ focus = "installs" => Installs!TypeOK

\* An Always or Never decides its call for the rest of the session.
AnswerIsObeyed == Permissions!AnswerIsObeyed

\* permissions.toml holds the rules in force after it was loaded or written.
SavedRulesAreTheRules == Permissions!SavedRulesAreTheRules

\* Line-anchored text is cut at its fences the same way in whatever fragments it arrives,
\* unless one ends in a carriage return.
ChunkingIsInvisible == Fences!ChunkingIsInvisible

\* The stream events of every provider fit together.
EventsAreWellFormed == Answers!EventsAreWellFormed

\* What was sent, what is kept and what is shown are the same.
AnswerIsShown == Answers!AnswerIsShown

\* The interactive state of a canvas comes back to it.
StatesReturnHome == Answers!StatesReturnHome

\* app.rs:1201-1204: the outcome's text is a fallback.
ShownOnce == Answers!ShownOnce

\* No message goes to another vendor without the user's consent.
AnotherVendorNeedsConsent == Routes!AnotherVendorNeedsConsent

\* An image goes to a model that sees it, or the user is warned.
ImageIsSeenOrWarned == Routes!ImageIsSeenOrWarned

\* router.rs:16-17: a turn falls through to the active provider and its default model.
DefaultIsOfItsProvider == Routes!DefaultIsOfItsProvider

\* The rows of a finished batch say what became of its servers.
RowsTellTheTruth == Installs!RowsTellTheTruth

\* Merges that do not overlap lose nothing of lsp.toml.
ConfigIsKept == Installs!ConfigIsKept
=============================================================================
