-------------------------------- MODULE Router --------------------------------
(***************************************************************************)
(* Which provider and model a turn goes to. The TUI keeps an active        *)
(* provider and a model, the host keeps them again, in two cells; a turn   *)
(* looks at the pool when it parses the `@` prefix of its message, at the  *)
(* two cells and the routing rules one after the other, at the pool when   *)
(* it picks, and once more for the warning about images, while the main    *)
(* loop and the removals go on.                                            *)
(*                                                                         *)
(* A message is what the router tells apart: its prefix, whether it has an *)
(* image, the keywords in it, and how the classifier judges it. Bounds on  *)
(* the length of a message are left out of the rules: they are judged like *)
(* its keywords. The pool is a hash map: its order is any order.           *)
(***************************************************************************)
EXTENDS Naturals, Sequences

CONSTANTS
    Registered,      \* the providers in the order of their registration
    Catalog,         \* for each provider its models, in the order it declares them
    DefaultModel,    \* for each provider the model it names as its default
    SeesImages,      \* the models that support vision
    Tier,            \* the cost tier of each model
    Aliases,         \* ModelAlias: records of an alias, a provider and a model
    Messages,        \* what users write: see Message
    RuleFiles,       \* the contents routing.toml may have
    EnvModels,       \* what SAVVAGENT_MODEL may name: a provider and a model of it, or Nothing
    Nothing          \* None

VARIABLES
    pool,            \* Host::pool: the connected providers
    active,          \* Host::active_provider
    current_model,   \* Host::current_model
    rules,           \* Host::routing_rules
    env,             \* SAVVAGENT_MODEL in this process
    app_active,      \* App::active_provider_id
    app_model,       \* App::model
    switching,       \* the main loop has set the provider, this model is to follow
    turn             \* the turn on its way to a decision

uiVars == <<env, app_active, app_model, switching>>
vars == <<pool, active, current_model, rules, uiVars, turn>>

Providers == {Registered[i] : i \in DOMAIN Registered}
Offers(p) == {Catalog[p][i] : i \in DOMAIN Catalog[p]}
Models == UNION {Offers(p) : p \in Providers}
Reasons == {"override", "modality", "rule", "heuristic", "default"}

Message == [form : {"none", "escape", "pair", "word"}, name : STRING \cup Providers \cup {Nothing},
            model : Models \cup {Nothing}, image : BOOLEAN, words : SUBSET STRING,
            kind : {"short", "coding", "none"}]

\* RoutingRule: where `image` is "any" the predicate is absent.
Rule == [image : {"any", "yes", "no"}, words : SUBSET STRING, provider : Providers,
         model : Models]

RoutingOverride == [provider : Providers, model : Models \cup {Nothing}]
RoutingDecision == [provider : Providers, model : Models, reason : Reasons]

Idle == [phase |-> "idle", msg |-> Nothing, override |-> Nothing, active |-> Nothing,
         model |-> Nothing, rules |-> Nothing, views |-> {}, decision |-> Nothing,
         warned |-> FALSE]

TypeOK ==
    /\ pool \subseteq Providers /\ active \in Providers /\ current_model \in Models
    /\ rules \in RuleFiles /\ env \in EnvModels
    /\ app_active \in Providers /\ app_model \in Models
    /\ switching = Nothing \/ switching \in [model : Models, picked : BOOLEAN]
    /\ turn.phase \in {"idle", "parsed", "active", "model", "rules", "picked", "routed"}
    /\ turn.override = Nothing \/ turn.override \in RoutingOverride
    /\ turn.phase \in {"picked", "routed"} => turn.decision \in RoutingDecision
    /\ turn.warned \in BOOLEAN

-----------------------------------------------------------------------------
(* Start-up and the commands of the TUI.                                   *)

\* resolve_initial_model_for: SAVVAGENT_MODEL, whatever p offers, or the model that
\* models.toml or routing.toml have for p, or the default of p.
InitialModel(p) == IF env = Nothing THEN Offers(p) ELSE {env.model}

\* Host::start makes the first connected provider active; the bootstrap takes the
\* provider of the header, and the model of header and host, from SAVVAGENT_MODEL if set.
Init ==
    /\ pool \in (SUBSET Providers) \ {{}}
    /\ active = Registered[CHOOSE i \in DOMAIN Registered :
                    /\ Registered[i] \in pool
                    /\ \A j \in 1 .. i - 1 : Registered[j] \notin pool]
    /\ env \in EnvModels
    /\ app_active = IF env = Nothing THEN active ELSE env.provider
    /\ app_model \in InitialModel(active) /\ current_model = app_model
    /\ rules \in RuleFiles
    /\ switching = Nothing
    /\ turn = Idle

AtRest == switching = Nothing

\* `/use`: the provider of the host changes, and what the TUI shows.
Use(p) ==
    /\ AtRest /\ p \in pool
    /\ active' = p
    /\ app_active' = p /\ app_model' \in InitialModel(p)
    /\ UNCHANGED <<pool, current_model, rules, env, switching, turn>>

\* `/model` or the picker: a provider other than the one shown is made active first.
PickModel(p, m) ==
    /\ AtRest
    /\ p = app_active \/ p \in pool
    /\ active' = IF p = app_active THEN active ELSE p
    /\ app_active' = p
    /\ switching' = [model |-> m, picked |-> TRUE]
    /\ UNCHANGED <<pool, current_model, rules, env, app_model, turn>>

\* The catalog of the active provider is looked at if that provider is connected.
Accepted == switching.picked /\ active \in pool => switching.model \in Offers(active)

\* The model follows: perform_model_change, unless the active provider does not offer it.
SetModel ==
    /\ ~AtRest /\ Accepted
    /\ current_model' = switching.model /\ app_model' = switching.model
    /\ switching' = Nothing
    /\ UNCHANGED <<pool, active, rules, env, app_active, turn>>

RejectModel ==
    /\ ~AtRest /\ ~Accepted
    /\ switching' = Nothing
    /\ UNCHANGED <<pool, active, current_model, rules, env, app_active, app_model, turn>>

\* `/connect`: the provider joins the pool; it is made active if the active one is gone.
Connect(p) ==
    /\ AtRest /\ p \notin pool
    /\ pool' = pool \cup {p}
    /\ IF active \in pool'
       THEN UNCHANGED <<active, app_active, app_model, switching>>
       ELSE /\ active' = p /\ app_active' = p /\ app_model' \in InitialModel(p)
            /\ switching' = [model |-> app_model', picked |-> FALSE]
    /\ UNCHANGED <<current_model, rules, env, turn>>

\* remove_provider, in the task that `/disconnect` spawned.
Disconnect(p) ==
    /\ p \in pool
    /\ pool' = pool \ {p}
    /\ UNCHANGED <<active, current_model, rules, uiVars, turn>>

\* `/route reload`; a file that cannot be read leaves the rules as they are.
ReloadRules ==
    /\ AtRest
    /\ rules' \in RuleFiles
    /\ UNCHANGED <<pool, active, current_model, uiVars, turn>>

-----------------------------------------------------------------------------
(* The layers: the decisions each may make on what the turn has read, none *)
(* where it falls through.                                                 *)

RouteTo(p, m, reason) == [provider |-> p, model |-> m, reason |-> reason]

\* parse_at_prefix: an explicit pair must exist; a bare word is a provider, or else an
\* alias that is not ambiguous. Whatever is not resolved stays in the message.
ParsePrefix(msg) ==
    LET hits == {a \in Aliases : a.alias = msg.name /\ a.provider \in pool} IN
    CASE msg.form = "pair" /\ msg.name \in pool /\ msg.model \in Offers(msg.name)
            -> [provider |-> msg.name, model |-> msg.model]
      [] msg.form = "word" /\ msg.name \in pool
            -> [provider |-> msg.name, model |-> Nothing]
      [] msg.form = "word" /\ msg.name \notin pool /\ (\E a \in hits : hits = {a})
            -> LET a == CHOOSE a \in hits : TRUE IN [provider |-> a.provider, model |-> a.model]
      [] OTHER -> Nothing

OverrideLayer ==
    LET o == turn.override IN
    IF o = Nothing THEN {}
    ELSE {RouteTo(p, IF o.model = Nothing THEN DefaultModel[p] ELSE o.model, "override") :
              p \in pool \cap {o.provider}}

\* The first model of the provider that is one of those.
FirstOf(p, these) ==
    Catalog[p][CHOOSE i \in DOMAIN Catalog[p] :
                  Catalog[p][i] \in these /\ \A j \in 1 .. i - 1 : Catalog[p][j] \notin these]

\* Variant: the first provider that can see images is taken.
ModalityAnywhere ==
    {RouteTo(p, FirstOf(p, SeesImages), "modality") : p \in
        {q \in pool : /\ turn.msg.image /\ Offers(q) \cap SeesImages # {}
                      /\ turn.model \notin Offers(turn.active) \cap SeesImages}}

\* pick_vision_capable never leaves the active provider.
ModalityLayer ==
    {RouteTo(p, FirstOf(p, SeesImages), "modality") : p \in
        {q \in pool \cap {turn.active} : /\ turn.msg.image
                                         /\ turn.model \notin Offers(q) \cap SeesImages
                                         /\ Offers(q) \cap SeesImages # {}}}

\* match_satisfied
Matches(rule, msg) ==
    /\ rule.image # "any" => (rule.image = "yes") = msg.image
    /\ rule.words # {} => rule.words \cap msg.words # {}

\* RoutingRules::evaluate: the first that matches and whose provider is connected. The
\* model is taken as the file has it.
RuleLayer ==
    LET all == turn.rules.rules
        fires(i) == Matches(all[i], turn.msg) /\ all[i].provider \in pool
    IN  {RouteTo(all[i].provider, all[i].model, "rule") :
            i \in {k \in DOMAIN all : fires(k) /\ \A j \in 1 .. k - 1 : ~fires(j)}}

PreferredTiers(kind) == IF kind = "short" THEN <<"free", "cheap">> ELSE <<"premium", "standard">>

InTier(tier) == {m \in Models : Tier[m] = tier}

\* The providers with a model of the tier: the active one, or else any.
HaveTier(tier) ==
    LET have == {p \in pool : Offers(p) \cap InTier(tier) # {}} IN
    IF turn.active \in have THEN {turn.active} ELSE have

\* pick_for_kind
HeuristicLayer ==
    LET tiers   == PreferredTiers(turn.msg.kind)
        already == /\ turn.active \in pool /\ turn.model \in Offers(turn.active)
                   /\ \E i \in DOMAIN tiers : Tier[turn.model] = tiers[i]
        best    == {i \in DOMAIN tiers : HaveTier(tiers[i]) # {}
                        /\ \A j \in 1 .. i - 1 : HaveTier(tiers[j]) = {}}
    IN  IF ~turn.rules.heuristics \/ turn.msg.kind = "none" \/ already THEN {}
        ELSE UNION {{RouteTo(p, FirstOf(p, InTier(tiers[i])), "heuristic") :
                        p \in HaveTier(tiers[i])} : i \in best}

\* Router::pick: the first layer that has an answer.
Picks ==
    LET layers == <<OverrideLayer, ModalityLayer, RuleLayer, HeuristicLayer,
                    {RouteTo(turn.active, turn.model, "default")}>>
        first  == CHOOSE i \in DOMAIN layers :
                      layers[i] # {} /\ \A j \in 1 .. i - 1 : layers[j] = {}
    IN  layers[first]

-----------------------------------------------------------------------------
(* The turn.                                                               *)

hostVars == <<pool, active, current_model, rules, uiVars>>

Begin(msg) ==
    /\ turn = Idle
    /\ turn' = [Idle EXCEPT !.phase = "parsed", !.msg = msg, !.override = ParsePrefix(msg)]
    /\ UNCHANGED hostVars

ReadActive ==
    /\ turn.phase = "parsed"
    /\ turn' = [turn EXCEPT !.phase = "active", !.active = active]
    /\ UNCHANGED hostVars

ReadModel ==
    /\ turn.phase = "active"
    /\ turn' = [turn EXCEPT !.phase = "model", !.model = current_model]
    /\ UNCHANGED hostVars

ReadRules ==
    /\ turn.phase = "model"
    /\ turn' = [turn EXCEPT !.phase = "rules", !.rules = rules]
    /\ UNCHANGED hostVars

Pick ==
    /\ turn.phase = "rules"
    /\ \E d \in Picks : turn' = [turn EXCEPT !.phase = "picked", !.views = pool, !.decision = d]
    /\ UNCHANGED hostVars

\* Variant: the host trusts the layers that run after the one for images.
LacksVisionByDefault(d) ==
    /\ turn.msg.image /\ d.reason = "default"
    /\ d.provider \in pool /\ d.model \in Offers(d.provider) \ SeesImages

\* What the host knows of the picked model after the pick: not if its provider is gone
\* or does not list it.
LacksVision(d) ==
    /\ turn.msg.image /\ d.reason # "modality"
    /\ d.provider \in pool /\ d.model \in Offers(d.provider) \ SeesImages

Warn ==
    /\ turn.phase = "picked"
    /\ turn' = [Idle EXCEPT !.phase = "routed", !.msg = turn.msg, !.views = pool,
                          !.decision = turn.decision, !.warned = LacksVision(turn.decision)]
    /\ UNCHANGED hostVars

\* The rest of the turn is ProviderPool's and PromptTurns'.
End ==
    /\ turn.phase = "routed"
    /\ turn' = Idle
    /\ UNCHANGED hostVars

Next ==
    \/ \E p \in Providers : Use(p) \/ Connect(p) \/ Disconnect(p)
    \/ \E p \in Providers, m \in Models : PickModel(p, m)
    \/ SetModel \/ RejectModel \/ ReloadRules
    \/ \E msg \in Messages : Begin(msg)
    \/ ReadActive \/ ReadModel \/ ReadRules \/ Pick \/ Warn \/ End

Spec == Init /\ [][Next]_vars

-----------------------------------------------------------------------------
\* A message goes to another vendor than the active one only where its own prefix, a
\* rule of the user or the heuristics the user has switched on say so, and only to one
\* that was connected at the pick; an image alone is no consent. Disconnects, reloads and
\* switches between the reads do not change it.
AnotherVendorNeedsConsent ==
    turn.phase = "picked" /\ turn.decision.provider # turn.active =>
        /\ turn.decision.provider \in turn.views
        /\ \/ turn.override # Nothing /\ turn.override.provider = turn.decision.provider
           \/ \E i \in DOMAIN turn.rules.rules :
                turn.rules.rules[i].provider = turn.decision.provider
           \/ turn.rules.heuristics

\* A message with an image goes to a model that sees images, or the user is warned,
\* whichever layer has picked the model and whatever happens between the reads, as long
\* as the provider is still connected and lists the model.
ImageIsSeenOrWarned ==
    turn.phase = "routed" /\ turn.msg.image /\ ~turn.warned
        /\ turn.decision.provider \in turn.views
        /\ turn.decision.model \in Offers(turn.decision.provider)
        => turn.decision.model \in SeesImages

\* router.rs:16-17: "Layer 5 - fall through to the active provider + its default model".
\* A turn that was not disturbed and that falls through gets a model of its provider.
DefaultIsOfItsProvider ==
    turn.phase = "picked" /\ turn.decision.reason = "default" /\ turn.active = active
           /\ turn.model = current_model /\ AtRest
        => turn.decision.model \in Offers(turn.decision.provider)
=============================================================================
