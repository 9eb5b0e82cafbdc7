----------------------------- MODULE ToolPrompts -----------------------------
(***************************************************************************)
(* A tool call from the request of the model, or from `/bash`, to its      *)
(* result. On the way it may wait for the user twice: for permission       *)
(* (Host::gate_tool_call) and for network access of tool-bash              *)
(* (HostBashNetResolver). Each prompt travels through the channels of its  *)
(* job to the main loop, which shows it as a modal. The tools mutex of the *)
(* host is held over a whole call of a stdio tool, the network prompt      *)
(* included; the main loop takes it as well, and so does Host::shutdown.   *)
(*                                                                         *)
(* Request ids are fresh numbers and a call asks each question at most     *)
(* once: a prompt is its kind and its call. Which waiter gets a mutex next *)
(* is left open. Calls run one at a time until a late error of a cancelled *)
(* turn clears is_loading under the next job (module PromptTurns); from    *)
(* then on they overlap.                                                   *)
(***************************************************************************)
EXTENDS Naturals, FiniteSets

CONSTANTS
    TurnCalls,        \* tool calls of turns
    BashCalls,        \* `/bash` commands
    SubCalls,         \* tool calls of subagents
    PlainCalls,       \* the calls of turns that are not for tool-bash
    Keys,             \* what a permission rule is recorded for: tool and argument pattern
    KeyOf,            \* the key of each call
    MaxParallel,      \* bound: calls in progress at once when jobs overlap
    NoOne

Calls == TurnCalls \cup BashCalls \cup SubCalls

ASSUME CallsAssumption ==
    /\ IsFiniteSet(Calls)
    /\ TurnCalls \cap BashCalls = {} /\ TurnCalls \cap SubCalls = {}
    /\ BashCalls \cap SubCalls = {}
    /\ PlainCalls \subseteq TurnCalls
    /\ NoOne \notin Calls
ASSUME KeysAssumption == KeyOf \in [Calls -> Keys]
ASSUME BoundsAssumption == MaxParallel \in Nat

VARIABLES
    pc,                    \* where each call is
    over,                  \* its NetOverride: a flag of `/bash`, else "inherit"
    allow_net,             \* the network decision it runs with
    reply,                 \* what its permission oneshot has received
    choice,                \* what its network oneshot has received
    tools,                 \* holder of Host::tools
    registry,              \* the registry is still in Host::tools
    active,                \* holder of LazyBash::active
    server,                \* the tool-bash that runs: its network setting
    pending,               \* Host::pending: calls whose permission oneshot waits there
    pending_bash_network,  \* the same for the network oneshot
    toml_rules,            \* the rule recorded for each key
    bash_network_decision, \* the session's cached network decision
    inbox,                 \* prompts sent and not handled by the main loop yet
    input_mode,            \* App::input_mode
    pending_permission,    \* App::pending_permission
    resolving,             \* network answers on their way in tasks of their own
    main,                  \* what the main loop is doing
    overlap,               \* is_loading has been cleared under a running job
    displaced              \* a canvas or the API-key modal took the place of a prompt that was up

callVars == <<pc, over, allow_net>>
oneshots == <<reply, choice, pending, pending_bash_network>>
locks    == <<tools, registry, active, server>>
policy   == <<toml_rules, bash_network_decision>>
tuiVars  == <<inbox, input_mode, pending_permission, resolving, main>>
inputs   == <<overlap, displaced>>
vars == <<callVars, oneshots, locks, policy, tuiVars, inputs>>

-----------------------------------------------------------------------------
Decisions == {"allow", "deny"}                         \* PermissionDecision
Choices   == {"once", "always", "deny_once", "deny_always"}  \* BashNetworkChoice; Cancelled acts as deny_once
Overrides == {"inherit", "allow", "deny"}              \* NetOverride
PC == {"idle", "gate", "asked", "snapshot", "hooks", "lock", "resolve", "net",
       "slot", "spawn", "run", "done"}

Prompt(kind, c) == [kind |-> kind, call |-> c]
Prompts == {Prompt(k, c) : k \in {"permission", "network"}, c \in Calls}
\* The modes the prompts can meet. Modals that only open from the input line are "editing",
\* and so are screens: keys go to a screen first, so that a prompt under it has to wait.
Mode(name)  == [kind |-> name, call |-> NoOne]
Modes == {Mode(name) : name \in {"editing", "canvas", "api_key", "permission"}}
            \cup {Prompt("network", c) : c \in Calls}
MainStates == {[at |-> a, call |-> NoOne] : a \in {"loop", "reload", "shutdown", "closing", "gone"}}
                \cup {[at |-> "bash", call |-> c] : c \in BashCalls}
At(place) == [at |-> place, call |-> NoOne]

TypeOK ==
    /\ pc \in [Calls -> PC] /\ over \in [Calls -> Overrides]
    /\ allow_net \in [Calls -> BOOLEAN]
    /\ reply \in [Calls -> Decisions \cup {"none"}]
    /\ choice \in [Calls -> Choices \cup {"none"}]
    /\ tools \in Calls \cup {NoOne} /\ active \in Calls \cup {NoOne}
    /\ registry \in BOOLEAN /\ server \in {"none", "online", "offline"}
    /\ pending \subseteq TurnCalls /\ pending_bash_network \subseteq Calls
    /\ toml_rules \in [Keys -> Decisions \cup {"none"}]
    /\ bash_network_decision \in Decisions \cup {"none"}
    /\ inbox \subseteq Prompts /\ input_mode \in Modes
    /\ pending_permission \in TurnCalls \cup {NoOne}
    /\ resolving \subseteq (Calls \X Choices)
    /\ main \in MainStates /\ overlap \in BOOLEAN /\ displaced \in BOOLEAN

Init ==
    /\ pc = [c \in Calls |-> "idle"] /\ over = [c \in Calls |-> "inherit"]
    /\ allow_net = [c \in Calls |-> FALSE]
    /\ reply = [c \in Calls |-> "none"] /\ choice = [c \in Calls |-> "none"]
    /\ tools = NoOne /\ registry = TRUE /\ active = NoOne /\ server = "none"
    /\ pending = {} /\ pending_bash_network = {}
    /\ toml_rules \in [Keys -> Decisions \cup {"none"}]
    /\ bash_network_decision = "none"
    /\ inbox = {} /\ input_mode = Mode("editing") /\ pending_permission = NoOne
    /\ resolving = {} /\ main = At("loop")
    /\ overlap = FALSE /\ displaced = FALSE

Goto(c, l) == pc' = [pc EXCEPT ![c] = l]

Looping  == main = At("loop")
Quitting == main.at \in {"shutdown", "closing", "gone"}
\* is_loading keeps a second job out, and a job makes one call at a time.
InProgress == {c \in Calls : pc[c] \notin {"idle", "done"} \/ main.call = c}
MayStart == Cardinality(InProgress) < (IF overlap THEN MaxParallel ELSE 1)
Alive    == main.at # "gone"

-----------------------------------------------------------------------------
(* The gate of a turn's call.                                              *)

StartTurnCall(c) ==
    /\ Alive /\ pc[c] = "idle" /\ MayStart
    /\ Goto(c, "gate")
    /\ UNCHANGED <<over, allow_net, oneshots, locks, policy, tuiVars, inputs>>

\* A recorded rule decides at once.
GateByRule(c) ==
    /\ Alive /\ pc[c] = "gate"
    /\ toml_rules[KeyOf[c]] # "none"
    /\ Goto(c, IF toml_rules[KeyOf[c]] = "allow" THEN "snapshot" ELSE "done")
    /\ UNCHANGED <<over, allow_net, oneshots, locks, policy, tuiVars, inputs>>

\* Variant: the prompt goes out before the oneshot is in the map, and is answered first.
AskUnregistered(c) ==
    /\ Alive /\ pc[c] = "gate"
    /\ toml_rules[KeyOf[c]] = "none"
    /\ inbox' = IF Quitting THEN inbox ELSE inbox \cup {Prompt("permission", c)}
    /\ Goto(c, "asked")
    /\ UNCHANGED <<over, allow_net, oneshots, locks, policy,
                   input_mode, pending_permission, resolving, main, inputs>>

\* Without a rule the user is asked. Once run_app has returned the prompt is lost: the
\* worker stops forwarding and holds the receiver until the turn ends, a `/bash` has
\* its forwarder drop the event.
Ask(c) ==
    /\ Alive /\ pc[c] = "gate"
    /\ toml_rules[KeyOf[c]] = "none"
    /\ pending' = pending \cup {c}
    /\ inbox' = IF Quitting THEN inbox ELSE inbox \cup {Prompt("permission", c)}
    /\ Goto(c, "asked")
    /\ UNCHANGED <<over, allow_net, reply, choice, pending_bash_network, locks, policy,
                   input_mode, pending_permission, resolving, main, inputs>>

GetPermission(c) ==
    /\ Alive /\ pc[c] = "asked" /\ reply[c] # "none"
    /\ Goto(c, IF reply[c] = "allow" THEN "snapshot" ELSE "done")
    /\ reply' = [reply EXCEPT ![c] = "none"]
    /\ UNCHANGED <<over, allow_net, choice, pending, pending_bash_network, locks, policy,
                   tuiVars, inputs>>

\* A brief lock to clone the registry; it is free again when the step ends.
Snapshot(c) ==
    /\ Alive /\ pc[c] = "snapshot" /\ tools = NoOne
    /\ Goto(c, "hooks")
    /\ UNCHANGED <<over, allow_net, oneshots, locks, policy, tuiVars, inputs>>

-----------------------------------------------------------------------------
(* Dispatch of a call to its server.                                       *)

\* A subagent's call has no permission gate; its turn waits in an in-process tool
\* and holds no lock.
StartSubCall(c) ==
    /\ Alive /\ pc[c] = "idle" /\ MayStart
    /\ Goto(c, "hooks")
    /\ UNCHANGED <<over, allow_net, oneshots, locks, policy, tuiVars, inputs>>

\* check_pre_tool_gate: a user hook lets the call pass or blocks it. A subagent
\* has the registry already, the others go for the mutex.
PreToolGate(c) ==
    /\ Alive /\ pc[c] = "hooks"
    /\ \/ Goto(c, IF c \in SubCalls THEN "resolve" ELSE "lock")
       \/ Goto(c, "done")
    /\ UNCHANGED <<over, allow_net, oneshots, locks, policy, tuiVars, inputs>>

\* The mutex is kept until the call returns.
Lock(c) ==
    /\ Alive /\ pc[c] = "lock" /\ tools = NoOne /\ registry
    /\ tools' = c
    /\ Goto(c, IF c \in PlainCalls THEN "run" ELSE "resolve")
    /\ UNCHANGED <<over, allow_net, oneshots, registry, active, server, policy, tuiVars, inputs>>

\* After shutdown took the registry `/bash` returns an error; a turn panics on its
\* expect, which ends its task (and the process, where panics abort).
LockNothing(c) ==
    /\ Alive /\ pc[c] = "lock" /\ tools = NoOne /\ ~registry
    /\ Goto(c, "done")
    /\ UNCHANGED <<over, allow_net, oneshots, locks, policy, tuiVars, inputs>>

\* An override or a cached decision answers without a prompt.
ResolveNoPrompt(c) ==
    /\ Alive /\ pc[c] = "resolve"
    /\ \/ over[c] # "inherit"
          /\ allow_net' = [allow_net EXCEPT ![c] = over[c] = "allow"]
       \/ over[c] = "inherit" /\ bash_network_decision # "none"
          /\ allow_net' = [allow_net EXCEPT ![c] = bash_network_decision = "allow"]
    /\ Goto(c, "slot")
    /\ UNCHANGED <<over, oneshots, locks, policy, tuiVars, inputs>>

\* resolve_bash_network_with_state under the Ask policy: a new request, one prompt.
AskNetwork(c) ==
    /\ Alive /\ pc[c] = "resolve"
    /\ over[c] = "inherit" /\ bash_network_decision = "none"
    /\ pending_bash_network' = pending_bash_network \cup {c}
    /\ inbox' = IF Quitting THEN inbox ELSE inbox \cup {Prompt("network", c)}
    /\ Goto(c, "net")
    /\ UNCHANGED <<over, allow_net, reply, choice, pending, locks, policy,
                   input_mode, pending_permission, resolving, main, inputs>>

\* No channel: the guard of an overlapping job emptied the slot. The network is denied.
AskNetworkRefused(c) ==
    /\ Alive /\ pc[c] = "resolve"
    /\ overlap
    /\ over[c] = "inherit" /\ bash_network_decision = "none"
    /\ allow_net' = [allow_net EXCEPT ![c] = FALSE]
    /\ Goto(c, "slot")
    /\ UNCHANGED <<over, oneshots, locks, policy, tuiVars, inputs>>

\* PermissionPolicy::resolve_bash_network reads the cache again: another call's answer
\* may have filled it meanwhile and then decides. (Nothing is awaited between that
\* read and the write of the cache.)
GetChoice(c) ==
    /\ Alive /\ pc[c] = "net" /\ choice[c] # "none"
    /\ \/ /\ bash_network_decision # "none"
          /\ allow_net' = [allow_net EXCEPT ![c] = bash_network_decision = "allow"]
          /\ UNCHANGED bash_network_decision
       \/ /\ bash_network_decision = "none"
          /\ allow_net' = [allow_net EXCEPT ![c] = choice[c] \in {"once", "always"}]
          /\ bash_network_decision' = CASE choice[c] = "always" -> "allow"
                                        [] choice[c] = "deny_always" -> "deny"
                                        [] OTHER -> "none"
    /\ Goto(c, "slot")
    /\ UNCHANGED <<over, oneshots, locks, toml_rules, tuiVars, inputs>>

Setting(c) == IF allow_net[c] THEN "online" ELSE "offline"

\* Variant: the call goes to the server that runs, whatever its setting.
SlotReusing(c) ==
    /\ Alive /\ pc[c] = "slot" /\ active = NoOne
    /\ active' = c
    /\ Goto(c, IF server # "none" THEN "run" ELSE "spawn")
    /\ UNCHANGED <<over, allow_net, oneshots, tools, registry, server, policy, tuiVars, inputs>>

\* LazyBash::dispatch locks the server slot: reuse or respawn.
Slot(c) ==
    /\ Alive /\ pc[c] = "slot" /\ active = NoOne
    /\ active' = c
    /\ Goto(c, IF server = Setting(c) THEN "run" ELSE "spawn")
    /\ UNCHANGED <<over, allow_net, oneshots, tools, registry, server, policy, tuiVars, inputs>>

\* The new server comes up first, then the old one is cancelled.
Respawn(c) ==
    /\ Alive /\ pc[c] = "spawn"
    /\ server' = Setting(c)
    /\ Goto(c, "run")
    /\ UNCHANGED <<over, allow_net, oneshots, tools, registry, active, policy, tuiVars, inputs>>

\* The locks a returning call holds are released, and its locals are gone.
Return(c) ==
    /\ Goto(c, "done")
    /\ over' = [over EXCEPT ![c] = "inherit"]
    /\ allow_net' = [allow_net EXCEPT ![c] = FALSE]
    /\ choice' = [choice EXCEPT ![c] = "none"]
    /\ tools' = IF tools = c THEN NoOne ELSE tools
    /\ active' = IF active = c THEN NoOne ELSE active
    /\ UNCHANGED <<reply, pending, pending_bash_network, registry, server, policy, tuiVars>>

\* The old server stays, and the call returns an error without having run.
RespawnFails(c) ==
    /\ Alive /\ pc[c] = "spawn"
    /\ Return(c) /\ UNCHANGED inputs

Finish(c) ==
    /\ Alive /\ pc[c] = "run"
    /\ Return(c) /\ UNCHANGED inputs

-----------------------------------------------------------------------------
(* The main loop. It handles one message or one key at a time; a step that *)
(* awaits the tools mutex keeps it from everything else.                   *)

\* Variant: a prompt does not take the focus from a canvas.
ShowUnfocused(p) ==
    /\ Looping /\ p \in inbox
    /\ inbox' = inbox \ {p}
    /\ pending_permission' = IF p.kind = "permission" THEN p.call ELSE pending_permission
    /\ input_mode' = IF input_mode = Mode("canvas") THEN input_mode
                     ELSE IF p.kind = "permission" THEN Mode("permission") ELSE p
    /\ UNCHANGED <<callVars, oneshots, locks, policy, resolving, main, inputs>>

\* App::apply_turn_event on PermissionRequested and BashNetworkRequested. Whatever
\* modal was up is replaced.
Show(p) ==
    /\ Looping /\ p \in inbox
    /\ inbox' = inbox \ {p}
    /\ IF p.kind = "permission"
       THEN pending_permission' = p.call /\ input_mode' = Mode("permission")
       ELSE input_mode' = p /\ UNCHANGED pending_permission
    /\ UNCHANGED <<callVars, oneshots, locks, policy, resolving, main, inputs>>

\* y, n, a or N in the permission modal: resolve_pending_permission. The rule of an
\* Always or Never is recorded before the call goes on.
AnswerPermission(d, persist) ==
    /\ Looping /\ input_mode = Mode("permission")
    /\ LET c == pending_permission IN
       /\ toml_rules' = IF persist THEN [toml_rules EXCEPT ![KeyOf[c]] = d] ELSE toml_rules
       /\ pending' = pending \ {c}
       /\ reply' = IF c \in pending THEN [reply EXCEPT ![c] = d] ELSE reply
    /\ pending_permission' = NoOne
    /\ input_mode' = Mode("editing")
    /\ UNCHANGED <<callVars, choice, pending_bash_network, locks, bash_network_decision,
                   inbox, resolving, main, inputs>>

\* o, a, d, f or Esc in the network modal: a task of its own resolves the request.
AnswerNetwork(ch) ==
    /\ Looping /\ input_mode.kind = "network"
    /\ resolving' = resolving \cup {<<input_mode.call, ch>>}
    /\ input_mode' = Mode("editing")
    /\ UNCHANGED <<callVars, oneshots, locks, policy, inbox, pending_permission, main, inputs>>

\* Host::resolve_bash_network_decision; an id that is not pending is ignored.
ResolveNetwork(r) ==
    /\ Alive /\ r \in resolving
    /\ resolving' = resolving \ {r}
    /\ pending_bash_network' = pending_bash_network \ {r[1]}
    /\ choice' = IF r[1] \in pending_bash_network THEN [choice EXCEPT ![r[1]] = r[2]] ELSE choice
    /\ UNCHANGED <<callVars, reply, pending, locks, policy, inbox, input_mode,
                   pending_permission, main, inputs>>

PromptUp == input_mode.kind \in {"permission", "network"}
TakeOver(name) ==
    /\ Looping /\ input_mode # Mode(name)
    /\ input_mode' = Mode(name)
    /\ displaced' = (displaced \/ PromptUp)
    /\ UNCHANGED <<callVars, oneshots, locks, policy, inbox, pending_permission, resolving,
                   main, overlap>>

\* A click on a canvas focuses it whatever modal is up.
ClickCanvas == TakeOver("canvas")

\* The `/connect` picker was open when the prompt came and still has the keys: a provider
\* without a key makes Effect::PromptApiKey open its modal over whatever is up.
EnterApiKey == TakeOver("api_key")

\* Esc or a key: cancel_connect, or the submit, goes back to the input line.
LeaveApiKey ==
    /\ Looping /\ input_mode = Mode("api_key")
    /\ input_mode' = Mode("editing")
    /\ UNCHANGED <<callVars, oneshots, locks, policy, inbox, pending_permission, resolving,
                   main, inputs>>

LeaveCanvas ==
    /\ Looping /\ input_mode = Mode("canvas")
    /\ input_mode' = Mode("editing")
    /\ UNCHANGED <<callVars, oneshots, locks, policy, inbox, pending_permission, resolving,
                   main, inputs>>

\* `/bash` on Enter: the main loop first awaits the mutex to look for the tool.
EnterBash(c) ==
    /\ Looping /\ input_mode = Mode("editing")
    /\ pc[c] = "idle" /\ MayStart
    /\ main' = [at |-> "bash", call |-> c]
    /\ \E o \in Overrides : over' = [over EXCEPT ![c] = o]
    /\ UNCHANGED <<pc, allow_net, oneshots, locks, policy, inbox, input_mode,
                   pending_permission, resolving, inputs>>

StartBash(c) ==
    /\ main = [at |-> "bash", call |-> c] /\ tools = NoOne
    /\ main' = At("loop")
    /\ Goto(c, "hooks")
    /\ UNCHANGED <<over, allow_net, oneshots, locks, policy, inbox, input_mode,
                   pending_permission, resolving, inputs>>

\* `/reload-agents` picked in the command palette, which is not gated by is_loading:
\* apply_pending_in_process_tools awaits the mutex.
ReloadAgents ==
    /\ Looping
    /\ main' = At("reload")
    /\ UNCHANGED <<callVars, oneshots, locks, policy, inbox, input_mode, pending_permission,
                   resolving, inputs>>

Reloaded ==
    /\ main = At("reload") /\ tools = NoOne
    /\ main' = At("loop")
    /\ UNCHANGED <<callVars, oneshots, locks, policy, inbox, input_mode, pending_permission,
                   resolving, inputs>>

\* Ctrl-C: a network modal that is up is resolved as DenyOnce (drain_pending_bash_net),
\* run_app returns and its channel is dropped with what is in it.
Quit ==
    /\ Looping
    /\ main' = At("shutdown")
    /\ IF input_mode.kind = "network" /\ input_mode.call \in pending_bash_network
       THEN /\ choice' = [choice EXCEPT ![input_mode.call] = "deny_once"]
            /\ pending_bash_network' = pending_bash_network \ {input_mode.call}
       ELSE UNCHANGED <<choice, pending_bash_network>>
    /\ inbox' = {}
    /\ UNCHANGED <<callVars, reply, pending, locks, policy, input_mode, pending_permission,
                   resolving, inputs>>

\* Variant: shutdown does not wait for the mutex.
ShutdownAtOnce ==
    /\ main = At("shutdown")
    /\ registry' = FALSE
    /\ main' = At("closing")
    /\ UNCHANGED <<callVars, oneshots, tools, active, server, policy, inbox, input_mode,
                   pending_permission, resolving, inputs>>

\* Host::shutdown: under the mutex the registry is taken.
Shutdown ==
    /\ main = At("shutdown") /\ tools = NoOne
    /\ registry' = FALSE
    /\ main' = At("closing")
    /\ UNCHANGED <<callVars, oneshots, tools, active, server, policy, inbox, input_mode,
                   pending_permission, resolving, inputs>>

\* The mutex is free again while the servers are closed, or left to a subagent that
\* still has the registry; then the process ends.
ServersClosed ==
    /\ main = At("closing")
    /\ main' = At("gone")
    /\ UNCHANGED <<callVars, oneshots, locks, policy, inbox, input_mode, pending_permission,
                   resolving, inputs>>

\* The late error of a cancelled turn clears is_loading under the job that runs.
LoadingCleared ==
    /\ Looping /\ ~overlap
    /\ overlap' = TRUE
    /\ UNCHANGED <<callVars, oneshots, locks, policy, tuiVars, displaced>>

-----------------------------------------------------------------------------
GateStep(c)    == GateByRule(c) \/ Ask(c) \/ GetPermission(c) \/ Snapshot(c)
NetworkStep(c) == ResolveNoPrompt(c) \/ AskNetwork(c) \/ AskNetworkRefused(c) \/ GetChoice(c)
ServerStep(c)  == Slot(c) \/ Respawn(c) \/ RespawnFails(c) \/ Finish(c)
CallStep(c) == GateStep(c) \/ PreToolGate(c) \/ Lock(c) \/ LockNothing(c)
                 \/ NetworkStep(c) \/ ServerStep(c)
Answer ==
    \/ \E d \in Decisions, persist \in BOOLEAN : AnswerPermission(d, persist)
    \/ \E ch \in Choices : AnswerNetwork(ch)
MainStep ==
    \/ \E p \in Prompts : Show(p)
    \/ \E c \in BashCalls : StartBash(c)
    \/ Reloaded \/ Shutdown \/ ServersClosed
UserStep ==
    \/ ClickCanvas \/ LeaveCanvas \/ EnterApiKey \/ LeaveApiKey \/ ReloadAgents \/ Quit
    \/ \E c \in BashCalls : EnterBash(c)

Next ==
    \/ \E c \in TurnCalls : StartTurnCall(c)
    \/ \E c \in SubCalls : StartSubCall(c)
    \/ \E c \in Calls : CallStep(c)
    \/ \E r \in Calls \X Choices : ResolveNetwork(r)
    \/ Answer \/ MainStep \/ UserStep
    \/ LoadingCleared

Spec == Init /\ [][Next]_vars

\* Tasks run, servers and hooks answer, and the user closes the screen above a prompt
\* and answers the prompt that is up.
Fairness ==
    /\ \A c \in Calls : WF_vars(CallStep(c))
    /\ \A r \in Calls \X Choices : WF_vars(ResolveNetwork(r))
    /\ WF_vars(MainStep)
    /\ WF_vars(Answer)
FairSpec == Spec /\ Fairness

-----------------------------------------------------------------------------
(* Properties.                                                             *)

\* A command runs on a server with the network setting decided for it, nobody else
\* uses or replaces that server meanwhile, and the network is on only if a flag of
\* `/bash`, the user's answer to its own prompt or an Always of this session granted
\* it. While jobs do not overlap, an answer that denies is never thrown away.
NetworkAsGranted ==
    \A c \in Calls \ PlainCalls : pc[c] = "run" =>
        /\ active = c /\ server = Setting(c)
        /\ allow_net[c] =>
             \/ over[c] = "allow"
             \/ over[c] = "inherit" /\ choice[c] \in {"once", "always"}
             \/ over[c] = "inherit" /\ bash_network_decision = "allow"
        /\ choice[c] \in {"deny_once", "deny_always"} => overlap \/ ~allow_net[c]

Displaced == overlap \/ displaced

\* A call that waits for the user can be answered: its request is pending, and its
\* prompt is on the way, on the screen, or its answer is on the way. Not so once jobs
\* overlap, where a prompt may replace another, or a click on a canvas or the API-key modal
\* has replaced one: the code does not bring it back, and the call waits on.
PromptIsReachable ==
    Displaced \/ Quitting \/
    \A c \in Calls :
        /\ pc[c] = "asked" /\ reply[c] = "none" =>
             /\ c \in pending
             /\ \/ Prompt("permission", c) \in inbox
                \/ pending_permission = c /\ input_mode = Mode("permission")
        /\ pc[c] = "net" /\ choice[c] = "none" =>
             /\ c \in pending_bash_network
             /\ \/ Prompt("network", c) \in inbox
                \/ input_mode = Prompt("network", c)
                \/ \E ch \in Choices : <<c, ch>> \in resolving

\* Host::shutdown takes the registry only when no turn and no `/bash` is in a call.
RegistryOutlivesCalls ==
    \A c \in TurnCalls \cup BashCalls :
        ~registry => pc[c] \notin {"resolve", "net", "slot", "spawn", "run"}

Undisturbed == ~Displaced /\ main # At("reload") /\ ~Quitting

\* A call that has begun returns, if the user answers, no modal is displaced and the
\* main loop does not wait for the tools mutex while a prompt is up.
CallsReturn ==
    [](Undisturbed) => \A c \in Calls : (pc[c] \notin {"idle", "done"}) ~> (pc[c] = "done")

\* What main.rs:3787-3793 says of a quit: no worker is left waiting for an answer and
\* Host::shutdown completes.
ShutdownCompletes == (main = At("shutdown")) ~> (main = At("gone"))

=============================================================================
