---------------------------- MODULE PromptTurns ----------------------------
(***************************************************************************)
(* Prompts of the TUI and the turns they run on the host. The main loop    *)
(* (main.rs run_app) is one actor: it handles one key or one message at a  *)
(* time. A submitted prompt has two tasks of its own: the worker that      *)
(* forwards the turn's events and puts a one-turn model override in and    *)
(* back, and the runner inside Host::run_turn_inner. `/bash` has the same  *)
(* shape around Host::run_bash_command. What a job sends to the main loop, *)
(* through its event channel and then through worker_tx, is one FIFO       *)
(* mailbox; the mailboxes of two jobs are read in any order.               *)
(***************************************************************************)
EXTENDS Naturals, Sequences, FiniteSets

CONSTANTS
    Prompts,         \* prompts the user submits
    Bashes,          \* `/bash` commands the user submits
    Models,
    FirstModel,      \* the model the host starts with
    MaxPicks,        \* bound: picks in the model picker
    MaxOverrides,    \* bound: one-turn overrides set by user slash commands
    MaxLoads,        \* bound: transcripts resumed
    MaxDisconnects,  \* bound: forced disconnects
    MaxAborts,       \* bound: abort stages of forced disconnects that take effect
    NoModel, NoJob, Loaded

ASSUME JobsAssumption ==
    /\ IsFiniteSet(Prompts) /\ IsFiniteSet(Bashes)
    /\ Prompts \cap Bashes = {}
    /\ NoJob \notin Prompts \cup Bashes
    /\ Loaded \notin Prompts
ASSUME ModelsAssumption == FirstModel \in Models /\ NoModel \notin Models
ASSUME BoundsAssumption == {MaxPicks, MaxOverrides, MaxLoads, MaxDisconnects, MaxAborts} \subseteq Nat

VARIABLES
    is_loading,           \* App::is_loading
    app_model,            \* App::model
    next_override,        \* App::next_turn_model_override
    live_text,            \* App::live_text: the turns whose deltas are in the buffer
    current_turn_id,      \* run_app's slot for the turn the plugins saw start, 0 is None
    next_turn_id,
    ended,                \* the turn ids of the TurnEnd events plugins received
    current_model,        \* Host::current_model
    messages,             \* Host::state.messages: the turns committed to the history
    current_turn_events,  \* Host::current_turn_events: the job whose sender it holds
    disconnecting,        \* turns can still hear that their provider is force-removed
    worker,               \* where each job's worker task is
    runner,               \* where each job's run_turn_inner or run_bash_command is
    override,             \* the worker's model_override
    original,             \* the worker's original_model
    snapshot,             \* the turn's working copy of the history
    model,                \* the model the turn runs with
    failed,               \* the runner returned an error
    detached,             \* a provider call outlives its turn and holds a sender
    streamed,             \* the turn's call has sent its delta
    mailbox,              \* sent to the main loop and not handled yet
    spent                 \* how often each bounded input was given

appVars  == <<is_loading, app_model, next_override, live_text>>
idVars   == <<current_turn_id, next_turn_id, ended>>
hostVars == <<current_model, messages, current_turn_events>>
taskVars == <<override, original, snapshot, model, failed, detached, streamed>>
inputVars == <<disconnecting, spent>>
vars == <<appVars, idVars, hostVars, taskVars, inputVars, worker, runner, mailbox>>

-----------------------------------------------------------------------------
Jobs == Prompts \cup Bashes

Message(kind)    == [kind |-> kind, model |-> NoModel]
ModelRestored(m) == [kind |-> "restored", model |-> m]
Kinds == {"route", "started", "delta", "complete", "cancelled", "aborted", "error", "bash_done"}
Messages == {Message(k) : k \in Kinds} \cup {ModelRestored(m) : m \in Models}

WorkerPC == {"idle", "apply", "forward", "restore", "notify", "report", "done"}
RunnerPC == {"idle", "install", "snapshot", "route", "call", "command",
             "commit", "complete", "exit", "done"}
Inputs   == {"pick", "override", "load", "disconnect", "abort"}

TypeOK ==
    /\ is_loading \in BOOLEAN /\ app_model \in Models
    /\ next_override \in Models \cup {NoModel}
    /\ live_text \in SUBSET Prompts
    /\ current_turn_id \in Nat /\ next_turn_id \in Nat /\ ended \in Seq(Nat)
    /\ current_model \in Models
    /\ messages \in Seq(Prompts \cup {Loaded})
    /\ current_turn_events \in Jobs \cup {NoJob}
    /\ disconnecting \in BOOLEAN
    /\ worker \in [Jobs -> WorkerPC] /\ runner \in [Jobs -> RunnerPC]
    /\ override \in [Jobs -> Models \cup {NoModel}]
    /\ original \in [Jobs -> Models] /\ model \in [Jobs -> Models \cup {NoModel}]
    /\ snapshot \in [Jobs -> Seq(Prompts \cup {Loaded})]
    /\ failed \in [Jobs -> BOOLEAN] /\ detached \in [Jobs -> BOOLEAN]
    /\ streamed \in [Jobs -> BOOLEAN]
    /\ mailbox \in [Jobs -> Seq(Messages)]
    /\ spent \in [Inputs -> Nat]

Init ==
    /\ is_loading = FALSE /\ app_model = FirstModel
    /\ next_override = NoModel /\ live_text = {}
    /\ current_turn_id = 0 /\ next_turn_id = 0 /\ ended = <<>>
    /\ current_model = FirstModel /\ messages = <<>> /\ current_turn_events = NoJob
    /\ disconnecting = FALSE
    /\ worker = [j \in Jobs |-> "idle"] /\ runner = [j \in Jobs |-> "idle"]
    /\ override = [j \in Jobs |-> NoModel]
    /\ original = [j \in Jobs |-> FirstModel] /\ model = [j \in Jobs |-> NoModel]
    /\ snapshot = [j \in Jobs |-> <<>>]
    /\ failed = [j \in Jobs |-> FALSE] /\ detached = [j \in Jobs |-> FALSE]
    /\ streamed = [j \in Jobs |-> FALSE]
    /\ mailbox = [j \in Jobs |-> <<>>]
    /\ spent = [i \in Inputs |-> 0]

Send(j, m)       == mailbox' = [mailbox EXCEPT ![j] = Append(@, m)]
RunnerGoto(j, l) == runner' = [runner EXCEPT ![j] = l]
WorkerGoto(j, l) == worker' = [worker EXCEPT ![j] = l]

\* The input is within its bound; the bounds end the behaviours TLC explores.
Spend(i, max) ==
    /\ spent[i] < max
    /\ spent' = [spent EXCEPT ![i] = @ + 1]

-----------------------------------------------------------------------------
(* Keys. Enter does nothing while a turn is loading, so slash commands are *)
(* gated too; the model picker and the palette are screens and are not.    *)

\* Enter on a prompt. A PromptSubmitted hook that blocks it restores the flag
\* before the override is consumed: nothing is left of that Enter.
Submit(p) ==
    /\ worker[p] = "idle" /\ ~is_loading
    /\ is_loading' = TRUE
    /\ override' = [override EXCEPT ![p] = next_override]
    /\ next_override' = NoModel
    /\ original' = [original EXCEPT ![p] = app_model]
    /\ WorkerGoto(p, "apply")
    /\ UNCHANGED <<app_model, live_text, idVars, hostVars, snapshot, model, failed,
                   detached, streamed, inputVars, runner, mailbox>>

\* Variant: `/bash` is not gated.
SubmitBashAnytime(b) ==
    /\ worker[b] = "idle"
    /\ is_loading' = TRUE
    /\ WorkerGoto(b, "forward")
    /\ RunnerGoto(b, "install")
    /\ UNCHANGED <<app_model, next_override, live_text, idVars, hostVars, taskVars,
                   inputVars, mailbox>>

SubmitBash(b) ==
    /\ worker[b] = "idle" /\ ~is_loading
    /\ is_loading' = TRUE
    /\ WorkerGoto(b, "forward")
    /\ RunnerGoto(b, "install")
    /\ UNCHANGED <<app_model, next_override, live_text, idVars, hostVars, taskVars,
                   inputVars, mailbox>>

\* apply_pending_model_change and perform_model_change. No task reads App::model
\* and the main loop does nothing between the two writes: they are one step.
PickModel(m) ==
    /\ Spend("pick", MaxPicks)
    /\ current_model' = m
    /\ app_model' = m
    /\ UNCHANGED <<is_loading, next_override, live_text, idVars, messages,
                   current_turn_events, taskVars, disconnecting, worker, runner, mailbox>>

SetNextTurnModelOverride(m) ==
    /\ Spend("override", MaxOverrides)
    /\ next_override' = m
    /\ UNCHANGED <<is_loading, app_model, live_text, idVars, hostVars, taskVars,
                   disconnecting, worker, runner, mailbox>>

\* Variant: `/resume` is not gated.
ResumeAnytime ==
    /\ Spend("load", MaxLoads)
    /\ messages' = <<Loaded>>
    /\ live_text' = {}
    /\ UNCHANGED <<is_loading, app_model, next_override, idVars, current_model,
                   current_turn_events, taskVars, disconnecting, worker, runner, mailbox>>

\* `/resume`: the gate on is_loading, then Host::load_transcript.
Resume ==
    /\ ~is_loading
    /\ Spend("load", MaxLoads)
    /\ messages' = <<Loaded>>
    /\ live_text' = {}
    /\ UNCHANGED <<is_loading, app_model, next_override, idVars, current_model,
                   current_turn_events, taskVars, disconnecting, worker, runner, mailbox>>

\* `/disconnect --force` spawns remove_provider and returns.
Disconnect ==
    /\ ~is_loading /\ ~disconnecting
    /\ Spend("disconnect", MaxDisconnects)
    /\ disconnecting' = TRUE
    /\ UNCHANGED <<appVars, idVars, hostVars, taskVars, worker, runner, mailbox>>

\* The abort stage at the end of the grace period: the notice goes to the job whose
\* sender is in the slot (without one, or on a full channel, nothing is sent). The
\* aborted calls end by Fail and DetachedCallEnds; whether a lease is left at that
\* time is ProviderPool's.
AbortAfterGrace(j) ==
    /\ disconnecting /\ spent["abort"] < spent["disconnect"]
    /\ Spend("abort", MaxAborts)
    /\ current_turn_events = j
    /\ Send(j, Message("aborted"))
    /\ UNCHANGED <<appVars, idVars, hostVars, taskVars, disconnecting, worker, runner>>

\* No turn hears of the removal any more.
RemovalEnds ==
    /\ disconnecting
    /\ disconnecting' = FALSE
    /\ UNCHANGED <<appVars, idVars, hostVars, taskVars, spent, worker, runner, mailbox>>

-----------------------------------------------------------------------------
(* The worker of a prompt, and of a `/bash`.                                *)

\* Puts the override in, then spawns the runner.
Apply(p) ==
    /\ worker[p] = "apply"
    /\ current_model' = IF override[p] = NoModel THEN current_model ELSE override[p]
    /\ WorkerGoto(p, "forward")
    /\ RunnerGoto(p, "install")
    /\ UNCHANGED <<appVars, idVars, messages, current_turn_events, taskVars, inputVars, mailbox>>

\* The event channel closes once every sender is gone: the runner's, the one in
\* the host's slot and the one of the forwarder of a detached provider call.
ChannelClosed(j) ==
    /\ runner[j] = "done"
    /\ current_turn_events # j
    /\ ~detached[j]

TurnReturned(p) ==
    /\ worker[p] = "forward" /\ ChannelClosed(p)
    /\ WorkerGoto(p, IF override[p] = NoModel THEN "report" ELSE "restore")
    /\ UNCHANGED <<appVars, idVars, hostVars, taskVars, inputVars, runner, mailbox>>

\* Variant: the model is put back after a turn that went well.
RestoreAfterSuccess(p) ==
    /\ worker[p] = "restore"
    /\ current_model' = IF failed[p] THEN current_model ELSE original[p]
    /\ WorkerGoto(p, "notify")
    /\ UNCHANGED <<appVars, idVars, messages, current_turn_events, taskVars, inputVars,
                   runner, mailbox>>

Restore(p) ==
    /\ worker[p] = "restore"
    /\ current_model' = original[p]
    /\ WorkerGoto(p, "notify")
    /\ UNCHANGED <<appVars, idVars, messages, current_turn_events, taskVars, inputVars,
                   runner, mailbox>>

Notify(p) ==
    /\ worker[p] = "notify"
    /\ Send(p, ModelRestored(original[p]))
    /\ WorkerGoto(p, "report")
    /\ UNCHANGED <<appVars, idVars, hostVars, taskVars, inputVars, runner>>

\* Variant: a cancelled turn has told the user already.
ReportUnlessIdle(p) ==
    /\ worker[p] = "report"
    /\ IF failed[p] /\ is_loading THEN Send(p, Message("error")) ELSE UNCHANGED mailbox
    /\ WorkerGoto(p, "done")
    /\ UNCHANGED <<appVars, idVars, hostVars, taskVars, inputVars, runner>>

Report(p) ==
    /\ worker[p] = "report"
    /\ IF failed[p] THEN Send(p, Message("error")) ELSE UNCHANGED mailbox
    /\ WorkerGoto(p, "done")
    /\ UNCHANGED <<appVars, idVars, hostVars, taskVars, inputVars, runner>>

BashReturned(b) ==
    /\ worker[b] = "forward" /\ ChannelClosed(b)
    /\ Send(b, Message("bash_done"))
    /\ WorkerGoto(b, "done")
    /\ UNCHANGED <<appVars, idVars, hostVars, taskVars, inputVars, runner>>

-----------------------------------------------------------------------------
(* The runner: run_turn_inner, with its round trips and tool calls as one  *)
(* provider call, and run_bash_command.                                    *)

\* CurrentTurnEventsGuard::install.
Install(j) ==
    /\ runner[j] = "install"
    /\ current_turn_events' = j
    /\ RunnerGoto(j, IF j \in Prompts THEN "snapshot" ELSE "command")
    /\ UNCHANGED <<appVars, idVars, current_model, messages, taskVars, inputVars, worker, mailbox>>

TakeSnapshot(p) ==
    /\ runner[p] = "snapshot"
    /\ snapshot' = [snapshot EXCEPT ![p] = messages]
    /\ RunnerGoto(p, "route")
    /\ UNCHANGED <<appVars, idVars, hostVars, override, original, model, failed, detached,
                   streamed, inputVars, worker, mailbox>>

\* The model is read once per turn; RouteSelected and the first
\* IterationStarted go out before the provider is called.
Route(p) ==
    /\ runner[p] = "route"
    /\ model' = [model EXCEPT ![p] = current_model]
    /\ mailbox' = [mailbox EXCEPT ![p] = Append(Append(@, Message("route")), Message("started"))]
    /\ RunnerGoto(p, "call")
    /\ UNCHANGED <<appVars, idVars, hostVars, override, original, snapshot, failed, detached,
                   streamed, inputVars, worker>>

\* forward_text_deltas, one delta standing for all. It belongs to the call: it
\* goes on when the turn has left a call that did not answer.
StreamDelta(p) ==
    /\ runner[p] = "call" \/ detached[p]
    /\ ~streamed[p]
    /\ streamed' = [streamed EXCEPT ![p] = TRUE]
    /\ Send(p, Message("delta"))
    /\ UNCHANGED <<appVars, idVars, hostVars, override, original, snapshot, model, failed,
                   detached, inputVars, worker, runner>>

\* The final answer: the forwarder was joined, so its deltas are in the mailbox.
Answer(p) ==
    /\ runner[p] = "call"
    /\ RunnerGoto(p, "commit")
    /\ UNCHANGED <<appVars, idVars, hostVars, taskVars, inputVars, worker, mailbox>>

Commit(p) ==
    /\ runner[p] = "commit"
    /\ messages' = Append(snapshot[p], p)
    /\ RunnerGoto(p, "complete")
    /\ UNCHANGED <<appVars, idVars, current_model, current_turn_events, taskVars, inputVars,
                   worker, mailbox>>

SendComplete(p) ==
    /\ runner[p] = "complete"
    /\ Send(p, Message("complete"))
    /\ RunnerGoto(p, "exit")
    /\ UNCHANGED <<appVars, idVars, hostVars, taskVars, inputVars, worker>>

\* Variant: a failed turn keeps its working copy.
FailCommitting(p) ==
    /\ runner[p] = "call"
    /\ failed' = [failed EXCEPT ![p] = TRUE]
    /\ messages' = Append(snapshot[p], p)
    /\ RunnerGoto(p, "exit")
    /\ UNCHANGED <<appVars, idVars, current_model, current_turn_events, override, original,
                   snapshot, model, detached, streamed, inputVars, worker, mailbox>>

\* A provider error, NoActiveProvider or too many iterations: Err, no event.
Fail(p) ==
    /\ runner[p] = "call"
    /\ failed' = [failed EXCEPT ![p] = TRUE]
    /\ RunnerGoto(p, "exit")
    /\ UNCHANGED <<appVars, idVars, hostVars, override, original, snapshot, model, detached,
                   streamed, inputVars, worker, mailbox>>

\* The cancel signal wins the select: the call's task is dropped, not stopped.
Cancelled(p) ==
    /\ disconnecting /\ runner[p] = "call"
    /\ failed' = [failed EXCEPT ![p] = TRUE]
    /\ detached' = [detached EXCEPT ![p] = TRUE]
    /\ Send(p, Message("cancelled"))
    /\ RunnerGoto(p, "exit")
    /\ UNCHANGED <<appVars, idVars, hostVars, override, original, snapshot, model, streamed,
                   inputVars, worker>>

DetachedCallEnds(p) ==
    /\ detached[p]
    /\ detached' = [detached EXCEPT ![p] = FALSE]
    /\ UNCHANGED <<appVars, idVars, hostVars, override, original, snapshot, model, failed,
                   streamed, inputVars, worker, runner, mailbox>>

RunCommand(b) ==
    /\ runner[b] = "command"
    /\ RunnerGoto(b, "exit")
    /\ UNCHANGED <<appVars, idVars, hostVars, taskVars, inputVars, worker, mailbox>>

\* The guard's Drop empties the slot, whoever's sender is in it.
DropGuard(j) ==
    /\ runner[j] = "exit"
    /\ current_turn_events' = NoJob
    /\ RunnerGoto(j, "done")
    /\ UNCHANGED <<appVars, idVars, current_model, messages, taskVars, inputVars, worker, mailbox>>

-----------------------------------------------------------------------------
(* The main loop takes a message: translate_turn_event_to_host_event, then *)
(* App::apply_turn_event, or the arm of the WorkerMsg.                      *)

Receive(j, kind) ==
    /\ mailbox[j] # <<>> /\ Head(mailbox[j]).kind = kind
    /\ mailbox' = [mailbox EXCEPT ![j] = Tail(@)]

taskUnchanged == UNCHANGED <<hostVars, taskVars, inputVars, worker, runner>>

\* Variant: the badge of a new turn leaves the buffer alone.
OnRouteKeeping(p) ==
    /\ Receive(p, "route")
    /\ UNCHANGED <<appVars, idVars>> /\ taskUnchanged

\* RouteSelected flushes what a failed turn left in the buffer.
OnRoute(p) ==
    /\ Receive(p, "route")
    /\ live_text' = {}
    /\ UNCHANGED <<is_loading, app_model, next_override, idVars>> /\ taskUnchanged

\* TurnStart, unless a turn is still open for the plugins.
OnStarted(p) ==
    /\ Receive(p, "started")
    /\ IF current_turn_id = 0
         THEN /\ next_turn_id' = next_turn_id + 1
              /\ current_turn_id' = next_turn_id + 1
         ELSE UNCHANGED <<next_turn_id, current_turn_id>>
    /\ UNCHANGED <<appVars, ended>> /\ taskUnchanged

OnDelta(p) ==
    /\ Receive(p, "delta")
    /\ live_text' = live_text \cup {p}
    /\ UNCHANGED <<is_loading, app_model, next_override, idVars>> /\ taskUnchanged

OnComplete(p) ==
    /\ Receive(p, "complete")
    /\ is_loading' = FALSE
    /\ live_text' = {}
    /\ ended' = Append(ended, current_turn_id)
    /\ current_turn_id' = 0
    /\ UNCHANGED <<app_model, next_override, next_turn_id>> /\ taskUnchanged

OnCancelled(p) ==
    /\ Receive(p, "cancelled")
    /\ is_loading' = FALSE
    /\ live_text' = {}
    /\ UNCHANGED <<app_model, next_override, idVars>> /\ taskUnchanged

OnAborted(j) ==
    /\ Receive(j, "aborted")
    /\ is_loading' = FALSE
    /\ live_text' = {}
    /\ UNCHANGED <<app_model, next_override, idVars>> /\ taskUnchanged

\* Variant: a failed turn is not closed for the plugins.
OnErrorLeavingOpen(p) ==
    /\ Receive(p, "error")
    /\ is_loading' = FALSE
    /\ LET id == IF current_turn_id = 0 THEN next_turn_id + 1 ELSE current_turn_id
       IN  /\ ended' = Append(ended, id)
           /\ next_turn_id' = IF current_turn_id = 0 THEN id ELSE next_turn_id
    /\ UNCHANGED <<app_model, next_override, live_text, current_turn_id>> /\ taskUnchanged

\* Variant: only the end of a turn unlocks the prompt.
OnErrorLocked(p) ==
    /\ Receive(p, "error")
    /\ LET id == IF current_turn_id = 0 THEN next_turn_id + 1 ELSE current_turn_id
       IN  /\ ended' = Append(ended, id)
           /\ next_turn_id' = IF current_turn_id = 0 THEN id ELSE next_turn_id
    /\ current_turn_id' = 0
    /\ UNCHANGED <<app_model, next_override, live_text, is_loading>> /\ taskUnchanged

\* An error before TurnStart opens a turn of its own to close it.
OnError(p) ==
    /\ Receive(p, "error")
    /\ is_loading' = FALSE
    /\ LET id == IF current_turn_id = 0 THEN next_turn_id + 1 ELSE current_turn_id
       IN  /\ ended' = Append(ended, id)
           /\ next_turn_id' = IF current_turn_id = 0 THEN id ELSE next_turn_id
    /\ current_turn_id' = 0
    /\ UNCHANGED <<app_model, next_override, live_text>> /\ taskUnchanged

OnBashDone(b) ==
    /\ Receive(b, "bash_done")
    /\ is_loading' = FALSE
    /\ UNCHANGED <<app_model, next_override, live_text, idVars>> /\ taskUnchanged

OnModelRestored(p) ==
    /\ Receive(p, "restored")
    /\ app_model' = Head(mailbox[p]).model
    /\ UNCHANGED <<is_loading, next_override, live_text, idVars>> /\ taskUnchanged

-----------------------------------------------------------------------------
Key ==
    \/ \E p \in Prompts : Submit(p)
    \/ \E b \in Bashes : SubmitBash(b)
    \/ \E m \in Models : PickModel(m) \/ SetNextTurnModelOverride(m)
    \/ Resume \/ Disconnect

WorkerStep(j) ==
    \/ j \in Prompts /\ (Apply(j) \/ TurnReturned(j) \/ Restore(j) \/ Notify(j) \/ Report(j))
    \/ j \in Bashes /\ BashReturned(j)

ProviderEnds(p) == Answer(p) \/ Fail(p)

RunnerStep(j) ==
    \/ Install(j) \/ DropGuard(j)
    \/ j \in Prompts /\ (TakeSnapshot(j) \/ Route(j) \/ Commit(j) \/ SendComplete(j))
    \/ j \in Bashes /\ RunCommand(j)

MainLoop(j) ==
    \/ j \in Prompts /\ \/ OnRoute(j) \/ OnStarted(j) \/ OnDelta(j) \/ OnComplete(j)
                        \/ OnCancelled(j) \/ OnError(j) \/ OnModelRestored(j)
    \/ j \in Bashes /\ OnBashDone(j)
    \/ OnAborted(j)

Next ==
    \/ Key
    \/ RemovalEnds
    \/ \E j \in Jobs : AbortAfterGrace(j) \/ WorkerStep(j) \/ RunnerStep(j) \/ MainLoop(j)
    \/ \E p \in Prompts : ProviderEnds(p) \/ StreamDelta(p) \/ Cancelled(p) \/ DetachedCallEnds(p)

Spec == Init /\ [][Next]_vars

\* The tasks and the main loop run, commands end, and a provider answers or
\* fails a call somebody waits for. Nothing says when a detached call ends.
Fairness ==
    /\ \A j \in Jobs : WF_vars(WorkerStep(j)) /\ WF_vars(RunnerStep(j)) /\ WF_vars(MainLoop(j))
    /\ \A p \in Prompts : WF_vars(ProviderEnds(p))

FairSpec == Spec /\ Fairness

-----------------------------------------------------------------------------
(* Properties *)

\* From Enter until the history has the turn, or the turn has failed.
InFlight(p) ==
    \/ worker[p] = "apply"
    \/ runner[p] \in {"install", "snapshot", "route", "call", "commit"}

\* Nothing runs and nothing waits to be handled.
Quiet ==
    /\ \A j \in Jobs : worker[j] \in {"idle", "done"} /\ mailbox[j] = <<>>

\* A turn in flight works on the history as it is: when it commits, it
\* overwrites neither another turn nor a resumed transcript (the snapshot and the
\* commit of run_turn_inner, and the gate of `/resume` on is_loading).
SnapshotIsCurrent ==
    \A p \in Prompts :
        runner[p] \in {"route", "call", "commit"} => snapshot[p] = messages

\* The TUI takes no prompt, `/bash` or `/resume` while the host works on one:
\* is_loading covers every turn from Enter to its commit, and every command
\* (App::is_loading).
LoadingCoversJobs ==
    /\ \A p \in Prompts : InFlight(p) => is_loading
    /\ \A b \in Bashes : runner[b] \in {"install", "command", "exit"} => is_loading

\* Plugins see turns one after the other: the TurnEnd events carry the ids
\* 1, 2, 3, ..., each once, and never the 0 of a turn nobody saw start
\* (translate_turn_event_to_host_event, the WorkerMsg::Error arm).
TurnFramesMatch == \A i \in DOMAIN ended : ended[i] = i

\* The live buffer never mixes the text of two turns (App::live_text).
LiveTextIsOneTurns == Cardinality(live_text) <= 1

\* Once every task is done and every message handled, the TUI accepts input and
\* no turn is left open for the plugins, whatever failed or was cancelled
\* (App::apply_turn_event, the WorkerMsg arms).
QuietIsIdle == Quiet => ~is_loading /\ current_turn_id = 0

\* One-turn overrides leave no trace: if the user picked no model, then once all
\* is quiet the host and the TUI are back on the first one, however the turns
\* overlapped and ended (the worker's set_model before and after the turn).
OverrideLeavesNoTrace ==
    Quiet /\ spent["pick"] = 0 => current_model = FirstModel /\ app_model = FirstModel

\* A prompt never leaves the TUI loading for ever (every arm that clears
\* App::is_loading, and the Error that stands in for a missing TurnComplete).
LoadingEnds == is_loading ~> ~is_loading

\* The history is that of TurnHistory: a resumed transcript and every turn that
\* completed, in the order they ran, with nothing of the turns that failed
\* (run_turn_inner, load_transcript).
History == INSTANCE TurnHistory WITH
    in_flight <- {p \in Prompts : InFlight(p)},
    lost      <- {p \in Prompts : failed[p]}
ImplementsTurnHistory == History!Spec

-----------------------------------------------------------------------------
(* Statements of the sources that the code does not keep. *)

\* "so subsequent turns are unaffected" (main.rs, the worker): while the user
\* picks no model, a prompt without an override runs on the model of the TUI.
NextTurnUnaffected ==
    \A p \in Prompts :
        spent["pick"] = 0 /\ override[p] = NoModel /\ model[p] # NoModel
            => model[p] = original[p]

\* "publishes the per-turn events Sender for the lifetime of a turn"
\* (CurrentTurnEventsGuard): while a turn or a command runs, its bash-network
\* prompts have a channel to the user.
JobHasItsChannel ==
    \A j \in Jobs : runner[j] \in {"snapshot", "route", "call", "commit", "command"}
        => current_turn_events = j
=============================================================================
