# savvagent-rs: TLA+ models

Formal models of savvagent, a terminal coding agent: a TUI (`crates/savvagent`)
around a host (`crates/savvagent-host`) that runs turns against pooled model
providers, calls tools over MCP, and asks the user for permissions. The models
are about what is hard to test there: callers of the host that interleave
between two awaits, requests that are answered late or never, state that is
read under one lock and used under another, and files that are written while a
process may end.

Line numbers in this file are of the files under `src/crates/`.

## 1. Inventory

| Component | State | Operations | Interacts with | What makes it correct | Modelled by |
|---|---|---|---|---|---|
| Provider pool (`savvagent-host/src/pool.rs`, `session.rs`) | pool map, lease counter per entry, cancel senders, abort handles, active provider | `add_provider`, `remove_provider` (drain, force), `set_active_provider`, lease | every turn, subagent and model listing | nobody on a drained entry; a forced cancel is heard; removals end | `ProviderPool`, `LeaseLifecycle` |
| Turn loop (`session.rs`) | message history, events slot | `run_turn*`, `load_transcript` | pool, router, tools, permissions, TUI worker | a turn returns; one turn at a time on the history, a failed one leaves nothing | `ProviderPool`, `PromptTurns`, `TurnHistory`, `ToolPrompts`, `AnswerStream` |
| Subagents (`subhost.rs`) | depth, cancellation token | `run_subagent`, a loop of requests and tools | pool, in-process `task` tool | the lease comes back once its model stops asking for tools; its calls return | lease and loop in `ProviderPool`, the tool calls in `ToolPrompts` |
| Router (`router/`) | rules, overrides, active provider and model | `pick`, `/use`, `/model`, `/connect`, `/route reload` | turn loop, TUI | nothing goes to another vendor unasked; images are seen or warned about | `Router` |
| Permissions (`permissions.rs`, `pre_tool_gate.rs`) | built-in, file and session rules, network cache | `evaluate`, `add_rule`, prompts | turn loop, TUI modals, `permissions.toml` | answers are obeyed; file and memory agree; every prompt can be answered | `PermissionRules`, `ToolPrompts` |
| Tools (`tools.rs`) | tool servers, lazy tool-bash and its spawn key | `call`, respawn, shutdown | turn loop, `/bash` | a command runs with the network setting chosen for it | `ToolPrompts` |
| TUI (`savvagent/src/main.rs`, `app.rs`) | loading flag, prompt worker, modals, log | submit, `/connect`, `/disconnect`, `/use`, `/bash`, `/resume`, `/clear`, saving | host | one prompt at a time; the flag ends with the turn; overrides leave no trace; what is shown is what was answered | `PromptTurns`, `ToolPrompts`, `AnswerStream`, `Router` |
| Provider servers (`provider-*`) | stream accumulators | streaming one answer | host | blocks are well formed, the kept answer is the streamed one | `AnswerStream` |
| Fences and canvases (`savvagent-fence`, `app.rs`) | held-back text; canvas registry | `push`, `finish`; canvas events, save, restore | provider servers, TUI | fragments do not matter for fences that lines begin with; a state returns to its canvas | `FenceParser`, `AnswerStream` |
| Plugin runtime (`plugin/`) | registry, indexes, manager screen | toggle, reindex, save | all built-in plugins | a route has somebody to serve it; the saved set starts | `PluginRuntime` |
| User commands and trust (`plugin/builtin/user_slash_commands`, `plugin/effects.rs`) | command cache, trust levels, stashed command | reload, run, trust modal | files, plugin runtime | no shell part without trust | `PluginRuntime` |
| Self update (`plugin/builtin/self_update`) | shared update state, cache file | periodic check, `/update`, install | GitHub, file system | failures are not retried by themselves, states end, opt-outs hold | `SelfUpdate` |
| LSP installer (`plugin/builtin/lsp_installer`) | batches, progress rows, `lsp.toml` | confirm, install, notify, merge | npm, downloads | rows tell the truth, `lsp.toml` keeps its entries | `LspInstaller` |
| LSP tool (`tool-lsp/src/session.rs`, `pool.rs`) | pooled sessions, pending requests | request, read loop, evict, shut down | language server | every request is answered or fails, servers are asked to go where they can be | `LspSession` |
| Resources, sandbox and configuration, other plugins, prompt history, WASM plugins, plugin interfaces, GUI, file and grep tools | | | | | see section 9 |

Hard behaviours. Callers of `Host` run on a multi-threaded runtime and meet at
every lock. The removal of a provider spans several awaits. Providers, servers
and users answer late or never; a task whose handle is dropped goes on; state is
published after an await that it was computed before; a modal can displace
another; counters and windows have boundaries; files are rewritten where the
process may end. `PROJECT.json` lists each hazard at its line with the
properties that watch it. A panic aborts the process (`panic = "abort"`), so a
task that dies under the others is not a case.

## 2. How the project is laid out

* Five modules are concurrent systems with a run of their own: `ProviderPool`,
  `PromptTurns`, `ToolPrompts`, `LspSession`, `SelfUpdate`. Two of them
  implement abstract specifications: `LeaseLifecycle` and `TurnHistory`.
* Six modules are components that share no state with one another and make no
  promise of progress: `PermissionRules`, `PluginRuntime`, `FenceParser`,
  `AnswerStream`, `Router`, `LspInstaller`. `Records` instantiates them
  together: a behaviour of `FocusSpec` is a behaviour of one of them, named by
  the variable `focus`, and the others rest in an initial state. One run checks
  all their properties, as many as its state spaces are, added, not multiplied.
  That each component behaves in it as it does alone is a theorem (`EachAsAlone`).
* `MC*` modules hold the instances, `*Proofs` modules the theorems. `MCSpec` of
  `MCRecords` is `FocusSpec` with one initial state for the components that rest and
  one provider service per session.

The system is one program, so the modules meet at seams, where one keeps what
the other leaves out:

| Seam | One side | Other side |
|---|---|---|
| a turn and its round trips | `PromptTurns`: one provider call | `ProviderPool`: subscribe, lease, spawn, select, per round |
| a forced disconnect | `ProviderPool`: who hears it and when the lease returns | `PromptTurns`: the `Cancelled` event, the late error and the abort notice |
| a late error under the next job | `PromptTurns`: how it clears `is_loading` | `ToolPrompts`: `LoadingCleared`, after which jobs overlap |
| a rule recorded by Always | `ToolPrompts`: the prompt, the modal, the answer's way | `PermissionRules`: matching, order, file |
| where a turn goes | `Router`: the layers and what they read | `ProviderPool`: any pooled provider or the active one |
| text of an answer | `FenceParser`: tokens and fragments | `AnswerStream`: the side of the fence and what is held back |

In each module an action is one critical section or the code between two
awaits. Where a module says "Variant" before a definition, that is the same
operation with a plausible mistake: TLC finds the property violated when it
takes the place of the real one, which is how each property is known to depend
on the code (`mutants` in `PROJECT.json`).

A type invariant is proved for the five systems with a run of their own and for
`PluginRuntime`; `records` checks those of its six components (`RecordsTypeOK`), which is
proved for the composition.

## 3. Runs

| Run | Instance | Checks |
|---|---|---|
| `pool_safety` | 1 provider, 2 turns of 1 round trip (one with a subagent), a listing, 2 removals, 1 add | `ForceReachesHolders`, `DrainLeavesNobody`, `AwaitedCallIsAbortable` |
| `pool_live` | 2 providers, a turn of 2 round trips with a subagent, a removal, an add, a switch; fair | `ImplementsLifecycle`, `DrainCompletes`, `TurnsReturn`, `ForceFreesTurns` |
| `turns_calm` | 2 prompts, a `/bash`, 2 models, a pick, an override, a resume; no forced disconnect | `SnapshotIsCurrent`, `LoadingCoversJobs`, `TurnFramesMatch`, `LiveTextIsOneTurns`, `OverrideLeavesNoTrace`, `ImplementsTurnHistory` |
| `turns_forced` | 2 prompts, a forced disconnect with its abort stage; fair | `QuietIsIdle`, `LoadingEnds` |
| `prompts` | a call of a turn, a `/bash`, a call of a subagent, one rule key, 2 overlapping; fair | `NetworkAsGranted`, `PromptIsReachable`, `RegistryOutlivesCalls`, `CallsReturn` |
| `lsp` | 2 calls for one server; fair | `ShutDownNotDropped`, `CallsEnd`, `ClosingEnds` |
| `updates` | 3 releases, 2 launches; fair | `OptOutIsInert`, `FailureIsNotRetried`, `InstallingEnds`, `ReleaseIsOffered` |
| `records` | the six components of `Records`, see section 5 | `RecordsTypeOK` and 13 invariants, two or three per component |
| `doc_sender_precreated`, `doc_lsp_hang`, `doc_answer_once`, `doc_use_keeps_model` | as small as shows it | a documented property the code does not have, see section 7 |

The runs take between ten seconds and three minutes; `records` is the largest with
1.8 million states, `pool_safety` has 1.6 million.

### Bounds, and why they are enough

* `pool_safety`: a second registration (`MaxGen = 2`) is the first entry that
  can be confused with an earlier one. Two removals let the cleanup of one meet
  the entry of the other; two turns let one clean the handles of the other. In
  one round trip a turn meets every removal; that it subscribes and leases
  again, and that the loop limit is reached, is in `pool_live`, which has a
  second provider for the active one to move to. Removals and adds are
  interchangeable (symmetry, in this run of invariants only).
* `turns_*`: the input is unlocked before a job has ended, so the next one
  overlaps its tail. A third overlaps nothing the second does not, because a
  tail no longer changes what a third reads except through the messages
  already modelled. Two models tell an override from the rest.
* `prompts`: one call of each kind that takes another way through the code, all
  for tool-bash and all under one rule key, which is where they disturb each
  other; one of each makes a modal under a modal and a server under a call. What
  takes the place of a prompt is a prompt of another call, a canvas or the API-key
  modal, at any moment.
* `lsp`: two calls are what it takes to race for the pool slot; a session that
  is evicted while the other spawns is the next generation of the key.
* `updates`: of three releases one may run, one have failed and one be new; the
  second launch starts from the cache and the disk of the first.
* `records`: two hand-written entries and two starts of the permission file,
  on three calls of which one pattern covers all; three edits of three command
  files of which one bears a core name; every text of up to six of the
  seven tokens in fragments of up to two, which is what it takes to open a fence,
  write into it and close it, or to cut the blanks before a marker and the CRLF
  behind it anywhere; three pieces of text with one tool call or thought
  in two turns, from each provider service (one for both turns: a call begins with a
  new accumulator, and what it leaves behind does not depend on the service); six
  messages, one per form the router tells apart, two providers and three models, with
  `SAVVAGENT_MODEL` naming the model of the second provider, which is the start that
  differs most from what the host picks by itself (`doc_use_keeps_model` has it unset);
  two batches of up to two servers.

`CHECK_DEADLOCK FALSE` stands in the runs whose system may stop for good: the
user enters nothing more. `pool_safety` and `pool_live` check deadlock, and
there `Quiescent` is the end in which every call has returned.

### Fairness

Weak fairness is given to tasks the tokio runtime polls when they can go on, and
to the main loop, which drains its channels every frame; never to the user's
keys, to removals, releases or deaths of servers.

* `pool_live`: turns, borrowers, removals, the second halves of adds and
  switches. That providers answer (`ProvidersAnswer`) and that subagents
  stop asking for tools in the end (`SubagentsEnd`) are the premises of `DrainCompletes`
  and `TurnsReturn`. The second is a premise about the models behind the providers, which
  the code does not enforce: `run_subagent` has no limit of round trips (`subhost.rs`
  147), and TLC refutes both properties without it. `ForceFreesTurns` goes without
  either.
* `turns_forced`: workers, runners, handling of the mailboxes; a provider
  answers or fails a call that a turn waits for. Nothing of a detached call.
* `prompts`: also that the user closes a screen that has the keys, answers the prompt
  that is up, and that hooks and tool servers end. `CallsReturn` excludes displaced
  prompts, a quit, and a reload of the agents while a prompt is up, by its premise
  `Undisturbed`.
* `lsp`: a server answers or dies, and its end is read; one that neither answers
  `shutdown` nor dies keeps tool-lsp, as that request has no timeout. A read loop that ends
  before its server is the case of `doc_lsp_hang`, excluded by `LoopsLast`.
* `updates`: weak for the steps of both tasks; strong for the tick and for the
  answer to a check, as installs may always be under way on a tick and a
  request may always fail, but not for ever.

## 4. The concurrent systems

### 4.1 ProviderPool

| Variable | Code |
|---|---|
| `pool` | `Host::pool`, as the generation of the entry under each id |
| `registered` | how many entries each id had; history, never read by the code |
| `active_turns` | `PoolEntry::active_turns`; it lives on when the entry leaves the pool |
| `active_provider` | `Host::active_provider` |
| `cancel_signal` | ids with a `broadcast::Sender` in `Host::cancel_signal` |
| `turn_handles` | `Host::turn_handles`, abort handles named by their call |
| `turn_pc`, `provider`, `iterations`, `outcome` | position and locals of each `run_turn_inner` |
| `cancel_rx` | the turn's receiver: silent, signalled, sender gone, or the fallback channel whose sender is dropped at once |
| `call` | the spawned `client.complete` task of each round trip |
| `borrower_pc`, `target` | subagents and `list_models`, which lease the active provider |
| `lease` | the entry each holder's `ProviderLease` points to |
| `remover`, `adder`, `switcher` | position and locals of each administrative call |

A provider registered a second time is a new `PoolEntry` with its own counter:
entries are pairs of id and generation. One action is one critical section or
the code between two awaits:

* a turn: `Route` (893-1057, 984-996) - `HitLoopLimit` (1100) or `Subscribe`
  (1174-1207) - `FindNoProvider` or `AcquireLease` (1212-1223) -
  `RegisterHandle` (1224-1228) - `SelectDone`, `SelectAborted` or `SelectCancel`
  (1233-1262), then `ReturnCancelled` (the event is sent under the lease) or
  `CleanHandles` (1271-1283) - `Respond` - `RunTools` or `StartSubagent` and
  `FinishSubagent` - and round again;
* the spawned call: `CallCompletes`, whether or not a turn waits for it;
* a borrower: `ReadActive`, `Borrow` or `BorrowNothing`; a subagent then goes round
  `AskForTools` and `DispatchTools` under its one lease, as often as its model likes
  (`subhost.rs` 147-213); `GiveBack`. The locks of `active_provider_lease` (1982-1989)
  are taken one after the other, so the read may be stale when used;
* a removal: `RemoveEntry`, then `DrainPoll`*, `DrainDone`, or `ForceSignal`,
  `GraceOver`, `AbortHandles`; both end in `RemoveSender` (2176);
* `InsertEntry`, `CreateSender` for `add_provider`; `CheckConnected`,
  `SwitchActive` for `set_active_provider`.

Abstracted: what is said in messages, tool calls and answers (a response is an
error, a final answer or a batch of tools); the router's layers (`Route` offers
every pooled provider and the active one, which is what `pick` can return); a
`list_models` call is a borrower of one request. A subagent that starts another one
(up to three deep) is here one borrower; the inner one leases for itself.
A removal of an absent provider and a registration of a present one return
early and change nothing, and are left out. `Quiescent` is the end of a
behaviour in which every call has returned, so that TLC's deadlock check is on.

`LeaseLifecycle` is what the pool promises: an entry is unborn, pooled,
retired, discarded, in that order; it is leased only while pooled, at most one
entry per id is pooled, and unless it was forced it is discarded only when
nobody holds it. `ProviderPool!ImplementsLifecycle` maps the phase of an entry to
the pool slot and the removal that took it, and its holders to `lease`.

### 4.2 PromptTurns

| Variable | Code |
|---|---|
| `is_loading`, `app_model`, `next_override`, `live_text` | the `App` fields (`model`, `next_turn_model_override`); `live_text` as the set of turns whose deltas are in the buffer |
| `current_turn_id`, `next_turn_id`, `ended` | `run_app`'s counters for plugins, and the ids of the `TurnEnd` events they got |
| `current_model`, `messages` | `Host::current_model`, `Host::state.messages` as the turns committed |
| `current_turn_events` | `Host::current_turn_events`, as the job whose sender it holds |
| `worker`, `override`, `original` | the task that `run_app` spawns for a prompt, or `handle_bash_slash_command` for a `/bash`, and its locals |
| `runner`, `snapshot`, `model`, `failed` | the task in `run_turn_inner` or `run_bash_command`, and its locals |
| `detached`, `streamed` | a provider call that outlives its cancelled turn, and whether its delta is out |
| `mailbox` | what the job has sent and the main loop has not handled: its event channel and its messages in `worker_tx`, in order |
| `disconnecting` | turns can still hear the signal of a forced removal |

The main loop (`main.rs` 2805-) is one actor and handles one key or message at a
time; a job is a prompt or a `/bash`, with a worker and a runner. A prompt is
`Submit` - `Apply` (the override goes in, the runner is spawned) - `Install`,
`TakeSnapshot`, `Route`, then `StreamDelta` and `Answer`, `Fail` or `Cancelled` -
`Commit`, `SendComplete` - `DropGuard` - `TurnReturned`, which waits for the
event channel to close - `Restore`, `Notify` if there was an override - `Report`.
A `/bash` is `SubmitBash`, `Install`, `RunCommand`, `DropGuard`, `BashReturned`.
The `On*` actions are the arms that handle a message: the translation for
plugins and `App::apply_turn_event` are one step, as nothing runs between them.

Abstracted. The round trips and tool calls of a turn are one provider call;
`ProviderPool` has them one by one. One delta stands for all. The two channels
of a job are one FIFO mailbox without a bound: the forwarder only moves events
on, and the main loop never waits for a job. `PickModel` sets the host and the
`App` in one step, because no task reads `App::model`. `disconnecting` may stay
on as long as a turn can pick up the signal in its `select!`; `AbortAfterGrace`
sends its notice to whatever job is in the slot, or not at all, because when a
lease is left is the matter of `ProviderPool`. Slash commands cannot be entered
while a turn is loading, but `/disconnect` is spawned and returns, so a removal
overlaps the turn submitted after it. `Effect::PromptSend` does not submit
anything yet, so an override applies to the next prompt typed.

Left out: `/clear` (`clear_history`), transcript saving, quitting, host swaps by
`/connect`, prompts blocked by a hook (which change nothing), the permission and
network modals, tool-call ids, and the error `/bash` reports when the host has
no tools any more.

`TurnHistory` is what the conversation promises about its history: one turn at a
time, a turn that completes appends itself, one that fails leaves nothing, a
transcript is loaded only between turns. `History` maps the turns between Enter
and their commit or failure to its `in_flight`.

### 4.3 ToolPrompts

| Variable | Code |
|---|---|
| `pc`, `over`, `allow_net`, `reply`, `choice` | each call: position, the network flag of `/bash`, the decision, and what its two oneshots received |
| `tools`, `registry` | holder of the mutex `Host::tools`, and whether the registry is still in it |
| `active`, `server` | holder of the slot `LazyBash::active`, and the network setting of the tool-bash in it |
| `pending`, `pending_bash_network` | the maps of `Host` from request ids to oneshots |
| `toml_rules`, `bash_network_decision` | `PermissionPolicy`: recorded rules, cached network decision |
| `inbox` | prompts sent and not handled by the main loop |
| `input_mode`, `pending_permission` | the `App` fields |
| `resolving` | answers to a network prompt, resolved in spawned tasks |
| `main` | what the main loop waits for: nothing, `/bash`, a reload, or the shutdown |
| `overlap`, `displaced` | history: jobs overlap; a canvas or the API-key modal has taken the place of a prompt that was up |

A call of a turn goes `StartTurnCall` - `GateByRule`, or `Ask` and
`GetPermission` - `Snapshot` - `PreToolGate` - `Lock` (kept until the call
returns, `session.rs` 1464) - `ResolveNoPrompt`, or `AskNetwork` and `GetChoice`
- `Slot`, with `Respawn` or `RespawnFails` - `Finish`. A `/bash` enters at the
lock, through the main loop (`EnterBash`, `StartBash`); a subagent's call skips
the gate and the lock, since its turn waits in an in-process tool. The main loop
is one actor: while it waits for the mutex (`EnterBash`, `ReloadAgents`) it
handles no prompt. `AnswerPermission` records the rule before it answers;
`AnswerNetwork` only spawns the task that does (`ResolveNetwork`). `input_mode` holds
one modal, and nothing remembers what was under it. A canvas that is clicked takes its
place (`ClickCanvas`), and so does the API-key modal (`EnterApiKey`): the `/connect`
picker may be open when a prompt comes, and a screen gets the keys before the prompt
does (`main.rs` 3126-3202). `LeaveCanvas` and `LeaveApiKey` go to the input line.

Abstracted: request ids are fresh and a call asks each question once, so a
prompt is its kind and its call; who gets a mutex next is open; the tool that
runs is a command; a screen above a prompt only delays the user's answer, unless it
sets `input_mode`. MCP servers other than tool-bash are `PlainCalls`.

### 4.4 LspSession

| Variable | Code |
|---|---|
| `server`, `reading`, `initialized` | the child process of a session, whether its read loop runs, whether its handshake is over |
| `pending`, `answer` | `LspSession::pending`, and what the oneshot of each requester received |
| `pool` | the pooled session of the key |
| `pc`, `held` | each tool call and the session whose `Arc` it holds |
| `retire` | `LspSession::shutdown` of each session |
| `process`, `closing` | stdin of tool-lsp, and the session `shutdown_all` waits for |
| `dropped` | history: sessions killed by a drop, of their last `Arc` or with the process, that nobody asked to shut down |

A call takes the pooled session or spawns one and looks at the slot again
(`GetPooled`, `GetNothing`, `Spawn`, `Insert`); a session that lost the race is
shut down. `Drop` is part of every step that gives up the last reference:
`kill_on_drop` ends the child. `ProcessEnds` drops what is left: `run` waits for the
session `shutdown_all` took from the pool, not for calls that may still pool another,
nor for the detached shutdowns of evicted sessions. `ShutDownNotDropped` says that
nobody else is killed unasked (`OutOfReach`). A server may die at any time; its read loop ends
by end of file, which drains the map (`ReadEof`), or by a message it cannot
decode (`ReadError`), while the server goes on.

### 4.5 SelfUpdate

The background loop (`mod.rs` 356-505) and `/update` (279-329) share
`UpdateState` behind a mutex that neither holds over an await. `loop` and
`slash` hold position and locals; `cache` is the tag and the freshness of
`update-check.json`; `running` and `disk` are the version of the process and of
the installed files, so that a restart runs what was installed. Versions are
numbers in their order. A tick is `Tick` - `CheckCached`, `CheckFetch` or
`CheckFails` - `Publish`, which keeps a failure it is not newer than - `LoopBegins` -
`LoopInstalls` - `LoopReports`; the command is `HandleSlash` - `SlashBegins` -
`SlashInstalls` - `SlashReports`. Releases come and caches age when they like.

## 5. The components in `records`

**PermissionRules.** The layers of `evaluate`: the deny list of sensitive paths,
the front matter, the file, the defaults. A rule's pattern is a set of calls. An
Always replaces the rule of the same pattern in memory and writes the file, allow
entries before deny entries (248-269); the write can fail, or the process can end
after the truncation (`WriteEnds`, `Stop`), which leaves an empty file. The user
may edit the file while savvagent is down. `AnswerIsObeyed`: a recorded answer decides
its call for the rest of the session, under any later answers to wider or narrower
patterns. `SavedRulesAreTheRules`: what the next start would load is what is in
force.

**PluginRuntime.** The registry, the index of commands derived from it, the
manager screen with its rows, `plugins.toml`, the command files with their
cache, and the trust of the one project that is open. A step is one key with all
its effects. A toggle rebuilds the index and is rolled back when that fails
(`ApplyToggle`); a command with a shell part opens the trust modal and is stashed
(`RunCommand`, `AnswerTrust`). `RoutesAreServed`: every command the index knows
has somebody who serves it. `SavedSetStarts`: the saved set builds at the next
start. `ShellNeedsTrust`: no shell part of a project runs without the user's
lasting trust.

**FenceParser.** The parser on tokens: a run of backticks, the fence's tag, a line
feed, a carriage return, a blank, other white space, anything else. `IsMarker` is what
`consume_line` takes for a marker (any white space before it, carriage returns after
it), `MayBeMarker` what `split_safe_flush` holds back (blanks, then a prefix of the
marker), which is less. `ChunkingIsInvisible` compares the parser, for every text in
every fragmentation, with a reference definition that cuts the whole text into lines. It
has two premises: backticks stand only at the start of a line or behind the blanks there
(`LineAnchored`), and no fragment ends in a carriage return (`~parted`). TLC refutes it
without either.

**AnswerStream.** A call streams text pieces, fences, thoughts and tool calls
through the accumulator of one of the four provider services (each numbers,
opens and closes its blocks in its own way), which tells its listeners of every event
in order (`Emit`, `Hear`); the host passes the events on and
keeps the blocks; the `App` builds log entries and canvases; turns may loop, fail,
be cut off, be saved, cleared, resumed. `EventsAreWellFormed`: an index is used
once, a delta or stop is for an open block. `AnswerIsShown`: what was sent, what
was kept and what is on the screen are the same pieces in the same order.
`StatesReturnHome`: the state of a canvas, saved by ordinal, returns to that canvas.

**Router.** The two copies of provider and model, in the TUI and in the host;
`/use`, `/model`, `/connect`, `/disconnect`, `/route reload`; and the steps of a
turn: `Begin` parses the prefix against the pool, `ReadActive`, `ReadModel`,
`ReadRules`, `Pick` with the five layers, `Warn`. `AnotherVendorNeedsConsent`: a
turn leaves the active vendor only by prefix, rule or heuristics of the user, and
only for a connected one. `ImageIsSeenOrWarned`: an image reaches a model that sees
it, or the user is told.

**LspInstaller.** The driver of a batch, its rows, the notifications that update
them from tasks of their own in any order, the stages and failures of a download
and of npm, the abort after a checksum mismatch, and the merge into `lsp.toml` by
way of a temporary file whose name all batches of a process share. Files are
inodes, so that a write which was begun goes on into a file that has been renamed
meanwhile. The process may end between any two steps. `RowsTellTheTruth`: on "All
done" each row says what became of its server, and late notifications do not
change it. `ConfigIsKept`: merges that do not overlap lose no entry.

## 6. How a property is guarded against being empty

Every property of a passing run has a mutant: a definition of the code is
replaced by a variant a plausible bug would make of it (a lease taken before the
subscription, a roll back left out, a marker held back one token short, a prompt
sent before it can be answered, ...), and TLC then violates the property under the
same cfg. Premises are kept visible: each property that needs one has it in its
statement (`SubagentsEnd`, `LoopsLast`, `Undisturbed`, `Displaced`, `OutOfReach`,
`skewed`, `overlapped`, `LineAnchored`, `parted`), and what happens outside of the
premise is in the next section.

## 7. Where code and documentation disagree

### With a run

* `doc_sender_precreated`: `remove_provider` ends by removing the sender of the
  *id*. When the provider was connected again meanwhile, the new entry loses its
  sender and every later turn on it is cancelled at once, although
  `session.rs:1196` says the sender is always there.
* `doc_lsp_hang`: a read loop that ends on a message it cannot decode drains the
  pending requests, but the session stays pooled while the server is up: the next
  request registers and is never answered (`tool-lsp/src/session.rs:360`).
* `doc_answer_once`: an answer that ends with a canvas is followed by its text
  once more, because an empty `live_text` is taken for a provider that does not
  stream (`app.rs:1201`).
* `doc_use_keeps_model`: `/use` moves the host's active provider but not its
  model: the next turn asks the new provider for the model of the old one
  (`main.rs:2024`, against `router.rs:16`).

### Stated in a module

TLC refutes these statements of comments and documents; they have no run of their
own, and stand at the end of their module for who changes that code.

| Statement | What happens |
|---|---|
| `ProviderPool!DrainLetsTurnsFinish` (2072) | A drain waits for leases, and a turn has one only during a round trip: a turn that runs a tool meanwhile ends with `NoActiveProvider`. |
| `PromptTurns!NextTurnUnaffected` | `TurnComplete` unlocks the input before the worker has restored the model: a prompt entered in between runs on the override. |
| `PromptTurns!JobHasItsChannel` (2320) | The guard of the earlier turn empties the event slot of the next one: a network prompt of that turn is denied without being shown. |
| `ToolPrompts!ShutdownCompletes` (`main.rs:3787`) | A quit resolves the modal that is up; a prompt that is still in a channel leaves its call, which holds the mutex that `Host::shutdown` waits for. |
| `LspSession!EveryServerIsAsked` (`tool-lsp/src/lib.rs:53`) | On the end of its input tool-lsp drains its pool once and does not wait for calls or detached shutdowns: a server pooled afterwards, or evicted just before, is killed unasked when `run` returns. |
| `PermissionRules!TopmostEntryDecides` (`permissions.rs:32`) | Allow entries are tried before deny entries, wherever they stand in the file. |
| `PluginRuntime!IndexesFollowRegistry` (`effects.rs:526`) | The roll back sets the opposite of what the row asked; a row that did not show the truth leaves a disabled plugin with its routes. |
| `PluginRuntime!OverrideIsTheCommands` (`effect.rs:159`) | `PromptSend` submits nothing yet, so the override of a command goes to the next prompt the user types. |
| `SelfUpdate!OneInstallAtATime` (design note, line 48) | A check that was under way when `/update` began publishes a newer release over its state, and installs that as well. |

### Modelled as the code has them, and worth knowing

* Pool: a turn on a new entry whose sender goes is told of a forced disconnect,
  though it was only drained. After `Cancelled` the provider call goes on, since
  dropping a `JoinHandle` detaches the task (1252-1264); its deltas mix with those
  of the next turn, and as long as it does not answer, the worker does not restore
  the model. Nothing cancels a subagent's provider call (`subhost.rs:135`).
* Subagents: `run_subagent` has no limit of round trips (147), unlike a turn, and the
  token it looks at is made for the call (`session.rs:1441`) and never cancelled. A
  subagent whose model asks for tools for ever keeps its turn and, by its lease, a drain
  of its provider waiting, though every request is answered.
* Prompts: a canvas that is clicked (`main.rs:3052`), the API-key modal of a `/connect`
  picker that was open when the prompt came (`app.rs:1892`, with Esc to the input line at
  1922) and a prompt of an overlapping job take the place of the prompt that is up. It
  does not come back: its call waits until savvagent ends.
* Turns: with a forced disconnect, a cancelled turn ends twice for the main loop,
  by `Cancelled` and by the `Error` its worker reports. The second clears
  `is_loading` under the next turn, which lets `/resume` load a transcript that
  the turn then overwrites. This is why `turns_calm` and the theorems about
  history and flag exclude forced disconnects.
* Router: `SAVVAGENT_MODEL` may name a model of another provider than the first
  connected (`main.rs:504`) and is used unchecked when `/connect` promotes a
  provider (1774); a rejected `/model p/x` has already switched the provider
  (1058); a provider disconnected after the prefix was parsed leaves a message
  without its prefix to the default (`prefix.rs:40`); active provider and model are
  read one after the other (974).
* Answers: backticks within a line make the fence depend on the fragmentation; so does
  white space other than blanks before a marker, and a fragment that ends between the
  carriage return and the line feed behind one (`savvagent-fence/src/lib.rs`: 106 and 108
  trim more than 156-182 hold back, so the marker is flushed as text); a failed turn,
  a broken stream or two adjacent
  text blocks of Anthropic that both hold a fence put the ordinals of canvases out of
  step with the history; an Anthropic stream that ends without `message_stop` is
  accepted; Gemini keeps a tool call ahead of the text block it came in.
* Installer: after a checksum mismatch the servers installed before it are still
  merged (`progress.rs:154` speaks of the semantics of the older handler, which
  returned before merging); two batches at once share the temporary file, and
  `lsp.toml` can lose entries, or be empty.

## 8. Proofs

Each theorem is for every value of the constants; the assumptions are the named
`ASSUME`s of the module, which TLC evaluates in the runs, unless stated here.

What `Records` assumes the code gives: a catalog is a list of models
(`CatalogAssumption`); the pattern recorded for a call matches that call, since
`ArgPattern::for_call` (`permissions.rs:133-167`) takes the path, the command or the
tool of the call (`PatternsAssumption`); the picker offers every server of its
catalog once, so a batch names none twice (`PickerAssumption`); inodes are numbered
by the batch that made them, and no file is not an inode (`FilesAssumption`); the
names of the user, of the core and of nobody are no plugin's (`OwnersAssumption`). The
bounds of the text of an answer (`PiecesAssumption`), of its items and turns and of
the sessions of the permissions (`BoundsAssumption`) are numbers; the providers stand in
an order, and the defaults, aliases, rules and `SAVVAGENT_MODEL` name models of the
catalogs (`RoutingAssumption`). The last is narrower than the code, which also accepts a
rule or an environment with a name that no catalog has; such a name is not represented.
It is used for the types only, and by no other theorem.

| Module | Theorems | Assumptions |
|---|---|---|
| `ProviderPoolProofs` | `Typing`, `Inductive`, `DrainIsSafe` (`DrainLeavesNobody`), `ForceIsHeard` (`ForceReachesHolders`), `CallsStayAbortable` (`AwaitedCallIsAbortable`), `LifecycleHolds` (`ImplementsLifecycle`), `NothingElseIsAwaited` | the callers that hold leases are finite sets, listings are not turns, null values are no ids |
| `PromptTurnsProofs` | `Typing`, `Untraced` (`OverrideLeavesNoTrace`), `ComesToRest` (`QuietIsIdle`); `CalmSnapshot`, `CalmLoading`, `CalmHistory` (`ImplementsTurnHistory`), `CalmFrames` (`TurnFramesMatch`), `CalmText` (`LiveTextIsOneTurns`) | prompts and commands are disjoint finite sets; `MaxDisconnects = 0` for those called calm |
| `ToolPromptsProofs` | `Typing`, `RegistryOutlives`, `NetworkGranted`, `PromptReachable`, `NoDeadlock` | calls of the three kinds are disjoint finite sets |
| `LspSessionProofs` | `Typing`, `AskedBeforeKilled` (`ShutDownNotDropped`), `NobodyIsForgotten` | each call spawns its own session |
| `SelfUpdateProofs` | `Typing`, `OptedOut`, `FailureStays` (`FailureIsNotRetried`), `NeverLeftInstalling` | the bounds are numbers |
| `RecordsProofs` | `EachAsAlone`; plugin runtime: `Typing`, `RoutesServed`, `SavedStarts`, `ShellTrusted`; router: `Consented` (`AnotherVendorNeedsConsent`), `SeenOrWarned` (`ImageIsSeenOrWarned`); permissions: `Obeyed` (`AnswerIsObeyed`), `SavedAsInForce` (`SavedRulesAreTheRules`); fences: `InvisiblyChunked` (`ChunkingIsInvisible`); installer: `Kept` (`ConfigIsKept`), `TellTheTruth` (`RowsTellTheTruth`) | those of `Records`, above |
| `AnswersProofs` | `WellFormed` (`EventsAreWellFormed`), `StatesHome` (`StatesReturnHome`) | `PiecesAssumption` |
| | `RecordsTyping` (`RecordsTypeOK`) | all those of `Records` |
| `ShownProofs` | `AsShown` (`AnswerIsShown`) | `PiecesAssumption` |

**ProviderPool.** None of the properties is inductive. A drain stops when a
*counter* is zero, so the invariant must say that the counter is the number of
holders (`LeaseCount`); taking a lease must be known to concern an entry that no
removal works on (`AdminsMatchPC`: a removed generation never comes back to the
pool); dropping one must be known to be of a holder (`LeasesMatchPC`); and a signal
reaches a holder only if a receiver that is silent belongs to a sender that is
still in the map (`OpenHasSender`) and a turn's lease is on its own provider.
`IInv` is their conjunction with the properties. `LeaseCounts` and `DropCounts`
carry the counting, from the library's theorems on finite sets; then one lemma per
actor has one step per action.

**LeaseLifecycle.** `CallsStayAbortable` and `LifecycleHolds` stand on the same
invariant. A call a turn waits for is running and its handle is registered:
`HandleStep` shows that
another turn, which cleans the handles of the same provider at any time, takes only
handles of calls that have ended, and that a removal that takes them all ends the
calls. For the refinement an entry's phase is computed from the pool, the
registrations and the removals at work: `Acquires`, `Releases`, `Retires`, `Discards`
and `Registers` are the five steps of its life, `PhaseIsKept` says that every other
action is a stutter, and `LifecycleStep` goes through the actions of the host. It is
`DrainLeavesNobody`, a part of `IInv`, that lets a drained entry be discarded.

**PromptTurns.** The invariant counts debts. A job *owes* the main loop one
settling message (`complete`, `error`, ...): it is still to send it (`Busy`) or it
is in its mailbox, never both and never twice (`SettlesOnce`). At most one job owes
(`OneOwes`) and the flag is on while it does (`LoadingOwes`), so that handling a
settling message ends the only debt there is (`SettleStep`) and a submission, which
needs the flag off, starts the only one (`SubmitStep`). A turn whose snapshot
matters owes, so no other turn commits and nothing is resumed. `HistoryStep` maps
every action to a step of `TurnHistory` or a stutter. On the debts rests `FInv`, about
the order of messages: in the mailbox of a turn its start is before its end (`Frame`),
and its route before its text and its text before what settles it (`Live`), so a job
that does not owe has neither an end nor text still to come, and what a message of
another turn does to the open id or the buffer meets nobody (`SettleFrames`,
`JobFrames`). `NoTrace` needs no debts: a model that is not the first is an override
whose worker has yet to put the first one back, and the messages under way carry the
first; so `Untraced` holds with forced disconnects too. So does `ComesToRest`: with
them a job may settle twice, but `QInv` still has a job that owes for every flag that
is on, and for every open id a prompt that is to close it.

**ToolPrompts.** `LockInv` says who holds the two mutexes by position; it is
inductive and gives `RegistryOutlivesCalls`. `AloneInv`: until jobs overlap one call
is in progress; it counts the calls in progress. On both, `GrantInv` says that an
answer arrives only while its call waits for it and that nobody else fills the cache
meanwhile, which is what `NetworkAsGranted` needs at the moment the command runs.
`AskedInv`: the permission oneshot of a call is in the map only while it waits.
`PromptInv`: a prompt is in one of the inbox, the modal and the answers on their way,
and the call it is for still waits; a prompt of another call can replace it only
where jobs overlap, and a canvas or the API-key modal only by setting `displaced`.

**LspSession.** `LiveIsOwned`: a live, initialized session is pooled, on its way
into the pool, or being retired, so the last reference to one is never dropped. It also
says who can be left unasked when the process ends: one of these three, and not the one
that `shutdown_all` took, whose shutdown has ended by then.
`UnspawnedIsUnused` and `EndedIsDead` keep the races for the slot apart from it.

**SelfUpdate.** The loop decides on what a tick saw. `TickSawFailure`: whatever
failure `/update` writes meanwhile is no newer than the failure the tick has seen;
`ResultIsNoOlder`: a check that succeeds finds that release or a newer one;
`SlashLagsBehind`: `/update` works on a release no newer than the loop's. Together
a publication never names a release whose failure is in the state.

**Who waits for whom.** Liveness itself cannot be proved, but what it rests on can, for
every number of actors: that somebody is there to take the step fairness promises. The
guards are written out, as ENABLED is out of the provers' reach. `NothingElseIsAwaited`: a
drain waits for leases that somebody holds, and their holders for providers
(`StartedInv`). `NoDeadlock`: from `LockInv` a call waits behind at most two others, and
the last one can go on or waits for the user; from `AloneInv` and `PromptInv` that user can
be asked. A main loop that waits for the tools mutex while a prompt is up (a reload of
agents, a quit) can lock itself out, and `Undisturbed` leaves it out as `CallsReturn`
does. `NobodyIsForgotten` says the same of the
waiters of a language server, for behaviours in which read loops last (`LoopsLast`);
without that premise `doc_lsp_hang` shows the hang. `NeverLeftInstalling`: who wrote
"Installing" last is still at work and writes the outcome.

**PluginRuntime.** `SavedSetOwns`: what is saved is what the indexes were built
from, and its plugins own their names there; a renewal of the user's entries leaves
them, a failed toggle changes neither. `BuildServes` and `ReindexServes` say what
the two ways of making an index return. `TrustInv`: each level in force and each
project that is saved comes from an answer of the user.

**Records.** The components share no variable, so each is proved on its own
(`Router!Spec`, ...) and `EachAsAlone` carries the results to the composition.

**Router.** `PickIsOfALayer`: the decision is that of the first layer with an answer.
`LayersConsent` and `LayersSee` say which layers may leave the active provider, and
that the one for images returns a model that sees them; `FirstIsOne` that the first
model of a tier or with vision is one. The invariant carries what a pick was made of
to the warning, over every change of the pool, the rules and the active provider in
between.

**PermissionRules.** An answer is obeyed if the first rule that matches its call says
so, and that a new rule goes to the end is not enough by itself: the invariant `PInv`
also says that the user is asked only about a call that no layer decides, so a rule
appended for another call never comes first for a call answered before (`AskedIsNew`,
`RuleAdded`). That a write under
way carries the rules in force is what lets the file catch up with them. `RetainedIs`
and `SortedIs` say what sorting and replacing rules keep.

**FenceParser.** The parser is compared with one that reads whole lines. Between two
fragments it is either behind that one by exactly the line so far, which it holds
back, or has emitted a part of the line that can no longer become a marker, and then
what is left of the line can neither (`Holds`): the line is `Spoilt`, or what is left has no
backticks (`NoTicks`). That a line which may still become a marker is held back at every
cut is where both premises enter. `FeedHolds`, `BreakHolds`, `FlushHolds`
and `FinishHolds` say that each step keeps this, `ReadsFragment` and `ReadsAll` carry
it over a fragment and over the text.

**AnswerStream: well-formedness.** An accumulator carries its listeners while it works
(`told`), so that a handler is a composition of operations on one record and each
operation has its lemma. `Agrees` says what the listeners know: which indexes there
are, and of each whether its block is open, which is the one block the accumulator has
open or, for OpenAI, a tool call that has yet to be stopped. The numbering differs:
Ollama's next index is that of the open block, OpenAI's is the number of blocks
kept, so a block opened by any of them is new. `CloseSound`, `OpenSound`,
`EmitChunkSound`, `PushSound`, `FinishSound`, `ToolSound` and `StopToolsSound` go
through the operations, and `FlushSound` says that nothing is left open.

**AnswerStream: the states.** The state of a canvas is saved with the n-th Html block of
the history because the canvas is the n-th, so both must be counted alike, and they are
counted in different places at different moments. `InStep`: within a turn there are never
fewer canvases than Html blocks to be kept, and while there are as many, the k-th canvas
shows the k-th block's text. `Tracks` says that an accumulator keeps this: the canvas being
drawn has the last number and belongs to the last Html block (`Sketches`). When that block
enters the history differs by provider, so one that is open and not yet kept is counted
ahead (`ToKeep`): Gemini's and Ollama's until it is closed, Anthropic's until its first
chunk; OpenAI keeps a block when it opens it.
`CloseTracks`, `OpenTracks`, `EmitChunkTracks`, `DeliveredTracks`, `ToolTracks` and
`FlushTracks` are its operations, and `PushTracks` the text between them. Between turns the
history is as long as the canvases, its renderers belong to its blocks (`Agree`), and what
is stored with each is its own (`AtHome`); a resume numbers both anew, so that it may
come at any time. `skewed` is where counting alike ends: a turn left more canvases than blocks
(it failed after a canvas began, or Anthropic ended a text block in a fence), and from
then on the property claims nothing.

**AnswerStream: what is shown.** Two lists grow: the blocks that are kept, and the log with the
live text. Each provider keeps its text at another moment (Anthropic and OpenAI with
every chunk, Gemini and Ollama when a block is closed), and the log has it in the live text,
in a line or in the canvas being drawn. So the proof compares what is *due* (`Due`:
kept, or in an open block that will be kept), what is *read* (`Reading`) and what the parser
*holds* (`Held`). An operation *gains* x if both lists grow by x at their end
(`Gains`): `CloseGains` and `OpenGains` gain nothing, `EmitChunkGains` the chunk, and
`PushPasses` relates a fragment to what is gained and held. That a chunk comes last needs
`Shows`: the canvas being drawn is the last line of the log and is that of the open
block, and OpenAI's open block is the last one of text, whatever tools begin meanwhile. `VInv` says at
each step that what was sent is what is due, then what is held. The first half of the module is about joining sequences
of sequences (`JoinedGrows`, `FlatGrows`), as `\o` is all the solver knows.

**LspInstaller.** For the rows: those before the server being installed have ended and
say the truth, those behind it are untouched, and of the one in between "installed" is
told or shown only when the install has succeeded (`RowsInv`); notifications may arrive
in any order and late, and `RowsDeliver` shows that none changes a row that has ended.
For the file: one merge at a time owns the temporary file, and at each of its points
the file and the temporary one hold what was read and the batch's servers (`FilesInv`).

**Types.** For the plugin runtime, the permissions, the parser and the answers the
invariants above hold the types, save for the bounds (`Within`). The installer needs that
what is left of a batch is an end of it, none twice (`Rest`). The router needs most: a turn
reads its cells one by one and picks afterwards, so what it has read keeps its type to the
pick (`ReadTypes`), and each layer is shown to name a provider and a model from it
(`PicksAreDecisions`, `OffersModels`). `RecordsTyping` joins the components by
`EachAsAlone`.

**Recursion.** The library's induction theorems take an operator as a parameter, which
these provers cannot instantiate. Where a proof needs what a recursion over a list
returns, the model has it as a recursive function and the proof goes over the set of
the numbers up to which the claim holds (`UpTo`, from the well-foundedness of the
numbers); `Recursion` gives the existence of such a function.

### Only model-checked

* Everything about liveness: `DrainCompletes`, `TurnsReturn`, `ForceFreesTurns`,
  `LoadingEnds`, `CallsReturn`, `CallsEnd`, `ClosingEnds`, `InstallingEnds`,
  `ReleaseIsOffered`. Fairness and ENABLED are out of the prover's reach; "Who waits for
  whom" above is what is proved of them.

Every safety property that a passing run checks is stated by a theorem; those marked
calm under the condition of their run, `MaxDisconnects = 0`.

## 9. Not modelled, and why

* Resources: marks of updated resources go through a bounded channel into a map
  and are drained by a turn; a turn that fails after the drain loses them
  (`session.rs:1107-1125`). One producer and one consumer over idempotent marks
  leave little to interleave.
* Context management and what is said in requests; subagent depth (a comparison),
  scoping of tool names (a filter).
* Connecting tool servers at the start, before anything else runs.
* Hooks, slots and screens of the plugin runtime beyond what `PluginRuntime` and
  `ToolPrompts` have: dispatch is sequential, and what a screen does is its own.
* Prompt history: a list with a cursor, rewritten on every append. WASM plugins:
  strikes are a counter; the rest is wasmtime. Plugin interfaces: types.
* Two writers of `permissions.toml`: the main loop records one answer at a time,
  so two `add_rule` calls of one process do not overlap.
* Installer: what is unpacked on disk and its removal before a reinstall
  (`installer.rs:235`), the picker, and the older `handle_install`.
* Sandbox command lines, configuration files, wire formats (SSE, NDJSON, the
  decoding of LSP messages), drawing, layout and parsing of HTML, the GUI, and the
  file and grep tools have no state of their own that outlives a call.
* A panic in the permission patterns (`short_args` cuts at byte 80,
  `permissions.rs:568`): patterns are sets of calls here.
