---------------------------- MODULE ProviderPool ----------------------------
(***************************************************************************)
(* The provider pool of savvagent-host and everything that races on it:    *)
(* turns (Host::run_turn_inner), subagents (SubHost::run_subagent) and     *)
(* model listings (Host::list_models) take leases on pool entries, while   *)
(* Host::remove_provider drains or force-disconnects them,                 *)
(* Host::add_provider registers them again and Host::set_active_provider   *)
(* moves the default.                                                      *)
(*                                                                         *)
(* One action is one critical section, or the code between two awaits.     *)
(* Every provider id may be registered several times; an entry is a        *)
(* provider together with its generation, the identity of its PoolEntry.   *)
(***************************************************************************)
EXTENDS Naturals, FiniteSets

CONSTANTS
    Providers,       \* the provider ids
    Turns,           \* calls of run_turn_inner
    SubagentTurns,   \* the turns whose model may call the in-process `task` tool
    Listers,         \* calls of list_models
    Removers,        \* calls of remove_provider
    Adders,          \* calls of add_provider
    Switchers,       \* calls of set_active_provider
    Modes,           \* the disconnect modes the removers may ask for
    MaxGen,          \* bound: how often one provider id is registered
    MaxIterations,   \* HostConfig::max_iterations
    NoProvider,
    NoEntry

ASSUME BoundsAssumption == MaxGen \in Nat \ {0} /\ MaxIterations \in Nat \ {0}
ASSUME NullsAssumption == NoProvider \notin Providers /\ NoEntry \notin Providers \X Nat
ASSUME CallersAssumption ==
    /\ IsFiniteSet(Turns) /\ IsFiniteSet(Listers)
    /\ SubagentTurns \subseteq Turns
    /\ Turns \cap Listers = {}
ASSUME ModesAssumption == Modes \subseteq {"drain", "force"}

VARIABLES
    pool,             \* generation in the pool per provider, 0 when absent
    registered,       \* generations registered so far per provider
    active_turns,     \* PoolEntry::active_turns, which outlives the pool slot
    active_provider,
    cancel_signal,    \* providers with a broadcast sender
    turn_handles,     \* abort handles per provider, named by the call they abort
    turn_pc,          \* where each turn is
    provider,         \* decision.provider_id of each turn
    iterations,       \* round trips started by each turn
    cancel_rx,        \* state of the turn's broadcast receiver
    outcome,          \* what run_turn_inner returned
    call,             \* the spawned client.complete tasks
    borrower_pc,      \* subagents and listings: they lease the active provider
    target,           \* the active provider a borrower read
    lease,            \* the entry each lease holder holds a ProviderLease on
    remover,
    adder,
    switcher

hostVars     == <<pool, registered, active_turns, active_provider, cancel_signal, turn_handles>>
turnVars     == <<turn_pc, provider, iterations, cancel_rx, outcome, call>>
borrowerVars == <<borrower_pc, target>>
adminVars    == <<remover, adder, switcher>>
vars == <<hostVars, turnVars, borrowerVars, lease, adminVars>>

-----------------------------------------------------------------------------
Generations == 1 .. MaxGen
Entries     == Providers \X Generations
Absent      == 0

Borrowers   == SubagentTurns \cup Listers
MainLease(t)   == <<"turn", t>>
BorrowLease(b) == <<"borrower", b>>
Holders     == {MainLease(t) : t \in Turns} \cup {BorrowLease(b) : b \in Borrowers}

\* One spawned call per round trip of a turn.
Calls       == Turns \X (1 .. MaxIterations)
Call(t)     == <<t, iterations[t]>>

TurnPC == {"idle", "iterate", "subscribed", "register", "select",
           "cancelling", "clean", "respond", "tools", "subagent", "done"}
\* "leased": a request is out; "dispatch": a subagent runs the tools of an answer.
BorrowerPC == {"idle", "pick", "lease", "leased", "dispatch", "returned"}
\* "fallback": the receiver of a fresh channel whose sender is already gone.
RxState  == {"none", "open", "signalled", "closed", "fallback"}
Outcomes == {"none", "complete", "loop_limit", "no_active_provider",
             "cancelled", "provider_error"}

RemoverType  == [pc : {"idle", "drain", "signal", "grace", "abort", "cleanup", "done"},
                 entry : Entries \cup {NoEntry}, mode : {"drain", "force"}]
AdderType    == [pc : {"idle", "sender", "done"}, id : Providers \cup {NoProvider}]
SwitcherType == [pc : {"idle", "write", "done"}, id : Providers \cup {NoProvider}]

TypeOK ==
    /\ pool \in [Providers -> 0 .. MaxGen]
    /\ registered \in [Providers -> 0 .. MaxGen]
    /\ active_turns \in [Entries -> Nat]
    /\ active_provider \in Providers
    /\ cancel_signal \subseteq Providers
    /\ turn_handles \in [Providers -> SUBSET Calls]
    /\ turn_pc \in [Turns -> TurnPC]
    /\ provider \in [Turns -> Providers \cup {NoProvider}]
    /\ iterations \in [Turns -> 0 .. MaxIterations]
    /\ cancel_rx \in [Turns -> RxState]
    /\ outcome \in [Turns -> Outcomes]
    /\ call \in [Calls -> {"unspawned", "running", "done", "aborted"}]
    /\ borrower_pc \in [Borrowers -> BorrowerPC]
    /\ target \in [Borrowers -> Providers \cup {NoProvider}]
    /\ lease \in [Holders -> Entries \cup {NoEntry}]
    /\ remover \in [Removers -> RemoverType]
    /\ adder \in [Adders -> AdderType]
    /\ switcher \in [Switchers -> SwitcherType]

\* Host::start: the connected providers are pooled, each with its sender,
\* and one of them is active.
Init ==
    /\ \E connected \in SUBSET Providers :
        /\ pool = [p \in Providers |-> IF p \in connected THEN 1 ELSE Absent]
        /\ registered = pool
        /\ cancel_signal = connected
        /\ active_provider \in connected
    /\ active_turns = [e \in Entries |-> 0]
    /\ turn_handles = [p \in Providers |-> {}]
    /\ turn_pc = [t \in Turns |-> "idle"]
    /\ provider = [t \in Turns |-> NoProvider]
    /\ iterations = [t \in Turns |-> 0]
    /\ cancel_rx = [t \in Turns |-> "none"]
    /\ outcome = [t \in Turns |-> "none"]
    /\ call = [c \in Calls |-> "unspawned"]
    /\ borrower_pc = [b \in Borrowers |-> "idle"]
    /\ target = [b \in Borrowers |-> NoProvider]
    /\ lease = [h \in Holders |-> NoEntry]
    /\ remover = [r \in Removers |-> [pc |-> "idle", entry |-> NoEntry, mode |-> "drain"]]
    /\ adder = [a \in Adders |-> [pc |-> "idle", id |-> NoProvider]]
    /\ switcher = [s \in Switchers |-> [pc |-> "idle", id |-> NoProvider]]

-----------------------------------------------------------------------------
\* Leases: PoolEntry::lease and the Drop of ProviderLease.

PoolEntry(p) == <<p, pool[p]>>

Lease(h, e) ==
    /\ active_turns' = [active_turns EXCEPT ![e] = @ + 1]
    /\ lease' = [lease EXCEPT ![h] = e]

DropLease(h) ==
    /\ active_turns' = [active_turns EXCEPT ![lease[h]] = @ - 1]
    /\ lease' = [lease EXCEPT ![h] = NoEntry]

-----------------------------------------------------------------------------
\* Turns: run_turn_inner.

Goto(t, from, to) == turn_pc[t] = from /\ turn_pc' = [turn_pc EXCEPT ![t] = to]
Return(t, from, result) ==
    /\ Goto(t, from, "done")
    /\ outcome' = [outcome EXCEPT ![t] = result]

\* Router::pick: overrides, modality, rules and heuristics choose a pooled
\* provider; the default is the active one, pooled or not.
Route(t) ==
    /\ Goto(t, "idle", "iterate")
    /\ \E p \in {q \in Providers : pool[q] # Absent} \cup {active_provider} :
            provider' = [provider EXCEPT ![t] = p]
    /\ UNCHANGED <<hostVars, iterations, cancel_rx, outcome, call, borrowerVars, lease, adminVars>>

HitLoopLimit(t) ==
    /\ Return(t, "iterate", "loop_limit")
    /\ iterations[t] >= MaxIterations
    /\ UNCHANGED <<hostVars, provider, iterations, cancel_rx, call, borrowerVars, lease, adminVars>>

\* Variant: the fallback sender is kept alive, so that its receiver is silent.
SubscribeKeepingFallback(t) ==
    /\ Goto(t, "iterate", "subscribed")
    /\ iterations[t] < MaxIterations
    /\ iterations' = [iterations EXCEPT ![t] = @ + 1]
    /\ cancel_rx' = [cancel_rx EXCEPT ![t] = "open"]
    /\ UNCHANGED <<hostVars, provider, outcome, call, borrowerVars, lease, adminVars>>

\* Next round trip: subscribe to the cancel broadcast before leasing.
Subscribe(t) ==
    /\ Goto(t, "iterate", "subscribed")
    /\ iterations[t] < MaxIterations
    /\ iterations' = [iterations EXCEPT ![t] = @ + 1]
    /\ cancel_rx' = [cancel_rx EXCEPT ![t] =
                        IF provider[t] \in cancel_signal THEN "open" ELSE "fallback"]
    /\ UNCHANGED <<hostVars, provider, outcome, call, borrowerVars, lease, adminVars>>

FindNoProvider(t) ==
    /\ Return(t, "subscribed", "no_active_provider")
    /\ pool[provider[t]] = Absent
    /\ cancel_rx' = [cancel_rx EXCEPT ![t] = "none"]
    /\ UNCHANGED <<hostVars, provider, iterations, call, borrowerVars, lease, adminVars>>

\* Lease the pooled entry and spawn the provider call.
AcquireLease(t) ==
    /\ Goto(t, "subscribed", "register")
    /\ pool[provider[t]] # Absent
    /\ Lease(MainLease(t), PoolEntry(provider[t]))
    /\ call' = [call EXCEPT ![Call(t)] = "running"]
    /\ UNCHANGED <<pool, registered, active_provider, cancel_signal, turn_handles,
                   provider, iterations, cancel_rx, outcome, borrowerVars, adminVars>>

RegisterHandle(t) ==
    /\ Goto(t, "register", "select")
    /\ turn_handles' = [turn_handles EXCEPT ![provider[t]] = @ \cup {Call(t)}]
    /\ UNCHANGED <<pool, registered, active_turns, active_provider, cancel_signal,
                   provider, iterations, cancel_rx, outcome, call, borrowerVars, lease, adminVars>>

\* select!: the provider call finished.
SelectDone(t) ==
    /\ Goto(t, "select", "clean")
    /\ call[Call(t)] = "done"
    /\ DropLease(MainLease(t))
    /\ UNCHANGED <<pool, registered, active_provider, cancel_signal, turn_handles,
                   provider, iterations, cancel_rx, outcome, call, borrowerVars, adminVars>>

\* select!: the provider call was aborted by the last stage of a force disconnect.
SelectAborted(t) ==
    /\ Return(t, "select", "cancelled")
    /\ call[Call(t)] = "aborted"
    /\ DropLease(MainLease(t))
    /\ cancel_rx' = [cancel_rx EXCEPT ![t] = "none"]
    /\ UNCHANGED <<pool, registered, active_provider, cancel_signal, turn_handles,
                   provider, iterations, call, borrowerVars, adminVars>>

\* Variant: only a delivered reason ends the wait, a lost sender does not.
SelectCancelOnReason(t) ==
    /\ Goto(t, "select", "cancelling")
    /\ cancel_rx[t] = "signalled"
    /\ UNCHANGED <<hostVars, provider, iterations, cancel_rx, outcome, call,
                   borrowerVars, lease, adminVars>>

\* select!: the broadcast delivered a reason, or its sender is gone. The call
\* is left to run on its own; TurnEvent::Cancelled is sent under the lease.
SelectCancel(t) ==
    /\ Goto(t, "select", "cancelling")
    /\ cancel_rx[t] \in {"signalled", "closed", "fallback"}
    /\ UNCHANGED <<hostVars, provider, iterations, cancel_rx, outcome, call,
                   borrowerVars, lease, adminVars>>

\* Variant: the cancel path forgets the lease.
ReturnCancelledLeaking(t) ==
    /\ Return(t, "cancelling", "cancelled")
    /\ lease' = [lease EXCEPT ![MainLease(t)] = NoEntry]
    /\ cancel_rx' = [cancel_rx EXCEPT ![t] = "none"]
    /\ UNCHANGED <<hostVars, provider, iterations, call, borrowerVars, adminVars>>

ReturnCancelled(t) ==
    /\ Return(t, "cancelling", "cancelled")
    /\ DropLease(MainLease(t))
    /\ cancel_rx' = [cancel_rx EXCEPT ![t] = "none"]
    /\ UNCHANGED <<pool, registered, active_provider, cancel_signal, turn_handles,
                   provider, iterations, call, borrowerVars, adminVars>>

\* Variant: the whole handle list of the provider is dropped.
CleanAllHandles(t) ==
    /\ Goto(t, "clean", "respond")
    /\ turn_handles' = [turn_handles EXCEPT ![provider[t]] = {}]
    /\ UNCHANGED <<pool, registered, active_turns, active_provider, cancel_signal,
                   provider, iterations, cancel_rx, outcome, call, borrowerVars, lease, adminVars>>

\* Retain the handles of unfinished calls.
CleanHandles(t) ==
    /\ Goto(t, "clean", "respond")
    /\ turn_handles' = [turn_handles EXCEPT ![provider[t]] = {c \in @ : call[c] = "running"}]
    /\ UNCHANGED <<pool, registered, active_turns, active_provider, cancel_signal,
                   provider, iterations, cancel_rx, outcome, call, borrowerVars, lease, adminVars>>

\* The response was an error, a final answer or a batch of tool calls.
Respond(t) ==
    /\ \/ \E result \in {"provider_error", "complete"} : Return(t, "respond", result)
       \/ Goto(t, "respond", "tools") /\ UNCHANGED outcome
    /\ cancel_rx' = [cancel_rx EXCEPT ![t] = "none"]
    /\ UNCHANGED <<hostVars, provider, iterations, call, borrowerVars, lease, adminVars>>

RunTools(t) ==
    /\ Goto(t, "tools", "iterate")
    /\ UNCHANGED <<hostVars, provider, iterations, cancel_rx, outcome, call,
                   borrowerVars, lease, adminVars>>

\* The batch holds a `task` call: the turn waits for the subagent.
StartSubagent(t) ==
    /\ t \in SubagentTurns
    /\ Goto(t, "tools", "subagent")
    /\ borrower_pc' = [borrower_pc EXCEPT ![t] = "pick"]
    /\ UNCHANGED <<hostVars, provider, iterations, cancel_rx, outcome, call, target, lease, adminVars>>

FinishSubagent(t) ==
    /\ t \in SubagentTurns
    /\ borrower_pc[t] = "returned"
    /\ Goto(t, "subagent", "iterate")
    /\ borrower_pc' = [borrower_pc EXCEPT ![t] = "idle"]
    /\ UNCHANGED <<hostVars, provider, iterations, cancel_rx, outcome, call, target, lease, adminVars>>

\* The spawned client.complete returns, whether or not a turn still waits for it.
CallCompletes(c) ==
    /\ call[c] = "running"
    /\ call' = [call EXCEPT ![c] = "done"]
    /\ UNCHANGED <<hostVars, turn_pc, provider, iterations, cancel_rx, outcome,
                   borrowerVars, lease, adminVars>>

-----------------------------------------------------------------------------
\* Borrowers: a subagent holds one lease on the active provider over its whole
\* loop of requests and tools, which has no limit; a model listing over one
\* request. Neither listens for a cancel signal: the token that run_subagent
\* checks is made for the call and never cancelled.

BorrowGoto(b, from, to) ==
    borrower_pc[b] = from /\ borrower_pc' = [borrower_pc EXCEPT ![b] = to]

StartListing(l) ==
    /\ BorrowGoto(l, "idle", "pick")
    /\ UNCHANGED <<hostVars, turnVars, target, lease, adminVars>>

ReadActive(b) ==
    /\ BorrowGoto(b, "pick", "lease")
    /\ target' = [target EXCEPT ![b] = active_provider]
    /\ UNCHANGED <<hostVars, turnVars, lease, adminVars>>

Borrow(b) ==
    /\ BorrowGoto(b, "lease", "leased")
    /\ pool[target[b]] # Absent
    /\ Lease(BorrowLease(b), PoolEntry(target[b]))
    /\ UNCHANGED <<pool, registered, active_provider, cancel_signal, turn_handles,
                   turnVars, target, adminVars>>

\* Variant: the borrower retries until the active provider is back.
BorrowRetry(b) ==
    /\ BorrowGoto(b, "lease", "pick")
    /\ pool[target[b]] = Absent
    /\ UNCHANGED <<hostVars, turnVars, target, lease, adminVars>>

BorrowNothing(b) ==
    /\ BorrowGoto(b, "lease", "returned")
    /\ pool[target[b]] = Absent
    /\ UNCHANGED <<hostVars, turnVars, target, lease, adminVars>>

\* run_subagent: the answer asks for tools, and the loop goes round again.
AskForTools(t) ==
    /\ t \in SubagentTurns
    /\ BorrowGoto(t, "leased", "dispatch")
    /\ UNCHANGED <<hostVars, turnVars, target, lease, adminVars>>

DispatchTools(t) ==
    /\ t \in SubagentTurns
    /\ BorrowGoto(t, "dispatch", "leased")
    /\ UNCHANGED <<hostVars, turnVars, target, lease, adminVars>>

\* The request failed, or the answer asks for no tool: the call returns.
GiveBack(b) ==
    /\ BorrowGoto(b, "leased", "returned")
    /\ DropLease(BorrowLease(b))
    /\ UNCHANGED <<pool, registered, active_provider, cancel_signal, turn_handles,
                   turnVars, target, adminVars>>

-----------------------------------------------------------------------------
\* remove_provider. A call for an absent provider changes nothing.

RemoverGoto(r, from, to) ==
    remover[r].pc = from /\ remover' = [remover EXCEPT ![r].pc = to]

RemoveEntry(r) ==
    /\ remover[r].pc = "idle"
    /\ \E p \in Providers, mode \in Modes :
        /\ pool[p] # Absent
        /\ pool' = [pool EXCEPT ![p] = Absent]
        /\ remover' = [remover EXCEPT ![r] =
                        [pc |-> IF mode = "drain" THEN "drain" ELSE "signal",
                         entry |-> PoolEntry(p), mode |-> mode]]
    /\ UNCHANGED <<registered, active_turns, active_provider, cancel_signal, turn_handles,
                   turnVars, borrowerVars, lease, adder, switcher>>

\* Variant: the drain does not wait.
DrainAtOnce(r) ==
    /\ RemoverGoto(r, "drain", "cleanup")
    /\ UNCHANGED <<hostVars, turnVars, borrowerVars, lease, adder, switcher>>

\* Poll the counter: sleep again while leases are out.
DrainPoll(r) ==
    /\ remover[r].pc = "drain"
    /\ active_turns[remover[r].entry] # 0
    /\ UNCHANGED vars

DrainDone(r) ==
    /\ RemoverGoto(r, "drain", "cleanup")
    /\ active_turns[remover[r].entry] = 0
    /\ UNCHANGED <<hostVars, turnVars, borrowerVars, lease, adder, switcher>>

\* Stage 1: whoever subscribed to the provider's current sender is signalled.
ForceSignal(r) ==
    LET p == remover[r].entry[1] IN
    /\ RemoverGoto(r, "signal", "grace")
    /\ cancel_rx' = [t \in Turns |->
                        IF cancel_rx[t] = "open" /\ provider[t] = p /\ p \in cancel_signal
                        THEN "signalled" ELSE cancel_rx[t]]
    /\ UNCHANGED <<hostVars, turn_pc, provider, iterations, outcome, call,
                   borrowerVars, lease, adder, switcher>>

\* Stage 2: the leases are gone, or the deadline passes with some left.
GraceOver(r) ==
    /\ \/ RemoverGoto(r, "grace", "cleanup") /\ active_turns[remover[r].entry] = 0
       \/ RemoverGoto(r, "grace", "abort") /\ active_turns[remover[r].entry] # 0
    /\ UNCHANGED <<hostVars, turnVars, borrowerVars, lease, adder, switcher>>

\* Stage 3: abort whatever call is registered for the provider id.
AbortHandles(r) ==
    LET p == remover[r].entry[1] IN
    /\ RemoverGoto(r, "abort", "cleanup")
    /\ call' = [c \in Calls |->
                    IF c \in turn_handles[p] /\ call[c] = "running" THEN "aborted" ELSE call[c]]
    /\ turn_handles' = [turn_handles EXCEPT ![p] = {}]
    /\ UNCHANGED <<pool, registered, active_turns, active_provider, cancel_signal,
                   turn_pc, provider, iterations, cancel_rx, outcome,
                   borrowerVars, lease, adder, switcher>>

\* Drop the provider's sender: its receivers are closed.
RemoveSender(r) ==
    LET p == remover[r].entry[1] IN
    /\ RemoverGoto(r, "cleanup", "done")
    /\ cancel_signal' = cancel_signal \ {p}
    /\ cancel_rx' = [t \in Turns |->
                        IF cancel_rx[t] = "open" /\ provider[t] = p
                        THEN "closed" ELSE cancel_rx[t]]
    /\ UNCHANGED <<pool, registered, active_turns, active_provider, turn_handles,
                   turn_pc, provider, iterations, outcome, call,
                   borrowerVars, lease, adder, switcher>>

-----------------------------------------------------------------------------
\* add_provider. A call for a pooled provider changes nothing.

\* Variant: a pooled entry is overwritten.
ReplaceEntry(a) ==
    /\ adder[a].pc = "idle"
    /\ \E p \in Providers :
        /\ registered[p] < MaxGen
        /\ registered' = [registered EXCEPT ![p] = @ + 1]
        /\ pool' = [pool EXCEPT ![p] = registered[p] + 1]
        /\ adder' = [adder EXCEPT ![a] = [pc |-> "sender", id |-> p]]
    /\ UNCHANGED <<active_turns, active_provider, cancel_signal, turn_handles,
                   turnVars, borrowerVars, lease, remover, switcher>>

InsertEntry(a) ==
    /\ adder[a].pc = "idle"
    /\ \E p \in Providers :
        /\ pool[p] = Absent
        /\ registered[p] < MaxGen
        /\ registered' = [registered EXCEPT ![p] = @ + 1]
        /\ pool' = [pool EXCEPT ![p] = registered[p] + 1]
        /\ adder' = [adder EXCEPT ![a] = [pc |-> "sender", id |-> p]]
    /\ UNCHANGED <<active_turns, active_provider, cancel_signal, turn_handles,
                   turnVars, borrowerVars, lease, remover, switcher>>

CreateSender(a) ==
    /\ adder[a].pc = "sender"
    /\ cancel_signal' = cancel_signal \cup {adder[a].id}
    /\ adder' = [adder EXCEPT ![a].pc = "done"]
    /\ UNCHANGED <<pool, registered, active_turns, active_provider, turn_handles,
                   turnVars, borrowerVars, lease, remover, switcher>>

\* set_active_provider: the check and the write hold different locks.
CheckConnected(s) ==
    /\ switcher[s].pc = "idle"
    /\ \E p \in Providers :
        /\ pool[p] # Absent
        /\ switcher' = [switcher EXCEPT ![s] = [pc |-> "write", id |-> p]]
    /\ UNCHANGED <<hostVars, turnVars, borrowerVars, lease, remover, adder>>

SwitchActive(s) ==
    /\ switcher[s].pc = "write"
    /\ active_provider' = switcher[s].id
    /\ switcher' = [switcher EXCEPT ![s].pc = "done"]
    /\ UNCHANGED <<pool, registered, active_turns, cancel_signal, turn_handles,
                   turnVars, borrowerVars, lease, remover, adder>>

-----------------------------------------------------------------------------
\* Every call has returned or was never made.
Quiescent ==
    /\ \A t \in Turns : turn_pc[t] = "done"
    /\ \A b \in Borrowers : borrower_pc[b] \in {"idle", "returned"}
    /\ \A r \in Removers : remover[r].pc \in {"idle", "done"}
    /\ \A a \in Adders : adder[a].pc \in {"idle", "done"}
    /\ \A s \in Switchers : switcher[s].pc \in {"idle", "done"}
    /\ UNCHANGED vars

TurnStep(t) ==
    \/ HitLoopLimit(t) \/ Subscribe(t) \/ FindNoProvider(t) \/ AcquireLease(t)
    \/ RegisterHandle(t) \/ SelectDone(t) \/ SelectAborted(t) \/ SelectCancel(t)
    \/ ReturnCancelled(t) \/ CleanHandles(t) \/ Respond(t)
    \/ RunTools(t) \/ StartSubagent(t) \/ FinishSubagent(t)
BorrowerStep(b) == ReadActive(b) \/ Borrow(b) \/ BorrowNothing(b) \/ DispatchTools(b)
Answered(b)     == AskForTools(b) \/ GiveBack(b)
RemoverStep(r) ==
    DrainPoll(r) \/ DrainDone(r) \/ ForceSignal(r) \/ GraceOver(r) \/ AbortHandles(r) \/ RemoveSender(r)

Next ==
    \/ \E t \in Turns : Route(t) \/ TurnStep(t)
    \/ \E c \in Calls : CallCompletes(c)
    \/ \E l \in Listers : StartListing(l)
    \/ \E b \in Borrowers : BorrowerStep(b) \/ Answered(b)
    \/ \E r \in Removers : RemoveEntry(r) \/ RemoverStep(r)
    \/ \E a \in Adders : InsertEntry(a) \/ CreateSender(a)
    \/ \E s \in Switchers : CheckConnected(s) \/ SwitchActive(s)
    \/ Quiescent

\* The runtime keeps polling what can run; calls into the host come when they
\* like, and a provider may never answer.
HostFairness ==
    /\ \A t \in Turns : WF_vars(TurnStep(t))
    /\ \A b \in Borrowers : WF_vars(BorrowerStep(b))
    /\ \A r \in Removers : WF_vars(RemoverStep(r))
    /\ \A a \in Adders : WF_vars(CreateSender(a))
    /\ \A s \in Switchers : WF_vars(SwitchActive(s))

\* Providers that answer every request in the end.
ProvidersAnswer ==
    /\ \A c \in Calls : WF_vars(CallCompletes(c))
    /\ \A b \in Borrowers : WF_vars(Answered(b))

\* That does not end run_subagent, whose model may ask for tools for ever: the
\* models of the subagents stop asking for tools in the end.
SubagentsEnd == \A t \in SubagentTurns : <>[][~AskForTools(t)]_vars

Spec     == Init /\ [][Next]_vars
FairSpec == Spec /\ HostFairness

-----------------------------------------------------------------------------
\* A force disconnect has sent its signal by then.
Signalled(r) ==
    remover[r].mode = "force" /\ remover[r].pc \in {"grace", "abort", "cleanup", "done"}

\* Once a force disconnect has signalled, no turn holds a lease on the removed
\* entry and still waits on a silent receiver: subscribing before leasing
\* leaves no window in which the cancel is missed (run_turn_inner's claim),
\* whatever adds and removes of the same provider do to the sender meanwhile.
ForceReachesHolders ==
    \A r \in Removers, t \in Turns :
        Signalled(r) /\ lease[MainLease(t)] = remover[r].entry => cancel_rx[t] # "open"

\* A drain that stopped waiting leaves nobody on the entry, and nobody ever
\* gets on it again: neither a turn, nor a subagent, nor a listing.
DrainLeavesNobody ==
    \A r \in Removers :
        remover[r].mode = "drain" /\ remover[r].pc \in {"cleanup", "done"}
            => \A h \in Holders : lease[h] # remover[r].entry

\* The call a turn waits for stays within reach of the hard abort, although
\* other turns on the provider clean the shared handle list meanwhile.
AwaitedCallIsAbortable ==
    \A t \in Turns :
        turn_pc[t] = "select" /\ call[Call(t)] = "running"
            => Call(t) \in turn_handles[provider[t]]

\* A drain ends once providers answer and subagents end: turns and borrowers that
\* come meanwhile cannot keep it waiting. A subagent that goes on for ever can,
\* with providers that answer every request.
DrainCompletes ==
    ProvidersAnswer /\ SubagentsEnd =>
        \A r \in Removers : remover[r].pc = "drain" ~> remover[r].pc = "done"

\* Every turn returns once providers answer and subagents end, whatever is removed
\* and added. A turn has a limit of round trips, its subagents have none.
TurnsReturn ==
    ProvidersAnswer /\ SubagentsEnd =>
        \A t \in Turns : turn_pc[t] = "iterate" ~> turn_pc[t] = "done"

\* A force disconnect frees the entry of every turn although the provider
\* never answers: the signal ends the wait, with no help from the abort.
ForceFreesTurns ==
    \A r \in Removers, t \in Turns :
        (Signalled(r) /\ lease[MainLease(t)] = remover[r].entry)
            ~> lease[MainLease(t)] # remover[r].entry

-----------------------------------------------------------------------------
\* What the documentation says and the code does not do.

\* "This lets in-flight turns finish before the entry is discarded"
\* (remove_provider): a turn that had a round trip is not refused the provider
\* by drains alone. A turn leases per round trip and meets the removed entry.
DrainLetsTurnsFinish ==
    \A t \in Turns :
        outcome[t] = "no_active_provider" /\ iterations[t] > 1
            => \E r \in Removers : remover[r].mode = "force"

\* "Should not happen: add_provider always pre-creates the sender"
\* (run_turn_inner): while no add or remove is under way, a pooled provider has
\* its sender. The cleanup of an earlier removal takes the sender of the entry
\* registered since, and every turn on that provider is cancelled at once.
PooledHasSender ==
    /\ \A r \in Removers : remover[r].pc \in {"idle", "done"}
    /\ \A a \in Adders : adder[a].pc \in {"idle", "done"}
    => \A p \in Providers : pool[p] # Absent => p \in cancel_signal

-----------------------------------------------------------------------------
\* The pool as LeaseLifecycle sees it: an entry is retired while the removal
\* that took it out of the pool still runs.
Removals(e) == {r \in Removers : remover[r].entry = e}
Phase(e) ==
    IF e[2] > registered[e[1]] THEN "unborn"
    ELSE IF pool[e[1]] = e[2] THEN "pooled"
    ELSE IF \E r \in Removals(e) : remover[r].pc # "done" THEN "retired"
    ELSE "discarded"

Lifecycle == INSTANCE LeaseLifecycle WITH
    phase  <- [e \in Entries |-> Phase(e)],
    forced <- {e \in Entries : \E r \in Removals(e) : remover[r].mode = "force"},
    held   <- [e \in Entries |-> {h \in Holders : lease[h] = e}]

\* The interleaved host code implements the lifecycle of an entry: whatever is
\* removed and registered again under the same id meanwhile, no retired entry
\* is leased and no drained one is given up while someone still uses it.
ImplementsLifecycle == Lifecycle!Spec
=============================================================================
