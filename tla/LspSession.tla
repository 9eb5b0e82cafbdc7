----------------------------- MODULE LspSession -----------------------------
(***************************************************************************)
(* tool-lsp: the language servers of one (language, workspace root) key.   *)
(* Tool calls share a pooled session, spawned by the first of them; a      *)
(* session is a child process, a read loop that hands its messages to the  *)
(* requests waiting in the pending map, and a shutdown when it is evicted, *)
(* when it lost the race for the pool slot, or when stdin of the tool      *)
(* closes.                                                                 *)
(*                                                                         *)
(* A request is named by who waits for it: a call, or the shutdown of a    *)
(* session. Entering it in the pending map and writing it is one step, and *)
(* so are the end of a read loop and the drain of the map: in between      *)
(* nothing is decided on what another step could change.                   *)
(***************************************************************************)
EXTENDS Naturals, FiniteSets

CONSTANTS
    Callers,         \* tool calls for the key
    SessionOf,       \* the session each call spawns, should it spawn one
    NoSession

Sessions == {SessionOf[c] : c \in Callers}
Requesters == Callers \cup Sessions

ASSUME SessionsAssumption ==
    /\ \A c, d \in Callers : SessionOf[c] = SessionOf[d] => c = d
    /\ NoSession \notin Sessions
    /\ Callers \cap Sessions = {}

VARIABLES
    server,          \* the child processes: "none", "up" or "dead"
    reading,         \* the sessions whose read loop runs
    initialized,     \* sessions whose handshake is over
    pending,         \* LspSession::pending of each session
    answer,          \* what the oneshot of each requester has received
    pool,            \* the pooled session
    pc, held,        \* where each call is, and the session whose Arc it holds
    retire,          \* LspSession::shutdown of each session
    process,         \* of tool-lsp: "serving", "closing" or "gone"
    closing,         \* the session shutdown_all is waiting for
    dropped          \* history: sessions killed by a drop that nobody asked to shut down

sessionVars == <<server, reading, initialized, pending, answer>>
callVars    == <<pc, held>>
ownerVars   == <<pool, retire, process, closing, dropped>>
vars == <<sessionVars, callVars, ownerVars>>

PC == {"idle", "spawn", "init", "init_wait", "insert", "open", "request", "wait", "done"}
RetirePC == {"none", "request", "wait", "reap", "done"}

TypeOK ==
    /\ server \in [Sessions -> {"none", "up", "dead"}]
    /\ reading \subseteq Sessions /\ initialized \subseteq Sessions
    /\ pending \in [Sessions -> SUBSET Requesters]
    /\ answer \in [Requesters -> {"none", "result", "error"}]
    /\ pool \in Sessions \cup {NoSession}
    /\ pc \in [Callers -> PC] /\ held \in [Callers -> Sessions \cup {NoSession}]
    /\ retire \in [Sessions -> RetirePC]
    /\ process \in {"serving", "closing", "gone"}
    /\ closing \in Sessions \cup {NoSession}
    /\ dropped \subseteq Sessions

Init ==
    /\ server = [s \in Sessions |-> "none"] /\ reading = {} /\ initialized = {}
    /\ pending = [s \in Sessions |-> {}]
    /\ answer = [r \in Requesters |-> "none"]
    /\ pool = NoSession
    /\ pc = [c \in Callers |-> "idle"] /\ held = [c \in Callers |-> NoSession]
    /\ retire = [s \in Sessions |-> "none"]
    /\ process = "serving" /\ closing = NoSession /\ dropped = {}

Alive == process # "gone"
\* The call holds a session whose server is up, or dead.
Using(c, status) == held[c] # NoSession /\ server[held[c]] = status
Goto(c, from, to) == Alive /\ pc[c] = from /\ pc' = [pc EXCEPT ![c] = to]
\* A call returns and drops its Arc of the session.
Return(c, from) == Goto(c, from, "done") /\ held' = [held EXCEPT ![c] = NoSession]

-----------------------------------------------------------------------------
(* LspPool::get_or_spawn. The child is spawned and initialized outside the *)
(* pool's lock.                                                            *)

GetPooled(c) ==
    /\ process = "serving" /\ pool # NoSession
    /\ Goto(c, "idle", "open")
    /\ held' = [held EXCEPT ![c] = pool]
    /\ UNCHANGED <<sessionVars, ownerVars>>

GetNothing(c) ==
    /\ process = "serving" /\ pool = NoSession
    /\ Goto(c, "idle", "spawn")
    /\ UNCHANGED <<sessionVars, held, ownerVars>>

Spawn(c) ==
    /\ \/ /\ Goto(c, "spawn", "init")
          /\ server' = [server EXCEPT ![SessionOf[c]] = "up"]
          /\ reading' = reading \cup {SessionOf[c]}
          /\ held' = [held EXCEPT ![c] = SessionOf[c]]
       \/ Return(c, "spawn") /\ UNCHANGED <<server, reading>>
    /\ UNCHANGED <<initialized, pending, answer, ownerVars>>

\* Variant: the slot is not looked at again.
InsertOver(c) ==
    /\ Goto(c, "insert", "open")
    /\ pool' = held[c]
    /\ UNCHANGED <<sessionVars, held, retire, process, closing, dropped>>

\* Back under the lock: a session pooled meanwhile wins, ours is shut down by a task.
Insert(c) ==
    /\ Goto(c, "insert", "open")
    /\ IF pool = NoSession
       THEN pool' = held[c] /\ UNCHANGED <<held, retire>>
       ELSE /\ retire' = [retire EXCEPT ![held[c]] = "request"]
            /\ held' = [held EXCEPT ![c] = pool]
            /\ UNCHANGED pool
    /\ UNCHANGED <<sessionVars, process, closing, dropped>>

-----------------------------------------------------------------------------
(* LspSession::request: register, write, wait; the handshake of a spawned  *)
(* session is a request as well.                                           *)

Request(c) ==
    /\ Using(c, "up")
    /\ \/ Goto(c, "init", "init_wait")
       \/ Goto(c, "request", "wait")
    /\ pending' = [pending EXCEPT ![held[c]] = @ \cup {c}]
    /\ UNCHANGED <<server, reading, initialized, answer, held, ownerVars>>

\* The pipe is broken: the error returns at once. (The entry it leaves in the map is
\* nobody's.)
WriteFails(c) ==
    /\ Using(c, "dead")
    /\ \/ Return(c, "init") \/ Return(c, "open") \/ Return(c, "request")
    /\ UNCHANGED <<sessionVars, ownerVars>>

\* The answer to initialize; the `initialized` notification fails on a dead server.
Initialized(c) ==
    /\ answer[c] # "none"
    /\ IF answer[c] = "result" /\ Using(c, "up")
       THEN /\ Goto(c, "init_wait", "insert")
            /\ initialized' = initialized \cup {held[c]}
            /\ UNCHANGED held
       ELSE Return(c, "init_wait") /\ UNCHANGED initialized
    /\ answer' = [answer EXCEPT ![c] = "none"]
    /\ UNCHANGED <<server, reading, pending, ownerVars>>

\* ensure_did_open: the file cannot be read, or the notification is written.
DidOpen(c) ==
    /\ \/ /\ Using(c, "up")
          /\ Goto(c, "open", "request") /\ UNCHANGED held
       \/ Return(c, "open")
    /\ UNCHANGED <<sessionVars, ownerVars>>

Answered(c) ==
    /\ answer[c] # "none"
    /\ Return(c, "wait")
    /\ answer' = [answer EXCEPT ![c] = "none"]
    /\ UNCHANGED <<server, reading, initialized, pending, ownerVars>>

-----------------------------------------------------------------------------
(* LspSession::shutdown, after an eviction, a lost race or in              *)
(* shutdown_all. The request has no timeout; only the exit has.            *)

RetireGoto(s, from, to) == Alive /\ retire[s] = from /\ retire' = [retire EXCEPT ![s] = to]

\* Idle by the clock, which a request in flight does not wind up.
Evict ==
    /\ process = "serving" /\ pool # NoSession
    /\ RetireGoto(pool, "none", "request")
    /\ pool' = NoSession
    /\ UNCHANGED <<sessionVars, callVars, process, closing, dropped>>

RetireRequest(s) ==
    /\ IF server[s] = "up"
       THEN RetireGoto(s, "request", "wait") /\ pending' = [pending EXCEPT ![s] = @ \cup {s}]
       ELSE RetireGoto(s, "request", "reap") /\ UNCHANGED pending
    /\ UNCHANGED <<server, reading, initialized, answer, callVars, pool, process, closing, dropped>>

\* Whatever the answer is, `exit` follows.
RetireAnswered(s) ==
    /\ answer[s] # "none"
    /\ RetireGoto(s, "wait", "reap")
    /\ answer' = [answer EXCEPT ![s] = "none"]
    /\ UNCHANGED <<server, reading, initialized, pending, callVars, pool, process, closing, dropped>>

\* Variant: the child is waited for without a limit.
ReapPatiently(s) ==
    /\ server[s] = "dead"
    /\ RetireGoto(s, "reap", "done")
    /\ UNCHANGED <<sessionVars, callVars, pool, process, closing, dropped>>

\* The child has exited, or the grace is over and it is killed.
Reap(s) ==
    /\ RetireGoto(s, "reap", "done")
    /\ server' = [server EXCEPT ![s] = "dead"]
    /\ UNCHANGED <<reading, initialized, pending, answer, callVars, pool, process, closing, dropped>>

\* Stdin of tool-lsp is closed: run() drains the pool and shuts its session down.
ShutdownAll ==
    /\ process = "serving"
    /\ process' = "closing"
    /\ closing' = pool /\ pool' = NoSession
    /\ retire' = IF pool = NoSession THEN retire ELSE [retire EXCEPT ![pool] = "request"]
    /\ UNCHANGED <<sessionVars, callVars, dropped>>

\* The server runs, and no shutdown has written its request yet.
Unasked(s) == server[s] = "up" /\ retire[s] \in {"none", "request"}

\* run() returns: the runtime drops its tasks, the detached shutdowns among them, and
\* with them every session that is left, which kills its child.
ProcessEnds ==
    /\ process = "closing"
    /\ closing # NoSession => retire[closing] = "done"
    /\ process' = "gone"
    /\ server' = [s \in Sessions |-> IF server[s] = "up" THEN "dead" ELSE server[s]]
    /\ dropped' = dropped \cup {s \in Sessions : Unasked(s)}
    /\ UNCHANGED <<reading, initialized, pending, answer, callVars, pool, retire, closing>>

\* kill_on_drop: nobody holds the session any more.
Holders(s) == {c \in Callers : held[c] = s}
Drop(s) ==
    /\ Alive /\ server[s] = "up"
    /\ Holders(s) = {} /\ pool # s /\ retire[s] \in {"none", "done"}
    /\ server' = [server EXCEPT ![s] = "dead"]
    /\ dropped' = dropped \cup {s}
    /\ UNCHANGED <<reading, initialized, pending, answer, callVars, pool, retire, process, closing>>

-----------------------------------------------------------------------------
(* The language server and the read loop.                                  *)

\* read_loop: a message with the id of a pending request resolves it.
Resolve(s, r, kind) ==
    /\ Alive /\ server[s] = "up" /\ s \in reading /\ r \in pending[s]
    /\ pending' = [pending EXCEPT ![s] = @ \ {r}]
    /\ answer' = [answer EXCEPT ![r] = kind]
    /\ UNCHANGED <<server, reading, initialized, callVars, ownerVars>>

\* The response, or a request of the server's own that happens to have the same id,
\* which reads as an empty result. Only the handshake looks at what it is.
Respond(s) == \E r \in Requesters :
    \/ Resolve(s, r, "result")
    \/ r \in Callers /\ pc[r] = "init_wait" /\ Resolve(s, r, "error")

ServerDies(s) ==
    /\ Alive /\ server[s] = "up"
    /\ server' = [server EXCEPT ![s] = "dead"]
    /\ UNCHANGED <<reading, initialized, pending, answer, callVars, ownerVars>>

\* Variant: the loop just ends.
DrainNothing(s) == UNCHANGED <<pending, answer>>

\* drain_pending: whoever waits gets an error.
DrainPending(s) ==
    /\ pending' = [pending EXCEPT ![s] = {}]
    /\ answer' = [r \in Requesters |-> IF r \in pending[s] THEN "error" ELSE answer[r]]

ReadEof(s) ==
    /\ Alive /\ server[s] = "dead" /\ s \in reading
    /\ reading' = reading \ {s}
    /\ DrainPending(s)
    /\ UNCHANGED <<server, initialized, callVars, ownerVars>>

\* A message that does not decode (an id that is a string, a header without a
\* length) ends the loop although the server lives.
ReadError(s) ==
    /\ Alive /\ server[s] = "up" /\ s \in reading
    /\ reading' = reading \ {s}
    /\ DrainPending(s)
    /\ UNCHANGED <<server, initialized, callVars, ownerVars>>

-----------------------------------------------------------------------------
CallStep(c) ==
    \/ Spawn(c) \/ Insert(c) \/ Request(c) \/ WriteFails(c)
    \/ Initialized(c) \/ DidOpen(c) \/ Answered(c)
RetireStep(s) == RetireRequest(s) \/ RetireAnswered(s) \/ Reap(s)

Next ==
    \/ \E c \in Callers : GetPooled(c) \/ GetNothing(c) \/ CallStep(c)
    \/ \E s \in Sessions :
        \/ RetireStep(s) \/ Respond(s) \/ ReadEof(s) \/ ReadError(s) \/ ServerDies(s) \/ Drop(s)
    \/ Evict \/ ShutdownAll \/ ProcessEnds

\* The runtime polls what can run, and a server answers what it is asked or dies.
Fairness ==
    /\ \A c \in Callers : WF_vars(CallStep(c))
    /\ \A s \in Sessions : WF_vars(RetireStep(s)) /\ WF_vars(Respond(s)) /\ WF_vars(ReadEof(s))
    /\ WF_vars(ProcessEnds)

Spec     == Init /\ [][Next]_vars
FairSpec == Spec /\ Fairness

-----------------------------------------------------------------------------
\* Out of reach of shutdown_all when run() returns: pooled after the drain, on its way to
\* the pool, or its detached shutdown has not begun.
OutOfReach(s) ==
    \/ pool = s
    \/ retire[s] = "request"
    \/ \E c \in Callers : pc[c] = "insert" /\ held[c] = s

\* An initialized server is asked to shut down before it goes. As long as tool-lsp runs,
\* concurrent spawns, evictions, a closing stdin and failing calls never leave one to be
\* killed by a drop; the end of the process kills unasked only those that shutdown_all
\* could not reach, never the session it drained from the pool.
ShutDownNotDropped == \A s \in dropped \cap initialized :
    process = "gone" /\ s # closing /\ OutOfReach(s)

\* The comment of run(): on EOF "every active LSP child is shut down gracefully instead of
\* being orphaned". A call that pools its session after the drain, or a detached shutdown
\* that has not run, leaves a server to be killed unasked when run() returns.
EveryServerIsAsked == dropped \cap initialized = {}

\* Every read loop lives as long as its server.
LoopsLast == \A s \in Sessions : server[s] = "up" => s \in reading

\* A call that has begun returns, whatever dies, is evicted or answered in between.
CallsEnd ==
    [](LoopsLast) =>
        \A c \in Callers : (pc[c] # "idle") ~> (pc[c] = "done" \/ process = "gone")

\* Closing stdin ends the process, whatever its server does with `exit`, if the server
\* answers `shutdown` or dies: the request before `exit` has no timeout.
ClosingEnds == [](LoopsLast) => ((process = "closing") ~> (process = "gone"))

\* drain_pending's claim: a waiter becomes "a clean error to the caller instead of
\* hanging on the oneshot receiver forever". A call that registers after the drain of
\* a loop that ended before its server is never answered, and the session stays pooled.
WaitersGetAnAnswer ==
    \A c \in Callers : (pc[c] = "wait") ~> (pc[c] = "done" \/ process = "gone")
=============================================================================
