-------------------------- MODULE ToolPromptsProofs --------------------------
(***************************************************************************)
(* Tool calls and their prompts, for any set of calls and keys and any     *)
(* number of calls that overlap.                                           *)
(***************************************************************************)
EXTENDS ToolPrompts, FiniteSetTheorems, TLAPS

\* The actions, without the groups the fairness puts them in.
LEMMA Steps ==
    ASSUME Next
    PROVE  \/ \E c \in TurnCalls : StartTurnCall(c)
           \/ \E c \in SubCalls : StartSubCall(c)
           \/ \E c \in Calls :
                \/ GateByRule(c) \/ Ask(c) \/ GetPermission(c) \/ Snapshot(c)
                \/ PreToolGate(c) \/ Lock(c) \/ LockNothing(c)
                \/ ResolveNoPrompt(c) \/ AskNetwork(c) \/ AskNetworkRefused(c) \/ GetChoice(c)
                \/ Slot(c) \/ Respawn(c) \/ RespawnFails(c) \/ Finish(c)
           \/ \E r \in Calls \X Choices : ResolveNetwork(r)
           \/ \E d \in Decisions, persist \in BOOLEAN : AnswerPermission(d, persist)
           \/ \E ch \in Choices : AnswerNetwork(ch)
           \/ \E p \in Prompts : Show(p)
           \/ \E c \in BashCalls : StartBash(c) \/ EnterBash(c)
           \/ Reloaded \/ Shutdown \/ ServersClosed
           \/ \E name \in {"canvas", "api_key"} : TakeOver(name)
           \/ LeaveCanvas \/ LeaveApiKey
           \/ ReloadAgents \/ Quit \/ LoadingCleared
BY DEF Next, CallStep, GateStep, NetworkStep, ServerStep, Answer, MainStep, UserStep, ClickCanvas,
   EnterApiKey

-----------------------------------------------------------------------------
(* Types.                                                                  *)

\* TypeOK, and that only the calls of turns ask for permission.
Typed ==
    /\ TypeOK
    /\ \A c \in Calls : pc[c] \in {"gate", "asked", "snapshot"} => c \in TurnCalls
    /\ \A p \in inbox : p.kind = "permission" => p.call \in TurnCalls

\* Every step keeps the types.
LEMMA TypeStep == ASSUME Typed, [Next]_vars PROVE Typed'
<1> USE CallsAssumption, KeysAssumption DEF Typed, TypeOK, PC, Goto, callVars, oneshots, locks,
        policy, tuiVars, inputs
<1>c. TurnCalls \subseteq Calls /\ BashCalls \subseteq Calls /\ SubCalls \subseteq Calls
  BY DEF Calls
<1>1. ASSUME NEW c \in TurnCalls, StartTurnCall(c) PROVE Typed' BY <1>1, <1>c DEF StartTurnCall
<1>2. ASSUME NEW c \in SubCalls, StartSubCall(c) PROVE Typed' BY <1>2, <1>c DEF StartSubCall
<1>3. ASSUME NEW c \in Calls, GateByRule(c) PROVE Typed' BY <1>3 DEF GateByRule
<1>4. ASSUME NEW c \in Calls, Ask(c) PROVE Typed' BY <1>4, <1>c DEF Ask, Prompt, Prompts
<1>5. ASSUME NEW c \in Calls, GetPermission(c) PROVE Typed' BY <1>5 DEF GetPermission
<1>6. ASSUME NEW c \in Calls, Snapshot(c) PROVE Typed' BY <1>6 DEF Snapshot
<1>7. ASSUME NEW c \in Calls, PreToolGate(c) PROVE Typed' BY <1>7, <1>c DEF PreToolGate
<1>8. ASSUME NEW c \in Calls, Lock(c) PROVE Typed' BY <1>8, <1>c DEF Lock
<1>9. ASSUME NEW c \in Calls, LockNothing(c) PROVE Typed' BY <1>9 DEF LockNothing
<1>10. ASSUME NEW c \in Calls, ResolveNoPrompt(c) PROVE Typed' BY <1>10 DEF ResolveNoPrompt
<1>11. ASSUME NEW c \in Calls, AskNetwork(c) PROVE Typed'
   BY <1>11, <1>c DEF AskNetwork, Prompt, Prompts
<1>12. ASSUME NEW c \in Calls, AskNetworkRefused(c) PROVE Typed' BY <1>12 DEF AskNetworkRefused
<1>13. ASSUME NEW c \in Calls, GetChoice(c) PROVE Typed'
  <2>1. bash_network_decision' \in Decisions \cup {"none"}
    BY <1>13 DEF GetChoice, Decisions
  <2>2. allow_net' \in [Calls -> BOOLEAN]
    <3>1. CASE allow_net' = [allow_net EXCEPT ![c] = bash_network_decision = "allow"]
      BY <3>1
    <3>2. CASE allow_net' = [allow_net EXCEPT ![c] = choice[c] \in {"once", "always"}]
      <4>1. (choice[c] \in {"once", "always"}) \in BOOLEAN
        OBVIOUS
      <4> QED BY <3>2, <4>1
    <3> QED BY <1>13, <3>1, <3>2 DEF GetChoice
  <2> QED BY <1>13, <2>1, <2>2 DEF GetChoice
<1>14. ASSUME NEW c \in Calls, Slot(c) PROVE Typed' BY <1>14 DEF Slot
<1>15. ASSUME NEW c \in Calls, Respawn(c) PROVE Typed' BY <1>15 DEF Respawn, Setting
<1>16. ASSUME NEW c \in Calls, RespawnFails(c) PROVE Typed'
   BY <1>16 DEF RespawnFails, Return, Overrides
<1>17. ASSUME NEW c \in Calls, Finish(c) PROVE Typed' BY <1>17 DEF Finish, Return, Overrides
<1>18. ASSUME NEW r \in Calls \X Choices, ResolveNetwork(r) PROVE Typed'
   BY <1>18 DEF ResolveNetwork, Choices
<1>19. ASSUME NEW d \in Decisions, NEW persist \in BOOLEAN, AnswerPermission(d, persist) PROVE Typed'
   BY <1>19, <1>c DEF AnswerPermission, Modes, Mode, Decisions
<1>20. ASSUME NEW ch \in Choices, AnswerNetwork(ch) PROVE Typed'
   BY <1>20, <1>c DEF AnswerNetwork, Modes, Mode, Prompt
<1>21. ASSUME NEW p \in Prompts, Show(p) PROVE Typed'
   BY <1>21, <1>c DEF Show, Modes, Mode, Prompts, Prompt
<1>22. ASSUME NEW c \in BashCalls, StartBash(c) PROVE Typed'
   BY <1>22, <1>c DEF StartBash, MainStates, At
<1>23. CASE Reloaded BY <1>23 DEF Reloaded, MainStates, At
<1>24. CASE Shutdown BY <1>24 DEF Shutdown, MainStates, At
<1>25. CASE ServersClosed BY <1>25 DEF ServersClosed, MainStates, At
<1>26. ASSUME NEW name \in {"canvas", "api_key"}, TakeOver(name) PROVE Typed'
   BY <1>26 DEF TakeOver, Modes, Mode
<1>27. CASE LeaveCanvas BY <1>27 DEF LeaveCanvas, Modes, Mode
<1>28. CASE ReloadAgents BY <1>28 DEF ReloadAgents, MainStates, At
<1>29. CASE Quit BY <1>29 DEF Quit, MainStates, At, Choices
<1>30. ASSUME NEW c \in BashCalls, EnterBash(c) PROVE Typed'
   BY <1>30, <1>c DEF EnterBash, MainStates, Overrides
<1>31. CASE LoadingCleared BY <1>31 DEF LoadingCleared
<1>32. CASE UNCHANGED vars BY <1>32 DEF vars
<1>33. CASE LeaveApiKey BY <1>33 DEF LeaveApiKey, Modes, Mode
<1> QED
   BY <1>1, <1>2, <1>3, <1>4, <1>5, <1>6, <1>7, <1>8, <1>9, <1>10, <1>11, <1>12, <1>13, <1>14,
    <1>15, <1>16, <1>17, <1>18, <1>19, <1>20, <1>21, <1>22, <1>23, <1>24, <1>25, <1>26, <1>27,
    <1>28, <1>29, <1>30, <1>31, <1>32, <1>33, Steps

\* The types hold at first.
LEMMA TypeInit == ASSUME Init PROVE Typed
BY DEF Init, Typed, TypeOK, PC, Overrides, Modes, Mode, MainStates, At

\* The system keeps its types.
THEOREM Typing == Spec => []TypeOK
<1>1. Typed => TypeOK
  BY DEF Typed
<1> QED BY <1>1, TypeInit, TypeStep, PTL DEF Spec

-----------------------------------------------------------------------------
(* The two mutexes.                                                        *)

Dispatched == {"resolve", "net", "slot", "spawn", "run"}

\* The tools mutex is held by the call of a turn or of `/bash` that is being dispatched, the
\* slot of tool-bash by the call that starts a server or runs on one. Nobody is dispatched
\* in a registry that shutdown has taken.
LockInv ==
    /\ \A c \in Calls : tools = c <=> c \notin SubCalls /\ pc[c] \in Dispatched
    /\ \A c \in Calls : active = c <=> c \notin PlainCalls /\ pc[c] \in {"spawn", "run"}
    /\ \A c \in PlainCalls : pc[c] \notin Dispatched \ {"run"}
    /\ \A c \in SubCalls : pc[c] # "lock"
    /\ RegistryOutlivesCalls

\* Every step keeps them.
LEMMA LockStep == ASSUME Typed, LockInv, [Next]_vars PROVE LockInv'
<1> USE CallsAssumption DEF Typed, TypeOK, LockInv, RegistryOutlivesCalls, Dispatched, Goto, Calls,
        callVars, oneshots, locks, policy, tuiVars, inputs
<1>1. ASSUME NEW c \in TurnCalls, StartTurnCall(c) PROVE LockInv' BY <1>1 DEF StartTurnCall
<1>2. ASSUME NEW c \in SubCalls, StartSubCall(c) PROVE LockInv' BY <1>2 DEF StartSubCall
<1>3. ASSUME NEW c \in Calls, GateByRule(c) PROVE LockInv' BY <1>3 DEF GateByRule
<1>4. ASSUME NEW c \in Calls, Ask(c) PROVE LockInv' BY <1>4 DEF Ask, Prompt
<1>5. ASSUME NEW c \in Calls, GetPermission(c) PROVE LockInv' BY <1>5 DEF GetPermission
<1>6. ASSUME NEW c \in Calls, Snapshot(c) PROVE LockInv' BY <1>6 DEF Snapshot
<1>7. ASSUME NEW c \in Calls, PreToolGate(c) PROVE LockInv' BY <1>7 DEF PreToolGate
<1>8. ASSUME NEW c \in Calls, Lock(c) PROVE LockInv'
  <2>1. /\ tools = NoOne /\ tools' = c /\ registry /\ registry' = registry
        /\ active' = active /\ pc[c] = "lock"
        /\ pc' = [pc EXCEPT ![c] = IF c \in PlainCalls THEN "run" ELSE "resolve"]
    BY <1>8 DEF Lock
  <2>2. c \notin SubCalls
    BY <2>1
  <2>3. \A d \in Calls : d # c => pc'[d] = pc[d]
    BY <2>1
  <2>4. pc'[c] = IF c \in PlainCalls THEN "run" ELSE "resolve"
    BY <2>1
  <2>5. \A d \in Calls : tools # d
    BY <2>1
  <2>6. \A d \in Calls : tools' = d <=> d \notin SubCalls /\ pc'[d] \in Dispatched
    BY <2>1, <2>2, <2>3, <2>4, <2>5
  <2>7. \A d \in Calls : active' = d <=> d \notin PlainCalls /\ pc'[d] \in {"spawn", "run"}
    BY <2>1, <2>3, <2>4
  <2> QED BY <2>1, <2>3, <2>4, <2>6, <2>7
<1>9. ASSUME NEW c \in Calls, LockNothing(c) PROVE LockInv' BY <1>9 DEF LockNothing
<1>10. ASSUME NEW c \in Calls, ResolveNoPrompt(c) PROVE LockInv' BY <1>10 DEF ResolveNoPrompt
<1>11. ASSUME NEW c \in Calls, AskNetwork(c) PROVE LockInv' BY <1>11 DEF AskNetwork, Prompt
<1>12. ASSUME NEW c \in Calls, AskNetworkRefused(c) PROVE LockInv'
   BY <1>12 DEF AskNetworkRefused
<1>13. ASSUME NEW c \in Calls, GetChoice(c) PROVE LockInv' BY <1>13 DEF GetChoice
<1>14. ASSUME NEW c \in Calls, Slot(c) PROVE LockInv' BY <1>14 DEF Slot
<1>15. ASSUME NEW c \in Calls, Respawn(c) PROVE LockInv' BY <1>15 DEF Respawn, Setting
<1>16. ASSUME NEW c \in Calls, RespawnFails(c) PROVE LockInv' BY <1>16 DEF RespawnFails, Return
<1>17. ASSUME NEW c \in Calls, Finish(c) PROVE LockInv' BY <1>17 DEF Finish, Return
<1>18. ASSUME NEW r \in Calls \X Choices, ResolveNetwork(r) PROVE LockInv'
   BY <1>18 DEF ResolveNetwork
<1>19. ASSUME NEW d \in Decisions, NEW persist \in BOOLEAN, AnswerPermission(d, persist) PROVE LockInv'
   BY <1>19 DEF AnswerPermission
<1>20. ASSUME NEW ch \in Choices, AnswerNetwork(ch) PROVE LockInv' BY <1>20 DEF AnswerNetwork
<1>21. ASSUME NEW p \in Prompts, Show(p) PROVE LockInv' BY <1>21 DEF Show
<1>22. ASSUME NEW c \in BashCalls, StartBash(c) PROVE LockInv' BY <1>22 DEF StartBash
<1>23. CASE Reloaded BY <1>23 DEF Reloaded
<1>24. CASE Shutdown BY <1>24 DEF Shutdown
<1>25. CASE ServersClosed BY <1>25 DEF ServersClosed
<1>26. ASSUME NEW name \in {"canvas", "api_key"}, TakeOver(name) PROVE LockInv'
   BY <1>26 DEF TakeOver
<1>27. CASE LeaveCanvas BY <1>27 DEF LeaveCanvas
<1>28. CASE ReloadAgents BY <1>28 DEF ReloadAgents
<1>29. CASE Quit BY <1>29 DEF Quit
<1>30. ASSUME NEW c \in BashCalls, EnterBash(c) PROVE LockInv' BY <1>30 DEF EnterBash
<1>31. CASE LoadingCleared BY <1>31 DEF LoadingCleared
<1>32. CASE UNCHANGED vars BY <1>32 DEF vars
<1>33. CASE LeaveApiKey BY <1>33 DEF LeaveApiKey
<1> QED
   BY <1>1, <1>2, <1>3, <1>4, <1>5, <1>6, <1>7, <1>8, <1>9, <1>10, <1>11, <1>12, <1>13, <1>14,
    <1>15, <1>16, <1>17, <1>18, <1>19, <1>20, <1>21, <1>22, <1>23, <1>24, <1>25, <1>26, <1>27,
    <1>28, <1>29, <1>30, <1>31, <1>32, <1>33, Steps

\* Host::shutdown takes the registry only when no turn and no `/bash` is in a call, whatever
\* waits for the mutex and in whatever order it is granted.
THEOREM RegistryOutlives == Spec => []RegistryOutlivesCalls
<1>1. Init => LockInv
  BY CallsAssumption DEF Init, LockInv, RegistryOutlivesCalls, Dispatched, Calls
<1>2. LockInv => RegistryOutlivesCalls
  BY DEF LockInv
<1> QED BY <1>1, <1>2, TypeInit, TypeStep, LockStep, PTL DEF Spec

-----------------------------------------------------------------------------
(* One call at a time.                                                     *)

\* Until jobs overlap at most one call is in progress. The call of `/bash` that the main
\* loop is about to start has not begun.
AloneInv ==
    /\ ~overlap => \A c, d \in InProgress : c = d
    /\ \A c \in BashCalls : main = [at |-> "bash", call |-> c] => pc[c] = "idle"

\* A call starts alone, or jobs overlap.
LEMMA StartsAlone == ASSUME MayStart, ~overlap PROVE InProgress = {}
<1>1. IsFiniteSet(InProgress)
  BY CallsAssumption, FS_Subset DEF InProgress
<1>2. Cardinality(InProgress) \in Nat
  BY <1>1, FS_CardinalityType
<1>3. Cardinality(InProgress) = 0
  BY <1>2 DEF MayStart
<1> QED BY <1>1, <1>3, FS_EmptySet

\* Every step keeps it.
LEMMA AloneStep == ASSUME Typed, AloneInv, [Next]_vars PROVE AloneInv'
<1> USE CallsAssumption DEF Typed, TypeOK, AloneInv, InProgress, Goto, At,
        callVars, oneshots, locks, policy, tuiVars, inputs
<1>c. TurnCalls \subseteq Calls /\ BashCalls \subseteq Calls /\ SubCalls \subseteq Calls
  BY DEF Calls
<1>1. ASSUME NEW c \in TurnCalls, StartTurnCall(c) PROVE AloneInv'
   BY <1>1, <1>c, StartsAlone DEF StartTurnCall
<1>2. ASSUME NEW c \in SubCalls, StartSubCall(c) PROVE AloneInv'
   BY <1>2, <1>c, StartsAlone DEF StartSubCall
<1>3. ASSUME NEW c \in Calls, GateByRule(c) PROVE AloneInv' BY <1>3 DEF GateByRule
<1>4. ASSUME NEW c \in Calls, Ask(c) PROVE AloneInv' BY <1>4 DEF Ask, Prompt
<1>5. ASSUME NEW c \in Calls, GetPermission(c) PROVE AloneInv' BY <1>5 DEF GetPermission
<1>6. ASSUME NEW c \in Calls, Snapshot(c) PROVE AloneInv' BY <1>6 DEF Snapshot
<1>7. ASSUME NEW c \in Calls, PreToolGate(c) PROVE AloneInv'
  <2>1. pc[c] = "hooks" /\ c \in InProgress /\ UNCHANGED <<main, overlap>>
    BY <1>7 DEF PreToolGate
  <2>2. \A d \in Calls \ {c} : pc'[d] = pc[d]
    BY <1>7 DEF PreToolGate
  <2>3. InProgress' \subseteq InProgress
    BY <2>1, <2>2
  <2>4. \A d \in BashCalls : main = [at |-> "bash", call |-> d] => d # c
    BY <2>1
  <2> QED BY <1>c, <2>1, <2>2, <2>3, <2>4
<1>8. ASSUME NEW c \in Calls, Lock(c) PROVE AloneInv' BY <1>8 DEF Lock
<1>9. ASSUME NEW c \in Calls, LockNothing(c) PROVE AloneInv' BY <1>9 DEF LockNothing
<1>10. ASSUME NEW c \in Calls, ResolveNoPrompt(c) PROVE AloneInv' BY <1>10 DEF ResolveNoPrompt
<1>11. ASSUME NEW c \in Calls, AskNetwork(c) PROVE AloneInv' BY <1>11 DEF AskNetwork, Prompt
<1>12. ASSUME NEW c \in Calls, AskNetworkRefused(c) PROVE AloneInv'
   BY <1>12 DEF AskNetworkRefused
<1>13. ASSUME NEW c \in Calls, GetChoice(c) PROVE AloneInv' BY <1>13 DEF GetChoice
<1>14. ASSUME NEW c \in Calls, Slot(c) PROVE AloneInv' BY <1>14 DEF Slot
<1>15. ASSUME NEW c \in Calls, Respawn(c) PROVE AloneInv' BY <1>15 DEF Respawn, Setting
<1>16. ASSUME NEW c \in Calls, RespawnFails(c) PROVE AloneInv' BY <1>16 DEF RespawnFails, Return
<1>17. ASSUME NEW c \in Calls, Finish(c) PROVE AloneInv' BY <1>17 DEF Finish, Return
<1>18. ASSUME NEW r \in Calls \X Choices, ResolveNetwork(r) PROVE AloneInv'
   BY <1>18 DEF ResolveNetwork
<1>19. ASSUME NEW d \in Decisions, NEW persist \in BOOLEAN, AnswerPermission(d, persist) PROVE AloneInv'
   BY <1>19 DEF AnswerPermission
<1>20. ASSUME NEW ch \in Choices, AnswerNetwork(ch) PROVE AloneInv' BY <1>20 DEF AnswerNetwork
<1>21. ASSUME NEW p \in Prompts, Show(p) PROVE AloneInv' BY <1>21 DEF Show
<1>22. ASSUME NEW c \in BashCalls, StartBash(c) PROVE AloneInv' BY <1>22, <1>c DEF StartBash
<1>23. CASE Reloaded BY <1>23 DEF Reloaded
<1>24. CASE Shutdown BY <1>24 DEF Shutdown
<1>25. CASE ServersClosed BY <1>25 DEF ServersClosed
<1>26. ASSUME NEW name \in {"canvas", "api_key"}, TakeOver(name) PROVE AloneInv'
   BY <1>26 DEF TakeOver
<1>27. CASE LeaveCanvas BY <1>27 DEF LeaveCanvas
<1>28. CASE ReloadAgents BY <1>28 DEF ReloadAgents, Looping
<1>29. CASE Quit BY <1>29 DEF Quit, Looping
<1>30. ASSUME NEW c \in BashCalls, EnterBash(c) PROVE AloneInv'
   BY <1>30, <1>c, StartsAlone DEF EnterBash, Looping
<1>31. CASE LoadingCleared BY <1>31 DEF LoadingCleared, Looping
<1>32. CASE UNCHANGED vars BY <1>32 DEF vars
<1>33. CASE LeaveApiKey BY <1>33 DEF LeaveApiKey
<1> QED
   BY <1>1, <1>2, <1>3, <1>4, <1>5, <1>6, <1>7, <1>8, <1>9, <1>10, <1>11, <1>12, <1>13, <1>14,
    <1>15, <1>16, <1>17, <1>18, <1>19, <1>20, <1>21, <1>22, <1>23, <1>24, <1>25, <1>26, <1>27,
    <1>28, <1>29, <1>30, <1>31, <1>32, <1>33, Steps

-----------------------------------------------------------------------------
(* The network.                                                            *)

\* What NetworkAsGranted says of a call, from the moment it is decided.
Granted(c) ==
    /\ allow_net[c] =>
         \/ over[c] = "allow"
         \/ over[c] = "inherit" /\ choice[c] \in {"once", "always"}
         \/ over[c] = "inherit" /\ bash_network_decision = "allow"
    /\ choice[c] \in {"deny_once", "deny_always"} => overlap \/ ~allow_net[c]

\* An answer arrives only while its call waits for it, and while no job overlaps nobody
\* else fills the cache meanwhile.
GrantInv ==
    /\ \A c \in Calls : pc[c] = "net" =>
         over[c] = "inherit" /\ (overlap \/ bash_network_decision = "none")
    /\ \A c \in pending_bash_network : pc[c] = "net" /\ choice[c] = "none"
    /\ \A c \in Calls : pc[c] \notin {"net", "slot", "spawn", "run"} => choice[c] = "none"
    /\ \A c \in Calls \ PlainCalls : pc[c] \in {"slot", "spawn", "run"} => Granted(c)
    /\ \A c \in Calls \ PlainCalls : pc[c] = "run" => server = Setting(c)

\* Every step keeps it.
LEMMA GrantStep == ASSUME Typed, LockInv, AloneInv, GrantInv, [Next]_vars PROVE GrantInv'
<1> USE CallsAssumption DEF Typed, TypeOK, GrantInv, Granted, Setting, Goto, Calls, callVars,
        oneshots, locks, policy, tuiVars, inputs
<1>1. ASSUME NEW c \in TurnCalls, StartTurnCall(c) PROVE GrantInv' BY <1>1 DEF StartTurnCall
<1>2. ASSUME NEW c \in SubCalls, StartSubCall(c) PROVE GrantInv' BY <1>2 DEF StartSubCall
<1>3. ASSUME NEW c \in Calls, GateByRule(c) PROVE GrantInv' BY <1>3 DEF GateByRule
<1>4. ASSUME NEW c \in Calls, Ask(c) PROVE GrantInv' BY <1>4 DEF Ask, Prompt
<1>5. ASSUME NEW c \in Calls, GetPermission(c) PROVE GrantInv' BY <1>5 DEF GetPermission
<1>6. ASSUME NEW c \in Calls, Snapshot(c) PROVE GrantInv' BY <1>6 DEF Snapshot
<1>7. ASSUME NEW c \in Calls, PreToolGate(c) PROVE GrantInv' BY <1>7 DEF PreToolGate
<1>8. ASSUME NEW c \in Calls, Lock(c) PROVE GrantInv' BY <1>8 DEF Lock
<1>9. ASSUME NEW c \in Calls, LockNothing(c) PROVE GrantInv' BY <1>9 DEF LockNothing
<1>10. ASSUME NEW c \in Calls, ResolveNoPrompt(c) PROVE GrantInv'
  <2>1. /\ pc[c] = "resolve" /\ choice[c] = "none" /\ pc' = [pc EXCEPT ![c] = "slot"]
        /\ UNCHANGED <<over, oneshots, locks, policy, inputs>>
    BY <1>10 DEF ResolveNoPrompt
  <2>2. CASE over[c] # "inherit" /\ allow_net' = [allow_net EXCEPT ![c] = over[c] = "allow"]
    BY <2>1, <2>2
  <2>3. CASE /\ over[c] = "inherit" /\ bash_network_decision # "none"
             /\ allow_net' = [allow_net EXCEPT ![c] = bash_network_decision = "allow"]
    BY <2>1, <2>3
  <2> QED BY <1>10, <2>2, <2>3 DEF ResolveNoPrompt
<1>11. ASSUME NEW c \in Calls, AskNetwork(c) PROVE GrantInv' BY <1>11 DEF AskNetwork, Prompt
<1>12. ASSUME NEW c \in Calls, AskNetworkRefused(c) PROVE GrantInv'
   BY <1>12 DEF AskNetworkRefused
<1>13. ASSUME NEW c \in Calls, GetChoice(c) PROVE GrantInv'
  <2>1. /\ pc[c] = "net" /\ choice[c] \in Choices /\ over[c] = "inherit"
        /\ UNCHANGED <<over, choice, pending_bash_network, overlap, server>>
        /\ pc' = [pc EXCEPT ![c] = "slot"]
    BY <1>13 DEF GetChoice
  <2>2. \A d \in Calls \ {c} : pc'[d] = pc[d] /\ allow_net'[d] = allow_net[d]
    BY <1>13 DEF GetChoice
  <2>3. bash_network_decision = "allow" => bash_network_decision' = "allow"
    BY <1>13 DEF GetChoice
  <2>4. ~overlap => \A d \in Calls \ {c} : pc[d] # "net"
    BY <2>1 DEF AloneInv, InProgress
  <2>5. Granted(c)'
    <3>1. CASE /\ bash_network_decision # "none"
               /\ allow_net' = [allow_net EXCEPT ![c] = bash_network_decision = "allow"]
               /\ UNCHANGED bash_network_decision
      BY <2>1, <3>1
    <3>2. CASE /\ bash_network_decision = "none"
               /\ allow_net' = [allow_net EXCEPT ![c] = choice[c] \in {"once", "always"}]
      BY <2>1, <3>2
    <3> QED BY <1>13, <3>1, <3>2 DEF GetChoice
  <2>6. \A d \in Calls \ PlainCalls : d # c /\ pc[d] \in {"slot", "spawn", "run"} => Granted(d)'
    BY <2>1, <2>2, <2>3
  <2>7. \A d \in Calls : pc'[d] = "net" =>
          over'[d] = "inherit" /\ (overlap' \/ bash_network_decision' = "none")
    BY <2>1, <2>2, <2>4
  <2>8. \A d \in pending_bash_network' : pc'[d] = "net" /\ choice'[d] = "none"
    BY <1>13, <2>1, <2>2 DEF GetChoice
  <2>9. \A d \in Calls \ PlainCalls : pc'[d] = "run" => server' = Setting(d)'
    BY <2>1, <2>2
  <2>10. \A d \in Calls : pc'[d] \notin {"net", "slot", "spawn", "run"} => choice'[d] = "none"
    BY <2>1, <2>2
  <2> HIDE DEF Granted
  <2>11. \A d \in Calls \ PlainCalls : pc'[d] \in {"slot", "spawn", "run"} => Granted(d)'
    BY <2>2, <2>5, <2>6
  <2> QED BY <2>7, <2>8, <2>9, <2>10, <2>11
<1>14. ASSUME NEW c \in Calls, Slot(c) PROVE GrantInv' BY <1>14 DEF Slot
<1>15. ASSUME NEW c \in Calls, Respawn(c) PROVE GrantInv'
  <2>1. /\ pc[c] = "spawn" /\ server' = Setting(c) /\ pc' = [pc EXCEPT ![c] = "run"]
        /\ UNCHANGED <<over, allow_net, oneshots, policy, inputs>>
    BY <1>15 DEF Respawn
  <2>2. \A d \in Calls \ PlainCalls : d # c => pc[d] # "run"
    BY <2>1 DEF LockInv, Dispatched
  <2> QED BY <2>1, <2>2
<1>16. ASSUME NEW c \in Calls, RespawnFails(c) PROVE GrantInv' BY <1>16 DEF RespawnFails, Return
<1>17. ASSUME NEW c \in Calls, Finish(c) PROVE GrantInv' BY <1>17 DEF Finish, Return
<1>18. ASSUME NEW r \in Calls \X Choices, ResolveNetwork(r) PROVE GrantInv'
  <2>1. CASE r[1] \in pending_bash_network
    BY <1>18, <2>1 DEF ResolveNetwork
  <2>2. CASE r[1] \notin pending_bash_network
    BY <1>18, <2>2 DEF ResolveNetwork
  <2> QED BY <2>1, <2>2
<1>19. ASSUME NEW d \in Decisions, NEW persist \in BOOLEAN, AnswerPermission(d, persist) PROVE GrantInv'
   BY <1>19 DEF AnswerPermission
<1>20. ASSUME NEW ch \in Choices, AnswerNetwork(ch) PROVE GrantInv' BY <1>20 DEF AnswerNetwork
<1>21. ASSUME NEW p \in Prompts, Show(p) PROVE GrantInv' BY <1>21 DEF Show
<1>22. ASSUME NEW c \in BashCalls, StartBash(c) PROVE GrantInv' BY <1>22 DEF StartBash, AloneInv
<1>23. CASE Reloaded BY <1>23 DEF Reloaded
<1>24. CASE Shutdown BY <1>24 DEF Shutdown
<1>25. CASE ServersClosed BY <1>25 DEF ServersClosed
<1>26. ASSUME NEW name \in {"canvas", "api_key"}, TakeOver(name) PROVE GrantInv'
   BY <1>26 DEF TakeOver
<1>27. CASE LeaveCanvas BY <1>27 DEF LeaveCanvas
<1>28. CASE ReloadAgents BY <1>28 DEF ReloadAgents
<1>29. CASE Quit BY <1>29 DEF Quit
<1>30. ASSUME NEW c \in BashCalls, EnterBash(c) PROVE GrantInv' BY <1>30 DEF EnterBash
<1>31. CASE LoadingCleared BY <1>31 DEF LoadingCleared
<1>32. CASE UNCHANGED vars BY <1>32 DEF vars
<1>33. CASE LeaveApiKey BY <1>33 DEF LeaveApiKey
<1> QED
   BY <1>1, <1>2, <1>3, <1>4, <1>5, <1>6, <1>7, <1>8, <1>9, <1>10, <1>11, <1>12, <1>13, <1>14,
    <1>15, <1>16, <1>17, <1>18, <1>19, <1>20, <1>21, <1>22, <1>23, <1>24, <1>25, <1>26, <1>27,
    <1>28, <1>29, <1>30, <1>31, <1>32, <1>33, Steps

\* The invariants hold at first.
LEMMA InvInit == ASSUME Init PROVE LockInv /\ AloneInv /\ GrantInv
<1>1. LockInv
  BY CallsAssumption DEF Init, LockInv, RegistryOutlivesCalls, Dispatched, Calls
<1>2. AloneInv
  BY CallsAssumption DEF Init, AloneInv, InProgress, At
<1>3. GrantInv
  BY DEF Init, GrantInv
<1> QED BY <1>1, <1>2, <1>3

\* Commands run on a server of the setting that was granted to them, whatever calls share
\* and respawn it, fail half way, or answer one another's prompts.
THEOREM NetworkGranted == Spec => []NetworkAsGranted
<1>1. LockInv /\ GrantInv => NetworkAsGranted
  BY DEF LockInv, GrantInv, Granted, NetworkAsGranted
<1> QED BY <1>1, InvInit, TypeInit, TypeStep, LockStep, AloneStep, GrantStep, PTL DEF Spec

-----------------------------------------------------------------------------
(* The prompts.                                                            *)

\* The permission oneshot of a call is in the map only while the call waits for it.
AskedInv ==
    /\ \A c \in pending : pc[c] = "asked" /\ reply[c] = "none"
    /\ \A c \in Calls : pc[c] # "asked" => reply[c] = "none"

\* Every step keeps it.
LEMMA AskedStep == ASSUME Typed, AskedInv, [Next]_vars PROVE AskedInv'
<1> USE CallsAssumption DEF Typed, TypeOK, AskedInv, Goto, Calls, callVars, oneshots, locks,
        policy, tuiVars, inputs
<1>1. ASSUME NEW c \in TurnCalls, StartTurnCall(c) PROVE AskedInv' BY <1>1 DEF StartTurnCall
<1>2. ASSUME NEW c \in SubCalls, StartSubCall(c) PROVE AskedInv' BY <1>2 DEF StartSubCall
<1>3. ASSUME NEW c \in Calls, GateByRule(c) PROVE AskedInv' BY <1>3 DEF GateByRule
<1>4. ASSUME NEW c \in Calls, Ask(c) PROVE AskedInv' BY <1>4 DEF Ask, Prompt
<1>5. ASSUME NEW c \in Calls, GetPermission(c) PROVE AskedInv' BY <1>5 DEF GetPermission
<1>6. ASSUME NEW c \in Calls, Snapshot(c) PROVE AskedInv' BY <1>6 DEF Snapshot
<1>7. ASSUME NEW c \in Calls, PreToolGate(c) PROVE AskedInv' BY <1>7 DEF PreToolGate
<1>8. ASSUME NEW c \in Calls, Lock(c) PROVE AskedInv' BY <1>8 DEF Lock
<1>9. ASSUME NEW c \in Calls, LockNothing(c) PROVE AskedInv' BY <1>9 DEF LockNothing
<1>10. ASSUME NEW c \in Calls, ResolveNoPrompt(c) PROVE AskedInv' BY <1>10 DEF ResolveNoPrompt
<1>11. ASSUME NEW c \in Calls, AskNetwork(c) PROVE AskedInv' BY <1>11 DEF AskNetwork, Prompt
<1>12. ASSUME NEW c \in Calls, AskNetworkRefused(c) PROVE AskedInv'
   BY <1>12 DEF AskNetworkRefused
<1>13. ASSUME NEW c \in Calls, GetChoice(c) PROVE AskedInv' BY <1>13 DEF GetChoice
<1>14. ASSUME NEW c \in Calls, Slot(c) PROVE AskedInv' BY <1>14 DEF Slot
<1>15. ASSUME NEW c \in Calls, Respawn(c) PROVE AskedInv' BY <1>15 DEF Respawn, Setting
<1>16. ASSUME NEW c \in Calls, RespawnFails(c) PROVE AskedInv' BY <1>16 DEF RespawnFails, Return
<1>17. ASSUME NEW c \in Calls, Finish(c) PROVE AskedInv' BY <1>17 DEF Finish, Return
<1>18. ASSUME NEW r \in Calls \X Choices, ResolveNetwork(r) PROVE AskedInv'
   BY <1>18 DEF ResolveNetwork
<1>19. ASSUME NEW d \in Decisions, NEW persist \in BOOLEAN, AnswerPermission(d, persist) PROVE AskedInv'
   BY <1>19 DEF AnswerPermission
<1>20. ASSUME NEW ch \in Choices, AnswerNetwork(ch) PROVE AskedInv' BY <1>20 DEF AnswerNetwork
<1>21. ASSUME NEW p \in Prompts, Show(p) PROVE AskedInv' BY <1>21 DEF Show
<1>22. ASSUME NEW c \in BashCalls, StartBash(c) PROVE AskedInv' BY <1>22 DEF StartBash
<1>23. CASE Reloaded BY <1>23 DEF Reloaded
<1>24. CASE Shutdown BY <1>24 DEF Shutdown
<1>25. CASE ServersClosed BY <1>25 DEF ServersClosed
<1>26. ASSUME NEW name \in {"canvas", "api_key"}, TakeOver(name) PROVE AskedInv'
   BY <1>26 DEF TakeOver
<1>27. CASE LeaveCanvas BY <1>27 DEF LeaveCanvas
<1>28. CASE ReloadAgents BY <1>28 DEF ReloadAgents
<1>29. CASE Quit BY <1>29 DEF Quit
<1>30. ASSUME NEW c \in BashCalls, EnterBash(c) PROVE AskedInv' BY <1>30 DEF EnterBash
<1>31. CASE LoadingCleared BY <1>31 DEF LoadingCleared
<1>32. CASE UNCHANGED vars BY <1>32 DEF vars
<1>33. CASE LeaveApiKey BY <1>33 DEF LeaveApiKey
<1> QED
   BY <1>1, <1>2, <1>3, <1>4, <1>5, <1>6, <1>7, <1>8, <1>9, <1>10, <1>11, <1>12, <1>13, <1>14,
    <1>15, <1>16, <1>17, <1>18, <1>19, <1>20, <1>21, <1>22, <1>23, <1>24, <1>25, <1>26, <1>27,
    <1>28, <1>29, <1>30, <1>31, <1>32, <1>33, Steps

\* The prompts for a permission: on their way or on the screen, never both, and the call
\* still waits.
PermissionPrompts ==
    /\ \A c \in Calls : Prompt("permission", c) \in inbox =>
         pc[c] = "asked" /\ reply[c] = "none" /\ pending_permission # c
    /\ \A c \in Calls : pending_permission = c => pc[c] = "asked" /\ reply[c] = "none"

\* The same for the network. An answer in flight is not for a call that has yet to ask.
NetworkPrompts ==
    /\ \A c \in Calls : Prompt("network", c) \in inbox =>
         /\ pc[c] = "net" /\ choice[c] = "none" /\ input_mode # Prompt("network", c)
         /\ \A ch \in Choices : <<c, ch>> \notin resolving
    /\ \A c \in Calls : input_mode = Prompt("network", c) =>
         /\ pc[c] = "net" /\ choice[c] = "none"
         /\ \A ch \in Choices : <<c, ch>> \notin resolving
    /\ \A c \in Calls, ch \in Choices :
         <<c, ch>> \in resolving => pc[c] \in {"net", "slot", "spawn", "run", "done"}

\* They hold while no modal is displaced.
PromptInv == Displaced \/ Quitting \/ (PermissionPrompts /\ NetworkPrompts /\ PromptIsReachable)

\* A call that waits is not displaced by the prompt of another call.
LEMMA OneWaits ==
    ASSUME AloneInv, ~overlap, NEW c \in Calls, NEW d \in Calls,
           pc[c] \in {"asked", "net"}, pc[d] \in {"asked", "net"}
    PROVE  c = d
BY DEF AloneInv, InProgress

\* Every step keeps it.
LEMMA PromptStep ==
    ASSUME Typed, AloneInv, GrantInv, AskedInv, PromptInv, [Next]_vars
    PROVE  PromptInv'
<1> USE CallsAssumption DEF Typed, TypeOK, PromptInv, PermissionPrompts, NetworkPrompts,
        PromptIsReachable, Displaced, Quitting, Looping, At, Prompt, Mode, Goto, Calls,
        callVars, oneshots, locks, policy, tuiVars, inputs
<1>1. ASSUME NEW c \in TurnCalls, StartTurnCall(c) PROVE PromptInv' BY <1>1 DEF StartTurnCall
<1>2. ASSUME NEW c \in SubCalls, StartSubCall(c) PROVE PromptInv' BY <1>2 DEF StartSubCall
<1>3. ASSUME NEW c \in Calls, GateByRule(c) PROVE PromptInv' BY <1>3 DEF GateByRule
<1>4. ASSUME NEW c \in Calls, Ask(c) PROVE PromptInv' BY <1>4 DEF Ask, Prompt, AskedInv
<1>5. ASSUME NEW c \in Calls, GetPermission(c) PROVE PromptInv'
   BY <1>5 DEF GetPermission, AskedInv
<1>6. ASSUME NEW c \in Calls, Snapshot(c) PROVE PromptInv' BY <1>6 DEF Snapshot
<1>7. ASSUME NEW c \in Calls, PreToolGate(c) PROVE PromptInv' BY <1>7 DEF PreToolGate
<1>8. ASSUME NEW c \in Calls, Lock(c) PROVE PromptInv' BY <1>8 DEF Lock
<1>9. ASSUME NEW c \in Calls, LockNothing(c) PROVE PromptInv' BY <1>9 DEF LockNothing
<1>10. ASSUME NEW c \in Calls, ResolveNoPrompt(c) PROVE PromptInv' BY <1>10 DEF ResolveNoPrompt
<1>11. ASSUME NEW c \in Calls, AskNetwork(c) PROVE PromptInv'
   BY <1>11 DEF AskNetwork, Prompt, GrantInv
<1>12. ASSUME NEW c \in Calls, AskNetworkRefused(c) PROVE PromptInv'
   BY <1>12 DEF AskNetworkRefused
<1>13. ASSUME NEW c \in Calls, GetChoice(c) PROVE PromptInv'
  <2> SUFFICES ASSUME ~Displaced', ~Quitting'
               PROVE  PermissionPrompts' /\ NetworkPrompts' /\ PromptIsReachable'
    OBVIOUS
  <2>1. ~Displaced /\ ~Quitting /\ PermissionPrompts /\ NetworkPrompts /\ PromptIsReachable
    BY <1>13 DEF GetChoice
  <2>2. PermissionPrompts'
    BY <1>13, <2>1 DEF GetChoice
  <2>3. NetworkPrompts'
    BY <1>13, <2>1 DEF GetChoice, GrantInv
  <2>4. PromptIsReachable'
    BY <1>13, <2>1 DEF GetChoice
  <2> QED BY <2>2, <2>3, <2>4
<1>14. ASSUME NEW c \in Calls, Slot(c) PROVE PromptInv' BY <1>14 DEF Slot
<1>15. ASSUME NEW c \in Calls, Respawn(c) PROVE PromptInv' BY <1>15 DEF Respawn, Setting
<1>16. ASSUME NEW c \in Calls, RespawnFails(c) PROVE PromptInv'
   BY <1>16 DEF RespawnFails, Return
<1>17. ASSUME NEW c \in Calls, Finish(c) PROVE PromptInv' BY <1>17 DEF Finish, Return
<1>18. ASSUME NEW r \in Calls \X Choices, ResolveNetwork(r) PROVE PromptInv'
  <2> SUFFICES ASSUME ~Displaced', ~Quitting'
               PROVE  PermissionPrompts' /\ NetworkPrompts' /\ PromptIsReachable'
    OBVIOUS
  <2>1. ~Displaced /\ ~Quitting /\ PermissionPrompts /\ NetworkPrompts /\ PromptIsReachable
    BY <1>18 DEF ResolveNetwork
  <2>2. PermissionPrompts'
    BY <1>18, <2>1 DEF ResolveNetwork
  <2>3. NetworkPrompts'
    BY <1>18, <2>1 DEF ResolveNetwork
  <2>4. PromptIsReachable'
    <3>1. r[1] \in Calls /\ r[2] \in Choices /\ r[2] # "none" /\ r = <<r[1], r[2]>>
      BY DEF Choices
    <3>2. /\ UNCHANGED <<pc, reply, pending, inbox, input_mode, pending_permission>>
          /\ \A d \in Calls \ {r[1]} :
               /\ choice'[d] = choice[d]
               /\ d \in pending_bash_network => d \in pending_bash_network'
               /\ \A ch \in Choices : <<d, ch>> \in resolving => <<d, ch>> \in resolving'
      BY <1>18, <3>1 DEF ResolveNetwork
    <3>3. choice[r[1]] = "none" /\ pc[r[1]] = "net" => choice'[r[1]] # "none"
      BY <1>18, <2>1, <3>1 DEF ResolveNetwork
    <3>4. choice[r[1]] # "none" => choice'[r[1]] # "none"
      BY <1>18, <3>1 DEF ResolveNetwork
    <3> QED BY <2>1, <3>1, <3>2, <3>3, <3>4
  <2> QED BY <2>2, <2>3, <2>4
<1>19. ASSUME NEW d \in Decisions, NEW persist \in BOOLEAN, AnswerPermission(d, persist) PROVE PromptInv'
  <2> SUFFICES ASSUME ~Displaced', ~Quitting'
               PROVE  PermissionPrompts' /\ NetworkPrompts' /\ PromptIsReachable'
    OBVIOUS
  <2>1. ~Displaced /\ ~Quitting /\ PermissionPrompts /\ NetworkPrompts /\ PromptIsReachable
    BY <1>19 DEF AnswerPermission
  <2>2. PermissionPrompts'
    BY <1>19, <2>1 DEF AnswerPermission
  <2>3. NetworkPrompts'
    BY <1>19, <2>1 DEF AnswerPermission
  <2>4. PromptIsReachable'
    <3>1. /\ UNCHANGED <<pc, choice, pending_bash_network, inbox, resolving>>
          /\ input_mode = Mode("permission")
          /\ \A e \in Calls : e # pending_permission =>
               reply'[e] = reply[e] /\ (e \in pending => e \in pending')
      BY <1>19 DEF AnswerPermission
    <3>2. \A e \in Calls : e = pending_permission => reply'[e] # "none"
      <4> SUFFICES ASSUME NEW e \in Calls, e = pending_permission PROVE reply'[e] # "none"
        OBVIOUS
      <4>1. pc[e] = "asked" /\ reply[e] = "none" /\ e \in pending
        BY <2>1
      <4>2. reply'[e] = d /\ d # "none"
        BY <1>19, <4>1 DEF AnswerPermission, Decisions
      <4> QED BY <4>2
    <3> QED BY <2>1, <3>1, <3>2
  <2> QED BY <2>2, <2>3, <2>4
<1>20. ASSUME NEW ch \in Choices, AnswerNetwork(ch) PROVE PromptInv'
  <2> SUFFICES ASSUME ~Displaced', ~Quitting'
               PROVE  PermissionPrompts' /\ NetworkPrompts' /\ PromptIsReachable'
    OBVIOUS
  <2>1. ~Displaced /\ ~Quitting /\ PermissionPrompts /\ NetworkPrompts /\ PromptIsReachable
    BY <1>20 DEF AnswerNetwork
  <2>2. PermissionPrompts'
    BY <1>20, <2>1 DEF AnswerNetwork
  <2>3. NetworkPrompts'
    <3>1. PICK e \in Calls : input_mode = Prompt("network", e)
      BY <1>20 DEF AnswerNetwork, Modes
    <3>2. /\ UNCHANGED <<pc, choice, inbox>> /\ input_mode' = Mode("editing")
          /\ resolving' = resolving \cup {<<e, ch>>}
      BY <1>20, <3>1 DEF AnswerNetwork
    <3>3. pc[e] = "net" /\ Prompt("network", e) \notin inbox
      BY <2>1, <3>1
    <3> QED BY <2>1, <3>2, <3>3
  <2>4. PromptIsReachable'
    BY <1>20, <2>1 DEF AnswerNetwork
  <2> QED BY <2>2, <2>3, <2>4
<1>21. ASSUME NEW p \in Prompts, Show(p) PROVE PromptInv'
  <2> SUFFICES ASSUME ~Displaced', ~Quitting'
               PROVE  PermissionPrompts' /\ NetworkPrompts' /\ PromptIsReachable'
    OBVIOUS
  <2>1. ~Displaced /\ ~Quitting /\ PermissionPrompts /\ NetworkPrompts /\ PromptIsReachable
    <3>1. UNCHANGED <<overlap, displaced, main>>
      BY <1>21 DEF Show
    <3> QED BY <3>1
  <2>2. PermissionPrompts'
    BY <1>21, <2>1, OneWaits DEF Show, Prompts
  <2>3. NetworkPrompts'
    BY <1>21, <2>1, OneWaits DEF Show, Prompts
  <2>4. PromptIsReachable'
    BY <1>21, <2>1, OneWaits DEF Show, Prompts
  <2> QED BY <2>2, <2>3, <2>4
<1>22. ASSUME NEW c \in BashCalls, StartBash(c) PROVE PromptInv'
   BY <1>22 DEF StartBash, AloneInv
<1>23. CASE Reloaded BY <1>23 DEF Reloaded
<1>24. CASE Shutdown BY <1>24 DEF Shutdown
<1>25. CASE ServersClosed BY <1>25 DEF ServersClosed
<1>26. ASSUME NEW name \in {"canvas", "api_key"}, TakeOver(name) PROVE PromptInv'
  <2> SUFFICES ASSUME ~Displaced', ~Quitting'
               PROVE  PermissionPrompts' /\ NetworkPrompts' /\ PromptIsReachable'
    OBVIOUS
  <2>0. ~PromptUp
    BY <1>26 DEF TakeOver
  <2>1. ~Displaced /\ ~Quitting /\ PermissionPrompts /\ NetworkPrompts /\ PromptIsReachable
    BY <1>26 DEF TakeOver
  <2>2. PermissionPrompts'
    BY <1>26, <2>1 DEF TakeOver
  <2>3. NetworkPrompts'
    BY <1>26, <2>1 DEF TakeOver
  <2>4. PromptIsReachable'
    <3>1. \A c \in Calls : input_mode # Mode("permission") /\ input_mode # Prompt("network", c)
      BY <2>0 DEF PromptUp
    <3>2. UNCHANGED <<pc, reply, choice, pending, pending_bash_network, inbox, resolving>>
      BY <1>26 DEF TakeOver
    <3> QED BY <2>1, <3>1, <3>2
  <2> QED BY <2>2, <2>3, <2>4
<1>27. CASE LeaveCanvas BY <1>27 DEF LeaveCanvas
<1>28. CASE ReloadAgents BY <1>28 DEF ReloadAgents
<1>29. CASE Quit BY <1>29 DEF Quit
<1>30. ASSUME NEW c \in BashCalls, EnterBash(c) PROVE PromptInv' BY <1>30 DEF EnterBash
<1>31. CASE LoadingCleared BY <1>31 DEF LoadingCleared
<1>32. CASE UNCHANGED vars BY <1>32 DEF vars
<1>33. CASE LeaveApiKey BY <1>33 DEF LeaveApiKey
<1> HIDE DEF PromptInv
<1> QED
   BY <1>1, <1>2, <1>3, <1>4, <1>5, <1>6, <1>7, <1>8, <1>9, <1>10, <1>11, <1>12, <1>13, <1>14,
    <1>15, <1>16, <1>17, <1>18, <1>19, <1>20, <1>21, <1>22, <1>23, <1>24, <1>25, <1>26, <1>27,
    <1>28, <1>29, <1>30, <1>31, <1>32, <1>33, Steps

\* They hold at first.
LEMMA PromptInit == ASSUME Init PROVE AskedInv /\ PromptInv
<1> USE CallsAssumption DEF Init
<1>1. AskedInv
  BY DEF AskedInv
<1>2. PromptInv
  BY DEF PromptInv, PermissionPrompts, NetworkPrompts, PromptIsReachable, Prompt, Mode
<1> QED BY <1>1, <1>2

\* While nothing displaces a modal that is up, every call that waits for the user can be
\* answered: its prompt is queued or shown, or its answer is under way.
THEOREM PromptReachable == Spec => []PromptIsReachable
<1>1. PromptInv => PromptIsReachable
  BY DEF PromptInv, PromptIsReachable
<1> QED
   BY <1>1, PromptInit, InvInit, TypeInit, TypeStep, LockStep, AloneStep, GrantStep, AskedStep, PromptStep,
    PTL DEF Spec

-----------------------------------------------------------------------------
(* Who waits for whom.                                                     *)

\* The next step of a call needs no mutex that another call holds, and no answer.
CanGo(c) ==
    \/ pc[c] \in {"gate", "hooks", "resolve", "spawn", "run"}
    \/ pc[c] = "asked" /\ reply[c] # "none"
    \/ pc[c] \in {"snapshot", "lock"} /\ tools = NoOne
    \/ pc[c] = "net" /\ choice[c] # "none"
    \/ pc[c] = "slot" /\ active = NoOne

\* The call waits for the user: its question is pending, and it is queued or on the screen,
\* or the answer is on the way.
Answerable(c) ==
    \/ /\ pc[c] = "asked" /\ reply[c] = "none" /\ c \in pending
       /\ \/ Prompt("permission", c) \in inbox
          \/ pending_permission = c /\ input_mode = Mode("permission")
    \/ /\ pc[c] = "net" /\ choice[c] = "none" /\ c \in pending_bash_network
       /\ \/ Prompt("network", c) \in inbox \/ input_mode = Prompt("network", c)
          \/ \E ch \in Choices : <<c, ch>> \in resolving

\* The call that holds what c waits for.
WaitsFor(c, d) ==
    \/ pc[c] \in {"snapshot", "lock"} /\ tools = d
    \/ pc[c] = "slot" /\ active = d

\* Calls wait for one another in chains of at most three, never in a circle: the last one
\* can go on or waits for the user. (A call that nobody answers keeps the others waiting.)
NoCircularWait ==
    \A c \in Calls : pc[c] \in {"snapshot", "lock", "slot"} /\ ~CanGo(c) =>
        \E d \in Calls \ {c} :
            /\ WaitsFor(c, d)
            /\ \/ CanGo(d) \/ pc[d] = "net"
               \/ \E e \in Calls \ {c, d} : WaitsFor(d, e) /\ CanGo(e)

\* Unless something disturbs the prompts, a call that waits for the user has a question
\* the user can answer, and the main loop is there to show it and to take the answer.
UserCanAnswer ==
    Undisturbed =>
        /\ \A c \in Calls : pc[c] \in {"asked", "net"} => CanGo(c) \/ (Looping /\ Answerable(c))
        /\ main.at = "bash" => tools = NoOne

\* The permission gate, the tools mutex and the slot of tool-bash never lock one another
\* out, however many calls of turns, of `/bash` and of subagents overlap; and while
\* nothing disturbs the prompts no call and no main loop waits in vain.
THEOREM NoDeadlock == Spec => [](NoCircularWait /\ UserCanAnswer)
<1>1. ASSUME Typed, LockInv PROVE NoCircularWait
  <2> SUFFICES ASSUME NEW c \in Calls, pc[c] \in {"snapshot", "lock", "slot"}, ~CanGo(c)
               PROVE  \E d \in Calls \ {c} :
                         /\ WaitsFor(c, d)
                         /\ \/ CanGo(d) \/ pc[d] = "net"
                            \/ \E e \in Calls \ {c, d} : WaitsFor(d, e) /\ CanGo(e)
    BY DEF NoCircularWait
  <2>1. ASSUME NEW d \in Calls, active = d PROVE CanGo(d) /\ pc[d] \in {"spawn", "run"}
    BY <1>1, <2>1 DEF LockInv, CanGo
  <2>2. CASE pc[c] = "slot"
    <3>1. active \in Calls
      BY <1>1, <2>2 DEF Typed, TypeOK, CanGo
    <3> QED BY <2>1, <2>2, <3>1 DEF WaitsFor
  <2>3. CASE pc[c] \in {"snapshot", "lock"}
    <3>1. PICK d \in Calls : tools = d
      BY <1>1, <2>3 DEF Typed, TypeOK, CanGo
    <3>2. pc[d] \in {"resolve", "net", "slot", "spawn", "run"} /\ d # c /\ WaitsFor(c, d)
      BY <1>1, <2>3, <3>1 DEF LockInv, Dispatched, WaitsFor
    <3>3. CASE pc[d] = "slot" /\ active # NoOne
      <4>1. active \in Calls
        BY <1>1, <3>3 DEF Typed, TypeOK
      <4>2. active # c /\ active # d
        BY <2>1, <2>3, <3>3, <4>1
      <4> QED BY <2>1, <3>2, <3>3, <4>1, <4>2 DEF WaitsFor
    <3>4. CASE ~(pc[d] = "slot" /\ active # NoOne)
      BY <3>2, <3>4 DEF CanGo
    <3> QED BY <3>3, <3>4
  <2> QED BY <2>2, <2>3
<1>2. ASSUME Typed, LockInv, AloneInv, PromptInv PROVE UserCanAnswer
  <2> SUFFICES ASSUME Undisturbed
               PROVE  /\ \A c \in Calls : pc[c] \in {"asked", "net"} =>
                                             CanGo(c) \/ (Looping /\ Answerable(c))
                      /\ main.at = "bash" => tools = NoOne
    BY DEF UserCanAnswer
  <2>1. ~overlap /\ ~displaced /\ ~Quitting /\ main # At("reload")
    BY DEF Undisturbed, Displaced
  <2>2. Looping \/ \E b \in BashCalls : main = [at |-> "bash", call |-> b]
    BY <1>2, <2>1 DEF Typed, TypeOK, MainStates, Looping, Quitting, At
  <2>3. ASSUME NEW b \in BashCalls, main = [at |-> "bash", call |-> b], NEW c \in Calls
        PROVE  pc[c] \in {"idle", "done"}
    <3>1. pc[b] = "idle" /\ b \in Calls
      BY <1>2, <2>3 DEF AloneInv, Calls
    <3>2. b \in InProgress
      BY <2>3, <3>1 DEF InProgress
    <3>3. c \in InProgress => c = b
      BY <1>2, <2>1, <3>2 DEF AloneInv
    <3> QED BY <1>2, <2>3, <3>1, <3>3 DEF InProgress, Typed, TypeOK
  <2>4. ASSUME NEW c \in Calls, pc[c] \in {"asked", "net"} PROVE CanGo(c) \/ Answerable(c)
    <3>1. PromptIsReachable
      BY <1>2 DEF PromptInv, PromptIsReachable
    <3> QED BY <2>1, <2>4, <3>1 DEF PromptIsReachable, Displaced, CanGo, Answerable
  <2>5. main.at = "bash" => tools = NoOne
    <3>1. main.at = "bash" => ~Looping
      BY DEF Looping, At
    <3>2. tools \in Calls => pc[tools] \notin {"idle", "done"}
      BY <1>2 DEF LockInv, Dispatched
    <3> QED BY <1>2, <2>2, <2>3, <3>1, <3>2 DEF Typed, TypeOK
  <2>6. \A c \in Calls : pc[c] \in {"asked", "net"} => Looping
    BY <2>2, <2>3
  <2> QED BY <2>4, <2>5, <2>6
<1> QED
   BY <1>1, <1>2, PromptInit, InvInit, TypeInit, TypeStep, LockStep, AloneStep, GrantStep,
      AskedStep, PromptStep, PTL DEF Spec
=============================================================================
