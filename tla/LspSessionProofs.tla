-------------------------- MODULE LspSessionProofs --------------------------
(***************************************************************************)
(* The sessions of tool-lsp, for any number of calls.                      *)
(***************************************************************************)
EXTENDS LspSession, TLAPS

\* The actions, without the groups the fairness puts them in.
LEMMA Steps ==
    ASSUME Next
    PROVE  \/ \E c \in Callers :
                \/ GetPooled(c) \/ GetNothing(c) \/ Spawn(c) \/ Insert(c) \/ Request(c)
                \/ WriteFails(c) \/ Initialized(c) \/ DidOpen(c) \/ Answered(c)
           \/ \E s \in Sessions :
                \/ RetireRequest(s) \/ RetireAnswered(s) \/ Reap(s) \/ Respond(s)
                \/ ReadEof(s) \/ ReadError(s) \/ ServerDies(s) \/ Drop(s)
           \/ Evict \/ ShutdownAll \/ ProcessEnds
BY DEF Next, CallStep, RetireStep

\* The session a call may spawn is a session.
LEMMA OwnSession == ASSUME NEW c \in Callers PROVE SessionOf[c] \in Sessions
BY DEF Sessions

-----------------------------------------------------------------------------
(* Types.                                                                  *)

\* Every step keeps the types.
LEMMA TypeStep == ASSUME TypeOK, [Next]_vars PROVE TypeOK'
<1> USE SessionsAssumption, OwnSession DEF TypeOK, PC, RetirePC, Requesters, Goto,
        sessionVars, callVars, ownerVars
<1>1. ASSUME NEW c \in Callers, GetPooled(c) PROVE TypeOK' BY <1>1 DEF GetPooled
<1>2. ASSUME NEW c \in Callers, GetNothing(c) PROVE TypeOK' BY <1>2 DEF GetNothing
<1>3. ASSUME NEW c \in Callers, Spawn(c) PROVE TypeOK' BY <1>3 DEF Spawn, Return
<1>4. ASSUME NEW c \in Callers, Insert(c) PROVE TypeOK' BY <1>4 DEF Insert
<1>5. ASSUME NEW c \in Callers, Request(c) PROVE TypeOK' BY <1>5 DEF Request, Using
<1>6. ASSUME NEW c \in Callers, WriteFails(c) PROVE TypeOK'
   BY <1>6 DEF WriteFails, Return, Using
<1>7. ASSUME NEW c \in Callers, Initialized(c) PROVE TypeOK'
   BY <1>7 DEF Initialized, Return, Using
<1>8. ASSUME NEW c \in Callers, DidOpen(c) PROVE TypeOK' BY <1>8 DEF DidOpen, Return, Using
<1>9. ASSUME NEW c \in Callers, Answered(c) PROVE TypeOK' BY <1>9 DEF Answered, Return
<1>10. ASSUME NEW s \in Sessions, RetireRequest(s) PROVE TypeOK'
   BY <1>10 DEF RetireRequest, RetireGoto
<1>11. ASSUME NEW s \in Sessions, RetireAnswered(s) PROVE TypeOK'
   BY <1>11 DEF RetireAnswered, RetireGoto
<1>12. ASSUME NEW s \in Sessions, Reap(s) PROVE TypeOK' BY <1>12 DEF Reap, RetireGoto
<1>13. ASSUME NEW s \in Sessions, Respond(s) PROVE TypeOK' BY <1>13 DEF Respond, Resolve
<1>14. ASSUME NEW s \in Sessions, ReadEof(s) PROVE TypeOK' BY <1>14 DEF ReadEof, DrainPending
<1>15. ASSUME NEW s \in Sessions, ReadError(s) PROVE TypeOK'
   BY <1>15 DEF ReadError, DrainPending
<1>16. ASSUME NEW s \in Sessions, ServerDies(s) PROVE TypeOK' BY <1>16 DEF ServerDies
<1>17. ASSUME NEW s \in Sessions, Drop(s) PROVE TypeOK' BY <1>17 DEF Drop
<1>18. CASE Evict BY <1>18 DEF Evict, RetireGoto
<1>19. CASE ShutdownAll BY <1>19 DEF ShutdownAll
<1>20. CASE ProcessEnds BY <1>20 DEF ProcessEnds
<1>21. CASE UNCHANGED vars BY <1>21 DEF vars
<1> QED
   BY <1>1, <1>2, <1>3, <1>4, <1>5, <1>6, <1>7, <1>8, <1>9, <1>10, <1>11,
    <1>12, <1>13, <1>14, <1>15, <1>16, <1>17, <1>18, <1>19, <1>20, <1>21, Steps

\* The types hold at first.
LEMMA TypeInit == ASSUME Init PROVE TypeOK
BY DEF Init, TypeOK, PC, RetirePC, Requesters

\* The sessions and the calls keep their types.
THEOREM Typing == Spec => []TypeOK
BY TypeInit, TypeStep, PTL DEF Spec

-----------------------------------------------------------------------------
(* The end of a session.                                                   *)

\* A server that has not been spawned is nobody's.
UnspawnedIsUnused ==
    /\ \A c \in Callers : pc[c] \in {"idle", "spawn"} => server[SessionOf[c]] = "none"
    /\ \A c \in Callers : held[c] # NoSession => server[held[c]] # "none"
    /\ pool # NoSession => server[pool] # "none"
    /\ \A s \in Sessions : s \in initialized \/ retire[s] # "none" => server[s] # "none"

\* A retired or dropped server is dead, and stays so.
EndedIsDead ==
    /\ \A s \in Sessions : retire[s] = "done" => server[s] = "dead"
    /\ \A s \in dropped : server[s] = "dead"

\* A live server that is initialized is in the pool, on its way there, or being retired.
LiveIsOwned ==
    \A s \in initialized : server[s] = "up" =>
        \/ pool = s
        \/ retire[s] # "none"
        \/ \E c \in Callers : pc[c] = "insert" /\ held[c] = s

EndInv == UnspawnedIsUnused /\ EndedIsDead /\ LiveIsOwned /\ ShutDownNotDropped

\* Every step keeps it.
LEMMA EndStep == ASSUME TypeOK, EndInv, [Next]_vars PROVE EndInv'
<1> USE SessionsAssumption, OwnSession DEF TypeOK, EndInv, UnspawnedIsUnused, EndedIsDead,
        LiveIsOwned, ShutDownNotDropped, OutOfReach, Goto, sessionVars, callVars, ownerVars
<1>1. ASSUME NEW c \in Callers, GetPooled(c) PROVE EndInv' BY <1>1 DEF GetPooled
<1>2. ASSUME NEW c \in Callers, GetNothing(c) PROVE EndInv' BY <1>2 DEF GetNothing
<1>3. ASSUME NEW c \in Callers, Spawn(c) PROVE EndInv' BY <1>3 DEF Spawn, Return
<1>4. ASSUME NEW c \in Callers, Insert(c) PROVE EndInv' BY <1>4 DEF Insert
<1>5. ASSUME NEW c \in Callers, Request(c) PROVE EndInv' BY <1>5 DEF Request, Using
<1>6. ASSUME NEW c \in Callers, WriteFails(c) PROVE EndInv'
   BY <1>6 DEF WriteFails, Return, Using
<1>7. ASSUME NEW c \in Callers, Initialized(c) PROVE EndInv'
   BY <1>7 DEF Initialized, Return, Using
<1>8. ASSUME NEW c \in Callers, DidOpen(c) PROVE EndInv' BY <1>8 DEF DidOpen, Return, Using
<1>9. ASSUME NEW c \in Callers, Answered(c) PROVE EndInv' BY <1>9 DEF Answered, Return
<1>10. ASSUME NEW s \in Sessions, RetireRequest(s) PROVE EndInv'
   BY <1>10, SMTT(30) DEF RetireRequest, RetireGoto, Alive
<1>11. ASSUME NEW s \in Sessions, RetireAnswered(s) PROVE EndInv'
   BY <1>11 DEF RetireAnswered, RetireGoto
<1>12. ASSUME NEW s \in Sessions, Reap(s) PROVE EndInv' BY <1>12 DEF Reap, RetireGoto
<1>13. ASSUME NEW s \in Sessions, Respond(s) PROVE EndInv' BY <1>13 DEF Respond, Resolve
<1>14. ASSUME NEW s \in Sessions, ReadEof(s) PROVE EndInv' BY <1>14 DEF ReadEof, DrainPending
<1>15. ASSUME NEW s \in Sessions, ReadError(s) PROVE EndInv'
   BY <1>15 DEF ReadError, DrainPending
<1>16. ASSUME NEW s \in Sessions, ServerDies(s) PROVE EndInv' BY <1>16 DEF ServerDies
<1>17. ASSUME NEW s \in Sessions, Drop(s) PROVE EndInv' BY <1>17 DEF Drop, Holders
<1>18. CASE Evict BY <1>18 DEF Evict, RetireGoto
<1>19. CASE ShutdownAll BY <1>19 DEF ShutdownAll
<1>20. CASE ProcessEnds BY <1>20 DEF ProcessEnds, Unasked
<1>21. CASE UNCHANGED vars BY <1>21 DEF vars
<1> QED
   BY <1>1, <1>2, <1>3, <1>4, <1>5, <1>6, <1>7, <1>8, <1>9, <1>10, <1>11,
    <1>12, <1>13, <1>14, <1>15, <1>16, <1>17, <1>18, <1>19, <1>20, <1>21, Steps

\* As long as tool-lsp runs, concurrent spawns of one key, evictions, dying servers and
\* failing calls never leave an initialized server that is killed without having been
\* asked to shut down; its end kills unasked only servers that shutdown_all could not reach.
THEOREM AskedBeforeKilled == Spec => []ShutDownNotDropped
<1>1. Init => EndInv
  BY OwnSession DEF Init, EndInv, UnspawnedIsUnused, EndedIsDead, LiveIsOwned,
     ShutDownNotDropped
<1>2. EndInv => ShutDownNotDropped
  BY DEF EndInv
<1> QED BY <1>1, <1>2, TypeInit, TypeStep, EndStep, PTL DEF Spec

-----------------------------------------------------------------------------
(* The waiters.                                                            *)

\* Who waits for an answer of a session has it, or is in the map of that session and its
\* read loop, which resolves or drains the map, still runs.
WaitersAreHeard ==
    /\ \A c \in Callers : pc[c] \in {"init_wait", "wait"} =>
         answer[c] # "none" \/ (held[c] \in reading /\ c \in pending[held[c]])
    /\ \A s \in Sessions : retire[s] = "wait" =>
         answer[s] # "none" \/ (s \in reading /\ s \in pending[s])

\* Every step between states in which the loops of live servers run keeps it.
LEMMA HeardStep ==
    ASSUME TypeOK, EndInv, WaitersAreHeard, LoopsLast, LoopsLast', [Next]_vars
    PROVE  WaitersAreHeard'
<1> USE SessionsAssumption, OwnSession DEF TypeOK, WaitersAreHeard, Goto, Requesters, sessionVars,
        callVars, ownerVars
<1>1. ASSUME NEW c \in Callers, GetPooled(c) PROVE WaitersAreHeard' BY <1>1 DEF GetPooled
<1>2. ASSUME NEW c \in Callers, GetNothing(c) PROVE WaitersAreHeard' BY <1>2 DEF GetNothing
<1>3. ASSUME NEW c \in Callers, Spawn(c) PROVE WaitersAreHeard' BY <1>3 DEF Spawn, Return
<1>4. ASSUME NEW c \in Callers, Insert(c) PROVE WaitersAreHeard' BY <1>4 DEF Insert
<1>5. ASSUME NEW c \in Callers, Request(c) PROVE WaitersAreHeard'
   BY <1>5 DEF Request, Using, LoopsLast
<1>6. ASSUME NEW c \in Callers, WriteFails(c) PROVE WaitersAreHeard'
   BY <1>6 DEF WriteFails, Return, Using
<1>7. ASSUME NEW c \in Callers, Initialized(c) PROVE WaitersAreHeard'
   BY <1>7 DEF Initialized, Return, Using
<1>8. ASSUME NEW c \in Callers, DidOpen(c) PROVE WaitersAreHeard'
   BY <1>8 DEF DidOpen, Return, Using
<1>9. ASSUME NEW c \in Callers, Answered(c) PROVE WaitersAreHeard' BY <1>9 DEF Answered, Return
<1>10. ASSUME NEW s \in Sessions, RetireRequest(s) PROVE WaitersAreHeard'
   BY <1>10 DEF RetireRequest, RetireGoto, LoopsLast
<1>11. ASSUME NEW s \in Sessions, RetireAnswered(s) PROVE WaitersAreHeard'
   BY <1>11 DEF RetireAnswered, RetireGoto
<1>12. ASSUME NEW s \in Sessions, Reap(s) PROVE WaitersAreHeard' BY <1>12 DEF Reap, RetireGoto
<1>13. ASSUME NEW s \in Sessions, Respond(s) PROVE WaitersAreHeard'
   BY <1>13 DEF Respond, Resolve
<1>14. ASSUME NEW s \in Sessions, ReadEof(s) PROVE WaitersAreHeard'
   BY <1>14 DEF ReadEof, DrainPending
<1>15. ASSUME NEW s \in Sessions, ReadError(s) PROVE WaitersAreHeard'
   BY <1>15 DEF ReadError, LoopsLast
<1>16. ASSUME NEW s \in Sessions, ServerDies(s) PROVE WaitersAreHeard' BY <1>16 DEF ServerDies
<1>17. ASSUME NEW s \in Sessions, Drop(s) PROVE WaitersAreHeard' BY <1>17 DEF Drop
<1>18. CASE Evict BY <1>18 DEF Evict, RetireGoto
<1>19. CASE ShutdownAll BY <1>19 DEF ShutdownAll
<1>20. CASE ProcessEnds BY <1>20 DEF ProcessEnds
<1>21. CASE UNCHANGED vars BY <1>21 DEF vars
<1> QED
   BY <1>1, <1>2, <1>3, <1>4, <1>5, <1>6, <1>7, <1>8, <1>9, <1>10, <1>11,
    <1>12, <1>13, <1>14, <1>15, <1>16, <1>17, <1>18, <1>19, <1>20, <1>21, Steps

\* As long as no read loop ends before its server, no call and no shutdown waits for an
\* answer that nobody will give, whoever spawns, evicts or kills meanwhile: a loop that
\* ends early is the only way to the hang that WaitersGetAnAnswer shows.
THEOREM NobodyIsForgotten == Spec /\ []LoopsLast => []WaitersAreHeard
<1>1. Init => EndInv /\ WaitersAreHeard
  BY OwnSession DEF Init, EndInv, UnspawnedIsUnused, EndedIsDead, LiveIsOwned,
     ShutDownNotDropped, WaitersAreHeard
<1> QED BY <1>1, TypeInit, TypeStep, EndStep, HeardStep, PTL DEF Spec
=============================================================================
