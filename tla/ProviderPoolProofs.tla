------------------------- MODULE ProviderPoolProofs -------------------------
(***************************************************************************)
(* Type correctness, the lease count and the two disconnect guarantees of  *)
(* ProviderPool, for any number of providers, turns and administrators;    *)
(* and, from the same invariant, that the call a turn waits for can always *)
(* be aborted, that turns and drains wait for providers only, and that the *)
(* pool implements the life of an entry that LeaseLifecycle promises.      *)
(***************************************************************************)
EXTENDS ProviderPool, FiniteSetTheorems, TLAPS

Users(e) == {h \in Holders : lease[h] = e}

\* The counter polled by remove_provider is the number of leases.
LeaseCount == \A e \in Entries : active_turns[e] = Cardinality(Users(e))

Leased == {"register", "select", "cancelling"}
InRoundTrip == Leased \cup {"subscribed", "clean", "respond"}

\* A turn holds a lease on its own provider from AcquireLease until it leaves
\* the select, a borrower over its requests and tools, and a turn that does not wait
\* for its subagent has none running.
LeasesMatchPC ==
    /\ \A t \in Turns :
        /\ turn_pc[t] # "idle" => provider[t] \in Providers
        /\ turn_pc[t] \in InRoundTrip => iterations[t] > 0
        /\ IF turn_pc[t] \in Leased
           THEN lease[MainLease(t)] \in Entries /\ lease[MainLease(t)][1] = provider[t]
           ELSE lease[MainLease(t)] = NoEntry
    /\ \A b \in Borrowers :
        /\ borrower_pc[b] = "lease" => target[b] \in Providers
        /\ IF borrower_pc[b] \in {"leased", "dispatch"}
           THEN lease[BorrowLease(b)] \in Entries
           ELSE lease[BorrowLease(b)] = NoEntry
    /\ \A t \in SubagentTurns : turn_pc[t] # "subagent" => borrower_pc[t] = "idle"

\* A removal works on an entry that is out of the pool for good.
AdminsMatchPC ==
    /\ \A p \in Providers : pool[p] <= registered[p]
    /\ \A r \in Removers :
        LET e == remover[r].entry IN
        IF remover[r].pc = "idle" THEN e = NoEntry
        ELSE /\ e \in Entries
             /\ e[2] <= registered[e[1]]
             /\ pool[e[1]] # e[2]
             /\ remover[r].pc = "drain" => remover[r].mode = "drain"
             /\ remover[r].pc \in {"signal", "grace", "abort"} => remover[r].mode = "force"
    /\ \A a \in Adders : adder[a].pc = "sender" => adder[a].id \in Providers
    /\ \A s \in Switchers : switcher[s].pc = "write" => switcher[s].id \in Providers

\* A receiver is silent only while its sender is there to be used.
OpenHasSender ==
    \A t \in Turns :
        /\ cancel_rx[t] = "open" => provider[t] \in cancel_signal
        /\ turn_pc[t] = "idle" => cancel_rx[t] = "none"

IInv == TypeOK /\ LeaseCount /\ LeasesMatchPC /\ AdminsMatchPC
        /\ DrainLeavesNobody /\ OpenHasSender /\ ForceReachesHolders
-----------------------------------------------------------------------------
\* Counting leases.

LEMMA HoldersFinite == IsFiniteSet(Holders)
<1> DEFINE Mains == {MainLease(t) : t \in Turns}
           Loans == {BorrowLease(b) : b \in Borrowers}
           main  == [t \in Turns |-> MainLease(t)]
           loan  == [b \in Borrowers |-> BorrowLease(b)]
<1>1. IsFiniteSet(Borrowers)
  <2>1. IsFiniteSet(SubagentTurns)
    BY FS_Subset, CallersAssumption
  <2> QED BY <2>1, FS_Union, CallersAssumption DEF Borrowers
<1>2. main \in Surjection(Turns, Mains)
  BY DEF Surjection, MainLease
<1>3. loan \in Surjection(Borrowers, Loans)
  BY DEF Surjection, BorrowLease
<1>4. IsFiniteSet(Mains) /\ IsFiniteSet(Loans)
  <2> HIDE DEF main, loan, Mains, Loans
  <2> QED BY <1>1, <1>2, <1>3, FS_Surjection, CallersAssumption
<1> QED BY <1>4, FS_Union DEF Holders

LEMMA UsersFinite == \A e : IsFiniteSet(Users(e))
  BY HoldersFinite, FS_Subset DEF Users

\* A lease taken by a holder without one is counted once.
LEMMA LeaseCounts ==
    ASSUME TypeOK, LeaseCount, NEW h \in Holders, NEW e \in Entries,
           lease[h] = NoEntry, Lease(h, e)
    PROVE  /\ LeaseCount'
           /\ active_turns' \in [Entries -> Nat]
           /\ lease' \in [Holders -> Entries \cup {NoEntry}]
<1>1. active_turns' \in [Entries -> Nat] /\ lease' \in [Holders -> Entries \cup {NoEntry}]
  BY DEF TypeOK, Lease
<1>2. NoEntry \notin Entries
  BY NullsAssumption DEF Entries, Generations
<1>3. ASSUME NEW f \in Entries
      PROVE  active_turns'[f] = Cardinality(Users(f)')
  <2>1. IsFiniteSet(Users(f))
    BY UsersFinite
  <2>2. CASE f = e
    <3>1. Users(f)' = Users(f) \cup {h} /\ h \notin Users(f)
      BY <2>2, <1>2 DEF Users, Lease, TypeOK
    <3>2. Cardinality(Users(f)') = Cardinality(Users(f)) + 1
      BY <3>1, <2>1, FS_AddElement
    <3>3. active_turns'[f] = active_turns[f] + 1
      BY <2>2 DEF Lease, TypeOK
    <3> QED BY <3>2, <3>3 DEF LeaseCount
  <2>3. CASE f # e
    <3>1. Users(f)' = Users(f)
      BY <2>3, <1>2 DEF Users, Lease, TypeOK
    <3> QED BY <3>1, <2>3 DEF LeaseCount, Lease, TypeOK
  <2> QED BY <2>2, <2>3
<1> QED BY <1>1, <1>3 DEF LeaseCount

\* A lease dropped was counted, so that the counter does not go below zero.
LEMMA DropCounts ==
    ASSUME TypeOK, LeaseCount, NEW h \in Holders, lease[h] \in Entries, DropLease(h)
    PROVE  /\ LeaseCount'
           /\ active_turns' \in [Entries -> Nat]
           /\ lease' \in [Holders -> Entries \cup {NoEntry}]
<1> DEFINE e == lease[h]
<1>1. NoEntry \notin Entries
  BY NullsAssumption DEF Entries, Generations
<1>2. h \in Users(e) /\ IsFiniteSet(Users(e))
  BY UsersFinite DEF Users
<1>3. Cardinality(Users(e)) \in Nat \ {0}
  BY <1>2, FS_CardinalityType, FS_EmptySet
<1>4. active_turns' \in [Entries -> Nat] /\ lease' \in [Holders -> Entries \cup {NoEntry}]
  BY <1>3 DEF TypeOK, DropLease, LeaseCount
<1>5. ASSUME NEW f \in Entries
      PROVE  active_turns'[f] = Cardinality(Users(f)')
  <2>1. CASE f = e
    <3>1. Users(f)' = Users(f) \ {h}
      BY <2>1, <1>1 DEF Users, DropLease, TypeOK
    <3>2. Cardinality(Users(f)') = Cardinality(Users(f)) - 1
      BY <3>1, <1>2, <2>1, FS_RemoveElement
    <3>3. active_turns'[f] = active_turns[f] - 1
      BY <2>1 DEF DropLease, TypeOK
    <3> QED BY <3>2, <3>3 DEF LeaseCount
  <2>2. CASE f # e
    <3>1. Users(f)' = Users(f)
      BY <2>2, <1>1 DEF Users, DropLease, TypeOK
    <3> QED BY <3>1, <2>2 DEF LeaseCount, DropLease, TypeOK
  <2> QED BY <2>1, <2>2
<1> QED BY <1>4, <1>5 DEF LeaseCount
\* An entry nobody counted is held by nobody.
LEMMA NobodyCounted ==
    ASSUME LeaseCount, NEW e \in Entries, active_turns[e] = 0
    PROVE  \A h \in Holders : lease[h] # e
<1>1. IsFiniteSet(Users(e)) /\ Cardinality(Users(e)) = 0
  BY UsersFinite DEF LeaseCount
<1>2. Users(e) = {}
  BY <1>1, FS_EmptySet
<1> QED BY <1>2 DEF Users

\* Holders come in two kinds that do not collide.
LEMMA HolderFacts ==
    /\ \A t \in Turns : MainLease(t) \in Holders
    /\ \A b \in Borrowers : BorrowLease(b) \in Holders
    /\ \A t, u : MainLease(t) = MainLease(u) => t = u
    /\ \A b, c : BorrowLease(b) = BorrowLease(c) => b = c
    /\ \A t, b : MainLease(t) # BorrowLease(b)
  BY DEF Holders, MainLease, BorrowLease

-----------------------------------------------------------------------------
\* What the shared steps do to the invariant.

\* A lease on a pooled entry is a lease on no removal's entry.
LEMMA TakingALease ==
    ASSUME IInv, NEW h \in Holders, NEW p \in Providers, pool[p] # Absent,
           lease[h] = NoEntry, Lease(h, PoolEntry(p)), UNCHANGED remover
    PROVE  /\ PoolEntry(p) \in Entries
           /\ LeaseCount'
           /\ active_turns' \in [Entries -> Nat]
           /\ lease' \in [Holders -> Entries \cup {NoEntry}]
           /\ \A g \in Holders : lease'[g] = IF g = h THEN PoolEntry(p) ELSE lease[g]
           /\ \A r \in Removers : remover[r].entry # PoolEntry(p)
           /\ DrainLeavesNobody'
<1> USE DEF IInv
<1>1. PoolEntry(p) \in Entries
  BY BoundsAssumption DEF TypeOK, PoolEntry, Entries, Generations, Absent
<1>2. /\ LeaseCount'
      /\ active_turns' \in [Entries -> Nat]
      /\ lease' \in [Holders -> Entries \cup {NoEntry}]
  BY <1>1, LeaseCounts
<1>3. \A g \in Holders : lease'[g] = IF g = h THEN PoolEntry(p) ELSE lease[g]
  BY DEF Lease, TypeOK
<1>4. \A r \in Removers : remover[r].entry # PoolEntry(p)
  <2>1. NoEntry # PoolEntry(p)
    BY <1>1, NullsAssumption DEF Entries, Generations
  <2> QED BY <2>1 DEF AdminsMatchPC, PoolEntry
<1>5. DrainLeavesNobody'
  BY <1>3, <1>4 DEF DrainLeavesNobody
<1> QED BY <1>1, <1>2, <1>3, <1>4, <1>5

LEMMA ReturningALease ==
    ASSUME IInv, NEW h \in Holders, lease[h] \in Entries, DropLease(h), UNCHANGED remover
    PROVE  /\ LeaseCount'
           /\ active_turns' \in [Entries -> Nat]
           /\ lease' \in [Holders -> Entries \cup {NoEntry}]
           /\ \A g \in Holders : lease'[g] = IF g = h THEN NoEntry ELSE lease[g]
           /\ \A r \in Removers : remover[r].pc # "idle" => remover[r].entry # NoEntry
           /\ DrainLeavesNobody'
<1> USE DEF IInv
<1>1. /\ LeaseCount'
      /\ active_turns' \in [Entries -> Nat]
      /\ lease' \in [Holders -> Entries \cup {NoEntry}]
  BY DropCounts
<1>2. \A g \in Holders : lease'[g] = IF g = h THEN NoEntry ELSE lease[g]
  BY DEF DropLease, TypeOK
<1>3. \A r \in Removers : remover[r].pc # "idle" => remover[r].entry # NoEntry
  BY NullsAssumption DEF AdminsMatchPC, Entries, Generations
<1>4. DrainLeavesNobody'
  BY <1>2, <1>3 DEF DrainLeavesNobody
<1> QED BY <1>1, <1>2, <1>3, <1>4

\* A removal that moves on keeps its entry and its mode.
LEMMA RemoverMoves ==
    ASSUME TypeOK, NEW r \in Removers, NEW from,
           NEW to \in {"grace", "abort", "cleanup", "done"}, RemoverGoto(r, from, to)
    PROVE  /\ remover' \in [Removers -> RemoverType]
           /\ remover[r].pc = from
           /\ \A q \in Removers :
                /\ remover'[q].entry = remover[q].entry
                /\ remover'[q].mode = remover[q].mode
                /\ remover'[q].pc = IF q = r THEN to ELSE remover[q].pc
  BY DEF TypeOK, RemoverGoto, RemoverType

LEMMA StutterPreserves == IInv /\ UNCHANGED vars => IInv'
  BY DEF IInv, TypeOK, LeaseCount, Users, LeasesMatchPC, Leased, AdminsMatchPC,
     DrainLeavesNobody, OpenHasSender, ForceReachesHolders, Signalled, vars, hostVars,
     turnVars, borrowerVars, adminVars

-----------------------------------------------------------------------------
\* One lemma per actor: its steps preserve the invariant.

LEMMA TurnPreserves ==
    ASSUME IInv, NEW t \in Turns, Route(t) \/ TurnStep(t)
    PROVE  IInv'
<1> USE DEF IInv
<1>1. CASE Route(t)
  <2>1. TypeOK'
    BY <1>1 DEF TypeOK, Route, Goto, hostVars, borrowerVars, adminVars, TurnPC
  <2>2. LeasesMatchPC'
    BY <1>1 DEF TypeOK, LeasesMatchPC, Route, Goto, borrowerVars, Leased, InRoundTrip
  <2>3. OpenHasSender'
    BY <1>1 DEF TypeOK, OpenHasSender, Route, Goto, hostVars
  <2>4. LeaseCount' /\ AdminsMatchPC' /\ DrainLeavesNobody' /\ ForceReachesHolders'
    BY <1>1 DEF LeaseCount, Users, AdminsMatchPC, DrainLeavesNobody, ForceReachesHolders,
       Signalled, Route, Goto, hostVars, adminVars
  <2> QED BY <2>1, <2>2, <2>3, <2>4
<1>2. CASE HitLoopLimit(t)
  <2>1. TypeOK'
    BY <1>2 DEF TypeOK, HitLoopLimit, Return, Goto, hostVars, borrowerVars, adminVars,
       TurnPC, Outcomes
  <2>2. LeasesMatchPC'
    BY <1>2 DEF TypeOK, LeasesMatchPC, HitLoopLimit, Return, Goto, borrowerVars, Leased,
       InRoundTrip
  <2>3. OpenHasSender'
    BY <1>2 DEF TypeOK, OpenHasSender, HitLoopLimit, Return, Goto, hostVars
  <2>4. LeaseCount' /\ AdminsMatchPC' /\ DrainLeavesNobody' /\ ForceReachesHolders'
    BY <1>2 DEF LeaseCount, Users, AdminsMatchPC, DrainLeavesNobody, ForceReachesHolders,
       Signalled, HitLoopLimit, Goto, hostVars, adminVars
  <2> QED BY <2>1, <2>2, <2>3, <2>4
<1>3. CASE Subscribe(t)
  <2>a. /\ iterations' \in [Turns -> 0 .. MaxIterations]
        /\ cancel_rx' \in [Turns -> RxState]
    BY <1>3, BoundsAssumption DEF TypeOK, Subscribe, RxState
  <2>1. TypeOK'
    BY <1>3, <2>a DEF TypeOK, Subscribe, Goto, hostVars, borrowerVars, adminVars, TurnPC
  <2>2. LeasesMatchPC'
    BY <1>3 DEF TypeOK, LeasesMatchPC, Subscribe, Goto, borrowerVars, Leased
  <2>3. OpenHasSender'
    BY <1>3 DEF TypeOK, OpenHasSender, Subscribe, Goto, hostVars
  <2>4. ForceReachesHolders'
    <3>1. lease[MainLease(t)] = NoEntry
      BY <1>3 DEF LeasesMatchPC, Subscribe, Goto, Leased
    <3>2. \A r \in Removers : remover[r].pc # "idle" => remover[r].entry # NoEntry
      BY NullsAssumption DEF AdminsMatchPC, Entries, Generations
    <3> QED BY <1>3, <3>1, <3>2 DEF TypeOK, ForceReachesHolders, Subscribe, adminVars, Signalled
  <2>5. LeaseCount' /\ AdminsMatchPC' /\ DrainLeavesNobody'
    BY <1>3 DEF LeaseCount, Users, AdminsMatchPC, DrainLeavesNobody, Subscribe, Goto,
       hostVars, adminVars
  <2> QED BY <2>1, <2>2, <2>3, <2>4, <2>5
<1>4. CASE FindNoProvider(t)
  <2>1. TypeOK'
    BY <1>4 DEF TypeOK, FindNoProvider, Return, Goto, hostVars, borrowerVars, adminVars,
       TurnPC, RxState, Outcomes
  <2>2. LeasesMatchPC'
    BY <1>4 DEF TypeOK, LeasesMatchPC, FindNoProvider, Return, Goto, borrowerVars, Leased,
       InRoundTrip
  <2>3. OpenHasSender'
    BY <1>4 DEF TypeOK, OpenHasSender, FindNoProvider, Return, Goto, hostVars
  <2>4. ForceReachesHolders'
    BY <1>4 DEF TypeOK, ForceReachesHolders, FindNoProvider, Goto, adminVars, Signalled
  <2>5. LeaseCount' /\ AdminsMatchPC' /\ DrainLeavesNobody'
    BY <1>4 DEF LeaseCount, Users, AdminsMatchPC, DrainLeavesNobody, FindNoProvider, Goto,
       hostVars, adminVars
  <2> QED BY <2>1, <2>2, <2>3, <2>4, <2>5
<1>5. CASE AcquireLease(t)
  <2>a. /\ provider[t] \in Providers /\ iterations[t] > 0
        /\ MainLease(t) \in Holders /\ lease[MainLease(t)] = NoEntry
    BY <1>5, HolderFacts DEF LeasesMatchPC, AcquireLease, Goto, Leased, InRoundTrip
  <2>b. /\ LeaseCount' /\ DrainLeavesNobody'
        /\ active_turns' \in [Entries -> Nat] /\ lease' \in [Holders -> Entries \cup {NoEntry}]
        /\ \A g \in Holders :
             lease'[g] = IF g = MainLease(t) THEN PoolEntry(provider[t]) ELSE lease[g]
        /\ PoolEntry(provider[t]) \in Entries
        /\ \A r \in Removers : remover[r].entry # PoolEntry(provider[t])
    BY <1>5, <2>a, TakingALease DEF AcquireLease, adminVars
  <2>1. TypeOK'
    <3>1. call' \in [Calls -> {"unspawned", "running", "done", "aborted"}]
      BY <1>5 DEF TypeOK, AcquireLease
    <3> QED BY <1>5, <2>b, <3>1 DEF TypeOK, AcquireLease, Goto, borrowerVars, adminVars, TurnPC
  <2>2. LeaseCount'
    BY <2>b
  <2>3. LeasesMatchPC'
    <3>1. \A u \in Turns : lease'[MainLease(u)] = IF u = t THEN PoolEntry(provider[t])
                                                   ELSE lease[MainLease(u)]
      BY <2>b, HolderFacts
    <3>2. \A b \in Borrowers : lease'[BorrowLease(b)] = lease[BorrowLease(b)]
      BY <2>b, HolderFacts
    <3>3. PoolEntry(provider[t])[1] = provider[t]
      BY DEF PoolEntry
    <3>4. \A u \in Turns : turn_pc'[u] = IF u = t THEN "register" ELSE turn_pc[u]
      BY <1>5 DEF TypeOK, AcquireLease, Goto
    <3>5. turn_pc[t] = "subscribed" /\ UNCHANGED <<provider, iterations, borrower_pc, target>>
      BY <1>5 DEF AcquireLease, Goto, borrowerVars
    <3>6. ASSUME NEW u \in Turns
          PROVE  /\ turn_pc'[u] # "idle" => provider[u] \in Providers
                 /\ turn_pc'[u] \in InRoundTrip => iterations[u] > 0
                 /\ IF turn_pc'[u] \in Leased
                    THEN lease'[MainLease(u)] \in Entries /\ lease'[MainLease(u)][1] = provider[u]
                    ELSE lease'[MainLease(u)] = NoEntry
      <4>1. CASE u = t
        BY <2>a, <2>b, <3>1, <3>3, <3>4, <4>1 DEF Leased
      <4>2. CASE u # t
        BY <3>1, <3>4, <4>2 DEF LeasesMatchPC
      <4> QED BY <4>1, <4>2
    <3> QED BY <3>2, <3>4, <3>5, <3>6, CallersAssumption DEF LeasesMatchPC
  <2>4. DrainLeavesNobody'
    BY <2>b
  <2>5. OpenHasSender'
    BY <1>5 DEF TypeOK, OpenHasSender, AcquireLease, Goto
  <2>6. ForceReachesHolders'
    BY <1>5, <2>a, <2>b, HolderFacts DEF ForceReachesHolders, AcquireLease, adminVars,
       Signalled
  <2>7. AdminsMatchPC'
    BY <1>5 DEF AdminsMatchPC, AcquireLease, Goto, adminVars
  <2> QED BY <2>1, <2>2, <2>3, <2>4, <2>5, <2>6, <2>7
<1>6. CASE RegisterHandle(t)
  <2>1. TypeOK'
    <3>1. Call(t) \in Calls
      BY <1>6 DEF TypeOK, LeasesMatchPC, RegisterHandle, Goto, InRoundTrip, Leased, Call,
         Calls
    <3>2. turn_handles' \in [Providers -> SUBSET Calls]
      BY <1>6, <3>1 DEF TypeOK, RegisterHandle
    <3> QED BY <1>6, <3>2 DEF TypeOK, RegisterHandle, Goto, borrowerVars, adminVars, TurnPC
  <2>2. LeasesMatchPC'
    BY <1>6 DEF TypeOK, LeasesMatchPC, RegisterHandle, Goto, borrowerVars, Leased,
       InRoundTrip
  <2>3. OpenHasSender'
    BY <1>6 DEF TypeOK, OpenHasSender, RegisterHandle, Goto
  <2>4. LeaseCount' /\ AdminsMatchPC' /\ DrainLeavesNobody' /\ ForceReachesHolders'
    BY <1>6 DEF LeaseCount, Users, AdminsMatchPC, DrainLeavesNobody, ForceReachesHolders,
       Signalled, RegisterHandle, Goto, adminVars
  <2> QED BY <2>1, <2>2, <2>3, <2>4
<1>7. CASE SelectDone(t)
  <2>a. MainLease(t) \in Holders /\ lease[MainLease(t)] \in Entries
    BY <1>7, HolderFacts DEF LeasesMatchPC, SelectDone, Goto, Leased
  <2>b. /\ LeaseCount' /\ DrainLeavesNobody'
        /\ active_turns' \in [Entries -> Nat] /\ lease' \in [Holders -> Entries \cup {NoEntry}]
        /\ \A g \in Holders : lease'[g] = IF g = MainLease(t) THEN NoEntry ELSE lease[g]
        /\ \A r \in Removers : remover[r].pc # "idle" => remover[r].entry # NoEntry
    BY <1>7, <2>a, ReturningALease DEF SelectDone, adminVars
  <2>1. TypeOK'
    BY <1>7, <2>b DEF TypeOK, SelectDone, Goto, borrowerVars, adminVars, TurnPC
  <2>2. LeaseCount'
    BY <2>b
  <2>3. LeasesMatchPC'
    BY <1>7, <2>a, <2>b, HolderFacts DEF TypeOK, LeasesMatchPC, SelectDone, Goto,
       borrowerVars, Leased, InRoundTrip
  <2>4. DrainLeavesNobody'
    BY <2>b
  <2>5. OpenHasSender'
    BY <1>7 DEF TypeOK, OpenHasSender, SelectDone, Goto
  <2>6. ForceReachesHolders'
    BY <1>7, <2>b, HolderFacts DEF TypeOK, ForceReachesHolders, SelectDone, adminVars,
       Signalled
  <2>7. AdminsMatchPC'
    BY <1>7 DEF AdminsMatchPC, SelectDone, Goto, adminVars
  <2> QED BY <2>1, <2>2, <2>3, <2>4, <2>5, <2>6, <2>7
<1>8. CASE SelectAborted(t)
  <2>a. MainLease(t) \in Holders /\ lease[MainLease(t)] \in Entries
    BY <1>8, HolderFacts DEF LeasesMatchPC, SelectAborted, Return, Goto, Leased
  <2>b. /\ LeaseCount' /\ DrainLeavesNobody'
        /\ active_turns' \in [Entries -> Nat] /\ lease' \in [Holders -> Entries \cup {NoEntry}]
        /\ \A g \in Holders : lease'[g] = IF g = MainLease(t) THEN NoEntry ELSE lease[g]
        /\ \A r \in Removers : remover[r].pc # "idle" => remover[r].entry # NoEntry
    BY <1>8, <2>a, ReturningALease DEF SelectAborted, adminVars
  <2>1. TypeOK'
    BY <1>8, <2>b DEF TypeOK, SelectAborted, Return, Goto, borrowerVars, adminVars, TurnPC,
       RxState, Outcomes
  <2>2. LeaseCount'
    BY <2>b
  <2>3. LeasesMatchPC'
    BY <1>8, <2>a, <2>b, HolderFacts DEF TypeOK, LeasesMatchPC, SelectAborted, Return, Goto,
       borrowerVars, Leased, InRoundTrip
  <2>4. DrainLeavesNobody'
    BY <2>b
  <2>5. OpenHasSender'
    BY <1>8 DEF TypeOK, OpenHasSender, SelectAborted, Return, Goto
  <2>6. ForceReachesHolders'
    BY <1>8, <2>b, HolderFacts DEF TypeOK, ForceReachesHolders, SelectAborted, adminVars,
       Signalled
  <2>7. AdminsMatchPC'
    BY <1>8 DEF AdminsMatchPC, SelectAborted, Goto, adminVars
  <2> QED BY <2>1, <2>2, <2>3, <2>4, <2>5, <2>6, <2>7
<1>9. CASE SelectCancel(t)
  <2>1. TypeOK'
    BY <1>9 DEF TypeOK, SelectCancel, Goto, hostVars, borrowerVars, adminVars, TurnPC
  <2>2. LeasesMatchPC'
    BY <1>9 DEF TypeOK, LeasesMatchPC, SelectCancel, Goto, borrowerVars, Leased, InRoundTrip
  <2>3. OpenHasSender'
    BY <1>9 DEF TypeOK, OpenHasSender, SelectCancel, Goto, hostVars
  <2>4. LeaseCount' /\ AdminsMatchPC' /\ DrainLeavesNobody' /\ ForceReachesHolders'
    BY <1>9 DEF LeaseCount, Users, AdminsMatchPC, DrainLeavesNobody, ForceReachesHolders,
       Signalled, SelectCancel, Goto, hostVars, adminVars
  <2> QED BY <2>1, <2>2, <2>3, <2>4
<1>10. CASE ReturnCancelled(t)
  <2>a. MainLease(t) \in Holders /\ lease[MainLease(t)] \in Entries
    BY <1>10, HolderFacts DEF LeasesMatchPC, ReturnCancelled, Return, Goto, Leased
  <2>b. /\ LeaseCount' /\ DrainLeavesNobody'
        /\ active_turns' \in [Entries -> Nat] /\ lease' \in [Holders -> Entries \cup {NoEntry}]
        /\ \A g \in Holders : lease'[g] = IF g = MainLease(t) THEN NoEntry ELSE lease[g]
        /\ \A r \in Removers : remover[r].pc # "idle" => remover[r].entry # NoEntry
    BY <1>10, <2>a, ReturningALease DEF ReturnCancelled, adminVars
  <2>1. TypeOK'
    BY <1>10, <2>b DEF TypeOK, ReturnCancelled, Return, Goto, borrowerVars, adminVars,
       TurnPC, RxState, Outcomes
  <2>2. LeaseCount'
    BY <2>b
  <2>3. LeasesMatchPC'
    BY <1>10, <2>a, <2>b, HolderFacts DEF TypeOK, LeasesMatchPC, ReturnCancelled, Return,
       Goto, borrowerVars, Leased, InRoundTrip
  <2>4. DrainLeavesNobody'
    BY <2>b
  <2>5. OpenHasSender'
    BY <1>10 DEF TypeOK, OpenHasSender, ReturnCancelled, Return, Goto
  <2>6. ForceReachesHolders'
    BY <1>10, <2>b, HolderFacts DEF TypeOK, ForceReachesHolders, ReturnCancelled, adminVars,
       Signalled
  <2>7. AdminsMatchPC'
    BY <1>10 DEF AdminsMatchPC, ReturnCancelled, Goto, adminVars
  <2> QED BY <2>1, <2>2, <2>3, <2>4, <2>5, <2>6, <2>7
<1>11. CASE CleanHandles(t)
  <2>1. TypeOK'
    BY <1>11 DEF TypeOK, CleanHandles, Goto, borrowerVars, adminVars, TurnPC
  <2>2. LeasesMatchPC'
    BY <1>11 DEF TypeOK, LeasesMatchPC, CleanHandles, Goto, borrowerVars, Leased,
       InRoundTrip
  <2>3. OpenHasSender'
    BY <1>11 DEF TypeOK, OpenHasSender, CleanHandles, Goto
  <2>4. LeaseCount' /\ AdminsMatchPC' /\ DrainLeavesNobody' /\ ForceReachesHolders'
    BY <1>11 DEF LeaseCount, Users, AdminsMatchPC, DrainLeavesNobody, ForceReachesHolders,
       Signalled, CleanHandles, Goto, adminVars
  <2> QED BY <2>1, <2>2, <2>3, <2>4
<1>12. CASE Respond(t)
  <2>1. TypeOK'
    BY <1>12 DEF TypeOK, Respond, Return, Goto, hostVars, borrowerVars, adminVars, TurnPC,
       RxState, Outcomes
  <2>2. LeasesMatchPC'
    <3>1. /\ turn_pc[t] = "respond" /\ turn_pc'[t] \in {"done", "tools"}
          /\ \A u \in Turns : u # t => turn_pc'[u] = turn_pc[u]
      BY <1>12 DEF TypeOK, Respond, Return, Goto
    <3>2. UNCHANGED <<provider, iterations, lease, borrower_pc, target>>
      BY <1>12 DEF Respond, borrowerVars
    <3> QED BY <3>1, <3>2, CallersAssumption DEF LeasesMatchPC, Leased, InRoundTrip
  <2>3. OpenHasSender'
    BY <1>12 DEF TypeOK, OpenHasSender, Respond, Return, Goto, hostVars
  <2>4. ForceReachesHolders'
    BY <1>12 DEF TypeOK, ForceReachesHolders, Respond, Goto, adminVars, Signalled
  <2>5. LeaseCount' /\ AdminsMatchPC' /\ DrainLeavesNobody'
    BY <1>12 DEF LeaseCount, Users, AdminsMatchPC, DrainLeavesNobody, Respond, Goto,
       hostVars, adminVars
  <2> QED BY <2>1, <2>2, <2>3, <2>4, <2>5
<1>13. CASE RunTools(t)
  <2>1. TypeOK'
    BY <1>13 DEF TypeOK, RunTools, Goto, hostVars, borrowerVars, adminVars, TurnPC
  <2>2. LeasesMatchPC'
    BY <1>13 DEF TypeOK, LeasesMatchPC, RunTools, Goto, borrowerVars, Leased, InRoundTrip
  <2>3. OpenHasSender'
    BY <1>13 DEF TypeOK, OpenHasSender, RunTools, Goto, hostVars
  <2>4. LeaseCount' /\ AdminsMatchPC' /\ DrainLeavesNobody' /\ ForceReachesHolders'
    BY <1>13 DEF LeaseCount, Users, AdminsMatchPC, DrainLeavesNobody, ForceReachesHolders,
       Signalled, RunTools, Goto, hostVars, adminVars
  <2> QED BY <2>1, <2>2, <2>3, <2>4
<1>14. CASE StartSubagent(t)
  <2>1. TypeOK'
    BY <1>14 DEF TypeOK, BorrowerPC, StartSubagent, Goto, hostVars, adminVars, TurnPC
  <2>2. LeasesMatchPC'
    BY <1>14 DEF TypeOK, LeasesMatchPC, StartSubagent, Goto, Borrowers, Leased, InRoundTrip
  <2>3. OpenHasSender'
    BY <1>14 DEF TypeOK, OpenHasSender, StartSubagent, Goto, hostVars
  <2>4. LeaseCount' /\ AdminsMatchPC' /\ DrainLeavesNobody' /\ ForceReachesHolders'
    BY <1>14 DEF LeaseCount, Users, AdminsMatchPC, DrainLeavesNobody, ForceReachesHolders,
       Signalled, StartSubagent, Goto, hostVars, adminVars
  <2> QED BY <2>1, <2>2, <2>3, <2>4
<1>15. CASE FinishSubagent(t)
  <2>1. TypeOK'
    BY <1>15 DEF TypeOK, BorrowerPC, FinishSubagent, Goto, hostVars, adminVars, TurnPC
  <2>2. LeasesMatchPC'
    BY <1>15 DEF TypeOK, LeasesMatchPC, FinishSubagent, Goto, Borrowers, Leased, InRoundTrip
  <2>3. OpenHasSender'
    BY <1>15 DEF TypeOK, OpenHasSender, FinishSubagent, Goto, hostVars
  <2>4. LeaseCount' /\ AdminsMatchPC' /\ DrainLeavesNobody' /\ ForceReachesHolders'
    BY <1>15 DEF LeaseCount, Users, AdminsMatchPC, DrainLeavesNobody, ForceReachesHolders,
       Signalled, FinishSubagent, Goto, hostVars, adminVars
  <2> QED BY <2>1, <2>2, <2>3, <2>4
<1> QED BY <1>1, <1>2, <1>3, <1>4, <1>5, <1>6, <1>7, <1>8, <1>9, <1>10, <1>11, <1>12, <1>13,
     <1>14, <1>15 DEF TurnStep, BorrowerStep, RemoverStep

LEMMA BorrowerPreserves ==
    ASSUME IInv, NEW b \in Borrowers, (b \in Listers /\ StartListing(b)) \/ BorrowerStep(b) \/ Answered(b)
    PROVE  IInv'
<1> USE DEF IInv
<1>1. CASE b \in Listers /\ StartListing(b)
  <2>1. TypeOK'
    BY <1>1 DEF TypeOK, BorrowerPC, StartListing, BorrowGoto, hostVars, turnVars, adminVars
  <2>2. LeasesMatchPC'
    BY <1>1, CallersAssumption DEF TypeOK, LeasesMatchPC, StartListing, BorrowGoto,
       turnVars, Leased
  <2>3. LeaseCount' /\ AdminsMatchPC' /\ DrainLeavesNobody' /\ OpenHasSender' /\ ForceReachesHolders'
    BY <1>1 DEF LeaseCount, Users, AdminsMatchPC, DrainLeavesNobody, OpenHasSender,
       ForceReachesHolders, Signalled, StartListing, BorrowGoto, hostVars, turnVars, adminVars
  <2> QED BY <2>1, <2>2, <2>3
<1>2. CASE ReadActive(b)
  <2>1. TypeOK'
    BY <1>2 DEF TypeOK, BorrowerPC, ReadActive, BorrowGoto, hostVars, turnVars, adminVars
  <2>2. LeasesMatchPC'
    BY <1>2 DEF TypeOK, LeasesMatchPC, ReadActive, BorrowGoto, turnVars, Leased
  <2>3. LeaseCount' /\ AdminsMatchPC' /\ DrainLeavesNobody' /\ OpenHasSender' /\ ForceReachesHolders'
    BY <1>2 DEF LeaseCount, Users, AdminsMatchPC, DrainLeavesNobody, OpenHasSender,
       ForceReachesHolders, Signalled, ReadActive, BorrowGoto, hostVars, turnVars, adminVars
  <2> QED BY <2>1, <2>2, <2>3
<1>3. CASE Borrow(b)
  <2>a. target[b] \in Providers /\ BorrowLease(b) \in Holders /\ lease[BorrowLease(b)] = NoEntry
    BY <1>3, HolderFacts DEF LeasesMatchPC, Borrow, BorrowGoto
  <2>b. /\ LeaseCount' /\ DrainLeavesNobody'
        /\ active_turns' \in [Entries -> Nat] /\ lease' \in [Holders -> Entries \cup {NoEntry}]
        /\ \A g \in Holders :
             lease'[g] = IF g = BorrowLease(b) THEN PoolEntry(target[b]) ELSE lease[g]
        /\ PoolEntry(target[b]) \in Entries
        /\ \A r \in Removers : remover[r].entry # PoolEntry(target[b])
    BY <1>3, <2>a, TakingALease DEF Borrow, adminVars
  <2>1. TypeOK'
    BY <1>3, <2>b DEF TypeOK, BorrowerPC, Borrow, BorrowGoto, turnVars, adminVars
  <2>2. LeaseCount'
    BY <2>b
  <2>3. LeasesMatchPC'
    BY <1>3, <2>a, <2>b, HolderFacts DEF TypeOK, LeasesMatchPC, Borrow, BorrowGoto,
       turnVars, Leased
  <2>4. DrainLeavesNobody'
    BY <2>b
  <2>5. ForceReachesHolders'
    BY <1>3, <2>b, HolderFacts DEF ForceReachesHolders, Borrow, turnVars, adminVars,
       Signalled
  <2>6. AdminsMatchPC' /\ OpenHasSender'
    BY <1>3 DEF AdminsMatchPC, OpenHasSender, Borrow, BorrowGoto, turnVars, adminVars
  <2> QED BY <2>1, <2>2, <2>3, <2>4, <2>5, <2>6
<1>4. CASE BorrowNothing(b)
  <2>1. TypeOK'
    BY <1>4 DEF TypeOK, BorrowerPC, BorrowNothing, BorrowGoto, hostVars, turnVars, adminVars
  <2>2. LeasesMatchPC'
    BY <1>4 DEF TypeOK, LeasesMatchPC, BorrowNothing, BorrowGoto, turnVars, Leased
  <2>3. LeaseCount' /\ AdminsMatchPC' /\ DrainLeavesNobody' /\ OpenHasSender' /\ ForceReachesHolders'
    BY <1>4 DEF LeaseCount, Users, AdminsMatchPC, DrainLeavesNobody, OpenHasSender,
       ForceReachesHolders, Signalled, BorrowNothing, BorrowGoto, hostVars, turnVars, adminVars
  <2> QED BY <2>1, <2>2, <2>3
<1>5. CASE GiveBack(b)
  <2>a. BorrowLease(b) \in Holders /\ lease[BorrowLease(b)] \in Entries
    BY <1>5, HolderFacts DEF LeasesMatchPC, GiveBack, BorrowGoto
  <2>b. /\ LeaseCount' /\ DrainLeavesNobody'
        /\ active_turns' \in [Entries -> Nat] /\ lease' \in [Holders -> Entries \cup {NoEntry}]
        /\ \A g \in Holders : lease'[g] = IF g = BorrowLease(b) THEN NoEntry ELSE lease[g]
        /\ \A r \in Removers : remover[r].pc # "idle" => remover[r].entry # NoEntry
    BY <1>5, <2>a, ReturningALease DEF GiveBack, adminVars
  <2>1. TypeOK'
    BY <1>5, <2>b DEF TypeOK, BorrowerPC, GiveBack, BorrowGoto, turnVars, adminVars
  <2>2. LeaseCount'
    BY <2>b
  <2>3. LeasesMatchPC'
    BY <1>5, <2>a, <2>b, HolderFacts DEF TypeOK, LeasesMatchPC, GiveBack, BorrowGoto,
       turnVars, Leased
  <2>4. DrainLeavesNobody'
    BY <2>b
  <2>5. ForceReachesHolders'
    BY <1>5, <2>b, HolderFacts DEF ForceReachesHolders, GiveBack, turnVars, adminVars,
       Signalled
  <2>6. AdminsMatchPC' /\ OpenHasSender'
    BY <1>5 DEF AdminsMatchPC, OpenHasSender, GiveBack, BorrowGoto, turnVars, adminVars
  <2> QED BY <2>1, <2>2, <2>3, <2>4, <2>5, <2>6
<1>6. CASE AskForTools(b)
  <2>1. TypeOK'
    BY <1>6 DEF TypeOK, AskForTools, BorrowGoto, BorrowerPC, hostVars, turnVars, adminVars
  <2>2. LeasesMatchPC'
    BY <1>6 DEF TypeOK, LeasesMatchPC, AskForTools, BorrowGoto, turnVars, Leased
  <2>3. LeaseCount' /\ AdminsMatchPC' /\ DrainLeavesNobody' /\ OpenHasSender' /\ ForceReachesHolders'
    BY <1>6 DEF LeaseCount, Users, AdminsMatchPC, DrainLeavesNobody, OpenHasSender,
       ForceReachesHolders, Signalled, AskForTools, BorrowGoto, hostVars, turnVars, adminVars
  <2> QED BY <2>1, <2>2, <2>3
<1>7. CASE DispatchTools(b)
  <2>1. TypeOK'
    BY <1>7 DEF TypeOK, DispatchTools, BorrowGoto, BorrowerPC, hostVars, turnVars, adminVars
  <2>2. LeasesMatchPC'
    BY <1>7 DEF TypeOK, LeasesMatchPC, DispatchTools, BorrowGoto, turnVars, Leased
  <2>3. LeaseCount' /\ AdminsMatchPC' /\ DrainLeavesNobody' /\ OpenHasSender' /\ ForceReachesHolders'
    BY <1>7 DEF LeaseCount, Users, AdminsMatchPC, DrainLeavesNobody, OpenHasSender,
       ForceReachesHolders, Signalled, DispatchTools, BorrowGoto, hostVars, turnVars, adminVars
  <2> QED BY <2>1, <2>2, <2>3
<1> QED BY <1>1, <1>2, <1>3, <1>4, <1>5, <1>6, <1>7 DEF BorrowerStep, Answered

LEMMA RemoverPreserves ==
    ASSUME IInv, NEW r \in Removers, RemoveEntry(r) \/ RemoverStep(r)
    PROVE  IInv'
<1> USE DEF IInv
<1>1. CASE RemoveEntry(r)
  <2>a. PICK p \in Providers, mode \in Modes :
          /\ pool[p] # Absent
          /\ pool' = [pool EXCEPT ![p] = Absent]
          /\ remover' = [remover EXCEPT ![r] = [pc |-> IF mode = "drain" THEN "drain" ELSE "signal",
                                               entry |-> PoolEntry(p), mode |-> mode]]
    BY <1>1 DEF RemoveEntry
  <2>b. PoolEntry(p) \in Entries /\ mode \in {"drain", "force"}
    BY <2>a, BoundsAssumption, ModesAssumption DEF TypeOK, PoolEntry, Entries, Generations,
       Absent
  <2>c. /\ pool' \in [Providers -> 0 .. MaxGen]
        /\ remover' \in [Removers -> RemoverType]
        /\ remover'[r].entry = PoolEntry(p) /\ remover'[r].mode = mode
        /\ remover'[r].pc = IF mode = "drain" THEN "drain" ELSE "signal"
        /\ \A q \in Removers : q # r => remover'[q] = remover[q]
    BY <2>a, <2>b, BoundsAssumption DEF TypeOK, RemoverType, Absent
  <2>1. TypeOK'
    BY <1>1, <2>c DEF TypeOK, RemoveEntry, turnVars, borrowerVars
  <2>2. AdminsMatchPC'
    <3>1. \A q \in Providers : pool'[q] = IF q = p THEN Absent ELSE pool[q]
      BY <2>a DEF TypeOK
    <3>2. \A q \in Providers : pool'[q] <= registered[q]
      BY <3>1 DEF AdminsMatchPC, TypeOK, Absent
    <3>3. /\ PoolEntry(p)[1] = p /\ PoolEntry(p)[2] = pool[p] /\ PoolEntry(p)[2] <= registered[p]
          /\ pool'[p] # PoolEntry(p)[2]
      BY <2>a, <3>1 DEF PoolEntry, AdminsMatchPC
    <3>4. \A e \in Entries : e[1] \in Providers /\ e[2] # Absent
      BY DEF Entries, Generations, Absent
    <3>5. ASSUME NEW q \in Removers, q # r, remover[q].pc # "idle"
          PROVE  pool'[remover[q].entry[1]] # remover[q].entry[2]
      BY <3>1, <3>4, <3>5 DEF AdminsMatchPC
    <3> QED BY <1>1, <2>b, <2>c, <3>2, <3>3, <3>5 DEF AdminsMatchPC, RemoveEntry
  <2>3. DrainLeavesNobody'
    BY <1>1, <2>c DEF DrainLeavesNobody, RemoveEntry
  <2>4. ForceReachesHolders'
    BY <1>1, <2>c DEF ForceReachesHolders, RemoveEntry, turnVars, Signalled
  <2>5. LeaseCount' /\ LeasesMatchPC' /\ OpenHasSender'
    BY <1>1 DEF LeaseCount, Users, LeasesMatchPC, Leased, OpenHasSender, RemoveEntry,
       turnVars, borrowerVars
  <2> QED BY <2>1, <2>2, <2>3, <2>4, <2>5
<1>2. CASE DrainDone(r)
  <2>a. /\ remover' \in [Removers -> RemoverType]
        /\ \A q \in Removers :
             /\ remover'[q].entry = remover[q].entry
             /\ remover'[q].mode = remover[q].mode
             /\ remover'[q].pc = IF q = r THEN "cleanup" ELSE remover[q].pc
    BY <1>2, RemoverMoves DEF DrainDone
  <2>1. TypeOK'
    BY <1>2, <2>a DEF TypeOK, DrainDone, hostVars, turnVars, borrowerVars
  <2>2. AdminsMatchPC'
    BY <1>2, <2>a, NullsAssumption DEF AdminsMatchPC, DrainDone, RemoverGoto, hostVars,
       Entries, Generations
  <2>3. DrainLeavesNobody'
    <3>1. remover[r].entry \in Entries
      BY <1>2 DEF AdminsMatchPC, DrainDone, RemoverGoto
    <3>2. \A h \in Holders : lease[h] # remover[r].entry
      BY <1>2, <3>1, NobodyCounted DEF DrainDone
    <3> QED BY <1>2, <2>a, <3>2 DEF DrainLeavesNobody, DrainDone
  <2>4. ForceReachesHolders'
    BY <1>2, <2>a DEF ForceReachesHolders, AdminsMatchPC, TypeOK, RemoverType, DrainDone,
       hostVars, turnVars, RemoverGoto, Signalled
  <2>5. LeaseCount' /\ LeasesMatchPC' /\ OpenHasSender'
    BY <1>2 DEF LeaseCount, Users, LeasesMatchPC, Leased, OpenHasSender, DrainDone,
       hostVars, turnVars, borrowerVars
  <2> QED BY <2>1, <2>2, <2>3, <2>4, <2>5
<1>3. CASE ForceSignal(r)
  <2>a. /\ remover' \in [Removers -> RemoverType]
        /\ \A q \in Removers :
             /\ remover'[q].entry = remover[q].entry
             /\ remover'[q].mode = remover[q].mode
             /\ remover'[q].pc = IF q = r THEN "grace" ELSE remover[q].pc
    BY <1>3, RemoverMoves DEF ForceSignal
  <2>1. TypeOK'
    BY <1>3, <2>a DEF TypeOK, ForceSignal, hostVars, borrowerVars, RxState
  <2>2. AdminsMatchPC'
    BY <1>3, <2>a, NullsAssumption DEF AdminsMatchPC, ForceSignal, RemoverGoto, hostVars,
       Entries, Generations
  <2>3. DrainLeavesNobody'
    BY <1>3, <2>a DEF DrainLeavesNobody, AdminsMatchPC, ForceSignal
  <2>4. OpenHasSender'
    BY <1>3 DEF TypeOK, OpenHasSender, ForceSignal, hostVars
  <2>5. ForceReachesHolders'
    <3>1. ASSUME NEW u \in Turns, lease[MainLease(u)] = remover[r].entry
          PROVE  cancel_rx'[u] # "open"
      <4>1. provider[u] = remover[r].entry[1]
        BY <1>3, <3>1, NullsAssumption DEF LeasesMatchPC, AdminsMatchPC, ForceSignal,
           RemoverGoto, Entries, Generations
      <4> QED BY <1>3, <4>1 DEF OpenHasSender, ForceSignal
    <3>2. \A u \in Turns : cancel_rx'[u] = "open" => cancel_rx[u] = "open"
      BY <1>3 DEF ForceSignal
    <3> QED BY <1>3, <2>a, <3>1, <3>2 DEF ForceReachesHolders, ForceSignal, Signalled
  <2>6. LeaseCount' /\ LeasesMatchPC'
    BY <1>3 DEF LeaseCount, Users, LeasesMatchPC, Leased, ForceSignal, hostVars,
       borrowerVars
  <2> QED BY <2>1, <2>2, <2>3, <2>4, <2>5, <2>6
<1>4. CASE GraceOver(r)
  <2>a. PICK to \in {"abort", "cleanup"} :
          /\ remover' \in [Removers -> RemoverType]
          /\ remover[r].pc = "grace"
          /\ \A q \in Removers :
               /\ remover'[q].entry = remover[q].entry
               /\ remover'[q].mode = remover[q].mode
               /\ remover'[q].pc = IF q = r THEN to ELSE remover[q].pc
    BY <1>4, RemoverMoves DEF GraceOver
  <2>1. TypeOK'
    BY <1>4, <2>a DEF TypeOK, GraceOver, hostVars, turnVars, borrowerVars
  <2>2. AdminsMatchPC'
    BY <1>4, <2>a DEF AdminsMatchPC, GraceOver, hostVars
  <2>3. DrainLeavesNobody'
    BY <1>4, <2>a DEF DrainLeavesNobody, AdminsMatchPC, GraceOver
  <2>4. ForceReachesHolders'
    BY <1>4, <2>a DEF ForceReachesHolders, GraceOver, turnVars, Signalled
  <2>5. LeaseCount' /\ LeasesMatchPC' /\ OpenHasSender'
    BY <1>4 DEF LeaseCount, Users, LeasesMatchPC, Leased, OpenHasSender, GraceOver,
       hostVars, turnVars, borrowerVars
  <2> QED BY <2>1, <2>2, <2>3, <2>4, <2>5
<1>5. CASE AbortHandles(r)
  <2>a. /\ remover' \in [Removers -> RemoverType]
        /\ \A q \in Removers :
             /\ remover'[q].entry = remover[q].entry
             /\ remover'[q].mode = remover[q].mode
             /\ remover'[q].pc = IF q = r THEN "cleanup" ELSE remover[q].pc
    BY <1>5, RemoverMoves DEF AbortHandles
  <2>1. TypeOK'
    BY <1>5, <2>a DEF TypeOK, AbortHandles, borrowerVars
  <2>2. AdminsMatchPC'
    BY <1>5, <2>a, NullsAssumption DEF AdminsMatchPC, AbortHandles, RemoverGoto, Entries,
       Generations
  <2>3. DrainLeavesNobody'
    BY <1>5, <2>a DEF DrainLeavesNobody, AdminsMatchPC, AbortHandles, RemoverGoto
  <2>4. ForceReachesHolders'
    BY <1>5, <2>a DEF ForceReachesHolders, AdminsMatchPC, TypeOK, RemoverType, AbortHandles,
       RemoverGoto, Signalled
  <2>5. LeaseCount' /\ LeasesMatchPC' /\ OpenHasSender'
    BY <1>5 DEF LeaseCount, Users, LeasesMatchPC, Leased, OpenHasSender, AbortHandles,
       borrowerVars
  <2> QED BY <2>1, <2>2, <2>3, <2>4, <2>5
<1>6. CASE RemoveSender(r)
  <2>a. /\ remover' \in [Removers -> RemoverType]
        /\ \A q \in Removers :
             /\ remover'[q].entry = remover[q].entry
             /\ remover'[q].mode = remover[q].mode
             /\ remover'[q].pc = IF q = r THEN "done" ELSE remover[q].pc
    BY <1>6, RemoverMoves DEF RemoveSender
  <2>1. TypeOK'
    BY <1>6, <2>a DEF TypeOK, RemoveSender, borrowerVars, RxState
  <2>2. AdminsMatchPC'
    BY <1>6, <2>a, NullsAssumption DEF AdminsMatchPC, RemoveSender, RemoverGoto, Entries,
       Generations
  <2>3. DrainLeavesNobody'
    BY <1>6, <2>a DEF DrainLeavesNobody, AdminsMatchPC, RemoveSender, RemoverGoto
  <2>4. OpenHasSender'
    BY <1>6 DEF TypeOK, OpenHasSender, RemoveSender
  <2>5. ForceReachesHolders'
    BY <1>6, <2>a DEF ForceReachesHolders, AdminsMatchPC, TypeOK, RemoverType, RemoveSender,
       RemoverGoto, Signalled
  <2>6. LeaseCount' /\ LeasesMatchPC'
    BY <1>6 DEF LeaseCount, Users, LeasesMatchPC, Leased, RemoveSender, borrowerVars
  <2> QED BY <2>1, <2>2, <2>3, <2>4, <2>5, <2>6
<1>7. CASE DrainPoll(r)
  BY <1>7, StutterPreserves DEF DrainPoll
<1> QED BY <1>1, <1>2, <1>3, <1>4, <1>5, <1>6, <1>7 DEF TurnStep, BorrowerStep, RemoverStep

LEMMA AdderPreserves ==
    ASSUME IInv, NEW a \in Adders, InsertEntry(a) \/ CreateSender(a)
    PROVE  IInv'
<1> USE DEF IInv
<1>1. CASE InsertEntry(a)
  <2>a. PICK p \in Providers :
          /\ pool[p] = Absent /\ registered[p] < MaxGen
          /\ registered' = [registered EXCEPT ![p] = registered[p] + 1]
          /\ pool' = [pool EXCEPT ![p] = registered[p] + 1]
          /\ adder' = [adder EXCEPT ![a] = [pc |-> "sender", id |-> p]]
    BY <1>1 DEF InsertEntry
  <2>b. registered[p] \in 0 .. MaxGen /\ registered[p] + 1 \in 0 .. MaxGen
    BY <2>a, BoundsAssumption DEF TypeOK
  <2>c. /\ pool' \in [Providers -> 0 .. MaxGen]
        /\ registered' \in [Providers -> 0 .. MaxGen]
        /\ adder' \in [Adders -> AdderType]
        /\ adder'[a].id = p
        /\ \A q \in Adders : q # a => adder'[q] = adder[q]
        /\ \A q \in Providers :
             /\ pool'[q] = IF q = p THEN registered[p] + 1 ELSE pool[q]
             /\ registered'[q] = IF q = p THEN registered[p] + 1 ELSE registered[q]
    BY <2>a, <2>b DEF TypeOK, AdderType
  <2>1. TypeOK'
    BY <1>1, <2>c DEF TypeOK, InsertEntry, turnVars, borrowerVars
  <2>2. AdminsMatchPC'
    <3>1. \A q \in Providers : pool'[q] <= registered'[q]
      BY <2>b, <2>c DEF AdminsMatchPC, TypeOK
    <3>2. ASSUME NEW r \in Removers, NEW e \in Entries, e[2] <= registered[e[1]], pool[e[1]] # e[2]
          PROVE  e[2] <= registered'[e[1]] /\ pool'[e[1]] # e[2]
      <4>1. e[1] \in Providers /\ e[2] \in 1 .. MaxGen
        BY DEF Entries, Generations
      <4> QED BY <2>b, <2>c, <3>2, <4>1, BoundsAssumption DEF TypeOK
    <3> QED BY <1>1, <2>c, <3>1, <3>2 DEF AdminsMatchPC, InsertEntry
  <2>3. LeaseCount' /\ LeasesMatchPC' /\ DrainLeavesNobody' /\ OpenHasSender' /\ ForceReachesHolders'
    BY <1>1 DEF LeaseCount, Users, LeasesMatchPC, Leased, DrainLeavesNobody, OpenHasSender,
       ForceReachesHolders, Signalled, InsertEntry, turnVars, borrowerVars
  <2> QED BY <2>1, <2>2, <2>3
<1>2. CASE CreateSender(a)
  <2>a. adder[a].id \in Providers
    BY <1>2 DEF AdminsMatchPC, CreateSender
  <2>1. TypeOK'
    BY <1>2, <2>a DEF TypeOK, CreateSender, turnVars, borrowerVars, AdderType
  <2>2. AdminsMatchPC'
    BY <1>2 DEF TypeOK, AdminsMatchPC, CreateSender
  <2>3. OpenHasSender'
    BY <1>2 DEF TypeOK, OpenHasSender, CreateSender, turnVars
  <2>4. LeaseCount' /\ LeasesMatchPC' /\ DrainLeavesNobody' /\ ForceReachesHolders'
    BY <1>2 DEF LeaseCount, Users, LeasesMatchPC, Leased, DrainLeavesNobody,
       ForceReachesHolders, Signalled, CreateSender, turnVars, borrowerVars
  <2> QED BY <2>1, <2>2, <2>3, <2>4
<1> QED BY <1>1, <1>2 DEF TurnStep, BorrowerStep, RemoverStep

LEMMA SwitcherPreserves ==
    ASSUME IInv, NEW s \in Switchers, CheckConnected(s) \/ SwitchActive(s)
    PROVE  IInv'
<1> USE DEF IInv
<1>1. CASE CheckConnected(s)
  <2>1. TypeOK'
    BY <1>1 DEF TypeOK, CheckConnected, hostVars, turnVars, borrowerVars, SwitcherType
  <2>2. AdminsMatchPC'
    BY <1>1 DEF TypeOK, AdminsMatchPC, CheckConnected, hostVars
  <2>3. LeaseCount' /\ LeasesMatchPC' /\ DrainLeavesNobody' /\ OpenHasSender' /\ ForceReachesHolders'
    BY <1>1 DEF LeaseCount, Users, LeasesMatchPC, Leased, DrainLeavesNobody, OpenHasSender,
       ForceReachesHolders, Signalled, CheckConnected, hostVars, turnVars, borrowerVars
  <2> QED BY <2>1, <2>2, <2>3
<1>2. CASE SwitchActive(s)
  <2>a. switcher[s].id \in Providers
    BY <1>2 DEF AdminsMatchPC, SwitchActive
  <2>1. TypeOK'
    BY <1>2, <2>a DEF TypeOK, SwitchActive, turnVars, borrowerVars, SwitcherType
  <2>2. AdminsMatchPC'
    BY <1>2 DEF TypeOK, AdminsMatchPC, SwitchActive
  <2>3. LeaseCount' /\ LeasesMatchPC' /\ DrainLeavesNobody' /\ OpenHasSender' /\ ForceReachesHolders'
    BY <1>2 DEF LeaseCount, Users, LeasesMatchPC, Leased, DrainLeavesNobody, OpenHasSender,
       ForceReachesHolders, Signalled, SwitchActive, turnVars, borrowerVars
  <2> QED BY <2>1, <2>2, <2>3
<1> QED BY <1>1, <1>2 DEF TurnStep, BorrowerStep, RemoverStep

LEMMA CallPreserves ==
    ASSUME IInv, NEW c \in Calls, CallCompletes(c)
    PROVE  IInv'
<1> USE DEF IInv
<1>1. CASE CallCompletes(c)
  <2>1. TypeOK'
    BY <1>1 DEF TypeOK, CallCompletes, hostVars, borrowerVars, adminVars
  <2>2. LeaseCount' /\ LeasesMatchPC' /\ AdminsMatchPC' /\ DrainLeavesNobody' /\ OpenHasSender' /\ ForceReachesHolders'
    BY <1>1 DEF LeaseCount, Users, LeasesMatchPC, Leased, AdminsMatchPC, DrainLeavesNobody,
       OpenHasSender, ForceReachesHolders, Signalled, CallCompletes, hostVars, borrowerVars,
       adminVars
  <2> QED BY <2>1, <2>2
<1> QED BY <1>1 DEF TurnStep, BorrowerStep, RemoverStep

-----------------------------------------------------------------------------
\* The theorems.

THEOREM Initially == Init => IInv
<1> SUFFICES ASSUME Init PROVE IInv
  OBVIOUS
<1>1. PICK connected \in SUBSET Providers :
        /\ pool = [p \in Providers |-> IF p \in connected THEN 1 ELSE Absent]
        /\ registered = pool
        /\ cancel_signal = connected
        /\ active_provider \in connected
  BY DEF Init
<1>2. TypeOK
  <2>1. pool \in [Providers -> 0 .. MaxGen] /\ registered \in [Providers -> 0 .. MaxGen]
    BY <1>1, BoundsAssumption DEF Absent
  <2>2. iterations \in [Turns -> 0 .. MaxIterations]
    BY BoundsAssumption DEF Init
  <2> QED BY <1>1, <2>1, <2>2 DEF Init, TypeOK, TurnPC, BorrowerPC, RxState, Outcomes, RemoverType, AdderType,
       SwitcherType
<1>3. LeaseCount
  <2>1. \A e \in Entries : Users(e) = {}
    BY NullsAssumption DEF Init, Users, Entries, Generations
  <2> QED BY <2>1, FS_EmptySet DEF Init, LeaseCount
<1>4. LeasesMatchPC
  BY HolderFacts DEF Init, LeasesMatchPC, Leased, InRoundTrip, Borrowers
<1>5. AdminsMatchPC
  BY <1>1, BoundsAssumption DEF Init, AdminsMatchPC, Absent
<1>6. DrainLeavesNobody /\ OpenHasSender /\ ForceReachesHolders
  BY DEF Init, DrainLeavesNobody, OpenHasSender, ForceReachesHolders, Signalled
<1> QED BY <1>2, <1>3, <1>4, <1>5, <1>6 DEF IInv

\* Every step of the host preserves the inductive invariant.
THEOREM Preserved == IInv /\ [Next]_vars => IInv'
<1> SUFFICES ASSUME IInv, [Next]_vars PROVE IInv'
  OBVIOUS
<1>1. CASE UNCHANGED vars
  BY <1>1, StutterPreserves
<1>2. CASE \E t \in Turns : Route(t) \/ TurnStep(t)
  BY <1>2, TurnPreserves
<1>3. CASE \E c \in Calls : CallCompletes(c)
  BY <1>3, CallPreserves
<1>4. CASE \/ \E l \in Listers : StartListing(l)
           \/ \E b \in Borrowers : BorrowerStep(b) \/ Answered(b)
  <2>1. Listers \subseteq Borrowers
    BY DEF Borrowers
  <2> QED BY <1>4, <2>1, BorrowerPreserves
<1>5. CASE \E r \in Removers : RemoveEntry(r) \/ RemoverStep(r)
  BY <1>5, RemoverPreserves
<1>6. CASE \E a \in Adders : InsertEntry(a) \/ CreateSender(a)
  BY <1>6, AdderPreserves
<1>7. CASE \E s \in Switchers : CheckConnected(s) \/ SwitchActive(s)
  BY <1>7, SwitcherPreserves
<1>8. CASE Quiescent
  BY <1>8, StutterPreserves DEF Quiescent
<1> QED BY <1>1, <1>2, <1>3, <1>4, <1>5, <1>6, <1>7, <1>8 DEF Next

THEOREM Inductive == Spec => []IInv
  BY Initially, Preserved, PTL DEF Spec

\* Every variable of the pool keeps its type; in particular no turn exceeds
\* its round trips and the lease counter, a usize in the code, stays a natural.
THEOREM Typing == Spec => []TypeOK
<1>1. IInv => TypeOK
  BY DEF IInv
<1> QED BY <1>1, Inductive, PTL

\* remove_provider(Drain): when the drain stops waiting the entry is free, and
\* it stays free, for any number of turns, subagents, listings and removals.
THEOREM DrainIsSafe == Spec => []DrainLeavesNobody
<1>1. IInv => DrainLeavesNobody
  BY DEF IInv
<1> QED BY <1>1, Inductive, PTL

\* remove_provider(Force): the signal misses no turn that holds the entry.
THEOREM ForceIsHeard == Spec => []ForceReachesHolders
<1>1. IInv => ForceReachesHolders
  BY DEF IInv
<1> QED BY <1>1, Inductive, PTL


-----------------------------------------------------------------------------
(* The abort handles.                                                      *)

\* A turn that waits is on a provider of the host; another turn has calls of its own.
LEMMA HandleStep ==
    ASSUME IInv, AwaitedCallIsAbortable, [Next]_vars PROVE AwaitedCallIsAbortable'
<1> USE DEF IInv, AwaitedCallIsAbortable
<1> TypeOK
  OBVIOUS
<1>1. \A t \in Turns : turn_pc[t] = "select" => provider[t] \in Providers /\ Call(t) \in Calls
  BY DEF TypeOK, LeasesMatchPC, InRoundTrip, Leased, Call, Calls
<1>2. ASSUME UNCHANGED <<turn_pc, provider, iterations, call, turn_handles>>
      PROVE  AwaitedCallIsAbortable'
  BY <1>2 DEF Call
<1>3. ASSUME NEW t \in Turns, Route(t) \/ HitLoopLimit(t) \/ Subscribe(t) \/ FindNoProvider(t)
                                \/ SelectDone(t) \/ SelectAborted(t) \/ SelectCancel(t)
                                \/ ReturnCancelled(t) \/ Respond(t) \/ RunTools(t)
                                \/ StartSubagent(t) \/ FinishSubagent(t)
      PROVE  AwaitedCallIsAbortable'
  BY <1>3 DEF TypeOK, Call, Goto, Return, hostVars, Route, HitLoopLimit, Subscribe, FindNoProvider,
     SelectDone, SelectAborted, SelectCancel, ReturnCancelled, Respond, RunTools, StartSubagent,
     FinishSubagent
<1>4. ASSUME NEW t \in Turns, AcquireLease(t) PROVE AwaitedCallIsAbortable'
  <2>1. /\ UNCHANGED <<provider, iterations, turn_handles>>
        /\ \A u \in Turns : turn_pc'[u] = "select" => u # t /\ turn_pc[u] = "select"
    BY <1>4 DEF AcquireLease, Goto, TypeOK
  <2>2. \A u \in Turns : u # t => Call(u) # Call(t)
    BY DEF Call
  <2>3. \A u \in Turns : turn_pc'[u] = "select" => call'[Call(u)] = call[Call(u)]
    BY <1>4, <1>1, <2>1, <2>2 DEF AcquireLease, TypeOK
  <2> QED BY <2>1, <2>3 DEF Call
<1>5. ASSUME NEW t \in Turns, RegisterHandle(t) PROVE AwaitedCallIsAbortable'
  <2>1. provider[t] \in Providers
    BY <1>5 DEF RegisterHandle, Goto, LeasesMatchPC
  <2>2. /\ UNCHANGED <<provider, iterations, call>>
        /\ \A u \in Turns : u # t => turn_pc'[u] = turn_pc[u]
        /\ \A p \in Providers : turn_handles[p] \subseteq turn_handles'[p]
        /\ Call(t) \in turn_handles'[provider[t]]
    BY <1>5, <2>1 DEF RegisterHandle, Goto, TypeOK
  <2> QED BY <1>1, <2>2 DEF Call
<1>6. ASSUME NEW t \in Turns, CleanHandles(t) PROVE AwaitedCallIsAbortable'
  <2>1. /\ UNCHANGED <<provider, iterations, call>>
        /\ \A u \in Turns : turn_pc'[u] = "select" => turn_pc[u] = "select"
        /\ \A p \in Providers : {c \in turn_handles[p] : call[c] = "running"} \subseteq turn_handles'[p]
    BY <1>6 DEF CleanHandles, Goto, TypeOK
  <2> QED BY <1>1, <2>1 DEF Call
<1>7. ASSUME NEW c \in Calls, CallCompletes(c) PROVE AwaitedCallIsAbortable'
  <2>1. /\ UNCHANGED <<turn_pc, provider, iterations, turn_handles>>
        /\ \A d \in Calls : call'[d] = "running" => call[d] = "running"
    BY <1>7 DEF CallCompletes, TypeOK, hostVars
  <2> QED BY <1>1, <2>1 DEF Call
<1>8. ASSUME NEW r \in Removers, AbortHandles(r) PROVE AwaitedCallIsAbortable'
  <2> DEFINE p == remover[r].entry[1]
  <2>1. p \in Providers
    BY <1>8 DEF AbortHandles, RemoverGoto, AdminsMatchPC, Entries
  <2>2. /\ UNCHANGED <<turn_pc, provider, iterations>>
        /\ \A d \in Calls : call'[d] = "running" => call[d] = "running" /\ d \notin turn_handles[p]
        /\ \A q \in Providers : q # p => turn_handles'[q] = turn_handles[q]
    BY <1>8, <2>1 DEF AbortHandles, TypeOK
  <2> HIDE DEF p
  <2> QED BY <1>1, <2>1, <2>2 DEF Call
<1>9. ASSUME NEW r \in Removers, RemoveEntry(r) \/ DrainPoll(r) \/ DrainDone(r) \/ ForceSignal(r)
                                    \/ GraceOver(r) \/ RemoveSender(r)
      PROVE  AwaitedCallIsAbortable'
  BY <1>2, <1>9 DEF RemoveEntry, DrainPoll, DrainDone, ForceSignal, GraceOver, RemoveSender,
     hostVars, turnVars, vars
<1>10. ASSUME NEW b \in Borrowers, BorrowerStep(b) \/ Answered(b) PROVE AwaitedCallIsAbortable'
  BY <1>2, <1>10 DEF BorrowerStep, Answered, ReadActive, Borrow, BorrowNothing, AskForTools,
     DispatchTools, GiveBack, hostVars, turnVars
<1>11. ASSUME NEW l \in Listers, StartListing(l) PROVE AwaitedCallIsAbortable'
  BY <1>2, <1>11 DEF StartListing, hostVars, turnVars
<1>12. ASSUME NEW a \in Adders, InsertEntry(a) \/ CreateSender(a) PROVE AwaitedCallIsAbortable'
  BY <1>2, <1>12 DEF InsertEntry, CreateSender, turnVars
<1>13. ASSUME NEW s \in Switchers, CheckConnected(s) \/ SwitchActive(s) PROVE AwaitedCallIsAbortable'
  BY <1>2, <1>13 DEF CheckConnected, SwitchActive, hostVars, turnVars
<1>14. CASE Quiescent \/ UNCHANGED vars
  BY <1>2, <1>14 DEF Quiescent, vars, hostVars, turnVars
<1> QED
  BY <1>3, <1>4, <1>5, <1>6, <1>7, <1>8, <1>9, <1>10, <1>11, <1>12, <1>13, <1>14
     DEF Next, TurnStep, RemoverStep

\* The call a turn waits for stays within reach of the hard abort, for any number of turns
\* that register and clean the handles of a provider (AwaitedCallIsAbortable).
THEOREM CallsStayAbortable == Spec => []AwaitedCallIsAbortable
<1>1. Init => AwaitedCallIsAbortable
  BY DEF Init, AwaitedCallIsAbortable
<1> QED BY <1>1, HandleStep, Inductive, PTL DEF Spec

-----------------------------------------------------------------------------
(* Who waits for whom.                                                     *)

\* From its spawn to the end of the round trip a turn has a call that was started, and a
\* turn that waits for its subagent has one at work.
StartedInv ==
    /\ \A t \in Turns : turn_pc[t] \in {"register", "select", "cancelling", "clean"} =>
         call[Call(t)] # "unspawned"
    /\ \A t \in Turns : turn_pc[t] = "subagent" => t \in SubagentTurns /\ borrower_pc[t] # "idle"

\* Every step keeps it.
LEMMA StartedStep == ASSUME IInv, StartedInv, [Next]_vars PROVE StartedInv'
<1> USE CallersAssumption DEF StartedInv
<1> TypeOK
  BY DEF IInv
<1>1. \A t \in Turns : turn_pc[t] \in InRoundTrip => Call(t) \in Calls
  BY DEF IInv, TypeOK, LeasesMatchPC, Call, Calls
<1>2. ASSUME UNCHANGED <<turn_pc, iterations>>,
             \A c \in Calls : call[c] # "unspawned" => call'[c] # "unspawned",
             \A t \in SubagentTurns : borrower_pc[t] # "idle" => borrower_pc'[t] # "idle"
      PROVE  StartedInv'
  BY <1>1, <1>2 DEF Call, InRoundTrip, Leased
<1>3. ASSUME NEW t \in Turns, Route(t) \/ HitLoopLimit(t) \/ Subscribe(t) \/ FindNoProvider(t)
                                \/ RegisterHandle(t) \/ SelectDone(t) \/ SelectAborted(t)
                                \/ SelectCancel(t) \/ ReturnCancelled(t) \/ CleanHandles(t)
                                \/ Respond(t) \/ RunTools(t)
      PROVE  StartedInv'
  BY <1>3 DEF TypeOK, Call, Goto, Return, hostVars, borrowerVars, Route, HitLoopLimit, Subscribe,
     FindNoProvider, RegisterHandle, SelectDone, SelectAborted, SelectCancel, ReturnCancelled,
     CleanHandles, Respond, RunTools
<1>4. ASSUME NEW t \in Turns, AcquireLease(t) PROVE StartedInv'
  <2>1. Call(t) \in Calls
    BY <1>1, <1>4 DEF AcquireLease, Goto, InRoundTrip
  <2>2. /\ UNCHANGED <<iterations, borrower_pc>> /\ turn_pc' = [turn_pc EXCEPT ![t] = "register"]
        /\ call' = [call EXCEPT ![Call(t)] = "running"]
    BY <1>4 DEF AcquireLease, Goto, borrowerVars
  <2>3. /\ call'[Call(t)] = "running"
        /\ \A c \in Calls : call[c] # "unspawned" => call'[c] # "unspawned"
    BY <2>1, <2>2 DEF TypeOK
  <2>4. \A u \in Turns : u # t => turn_pc'[u] = turn_pc[u]
    BY <2>2 DEF TypeOK
  <2>5. \A u \in Turns : Call(u)' = Call(u)
    BY <2>2 DEF Call
  <2>6. \A u \in Turns : turn_pc[u] \in {"register", "select", "cancelling", "clean"} =>
            Call(u) \in Calls
    BY <1>1 DEF InRoundTrip, Leased
  <2>7. ASSUME NEW u \in Turns, turn_pc'[u] \in {"register", "select", "cancelling", "clean"}
        PROVE  call'[Call(u)'] # "unspawned"
    <3>1. CASE u = t
      BY <2>3, <2>5, <3>1
    <3>2. CASE u # t
      BY <2>3, <2>4, <2>5, <2>6, <2>7, <3>2
    <3> QED BY <3>1, <3>2
  <2>8. \A u \in Turns : turn_pc'[u] = "subagent" => u \in SubagentTurns /\ borrower_pc'[u] # "idle"
    BY <2>2, <2>4 DEF TypeOK
  <2> QED BY <2>5, <2>7, <2>8
<1>5. ASSUME NEW t \in Turns, StartSubagent(t) \/ FinishSubagent(t) PROVE StartedInv'
  BY <1>5 DEF TypeOK, Borrowers, Call, Goto, hostVars, StartSubagent, FinishSubagent
<1>6. ASSUME NEW c \in Calls, CallCompletes(c) PROVE StartedInv'
  BY <1>2, <1>6 DEF CallCompletes, TypeOK, borrowerVars
<1>7. ASSUME NEW r \in Removers, AbortHandles(r) PROVE StartedInv'
  BY <1>2, <1>7 DEF AbortHandles, TypeOK, borrowerVars
<1>8. ASSUME NEW r \in Removers, RemoveEntry(r) \/ DrainPoll(r) \/ DrainDone(r) \/ ForceSignal(r)
                                    \/ GraceOver(r) \/ RemoveSender(r)
      PROVE  StartedInv'
  BY <1>2, <1>8 DEF RemoveEntry, DrainPoll, DrainDone, ForceSignal, GraceOver, RemoveSender,
     hostVars, turnVars, borrowerVars, vars
<1>9. ASSUME NEW b \in Borrowers, BorrowerStep(b) \/ Answered(b) PROVE StartedInv'
  <2>1. /\ UNCHANGED <<turn_pc, iterations, call>>
        /\ \E place \in {"lease", "leased", "dispatch", "returned"} :
              borrower_pc' = [borrower_pc EXCEPT ![b] = place]
    BY <1>9 DEF BorrowerStep, Answered, ReadActive, Borrow, BorrowNothing, AskForTools,
       DispatchTools, GiveBack, BorrowGoto, hostVars, turnVars
  <2>2. \A t \in SubagentTurns : borrower_pc[t] # "idle" => borrower_pc'[t] # "idle"
    BY <2>1 DEF TypeOK, Borrowers
  <2> QED BY <1>2, <2>1, <2>2
<1>10. ASSUME NEW l \in Listers, StartListing(l) PROVE StartedInv'
  BY <1>2, <1>10 DEF StartListing, BorrowGoto, TypeOK, Borrowers, hostVars, turnVars
<1>11. ASSUME NEW a \in Adders, InsertEntry(a) \/ CreateSender(a) PROVE StartedInv'
  BY <1>2, <1>11 DEF InsertEntry, CreateSender, turnVars, borrowerVars
<1>12. ASSUME NEW s \in Switchers, CheckConnected(s) \/ SwitchActive(s) PROVE StartedInv'
  BY <1>2, <1>12 DEF CheckConnected, SwitchActive, hostVars, turnVars, borrowerVars
<1>13. CASE Quiescent \/ UNCHANGED vars
  BY <1>2, <1>13 DEF Quiescent, vars, hostVars, turnVars, borrowerVars
<1> QED
  BY <1>3, <1>4, <1>5, <1>6, <1>7, <1>8, <1>9, <1>10, <1>11, <1>12, <1>13
     DEF Next, TurnStep, RemoverStep

\* A turn that cannot go on waits for a provider or for its subagent; a subagent for a
\* provider or its own tools, a listing only for a provider.
WaitsForCall(t)     == turn_pc[t] = "select" /\ call[Call(t)] = "running"
WaitsForSubagent(t) == t \in SubagentTurns /\ turn_pc[t] = "subagent"
                         /\ borrower_pc[t] \in {"pick", "lease", "leased", "dispatch"}
CanGo(t) ==
    \/ turn_pc[t] \in {"iterate", "subscribed", "register", "cancelling", "clean", "respond",
                      "tools"}
    \/ turn_pc[t] = "select" /\ (call[Call(t)] \in {"done", "aborted"}
                                   \/ cancel_rx[t] \in {"signalled", "closed", "fallback"})
    \/ turn_pc[t] = "subagent" /\ borrower_pc[t] = "returned"

\* Turns wait for providers and subagents only, and a drain that waits has somebody to wait
\* for: a turn in its round trip or a borrower, each with a lease on that very entry.
OnlyProvidersAreAwaited ==
    /\ \A t \in Turns : turn_pc[t] \notin {"idle", "done"} =>
         CanGo(t) \/ WaitsForCall(t) \/ WaitsForSubagent(t)
    /\ \A r \in Removers :
         remover[r].pc = "drain" /\ active_turns[remover[r].entry] # 0 =>
            \/ \E t \in Turns : lease[MainLease(t)] = remover[r].entry
                                  /\ (CanGo(t) \/ WaitsForCall(t))
            \/ \E b \in Borrowers : lease[BorrowLease(b)] = remover[r].entry
                                      /\ borrower_pc[b] \in {"leased", "dispatch"}

\* A drain never waits for a lease that nobody holds, and no turn for a call that was not
\* made: once providers answer and subagents end there is nothing else to wait for, for any
\* number of turns, subagents, listings and removals.
THEOREM NothingElseIsAwaited == Spec => []OnlyProvidersAreAwaited
<1>1. Init => StartedInv
  BY CallersAssumption DEF Init, StartedInv
<1>2. ASSUME IInv, StartedInv PROVE OnlyProvidersAreAwaited
  <2>1. TypeOK /\ LeaseCount /\ LeasesMatchPC /\ AdminsMatchPC
    BY <1>2 DEF IInv
  <2>2. ASSUME NEW t \in Turns, turn_pc[t] \notin {"idle", "done"}
        PROVE  CanGo(t) \/ WaitsForCall(t) \/ WaitsForSubagent(t)
    <3>1. CASE turn_pc[t] = "select"
      <4>1. Call(t) \in Calls /\ call[Call(t)] # "unspawned"
        BY <1>2, <2>1, <3>1 DEF TypeOK, LeasesMatchPC, InRoundTrip, Leased, Call, Calls, StartedInv
      <4>2. call[Call(t)] \in {"running", "done", "aborted"}
        BY <2>1, <4>1 DEF TypeOK
      <4> QED BY <3>1, <4>2 DEF CanGo, WaitsForCall
    <3>2. CASE turn_pc[t] = "subagent"
      <4>1. t \in SubagentTurns
        BY <1>2, <3>2 DEF StartedInv
      <4> QED BY <1>2, <2>1, <3>2, <4>1 DEF TypeOK, BorrowerPC, Borrowers, StartedInv, CanGo,
               WaitsForSubagent
    <3> QED BY <2>1, <2>2, <3>1, <3>2 DEF TypeOK, TurnPC, CanGo
  <2>3. ASSUME NEW r \in Removers, remover[r].pc = "drain", active_turns[remover[r].entry] # 0
        PROVE  \/ \E t \in Turns : lease[MainLease(t)] = remover[r].entry
                                     /\ (CanGo(t) \/ WaitsForCall(t))
               \/ \E b \in Borrowers : lease[BorrowLease(b)] = remover[r].entry
                                         /\ borrower_pc[b] \in {"leased", "dispatch"}
    <3> DEFINE e == remover[r].entry
    <3>1. e \in Entries /\ e # NoEntry
      BY <2>1, <2>3, NullsAssumption DEF AdminsMatchPC, Entries, Generations
    <3>2. Users(e) # {}
      BY <2>1, <2>3, <3>1, FS_EmptySet DEF LeaseCount
    <3>3. PICK h \in Holders : lease[h] = e
      BY <3>2 DEF Users
    <3>4. ASSUME NEW t \in Turns, h = MainLease(t)
          PROVE  lease[MainLease(t)] = e /\ (CanGo(t) \/ WaitsForCall(t))
      <4>1. turn_pc[t] \in Leased
        BY <2>1, <3>1, <3>3, <3>4 DEF LeasesMatchPC
      <4> QED BY <2>2, <3>3, <3>4, <4>1 DEF Leased, WaitsForSubagent
    <3>5. ASSUME NEW b \in Borrowers, h = BorrowLease(b)
          PROVE  lease[BorrowLease(b)] = e /\ borrower_pc[b] \in {"leased", "dispatch"}
      BY <2>1, <3>1, <3>3, <3>5 DEF LeasesMatchPC
    <3> QED BY <3>3, <3>4, <3>5 DEF Holders
  <2> QED BY <2>2, <2>3 DEF OnlyProvidersAreAwaited
<1> QED BY <1>1, <1>2, StartedStep, Inductive, PTL DEF Spec

-----------------------------------------------------------------------------
(* The life of an entry.                                                   *)

Phases == [e \in Entries |-> Phase(e)]
Forced == {e \in Entries : \E r \in Removals(e) : remover[r].mode = "force"}
Held   == [e \in Entries |-> {h \in Holders : lease[h] = e}]

LifeStep == [Lifecycle!Next]_<<Phases, Forced, Held>>

\* Entries seen from the abstract specification are the same.
LEMMA SameEntries == Lifecycle!Entries = Entries
BY DEF Lifecycle!Entries, Entries, Generations

\* A step in the life of one entry.
LEMMA Lives ==
    ASSUME NEW e \in Entries,
           \/ Lifecycle!Register(e) \/ Lifecycle!Retire(e) \/ Lifecycle!Discard(e)
           \/ \E h \in Holders : Lifecycle!Acquire(h, e) \/ Lifecycle!Release(h, e)
    PROVE  LifeStep
<1>1. e \in Lifecycle!Entries
  BY SameEntries
<1>2. Lifecycle!Next
  BY <1>1 DEF Lifecycle!Next
<1> QED BY <1>2 DEF LifeStep

\* An entry lives as the pool, the registrations and the removals say.
LEMMA PhaseIsKept ==
    ASSUME UNCHANGED <<pool, registered>>,
           \A r \in Removers : /\ remover'[r].entry = remover[r].entry
                               /\ remover'[r].mode = remover[r].mode
                               /\ remover'[r].pc = "done" <=> remover[r].pc = "done"
    PROVE  UNCHANGED <<Phases, Forced>>
<1>1. ASSUME NEW e \in Entries PROVE Removals(e)' = Removals(e)
  BY DEF Removals
<1>2. ASSUME NEW e \in Entries PROVE Phase(e)' = Phase(e)
  BY <1>1 DEF Phase, Removals
<1>3. Phases' = Phases
  BY <1>2 DEF Phases
<1>4. Forced' = Forced
  BY <1>1 DEF Forced, Removals
<1> QED BY <1>3, <1>4

\* Who holds an entry is what the leases say.
LEMMA HeldIsKept == ASSUME UNCHANGED lease PROVE UNCHANGED Held
BY DEF Held

\* A pooled entry is one of those registered, and no removal has it.
LEMMA PooledEntry ==
    ASSUME IInv, NEW p \in Providers, pool[p] # Absent
    PROVE  /\ PoolEntry(p) \in Entries
           /\ Phase(PoolEntry(p)) = "pooled"
           /\ Removals(PoolEntry(p)) = {}
           /\ PoolEntry(p) \notin Forced
<1>1. PoolEntry(p) \in Entries
  BY BoundsAssumption DEF IInv, TypeOK, PoolEntry, Entries, Generations, Absent
<1>2. Phase(PoolEntry(p)) = "pooled"
  BY DEF IInv, TypeOK, AdminsMatchPC, Phase, PoolEntry
<1>3. Removals(PoolEntry(p)) = {}
  BY <1>1, NullsAssumption DEF IInv, AdminsMatchPC, Removals, PoolEntry, Entries, Generations
<1> QED BY <1>1, <1>2, <1>3 DEF Forced

\* Taking a lease is Acquire.
LEMMA Acquires ==
    ASSUME IInv, NEW h \in Holders, NEW p \in Providers, pool[p] # Absent, lease[h] = NoEntry,
           Lease(h, PoolEntry(p)), UNCHANGED <<pool, registered, remover>>
    PROVE  LifeStep
<1>1. PICK e \in Entries : e = PoolEntry(p) /\ Phase(e) = "pooled"
  BY PooledEntry
<1>2. UNCHANGED <<Phases, Forced>>
  BY PhaseIsKept
<1>3. NoEntry \notin Entries
  BY NullsAssumption DEF Entries, Generations
<1>4. \A f \in Entries : h \notin Held[f]
  BY <1>3 DEF Held
<1>5. \A g \in Holders : lease'[g] = IF g = h THEN e ELSE lease[g]
  BY <1>1 DEF Lease, IInv, TypeOK
<1>6. \A f \in Entries : Held'[f] = IF f = e THEN Held[f] \cup {h} ELSE Held[f]
  BY <1>3, <1>5 DEF Held
<1>7. Held' = [Held EXCEPT ![e] = @ \cup {h}]
  BY <1>6 DEF Held
<1>8. Phases[e] = "pooled"
  BY <1>1 DEF Phases
<1>9. Lifecycle!Acquire(h, e)
  BY <1>2, <1>4, <1>7, <1>8, SameEntries DEF Lifecycle!Acquire, Phases, Forced, Held
<1> QED BY <1>9, Lives

\* Dropping one is Release.
LEMMA Releases ==
    ASSUME IInv, NEW h \in Holders, lease[h] \in Entries, DropLease(h),
           UNCHANGED <<pool, registered, remover>>
    PROVE  LifeStep
<1>0. PICK e \in Entries : e = lease[h]
  OBVIOUS
<1>1. UNCHANGED <<Phases, Forced>>
  BY PhaseIsKept
<1>2. NoEntry \notin Entries
  BY NullsAssumption DEF Entries, Generations
<1>3. \A g \in Holders : lease'[g] = IF g = h THEN NoEntry ELSE lease[g]
  BY DEF DropLease, IInv, TypeOK
<1>4. \A f \in Entries : Held'[f] = IF f = e THEN Held[f] \ {h} ELSE Held[f]
  BY <1>0, <1>2, <1>3 DEF Held
<1>5. Held' = [Held EXCEPT ![e] = @ \ {h}]
  BY <1>4 DEF Held
<1>6. h \in Held[e]
  BY <1>0 DEF Held
<1>7. Lifecycle!Release(h, e)
  BY <1>1, <1>5, <1>6 DEF Lifecycle!Release, Phases, Forced, Held
<1> QED BY <1>7, Lives

\* Taking an entry out of the pool is Retire.
LEMMA Retires == ASSUME IInv, NEW r \in Removers, RemoveEntry(r) PROVE LifeStep
<1>1. PICK p \in Providers, mode \in Modes :
        /\ pool[p] # Absent
        /\ pool' = [pool EXCEPT ![p] = Absent]
        /\ remover' = [remover EXCEPT ![r] =
                        [pc |-> IF mode = "drain" THEN "drain" ELSE "signal",
                         entry |-> PoolEntry(p), mode |-> mode]]
  BY DEF RemoveEntry
<1>2. PICK e \in Entries : /\ e = PoolEntry(p) /\ Phase(e) = "pooled" /\ Removals(e) = {}
                           /\ e \notin Forced
  BY <1>1, PooledEntry
<1>3. UNCHANGED <<registered, lease>> /\ remover[r].pc = "idle"
  BY DEF RemoveEntry
<1>4. remover[r].entry = NoEntry /\ NoEntry \notin Entries
  BY <1>3, NullsAssumption DEF IInv, AdminsMatchPC, Entries, Generations
<1>5. /\ remover'[r].entry = e /\ remover'[r].pc # "done" /\ remover'[r].mode = mode
      /\ \A q \in Removers \ {r} : remover'[q] = remover[q]
  BY <1>1, <1>2 DEF IInv, TypeOK
<1>6. \A f \in Entries : Removals(f)' = IF f = e THEN {r} ELSE Removals(f)
  BY <1>2, <1>4, <1>5 DEF Removals
<1>7. ASSUME NEW f \in Entries
      PROVE  Phase(f)' = IF f = e THEN "retired" ELSE Phase(f)
  <2>1. CASE f = e
    <3>1. ~(e[2] > registered[e[1]]) /\ e[1] = p
      BY <1>1, <1>2 DEF IInv, TypeOK, AdminsMatchPC, PoolEntry
    <3>2. pool'[e[1]] # e[2]
      BY <1>1, <1>2, <3>1 DEF IInv, TypeOK, PoolEntry
    <3> QED BY <2>1, <1>2, <1>3, <1>5, <1>6, <3>1, <3>2 DEF Phase
  <2>2. CASE f # e
    <3>1. Removals(f)' = Removals(f) /\ r \notin Removals(f)
      BY <1>4, <1>6, <2>2 DEF Removals
    <3>2. \A q \in Removals(f) : remover'[q] = remover[q]
      BY <1>5, <3>1 DEF Removals
    <3>3. f[1] \in Providers /\ f[2] # Absent /\ f = <<f[1], f[2]>>
      BY DEF Entries, Generations, Absent
    <3>4. pool'[f[1]] = f[2] <=> pool[f[1]] = f[2]
      BY <1>1, <1>2, <2>2, <3>3 DEF IInv, TypeOK, PoolEntry
    <3> QED BY <1>3, <2>2, <3>1, <3>2, <3>4 DEF Phase
  <2> QED BY <2>1, <2>2
<1>8. Phases' = [Phases EXCEPT ![e] = "retired"] /\ Phases[e] = "pooled"
  BY <1>2, <1>7 DEF Phases
<1>9. Forced' \in {Forced, Forced \cup {e}}
  <2>1. ASSUME NEW f \in Entries, f # e PROVE f \in Forced' <=> f \in Forced
    <3>1. Removals(f)' = Removals(f) /\ r \notin Removals(f)
      BY <1>4, <1>6, <2>1 DEF Removals
    <3>2. \A q \in Removals(f) : remover'[q] = remover[q]
      BY <1>5, <3>1 DEF Removals
    <3> QED BY <3>1, <3>2 DEF Forced
  <2>2. Forced \subseteq Entries /\ Forced' \subseteq Entries
    BY DEF Forced
  <2> QED BY <1>2, <2>1, <2>2
<1>10. UNCHANGED Held
  BY <1>3, HeldIsKept
<1>11. Lifecycle!Retire(e)
  BY <1>8, <1>9, <1>10 DEF Lifecycle!Retire, Phases, Forced, Held
<1> QED BY <1>11, Lives

\* The end of a removal is Discard, or nothing while another removal has the entry.
LEMMA Discards == ASSUME IInv, NEW r \in Removers, RemoveSender(r) PROVE LifeStep
<1>0. PICK e \in Entries : e = remover[r].entry
  BY DEF RemoveSender, RemoverGoto, IInv, AdminsMatchPC
<1>1. /\ remover[r].pc = "cleanup" /\ pool[e[1]] # e[2]
      /\ e[2] <= registered[e[1]] /\ r \in Removals(e)
  BY <1>0 DEF RemoveSender, RemoverGoto, IInv, AdminsMatchPC, Removals
<1>2. UNCHANGED <<pool, registered, lease>>
  BY DEF RemoveSender
<1>3. \A q \in Removers : /\ remover'[q].entry = remover[q].entry
                          /\ remover'[q].mode = remover[q].mode
                          /\ remover'[q].pc = IF q = r THEN "done" ELSE remover[q].pc
  BY RemoverMoves DEF RemoveSender, IInv
<1>4. \A f \in Entries : Removals(f)' = Removals(f)
  BY <1>3 DEF Removals
<1>5. UNCHANGED <<Forced, Held>>
  <2>1. Forced' = Forced
    BY <1>3, <1>4 DEF Forced, Removals
  <2> QED BY <2>1, <1>2, HeldIsKept
<1>6. Phase(e) = "retired"
  BY <1>1 DEF Phase, IInv, TypeOK, Entries, Generations
<1>7. ASSUME NEW f \in Entries, f # e PROVE Phase(f)' = Phase(f)
  <2>1. Removals(f)' = Removals(f) /\ r \notin Removals(f)
    BY <1>0, <1>4, <1>7 DEF Removals
  <2>2. \A q \in Removals(f) : q \in Removers /\ q # r
    BY <2>1 DEF Removals
  <2>3. \A q \in Removals(f) : remover'[q].pc = remover[q].pc
    BY <1>3, <2>2
  <2>4. (\E q \in Removals(f) : remover[q].pc # "done")'
          <=> \E q \in Removals(f) : remover[q].pc # "done"
    BY <2>1, <2>3
  <2> QED BY <1>2, <2>4 DEF Phase
<1>8. Phase(e)' \in {"retired", "discarded"}
  BY <1>1, <1>2 DEF Phase, IInv, TypeOK, Entries, Generations
<1>9. e \in Forced \/ Held[e] = {}
  <2>1. CASE remover[r].mode = "drain"
    BY <1>0, <1>1, <2>1 DEF IInv, DrainLeavesNobody, Held
  <2>2. CASE remover[r].mode = "force"
    BY <1>1, <2>2 DEF Forced
  <2> QED BY <2>1, <2>2 DEF IInv, TypeOK, RemoverType
<1>10. Phases[e] = "retired" /\ Phases' = [Phases EXCEPT ![e] = Phase(e)']
  BY <1>1, <1>6, <1>7 DEF Phases
<1>12. CASE Phase(e)' = "retired"
  <2>1. Phases' = Phases
    BY <1>10, <1>12 DEF Phases
  <2> QED BY <1>5, <2>1 DEF LifeStep
<1>13. CASE Phase(e)' = "discarded"
  <2>1. Phases' = [Phases EXCEPT ![e] = "discarded"]
    BY <1>10, <1>13
  <2>2. Lifecycle!Discard(e)
    BY <1>5, <1>9, <1>10, <2>1 DEF Lifecycle!Discard, Phases, Forced, Held
  <2> QED BY <2>2, Lives
<1> QED BY <1>8, <1>12, <1>13

\* A registration is Register.
LEMMA Registers == ASSUME IInv, NEW a \in Adders, InsertEntry(a) PROVE LifeStep
<1>1. PICK p \in Providers :
        /\ pool[p] = Absent /\ registered[p] < MaxGen
        /\ registered' = [registered EXCEPT ![p] = @ + 1]
        /\ pool' = [pool EXCEPT ![p] = registered[p] + 1]
  BY DEF InsertEntry
<1>0. PICK e \in Entries : e = <<p, registered[p] + 1>>
  <2>1. registered[p] \in 0 .. MaxGen
    BY DEF IInv, TypeOK
  <2>2. registered[p] + 1 \in Generations
    BY <1>1, <2>1, BoundsAssumption DEF Generations
  <2> QED BY <2>2 DEF Entries
<1>2. UNCHANGED <<lease, remover>>
  BY DEF InsertEntry
<1>3. e[1] = p /\ e[2] = registered[p] + 1 /\ registered[p] \in Nat
  BY <1>0, <1>1, BoundsAssumption DEF IInv, TypeOK, Entries, Generations
<1>4. Phase(e) = "unborn" /\ Phase(e)' = "pooled"
  BY <1>1, <1>3 DEF Phase, IInv, TypeOK
<1>5. ASSUME NEW f \in Entries, f # e PROVE Phase(f)' = Phase(f)
  <2>1. f[1] \in Providers /\ f[2] \in Nat /\ f[2] # Absent /\ f = <<f[1], f[2]>>
    BY BoundsAssumption DEF Entries, Generations, Absent
  <2>2. Removals(f)' = Removals(f) /\ UNCHANGED remover
    BY <1>2 DEF Removals
  <2>3. CASE f[1] = p
    <3>1. f[2] # registered[p] + 1
      BY <1>0, <1>5, <2>1, <2>3
    <3>2. f[2] > registered[p] <=> f[2] > registered'[p]
      BY <1>1, <1>3, <2>1, <3>1 DEF IInv, TypeOK
    <3>3. pool[p] # f[2] /\ pool'[p] # f[2]
      BY <1>1, <2>1, <3>1 DEF IInv, TypeOK
    <3> QED BY <2>2, <2>3, <3>2, <3>3 DEF Phase
  <2>4. CASE f[1] # p
    <3>1. registered'[f[1]] = registered[f[1]] /\ pool'[f[1]] = pool[f[1]]
      BY <1>1, <2>1, <2>4 DEF IInv, TypeOK
    <3> QED BY <2>2, <3>1 DEF Phase
  <2> QED BY <2>3, <2>4
<1>6. Phases[e] = "unborn" /\ Phases' = [Phases EXCEPT ![e] = "pooled"]
  BY <1>3, <1>4, <1>5 DEF Phases
<1>7. Forced' = Forced
  BY <1>2 DEF Forced, Removals
<1>8. UNCHANGED Held
  BY <1>2, HeldIsKept
<1>9. ASSUME NEW f \in Entries, f[1] = p PROVE Phases[f] # "pooled"
  BY <1>1, <1>9 DEF Phases, Phase, Entries, Generations, Absent
<1>10. Lifecycle!Pooled(e[1]) = {}
  BY <1>3, <1>9, SameEntries DEF Lifecycle!Pooled, Phases
<1>11. Lifecycle!Register(e)
  BY <1>6, <1>7, <1>8, <1>10 DEF Lifecycle!Register, Phases, Forced, Held
<1> QED BY <1>11, Lives

\* Every step of the pool is one of the life of an entry, or none.
LEMMA LifecycleStep == ASSUME IInv, [Next]_vars PROVE LifeStep
<1>1. ASSUME UNCHANGED <<pool, registered, lease>>,
             \A r \in Removers : /\ remover'[r].entry = remover[r].entry
                                 /\ remover'[r].mode = remover[r].mode
                                 /\ remover'[r].pc = "done" <=> remover[r].pc = "done"
      PROVE  LifeStep
  BY <1>1, PhaseIsKept, HeldIsKept DEF LifeStep
<1>2. ASSUME NEW t \in Turns, Route(t) \/ HitLoopLimit(t) \/ Subscribe(t) \/ FindNoProvider(t)
                                \/ RegisterHandle(t) \/ SelectCancel(t) \/ CleanHandles(t)
                                \/ Respond(t) \/ RunTools(t) \/ StartSubagent(t) \/ FinishSubagent(t)
      PROVE  LifeStep
  BY <1>1, <1>2 DEF hostVars, adminVars, Route, HitLoopLimit, Subscribe, FindNoProvider,
     RegisterHandle, SelectCancel, CleanHandles, Respond, RunTools, StartSubagent, FinishSubagent
<1>3. ASSUME NEW t \in Turns, AcquireLease(t) PROVE LifeStep
  <2>1. /\ lease[MainLease(t)] = NoEntry /\ provider[t] \in Providers
    BY <1>3 DEF AcquireLease, Goto, IInv, LeasesMatchPC, Leased
  <2> QED BY <1>3, <2>1, HolderFacts, Acquires DEF AcquireLease, adminVars
<1>4. ASSUME NEW t \in Turns, SelectDone(t) \/ SelectAborted(t) \/ ReturnCancelled(t) PROVE LifeStep
  <2>1. lease[MainLease(t)] \in Entries
    BY <1>4 DEF SelectDone, SelectAborted, ReturnCancelled, Return, Goto, IInv, LeasesMatchPC, Leased
  <2> QED BY <1>4, <2>1, HolderFacts, Releases DEF SelectDone, SelectAborted, ReturnCancelled,
          adminVars
<1>5. ASSUME NEW b \in Borrowers, Borrow(b) PROVE LifeStep
  <2>1. /\ lease[BorrowLease(b)] = NoEntry /\ target[b] \in Providers
    BY <1>5 DEF Borrow, BorrowGoto, IInv, LeasesMatchPC
  <2> QED BY <1>5, <2>1, HolderFacts, Acquires DEF Borrow, adminVars
<1>6. ASSUME NEW b \in Borrowers, GiveBack(b) PROVE LifeStep
  <2>1. lease[BorrowLease(b)] \in Entries
    BY <1>6 DEF GiveBack, BorrowGoto, IInv, LeasesMatchPC
  <2> QED BY <1>6, <2>1, HolderFacts, Releases DEF GiveBack, adminVars
<1>7. ASSUME NEW b \in Borrowers, StartListing(b) \/ ReadActive(b) \/ BorrowNothing(b)
                                    \/ AskForTools(b) \/ DispatchTools(b)
      PROVE  LifeStep
  BY <1>1, <1>7 DEF StartListing, ReadActive, BorrowNothing, AskForTools, DispatchTools,
     hostVars, adminVars
<1>8. ASSUME NEW c \in Calls, CallCompletes(c) PROVE LifeStep
  BY <1>1, <1>8 DEF CallCompletes, hostVars, adminVars
<1>9. ASSUME NEW r \in Removers, DrainDone(r) \/ ForceSignal(r) \/ GraceOver(r) \/ AbortHandles(r)
      PROVE  LifeStep
  <2>1. UNCHANGED <<pool, registered, lease>>
    BY <1>9 DEF DrainDone, ForceSignal, GraceOver, AbortHandles, hostVars
  <2>2. PICK from \in {"drain", "signal", "grace", "abort"}, to \in {"grace", "abort", "cleanup"} :
          RemoverGoto(r, from, to)
    BY <1>9 DEF DrainDone, ForceSignal, GraceOver, AbortHandles
  <2>3. \A q \in Removers : /\ remover'[q].entry = remover[q].entry
                            /\ remover'[q].mode = remover[q].mode
                            /\ remover'[q].pc = IF q = r THEN to ELSE remover[q].pc
    BY <2>2, RemoverMoves DEF IInv
  <2>4. remover[r].pc # "done"
    BY <2>2 DEF RemoverGoto
  <2> QED BY <1>1, <2>1, <2>3, <2>4
<1>10. ASSUME NEW r \in Removers, RemoveEntry(r) \/ RemoveSender(r) PROVE LifeStep
  BY <1>10, Retires, Discards
<1>11. ASSUME NEW a \in Adders, InsertEntry(a) PROVE LifeStep
  BY <1>11, Registers
<1>12. ASSUME NEW a \in Adders, CreateSender(a) PROVE LifeStep
  BY <1>1, <1>12 DEF CreateSender
<1>13. ASSUME NEW s \in Switchers, CheckConnected(s) \/ SwitchActive(s) PROVE LifeStep
  BY <1>1, <1>13 DEF CheckConnected, SwitchActive, hostVars
<1>14. CASE Quiescent \/ UNCHANGED vars \/ \E r \in Removers : DrainPoll(r)
  BY <1>1, <1>14 DEF Quiescent, DrainPoll, vars, hostVars, adminVars
<1>15. Listers \subseteq Borrowers
  BY DEF Borrowers
<1> QED
  BY <1>2, <1>3, <1>4, <1>5, <1>6, <1>7, <1>8, <1>9, <1>10, <1>11, <1>12, <1>13, <1>14, <1>15
     DEF Next, TurnStep, BorrowerStep, Answered, RemoverStep

\* At the start entries are unborn or pooled, and nobody has a lease.
LEMMA LifecycleInit == ASSUME Init PROVE Lifecycle!Init
<1>1. IInv
  BY Initially
<1>2. \A e \in Entries : Removals(e) = {} /\ {h \in Holders : lease[h] = e} = {}
  BY NullsAssumption DEF Init, Removals, Entries, Generations
<1>3. \A e \in Entries : Phase(e) \in {"unborn", "pooled"}
  BY BoundsAssumption DEF Init, Phase, Entries, Generations, Absent
<1>4. \A e, f \in Entries : Phase(e) = "pooled" /\ Phase(f) = "pooled" /\ e[1] = f[1] => e = f
  BY DEF Phase, Entries
<1> QED BY <1>2, <1>3, <1>4, SameEntries DEF Lifecycle!Init

\* The host's code implements the life of an entry: whoever routes by a stale read, and
\* whatever is registered again meanwhile, a retired entry is not leased again, and a
\* drained one is given up only when its last lease is back (ImplementsLifecycle).
THEOREM LifecycleHolds == Spec => ImplementsLifecycle
<1>1. IInv /\ [Next]_vars => [Lifecycle!Next]_<<Phases, Forced, Held>>
  BY LifecycleStep DEF LifeStep
<1> QED
  BY <1>1, LifecycleInit, Inductive, PTL
     DEF Spec, ImplementsLifecycle, Lifecycle!Spec, Lifecycle!vars, Phases, Forced, Held
=============================================================================
