------------------------- MODULE PromptTurnsProofs -------------------------
(***************************************************************************)
(* Theorems about PromptTurns for any number of prompts, commands, models, *)
(* overrides and resumed transcripts.                                      *)
(***************************************************************************)
EXTENDS PromptTurns, FiniteSetTheorems, TLAPS

-----------------------------------------------------------------------------
(* Messages and mailboxes. *)

\* What is sent is a message.
LEMMA Sendable ==
    /\ \A k \in Kinds : Message(k) \in Messages /\ Message(k).kind = k
    /\ \A m \in Models : ModelRestored(m) \in Messages /\ ModelRestored(m).kind = "restored"
    /\ \A s \in Messages : s.kind = "restored" => s.model \in Models
<1>1. \A k \in Kinds : Message(k) \in Messages /\ Message(k).kind = k
  BY DEF Messages, Message
<1>2. \A m \in Models : ModelRestored(m) \in Messages /\ ModelRestored(m).kind = "restored"
  BY DEF Messages, ModelRestored
<1>3. ASSUME NEW s \in Messages, s.kind = "restored" PROVE s.model \in Models
  <2>1. CASE \E k \in Kinds : s = Message(k)
    <3>1. PICK k \in Kinds : s = Message(k)
      BY <2>1
    <3>2. s.kind = k
      BY <3>1 DEF Message
    <3> QED
      BY <1>3, <3>2 DEF Kinds
  <2>2. CASE \E m \in Models : s = ModelRestored(m)
    BY <2>2 DEF ModelRestored
  <2> QED
    BY <2>1, <2>2 DEF Messages
<1> QED
  BY <1>1, <1>2, <1>3

\* The types of the mailboxes.
LEMMA SendType ==
    ASSUME TypeOK, NEW j \in Jobs, NEW m \in Messages, Send(j, m)
    PROVE  mailbox' \in [Jobs -> Seq(Messages)]
BY DEF TypeOK, Send

LEMMA ReceiveType ==
    ASSUME TypeOK, NEW j \in Jobs, NEW k, Receive(j, k)
    PROVE  mailbox' \in [Jobs -> Seq(Messages)]
BY DEF TypeOK, Receive

\* Every step keeps the types.
LEMMA TypeStep == TypeOK /\ [Next]_vars => TypeOK'
<1> SUFFICES ASSUME TypeOK, [Next]_vars PROVE TypeOK'
  OBVIOUS
<1> USE ModelsAssumption
<1>1. ASSUME NEW p \in Prompts, Submit(p) PROVE TypeOK'
  BY <1>1 DEF TypeOK, Submit, WorkerGoto, idVars, hostVars, inputVars, Jobs, WorkerPC
<1>2. ASSUME NEW b \in Bashes, SubmitBash(b) PROVE TypeOK'
  BY <1>2 DEF TypeOK, SubmitBash, WorkerGoto, RunnerGoto, idVars, hostVars, taskVars,
     inputVars, Jobs, WorkerPC, RunnerPC
<1>3. ASSUME NEW m \in Models, PickModel(m) PROVE TypeOK'
  <2>1. spent' \in [Inputs -> Nat]
    BY <1>3 DEF TypeOK, PickModel, Spend, Inputs
  <2> QED
    BY <1>3, <2>1 DEF TypeOK, PickModel, idVars, taskVars
<1>4. ASSUME NEW m \in Models, SetNextTurnModelOverride(m) PROVE TypeOK'
  BY <1>4 DEF TypeOK, SetNextTurnModelOverride, Spend, idVars, hostVars, taskVars, Inputs
<1>5. ASSUME Resume PROVE TypeOK'
  BY <1>5 DEF TypeOK, Resume, Spend, idVars, taskVars, Inputs
<1>6. ASSUME Disconnect PROVE TypeOK'
  BY <1>6 DEF TypeOK, Disconnect, Spend, appVars, idVars, hostVars, taskVars, Inputs
<1>7. ASSUME RemovalEnds PROVE TypeOK'
  BY <1>7 DEF TypeOK, RemovalEnds, appVars, idVars, hostVars, taskVars
<1>8. ASSUME NEW p \in Prompts, Apply(p) PROVE TypeOK'
  BY <1>8 DEF TypeOK, Apply, WorkerGoto, RunnerGoto, appVars, idVars, taskVars, inputVars,
     Jobs, WorkerPC, RunnerPC
<1>9. ASSUME NEW p \in Prompts, TurnReturned(p) PROVE TypeOK'
  BY <1>9 DEF TypeOK, TurnReturned, WorkerGoto, appVars, idVars, hostVars, taskVars,
     inputVars, Jobs, WorkerPC
<1>10. ASSUME NEW p \in Prompts, Restore(p) PROVE TypeOK'
  BY <1>10 DEF TypeOK, Restore, WorkerGoto, appVars, idVars, taskVars, inputVars, Jobs,
     WorkerPC
<1>11. ASSUME NEW p \in Prompts, Notify(p) PROVE TypeOK'
  <2>1. p \in Jobs /\ ModelRestored(original[p]) \in Messages
    BY Sendable DEF TypeOK, Jobs
  <2>2. mailbox' \in [Jobs -> Seq(Messages)]
    BY <1>11, <2>1, SendType DEF Notify
  <2> QED
    BY <1>11, <2>2 DEF TypeOK, Notify, WorkerGoto, appVars, idVars, hostVars, taskVars,
       inputVars, Jobs, WorkerPC
<1>12. ASSUME NEW p \in Prompts, Report(p) PROVE TypeOK'
  <2>1. p \in Jobs /\ Message("error") \in Messages
    BY Sendable DEF Jobs, Kinds
  <2>2. mailbox' \in [Jobs -> Seq(Messages)]
    BY <1>12, <2>1, SendType DEF Report, TypeOK
  <2> QED
    BY <1>12, <2>2 DEF TypeOK, Report, WorkerGoto, appVars, idVars, hostVars, taskVars,
       inputVars, Jobs, WorkerPC, Kinds
<1>13. ASSUME NEW b \in Bashes, BashReturned(b) PROVE TypeOK'
  <2>1. b \in Jobs /\ Message("bash_done") \in Messages
    BY Sendable DEF Jobs, Kinds
  <2>2. mailbox' \in [Jobs -> Seq(Messages)]
    BY <1>13, <2>1, SendType DEF BashReturned
  <2> QED
    BY <1>13, <2>2 DEF TypeOK, BashReturned, WorkerGoto, appVars, idVars, hostVars,
       taskVars, inputVars, Jobs, WorkerPC, Kinds
<1>14. ASSUME NEW j \in Jobs, Install(j) PROVE TypeOK'
  BY <1>14 DEF TypeOK, Install, RunnerGoto, appVars, idVars, taskVars, inputVars, RunnerPC
<1>15. ASSUME NEW p \in Prompts, TakeSnapshot(p) PROVE TypeOK'
  BY <1>15 DEF TypeOK, TakeSnapshot, RunnerGoto, appVars, idVars, hostVars, inputVars, Jobs,
     RunnerPC
<1>16. ASSUME NEW p \in Prompts, Route(p) PROVE TypeOK'
  <2>1. p \in Jobs /\ Message("route") \in Messages /\ Message("started") \in Messages
    BY Sendable DEF Jobs, Kinds
  <2>2. mailbox' \in [Jobs -> Seq(Messages)]
    BY <1>16, <2>1 DEF Route, TypeOK
  <2> QED
    BY <1>16, <2>2 DEF TypeOK, Route, RunnerGoto, appVars, idVars, hostVars, inputVars,
       Jobs, RunnerPC, Kinds
<1>17. ASSUME NEW p \in Prompts, StreamDelta(p) PROVE TypeOK'
  <2>1. p \in Jobs /\ Message("delta") \in Messages
    BY Sendable DEF Jobs, Kinds
  <2>2. mailbox' \in [Jobs -> Seq(Messages)]
    BY <1>17, <2>1, SendType DEF StreamDelta
  <2> QED
    BY <1>17, <2>2 DEF TypeOK, StreamDelta, appVars, idVars, hostVars, inputVars, Jobs,
       Kinds
<1>18. ASSUME NEW p \in Prompts, Answer(p) PROVE TypeOK'
  BY <1>18 DEF TypeOK, Answer, RunnerGoto, appVars, idVars, hostVars, taskVars, inputVars,
     Jobs, RunnerPC
<1>19. ASSUME NEW p \in Prompts, Commit(p) PROVE TypeOK'
  BY <1>19 DEF TypeOK, Commit, RunnerGoto, appVars, idVars, taskVars, inputVars, Jobs,
     RunnerPC
<1>20. ASSUME NEW p \in Prompts, SendComplete(p) PROVE TypeOK'
  <2>1. p \in Jobs /\ Message("complete") \in Messages
    BY Sendable DEF Jobs, Kinds
  <2>2. mailbox' \in [Jobs -> Seq(Messages)]
    BY <1>20, <2>1, SendType DEF SendComplete
  <2> QED
    BY <1>20, <2>2 DEF TypeOK, SendComplete, RunnerGoto, appVars, idVars, hostVars,
       taskVars, inputVars, Jobs, RunnerPC, Kinds
<1>21. ASSUME NEW p \in Prompts, Fail(p) PROVE TypeOK'
  BY <1>21 DEF TypeOK, Fail, RunnerGoto, appVars, idVars, hostVars, inputVars, Jobs,
     RunnerPC
<1>22. ASSUME NEW p \in Prompts, Cancelled(p) PROVE TypeOK'
  <2>1. p \in Jobs /\ Message("cancelled") \in Messages
    BY Sendable DEF Jobs, Kinds
  <2>2. mailbox' \in [Jobs -> Seq(Messages)]
    BY <1>22, <2>1, SendType DEF Cancelled
  <2> QED
    BY <1>22, <2>2 DEF TypeOK, Cancelled, RunnerGoto, appVars, idVars, hostVars, inputVars,
       Jobs, RunnerPC, Kinds
<1>23. ASSUME NEW p \in Prompts, DetachedCallEnds(p) PROVE TypeOK'
  BY <1>23 DEF TypeOK, DetachedCallEnds, appVars, idVars, hostVars, inputVars, Jobs
<1>24. ASSUME NEW b \in Bashes, RunCommand(b) PROVE TypeOK'
  BY <1>24 DEF TypeOK, RunCommand, RunnerGoto, appVars, idVars, hostVars, taskVars,
     inputVars, Jobs, RunnerPC
<1>25. ASSUME NEW j \in Jobs, DropGuard(j) PROVE TypeOK'
  BY <1>25 DEF TypeOK, DropGuard, RunnerGoto, appVars, idVars, taskVars, inputVars, RunnerPC
<1>26. ASSUME NEW p \in Prompts, OnRoute(p) PROVE TypeOK'
  <2>1. mailbox' \in [Jobs -> Seq(Messages)]
    BY <1>26, ReceiveType DEF OnRoute, Jobs
  <2> QED
    BY <1>26, <2>1 DEF TypeOK, OnRoute, idVars, taskUnchanged, hostVars, taskVars,
       inputVars, Jobs
<1>27. ASSUME NEW p \in Prompts, OnStarted(p) PROVE TypeOK'
  <2>1. mailbox' \in [Jobs -> Seq(Messages)]
    BY <1>27, ReceiveType DEF OnStarted, Jobs
  <2> QED
    BY <1>27, <2>1 DEF TypeOK, OnStarted, appVars, taskUnchanged, hostVars, taskVars,
       inputVars, Jobs
<1>28. ASSUME NEW p \in Prompts, OnDelta(p) PROVE TypeOK'
  <2>1. mailbox' \in [Jobs -> Seq(Messages)]
    BY <1>28, ReceiveType DEF OnDelta, Jobs
  <2> QED
    BY <1>28, <2>1 DEF TypeOK, OnDelta, idVars, taskUnchanged, hostVars, taskVars,
       inputVars, Jobs
<1>29. ASSUME NEW p \in Prompts, OnComplete(p) PROVE TypeOK'
  <2>1. mailbox' \in [Jobs -> Seq(Messages)]
    BY <1>29, ReceiveType DEF OnComplete, Jobs
  <2>2. ended' \in Seq(Nat) /\ current_turn_id' \in Nat /\ next_turn_id' \in Nat
    BY <1>29 DEF TypeOK, OnComplete
  <2>3. is_loading' \in BOOLEAN /\ app_model' \in Models /\ next_override' \in Models \cup {NoModel}
        /\ live_text' \in SUBSET Prompts
    BY <1>29 DEF TypeOK, OnComplete
  <2> QED
    BY <1>29, <2>1, <2>2, <2>3 DEF TypeOK, OnComplete, taskUnchanged, hostVars, taskVars,
       inputVars, Jobs
<1>30. ASSUME NEW p \in Prompts, OnCancelled(p) PROVE TypeOK'
  <2>1. mailbox' \in [Jobs -> Seq(Messages)]
    BY <1>30, ReceiveType DEF OnCancelled, Jobs
  <2> QED
    BY <1>30, <2>1 DEF TypeOK, OnCancelled, idVars, taskUnchanged, hostVars, taskVars,
       inputVars, Jobs
<1>31. ASSUME NEW p \in Prompts, OnError(p) PROVE TypeOK'
  <2>1. mailbox' \in [Jobs -> Seq(Messages)]
    BY <1>31, ReceiveType DEF OnError, Jobs
  <2>2. ended' \in Seq(Nat) /\ current_turn_id' \in Nat /\ next_turn_id' \in Nat
    BY <1>31 DEF TypeOK, OnError
  <2>3. is_loading' \in BOOLEAN /\ app_model' \in Models /\ next_override' \in Models \cup {NoModel}
        /\ live_text' \in SUBSET Prompts
    BY <1>31 DEF TypeOK, OnError
  <2> QED
    BY <1>31, <2>1, <2>2, <2>3 DEF TypeOK, OnError, taskUnchanged, hostVars, taskVars,
       inputVars, Jobs
<1>32. ASSUME NEW p \in Prompts, OnModelRestored(p) PROVE TypeOK'
  <2>1. mailbox' \in [Jobs -> Seq(Messages)]
    BY <1>32, ReceiveType DEF OnModelRestored, Jobs
  <2>2. Head(mailbox[p]).model \in Models
    BY <1>32, Sendable DEF OnModelRestored, Receive, TypeOK, Jobs
  <2> QED
    BY <1>32, <2>1, <2>2 DEF TypeOK, OnModelRestored, idVars, taskUnchanged, hostVars,
       taskVars, inputVars, Jobs
<1>33. ASSUME NEW b \in Bashes, OnBashDone(b) PROVE TypeOK'
  <2>1. mailbox' \in [Jobs -> Seq(Messages)]
    BY <1>33, ReceiveType DEF OnBashDone, Jobs
  <2> QED
    BY <1>33, <2>1 DEF TypeOK, OnBashDone, idVars, taskUnchanged, hostVars, taskVars,
       inputVars, Jobs
<1>34. ASSUME NEW j \in Jobs, OnAborted(j) PROVE TypeOK'
  <2>1. mailbox' \in [Jobs -> Seq(Messages)]
    BY <1>34, ReceiveType DEF OnAborted
  <2> QED
    BY <1>34, <2>1 DEF TypeOK, OnAborted, idVars, taskUnchanged, hostVars, taskVars,
       inputVars
<1>35. ASSUME NEW j \in Jobs, AbortAfterGrace(j) PROVE TypeOK'
  <2>1. mailbox' \in [Jobs -> Seq(Messages)]
    BY <1>35, Sendable, SendType DEF AbortAfterGrace, Kinds
  <2> QED
    BY <1>35, <2>1 DEF TypeOK, AbortAfterGrace, Spend, appVars, idVars, hostVars, taskVars,
       Inputs
<1>36. CASE UNCHANGED vars
  BY <1>36 DEF TypeOK, vars, appVars, idVars, hostVars, taskVars, inputVars
<1> QED
  <2>1. ASSUME Key PROVE TypeOK'
    BY <2>1, <1>1, <1>2, <1>3, <1>4, <1>5, <1>6 DEF Key
  <2>2. ASSUME NEW j \in Jobs, WorkerStep(j) PROVE TypeOK'
    BY <2>2, <1>8, <1>9, <1>10, <1>11, <1>12, <1>13 DEF WorkerStep
  <2>3. ASSUME NEW j \in Jobs, RunnerStep(j) PROVE TypeOK'
    BY <2>3, <1>14, <1>25, <1>15, <1>16, <1>19, <1>20, <1>24 DEF RunnerStep
  <2>4. ASSUME NEW j \in Jobs, MainLoop(j) PROVE TypeOK'
    BY <2>4, <1>26, <1>27, <1>28, <1>29, <1>30, <1>31, <1>32, <1>33, <1>34 DEF MainLoop
  <2> QED
    BY <2>1, <2>2, <2>3, <2>4, <1>7, <1>18, <1>21, <1>17, <1>22, <1>23, <1>35, <1>36 DEF
       Next, ProviderEnds

\* The initial values have their types.
LEMMA InitTypes == Init => TypeOK
<1> SUFFICES ASSUME Init PROVE TypeOK
  OBVIOUS
<1>1. <<>> \in Seq(Nat) /\ <<>> \in Seq(Prompts \cup {Loaded}) /\ <<>> \in Seq(Messages)
  OBVIOUS
<1> QED
  BY <1>1, ModelsAssumption DEF Init, TypeOK, WorkerPC, RunnerPC

\* Type correctness (TypeOK): the fields of the App, the host and the tasks
\* stay within their types.
THEOREM Typing == Spec => []TypeOK
BY InitTypes, TypeStep, PTL DEF Spec

-----------------------------------------------------------------------------
(* The inductive invariant of the conversations without a forced           *)
(* disconnect. Every job owes the main loop exactly one message that makes *)
(* it ready for input again; at most one job does at any time, and         *)
(* is_loading stands for that debt.                                        *)

\* The messages that clear is_loading.
Settling == {"complete", "cancelled", "aborted", "error", "bash_done"}

Settles(s) == \E i \in DOMAIN s : s[i].kind \in Settling
Once(s)    == \A i, k \in DOMAIN s :
                  s[i].kind \in Settling /\ s[k].kind \in Settling => i = k

\* The job has yet to send its settling message.
Busy(j) ==
    \/ worker[j] = "apply"
    \/ runner[j] \in {"install", "snapshot", "route", "call", "command", "commit", "complete"}
    \/ j \in Bashes /\ worker[j] = "forward"
    \/ failed[j] /\ worker[j] \in {"forward", "restore", "notify", "report"}

Owes(j) == Busy(j) \/ Settles(mailbox[j])

\* Where the two tasks of a job can be, seen from each other.
InStep(j) ==
    /\ worker[j] \in {"idle", "apply"} => runner[j] = "idle" /\ mailbox[j] = <<>>
    /\ worker[j] \in {"restore", "notify", "report", "done"} => runner[j] = "done"
    /\ failed[j] => runner[j] \in {"exit", "done"}
    /\ j \in Bashes => worker[j] \in {"idle", "forward", "done"}
    /\ ~detached[j]

\* It sends that message once.
SettlesOnce(j) == Once(mailbox[j]) /\ (Busy(j) => ~Settles(mailbox[j]))

OneOwes     == \A j, k \in Jobs : Owes(j) /\ Owes(k) => j = k
LoadingOwes == \A j \in Jobs : Owes(j) => is_loading

IInv ==
    /\ TypeOK
    /\ ~disconnecting
    /\ \A j \in Jobs : InStep(j) /\ SettlesOnce(j)
    /\ OneOwes /\ LoadingOwes
    /\ SnapshotIsCurrent

-----------------------------------------------------------------------------
(* What the mailbox operations do to the debt.                              *)

LEMMA SendPlain ==
    ASSUME NEW s \in Seq(Messages), NEW m \in Messages, m.kind \notin Settling
    PROVE  /\ Settles(Append(s, m)) <=> Settles(s)
           /\ Once(s) => Once(Append(s, m))
BY DEF Settles, Once

LEMMA SendSettling ==
    ASSUME NEW s \in Seq(Messages), NEW m \in Messages, ~Settles(s)
    PROVE  Once(Append(s, m))
BY DEF Settles, Once

LEMMA TakePlain ==
    ASSUME NEW s \in Seq(Messages), s # <<>>, Head(s).kind \notin Settling
    PROVE  /\ Settles(Tail(s)) <=> Settles(s)
           /\ Once(s) => Once(Tail(s))
<1>1. /\ Tail(s) \in Seq(Messages) /\ Len(Tail(s)) = Len(s) - 1 /\ Len(s) \in Nat \ {0}
      /\ \A i \in 1 .. Len(Tail(s)) : Tail(s)[i] = s[i + 1]
      /\ DOMAIN s = 1 .. Len(s) /\ DOMAIN Tail(s) = 1 .. Len(Tail(s))
  OBVIOUS
<1>2. Settles(Tail(s)) => Settles(s)
  BY <1>1 DEF Settles
<1>3. ASSUME NEW i \in DOMAIN s, s[i].kind \in Settling PROVE i - 1 \in DOMAIN Tail(s) /\ Tail(s)[i - 1] = s[i]
  <2>1. i # 1
    BY <1>3
  <2> QED
    BY <1>1, <2>1
<1>4. Settles(s) => Settles(Tail(s))
  BY <1>3 DEF Settles
<1>5. Once(s) => Once(Tail(s))
  BY <1>1 DEF Once
<1> QED
  BY <1>2, <1>4, <1>5

LEMMA TakeSettling ==
    ASSUME NEW s \in Seq(Messages), s # <<>>, Head(s).kind \in Settling, Once(s)
    PROVE  ~Settles(Tail(s)) /\ Once(Tail(s)) /\ Settles(s)
<1>1. /\ Tail(s) \in Seq(Messages) /\ Len(Tail(s)) = Len(s) - 1 /\ Len(s) \in Nat \ {0}
      /\ \A i \in 1 .. Len(Tail(s)) : Tail(s)[i] = s[i + 1]
      /\ DOMAIN s = 1 .. Len(s) /\ DOMAIN Tail(s) = 1 .. Len(Tail(s))
  OBVIOUS
<1>2. 1 \in DOMAIN s /\ s[1].kind \in Settling
  BY <1>1
<1>3. \A i \in DOMAIN Tail(s) : Tail(s)[i].kind \notin Settling
  BY <1>1, <1>2 DEF Once
<1> QED
  BY <1>2, <1>3 DEF Settles, Once

-----------------------------------------------------------------------------
(* Steps of one job. *)

\* The step leaves the other jobs alone.
Others(j) ==
    \A k \in Jobs \ {j} :
        /\ worker'[k] = worker[k] /\ runner'[k] = runner[k]
        /\ failed'[k] = failed[k] /\ detached'[k] = detached[k] /\ mailbox'[k] = mailbox[k]

\* A step of one job keeps the invariant if it keeps the job in step and adds no debt.
LEMMA JobStep ==
    ASSUME IInv, TypeOK', NEW j \in Jobs, Others(j),
           UNCHANGED <<disconnecting, is_loading>>,
           InStep(j)', SettlesOnce(j)', Owes(j)' => Owes(j), SnapshotIsCurrent'
    PROVE  IInv'
<1>1. ASSUME NEW k \in Jobs \ {j} PROVE InStep(k)' /\ SettlesOnce(k)' /\ (Owes(k)' <=> Owes(k))
  <2>1. (Settles(mailbox[k])' <=> Settles(mailbox[k])) /\ (Once(mailbox[k])' <=> Once(mailbox[k]))
    BY DEF Others, Settles, Once
  <2>2. Busy(k)' <=> Busy(k)
    BY DEF Others, Busy
  <2> QED
    BY <2>1, <2>2 DEF IInv, Others, InStep, SettlesOnce, Owes
<1>2. OneOwes'
  BY <1>1 DEF IInv, OneOwes
<1>3. LoadingOwes'
  BY <1>1 DEF IInv, LoadingOwes
<1> QED
  BY <1>1, <1>2, <1>3 DEF IInv

\* A settling message ends the only debt there is.
LEMMA SettleStep ==
    ASSUME IInv, TypeOK', NEW j \in Jobs, NEW k \in Settling, Receive(j, k), taskUnchanged
    PROVE  IInv' /\ \A i \in Jobs : ~Owes(i)'
<1>1. mailbox[j] \in Seq(Messages) /\ mailbox' = [mailbox EXCEPT ![j] = Tail(mailbox[j])]
      /\ mailbox \in [Jobs -> Seq(Messages)]
  BY DEF IInv, TypeOK, Receive
<1>2. ~Settles(Tail(mailbox[j])) /\ Once(Tail(mailbox[j])) /\ Settles(mailbox[j])
  BY <1>1, TakeSettling DEF Receive, IInv, SettlesOnce
<1>3. /\ UNCHANGED <<worker, runner, failed, detached, snapshot, messages, disconnecting>>
      /\ mailbox'[j] = Tail(mailbox[j])
      /\ \A i \in Jobs \ {j} : mailbox'[i] = mailbox[i]
  BY <1>1 DEF taskUnchanged, hostVars, taskVars, inputVars
<1>4. ASSUME NEW i \in Jobs PROVE InStep(i)' /\ SettlesOnce(i)' /\ ~Owes(i)'
  <2>1. CASE i = j
    <3>1. ~Settles(mailbox[j])' /\ Once(mailbox[j])'
      BY <1>2, <1>3 DEF Settles, Once
    <3>2. ~Busy(j)'
      BY <1>2, <1>3 DEF IInv, SettlesOnce, Busy
    <3>3. InStep(j)'
      BY <1>1, <1>3 DEF IInv, InStep
    <3> QED
      BY <2>1, <3>1, <3>2, <3>3 DEF SettlesOnce, Owes
  <2>2. CASE i # j
    <3>1. ~Owes(i)
      BY <1>2, <2>2 DEF IInv, OneOwes, Owes
    <3>2. ~Settles(mailbox[i])' /\ (Once(mailbox[i])' <=> Once(mailbox[i]))
      BY <1>3, <2>2, <3>1 DEF Settles, Once, Owes
    <3>3. ~Busy(i)'
      BY <1>3, <3>1 DEF Busy, Owes
    <3>4. InStep(i)'
      BY <1>3, <2>2 DEF IInv, InStep
    <3> QED
      BY <3>2, <3>3, <3>4 DEF SettlesOnce, Owes, IInv
  <2> QED
    BY <2>1, <2>2
<1>5. OneOwes' /\ LoadingOwes'
  BY <1>4 DEF OneOwes, LoadingOwes
<1>6. SnapshotIsCurrent'
  BY <1>3 DEF IInv, SnapshotIsCurrent
<1> QED
  BY <1>3, <1>4, <1>5, <1>6 DEF IInv

\* A submission makes its job the only one that owes.
LEMMA SubmitStep ==
    ASSUME IInv, TypeOK', NEW j \in Jobs, Others(j), ~is_loading, is_loading',
           UNCHANGED <<disconnecting, mailbox>>, mailbox[j] = <<>>,
           InStep(j)', SnapshotIsCurrent'
    PROVE  IInv'
<1>1. ASSUME NEW k \in Jobs \ {j} PROVE InStep(k)' /\ SettlesOnce(k)' /\ ~Owes(k)'
  <2>1. ~Owes(k)
    BY DEF IInv, LoadingOwes
  <2>2. ~Settles(mailbox[k])' /\ (Once(mailbox[k])' <=> Once(mailbox[k]))
    BY <2>1 DEF Settles, Once, Owes
  <2>3. ~Busy(k)'
    BY <2>1 DEF Others, Busy, Owes
  <2> QED
    BY <2>2, <2>3 DEF IInv, Others, InStep, SettlesOnce, Owes
<1>2. SettlesOnce(j)'
  BY DEF SettlesOnce, Settles, Once
<1> QED
  BY <1>1, <1>2 DEF IInv, OneOwes, LoadingOwes

\* Steps that touch no task, no mailbox and not the history.
LEMMA QuietStep ==
    ASSUME IInv, TypeOK',
           UNCHANGED <<worker, runner, failed, detached, mailbox, snapshot, messages,
                       disconnecting, is_loading>>
    PROVE  IInv'
<1>1. ASSUME NEW k \in Jobs PROVE InStep(k)' /\ SettlesOnce(k)' /\ (Owes(k)' <=> Owes(k))
  BY DEF IInv, InStep, SettlesOnce, Owes, Busy, Settles, Once
<1> QED
  BY <1>1 DEF IInv, OneOwes, LoadingOwes, SnapshotIsCurrent

-----------------------------------------------------------------------------

\* Every step keeps the invariant, if nothing is disconnected by force.
LEMMA InvStep == ASSUME MaxDisconnects = 0 PROVE IInv /\ [Next]_vars => IInv'
<1> SUFFICES ASSUME IInv, [Next]_vars PROVE IInv'
  OBVIOUS
<1> USE JobsAssumption
<1> TypeOK /\ TypeOK'
  BY TypeStep DEF IInv
<1>1. ASSUME NEW p \in Prompts, Submit(p) PROVE IInv'
  <2>1. mailbox[p] = <<>> /\ InStep(p)' /\ Others(p) /\ p \in Jobs
    BY <1>1 DEF Submit, IInv, TypeOK, InStep, Others, WorkerGoto, Jobs
  <2>2. SnapshotIsCurrent'
    BY <1>1 DEF Submit, IInv, SnapshotIsCurrent, hostVars
  <2> QED
    BY <1>1, <2>1, <2>2, SubmitStep DEF Submit, inputVars
<1>2. ASSUME NEW b \in Bashes, SubmitBash(b) PROVE IInv'
  <2>1. mailbox[b] = <<>> /\ InStep(b)' /\ Others(b) /\ b \in Jobs
    BY <1>2 DEF SubmitBash, IInv, TypeOK, InStep, Others, WorkerGoto, RunnerGoto, taskVars,
       Jobs
  <2>2. SnapshotIsCurrent'
    BY <1>2 DEF SubmitBash, IInv, TypeOK, SnapshotIsCurrent, RunnerGoto, hostVars, taskVars,
       Jobs
  <2> QED
    BY <1>2, <2>1, <2>2, SubmitStep DEF SubmitBash, inputVars
<1>3. ASSUME NEW m \in Models, PickModel(m) PROVE IInv'
  BY <1>3, QuietStep DEF PickModel, taskVars
<1>4. ASSUME NEW m \in Models, SetNextTurnModelOverride(m) PROVE IInv'
  BY <1>4, QuietStep DEF SetNextTurnModelOverride, hostVars, taskVars
<1>5. ASSUME Resume PROVE IInv'
  <2>1. ASSUME NEW k \in Jobs PROVE ~Owes(k)
    BY <1>5 DEF Resume, IInv, LoadingOwes
  <2>2. ASSUME NEW k \in Jobs PROVE InStep(k)' /\ SettlesOnce(k)' /\ ~Owes(k)'
    BY <1>5, <2>1 DEF Resume, taskVars, IInv, InStep, SettlesOnce, Owes, Busy, Settles, Once
  <2>3. SnapshotIsCurrent'
    BY <1>5, <2>1 DEF Resume, taskVars, SnapshotIsCurrent, Owes, Busy, Jobs
  <2> QED
    BY <1>5, <2>2, <2>3 DEF Resume, IInv, OneOwes, LoadingOwes
<1>6. ASSUME Disconnect PROVE IInv'
  BY <1>6 DEF Disconnect, Spend, TypeOK, Inputs
<1>7. ASSUME RemovalEnds PROVE IInv'
  BY <1>7 DEF RemovalEnds, IInv
<1>8. ASSUME NEW p \in Prompts, Cancelled(p) PROVE IInv'
  BY <1>8 DEF Cancelled, IInv
<1>9. ASSUME NEW p \in Prompts, Apply(p) PROVE IInv'
  <2>1. p \in Jobs /\ Others(p) /\ UNCHANGED <<disconnecting, is_loading, mailbox>>
    BY <1>9 DEF Apply, Others, WorkerGoto, RunnerGoto, TypeOK, Jobs, appVars, taskVars,
       inputVars
  <2>2. InStep(p)' /\ (Busy(p)' <=> Busy(p))
    BY <1>9, <2>1 DEF Apply, IInv, TypeOK, InStep, Busy, WorkerGoto, RunnerGoto, taskVars,
       Jobs
  <2>3. SettlesOnce(p)' /\ (Owes(p)' => Owes(p))
    BY <2>1, <2>2 DEF IInv, SettlesOnce, Owes, Settles, Once
  <2>4. SnapshotIsCurrent'
    BY <1>9 DEF Apply, IInv, TypeOK, SnapshotIsCurrent, WorkerGoto, RunnerGoto, taskVars,
       Jobs
  <2> QED
    BY <2>1, <2>2, <2>3, <2>4, JobStep
<1>10. ASSUME NEW p \in Prompts, TurnReturned(p) PROVE IInv'
  <2>1. p \in Jobs /\ Others(p) /\ UNCHANGED <<disconnecting, is_loading, mailbox>>
    BY <1>10 DEF TurnReturned, Others, WorkerGoto, TypeOK, Jobs, appVars, taskVars,
       inputVars
  <2>2. InStep(p)' /\ (Busy(p)' <=> Busy(p))
    BY <1>10, <2>1 DEF TurnReturned, IInv, TypeOK, InStep, Busy, WorkerGoto, taskVars, Jobs,
       ChannelClosed
  <2>3. SettlesOnce(p)' /\ (Owes(p)' => Owes(p))
    BY <2>1, <2>2 DEF IInv, SettlesOnce, Owes, Settles, Once
  <2>4. SnapshotIsCurrent'
    BY <1>10 DEF TurnReturned, IInv, TypeOK, SnapshotIsCurrent, WorkerGoto, hostVars,
       taskVars, Jobs
  <2> QED
    BY <2>1, <2>2, <2>3, <2>4, JobStep
<1>11. ASSUME NEW p \in Prompts, Restore(p) PROVE IInv'
  <2>1. p \in Jobs /\ Others(p) /\ UNCHANGED <<disconnecting, is_loading, mailbox>>
    BY <1>11 DEF Restore, Others, WorkerGoto, TypeOK, Jobs, appVars, taskVars, inputVars
  <2>2. InStep(p)' /\ (Busy(p)' <=> Busy(p))
    BY <1>11, <2>1 DEF Restore, IInv, TypeOK, InStep, Busy, WorkerGoto, taskVars, Jobs
  <2>3. SettlesOnce(p)' /\ (Owes(p)' => Owes(p))
    BY <2>1, <2>2 DEF IInv, SettlesOnce, Owes, Settles, Once
  <2>4. SnapshotIsCurrent'
    BY <1>11 DEF Restore, IInv, TypeOK, SnapshotIsCurrent, WorkerGoto, taskVars, Jobs
  <2> QED
    BY <2>1, <2>2, <2>3, <2>4, JobStep
<1>12. ASSUME NEW j \in Jobs, Install(j) PROVE IInv'
  <2>1. j \in Jobs /\ Others(j) /\ UNCHANGED <<disconnecting, is_loading, mailbox>>
    BY <1>12 DEF Install, Others, RunnerGoto, TypeOK, Jobs, appVars, taskVars, inputVars
  <2>2. InStep(j)' /\ (Busy(j)' <=> Busy(j))
    BY <1>12, <2>1 DEF Install, IInv, TypeOK, InStep, Busy, RunnerGoto, taskVars, Jobs
  <2>3. SettlesOnce(j)' /\ (Owes(j)' => Owes(j))
    BY <2>1, <2>2 DEF IInv, SettlesOnce, Owes, Settles, Once
  <2>4. SnapshotIsCurrent'
    BY <1>12 DEF Install, IInv, TypeOK, SnapshotIsCurrent, RunnerGoto, taskVars, Jobs
  <2> QED
    BY <2>1, <2>2, <2>3, <2>4, JobStep
<1>13. ASSUME NEW p \in Prompts, TakeSnapshot(p) PROVE IInv'
  <2>1. p \in Jobs /\ Others(p) /\ UNCHANGED <<disconnecting, is_loading, mailbox>>
    BY <1>13 DEF TakeSnapshot, Others, RunnerGoto, TypeOK, Jobs, appVars, inputVars
  <2>2. InStep(p)' /\ (Busy(p)' <=> Busy(p))
    BY <1>13, <2>1 DEF TakeSnapshot, IInv, TypeOK, InStep, Busy, RunnerGoto, Jobs
  <2>3. SettlesOnce(p)' /\ (Owes(p)' => Owes(p))
    BY <2>1, <2>2 DEF IInv, SettlesOnce, Owes, Settles, Once
  <2>4. SnapshotIsCurrent'
    BY <1>13 DEF TakeSnapshot, IInv, TypeOK, SnapshotIsCurrent, RunnerGoto, hostVars, Jobs
  <2> QED
    BY <2>1, <2>2, <2>3, <2>4, JobStep
<1>14. ASSUME NEW p \in Prompts, Answer(p) PROVE IInv'
  <2>1. p \in Jobs /\ Others(p) /\ UNCHANGED <<disconnecting, is_loading, mailbox>>
    BY <1>14 DEF Answer, Others, RunnerGoto, TypeOK, Jobs, appVars, taskVars, inputVars
  <2>2. InStep(p)' /\ (Busy(p)' <=> Busy(p))
    BY <1>14, <2>1 DEF Answer, IInv, TypeOK, InStep, Busy, RunnerGoto, taskVars, Jobs
  <2>3. SettlesOnce(p)' /\ (Owes(p)' => Owes(p))
    BY <2>1, <2>2 DEF IInv, SettlesOnce, Owes, Settles, Once
  <2>4. SnapshotIsCurrent'
    BY <1>14 DEF Answer, IInv, TypeOK, SnapshotIsCurrent, RunnerGoto, hostVars, taskVars,
       Jobs
  <2> QED
    BY <2>1, <2>2, <2>3, <2>4, JobStep
<1>15. ASSUME NEW p \in Prompts, Commit(p) PROVE IInv'
  <2>1. p \in Jobs /\ Others(p) /\ UNCHANGED <<disconnecting, is_loading, mailbox>>
    BY <1>15 DEF Commit, Others, RunnerGoto, TypeOK, Jobs, appVars, taskVars, inputVars
  <2>2. InStep(p)' /\ Busy(p) /\ Busy(p)'
    BY <1>15, <2>1 DEF Commit, IInv, TypeOK, InStep, Busy, RunnerGoto, taskVars, Jobs
  <2>3. SettlesOnce(p)' /\ (Owes(p)' => Owes(p))
    BY <2>1, <2>2 DEF IInv, SettlesOnce, Owes, Settles, Once
  <2>4. ASSUME NEW q \in Prompts, q # p PROVE runner[q] \notin {"route", "call", "commit"}
    BY <2>2, <2>4 DEF IInv, OneOwes, Owes, Busy, Jobs
  <2>5. SnapshotIsCurrent'
    BY <1>15, <2>4 DEF Commit, TypeOK, SnapshotIsCurrent, RunnerGoto, taskVars, Jobs
  <2> QED
    BY <2>1, <2>2, <2>3, <2>5, JobStep
<1>16. ASSUME NEW p \in Prompts, Fail(p) PROVE IInv'
  <2>1. p \in Jobs /\ Others(p) /\ UNCHANGED <<disconnecting, is_loading, mailbox>>
    BY <1>16 DEF Fail, Others, RunnerGoto, TypeOK, Jobs, appVars, inputVars
  <2>2. runner[p] = "call" /\ worker[p] = "forward" /\ ~detached[p] /\ p \notin Bashes
    BY <1>16, <2>1 DEF Fail, IInv, TypeOK, InStep, WorkerPC
  <2>3. /\ runner'[p] = "exit" /\ worker'[p] = "forward" /\ failed'[p] /\ detached'[p] = detached[p]
        /\ mailbox'[p] = mailbox[p]
    BY <1>16, <2>1, <2>2 DEF Fail, TypeOK, RunnerGoto
  <2>4. InStep(p)' /\ Busy(p) /\ Busy(p)'
    BY <2>2, <2>3 DEF InStep, Busy
  <2>5. SettlesOnce(p)' /\ (Owes(p)' => Owes(p))
    BY <2>1, <2>4 DEF IInv, SettlesOnce, Owes, Settles, Once
  <2>6. SnapshotIsCurrent'
    BY <1>16 DEF Fail, IInv, TypeOK, SnapshotIsCurrent, RunnerGoto, hostVars, Jobs
  <2> QED
    BY <2>1, <2>4, <2>5, <2>6, JobStep
<1>17. ASSUME NEW p \in Prompts, DetachedCallEnds(p) PROVE IInv'
  <2>1. p \in Jobs /\ Others(p) /\ UNCHANGED <<disconnecting, is_loading, mailbox>>
    BY <1>17 DEF DetachedCallEnds, Others, TypeOK, Jobs, appVars, inputVars
  <2>2. InStep(p)' /\ (Busy(p)' <=> Busy(p))
    BY <1>17, <2>1 DEF DetachedCallEnds, IInv, TypeOK, InStep, Busy, Jobs
  <2>3. SettlesOnce(p)' /\ (Owes(p)' => Owes(p))
    BY <2>1, <2>2 DEF IInv, SettlesOnce, Owes, Settles, Once
  <2>4. SnapshotIsCurrent'
    BY <1>17 DEF DetachedCallEnds, IInv, TypeOK, SnapshotIsCurrent, hostVars, Jobs
  <2> QED
    BY <2>1, <2>2, <2>3, <2>4, JobStep
<1>18. ASSUME NEW b \in Bashes, RunCommand(b) PROVE IInv'
  <2>1. b \in Jobs /\ Others(b) /\ UNCHANGED <<disconnecting, is_loading, mailbox>>
    BY <1>18 DEF RunCommand, Others, RunnerGoto, TypeOK, Jobs, appVars, taskVars, inputVars
  <2>2. InStep(b)' /\ (Busy(b)' <=> Busy(b))
    BY <1>18, <2>1 DEF RunCommand, IInv, TypeOK, InStep, Busy, RunnerGoto, taskVars, Jobs
  <2>3. SettlesOnce(b)' /\ (Owes(b)' => Owes(b))
    BY <2>1, <2>2 DEF IInv, SettlesOnce, Owes, Settles, Once
  <2>4. SnapshotIsCurrent'
    BY <1>18 DEF RunCommand, IInv, TypeOK, SnapshotIsCurrent, RunnerGoto, hostVars,
       taskVars, Jobs
  <2> QED
    BY <2>1, <2>2, <2>3, <2>4, JobStep
<1>19. ASSUME NEW j \in Jobs, DropGuard(j) PROVE IInv'
  <2>1. j \in Jobs /\ Others(j) /\ UNCHANGED <<disconnecting, is_loading, mailbox>>
    BY <1>19 DEF DropGuard, Others, RunnerGoto, TypeOK, Jobs, appVars, taskVars, inputVars
  <2>2. InStep(j)' /\ (Busy(j)' <=> Busy(j))
    BY <1>19, <2>1 DEF DropGuard, IInv, TypeOK, InStep, Busy, RunnerGoto, taskVars, Jobs
  <2>3. SettlesOnce(j)' /\ (Owes(j)' => Owes(j))
    BY <2>1, <2>2 DEF IInv, SettlesOnce, Owes, Settles, Once
  <2>4. SnapshotIsCurrent'
    BY <1>19 DEF DropGuard, IInv, TypeOK, SnapshotIsCurrent, RunnerGoto, taskVars, Jobs
  <2> QED
    BY <2>1, <2>2, <2>3, <2>4, JobStep
<1>20. ASSUME NEW p \in Prompts, Notify(p) PROVE IInv'
  <2>1. p \in Jobs /\ Others(p) /\ UNCHANGED <<disconnecting, is_loading>>
    BY <1>20 DEF Notify, Send, Others, WorkerGoto, TypeOK, Jobs, appVars, taskVars,
       inputVars
  <2>2. ModelRestored(original[p]) \in Messages /\ ModelRestored(original[p]).kind \notin Settling
    BY Sendable DEF TypeOK, Jobs, Settling
  <2>3. (Settles(mailbox'[p]) <=> Settles(mailbox[p])) /\ (Once(mailbox[p]) => Once(mailbox'[p]))
    BY <1>20, <2>1, <2>2, SendPlain DEF Notify, Send, TypeOK
  <2>4. InStep(p)' /\ (Busy(p)' <=> Busy(p))
    BY <1>20, <2>1 DEF Notify, IInv, TypeOK, InStep, Busy, WorkerGoto, hostVars, taskVars,
       Jobs
  <2>5. SettlesOnce(p)' /\ (Owes(p)' => Owes(p))
    <3>1. (Settles(mailbox[p])' <=> Settles(mailbox[p])) /\ (Once(mailbox[p]) => Once(mailbox[p])')
      BY <2>3 DEF Settles, Once
    <3> QED
      BY <2>1, <2>4, <3>1 DEF IInv, SettlesOnce, Owes
  <2>6. SnapshotIsCurrent'
    BY <1>20 DEF Notify, IInv, TypeOK, SnapshotIsCurrent, WorkerGoto, hostVars, taskVars,
       Jobs
  <2> QED
    BY <2>1, <2>4, <2>5, <2>6, JobStep
<1>21. ASSUME NEW p \in Prompts, StreamDelta(p) PROVE IInv'
  <2>1. p \in Jobs /\ Others(p) /\ UNCHANGED <<disconnecting, is_loading>>
    BY <1>21 DEF StreamDelta, Send, Others, TypeOK, Jobs, appVars, inputVars
  <2>2. Message("delta") \in Messages /\ Message("delta").kind \notin Settling
    BY Sendable DEF Kinds, Settling
  <2>3. (Settles(mailbox'[p]) <=> Settles(mailbox[p])) /\ (Once(mailbox[p]) => Once(mailbox'[p]))
    BY <1>21, <2>1, <2>2, SendPlain DEF StreamDelta, Send, TypeOK
  <2>4. InStep(p)' /\ (Busy(p)' <=> Busy(p))
    BY <1>21, <2>1 DEF StreamDelta, IInv, TypeOK, InStep, Busy, hostVars, Jobs
  <2>5. SettlesOnce(p)' /\ (Owes(p)' => Owes(p))
    <3>1. (Settles(mailbox[p])' <=> Settles(mailbox[p])) /\ (Once(mailbox[p]) => Once(mailbox[p])')
      BY <2>3 DEF Settles, Once
    <3> QED
      BY <2>1, <2>4, <3>1 DEF IInv, SettlesOnce, Owes
  <2>6. SnapshotIsCurrent'
    BY <1>21 DEF StreamDelta, IInv, TypeOK, SnapshotIsCurrent, hostVars, Jobs
  <2> QED
    BY <2>1, <2>4, <2>5, <2>6, JobStep
<1>22. ASSUME NEW p \in Prompts, Route(p) PROVE IInv'
  <2>1. p \in Jobs /\ Others(p) /\ UNCHANGED <<disconnecting, is_loading>>
    BY <1>22 DEF Route, Others, RunnerGoto, TypeOK, Jobs, appVars, inputVars
  <2>2. /\ Message("route") \in Messages /\ Message("route").kind \notin Settling
        /\ Message("started") \in Messages /\ Message("started").kind \notin Settling
    BY Sendable DEF Kinds, Settling
  <2>3. (Settles(mailbox'[p]) <=> Settles(mailbox[p])) /\ (Once(mailbox[p]) => Once(mailbox'[p]))
    <3> DEFINE half == Append(mailbox[p], Message("route"))
    <3>1. half \in Seq(Messages) /\ (Settles(half) <=> Settles(mailbox[p])) /\ (Once(mailbox[p]) => Once(half))
      BY <2>1, <2>2, SendPlain DEF TypeOK
    <3>2. mailbox'[p] = Append(half, Message("started"))
      BY <1>22, <2>1 DEF Route, TypeOK
    <3> HIDE DEF half
    <3> QED
      BY <2>2, <3>1, <3>2, SendPlain
  <2>4. InStep(p)' /\ (Busy(p)' <=> Busy(p))
    BY <1>22, <2>1 DEF Route, IInv, TypeOK, InStep, Busy, RunnerGoto, hostVars, Jobs
  <2>5. SettlesOnce(p)' /\ (Owes(p)' => Owes(p))
    <3>1. (Settles(mailbox[p])' <=> Settles(mailbox[p])) /\ (Once(mailbox[p]) => Once(mailbox[p])')
      BY <2>3 DEF Settles, Once
    <3> QED
      BY <2>1, <2>4, <3>1 DEF IInv, SettlesOnce, Owes
  <2>6. SnapshotIsCurrent'
    BY <1>22 DEF Route, IInv, TypeOK, SnapshotIsCurrent, RunnerGoto, hostVars, Jobs
  <2> QED
    BY <2>1, <2>4, <2>5, <2>6, JobStep
<1>23. ASSUME NEW p \in Prompts, SendComplete(p) PROVE IInv'
  <2>1. p \in Jobs /\ Others(p) /\ UNCHANGED <<disconnecting, is_loading>>
    BY <1>23 DEF SendComplete, Send, Others, RunnerGoto, TypeOK, Jobs, appVars, taskVars,
       inputVars
  <2>2. Message("complete") \in Messages
    BY Sendable DEF Kinds
  <2>3. Busy(p) /\ ~Settles(mailbox[p])
    BY <1>23, <2>1 DEF SendComplete, IInv, SettlesOnce, Busy
  <2>4. Once(mailbox'[p])
    BY <1>23, <2>1, <2>2, <2>3, SendSettling DEF SendComplete, Send, TypeOK
  <2>5. InStep(p)' /\ ~Busy(p)'
    BY <1>23, <2>1 DEF SendComplete, IInv, TypeOK, InStep, Busy, RunnerGoto, hostVars,
       taskVars, Jobs
  <2>6. SettlesOnce(p)' /\ (Owes(p)' => Owes(p))
    BY <2>3, <2>4, <2>5 DEF SettlesOnce, Owes, Once
  <2>7. SnapshotIsCurrent'
    BY <1>23 DEF SendComplete, IInv, TypeOK, SnapshotIsCurrent, RunnerGoto, hostVars,
       taskVars, Jobs
  <2> QED
    BY <2>1, <2>5, <2>6, <2>7, JobStep
<1>24. ASSUME NEW b \in Bashes, BashReturned(b) PROVE IInv'
  <2>1. b \in Jobs /\ Others(b) /\ UNCHANGED <<disconnecting, is_loading>>
    BY <1>24 DEF BashReturned, Send, Others, WorkerGoto, TypeOK, Jobs, appVars, taskVars,
       inputVars
  <2>2. Message("bash_done") \in Messages
    BY Sendable DEF Kinds
  <2>3. Busy(b) /\ ~Settles(mailbox[b])
    BY <1>24, <2>1 DEF BashReturned, IInv, SettlesOnce, Busy
  <2>4. Once(mailbox'[b])
    BY <1>24, <2>1, <2>2, <2>3, SendSettling DEF BashReturned, Send, TypeOK
  <2>5. InStep(b)' /\ ~Busy(b)'
    BY <1>24, <2>1 DEF BashReturned, IInv, TypeOK, InStep, Busy, WorkerGoto, hostVars,
       taskVars, ChannelClosed, Jobs
  <2>6. SettlesOnce(b)' /\ (Owes(b)' => Owes(b))
    BY <2>3, <2>4, <2>5 DEF SettlesOnce, Owes, Once
  <2>7. SnapshotIsCurrent'
    BY <1>24 DEF BashReturned, IInv, TypeOK, SnapshotIsCurrent, WorkerGoto, hostVars,
       taskVars, Jobs
  <2> QED
    BY <2>1, <2>5, <2>6, <2>7, JobStep
<1>25. ASSUME NEW p \in Prompts, Report(p) PROVE IInv'
  <2>1. CASE failed[p]
    <3>1. p \in Jobs /\ Others(p) /\ UNCHANGED <<disconnecting, is_loading>>
      BY <1>25, <2>1 DEF Report, Send, Others, WorkerGoto, TypeOK, Jobs, appVars, taskVars,
         inputVars
    <3>2. Message("error") \in Messages
      BY Sendable DEF Kinds
    <3>3. Busy(p) /\ ~Settles(mailbox[p])
      BY <1>25, <2>1, <3>1 DEF Report, IInv, SettlesOnce, Busy
    <3>4. Once(mailbox'[p])
      <4>1. Send(p, Message("error"))
        BY <1>25, <2>1 DEF Report
      <4>2. mailbox'[p] = Append(mailbox[p], Message("error")) /\ mailbox[p] \in Seq(Messages)
        BY <3>1, <4>1 DEF Send, TypeOK
      <4>3. Message("error").kind \in Settling
        BY DEF Message, Settling
      <4> QED
        BY <3>2, <3>3, <4>2, SendSettling
    <3>5. InStep(p)' /\ ~Busy(p)'
      BY <1>25, <2>1, <3>1 DEF Report, IInv, TypeOK, InStep, Busy, WorkerGoto, hostVars,
         taskVars, Jobs
    <3>6. SettlesOnce(p)' /\ (Owes(p)' => Owes(p))
      BY <3>3, <3>4, <3>5 DEF SettlesOnce, Owes, Once
    <3>7. SnapshotIsCurrent'
      BY <1>25, <2>1 DEF Report, IInv, TypeOK, SnapshotIsCurrent, WorkerGoto, hostVars,
         taskVars, Jobs
    <3> QED
      BY <3>1, <3>5, <3>6, <3>7, JobStep
  <2>2. CASE ~failed[p]
    <3>1. p \in Jobs /\ Others(p) /\ UNCHANGED <<disconnecting, is_loading, mailbox>>
      BY <1>25, <2>2 DEF Report, Others, WorkerGoto, TypeOK, Jobs, appVars, taskVars,
         inputVars
    <3>2. InStep(p)' /\ (Busy(p)' <=> Busy(p))
      BY <1>25, <2>2, <3>1 DEF Report, IInv, TypeOK, InStep, Busy, WorkerGoto, taskVars,
         Jobs
    <3>3. SettlesOnce(p)' /\ (Owes(p)' => Owes(p))
      BY <3>1, <3>2 DEF IInv, SettlesOnce, Owes, Settles, Once
    <3>4. SnapshotIsCurrent'
      BY <1>25 DEF Report, IInv, SnapshotIsCurrent, hostVars, taskVars
    <3> QED
      BY <3>1, <3>2, <3>3, <3>4, JobStep
  <2> QED
    BY <2>1, <2>2
<1>26. ASSUME NEW p \in Prompts, OnRoute(p) PROVE IInv'
  <2>1. p \in Jobs /\ Others(p) /\ UNCHANGED <<disconnecting, is_loading, worker, runner, failed, detached, snapshot, messages>>
    BY <1>26 DEF OnRoute, Receive, Others, TypeOK, Jobs, taskUnchanged, hostVars, taskVars,
       inputVars
  <2>2. mailbox[p] \in Seq(Messages) /\ mailbox[p] # <<>> /\ mailbox'[p] = Tail(mailbox[p])
        /\ Head(mailbox[p]).kind \notin Settling
    BY <1>26, <2>1 DEF OnRoute, Receive, TypeOK, Settling
  <2>3. (Settles(mailbox'[p]) <=> Settles(mailbox[p])) /\ (Once(mailbox[p]) => Once(mailbox'[p]))
    BY <2>2, TakePlain
  <2>4. InStep(p)' /\ (Busy(p)' <=> Busy(p))
    BY <2>1, <2>2 DEF IInv, InStep, Busy
  <2>5. SettlesOnce(p)' /\ (Owes(p)' => Owes(p))
    BY <2>3, <2>4, <2>1 DEF IInv, SettlesOnce, Owes, Settles, Once
  <2>6. SnapshotIsCurrent'
    BY <2>1 DEF IInv, SnapshotIsCurrent
  <2> QED
    BY <2>1, <2>4, <2>5, <2>6, JobStep
<1>27. ASSUME NEW p \in Prompts, OnStarted(p) PROVE IInv'
  <2>1. p \in Jobs /\ Others(p) /\ UNCHANGED <<disconnecting, is_loading, worker, runner, failed, detached, snapshot, messages>>
    BY <1>27 DEF OnStarted, Receive, Others, TypeOK, Jobs, appVars, taskUnchanged, hostVars,
       taskVars, inputVars
  <2>2. mailbox[p] \in Seq(Messages) /\ mailbox[p] # <<>> /\ mailbox'[p] = Tail(mailbox[p])
        /\ Head(mailbox[p]).kind \notin Settling
    BY <1>27, <2>1 DEF OnStarted, Receive, TypeOK, Settling
  <2>3. (Settles(mailbox'[p]) <=> Settles(mailbox[p])) /\ (Once(mailbox[p]) => Once(mailbox'[p]))
    BY <2>2, TakePlain
  <2>4. InStep(p)' /\ (Busy(p)' <=> Busy(p))
    BY <2>1, <2>2 DEF IInv, InStep, Busy
  <2>5. SettlesOnce(p)' /\ (Owes(p)' => Owes(p))
    BY <2>3, <2>4, <2>1 DEF IInv, SettlesOnce, Owes, Settles, Once
  <2>6. SnapshotIsCurrent'
    BY <2>1 DEF IInv, SnapshotIsCurrent
  <2> QED
    BY <2>1, <2>4, <2>5, <2>6, JobStep
<1>28. ASSUME NEW p \in Prompts, OnDelta(p) PROVE IInv'
  <2>1. p \in Jobs /\ Others(p) /\ UNCHANGED <<disconnecting, is_loading, worker, runner, failed, detached, snapshot, messages>>
    BY <1>28 DEF OnDelta, Receive, Others, TypeOK, Jobs, taskUnchanged, hostVars, taskVars,
       inputVars
  <2>2. mailbox[p] \in Seq(Messages) /\ mailbox[p] # <<>> /\ mailbox'[p] = Tail(mailbox[p])
        /\ Head(mailbox[p]).kind \notin Settling
    BY <1>28, <2>1 DEF OnDelta, Receive, TypeOK, Settling
  <2>3. (Settles(mailbox'[p]) <=> Settles(mailbox[p])) /\ (Once(mailbox[p]) => Once(mailbox'[p]))
    BY <2>2, TakePlain
  <2>4. InStep(p)' /\ (Busy(p)' <=> Busy(p))
    BY <2>1, <2>2 DEF IInv, InStep, Busy
  <2>5. SettlesOnce(p)' /\ (Owes(p)' => Owes(p))
    BY <2>3, <2>4, <2>1 DEF IInv, SettlesOnce, Owes, Settles, Once
  <2>6. SnapshotIsCurrent'
    BY <2>1 DEF IInv, SnapshotIsCurrent
  <2> QED
    BY <2>1, <2>4, <2>5, <2>6, JobStep
<1>29. ASSUME NEW p \in Prompts, OnModelRestored(p) PROVE IInv'
  <2>1. p \in Jobs /\ Others(p) /\ UNCHANGED <<disconnecting, is_loading, worker, runner, failed, detached, snapshot, messages>>
    BY <1>29 DEF OnModelRestored, Receive, Others, TypeOK, Jobs, taskUnchanged, hostVars,
       taskVars, inputVars
  <2>2. mailbox[p] \in Seq(Messages) /\ mailbox[p] # <<>> /\ mailbox'[p] = Tail(mailbox[p])
        /\ Head(mailbox[p]).kind \notin Settling
    BY <1>29, <2>1 DEF OnModelRestored, Receive, TypeOK, Settling
  <2>3. (Settles(mailbox'[p]) <=> Settles(mailbox[p])) /\ (Once(mailbox[p]) => Once(mailbox'[p]))
    BY <2>2, TakePlain
  <2>4. InStep(p)' /\ (Busy(p)' <=> Busy(p))
    BY <2>1, <2>2 DEF IInv, InStep, Busy
  <2>5. SettlesOnce(p)' /\ (Owes(p)' => Owes(p))
    BY <2>3, <2>4, <2>1 DEF IInv, SettlesOnce, Owes, Settles, Once
  <2>6. SnapshotIsCurrent'
    BY <2>1 DEF IInv, SnapshotIsCurrent
  <2> QED
    BY <2>1, <2>4, <2>5, <2>6, JobStep
<1>30. ASSUME NEW p \in Prompts, OnComplete(p) PROVE IInv'
  BY <1>30, SettleStep DEF OnComplete, Settling, Jobs
<1>31. ASSUME NEW p \in Prompts, OnCancelled(p) PROVE IInv'
  BY <1>31, SettleStep DEF OnCancelled, Settling, Jobs
<1>32. ASSUME NEW p \in Prompts, OnError(p) PROVE IInv'
  BY <1>32, SettleStep DEF OnError, Settling, Jobs
<1>33. ASSUME NEW b \in Bashes, OnBashDone(b) PROVE IInv'
  BY <1>33, SettleStep DEF OnBashDone, Settling, Jobs
<1>34. ASSUME NEW j \in Jobs, OnAborted(j) PROVE IInv'
  BY <1>34, SettleStep DEF OnAborted, Settling
<1>35. ASSUME NEW j \in Jobs, AbortAfterGrace(j) PROVE IInv'
  BY <1>35 DEF AbortAfterGrace, IInv
<1>36. CASE UNCHANGED vars
  BY <1>36, QuietStep DEF vars, appVars, hostVars, taskVars, inputVars
<1> QED
  <2>1. ASSUME Key PROVE IInv'
    BY <2>1, <1>1, <1>2, <1>3, <1>4, <1>5, <1>6 DEF Key
  <2>2. ASSUME NEW j \in Jobs, WorkerStep(j) PROVE IInv'
    BY <2>2, <1>9, <1>10, <1>11, <1>20, <1>25, <1>24 DEF WorkerStep
  <2>3. ASSUME NEW j \in Jobs, RunnerStep(j) PROVE IInv'
    BY <2>3, <1>12, <1>19, <1>13, <1>22, <1>15, <1>23, <1>18 DEF RunnerStep
  <2>4. ASSUME NEW j \in Jobs, MainLoop(j) PROVE IInv'
    BY <2>4, <1>26, <1>27, <1>28, <1>30, <1>31, <1>32, <1>29, <1>33, <1>34 DEF MainLoop
  <2> QED
    BY <2>1, <2>2, <2>3, <2>4, <1>7, <1>14, <1>16, <1>21, <1>8, <1>17, <1>35, <1>36 DEF
       Next, ProviderEnds

\* At the start nothing owes anything.
LEMMA InvInit == Init => IInv
<1> SUFFICES ASSUME Init PROVE IInv
  OBVIOUS
<1>1. TypeOK
  BY InitTypes
<1> QED
  BY <1>1 DEF Init, IInv, InStep, SettlesOnce, OneOwes, LoadingOwes, Owes, Busy, Settles,
     Once, SnapshotIsCurrent, Jobs

-----------------------------------------------------------------------------
(* What follows from the invariant. *)

\* A turn in flight owes the main loop its settling message.
LEMMA InFlightOwes == ASSUME IInv, NEW p \in Prompts, InFlight(p) PROVE Owes(p) /\ is_loading
<1>1. Busy(p)
  BY DEF InFlight, Busy
<1> QED
  BY <1>1 DEF Owes, IInv, LoadingOwes, Jobs

\* A running command owes it too: its worker waits for the channel to close.
LEMMA CommandOwes ==
    ASSUME IInv, NEW b \in Bashes, runner[b] \in {"install", "command", "exit"}
    PROVE  is_loading
<1>1. b \in Jobs /\ InStep(b) /\ worker[b] \in WorkerPC
  BY DEF IInv, TypeOK, Jobs
<1>2. Busy(b)
  BY <1>1 DEF InStep, Busy, WorkerPC
<1> QED
  BY <1>1, <1>2 DEF Owes, IInv, LoadingOwes

\* Without a forced disconnect a turn in flight works on the history as it is,
\* so its commit overwrites neither another turn nor a resumed transcript
\* (SnapshotIsCurrent).
THEOREM CalmSnapshot == ASSUME MaxDisconnects = 0 PROVE Spec => []SnapshotIsCurrent
<1>1. Init => IInv
  BY InvInit
<1>2. IInv /\ [Next]_vars => IInv'
  BY InvStep
<1>3. IInv => SnapshotIsCurrent
  BY DEF IInv
<1> QED
  BY <1>1, <1>2, <1>3, PTL DEF Spec

\* Without a forced disconnect is_loading covers every turn up to its commit and
\* every command, so neither Enter nor `/resume` gets between (LoadingCoversJobs).
THEOREM CalmLoading == ASSUME MaxDisconnects = 0 PROVE Spec => []LoadingCoversJobs
<1>1. Init => IInv
  BY InvInit
<1>2. IInv /\ [Next]_vars => IInv'
  BY InvStep
<1>3. IInv => LoadingCoversJobs
  BY InFlightOwes, CommandOwes DEF LoadingCoversJobs
<1> QED
  BY <1>1, <1>2, <1>3, PTL DEF Spec

-----------------------------------------------------------------------------
(* The history of the conversation is that of TurnHistory. *)

Flying == {p \in Prompts : InFlight(p)}
Lost   == {p \in Prompts : failed[p]}

\* One turn is in flight at a time.
LEMMA FliesAlone == ASSUME IInv, NEW p \in Prompts, InFlight(p) PROVE Flying = {p}
<1>1. ASSUME NEW q \in Prompts, InFlight(q) PROVE q = p
  BY <1>1, InFlightOwes DEF IInv, OneOwes, Jobs
<1> QED
  BY <1>1 DEF Flying

\* A step that moves no turn in or out of flight and leaves the history alone stutters.
LEMMA Stutters ==
    ASSUME UNCHANGED <<messages, failed>>, \A p \in Prompts : InFlight(p)' <=> InFlight(p)
    PROVE  UNCHANGED <<messages, Flying, Lost>>
BY DEF Flying, Lost

\* Every step is one of TurnHistory or leaves its variables alone.
LEMMA HistoryStep ==
    ASSUME IInv, IInv', [Next]_vars PROVE [History!Next]_<<messages, Flying, Lost>>
<1> USE JobsAssumption
<1> TypeOK /\ TypeOK'
  BY DEF IInv
<1>1. ASSUME NEW p \in Prompts, Submit(p) PROVE [History!Next]_<<messages, Flying, Lost>>
  <2>1. Flying = {} /\ Flying' = {p}
    <3>1. \A q \in Prompts : ~InFlight(q)
      BY <1>1, InFlightOwes DEF Submit
    <3>2. InFlight(p)'
      BY <1>1 DEF Submit, WorkerGoto, InFlight, TypeOK, Jobs
    <3>3. \A q \in Prompts \ {p} : InFlight(q)' <=> InFlight(q)
      BY <1>1 DEF Submit, WorkerGoto, InFlight, TypeOK, Jobs
    <3> QED
      BY <3>1, <3>2, <3>3 DEF Flying
  <2>2. UNCHANGED <<messages, Lost>>
    BY <1>1 DEF Submit, hostVars, Lost
  <2> QED
    BY <2>1, <2>2 DEF History!Next, History!Begin, Flying, Lost
<1>2. ASSUME Resume PROVE [History!Next]_<<messages, Flying, Lost>>
  <2>1. \A q \in Prompts : ~InFlight(q)
    BY <1>2, InFlightOwes DEF Resume
  <2>2. Flying = {} /\ messages' = <<Loaded>> /\ UNCHANGED <<Flying, Lost>>
    BY <1>2, <2>1 DEF Resume, InFlight, Flying, Lost, taskVars
  <2> QED
    BY <2>2 DEF History!Next, History!Load, Flying, Lost
<1>3. ASSUME NEW p \in Prompts, Commit(p) PROVE [History!Next]_<<messages, Flying, Lost>>
  <2>1. Flying = {p} /\ messages' = Append(messages, p)
    BY <1>3, FliesAlone DEF Commit, InFlight, IInv, SnapshotIsCurrent
  <2>2. Flying' = {}
    <3>1. ~InFlight(p)'
      BY <1>3 DEF Commit, IInv, InStep, RunnerGoto, InFlight, TypeOK, Jobs
    <3>2. \A q \in Prompts \ {p} : InFlight(q)' <=> InFlight(q)
      BY <1>3 DEF Commit, RunnerGoto, InFlight, TypeOK, Jobs
    <3> QED
      BY <2>1, <3>1, <3>2 DEF Flying
  <2>3. UNCHANGED Lost
    BY <1>3 DEF Commit, taskVars, Lost
  <2> QED
    BY <2>1, <2>2, <2>3 DEF History!Next, History!Complete, Flying, Lost
<1>4. ASSUME NEW p \in Prompts, Fail(p) PROVE [History!Next]_<<messages, Flying, Lost>>
  <2>1. Flying = {p} /\ UNCHANGED messages
    BY <1>4, FliesAlone DEF Fail, InFlight, hostVars
  <2>2. Flying' = {}
    <3>1. ~InFlight(p)'
      BY <1>4 DEF Fail, IInv, InStep, RunnerGoto, InFlight, TypeOK, Jobs
    <3>2. \A q \in Prompts \ {p} : InFlight(q)' <=> InFlight(q)
      BY <1>4 DEF Fail, RunnerGoto, InFlight, TypeOK, Jobs
    <3> QED
      BY <2>1, <3>1, <3>2 DEF Flying
  <2>3. Lost' = Lost \cup {p}
    BY <1>4 DEF Fail, Lost, TypeOK, Jobs
  <2> QED
    BY <2>1, <2>2, <2>3 DEF History!Next, History!Fail, Flying, Lost
<1>5. ASSUME NEW p \in Prompts, Cancelled(p) PROVE [History!Next]_<<messages, Flying, Lost>>
  BY <1>5 DEF Cancelled, IInv
<1>6. ASSUME NEW b \in Bashes, SubmitBash(b) PROVE [History!Next]_<<messages, Flying, Lost>>
  <2>1. \A q \in Prompts : InFlight(q)' <=> InFlight(q)
    BY <1>6 DEF SubmitBash, IInv, InStep, WorkerGoto, RunnerGoto, InFlight, TypeOK, Jobs,
       hostVars, taskVars
  <2> QED
    BY <1>6, <2>1, Stutters DEF SubmitBash, hostVars, taskVars
<1>7. ASSUME NEW p \in Prompts, Apply(p) PROVE [History!Next]_<<messages, Flying, Lost>>
  <2>1. \A q \in Prompts : InFlight(q)' <=> InFlight(q)
    BY <1>7 DEF Apply, IInv, InStep, WorkerGoto, RunnerGoto, InFlight, TypeOK, Jobs,
       taskVars
  <2> QED
    BY <1>7, <2>1, Stutters DEF Apply, taskVars
<1>8. ASSUME NEW p \in Prompts, TurnReturned(p) PROVE [History!Next]_<<messages, Flying, Lost>>
  <2>1. \A q \in Prompts : InFlight(q)' <=> InFlight(q)
    BY <1>8 DEF TurnReturned, IInv, InStep, WorkerGoto, InFlight, TypeOK, Jobs, hostVars,
       taskVars
  <2> QED
    BY <1>8, <2>1, Stutters DEF TurnReturned, hostVars, taskVars
<1>9. ASSUME NEW p \in Prompts, Restore(p) PROVE [History!Next]_<<messages, Flying, Lost>>
  <2>1. \A q \in Prompts : InFlight(q)' <=> InFlight(q)
    BY <1>9 DEF Restore, IInv, InStep, WorkerGoto, InFlight, TypeOK, Jobs, taskVars
  <2> QED
    BY <1>9, <2>1, Stutters DEF Restore, taskVars
<1>10. ASSUME NEW p \in Prompts, Notify(p) PROVE [History!Next]_<<messages, Flying, Lost>>
  <2>1. \A q \in Prompts : InFlight(q)' <=> InFlight(q)
    BY <1>10 DEF Notify, IInv, InStep, WorkerGoto, InFlight, TypeOK, Jobs, hostVars,
       taskVars
  <2> QED
    BY <1>10, <2>1, Stutters DEF Notify, hostVars, taskVars
<1>11. ASSUME NEW p \in Prompts, Report(p) PROVE [History!Next]_<<messages, Flying, Lost>>
  <2>1. \A q \in Prompts : InFlight(q)' <=> InFlight(q)
    BY <1>11 DEF Report, IInv, InStep, WorkerGoto, InFlight, TypeOK, Jobs, hostVars,
       taskVars
  <2> QED
    BY <1>11, <2>1, Stutters DEF Report, hostVars, taskVars
<1>12. ASSUME NEW b \in Bashes, BashReturned(b) PROVE [History!Next]_<<messages, Flying, Lost>>
  <2>1. \A q \in Prompts : InFlight(q)' <=> InFlight(q)
    BY <1>12 DEF BashReturned, IInv, InStep, WorkerGoto, InFlight, TypeOK, Jobs, hostVars,
       taskVars
  <2> QED
    BY <1>12, <2>1, Stutters DEF BashReturned, hostVars, taskVars
<1>13. ASSUME NEW j \in Jobs, Install(j) PROVE [History!Next]_<<messages, Flying, Lost>>
  <2>1. \A q \in Prompts : InFlight(q)' <=> InFlight(q)
    BY <1>13 DEF Install, IInv, InStep, RunnerGoto, InFlight, TypeOK, Jobs, taskVars
  <2> QED
    BY <1>13, <2>1, Stutters DEF Install, taskVars
<1>14. ASSUME NEW p \in Prompts, TakeSnapshot(p) PROVE [History!Next]_<<messages, Flying, Lost>>
  <2>1. \A q \in Prompts : InFlight(q)' <=> InFlight(q)
    BY <1>14 DEF TakeSnapshot, IInv, InStep, RunnerGoto, InFlight, TypeOK, Jobs, hostVars
  <2> QED
    BY <1>14, <2>1, Stutters DEF TakeSnapshot, hostVars
<1>15. ASSUME NEW p \in Prompts, Route(p) PROVE [History!Next]_<<messages, Flying, Lost>>
  <2>1. \A q \in Prompts : InFlight(q)' <=> InFlight(q)
    BY <1>15 DEF Route, IInv, InStep, RunnerGoto, InFlight, TypeOK, Jobs, hostVars
  <2> QED
    BY <1>15, <2>1, Stutters DEF Route, hostVars
<1>16. ASSUME NEW p \in Prompts, StreamDelta(p) PROVE [History!Next]_<<messages, Flying, Lost>>
  <2>1. \A q \in Prompts : InFlight(q)' <=> InFlight(q)
    BY <1>16 DEF StreamDelta, IInv, InStep, InFlight, TypeOK, Jobs, hostVars
  <2> QED
    BY <1>16, <2>1, Stutters DEF StreamDelta, hostVars
<1>17. ASSUME NEW p \in Prompts, Answer(p) PROVE [History!Next]_<<messages, Flying, Lost>>
  <2>1. \A q \in Prompts : InFlight(q)' <=> InFlight(q)
    BY <1>17 DEF Answer, IInv, InStep, RunnerGoto, InFlight, TypeOK, Jobs, hostVars,
       taskVars
  <2> QED
    BY <1>17, <2>1, Stutters DEF Answer, hostVars, taskVars
<1>18. ASSUME NEW p \in Prompts, SendComplete(p) PROVE [History!Next]_<<messages, Flying, Lost>>
  <2>1. \A q \in Prompts : InFlight(q)' <=> InFlight(q)
    BY <1>18 DEF SendComplete, IInv, InStep, RunnerGoto, InFlight, TypeOK, Jobs, hostVars,
       taskVars
  <2> QED
    BY <1>18, <2>1, Stutters DEF SendComplete, hostVars, taskVars
<1>19. ASSUME NEW b \in Bashes, RunCommand(b) PROVE [History!Next]_<<messages, Flying, Lost>>
  <2>1. \A q \in Prompts : InFlight(q)' <=> InFlight(q)
    BY <1>19 DEF RunCommand, IInv, InStep, RunnerGoto, InFlight, TypeOK, Jobs, hostVars,
       taskVars
  <2> QED
    BY <1>19, <2>1, Stutters DEF RunCommand, hostVars, taskVars
<1>20. ASSUME NEW j \in Jobs, DropGuard(j) PROVE [History!Next]_<<messages, Flying, Lost>>
  <2>1. \A q \in Prompts : InFlight(q)' <=> InFlight(q)
    BY <1>20 DEF DropGuard, IInv, InStep, RunnerGoto, InFlight, TypeOK, Jobs, taskVars
  <2> QED
    BY <1>20, <2>1, Stutters DEF DropGuard, taskVars
<1>21. ASSUME NEW m \in Models, PickModel(m) PROVE [History!Next]_<<messages, Flying, Lost>>
  BY <1>21, Stutters DEF PickModel, InFlight, taskVars
<1>22. ASSUME NEW m \in Models, SetNextTurnModelOverride(m) PROVE [History!Next]_<<messages, Flying, Lost>>
  BY <1>22, Stutters DEF SetNextTurnModelOverride, InFlight, hostVars, taskVars
<1>23. ASSUME Disconnect PROVE [History!Next]_<<messages, Flying, Lost>>
  BY <1>23, Stutters DEF Disconnect, InFlight, hostVars, taskVars
<1>24. ASSUME RemovalEnds PROVE [History!Next]_<<messages, Flying, Lost>>
  BY <1>24, Stutters DEF RemovalEnds, InFlight, hostVars, taskVars
<1>25. ASSUME NEW p \in Prompts, DetachedCallEnds(p) PROVE [History!Next]_<<messages, Flying, Lost>>
  BY <1>25, Stutters DEF DetachedCallEnds, InFlight, hostVars
<1>26. ASSUME NEW p \in Prompts, OnRoute(p) PROVE [History!Next]_<<messages, Flying, Lost>>
  BY <1>26, Stutters DEF OnRoute, InFlight, taskUnchanged, hostVars, taskVars
<1>27. ASSUME NEW p \in Prompts, OnStarted(p) PROVE [History!Next]_<<messages, Flying, Lost>>
  BY <1>27, Stutters DEF OnStarted, InFlight, taskUnchanged, hostVars, taskVars
<1>28. ASSUME NEW p \in Prompts, OnDelta(p) PROVE [History!Next]_<<messages, Flying, Lost>>
  BY <1>28, Stutters DEF OnDelta, InFlight, taskUnchanged, hostVars, taskVars
<1>29. ASSUME NEW p \in Prompts, OnComplete(p) PROVE [History!Next]_<<messages, Flying, Lost>>
  BY <1>29, Stutters DEF OnComplete, InFlight, taskUnchanged, hostVars, taskVars
<1>30. ASSUME NEW p \in Prompts, OnCancelled(p) PROVE [History!Next]_<<messages, Flying, Lost>>
  BY <1>30, Stutters DEF OnCancelled, InFlight, taskUnchanged, hostVars, taskVars
<1>31. ASSUME NEW p \in Prompts, OnError(p) PROVE [History!Next]_<<messages, Flying, Lost>>
  BY <1>31, Stutters DEF OnError, InFlight, taskUnchanged, hostVars, taskVars
<1>32. ASSUME NEW p \in Prompts, OnModelRestored(p) PROVE [History!Next]_<<messages, Flying, Lost>>
  BY <1>32, Stutters DEF OnModelRestored, InFlight, taskUnchanged, hostVars, taskVars
<1>33. ASSUME NEW b \in Bashes, OnBashDone(b) PROVE [History!Next]_<<messages, Flying, Lost>>
  BY <1>33, Stutters DEF OnBashDone, InFlight, taskUnchanged, hostVars, taskVars
<1>34. ASSUME NEW j \in Jobs, OnAborted(j) PROVE [History!Next]_<<messages, Flying, Lost>>
  BY <1>34, Stutters DEF OnAborted, InFlight, taskUnchanged, hostVars, taskVars
<1>35. ASSUME NEW j \in Jobs, AbortAfterGrace(j) PROVE [History!Next]_<<messages, Flying, Lost>>
  BY <1>35, Stutters DEF AbortAfterGrace, InFlight, hostVars, taskVars
<1>36. CASE UNCHANGED vars
  BY <1>36, Stutters DEF InFlight, vars, hostVars, taskVars
<1> QED
  <2>1. ASSUME Key PROVE [History!Next]_<<messages, Flying, Lost>>
    BY <2>1, <1>1, <1>6, <1>21, <1>22, <1>2, <1>23 DEF Key
  <2>2. ASSUME NEW j \in Jobs, WorkerStep(j) PROVE [History!Next]_<<messages, Flying, Lost>>
    BY <2>2, <1>7, <1>8, <1>9, <1>10, <1>11, <1>12 DEF WorkerStep
  <2>3. ASSUME NEW j \in Jobs, RunnerStep(j) PROVE [History!Next]_<<messages, Flying, Lost>>
    BY <2>3, <1>13, <1>20, <1>14, <1>15, <1>3, <1>18, <1>19 DEF RunnerStep
  <2>4. ASSUME NEW j \in Jobs, MainLoop(j) PROVE [History!Next]_<<messages, Flying, Lost>>
    BY <2>4, <1>26, <1>27, <1>28, <1>29, <1>30, <1>31, <1>32, <1>33, <1>34 DEF MainLoop
  <2> QED
    BY <2>1, <2>2, <2>3, <2>4, <1>24, <1>17, <1>4, <1>16, <1>5, <1>25, <1>35, <1>36 DEF
       Next, ProviderEnds

\* Without a forced disconnect the history is that of TurnHistory: every turn that
\* completes appends itself to the history, a failed one leaves nothing
\* (ImplementsTurnHistory).
THEOREM CalmHistory == ASSUME MaxDisconnects = 0 PROVE Spec => ImplementsTurnHistory
<1>1. Init => IInv
  BY InvInit
<1>2. IInv /\ [Next]_vars => IInv'
  BY InvStep
<1>3. Init => History!Init
  BY JobsAssumption DEF Init, InFlight, History!Init, Jobs
<1>4. IInv /\ IInv' /\ [Next]_vars => [History!Next]_<<messages, Flying, Lost>>
  BY HistoryStep
<1> QED
  BY <1>1, <1>2, <1>3, <1>4, PTL DEF Spec, ImplementsTurnHistory, History!Spec, Flying, Lost

-----------------------------------------------------------------------------
(* The frames of the turns, and the text of the one that runs. *)

Has(s, g)        == \E h \in DOMAIN s : s[h].kind = g
Guarded(s, k, g) == \A i \in DOMAIN s : s[i].kind = k => \E h \in 1 .. i - 1 : s[h].kind = g
Covered(s)       == \A i \in DOMAIN s :
                        s[i].kind = "delta" => \E h \in DOMAIN s : i < h /\ s[h].kind \in Settling

\* What is appended goes behind what is there.
LEMMA Appended ==
    ASSUME NEW s \in Seq(Messages), NEW m \in Messages
    PROVE  /\ Append(s, m) \in Seq(Messages)
           /\ \A g : Has(s, g) \/ m.kind = g => Has(Append(s, m), g)
           /\ \A k, g : Guarded(s, k, g) /\ (m.kind # k \/ Has(s, g)) => Guarded(Append(s, m), k, g)
           /\ Covered(s) /\ m.kind # "delta" => Covered(Append(s, m))
           /\ m.kind \in Settling => Covered(Append(s, m))
<1>1. /\ Append(s, m) \in Seq(Messages) /\ Len(s) \in Nat
      /\ DOMAIN s = 1 .. Len(s) /\ DOMAIN Append(s, m) = 1 .. Len(s) + 1
      /\ \A i \in 1 .. Len(s) : Append(s, m)[i] = s[i]
      /\ Append(s, m)[Len(s) + 1] = m
  OBVIOUS
<1> DEFINE t == Append(s, m)
<1> HIDE DEF t
<1>2. \A g : Has(s, g) \/ m.kind = g => Has(t, g)
  BY <1>1 DEF Has, t
<1>3. ASSUME NEW k, NEW g, Guarded(s, k, g), m.kind # k \/ Has(s, g) PROVE Guarded(t, k, g)
  <2> SUFFICES ASSUME NEW i \in 1 .. Len(s) + 1, t[i].kind = k
               PROVE  \E h \in 1 .. i - 1 : t[h].kind = g
    BY <1>1 DEF Guarded, t
  <2>1. CASE i \in 1 .. Len(s)
    <3>1. PICK h \in 1 .. i - 1 : s[h].kind = g
      BY <1>1, <1>3, <2>1 DEF Guarded, t
    <3> QED BY <1>1, <2>1, <3>1 DEF t
  <2>2. CASE i = Len(s) + 1
    <3>1. PICK h \in 1 .. Len(s) : s[h].kind = g
      BY <1>1, <1>3, <2>2 DEF Has, t
    <3> QED BY <1>1, <2>2, <3>1 DEF t
  <2> QED BY <1>1, <2>1, <2>2
<1>4. ASSUME Covered(s), m.kind # "delta" PROVE Covered(t)
  <2> SUFFICES ASSUME NEW i \in 1 .. Len(s) + 1, t[i].kind = "delta"
               PROVE  \E h \in 1 .. Len(s) + 1 : i < h /\ t[h].kind \in Settling
    BY <1>1 DEF Covered, t
  <2>1. i \in 1 .. Len(s) /\ s[i].kind = "delta"
    BY <1>1, <1>4 DEF t
  <2>2. PICK h \in 1 .. Len(s) : i < h /\ s[h].kind \in Settling
    BY <1>1, <1>4, <2>1 DEF Covered
  <2> QED BY <1>1, <2>2 DEF t
<1>5. ASSUME m.kind \in Settling PROVE Covered(t)
  BY <1>1, <1>5 DEF Covered, Settling, t
<1> QED BY <1>1, <1>2, <1>3, <1>4, <1>5 DEF t

\* The head of a mailbox has nothing before it.
LEMMA Taken ==
    ASSUME NEW s \in Seq(Messages), s # <<>>
    PROVE  /\ Tail(s) \in Seq(Messages)
           /\ \A g : Has(s, g) /\ Head(s).kind # g => Has(Tail(s), g)
           /\ \A k, g : Guarded(s, k, g) => Head(s).kind # k
           /\ \A k, g : Guarded(s, k, g) /\ Head(s).kind # g => Guarded(Tail(s), k, g)
           /\ Covered(s) => Covered(Tail(s))
           /\ Covered(s) /\ Head(s).kind = "delta" => Settles(s)
<1> DEFINE t == Tail(s)
<1>1. /\ t \in Seq(Messages) /\ Len(s) \in Nat \ {0}
      /\ DOMAIN s = 1 .. Len(s) /\ DOMAIN t = 1 .. Len(s) - 1
      /\ \A i \in 1 .. Len(s) - 1 : t[i] = s[i + 1]
      /\ Head(s) = s[1]
  OBVIOUS
<1> HIDE DEF t
<1>2. ASSUME NEW g, Has(s, g), Head(s).kind # g PROVE Has(t, g)
  <2>1. PICK h \in 1 .. Len(s) : s[h].kind = g
    BY <1>1, <1>2 DEF Has
  <2>2. h - 1 \in 1 .. Len(s) - 1 /\ t[h - 1] = s[h]
    BY <1>1, <1>2, <2>1
  <2> QED BY <1>1, <2>1, <2>2 DEF Has
<1>3. \A k, g : Guarded(s, k, g) => Head(s).kind # k
  BY <1>1 DEF Guarded
<1>4. ASSUME NEW k, NEW g, Guarded(s, k, g), Head(s).kind # g PROVE Guarded(t, k, g)
  <2> SUFFICES ASSUME NEW i \in 1 .. Len(s) - 1, t[i].kind = k
               PROVE  \E h \in 1 .. i - 1 : t[h].kind = g
    BY <1>1 DEF Guarded
  <2>1. PICK h \in 1 .. i : s[h].kind = g
    BY <1>1, <1>4 DEF Guarded
  <2>2. h - 1 \in 1 .. i - 1 /\ t[h - 1] = s[h]
    BY <1>1, <1>4, <2>1
  <2> QED BY <2>1, <2>2
<1>5. ASSUME Covered(s) PROVE Covered(t)
  <2> SUFFICES ASSUME NEW i \in 1 .. Len(s) - 1, t[i].kind = "delta"
               PROVE  \E h \in 1 .. Len(s) - 1 : i < h /\ t[h].kind \in Settling
    BY <1>1 DEF Covered
  <2>1. PICK h \in 1 .. Len(s) : i + 1 < h /\ s[h].kind \in Settling
    BY <1>1, <1>5 DEF Covered
  <2>2. h - 1 \in 1 .. Len(s) - 1 /\ i < h - 1 /\ t[h - 1] = s[h]
    BY <1>1, <2>1
  <2> QED BY <2>1, <2>2
<1>6. Covered(s) /\ Head(s).kind = "delta" => Settles(s)
  BY <1>1 DEF Covered, Settles
<1> QED BY <1>1, <1>2, <1>3, <1>4, <1>5, <1>6 DEF t

-----------------------------------------------------------------------------
(* The invariant of the frames and the text. *)

\* A turn that ends well has been started for the plugins, or the start is before its end.
Frame(p) ==
    current_turn_id = 0 =>
        /\ Guarded(mailbox[p], "complete", "started")
        /\ runner[p] \in {"call", "commit", "complete"} => Has(mailbox[p], "started")

\* The route of a turn, which empties the buffer, is before its text; and its text before
\* the message that settles it.
Live(p) ==
    /\ ~(live_text \subseteq {p}) =>
          /\ Guarded(mailbox[p], "delta", "route")
          /\ runner[p] = "call" => Has(mailbox[p], "route")
    /\ Busy(p) \/ Covered(mailbox[p])

\* The ids are handed out and closed one after the other.
Ids ==
    /\ TurnFramesMatch
    /\ next_turn_id = Len(ended) + (IF current_turn_id = 0 THEN 0 ELSE 1)
    /\ current_turn_id # 0 => current_turn_id = Len(ended) + 1

FInv ==
    /\ Ids
    /\ \A p \in Prompts : Frame(p) /\ Live(p)
    /\ \A p, q \in live_text : p = q

\* A step of one job leaves the frames of the others alone.
LEMMA JobFrames ==
    ASSUME FInv, NEW j \in Jobs, Others(j), UNCHANGED <<idVars, live_text>>,
           j \in Prompts => Frame(j)' /\ Live(j)'
    PROVE  FInv'
<1>1. ASSUME NEW k \in Prompts, k # j PROVE Frame(k)' /\ Live(k)'
  <2>1. mailbox'[k] = mailbox[k] /\ runner'[k] = runner[k] /\ (Busy(k)' <=> Busy(k))
    BY <1>1 DEF Others, Jobs, Busy
  <2> QED BY <1>1, <2>1 DEF FInv, Frame, Live, idVars, Guarded, Has, Covered
<1>2. Ids'
  BY DEF FInv, Ids, TurnFramesMatch, idVars
<1> QED BY <1>1, <1>2 DEF FInv

\* A step of one job that sends nothing, calls nobody and stays in debt.
LEMMA MoveFrames ==
    ASSUME FInv, NEW p \in Prompts, Others(p), UNCHANGED <<idVars, live_text, mailbox>>,
           \A l \in {"call", "complete"} : runner'[p] = l
               => runner[p] \in {"call", "commit", "complete"} /\ (l = "call" => runner[p] = "call"),
           runner'[p] = "commit" => runner[p] \in {"call", "commit"},
           Busy(p) => Busy(p)'
    PROVE  FInv'
<1>1. Frame(p)' /\ Live(p)'
  BY DEF FInv, Frame, Live, idVars, Guarded, Has, Covered
<1> QED BY <1>1, JobFrames DEF Jobs

\* The main loop takes a message of a job.
LEMMA TakeFacts ==
    ASSUME IInv, NEW j \in Jobs, NEW k, Receive(j, k), taskUnchanged
    PROVE  /\ Others(j) /\ UNCHANGED <<worker, runner, failed>>
           /\ mailbox[j] \in Seq(Messages) /\ mailbox[j] # <<>>
           /\ Head(mailbox[j]).kind = k /\ mailbox'[j] = Tail(mailbox[j])
           /\ \A i \in Jobs : Busy(i)' <=> Busy(i)
<1>1. /\ mailbox \in [Jobs -> Seq(Messages)]
      /\ UNCHANGED <<worker, runner, failed, detached>>
      /\ mailbox[j] # <<>> /\ Head(mailbox[j]).kind = k
      /\ mailbox' = [mailbox EXCEPT ![j] = Tail(@)]
  BY DEF IInv, TypeOK, Receive, taskUnchanged, taskVars
<1> QED BY <1>1 DEF Others, Busy

\* A settling message ends the only turn there is: nothing waits for its start or route.
LEMMA SettleFrames ==
    ASSUME IInv, TypeOK', FInv, NEW j \in Jobs, NEW k \in Settling, Receive(j, k), taskUnchanged,
           Ids', live_text' \subseteq live_text
    PROVE  FInv'
<1>1. \A i \in Jobs : ~Owes(i)'
  BY SettleStep
<1>2. ASSUME NEW p \in Prompts PROVE Covered(mailbox'[p])
  <2>1. p \in Jobs /\ ~Busy(p)
    BY <1>1, TakeFacts DEF Owes, Jobs
  <2>2. Covered(mailbox[p])
    BY <2>1 DEF FInv, Live
  <2>3. CASE p = j
    BY <2>2, <2>3, TakeFacts, Taken
  <2>4. CASE p # j
    BY <2>1, <2>2, <2>4, TakeFacts DEF Others
  <2> QED BY <2>3, <2>4
<1>3. ASSUME NEW p \in Prompts PROVE Frame(p)' /\ Live(p)'
  <2>1. ~Busy(p)' /\ ~Settles(mailbox[p])' /\ Covered(mailbox[p])'
    BY <1>1, <1>2 DEF Owes, Jobs, Covered
  <2>2. \A i \in DOMAIN mailbox'[p] : mailbox'[p][i].kind \notin {"complete", "delta"}
    BY <2>1 DEF Settles, Covered, Settling
  <2>3. runner'[p] \notin {"call", "commit", "complete"}
    BY <2>1 DEF Busy
  <2> QED BY <2>1, <2>2, <2>3 DEF Frame, Live, Guarded
<1> QED BY <1>3 DEF FInv

-----------------------------------------------------------------------------

\* The id that is closed is the next one.
LEMMA EndsMatch ==
    ASSUME ended \in Seq(Nat), TurnFramesMatch, ended' = Append(ended, Len(ended) + 1)
    PROVE  TurnFramesMatch' /\ Len(ended') = Len(ended) + 1 /\ Len(ended) \in Nat
BY DEF TurnFramesMatch

\* Every step keeps the frames, if nothing is disconnected by force.
LEMMA FrameStep == ASSUME MaxDisconnects = 0, IInv, FInv, [Next]_vars PROVE FInv'
<1> USE JobsAssumption
<1> TypeOK /\ TypeOK'
  BY TypeStep DEF IInv
<1> /\ \A j \in Jobs : InStep(j) /\ SettlesOnce(j)
    /\ Prompts \subseteq Jobs /\ Bashes \subseteq Jobs
  BY DEF IInv, Jobs
<1>1. ASSUME NEW p \in Prompts, Submit(p) PROVE FInv'
  <2>1. Others(p) /\ UNCHANGED <<idVars, live_text, mailbox, runner>> /\ Busy(p)'
    BY <1>1 DEF Submit, Others, WorkerGoto, TypeOK, Jobs, Busy
  <2> QED BY <2>1, MoveFrames
<1>2. ASSUME NEW p \in Prompts, Apply(p) PROVE FInv'
  <2>1. Others(p) /\ UNCHANGED <<idVars, live_text, mailbox>> /\ runner'[p] = "install"
    BY <1>2 DEF Apply, Others, WorkerGoto, RunnerGoto, TypeOK, Jobs, appVars, taskVars
  <2>2. Busy(p)'
    BY <2>1 DEF Busy
  <2> QED BY <2>1, <2>2, MoveFrames
<1>3. ASSUME NEW p \in Prompts, TurnReturned(p) \/ Restore(p) PROVE FInv'
  <2>1. /\ Others(p) /\ UNCHANGED <<idVars, live_text, mailbox, runner, failed>>
        /\ worker[p] \in {"forward", "restore"} /\ worker'[p] \in {"restore", "notify", "report"}
        /\ runner[p] = "done" /\ p \notin Bashes
    BY <1>3 DEF TurnReturned, Restore, Others, WorkerGoto, TypeOK, Jobs, appVars, taskVars,
       ChannelClosed, InStep
  <2>2. Busy(p) => Busy(p)'
    BY <2>1 DEF Busy
  <2> QED BY <2>1, <2>2, MoveFrames
<1>4. ASSUME NEW p \in Prompts, TakeSnapshot(p) \/ Answer(p) \/ Commit(p) PROVE FInv'
  <2>1. /\ Others(p) /\ UNCHANGED <<idVars, live_text, mailbox, worker, failed>>
        /\ \/ runner'[p] = "route"
           \/ runner[p] = "call" /\ runner'[p] = "commit"
           \/ runner[p] = "commit" /\ runner'[p] = "complete"
    BY <1>4 DEF TakeSnapshot, Answer, Commit, Others, RunnerGoto, TypeOK, Jobs, appVars, taskVars
  <2>2. Busy(p)'
    BY <2>1 DEF Busy
  <2> QED BY <2>1, <2>2, MoveFrames
<1>5. ASSUME NEW p \in Prompts, Fail(p) PROVE FInv'
  <2>1. /\ Others(p) /\ UNCHANGED <<idVars, live_text, mailbox, worker>>
        /\ runner[p] = "call" /\ runner'[p] = "exit" /\ failed'[p]
    BY <1>5 DEF Fail, Others, RunnerGoto, TypeOK, Jobs, appVars
  <2>2. worker[p] = "forward"
    BY <2>1 DEF InStep, TypeOK, WorkerPC
  <2>3. Busy(p)'
    BY <2>1, <2>2 DEF Busy
  <2> QED BY <2>1, <2>3, MoveFrames
<1>6. ASSUME NEW p \in Prompts, DetachedCallEnds(p) PROVE FInv'
  BY <1>6 DEF DetachedCallEnds, InStep
<1>7. ASSUME NEW p \in Prompts, Cancelled(p) PROVE FInv'
  BY <1>7 DEF Cancelled, IInv
<1>8. ASSUME NEW p \in Prompts, Install(p) \/ DropGuard(p) PROVE FInv'
  <2>1. /\ Others(p) /\ UNCHANGED <<idVars, live_text, mailbox, worker, failed>>
        /\ \/ runner[p] = "install" /\ runner'[p] = "snapshot"
           \/ runner[p] = "exit" /\ runner'[p] = "done"
    BY <1>8 DEF Install, DropGuard, Others, RunnerGoto, TypeOK, Jobs, appVars, taskVars
  <2>2. Busy(p) => Busy(p)'
    BY <2>1 DEF Busy
  <2> QED BY <2>1, <2>2, MoveFrames
<1>9. ASSUME NEW b \in Bashes, \/ SubmitBash(b) \/ BashReturned(b) \/ Install(b) \/ DropGuard(b)
                               \/ RunCommand(b)
      PROVE  FInv'
  <2>1. Others(b) /\ UNCHANGED <<idVars, live_text>>
    BY <1>9 DEF SubmitBash, BashReturned, Install, DropGuard, RunCommand, Send, Others, WorkerGoto,
       RunnerGoto, TypeOK, Jobs, appVars, taskVars
  <2> QED BY <2>1, JobFrames
<1>10. ASSUME NEW p \in Prompts, Route(p) PROVE FInv'
  <2>1. /\ Others(p) /\ UNCHANGED <<idVars, live_text>> /\ runner[p] = "route" /\ runner'[p] = "call"
        /\ mailbox'[p] = Append(Append(mailbox[p], Message("route")), Message("started"))
        /\ mailbox[p] \in Seq(Messages)
    BY <1>10 DEF Route, Others, RunnerGoto, TypeOK, Jobs, appVars
  <2>2. /\ Message("route") \in Messages /\ Message("route").kind = "route"
        /\ Message("started") \in Messages /\ Message("started").kind = "started"
    BY Sendable DEF Kinds
  <2> DEFINE half == Append(mailbox[p], Message("route"))
  <2>3. /\ half \in Seq(Messages) /\ Has(half, "route")
        /\ Guarded(mailbox[p], "complete", "started") => Guarded(half, "complete", "started")
        /\ Guarded(mailbox[p], "delta", "route") => Guarded(half, "delta", "route")
    BY <2>1, <2>2, Appended
  <2> HIDE DEF half
  <2>4. mailbox'[p] = Append(half, Message("started"))
    BY <2>1 DEF half
  <2>5. /\ Has(mailbox'[p], "started") /\ Has(mailbox'[p], "route")
        /\ Guarded(half, "complete", "started") => Guarded(mailbox'[p], "complete", "started")
        /\ Guarded(half, "delta", "route") => Guarded(mailbox'[p], "delta", "route")
    BY <2>2, <2>3, <2>4, Appended
  <2>6. Busy(p)'
    BY <2>1 DEF Busy
  <2>7. Frame(p)' /\ Live(p)'
    BY <2>1, <2>3, <2>5, <2>6 DEF FInv, Frame, Live, idVars, Has, Guarded
  <2> QED BY <2>1, <2>7, JobFrames
<1>11. ASSUME NEW p \in Prompts, StreamDelta(p) PROVE FInv'
  <2>1. /\ Others(p) /\ UNCHANGED <<idVars, live_text, runner>> /\ runner[p] = "call"
        /\ mailbox'[p] = Append(mailbox[p], Message("delta")) /\ mailbox[p] \in Seq(Messages)
    BY <1>11 DEF StreamDelta, Send, Others, TypeOK, Jobs, appVars, InStep
  <2>2. Message("delta") \in Messages /\ Message("delta").kind = "delta"
    BY Sendable DEF Kinds
  <2>3. /\ \A g : Has(mailbox[p], g) => Has(mailbox'[p], g)
        /\ Guarded(mailbox[p], "complete", "started") => Guarded(mailbox'[p], "complete", "started")
        /\ Guarded(mailbox[p], "delta", "route") /\ Has(mailbox[p], "route")
             => Guarded(mailbox'[p], "delta", "route")
    BY <2>1, <2>2, Appended
  <2>4. Busy(p)'
    BY <2>1 DEF Busy
  <2>5. Frame(p)' /\ Live(p)'
    BY <2>1, <2>3, <2>4 DEF FInv, Frame, Live, idVars, Has, Guarded
  <2> QED BY <2>1, <2>5, JobFrames
<1>12. ASSUME NEW p \in Prompts, SendComplete(p) PROVE FInv'
  <2>1. /\ Others(p) /\ UNCHANGED <<idVars, live_text>> /\ runner[p] = "complete" /\ runner'[p] = "exit"
        /\ mailbox'[p] = Append(mailbox[p], Message("complete")) /\ mailbox[p] \in Seq(Messages)
    BY <1>12 DEF SendComplete, Send, Others, RunnerGoto, TypeOK, Jobs, appVars, taskVars
  <2>2. /\ Message("complete") \in Messages /\ Message("complete").kind = "complete"
        /\ "complete" \in Settling
    BY Sendable DEF Kinds, Settling
  <2>3. /\ Guarded(mailbox[p], "complete", "started") /\ Has(mailbox[p], "started")
             => Guarded(mailbox'[p], "complete", "started")
        /\ Guarded(mailbox[p], "delta", "route") => Guarded(mailbox'[p], "delta", "route")
        /\ Covered(mailbox'[p])
    BY <2>1, <2>2, Appended
  <2>4. Frame(p)' /\ Live(p)'
    BY <2>1, <2>3 DEF FInv, Frame, Live, idVars, Has, Guarded, Covered
  <2> QED BY <2>1, <2>4, JobFrames
<1>13. ASSUME NEW p \in Prompts, Notify(p) PROVE FInv'
  <2>1. /\ Others(p) /\ UNCHANGED <<idVars, live_text, runner, failed>>
        /\ worker[p] = "notify" /\ worker'[p] = "report" /\ p \notin Bashes
        /\ mailbox'[p] = Append(mailbox[p], ModelRestored(original[p]))
        /\ mailbox[p] \in Seq(Messages) /\ original[p] \in Models
    BY <1>13 DEF Notify, Send, Others, WorkerGoto, TypeOK, Jobs, appVars, taskVars
  <2>2. ModelRestored(original[p]) \in Messages /\ ModelRestored(original[p]).kind = "restored"
    BY <2>1, Sendable
  <2>3. /\ \A g : Has(mailbox[p], g) => Has(mailbox'[p], g)
        /\ Guarded(mailbox[p], "complete", "started") => Guarded(mailbox'[p], "complete", "started")
        /\ Guarded(mailbox[p], "delta", "route") => Guarded(mailbox'[p], "delta", "route")
        /\ Covered(mailbox[p]) => Covered(mailbox'[p])
    BY <2>1, <2>2, Appended
  <2>4. Busy(p) => Busy(p)'
    BY <2>1 DEF Busy
  <2>5. Frame(p)' /\ Live(p)'
    BY <2>1, <2>3, <2>4 DEF FInv, Frame, Live, idVars, Has, Guarded, Covered
  <2> QED BY <2>1, <2>5, JobFrames
<1>14. ASSUME NEW p \in Prompts, Report(p) PROVE FInv'
  <2>1. /\ Others(p) /\ UNCHANGED <<idVars, live_text, runner, failed>>
        /\ worker[p] = "report" /\ runner[p] = "done" /\ mailbox[p] \in Seq(Messages)
    BY <1>14 DEF Report, Send, Others, WorkerGoto, TypeOK, Jobs, appVars, taskVars, InStep
  <2>2. CASE failed[p]
    <3>1. mailbox'[p] = Append(mailbox[p], Message("error"))
      BY <1>14, <2>2 DEF Report, Send, TypeOK, Jobs
    <3>2. /\ Message("error") \in Messages /\ Message("error").kind = "error"
          /\ "error" \in Settling
      BY Sendable DEF Kinds, Settling
    <3>3. /\ Guarded(mailbox[p], "complete", "started") => Guarded(mailbox'[p], "complete", "started")
          /\ Guarded(mailbox[p], "delta", "route") => Guarded(mailbox'[p], "delta", "route")
          /\ Covered(mailbox'[p])
      BY <2>1, <3>1, <3>2, Appended
    <3>4. Frame(p)' /\ Live(p)'
      BY <2>1, <3>3 DEF FInv, Frame, Live, idVars, Has, Guarded, Covered
    <3> QED BY <2>1, <3>4, JobFrames
  <2>3. CASE ~failed[p]
    <3>1. UNCHANGED mailbox /\ ~Busy(p)
      BY <1>14, <2>1, <2>3 DEF Report, Busy
    <3> QED BY <2>1, <3>1, MoveFrames
  <2> QED BY <2>2, <2>3
<1>15. ASSUME NEW p \in Prompts, OnRoute(p) PROVE FInv'
  <2>1. /\ Receive(p, "route") /\ taskUnchanged /\ UNCHANGED idVars /\ live_text' = {}
    BY <1>15 DEF OnRoute
  <2>2. \A q \in Prompts : Frame(q)' /\ (Busy(q)' \/ Covered(mailbox'[q]))
    <3>1. /\ Guarded(mailbox[p], "complete", "started") => Guarded(mailbox'[p], "complete", "started")
          /\ Has(mailbox[p], "started") => Has(mailbox'[p], "started")
          /\ Covered(mailbox[p]) => Covered(mailbox'[p])
      BY <2>1, TakeFacts, Taken
    <3>2. Frame(p)' /\ (Busy(p)' \/ Covered(mailbox'[p]))
      BY <2>1, <3>1, TakeFacts DEF FInv, Frame, Live, idVars, Guarded, Has
    <3>3. ASSUME NEW q \in Prompts, q # p PROVE Frame(q)' /\ (Busy(q)' \/ Covered(mailbox'[q]))
      <4>1. mailbox'[q] = mailbox[q] /\ runner'[q] = runner[q] /\ (Busy(q)' <=> Busy(q))
        BY <2>1, <3>3, TakeFacts DEF Others
      <4> QED BY <2>1, <4>1 DEF FInv, Frame, Live, idVars, Guarded, Has
    <3> QED BY <3>2, <3>3
  <2>3. \A q \in Prompts : Live(q)'
    BY <2>1, <2>2 DEF Live, Covered
  <2>4. Ids'
    BY <2>1 DEF FInv, Ids, TurnFramesMatch, idVars
  <2> QED BY <2>1, <2>2, <2>3, <2>4 DEF FInv
<1>16. ASSUME NEW p \in Prompts, OnStarted(p) PROVE FInv'
  <2>1. /\ Receive(p, "started") /\ taskUnchanged /\ UNCHANGED <<live_text, ended>>
        /\ IF current_turn_id = 0
             THEN next_turn_id' = next_turn_id + 1 /\ current_turn_id' = next_turn_id + 1
             ELSE UNCHANGED <<next_turn_id, current_turn_id>>
    BY <1>16 DEF OnStarted, appVars
  <2>2. Ids' /\ current_turn_id' # 0
    BY <2>1 DEF FInv, Ids, TurnFramesMatch, TypeOK
  <2>3. /\ Guarded(mailbox[p], "delta", "route") => Guarded(mailbox'[p], "delta", "route")
        /\ Has(mailbox[p], "route") => Has(mailbox'[p], "route")
        /\ Covered(mailbox[p]) => Covered(mailbox'[p])
    BY <2>1, TakeFacts, Taken
  <2>4. Live(p)'
    BY <2>1, <2>3, TakeFacts DEF FInv, Live, Guarded, Has, Covered
  <2>5. ASSUME NEW q \in Prompts, q # p PROVE Live(q)'
    <3>1. mailbox'[q] = mailbox[q] /\ runner'[q] = runner[q] /\ (Busy(q)' <=> Busy(q))
      BY <2>1, <2>5, TakeFacts DEF Others
    <3> QED BY <2>1, <3>1 DEF FInv, Live, Guarded, Has, Covered
  <2> QED BY <2>1, <2>2, <2>4, <2>5 DEF FInv, Frame
<1>17. ASSUME NEW p \in Prompts, OnModelRestored(p) PROVE FInv'
  <2>1. Receive(p, "restored") /\ taskUnchanged /\ UNCHANGED <<idVars, live_text>>
    BY <1>17 DEF OnModelRestored
  <2>2. /\ Guarded(mailbox[p], "complete", "started") => Guarded(mailbox'[p], "complete", "started")
        /\ Guarded(mailbox[p], "delta", "route") => Guarded(mailbox'[p], "delta", "route")
        /\ \A g \in {"route", "started"} : Has(mailbox[p], g) => Has(mailbox'[p], g)
        /\ Covered(mailbox[p]) => Covered(mailbox'[p])
        /\ UNCHANGED runner /\ (Busy(p)' <=> Busy(p))
    BY <2>1, TakeFacts, Taken
  <2>3. Frame(p)' /\ Live(p)'
    BY <2>1, <2>2 DEF FInv, Frame, Live, idVars, Guarded, Has, Covered
  <2> QED BY <2>1, <2>3, TakeFacts, JobFrames
<1>18. ASSUME NEW p \in Prompts, OnDelta(p) PROVE FInv'
  <2>1. /\ Receive(p, "delta") /\ taskUnchanged /\ UNCHANGED idVars
        /\ live_text' = live_text \cup {p}
    BY <1>18 DEF OnDelta
  <2>2. /\ Guarded(mailbox[p], "delta", "route") => FALSE
        /\ Guarded(mailbox[p], "complete", "started") => Guarded(mailbox'[p], "complete", "started")
        /\ Has(mailbox[p], "started") => Has(mailbox'[p], "started")
        /\ Covered(mailbox[p]) => Covered(mailbox'[p]) /\ Settles(mailbox[p])
        /\ UNCHANGED runner /\ (Busy(p)' <=> Busy(p))
    BY <2>1, TakeFacts, Taken
  <2>3. live_text \subseteq {p} /\ live_text' \subseteq {p}
    BY <2>1, <2>2 DEF FInv, Live
  <2>4. Owes(p)
    BY <2>2 DEF FInv, Live, Owes
  <2>5. Frame(p)' /\ Live(p)'
    BY <2>1, <2>2, <2>3 DEF FInv, Frame, Live, idVars, Guarded, Has, Covered
  <2>6. ASSUME NEW q \in Prompts, q # p PROVE Frame(q)' /\ Live(q)'
    <3>1. mailbox'[q] = mailbox[q] /\ runner'[q] = runner[q] /\ (Busy(q)' <=> Busy(q))
      BY <2>1, <2>6, TakeFacts DEF Others
    <3>2. ~Busy(q) /\ ~Settles(mailbox[q])
      BY <2>4, <2>6 DEF IInv, OneOwes, Owes
    <3>3. Covered(mailbox[q]) /\ runner[q] # "call"
      BY <3>2 DEF FInv, Live, Busy
    <3>4. \A i \in DOMAIN mailbox[q] : mailbox[q][i].kind # "delta"
      BY <3>2, <3>3 DEF Covered, Settles
    <3>5. Frame(q)'
      BY <2>1, <3>1 DEF FInv, Frame, idVars, Guarded, Has
    <3> QED BY <3>1, <3>3, <3>4, <3>5 DEF Live, Guarded, Covered
  <2>7. Ids'
    BY <2>1 DEF FInv, Ids, TurnFramesMatch, idVars
  <2> QED BY <2>3, <2>5, <2>6, <2>7 DEF FInv
<1>19. ASSUME NEW p \in Prompts, OnComplete(p) PROVE FInv'
  <2>1. /\ Receive(p, "complete") /\ taskUnchanged /\ live_text' = {}
        /\ ended' = Append(ended, current_turn_id) /\ current_turn_id' = 0
        /\ UNCHANGED next_turn_id
    BY <1>19 DEF OnComplete
  <2>2. current_turn_id # 0
    BY <2>1, TakeFacts, Taken DEF FInv, Frame
  <2>3. Ids'
    BY <2>1, <2>2, EndsMatch DEF FInv, Ids, TypeOK
  <2> QED BY <2>1, <2>3, SettleFrames DEF Settling
<1>20. ASSUME NEW p \in Prompts, OnError(p) PROVE FInv'
  <2>1. /\ Receive(p, "error") /\ taskUnchanged /\ UNCHANGED live_text
        /\ current_turn_id' = 0
        /\ current_turn_id = 0 => ended' = Append(ended, next_turn_id + 1) /\ next_turn_id' = next_turn_id + 1
        /\ current_turn_id # 0 => ended' = Append(ended, current_turn_id) /\ UNCHANGED next_turn_id
    BY <1>20 DEF OnError
  <2>2. Ids'
    BY <2>1, EndsMatch DEF FInv, Ids, TypeOK
  <2> QED BY <2>1, <2>2, SettleFrames DEF Settling
<1>21. ASSUME NEW j \in Jobs, NEW k \in Settling, Receive(j, k), taskUnchanged, UNCHANGED idVars,
              live_text' \subseteq live_text
       PROVE  FInv'
  <2>1. Ids'
    BY <1>21 DEF FInv, Ids, TurnFramesMatch, idVars
  <2> QED BY <1>21, <2>1, SettleFrames
<1>22. ASSUME NEW j \in Jobs, OnCancelled(j) \/ OnAborted(j) \/ OnBashDone(j) PROVE FInv'
  BY <1>21, <1>22 DEF OnCancelled, OnAborted, OnBashDone, Settling
<1>23. ASSUME NEW j \in Jobs, AbortAfterGrace(j) PROVE FInv'
  BY <1>23 DEF AbortAfterGrace, IInv
<1>24. ASSUME UNCHANGED <<idVars, mailbox, runner, worker, failed>>, live_text' \subseteq live_text
       PROVE  FInv'
  <2>1. \A p \in Prompts : Busy(p)' <=> Busy(p)
    BY <1>24 DEF Busy
  <2>2. Ids'
    BY <1>24 DEF FInv, Ids, TurnFramesMatch, idVars
  <2> QED BY <1>24, <2>1, <2>2 DEF FInv, Frame, Live, idVars, Guarded, Has, Covered
<1>25. CASE \/ \E m \in Models : PickModel(m) \/ SetNextTurnModelOverride(m)
            \/ Resume \/ Disconnect \/ RemovalEnds \/ UNCHANGED vars
  BY <1>24, <1>25 DEF PickModel, SetNextTurnModelOverride, Resume, Disconnect, RemovalEnds, vars, appVars,
     taskVars
<1> QED
  BY <1>1, <1>2, <1>3, <1>4, <1>5, <1>6, <1>7, <1>8, <1>9, <1>10, <1>11, <1>12, <1>13, <1>14, <1>15, <1>16,
     <1>17, <1>18, <1>19, <1>20, <1>22, <1>23, <1>25
     DEF Next, Key, WorkerStep, RunnerStep, MainLoop, ProviderEnds, Jobs

\* Both invariants together are inductive.
LEMMA FramesHold == ASSUME MaxDisconnects = 0 PROVE Spec => [](TypeOK /\ FInv)
<1>1. Init => IInv /\ FInv
  <2>1. Init => FInv
    BY DEF Init, FInv, Ids, TurnFramesMatch, Frame, Live, Guarded, Covered, Jobs
  <2> QED BY <2>1, InvInit
<1>2. IInv /\ FInv /\ [Next]_vars => IInv' /\ FInv'
  BY InvStep, FrameStep
<1>3. IInv => TypeOK
  BY DEF IInv
<1> QED BY <1>1, <1>2, <1>3, PTL DEF Spec

\* Without a forced disconnect plugins see turns one after the other, with the ids
\* 1, 2, 3, ..., whatever fails and however the mailboxes are read (TurnFramesMatch).
THEOREM CalmFrames == ASSUME MaxDisconnects = 0 PROVE Spec => []TurnFramesMatch
<1>1. FInv => TurnFramesMatch
  BY DEF FInv, Ids
<1> QED BY <1>1, FramesHold, PTL

\* Without a forced disconnect the buffer holds the text of one turn (LiveTextIsOneTurns).
THEOREM CalmText == ASSUME MaxDisconnects = 0 PROVE Spec => []LiveTextIsOneTurns
<1>1. ASSUME FInv PROVE LiveTextIsOneTurns
  <2>1. CASE live_text = {}
    BY <2>1, FS_EmptySet DEF LiveTextIsOneTurns
  <2>2. CASE live_text # {}
    <3>1. PICK p \in live_text : live_text = {p}
      BY <1>1, <2>2 DEF FInv
    <3> QED BY <3>1, FS_Singleton DEF LiveTextIsOneTurns
  <2> QED BY <2>1, <2>2
<1> QED BY <1>1, FramesHold, PTL

-----------------------------------------------------------------------------
(* One-turn overrides, with or without forced disconnects. *)

\* What is put back is the first model.
PutsBack(s) == \A i \in DOMAIN s : s[i].kind = "restored" => s[i].model = FirstModel

\* A model that is not the first is an override whose turn has yet to end.
NoTrace ==
    spent["pick"] = 0 =>
        /\ app_model = FirstModel
        /\ \A j \in Jobs : original[j] = FirstModel /\ PutsBack(mailbox[j])
        /\ \/ current_model = FirstModel
           \/ \E p \in Prompts : worker[p] \in {"forward", "restore"} /\ override[p] # NoModel

\* Sending the first model, or no model, keeps it so; receiving gives the first model.
LEMMA PutsBackSends ==
    ASSUME NEW s \in Seq(Messages), NEW m \in Messages, PutsBack(s),
           m.kind = "restored" => m.model = FirstModel
    PROVE  Append(s, m) \in Seq(Messages) /\ PutsBack(Append(s, m))
BY DEF PutsBack

LEMMA PutsBackReceives ==
    ASSUME NEW s \in Seq(Messages), s # <<>>, PutsBack(s)
    PROVE  /\ PutsBack(Tail(s))
           /\ Head(s).kind = "restored" => Head(s).model = FirstModel
<1>1. /\ Len(s) \in Nat \ {0} /\ DOMAIN s = 1 .. Len(s) /\ DOMAIN Tail(s) = 1 .. Len(s) - 1
      /\ \A i \in 1 .. Len(s) - 1 : Tail(s)[i] = s[i + 1]
      /\ Head(s) = s[1]
  OBVIOUS
<1> QED BY <1>1 DEF PutsBack

\* Every step keeps the traces away: the model changes by an override or is put back.
LEMMA NoTraceStep == ASSUME TypeOK, NoTrace, [Next]_vars PROVE NoTrace'
<1> TypeOK'
  BY TypeStep
<1> SUFFICES ASSUME spent'["pick"] = 0 PROVE NoTrace'
  BY DEF NoTrace
<1> USE JobsAssumption
<1>1. spent["pick"] = 0 \/ \E m \in Models : PickModel(m)
  BY DEF Next, Key, Submit, SubmitBash, SetNextTurnModelOverride, Resume, Disconnect, Spend, TypeOK,
     Inputs, inputVars, vars, RemovalEnds, AbortAfterGrace, WorkerStep, RunnerStep, MainLoop,
     ProviderEnds, StreamDelta, Cancelled, DetachedCallEnds, Apply, TurnReturned, Restore, Notify,
     Report, BashReturned, Install, TakeSnapshot, Route, Answer, Commit, SendComplete, Fail,
     RunCommand, DropGuard, taskUnchanged, OnRoute, OnStarted, OnDelta, OnComplete, OnCancelled,
     OnError, OnModelRestored, OnBashDone, OnAborted
<1>2. \A m \in Models : ~PickModel(m)
  BY DEF PickModel, Spend, TypeOK, Inputs
<1>3. /\ app_model = FirstModel
      /\ \A j \in Jobs : original[j] = FirstModel /\ PutsBack(mailbox[j])
      /\ \/ current_model = FirstModel
         \/ \E p \in Prompts : worker[p] \in {"forward", "restore"} /\ override[p] # NoModel
  BY <1>1, <1>2 DEF NoTrace
\* It is enough that the models, the mailboxes and the overrides under way are kept.
<1>4. ASSUME UNCHANGED <<app_model, original, mailbox, current_model, override>>,
             \A p \in Prompts : worker[p] \in {"forward", "restore"} /\ override[p] # NoModel
                                  => worker'[p] \in {"forward", "restore"}
      PROVE  NoTrace'
  BY <1>3, <1>4 DEF NoTrace, PutsBack
<1>5. ASSUME NEW j \in Jobs, NEW s \in Seq(Messages), PutsBack(s),
             mailbox' = [mailbox EXCEPT ![j] = s],
             UNCHANGED <<original, current_model, override>>, app_model' = FirstModel,
             \A p \in Prompts : worker[p] \in {"forward", "restore"} /\ override[p] # NoModel
                                  => worker'[p] \in {"forward", "restore"}
      PROVE  NoTrace'
  <2>1. \A k \in Jobs : mailbox'[k] = IF k = j THEN s ELSE mailbox[k]
    BY <1>5 DEF TypeOK
  <2>2. \A k \in Jobs : PutsBack(mailbox'[k])
    BY <1>3, <1>5, <2>1
  <2>3. \A k \in Jobs : PutsBack(mailbox[k])'
    BY <2>2 DEF PutsBack
  <2> QED BY <1>3, <1>5, <2>3 DEF NoTrace
<1>6. ASSUME NEW p \in Prompts, Submit(p) PROVE NoTrace'
  <2>1. /\ original' = [original EXCEPT ![p] = FirstModel]
        /\ UNCHANGED <<mailbox, app_model, current_model>>
        /\ worker[p] = "idle" /\ p \in Jobs
    BY <1>3, <1>6 DEF Submit, hostVars, Jobs
  <2>2. \A q \in Prompts \ {p} : worker'[q] = worker[q] /\ override'[q] = override[q]
    BY <1>6 DEF Submit, WorkerGoto, TypeOK, Jobs
  <2>3. \A j \in Jobs : original'[j] = FirstModel /\ PutsBack(mailbox[j])'
    BY <1>3, <2>1 DEF TypeOK, PutsBack
  <2> QED BY <1>3, <2>1, <2>2, <2>3 DEF NoTrace
<1>7. ASSUME NEW p \in Prompts, Apply(p) PROVE NoTrace'
  <2>1. /\ UNCHANGED <<app_model, original, mailbox, override>>
        /\ worker'[p] = "forward" /\ \A q \in Prompts \ {p} : worker'[q] = worker[q]
        /\ current_model' = IF override[p] = NoModel THEN current_model ELSE override[p]
        /\ worker[p] = "apply"
    BY <1>7 DEF Apply, WorkerGoto, TypeOK, Jobs, appVars, taskVars
  <2> QED BY <1>3, <2>1 DEF NoTrace, PutsBack
<1>8. ASSUME NEW p \in Prompts, Restore(p) PROVE NoTrace'
  <2>1. UNCHANGED <<app_model, original, mailbox>> /\ current_model' = FirstModel
    BY <1>3, <1>8 DEF Restore, appVars, taskVars, Jobs
  <2> QED BY <1>3, <2>1 DEF NoTrace, PutsBack
<1>9. ASSUME NEW p \in Prompts, Notify(p) PROVE NoTrace'
  <2>1. /\ p \in Jobs /\ mailbox[p] \in Seq(Messages) /\ PutsBack(mailbox[p])
        /\ original[p] = FirstModel /\ FirstModel \in Models
    BY <1>3, ModelsAssumption DEF TypeOK, Jobs
  <2>2. ModelRestored(original[p]) \in Messages /\ ModelRestored(original[p]).model = FirstModel
    BY <2>1, Sendable DEF ModelRestored
  <2>3. /\ Append(mailbox[p], ModelRestored(original[p])) \in Seq(Messages)
        /\ PutsBack(Append(mailbox[p], ModelRestored(original[p])))
    BY <2>1, <2>2, PutsBackSends
  <2>4. UNCHANGED <<original, current_model, override>> /\ app_model' = FirstModel
    BY <1>3, <1>9 DEF Notify, appVars, hostVars, taskVars
  <2>5. \A q \in Prompts : worker[q] \in {"forward", "restore"} => worker'[q] = worker[q]
    BY <1>9 DEF Notify, WorkerGoto, TypeOK, Jobs
  <2>6. mailbox' = [mailbox EXCEPT ![p] = Append(mailbox[p], ModelRestored(original[p]))]
    BY <1>9 DEF Notify, Send
  <2> QED BY <1>5, <2>1, <2>3, <2>4, <2>5, <2>6
\* Whatever else is sent is no model.
<1>10. ASSUME NEW j \in Jobs, NEW k \in Kinds, Send(j, Message(k)),
              UNCHANGED <<original, current_model, override, app_model>>,
              \A p \in Prompts : worker[p] \in {"forward", "restore"} /\ override[p] # NoModel
                                   => worker'[p] \in {"forward", "restore"}
       PROVE  NoTrace'
  <2>1. mailbox[j] \in Seq(Messages) /\ PutsBack(mailbox[j])
    BY <1>3 DEF TypeOK
  <2>2. Message(k) \in Messages /\ Message(k).kind # "restored"
    BY Sendable DEF Kinds
  <2>3. Append(mailbox[j], Message(k)) \in Seq(Messages) /\ PutsBack(Append(mailbox[j], Message(k)))
    BY <2>1, <2>2, PutsBackSends
  <2>4. mailbox' = [mailbox EXCEPT ![j] = Append(mailbox[j], Message(k))]
    BY <1>10 DEF Send
  <2> QED BY <1>3, <1>5, <1>10, <2>3, <2>4
<1>11. ASSUME NEW p \in Prompts, StreamDelta(p) \/ SendComplete(p) \/ Cancelled(p) PROVE NoTrace'
  <2>1. PICK k \in Kinds : Send(p, Message(k))
    BY <1>11 DEF StreamDelta, SendComplete, Cancelled, Kinds
  <2> QED BY <1>10, <1>11, <2>1 DEF StreamDelta, SendComplete, Cancelled, Jobs, appVars, hostVars,
          taskVars
<1>12. ASSUME NEW j \in Jobs, AbortAfterGrace(j) PROVE NoTrace'
  <2>1. "aborted" \in Kinds
    BY DEF Kinds
  <2> QED BY <1>10, <1>12, <2>1 DEF AbortAfterGrace, appVars, hostVars, taskVars
<1>13. ASSUME NEW b \in Bashes, BashReturned(b) PROVE NoTrace'
  <2>1. "bash_done" \in Kinds /\ b \in Jobs
    BY DEF Kinds, Jobs
  <2>2. \A p \in Prompts : worker'[p] = worker[p]
    BY <1>13, <2>1 DEF BashReturned, WorkerGoto, TypeOK, Jobs
  <2> QED BY <1>10, <1>13, <2>1, <2>2 DEF BashReturned, appVars, hostVars, taskVars
<1>14. ASSUME NEW p \in Prompts, Report(p) PROVE NoTrace'
  <2>1. \A q \in Prompts : worker[q] \in {"forward", "restore"} => worker'[q] = worker[q]
    BY <1>14 DEF Report, WorkerGoto, TypeOK, Jobs
  <2>2. UNCHANGED <<original, current_model, override, app_model>>
    BY <1>14 DEF Report, appVars, hostVars, taskVars
  <2>3. CASE Send(p, Message("error"))
    BY <1>10, <2>1, <2>2, <2>3 DEF Kinds, Jobs
  <2>4. CASE UNCHANGED mailbox
    BY <1>4, <2>1, <2>2, <2>4
  <2> QED BY <1>14, <2>3, <2>4 DEF Report
<1>15. ASSUME NEW p \in Prompts, Route(p) PROVE NoTrace'
  <2>1. /\ p \in Jobs /\ mailbox[p] \in Seq(Messages) /\ PutsBack(mailbox[p])
        /\ Message("route") \in Messages /\ Message("route").kind # "restored"
        /\ Message("started") \in Messages /\ Message("started").kind # "restored"
    BY <1>3, Sendable DEF TypeOK, Jobs, Kinds
  <2> DEFINE half == Append(mailbox[p], Message("route"))
             both == Append(half, Message("started"))
  <2>2. half \in Seq(Messages) /\ PutsBack(half)
    BY <2>1, PutsBackSends
  <2>3. mailbox' = [mailbox EXCEPT ![p] = both]
    BY <1>15 DEF Route
  <2> HIDE DEF half
  <2>4. both \in Seq(Messages) /\ PutsBack(both)
    BY <2>1, <2>2, PutsBackSends
  <2>5. UNCHANGED <<original, current_model, override, app_model, worker>>
    BY <1>15 DEF Route, appVars, hostVars
  <2> HIDE DEF both
  <2> QED BY <1>3, <1>5, <2>1, <2>3, <2>4, <2>5
\* The main loop takes a message.
<1>16. ASSUME NEW j \in Jobs, MainLoop(j) PROVE NoTrace'
  <2>1. PICK k : Receive(j, k)
    BY <1>16 DEF MainLoop, OnRoute, OnStarted, OnDelta, OnComplete, OnCancelled, OnError,
       OnModelRestored, OnBashDone, OnAborted
  <2>2. mailbox[j] \in Seq(Messages) /\ mailbox[j] # <<>> /\ PutsBack(mailbox[j])
    BY <1>3, <2>1 DEF TypeOK, Receive
  <2>3. /\ Tail(mailbox[j]) \in Seq(Messages) /\ PutsBack(Tail(mailbox[j]))
        /\ Head(mailbox[j]).kind = "restored" => Head(mailbox[j]).model = FirstModel
    BY <2>2, PutsBackReceives
  <2>4. app_model' = FirstModel
    BY <1>3, <1>16, <2>3 DEF MainLoop, OnRoute, OnStarted, OnDelta, OnComplete, OnCancelled, OnError,
       OnModelRestored, OnBashDone, OnAborted, Receive, appVars
  <2>5. UNCHANGED <<original, current_model, override, worker>>
    BY <1>16 DEF MainLoop, OnRoute, OnStarted, OnDelta, OnComplete, OnCancelled, OnError,
       OnModelRestored, OnBashDone, OnAborted, taskUnchanged, hostVars, taskVars
  <2> QED BY <1>5, <2>1, <2>3, <2>4, <2>5 DEF Receive
\* The other steps keep the models, the mailboxes and the overrides under way.
<1>17. ASSUME NEW p \in Prompts, TurnReturned(p) PROVE NoTrace'
  <2>1. \A q \in Prompts : worker[q] \in {"forward", "restore"} /\ override[q] # NoModel
                             => worker'[q] \in {"forward", "restore"}
    BY <1>17 DEF TurnReturned, WorkerGoto, TypeOK, Jobs
  <2> QED BY <1>4, <1>17, <2>1 DEF TurnReturned, appVars, hostVars, taskVars
<1>18. ASSUME NEW b \in Bashes, SubmitBash(b) PROVE NoTrace'
  <2>1. \A q \in Prompts : worker'[q] = worker[q]
    BY <1>18 DEF SubmitBash, WorkerGoto, TypeOK, Jobs
  <2> QED BY <1>4, <1>18, <2>1 DEF SubmitBash, hostVars, taskVars
<1>19. ASSUME NEW p \in Prompts, TakeSnapshot(p) \/ Answer(p) \/ Commit(p) \/ Fail(p)
                                   \/ DetachedCallEnds(p)
       PROVE  NoTrace'
  BY <1>4, <1>19 DEF TakeSnapshot, Answer, Commit, Fail, DetachedCallEnds, appVars, hostVars, taskVars
<1>20. ASSUME NEW j \in Jobs, Install(j) \/ DropGuard(j) \/ RunCommand(j) PROVE NoTrace'
  BY <1>4, <1>20 DEF Install, DropGuard, RunCommand, appVars, hostVars, taskVars
<1>21. CASE \/ \E m \in Models : SetNextTurnModelOverride(m)
            \/ Resume \/ Disconnect \/ RemovalEnds \/ UNCHANGED vars
  BY <1>4, <1>21 DEF SetNextTurnModelOverride, Resume, Disconnect, RemovalEnds, vars, appVars, hostVars,
     taskVars
<1>22. Bashes \subseteq Jobs /\ Prompts \subseteq Jobs
  BY DEF Jobs
<1> QED
  BY <1>2, <1>6, <1>7, <1>8, <1>9, <1>11, <1>12, <1>13, <1>14, <1>15, <1>16, <1>17, <1>18, <1>19, <1>20,
     <1>21, <1>22 DEF Next, Key, WorkerStep, RunnerStep, ProviderEnds

\* One-turn overrides leave no trace, however turns overlap and end, and whatever is
\* disconnected by force meanwhile (OverrideLeavesNoTrace).
THEOREM Untraced == Spec => []OverrideLeavesNoTrace
<1>1. Init => NoTrace
  BY DEF Init, NoTrace, PutsBack
<1>2. TypeOK /\ NoTrace /\ [Next]_vars => NoTrace'
  BY NoTraceStep
<1>3. TypeOK /\ NoTrace => OverrideLeavesNoTrace
  BY DEF NoTrace, OverrideLeavesNoTrace, Quiet, Jobs
<1> QED BY <1>1, <1>2, <1>3, InitTypes, TypeStep, PTL DEF Spec
-----------------------------------------------------------------------------
(* What is quiet is idle, with or without forced disconnects.              *)

\* The messages that close the turn of the plugins.
Closing == {"complete", "error"}

Closes(s)   == \E h \in DOMAIN s : s[h].kind \in Closing
\* The start of a turn has the message that closes it behind it.
ClosedIn(s) == \A i \in DOMAIN s :
                   s[i].kind = "started" => \E h \in DOMAIN s : i < h /\ s[h].kind \in Closing

\* The prompt has yet to send the message that closes the turn it has started.
Open(p) ==
    \/ runner[p] \in {"call", "commit", "complete"}
    \/ failed[p] /\ worker[p] \in {"forward", "restore", "notify", "report"}

\* A TUI that is loading is owed a message that makes it ready, and a turn that is open for
\* the plugins the message that closes it: by a task, or it is in a mailbox.
QInv ==
    /\ \A j \in Jobs : runner[j] \notin {"idle", "done"} => worker[j] = "forward"
    /\ is_loading => \E j \in Jobs : Owes(j)
    /\ current_turn_id # 0 => \E p \in Prompts : Open(p) \/ Closes(mailbox[p])
    /\ \A p \in Prompts : Open(p) \/ ClosedIn(mailbox[p])

\* What is appended goes behind what is there.
LEMMA QuietAppend ==
    ASSUME NEW s \in Seq(Messages), NEW m \in Messages
    PROVE  /\ Settles(s) \/ m.kind \in Settling => Settles(Append(s, m))
           /\ Closes(s) \/ m.kind \in Closing => Closes(Append(s, m))
           /\ ClosedIn(s) /\ m.kind # "started" => ClosedIn(Append(s, m))
           /\ m.kind \in Closing => ClosedIn(Append(s, m))
<1> DEFINE t == Append(s, m)
<1>1. /\ Len(s) \in Nat /\ DOMAIN s = 1 .. Len(s) /\ DOMAIN t = 1 .. Len(s) + 1
      /\ \A i \in 1 .. Len(s) : t[i] = s[i]
      /\ t[Len(s) + 1] = m
  OBVIOUS
<1> HIDE DEF t
<1>2. Settles(s) \/ m.kind \in Settling => Settles(t)
  BY <1>1 DEF Settles
<1>3. Closes(s) \/ m.kind \in Closing => Closes(t)
  BY <1>1 DEF Closes
<1>4. ASSUME ClosedIn(s), m.kind # "started" PROVE ClosedIn(t)
  <2> SUFFICES ASSUME NEW i \in 1 .. Len(s) + 1, t[i].kind = "started"
               PROVE  \E h \in 1 .. Len(s) + 1 : i < h /\ t[h].kind \in Closing
    BY <1>1 DEF ClosedIn
  <2>1. i \in 1 .. Len(s) /\ s[i].kind = "started"
    BY <1>1, <1>4
  <2>2. PICK h \in 1 .. Len(s) : i < h /\ s[h].kind \in Closing
    BY <1>1, <1>4, <2>1 DEF ClosedIn
  <2> QED BY <1>1, <2>2
<1>5. ASSUME m.kind \in Closing PROVE ClosedIn(t)
  BY <1>1, <1>5 DEF ClosedIn, Closing
<1> QED BY <1>2, <1>3, <1>4, <1>5 DEF t

\* What is taken was in front.
LEMMA QuietTake ==
    ASSUME NEW s \in Seq(Messages), s # <<>>
    PROVE  /\ Settles(s) /\ Head(s).kind \notin Settling => Settles(Tail(s))
           /\ Closes(s) /\ Head(s).kind \notin Closing => Closes(Tail(s))
           /\ ClosedIn(s) => ClosedIn(Tail(s))
           /\ ClosedIn(s) /\ Head(s).kind = "started" => Closes(Tail(s))
<1> DEFINE t == Tail(s)
<1>1. /\ Len(s) \in Nat \ {0} /\ DOMAIN s = 1 .. Len(s) /\ DOMAIN t = 1 .. Len(s) - 1
      /\ \A i \in 1 .. Len(s) - 1 : t[i] = s[i + 1]
      /\ Head(s) = s[1]
  OBVIOUS
<1> HIDE DEF t
<1>2. \A h \in 2 .. Len(s) : h - 1 \in 1 .. Len(s) - 1 /\ t[h - 1] = s[h]
  BY <1>1
<1>3. ASSUME Settles(s), Head(s).kind \notin Settling PROVE Settles(t)
  <2>1. PICK h \in 2 .. Len(s) : s[h].kind \in Settling
    BY <1>1, <1>3 DEF Settles
  <2> QED BY <1>1, <1>2, <2>1 DEF Settles
<1>4. ASSUME Closes(s), Head(s).kind \notin Closing PROVE Closes(t)
  <2>1. PICK h \in 2 .. Len(s) : s[h].kind \in Closing
    BY <1>1, <1>4 DEF Closes
  <2> QED BY <1>1, <1>2, <2>1 DEF Closes
<1>5. ASSUME ClosedIn(s) PROVE ClosedIn(t)
  <2> SUFFICES ASSUME NEW i \in 1 .. Len(s) - 1, t[i].kind = "started"
               PROVE  \E h \in 1 .. Len(s) - 1 : i < h /\ t[h].kind \in Closing
    BY <1>1 DEF ClosedIn
  <2>1. PICK h \in 1 .. Len(s) : i + 1 < h /\ s[h].kind \in Closing
    BY <1>1, <1>5 DEF ClosedIn
  <2>2. h - 1 \in 1 .. Len(s) - 1 /\ i < h - 1 /\ t[h - 1] = s[h]
    BY <1>1, <2>1
  <2> QED BY <2>1, <2>2
<1>6. ASSUME ClosedIn(s), Head(s).kind = "started" PROVE Closes(t)
  <2>1. PICK h \in 2 .. Len(s) : s[h].kind \in Closing
    BY <1>1, <1>6 DEF ClosedIn
  <2> QED BY <1>1, <1>2, <2>1 DEF Closes
<1> QED BY <1>3, <1>4, <1>5, <1>6 DEF t

\* A step of one job that pays none of its debts without a message.
LEMMA QuietJob ==
    ASSUME QInv, NEW j \in Jobs, Others(j), UNCHANGED current_turn_id,
           is_loading' => is_loading \/ Owes(j)',
           runner'[j] \notin {"idle", "done"} => worker'[j] = "forward",
           Busy(j) => Busy(j)' \/ Settles(mailbox'[j]),
           Settles(mailbox[j]) => Settles(mailbox'[j]),
           j \in Prompts =>
              /\ Open(j) => Open(j)' \/ (Closes(mailbox'[j]) /\ ClosedIn(mailbox'[j]))
              /\ Closes(mailbox[j]) => Closes(mailbox'[j])
              /\ ClosedIn(mailbox[j]) => Open(j)' \/ ClosedIn(mailbox'[j])
    PROVE  QInv'
<1>1. ASSUME NEW k \in Jobs \ {j} PROVE Owes(k) => Owes(k)'
  BY DEF Others, Owes, Busy, Settles
<1>2. Owes(j) => Owes(j)'
  BY DEF Owes, Settles
<1>3. is_loading' => \E k \in Jobs : Owes(k)'
  BY <1>1, <1>2 DEF QInv
<1>4. ASSUME NEW p \in Prompts, p # j
      PROVE  /\ Open(p) \/ Closes(mailbox[p]) => (Open(p) \/ Closes(mailbox[p]))'
             /\ (Open(p) \/ ClosedIn(mailbox[p]))'
  <2>1. UNCHANGED <<worker[p], runner[p], failed[p], mailbox[p]>>
    BY <1>4 DEF Others, Jobs
  <2> QED BY <2>1 DEF QInv, Open, Closes, ClosedIn
<1>5. ASSUME j \in Prompts
      PROVE  /\ Open(j) \/ Closes(mailbox[j]) => (Open(j) \/ Closes(mailbox[j]))'
             /\ (Open(j) \/ ClosedIn(mailbox[j]))'
  <2>1. (Closes(mailbox'[j]) => Closes(mailbox[j])') /\ (ClosedIn(mailbox'[j]) => ClosedIn(mailbox[j])')
    BY DEF Closes, ClosedIn
  <2>2. Open(j) \/ ClosedIn(mailbox[j])
    BY <1>5 DEF QInv
  <2> QED BY <1>5, <2>1, <2>2
<1>6. \A p \in Prompts : /\ Open(p) \/ Closes(mailbox[p]) => (Open(p) \/ Closes(mailbox[p]))'
                         /\ (Open(p) \/ ClosedIn(mailbox[p]))'
  BY <1>4, <1>5
<1>7. \A k \in Jobs : runner'[k] \notin {"idle", "done"} => worker'[k] = "forward"
  BY DEF QInv, Others
<1> QED BY <1>3, <1>6, <1>7 DEF QInv

\* A step of the worker or the runner that sends nothing.
LEMMA QuietMove ==
    ASSUME QInv, NEW j \in Jobs, Others(j), UNCHANGED <<current_turn_id, mailbox>>,
           is_loading' => is_loading \/ Busy(j)',
           runner'[j] \notin {"idle", "done"} => worker'[j] = "forward",
           Busy(j) => Busy(j)',
           j \in Prompts /\ Open(j) => Open(j)'
    PROVE  QInv'
BY QuietJob DEF Owes

\* A step that sends a message.
LEMMA QuietSend ==
    ASSUME QInv, TypeOK, NEW j \in Jobs, Others(j), UNCHANGED <<current_turn_id, is_loading>>,
           NEW k \in Kinds \cup {"restored"}, NEW m \in Messages, m.kind = k, Send(j, m),
           runner'[j] \notin {"idle", "done"} => worker'[j] = "forward",
           Busy(j) => Busy(j)' \/ k \in Settling,
           j \in Prompts /\ Open(j) => Open(j)' \/ k \in Closing,
           j \in Prompts /\ k = "started" => Open(j)'
    PROVE  QInv'
<1>1. mailbox[j] \in Seq(Messages) /\ mailbox'[j] = Append(mailbox[j], m)
  BY DEF TypeOK, Send
<1> QED BY <1>1, QuietAppend, QuietJob

\* Every step keeps what is owed.
LEMMA IdleStep == ASSUME TypeOK, QInv, [Next]_vars PROVE QInv'
<1> USE DEF Jobs
<1>1. ASSUME NEW p \in Prompts, Submit(p) PROVE QInv'
  <2>1. /\ Others(p) /\ UNCHANGED <<current_turn_id, mailbox, runner, failed>>
        /\ worker[p] = "idle" /\ worker'[p] = "apply"
    BY <1>1 DEF Submit, WorkerGoto, Others, TypeOK, idVars, hostVars
  <2>2. p \notin Bashes /\ runner[p] \in {"idle", "done"}
    BY <2>1, JobsAssumption DEF QInv
  <2> QED BY <2>1, <2>2, QuietMove DEF Busy, Open
<1>2. ASSUME NEW b \in Bashes, SubmitBash(b) PROVE QInv'
  <2>1. /\ Others(b) /\ UNCHANGED <<current_turn_id, mailbox, failed>>
        /\ worker'[b] = "forward" /\ runner'[b] = "install"
    BY <1>2 DEF SubmitBash, WorkerGoto, RunnerGoto, Others, TypeOK, idVars, taskVars
  <2> QED BY <2>1, JobsAssumption, QuietMove DEF Busy
<1>3. ASSUME NEW p \in Prompts, Apply(p) PROVE QInv'
  <2>1. /\ Others(p) /\ UNCHANGED <<is_loading, current_turn_id, mailbox, failed>>
        /\ worker[p] = "apply" /\ worker'[p] = "forward" /\ runner'[p] = "install"
    BY <1>3 DEF Apply, WorkerGoto, RunnerGoto, Others, TypeOK, appVars, idVars, taskVars
  <2> QED BY <2>1, QuietMove DEF Busy, Open, QInv
<1>4. ASSUME NEW p \in Prompts, TurnReturned(p) \/ Restore(p) PROVE QInv'
  <2>1. /\ Others(p) /\ UNCHANGED <<is_loading, current_turn_id, mailbox, runner, failed>>
        /\ worker[p] \in {"forward", "restore"} /\ worker'[p] \in {"restore", "notify", "report"}
        /\ worker[p] = "forward" => runner[p] = "done"
    BY <1>4 DEF TurnReturned, ChannelClosed, Restore, WorkerGoto, Others, TypeOK, appVars, idVars,
       hostVars, taskVars
  <2>2. runner[p] \in {"idle", "done"} /\ p \notin Bashes
    BY <2>1, JobsAssumption DEF QInv
  <2> QED BY <2>1, <2>2, QuietMove DEF Busy, Open
<1>5. ASSUME NEW p \in Prompts, Notify(p) PROVE QInv'
  <2>1. /\ Others(p) /\ UNCHANGED <<is_loading, current_turn_id, runner, failed>>
        /\ worker[p] = "notify" /\ worker'[p] = "report"
        /\ Send(p, ModelRestored(original[p])) /\ original[p] \in Models
    BY <1>5 DEF Notify, Send, WorkerGoto, Others, TypeOK, appVars, idVars, hostVars, taskVars
  <2>2. runner[p] \in {"idle", "done"} /\ p \notin Bashes
    BY <2>1, JobsAssumption DEF QInv
  <2>3. ModelRestored(original[p]) \in Messages /\ ModelRestored(original[p]).kind = "restored"
    BY <2>1, Sendable
  <2> QED BY <2>1, <2>2, <2>3, QuietSend DEF Busy, Open
<1>6. ASSUME NEW p \in Prompts, Report(p) PROVE QInv'
  <2>1. /\ UNCHANGED <<is_loading, current_turn_id, runner, failed>>
        /\ worker[p] = "report" /\ worker'[p] = "done"
        /\ \A k \in Jobs \ {p} : worker'[k] = worker[k]
    BY <1>6 DEF Report, WorkerGoto, TypeOK, appVars, idVars, hostVars, taskVars
  <2>2. runner[p] \in {"idle", "done"} /\ p \notin Bashes
    BY <2>1, JobsAssumption DEF QInv
  <2>3. CASE failed[p]
    <3>1. Send(p, Message("error")) /\ Others(p)
      BY <1>6, <2>1, <2>3 DEF Report, Send, Others, TypeOK, taskVars
    <3>2. Message("error") \in Messages /\ Message("error").kind = "error"
      BY Sendable DEF Kinds
    <3> QED BY <2>1, <2>2, <3>1, <3>2, QuietSend DEF Kinds, Settling, Closing
  <2>4. CASE ~failed[p]
    <3>1. UNCHANGED mailbox /\ Others(p)
      BY <1>6, <2>1, <2>4 DEF Report, Others, taskVars
    <3> QED BY <2>1, <2>2, <2>4, <3>1, QuietMove DEF Busy, Open
  <2> QED BY <2>3, <2>4
<1>7. ASSUME NEW b \in Bashes, BashReturned(b) PROVE QInv'
  <2>1. /\ Others(b) /\ UNCHANGED <<is_loading, current_turn_id, runner>>
        /\ Send(b, Message("bash_done")) /\ runner[b] = "done" /\ worker'[b] = "done"
    BY <1>7 DEF BashReturned, ChannelClosed, Send, WorkerGoto, Others, TypeOK, appVars, idVars,
       hostVars, taskVars
  <2>2. Message("bash_done") \in Messages /\ Message("bash_done").kind = "bash_done"
    BY Sendable DEF Kinds
  <2> QED BY <2>1, <2>2, JobsAssumption, QuietSend DEF Kinds, Settling
<1>8. ASSUME NEW j \in Jobs, Install(j) PROVE QInv'
  <2>1. /\ Others(j) /\ UNCHANGED <<is_loading, current_turn_id, mailbox, worker, failed>>
        /\ runner[j] = "install" /\ runner'[j] \in {"snapshot", "command"}
    BY <1>8 DEF Install, RunnerGoto, Others, TypeOK, appVars, idVars, taskVars
  <2> QED BY <2>1, QuietMove DEF Busy, Open, QInv
<1>9. ASSUME NEW p \in Prompts, TakeSnapshot(p) \/ Answer(p) \/ Commit(p) PROVE QInv'
  <2>1. /\ Others(p) /\ UNCHANGED <<is_loading, current_turn_id, mailbox, worker, failed>>
        /\ \/ runner[p] = "snapshot" /\ runner'[p] = "route"
           \/ runner[p] = "call" /\ runner'[p] = "commit"
           \/ runner[p] = "commit" /\ runner'[p] = "complete"
    BY <1>9 DEF TakeSnapshot, Answer, Commit, RunnerGoto, Others, TypeOK, appVars, idVars, hostVars,
       taskVars
  <2> QED BY <2>1, QuietMove DEF Busy, Open, QInv
<1>10. ASSUME NEW p \in Prompts, Route(p) PROVE QInv'
  <2> DEFINE s == mailbox[p]
             half == Append(s, Message("route"))
             both == Append(half, Message("started"))
  <2>1. /\ s \in Seq(Messages) /\ mailbox'[p] = both
        /\ Others(p) /\ UNCHANGED <<is_loading, current_turn_id, worker, failed>>
        /\ runner[p] = "route" /\ runner'[p] = "call"
    BY <1>10 DEF Route, RunnerGoto, Others, TypeOK, appVars, idVars, hostVars
  <2>2. /\ Message("route") \in Messages /\ Message("started") \in Messages
    BY Sendable DEF Kinds
  <2>3. half \in Seq(Messages) /\ (Settles(s) => Settles(half)) /\ (Closes(s) => Closes(half))
    BY <2>1, <2>2, QuietAppend
  <2> HIDE DEF half, s
  <2>4. (Settles(half) => Settles(both)) /\ (Closes(half) => Closes(both))
    BY <2>2, <2>3, QuietAppend
  <2> HIDE DEF both
  <2>5. Open(p)' /\ Busy(p)' /\ worker'[p] = "forward"
    BY <2>1 DEF Open, Busy, QInv
  <2> QED BY <2>1, <2>3, <2>4, <2>5, QuietJob DEF s
<1>11. ASSUME NEW p \in Prompts, StreamDelta(p) PROVE QInv'
  <2>1. /\ Others(p) /\ UNCHANGED <<is_loading, current_turn_id, worker, runner, failed>>
        /\ Send(p, Message("delta"))
    BY <1>11 DEF StreamDelta, Send, Others, TypeOK, appVars, idVars, hostVars
  <2>2. Message("delta") \in Messages /\ Message("delta").kind = "delta"
    BY Sendable DEF Kinds
  <2> QED BY <2>1, <2>2, QuietSend DEF Busy, Open, QInv, Kinds
<1>12. ASSUME NEW p \in Prompts, SendComplete(p) PROVE QInv'
  <2>1. /\ Others(p) /\ UNCHANGED <<is_loading, current_turn_id, worker, failed>>
        /\ Send(p, Message("complete")) /\ runner[p] = "complete"
    BY <1>12 DEF SendComplete, Send, RunnerGoto, Others, TypeOK, appVars, idVars, hostVars, taskVars
  <2>2. Message("complete") \in Messages /\ Message("complete").kind = "complete"
    BY Sendable DEF Kinds
  <2> QED BY <2>1, <2>2, QuietSend DEF QInv, Kinds, Settling, Closing
<1>13. ASSUME NEW p \in Prompts, Fail(p) PROVE QInv'
  <2>1. /\ Others(p) /\ UNCHANGED <<is_loading, current_turn_id, mailbox, worker>>
        /\ runner[p] = "call" /\ failed'[p]
    BY <1>13 DEF Fail, RunnerGoto, Others, TypeOK, appVars, idVars, hostVars
  <2> QED BY <2>1, QuietMove DEF Busy, Open, QInv
<1>14. ASSUME NEW p \in Prompts, Cancelled(p) PROVE QInv'
  <2>1. /\ Others(p) /\ UNCHANGED <<is_loading, current_turn_id, worker>>
        /\ Send(p, Message("cancelled")) /\ runner[p] = "call" /\ failed'[p]
    BY <1>14 DEF Cancelled, Send, RunnerGoto, Others, TypeOK, appVars, idVars, hostVars
  <2>2. Message("cancelled") \in Messages /\ Message("cancelled").kind = "cancelled"
    BY Sendable DEF Kinds
  <2> QED BY <2>1, <2>2, QuietSend DEF Busy, Open, QInv, Kinds
<1>15. ASSUME NEW p \in Prompts, DetachedCallEnds(p) PROVE QInv'
  BY <1>15 DEF DetachedCallEnds, QInv, Owes, Busy, Settles, Open, Closes, ClosedIn, appVars, idVars,
     hostVars
<1>16. ASSUME NEW b \in Bashes, RunCommand(b) PROVE QInv'
  <2>1. /\ Others(b) /\ UNCHANGED <<is_loading, current_turn_id, mailbox, worker, failed>>
        /\ runner[b] = "command"
    BY <1>16 DEF RunCommand, RunnerGoto, Others, TypeOK, appVars, idVars, hostVars, taskVars
  <2> QED BY <2>1, JobsAssumption, QuietMove DEF Busy, QInv
<1>17. ASSUME NEW j \in Jobs, DropGuard(j) PROVE QInv'
  <2>1. /\ Others(j) /\ UNCHANGED <<is_loading, current_turn_id, mailbox, worker, failed>>
        /\ runner[j] = "exit" /\ runner'[j] = "done"
    BY <1>17 DEF DropGuard, RunnerGoto, Others, TypeOK, appVars, idVars, taskVars
  <2> QED BY <2>1, QuietMove DEF Busy, Open
<1>18. ASSUME NEW j \in Jobs, AbortAfterGrace(j) PROVE QInv'
  <2>1. /\ Others(j) /\ UNCHANGED <<is_loading, current_turn_id, worker, runner, failed>>
        /\ Send(j, Message("aborted"))
    BY <1>18 DEF AbortAfterGrace, Send, Others, TypeOK, appVars, idVars, taskVars
  <2>2. Message("aborted") \in Messages /\ Message("aborted").kind = "aborted"
    BY Sendable DEF Kinds
  <2> QED BY <2>1, <2>2, QuietSend DEF Busy, Open, QInv, Kinds
<1>19. CASE \/ \E m \in Models : PickModel(m) \/ SetNextTurnModelOverride(m)
            \/ Resume \/ Disconnect \/ RemovalEnds \/ UNCHANGED vars
  <2>1. UNCHANGED <<is_loading, current_turn_id, mailbox, worker, runner, failed>>
    BY <1>19 DEF PickModel, SetNextTurnModelOverride, Resume, Disconnect, RemovalEnds, vars, appVars,
       idVars, taskVars
  <2> QED BY <2>1 DEF QInv, Owes, Busy, Settles, Open, Closes, ClosedIn
<1>20. ASSUME NEW j \in Jobs, MainLoop(j) PROVE QInv'
  <2>1. PICK k : /\ Receive(j, k) /\ taskUnchanged
                 /\ is_loading' => is_loading /\ k \notin Settling
                 /\ current_turn_id' # 0 =>
                       \/ current_turn_id # 0 /\ k \notin Closing
                       \/ j \in Prompts /\ k = "started"
    BY <1>20 DEF MainLoop, OnRoute, OnStarted, OnDelta, OnComplete, OnCancelled, OnError,
       OnModelRestored, OnBashDone, OnAborted, appVars, idVars, Settling, Closing
  <2>2. /\ UNCHANGED <<worker, runner, failed>>
        /\ mailbox[j] \in Seq(Messages) /\ mailbox[j] # <<>>
        /\ Head(mailbox[j]).kind = k /\ mailbox'[j] = Tail(mailbox[j])
        /\ \A i \in Jobs \ {j} : mailbox'[i] = mailbox[i]
    BY <2>1 DEF TypeOK, Receive, taskUnchanged, taskVars
  <2>3. /\ Settles(mailbox[j]) /\ k \notin Settling => Settles(mailbox'[j])
        /\ Closes(mailbox[j]) /\ k \notin Closing => Closes(mailbox'[j])
        /\ ClosedIn(mailbox[j]) => ClosedIn(mailbox'[j])
        /\ ClosedIn(mailbox[j]) /\ k = "started" => Closes(mailbox'[j])
    BY <2>2, QuietTake
  <2>4. \A i \in Jobs : /\ Busy(i)' <=> Busy(i)
                        /\ Open(i)' <=> Open(i)
                        /\ Settles(mailbox[i])' <=> Settles(mailbox'[i])
                        /\ Closes(mailbox[i])' <=> Closes(mailbox'[i])
                        /\ ClosedIn(mailbox[i])' <=> ClosedIn(mailbox'[i])
    BY <2>2 DEF Busy, Open, Settles, Closes, ClosedIn
  <2>5. is_loading' => \E i \in Jobs : Owes(i)'
    BY <2>1, <2>2, <2>3, <2>4 DEF QInv, Owes
  <2>6. ASSUME NEW p \in Prompts PROVE (Open(p) \/ ClosedIn(mailbox[p]))'
    BY <2>2, <2>3, <2>4 DEF QInv
  <2>7. current_turn_id' # 0 => \E p \in Prompts : (Open(p) \/ Closes(mailbox[p]))'
    <3>1. CASE j \in Prompts /\ k = "started"
      BY <2>3, <2>4, <3>1 DEF QInv
    <3>2. CASE current_turn_id # 0 /\ k \notin Closing
      <4>1. PICK p \in Prompts : Open(p) \/ Closes(mailbox[p])
        BY <3>2 DEF QInv
      <4> QED BY <2>2, <2>3, <2>4, <3>2, <4>1
    <3> QED BY <2>1, <3>1, <3>2
  <2> QED BY <2>2, <2>5, <2>6, <2>7 DEF QInv
<1> QED
  BY <1>1, <1>2, <1>3, <1>4, <1>5, <1>6, <1>7, <1>8, <1>9, <1>10, <1>11, <1>12, <1>13, <1>14, <1>15,
     <1>16, <1>17, <1>18, <1>19, <1>20 DEF Next, Key, WorkerStep, RunnerStep, ProviderEnds

\* Once every task is done and every message handled, the TUI accepts input and no turn is
\* open for the plugins, whatever failed, was cancelled or disconnected (QuietIsIdle).
THEOREM ComesToRest == Spec => []QuietIsIdle
<1>1. Init => QInv
  BY DEF Init, QInv, ClosedIn, Jobs
<1>2. TypeOK /\ QInv /\ [Next]_vars => QInv'
  BY IdleStep
<1>3. QInv => QuietIsIdle
  BY JobsAssumption DEF QInv, QuietIsIdle, Quiet, Jobs, Owes, Busy, Settles, Open, Closes
<1> QED BY <1>1, <1>2, <1>3, InitTypes, TypeStep, PTL DEF Spec
=============================================================================
