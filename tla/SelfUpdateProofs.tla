--------------------------- MODULE SelfUpdateProofs ---------------------------
(***************************************************************************)
(* Self update for any number of releases and launches.                    *)
(***************************************************************************)
EXTENDS SelfUpdate, TLAPS

\* A step of the loop, with what no disjunct of it needs to be told twice.
LEMMA Steps ==
    ASSUME Next
    PROVE  \/ HostStarting \/ Spawned \/ Tick \/ CheckCached \/ CheckFails \/ CheckFetch
           \/ Publish \/ LoopBegins \/ LoopInstalls \/ LoopReports
           \/ HandleSlash \/ SlashBegins \/ SlashInstalls \/ SlashReports
           \/ Release \/ CacheAges \/ Restart
BY DEF Next, LoopStep, SlashStep

\* The states of the plugin are records of a kind and a tag.
LEMMA StateShape ==
    /\ \A s \in States : /\ s = UpdateState(s.kind, s.tag)
                         /\ s.kind \in Kinds
                         /\ s.kind \in Tagged => s.tag \in Versions
                         /\ s.kind \notin Tagged => s.tag = None
    /\ \A v \in Versions, k \in Tagged : /\ UpdateState(k, v) \in States
                                         /\ UpdateState(k, v).kind = k
                                         /\ UpdateState(k, v).tag = v
    /\ \A k \in Kinds \ Tagged : Plain(k) \in States /\ Plain(k).kind = k /\ Plain(k).tag = None
<1> USE DEF UpdateState, Plain
<1>1. ASSUME NEW s \in States
      PROVE  /\ s = UpdateState(s.kind, s.tag)
             /\ s.kind \in Kinds
             /\ s.kind \in Tagged => s.tag \in Versions
             /\ s.kind \notin Tagged => s.tag = None
  <2>1. CASE \E k \in Kinds \ Tagged : s = [kind |-> k, tag |-> None]
    BY <2>1
  <2>2. CASE \E k \in Tagged, v \in Versions : s = [kind |-> k, tag |-> v]
    <3>1. Tagged \subseteq Kinds
      BY DEF Tagged, Kinds
    <3> QED BY <2>2, <3>1
  <2> QED BY <2>1, <2>2 DEF States
<1>2. ASSUME NEW v \in Versions, NEW k \in Tagged
      PROVE  /\ UpdateState(k, v) \in States
             /\ UpdateState(k, v).kind = k
             /\ UpdateState(k, v).tag = v
  BY DEF States
<1>3. ASSUME NEW k \in Kinds \ Tagged
      PROVE  Plain(k) \in States /\ Plain(k).kind = k /\ Plain(k).tag = None
  BY DEF States
<1> QED BY <1>1, <1>2, <1>3

-----------------------------------------------------------------------------
(* Types.                                                                  *)

\* TypeOK, what kinds of state a check comes to, and that what is installed has a number.
Typed ==
    /\ TypeOK
    /\ loop.result.kind \in {"Unknown", "Disabled", "UpToDate", "CheckFailed", "Available"}
    /\ loop.pc \in {"begin", "install", "installed", "failed"} => loop.result.kind = "Available"
    /\ slash.pc # "idle" => slash.tag \in Versions

\* Every step keeps the types.
LEMMA TypeStep == ASSUME Typed, [Next]_vars PROVE Typed'
<1> USE DEF Typed, TypeOK, LoopPC, SlashPC
<1> DEFINE Loops == [pc : LoopPC, first : BOOLEAN, pre : States, result : States]
<1>0. /\ \A k \in {"Available", "Installing", "InstallFailed", "Updated"}, v \in Versions :
            UpdateState(k, v) \in States
      /\ \A k \in {"Unknown", "Disabled", "UpToDate", "CheckFailed"} : Plain(k) \in States
  BY StateShape DEF Kinds, Tagged
<1>r. loop.result.kind = "Available" => loop.result.tag \in Versions
  BY StateShape DEF Tagged
<1>s. state.kind \in Tagged => state.tag \in Versions
  BY StateShape
<1>1. CASE HostStarting BY <1>1 DEF HostStarting, At
<1>2. CASE Spawned BY <1>2, <1>0 DEF Spawned, At
<1>3. CASE Tick BY <1>3 DEF Tick
<1>4. CASE CheckCached
  <2>1. /\ Classify(cache.tag) \in States
        /\ Classify(cache.tag).kind \in {"UpToDate", "Available"}
    BY <1>4, <1>0, StateShape DEF CheckCached, CachedFresh, Classify, Kinds, Tagged
  <2> QED BY <1>4, <2>1 DEF CheckCached
<1>5. CASE CheckFails
  <2>1. Plain("CheckFailed") \in States /\ Plain("CheckFailed").kind = "CheckFailed"
    BY <1>0 DEF Plain, UpdateState
  <2> QED BY <1>5, <2>1 DEF CheckFails
<1>6. CASE CheckFetch
  <2> DEFINE fresh == IF mode = "dev" THEN Plain("Disabled") ELSE Classify(published)
  <2>1. /\ fresh \in States /\ (fresh.kind = "Available" => fresh.tag \in Versions)
        /\ fresh.kind \in {"Disabled", "UpToDate", "Available"}
    BY <1>0, StateShape DEF Classify, Kinds, Tagged
  <2>2. loop' \in Loops /\ loop'.pc = "publish" /\ loop'.result = fresh
    BY <1>6, <2>1 DEF CheckFetch
  <2>3. cache' \in [tag : Versions \cup {None}, fresh : BOOLEAN]
    <3>1. \/ cache' = cache
          \/ cache' = [tag |-> IF fresh.kind = "Available" THEN fresh.tag ELSE running,
                       fresh |-> TRUE]
      BY <1>6 DEF CheckFetch
    <3>2. (IF fresh.kind = "Available" THEN fresh.tag ELSE running) \in Versions
      BY <2>1
    <3> DEFINE tag == IF fresh.kind = "Available" THEN fresh.tag ELSE running
    <3> HIDE DEF tag
    <3>3. CASE cache' = [tag |-> tag, fresh |-> TRUE]
      BY <3>2, <3>3 DEF tag
    <3> QED BY <3>1, <3>3 DEF tag
  <2> HIDE DEF fresh
  <2>4. UNCHANGED <<running, disk, published, mode, state, slash, launches>>
    BY <1>6 DEF CheckFetch
  <2> QED BY <2>1, <2>2, <2>3, <2>4
<1>7. CASE Publish BY <1>7 DEF Publish, KeepsFailure
<1>8. CASE LoopBegins BY <1>8, <1>0, <1>r DEF LoopBegins, At
<1>9. CASE LoopInstalls BY <1>9, <1>r DEF LoopInstalls, At
<1>10. CASE LoopReports BY <1>10, <1>0, <1>r DEF LoopReports, At
<1>11. CASE HandleSlash BY <1>11, <1>s DEF HandleSlash, Tagged
<1>12. CASE SlashBegins BY <1>12, <1>0 DEF SlashBegins, SlashAt
<1>13. CASE SlashInstalls BY <1>13 DEF SlashInstalls, SlashAt
<1>14. CASE SlashReports BY <1>14, <1>0 DEF SlashReports, SlashAt
<1>15. CASE Release BY <1>15 DEF Release
<1>16. CASE CacheAges BY <1>16 DEF CacheAges
<1>17. CASE Restart
  <2>1. disk' \in Versions /\ running' = disk'
    BY <1>17, <1>r DEF Restart
  <2>2. launches' \in 1 .. MaxLaunches
    BY <1>17, BoundsAssumption DEF Restart
  <2>3. \E m \in {"dev", "installed", "opted_out"} : Started(m)
    BY <1>17 DEF Restart
  <2>4. /\ mode' \in {"installed", "dev", "opted_out"} /\ state' \in States
        /\ loop' \in Loops /\ loop'.pc = "off" /\ loop'.result.kind = "Unknown"
        /\ slash' \in [pc : SlashPC, tag : Versions \cup {None}] /\ slash'.pc = "idle"
    BY <2>3, <1>0 DEF Started, Plain, UpdateState
  <2> QED BY <1>17, <2>1, <2>2, <2>4 DEF Restart
<1>18. CASE UNCHANGED vars BY <1>18 DEF vars
<1> QED
  BY <1>1, <1>2, <1>3, <1>4, <1>5, <1>6, <1>7, <1>8, <1>9, <1>10, <1>11, <1>12, <1>13,
     <1>14, <1>15, <1>16, <1>17, <1>18, Steps

\* The types hold at first.
LEMMA TypeInit == ASSUME Init PROVE Typed
<1>1. Plain("Disabled") \in States /\ Plain("Unknown") \in States
  BY StateShape DEF Kinds, Tagged
<1>2. cache \in [tag : Versions \cup {None}, fresh : BOOLEAN]
  <2>1. 1 .. published \subseteq Versions
    BY BoundsAssumption DEF Init, Versions
  <2>2. CASE cache \in [tag : 1 .. published, fresh : BOOLEAN]
    BY <2>1, <2>2
  <2>3. CASE cache = [tag |-> None, fresh |-> FALSE]
    BY <2>3
  <2> QED BY <2>2, <2>3 DEF Init
<1>3. /\ loop \in [pc : LoopPC, first : BOOLEAN, pre : States, result : States]
      /\ loop.pc = "off" /\ loop.result.kind = "Unknown"
  BY <1>1 DEF Init, LoopPC, Plain, UpdateState
<1>4. slash \in [pc : SlashPC, tag : Versions \cup {None}] /\ slash.pc = "idle"
  BY DEF Init, SlashPC
<1> QED BY <1>1, <1>2, <1>3, <1>4, BoundsAssumption DEF Init, Typed, TypeOK

\* The plugin keeps its types.
THEOREM Typing == Spec => []TypeOK
<1>1. Typed => TypeOK
  BY DEF Typed
<1> QED BY <1>1, TypeInit, TypeStep, PTL DEF Spec

-----------------------------------------------------------------------------
(* Opting out.                                                             *)

\* What OptOutIsInert needs: a user who opted out starts in Disabled and gets no task.
Inert ==
    /\ OptOutIsInert
    /\ mode = "opted_out" => state.kind = "Disabled" /\ loop.pc = "off"

\* Every step keeps it.
LEMMA InertStep == ASSUME Typed, Inert, [Next]_vars PROVE Inert'
<1> USE DEF Typed, TypeOK, Inert, OptOutIsInert
<1>1. CASE HostStarting BY <1>1 DEF HostStarting, At
<1>2. CASE Spawned BY <1>2, StateShape DEF Spawned, At, Kinds, Tagged
<1>3. CASE Tick BY <1>3 DEF Tick
<1>4. CASE CheckCached BY <1>4 DEF CheckCached
<1>5. CASE CheckFails BY <1>5 DEF CheckFails
<1>6. CASE CheckFetch BY <1>6 DEF CheckFetch
<1>7. CASE Publish BY <1>7 DEF Publish
<1>8. CASE LoopBegins BY <1>8 DEF LoopBegins, At
<1>9. CASE LoopInstalls BY <1>9 DEF LoopInstalls, At
<1>10. CASE LoopReports BY <1>10 DEF LoopReports, At
<1>11. CASE HandleSlash BY <1>11 DEF HandleSlash
<1>12. CASE SlashBegins BY <1>12 DEF SlashBegins, SlashAt
<1>13. CASE SlashInstalls BY <1>13 DEF SlashInstalls, SlashAt
<1>14. CASE SlashReports BY <1>14 DEF SlashReports, SlashAt
<1>15. CASE Release BY <1>15 DEF Release
<1>16. CASE CacheAges BY <1>16 DEF CacheAges
<1>17. CASE Restart
  <2>1. PICK m \in {"dev", "installed", "opted_out"} : Started(m)
    BY <1>17 DEF Restart
  <2> QED BY <2>1, StateShape DEF Started, Kinds, Tagged
<1>18. CASE UNCHANGED vars BY <1>18 DEF vars
<1> QED
  BY <1>1, <1>2, <1>3, <1>4, <1>5, <1>6, <1>7, <1>8, <1>9, <1>10, <1>11, <1>12, <1>13,
     <1>14, <1>15, <1>16, <1>17, <1>18, Steps

\* A development build and a user who opted out are left alone, for every history of
\* releases, cached answers and restarts.
THEOREM OptedOut == Spec => []OptOutIsInert
<1>1. Init => Inert
  BY StateShape DEF Init, Inert, OptOutIsInert, Kinds, Tagged
<1>2. Inert => OptOutIsInert
  BY DEF Inert
<1> QED BY <1>1, <1>2, TypeInit, TypeStep, InertStep, PTL DEF Spec
-----------------------------------------------------------------------------
(* A failure and the loop.                                                 *)

LoopInstalling  == loop.pc \in {"begin", "install", "installed", "failed"}
SlashInstalling == slash.pc # "idle"
NewerThanRunning(tag) == running < tag /\ tag <= published

\* Every release to be installed is newer than the running one and published. The cache
\* may name the running version.
TagsAreReleases ==
    /\ cache.tag <= published \/ cache.tag <= running
    /\ running <= disk
    /\ state.kind \in Tagged => NewerThanRunning(state.tag)
    /\ loop.pre.kind = "InstallFailed" => NewerThanRunning(loop.pre.tag)
    /\ loop.result.kind = "Available" => NewerThanRunning(loop.result.tag)
    /\ SlashInstalling => NewerThanRunning(slash.tag)

\* Before its first publication the loop is alone.
FirstIsQuiet ==
    /\ loop.first => state.kind \in {"Unknown", "Disabled"} /\ ~SlashInstalling /\ ~LoopInstalling
    /\ loop.pc \in {"off", "spawned"} => loop.first
    /\ state.kind = "Available" => loop.pc = "begin"

\* `/update` works on a release no newer than the state's, and no newer than the one the
\* loop installs.
SlashLagsBehind ==
    /\ SlashInstalling => state.kind \in Tagged /\ slash.tag <= state.tag
    /\ SlashInstalling /\ LoopInstalling => slash.tag <= loop.result.tag
    /\ LoopInstalling /\ state.kind \in Tagged => state.tag <= loop.result.tag

\* While the loop checks, a failure in the state, or one still to come from `/update`, is
\* of a release no newer than the failure the tick has seen.
TickSawFailure ==
    loop.pc \in {"check", "publish"} /\ (SlashInstalling \/ state.kind = "InstallFailed") =>
        /\ loop.pre.kind = "InstallFailed"
        /\ SlashInstalling => slash.tag <= loop.pre.tag
        /\ state.kind = "InstallFailed" => state.tag <= loop.pre.tag

\* After a failure a check that succeeds finds that release, or a newer one.
ResultIsNoOlder ==
    loop.pc = "publish" /\ ~loop.first /\ loop.pre.kind = "InstallFailed" =>
        \/ loop.result.kind = "CheckFailed"
        \/ loop.result.kind = "Available" /\ loop.pre.tag <= loop.result.tag

FailureInv ==
    /\ TagsAreReleases /\ FirstIsQuiet /\ SlashLagsBehind /\ TickSawFailure /\ ResultIsNoOlder

\* The tags are numbers.
LEMMA Numbers ==
    ASSUME Typed
    PROVE  /\ running \in Nat /\ disk \in Nat /\ published \in Nat /\ cache.tag \in Nat
           /\ state.tag \in Nat /\ loop.pre.tag \in Nat /\ loop.result.tag \in Nat
           /\ slash.tag \in Nat
<1>1. Versions \cup {None} \subseteq Nat
  BY BoundsAssumption DEF Versions, None
<1>2. \A s \in States : s.tag \in Nat
  BY <1>1, StateShape
<1> QED BY <1>1, <1>2 DEF Typed, TypeOK

\* What the shapes of states say of those that are written.
LEMMA Written ==
    /\ \A k \in Kinds : \A t : UpdateState(k, t).kind = k /\ UpdateState(k, t).tag = t
    /\ \A k \in Kinds : Plain(k).kind = k /\ Plain(k).tag = None
BY DEF UpdateState, Plain

\* The first tick finds a release in the cache that is published and newer, or none.
LEMMA ClassifyIsRight ==
    ASSUME Typed, NEW tag \in Nat
    PROVE  /\ Classify(tag).kind \in {"Available", "UpToDate"}
           /\ Classify(tag).kind = "Available" <=> running < tag
           /\ Classify(tag).kind = "Available" => Classify(tag).tag = tag
BY Written DEF Classify, Kinds

\* Every step keeps the invariant.
LEMMA FailureStep ==
    ASSUME Typed, Typed', Inert, FailureInv, [Next]_vars PROVE FailureInv'
<1> USE Numbers DEF FailureInv, TagsAreReleases, FirstIsQuiet, SlashLagsBehind, TickSawFailure,
        ResultIsNoOlder, LoopInstalling, SlashInstalling, NewerThanRunning, Tagged
<1>1. CASE HostStarting BY <1>1 DEF HostStarting, At, Typed, TypeOK
<1>2. CASE Spawned BY <1>2, Written DEF Spawned, At, Kinds, Typed, TypeOK
<1>3. CASE Tick BY <1>3 DEF Tick, Typed, TypeOK
<1>4. CASE CheckCached BY <1>4, ClassifyIsRight DEF CheckCached, CachedFresh, Typed, TypeOK
<1>5. CASE CheckFails BY <1>5, Written DEF CheckFails, Kinds, Typed, TypeOK
<1>6. CASE CheckFetch
  <2>1. mode # "dev"
    BY <1>6 DEF CheckFetch, Inert, OptOutIsInert
  <2> DEFINE found == Classify(published)
  <2>2. /\ loop' = [loop EXCEPT !.pc = "publish", !.result = found] /\ loop.pc = "check"
        /\ UNCHANGED <<running, disk, published, mode, state, slash, launches>>
    BY <1>6, <2>1 DEF CheckFetch
  <2>3. \/ cache' = cache
        \/ cache'.tag = IF found.kind = "Available" THEN found.tag ELSE running
    BY <1>6, <2>1 DEF CheckFetch
  <2>4. /\ loop'.pc = "publish" /\ loop'.result = found
        /\ loop'.first = loop.first /\ loop'.pre = loop.pre
    BY <2>2 DEF Typed, TypeOK
  <2>5. /\ found.kind \in {"Available", "UpToDate"}
        /\ found.kind = "Available" <=> running < published
        /\ found.kind = "Available" => found.tag = published
    BY ClassifyIsRight
  <2> HIDE DEF found
  <2> QED BY <2>2, <2>3, <2>4, <2>5
<1>7. CASE Publish
  <2>1. /\ loop.pc = "publish" /\ loop'.first = FALSE
        /\ loop'.pre = loop.pre /\ loop'.result = loop.result
        /\ UNCHANGED <<running, disk, published, mode, cache, slash, launches>>
    BY <1>7 DEF Publish, Typed, TypeOK
  <2>2. CASE KeepsFailure
    <3>1. state' = state /\ loop'.pc = "wait"
      BY <1>7, <2>2 DEF Publish, Typed, TypeOK
    <3> QED BY <2>1, <3>1
  <2>3. CASE ~KeepsFailure
    <3>1. /\ state' = loop.result
          /\ loop'.pc = IF loop.result.kind = "Available" THEN "begin" ELSE "wait"
      BY <1>7, <2>3 DEF Publish, Typed, TypeOK
    <3>2. SlashInstalling => loop.result.kind = "Available" /\ slash.tag <= loop.result.tag
      BY <2>1, <2>3 DEF KeepsFailure
    <3>3. loop.result.kind \in {"Unknown", "Disabled", "UpToDate", "CheckFailed", "Available"}
      BY DEF Typed
    <3> QED BY <2>1, <3>1, <3>2, <3>3
  <2> QED BY <2>2, <2>3
<1>8. CASE LoopBegins BY <1>8, Written DEF LoopBegins, At, Kinds, Typed, TypeOK
<1>9. CASE LoopInstalls BY <1>9 DEF LoopInstalls, At, Typed, TypeOK
<1>10. CASE LoopReports BY <1>10, Written DEF LoopReports, At, Kinds, Typed, TypeOK
<1>11. CASE HandleSlash BY <1>11 DEF HandleSlash, Typed, TypeOK
<1>12. CASE SlashBegins BY <1>12, Written DEF SlashBegins, SlashAt, Kinds, Typed, TypeOK
<1>13. CASE SlashInstalls BY <1>13 DEF SlashInstalls, SlashAt, Typed, TypeOK
<1>14. CASE SlashReports BY <1>14, Written DEF SlashReports, SlashAt, Kinds, Typed, TypeOK
<1>15. CASE Release BY <1>15, BoundsAssumption DEF Release, Versions
<1>16. CASE CacheAges BY <1>16 DEF CacheAges, Typed, TypeOK
<1>17. CASE Restart
  <2>1. PICK m \in {"dev", "installed", "opted_out"} : Started(m)
    BY <1>17 DEF Restart
  <2>2. /\ loop'.pc = "off" /\ loop'.first = TRUE /\ slash'.pc = "idle"
        /\ state'.kind \in {"Unknown", "Disabled"}
        /\ loop'.pre.kind = "Unknown" /\ loop'.result.kind = "Unknown"
    BY <2>1, Written DEF Started, Kinds
  <2>3. /\ disk' = running' /\ running <= disk'
        /\ cache' = cache /\ published' = published
    BY <1>17 DEF Restart, Typed, TypeOK
  <2>4. running' \in Nat
    BY BoundsAssumption DEF Typed, TypeOK, Versions
  <2> QED BY <2>2, <2>3, <2>4
<1>18. CASE UNCHANGED vars BY <1>18 DEF vars
<1> QED
  BY <1>1, <1>2, <1>3, <1>4, <1>5, <1>6, <1>7, <1>8, <1>9, <1>10, <1>11, <1>12, <1>13,
     <1>14, <1>15, <1>16, <1>17, <1>18, Steps

\* The invariant holds at first.
LEMMA FailureInit == ASSUME Init PROVE FailureInv
<1>1. Typed
  BY TypeInit
<1>2. /\ state.kind \in {"Unknown", "Disabled"}
      /\ loop.pre.kind = "Unknown" /\ loop.result.kind = "Unknown"
      /\ loop.pc = "off" /\ loop.first /\ slash.pc = "idle"
  BY Written DEF Init, Kinds
<1>3. cache.tag <= published
  BY <1>1, Numbers DEF Init, None
<1> QED
  BY <1>1, <1>2, <1>3, Numbers DEF Init, FailureInv, TagsAreReleases, FirstIsQuiet,
     SlashLagsBehind, TickSawFailure, ResultIsNoOlder, LoopInstalling, SlashInstalling, Tagged

\* A step that turns the failure of a release into an offer of that release would be a
\* publication, which the older look at the state rules out.
LEMMA FailureKept ==
    ASSUME Typed, FailureInv, [Next]_vars, state.kind = "InstallFailed"
    PROVE  state' # UpdateState("Available", state.tag)
<1> SUFFICES ASSUME state' = UpdateState("Available", state.tag) PROVE FALSE
  OBVIOUS
<1>1. state'.kind = "Available" /\ state'.tag = state.tag
  BY Written DEF Kinds
<1>2. Publish
  BY <1>1, Written, Steps DEF vars, HostStarting, Spawned, Tick, CheckCached, CheckFails,
     CheckFetch, LoopBegins, LoopInstalls, LoopReports, HandleSlash, SlashBegins, SlashInstalls,
     SlashReports, Release, CacheAges, Restart, Started, Kinds
<1>3. /\ loop.pc = "publish" /\ ~KeepsFailure
      /\ loop.result.kind = "Available" /\ loop.result.tag = state.tag
  BY <1>1, <1>2 DEF Publish
<1>4. loop.pre.kind = "InstallFailed" /\ state.tag <= loop.pre.tag
  BY <1>3 DEF FailureInv, TickSawFailure
<1>5. loop.pre.tag <= loop.result.tag
  BY <1>3, <1>4 DEF FailureInv, FirstIsQuiet, ResultIsNoOlder
<1>6. loop.pre.tag = loop.result.tag
  BY <1>3, <1>4, <1>5, Numbers
<1>7. loop.result = UpdateState("Available", loop.pre.tag)
  BY <1>3, <1>6, StateShape DEF Typed, TypeOK
<1> QED BY <1>3, <1>4, <1>7 DEF KeepsFailure

\* The loop never offers a release over the failure of that release, however checks, ticks
\* and `/update` interleave.
THEOREM FailureStays == Spec => FailureIsNotRetried
<1>1. Init => Typed /\ Inert /\ FailureInv
  BY TypeInit, FailureInit, StateShape DEF Init, Inert, OptOutIsInert, Kinds, Tagged
<1>2. Typed /\ Inert /\ FailureInv /\ [Next]_vars => (Typed /\ Inert /\ FailureInv)'
  BY TypeStep, InertStep, FailureStep
<1>3. Typed /\ FailureInv /\ [Next]_vars
          => [state.kind = "InstallFailed" => state' # UpdateState("Available", state.tag)]_vars
  BY FailureKept
<1> QED BY <1>1, <1>2, <1>3, PTL DEF Spec, FailureIsNotRetried

-----------------------------------------------------------------------------
(* Who writes what comes after "Installing".                               *)

\* The two of them between writing Installing and writing the outcome.
Writing == {"install", "installed", "failed"}

\* While the state says that a release is being installed, the loop or `/update` is at work
\* on that very release and will write what became of it.
InstallerIsAtWork ==
    state.kind = "Installing" =>
        \/ loop.pc \in Writing /\ loop.result.tag = state.tag
        \/ slash.pc \in Writing /\ slash.tag = state.tag

\* Every step keeps it.
LEMMA AtWorkStep == ASSUME Typed, InstallerIsAtWork, [Next]_vars PROVE InstallerIsAtWork'
<1> USE DEF Typed, TypeOK, InstallerIsAtWork, Writing, At, SlashAt, UpdateState, Plain
<1>1. CASE HostStarting BY <1>1 DEF HostStarting
<1>2. CASE Spawned BY <1>2 DEF Spawned
<1>3. CASE Tick BY <1>3 DEF Tick
<1>4. CASE CheckCached BY <1>4 DEF CheckCached
<1>5. CASE CheckFails BY <1>5 DEF CheckFails
<1>6. CASE CheckFetch BY <1>6 DEF CheckFetch
<1>7. CASE Publish BY <1>7 DEF Publish
<1>8. CASE LoopBegins BY <1>8 DEF LoopBegins
<1>9. CASE LoopInstalls BY <1>9 DEF LoopInstalls
<1>10. CASE LoopReports BY <1>10 DEF LoopReports
<1>11. CASE HandleSlash BY <1>11 DEF HandleSlash
<1>12. CASE SlashBegins BY <1>12 DEF SlashBegins
<1>13. CASE SlashInstalls BY <1>13 DEF SlashInstalls
<1>14. CASE SlashReports BY <1>14 DEF SlashReports
<1>15. CASE Release BY <1>15 DEF Release
<1>16. CASE CacheAges BY <1>16 DEF CacheAges
<1>17. CASE Restart BY <1>17 DEF Restart, Started
<1>18. CASE UNCHANGED vars BY <1>18 DEF vars
<1> QED
  BY <1>1, <1>2, <1>3, <1>4, <1>5, <1>6, <1>7, <1>8, <1>9, <1>10, <1>11, <1>12, <1>13, <1>14,
     <1>15, <1>16, <1>17, <1>18, Steps

\* "Installing", on which `/update` refuses and every tick is skipped, is never left behind:
\* somebody is at work on that release, however the loop and `/update` overlap, publish over
\* one another, fail or are restarted.
THEOREM NeverLeftInstalling == Spec => []InstallerIsAtWork
<1>1. Init => InstallerIsAtWork
  BY DEF Init, InstallerIsAtWork, Plain, UpdateState
<1> QED BY <1>1, TypeInit, TypeStep, AtWorkStep, PTL DEF Spec
=============================================================================
