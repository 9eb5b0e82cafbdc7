----------------------------- MODULE SelfUpdate -----------------------------
(***************************************************************************)
(* internal:self-update. A task spawned at startup looks for a newer       *)
(* release on every tick and installs it; `/update` retries an install     *)
(* from the slash dispatcher. Both share one state behind a mutex that     *)
(* neither holds over an await: what is decided under it may be stale      *)
(* when it is acted upon.                                                  *)
(*                                                                         *)
(* Versions are numbered by their order; `published` is what the releases  *)
(* endpoint names as the latest. A release is not taken back here.         *)
(***************************************************************************)
EXTENDS Naturals

CONSTANTS
    MaxVersion,      \* bound: the releases are 1 .. MaxVersion
    MaxLaunches      \* bound: how often savvagent is started

ASSUME BoundsAssumption == MaxVersion \in Nat /\ MaxLaunches \in Nat \ {0}

VARIABLES
    running,         \* CARGO_PKG_VERSION of the process
    disk,            \* the version of the installed binaries
    published,       \* the latest release
    mode,            \* "installed", "dev" (InstallMethod), "opted_out" (variable or flag)
    state,           \* UpdateState, with the version it carries
    cache,           \* ~/.savvagent/update-check.json: its tag, and whether it is fresh
    loop,            \* the spawned task: where it is and its locals
    slash,           \* handle_slash("update")
    launches

vars == <<running, disk, published, mode, state, cache, loop, slash, launches>>

Versions == 1 .. MaxVersion
None     == 0
Kinds == {"Unknown", "Disabled", "UpToDate", "Available", "Installing", "InstallFailed",
          "Updated", "CheckFailed"}
Tagged == {"Available", "Installing", "InstallFailed", "Updated"}
UpdateState(kind, tag) == [kind |-> kind, tag |-> tag]
Plain(kind) == UpdateState(kind, None)
States == {Plain(k) : k \in Kinds \ Tagged} \cup {UpdateState(k, v) : k \in Tagged, v \in Versions}

LoopPC == {"off", "spawned", "wait", "check", "publish", "begin", "install", "installed",
           "failed", "stopped"}
SlashPC == {"idle", "begin", "install", "installed", "failed"}

TypeOK ==
    /\ running \in Versions /\ disk \in Versions /\ published \in Versions
    /\ mode \in {"installed", "dev", "opted_out"}
    /\ state \in States
    /\ cache \in [tag : Versions \cup {None}, fresh : BOOLEAN]
    /\ loop \in [pc : LoopPC, first : BOOLEAN, pre : States, result : States]
    /\ slash \in [pc : SlashPC, tag : Versions \cup {None}]
    /\ launches \in 1 .. MaxLaunches

Started(m) ==
    /\ mode' = m
    /\ state' = Plain(IF m = "opted_out" THEN "Disabled" ELSE "Unknown")
    /\ loop' = [pc |-> "off", first |-> TRUE, pre |-> Plain("Unknown"), result |-> Plain("Unknown")]
    /\ slash' = [pc |-> "idle", tag |-> None]

Init ==
    /\ running \in Versions /\ disk = running /\ published \in Versions
    /\ mode \in {"installed", "dev", "opted_out"}
    /\ state = Plain(IF mode = "opted_out" THEN "Disabled" ELSE "Unknown")
    /\ cache \in [tag : 1 .. published, fresh : BOOLEAN] \cup {[tag |-> None, fresh |-> FALSE]}
    /\ loop = [pc |-> "off", first |-> TRUE, pre |-> Plain("Unknown"), result |-> Plain("Unknown")]
    /\ slash = [pc |-> "idle", tag |-> None]
    /\ launches = 1

-----------------------------------------------------------------------------
\* classify_tag.
Classify(tag) == IF running < tag THEN UpdateState("Available", tag) ELSE Plain("UpToDate")

At(from, to) == loop.pc = from /\ loop' = [loop EXCEPT !.pc = to]

\* on_event(HostStarting): nothing is spawned when the user opted out.
HostStarting ==
    /\ state.kind # "Disabled"
    /\ At("off", "spawned")
    /\ UNCHANGED <<running, disk, published, mode, state, cache, slash, launches>>

\* Variant: a development build is not told apart.
SpawnedAnyBuild ==
    /\ At("spawned", "wait")
    /\ UNCHANGED <<running, disk, published, mode, state, cache, slash, launches>>

Spawned ==
    /\ IF mode = "dev"
       THEN At("spawned", "stopped") /\ state' = Plain("Disabled")
       ELSE At("spawned", "wait") /\ UNCHANGED state
    /\ UNCHANGED <<running, disk, published, mode, cache, slash, launches>>

\* Variant: an install under way ends the loop like a finished one.
TickOnce ==
    /\ loop.pc = "wait"
    /\ loop' = [loop EXCEPT !.pc = IF state.kind \in {"Disabled", "Updated", "Installing"}
                                   THEN "stopped" ELSE "check",
                            !.pre = state]
    /\ UNCHANGED <<running, disk, published, mode, state, cache, slash, launches>>

\* interval.tick(): the state is cloned and looked at before anything is awaited. A
\* tick that meets an install under way is skipped.
Tick ==
    /\ loop.pc = "wait"
    /\ loop' = [loop EXCEPT !.pc = CASE state.kind \in {"Disabled", "Updated"} -> "stopped"
                                     [] state.kind = "Installing" -> "wait"
                                     [] OTHER -> "check",
                            !.pre = state]
    /\ UNCHANGED <<running, disk, published, mode, state, cache, slash, launches>>

\* The first tick takes a fresh cache entry for the answer, unless it is older than
\* the running binary.
CachedFresh == loop.first /\ cache.tag # None /\ cache.fresh /\ running <= cache.tag

CheckCached ==
    /\ CachedFresh
    /\ loop.pc = "check"
    /\ loop' = [loop EXCEPT !.pc = "publish", !.result = Classify(cache.tag)]
    /\ UNCHANGED <<running, disk, published, mode, state, cache, slash, launches>>

\* check_for_update. The cache keeps the tag, or the running version when there is
\* nothing newer; a failed save is swallowed.
CheckFetch ==
    /\ ~CachedFresh
    /\ loop.pc = "check"
    /\ LET fresh == IF mode = "dev" THEN Plain("Disabled") ELSE Classify(published) IN
        /\ loop' = [loop EXCEPT !.pc = "publish", !.result = fresh]
        /\ \/ UNCHANGED cache
           \/ /\ fresh.kind \in {"Available", "UpToDate"}
              /\ cache' = [tag |-> IF fresh.kind = "Available" THEN fresh.tag ELSE running,
                           fresh |-> TRUE]
    /\ UNCHANGED <<running, disk, published, mode, state, slash, launches>>

\* The network, the endpoint or its answer failed.
CheckFails ==
    /\ ~CachedFresh /\ mode # "dev"
    /\ loop.pc = "check"
    /\ loop' = [loop EXCEPT !.pc = "publish", !.result = Plain("CheckFailed")]
    /\ UNCHANGED <<running, disk, published, mode, state, cache, slash, launches>>

\* Variant: a failed install is not remembered.
KeepsNothing == FALSE

\* After a failed install nothing is published when the check failed or names the
\* same release again. The decision is made on the state of the tick, not on what
\* `/update` has written since.
KeepsFailure ==
    /\ loop.pre.kind = "InstallFailed"
    /\ \/ loop.result.kind = "CheckFailed"
       \/ loop.result = UpdateState("Available", loop.pre.tag)

Publish ==
    /\ loop.pc = "publish"
    /\ state' = IF KeepsFailure THEN state ELSE loop.result
    /\ loop' = [loop EXCEPT !.first = FALSE,
                            !.pc = IF ~KeepsFailure /\ loop.result.kind = "Available"
                                   THEN "begin" ELSE "wait"]
    /\ UNCHANGED <<running, disk, published, mode, cache, slash, launches>>

-----------------------------------------------------------------------------
(* run_install, by the loop and by `/update`: Installing is written, the   *)
(* installer runs, its outcome is written.                                 *)

LoopBegins ==
    /\ At("begin", "install")
    /\ state' = UpdateState("Installing", loop.result.tag)
    /\ UNCHANGED <<running, disk, published, mode, cache, slash, launches>>

LoopInstalls ==
    /\ \/ At("install", "installed") /\ disk' = loop.result.tag
       \/ At("install", "failed") /\ UNCHANGED disk
    /\ UNCHANGED <<running, published, mode, state, cache, slash, launches>>

\* Variant: a failed install leaves the state as it is.
LoopReportsSuccess ==
    /\ \/ At("installed", "wait") /\ state' = UpdateState("Updated", loop.result.tag)
       \/ At("failed", "wait") /\ UNCHANGED state
    /\ UNCHANGED <<running, disk, published, mode, cache, slash, launches>>

LoopReports ==
    /\ \/ At("installed", "wait") /\ state' = UpdateState("Updated", loop.result.tag)
       \/ At("failed", "wait") /\ state' = UpdateState("InstallFailed", loop.result.tag)
    /\ UNCHANGED <<running, disk, published, mode, cache, slash, launches>>

SlashAt(from, to) == slash.pc = from /\ slash' = [slash EXCEPT !.pc = to]

\* `/update` installs what is available or failed; otherwise it only writes a note.
HandleSlash ==
    /\ slash.pc = "idle"
    /\ state.kind \in {"Available", "InstallFailed"}
    /\ slash' = [pc |-> "begin", tag |-> state.tag]
    /\ UNCHANGED <<running, disk, published, mode, state, cache, loop, launches>>

SlashBegins ==
    /\ SlashAt("begin", "install")
    /\ state' = UpdateState("Installing", slash.tag)
    /\ UNCHANGED <<running, disk, published, mode, cache, loop, launches>>

SlashInstalls ==
    /\ \/ SlashAt("install", "installed") /\ disk' = slash.tag
       \/ SlashAt("install", "failed") /\ UNCHANGED disk
    /\ UNCHANGED <<running, published, mode, state, cache, loop, launches>>

SlashReports ==
    /\ \/ SlashAt("installed", "idle") /\ state' = UpdateState("Updated", slash.tag)
       \/ SlashAt("failed", "idle") /\ state' = UpdateState("InstallFailed", slash.tag)
    /\ UNCHANGED <<running, disk, published, mode, cache, loop, launches>>

-----------------------------------------------------------------------------
(* The world: releases appear, the cache entry ages, the user quits and    *)
(* starts savvagent again.                                                 *)

Release ==
    /\ \E v \in Versions : v > published /\ published' = v
    /\ UNCHANGED <<running, disk, mode, state, cache, loop, slash, launches>>

CacheAges ==
    /\ cache.fresh
    /\ cache' = [cache EXCEPT !.fresh = FALSE]
    /\ UNCHANGED <<running, disk, published, mode, state, loop, slash, launches>>

\* An installer that is running is not killed with the process.
Restart ==
    /\ launches < MaxLaunches
    /\ launches' = launches + 1
    /\ \/ UNCHANGED disk
       \/ loop.pc = "install" /\ disk' = loop.result.tag
       \/ slash.pc = "install" /\ disk' = slash.tag
    /\ running' = disk'
    /\ \E m \in IF mode = "dev" THEN {"dev"} ELSE {"installed", "opted_out"} : Started(m)
    /\ UNCHANGED <<published, cache>>

-----------------------------------------------------------------------------
LoopStep ==
    \/ HostStarting \/ Spawned \/ Tick \/ CheckCached \/ CheckFails \/ CheckFetch
    \/ Publish \/ LoopBegins \/ LoopInstalls \/ LoopReports
SlashStep == SlashBegins \/ SlashInstalls \/ SlashReports

Next == LoopStep \/ HandleSlash \/ SlashStep \/ Release \/ CacheAges \/ Restart

\* The runtime polls both tasks, the installer exits, the interval does not tick during
\* installs only, and a request made again and again is answered in the end.
Fairness == WF_vars(LoopStep) /\ WF_vars(SlashStep) /\ SF_vars(Tick) /\ SF_vars(CheckFetch)

Spec     == Init /\ [][Next]_vars
FairSpec == Spec /\ Fairness

-----------------------------------------------------------------------------
\* A development build and a user who opted out are left alone for the whole life of
\* the process: no check, no install, whatever the cache holds and `/update` asks.
OptOutIsInert ==
    mode # "installed" =>
        /\ loop.pc \in {"off", "spawned", "stopped"} /\ slash.pc = "idle"
        /\ state.kind \in {"Unknown", "Disabled"}

\* The loop never announces, and so never installs by itself, a release over the
\* failure of that very release, although it decides on an older look at the state.
FailureIsNotRetried ==
    [][state.kind = "InstallFailed" => state' # UpdateState("Available", state.tag)]_vars

\* "Installing" is never the last word: the banner would stay, `/update` would refuse
\* and every later tick would be skipped.
InstallingEnds == (state.kind = "Installing") ~> (state.kind # "Installing")

\* The latest release reaches the user, unless an installed one waits for a restart: a
\* fresh cache, failed checks, an install under way on a tick, a stale publication and
\* the failure of an older release delay it only.
Offered == disk # running \/ (state.kind \in Tagged /\ state.tag = published)
ReleaseIsOffered ==
    (mode = "installed" /\ running < published)
        ~> (Offered \/ published <= running \/ mode # "installed")

\* "skip this tick (no double-installer)", the design of the periodic check, line 48:
\* the loop and `/update` never run two installers at once.
OneInstallAtATime == ~(loop.pc = "install" /\ slash.pc = "install")
=============================================================================
