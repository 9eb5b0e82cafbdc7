--------------------------- MODULE LeaseLifecycle ---------------------------
(***************************************************************************)
(* What the provider pool promises about its entries and leases, without   *)
(* turns, signals or counters. An entry lives once: it is registered,      *)
(* leased and released while pooled, retired, and discarded. A retired     *)
(* entry is never leased again, and one retired by a drain is discarded    *)
(* only when its last lease is back (DisconnectMode, remove_provider).     *)
(***************************************************************************)
EXTENDS Naturals

CONSTANTS Providers, MaxGen, Holders

Entries == Providers \X (1 .. MaxGen)

VARIABLES
    phase,    \* life of each entry
    forced,   \* the entries retired by a force disconnect
    held      \* who holds a lease on each entry

vars == <<phase, forced, held>>

Pooled(p) == {e \in Entries : e[1] = p /\ phase[e] = "pooled"}

Init ==
    /\ phase \in [Entries -> {"unborn", "pooled"}]
    /\ \A e, f \in Entries :
            phase[e] = "pooled" /\ phase[f] = "pooled" /\ e[1] = f[1] => e = f
    /\ forced = {}
    /\ held = [e \in Entries |-> {}]

Register(e) ==
    /\ phase[e] = "unborn"
    /\ Pooled(e[1]) = {}
    /\ phase' = [phase EXCEPT ![e] = "pooled"]
    /\ UNCHANGED <<forced, held>>

Acquire(h, e) ==
    /\ phase[e] = "pooled"
    /\ \A f \in Entries : h \notin held[f]
    /\ held' = [held EXCEPT ![e] = @ \cup {h}]
    /\ UNCHANGED <<phase, forced>>

Release(h, e) ==
    /\ h \in held[e]
    /\ held' = [held EXCEPT ![e] = @ \ {h}]
    /\ UNCHANGED <<phase, forced>>

Retire(e) ==
    /\ phase[e] = "pooled"
    /\ phase' = [phase EXCEPT ![e] = "retired"]
    /\ forced' \in {forced, forced \cup {e}}
    /\ UNCHANGED held

Discard(e) ==
    /\ phase[e] = "retired"
    /\ e \in forced \/ held[e] = {}
    /\ phase' = [phase EXCEPT ![e] = "discarded"]
    /\ UNCHANGED <<forced, held>>

Next ==
    \E e \in Entries :
        \/ Register(e) \/ Retire(e) \/ Discard(e)
        \/ \E h \in Holders : Acquire(h, e) \/ Release(h, e)

Spec == Init /\ [][Next]_vars
=============================================================================
