---------------------------- MODULE TurnHistory ----------------------------
(***************************************************************************)
(* What a conversation promises about its history (Host::state.messages):  *)
(* one turn at a time, a turn that ends well appends itself to the history *)
(* it began with, a turn that fails leaves no trace, and a transcript is   *)
(* loaded between turns only.                                              *)
(***************************************************************************)
EXTENDS Sequences

CONSTANTS
    Prompts,
    Loaded     \* stands for the messages of a loaded transcript

VARIABLES
    messages,   \* the turns the history holds
    in_flight,  \* the turns that are running
    lost        \* the turns that failed

Init ==
    /\ messages = <<>>
    /\ in_flight = {}
    /\ lost = {}

Begin(p) ==
    /\ in_flight = {}
    /\ in_flight' = {p}
    /\ UNCHANGED <<messages, lost>>

Complete(p) ==
    /\ in_flight = {p}
    /\ messages' = Append(messages, p)
    /\ in_flight' = {}
    /\ UNCHANGED lost

Fail(p) ==
    /\ in_flight = {p}
    /\ in_flight' = {}
    /\ lost' = lost \cup {p}
    /\ UNCHANGED messages

Load ==
    /\ in_flight = {}
    /\ messages' = <<Loaded>>
    /\ UNCHANGED <<in_flight, lost>>

Next == Load \/ \E p \in Prompts : Begin(p) \/ Complete(p) \/ Fail(p)

Spec == Init /\ [][Next]_<<messages, in_flight, lost>>
=============================================================================
