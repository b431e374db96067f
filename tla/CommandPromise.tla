--------------------------- MODULE CommandPromise ---------------------------
(***************************************************************************)
(* What the command queue promises a sender, without tokens, polls, batches *)
(* or asynchronous writes: a command is asked once, waits, is taken by      *)
(* somebody, runs at most once and only while it is taken, and is answered  *)
(* once, for good. A command that is answered unrun was lost, never queued  *)
(* again.                                                                   *)
(***************************************************************************)
EXTENDS Naturals

CONSTANT Commands

VARIABLES phase, runs

vars == <<phase, runs>>

Init ==
    /\ phase = [c \in Commands |-> "unasked"]
    /\ runs = [c \in Commands |-> 0]

Ask(c) ==
    /\ phase[c] = "unasked"
    /\ phase' = [phase EXCEPT ![c] = "waiting"]
    /\ UNCHANGED runs

Take(c) ==
    /\ phase[c] = "waiting"
    /\ phase' = [phase EXCEPT ![c] = "taken"]
    /\ UNCHANGED runs

Run(c) ==
    /\ phase[c] = "taken"
    /\ runs[c] = 0
    /\ runs' = [runs EXCEPT ![c] = 1]
    /\ UNCHANGED phase

Answer(c) ==
    /\ phase[c] \in {"waiting", "taken"}
    /\ phase' = [phase EXCEPT ![c] = "answered"]
    /\ UNCHANGED runs

Next == \E c \in Commands : Ask(c) \/ Take(c) \/ Run(c) \/ Answer(c)

Spec == Init /\ [][Next]_vars

=============================================================================
