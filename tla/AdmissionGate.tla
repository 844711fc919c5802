---------------------------- MODULE AdmissionGate ----------------------------
(***************************************************************************)
(* What a circuit breaker promises to the upstream it protects, without    *)
(* any word on how failures are counted or what a probe is: while the gate *)
(* blocks, the upstream has a pause of Pause ticks after every failure     *)
(* that shut it, and sees at most one request in any Pause ticks.          *)
(***************************************************************************)
EXTENDS Naturals

CONSTANTS Requests,   \* requests that may be under way at the same time
          Pause       \* length of the pause, in clock ticks

VARIABLES inside,     \* requests that were let through and still run
          mode,       \* "pass" or "block"
          wait        \* ticks until a blocking gate may let one through

vars == <<inside, mode, wait>>

Init ==
    /\ inside = {}
    /\ mode = "pass"
    /\ wait = 0

Enter(r) ==
    /\ r \notin inside
    /\ inside' = inside \cup {r}
    /\ \/ mode = "pass" /\ UNCHANGED wait
       \/ mode = "block" /\ wait = 0 /\ wait' = Pause
    /\ UNCHANGED mode

(* The end of a request may shut the gate, which starts a pause, or open   *)
(* it, or leave it as it is.                                               *)
Leave(r) ==
    /\ r \in inside
    /\ inside' = inside \ {r}
    /\ \/ UNCHANGED <<mode, wait>>
       \/ mode' = "block" /\ wait' = Pause
       \/ mode' = "pass" /\ wait' = 0

Tick ==
    /\ wait > 0
    /\ wait' = wait - 1
    /\ UNCHANGED <<inside, mode>>

Next ==
    \/ \E r \in Requests : Enter(r) \/ Leave(r)
    \/ Tick

Spec == Init /\ [][Next]_vars

=============================================================================
