----------------------------- MODULE MCLifecycle -----------------------------
(***************************************************************************)
(* Instances of Lifecycle and Deadlines for TLC, side by side in one run:  *)
(* part says whether a behaviour is about the process or about the         *)
(* deadlines of one request that it serves, and the other one stays as it  *)
(* begins.                                                                 *)
(*                                                                         *)
(* MainPatterns is what main registers; the mux panics at the last of      *)
(* them, so without it is the list of a main that gets to serving.  The    *)
(* timeouts are those of gateway.yaml and main.go in seconds, with time    *)
(* enough for the longest proxied request.                                 *)
(***************************************************************************)
EXTENDS Lifecycle, Deadlines

MainPatterns ==
    <<"/sid/gateway/hello", "/gateway/", "/gateway", "/", "/">>

MCPatternLists == {MainPatterns, SubSeq(MainPatterns, 1, 4)}

VARIABLE part

mcVars == <<part, vars, deadlineVars>>

ProcessStep(A) == part = "process" /\ A /\ UNCHANGED <<part, deadlineVars>>
RequestStep(A) == part = "request" /\ A /\ UNCHANGED <<part, vars>>

MCInit ==
    /\ Init
    /\ DeadlineInit
    /\ \/ part = "process" /\ kind = "proxied"
       \/ part = "request" /\ kafka /\ patterns = MainPatterns

MCNext == ProcessStep(Next) \/ RequestStep(DeadlineNext)

MCSpec == MCInit /\ [][MCNext]_mcVars

(* The fairness of both. *)
MCFairSpec ==
    /\ MCSpec
    /\ WF_mcVars(ProcessStep(Main))
    /\ WF_mcVars(ProcessStep(RunLoop))
    /\ WF_mcVars(RequestStep(Handler))

=============================================================================
