------------------------------ MODULE Exchange ------------------------------
(***************************************************************************)
(* What a gateway between a client and an upstream promises the two of one *)
(* request, without any word on routes, goroutines or the reasons for a    *)
(* failure: the upstream is called at most once and only with a body it    *)
(* takes; the client is answered at most once, and the answer tells what   *)
(* became of the request.  One that was refused is never forwarded later;  *)
(* one that was acknowledged may be.                                       *)
(***************************************************************************)
EXTENDS Sequences

CONSTANTS Bodies,     \* what may be forwarded
          Refusals    \* the answers that say: this was not forwarded

VARIABLES
    acceptable,   \* the bodies that the upstream takes
    received,     \* the bodies that the upstream has got
    answers,      \* the answers that the client has got
    sized,        \* the upstream has declared the length of its answer
    body          \* how much of that answer the client has, as it sees it

vars == <<acceptable, received, answers, sized, body>>

Init ==
    /\ acceptable \subseteq Bodies
    /\ received = <<>>
    /\ answers = <<>>
    /\ sized = FALSE
    /\ body = "nothing"

Refuse ==
    /\ received = <<>> /\ answers = <<>>
    /\ \E status \in Refusals : answers' = <<status>>
    /\ UNCHANGED <<acceptable, received, sized, body>>

Acknowledge ==
    /\ received = <<>> /\ answers = <<>>
    /\ answers' = <<"202">>
    /\ UNCHANGED <<acceptable, received, sized, body>>

Call ==
    /\ received = <<>> /\ answers \in {<<>>, <<"202">>}
    /\ \E b \in acceptable : received' = <<b>>
    /\ UNCHANGED <<acceptable, answers, sized, body>>

(* This may come before the call or after it: the client cannot tell.      *)
GiveUp ==
    /\ answers = <<>>
    /\ answers' = <<"502">>
    /\ UNCHANGED <<acceptable, received, sized, body>>

(* The upstream answers; a client who has its 202 does not hear of it.     *)
Respond ==
    /\ received # <<>>
    /\ \/ answers = <<>> /\ answers' = <<"upstream">>
       \/ answers = <<"202">> /\ UNCHANGED answers
    /\ sized' \in BOOLEAN
    /\ UNCHANGED <<acceptable, received, body>>

(* A part is taken for the whole only where no length was declared.        *)
Deliver ==
    /\ answers = <<"upstream">> /\ body = "nothing"
    /\ \/ body' \in {"whole", "broken"}
       \/ ~sized /\ body' = "part"
    /\ UNCHANGED <<acceptable, received, answers, sized>>

Next == Refuse \/ Acknowledge \/ Call \/ GiveUp \/ Respond \/ Deliver

Spec == Init /\ [][Next]_vars

=============================================================================
