----------------------------- MODULE MCPublisher -----------------------------
(* Instance of Publisher for TLC.  Handlers behave alike, so permuting      *)
(* them is a symmetry; it is used for the runs without liveness only.       *)
EXTENDS Publisher, TLC

HandlerSymmetry == Permutations(Handlers)

=============================================================================
