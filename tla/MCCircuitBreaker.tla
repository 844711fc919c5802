-------------------------- MODULE MCCircuitBreaker --------------------------
(* Instance of CircuitBreaker alone: two requests are enough for a probe to *)
(* panic while another request comes.                                       *)
EXTENDS CircuitBreaker

=============================================================================
