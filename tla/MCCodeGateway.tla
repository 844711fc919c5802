---------------------------- MODULE MCCodeGateway ----------------------------
(***************************************************************************)
(* Instances of CodeGateway and Algorithms for TLC in one run.  They share *)
(* nothing; either goes through all its inputs while the other one has an  *)
(* input of no consequence.                                                *)
(*                                                                         *)
(* The routes are those that main registers and the YAML file lists, one   *)
(* that combines both options, as the code provides for, one without       *)
(* path_rewrite, and no route at all.                                      *)
(***************************************************************************)
EXTENDS CodeGateway, MCAlgorithms

Route(table, name, validates, acks, rewrites) ==
    [table |-> table, name |-> name, validates |-> validates, acks |-> acks,
     rewrites |-> rewrites]

Users        == Route("code", "another", TRUE, FALSE, TRUE)
Orders       == Route("code", "another", FALSE, TRUE, TRUE)
CheckedAsync == Route("code", "another", TRUE, TRUE, TRUE)
SaveUser     == Route("yaml", "save-user", FALSE, FALSE, TRUE)
FindUserInfo == Route("yaml", "find-user-info", FALSE, FALSE, TRUE)
Plain        == Route("yaml", "another", FALSE, FALSE, FALSE)
NoRoute      == Route("none", "another", FALSE, FALSE, FALSE)

AllRoutes == {Users, Orders, CheckedAsync, SaveUser, FindUserInfo, Plain,
              NoRoute}

mcVars == <<vars, algorithmVars>>

HandlingStep(A) == A /\ UNCHANGED algorithmVars
AlgorithmStep(A) == A /\ UNCHANGED vars

(* What the other one rests at: a request that no route matches; no path   *)
(* to route, and the last moment of a day.                                 *)
RestingRequest ==
    req = [route |-> NoRoute, body |-> "nothing", long |-> FALSE,
           declared |-> TRUE, session |-> FALSE]

RestingAlgorithm ==
    /\ NoRequest
    /\ NoCodes
    /\ date = CHOOSE d \in Dates : TRUE
    /\ \A c \in Codes!TimeOfDay : ~Codes!Less(clock, c)

MCInit ==
    /\ Init
    /\ \/ RestingAlgorithm
       \/ RestingRequest /\ AlgorithmInit

MCNext == HandlingStep(Next) \/ AlgorithmStep(AlgorithmNext)

MCSpec == MCInit /\ [][MCNext]_mcVars

(* The fairness of CodeGateway.  No property of the algorithms needs any.  *)
MCFairSpec ==
    /\ MCSpec
    /\ WF_mcVars(HandlingStep(Handle))
    /\ \A t \in Threads : WF_mcVars(HandlingStep(Proxy(t)))

=============================================================================
