----------------------------- MODULE Algorithms -----------------------------
(***************************************************************************)
(* ControlCodes and Routing side by side, as both compute something for    *)
(* one input: a behaviour runs the one or the other.                       *)
(***************************************************************************)
EXTENDS Naturals, Sequences

CONSTANTS Hours, Minutes, Seconds, Dates,        \* of ControlCodes
          CodePaths, YamlRoutes, Requests, Digits \* of Routing

(* Moments are written with two digits to a number. *)
TwoDigits == 0 .. 99

ASSUME MomentsAssumption ==
    /\ Hours \cup Minutes \cup Seconds \subseteq TwoDigits
    /\ Dates \subseteq TwoDigits \X TwoDigits \X TwoDigits

(* Segments are tuples of pieces of text, and no path is empty. *)
Paths == Seq(Seq(STRING))

Tables == Seq([methods : SUBSET STRING, pattern : Paths,
               prefix : Paths, rewrite : Paths])

ASSUME PathsAssumption ==
    /\ \A r \in Requests : r.path \in Paths
    /\ CodePaths \in Tables
    /\ \A i \in DOMAIN CodePaths : CodePaths[i].pattern # <<>>
    /\ YamlRoutes \in Tables

VARIABLES ctlCd, staTim, endTim, date, clock
VARIABLES request, stage, route, params, upPath, todo

Codes == INSTANCE ControlCodes
Router == INSTANCE Routing

codes == <<ctlCd, staTim, endTim, date, clock>>
routing == <<request, stage, route, params, upPath, todo>>
algorithmVars == <<codes, routing>>

-----------------------------------------------------------------------------
(* A row without a control code, at any time. *)
NoCodes ==
    /\ ctlCd = ""
    /\ staTim = Codes!Null
    /\ endTim = Codes!Null
    /\ date \in Dates
    /\ clock \in Codes!TimeOfDay

NoRequest ==
    /\ request = [method |-> "", path |-> <<>>]
    /\ stage = "none"
    /\ route = Router!NoRoute
    /\ params = Router!NoParams
    /\ upPath = <<>>
    /\ todo = {}

AlgorithmInit ==
    \/ Codes!Init /\ NoRequest
    \/ Router!Init /\ NoCodes

AlgorithmNext ==
    \/ Codes!TimePasses /\ UNCHANGED routing
    \/ Router!Next /\ UNCHANGED codes

AlgorithmSpec == AlgorithmInit /\ [][AlgorithmNext]_algorithmVars

-----------------------------------------------------------------------------
(* Properties *)

(* With control code "08" an API is refused in its window of the day only. *)
(* The code does not keep this.                                            *)
RefusedInWindow == Codes!RefusedInWindow

(* It compares the window with the year and the month.                     *)
RefusedByMonth == Codes!RefusedByMonth

(* Typed variables of the code's routes stand for values of their types.   *)
(* The code does not keep this.                                            *)
TypedVariablesServe == Router!TypedVariablesServe

(* Its routes with variables serve only paths written with their braces.   *)
VariablesNeedBraces == Router!VariablesNeedBraces

(* The order in which Go walks over the variables does not matter.         *)
SubstitutedAtOnce == Router!SubstitutedAtOnce

=============================================================================
