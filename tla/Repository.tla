----------------------------- MODULE Repository -----------------------------
(***************************************************************************)
(* The queries of internal/store/mariadb/mariadb.go and the tables behind  *)
(* them.  Every query is one statement outside any transaction, so it sees *)
(* the tables of the moment in which it runs, and it may fail at any time: *)
(* a lost connection, a cancelled request context, a column that is NULL.  *)
(* A query is the set of results it may return on the tables d.            *)
(*                                                                         *)
(* All requests ask for one path; another path is another row.             *)
(***************************************************************************)
EXTENDS FwHeader

CONSTANTS Apis,     \* codes of APIs the path may be registered for
          Groups,   \* codes of API groups
          GroupOf,  \* the group of an API
          NoApi     \* no row is registered for the path

ASSUME RepositoryAssumption ==
    /\ GroupOf \in [Apis -> Groups]
    /\ NoApi \notin Apis

(* The places at which the gateway may log, switched on and off by rows. *)
LogPoint == {"inbound.request", "outbound.request", "outbound.response",
             "inbound.response"}

(* A row is "controlled" while checkControlCodes refuses it. *)
Tables ==
    [path : Apis \cup {NoApi},
     apiControlled : SUBSET Apis,
     groups : [Groups -> {"open", "controlled", "missing"}],
     roles : SUBSET (Apis \X Code),
     logs : SUBSET LogPoint]

Error == "error"

(* The API registered for the path; no row is an error, too. *)
FindRequestData(d) == {Error} \cup ({d.path} \ {NoApi})

(* Is service code c allowed to use API a? *)
ExistUseAPIList(d, a, c) ==
    {Error, IF <<a, c>> \in d.roles THEN "yes" ELSE "no"}

ExistAPIGroup(d, a) ==
    {Error, CASE d.groups[GroupOf[a]] = "open" -> "yes"
              [] d.groups[GroupOf[a]] = "missing" -> "no"
              [] OTHER -> Error}

(* The path is looked up again: the row need not be the one found before.  *)
ExistAPI(d) ==
    {Error, IF d.path = NoApi THEN "no"
            ELSE IF d.path \in d.apiControlled THEN Error
            ELSE "yes"}

(* Callers ignore the error of ExistConfig, which comes with FALSE. *)
ExistConfig(d, point) == {FALSE, (point \in d.logs)}

-----------------------------------------------------------------------------
(* Somebody changes one row. *)
Toggled(S, x) == IF x \in S THEN S \ {x} ELSE S \cup {x}

Edited(d) ==
    {[d EXCEPT !.path = p] : p \in Apis \cup {NoApi}}
    \cup {[d EXCEPT !.apiControlled = Toggled(@, a)] : a \in Apis}
    \cup {[d EXCEPT !.groups[g] = s] : g \in Groups,
                                       s \in {"open", "controlled", "missing"}}
    \cup {[d EXCEPT !.roles = Toggled(@, x)] : x \in Apis \X Code}
    \cup {[d EXCEPT !.logs = Toggled(@, p)] : p \in LogPoint}

(* What the tables say in favour of forwarding a request. *)
Approval ==
    [what : {"found", "group"}, api : Apis]
        \cup [what : {"role"}, api : Apis, code : Code]
        \cup [what : {"api"}]

Found(a) == [what |-> "found", api |-> a]
Role(a, c) == [what |-> "role", api |-> a, code |-> c]
GroupOpen(a) == [what |-> "group", api |-> a]
ApiOpen == [what |-> "api"]

Approvals(d) ==
    {Found(a) : a \in {d.path} \ {NoApi}}
    \cup {Role(x[1], x[2]) : x \in d.roles}
    \cup {GroupOpen(a) : a \in {b \in Apis : d.groups[GroupOf[b]] = "open"}}
    \cup {ApiOpen : a \in {d.path} \ ({NoApi} \cup d.apiControlled)}

=============================================================================
