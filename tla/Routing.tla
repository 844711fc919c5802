------------------------------- MODULE Routing -------------------------------
(***************************************************************************)
(* Which route a request takes and which path goes upstream: toPattern of  *)
(* internal/gateway/gateway.go, compliePattern and MatchRoute of           *)
(* internal/router/router.go, BuildUpstreamPath of                         *)
(* internal/router/adapter/http/http.go.                                   *)
(*                                                                         *)
(* A path is a sequence of segments and a segment a tuple of the pieces    *)
(* that the code looks at: "users" is <<"users">>, "updates" begins with   *)
(* "update" as <<"update", "s">>, "{id:7}" is <<"{", "id", ":", "7", "}">>.*)
(* A variable fills its segment, as in every pattern of the repository.    *)
(* A route is [methods, pattern, prefix, rewrite], where <<>> is "".       *)
(***************************************************************************)
EXTENDS Naturals, Sequences, SequencesExt, FiniteSetsExt

CONSTANTS CodePaths,   \* routes of the code, with paths as main writes them
          YamlRoutes,  \* routes of gateway.yaml
          Requests,    \* of requests: [method, path]
          Digits       \* the pieces that \d+ matches

VARIABLES
    request,  \* the request
    stage,    \* "code", "yaml", "build", "replace", "sent" or "notFound"
    route,    \* the route taken, or NoRoute
    params,   \* what MatchRoute says of the variables
    upPath,   \* path of the upstream request
    todo      \* variables that applyPathParams has yet to replace

vars == <<request, stage, route, params, upPath, todo>>

NoRoute == [methods |-> {}, pattern |-> <<>>, prefix |-> <<>>, rewrite |-> <<>>]

-----------------------------------------------------------------------------
(* {name} and {name:type} *)
IsVariable(s) == Len(s) \in {3, 5} /\ s[1] = "{" /\ s[Len(s)] = "}"
IsTyped(s) == IsVariable(s) /\ Len(s) = 5

typeMap == [int |-> "\\d+", str |-> "[^/]+"]

(* Every variable gets a regular expression, that of str by default. *)
toPattern(path) ==
    [i \in DOMAIN path |->
        LET s == path[i]
            type == IF IsTyped(s) /\ s[4] \in DOMAIN typeMap THEN s[4] ELSE "str"
        IN  IF IsVariable(s) THEN <<"{", s[2], ":", typeMap[type], "}">> ELSE s]

CodeRoutes ==
    [i \in DOMAIN CodePaths |->
        [CodePaths[i] EXCEPT !.pattern = toPattern(@)]]

(* What the regular expression rx matches of a segment. *)
InClass(rx, piece) == rx = typeMap.int => piece \in Digits

(* compliePattern puts a group only for {name}.  Of {name:rx} it leaves    *)
(* the braces, the name and the colon to be matched literally.             *)
SegmentMatches(p, s) ==
    IF IsTyped(p)
    THEN /\ Len(s) = 5
         /\ \A i \in {1, 2, 3, 5} : s[i] = p[i]
         /\ InClass(p[4], s[4])
    ELSE IF IsVariable(p) THEN s # <<>> ELSE s = p

PatternMatches(pattern, path) ==
    /\ Len(pattern) = Len(path)
    /\ \A i \in DOMAIN path : SegmentMatches(pattern[i], path[i])

(* strings.HasPrefix: the last segment of the prefix may go on. *)
PrefixMatches(prefix, path) ==
    /\ prefix # <<>>
    /\ Len(prefix) <= Len(path)
    /\ \A i \in 1 .. Len(prefix) - 1 : prefix[i] = path[i]
    /\ LET last == path[Len(prefix)] IN
          IF Len(prefix) < Len(path)
          THEN prefix[Len(prefix)] = last
          ELSE IsPrefix(prefix[Len(prefix)], last)

(* A route with a pattern does not fall back to its prefix. *)
RouteMatches(rt, req) ==
    /\ rt.methods = {} \/ req.method \in rt.methods
    /\ IF rt.pattern # <<>>
       THEN PatternMatches(rt.pattern, req.path)
       ELSE PrefixMatches(rt.prefix, req.path)

(* The names of the groups and what they matched. *)
ParamsOf(rt, path) ==
    LET groups == {i \in DOMAIN rt.pattern :
                      IsVariable(rt.pattern[i]) /\ ~IsTyped(rt.pattern[i])}
    IN  [k \in {rt.pattern[i][2] : i \in groups} |->
            path[CHOOSE i \in groups : rt.pattern[i][2] = k]]

NoParams == [k \in {} |-> <<>>]

(* The first route of the table that matches. *)
MatchRoute(table) ==
    LET matching == {i \in DOMAIN table : RouteMatches(table[i], request)}
    IN  IF matching = {} THEN NoRoute ELSE table[Min(matching)]

-----------------------------------------------------------------------------
Percent == [c \in {"{", "}", " "} |->
               CASE c = "{" -> "%7B" [] c = "}" -> "%7D" [] c = " " -> "%20"]

(* Mutated form: the value is inserted as it is. *)
Unescaped(s) == s

PathEscape(s) ==
    [i \in DOMAIN s |-> IF s[i] \in DOMAIN Percent THEN Percent[s[i]] ELSE s[i]]

(* strings.ReplaceAll of {k} *)
ReplaceVariable(path, k) ==
    [i \in DOMAIN path |->
        IF path[i] = <<"{", k, "}">> THEN PathEscape(params[k]) ELSE path[i]]

-----------------------------------------------------------------------------
Init ==
    /\ request \in Requests
    /\ stage = "code"
    /\ route = NoRoute
    /\ params = NoParams
    /\ upPath = <<>>
    /\ todo = {}

(* One of the tables is searched; from the code's the YAML routes are next.*)
Find(table, otherwise) ==
    /\ route' = MatchRoute(table)
    /\ IF route' = NoRoute
       THEN stage' = otherwise /\ UNCHANGED params
       ELSE stage' = "build" /\ params' = ParamsOf(route', request.path)
    /\ UNCHANGED <<request, upPath, todo>>

MatchCode == stage = "code" /\ Find(CodeRoutes, "yaml")
MatchYaml == stage = "yaml" /\ Find(YamlRoutes, "notFound")

(* BuildUpstreamPath: without a rewrite the path stays. *)
Build ==
    /\ stage = "build"
    /\ IF route.rewrite = <<>>
       THEN upPath' = request.path /\ stage' = "sent"
       ELSE upPath' = route.rewrite /\ stage' = "replace"
    /\ todo' = DOMAIN params
    /\ UNCHANGED <<request, route, params>>

(* The loop of applyPathParams, over a Go map: any variable may be next. *)
ReplaceNext ==
    /\ stage = "replace"
    /\ \E k \in todo :
          /\ upPath' = ReplaceVariable(upPath, k)
          /\ todo' = todo \ {k}
    /\ UNCHANGED <<request, stage, route, params>>

Send ==
    /\ stage = "replace"
    /\ todo = {}
    /\ stage' = "sent"
    /\ UNCHANGED <<request, route, params, upPath, todo>>

Next == MatchCode \/ MatchYaml \/ Build \/ ReplaceNext \/ Send

Spec == Init /\ [][Next]_vars

-----------------------------------------------------------------------------
(* Properties *)

(* "Path types in the style of FastAPI: {id:int}, ...": a path that has,   *)
(* for each variable of a route of the code, a value of its type, is       *)
(* served by the code, and not left to the YAML routes or answered 404.    *)
(* The code does not keep this.                                            *)
HasItsTypes(pattern, path) ==
    /\ Len(pattern) = Len(path)
    /\ \A i \in DOMAIN path :
          LET p == pattern[i]
              s == path[i]
          IN  IF IsVariable(p)
              THEN IF IsTyped(p) /\ p[4] = "int"
                   THEN \E d \in Digits : s = <<d>>
                   ELSE s # <<>>
              ELSE s = p

TypedVariablesServe ==
    stage \in {"yaml", "notFound"} =>
        \A i \in DOMAIN CodePaths :
            ~ /\ request.method \in CodePaths[i].methods
              /\ HasItsTypes(CodePaths[i].pattern, request.path)

(* What toPattern and compliePattern amount to together instead: a route   *)
(* of the code with variables serves the paths that contain each variable  *)
(* in its braces, with a value of its type in place of the type, and no    *)
(* others.  /api/v1/users/{id:int} serves /api/v1/users/{id:7}, not        *)
(* /api/v1/users/7.                                                        *)
WrittenInBraces(pattern, path) ==
    /\ Len(pattern) = Len(path)
    /\ \A i \in DOMAIN path :
          LET p == pattern[i]
              s == path[i]
          IN  IF IsVariable(p)
              THEN /\ Len(s) = 5
                   /\ s = <<"{", p[2], ":", s[4], "}">>
                   /\ (IsTyped(p) /\ p[4] = "int") => s[4] \in Digits
              ELSE s = p

VariablesNeedBraces ==
    \A i \in DOMAIN CodePaths :
        /\ stage \in {"build", "replace", "sent"} /\ route = CodeRoutes[i] =>
            WrittenInBraces(CodePaths[i].pattern, request.path)
        /\ stage \in {"yaml", "notFound"} =>
            ~ /\ request.method \in CodePaths[i].methods
              /\ WrittenInBraces(CodePaths[i].pattern, request.path)

(* Go iterates over a map in any order, but each variable of path_rewrite  *)
(* becomes its own escaped value: a value that reads like another variable *)
(* is never taken for it.                                                  *)
Substituted(names) ==
    [i \in DOMAIN route.rewrite |->
        LET s == route.rewrite[i] IN
        IF \E k \in names : s = <<"{", k, "}">>
        THEN PathEscape(params[s[2]])
        ELSE s]

SubstitutedAtOnce ==
    stage = "sent" /\ route.rewrite # <<>> =>
        upPath = Substituted(DOMAIN params)

=============================================================================
