---------------------------- MODULE MCAlgorithms ----------------------------
(* Instance of Algorithms for TLC: the routes of main and of the YAML file, *)
(* and requests that fit them and that do not.                              *)
EXTENDS Algorithms

(* 20:25:11 reads like the year and the month of 2025-11. *)
MCDates == {<<25, 1, 31>>, <<25, 11, 19>>}

Text(s) == <<s>>
Var(name) == <<"{", name, "}">>
Typed(name, value) == <<"{", name, ":", value, "}">>

UserPath == <<Text("api"), Text("v1"), Text("users")>>

(* The routes of main.go. *)
MCCodePaths ==
    LET Code(method, path, rewrite) ==
            [methods |-> {method}, pattern |-> path, prefix |-> <<>>,
             rewrite |-> rewrite]
    IN  <<Code("POST", UserPath, UserPath),
          Code("GET", Append(UserPath, Typed("id", "int")),
                      Append(UserPath, Var("id"))),
          Code("POST", <<Text("api"), Text("v1"), Text("orders")>>,
                       <<Text("api"), Text("v1"), Text("orders")>>)>>

(* Those of gateway.yaml, one with two variables for the order of them and  *)
(* one without path_rewrite.                                                *)
MCYamlRoutes ==
    LET Prefix(methods, prefix, rewrite) ==
            [methods |-> methods, pattern |-> <<>>, prefix |-> prefix,
             rewrite |-> rewrite]
        Pattern(methods, pattern, rewrite) ==
            [methods |-> methods, pattern |-> pattern, prefix |-> <<>>,
             rewrite |-> rewrite]
    IN  <<Prefix({"POST", "PUT"}, <<Text("save"), Text("user")>>,
                 <<Text("v1"), Text("session"), Text("save")>>),
          Pattern({"GET"}, <<Text("get"), Text("user"), Var("field")>>,
                  <<Text("v1"), Text("session"), Text("find"), Text("field")>>),
          Prefix({"GET"}, <<Text("api"), Text("update")>>,
                 <<Text("v1"), Text("update")>>),
          Prefix({"POST", "PUT"}, <<Text("api"), Text("refresh")>>,
                 <<Text("v1"), Text("refresh")>>),
          Prefix({}, <<Text("plain")>>, <<>>),
          Pattern({}, <<Text("pair"), Var("a"), Var("b")>>,
                  <<Text("pair"), Var("b"), Var("a"), Var("c")>>)>>

Values == {Text("7"), Text("me"), <<"a", " ", "b">>, Var("a"), Var("b"),
           Typed("id", "7"), Typed("id", "me")}

MCRequests ==
    [method : {"GET", "POST"},
     path : {UserPath, <<Text("api"), Text("v1"), Text("orders")>>,
             <<Text("api"), <<"update", "s">>>>,
             <<Text("api"), Text("refresh"), Text("me")>>,
             <<Text("save"), Text("user")>>, <<Text("plain")>>,
             <<Text("other")>>}
         \cup {Append(UserPath, v) : v \in Values}
         \cup {<<Text("get"), Text("user"), v>> : v \in Values}
         \cup {<<Text("pair"), v, w>> : v, w \in Values}]

=============================================================================
