-------------------------- MODULE AlgorithmsProofs --------------------------
(***************************************************************************)
(* What the algorithms compute, for all their inputs.                      *)
(***************************************************************************)
EXTENDS Algorithms, SequenceTheorems, WellFoundedInduction,
        TLAPS

(* A set of positions has a first one. *)
LEMMA FirstExists ==
    ASSUME NEW I \in SUBSET Nat, I # {}
    PROVE  Router!Min(I) \in I
<1> DEFINE R == {p \in Nat \X Nat : p[1] < p[2]}
<1>1. IsWellFoundedOn(R, Nat)
    BY NatLessThanWellFounded DEF OpToRel
<1>2. PICK m \in I : \A j \in I : ~(<<j, m>> \in R)
    BY <1>1, WFMin, Zenon
<1>3. ASSUME NEW j \in I
      PROVE  m <= j
  <2>1. <<j, m>> \in Nat \X Nat /\ <<j, m>>[1] = j /\ <<j, m>>[2] = m
    OBVIOUS
  <2>2. ~(j < m)
    BY <1>2, <2>1
  <2> QED
    BY <2>2
<1> QED
    BY <1>3 DEF Router!Min

-----------------------------------------------------------------------------
(* ControlCodes *)

(* Triples of numbers are sequences. *)
LEMMA TripleIsSeq ==
    ASSUME NEW t \in TwoDigits \X TwoDigits \X TwoDigits
    PROVE  /\ t \in Seq(Nat) /\ Len(t) = 3
           /\ t[1] \in TwoDigits /\ t[2] \in TwoDigits /\ t[3] \in TwoDigits
<1>1. PICK a \in TwoDigits, b \in TwoDigits, c \in TwoDigits : t = <<a, b, c>>
    OBVIOUS
<1>2. a \in Nat /\ b \in Nat /\ c \in Nat
    BY DEF TwoDigits
<1>3. <<a, b, c>> \in Seq(Nat) /\ Len(<<a, b, c>>) = 3
    BY <1>2
<1> QED
    BY <1>1, <1>3

LEMMA ConcatBegins ==
    ASSUME NEW s \in Seq(Nat), NEW t \in Seq(Nat)
    PROVE  /\ s \o t \in Seq(Nat)
           /\ Len(s \o t) = Len(s) + Len(t)
           /\ \A i \in 1 .. Len(s) : (s \o t)[i] = s[i]
           /\ \A i \in 1 .. Len(t) : (s \o t)[Len(s) + i] = t[i]
<1>1. /\ s \o t \in Seq(Nat)
      /\ Len(s \o t) = Len(s) + Len(t)
      /\ \A i \in 1 .. Len(s) + Len(t) :
            (s \o t)[i] = IF i <= Len(s) THEN s[i] ELSE t[i - Len(s)]
    BY ConcatProperties
<1>2. Len(s) \in Nat /\ Len(t) \in Nat
    OBVIOUS
<1> QED
    BY <1>1, <1>2

(* Strings of two lengths compare by the shorter, and if they agree so far *)
(* the shorter is less.                                                    *)
LEMMA LessByThree ==
    ASSUME NEW s \in Seq(Nat), Len(s) = 8,
           NEW t \in Seq(Nat), Len(t) = 3
    PROVE  /\ Codes!Less(s, t) <=>
                \/ s[1] < t[1]
                \/ s[1] = t[1] /\ s[2] < t[2]
                \/ s[1] = t[1] /\ s[2] = t[2] /\ s[3] < t[3]
           /\ Codes!Less(t, s) <=>
                \/ t[1] < s[1]
                \/ s[1] = t[1] /\ t[2] < s[2]
                \/ s[1] = t[1] /\ s[2] = t[2] /\ t[3] <= s[3]
<1>0. /\ s[1] \in Nat /\ s[2] \in Nat /\ s[3] \in Nat
      /\ t[1] \in Nat /\ t[2] \in Nat /\ t[3] \in Nat
  <2>1. 1 \in 1 .. Len(s) /\ 2 \in 1 .. Len(s) /\ 3 \in 1 .. Len(s)
    OBVIOUS
  <2>2. 1 \in 1 .. Len(t) /\ 2 \in 1 .. Len(t) /\ 3 \in 1 .. Len(t)
    OBVIOUS
  <2> QED
    BY <2>1, <2>2, ElementOfSeq
<1>1. DOMAIN s = 1 .. 8 /\ DOMAIN t = 1 .. 3
    OBVIOUS
<1>2. DOMAIN s \cap DOMAIN t = {1, 2, 3} /\ DOMAIN t \cap DOMAIN s = {1, 2, 3}
    BY <1>1
<1>3. /\ 1 .. 1 - 1 = {} /\ 1 .. 2 - 1 = {1} /\ 1 .. 3 - 1 = {1, 2}
    OBVIOUS
<1>4. t = SubSeq(s, 1, 3) <=> s[1] = t[1] /\ s[2] = t[2] /\ s[3] = t[3]
  <2> \A i \in 1 .. 3 : s[i] \in Nat
    BY <1>0
  <2>1. /\ SubSeq(s, 1, 3) \in Seq(Nat)
        /\ Len(SubSeq(s, 1, 3)) = 3
        /\ \A i \in 1 .. 3 : SubSeq(s, 1, 3)[i] = s[i]
    BY SubSeqProperties
  <2> QED
    BY <2>1
<1>5. Codes!Less(s, t) <=>
        \E i \in {1, 2, 3} : s[i] < t[i] /\ \A j \in 1 .. i - 1 : s[j] = t[j]
    BY <1>2 DEF Codes!Less
<1>6. Codes!Less(t, s) <=>
        \/ s[1] = t[1] /\ s[2] = t[2] /\ s[3] = t[3]
        \/ \E i \in {1, 2, 3} : t[i] < s[i] /\ \A j \in 1 .. i - 1 : t[j] = s[j]
    BY <1>2, <1>4 DEF Codes!Less
<1> QED
    BY <1>0, <1>3, <1>5, <1>6

(* The moment begins with the century, the year and the month. *)
LEMMA NowBeginsWithDate ==
    ASSUME date \in TwoDigits \X TwoDigits \X TwoDigits,
           clock \in TwoDigits \X TwoDigits \X TwoDigits
    PROVE  /\ Codes!now \in Seq(Nat)
           /\ Len(Codes!now) = 8
           /\ Codes!now[1] = 20
           /\ Codes!now[2] = date[1]
           /\ Codes!now[3] = date[2]
<1>1. /\ date \in Seq(Nat) /\ Len(date) = 3
      /\ clock \in Seq(Nat) /\ Len(clock) = 3
    BY TripleIsSeq
<1>2. /\ <<20>> \in Seq(Nat) /\ Len(<<20>>) = 1 /\ <<20>>[1] = 20
      /\ <<0>> \in Seq(Nat) /\ Len(<<0>>) = 1
    OBVIOUS
<1> DEFINE a == <<20>> \o date
<1>3. /\ a \in Seq(Nat) /\ Len(a) = 4
      /\ a[1] = 20 /\ a[2] = date[1] /\ a[3] = date[2]
  <2>1. /\ a \in Seq(Nat)
        /\ Len(a) = Len(<<20>>) + Len(date)
        /\ \A i \in 1 .. Len(<<20>>) : a[i] = <<20>>[i]
        /\ \A i \in 1 .. Len(date) : a[Len(<<20>>) + i] = date[i]
    BY <1>1, <1>2, ConcatBegins
  <2> HIDE DEF a
  <2> QED
    BY <1>1, <1>2, <2>1
<1> DEFINE b == a \o clock
<1>4. /\ b \in Seq(Nat) /\ Len(b) = 7
      /\ b[1] = a[1] /\ b[2] = a[2] /\ b[3] = a[3]
  <2> HIDE DEF a
  <2>1. /\ b \in Seq(Nat)
        /\ Len(b) = Len(a) + Len(clock)
        /\ \A i \in 1 .. Len(a) : b[i] = a[i]
    BY <1>1, <1>3, ConcatBegins
  <2> HIDE DEF b
  <2> QED
    BY <1>1, <1>3, <2>1
<1> DEFINE c == b \o <<0>>
<1>5. /\ c \in Seq(Nat) /\ Len(c) = 8
      /\ c[1] = b[1] /\ c[2] = b[2] /\ c[3] = b[3]
  <2> HIDE DEF b
  <2>1. /\ c \in Seq(Nat)
        /\ Len(c) = Len(b) + Len(<<0>>)
        /\ \A i \in 1 .. Len(b) : c[i] = b[i]
    BY <1>2, <1>4, ConcatBegins
  <2>2. Len(c) = 8 /\ 1 \in 1 .. Len(b) /\ 2 \in 1 .. Len(b) /\ 3 \in 1 .. Len(b)
    BY <1>2, <1>4, <2>1
  <2> HIDE DEF c
  <2> QED
    BY <2>1, <2>2
<1>6. Codes!now = c
    BY DEF Codes!now
<1> HIDE DEF a, b, c
<1> QED
    BY <1>3, <1>4, <1>5, <1>6

(* With two digits to a number, the order by number is that of the digits. *)
LEMMA WindowIsYearMonth ==
    ASSUME NEW t \in TwoDigits \X TwoDigits \X TwoDigits,
           date \in TwoDigits \X TwoDigits \X TwoDigits,
           clock \in TwoDigits \X TwoDigits \X TwoDigits
    PROVE  /\ Codes!Less(Codes!now, t) <=> Codes!YearMonth < Codes!Number(t)
           /\ Codes!Less(t, Codes!now) <=> Codes!Number(t) <= Codes!YearMonth
<1>1. PICK a \in TwoDigits, b \in TwoDigits, c \in TwoDigits : t = <<a, b, c>>
    OBVIOUS
<1>2. PICK y \in TwoDigits, mo \in TwoDigits, d \in TwoDigits :
         date = <<y, mo, d>>
    OBVIOUS
<1>0. a \in 0 .. 99 /\ b \in 0 .. 99 /\ c \in 0 .. 99 /\ y \in 0 .. 99 /\ mo \in 0 .. 99
    BY DEF TwoDigits
<1>3. /\ Codes!YearMonth = 10000 * 20 + 100 * y + mo
      /\ Codes!Number(t) = 10000 * a + 100 * b + c
    BY <1>1, <1>2 DEF Codes!YearMonth, Codes!Number
<1> DEFINE m == Codes!now
<1>4. /\ m \in Seq(Nat) /\ Len(m) = 8
      /\ m[1] = 20 /\ m[2] = y /\ m[3] = mo
    BY <1>2, NowBeginsWithDate
<1>5. /\ t \in Seq(Nat) /\ Len(t) = 3
      /\ t[1] = a /\ t[2] = b /\ t[3] = c
    BY <1>1, TripleIsSeq
<1> HIDE DEF m
<1>6. /\ Codes!Less(m, t) <=>
            \/ 20 < a
            \/ 20 = a /\ y < b
            \/ 20 = a /\ y = b /\ mo < c
      /\ Codes!Less(t, m) <=>
            \/ a < 20
            \/ 20 = a /\ b < y
            \/ 20 = a /\ y = b /\ c <= mo
    BY <1>4, <1>5, LessByThree
<1>7. /\ Codes!YearMonth < Codes!Number(t) <=>
            \/ 20 < a
            \/ 20 = a /\ y < b
            \/ 20 = a /\ y = b /\ mo < c
      /\ Codes!Number(t) <= Codes!YearMonth <=>
            \/ a < 20
            \/ 20 = a /\ b < y
            \/ 20 = a /\ y = b /\ c <= mo
    BY <1>0, <1>3
<1> QED
    BY <1>6, <1>7, Zenon DEF m

LEMMA NumberIsInt ==
    ASSUME date \in TwoDigits \X TwoDigits \X TwoDigits
    PROVE  /\ Codes!YearMonth \in Int
           /\ \A t \in TwoDigits \X TwoDigits \X TwoDigits : Codes!Number(t) \in Int
<1>1. ASSUME NEW t \in TwoDigits \X TwoDigits \X TwoDigits
      PROVE  Codes!Number(t) \in Int
  <2>1. PICK a \in TwoDigits, b \in TwoDigits, c \in TwoDigits : t = <<a, b, c>>
    OBVIOUS
  <2>2. a \in Int /\ b \in Int /\ c \in Int
    BY DEF TwoDigits
  <2> QED
    BY <2>1, <2>2 DEF Codes!Number
<1>2. PICK y \in TwoDigits, mo \in TwoDigits, d \in TwoDigits :
         date = <<y, mo, d>>
    OBVIOUS
<1>3. y \in Int /\ mo \in Int
    BY DEF TwoDigits
<1>4. Codes!YearMonth = 10000 * 20 + 100 * y + mo
    BY <1>2 DEF Codes!YearMonth, Codes!Number
<1> QED
    BY <1>1, <1>3, <1>4

(* The types of ControlCodes. *)
MomentsInv ==
    /\ {staTim, endTim} \subseteq Codes!TimeOfDay \cup {Codes!Null}
    /\ date \in Dates
    /\ clock \in Codes!TimeOfDay

LEMMA MomentsInvInductive == AlgorithmSpec => []MomentsInv
<1>1. AlgorithmInit => MomentsInv
    BY DEF AlgorithmInit, MomentsInv, Codes!Init, NoCodes
<1>2. MomentsInv /\ [AlgorithmNext]_algorithmVars => MomentsInv'
    BY DEF MomentsInv, AlgorithmNext, algorithmVars, codes, Codes!TimePasses, Codes!row
<1> QED
    BY <1>1, <1>2, PTL DEF AlgorithmSpec

LEMMA RefusedByMonthHolds ==
    ASSUME MomentsInv
    PROVE  RefusedByMonth
<1>1. /\ Codes!TimeOfDay \subseteq TwoDigits \X TwoDigits \X TwoDigits
      /\ date \in TwoDigits \X TwoDigits \X TwoDigits
      /\ clock \in TwoDigits \X TwoDigits \X TwoDigits
    BY MomentsAssumption DEF MomentsInv, Codes!TimeOfDay
<1>2. ASSUME ctlCd = "08", staTim # Codes!Null, endTim # Codes!Null
      PROVE  /\ ~Codes!Less(Codes!now, staTim) <=>
                    Codes!Number(staTim) <= Codes!YearMonth
             /\ ~Codes!Less(endTim, Codes!now) <=>
                    Codes!YearMonth < Codes!Number(endTim)
  <2>1. /\ staTim \in TwoDigits \X TwoDigits \X TwoDigits
        /\ endTim \in TwoDigits \X TwoDigits \X TwoDigits
    BY <1>1, <1>2 DEF MomentsInv
  <2>2. /\ Codes!Less(Codes!now, staTim) <=> Codes!YearMonth < Codes!Number(staTim)
        /\ Codes!Less(endTim, Codes!now) <=> Codes!Number(endTim) <= Codes!YearMonth
    BY <1>1, <2>1, WindowIsYearMonth, Zenon
  <2>3. /\ Codes!YearMonth \in Int
        /\ Codes!Number(staTim) \in Int
        /\ Codes!Number(endTim) \in Int
    BY <1>1, <2>1, NumberIsInt, Zenon
  <2>4. /\ Codes!Number(staTim) <= Codes!YearMonth <=>
                ~(Codes!YearMonth < Codes!Number(staTim))
        /\ Codes!YearMonth < Codes!Number(endTim) <=>
                ~(Codes!Number(endTim) <= Codes!YearMonth)
    BY <2>3
  <2> QED
    BY <2>2, <2>4, Zenon
<1> QED
    BY <1>2, Zenon DEF RefusedByMonth, Codes!RefusedByMonth, Codes!checkControlCodes,
                       Codes!InWindow

(* What mariadb.go computes, for all rows and moments, in place of the     *)
(* window of the day that its comments promise (RefusedInWindow): a window *)
(* of control code 08 is compared with the century, the year and the month *)
(* of the moment, and the hours of the day play no part in it.             *)
THEOREM WindowTheorem == AlgorithmSpec => []RefusedByMonth
<1>1. MomentsInv => RefusedByMonth
    BY RefusedByMonthHolds
<1> QED
    BY <1>1, MomentsInvInductive, PTL

-----------------------------------------------------------------------------
(* Routing: which routes serve a path *)

LEMMA FiveIsSeq ==
    ASSUME NEW S, NEW a \in S, NEW b \in S, NEW c \in S, NEW d \in S, NEW e \in S
    PROVE  <<a, b, c, d, e>> \in Seq(S)
OBVIOUS

LEMMA LenOfFunction ==
    ASSUME NEW n \in Nat, NEW f, DOMAIN f = 1 .. n, f = [i \in 1 .. n |-> f[i]]
    PROVE  Len(f) = n
OBVIOUS

LEMMA VariableIsTyped ==
    ASSUME NEW a, NEW b, NEW q, q = <<"{", a, ":", b, "}">>
    PROVE  Router!IsTyped(q)
BY DEF Router!IsTyped, Router!IsVariable

(* A segment of a code path after toPattern: SegmentMatches asks of it what *)
(* WrittenInBraces asks of the segment as it was written.                   *)
LEMMA SegmentInBraces ==
    ASSUME NEW path, NEW i \in DOMAIN path,
           NEW S, NEW s \in Seq(S)
    PROVE  Router!SegmentMatches(Router!toPattern(path)[i], s) <=>
              IF Router!IsVariable(path[i])
              THEN /\ Len(s) = 5
                   /\ s = <<"{", path[i][2], ":", s[4], "}">>
                   /\ (Router!IsTyped(path[i]) /\ path[i][4] = "int") =>
                        s[4] \in Digits
              ELSE s = path[i]
<1> DEFINE p == path[i]
           q == Router!toPattern(path)[i]
           type == IF Router!IsTyped(p) /\ p[4] \in DOMAIN Router!typeMap
                   THEN p[4] ELSE "str"
           rx == Router!typeMap[type]
<1>1. q = IF Router!IsVariable(p) THEN <<"{", p[2], ":", rx, "}">> ELSE p
    BY DEF Router!toPattern
<1>2. CASE ~Router!IsVariable(p)
    BY <1>1, <1>2 DEF Router!SegmentMatches, Router!IsTyped
<1>3. CASE Router!IsVariable(p)
  <2>1. q = <<"{", p[2], ":", rx, "}">>
    BY <1>1, <1>3
  <2>2. Router!IsTyped(q)
    BY <2>1, VariableIsTyped
  <2>3. rx = Router!typeMap.int <=> Router!IsTyped(p) /\ p[4] = "int"
    BY DEF Router!typeMap
  <2> HIDE DEF q, rx
  <2>4. q[1] = "{" /\ q[2] = p[2] /\ q[3] = ":" /\ q[4] = rx /\ q[5] = "}"
    BY <2>1
  <2>5. Router!SegmentMatches(q, s) <=>
            /\ Len(s) = 5
            /\ s[1] = "{" /\ s[2] = p[2] /\ s[3] = ":" /\ s[5] = "}"
            /\ Router!InClass(rx, s[4])
    BY <2>2, <2>4 DEF Router!SegmentMatches
  <2>6. s = <<"{", p[2], ":", s[4], "}">> <=>
            Len(s) = 5 /\ s[1] = "{" /\ s[2] = p[2] /\ s[3] = ":" /\ s[5] = "}"
    <3> DEFINE t == <<"{", p[2], ":", s[4], "}">>
               T == S \cup {"{", p[2], ":", s[4], "}"}
    <3>1. t \in Seq(T)
      BY FiveIsSeq
    <3>2. s \in Seq(T)
      BY SeqMonotonic
    <3>3. /\ Len(t) = 5
          /\ t[1] = "{" /\ t[2] = p[2] /\ t[3] = ":" /\ t[4] = s[4] /\ t[5] = "}"
      OBVIOUS
    <3> HIDE DEF t, T
    <3>4. ASSUME Len(s) = 5, s[1] = "{", s[2] = p[2], s[3] = ":", s[5] = "}"
          PROVE  s = t
      <4>1. 1 .. 5 = {1, 2, 3, 4, 5}
        OBVIOUS
      <4>2. \A j \in 1 .. Len(s) : s[j] = t[j]
        BY <3>3, <3>4, <4>1
      <4> QED
        BY <3>1, <3>2, <3>3, <3>4, <4>2, SeqEqual
    <3> QED
      BY <3>3, <3>4 DEF t
  <2>7. Router!InClass(rx, s[4]) <=>
            ((Router!IsTyped(p) /\ p[4] = "int") => s[4] \in Digits)
    BY <2>3 DEF Router!InClass
  <2>8. Router!SegmentMatches(q, s) <=>
            /\ Len(s) = 5
            /\ s = <<"{", p[2], ":", s[4], "}">>
            /\ (Router!IsTyped(p) /\ p[4] = "int") => s[4] \in Digits
    BY <2>5, <2>6, <2>7
  <2> QED
    BY <1>3, <2>8 DEF q
<1> QED
    BY <1>2, <1>3

LEMMA PatternInBraces ==
    ASSUME NEW pattern \in Paths, NEW path \in Paths
    PROVE  Router!PatternMatches(Router!toPattern(pattern), path) <=>
              Router!WrittenInBraces(pattern, path)
<1>1. /\ DOMAIN pattern = 1 .. Len(pattern) /\ Len(pattern) \in Nat
      /\ DOMAIN path = 1 .. Len(path)
    BY LenProperties DEF Paths
<1> DEFINE f == Router!toPattern(pattern)
<1>3. DOMAIN f = DOMAIN pattern /\ f = [i \in DOMAIN pattern |-> f[i]]
    BY DEF Router!toPattern
<1> HIDE DEF f
<1>4. Len(f) = Len(pattern)
    BY <1>1, <1>3, LenOfFunction
<1>2. ASSUME Len(pattern) = Len(path), NEW i \in DOMAIN path
      PROVE  Router!SegmentMatches(Router!toPattern(pattern)[i], path[i]) <=>
                IF Router!IsVariable(pattern[i])
                THEN /\ Len(path[i]) = 5
                     /\ path[i] = <<"{", pattern[i][2], ":", path[i][4], "}">>
                     /\ (Router!IsTyped(pattern[i]) /\ pattern[i][4] = "int") =>
                          path[i][4] \in Digits
                ELSE path[i] = pattern[i]
  <2>1. path[i] \in Seq(STRING) /\ i \in DOMAIN pattern
    BY <1>1, <1>2 DEF Paths
  <2> QED
    BY <2>1, SegmentInBraces
<1> QED
    BY <1>1, <1>2, <1>4 DEF Router!PatternMatches, Router!WrittenInBraces, f

(* A search of a table finds a route that matches, if there is one. *)
LEMMA MatchRouteFinds ==
    ASSUME NEW table, DOMAIN table \subseteq Nat
    PROVE  LET found == Router!MatchRoute(table)
               matching == {i \in DOMAIN table : Router!RouteMatches(table[i], request)}
           IN  \/ /\ matching # {}
                  /\ found # Router!NoRoute
                  /\ Router!RouteMatches(found, request)
                  /\ \E i \in DOMAIN table : found = table[i]
               \/ /\ matching = {}
                  /\ found = Router!NoRoute
<1> DEFINE matching == {i \in DOMAIN table : Router!RouteMatches(table[i], request)}
<1>1. ~Router!RouteMatches(Router!NoRoute, request)
    BY DEF Router!RouteMatches, Router!NoRoute, Router!PrefixMatches
<1>2. ASSUME matching # {}
      PROVE  Router!Min(matching) \in matching
    BY <1>2, FirstExists
<1>3. Router!MatchRoute(table) =
            IF matching = {} THEN Router!NoRoute ELSE table[Router!Min(matching)]
    BY DEF Router!MatchRoute
<1>4. CASE matching = {}
    BY <1>3, <1>4
<1>5. CASE matching # {}
  <2>1. PICK i \in DOMAIN table :
            /\ Router!MatchRoute(table) = table[i]
            /\ Router!RouteMatches(table[i], request)
    BY <1>2, <1>3, <1>5
  <2>2. table[i] # Router!NoRoute
    BY <1>1, <2>1
  <2> QED
    BY <1>5, <2>1, <2>2
<1> QED
    BY <1>4, <1>5

LEMMA TablesTyped ==
    /\ DOMAIN Router!CodeRoutes = DOMAIN CodePaths
    /\ DOMAIN CodePaths \subseteq Nat
    /\ DOMAIN YamlRoutes \subseteq Nat
    /\ \A i \in DOMAIN CodePaths :
          /\ CodePaths[i].pattern \in Paths
          /\ Router!CodeRoutes[i].methods = CodePaths[i].methods
          /\ Router!CodeRoutes[i].pattern = Router!toPattern(CodePaths[i].pattern)
          /\ Router!CodeRoutes[i].rewrite \in Paths
    /\ \A i \in DOMAIN YamlRoutes : YamlRoutes[i].rewrite \in Paths
<1> DEFINE Route == [methods : SUBSET STRING, pattern : Paths,
                     prefix : Paths, rewrite : Paths]
<1>1. CodePaths \in Seq(Route) /\ YamlRoutes \in Seq(Route)
    BY PathsAssumption, Zenon DEF Tables
<1> HIDE DEF Route
<1>2. /\ DOMAIN CodePaths \subseteq Nat
      /\ DOMAIN YamlRoutes \subseteq Nat
      /\ \A i \in DOMAIN CodePaths : CodePaths[i] \in Route
      /\ \A i \in DOMAIN YamlRoutes : YamlRoutes[i] \in Route
    BY <1>1
<1> QED
    BY <1>2 DEF Route, Router!CodeRoutes

(* A route of the code matches the paths written in braces. *)
LEMMA CodeRouteMatches ==
    ASSUME NEW i \in DOMAIN CodePaths, request.path \in Paths
    PROVE  Router!RouteMatches(Router!CodeRoutes[i], request) <=>
              /\ CodePaths[i].methods = {} \/ request.method \in CodePaths[i].methods
              /\ Router!WrittenInBraces(CodePaths[i].pattern, request.path)
<1> DEFINE p == CodePaths[i].pattern
<1>1. p # <<>> /\ p \in Paths
    BY PathsAssumption, TablesTyped
<1>2. Router!toPattern(p) # <<>>
  <2>1. DOMAIN p # {}
    <3>1. Len(p) \in Nat \ {0} /\ DOMAIN p = 1 .. Len(p)
      BY <1>1, EmptySeq, LenProperties DEF Paths
    <3> QED
      BY <3>1
  <2>2. DOMAIN Router!toPattern(p) = DOMAIN p
    BY DEF Router!toPattern
  <2> QED
    BY <2>1, <2>2
<1>3. Router!PatternMatches(Router!toPattern(p), request.path) <=>
            Router!WrittenInBraces(p, request.path)
    BY <1>1, PatternInBraces
<1> QED
    BY <1>2, <1>3, TablesTyped DEF Router!RouteMatches

(* What is known of the request at each stage. *)
RouteInv ==
    /\ request.path \in Paths
    /\ route.rewrite \in Paths
    /\ stage \in {"build", "replace", "sent"} => Router!RouteMatches(route, request)
    /\ stage \in {"yaml", "notFound"} =>
          \A i \in DOMAIN CodePaths :
             ~Router!RouteMatches(Router!CodeRoutes[i], request)

LEMMA RouteInvInit == AlgorithmInit => RouteInv
<1>1. <<>> \in Paths
    BY DEF Paths
<1>2. Router!NoRoute.rewrite = <<>>
    BY DEF Router!NoRoute
<1>3. CASE NoRequest
    BY <1>1, <1>2, <1>3 DEF NoRequest, RouteInv
<1>4. CASE Router!Init
    BY <1>1, <1>2, <1>4, PathsAssumption DEF Router!Init, RouteInv
<1> QED
    BY <1>3, <1>4 DEF AlgorithmInit

LEMMA RouteInvNext == RouteInv /\ [AlgorithmNext]_algorithmVars => RouteInv'
<1> SUFFICES ASSUME RouteInv, [AlgorithmNext]_algorithmVars PROVE RouteInv'
    OBVIOUS
<1>1. ASSUME NEW table, DOMAIN table \subseteq Nat,
             \A i \in DOMAIN table : table[i].rewrite \in Paths,
             NEW otherwise, Router!Find(table, otherwise)
      PROVE  /\ request' = request
             /\ route'.rewrite \in Paths
             /\ \/ stage' = "build" /\ Router!RouteMatches(route', request)
                \/ /\ stage' = otherwise
                   /\ \A i \in DOMAIN table : ~Router!RouteMatches(table[i], request)
  <2>1. <<>> \in Paths /\ Router!NoRoute.rewrite = <<>>
    BY DEF Paths, Router!NoRoute
  <2> QED
    BY <1>1, <2>1, MatchRouteFinds DEF Router!Find
<1>2. CASE Router!MatchCode
  <2>1. Router!Find(Router!CodeRoutes, "yaml")
    BY <1>2 DEF Router!MatchCode
  <2> QED
    BY <1>1, <2>1, TablesTyped DEF RouteInv
<1>3. CASE Router!MatchYaml
  <2>1. Router!Find(YamlRoutes, "notFound") /\ stage = "yaml"
    BY <1>3 DEF Router!MatchYaml
  <2> QED
    BY <1>1, <2>1, TablesTyped DEF RouteInv
<1>4. CASE Router!Build \/ Router!ReplaceNext \/ Router!Send
    BY <1>4 DEF RouteInv, Router!Build, Router!ReplaceNext, Router!Send
<1>5. CASE UNCHANGED routing
    BY <1>5 DEF RouteInv, routing
<1> QED
    BY <1>2, <1>3, <1>4, <1>5 DEF AlgorithmNext, algorithmVars, Router!Next

LEMMA RouteInvHolds == AlgorithmSpec => []RouteInv
BY RouteInvInit, RouteInvNext, PTL DEF AlgorithmSpec

(* What toPattern and compliePattern amount to, for all routes and         *)
(* requests, in place of the typed variables that the comments promise     *)
(* (TypedVariablesServe): a route of the code that has variables serves    *)
(* the paths with their braces in them and nothing else.                   *)
THEOREM BracesTheorem == AlgorithmSpec => []VariablesNeedBraces
<1>1. RouteInv => VariablesNeedBraces
    BY CodeRouteMatches DEF RouteInv, VariablesNeedBraces, Router!VariablesNeedBraces
<1> QED
    BY <1>1, RouteInvHolds, PTL

-----------------------------------------------------------------------------
(* Routing: the loop of applyPathParams *)

(* An escaped value has no brace of a variable: it is never replaced. *)
LEMMA EscapedIsNoVariable ==
    ASSUME NEW s, NEW k
    PROVE  Router!PathEscape(s) # <<"{", k, "}">>
<1> DEFINE e == Router!PathEscape(s)
<1>1. DOMAIN e = DOMAIN s
    BY DEF Router!PathEscape
<1>2. 1 \in DOMAIN s => e[1] # "{"
    BY DEF Router!PathEscape, Router!Percent
<1> HIDE DEF e
<1>3. 1 \in DOMAIN <<"{", k, "}">> /\ <<"{", k, "}">>[1] = "{"
    OBVIOUS
<1> QED
    BY <1>1, <1>2, <1>3 DEF e

(* The variables that are not in todo have been replaced, each by its own   *)
(* value.                                                                   *)
SubstInv ==
    /\ stage = "replace" =>
          /\ todo \subseteq DOMAIN params
          /\ upPath = Router!Substituted(DOMAIN params \ todo)
    /\ SubstitutedAtOnce

(* One iteration of the loop. *)
LEMMA ReplaceOne ==
    ASSUME NEW done, NEW k,
           upPath = Router!Substituted(done)
    PROVE  Router!ReplaceVariable(upPath, k) = Router!Substituted(done \cup {k})
<1> DEFINE rw == route.rewrite
           new == Router!ReplaceVariable(upPath, k)
           goal == Router!Substituted(done \cup {k})
<1>1. DOMAIN upPath = DOMAIN rw
    BY DEF Router!Substituted
<1>2. /\ new = [i \in DOMAIN rw |-> new[i]]
      /\ goal = [i \in DOMAIN rw |-> goal[i]]
    BY <1>1 DEF Router!ReplaceVariable, Router!Substituted
<1>3. ASSUME NEW i \in DOMAIN rw
      PROVE  new[i] = goal[i]
  <2>1. upPath[i] = IF \E j \in done : rw[i] = <<"{", j, "}">>
                    THEN Router!PathEscape(params[rw[i][2]]) ELSE rw[i]
    BY DEF Router!Substituted
  <2>2. goal[i] = IF \E j \in done \cup {k} : rw[i] = <<"{", j, "}">>
                  THEN Router!PathEscape(params[rw[i][2]]) ELSE rw[i]
    BY DEF Router!Substituted
  <2>3. new[i] = IF upPath[i] = <<"{", k, "}">>
                 THEN Router!PathEscape(params[k]) ELSE upPath[i]
    BY <1>1 DEF Router!ReplaceVariable
  <2> HIDE DEF new, goal, rw
  <2>4. CASE \E j \in done : rw[i] = <<"{", j, "}">>
    BY <2>1, <2>2, <2>3, <2>4, EscapedIsNoVariable
  <2>5. CASE ~ \E j \in done : rw[i] = <<"{", j, "}">>
    <3>1. CASE rw[i] = <<"{", k, "}">>
      <4>1. <<"{", k, "}">>[2] = k
        OBVIOUS
      <4> QED
        BY <2>1, <2>2, <2>3, <2>5, <3>1, <4>1, Zenon
    <3>2. CASE rw[i] # <<"{", k, "}">>
      BY <2>1, <2>2, <2>3, <2>5, <3>2
    <3> QED
      BY <3>1, <3>2
  <2> QED
    BY <2>4, <2>5
<1> HIDE DEF new, goal
<1> QED
    BY <1>2, <1>3 DEF new, goal

LEMMA SubstInvNext == RouteInv /\ SubstInv /\ [AlgorithmNext]_algorithmVars => SubstInv'
<1> SUFFICES ASSUME RouteInv, SubstInv, [AlgorithmNext]_algorithmVars PROVE SubstInv'
    OBVIOUS
<1> USE DEF SubstInv, SubstitutedAtOnce, Router!SubstitutedAtOnce
<1>1. CASE Router!MatchCode \/ Router!MatchYaml
    BY <1>1 DEF Router!MatchCode, Router!MatchYaml, Router!Find
<1>2. CASE Router!Build
  <2>1. CASE route.rewrite = <<>>
    BY <1>2, <2>1 DEF Router!Build
  <2>2. CASE route.rewrite # <<>>
    <3>1. /\ stage' = "replace" /\ upPath' = route.rewrite
          /\ todo' = DOMAIN params /\ params' = params /\ route' = route
      BY <1>2, <2>2 DEF Router!Build
    <3>2. Router!Substituted({}) = [i \in DOMAIN route.rewrite |-> route.rewrite[i]]
      BY DEF Router!Substituted
    <3>3. route.rewrite = [i \in DOMAIN route.rewrite |-> route.rewrite[i]]
      BY DEF RouteInv, Paths
    <3>4. (DOMAIN params \ todo)' = {}
      BY <3>1
    <3>5. Router!Substituted({})' = Router!Substituted({})
      BY <3>1 DEF Router!Substituted, Router!PathEscape
    <3> QED
      <4>1. upPath' = Router!Substituted({})'
        BY <3>1, <3>2, <3>3, <3>5
      <4>2. Router!Substituted((DOMAIN params \ todo)') = Router!Substituted({})
        BY <3>4
      <4>3. SubstitutedAtOnce'
        BY <3>1
      <4> QED
        BY <3>1, <3>4, <4>1, <4>3
  <2> QED
    BY <2>1, <2>2
<1>3. CASE Router!ReplaceNext
  <2>1. PICK k \in todo : /\ upPath' = Router!ReplaceVariable(upPath, k)
                          /\ todo' = todo \ {k}
    BY <1>3 DEF Router!ReplaceNext
  <2>2. /\ stage = "replace" /\ stage' = stage
        /\ params' = params /\ route' = route
    BY <1>3 DEF Router!ReplaceNext
  <2>3. DOMAIN params \ todo' = (DOMAIN params \ todo) \cup {k}
    BY <2>1, <2>2
  <2>4. upPath' = Router!Substituted(DOMAIN params \ todo')
    BY <2>1, <2>2, <2>3, ReplaceOne
  <2>5. ASSUME NEW done
        PROVE  Router!Substituted(done)' = Router!Substituted(done)
    BY <2>2 DEF Router!Substituted
  <2> QED
    BY <2>1, <2>2, <2>4, <2>5
<1>4. CASE Router!Send
  <2>1. DOMAIN params \ todo = DOMAIN params
    BY <1>4 DEF Router!Send
  <2> QED
    BY <1>4, <2>1 DEF Router!Send, Router!Substituted
<1>5. CASE UNCHANGED routing
    BY <1>5 DEF routing, Router!Substituted
<1> QED
    BY <1>1, <1>2, <1>3, <1>4, <1>5 DEF AlgorithmNext, algorithmVars, Router!Next

(* In whatever order the loop visits the variables, each is replaced by its *)
(* own value and by nothing that another value contains.                    *)
THEOREM SubstitutionTheorem == AlgorithmSpec => []SubstitutedAtOnce
<1>1. AlgorithmInit => SubstInv
    BY DEF AlgorithmInit, NoRequest, Router!Init, SubstInv, SubstitutedAtOnce,
           Router!SubstitutedAtOnce
<1>2. AlgorithmSpec => []SubstInv
    BY <1>1, RouteInvHolds, SubstInvNext, PTL DEF AlgorithmSpec
<1> QED
    BY <1>2, PTL DEF SubstInv

=============================================================================
