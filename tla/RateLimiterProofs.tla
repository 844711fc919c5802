-------------------------- MODULE RateLimiterProofs --------------------------
(***************************************************************************)
(* Proofs about RateLimiter, for any number of requests, any interval,     *)
(* burst and time limit.                                                   *)
(*                                                                         *)
(* RateBound says nothing of the tokens that waiting requests have         *)
(* reserved and will use, so it is not inductive.  What is: reserved       *)
(* tokens come Interval ticks apart (Spaced), none after the bucket has    *)
(* been refilled to zero (BeforeZero), and the meter stays below its bound *)
(* when all requests whose tokens come within d ticks have been let        *)
(* through, for every d (Bounded) and for all of them (Covered).           *)
(***************************************************************************)
EXTENDS RateLimiter, FiniteSetTheorems, TLAPS

USE LimiterAssumption DEF LimiterAssumption, RequestState

Between(a, b) == {r \in Waiting : a <= until[r] /\ until[r] <= b}

Within(d) == {r \in Waiting : until[r] <= d}

BeforeZero == \A r \in Waiting : until[r] <= -credit

Punctual == \A r \in Waiting : -Late <= until[r]

Spaced ==
    \A a, b \in Int :
        a <= b => Interval * Cardinality(Between(a, b)) <= b - a + Interval

Bounded ==
    \A d \in Nat :
        level + Interval * Cardinality(Within(d)) <= Full + Late + d

Covered == level + Interval * Cardinality(Waiting) + credit <= Full + Late

IInv == LimiterTypeOK /\ BeforeZero /\ Punctual /\ Spaced /\ Bounded /\ Covered

-----------------------------------------------------------------------------
(* Arithmetic of the bucket. *)

LEMMA FullBucket == Full \in Nat /\ Interval <= Full
  <1>1. \A b, i \in Nat \ {0} : b * i \in Nat /\ i <= b * i
    <2>1. SUFFICES ASSUME NEW b \in Nat \ {0}, NEW i \in Nat \ {0}
                   PROVE  b * i \in Nat /\ i <= b * i
      OBVIOUS
    <2>2. PICK c \in Nat : b = c + 1
      BY b - 1 \in Nat, b = (b - 1) + 1
    <2>3. (c + 1) * i = c * i + i /\ c * i \in Nat
      OBVIOUS
    <2> QED BY <2>2, <2>3
  <1> QED BY <1>1 DEF Full

LEMMA Times ==
    ASSUME NEW n \in Nat
    PROVE  Interval * n \in Nat /\ Interval * (n + 1) = Interval * n + Interval
  OBVIOUS

(* The sizes of sets of requests. *)
LEMMA Sizes ==
    ASSUME NEW S \in SUBSET Clients
    PROVE  /\ Cardinality(S) \in Nat
           /\ Interval * Cardinality(S) \in Nat
           /\ \A r \in Clients \ S :
                 Interval * Cardinality(S \cup {r})
                     = Interval * Cardinality(S) + Interval
           /\ \A r \in S :
                 Interval * Cardinality(S \ {r})
                     = Interval * Cardinality(S) - Interval
  <1>1. IsFiniteSet(S) /\ Cardinality(S) \in Nat
    BY FS_Subset, FS_CardinalityType
  <1>2. ASSUME NEW r \in Clients \ S
        PROVE  Interval * Cardinality(S \cup {r})
                   = Interval * Cardinality(S) + Interval
    <2>1. Cardinality(S \cup {r}) = Cardinality(S) + 1
      BY <1>1, FS_AddElement
    <2> QED BY <1>1, <2>1, Times
  <1>3. ASSUME NEW r \in S
        PROVE  Interval * Cardinality(S \ {r})
                   = Interval * Cardinality(S) - Interval
    <2>1. Cardinality(S \ {r}) = Cardinality(S) - 1
      BY <1>1, FS_RemoveElement
    <2>2. Cardinality(S \ {r}) \in Nat
      BY <1>1, FS_RemoveElement, FS_CardinalityType
    <2>3. Interval * Cardinality(S)
              = Interval * Cardinality(S \ {r}) + Interval
      BY <1>1, <2>1, <2>2, Times, Cardinality(S) = Cardinality(S \ {r}) + 1
    <2> QED BY <2>2, <2>3, Times
  <1> QED BY <1>1, <1>2, <1>3, Times

LEMMA SubsetSize ==
    ASSUME NEW S \in SUBSET Clients, NEW T \in SUBSET S
    PROVE  Interval * Cardinality(T) <= Interval * Cardinality(S)
  <1>1. Cardinality(T) <= Cardinality(S) /\ Cardinality(T) \in Nat
        /\ Cardinality(S) \in Nat
    BY FS_Subset, FS_CardinalityType
  <1>2. \A i, m, n \in Nat : m <= n => i * m <= i * n
    OBVIOUS
  <1> QED BY <1>1, <1>2

LEMMA NoneSize == Interval * Cardinality({}) = 0
  BY FS_EmptySet

-----------------------------------------------------------------------------
(* The invariant holds initially and is kept by every action. *)

LEMMA InitInv == LimiterInit => IInv
  <1> SUFFICES ASSUME LimiterInit
               PROVE  IInv
    OBVIOUS
  <1> USE DEF LimiterInit
  <1>1. LimiterTypeOK
    <2>1. credit \in Int /\ credit <= Full
      BY FullBucket
    <2>2. stage \in [Clients -> RequestState]
      OBVIOUS
    <2>3. until \in [Clients -> Int] /\ left \in [Clients -> Int]
      OBVIOUS
    <2> QED BY <2>1, <2>2, <2>3 DEF LimiterTypeOK
  <1>2. Waiting = {}
    BY DEF Waiting
  <1>3. BeforeZero /\ Punctual
    BY <1>2 DEF BeforeZero, Punctual
  <1>4. Spaced
    <2> SUFFICES ASSUME NEW a \in Int, NEW b \in Int, a <= b
                 PROVE  Interval * Cardinality(Between(a, b)) <= b - a + Interval
      BY DEF Spaced
    <2>1. Between(a, b) = {}
      BY <1>2 DEF Between
    <2> QED BY <2>1, NoneSize
  <1>5. Bounded
    <2>1. \A d \in Nat : Within(d) = {}
      BY <1>2 DEF Within
    <2> QED BY <2>1, NoneSize, FullBucket DEF Bounded
  <1>6. Covered
    BY <1>2, NoneSize, FullBucket DEF Covered
  <1> QED BY <1>1, <1>3, <1>4, <1>5, <1>6 DEF IInv

(* A request that neither waits nor begins to leaves the reserved tokens   *)
(* as they are.                                                            *)
LEMMA SameWaiting ==
    ASSUME LimiterTypeOK, NEW r \in Clients, NEW s \in RequestState \ {"waiting"},
           stage[r] # "waiting", Enter(r, s), UNCHANGED until
    PROVE  /\ Waiting' = Waiting
           /\ stage' \in [Clients -> RequestState]
           /\ \A a, b \in Int : Between(a, b)' = Between(a, b)
           /\ \A d \in Nat : Within(d)' = Within(d)
  <1>1. stage' = [stage EXCEPT ![r] = s] /\ until' = until
    BY DEF Enter
  <1>2. Waiting' = Waiting
    BY <1>1 DEF Waiting, LimiterTypeOK
  <1> QED BY <1>1, <1>2 DEF Between, Within, LimiterTypeOK

LEMMA OthersKeepInv ==
    ASSUME IInv, NEW r \in Clients, NEW s \in RequestState \ {"waiting"},
           stage[r] # "waiting", Enter(r, s),
           UNCHANGED <<enabled, credit, until, left, level, forfeited>>
    PROVE  IInv'
  <1> USE DEF IInv
  <1>1. /\ Waiting' = Waiting
        /\ stage' \in [Clients -> RequestState]
        /\ \A a, b \in Int : Between(a, b)' = Between(a, b)
        /\ \A d \in Nat : Within(d)' = Within(d)
    BY SameWaiting
  <1>2. LimiterTypeOK'
    BY <1>1 DEF LimiterTypeOK, Full
  <1>3. BeforeZero' /\ Punctual'
    BY <1>1 DEF BeforeZero, Punctual
  <1>4. Spaced'
    BY <1>1 DEF Spaced
  <1>5. Bounded'
    BY <1>1 DEF Bounded, Full
  <1>6. Covered'
    BY <1>1 DEF Covered, Full
  <1> QED BY <1>2, <1>3, <1>4, <1>5, <1>6

LEMMA TakeTokenInv ==
    ASSUME IInv, NEW r \in Clients, stage[r] = "idle", TakeToken(r)
    PROVE  IInv'
  <1> USE DEF IInv
  <1>1. /\ credit' = credit - Interval /\ Interval <= credit
        /\ level' = level + Interval
        /\ until' = until /\ Full' = Full
        /\ UNCHANGED <<enabled, left, forfeited>>
        /\ credit \in Int /\ level \in Nat /\ Full \in Nat
    BY FullBucket DEF TakeToken, LimiterTypeOK, Full
  <1>2. /\ Waiting' = Waiting
        /\ stage' \in [Clients -> RequestState]
        /\ \A a, b \in Int : Between(a, b)' = Between(a, b)
        /\ \A d \in Nat : Within(d)' = Within(d)
    BY <1>1, SameWaiting DEF TakeToken
  <1>3. LimiterTypeOK'
    BY <1>1, <1>2 DEF LimiterTypeOK
  <1>4. BeforeZero' /\ Punctual'
    BY <1>1, <1>2 DEF BeforeZero, Punctual, LimiterTypeOK, Waiting
  <1>5. Spaced'
    BY <1>2 DEF Spaced
  <1>6. Covered'
    <2>1. Interval * Cardinality(Waiting) \in Nat
      BY Sizes, Waiting \subseteq Clients DEF Waiting
    <2> QED BY <1>1, <1>2, <2>1 DEF Covered
  <1>7. Bounded'
    <2> SUFFICES ASSUME NEW d \in Nat
                 PROVE  level' + Interval * Cardinality(Within(d)) <= Full + Late + d
      BY <1>1, <1>2 DEF Bounded
    <2>1. /\ Interval * Cardinality(Within(d)) <= Interval * Cardinality(Waiting)
          /\ Interval * Cardinality(Within(d)) \in Nat
          /\ Interval * Cardinality(Waiting) \in Nat
      <3>1. Waiting \in SUBSET Clients /\ Within(d) \in SUBSET Waiting
            /\ Within(d) \in SUBSET Clients
        BY DEF Waiting, Within
      <3> QED BY <3>1, Sizes, SubsetSize
    <2> QED BY <1>1, <2>1 DEF Covered
  <1> QED BY <1>3, <1>4, <1>5, <1>6, <1>7

(* A reservation: the new token comes Interval after all reserved before.  *)
LEMMA ReserveInv ==
    ASSUME IInv, NEW r \in Clients, stage[r] = "idle", Reserve(r)
    PROVE  IInv'
  <1> USE DEF IInv
  <1> DEFINE u == Interval - credit
  <1>1. /\ credit' = credit - Interval
        /\ until' = [until EXCEPT ![r] = u]
        /\ left' = [left EXCEPT ![r] = MaxWait]
        /\ stage' = [stage EXCEPT ![r] = "waiting"]
        /\ UNCHANGED <<enabled, level, forfeited>>
        /\ Full' = Full
    BY DEF Reserve, Enter, Full
  <1>2. /\ credit \in Int /\ level \in Nat /\ Full \in Nat /\ credit <= Full
        /\ u \in Int /\ 0 < u
    BY FullBucket DEF Reserve, LimiterTypeOK
  <1>3. /\ Waiting' = Waiting \cup {r} /\ r \notin Waiting
        /\ Waiting \in SUBSET Clients
        /\ until'[r] = u
        /\ \A s \in Waiting : until'[s] = until[s] /\ until[s] \in Int
        /\ \A s \in Waiting : until[s] <= u - Interval
    BY <1>1, <1>2 DEF Waiting, LimiterTypeOK, BeforeZero
  <1>4. LimiterTypeOK'
    BY <1>1, <1>2 DEF LimiterTypeOK
  <1>5. BeforeZero'
    BY <1>1, <1>2, <1>3 DEF BeforeZero
  <1>6. Punctual'
    BY <1>2, <1>3 DEF Punctual
  <1>7. Interval * Cardinality(Waiting') = Interval * Cardinality(Waiting) + Interval
        /\ Interval * Cardinality(Waiting) \in Nat
    BY <1>3, Sizes
  <1>8. Covered'
    BY <1>1, <1>2, <1>7 DEF Covered
  <1>9. Bounded'
    <2> SUFFICES ASSUME NEW d \in Nat
                 PROVE  level + Interval * Cardinality(Within(d)') <= Full + Late + d
      BY <1>1 DEF Bounded
    <2>1. CASE u <= d
      <3>1. Within(d)' \in SUBSET (Waiting') /\ Waiting' \in SUBSET Clients
            /\ Within(d)' \in SUBSET Clients
        BY <1>3 DEF Within
      <3>2. /\ Interval * Cardinality(Within(d)') <= Interval * Cardinality(Waiting')
            /\ Interval * Cardinality(Within(d)') \in Nat
        BY <3>1, SubsetSize, Sizes
      <3> QED BY <1>1, <1>2, <1>7, <2>1, <3>2 DEF Covered
    <2>2. CASE ~(u <= d)
      <3>1. Within(d)' = Within(d)
        BY <1>3, <2>2 DEF Within
      <3> QED BY <3>1 DEF Bounded
    <2> QED BY <2>1, <2>2
  <1>10. Spaced'
    <2> SUFFICES ASSUME NEW a \in Int, NEW b \in Int, a <= b
                 PROVE  Interval * Cardinality(Between(a, b)') <= b - a + Interval
      BY DEF Spaced
    <2>1. CASE a <= u /\ u <= b
      <3>1. /\ Between(a, b)' = Between(a, b) \cup {r}
            /\ Between(a, b) \in SUBSET Clients /\ r \notin Between(a, b)
        BY <1>3, <2>1 DEF Between
      <3>2. /\ Interval * Cardinality(Between(a, b)')
                  = Interval * Cardinality(Between(a, b)) + Interval
            /\ Interval * Cardinality(Between(a, b)) \in Nat
        BY <3>1, Sizes
      <3>3. CASE a <= u - Interval
        <4>1. Between(a, b) = Between(a, u - Interval)
          BY <1>2, <1>3, <2>1 DEF Between
        <4>2. Interval * Cardinality(Between(a, b)) <= u - Interval - a + Interval
          BY <1>2, <3>3, <4>1 DEF Spaced
        <4> QED BY <1>2, <2>1, <3>2, <4>2
      <3>4. CASE ~(a <= u - Interval)
        <4>1. Between(a, b) = {}
          BY <1>2, <1>3, <3>4 DEF Between
        <4> QED BY <2>1, <3>2, <4>1, NoneSize
      <3> QED BY <3>3, <3>4
    <2>2. CASE ~(a <= u /\ u <= b)
      <3>1. Between(a, b)' = Between(a, b)
        BY <1>3, <2>2 DEF Between
      <3> QED BY <3>1 DEF Spaced
    <2> QED BY <2>1, <2>2
  <1> QED BY <1>4, <1>5, <1>6, <1>8, <1>9, <1>10

(* A request that stops waiting. *)
LEMMA Fewer ==
    ASSUME LimiterTypeOK, NEW r \in Waiting, NEW s \in RequestState \ {"waiting"},
           StopWaiting(r, s)
    PROVE  /\ Waiting' = Waiting \ {r} /\ r \in Clients
           /\ stage' \in [Clients -> RequestState]
           /\ until' \in [Clients -> Int] /\ left' \in [Clients -> Int]
           /\ \A q \in Waiting \ {r} : until'[q] = until[q]
           /\ Interval * Cardinality(Waiting')
                 = Interval * Cardinality(Waiting) - Interval
           /\ Interval * Cardinality(Waiting) \in Nat
  <1>1. /\ stage' = [stage EXCEPT ![r] = s]
        /\ until' = [until EXCEPT ![r] = 0]
        /\ left' = [left EXCEPT ![r] = 0]
        /\ r \in Clients
    BY DEF StopWaiting, Enter, Waiting
  <1>2. Waiting' = Waiting \ {r}
    BY <1>1 DEF Waiting, LimiterTypeOK
  <1>3. Waiting \in SUBSET Clients
    BY DEF Waiting
  <1>4. /\ Interval * Cardinality(Waiting')
             = Interval * Cardinality(Waiting) - Interval
        /\ Interval * Cardinality(Waiting) \in Nat
    BY <1>2, <1>3, Sizes
  <1>5. /\ stage' \in [Clients -> RequestState]
        /\ until' \in [Clients -> Int] /\ left' \in [Clients -> Int]
    BY <1>1 DEF LimiterTypeOK
  <1>6. \A q \in Waiting \ {r} : until'[q] = until[q]
    BY <1>1, <1>3 DEF LimiterTypeOK
  <1> QED BY <1>1, <1>2, <1>4, <1>5, <1>6

LEMMA FewerSpaced ==
    ASSUME LimiterTypeOK, Spaced, NEW r \in Waiting,
           Waiting' = Waiting \ {r},
           \A q \in Waiting \ {r} : until'[q] = until[q]
    PROVE  Spaced'
  <1> SUFFICES ASSUME NEW a \in Int, NEW b \in Int, a <= b
               PROVE  Interval * Cardinality(Between(a, b)') <= b - a + Interval
    BY DEF Spaced
  <1>1. Between(a, b)' \in SUBSET Between(a, b) /\ Between(a, b) \in SUBSET Clients
        /\ Between(a, b)' \in SUBSET Clients
    BY DEF Between, Waiting
  <1>2. /\ Interval * Cardinality(Between(a, b)') <= Interval * Cardinality(Between(a, b))
        /\ Interval * Cardinality(Between(a, b)') \in Nat
        /\ Interval * Cardinality(Between(a, b)) \in Nat
    BY <1>1, SubsetSize, Sizes
  <1>3. Interval * Cardinality(Between(a, b)) <= b - a + Interval
    BY DEF Spaced
  <1> QED BY <1>2, <1>3

LEMMA ProceedInv ==
    ASSUME IInv, NEW r \in Clients, Proceed(r)
    PROVE  IInv'
  <1> USE DEF IInv
  <1>1. /\ r \in Waiting /\ until[r] <= 0
        /\ StopWaiting(r, "inside")
        /\ level' = level + Interval
        /\ UNCHANGED <<enabled, credit, forfeited>>
        /\ Full' = Full
        /\ credit \in Int /\ level \in Nat /\ Full \in Nat
    BY FullBucket DEF Proceed, Waiting, Full, LimiterTypeOK
  <1>2. /\ Waiting' = Waiting \ {r} /\ r \in Clients
        /\ stage' \in [Clients -> RequestState]
        /\ until' \in [Clients -> Int] /\ left' \in [Clients -> Int]
        /\ \A q \in Waiting \ {r} : until'[q] = until[q]
        /\ Interval * Cardinality(Waiting')
              = Interval * Cardinality(Waiting) - Interval
        /\ Interval * Cardinality(Waiting) \in Nat
    BY <1>1, Fewer
  <1>3. LimiterTypeOK'
    BY <1>1, <1>2 DEF LimiterTypeOK
  <1>4. BeforeZero' /\ Punctual'
    BY <1>1, <1>2 DEF BeforeZero, Punctual
  <1>5. Spaced'
    BY <1>1, <1>2, FewerSpaced
  <1>6. Covered'
    BY <1>1, <1>2 DEF Covered
  <1>7. Bounded'
    <2> SUFFICES ASSUME NEW d \in Nat
                 PROVE  level' + Interval * Cardinality(Within(d)') <= Full + Late + d
      BY <1>1 DEF Bounded
    <2>1. r \in Within(d) /\ Within(d)' = Within(d) \ {r}
          /\ Within(d) \in SUBSET Clients
      BY <1>1, <1>2 DEF Within, LimiterTypeOK, Waiting
    <2>2. /\ Interval * Cardinality(Within(d)')
                = Interval * Cardinality(Within(d)) - Interval
          /\ Interval * Cardinality(Within(d)) \in Nat
      BY <2>1, Sizes
    <2>3. level + Interval * Cardinality(Within(d)) <= Full + Late + d
      BY DEF Bounded
    <2> QED BY <1>1, <2>2, <2>3
  <1> QED BY <1>3, <1>4, <1>5, <1>6, <1>7

(* Two reserved tokens are at least Interval ticks apart. *)
LEMMA Apart ==
    ASSUME LimiterTypeOK, Spaced, NEW q \in Waiting, NEW r \in Waiting, q # r,
           until[q] <= until[r]
    PROVE  until[q] + Interval <= until[r]
  <1> DEFINE B == Between(until[q], until[r])
  <1>1. until[q] \in Int /\ until[r] \in Int
    BY DEF LimiterTypeOK, Waiting
  <1>2. Interval * Cardinality(B) <= until[r] - until[q] + Interval
    BY <1>1 DEF Spaced
  <1>3. B \in SUBSET Clients /\ {q} \in SUBSET Clients
        /\ {q} \cup {r} \in SUBSET Clients
        /\ {q} \cup {r} \in SUBSET B
    BY <1>1 DEF Between, Waiting
  <1>4. /\ Interval * Cardinality({} \cup {q}) = Interval * Cardinality({}) + Interval
        /\ Interval * Cardinality({q} \cup {r}) = Interval * Cardinality({q}) + Interval
        /\ Interval * Cardinality(B) \in Nat
    <2>1. {} \in SUBSET Clients /\ q \in Clients \ {} /\ r \in Clients \ {q}
      BY DEF Waiting
    <2> QED BY <1>3, <2>1, Sizes
  <1>5. Interval * Cardinality({q} \cup {r}) <= Interval * Cardinality(B)
    BY <1>3, SubsetSize
  <1>6. {} \cup {q} = {q}
    OBVIOUS
  <1>7. Interval * Cardinality({q} \cup {r}) = Interval + Interval
    <2>1. Interval * Cardinality({q}) = Interval * Cardinality({}) + Interval
      BY <1>4, <1>6, Zenon
    <2>2. Interval * Cardinality({q}) = 0 + Interval
      BY <2>1, NoneSize, Zenon
    <2>3. Interval * Cardinality({q} \cup {r}) = (0 + Interval) + Interval
      BY <1>4, <2>2, Zenon
    <2> QED BY <2>3, LimiterAssumption
  <1>8. Interval + Interval <= until[r] - until[q] + Interval
    <2> HIDE DEF B
    <2> QED BY <1>1, <1>2, <1>4, <1>5, <1>7
  <1> QED BY <1>1, <1>8

LEMMA ContextEndsInv ==
    ASSUME IInv, NEW r \in Clients, ContextEnds(r)
    PROVE  IInv'
  <1> USE DEF IInv
  <1> DEFINE back == Returned(r)
  <1>1. /\ r \in Waiting
        /\ StopWaiting(r, "refused")
        /\ UNCHANGED <<enabled, level>>
        /\ Full' = Full
        /\ credit \in Int /\ credit <= Full /\ level \in Nat /\ Full \in Nat
        /\ until[r] \in Int
    BY FullBucket DEF ContextEnds, Waiting, Full, LimiterTypeOK
  <1>2. back \in Int /\ 0 <= back /\ back <= Interval
    BY <1>1 DEF Returned, LastEvent, BeforeZero
  <1>3. /\ credit' \in Int /\ credit' <= Full /\ credit' <= credit + back
        /\ forfeited' \in BOOLEAN
    <2>1. /\ credit' = IF credit + back > Full THEN Full ELSE credit + back
          /\ forfeited' = (forfeited \/ back < Interval)
      BY DEF ContextEnds
    <2> HIDE DEF back
    <2> QED BY <1>1, <1>2, <2>1
  <1>4. /\ Waiting' = Waiting \ {r} /\ r \in Clients
        /\ stage' \in [Clients -> RequestState]
        /\ until' \in [Clients -> Int] /\ left' \in [Clients -> Int]
        /\ \A q \in Waiting \ {r} : until'[q] = until[q]
        /\ Interval * Cardinality(Waiting')
              = Interval * Cardinality(Waiting) - Interval
        /\ Interval * Cardinality(Waiting) \in Nat
    BY <1>1, Fewer
  <1>5. LimiterTypeOK'
    BY <1>1, <1>3, <1>4 DEF LimiterTypeOK
  <1>6. Punctual'
    BY <1>4 DEF Punctual
  <1>7. Spaced'
    BY <1>1, <1>4, FewerSpaced
  <1>8. Covered'
    <2> HIDE DEF back
    <2> QED BY <1>1, <1>2, <1>3, <1>4 DEF Covered
  <1>9. Bounded'
    <2> SUFFICES ASSUME NEW d \in Nat
                 PROVE  level + Interval * Cardinality(Within(d)') <= Full + Late + d
      BY <1>1 DEF Bounded
    <2>1. Within(d)' \in SUBSET Within(d) /\ Within(d) \in SUBSET Clients
          /\ Within(d)' \in SUBSET Clients
      BY <1>4 DEF Within, Waiting
    <2>2. /\ Interval * Cardinality(Within(d)') <= Interval * Cardinality(Within(d))
          /\ Interval * Cardinality(Within(d)') \in Nat
          /\ Interval * Cardinality(Within(d)) \in Nat
      BY <2>1, SubsetSize, Sizes
    <2>3. level + Interval * Cardinality(Within(d)) <= Full + Late + d
      BY DEF Bounded
    <2> QED BY <1>1, <2>2, <2>3
  <1>10. BeforeZero'
    <2> SUFFICES ASSUME NEW q \in Waiting \ {r}
                 PROVE  until[q] <= -credit'
      BY <1>4 DEF BeforeZero
    <2>1. until[q] \in Int /\ until[q] <= -credit /\ until[r] <= -credit
      BY <1>1 DEF BeforeZero, LimiterTypeOK, Waiting
    <2>2. CASE back = 0
      <3> HIDE DEF back
      <3> QED BY <1>1, <1>3, <2>1, <2>2
    <2>3. CASE back # 0
      <3>1. 0 <= until[r] /\ -credit - until[r] < Interval
            /\ back = Interval - (-credit - until[r])
        BY <1>1, <2>1, <2>3 DEF Returned, LastEvent
      <3>2. until[q] <= until[r] \/ until[r] <= until[q]
        BY <1>1, <2>1
      <3>3. until[q] + Interval <= until[r] \/ until[r] + Interval <= until[q]
        BY <1>1, <3>2, Apart
      <3> HIDE DEF back
      <3> QED BY <1>1, <1>3, <2>1, <3>1, <3>3
    <2> QED BY <2>2, <2>3
  <1> QED BY <1>5, <1>6, <1>7, <1>8, <1>9, <1>10

LEMMA TickInv == IInv /\ LimiterTick => IInv'
  <1> SUFFICES ASSUME IInv, LimiterTick
               PROVE  IInv'
    OBVIOUS
  <1> USE DEF IInv
  <1>1. /\ \A r \in Waiting : until[r] > -Late
        /\ Waiting' = Waiting
        /\ \A r \in Waiting : until'[r] = until[r] - 1 /\ until[r] \in Int
        /\ Full' = Full
        /\ credit \in Int /\ level \in Nat /\ Full \in Nat /\ Interval <= Full
        /\ Waiting \in SUBSET Clients
    BY FullBucket DEF LimiterTick, Waiting, Full, LimiterTypeOK
  <1>2. credit' \in Int /\ credit' <= Full /\ credit' <= credit + 1
    BY <1>1 DEF LimiterTick, LimiterTypeOK
  <1>3. /\ level' \in Nat
        /\ level' = level - 1 \/ level' = 0
    BY <1>1 DEF LimiterTick
  <1>4. LimiterTypeOK'
    <2>1. until' \in [Clients -> Int] /\ left' \in [Clients -> Int]
      BY DEF LimiterTick, LimiterTypeOK
    <2> QED BY <1>1, <1>2, <1>3, <2>1 DEF LimiterTick, LimiterTypeOK
  <1>5. BeforeZero'
    BY <1>1, <1>2 DEF BeforeZero
  <1>6. Punctual'
    BY <1>1 DEF Punctual
  <1>7. Spaced'
    <2> SUFFICES ASSUME NEW a \in Int, NEW b \in Int, a <= b
                 PROVE  Interval * Cardinality(Between(a, b)') <= b - a + Interval
      BY DEF Spaced
    <2>1. Between(a, b)' = Between(a + 1, b + 1)
      BY <1>1 DEF Between
    <2>2. Interval * Cardinality(Between(a + 1, b + 1)) <= (b + 1) - (a + 1) + Interval
      <3>1. a + 1 \in Int /\ b + 1 \in Int /\ a + 1 <= b + 1
        OBVIOUS
      <3> QED BY <3>1 DEF Spaced
    <2>3. (b + 1) - (a + 1) + Interval = b - a + Interval
      OBVIOUS
    <2> QED BY <2>1, <2>2, <2>3
  <1>8. Bounded'
    <2> SUFFICES ASSUME NEW d \in Nat
                 PROVE  level' + Interval * Cardinality(Within(d)') <= Full + Late + d
      BY <1>1 DEF Bounded
    <2>1. CASE level' = level - 1
      <3>1. Within(d)' = Within(d + 1) /\ Within(d + 1) \in SUBSET Clients
        BY <1>1 DEF Within
      <3>2. level + Interval * Cardinality(Within(d + 1)) <= Full + Late + (d + 1)
        BY DEF Bounded
      <3>3. Interval * Cardinality(Within(d + 1)) \in Nat
        BY <3>1, Sizes
      <3> QED BY <1>1, <2>1, <3>1, <3>2, <3>3
    <2>2. CASE level' = 0
      <3>1. Within(d)' = Between(-Late, d)' /\ Within(d)' \in SUBSET Clients
        BY <1>1, <1>6 DEF Within, Between, Punctual
      <3>2. Interval * Cardinality(Between(-Late, d)') <= d - (-Late) + Interval
        <4>1. -Late \in Int /\ d \in Int /\ -Late <= d
          OBVIOUS
        <4> QED BY <1>7, <4>1 DEF Spaced
      <3>3. Interval * Cardinality(Within(d)') \in Nat
        BY <3>1, Sizes
      <3> QED BY <1>1, <2>2, <3>1, <3>2, <3>3
    <2> QED BY <1>3, <2>1, <2>2
  <1>9. Covered'
    <2> SUFFICES level' + Interval * Cardinality(Waiting) + credit' <= Full + Late
      BY <1>1 DEF Covered
    <2>1. Interval * Cardinality(Waiting) \in Nat
      BY <1>1, Sizes
    <2>2. CASE level' = level - 1
      BY <1>1, <1>2, <2>1, <2>2 DEF Covered
    <2>3. CASE level' = 0 /\ Waiting = {}
      BY <1>1, <1>2, <2>3, NoneSize
    <2>4. CASE level' = 0 /\ Waiting # {}
      <3>1. PICK m \in Int : m = -credit'
        <4>1. -credit' \in Int
          BY <1>2
        <4> QED BY <4>1
      <3>2. Waiting' = Between(-Late, m)'
        BY <1>1, <1>5, <1>6, <3>1 DEF Between, BeforeZero, Punctual
      <3>3. -Late <= m
        <4>1. PICK r \in Waiting : TRUE
          BY <2>4
        <4>2. -Late <= until'[r] /\ until'[r] <= m /\ until'[r] \in Int
          BY <1>1, <1>5, <1>6, <3>1 DEF BeforeZero, Punctual
        <4> QED BY <3>1, <4>2
      <3>4. Interval * Cardinality(Between(-Late, m)') <= m - (-Late) + Interval
        <4>1. -Late \in Int
          OBVIOUS
        <4> QED BY <1>7, <3>3, <4>1 DEF Spaced
      <3> QED BY <1>1, <1>2, <2>1, <2>4, <3>1, <3>2, <3>4
    <2> QED BY <1>3, <2>2, <2>3, <2>4
  <1> QED BY <1>4, <1>5, <1>6, <1>7, <1>8, <1>9

LEMMA NextInv == IInv /\ [LimiterNext]_limiterVars => IInv'
  <1> SUFFICES ASSUME IInv, [LimiterNext]_limiterVars
               PROVE  IInv'
    OBVIOUS
  <1>1. CASE LimiterTick
    BY <1>1, TickInv
  <1>2. ASSUME NEW r \in Clients, stage[r] = "idle", TakeToken(r)
        PROVE  IInv'
    BY <1>2, TakeTokenInv
  <1>3. ASSUME NEW r \in Clients, NEW s \in RequestState \ {"waiting"},
               stage[r] # "waiting", Enter(r, s),
               UNCHANGED <<enabled, credit, until, left, level, forfeited>>
        PROVE  IInv'
    BY <1>3, OthersKeepInv
  <1>4. ASSUME NEW r \in Clients, PassThrough(r)
        PROVE  IInv'
    BY <1>3, <1>4 DEF PassThrough
  <1>5. ASSUME NEW r \in Clients, stage[r] = "idle", Refuse(r)
        PROVE  IInv'
    BY <1>3, <1>5 DEF Refuse
  <1>6. ASSUME NEW r \in Clients, AllowNow(r)
        PROVE  IInv'
    BY <1>2, <1>5, <1>6 DEF AllowNow
  <1>7. ASSUME NEW r \in Clients, Wait(r)
        PROVE  IInv'
    BY <1>2, <1>5, <1>7, ReserveInv DEF Wait
  <1>8. ASSUME NEW r \in Clients, WaitOfNobody(r)
        PROVE  IInv'
    BY <1>5, <1>8 DEF WaitOfNobody
  <1>9. ASSUME NEW r \in Clients, Proceed(r)
        PROVE  IInv'
    BY <1>9, ProceedInv
  <1>10. ASSUME NEW r \in Clients, ContextEnds(r)
         PROVE  IInv'
    BY <1>10, ContextEndsInv
  <1>11. ASSUME NEW r \in Clients, Again(r)
         PROVE  IInv'
    BY <1>3, <1>11 DEF Again
  <1>12. CASE UNCHANGED limiterVars
    BY <1>12 DEF limiterVars, IInv, LimiterTypeOK, BeforeZero, Punctual, Spaced, Bounded,
       Covered, Waiting, Between, Within, Full
  <1> QED BY <1>1, <1>4, <1>6, <1>7, <1>8, <1>9, <1>10, <1>11, <1>12 DEF LimiterNext

-----------------------------------------------------------------------------
LEMMA Invariance == LimiterSpec => []IInv
  BY InitInv, NextInv, PTL DEF LimiterSpec

(* The bucket never holds more than it may, and every variable keeps its   *)
(* type, for any burst and interval.                                       *)
THEOREM TypeCorrect == LimiterSpec => []LimiterTypeOK
  <1>1. IInv => LimiterTypeOK
    BY DEF IInv
  <1> QED BY <1>1, Invariance, PTL

(* In any w ticks the next handler gets at most Burst + (w + Late) /       *)
(* Interval requests, whoever waits, leaves or is refused.                 *)
THEOREM RateBoundCorrect == LimiterSpec => []RateBound
  <1>1. IInv => RateBound
    <2> SUFFICES ASSUME IInv
                 PROVE  RateBound
      OBVIOUS
    <2>1. level + Interval * Cardinality(Within(0)) <= Full + Late + 0
      BY DEF IInv, Bounded
    <2>2. Interval * Cardinality(Within(0)) \in Nat
      BY Sizes, Within(0) \in SUBSET Clients DEF Within, Waiting
    <2> QED BY <2>1, <2>2, FullBucket DEF RateBound, IInv, LimiterTypeOK
  <1> QED BY <1>1, Invariance, PTL

(* Nobody is refused while the bucket has been used for less than it       *)
(* allows, unless a cancelled reservation has not been returned.           *)
THEOREM RefusalIsJustCorrect == LimiterSpec => []RefusalIsJust
  <1>1. LimiterInit => RefusalIsJust
    <2>1. LimiterInit => Waiting = {}
      BY DEF LimiterInit, Waiting
    <2> QED BY <2>1, NoneSize, FullBucket DEF LimiterInit, RefusalIsJust
  <1>2. LimiterTypeOK /\ BeforeZero /\ RefusalIsJust /\ [LimiterNext]_limiterVars
          => RefusalIsJust'
    <2> SUFFICES ASSUME LimiterTypeOK, BeforeZero, RefusalIsJust,
                        [LimiterNext]_limiterVars
                 PROVE  RefusalIsJust'
      OBVIOUS
    <2> DEFINE W == Interval * Cardinality(Waiting)
    <2>1. /\ credit \in Int /\ credit <= Full /\ level \in Nat
          /\ Full \in Nat /\ Full' = Full
          /\ W \in Nat
      BY FullBucket, Sizes, Waiting \in SUBSET Clients DEF LimiterTypeOK, Waiting, Full
    <2>2. CASE LimiterTick
      <3>1. /\ level' = (IF level > 0 THEN level - 1 ELSE 0)
            /\ credit' = (IF credit < Full THEN credit + 1 ELSE Full)
            /\ forfeited' = forfeited /\ W' = W
        BY <2>2 DEF LimiterTick, Waiting
      <3> QED BY <2>1, <3>1 DEF RefusalIsJust
    <2>3. ASSUME NEW r \in Clients, stage[r] = "idle", TakeToken(r)
          PROVE  RefusalIsJust'
      <3>1. /\ level' = level + Interval /\ credit' = credit - Interval
            /\ forfeited' = forfeited /\ W' = W
        BY <2>3, SameWaiting DEF TakeToken
      <3> QED BY <2>1, <3>1 DEF RefusalIsJust
    <2>4. ASSUME NEW r \in Clients, stage[r] = "idle", Reserve(r)
          PROVE  RefusalIsJust'
      <3>1. Waiting' = Waiting \cup {r} /\ r \in Clients \ Waiting
            /\ Waiting \in SUBSET Clients
        BY <2>4 DEF Reserve, Enter, Waiting, LimiterTypeOK
      <3>2. W' = W + Interval
        BY <3>1, Sizes
      <3>3. /\ credit' = credit - Interval
            /\ level' = level /\ forfeited' = forfeited
        BY <2>4 DEF Reserve
      <3> QED BY <2>1, <3>2, <3>3 DEF RefusalIsJust
    <2>5. ASSUME NEW r \in Clients, Proceed(r)
          PROVE  RefusalIsJust'
      <3>1. r \in Waiting
        BY <2>5 DEF Proceed, Waiting
      <3>2. W' = W - Interval
        BY <2>5, <3>1, Fewer DEF Proceed
      <3>3. /\ level' = level + Interval
            /\ credit' = credit /\ forfeited' = forfeited
        BY <2>5 DEF Proceed
      <3> QED BY <2>1, <3>2, <3>3 DEF RefusalIsJust
    <2>6. ASSUME NEW r \in Clients, ContextEnds(r)
          PROVE  RefusalIsJust'
      <3>1. r \in Waiting
        BY <2>6 DEF ContextEnds, Waiting
      <3>2. W' = W - Interval /\ W' \in Int
        BY <2>1, <2>6, <3>1, Fewer DEF ContextEnds
      <3>3. /\ level' = level
            /\ forfeited' = (forfeited \/ Returned(r) < Interval)
            /\ credit' = IF credit + Returned(r) > Full THEN Full
                         ELSE credit + Returned(r)
        BY <2>6 DEF ContextEnds
      <3>4. Returned(r) \in Int /\ Returned(r) <= Interval
            /\ (Returned(r) = Interval => credit <= 0)
        BY <2>1, <3>1 DEF Returned, LastEvent, BeforeZero, LimiterTypeOK, Waiting
      <3>5. Interval <= Full
        BY FullBucket
      <3>6. ~forfeited' => ~forfeited /\ credit' = credit + Interval
        <4>1. ~forfeited' => ~forfeited /\ ~(Returned(r) < Interval)
          BY <3>3, Zenon
        <4>2. ~(Returned(r) < Interval) => credit' = credit + Interval
          BY <2>1, <3>3, <3>4, <3>5
        <4> QED BY <4>1, <4>2
      <3>7. ~forfeited => level + W + credit >= Full
        BY DEF RefusalIsJust
      <3>8. ~forfeited' => level' + W' + credit' >= Full'
        <4> HIDE DEF W
        <4> QED BY <2>1, <3>2, <3>3, <3>6, <3>7
      <3> QED BY <3>8 DEF RefusalIsJust
    <2>7. ASSUME NEW r \in Clients, NEW s \in RequestState \ {"waiting"},
                 stage[r] # "waiting", Enter(r, s),
                 UNCHANGED <<enabled, credit, until, left, level, forfeited>>
          PROVE  RefusalIsJust'
      <3>1. W' = W
        BY <2>7, SameWaiting
      <3> QED BY <2>1, <2>7, <3>1 DEF RefusalIsJust
    <2>8. ASSUME NEW r \in Clients,
                 PassThrough(r) \/ AllowNow(r) \/ WaitOfNobody(r) \/ Again(r)
          PROVE  RefusalIsJust'
      BY <2>3, <2>7, <2>8 DEF PassThrough, AllowNow, WaitOfNobody, Again, Refuse
    <2>9. ASSUME NEW r \in Clients, Wait(r)
          PROVE  RefusalIsJust'
      BY <2>3, <2>4, <2>7, <2>9 DEF Wait, Refuse
    <2>10. CASE UNCHANGED limiterVars
      BY <2>10 DEF limiterVars, RefusalIsJust, Waiting, Full
    <2> QED BY <2>2, <2>5, <2>6, <2>8, <2>9, <2>10 DEF LimiterNext
  <1>3. IInv => LimiterTypeOK /\ BeforeZero
    BY DEF IInv
  <1> QED BY <1>1, <1>2, <1>3, Invariance, PTL DEF LimiterSpec

-----------------------------------------------------------------------------
(* No token is reserved that comes after the time limit, and reserved      *)
(* tokens are Interval apart: few requests can wait at a time.             *)
SoonEnough == \A r \in Waiting : until[r] <= MaxWait

(* However many clients there are, at most 1 + (MaxWait + Late) / Interval *)
(* goroutines wait in WaitMiddleware at a time; the rest is refused.       *)
THEOREM QueueBoundCorrect == LimiterSpec => []QueueBound
  <1>1. LimiterInit => SoonEnough
    BY DEF LimiterInit, SoonEnough, Waiting
  <1>2. LimiterTypeOK /\ SoonEnough /\ [LimiterNext]_limiterVars => SoonEnough'
    <2> SUFFICES ASSUME LimiterTypeOK, SoonEnough, [LimiterNext]_limiterVars,
                        NEW q \in Clients, stage'[q] = "waiting"
                 PROVE  until'[q] <= MaxWait
      BY DEF SoonEnough, Waiting
    <2> USE DEF LimiterTypeOK, SoonEnough, Waiting, Enter
    <2>1. CASE LimiterTick
      BY <2>1 DEF LimiterTick
    <2>2. ASSUME NEW r \in Clients,
                 PassThrough(r) \/ AllowNow(r) \/ Wait(r) \/ WaitOfNobody(r)
          PROVE  until'[q] <= MaxWait
      BY <2>2 DEF PassThrough, AllowNow, Wait, WaitOfNobody, TakeToken, Reserve,
                  Refuse
    <2>3. ASSUME NEW r \in Clients,
                 Proceed(r) \/ ContextEnds(r) \/ Again(r)
          PROVE  until'[q] <= MaxWait
      BY <2>3 DEF Proceed, ContextEnds, Again, StopWaiting
    <2>4. CASE UNCHANGED limiterVars
      BY <2>4 DEF limiterVars
    <2> QED BY <2>1, <2>2, <2>3, <2>4 DEF LimiterNext
  <1>3. IInv /\ SoonEnough => QueueBound
    <2> SUFFICES ASSUME IInv, SoonEnough
                 PROVE  QueueBound
      OBVIOUS
    <2>1. Waiting = Between(-Late, MaxWait)
      BY DEF Between, SoonEnough, IInv, Punctual
    <2>2. -Late \in Int /\ MaxWait \in Int /\ -Late <= MaxWait
      OBVIOUS
    <2>3. Interval * Cardinality(Between(-Late, MaxWait))
              <= MaxWait - (-Late) + Interval
      BY <2>2 DEF IInv, Spaced
    <2> QED BY <2>1, <2>3 DEF QueueBound
  <1> QED BY <1>1, <1>2, <1>3, TypeCorrect, Invariance, PTL DEF LimiterSpec

-----------------------------------------------------------------------------
(* RateBound in plain terms.  An observer counts the ticks and the requests *)
(* that reach the next handler since some moment, which may be any: a       *)
(* window begins with StartWindow and grows by Count.                       *)

VARIABLES ticks, admitted

Admitted == {r \in Clients : stage[r] # "inside" /\ stage'[r] = "inside"}

Action(r) ==
    \/ PassThrough(r) \/ AllowNow(r) \/ Wait(r) \/ WaitOfNobody(r)
    \/ Proceed(r) \/ ContextEnds(r) \/ Again(r)

StartWindow == LimiterNext /\ ticks' = 0 /\ admitted' = 0

Count ==
    \/ /\ LimiterTick
       /\ ticks' = ticks + 1
       /\ UNCHANGED admitted
    \/ /\ \E r \in Clients : Action(r)
       /\ admitted' = admitted + Cardinality(Admitted)
       /\ UNCHANGED ticks

WindowSpec ==
    /\ LimiterInit /\ ticks = 0 /\ admitted = 0
    /\ [][StartWindow \/ Count]_<<limiterVars, ticks, admitted>>

(* A bucket that is enabled lets Burst + (w + Late) / Interval requests in  *)
(* within w ticks, and no more.                                             *)
WindowBound == enabled => Interval * admitted <= Full + Late + ticks

(* What the meter says of the window. *)
Metered ==
    /\ ticks \in Nat /\ admitted \in Nat
    /\ enabled => Interval * admitted <= level + ticks

LEMMA NobodyAdmitted ==
    ASSUME LimiterTypeOK, NEW r \in Clients, NEW s \in RequestState \ {"inside"},
           Enter(r, s)
    PROVE  Admitted = {}
  BY DEF Admitted, Enter, LimiterTypeOK

LEMMA OneAdmitted ==
    ASSUME LimiterTypeOK, NEW r \in Clients, stage[r] # "inside", Enter(r, "inside")
    PROVE  Admitted = {r}
  BY DEF Admitted, Enter, LimiterTypeOK

(* The meter rises by Interval with every request that is let in. *)
LEMMA Rises ==
    ASSUME LimiterTypeOK, NEW r \in Clients, Action(r)
    PROVE  /\ enabled' = enabled
           /\ Cardinality(Admitted) \in Nat
           /\ enabled => level' = level + Interval * Cardinality(Admitted)
  <1>1. /\ Cardinality({}) = 0 /\ Cardinality({r}) = 1
        /\ level \in Nat /\ Interval * 0 = 0 /\ Interval * 1 = Interval
    <2>1. Cardinality({}) = 0 /\ Cardinality({r}) = 1
      BY FS_EmptySet, FS_Singleton, Zenon
    <2> QED BY <2>1 DEF LimiterTypeOK
  <1>2. CASE PassThrough(r)
    <2>1. Admitted = {r}
      BY <1>2, OneAdmitted DEF PassThrough
    <2> QED BY <1>1, <1>2, <2>1 DEF PassThrough
  <1>3. ASSUME stage[r] = "idle", TakeToken(r) \/ Refuse(r) \/ Reserve(r)
        PROVE  /\ enabled' = enabled
               /\ Cardinality(Admitted) \in Nat
               /\ level' = level + Interval * Cardinality(Admitted)
    <2>1. CASE TakeToken(r)
      <3>1. Admitted = {r}
        BY <1>3, <2>1, OneAdmitted DEF TakeToken
      <3> QED BY <1>1, <2>1, <3>1 DEF TakeToken
    <2>2. CASE Refuse(r) \/ Reserve(r)
      <3>1. Admitted = {}
        BY <2>2, NobodyAdmitted DEF Refuse, Reserve
      <3> QED BY <1>1, <2>2, <3>1 DEF Refuse, Reserve
    <2> QED BY <1>3, <2>1, <2>2
  <1>4. CASE AllowNow(r) \/ Wait(r) \/ WaitOfNobody(r)
    <2>1. stage[r] = "idle" /\ (TakeToken(r) \/ Refuse(r) \/ Reserve(r))
      BY <1>4 DEF AllowNow, Wait, WaitOfNobody
    <2> QED BY <1>3, <2>1
  <1>5. CASE Proceed(r)
    <2>1. Admitted = {r}
      BY <1>5, OneAdmitted DEF Proceed, StopWaiting
    <2> QED BY <1>1, <1>5, <2>1 DEF Proceed
  <1>6. CASE ContextEnds(r) \/ Again(r)
    <2>1. Admitted = {}
      BY <1>6, NobodyAdmitted DEF ContextEnds, Again, StopWaiting
    <2> QED BY <1>1, <1>6, <2>1 DEF ContextEnds, Again
  <1> QED BY <1>2, <1>4, <1>5, <1>6 DEF Action

(* The observer watches without interfering. *)
LEMMA WatchesSpec == WindowSpec => LimiterSpec
  <1>1. [StartWindow \/ Count]_<<limiterVars, ticks, admitted>> => [LimiterNext]_limiterVars
    BY DEF StartWindow, Count, LimiterNext, Action
  <1> QED BY <1>1, PTL DEF WindowSpec, LimiterSpec

(* In any w ticks, whenever they begin, the next handler gets at most      *)
(* Burst + (w + Late) / Interval requests: this is what RateBound amounts  *)
(* to, of any number of requests that wait, leave or are refused.          *)
THEOREM WindowTheorem == WindowSpec => []WindowBound
  <1>1. LimiterInit /\ ticks = 0 /\ admitted = 0 => Metered
    BY DEF LimiterInit, Metered
  <1>2. LimiterTypeOK /\ LimiterTypeOK' /\ Metered
        /\ [StartWindow \/ Count]_<<limiterVars, ticks, admitted>> => Metered'
    <2>1. ASSUME LimiterTypeOK', StartWindow
          PROVE  Metered'
      <3>1. /\ ticks' = 0 /\ ticks' \in Nat
            /\ admitted' = 0 /\ admitted' \in Nat
        BY <2>1 DEF StartWindow
      <3>2. level' \in Nat
        BY <2>1 DEF LimiterTypeOK
      <3>3. Interval * admitted' = 0
        BY <3>1
      <3>4. Interval * admitted' <= level' + ticks'
        <4>1. \A x, t \in Int, l \in Nat : x = 0 /\ t = 0 => x <= l + t
          OBVIOUS
        <4>2. Interval * admitted' \in Int /\ ticks' \in Int
          BY <3>1
        <4> QED BY <3>1, <3>2, <3>3, <4>1, <4>2, Zenon
      <3> QED BY <3>1, <3>4 DEF Metered
    <2>2. ASSUME LimiterTypeOK, Metered, LimiterTick, ticks' = ticks + 1, UNCHANGED admitted
          PROVE  Metered'
      BY <2>2 DEF LimiterTick, Metered, LimiterTypeOK
    <2>3. ASSUME LimiterTypeOK, Metered, NEW r \in Clients, Action(r),
                 admitted' = admitted + Cardinality(Admitted), UNCHANGED ticks
          PROVE  Metered'
      <3>1. PICK n \in Nat : n = Cardinality(Admitted)
        BY <2>3, Rises
      <3>2. PICK a \in Nat, b \in Nat :
               /\ a = Interval * admitted /\ b = Interval * n
               /\ Interval * (admitted + n) = a + b
        BY <2>3, <3>1 DEF Metered
      <3>3. enabled' = enabled /\ (enabled => level' = level + b)
        BY <2>3, <3>1, <3>2, Rises
      <3>4. enabled => a <= level + ticks
        BY <2>3, <3>2 DEF Metered
      <3>5. enabled' => a + b <= level' + ticks'
        BY <2>3, <3>2, <3>3, <3>4 DEF Metered, LimiterTypeOK
      <3> QED BY <2>3, <3>1, <3>2, <3>5 DEF Metered
    <2>4. ASSUME Metered, UNCHANGED <<limiterVars, ticks, admitted>>
          PROVE  Metered'
      BY <2>4 DEF limiterVars, Metered
    <2> QED BY <2>1, <2>2, <2>3, <2>4 DEF Count
  <1>3. Metered /\ LimiterTypeOK /\ RateBound => WindowBound
    BY FullBucket DEF Metered, LimiterTypeOK, RateBound, WindowBound
  <1> QED BY <1>1, <1>2, <1>3, WatchesSpec, TypeCorrect, RateBoundCorrect, PTL
          DEF WindowSpec

=============================================================================
