--------------------------- MODULE GatewayProofs ----------------------------
(***************************************************************************)
(* Theorems about the gateway (Gateway.tla), with their proofs: that what  *)
(* the user wrote is what is served, for any number of routes, devices and *)
(* connections; how Parse reads texts of any length; and how the command   *)
(* ends.                                                                   *)
(***************************************************************************)
EXTENDS Gateway, FiniteSetTheorems, FunctionTheorems, SequenceTheorems, TLAPS

-----------------------------------------------------------------------------
(* The places of a sequence: greatest places and their order.              *)

(* Induction on the naturals, for a set of them.                           *)
LEMMA AllNaturals ==
  ASSUME NEW S, 0 \in S, \A n \in Nat : n \in S => n + 1 \in S
  PROVE  Nat \subseteq S
<1> DEFINE Others == Nat \ S
           Intervals == {0..m : m \in Others}
<1> SUFFICES ASSUME Others # {} PROVE FALSE
  OBVIOUS
<1>1. Intervals \subseteq FiniteSubsetsOf(Nat)
  <2> SUFFICES ASSUME NEW m \in Others PROVE 0..m \in FiniteSubsetsOf(Nat)
    OBVIOUS
  <2>1. 0..m \in SUBSET Nat /\ IsFiniteSet(0..m)
    BY FS_Interval
  <2> QED
    BY <2>1 DEF FiniteSubsetsOf
<1>2. PICK X \in Intervals : \A Y \in Intervals : <<Y, X>> \notin StrictSubsetOrdering(Nat)
  <2>1. Intervals # {}
    OBVIOUS
  <2> HIDE DEF Intervals
  <2> QED
    BY <1>1, <2>1, FS_StrictSubsetOrderingWellFounded, WFMin
<1>3. PICK x \in Others : X = 0..x
  OBVIOUS
<1>4. x \in Nat /\ x - 1 \in Nat
  OBVIOUS
<1>5. <<0..(x - 1), 0..x>> \in StrictSubsetOrdering(Nat)
  <2>1. 0..(x - 1) \subseteq 0..x /\ x \in 0..x /\ x \notin 0..(x - 1)
    BY <1>4
  <2>2. 0..x \subseteq Nat
    BY <1>4
  <2> HIDE DEF Others, Intervals
  <2> QED
    BY <2>1, <2>2 DEF StrictSubsetOrdering
<1>6. x - 1 \notin Others
  BY <1>2, <1>3, <1>5
<1>7. (x - 1) + 1 \in S
  BY <1>4, <1>6
<1> QED
  BY <1>4, <1>7

(* A set of naturals that has a bound and a member has a greatest one.     *)
LEMMA GreatestExists ==
  ASSUME NEW n \in Nat, NEW I \in SUBSET (0..n), I # {}
  PROVE  Max(I) \in I /\ \A j \in I : j <= Max(I)
<1> DEFINE Found == {m \in Nat : \A J \in SUBSET (0..m) :
                        J # {} => \E x \in J : \A y \in J : x >= y}
<1>1. 0 \in Found
  <2> SUFFICES ASSUME NEW J \in SUBSET (0..0), J # {}
               PROVE  \E x \in J : \A y \in J : x >= y
    OBVIOUS
  <2>1. \A y \in J : y = 0
    OBVIOUS
  <2>2. PICK x \in J : TRUE
    OBVIOUS
  <2>3. \A y \in J : x >= y
    BY <2>1, <2>2
  <2> QED
    BY <2>3
<1>2. \A m \in Nat : m \in Found => m + 1 \in Found
  <2> TAKE m \in Nat
  <2> HAVE m \in Found
  <2> SUFFICES ASSUME NEW J \in SUBSET (0..m+1), J # {}
               PROVE  \E x \in J : \A y \in J : x >= y
    OBVIOUS
  <2>1. CASE m + 1 \in J
    BY <2>1
  <2>2. CASE m + 1 \notin J
    <3>1. J \in SUBSET (0..m)
      BY <2>2
    <3> QED
      BY <3>1
  <2> QED
    BY <2>1, <2>2
<1>3. n \in Found
  <2> HIDE DEF Found
  <2> QED
    BY <1>1, <1>2, AllNaturals
<1>4. \E x \in I : \A y \in I : x >= y
  BY <1>3
<1>5. Max(I) \in I /\ \A y \in I : Max(I) >= y
  BY <1>4 DEF Max
<1> QED
  BY <1>5

Increasing(s) == \A j, k \in DOMAIN s : j < k => s[j] < s[k]

(* The places in a finite set can be put in order.                         *)
LEMMA OrderExists ==
  ASSUME NEW n \in Nat, NEW I \in SUBSET (1..n)
  PROVE  /\ Cardinality(I) \in Nat /\ IsFiniteSet(I)
         /\ \E s \in [1..Cardinality(I) -> I] : Increasing(s)
<1> DEFINE Ordered == {m \in Nat : \A J \in SUBSET (1..m) :
                          /\ IsFiniteSet(J) /\ Cardinality(J) \in Nat
                          /\ \E s \in [1..Cardinality(J) -> J] : Increasing(s)}
<1>1. 0 \in Ordered
  <2> SUFFICES ASSUME NEW J \in SUBSET (1..0)
               PROVE  /\ IsFiniteSet(J) /\ Cardinality(J) \in Nat
                      /\ \E s \in [1..Cardinality(J) -> J] : Increasing(s)
    OBVIOUS
  <2> DEFINE s == [k \in 1..0 |-> 0]
  <2>1. J = {}
    OBVIOUS
  <2>2. IsFiniteSet(J) /\ Cardinality(J) = 0
    BY <2>1, FS_EmptySet
  <2>3. s \in [1..0 -> J]
    OBVIOUS
  <2>4. Increasing(s)
    BY DEF Increasing
  <2> HIDE DEF s
  <2>5. s \in [1..Cardinality(J) -> J]
    BY <2>2, <2>3
  <2>6. Cardinality(J) \in Nat
    BY <2>2
  <2> QED
    BY <2>2, <2>4, <2>5, <2>6, Zenon
<1>2. \A m \in Nat : m \in Ordered => m + 1 \in Ordered
  <2> TAKE m \in Nat
  <2> HAVE m \in Ordered
  <2> SUFFICES ASSUME NEW J \in SUBSET (1..m+1)
               PROVE  /\ IsFiniteSet(J) /\ Cardinality(J) \in Nat
                      /\ \E s \in [1..Cardinality(J) -> J] : Increasing(s)
    OBVIOUS
  <2> DEFINE K == J \ {m + 1}
             c == Cardinality(K)
  <2>1. K \in SUBSET (1..m)
    OBVIOUS
  <2>2. IsFiniteSet(K) /\ c \in Nat
    BY <2>1
  <2>3. PICK s \in [1..c -> K] : Increasing(s)
    BY <2>1
  <2>4. CASE m + 1 \notin J
    <3>1. J = K
      BY <2>4
    <3> QED
      BY <3>1, <2>2, <2>3
  <2>5. CASE m + 1 \in J
    <3>1. J = K \cup {m + 1} /\ m + 1 \notin K
      BY <2>5
    <3>2. IsFiniteSet(J) /\ Cardinality(J) = c + 1
      <4> HIDE DEF K, c
      <4>1. c = Cardinality(K)
        BY DEF c
      <4> QED
        BY <3>1, <2>2, <4>1, FS_AddElement
    <3> DEFINE t == [k \in 1..c+1 |-> IF k = c + 1 THEN m + 1 ELSE s[k]]
    <3>3. t \in [1..Cardinality(J) -> J]
      <4> HIDE DEF c, K
      <4>1. \A k \in 1..c+1 : t[k] \in J
        <5> SUFFICES ASSUME NEW k \in 1..c+1 PROVE t[k] \in J
          OBVIOUS
        <5>1. CASE k = c + 1
          BY <5>1, <3>1
        <5>2. CASE k # c + 1
          <6>1. k \in 1..c
            BY <5>2, <2>2
          <6> QED
            BY <5>2, <6>1, <3>1, <2>3
        <5> QED
          BY <5>1, <5>2
      <4>2. t \in [1..c+1 -> J]
        BY <4>1
      <4> QED
        BY <4>2, <3>2
    <3>4. Increasing(t)
      <4> SUFFICES ASSUME NEW j \in 1..c+1, NEW k \in 1..c+1, j < k
                   PROVE  t[j] < t[k]
        BY DEF Increasing
      <4> HIDE DEF c, K
      <4>0. j \in 1..c
        BY <2>2
      <4>1. j \in 1..c /\ s[j] \in 1..m
        BY <4>0, <2>1, <2>3
      <4>2. CASE k = c + 1
        BY <4>1, <4>2, <2>2
      <4>3. CASE k # c + 1
        BY <4>1, <4>3, <2>2, <2>3 DEF Increasing
      <4> QED
        BY <4>2, <4>3
    <3>5. Cardinality(J) \in Nat
      BY <3>2, <2>2
    <3> HIDE DEF t, Ordered
    <3> QED
      BY <3>2, <3>3, <3>4, <3>5, Zenon
  <2> QED
    BY <2>4, <2>5
<1>3. n \in Ordered
  <2> HIDE DEF Ordered
  <2> QED
    BY <1>1, <1>2, AllNaturals
<1> QED
  BY <1>3

(* InOrder lists the places of a set, each of them, and nothing else.      *)
LEMMA InOrderLists ==
  ASSUME NEW n \in Nat, NEW I \in SUBSET (1..n)
  PROVE  /\ Cardinality(I) \in Nat
         /\ InOrder(I) \in [1..Cardinality(I) -> I]
         /\ \A i \in I : \E k \in 1..Cardinality(I) : InOrder(I)[k] = i
<1> DEFINE c == Cardinality(I)
           s == InOrder(I)
<1>1. c \in Nat /\ IsFiniteSet(I)
  BY OrderExists
<1>2. s \in [1..c -> I] /\ Increasing(s)
  <2>1. \E t \in [1..c -> I] : Increasing(t)
    BY OrderExists
  <2> QED
    BY <2>1 DEF InOrder, Increasing
<1> HIDE DEF s
<1>3. \A j, k \in 1..c : s[j] = s[k] => j = k
  <2> SUFFICES ASSUME NEW j \in 1..c, NEW k \in 1..c, s[j] = s[k], j # k
               PROVE  FALSE
    OBVIOUS
  <2>1. j < k \/ k < j
    BY <1>1
  <2>2. s[j] \in 1..n /\ s[k] \in 1..n
    BY <1>2
  <2> HIDE DEF c
  <2> QED
    BY <2>1, <2>2, <1>1, <1>2 DEF Increasing
<1>4. s \in Injection(1..c, I)
  BY <1>2, <1>3, Fun_IsInj
<1>5. Cardinality(1..c) = c
  <2> HIDE DEF c
  <2> QED
    BY <1>1, FS_Interval
<1>6. s \in Surjection(1..c, I)
  <2>1. c = Cardinality(I)
    OBVIOUS
  <2> HIDE DEF c
  <2> QED
    BY <1>1, <1>4, <1>5, <2>1, FS_Injection
<1> QED
  BY <1>1, <1>2, <1>6 DEF s, Surjection

(* The last of the routes for an address is one of them.                   *)
LEMMA LastPlace ==
  ASSUME NEW s, NEW n \in Nat, DOMAIN s = 1..n, NEW listen,
         \E i \in DOMAIN s : s[i].listen = listen
  PROVE  LET last == Max({i \in DOMAIN s : s[i].listen = listen})
         IN  last \in DOMAIN s /\ s[last].listen = listen
<1> DEFINE I == {i \in DOMAIN s : s[i].listen = listen}
<1>1. I \in SUBSET (0..n) /\ I # {}
  OBVIOUS
<1>2. Max(I) \in I
  <2> HIDE DEF I
  <2> QED
    BY <1>1, GreatestExists
<1> QED
  BY <1>2

-----------------------------------------------------------------------------
(* What the user wrote: the flags, and their routes merged with the        *)
(* configuration's.                                                        *)

Given(field) == field # ""

(* A field of a flag that is not empty is one of its values.               *)
LEMMA FieldType ==
  ASSUME NEW flag \in Seq(Fields), NEW key, Given(FieldOf(flag, key))
  PROVE  FieldOf(flag, key) \in STRING
<1>0. /\ Len(flag) \in Nat /\ DOMAIN flag = 1..Len(flag)
      /\ \A i \in DOMAIN flag : flag[i] \in Fields
  OBVIOUS
<1> DEFINE I == {i \in DOMAIN flag : flag[i].key = key} \cup {0}
<1>1. I \in SUBSET (0..Len(flag)) /\ I # {} /\ Len(flag) \in Nat
  BY <1>0
<1>2. Max(I) \in I
  <2> HIDE DEF I
  <2> QED
    BY <1>1, GreatestExists
<1>3. FieldOf(flag, key) = IF Max(I) = 0 THEN "" ELSE flag[Max(I)].value
  BY Zenon DEF FieldOf
<1>4. \A i \in DOMAIN flag : flag[i].value \in STRING
  BY <1>0 DEF Fields
<1>5. Max(I) # 0 => Max(I) \in DOMAIN flag
  BY <1>2
<1> HIDE DEF I
<1>6. Max(I) # 0 /\ FieldOf(flag, key) = flag[Max(I)].value
  BY <1>3, Zenon DEF Given
<1> HIDE <1>3
<1> QED
  BY <1>4, <1>5, <1>6

(* Each flag is read as one route, whose listen and device are its fields. *)
LEMMA FlagRoutes ==
  ASSUME NEW flags \in Seq(Seq(Fields)), NEW routes \in ParseRouteFlags(flags)
  PROVE  /\ routes \in Seq(Routes) /\ DOMAIN routes = DOMAIN flags
         /\ \A i \in DOMAIN flags :
               /\ ParseRouteFlag(flags[i]) = {routes[i]}
               /\ routes[i].listen = FieldOf(flags[i], "listen")
               /\ routes[i].device = FieldOf(flags[i], "device")
<1> DEFINE Route(i) == [listen |-> FieldOf(flags[i], "listen"),
                        device |-> FieldOf(flags[i], "device"),
                        target |-> FieldOf(flags[i], "target")]
<1>1. \A i \in DOMAIN flags : ParseRouteFlag(flags[i]) # {}
  BY DEF ParseRouteFlags
<1>2. routes = [i \in DOMAIN flags |-> CHOOSE r \in ParseRouteFlag(flags[i]) : TRUE]
  BY <1>1 DEF ParseRouteFlags
<1>3. ASSUME NEW i \in DOMAIN flags
      PROVE  /\ ParseRouteFlag(flags[i]) = {Route(i)} /\ routes[i] = Route(i)
             /\ Complete(Route(i))
  <2>1. ParseRouteFlag(flags[i]) = {Route(i)} /\ Complete(Route(i))
    BY <1>1 DEF ParseRouteFlag
  <2>2. routes[i] = CHOOSE r \in {Route(i)} : TRUE
    BY <1>2, <2>1
  <2> HIDE DEF Route
  <2> QED
    BY <2>1, <2>2
<1>4. \A i \in DOMAIN flags : Route(i) \in Routes
  <2> TAKE i \in DOMAIN flags
  <2>1. flags[i] \in Seq(Fields)
    OBVIOUS
  <2>2. /\ Given(FieldOf(flags[i], "listen"))
        /\ Given(FieldOf(flags[i], "device"))
        /\ Given(FieldOf(flags[i], "target"))
    BY <1>3, Zenon DEF Complete, Given
  <2>3. /\ FieldOf(flags[i], "listen") \in STRING
        /\ FieldOf(flags[i], "device") \in STRING
        /\ FieldOf(flags[i], "target") \in STRING
    BY <2>1, <2>2, FieldType
  <2> QED
    BY <2>3 DEF Routes
<1>5. DOMAIN routes = 1..Len(flags) /\ Len(flags) \in Nat
  BY <1>2
<1>6. routes \in Seq(Routes)
  <2>1. routes = [i \in 1..Len(flags) |-> routes[i]]
    BY <1>2, <1>5
  <2>2. \A i \in 1..Len(flags) : routes[i] \in Routes
    <3> HIDE DEF Route
    <3> QED
      BY <1>3, <1>4
  <2> QED
    BY <2>1, <2>2, <1>5
<1>7. \A i \in DOMAIN flags : /\ routes[i].listen = FieldOf(flags[i], "listen")
                               /\ routes[i].device = FieldOf(flags[i], "device")
  <2> TAKE i \in DOMAIN flags
  <2>1. routes[i] = Route(i)
    BY <1>3
  <2> QED
    BY <2>1
<1>8. DOMAIN routes = DOMAIN flags
  BY <1>2
<1> HIDE DEF Route
<1> QED
  BY <1>3, <1>6, <1>7, <1>8

(* A function on an interval from 1 is a sequence of its length.           *)
LEMMA FunctionIsSequence ==
  ASSUME NEW S, NEW c \in Nat, NEW f \in [1..c -> S]
  PROVE  f \in Seq(S) /\ Len(f) = c
<1>1. f = [k \in 1..c |-> f[k]] /\ \A k \in 1..c : f[k] \in S
  OBVIOUS
<1> QED
  BY <1>1

(* A concatenation holds what its two parts hold.                          *)
LEMMA RangeOfConcatenation ==
  ASSUME NEW S, NEW a \in Seq(S), NEW b \in Seq(S)
  PROVE  a \o b \in Seq(S) /\ Range(a \o b) = Range(a) \cup Range(b)
<1> DEFINE n == Len(a)
           c == Len(b)
           s == a \o b
<1>1. n \in Nat /\ c \in Nat /\ DOMAIN a = 1..n /\ DOMAIN b = 1..c
  OBVIOUS
<1>2. s \in Seq(S) /\ DOMAIN s = 1..n + c
  OBVIOUS
<1>3. \A i \in 1..n : s[i] = a[i]
  OBVIOUS
<1>4. \A k \in 1..c : s[n + k] = b[k]
  OBVIOUS
<1>5. \A i \in 1..n + c : i \in 1..n \/ \E k \in 1..c : i = n + k
  <2> SUFFICES ASSUME NEW i \in 1..n + c, i \notin 1..n
               PROVE  \E k \in 1..c : i = n + k
    OBVIOUS
  <2> HIDE DEF n, c
  <2>1. i - n \in 1..c /\ i = n + (i - n)
    BY <1>1
  <2> QED
    BY <2>1
<1>6. 1..n \subseteq 1..n + c /\ \A k \in 1..c : n + k \in 1..n + c
  <2> HIDE DEF n, c
  <2> QED
    BY <1>1
<1> HIDE DEF n, c, s
<1>7. \A i \in 1..n + c : s[i] \in Range(a) \cup Range(b)
  BY <1>1, <1>3, <1>4, <1>5 DEF Range
<1>8. \A i \in 1..n : a[i] \in Range(s)
  BY <1>2, <1>3, <1>6 DEF Range
<1>9. \A k \in 1..c : b[k] \in Range(s)
  BY <1>2, <1>4, <1>6 DEF Range
<1>10. Range(s) = Range(a) \cup Range(b)
  BY <1>1, <1>2, <1>7, <1>8, <1>9 DEF Range
<1> QED
  BY <1>2, <1>10 DEF s

(* What the plan is made of: the configuration's routes no flag overrides, *)
(* for each address with both the last flag's, and the flags' for the rest.*)
LEMMA MergedRoutes ==
  ASSUME NEW conf \in Seq(Routes), NEW routes \in Seq(Routes)
  PROVE  /\ Merge(conf, routes) \in Seq(Routes)
         /\ Range(Merge(conf, routes)) =
               {conf[i] : i \in {i \in DOMAIN conf : conf[i].listen \notin Listens(routes)}}
               \cup {Override(routes, l) : l \in Listens(conf) \cap Listens(routes)}
               \cup {routes[i] : i \in {i \in DOMAIN routes :
                                             routes[i].listen \notin Listens(conf)}}
<1> DEFINE first == [i \in DOMAIN conf |-> IF conf[i].listen \in Listens(routes)
                                   THEN Override(routes, conf[i].listen) ELSE conf[i]]
           added == Added(conf, routes)
           I == {i \in DOMAIN routes : routes[i].listen \notin Listens(conf)}
           s == InOrder(I)
           c == Cardinality(I)
           n == Len(conf)
<1>1. \A l \in Listens(routes) : Override(routes, l) \in Routes
  <2> TAKE l \in Listens(routes)
  <2>1. DOMAIN routes = 1..Len(routes) /\ Len(routes) \in Nat
    OBVIOUS
  <2>2. \E i \in DOMAIN routes : routes[i].listen = l
    BY DEF Listens
  <2>3. Max({i \in DOMAIN routes : routes[i].listen = l}) \in DOMAIN routes
    BY <2>1, <2>2, LastPlace
  <2> QED
    BY <2>3 DEF Override
<1>2. n \in Nat /\ DOMAIN conf = 1..n
  OBVIOUS
<1>3. first \in Seq(Routes) /\ Len(first) = n
  <2>1. \A i \in 1..n : first[i] \in Routes
    BY <1>1, <1>2
  <2>2. first = [i \in 1..n |-> first[i]]
    BY <1>2
  <2> HIDE DEF first
  <2> QED
    BY <2>1, <2>2, <1>2
<1>4. /\ c \in Nat /\ s \in [1..c -> I]
      /\ \A i \in I : \E k \in 1..c : s[k] = i
  <2>1. Len(routes) \in Nat /\ I \in SUBSET (1..Len(routes))
    OBVIOUS
  <2> HIDE DEF I
  <2> QED
    BY <2>1, InOrderLists
<1>5. added = [k \in 1..c |-> routes[s[k]]]
  BY <1>4 DEF Added
<1>6. added \in Seq(Routes) /\ Len(added) = c
  <2>1. \A k \in 1..c : routes[s[k]] \in Routes
    BY <1>4
  <2>2. \A k \in 1..c : added[k] \in Routes
    BY <2>1, <1>5
  <2>3. added \in [1..c -> Routes] /\ c \in Nat
    BY <2>2, <1>4, <1>5
  <2> HIDE DEF added, s, c, I
  <2> QED
    BY <2>3, FunctionIsSequence
<1>7. Merge(conf, routes) = first \o added
  BY DEF Merge
<1>8. Range(first) =
         {conf[i] : i \in {i \in DOMAIN conf : conf[i].listen \notin Listens(routes)}}
         \cup {Override(routes, l) : l \in Listens(conf) \cap Listens(routes)}
  BY DEF Range, Listens
<1>9. Range(added) = {routes[i] : i \in I}
  <2>1. \A k \in 1..c : added[k] = routes[s[k]] /\ s[k] \in I
    BY <1>4, <1>5
  <2>2. \A i \in I : \E k \in 1..c : added[k] = routes[i]
    <3> HIDE DEF added, s, c, I
    <3> QED
      BY <1>4, <1>5
  <2>3. DOMAIN added = 1..c
    BY <1>5
  <2> HIDE DEF added, s, c, I
  <2> QED
    BY <2>1, <2>2, <2>3 DEF Range
<1>10. Range(first \o added) = Range(first) \cup Range(added) /\ first \o added \in Seq(Routes)
  <2> HIDE DEF first, added
  <2> QED
    BY <1>3, <1>6, RangeOfConcatenation
<1> HIDE DEF first, added
<1> QED
  BY <1>7, <1>8, <1>9, <1>10

(* The devices of a plan are the user's.                                   *)
LEMMA PlannedDevices ==
  ASSUME NEW in \in Inputs, NEW routes \in ParseRouteFlags(in.flags)
  PROVE  Devices(Merge(in.config, routes)) \subseteq AllDevices
<1> DEFINE conf == in.config
           made == Merge(conf, routes)
<1>1. in.config \in Seq(Routes) /\ in.flags \in Seq(Seq(Fields))
  BY GatewayAssumption DEF GatewayAssumption
<1>2. /\ routes \in Seq(Routes) /\ DOMAIN routes = DOMAIN in.flags
      /\ \A i \in DOMAIN in.flags : routes[i].device = FieldOf(in.flags[i], "device")
  BY <1>1, FlagRoutes
<1>3. ASSUME NEW r \in Range(made)
      PROVE  (\E i \in DOMAIN conf : r = conf[i]) \/ \E i \in DOMAIN routes : r = routes[i]
  <2>1. \/ \E i \in DOMAIN conf : r = conf[i]
        \/ \E l \in Listens(routes) : r = Override(routes, l)
        \/ \E i \in DOMAIN routes : r = routes[i]
    <3>1. Range(made) =
             {conf[i] : i \in {i \in DOMAIN conf : conf[i].listen \notin Listens(routes)}}
             \cup {Override(routes, l) : l \in Listens(conf) \cap Listens(routes)}
             \cup {routes[i] : i \in {i \in DOMAIN routes : routes[i].listen \notin Listens(conf)}}
      BY <1>1, <1>2, MergedRoutes
    <3> HIDE DEF made, conf
    <3> QED
      BY <3>1, <1>3
  <2>2. ASSUME NEW l \in Listens(routes), r = Override(routes, l)
        PROVE  \E i \in DOMAIN routes : r = routes[i]
    <3>1. DOMAIN routes = 1..Len(routes) /\ Len(routes) \in Nat
      BY <1>2
    <3>2. \E i \in DOMAIN routes : routes[i].listen = l
      BY DEF Listens
    <3>3. Max({i \in DOMAIN routes : routes[i].listen = l}) \in DOMAIN routes
      BY <3>1, <3>2, LastPlace
    <3> QED
      BY <2>2, <3>3 DEF Override
  <2> QED
    BY <2>1, <2>2
<1>4. ASSUME NEW r \in Range(made)
      PROVE  r.device \in AllDevices
  <2>1. CASE \E i \in DOMAIN in.config : r = in.config[i]
    BY <2>1 DEF AllDevices, Devices
  <2>2. CASE \E i \in DOMAIN routes : r = routes[i]
    BY <2>2, <1>2 DEF AllDevices
  <2> QED
    BY <1>3, <2>1, <2>2
<1>5. \A i \in DOMAIN made : made[i] \in Range(made)
  BY DEF Range
<1> HIDE DEF made
<1>6. Devices(made) \subseteq AllDevices
  BY <1>4, <1>5 DEF Devices
<1> QED
  BY <1>6 DEF made

(* An accepted plan listens on the addresses the user named, and has for   *)
(* each the route that was meant.                                          *)
LEMMA PlanIsMeant ==
  ASSUME input \in Inputs, NEW routes \in ParseRouteFlags(input.flags),
         plan = Merge(input.config, routes), Acceptable(plan)
  PROVE  Listens(plan) = Wanted /\ \A k \in DOMAIN plan : Meant(plan[k].listen) = {plan[k]}
<1> DEFINE conf == input.config
           flags == input.flags
           In(l) == {i \in DOMAIN routes : routes[i].listen = l}
<1>1. conf \in Seq(Routes) /\ flags \in Seq(Seq(Fields))
  BY GatewayAssumption DEF GatewayAssumption
<1>2. /\ routes \in Seq(Routes) /\ DOMAIN routes = DOMAIN flags
      /\ \A i \in DOMAIN flags : /\ ParseRouteFlag(flags[i]) = {routes[i]}
                                  /\ routes[i].listen = FieldOf(flags[i], "listen")
  BY <1>1, FlagRoutes
<1>3. Range(plan) =
         {conf[i] : i \in {i \in DOMAIN conf : conf[i].listen \notin Listens(routes)}}
         \cup {Override(routes, l) : l \in Listens(conf) \cap Listens(routes)}
         \cup {routes[i] : i \in {i \in DOMAIN routes : routes[i].listen \notin Listens(conf)}}
  BY <1>1, <1>2, MergedRoutes
<1>4. ASSUME NEW l \in Listens(routes)
      PROVE  /\ Max(In(l)) \in DOMAIN routes /\ routes[Max(In(l))].listen = l
             /\ Override(routes, l) = routes[Max(In(l))]
  <2>1. DOMAIN routes = 1..Len(routes) /\ Len(routes) \in Nat
    BY <1>2
  <2>2. \E i \in DOMAIN routes : routes[i].listen = l
    BY DEF Listens
  <2>3. Max(In(l)) \in DOMAIN routes /\ routes[Max(In(l))].listen = l
    BY <2>1, <2>2, LastPlace
  <2> QED
    BY <2>3 DEF Override
<1>5. \A q, r \in Range(plan) : q.listen = r.listen => q = r
  BY DEF Acceptable, Range
<1>6. Listens(plan) = {r.listen : r \in Range(plan)}
  BY DEF Listens, Range
<1>7. Wanted = Listens(conf) \cup Listens(routes)
  BY <1>2 DEF Wanted, Listens
<1> HIDE DEF In
<1>8. Listens(plan) = Listens(conf) \cup Listens(routes)
  <2>1. ASSUME NEW r \in Range(plan) PROVE r.listen \in Listens(conf) \cup Listens(routes)
    BY <1>3, <1>4 DEF Listens
  <2>2. ASSUME NEW l \in Listens(conf) PROVE \E r \in Range(plan) : r.listen = l
    <3>1. CASE l \in Listens(routes)
      BY <3>1, <2>2, <1>3, <1>4
    <3>2. CASE l \notin Listens(routes)
      BY <3>2, <2>2, <1>3 DEF Listens
    <3> QED
      BY <3>1, <3>2
  <2>3. ASSUME NEW l \in Listens(routes), l \notin Listens(conf)
        PROVE  \E r \in Range(plan) : r.listen = l
    BY <2>3, <1>3 DEF Listens
  <2> QED
    BY <2>1, <2>2, <2>3, <1>6
<1>9. ASSUME NEW r \in Range(plan)
      PROVE  Meant(r.listen) = {r}
  <2> DEFINE l == r.listen
             flagged == {i \in DOMAIN flags : FieldOf(flags[i], "listen") = l}
             listed == {i \in DOMAIN conf : conf[i].listen = l}
  <2>1. flagged = In(l)
    BY <1>2 DEF In
  <2>2. Meant(l) = IF flagged = {} THEN {conf[i] : i \in listed}
                   ELSE ParseRouteFlag(flags[Max(flagged)])
    BY DEF Meant
  <2>3. CASE flagged = {}
    <3>1. l \notin Listens(routes)
      BY <2>1, <2>3 DEF In, Listens
    <3>2. \A i \in listed : conf[i] \in Range(plan)
      BY <3>1, <1>3
    <3>3. \A i \in listed : conf[i] = r
      BY <3>2, <1>5
    <3>4. \E i \in listed : conf[i] = r
      BY <1>3, <1>4, <3>1 DEF Listens
    <3>5. {conf[i] : i \in listed} = {r}
      BY <3>3, <3>4
    <3> QED
      BY <2>2, <2>3, <3>5
  <2>4. CASE flagged # {}
    <3>1. l \in Listens(routes)
      BY <2>1, <2>4 DEF In, Listens
    <3> DEFINE m == Max(In(l))
    <3>2. m \in DOMAIN routes /\ routes[m].listen = l /\ Override(routes, l) = routes[m]
      BY <1>4, <3>1
    <3>3. routes[m] \in Range(plan)
      <4>1. CASE l \in Listens(conf)
        BY <4>1, <3>1, <3>2, <1>3
      <4>2. CASE l \notin Listens(conf)
        BY <4>2, <3>2, <1>3
      <4> QED
        BY <4>1, <4>2
    <3>4. routes[m] = r
      BY <3>2, <3>3, <1>5
    <3>5. ParseRouteFlag(flags[m]) = {r}
      BY <3>2, <3>4, <1>2
    <3> HIDE DEF m, flagged
    <3>6. Max(flagged) = m
      BY <2>1 DEF m
    <3> QED
      BY <2>2, <2>4, <3>5, <3>6
  <2> QED
    BY <2>3, <2>4
<1>10. \A k \in DOMAIN plan : plan[k] \in Range(plan)
  BY DEF Range
<1> QED
  BY <1>7, <1>8, <1>9, <1>10

-----------------------------------------------------------------------------
(* The inductive invariant.                                                *)

(* The plan is made of what the user wrote.  Clients are there only once   *)
(* gateway.New has accepted it, and nobody listens before them.            *)
PlanInv ==
    /\ plan # <<>> => \E routes \in ParseRouteFlags(input.flags) :
                         plan = Merge(input.config, routes)
    /\ stage = "run" \/ clients # {} => plan # <<>> /\ Acceptable(plan)
    /\ stage \in {"merge", "connect", "build"} \/ clients = {} => clients = {} /\ open = {}

(* A client that has begun was appended and started, once.                 *)
StartInv == \A d \in AllDevices : phase[d] # "none" => d \in clients \ launching

(* A client that goes on to subscribe leaves none of its filters behind.   *)
FilterInv ==
    \A d \in AllDevices :
        /\ phase[d] = "registered" => FiltersOf(d) \subseteq router
        /\ phase[d] = "subscribing" => FiltersOf(d) \subseteq broker \cup todo[d]
        /\ phase[d] \in {"listening", "serving", "draining", "emptying", "done"}
              => FiltersOf(d) \subseteq broker

(* A client that serves listens on all its addresses.                      *)
ListenInv == \A d \in AllDevices : phase[d] = "serving" => Own(d) \subseteq open

(* A connection was accepted by the client of its route's device.          *)
ConnInv ==
    \A c \in conns : phase[c.route.device] \in {"serving", "draining", "emptying", "done"}

(* A client stops because its context has ended.                           *)
DrainInv == \A d \in AllDevices : phase[d] \in {"draining", "emptying"} => inner = "ended"

(* The event handler works after a loss, and on one client after the other. *)
EventInv ==
    /\ event # "none" => losses > 0
    /\ toClose # {} => event = "closing"
    /\ emptying # {} => event = "closing" /\ emptying \cap toClose = {}

(* Only a CloseAll, after a loss or at the end, throws a session out of    *)
(* its client's map.                                                       *)
OrphanInv == \A c \in conns : c.at = "nowhere" => losses > 0 \/ inner = "ended"

(* A session that was in its client's map at the last loss still has the   *)
(* event handler before it, unless a client that stops threw it out.       *)
OldInv ==
    \A c \in conns : c.old =>
        \/ c.at = "nowhere" /\ inner = "ended"
        \/ /\ c.at = "map" /\ event # "none"
           /\ event = "closing" => c.route.device \in toClose

Inv == /\ TypeOK /\ PlanInv /\ StartInv /\ FilterInv /\ ListenInv /\ ConnInv
       /\ DrainInv /\ EventInv /\ OrphanInv /\ OldInv

LEMMA Initially ==
  ASSUME Init
  PROVE  Inv
<1>1. TypeOK
  BY GatewayAssumption DEF Init, TypeOK, GatewayAssumption, Planned, Devices, Ended, Listens
<1>2. PlanInv
  BY DEF Init, PlanInv
<1>3. StartInv /\ FilterInv /\ ListenInv /\ ConnInv
  BY DEF Init, StartInv, FilterInv, ListenInv, ConnInv
<1>4. DrainInv /\ EventInv /\ OrphanInv /\ OldInv
  BY DEF Init, DrainInv, EventInv, OrphanInv, OldInv
<1> QED
  BY <1>1, <1>2, <1>3, <1>4 DEF Inv

(* The plan changes only before anything is made from it.                  *)
LEMMA PlanChanges ==
  ASSUME Inv, ReadRoutes
  PROVE  /\ clients = {} /\ open = {} /\ conns = {} /\ launching = {} /\ router = {}
         /\ toClose = {} /\ emptying = {}
<1>1. clients = {} /\ open = {}
  BY DEF Inv, ReadRoutes, PlanInv
<1>2. launching = {} /\ router = {} /\ toClose = {} /\ emptying = {}
  BY <1>1 DEF Inv, TypeOK
<1>3. \A d \in AllDevices : phase[d] = "none"
  BY <1>1 DEF Inv, StartInv
<1>4. \A c \in conns : c.route.device \in AllDevices
  BY DEF Inv, TypeOK, Planned, Devices
<1>5. conns = {}
  BY <1>3, <1>4 DEF Inv, ConnInv
<1> QED
  BY <1>1, <1>2, <1>5

(* What replacing a client's map makes of its sessions.                    *)
LEMMA MapReplaced ==
  ASSUME TypeOK, NEW d, ReplaceMap(d), NEW c \in conns'
  PROVE  \/ c \in conns \ SessionsOf(d)
         \/ \E b \in SessionsOf(d) :
               /\ c = [b EXCEPT !.at = "nowhere"]
               /\ c.route = b.route /\ c.old = b.old /\ c.at = "nowhere"
<1>1. CASE c \in conns \ SessionsOf(d)
  BY <1>1
<1>2. ASSUME NEW b \in SessionsOf(d), c = [b EXCEPT !.at = "nowhere"]
      PROVE  c.route = b.route /\ c.old = b.old /\ c.at = "nowhere"
  BY <1>2 DEF TypeOK, SessionsOf
<1> QED
  BY <1>1, <1>2 DEF ReplaceMap

LEMMA TypeStep ==
  ASSUME Inv, [Next]_vars
  PROVE  TypeOK'
<1> USE DEF TypeOK
<1> DEFINE Conns == [id : 1..MaxConns, route : {plan[i] : i \in DOMAIN plan},
                     at : {"handler", "map", "nowhere"}, old : BOOLEAN]
<1>0. TypeOK
  BY DEF Inv
<1>1. CASE ReadRoutes
  <2>1. /\ clients = {} /\ open = {} /\ conns = {} /\ launching = {} /\ router = {}
        /\ toClose = {} /\ emptying = {}
    BY <1>1, PlanChanges
  <2>2. Planned' \subseteq AllDevices
    <3>1. CASE plan' = plan
      BY <1>0, <3>1 DEF Planned
    <3>2. CASE \E routes \in ParseRouteFlags(input.flags) : plan' = Merge(input.config, routes)
      BY <1>0, <3>2, PlannedDevices DEF Planned
    <3> QED
      BY <1>1, <3>1, <3>2 DEF ReadRoutes
  <2>3. stage' \in {"merge", "connect", "build", "run", "exited"}
    BY <1>1 DEF ReadRoutes
  <2> QED
    BY <1>0, <1>1, <2>1, <2>2, <2>3 DEF ReadRoutes, wires, lost
<1>2. CASE Connect \/ Build \/ Interrupt \/ Exit
  BY <1>0, <1>2 DEF Connect, Build, Interrupt, Exit, EndOuter, config, wires, lost, Planned
<1>3. CASE HealthListens \/ HealthEnds \/ HealthStops \/ GatewayReturns
  BY <1>0, <1>3 DEF HealthListens, HealthEnds, HealthStops, GatewayReturns, EndOuter, config,
                    wires, lost, Planned
<1>4. ASSUME NEW d \in AllDevices, AppendClient(d)
      PROVE  TypeOK'
  BY <1>0, <1>4 DEF AppendClient, config, wires, lost, Planned
<1>5. ASSUME NEW d \in AllDevices, StartClient(d)
      PROVE  TypeOK'
  BY <1>0, <1>5 DEF StartClient, config, wires, lost, Planned
<1>6. ASSUME NEW d \in AllDevices, Register(d)
      PROVE  TypeOK'
  <2>1. d \in clients
    BY <1>6 DEF Inv, StartInv, Register
  <2>2. router' \subseteq UNION {FiltersOf(e) : e \in clients}
    <3>1. router \subseteq UNION {FiltersOf(e) : e \in clients}
      BY <1>0
    <3>2. <<d, "control">> \in FiltersOf(d) /\ <<d, "data">> \in FiltersOf(d)
      BY DEF FiltersOf
    <3>3. \/ router' = router \cup {<<d, "control">>}
          \/ router' = router \cup {<<d, "data">>}
      BY <1>6 DEF Register
    <3> HIDE DEF FiltersOf
    <3> QED
      BY <2>1, <3>1, <3>2, <3>3
  <2>3. todo \in [AllDevices -> SUBSET router']
    BY <1>0, <1>6 DEF Register
  <2>4. phase' \in [AllDevices -> Ended \cup {"new", "registered", "subscribing", "listening",
                                                 "serving", "draining", "emptying"}]
    BY <1>0, <1>6 DEF Register
  <2>5. UNCHANGED <<input, plan, stage, outer, inner, clients, launching, todo, broker, open,
                    conns, gw, health, losses, event, toClose, emptying>>
    BY <1>6 DEF Register, config, lost
  <2>6. broker \subseteq router'
    BY <1>0, <1>6 DEF Register
  <2> QED
    BY <1>0, <2>2, <2>3, <2>4, <2>5, <2>6 DEF Planned
<1>7. ASSUME NEW d \in AllDevices, SubscribeAll(d)
      PROVE  TypeOK'
  BY <1>0, <1>7 DEF SubscribeAll, FiltersFor, config, lost, Planned
<1>8. ASSUME NEW d \in AllDevices, Subscribe(d)
      PROVE  TypeOK'
  <2>1. broker' \subseteq router /\ todo' \in [AllDevices -> SUBSET router]
    BY <1>0, <1>8 DEF Subscribe
  <2>2. /\ phase' \in [AllDevices -> Ended \cup {"new", "registered", "subscribing", "listening",
                                                  "serving", "draining", "emptying"}]
        /\ inner' \in {"live", "ended"} /\ (outer = "ended" => inner' = "ended")
    BY <1>0, <1>8 DEF Subscribe, Fail, Ended
  <2> QED
    BY <1>0, <1>8, <2>1, <2>2 DEF Subscribe, config, lost, Planned
<1>9. ASSUME NEW d \in AllDevices, Listen(d)
      PROVE  TypeOK'
  <2>1. open' \subseteq Listens(plan)
    BY <1>0, <1>9 DEF Listen, ForDevice, Listens
  <2>2. /\ phase' \in [AllDevices -> Ended \cup {"new", "registered", "subscribing", "listening",
                                                  "serving", "draining", "emptying"}]
        /\ inner' \in {"live", "ended"} /\ (outer = "ended" => inner' = "ended")
    BY <1>0, <1>9 DEF Listen, Fail, Ended
  <2> QED
    BY <1>0, <1>9, <2>1, <2>2 DEF Listen, config, wires, lost, Planned
<1>10. ASSUME NEW d \in AllDevices, Accept(d)
       PROVE  TypeOK'
  <2>1. PICK i \in DOMAIN plan, n \in 1..MaxConns :
           conns' = conns \cup {[id |-> n, route |-> plan[i], at |-> "handler", old |-> FALSE]}
    BY <1>10 DEF Accept
  <2> DEFINE new == [id |-> n, route |-> plan[i], at |-> "handler", old |-> FALSE]
  <2>2. conns \subseteq Conns /\ new \in Conns
    BY <1>0
  <2>3. conns' \subseteq Conns
    <3> HIDE DEF new, Conns
    <3>1. conns' = conns \cup {new}
      BY <2>1 DEF new
    <3> QED
      BY <2>2, <3>1
  <2> QED
    BY <1>0, <1>10, <2>3 DEF Accept, config, wires, lost, Planned
<1>11. CASE Manage \/ ConnEnds \/ LinkLost
  <2>1. conns' \subseteq Conns
    <3>0. conns \subseteq Conns
      BY <1>0
    <3>1. CASE Manage
      <4>1. PICK c \in conns : conns' = (conns \ {c}) \cup {[c EXCEPT !.at = "map"]}
        BY <3>1 DEF Manage
      <4>2. [c EXCEPT !.at = "map"] \in Conns
        BY <3>0
      <4> HIDE DEF Conns
      <4> QED
        BY <3>0, <4>1, <4>2, Zenon
    <3>2. CASE ConnEnds
      BY <3>0, <3>2 DEF ConnEnds
    <3>3. CASE LinkLost
      <4>1. conns' = {[c EXCEPT !.old = (c.at = "map")] : c \in conns}
        BY <3>3 DEF LinkLost
      <4>2. \A c \in conns : [c EXCEPT !.old = (c.at = "map")] \in Conns
        BY <3>0
      <4> HIDE DEF Conns
      <4> QED
        BY <4>1, <4>2, Zenon
    <3> QED
      BY <1>11, <3>1, <3>2, <3>3
  <2>2. losses' \in 0..MaxLosses /\ event' \in {"none", "pending", "closing"}
    BY <1>0, <1>11, GatewayAssumption DEF Manage, ConnEnds, LinkLost, lost, GatewayAssumption
  <2> QED
    BY <1>0, <1>11, <2>1, <2>2 DEF Manage, ConnEnds, LinkLost, config, wires, lost, Planned
<1>12. ASSUME NEW d \in AllDevices, StopListening(d) \/ CloseSessions(d)
       PROVE  TypeOK'
  BY <1>0, <1>12 DEF StopListening, CloseSessions, CloseMapped, Ended, config, wires, lost,
         Planned
<1>13. CASE CloseAllSessions \/ CloseClient
  BY <1>0, <1>13 DEF CloseAllSessions, CloseClient, CloseMapped, ClientsToClose, config, wires,
                     Planned
<1>15. ASSUME NEW d, ReplaceMap(d)
       PROVE  conns' \subseteq Conns
  <2>0. conns \subseteq Conns
    BY <1>0
  <2>1. \A b \in conns : [b EXCEPT !.at = "nowhere"] \in Conns
    BY <2>0
  <2>2. SessionsOf(d) \subseteq conns
    BY DEF SessionsOf
  <2> HIDE DEF Conns
  <2> QED
    BY <1>0, <1>15, <2>0, <2>1, <2>2, MapReplaced
<1>16. ASSUME NEW d \in AllDevices, Return(d)
       PROVE  TypeOK'
  <2>1. conns' \subseteq Conns
    BY <1>15, <1>16 DEF Return
  <2> QED
    BY <1>0, <1>16, <2>1 DEF Return, Ended, config, wires, lost, Planned
<1>17. CASE EmptyClient
  <2>1. conns' \subseteq Conns
    BY <1>15, <1>17 DEF EmptyClient
  <2> QED
    BY <1>0, <1>17, <2>1 DEF EmptyClient, config, wires, Planned
<1>14. CASE UNCHANGED vars
  BY <1>0, <1>14 DEF vars, Planned
<1> QED
  BY <1>1, <1>2, <1>3, <1>4, <1>5, <1>6, <1>7, <1>8, <1>9, <1>10, <1>11, <1>12, <1>13, <1>14,
     <1>16, <1>17 DEF Next, Main, Goroutine

LEMMA PlanStep ==
  ASSUME Inv, [Next]_vars
  PROVE  PlanInv'
<1> USE DEF PlanInv
<1>0. PlanInv /\ StartInv
  BY DEF Inv
<1>1. CASE ReadRoutes
  <2>1. plan' = plan \/ \E routes \in ParseRouteFlags(input.flags) :
                           plan' = Merge(input.config, routes)
    BY <1>1 DEF ReadRoutes
  <2>2. /\ input' = input /\ stage' \in {"connect", "exited"}
        /\ clients = {} /\ clients' = {} /\ open' = {}
    BY <1>1, PlanChanges DEF ReadRoutes
  <2>3. plan' # <<>> => \E routes \in ParseRouteFlags(input.flags) :
                           plan' = Merge(input.config, routes)
    BY <1>0, <2>1
  <2> QED
    BY <2>2, <2>3
<1>2. CASE Connect
  BY <1>0, <1>2 DEF Connect, config
<1>3. CASE Build
  BY <1>0, <1>3 DEF Build, config, Acceptable
<1>4. CASE Interrupt \/ Exit \/ HealthListens \/ HealthEnds \/ HealthStops \/ GatewayReturns
  BY <1>0, <1>4 DEF Interrupt, Exit, HealthListens, HealthEnds, HealthStops, GatewayReturns,
         config
<1>5. ASSUME NEW d \in AllDevices, AppendClient(d)
      PROVE  PlanInv'
  BY <1>0, <1>5 DEF AppendClient, config
<1>6. ASSUME NEW d \in AllDevices,
             StartClient(d) \/ Register(d) \/ SubscribeAll(d) \/ Subscribe(d) \/ Accept(d)
                \/ CloseSessions(d) \/ Return(d)
      PROVE  PlanInv'
  BY <1>0, <1>6 DEF StartClient, Register, SubscribeAll, Subscribe, Accept, CloseSessions,
         Return, config
<1>7. ASSUME NEW d \in AllDevices, Listen(d) \/ StopListening(d)
      PROVE  PlanInv'
  <2>1. clients # {}
    BY <1>0, <1>7 DEF StartInv, Listen, StopListening
  <2>2. UNCHANGED <<input, plan, stage, clients>>
    BY <1>7 DEF Listen, StopListening, config
  <2> QED
    BY <1>0, <2>1, <2>2
<1>8. CASE Manage \/ ConnEnds \/ LinkLost \/ CloseAllSessions \/ CloseClient \/ EmptyClient
  BY <1>0, <1>8 DEF Manage, ConnEnds, LinkLost, CloseAllSessions, CloseClient, EmptyClient, config
<1>9. CASE UNCHANGED vars
  BY <1>0, <1>9 DEF vars
<1> QED
  BY <1>1, <1>2, <1>3, <1>4, <1>5, <1>6, <1>7, <1>8, <1>9 DEF Next, Main, Goroutine

(* A step of a client moves that client only, and from the phase it is in. *)
LEMMA PhaseSteps ==
  ASSUME Inv, [Next]_vars
  PROVE  \/ UNCHANGED phase
         \/ \E d \in AllDevices : /\ \/ StartClient(d) \/ Register(d) \/ SubscribeAll(d)
                                     \/ Subscribe(d) \/ Listen(d) \/ StopListening(d)
                                     \/ CloseSessions(d) \/ Return(d)
                                /\ phase' = [phase EXCEPT ![d] = phase'[d]]
<1>0. phase \in [AllDevices -> Ended \cup {"new", "registered", "subscribing", "listening",
                                            "serving", "draining", "emptying"}]
  BY DEF Inv, TypeOK
<1>1. CASE ReadRoutes \/ Connect \/ Build \/ Interrupt \/ Exit
  BY <1>1 DEF ReadRoutes, Connect, Build, Interrupt, Exit
<1>2. CASE HealthListens \/ HealthEnds \/ HealthStops \/ GatewayReturns
  BY <1>2 DEF HealthListens, HealthEnds, HealthStops, GatewayReturns
<1>3. CASE Manage \/ ConnEnds \/ LinkLost \/ CloseAllSessions \/ CloseClient \/ EmptyClient
  BY <1>3 DEF Manage, ConnEnds, LinkLost, CloseAllSessions, CloseClient, EmptyClient
<1>4. ASSUME NEW d \in AllDevices, AppendClient(d) \/ Accept(d)
      PROVE  UNCHANGED phase
  BY <1>4 DEF AppendClient, Accept
<1>5. ASSUME NEW d \in AllDevices,
             StartClient(d) \/ Register(d) \/ SubscribeAll(d) \/ Subscribe(d)
                \/ Listen(d) \/ StopListening(d) \/ CloseSessions(d) \/ Return(d)
      PROVE  phase' = [phase EXCEPT ![d] = phase'[d]]
  BY <1>0, <1>5 DEF StartClient, Register, SubscribeAll, Subscribe, Listen, StopListening,
                    CloseSessions, Return, Fail
<1>6. CASE UNCHANGED vars
  BY <1>6 DEF vars
<1> QED
  BY <1>1, <1>2, <1>3, <1>4, <1>5, <1>6 DEF Next, Main, Goroutine

LEMMA StartStep ==
  ASSUME Inv, [Next]_vars
  PROVE  StartInv'
<1> USE DEF StartInv
<1>0. /\ StartInv
      /\ phase \in [AllDevices -> Ended \cup {"new", "registered", "subscribing", "listening",
                                               "serving", "draining", "emptying"}]
      /\ launching \subseteq clients
  BY DEF Inv, TypeOK
<1>1. ASSUME NEW d \in AllDevices, AppendClient(d)
      PROVE  StartInv'
  BY <1>0, <1>1 DEF AppendClient
<1>2. ASSUME NEW d \in AllDevices, StartClient(d)
      PROVE  StartInv'
  BY <1>0, <1>2 DEF StartClient
<1>3. CASE UNCHANGED <<clients, launching>>
  <2>1. CASE UNCHANGED phase
    BY <1>0, <1>3, <2>1
  <2>2. ASSUME NEW d \in AllDevices,
               StartClient(d) \/ Register(d) \/ SubscribeAll(d) \/ Subscribe(d)
                  \/ Listen(d) \/ StopListening(d) \/ CloseSessions(d) \/ Return(d),
               phase' = [phase EXCEPT ![d] = phase'[d]]
        PROVE  StartInv'
    <3>1. CASE StartClient(d)
      BY <1>2, <3>1
    <3>2. CASE ~ StartClient(d)
      <4>1. phase[d] # "none"
        BY <2>2, <3>2 DEF Register, SubscribeAll, Subscribe, Listen, StopListening,
               CloseSessions, Return
      <4> QED
        BY <1>0, <1>3, <2>2, <4>1
    <3> QED
      BY <3>1, <3>2
  <2> QED
    BY <2>1, <2>2, PhaseSteps
<1>4. \/ UNCHANGED <<clients, launching>>
      \/ \E d \in AllDevices : AppendClient(d) \/ StartClient(d)
  BY DEF Next, Main, Goroutine, ReadRoutes, Connect, Build, Interrupt, Exit, HealthListens,
         HealthEnds, HealthStops, GatewayReturns, Manage, ConnEnds, LinkLost, CloseAllSessions,
         CloseClient, EmptyClient, Accept, Register, SubscribeAll, Subscribe, Listen,
         StopListening,
         CloseSessions, Return, vars
<1> QED
  BY <1>1, <1>2, <1>3, <1>4

LEMMA FilterStep ==
  ASSUME Inv, [Next]_vars
  PROVE  FilterInv'
<1> USE DEF FilterInv
<1>0. /\ FilterInv
      /\ phase \in [AllDevices -> Ended \cup {"new", "registered", "subscribing", "listening",
                                               "serving", "draining", "emptying"}]
      /\ todo \in [AllDevices -> SUBSET router] /\ broker \subseteq router
  BY DEF Inv, TypeOK
<1>1. ASSUME NEW d \in AllDevices, Register(d)
      PROVE  FilterInv'
  <2>1. UNCHANGED <<todo, broker>> /\ router \subseteq router'
    BY <1>1 DEF Register
  <2>2. CASE UNCHANGED phase
    BY <1>0, <2>1, <2>2
  <2>3. CASE phase' # phase
    <3>1. FiltersOf(d) \subseteq router'
      BY <1>1, <2>3 DEF Register, FiltersOf
    <3>2. phase' = [phase EXCEPT ![d] = "registered"]
      BY <1>1, <2>3 DEF Register
    <3> QED
      BY <1>0, <2>1, <3>1, <3>2
  <2> QED
    BY <2>2, <2>3
<1>2. ASSUME NEW d \in AllDevices, SubscribeAll(d)
      PROVE  FilterInv'
  BY <1>0, <1>2 DEF SubscribeAll, FiltersFor
<1>3. ASSUME NEW d \in AllDevices, Subscribe(d)
      PROVE  FilterInv'
  <2> SUFFICES ASSUME NEW e \in AllDevices
               PROVE  /\ phase'[e] = "registered" => FiltersOf(e) \subseteq router'
                      /\ phase'[e] = "subscribing" => FiltersOf(e) \subseteq broker' \cup todo'[e]
                      /\ phase'[e] \in {"listening", "serving", "draining", "emptying", "done"}
                            => FiltersOf(e) \subseteq broker'
    OBVIOUS
  <2>1. CASE \E f \in todo[d] :
                /\ broker' = broker \cup {f} /\ todo' = [todo EXCEPT ![d] = @ \ {f}]
                /\ UNCHANGED <<phase, inner>>
    <3>1. PICK f \in todo[d] :
             /\ broker' = broker \cup {f} /\ todo' = [todo EXCEPT ![d] = @ \ {f}]
             /\ phase' = phase
      BY <2>1
    <3>2. \/ broker' \cup todo'[e] = broker \cup {f} \cup todo[e]
          \/ broker' \cup todo'[e] = broker \cup todo[e]
      BY <1>0, <3>1
    <3>3. broker \subseteq broker' /\ router' = router
      BY <1>3, <3>1 DEF Subscribe
    <3> QED
      BY <1>0, <3>1, <3>2, <3>3
  <2>2. CASE todo[d] # {} /\ Fail(d) /\ UNCHANGED <<broker, todo>>
    <3>1. phase' = [phase EXCEPT ![d] = "failed"] /\ UNCHANGED <<broker, todo, router>>
      BY <1>3, <2>2 DEF Subscribe, Fail
    <3> QED
      BY <1>0, <3>1
  <2>3. CASE /\ todo[d] = {}
             /\ phase' = [phase EXCEPT ![d] = "listening"]
             /\ UNCHANGED <<inner, broker, todo>>
    <3>1. phase[d] = "subscribing" /\ UNCHANGED <<broker, todo, router>>
      BY <1>3, <2>3 DEF Subscribe
    <3> QED
      BY <1>0, <2>3, <3>1
  <2> QED
    BY <1>3, <2>1, <2>2, <2>3 DEF Subscribe
<1>4. CASE UNCHANGED wires
  <2>1. CASE UNCHANGED phase
    BY <1>0, <1>4, <2>1 DEF wires
  <2>2. ASSUME NEW d \in AllDevices, \/ StartClient(d) \/ Listen(d) \/ StopListening(d)
                                     \/ CloseSessions(d) \/ Return(d),
               phase' = [phase EXCEPT ![d] = phase'[d]]
        PROVE  FilterInv'
    <3>1. \/ phase'[d] \in {"new", "failed"}
          \/ /\ phase[d] \in {"listening", "serving", "draining", "emptying"}
             /\ phase'[d] \in {"listening", "serving", "draining", "emptying", "done"}
      BY <1>0, <2>2 DEF StartClient, Listen, StopListening, CloseSessions, Return, Fail
    <3> QED
      BY <1>0, <1>4, <2>2, <3>1 DEF wires
  <2> QED
    BY <2>1, <2>2, <1>1, <1>2, <1>3, PhaseSteps
<1>5. UNCHANGED wires \/ \E d \in AllDevices : Register(d) \/ SubscribeAll(d) \/ Subscribe(d)
  BY DEF Next, Main, Goroutine, ReadRoutes, Connect, Build, Interrupt, Exit, HealthListens,
         HealthEnds, HealthStops, GatewayReturns, Manage, ConnEnds, LinkLost, CloseAllSessions,
         CloseClient, EmptyClient, Accept, AppendClient, StartClient, Listen, StopListening,
         CloseSessions, Return,
         vars, wires
<1> QED
  BY <1>1, <1>2, <1>3, <1>4, <1>5

(* No address belongs to two clients.                                      *)
LEMMA OwnAddresses ==
  ASSUME Acceptable(plan), NEW d, NEW e, d # e
  PROVE  Own(d) \cap Own(e) = {}
BY DEF Acceptable, Own, ForDevice

LEMMA ListenStep ==
  ASSUME Inv, [Next]_vars
  PROVE  ListenInv'
<1> USE DEF ListenInv
<1>0. /\ ListenInv /\ StartInv /\ PlanInv
      /\ phase \in [AllDevices -> Ended \cup {"new", "registered", "subscribing", "listening",
                                               "serving", "draining", "emptying"}]
  BY DEF Inv, TypeOK
<1>1. CASE ReadRoutes
  BY <1>0, <1>1, PlanChanges DEF StartInv, ReadRoutes
<1>2. ASSUME UNCHANGED plan, NEW d \in AllDevices, Listen(d) \/ StopListening(d)
      PROVE  ListenInv'
  <2>1. d \in clients /\ Acceptable(plan)
    BY <1>0, <1>2 DEF Listen, StopListening, StartInv, PlanInv
  <2>2. \A e \in AllDevices : Own(e)' = Own(e) /\ (e # d => Own(e) \cap Own(d) = {})
    BY <1>2, <2>1, OwnAddresses DEF Own
  <2>3. \/ open \subseteq open' /\ UNCHANGED phase
        \/ open' = open \ Own(d) /\ phase' = [phase EXCEPT ![d] = "failed"]
        \/ open' = open \ Own(d) /\ phase' = [phase EXCEPT ![d] = "draining"]
        \/ Own(d) \subseteq open /\ UNCHANGED open /\ phase' = [phase EXCEPT ![d] = "serving"]
    BY <1>2 DEF Listen, StopListening, Fail, Own
  <2> HIDE DEF ListenInv
  <2>4. ASSUME NEW e \in AllDevices, phase'[e] = "serving"
        PROVE  Own(e) \subseteq open'
    BY <1>0, <2>2, <2>3, <2>4 DEF ListenInv
  <2> QED
    BY <2>2, <2>4 DEF ListenInv
<1>3. CASE UNCHANGED <<plan, open>>
  <2>1. CASE UNCHANGED phase
    BY <1>0, <1>3, <2>1 DEF Own
  <2>2. ASSUME NEW d \in AllDevices,
               \/ StartClient(d) \/ Register(d) \/ SubscribeAll(d) \/ Subscribe(d)
               \/ CloseSessions(d) \/ Return(d),
               phase' = [phase EXCEPT ![d] = phase'[d]]
        PROVE  ListenInv'
    <3>1. phase'[d] # "serving"
      BY <1>0, <2>2 DEF StartClient, Register, SubscribeAll, Subscribe, CloseSessions,
             Return, Fail
    <3> QED
      BY <1>0, <1>3, <2>2, <3>1 DEF Own
  <2> QED
    BY <1>2, <1>3, <2>1, <2>2, PhaseSteps
<1>4. \/ UNCHANGED <<plan, open>> \/ ReadRoutes
      \/ \E d \in AllDevices : UNCHANGED plan /\ (Listen(d) \/ StopListening(d))
  BY DEF Next, Main, Goroutine, Connect, Build, Interrupt, Exit, HealthListens,
         HealthEnds, HealthStops, GatewayReturns, Manage, ConnEnds, LinkLost, CloseAllSessions,
         CloseClient, EmptyClient, Accept, AppendClient, StartClient, Register,
         SubscribeAll, Subscribe,
         Listen, StopListening, CloseSessions, Return, vars, config
<1> QED
  BY <1>1, <1>2, <1>3, <1>4

(* An address that one client listens on leads to no other's device.       *)
LEMMA AcceptedByOwner ==
  ASSUME Inv, NEW d \in AllDevices, Accept(d)
  PROVE  \E c : /\ conns' = conns \cup {c} /\ c.route.device = d
                /\ c.at = "handler" /\ c.old = FALSE
<1>1. PICK a \in open \cap Own(d), i \in DOMAIN plan, n \in 1..MaxConns :
         /\ plan[i].listen = a
         /\ conns' = conns \cup {[id |-> n, route |-> plan[i], at |-> "handler", old |-> FALSE]}
  BY DEF Accept
<1>2. Acceptable(plan)
  BY DEF Inv, StartInv, PlanInv, Accept
<1>3. PICK j \in DOMAIN plan : plan[j].device = d /\ plan[j].listen = a
  BY DEF Own, ForDevice
<1>4. plan[i].device = d
  BY <1>1, <1>2, <1>3 DEF Acceptable
<1> DEFINE c == [id |-> n, route |-> plan[i], at |-> "handler", old |-> FALSE]
<1>5. conns' = conns \cup {c} /\ c.route.device = d /\ c.at = "handler" /\ c.old = FALSE
  BY <1>1, <1>4
<1> QED
  BY <1>5

(* Every other step keeps connections, wherever their sessions are now, or *)
(* ends them.                                                              *)
LEMMA ConnsStep ==
  ASSUME Inv, [Next]_vars, \A d \in AllDevices : ~ Accept(d)
  PROVE  \A c \in conns' : \E b \in conns : c.route = b.route
<1>1. CASE conns' \subseteq conns
  BY <1>1
<1>2. CASE Manage
  <2>1. PICK b \in conns : conns' = (conns \ {b}) \cup {[b EXCEPT !.at = "map"]}
    BY <1>2 DEF Manage
  <2>2. [b EXCEPT !.at = "map"].route = b.route
    BY DEF Inv, TypeOK
  <2> QED
    BY <2>1, <2>2
<1>3. CASE LinkLost
  <2>1. conns' = {[b EXCEPT !.old = (b.at = "map")] : b \in conns}
    BY <1>3 DEF LinkLost
  <2>2. \A b \in conns : [b EXCEPT !.old = (b.at = "map")].route = b.route
    BY DEF Inv, TypeOK
  <2> QED
    BY <2>1, <2>2
<1>4. CASE \E d : ReplaceMap(d)
  BY <1>4, MapReplaced DEF Inv, SessionsOf
<1>5. conns' \subseteq conns \/ Manage \/ LinkLost \/ \E d : ReplaceMap(d)
  <2>1. \/ UNCHANGED conns \/ Exit \/ ConnEnds \/ Manage \/ LinkLost \/ CloseClient \/ EmptyClient
        \/ \E d \in AllDevices : CloseSessions(d) \/ Return(d)
    BY DEF Next, Main, Goroutine, ReadRoutes, Connect, Build, Interrupt, HealthListens,
           HealthEnds, HealthStops, GatewayReturns, CloseAllSessions, AppendClient, StartClient,
           Register, SubscribeAll, Subscribe, Listen, StopListening, vars
  <2> QED
    BY <2>1 DEF Exit, ConnEnds, CloseClient, EmptyClient, CloseSessions, Return, CloseMapped
<1> QED
  BY <1>1, <1>2, <1>3, <1>4, <1>5

LEMMA ConnStep ==
  ASSUME Inv, [Next]_vars
  PROVE  ConnInv'
<1> USE DEF ConnInv
<1>0. /\ ConnInv
      /\ phase \in [AllDevices -> Ended \cup {"new", "registered", "subscribing", "listening",
                                               "serving", "draining", "emptying"}]
      /\ \A c \in conns : c.route.device \in AllDevices
  BY DEF Inv, TypeOK, Planned, Devices
<1>1. ASSUME NEW d \in AllDevices, Accept(d)
      PROVE  ConnInv'
  <2>1. phase[d] = "serving" /\ phase' = phase
    BY <1>1 DEF Accept
  <2>2. PICK c : conns' = conns \cup {c} /\ c.route.device = d
    BY <1>1, AcceptedByOwner
  <2> QED
    BY <1>0, <2>1, <2>2
<1>2. ASSUME NEW d \in AllDevices, phase[d] \in {"serving", "draining", "emptying", "done"}
      PROVE  phase'[d] \in {"serving", "draining", "emptying", "done"}
  <2>1. CASE UNCHANGED phase
    BY <1>2, <2>1
  <2>2. ASSUME NEW e \in AllDevices,
               StartClient(e) \/ Register(e) \/ SubscribeAll(e) \/ Subscribe(e)
                  \/ Listen(e) \/ StopListening(e) \/ CloseSessions(e) \/ Return(e),
               phase' = [phase EXCEPT ![e] = phase'[e]]
        PROVE  phase'[d] \in {"serving", "draining", "emptying", "done"}
    <3>1. CASE e # d
      BY <1>0, <1>2, <2>2, <3>1
    <3>2. CASE e = d
      <4>1. ~ StartClient(d)
        BY <1>2 DEF Inv, StartInv, StartClient
      <4> QED
        BY <1>0, <1>2, <2>2, <3>2, <4>1 DEF Register, SubscribeAll, Subscribe, Listen,
                                            StopListening, CloseSessions, Return
    <3> QED
      BY <3>1, <3>2
  <2> QED
    BY <2>1, <2>2, PhaseSteps
<1>3. CASE \A d \in AllDevices : ~ Accept(d)
  BY <1>0, <1>2, <1>3, ConnsStep
<1> QED
  BY <1>1, <1>3

(* What has ended stays so, and losses are counted; clients stop only in   *)
(* a context that has ended.                                               *)
LEMMA DrainStep ==
  ASSUME Inv, [Next]_vars
  PROVE  /\ DrainInv'
         /\ inner = "ended" => inner' = "ended"
         /\ losses \in Nat /\ losses' \in Nat /\ losses <= losses'
<1>0. /\ DrainInv /\ losses \in Nat
      /\ phase \in [AllDevices -> Ended \cup {"new", "registered", "subscribing", "listening",
                                               "serving", "draining", "emptying"}]
  BY GatewayAssumption DEF Inv, TypeOK, GatewayAssumption
<1>1. inner = "ended" => inner' = "ended"
  BY DEF Next, Main, Goroutine, ReadRoutes, Connect, Build, Interrupt, Exit, HealthListens,
         HealthEnds, HealthStops, GatewayReturns, EndOuter, Manage, ConnEnds, LinkLost,
         CloseAllSessions, CloseClient, EmptyClient, Accept, AppendClient, StartClient, Register,
         SubscribeAll, Subscribe, Listen, Fail, StopListening, CloseSessions, Return, vars
<1>2. losses' = losses \/ losses' = losses + 1
  BY DEF Next, Main, Goroutine, ReadRoutes, Connect, Build, Interrupt, Exit, HealthListens,
         HealthEnds, HealthStops, GatewayReturns, Manage, ConnEnds, LinkLost, CloseAllSessions,
         CloseClient, EmptyClient, Accept, AppendClient, StartClient, Register, SubscribeAll,
         Subscribe, Listen, StopListening, CloseSessions, Return, lost, vars
<1>3. DrainInv'
  <2>1. CASE UNCHANGED phase
    BY <1>0, <1>1, <2>1 DEF DrainInv
  <2>2. ASSUME NEW d \in AllDevices,
               StartClient(d) \/ Register(d) \/ SubscribeAll(d) \/ Subscribe(d)
                  \/ Listen(d) \/ StopListening(d) \/ CloseSessions(d) \/ Return(d),
               phase' = [phase EXCEPT ![d] = phase'[d]]
        PROVE  DrainInv'
    <3>1. phase'[d] \in {"draining", "emptying"} => inner = "ended"
      BY <1>0, <2>2 DEF StartClient, Register, SubscribeAll, Subscribe, Listen, StopListening,
                        CloseSessions, Return, Fail, Context, DrainInv
    <3> QED
      BY <1>0, <1>1, <2>2, <3>1 DEF DrainInv
  <2> QED
    BY <2>1, <2>2, PhaseSteps
<1> QED
  BY <1>0, <1>1, <1>2, <1>3

LEMMA EventStep ==
  ASSUME Inv, [Next]_vars
  PROVE  EventInv'
<1> USE DEF EventInv
<1>0. EventInv /\ losses \in Nat
  BY GatewayAssumption DEF Inv, TypeOK, GatewayAssumption
<1>1. CASE LinkLost
  BY <1>0, <1>1 DEF LinkLost
<1>2. CASE CloseAllSessions
  BY <1>0, <1>2 DEF CloseAllSessions
<1>3. CASE CloseClient
  BY <1>0, <1>3 DEF CloseClient
<1>4. CASE EmptyClient
  BY <1>0, <1>4 DEF EmptyClient
<1>5. CASE UNCHANGED lost
  BY <1>0, <1>5 DEF lost
<1>6. UNCHANGED lost \/ LinkLost \/ CloseAllSessions \/ CloseClient \/ EmptyClient
  <2>1. CASE Main
    BY <2>1 DEF Main, ReadRoutes, Connect, Build, HealthListens, HealthStops, HealthEnds,
               GatewayReturns, Exit
  <2>2. CASE Interrupt \/ HealthEnds \/ Manage \/ ConnEnds \/ LinkLost
    BY <2>2 DEF Interrupt, HealthEnds, Manage, ConnEnds
  <2>3. ASSUME NEW d \in AllDevices, Goroutine(d) \/ Accept(d)
        PROVE  UNCHANGED lost
    BY <2>3 DEF Goroutine, AppendClient, StartClient, Register, SubscribeAll, Subscribe, Listen,
               StopListening, CloseSessions, Return, Accept
  <2>4. CASE UNCHANGED vars
    BY <2>4 DEF vars, lost
  <2> QED
    BY <2>1, <2>2, <2>3, <2>4 DEF Next
<1> QED
  BY <1>1, <1>2, <1>3, <1>4, <1>5, <1>6

(* How a step changes where sessions are and how old they are.             *)
LEMMA OldStep ==
  ASSUME Inv, [Next]_vars
  PROVE  OrphanInv' /\ OldInv'
<1> USE DEF OrphanInv, OldInv
<1>0. /\ OrphanInv /\ OldInv /\ EventInv
      /\ \A c \in conns : c.at \in {"handler", "map", "nowhere"} /\ c.old \in BOOLEAN
      /\ inner = "ended" => inner' = "ended"
      /\ losses \in Nat /\ losses' \in Nat /\ losses <= losses'
  BY DrainStep DEF Inv, TypeOK
<1>1. ASSUME NEW d \in AllDevices, Accept(d)
      PROVE  OrphanInv' /\ OldInv'
  <2>1. PICK c : conns' = conns \cup {c} /\ c.at = "handler" /\ c.old = FALSE
    BY <1>1, AcceptedByOwner
  <2> QED
    BY <1>0, <1>1, <2>1 DEF Accept, lost
<1>2. CASE Manage
  <2>1. PICK b \in conns : /\ b.at = "handler"
                           /\ conns' = (conns \ {b}) \cup {[b EXCEPT !.at = "map"]}
    BY <1>2 DEF Manage
  <2> DEFINE m == [b EXCEPT !.at = "map"]
  <2>2. m.at = "map" /\ m.old = b.old
    BY DEF Inv, TypeOK
  <2>3. UNCHANGED <<inner, losses, event, toClose>>
    BY <1>2 DEF Manage, lost
  <2>4. conns' = (conns \ {b}) \cup {m}
    BY <2>1
  <2> HIDE DEF m
  <2> QED
    BY <1>0, <2>1, <2>2, <2>3, <2>4
<1>3. CASE LinkLost
  <2>1. /\ conns' = {[b EXCEPT !.old = (b.at = "map")] : b \in conns}
        /\ event' = "pending" /\ losses' = losses + 1
    BY <1>3 DEF LinkLost
  <2>2. \A b \in conns : LET m == [b EXCEPT !.old = (b.at = "map")]
                         IN  m.old = (b.at = "map") /\ m.at = b.at
    BY DEF Inv, TypeOK
  <2>3. ASSUME NEW c \in conns'
        PROVE  /\ c.old => c.at = "map"
               /\ c.at = "nowhere" => losses > 0 \/ inner = "ended"
    <3>1. PICK b \in conns : c = [b EXCEPT !.old = (b.at = "map")]
      BY <2>1
    <3>2. c.old = (b.at = "map") /\ c.at = b.at
      BY <2>2, <3>1
    <3> QED
      BY <1>0, <3>2
  <2> QED
    BY <1>0, <2>1, <2>3
<1>4. CASE CloseAllSessions
  <2>1. ASSUME NEW c \in conns
        PROVE  c.route.device \in ClientsToClose
    <3>1. c.route.device \in clients
      BY DEF Inv, TypeOK, ConnInv, StartInv, Planned, Devices
    <3>2. stage = "run"
      BY <1>4, <3>1 DEF Inv, PlanInv, TypeOK, CloseAllSessions
    <3> QED
      BY <3>1, <3>2 DEF ClientsToClose
  <2> QED
    BY <1>0, <1>4, <2>1 DEF CloseAllSessions
<1>5. CASE CloseClient
  <2>1. PICK d \in toClose : /\ conns' = conns \ SessionsOf(d) /\ toClose' = toClose \ {d}
                             /\ UNCHANGED <<inner, losses, event>>
    BY <1>5 DEF CloseClient, CloseMapped
  <2> QED
    BY <1>0, <2>1 DEF SessionsOf
<1>6. CASE EmptyClient
  <2>1. PICK d \in emptying : ReplaceMap(d)
    BY <1>6 DEF EmptyClient
  <2>2. /\ UNCHANGED <<inner, losses, toClose>> /\ event = "closing" /\ losses > 0
        /\ event' = (IF toClose = {} THEN "none" ELSE "closing") /\ d \notin toClose
    BY <1>0, <1>6, <2>1 DEF EmptyClient, EventInv
  <2>3. \A b \in SessionsOf(d) : b.old = FALSE
    BY <1>0, <2>2 DEF SessionsOf
  <2>4. ASSUME NEW c \in conns'
        PROVE  c \in conns \/ (c.at = "nowhere" /\ c.old = FALSE)
    BY <2>1, <2>3, <2>4, MapReplaced DEF Inv
  <2> QED
    BY <1>0, <2>2, <2>4
<1>7. ASSUME NEW d \in AllDevices, Return(d)
      PROVE  OrphanInv' /\ OldInv'
  <2>1. inner = "ended" /\ ReplaceMap(d) /\ UNCHANGED <<inner, losses, event, toClose>>
    BY <1>7 DEF Return, lost, Inv, DrainInv
  <2>2. ASSUME NEW c \in conns'
        PROVE  c \in conns \/ c.at = "nowhere"
    BY <2>1, <2>2, MapReplaced DEF Inv
  <2> QED
    BY <1>0, <2>1, <2>2
<1>8. CASE conns' \subseteq conns /\ UNCHANGED <<event, toClose>>
  BY <1>0, <1>8
<1>9. \/ conns' \subseteq conns /\ UNCHANGED <<event, toClose>>
      \/ Manage \/ LinkLost \/ CloseAllSessions \/ CloseClient \/ EmptyClient
      \/ \E d \in AllDevices : Accept(d) \/ Return(d)
  BY DEF Next, Main, Goroutine, ReadRoutes, Connect, Build, Interrupt, Exit, HealthListens,
         HealthEnds, HealthStops, GatewayReturns, ConnEnds, AppendClient, StartClient,
         Register, SubscribeAll, Subscribe, Listen, StopListening, CloseSessions, CloseMapped,
         vars, lost
<1> QED
  BY <1>1, <1>2, <1>3, <1>4, <1>5, <1>6, <1>7, <1>8, <1>9

LEMMA Inductive == Spec => []Inv
<1>1. ASSUME Inv, [Next]_vars
      PROVE  Inv'
  BY <1>1, TypeStep, PlanStep, StartStep, FilterStep, ListenStep, ConnStep, DrainStep, EventStep,
     OldStep DEF Inv
<1> QED
  BY <1>1, Initially, PTL DEF Spec

-----------------------------------------------------------------------------
(* Theorems, for every set of inputs, any number of routes, devices and    *)
(* connections, and any number of losses of the broker.                    *)

(* The variables keep their types: clients are made for planned devices    *)
(* only, and the router holds the filters of these clients only.           *)
THEOREM TypeCorrect == Spec => []TypeOK
BY Inductive, PTL DEF Inv

(* What the user wrote is what is listened on, and every connection goes   *)
(* to the device and the target meant for its address, whatever the        *)
(* configuration and the flags override, repeat or leave out.              *)
THEOREM RoutesAreServed == Spec => []RoutesServed
<1>1. ASSUME Inv
      PROVE  RoutesServed
  <2>0. TypeOK /\ PlanInv /\ StartInv /\ ListenInv /\ ConnInv
    BY <1>1 DEF Inv
  <2>1. ASSUME stage = "run" \/ clients # {}
        PROVE  Listens(plan) = Wanted /\ \A k \in DOMAIN plan : Meant(plan[k].listen) = {plan[k]}
    <3>1. plan # <<>> /\ Acceptable(plan)
      BY <2>0, <2>1 DEF PlanInv
    <3>2. PICK routes \in ParseRouteFlags(input.flags) : plan = Merge(input.config, routes)
      BY <2>0, <3>1 DEF PlanInv
    <3>3. input \in Inputs
      BY <2>0 DEF TypeOK
    <3> QED
      BY <3>1, <3>2, <3>3, PlanIsMeant
  <2>2. open \subseteq Wanted
    <3>1. CASE clients = {}
      BY <2>0, <3>1 DEF PlanInv
    <3>2. CASE clients # {}
      BY <2>0, <2>1, <3>2 DEF TypeOK
    <3> QED
      BY <3>1, <3>2
  <2>3. ASSUME stage = "run", \A d \in Planned : phase[d] = "serving"
        PROVE  Wanted \subseteq open
    <3>1. ASSUME NEW i \in DOMAIN plan
          PROVE  plan[i].listen \in open
      <4>1. plan[i].device \in Planned /\ plan[i].device \in AllDevices
        BY <2>0 DEF TypeOK, Planned, Devices
      <4>2. plan[i].listen \in Own(plan[i].device)
        BY DEF Own, ForDevice
      <4> QED
        BY <2>0, <2>3, <4>1, <4>2 DEF ListenInv
    <3> QED
      BY <2>1, <2>3, <3>1 DEF Listens
  <2>4. ASSUME NEW c \in conns
        PROVE  Meant(c.route.listen) = {c.route}
    <3>1. PICK i \in DOMAIN plan : c.route = plan[i]
      BY <2>0 DEF TypeOK
    <3>2. c.route.device \in clients
      BY <2>0, <3>1 DEF TypeOK, ConnInv, StartInv, Planned, Devices
    <3> QED
      BY <2>1, <3>1, <3>2
  <2> QED
    BY <2>2, <2>3, <2>4 DEF RoutesServed
<1> QED
  BY <1>1, Inductive, PTL

(* No connection is accepted before its device's filters are subscribed,   *)
(* although any client subscribes any client's filters.                    *)
THEOREM SubscribedBeforeAccept == Spec => []ReadyBeforeAccept
<1>1. ASSUME Inv
      PROVE  ReadyBeforeAccept
  <2> SUFFICES ASSUME NEW c \in conns
               PROVE  FiltersOf(c.route.device) \subseteq broker
    BY DEF ReadyBeforeAccept
  <2>1. c.route.device \in AllDevices
    BY <1>1 DEF Inv, TypeOK, Planned, Devices
  <2>2. phase[c.route.device] \in {"serving", "draining", "emptying", "done"}
    BY <1>1 DEF Inv, ConnInv
  <2> QED
    BY <1>1, <2>1, <2>2 DEF Inv, FilterInv
<1> QED
  BY <1>1, Inductive, PTL

(* After the event handler has run, no session of any client is left that  *)
(* was in its client's map when the connection was last lost, however      *)
(* sessions are added while it closes and then replaces the maps, and      *)
(* however many losses came before: only a client that stops throws such a *)
(* session out of its map unclosed.                                        *)
THEOREM OldSessionsAreCut == Spec => []CutOff
<1>1. Inv => CutOff
  BY DEF Inv, TypeOK, OldInv, OrphanInv, CutOff
<1> QED
  BY <1>1, Inductive, PTL

-----------------------------------------------------------------------------
(* What Parse reads.  First the words of a text: those of two texts put    *)
(* together are the words of the first and then those of the second.       *)

Tokens == Words \cup {":", "[", "]", "localhost"}

Places(s) == {i \in DOMAIN s : s[i] \in Words}

(* There is one way to put a set of places in order.                       *)
LEMMA OnlyOrder ==
  ASSUME NEW n \in Nat, NEW I \in SUBSET (1..n), NEW c \in Nat, NEW f \in [1..c -> I],
         Increasing(f), \A i \in I : \E k \in 1..c : f[k] = i
  PROVE  InOrder(I) = f
<1> DEFINE g == InOrder(I)
           d == Cardinality(I)
<1>1. d \in Nat /\ g \in [1..d -> I] /\ \A i \in I : \E k \in 1..d : g[k] = i
  BY InOrderLists
<1>2. Increasing(g)
  <2>1. \E t \in [1..d -> I] : Increasing(t)
    BY OrderExists
  <2> QED
    BY <2>1 DEF InOrder, Increasing
<1>3. d = c
  <2>1. \A j, k \in 1..c : f[j] = f[k] => j = k
    <3> SUFFICES ASSUME NEW j \in 1..c, NEW k \in 1..c, f[j] = f[k], j # k
                 PROVE  FALSE
      OBVIOUS
    <3>1. j < k \/ k < j
      OBVIOUS
    <3>2. f[j] \in 1..n /\ f[k] \in 1..n
      OBVIOUS
    <3> QED
      BY <3>1, <3>2 DEF Increasing
  <2>2. f \in Bijection(1..c, I)
    BY <2>1 DEF Bijection, Injection, Surjection, IsInjective
  <2>3. IsFiniteSet(1..c) /\ Cardinality(1..c) = c
    BY FS_Interval
  <2> QED
    BY <2>2, <2>3, FS_Bijection DEF ExistsBijection
<1> DEFINE Same == {k \in Nat : \A j \in 1..k : j <= c => f[j] = g[j]}
<1> HIDE DEF g, d
<1>4. 0 \in Same
  OBVIOUS
<1>5. \A k \in Nat : k \in Same => k + 1 \in Same
  <2> SUFFICES ASSUME NEW k \in Nat, k \in Same, k + 1 <= c
               PROVE  f[k + 1] = g[k + 1]
    OBVIOUS
  <2>1. k + 1 \in 1..c /\ \A j \in 1..k : j \in 1..c /\ f[j] = g[j]
    OBVIOUS
  <2>2. /\ f[k + 1] \in I /\ f[k + 1] \in 1..n
        /\ g[k + 1] \in I /\ g[k + 1] \in 1..n
    BY <1>1, <1>3, <2>1
  <2>3. ASSUME f[k + 1] < g[k + 1] PROVE FALSE
    <3>1. PICK j \in 1..c : g[j] = f[k + 1]
      BY <1>1, <1>3, <2>2
    <3>2. ~(k + 1 < j)
      <4>1. k + 1 < j => g[k + 1] < g[j]
        BY <1>1, <1>2, <1>3, <2>1 DEF Increasing
      <4> QED
        BY <2>2, <2>3, <3>1, <4>1
    <3>3. j # k + 1
      BY <2>2, <2>3, <3>1
    <3>4. j \in 1..k
      BY <3>2, <3>3
    <3>5. f[j] = f[k + 1] /\ f[j] < f[k + 1]
      BY <2>1, <3>1, <3>4 DEF Increasing
    <3> QED
      BY <2>2, <3>5
  <2>4. ASSUME g[k + 1] < f[k + 1] PROVE FALSE
    <3>1. PICK j \in 1..c : f[j] = g[k + 1]
      BY <2>2
    <3>2. ~(k + 1 < j)
      <4>1. k + 1 < j => f[k + 1] < f[j]
        BY <2>1 DEF Increasing
      <4> QED
        BY <2>2, <2>4, <3>1, <4>1
    <3>3. j # k + 1
      BY <2>2, <2>4, <3>1
    <3>4. j \in 1..k
      BY <3>2, <3>3
    <3>5. g[j] = g[k + 1] /\ g[j] < g[k + 1]
      BY <1>1, <1>2, <1>3, <2>1, <3>1, <3>4 DEF Increasing
    <3> QED
      BY <2>2, <3>5
  <2> QED
    BY <2>2, <2>3, <2>4
<1>6. Nat \subseteq Same
  <2> HIDE DEF Same
  <2> QED
    BY <1>4, <1>5, AllNaturals
<1>7. \A j \in 1..c : f[j] = g[j]
  <2>1. c \in Same
    BY <1>6
  <2> QED
    BY <2>1
<1>8. f = g
  BY <1>1, <1>3, <1>7
<1> QED
  BY <1>8 DEF g

LEMMA WordsList ==
  ASSUME NEW S, NEW s \in Seq(S)
  PROVE  /\ Places(s) \in SUBSET (1..Len(s)) /\ Len(s) \in Nat
         /\ Cardinality(Places(s)) \in Nat
         /\ InOrder(Places(s)) \in [1..Cardinality(Places(s)) -> Places(s)]
         /\ Increasing(InOrder(Places(s)))
         /\ \A i \in Places(s) : \E k \in 1..Cardinality(Places(s)) : InOrder(Places(s))[k] = i
         /\ WordsOf(s) = [k \in 1..Cardinality(Places(s)) |-> s[InOrder(Places(s))[k]]]
         /\ WordsOf(s) \in Seq(S) /\ Len(WordsOf(s)) = Cardinality(Places(s))
<1> DEFINE I == Places(s)
           c == Cardinality(I)
           p == InOrder(I)
<1>1. I \in SUBSET (1..Len(s)) /\ Len(s) \in Nat
  BY DEF Places
<1>2. c \in Nat /\ p \in [1..c -> I] /\ \A i \in I : \E k \in 1..c : p[k] = i
  <2> HIDE DEF I
  <2> QED
    BY <1>1, InOrderLists
<1>3. Increasing(p)
  <2>1. \E t \in [1..c -> I] : Increasing(t)
    <3> HIDE DEF I
    <3> QED
      BY <1>1, OrderExists
  <2> QED
    BY <2>1 DEF InOrder, Increasing
<1>4. WordsOf(s) = [k \in DOMAIN p |-> s[p[k]]]
  BY DEF WordsOf, Places
<1> HIDE DEF p, c, I
<1>5. WordsOf(s) = [k \in 1..c |-> s[p[k]]]
  BY <1>2, <1>4
<1>6. \A k \in 1..c : s[p[k]] \in S
  <2> TAKE k \in 1..c
  <2>1. p[k] \in 1..Len(s)
    BY <1>1, <1>2
  <2> QED
    BY <2>1
<1>7. WordsOf(s) \in [1..c -> S]
  BY <1>5, <1>6
<1>8. WordsOf(s) \in Seq(S) /\ Len(WordsOf(s)) = c
  BY <1>2, <1>7, FunctionIsSequence
<1> QED
  BY <1>1, <1>2, <1>3, <1>5, <1>8 DEF p, c, I

LEMMA WordsOfConcatenation ==
  ASSUME NEW S, NEW a \in Seq(S), NEW b \in Seq(S)
  PROVE  WordsOf(a \o b) = WordsOf(a) \o WordsOf(b)
<1> DEFINE m == Len(a)
           n == Len(a \o b)
           p == InOrder(Places(a))
           q == InOrder(Places(b))
           c == Cardinality(Places(a))
           d == Cardinality(Places(b))
           f == [k \in 1..c+d |-> IF k <= c THEN p[k] ELSE m + q[k - c]]
<1>1. /\ a \o b \in Seq(S) /\ m \in Nat /\ Len(b) \in Nat /\ n = m + Len(b)
      /\ \A i \in 1..m : (a \o b)[i] = a[i]
      /\ \A i \in 1..Len(b) : (a \o b)[m + i] = b[i]
  <2>1. Len(a) \in Nat /\ Len(b) \in Nat
    OBVIOUS
  <2>2. /\ a \o b \in Seq(S) /\ Len(a \o b) = Len(a) + Len(b)
        /\ \A i \in 1..Len(a) + Len(b) :
              (a \o b)[i] = IF i <= Len(a) THEN a[i] ELSE b[i - Len(a)]
    BY ConcatProperties
  <2>3. \A i \in 1..Len(b) : (a \o b)[Len(a) + i] = b[i]
    <3> TAKE i \in 1..Len(b)
    <3>1. Len(a) + i \in 1..Len(a) + Len(b) /\ ~(Len(a) + i <= Len(a)) /\ (Len(a) + i) - Len(a) = i
      BY <2>1
    <3> QED
      BY <2>2, <3>1
  <2> QED
    BY <2>1, <2>2, <2>3
<1>2. /\ c \in Nat /\ p \in [1..c -> Places(a)] /\ Increasing(p)
      /\ \A i \in Places(a) : \E k \in 1..c : p[k] = i
      /\ WordsOf(a) = [k \in 1..c |-> a[p[k]]] /\ WordsOf(a) \in Seq(S) /\ Len(WordsOf(a)) = c
      /\ Places(a) \in SUBSET (1..m)
  BY WordsList
<1>3. /\ d \in Nat /\ q \in [1..d -> Places(b)] /\ Increasing(q)
      /\ \A i \in Places(b) : \E k \in 1..d : q[k] = i
      /\ WordsOf(b) = [k \in 1..d |-> b[q[k]]] /\ WordsOf(b) \in Seq(S) /\ Len(WordsOf(b)) = d
      /\ Places(b) \in SUBSET (1..Len(b))
  BY WordsList
<1>4. /\ Places(a \o b) \in SUBSET (1..n) /\ n \in Nat
      /\ Cardinality(Places(a \o b)) \in Nat
      /\ WordsOf(a \o b) = [k \in 1..Cardinality(Places(a \o b))
                               |-> (a \o b)[InOrder(Places(a \o b))[k]]]
      /\ InOrder(Places(a \o b)) \in [1..Cardinality(Places(a \o b)) -> Places(a \o b)]
      /\ WordsOf(a \o b) \in Seq(S) /\ Len(WordsOf(a \o b)) = Cardinality(Places(a \o b))
  <2>1. a \o b \in Seq(S)
    BY <1>1
  <2> QED
    BY <2>1, WordsList
<1>5. \A i \in 1..n : i \in Places(a \o b) <=>
                         i \in Places(a) \/ i - m \in Places(b)
  <2> TAKE i \in 1..n
  <2>1. CASE i <= m
    <3>1. i \in 1..m /\ i - m \notin 1..Len(b)
      BY <1>1, <2>1
    <3>2. (a \o b)[i] = a[i] /\ DOMAIN a = 1..m /\ DOMAIN (a \o b) = 1..n
      BY <1>1, <3>1
    <3> QED
      BY <1>3, <3>1, <3>2 DEF Places
  <2>2. CASE i > m
    <3>1. i \notin 1..m /\ i - m \in 1..Len(b) /\ m + (i - m) = i
      BY <1>1, <2>2
    <3>2. (a \o b)[i] = b[i - m] /\ DOMAIN b = 1..Len(b) /\ DOMAIN (a \o b) = 1..n
      BY <1>1, <3>1
    <3> QED
      BY <1>2, <3>1, <3>2 DEF Places
  <2> QED
    BY <1>1, <2>1, <2>2
<1> HIDE DEF m, n, p, q, c, d
<1>6. \A k \in 1..c : k \in 1..c+d /\ f[k] = p[k] /\ p[k] \in Places(a) /\ p[k] \in 1..m
  BY <1>2, <1>3
<1>7. \A k \in 1..d : /\ c + k \in 1..c+d /\ f[c + k] = m + q[k]
                      /\ q[k] \in Places(b) /\ q[k] \in 1..Len(b)
  BY <1>2, <1>3
<1>8. \A k \in 1..c+d : k \in 1..c \/ (k - c \in 1..d /\ c + (k - c) = k)
  BY <1>2, <1>3
<1> HIDE DEF f
<1>9. \A k \in 1..c+d : f[k] \in Places(a \o b)
  <2> TAKE k \in 1..c+d
  <2>1. CASE k \in 1..c
    <3>1. f[k] \in Places(a) /\ f[k] \in 1..n
      BY <1>1, <1>6, <2>1
    <3> QED
      BY <1>5, <3>1
  <2>2. CASE k - c \in 1..d /\ c + (k - c) = k
    <3>1. f[k] = m + q[k - c] /\ q[k - c] \in Places(b) /\ q[k - c] \in 1..Len(b)
      BY <1>7, <2>2
    <3>2. f[k] \in 1..n /\ f[k] - m = q[k - c]
      BY <1>1, <3>1
    <3> QED
      BY <1>5, <3>1, <3>2
  <2> QED
    BY <1>8, <2>1, <2>2
<1>10. f \in [1..c+d -> Places(a \o b)]
  BY <1>9 DEF f
<1>11. Increasing(f)
  <2> SUFFICES ASSUME NEW j \in 1..c+d, NEW k \in 1..c+d, j < k
               PROVE  f[j] < f[k]
    BY <1>10 DEF Increasing
  <2>1. CASE j \in 1..c /\ k \in 1..c
    BY <1>2, <1>6, <2>1 DEF Increasing
  <2>2. CASE j \in 1..c /\ k - c \in 1..d /\ c + (k - c) = k
    <3>1. f[j] \in 1..m /\ f[k] = m + q[k - c] /\ q[k - c] \in 1..Len(b)
      BY <1>6, <1>7, <2>2
    <3> QED
      BY <1>1, <3>1
  <2>3. CASE j - c \in 1..d /\ c + (j - c) = j /\ k - c \in 1..d /\ c + (k - c) = k
    <3>1. /\ f[j] = m + q[j - c] /\ f[k] = m + q[k - c]
          /\ q[j - c] \in 1..Len(b) /\ q[k - c] \in 1..Len(b)
      BY <1>7, <2>3
    <3>2. q[j - c] < q[k - c]
      <4>1. j - c < k - c
        BY <1>2, <1>3
      <4> QED
        BY <1>3, <2>3, <4>1 DEF Increasing
    <3> QED
      BY <1>1, <3>1, <3>2
  <2>4. ~(j - c \in 1..d /\ k \in 1..c)
    BY <1>2, <1>3
  <2> QED
    BY <1>8, <2>1, <2>2, <2>3, <2>4
<1>12. \A i \in Places(a \o b) : \E k \in 1..c+d : f[k] = i
  <2> TAKE i \in Places(a \o b)
  <2>1. i \in 1..n
    BY <1>4
  <2>2. CASE i \in Places(a)
    BY <1>2, <1>6, <2>2
  <2>3. CASE i - m \in Places(b)
    <3>1. PICK k \in 1..d : q[k] = i - m
      BY <1>3, <2>3
    <3>2. f[c + k] = i
      BY <1>1, <1>7, <2>1, <3>1
    <3> QED
      BY <1>7, <3>2
  <2> QED
    BY <1>5, <2>1, <2>2, <2>3
<1>13. InOrder(Places(a \o b)) = f
  <2>1. c + d \in Nat
    BY <1>2, <1>3
  <2> QED
    BY <1>4, <1>10, <1>11, <1>12, <2>1, OnlyOrder
<1>14. Cardinality(Places(a \o b)) = c + d
  <2>1. DOMAIN f = 1..Cardinality(Places(a \o b)) /\ DOMAIN f = 1..c+d
    BY <1>4, <1>10, <1>13
  <2>2. Cardinality(Places(a \o b)) \in Nat /\ c + d \in Nat
    BY <1>2, <1>3, <1>4
  <2> QED
    BY <2>1, <2>2
<1> DEFINE u == WordsOf(a)
           v == WordsOf(b)
           w == WordsOf(a \o b)
<1>15. /\ u \o v \in Seq(S) /\ Len(u \o v) = c + d
       /\ \A k \in 1..c+d : (u \o v)[k] = IF k <= c THEN u[k] ELSE v[k - c]
  BY <1>2, <1>3, ConcatProperties
<1>16. w \in Seq(S) /\ Len(w) = c + d /\ \A k \in 1..c+d : w[k] = (a \o b)[f[k]]
  BY <1>4, <1>13, <1>14
<1> HIDE DEF u, v, w
<1>17. ASSUME NEW k \in 1..c+d PROVE w[k] = (u \o v)[k]
  <2>1. CASE k \in 1..c
    <3>1. u[k] = a[p[k]]
      BY <1>2, <2>1 DEF u
    <3>2. f[k] = p[k] /\ p[k] \in 1..m
      BY <1>6, <2>1
    <3>3. w[k] = a[p[k]]
      BY <1>1, <1>16, <3>2
    <3>4. k <= c
      BY <1>2, <2>1
    <3>5. (u \o v)[k] = u[k]
      BY <1>15, <3>4
    <3> QED
      BY <3>1, <3>3, <3>5
  <2>2. CASE k - c \in 1..d /\ c + (k - c) = k
    <3>1. f[k] = m + q[k - c] /\ q[k - c] \in 1..Len(b)
      BY <1>7, <2>2
    <3>2. v[k - c] = b[q[k - c]]
      BY <1>3, <2>2 DEF v
    <3>3. w[k] = b[q[k - c]]
      <4>1. w[k] = (a \o b)[m + q[k - c]]
        BY <1>16, <3>1
      <4> DEFINE j == q[k - c]
      <4>2. j \in 1..Len(b) /\ w[k] = (a \o b)[m + j]
        BY <3>1, <4>1
      <4> HIDE DEF j
      <4>3. w[k] = b[j]
        BY <1>1, <4>2
      <4> QED
        BY <4>3 DEF j
    <3>4. ~(k <= c)
      BY <1>2, <1>3, <2>2
    <3> QED
      BY <1>15, <3>2, <3>3, <3>4
  <2> QED
    BY <1>8, <2>1, <2>2
<1>18. w = u \o v
  BY <1>15, <1>16, <1>17, SeqEqual
<1> QED
  BY <1>18 DEF u, v, w

(* A mark is no word, and a word is one.                                   *)
LEMMA WordsOfToken ==
  ASSUME NEW t
  PROVE  WordsOf(<<t>>) = IF t \in Words THEN <<t>> ELSE <<>>
<1>1. DOMAIN <<t>> = {1} /\ Len(<<t>>) = 1 /\ <<t>> \in Seq({t})
  OBVIOUS
<1>2. CASE t \in Words
  <2> DEFINE f == [k \in 1..1 |-> 1]
  <2>1. Places(<<t>>) = {1}
    BY <1>1, <1>2 DEF Places
  <2>2. f \in [1..1 -> {1}] /\ Increasing(f) /\ \A i \in {1} : \E k \in 1..1 : f[k] = i
    BY DEF Increasing
  <2>3. InOrder({1}) = f
    <3> HIDE DEF f
    <3>1. {1} \in SUBSET (1..1) /\ 1 \in Nat
      OBVIOUS
    <3> QED
      BY <2>2, <3>1, OnlyOrder
  <2>4. WordsOf(<<t>>) = [k \in 1..1 |-> t]
    BY <2>1, <2>3 DEF WordsOf, Places
  <2> QED
    BY <1>2, <2>4
<1>3. CASE t \notin Words
  <2>1. Places(<<t>>) = {}
    BY <1>1, <1>3 DEF Places
  <2>2. Cardinality({}) = 0
    BY FS_EmptySet
  <2>3. WordsOf(<<t>>) \in Seq({t}) /\ Len(WordsOf(<<t>>)) = 0
    BY <1>1, <2>1, <2>2, WordsList
  <2> QED
    BY <1>3, <2>3, EmptySeq
<1> QED
  BY <1>2, <1>3

LEMMA WordsOfNothing == WordsOf(<<>>) = <<>>
<1>1. Places(<<>>) = {} /\ <<>> \in Seq({})
  BY DEF Places
<1>2. Cardinality({}) = 0
  BY FS_EmptySet
<1>3. WordsOf(<<>>) \in Seq({}) /\ Len(WordsOf(<<>>)) = 0
  BY <1>1, <1>2, WordsList
<1> QED
  BY <1>3, EmptySeq

(* Now the steps of Parse: each takes marks away, and leaves every word in *)
(* its place.                                                              *)
LEMMA MarksAreNoWords ==
  /\ ":" \notin Words /\ "[" \notin Words /\ "]" \notin Words /\ "localhost" \notin Words
  /\ Words \subseteq Tokens /\ ":" \in Tokens /\ "[" \in Tokens /\ "]" \in Tokens
  /\ "localhost" \in Tokens
BY ForwardsAssumption DEF ForwardsAssumption, Words, Tokens

LEMMA LastOccurrence ==
  ASSUME NEW S, NEW s \in Seq(S), NEW t
  PROVE  /\ LastIndex(s, t) \in 0..Len(s)
         /\ LastIndex(s, t) > 0 => s[LastIndex(s, t)] = t
         /\ \A i \in 1..Len(s) : s[i] = t => i <= LastIndex(s, t)
<1> DEFINE I == {i \in DOMAIN s : s[i] = t} \cup {0}
<1>1. Len(s) \in Nat /\ I \in SUBSET (0..Len(s)) /\ I # {} /\ DOMAIN s = 1..Len(s)
  OBVIOUS
<1>2. Max(I) \in I /\ \A j \in I : j <= Max(I)
  <2> HIDE DEF I
  <2> QED
    BY <1>1, GreatestExists
<1>3. LastIndex(s, t) = Max(I)
  BY DEF LastIndex
<1> QED
  BY <1>1, <1>2, <1>3

LEMMA PartsOfText ==
  ASSUME NEW s \in Seq(Tokens), NEW i \in 0..Len(s), NEW j \in 0..Len(s)
  PROVE  /\ SubSeq(s, i + 1, j) \in Seq(Tokens)
         /\ Len(SubSeq(s, i + 1, j)) = (IF i <= j THEN j - i ELSE 0)
<1>1. Len(s) \in Nat /\ i \in Nat /\ j \in Nat
  OBVIOUS
<1>2. \A k \in i + 1 .. j : s[k] \in Tokens
  BY <1>1, ElementOfSeq
<1>3. i + 1 \in Int /\ j \in Int
  BY <1>1
<1>4. /\ SubSeq(s, i + 1, j) \in Seq(Tokens)
      /\ Len(SubSeq(s, i + 1, j)) = (IF i + 1 <= j THEN j - (i + 1) + 1 ELSE 0)
  BY <1>2, <1>3, SubSeqProperties
<1> QED
  BY <1>1, <1>4

(* A token more. *)
LEMMA WordsOfLast ==
  ASSUME NEW s \in Seq(Tokens), NEW i \in 0..Len(s) - 1, NEW j \in i + 1..Len(s)
  PROVE  WordsOf(SubSeq(s, i + 1, j)) = IF s[j] \in Words
                                        THEN WordsOf(SubSeq(s, i + 1, j - 1)) \o <<s[j]>>
                                        ELSE WordsOf(SubSeq(s, i + 1, j - 1))
<1>1. /\ Len(s) \in Nat /\ i \in Nat /\ j \in Nat /\ i + 1 \in 1..Len(s)
      /\ j \in i + 1..Len(s) /\ j - 1 \in 0..Len(s) /\ i \in 0..Len(s) /\ j \in 1..Len(s)
  OBVIOUS
<1> DEFINE a == SubSeq(s, i + 1, j - 1)
<1>2. SubSeq(s, i + 1, j) = a \o <<s[j]>>
  BY <1>1, SubSeqRecursiveSecond
<1>3. a \in Seq(Tokens) /\ s[j] \in Tokens /\ <<s[j]>> \in Seq(Tokens)
  <2>1. s[j] \in Tokens
    BY <1>1, ElementOfSeq
  <2> QED
    BY <1>1, <2>1, PartsOfText
<1> HIDE DEF a
<1>4. WordsOf(a \o <<s[j]>>) = WordsOf(a) \o WordsOf(<<s[j]>>)
  BY <1>3, WordsOfConcatenation
<1>5. WordsOf(a) \in Seq(Tokens)
  BY <1>3, WordsList
<1>6. WordsOf(a) \o <<>> = WordsOf(a)
  BY <1>5, ConcatEmptySeq
<1> QED
  BY <1>2, <1>4, <1>6, WordsOfToken DEF a

LEMMA WordsOfParts ==
  ASSUME NEW s \in Seq(Tokens), NEW i \in 0..Len(s)
  PROVE  /\ WordsOf(s) = WordsOf(SubSeq(s, 1, i)) \o WordsOf(SubSeq(s, i + 1, Len(s)))
         /\ SubSeq(s, 1, i) \in Seq(Tokens) /\ SubSeq(s, i + 1, Len(s)) \in Seq(Tokens)
<1>1. Len(s) \in Nat /\ i \in Nat /\ 0 \in 0..Len(s) /\ Len(s) \in 0..Len(s)
  OBVIOUS
<1>2. SubSeq(s, 1, i) \in Seq(Tokens) /\ SubSeq(s, i + 1, Len(s)) \in Seq(Tokens)
  <2>1. SubSeq(s, 0 + 1, i) \in Seq(Tokens)
    BY <1>1, PartsOfText
  <2>2. SubSeq(s, i + 1, Len(s)) \in Seq(Tokens)
    BY <1>1, PartsOfText
  <2> QED
    BY <2>1, <2>2
<1>3. SubSeq(s, 1, i) \o SubSeq(s, i + 1, Len(s)) = s
  <2>1. 1 \in 1..Len(s)+1 /\ i \in 1-1..Len(s) /\ Len(s) \in i..Len(s)
    BY <1>1
  <2>2. SubSeq(s, 1, i) \o SubSeq(s, i + 1, Len(s)) = SubSeq(s, 1, Len(s))
    BY <2>1, ConcatAdjacentSubSeq
  <2> QED
    BY <2>2, SubSeqFull
<1> QED
  BY <1>2, <1>3, WordsOfConcatenation

LEMMA PortIsLast ==
  ASSUME NEW s \in Seq(Tokens), NEW allowZero \in BOOLEAN, NEW r \in SplitPort(s, allowZero)
  PROVE  /\ r.rest \in Seq(Tokens)
         /\ WordsOf(s) = WordsOf(r.rest) \o <<r.port>>
<1> DEFINE i == LastIndex(s, ":")
<1>1. /\ i > 0 /\ ValidPort(From(s, i + 1), allowZero)
      /\ r = [rest |-> Upto(s, i - 1), port |-> s[i + 1]]
  BY DEF SplitPort
<1>2. i \in 1..Len(s) /\ s[i] = ":" /\ Len(s) \in Nat
  BY <1>1, LastOccurrence
<1> HIDE DEF i
<1>3. Len(From(s, i + 1)) = 1
  BY <1>1 DEF ValidPort
<1>4. Len(s) = i + 1
  <2>1. i \in 0..Len(s) /\ Len(s) \in 0..Len(s)
    BY <1>2
  <2>2. Len(SubSeq(s, i + 1, Len(s))) = (IF i <= Len(s) THEN Len(s) - i ELSE 0)
    BY <2>1, PartsOfText
  <2> QED
    BY <1>2, <1>3, <2>2 DEF From
<1>5. s[i + 1] \in Words
  <2>1. From(s, i + 1)[1] = s[i + 1]
    <3>1. /\ i + 1 \in Int /\ Len(s) \in Int /\ 1 \in 1..Len(s) - (i + 1) + 1
          /\ (i + 1) + 1 - 1 = i + 1
          /\ \A k \in i + 1..Len(s) : s[k] \in Tokens
      BY <1>2, <1>4, ElementOfSeq
    <3>2. \A k \in 1..Len(s) - (i + 1) + 1 : SubSeq(s, i + 1, Len(s))[k] = s[(i + 1) + k - 1]
      BY <3>1, SubSeqProperties
    <3> QED
      BY <3>1, <3>2 DEF From
  <2> QED
    BY <1>1, <2>1 DEF ValidPort, Words
<1>6. WordsOf(SubSeq(s, 0 + 1, i + 1)) = WordsOf(SubSeq(s, 0 + 1, (i + 1) - 1)) \o <<s[i + 1]>>
  <2> DEFINE j == i + 1
  <2>1. 0 \in 0..Len(s) - 1 /\ j \in 0 + 1..Len(s) /\ s[j] \in Words
    BY <1>2, <1>4, <1>5
  <2> HIDE DEF j
  <2>2. WordsOf(SubSeq(s, 0 + 1, j)) = WordsOf(SubSeq(s, 0 + 1, j - 1)) \o <<s[j]>>
    BY <2>1, WordsOfLast
  <2> QED
    BY <2>2 DEF j
<1>7. WordsOf(SubSeq(s, 0 + 1, i)) = WordsOf(SubSeq(s, 0 + 1, i - 1))
  <2>1. 0 \in 0..Len(s) - 1 /\ i \in 0 + 1..Len(s)
    BY <1>2
  <2> QED
    BY <1>2, <2>1, WordsOfLast, MarksAreNoWords
<1>8. SubSeq(s, 1, i + 1) = s
  BY <1>4, SubSeqFull
<1>9. Upto(s, i - 1) \in Seq(Tokens)
  <2>1. 0 \in 0..Len(s) /\ i - 1 \in 0..Len(s)
    BY <1>2
  <2>2. SubSeq(s, 0 + 1, i - 1) \in Seq(Tokens)
    BY <2>1, PartsOfText
  <2> QED
    BY <2>2 DEF Upto
<1>10. (i + 1) - 1 = i /\ 0 + 1 = 1
  BY <1>2
<1> QED
  BY <1>1, <1>6, <1>7, <1>8, <1>9, <1>10 DEF Upto

LEMMA HostIsLast ==
  ASSUME NEW s \in Seq(Tokens), NEW r \in SplitHost(s)
  PROVE  /\ r.rest \in Seq(Tokens) /\ r.host \in Seq(Tokens)
         /\ WordsOf(s) = WordsOf(r.rest) \o WordsOf(r.host)
<1> DEFINE n == Len(s)
           at == LastIndex(s, "[")
           i == LastIndex(s, ":")
<1>0. n \in Nat
  OBVIOUS
<1>1. CASE EndsIn(s, "]")
  <2>1. /\ at # 0 /\ SubSeq(s, at + 1, n - 1) # <<>>
        /\ r = [rest |-> Upto(s, at - 1), host |-> SubSeq(s, at + 1, n - 1)]
    BY <1>1 DEF SplitHost
  <2>2. at \in 1..n /\ s[at] = "["
    BY <2>1, LastOccurrence
  <2>3. s[n] = "]" /\ n > 0
    <3>1. s # <<>> /\ s[n] = "]"
      BY <1>1 DEF EndsIn
    <3> QED
      BY <1>0, <3>1, EmptySeq
  <2> HIDE DEF at
  <2>4. at \in 0..n /\ n - 1 \in 0..n /\ at - 1 \in 0..n /\ 0 \in 0..n
    BY <1>0, <2>2, <2>3
  <2>5. /\ SubSeq(s, at + 1, n - 1) \in Seq(Tokens)
        /\ Len(SubSeq(s, at + 1, n - 1)) = (IF at <= n - 1 THEN n - 1 - at ELSE 0)
        /\ SubSeq(s, 0 + 1, at - 1) \in Seq(Tokens)
    BY <2>4, PartsOfText
  <2>6. at < n - 1
    <3>1. Len(SubSeq(s, at + 1, n - 1)) # 0
      BY <2>1, <2>5, EmptySeq
    <3> QED
      BY <1>0, <2>2, <2>5, <3>1
  <2>7. WordsOf(SubSeq(s, at + 1, n)) = WordsOf(SubSeq(s, at + 1, n - 1))
    <3>1. at \in 0..n - 1 /\ n \in at + 1..n
      BY <1>0, <2>2, <2>6
    <3> QED
      BY <2>3, <3>1, WordsOfLast, MarksAreNoWords
  <2>8. WordsOf(SubSeq(s, 0 + 1, at)) = WordsOf(SubSeq(s, 0 + 1, at - 1))
    <3>1. 0 \in 0..n - 1 /\ at \in 0 + 1..n
      BY <1>0, <2>2
    <3> QED
      BY <2>2, <3>1, WordsOfLast, MarksAreNoWords
  <2>9. WordsOf(s) = WordsOf(SubSeq(s, 1, at)) \o WordsOf(SubSeq(s, at + 1, n))
    BY <2>4, WordsOfParts
  <2>10. 0 + 1 = 1
    OBVIOUS
  <2> HIDE DEF n
  <2> QED
    BY <2>1, <2>5, <2>7, <2>8, <2>9, <2>10 DEF Upto
<1>2. CASE ~EndsIn(s, "]")
  <2>1. r = [rest |-> Upto(s, i), host |-> From(s, i + 1)]
    BY <1>2 DEF SplitHost
  <2>2. i \in 0..n
    BY LastOccurrence
  <2> HIDE DEF i
  <2>3. /\ WordsOf(s) = WordsOf(SubSeq(s, 1, i)) \o WordsOf(SubSeq(s, i + 1, n))
        /\ SubSeq(s, 1, i) \in Seq(Tokens) /\ SubSeq(s, i + 1, n) \in Seq(Tokens)
    BY <2>2, WordsOfParts
  <2> QED
    BY <2>1, <2>3 DEF Upto, From
<1> QED
  BY <1>1, <1>2

LEMMA ColonIsDropped ==
  ASSUME NEW s \in Seq(Tokens)
  PROVE  WithoutColon(s) \in Seq(Tokens) /\ WordsOf(WithoutColon(s)) = WordsOf(s)
<1> DEFINE n == Len(s)
<1>1. CASE EndsIn(s, ":")
  <2>1. n \in Nat /\ n > 0 /\ s[n] = ":"
    <3>1. s # <<>> /\ s[n] = ":"
      BY <1>1 DEF EndsIn
    <3> QED
      BY <3>1, EmptySeq
  <2>2. 0 \in 0..n - 1 /\ n \in 0 + 1..n /\ n - 1 \in 0..n /\ 0 \in 0..n
    BY <2>1
  <2>3. WordsOf(SubSeq(s, 0 + 1, n)) = WordsOf(SubSeq(s, 0 + 1, n - 1))
    BY <2>1, <2>2, WordsOfLast, MarksAreNoWords
  <2>4. SubSeq(s, 0 + 1, n - 1) \in Seq(Tokens)
    BY <2>2, PartsOfText
  <2>5. SubSeq(s, 1, n) = s
    BY SubSeqFull
  <2>6. 0 + 1 = 1
    OBVIOUS
  <2> QED
    BY <1>1, <2>3, <2>4, <2>5, <2>6 DEF WithoutColon, Upto
<1> QED
  BY <1>1 DEF WithoutColon

LEMMA BracketsAreDropped ==
  ASSUME NEW s \in Seq(Tokens), NEW h \in NormalizeHost(s)
  PROVE  h \in Seq(Tokens) /\ WordsOf(s) = WordsOf(h)
<1> DEFINE n == Len(s)
<1>1. CASE s # <<>> /\ s[1] = "[" /\ EndsIn(s, "]")
  <2>1. n > 2 /\ n \in Nat /\ h = SubSeq(s, 2, n - 1) /\ s[1] = "[" /\ s[n] = "]"
    BY <1>1 DEF NormalizeHost, EndsIn
  <2>2. /\ 1 \in 0..n /\ 1 \in 0..n - 1 /\ n \in 1 + 1..n /\ n - 1 \in 0..n
        /\ 0 \in 0..n - 1 /\ 1 \in 0 + 1..n
    BY <2>1
  <2>3. WordsOf(SubSeq(s, 1 + 1, n)) = WordsOf(SubSeq(s, 1 + 1, n - 1))
    BY <2>1, <2>2, WordsOfLast, MarksAreNoWords
  <2>4. WordsOf(SubSeq(s, 0 + 1, 1)) = WordsOf(SubSeq(s, 0 + 1, 1 - 1))
    BY <2>1, <2>2, WordsOfLast, MarksAreNoWords
  <2>5. SubSeq(s, 1, 0) = <<>>
    BY SubSeqEmpty
  <2>6. WordsOf(s) = WordsOf(SubSeq(s, 1, 1)) \o WordsOf(SubSeq(s, 1 + 1, n))
    BY <2>2, WordsOfParts
  <2>7. SubSeq(s, 1 + 1, n - 1) \in Seq(Tokens)
    BY <2>2, PartsOfText
  <2>8. 0 + 1 = 1 /\ 1 - 1 = 0 /\ 1 + 1 = 2
    OBVIOUS
  <2>9. WordsOf(h) \in Seq(Tokens) /\ h \in Seq(Tokens)
    BY <2>1, <2>7, <2>8, WordsList
  <2>10. WordsOf(s) = <<>> \o WordsOf(h)
    BY <2>1, <2>3, <2>4, <2>5, <2>6, <2>8, WordsOfNothing
  <2> QED
    BY <2>9, <2>10, ConcatEmptySeq
<1>2. CASE ~(s # <<>> /\ s[1] = "[" /\ EndsIn(s, "]"))
  BY <1>2 DEF NormalizeHost
<1> QED
  BY <1>1, <1>2

LEMMA ListenIsRead ==
  ASSUME NEW s \in Seq(Tokens), NEW l \in SplitListen(s)
  PROVE  WordsOf(s) = WordsOf(l.host) \o <<l.port>>
<1>0. defaultBindAddr \in Seq(Tokens) /\ WordsOf(defaultBindAddr) = <<>>
  BY MarksAreNoWords, WordsOfToken DEF defaultBindAddr
<1>1. CASE ~Has(s, ":")
  <2>1. ValidPort(s, TRUE) /\ l = [host |-> defaultBindAddr, port |-> s[1]]
    BY <1>1 DEF SplitListen
  <2>2. Len(s) = 1 /\ s[1] \in Words
    BY <2>1 DEF ValidPort, Words
  <2>3. s = <<s[1]>>
    BY <2>2
  <2>4. WordsOf(<<s[1]>>) = <<s[1]>> /\ <<>> \o <<s[1]>> = <<s[1]>>
    BY <2>2, WordsOfToken
  <2> QED
    BY <1>0, <2>1, <2>3, <2>4
<1>2. CASE Has(s, ":")
  <2>1. PICK p \in SplitPort(s, TRUE) : \E h \in NormalizeHost(p.rest) :
                                            l = [host |-> OrDefault(h), port |-> p.port]
    BY <1>2 DEF SplitListen
  <2>2. PICK h \in NormalizeHost(p.rest) : l = [host |-> OrDefault(h), port |-> p.port]
    BY <2>1
  <2>3. p.rest \in Seq(Tokens) /\ WordsOf(s) = WordsOf(p.rest) \o <<p.port>>
    BY PortIsLast
  <2>4. WordsOf(p.rest) = WordsOf(h)
    BY <2>3, BracketsAreDropped
  <2>5. WordsOf(OrDefault(h)) = WordsOf(h)
    BY <1>0, WordsOfNothing DEF OrDefault
  <2> QED
    BY <2>2, <2>3, <2>4, <2>5
<1> QED
  BY <1>1, <1>2

(* Of a text that Parse accepts, whatever its length and form, no word is  *)
(* lost, and none changes its place.                                       *)
THEOREM NoWordIsLost ==
  ASSUME NEW s \in Seq(Tokens), NEW r \in Parse(s)
  PROVE  WordsOf(s) = WordsOf(r.listen.host) \o <<r.listen.port>>
                         \o WordsOf(r.target.host) \o <<r.target.port>>
<1>0. PICK t \in SplitTarget(s) : \E l \in SplitListen(t.rest) :
                                      r = [listen |-> l, target |-> t.target]
  BY DEF Parse
<1>1. PICK l \in SplitListen(t.rest) : r = [listen |-> l, target |-> t.target]
  BY <1>0
<1>2. PICK p \in SplitPort(s, FALSE) : \E h \in SplitHost(p.rest) :
         t = [rest |-> WithoutColon(h.rest), target |-> [host |-> h.host, port |-> p.port]]
  BY <1>0 DEF SplitTarget
<1>2h. PICK h \in SplitHost(p.rest) :
         t = [rest |-> WithoutColon(h.rest), target |-> [host |-> h.host, port |-> p.port]]
  BY <1>2
<1>3. p.rest \in Seq(Tokens) /\ WordsOf(s) = WordsOf(p.rest) \o <<p.port>>
  BY PortIsLast
<1>4. h.rest \in Seq(Tokens) /\ WordsOf(p.rest) = WordsOf(h.rest) \o WordsOf(h.host)
  BY <1>3, HostIsLast
<1>5. t.rest \in Seq(Tokens) /\ WordsOf(h.rest) = WordsOf(t.rest)
  BY <1>2h, <1>4, ColonIsDropped
<1>6. WordsOf(t.rest) = WordsOf(l.host) \o <<l.port>>
  BY <1>5, ListenIsRead
<1> QED
  BY <1>1, <1>2h, <1>3, <1>4, <1>5, <1>6

(* Then the texts of the documented form, read from their end.             *)
LEMMA LastIndexIs ==
  ASSUME NEW S, NEW s \in Seq(S), NEW t, NEW i \in 1..Len(s), s[i] = t,
         \A j \in 1..Len(s) : i < j => s[j] # t
  PROVE  LastIndex(s, t) = i
<1> DEFINE l == LastIndex(s, t)
<1>1. l \in 0..Len(s) /\ (l > 0 => s[l] = t) /\ i <= l /\ Len(s) \in Nat
  BY LastOccurrence
<1> HIDE DEF l
<1>2. ~(i < l)
  BY <1>1
<1>3. l = i
  BY <1>1, <1>2
<1> QED
  BY <1>3 DEF l

LEMMA Appended ==
  ASSUME NEW x \in Seq(Tokens), NEW y \in Seq(Tokens)
  PROVE  /\ x \o y \in Seq(Tokens) /\ Len(x) \in Nat /\ Len(y) \in Nat
         /\ Len(x \o y) = Len(x) + Len(y)
         /\ \A i \in 1..Len(x) : (x \o y)[i] = x[i]
         /\ \A i \in 1..Len(y) : (x \o y)[Len(x) + i] = y[i]
         /\ SubSeq(x \o y, 1, Len(x)) = x
<1>1. Len(x) \in Nat /\ Len(y) \in Nat
  OBVIOUS
<1>2. /\ x \o y \in Seq(Tokens) /\ Len(x \o y) = Len(x) + Len(y)
      /\ \A i \in 1..Len(x) + Len(y) :
            (x \o y)[i] = IF i <= Len(x) THEN x[i] ELSE y[i - Len(x)]
  BY ConcatProperties
<1>3. \A i \in 1..Len(x) : (x \o y)[i] = x[i]
  BY <1>1, <1>2
<1>4. \A i \in 1..Len(y) : (x \o y)[Len(x) + i] = y[i]
  <2> TAKE i \in 1..Len(y)
  <2>1. /\ Len(x) + i \in 1..Len(x) + Len(y) /\ ~(Len(x) + i <= Len(x))
        /\ (Len(x) + i) - Len(x) = i
    BY <1>1
  <2> QED
    BY <1>2, <2>1
<1>5. SubSeq(x \o y, 1, Len(x)) = x
  <2>1. CASE Len(x) = 0
    BY <2>1, SubSeqEmpty, EmptySeq
  <2>2. CASE Len(x) # 0
    <3>1. 1 \in 1..Len(x) /\ Len(x) \in 1..Len(x)
      BY <1>1, <2>2
    <3>2. SubSeq(x \o y, 1, Len(x)) = SubSeq(x, 1, Len(x))
      BY <3>1, SubSeqOfConcat1
    <3> QED
      BY <3>2, SubSeqFull
  <2> QED
    BY <2>1, <2>2
<1> QED
  BY <1>1, <1>2, <1>3, <1>4, <1>5

LEMMA OneToken ==
  ASSUME NEW s \in Seq(Tokens), NEW i \in 1..Len(s)
  PROVE  SubSeq(s, i, i) = <<s[i]>>
<1>1. i \in Int /\ (i - i) + 1 = 1 /\ (i + 1) - 1 = i /\ Len(s) \in Nat /\ i \in i..Len(s)
      /\ i - 1 < i /\ i - 1 \in Int
  OBVIOUS
<1>2. SubSeq(s, i, i) = SubSeq(s, i, i - 1) \o <<s[i]>>
  BY <1>1, SubSeqRecursiveSecond
<1>3. SubSeq(s, i, i - 1) = <<>>
  BY <1>1, SubSeqEmpty
<1>4. <<s[i]>> \in Seq(Tokens)
  <2>1. s[i] \in Tokens
    BY ElementOfSeq
  <2> QED
    BY <2>1
<1> QED
  BY <1>2, <1>3, <1>4, ConcatEmptySeq

LEMMA PortIsRead ==
  ASSUME NEW x \in Seq(Tokens), NEW allowZero \in BOOLEAN, NEW q \in Words,
         q \in Ports \/ (allowZero /\ q = "0")
  PROVE  SplitPort(x \o <<":", q>>, allowZero) = {[rest |-> x, port |-> q]}
<1> DEFINE y == <<":", q>>
           s == x \o y
           n == Len(x)
<1>1. y \in Seq(Tokens) /\ Len(y) = 2 /\ y[1] = ":" /\ y[2] = q /\ q # ":"
  BY MarksAreNoWords
<1>2. /\ s \in Seq(Tokens) /\ n \in Nat /\ Len(s) = n + 2
      /\ s[n + 1] = ":" /\ s[n + 2] = q /\ SubSeq(s, 1, n) = x
  <2> HIDE DEF y
  <2>1. 1 \in 1..Len(y) /\ 2 \in 1..Len(y)
    BY <1>1
  <2>2. /\ x \o y \in Seq(Tokens) /\ Len(x) \in Nat
        /\ Len(x \o y) = Len(x) + Len(y)
        /\ \A i \in 1..Len(y) : (x \o y)[Len(x) + i] = y[i]
        /\ SubSeq(x \o y, 1, Len(x)) = x
    BY <1>1, Appended
  <2> QED
    BY <1>1, <2>1, <2>2
<1> HIDE DEF s, n
<1>3. LastIndex(s, ":") = n + 1
  <2>1. n + 1 \in 1..Len(s)
    BY <1>2
  <2>2. ASSUME NEW j \in 1..Len(s), n + 1 < j PROVE s[j] # ":"
    <3>1. j = n + 2
      BY <1>2, <2>2
    <3> QED
      BY <1>1, <1>2, <3>1
  <2> QED
    BY <1>2, <2>1, <2>2, LastIndexIs
<1>4. From(s, (n + 1) + 1) = <<q>>
  <2>1. (n + 1) + 1 = n + 2 /\ n + 2 \in 1..Len(s)
    BY <1>2
  <2> QED
    BY <1>2, <2>1, OneToken DEF From
<1>5. ValidPort(From(s, (n + 1) + 1), allowZero)
  BY <1>4 DEF ValidPort
<1>6. Upto(s, (n + 1) - 1) = x /\ s[(n + 1) + 1] = q /\ n + 1 > 0
  <2>1. (n + 1) - 1 = n /\ (n + 1) + 1 = n + 2
    BY <1>2
  <2> QED
    BY <1>2, <2>1 DEF Upto
<1>7. SplitPort(s, allowZero) = {[rest |-> x, port |-> q]}
  BY <1>3, <1>5, <1>6 DEF SplitPort
<1> QED
  BY <1>7 DEF s

LEMMA BareHostIsRead ==
  ASSUME NEW x \in Seq(Tokens), EndsIn(x, ":"), NEW name \in Names
  PROVE  SplitHost(x \o <<name>>) = {[rest |-> x, host |-> <<name>>]}
<1> DEFINE y == <<name>>
           s == x \o y
           n == Len(x)
<1>1. y \in Seq(Tokens) /\ Len(y) = 1 /\ y[1] = name /\ name # ":" /\ name # "]"
  BY MarksAreNoWords DEF Words
<1>2. n \in Nat /\ n > 0 /\ x[n] = ":"
  <2>1. x # <<>> /\ x[n] = ":"
    BY DEF EndsIn
  <2> QED
    BY <2>1, EmptySeq
<1>3. /\ s \in Seq(Tokens) /\ Len(s) = n + 1
      /\ s[n] = ":" /\ s[n + 1] = name /\ SubSeq(s, 1, n) = x
  <2> HIDE DEF y
  <2>1. 1 \in 1..Len(y) /\ n \in 1..Len(x)
    BY <1>1, <1>2
  <2>2. /\ x \o y \in Seq(Tokens)
        /\ Len(x \o y) = Len(x) + Len(y)
        /\ \A i \in 1..Len(x) : (x \o y)[i] = x[i]
        /\ \A i \in 1..Len(y) : (x \o y)[Len(x) + i] = y[i]
        /\ SubSeq(x \o y, 1, Len(x)) = x
    BY <1>1, Appended
  <2> QED
    BY <1>1, <1>2, <2>1, <2>2
<1> HIDE DEF s, n
<1>4. LastIndex(s, ":") = n
  <2>1. n \in 1..Len(s)
    BY <1>2, <1>3
  <2>2. ASSUME NEW j \in 1..Len(s), n < j PROVE s[j] # ":"
    <3>1. j = n + 1
      BY <1>2, <1>3, <2>2
    <3> QED
      BY <1>1, <1>3, <3>1
  <2> QED
    BY <1>3, <2>1, <2>2, LastIndexIs
<1>5. From(s, n + 1) = <<name>>
  <2>1. n + 1 \in 1..Len(s)
    BY <1>2, <1>3
  <2> QED
    BY <1>3, <2>1, OneToken DEF From
<1>6. ~EndsIn(s, "]")
  BY <1>1, <1>3 DEF EndsIn
<1>7. <<name>> # <<>> /\ ~Has(<<name>>, "]")
  BY <1>1 DEF Has
<1>8. Upto(s, n) = x
  BY <1>3 DEF Upto
<1>9. SplitHost(s) = {[rest |-> x, host |-> <<name>>]}
  BY <1>4, <1>5, <1>6, <1>7, <1>8 DEF SplitHost
<1> QED
  BY <1>9 DEF s

V6(name) == <<":", ":", name>>
InBrackets(name) == <<"[", ":", ":", name, "]">>

LEMMA BracketedText ==
  /\ Bracketed = {InBrackets(name) : name \in Names}
  /\ \A name \in Names : SubSeq(InBrackets(name), 2, Len(InBrackets(name)) - 1) = V6(name)
<1>1. ASSUME NEW name \in Names
      PROVE  <<"[">> \o (<<":", ":">> \o <<name>>) \o <<"]">> = InBrackets(name)
  <2> DEFINE c == <<":", ":">>
             d == <<name>>
             l == <<"[">>
             r == <<"]">>
  <2>1. /\ c \in Seq(Tokens) /\ Len(c) = 2 /\ c[1] = ":" /\ c[2] = ":"
        /\ d \in Seq(Tokens) /\ Len(d) = 1 /\ d[1] = name
        /\ l \in Seq(Tokens) /\ Len(l) = 1 /\ l[1] = "["
        /\ r \in Seq(Tokens) /\ Len(r) = 1 /\ r[1] = "]"
    BY MarksAreNoWords DEF Words
  <2> HIDE DEF c, d, l, r
  <2>2. /\ c \o d \in Seq(Tokens) /\ Len(c \o d) = 3
        /\ (c \o d)[1] = ":" /\ (c \o d)[2] = ":" /\ (c \o d)[3] = name
    <3>1. /\ c \o d \in Seq(Tokens) /\ Len(c \o d) = Len(c) + Len(d)
          /\ \A i \in 1..Len(c) : (c \o d)[i] = c[i]
          /\ \A i \in 1..Len(d) : (c \o d)[Len(c) + i] = d[i]
      BY <2>1, Appended
    <3> QED
      BY <2>1, <3>1
  <2> DEFINE e == c \o d
  <2> HIDE DEF e
  <2>3. /\ l \o e \in Seq(Tokens) /\ Len(l \o e) = 4
        /\ (l \o e)[1] = "[" /\ (l \o e)[2] = ":" /\ (l \o e)[3] = ":" /\ (l \o e)[4] = name
    <3>0. e \in Seq(Tokens) /\ Len(e) = 3 /\ e[1] = ":" /\ e[2] = ":" /\ e[3] = name
      BY <2>2 DEF e
    <3>1. /\ l \o e \in Seq(Tokens) /\ Len(l \o e) = Len(l) + Len(e)
          /\ \A i \in 1..Len(l) : (l \o e)[i] = l[i]
          /\ \A i \in 1..Len(e) : (l \o e)[Len(l) + i] = e[i]
      BY <2>1, <3>0, Appended
    <3> QED
      BY <2>1, <3>0, <3>1
  <2> DEFINE f == l \o e
  <2> HIDE DEF f
  <2>4. /\ f \o r \in Seq(Tokens) /\ Len(f \o r) = 5
        /\ (f \o r)[1] = "[" /\ (f \o r)[2] = ":" /\ (f \o r)[3] = ":"
        /\ (f \o r)[4] = name /\ (f \o r)[5] = "]"
    <3>0. f \in Seq(Tokens) /\ Len(f) = 4
          /\ f[1] = "[" /\ f[2] = ":" /\ f[3] = ":" /\ f[4] = name
      BY <2>3 DEF f
    <3>1. /\ f \o r \in Seq(Tokens) /\ Len(f \o r) = Len(f) + Len(r)
          /\ \A i \in 1..Len(f) : (f \o r)[i] = f[i]
          /\ \A i \in 1..Len(r) : (f \o r)[Len(f) + i] = r[i]
      BY <2>1, <3>0, Appended
    <3> QED
      BY <2>1, <3>0, <3>1
  <2> DEFINE g == f \o r
  <2> HIDE DEF g
  <2>5. g = InBrackets(name)
    <3>1. g \in Seq(Tokens) /\ Len(g) = 5 /\ g[1] = "[" /\ g[2] = ":" /\ g[3] = ":"
          /\ g[4] = name /\ g[5] = "]"
      BY <2>4 DEF g
    <3> QED
      BY <3>1 DEF InBrackets
  <2> QED
    BY <2>5 DEF c, d, e, f, g, l, r
<1>2. Bracketed = {<<"[">> \o (<<":", ":">> \o <<name>>) \o <<"]">> : name \in Names}
  BY DEF Bracketed
<1>3. ASSUME NEW name \in Names
      PROVE  SubSeq(InBrackets(name), 2, Len(InBrackets(name)) - 1) = V6(name)
  <2> DEFINE b == InBrackets(name)
             v == SubSeq(b, 2, 4)
  <2>1. /\ b \in Seq(Tokens) /\ Len(b) = 5 /\ Len(b) - 1 = 4
        /\ b[2] = ":" /\ b[3] = ":" /\ b[4] = name
    BY MarksAreNoWords DEF InBrackets, Words
  <2> HIDE DEF b
  <2>2. \A i \in 2..4 : b[i] \in Tokens
    BY <2>1, ElementOfSeq
  <2>3. v \in Seq(Tokens) /\ Len(v) = 3 /\ \A i \in 1..3 : v[i] = b[2 + i - 1]
    <3>1. /\ v \in Seq(Tokens)
          /\ Len(v) = IF 2 <= 4 THEN 4 - 2 + 1 ELSE 0
          /\ \A i \in 1..4 - 2 + 1 : v[i] = b[2 + i - 1]
      BY <2>2, SubSeqProperties
    <3>2. 4 - 2 + 1 = 3 /\ 2 <= 4
      OBVIOUS
    <3> QED
      BY <3>1, <3>2
  <2> HIDE DEF v
  <2>4. v[1] = ":" /\ v[2] = ":" /\ v[3] = name
    <3>1. v[1] = b[2 + 1 - 1] /\ v[2] = b[2 + 2 - 1] /\ v[3] = b[2 + 3 - 1]
      BY <2>3
    <3>2. 2 + 1 - 1 = 2 /\ 2 + 2 - 1 = 3 /\ 2 + 3 - 1 = 4
      OBVIOUS
    <3> QED
      BY <2>1, <3>1, <3>2
  <2>5. v = V6(name)
    BY <2>3, <2>4 DEF V6
  <2> QED
    BY <2>1, <2>5 DEF v, b
<1> QED
  BY <1>1, <1>2, <1>3

LEMMA BracketedHostIsRead ==
  ASSUME NEW x \in Seq(Tokens), NEW name \in Names
  PROVE  SplitHost(x \o InBrackets(name)) = {[rest |-> x, host |-> V6(name)]}
<1> DEFINE y == InBrackets(name)
           s == x \o y
           n == Len(x)
<1>1. /\ y \in Seq(Tokens) /\ Len(y) = 5
      /\ y[1] = "[" /\ y[2] = ":" /\ y[3] = ":" /\ y[4] = name /\ y[5] = "]"
      /\ name # "[" /\ name # "]"
  BY MarksAreNoWords DEF InBrackets, Words
<1> HIDE DEF y
<1>2. /\ x \o y \in Seq(Tokens) /\ Len(x) \in Nat
      /\ Len(x \o y) = Len(x) + Len(y)
      /\ \A i \in 1..Len(y) : (x \o y)[Len(x) + i] = y[i]
      /\ SubSeq(x \o y, 1, Len(x)) = x
  BY <1>1, Appended
<1>3. /\ s \in Seq(Tokens) /\ n \in Nat /\ Len(s) = n + 5
      /\ s[n + 1] = "[" /\ s[n + 2] = ":" /\ s[n + 3] = ":" /\ s[n + 4] = name /\ s[n + 5] = "]"
      /\ SubSeq(s, 1, n) = x
  BY <1>1, <1>2
<1> HIDE DEF s, n
<1>4. LastIndex(s, "[") = n + 1
  <2>1. n + 1 \in 1..Len(s)
    BY <1>3
  <2>2. ASSUME NEW j \in 1..Len(s), n + 1 < j PROVE s[j] # "["
    <3>1. j = n + 2 \/ j = n + 3 \/ j = n + 4 \/ j = n + 5
      BY <1>3, <2>2
    <3> QED
      BY <1>1, <1>3, <3>1
  <2> QED
    BY <1>3, <2>1, <2>2, LastIndexIs
<1>5. EndsIn(s, "]")
  BY <1>3 DEF EndsIn
<1>6. SubSeq(s, (n + 1) + 1, Len(s) - 1) = V6(name)
  <2> DEFINE v == SubSeq(s, n + 2, n + 4)
  <2>1. (n + 1) + 1 = n + 2 /\ Len(s) - 1 = n + 4 /\ n + 2 \in Int /\ n + 4 \in Int
        /\ n + 2 <= n + 4 /\ (n + 4) - (n + 2) + 1 = 3
    BY <1>3
  <2>2. \A i \in n + 2..n + 4 : s[i] \in Tokens
    <3> TAKE i \in n + 2..n + 4
    <3>1. i \in 1..Len(s)
      BY <1>3
    <3> QED
      BY <1>3, <3>1, ElementOfSeq
  <2>3. /\ v \in Seq(Tokens) /\ Len(v) = 3
        /\ \A i \in 1..3 : v[i] = s[(n + 2) + i - 1]
    <3>1. /\ v \in Seq(Tokens)
          /\ Len(v) = IF n + 2 <= n + 4 THEN (n + 4) - (n + 2) + 1 ELSE 0
          /\ \A i \in 1..(n + 4) - (n + 2) + 1 : v[i] = s[(n + 2) + i - 1]
      BY <2>1, <2>2, SubSeqProperties
    <3> QED
      BY <2>1, <3>1
  <2> HIDE DEF v
  <2>4. v[1] = ":" /\ v[2] = ":" /\ v[3] = name
    <3>1. v[1] = s[(n + 2) + 1 - 1] /\ v[2] = s[(n + 2) + 2 - 1] /\ v[3] = s[(n + 2) + 3 - 1]
      BY <2>3
    <3>2. (n + 2) + 1 - 1 = n + 2 /\ (n + 2) + 2 - 1 = n + 3 /\ (n + 2) + 3 - 1 = n + 4
      BY <1>3
    <3> QED
      BY <1>3, <3>1, <3>2
  <2>5. v = V6(name)
    BY <2>3, <2>4 DEF V6
  <2> QED
    BY <2>1, <2>5 DEF v
<1>7. V6(name) # <<>> /\ n + 1 # 0
  BY <1>3 DEF V6
<1>8. Upto(s, (n + 1) - 1) = x
  <2>1. (n + 1) - 1 = n
    BY <1>3
  <2> QED
    BY <1>3, <2>1 DEF Upto
<1>9. SplitHost(s) = {[rest |-> x, host |-> V6(name)]}
  BY <1>4, <1>5, <1>6, <1>7, <1>8 DEF SplitHost
<1> QED
  BY <1>9 DEF s, y

LEMMA ColonIsTaken ==
  ASSUME NEW x \in Seq(Tokens)
  PROVE  WithoutColon(x \o <<":">>) = x /\ EndsIn(x \o <<":">>, ":")
<1> DEFINE y == <<":">>
           s == x \o y
<1>1. y \in Seq(Tokens) /\ Len(y) = 1 /\ y[1] = ":"
  BY MarksAreNoWords
<1> HIDE DEF y
<1>2. /\ s \in Seq(Tokens) /\ Len(x) \in Nat
      /\ Len(s) = Len(x) + Len(y)
      /\ \A i \in 1..Len(y) : s[Len(x) + i] = y[i]
      /\ SubSeq(s, 1, Len(x)) = x
  BY <1>1, Appended
<1> HIDE DEF s
<1>3. Len(s) = Len(x) + 1 /\ s[Len(s)] = ":" /\ Len(s) # 0
  BY <1>1, <1>2
<1>4. EndsIn(s, ":")
  BY <1>3 DEF EndsIn
<1>5. Upto(s, Len(s) - 1) = x
  <2>1. Len(s) - 1 = Len(x)
    BY <1>2, <1>3
  <2> QED
    BY <1>2, <2>1 DEF Upto
<1> QED
  BY <1>4, <1>5 DEF WithoutColon, s, y


LEMMA BracketsAreText ==
  ASSUME NEW name \in Names
  PROVE  InBrackets(name) \in Seq(Tokens) /\ V6(name) \in Seq(Tokens)
BY MarksAreNoWords DEF InBrackets, V6, Words

LEMMA OneAppended ==
  ASSUME NEW s \in Tokens, NEW t \in Tokens
  PROVE  /\ <<s>> \in Seq(Tokens) /\ <<t>> \in Seq(Tokens) /\ <<s, t>> \in Seq(Tokens)
         /\ <<s>> \o <<t>> = <<s, t>>
<1> DEFINE y == <<s>>
           z == <<t>>
<1>1. /\ y \in Seq(Tokens) /\ Len(y) = 1 /\ y[1] = s
      /\ z \in Seq(Tokens) /\ Len(z) = 1 /\ z[1] = t
  OBVIOUS
<1>2. <<s, t>> \in Seq(Tokens)
  OBVIOUS
<1> HIDE DEF y, z
<1>3. /\ y \o z \in Seq(Tokens) /\ Len(y \o z) = Len(y) + Len(z)
      /\ \A i \in 1..Len(y) : (y \o z)[i] = y[i]
      /\ \A i \in 1..Len(z) : (y \o z)[Len(y) + i] = z[i]
  BY <1>1, Appended
<1> DEFINE w == y \o z
<1>4. w \in Seq(Tokens) /\ Len(w) = 2 /\ w[1] = s /\ w[2] = t
  BY <1>1, <1>3
<1> HIDE DEF w
<1>5. w = <<s, t>>
  BY <1>4
<1> QED
  BY <1>1, <1>2, <1>5 DEF w, y, z

LEMMA TwoAppended ==
  ASSUME NEW x \in Seq(Tokens), NEW s \in Tokens, NEW t \in Tokens
  PROVE  (x \o <<s>>) \o <<t>> = x \o <<s, t>>
<1> DEFINE y == <<s>>
           z == <<t>>
<1>1. y \in Seq(Tokens) /\ z \in Seq(Tokens)
  OBVIOUS
<1>2. y \o z = <<s, t>>
  BY OneAppended
<1> HIDE DEF y, z
<1>3. (x \o y) \o z = x \o (y \o z)
  BY <1>1, ConcatAssociative
<1> QED
  BY <1>2, <1>3 DEF y, z

(* A listening address with something before the port, a colon at least.   *)
LEMMA AddressIsRead ==
  ASSUME NEW x \in Seq(Tokens), NEW h, NormalizeHost(x) = {h}, NEW p \in Ports \cup {"0"}
  PROVE  SplitListen((x \o <<":">>) \o <<p>>) = {[host |-> OrDefault(h), port |-> p]}
<1> DEFINE y == <<":", p>>
           s == x \o y
<1>1. /\ y \in Seq(Tokens) /\ Len(y) = 2 /\ y[1] = ":"
      /\ p \in Words /\ p \in Tokens /\ ":" \in Tokens
  BY MarksAreNoWords DEF Words
<1>2. (x \o <<":">>) \o <<p>> = s
  BY <1>1, TwoAppended
<1>3. Has(s, ":")
  <2> HIDE DEF y
  <2>1. /\ x \o y \in Seq(Tokens) /\ Len(x) \in Nat /\ Len(x \o y) = Len(x) + Len(y)
        /\ \A i \in 1..Len(y) : (x \o y)[Len(x) + i] = y[i]
    BY <1>1, Appended
  <2>2. 1 \in 1..Len(y)
    BY <1>1
  <2>3. s \in Seq(Tokens) /\ s[Len(x) + 1] = ":" /\ Len(x) + 1 \in 1..Len(s)
    BY <1>1, <2>1, <2>2
  <2> HIDE DEF s
  <2>4. DOMAIN s = 1..Len(s)
    BY <2>3
  <2> QED
    BY <2>3, <2>4 DEF Has
<1>4. SplitPort(s, TRUE) = {[rest |-> x, port |-> p]}
  <2>1. p \in Ports \/ (TRUE /\ p = "0")
    OBVIOUS
  <2> QED
    BY <1>1, <2>1, PortIsRead
<1> HIDE DEF s
<1> DEFINE r == [rest |-> x, port |-> p]
           R(q) == {[host |-> OrDefault(g), port |-> q.port] : g \in NormalizeHost(q.rest)}
<1>5. r.rest = x /\ r.port = p
  OBVIOUS
<1>6. R(r) = {[host |-> OrDefault(h), port |-> p]}
  <2> HIDE DEF r
  <2> QED
    BY <1>5
<1>7. SplitListen(s) = {[host |-> OrDefault(h), port |-> p]}
  <2>1. SplitListen(s) = UNION {R(q) : q \in SplitPort(s, TRUE)}
    BY <1>3 DEF SplitListen
  <2>2. SplitPort(s, TRUE) = {r}
    BY <1>4
  <2> HIDE DEF R, r
  <2>3. UNION {R(q) : q \in {r}} = R(r)
    OBVIOUS
  <2> QED
    BY <1>6, <2>1, <2>2, <2>3
<1> QED
  BY <1>2, <1>7

LEMMA BindsWritten ==
  ASSUME NEW b \in Binds
  PROVE  \/ b.text = <<>> /\ b.host = defaultBindAddr
         \/ b.text = <<":">> /\ b.host = defaultBindAddr
         \/ \E name \in Names : b.text = <<name, ":">> /\ b.host = <<name>>
         \/ \E name \in Names : b.text = InBrackets(name) \o <<":">> /\ b.host = V6(name)
<1>1. CASE b \in {[text |-> <<>>, host |-> defaultBindAddr], [text |-> <<":">>, host |-> defaultBindAddr]}
  BY <1>1
<1>2. CASE b \in {[text |-> <<n, ":">>, host |-> <<n>>] : n \in Names}
  BY <1>2
<1>3. CASE b \in {[text |-> c \o <<":">>, host |-> SubSeq(c, 2, Len(c) - 1)] : c \in Bracketed}
  <2>1. PICK c \in Bracketed : b = [text |-> c \o <<":">>, host |-> SubSeq(c, 2, Len(c) - 1)]
    BY <1>3
  <2>2. PICK name \in Names : c = InBrackets(name)
    BY BracketedText
  <2>3. SubSeq(c, 2, Len(c) - 1) = V6(name)
    BY <2>2, BracketedText
  <2> QED
    BY <2>1, <2>2, <2>3
<1> QED
  BY <1>1, <1>2, <1>3 DEF Binds

LEMMA TargetsWritten ==
  ASSUME NEW t \in Targets
  PROVE  \/ \E name \in Names : t.text = <<name>> /\ t.host = <<name>>
         \/ \E name \in Names : t.text = InBrackets(name) /\ t.host = V6(name)
<1>1. CASE t \in {[text |-> <<n>>, host |-> <<n>>] : n \in Names}
  BY <1>1
<1>2. CASE t \in {[text |-> c, host |-> SubSeq(c, 2, Len(c) - 1)] : c \in Bracketed}
  <2>1. PICK c \in Bracketed : t = [text |-> c, host |-> SubSeq(c, 2, Len(c) - 1)]
    BY <1>2
  <2>2. PICK name \in Names : c = InBrackets(name)
    BY BracketedText
  <2>3. SubSeq(c, 2, Len(c) - 1) = V6(name)
    BY <2>2, BracketedText
  <2> QED
    BY <2>1, <2>2, <2>3
<1> QED
  BY <1>1, <1>2 DEF Targets

LEMMA BindIsRead ==
  ASSUME NEW b \in Binds, NEW p \in Ports \cup {"0"}
  PROVE  /\ b.text \in Seq(Tokens)
         /\ SplitListen(b.text \o <<p>>) = {[host |-> b.host, port |-> p]}
<1>0. p \in Words /\ p \in Tokens /\ p # ":" /\ ":" \in Tokens
  BY MarksAreNoWords DEF Words
<1>1. CASE b.text = <<>> /\ b.host = defaultBindAddr
  <2>1. <<>> \o <<p>> = <<p>>
    OBVIOUS
  <2>2. ~Has(<<p>>, ":")
    BY <1>0 DEF Has
  <2>3. ValidPort(<<p>>, TRUE)
    BY DEF ValidPort
  <2>4. SplitListen(<<p>>) = {[host |-> defaultBindAddr, port |-> p]}
    BY <2>2, <2>3 DEF SplitListen
  <2>5. <<>> \in Seq(Tokens)
    OBVIOUS
  <2> QED
    BY <1>1, <2>1, <2>4, <2>5
<1>2. CASE b.text = <<":">> /\ b.host = defaultBindAddr
  <2>1. <<>> \in Seq(Tokens) /\ <<>> \o <<":">> = <<":">> /\ <<":">> \in Seq(Tokens)
    BY <1>0, MarksAreNoWords
  <2>2. NormalizeHost(<<>>) = {<<>>}
    BY DEF NormalizeHost, Has
  <2>3. SplitListen((<<>> \o <<":">>) \o <<p>>) = {[host |-> OrDefault(<<>>), port |-> p]}
    <3> DEFINE x == <<>>
    <3>1. x \in Seq(Tokens) /\ NormalizeHost(x) = {x}
      BY <2>1, <2>2
    <3> HIDE DEF x
    <3>2. SplitListen((x \o <<":">>) \o <<p>>) = {[host |-> OrDefault(x), port |-> p]}
      BY <3>1, AddressIsRead
    <3> QED
      BY <3>2 DEF x
  <2> QED
    BY <1>2, <2>1, <2>3 DEF OrDefault
<1>3. ASSUME NEW name \in Names, b.text = <<name, ":">>, b.host = <<name>>
      PROVE  b.text \in Seq(Tokens) /\ SplitListen(b.text \o <<p>>) = {[host |-> b.host, port |-> p]}
  <2>0. name \in Tokens /\ name # "[" /\ name # "]"
    BY MarksAreNoWords DEF Words
  <2>1. <<name>> \in Seq(Tokens) /\ <<name>> \o <<":">> = <<name, ":">> /\ <<name, ":">> \in Seq(Tokens)
    BY <1>0, <2>0, OneAppended
  <2>2. NormalizeHost(<<name>>) = {<<name>>}
    BY <2>0 DEF NormalizeHost, Has
  <2>3. SplitListen((<<name>> \o <<":">>) \o <<p>>) = {[host |-> OrDefault(<<name>>), port |-> p]}
    <3> DEFINE x == <<name>>
    <3>1. x \in Seq(Tokens) /\ NormalizeHost(x) = {x}
      BY <2>1, <2>2
    <3> HIDE DEF x
    <3>2. SplitListen((x \o <<":">>) \o <<p>>) = {[host |-> OrDefault(x), port |-> p]}
      BY <3>1, AddressIsRead
    <3> QED
      BY <3>2 DEF x
  <2>4. OrDefault(<<name>>) = <<name>>
    BY DEF OrDefault
  <2> QED
    BY <1>3, <2>1, <2>3, <2>4
<1>4. ASSUME NEW name \in Names, b.text = InBrackets(name) \o <<":">>, b.host = V6(name)
      PROVE  b.text \in Seq(Tokens) /\ SplitListen(b.text \o <<p>>) = {[host |-> b.host, port |-> p]}
  <2> DEFINE x == InBrackets(name)
  <2>1. x \in Seq(Tokens) /\ x # <<>> /\ x[1] = "[" /\ Len(x) = 5 /\ EndsIn(x, "]")
    <3>1. x \in Seq(Tokens)
      BY BracketsAreText
    <3>2. x # <<>> /\ x[1] = "[" /\ Len(x) = 5 /\ x[5] = "]"
      BY DEF InBrackets
    <3> HIDE DEF x
    <3> QED
      BY <3>1, <3>2 DEF EndsIn
  <2>2. NormalizeHost(x) = {V6(name)}
    <3>1. SubSeq(x, 2, Len(x) - 1) = V6(name)
      BY BracketedText DEF x
    <3> HIDE DEF x
    <3>2. Len(x) > 2
      BY <2>1
    <3> QED
      BY <2>1, <3>1, <3>2 DEF NormalizeHost
  <2> HIDE DEF x
  <2>3. SplitListen((x \o <<":">>) \o <<p>>) = {[host |-> OrDefault(V6(name)), port |-> p]}
    BY <2>1, <2>2, AddressIsRead
  <2>4. OrDefault(V6(name)) = V6(name)
    BY DEF OrDefault, V6
  <2>5. x \o <<":">> \in Seq(Tokens)
    <3>1. <<":">> \in Seq(Tokens)
      BY <1>0
    <3> QED
      BY <2>1, <3>1, ConcatProperties
  <2> QED
    BY <1>4, <2>3, <2>4, <2>5 DEF x
<1> QED
  BY <1>1, <1>2, <1>3, <1>4, BindsWritten


(* A text of the documented form, "[bind_address:]port:host:hostport" with *)
(* a name or a bracketed literal for each host, means what it says; a bind *)
(* address left out or left empty means localhost.                         *)
THEOREM DocumentedFormIsRead ==
  ASSUME NEW b \in Binds, NEW t \in Targets, NEW p \in Ports \cup {"0"}, NEW q \in Ports
  PROVE  Parse(b.text \o <<p, ":">> \o t.text \o <<":", q>>)
             = {[listen |-> [host |-> b.host, port |-> p],
                 target |-> [host |-> t.host, port |-> q]]}
<1> DEFINE u == b.text \o <<p>>
           x == b.text \o <<p, ":">>
           y == x \o t.text
           s == y \o <<":", q>>
           l == [host |-> b.host, port |-> p]
           g == [host |-> t.host, port |-> q]
<1>1. p \in Tokens /\ ":" \in Tokens /\ <<p>> \in Seq(Tokens) /\ q \in Words
  BY MarksAreNoWords DEF Words
<1>2. b.text \in Seq(Tokens) /\ SplitListen(u) = {l}
  BY BindIsRead
<1>3. u \in Seq(Tokens) /\ x = u \o <<":">>
  <2>1. b.text \o <<p>> \in Seq(Tokens)
    BY <1>1, <1>2, ConcatProperties
  <2>2. (b.text \o <<p>>) \o <<":">> = b.text \o <<p, ":">>
    BY <1>1, <1>2, TwoAppended
  <2> QED
    BY <2>1, <2>2
<1> HIDE DEF u, x
<1>4. x \in Seq(Tokens) /\ EndsIn(x, ":") /\ WithoutColon(x) = u
  <2>1. <<":">> \in Seq(Tokens)
    BY <1>1
  <2> QED
    BY <1>3, <2>1, ColonIsTaken, ConcatProperties
<1>5. t.text \in Seq(Tokens) /\ SplitHost(y) = {[rest |-> x, host |-> t.host]}
  <2>1. ASSUME NEW name \in Names, t.text = <<name>>, t.host = <<name>>
        PROVE  t.text \in Seq(Tokens) /\ SplitHost(y) = {[rest |-> x, host |-> t.host]}
    <3>1. <<name>> \in Seq(Tokens)
      BY MarksAreNoWords DEF Words
    <3>2. SplitHost(x \o <<name>>) = {[rest |-> x, host |-> <<name>>]}
      BY <1>4, BareHostIsRead
    <3> QED
      BY <2>1, <3>1, <3>2
  <2>2. ASSUME NEW name \in Names, t.text = InBrackets(name), t.host = V6(name)
        PROVE  t.text \in Seq(Tokens) /\ SplitHost(y) = {[rest |-> x, host |-> t.host]}
    BY <1>4, <2>2, BracketsAreText, BracketedHostIsRead
  <2> QED
    BY <2>1, <2>2, TargetsWritten
<1>6. y \in Seq(Tokens)
  BY <1>4, <1>5, ConcatProperties
<1> HIDE DEF y
<1>7. SplitPort(s, FALSE) = {[rest |-> y, port |-> q]}
  BY <1>1, <1>6, PortIsRead
<1> HIDE DEF s
<1>8. SplitTarget(s) = {[rest |-> u, target |-> g]}
  <2> DEFINE h == [rest |-> x, host |-> t.host]
             r == [rest |-> y, port |-> q]
             H(v) == {c \in SplitHost(v.rest) : c.rest # <<>>}
             R(v) == {[rest |-> WithoutColon(c.rest), target |-> [host |-> c.host,
             port |-> v.port]] :
                         c \in H(v)}
  <2>1. r.rest = y /\ r.port = q /\ h.rest = x /\ h.host = t.host
    OBVIOUS
  <2>2. x # <<>>
    BY <1>4 DEF EndsIn
  <2>3. SplitHost(y) = {h} /\ SplitPort(s, FALSE) = {r}
    BY <1>5, <1>7
  <2>4. SplitTarget(s) = UNION {R(v) : v \in SplitPort(s, FALSE)}
    BY DEF SplitTarget
  <2> HIDE DEF h, r
  <2>5. H(r) = {h}
    BY <2>1, <2>2, <2>3
  <2>6. R(r) = {[rest |-> u, target |-> g]}
    <3> HIDE DEF H
    <3> QED
      BY <1>4, <2>1, <2>5
  <2> HIDE DEF R
  <2>7. UNION {R(v) : v \in {r}} = R(r)
    OBVIOUS
  <2> QED
    BY <2>3, <2>4, <2>6, <2>7
<1>9. Parse(s) = {[listen |-> l, target |-> g]}
  <2> DEFINE a == [rest |-> u, target |-> g]
             R(v) == {[listen |-> m, target |-> v.target] : m \in SplitListen(v.rest)}
  <2>1. a.rest = u /\ a.target = g
    OBVIOUS
  <2>2. Parse(s) = UNION {R(v) : v \in SplitTarget(s)} /\ SplitTarget(s) = {a}
    BY <1>8 DEF Parse
  <2> HIDE DEF a, l, g
  <2>3. R(a) = {[listen |-> l, target |-> g]}
    BY <1>2, <2>1 DEF l
  <2> HIDE DEF R
  <2>4. UNION {R(v) : v \in {a}} = R(a)
    OBVIOUS
  <2> QED
    BY <2>2, <2>3, <2>4
<1> QED
  BY <1>9 DEF s, y, x

LEMMA AllIsReadAsMeant == ReadAsMeant
<1>1. ASSUME NEW n \in 0..6, NEW s \in Texts(n) PROVE s \in Seq(Tokens)
  <2>1. s \in [1..n -> Tokens] /\ n \in Nat
    BY DEF Texts, Tokens
  <2> QED
    BY <2>1, FunctionIsSequence
<1>2. ASSUME NEW s \in UNION {Texts(n) : n \in 0..6}, NEW r \in Parse(s)
      PROVE  WordsOf(s) = WordsOf(r.listen.host) \o <<r.listen.port>>
                             \o WordsOf(r.target.host) \o <<r.target.port>>
  <2>1. s \in Seq(Tokens)
    BY <1>1
  <2> QED
    BY <2>1, NoWordIsLost
<1> QED
  BY <1>2, DocumentedFormIsRead DEF ReadAsMeant

(* Every -L text is read as it is written before anything is done with it, *)
(* whatever port numbers and names there are.                              *)
THEOREM ForwardsReadAlways == Spec => []ForwardsRead
<1>1. ForwardsRead
  BY AllIsReadAsMeant DEF ForwardsRead
<1> QED
  BY <1>1, PTL

-----------------------------------------------------------------------------
(* How the command ends.  EndsTogether says that it does; what that takes  *)
(* in every state is that an address is somebody's to close, that the      *)
(* error that ended the clients reaches the command, and that nobody waits *)
(* for what does not come.                                                 *)

(* An address is listened on by a client that closes it when it fails or   *)
(* stops; the gateway has returned only when no client is left; and a      *)
(* client that failed has ended the command's group by then.               *)
EndInv ==
    /\ \A a \in open : \E d \in AllDevices : a \in Own(d) /\ phase[d] \in {"listening", "serving"}
    /\ gw = "ended" => /\ clients = Planned /\ launching = {}
                       /\ \A d \in AllDevices : phase[d] \in Ended
    /\ stage = "exited" => gw = "ended" \/ clients = {}
    /\ stage \in {"merge", "connect", "build"} => inner = "live" /\ gw = "runs"
    /\ inner = "ended" /\ outer = "live" => gw = "runs" /\ \E d \in Planned : phase[d] = "failed"

(* One of those that are to end has something to do: a client that is not  *)
(* at its end, the gateway, which starts or has seen the end of them all,  *)
(* the health server, or the command, once both have returned.             *)
SomebodyGoesOn ==
    \/ launching # {} \/ clients # Planned
    \/ \E d \in clients : /\ phase[d] \notin Ended
                          /\ phase[d] = "serving" => Context = "ended"
    \/ gw = "runs" /\ \A d \in Planned : phase[d] \in Ended
    \/ health = "start" \/ (health = "serving" /\ outer = "ended")
    \/ outer = "ended" /\ gw = "ended" /\ health \in {"off", "ended"}

(* The command leaves no address listened on, and from the moment its      *)
(* clients are to end until it has exited there is a step to its end.      *)
EndsInOrder ==
    /\ stage = "exited" => open = {}
    /\ inner = "ended" /\ stage # "exited" => SomebodyGoesOn

(* Steps that move no client, no address and none of the ends.             *)
LEMMA EndUnmoved ==
  ASSUME EndInv,
         UNCHANGED <<plan, inner, outer, clients, launching, phase, open, gw>>,
         stage' = stage \/ (stage' \in {"build", "run"} /\ stage \in {"connect", "build"})
  PROVE  EndInv'
BY DEF EndInv, Own, Planned

LEMMA EndStep ==
  ASSUME Inv, EndInv, [Next]_vars
  PROVE  EndInv'
<1> USE DEF EndInv
<1>0. /\ TypeOK /\ PlanInv /\ StartInv /\ EndInv
      /\ phase \in [AllDevices -> Ended \cup {"new", "registered", "subscribing", "listening",
                                               "serving", "draining", "emptying"}]
  BY DEF Inv, TypeOK
<1>1. CASE ReadRoutes
  <2>1. clients' = {} /\ open' = {} /\ inner' = "live" /\ gw' = "runs"
    BY <1>0, <1>1, PlanChanges DEF ReadRoutes
  <2>2. stage' \in {"connect", "exited"}
    BY <1>1 DEF ReadRoutes
  <2> QED
    BY <2>1, <2>2
<1>2. CASE Connect \/ Build
  <2>1. clients = {} /\ clients' = {} /\ open' = {} /\ inner' = "live" /\ gw' = "runs"
    BY <1>0, <1>2 DEF Connect, Build, PlanInv
  <2> QED
    BY <2>1
<1>3. CASE Interrupt \/ HealthListens \/ HealthEnds \/ HealthStops
  <2>1. UNCHANGED <<plan, clients, launching, phase, open, gw, stage>> /\ stage = "run"
    BY <1>3 DEF Interrupt, HealthListens, HealthEnds, HealthStops, config
  <2>2. UNCHANGED <<outer, inner>> \/ outer' = "ended"
    BY <1>3 DEF Interrupt, HealthListens, HealthEnds, HealthStops, EndOuter
  <2> QED
    BY <1>0, <2>1, <2>2 DEF Own, Planned
<1>4. CASE Exit
  BY <1>0, <1>4 DEF Exit, Own, Planned, config
<1>5. CASE GatewayReturns
  <2>1. \A d \in AllDevices : phase[d] \in Ended
    BY <1>0, <1>5 DEF GatewayReturns, StartInv, Ended
  <2>2. UNCHANGED <<plan, clients, launching, phase, open, stage>> /\ stage = "run"
    BY <1>5 DEF GatewayReturns, config
  <2>3. outer' = "ended" \/ (UNCHANGED <<inner, outer>> /\ \A d \in Planned : phase[d] # "failed")
    BY <1>5 DEF GatewayReturns, EndOuter
  <2> QED
    BY <1>0, <1>5, <2>1, <2>2, <2>3 DEF GatewayReturns, Own, Planned
<1>6. ASSUME NEW d \in AllDevices, AppendClient(d)
      PROVE  EndInv'
  BY <1>0, <1>6 DEF AppendClient, Own, Planned, config
<1>7. ASSUME UNCHANGED plan, NEW d \in AllDevices, Goroutine(d), ~ AppendClient(d)
      PROVE  EndInv'
  <2>1. UNCHANGED <<stage, outer, clients, gw>>
    BY <1>7 DEF Goroutine, StartClient, Register, SubscribeAll, Subscribe, Listen,
                StopListening, CloseSessions, Return
  <2>2. d \in clients /\ d \in Planned /\ stage \notin {"merge", "connect", "build"} /\ gw = "runs"
    <3>1. d \in clients
      BY <1>0, <1>7 DEF Goroutine, StartClient, Register, SubscribeAll, Subscribe, Listen,
                        StopListening, CloseSessions, Return, StartInv, TypeOK
    <3>2. d \in launching \/ phase[d] \notin Ended
      BY <1>7 DEF Goroutine, StartClient, Register, SubscribeAll, Subscribe, Listen,
                  StopListening, CloseSessions, Return, Ended
    <3> QED
      BY <1>0, <3>1, <3>2 DEF PlanInv, TypeOK
  <2>3. \/ StartClient(d) /\ phase[d] = "none"
        \/ phase[d] \notin Ended
    BY <1>0, <1>7 DEF Goroutine, StartClient, Register, SubscribeAll, Subscribe, Listen,
                      StopListening, CloseSessions, Return, Ended, StartInv
  <2>4. \E p \in Ended \cup {"new", "registered", "subscribing", "listening", "serving", "draining",
                           "emptying"} :
           /\ phase' = [phase EXCEPT ![d] = p]
           /\ inner' = inner \/ p = "failed"
    BY <1>0, <1>7 DEF Goroutine, StartClient, Register, SubscribeAll, Subscribe, Listen,
                      StopListening, CloseSessions, Return, Fail, Ended
  <2>5. \A e \in Planned : phase[e] = "failed" => phase'[e] = "failed"
    BY <1>0, <2>3, <2>4 DEF Ended, TypeOK
  <2>6. ASSUME NEW a \in open'
        PROVE  \E e \in AllDevices : a \in Own(e)' /\ phase'[e] \in {"listening", "serving"}
    <3>1. \/ Listen(d) /\ phase'[d] \in {"listening", "serving"} /\ open' \subseteq open \cup Own(d)
          \/ a \in open /\ open' = open \ Own(d)
          \/ open' = open /\ phase[d] \notin {"listening", "serving"}
      <4>1. CASE Listen(d)
        <5> DEFINE left == {i \in ForDevice(plan, d) : plan[i].listen \notin open}
        <5>1. \/ \E i \in left : open' = open \cup {plan[i].listen} /\ UNCHANGED phase
              \/ open' = open \ Own(d)
              \/ UNCHANGED open /\ phase' = [phase EXCEPT ![d] = "serving"]
          BY <4>1 DEF Listen
        <5>2. \A i \in left : plan[i].listen \in Own(d)
          BY DEF Own
        <5>3. phase[d] = "listening"
          BY <4>1 DEF Listen
        <5> QED
          BY <1>0, <2>6, <4>1, <5>1, <5>2, <5>3
      <4>2. CASE StopListening(d)
        BY <2>6, <4>2 DEF StopListening
      <4>3. CASE ~ Listen(d) /\ ~ StopListening(d)
        <5>1. \/ StartClient(d) \/ Register(d) \/ SubscribeAll(d) \/ Subscribe(d)
              \/ CloseSessions(d) \/ Return(d)
          BY <1>7, <4>3 DEF Goroutine
        <5>2. UNCHANGED open
          BY <5>1 DEF StartClient, Register, SubscribeAll, Subscribe, CloseSessions, Return
        <5>3. CASE StartClient(d)
          BY <1>0, <5>2, <5>3 DEF StartClient, StartInv
        <5>4. CASE ~ StartClient(d)
          BY <5>1, <5>2, <5>4 DEF Register, SubscribeAll, Subscribe, CloseSessions, Return
        <5> QED
          BY <5>3, <5>4
      <4> QED
        BY <4>1, <4>2, <4>3
    <3>2. \A e \in AllDevices : Own(e)' = Own(e)
      BY <1>7 DEF Own
    <3>3. CASE a \in Own(d) /\ Listen(d) /\ phase'[d] \in {"listening", "serving"}
      BY <3>2, <3>3
    <3>4. CASE a \in open /\ a \notin Own(d)
      BY <1>0, <2>4, <3>2, <3>4
    <3>5. CASE a \in open /\ phase[d] \notin {"listening", "serving"}
      BY <1>0, <2>4, <3>2, <3>5
    <3> QED
      BY <3>1, <3>3, <3>4, <3>5, <2>6
  <2>7. Planned' = Planned
    BY <1>7 DEF Planned
  <2> HIDE DEF EndInv
  <2>8. stage' = "exited" => clients' = {}
    BY <1>0, <2>1, <2>2 DEF EndInv
  <2>9. inner' = "ended" /\ outer' = "live" => \E e \in Planned' : phase'[e] = "failed"
    BY <1>0, <2>1, <2>2, <2>4, <2>5, <2>7 DEF EndInv
  <2> QED
    BY <1>0, <2>1, <2>2, <2>6, <2>8, <2>9 DEF EndInv
<1>8. CASE (\E d \in AllDevices : Accept(d)) \/ Manage \/ ConnEnds \/ LinkLost
              \/ CloseAllSessions \/ CloseClient \/ EmptyClient \/ UNCHANGED vars
  <2>1. UNCHANGED <<plan, inner, outer, clients, launching, phase, open, gw, stage>>
    BY <1>8 DEF Accept, Manage, ConnEnds, LinkLost, CloseAllSessions, CloseClient,
           EmptyClient, vars, config
  <2> QED
    BY <1>0, <2>1, EndUnmoved
<1>9. \A d \in AllDevices : Goroutine(d) => UNCHANGED plan
  BY DEF Goroutine, AppendClient, StartClient, Register, SubscribeAll, Subscribe, Listen,
         StopListening, CloseSessions, Return, config
<1> HIDE DEF EndInv
<1> QED
  BY <1>1, <1>2, <1>3, <1>4, <1>5, <1>6, <1>7, <1>8, <1>9 DEF Next, Main, Goroutine

(* Whatever fails or is told to stop, in whatever phase the clients are:   *)
(* no address stays listened on after the command, a client's error is     *)
(* not lost on the way to it, and until it has exited nobody waits for     *)
(* what does not come (the safety that EndsTogether rests on).             *)
THEOREM GatewayEndsInOrder == Spec => []EndsInOrder
<1>1. Init => EndInv
  BY DEF Init, EndInv
<1>2. Spec => []EndInv
  BY <1>1, EndStep, Inductive, PTL DEF Spec
<1>3. Inv /\ EndInv => EndsInOrder
  <2> SUFFICES ASSUME Inv, EndInv PROVE EndsInOrder
    OBVIOUS
  <2>0. TypeOK /\ StartInv /\ PlanInv
    BY DEF Inv
  <2>1. ASSUME stage = "exited"
        PROVE  open = {}
    BY <2>0, <2>1 DEF EndInv, PlanInv, Ended
  <2>2. ASSUME inner = "ended", stage # "exited", ~ SomebodyGoesOn
        PROVE  FALSE
    <3>1. launching = {} /\ clients = Planned /\ \A d \in Planned : phase[d] \in Ended
      BY <2>2 DEF SomebodyGoesOn, Context
    <3>2. gw = "ended"
      BY <2>0, <2>2, <3>1 DEF SomebodyGoesOn, TypeOK
    <3>3. outer = "ended"
      BY <2>0, <2>2, <3>2 DEF EndInv, TypeOK
    <3> QED
      BY <2>0, <2>2, <3>2, <3>3 DEF SomebodyGoesOn, TypeOK
  <2> QED
    BY <2>1, <2>2 DEF EndsInOrder
<1> QED
  BY <1>2, <1>3, Inductive, PTL

=============================================================================
