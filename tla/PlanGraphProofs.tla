--------------------------- MODULE PlanGraphProofs ---------------------------
(***************************************************************************)
(* What validate_dag, the workflow's choice of a step and partial_replan   *)
(* compute, for every plan of N steps.                                     *)
(*                                                                         *)
(* Topology and Downstream are recursive functions.  That there are such   *)
(* functions, and what their values are, are inductions that argue from a  *)
(* smallest counterexample.  Emitted says what the loop of Topology has    *)
(* after k rounds, Rounds the same of Downstream.  A revision is a Copy of *)
(* the plan under new ids, and what validate_dag checks holds of a plan    *)
(* and of its copies alike: cycles, edges, roots, reachability and layers. *)
(***************************************************************************)
EXTENDS PlanGraph, FiniteSetTheorems, SequenceTheorems, WellFoundedInduction, TLAPS

LEMMA SmallestNat ==
    ASSUME NEW T, T \subseteq Nat, T # {}
    PROVE  \E n \in T : \A m \in T : n <= m
  <1>1. PICK n \in T : \A m \in T : ~(<<m, n>> \in OpToRel(<, Nat))
    BY WFMin, NatLessThanWellFounded
  <1>2. \A m \in T : ~(m < n)
    BY <1>1 DEF OpToRel
  <1>3. QED
    BY <1>2

-----------------------------------------------------------------------------
(* Ids, and plans over them.                                               *)

LEMMA IdFacts ==
    /\ N \in Nat /\ N # 0 /\ IsFiniteSet(Ids) /\ Steps \subseteq Ids /\ Ids \subseteq Int
    /\ \A s \in Ids : 1 - N <= s /\ s <= N
  <1>1. 1 - N \in Int /\ N \in Int /\ N \in Nat /\ N # 0
    BY PlanAssumption DEF PlanAssumption
  <1>2. IsFiniteSet(Ids)
    BY <1>1, FS_Interval DEF Ids
  <1>3. QED
    BY <1>1, <1>2 DEF Ids, Steps

\* Min and Max take an element of a set of ids.
LEMMA SmallestId ==
    ASSUME NEW T, T \subseteq Ids, T # {}
    PROVE  Min(T) \in T /\ \A s \in T : Min(T) <= s
  <1> DEFINE Shifted == {s - (1 - N) : s \in T}
  <1>1. Shifted \subseteq Nat /\ Shifted # {}
    BY IdFacts
  <1>2. PICK n \in Shifted : \A m \in Shifted : n <= m
    BY <1>1, SmallestNat
  <1>3. PICK t \in T : n = t - (1 - N)
    BY <1>2
  <1>4. \A s \in T : t <= s
    <2> TAKE s \in T
    <2>1. s - (1 - N) \in Shifted
      OBVIOUS
    <2>2. n <= s - (1 - N)
      BY <1>2, <2>1
    <2>3. s \in Ids /\ t \in Ids
      OBVIOUS
    <2> HIDE DEF Shifted
    <2>4. s \in Int /\ t \in Int /\ N \in Int
      BY <2>3, IdFacts
    <2>5. QED
      BY <1>3, <2>2, <2>4
  <1>5. QED
    BY <1>4 DEF Min

\* A plan whose steps depend on steps of it.
Closed(plan) ==
    /\ plan = [s \in DOMAIN plan |-> plan[s]] /\ DOMAIN plan \subseteq Ids
    /\ \A s \in DOMAIN plan : plan[s] \subseteq DOMAIN plan

Size(plan) == Cardinality(DOMAIN plan)

LEMMA SizeFacts ==
    ASSUME NEW plan, DOMAIN plan \subseteq Ids
    PROVE  IsFiniteSet(DOMAIN plan) /\ Size(plan) \in Nat
  BY IdFacts, FS_Subset, FS_CardinalityType DEF Size

-----------------------------------------------------------------------------
(* Topology.                                                               *)

\* The body of `order` in Topology.
Emit(plan, e) ==
    LET ready == Ready(plan, ToSet(e)) IN IF ready = {} THEN e ELSE Append(e, Min(ready))

Orders(plan, n, f) ==
    f = [k \in 0 .. n |-> IF k = 0 THEN <<>> ELSE Emit(plan, f[k - 1])]

LEMMA OrderExists ==
    ASSUME NEW plan, NEW n \in Nat
    PROVE  \E f : Orders(plan, n, f)
  <1> DEFINE Bad == {m \in Nat : ~ \E f : Orders(plan, m, f)}
  <1> SUFFICES ASSUME Bad # {} PROVE FALSE
    OBVIOUS
  <1>1. PICK m \in Bad : \A k \in Bad : m <= k
    BY SmallestNat
  <1>2. CASE m = 0
    <2> DEFINE z == [k \in 0 .. 0 |-> <<>>]
    <2>1. Orders(plan, 0, z)
      BY DEF Orders
    <2>2. QED
      BY <1>1, <1>2, <2>1
  <1>3. CASE m # 0
    <2>1. m - 1 \in Nat /\ m \in Nat /\ m - 1 \notin Bad
      BY <1>1, <1>3
    <2>2. PICK f : Orders(plan, m - 1, f)
      BY <2>1
    <2> DEFINE g == [k \in 0 .. m |-> IF k = m THEN Emit(plan, f[m - 1]) ELSE f[k]]
    <2>3. \A k \in 0 .. m - 1 : f[k] = IF k = 0 THEN <<>> ELSE Emit(plan, f[k - 1])
      BY <2>2 DEF Orders
    <2>4. \A k \in 0 .. m : k # m => k \in 0 .. m - 1 /\ g[k] = f[k]
      BY <2>1
    <2>5. g[m] = Emit(plan, f[m - 1])
      BY <2>1
    <2>6. \A k \in 0 .. m : k # 0 => k - 1 \in 0 .. m - 1 /\ k - 1 \in 0 .. m /\ g[k - 1] = f[k - 1]
      BY <2>1
    <2>7. ASSUME NEW k \in 0 .. m
          PROVE  g[k] = IF k = 0 THEN <<>> ELSE Emit(plan, g[k - 1])
      <3>1. CASE k = 0
        BY <1>3, <2>1, <2>3, <2>4, <3>1
      <3>2. CASE k # 0
        BY <1>3, <2>1, <2>3, <2>4, <2>5, <2>6, <3>2
      <3>3. QED
        BY <3>1, <3>2
    <2>8. g = [k \in 0 .. m |-> g[k]]
      OBVIOUS
    <2> HIDE DEF g
    <2>9. Orders(plan, m, g)
      BY <2>7, <2>8 DEF Orders
    <2>10. QED
      BY <1>1, <2>9
  <1>4. QED
    BY <1>2, <1>3

\* After k rounds: what is emitted, each step once and after those it depends on, is
\* k steps long unless no step is ready.
Emitted(plan, e, k) ==
    /\ e \in Seq(DOMAIN plan) /\ Len(e) <= k
    /\ \A i, j \in 1 .. Len(e) : e[i] = e[j] => i = j
    /\ \A i \in 1 .. Len(e) : \A d \in plan[e[i]] : \E j \in 1 .. i - 1 : e[j] = d
    /\ Len(e) = k \/ Ready(plan, ToSet(e)) = {}

LEMMA EmittedSet ==
    ASSUME NEW plan, NEW k \in Nat, NEW e, Emitted(plan, e, k)
    PROVE  /\ Len(e) \in Nat /\ DOMAIN e = 1 .. Len(e)
           /\ ToSet(e) = {e[i] : i \in 1 .. Len(e)} /\ ToSet(e) \subseteq DOMAIN plan
           /\ \A i \in 1 .. Len(e) : e[i] \in DOMAIN plan
  BY DEF Emitted, ToSet

LEMMA EmitStep ==
    ASSUME NEW plan, Closed(plan), NEW k \in Nat, NEW e, Emitted(plan, e, k)
    PROVE  Emitted(plan, Emit(plan, e), k + 1)
  <1> DEFINE ready == Ready(plan, ToSet(e))
  <1>1. CASE ready = {}
    <2>1. Emit(plan, e) = e
      BY <1>1 DEF Emit
    <2>2. Emitted(plan, e, k + 1)
      BY <1>1, EmittedSet DEF Emitted
    <2>3. QED
      BY <2>1, <2>2
  <1>2. CASE ready # {}
    <2> DEFINE s == Min(ready)
               new == Append(e, s)
    <2>1. Len(e) = k /\ e \in Seq(DOMAIN plan)
      BY <1>2 DEF Emitted
    <2>2. ready \subseteq Ids
      BY DEF Ready, Closed
    <2>3. s \in ready
      BY <1>2, <2>2, SmallestId
    <2>4. s \in DOMAIN plan /\ s \notin ToSet(e) /\ plan[s] \subseteq ToSet(e)
      BY <2>3 DEF Ready
    <2>5. Emit(plan, e) = new
      BY <1>2 DEF Emit
    <2> HIDE DEF s, ready
    <2>6. /\ new \in Seq(DOMAIN plan) /\ Len(new) = k + 1 /\ new[k + 1] = s
          /\ \A i \in 1 .. k : new[i] = e[i]
      BY <2>1, <2>4
    <2> HIDE DEF new
    <2>7. /\ ToSet(e) = {e[i] : i \in 1 .. k}
          /\ \A i, j \in 1 .. k : e[i] = e[j] => i = j
          /\ \A i \in 1 .. k : \A d \in plan[e[i]] : \E j \in 1 .. i - 1 : e[j] = d
      BY <2>1, EmittedSet DEF Emitted
    <2>8. \A i \in 1 .. k + 1 : i \in 1 .. k \/ i = k + 1
      OBVIOUS
    <2>9. \A i, j \in 1 .. k + 1 : new[i] = new[j] => i = j
      BY <2>4, <2>6, <2>7, <2>8
    <2>10. ASSUME NEW i \in 1 .. k + 1, NEW d \in plan[new[i]]
           PROVE  \E j \in 1 .. i - 1 : new[j] = d
      <3>1. CASE i \in 1 .. k
        <4>1. PICK j \in 1 .. i - 1 : e[j] = d
          BY <2>6, <2>7, <2>10, <3>1
        <4>2. j \in 1 .. k
          BY <3>1
        <4>3. QED
          BY <2>6, <4>1, <4>2
      <3>2. CASE i = k + 1
        <4>1. PICK j \in 1 .. k : e[j] = d
          BY <2>4, <2>6, <2>7, <2>10, <3>2
        <4>2. j \in 1 .. i - 1
          BY <3>2
        <4>3. QED
          BY <2>6, <4>1, <4>2
      <3>3. QED
        BY <2>8, <3>1, <3>2
    <2>11. Emitted(plan, new, k + 1)
      BY <2>6, <2>9, <2>10 DEF Emitted
    <2>12. QED
      BY <2>5, <2>11
  <1>3. QED
    BY <1>1, <1>2

LEMMA TopologyEmits ==
    ASSUME NEW plan, Closed(plan)
    PROVE  Emitted(plan, Topology(plan), Size(plan))
  <1> DEFINE n == Size(plan)
             f == CHOOSE f : Orders(plan, n, f)
  <1>1. n \in Nat
    BY SizeFacts DEF Closed
  <1>2. Topology(plan) = f[n]
    BY DEF Topology, Orders, Emit, Size
  <1>3. n = Size(plan)
    OBVIOUS
  <1> HIDE DEF n
  <1>4. Orders(plan, n, f)
    BY <1>1, OrderExists
  <1> HIDE DEF f
  <1> DEFINE Bad == {k \in 0 .. n : ~Emitted(plan, f[k], k)}
  <1>5. SUFFICES ASSUME Bad # {} PROVE FALSE
    BY <1>1, <1>2, <1>3
  <1>6. PICK k \in Bad : \A m \in Bad : k <= m
    <2>1. Bad \subseteq Nat
      BY <1>1
    <2>2. QED
      BY <1>5, <2>1, SmallestNat
  <1>7. k \in 0 .. n /\ f[k] = IF k = 0 THEN <<>> ELSE Emit(plan, f[k - 1])
    BY <1>4, <1>6 DEF Orders
  <1>8. CASE k = 0
    <2>1. Emitted(plan, <<>>, 0)
      BY DEF Emitted
    <2>2. QED
      BY <1>6, <1>7, <1>8, <2>1
  <1>9. CASE k # 0
    <2>1. k - 1 \in Nat /\ k - 1 \in 0 .. n /\ ~(k <= k - 1) /\ (k - 1) + 1 = k
      BY <1>1, <1>7, <1>9
    <2>2. Emitted(plan, f[k - 1], k - 1)
      BY <1>6, <2>1
    <2>3. Emitted(plan, f[k], k)
      BY <1>7, <1>9, <2>1, <2>2, EmitStep
    <2>4. QED
      BY <1>6, <2>3
  <1>10. QED
    BY <1>8, <1>9

\* In every set of steps of an acyclic plan some step depends on no step of the set.
NoCycle(plan) ==
    \A S \in SUBSET DOMAIN plan : S # {} => \E s \in S : plan[s] \cap S = {}

LEMMA EmittedCount ==
    ASSUME NEW plan, Closed(plan), NEW e, Emitted(plan, e, Size(plan))
    PROVE  Len(e) = Size(plan) <=> ToSet(e) = DOMAIN plan
  <1> DEFINE k == Len(e)
             range == ToSet(e)
             f == [i \in 1 .. k |-> e[i]]
  <1>1. Size(plan) \in Nat /\ IsFiniteSet(DOMAIN plan) /\ Size(plan) = Cardinality(DOMAIN plan)
    BY SizeFacts DEF Closed, Size
  <1>2. /\ k \in Nat /\ range = {e[i] : i \in 1 .. k} /\ range \subseteq DOMAIN plan
        /\ \A i, j \in 1 .. k : e[i] = e[j] => i = j
    BY <1>1, EmittedSet DEF Emitted
  <1> HIDE DEF k, range
  <1>3. f \in Bijection(1 .. k, range)
    BY <1>2 DEF Bijection, Injection, Surjection, IsInjective
  <1>4. Cardinality(range) = k
    BY <1>2, <1>3, FS_CountingElements DEF ExistsBijection
  <1>5. QED
    BY <1>1, <1>2, <1>4, FS_Subset DEF k, range

\* The loop emits every step exactly when the dependencies have no cycle.
LEMMA TopologyIsComplete ==
    ASSUME NEW plan, Closed(plan)
    PROVE  ~Cyclic(plan) <=> NoCycle(plan)
  <1> DEFINE e == Topology(plan)
  <1>1. Emitted(plan, e, Size(plan)) /\ Size(plan) \in Nat
    BY TopologyEmits, SizeFacts DEF Closed
  <1>2. Cyclic(plan) <=> Len(e) # Size(plan)
    BY DEF Cyclic, Size
  <1> HIDE DEF e
  <1>3. /\ Len(e) \in Nat /\ ToSet(e) = {e[i] : i \in 1 .. Len(e)} /\ ToSet(e) \subseteq DOMAIN plan
        /\ (Len(e) = Size(plan) <=> ToSet(e) = DOMAIN plan)
    BY <1>1, EmittedSet, EmittedCount
  <1>4. ASSUME ToSet(e) = DOMAIN plan PROVE NoCycle(plan)
    <2> SUFFICES ASSUME NEW S, S \subseteq DOMAIN plan, S # {}
                 PROVE  \E s \in S : plan[s] \cap S = {}
      BY DEF NoCycle
    <2> DEFINE Places == {i \in 1 .. Len(e) : e[i] \in S}
    <2>1. Places \subseteq Nat /\ Places # {}
      BY <1>3, <1>4
    <2>2. PICK i \in Places : \A j \in Places : i <= j
      BY <2>1, SmallestNat
    <2>3. i \in 1 .. Len(e) /\ e[i] \in S
      BY <2>2
    <2>4. ASSUME NEW d \in plan[e[i]], d \in S PROVE FALSE
      <3>1. PICK j \in 1 .. i - 1 : e[j] = d
        BY <1>1, <2>3 DEF Emitted
      <3>2. j \in Places /\ ~(i <= j)
        BY <1>3, <2>3, <2>4, <3>1
      <3>3. QED
        BY <2>2, <3>2
    <2>5. QED
      BY <2>3, <2>4
  <1>5. ASSUME NoCycle(plan) PROVE ToSet(e) = DOMAIN plan
    <2> DEFINE S == DOMAIN plan \ ToSet(e)
    <2>1. SUFFICES ASSUME S # {} PROVE FALSE
      BY <1>3
    <2>2. PICK s \in S : plan[s] \cap S = {}
      BY <1>5, <2>1 DEF NoCycle
    <2>3. plan[s] \subseteq ToSet(e)
      BY <2>2 DEF Closed
    <2>4. s \in Ready(plan, ToSet(e))
      BY <2>2, <2>3 DEF Ready
    <2>5. Len(e) = Size(plan)
      BY <1>1, <2>4 DEF Emitted
    <2>6. QED
      BY <1>3, <2>1, <2>5
  <1>6. QED
    BY <1>2, <1>3, <1>4, <1>5

\* What TopologyDecidesCycles says of the order.
LEMMA TopologyIsOrder ==
    ASSUME NEW plan, Closed(plan)
    PROVE  LET order == Topology(plan)
               place(s) == CHOOSE i \in DOMAIN order : order[i] = s
           IN  /\ IsInjective(order)
               /\ \A i \in DOMAIN order : \A d \in plan[order[i]] : place(d) < i
  <1> DEFINE order == Topology(plan)
             place(s) == CHOOSE i \in DOMAIN order : order[i] = s
  <1>1. /\ \A i, j \in 1 .. Len(order) : order[i] = order[j] => i = j
        /\ \A i \in 1 .. Len(order) : \A d \in plan[order[i]] : \E j \in 1 .. i - 1 : order[j] = d
        /\ DOMAIN order = 1 .. Len(order) /\ Len(order) \in Nat
    BY TopologyEmits, SizeFacts, EmittedSet DEF Closed, Emitted
  <1> HIDE DEF order
  <1>2. IsInjective(order)
    BY <1>1 DEF IsInjective
  <1>3. ASSUME NEW i \in DOMAIN order, NEW d \in plan[order[i]] PROVE place(d) < i
    <2>1. PICK j \in 1 .. i - 1 : order[j] = d
      BY <1>1
    <2>2. j \in 1 .. Len(order) /\ j < i
      BY <1>1, <2>1
    <2>3. place(d) \in DOMAIN order /\ order[place(d)] = d
      BY <1>1, <2>1, <2>2
    <2>4. place(d) = j
      BY <1>1, <2>1, <2>2, <2>3
    <2>5. QED
      BY <2>2, <2>4
  <1>4. QED
    BY <1>2, <1>3 DEF order

-----------------------------------------------------------------------------
(* Downstream.                                                             *)

\* The steps that a round of Downstream enters from r.
Entered(plan, stop, r) == {s \in DOMAIN plan \ stop : plan[s] \cap r # {}}

\* The body of `reach` in Downstream, up to n.
Reaches(plan, S, stop, n, f) ==
    f = [k \in 0 .. n |->
            IF k = 0 THEN S \ stop ELSE f[k - 1] \cup Entered(plan, stop, f[k - 1])]

LEMMA ReachExists ==
    ASSUME NEW plan, NEW S, NEW stop, NEW n \in Nat
    PROVE  \E f : Reaches(plan, S, stop, n, f)
  <1> DEFINE Bad == {m \in Nat : ~ \E f : Reaches(plan, S, stop, m, f)}
  <1> SUFFICES ASSUME Bad # {} PROVE FALSE
    OBVIOUS
  <1>1. PICK m \in Bad : \A k \in Bad : m <= k
    BY SmallestNat
  <1>2. CASE m = 0
    <2> DEFINE z == [k \in 0 .. 0 |-> S \ stop]
    <2>1. Reaches(plan, S, stop, 0, z)
      BY DEF Reaches
    <2>2. QED
      BY <1>1, <1>2, <2>1
  <1>3. CASE m # 0
    <2>1. m - 1 \in Nat /\ m \in Nat /\ m - 1 \notin Bad
      BY <1>1, <1>3
    <2>2. PICK f : Reaches(plan, S, stop, m - 1, f)
      BY <2>1
    <2> DEFINE g == [k \in 0 .. m |->
                        IF k = m THEN f[m - 1] \cup Entered(plan, stop, f[m - 1]) ELSE f[k]]
    <2>3. \A k \in 0 .. m - 1 :
             f[k] = IF k = 0 THEN S \ stop ELSE f[k - 1] \cup Entered(plan, stop, f[k - 1])
      BY <2>2 DEF Reaches
    <2>4. \A k \in 0 .. m : k # m => k \in 0 .. m - 1 /\ g[k] = f[k]
      BY <2>1
    <2>5. g[m] = f[m - 1] \cup Entered(plan, stop, f[m - 1])
      BY <2>1
    <2>6. \A k \in 0 .. m : k # 0 => k - 1 \in 0 .. m - 1 /\ k - 1 \in 0 .. m /\ g[k - 1] = f[k - 1]
      BY <2>1
    <2>7. ASSUME NEW k \in 0 .. m
          PROVE  g[k] = IF k = 0 THEN S \ stop
                        ELSE g[k - 1] \cup Entered(plan, stop, g[k - 1])
      <3>1. CASE k = 0
        BY <1>3, <2>1, <2>3, <2>4, <3>1
      <3>2. CASE k # 0
        BY <1>3, <2>1, <2>3, <2>4, <2>5, <2>6, <3>2
      <3>3. QED
        BY <3>1, <3>2
    <2>8. g = [k \in 0 .. m |-> g[k]]
      OBVIOUS
    <2> HIDE DEF g
    <2>9. Reaches(plan, S, stop, m, g)
      BY <2>7, <2>8 DEF Reaches
    <2>10. QED
      BY <1>1, <2>9
  <1>4. QED
    BY <1>2, <1>3

\* Downstream is within every set that contains where it starts and is closed
\* under dependents.
LEMMA DownstreamWithin ==
    ASSUME NEW plan, DOMAIN plan \subseteq Ids, NEW S, NEW stop, NEW within,
           S \ stop \subseteq within,
           \A s \in DOMAIN plan \ stop : plan[s] \cap within # {} => s \in within
    PROVE  Downstream(plan, S, stop) \subseteq within
  <1> DEFINE n == Cardinality(DOMAIN plan)
             f == CHOOSE f : Reaches(plan, S, stop, n, f)
  <1>1. n \in Nat
    <2>1. 1 - N \in Int /\ N \in Int
      BY PlanAssumption
    <2>2. IsFiniteSet(Ids)
      BY <2>1, FS_Interval DEF Ids
    <2>3. IsFiniteSet(DOMAIN plan)
      BY <2>2, FS_Subset
    <2>4. QED
      BY <2>3, FS_CardinalityType
  <1>2. Downstream(plan, S, stop) = f[n]
    BY DEF Downstream, Reaches, Entered
  <1> HIDE DEF n
  <1>3. Reaches(plan, S, stop, n, f)
    BY <1>1, ReachExists
  <1> HIDE DEF f
  <1> DEFINE Bad == {k \in 0 .. n : ~(f[k] \subseteq within)}
  <1>4. SUFFICES ASSUME Bad # {} PROVE FALSE
    BY <1>1, <1>2
  <1>5. PICK k \in Bad : \A m \in Bad : k <= m
    <2>1. Bad \subseteq Nat
      BY <1>1
    <2>2. QED
      BY <1>4, <2>1, SmallestNat
  <1>6. f[k] = IF k = 0 THEN S \ stop ELSE f[k - 1] \cup Entered(plan, stop, f[k - 1])
    BY <1>3, <1>5 DEF Reaches
  <1>7. k # 0
    BY <1>5, <1>6
  <1>8. k - 1 \in 0 .. n /\ ~(k <= k - 1)
    BY <1>1, <1>5, <1>7
  <1>9. f[k - 1] \subseteq within
    BY <1>5, <1>8
  <1>10. Entered(plan, stop, f[k - 1]) \subseteq within
    BY <1>9 DEF Entered
  <1>11. QED
    BY <1>5, <1>6, <1>7, <1>9, <1>10

LEMMA DownstreamAvoids ==
    ASSUME NEW plan, DOMAIN plan \subseteq Ids, NEW S, NEW stop
    PROVE  Downstream(plan, S, stop) \cap stop = {}
  <1> DEFINE within == (S \cup DOMAIN plan) \ stop
  <1>1. /\ S \ stop \subseteq within
        /\ \A s \in DOMAIN plan \ stop : plan[s] \cap within # {} => s \in within
    OBVIOUS
  <1> HIDE DEF within
  <1>2. Downstream(plan, S, stop) \subseteq within
    BY <1>1, DownstreamWithin
  <1>3. QED
    BY <1>2 DEF within

\* The rounds of Downstream: f[k] after k of them.
Rounds(plan, S, stop, f) ==
    /\ f[0] = S \ stop
    /\ \A k \in 1 .. Size(plan) : f[k] = f[k - 1] \cup Entered(plan, stop, f[k - 1])

LEMMA DownstreamRounds ==
    ASSUME NEW plan, DOMAIN plan \subseteq Ids, NEW S, NEW stop
    PROVE  \E f : Rounds(plan, S, stop, f) /\ Downstream(plan, S, stop) = f[Size(plan)]
  <1> DEFINE n == Size(plan)
             f == CHOOSE f : Reaches(plan, S, stop, n, f)
  <1>1. n \in Nat /\ n = Size(plan)
    BY SizeFacts
  <1>2. Downstream(plan, S, stop) = f[n]
    BY DEF Downstream, Reaches, Entered, Size
  <1> HIDE DEF n
  <1>3. Reaches(plan, S, stop, n, f)
    BY <1>1, ReachExists
  <1> HIDE DEF f
  <1>4. 0 \in 0 .. n /\ \A k \in 1 .. n : k \in 0 .. n /\ k # 0
    BY <1>1
  <1>5. f[0] = S \ stop /\ \A k \in 1 .. n : f[k] = f[k - 1] \cup Entered(plan, stop, f[k - 1])
    BY <1>3, <1>4 DEF Reaches
  <1>6. QED
    BY <1>1, <1>2, <1>5 DEF Rounds

LEMMA RoundsWithin ==
    ASSUME NEW plan, DOMAIN plan \subseteq Ids, NEW S \in SUBSET DOMAIN plan, NEW stop, NEW f,
           Rounds(plan, S, stop, f)
    PROVE  \A k \in 0 .. Size(plan) : f[k] \subseteq DOMAIN plan
  <1> DEFINE Bad == {j \in 0 .. Size(plan) : ~(f[j] \subseteq DOMAIN plan)}
  <1>1. SUFFICES ASSUME Bad # {} PROVE FALSE
    OBVIOUS
  <1>2. Size(plan) \in Nat /\ Bad \subseteq Nat
    BY SizeFacts
  <1>3. PICK j \in Bad : \A i \in Bad : j <= i
    BY <1>1, <1>2, SmallestNat
  <1>4. j # 0 /\ j \in 0 .. Size(plan)
    BY <1>3 DEF Rounds
  <1>5. j \in 1 .. Size(plan) /\ j - 1 \in 0 .. Size(plan) /\ ~(j <= j - 1)
    BY <1>2, <1>4
  <1>6. f[j - 1] \subseteq DOMAIN plan
    BY <1>3, <1>5
  <1>7. f[j] \subseteq DOMAIN plan
    BY <1>5, <1>6 DEF Entered, Rounds
  <1>8. QED
    BY <1>3, <1>7

\* Downstream is closed: a round that enters no step is the last that matters, and
\* each round before it has entered one.
LEMMA DownstreamCloses ==
    ASSUME NEW plan, DOMAIN plan \subseteq Ids, NEW S \in SUBSET DOMAIN plan, NEW stop,
           NEW s \in DOMAIN plan \ stop, plan[s] \cap Downstream(plan, S, stop) # {}
    PROVE  s \in Downstream(plan, S, stop)
  <1> DEFINE n == Size(plan)
  <1>1. /\ n \in Nat /\ n = Cardinality(DOMAIN plan) /\ IsFiniteSet(DOMAIN plan)
    BY SizeFacts DEF Size
  <1>2. PICK f : Rounds(plan, S, stop, f) /\ Downstream(plan, S, stop) = f[Size(plan)]
    BY DownstreamRounds
  <1>3. /\ f[0] = S \ stop /\ Downstream(plan, S, stop) = f[n]
        /\ \A k \in 1 .. n : f[k] = f[k - 1] \cup Entered(plan, stop, f[k - 1])
    BY <1>2 DEF Rounds
  <1>4. \A k \in 0 .. n : f[k] \subseteq DOMAIN plan
    BY <1>2, RoundsWithin
  <1> HIDE DEF n
  <1> DEFINE Still == {k \in 0 .. n : Entered(plan, stop, f[k]) \subseteq f[k]}
  <1>5. n \in Still
    <2>1. Still # {}
      <3> SUFFICES ASSUME Still = {} PROVE FALSE
        OBVIOUS
      <3> DEFINE Small == {k \in 0 .. n : ~(Cardinality(f[k]) >= k)}
      <3>1. \A k \in 0 .. n : IsFiniteSet(f[k]) /\ Cardinality(f[k]) \in Nat /\ Cardinality(f[k]) <= n
        BY <1>1, <1>4, FS_Subset, FS_CardinalityType
      <3>2. Small = {}
        <4>1. SUFFICES ASSUME Small # {} PROVE FALSE
          OBVIOUS
        <4>2. Small \subseteq Nat
          BY <1>1
        <4>3. PICK k \in Small : \A i \in Small : k <= i
          BY <4>1, <4>2, SmallestNat
        <4>4. k \in 0 .. n /\ k # 0
          BY <3>1, <4>3
        <4>5. k \in 1 .. n /\ k - 1 \in 0 .. n /\ ~(k <= k - 1)
          BY <1>1, <4>4
        <4>6. Cardinality(f[k - 1]) >= k - 1
          BY <4>3, <4>5
        <4>7. k - 1 \notin Still
          OBVIOUS
        <4>8. PICK x \in Entered(plan, stop, f[k - 1]) : x \notin f[k - 1]
          BY <4>5, <4>7
        <4>9. f[k - 1] \subseteq f[k] /\ x \in f[k]
          BY <1>3, <4>5, <4>8
        <4>10. Cardinality(f[k - 1]) <= Cardinality(f[k]) /\ Cardinality(f[k - 1]) # Cardinality(f[k])
          BY <3>1, <4>4, <4>8, <4>9, FS_Subset
        <4>11. Cardinality(f[k]) >= k
          BY <3>1, <4>4, <4>5, <4>6, <4>10
        <4>12. QED
          BY <4>3, <4>11
      <3>3. n \in 0 .. n
        BY <1>1
      <3>4. Cardinality(f[n]) = n
        BY <1>1, <3>1, <3>2, <3>3
      <3>5. f[n] = DOMAIN plan
        BY <1>1, <1>4, <3>3, <3>4, FS_Subset
      <3>6. n \in Still
        BY <3>3, <3>5 DEF Entered
      <3>7. QED
        BY <3>6
    <2>2. ASSUME NEW k \in 1 .. n, k - 1 \in Still PROVE k \in Still
      <3>1. f[k] = f[k - 1]
        BY <1>3, <2>2
      <3>2. k \in 0 .. n
        BY <1>1
      <3>3. QED
        BY <2>2, <3>1, <3>2
    <2> DEFINE After == {j \in 0 .. n : n - j \in Still}
    <2>3. PICK j \in After : \A i \in After : j <= i
      <3>1. PICK k : k \in Still
        BY <2>1
      <3>2. k \in 0 .. n
        BY <3>1
      <3>3. n - k \in 0 .. n /\ n - (n - k) = k
        BY <1>1, <3>2
      <3>4. n - k \in After
        BY <3>1, <3>3
      <3>5. After \subseteq Nat
        BY <1>1
      <3> HIDE DEF After
      <3>6. QED
        BY <3>4, <3>5, SmallestNat
    <2>4. j \in 0 .. n /\ n - j \in Still
      BY <2>3
    <2>5. j = 0
      <3> SUFFICES ASSUME j # 0 PROVE FALSE
        OBVIOUS
      <3>1. (n - j) + 1 \in 1 .. n /\ ((n - j) + 1) - 1 = n - j
            /\ n - (j - 1) = (n - j) + 1 /\ j - 1 \in 0 .. n /\ ~(j <= j - 1)
        BY <1>1, <2>4
      <3>2. (n - j) + 1 \in Still
        BY <2>2, <2>4, <3>1
      <3>3. j - 1 \in After
        BY <3>1, <3>2
      <3>4. QED
        BY <2>3, <3>1, <3>3
    <2>6. n - 0 = n
      BY <1>1
    <2>7. QED
      BY <2>4, <2>5, <2>6
  <1>6. s \in Entered(plan, stop, f[n])
    BY <1>3 DEF Entered
  <1>7. QED
    BY <1>3, <1>5, <1>6

\* It starts where it is told to.
LEMMA DownstreamStarts ==
    ASSUME NEW plan, DOMAIN plan \subseteq Ids, NEW S, NEW stop
    PROVE  S \ stop \subseteq Downstream(plan, S, stop)
  <1> DEFINE n == Size(plan)
  <1>1. n \in Nat
    BY SizeFacts
  <1>2. PICK f : Rounds(plan, S, stop, f) /\ Downstream(plan, S, stop) = f[Size(plan)]
    BY DownstreamRounds
  <1>3. /\ f[0] = S \ stop /\ Downstream(plan, S, stop) = f[n]
        /\ \A k \in 1 .. n : f[k] = f[k - 1] \cup Entered(plan, stop, f[k - 1])
    BY <1>2 DEF Rounds
  <1> HIDE DEF n
  <1> DEFINE Bad == {k \in 0 .. n : ~(S \ stop \subseteq f[k])}
  <1>4. SUFFICES ASSUME Bad # {} PROVE FALSE
    <2>1. n \in 0 .. n
      BY <1>1
    <2>2. QED
      BY <1>3, <1>4, <2>1
  <1>5. Bad \subseteq Nat
    BY <1>1
  <1>6. PICK k \in Bad : \A i \in Bad : k <= i
    BY <1>4, <1>5, SmallestNat
  <1>7. k # 0 /\ k \in 0 .. n
    BY <1>3, <1>6
  <1>8. k \in 1 .. n /\ k - 1 \in 0 .. n /\ ~(k <= k - 1)
    BY <1>1, <1>7
  <1>9. S \ stop \subseteq f[k - 1]
    BY <1>6, <1>8
  <1>10. f[k - 1] \subseteq f[k]
    BY <1>3, <1>8
  <1>11. QED
    BY <1>6, <1>9, <1>10

-----------------------------------------------------------------------------
(* A copy of a plan under other ids.                                       *)

\* copy is plan with every id s written as h[s], and h keeps ids apart.
Image(h, S) == {h[s] : s \in S}

Copy(plan, copy, h) ==
    /\ h \in [DOMAIN plan -> Ids]
    /\ \A s, t \in DOMAIN plan : h[s] = h[t] => s = t
    /\ copy = [t \in Image(h, DOMAIN plan) |-> copy[t]]
    /\ \A s \in DOMAIN plan : copy[h[s]] = Image(h, plan[s])

LEMMA ImageFacts ==
    ASSUME NEW plan, NEW copy, NEW h, Closed(plan), Copy(plan, copy, h)
    PROVE  /\ DOMAIN copy = Image(h, DOMAIN plan)
           /\ \A t \in DOMAIN copy : \E s \in DOMAIN plan : t = h[s]
           /\ \A s \in DOMAIN plan : h[s] \in DOMAIN copy /\ h[s] \in Ids
           /\ \A S \in SUBSET DOMAIN plan, s \in DOMAIN plan : h[s] \in Image(h, S) <=> s \in S
           /\ \A s \in DOMAIN plan : copy[h[s]] = Image(h, plan[s]) /\ plan[s] \in SUBSET DOMAIN plan
  BY DEF Closed, Copy, Image

LEMMA ImageSize ==
    ASSUME NEW plan, NEW copy, NEW h, Closed(plan), Copy(plan, copy, h),
           NEW S \in SUBSET DOMAIN plan
    PROVE  IsFiniteSet(Image(h, S)) /\ Cardinality(Image(h, S)) = Cardinality(S)
  <1>1. IsFiniteSet(S)
    BY SizeFacts, FS_Subset DEF Closed
  <1> DEFINE f == [s \in S |-> h[s]]
  <1>2. f \in Bijection(S, Image(h, S))
    BY DEF Copy, Image, Bijection, Injection, Surjection, IsInjective
  <1>3. QED
    BY <1>1, <1>2, FS_Bijection DEF ExistsBijection

LEMMA CopyClosed ==
    ASSUME NEW plan, NEW copy, NEW h, Closed(plan), Copy(plan, copy, h)
    PROVE  Closed(copy) /\ Size(copy) = Size(plan)
  <1>1. /\ copy = [t \in DOMAIN copy |-> copy[t]] /\ DOMAIN copy = Image(h, DOMAIN plan)
    BY DEF Copy
  <1>2. /\ \A t \in DOMAIN copy : \E s \in DOMAIN plan : t = h[s]
        /\ \A s \in DOMAIN plan : h[s] \in DOMAIN copy /\ h[s] \in Ids
        /\ \A s \in DOMAIN plan : copy[h[s]] = Image(h, plan[s]) /\ plan[s] \in SUBSET DOMAIN plan
    BY ImageFacts
  <1>3. DOMAIN copy \subseteq Ids /\ \A t \in DOMAIN copy : copy[t] \subseteq DOMAIN copy
    BY <1>2 DEF Image
  <1>4. Size(copy) = Size(plan)
    BY <1>1, ImageSize DEF Size
  <1>5. QED
    BY <1>1, <1>3, <1>4 DEF Closed

LEMMA CopyHasNoCycle ==
    ASSUME NEW plan, NEW copy, NEW h, Closed(plan), Copy(plan, copy, h), NoCycle(plan)
    PROVE  NoCycle(copy)
  <1> SUFFICES ASSUME NEW T, T \subseteq DOMAIN copy, T # {}
               PROVE  \E t \in T : copy[t] \cap T = {}
    BY DEF NoCycle
  <1> DEFINE S == {s \in DOMAIN plan : h[s] \in T}
  <1>1. S \subseteq DOMAIN plan /\ S # {}
    BY ImageFacts
  <1>2. PICK s \in S : plan[s] \cap S = {}
    BY <1>1 DEF NoCycle
  <1>3. copy[h[s]] = Image(h, plan[s]) /\ plan[s] \in SUBSET DOMAIN plan
    BY <1>2, ImageFacts
  <1>4. copy[h[s]] \cap T = {}
    BY <1>2, <1>3 DEF Image
  <1>5. QED
    BY <1>2, <1>4

LEMMA CopyEdges ==
    ASSUME NEW plan, NEW copy, NEW h, Closed(plan), Copy(plan, copy, h)
    PROVE  /\ Cardinality(Edges(copy)) <= Cardinality(Edges(plan))
           /\ Cardinality(Edges(plan)) \in Nat /\ Cardinality(Edges(copy)) \in Nat
  <1> DEFINE f == [e \in Edges(plan) |-> <<h[e[1]], h[e[2]]>>]
  <1>1. IsFiniteSet(Edges(plan))
    <2>1. IsFiniteSet((DOMAIN plan) \X Ids)
      BY SizeFacts, IdFacts, FS_Product DEF Closed
    <2>2. Edges(plan) \in SUBSET ((DOMAIN plan) \X Ids)
      BY DEF Edges
    <2>3. QED
      BY <2>1, <2>2, FS_Subset
  <1>2. /\ \A t \in DOMAIN copy : \E s \in DOMAIN plan : t = h[s]
        /\ \A s \in DOMAIN plan : h[s] \in DOMAIN copy /\ h[s] \in Ids
        /\ \A s \in DOMAIN plan : copy[h[s]] = Image(h, plan[s])
    BY ImageFacts
  <1>3. ASSUME NEW e \in Edges(plan) PROVE <<h[e[1]], h[e[2]]>> \in Edges(copy)
    <2>1. e[1] \in DOMAIN plan /\ e[2] \in plan[e[1]] /\ e[2] \in DOMAIN plan
      BY DEF Edges, Closed
    <2>2. h[e[1]] \in DOMAIN copy /\ h[e[2]] \in copy[h[e[1]]] /\ h[e[2]] \in Ids
      BY <1>2, <2>1 DEF Image
    <2>3. QED
      BY <2>2 DEF Edges
  <1>4. ASSUME NEW x \in Edges(copy) PROVE \E e \in Edges(plan) : <<h[e[1]], h[e[2]]>> = x
    <2>1. x = <<x[1], x[2]>> /\ x[1] \in DOMAIN copy /\ x[2] \in copy[x[1]]
      BY DEF Edges
    <2>2. PICK s \in DOMAIN plan : x[1] = h[s]
      BY <1>2, <2>1
    <2>3. PICK d \in plan[s] : x[2] = h[d]
      BY <1>2, <2>1, <2>2 DEF Image
    <2>4. d \in Ids
      BY <2>3 DEF Closed
    <2>5. <<s, d>> \in Edges(plan)
      BY <2>3, <2>4 DEF Edges
    <2>6. QED
      BY <2>1, <2>2, <2>3, <2>5
  <1>5. f \in Surjection(Edges(plan), Edges(copy))
    BY <1>3, <1>4 DEF Surjection
  <1>6. QED
    BY <1>1, <1>5, FS_Surjection, FS_CardinalityType

LEMMA CopyRoots ==
    ASSUME NEW plan, NEW copy, NEW h, Closed(plan), Copy(plan, copy, h)
    PROVE  Roots(copy) = Image(h, Roots(plan)) /\ Roots(plan) \in SUBSET DOMAIN plan
  <1>1. /\ \A t \in DOMAIN copy : \E s \in DOMAIN plan : t = h[s]
        /\ \A s \in DOMAIN plan : h[s] \in DOMAIN copy /\ copy[h[s]] = Image(h, plan[s])
    BY ImageFacts
  <1>2. \A s \in DOMAIN plan : copy[h[s]] = {} <=> plan[s] = {}
    BY <1>1 DEF Image
  <1>3. QED
    BY <1>1, <1>2 DEF Roots, Image

LEMMA CopyDownstream ==
    ASSUME NEW plan, NEW copy, NEW h, Closed(plan), Copy(plan, copy, h),
           NEW S \in SUBSET DOMAIN plan
    PROVE  Downstream(copy, Image(h, S), {}) = Image(h, Downstream(plan, S, {}))
  <1> DEFINE n == Size(plan)
  <1>1. /\ Closed(copy) /\ DOMAIN plan \subseteq Ids /\ DOMAIN copy \subseteq Ids
        /\ n \in Nat /\ Size(copy) = n
    BY CopyClosed, SizeFacts DEF Closed
  <1>2. PICK f : Rounds(plan, S, {}, f) /\ Downstream(plan, S, {}) = f[Size(plan)]
    BY <1>1, DownstreamRounds
  <1>3. /\ f[0] = S \ {} /\ Downstream(plan, S, {}) = f[n]
        /\ \A k \in 1 .. n : f[k] = f[k - 1] \cup Entered(plan, {}, f[k - 1])
    BY <1>2 DEF Rounds
  <1>4. PICK g : /\ Rounds(copy, Image(h, S), {}, g)
                 /\ Downstream(copy, Image(h, S), {}) = g[Size(copy)]
    BY <1>1, DownstreamRounds
  <1>5. /\ g[0] = Image(h, S) \ {} /\ Downstream(copy, Image(h, S), {}) = g[n]
        /\ \A k \in 1 .. n : g[k] = g[k - 1] \cup Entered(copy, {}, g[k - 1])
    BY <1>1, <1>4 DEF Rounds
  <1>6. \A k \in 0 .. n : f[k] \subseteq DOMAIN plan
    BY <1>1, <1>2, RoundsWithin
  <1> HIDE DEF n
  <1>7. ASSUME NEW r \in SUBSET DOMAIN plan
        PROVE  Entered(copy, {}, Image(h, r)) = Image(h, Entered(plan, {}, r))
    <2>1. \A s \in DOMAIN plan : copy[h[s]] \cap Image(h, r) # {} <=> plan[s] \cap r # {}
      <3> TAKE s \in DOMAIN plan
      <3>1. copy[h[s]] = Image(h, plan[s]) /\ plan[s] \in SUBSET DOMAIN plan
        BY ImageFacts
      <3>2. \A d \in plan[s] : h[d] \in Image(h, r) <=> d \in r
        BY <3>1, ImageFacts
      <3>3. QED
        BY <3>1, <3>2 DEF Image
    <2>2. \A t \in DOMAIN copy : \E s \in DOMAIN plan : t = h[s]
      BY ImageFacts
    <2>3. \A s \in DOMAIN plan : h[s] \in DOMAIN copy
      BY ImageFacts
    <2>4. QED
      BY <2>1, <2>2, <2>3 DEF Entered, Image
  <1> DEFINE Bad == {k \in 0 .. n : g[k] # Image(h, f[k])}
  <1>8. SUFFICES ASSUME Bad # {} PROVE FALSE
    <2>1. n \in 0 .. n
      BY <1>1
    <2>2. QED
      BY <1>1, <1>3, <1>5, <1>8, <2>1
  <1>9. Bad \subseteq Nat
    BY <1>1
  <1>10. PICK k \in Bad : \A i \in Bad : k <= i
    BY <1>8, <1>9, SmallestNat
  <1>11. k # 0 /\ k \in 0 .. n
    BY <1>3, <1>5, <1>10
  <1>12. k \in 1 .. n /\ k - 1 \in 0 .. n /\ ~(k <= k - 1)
    BY <1>1, <1>11
  <1>13. g[k - 1] = Image(h, f[k - 1]) /\ f[k - 1] \in SUBSET DOMAIN plan
    BY <1>6, <1>10, <1>12
  <1>14. Entered(copy, {}, g[k - 1]) = Image(h, Entered(plan, {}, f[k - 1]))
    BY <1>7, <1>13
  <1>15. /\ g[k] = g[k - 1] \cup Entered(copy, {}, g[k - 1])
         /\ f[k] = f[k - 1] \cup Entered(plan, {}, f[k - 1])
    BY <1>1, <1>3, <1>5, <1>12
  <1>16. g[k] = Image(h, f[k])
    BY <1>13, <1>14, <1>15 DEF Image
  <1>17. QED
    BY <1>10, <1>16

-----------------------------------------------------------------------------
(* Depths.  Without cycles there is one function that they describe.       *)

Deepest(plan, f, s) == IF plan[s] = {} THEN 1 ELSE 1 + Max({f[d] : d \in plan[s]})

IsDepth(plan, f) == f = [s \in DOMAIN plan |-> Deepest(plan, f, s)]

LEMMA SameDeepest ==
    ASSUME NEW plan, NEW f, NEW g, NEW s, \A d \in plan[s] : f[d] = g[d]
    PROVE  Deepest(plan, f, s) = Deepest(plan, g, s)
  <1>1. {f[d] : d \in plan[s]} = {g[d] : d \in plan[s]}
    OBVIOUS
  <1>2. QED
    BY <1>1 DEF Deepest

\* Along the order each step's depth is fixed after those it depends on.
LEMMA DepthsExist ==
    ASSUME NEW plan, Closed(plan), NoCycle(plan)
    PROVE  IsDepth(plan, Depths(plan))
  <1> DEFINE e == Topology(plan)
             n == Len(e)
             Fixed(f, k) == /\ f = [s \in DOMAIN plan |-> f[s]]
                            /\ \A i \in 1 .. k : f[e[i]] = Deepest(plan, f, e[i])
  <1>1. Emitted(plan, e, Size(plan)) /\ Size(plan) \in Nat
    BY TopologyEmits, SizeFacts DEF Closed
  <1>2. n = Size(plan)
    BY TopologyIsComplete DEF Cyclic, Size
  <1> HIDE DEF e
  <1>3. /\ n \in Nat /\ DOMAIN plan = {e[i] : i \in 1 .. n}
        /\ \A i, j \in 1 .. n : e[i] = e[j] => i = j
        /\ \A i \in 1 .. n : \A d \in plan[e[i]] : \E j \in 1 .. i - 1 : e[j] = d
    <2>1. /\ Len(e) \in Nat /\ ToSet(e) = {e[i] : i \in 1 .. Len(e)}
          /\ (Len(e) = Size(plan) <=> ToSet(e) = DOMAIN plan)
      BY <1>1, EmittedSet, EmittedCount
    <2>2. /\ \A i, j \in 1 .. Len(e) : e[i] = e[j] => i = j
          /\ \A i \in 1 .. Len(e) : \A d \in plan[e[i]] : \E j \in 1 .. i - 1 : e[j] = d
      BY <1>1 DEF Emitted
    <2>3. QED
      BY <1>2, <2>1, <2>2
  <1> HIDE DEF n
  <1>4. \E f : Fixed(f, n)
    <2> DEFINE Bad == {k \in 0 .. n : ~\E f : Fixed(f, k)}
    <2> HIDE DEF Fixed
    <2>1. SUFFICES ASSUME Bad # {} PROVE FALSE
      <3>1. n \in 0 .. n
        BY <1>3
      <3>2. QED
        BY <2>1, <3>1
    <2>2. Bad \subseteq Nat
      BY <1>3
    <2>3. PICK k \in Bad : \A i \in Bad : k <= i
      BY <2>1, <2>2, SmallestNat
    <2>4. k \in 0 .. n /\ ~\E f : Fixed(f, k)
      BY <2>3
    <2> USE DEF Fixed
    <2>5. k # 0
      <3> DEFINE z == [s \in DOMAIN plan |-> 0]
      <3>1. Fixed(z, 0)
        OBVIOUS
      <3> HIDE DEF Fixed
      <3>2. QED
        BY <2>4, <3>1
    <2>6. k \in 1 .. n /\ k - 1 \in 0 .. n /\ ~(k <= k - 1)
      BY <1>3, <2>4, <2>5
    <2>7. PICK f : Fixed(f, k - 1)
      BY <2>3, <2>6
    <2> DEFINE g == [s \in DOMAIN plan |-> IF s = e[k] THEN Deepest(plan, f, s) ELSE f[s]]
    <2>8. ASSUME NEW i \in 1 .. k PROVE g[e[i]] = Deepest(plan, g, e[i])
      <3>1. i \in 1 .. n /\ e[i] \in DOMAIN plan /\ plan[e[i]] \subseteq DOMAIN plan
        BY <1>3, <2>6 DEF Closed
      <3>2. \A d \in plan[e[i]] : f[d] = g[d]
        <4> TAKE d \in plan[e[i]]
        <4>1. PICK j \in 1 .. i - 1 : e[j] = d
          BY <1>3, <3>1
        <4>2. j \in 1 .. n /\ j # k
          BY <1>3, <2>6, <4>1
        <4>3. d # e[k] /\ d \in DOMAIN plan
          BY <1>3, <2>6, <3>1, <4>1, <4>2
        <4>4. QED
          BY <4>3
      <3>3. g[e[i]] = Deepest(plan, f, e[i])
        <4>1. CASE i = k
          BY <3>1, <4>1
        <4>2. CASE i # k
          <5>1. i \in 1 .. k - 1 /\ e[i] # e[k]
            BY <1>3, <2>6, <3>1, <4>2
          <5>2. QED
            BY <2>7, <3>1, <5>1
        <4>3. QED
          BY <4>1, <4>2
      <3> HIDE DEF g
      <3>4. QED
        BY <3>2, <3>3, SameDeepest
    <2>9. g = [s \in DOMAIN plan |-> g[s]]
      OBVIOUS
    <2> HIDE DEF g
    <2>10. Fixed(g, k)
      BY <2>8, <2>9
    <2> HIDE DEF Fixed
    <2>11. QED
      BY <2>4, <2>10
  <1>5. PICK f : Fixed(f, n)
    BY <1>4
  <1>6. \A s \in DOMAIN plan : f[s] = Deepest(plan, f, s)
    BY <1>3, <1>5
  <1>7. IsDepth(plan, f)
    BY <1>5, <1>6 DEF IsDepth
  <1>8. Depths(plan) = CHOOSE x : IsDepth(plan, x)
    BY DEF Depths, IsDepth, Deepest
  <1>9. QED
    BY <1>7, <1>8

LEMMA DepthsUnique ==
    ASSUME NEW plan, Closed(plan), NoCycle(plan), NEW f, NEW g, IsDepth(plan, f), IsDepth(plan, g)
    PROVE  f = g
  <1>1. /\ f = [s \in DOMAIN plan |-> f[s]] /\ g = [s \in DOMAIN plan |-> g[s]]
        /\ \A s \in DOMAIN plan : f[s] = Deepest(plan, f, s) /\ g[s] = Deepest(plan, g, s)
    BY DEF IsDepth
  <1> DEFINE S == {s \in DOMAIN plan : f[s] # g[s]}
  <1>2. S = {}
    <2> SUFFICES ASSUME S # {} PROVE FALSE
      OBVIOUS
    <2>1. PICK s \in S : plan[s] \cap S = {}
      BY DEF NoCycle
    <2>2. \A d \in plan[s] : f[d] = g[d]
      BY <2>1 DEF Closed
    <2>3. Deepest(plan, f, s) = Deepest(plan, g, s)
      BY <2>2, SameDeepest
    <2>4. QED
      BY <1>1, <2>1, <2>3
  <1>3. QED
    BY <1>1, <1>2

LEMMA CopyDepths ==
    ASSUME NEW plan, NEW copy, NEW h, Closed(plan), NoCycle(plan), Copy(plan, copy, h)
    PROVE  \A s \in DOMAIN plan : Depths(copy)[h[s]] = Depths(plan)[s]
  <1> DEFINE f == Depths(plan)
             g == [t \in DOMAIN copy |-> f[CHOOSE s \in DOMAIN plan : h[s] = t]]
  <1>1. IsDepth(plan, f)
    BY DepthsExist
  <1> HIDE DEF f
  <1>2. /\ \A t \in DOMAIN copy : \E s \in DOMAIN plan : t = h[s]
        /\ \A s \in DOMAIN plan : h[s] \in DOMAIN copy /\ copy[h[s]] = Image(h, plan[s])
        /\ \A s \in DOMAIN plan : plan[s] \in SUBSET DOMAIN plan
        /\ \A s, t \in DOMAIN plan : h[s] = h[t] => s = t
    BY ImageFacts DEF Copy
  <1>3. ASSUME NEW s \in DOMAIN plan PROVE g[h[s]] = f[s]
    <2>1. (CHOOSE x \in DOMAIN plan : h[x] = h[s]) = s
      BY <1>2
    <2>2. QED
      BY <1>2, <2>1
  <1>4. g = [t \in DOMAIN copy |-> g[t]]
    OBVIOUS
  <1> HIDE DEF g
  <1>5. ASSUME NEW s \in DOMAIN plan PROVE g[h[s]] = Deepest(copy, g, h[s])
    <2>1. copy[h[s]] = {} <=> plan[s] = {}
      BY <1>2 DEF Image
    <2>2. {g[t] : t \in copy[h[s]]} = {f[d] : d \in plan[s]}
      BY <1>2, <1>3 DEF Image
    <2>3. Deepest(copy, g, h[s]) = Deepest(plan, f, s)
      BY <2>1, <2>2 DEF Deepest
    <2>4. f[s] = Deepest(plan, f, s)
      BY <1>1 DEF IsDepth
    <2>5. QED
      BY <1>3, <2>3, <2>4
  <1>6. \A t \in DOMAIN copy : g[t] = Deepest(copy, g, t)
    BY <1>2, <1>5
  <1>7. IsDepth(copy, g)
    BY <1>4, <1>6 DEF IsDepth
  <1>8. Closed(copy) /\ NoCycle(copy)
    BY CopyClosed, CopyHasNoCycle
  <1>9. IsDepth(copy, Depths(copy))
    BY <1>8, DepthsExist
  <1>10. Depths(copy) = g
    BY <1>7, <1>8, <1>9, DepthsUnique
  <1>11. QED
    BY <1>3, <1>10 DEF f

\* A copy of a valid plan is valid.
LEMMA CopyValid ==
    ASSUME NEW plan, NEW copy, NEW h, Closed(plan), Copy(plan, copy, h), ValidDag(plan)
    PROVE  ValidDag(copy)
  <1>1. Closed(copy) /\ Size(copy) = Size(plan)
    BY CopyClosed
  <1>2. NoCycle(plan) /\ NoCycle(copy)
    BY TopologyIsComplete, CopyHasNoCycle DEF ValidDag
  <1>3. ~Cyclic(copy)
    BY <1>1, <1>2, TopologyIsComplete
  <1>4. /\ DOMAIN copy = Image(h, DOMAIN plan)
        /\ \A t \in DOMAIN copy : \E s \in DOMAIN plan : t = h[s]
        /\ \A s \in DOMAIN plan : copy[h[s]] = Image(h, plan[s]) /\ plan[s] \in SUBSET DOMAIN plan
        /\ \A s \in DOMAIN plan : h[s] \in copy[h[s]] <=> s \in plan[s]
    BY ImageFacts
  <1>5. Cardinality(Edges(copy)) <= MaxEdges
    BY CopyEdges, PlanAssumption DEF ValidDag
  <1>6. Cardinality(Roots(copy)) = 1 /\ Roots(copy) = Image(h, Roots(plan)) /\ Roots(plan) \in SUBSET DOMAIN plan
    BY CopyRoots, ImageSize DEF ValidDag
  <1>7. Downstream(copy, Roots(copy), {}) = DOMAIN copy
    BY <1>4, <1>6, CopyDownstream DEF ValidDag
  <1>8. ASSUME NEW t \in DOMAIN copy
        PROVE  /\ Cardinality(copy[t]) <= MaxDeps
               /\ t \notin copy[t] /\ copy[t] \subseteq DOMAIN copy
               /\ Depths(copy)[t] <= MaxDepth
               /\ Cardinality(Layer(copy, Depths(copy)[t])) <= MaxWidth
    <2>1. PICK s \in DOMAIN plan : t = h[s]
      BY <1>4
    <2>2. /\ Cardinality(plan[s]) <= MaxDeps /\ s \notin plan[s] /\ Depths(plan)[s] <= MaxDepth
          /\ Cardinality(Layer(plan, Depths(plan)[s])) <= MaxWidth
      BY DEF ValidDag
    <2>3. Cardinality(copy[t]) = Cardinality(plan[s])
      BY <1>4, <2>1, ImageSize
    <2>4. t \notin copy[t] /\ copy[t] \subseteq DOMAIN copy
      BY <1>1, <1>4, <2>1, <2>2 DEF Closed
    <2>5. \A x \in DOMAIN plan : Depths(copy)[h[x]] = Depths(plan)[x]
      BY <1>2, CopyDepths
    <2> DEFINE depth == Depths(copy)[t]
    <2>6. depth = Depths(plan)[s]
      BY <2>1, <2>5
    <2> HIDE DEF depth
    <2>7. Layer(copy, depth) = Image(h, Layer(plan, depth)) /\ Layer(plan, depth) \in SUBSET DOMAIN plan
      BY <1>4, <2>5 DEF Layer, Image
    <2>8. Cardinality(Layer(copy, depth)) = Cardinality(Layer(plan, depth))
      BY <2>7, ImageSize
    <2>9. QED
      BY <2>2, <2>3, <2>4, <2>6, <2>8 DEF depth
  <1>9. QED
    BY <1>3, <1>5, <1>6, <1>7, <1>8 DEF ValidDag

-----------------------------------------------------------------------------
(* The step that is next, and the revision.                                *)

\* The next step is the first of the order that is not done.
LEMMA NextIsReady ==
    ASSUME NEW plan, Closed(plan), NEW done, Remaining(plan, done) # {}
    PROVE  LET next == NextStep(plan, done) IN
           next \in DOMAIN plan /\ next \notin done /\ plan[next] \subseteq done
  <1> DEFINE e == Topology(plan)
             places == {j \in DOMAIN e : e[j] \notin done}
             i == Min(places)
             first == [order \in Seq(Ids) |-> order[Min({j \in DOMAIN order : order[j] \notin done})]]
  <1>1. /\ Len(e) \in Nat /\ DOMAIN e = 1 .. Len(e) /\ Len(e) <= Size(plan)
        /\ \A j \in 1 .. Len(e) : e[j] \in DOMAIN plan
        /\ \A j \in 1 .. Len(e) : \A d \in plan[e[j]] : \E k \in 1 .. j - 1 : e[k] = d
        /\ e \in Seq(DOMAIN plan) /\ ToSet(e) = {e[j] : j \in 1 .. Len(e)}
        /\ DOMAIN plan \subseteq Ids
    BY TopologyEmits, SizeFacts, EmittedSet DEF Closed, Emitted
  <1>2. places = {j \in DOMAIN e : e[j] \notin done} /\ places # {} /\ NextStep(plan, done) = e[i]
    <2>1. NextStep(plan, done) = first[e]
      BY DEF NextStep
    <2>2. ToSet(e) \ done # {}
      BY DEF Remaining
    <2> HIDE DEF e
    <2>3. e \in Seq(Ids)
      BY <1>1
    <2>4. first[e] = e[i]
      BY <2>3
    <2>5. places # {}
      BY <1>1, <2>2
    <2>6. QED
      BY <2>1, <2>4, <2>5
  <1> HIDE DEF e, places
  <1>3. i \in places /\ \A j \in places : i <= j
    <2>1. places \subseteq Nat /\ places # {}
      BY <1>1, <1>2 DEF places
    <2>2. PICK n \in places : \A m \in places : n <= m
      BY <2>1, SmallestNat
    <2>3. QED
      BY <2>2 DEF Min
  <1> HIDE DEF i
  <1>4. i \in 1 .. Len(e) /\ e[i] \in DOMAIN plan /\ e[i] \notin done
    BY <1>1, <1>2, <1>3
  <1>5. ASSUME NEW d \in plan[e[i]] PROVE d \in done
    <2>1. PICK j \in 1 .. i - 1 : e[j] = d
      BY <1>1, <1>4
    <2>2. j \in 1 .. Len(e) /\ ~(i <= j)
      BY <1>1, <1>4, <2>1
    <2>3. QED
      BY <1>1, <1>2, <1>3, <2>1, <2>2
  <1>6. QED
    BY <1>2, <1>4, <1>5

\* The steps a revision renames: the failed one, and with each all that depend on it.
LEMMA ReplacedFacts ==
    ASSUME NEW plan \in [Steps -> SUBSET Steps], NEW done \in SUBSET Steps,
           \A s \in done : plan[s] \subseteq done, NEW failed \in Steps \ done
    PROVE  LET replaced == Replaced(plan, failed, done) IN
           /\ failed \in replaced /\ replaced \subseteq Steps \ done
           /\ \A s \in Steps : plan[s] \cap replaced # {} => s \in replaced
  <1> DEFINE replaced == Downstream(plan, {failed}, done)
  <1>1. DOMAIN plan = Steps /\ DOMAIN plan \subseteq Ids /\ {failed} \in SUBSET DOMAIN plan
    BY IdFacts
  <1>2. failed \in replaced
    BY <1>1, DownstreamStarts
  <1>3. replaced \cap done = {}
    BY <1>1, DownstreamAvoids
  <1>4. replaced \subseteq Steps
    <2>1. /\ {failed} \ done \subseteq Steps
          /\ \A s \in DOMAIN plan \ done : plan[s] \cap Steps # {} => s \in Steps
      BY <1>1
    <2>2. QED
      BY <1>1, <2>1, DownstreamWithin
  <1>5. ASSUME NEW s \in Steps, plan[s] \cap replaced # {} PROVE s \in replaced
    <2>1. s \notin done
      BY <1>3, <1>5
    <2>2. s \in DOMAIN plan \ done
      BY <1>1, <2>1
    <2>3. QED
      BY <1>1, <1>5, <2>2, DownstreamCloses
  <1>6. QED
    BY <1>2, <1>3, <1>4, <1>5 DEF Replaced

\* A revision is a copy of the plan, in which the replaced steps have new ids.
LEMMA RevisionCopies ==
    ASSUME NEW plan \in [Steps -> SUBSET Steps], NEW done \in SUBSET Steps,
           \A s \in done : plan[s] \subseteq done, NEW failed \in Steps \ done
    PROVE  LET replaced == Replaced(plan, failed, done)
               copy == PartialReplan(plan, failed, done)
               h == [s \in Steps |-> NewId(plan, failed, done, s)]
           IN  /\ Copy(plan, copy, h)
               /\ \A s \in Steps : Origin(h[s]) = s
               /\ DOMAIN copy \cap Steps = Steps \ replaced
               /\ \A s \in Steps \ replaced : s \in DOMAIN copy /\ copy[s] = plan[s]
  <1> DEFINE replaced == Replaced(plan, failed, done)
             copy == PartialReplan(plan, failed, done)
             h == [s \in Steps |-> NewId(plan, failed, done, s)]
  <1>1. /\ replaced \subseteq Steps /\ DOMAIN plan = Steps
        /\ \A s \in Steps : plan[s] \cap replaced # {} => s \in replaced
    BY ReplacedFacts
  <1>2. \A s \in Steps : h[s] = IF s \in replaced THEN Renamed(s) ELSE s
    BY DEF NewId
  <1>3. copy = [t \in Image(h, Steps) |->
                  IF t \in Steps THEN plan[t]
                  ELSE {NewId(plan, failed, done, d) : d \in plan[Origin(t)]}]
    <2>1. {NewId(plan, failed, done, s) : s \in DOMAIN plan} = Image(h, Steps)
      BY <1>1 DEF Image
    <2>2. QED
      BY <2>1 DEF PartialReplan
  <1>4. h \in [Steps -> Ids]
    <2>1. \A s \in Steps : NewId(plan, failed, done, s) \in Ids
      BY IdFacts DEF NewId, Renamed, Steps, Ids
    <2>2. QED
      BY <2>1
  <1>5. \A s \in Steps : plan[s] \subseteq Steps /\ {NewId(plan, failed, done, d) : d \in plan[s]} = Image(h, plan[s])
    BY DEF Image
  <1> HIDE DEF replaced, copy, h
  <1>6. ASSUME NEW s \in Steps
        PROVE  /\ Origin(h[s]) = s
               /\ h[s] \in Steps <=> s \notin replaced
               /\ s \notin replaced => h[s] = s
    BY <1>2, IdFacts DEF Origin, Renamed, Steps
  <1>7. \A s, t \in Steps : h[s] = h[t] => s = t
    BY <1>6
  <1>8. ASSUME NEW s \in Steps PROVE copy[h[s]] = Image(h, plan[s])
    <2>1. h[s] \in Image(h, Steps)
      BY DEF Image
    <2>2. CASE s \in replaced
      BY <1>3, <1>5, <1>6, <2>1, <2>2
    <2>3. CASE s \notin replaced
      <3>1. \A d \in plan[s] : h[d] = d
        BY <1>1, <1>5, <1>6, <2>3
      <3>2. Image(h, plan[s]) = plan[s]
        BY <3>1 DEF Image
      <3>3. QED
        BY <1>3, <1>6, <2>1, <2>3, <3>2
    <2>4. QED
      BY <2>2, <2>3
  <1>9. copy = [t \in Image(h, DOMAIN plan) |-> copy[t]] /\ DOMAIN copy = Image(h, Steps)
    BY <1>1, <1>3
  <1>10. Copy(plan, copy, h)
    BY <1>1, <1>4, <1>7, <1>8, <1>9 DEF Copy
  <1>11. \A s \in Steps \ replaced : s \in DOMAIN copy /\ copy[s] = plan[s]
    <2> TAKE s \in Steps \ replaced
    <2>1. h[s] = s /\ s \in Image(h, Steps)
      BY <1>6 DEF Image
    <2>2. QED
      BY <1>3, <1>9, <2>1
  <1>12. DOMAIN copy \cap Steps = Steps \ replaced
    <2>1. \A t \in DOMAIN copy : \E s \in Steps : t = h[s]
      BY <1>9 DEF Image
    <2>2. QED
      BY <1>6, <1>11, <2>1
  <1>13. QED
    BY <1>6, <1>10, <1>11, <1>12 DEF replaced, copy, h
=============================================================================
