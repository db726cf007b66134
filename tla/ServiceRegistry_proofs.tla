------------------------ MODULE ServiceRegistry_proofs ------------------------
(***************************************************************************)
(* Proofs about ServiceRegistry for any nodes, watches and times: a method *)
(* that is reported stays listed, no change of the list is missed, and the *)
(* balancer gives every instance its share whatever the weights.           *)
(***************************************************************************)
EXTENDS ServiceRegistry, FiniteSetTheorems, TLAPS

TypeInv ==
    /\ due \in [Nodes -> Nat] /\ passing \in [Nodes -> Nat] /\ critical \in [Nodes -> Nat]
    /\ name \in [Nodes -> {"none", "prefix-method", "chat.method"}]
    /\ mine \subseteq alive /\ alive \subseteq Nodes
    /\ pc \in [Watches -> {"none", "list", "tick", "apply", "loop", "next", "ended"}]
    /\ got \in [Watches -> SUBSET Instances]
    /\ changed \subseteq Watches

\* The check of a node whose last report succeeded passes beyond its next report.
ReportedInTime == \A n \in alive \ failed : n \in mine /\ passing[n] > due[n]

\* A watch whose index is current holds, or has applied, the list as it is.
IndexIsOfList ==
    \A w \in Watches :
        /\ pc[w] \in {"none", "list"} => author # w
        /\ pc[w] = "list" => w \in changed
        /\ pc[w] = "apply" /\ w \notin changed => got[w] = Listed
        /\ pc[w] \in {"loop", "tick", "next"} /\ w \notin changed /\ author = w => all = Listed

IInv == TypeInv /\ ReportedInTime /\ IndexIsOfList

LEMMA InitIInv == Init => IInv
    BY RegistryAssumption DEF Init, IInv, TypeInv, ReportedInTime, IndexIsOfList

-----------------------------------------------------------------------------
\* A step of the nodes, of Consul or of time: watches learn of a new list.
LEMMA NotifyKeeps ==
    ASSUME TypeInv, IndexIsOfList, Notify, UNCHANGED <<watchVars, all, author>>
    PROVE  IndexIsOfList' /\ changed' \subseteq Watches
<1>1. CASE Listed' = Listed
    BY <1>1 DEF Notify, watchVars, IndexIsOfList, TypeInv
<1>2. CASE Listed' # Listed
    BY <1>2 DEF Notify, watchVars, IndexIsOfList, TypeInv
<1> QED
    BY <1>1, <1>2

\* A step that leaves Consul and the watches alone.
LEMMA ConsulKept ==
    ASSUME IndexIsOfList, UNCHANGED <<consulVars, watchVars, all, author>>
    PROVE  IndexIsOfList'
    BY DEF consulVars, watchVars, IndexIsOfList, Listed

LEMMA NodeSteps ==
    ASSUME IInv, NEW n \in Nodes,
           \/ Boot(n) \/ Crash(n) \/ RegisterMethod(n) \/ UpdateMethodMetaReplace(n)
           \/ UnregisterMethod(n) \/ Report(n) \/ ReportFails(n)
    PROVE  IInv'
<1> USE RegistryAssumption DEF IInv
<1>1. CASE Boot(n) \/ Crash(n) \/ ReportFails(n)
  <2>1. TypeInv'
      BY <1>1 DEF TypeInv, Boot, Crash, ReportFails, Rearm, consulVars, watchVars, cache
  <2>2. ReportedInTime'
      BY <1>1 DEF TypeInv, ReportedInTime, Boot, Crash, ReportFails, Rearm, consulVars
  <2>3. IndexIsOfList'
      BY <1>1, ConsulKept DEF Boot, Crash, ReportFails, cache
  <2> QED
      BY <2>1, <2>2, <2>3
<1>2. CASE RegisterMethod(n) \/ UpdateMethodMetaReplace(n)
  <2>1. IndexIsOfList' /\ changed' \subseteq Watches
      BY <1>2, NotifyKeeps DEF RegisterMethod, UpdateMethodMetaReplace, Registered, cache
  <2>2. TypeInv'
      BY <1>2, <2>1 DEF TypeInv, RegisterMethod, UpdateMethodMetaReplace, Registered, watchVars,
                        nodeVars
  <2>3. ReportedInTime'
      BY <1>2 DEF TypeInv, ReportedInTime, RegisterMethod, UpdateMethodMetaReplace, Registered,
                  nodeVars
  <2> QED
      BY <2>1, <2>2, <2>3
<1>3. CASE UnregisterMethod(n)
  <2>1. IndexIsOfList' /\ changed' \subseteq Watches
      BY <1>3, NotifyKeeps DEF UnregisterMethod, cache
  <2>2. TypeInv'
      BY <1>3, <2>1 DEF TypeInv, UnregisterMethod, watchVars
  <2>3. ReportedInTime'
      BY <1>3 DEF TypeInv, ReportedInTime, UnregisterMethod
  <2> QED
      BY <2>1, <2>2, <2>3
<1>4. CASE Report(n)
  <2>1. IndexIsOfList' /\ changed' \subseteq Watches
      BY <1>4, NotifyKeeps DEF Report, cache
  <2>2. TypeInv'
      BY <1>4, <2>1 DEF TypeInv, Report, Rearm, watchVars
  <2>3. ReportedInTime'
      BY <1>4 DEF TypeInv, ReportedInTime, Report, Rearm
  <2> QED
      BY <2>1, <2>2, <2>3
<1> QED
    BY <1>1, <1>2, <1>3, <1>4

LEMMA TimeKeeps == ASSUME IInv, PassTime PROVE IInv'
<1> USE RegistryAssumption DEF IInv
<1>1. IndexIsOfList' /\ changed' \subseteq Watches
    BY NotifyKeeps DEF PassTime, cache
<1>2. TypeInv'
    BY <1>1 DEF TypeInv, PassTime, watchVars, Less
<1>3. ReportedInTime'
    BY DEF TypeInv, ReportedInTime, PassTime, Less
<1> QED
    BY <1>1, <1>2, <1>3

LEMMA WatchSteps ==
    ASSUME IInv, NEW w \in Watches,
           \/ StartWatch(w) \/ List(w) \/ Apply(w) \/ Ask(w) \/ Answer(w) \/ QueryFails(w)
           \/ End(w)
    PROVE  IInv'
<1> USE DEF IInv
<1>1. UNCHANGED <<alive, mine, due, name, passing, critical, failed>> /\ Listed' = Listed
    BY DEF StartWatch, List, Apply, Ask, Answer, QueryFails, End, nodeVars, consulVars, Listed
<1>2. Listed \in SUBSET Instances
    BY RegistryAssumption DEF Listed
<1>3. TypeInv'
    BY <1>1, <1>2 DEF TypeInv, StartWatch, List, Apply, Ask, Answer, QueryFails, End, Goto,
                      consulVars
<1>4. ReportedInTime'
    BY <1>1 DEF ReportedInTime
<1>5. IndexIsOfList'
  <2>1. CASE StartWatch(w)
      BY <1>1, <2>1 DEF TypeInv, IndexIsOfList, StartWatch, Goto, cache
  <2>2. CASE List(w)
      BY <1>1, <2>2 DEF TypeInv, IndexIsOfList, List, Goto, cache, consulVars
  <2>3. CASE Apply(w)
      BY <1>1, <2>3 DEF TypeInv, IndexIsOfList, Apply, Goto, consulVars
  <2>4. CASE Answer(w)
      BY <1>1, <2>4 DEF TypeInv, IndexIsOfList, Answer, Goto, cache
  <2>5. CASE Ask(w) \/ QueryFails(w) \/ End(w)
      BY <1>1, <2>5 DEF TypeInv, IndexIsOfList, Ask, QueryFails, End, Goto, cache, consulVars
  <2> QED
      BY <2>1, <2>2, <2>3, <2>4, <2>5
<1> QED
    BY <1>3, <1>4, <1>5

\* Steps that touch neither the list nor the goroutines.
LEMMA OtherSteps ==
    ASSUME IInv, StopWatch \/ ParentDone \/ (\E i \in Instances : Pick(i)) \/ UNCHANGED vars
    PROVE  IInv'
<1>1. UNCHANGED <<alive, mine, due, name, passing, critical, failed, pc, got, changed, all, author>>
    BY DEF StopWatch, ParentDone, Pick, vars, nodeVars, consulVars, watchVars, cache
<1> QED
    BY <1>1 DEF IInv, TypeInv, ReportedInTime, IndexIsOfList, Listed

LEMMA StepIInv == IInv /\ [Next]_vars => IInv'
    BY NodeSteps, TimeKeeps, WatchSteps, OtherSteps DEF Next

-----------------------------------------------------------------------------
(* Sums over finite sets.  The sum is a function over the subsets, so that it can be *)
(* unfolded at any element; induction goes over a set of subsets.                     *)

\* A set of natural numbers that is not empty has a least one.
LEMMA LeastNumber ==
    ASSUME NEW B \in SUBSET Nat, B # {}
    PROVE  \E n \in B : \A m \in B : n <= m
<1> DEFINE R == OpToRel(<, Nat)
<1>1. R = {ss \in Nat \X Nat : ss[1] < ss[2]}
    BY Zenon DEF OpToRel
<1>2. PICK n \in B : \A m \in B : <<m, n>> \notin R
  <2>1. IsWellFoundedOn(R, Nat)
      BY NatLessThanWellFounded, Zenon
  <2> HIDE DEF R
  <2> QED
      BY <2>1, WFMin
<1> HIDE DEF R
<1>3. \A m \in B : ~ (m < n)
    BY <1>1, <1>2
<1>4. \A m \in B : m \in Nat /\ n \in Nat
    OBVIOUS
<1>5. \A m \in B : n <= m
    BY <1>3, <1>4
<1> QED
    BY <1>5

\* Induction over the subsets of a finite set.
LEMMA SubsetInduction ==
    ASSUME NEW S, IsFiniteSet(S), NEW G \in SUBSET (SUBSET S), {} \in G,
           \A U \in G : \A a \in S \ U : U \cup {a} \in G
    PROVE  \A U \in SUBSET S : U \in G
<1> DEFINE Rest == (SUBSET S) \ G
           B == {Cardinality(U) : U \in Rest}
<1> SUFFICES ASSUME NEW V \in SUBSET S, V \notin G PROVE FALSE
    OBVIOUS
<1>1. \A U \in SUBSET S : IsFiniteSet(U) /\ Cardinality(U) \in Nat
    BY FS_Subset, FS_CardinalityType
<1>2. V \in Rest /\ Rest \subseteq SUBSET S
    OBVIOUS
<1>3. PICK n \in B : \A m \in B : n <= m
  <2>1. B \in SUBSET Nat /\ B # {}
    <3> HIDE DEF Rest
    <3> QED
        BY <1>1, <1>2
  <2> HIDE DEF B
  <2> QED
      BY <2>1, LeastNumber
<1>4. PICK U \in Rest : n = Cardinality(U)
    BY <1>3
<1>5. \A W \in Rest : n <= Cardinality(W)
  <2> HIDE DEF Rest
  <2> QED
      BY <1>3
<1>6. PICK a \in U : TRUE
    BY <1>4
<1> DEFINE W == U \ {a}
<1>7. W \in SUBSET S /\ W \cup {a} = U /\ a \in S \ W
    BY <1>4, <1>6
<1>8. Cardinality(W) = n - 1 /\ n \in Nat
    BY <1>1, <1>4, <1>6, FS_RemoveElement
<1>9. W \in G
  <2> HIDE DEF W
  <2>1. W \notin Rest
      BY <1>5, <1>8
  <2> QED
      BY <1>7, <2>1
<1> HIDE DEF W
<1> QED
    BY <1>4, <1>7, <1>9

\* g is the sum of f over each subset of S, whatever element is added last.
IsSum(g, f, S) ==
    /\ g \in [SUBSET S -> Int] /\ g[{}] = 0
    /\ \A U \in SUBSET S : \A i \in U : g[U] = f[i] + g[U \ {i}]

LEMMA SumExists ==
    ASSUME NEW S, IsFiniteSet(S), NEW f, \A i \in S : f[i] \in Int
    PROVE  \E g : IsSum(g, f, S)
<1> DEFINE G == {U \in SUBSET S : \E g : IsSum(g, f, U)}
<1>1. {} \in G
  <2> DEFINE z == [U \in SUBSET {} |-> 0]
  <2>1. IsSum(z, f, {})
      BY DEF IsSum
  <2> QED
      BY <2>1
<1>2. ASSUME NEW U \in G, NEW a \in S \ U
      PROVE  U \cup {a} \in G
  <2>1. PICK g : IsSum(g, f, U)
      OBVIOUS
  <2> DEFINE V == U \cup {a}
             h == [X \in SUBSET V |-> IF a \in X THEN f[a] + g[X \ {a}] ELSE g[X]]
  <2>2. \A X \in SUBSET V : X \ {a} \in SUBSET U /\ (a \notin X => X \in SUBSET U)
      OBVIOUS
  <2>3. g \in [SUBSET U -> Int] /\ g[{}] = 0
      BY <2>1 DEF IsSum
  <2>4. \A X \in SUBSET V : h[X] = IF a \in X THEN f[a] + g[X \ {a}] ELSE g[X]
      OBVIOUS
  <2>5. h \in [SUBSET V -> Int]
    <3>1. ASSUME NEW X \in SUBSET V PROVE (IF a \in X THEN f[a] + g[X \ {a}] ELSE g[X]) \in Int
        BY <2>2, <2>3
    <3> QED
        BY <3>1
  <2>6. h[{}] = 0
      BY <2>3, <2>4
  <2>7. ASSUME NEW X \in SUBSET V, NEW i \in X
        PROVE  h[X] = f[i] + h[X \ {i}]
    <3>1. X \ {i} \in SUBSET V /\ f[i] \in Int /\ f[a] \in Int
        BY DEF IsSum
    <3>2. CASE i = a
        BY <2>4, <3>1, <3>2
    <3>3. CASE i # a /\ a \in X
      <4>1. (X \ {a}) \ {i} = (X \ {i}) \ {a} /\ i \in X \ {a} /\ a \in X \ {i}
          BY <3>3
      <4>2. g[X \ {a}] = f[i] + g[(X \ {a}) \ {i}]
          BY <2>1, <2>2, <4>1 DEF IsSum
      <4>3. h[X] = f[a] + g[X \ {a}] /\ h[X \ {i}] = f[a] + g[(X \ {i}) \ {a}]
          BY <2>4, <3>1, <3>3, <4>1
      <4>4. PICK y \in Int : y = g[(X \ {i}) \ {a}]
          BY <2>2, <2>3, <3>1
      <4>5. h[X] = f[a] + (f[i] + y) /\ h[X \ {i}] = f[a] + y
          BY <4>1, <4>2, <4>3, <4>4
      <4>6. f[a] + (f[i] + y) = f[i] + (f[a] + y)
          BY <3>1, <4>4
      <4> QED
          BY <4>5, <4>6
    <3>4. CASE a \notin X
      <4>1. h[X] = g[X] /\ h[X \ {i}] = g[X \ {i}]
          BY <2>4, <3>1, <3>4
      <4>2. g[X] = f[i] + g[X \ {i}]
          BY <2>1, <2>2, <3>4 DEF IsSum
      <4> QED
          BY <4>1, <4>2
    <3> QED
        BY <3>2, <3>3, <3>4
  <2> HIDE DEF h
  <2>8. IsSum(h, f, V)
      BY <2>5, <2>6, <2>7 DEF IsSum
  <2> QED
      BY <2>8
<1> HIDE DEF G
<1>3. \A U \in SUBSET S : U \in G
    BY <1>1, <1>2, SubsetInduction DEF G
<1> QED
    BY <1>3 DEF G

\* The sum of the community modules, which adds the elements in a fixed order.
LEMMA SumOfFold ==
    ASSUME NEW S, IsFiniteSet(S), NEW g, NEW f, IsSum(g, f, S),
           \A i \in S : f[i] = parseWeight(i) /\ f[i] \in Int
    PROVE  MapThenSumSet(parseWeight, S) = g[S]
<1> DEFINE Rec(h) == [s \in SUBSET S |->
                        IF s = {} THEN 0
                        ELSE LET x == CHOOSE x \in s : TRUE IN parseWeight(x) + h[s \ {x}]]
           it == CHOOSE h : h = Rec(h)
<1>1. MapThenSumSet(parseWeight, S) = it[S]
    BY DEF MapThenSumSet, MapThenFoldSet
<1>2. g = Rec(g)
  <2>1. ASSUME NEW s \in SUBSET S, s # {}
        PROVE  g[s] = parseWeight(CHOOSE x \in s : TRUE) + g[s \ {CHOOSE x \in s : TRUE}]
      BY <2>1 DEF IsSum
  <2>2. g \in [SUBSET S -> Int] /\ g[{}] = 0
      BY DEF IsSum
  <2> QED
      BY <2>1, <2>2
<1>3. it = Rec(it)
  <2> HIDE DEF Rec
  <2> QED
      BY <1>2
<1> HIDE DEF it
<1>4. \A s \in SUBSET S :
          it[s] = IF s = {} THEN 0
                  ELSE parseWeight(CHOOSE x \in s : TRUE) + it[s \ {CHOOSE x \in s : TRUE}]
    BY <1>3
<1> HIDE DEF Rec
<1> DEFINE Odd == {V \in SUBSET S : it[V] # g[V]}
           B == {Cardinality(V) : V \in Odd}
<1>5. ASSUME Odd # {} PROVE FALSE
  <2>1. \A V \in SUBSET S : IsFiniteSet(V) /\ Cardinality(V) \in Nat
      BY FS_Subset, FS_CardinalityType
  <2>2. B \in SUBSET Nat /\ B # {}
    <3>1. Odd \subseteq SUBSET S
        OBVIOUS
    <3> HIDE DEF Odd
    <3> QED
        BY <1>5, <2>1, <3>1
  <2>3. PICK n \in B : \A m \in B : n <= m
    <3> HIDE DEF B
    <3> QED
        BY <2>2, LeastNumber
  <2>4. PICK V \in Odd : n = Cardinality(V)
      BY <2>3
  <2>5. \A W \in Odd : n <= Cardinality(W)
    <3> HIDE DEF Odd
    <3> QED
        BY <2>3
  <2>6. V \in SUBSET S /\ it[V] # g[V]
      BY <2>4
  <2>7. V # {}
    <3>1. {} \in SUBSET S
        OBVIOUS
    <3>2. it[{}] = 0 /\ g[{}] = 0
        BY <1>4, <3>1 DEF IsSum
    <3> QED
        BY <2>6, <3>2
  <2> DEFINE x == CHOOSE x \in V : TRUE
             W == V \ {x}
  <2>8. x \in V
      BY <2>7
  <2>9. it[V] = parseWeight(x) + it[W]
      BY <1>4, <2>6, <2>7
  <2>10. g[V] = parseWeight(x) + g[W]
    <3> HIDE DEF x
    <3> QED
        BY <2>6, <2>8 DEF IsSum
  <2> HIDE DEF x
  <2>11. W \in SUBSET S /\ Cardinality(W) = n - 1 /\ n \in Nat
      BY <2>1, <2>4, <2>6, <2>8, FS_RemoveElement
  <2> HIDE DEF W
  <2>12. it[W] = g[W]
      BY <2>5, <2>11
  <2> QED
      BY <2>6, <2>9, <2>10, <2>12
<1> QED
    BY <1>1, <1>5

\* A sum of numbers none of which is negative is not negative.
LEMMA SumNotNegative ==
    ASSUME NEW S, IsFiniteSet(S), NEW f, NEW g, IsSum(g, f, S),
           \A i \in S : f[i] \in Int /\ f[i] >= 0
    PROVE  \A U \in SUBSET S : g[U] >= 0
<1> DEFINE G == {U \in SUBSET S : g[U] >= 0}
<1>1. {} \in G
    BY DEF IsSum
<1>2. ASSUME NEW U \in G, NEW a \in S \ U
      PROVE  U \cup {a} \in G
  <2>1. U \cup {a} \in SUBSET S /\ (U \cup {a}) \ {a} = U /\ a \in U \cup {a}
      OBVIOUS
  <2>2. g[U \cup {a}] = f[a] + g[U]
      BY <2>1 DEF IsSum
  <2>3. g[U] \in Int /\ g[U] >= 0 /\ f[a] \in Int /\ f[a] >= 0
      BY DEF IsSum
  <2> QED
      BY <2>1, <2>2, <2>3
<1>3. G \in SUBSET (SUBSET S)
    OBVIOUS
<1> HIDE DEF G
<1>4. \A U \in SUBSET S : U \in G
    BY <1>1, <1>2, <1>3, SubsetInduction
<1> QED
    BY <1>4 DEF G

\* Numbers that are not negative and add up to 0 are 0.
LEMMA SumZero ==
    ASSUME NEW S, IsFiniteSet(S), NEW f, NEW g, IsSum(g, f, S), g[S] = 0,
           \A i \in S : f[i] \in Int /\ f[i] >= 0
    PROVE  \A i \in S : f[i] = 0
<1> SUFFICES ASSUME NEW i \in S PROVE f[i] = 0
    OBVIOUS
<1>1. S \ {i} \in SUBSET S /\ S \in SUBSET S
    OBVIOUS
<1>2. g[S] = f[i] + g[S \ {i}] /\ g[S \ {i}] \in Int
    BY <1>1 DEF IsSum
<1>3. g[S \ {i}] >= 0
    BY <1>1, SumNotNegative
<1> QED
    BY <1>2, <1>3

\* The sum of two functions adds up to the sum of theirs.
LEMMA SumAdds ==
    ASSUME NEW I, NEW S \in SUBSET I, NEW f, NEW e, NEW g, NEW h,
           IsSum(g, f, S), IsSum(h, e, S), \A i \in S : f[i] \in Int /\ e[i] \in Int,
           NEW d \in [I -> Int], \A i \in S : d[i] = f[i] + e[i]
    PROVE  \E k : IsSum(k, d, S) /\ k[S] = g[S] + h[S]
<1> DEFINE k == [U \in SUBSET S |-> g[U] + h[U]]
<1>1. g \in [SUBSET S -> Int] /\ h \in [SUBSET S -> Int] /\ g[{}] = 0 /\ h[{}] = 0
    BY DEF IsSum
<1>2. k \in [SUBSET S -> Int] /\ k[{}] = 0
  <2>1. \A U \in SUBSET S : g[U] + h[U] \in Int
      BY <1>1
  <2> QED
      BY <1>1, <2>1
<1>3. ASSUME NEW U \in SUBSET S, NEW i \in U
      PROVE  k[U] = d[i] + k[U \ {i}]
  <2>1. U \ {i} \in SUBSET S /\ i \in S
      OBVIOUS
  <2>2. g[U] = f[i] + g[U \ {i}] /\ h[U] = e[i] + h[U \ {i}]
      BY DEF IsSum
  <2>3. PICK x \in Int, y \in Int : x = g[U \ {i}] /\ y = h[U \ {i}]
      BY <1>1, <2>1
  <2>4. k[U] = (f[i] + x) + (e[i] + y) /\ k[U \ {i}] = x + y
      BY <2>1, <2>2, <2>3
  <2> QED
      BY <2>1, <2>3, <2>4
<1>4. k[S] = g[S] + h[S]
    OBVIOUS
<1> HIDE DEF k
<1>5. IsSum(k, d, S)
    BY <1>2, <1>3 DEF IsSum
<1> QED
    BY <1>4, <1>5

\* Lowering one value lowers the sum by as much.
LEMMA SumLowered ==
    ASSUME NEW S, NEW f, NEW g, IsSum(g, f, S), \A i \in S : f[i] \in Int,
           NEW a \in S, NEW t \in Int, NEW e, e[a] = f[a] - t, \A i \in S \ {a} : e[i] = f[i]
    PROVE  \E k : IsSum(k, e, S) /\ k[S] = g[S] - t
<1> DEFINE k == [U \in SUBSET S |-> IF a \in U THEN g[U] - t ELSE g[U]]
<1>1. g \in [SUBSET S -> Int] /\ g[{}] = 0
    BY DEF IsSum
<1>2. k \in [SUBSET S -> Int] /\ k[{}] = 0
  <2>1. \A U \in SUBSET S : (IF a \in U THEN g[U] - t ELSE g[U]) \in Int
      BY <1>1
  <2> QED
      BY <1>1, <2>1
<1>3. ASSUME NEW U \in SUBSET S, NEW i \in U
      PROVE  k[U] = e[i] + k[U \ {i}]
  <2>1. U \ {i} \in SUBSET S /\ i \in S
      OBVIOUS
  <2>2. g[U] = f[i] + g[U \ {i}] /\ f[i] \in Int /\ f[a] \in Int
      BY <2>1 DEF IsSum
  <2>3. PICK x \in Int : x = g[U \ {i}]
      BY <1>1, <2>1
  <2>4. CASE i = a
    <3>1. k[U] = (f[a] + x) - t /\ k[U \ {i}] = x
        BY <2>1, <2>2, <2>3, <2>4
    <3> QED
        BY <2>2, <2>3, <2>4, <3>1
  <2>5. CASE i # a /\ a \in U
    <3>1. k[U] = (f[i] + x) - t /\ k[U \ {i}] = x - t /\ e[i] = f[i]
        BY <2>1, <2>2, <2>3, <2>5
    <3> QED
        BY <2>2, <2>3, <3>1
  <2>6. CASE a \notin U
    <3>1. k[U] = f[i] + x /\ k[U \ {i}] = x /\ e[i] = f[i]
        BY <2>1, <2>2, <2>3, <2>6
    <3> QED
        BY <3>1
  <2> QED
      BY <2>4, <2>5, <2>6
<1>4. k[S] = g[S] - t
    OBVIOUS
<1> HIDE DEF k
<1>5. IsSum(k, e, S)
    BY <1>2, <1>3 DEF IsSum
<1> QED
    BY <1>4, <1>5
-----------------------------------------------------------------------------
(* The balancer *)

Weight == [i \in Instances |-> parseWeight(i)]

\* What is raised is lowered again: the currents add up to 0, whatever the order they
\* are added in.
AddUpToZero == \E g : IsSum(g, current, balanced) /\ g[balanced] = 0

\* current of i is what its turns added less what its picks took.
Settled(i) ==
    /\ current[i] = turns * parseWeight(i) - Total(balanced) * picks[i]
    /\ current[i] > -Total(balanced)

BalancerInv ==
    /\ balanced \subseteq Instances
    /\ current \in [Instances -> Int] /\ picks \in [Instances -> Nat] /\ turns \in Nat
    /\ balanced # {} => turns < Total(balanced)
    /\ \A i \in balanced : Settled(i)
    /\ AddUpToZero

LEMMA WeightPositive == \A i \in Instances : parseWeight(i) \in Nat /\ parseWeight(i) >= 1
    BY BalancerAssumption DEF parseWeight

\* The total of a list is the sum of its weights, at least 1 when it is not empty.
LEMMA TotalIsSum ==
    ASSUME NEW S \in SUBSET Instances
    PROVE  /\ IsFiniteSet(S)
           /\ \E g : IsSum(g, Weight, S) /\ g[S] = Total(S)
           /\ Total(S) \in Nat
           /\ S # {} => Total(S) >= 1
<1>1. IsFiniteSet(S)
    BY BalancerAssumption, FS_Subset
<1>2. \A i \in S : Weight[i] = parseWeight(i) /\ Weight[i] \in Int /\ Weight[i] >= 1
    BY WeightPositive DEF Weight
<1>3. PICK g : IsSum(g, Weight, S)
    BY <1>1, <1>2, SumExists
<1>4. Total(S) = g[S]
    BY <1>1, <1>2, <1>3, SumOfFold DEF Total
<1>5. \A U \in SUBSET S : g[U] >= 0
    BY <1>1, <1>2, <1>3, SumNotNegative
<1>6. \A U \in SUBSET S : g[U] \in Int
    BY <1>3 DEF IsSum
<1>7. ASSUME S # {} PROVE g[S] >= 1
  <2>1. PICK i \in S : TRUE
      BY <1>7
  <2>2. S \in SUBSET S /\ S \ {i} \in SUBSET S
      OBVIOUS
  <2>3. g[S] = Weight[i] + g[S \ {i}]
      BY <1>3, <2>1, <2>2 DEF IsSum
  <2>4. g[S \ {i}] \in Int /\ g[S \ {i}] >= 0
      BY <1>5, <1>6, <2>2
  <2> QED
      BY <1>2, <2>1, <2>3, <2>4
<1>8. g[S] \in Nat
    BY <1>5, <1>6
<1> QED
    BY <1>1, <1>3, <1>4, <1>7, <1>8

LEMMA UpdateKeeps ==
    ASSUME NEW S \in SUBSET Instances, Update(S)
    PROVE  BalancerInv'
<1>1. balanced' = S /\ current' = Zero /\ picks' = Zero /\ turns' = 0
    BY DEF Update
<1>2. Total(S) \in Nat /\ (S # {} => Total(S) >= 1)
    BY TotalIsSum
<1>3. \A i \in S : Zero[i] = 0
    BY DEF Zero
<1>4. \A i \in balanced' : Settled(i)'
  <2> SUFFICES ASSUME NEW i \in S PROVE Settled(i)'
      BY <1>1
  <2>1. Total(balanced)' = Total(S)
      BY <1>1 DEF Total
  <2>2. Total(S) >= 1 /\ parseWeight(i) \in Nat
      BY <1>2, WeightPositive
  <2>3. current'[i] = 0 /\ picks'[i] = 0 /\ turns' = 0
      BY <1>1, <1>3
  <2>4. 0 = 0 * parseWeight(i) - Total(S) * 0 /\ 0 > -Total(S)
      BY <1>2, <2>2
  <2> QED
      BY <2>1, <2>3, <2>4 DEF Settled
<1>5. AddUpToZero'
  <2> DEFINE z == [U \in SUBSET S |-> 0]
  <2>1. IsSum(z, Zero, S) /\ z[S] = 0
      BY <1>3 DEF IsSum
  <2> QED
      BY <1>1, <2>1 DEF AddUpToZero
<1>6. balanced' # {} => turns' < Total(balanced)'
    BY <1>1, <1>2 DEF Total
<1>7. Zero \in [Instances -> Int] /\ Zero \in [Instances -> Nat]
    BY DEF Zero
<1> QED
    BY <1>1, <1>4, <1>5, <1>6, <1>7 DEF BalancerInv

\* The turn raised the currents by the total, so the highest is positive.
LEMMA PickedIsRaised ==
    ASSUME BalancerInv, NEW p \in Highest
    PROVE  /\ \E k : IsSum(k, Raised, balanced) /\ k[balanced] = Total(balanced)
           /\ Raised \in [Instances -> Int]
           /\ \A i \in balanced : Raised[i] = current[i] + parseWeight(i)
           /\ Raised[p] >= 1
<1>1. p \in balanced /\ \A j \in balanced : Raised[j] <= Raised[p]
    BY DEF Highest
<1>2. balanced \subseteq Instances /\ \A i \in balanced : current[i] \in Int
    BY DEF BalancerInv
<1>3. \A i \in balanced : Raised[i] = current[i] + parseWeight(i)
    BY <1>2 DEF Raised
<1>4. \A i \in balanced : Weight[i] = parseWeight(i) /\ Weight[i] \in Int
    BY <1>2, WeightPositive DEF Weight
<1>5. Raised \in [Instances -> Int]
  <2>1. \A i \in Instances : parseWeight(i) \in Int /\ current[i] \in Int
      BY WeightPositive DEF BalancerInv
  <2>2. \A i \in Instances : (IF i \in balanced THEN current[i] + parseWeight(i) ELSE 0) \in Int
      BY <2>1
  <2> QED
      BY <2>2 DEF Raised
<1>6. PICK g : IsSum(g, current, balanced) /\ g[balanced] = 0
    BY DEF BalancerInv, AddUpToZero
<1>7. IsFiniteSet(balanced) /\ Total(balanced) >= 1 /\ Total(balanced) \in Nat
    BY <1>1, <1>2, TotalIsSum
<1>8. PICK h : IsSum(h, Weight, balanced) /\ h[balanced] = Total(balanced)
    BY <1>2, TotalIsSum
<1>9. PICK k : IsSum(k, Raised, balanced) /\ k[balanced] = g[balanced] + h[balanced]
  <2>1. \A i \in balanced : Raised[i] = current[i] + Weight[i]
      BY <1>3, <1>4
  <2>2. \A i \in balanced : current[i] \in Int /\ Weight[i] \in Int
      BY <1>2, <1>4
  <2> QED
      BY <1>2, <1>5, <1>6, <1>8, <2>1, <2>2, SumAdds
<1>10. k[balanced] = Total(balanced)
    BY <1>6, <1>7, <1>8, <1>9
<1>11. \A i \in balanced : Raised[i] \in Int
    BY <1>2, <1>5
<1>12. Raised[p] >= 1
  <2> SUFFICES ASSUME ~ (Raised[p] >= 1) PROVE FALSE
      OBVIOUS
  <2> DEFINE minus == [i \in Instances |-> -Raised[i]]
             m == [U \in SUBSET balanced |-> -k[U]]
  <2>1. \A i \in balanced : Raised[i] <= 0
      BY <1>1, <1>11
  <2>2. \A i \in balanced : minus[i] = -Raised[i]
      BY <1>2
  <2>3. \A i \in balanced : minus[i] \in Int /\ minus[i] >= 0
      BY <1>11, <2>1, <2>2
  <2>4. k \in [SUBSET balanced -> Int] /\ k[{}] = 0
      BY <1>9 DEF IsSum
  <2>5. m \in [SUBSET balanced -> Int] /\ m[{}] = 0
    <3>1. \A U \in SUBSET balanced : -k[U] \in Int
        BY <2>4
    <3> QED
        BY <2>4, <3>1
  <2> HIDE DEF minus
  <2>6. ASSUME NEW U \in SUBSET balanced, NEW i \in U
        PROVE  m[U] = minus[i] + m[U \ {i}]
    <3>1. U \ {i} \in SUBSET balanced /\ i \in balanced
        OBVIOUS
    <3>2. k[U] = Raised[i] + k[U \ {i}]
        BY <1>9 DEF IsSum
    <3>3. PICK x \in Int : x = k[U \ {i}]
        BY <2>4, <3>1
    <3>4. m[U] = -(Raised[i] + x) /\ m[U \ {i}] = -x
        BY <3>1, <3>2, <3>3
    <3> QED
        BY <1>11, <2>2, <3>1, <3>3, <3>4
  <2>7. m[balanced] = -Total(balanced)
      BY <1>10
  <2> HIDE DEF m
  <2>8. IsSum(m, minus, balanced)
      BY <2>5, <2>6 DEF IsSum
  <2>9. m[balanced] >= 0
      BY <1>7, <2>3, <2>8, SumNotNegative
  <2> QED
      BY <1>7, <2>7, <2>9
<1> QED
    BY <1>3, <1>5, <1>9, <1>10, <1>12

\* Facts about products the solver needs spelled out.
LEMMA Products ==
    ASSUME NEW t \in Int, NEW n \in Int, NEW w \in Int, NEW q \in Int
    PROVE  /\ (n + 1) * w - t * q = (n * w - t * q) + w
           /\ (n + 1) * w - t * (q + 1) = ((n * w - t * q) + w) - t
           /\ t * w - t * q = t * (w - q)
    OBVIOUS

LEMMA TurnKeeps ==
    ASSUME BalancerInv, NEW p \in Instances, NextPick(p)
    PROVE  BalancerInv'
<1> DEFINE T == Total(balanced)
<1>1. p \in balanced /\ p \in Highest /\ balanced' = balanced
    BY DEF NextPick, Highest
<1>2. /\ balanced \subseteq Instances /\ current \in [Instances -> Int]
      /\ picks \in [Instances -> Nat] /\ turns \in Nat /\ turns < T
    BY <1>1 DEF BalancerInv
<1>3. T \in Nat /\ T >= 1 /\ IsFiniteSet(balanced) /\ Total(balanced)' = T
    BY <1>1, <1>2, TotalIsSum DEF Total
<1>4. PICK k : IsSum(k, Raised, balanced) /\ k[balanced] = T
    BY <1>1, PickedIsRaised
<1>5. /\ Raised \in [Instances -> Int]
      /\ \A i \in balanced : Raised[i] = current[i] + parseWeight(i) /\ Raised[i] \in Int
      /\ Raised[p] >= 1
    BY <1>1, <1>2, PickedIsRaised
<1>6. /\ current' = [Raised EXCEPT ![p] = Raised[p] - T]
      /\ Count(p)
    BY DEF NextPick
<1> HIDE DEF T
<1>7. current'[p] = Raised[p] - T /\ \A i \in balanced \ {p} : current'[i] = Raised[i]
    BY <1>2, <1>6 DEF Raised
<1>8. current' \in [Instances -> Int]
  <2>1. Raised[p] - T \in Int
      BY <1>3, <1>5
  <2> QED
      BY <1>5, <1>6, <2>1
<1>9. AddUpToZero'
  <2>1. PICK h : IsSum(h, current', balanced) /\ h[balanced] = k[balanced] - T
      BY <1>1, <1>3, <1>4, <1>5, <1>7, SumLowered
  <2>2. h[balanced] = 0
      BY <1>3, <1>4, <2>1
  <2> QED
      BY <1>1, <2>1, <2>2 DEF AddUpToZero
\* The picks as they were before a cycle is closed.
<1> DEFINE q(i) == IF i = p THEN picks[i] + 1 ELSE picks[i]
<1>10. ASSUME NEW i \in balanced
       PROVE  /\ q(i) \in Nat
              /\ current'[i] \in Int
              /\ current'[i] = (turns + 1) * parseWeight(i) - T * q(i)
              /\ current'[i] > -T
  <2>1. parseWeight(i) \in Nat /\ parseWeight(i) >= 1 /\ picks[i] \in Nat
      BY <1>2, WeightPositive
  <2>2. current[i] = turns * parseWeight(i) - T * picks[i] /\ current[i] > -T
      BY DEF BalancerInv, Settled, T
  <2>3. Raised[i] = (turns * parseWeight(i) - T * picks[i]) + parseWeight(i) /\ Raised[i] > -T
      BY <1>2, <1>3, <1>5, <2>1, <2>2
  <2>4. CASE i = p
    <3>1. current'[i] = ((turns * parseWeight(i) - T * picks[i]) + parseWeight(i)) - T
        BY <1>7, <2>3, <2>4
    <3>2. (turns + 1) * parseWeight(i) - T * (picks[i] + 1)
              = ((turns * parseWeight(i) - T * picks[i]) + parseWeight(i)) - T
        BY <1>2, <1>3, <2>1, Products
    <3>3. current'[i] > -T /\ current'[i] \in Int
        BY <1>3, <1>5, <1>7, <2>4
    <3> QED
        BY <2>1, <2>4, <3>1, <3>2, <3>3
  <2>5. CASE i # p
    <3>1. current'[i] = (turns * parseWeight(i) - T * picks[i]) + parseWeight(i)
        BY <1>7, <2>3, <2>5
    <3>2. (turns + 1) * parseWeight(i) - T * picks[i]
              = (turns * parseWeight(i) - T * picks[i]) + parseWeight(i)
        BY <1>2, <1>3, <2>1, Products
    <3>3. current'[i] > -T /\ current'[i] \in Int
        BY <1>5, <1>7, <2>3, <2>5
    <3> QED
        BY <2>1, <2>5, <3>1, <3>2, <3>3
  <2> QED
      BY <2>4, <2>5
<1>11. CASE turns + 1 # T
  <2>1. turns' = turns + 1 /\ picks' = [picks EXCEPT ![p] = picks[p] + 1]
      BY <1>6, <1>11 DEF Count, T
  <2>2. picks' \in [Instances -> Nat] /\ \A i \in balanced : picks'[i] = q(i)
      BY <1>2, <2>1
  <2>3. \A i \in balanced : Settled(i)'
    <3> HIDE DEF q
    <3> QED
        BY <1>3, <1>10, <2>1, <2>2 DEF Settled
  <2>4. turns' \in Nat /\ turns' < T
      BY <1>2, <1>3, <1>11, <2>1
  <2> QED
      BY <1>1, <1>2, <1>3, <1>8, <1>9, <2>2, <2>3, <2>4 DEF BalancerInv
\* At the end of a cycle a current above -T is a multiple of T, so it is not negative.
<1>12. CASE turns + 1 = T
  <2>1. turns' = 0 /\ picks' = Zero
      BY <1>6, <1>12 DEF Count, T
  <2>2. ASSUME NEW i \in balanced PROVE current'[i] >= 0
    <3> DEFINE w == parseWeight(i)
               r == q(i)
    <3>1. w \in Nat /\ r \in Nat
        BY <1>2, <1>10, WeightPositive
    <3>2. current'[i] = T * w - T * r /\ current'[i] > -T
        BY <1>10, <1>12
    <3> HIDE DEF w, r
    <3>3. T * (w - r) > -T /\ current'[i] = T * (w - r)
        BY <1>3, <3>1, <3>2, Products
    <3>4. w - r >= 0
        BY <1>3, <3>1, <3>3
    <3>5. T * (w - r) >= 0
        BY <1>3, <3>1, <3>4
    <3> QED
        BY <3>3, <3>5
  <2>3. PICK h : IsSum(h, current', balanced) /\ h[balanced] = 0
      BY <1>1, <1>9 DEF AddUpToZero
  <2>4. \A i \in balanced : current'[i] = 0
      BY <1>3, <1>10, <2>2, <2>3, SumZero
  <2>5. \A i \in balanced : Settled(i)'
    <3> SUFFICES ASSUME NEW i \in balanced PROVE Settled(i)'
        OBVIOUS
    <3>1. parseWeight(i) \in Nat /\ picks'[i] = 0
        BY <1>2, <2>1, WeightPositive DEF Zero
    <3>2. 0 = 0 * parseWeight(i) - T * 0 /\ 0 > -T
        BY <1>3, <3>1
    <3> QED
        BY <1>3, <2>1, <2>4, <3>1, <3>2 DEF Settled
  <2>6. Zero \in [Instances -> Nat]
      BY DEF Zero
  <2> QED
      BY <1>1, <1>2, <1>3, <1>8, <1>9, <2>1, <2>5, <2>6 DEF BalancerInv
<1> QED
    BY <1>11, <1>12

LEMMA BalancerKept ==
    ASSUME BalancerInv, UNCHANGED balancerVars
    PROVE  BalancerInv'
    BY DEF balancerVars, BalancerInv, AddUpToZero, Settled, Total

LEMMA StepBalancer ==
    ASSUME IInv, BalancerInv, [Next]_vars
    PROVE  BalancerInv'
<1>1. ASSUME NEW w \in Watches, Apply(w) PROVE BalancerInv'
  <2>1. got[w] \in SUBSET Instances /\ Update(got[w])
      BY <1>1 DEF IInv, TypeInv, Apply
  <2> QED
      BY <2>1, UpdateKeeps
<1>2. ASSUME NEW i \in Instances, Pick(i) PROVE BalancerInv'
    BY <1>2, TurnKeeps DEF Pick
<1>3. ASSUME ~ (\E w \in Watches : Apply(w)), ~ (\E i \in Instances : Pick(i))
      PROVE  UNCHANGED balancerVars
    BY <1>3 DEF Next, vars, cache, Boot, Crash, RegisterMethod, UpdateMethodMetaReplace,
                UnregisterMethod, Report, ReportFails, PassTime, StartWatch, List, Ask, Answer,
                QueryFails, End, StopWatch, ParentDone
<1> QED
    BY <1>1, <1>2, <1>3, BalancerKept

LEMMA InitBalancer == Init => BalancerInv
<1> SUFFICES ASSUME Init PROVE BalancerInv
    OBVIOUS
<1>1. balanced = {} /\ current = Zero /\ picks = Zero /\ turns = 0
    BY DEF Init, BalancerInit
<1> DEFINE z == [U \in SUBSET {} |-> 0]
<1>2. IsSum(z, Zero, {}) /\ z[{}] = 0
    BY DEF IsSum
<1> QED
    BY <1>1, <1>2 DEF BalancerInv, AddUpToZero, Zero

-----------------------------------------------------------------------------
(* Theorems *)

\* The inductive invariant of the registry.
THEOREM Inductive == Spec => []IInv
    BY InitIInv, StepIInv, PTL DEF Spec

\* A method whose reports succeed is never out of Consul's list, whatever the jitter.
THEOREM ReportsKeepListed == Spec => []OutOnlyAfterFailure
<1>1. IInv => OutOnlyAfterFailure
    BY DEF IInv, TypeInv, ReportedInTime, OutOnlyAfterFailure, Listed
<1> QED
    BY <1>1, Inductive, PTL

\* A watch that is up to date has the list as it is in the cache, however many other
\* watches were started and stopped.
THEOREM NoChangeIsMissed == Spec => []CacheFollows
<1>1. IInv => CacheFollows
    BY DEF IInv, IndexIsOfList, CacheFollows
<1> QED
    BY <1>1, Inductive, PTL

\* The balancer's invariant holds of every list the cache is given.
THEOREM BalancerInductive == Spec => []BalancerInv
<1>1. IInv /\ BalancerInv /\ [Next]_vars => BalancerInv'
    BY StepBalancer
<1> QED
    BY <1>1, InitBalancer, Inductive, PTL DEF Spec

\* Pick gives every instance of the list its share, whatever the weights and however
\* ties are broken.
THEOREM EveryInstanceGetsItsShare == Spec => []FairShares
<1>1. ASSUME BalancerInv, NEW i \in balanced
      PROVE  /\ turns = 0 => current[i] = 0
             /\ picks[i] <= parseWeight(i)
  <2> DEFINE T == Total(balanced)
             w == parseWeight(i)
             r == picks[i]
  <2>1. T \in Nat /\ T >= 1 /\ w \in Nat /\ w >= 1 /\ r \in Nat /\ turns \in Nat /\ turns < T
      BY <1>1, TotalIsSum, WeightPositive DEF BalancerInv
  <2>2. current[i] = turns * w - T * r /\ current[i] > -T
      BY <1>1 DEF BalancerInv, Settled
  <2> HIDE DEF T, w, r
  <2>3. turns * w <= T * w
      BY <2>1
  <2>4. T * (w - r) > -T
    <3>1. T * w - T * r > -T
        BY <2>1, <2>2, <2>3
    <3> QED
        BY <2>1, <3>1, Products
  <2>5. r <= w
      BY <2>1, <2>4
  <2>6. ASSUME turns = 0 PROVE current[i] = 0
    <3>1. T * (0 - r) > -T /\ current[i] = T * (0 - r)
        BY <2>1, <2>2, <2>6, Products
    <3>2. r = 0
        BY <2>1, <3>1
    <3> QED
        BY <2>1, <3>1, <3>2
  <2> QED
      BY <2>5, <2>6 DEF w, r
<1>2. BalancerInv => FairShares
    BY <1>1 DEF BalancerInv, Settled, FairShares
<1> QED
    BY <1>2, BalancerInductive, PTL

=============================================================================
