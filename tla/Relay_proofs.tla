---------------------------- MODULE Relay_proofs ----------------------------
(***************************************************************************)
(* Proofs about ConnManager, for any number of users and connections and   *)
(* every limit, and about the relay that reads its lists and closes its    *)
(* sockets, for any frames and any capacity.  The first part joins the     *)
(* three statements about the indexes with what is known of a connection   *)
(* that was never added.  The second shows that the relay's steps are the  *)
(* table's or none, so that all of it holds beside the relay, and adds     *)
(* whom a connection was ever bound to and what is still owed to each.     *)
(***************************************************************************)
EXTENDS Relay, TLAPS

\* A connection that was never added appears nowhere.
FreshIsUnknown ==
    \A c \in Conns : Fresh(c) =>
        /\ c \notin bySnow
        /\ c \notin evicted \cup closing \cup closed
        /\ userOf[c] = NoUser

IInv ==
    /\ TypeOK
    /\ FreshIsUnknown
    /\ IndexesAgree
    /\ RegisteredIffOpen
    /\ LegacyIsOwnOrMoved

(***************************************************************************)
(* Lemmas on the operators.                                                *)
(***************************************************************************)

\* An eviction hits only connections of the user, and none where there is no limit.
LEMMA EvictedOwn ==
    ASSUME NEW u \in Users
    PROVE  /\ Evicted(u) \subseteq byUser[u]
           /\ MaxPerUser = 0 => Evicted(u) = {}
    BY MaxPerUserAssumption DEF Evicted

\* What the older index may hold after some connections left a list.
LEMMA RelinkEntry ==
    ASSUME NEW old, NEW gone, NEW kept, NEW e \in Relink(old, gone, kept)
    PROVE  \/ e = old /\ old \notin gone
           \/ e \in kept
           \/ e = NoConn /\ kept = {}
    BY DEF Relink

\* A new connection gets a stamp of its own and is fresh no more.
LEMMA StampKeeps ==
    ASSUME TypeOK, NEW c \in Conns, Stamp(c)
    PROVE  /\ clock' \in Nat
           /\ created' \in [Conns -> 0 .. clock']
           /\ created'[c] # 0
           /\ \A d \in Conns : d # c => created'[d] = created[d]
    BY DEF TypeOK, Stamp

\* What Join leaves in the older index.
LEMMA JoinEntry ==
    ASSUME IInv, NEW c \in Conns, NEW u \in Users, Join(c, u)
    PROVE  /\ conns' \in [Users -> Conns \cup {NoConn}]
           /\ \A v \in Users : v # u => conns'[v] = conns[v]
           /\ conns'[u] # NoConn
           /\ \/ conns'[u] = c
              \/ conns'[u] \in byUser[u] \ Evicted(u)
              \/ conns'[u] = conns[u] /\ conns[u] \notin Evicted(u)
           /\ evicted' = evicted \cup Evicted(u)
<1>1. PICK e \in Relink(conns[u], Evicted(u), byUser[u] \ Evicted(u)) :
          /\ conns' = [conns EXCEPT ![u] = IF e = NoConn THEN c ELSE e]
          /\ evicted' = evicted \cup Evicted(u)
    BY DEF Join
<1>2. \/ e = conns[u] /\ conns[u] \notin Evicted(u)
      \/ e \in byUser[u] \ Evicted(u)
      \/ e = NoConn
    BY RelinkEntry
<1>3. /\ conns \in [Users -> Conns \cup {NoConn}]
      /\ byUser[u] \subseteq Conns
    BY DEF IInv, TypeOK
<1>4. (IF e = NoConn THEN c ELSE e) \in Conns
    BY <1>2, <1>3, DistinctAssumption
<1> QED
    BY <1>1, <1>2, <1>3, <1>4, DistinctAssumption

\* A connection that joins u's list: the three indexes afterwards.
LEMMA JoinKeepsIndexes ==
    ASSUME IInv, NEW c \in Conns, NEW u \in Users,
           Join(c, u),
           \/ c \in bySnow /\ bySnow' = bySnow \ Evicted(u)
           \/ bySnow' = (bySnow \ Evicted(u)) \cup {c},
           byUser' = ListsWith(c, u),
           userOf' = [userOf EXCEPT ![c] = u]
    PROVE  /\ bySnow' \in SUBSET Conns
           /\ byUser' \in [Users -> SUBSET Conns]
           /\ userOf' \in [Conns -> Users \cup {NoUser}]
           /\ evicted' \in SUBSET Conns
           /\ IndexesAgree'
           /\ LegacyIsOwnOrMoved'
<1> DEFINE E == Evicted(u)
<1>1. E \subseteq byUser[u]
    BY EvictedOwn
<1>2. /\ byUser \in [Users -> SUBSET Conns]
      /\ userOf \in [Conns -> Users \cup {NoUser}]
      /\ bySnow \in SUBSET Conns /\ evicted \in SUBSET Conns
    BY DEF IInv, TypeOK
<1>3. /\ \A v \in Users : byUser'[v] =
             IF v = u THEN (byUser[v] \ E) \cup {c}
             ELSE IF v = userOf[c] THEN byUser[v] \ {c} ELSE byUser[v]
      /\ byUser' \in [Users -> SUBSET Conns]
    BY <1>2 DEF ListsWith
<1>4. /\ userOf' \in [Conns -> Users \cup {NoUser}]
      /\ userOf'[c] = u
      /\ \A d \in Conns : d # c => userOf'[d] = userOf[d]
    BY <1>2
<1>5. evicted' = evicted \cup E
    BY JoinEntry
<1>6. /\ \A d \in bySnow : userOf[d] # NoUser => d \in byUser[userOf[d]]
      /\ \A v \in Users : \A d \in byUser[v] :
             userOf[d] = v /\ (d \in bySnow \/ d \in evicted)
    BY DEF IInv, IndexesAgree
<1>7. IndexesAgree'
  <2>1. ASSUME NEW d \in bySnow', userOf'[d] # NoUser
        PROVE  d \in byUser'[userOf'[d]]
    <3>1. CASE d = c
        BY <3>1, <1>3, <1>4
    <3>2. CASE d # c
      <4>1. d \in bySnow /\ d \notin E /\ d \in Conns
          BY <3>2, <1>2, <2>1
      <4>2. userOf[d] \in Users /\ d \in byUser[userOf[d]] /\ userOf'[d] = userOf[d]
          BY <4>1, <3>2, <2>1, <1>2, <1>4, <1>6
      <4> QED
          BY <4>1, <4>2, <3>2, <1>3
    <3> QED
        BY <3>1, <3>2
  <2>2. ASSUME NEW v \in Users, NEW d \in byUser'[v]
        PROVE  userOf'[d] = v /\ (d \in bySnow' \/ d \in evicted')
    <3>1. CASE d = c
      <4>1. v = u
        <5> SUFFICES ASSUME v # u PROVE FALSE
            OBVIOUS
        <5>1. d \in byUser[v] /\ v # userOf[c]
            BY <3>1, <2>2, <1>3
        <5> QED
            BY <5>1, <3>1, <1>6
      <4>2. d \in bySnow' \/ d \in evicted'
          BY <3>1, <1>5
      <4> QED
          BY <4>1, <4>2, <3>1, <1>4
    <3>2. CASE d # c
      <4>1. d \in byUser[v] /\ (v = u => d \notin E)
          BY <3>2, <2>2, <1>3
      <4>2. userOf[d] = v /\ d \in Conns
          BY <4>1, <1>2, <1>6
      <4>3. d \notin E
          BY <4>1, <4>2, <1>1, <1>6
      <4> QED
          BY <4>1, <4>2, <4>3, <3>2, <1>4, <1>5, <1>6
    <3> QED
        BY <3>1, <3>2
  <2> QED
      BY <2>1, <2>2 DEF IndexesAgree
<1>8. LegacyIsOwnOrMoved'
  <2> SUFFICES ASSUME NEW v \in Users
               PROVE  /\ conns'[v] = NoConn => byUser'[v] = {}
                      /\ conns'[v] # NoConn =>
                            conns'[v] \in byUser'[v] \/ userOf'[conns'[v]] # v
      BY DEF LegacyIsOwnOrMoved
  <2>1. /\ conns[v] = NoConn => byUser[v] = {}
        /\ conns[v] # NoConn => conns[v] \in byUser[v] \/ userOf[conns[v]] # v
        /\ conns[v] \in Conns \cup {NoConn}
      BY DEF IInv, LegacyIsOwnOrMoved, TypeOK
  <2>2. CASE v = u
    <3>1. /\ conns'[u] # NoConn
          /\ \/ conns'[u] = c
             \/ conns'[u] \in byUser[u] \ E
             \/ conns'[u] = conns[u] /\ conns[u] \notin E
        BY JoinEntry
    <3>2. byUser'[u] = (byUser[u] \ E) \cup {c}
        BY <1>3
    <3>3. CASE conns'[u] = c \/ conns'[u] \in byUser[u] \ E
        BY <3>1, <3>2, <3>3, <2>2
    <3>4. CASE conns'[u] = conns[u] /\ conns[u] \notin E /\ conns[u] # c
        BY <3>1, <3>2, <3>4, <2>1, <2>2, <1>4
    <3> QED
        BY <3>1, <3>3, <3>4
  <2>3. CASE v # u
    <3>1. conns'[v] = conns[v]
        BY <2>3, JoinEntry
    <3>2. byUser'[v] = IF v = userOf[c] THEN byUser[v] \ {c} ELSE byUser[v]
        BY <2>3, <1>3
    <3>3. CASE conns[v] = c
        BY <3>1, <3>2, <3>3, <2>1, <2>3, <1>4
    <3>4. CASE conns[v] # c
        BY <3>1, <3>2, <3>4, <2>1, <1>4
    <3> QED
        BY <3>3, <3>4
  <2> QED
      BY <2>2, <2>3
<1> QED
    BY <1>1, <1>2, <1>3, <1>4, <1>5, <1>7, <1>8

\* Removing registered connections from everywhere: the three indexes afterwards.
LEMMA DropKeepsIndexes ==
    ASSUME IInv, NEW gone \in SUBSET bySnow, Drop(gone), UNCHANGED evicted
    PROVE  /\ bySnow' = bySnow \ gone
           /\ byUser' \in [Users -> SUBSET Conns]
           /\ conns' \in [Users -> Conns \cup {NoConn}]
           /\ userOf' = userOf
           /\ IndexesAgree'
           /\ LegacyIsOwnOrMoved'
<1> DEFINE own(u) == {c \in gone : userOf[c] = u}
           left(u) == byUser[u] \ own(u)
<1>1. /\ bySnow' = bySnow \ gone
      /\ byUser' = [u \in Users |-> left(u)]
      /\ conns' \in [Users -> Conns \cup {NoConn}]
      /\ \A u \in Users : conns'[u] \in Relink(conns[u], own(u), left(u))
      /\ userOf' = userOf
    BY DEF Drop
<1>2. byUser \in [Users -> SUBSET Conns]
    BY DEF IInv, TypeOK
<1>3. byUser' \in [Users -> SUBSET Conns] /\ \A u \in Users : byUser'[u] = left(u)
    BY <1>1, <1>2
<1>4. /\ \A d \in bySnow : userOf[d] # NoUser => d \in byUser[userOf[d]]
      /\ \A v \in Users : \A d \in byUser[v] :
             userOf[d] = v /\ (d \in bySnow \/ d \in evicted)
    BY DEF IInv, IndexesAgree
<1>5. IndexesAgree'
  <2>1. ASSUME NEW d \in bySnow', userOf'[d] # NoUser
        PROVE  d \in byUser'[userOf'[d]]
    <3>1. d \in bySnow /\ d \notin gone /\ userOf[d] # NoUser
        BY <1>1, <2>1
    <3>2. userOf[d] \in Users
        BY <3>1 DEF IInv, TypeOK
    <3> QED
        BY <3>1, <3>2, <1>1, <1>3, <1>4
  <2>2. ASSUME NEW v \in Users, NEW d \in byUser'[v]
        PROVE  userOf'[d] = v /\ (d \in bySnow' \/ d \in evicted')
      BY <1>1, <1>3, <1>4, <2>2
  <2> QED
      BY <2>1, <2>2 DEF IndexesAgree
<1>6. LegacyIsOwnOrMoved'
  <2> SUFFICES ASSUME NEW v \in Users
               PROVE  /\ conns'[v] = NoConn => byUser'[v] = {}
                      /\ conns'[v] # NoConn =>
                            conns'[v] \in byUser'[v] \/ userOf'[conns'[v]] # v
      BY DEF LegacyIsOwnOrMoved
  <2>1. /\ conns[v] = NoConn => byUser[v] = {}
        /\ conns[v] # NoConn => conns[v] \in byUser[v] \/ userOf[conns[v]] # v
      BY DEF IInv, LegacyIsOwnOrMoved
  <2>2. conns'[v] \in Relink(conns[v], own(v), left(v))
      BY <1>1
  <2>3. CASE conns'[v] = conns[v] /\ conns[v] \notin own(v)
      BY <2>1, <2>3, <1>1, <1>3
  <2>4. CASE conns'[v] \in left(v)
    <3>1. conns'[v] # NoConn
        BY <2>4, <1>2, DistinctAssumption
    <3> QED
        BY <3>1, <2>4, <1>3
  <2>5. CASE conns'[v] = NoConn /\ left(v) = {}
      BY <2>5, <1>3
  <2>6. \/ conns'[v] = conns[v] /\ conns[v] \notin own(v)
        \/ conns'[v] \in left(v)
        \/ conns'[v] = NoConn /\ left(v) = {}
      BY <2>2, RelinkEntry
  <2> QED
      BY <2>3, <2>4, <2>5, <2>6
<1> QED
    BY <1>1, <1>3, <1>5, <1>6

(***************************************************************************)
(* Initially, and across each operation.                                   *)
(***************************************************************************)
LEMMA InvInit == Init => IInv
<1> SUFFICES ASSUME Init
             PROVE  IInv
    OBVIOUS
<1>1. TypeOK
  <2>1. clock \in Nat /\ created \in [Conns -> 0 .. clock]
      BY DEF Init
  <2>2. /\ byUser \in [Users -> SUBSET Conns]
        /\ conns \in [Users -> Conns \cup {NoConn}]
        /\ userOf \in [Conns -> Users \cup {NoUser}]
      BY DEF Init
  <2> QED
      BY <2>1, <2>2 DEF Init, TypeOK
<1>2. FreshIsUnknown
    BY DEF Init, FreshIsUnknown
<1>3. IndexesAgree /\ RegisteredIffOpen
    BY DEF Init, IndexesAgree, RegisteredIffOpen, Fresh
<1>4. LegacyIsOwnOrMoved
    BY DEF Init, LegacyIsOwnOrMoved
<1> QED
    BY <1>1, <1>2, <1>3, <1>4 DEF IInv

LEMMA AddUnauthStep ==
    ASSUME IInv, NEW c \in Conns, AddUnauth(c)
    PROVE  IInv'
<1>1. /\ clock' \in Nat
      /\ created' \in [Conns -> 0 .. clock']
      /\ created'[c] # 0
      /\ \A d \in Conns : d # c => created'[d] = created[d]
    BY StampKeeps DEF IInv, AddUnauth
<1>2. TypeOK'
    BY <1>1 DEF IInv, TypeOK, AddUnauth
<1>3. /\ FreshIsUnknown'
      /\ RegisteredIffOpen'
    BY <1>1 DEF IInv, FreshIsUnknown, RegisteredIffOpen, Fresh, AddUnauth
<1>4. IndexesAgree'
    BY DEF IInv, FreshIsUnknown, IndexesAgree, AddUnauth
<1>5. LegacyIsOwnOrMoved'
    BY DEF IInv, LegacyIsOwnOrMoved, AddUnauth
<1> QED
    BY <1>2, <1>3, <1>4, <1>5 DEF IInv

LEMMA AddStep ==
    ASSUME IInv, NEW u \in Users, NEW c \in Conns, Add(u, c)
    PROVE  IInv'
<1>1. /\ clock' \in Nat
      /\ created' \in [Conns -> 0 .. clock']
      /\ created'[c] # 0
      /\ \A d \in Conns : d # c => created'[d] = created[d]
    BY StampKeeps DEF IInv, Add
<1>2. TypeOK'
    BY <1>1 DEF IInv, TypeOK, Add
<1>3. \A v \in Users : c \notin byUser[v]
    BY DistinctAssumption DEF IInv, FreshIsUnknown, IndexesAgree, Add
<1>4. FreshIsUnknown'
  <2> SUFFICES ASSUME NEW d \in Conns, Fresh(d)'
               PROVE  /\ d \notin bySnow'
                      /\ d \notin (evicted \cup closing \cup closed)'
                      /\ userOf'[d] = NoUser
      BY DEF FreshIsUnknown
  <2>1. d # c /\ Fresh(d)
      BY <1>1 DEF Fresh
  <2>2. d \notin byUser[u]
      BY <2>1, DistinctAssumption DEF IInv, FreshIsUnknown, IndexesAgree
  <2> QED
      BY <2>1, <2>2 DEF IInv, TypeOK, FreshIsUnknown, Add
<1>5. RegisteredIffOpen'
    BY <1>1, <1>3 DEF IInv, FreshIsUnknown, RegisteredIffOpen, Fresh, Add
<1>6. /\ byUser' = [byUser EXCEPT ![u] = {c}]
      /\ conns' = [conns EXCEPT ![u] = c]
      /\ userOf' = [userOf EXCEPT ![c] = u]
      /\ bySnow' = (bySnow \ byUser[u]) \cup {c}
      /\ evicted' = evicted
    BY DEF Add
<1>7. IndexesAgree'
  <2>1. ASSUME NEW d \in bySnow', userOf'[d] # NoUser
        PROVE  d \in byUser'[userOf'[d]]
    <3>1. CASE d = c
        BY <3>1, <1>6 DEF IInv, TypeOK
    <3>2. CASE d # c
        BY <3>2, <2>1, <1>6 DEF IInv, TypeOK, IndexesAgree
    <3> QED
        BY <3>1, <3>2
  <2>2. ASSUME NEW v \in Users, NEW d \in byUser'[v]
        PROVE  userOf'[d] = v /\ (d \in bySnow' \/ d \in evicted')
    <3>1. CASE v = u
        BY <3>1, <2>2, <1>6 DEF IInv, TypeOK
    <3>2. CASE v # u
      <4>1. d \in byUser[v] /\ d \in Conns /\ d # c
          BY <3>2, <2>2, <1>3, <1>6 DEF IInv, TypeOK
      <4>2. d \notin byUser[u]
          BY <4>1, <3>2 DEF IInv, IndexesAgree
      <4> QED
          BY <4>1, <4>2, <1>6 DEF IInv, TypeOK, IndexesAgree
    <3> QED
        BY <3>1, <3>2
  <2> QED
      BY <2>1, <2>2 DEF IndexesAgree
<1>8. LegacyIsOwnOrMoved'
  <2> SUFFICES ASSUME NEW v \in Users
               PROVE  /\ conns'[v] = NoConn => byUser'[v] = {}
                      /\ conns'[v] # NoConn =>
                            conns'[v] \in byUser'[v] \/ userOf'[conns'[v]] # v
      BY DEF LegacyIsOwnOrMoved
  <2>1. CASE v = u
      BY <2>1, <1>6, DistinctAssumption DEF IInv, TypeOK
  <2>2. CASE v # u
      BY <2>2, <1>6 DEF IInv, TypeOK, LegacyIsOwnOrMoved
  <2> QED
      BY <2>1, <2>2
<1> QED
    BY <1>2, <1>4, <1>5, <1>7, <1>8 DEF IInv

LEMMA AddAuthorizedStep ==
    ASSUME IInv, NEW u \in Users, NEW c \in Conns, AddAuthorized(u, c)
    PROVE  IInv'
<1>1. /\ clock' \in Nat
      /\ created' \in [Conns -> 0 .. clock']
      /\ created'[c] # 0
      /\ \A d \in Conns : d # c => created'[d] = created[d]
    BY StampKeeps DEF IInv, AddAuthorized
<1>2. /\ Evicted(u) \subseteq byUser[u]
      /\ \A v \in Users : c \notin byUser[v]
    BY EvictedOwn, DistinctAssumption
    DEF IInv, FreshIsUnknown, IndexesAgree, AddAuthorized
<1>3. /\ bySnow' \in SUBSET Conns
      /\ byUser' \in [Users -> SUBSET Conns]
      /\ userOf' \in [Conns -> Users \cup {NoUser}]
      /\ evicted' \in SUBSET Conns
      /\ IndexesAgree'
      /\ LegacyIsOwnOrMoved'
    BY JoinKeepsIndexes DEF AddAuthorized
<1>4. /\ conns' \in [Users -> Conns \cup {NoConn}]
      /\ evicted' = evicted \cup Evicted(u)
    BY JoinEntry DEF AddAuthorized
<1>5. TypeOK'
    BY <1>1, <1>3, <1>4 DEF IInv, TypeOK, AddAuthorized
<1>6. FreshIsUnknown'
  <2> SUFFICES ASSUME NEW d \in Conns, Fresh(d)'
               PROVE  /\ d \notin bySnow'
                      /\ d \notin (evicted \cup closing \cup closed)'
                      /\ userOf'[d] = NoUser
      BY DEF FreshIsUnknown
  <2>1. d # c /\ Fresh(d)
      BY <1>1 DEF Fresh
  <2>2. d \notin byUser[u]
      BY <2>1, DistinctAssumption DEF IInv, FreshIsUnknown, IndexesAgree
  <2> QED
      BY <2>1, <2>2, <1>2, <1>4 DEF IInv, TypeOK, FreshIsUnknown, AddAuthorized
<1>7. RegisteredIffOpen'
    BY <1>1, <1>2, <1>4 DEF IInv, FreshIsUnknown, RegisteredIffOpen, Fresh, AddAuthorized
<1> QED
    BY <1>3, <1>5, <1>6, <1>7 DEF IInv

LEMMA BindUserStep ==
    ASSUME IInv, NEW c \in Conns, NEW u \in Users, BindUser(c, u)
    PROVE  IInv'
<1>1. /\ bySnow' \in SUBSET Conns
      /\ byUser' \in [Users -> SUBSET Conns]
      /\ userOf' \in [Conns -> Users \cup {NoUser}]
      /\ evicted' \in SUBSET Conns
      /\ IndexesAgree'
      /\ LegacyIsOwnOrMoved'
    BY JoinKeepsIndexes DEF BindUser
<1>2. /\ conns' \in [Users -> Conns \cup {NoConn}]
      /\ evicted' = evicted \cup Evicted(u)
    BY JoinEntry DEF BindUser
<1>3. TypeOK'
    BY <1>1, <1>2 DEF IInv, TypeOK, BindUser
<1>4. FreshIsUnknown'
  <2> SUFFICES ASSUME NEW d \in Conns, Fresh(d)'
               PROVE  /\ d \notin bySnow'
                      /\ d \notin (evicted \cup closing \cup closed)'
                      /\ userOf'[d] = NoUser
      BY DEF FreshIsUnknown
  <2>1. d # c /\ Fresh(d)
      BY DEF Fresh, BindUser, IInv, FreshIsUnknown
  <2>2. d \notin byUser[u] /\ Evicted(u) \subseteq byUser[u]
      BY <2>1, EvictedOwn, DistinctAssumption DEF IInv, FreshIsUnknown, IndexesAgree
  <2> QED
      BY <2>1, <2>2, <1>2 DEF IInv, TypeOK, FreshIsUnknown, BindUser
<1>5. RegisteredIffOpen'
    BY <1>2 DEF IInv, RegisteredIffOpen, Fresh, BindUser
<1> QED
    BY <1>1, <1>3, <1>4, <1>5 DEF IInv

LEMMA RemoveBySnowStep ==
    ASSUME IInv, NEW c \in Conns, RemoveBySnow(c)
    PROVE  IInv'
<1>1. /\ bySnow' = bySnow \ {c}
      /\ byUser' \in [Users -> SUBSET Conns]
      /\ conns' \in [Users -> Conns \cup {NoConn}]
      /\ userOf' = userOf
      /\ IndexesAgree'
      /\ LegacyIsOwnOrMoved'
    BY DropKeepsIndexes DEF RemoveBySnow
<1>2. TypeOK'
    BY <1>1 DEF IInv, TypeOK, RemoveBySnow
<1>3. FreshIsUnknown' /\ RegisteredIffOpen'
    BY <1>1 DEF IInv, FreshIsUnknown, RegisteredIffOpen, Fresh, RemoveBySnow
<1> QED
    BY <1>1, <1>2, <1>3 DEF IInv

LEMMA SweepStep ==
    ASSUME IInv, sweepOnce
    PROVE  IInv'
<1>1. /\ bySnow' = bySnow \ (bySnow \cap expired)
      /\ byUser' \in [Users -> SUBSET Conns]
      /\ conns' \in [Users -> Conns \cup {NoConn}]
      /\ userOf' = userOf
      /\ IndexesAgree'
      /\ LegacyIsOwnOrMoved'
    BY DropKeepsIndexes DEF sweepOnce
<1>2. TypeOK'
    BY <1>1 DEF IInv, TypeOK, sweepOnce
<1>3. FreshIsUnknown' /\ RegisteredIffOpen'
    BY <1>1 DEF IInv, FreshIsUnknown, RegisteredIffOpen, Fresh, sweepOnce
<1> QED
    BY <1>1, <1>2, <1>3 DEF IInv

LEMMA RemoveStep ==
    ASSUME IInv, NEW u \in Users, Remove(u)
    PROVE  IInv'
<1>1. TypeOK'
    BY DEF IInv, TypeOK, Remove
<1>2. FreshIsUnknown'
  <2>1. \A d \in byUser[u] : userOf[d] # NoUser
      BY DistinctAssumption DEF IInv, IndexesAgree
  <2> QED
      BY <2>1 DEF IInv, FreshIsUnknown, Fresh, Remove
<1>3. RegisteredIffOpen'
    BY DEF IInv, RegisteredIffOpen, Fresh, Remove
<1>4. IndexesAgree'
    BY DEF IInv, TypeOK, IndexesAgree, Remove
<1>5. LegacyIsOwnOrMoved'
    BY DEF IInv, TypeOK, LegacyIsOwnOrMoved, Remove
<1> QED
    BY <1>1, <1>2, <1>3, <1>4, <1>5 DEF IInv

LEMMA KickAllUnauthStep ==
    ASSUME IInv, KickAllUnauth
    PROVE  IInv'
<1>1. TypeOK'
    BY DEF IInv, TypeOK, KickAllUnauth
<1>2. FreshIsUnknown' /\ RegisteredIffOpen'
    BY DEF IInv, FreshIsUnknown, RegisteredIffOpen, Fresh, KickAllUnauth
<1>3. IndexesAgree'
    BY DistinctAssumption DEF IInv, IndexesAgree, KickAllUnauth
<1>4. LegacyIsOwnOrMoved'
    BY DEF IInv, LegacyIsOwnOrMoved, KickAllUnauth
<1> QED
    BY <1>1, <1>2, <1>3, <1>4 DEF IInv

LEMMA CloseStep ==
    ASSUME IInv, Close
    PROVE  IInv'
<1>1. TypeOK'
    BY DEF IInv, TypeOK, Close
<1>2. FreshIsUnknown' /\ RegisteredIffOpen'
    BY DEF IInv, FreshIsUnknown, RegisteredIffOpen, Fresh, Close
<1>3. IndexesAgree' /\ LegacyIsOwnOrMoved'
    BY DEF IndexesAgree, LegacyIsOwnOrMoved, Close
<1> QED
    BY <1>1, <1>2, <1>3 DEF IInv

\* The steps that leave the indexes alone.
LEMMA OtherStep ==
    ASSUME IInv, UNCHANGED <<index, clock, created, evicted>>,
           expired' \in SUBSET Conns, closing' \in SUBSET Conns, closed' \in SUBSET Conns,
           stopped' \in BOOLEAN,
           (evicted \cup closing \cup closed)' = evicted \cup closing \cup closed
    PROVE  IInv'
    BY DEF IInv, TypeOK, FreshIsUnknown, IndexesAgree, RegisteredIffOpen,
           LegacyIsOwnOrMoved, Fresh, index

LEMMA InvStep == IInv /\ [Next]_vars => IInv'
<1> SUFFICES ASSUME IInv, [Next]_vars
             PROVE  IInv'
    OBVIOUS
<1>1. ASSUME NEW c \in Conns, AddUnauth(c) PROVE IInv'
    BY <1>1, AddUnauthStep
<1>2. ASSUME NEW u \in Users, NEW c \in Conns, Add(u, c) PROVE IInv'
    BY <1>2, AddStep
<1>3. ASSUME NEW u \in Users, NEW c \in Conns, AddAuthorized(u, c) PROVE IInv'
    BY <1>3, AddAuthorizedStep
<1>4. ASSUME NEW c \in Conns, NEW u \in Users, BindUser(c, u) PROVE IInv'
    BY <1>4, BindUserStep
<1>5. ASSUME NEW c \in Conns, Heartbeat(c) PROVE IInv'
    BY <1>5, OtherStep DEF Heartbeat, IInv, TypeOK
<1>6. ASSUME NEW c \in Conns, RemoveBySnow(c) PROVE IInv'
    BY <1>6, RemoveBySnowStep
<1>7. ASSUME NEW u \in Users, Remove(u) PROVE IInv'
    BY <1>7, RemoveStep
<1>8. ASSUME KickAllUnauth PROVE IInv'
    BY <1>8, KickAllUnauthStep
<1>9. ASSUME NEW c \in Conns, Expire(c) PROVE IInv'
    BY <1>9, OtherStep DEF Expire, IInv, TypeOK
<1>10. ASSUME sweepOnce PROVE IInv'
    BY <1>10, SweepStep
<1>11. ASSUME NEW c \in Conns, CloseSwept(c) PROVE IInv'
    BY <1>11, OtherStep DEF CloseSwept, IInv, TypeOK
<1>12. ASSUME NEW c \in Conns, CloseEvicted(c) PROVE IInv'
    BY <1>12, OtherStep DEF CloseEvicted, IInv, TypeOK
<1>13. ASSUME Close PROVE IInv'
    BY <1>13, CloseStep
<1>14. ASSUME UNCHANGED vars PROVE IInv'
    BY <1>14, OtherStep DEF vars, IInv, TypeOK
<1> QED
    BY <1>1, <1>2, <1>3, <1>4, <1>5, <1>6, <1>7, <1>8, <1>9, <1>10, <1>11, <1>12,
       <1>13, <1>14 DEF Next

(***************************************************************************)
(* The theorems.                                                           *)
(***************************************************************************)

\* The invariant holds in every reachable state.
THEOREM Inductive == Spec => []IInv
    BY InvInit, InvStep, PTL DEF Spec

\* The state keeps its types.
THEOREM TypeCorrect == Spec => []TypeOK
<1>1. IInv => TypeOK
    BY DEF IInv
<1> QED
    BY <1>1, Inductive, PTL

\* bySnow and byUser tell the same of every connection, whatever is added, bound
\* again, removed, swept or evicted.
THEOREM IndexesStayInStep == Spec => []IndexesAgree
<1>1. IInv => IndexesAgree
    BY DEF IInv
<1> QED
    BY <1>1, Inductive, PTL

\* A socket that leaves the table is closed or about to be, and no closed one is
\* in it.
THEOREM NoSocketLeaks == Spec => []RegisteredIffOpen
<1>1. IInv => RegisteredIffOpen
    BY DEF IInv
<1> QED
    BY <1>1, Inductive, PTL

\* The older index points into the user's list, or at a connection that was bound
\* to somebody else.
THEOREM LegacyIndexIsKept == Spec => []LegacyIsOwnOrMoved
<1>1. IInv => LegacyIsOwnOrMoved
    BY DEF IInv
<1> QED
    BY <1>1, Inductive, PTL

\* What holds besides without a limit.
NothingEvicted == evicted = {}

ListsAreLive ==
    \A u \in Users : \A c \in byUser[u] :
        userOf[c] = u /\ c \in bySnow /\ c \notin closing \cup closed

\* Without a limit, which is how the gateway runs, a user's list holds nothing but
\* registered connections of the user, none of them closed.
THEOREM UnlimitedListsAreLive ==
    ASSUME MaxPerUser = 0
    PROVE  Spec => []ListsAreLive
<1> USE DEF NothingEvicted
<1>1. Init => NothingEvicted
    BY DEF Init
<1>2. IInv /\ NothingEvicted /\ [Next]_vars => NothingEvicted'
  <2> SUFFICES ASSUME IInv, evicted = {}, [Next]_vars
               PROVE  evicted' = {}
      OBVIOUS
  <2>1. ASSUME NEW u \in Users, NEW c \in Conns, Join(c, u) PROVE evicted' = {}
      BY <2>1, EvictedOwn, JoinEntry
  <2>2. ASSUME NEW u \in Users, NEW c \in Conns, AddAuthorized(u, c) PROVE evicted' = {}
      BY <2>1, <2>2 DEF AddAuthorized
  <2>3. ASSUME NEW u \in Users, NEW c \in Conns, BindUser(c, u) PROVE evicted' = {}
      BY <2>1, <2>3 DEF BindUser
  <2> QED
      BY <2>2, <2>3 DEF Next, AddUnauth, Add, Heartbeat, RemoveBySnow, Remove,
         KickAllUnauth, Expire, sweepOnce, CloseSwept, CloseEvicted, Close, vars
<1>3. IInv /\ NothingEvicted => ListsAreLive
  <2> SUFFICES ASSUME IInv, evicted = {}, NEW u \in Users, NEW c \in byUser[u]
               PROVE  userOf[c] = u /\ c \in bySnow /\ c \notin closing \cup closed
      BY DEF ListsAreLive
  <2>1. userOf[c] = u /\ c \in bySnow /\ c \in Conns
      BY DEF IInv, TypeOK, IndexesAgree
  <2>2. ~Fresh(c)
      BY <2>1 DEF IInv, FreshIsUnknown
  <2> QED
      BY <2>1, <2>2 DEF IInv, RegisteredIffOpen
<1> HIDE DEF NothingEvicted
<1> QED
    BY <1>1, <1>2, <1>3, Inductive, PTL DEF Spec

(***************************************************************************)
(* The relay: its invariant.                                               *)
(***************************************************************************)

\* Whoever a list, the older index or a WsConn connects with a user was bound to it.
BoundBefore ==
    /\ past \in [Conns -> SUBSET Users]
    /\ \A c \in Conns : userOf[c] # NoUser => userOf[c] \in past[c]
    /\ \A u \in Users : conns[u] # NoConn => u \in past[conns[u]]

\* A frame is with one worker, in the channel once, or taken out.
FramesMoveOn ==
    /\ held \subseteq Frames /\ taken \subseteq Frames
    /\ queue \in Seq(Frames)
    /\ \A i, j \in DOMAIN queue : queue[i] = queue[j] => i = j
    /\ (held \cup Queued) \cap taken = {} /\ held \cap Queued = {}

\* What the goroutine has before it.
InHand ==
    /\ frame = {} \/ \E f \in taken : frame = {f}
    /\ first \in Conns \cup {NoConn} /\ rest \subseteq Conns
    /\ frame = {} => first = NoConn /\ rest = {}
    /\ \A f \in frame, c \in Conns : c = first \/ c \in rest => To[f] \in past[c]

\* The times c is still to get f.
Pending(f, c) ==
    IF f \in frame THEN (IF c = first THEN 1 ELSE 0) + (IF c \in rest THEN 1 ELSE 0) ELSE 0

Owed(f, c) == sent[f][c] + Pending(f, c)

\* What was written and what is still to be written are within the bounds, and went
\* to connections of the addressee.
Delivery ==
    /\ sent \in [Frames -> [Conns -> Nat]]
    /\ \A f \in Frames :
          /\ f \notin taken => \A c \in Conns : sent[f][c] = 0
          /\ \A c \in Conns : sent[f][c] > 0 => To[f] \in past[c]
          /\ Sid[f] # NoConn => \A c \in Conns : Owed(f, c) <= (IF c = Sid[f] THEN 1 ELSE 0)
          /\ \A c, d \in Conns :
                /\ Owed(f, c) <= 2
                /\ Owed(f, c) = 2 /\ Owed(f, d) = 2 => c = d

RelayInv ==
    /\ IInv
    /\ BoundBefore
    /\ FramesMoveOn
    /\ InHand
    /\ Delivery
    /\ broken \subseteq Conns
    /\ closing \subseteq expired
    /\ ClosedForItsUser

-----------------------------------------------------------------------------
(* The table beside the relay *)

\* Each step of the relay and of the connections is one of the table's, or none.
LEMMA TableStep == [RelayNext]_allVars => [Next]_vars
<1> SUFFICES ASSUME [RelayNext]_allVars
             PROVE  [Next]_vars
    OBVIOUS
<1>1. ASSUME NEW f \in Frames,
             \/ Receive(f) \/ RelayMsg(f) \/ TakeForAll(f) \/ TakeForOne(f) \/ Panic(f)
      PROVE  UNCHANGED vars
    BY <1>1 DEF Receive, RelayMsg, TakeForAll, TakeForOne, TakeOut, Panic
<1>2. ASSUME NEW f \in Frames, NEW c \in Conns, Write(f, c)
      PROVE  UNCHANGED vars
    BY <1>2 DEF Write
<1>3. ASSUME NEW f \in Frames, NEW c \in Conns, WriteFails(f, c)
      PROVE  Next
    BY <1>3, RelayAssumption DEF WriteFails, Next
<1>4. ASSUME NEW c \in Conns, Arrive(c) \/ WriterEnds(c)
      PROVE  Next
    BY <1>4 DEF Arrive, WriterEnds, Next
<1>5. ASSUME NEW c \in Conns, NEW u \in Users, Authenticate(c, u)
      PROVE  Next
    BY <1>5 DEF Authenticate, Next
<1>6. ASSUME NEW c \in Conns, PeerLeaves(c)
      PROVE  UNCHANGED vars
    BY <1>6 DEF PeerLeaves
<1>7. CASE UNCHANGED allVars
    BY <1>7 DEF allVars
<1>8. CASE SweepsMeanwhile
    BY <1>8 DEF SweepsMeanwhile, Next
<1> QED
    BY <1>1, <1>2, <1>3, <1>4, <1>5, <1>6, <1>7, <1>8 DEF RelayNext

LEMMA TableInvStep == IInv /\ [RelayNext]_allVars => IInv'
    BY TableStep, InvStep

\* A user's list holds only connections that were bound to it.
LEMMA ListedWereBound ==
    ASSUME IInv, BoundBefore, NEW u \in Users
    PROVE  /\ byUser[u] \subseteq Conns
           /\ \A c \in byUser[u] : u \in past[c]
           /\ conns[u] # NoConn => conns[u] \in Conns /\ u \in past[conns[u]]
<1>1. byUser[u] \subseteq Conns /\ conns[u] \in Conns \cup {NoConn}
    BY DEF IInv, TypeOK
<1>2. \A c \in byUser[u] : userOf[c] = u /\ u # NoUser
    BY DistinctAssumption DEF IInv, IndexesAgree
<1> QED
    BY <1>1, <1>2 DEF BoundBefore

LEMMA BoundKept ==
    ASSUME BoundBefore, UNCHANGED <<conns, userOf, past>>
    PROVE  BoundBefore'
    BY DEF BoundBefore

LEMMA BoundByBind ==
    ASSUME IInv, BoundBefore, NEW c \in Conns, NEW u \in Users, Authenticate(c, u)
    PROVE  BoundBefore' /\ \A d \in Conns : past[d] \subseteq past'[d]
<1>1. /\ past' = [past EXCEPT ![c] = @ \cup {u}]
      /\ userOf' = [userOf EXCEPT ![c] = u]
      /\ Join(c, u)
    BY DEF Authenticate, BindUser
<1>2. /\ past' \in [Conns -> SUBSET Users]
      /\ \A d \in Conns : past'[d] = IF d = c THEN past[d] \cup {u} ELSE past[d]
    BY <1>1 DEF BoundBefore
<1>3. \A d \in Conns : userOf'[d] = IF d = c THEN u ELSE userOf[d]
    BY <1>1 DEF IInv, TypeOK
<1>4. \A d \in Conns : userOf'[d] # NoUser => userOf'[d] \in past'[d]
    BY <1>2, <1>3 DEF BoundBefore
<1>5. /\ \A v \in Users : v # u => conns'[v] = conns[v]
      /\ conns'[u] = c \/ conns'[u] \in byUser[u] \/ conns'[u] = conns[u]
    BY <1>1, JoinEntry
<1>6. ASSUME NEW v \in Users, conns'[v] # NoConn
      PROVE  v \in past'[conns'[v]]
  <2>1. CASE v = u /\ conns'[u] = c
      BY <1>2, <2>1
  <2>2. CASE conns'[v] \in byUser[v] \/ conns'[v] = conns[v]
      BY <1>2, <1>6, <2>2, ListedWereBound
  <2> QED
      BY <1>5, <2>1, <2>2
<1> QED
    BY <1>2, <1>4, <1>6 DEF BoundBefore

LEMMA BoundByRemoval ==
    ASSUME IInv, BoundBefore, UNCHANGED past,
           (\E S \in SUBSET Conns : Drop(S)) \/ (\E u \in Users : Remove(u))
    PROVE  BoundBefore'
<1>1. userOf' = userOf
    BY DEF Drop, Remove
<1>2. ASSUME NEW v \in Users, conns'[v] # NoConn
      PROVE  conns'[v] = conns[v] \/ conns'[v] \in byUser[v]
  <2>1. ASSUME NEW S \in SUBSET Conns, Drop(S)
        PROVE  conns'[v] = conns[v] \/ conns'[v] \in byUser[v]
    <3> DEFINE own == {d \in S : userOf[d] = v}
    <3>1. conns'[v] \in Relink(conns[v], own, byUser[v] \ own)
        BY <2>1 DEF Drop
    <3> HIDE DEF own
    <3> QED
        BY <1>2, <3>1, RelinkEntry
  <2>2. ASSUME NEW u \in Users, Remove(u)
        PROVE  conns'[v] = conns[v]
      BY <1>2, <2>2 DEF Remove, IInv, TypeOK
  <2> QED
      BY <2>1, <2>2
<1>3. \A v \in Users : conns'[v] # NoConn => v \in past[conns'[v]]
    BY <1>2, ListedWereBound
<1> QED
    BY <1>1, <1>3 DEF BoundBefore

\* Across any step: nobody is forgotten to have been bound, no socket is mended.
LEMMA BoundStep ==
    ASSUME IInv, BoundBefore, RelayNext
    PROVE  /\ BoundBefore'
           /\ \A c \in Conns : past[c] \subseteq past'[c]
           /\ broken \subseteq broken'
<1>1. ASSUME NEW f \in Frames,
             \/ Receive(f) \/ RelayMsg(f) \/ TakeForAll(f) \/ TakeForOne(f) \/ Panic(f)
             \/ \E c \in Conns : Write(f, c)
      PROVE  UNCHANGED <<conns, userOf, past, broken>>
    BY <1>1 DEF Receive, RelayMsg, TakeForAll, TakeForOne, TakeOut, Panic, Write, Pass, vars, index
<1>2. ASSUME NEW f \in Frames, NEW c \in Conns, WriteFails(f, c)
      PROVE  Remove(To[f]) /\ To[f] \in Users /\ UNCHANGED past /\ broken \subseteq broken'
    BY <1>2, RelayAssumption DEF WriteFails, Pass
<1>3. ASSUME NEW c \in Conns, Arrive(c) \/ PeerLeaves(c)
      PROVE  UNCHANGED <<conns, userOf, past>> /\ broken \subseteq broken'
    BY <1>3 DEF Arrive, AddUnauth, PeerLeaves, vars, index, relayVars
<1>4. ASSUME NEW c \in Conns, WriterEnds(c)
      PROVE  Drop({c}) /\ UNCHANGED <<past, broken>>
    BY <1>4 DEF WriterEnds, RemoveBySnow, relayVars
<1>5. ASSUME NEW c \in Conns, NEW u \in Users, Authenticate(c, u)
      PROVE  UNCHANGED broken
    BY <1>5 DEF Authenticate
<1>6. CASE SweepsMeanwhile
  <2>1. UNCHANGED <<past, broken>>
      BY <1>6 DEF SweepsMeanwhile, relayVars
  <2>2. \/ UNCHANGED <<conns, userOf>>
        \/ \E S \in SUBSET Conns : Drop(S)
    <3>1. bySnow \cap expired \in SUBSET Conns
        BY DEF IInv, TypeOK
    <3> QED
        BY <1>6, <3>1 DEF SweepsMeanwhile, Expire, sweepOnce, CloseSwept, index
  <2> QED
      BY <2>1, <2>2, BoundKept, BoundByRemoval
<1>7. \A c \in Conns : {c} \in SUBSET Conns
    OBVIOUS
<1> QED
    BY <1>1, <1>2, <1>3, <1>4, <1>5, <1>6, <1>7, BoundKept, BoundByBind, BoundByRemoval DEF RelayNext

-----------------------------------------------------------------------------
(* The relay's own state *)

\* A step that moves frames on, to a worker, the channel or the goroutine.
LEMMA FramesStep ==
    ASSUME FramesMoveOn, RelayNext
    PROVE  FramesMoveOn' /\ taken \subseteq taken'
<1> USE DEF FramesMoveOn
<1>1. ASSUME NEW f \in Frames, Receive(f)
      PROVE  FramesMoveOn' /\ taken \subseteq taken'
    BY <1>1 DEF Receive, relay, Queued
<1>2. ASSUME NEW f \in Frames, RelayMsg(f)
      PROVE  FramesMoveOn' /\ taken \subseteq taken'
  <2>1. /\ f \in held /\ held' = held \ {f} /\ queue' = Append(queue, f) /\ taken' = taken
      BY <1>2 DEF RelayMsg
  <2>2. /\ queue' \in Seq(Frames) /\ DOMAIN queue' = 1 .. Len(queue) + 1
        /\ \A i \in DOMAIN queue : queue'[i] = queue[i]
        /\ queue'[Len(queue) + 1] = f
        /\ DOMAIN queue = 1 .. Len(queue) /\ Len(queue) \in Nat
      BY <2>1
  <2>3. \A i \in DOMAIN queue : queue[i] # f
      BY <2>1 DEF Queued
  <2>4. \A i, j \in DOMAIN queue' : queue'[i] = queue'[j] => i = j
      BY <2>2, <2>3
  <2>5. Queued' \subseteq Queued \cup {f}
      BY <2>2 DEF Queued
  <2> QED
      BY <2>1, <2>2, <2>4, <2>5
<1>3. ASSUME NEW f \in Frames, queue # <<>>, Head(queue) = f, queue' = Tail(queue),
             taken' = taken \cup {f}, held' = held
      PROVE  FramesMoveOn' /\ taken \subseteq taken'
  <2>1. /\ queue' \in Seq(Frames) /\ DOMAIN queue' = 1 .. Len(queue) - 1
        /\ \A i \in DOMAIN queue' : queue'[i] = queue[i + 1] /\ i + 1 \in DOMAIN queue
        /\ queue[1] = f /\ 1 \in DOMAIN queue
        /\ Len(queue) \in Nat
      BY <1>3
  <2>2. Queued' \subseteq Queued \ {f} /\ f \in Queued
      BY <2>1 DEF Queued
  <2>3. \A i, j \in DOMAIN queue' : queue'[i] = queue'[j] => i = j
      BY <2>1
  <2> QED
      BY <1>3, <2>1, <2>2, <2>3
<1>4. ASSUME NEW f \in Frames, TakeForAll(f) \/ TakeForOne(f) \/ Panic(f)
      PROVE  FramesMoveOn' /\ taken \subseteq taken'
    BY <1>3, <1>4 DEF TakeForAll, TakeForOne, TakeOut, Panic
<1>5. ASSUME UNCHANGED <<held, queue, taken>>
      PROVE  FramesMoveOn' /\ taken \subseteq taken'
    BY <1>5 DEF Queued
<1>6. ASSUME NEW f \in Frames, NEW c \in Conns, Write(f, c) \/ WriteFails(f, c)
      PROVE  UNCHANGED <<held, queue, taken>>
    BY <1>6 DEF Write, WriteFails, Pass
<1>7. ASSUME NEW c \in Conns,
             Arrive(c) \/ PeerLeaves(c) \/ WriterEnds(c) \/ \E u \in Users : Authenticate(c, u)
      PROVE  UNCHANGED <<held, queue, taken>>
    BY <1>7 DEF Arrive, PeerLeaves, WriterEnds, Authenticate, relayVars, relay
<1>8. CASE SweepsMeanwhile
    BY <1>5, <1>8 DEF SweepsMeanwhile, relayVars, relay
<1> HIDE DEF FramesMoveOn
<1> QED
    BY <1>1, <1>2, <1>4, <1>5, <1>6, <1>7, <1>8 DEF RelayNext

\* The goroutine goes on with what it has in hand, or with nothing.
LEMMA HandKept ==
    ASSUME InHand, taken \subseteq taken', \A c \in Conns : past[c] \subseteq past'[c],
           \/ UNCHANGED <<frame, first, rest>>
           \/ /\ first' \in {first, NoConn} /\ rest' \subseteq rest
              /\ frame' \in {{}, frame} /\ (frame' = {} => first' = NoConn /\ rest' = {})
    PROVE  InHand'
    BY DistinctAssumption DEF InHand

LEMMA HandTaken ==
    ASSUME IInv, BoundBefore, NEW f \in Frames, UNCHANGED past,
           TakeForAll(f) \/ TakeForOne(f)
    PROVE  InHand'
<1>0. To[f] \in Users /\ Sid[f] \in Conns \cup {NoConn}
    BY RelayAssumption
<1>1. PICK a, S : /\ a \in Conns \cup {NoConn} /\ S \subseteq Conns
                  /\ \A c \in Conns : c = a \/ c \in S => To[f] \in past[c]
                  /\ TakeOut(f, a, S)
  <2>1. CASE TakeForAll(f)
      BY <1>0, <2>1, ListedWereBound, DistinctAssumption DEF TakeForAll
  <2>2. CASE TakeForOne(f)
      BY <1>0, <2>2, ListedWereBound DEF TakeForOne
  <2> QED
      BY <2>1, <2>2
<1>2. /\ first' = a /\ rest' = S /\ f \in taken'
      /\ frame' = IF a = NoConn /\ S = {} THEN {} ELSE {f}
    BY <1>1 DEF TakeOut
<1> QED
    BY <1>1, <1>2 DEF InHand

\* A connection that is done with leaves the goroutine's list.
LEMMA PassList ==
    ASSUME InHand, NEW c \in Conns, Pass(c)
    PROVE  /\ first' \in {first, NoConn} /\ rest' \subseteq rest /\ frame' \in {{}, frame}
           /\ frame' = {} => first' = NoConn /\ rest' = {}
           /\ first' = NoConn
           /\ \/ c = first /\ rest' = rest
              \/ first = NoConn /\ c \in rest /\ rest' = rest \ {c}
           /\ UNCHANGED <<taken, past>>
    BY DEF Pass, IsNext, InHand

LEMMA HandStep ==
    ASSUME IInv, BoundBefore, FramesMoveOn, InHand, RelayNext
    PROVE  InHand'
<1>1. taken \subseteq taken' /\ \A c \in Conns : past[c] \subseteq past'[c]
    BY FramesStep, BoundStep
<1>2. ASSUME NEW f \in Frames, Receive(f) \/ RelayMsg(f) \/ Panic(f)
      PROVE  UNCHANGED <<frame, first, rest>>
    BY <1>2 DEF Receive, RelayMsg, Panic, relay
<1>3. ASSUME NEW f \in Frames, TakeForAll(f) \/ TakeForOne(f)
      PROVE  InHand'
  <2>1. UNCHANGED past
      BY <1>3 DEF TakeForAll, TakeForOne, TakeOut
  <2> QED
      BY <1>3, <2>1, HandTaken
<1>4. ASSUME NEW f \in Frames, NEW c \in Conns, Write(f, c) \/ WriteFails(f, c)
      PROVE  InHand'
  <2>1. Pass(c)
      BY <1>4 DEF Write, WriteFails
  <2> QED
      BY <1>1, <2>1, PassList, HandKept
<1>5. ASSUME NEW c \in Conns,
             Arrive(c) \/ PeerLeaves(c) \/ WriterEnds(c) \/ \E u \in Users : Authenticate(c, u)
      PROVE  UNCHANGED <<frame, first, rest>>
    BY <1>5 DEF Arrive, PeerLeaves, WriterEnds, Authenticate, relayVars, relay
<1>6. CASE SweepsMeanwhile
    BY <1>1, <1>6, HandKept DEF SweepsMeanwhile, relayVars, relay
<1> QED
    BY <1>1, <1>2, <1>3, <1>4, <1>5, <1>6, HandKept DEF RelayNext

-----------------------------------------------------------------------------
(* What is owed *)

LEMMA OwedType ==
    ASSUME Delivery, NEW f \in Frames, NEW c \in Conns
    PROVE  Pending(f, c) \in 0 .. 2 /\ sent[f][c] \in Nat /\ Owed(f, c) \in Nat
<1>1. Pending(f, c) \in 0 .. 2 /\ sent[f][c] \in Nat
    BY DEF Pending, Delivery
<1> QED
    BY <1>1 DEF Owed

\* Nobody is owed more than before.
LEMMA DeliveryKept ==
    ASSUME Delivery, taken \subseteq taken', \A c \in Conns : past[c] \subseteq past'[c],
           sent' \in [Frames -> [Conns -> Nat]],
           \A f \in Frames, c \in Conns :
               /\ Owed(f, c)' \in Nat /\ Owed(f, c)' <= Owed(f, c)
               /\ sent'[f][c] = sent[f][c] \/ (f \in taken /\ To[f] \in past[c])
    PROVE  Delivery'
<1> SUFFICES ASSUME NEW f \in Frames
             PROVE  /\ f \notin taken' => \A c \in Conns : sent'[f][c] = 0
                    /\ \A c \in Conns : sent'[f][c] > 0 => To[f] \in past'[c]
                    /\ Sid[f] # NoConn =>
                          \A c \in Conns : Owed(f, c)' <= (IF c = Sid[f] THEN 1 ELSE 0)
                    /\ \A c, d \in Conns :
                          /\ Owed(f, c)' <= 2
                          /\ Owed(f, c)' = 2 /\ Owed(f, d)' = 2 => c = d
    BY DEF Delivery
<1>1. \A c \in Conns : Owed(f, c) \in Nat /\ Owed(f, c)' \in Nat /\ Owed(f, c)' <= Owed(f, c)
    BY OwedType
<1>2. f \notin taken' => \A c \in Conns : sent'[f][c] = 0
    BY DEF Delivery
<1>3. \A c \in Conns : sent'[f][c] > 0 => To[f] \in past'[c]
    BY DEF Delivery
<1>4. \A c \in Conns : Sid[f] # NoConn => Owed(f, c)' <= (IF c = Sid[f] THEN 1 ELSE 0)
    BY <1>1 DEF Delivery
<1>5. \A c, d \in Conns : /\ Owed(f, c)' <= 2
                          /\ Owed(f, c)' = 2 /\ Owed(f, d)' = 2 => c = d
  <2>1. \A c, d \in Conns : /\ Owed(f, c) <= 2
                            /\ Owed(f, c) = 2 /\ Owed(f, d) = 2 => c = d
      BY DEF Delivery
  <2>2. \A c \in Conns : Owed(f, c)' <= 2 /\ (Owed(f, c)' = 2 => Owed(f, c) = 2)
      BY <1>1, <2>1
  <2> QED
      BY <2>1, <2>2
<1> QED
    BY <1>2, <1>3, <1>4, <1>5

\* A frame that is taken out is owed to whom the table lists.
LEMMA DeliveryTaken ==
    ASSUME Delivery, FramesMoveOn, InHand, NEW g \in Frames, TakeForAll(g) \/ TakeForOne(g)
    PROVE  Delivery'
<1>1. /\ frame = {} /\ UNCHANGED <<sent, past>> /\ taken' = taken \cup {g}
      /\ frame' \in {{}, {g}} /\ g \notin taken
  <2>1. /\ frame = {} /\ UNCHANGED <<sent, past>> /\ taken' = taken \cup {g}
        /\ frame' \in {{}, {g}} /\ queue # <<>> /\ Head(queue) = g
      BY DEF TakeForAll, TakeForOne, TakeOut, Idle
  <2>2. g \in Queued
      BY <2>1 DEF Queued, FramesMoveOn
  <2> QED
      BY <2>1, <2>2 DEF FramesMoveOn
<1>2. \A f \in Frames, c \in Conns : sent'[f][c] \in Nat /\ (f = g => sent'[f][c] = 0)
    BY <1>1 DEF Delivery
<1>3. ASSUME NEW f \in Frames, f # g, NEW c \in Conns
      PROVE  Owed(f, c)' = Owed(f, c)
    BY <1>1, <1>3 DEF Owed, Pending
<1>4. ASSUME NEW c \in Conns
      PROVE  Owed(g, c)' <= (IF Sid[g] # NoConn /\ c # Sid[g] THEN 0
                             ELSE IF Sid[g] = NoConn /\ c = first' THEN 2 ELSE 1)
  <2>1. sent'[g][c] = 0
      BY <1>2
  <2>2. Pending(g, c)' <= (IF Sid[g] # NoConn /\ c # Sid[g] THEN 0
                           ELSE IF Sid[g] = NoConn /\ c = first' THEN 2 ELSE 1)
      BY DistinctAssumption DEF Pending, TakeForAll, TakeForOne, TakeOut
  <2>3. Pending(g, c)' \in 0 .. 2
      BY DEF Pending
  <2> QED
      BY <2>1, <2>2, <2>3 DEF Owed
<1>5. \A c \in Conns : Owed(g, c)' \in Nat
    BY <1>2 DEF Owed, Pending
<1>6. ASSUME NEW f \in Frames
      PROVE  /\ f \notin taken' => \A c \in Conns : sent'[f][c] = 0
             /\ \A c \in Conns : sent'[f][c] > 0 => To[f] \in past'[c]
             /\ Sid[f] # NoConn => \A c \in Conns : Owed(f, c)' <= (IF c = Sid[f] THEN 1 ELSE 0)
             /\ \A c, d \in Conns :
                   /\ Owed(f, c)' <= 2
                   /\ Owed(f, c)' = 2 /\ Owed(f, d)' = 2 => c = d
  <2>1. CASE f # g
      BY <1>1, <1>3, <2>1 DEF Delivery
  <2>2. CASE f = g
    <3>1. \A c \in Conns : Sid[g] # NoConn => Owed(g, c)' <= (IF c = Sid[g] THEN 1 ELSE 0)
        BY <1>4
    <3>2. \A c \in Conns : Owed(g, c)' <= 2 /\ (Owed(g, c)' = 2 => c = first')
        BY <1>4, <1>5
    <3> QED
        BY <1>1, <1>2, <2>2, <3>1, <3>2
  <2> QED
      BY <2>1, <2>2
<1>7. sent' \in [Frames -> [Conns -> Nat]]
    BY <1>1 DEF Delivery
<1> QED
    BY <1>6, <1>7 DEF Delivery

\* A connection that is done with is owed what it was, less what was in hand for it.
LEMMA PassPending ==
    ASSUME InHand, NEW f \in frame, NEW c \in Conns, Pass(c)
    PROVE  /\ f \in taken /\ To[f] \in past[c]
           /\ Pending(f, c)' = Pending(f, c) - 1
           /\ \A d \in Conns : d # c => Pending(f, d)' = Pending(f, d)
           /\ \A g \in Frames, d \in Conns : g # f => Pending(g, d)' = Pending(g, d)
<1>1. /\ first' = NoConn /\ frame = {f} /\ frame' \in {{}, frame}
      /\ frame' = {} => rest' = {}
      /\ \/ c = first /\ rest' = rest
         \/ first = NoConn /\ c \in rest /\ rest' = rest \ {c}
    BY PassList DEF InHand
<1>2. f \in taken /\ To[f] \in past[c]
    BY <1>1 DEF InHand
<1>3. \A d \in Conns : d # NoConn
    BY DistinctAssumption
<1>4. Pending(f, c)' = Pending(f, c) - 1
    BY <1>1, <1>3 DEF Pending
<1>5. \A d \in Conns : d # c => Pending(f, d)' = Pending(f, d)
    BY <1>1, <1>3 DEF Pending
<1>6. \A g \in Frames, d \in Conns : g # f => Pending(g, d)' = Pending(g, d)
    BY <1>1 DEF Pending
<1> QED
    BY <1>2, <1>4, <1>5, <1>6

LEMMA DeliveryWritten ==
    ASSUME Delivery, InHand, NEW f \in Frames, NEW c \in Conns, Write(f, c) \/ WriteFails(f, c)
    PROVE  Delivery'
<1>1. f \in frame /\ Pass(c) /\ UNCHANGED <<taken, past>>
    BY DEF Write, WriteFails, Pass
<1>2. /\ f \in taken /\ To[f] \in past[c]
      /\ Pending(f, c)' = Pending(f, c) - 1
      /\ \A d \in Conns : d # c => Pending(f, d)' = Pending(f, d)
      /\ \A g \in Frames, d \in Conns : g # f => Pending(g, d)' = Pending(g, d)
    BY <1>1, PassPending
<1>3. \/ sent' = sent
      \/ sent' = [sent EXCEPT ![f][c] = @ + 1]
    BY DEF Write, WriteFails
<1>4. /\ sent' \in [Frames -> [Conns -> Nat]]
      /\ \A g \in Frames, d \in Conns :
             \/ sent'[g][d] = sent[g][d]
             \/ g = f /\ d = c /\ sent'[g][d] = sent[g][d] + 1
    BY <1>3 DEF Delivery
<1>5. ASSUME NEW g \in Frames, NEW d \in Conns
      PROVE  Owed(g, d)' \in Nat /\ Owed(g, d)' <= Owed(g, d)
  <2>1. /\ Pending(g, d) \in 0 .. 2 /\ Pending(g, d)' \in 0 .. 2
        /\ sent[g][d] \in Nat /\ sent'[g][d] \in Nat
      BY <1>4, OwedType DEF Pending
  <2>2. \/ Pending(g, d)' = Pending(g, d) /\ ~(g = f /\ d = c)
        \/ Pending(g, d)' = Pending(g, d) - 1 /\ g = f /\ d = c
      BY <1>2
  <2> QED
      BY <1>4, <2>1, <2>2 DEF Owed
<1>6. \A g \in Frames, d \in Conns :
          /\ Owed(g, d)' \in Nat /\ Owed(g, d)' <= Owed(g, d)
          /\ sent'[g][d] = sent[g][d] \/ (g \in taken /\ To[g] \in past[d])
    BY <1>2, <1>4, <1>5
<1>7. taken \subseteq taken' /\ \A d \in Conns : past[d] \subseteq past'[d]
    BY <1>1
<1>8. sent' \in [Frames -> [Conns -> Nat]]
    BY <1>4
<1> QED
    BY <1>6, <1>7, <1>8, DeliveryKept

LEMMA DeliveryStep ==
    ASSUME IInv, BoundBefore, FramesMoveOn, InHand, Delivery, RelayNext
    PROVE  Delivery'
<1>1. ASSUME UNCHANGED <<frame, first, rest, sent>>
      PROVE  Delivery'
  <2>1. taken \subseteq taken' /\ \A c \in Conns : past[c] \subseteq past'[c]
      BY FramesStep, BoundStep
  <2>2. \A f \in Frames, c \in Conns :
            /\ Owed(f, c)' \in Nat /\ Owed(f, c)' <= Owed(f, c)
            /\ sent'[f][c] = sent[f][c] \/ (f \in taken /\ To[f] \in past[c])
    <3>1. \A f \in Frames, c \in Conns : Owed(f, c)' = Owed(f, c) /\ sent'[f][c] = sent[f][c]
        BY <1>1 DEF Owed, Pending
    <3>2. \A f \in Frames, c \in Conns : Owed(f, c) \in Nat /\ Owed(f, c) <= Owed(f, c)
        BY OwedType
    <3> QED
        BY <3>1, <3>2
  <2>3. sent' \in [Frames -> [Conns -> Nat]]
      BY <1>1 DEF Delivery
  <2> QED
      BY <2>1, <2>2, <2>3, DeliveryKept
<1>2. ASSUME NEW f \in Frames, Receive(f) \/ RelayMsg(f) \/ Panic(f)
      PROVE  UNCHANGED <<frame, first, rest, sent>>
    BY <1>2 DEF Receive, RelayMsg, Panic, relay
<1>3. ASSUME NEW c \in Conns,
             Arrive(c) \/ PeerLeaves(c) \/ WriterEnds(c) \/ \E u \in Users : Authenticate(c, u)
      PROVE  UNCHANGED <<frame, first, rest, sent>>
    BY <1>3 DEF Arrive, PeerLeaves, WriterEnds, Authenticate, relayVars, relay
<1>4. CASE SweepsMeanwhile
    BY <1>1, <1>4 DEF SweepsMeanwhile, relayVars, relay
<1> QED
    BY <1>1, <1>2, <1>3, <1>4, DeliveryTaken, DeliveryWritten DEF RelayNext

-----------------------------------------------------------------------------
(* What is closed *)

\* A failed write breaks the socket of the addressee's connection first.
LEMMA ClosedByWrite ==
    ASSUME IInv, BoundBefore, InHand, ClosedForItsUser,
           NEW f \in Frames, NEW c \in Conns, WriteFails(f, c)
    PROVE  ClosedForItsUser'
<1>1. /\ Pass(c) /\ f \in frame /\ To[f] \in Users
      /\ closed' = closed \cup byUser[To[f]] /\ broken' = broken \cup {c}
      /\ expired' = expired
    BY RelayAssumption DEF WriteFails, Remove
<1>2. To[f] \in past[c] /\ past' = past
    BY <1>1, PassPending, PassList
<1>3. \A d \in byUser[To[f]] : To[f] \in past[d]
    BY <1>1, ListedWereBound
<1> QED
    BY <1>1, <1>2, <1>3 DEF ClosedForItsUser

LEMMA ClosedKept ==
    ASSUME ClosedForItsUser, broken \subseteq broken', broken \subseteq Conns, closed \subseteq Conns,
           \A d \in Conns : past[d] \subseteq past'[d],
           closed' \subseteq closed \cup broken \cup expired,
           \A d \in expired : d \in expired' \/ d \notin closed'
    PROVE  ClosedForItsUser'
<1> SUFFICES ASSUME NEW c \in closed' \ (broken' \cup expired')
             PROVE  \E d \in broken' : \E u \in past'[d] : u \in past'[c]
    BY DEF ClosedForItsUser
<1>1. c \in closed \ (broken \cup expired) /\ c \in Conns
    OBVIOUS
<1>2. PICK d \in broken : \E u \in past[d] : u \in past[c]
    BY <1>1 DEF ClosedForItsUser
<1> QED
    BY <1>1, <1>2

LEMMA ClosedStep ==
    ASSUME RelayInv, RelayNext
    PROVE  ClosedForItsUser' /\ broken' \subseteq Conns /\ (closing \subseteq expired)'
<1> USE DEF RelayInv
<1>1. /\ broken \subseteq broken' /\ closed \subseteq Conns
      /\ \A d \in Conns : past[d] \subseteq past'[d]
    BY BoundStep DEF IInv, TypeOK
<1>2. ASSUME NEW f \in Frames,
             \/ Receive(f) \/ RelayMsg(f) \/ TakeForAll(f) \/ TakeForOne(f) \/ Panic(f)
             \/ \E c \in Conns : Write(f, c)
      PROVE  UNCHANGED <<closed, broken, closing, expired>>
    BY <1>2 DEF Receive, RelayMsg, TakeForAll, TakeForOne, TakeOut, Panic, Write, vars
<1>3. ASSUME NEW f \in Frames, NEW c \in Conns, WriteFails(f, c)
      PROVE  ClosedForItsUser' /\ broken' \subseteq Conns /\ UNCHANGED <<closing, expired>>
    BY <1>3, ClosedByWrite DEF WriteFails, Remove
<1>4. ASSUME NEW c \in Conns, Arrive(c) \/ PeerLeaves(c)
      PROVE  UNCHANGED <<closed, closing, expired>> /\ broken' \subseteq Conns
    BY <1>4 DEF Arrive, AddUnauth, PeerLeaves, vars, relayVars
<1>5. ASSUME NEW c \in Conns, WriterEnds(c)
      PROVE  closed' \subseteq closed \cup broken /\ UNCHANGED <<broken, closing, expired>>
    BY <1>5 DEF WriterEnds, RemoveBySnow, Works, relayVars
<1>6. ASSUME NEW c \in Conns, NEW u \in Users, Authenticate(c, u)
      PROVE  /\ UNCHANGED <<closed, broken, closing>> /\ expired' = expired \ {c}
             /\ c \notin closing \cup closed
  <2>1. c \in bySnow
      BY <1>6 DEF Authenticate, BindUser
  <2>2. c \notin closing \cup closed
      BY <2>1 DEF IInv, FreshIsUnknown, RegisteredIffOpen
  <2> QED
      BY <1>6, <2>2 DEF Authenticate, BindUser
<1>7. CASE SweepsMeanwhile
  <2>1. broken' = broken /\ closing' \subseteq closing \cup expired
        /\ expired \subseteq expired' /\ closed' \subseteq closed \cup closing
      BY <1>7 DEF SweepsMeanwhile, relayVars, Expire, sweepOnce, CloseSwept
  <2> QED
      BY <1>1, <2>1, ClosedKept
<1> QED
    BY <1>1, <1>2, <1>3, <1>4, <1>5, <1>6, <1>7, ClosedKept DEF RelayNext

-----------------------------------------------------------------------------
(* The relay: theorems *)

LEMMA RelayInvInit == RelayInit => RelayInv
<1> SUFFICES ASSUME RelayInit
             PROVE  RelayInv
    OBVIOUS
<1>1. IInv
    BY InvInit DEF RelayInit
<1>2. BoundBefore
    BY DEF RelayInit, Init, BoundBefore
<1>3. FramesMoveOn
    BY DEF RelayInit, FramesMoveOn, Queued
<1>4. InHand
    BY DEF RelayInit, InHand
<1>5. Delivery
  <2>1. \A f \in Frames, c \in Conns : sent[f][c] = 0 /\ Owed(f, c) = 0
      BY DEF RelayInit, Owed, Pending
  <2>2. sent \in [Frames -> [Conns -> Nat]]
      BY DEF RelayInit
  <2> QED
      BY <2>1, <2>2 DEF Delivery
<1>6. broken \subseteq Conns /\ closing \subseteq expired /\ ClosedForItsUser
    BY DEF RelayInit, Init, ClosedForItsUser
<1> QED
    BY <1>1, <1>2, <1>3, <1>4, <1>5, <1>6 DEF RelayInv

LEMMA RelayInvStep == RelayInv /\ [RelayNext]_allVars => RelayInv'
<1> SUFFICES ASSUME RelayInv, [RelayNext]_allVars
             PROVE  RelayInv'
    OBVIOUS
<1>1. CASE RelayNext
  <2>1. /\ IInv' /\ BoundBefore' /\ FramesMoveOn' /\ InHand' /\ Delivery'
        /\ broken' \subseteq Conns /\ (closing \subseteq expired)' /\ ClosedForItsUser'
      BY <1>1, TableInvStep, BoundStep, FramesStep, HandStep, DeliveryStep, ClosedStep
      DEF RelayInv
  <2> QED
      BY <2>1 DEF RelayInv
<1>2. CASE UNCHANGED allVars
  <2>1. IInv'
      BY TableInvStep DEF RelayInv
  <2>2. /\ UNCHANGED <<conns, userOf, closing, closed, expired>>
        /\ UNCHANGED <<held, queue, taken, frame, first, rest, broken, sent, past>>
      BY <1>2 DEF allVars, vars, index, relayVars, relay
  <2>3. BoundBefore' /\ FramesMoveOn' /\ InHand' /\ ClosedForItsUser'
      BY <2>2 DEF RelayInv, BoundBefore, FramesMoveOn, Queued, InHand, ClosedForItsUser
  <2>4. Delivery'
      BY <2>2 DEF RelayInv, Delivery, Owed, Pending
  <2> QED
      BY <2>1, <2>2, <2>3, <2>4 DEF RelayInv
<1> QED
    BY <1>1, <1>2

\* The inductive invariant of the relay beside the table.
THEOREM RelayInductive == RelaySpec => []RelayInv
    BY RelayInvInit, RelayInvStep, PTL DEF RelaySpec

\* The relay and the connections use the table only through its operations: whatever
\* they do is a behaviour of ConnManager, and what holds of that one holds here.
THEOREM RelayUsesTheTable == RelaySpec => Spec
<1>1. RelayInit => Init
    BY DEF RelayInit
<1> QED
    BY <1>1, TableStep, PTL DEF RelaySpec, Spec

\* Frames go only to connections that are or were their addressee's, those with a
\* session id once and to that one, the others at most once, but for one connection
\* that gets them twice.
THEOREM FramesReachTheirUser == RelaySpec => []WrittenToItsAddressee
<1>1. RelayInv => WrittenToItsAddressee
  <2> SUFFICES ASSUME RelayInv, NEW f \in Frames
               PROVE  /\ \A c \in Conns : sent[f][c] > 0 => To[f] \in past[c]
                      /\ Sid[f] # NoConn =>
                            \A c \in Conns : sent[f][c] <= (IF c = Sid[f] THEN 1 ELSE 0)
                      /\ \A c, d \in Conns :
                            /\ sent[f][c] <= 2
                            /\ sent[f][c] = 2 /\ sent[f][d] = 2 => c = d
      BY DEF WrittenToItsAddressee
  <2>1. \A c \in Conns : /\ sent[f][c] \in Nat /\ Owed(f, c) \in Nat
                         /\ sent[f][c] <= Owed(f, c)
      BY OwedType DEF RelayInv, Owed
  <2>2. \A c \in Conns : sent[f][c] > 0 => To[f] \in past[c]
      BY DEF RelayInv, Delivery
  <2>3. \A c \in Conns : Sid[f] # NoConn => Owed(f, c) <= (IF c = Sid[f] THEN 1 ELSE 0)
      BY DEF RelayInv, Delivery
  <2>4. \A c, d \in Conns : /\ Owed(f, c) <= 2
                            /\ Owed(f, c) = 2 /\ Owed(f, d) = 2 => c = d
      BY DEF RelayInv, Delivery
  <2>5. \A c \in Conns : sent[f][c] <= 2 /\ (sent[f][c] = 2 => Owed(f, c) = 2)
      BY <2>1, <2>4
  <2>6. \A c \in Conns : Sid[f] # NoConn => sent[f][c] <= (IF c = Sid[f] THEN 1 ELSE 0)
      BY <2>1, <2>3
  <2> QED
      BY <2>2, <2>4, <2>5, <2>6
<1> QED
    BY <1>1, RelayInductive, PTL

\* While the sweeper closes what is due, a working socket whose time is not up is closed
\* only after a socket failed that is or was the same user's.
THEOREM OnlyAUsersOwnAreClosed == RelaySpec => []ClosedForItsUser
<1>1. RelayInv => ClosedForItsUser
    BY DEF RelayInv
<1> QED
    BY <1>1, RelayInductive, PTL

\* The table's statements hold while the relay removes users it cannot write to.
THEOREM TableHoldsBesideRelay ==
    RelaySpec => [](IndexesAgree /\ RegisteredIffOpen /\ LegacyIsOwnOrMoved)
<1>1. RelayInv => IndexesAgree /\ RegisteredIffOpen /\ LegacyIsOwnOrMoved
    BY DEF RelayInv, IInv
<1> QED
    BY <1>1, RelayInductive, PTL

=============================================================================
