----------------------- MODULE GatewaySession_proofs -----------------------
(***************************************************************************)
(* Proofs about Presence for any number of nodes, users and connections    *)
(* and all times to live that TTLAssumption admits, and about the gateway  *)
(* sessions that use it.  The invariant of the first part adds to the      *)
(* properties how long an index lasts beside what it lists.  That of the   *)
(* second says how long ago the ticker of a bound connection renewed it,   *)
(* counted in heartbeats that were refused since.                          *)
(***************************************************************************)
EXTENDS GatewaySession, TLAPS

\* A snow id that was not generated yet is unknown.
UnusedIsUnknown ==
    \A c \in Conns : c \notin used => unauth[c] = 0 /\ \A u \in Users : auth[u][c] = 0

\* The index of the waiting connections outlives each of them.
UnauthOutlived == \A c \in Conns : unauth[c] > 0 => unauth[c] <= nidxuLeft[NodeOf[c]]

\* The time since a listed session was renewed and the time its index has left are
\* together no shorter than what a heartbeat gives an index.
IndexLasts ==
    \A u \in Users, c \in Conns :
        auth[u][c] > 0 /\ nidx[u][c] # NoEntry =>
            TTL - auth[u][c] + nidxLeft[u][NodeOf[c]] >= UserIndexTTL

UnauthType ==
    /\ used \in SUBSET Conns
    /\ unauth \in [Conns -> 0 .. UnauthTTL]
    /\ nidxu \in [Conns -> NoEntry .. UnauthTTL]
    /\ nidxuLeft \in [Nodes -> 0 .. SweepTTL]

AuthType ==
    /\ auth \in [Users -> [Conns -> 0 .. TTL]]
    /\ nidx \in [Users -> [Conns -> NoEntry .. TTL]]
    /\ nidxLeft \in [Users -> [Nodes -> 0 .. (SweepTTL + 2 * TTL)]]

UnauthInv == UnauthType /\ UnauthIsListed /\ UnauthOutlived
AuthInv == AuthType /\ ListedAsItLives /\ UnlistedIsQuiet /\ IndexLasts

IInv == UnauthInv /\ AuthInv /\ UnusedIsUnknown /\ OneSessionPerConn

LEMMA InitIInv == PresenceInit => IInv
    BY TTLAssumption
    DEF PresenceInit, IInv, UnauthInv, AuthInv, UnauthType, AuthType, UnauthIsListed,
        UnauthOutlived, ListedAsItLives, UnlistedIsQuiet, IndexLasts, UnusedIsUnknown,
        OneSessionPerConn, NoEntry

\* The connections and gateways of an assignment.
LEMMA NodeOfConn == ASSUME NEW c \in Conns PROVE NodeOf[c] \in Nodes
    BY NodeOfAssumption

-----------------------------------------------------------------------------
(* The unauthenticated side *)

\* Connections without a live session may leave the index: it stays as long as it
\* lasted, or longer than any waiting connection.
LEMMA LeaveUnauthKeeps ==
    ASSUME UnauthInv, NEW n \in Nodes, NEW S \in SUBSET Conns, NEW left \in 0 .. SweepTTL,
           left = nidxuLeft[n] \/ UnauthTTL <= left,
           \A c \in S : NodeOf[c] = n,
           unauth' \in [Conns -> 0 .. UnauthTTL],
           \A c \in Conns : unauth'[c] = (IF c \in S THEN 0 ELSE unauth[c]),
           LeaveUnauth(n, S, left), used' = used
    PROVE  UnauthInv'
<1> USE DEF UnauthInv, UnauthType
<1>1. /\ nidxu' = [c \in Conns |-> IF c \in S THEN NoEntry ELSE nidxu[c]]
      /\ nidxuLeft' = [nidxuLeft EXCEPT ![n] = IF MembersUnauth(n) \ S = {} THEN 0 ELSE left]
    BY DEF LeaveUnauth, Put, LifeOf
<1>2. UnauthType'
    BY <1>1, TTLAssumption DEF NoEntry
<1>3. UnauthIsListed'
    BY <1>1 DEF UnauthIsListed
<1>4. ASSUME NEW c \in Conns, unauth'[c] > 0 PROVE unauth'[c] <= nidxuLeft'[NodeOf[c]]
  <2>1. c \notin S /\ unauth[c] > 0 /\ unauth'[c] = unauth[c] /\ nidxu[c] = unauth[c]
      BY <1>4 DEF UnauthIsListed
  <2>2. unauth[c] <= nidxuLeft[NodeOf[c]] /\ unauth[c] \in 0 .. UnauthTTL /\ NodeOf[c] \in Nodes
      BY <2>1, NodeOfConn DEF UnauthOutlived
  <2>3. CASE NodeOf[c] = n
    <3>1. c \in MembersUnauth(n) \ S
        BY <2>1, <2>3 DEF MembersUnauth, NoEntry
    <3> QED
        BY <1>1, <2>1, <2>2, <2>3, <3>1, TTLAssumption
  <2> QED
      BY <1>1, <2>1, <2>2, <2>3
<1> QED
    BY <1>2, <1>3, <1>4 DEF UnauthOutlived

\* A connection gets all its time, in the session key where it exists and in the index.
LEMMA RefreshUnauth ==
    ASSUME UnauthInv, NEW c \in Conns, NEW x \in {0, UnauthTTL}, used' \in SUBSET Conns,
           unauth' = [unauth EXCEPT ![c] = x],
           nidxu' = [nidxu EXCEPT ![c] = UnauthTTL],
           nidxuLeft' = [nidxuLeft EXCEPT ![NodeOf[c]] = 2 * UnauthTTL]
    PROVE  UnauthInv'
<1> USE DEF UnauthInv, UnauthType
<1>1. UnauthType'
    BY TTLAssumption, NodeOfConn DEF NoEntry
<1>2. UnauthIsListed'
    BY TTLAssumption DEF UnauthIsListed
<1>3. ASSUME NEW d \in Conns, unauth'[d] > 0 PROVE unauth'[d] <= nidxuLeft'[NodeOf[d]]
  <2>1. NodeOf[c] \in Nodes /\ NodeOf[d] \in Nodes
      BY NodeOfConn
  <2>2. unauth'[d] \in 0 .. UnauthTTL
      BY <1>1
  <2>3. CASE NodeOf[d] = NodeOf[c]
      BY <2>1, <2>2, <2>3, TTLAssumption
  <2>4. CASE NodeOf[d] # NodeOf[c]
      BY <1>3, <2>1, <2>2, <2>4 DEF UnauthOutlived
  <2> QED
      BY <2>3, <2>4
<1> QED
    BY <1>1, <1>2, <1>3 DEF UnauthOutlived

-----------------------------------------------------------------------------
(* The authorised side *)

\* Sessions of a user on a gateway may end and leave its index.
LEMMA LeaveKeeps ==
    ASSUME AuthInv, NEW u \in Users, NEW n \in Nodes, NEW S \in SUBSET Conns,
           NEW left \in 0 .. (SweepTTL + 2 * TTL),
           left = nidxLeft[u][n] \/ UserIndexTTL <= left \/ Members(u, n) \subseteq S,
           Leave(u, n, S, left)
    PROVE  /\ AuthInv'
           /\ \A v \in Users, c \in Conns : auth'[v][c] \in {0, auth[v][c]}
<1> USE DEF AuthInv, AuthType
<1>1. /\ \A v \in Users, c \in Conns :
             /\ auth'[v][c] = (IF v = u /\ c \in S THEN 0 ELSE auth[v][c])
             /\ nidx'[v][c] = (IF v = u /\ c \in S THEN NoEntry ELSE nidx[v][c])
      /\ \A v \in Users, m \in Nodes :
             nidxLeft'[v][m] = (IF v = u /\ m = n
                                THEN IF Members(u, n) \ S = {} THEN 0 ELSE left
                                ELSE nidxLeft[v][m])
    BY DEF Leave, Put, LifeOf
<1>2. AuthType'
  <2>1. auth' \in [Users -> [Conns -> 0 .. TTL]]
      BY TTLAssumption DEF Leave, Put
  <2>2. nidx' \in [Users -> [Conns -> NoEntry .. TTL]]
      BY TTLAssumption DEF Leave, Put, NoEntry
  <2>3. nidxLeft' \in [Users -> [Nodes -> 0 .. (SweepTTL + 2 * TTL)]]
      BY TTLAssumption DEF Leave, LifeOf
  <2> QED
      BY <2>1, <2>2, <2>3
<1>3. ListedAsItLives'
    BY <1>1 DEF ListedAsItLives
<1>4. UnlistedIsQuiet'
    BY <1>1 DEF UnlistedIsQuiet
<1>5. ASSUME NEW v \in Users, NEW c \in Conns, auth'[v][c] > 0, nidx'[v][c] # NoEntry
      PROVE  TTL - auth'[v][c] + nidxLeft'[v][NodeOf[c]] >= UserIndexTTL
  <2>1. /\ ~(v = u /\ c \in S) /\ NodeOf[c] \in Nodes
        /\ auth'[v][c] = auth[v][c] /\ auth[v][c] > 0 /\ nidx[v][c] # NoEntry
      BY <1>1, <1>5, NodeOfConn
  <2>2. /\ TTL - auth[v][c] + nidxLeft[v][NodeOf[c]] >= UserIndexTTL
        /\ auth[v][c] \in 0 .. TTL
      BY <2>1 DEF IndexLasts
  <2>3. CASE v = u /\ NodeOf[c] = n
    <3>1. c \in Members(u, n) \ S
        BY <2>1, <2>3 DEF Members
    <3>2. nidxLeft'[v][NodeOf[c]] = left
        BY <1>1, <2>3, <3>1
    <3>3. left = nidxLeft[u][n] \/ UserIndexTTL <= left
        BY <3>1
    <3> QED
        BY <2>1, <2>2, <2>3, <3>2, <3>3, TTLAssumption
  <2>4. CASE ~(v = u /\ NodeOf[c] = n)
      BY <1>1, <2>1, <2>2, <2>4
  <2> QED
      BY <2>3, <2>4
<1> QED
    BY <1>1, <1>2, <1>3, <1>4, <1>5 DEF IndexLasts

\* A session gets all its time and is listed; of the others only those whose time is
\* over may leave the index, which lasts as a heartbeat makes it or longer.
LEMMA RefreshKeeps ==
    ASSUME AuthInv, NEW u \in Users, NEW c \in Conns, NEW S \in SUBSET Conns,
           NEW left \in UserIndexTTL .. (SweepTTL + 2 * TTL),
           \A d \in S : nidx[u][d] = 0,
           auth' = [auth EXCEPT ![u][c] = TTL],
           nidx' = [nidx EXCEPT ![u] = [Put(@, S, NoEntry) EXCEPT ![c] = TTL]],
           nidxLeft' = [nidxLeft EXCEPT ![u][NodeOf[c]] = left]
    PROVE  AuthInv'
<1> USE DEF AuthInv, AuthType
<1>0. NodeOf[c] \in Nodes
    BY NodeOfConn
<1>1. /\ \A v \in Users, d \in Conns :
             /\ auth'[v][d] = (IF v = u /\ d = c THEN TTL ELSE auth[v][d])
             /\ nidx'[v][d] = (IF v = u /\ d = c THEN TTL
                               ELSE IF v = u /\ d \in S THEN NoEntry ELSE nidx[v][d])
      /\ \A v \in Users, m \in Nodes :
             nidxLeft'[v][m] = (IF v = u /\ m = NodeOf[c] THEN left ELSE nidxLeft[v][m])
    BY <1>0 DEF Put
<1>2. AuthType'
  <2>1. auth' \in [Users -> [Conns -> 0 .. TTL]]
      BY TTLAssumption
  <2>2. nidx' \in [Users -> [Conns -> NoEntry .. TTL]]
      BY TTLAssumption DEF Put, NoEntry
  <2>3. nidxLeft' \in [Users -> [Nodes -> 0 .. (SweepTTL + 2 * TTL)]]
      BY <1>0, TTLAssumption
  <2> QED
      BY <2>1, <2>2, <2>3
<1>3. ListedAsItLives'
    BY <1>1 DEF ListedAsItLives
<1>4. \A d \in S : auth[u][d] = 0
    BY DEF ListedAsItLives, NoEntry
<1>5. ASSUME NEW v \in Users, NEW d \in Conns, auth'[v][d] > 0, nidx'[v][d] = NoEntry
      PROVE  TTL - auth'[v][d] >= UserIndexTTL
  <2>1. ~(v = u /\ d = c)
      BY <1>1, <1>5, TTLAssumption DEF NoEntry
  <2>2. auth'[v][d] = auth[v][d] /\ nidx[v][d] = NoEntry
      BY <1>1, <1>4, <1>5, <2>1
  <2> QED
      BY <1>5, <2>2 DEF UnlistedIsQuiet
<1>6. ASSUME NEW v \in Users, NEW d \in Conns, auth'[v][d] > 0, nidx'[v][d] # NoEntry
      PROVE  TTL - auth'[v][d] + nidxLeft'[v][NodeOf[d]] >= UserIndexTTL
  <2>1. NodeOf[d] \in Nodes /\ auth'[v][d] \in 0 .. TTL
      BY <1>2, NodeOfConn
  <2>2. CASE v = u /\ NodeOf[d] = NodeOf[c]
      BY <1>1, <2>1, <2>2, TTLAssumption
  <2>3. CASE ~(v = u /\ NodeOf[d] = NodeOf[c])
    <3>1. auth'[v][d] = auth[v][d] /\ nidx[v][d] # NoEntry
          /\ nidxLeft'[v][NodeOf[d]] = nidxLeft[v][NodeOf[d]]
        BY <1>1, <1>6, <2>1, <2>3
    <3> QED
        BY <1>6, <3>1 DEF IndexLasts
  <2> QED
      BY <2>2, <2>3
<1> QED
    BY <1>2, <1>3, <1>5, <1>6 DEF UnlistedIsQuiet, IndexLasts

-----------------------------------------------------------------------------
(* The operations *)

\* Where no session is created, none is shared and no unused id gets one.
LEMMA SessionsStayApart ==
    ASSUME IInv, used \subseteq used',
           \A c \in Conns : unauth'[c] > 0 => unauth[c] > 0 \/ c \in used' \ used,
           \A u \in Users, c \in Conns : auth'[u][c] > 0 => auth[u][c] > 0,
           unauth' \in [Conns -> 0 .. UnauthTTL],
           auth' \in [Users -> [Conns -> 0 .. TTL]]
    PROVE  UnusedIsUnknown' /\ OneSessionPerConn'
<1> USE DEF IInv, UnauthInv, AuthInv, UnauthType, AuthType
<1>1. \A c \in Conns : unauth'[c] = 0 \/ unauth'[c] > 0
    BY TTLAssumption
<1>2. \A u \in Users, c \in Conns : auth'[u][c] = 0 \/ auth'[u][c] > 0
    BY TTLAssumption
<1>3. UnusedIsUnknown'
    BY <1>1, <1>2 DEF UnusedIsUnknown
<1>4. \A u \in Users, c \in Conns : auth[u][c] > 0 => c \in used /\ unauth[c] = 0
    BY DEF UnusedIsUnknown, OneSessionPerConn
<1>5. OneSessionPerConn'
    BY <1>1, <1>4 DEF OneSessionPerConn
<1> QED
    BY <1>3, <1>5

LEMMA UnauthSteps ==
    ASSUME IInv, NEW c \in Conns,
           Connect(c) \/ HeartbeatUnauth(c) \/ OfflineUnauth(c)
    PROVE  IInv'
<1> USE DEF IInv
<1>1. /\ UNCHANGED <<auth, nidx, nidxLeft>> /\ AuthInv'
      /\ \A u \in Users, d \in Conns : auth'[u][d] = auth[u][d]
      /\ used \subseteq used'
    BY DEF Connect, HeartbeatUnauth, OfflineUnauth, authVars, AuthInv, AuthType,
           ListedAsItLives, UnlistedIsQuiet, IndexLasts
<1>2. CASE Connect(c)
  <2>1. UnauthInv'
      BY <1>2, RefreshUnauth DEF Connect, UnauthInv, UnauthType
  <2>2. \A d \in Conns : unauth'[d] > 0 => unauth[d] > 0 \/ d \in used' \ used
      BY <1>2 DEF Connect, UnauthInv, UnauthType
  <2> QED
      BY <1>1, <2>1, <2>2, SessionsStayApart DEF UnauthInv, UnauthType, AuthInv, AuthType
<1>3. CASE HeartbeatUnauth(c)
  <2>1. UnauthInv'
    <3>1. CASE unauth[c] = 0
        BY <1>3, <3>1, RefreshUnauth DEF HeartbeatUnauth, UnauthInv, UnauthType
    <3>2. CASE unauth[c] # 0
        BY <1>3, <3>2, RefreshUnauth DEF HeartbeatUnauth, UnauthInv, UnauthType
    <3> QED
        BY <3>1, <3>2
  <2>2. \A d \in Conns : unauth'[d] > 0 => unauth[d] > 0
      BY <1>3, TTLAssumption DEF HeartbeatUnauth, UnauthInv, UnauthType
  <2> QED
      BY <1>1, <2>1, <2>2, SessionsStayApart DEF UnauthInv, UnauthType, AuthInv, AuthType
<1>5. CASE OfflineUnauth(c)
  <2>1. /\ unauth' = [unauth EXCEPT ![c] = 0]
        /\ LeaveUnauth(NodeOf[c], {c}, nidxuLeft[NodeOf[c]]) /\ used' = used
      BY <1>5 DEF OfflineUnauth
  <2>2. unauth' \in [Conns -> 0 .. UnauthTTL] /\ nidxuLeft[NodeOf[c]] \in 0 .. SweepTTL
      BY <2>1, NodeOfConn, TTLAssumption DEF UnauthInv, UnauthType
  <2>3. UnauthInv'
      BY <2>1, <2>2, NodeOfConn, LeaveUnauthKeeps DEF UnauthInv, UnauthType
  <2> QED
      BY <1>1, <2>1, <2>2, <2>3, SessionsStayApart DEF UnauthInv, UnauthType, AuthInv, AuthType
<1> QED
    BY <1>2, <1>3, <1>5

LEMMA SweepUnauthKeeps == ASSUME IInv, NEW n \in Nodes, SweepUnauth(n) PROVE IInv'
<1> USE DEF IInv
<1>1. /\ UNCHANGED <<auth, nidx, nidxLeft>> /\ AuthInv'
      /\ \A u \in Users, d \in Conns : auth'[u][d] = auth[u][d]
    BY DEF SweepUnauth, authVars, AuthInv, AuthType, ListedAsItLives, UnlistedIsQuiet, IndexLasts
<1>2. /\ DueUnauth(n) \in SUBSET Conns
      /\ \A d \in DueUnauth(n) : NodeOf[d] = n
    BY DEF DueUnauth, MembersUnauth
<1>3. /\ unauth' = [d \in Conns |-> IF d \in DueUnauth(n) THEN 0 ELSE unauth[d]]
      /\ LeaveUnauth(n, DueUnauth(n), SweepTTL) /\ used' = used
    BY DEF SweepUnauth, Put
<1>4. unauth' \in [Conns -> 0 .. UnauthTTL]
    BY <1>3, TTLAssumption DEF UnauthInv, UnauthType
<1>5. UnauthInv'
    BY <1>2, <1>3, <1>4, LeaveUnauthKeeps, TTLAssumption
<1> QED
    BY <1>1, <1>3, <1>4, <1>5, SessionsStayApart DEF AuthInv, AuthType

LEMMA AuthorizeKeeps ==
    ASSUME IInv, NEW u \in Users, NEW c \in Conns, Authorize(u, c)
    PROVE  IInv'
<1> USE DEF IInv
<1>1. CASE Authorized(u, c)
  <2>1. /\ auth[u][c] = 0 /\ unauth[c] > 0 /\ used' = used
        /\ unauth' = [unauth EXCEPT ![c] = 0]
        /\ LeaveUnauth(NodeOf[c], {c}, nidxuLeft[NodeOf[c]])
        /\ auth' = [auth EXCEPT ![u][c] = TTL]
        /\ nidx' = [nidx EXCEPT ![u][c] = TTL]
        /\ nidxLeft' = [nidxLeft EXCEPT ![u][NodeOf[c]] = 2 * TTL]
      BY <1>1 DEF Authorized
  <2>2. unauth' \in [Conns -> 0 .. UnauthTTL] /\ nidxuLeft[NodeOf[c]] \in 0 .. SweepTTL
      BY <2>1, NodeOfConn, TTLAssumption DEF UnauthInv, UnauthType
  <2>10. \A d \in Conns : unauth'[d] = (IF d \in {c} THEN 0 ELSE unauth[d])
      BY <2>1 DEF UnauthInv, UnauthType
  <2>3. UnauthInv'
      BY <2>1, <2>2, <2>10, NodeOfConn, LeaveUnauthKeeps
  <2>11. PICK S \in SUBSET Conns : S = {}
      OBVIOUS
  <2>4. /\ nidx' = [nidx EXCEPT ![u] = [Put(@, S, NoEntry) EXCEPT ![c] = TTL]]
        /\ \A d \in S : nidx[u][d] = 0
      BY <2>1, <2>11 DEF Put, AuthInv, AuthType
  <2>5. PICK left \in UserIndexTTL .. (SweepTTL + 2 * TTL) : left = 2 * TTL
      BY TTLAssumption
  <2>6. AuthInv'
    <3>1. nidxLeft' = [nidxLeft EXCEPT ![u][NodeOf[c]] = left]
        BY <2>1, <2>5
    <3>2. auth' = [auth EXCEPT ![u][c] = TTL] /\ AuthInv
        BY <2>1
    <3> QED
        BY <2>4, <3>1, <3>2, RefreshKeeps
  <2>7. c \in used /\ \A v \in Users : auth[v][c] = 0
      BY <2>1, TTLAssumption DEF UnusedIsUnknown, OneSessionPerConn, UnauthInv, UnauthType, AuthInv, AuthType
  <2>8. /\ \A d \in Conns : unauth'[d] = (IF d = c THEN 0 ELSE unauth[d])
        /\ \A v \in Users, d \in Conns : auth'[v][d] = (IF v = u /\ d = c THEN TTL ELSE auth[v][d])
      BY <2>1 DEF UnauthInv, UnauthType, AuthInv, AuthType
  <2>9. UnusedIsUnknown' /\ OneSessionPerConn'
      BY <2>1, <2>7, <2>8 DEF UnusedIsUnknown, OneSessionPerConn
  <2> QED
      BY <2>3, <2>6, <2>9
<1>2. CASE AuthorizeMissing(u, c)
  <2>1. /\ unauth[c] = 0 /\ unauth' = unauth /\ used' = used
        /\ UNCHANGED <<auth, nidx, nidxLeft>>
        /\ LeaveUnauth(NodeOf[c], {c}, nidxuLeft[NodeOf[c]])
      BY <1>2 DEF AuthorizeMissing, authVars
  <2>2. nidxuLeft[NodeOf[c]] \in 0 .. SweepTTL
      BY NodeOfConn DEF UnauthInv, UnauthType
  <2>3. UnauthInv'
      BY <2>1, <2>2, NodeOfConn, LeaveUnauthKeeps DEF UnauthInv, UnauthType
  <2> QED
      BY <2>1, <2>3 DEF AuthInv, AuthType, ListedAsItLives, UnlistedIsQuiet, IndexLasts,
                        UnusedIsUnknown, OneSessionPerConn
<1>3. CASE AuthorizeExists(u, c)
    BY <1>3 DEF AuthorizeExists, presenceVars, unauthVars, authVars, AuthInv, AuthType, UnauthInv,
                UnauthType, ListedAsItLives, UnlistedIsQuiet, IndexLasts, UnauthIsListed,
                UnauthOutlived, UnusedIsUnknown, OneSessionPerConn
<1> QED
    BY <1>1, <1>2, <1>3 DEF Authorize

\* Steps of the authorised side leave the waiting connections alone.
LEMMA UnauthKept ==
    ASSUME UnauthInv, UNCHANGED <<used, unauthVars>>
    PROVE  UnauthInv' /\ UNCHANGED <<used, unauth>>
    BY DEF UnauthInv, UnauthType, UnauthIsListed, UnauthOutlived, unauthVars

\* Sessions that end take nothing from the others.
LEMMA LeaveStep ==
    ASSUME IInv, NEW u \in Users, NEW n \in Nodes, NEW S \in SUBSET Conns,
           NEW left \in 0 .. (SweepTTL + 2 * TTL),
           left = nidxLeft[u][n] \/ UserIndexTTL <= left \/ Members(u, n) \subseteq S,
           Leave(u, n, S, left)
    PROVE  IInv'
<1> USE DEF IInv
<1>1. UnauthInv' /\ UNCHANGED <<used, unauth>>
    BY UnauthKept DEF Leave
<1>2. AuthInv' /\ \A v \in Users, d \in Conns : auth'[v][d] \in {0, auth[v][d]}
    BY LeaveKeeps
<1>3. \A v \in Users, d \in Conns : auth'[v][d] > 0 => auth[v][d] > 0
  <2> SUFFICES ASSUME NEW v \in Users, NEW d \in Conns, auth'[v][d] > 0
               PROVE  auth[v][d] > 0
      OBVIOUS
  <2>1. auth'[v][d] = 0 \/ auth'[v][d] = auth[v][d]
      BY <1>2
  <2> QED
      BY <2>1
<1>4. unauth' \in [Conns -> 0 .. UnauthTTL] /\ auth' \in [Users -> [Conns -> 0 .. TTL]]
    BY <1>1, <1>2 DEF AuthInv, AuthType, UnauthInv, UnauthType
<1>5. \A d \in Conns : unauth'[d] > 0 => unauth[d] > 0
    BY <1>1
<1> QED
    BY <1>1, <1>2, <1>3, <1>4, <1>5, SessionsStayApart

LEMMA HeartbeatKeeps ==
    ASSUME IInv, NEW u \in Users, NEW c \in Conns, HeartbeatAuthorized(u, c)
    PROVE  IInv'
<1> USE DEF IInv
<1>1. UnauthInv' /\ UNCHANGED <<used, unauth>>
    BY UnauthKept DEF HeartbeatAuthorized
<1>3. CASE auth[u][c] > 0 /\ Renew(u, c)
  <2>1. /\ auth' = [auth EXCEPT ![u][c] = TTL]
        /\ nidx' = [nidx EXCEPT ![u] = [Put(@, Due(u, NodeOf[c]), NoEntry) EXCEPT ![c] = TTL]]
        /\ nidxLeft' = [nidxLeft EXCEPT ![u][NodeOf[c]] = UserIndexTTL]
      BY <1>3 DEF Renew
  <2>2. Due(u, NodeOf[c]) \in SUBSET Conns /\ \A d \in Due(u, NodeOf[c]) : nidx[u][d] = 0
      BY DEF Due, Members
  <2>3. UserIndexTTL \in UserIndexTTL .. (SweepTTL + 2 * TTL)
      BY TTLAssumption
  <2>4. AuthInv'
      BY <2>1, <2>2, <2>3, RefreshKeeps
  <2>5. \A v \in Users, d \in Conns : auth'[v][d] > 0 => auth[v][d] > 0
      BY <1>3, <2>1 DEF AuthInv, AuthType
  <2> QED
      BY <1>1, <2>4, <2>5, SessionsStayApart DEF AuthInv, AuthType, UnauthInv, UnauthType
<1>4. CASE UNCHANGED authVars
    BY <1>1, <1>4 DEF authVars, AuthInv, AuthType, ListedAsItLives, UnlistedIsQuiet, IndexLasts,
                      UnusedIsUnknown, OneSessionPerConn
<1> QED
    BY <1>3, <1>4 DEF HeartbeatAuthorized

LEMMA EndSteps ==
    ASSUME IInv, NEW u \in Users, NEW n \in Nodes,
           \/ \E c \in Conns : Offline(u, c)
           \/ ForceLogoutUser(u, n) \/ SweepAuthedUser(u, n)
    PROVE  IInv'
<1>1. /\ SweepTTL \in 0 .. (SweepTTL + 2 * TTL) /\ 0 \in 0 .. (SweepTTL + 2 * TTL)
      /\ UserIndexTTL <= SweepTTL
    BY TTLAssumption
<1>2. ASSUME NEW c \in Conns, Offline(u, c) PROVE IInv'
  <2>1. NodeOf[c] \in Nodes /\ nidxLeft[u][NodeOf[c]] \in 0 .. (SweepTTL + 2 * TTL)
      BY NodeOfConn DEF IInv, AuthInv, AuthType
  <2> QED
      BY <1>2, <2>1, LeaveStep DEF Offline
<1>3. CASE ForceLogoutUser(u, n)
  <2>1. Members(u, n) \in SUBSET Conns
      BY DEF Members
  <2> QED
      BY <1>1, <1>3, <2>1, LeaveStep DEF ForceLogoutUser
<1>4. CASE SweepAuthedUser(u, n)
  <2>1. Due(u, n) \in SUBSET Conns
      BY DEF Due, Members
  <2> QED
      BY <1>1, <1>4, <2>1, LeaveStep DEF SweepAuthedUser
<1> QED
    BY <1>2, <1>3, <1>4

LEMMA TickKeeps == ASSUME IInv, Tick PROVE IInv'
<1> USE DEF IInv, UnauthInv, UnauthType, AuthInv, AuthType
<1>1. /\ used' = used
      /\ \A c \in Conns :
             /\ unauth'[c] = Less(unauth[c])
             /\ nidxu'[c] = (IF nidxuLeft[NodeOf[c]] <= 1 THEN NoEntry ELSE Less(nidxu[c]))
      /\ \A n \in Nodes : nidxuLeft'[n] = Less(nidxuLeft[n])
    BY DEF Tick
<1>2. \A u \in Users :
          /\ \A c \in Conns :
                /\ auth'[u][c] = Less(auth[u][c])
                /\ nidx'[u][c] = (IF nidxLeft[u][NodeOf[c]] <= 1 THEN NoEntry ELSE Less(nidx[u][c]))
          /\ \A n \in Nodes : nidxLeft'[u][n] = Less(nidxLeft[u][n])
    BY DEF Tick
<1>3. UnauthType'
    BY TTLAssumption DEF Tick, Less, NoEntry
<1>4. AuthType'
  <2>1. auth' \in [Users -> [Conns -> 0 .. TTL]]
      BY TTLAssumption DEF Tick, Less
  <2>2. nidx' \in [Users -> [Conns -> NoEntry .. TTL]]
      BY TTLAssumption DEF Tick, Less, NoEntry
  <2>3. nidxLeft' \in [Users -> [Nodes -> 0 .. (SweepTTL + 2 * TTL)]]
      BY TTLAssumption DEF Tick, Less
  <2> QED
      BY <2>1, <2>2, <2>3
<1>5. ASSUME NEW c \in Conns, unauth'[c] > 0
      PROVE  nidxu'[c] = unauth'[c] /\ unauth'[c] <= nidxuLeft'[NodeOf[c]]
  <2>1. NodeOf[c] \in Nodes /\ unauth[c] \in 0 .. UnauthTTL /\ nidxuLeft[NodeOf[c]] \in 0 .. SweepTTL
      BY NodeOfConn
  <2>2. unauth[c] > 1 /\ unauth'[c] = unauth[c] - 1
      BY <1>1, <1>5, <2>1, TTLAssumption DEF Less
  <2>3. nidxu[c] = unauth[c] /\ unauth[c] <= nidxuLeft[NodeOf[c]]
      BY <2>1, <2>2, TTLAssumption DEF UnauthIsListed, UnauthOutlived
  <2> QED
      BY <1>1, <2>1, <2>2, <2>3, TTLAssumption DEF Less
<1>6. ASSUME NEW u \in Users, NEW c \in Conns
      PROVE  /\ nidx'[u][c] # NoEntry => nidx'[u][c] = auth'[u][c]
             /\ auth'[u][c] > 0 /\ nidx'[u][c] = NoEntry => TTL - auth'[u][c] >= UserIndexTTL
             /\ auth'[u][c] > 0 /\ nidx'[u][c] # NoEntry =>
                    TTL - auth'[u][c] + nidxLeft'[u][NodeOf[c]] >= UserIndexTTL
  <2>1. /\ NodeOf[c] \in Nodes
        /\ auth[u][c] \in 0 .. TTL /\ nidx[u][c] \in NoEntry .. TTL
        /\ nidxLeft[u][NodeOf[c]] \in 0 .. (SweepTTL + 2 * TTL)
      BY NodeOfConn
  <2>2. /\ nidx[u][c] # NoEntry => nidx[u][c] = auth[u][c]
        /\ auth[u][c] > 0 /\ nidx[u][c] = NoEntry => TTL - auth[u][c] >= UserIndexTTL
        /\ auth[u][c] > 0 /\ nidx[u][c] # NoEntry =>
               TTL - auth[u][c] + nidxLeft[u][NodeOf[c]] >= UserIndexTTL
      BY DEF ListedAsItLives, UnlistedIsQuiet, IndexLasts
  <2>3. /\ auth'[u][c] = (IF auth[u][c] > 0 THEN auth[u][c] - 1 ELSE auth[u][c])
        /\ nidxLeft'[u][NodeOf[c]] = (IF nidxLeft[u][NodeOf[c]] > 0
                                      THEN nidxLeft[u][NodeOf[c]] - 1
                                      ELSE nidxLeft[u][NodeOf[c]])
        /\ nidx'[u][c] = (IF nidxLeft[u][NodeOf[c]] <= 1 THEN NoEntry
                          ELSE IF nidx[u][c] > 0 THEN nidx[u][c] - 1 ELSE nidx[u][c])
      BY <1>2, <2>1 DEF Less
  <2> HIDE DEF IInv, UnauthInv, UnauthType, AuthInv, AuthType
  <2> QED
      BY <2>1, <2>2, <2>3, TTLAssumption DEF NoEntry
<1>7. UnauthInv' /\ AuthInv'
    BY <1>3, <1>4, <1>5, <1>6
    DEF UnauthIsListed, UnauthOutlived, ListedAsItLives, UnlistedIsQuiet, IndexLasts
<1>8. /\ \A c \in Conns : unauth'[c] > 0 => unauth[c] > 0
      /\ \A u \in Users, c \in Conns : auth'[u][c] > 0 => auth[u][c] > 0
    BY <1>1, <1>2 DEF Less
<1> QED
    BY <1>1, <1>3, <1>4, <1>7, <1>8, SessionsStayApart

LEMMA StepIInv == IInv /\ [PresenceNext]_presenceVars => IInv'
<1> SUFFICES ASSUME IInv, [PresenceNext]_presenceVars
             PROVE  IInv'
    OBVIOUS
<1>1. CASE UNCHANGED presenceVars
    BY <1>1 DEF IInv, presenceVars, unauthVars, authVars, AuthInv, AuthType, UnauthInv,
                UnauthType, ListedAsItLives, UnlistedIsQuiet, IndexLasts, UnauthIsListed,
                UnauthOutlived, UnusedIsUnknown, OneSessionPerConn
<1>2. ASSUME NEW c \in Conns, Connect(c) \/ HeartbeatUnauth(c) \/ OfflineUnauth(c) PROVE IInv'
    BY <1>2, NodeOfConn, UnauthSteps
<1>3. ASSUME NEW n \in Nodes, SweepUnauth(n) PROVE IInv'
    BY <1>3, SweepUnauthKeeps
<1>4. ASSUME NEW u \in Users, NEW c \in Conns,
             Authorize(u, c) \/ HeartbeatAuthorized(u, c) \/ Offline(u, c)
      PROVE  IInv'
    BY <1>4, NodeOfConn, AuthorizeKeeps, HeartbeatKeeps, EndSteps
<1>5. ASSUME NEW u \in Users, NEW n \in Nodes, ForceLogoutUser(u, n) \/ SweepAuthedUser(u, n)
      PROVE  IInv'
    BY <1>5, EndSteps
<1> QED
    BY <1>1, <1>2, <1>3, <1>4, <1>5, TickKeeps DEF PresenceNext

-----------------------------------------------------------------------------
(* Theorems *)

\* The inductive invariant of the online store.
THEOREM Inductive == PresenceSpec => []IInv
    BY InitIInv, StepIInv, PTL DEF PresenceSpec

\* Every key and index keeps its type and its bounds.
THEOREM TypeCorrect == PresenceSpec => []PresenceTypeOK
<1>1. IInv => PresenceTypeOK
    BY DEF IInv, UnauthInv, UnauthType, AuthInv, AuthType, PresenceTypeOK
<1> QED
    BY <1>1, Inductive, PTL

\* An index never says of a session what is not true of it.
THEOREM IndexIsTrue == PresenceSpec => []ListedAsItLives
<1>1. IInv => ListedAsItLives
    BY DEF IInv, AuthInv
<1> QED
    BY <1>1, Inductive, PTL

\* A live session that is in no index has been silent for UserIndexTTL.
THEOREM SilenceUnlists == PresenceSpec => []UnlistedIsQuiet
<1>1. IInv => UnlistedIsQuiet
    BY DEF IInv, AuthInv
<1> QED
    BY <1>1, Inductive, PTL

\* No connection has two sessions.
THEOREM SessionsAreApart == PresenceSpec => []OneSessionPerConn
<1>1. IInv => OneSessionPerConn
    BY DEF IInv
<1> QED
    BY <1>1, Inductive, PTL

\* The sweep of waiting connections reads all of them.
THEOREM WaitingIsListed == PresenceSpec => []UnauthIsListed
<1>1. IInv => UnauthIsListed
    BY DEF IInv, UnauthInv
<1> QED
    BY <1>1, Inductive, PTL

\* What IsOnline and GetNewestSession answer is true of the session keys.
THEOREM AnswersAreTrue == PresenceSpec => []AnswersHold
<1>1. IInv => AnswersHold
  <2> SUFFICES ASSUME IInv, NEW u \in Users, NEW n \in Nodes
               PROVE  /\ IsOnline(u, n) => \E c \in Conns : NodeOf[c] = n /\ auth[u][c] > 0
                      /\ \A c \in GetNewestSession(u, n), d \in Members(u, n) :
                             auth[u][d] <= auth[u][c]
      BY DEF AnswersHold
  <2>1. \A c \in Members(u, n) :
            c \in Conns /\ NodeOf[c] = n /\ nidx[u][c] = auth[u][c] /\ auth[u][c] \in 0 .. TTL
      BY DEF IInv, AuthInv, AuthType, ListedAsItLives, Members
  <2>2. \A c \in GetActiveSessions(u, n) : c \in Members(u, n) /\ auth[u][c] > 0
      BY <2>1, TTLAssumption DEF GetActiveSessions, Due
  <2>3. \A d \in Members(u, n) : d \in GetActiveSessions(u, n) \/ auth[u][d] = 0
      BY <2>1 DEF GetActiveSessions, Due
  <2> QED
      BY <2>1, <2>2, <2>3, TTLAssumption DEF IsOnline, GetNewestSession
<1> QED
    BY <1>1, Inductive, PTL

(***************************************************************************)
(* The gateway's sessions: their invariant.                                *)
(***************************************************************************)

SessionType ==
    /\ reader \in [Conns -> {"none", "reading", "binding", "done", "lost"}]
    /\ session \in [Conns -> Conns]
    /\ claim \in [Conns -> Users \cup {NoUser}]
    /\ \A d \in Conns :
          reader[d] = "binding" => claim[d] \in Users /\ NodeOf[session[d]] = NodeOf[d]
    /\ writer \subseteq Conns /\ registered \subseteq Conns
    /\ strayed \subseteq Conns /\ late \subseteq Conns
    /\ ping \in [Conns -> 0 .. PingEvery]
    /\ missed \in [Conns -> 0 .. MaxMissed]
    /\ bound \in [Conns -> Users \cup {NoUser}]
    /\ granted \in [Conns -> Users \cup {NoUser}]

\* AUTH ends the unauthenticated session for good, or finds that it has ended.
GrantedOnce ==
    /\ \A c \in Conns : granted[c] # NoUser \/ bound[c] # NoUser => c \in used /\ unauth[c] = 0
    /\ \A d \in Conns :
          reader[d] = "binding" => session[d] \in used /\ unauth[session[d]] = 0

\* A read loop, c's own or another of its gateway, is about to bind c to u.
Pending(c, u) ==
    /\ c \in registered
    /\ \E d \in Conns : reader[d] = "binding" /\ session[d] = c /\ claim[d] = u

\* What a connection that did not stray is bound to, and when it is bound.
BoundAsGranted ==
    \A c \in Conns : c \notin strayed =>
        /\ bound[c] \in {NoUser, granted[c]}
        /\ reader[c] \in {"reading", "binding"} /\ c \in registered /\ granted[c] # NoUser
               => bound[c] # NoUser \/ Pending(c, granted[c])

HandlerInv ==
    /\ SessionType
    /\ GrantedOnce
    /\ BoundAsGranted
    /\ UngrantedIsInvisible
    /\ OfflineStaysOffline

SessionInv == IInv /\ HandlerInv

\* Both loops of c run, and u is bound, or will be by the AUTH under way.
Serves(c, u) ==
    /\ reader[c] \in {"reading", "binding"} /\ c \in writer
    /\ granted[c] = u /\ c \notin strayed
    /\ bound[c] = u \/ Pending(c, u)

\* Such a session is listed, and no older than the heartbeats refused since and the
\* time its ticker has run account for; before it is bound no time has passed.
RenewedOf(c, u) ==
    /\ auth[u][c] > 0 /\ nidx[u][c] # NoEntry
    /\ TTL - auth[u][c] <= (missed[c] + 1) * PingEvery - ping[c]
    /\ bound[c] # u => auth[u][c] = TTL

ServedIsRenewed == \A c \in Conns, u \in Users : Serves(c, u) => RenewedOf(c, u)

-----------------------------------------------------------------------------
(* The steps of the sessions, as operations of the online store *)

LEMMA InitSessionInv == Init => SessionInv /\ ServedIsRenewed
<1> SUFFICES ASSUME Init PROVE SessionInv /\ ServedIsRenewed
    OBVIOUS
<1>1. IInv
    BY InitIInv DEF Init
<1>2. SessionType /\ GrantedOnce /\ BoundAsGranted
    BY SessionAssumption DEF Init, SessionType, GrantedOnce, BoundAsGranted, Pending
<1>3. UngrantedIsInvisible /\ OfflineStaysOffline
    BY DEF Init, PresenceInit, UngrantedIsInvisible, OfflineStaysOffline
<1>4. ServedIsRenewed
    BY DEF Init, ServedIsRenewed, Serves
<1> QED
    BY <1>1, <1>2, <1>3, <1>4 DEF SessionInv, HandlerInv

\* The handlers and the ticker touch presence only through its operations.
LEMMA PresenceStep == SessionType /\ [Next]_vars => [PresenceNext]_presenceVars
<1> SUFFICES ASSUME SessionType, Next
             PROVE  PresenceNext \/ UNCHANGED presenceVars
    BY DEF vars
<1>1. ASSUME NEW c \in Conns, Open(c) PROVE PresenceNext
    BY <1>1 DEF Open, PresenceNext
<1>2. ASSUME NEW d \in Conns, NEW c \in Conns, NEW u \in Users, AuthFrame(d, c, u) \/ AuthLost(d, c, u)
      PROVE  PresenceNext \/ UNCHANGED presenceVars
    BY <1>2 DEF AuthFrame, AuthLost, PresenceNext
<1>3. ASSUME NEW c \in Conns, BindUser(c) \/ Break(c) PROVE UNCHANGED presenceVars
    BY <1>3 DEF BindUser, Break
<1>4. ASSUME NEW c \in Conns, PingTick(c) PROVE PresenceNext \/ UNCHANGED presenceVars
  <2>1. Beat(c) \/ UNCHANGED presenceVars
      BY <1>4 DEF PingTick, Tock
  <2>2. bound[c] # NoUser => bound[c] \in Users
      BY DEF SessionType
  <2> QED
      BY <2>1, <2>2 DEF Beat, PresenceNext
<1>5. ASSUME NEW c \in Conns, ReadEnds(c) PROVE PresenceNext \/ UNCHANGED presenceVars
  <2>1. GoOffline(c) \/ UNCHANGED presenceVars
      BY <1>5 DEF ReadEnds
  <2>2. bound[c] # NoUser => bound[c] \in Users
      BY DEF SessionType
  <2> QED
      BY <2>1, <2>2 DEF GoOffline, PresenceNext
<1>6. ASSUME NEW n \in Nodes, Crash(n) PROVE UNCHANGED presenceVars
    BY <1>6 DEF Crash
<1>7. ASSUME PassTime PROVE PresenceNext
    BY <1>7 DEF PassTime, PresenceNext
<1> QED
    BY <1>1, <1>2, <1>3, <1>4, <1>5, <1>6, <1>7 DEF Next

\* AUTH either makes the session u's, which nobody's it was, or changes no session.
MakesIt(c, u) ==
    /\ granted[c] = NoUser /\ bound[c] = NoUser
    /\ granted' = [granted EXCEPT ![c] = u]
    /\ unauth' = [unauth EXCEPT ![c] = 0]
    /\ auth' = [auth EXCEPT ![u][c] = TTL]
    /\ nidx' = [nidx EXCEPT ![u][c] = TTL]

ChangesNone == granted' = granted /\ unauth' = unauth /\ UNCHANGED authVars

LEMMA AuthorizeEffect ==
    ASSUME SessionInv, NEW c \in Conns, NEW u \in Users, Authorize(u, c), Grant(c, u)
    PROVE  /\ used' = used /\ c \in used /\ unauth'[c] = 0
           /\ Authorized(u, c) => MakesIt(c, u)
           /\ ~Authorized(u, c) => ChangesNone
<1>1. /\ unauth \in [Conns -> 0 .. UnauthTTL] /\ auth[u][c] \in 0 .. TTL
      /\ unauth[c] \in 0 .. UnauthTTL /\ c \in used
    BY DEF SessionInv, IInv, UnauthInv, UnauthType, AuthInv, AuthType, Authorize
<1>2. granted \in [Conns -> Users \cup {NoUser}]
    BY DEF SessionInv, HandlerInv, SessionType
<1>3. granted' = [granted EXCEPT ![c] = IF Authorized(u, c) THEN u ELSE granted[c]]
    BY DEF Grant
<1>4. CASE Authorized(u, c)
  <2>1. granted' = [granted EXCEPT ![c] = u]
      BY <1>3, <1>4
  <2>2. unauth[c] > 0 /\ granted[c] = NoUser /\ bound[c] = NoUser
      BY <1>1, <1>4 DEF SessionInv, HandlerInv, GrantedOnce, Authorized
  <2> QED
      BY <1>1, <1>4, <2>1, <2>2 DEF Authorized, MakesIt
<1>5. CASE ~ Authorized(u, c)
  <2>1. granted' = granted
      BY <1>2, <1>3, <1>5
  <2>2. CASE AuthorizeMissing(u, c)
      BY <1>1, <1>5, <2>1, <2>2 DEF AuthorizeMissing, ChangesNone, authVars
  <2>3. CASE AuthorizeExists(u, c)
    <3>1. unauth[c] = 0
        BY <2>3 DEF AuthorizeExists, SessionInv, IInv, OneSessionPerConn
    <3> QED
        BY <1>1, <1>5, <2>1, <2>3, <3>1 DEF AuthorizeExists, ChangesNone, presenceVars, unauthVars, authVars
  <2> QED
      BY <1>5, <2>2, <2>3 DEF Authorize
<1> QED
    BY <1>4, <1>5

\* A script that did not run made nothing anybody's.
LEMMA NothingRan ==
    ASSUME SessionInv, NEW c \in Conns, NEW u \in Users, UNCHANGED presenceVars, Grant(c, u)
    PROVE  used' = used /\ ~Authorized(u, c) /\ ChangesNone
<1>1. unauth \in [Conns -> 0 .. UnauthTTL] /\ unauth' = unauth /\ used' = used
    BY DEF SessionInv, IInv, UnauthInv, UnauthType, presenceVars, unauthVars
<1>2. ~Authorized(u, c)
    BY <1>1 DEF Authorized
<1>3. granted \in [Conns -> Users \cup {NoUser}]
    BY DEF SessionInv, HandlerInv, SessionType
<1>4. granted' = granted
    BY <1>2, <1>3 DEF Grant
<1> QED
    BY <1>1, <1>2, <1>4 DEF ChangesNone, presenceVars

\* A heartbeat renews the session c is bound to, if it lives, and takes from the index
\* only what has expired.
LEMMA BeatEffect ==
    ASSUME SessionInv, NEW c \in Conns, Beat(c)
    PROVE  /\ used' = used /\ unauth' = unauth
           /\ \/ /\ UNCHANGED authVars
                 /\ bound[c] \in Users => auth[bound[c]][c] = 0
              \/ /\ bound[c] \in Users /\ auth[bound[c]][c] > 0
                 /\ auth' = [auth EXCEPT ![bound[c]][c] = TTL]
                 /\ nidx'[bound[c]][c] = TTL
                 /\ \A v \in Users, d \in Conns :
                        v # bound[c] \/ d # c =>
                            \/ nidx'[v][d] = nidx[v][d]
                            \/ nidx'[v][d] = NoEntry /\ nidx[v][d] = 0
<1>1. bound[c] \in Users \cup {NoUser}
    BY DEF SessionInv, HandlerInv, SessionType
<1>2. /\ auth \in [Users -> [Conns -> 0 .. TTL]]
      /\ nidx \in [Users -> [Conns -> NoEntry .. TTL]]
    BY DEF SessionInv, IInv, AuthInv, AuthType
<1>3. CASE bound[c] = NoUser
    BY <1>3, SessionAssumption DEF Beat, presenceVars, unauthVars
<1>4. CASE bound[c] \in Users
  <2> DEFINE u == bound[c]
  <2>1. HeartbeatAuthorized(u, c)
      BY <1>4, SessionAssumption DEF Beat
  <2>2. used' = used /\ unauth' = unauth
      BY <2>1 DEF HeartbeatAuthorized, unauthVars
  <2>3. CASE auth[u][c] = 0 /\ UNCHANGED authVars
      BY <2>2, <2>3
  <2>4. CASE auth[u][c] > 0 /\ Renew(u, c)
    <3>1. /\ auth' = [auth EXCEPT ![u][c] = TTL]
          /\ nidx' = [nidx EXCEPT ![u] = [Put(nidx[u], Due(u, NodeOf[c]), NoEntry) EXCEPT ![c] = TTL]]
        BY <2>4 DEF Renew
    <3>2. \A d \in Due(u, NodeOf[c]) : nidx[u][d] = 0
        BY DEF Due
    <3>3. nidx'[u][c] = TTL
        BY <1>2, <1>4, <3>1 DEF Put
    <3>4. ASSUME NEW v \in Users, NEW d \in Conns, v # u \/ d # c
          PROVE  nidx'[v][d] = nidx[v][d] \/ (nidx'[v][d] = NoEntry /\ nidx[v][d] = 0)
        BY <1>2, <1>4, <3>1, <3>2, <3>4 DEF Put
    <3> QED
        BY <1>4, <2>2, <2>4, <3>1, <3>3, <3>4
  <2> QED
      BY <2>1, <2>3, <2>4 DEF HeartbeatAuthorized
<1> QED
    BY <1>1, <1>3, <1>4

\* Going offline ends the session of the user c is bound to and no other.
LEMMA OfflineEffect ==
    ASSUME SessionInv, NEW c \in Conns, GoOffline(c)
    PROVE  /\ used' = used
           /\ \A d \in Conns : unauth[d] = 0 => unauth'[d] = 0
           /\ \A v \in Users, d \in Conns :
                  IF v = bound[c] /\ d = c
                  THEN auth'[v][d] = 0 /\ nidx'[v][d] = NoEntry
                  ELSE auth'[v][d] = auth[v][d] /\ nidx'[v][d] = nidx[v][d]
<1>1. bound[c] \in Users \cup {NoUser}
    BY DEF SessionInv, HandlerInv, SessionType
<1>2. /\ auth \in [Users -> [Conns -> 0 .. TTL]]
      /\ nidx \in [Users -> [Conns -> NoEntry .. TTL]]
      /\ unauth \in [Conns -> 0 .. UnauthTTL]
    BY DEF SessionInv, IInv, UnauthInv, UnauthType, AuthInv, AuthType
<1>3. CASE bound[c] = NoUser
  <2>1. OfflineUnauth(c)
      BY <1>3 DEF GoOffline
  <2> QED
      BY <1>2, <1>3, <2>1, SessionAssumption DEF OfflineUnauth, authVars
<1>4. CASE bound[c] \in Users
  <2>1. Offline(bound[c], c)
      BY <1>4, SessionAssumption DEF GoOffline
  <2>2. /\ auth' = [auth EXCEPT ![bound[c]] = Put(auth[bound[c]], {c}, 0)]
        /\ nidx' = [nidx EXCEPT ![bound[c]] = Put(nidx[bound[c]], {c}, NoEntry)]
        /\ used' = used /\ unauth' = unauth
      BY <2>1 DEF Offline, Leave, unauthVars
  <2> QED
      BY <1>2, <1>4, <2>2 DEF Put
<1> QED
    BY <1>1, <1>3, <1>4

-----------------------------------------------------------------------------
(* Each step keeps what the handlers know of a connection *)

LEMMA OpenKeeps ==
    ASSUME SessionInv, NEW c \in Conns, Open(c)
    PROVE  HandlerInv'
<1> USE DEF SessionInv, HandlerInv
<1>1. /\ reader[c] = "none" /\ reader' = [reader EXCEPT ![c] = "reading"]
      /\ writer' = writer \cup {c} /\ registered' = registered \cup {c}
      /\ ping' = [ping EXCEPT ![c] = PingEvery]
      /\ UNCHANGED <<session, claim, missed, bound, granted, strayed, late>>
    BY DEF Open, bindVars, frameVars
<1>2. /\ c \notin used /\ used' = used \cup {c}
      /\ unauth' = [unauth EXCEPT ![c] = UnauthTTL]
      /\ UNCHANGED <<auth, nidx>>
    BY DEF Open, Connect, authVars
<1>3. SessionType'
    BY <1>1, SessionAssumption DEF SessionType
<1>4. granted[c] = NoUser /\ bound[c] = NoUser
    BY <1>2 DEF GrantedOnce
<1>5. GrantedOnce' /\ BoundAsGranted'
    BY <1>1, <1>2, <1>4
    DEF SessionType, GrantedOnce, BoundAsGranted, Pending, IInv, UnauthInv, UnauthType
<1>6. UngrantedIsInvisible' /\ OfflineStaysOffline'
    BY <1>1, <1>2 DEF SessionType, UngrantedIsInvisible, OfflineStaysOffline
<1> QED
    BY <1>3, <1>5, <1>6

\* A session that becomes u's was bound to nobody, so nobody that went offline with it
\* is found again.
LEMMA MakesItVisible ==
    ASSUME SessionInv, NEW c \in Conns, NEW u \in Users, MakesIt(c, u), UNCHANGED <<bound, late>>,
           \A d \in Conns : reader'[d] = "done" => reader[d] = "done"
    PROVE  UngrantedIsInvisible' /\ OfflineStaysOffline'
<1> USE DEF SessionInv, HandlerInv
<1>1. /\ auth \in [Users -> [Conns -> 0 .. TTL]]
      /\ nidx \in [Users -> [Conns -> NoEntry .. TTL]]
      /\ granted \in [Conns -> Users \cup {NoUser}]
    BY DEF IInv, AuthInv, AuthType, SessionType
<1>2. ASSUME NEW d \in Conns, NEW v \in Users, v # u \/ d # c
      PROVE  auth'[v][d] = auth[v][d] /\ nidx'[v][d] = nidx[v][d]
    BY <1>1, <1>2 DEF MakesIt
<1>3. UngrantedIsInvisible'
  <2> SUFFICES ASSUME NEW d \in Conns, NEW v \in Users, granted'[d] # v
               PROVE  nidx'[v][d] = NoEntry /\ auth'[v][d] = 0
      BY DEF UngrantedIsInvisible
  <2>1. granted[d] # v /\ (v # u \/ d # c)
      BY <1>1, SessionAssumption DEF MakesIt
  <2> QED
      BY <1>2, <2>1 DEF UngrantedIsInvisible
<1>4. OfflineStaysOffline'
  <2> SUFFICES ASSUME NEW d \in Conns, NEW v \in Users,
                      reader'[d] = "done", bound'[d] = v, d \notin late'
               PROVE  auth'[v][d] = 0 /\ nidx'[v][d] = NoEntry
      BY DEF OfflineStaysOffline
  <2>1. d # c /\ reader[d] = "done" /\ bound[d] = v /\ d \notin late
      BY SessionAssumption DEF MakesIt
  <2> QED
      BY <1>2, <2>1 DEF OfflineStaysOffline
<1> QED
    BY <1>3, <1>4

LEMMA AuthFrameKeeps ==
    ASSUME SessionInv, NEW d \in Conns, NEW c \in Conns, NEW u \in Users, AuthFrame(d, c, u)
    PROVE  HandlerInv'
<1> USE DEF SessionInv, HandlerInv
<1>1. /\ reader[d] = "reading" /\ reader' = [reader EXCEPT ![d] = "binding"]
      /\ session' = [session EXCEPT ![d] = c] /\ claim' = [claim EXCEPT ![d] = u]
      /\ NodeOf[c] = NodeOf[d]
      /\ UNCHANGED <<writer, ping, missed, registered, bound, strayed, late>>
    BY DEF AuthFrame, Claims
<1>2. /\ used' = used /\ c \in used /\ unauth'[c] = 0
      /\ MakesIt(c, u) \/ ChangesNone
  <2>1. Authorize(u, c) /\ Grant(c, u)
      BY DEF AuthFrame
  <2> QED
      BY <2>1, AuthorizeEffect
<1>3. SessionType'
    BY <1>1, <1>2 DEF SessionType, MakesIt, ChangesNone
<1>4. \A e \in Conns : unauth[e] = 0 => unauth'[e] = 0
    BY <1>2 DEF MakesIt, ChangesNone, IInv, UnauthInv, UnauthType
<1>5. GrantedOnce'
  <2>1. \A e \in Conns : e = c \/ granted'[e] = granted[e]
      BY <1>2 DEF MakesIt, ChangesNone, SessionType
  <2> QED
      BY <1>1, <1>2, <1>4, <2>1 DEF GrantedOnce, SessionType
<1>6. BoundAsGranted'
  <2>1. ASSUME NEW e \in Conns, NEW v \in Users, Pending(e, v) PROVE Pending(e, v)'
      BY <1>1, <2>1 DEF SessionType, Pending
  <2>2. c \in registered => Pending(c, u)'
      BY <1>1 DEF SessionType, Pending
  <2>3. \A e \in Conns : reader'[e] \in {"reading", "binding"} => reader[e] \in {"reading", "binding"}
      BY <1>1 DEF SessionType
  <2>4. CASE ChangesNone
    <3>1. granted' = granted /\ granted \in [Conns -> Users \cup {NoUser}]
        BY <2>4 DEF ChangesNone, SessionType
    <3> QED
        BY <1>1, <2>1, <2>3, <3>1 DEF BoundAsGranted
  <2>5. CASE MakesIt(c, u)
    <3>1. granted \in [Conns -> Users \cup {NoUser}]
        BY DEF SessionType
    <3>2. granted'[c] = u /\ bound[c] = NoUser /\ \A e \in Conns \ {c} : granted'[e] = granted[e]
        BY <2>5, <3>1 DEF MakesIt
    <3> QED
        BY <1>1, <2>1, <2>2, <2>3, <3>1, <3>2 DEF BoundAsGranted
  <2> QED
      BY <1>2, <2>4, <2>5
<1>7. UngrantedIsInvisible' /\ OfflineStaysOffline'
  <2>1. \A e \in Conns : reader'[e] = "done" => reader[e] = "done"
      BY <1>1 DEF SessionType
  <2>2. CASE MakesIt(c, u)
      BY <1>1, <2>1, <2>2, MakesItVisible
  <2>3. CASE ChangesNone
      BY <1>1, <2>1, <2>3 DEF ChangesNone, authVars, UngrantedIsInvisible, OfflineStaysOffline
  <2> QED
      BY <1>2, <2>2, <2>3
<1> QED
    BY <1>3, <1>5, <1>6, <1>7

LEMMA AuthLostKeeps ==
    ASSUME SessionInv, NEW d \in Conns, NEW c \in Conns, NEW u \in Users, AuthLost(d, c, u)
    PROVE  HandlerInv'
<1> USE DEF SessionInv, HandlerInv
<1>1. /\ UNCHANGED <<reader, session, claim, writer, ping, missed, registered, bound, late>>
      /\ strayed' = IF Authorized(u, c) THEN strayed \cup {c} ELSE strayed
    BY DEF AuthLost
<1>2. /\ used' = used
      /\ \/ MakesIt(c, u) /\ c \in used /\ unauth'[c] = 0 /\ strayed' = strayed \cup {c}
         \/ ChangesNone /\ strayed' = strayed
  <2>1. Grant(c, u) /\ (Authorize(u, c) \/ UNCHANGED presenceVars)
      BY DEF AuthLost
  <2> HIDE DEF SessionInv
  <2> QED
      BY <1>1, <2>1, AuthorizeEffect, NothingRan
<1>3. CASE MakesIt(c, u) /\ c \in used /\ unauth'[c] = 0 /\ strayed' = strayed \cup {c}
  <2>1. granted \in [Conns -> Users \cup {NoUser}] /\ unauth \in [Conns -> 0 .. UnauthTTL]
      BY DEF SessionType, IInv, UnauthInv, UnauthType
  <2>2. \A e \in Conns \ {c} : granted'[e] = granted[e] /\ unauth'[e] = unauth[e]
      BY <1>3, <2>1 DEF MakesIt
  <2>3. SessionType'
      BY <1>1, <1>3 DEF SessionType, MakesIt
  <2>4. GrantedOnce'
      BY <1>1, <1>2, <1>3, <2>2 DEF GrantedOnce, SessionType
  <2>5. BoundAsGranted'
      BY <1>1, <1>3, <2>2 DEF BoundAsGranted, Pending
  <2>6. UngrantedIsInvisible' /\ OfflineStaysOffline'
      BY <1>1, <1>3, MakesItVisible
  <2> QED
      BY <2>3, <2>4, <2>5, <2>6
<1>4. CASE ChangesNone /\ strayed' = strayed
    BY <1>1, <1>2, <1>4 DEF ChangesNone, authVars, SessionType, GrantedOnce, BoundAsGranted, Pending,
                            UngrantedIsInvisible, OfflineStaysOffline
<1> QED
    BY <1>2, <1>3, <1>4

LEMMA BindUserKeeps ==
    ASSUME SessionInv, NEW d \in Conns, BindUser(d)
    PROVE  HandlerInv'
<1> DEFINE c == session[d]
           u == claim[d]
<1> USE DEF SessionInv, HandlerInv
<1>1. /\ reader[d] = "binding" /\ reader' = [reader EXCEPT ![d] = "reading"]
      /\ session' = [session EXCEPT ![d] = d] /\ claim' = [claim EXCEPT ![d] = NoUser]
      /\ UNCHANGED <<writer, ping, missed, registered, granted>>
      /\ UNCHANGED <<used, unauth, auth, nidx>>
    BY DEF BindUser, presenceVars, unauthVars, authVars
<1>2. c \in Conns /\ u \in Users /\ c \in used /\ unauth[c] = 0
    BY <1>1 DEF SessionType, GrantedOnce
<1>3. UngrantedIsInvisible'
    BY <1>1 DEF UngrantedIsInvisible
<1>4. ASSUME NEW e \in Conns, e # c \/ e \notin registered, NEW v, Pending(e, v)
      PROVE  Pending(e, v)'
    BY <1>1, <1>4 DEF SessionType, Pending
<1>5. \A e \in Conns : /\ reader'[e] \in {"reading", "binding"} <=> reader[e] \in {"reading", "binding"}
                       /\ reader'[e] = "done" <=> reader[e] = "done"
                       /\ reader'[e] = "binding" => e # d /\ reader[e] = "binding"
    BY <1>1 DEF SessionType
<1>6. CASE c \notin registered
  <2>1. UNCHANGED <<bound, strayed, late>>
      BY <1>6 DEF BindUser
  <2>2. SessionType'
      BY <1>1, <2>1 DEF SessionType
  <2>3. GrantedOnce'
      BY <1>1, <1>5, <2>1 DEF GrantedOnce, SessionType
  <2>4. BoundAsGranted'
      BY <1>1, <1>4, <1>5, <1>6, <2>1 DEF BoundAsGranted
  <2>5. OfflineStaysOffline'
      BY <1>1, <1>5, <2>1 DEF OfflineStaysOffline
  <2> QED
      BY <1>3, <2>2, <2>3, <2>4, <2>5
<1>7. CASE c \in registered
  <2>1. /\ bound' = [bound EXCEPT ![c] = u]
        /\ strayed' = IF u = granted[c] THEN strayed ELSE strayed \cup {c}
        /\ late' = IF reader[c] = "done" THEN late \cup {c} ELSE late
      BY <1>7 DEF BindUser
  <2>2. SessionType'
      BY <1>1, <1>2, <2>1 DEF SessionType
  <2>3. bound'[c] = u /\ \A e \in Conns \ {c} : bound'[e] = bound[e]
      BY <1>2, <2>1 DEF SessionType
  <2>4. GrantedOnce'
      BY <1>1, <1>2, <1>5, <2>3 DEF GrantedOnce, SessionType
  <2>5. BoundAsGranted'
    <3>1. ASSUME NEW e \in Conns, e \notin strayed'
          PROVE  /\ bound'[e] \in {NoUser, granted[e]}
                 /\ reader'[e] \in {"reading", "binding"} /\ e \in registered
                       /\ granted[e] # NoUser
                       => bound'[e] # NoUser \/ Pending(e, granted[e])'
      <4>1. CASE e = c
          BY <1>2, <2>1, <2>3, <3>1, <4>1, SessionAssumption
      <4>2. CASE e # c
        <5>1. e \notin strayed /\ bound'[e] = bound[e]
            BY <2>1, <2>3, <3>1, <4>2
        <5>2. \A v : Pending(e, v) => Pending(e, v)'
            BY <1>4, <4>2
        <5>3. granted' = granted
            BY <1>1
        <5>4. Pending(e, granted[e]) => Pending(e, granted[e])'
            BY <5>2, <5>3
        <5> HIDE DEF c, u
        <5> QED
            BY <1>5, <5>1, <5>4 DEF BoundAsGranted
      <4> QED
          BY <4>1, <4>2
    <3>2. registered' = registered /\ granted' = granted
        BY <1>1
    <3> HIDE DEF c, u
    <3> QED
        BY <3>1, <3>2 DEF BoundAsGranted
  <2>6. OfflineStaysOffline'
      BY <1>1, <1>5, <2>1, <2>3 DEF OfflineStaysOffline
  <2> QED
      BY <1>3, <2>2, <2>4, <2>5, <2>6
<1> QED
    BY <1>6, <1>7

\* What the ticker of c leaves alone, or only narrows.
LEMMA TockFrame ==
    ASSUME NEW c \in Conns, PingTick(c)
    PROVE  /\ writer' \subseteq writer /\ registered' \subseteq registered
           /\ strayed' \in {strayed, strayed \ {c}}
           /\ strayed' # strayed => bound[c] # NoUser /\ auth[bound[c]][c] > 0
           /\ UNCHANGED <<reader, session, claim, bound, granted, late>>
    BY DEF PingTick, Tock, Lives, frameVars

LEMMA PingTickKeeps ==
    ASSUME SessionInv, NEW c \in Conns, PingTick(c)
    PROVE  HandlerInv'
<1> USE DEF SessionInv, HandlerInv
<1>1. /\ ping' = [ping EXCEPT ![c] = IF c \in gone THEN 0 ELSE PingEvery]
      /\ \/ Beat(c) /\ missed' = [missed EXCEPT ![c] = 0]
         \/ /\ missed[c] < MaxMissed
            /\ missed' = [missed EXCEPT ![c] = IF c \in gone THEN 0 ELSE missed[c] + 1]
    BY DEF PingTick, Tock
<1>2. SessionType'
  <2>1. ping' \in [Conns -> 0 .. PingEvery] /\ missed' \in [Conns -> 0 .. MaxMissed]
      BY <1>1, SessionAssumption DEF SessionType
  <2> QED
      BY <2>1, TockFrame DEF SessionType
<1>3. /\ used' = used /\ unauth' = unauth
      /\ \/ UNCHANGED authVars
         \/ /\ bound[c] \in Users /\ auth[bound[c]][c] > 0
            /\ auth' = [auth EXCEPT ![bound[c]][c] = TTL]
            /\ \A v \in Users, d \in Conns :
                   v # bound[c] \/ d # c =>
                       nidx'[v][d] = nidx[v][d] \/ nidx'[v][d] = NoEntry
  <2>1. Beat(c) \/ UNCHANGED presenceVars
      BY DEF PingTick, Tock
  <2> QED
      BY <2>1, BeatEffect DEF presenceVars, unauthVars
<1>4. GrantedOnce' /\ BoundAsGranted'
  <2>1. GrantedOnce'
      BY <1>3, TockFrame DEF GrantedOnce
  <2>2. ASSUME NEW e \in Conns, e \notin strayed', e \in strayed
        PROVE  bound[e] = granted[e] /\ bound[e] # NoUser
    <3>1. e = c /\ bound[c] # NoUser /\ auth[bound[c]][c] > 0
        BY <2>2, TockFrame
    <3>2. bound[c] \in Users
        BY <3>1 DEF SessionType
    <3> QED
        BY <3>1, <3>2 DEF UngrantedIsInvisible
  <2>3. \A e \in Conns, v \in Users \cup {NoUser} :
            e \in registered' /\ Pending(e, v) => Pending(e, v)'
      BY TockFrame DEF Pending
  <2>4. ASSUME NEW e \in Conns, e \notin strayed'
        PROVE  /\ bound'[e] \in {NoUser, granted'[e]}
               /\ reader'[e] \in {"reading", "binding"} /\ e \in registered' /\ granted'[e] # NoUser
                     => bound'[e] # NoUser \/ Pending(e, granted[e])'
    <3>1. CASE e \in strayed
        BY <2>2, <2>4, <3>1, TockFrame
    <3>2. CASE e \notin strayed
      <4>1. granted[e] \in Users \cup {NoUser}
          BY DEF SessionType
      <4> QED
          BY <2>3, <3>2, <4>1, TockFrame DEF BoundAsGranted
    <3> QED
        BY <3>1, <3>2
  <2>5. granted' = granted
      BY TockFrame
  <2>6. BoundAsGranted'
      BY <2>4, <2>5 DEF BoundAsGranted, Pending
  <2> QED
      BY <2>1, <2>6
<1>5. CASE UNCHANGED authVars
  <2>1. UngrantedIsInvisible' /\ OfflineStaysOffline'
      BY <1>5, TockFrame DEF authVars, UngrantedIsInvisible, OfflineStaysOffline
  <2> QED
      BY <1>2, <1>4, <2>1
<1>6. CASE /\ bound[c] \in Users /\ auth[bound[c]][c] > 0
           /\ auth' = [auth EXCEPT ![bound[c]][c] = TTL]
           /\ \A v \in Users, d \in Conns :
                  v # bound[c] \/ d # c => nidx'[v][d] = nidx[v][d] \/ nidx'[v][d] = NoEntry
  <2>1. auth \in [Users -> [Conns -> 0 .. TTL]]
      BY DEF IInv, AuthInv, AuthType
  <2>2. granted[c] = bound[c] /\ (reader[c] # "done" \/ c \in late)
      BY <1>6 DEF UngrantedIsInvisible, OfflineStaysOffline
  <2>3. ASSUME NEW d \in Conns, NEW v \in Users, v # bound[c] \/ d # c,
               nidx[v][d] = NoEntry, auth[v][d] = 0
        PROVE  nidx'[v][d] = NoEntry /\ auth'[v][d] = 0
      BY <1>6, <2>1, <2>3
  <2>4. UngrantedIsInvisible'
      BY <2>2, <2>3, TockFrame DEF UngrantedIsInvisible
  <2>5. OfflineStaysOffline'
      BY <2>2, <2>3, TockFrame DEF OfflineStaysOffline
  <2> QED
      BY <1>2, <1>4, <2>4, <2>5
<1> QED
    BY <1>3, <1>5, <1>6

LEMMA ReadEndsKeeps ==
    ASSUME SessionInv, NEW c \in Conns, ReadEnds(c)
    PROVE  HandlerInv'
<1> USE DEF SessionInv, HandlerInv
<1>1. /\ UNCHANGED <<session, claim, writer, ping, missed, registered, bound, granted, strayed, late>>
      /\ \/ GoOffline(c) /\ reader' = [reader EXCEPT ![c] = "done"]
         \/ UNCHANGED presenceVars /\ reader' = [reader EXCEPT ![c] = "lost"]
      /\ reader[c] = "reading"
    BY DEF ReadEnds, bindVars, frameVars
<1>2. SessionType'
    BY <1>1 DEF SessionType
<1>3. /\ used' = used
      /\ \A d \in Conns : unauth[d] = 0 => unauth'[d] = 0
      /\ \A v \in Users, d \in Conns :
             auth[v][d] = 0 /\ nidx[v][d] = NoEntry => auth'[v][d] = 0 /\ nidx'[v][d] = NoEntry
    BY <1>1, OfflineEffect DEF presenceVars, unauthVars, authVars
<1>7. \A e \in Conns : /\ reader'[e] \in {"reading", "binding"} => reader[e] \in {"reading", "binding"}
                       /\ reader'[e] = "binding" <=> reader[e] = "binding"
    BY <1>1 DEF SessionType
<1>4. GrantedOnce' /\ BoundAsGranted'
    BY <1>1, <1>3, <1>7 DEF SessionType, GrantedOnce, BoundAsGranted, Pending
<1>5. UngrantedIsInvisible'
    BY <1>1, <1>3 DEF UngrantedIsInvisible
<1>6. OfflineStaysOffline'
  <2> SUFFICES ASSUME NEW d \in Conns, NEW v \in Users, reader'[d] = "done", bound'[d] = v,
                      d \notin late'
               PROVE  auth'[v][d] = 0 /\ nidx'[v][d] = NoEntry
      BY DEF OfflineStaysOffline
  <2>1. CASE reader[d] = "done"
      BY <1>1, <1>3, <2>1 DEF OfflineStaysOffline
  <2>2. CASE reader[d] # "done"
    <3>1. d = c /\ GoOffline(c)
        BY <1>1, <2>2 DEF SessionType
    <3> QED
        BY <1>1, <3>1, OfflineEffect
  <2> QED
      BY <2>1, <2>2
<1> QED
    BY <1>2, <1>4, <1>5, <1>6

LEMMA BreakKeeps ==
    ASSUME SessionInv, NEW c \in Conns, Break(c)
    PROVE  HandlerInv'
<1>1. /\ registered' \subseteq registered
      /\ UNCHANGED <<used, unauth, auth, nidx>>
      /\ UNCHANGED <<reader, session, claim, writer, ping, missed, bound, granted, strayed, late>>
    BY DEF Break, presenceVars, unauthVars, authVars, bindVars, frameVars
<1> QED
    BY <1>1 DEF SessionInv, HandlerInv, SessionType, GrantedOnce, BoundAsGranted, Pending,
                UngrantedIsInvisible, OfflineStaysOffline

LEMMA CrashKeeps ==
    ASSUME SessionInv, NEW n \in Nodes, Crash(n)
    PROVE  HandlerInv'
<1> USE DEF SessionInv, HandlerInv
<1>1. PICK own \in SUBSET Conns :
          /\ \A c \in Conns : c \in own <=> NodeOf[c] = n /\ reader[c] # "none"
          /\ reader' = Put(reader, own, "lost") /\ ping' = Put(ping, own, 0)
          /\ missed' = Put(missed, own, 0)
          /\ writer' = writer \ own /\ registered' = registered \ own
    BY DEF Crash
<1>2. /\ UNCHANGED <<used, unauth, auth, nidx>>
      /\ UNCHANGED <<session, claim, bound, granted, strayed, late>>
    BY DEF Crash, presenceVars, unauthVars, authVars, bindVars, frameVars
<1>3. SessionType'
    BY <1>1, <1>2, SessionAssumption DEF SessionType, Put
<1>4. \A d \in Conns : IF d \in own THEN reader'[d] = "lost" ELSE reader'[d] = reader[d]
    BY <1>1 DEF Put
<1>5. ASSUME NEW c \in Conns \ own, reader[c] # "none", NEW v, Pending(c, v)
      PROVE  Pending(c, v)'
  <2>1. PICK d \in Conns : reader[d] = "binding" /\ session[d] = c /\ claim[d] = v
      BY <1>5 DEF Pending
  <2>2. d \notin own
      BY <1>1, <1>5, <2>1 DEF SessionType
  <2> QED
      BY <1>1, <1>2, <1>4, <1>5, <2>1, <2>2 DEF Pending
<1>6. BoundAsGranted'
  <2> SUFFICES ASSUME NEW c \in Conns, c \notin strayed
               PROVE  /\ bound[c] \in {NoUser, granted[c]}
                      /\ reader'[c] \in {"reading", "binding"} /\ c \in registered'
                            /\ granted[c] # NoUser
                            => bound[c] # NoUser \/ Pending(c, granted[c])'
      BY <1>2 DEF BoundAsGranted, Pending
  <2>1. reader'[c] \in {"reading", "binding"} => c \notin own /\ reader[c] \in {"reading", "binding"}
      BY <1>4
  <2>2. granted' = granted /\ registered' \subseteq registered
      BY <1>1, <1>2
  <2>3. \A v : c \notin own /\ reader[c] # "none" /\ Pending(c, v) => Pending(c, v)'
      BY <1>5
  <2>4. c \notin own /\ reader[c] # "none" /\ Pending(c, granted[c]) => Pending(c, granted[c])'
      BY <2>2, <2>3
  <2> QED
      BY <2>1, <2>2, <2>4 DEF BoundAsGranted
<1> QED
    BY <1>1, <1>2, <1>3, <1>4, <1>6 DEF GrantedOnce, UngrantedIsInvisible, OfflineStaysOffline

\* What time leaves alone.
LEMMA PassTimeFrame ==
    ASSUME PassTime
    PROVE  /\ Tick /\ ping' = [c \in Conns |-> Less(ping[c])]
           /\ UNCHANGED <<reader, session, claim, writer, missed, registered>>
           /\ UNCHANGED <<bound, granted, strayed, late>>
    BY DEF PassTime, bindVars, frameVars

LEMMA PassTimeKeeps ==
    ASSUME SessionInv, PassTime
    PROVE  HandlerInv'
<1> USE DEF SessionInv, HandlerInv
<1>1. used' = used /\ \A c \in Conns : unauth[c] = 0 => unauth'[c] = 0
    BY PassTimeFrame DEF Tick, Less
<1>2. \A u \in Users, c \in Conns :
          /\ auth[u][c] = 0 => auth'[u][c] = 0
          /\ nidx[u][c] = NoEntry => nidx'[u][c] = NoEntry
    BY PassTimeFrame DEF Tick, Less, NoEntry
<1>3. SessionType'
  <2>1. ping' \in [Conns -> 0 .. PingEvery]
      BY PassTimeFrame, SessionAssumption DEF SessionType, Less
  <2> QED
      BY <2>1, PassTimeFrame DEF SessionType
<1>4. GrantedOnce' /\ BoundAsGranted'
    BY <1>1, PassTimeFrame DEF GrantedOnce, BoundAsGranted, Pending, SessionType
<1>5. UngrantedIsInvisible' /\ OfflineStaysOffline'
    BY <1>2, PassTimeFrame DEF UngrantedIsInvisible, OfflineStaysOffline
<1> QED
    BY <1>3, <1>4, <1>5

LEMMA StepSessionInv == SessionInv /\ [Next]_vars => SessionInv'
<1> SUFFICES ASSUME SessionInv, [Next]_vars
             PROVE  SessionInv'
    OBVIOUS
<1>1. IInv'
    BY PresenceStep, StepIInv DEF SessionInv, HandlerInv
<1>2. HandlerInv'
  <2>1. CASE UNCHANGED vars
      BY <2>1 DEF vars, presenceVars, unauthVars, authVars, socketVars, frameVars, bindVars,
                  SessionInv, HandlerInv, SessionType, GrantedOnce, BoundAsGranted, Pending,
                  UngrantedIsInvisible, OfflineStaysOffline
  <2>2. CASE Next
      BY <2>2, OpenKeeps, AuthFrameKeeps, AuthLostKeeps, BindUserKeeps, PingTickKeeps, ReadEndsKeeps,
         BreakKeeps, CrashKeeps, PassTimeKeeps DEF Next
  <2> QED
      BY <2>1, <2>2
<1> QED
    BY <1>1, <1>2 DEF SessionInv

-----------------------------------------------------------------------------
(* The sessions served are renewed in time *)

\* A ping interval after a heartbeat, answered or refused, the ticker's time is up.
LEMMA HeartbeatsAddUp ==
    ASSUME NEW m \in Nat, NEW p \in 0 .. PingEvery
    PROVE  /\ (m + 1) * PingEvery - p >= 0
           /\ (m + 1) * PingEvery - 0 = (m + 1 + 1) * PingEvery - PingEvery
<1>1. PingEvery \in Nat
    BY SessionAssumption
<1>2. (m + 1) * PingEvery = m * PingEvery + PingEvery /\ m * PingEvery \in Nat
    BY <1>1
<1>3. (m + 1 + 1) * PingEvery = m * PingEvery + PingEvery + PingEvery
    BY <1>1
<1> QED
    BY <1>1, <1>2, <1>3

LEMMA NoneMissed == (0 + 1) * PingEvery - PingEvery = 0
    BY SessionAssumption

\* A session that goes on being served, and is not touched by the step, stays renewed.
LEMMA UntouchedIsRenewed ==
    ASSUME ServedIsRenewed, NEW d \in Conns, NEW u \in Users, Serves(d, u),
           auth'[u][d] = auth[u][d], nidx'[u][d] = nidx[u][d],
           missed'[d] = missed[d], ping'[d] = ping[d],
           bound[d] # u \/ bound'[d] = u
    PROVE  RenewedOf(d, u)'
    BY DEF ServedIsRenewed, RenewedOf

LEMMA OpenRenews ==
    ASSUME SessionInv, ServedIsRenewed, NEW c \in Conns, Open(c)
    PROVE  ServedIsRenewed'
<1> SUFFICES ASSUME NEW d \in Conns, NEW u \in Users, Serves(d, u)'
             PROVE  RenewedOf(d, u)'
    BY DEF ServedIsRenewed
<1> USE DEF SessionInv, HandlerInv
<1>1. /\ reader' = [reader EXCEPT ![c] = "reading"]
      /\ writer' = writer \cup {c} /\ registered' = registered \cup {c}
      /\ ping' = [ping EXCEPT ![c] = PingEvery]
      /\ UNCHANGED <<session, claim, missed, bound, granted, strayed, late>>
    BY DEF Open, bindVars, frameVars
<1>2. c \notin used /\ UNCHANGED <<auth, nidx>>
    BY DEF Open, Connect, authVars
<1>3. d # c
  <2>1. granted[c] = NoUser
      BY <1>2 DEF GrantedOnce
  <2> QED
      BY <1>1, <2>1, SessionAssumption DEF Serves
<1>4. Serves(d, u)
  <2>1. \A e \in Conns : reader'[e] = "binding" => reader[e] = "binding"
      BY <1>1 DEF SessionType
  <2>2. reader'[d] = reader[d]
      BY <1>1, <1>3 DEF SessionType
  <2> QED
      BY <1>1, <1>3, <2>1, <2>2 DEF Serves, Pending
<1> QED
    BY <1>1, <1>2, <1>3, <1>4, UntouchedIsRenewed DEF SessionType

LEMMA AuthFrameRenews ==
    ASSUME SessionInv, ServedIsRenewed,
           NEW d \in Conns, NEW c \in Conns, NEW w \in Users, AuthFrame(d, c, w)
    PROVE  ServedIsRenewed'
<1> SUFFICES ASSUME NEW e \in Conns, NEW u \in Users, Serves(e, u)'
             PROVE  RenewedOf(e, u)'
    BY DEF ServedIsRenewed
<1> USE DEF SessionInv, HandlerInv
<1>1. /\ reader[d] = "reading" /\ reader' = [reader EXCEPT ![d] = "binding"]
      /\ session' = [session EXCEPT ![d] = c] /\ claim' = [claim EXCEPT ![d] = w]
      /\ UNCHANGED <<writer, ping, missed, registered, bound, strayed>>
    BY DEF AuthFrame, Claims
<1>2. /\ auth \in [Users -> [Conns -> 0 .. TTL]]
      /\ nidx \in [Users -> [Conns -> NoEntry .. TTL]]
      /\ granted \in [Conns -> Users \cup {NoUser}]
    BY DEF IInv, AuthInv, AuthType, SessionType
<1>3. MakesIt(c, w) \/ ChangesNone
  <2>1. Authorize(w, c) /\ Grant(c, w)
      BY DEF AuthFrame
  <2> QED
      BY <2>1, AuthorizeEffect
<1>4. Pending(e, u)' => Pending(e, u) \/ (e = c /\ u = w)
    BY <1>1 DEF SessionType, Pending
<1>5. reader[e] \in {"reading", "binding"}
    BY <1>1 DEF SessionType, Serves
<1>6. ASSUME e # c \/ ChangesNone PROVE RenewedOf(e, u)'
  <2>1. granted[e] = u /\ auth'[u][e] = auth[u][e] /\ nidx'[u][e] = nidx[u][e]
    <3>1. CASE ChangesNone
        BY <3>1 DEF ChangesNone, authVars, Serves
    <3>2. CASE e # c /\ MakesIt(c, w)
        BY <1>2, <3>2 DEF MakesIt, Serves
    <3> QED
        BY <1>3, <1>6, <3>1, <3>2
  <2>2. e \in writer /\ e \notin strayed
      BY <1>1 DEF Serves
  <2>3. bound[e] = u \/ Pending(e, u)
    <3>1. CASE bound'[e] = u
        BY <1>1, <3>1
    <3>2. CASE Pending(e, u)'
      <4>1. e \in registered
          BY <1>1, <3>2 DEF Pending
      <4> QED
          BY <1>5, <2>1, <2>2, <4>1, SessionAssumption DEF BoundAsGranted
    <3> QED
        BY <3>1, <3>2 DEF Serves
  <2>4. Serves(e, u)
      BY <1>5, <2>1, <2>2, <2>3 DEF Serves
  <2> QED
      BY <1>1, <2>1, <2>4, UntouchedIsRenewed
<1>7. CASE e = c /\ MakesIt(c, w)
  <2>1. u = w
      BY <1>2, <1>7 DEF Serves, MakesIt
  <2>2. auth'[u][e] = TTL /\ nidx'[u][e] = TTL
      BY <1>2, <1>7, <2>1 DEF MakesIt
  <2>3. /\ ping'[e] \in 0 .. PingEvery /\ missed'[e] \in Nat
      BY <1>1 DEF SessionType
  <2>4. (missed'[e] + 1) * PingEvery - ping'[e] >= 0
      BY <2>3, HeartbeatsAddUp
  <2> QED
      BY <2>2, <2>4, TTLAssumption DEF RenewedOf, NoEntry
<1> QED
    BY <1>3, <1>6, <1>7

LEMMA AuthLostRenews ==
    ASSUME SessionInv, ServedIsRenewed,
           NEW d \in Conns, NEW c \in Conns, NEW w \in Users, AuthLost(d, c, w)
    PROVE  ServedIsRenewed'
<1> SUFFICES ASSUME NEW e \in Conns, NEW u \in Users, Serves(e, u)'
             PROVE  RenewedOf(e, u)'
    BY DEF ServedIsRenewed
<1>1. /\ UNCHANGED <<reader, session, claim, writer, ping, missed, registered, bound>>
      /\ strayed' = IF Authorized(w, c) THEN strayed \cup {c} ELSE strayed
    BY DEF AuthLost
<1>2. \/ MakesIt(c, w) /\ strayed' = strayed \cup {c}
      \/ ChangesNone /\ strayed' = strayed
  <2>1. Grant(c, w) /\ (Authorize(w, c) \/ UNCHANGED presenceVars)
      BY DEF AuthLost
  <2> QED
      BY <1>1, <2>1, AuthorizeEffect, NothingRan
<1>3. granted'[e] = granted[e] /\ auth'[u][e] = auth[u][e] /\ nidx'[u][e] = nidx[u][e]
  <2>1. CASE MakesIt(c, w) /\ strayed' = strayed \cup {c}
    <3>1. e # c
        BY <2>1 DEF Serves
    <3>2. /\ auth \in [Users -> [Conns -> 0 .. TTL]]
          /\ nidx \in [Users -> [Conns -> NoEntry .. TTL]]
          /\ granted \in [Conns -> Users \cup {NoUser}]
        BY DEF SessionInv, HandlerInv, IInv, AuthInv, AuthType, SessionType
    <3> QED
        BY <2>1, <3>1, <3>2 DEF MakesIt
  <2>2. CASE ChangesNone
      BY <2>2 DEF ChangesNone, authVars
  <2> QED
      BY <1>2, <2>1, <2>2
<1>4. Serves(e, u)
    BY <1>1, <1>2, <1>3 DEF Serves, Pending
<1> QED
    BY <1>1, <1>3, <1>4, UntouchedIsRenewed

LEMMA BindUserRenews ==
    ASSUME SessionInv, ServedIsRenewed, NEW d \in Conns, BindUser(d)
    PROVE  ServedIsRenewed'
<1> SUFFICES ASSUME NEW e \in Conns, NEW u \in Users, Serves(e, u)'
             PROVE  RenewedOf(e, u)'
    BY DEF ServedIsRenewed
<1> DEFINE c == session[d]
<1> USE DEF SessionInv, HandlerInv
<1>1. /\ reader[d] = "binding" /\ reader' = [reader EXCEPT ![d] = "reading"]
      /\ session' = [session EXCEPT ![d] = d] /\ claim' = [claim EXCEPT ![d] = NoUser]
      /\ UNCHANGED <<writer, ping, missed, registered, granted>>
      /\ UNCHANGED <<auth, nidx>>
    BY DEF BindUser, presenceVars, authVars
<1>2. Pending(e, u)' => Pending(e, u)
    BY <1>1 DEF SessionType, Pending
<1>3. reader[e] \in {"reading", "binding"} /\ e \in writer /\ granted[e] = u
    BY <1>1 DEF SessionType, Serves
<1>4. Serves(e, u) /\ (bound[e] # u \/ bound'[e] = u)
  <2>1. CASE c \notin registered
    <3>1. UNCHANGED <<bound, strayed>>
        BY <2>1 DEF BindUser
    <3> QED
        BY <1>2, <1>3, <3>1 DEF Serves
  <2>2. CASE c \in registered
    <3>1. /\ bound' = [bound EXCEPT ![c] = claim[d]]
          /\ strayed' = IF claim[d] = granted[c] THEN strayed ELSE strayed \cup {c}
        BY <2>2 DEF BindUser
    <3>2. e \notin strayed
        BY <3>1 DEF Serves
    <3>3. CASE e # c
        BY <1>2, <1>3, <3>1, <3>2, <3>3 DEF SessionType, Serves
    <3>4. CASE e = c
      <4>1. claim[d] = u
          BY <1>3, <3>1, <3>4 DEF Serves
      <4>2. Pending(e, u) /\ bound'[e] = u
          BY <1>1, <2>2, <3>1, <3>4, <4>1 DEF Pending, SessionType
      <4> QED
          BY <1>3, <3>2, <4>2 DEF Serves
    <3> QED
        BY <3>3, <3>4
  <2> QED
      BY <2>1, <2>2
<1> QED
    BY <1>1, <1>4, UntouchedIsRenewed

LEMMA PingTickRenews ==
    ASSUME SessionInv, ServedIsRenewed, NEW c \in Conns, PingTick(c)
    PROVE  ServedIsRenewed'
<1> SUFFICES ASSUME NEW d \in Conns, NEW u \in Users, Serves(d, u)'
             PROVE  RenewedOf(d, u)'
    BY DEF ServedIsRenewed
<1> USE DEF SessionInv, HandlerInv
<1>1. /\ ping[c] = 0 /\ writer' = writer \ (gone \cap {c})
      /\ ping' = [ping EXCEPT ![c] = IF c \in gone THEN 0 ELSE PingEvery]
      /\ \/ Beat(c) /\ missed' = [missed EXCEPT ![c] = 0]
         \/ /\ missed' = [missed EXCEPT ![c] = IF c \in gone THEN 0 ELSE missed[c] + 1]
            /\ UNCHANGED <<presenceVars, strayed>>
    BY DEF PingTick, Tock
<1>2. ASSUME d \notin strayed PROVE Serves(d, u) /\ RenewedOf(d, u)
  <2>1. Pending(d, u)' => Pending(d, u)
      BY TockFrame DEF Pending
  <2>2. Serves(d, u)
      BY <1>2, <2>1, TockFrame DEF Serves
  <2> QED
      BY <2>2 DEF ServedIsRenewed
<1>3. /\ auth \in [Users -> [Conns -> 0 .. TTL]]
      /\ nidx \in [Users -> [Conns -> NoEntry .. TTL]]
    BY DEF IInv, AuthInv, AuthType
<1>4. RenewedOf(d, u) => nidx[u][d] = auth[u][d] /\ auth[u][d] \in 1 .. TTL
    BY <1>3 DEF IInv, AuthInv, ListedAsItLives, RenewedOf
<1>5. CASE d # c
  <2>1. Serves(d, u) /\ RenewedOf(d, u)
      BY <1>2, <1>5, TockFrame DEF Serves
  <2>2. auth'[u][d] = auth[u][d] /\ nidx'[u][d] = nidx[u][d]
    <3>1. CASE UNCHANGED presenceVars
        BY <3>1 DEF presenceVars, authVars
    <3>2. CASE Beat(c)
      <4>1. CASE UNCHANGED authVars
          BY <4>1 DEF authVars
      <4>2. CASE /\ bound[c] \in Users /\ auth' = [auth EXCEPT ![bound[c]][c] = TTL]
                 /\ \A v \in Users, e \in Conns :
                        v # bound[c] \/ e # c =>
                            \/ nidx'[v][e] = nidx[v][e]
                            \/ nidx'[v][e] = NoEntry /\ nidx[v][e] = 0
          BY <1>3, <1>4, <1>5, <2>1, <4>2
      <4> QED
          BY <3>2, <4>1, <4>2, BeatEffect
    <3> QED
        BY <1>1, <3>1, <3>2
  <2>3. missed'[d] = missed[d] /\ ping'[d] = ping[d]
      BY <1>1, <1>5 DEF SessionType
  <2> QED
      BY <2>1, <2>2, <2>3, TockFrame, UntouchedIsRenewed
<1>6. CASE d = c
  <2>1. c \notin gone
      BY <1>1, <1>6 DEF Serves
  <2>2. ping'[c] = PingEvery /\ ping[c] = 0 /\ missed[c] \in Nat
      BY <1>1, <2>1 DEF SessionType
  <2>3. CASE UNCHANGED <<presenceVars, strayed>> /\ missed' = [missed EXCEPT ![c] = missed[c] + 1]
    <3>1. missed'[c] = missed[c] + 1 /\ UNCHANGED <<auth, nidx>>
        BY <2>3 DEF SessionType, presenceVars, authVars
    <3>2. (missed[c] + 1) * PingEvery - ping[c] = (missed'[c] + 1) * PingEvery - ping'[c]
        BY <2>2, <3>1, HeartbeatsAddUp, SessionAssumption
    <3>3. RenewedOf(c, u)
        BY <1>2, <1>6, <2>3 DEF Serves
    <3> QED
        BY <1>6, <3>1, <3>2, <3>3, TockFrame DEF RenewedOf
  <2>4. CASE Beat(c) /\ missed' = [missed EXCEPT ![c] = 0]
    <3>1. missed'[c] = 0 /\ (missed'[c] + 1) * PingEvery - ping'[c] = 0
      <4>1. missed'[c] = 0
          BY <2>4 DEF SessionType
      <4>2. (0 + 1) * PingEvery - PingEvery = 0
          BY NoneMissed
      <4> QED
          BY <2>2, <4>1, <4>2
    <3>2. auth'[u][c] = TTL /\ nidx'[u][c] # NoEntry
      <4>1. CASE bound[c] = u /\ auth[u][c] > 0
        <5>1. bound[c] \in Users /\ auth[bound[c]][c] # 0
            BY <1>3, <4>1
        <5>2. auth' = [auth EXCEPT ![bound[c]][c] = TTL] /\ nidx'[bound[c]][c] = TTL
          <6> HIDE DEF SessionInv
          <6> QED
              BY <2>4, <5>1, BeatEffect
        <5>3. auth'[u][c] = TTL /\ nidx'[u][c] = TTL
            BY <1>3, <4>1, <5>2
        <5> QED
            BY <5>3, TTLAssumption DEF NoEntry
      <4>2. CASE ~(bound[c] = u /\ auth[u][c] > 0)
        <5>1. granted[c] = u /\ c \notin strayed'
            BY <1>6, TockFrame DEF Serves
        <5>2. bound[c] # NoUser => bound[c] \in Users /\ ~(auth[bound[c]][c] > 0)
            BY <4>2, <5>1 DEF SessionType, UngrantedIsInvisible
        <5>3. c \notin strayed
            BY <5>1, <5>2, TockFrame
        <5>4. Serves(c, u) /\ RenewedOf(c, u)
            BY <1>2, <1>6, <5>3
        <5>5. bound[c] = NoUser
            BY <4>2, <5>1, <5>3, <5>4 DEF BoundAsGranted, RenewedOf
        <5>6. UNCHANGED authVars
            BY <2>4, <5>5, BeatEffect, SessionAssumption
        <5> QED
            BY <4>2, <5>4, <5>5, <5>6, SessionAssumption DEF authVars, RenewedOf
      <4> QED
          BY <4>1, <4>2
    <3> QED
        BY <1>6, <3>1, <3>2, TTLAssumption DEF RenewedOf
  <2> QED
      BY <1>1, <2>1, <2>3, <2>4
<1> QED
    BY <1>5, <1>6

LEMMA ReadEndsRenews ==
    ASSUME SessionInv, ServedIsRenewed, NEW c \in Conns, ReadEnds(c)
    PROVE  ServedIsRenewed'
<1> SUFFICES ASSUME NEW d \in Conns, NEW u \in Users, Serves(d, u)'
             PROVE  RenewedOf(d, u)'
    BY DEF ServedIsRenewed
<1> USE DEF SessionInv, HandlerInv
<1>1. /\ UNCHANGED <<session, claim, writer, ping, missed, registered, bound, granted, strayed, late>>
      /\ \/ GoOffline(c) /\ reader' = [reader EXCEPT ![c] = "done"]
         \/ UNCHANGED presenceVars /\ reader' = [reader EXCEPT ![c] = "lost"]
      /\ reader[c] = "reading"
    BY DEF ReadEnds, bindVars, frameVars
<1>2. d # c /\ Serves(d, u)
  <2>1. Pending(d, u)' => Pending(d, u)
      BY <1>1 DEF SessionType, Pending
  <2> QED
      BY <1>1, <2>1 DEF SessionType, Serves
<1>3. auth'[u][d] = auth[u][d] /\ nidx'[u][d] = nidx[u][d]
    BY <1>1, <1>2, OfflineEffect DEF presenceVars, authVars
<1> QED
    BY <1>1, <1>2, <1>3, UntouchedIsRenewed

LEMMA BreakRenews ==
    ASSUME SessionInv, ServedIsRenewed, NEW c \in Conns, Break(c)
    PROVE  ServedIsRenewed'
<1>1. /\ registered' \subseteq registered /\ UNCHANGED <<auth, nidx>>
      /\ UNCHANGED <<reader, session, claim, writer, ping, missed, bound, granted, strayed>>
    BY DEF Break, presenceVars, authVars, bindVars, frameVars
<1>2. \A d \in Conns, u \in Users : Serves(d, u)' => Serves(d, u)
    BY <1>1 DEF Serves, Pending
<1> QED
    BY <1>1, <1>2, UntouchedIsRenewed DEF ServedIsRenewed

LEMMA CrashRenews ==
    ASSUME SessionInv, ServedIsRenewed, NEW n \in Nodes, Crash(n)
    PROVE  ServedIsRenewed'
<1>1. PICK own \in SUBSET Conns :
          /\ reader' = Put(reader, own, "lost")
          /\ ping' = Put(ping, own, 0) /\ missed' = Put(missed, own, 0)
          /\ writer' = writer \ own /\ registered' = registered \ own
    BY DEF Crash
<1>2. UNCHANGED <<auth, nidx>> /\ UNCHANGED <<session, claim, bound, granted, strayed>>
    BY DEF Crash, presenceVars, authVars, bindVars, frameVars
<1>3. ASSUME NEW d \in Conns, NEW u \in Users, Serves(d, u)'
      PROVE  Serves(d, u) /\ ping'[d] = ping[d] /\ missed'[d] = missed[d]
  <2>1. \A e \in Conns : reader'[e] = IF e \in own THEN "lost" ELSE reader[e]
      BY <1>1 DEF Put
  <2>2. d \notin own /\ reader'[d] = reader[d]
      BY <1>3, <2>1 DEF Serves
  <2>3. Pending(d, u)' => Pending(d, u)
      BY <1>1, <1>2, <2>1 DEF Pending
  <2> QED
      BY <1>1, <1>2, <1>3, <2>2, <2>3 DEF Serves, Put
<1> QED
    BY <1>2, <1>3, UntouchedIsRenewed DEF ServedIsRenewed

\* Heartbeats outrun the expiry of a session and of the index it is in, for all the
\* heartbeats in a row that Redis may refuse.
HeartbeatsOutrun ==
    /\ (MaxMissed + 1) * PingEvery < UserIndexTTL
    /\ (MaxMissed + 1) * PingEvery < TTL

LEMMA PassTimeRenews ==
    ASSUME HeartbeatsOutrun, SessionInv, ServedIsRenewed, PassTime
    PROVE  ServedIsRenewed'
<1> SUFFICES ASSUME NEW d \in Conns, NEW u \in Users, Serves(d, u)'
             PROVE  RenewedOf(d, u)'
    BY DEF ServedIsRenewed
<1> USE DEF SessionInv, HandlerInv
<1>1. Serves(d, u)
    BY PassTimeFrame DEF Serves, Pending
<1>2. RenewedOf(d, u)
    BY <1>1 DEF ServedIsRenewed
<1>3. bound[d] = u /\ ping[d] > 0
    BY <1>1 DEF PassTime, Serves, Pending
<1> DEFINE age == TTL - auth[u][d]
           left == nidxLeft[u][NodeOf[d]]
           span == (missed[d] + 1) * PingEvery
           most == (MaxMissed + 1) * PingEvery
<1>4. span \in Nat /\ most \in Nat /\ span <= most
  <2>1. missed[d] \in Nat /\ missed[d] <= MaxMissed /\ PingEvery \in Nat /\ MaxMissed \in Nat
      BY SessionAssumption DEF SessionType
  <2>2. PICK k \in Nat : MaxMissed = missed[d] + k
    <3>1. MaxMissed - missed[d] \in Nat /\ MaxMissed = missed[d] + (MaxMissed - missed[d])
        BY <2>1
    <3> QED
        BY <3>1
  <2>3. k * PingEvery \in Nat
      BY <2>1
  <2>4. most = span + k * PingEvery
      BY <2>1, <2>2
  <2> QED
      BY <2>1, <2>3, <2>4
<1>5. /\ ping[d] \in 1 .. PingEvery /\ auth[u][d] \in 1 .. TTL
      /\ nidx[u][d] = auth[u][d] /\ left \in Nat
      /\ age + left >= UserIndexTTL
  <2>1. NodeOf[d] \in Nodes
      BY NodeOfConn
  <2>2. /\ auth[u][d] \in 0 .. TTL /\ auth[u][d] > 0
        /\ nidx[u][d] = auth[u][d] /\ left \in 0 .. (SweepTTL + 2 * TTL)
        /\ age + left >= UserIndexTTL
      BY <1>2, <2>1 DEF IInv, AuthInv, AuthType, ListedAsItLives, IndexLasts, RenewedOf
  <2> QED
      BY <1>3, <2>2, TTLAssumption, SessionAssumption DEF SessionType
<1>6. age <= span - ping[d]
    BY <1>2 DEF RenewedOf
<1>7. auth[u][d] > 1 /\ left > 1
  <2> HIDE DEF span, most, left
  <2>1. most < UserIndexTTL /\ most < TTL
      BY DEF HeartbeatsOutrun, most
  <2> QED
      BY <1>4, <1>5, <1>6, <2>1, TTLAssumption, SessionAssumption
<1>8. /\ auth'[u][d] = auth[u][d] - 1 /\ nidx'[u][d] = nidx[u][d] - 1
      /\ ping'[d] = ping[d] - 1 /\ missed'[d] = missed[d] /\ bound'[d] = bound[d]
    BY <1>5, <1>7, PassTimeFrame, TTLAssumption DEF Tick, Less
<1> HIDE DEF SessionInv, HandlerInv
<1>9. TTL - auth'[u][d] <= span - ping'[d]
  <2> HIDE DEF span
  <2> QED
      BY <1>4, <1>5, <1>6, <1>8, TTLAssumption, SessionAssumption
<1>10. auth'[u][d] > 0 /\ nidx'[u][d] # NoEntry
    BY <1>5, <1>7, <1>8, TTLAssumption DEF NoEntry
<1> QED
    BY <1>3, <1>8, <1>9, <1>10 DEF RenewedOf

LEMMA StepRenews ==
    ASSUME HeartbeatsOutrun, SessionInv, ServedIsRenewed, [Next]_vars
    PROVE  ServedIsRenewed'
<1>1. CASE UNCHANGED vars
    BY <1>1 DEF vars, presenceVars, authVars, socketVars, frameVars, bindVars,
                ServedIsRenewed, Serves, Pending, RenewedOf
<1>2. CASE Next
    BY <1>2, OpenRenews, AuthFrameRenews, AuthLostRenews, BindUserRenews, PingTickRenews, ReadEndsRenews,
       BreakRenews, CrashRenews, PassTimeRenews DEF Next
<1> QED
    BY <1>1, <1>2

-----------------------------------------------------------------------------
(* Theorems about the sessions *)

\* The handlers, the ticker and the end of a read loop change presence as the online
\* store promises, so what is proved of the store holds of the gateways.
THEOREM SessionsUsePresence == FairSpec => PresenceSpec
<1>1. Init => PresenceInit
    BY DEF Init
<1>2. SessionInv /\ [Next]_vars => [PresenceNext]_presenceVars
    BY PresenceStep DEF SessionInv, HandlerInv
<1>3. Init => SessionInv
    BY InitSessionInv
<1> QED
    BY <1>1, <1>2, <1>3, StepSessionInv, PTL DEF FairSpec, PresenceSpec

\* The inductive invariant of the sessions.
THEOREM SessionsInductive == FairSpec => []SessionInv
<1>1. Init => SessionInv
    BY InitSessionInv
<1> QED
    BY <1>1, StepSessionInv, PTL DEF FairSpec

\* Binding a connection to a user, by an AUTH whose session has expired or that lost
\* its race with the sweeper, does not make the user found there.
THEOREM OnlyGrantedAreVisible == FairSpec => []UngrantedIsInvisible
<1>1. SessionInv => UngrantedIsInvisible
    BY DEF SessionInv, HandlerInv
<1> QED
    BY <1>1, SessionsInductive, PTL

\* The ticker of a socket whose read loop went offline does not bring its session back.
THEOREM NothingRevives == FairSpec => []OfflineStaysOffline
<1>1. SessionInv => OfflineStaysOffline
    BY DEF SessionInv, HandlerInv
<1> QED
    BY <1>1, SessionsInductive, PTL

\* Where heartbeats outrun expiry (four of 25 s are less than the index's 120 s: three
\* in a row may be refused), whoever is bound as granted is found.
THEOREM ServedAreFound == ASSUME HeartbeatsOutrun PROVE FairSpec => []BoundIsListed
<1>1. Init => SessionInv /\ ServedIsRenewed
    BY InitSessionInv
<1>2. SessionInv /\ ServedIsRenewed /\ [Next]_vars => SessionInv' /\ ServedIsRenewed'
    BY StepSessionInv, StepRenews
<1>3. SessionInv /\ ServedIsRenewed => BoundIsListed
  <2> SUFFICES ASSUME SessionInv, ServedIsRenewed, NEW c \in Conns, NEW u \in Users,
                      reader[c] \in {"reading", "binding"}, c \in writer,
                      bound[c] = u, granted[c] = u, c \notin strayed
               PROVE  nidx[u][c] > 0 /\ NodeOf[c] \in Gateways(u)
      BY DEF BoundIsListed
  <2>1. auth[u][c] > 0 /\ nidx[u][c] # NoEntry
      BY DEF ServedIsRenewed, Serves, RenewedOf
  <2>2. nidx[u][c] = auth[u][c]
      BY <2>1 DEF SessionInv, IInv, AuthInv, ListedAsItLives
  <2>3. c \in Members(u, NodeOf[c])
      BY <2>1 DEF Members
  <2> QED
      BY <2>1, <2>2, <2>3, NodeOfConn DEF Gateways
<1> QED
    BY <1>1, <1>2, <1>3, PTL DEF FairSpec

=============================================================================
