------------------------------ MODULE Presence ------------------------------
(***************************************************************************)
(* The online store (service/storage/online.go): who is connected to which *)
(* gateway, kept in Redis.  A connection has a session key under its       *)
(* gateway and, once authorised, another under gateway and user; sorted    *)
(* sets index them by the time they expire.  Every operation is one script *)
(* or transaction, so it is one step.                                      *)
(*                                                                         *)
(* A key that expires is kept as the time it has left, 0 when it does not  *)
(* exist; a score as the time until it is reached, 0 from then on, because *)
(* no script looks further than score <= now.  Time is counted in units of *)
(* the shortest setting.  A member of Conns is a snow id: it names one     *)
(* gateway, NodeOf, and is generated once.  The broadcasts on the Pub/Sub  *)
(* channel have no subscriber in the program and are left out.             *)
(***************************************************************************)
EXTENDS Integers

CONSTANTS
    Nodes, Users, Conns,
    NodeOf,         \* the gateway a connection was made to
    UnauthTTL,      \* life of an unauthenticated session (30 s)
    TTL,            \* life of an authorised session (300 s)
    UserIndexTTL,   \* life a heartbeat gives a user's index (120 s)
    SweepTTL        \* life a sweep gives an index (3600 s)

ASSUME NodeOfAssumption == NodeOf \in [Conns -> Nodes]
ASSUME TTLAssumption ==
    /\ UnauthTTL \in Nat \ {0}
    /\ TTL \in Nat \ {0}
    /\ UserIndexTTL \in Nat \ {0}
    /\ SweepTTL \in Nat
    /\ UserIndexTTL <= 2 * TTL
    /\ UserIndexTTL <= SweepTTL
    /\ 2 * UnauthTTL <= SweepTTL

NoEntry == -1

VARIABLES
    used,       \* snow ids generated so far
    unauth,     \* n:{node}:id:snow, time left
    nidxu,      \* nidxu:{node}: score of each member
    nidxuLeft,  \* ... and the index's own time left
    auth,       \* n:{node:user}:id:snow, time left
    nidx,       \* nidx:{node:user}: score of each member
    nidxLeft    \* ... and the index's own time left

unauthVars == <<unauth, nidxu, nidxuLeft>>
authVars == <<auth, nidx, nidxLeft>>
presenceVars == <<used, unauthVars, authVars>>

PresenceInit ==
    /\ used = {}
    /\ unauth = [c \in Conns |-> 0]
    /\ nidxu = [c \in Conns |-> NoEntry]
    /\ nidxuLeft = [n \in Nodes |-> 0]
    /\ auth = [u \in Users |-> [c \in Conns |-> 0]]
    /\ nidx = [u \in Users |-> [c \in Conns |-> NoEntry]]
    /\ nidxLeft = [u \in Users |-> [n \in Nodes |-> 0]]

-----------------------------------------------------------------------------
\* The members of u's index on n, and those whose score is not after now.
Members(u, n) == {c \in Conns : NodeOf[c] = n /\ nidx[u][c] # NoEntry}
Due(u, n) == {c \in Members(u, n) : nidx[u][c] = 0}

MembersUnauth(n) == {c \in Conns : NodeOf[c] = n /\ nidxu[c] # NoEntry}
DueUnauth(n) == {c \in MembersUnauth(n) : nidxu[c] = 0}

\* f with value x on the connections of S.
Put(f, S, x) == [c \in Conns |-> IF c \in S THEN x ELSE f[c]]

\* A sorted set without members does not exist; left is what a script sets the
\* life of one with members to.
LifeOf(S, left) == IF S = {} THEN 0 ELSE left

-----------------------------------------------------------------------------
(* Unauthenticated sessions *)

Connect(c) ==
    /\ c \notin used
    /\ used' = used \cup {c}
    /\ unauth' = [unauth EXCEPT ![c] = UnauthTTL]
    /\ nidxu' = [nidxu EXCEPT ![c] = UnauthTTL]
    /\ nidxuLeft' = [nidxuLeft EXCEPT ![NodeOf[c]] = 2 * UnauthTTL]
    /\ UNCHANGED authVars

\* Mutation: the index is not told.
HeartbeatUnauthKeyOnly(c) ==
    /\ c \in used
    /\ unauth' = [unauth EXCEPT ![c] = IF @ = 0 THEN 0 ELSE UnauthTTL]
    /\ UNCHANGED <<used, nidxu, nidxuLeft, authVars>>

\* The index is written whether or not the session key still exists.
HeartbeatUnauth(c) ==
    /\ c \in used
    /\ unauth' = [unauth EXCEPT ![c] = IF @ = 0 THEN 0 ELSE UnauthTTL]
    /\ nidxu' = [nidxu EXCEPT ![c] = UnauthTTL]
    /\ nidxuLeft' = [nidxuLeft EXCEPT ![NodeOf[c]] = 2 * UnauthTTL]
    /\ UNCHANGED <<used, authVars>>

\* The connections of S leave the unauthenticated index.
LeaveUnauth(n, S, left) ==
    /\ nidxu' = Put(nidxu, S, NoEntry)
    /\ nidxuLeft' = [nidxuLeft EXCEPT ![n] = LifeOf(MembersUnauth(n) \ S, left)]

SweepUnauth(n) ==
    /\ unauth' = Put(unauth, DueUnauth(n), 0)
    /\ LeaveUnauth(n, DueUnauth(n), SweepTTL)
    /\ UNCHANGED <<used, authVars>>

OfflineUnauth(c) ==
    /\ c \in used
    /\ unauth' = [unauth EXCEPT ![c] = 0]
    /\ LeaveUnauth(NodeOf[c], {c}, nidxuLeft[NodeOf[c]])
    /\ UNCHANGED <<used, authVars>>

-----------------------------------------------------------------------------
(* Authorised sessions *)

\* Mutation: the unauthenticated session stays and can be authorised again.
AuthorizeKeeping(u, c) ==
    /\ auth[u][c] = 0 /\ unauth[c] > 0
    /\ auth' = [auth EXCEPT ![u][c] = TTL]
    /\ nidx' = [nidx EXCEPT ![u][c] = TTL]
    /\ nidxLeft' = [nidxLeft EXCEPT ![u][NodeOf[c]] = 2 * TTL]
    /\ UNCHANGED <<used, unauthVars>>

\* The script returns 1: the unauthenticated session becomes u's.
Authorized(u, c) ==
    /\ auth[u][c] = 0 /\ unauth[c] > 0
    /\ unauth' = [unauth EXCEPT ![c] = 0]
    /\ LeaveUnauth(NodeOf[c], {c}, nidxuLeft[NodeOf[c]])
    /\ auth' = [auth EXCEPT ![u][c] = TTL]
    /\ nidx' = [nidx EXCEPT ![u][c] = TTL]
    /\ nidxLeft' = [nidxLeft EXCEPT ![u][NodeOf[c]] = 2 * TTL]
    /\ UNCHANGED used

\* It returns 0: there is no unauthenticated session any more.
AuthorizeMissing(u, c) ==
    /\ auth[u][c] = 0 /\ unauth[c] = 0
    /\ LeaveUnauth(NodeOf[c], {c}, nidxuLeft[NodeOf[c]])
    /\ UNCHANGED <<used, unauth, authVars>>

\* It returns -1: the session is u's already.
AuthorizeExists(u, c) ==
    /\ auth[u][c] > 0
    /\ UNCHANGED presenceVars

Authorize(u, c) ==
    /\ c \in used
    /\ Authorized(u, c) \/ AuthorizeMissing(u, c) \/ AuthorizeExists(u, c)

\* Mutation: a heartbeat renews the session and the index but not the score.
RenewKeyOnly(u, c) ==
    /\ auth' = [auth EXCEPT ![u][c] = TTL]
    /\ nidx' = [nidx EXCEPT ![u] = Put(@, Due(u, NodeOf[c]), NoEntry)]
    /\ nidxLeft' = [nidxLeft EXCEPT ![u][NodeOf[c]] = UserIndexTTL]

\* What a heartbeat does to a session that exists: both entries are renewed, what
\* has expired leaves the index, and the index lives for UserIndexTTL from now on,
\* however long it had before.
Renew(u, c) ==
    /\ auth' = [auth EXCEPT ![u][c] = TTL]
    /\ nidx' = [nidx EXCEPT ![u] =
                   [Put(@, Due(u, NodeOf[c]), NoEntry) EXCEPT ![c] = TTL]]
    /\ nidxLeft' = [nidxLeft EXCEPT ![u][NodeOf[c]] = UserIndexTTL]

HeartbeatAuthorized(u, c) ==
    /\ \/ auth[u][c] > 0 /\ Renew(u, c)
       \/ auth[u][c] = 0 /\ UNCHANGED authVars
    /\ UNCHANGED <<used, unauthVars>>

\* Mutation: what leaves the index keeps its session.
LeaveIndexOnly(u, n, S, left) ==
    /\ nidx' = [nidx EXCEPT ![u] = Put(@, S, NoEntry)]
    /\ nidxLeft' = [nidxLeft EXCEPT ![u][n] = LifeOf(Members(u, n) \ S, left)]
    /\ UNCHANGED <<used, unauthVars, auth>>

\* The sessions of S end and leave u's index on n.
Leave(u, n, S, left) ==
    /\ auth' = [auth EXCEPT ![u] = Put(@, S, 0)]
    /\ nidx' = [nidx EXCEPT ![u] = Put(@, S, NoEntry)]
    /\ nidxLeft' = [nidxLeft EXCEPT ![u][n] = LifeOf(Members(u, n) \ S, left)]
    /\ UNCHANGED <<used, unauthVars>>

Offline(u, c) == Leave(u, NodeOf[c], {c}, nidxLeft[u][NodeOf[c]])

ForceLogoutUser(u, n) == Leave(u, n, Members(u, n), 0)

\* SweepAuthedUser, and what IsOnline, GetActiveSessions and GetNewestSession do
\* before they answer.
SweepAuthedUser(u, n) == Leave(u, n, Due(u, n), SweepTTL)

\* What they answer with: the sessions left, and those that expire last.
GetActiveSessions(u, n) == Members(u, n) \ Due(u, n)
GetNewestSession(u, n) ==
    {c \in GetActiveSessions(u, n) :
        \A d \in GetActiveSessions(u, n) : nidx[u][d] <= nidx[u][c]}
IsOnline(u, n) == GetActiveSessions(u, n) # {}

\* The gateways GetUserGateway may name: it takes the first index that SCAN
\* returns and looks at no score.
Gateways(u) == {n \in Nodes : Members(u, n) # {}}

-----------------------------------------------------------------------------
Less(x) == IF x > 0 THEN x - 1 ELSE x

\* A unit of time passes; an index that expires goes with its members.  One clock
\* stands for two: scores are gateway times, keys expire by the clock of Redis.
Tick ==
    /\ unauth' = [c \in Conns |-> Less(unauth[c])]
    /\ nidxuLeft' = [n \in Nodes |-> Less(nidxuLeft[n])]
    /\ nidxu' = [c \in Conns |->
                    IF nidxuLeft[NodeOf[c]] <= 1 THEN NoEntry ELSE Less(nidxu[c])]
    /\ auth' = [u \in Users |-> [c \in Conns |-> Less(auth[u][c])]]
    /\ nidxLeft' = [u \in Users |-> [n \in Nodes |-> Less(nidxLeft[u][n])]]
    /\ nidx' = [u \in Users |-> [c \in Conns |->
                    IF nidxLeft[u][NodeOf[c]] <= 1 THEN NoEntry ELSE Less(nidx[u][c])]]
    /\ UNCHANGED used

PresenceNext ==
    \/ \E c \in Conns : Connect(c)
    \/ \E c \in Conns : HeartbeatUnauth(c)
    \/ \E n \in Nodes : SweepUnauth(n)
    \/ \E c \in Conns : OfflineUnauth(c)
    \/ \E u \in Users, c \in Conns : Authorize(u, c)
    \/ \E u \in Users, c \in Conns : HeartbeatAuthorized(u, c)
    \/ \E u \in Users, c \in Conns : Offline(u, c)
    \/ \E u \in Users, n \in Nodes : ForceLogoutUser(u, n)
    \/ \E u \in Users, n \in Nodes : SweepAuthedUser(u, n)
    \/ Tick

PresenceSpec == PresenceInit /\ [][PresenceNext]_presenceVars

-----------------------------------------------------------------------------
PresenceTypeOK ==
    /\ used \in SUBSET Conns
    /\ unauth \in [Conns -> 0 .. UnauthTTL]
    /\ nidxu \in [Conns -> NoEntry .. UnauthTTL]
    /\ nidxuLeft \in [Nodes -> 0 .. SweepTTL]
    /\ auth \in [Users -> [Conns -> 0 .. TTL]]
    /\ nidx \in [Users -> [Conns -> NoEntry .. TTL]]
    /\ nidxLeft \in [Users -> [Nodes -> 0 .. (SweepTTL + 2 * TTL)]]

\* What an index says of a session is true of it: the score is the time the session
\* key still has, so nobody is counted online whose session is gone and no sweep
\* ends a session that still lives.
ListedAsItLives ==
    \A u \in Users, c \in Conns : nidx[u][c] # NoEntry => nidx[u][c] = auth[u][c]

\* The answers hold: a user IsOnline finds has a live session on the gateway, and the
\* session GetNewestSession returns lives as long as any that is listed.
AnswersHold ==
    \A u \in Users, n \in Nodes :
        /\ IsOnline(u, n) => \E c \in Conns : NodeOf[c] = n /\ auth[u][c] > 0
        /\ \A c \in GetNewestSession(u, n), d \in Members(u, n) : auth[u][d] <= auth[u][c]

\* A live session that no index lists (its user is not found, and a forced logout
\* passes it by) has missed its heartbeats for as long as a heartbeat keeps an
\* index: the sessions of the user on that gateway that beat, or end, take no
\* other out of the index.
UnlistedIsQuiet ==
    \A u \in Users, c \in Conns :
        auth[u][c] > 0 /\ nidx[u][c] = NoEntry => TTL - auth[u][c] >= UserIndexTTL

\* A connection has one session: it is not authorised for two users, nor both
\* authorised and still waiting to be.
OneSessionPerConn ==
    \A c \in Conns :
        /\ \A u, v \in Users : auth[u][c] > 0 /\ auth[v][c] > 0 => u = v
        /\ \A u \in Users : auth[u][c] > 0 => unauth[c] = 0

\* A session nobody has authorised is in the index the sweep reads, with the time
\* it has left.
UnauthIsListed == \A c \in Conns : unauth[c] > 0 => nidxu[c] = unauth[c]

=============================================================================
