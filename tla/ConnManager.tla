---------------------------- MODULE ConnManager ----------------------------
(***************************************************************************)
(* The gateway's table of websockets (service/chat/conn_manager.go): every *)
(* connection under its snow id (bySnow), the authorised ones per user     *)
(* (byUser), and the older map of one socket per user (conns).  One mutex  *)
(* makes each operation a step; what runs outside it is split off: the     *)
(* sweeper closes what it collected, and an evicted socket is closed by a  *)
(* goroutine of its own.                                                   *)
(*                                                                         *)
(* A member of Conns stands for a socket, its snow id and its WsConn: ids  *)
(* are generated per socket and never registered twice.  The clock is      *)
(* abstracted to two facts: the order in which connections were created,   *)
(* and whether ExpireAt has passed.  EvictOldest is taken to be set where  *)
(* MaxPerUser is positive; without it the code panics.                     *)
(***************************************************************************)
EXTENDS Naturals, FiniteSets

CONSTANTS
    Conns,
    Users,
    NoConn, NoUser,   \* no entry in conns; UserId = ""
    MaxPerUser        \* connections of a user, 0: no limit (the gateway's setting)

ASSUME MaxPerUserAssumption == MaxPerUser \in Nat
ASSUME DistinctAssumption == NoConn \notin Conns /\ NoUser \notin Users

VARIABLES
    bySnow,     \* registered connections
    byUser,     \* the authorised ones, per user
    conns,      \* the older index
    userOf,     \* UserId of each WsConn; Authorized where it is not NoUser
    clock,      \* connections created so far
    created,    \* CreatedAt as a rank, 0: not connected yet
    expired,    \* ExpireAt has passed
    evicted,    \* removed by ensureRoomForUserLocked
    closing,    \* removed by the sweeper, still to be closed
    closed,     \* sockets the manager closed
    stopped     \* stopCh is closed

index == <<bySnow, byUser, conns, userOf>>
vars == <<index, clock, created, expired, evicted, closing, closed, stopped>>

Init ==
    /\ bySnow = {}
    /\ byUser = [u \in Users |-> {}]
    /\ conns = [u \in Users |-> NoConn]
    /\ userOf = [c \in Conns |-> NoUser]
    /\ clock = 0
    /\ created = [c \in Conns |-> 0]
    /\ expired = {} /\ evicted = {} /\ closing = {} /\ closed = {}
    /\ stopped = FALSE

-----------------------------------------------------------------------------
\* A connection the manager has not seen: its id is new.
Fresh(c) == created[c] = 0

Stamp(c) ==
    /\ clock' = clock + 1
    /\ created' = [created EXCEPT ![c] = clock + 1]

\* Whom ensureRoomForUserLocked removes for a connection of u.
Evicted(u) ==
    IF MaxPerUser > 0 /\ Cardinality(byUser[u]) >= MaxPerUser
    THEN {c \in byUser[u] : \A d \in byUser[u] : created[c] <= created[d]}
    ELSE {}

\* Mutation: the older index is not maintained.
RelinkNever(old, gone, rest) == {old}

\* The older index when u's list shrinks from byUser[u] to rest because the
\* connections of gone leave: an entry that points at one of them moves to any of
\* the rest, or goes with the last.
Relink(old, gone, rest) ==
    IF old \notin gone THEN {old} ELSE IF rest = {} THEN {NoConn} ELSE rest

\* c joins u's list; the older index gets it if u has no entry left.
Join(c, u) ==
    \E e \in Relink(conns[u], Evicted(u), byUser[u] \ Evicted(u)) :
        /\ conns' = [conns EXCEPT ![u] = IF e = NoConn THEN c ELSE e]
        /\ evicted' = evicted \cup Evicted(u)

\* Mutation: a connection bound again stays in its former user's list.
ListsWithBoth(c, u) ==
    [byUser EXCEPT ![u] = (@ \ Evicted(u)) \cup {c}]

\* The list of u when c joins it, and that of a user c leaves for u.
ListsWith(c, u) ==
    [v \in Users |-> IF v = u THEN (byUser[v] \ Evicted(u)) \cup {c}
                     ELSE IF v = userOf[c] THEN byUser[v] \ {c}
                     ELSE byUser[v]]

\* Mutation: the primary index keeps what is removed.
DropKeeping(gone) ==
    /\ byUser' = [u \in Users |-> byUser[u] \ gone]
    /\ conns' = [u \in Users |-> IF conns[u] \in gone THEN NoConn ELSE conns[u]]
    /\ UNCHANGED <<bySnow, userOf>>

\* The connections of gone leave bySnow, their users' lists and the older index.
Drop(gone) ==
    LET own(u) == {c \in gone : userOf[c] = u}
        left(u) == byUser[u] \ own(u)
    IN  /\ bySnow' = bySnow \ gone
        /\ byUser' = [u \in Users |-> left(u)]
        /\ conns' \in [Users -> Conns \cup {NoConn}]
        /\ \A u \in Users : conns'[u] \in Relink(conns[u], own(u), left(u))
        /\ UNCHANGED userOf

-----------------------------------------------------------------------------
AddUnauth(c) ==
    /\ Fresh(c)
    /\ Stamp(c)
    /\ bySnow' = bySnow \cup {c}
    /\ UNCHANGED <<byUser, conns, userOf, expired, evicted, closing, closed, stopped>>

\* The interface of one connection per user: the others are closed.
Add(u, c) ==
    /\ Fresh(c)
    /\ Stamp(c)
    /\ bySnow' = (bySnow \ byUser[u]) \cup {c}
    /\ byUser' = [byUser EXCEPT ![u] = {c}]
    /\ conns' = [conns EXCEPT ![u] = c]
    /\ userOf' = [userOf EXCEPT ![c] = u]
    /\ closed' = closed \cup byUser[u]
    /\ UNCHANGED <<expired, evicted, closing, stopped>>

AddAuthorized(u, c) ==
    /\ Fresh(c)
    /\ Stamp(c)
    /\ Join(c, u)
    /\ bySnow' = (bySnow \ Evicted(u)) \cup {c}
    /\ byUser' = ListsWith(c, u)
    /\ userOf' = [userOf EXCEPT ![c] = u]
    /\ UNCHANGED <<expired, closing, closed, stopped>>

\* c is looked up before the eviction, which may hit c itself.
BindUser(c, u) ==
    /\ c \in bySnow
    /\ Join(c, u)
    /\ bySnow' = bySnow \ Evicted(u)
    /\ byUser' = ListsWith(c, u)
    /\ userOf' = [userOf EXCEPT ![c] = u]
    /\ expired' = expired \ {c}
    /\ UNCHANGED <<clock, created, closing, closed, stopped>>

Heartbeat(c) ==
    /\ c \in bySnow
    /\ expired' = expired \ {c}
    /\ UNCHANGED <<index, clock, created, evicted, closing, closed, stopped>>

RemoveBySnow(c) ==
    /\ c \in bySnow
    /\ Drop({c})
    /\ closed' = closed \cup {c}
    /\ UNCHANGED <<clock, created, expired, evicted, closing, stopped>>

\* All connections of a user.
Remove(u) ==
    /\ bySnow' = bySnow \ byUser[u]
    /\ byUser' = [byUser EXCEPT ![u] = {}]
    /\ conns' = [conns EXCEPT ![u] = NoConn]
    /\ closed' = closed \cup byUser[u]
    /\ UNCHANGED <<userOf, clock, created, expired, evicted, closing, stopped>>

KickAllUnauth ==
    LET unauth == {c \in bySnow : userOf[c] = NoUser}
    IN  /\ bySnow' = bySnow \ unauth
        /\ closed' = closed \cup unauth
        /\ UNCHANGED <<byUser, conns, userOf, clock, created, expired, evicted, closing, stopped>>

\* Time passes the ExpireAt of c.
Expire(c) ==
    /\ c \in bySnow
    /\ expired' = expired \cup {c}
    /\ UNCHANGED <<index, clock, created, evicted, closing, closed, stopped>>

\* Mutation: only the connections of a user are swept.
sweepAuthorized ==
    LET due == {c \in bySnow \cap expired : userOf[c] # NoUser}
    IN  /\ ~stopped
        /\ due # {}
        /\ Drop(due)
        /\ closing' = closing \cup due
        /\ UNCHANGED <<clock, created, expired, evicted, closed, stopped>>

\* A tick of the sweeper, under the lock ...
sweepOnce ==
    /\ ~stopped
    /\ bySnow \cap expired # {}
    /\ Drop(bySnow \cap expired)
    /\ closing' = closing \cup (bySnow \cap expired)
    /\ UNCHANGED <<clock, created, expired, evicted, closed, stopped>>

\* ... and after it.
CloseSwept(c) ==
    /\ c \in closing
    /\ closing' = closing \ {c}
    /\ closed' = closed \cup {c}
    /\ UNCHANGED <<index, clock, created, expired, evicted, stopped>>

CloseEvicted(c) ==
    /\ c \in evicted \ closed
    /\ closed' = closed \cup {c}
    /\ UNCHANGED <<index, clock, created, expired, evicted, closing, stopped>>

\* Release clears the WsConn of every registered connection.
Close ==
    /\ stopped' = TRUE
    /\ closed' = closed \cup bySnow
    /\ bySnow' = {}
    /\ byUser' = [u \in Users |-> {}]
    /\ conns' = [u \in Users |-> NoConn]
    /\ userOf' = [c \in Conns |-> IF c \in bySnow THEN NoUser ELSE userOf[c]]
    /\ UNCHANGED <<clock, created, expired, evicted, closing>>

Next ==
    \/ \E c \in Conns : AddUnauth(c)
    \/ \E u \in Users, c \in Conns : Add(u, c)
    \/ \E u \in Users, c \in Conns : AddAuthorized(u, c)
    \/ \E c \in Conns, u \in Users : BindUser(c, u)
    \/ \E c \in Conns : Heartbeat(c)
    \/ \E c \in Conns : RemoveBySnow(c)
    \/ \E u \in Users : Remove(u)
    \/ KickAllUnauth
    \/ \E c \in Conns : Expire(c)
    \/ sweepOnce
    \/ \E c \in Conns : CloseSwept(c)
    \/ \E c \in Conns : CloseEvicted(c)
    \/ Close

Spec == Init /\ [][Next]_vars

\* The sweeper's ticker fires while it is not stopped, and goroutines that have
\* sockets to close are scheduled.
Fairness ==
    /\ WF_vars(sweepOnce)
    /\ \A c \in Conns : WF_vars(CloseSwept(c))
    /\ \A c \in Conns : WF_vars(CloseEvicted(c))

FairSpec == Spec /\ Fairness

-----------------------------------------------------------------------------
TypeOK ==
    /\ bySnow \in SUBSET Conns
    /\ byUser \in [Users -> SUBSET Conns]
    /\ conns \in [Users -> Conns \cup {NoConn}]
    /\ userOf \in [Conns -> Users \cup {NoUser}]
    /\ clock \in Nat
    /\ created \in [Conns -> 0 .. clock]
    /\ expired \in SUBSET Conns
    /\ evicted \in SUBSET Conns
    /\ closing \in SUBSET Conns
    /\ closed \in SUBSET Conns
    /\ stopped \in BOOLEAN

\* The two indexes tell the same: an authorised connection is in its user's list,
\* and a list holds only its user's connections, registered unless an eviction
\* hit the very connection that was being bound.
IndexesAgree ==
    /\ \A c \in bySnow : userOf[c] # NoUser => c \in byUser[userOf[c]]
    /\ \A u \in Users : \A c \in byUser[u] :
           userOf[c] = u /\ (c \in bySnow \/ c \in evicted)

\* A connection the manager let go of is closed or about to be, and one that is
\* closed or about to be is not registered: no socket leaks, none is handed out.
RegisteredIffOpen ==
    \A c \in Conns : ~Fresh(c) => (c \in bySnow <=> c \notin evicted \cup closing \cup closed)

\* The older index has an entry for each user with connections, and the entry is
\* one of them or one that has since been bound to somebody else: no removal,
\* sweep or eviction leaves it pointing at a connection of the user that is gone.
LegacyIsOwnOrMoved ==
    \A u \in Users :
        /\ conns[u] = NoConn => byUser[u] = {}
        /\ conns[u] # NoConn => conns[u] \in byUser[u] \/ userOf[conns[u]] # u

\* An expired connection that nobody renews is closed, while the sweeper runs.
ExpiredIsClosed ==
    \A c \in Conns :
        (c \in bySnow /\ c \in expired) ~> (c \in closed \/ c \notin expired \/ stopped)

=============================================================================
