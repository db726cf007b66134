--------------------------- MODULE GatewaySession ---------------------------
(***************************************************************************)
(* A websocket on a gateway and its presence in Redis: the read loop of    *)
(* HandleWS (service/chat/ws_server.go), the handlers it calls for CONN,   *)
(* AUTH and PING (module/message/handler), and the goroutine the ping      *)
(* handler starts, the only one that renews presence and that closes the   *)
(* socket.  The two loops share nothing but the WsConn: each ends when its *)
(* own read or write fails, and neither tells the other.                   *)
(*                                                                         *)
(* A gateway's ticker is punctual: time does not pass a ping that is due,  *)
(* nor between the two halves of AUTH, which only a mutex separates.       *)
(* An AUTH frame names the session it is for, and nothing compares that    *)
(* with the socket it came over: a client may name any connection.         *)
(* Of the connection table only what these handlers read is kept: whether  *)
(* the socket is registered, and whom its WsConn is bound to.              *)
(***************************************************************************)
EXTENDS Presence

CONSTANTS
    NoUser,
    MayClaim,       \* the users the client of a connection has tokens of
    PingEvery,      \* pingInterval (25 s)
    MaxMissed,      \* bound: heartbeats in a row that Redis refuses
    MaxAuths        \* bound: AUTH frames

ASSUME SessionAssumption ==
    /\ NoUser \notin Users
    /\ MayClaim \in [Conns -> SUBSET Users]
    /\ PingEvery \in Nat \ {0}
    /\ MaxMissed \in Nat
    /\ MaxAuths \in Nat

VARIABLES
    reader,         \* the read loop of HandleWS: "done" went offline, "lost" ended without
    auths,          \* AUTH frames read
    session,        \* the connection the AUTH frame being handled names, and the
    claim,          \* ... user it claims
    writer,         \* connections whose ping goroutine runs
    ping,           \* time until its ticker fires
    missed,         \* heartbeats in a row that failed
    gone,           \* sockets that are broken: writes fail
    registered,     \* connections in the table
    bound,          \* UserId of the WsConn
    granted,        \* history: whom Authorize returned 1 for
    strayed,        \* history: granted but not bound, or bound to a user that was not
                    \* granted, since the ticker last renewed what was granted
    late            \* history: bound, by another socket's frame, after going offline

frameVars == <<auths, session, claim>>
socketVars == <<reader, frameVars, writer, ping, missed, gone, registered>>
bindVars == <<bound, granted, strayed, late>>
vars == <<presenceVars, socketVars, bindVars>>

Init ==
    /\ PresenceInit
    /\ reader = [c \in Conns |-> "none"]
    /\ auths = 0
    /\ session = [c \in Conns |-> c]
    /\ claim = [c \in Conns |-> NoUser]
    /\ writer = {} /\ gone = {} /\ registered = {} /\ strayed = {} /\ late = {}
    /\ ping = [c \in Conns |-> 0]
    /\ missed = [c \in Conns |-> 0]
    /\ bound = [c \in Conns |-> NoUser]
    /\ granted = [c \in Conns |-> NoUser]

-----------------------------------------------------------------------------
\* The CONN and PING handlers run before the loop.
Open(c) ==
    /\ reader[c] = "none"
    /\ Connect(c)
    /\ reader' = [reader EXCEPT ![c] = "reading"]
    /\ writer' = writer \cup {c}
    /\ registered' = registered \cup {c}
    /\ ping' = [ping EXCEPT ![c] = PingEvery]
    /\ UNCHANGED <<frameVars, missed, gone, bindVars>>

\* The read loop of d gets an AUTH frame of its client for session c.  Another
\* gateway's session is unknown to d's, and naming one changes nothing.
Claims(d, c, u) ==
    /\ reader[d] = "reading"
    /\ NodeOf[c] = NodeOf[d]
    /\ u \in MayClaim[d]
    /\ auths < MaxAuths /\ auths' = auths + 1

Grant(c, u) == granted' = [granted EXCEPT ![c] = IF Authorized(u, c) THEN u ELSE @]

\* AUTH, first half.  The answer false, for a session that has expired, is not looked
\* at, and the error "exists" is none.
AuthFrame(d, c, u) ==
    /\ Claims(d, c, u)
    /\ Authorize(u, c)
    /\ Grant(c, u)
    /\ reader' = [reader EXCEPT ![d] = "binding"]
    /\ session' = [session EXCEPT ![d] = c]
    /\ claim' = [claim EXCEPT ![d] = u]
    /\ UNCHANGED <<writer, ping, missed, gone, registered, bound, strayed, late>>

\* Any other error ends the handler, with nothing bound: the script did not run, or
\* it ran and its reply was lost.
AuthLost(d, c, u) ==
    /\ Claims(d, c, u)
    /\ Authorize(u, c) \/ UNCHANGED presenceVars
    /\ Grant(c, u)
    /\ strayed' = IF Authorized(u, c) THEN strayed \cup {c} ELSE strayed
    /\ UNCHANGED <<reader, session, claim, writer, ping, missed, gone, registered, bound, late>>

\* AUTH, second half: the error of a connection that left the table is logged.
BindUser(d) ==
    LET c == session[d]
        u == claim[d]
    IN  /\ reader[d] = "binding"
        /\ reader' = [reader EXCEPT ![d] = "reading"]
        /\ session' = [session EXCEPT ![d] = d]
        /\ claim' = [claim EXCEPT ![d] = NoUser]
        /\ IF c \in registered
           THEN /\ bound' = [bound EXCEPT ![c] = u]
                /\ strayed' = IF u = granted[c] THEN strayed ELSE strayed \cup {c}
                /\ late' = IF reader[c] = "done" THEN late \cup {c} ELSE late
           ELSE UNCHANGED <<bound, strayed, late>>
        /\ UNCHANGED <<presenceVars, auths, writer, ping, missed, gone, registered, granted>>

\* Mutation: the heartbeat recreates a session that is not there.
RenewAlways(c) ==
    IF bound[c] = NoUser THEN UNCHANGED presenceVars
    ELSE Renew(bound[c], c) /\ UNCHANGED <<used, unauthVars>>

\* Without a user the key does not exist.
Beat(c) ==
    IF bound[c] = NoUser THEN UNCHANGED presenceVars ELSE HeartbeatAuthorized(bound[c], c)

\* The session it renews exists.
Lives(c) == bound[c] # NoUser /\ auth[bound[c]][c] > 0

\* The ticker of c fires: presence is renewed, or Redis refuses.
Tock(c) ==
    /\ c \in writer /\ ping[c] = 0
    /\ \/ /\ Beat(c)
          /\ missed' = [missed EXCEPT ![c] = 0]
          /\ strayed' = IF Lives(c) THEN strayed \ {c} ELSE strayed
       \/ /\ missed[c] < MaxMissed
          /\ missed' = [missed EXCEPT ![c] = IF c \in gone THEN 0 ELSE @ + 1]
          /\ UNCHANGED <<presenceVars, strayed>>
    /\ ping' = [ping EXCEPT ![c] = IF c \in gone THEN 0 ELSE PingEvery]
    /\ UNCHANGED <<reader, frameVars, gone, bound, granted, late>>

\* Mutation: a ping that cannot be written does not end the goroutine.
PingTickDeaf(c) == Tock(c) /\ UNCHANGED <<writer, registered>>

\* ... and a ping is written; if that fails the goroutine closes the socket and
\* takes it out of the table.
PingTick(c) ==
    /\ Tock(c)
    /\ writer' = writer \ (gone \cap {c})
    /\ registered' = registered \ (gone \cap {c})

\* Mutation: the session that ends is taken to be unauthenticated.
GoOfflineUnauth(c) == OfflineUnauth(c)

GoOffline(c) == IF bound[c] = NoUser THEN OfflineUnauth(c) ELSE Offline(bound[c], c)

\* A read fails, by the peer, the read deadline or the frame: the session goes
\* offline, unless Redis fails, and HandleWS then waits for the writer.
ReadEnds(c) ==
    /\ reader[c] = "reading"
    /\ \/ GoOffline(c) /\ reader' = [reader EXCEPT ![c] = "done"]
       \/ UNCHANGED presenceVars /\ reader' = [reader EXCEPT ![c] = "lost"]
    /\ UNCHANGED <<frameVars, writer, ping, missed, gone, registered, bindVars>>

\* The peer goes away, or the gateway closes the socket and takes it out of the
\* table: the relay after a failed write, the sweeper, an eviction.
Break(c) ==
    /\ c \in writer \ gone
    /\ gone' = gone \cup {c}
    /\ registered' \in {registered, registered \ {c}}
    /\ UNCHANGED <<presenceVars, reader, frameVars, writer, ping, missed, bindVars>>

\* The process of a gateway ends without a word to Redis.
Crash(n) ==
    LET own == {c \in Conns : NodeOf[c] = n /\ reader[c] # "none"}
    IN  /\ own \cap writer # {}
        /\ reader' = Put(reader, own, "lost")
        /\ writer' = writer \ own
        /\ registered' = registered \ own
        /\ gone' = gone \cup own
        /\ ping' = Put(ping, own, 0)
        /\ missed' = Put(missed, own, 0)
        /\ UNCHANGED <<presenceVars, frameVars, bindVars>>

PassTime ==
    /\ \A c \in Conns : reader[c] # "binding" /\ (c \in writer => ping[c] > 0)
    /\ Tick
    /\ ping' = [c \in Conns |-> Less(ping[c])]
    /\ UNCHANGED <<reader, frameVars, writer, missed, gone, registered, bindVars>>

Next ==
    \/ \E c \in Conns : Open(c)
    \/ \E d, c \in Conns, u \in Users : AuthFrame(d, c, u)
    \/ \E d, c \in Conns, u \in Users : AuthLost(d, c, u)
    \/ \E d \in Conns : BindUser(d)
    \/ \E c \in Conns : PingTick(c)
    \/ \E c \in Conns : ReadEnds(c)
    \/ \E c \in Conns : Break(c)
    \/ \E n \in Nodes : Crash(n)
    \/ PassTime

\* Time passes, a ticker that is due fires or a handler that has begun ends; time
\* waits for the other two, so each of them goes on.  Nothing is assumed of clients or
\* of Redis.
FairSpec ==
    /\ Init /\ [][Next]_vars
    /\ WF_vars(PassTime \/ \E c \in Conns : PingTick(c) \/ BindUser(c))

-----------------------------------------------------------------------------
\* While both loops of a connection run, the user it was authorised for and is bound to
\* finds it: the ticker renews the index before it expires, even when Redis refuses a
\* few heartbeats.  The exceptions are by name.  A connection that AUTH bound to a user
\* it was not authorised for, as it does once the session has expired, and one whose
\* authorisation lost its reply and was not bound, were not renewed meanwhile: bound
\* again, they are found from the first heartbeat that finds the session alive.
BoundIsListed ==
    \A c \in Conns, u \in Users :
        /\ reader[c] \in {"reading", "binding"}
        /\ c \in writer
        /\ bound[c] = u /\ granted[c] = u
        /\ c \notin strayed
        => nidx[u][c] > 0 /\ NodeOf[c] \in Gateways(u)

\* A user bound without an authorisation is never found, whatever the heartbeats.
UngrantedIsInvisible ==
    \A c \in Conns, u \in Users :
        granted[c] # u => nidx[u][c] = NoEntry /\ auth[u][c] = 0

\* A read loop that went offline leaves no session of the user it was bound to, and
\* no heartbeat of the writer that still runs brings it back; what GetUserGateway
\* may still name it for is a user it was not bound to in the end.  The exception, by
\* name, is a connection that another socket's AUTH frame bound when its own loop was
\* over: nothing orders the two loops, the one may go offline as unauthenticated between
\* the halves of the other's AUTH, and the writer renews the session while it runs.
OfflineStaysOffline ==
    \A c \in Conns, u \in Users :
        reader[c] = "done" /\ bound[c] = u /\ c \notin late
            => auth[u][c] = 0 /\ nidx[u][c] = NoEntry

\* A connection that ended, by a crash or with Redis refusing to take it offline,
\* is forgotten once its socket is broken.
EndedIsForgotten ==
    \A c \in Conns :
        (reader[c] \in {"done", "lost"} /\ c \in gone)
            ~> (\A u \in Users : nidx[u][c] = NoEntry /\ auth[u][c] = 0)

=============================================================================
