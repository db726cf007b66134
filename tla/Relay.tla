-------------------------------- MODULE Relay --------------------------------
(***************************************************************************)
(* How a gateway writes what comes from Kafka to its websockets: the       *)
(* gateway branch of HandlerTopicMessage runs on the workers of the        *)
(* consumer and puts each frame into WsRelayBound, and one goroutine,      *)
(* LoopRelayData (service/chat/router.go), takes frames out and writes     *)
(* them to the sockets the connection manager lists for the addressee.     *)
(*                                                                         *)
(* A frame with a session id (DELIVER) goes to that connection, one        *)
(* without (DATA) to every connection of its addressee.  A worker waits    *)
(* while the channel is full.  The goroutine takes its list under the      *)
(* manager's lock and writes outside it, so connections come and go        *)
(* between two writes.  They go by the sweeper as well, which runs in      *)
(* every gateway: no caller renews what Expire ends but AUTH.              *)
(***************************************************************************)
EXTENDS ConnManager, Sequences

CONSTANTS
    Frames,         \* the frames of the gateway's topics
    To, Sid,        \* addressee, and SessionId (NoConn: none)
    RelayCap,       \* capacity of WsRelayBound (8192)
    Workers,        \* workers of the consumer's pool (32)
    MaxExpired      \* bound: connections whose time is up

\* The managers of the gateways have no limit of connections per user.
ASSUME RelayAssumption ==
    /\ MaxPerUser = 0
    /\ To \in [Frames -> Users]
    /\ Sid \in [Frames -> Conns \cup {NoConn}]
    /\ RelayCap \in Nat \ {0}
    /\ Workers \in Nat \ {0}
    /\ MaxExpired \in Nat

VARIABLES
    held,       \* frames whose worker is in RelayMsg
    queue,      \* WsRelayBound
    taken,      \* frames the goroutine took out
    frame,      \* what it is writing, as a set of at most one frame
    first,      \* the older index's connection, still to be written to
    rest,       \* the connections of byUser, still to be written to
    dead,       \* it panicked: the deferred recover ends it
    broken,     \* sockets that fail, by the peer or because the relay closed them
    sent,       \* times a frame was written to a connection
    past        \* history: the users a connection was ever bound to

relay == <<queue, taken, frame, first, rest, dead>>
relayVars == <<held, relay, broken, sent, past>>
allVars == <<vars, relayVars>>

RelayInit ==
    /\ Init
    /\ held = {} /\ queue = <<>> /\ taken = {} /\ frame = {}
    /\ first = NoConn /\ rest = {} /\ dead = FALSE
    /\ broken = {}
    /\ sent = [f \in Frames |-> [c \in Conns |-> 0]]
    /\ past = [c \in Conns |-> {}]

-----------------------------------------------------------------------------
(* The Kafka workers *)

Queued == {queue[i] : i \in DOMAIN queue}

\* A worker decodes the next frame and enters RelayMsg ...
Receive(f) ==
    /\ f \notin held \cup Queued \cup taken
    /\ Cardinality(held) < Workers
    /\ held' = held \cup {f}
    /\ UNCHANGED <<vars, relay, broken, sent, past>>

\* Mutation: a frame that finds the channel full is dropped.
RelayMsgOrDrop(f) ==
    /\ f \in held
    /\ held' = held \ {f}
    /\ queue' = IF Len(queue) < RelayCap THEN Append(queue, f) ELSE queue
    /\ UNCHANGED <<vars, taken, frame, first, rest, dead, broken, sent, past>>

\* ... and leaves it once the channel has room.
RelayMsg(f) ==
    /\ f \in held
    /\ Len(queue) < RelayCap
    /\ held' = held \ {f}
    /\ queue' = Append(queue, f)
    /\ UNCHANGED <<vars, taken, frame, first, rest, dead, broken, sent, past>>

-----------------------------------------------------------------------------
(* LoopRelayData *)

Idle == ~dead /\ frame = {}

\* It takes f out and is to write it to a and then to the connections of S.
TakeOut(f, a, S) ==
    /\ Idle
    /\ queue # <<>> /\ Head(queue) = f
    /\ queue' = Tail(queue)
    /\ taken' = taken \cup {f}
    /\ first' = a
    /\ rest' = S
    /\ frame' = IF a = NoConn /\ S = {} THEN {} ELSE {f}
    /\ UNCHANGED <<vars, held, dead, broken, sent, past>>

\* Mutation: the list is that of all registered connections.
TakeForAllRegistered(f) == Sid[f] = NoConn /\ TakeOut(f, conns[To[f]], bySnow)

\* GetAll lists the older index's connection and then all of byUser, which has it
\* as well.
TakeForAll(f) == Sid[f] = NoConn /\ TakeOut(f, conns[To[f]], byUser[To[f]])

TakeForOne(f) == Sid[f] \in byUser[To[f]] /\ TakeOut(f, Sid[f], {})

\* The connection is gone: the write fails on the nil socket, and closing it panics.
Panic(f) ==
    /\ Idle
    /\ queue # <<>> /\ Head(queue) = f
    /\ Sid[f] # NoConn /\ Sid[f] \notin byUser[To[f]]
    /\ queue' = Tail(queue)
    /\ taken' = taken \cup {f}
    /\ dead' = TRUE
    /\ UNCHANGED <<vars, held, frame, first, rest, broken, sent, past>>

\* The connection to be written to next; byUser is a map, so its order is any.
IsNext(c) == IF first # NoConn THEN c = first ELSE c \in rest

\* c is done with.
Pass(c) ==
    /\ IsNext(c)
    /\ IF first # NoConn THEN first' = NoConn /\ rest' = rest
                         ELSE first' = first /\ rest' = rest \ {c}
    /\ frame' = IF rest' = {} THEN {} ELSE frame
    /\ UNCHANGED <<held, queue, taken, dead, past>>

Works(c) == c \notin broken \cup closed

Write(f, c) ==
    /\ f \in frame /\ ~dead
    /\ Pass(c)
    /\ Works(c)
    /\ sent' = [sent EXCEPT ![f][c] = @ + 1]
    /\ UNCHANGED <<vars, broken>>

\* Mutation: whoever is registered is removed, not only the addressee.
WriteFailsForAll(f, c) ==
    /\ f \in frame /\ ~dead
    /\ Pass(c)
    /\ ~Works(c)
    /\ \E u \in Users : Remove(u)
    /\ broken' = broken \cup {c}
    /\ UNCHANGED sent

\* The socket is closed, and so are all connections of the addressee.
WriteFails(f, c) ==
    /\ f \in frame /\ ~dead
    /\ Pass(c)
    /\ ~Works(c)
    /\ Remove(To[f])
    /\ broken' = broken \cup {c}
    /\ UNCHANGED sent

-----------------------------------------------------------------------------
(* The connections meanwhile *)

Arrive(c) == AddUnauth(c) /\ UNCHANGED relayVars

Authenticate(c, u) ==
    /\ BindUser(c, u)
    /\ past' = [past EXCEPT ![c] = @ \cup {u}]
    /\ UNCHANGED <<held, relay, broken, sent>>

\* The peer of c goes away.
PeerLeaves(c) ==
    /\ c \in bySnow \ broken
    /\ broken' = broken \cup {c}
    /\ UNCHANGED <<vars, held, relay, sent, past>>

\* Mutation: a ping that fails closes the socket and leaves the table to others.
WriterCloses(c) ==
    /\ ~Works(c)
    /\ closed' = closed \cup {c}
    /\ UNCHANGED <<index, clock, created, expired, evicted, closing, stopped, relayVars>>

\* The next ping of c's own goroutine fails, which ends it and unregisters c.
WriterEnds(c) ==
    /\ ~Works(c)
    /\ RemoveBySnow(c)
    /\ UNCHANGED relayVars

\* The sweeper of the manager: a connection's time passes, a tick takes what is due
\* out of the table, and it is closed afterwards.
SweepsMeanwhile ==
    /\ \/ Cardinality(expired) < MaxExpired /\ \E c \in Conns : Expire(c)
       \/ sweepOnce
       \/ \E c \in Conns : CloseSwept(c)
    /\ UNCHANGED relayVars

RelayNext ==
    \/ \E f \in Frames : Receive(f)
    \/ \E f \in Frames : RelayMsg(f)
    \/ \E f \in Frames : TakeForAll(f)
    \/ \E f \in Frames : TakeForOne(f)
    \/ \E f \in Frames : Panic(f)
    \/ \E f \in Frames, c \in Conns : Write(f, c)
    \/ \E f \in Frames, c \in Conns : WriteFails(f, c)
    \/ \E c \in Conns : Arrive(c)
    \/ \E c \in Conns, u \in Users : Authenticate(c, u)
    \/ \E c \in Conns : PeerLeaves(c)
    \/ \E c \in Conns : WriterEnds(c)
    \/ SweepsMeanwhile

\* The goroutines run: that of the relay, a worker when one can go on, and those of
\* the connections that fail, whose tickers fire every 25 s.
RelayFairness ==
    /\ WF_allVars(\E f \in Frames : \/ TakeForAll(f) \/ TakeForOne(f) \/ Panic(f)
                                   \/ \E c \in Conns : Write(f, c) \/ WriteFails(f, c))
    /\ SF_allVars(\E f \in Frames : RelayMsg(f))
    /\ WF_allVars(\E c \in Conns : WriterEnds(c))

RelaySpec == RelayInit /\ [][RelayNext]_allVars /\ RelayFairness

-----------------------------------------------------------------------------
\* A frame is written only to connections that are or were its addressee's; one with
\* a session id only to that connection, once; one without at most once to each, but
\* for a single connection that gets it twice, being in the older index as well.
WrittenToItsAddressee ==
    \A f \in Frames :
        /\ \A c \in Conns : sent[f][c] > 0 => To[f] \in past[c]
        /\ Sid[f] # NoConn => \A c \in Conns : sent[f][c] <= (IF c = Sid[f] THEN 1 ELSE 0)
        /\ \A c, d \in Conns :
               /\ sent[f][c] <= 2
               /\ sent[f][c] = 2 /\ sent[f][d] = 2 => c = d

\* What a failed write costs: a working socket whose time is not up is closed only when
\* a socket fails that is or was the same user's, whatever the sweeper does meanwhile.
ClosedForItsUser ==
    \A c \in closed \ (broken \cup expired) :
        \E d \in broken : \E u \in past[d] : u \in past[c]

\* A frame in a worker's hands reaches the channel and leaves it, unless the relay
\* has died: from then on the channel fills and the workers wait.
RelayedUnlessDead ==
    \A f \in Frames : (f \in held \cup Queued) ~> (f \in taken \/ dead)

\* A socket that fails leaves the table, whatever the relay does.
BrokenLeaves == \A c \in Conns : (c \in broken \/ c \in closed) ~> (c \notin bySnow)

\* ... without exception: the relay goes on whatever happens to a connection.
Relayed == \A f \in Frames : f \in held ~> f \in taken

=============================================================================
