--------------------------- MODULE KafkaConsumer ---------------------------
(***************************************************************************)
(* One partition of a PPChat topic as ConsumeClaim reads it               *)
(* (service/dispatcher/kafka/consumer.go).  The claim's main loop selects  *)
(* between new messages, the workers' acks and the end of the session; an  *)
(* ants pool runs the handlers concurrently and the loop moves the commit  *)
(* point over the contiguous prefix of offsets whose handler succeeded.    *)
(*                                                                         *)
(* External: sarama (offset of a claim, MarkOffset, the 2s auto-commit,    *)
(* rebalances) and ants (a blocking Submit, recovery of a panicking task). *)
(* Left out: logging and the commit ticker, whose body is commented out.   *)
(* A handler still running when its claim ends goes on against an ack      *)
(* channel nobody reads; it can no longer touch this partition's offsets,  *)
(* so the model forgets it with the claim.                                 *)
(***************************************************************************)
EXTENDS Integers, Sequences, FiniteSets

CONSTANTS
    LogSize,        \* bound: offsets ever produced
    MaxClaims,      \* bound: claims (sessions) ever started
    PoolSize,       \* ants.NewPool(32)
    InflightCap,    \* cap(inflight), 4096
    AckCap,         \* cap(ackC), 2048
    StartCommitted  \* the group's committed offset at start, NoOffset if none

NoOffset == -1      \* sarama.OffsetNewest: the claim has no committed offset

ASSUME BoundsAssumption == LogSize \in Nat /\ MaxClaims \in Nat
ASSUME CapAssumption ==
    /\ PoolSize \in Nat \ {0}
    /\ AckCap \in Nat \ {0}
    /\ InflightCap \in Nat
    /\ PoolSize < InflightCap
ASSUME StartAssumption == StartCommitted \in {0, NoOffset}

Offsets == 0 .. LogSize - 1
Positions == {NoOffset} \cup (0 .. LogSize)
Ack == [off : Offsets, ok : BOOLEAN]

VARIABLES
    end,         \* log end offset of the partition
    committed,   \* the group's committed offset at the broker
    claims,      \* claims started so far
    registered,  \* handlerMap holds a handler for the topic
    main,        \* where the claim's main loop is
    cur,         \* the offset the main loop holds in slot, submit or nack
    pos,         \* next offset claim.Messages() delivers
    first,       \* the first offset this claim delivers
    next, pendingOK, ackC, inflight,   \* as in ConsumeClaim
    running,     \* offsets whose handler is executing
    acking,      \* workers back from the handler, about to send their ack
    marked,      \* the session's marked offset
    revoked,     \* session.Context() is done or claim.Messages() is closed
    succeeded,   \* history: offsets whose handler returned nil in this claim
    handled      \* history: offsets whose handler returned nil in any claim

claimVars == <<first, next, pendingOK, ackC, inflight, running, acking, succeeded>>
vars == <<end, committed, claims, registered, main, cur, pos, marked, revoked,
          handled, claimVars>>

-----------------------------------------------------------------------------
(* EnsureTopics is the only caller of RegisterHandler, and it runs only     *)
(* with AutoCreateTopicsOnStart: a topic may be consumed without a handler. *)
Init ==
    /\ end = 0
    /\ committed = StartCommitted
    /\ claims = 0
    /\ registered \in BOOLEAN
    /\ main = "idle"
    /\ cur = NoOffset
    /\ pos = 0
    /\ first = 0
    /\ next = NoOffset
    /\ pendingOK = {}
    /\ ackC = <<>>
    /\ inflight = 0
    /\ running = {}
    /\ acking = {}
    /\ marked = NoOffset
    /\ revoked = FALSE
    /\ succeeded = {}
    /\ handled = {}

Produce ==
    /\ end < LogSize
    /\ end' = end + 1
    /\ UNCHANGED <<committed, claims, registered, main, cur, pos, marked, revoked,
                   handled, claimVars>>

\* A claim starts at the committed offset.  Without one sarama reads from the
\* log end, and InitialOffset() is the sentinel OffsetNewest, not a position.
StartClaim ==
    /\ main = "idle"
    /\ claims < MaxClaims
    /\ claims' = claims + 1
    /\ main' = "select"
    /\ pos' = IF committed = NoOffset THEN end ELSE committed
    /\ first' = pos'
    /\ next' = committed
    /\ marked' = committed
    /\ revoked' = FALSE
    /\ UNCHANGED <<end, committed, registered, cur, pendingOK, ackC, inflight,
                   running, acking, succeeded, handled>>

Take ==
    /\ main = "select"
    /\ pos < end
    /\ cur' = pos
    /\ pos' = pos + 1
    /\ main' = "slot"
    /\ UNCHANGED <<end, committed, claims, registered, marked, revoked, handled, claimVars>>

\* inflight <- struct{}{}, then GetHandler.  Without a handler the token goes
\* back and the main loop has to send the negative ack itself.
AcquireSlot ==
    /\ main = "slot"
    /\ inflight < InflightCap
    /\ IF registered
       THEN /\ inflight' = inflight + 1
            /\ main' = "submit"
       ELSE /\ main' = "nack"
            /\ UNCHANGED inflight
    /\ UNCHANGED <<end, committed, claims, registered, cur, pos, marked, revoked, handled,
                   first, next, pendingOK, ackC, running, acking, succeeded>>

Busy == Cardinality(running) + Cardinality(acking)

Submit ==
    /\ main = "submit"
    /\ Busy < PoolSize
    /\ running' = running \cup {cur}
    /\ main' = "select"
    /\ UNCHANGED <<end, committed, claims, registered, cur, pos, marked, revoked, handled,
                   first, next, pendingOK, ackC, inflight, acking, succeeded>>

SubmitFails ==
    /\ main = "submit"
    /\ inflight' = inflight - 1
    /\ main' = "nack"
    /\ UNCHANGED <<end, committed, claims, registered, cur, pos, marked, revoked, handled,
                   first, next, pendingOK, ackC, running, acking, succeeded>>

SendNack ==
    /\ main = "nack"
    /\ Len(ackC) < AckCap
    /\ ackC' = Append(ackC, [off |-> cur, ok |-> FALSE])
    /\ main' = "select"
    /\ UNCHANGED <<end, committed, claims, registered, cur, pos, marked, revoked, handled,
                   first, next, pendingOK, inflight, running, acking, succeeded>>

HandlerReturns(o, ok) ==
    /\ o \in running
    /\ running' = running \ {o}
    /\ acking' = acking \cup {[off |-> o, ok |-> ok]}
    /\ succeeded' = IF ok THEN succeeded \cup {o} ELSE succeeded
    /\ handled' = IF ok THEN handled \cup {o} ELSE handled
    /\ UNCHANGED <<end, committed, claims, registered, main, cur, pos, marked, revoked,
                   first, next, pendingOK, ackC, inflight>>

\* Mutation: the panic path leaks its inflight token.
HandlerPanicsKeepingSlot(o) ==
    /\ o \in running
    /\ running' = running \ {o}
    /\ UNCHANGED <<end, committed, claims, registered, main, cur, pos, marked, revoked,
                   handled, first, next, pendingOK, ackC, inflight, acking, succeeded>>

\* ants recovers the panic: the deferred <-inflight runs, no ack is ever sent.
HandlerPanics(o) ==
    /\ o \in running
    /\ running' = running \ {o}
    /\ inflight' = inflight - 1
    /\ UNCHANGED <<end, committed, claims, registered, main, cur, pos, marked, revoked,
                   handled, first, next, pendingOK, ackC, acking, succeeded>>

\* Mutation: a worker's send on ackC that does not block when the channel is full.
WorkerAcksUnbounded(a) ==
    /\ a \in acking
    /\ ackC' = Append(ackC, a)
    /\ acking' = acking \ {a}
    /\ inflight' = inflight - 1
    /\ UNCHANGED <<end, committed, claims, registered, main, cur, pos, marked, revoked,
                   handled, first, next, pendingOK, running, succeeded>>

\* ackC <- ack{...} blocks while the channel is full; then <-inflight.
WorkerAcks(a) ==
    /\ a \in acking
    /\ Len(ackC) < AckCap
    /\ ackC' = Append(ackC, a)
    /\ acking' = acking \ {a}
    /\ inflight' = inflight - 1
    /\ UNCHANGED <<end, committed, claims, registered, main, cur, pos, marked, revoked,
                   handled, first, next, pendingOK, running, succeeded>>

\* Mutation: a failed ack is entered into pendingOK like a successful one.
ReceiveAckIgnoringFailure ==
    /\ main = "select"
    /\ ackC # <<>>
    /\ ackC' = Tail(ackC)
    /\ pendingOK' = pendingOK \cup {Head(ackC).off}
    /\ main' = "advance"
    /\ UNCHANGED <<end, committed, claims, registered, cur, pos, marked, revoked, handled,
                   first, next, inflight, running, acking, succeeded>>

\* case a := <-ackC: a failure does not move the commit point and is not retried.
ReceiveAck ==
    /\ main = "select"
    /\ ackC # <<>>
    /\ ackC' = Tail(ackC)
    /\ IF Head(ackC).ok
       THEN /\ pendingOK' = pendingOK \cup {Head(ackC).off}
            /\ main' = "advance"
       ELSE UNCHANGED <<pendingOK, main>>
    /\ UNCHANGED <<end, committed, claims, registered, cur, pos, marked, revoked, handled,
                   first, next, inflight, running, acking, succeeded>>

\* session.MarkOffset(next+1): sarama only ever raises the marked offset.
Raise(mark, to) == IF to > mark THEN to ELSE mark

\* Mutation: the window moves by one offset per ack instead of over the whole run.
AdvanceOnce ==
    /\ main = "advance"
    /\ main' = "select"
    /\ IF next \in pendingOK
       THEN /\ pendingOK' = pendingOK \ {next}
            /\ marked' = Raise(marked, next + 1)
            /\ next' = next + 1
       ELSE UNCHANGED <<pendingOK, marked, next>>
    /\ UNCHANGED <<end, committed, claims, registered, cur, pos, revoked, handled,
                   first, ackC, inflight, running, acking, succeeded>>

\* One turn of the loop over the contiguous window.  The auto-commit goroutine
\* may run between two turns.
Advance ==
    /\ main = "advance"
    /\ IF next \in pendingOK
       THEN /\ pendingOK' = pendingOK \ {next}
            /\ marked' = Raise(marked, next + 1)
            /\ next' = next + 1
            /\ UNCHANGED main
       ELSE /\ main' = "select"
            /\ UNCHANGED <<pendingOK, marked, next>>
    /\ UNCHANGED <<end, committed, claims, registered, cur, pos, revoked, handled,
                   first, ackC, inflight, running, acking, succeeded>>

Open == main # "idle"

AutoCommit ==
    /\ Open
    /\ committed' = Raise(committed, marked)
    /\ UNCHANGED <<end, claims, registered, main, cur, pos, marked, revoked, handled,
                   claimVars>>

Revoke ==
    /\ Open
    /\ revoked' = TRUE
    /\ UNCHANGED <<end, committed, claims, registered, main, cur, pos, marked, handled,
                   claimVars>>

ForgetClaim ==
    /\ main' = "idle"
    /\ cur' = NoOffset
    /\ pendingOK' = {}
    /\ ackC' = <<>>
    /\ inflight' = 0
    /\ running' = {}
    /\ acking' = {}
    /\ succeeded' = {}
    /\ UNCHANGED <<end, claims, registered, pos, first, next, marked, revoked, handled>>

\* Mutation: the final commit covers what was read, not what was handled.
LeaveCommittingRead ==
    /\ main = "select"
    /\ revoked
    /\ committed' = Raise(committed, pos)
    /\ ForgetClaim

\* The main loop can only leave from its select.  Closing the session flushes
\* the marks, unless the coordinator has already fenced it.
Leave ==
    /\ main = "select"
    /\ revoked
    /\ committed' \in {committed, Raise(committed, marked)}
    /\ ForgetClaim

Crash ==
    /\ Open
    /\ ForgetClaim
    /\ UNCHANGED committed

Next ==
    \/ Produce
    \/ StartClaim
    \/ Take
    \/ AcquireSlot
    \/ Submit
    \/ SubmitFails
    \/ SendNack
    \/ \E o \in Offsets, ok \in BOOLEAN : HandlerReturns(o, ok)
    \/ \E o \in Offsets : HandlerPanics(o)
    \/ \E a \in Ack : WorkerAcks(a)
    \/ ReceiveAck
    \/ Advance
    \/ AutoCommit
    \/ Revoke
    \/ Leave
    \/ Crash

Spec == Init /\ [][Next]_vars

\* The runtime schedules the main loop and the workers; handlers end.  Nothing
\* obliges producers, rebalances, crashes or the commit timer.  Weak fairness of
\* ReceiveAck is less than Go's select gives, which picks uniformly among the
\* ready cases.
Fairness ==
    /\ WF_vars(AcquireSlot)
    /\ WF_vars(Submit)
    /\ WF_vars(SendNack)
    /\ WF_vars(ReceiveAck)
    /\ WF_vars(Advance)
    /\ \A o \in Offsets : WF_vars(HandlerPanics(o) \/ \E ok \in BOOLEAN : HandlerReturns(o, ok))
    /\ \A a \in Ack : WF_vars(WorkerAcks(a))

FairSpec == Spec /\ Fairness

-----------------------------------------------------------------------------
TypeOK ==
    /\ end \in 0 .. LogSize
    /\ committed \in Positions
    /\ claims \in 0 .. MaxClaims
    /\ registered \in BOOLEAN
    /\ main \in {"idle", "select", "slot", "submit", "nack", "advance"}
    /\ cur \in Offsets \cup {NoOffset}
    /\ main \in {"slot", "submit", "nack"} => cur \in Offsets
    /\ pos \in 0 .. LogSize
    /\ first \in 0 .. LogSize
    /\ next \in Positions
    /\ pendingOK \in SUBSET Offsets
    /\ ackC \in Seq(Ack)
    /\ Len(ackC) <= AckCap
    /\ inflight \in 0 .. InflightCap
    /\ running \in SUBSET Offsets
    /\ acking \in SUBSET Ack
    /\ marked \in Positions
    /\ revoked \in BOOLEAN
    /\ succeeded \in SUBSET Offsets
    /\ handled \in SUBSET Offsets

\* The commit point of a claim never passes an offset whose handler has not
\* returned nil in that claim: the in-order window over out-of-order workers.
MarkedOnlyHandled ==
    Open /\ marked # NoOffset => \A o \in first .. marked - 1 : o \in succeeded

\* At-least-once across rebalances, crashes and auto-commits: no offset below
\* the broker's commit was skipped, so a restart loses no message the group
\* was responsible for.
CommittedOnlyHandled ==
    StartCommitted # NoOffset /\ committed # NoOffset =>
        \A o \in StartCommitted .. committed - 1 : o \in handled

\* The inflight semaphore (4096) never stops the main loop before the pool (32)
\* does: every path that takes a token gives it back exactly once.
InflightNeverBinds == main = "slot" => inflight < InflightCap

\* The main loop is the only reader of ackC: blocked on a send, or on a Submit
\* whose workers are all blocked on a send, it never comes back.
Wedged ==
    /\ Len(ackC) = AckCap
    /\ \/ main = "nack"
       \/ main = "submit" /\ running = {} /\ Busy = PoolSize

\* Once every offset up to o has been handled successfully the commit point
\* passes o, unless the claim ends or the loop wedges: the window never gets
\* stuck behind acks that came out of order.
PrefixGetsMarked ==
    \A o \in Offsets :
        (Open /\ o >= first /\ \A p \in first .. o : p \in succeeded)
            ~> (marked > o \/ ~Open \/ Wedged)

=============================================================================
