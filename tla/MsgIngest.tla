------------------------------ MODULE MsgIngest ------------------------------
(***************************************************************************)
(* The data node's handler of chat messages (module/message,               *)
(* HandlerTopicMessage) for one pair of users.  Kafka hands a message to   *)
(* any worker of the pool, at least once; two workers may handle the same  *)
(* message or two messages of the conversation at a time, in any order     *)
(* (KafkaConsumer).  Each Mongo command is one atomic step.                *)
(*                                                                         *)
(* Malloc is the allocator's promise (SeqIssuer): some number it never     *)
(* returned, in no particular order, or an error.  The errors of Mongo,    *)
(* Redis and Kafka are faults, at most MaxFaults of them; a failed command *)
(* may have run.  A frame without a payload fails as InsertFails does.     *)
(***************************************************************************)
EXTENDS Naturals, Sequences

CONSTANTS
    Workers,
    Msgs,            \* client messages of the topic, by client_msg_id
    Conv, NoConv,    \* the pair's conversation; "" after an error
    Sides,           \* owners of the two conversation documents
    None,            \* no document
    MaxSeq,          \* bound: numbers the allocator hands out
    MaxDeliveries,   \* bound: messages handed to workers, repetitions included
    MaxFaults        \* bound: failed commands

Convs == {Conv, NoConv}

\* A call's message, which delivery, convId, start, owners left for up.
Calls == [msg : Msgs, nth : 1 .. MaxDeliveries, conv : Convs, seq : 0 .. MaxSeq,
          todo : {<<>>} \cup {<<s>> : s \in Sides} \cup (Sides \X Sides)]

ASSUME BoundsAssumption == MaxSeq \in Nat /\ MaxDeliveries \in Nat /\ MaxFaults \in Nat
ASSUME DistinctAssumption == Conv # NoConv /\ None \notin Nat \cup Calls

Kinds == {"DATA", "DELIVER"}
Larger(x, y) == IF x > y THEN x ELSE y

VARIABLES
    indexed,      \* the unique index ix_conv_seq exists
    taken,        \* numbers Malloc returned, per conversation
    stored,       \* the message collection
    maxSeq,       \* seq_conversation.max_seq, per conversation
    shadow,       \* conversation.server_max_seq, per conversation and owner
    frames,       \* frames in the gateways' topics
    acked,        \* messages some handler call returned nil for (and whether it was Numbered)
    deliveries, faults,
    pc, call      \* each worker: where it is, and the locals of its call

disk == <<indexed, taken, stored, maxSeq, shadow>>
vars == <<disk, frames, acked, deliveries, faults, pc, call>>

NewCall(m, n) == [msg |-> m, nth |-> n, conv |-> NoConv, seq |-> 0, todo |-> <<>>]

Steps == {"index", "conv", "malloc", "count", "both", "upsert", "raise", "insert", "max",
          "data", "deliver"}

Init ==
    /\ indexed = FALSE
    /\ taken = [c \in Convs |-> {}]
    /\ stored = {}
    /\ maxSeq = [c \in Convs |-> 0]
    /\ shadow = [c \in Convs |-> [s \in Sides |-> None]]
    /\ frames = {} /\ acked = {}
    /\ deliveries = 0 /\ faults = 0
    /\ pc = [w \in Workers |-> "idle"]
    /\ call = [w \in Workers |-> None]

-----------------------------------------------------------------------------
At(w, l) == pc[w] = l
Goto(w, l) == pc' = [pc EXCEPT ![w] = l]
Continue(w, l) == Goto(w, l) /\ UNCHANGED call
End(w) == Goto(w, "idle") /\ call' = [call EXCEPT ![w] = None]
Fault == faults < MaxFaults /\ faults' = faults + 1
NoFault == UNCHANGED faults

Deliver(w, m) ==
    /\ At(w, "idle")
    /\ deliveries < MaxDeliveries
    /\ deliveries' = deliveries + 1
    /\ Goto(w, "index")
    /\ call' = [call EXCEPT ![w] = NewCall(m, deliveries')]
    /\ UNCHANGED <<disk, frames, acked, faults>>

SameSeq(r, s) == r.conv = s.conv /\ r.seq = s.seq

\* An error, or duplicates already stored: it is dropped, and the handler goes on
\* without the index.  (Not one of the MaxFaults faults.)
EnsureIndexes(w) ==
    /\ At(w, "index")
    /\ \/ indexed' = (indexed \/ \A r, s \in stored : SameSeq(r, s) => r = s)
       \/ UNCHANGED indexed
    /\ Continue(w, "conv")
    /\ UNCHANGED <<taken, stored, maxSeq, shadow, frames, acked, deliveries, faults>>

\* The error is dropped here too, and leaves convId empty.  The document it upserts
\* holds zeros, as an absent one does here.
EnsureSeqConversation(w) ==
    /\ At(w, "conv")
    /\ \/ NoFault /\ call' = [call EXCEPT ![w].conv = Conv]
       \/ Fault /\ UNCHANGED call
    /\ Goto(w, "malloc")
    /\ UNCHANGED <<disk, frames, acked, deliveries>>

\* On an error start is 0, and the next statement overwrites err.
Malloc(w) ==
    /\ At(w, "malloc")
    /\ \/ \E n \in (1 .. MaxSeq) \ taken[call[w].conv] :
             /\ NoFault
             /\ taken' = [taken EXCEPT ![call[w].conv] = @ \cup {n}]
             /\ call' = [call EXCEPT ![w].seq = n]
       \/ Fault /\ UNCHANGED <<taken, call>>
    /\ Goto(w, "count")
    /\ UNCHANGED <<indexed, stored, maxSeq, shadow, frames, acked, deliveries>>

\* EnsureTwoSidesByKnownConvID.  Its errors are only logged.
CountSides(w) ==
    /\ At(w, "count")
    /\ \/ /\ NoFault
          /\ Goto(w, IF \E s \in Sides : shadow[call[w].conv][s] = None
                     THEN "upsert" ELSE "both")
       \/ Fault /\ Goto(w, "insert")
    /\ \E s, t \in Sides :   \* sender and receiver
          s # t /\ call' = [call EXCEPT ![w].todo = <<s, t>>]
    /\ UNCHANGED <<disk, frames, acked, deliveries>>

Raise(c, S, n) == shadow' = [shadow EXCEPT ![c] =
                     [s \in Sides |-> IF s \in S THEN Larger(@[s], n) ELSE @[s]]]

UpdateBoth(w) ==
    /\ At(w, "both")
    /\ \/ NoFault /\ Raise(call[w].conv, Sides, call[w].seq)
       \/ Fault /\ \E S \in SUBSET Sides : Raise(call[w].conv, S, call[w].seq)
    /\ Continue(w, "insert")
    /\ UNCHANGED <<indexed, taken, stored, maxSeq, frames, acked, deliveries>>

\* up for the next owner: a document inserted now starts at 0 and is not raised.
Owner(w) == Head(call[w].todo)
Present(w) == shadow[call[w].conv][Owner(w)] # None

SideDone(w) ==
    /\ call' = [call EXCEPT ![w].todo = Tail(@)]
    /\ Goto(w, IF Len(call[w].todo) = 1 THEN "insert" ELSE "upsert")

InsertSide(w) ==
    /\ At(w, "upsert")
    /\ ~Present(w)
    /\ shadow' = [shadow EXCEPT ![call[w].conv][Owner(w)] = 0]
    /\ SideDone(w)
    /\ UNCHANGED <<indexed, taken, stored, maxSeq, frames, acked, deliveries, faults>>

FindSide(w) ==
    /\ At(w, "upsert")
    /\ Present(w)
    /\ Continue(w, "raise")
    /\ UNCHANGED <<disk, frames, acked, deliveries, faults>>

RaiseSide(w) ==
    /\ At(w, "raise")
    /\ Raise(call[w].conv, {Owner(w)}, call[w].seq)
    /\ SideDone(w)
    /\ UNCHANGED <<indexed, taken, stored, maxSeq, frames, acked, deliveries, faults>>

\* An error of either command ends up for both owners, or the handler: log.Errorf
\* panics under a context that is not App Engine's, and the pool recovers.
UpFails(w) ==
    /\ Fault
    /\ \/ At(w, "upsert") /\ UNCHANGED shadow
       \/ /\ At(w, "upsert") /\ ~Present(w)
          /\ shadow' = [shadow EXCEPT ![call[w].conv][Owner(w)] = 0]
       \/ At(w, "raise") /\ UNCHANGED shadow
       \/ At(w, "raise") /\ Raise(call[w].conv, {Owner(w)}, call[w].seq)
    /\ Continue(w, "insert") \/ End(w)
    /\ UNCHANGED <<indexed, taken, stored, maxSeq, frames, acked, deliveries>>

Record(w) == [conv |-> call[w].conv, seq |-> call[w].seq,
              msg |-> call[w].msg, nth |-> call[w].nth]

\* Mutation: the unique index covers the message as well.
RejectedSameMessage(w) ==
    indexed /\ \E r \in stored : SameSeq(r, Record(w)) /\ r.msg = call[w].msg

Rejected(w) == indexed /\ \E r \in stored : SameSeq(r, Record(w))

InsertMessage(w) ==
    /\ At(w, "insert")
    /\ ~Rejected(w)
    /\ stored' = stored \cup {Record(w)}
    /\ Continue(w, "max")
    /\ UNCHANGED <<indexed, taken, maxSeq, shadow, frames, acked, deliveries, faults>>

\* Mutation: the error of InsertOne is dropped as well.
InsertFailsUnchecked(w) ==
    /\ At(w, "insert")
    /\ \/ Rejected(w) /\ NoFault
       \/ Fault
    /\ Continue(w, "max")
    /\ UNCHANGED <<disk, frames, acked, deliveries>>

\* A duplicate key, or an error of Mongo: the handler returns it.
InsertFails(w) ==
    /\ At(w, "insert")
    /\ \/ Rejected(w) /\ NoFault /\ UNCHANGED stored
       \/ Fault /\ UNCHANGED stored
       \/ ~Rejected(w) /\ Fault /\ stored' = stored \cup {Record(w)}
    /\ End(w)
    /\ UNCHANGED <<indexed, taken, maxSeq, shadow, frames, acked, deliveries>>

\* Mutation: max_seq becomes the next number to expect.
AdvancePastIt(w) == maxSeq' = [maxSeq EXCEPT ![call[w].conv] = Larger(@, call[w].seq + 1)]

\* UpdateMaxSeq: $max.
Advance(w) == maxSeq' = [maxSeq EXCEPT ![call[w].conv] = Larger(@, call[w].seq)]

\* A larger max_seq means that a later message overtook: "seq diff error", though the
\* message is stored.
UpdateMaxSeq(w) ==
    /\ At(w, "max")
    /\ Advance(w)
    /\ IF maxSeq'[call[w].conv] = call[w].seq THEN Continue(w, "data") ELSE End(w)
    /\ UNCHANGED <<indexed, taken, stored, shadow, frames, acked, deliveries, faults>>

\* Mutation: its error is only logged.
UpdateMaxSeqFailsUnchecked(w) ==
    /\ At(w, "max")
    /\ Fault
    /\ UNCHANGED maxSeq \/ Advance(w)
    /\ Continue(w, "data")
    /\ UNCHANGED <<indexed, taken, stored, shadow, frames, acked, deliveries>>

UpdateMaxSeqFails(w) ==
    /\ At(w, "max")
    /\ Fault
    /\ UNCHANGED maxSeq \/ Advance(w)
    /\ End(w)
    /\ UNCHANGED <<indexed, taken, stored, shadow, frames, acked, deliveries>>

\* The call got a conversation and a number before it stored the message; one whose
\* EnsureSeqConversation or Malloc failed goes on all the same, with "" or 0.
Numbered(w) == call[w].conv = Conv /\ call[w].seq > 0

\* MessageProducerHandler: an error of Kafka is only logged.
Produce(w, kind) ==
    \/ /\ NoFault
       /\ frames' = frames \cup
             {[kind |-> kind, msg |-> call[w].msg, numbered |-> Numbered(w)]}
    \/ Fault /\ UNCHANGED frames

ProduceData(w) ==
    /\ At(w, "data")
    /\ Produce(w, "DATA")
    /\ Continue(w, "deliver")
    /\ UNCHANGED <<disk, acked, deliveries>>

ProduceDeliver(w) ==
    /\ At(w, "deliver")
    /\ Produce(w, "DELIVER")
    /\ acked' = acked \cup {[msg |-> call[w].msg, numbered |-> Numbered(w)]}
    /\ End(w)
    /\ UNCHANGED <<disk, deliveries>>

Crash(w) ==
    /\ ~At(w, "idle")
    /\ Fault
    /\ End(w)
    /\ UNCHANGED <<disk, frames, acked, deliveries>>

HandlerTopicMessage(w) ==
    \/ EnsureIndexes(w)
    \/ EnsureSeqConversation(w)
    \/ Malloc(w)
    \/ CountSides(w)
    \/ UpdateBoth(w)
    \/ InsertSide(w)
    \/ FindSide(w)
    \/ RaiseSide(w)
    \/ UpFails(w)
    \/ InsertMessage(w)
    \/ InsertFails(w)
    \/ UpdateMaxSeq(w)
    \/ UpdateMaxSeqFails(w)
    \/ ProduceData(w)
    \/ ProduceDeliver(w)
    \/ Crash(w)

Next == \E w \in Workers : HandlerTopicMessage(w) \/ \E m \in Msgs : Deliver(w, m)

Spec == Init /\ [][Next]_vars

-----------------------------------------------------------------------------
TypeOK ==
    /\ indexed \in BOOLEAN
    /\ taken \in [Convs -> SUBSET (1 .. MaxSeq)]
    /\ stored \subseteq [conv : Convs, seq : 0 .. MaxSeq, msg : Msgs, nth : 1 .. MaxDeliveries]
    /\ maxSeq \in [Convs -> 0 .. MaxSeq]
    /\ shadow \in [Convs -> [Sides -> (0 .. MaxSeq) \cup {None}]]
    /\ frames \subseteq [kind : Kinds, msg : Msgs, numbered : BOOLEAN]
    /\ acked \subseteq [msg : Msgs, numbered : BOOLEAN]
    /\ deliveries \in 0 .. MaxDeliveries /\ faults \in 0 .. MaxFaults
    /\ pc \in [Workers -> Steps \cup {"idle"}]
    /\ call \in [Workers -> {None} \cup Calls]
    /\ \A w \in Workers : pc[w] = "idle" <=> call[w] = None

\* The commit watermark of a conversation is the seq of a stored message, whatever
\* fails between the insert and the update (model/seq.go:30).
WatermarkIsStored ==
    \A c \in Convs : maxSeq[c] > 0 => \E r \in stored : r.conv = c /\ r.seq = maxSeq[c]

\* One message per number of a conversation, whether or not ix_conv_seq could be
\* created; the calls Malloc failed share number 0 as long as it could not.
OneMessagePerSeq ==
    \A r, s \in stored : SameSeq(r, s) /\ r # s => r.seq = 0 /\ ~indexed

\* The handler implements the message log: what a Numbered call announces to a gateway
\* or acknowledges to Kafka is in the pair's read range (MinSeq, MaxSeq]
\* (model/seq.go:31; nothing here raises MinSeq above 0), and stays there.  Numbered is
\* an exception by name: a call without a number stores under 0, and one without a
\* conversation under "", where no reader looks, and announces it as if it were sent.
Readable == {r.msg : r \in {q \in stored : q.conv = Conv /\ q.seq \in 1 .. maxSeq[Conv]}}
Announced == {a.msg : a \in {b \in acked \cup frames : b.numbered}}
Log == INSTANCE MessageLog WITH readable <- Readable, announced <- Announced
LogSpec == Log!Spec

=============================================================================
