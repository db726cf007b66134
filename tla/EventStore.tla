----------------------------- MODULE EventStore -----------------------------
(***************************************************************************)
(* The event log of a ChatBox conversation and its projections             *)
(* (module/chatBox/store).  AppendEvent takes a number from the            *)
(* conversation's counter and stores the event under it, both in one       *)
(* MongoDB transaction, unless an event of that id is stored already.      *)
(* Projector.Run follows the log through a change stream and keeps two     *)
(* collections: what the customer sees and what agents see.                *)
(*                                                                         *)
(* A counter's document is locked by the transaction that raises it.  None *)
(* can be locked before there is one, and no index keeps the first two     *)
(* transactions from making one each.                                      *)
(***************************************************************************)
EXTENDS Naturals, Sequences, FiniteSets

CONSTANTS
    Events,         \* event ids
    Kind,           \* of each: "message", "edit", "redact", "publish"
    Public,         \* messages whose vis_mode is "public"
    Deny,           \* VisDeny: which of its lists an event fills in
    Target,         \* the message a follow-up is about; NoEvent for messages
    NoEvent,        \* also: no content
    Callers,        \* calls of AppendEvent under way at a time
    MaxCounters,    \* bound on the documents of conv_seq
    MaxSeq          \* bound on a counter

ACLList == {"teams", "agents", "roles", "tags"}

Messages == {e \in Events : Kind[e] = "message"}

ASSUME EventAssumption ==
    /\ Kind \in [Events -> {"message", "edit", "redact", "publish"}]
    /\ Public \subseteq Messages
    /\ Deny \in [Events -> SUBSET ACLList]
    /\ NoEvent \notin Events
    /\ \A e \in Events : IF e \in Messages THEN Target[e] = NoEvent ELSE Target[e] \in Messages
    /\ MaxCounters \in Nat /\ MaxSeq \in Nat

Seqs == 1 .. MaxSeq

VARIABLES
    counters,   \* conv_seq: max_seq of each document of the conversation
    events,     \* conversation_events in the order of their commits
    calls,      \* open transactions, at most one per caller
    replies,    \* the numbers AppendEvent returned for each event
    up,         \* the projector runs
    pos,        \* events its change stream has handed it, or passed over
    missed,     \* history: it did not see an event, or a write failed
    public,     \* public_timeline, by seq
    private     \* private_notes, by seq

store == <<counters, events, calls, replies>>
projection == <<up, pos, missed, public, private>>
vars == <<store, projection>>

NoDoc == [src |-> NoEvent, content |-> NoEvent, redacted |-> FALSE]
NoDocs == [s \in Seqs |-> NoDoc]

Init ==
    /\ counters = <<>> /\ events = <<>> /\ calls = {}
    /\ replies = [e \in Events |-> {}]
    /\ up = TRUE /\ pos = 0 /\ missed = FALSE
    /\ public = NoDocs /\ private = NoDocs

-----------------------------------------------------------------------------
(* AppendEvent *)

Stored == {events[i].id : i \in DOMAIN events}
Locked == {t.doc : t \in calls}

\* The transaction sees the log as it is now.  A follow-up names a number that was
\* returned for its target.
Begin(c, e) ==
    /\ \A t \in calls : t.by # c
    /\ \E about \in IF e \in Messages THEN {0} ELSE replies[Target[e]] :
       \E d \in IF counters = <<>> THEN {0} ELSE DOMAIN counters \ Locked :
        /\ IF d = 0 THEN Cardinality(calls) < MaxCounters ELSE counters[d] < MaxSeq
        /\ calls' = calls \cup {[by |-> c, id |-> e, about |-> about, doc |-> d,
                                 known |-> e \in Stored]}
    /\ UNCHANGED <<counters, events, replies, projection>>

\* The number t takes; a counter that is not there yet starts with 1.
SeqOf(t) == IF t.doc = 0 THEN 1 ELSE counters[t.doc] + 1

\* Mutation: the number of a stored event's counter is given back.
NumberReused(t) ==
    /\ t \in calls
    /\ counters' = IF t.doc = 0 THEN Append(counters, 1)
                   ELSE [counters EXCEPT ![t.doc] = IF t.known THEN @ ELSE @ + 1]
    /\ events' = IF t.known THEN events
                 ELSE Append(events, [id |-> t.id, seq |-> SeqOf(t), about |-> t.about])
    /\ replies' = [replies EXCEPT ![t.id] = @ \cup {SeqOf(t)}]
    /\ calls' = calls \ {t}
    /\ UNCHANGED projection

\* The caller that does not get the reply is one that never uses it.
Commit(t) ==
    /\ t \in calls
    /\ counters' = IF t.doc = 0 THEN Append(counters, 1)
                   ELSE [counters EXCEPT ![t.doc] = @ + 1]
    /\ events' = IF t.known THEN events
                 ELSE Append(events, [id |-> t.id, seq |-> SeqOf(t), about |-> t.about])
    /\ replies' = [replies EXCEPT ![t.id] = @ \cup {SeqOf(t)}]
    /\ calls' = calls \ {t}
    /\ UNCHANGED projection

Abort(t) ==
    /\ t \in calls
    /\ calls' = calls \ {t}
    /\ UNCHANGED <<counters, events, replies, projection>>

-----------------------------------------------------------------------------
(* Projector.Run; an error of a write is ignored *)

\* Mutation: the deny list is not looked at.
isPublicByMode(e) == e \in Public

isPublic(e) == e \in Public /\ Deny[e] \cap {"teams", "agents", "roles"} = {}

\* The next event, of one of the kinds K, is ev.
Reads(ev, K) ==
    /\ up /\ pos < Len(events)
    /\ ev = events[pos + 1] /\ Kind[ev.id] \in K
    /\ pos' = pos + 1
    /\ UNCHANGED <<store, up>>

\* All writes of the step took effect, or not all did.
Counted(all) == missed' = (missed \/ ~all)

\* $setOnInsert: a document that is there stays.
Insert(docs, s, d) == IF docs[s] = NoDoc THEN [docs EXCEPT ![s] = d] ELSE docs

Change(docs, s, c, r) ==
    IF docs[s] = NoDoc THEN docs
    ELSE [docs EXCEPT ![s].content = c, ![s].redacted = @ \/ r]

ProjectMessage(ev) ==
    /\ Reads(ev, {"message"})
    /\ LET d == [src |-> ev.id, content |-> ev.id, redacted |-> FALSE]
       IN  \/ /\ Counted(TRUE)
              /\ IF isPublic(ev.id)
                 THEN public' = Insert(public, ev.seq, d) /\ UNCHANGED private
                 ELSE private' = Insert(private, ev.seq, d) /\ UNCHANGED public
           \/ Counted(FALSE) /\ UNCHANGED <<public, private>>

\* Mutation: an edit goes to the agents' collection alone.
ChangePrivate(ev, c, r) ==
    \E p \in {TRUE, FALSE} :
        /\ private' = IF p THEN Change(private, ev.about, c, r) ELSE private
        /\ UNCHANGED public
        /\ Counted(p)

\* Each of the two updates may fail.
ChangeBoth(ev, c, r) ==
    \E p, q \in {TRUE, FALSE} :
        /\ public' = IF p THEN Change(public, ev.about, c, r) ELSE public
        /\ private' = IF q THEN Change(private, ev.about, c, r) ELSE private
        /\ Counted(p /\ q)

applyEdit(ev) == Reads(ev, {"edit"}) /\ ChangeBoth(ev, ev.id, FALSE)

applyRedact(ev) == Reads(ev, {"redact"}) /\ ChangeBoth(ev, NoEvent, TRUE)

\* The content is lost on the way: anyToMap does not take the bson.M it was read into.
movePrivateToPublic(ev) ==
    /\ Reads(ev, {"publish"})
    /\ \/ /\ private[ev.about] # NoDoc
          /\ public' = Insert(public, ev.about, [private[ev.about] EXCEPT !.content = NoEvent])
          /\ Counted(TRUE)
       \/ private[ev.about] = NoDoc /\ UNCHANGED public /\ Counted(TRUE)
       \/ UNCHANGED public /\ Counted(FALSE)
    /\ UNCHANGED private

Stop ==
    /\ up
    /\ up' = FALSE
    /\ UNCHANGED <<store, pos, missed, public, private>>

\* The new change stream begins with the next event.
Start ==
    /\ ~up
    /\ up' = TRUE
    /\ missed' = (missed \/ pos < Len(events))
    /\ pos' = Len(events)
    /\ UNCHANGED <<store, public, private>>

NextEvent == {events[i] : i \in {pos + 1} \cap DOMAIN events}

Next ==
    \/ \E c \in Callers, e \in Events : Begin(c, e)
    \/ \E t \in calls : Commit(t)
    \/ \E t \in calls : Abort(t)
    \/ \E ev \in NextEvent : ProjectMessage(ev)
    \/ \E ev \in NextEvent : applyEdit(ev)
    \/ \E ev \in NextEvent : applyRedact(ev)
    \/ \E ev \in NextEvent : movePrivateToPublic(ev)
    \/ Stop
    \/ Start

Spec == Init /\ [][Next]_vars

-----------------------------------------------------------------------------
\* The counter is one document: the first two transactions did not overlap.
OneCounter == Len(counters) <= 1

\* A number that was returned for an event is the event's, or nobody's: the reply to
\* a repeated call is a number no event will get, never that of another.  Numbers
\* grow in the order the change stream sees.
RepliesAddressTheirEvent ==
    OneCounter =>
        /\ \A i, j \in DOMAIN events : i < j => events[i].seq < events[j].seq
        /\ \A e \in Events, i \in DOMAIN events :
               events[i].seq \in replies[e] => events[i].id = e

\* What a message shows was written by it or by an edit of it.
SourceOf(c) == IF Kind[c] = "message" THEN c ELSE Target[c]

\* A message meant for the customer has no deny list.  The exception by name is one
\* that denies tags alone: nothing but a comment says it is private, isPublic does not
\* look at tags.
Meant(e) == e \in Public /\ Deny[e] = {}
TagsOnly(e) == e \in Public /\ Deny[e] = {"tags"}
Open(e) == Meant(e) \/ TagsOnly(e)

\* Customers see nothing of a message that is not open before somebody publishes it,
\* whatever the projector missed.
PrivateStaysPrivate ==
    OneCounter => \A s \in Seqs :
        public[s] # NoDoc =>
            LET shown == {public[s].src} \cup ({public[s].content} \ {NoEvent})
            IN  \A c \in shown :
                    \/ Open(SourceOf(c))
                    \/ \E i \in 1 .. pos : Kind[events[i].id] = "publish"
                                           /\ Target[events[i].id] = SourceOf(c)

\* The message of number s, and the events up to pos that are about it and came after i.
Made(s) == {i \in 1 .. pos : events[i].seq = s /\ Kind[events[i].id] = "message"}
After(i, s, K) == {k \in i + 1 .. pos : events[k].about = s /\ Kind[events[k].id] \in K}

\* The exception by name: what was published and not edited since has lost its content.
Blank(s, i) ==
    /\ ~Open(events[i].id)
    /\ \A k \in After(i, s, {"edit"}), j \in After(i, s, {"publish"}) : k < j

\* What the customer may read of the message of entry i: its last edit, or what it was
\* made with.  Once it is redacted, nothing that came before; whether an edit that
\* follows the redaction shows is left open.
Readable(s, i) ==
    LET edits == After(i, s, {"edit"})
        redacts == After(i, s, {"redact"})
        last == {k \in edits : \A j \in edits : j <= k}
    IN  IF redacts # {}
        THEN {NoEvent} \cup {events[k].id : k \in {l \in last : \A j \in redacts : j < l}}
        ELSE {events[k].id : k \in IF edits = {} THEN {i} ELSE last}
             \cup {e \in {NoEvent} : Blank(s, i)}

\* A projector that missed nothing shows the customer each message that is open or was
\* published, as it was last edited, and that it was redacted; and no other.
TimelineIsProjection ==
    OneCounter /\ ~missed => \A s \in Seqs :
        /\ Made(s) = {} => public[s] = NoDoc
        /\ \A i \in Made(s) :
              IF Open(events[i].id) \/ After(i, s, {"publish"}) # {}
              THEN /\ public[s].src = events[i].id
                   /\ public[s].redacted = (After(i, s, {"redact"}) # {})
                   /\ public[s].content \in Readable(s, i)
              ELSE public[s] = NoDoc

=============================================================================
