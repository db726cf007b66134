-------------------------- MODULE EventStore_proofs --------------------------
(***************************************************************************)
(* Proofs about EventStore for any number of events, callers and           *)
(* projector restarts, as long as the counter is one document.  The log is *)
(* numbered below the counter; a document of a projection is about the     *)
(* event of its number, because a follow-up names a number returned for    *)
(* its target.                                                             *)
(***************************************************************************)
EXTENDS EventStore, TLAPS

LogEntries == [id : Events, seq : Nat, about : Nat]
Transactions == [by : Callers, id : Events, about : Nat, doc : Nat, known : BOOLEAN]
Docs == [src : Events \cup {NoEvent}, content : Events \cup {NoEvent}, redacted : BOOLEAN]

TypeInv ==
    /\ counters \in Seq(Nat) /\ events \in Seq(LogEntries) /\ calls \subseteq Transactions
    /\ replies \in [Events -> SUBSET Nat]
    /\ pos \in 0 .. Len(events)
    /\ public \in [Seqs -> Docs] /\ private \in [Seqs -> Docs]
    /\ \A t \in calls : t.doc \in {0} \cup DOMAIN counters

\* The number given last.
Last == IF counters = <<>> THEN 0 ELSE counters[1]

\* What a follow-up is about was returned for its target.
Aims(e, about) == e \notin Messages => about \in replies[Target[e]]

LogInv ==
    /\ \A i \in DOMAIN events : events[i].seq <= Last
    /\ \A e \in Events : \A s \in replies[e] : s <= Last
    /\ \A i \in DOMAIN events : Aims(events[i].id, events[i].about)
    /\ \A t \in calls : Aims(t.id, t.about)
    /\ \A i, j \in DOMAIN events : i < j => events[i].seq < events[j].seq
    /\ \A e \in Events, i \in DOMAIN events : events[i].seq \in replies[e] => events[i].id = e

\* The projector has read the message a document is about, and what it shows is of it.
AboutItsMessage(d, s) ==
    d # NoDoc =>
        /\ d.src \in Messages
        /\ \E i \in 1 .. pos : events[i].seq = s /\ events[i].id = d.src
        /\ d.content # NoEvent => SourceOf(d.content) = d.src

PublishedSoFar(e) ==
    \E i \in 1 .. pos : Kind[events[i].id] = "publish" /\ Target[events[i].id] = e

DocsInv ==
    \A s \in Seqs :
        /\ AboutItsMessage(public[s], s) /\ AboutItsMessage(private[s], s)
        /\ public[s] # NoDoc =>
               Open(public[s].src) \/ PublishedSoFar(public[s].src)

IInv == TypeInv /\ (OneCounter => LogInv /\ DocsInv)

\* The lists isPublic looks at are all but the tags.
LEMMA PublicIsOpen == \A e \in Events : isPublic(e) <=> Open(e)
    BY EventAssumption DEF isPublic, Open, Meant, TagsOnly, ACLList

LEMMA InitIInv == Init => IInv
<1> SUFFICES ASSUME Init PROVE IInv
    OBVIOUS
<1>1. NoDocs \in [Seqs -> Docs]
    BY DEF NoDocs, NoDoc, Docs
<1>2. TypeInv
    BY <1>1 DEF Init, TypeInv
<1>3. LogInv
    BY DEF Init, LogInv, Last, Aims
<1>4. DocsInv
    BY DEF Init, DocsInv, AboutItsMessage, NoDocs
<1> QED
    BY <1>2, <1>3, <1>4 DEF IInv

-----------------------------------------------------------------------------
(* AppendEvent *)

\* The store's steps leave the projection alone, and only add to the log.
LEMMA DocsKept ==
    ASSUME TypeInv, DocsInv, UNCHANGED projection,
           NEW n \in Nat, n >= Len(events), \A i \in 1 .. Len(events) : events'[i] = events[i]
    PROVE  DocsInv'
<1>1. \A i \in 1 .. pos : events'[i] = events[i]
    BY DEF TypeInv
<1>2. pos' = pos /\ public' = public /\ private' = private
    BY DEF projection
<1> QED
    BY <1>1, <1>2 DEF DocsInv, AboutItsMessage, PublishedSoFar

LEMMA BeginKeeps ==
    ASSUME IInv, NEW c \in Callers, NEW e \in Events, Begin(c, e)
    PROVE  IInv'
<1>1. PICK about \in IF e \in Messages THEN {0} ELSE replies[Target[e]],
           d \in IF counters = <<>> THEN {0} ELSE DOMAIN counters \ Locked :
           calls' = calls \cup {[by |-> c, id |-> e, about |-> about, doc |-> d,
                                 known |-> e \in Stored]}
    BY DEF Begin
<1>2. UNCHANGED <<counters, events, replies, projection>>
    BY DEF Begin
<1>3. about \in Nat /\ d \in Nat /\ d \in {0} \cup DOMAIN counters /\ Aims(e, about)
  <2>1. e \notin Messages => Target[e] \in Events
      BY EventAssumption DEF Messages
  <2>2. about \in Nat /\ Aims(e, about)
      BY <1>1, <2>1 DEF IInv, TypeInv, Aims
  <2>3. counters \in Seq(Nat) /\ DOMAIN counters = 1 .. Len(counters) /\ Len(counters) \in Nat
      BY DEF IInv, TypeInv
  <2>4. d \in {0} \cup DOMAIN counters
      BY <1>1
  <2> QED
      BY <2>2, <2>3, <2>4
<1> DEFINE t == [by |-> c, id |-> e, about |-> about, doc |-> d, known |-> e \in Stored]
<1>4. t \in Transactions /\ t.doc = d /\ t.id = e /\ t.about = about
    BY <1>3 DEF Transactions
<1>5. calls' = calls \cup {t}
    BY <1>1
<1> HIDE DEF t
<1>6. TypeInv'
    BY <1>2, <1>3, <1>4, <1>5 DEF IInv, TypeInv, projection
<1>7. LogInv => LogInv'
    BY <1>2, <1>3, <1>4, <1>5 DEF LogInv, Aims, Last
<1>8. DocsInv => DocsInv'
    BY <1>2 DEF projection, DocsInv, AboutItsMessage, PublishedSoFar
<1> QED
    BY <1>2, <1>6, <1>7, <1>8 DEF IInv, OneCounter

\* A commit adds to the log, and raises a counter or makes one.
LEMMA CommitGrows ==
    ASSUME TypeInv, NEW t \in calls, Commit(t)
    PROVE  /\ \A i \in 1 .. Len(events) : events'[i] = events[i]
           /\ counters' \in Seq(Nat) /\ Len(counters) <= Len(counters')
           /\ DOMAIN counters \subseteq DOMAIN counters'
<1>1. counters \in Seq(Nat) /\ events \in Seq(LogEntries) /\ t.doc \in {0} \cup DOMAIN counters
    BY DEF TypeInv
<1>2. /\ counters' = IF t.doc = 0 THEN Append(counters, 1) ELSE [counters EXCEPT ![t.doc] = @ + 1]
      /\ events' = events \/ \E ev : events' = Append(events, ev)
    BY DEF Commit
<1>3. \A i \in 1 .. Len(events) : events'[i] = events[i]
  <2>1. ASSUME NEW ev, events' = Append(events, ev)
        PROVE  \A i \in 1 .. Len(events) : events'[i] = events[i]
      BY <1>1, <2>1
  <2> QED
      BY <1>2, <2>1
<1>4. CASE t.doc = 0
    BY <1>1, <1>2, <1>3, <1>4
<1>5. CASE t.doc # 0
    BY <1>1, <1>2, <1>3, <1>5
<1> QED
    BY <1>4, <1>5

LEMMA CommitKeeps ==
    ASSUME IInv, NEW t \in calls, Commit(t)
    PROVE  IInv'
<1> DEFINE n == SeqOf(t)
           ev == [id |-> t.id, seq |-> n, about |-> t.about]
<1>1. /\ t \in Transactions /\ t.doc \in {0} \cup DOMAIN counters
      /\ t.id \in Events /\ t.about \in Nat /\ t.doc \in Nat
    BY DEF IInv, TypeInv, Transactions
<1>2. n \in Nat
    BY <1>1 DEF SeqOf, IInv, TypeInv
<1>3. /\ counters' = IF t.doc = 0 THEN Append(counters, 1) ELSE [counters EXCEPT ![t.doc] = @ + 1]
      /\ events' = events \/ events' = Append(events, ev)
      /\ replies' = [replies EXCEPT ![t.id] = @ \cup {n}]
      /\ calls' = calls \ {t} /\ UNCHANGED projection
    BY DEF Commit
<1>4. counters' \in Seq(Nat) /\ Len(counters) <= Len(counters') /\ DOMAIN counters \subseteq DOMAIN counters'
    BY CommitGrows DEF IInv
<1>5. ev \in LogEntries /\ ev.id = t.id /\ ev.seq = n /\ ev.about = t.about
    BY <1>1, <1>2 DEF LogEntries
<1> HIDE DEF ev, n
<1>6. /\ events' \in Seq(LogEntries) /\ Len(events) <= Len(events')
      /\ \A i \in 1 .. Len(events) : events'[i] = events[i]
      /\ \A i \in DOMAIN events' : i \in DOMAIN events \/ (events'[i] = ev /\ i = Len(events) + 1)
  <2>1. events \in Seq(LogEntries)
      BY DEF IInv, TypeInv
  <2>2. CASE events' = events
      BY <2>1, <2>2
  <2>3. CASE events' = Append(events, ev)
      BY <1>5, <2>1, <2>3
  <2> QED
      BY <1>3, <2>2, <2>3
<1>7. TypeInv'
  <2>1. replies' \in [Events -> SUBSET Nat]
      BY <1>1, <1>2, <1>3 DEF IInv, TypeInv
  <2>2. pos' \in 0 .. Len(events')
      BY <1>3, <1>6 DEF IInv, TypeInv, projection
  <2>3. \A u \in calls' : u.doc \in {0} \cup DOMAIN counters'
      BY <1>3, <1>4 DEF IInv, TypeInv
  <2> QED
      BY <1>3, <1>4, <1>6, <2>1, <2>2, <2>3 DEF IInv, TypeInv, projection
<1>8. ASSUME OneCounter' PROVE OneCounter /\ LogInv /\ DocsInv /\ n = Last + 1 /\ Last' = n /\ Last \in Nat
  <2>1. counters \in Seq(Nat)
      BY DEF IInv, TypeInv
  <2>2. OneCounter
      BY <1>4, <1>8, <2>1 DEF OneCounter
  <2>3. CASE t.doc = 0
    <3>1. Len(counters') = Len(counters) + 1 /\ counters' = Append(counters, 1)
        BY <1>3, <2>1, <2>3
    <3>2. counters = <<>>
        BY <1>8, <2>1, <3>1 DEF OneCounter
    <3> QED
        BY <2>1, <2>2, <2>3, <3>1, <3>2 DEF IInv, Last, SeqOf, n
  <2>4. CASE t.doc # 0
    <3>0. DOMAIN counters = 1 .. Len(counters) /\ Len(counters) \in Nat /\ Len(counters) <= 1
        BY <2>1, <2>2 DEF OneCounter
    <3>1. t.doc = 1 /\ Len(counters) = 1
        BY <1>1, <2>4, <3>0
    <3>2. counters'[1] = counters[1] + 1 /\ counters' # <<>> /\ counters # <<>> /\ counters[1] \in Nat
      <4>1. counters' = [counters EXCEPT ![1] = @ + 1] /\ 1 \in DOMAIN counters
          BY <1>3, <2>4, <3>0, <3>1
      <4>2. counters'[1] = counters[1] + 1 /\ counters[1] \in Nat
          BY <2>1, <4>1
      <4>3. counters # <<>>
          BY <2>1, <3>1
      <4>4. counters' # <<>>
          BY <1>4, <3>1
      <4> QED
          BY <4>2, <4>3, <4>4
    <3> QED
        BY <2>2, <2>4, <3>1, <3>2 DEF IInv, Last, SeqOf, n
  <2> QED
      BY <2>3, <2>4
<1>9. ASSUME OneCounter' PROVE LogInv'
  <2>0. LogInv /\ n = Last + 1 /\ Last' = n /\ Last \in Nat
      BY <1>8, <1>9
  <2>1. \A e \in Events : replies'[e] = IF e = t.id THEN replies[e] \cup {n} ELSE replies[e]
      BY <1>1, <1>3 DEF IInv, TypeInv
  <2>2. /\ \A i \in DOMAIN events : events[i] \in LogEntries /\ events[i].seq \in Nat /\ events[i].id \in Events
        /\ \A e \in Events : \A s \in replies[e] : s \in Nat
        /\ DOMAIN events = 1 .. Len(events) /\ Len(events) \in Nat
    <3>1. events \in Seq(LogEntries) /\ replies \in [Events -> SUBSET Nat]
        BY DEF IInv, TypeInv
    <3>2. DOMAIN events = 1 .. Len(events) /\ Len(events) \in Nat
        BY <3>1
    <3>3. \A i \in DOMAIN events : events[i] \in LogEntries
        BY <3>1
    <3> QED
        BY <3>1, <3>2, <3>3 DEF LogEntries
  <2>3. \A i \in DOMAIN events' : events'[i].seq <= Last'
      BY <1>5, <1>6, <2>0, <2>2 DEF LogInv
  <2>4. \A e \in Events : \A s \in replies'[e] : s <= Last'
    <3> SUFFICES ASSUME NEW e \in Events, NEW s \in replies'[e] PROVE s <= Last'
        OBVIOUS
    <3>1. s \in replies[e] \/ s = n
        BY <2>1
    <3>2. s \in replies[e] => s <= Last /\ s \in Nat
        BY <2>0, <2>2 DEF LogInv
    <3> QED
        BY <2>0, <3>1, <3>2
  <2>5. \A e \in Events : \A about : Aims(e, about) => Aims(e, about)'
    <3> SUFFICES ASSUME NEW e \in Events, NEW about, Aims(e, about) PROVE Aims(e, about)'
        OBVIOUS
    <3>1. e \notin Messages => Target[e] \in Events
        BY EventAssumption DEF Messages
    <3> QED
        BY <2>1, <3>1 DEF Aims
  <2>6. (\A i \in DOMAIN events : Aims(events[i].id, events[i].about))'
    <3> SUFFICES ASSUME NEW i \in DOMAIN events' PROVE Aims(events[i].id, events[i].about)'
        OBVIOUS
    <3>1. CASE i \in DOMAIN events
      <4>1. /\ events'[i] = events[i] /\ events[i].id \in Events
            /\ Aims(events[i].id, events[i].about)
          BY <1>6, <2>0, <2>2, <3>1 DEF LogInv
      <4>2. \A e \in Events : \A about : Aims(e, about) => (e \notin Messages => about \in replies'[Target[e]])
          BY <2>5 DEF Aims
      <4> QED
          BY <4>1, <4>2 DEF Aims
    <3>2. CASE i \notin DOMAIN events
      <4>1. events'[i].id = t.id /\ events'[i].about = t.about /\ Aims(t.id, t.about)
          BY <1>5, <1>6, <2>0, <3>2 DEF LogInv
      <4>2. t.id \notin Messages => t.about \in replies'[Target[t.id]]
          BY <1>1, <2>5, <4>1 DEF Aims
      <4> QED
          BY <4>1, <4>2 DEF Aims
    <3> QED
        BY <3>1, <3>2
  <2>7. \A u \in calls' : Aims(u.id, u.about)'
      BY <1>3, <2>0, <2>5 DEF LogInv, IInv, TypeInv, Transactions
  <2>8. \A i, j \in DOMAIN events' : i < j => events'[i].seq < events'[j].seq
    <3> SUFFICES ASSUME NEW i \in DOMAIN events', NEW j \in DOMAIN events', i < j
                 PROVE  events'[i].seq < events'[j].seq
        OBVIOUS
    <3>1. i \in DOMAIN events
        BY <1>6, <2>2
    <3>2. CASE j \in DOMAIN events
        BY <1>6, <2>0, <2>2, <3>1, <3>2 DEF LogInv
    <3>3. CASE j \notin DOMAIN events
      <4>1. events'[j].seq = Last + 1 /\ events'[i] = events[i]
          BY <1>5, <1>6, <2>0, <2>2, <3>1, <3>3
      <4>2. events[i].seq <= Last /\ events[i].seq \in Nat
          BY <2>0, <2>2, <3>1 DEF LogInv
      <4> QED
          BY <2>0, <4>1, <4>2
    <3> QED
        BY <3>2, <3>3
  <2>9. \A e \in Events, i \in DOMAIN events' : events'[i].seq \in replies'[e] => events'[i].id = e
    <3> SUFFICES ASSUME NEW e \in Events, NEW i \in DOMAIN events', events'[i].seq \in replies'[e]
                 PROVE  events'[i].id = e
        OBVIOUS
    <3>1. CASE i \in DOMAIN events
      <4>1. events'[i] = events[i] /\ events[i].seq <= Last /\ events[i].seq \in Nat
          BY <1>6, <2>0, <2>2, <3>1 DEF LogInv
      <4>2. events[i].seq \in replies[e]
        <5>1. events[i].seq # n
            BY <2>0, <4>1
        <5>2. events[i].seq \in replies[e] \cup {n}
            BY <2>1, <4>1
        <5> QED
            BY <5>1, <5>2
      <4> QED
          BY <2>0, <3>1, <4>1, <4>2 DEF LogInv
    <3>2. CASE i \notin DOMAIN events
      <4>1. events'[i].seq = n /\ events'[i].id = t.id
          BY <1>5, <1>6, <3>2
      <4>2. n \notin replies[e]
          BY <2>0, <2>2 DEF LogInv
      <4> QED
          BY <2>1, <4>1, <4>2
    <3> QED
        BY <3>1, <3>2
  <2> QED
      BY <2>3, <2>4, <2>6, <2>7, <2>8, <2>9 DEF LogInv
<1>10. ASSUME OneCounter' PROVE DocsInv'
    BY <1>3, <1>6, <1>8, <1>10, DocsKept DEF IInv, TypeInv
<1> QED
    BY <1>7, <1>9, <1>10 DEF IInv

LEMMA AbortKeeps == ASSUME IInv, NEW t \in calls, Abort(t) PROVE IInv'
<1>1. calls' \subseteq calls /\ UNCHANGED <<counters, events, replies, projection>>
    BY DEF Abort
<1>2. TypeInv'
    BY <1>1 DEF IInv, TypeInv, projection
<1>3. LogInv => LogInv'
    BY <1>1 DEF LogInv, Aims, Last
<1>4. DocsInv => DocsInv'
    BY <1>1 DEF projection, DocsInv, AboutItsMessage, PublishedSoFar
<1> QED
    BY <1>1, <1>2, <1>3, <1>4 DEF IInv, OneCounter

-----------------------------------------------------------------------------
(* Projector.Run *)

\* The event that is read next.
LEMMA ReadsNext ==
    ASSUME IInv, NEW K, NEW ev, Reads(ev, K)
    PROVE  /\ pos < Len(events) /\ pos \in Nat /\ pos' = pos + 1 /\ pos' \in DOMAIN events
           /\ ev = events[pos'] /\ ev \in LogEntries /\ Kind[ev.id] \in K
           /\ ev.id \in Events /\ ev.seq \in Nat /\ ev.about \in Nat
           /\ UNCHANGED <<counters, events, calls, replies>>
           /\ pos' \in 0 .. Len(events')
<1>1. events \in Seq(LogEntries) /\ pos \in 0 .. Len(events)
    BY DEF IInv, TypeInv
<1>2. /\ pos < Len(events) /\ pos' = pos + 1 /\ ev = events[pos + 1] /\ Kind[ev.id] \in K
      /\ UNCHANGED <<counters, events, calls, replies>>
    BY DEF Reads, store
<1>3. pos + 1 \in 1 .. Len(events) /\ DOMAIN events = 1 .. Len(events) /\ pos \in Nat
    BY <1>1, <1>2
<1>4. ev \in LogEntries
    BY <1>1, <1>2, <1>3
<1> QED
    BY <1>1, <1>2, <1>3, <1>4 DEF LogEntries

\* The projector's steps: the store is as it was, documents change one at a time.
LEMMA ProjectKeeps ==
    ASSUME IInv, UNCHANGED <<counters, events, calls, replies>>, pos <= pos',
           pos' \in 0 .. Len(events),
           public' \in [Seqs -> Docs], private' \in [Seqs -> Docs],
           OneCounter => \A s \in Seqs :
               /\ public'[s] = public[s] \/ AboutItsMessage(public[s], s)'
               /\ private'[s] = private[s] \/ AboutItsMessage(private[s], s)'
               /\ public'[s] # NoDoc =>
                      \/ public[s] # NoDoc /\ public'[s].src = public[s].src
                      \/ Open(public'[s].src)
                      \/ PublishedSoFar(public[s].src)'
    PROVE  IInv'
<1>1. TypeInv'
    BY DEF IInv, TypeInv
<1>2. LogInv => LogInv'
    BY DEF LogInv, Aims, Last
<1>3. ASSUME OneCounter PROVE DocsInv'
  <2>1. ASSUME NEW s \in Seqs PROVE AboutItsMessage(public[s], s)' /\ AboutItsMessage(private[s], s)'
    <3>1. AboutItsMessage(public[s], s) /\ AboutItsMessage(private[s], s)
        BY <1>3 DEF IInv, DocsInv
    <3>4. 1 .. pos \subseteq 1 .. pos'
        BY <1>1 DEF IInv, TypeInv
    <3>2. public'[s] = public[s] => AboutItsMessage(public[s], s)'
        BY <3>1, <3>4 DEF AboutItsMessage
    <3>3. private'[s] = private[s] => AboutItsMessage(private[s], s)'
        BY <3>1, <3>4 DEF AboutItsMessage
    <3> QED
        BY <1>3, <3>2, <3>3
  <2>2. ASSUME NEW s \in Seqs, public'[s] # NoDoc
        PROVE  Open(public'[s].src) \/ PublishedSoFar(public[s].src)'
    <3>1. CASE public[s] # NoDoc /\ public'[s].src = public[s].src
      <4>1. Open(public[s].src) \/ PublishedSoFar(public[s].src)
          BY <1>3, <3>1 DEF IInv, DocsInv
      <4>2. 1 .. pos \subseteq 1 .. pos'
          BY <1>1 DEF IInv, TypeInv
      <4> QED
          BY <3>1, <4>1, <4>2 DEF PublishedSoFar
    <3> QED
        BY <1>3, <2>2, <3>1
  <2> QED
      BY <2>1, <2>2 DEF DocsInv
<1> QED
    BY <1>1, <1>2, <1>3 DEF IInv, OneCounter

LEMMA MessageKeeps == ASSUME IInv, NEW ev, ProjectMessage(ev) PROVE IInv'
<1> DEFINE d == [src |-> ev.id, content |-> ev.id, redacted |-> FALSE]
<1>1. /\ pos \in Nat /\ pos' = pos + 1 /\ pos' \in DOMAIN events /\ ev = events[pos']
      /\ ev.id \in Messages /\ ev.seq \in Nat /\ pos' \in 0 .. Len(events')
      /\ UNCHANGED <<counters, events, calls, replies>>
    BY ReadsNext DEF ProjectMessage, Messages
<1>2. /\ d \in Docs /\ d.src = ev.id /\ d.content = ev.id /\ d # NoDoc
      /\ d.src \in Messages /\ SourceOf(d.content) = d.src
    BY <1>1, EventAssumption DEF Docs, NoDoc, SourceOf, Messages
<1>3. \/ public' = Insert(public, ev.seq, d) /\ UNCHANGED private /\ isPublic(ev.id)
      \/ private' = Insert(private, ev.seq, d) /\ UNCHANGED public
      \/ UNCHANGED <<public, private>>
    BY DEF ProjectMessage
<1> HIDE DEF d
<1>4. \A f \in [Seqs -> Docs] : Insert(f, ev.seq, d) \in [Seqs -> Docs]
    BY <1>2 DEF Insert
<1>5. public' \in [Seqs -> Docs] /\ private' \in [Seqs -> Docs]
    BY <1>3, <1>4 DEF IInv, TypeInv
<1>6. ASSUME NEW s \in Seqs, s = ev.seq
      PROVE  \E i \in 1 .. pos' : events'[i].seq = s /\ events'[i].id = d.src
    BY <1>1, <1>2, <1>6
<1>7. \A f \in [Seqs -> Docs], s \in Seqs :
          Insert(f, ev.seq, d)[s] = f[s] \/ (Insert(f, ev.seq, d)[s] = d /\ s = ev.seq)
    BY DEF Insert
<1>8. ASSUME NEW s \in Seqs
      PROVE  /\ public'[s] = public[s] \/ AboutItsMessage(public[s], s)'
             /\ private'[s] = private[s] \/ AboutItsMessage(private[s], s)'
             /\ public'[s] # NoDoc =>
                      \/ public[s] # NoDoc /\ public'[s].src = public[s].src
                      \/ Open(public'[s].src)
                      \/ PublishedSoFar(public[s].src)'
  <2>1. /\ public'[s] = public[s] \/ (public'[s] = d /\ s = ev.seq /\ isPublic(ev.id))
        /\ private'[s] = private[s] \/ (private'[s] = d /\ s = ev.seq)
      BY <1>3, <1>7 DEF IInv, TypeInv
  <2>2. public'[s] = d /\ s = ev.seq => AboutItsMessage(public[s], s)'
      BY <1>2, <1>6 DEF AboutItsMessage
  <2>3. private'[s] = d /\ s = ev.seq => AboutItsMessage(private[s], s)'
      BY <1>2, <1>6 DEF AboutItsMessage
  <2> QED
      BY <1>1, <1>2, <2>1, <2>2, <2>3, PublicIsOpen DEF Messages
<1> QED
    BY <1>1, <1>5, <1>8, ProjectKeeps

\* An event about number s that was returned for its target is about the message of s.
LEMMA AimHits ==
    ASSUME IInv, OneCounter, NEW i \in DOMAIN events, events[i].id \notin Messages,
           NEW d, NEW s, s = events[i].about, d # NoDoc, AboutItsMessage(d, s)
    PROVE  d.src = Target[events[i].id]
<1>1. events[i].id \in Events /\ DOMAIN events = 1 .. Len(events) /\ pos \in 0 .. Len(events)
  <2>1. events \in Seq(LogEntries) /\ pos \in 0 .. Len(events)
      BY DEF IInv, TypeInv
  <2>2. DOMAIN events = 1 .. Len(events) /\ events[i] \in LogEntries
      BY <2>1
  <2> QED
      BY <2>1, <2>2 DEF LogEntries
<1>2. Target[events[i].id] \in Events /\ s \in replies[Target[events[i].id]]
    BY <1>1, EventAssumption DEF IInv, LogInv, Aims, Messages
<1>3. PICK j \in DOMAIN events : events[j].seq = s /\ events[j].id = d.src
    BY <1>1 DEF AboutItsMessage
<1> QED
    BY <1>2, <1>3 DEF IInv, LogInv

LEMMA ChangeKeeps ==
    ASSUME IInv, NEW ev, applyEdit(ev) \/ applyRedact(ev)
    PROVE  IInv'
<1>1. PICK c \in {ev.id, NoEvent}, r \in BOOLEAN :
          ChangeBoth(ev, c, r) /\ Reads(ev, {"edit", "redact"})
                               /\ (c = ev.id => Kind[ev.id] = "edit")
  <2>1. CASE applyEdit(ev)
      BY <2>1 DEF applyEdit, Reads
  <2>2. CASE applyRedact(ev)
    <3>1. ev.id \in Events
        BY <2>2, ReadsNext DEF applyRedact
    <3>2. NoEvent # ev.id
        BY <3>1, EventAssumption
    <3> QED
        BY <2>2, <3>2 DEF applyRedact, Reads
  <2> QED
      BY <2>1, <2>2
<1>2. /\ pos \in Nat /\ pos' = pos + 1 /\ pos' \in DOMAIN events /\ ev = events[pos']
      /\ ev.id \in Events /\ ev.id \notin Messages /\ pos' \in 0 .. Len(events')
      /\ UNCHANGED <<counters, events, calls, replies>>
  <2>1. Kind[ev.id] \in {"edit", "redact"}
      BY <1>1, ReadsNext
  <2> QED
      BY <1>1, <2>1, ReadsNext DEF Messages
<1>3. /\ public' = Change(public, ev.about, c, r) \/ public' = public
      /\ private' = Change(private, ev.about, c, r) \/ private' = private
    BY <1>1 DEF ChangeBoth
<1>4. \A f \in [Seqs -> Docs] :
          /\ Change(f, ev.about, c, r) \in [Seqs -> Docs]
          /\ \A s \in Seqs :
                \/ Change(f, ev.about, c, r)[s] = f[s]
                \/ /\ s = ev.about /\ f[s] # NoDoc
                   /\ Change(f, ev.about, c, r)[s].src = f[s].src
                   /\ Change(f, ev.about, c, r)[s].content = c
  <2> SUFFICES ASSUME NEW f \in [Seqs -> Docs]
               PROVE  /\ Change(f, ev.about, c, r) \in [Seqs -> Docs]
                      /\ \A s \in Seqs :
                            \/ Change(f, ev.about, c, r)[s] = f[s]
                            \/ /\ s = ev.about /\ f[s] # NoDoc
                               /\ Change(f, ev.about, c, r)[s].src = f[s].src
                               /\ Change(f, ev.about, c, r)[s].content = c
      OBVIOUS
  <2>1. c \in Events \cup {NoEvent}
      BY <1>2
  <2>2. CASE f[ev.about] = NoDoc
      BY <2>2 DEF Change
  <2>3. CASE f[ev.about] # NoDoc /\ ev.about \in Seqs
    <3> DEFINE g == [f[ev.about] EXCEPT !.content = c, !.redacted = @ \/ r]
    <3>1. f[ev.about] \in Docs
        BY <2>3
    <3>2. g \in Docs /\ g.src = f[ev.about].src /\ g.content = c
        BY <2>1, <3>1 DEF Docs
    <3>3. Change(f, ev.about, c, r) = [f EXCEPT ![ev.about] = g]
        BY <2>3 DEF Change
    <3> HIDE DEF g
    <3> QED
        BY <2>3, <3>2, <3>3
  <2>4. CASE ev.about \notin Seqs
    <3>1. Change(f, ev.about, c, r) = f
        BY <2>4 DEF Change
    <3> QED
        BY <3>1
  <2> QED
      BY <2>2, <2>3, <2>4
<1>5. public' \in [Seqs -> Docs] /\ private' \in [Seqs -> Docs]
    BY <1>3, <1>4 DEF IInv, TypeInv
<1>6. ASSUME OneCounter, NEW s \in Seqs, s = ev.about, NEW f \in {public, private},
             f[s] # NoDoc
      PROVE  /\ f[s].src \in Messages
             /\ \E i \in 1 .. pos' : events'[i].seq = s /\ events'[i].id = f[s].src
             /\ c # NoEvent => SourceOf(c) = f[s].src
  <2>1. AboutItsMessage(f[s], s)
      BY <1>6 DEF IInv, DocsInv
  <2>2. f[s].src = Target[ev.id]
      BY <1>2, <1>6, <2>1, AimHits
  <2>3. c # NoEvent => SourceOf(c) = Target[ev.id]
      BY <1>1 DEF SourceOf
  <2> QED
      BY <1>2, <1>6, <2>1, <2>2, <2>3 DEF AboutItsMessage
<1>7. ASSUME OneCounter, NEW s \in Seqs
      PROVE  /\ public'[s] = public[s] \/ AboutItsMessage(public[s], s)'
             /\ private'[s] = private[s] \/ AboutItsMessage(private[s], s)'
             /\ public'[s] # NoDoc => public[s] # NoDoc /\ public'[s].src = public[s].src
  <2>1. /\ \/ public'[s] = public[s]
           \/ /\ s = ev.about /\ public[s] # NoDoc
              /\ public'[s].src = public[s].src /\ public'[s].content = c
        /\ \/ private'[s] = private[s]
           \/ /\ s = ev.about /\ private[s] # NoDoc
              /\ private'[s].src = private[s].src /\ private'[s].content = c
    <3>1. public \in [Seqs -> Docs] /\ private \in [Seqs -> Docs]
        BY DEF IInv, TypeInv
    <3>2. \/ public'[s] = public[s]
          \/ /\ s = ev.about /\ public[s] # NoDoc
             /\ public'[s].src = public[s].src /\ public'[s].content = c
        BY <1>3, <1>4, <3>1
    <3>3. \/ private'[s] = private[s]
          \/ /\ s = ev.about /\ private[s] # NoDoc
             /\ private'[s].src = private[s].src /\ private'[s].content = c
        BY <1>3, <1>4, <3>1
    <3> QED
        BY <3>2, <3>3
  <2>2. public'[s] = public[s] \/ AboutItsMessage(public[s], s)'
      BY <1>6, <1>7, <2>1 DEF AboutItsMessage
  <2>3. private'[s] = private[s] \/ AboutItsMessage(private[s], s)'
      BY <1>6, <1>7, <2>1 DEF AboutItsMessage
  <2> QED
      BY <2>1, <2>2, <2>3
<1> QED
    BY <1>2, <1>5, <1>7, ProjectKeeps

LEMMA PublishKeeps == ASSUME IInv, NEW ev, movePrivateToPublic(ev) PROVE IInv'
<1> DEFINE s0 == ev.about
           d == [private[s0] EXCEPT !.content = NoEvent]
<1>1. /\ pos \in Nat /\ pos' = pos + 1 /\ pos' \in DOMAIN events /\ ev = events[pos']
      /\ ev.id \in Events /\ Kind[ev.id] = "publish" /\ ev.id \notin Messages
      /\ pos' \in 0 .. Len(events') /\ pos' \in 1 .. pos'
      /\ UNCHANGED <<counters, events, calls, replies>>
    BY ReadsNext DEF movePrivateToPublic, Messages
<1>2. /\ UNCHANGED private
      /\ UNCHANGED public \/ (private[s0] # NoDoc /\ public' = Insert(public, s0, d))
    BY DEF movePrivateToPublic
<1>3. private[s0] \in Docs /\ s0 \in Seqs =>
          d \in Docs /\ d.src = private[s0].src /\ d.content = NoEvent
    BY DEF Docs
<1> HIDE DEF d
<1>4. public' \in [Seqs -> Docs] /\ private' \in [Seqs -> Docs]
      /\ \A s \in Seqs : public'[s] = public[s] \/ (s = s0 /\ private[s0] # NoDoc /\ public'[s] = d)
    BY <1>2, <1>3 DEF IInv, TypeInv, Insert
<1>5. ASSUME OneCounter, s0 \in Seqs, private[s0] # NoDoc, public'[s0] = d
      PROVE  AboutItsMessage(public[s0], s0)' /\ PublishedSoFar(public[s0].src)'
  <2>1. AboutItsMessage(private[s0], s0) /\ private[s0] \in Docs
      BY <1>5 DEF IInv, DocsInv, TypeInv
  <2>2. private[s0].src = Target[ev.id]
      BY <1>1, <1>5, <2>1, AimHits
  <2>3. d.src = private[s0].src /\ d.content = NoEvent
      BY <1>3, <1>5, <2>1
  <2>4. AboutItsMessage(public[s0], s0)'
      BY <1>1, <1>5, <2>1, <2>3 DEF AboutItsMessage
  <2>5. PublishedSoFar(public[s0].src)'
      BY <1>1, <1>5, <2>2, <2>3 DEF PublishedSoFar
  <2> QED
      BY <2>4, <2>5
<1>6. ASSUME OneCounter, NEW s \in Seqs
      PROVE  /\ public'[s] = public[s] \/ AboutItsMessage(public[s], s)'
             /\ public'[s] # NoDoc =>
                      \/ public[s] # NoDoc /\ public'[s].src = public[s].src
                      \/ PublishedSoFar(public[s].src)'
    BY <1>4, <1>5, <1>6
<1> QED
    BY <1>1, <1>2, <1>4, <1>6, ProjectKeeps

LEMMA RunKeeps == ASSUME IInv, Stop \/ Start PROVE IInv'
<1>1. /\ UNCHANGED <<counters, events, calls, replies, public, private>>
      /\ pos' = pos \/ pos' = Len(events)
    BY DEF Stop, Start, store
<1>2. pos <= pos' /\ pos' \in 0 .. Len(events)
    BY <1>1 DEF IInv, TypeInv
<1> QED
    BY <1>1, <1>2, ProjectKeeps DEF IInv, TypeInv

LEMMA StepIInv == IInv /\ [Next]_vars => IInv'
<1> SUFFICES ASSUME IInv, [Next]_vars
             PROVE  IInv'
    OBVIOUS
<1>1. CASE UNCHANGED vars
  <2>1. TypeInv' /\ (LogInv => LogInv') /\ (OneCounter' = OneCounter)
      BY <1>1 DEF IInv, vars, store, projection, TypeInv, LogInv, Aims, Last, OneCounter
  <2>2. DocsInv => DocsInv'
      BY <1>1 DEF vars, store, projection, DocsInv, AboutItsMessage, PublishedSoFar
  <2> QED
      BY <2>1, <2>2 DEF IInv
<1> QED
    BY <1>1, BeginKeeps, CommitKeeps, AbortKeeps, MessageKeeps, ChangeKeeps, PublishKeeps, RunKeeps
    DEF Next

-----------------------------------------------------------------------------
(* Theorems *)

\* The inductive invariant of the event log and its projections.
THEOREM Inductive == Spec => []IInv
    BY InitIInv, StepIInv, PTL DEF Spec

\* With one counter a returned number is its event's or nobody's, and numbers grow
\* along the log, however transactions repeat, abort and overlap.
THEOREM NumbersNameTheirEvents == Spec => []RepliesAddressTheirEvent
<1>1. IInv => RepliesAddressTheirEvent
    BY DEF IInv, LogInv, RepliesAddressTheirEvent
<1> QED
    BY <1>1, Inductive, PTL

\* With one counter no restart, missed event or failed write shows a customer anything
\* of a message that is not open, which is public with no deny list or one of tags
\* alone, before it is published.
THEOREM NothingPrivateIsShown == Spec => []PrivateStaysPrivate
<1>1. IInv => PrivateStaysPrivate
  <2> SUFFICES ASSUME IInv, OneCounter, NEW s \in Seqs, public[s] # NoDoc,
                      NEW c \in {public[s].src} \cup ({public[s].content} \ {NoEvent})
               PROVE  \/ Open(SourceOf(c))
                      \/ PublishedSoFar(SourceOf(c))
      BY DEF PrivateStaysPrivate, PublishedSoFar
  <2>1. /\ AboutItsMessage(public[s], s)
        /\ Open(public[s].src) \/ PublishedSoFar(public[s].src)
      BY DEF IInv, DocsInv
  <2>2. SourceOf(c) = public[s].src
      BY <2>1 DEF AboutItsMessage, SourceOf, Messages
  <2> QED
      BY <2>1, <2>2
<1> QED
    BY <1>1, Inductive, PTL

-----------------------------------------------------------------------------
(* What the projections show, as a reading of the log that chooses nothing *)

Shows(e) == IF Kind[e] = "edit" THEN e ELSE NoEvent

\* The customer sees the message of entry i since entry k was read.
SeenSince(s, i, k) ==
    LET changes == After(k, s, {"edit", "redact"})
    IN  /\ public[s].src = events[i].id
        /\ public[s].redacted = (After(i, s, {"redact"}) # {})
        /\ \/ changes = {} /\ public[s].content = (IF k = i THEN events[i].id ELSE NoEvent)
           \/ \E l \in changes : /\ \A j \in changes : j <= l
                                 /\ public[s].content = Shows(events[l].id)

\* The message of entry i is for agents; a customer sees it from the first publication on.
HeldBack(s, i) ==
    LET published == After(i, s, {"publish"})
    IN  /\ private[s] # NoDoc /\ private[s].src = events[i].id
        /\ private[s].redacted = (After(i, s, {"redact"}) # {})
        /\ \/ published = {} /\ public[s] = NoDoc
           \/ \E k \in published : (\A j \in published : k <= j) /\ SeenSince(s, i, k)

\* What the collections have under number s is what the log says up to pos.
Follows(s) ==
    \/ Made(s) = {} /\ public[s] = NoDoc /\ private[s] = NoDoc
    \/ \E i \in Made(s) :
        /\ Made(s) = {i}
        /\ \/ isPublic(events[i].id) /\ private[s] = NoDoc /\ SeenSince(s, i, i)
           \/ ~ isPublic(events[i].id) /\ HeldBack(s, i)

ProjectionInv == OneCounter /\ ~missed => \A s \in Seqs : Follows(s)

LEMMA EntryType ==
    ASSUME TypeInv, NEW i \in 1 .. pos
    PROVE  /\ i \in DOMAIN events /\ i \in Nat /\ i <= Len(events)
           /\ events[i].id \in Events /\ events[i].id # NoEvent
           /\ events[i].seq \in Nat /\ events[i].about \in Nat
<1>1. events \in Seq(LogEntries) /\ pos \in 0 .. Len(events)
    BY DEF TypeInv
<1>2. i \in DOMAIN events /\ i \in Nat /\ i <= Len(events) /\ events[i] \in LogEntries
    BY <1>1
<1> QED
    BY <1>2, EventAssumption DEF LogEntries

\* What the customer sees is something he may read.
LEMMA SeenIsReadable ==
    ASSUME TypeInv, NEW s \in Seqs, NEW i \in Made(s), NEW k \in 1 .. pos,
           SeenSince(s, i, k),
           \/ k = i
           \/ /\ ~ Open(events[i].id) /\ k \in After(i, s, {"publish"})
              /\ \A j \in After(i, s, {"publish"}) : k <= j
    PROVE  public[s].content \in Readable(s, i)
<1> DEFINE edits == After(i, s, {"edit"})
           redacts == After(i, s, {"redact"})
           published == After(i, s, {"publish"})
           changes == After(k, s, {"edit", "redact"})
           last == {f \in edits : \A j \in edits : j <= f}
<1>1. i \in Nat /\ k \in Nat /\ i <= k /\ pos \in Nat
    BY EntryType DEF After, Made, TypeInv
<1>2. /\ \A f \in edits \cup redacts \cup published \cup changes : f \in Nat
      /\ \A f \in edits : Kind[events[f].id] = "edit"
      /\ changes = {f \in edits \cup redacts : k < f}
    BY <1>1 DEF After
<1>3. k = i \/ Kind[events[k].id] = "publish"
    BY DEF After
<1>4. k # i => k \notin edits
    BY <1>2, <1>3
<1>5. Readable(s, i) =
          IF redacts # {}
          THEN {NoEvent} \cup {events[f].id : f \in {l \in last : \A j \in redacts : j < l}}
          ELSE {events[f].id : f \in IF edits = {} THEN {i} ELSE last}
               \cup {e \in {NoEvent} : Blank(s, i)}
    BY DEF Readable
<1>6. CASE changes = {}
  <2>1. public[s].content = IF k = i THEN events[i].id ELSE NoEvent
      BY <1>6 DEF SeenSince
  <2>2. CASE redacts # {}
    <3>1. k # i
        BY <1>1, <1>2, <1>6, <2>2 DEF After
    <3> QED
        BY <1>5, <2>1, <2>2, <3>1
  <2>3. CASE redacts = {} /\ k = i
    <3>1. edits = {}
        BY <1>1, <1>2, <1>6, <2>3 DEF After
    <3> QED
        BY <1>5, <2>1, <2>3, <3>1
  <2>4. CASE redacts = {} /\ k # i
    <3>1. \A f \in edits, j \in published : f < j
        BY <1>1, <1>2, <1>4, <1>6, <2>4
    <3>2. Blank(s, i)
        BY <2>4, <3>1 DEF Blank
    <3> QED
        BY <1>5, <2>1, <2>4, <3>2
  <2> QED
      BY <2>2, <2>3, <2>4
<1>7. ASSUME NEW l \in changes, \A j \in changes : j <= l,
             public[s].content = Shows(events[l].id)
      PROVE  public[s].content \in Readable(s, i)
  <2>1. /\ l \in Nat /\ k < l /\ l \in edits \cup redacts
        /\ \A j \in edits \cup redacts : j <= l
      BY <1>1, <1>2, <1>7
  <2>2. CASE l \in edits
    <3>1. l \in last /\ public[s].content = events[l].id
        BY <1>2, <1>7, <2>1, <2>2 DEF Shows
    <3>2. \A j \in redacts : j < l
        BY <1>2, <2>1, <2>2 DEF After
    <3> QED
        BY <1>5, <2>2, <3>1, <3>2
  <2>3. CASE l \in redacts
    <3>1. public[s].content = NoEvent
        BY <1>7, <2>3 DEF Shows, After
    <3> QED
        BY <1>5, <2>3, <3>1
  <2> QED
      BY <2>1, <2>2, <2>3
<1> QED
    BY <1>6, <1>7 DEF SeenSince

\* What TimelineIsProjection asks of one number.
LEMMA FollowsIsShown ==
    ASSUME TypeInv, NEW s \in Seqs, Follows(s)
    PROVE  /\ Made(s) = {} => public[s] = NoDoc
           /\ \A i \in Made(s) :
                 IF Open(events[i].id) \/ After(i, s, {"publish"}) # {}
                 THEN /\ public[s].src = events[i].id
                      /\ public[s].redacted = (After(i, s, {"redact"}) # {})
                      /\ public[s].content \in Readable(s, i)
                 ELSE public[s] = NoDoc
<1>1. Made(s) = {} => public[s] = NoDoc
    BY DEF Follows
<1>2. ASSUME NEW i \in Made(s)
      PROVE  IF Open(events[i].id) \/ After(i, s, {"publish"}) # {}
             THEN /\ public[s].src = events[i].id
                  /\ public[s].redacted = (After(i, s, {"redact"}) # {})
                  /\ public[s].content \in Readable(s, i)
             ELSE public[s] = NoDoc
  <2>1. i \in 1 .. pos /\ (isPublic(events[i].id) <=> Open(events[i].id))
      BY EntryType, PublicIsOpen DEF Made
  <2>2. \/ isPublic(events[i].id) /\ SeenSince(s, i, i)
        \/ ~ isPublic(events[i].id) /\ HeldBack(s, i)
      BY DEF Follows
  <2>3. CASE Open(events[i].id) /\ SeenSince(s, i, i)
      BY <2>1, <2>3, SeenIsReadable DEF SeenSince
  <2>4. CASE ~ Open(events[i].id) /\ After(i, s, {"publish"}) = {} /\ public[s] = NoDoc
      BY <2>4
  <2>5. ASSUME ~ Open(events[i].id), NEW k \in After(i, s, {"publish"}),
               \A j \in After(i, s, {"publish"}) : k <= j, SeenSince(s, i, k)
        PROVE  /\ public[s].src = events[i].id
               /\ public[s].redacted = (After(i, s, {"redact"}) # {})
               /\ public[s].content \in Readable(s, i)
    <3>1. k \in 1 .. pos
        BY <2>1 DEF After, TypeInv
    <3> QED
        BY <2>5, <3>1, SeenIsReadable DEF SeenSince
  <2> QED
      BY <2>1, <2>2, <2>3, <2>4, <2>5 DEF HeldBack
<1> QED
    BY <1>1, <1>2

\* Steps that only add to the log change nothing the projector has read.
LEMMA FollowsKept ==
    ASSUME TypeInv, NEW s \in Seqs, Follows(s), UNCHANGED <<pos, public, private>>,
           \A i \in 1 .. Len(events) : events'[i] = events[i]
    PROVE  Follows(s)'
<1>1. pos \in Nat /\ \A i \in 1 .. pos : events'[i] = events[i]
    BY DEF TypeInv
<1>2. Made(s)' = Made(s) /\ \A i \in Made(s) : events'[i] = events[i] /\ i \in Nat
    BY <1>1 DEF Made
<1>3. ASSUME NEW i \in Nat, NEW K
      PROVE  After(i, s, K)' = After(i, s, K) /\ \A k \in After(i, s, K) : events'[k] = events[k] /\ k \in Nat
  <2>1. i + 1 .. pos \subseteq 1 .. pos
      BY <1>1
  <2> QED
      BY <1>1, <2>1 DEF After
<1>4. ASSUME NEW i \in Made(s), NEW k \in Nat, SeenSince(s, i, k)
      PROVE  SeenSince(s, i, k)'
    BY <1>2, <1>3, <1>4 DEF SeenSince
<1>5. ASSUME NEW i \in Made(s), HeldBack(s, i)
      PROVE  HeldBack(s, i)'
    BY <1>2, <1>3, <1>4, <1>5 DEF HeldBack
<1> QED
    BY <1>2, <1>4, <1>5 DEF Follows

\* Entry p is read: what is after an entry grows by it, if it is such an event.
GrowsBy(ev, p) ==
    /\ events' = events /\ ev = events[p] /\ p = pos + 1 /\ pos \in Nat
    /\ \A s, L : \A i \in 1 .. pos :
           /\ IF ev.about = s /\ Kind[ev.id] \in L
              THEN After(i, s, L)' = After(i, s, L) \cup {p}
              ELSE After(i, s, L)' = After(i, s, L)
           /\ \A j \in After(i, s, L) : j \in 1 .. pos /\ j > i
    /\ \A s, L : After(p, s, L)' = {}
    /\ \A s : IF ev.seq = s /\ Kind[ev.id] = "message"
              THEN Made(s)' = Made(s) \cup {p}
              ELSE Made(s)' = Made(s)

LEMMA AfterGrows ==
    ASSUME IInv, NEW K, NEW ev, Reads(ev, K), NEW p, p = pos'
    PROVE  GrowsBy(ev, p)
<1>1. pos \in Nat /\ p = pos + 1 /\ ev = events[p] /\ events' = events
    BY ReadsNext
<1>2. ASSUME NEW i \in 1 .. pos, NEW s, NEW L
      PROVE  /\ IF ev.about = s /\ Kind[ev.id] \in L
                THEN After(i, s, L)' = After(i, s, L) \cup {p}
                ELSE After(i, s, L)' = After(i, s, L)
             /\ \A j \in After(i, s, L) : j \in 1 .. pos /\ j > i
  <2>1. i + 1 .. p = (i + 1 .. pos) \cup {p} /\ \A j \in i + 1 .. pos : j \in 1 .. pos /\ j > i
      BY <1>1
  <2> QED
      BY <1>1, <2>1 DEF After
<1>3. ASSUME NEW s, NEW L PROVE After(p, s, L)' = {}
  <2>1. p + 1 .. p = {}
      BY <1>1
  <2> QED
      BY <2>1 DEF After
<1>4. 1 .. p = (1 .. pos) \cup {p}
    BY <1>1
<1>5. ASSUME NEW s
      PROVE  IF ev.seq = s /\ Kind[ev.id] = "message"
             THEN Made(s)' = Made(s) \cup {p}
             ELSE Made(s)' = Made(s)
    BY <1>1, <1>4 DEF Made
<1> QED
    BY <1>1, <1>2, <1>3, <1>5 DEF GrowsBy

\* The event is no change of message s.
LEMMA SeenKept ==
    ASSUME IInv, NEW K, NEW ev, Reads(ev, K), NEW s \in Seqs, NEW i \in 1 .. pos,
           NEW k \in 1 .. pos, SeenSince(s, i, k), public'[s] = public[s],
           ev.about # s \/ Kind[ev.id] \notin {"edit", "redact"}
    PROVE  SeenSince(s, i, k)'
<1>0. PICK p : p = pos'
    OBVIOUS
<1>grown. GrowsBy(ev, p)
    BY <1>0, AfterGrows
<1>1. /\ After(k, s, {"edit", "redact"})' = After(k, s, {"edit", "redact"})
      /\ \A l \in After(k, s, {"edit", "redact"}) : events'[l] = events[l]
      /\ After(i, s, {"redact"})' = After(i, s, {"redact"})
      /\ events'[i] = events[i]
    BY <1>grown DEF GrowsBy
<1> QED
    BY <1>1 DEF SeenSince

\* The event changes message s.
LEMMA SeenChanged ==
    ASSUME IInv, NEW K, NEW ev, Reads(ev, K), NEW s \in Seqs, NEW i \in 1 .. pos,
           NEW k \in 1 .. pos, SeenSince(s, i, k),
           ev.about = s, Kind[ev.id] \in {"edit", "redact"},
           public'[s].src = public[s].src, public'[s].content = Shows(ev.id),
           public'[s].redacted = (public[s].redacted \/ Kind[ev.id] = "redact")
    PROVE  SeenSince(s, i, k)'
<1>0. PICK p : p = pos'
    OBVIOUS
<1>grown. GrowsBy(ev, p)
    BY <1>0, AfterGrows
<1>1. /\ After(k, s, {"edit", "redact"})' = After(k, s, {"edit", "redact"}) \cup {p}
      /\ \A l \in After(k, s, {"edit", "redact"}) : l \in 1 .. pos
      /\ IF Kind[ev.id] = "redact"
         THEN After(i, s, {"redact"})' = After(i, s, {"redact"}) \cup {p}
         ELSE After(i, s, {"redact"})' = After(i, s, {"redact"})
      /\ events'[i] = events[i] /\ events'[p] = ev
    BY <1>grown DEF GrowsBy
<1>2. pos \in Nat /\ p = pos + 1
    BY <1>0, ReadsNext
<1>3. \A l \in After(k, s, {"edit", "redact"})' : l <= p
    BY <1>1, <1>2
<1>4. public'[s].redacted = (After(i, s, {"redact"})' # {})
    BY <1>1 DEF SeenSince
<1>5. public'[s].src = events'[i].id
    BY <1>1 DEF SeenSince
<1> QED
    BY <1>1, <1>3, <1>4, <1>5 DEF SeenSince

\* An event that touches no document of number s, and makes none.
LEMMA FollowsUntouched ==
    ASSUME IInv, NEW K, NEW ev, Reads(ev, K), NEW s \in Seqs, Follows(s),
           public'[s] = public[s], private'[s] = private[s],
           IF Kind[ev.id] = "message" THEN ev.seq # s ELSE ev.about # s
    PROVE  Follows(s)'
<1>0. PICK p : p = pos'
    OBVIOUS
<1>grown. GrowsBy(ev, p)
    BY <1>0, AfterGrows
<1>1. Made(s)' = Made(s) /\ \A i \in Made(s) : i \in 1 .. pos /\ events'[i] = events[i]
  <2>1. Made(s) \subseteq 1 .. pos
      BY DEF Made
  <2> QED
      BY <2>1, <1>grown DEF GrowsBy
<1>2. \A i \in 1 .. pos, L \in SUBSET {"edit", "redact", "publish"} :
          After(i, s, L)' = After(i, s, L) /\ \A j \in After(i, s, L) : j \in 1 .. pos
    BY <1>grown DEF GrowsBy
<1>3. ASSUME NEW i \in 1 .. pos, NEW k \in 1 .. pos, SeenSince(s, i, k)
      PROVE  SeenSince(s, i, k)'
    BY <1>3, SeenKept
<1>4. ASSUME NEW i \in Made(s), HeldBack(s, i)
      PROVE  HeldBack(s, i)'
    BY <1>1, <1>2, <1>3, <1>4 DEF HeldBack
<1> QED
    BY <1>1, <1>3, <1>4 DEF Follows

\* Numbers grow along the log: the message of the next entry is the first of its number.
LEMMA NoneMade ==
    ASSUME IInv, OneCounter, NEW K, NEW ev, Reads(ev, K), NEW s, s = ev.seq
    PROVE  Made(s) = {}
<1>1. pos \in Nat /\ pos' = pos + 1 /\ pos' \in DOMAIN events /\ ev = events[pos'] /\ ev.seq \in Nat
    BY ReadsNext
<1>2. \A i \in 1 .. pos : i \in DOMAIN events /\ i < pos' /\ events[i].seq \in Nat
    BY <1>1, EntryType DEF IInv
<1>3. \A i \in 1 .. pos : events[i].seq < ev.seq
    BY <1>1, <1>2 DEF IInv, LogInv
<1> QED
    BY <1>1, <1>2, <1>3 DEF Made

LEMMA MessageFollows ==
    ASSUME IInv, OneCounter, ~missed', NEW ev, ProjectMessage(ev),
           NEW s \in Seqs, Follows(s)
    PROVE  Follows(s)'
<1>0. PICK p : p = pos'
    OBVIOUS
<1> DEFINE d == [src |-> ev.id, content |-> ev.id, redacted |-> FALSE]
<1>1. /\ Reads(ev, {"message"})
      /\ IF isPublic(ev.id)
         THEN public' = Insert(public, ev.seq, d) /\ UNCHANGED private
         ELSE private' = Insert(private, ev.seq, d) /\ UNCHANGED public
    BY DEF ProjectMessage, Counted
<1>2. Kind[ev.id] = "message" /\ ev.id \in Events /\ ev.id # NoEvent /\ p \in Nat
  <2>1. Kind[ev.id] = "message" /\ ev.id \in Events /\ pos' \in DOMAIN events /\ pos \in Nat /\ pos' = pos + 1
      BY <1>1, ReadsNext
  <2> QED
      BY <1>0, <2>1, EventAssumption
<1>grown. GrowsBy(ev, p)
    BY <1>0, <1>1, AfterGrows
<1>3. d.src = ev.id /\ d.content = ev.id /\ d.redacted = FALSE /\ d # NoDoc
    BY <1>2 DEF NoDoc
<1> HIDE DEF d
<1>4. public \in [Seqs -> Docs] /\ private \in [Seqs -> Docs]
    BY DEF IInv, TypeInv
<1>5. CASE ev.seq # s
  <2>1. public'[s] = public[s] /\ private'[s] = private[s]
      BY <1>1, <1>4, <1>5 DEF Insert
  <2> QED
      BY <1>1, <1>2, <1>5, <2>1, FollowsUntouched
<1>6. CASE ev.seq = s
  <2>1. Made(s) = {}
      BY <1>1, <1>6, NoneMade
  <2>2. public[s] = NoDoc /\ private[s] = NoDoc
      BY <2>1 DEF Follows
  <2>3. Made(s)' = {p} /\ events'[p] = ev
      BY <1>1, <1>2, <1>6, <2>1, <1>grown DEF GrowsBy
  <2>4. \A L : After(p, s, L)' = {}
      BY <1>1, <1>grown DEF GrowsBy
  <2>5. CASE isPublic(ev.id)
    <3>1. public'[s] = d /\ private'[s] = NoDoc
        BY <1>1, <1>4, <1>6, <2>2, <2>5 DEF Insert
    <3>2. SeenSince(s, p, p)'
        BY <1>3, <2>3, <2>4, <3>1 DEF SeenSince
    <3> QED
        BY <2>3, <2>5, <3>1, <3>2 DEF Follows, isPublic
  <2>6. CASE ~ isPublic(ev.id)
    <3>1. private'[s] = d /\ public'[s] = NoDoc
        BY <1>1, <1>4, <1>6, <2>2, <2>6 DEF Insert
    <3>2. HeldBack(s, p)'
        BY <1>3, <2>3, <2>4, <3>1 DEF HeldBack
    <3> QED
        BY <2>3, <2>6, <3>2 DEF Follows, isPublic
  <2> QED
      BY <2>5, <2>6
<1> QED
    BY <1>5, <1>6

LEMMA ChangeFollows ==
    ASSUME IInv, ~missed', NEW ev, applyEdit(ev) \/ applyRedact(ev),
           NEW s \in Seqs, Follows(s)
    PROVE  Follows(s)'
<1>0. PICK p : p = pos'
    OBVIOUS
<1> DEFINE K == {"edit", "redact"}
           redacts == Kind[ev.id] = "redact"
<1>1. /\ ev.id \in Events /\ Kind[ev.id] \in K /\ Shows(ev.id) \in Events \cup {NoEvent}
      /\ \E L \in {{"edit"}, {"redact"}} : Reads(ev, L)
      /\ public' = Change(public, ev.about, Shows(ev.id), redacts)
      /\ private' = Change(private, ev.about, Shows(ev.id), redacts)
  <2>1. CASE applyEdit(ev)
    <3>1. ev.id \in Events /\ Kind[ev.id] = "edit" /\ Reads(ev, {"edit"})
        BY <2>1, ReadsNext DEF applyEdit
    <3>2. /\ public' = Change(public, ev.about, ev.id, FALSE)
          /\ private' = Change(private, ev.about, ev.id, FALSE)
        BY <2>1 DEF applyEdit, ChangeBoth, Counted
    <3>3. Shows(ev.id) = ev.id /\ redacts = FALSE
        BY <3>1 DEF Shows
    <3> QED
        BY <3>1, <3>2, <3>3
  <2>2. CASE applyRedact(ev)
    <3>1. ev.id \in Events /\ Kind[ev.id] = "redact" /\ Reads(ev, {"redact"})
        BY <2>2, ReadsNext DEF applyRedact
    <3>2. /\ public' = Change(public, ev.about, NoEvent, TRUE)
          /\ private' = Change(private, ev.about, NoEvent, TRUE)
        BY <2>2 DEF applyRedact, ChangeBoth, Counted
    <3>3. Shows(ev.id) = NoEvent /\ redacts = TRUE
        BY <3>1 DEF Shows
    <3> QED
        BY <3>1, <3>2, <3>3
  <2> QED
      BY <2>1, <2>2
<1>2. PICK L : Reads(ev, L)
    BY <1>1
<1> HIDE DEF redacts
<1>3. ASSUME NEW f \in [Seqs -> Docs]
      PROVE  /\ f[s] = NoDoc \/ ev.about # s => Change(f, ev.about, Shows(ev.id), redacts)[s] = f[s]
             /\ f[s] # NoDoc /\ ev.about = s =>
                    /\ Change(f, ev.about, Shows(ev.id), redacts)[s].src = f[s].src
                    /\ Change(f, ev.about, Shows(ev.id), redacts)[s].content = Shows(ev.id)
                    /\ Change(f, ev.about, Shows(ev.id), redacts)[s].redacted = (f[s].redacted \/ redacts)
  <2>1. CASE f[ev.about] = NoDoc
      BY <2>1 DEF Change
  <2>2. CASE f[ev.about] # NoDoc
    <3>1. f[s] \in Docs
        OBVIOUS
    <3> QED
        BY <2>2, <3>1 DEF Change, Docs
  <2> QED
      BY <2>1, <2>2
<1>grown. GrowsBy(ev, p)
    BY <1>0, <1>2, AfterGrows
<1>4. public \in [Seqs -> Docs] /\ private \in [Seqs -> Docs]
    BY DEF IInv, TypeInv
<1>5. /\ public[s] = NoDoc \/ ev.about # s => public'[s] = public[s]
      /\ private[s] = NoDoc \/ ev.about # s => private'[s] = private[s]
      /\ public[s] # NoDoc /\ ev.about = s =>
             /\ public'[s].src = public[s].src /\ public'[s].content = Shows(ev.id)
             /\ public'[s].redacted = (public[s].redacted \/ redacts)
      /\ private[s] # NoDoc /\ ev.about = s =>
             /\ private'[s].src = private[s].src
             /\ private'[s].redacted = (private[s].redacted \/ redacts)
    BY <1>1, <1>3, <1>4
<1>6. CASE ev.about # s
    BY <1>1, <1>2, <1>5, <1>6, FollowsUntouched
<1>7. CASE ev.about = s
  <2>1. Made(s)' = Made(s) /\ \A i \in Made(s) : i \in 1 .. pos /\ events'[i] = events[i]
    <3>1. Made(s) \subseteq 1 .. pos
        BY DEF Made
    <3> QED
        BY <1>1, <1>2, <3>1, <1>grown DEF GrowsBy
  <2>2. ASSUME NEW i \in 1 .. pos, NEW k \in 1 .. pos, SeenSince(s, i, k)
        PROVE  SeenSince(s, i, k)'
    <3>1. public[s] # NoDoc
        BY <2>2, EntryType DEF SeenSince, NoDoc, IInv
    <3> QED
        BY <1>1, <1>2, <1>5, <1>7, <2>2, <3>1, SeenChanged DEF redacts
  <2>3. ASSUME NEW i \in Made(s), HeldBack(s, i)
        PROVE  HeldBack(s, i)'
    <3>1. /\ After(i, s, {"publish"})' = After(i, s, {"publish"})
          /\ IF redacts THEN After(i, s, {"redact"})' = After(i, s, {"redact"}) \cup {p}
             ELSE After(i, s, {"redact"})' = After(i, s, {"redact"})
          /\ \A j \in After(i, s, {"publish"}) : j \in 1 .. pos
        BY <1>1, <1>2, <1>7, <2>1, <1>grown DEF redacts, GrowsBy
    <3>2. /\ private[s] # NoDoc /\ private[s].src = events[i].id
          /\ private[s].redacted = (After(i, s, {"redact"}) # {})
        BY <2>3 DEF HeldBack
    <3>3. /\ private'[s].src = events'[i].id
          /\ private'[s].redacted = (After(i, s, {"redact"})' # {})
        BY <1>5, <1>7, <2>1, <3>1, <3>2
    <3>4. private'[s] # NoDoc
        BY <2>1, <3>3, EntryType DEF NoDoc, IInv
    <3>5. CASE After(i, s, {"publish"}) = {} /\ public[s] = NoDoc
        BY <1>5, <3>1, <3>3, <3>4, <3>5 DEF HeldBack
    <3>6. ASSUME NEW k \in After(i, s, {"publish"}), \A j \in After(i, s, {"publish"}) : k <= j,
                 SeenSince(s, i, k)
          PROVE  HeldBack(s, i)'
      <4>1. SeenSince(s, i, k)'
          BY <2>1, <2>2, <3>1, <3>6
      <4> QED
          BY <3>1, <3>3, <3>4, <3>6, <4>1 DEF HeldBack
    <3> QED
        BY <2>3, <3>5, <3>6 DEF HeldBack
  <2>4. CASE Made(s) = {} /\ public[s] = NoDoc /\ private[s] = NoDoc
      BY <1>5, <2>1, <2>4 DEF Follows
  <2> QED
      BY <1>5, <2>1, <2>2, <2>3, <2>4 DEF Follows
<1> QED
    BY <1>6, <1>7

LEMMA PublishFollows ==
    ASSUME IInv, ~missed', NEW ev, movePrivateToPublic(ev), NEW s \in Seqs, Follows(s)
    PROVE  Follows(s)'
<1>0. PICK p : p = pos'
    OBVIOUS
<1> DEFINE d == [private[s] EXCEPT !.content = NoEvent]
<1>1. Reads(ev, {"publish"}) /\ Kind[ev.id] = "publish"
    BY ReadsNext DEF movePrivateToPublic
<1>2. /\ private' = private
      /\ IF private[ev.about] # NoDoc
         THEN public' = Insert(public, ev.about, [private[ev.about] EXCEPT !.content = NoEvent])
         ELSE public' = public
    BY DEF movePrivateToPublic, Counted
<1>3. public \in [Seqs -> Docs] /\ private \in [Seqs -> Docs] /\ pos \in Nat /\ p = pos + 1
  <2>1. pos \in Nat /\ p = pos + 1
      BY <1>0, <1>1, ReadsNext
  <2> QED
      BY <2>1 DEF IInv, TypeInv
<1>grown. GrowsBy(ev, p)
    BY <1>0, <1>1, AfterGrows
<1>4. CASE ev.about # s
  <2>1. public'[s] = public[s]
      BY <1>2, <1>3, <1>4 DEF Insert
  <2> QED
      BY <1>1, <1>2, <1>4, <2>1, FollowsUntouched
<1>5. CASE ev.about = s
  <2>1. Made(s)' = Made(s) /\ \A i \in Made(s) : i \in 1 .. pos /\ events'[i] = events[i]
    <3>1. Made(s) \subseteq 1 .. pos
        BY DEF Made
    <3> QED
        BY <1>1, <3>1, <1>grown DEF GrowsBy
  <2>2. ASSUME NEW i \in 1 .. pos, NEW k \in 1 .. pos, SeenSince(s, i, k), public'[s] = public[s]
        PROVE  SeenSince(s, i, k)'
      BY <1>1, <2>2, SeenKept
  <2>3. CASE Made(s) = {} /\ public[s] = NoDoc /\ private[s] = NoDoc
      BY <1>2, <1>5, <2>1, <2>3 DEF Follows
  <2>4. ASSUME NEW i \in Made(s), Made(s) = {i}, isPublic(events[i].id), private[s] = NoDoc,
               SeenSince(s, i, i)
        PROVE  Follows(s)'
    <3>1. SeenSince(s, i, i)'
        BY <1>2, <1>5, <2>1, <2>2, <2>4
    <3> QED
        BY <1>2, <2>1, <2>4, <3>1 DEF Follows
  <2>5. ASSUME NEW i \in Made(s), Made(s) = {i}, ~ isPublic(events[i].id), HeldBack(s, i)
        PROVE  Follows(s)'
    <3>1. /\ After(i, s, {"publish"})' = After(i, s, {"publish"}) \cup {p}
          /\ After(i, s, {"redact"})' = After(i, s, {"redact"})
          /\ \A j \in After(i, s, {"publish"}) : j \in 1 .. pos
        BY <1>1, <1>5, <2>1, <1>grown DEF GrowsBy
    <3>2. /\ private'[s] = private[s] /\ private[s] # NoDoc /\ private[s].src = events[i].id
          /\ private[s].redacted = (After(i, s, {"redact"}) # {})
        BY <1>2, <2>5 DEF HeldBack
    <3>3. CASE After(i, s, {"publish"}) = {} /\ public[s] = NoDoc
      <4>1. public'[s] = d
          BY <1>2, <1>3, <1>5, <3>2, <3>3 DEF Insert
      <4>2. d.src = private[s].src /\ d.content = NoEvent /\ d.redacted = private[s].redacted
          BY <1>3 DEF Docs
      <4>3. After(p, s, {"edit", "redact"})' = {} /\ i # p
          BY <1>1, <1>3, <2>1, <1>grown DEF GrowsBy
      <4>4. SeenSince(s, i, p)'
        <5> HIDE DEF d
        <5>1. /\ public'[s].src = events'[i].id /\ public'[s].content = NoEvent
              /\ public'[s].redacted = (After(i, s, {"redact"})' # {})
            BY <2>1, <3>1, <3>2, <4>1, <4>2
        <5> QED
            BY <4>3, <5>1 DEF SeenSince
      <4>5. After(i, s, {"publish"})' = {p}
          BY <3>1, <3>3
      <4>6. HeldBack(s, i)'
          BY <1>3, <2>1, <3>1, <3>2, <4>4, <4>5 DEF HeldBack
      <4> QED
          BY <2>1, <2>5, <4>6 DEF Follows
    <3>4. ASSUME NEW k \in After(i, s, {"publish"}), \A j \in After(i, s, {"publish"}) : k <= j,
                 SeenSince(s, i, k)
          PROVE  Follows(s)'
      <4>1. public[s] # NoDoc
          BY <2>1, <3>4, EntryType DEF SeenSince, NoDoc, IInv
      <4>2. public'[s] = public[s]
          BY <1>2, <1>5, <4>1 DEF Insert
      <4>3. SeenSince(s, i, k)'
          BY <2>1, <2>2, <3>1, <3>4, <4>2
      <4>4. k <= p
          BY <1>3, <3>1
      <4>5. k \in After(i, s, {"publish"})' /\ \A j \in After(i, s, {"publish"})' : k <= j
          BY <3>1, <3>4, <4>4
      <4>6. HeldBack(s, i)'
          BY <2>1, <3>1, <3>2, <4>3, <4>5 DEF HeldBack
      <4> QED
          BY <2>1, <2>5, <4>6 DEF Follows
    <3> QED
        BY <2>5, <3>3, <3>4 DEF HeldBack
  <2> QED
      BY <2>3, <2>4, <2>5 DEF Follows
<1> QED
    BY <1>4, <1>5

LEMMA InitFollows == Init => ProjectionInv
<1> SUFFICES ASSUME Init, NEW s \in Seqs PROVE Follows(s)
    BY DEF ProjectionInv
<1>1. 1 .. pos = {}
    BY DEF Init
<1> QED
    BY <1>1 DEF Init, Follows, Made, NoDocs

LEMMA StepFollows == IInv /\ ProjectionInv /\ [Next]_vars => ProjectionInv'
<1> SUFFICES ASSUME IInv, ProjectionInv, [Next]_vars, OneCounter', ~missed', NEW s \in Seqs
             PROVE  Follows(s)'
    BY DEF ProjectionInv
<1>1. TypeInv
    BY DEF IInv
<1>2. CASE \/ \E c \in Callers, e \in Events : Begin(c, e)
           \/ \E t \in calls : Abort(t)
           \/ UNCHANGED vars
  <2>1. UNCHANGED <<counters, events, pos, missed, public, private>>
      BY <1>2 DEF Begin, Abort, vars, store, projection
  <2> QED
      BY <1>1, <2>1, FollowsKept DEF ProjectionInv, OneCounter
<1>3. ASSUME NEW t \in calls, Commit(t) PROVE Follows(s)'
  <2>1. UNCHANGED <<pos, missed, public, private>>
      BY <1>3 DEF Commit, projection
  <2>2. OneCounter /\ \A i \in 1 .. Len(events) : events'[i] = events[i]
      BY <1>1, <1>3, CommitGrows DEF OneCounter, TypeInv
  <2> QED
      BY <1>1, <2>1, <2>2, FollowsKept DEF ProjectionInv
<1>4. ASSUME NEW ev, ProjectMessage(ev) PROVE Follows(s)'
  <2>1. Reads(ev, {"message"}) /\ ~missed
      BY <1>4 DEF ProjectMessage, Counted
  <2>2. OneCounter
      BY <2>1 DEF Reads, store, OneCounter
  <2> QED
      BY <1>4, <2>1, <2>2, MessageFollows DEF ProjectionInv
<1>5. ASSUME NEW ev, applyEdit(ev) \/ applyRedact(ev) PROVE Follows(s)'
  <2>1. ~missed /\ OneCounter
      BY <1>5 DEF applyEdit, applyRedact, ChangeBoth, Counted, Reads, store, OneCounter
  <2> QED
      BY <1>5, <2>1, ChangeFollows DEF ProjectionInv
<1>6. ASSUME NEW ev, movePrivateToPublic(ev) PROVE Follows(s)'
  <2>1. ~missed /\ OneCounter
      BY <1>6 DEF movePrivateToPublic, Counted, Reads, store, OneCounter
  <2> QED
      BY <1>6, <2>1, PublishFollows DEF ProjectionInv
<1>7. CASE Stop \/ Start
  <2>1. /\ UNCHANGED <<counters, events, public, private>>
        /\ pos' = pos \/ (pos' = Len(events) /\ missed' = (missed \/ pos < Len(events)))
        /\ missed' = missed \/ missed' = (missed \/ pos < Len(events))
      BY <1>7 DEF Stop, Start, store
  <2>2. pos' = pos /\ ~missed
    <3>1. pos \in 0 .. Len(events) /\ Len(events) \in Nat
        BY <1>1 DEF TypeInv
    <3>2. ~missed
        BY <2>1, Zenon
    <3>3. pos' = pos \/ (pos' = Len(events) /\ ~ (pos < Len(events)))
        BY <2>1, Zenon
    <3> QED
        BY <3>1, <3>2, <3>3
  <2> QED
      BY <1>1, <2>1, <2>2, FollowsKept DEF ProjectionInv, OneCounter
<1> QED
    BY <1>2, <1>3, <1>4, <1>5, <1>6, <1>7 DEF Next

\* With one counter, a projector that missed no event and no write shows the customer
\* the messages that are open or published, each as last edited (what was published and
\* not edited since may be blank) and none that is redacted as it was before, however
\* edits, redactions and publications interleave with transactions that repeat and abort.
THEOREM TimelineFollowsTheLog == Spec => []TimelineIsProjection
<1>1. IInv /\ ProjectionInv => TimelineIsProjection
    BY FollowsIsShown DEF IInv, ProjectionInv, TimelineIsProjection
<1> QED
    BY <1>1, InitIInv, StepIInv, InitFollows, StepFollows, PTL DEF Spec

=============================================================================
