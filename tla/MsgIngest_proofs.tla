-------------------------- MODULE MsgIngest_proofs --------------------------
(***************************************************************************)
(* Proofs about MsgIngest for any number of workers, messages, numbers,    *)
(* deliveries and faults.  The invariant has a part about numbers, who     *)
(* holds one and where it may be stored, and a part about what becomes     *)
(* readable before it is announced.                                        *)
(***************************************************************************)
EXTENDS MsgIngest, TLAPS

Early == {"index", "conv", "malloc"}
Unstored == Early \cup {"count", "both", "upsert", "raise", "insert"}

WorkerType ==
    /\ pc \in [Workers -> Steps \cup {"idle"}]
    /\ call \in [Workers -> {None} \cup Calls]
    /\ \A w \in Workers : pc[w] = "idle" <=> call[w] = None

\* up looks at an owner only while one is left.
SomeoneLeft == \A w \in Workers : pc[w] \in {"upsert", "raise"} => call[w].todo # <<>>

\* A number other than 0 was returned to one call, which stores it once.
Numbers ==
    /\ \A w \in Workers :
          /\ pc[w] \in Early => call[w].seq = 0
          /\ pc[w] # "idle" /\ call[w].seq # 0 => call[w].seq \in taken[call[w].conv]
          /\ pc[w] \in Unstored =>
                \A r \in stored : SameSeq(r, call[w]) => r.seq = 0
    /\ \A v, w \in Workers :
          v # w /\ pc[v] # "idle" /\ pc[w] # "idle" /\ SameSeq(call[v], call[w]) => call[w].seq = 0
    /\ \A r \in stored : r.seq # 0 => r.seq \in taken[r.conv]
    /\ OneMessagePerSeq

\* A call stores its message, then raises the watermark, then announces.
Published ==
    /\ \A w \in Workers :
          /\ pc[w] = "max" => Record(w) \in stored
          /\ pc[w] \in {"data", "deliver"} /\ Numbered(w) => call[w].msg \in Readable
    /\ Announced \subseteq Readable
    /\ WatermarkIsStored

IInv == TypeOK /\ SomeoneLeft /\ Numbers /\ Published

LEMMA InitIInv == Init => IInv
<1> SUFFICES ASSUME Init PROVE IInv
    OBVIOUS
<1>1. TypeOK
  <2>1. /\ indexed \in BOOLEAN /\ frames \subseteq [kind : Kinds, msg : Msgs, numbered : BOOLEAN]
        /\ acked \subseteq [msg : Msgs, numbered : BOOLEAN]
        /\ stored \subseteq [conv : Convs, seq : 0 .. MaxSeq, msg : Msgs, nth : 1 .. MaxDeliveries]
      BY DEF Init
  <2>2. /\ taken \in [Convs -> SUBSET (1 .. MaxSeq)]
        /\ maxSeq \in [Convs -> 0 .. MaxSeq]
        /\ shadow \in [Convs -> [Sides -> (0 .. MaxSeq) \cup {None}]]
        /\ deliveries \in 0 .. MaxDeliveries /\ faults \in 0 .. MaxFaults
      BY BoundsAssumption DEF Init
  <2>3. WorkerType
      BY DEF Init, WorkerType
  <2> QED
      BY <2>1, <2>2, <2>3 DEF TypeOK, WorkerType
<1>2. SomeoneLeft /\ Numbers
    BY DEF Init, SomeoneLeft, Numbers, OneMessagePerSeq, Early, Unstored
<1>3. Published
    BY DEF Init, Published, Announced, WatermarkIsStored
<1> QED
    BY <1>1, <1>2, <1>3 DEF IInv

-----------------------------------------------------------------------------
(* Types *)

LEMMA TypeParts == TypeOK => WorkerType
    BY DEF TypeOK, WorkerType

LEMMA CallIsTyped ==
    ASSUME TypeOK, NEW w \in Workers, pc[w] # "idle"
    PROVE  /\ call[w] \in Calls
           /\ call[w].msg \in Msgs /\ call[w].nth \in 1 .. MaxDeliveries
           /\ call[w].conv \in Convs /\ call[w].seq \in 0 .. MaxSeq
    BY DEF TypeOK, Calls

\* A worker goes on with call k.
LEMMA MoveType ==
    ASSUME WorkerType, NEW w \in Workers, NEW l \in Steps, NEW k \in Calls,
           Goto(w, l), call' = [call EXCEPT ![w] = k]
    PROVE  /\ WorkerType' /\ pc'[w] = l /\ call'[w] = k
           /\ \A v \in Workers \ {w} : pc'[v] = pc[v] /\ call'[v] = call[v]
    BY DistinctAssumption DEF WorkerType, Goto, Steps

LEMMA ContinueType ==
    ASSUME WorkerType, NEW w \in Workers, pc[w] # "idle", NEW l \in Steps, Continue(w, l)
    PROVE  /\ WorkerType' /\ pc'[w] = l /\ call'[w] = call[w]
           /\ \A v \in Workers \ {w} : pc'[v] = pc[v] /\ call'[v] = call[v]
    BY DEF WorkerType, Continue, Goto, Steps

LEMMA EndType ==
    ASSUME WorkerType, NEW w \in Workers, End(w)
    PROVE  /\ WorkerType' /\ pc'[w] = "idle"
           /\ \A v \in Workers \ {w} : pc'[v] = pc[v] /\ call'[v] = call[v]
    BY DEF WorkerType, End, Goto

\* The other parts of the type invariant.
LEMMA FaultType == ASSUME TypeOK, Fault \/ NoFault PROVE faults' \in 0 .. MaxFaults
    BY BoundsAssumption DEF TypeOK, Fault, NoFault

LEMMA RaiseType ==
    ASSUME TypeOK, NEW c \in Convs, NEW S \in SUBSET Sides, NEW n \in 0 .. MaxSeq, Raise(c, S, n)
    PROVE  shadow' \in [Convs -> [Sides -> (0 .. MaxSeq) \cup {None}]]
    BY DEF TypeOK, Raise, Larger

LEMMA RecordType ==
    ASSUME TypeOK, NEW w \in Workers, pc[w] # "idle"
    PROVE  /\ Record(w) \in [conv : Convs, seq : 0 .. MaxSeq, msg : Msgs, nth : 1 .. MaxDeliveries]
           /\ Record(w).conv = call[w].conv /\ Record(w).seq = call[w].seq
           /\ Record(w).msg = call[w].msg
    BY CallIsTyped DEF Record

LEMMA AdvanceType ==
    ASSUME TypeOK, NEW w \in Workers, pc[w] # "idle", Advance(w)
    PROVE  /\ maxSeq' \in [Convs -> 0 .. MaxSeq]
           /\ \A c \in Convs : maxSeq[c] <= maxSeq'[c]
           /\ call[w].seq <= maxSeq'[call[w].conv]
           /\ \A c \in Convs : maxSeq'[c] = maxSeq[c] \/ (c = call[w].conv /\ maxSeq'[c] = call[w].seq)
<1>1. /\ maxSeq \in [Convs -> 0 .. MaxSeq]
      /\ call[w].conv \in Convs /\ call[w].seq \in 0 .. MaxSeq
    BY CallIsTyped DEF TypeOK
<1> QED
    BY <1>1, BoundsAssumption DEF Advance, Larger

\* The owners left.
LEMMA TodoType ==
    ASSUME TypeOK, SomeoneLeft, NEW w \in Workers, pc[w] \in {"upsert", "raise"}
    PROVE  /\ Owner(w) \in Sides
           /\ Tail(call[w].todo) \in {<<>>} \cup {<<s>> : s \in Sides}
           /\ Len(call[w].todo) # 1 => Tail(call[w].todo) # <<>>
           /\ [call[w] EXCEPT !.todo = Tail(@)] \in Calls
<1>1. call[w] \in Calls /\ call[w].todo # <<>>
    BY CallIsTyped DEF SomeoneLeft
<1>2. /\ call[w].todo \in {<<s>> : s \in Sides} \cup (Sides \X Sides)
    BY <1>1 DEF Calls
<1>3. /\ Owner(w) \in Sides
      /\ Tail(call[w].todo) \in {<<>>} \cup {<<s>> : s \in Sides}
      /\ Len(call[w].todo) # 1 => Tail(call[w].todo) # <<>>
  <2>1. CASE call[w].todo \in {<<s>> : s \in Sides}
    <3>1. PICK s \in Sides : call[w].todo = <<s>>
        BY <2>1
    <3>2. Head(<<s>>) = s /\ Tail(<<s>>) = <<>> /\ Len(<<s>>) = 1
        OBVIOUS
    <3> QED
        BY <3>1, <3>2 DEF Owner
  <2>2. CASE call[w].todo \in Sides \X Sides
    <3>1. PICK s, t \in Sides : call[w].todo = <<s, t>>
        BY <2>2
    <3>2. Head(<<s, t>>) = s /\ Tail(<<s, t>>) = <<t>> /\ Len(<<s, t>>) = 2 /\ <<t>> # <<>>
        OBVIOUS
    <3> QED
        BY <3>1, <3>2 DEF Owner
  <2> QED
      BY <1>2, <2>1, <2>2
<1> QED
    BY <1>1, <1>3 DEF Calls

LEMMA SideDoneType ==
    ASSUME TypeOK, SomeoneLeft, NEW w \in Workers, pc[w] \in {"upsert", "raise"}, SideDone(w)
    PROVE  /\ WorkerType'
           /\ pc'[w] \in {"insert", "upsert"}
           /\ pc'[w] = "upsert" => call'[w].todo # <<>>
           /\ call'[w].conv = call[w].conv /\ call'[w].seq = call[w].seq
           /\ call'[w].msg = call[w].msg
           /\ \A v \in Workers \ {w} : pc'[v] = pc[v] /\ call'[v] = call[v]
<1> DEFINE k == [call[w] EXCEPT !.todo = Tail(@)]
           l == IF Len(call[w].todo) = 1 THEN "insert" ELSE "upsert"
<1>1. /\ k \in Calls /\ k.todo = Tail(call[w].todo)
      /\ k.conv = call[w].conv /\ k.seq = call[w].seq /\ k.msg = call[w].msg
    BY TodoType, CallIsTyped DEF Calls
<1>2. l \in Steps /\ l \in {"insert", "upsert"} /\ (l = "upsert" => k.todo # <<>>)
    BY <1>1, TodoType DEF Steps
<1>3. Goto(w, l) /\ call' = [call EXCEPT ![w] = k]
    BY DEF SideDone
<1> HIDE DEF k, l
<1>4. WorkerType
    BY TypeParts
<1>5. /\ WorkerType' /\ pc'[w] = l /\ call'[w] = k
      /\ \A v \in Workers \ {w} : pc'[v] = pc[v] /\ call'[v] = call[v]
    BY <1>1, <1>2, <1>3, <1>4, MoveType
<1> QED
    BY <1>1, <1>2, <1>5

-----------------------------------------------------------------------------
(* TypeOK and SomeoneLeft *)

DataType ==
    /\ indexed \in BOOLEAN
    /\ taken \in [Convs -> SUBSET (1 .. MaxSeq)]
    /\ stored \subseteq [conv : Convs, seq : 0 .. MaxSeq, msg : Msgs, nth : 1 .. MaxDeliveries]
    /\ maxSeq \in [Convs -> 0 .. MaxSeq]
    /\ shadow \in [Convs -> [Sides -> (0 .. MaxSeq) \cup {None}]]

CountType ==
    /\ frames \subseteq [kind : Kinds, msg : Msgs, numbered : BOOLEAN]
    /\ acked \subseteq [msg : Msgs, numbered : BOOLEAN]
    /\ deliveries \in 0 .. MaxDeliveries /\ faults \in 0 .. MaxFaults

LEMMA TypeWhole == TypeOK <=> DataType /\ CountType /\ WorkerType
    BY DEF TypeOK, DataType, CountType, WorkerType

LEMMA TypeWholeNext == TypeOK' <=> DataType' /\ CountType' /\ WorkerType'
    BY DEF TypeOK, DataType, CountType, WorkerType

LEMMA NumberedType == \A w \in Workers : Numbered(w) \in BOOLEAN
    BY DEF Numbered

LEMMA ProduceType ==
    ASSUME TypeOK, NEW w \in Workers, pc[w] # "idle", NEW kind \in Kinds, Produce(w, kind)
    PROVE  frames' \subseteq [kind : Kinds, msg : Msgs, numbered : BOOLEAN] /\ faults' \in 0 .. MaxFaults
<1>1. /\ frames \subseteq [kind : Kinds, msg : Msgs, numbered : BOOLEAN]
      /\ [kind |-> kind, msg |-> call[w].msg, numbered |-> Numbered(w)] \in
            [kind : Kinds, msg : Msgs, numbered : BOOLEAN]
    BY CallIsTyped, NumberedType DEF TypeOK
<1> QED
    BY <1>1, FaultType DEF Produce

\* Only w moves.
Stays(w) == \A v \in Workers \ {w} : pc'[v] = pc[v] /\ call'[v] = call[v]

LEMMA TypesFollow ==
    ASSUME IInv, NEW w \in Workers, DataType', CountType', WorkerType', Stays(w),
           pc'[w] \in {"upsert", "raise"} => call'[w].todo # <<>>
    PROVE  TypeOK' /\ SomeoneLeft'
    BY TypeWholeNext DEF IInv, SomeoneLeft, Stays

-----------------------------------------------------------------------------
(* Numbers and Published, by what a step does *)

\* It ends the call, holds no number, or keeps the number on its way to the insert.
KeepsNumber(w) ==
    \/ pc'[w] = "idle"
    \/ call'[w].seq = 0
    \/ /\ pc[w] # "idle" /\ pc'[w] \notin Early
       /\ call'[w].conv = call[w].conv /\ call'[w].seq = call[w].seq
       /\ pc'[w] \in Unstored => pc[w] \in Unstored

LEMMA NumbersKept ==
    ASSUME IInv, NEW w \in Workers, Stays(w), KeepsNumber(w), UNCHANGED <<taken, stored>>,
           indexed' => indexed \/ \A r, s \in stored : SameSeq(r, s) => r = s
    PROVE  Numbers'
<1> USE DEF IInv
<1>1. OneMessagePerSeq'
    BY DEF Numbers, OneMessagePerSeq, SameSeq
<1>2. ASSUME NEW v \in Workers
      PROVE  /\ pc'[v] \in Early => call'[v].seq = 0
             /\ pc'[v] # "idle" /\ call'[v].seq # 0 => call'[v].seq \in taken'[call'[v].conv]
             /\ pc'[v] \in Unstored =>
                   \A r \in stored' : SameSeq(r, call'[v]) => r.seq = 0
  <2>1. CASE v # w
      BY <2>1 DEF Stays, Numbers
  <2>2. CASE v = w
      BY <2>2 DEF KeepsNumber, Numbers, SameSeq, Early, Unstored
  <2> QED
      BY <2>1, <2>2
<1>3. ASSUME NEW v \in Workers, NEW u \in Workers, v # u, pc'[v] # "idle", pc'[u] # "idle",
             SameSeq(call'[v], call'[u])
      PROVE  call'[u].seq = 0
  <2>1. CASE v # w /\ u # w
      BY <1>3, <2>1 DEF Stays, Numbers
  <2>2. CASE v = w
      BY <1>3, <2>2 DEF Stays, KeepsNumber, Numbers, SameSeq
  <2>3. CASE u = w
      BY <1>3, <2>3 DEF Stays, KeepsNumber, Numbers, SameSeq
  <2> QED
      BY <2>1, <2>2, <2>3
<1>4. \A r \in stored' : r.seq # 0 => r.seq \in taken'[r.conv]
    BY DEF Numbers
<1>5. \A v \in Workers : /\ pc'[v] \in Early => call'[v].seq = 0
                         /\ pc'[v] # "idle" /\ call'[v].seq # 0 => call'[v].seq \in taken'[call'[v].conv]
                         /\ pc'[v] \in Unstored =>
                               \A r \in stored' : SameSeq(r, call'[v]) => r.seq = 0
    BY <1>2
<1>6. \A v, u \in Workers :
          v # u /\ pc'[v] # "idle" /\ pc'[u] # "idle" /\ SameSeq(call'[v], call'[u]) => call'[u].seq = 0
    BY <1>3
<1> QED
    BY <1>1, <1>4, <1>5, <1>6 DEF Numbers, SameSeq

\* The call stores its message, unless the index forbids it, and ends or goes on.
LEMMA NumbersStored ==
    ASSUME IInv, NEW w \in Workers, Stays(w), pc[w] = "insert", ~Rejected(w),
           stored' = stored \cup {Record(w)}, UNCHANGED <<taken, indexed>>,
           \/ pc'[w] = "idle"
           \/ pc'[w] = "max" /\ call'[w].conv = call[w].conv /\ call'[w].seq = call[w].seq
    PROVE  Numbers'
<1> USE DEF IInv
<1>0. /\ Record(w).conv = call[w].conv /\ Record(w).seq = call[w].seq
      /\ pc[w] # "idle" /\ pc[w] \in Unstored
    BY RecordType DEF Unstored
<1>1. \A r \in stored : SameSeq(r, Record(w)) => r.seq = 0 /\ Record(w).seq = 0 /\ ~indexed
    BY <1>0 DEF Rejected, Numbers, SameSeq
<1>2. OneMessagePerSeq'
    BY <1>1 DEF Numbers, OneMessagePerSeq, SameSeq
<1>3. ASSUME NEW v \in Workers
      PROVE  /\ pc'[v] \in Early => call'[v].seq = 0
             /\ pc'[v] # "idle" /\ call'[v].seq # 0 => call'[v].seq \in taken'[call'[v].conv]
             /\ pc'[v] \in Unstored =>
                   \A r \in stored' : SameSeq(r, call'[v]) => r.seq = 0
  <2>1. CASE v # w
    <3>1. pc'[v] = pc[v] /\ call'[v] = call[v]
        BY <2>1 DEF Stays
    <3>2. pc[v] \in Unstored /\ SameSeq(Record(w), call[v]) => Record(w).seq = 0
        BY <1>0, <2>1 DEF Numbers, SameSeq, Unstored, Early
    <3> QED
        BY <3>1, <3>2 DEF Numbers
  <2>2. CASE v = w
      BY <1>0, <2>2 DEF Numbers, Unstored, Early
  <2> QED
      BY <2>1, <2>2
<1>4. \A v, u \in Workers :
          v # u /\ pc'[v] # "idle" /\ pc'[u] # "idle" /\ SameSeq(call'[v], call'[u]) => call'[u].seq = 0
    BY <1>0 DEF Stays, Numbers, SameSeq
<1>5. \A r \in stored' : r.seq # 0 => r.seq \in taken'[r.conv]
    BY <1>0 DEF Numbers
<1>6. \A v \in Workers : /\ pc'[v] \in Early => call'[v].seq = 0
                         /\ pc'[v] # "idle" /\ call'[v].seq # 0 => call'[v].seq \in taken'[call'[v].conv]
                         /\ pc'[v] \in Unstored =>
                               \A r \in stored' : SameSeq(r, call'[v]) => r.seq = 0
    BY <1>3
<1> QED
    BY <1>2, <1>4, <1>5, <1>6 DEF Numbers, SameSeq

\* The call gets a number nobody has.
LEMMA NumbersTaken ==
    ASSUME IInv, TypeOK', NEW w \in Workers, Stays(w), pc[w] = "malloc", pc'[w] = "count",
           NEW n \in (1 .. MaxSeq) \ taken[call[w].conv],
           taken' = [taken EXCEPT ![call[w].conv] = @ \cup {n}],
           call'[w].conv = call[w].conv, call'[w].seq = n, UNCHANGED <<indexed, stored>>
    PROVE  Numbers'
<1> USE DEF IInv
<1>0. /\ call[w].conv \in Convs /\ pc[w] # "idle" /\ n # 0
      /\ \A c \in Convs : taken'[c] = IF c = call[w].conv THEN taken[c] \cup {n} ELSE taken[c]
      /\ \A v \in Workers : pc[v] # "idle" => call[v].conv \in Convs
      /\ \A r \in stored : r.conv \in Convs
  <2>1. call[w].conv \in Convs /\ pc[w] # "idle" /\ n # 0
      BY CallIsTyped
  <2>2. \A c \in Convs : taken'[c] = (IF c = call[w].conv THEN taken[c] \cup {n} ELSE taken[c])
      BY <2>1 DEF TypeOK
  <2>3. \A v \in Workers : pc[v] # "idle" => call[v].conv \in Convs
      BY CallIsTyped
  <2>4. \A r \in stored : r.conv \in Convs
      BY DEF TypeOK
  <2> QED
      BY <2>1, <2>2, <2>3, <2>4
<1>1. OneMessagePerSeq'
    BY DEF Numbers, OneMessagePerSeq, SameSeq
<1>2. \A r \in stored : ~SameSeq(r, call'[w])
    BY <1>0 DEF Numbers, SameSeq
<1>3. \A v \in Workers \ {w} : pc[v] # "idle" => ~SameSeq(call[v], call'[w])
    BY <1>0 DEF Numbers, SameSeq
<1>4. ASSUME NEW v \in Workers
      PROVE  /\ pc'[v] \in Early => call'[v].seq = 0
             /\ pc'[v] # "idle" /\ call'[v].seq # 0 => call'[v].seq \in taken'[call'[v].conv]
             /\ pc'[v] \in Unstored =>
                   \A r \in stored' : SameSeq(r, call'[v]) => r.seq = 0
  <2>1. CASE v # w
      BY <1>0, <2>1 DEF Stays, Numbers
  <2>2. CASE v = w
    <3>1. pc'[w] \notin Early
        BY DEF Early
    <3>2. call'[w].seq \in taken'[call'[w].conv]
        BY <1>0
    <3>3. \A r \in stored' : ~SameSeq(r, call'[w])
        BY <1>2
    <3> QED
        BY <2>2, <3>1, <3>2, <3>3
  <2> QED
      BY <2>1, <2>2
<1>5. \A v, u \in Workers :
          v # u /\ pc'[v] # "idle" /\ pc'[u] # "idle" /\ SameSeq(call'[v], call'[u]) => call'[u].seq = 0
  <2> SUFFICES ASSUME NEW v \in Workers, NEW u \in Workers, v # u, pc'[v] # "idle", pc'[u] # "idle",
                      SameSeq(call'[v], call'[u])
               PROVE  call'[u].seq = 0
      OBVIOUS
  <2>1. CASE v # w /\ u # w
      BY <2>1 DEF Stays, Numbers
  <2>2. CASE v = w \/ u = w
      BY <1>3, <2>2 DEF Stays, SameSeq
  <2> QED
      BY <2>1, <2>2
<1>6. \A r \in stored' : r.seq # 0 => r.seq \in taken'[r.conv]
    BY <1>0 DEF Numbers
<1>7. \A v \in Workers : /\ pc'[v] \in Early => call'[v].seq = 0
                         /\ pc'[v] # "idle" /\ call'[v].seq # 0 => call'[v].seq \in taken'[call'[v].conv]
                         /\ pc'[v] \in Unstored =>
                               \A r \in stored' : SameSeq(r, call'[v]) => r.seq = 0
    BY <1>4
<1> QED
    BY <1>1, <1>5, <1>6, <1>7 DEF Numbers, SameSeq

\* What is readable stays so while messages are stored and watermarks rise.
LEMMA ReadableGrows ==
    ASSUME TypeOK, TypeOK', stored \subseteq stored',
           \A c \in Convs : maxSeq[c] <= maxSeq'[c]
    PROVE  Readable \subseteq Readable' /\ Readable' \subseteq Msgs
<1>1. \A r \in stored : /\ r.conv \in Convs /\ r.seq \in 0 .. MaxSeq
                        /\ maxSeq[r.conv] \in 0 .. MaxSeq /\ maxSeq'[r.conv] \in 0 .. MaxSeq
    BY DEF TypeOK
<1>2. \A r \in stored' : r.msg \in Msgs
    BY DEF TypeOK
<1> QED
    BY <1>1, <1>2, BoundsAssumption DEF Readable

LEMMA PublishedKept ==
    ASSUME IInv, TypeOK', NEW w \in Workers, Stays(w), stored \subseteq stored', UNCHANGED maxSeq,
           Announced' \subseteq Readable,
           pc'[w] = "max" => Record(w)' \in stored',
           pc'[w] \in {"data", "deliver"} /\ Numbered(w)' => call'[w].msg \in Readable
    PROVE  Published'
<1> USE DEF IInv
<1>1. Readable \subseteq Readable'
    BY ReadableGrows DEF TypeOK
<1>2. WatermarkIsStored'
    BY DEF Published, WatermarkIsStored
<1>3. \A v \in Workers : /\ pc'[v] = "max" => Record(v)' \in stored'
                         /\ pc'[v] \in {"data", "deliver"} /\ Numbered(v)' => call'[v].msg \in Readable'
    BY <1>1 DEF Published, Stays, Record, Numbered
<1> QED
    BY <1>1, <1>2, <1>3 DEF Published

LEMMA PublishedRaised ==
    ASSUME IInv, TypeOK', NEW w \in Workers, Stays(w), pc[w] = "max", Advance(w),
           UNCHANGED <<stored, frames, acked>>,
           pc'[w] \in {"idle", "data"}, pc'[w] = "data" => call'[w] = call[w]
    PROVE  Published'
<1> USE DEF IInv
<1>0. /\ pc[w] # "idle" /\ Record(w) \in stored
      /\ Record(w).conv = call[w].conv /\ Record(w).seq = call[w].seq /\ Record(w).msg = call[w].msg
    BY RecordType DEF Published
<1>1. Readable \subseteq Readable' /\ Announced' = Announced
    BY <1>0, AdvanceType, ReadableGrows DEF Announced
<1>2. WatermarkIsStored'
    BY <1>0, AdvanceType DEF Published, WatermarkIsStored
<1>3. Numbered(w) => call[w].msg \in Readable'
    BY <1>0, AdvanceType DEF Readable, Numbered, TypeOK
<1>4. \A v \in Workers : /\ pc'[v] = "max" => Record(v)' \in stored'
                         /\ pc'[v] \in {"data", "deliver"} /\ Numbered(v)' => call'[v].msg \in Readable'
    BY <1>1, <1>3 DEF Published, Stays, Record, Numbered
<1> QED
    BY <1>1, <1>2, <1>4 DEF Published

-----------------------------------------------------------------------------
(* The steps of a worker *)

\* A step of a call that changes no number, message or watermark.
LEMMA QuietStep ==
    ASSUME IInv, NEW w \in Workers, WorkerType', Stays(w), DataType', CountType',
           UNCHANGED <<indexed, taken, stored, maxSeq, frames, acked>>, KeepsNumber(w),
           pc'[w] \notin {"max", "data", "deliver"},
           pc'[w] \in {"upsert", "raise"} => call'[w].todo # <<>>
    PROVE  IInv'
<1>1. TypeOK' /\ SomeoneLeft'
    BY TypesFollow
<1>2. Numbers'
    BY NumbersKept
<1>3. Published'
    BY <1>1, PublishedKept DEF IInv, Published, Announced
<1> QED
    BY <1>1, <1>2, <1>3 DEF IInv

LEMMA DeliverKeeps ==
    ASSUME IInv, NEW w \in Workers, NEW m \in Msgs, Deliver(w, m)
    PROVE  IInv'
<1> DEFINE k == NewCall(m, deliveries')
<1>1. DataType' /\ CountType' /\ deliveries' \in 1 .. MaxDeliveries
    BY TypeWhole, BoundsAssumption DEF IInv, DataType, CountType, Deliver, disk
<1>2. k \in Calls /\ k.seq = 0
    BY <1>1, BoundsAssumption DEF NewCall, Calls, Convs
<1>3. Goto(w, "index") /\ call' = [call EXCEPT ![w] = k] /\ "index" \in Steps
    BY DEF Deliver, Steps
<1> HIDE DEF k
<1>4. WorkerType' /\ Stays(w) /\ pc'[w] = "index" /\ call'[w] = k
    BY <1>2, <1>3, MoveType, TypeParts DEF IInv, Stays
<1> QED
    BY <1>1, <1>2, <1>4, QuietStep DEF Deliver, disk, KeepsNumber

LEMMA EnsureIndexesKeeps == ASSUME IInv, NEW w \in Workers, EnsureIndexes(w) PROVE IInv'
<1>1. DataType' /\ CountType'
    BY TypeWhole DEF IInv, DataType, CountType, EnsureIndexes
<1>2. WorkerType' /\ Stays(w) /\ pc'[w] = "conv" /\ call'[w] = call[w] /\ pc[w] = "index"
    BY ContinueType, TypeParts DEF IInv, Stays, EnsureIndexes, At, Steps
<1>3. TypeOK' /\ SomeoneLeft'
    BY <1>1, <1>2, TypesFollow
<1>4. Numbers'
  <2>1. call'[w].seq = 0
      BY <1>2 DEF IInv, Numbers, Early
  <2>2. /\ UNCHANGED <<taken, stored>>
        /\ indexed' => indexed \/ \A r, s \in stored : SameSeq(r, s) => r = s
    <3> DEFINE Unique == \A r, s \in stored : SameSeq(r, s) => r = s
    <3>1. indexed' = (indexed \/ Unique) \/ indexed' = indexed
        BY DEF EnsureIndexes
    <3> HIDE DEF Unique
    <3>2. indexed' => indexed \/ Unique
        BY <3>1, Zenon
    <3> QED
        BY <3>2 DEF EnsureIndexes, Unique
  <2>3. KeepsNumber(w)
      BY <2>1 DEF KeepsNumber
  <2> QED
      BY <1>2, <2>2, <2>3, NumbersKept
<1>5. Published'
    BY <1>2, <1>3, PublishedKept DEF IInv, Published, Announced, EnsureIndexes
<1> QED
    BY <1>3, <1>4, <1>5 DEF IInv

LEMMA EnsureSeqConversationKeeps ==
    ASSUME IInv, NEW w \in Workers, EnsureSeqConversation(w)
    PROVE  IInv'
<1>0. pc[w] = "conv" /\ call[w] \in Calls /\ call[w].seq = 0
    BY CallIsTyped DEF IInv, EnsureSeqConversation, At, Numbers, Early
<1>1. DataType' /\ CountType'
    BY TypeWhole, FaultType DEF IInv, DataType, CountType, EnsureSeqConversation, disk
<1>2. PICK k \in Calls : call' = [call EXCEPT ![w] = k] /\ k.seq = 0
  <2>1. CASE UNCHANGED call
    <3>1. call' = [call EXCEPT ![w] = call[w]]
        BY <2>1, TypeParts DEF IInv, WorkerType
    <3> QED
        BY <1>0, <3>1
  <2>2. CASE call' = [call EXCEPT ![w].conv = Conv]
    <3>1. [call[w] EXCEPT !.conv = Conv] \in Calls /\ [call[w] EXCEPT !.conv = Conv].seq = 0
        BY <1>0 DEF Calls, Convs
    <3> QED
        BY <2>2, <3>1
  <2> QED
      BY <2>1, <2>2 DEF EnsureSeqConversation
<1>3. Goto(w, "malloc") /\ "malloc" \in Steps
    BY DEF EnsureSeqConversation, Steps
<1>4. WorkerType' /\ Stays(w) /\ pc'[w] = "malloc" /\ call'[w] = k
    BY <1>2, <1>3, MoveType, TypeParts DEF IInv, Stays
<1> QED
    BY <1>1, <1>2, <1>4, QuietStep DEF EnsureSeqConversation, disk, KeepsNumber

LEMMA MallocKeeps == ASSUME IInv, NEW w \in Workers, Malloc(w) PROVE IInv'
<1>0. pc[w] = "malloc" /\ call[w] \in Calls /\ call[w].seq = 0 /\ call[w].conv \in Convs
    BY CallIsTyped DEF IInv, Malloc, At, Numbers, Early
<1>1. Goto(w, "count") /\ "count" \in Steps
    BY DEF Malloc, Steps
<1>2. CASE Fault /\ UNCHANGED <<taken, call>>
  <2>1. DataType' /\ CountType'
      BY <1>2, TypeWhole, FaultType DEF IInv, DataType, CountType, Malloc
  <2>2. Continue(w, "count")
      BY <1>1, <1>2 DEF Continue
  <2>3. WorkerType' /\ Stays(w) /\ pc'[w] = "count" /\ call'[w] = call[w]
      BY <1>0, <1>1, <2>2, ContinueType, TypeParts DEF IInv, Stays
  <2> QED
      BY <1>0, <1>2, <2>1, <2>3, QuietStep DEF Malloc, KeepsNumber
<1>3. ASSUME NEW n \in (1 .. MaxSeq) \ taken[call[w].conv], NoFault,
             taken' = [taken EXCEPT ![call[w].conv] = @ \cup {n}],
             call' = [call EXCEPT ![w].seq = n]
      PROVE  IInv'
  <2> DEFINE k == [call[w] EXCEPT !.seq = n]
  <2>1. k \in Calls /\ k.conv = call[w].conv /\ k.seq = n
      BY <1>0, BoundsAssumption DEF Calls
  <2>2. call' = [call EXCEPT ![w] = k]
      BY <1>3
  <2> HIDE DEF k
  <2>3. WorkerType' /\ Stays(w) /\ pc'[w] = "count" /\ call'[w] = k
      BY <1>1, <2>1, <2>2, MoveType, TypeParts DEF IInv, Stays
  <2>4. CountType'
      BY <1>3, TypeWhole, FaultType DEF IInv, CountType, Malloc
  <2>5. taken' \in [Convs -> SUBSET (1 .. MaxSeq)]
      BY <1>0, <1>3 DEF IInv, TypeOK
  <2>6. DataType'
      BY <2>5, TypeWhole DEF IInv, DataType, Malloc
  <2>7. TypeOK' /\ SomeoneLeft'
      BY <2>3, <2>4, <2>6, TypesFollow
  <2>8. Numbers'
      BY <1>0, <1>3, <2>1, <2>3, <2>7, NumbersTaken DEF Malloc
  <2>9. Published'
      BY <2>3, <2>7, PublishedKept DEF IInv, Published, Announced, Malloc
  <2> QED
      BY <2>7, <2>8, <2>9 DEF IInv
<1> QED
    BY <1>2, <1>3 DEF Malloc

LEMMA CountSidesKeeps == ASSUME IInv, NEW w \in Workers, CountSides(w) PROVE IInv'
<1>0. pc[w] = "count" /\ call[w] \in Calls
    BY CallIsTyped DEF IInv, CountSides, At
<1>1. DataType' /\ CountType'
    BY TypeWhole, FaultType DEF IInv, DataType, CountType, CountSides, disk
<1>2. PICK s, t \in Sides : call' = [call EXCEPT ![w].todo = <<s, t>>]
    BY DEF CountSides
<1> DEFINE k == [call[w] EXCEPT !.todo = <<s, t>>]
<1>3. k \in Calls /\ k.conv = call[w].conv /\ k.seq = call[w].seq /\ k.todo # <<>>
    BY <1>0 DEF Calls
<1>4. call' = [call EXCEPT ![w] = k]
    BY <1>2
<1> HIDE DEF k
<1>5. PICK l \in {"upsert", "both", "insert"} : Goto(w, l)
    BY DEF CountSides
<1>8. l \in Steps /\ WorkerType
    BY TypeParts DEF IInv, Steps
<1>6. WorkerType' /\ Stays(w) /\ pc'[w] = l /\ call'[w] = k
    BY <1>3, <1>4, <1>5, <1>8, MoveType DEF Stays
<1>7. KeepsNumber(w)
    BY <1>0, <1>3, <1>6 DEF KeepsNumber, Early, Unstored
<1> QED
    BY <1>1, <1>3, <1>6, <1>7, QuietStep DEF CountSides, disk

\* A step that leaves the call as it is, or ends it, before the insert.
LEMMA CallStep ==
    ASSUME IInv, NEW w \in Workers, pc[w] \in Unstored \ Early, DataType', CountType',
           UNCHANGED <<indexed, taken, stored, maxSeq, frames, acked>>,
           \/ End(w)
           \/ Continue(w, "insert")
           \/ pc[w] = "upsert" /\ Continue(w, "raise")
    PROVE  IInv'
<1>0. pc[w] # "idle" /\ WorkerType /\ {"insert", "raise"} \subseteq Steps
    BY TypeParts DEF IInv, Steps, Unstored, Early
<1>1. CASE End(w)
    BY <1>0, <1>1, EndType, QuietStep DEF Stays, KeepsNumber
<1>2. ASSUME NEW l \in {"insert", "raise"}, Continue(w, l), l = "raise" => pc[w] = "upsert"
      PROVE  IInv'
  <2>1. WorkerType' /\ Stays(w) /\ pc'[w] = l /\ call'[w] = call[w]
      BY <1>0, <1>2, ContinueType DEF Stays
  <2>2. KeepsNumber(w)
      BY <1>0, <2>1 DEF KeepsNumber, Early
  <2>3. l = "raise" => call[w].todo # <<>>
      BY <1>2 DEF IInv, SomeoneLeft
  <2> QED
      BY <2>1, <2>2, <2>3, QuietStep
<1> QED
    BY <1>1, <1>2

LEMMA UpdateBothKeeps == ASSUME IInv, NEW w \in Workers, UpdateBoth(w) PROVE IInv'
<1>1. pc[w] = "both" /\ call[w].conv \in Convs /\ call[w].seq \in 0 .. MaxSeq
    BY CallIsTyped DEF IInv, UpdateBoth, At
<1>2. shadow' \in [Convs -> [Sides -> (0 .. MaxSeq) \cup {None}]]
    BY <1>1, RaiseType DEF IInv, UpdateBoth
<1>3. DataType' /\ CountType'
    BY <1>2, TypeWhole, FaultType DEF IInv, DataType, CountType, UpdateBoth
<1> QED
    BY <1>1, <1>3, CallStep DEF UpdateBoth, Unstored, Early

\* The owner is done with, or is found.
LEMMA SideStep ==
    ASSUME IInv, NEW w \in Workers, pc[w] \in {"upsert", "raise"}, SideDone(w),
           shadow' \in [Convs -> [Sides -> (0 .. MaxSeq) \cup {None}]],
           UNCHANGED <<indexed, taken, stored, maxSeq, frames, acked, deliveries, faults>>
    PROVE  IInv'
<1>1. DataType' /\ CountType'
    BY TypeWhole DEF IInv, DataType, CountType
<1>2. WorkerType' /\ Stays(w)
    BY SideDoneType DEF IInv, Stays
<1>3. /\ pc'[w] \in {"insert", "upsert"}
      /\ pc'[w] = "upsert" => call'[w].todo # <<>>
      /\ call'[w].conv = call[w].conv /\ call'[w].seq = call[w].seq
    BY SideDoneType DEF IInv
<1>4. KeepsNumber(w)
    BY <1>3 DEF KeepsNumber, Unstored, Early
<1> QED
    BY <1>1, <1>2, <1>3, <1>4, QuietStep

LEMMA ZeroType ==
    ASSUME TypeOK, NEW c \in Convs, NEW s \in Sides, shadow' = [shadow EXCEPT ![c][s] = 0]
    PROVE  shadow' \in [Convs -> [Sides -> (0 .. MaxSeq) \cup {None}]]
    BY BoundsAssumption DEF TypeOK

LEMMA UpKeeps ==
    ASSUME IInv, NEW w \in Workers,
           InsertSide(w) \/ FindSide(w) \/ RaiseSide(w) \/ UpFails(w)
    PROVE  IInv'
<1>1. /\ pc[w] \in {"upsert", "raise"} /\ pc[w] # "idle" /\ pc[w] \in Unstored \ Early
    BY DEF InsertSide, FindSide, RaiseSide, UpFails, At, Unstored, Early
<1>2. call[w].conv \in Convs /\ call[w].seq \in 0 .. MaxSeq /\ Owner(w) \in Sides
    BY <1>1, CallIsTyped, TodoType DEF IInv
<1>3. CASE InsertSide(w)
  <2>1. shadow' \in [Convs -> [Sides -> (0 .. MaxSeq) \cup {None}]]
      BY <1>2, <1>3, ZeroType DEF IInv, InsertSide
  <2> QED
      BY <1>1, <1>3, <2>1, SideStep DEF InsertSide
<1>4. CASE FindSide(w)
  <2>1. DataType' /\ CountType'
      BY <1>4, TypeWhole DEF IInv, DataType, CountType, FindSide, disk
  <2> QED
      BY <1>1, <1>4, <2>1, CallStep DEF FindSide, disk, At
<1>5. CASE RaiseSide(w)
  <2>1. shadow' \in [Convs -> [Sides -> (0 .. MaxSeq) \cup {None}]]
      BY <1>2, <1>5, RaiseType DEF IInv, RaiseSide
  <2> QED
      BY <1>1, <1>5, <2>1, SideStep DEF RaiseSide
<1>6. CASE UpFails(w)
  <2>1. shadow' \in [Convs -> [Sides -> (0 .. MaxSeq) \cup {None}]]
    <3>1. \/ UNCHANGED shadow
          \/ shadow' = [shadow EXCEPT ![call[w].conv][Owner(w)] = 0]
          \/ Raise(call[w].conv, {Owner(w)}, call[w].seq)
        BY <1>6 DEF UpFails
    <3> QED
        BY <1>2, <3>1, ZeroType, RaiseType DEF IInv, TypeOK
  <2>2. DataType' /\ CountType'
      BY <1>6, <2>1, TypeWhole, FaultType DEF IInv, DataType, CountType, UpFails
  <2> QED
      BY <1>1, <1>6, <2>2, CallStep DEF UpFails
<1> QED
    BY <1>3, <1>4, <1>5, <1>6

\* The message is in the collection, and the call goes on or was told otherwise.
LEMMA StoredStep ==
    ASSUME IInv, NEW w \in Workers, pc[w] = "insert", ~Rejected(w),
           stored' = stored \cup {Record(w)},
           Continue(w, "max") \/ End(w), faults' \in 0 .. MaxFaults,
           UNCHANGED <<indexed, taken, maxSeq, shadow, frames, acked, deliveries>>
    PROVE  IInv'
<1>0. pc[w] # "idle" /\ WorkerType /\ "max" \in Steps
    BY TypeParts DEF IInv, Steps
<1>1. DataType' /\ CountType'
    BY <1>0, TypeWhole, RecordType DEF IInv, DataType, CountType
<1>2. /\ WorkerType' /\ Stays(w)
      /\ pc'[w] = "idle" \/ (pc'[w] = "max" /\ call'[w] = call[w])
    BY <1>0, ContinueType, EndType DEF Stays
<1>3. TypeOK' /\ SomeoneLeft'
    BY <1>1, <1>2, TypesFollow
<1>4. Numbers'
    BY <1>2, NumbersStored
<1>5. pc'[w] = "max" => Record(w)' \in stored'
    BY <1>2 DEF Record
<1>6. Published'
    BY <1>2, <1>3, <1>5, PublishedKept DEF IInv, Published, Announced
<1> QED
    BY <1>3, <1>4, <1>6 DEF IInv

LEMMA InsertKeeps ==
    ASSUME IInv, NEW w \in Workers, InsertMessage(w) \/ InsertFails(w)
    PROVE  IInv'
<1>0. pc[w] = "insert" /\ pc[w] \in Unstored \ Early
    BY DEF InsertMessage, InsertFails, At, Unstored, Early
<1>1. faults' \in 0 .. MaxFaults
    BY FaultType DEF IInv, InsertMessage, InsertFails, NoFault
<1>2. CASE InsertMessage(w)
    BY <1>0, <1>1, <1>2, StoredStep DEF InsertMessage
<1>3. CASE InsertFails(w) /\ UNCHANGED stored
  <2>1. DataType' /\ CountType'
      BY <1>1, <1>3, TypeWhole DEF IInv, DataType, CountType, InsertFails
  <2> QED
      BY <1>0, <1>3, <2>1, CallStep DEF InsertFails
<1>4. CASE InsertFails(w) /\ ~Rejected(w) /\ stored' = stored \cup {Record(w)}
    BY <1>0, <1>1, <1>4, StoredStep DEF InsertFails
<1> QED
    BY <1>2, <1>3, <1>4 DEF InsertFails

\* A call past the insert goes on or ends: its number no longer matters.
LEMMA LateStep ==
    ASSUME IInv, NEW w \in Workers, pc[w] \in {"max", "data"}, NEW l \in {"data", "deliver"},
           Continue(w, l) \/ End(w), faults' \in 0 .. MaxFaults,
           frames' \subseteq [kind : Kinds, msg : Msgs, numbered : BOOLEAN],
           maxSeq' \in [Convs -> 0 .. MaxSeq],
           UNCHANGED <<indexed, taken, stored, shadow, acked, deliveries>>
    PROVE  /\ TypeOK' /\ SomeoneLeft' /\ Numbers' /\ Stays(w)
           /\ pc'[w] = "idle" \/ (pc'[w] = l /\ call'[w] = call[w] /\ Continue(w, l))
<1>0. pc[w] # "idle" /\ WorkerType /\ l \in Steps
    BY TypeParts DEF IInv, Steps
<1>1. DataType' /\ CountType'
    BY TypeWhole DEF IInv, DataType, CountType
<1>2. /\ WorkerType' /\ Stays(w)
      /\ pc'[w] = "idle" \/ (pc'[w] = l /\ call'[w] = call[w] /\ Continue(w, l))
    BY <1>0, ContinueType, EndType DEF Stays
<1>3. KeepsNumber(w)
    BY <1>0, <1>2 DEF KeepsNumber, Early, Unstored
<1>4. TypeOK' /\ SomeoneLeft'
    BY <1>1, <1>2, TypesFollow
<1>5. Numbers'
    BY <1>2, <1>3, NumbersKept
<1> QED
    BY <1>2, <1>4, <1>5

LEMMA MaxKeeps ==
    ASSUME IInv, NEW w \in Workers, UpdateMaxSeq(w) \/ UpdateMaxSeqFails(w)
    PROVE  IInv'
<1>0. pc[w] = "max" /\ pc[w] # "idle"
    BY DEF UpdateMaxSeq, UpdateMaxSeqFails, At
<1>1. faults' \in 0 .. MaxFaults
    BY FaultType DEF IInv, UpdateMaxSeq, UpdateMaxSeqFails, NoFault
<1>2. CASE Advance(w) /\ (UpdateMaxSeq(w) \/ UpdateMaxSeqFails(w))
  <2>1. maxSeq' \in [Convs -> 0 .. MaxSeq]
      BY <1>0, <1>2, AdvanceType DEF IInv
  <2>2. frames' \subseteq [kind : Kinds, msg : Msgs, numbered : BOOLEAN]
      BY <1>2 DEF IInv, TypeOK, UpdateMaxSeq, UpdateMaxSeqFails
  <2>3. /\ TypeOK' /\ SomeoneLeft' /\ Numbers' /\ Stays(w)
        /\ pc'[w] = "idle" \/ (pc'[w] = "data" /\ call'[w] = call[w])
      BY <1>0, <1>1, <1>2, <2>1, <2>2, LateStep DEF UpdateMaxSeq, UpdateMaxSeqFails
  <2>4. Published'
      BY <1>0, <1>2, <2>3, PublishedRaised DEF UpdateMaxSeq, UpdateMaxSeqFails
  <2> QED
      BY <2>3, <2>4 DEF IInv
<1>3. CASE UpdateMaxSeqFails(w) /\ UNCHANGED maxSeq
  <2>1. /\ maxSeq' \in [Convs -> 0 .. MaxSeq] /\ frames' \subseteq [kind : Kinds, msg : Msgs, numbered : BOOLEAN]
      BY <1>3 DEF IInv, TypeOK, UpdateMaxSeqFails
  <2>2. End(w) /\ pc'[w] = "idle"
      BY <1>3, EndType, TypeParts DEF IInv, UpdateMaxSeqFails
  <2>3. TypeOK' /\ SomeoneLeft' /\ Numbers' /\ Stays(w)
      BY <1>0, <1>1, <1>3, <2>1, <2>2, LateStep DEF UpdateMaxSeqFails
  <2>4. Published'
      BY <1>3, <2>2, <2>3, PublishedKept DEF IInv, Published, Announced, UpdateMaxSeqFails
  <2> QED
      BY <2>3, <2>4 DEF IInv
<1> QED
    BY <1>2, <1>3 DEF UpdateMaxSeq, UpdateMaxSeqFails

LEMMA ProduceKeeps ==
    ASSUME IInv, NEW w \in Workers, ProduceData(w) \/ ProduceDeliver(w) \/ Crash(w)
    PROVE  IInv'
<1>1. CASE ProduceData(w)
  <2>1. pc[w] = "data" /\ pc[w] # "idle" /\ "DATA" \in Kinds /\ Continue(w, "deliver")
      BY <1>1 DEF ProduceData, At, Kinds
  <2>2. frames' \subseteq [kind : Kinds, msg : Msgs, numbered : BOOLEAN] /\ faults' \in 0 .. MaxFaults
      BY <1>1, <2>1, ProduceType DEF IInv, ProduceData
  <2>3. maxSeq' \in [Convs -> 0 .. MaxSeq]
      BY <1>1 DEF IInv, TypeOK, ProduceData, disk
  <2>4. /\ TypeOK' /\ SomeoneLeft' /\ Numbers' /\ Stays(w)
        /\ pc'[w] = "idle" \/ (pc'[w] = "deliver" /\ call'[w] = call[w])
      BY <1>1, <2>1, <2>2, <2>3, LateStep DEF ProduceData, disk
  <2>5. Numbered(w) => call[w].msg \in Readable
      BY <2>1 DEF IInv, Published
  <2>6. Announced' \subseteq Readable
    <3>1. UNCHANGED frames \/ frames' = frames \cup
             {[kind |-> "DATA", msg |-> call[w].msg, numbered |-> Numbered(w)]}
        BY <1>1 DEF ProduceData, Produce
    <3> QED
        BY <1>1, <2>5, <3>1 DEF IInv, Published, Announced, ProduceData
  <2>7. Published'
    <3>1. /\ UNCHANGED <<stored, maxSeq>>
          /\ pc'[w] # "max"
          /\ pc'[w] \in {"data", "deliver"} /\ Numbered(w)' => call'[w].msg \in Readable
        BY <1>1, <2>4, <2>5 DEF ProduceData, disk, Numbered
    <3> QED
        BY <2>4, <2>6, <3>1, PublishedKept
  <2> QED
      BY <2>4, <2>7 DEF IInv
<1>2. CASE ProduceDeliver(w)
  <2>1. pc[w] = "deliver" /\ pc[w] # "idle" /\ "DELIVER" \in Kinds
      BY <1>2 DEF ProduceDeliver, At, Kinds
  <2>2. frames' \subseteq [kind : Kinds, msg : Msgs, numbered : BOOLEAN] /\ faults' \in 0 .. MaxFaults
      BY <1>2, <2>1, ProduceType DEF IInv, ProduceDeliver
  <2>3. (Numbered(w) => call[w].msg \in Readable) /\ call[w].msg \in Msgs
      BY <2>1, CallIsTyped DEF IInv, Published
  <2>4. DataType' /\ CountType'
    <3>1. acked' \subseteq [msg : Msgs, numbered : BOOLEAN]
      <4>1. acked' = acked \cup {[msg |-> call[w].msg, numbered |-> Numbered(w)]}
          BY <1>2 DEF ProduceDeliver
      <4>2. acked \subseteq [msg : Msgs, numbered : BOOLEAN]
          BY DEF IInv, TypeOK
      <4>3. Numbered(w) \in BOOLEAN
          BY NumberedType
      <4> QED
          BY <2>3, <4>1, <4>2, <4>3
    <3>2. UNCHANGED <<disk, deliveries>>
        BY <1>2 DEF ProduceDeliver
    <3> QED
        BY <2>2, <3>1, <3>2, TypeWhole DEF IInv, DataType, CountType, disk
  <2>5. WorkerType' /\ Stays(w) /\ pc'[w] = "idle"
      BY <1>2, EndType, TypeParts DEF IInv, Stays, ProduceDeliver
  <2>6. TypeOK' /\ SomeoneLeft'
      BY <2>4, <2>5, TypesFollow
  <2>7. Numbers'
      BY <1>2, <2>5, NumbersKept DEF KeepsNumber, ProduceDeliver, disk
  <2>8. Announced' \subseteq Readable
    <3>1. /\ acked' = acked \cup {[msg |-> call[w].msg, numbered |-> Numbered(w)]}
          /\ UNCHANGED frames \/ frames' = frames \cup
                {[kind |-> "DELIVER", msg |-> call[w].msg, numbered |-> Numbered(w)]}
        BY <1>2 DEF ProduceDeliver, Produce
    <3> QED
        BY <2>3, <3>1 DEF IInv, Published, Announced
  <2>9. Published'
      BY <1>2, <2>5, <2>6, <2>8, PublishedKept DEF ProduceDeliver, disk
  <2> QED
      BY <2>6, <2>7, <2>9 DEF IInv
<1>3. CASE Crash(w)
  <2>1. DataType' /\ CountType'
      BY <1>3, TypeWhole, FaultType DEF IInv, DataType, CountType, Crash, disk
  <2>2. WorkerType' /\ Stays(w) /\ pc'[w] = "idle"
      BY <1>3, EndType, TypeParts DEF IInv, Stays, Crash
  <2> QED
      BY <1>3, <2>1, <2>2, QuietStep DEF Crash, disk, KeepsNumber
<1> QED
    BY <1>1, <1>2, <1>3

LEMMA StepIInv == IInv /\ [Next]_vars => IInv'
<1> SUFFICES ASSUME IInv, [Next]_vars
             PROVE  IInv'
    OBVIOUS
<1>1. CASE UNCHANGED vars
  <2>1. TypeOK'
      BY <1>1 DEF IInv, vars, disk, TypeOK
  <2>2. SomeoneLeft' /\ Numbers'
      BY <1>1 DEF IInv, vars, disk, SomeoneLeft, Numbers, OneMessagePerSeq, SameSeq
  <2>3. Published'
      BY <1>1 DEF IInv, vars, disk, Published, WatermarkIsStored, Announced, Readable, Record, Numbered
  <2> QED
      BY <2>1, <2>2, <2>3 DEF IInv
<1>2. ASSUME NEW w \in Workers, HandlerTopicMessage(w) PROVE IInv'
    BY <1>2, EnsureIndexesKeeps, EnsureSeqConversationKeeps, MallocKeeps, CountSidesKeeps,
       UpdateBothKeeps, UpKeeps, InsertKeeps, MaxKeeps, ProduceKeeps
    DEF HandlerTopicMessage
<1>3. ASSUME NEW w \in Workers, NEW m \in Msgs, Deliver(w, m) PROVE IInv'
    BY <1>3, DeliverKeeps
<1> QED
    BY <1>1, <1>2, <1>3 DEF Next

-----------------------------------------------------------------------------
(* Theorems *)

\* The inductive invariant of the handler.
THEOREM Inductive == Spec => []IInv
    BY InitIInv, StepIInv, PTL DEF Spec

\* The documents, the frames and the locals of every call keep their types.
THEOREM TypeCorrect == Spec => []TypeOK
<1>1. IInv => TypeOK
    BY DEF IInv
<1> QED
    BY <1>1, Inductive, PTL

\* However many workers insert and fail, the watermark is the number of a message.
THEOREM WatermarkNamesAMessage == Spec => []WatermarkIsStored
<1>1. IInv => WatermarkIsStored
    BY DEF IInv, Published
<1> QED
    BY <1>1, Inductive, PTL

\* Messages share a number only if it is the 0 of a failed Malloc and the index is missing.
THEOREM NumbersAreNotShared == Spec => []OneMessagePerSeq
<1>1. IInv => OneMessagePerSeq
    BY DEF IInv, Numbers
<1> QED
    BY <1>1, Inductive, PTL

\* Every step of a worker is a step of the message log, or none.
LEMMA StepImplements == IInv /\ IInv' /\ [Next]_vars => [Log!Next]_(Log!vars)
<1> SUFFICES ASSUME IInv, IInv', [Next]_vars
             PROVE  [Log!Next]_(Log!vars)
    OBVIOUS
<1> USE DEF Log!vars
<1>1. CASE UNCHANGED vars
    BY <1>1 DEF vars, disk, Announced, Readable
<1>2. ASSUME UNCHANGED <<frames, acked>>, stored \subseteq stored',
             \A c \in Convs : maxSeq[c] <= maxSeq'[c]
      PROVE  Log!Next
    BY <1>2, ReadableGrows DEF IInv, Announced, Log!Next, Log!Publish
<1>3. ASSUME UNCHANGED <<frames, acked, stored, maxSeq>>
      PROVE  UNCHANGED Log!vars
    BY <1>3 DEF Announced, Readable
<1>4. ASSUME NEW w \in Workers, NEW m \in Msgs, Deliver(w, m)
      PROVE  UNCHANGED Log!vars
    BY <1>3, <1>4 DEF Deliver, disk
<1>5. ASSUME NEW w \in Workers,
             \/ EnsureIndexes(w) \/ EnsureSeqConversation(w) \/ Malloc(w) \/ CountSides(w)
             \/ UpdateBoth(w) \/ InsertSide(w) \/ FindSide(w) \/ RaiseSide(w) \/ UpFails(w)
             \/ Crash(w)
      PROVE  UNCHANGED Log!vars
    BY <1>3, <1>5 DEF EnsureIndexes, EnsureSeqConversation, Malloc, CountSides, UpdateBoth,
                      InsertSide, FindSide, RaiseSide, UpFails, Crash, disk
<1>6. ASSUME NEW w \in Workers, InsertMessage(w) \/ InsertFails(w)
      PROVE  Log!Next
  <2>1. /\ UNCHANGED <<frames, acked, maxSeq>> /\ stored \subseteq stored'
      BY <1>6 DEF InsertMessage, InsertFails
  <2>2. \A c \in Convs : maxSeq[c] <= maxSeq'[c]
      BY <2>1, BoundsAssumption DEF IInv, TypeOK
  <2> QED
      BY <1>2, <2>1, <2>2
<1>7. ASSUME NEW w \in Workers, UpdateMaxSeq(w) \/ UpdateMaxSeqFails(w)
      PROVE  Log!Next
  <2>1. UNCHANGED <<frames, acked, stored>> /\ pc[w] # "idle"
      BY <1>7 DEF UpdateMaxSeq, UpdateMaxSeqFails, At
  <2>2. \A c \in Convs : maxSeq[c] <= maxSeq'[c]
    <3>1. CASE Advance(w)
        BY <2>1, <3>1, AdvanceType DEF IInv
    <3>2. CASE UNCHANGED maxSeq
        BY <3>2, BoundsAssumption DEF IInv, TypeOK
    <3> QED
        BY <1>7, <3>1, <3>2 DEF UpdateMaxSeq, UpdateMaxSeqFails
  <2> QED
      BY <1>2, <2>1, <2>2
<1>8. ASSUME NEW w \in Workers, ProduceData(w) \/ ProduceDeliver(w)
      PROVE  [Log!Next]_(Log!vars)
  <2>1. /\ Readable' = Readable
        /\ Announced' = Announced \/ (Numbered(w) /\ Announced' = Announced \cup {call[w].msg})
      BY <1>8 DEF ProduceData, ProduceDeliver, Produce, disk, Readable, Announced
  <2>2. (Numbered(w) => call[w].msg \in Readable) /\ call[w].msg \in Msgs
      BY <1>8, CallIsTyped DEF IInv, Published, ProduceData, ProduceDeliver, At
  <2> QED
      BY <2>1, <2>2 DEF Log!Next, Log!Announce
<1> QED
    BY <1>1, <1>4, <1>5, <1>6, <1>7, <1>8 DEF Next, HandlerTopicMessage

\* The handler implements the message log: nothing is announced before it is readable,
\* and what is readable stays so.
THEOREM ImplementsLog == Spec => LogSpec
<1>1. Init => Log!Init
    BY DEF Init, Log!Init, Announced, Readable
<1> QED
    BY <1>1, Inductive, StepImplements, PTL DEF Spec, LogSpec, Log!Spec

=============================================================================
