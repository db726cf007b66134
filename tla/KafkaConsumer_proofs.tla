------------------------ MODULE KafkaConsumer_proofs ------------------------
(***************************************************************************)
(* Proofs about KafkaConsumer for every log length, pool size and channel  *)
(* capacity.  Three layers, each inductive relative to the ones before it: *)
(* TypeOK, the commit window (WindowInv) and the slot accounting           *)
(* (SlotInv).                                                              *)
(***************************************************************************)
EXTENDS KafkaConsumer, FiniteSetTheorems, TLAPS

Holding == main \in {"slot", "submit", "nack"}

(***************************************************************************)
(* Lemmas on the operators.                                                *)
(***************************************************************************)

\* Marking at a position keeps it inside the log's positions.
LEMMA RaisePosition ==
    ASSUME NEW m \in Positions, NEW t \in Positions
    PROVE  /\ Raise(m, t) \in Positions
           /\ Raise(m, t) \in {m, t}
    BY DEF Raise

\* Appending an ack to the channel: what it holds afterwards.
LEMMA AppendAck ==
    ASSUME NEW s \in Seq(Ack), NEW a \in Ack
    PROVE  /\ Append(s, a) \in Seq(Ack)
           /\ Len(Append(s, a)) = Len(s) + 1
           /\ \A i \in 1 .. Len(s) : Append(s, a)[i] = s[i]
           /\ Append(s, a)[Len(s) + 1] = a
    OBVIOUS

\* Receiving from the channel: the acks left are those behind the first.
LEMMA TailAck ==
    ASSUME NEW s \in Seq(Ack), s # <<>>
    PROVE  /\ Tail(s) \in Seq(Ack)
           /\ Len(Tail(s)) = Len(s) - 1
           /\ Head(s) \in Ack
           /\ Head(s) = s[1]
           /\ Len(s) \in Nat \ {0}
           /\ \A i \in 1 .. Len(s) - 1 : Tail(s)[i] = s[i + 1]
    OBVIOUS

(***************************************************************************)
(* Type correctness.  InflightCap bounds inflight only because a token is  *)
(* taken under the guard, so the range of inflight from below needs the    *)
(* slot accounting; TypeCore leaves it an integer.                         *)
(***************************************************************************)
TypeCore ==
    /\ end \in 0 .. LogSize
    /\ committed \in Positions
    /\ claims \in 0 .. MaxClaims
    /\ registered \in BOOLEAN
    /\ main \in {"idle", "select", "slot", "submit", "nack", "advance"}
    /\ cur \in Offsets \cup {NoOffset}
    /\ Holding => cur \in Offsets
    /\ pos \in 0 .. LogSize
    /\ first \in 0 .. LogSize
    /\ next \in Positions
    /\ pendingOK \in SUBSET Offsets
    /\ ackC \in Seq(Ack)
    /\ Len(ackC) <= AckCap
    /\ inflight \in Int
    /\ inflight <= InflightCap
    /\ running \in SUBSET Offsets
    /\ acking \in SUBSET Ack
    /\ marked \in Positions
    /\ revoked \in BOOLEAN
    /\ succeeded \in SUBSET Offsets
    /\ handled \in SUBSET Offsets

LEMMA TypeCoreInit == Init => TypeCore
<1> SUFFICES ASSUME Init
             PROVE  TypeCore
    OBVIOUS
<1>1. /\ end \in 0 .. LogSize /\ pos \in 0 .. LogSize /\ first \in 0 .. LogSize
      /\ claims \in 0 .. MaxClaims /\ inflight \in Int /\ inflight <= InflightCap
    BY BoundsAssumption, CapAssumption DEF Init
<1>2. /\ committed \in Positions /\ next \in Positions /\ marked \in Positions
    BY BoundsAssumption, StartAssumption DEF Init, Positions, NoOffset
<1>3. ackC \in Seq(Ack) /\ Len(ackC) <= AckCap
    BY CapAssumption DEF Init
<1>. QED
    BY <1>1, <1>2, <1>3 DEF Init, TypeCore, Holding

LEMMA TypeCoreStep == TypeCore /\ [Next]_vars => TypeCore'
<1> SUFFICES ASSUME TypeCore, [Next]_vars
             PROVE  TypeCore'
    OBVIOUS
<1> USE BoundsAssumption, CapAssumption, StartAssumption
    DEF TypeCore, Positions, Offsets, NoOffset, Holding
<1>1. CASE Produce
    BY <1>1 DEF Produce, claimVars
<1>2. CASE StartClaim
    <2>1. pos' \in 0 .. LogSize /\ first' \in 0 .. LogSize
        BY <1>2 DEF StartClaim
    <2>2. claims' \in 0 .. MaxClaims
        BY <1>2 DEF StartClaim
    <2>3. next' \in Positions /\ marked' \in Positions
        BY <1>2 DEF StartClaim
    <2>. QED
        BY <1>2, <2>1, <2>2, <2>3 DEF StartClaim
<1>3. CASE Take
    BY <1>3 DEF Take, claimVars
<1>4. CASE AcquireSlot
    BY <1>4 DEF AcquireSlot
<1>5. CASE Submit
    BY <1>5 DEF Submit
<1>6. CASE SubmitFails
    BY <1>6 DEF SubmitFails
<1>7. CASE SendNack
    <2> DEFINE a == [off |-> cur, ok |-> FALSE]
    <2>1. a \in Ack
        BY <1>7 DEF SendNack, Ack
    <2>2. Append(ackC, a) \in Seq(Ack) /\ Len(Append(ackC, a)) = Len(ackC) + 1
        BY <2>1, AppendAck
    <2>. QED
        BY <1>7, <2>2 DEF SendNack
<1>8. ASSUME NEW o \in Offsets, NEW ok \in BOOLEAN, HandlerReturns(o, ok)
      PROVE  TypeCore'
    BY <1>8 DEF HandlerReturns, Ack
<1>9. ASSUME NEW o \in Offsets, HandlerPanics(o)
      PROVE  TypeCore'
    BY <1>9 DEF HandlerPanics
<1>10. ASSUME NEW a \in Ack, WorkerAcks(a)
       PROVE  TypeCore'
    <2>1. Append(ackC, a) \in Seq(Ack) /\ Len(Append(ackC, a)) = Len(ackC) + 1
        BY AppendAck
    <2>. QED
        BY <1>10, <2>1 DEF WorkerAcks
<1>11. CASE ReceiveAck
    <2>1. /\ Tail(ackC) \in Seq(Ack) /\ Len(Tail(ackC)) = Len(ackC) - 1
          /\ Head(ackC) \in Ack /\ Len(ackC) \in Nat
        BY <1>11, TailAck DEF ReceiveAck
    <2>2. Head(ackC).off \in Offsets
        BY <2>1 DEF Ack
    <2>3. pendingOK' \in SUBSET Offsets
        BY <1>11, <2>2 DEF ReceiveAck
    <2>4. ackC' \in Seq(Ack) /\ Len(ackC') <= AckCap
        BY <1>11, <2>1 DEF ReceiveAck
    <2>5. main' \in {"select", "advance"}
        BY <1>11 DEF ReceiveAck
    <2>. QED
        BY <1>11, <2>3, <2>4, <2>5 DEF ReceiveAck
<1>12. CASE Advance
    <2>1. CASE next \in pendingOK
        <3>1. next + 1 \in Positions
            BY <2>1
        <3>2. Raise(marked, next + 1) \in Positions
            BY <3>1, RaisePosition
        <3>. QED
            BY <1>12, <2>1, <3>1, <3>2 DEF Advance
    <2>2. CASE next \notin pendingOK
        BY <1>12, <2>2 DEF Advance
    <2>. QED
        BY <2>1, <2>2
<1>13. CASE AutoCommit
    BY <1>13, RaisePosition DEF AutoCommit, claimVars
<1>14. CASE Revoke
    BY <1>14 DEF Revoke, claimVars
<1>15. CASE Leave
    <2>1. Raise(committed, marked) \in Positions
        BY RaisePosition
    <2>. QED
        BY <1>15, <2>1 DEF Leave, ForgetClaim
<1>16. CASE Crash
    BY <1>16 DEF Crash, ForgetClaim
<1>17. CASE UNCHANGED vars
    BY <1>17 DEF vars, claimVars
<1>. QED
    BY <1>1, <1>2, <1>3, <1>4, <1>5, <1>6, <1>7, <1>8, <1>9, <1>10, <1>11,
       <1>12, <1>13, <1>14, <1>15, <1>16, <1>17 DEF Next

(***************************************************************************)
(* The commit window.  A claim that has a position keeps next = marked,    *)
(* everything from first to next succeeded, and whatever waits behind a    *)
(* gap (in pendingOK, in the channel or in a worker) succeeded too.  For   *)
(* the broker's commit the window of the earlier claims is carried along:  *)
(* every offset below first was handled before this claim began.           *)
(***************************************************************************)
Below(p) == IF StartCommitted = NoOffset THEN {} ELSE StartCommitted .. p - 1

ClaimWindow ==
    /\ next = marked
    /\ next # NoOffset => /\ first <= next
                          /\ \A o \in first .. next - 1 : o \in succeeded
    /\ pendingOK \subseteq succeeded
    /\ \A a \in acking : a.ok => a.off \in succeeded
    /\ \A i \in 1 .. Len(ackC) : ackC[i].ok => ackC[i].off \in succeeded
    /\ succeeded \subseteq handled
    /\ \A o \in Below(first) : o \in handled
    /\ StartCommitted # NoOffset => next # NoOffset

WindowInv ==
    /\ Open => ClaimWindow
    /\ ~Open => pendingOK = {} /\ ackC = <<>> /\ acking = {} /\ running = {}
                /\ succeeded = {} /\ inflight = 0
    /\ StartCommitted # NoOffset => committed # NoOffset
    /\ \A o \in Below(committed) : o \in handled

\* What the window says of the offsets a mark would cover.
LEMMA MarkedHandled ==
    ASSUME TypeCore, ClaimWindow
    PROVE  \A o \in Below(marked) : o \in handled
<1> SUFFICES ASSUME NEW o \in Below(marked), o \notin handled
             PROVE  FALSE
    OBVIOUS
<1> USE StartAssumption, BoundsAssumption DEF TypeCore, ClaimWindow, Below, Positions, NoOffset
<1>1. StartCommitted # NoOffset /\ o \in StartCommitted .. marked - 1
    OBVIOUS
<1>2. CASE o < first
    BY <1>1, <1>2
<1>3. CASE o >= first
    <2>1. o \in first .. next - 1
        BY <1>1, <1>3
    <2>. QED
        BY <2>1
<1>. QED
    BY <1>1, <1>2, <1>3

LEMMA WindowInit == Init => WindowInv
    BY StartAssumption DEF Init, WindowInv, Open, Below, NoOffset

LEMMA WindowStep == TypeCore /\ WindowInv /\ [Next]_vars => WindowInv'
<1> SUFFICES ASSUME TypeCore, WindowInv, [Next]_vars
             PROVE  WindowInv'
    OBVIOUS
<1> USE BoundsAssumption, CapAssumption, StartAssumption DEF NoOffset
<1>1. CASE Produce
    BY <1>1 DEF Produce, claimVars, WindowInv, ClaimWindow, Open, Below
<1>2. CASE StartClaim
    <2>1. /\ pendingOK = {} /\ ackC = <<>> /\ acking = {} /\ succeeded = {}
        BY <1>2 DEF StartClaim, WindowInv, Open
    <2>2. committed # NoOffset => first' = committed
        BY <1>2 DEF StartClaim
    <2>3. \A o \in Below(first') : o \in handled
        BY <2>2 DEF WindowInv, Below
    <2>4. ClaimWindow'
        BY <1>2, <2>1, <2>2, <2>3 DEF StartClaim, WindowInv, ClaimWindow, Below, TypeCore, Positions
    <2>. QED
        BY <1>2, <2>4 DEF StartClaim, WindowInv, Open, Below
<1>3. CASE Take
    BY <1>3 DEF Take, claimVars, WindowInv, ClaimWindow, Open, Below
<1>4. CASE AcquireSlot
    BY <1>4 DEF AcquireSlot, WindowInv, ClaimWindow, Open, Below
<1>5. CASE Submit
    BY <1>5 DEF Submit, WindowInv, ClaimWindow, Open, Below
<1>6. CASE SubmitFails
    BY <1>6 DEF SubmitFails, WindowInv, ClaimWindow, Open, Below
<1>7. CASE SendNack
    <2> DEFINE a == [off |-> cur, ok |-> FALSE]
    <2>1. a \in Ack /\ a.ok = FALSE
        BY <1>7 DEF SendNack, TypeCore, Holding, Ack
    <2>2. /\ Len(ackC') = Len(ackC) + 1 /\ Len(ackC) \in Nat
          /\ \A i \in 1 .. Len(ackC) : ackC'[i] = ackC[i]
          /\ ackC'[Len(ackC) + 1] = a
        BY <1>7, <2>1, AppendAck DEF SendNack, TypeCore
    <2>3. \A i \in 1 .. Len(ackC') : ackC'[i].ok => ackC'[i].off \in succeeded
        BY <1>7, <2>1, <2>2 DEF SendNack, WindowInv, ClaimWindow, Open
    <2>. QED
        BY <1>7, <2>3 DEF SendNack, WindowInv, ClaimWindow, Open, Below
<1>8. ASSUME NEW o \in Offsets, NEW ok \in BOOLEAN, HandlerReturns(o, ok)
      PROVE  WindowInv'
    <2>1. Open
        BY <1>8 DEF HandlerReturns, WindowInv
    <2>2. /\ succeeded \subseteq succeeded' /\ handled \subseteq handled'
          /\ succeeded' \subseteq handled'
        BY <1>8, <2>1 DEF HandlerReturns, WindowInv, ClaimWindow
    <2>3. \A a \in acking' : a.ok => a.off \in succeeded'
        BY <1>8, <2>1 DEF HandlerReturns, WindowInv, ClaimWindow
    <2>4. ClaimWindow'
        BY <1>8, <2>1, <2>2, <2>3 DEF HandlerReturns, WindowInv, ClaimWindow, Below
    <2>. QED
        BY <1>8, <2>1, <2>2, <2>4 DEF HandlerReturns, WindowInv, Open, Below
<1>9. ASSUME NEW o \in Offsets, HandlerPanics(o)
      PROVE  WindowInv'
    BY <1>9 DEF HandlerPanics, WindowInv, ClaimWindow, Open, Below
<1>10. ASSUME NEW a \in Ack, WorkerAcks(a)
       PROVE  WindowInv'
    <2>1. Open
        BY <1>10 DEF WorkerAcks, WindowInv
    <2>2. /\ Len(ackC') = Len(ackC) + 1 /\ Len(ackC) \in Nat
          /\ \A i \in 1 .. Len(ackC) : ackC'[i] = ackC[i]
          /\ ackC'[Len(ackC) + 1] = a
        BY <1>10, AppendAck DEF WorkerAcks, TypeCore
    <2>3. a.ok => a.off \in succeeded
        BY <1>10, <2>1 DEF WorkerAcks, WindowInv, ClaimWindow
    <2>4. \A i \in 1 .. Len(ackC') : ackC'[i].ok => ackC'[i].off \in succeeded
        BY <2>1, <2>2, <2>3 DEF WindowInv, ClaimWindow
    <2>. QED
        BY <1>10, <2>1, <2>4 DEF WorkerAcks, WindowInv, ClaimWindow, Open, Below
<1>11. CASE ReceiveAck
    <2>1. Open
        BY <1>11 DEF ReceiveAck, Open
    <2>2. /\ Head(ackC) = ackC[1] /\ Len(ackC) \in Nat \ {0}
          /\ Len(Tail(ackC)) = Len(ackC) - 1
          /\ \A i \in 1 .. Len(ackC) - 1 : Tail(ackC)[i] = ackC[i + 1]
        BY <1>11, TailAck DEF ReceiveAck, TypeCore
    <2>3. Head(ackC).ok => Head(ackC).off \in succeeded
        BY <2>1, <2>2 DEF WindowInv, ClaimWindow
    <2>4. \A i \in 1 .. Len(Tail(ackC)) : Tail(ackC)[i].ok => Tail(ackC)[i].off \in succeeded
        BY <2>1, <2>2 DEF WindowInv, ClaimWindow
    <2>5. pendingOK' \subseteq succeeded
        BY <1>11, <2>1, <2>3 DEF ReceiveAck, WindowInv, ClaimWindow
    <2>6. main' # "idle"
        BY <1>11 DEF ReceiveAck
    <2>. QED
        BY <1>11, <2>1, <2>4, <2>5, <2>6 DEF ReceiveAck, WindowInv, ClaimWindow, Open, Below
<1>12. CASE Advance
    <2>1. Open /\ main' # "idle"
        BY <1>12 DEF Advance, Open
    <2>2. CASE next \in pendingOK
        <3>1. next \in Offsets /\ next \in succeeded /\ next = marked
            BY <2>1, <2>2 DEF WindowInv, ClaimWindow, TypeCore
        <3>2. next \in Nat /\ next # NoOffset /\ first \in Int
            BY <3>1 DEF Offsets, TypeCore
        <3>3. marked' = next + 1 /\ next' = next + 1
            BY <1>12, <2>2, <3>1, <3>2 DEF Advance, Raise
        <3>4. first <= next /\ \A o \in first .. next - 1 : o \in succeeded
            BY <2>1, <3>2 DEF WindowInv, ClaimWindow
        <3>5. \A o \in first .. next : o \in succeeded
            BY <3>1, <3>2, <3>4
        <3>6. /\ next' = marked' /\ next' # NoOffset /\ first <= next'
              /\ \A o \in first .. next' - 1 : o \in succeeded
            BY <3>2, <3>3, <3>4, <3>5
        <3>7. /\ pendingOK' \subseteq pendingOK
              /\ UNCHANGED <<first, ackC, acking, succeeded, handled, committed>>
            BY <1>12, <2>2 DEF Advance
        <3>8. ClaimWindow'
            BY <2>1, <3>6, <3>7 DEF WindowInv, ClaimWindow, Below
        <3>. QED
            BY <2>1, <3>7, <3>8 DEF WindowInv, Open, Below
    <2>3. CASE next \notin pendingOK
        BY <1>12, <2>1, <2>3 DEF Advance, WindowInv, ClaimWindow, Open, Below
    <2>. QED
        BY <2>2, <2>3
<1>13. CASE AutoCommit
    <2>1. Open /\ ClaimWindow
        BY <1>13 DEF AutoCommit, WindowInv
    <2>2. committed' \in {committed, marked} /\ UNCHANGED handled
        BY <1>13, RaisePosition DEF AutoCommit, TypeCore
    <2>3. \A o \in Below(committed') : o \in handled
        BY <2>1, <2>2, MarkedHandled DEF WindowInv
    <2>4. ClaimWindow'
        BY <1>13, <2>1 DEF AutoCommit, claimVars, ClaimWindow, Below
    <2>5. StartCommitted # NoOffset => committed' # NoOffset
        BY <2>1, <2>2 DEF WindowInv, ClaimWindow
    <2>. QED
        BY <1>13, <2>1, <2>2, <2>3, <2>4, <2>5 DEF AutoCommit, WindowInv, Open, Below
<1>14. CASE Revoke
    BY <1>14 DEF Revoke, claimVars, WindowInv, ClaimWindow, Open, Below
<1>15. CASE Leave
    <2>1. ClaimWindow
        BY <1>15 DEF Leave, WindowInv, Open
    <2>2. committed' \in {committed, marked} /\ UNCHANGED handled
        BY <1>15, RaisePosition DEF Leave, ForgetClaim, TypeCore
    <2>3. \A o \in Below(committed') : o \in handled
        BY <2>1, <2>2, MarkedHandled DEF WindowInv
    <2>4. StartCommitted # NoOffset => committed' # NoOffset
        BY <2>1, <2>2 DEF WindowInv, ClaimWindow
    <2>. QED
        BY <1>15, <2>2, <2>3, <2>4 DEF Leave, ForgetClaim, WindowInv, Open, Below
<1>16. CASE Crash
    BY <1>16 DEF Crash, ForgetClaim, WindowInv, Open, Below
<1>17. CASE UNCHANGED vars
    BY <1>17 DEF vars, claimVars, WindowInv, ClaimWindow, Open, Below
<1>. QED
    BY <1>1, <1>2, <1>3, <1>4, <1>5, <1>6, <1>7, <1>8, <1>9, <1>10, <1>11,
       <1>12, <1>13, <1>14, <1>15, <1>16, <1>17 DEF Next

(***************************************************************************)
(* Slot accounting.  Tokens are exactly the workers plus the one the main  *)
(* loop carries into Submit; for the count to move by one with each task,  *)
(* a task must be in one place at a time, which the delivery order gives.  *)
(***************************************************************************)
Delivered ==
    /\ \A o \in running : o < pos
    /\ \A a \in acking : a.off < pos /\ a.off \notin running
    /\ Holding => /\ cur < pos
                  /\ cur \notin running
                  /\ \A a \in acking : a.off # cur

SlotInv ==
    /\ IsFiniteSet(running) /\ IsFiniteSet(acking)
    /\ inflight = Busy + (IF main = "submit" THEN 1 ELSE 0)
    /\ Busy <= PoolSize
    /\ Delivered

\* Adding to and removing from a finite set, in the form the steps use.
LEMMA AddOne ==
    ASSUME NEW S, IsFiniteSet(S), NEW x, x \notin S
    PROVE  /\ IsFiniteSet(S \cup {x})
           /\ Cardinality(S \cup {x}) = Cardinality(S) + 1
           /\ Cardinality(S) \in Nat
    BY FS_AddElement, FS_CardinalityType

LEMMA RemoveOne ==
    ASSUME NEW S, IsFiniteSet(S), NEW x, x \in S
    PROVE  /\ IsFiniteSet(S \ {x})
           /\ Cardinality(S \ {x}) = Cardinality(S) - 1
           /\ Cardinality(S) \in Nat
    BY FS_RemoveElement, FS_CardinalityType

LEMMA SlotInit == Init => SlotInv
<1> SUFFICES ASSUME Init
             PROVE  SlotInv
    OBVIOUS
<1>1. IsFiniteSet({}) /\ Cardinality({}) = 0
    BY FS_EmptySet
<1>. QED
    BY <1>1, CapAssumption DEF Init, SlotInv, Busy, Delivered, Holding

LEMMA SlotStep == TypeCore /\ WindowInv /\ SlotInv /\ [Next]_vars => SlotInv'
<1> SUFFICES ASSUME TypeCore, WindowInv, SlotInv, [Next]_vars
             PROVE  SlotInv'
    OBVIOUS
<1> USE CapAssumption
<1>a. /\ Cardinality(running) \in Nat /\ Cardinality(acking) \in Nat
      /\ Busy \in Nat
    BY FS_CardinalityType DEF SlotInv, Busy
<1>b. Cardinality({}) = 0 /\ IsFiniteSet({})
    BY FS_EmptySet
<1>1. CASE Produce
    BY <1>1 DEF Produce, claimVars, SlotInv, Busy, Delivered, Holding
<1>2. CASE StartClaim
    <2>1. running = {} /\ acking = {}
        BY <1>2 DEF StartClaim, WindowInv, Open
    <2>. QED
        BY <1>2, <2>1 DEF StartClaim, SlotInv, Busy, Delivered, Holding
<1>3. CASE Take
    <2>1. pos \in Nat /\ cur' = pos /\ pos' = pos + 1
          /\ UNCHANGED <<running, acking, inflight>>
        BY <1>3 DEF Take, claimVars, TypeCore
    <2>2. \A o \in running : o < pos /\ o \in Int
        BY DEF SlotInv, Delivered, TypeCore, Offsets
    <2>3. \A a \in acking : a.off < pos /\ a.off \notin running /\ a.off \in Int
        BY DEF SlotInv, Delivered, TypeCore, Ack, Offsets
    <2>4. Delivered'
        BY <2>1, <2>2, <2>3 DEF Delivered, Holding
    <2>. QED
        BY <1>3, <2>1, <2>4 DEF Take, SlotInv, Busy
<1>4. CASE AcquireSlot
    BY <1>4, <1>a DEF AcquireSlot, SlotInv, Busy, Delivered, Holding
<1>5. CASE Submit
    <2>1. cur \notin running /\ UNCHANGED <<acking, inflight, pos>>
          /\ main = "submit" /\ main' = "select" /\ running' = running \cup {cur}
        BY <1>5 DEF Submit, SlotInv, Delivered, Holding
    <2>2. IsFiniteSet(running') /\ Cardinality(running') = Cardinality(running) + 1
        BY <2>1, AddOne DEF SlotInv
    <2>3. Busy' = Busy + 1
        BY <1>a, <2>1, <2>2 DEF Busy
    <2>4. Busy < PoolSize
        BY <1>5 DEF Submit
    <2>5. Delivered'
        BY <1>5, <2>1 DEF Submit, SlotInv, Delivered, Holding
    <2>. QED
        BY <1>a, <2>1, <2>2, <2>3, <2>4, <2>5 DEF SlotInv
<1>6. CASE SubmitFails
    BY <1>6, <1>a DEF SubmitFails, SlotInv, Busy, Delivered, Holding
<1>7. CASE SendNack
    BY <1>7, <1>a DEF SendNack, SlotInv, Busy, Delivered, Holding
<1>8. ASSUME NEW o \in Offsets, NEW ok \in BOOLEAN, HandlerReturns(o, ok)
      PROVE  SlotInv'
    <2> DEFINE a == [off |-> o, ok |-> ok]
    <2>1. /\ o \in running /\ running' = running \ {o} /\ acking' = acking \cup {a}
          /\ UNCHANGED <<main, cur, pos, inflight>>
        BY <1>8 DEF HandlerReturns
    <2>2. a \notin acking
        BY <2>1 DEF SlotInv, Delivered
    <2>3. /\ IsFiniteSet(running') /\ Cardinality(running') = Cardinality(running) - 1
        BY <2>1, RemoveOne DEF SlotInv
    <2>4. /\ IsFiniteSet(acking') /\ Cardinality(acking') = Cardinality(acking) + 1
        BY <2>1, <2>2, AddOne DEF SlotInv
    <2>5. Busy' = Busy
        BY <1>a, <2>3, <2>4 DEF Busy
    <2>6. Delivered'
        BY <2>1 DEF SlotInv, Delivered, Holding
    <2>. QED
        BY <2>1, <2>3, <2>4, <2>5, <2>6 DEF SlotInv
<1>9. ASSUME NEW o \in Offsets, HandlerPanics(o)
      PROVE  SlotInv'
    <2>1. /\ o \in running /\ running' = running \ {o} /\ inflight' = inflight - 1
          /\ UNCHANGED <<main, cur, pos, acking>>
        BY <1>9 DEF HandlerPanics
    <2>2. /\ IsFiniteSet(running') /\ Cardinality(running') = Cardinality(running) - 1
        BY <2>1, RemoveOne DEF SlotInv
    <2>3. Busy' = Busy - 1
        BY <1>a, <2>1, <2>2 DEF Busy
    <2>4. Delivered'
        BY <2>1 DEF SlotInv, Delivered, Holding
    <2>. QED
        BY <1>a, <2>1, <2>2, <2>3, <2>4 DEF SlotInv
<1>10. ASSUME NEW a \in Ack, WorkerAcks(a)
       PROVE  SlotInv'
    <2>1. /\ a \in acking /\ acking' = acking \ {a} /\ inflight' = inflight - 1
          /\ UNCHANGED <<main, cur, pos, running>>
        BY <1>10 DEF WorkerAcks
    <2>2. /\ IsFiniteSet(acking') /\ Cardinality(acking') = Cardinality(acking) - 1
        BY <2>1, RemoveOne DEF SlotInv
    <2>3. Busy' = Busy - 1
        BY <1>a, <2>1, <2>2 DEF Busy
    <2>4. Delivered'
        BY <2>1 DEF SlotInv, Delivered, Holding
    <2>. QED
        BY <1>a, <2>1, <2>2, <2>3, <2>4 DEF SlotInv
<1>11. CASE ReceiveAck
    BY <1>11 DEF ReceiveAck, SlotInv, Busy, Delivered, Holding
<1>12. CASE Advance
    BY <1>12 DEF Advance, SlotInv, Busy, Delivered, Holding
<1>13. CASE AutoCommit
    BY <1>13 DEF AutoCommit, claimVars, SlotInv, Busy, Delivered, Holding
<1>14. CASE Revoke
    BY <1>14 DEF Revoke, claimVars, SlotInv, Busy, Delivered, Holding
<1>15. CASE Leave
    BY <1>15, <1>b DEF Leave, ForgetClaim, SlotInv, Busy, Delivered, Holding
<1>16. CASE Crash
    BY <1>16, <1>b DEF Crash, ForgetClaim, SlotInv, Busy, Delivered, Holding
<1>17. CASE UNCHANGED vars
    BY <1>17 DEF vars, claimVars, SlotInv, Busy, Delivered, Holding
<1>. QED
    BY <1>1, <1>2, <1>3, <1>4, <1>5, <1>6, <1>7, <1>8, <1>9, <1>10, <1>11,
       <1>12, <1>13, <1>14, <1>15, <1>16, <1>17 DEF Next

(***************************************************************************)
(* The inductive invariant and what follows from it.                       *)
(***************************************************************************)
IInv == TypeCore /\ WindowInv /\ SlotInv

\* All of it holds in every reachable state of ConsumeClaim.
THEOREM Inductive == Spec => []IInv
<1>1. Init => IInv
    BY TypeCoreInit, WindowInit, SlotInit DEF IInv
<1>2. IInv /\ [Next]_vars => IInv'
    BY TypeCoreStep, WindowStep, SlotStep DEF IInv
<1>. QED
    BY <1>1, <1>2, PTL DEF Spec

\* Every variable keeps its type; in particular the semaphore never underflows
\* and ackC never exceeds its capacity.
THEOREM TypeCorrect == Spec => []TypeOK
<1>1. IInv => TypeOK
    <2> SUFFICES ASSUME IInv
                 PROVE  TypeOK
        OBVIOUS
    <2>1. Busy \in Nat
        BY FS_CardinalityType DEF IInv, SlotInv, Busy
    <2>2. inflight \in 0 .. InflightCap
        BY <2>1, CapAssumption DEF IInv, SlotInv, TypeCore
    <2>. QED
        BY <2>2 DEF IInv, TypeCore, TypeOK, Holding
<1>. QED
    BY <1>1, Inductive, PTL

\* The marked position of a claim covers only offsets handled in that claim.
THEOREM MarksAreHandled == Spec => []MarkedOnlyHandled
<1>1. IInv => MarkedOnlyHandled
    BY DEF IInv, WindowInv, ClaimWindow, MarkedOnlyHandled
<1>. QED
    BY <1>1, Inductive, PTL

\* No crash, rebalance or auto-commit makes the group skip an unhandled offset.
THEOREM CommitsAreHandled == Spec => []CommittedOnlyHandled
<1>1. IInv => CommittedOnlyHandled
    BY DEF IInv, WindowInv, Below, CommittedOnlyHandled
<1>. QED
    BY <1>1, Inductive, PTL

\* With a pool smaller than the semaphore the main loop never waits for a token.
THEOREM InflightIsSlack == Spec => []InflightNeverBinds
<1>1. IInv => InflightNeverBinds
    <2> SUFFICES ASSUME IInv, main = "slot"
                 PROVE  inflight < InflightCap
        BY DEF InflightNeverBinds
    <2>1. Busy \in Nat /\ inflight = Busy /\ Busy <= PoolSize
        BY FS_CardinalityType DEF IInv, SlotInv, Busy
    <2>. QED
        BY <2>1, CapAssumption
<1>. QED
    BY <1>1, Inductive, PTL

\* A group that starts without a committed offset never commits one, however
\* many claims it runs: next is the sentinel OffsetNewest, which no delivered
\* offset equals, so the window over pendingOK never opens.
NeverCommits == committed = NoOffset /\ marked = NoOffset /\ (Open => next = NoOffset)

THEOREM FreshGroupNeverCommits ==
    ASSUME StartCommitted = NoOffset
    PROVE  Spec => []NeverCommits
<1>1. Init => NeverCommits
    BY DEF Init, NeverCommits
<1>2. IInv /\ NeverCommits /\ [Next]_vars => NeverCommits'
    <2> SUFFICES ASSUME TypeCore, NeverCommits, [Next]_vars
                 PROVE  NeverCommits'
        BY DEF IInv
    <2> USE DEF NeverCommits
    <2>1. CASE StartClaim
        BY <2>1 DEF StartClaim
    <2>2. CASE Advance
        <3>1. next \notin pendingOK
            BY <2>2 DEF Advance, Open, TypeCore, Offsets, NoOffset
        <3>. QED
            BY <2>2, <3>1 DEF Advance, Open
    <2>3. CASE AutoCommit \/ Leave \/ Crash
        BY <2>3 DEF AutoCommit, Leave, Crash, ForgetClaim, Raise, Open, claimVars
    <2>4. CASE Produce \/ Take \/ Revoke
        BY <2>4 DEF Produce, Take, Revoke, Open, claimVars
    <2>5. CASE AcquireSlot \/ Submit \/ SubmitFails \/ SendNack \/ ReceiveAck
        BY <2>5 DEF AcquireSlot, Submit, SubmitFails, SendNack, ReceiveAck, Open
    <2>6. ASSUME NEW o \in Offsets,
                 HandlerPanics(o) \/ \E ok \in BOOLEAN : HandlerReturns(o, ok)
          PROVE  NeverCommits'
        BY <2>6 DEF HandlerPanics, HandlerReturns, Open
    <2>7. ASSUME NEW a \in Ack, WorkerAcks(a)
          PROVE  NeverCommits'
        BY <2>7 DEF WorkerAcks, Open
    <2>8. CASE UNCHANGED vars
        BY <2>8 DEF vars, claimVars, Open
    <2>. QED
        BY <2>1, <2>2, <2>3, <2>4, <2>5, <2>6, <2>7, <2>8 DEF Next
<1>. QED
    BY <1>1, <1>2, Inductive, PTL DEF Spec

=============================================================================
