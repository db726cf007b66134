--------------------------- MODULE SeqAlloc_proofs ---------------------------
(***************************************************************************)
(* Proofs about SeqAlloc for every number of callers, block size function, *)
(* retry bound and counter bound.                                          *)
(*                                                                         *)
(* The argument: every number lives in one place.  The segments callers    *)
(* hold before luaSetSegment, the delayed luaSetSegment commands and the   *)
(* unused rest of the cached segment are pairwise apart, below issued_seq, *)
(* and hold no number consumed so far.  Consuming moves numbers out of the *)
(* rest; loading replaces the rest by a segment that leaves its holder.    *)
(***************************************************************************)
EXTENDS SeqAlloc, SequenceTheorems, TLAPS

Apart(s, t) == s.hi < t.lo \/ t.hi < s.lo
Unused(s) == \A x \in taken : x < s.lo \/ s.hi < x
Rest == [lo |-> curr + 1, hi |-> last]
Held(c) == pc[c] = "set"

TypeCore ==
    /\ issued \in 0 .. MaxIssued /\ maxSeq \in Nat /\ minSeq \in Nat
    /\ curr \in Int /\ last \in 0 .. MaxIssued
    /\ pc \in [Callers -> {"idle", "fast", "alloc", "set", "issue", "done", "failed"}]
    /\ need \in [Callers -> Needs]
    /\ tries \in [Callers -> Nat]
    /\ own \in [Callers -> Segment]
    /\ late \in SUBSET Segment
    /\ resends \in 0 .. MaxResends /\ calls \in 0 .. MaxCalls
    /\ taken \in SUBSET Nat
    /\ granted \in Seq(Grant)

\* A segment that may still be loaded: well formed, issued, unused, apart from the
\* rest of the cached one.
Loadable(s) ==
    /\ 1 <= s.lo /\ s.lo <= s.hi /\ s.hi <= issued
    /\ Unused(s)
    /\ Apart(s, Rest)

SegmentsInv ==
    /\ 0 <= curr /\ curr <= last /\ last <= issued
    /\ Unused(Rest)
    /\ \A x \in taken : 1 <= x /\ x <= issued
    /\ \A c \in Callers : Held(c) => Loadable(own[c])
    /\ \A s \in late : Loadable(s)
    /\ \A c, d \in Callers : Held(c) /\ Held(d) /\ c # d => Apart(own[c], own[d])
    /\ \A c \in Callers, s \in late : Held(c) => Apart(own[c], s)
    /\ \A s, t \in late : s # t => Apart(s, t)

GrantsInv ==
    /\ \A i \in 1 .. Len(granted) :
          /\ granted[i].lo <= granted[i].hi
          /\ \A x \in granted[i].lo .. granted[i].hi : x \in taken
    /\ \A i, j \in 1 .. Len(granted) :
          i < j => granted[i].hi < granted[j].lo \/ granted[j].hi < granted[i].lo

IInv == TypeCore /\ SegmentsInv /\ GrantsInv /\ WatermarksOrdered

\* Retries stay within MaxRetry: a call in its loop has iterations left.
TriesInv ==
    /\ tries \in [Callers -> 0 .. MaxRetry]
    /\ \A c \in Callers : pc[c] \in {"fast", "alloc", "set", "issue"} => tries[c] < MaxRetry

-----------------------------------------------------------------------------
\* Appending a grant: what the history holds afterwards.
LEMMA AppendGrant ==
    ASSUME NEW s \in Seq(Grant), NEW g \in Grant
    PROVE  /\ Append(s, g) \in Seq(Grant)
           /\ Len(Append(s, g)) = Len(s) + 1
           /\ Len(s) \in Nat
           /\ \A i \in 1 .. Len(s) : Append(s, g)[i] = s[i]
           /\ Append(s, g)[Len(s) + 1] = g
    OBVIOUS

\* luaInSegment: consuming n numbers that fit keeps every number in one place.
LEMMA ConsumeKeeps ==
    ASSUME TypeCore, SegmentsInv, NEW n \in Nat \ {0}, curr + n <= last, Consume(n),
           UNCHANGED <<issued, own, late>>,
           \A c \in Callers : Held(c)' => Held(c)
    PROVE  /\ SegmentsInv' /\ curr' \in Int /\ taken' \in SUBSET Nat
           /\ taken \subseteq taken'
           /\ \A x \in curr + 1 .. curr + n : x \in taken' /\ x \notin taken
<1>1. /\ curr' = curr + n /\ last' = last /\ taken' = taken \cup (curr + 1 .. curr + n)
      /\ curr \in Int /\ last \in Int /\ issued \in Int
    BY DEF Consume, TypeCore
<1>2. Unused(Rest)'
    BY <1>1 DEF SegmentsInv, Unused, Rest, TypeCore
<1>3. \A x \in taken' : 1 <= x /\ x <= issued'
    BY <1>1 DEF SegmentsInv, TypeCore
<1>4. ASSUME NEW s \in Segment, Loadable(s)
      PROVE  Loadable(s)'
    <2>1. s.lo \in Int /\ s.hi \in Int
        BY DEF Segment
    <2>. QED
        BY <1>1, <1>4, <2>1 DEF Loadable, Unused, Apart, Rest, TypeCore
<1>5. \A c \in Callers : Held(c)' => Loadable(own[c])'
    BY <1>4 DEF SegmentsInv, TypeCore
<1>6. \A s \in late' : Loadable(s)'
    BY <1>4 DEF SegmentsInv, TypeCore
<1>7. /\ taken' \in SUBSET Nat /\ taken \subseteq taken'
      /\ \A x \in curr + 1 .. curr + n : x \in taken' /\ x \notin taken
    BY <1>1 DEF TypeCore, SegmentsInv, Unused, Rest
<1>8. 0 <= curr' /\ curr' <= last' /\ last' <= issued'
    BY <1>1 DEF SegmentsInv
<1>9. /\ \A c, d \in Callers : Held(c)' /\ Held(d)' /\ c # d => Apart(own'[c], own'[d])
      /\ \A c \in Callers, s \in late' : Held(c)' => Apart(own'[c], s)
      /\ \A s, t \in late' : s # t => Apart(s, t)
    BY DEF SegmentsInv
<1>. QED
    BY <1>1, <1>2, <1>3, <1>5, <1>6, <1>7, <1>8, <1>9 DEF SegmentsInv, Apart

\* luaSetSegment: loading a loadable segment that leaves its holder.
LEMMA LoadKeeps ==
    ASSUME TypeCore, SegmentsInv, NEW s \in Segment, Loadable(s), Load(s),
           UNCHANGED <<issued, own, taken>>, late' \subseteq late,
           \A c \in Callers : Held(c)' => Held(c) /\ Apart(own[c], s),
           \A t \in late' : Apart(s, t)
    PROVE  SegmentsInv' /\ curr' \in Int /\ last' \in 0 .. MaxIssued
<1>1. /\ s.lo \in Int /\ s.hi \in 0 .. MaxIssued /\ curr' = s.lo - 1 /\ last' = s.hi
    BY DEF Segment, Load
<1>2. Rest'.lo = s.lo /\ Rest'.hi = s.hi
    BY <1>1 DEF Rest
<1>3. Unused(Rest)'
    BY <1>2 DEF Loadable, Unused
<1>4. ASSUME NEW t \in Segment, Loadable(t), Apart(t, s)
      PROVE  Loadable(t)'
    BY <1>2, <1>4 DEF Loadable, Unused, Apart
<1>5. \A c \in Callers : Held(c)' => Loadable(own[c])'
    BY <1>4 DEF SegmentsInv, TypeCore
<1>6. \A t \in late' : Loadable(t)'
    BY <1>4 DEF SegmentsInv, TypeCore, Apart
<1>7. 0 <= curr' /\ curr' <= last' /\ last' <= issued'
    BY <1>1 DEF Loadable
<1>8. \A x \in taken' : 1 <= x /\ x <= issued'
    BY DEF SegmentsInv
<1>9. /\ \A c, d \in Callers : Held(c)' /\ Held(d)' /\ c # d => Apart(own'[c], own'[d])
      /\ \A c \in Callers, t \in late' : Held(c)' => Apart(own'[c], t)
      /\ \A t, u \in late' : t # u => Apart(t, u)
    BY DEF SegmentsInv
<1>. QED
    BY <1>1, <1>3, <1>5, <1>6, <1>7, <1>8, <1>9 DEF SegmentsInv, Apart

\* A run returned to a caller was never returned before: it was unused, and earlier
\* runs are consumed numbers.
LEMMA ReturnKeeps ==
    ASSUME TypeCore, SegmentsInv, GrantsInv, NEW c \in Callers, need[c] \in Nat \ {0},
           curr + need[c] <= last, Consume(need[c]), Return(c),
           taken' \in SUBSET Nat, taken \subseteq taken',
           \A x \in curr + 1 .. curr + need[c] : x \in taken' /\ x \notin taken
    PROVE  GrantsInv' /\ granted' \in Seq(Grant)
<1> DEFINE g == [lo |-> curr + 1, hi |-> curr + need[c]]
<1>1. g \in Grant /\ granted \in Seq(Grant) /\ granted' = Append(granted, g)
    BY DEF TypeCore, SegmentsInv, Grant, Return
<1>2. /\ granted' \in Seq(Grant) /\ Len(granted') = Len(granted) + 1 /\ Len(granted) \in Nat
      /\ \A i \in 1 .. Len(granted) : granted'[i] = granted[i]
      /\ granted'[Len(granted) + 1] = g
    BY <1>1, AppendGrant
<1>3. g.lo = curr + 1 /\ g.hi = curr + need[c] /\ curr \in Int
    BY DEF TypeCore
<1>4. \A i \in 1 .. Len(granted') :
          /\ granted'[i].lo <= granted'[i].hi
          /\ \A x \in granted'[i].lo .. granted'[i].hi : x \in taken'
    <2> TAKE i \in 1 .. Len(granted')
    <2>1. CASE i \in 1 .. Len(granted)
        BY <2>1, <1>2 DEF GrantsInv
    <2>2. CASE i = Len(granted) + 1
        BY <2>2, <1>2, <1>3
    <2>. QED
        BY <2>1, <2>2, <1>2
<1>5. \A i \in 1 .. Len(granted) :
          granted[i].hi < g.lo \/ g.hi < granted[i].lo
    <2> TAKE i \in 1 .. Len(granted)
    <2> DEFINE x == Larger(granted[i].lo, g.lo)
    <2>0. granted[i] \in Grant
        BY DEF TypeCore
    <2>1. granted[i].lo \in Int /\ granted[i].hi \in Int
        BY <2>0 DEF Grant
    <2> SUFFICES ASSUME ~(granted[i].hi < g.lo), ~(g.hi < granted[i].lo)
                 PROVE  FALSE
        OBVIOUS
    <2>2. x \in granted[i].lo .. granted[i].hi /\ x \in g.lo .. g.hi
        BY <2>1, <1>3 DEF Larger, GrantsInv
    <2>3. x \in taken
        BY <2>2 DEF GrantsInv
    <2>. QED
        BY <2>2, <2>3, <1>3
<1>6. \A i, j \in 1 .. Len(granted') : i < j =>
          granted'[i].hi < granted'[j].lo \/ granted'[j].hi < granted'[i].lo
    <2> TAKE i, j \in 1 .. Len(granted')
    <2> HAVE i < j
    <2>1. i \in 1 .. Len(granted)
        BY <1>2
    <2>2. CASE j \in 1 .. Len(granted)
        BY <2>1, <2>2, <1>2 DEF GrantsInv
    <2>3. CASE j = Len(granted) + 1
        BY <2>1, <2>3, <1>2, <1>5
    <2>. QED
        BY <2>2, <2>3, <1>2
<1>. QED
    BY <1>2, <1>4, <1>6 DEF GrantsInv

\* Numbers once consumed stay consumed, so grants are not disturbed.
LEMMA GrantsStay ==
    ASSUME GrantsInv, UNCHANGED granted, taken \subseteq taken'
    PROVE  GrantsInv'
    BY DEF GrantsInv

\* Nothing that touches only counters, watermarks and program counters outside
\* "set" disturbs the segments.
LEMMA SegmentsStay ==
    ASSUME TypeCore, SegmentsInv, issued' \in Int, issued <= issued',
           UNCHANGED <<cache, taken>>, late' \subseteq late,
           \A c \in Callers : Held(c)' => Held(c) /\ own'[c] = own[c]
    PROVE  SegmentsInv'
<1>1. issued \in Int /\ curr' = curr /\ last' = last /\ taken' = taken /\ last \in Int
    BY DEF TypeCore, cache
<1>2. ASSUME NEW s \in Segment, Loadable(s)
      PROVE  Loadable(s)'
    BY <1>1, <1>2 DEF Loadable, Unused, Apart, Rest, Segment
<1>3. \A c \in Callers : own[c] \in Segment
    BY DEF TypeCore
<1>4. ASSUME NEW c \in Callers, Held(c)'
      PROVE  Loadable(own[c])'
    <2>1. Loadable(own[c]) /\ own[c] \in Segment /\ own'[c] = own[c]
        BY <1>3, <1>4 DEF SegmentsInv
    <2>. QED
        BY <1>2, <2>1
<1>5. \A s \in late' : Loadable(s)'
    BY <1>2 DEF SegmentsInv, TypeCore
<1>6. 0 <= curr' /\ curr' <= last' /\ last' <= issued' /\ Unused(Rest)'
    BY <1>1 DEF SegmentsInv, Unused, Rest
<1>7. \A x \in taken' : 1 <= x /\ x <= issued'
    BY <1>1 DEF SegmentsInv, TypeCore
<1>8. /\ \A c, d \in Callers : Held(c)' /\ Held(d)' /\ c # d => Apart(own'[c], own'[d])
      /\ \A c \in Callers, s \in late' : Held(c)' => Apart(own'[c], s)
      /\ \A s, t \in late' : s # t => Apart(s, t)
    BY DEF SegmentsInv
<1>. QED
    BY <1>4, <1>5, <1>6, <1>7, <1>8 DEF SegmentsInv, Apart

-----------------------------------------------------------------------------
\* The inductive invariant, one lemma per group of actions.
LEMMA InitIInv == Init => IInv
<1> SUFFICES ASSUME Init PROVE IInv
    OBVIOUS
<1>1. TypeCore
    BY BoundsAssumption DEF Init, TypeCore, Segment, NoSegment
<1>2. SegmentsInv
    BY DEF Init, SegmentsInv, Held, Unused, Rest
<1>3. GrantsInv /\ WatermarksOrdered
    BY DEF Init, GrantsInv, WatermarksOrdered
<1>. QED
    BY <1>1, <1>2, <1>3 DEF IInv

\* Steps that leave cache, history and the counter alone.
LEMMA QuietSteps ==
    ASSUME IInv, NEW c \in Callers,
           \/ Begin(c)
           \/ SetSegmentFails(c) /\ UNCHANGED <<cache, late>>
           \/ CallerCrashes(c)
    PROVE  IInv'
<1>1. TypeCore /\ SegmentsInv /\ GrantsInv /\ WatermarksOrdered
    BY DEF IInv
<1>2. UNCHANGED <<mongo, cache, taken, granted, late>>
    BY DEF Begin, SetSegmentFails, CallerCrashes
<1>3. TypeCore'
    <2>1. CASE Begin(c)
        <3>3. calls' \in 0 .. MaxCalls
            BY <1>1, <2>1, BoundsAssumption DEF Begin, TypeCore
        <3>5. own' \in [Callers -> Segment]
            BY <1>1, <2>1, BoundsAssumption DEF Begin, TypeCore, NoSegment, Segment
        <3>. QED
            BY <1>1, <2>1, <3>3, <3>5 DEF Begin, TypeCore, Goto, mongo, cache
    <2>2. CASE SetSegmentFails(c) /\ UNCHANGED <<cache, late>>
        BY <1>1, <2>2 DEF SetSegmentFails, TypeCore, Again, Goto, mongo, cache, local
    <2>3. CASE CallerCrashes(c)
        BY <1>1, <2>3 DEF CallerCrashes, TypeCore, Goto, mongo, cache, local
    <2>. QED
        BY <2>1, <2>2, <2>3
<1>4. \A d \in Callers : Held(d)' => Held(d) /\ own'[d] = own[d]
    <2>1. pc \in [Callers -> {"idle", "fast", "alloc", "set", "issue", "done", "failed"}]
          /\ own \in [Callers -> Segment]
        BY <1>1 DEF TypeCore
    <2>. QED
        BY <2>1 DEF Begin, SetSegmentFails, CallerCrashes, Again, Goto, Held, local
<1>5. issued' = issued /\ issued \in Int
    BY <1>1, <1>2 DEF mongo, TypeCore
<1>6. SegmentsInv'
    BY <1>1, <1>2, <1>4, <1>5, SegmentsStay
<1>7. GrantsInv'
    BY <1>1, <1>2, GrantsStay
<1>8. WatermarksOrdered'
    BY <1>1, <1>2 DEF mongo, WatermarksOrdered
<1>. QED
    BY <1>3, <1>6, <1>7, <1>8 DEF IInv

\* luaInSegment ran: the caller got its run, or the reply was lost.
LEMMA IssueSteps ==
    ASSUME IInv, NEW c \in Callers,
           TryFast(c) \/ TryFastFails(c) \/ TryOwn(c) \/ TryOwnFails(c)
    PROVE  IInv'
<1>1. TypeCore /\ SegmentsInv /\ GrantsInv /\ WatermarksOrdered
    BY DEF IInv
<1>2. need[c] \in Nat \ {0} /\ UNCHANGED <<mongo, own, late>> /\ issued \in Int
    <2>1. need[c] \in Needs /\ issued \in Int
        BY <1>1 DEF TypeCore
    <2>2. UNCHANGED <<mongo, own, late>>
        BY DEF TryFast, TryFastFails, TryOwn, TryOwnFails, local
    <2>. QED
        BY <2>1, <2>2, NeedsAssumption
<1>3. \A d \in Callers : Held(d)' => Held(d)
    <2>1. pc \in [Callers -> {"idle", "fast", "alloc", "set", "issue", "done", "failed"}]
        BY <1>1 DEF TypeCore
    <2>. QED
        BY <2>1 DEF TryFast, TryFastFails, TryOwn, TryOwnFails, Return, Again, Goto, Held
<1>4. \/ curr + need[c] <= last /\ Consume(need[c])
      \/ UNCHANGED <<cache, taken>>
    BY DEF TryFast, TryFastFails, TryOwn, TryOwnFails, Fits
<1>5. \/ curr + need[c] <= last /\ Consume(need[c]) /\ Return(c)
      \/ UNCHANGED granted
    BY DEF TryFast, TryFastFails, TryOwn, TryOwnFails, Fits
<1>6. /\ SegmentsInv' /\ curr' \in Int /\ last' = last
      /\ taken' \in SUBSET Nat /\ taken \subseteq taken'
    <2>1. CASE curr + need[c] <= last /\ Consume(need[c])
        BY <1>1, <1>2, <1>3, <2>1, ConsumeKeeps DEF Consume, mongo
    <2>2. CASE UNCHANGED <<cache, taken>>
        BY <1>1, <1>2, <1>3, <2>2, SegmentsStay DEF TypeCore, cache, mongo
    <2>. QED
        BY <1>4, <2>1, <2>2
<1>7. GrantsInv' /\ granted' \in Seq(Grant)
    <2>1. CASE curr + need[c] <= last /\ Consume(need[c]) /\ Return(c)
        <3>1. \A x \in curr + 1 .. curr + need[c] : x \in taken' /\ x \notin taken
            BY <1>1, <1>2, <1>3, <2>1, ConsumeKeeps DEF mongo
        <3>. QED
            BY <1>1, <1>2, <1>6, <2>1, <3>1, ReturnKeeps
    <2>2. CASE UNCHANGED granted
        BY <1>1, <1>6, <2>2, GrantsStay DEF TypeCore
    <2>. QED
        BY <1>5, <2>1, <2>2
<1>8. /\ tries' \in [Callers -> Nat]
      /\ pc' \in [Callers -> {"idle", "fast", "alloc", "set", "issue", "done", "failed"}]
    <2>1. \/ UNCHANGED tries
          \/ tries' = [tries EXCEPT ![c] = @ + 1]
        <3>1. CASE TryFast(c) \/ TryFastFails(c)
            BY <3>1 DEF TryFast, TryFastFails, Return
        <3>2. CASE TryOwn(c) \/ TryOwnFails(c)
            BY <3>2 DEF TryOwn, TryOwnFails, Return, Again
        <3>. QED
            BY <3>1, <3>2
    <2>2. \E l \in {"alloc", "failed", "done"} : Goto(c, l)
        BY DEF TryFast, TryFastFails, TryOwn, TryOwnFails, Return, Again
    <2>3. tries \in [Callers -> Nat]
          /\ pc \in [Callers -> {"idle", "fast", "alloc", "set", "issue", "done", "failed"}]
        BY <1>1 DEF TypeCore
    <2>4. tries' \in [Callers -> Nat]
        BY <2>1, <2>3
    <2>5. pc' \in [Callers -> {"idle", "fast", "alloc", "set", "issue", "done", "failed"}]
        BY <2>2, <2>3 DEF Goto
    <2>. QED
        BY <2>4, <2>5
<1>9. UNCHANGED <<need, own, resends, calls>>
    BY DEF TryFast, TryFastFails, TryOwn, TryOwnFails, local
<1>10. TypeCore'
    BY <1>1, <1>2, <1>6, <1>7, <1>8, <1>9 DEF TypeCore, mongo
<1>11. WatermarksOrdered'
    BY <1>1, <1>2 DEF mongo, WatermarksOrdered
<1>. QED
    BY <1>6, <1>7, <1>10, <1>11 DEF IInv

\* AllocSegment: the new block lies above everything issued so far.
LEMMA AllocSteps ==
    ASSUME IInv, NEW c \in Callers, AllocSegment(c) \/ AllocSegmentFails(c)
    PROVE  IInv'
<1>1. TypeCore /\ SegmentsInv /\ GrantsInv /\ WatermarksOrdered
    BY DEF IInv
<1>2. need[c] \in Needs /\ issued \in Int /\ issued >= 0
      /\ own \in [Callers -> Segment] /\ late \in SUBSET Segment
      /\ pc \in [Callers -> {"idle", "fast", "alloc", "set", "issue", "done", "failed"}]
      /\ curr \in Int /\ last \in Int /\ maxSeq \in Nat
    BY <1>1 DEF TypeCore
<1>3. BlockOf[need[c]] \in Nat /\ BlockOf[need[c]] >= 1
    <2>1. need[c] \in Needs
        BY <1>2
    <2>2. need[c] \in Nat \ {0} /\ need[c] <= BlockOf[need[c]] /\ BlockOf[need[c]] \in Nat
        BY <2>1, NeedsAssumption, BlockAssumption
    <2>. QED
        BY <2>2
<1>4. CASE AllocSegmentFails(c)
    <2>1. issued' \in 0 .. MaxIssued /\ issued <= issued'
        BY <1>2, <1>3, <1>4 DEF AllocSegmentFails
    <2>2. UNCHANGED <<maxSeq, minSeq, cache, local, late, taken, granted>>
        BY <1>4 DEF AllocSegmentFails
    <2>3. \A d \in Callers : Held(d)' => Held(d) /\ own'[d] = own[d]
        BY <1>2, <1>4 DEF AllocSegmentFails, Goto, Held, local
    <2>4. SegmentsInv'
        BY <1>1, <2>1, <2>2, <2>3, SegmentsStay
    <2>5. TypeCore'
        BY <1>1, <1>4, <2>1, <2>2 DEF AllocSegmentFails, TypeCore, Goto, cache, local
    <2>6. GrantsInv' /\ WatermarksOrdered'
        BY <1>1, <1>2, <2>1, <2>2, GrantsStay DEF WatermarksOrdered
    <2>. QED
        BY <2>4, <2>5, <2>6 DEF IInv
<1>5. CASE AllocSegment(c)
    <2>1. /\ issued' = issued + BlockOf[need[c]] /\ issued' \in 0 .. MaxIssued
          /\ issued < issued'
        BY <1>2, <1>3, <1>5, BoundsAssumption DEF AllocSegment
    <2>2. /\ own' = [own EXCEPT ![c] = [lo |-> issued + 1, hi |-> issued']]
          /\ pc' = [pc EXCEPT ![c] = "set"]
          /\ UNCHANGED <<maxSeq, minSeq, curr, last, tries, need, late, resends, calls,
                         taken, granted>>
        BY <1>5 DEF AllocSegment, Goto, cache
    <2>3. issued + 1 \in 0 .. MaxIssued + 1
        BY <1>2, <2>1, BoundsAssumption
    <2>4. PICK s \in Segment :
              /\ s = [lo |-> issued + 1, hi |-> issued']
              /\ s.lo = issued + 1 /\ s.hi = issued'
        <3>1. [lo |-> issued + 1, hi |-> issued'] \in Segment
            BY <2>1, <2>3 DEF Segment
        <3>. QED
            BY <3>1
    <2>5. ASSUME NEW t \in Segment, Loadable(t)
          PROVE  Loadable(t)' /\ Apart(t, s) /\ Apart(s, t)
        <3>1. t.lo \in Int /\ t.hi \in Int /\ t.hi <= issued
            BY <2>5 DEF Segment, Loadable
        <3>2. Apart(t, s) /\ Apart(s, t)
            BY <1>2, <2>4, <3>1 DEF Apart
        <3>. QED
            BY <1>2, <2>1, <2>2, <2>5, <3>1, <3>2 DEF Loadable, Unused, Apart, Rest
    <2>6. \A x \in taken : x \in Int /\ 1 <= x /\ x <= issued
        BY <1>1 DEF SegmentsInv, TypeCore
    <2>7. Loadable(s)'
        <3>1. 1 <= s.lo /\ s.lo <= s.hi /\ s.hi <= issued'
            BY <1>2, <2>1, <2>4
        <3>2. \A x \in taken' : x < s.lo
            BY <1>2, <2>2, <2>4, <2>6
        <3>3. last' < s.lo /\ Rest'.hi = last'
            BY <1>1, <1>2, <2>2, <2>4 DEF SegmentsInv, Rest
        <3>. QED
            BY <3>1, <3>2, <3>3 DEF Loadable, Unused, Apart, Rest
    <2>8. \A d \in Callers \ {c} : Held(d)' => Held(d) /\ own'[d] = own[d]
        BY <1>2, <2>2 DEF Held
    <2>9. own'[c] = s
        BY <1>2, <2>2, <2>4
    <2>10. \A d \in Callers \ {c} : Held(d)' =>
              Loadable(own[d])' /\ Apart(own[d], s) /\ Apart(s, own[d])
        <3> TAKE d \in Callers \ {c}
        <3> HAVE Held(d)'
        <3>1. Loadable(own[d]) /\ own[d] \in Segment /\ own'[d] = own[d]
            BY <1>1, <1>2, <2>8 DEF SegmentsInv
        <3>. QED
            BY <2>5, <3>1
    <2>11. \A t \in late : Loadable(t)' /\ Apart(s, t)
        BY <1>1, <1>2, <2>5 DEF SegmentsInv
    <2>12. SegmentsInv'
        <3>1. 0 <= curr' /\ curr' <= last' /\ last' <= issued' /\ Unused(Rest)'
            BY <1>1, <1>2, <2>1, <2>2 DEF SegmentsInv, Unused, Rest
        <3>2. \A x \in taken' : 1 <= x /\ x <= issued'
            BY <1>2, <2>1, <2>2, <2>6
        <3>3. \A d \in Callers : Held(d)' => Loadable(own[d])'
            BY <2>7, <2>9, <2>10
        <3>4. \A t \in late' : Loadable(t)'
            BY <2>2, <2>11
        <3>5. \A d, e \in Callers : (Held(d) /\ Held(e))' /\ d # e => Apart(own'[d], own'[e])
            BY <1>1, <2>8, <2>9, <2>10 DEF SegmentsInv
        <3>6. \A d \in Callers, t \in late' : Held(d)' => Apart(own'[d], t)
            BY <1>1, <2>2, <2>8, <2>9, <2>11 DEF SegmentsInv
        <3>7. \A t, u \in late' : t # u => Apart(t, u)
            BY <1>1, <2>2 DEF SegmentsInv
        <3>. QED
            BY <3>1, <3>2, <3>3, <3>4, <3>5, <3>6, <3>7 DEF SegmentsInv, Apart
    <2>13. TypeCore'
        BY <1>1, <2>1, <2>2, <2>4 DEF TypeCore
    <2>14. GrantsInv' /\ WatermarksOrdered'
        BY <1>1, <1>2, <2>1, <2>2, GrantsStay DEF WatermarksOrdered
    <2>. QED
        BY <2>12, <2>13, <2>14 DEF IInv
<1>. QED
    BY <1>4, <1>5

\* luaSetSegment ran now, or failed and may run later.
LEMMA LoadSteps ==
    ASSUME IInv,
           \/ \E c \in Callers : SetSegment(c)
           \/ \E c \in Callers : SetSegmentFails(c) /\ Load(own[c]) /\ UNCHANGED late
           \/ SetSegmentLate
    PROVE  IInv'
<1>1. TypeCore /\ SegmentsInv /\ GrantsInv /\ WatermarksOrdered
    BY DEF IInv
<1>2. /\ own \in [Callers -> Segment] /\ late \in SUBSET Segment
      /\ pc \in [Callers -> {"idle", "fast", "alloc", "set", "issue", "done", "failed"}]
    BY <1>1 DEF TypeCore
<1>3. ASSUME NEW c \in Callers, Load(own[c]), pc[c] = "set",
             \/ SetSegment(c)
             \/ SetSegmentFails(c) /\ UNCHANGED late
      PROVE  IInv'
    <2>1. UNCHANGED <<mongo, local, late, resends, calls, taken, granted>>
        BY <1>3 DEF SetSegment, SetSegmentFails
    <2>2. \E l \in {"issue", "alloc", "failed"} : Goto(c, l)
        BY <1>3 DEF SetSegment, SetSegmentFails, Again
    <2>3. \A d \in Callers : Held(d)' => Held(d) /\ d # c
        BY <1>2, <2>2 DEF Goto, Held
    <2>4. Loadable(own[c]) /\ own[c] \in Segment
        BY <1>1, <1>2, <1>3 DEF SegmentsInv, Held
    <2>5. \A d \in Callers : Held(d)' => Held(d) /\ Apart(own[d], own[c])
        BY <1>1, <1>3, <2>3 DEF SegmentsInv, Held
    <2>6. \A t \in late' : Apart(own[c], t)
        BY <1>1, <1>3, <2>1 DEF SegmentsInv, Held
    <2>7. UNCHANGED <<issued, own, taken>> /\ late' \subseteq late
        BY <2>1 DEF mongo, local
    <2>8. SegmentsInv' /\ curr' \in Int /\ last' \in 0 .. MaxIssued
        BY <1>1, <1>3, <2>4, <2>5, <2>6, <2>7, LoadKeeps
    <2>9. tries' \in [Callers -> Nat]
        <3>1. UNCHANGED tries \/ tries' = [tries EXCEPT ![c] = @ + 1]
            BY <1>3 DEF SetSegment, SetSegmentFails, Again
        <3>2. tries \in [Callers -> Nat]
            BY <1>1 DEF TypeCore
        <3>. QED
            BY <3>1, <3>2
    <2>10. pc' \in [Callers -> {"idle", "fast", "alloc", "set", "issue", "done", "failed"}]
        BY <1>2, <2>2 DEF Goto
    <2>11. TypeCore'
        BY <1>1, <2>1, <2>8, <2>9, <2>10 DEF TypeCore, mongo, local
    <2>12. GrantsInv' /\ WatermarksOrdered'
        BY <1>1, <2>1, GrantsStay DEF WatermarksOrdered, mongo
    <2>. QED
        BY <2>8, <2>11, <2>12 DEF IInv
<1>4. CASE SetSegmentLate
    <2>1. PICK s \in late :
              /\ Load(s) /\ late' = late \ {s}
              /\ UNCHANGED <<mongo, pc, tries, local, resends, calls, taken, granted>>
        BY <1>4 DEF SetSegmentLate
    <2>2. s \in Segment /\ Loadable(s)
        BY <1>1, <1>2 DEF SegmentsInv
    <2>3. \A c \in Callers : Held(c)' => Held(c) /\ Apart(own[c], s)
        BY <1>1, <2>1 DEF SegmentsInv, Held
    <2>4. \A t \in late' : Apart(s, t)
        BY <1>1, <2>1 DEF SegmentsInv
    <2>5. UNCHANGED <<issued, own, taken>> /\ late' \subseteq late
        BY <2>1 DEF mongo, local
    <2>6. SegmentsInv' /\ curr' \in Int /\ last' \in 0 .. MaxIssued
        BY <1>1, <2>1, <2>2, <2>3, <2>4, <2>5, LoadKeeps
    <2>7. TypeCore'
        BY <1>1, <2>1, <2>6 DEF TypeCore, mongo, local
    <2>8. GrantsInv' /\ WatermarksOrdered'
        BY <1>1, <2>1, GrantsStay DEF WatermarksOrdered, mongo
    <2>. QED
        BY <2>6, <2>7, <2>8 DEF IInv
<1>. QED
    BY <1>3, <1>4 DEF SetSegment, SetSegmentFails

\* The command was given up on and is still on its way: the segment stays apart from
\* everything else, and its caller no longer holds it.
LEMMA DelayedSet ==
    ASSUME IInv, NEW c \in Callers, SetSegmentFails(c), late' = late \cup {own[c]},
           UNCHANGED cache
    PROVE  IInv'
<1>1. TypeCore /\ SegmentsInv /\ GrantsInv /\ WatermarksOrdered
    BY DEF IInv
<1>2. /\ own \in [Callers -> Segment] /\ late \in SUBSET Segment
      /\ pc \in [Callers -> {"idle", "fast", "alloc", "set", "issue", "done", "failed"}]
    BY <1>1 DEF TypeCore
<1>3. UNCHANGED <<mongo, cache, local, resends, calls, taken, granted>> /\ Held(c)
    BY DEF SetSegmentFails, Held
<1>4. \E l \in {"alloc", "failed"} : Goto(c, l)
    BY DEF SetSegmentFails, Again
<1>5. \A d \in Callers : Held(d)' => Held(d) /\ d # c
    BY <1>2, <1>4 DEF Goto, Held
<1>6. Loadable(own[c]) /\ own[c] \in Segment
    BY <1>1, <1>2, <1>3 DEF SegmentsInv
<1>7. UNCHANGED <<issued, own, taken, curr, last>>
    BY <1>3 DEF mongo, local, cache
<1>8. SegmentsInv'
    <2>1. \A s : Loadable(s) => Loadable(s)'
        BY <1>7 DEF Loadable, Unused, Rest
    <2>2. \A t \in late : Apart(own[c], t) /\ Apart(t, own[c])
        BY <1>1, <1>3 DEF SegmentsInv, Apart
    <2>3. \A d \in Callers : Held(d)' => Loadable(own[d])'
        BY <1>1, <1>5, <1>7 DEF SegmentsInv, Loadable, Unused, Rest
    <2>4. \A t \in late' : Loadable(t)'
        BY <1>1, <1>6, <2>1 DEF SegmentsInv
    <2>5. \A d, e \in Callers : (Held(d) /\ Held(e))' /\ d # e => Apart(own'[d], own'[e])
        BY <1>1, <1>5, <1>7 DEF SegmentsInv
    <2>6. \A d \in Callers, t \in late' : Held(d)' => Apart(own'[d], t)
        BY <1>1, <1>3, <1>5, <1>7 DEF SegmentsInv
    <2>7. \A t, u \in late' : t # u => Apart(t, u)
        BY <1>1, <2>2 DEF SegmentsInv
    <2>8. /\ 0 <= curr' /\ curr' <= last' /\ last' <= issued' /\ Unused(Rest)'
          /\ \A x \in taken' : 1 <= x /\ x <= issued'
        BY <1>1, <1>7 DEF SegmentsInv, Unused, Rest
    <2>. QED
        BY <2>3, <2>4, <2>5, <2>6, <2>7, <2>8 DEF SegmentsInv, Apart
<1>9. TypeCore'
    <2>1. tries' \in [Callers -> Nat]
        BY <1>1 DEF SetSegmentFails, Again, TypeCore
    <2>2. pc' \in [Callers -> {"idle", "fast", "alloc", "set", "issue", "done", "failed"}]
        BY <1>2, <1>4 DEF Goto
    <2>3. late' \in SUBSET Segment
        BY <1>2, <1>6
    <2>. QED
        BY <1>1, <1>3, <2>1, <2>2, <2>3 DEF TypeCore, mongo, cache, local
<1>10. GrantsInv' /\ WatermarksOrdered'
    BY <1>1, <1>3, GrantsStay DEF WatermarksOrdered, mongo
<1>. QED
    BY <1>8, <1>9, <1>10 DEF IInv

\* The cached segment is lost: its rest becomes empty and its numbers a gap.
LEMMA ExpireStep == ASSUME IInv, Expire PROVE IInv'
<1>1. TypeCore /\ SegmentsInv /\ GrantsInv /\ WatermarksOrdered
    BY DEF IInv
<1>2. /\ curr' = 0 /\ last' = 0
      /\ UNCHANGED <<issued, maxSeq, minSeq, pc, own, late, taken, granted>>
    BY DEF Expire, mongo, local
<1>3. own \in [Callers -> Segment] /\ late \in SUBSET Segment /\ issued \in Nat
    BY <1>1, BoundsAssumption DEF TypeCore
<1>4. Rest'.lo = 1 /\ Rest'.hi = 0
    BY <1>2 DEF Rest
<1>5. ASSUME NEW s \in Segment, Loadable(s)
      PROVE  Loadable(s)'
    BY <1>2, <1>4, <1>5 DEF Loadable, Unused, Apart, Segment
<1>6. \A c \in Callers : Held(c)' => Loadable(own[c])'
    <2> TAKE c \in Callers
    <2> HAVE Held(c)'
    <2>1. Loadable(own[c]) /\ own[c] \in Segment /\ own'[c] = own[c]
        BY <1>1, <1>2, <1>3 DEF SegmentsInv, Held
    <2>. QED
        BY <1>5, <2>1
<1>7. \A s \in late' : Loadable(s)'
    BY <1>1, <1>2, <1>3, <1>5 DEF SegmentsInv
<1>8. Unused(Rest)' /\ \A x \in taken' : 1 <= x /\ x <= issued'
    <2>1. \A x \in taken : x \in Nat /\ 1 <= x /\ x <= issued
        BY <1>1 DEF SegmentsInv, TypeCore
    <2>2. \A x \in taken : Rest'.hi < x
        BY <1>4, <2>1
    <2>. QED
        BY <1>2, <2>1, <2>2 DEF Unused
<1>9. SegmentsInv'
    <2>1. 0 <= curr' /\ curr' <= last' /\ last' <= issued'
        BY <1>2, <1>3
    <2>2. /\ \A c, d \in Callers : (Held(c) /\ Held(d))' /\ c # d => Apart(own'[c], own'[d])
          /\ \A c \in Callers, s \in late' : Held(c)' => Apart(own'[c], s)
          /\ \A s, t \in late' : s # t => Apart(s, t)
        BY <1>1, <1>2 DEF SegmentsInv, Held
    <2>. QED
        BY <1>6, <1>7, <1>8, <2>1, <2>2 DEF SegmentsInv, Apart
<1>10. TypeCore'
    BY <1>1, <1>2, BoundsAssumption DEF Expire, TypeCore, local
<1>11. GrantsInv' /\ WatermarksOrdered'
    BY <1>1, <1>2, GrantsStay DEF WatermarksOrdered
<1>. QED
    BY <1>9, <1>10, <1>11 DEF IInv

\* The watermarks and the floor of the counter: a committed run was consumed, and
\* consumed numbers are issued.
LEMMA WatermarkSteps ==
    ASSUME IInv,
           \/ \E s \in Returned : AdvanceCommit(s)
           \/ \E m \in 1 .. MaxIssued : AdvanceMin(m) \/ RaiseIssuedFloor(m)
    PROVE  IInv'
<1>1. TypeCore /\ SegmentsInv /\ GrantsInv /\ WatermarksOrdered
    BY DEF IInv
<1>2. /\ issued \in 0 .. MaxIssued /\ maxSeq \in Nat /\ minSeq \in Nat
      /\ minSeq <= maxSeq /\ maxSeq <= issued
    BY <1>1 DEF TypeCore, WatermarksOrdered
<1>3. ASSUME NEW s \in Returned
      PROVE  s \in Nat /\ s <= issued
    <2>1. PICK i \in 1 .. Len(granted) : s = granted[i].hi
        BY <1>1 DEF Returned, TypeCore
    <2>2. granted[i] \in Grant
        BY <1>1 DEF TypeCore
    <2>3. s \in Nat /\ granted[i].lo \in Nat /\ granted[i].lo <= s
        BY <1>1, <2>1, <2>2 DEF Grant, GrantsInv
    <2>4. s \in granted[i].lo .. granted[i].hi
        BY <2>1, <2>3
    <2>. QED
        BY <1>1, <2>1, <2>3, <2>4 DEF GrantsInv, SegmentsInv
<1>4. /\ issued' \in 0 .. MaxIssued /\ issued <= issued'
      /\ maxSeq' \in Nat /\ minSeq' \in Nat /\ WatermarksOrdered'
      /\ UNCHANGED <<cache, pc, tries, local, late, resends, calls, taken, granted>>
    <2>1. ASSUME NEW s \in Returned, AdvanceCommit(s)
          PROVE  <1>4!:
        BY <1>2, <1>3, <2>1 DEF AdvanceCommit, Larger, WatermarksOrdered
    <2>2. ASSUME NEW m \in 1 .. MaxIssued, AdvanceMin(m)
          PROVE  <1>4!:
        BY <1>2, <2>2, BoundsAssumption DEF AdvanceMin, Larger, WatermarksOrdered
    <2>3. ASSUME NEW m \in 1 .. MaxIssued, RaiseIssuedFloor(m)
          PROVE  <1>4!:
        BY <1>2, <2>3, BoundsAssumption DEF RaiseIssuedFloor, Larger, WatermarksOrdered
    <2>. QED
        BY <2>1, <2>2, <2>3
<1>5. \A c \in Callers : Held(c)' => Held(c) /\ own'[c] = own[c]
    BY <1>4 DEF Held, local
<1>6. SegmentsInv'
    BY <1>1, <1>2, <1>4, <1>5, SegmentsStay
<1>7. TypeCore'
    BY <1>1, <1>4 DEF TypeCore, cache, local
<1>8. GrantsInv'
    BY <1>1, <1>4, GrantsStay
<1>. QED
    BY <1>4, <1>6, <1>7, <1>8 DEF IInv

LEMMA StepIInv == ASSUME IInv, [Next]_vars PROVE IInv'
<1>1. ASSUME NEW c \in Callers, Malloc(c)
      PROVE  IInv'
    <2>1. CASE SetSegmentFails(c)
        BY <2>1, QuietSteps, LoadSteps, DelayedSet DEF SetSegmentFails
    <2>2. CASE SetSegment(c)
        BY <2>2, LoadSteps
    <2>. QED
        BY <1>1, <2>1, <2>2, QuietSteps, IssueSteps, AllocSteps DEF Malloc
<1>2. CASE UNCHANGED vars
    <2>1. UNCHANGED <<issued, maxSeq, minSeq, curr, last, pc, need, tries, own, late,
                      resends, calls, taken, granted>>
        BY <1>2 DEF vars, mongo, cache, local
    <2>2. TypeCore' /\ GrantsInv' /\ WatermarksOrdered'
        BY <2>1 DEF IInv, TypeCore, GrantsInv, WatermarksOrdered
    <2>3. SegmentsInv'
        BY <2>1 DEF IInv, SegmentsInv, Loadable, Unused, Apart, Rest, Held
    <2>. QED
        BY <2>2, <2>3 DEF IInv
<1>. QED
    BY <1>1, <1>2, LoadSteps, ExpireStep, WatermarkSteps DEF Next

\* The inductive invariant holds of every behaviour.
THEOREM Inductive == Spec => []IInv
<1>1. Init => IInv
    BY InitIInv
<1>2. IInv /\ [Next]_vars => IInv'
    BY StepIInv
<1>. QED
    BY <1>1, <1>2, PTL DEF Spec

\* No number is returned by two calls (Malloc, seq.go:86-139).
THEOREM SeqsAreUnique == Spec => []UniqueSeqs
<1>1. IInv => UniqueSeqs
    <2> SUFFICES ASSUME IInv PROVE UniqueSeqs
        OBVIOUS
    <2>1. GrantsInv /\ granted \in Seq(Grant)
        BY DEF IInv, TypeCore
    <2>2. DOMAIN granted = 1 .. Len(granted)
        BY <2>1
    <2>. QED
        BY <2>1, <2>2 DEF GrantsInv, UniqueSeqs
<1>. QED
    BY <1>1, Inductive, PTL

\* min_seq <= max_seq <= issued_seq at every moment (db.go:51-91).
THEOREM WatermarksStayOrdered == Spec => []WatermarksOrdered
<1>1. IInv => WatermarksOrdered
    BY DEF IInv
<1>. QED
    BY <1>1, Inductive, PTL

\* The loop of Malloc stays within MaxRetry, and every variable within its type.
THEOREM TypeCorrect == Spec => []TypeOK
<1>1. Init => TriesInv
    BY BoundsAssumption DEF Init, TriesInv
<1>2. ASSUME TypeCore, TriesInv, [Next]_vars
      PROVE  TriesInv'
    <2>0. /\ pc \in [Callers -> {"idle", "fast", "alloc", "set", "issue", "done", "failed"}]
          /\ tries \in [Callers -> 0 .. MaxRetry] /\ MaxRetry \in Nat \ {0}
        BY <1>2, BoundsAssumption DEF TypeCore, TriesInv
    <2>1. ASSUME NEW c \in Callers, Malloc(c)
          PROVE  TriesInv'
        <3>1. CASE Again(c) /\ pc[c] \in {"fast", "alloc", "set", "issue"}
            <4>1. tries[c] < MaxRetry /\ tries[c] \in Nat
                BY <1>2, <2>0, <3>1 DEF TriesInv
            <4>2. tries' = [tries EXCEPT ![c] = tries[c] + 1]
                BY <3>1 DEF Again
            <4>3. tries' \in [Callers -> 0 .. MaxRetry]
                BY <2>0, <4>1, <4>2
            <4>4. pc' = [pc EXCEPT ![c] = IF tries[c] + 1 < MaxRetry THEN "alloc" ELSE "failed"]
                BY <3>1 DEF Again, Goto
            <4>5. \A d \in Callers : pc'[d] \in {"fast", "alloc", "set", "issue"}
                                         => tries'[d] < MaxRetry
                BY <1>2, <2>0, <4>1, <4>2, <4>4 DEF TriesInv
            <4>. QED
                BY <4>3, <4>5 DEF TriesInv
        <3>2. CASE Begin(c)
            <4>1. tries' = [tries EXCEPT ![c] = 0]
                BY <3>2 DEF Begin
            <4>2. pc' = [pc EXCEPT ![c] = "fast"]
                BY <3>2 DEF Begin, Goto
            <4>. QED
                BY <1>2, <2>0, <4>1, <4>2 DEF TriesInv
        <3>3. CASE /\ UNCHANGED tries
                   /\ \E l : Goto(c, l)
                   /\ pc'[c] \in {"fast", "alloc", "set", "issue"}
                          => pc[c] \in {"fast", "alloc", "set", "issue"}
            BY <1>2, <2>0, <3>3 DEF TriesInv, Goto
        <3>4. CASE TryFast(c) \/ TryFastFails(c) \/ AllocSegment(c) \/ AllocSegmentFails(c)
                   \/ SetSegment(c) \/ CallerCrashes(c)
            BY <2>0, <3>3, <3>4 DEF TryFast, TryFastFails, AllocSegment, AllocSegmentFails,
                                    SetSegment, CallerCrashes, Return, Goto
        <3>5. CASE TryOwn(c) \/ TryOwnFails(c) \/ SetSegmentFails(c)
            BY <2>0, <3>1, <3>3, <3>5 DEF TryOwn, TryOwnFails, SetSegmentFails, Return, Goto
        <3>. QED
            BY <2>1, <3>2, <3>4, <3>5 DEF Malloc
    <2>2. CASE UNCHANGED <<pc, tries>>
        BY <1>2, <2>2 DEF TriesInv
    <2>3. CASE SetSegmentLate \/ Expire
        BY <2>2, <2>3 DEF SetSegmentLate, Expire
    <2>4. CASE \E s \in Returned : AdvanceCommit(s)
        BY <2>2, <2>4 DEF AdvanceCommit
    <2>5. CASE \E m \in 1 .. MaxIssued : AdvanceMin(m) \/ RaiseIssuedFloor(m)
        BY <2>2, <2>5 DEF AdvanceMin, RaiseIssuedFloor
    <2>. QED
        BY <1>2, <2>1, <2>2, <2>3, <2>4, <2>5 DEF Next, vars
<1>3. IInv => TypeCore
    BY DEF IInv
<1>4. IInv /\ TriesInv => TypeOK
    <2> SUFFICES ASSUME IInv, TriesInv PROVE TypeOK
        OBVIOUS
    <2>1. TypeCore /\ curr \in Nat
        BY DEF IInv, TypeCore, SegmentsInv
    <2>2. tries \in [Callers -> 0 .. MaxRetry]
        BY DEF TriesInv
    <2>. QED
        BY <2>1, <2>2 DEF TypeCore, TypeOK
<1>5. Spec => []TriesInv
    BY <1>1, <1>2, <1>3, Inductive, PTL DEF Spec
<1>. QED
    BY <1>4, <1>5, Inductive, PTL

\* The allocator implements the abstract issuer: consuming from the cached segment is
\* Take of a fresh run, every other step a stutter.
THEOREM ImplementsIssuer == Spec => IssuerSpec
<1>1. Init => Issuer!Init
    BY DEF Init, Issuer!Init
<1>2. ASSUME IInv, [Next]_vars
      PROVE  [Issuer!Next]_taken
    <2>1. ASSUME NEW n \in Needs, curr + n <= last, Consume(n)
          PROVE  Issuer!Next
        <3>1. /\ n \in Nat \ {0} /\ curr \in Int /\ last \in 0 .. MaxIssued /\ 0 <= curr
              /\ taken \in SUBSET Nat /\ Unused(Rest) /\ MaxIssued \in Nat
            BY <1>2, <2>1, NeedsAssumption, BoundsAssumption DEF IInv, TypeCore, SegmentsInv
        <3>2. curr + 1 \in 1 .. MaxIssued
            BY <2>1, <3>1
        <3>3. Issuer!Run(curr + 1, n) = curr + 1 .. curr + n
            BY <3>1 DEF Issuer!Run
        <3>4. Issuer!Run(curr + 1, n) \cap taken = {}
            BY <2>1, <3>1, <3>3 DEF Unused, Rest
        <3>5. Issuer!Take(curr + 1, n)
            BY <2>1, <3>3, <3>4 DEF Consume, Issuer!Take
        <3>. QED
            BY <3>2, <3>5 DEF Issuer!Next
    <2>2. ASSUME NEW c \in Callers, Malloc(c)
          PROVE  [Issuer!Next]_taken
        <3>1. need[c] \in Needs
            BY <1>2 DEF IInv, TypeCore
        <3>2. CASE TryFast(c) \/ TryFastFails(c) \/ TryOwn(c) \/ TryOwnFails(c)
            BY <2>1, <3>1, <3>2 DEF TryFast, TryFastFails, TryOwn, TryOwnFails, Fits
        <3>3. CASE Begin(c) \/ AllocSegment(c) \/ AllocSegmentFails(c) \/ SetSegment(c)
                   \/ SetSegmentFails(c) \/ CallerCrashes(c)
            BY <3>3 DEF Begin, AllocSegment, AllocSegmentFails, SetSegment, SetSegmentFails,
                        CallerCrashes
        <3>. QED
            BY <2>2, <3>2, <3>3 DEF Malloc
    <2>3. CASE SetSegmentLate \/ Expire \/ UNCHANGED vars
        BY <2>3 DEF SetSegmentLate, Expire, vars
    <2>4. CASE \/ \E s \in Returned : AdvanceCommit(s)
               \/ \E m \in 1 .. MaxIssued : AdvanceMin(m) \/ RaiseIssuedFloor(m)
        BY <2>4 DEF AdvanceCommit, AdvanceMin, RaiseIssuedFloor
    <2>. QED
        BY <1>2, <2>2, <2>3, <2>4 DEF Next
<1>. QED
    BY <1>1, <1>2, Inductive, PTL DEF Spec, IssuerSpec, Issuer!Spec

=============================================================================
