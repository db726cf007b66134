------------------------------ MODULE SeqAlloc ------------------------------
(***************************************************************************)
(* The sequence numbers of one conversation (module/chat/seq).  Malloc     *)
(* first tries the segment cached in Redis (luaInSegment); when that is    *)
(* missing or used up it takes a block from the Mongo counter issued_seq   *)
(* (AllocSegment), overwrites the cached segment with it (luaSetSegment)   *)
(* and tries again.  Callers are the goroutines of all data nodes.         *)
(*                                                                         *)
(* Each script and each Mongo update is atomic; everything between two of  *)
(* them interleaves.  A call may be lost before it runs, its reply may be  *)
(* lost after it ran, or it may run after its caller gave up on it.  Left  *)
(* out: mill, the sleeps, and the unknown reply code no script returns.    *)
(***************************************************************************)
EXTENDS Integers, Sequences

CONSTANTS
    Callers,
    Needs,       \* run lengths asked for (HandlerTopicMessage asks for 1)
    BlockOf,     \* BlockSizeFn
    MaxRetry,    \* Allocator.MaxRetry
    MaxIssued,   \* bound: the Mongo counter
    MaxCalls,    \* bound: calls of Malloc
    MaxResends   \* bound: SetSegment commands the Redis client sends twice

ASSUME NeedsAssumption == Needs \subseteq Nat \ {0}
\* defaultBlock: 256 below 32, else eight times what is wanted.
ASSUME BlockAssumption == BlockOf \in [Needs -> Nat] /\ \A n \in Needs : n <= BlockOf[n]
ASSUME BoundsAssumption ==
    /\ MaxRetry \in Nat \ {0}
    /\ MaxIssued \in Nat /\ MaxCalls \in Nat /\ MaxResends \in Nat

Segment == [lo : 0 .. MaxIssued + 1, hi : 0 .. MaxIssued]
Grant == [lo : Nat, hi : Nat]
Larger(x, y) == IF x > y THEN x ELSE y

VARIABLES
    issued, maxSeq, minSeq,   \* the seq_conversation document, zeros if absent
    curr, last,               \* curr and end of the Redis key, zeros if absent
    pc, need, tries,          \* each call: program counter, need, the loop's i
    own,                      \* the segment the call took from Mongo
    late,                     \* SetSegment commands given up on, still to run
    resends, calls,           \* bounded counters
    taken,                    \* history: numbers consumed in Redis
    granted                   \* history: runs returned to callers, in order

mongo == <<issued, maxSeq, minSeq>>
cache == <<curr, last>>
local == <<need, own>>
vars == <<mongo, cache, pc, tries, local, late, resends, calls, taken, granted>>

NoSegment == [lo |-> 0, hi |-> 0]

Init ==
    /\ issued = 0 /\ maxSeq = 0 /\ minSeq = 0
    /\ curr = 0 /\ last = 0
    /\ pc = [c \in Callers |-> "idle"]
    /\ need \in [Callers -> Needs]
    /\ tries = [c \in Callers |-> 0]
    /\ own = [c \in Callers |-> NoSegment]
    /\ late = {}
    /\ resends = 0 /\ calls = 0
    /\ taken = {}
    /\ granted = <<>>

-----------------------------------------------------------------------------
Goto(c, l) == pc' = [pc EXCEPT ![c] = l]

\* continue: the next iteration, or the error after MaxRetry of them.
Again(c) ==
    /\ tries' = [tries EXCEPT ![c] = @ + 1]
    /\ Goto(c, IF tries[c] + 1 < MaxRetry THEN "alloc" ELSE "failed")

Returned == {granted[i].hi : i \in DOMAIN granted}

Begin(c) ==
    /\ pc[c] \in {"idle", "done", "failed"}
    /\ calls < MaxCalls
    /\ calls' = calls + 1
    /\ Goto(c, "fast")
    /\ tries' = [tries EXCEPT ![c] = 0]
    /\ \E n \in Needs : need' = [need EXCEPT ![c] = n]
    /\ own' = [own EXCEPT ![c] = NoSegment]
    /\ UNCHANGED <<mongo, cache, late, resends, taken, granted>>

\* Mutation: newv > endv + 1 instead of newv > endv.
FitsOneTooMany(n, segEnd) ==
    last # 0 /\ (segEnd = 0 \/ segEnd = last) /\ curr + n <= last + 1

\* luaInSegment for need numbers; segEnd = 0 accepts any segment.  An absent key
\* holds zeros here: the script answers 1 for it and 3 for a used-up one, and
\* Malloc treats the two alike.
Fits(n, segEnd) == (segEnd = 0 \/ segEnd = last) /\ curr + n <= last

Consume(n) ==
    /\ curr' = curr + n
    /\ taken' = taken \cup (curr + 1 .. curr + n)
    /\ UNCHANGED last

Return(c) ==
    /\ granted' = Append(granted, [lo |-> curr + 1, hi |-> curr + need[c]])
    /\ Goto(c, "done")
    /\ UNCHANGED tries

\* The first attempt; any failure falls through to Mongo.
TryFast(c) ==
    /\ pc[c] = "fast"
    /\ IF Fits(need[c], 0)
       THEN /\ Consume(need[c])
            /\ Return(c)
       ELSE /\ Goto(c, "alloc")
            /\ UNCHANGED <<cache, tries, taken, granted>>
    /\ UNCHANGED <<mongo, local, late, resends, calls>>

TryFastFails(c) ==
    /\ pc[c] = "fast"
    /\ \/ Fits(need[c], 0) /\ Consume(need[c])
       \/ UNCHANGED <<cache, taken>>
    /\ Goto(c, "alloc")
    /\ UNCHANGED <<mongo, tries, local, late, resends, calls, granted>>

\* AllocSegment: FindOneAndUpdate $inc, the value before gives the block.  The
\* conversation has one document: without its unique index, which EnsureIndexes may
\* fail to build, overlapping upserts could insert two, each numbering from 0.
AllocSegment(c) ==
    /\ pc[c] = "alloc"
    /\ issued + BlockOf[need[c]] <= MaxIssued
    /\ issued' = issued + BlockOf[need[c]]
    /\ own' = [own EXCEPT ![c] = [lo |-> issued + 1, hi |-> issued']]
    /\ Goto(c, "set")
    /\ UNCHANGED <<maxSeq, minSeq, cache, tries, need, late, resends, calls,
                   taken, granted>>

\* An error of Mongo ends the call, whether or not the counter moved.
AllocSegmentFails(c) ==
    /\ pc[c] = "alloc"
    /\ issued' \in {issued, issued + BlockOf[need[c]]} \cap (0 .. MaxIssued)
    /\ Goto(c, "failed")
    /\ UNCHANGED <<maxSeq, minSeq, cache, tries, local, late, resends, calls, taken, granted>>

\* Mutation: the segment is loaded with curr = start instead of start - 1, less one.
LoadOffByOne(s) ==
    /\ curr' = s.lo - 2
    /\ last' = s.hi

\* luaSetSegment: unconditional.
Load(s) ==
    /\ curr' = s.lo - 1
    /\ last' = s.hi

SetSegment(c) ==
    /\ pc[c] = "set"
    /\ Load(own[c])
    /\ Goto(c, "issue")
    /\ UNCHANGED <<mongo, tries, local, late, resends, calls, taken, granted>>

\* The command ran, never runs, or runs later: the caller sees an error each time.
SetSegmentFails(c) ==
    /\ pc[c] = "set"
    /\ \/ Load(own[c]) /\ UNCHANGED late
       \/ UNCHANGED <<cache, late>>
       \/ late' = late \cup {own[c]} /\ UNCHANGED cache
    /\ Again(c)
    /\ UNCHANGED <<mongo, local, resends, calls, taken, granted>>

\* go-redis retries a command whose reply timed out: the first copy has run.
SetSegmentResent(c) ==
    /\ pc[c] = "set"
    /\ resends < MaxResends
    /\ resends' = resends + 1
    /\ Load(own[c])
    /\ UNCHANGED <<mongo, pc, tries, local, late, calls, taken, granted>>

SetSegmentLate ==
    \E s \in late :
        /\ Load(s)
        /\ late' = late \ {s}
        /\ UNCHANGED <<mongo, pc, tries, local, resends, calls, taken, granted>>

\* The second attempt insists on the caller's own segment.
TryOwn(c) ==
    /\ pc[c] = "issue"
    /\ IF Fits(need[c], own[c].hi)
       THEN /\ Consume(need[c])
            /\ Return(c)
       ELSE /\ Again(c)
            /\ UNCHANGED <<cache, taken, granted>>
    /\ UNCHANGED <<mongo, local, late, resends, calls>>

TryOwnFails(c) ==
    /\ pc[c] = "issue"
    /\ \/ Fits(need[c], own[c].hi) /\ Consume(need[c])
       \/ UNCHANGED <<cache, taken>>
    /\ Again(c)
    /\ UNCHANGED <<mongo, local, late, resends, calls, granted>>

CallerCrashes(c) ==
    /\ pc[c] \in {"fast", "alloc", "set", "issue"}
    /\ Goto(c, "idle")
    /\ UNCHANGED <<mongo, cache, tries, local, late, resends, calls, taken, granted>>

\* PEXPIRE of one hour, an eviction or a flush.
Expire ==
    /\ curr' = 0 /\ last' = 0
    /\ UNCHANGED <<mongo, pc, tries, local, late, resends, calls, taken, granted>>

\* AdvanceCommit, for a run a caller holds: $max of max_seq.
AdvanceCommit(toSeq) ==
    /\ maxSeq' = Larger(maxSeq, toSeq)
    /\ UNCHANGED <<issued, minSeq, cache, pc, tries, local, late, resends, calls,
                   taken, granted>>

\* Mutation: the filter max_seq >= newMin is missing.
AdvanceMinUnguarded(newMin) ==
    /\ minSeq' = Larger(minSeq, newMin)
    /\ UNCHANGED <<issued, maxSeq, cache, pc, tries, local, late, resends, calls,
                   taken, granted>>

\* AdvanceMin: the filter keeps min_seq at or below max_seq.
AdvanceMin(newMin) ==
    /\ maxSeq >= newMin
    /\ minSeq' = Larger(minSeq, newMin)
    /\ UNCHANGED <<issued, maxSeq, cache, pc, tries, local, late, resends, calls,
                   taken, granted>>

RaiseIssuedFloor(to) ==
    /\ issued' = Larger(issued, to)
    /\ UNCHANGED <<maxSeq, minSeq, cache, pc, tries, local, late, resends, calls,
                   taken, granted>>

Malloc(c) ==
    \/ Begin(c)
    \/ TryFast(c)
    \/ TryFastFails(c)
    \/ AllocSegment(c)
    \/ AllocSegmentFails(c)
    \/ SetSegment(c)
    \/ SetSegmentFails(c)
    \/ TryOwn(c)
    \/ TryOwnFails(c)
    \/ CallerCrashes(c)

Next ==
    \/ \E c \in Callers : Malloc(c)
    \/ SetSegmentLate
    \/ Expire
    \/ \E s \in Returned : AdvanceCommit(s)
    \/ \E m \in 1 .. MaxIssued : AdvanceMin(m) \/ RaiseIssuedFloor(m)

Spec == Init /\ [][Next]_vars

\* The same with the Redis client's retransmissions.
SpecResends == Init /\ [][Next \/ \E c \in Callers : SetSegmentResent(c)]_vars

-----------------------------------------------------------------------------
TypeOK ==
    /\ issued \in 0 .. MaxIssued /\ maxSeq \in Nat /\ minSeq \in Nat
    /\ curr \in Nat /\ last \in 0 .. MaxIssued
    /\ pc \in [Callers -> {"idle", "fast", "alloc", "set", "issue", "done", "failed"}]
    /\ need \in [Callers -> Needs]
    /\ tries \in [Callers -> 0 .. MaxRetry]
    /\ own \in [Callers -> Segment]
    /\ late \in SUBSET Segment
    /\ resends \in 0 .. MaxResends /\ calls \in 0 .. MaxCalls
    /\ taken \in SUBSET Nat
    /\ granted \in Seq(Grant)

\* No number is returned by two calls, whatever is lost, delayed, expired or
\* crashed in between: ix_conv_seq would reject the second message.  It needs each
\* SetSegment to run at most once: under SpecResends the second copy resets curr
\* below numbers already handed out.
UniqueSeqs ==
    \A i, j \in DOMAIN granted :
        i < j => granted[i].hi < granted[j].lo \/ granted[j].hi < granted[i].lo

\* min_seq <= max_seq <= issued_seq: the readable range (min, max] is well formed
\* and never passes what was issued (model/seq.go:30-34, db.go:63), for calls that
\* commit, trim and raise the floor in any order.
WatermarksOrdered == minSeq <= maxSeq /\ maxSeq <= issued

\* The allocator implements the abstract issuer: a number consumed in Redis is
\* never consumed again, even by a call whose reply was lost.
Issuer == INSTANCE SeqIssuer WITH MaxSeq <- MaxIssued
IssuerSpec == Issuer!Spec

=============================================================================
