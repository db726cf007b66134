------------------------- MODULE UserSessions_proofs -------------------------
(***************************************************************************)
(* Proofs about UserSessions for any number of logins, devices, tokens and *)
(* checks: what a check may accept, and which sessions miss the archive.   *)
(***************************************************************************)
EXTENDS UserSessions, TLAPS

\* A login that has not written yet has no session, and never had one.
NotYet ==
    \A l \in Logins :
        lpc[l] \in {"new", "archive", "replace", "insert"} => l \notin docs \cup gone

\* A login that saw one session alone has found it, and archived it before it replaces.
SeenIsArchived ==
    \A l, s \in Logins : seen[l] = {s} =>
        /\ lpc[l] = "archive" => old[l] = s
        /\ lpc[l] = "replace" => s \in log

\* The session a check holds is its token's; one it loaded or confirmed was there
\* after the check began.
HoldsItsOwn ==
    \A c \in Checks :
        /\ before[c] \subseteq gone
        /\ cpc[c] \in {"confirm", "fill", "accepted"} =>
               sid[c] \in Logins /\ Token[sid[c]] = asks[c]
        /\ cpc[c] \in {"fill", "accepted"} => sid[c] \notin before[c]

IInv ==
    /\ TypeOK
    /\ NotYet
    /\ SeenIsArchived
    /\ HoldsItsOwn
    /\ LostOnlyToARace

LEMMA InitIInv == Init => IInv
    BY SessionsAssumption
    DEF Init, IInv, TypeOK, NotYet, SeenIsArchived, HoldsItsOwn, LostOnlyToARace

-----------------------------------------------------------------------------
(* Logins: they leave the checks alone, and sessions are only ever added to log *)
(* and gone.                                                                    *)

\* The end of a login.
LEMMA FinishKeeps ==
    ASSUME TypeOK, NEW l \in Logins, Finish(l)
    PROVE  /\ lpc' \in [Logins -> {"new", "archive", "replace", "insert", "sync", "over"}]
           /\ old' \in [Logins -> Logins \cup {None}]
           /\ seen' \in [Logins -> SUBSET Logins]
           /\ lpc'[l] = "over" /\ seen'[l] = {}
           /\ \A k \in Logins \ {l} : lpc'[k] = lpc[k] /\ old'[k] = old[k] /\ seen'[k] = seen[k]
    BY DEF TypeOK, Finish, ToLogin

LEMMA LoginKeepsChecks ==
    ASSUME IInv, UNCHANGED check, gone \subseteq gone'
    PROVE  HoldsItsOwn'
    BY DEF IInv, HoldsItsOwn, check

LEMMA LoginStepKeeps ==
    ASSUME IInv, NEW l \in Logins, LoginStep(l)
    PROVE  IInv'
<1> USE DEF IInv
<1>1. CASE FindOld(l)
  <2>1. Of(Device[l]) \subseteq Logins /\ None \notin Logins
      BY SessionsAssumption DEF TypeOK, Of
  <2>2. UNCHANGED <<docs, log, key, expired, slow, past, check>> /\ UNCHANGED <<gone, raced, cpc, asks, sid, before>>
      BY <1>1 DEF FindOld, past, check
  <2>3. PICK s \in Logins \cup {None} :
            /\ s = None => Of(Device[l]) = {}
            /\ s # None => s \in Of(Device[l])
            /\ old' = [old EXCEPT ![l] = s]
            /\ lpc' = [lpc EXCEPT ![l] = IF s = None THEN "replace" ELSE "archive"]
            /\ seen' = [seen EXCEPT ![l] = Of(Device[l])]
            /\ lpc[l] = "new"
      BY <1>1, <2>1 DEF FindOld, ToLogin
  <2>4. TypeOK'
      BY <2>1, <2>2, <2>3 DEF TypeOK
  <2>5. NotYet'
      BY <2>2, <2>3 DEF NotYet, TypeOK
  <2>6. SeenIsArchived'
    <3> SUFFICES ASSUME NEW k \in Logins, NEW x \in Logins, seen'[k] = {x}
                 PROVE  /\ lpc'[k] = "archive" => old'[k] = x
                        /\ lpc'[k] = "replace" => x \in log'
        BY DEF SeenIsArchived
    <3>1. CASE k = l
      <4>1. Of(Device[l]) = {x} /\ old'[l] = s
          BY <2>3, <3>1 DEF TypeOK
      <4>2. s = x /\ lpc'[l] = "archive"
          BY <2>1, <2>3, <4>1 DEF TypeOK
      <4> QED
          BY <3>1, <4>1, <4>2
    <3>2. CASE k # l
      <4>1. seen'[k] = seen[k] /\ lpc'[k] = lpc[k] /\ old'[k] = old[k] /\ log' = log
          BY <2>2, <2>3, <3>2 DEF TypeOK
      <4> QED
          BY <4>1 DEF SeenIsArchived
    <3> QED
        BY <3>1, <3>2
  <2> QED
      BY <2>2, <2>4, <2>5, <2>6, LoginKeepsChecks DEF LostOnlyToARace
<1>2. CASE Archive(l)
  <2>1. UNCHANGED <<docs, key, expired, slow, old, seen, gone, raced, cpc, asks, sid, before>>
      BY <1>2 DEF Archive, past, check
  <2>2. /\ lpc[l] = "archive" /\ old[l] \in Logins
        /\ log' = log \cup {old[l]}
        /\ lpc' = [lpc EXCEPT ![l] = "replace"]
      BY <1>2, SessionsAssumption DEF Archive, ToLogin, TypeOK
  <2>3. TypeOK'
      BY <2>1, <2>2 DEF TypeOK
  <2>4. NotYet' /\ SeenIsArchived'
      BY <2>1, <2>2 DEF NotYet, SeenIsArchived, TypeOK
  <2> QED
      BY <1>2, <2>1, <2>2, <2>3, <2>4, LoginKeepsChecks DEF LostOnlyToARace, Archive
<1>3. CASE Replace(l)
  <2>1. PICK s \in Logins :
            /\ s \in docs
            /\ docs' = (docs \ {s}) \cup {l}
            /\ gone' = gone \cup {s}
            /\ raced' = IF seen[l] = {s} THEN raced ELSE raced \cup {s}
      BY <1>3 DEF Replace, Of, TypeOK
  <2>2. /\ lpc[l] = "replace"
        /\ lpc' = [lpc EXCEPT ![l] = "sync"]
        /\ seen' = [seen EXCEPT ![l] = {}]
        /\ UNCHANGED <<log, key, expired, slow, old, cpc, asks, sid, before>>
        /\ UNCHANGED check
      BY <1>3 DEF Replace, ToLogin, check
  <2>3. l \notin docs \cup gone /\ s # l
      BY <2>1, <2>2 DEF NotYet
  <2>4. TypeOK'
      BY <2>1, <2>2, <2>3 DEF TypeOK
  <2>5. NotYet' /\ SeenIsArchived'
      BY <2>1, <2>2, <2>3 DEF NotYet, SeenIsArchived, TypeOK
  <2>6. LostOnlyToARace'
      BY <2>1, <2>2 DEF LostOnlyToARace, SeenIsArchived
  <2> QED
      BY <2>1, <2>2, <2>4, <2>5, <2>6, LoginKeepsChecks
<1>4. CASE MatchNone(l)
  <2>1. /\ UNCHANGED <<docs, log, key, expired, slow, old, seen, gone, raced, cpc, asks, sid, before>>
        /\ UNCHANGED check
        /\ lpc[l] = "replace" /\ lpc' = [lpc EXCEPT ![l] = "insert"]
      BY <1>4 DEF MatchNone, ToLogin, past, check
  <2> QED
      BY <2>1, LoginKeepsChecks DEF TypeOK, NotYet, SeenIsArchived, LostOnlyToARace
<1>5. CASE Insert(l)
  <2>1. /\ UNCHANGED <<log, key, expired, slow, old, seen, gone, raced, cpc, asks, sid, before>>
        /\ UNCHANGED check
        /\ lpc[l] = "insert" /\ lpc' = [lpc EXCEPT ![l] = "sync"]
        /\ docs' = docs \cup {l}
      BY <1>5 DEF Insert, ToLogin, past, check
  <2>2. l \notin gone
      BY <2>1 DEF NotYet
  <2> QED
      BY <2>1, <2>2, LoginKeepsChecks DEF TypeOK, NotYet, SeenIsArchived, LostOnlyToARace
<1>6. CASE SyncRedis(l)
  <2>1. /\ UNCHANGED <<docs, log, expired, slow, gone, raced, cpc, asks, sid, before>>
        /\ UNCHANGED check
      BY <1>6 DEF SyncRedis, past, check
  <2>2. Token[l] \in Tokens /\ \A k \in Logins : Token[k] \in Tokens
      BY SessionsAssumption
  <2>3. /\ key' \in [Tokens -> Logins \cup {None, Negative}]
        /\ \A t \in Tokens : key'[t] \in Logins => Token[key'[t]] = t
      BY <1>6, <2>2, SessionsAssumption DEF SyncRedis, TypeOK
  <2>4. lpc[l] = "sync" /\ Finish(l)
      BY <1>6 DEF SyncRedis
  <2>5. TypeOK'
      BY <2>1, <2>3, <2>4, FinishKeeps DEF TypeOK
  <2>6. NotYet' /\ SeenIsArchived'
      BY <2>1, <2>4, FinishKeeps DEF TypeOK, NotYet, SeenIsArchived
  <2> QED
      BY <2>1, <2>5, <2>6, LoginKeepsChecks DEF LostOnlyToARace
<1>7. CASE SyncFails(l) \/ Abort(l)
  <2>1. /\ UNCHANGED <<docs, log, key, expired, slow, gone, raced, cpc, asks, sid, before>>
        /\ UNCHANGED check /\ Finish(l)
      BY <1>7 DEF SyncFails, Abort, past, check
  <2>2. TypeOK' /\ NotYet' /\ SeenIsArchived'
      BY <2>1, FinishKeeps DEF TypeOK, NotYet, SeenIsArchived
  <2> QED
      BY <2>1, <2>2, LoginKeepsChecks DEF LostOnlyToARace
<1> QED
    BY <1>1, <1>2, <1>3, <1>4, <1>5, <1>6, <1>7 DEF LoginStep

-----------------------------------------------------------------------------
(* Checks: they write Redis only. *)

LEMMA CheckKeepsLogins ==
    ASSUME IInv, UNCHANGED <<docs, log, login, past>>
    PROVE  NotYet' /\ SeenIsArchived' /\ LostOnlyToARace'
    BY DEF IInv, NotYet, SeenIsArchived, LostOnlyToARace, login, past

LEMMA CheckStepKeeps ==
    ASSUME IInv, NEW c \in Checks,
           CheckStep(c) \/ \E t \in Tokens : Begin(c, t)
    PROVE  IInv'
<1> USE DEF IInv
<1>1. /\ UNCHANGED <<docs, log, login, past>>
      /\ UNCHANGED <<expired, slow, lpc, old, seen, gone, raced>>
    BY DEF CheckStep, Begin, Get, Confirm, Load, Fill, Poison, login, past
<1>2. NotYet' /\ SeenIsArchived' /\ LostOnlyToARace'
    BY <1>1, CheckKeepsLogins
<1>3. ASSUME NEW t \in Tokens, Begin(c, t) PROVE TypeOK' /\ HoldsItsOwn'
    BY <1>1, <1>3 DEF Begin, ToCheck, TypeOK, HoldsItsOwn
<1>4. CASE Get(c)
  <2>1. asks[c] \in Tokens /\ UNCHANGED key
      BY <1>4 DEF Get, TypeOK
  <2>2. key[asks[c]] \in Logins => Token[key[asks[c]]] = asks[c]
      BY <2>1 DEF TypeOK
  <2> QED
      BY <1>1, <1>2, <1>4, <2>1, <2>2 DEF Get, Refuse, ToCheck, TypeOK, HoldsItsOwn
<1>5. CASE Confirm(c)
  <2>1. sid[c] \in Live => sid[c] \notin before[c]
      BY DEF Live, TypeOK, HoldsItsOwn
  <2> QED
      BY <1>1, <1>2, <1>5, <2>1 DEF Confirm, ToCheck, TypeOK, HoldsItsOwn
<1>6. CASE Load(c)
  <2>1. \A s \in Live : s \in Logins /\ s \notin before[c]
      BY DEF Live, TypeOK, HoldsItsOwn
  <2> QED
      BY <1>1, <1>2, <1>6, <2>1 DEF Load, Refuse, ToCheck, TypeOK, HoldsItsOwn
<1>7. CASE Fill(c)
    BY <1>1, <1>2, <1>7 DEF Fill, ToCheck, TypeOK, HoldsItsOwn
<1>8. CASE Poison(c)
    BY <1>1, <1>2, <1>8, SessionsAssumption DEF Poison, Refuse, ToCheck, TypeOK, HoldsItsOwn
<1> QED
    BY <1>2, <1>3, <1>4, <1>5, <1>6, <1>7, <1>8 DEF CheckStep

LEMMA StepIInv == IInv /\ [Next]_vars => IInv'
<1> SUFFICES ASSUME IInv, [Next]_vars
             PROVE  IInv'
    OBVIOUS
<1>1. CASE \/ \E t \in Tokens : Fade(t) \/ Expire(t)
           \/ Settle \/ UNCHANGED vars
  <2>1. /\ UNCHANGED <<docs, log, login, past, check>>
        /\ UNCHANGED <<lpc, old, seen, gone, raced, cpc, asks, sid, before>>
      BY <1>1 DEF Fade, Expire, Settle, vars, login, past, check
  <2>2. slow' \in BOOLEAN
      BY <1>1 DEF IInv, TypeOK, Fade, Expire, Settle, vars
  <2>3. expired' \in SUBSET Tokens
      BY <1>1, SessionsAssumption DEF IInv, TypeOK, Fade, Expire, Settle, vars
  <2>4. \/ UNCHANGED key
        \/ \E t \in Tokens : key' = [key EXCEPT ![t] = None]
        \/ \E t \in Tokens : key' = [key EXCEPT ![t] = IF @ = Negative THEN @ ELSE None]
      BY <1>1 DEF Fade, Expire, Settle, vars
  <2>5. /\ key' \in [Tokens -> Logins \cup {None, Negative}]
        /\ \A t \in Tokens : key'[t] \in Logins => Token[key'[t]] = t
    <3>1. /\ key \in [Tokens -> Logins \cup {None, Negative}]
          /\ \A t \in Tokens : key[t] \in Logins => Token[key[t]] = t
        BY DEF IInv, TypeOK
    <3>2. \A t \in Tokens : key'[t] = key[t] \/ key'[t] = None
        BY <2>4, <3>1
    <3>3. key' \in [Tokens -> Logins \cup {None, Negative}]
        BY <2>4, <3>1
    <3> QED
        BY <3>1, <3>2, <3>3, SessionsAssumption
  <2>6. TypeOK'
      BY <2>1, <2>2, <2>3, <2>5 DEF IInv, TypeOK
  <2> QED
      BY <2>1, <2>6, CheckKeepsLogins DEF IInv, HoldsItsOwn
<1> QED
    BY <1>1, LoginStepKeeps, CheckStepKeeps DEF Next

-----------------------------------------------------------------------------
(* Theorems *)

\* The inductive invariant of logins and checks.
THEOREM Inductive == Spec => []IInv
    BY InitIInv, StepIInv, PTL DEF Spec

\* A check never accepts a session that had been replaced when it began, nor one of
\* another token, whatever logins and checks overlap and whatever Redis still holds.
THEOREM ReplacedStaysRefused == Spec => []ReplacedIsRefused
<1>1. IInv => ReplacedIsRefused
    BY DEF IInv, HoldsItsOwn, ReplacedIsRefused
<1> QED
    BY <1>1, Inductive, PTL

\* Only a race of logins loses a session without archiving it.
THEOREM ArchiveMissesOnlyRaces == Spec => []LostOnlyToARace
<1>1. IInv => LostOnlyToARace
    BY DEF IInv
<1> QED
    BY <1>1, Inductive, PTL

=============================================================================
