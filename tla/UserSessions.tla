---------------------------- MODULE UserSessions ----------------------------
(***************************************************************************)
(* Logging in and checking a token (module/user/service/user.go).  A login *)
(* finds the device's session in Mongo, archives it, replaces it by its    *)
(* own and brings Redis, which maps a token's hash to a session id, up to  *)
(* date: four calls, with other logins and checks in between.  A check     *)
(* asks Redis and confirms a hit in Mongo, or asks Mongo and writes what   *)
(* it found back to Redis, "-" for nothing.                                *)
(*                                                                         *)
(* A token is signed over the user and the second, so logins of one user   *)
(* in one second have the same.  user_session has no unique index: upserts *)
(* that overlap insert a session each.  Marking the old session invalid is *)
(* an update Mongo refuses (the document has no operator) and the code     *)
(* ignores the error, so every session there is stays valid.               *)
(***************************************************************************)
EXTENDS Naturals, FiniteSets

CONSTANTS
    Logins,         \* logins of a user, each with its own session id
    Devices, Tokens,
    Device, Token,  \* of each login
    MayExpire,      \* bound: the tokens whose time may run out
    Checks,         \* requests of HandlerCheck under way at a time
    None, Negative  \* no value; the value "-" in Redis

ASSUME SessionsAssumption ==
    /\ Device \in [Logins -> Devices]
    /\ Token \in [Logins -> Tokens]
    /\ MayExpire \subseteq Tokens
    /\ {None, Negative} \cap Logins = {} /\ None # Negative

VARIABLES
    docs,       \* sessions in user_session
    log,        \* sessions in user_session_log
    key,        \* Redis: what user_session:token_hash:<hash> holds
    expired,    \* tokens past their time
    slow,       \* Mongo may miss a deadline
    lpc,        \* where each login is
    old,        \* the session it found
    seen,       \* history: the device's sessions when it looked
    gone,       \* history: sessions that were replaced
    raced,      \* history: those the login that did had not seen, or not alone
    cpc,        \* where each check is
    asks,       \* its token
    sid,        \* the session id it holds
    before      \* history: sessions replaced when it began

login == <<lpc, old, seen>>
check == <<cpc, asks, sid, before>>
past == <<gone, raced>>
vars == <<docs, log, key, expired, slow, login, past, check>>

Of(d) == {s \in docs : Device[s] = d}
Live == {s \in docs : Token[s] \notin expired}

Init ==
    /\ docs = {} /\ log = {}
    /\ key = [t \in Tokens |-> None]
    /\ expired = {} /\ slow = TRUE
    /\ lpc = [l \in Logins |-> "new"]
    /\ old = [l \in Logins |-> None]
    /\ seen = [l \in Logins |-> {}]
    /\ gone = {} /\ raced = {}
    /\ cpc = [c \in Checks |-> "idle"]
    /\ asks = [c \in Checks |-> None]
    /\ sid = [c \in Checks |-> None]
    /\ before = [c \in Checks |-> {}]

-----------------------------------------------------------------------------
(* ReLoginArchiveAndReplace *)

ToLogin(l, at) == lpc' = [lpc EXCEPT ![l] = at]

Finish(l) ==
    /\ ToLogin(l, "over")
    /\ old' = [old EXCEPT ![l] = None]
    /\ seen' = [seen EXCEPT ![l] = {}]

FindOld(l) ==
    /\ lpc[l] = "new"
    /\ seen' = [seen EXCEPT ![l] = Of(Device[l])]
    /\ \E s \in IF Of(Device[l]) = {} THEN {None} ELSE Of(Device[l]) :
        /\ old' = [old EXCEPT ![l] = s]
        /\ ToLogin(l, IF s = None THEN "replace" ELSE "archive")
    /\ UNCHANGED <<docs, log, key, expired, slow, past, check>>

\* Mutation: a failed InsertOne is ignored.
ArchiveIfPossible(l) ==
    /\ lpc[l] = "archive"
    /\ log' \in {log, log \cup {old[l]}}
    /\ ToLogin(l, "replace")
    /\ UNCHANGED <<docs, key, expired, slow, old, seen, past, check>>

Archive(l) ==
    /\ lpc[l] = "archive"
    /\ log' = log \cup {old[l]}
    /\ ToLogin(l, "replace")
    /\ UNCHANGED <<docs, key, expired, slow, old, seen, past, check>>

\* The filter names the device only: of several sessions any is replaced.
Replace(l) ==
    /\ lpc[l] = "replace"
    /\ \E s \in Of(Device[l]) :
        /\ docs' = (docs \ {s}) \cup {l}
        /\ gone' = gone \cup {s}
        /\ raced' = IF seen[l] = {s} THEN raced ELSE raced \cup {s}
    /\ seen' = [seen EXCEPT ![l] = {}]
    /\ ToLogin(l, "sync")
    /\ UNCHANGED <<log, key, expired, slow, old, check>>

\* The upsert matched nothing ...
MatchNone(l) ==
    /\ lpc[l] = "replace" /\ Of(Device[l]) = {}
    /\ ToLogin(l, "insert")
    /\ UNCHANGED <<docs, log, key, expired, slow, old, seen, past, check>>

\* ... and inserts, whatever was inserted meanwhile.
Insert(l) ==
    /\ lpc[l] = "insert"
    /\ docs' = docs \cup {l}
    /\ ToLogin(l, "sync")
    /\ UNCHANGED <<log, key, expired, slow, old, seen, past, check>>

\* One transaction: the old token is deleted, then the new one set.
SyncRedis(l) ==
    /\ lpc[l] = "sync"
    /\ LET cleared == IF old[l] = None THEN key ELSE [key EXCEPT ![Token[old[l]]] = None]
       IN  key' = [cleared EXCEPT ![Token[l]] = IF Token[l] \in expired THEN None ELSE l]
    /\ Finish(l)
    /\ UNCHANGED <<docs, log, expired, slow, past, check>>

\* An error of Redis is ignored, one of Mongo or a crash ends the login.
SyncFails(l) ==
    /\ lpc[l] = "sync"
    /\ Finish(l)
    /\ UNCHANGED <<docs, log, key, expired, slow, past, check>>

Abort(l) ==
    /\ lpc[l] \in {"archive", "replace", "insert"}
    /\ Finish(l)
    /\ UNCHANGED <<docs, log, key, expired, slow, past, check>>

-----------------------------------------------------------------------------
(* Verify *)

ToCheck(c, at) == cpc' = [cpc EXCEPT ![c] = at]

Refuse(c) ==
    /\ ToCheck(c, "idle")
    /\ asks' = [asks EXCEPT ![c] = None]
    /\ sid' = [sid EXCEPT ![c] = None]
    /\ before' = [before EXCEPT ![c] = {}]

\* The signature is good and the token has not expired.
Begin(c, t) ==
    /\ cpc[c] \in {"idle", "accepted"}
    /\ t \notin expired
    /\ asks' = [asks EXCEPT ![c] = t]
    /\ sid' = [sid EXCEPT ![c] = None]
    /\ before' = [before EXCEPT ![c] = gone]
    /\ ToCheck(c, "get")
    /\ UNCHANGED <<docs, log, key, expired, slow, login, past>>

\* Redis answers; an error counts as a miss.
Get(c) ==
    /\ cpc[c] = "get"
    /\ \/ key[asks[c]] = Negative /\ Refuse(c)
       \/ /\ key[asks[c]] \in Logins
          /\ ToCheck(c, "confirm")
          /\ sid' = [sid EXCEPT ![c] = key[asks[c]]]
          /\ UNCHANGED <<asks, before>>
       \/ ToCheck(c, "load") /\ UNCHANGED <<asks, sid, before>>
    /\ UNCHANGED <<docs, log, key, expired, slow, login, past>>

\* Mutation: a hit is not confirmed, as user.go says it need not be.
ConfirmNothing(c) ==
    /\ cpc[c] = "confirm"
    /\ ToCheck(c, "accepted")
    /\ UNCHANGED <<docs, log, key, expired, slow, login, past, asks, sid, before>>

\* A missed deadline counts as a session that is not there.
Confirm(c) ==
    /\ cpc[c] = "confirm"
    /\ \/ sid[c] \in Live /\ ToCheck(c, "accepted")
       \/ (sid[c] \notin Live \/ slow) /\ ToCheck(c, "poison")
    /\ UNCHANGED <<docs, log, key, expired, slow, login, past, asks, sid, before>>

\* Here an error is told from a session that is not there.
Load(c) ==
    /\ cpc[c] = "load"
    /\ \/ \E s \in {s \in Live : Token[s] = asks[c]} :
            ToCheck(c, "fill") /\ sid' = [sid EXCEPT ![c] = s] /\ UNCHANGED <<asks, before>>
       \/ /\ {s \in Live : Token[s] = asks[c]} = {}
          /\ ToCheck(c, "poison") /\ UNCHANGED <<asks, sid, before>>
       \/ slow /\ Refuse(c)
    /\ UNCHANGED <<docs, log, key, expired, slow, login, past>>

Fill(c) ==
    /\ cpc[c] = "fill"
    /\ \/ /\ asks[c] \notin expired
          /\ key' = [key EXCEPT ![asks[c]] = sid[c]]
          /\ ToCheck(c, "accepted")
       \/ /\ asks[c] \in expired
          /\ ToCheck(c, "poison")
          /\ UNCHANGED key
    /\ UNCHANGED <<docs, log, expired, slow, login, past, asks, sid, before>>

Poison(c) ==
    /\ cpc[c] = "poison"
    /\ key' = [key EXCEPT ![asks[c]] = Negative]
    /\ Refuse(c)
    /\ UNCHANGED <<docs, log, expired, slow, login, past>>

-----------------------------------------------------------------------------
\* Mutation: "-" is set without a time to live.
FadeNever(t) == FALSE /\ key[t] = Negative /\ UNCHANGED vars

\* The 30 s of a "-" are over.
Fade(t) ==
    /\ key[t] = Negative
    /\ key' = [key EXCEPT ![t] = None]
    /\ UNCHANGED <<docs, log, expired, slow, login, past, check>>

\* A token's two hours are over, and those of its key.
Expire(t) ==
    /\ t \in MayExpire \ expired
    /\ expired' = expired \cup {t}
    /\ key' = [key EXCEPT ![t] = IF @ = Negative THEN @ ELSE None]
    /\ UNCHANGED <<docs, log, slow, login, past, check>>

Settle ==
    /\ slow
    /\ slow' = FALSE
    /\ UNCHANGED <<docs, log, key, expired, login, past, check>>

LoginStep(l) ==
    \/ FindOld(l) \/ Archive(l) \/ Replace(l) \/ MatchNone(l) \/ Insert(l)
    \/ SyncRedis(l) \/ SyncFails(l) \/ Abort(l)

CheckStep(c) == Get(c) \/ Confirm(c) \/ Load(c) \/ Fill(c) \/ Poison(c)

Next ==
    \/ \E l \in Logins : LoginStep(l)
    \/ \E c \in Checks, t \in Tokens : Begin(c, t)
    \/ \E c \in Checks : CheckStep(c)
    \/ \E t \in Tokens : Fade(t)
    \/ \E t \in Tokens : Expire(t)
    \/ Settle

Spec == Init /\ [][Next]_vars

\* Requests go on to their end and Redis forgets; nobody need log in or check.
FairSpec ==
    /\ Spec
    /\ \A c \in Checks : WF_vars(CheckStep(c))
    /\ \A t \in Tokens : SF_vars(Fade(t))

-----------------------------------------------------------------------------
TypeOK ==
    /\ docs \in SUBSET Logins /\ log \in SUBSET Logins
    /\ key \in [Tokens -> Logins \cup {None, Negative}]
    /\ \A t \in Tokens : key[t] \in Logins => Token[key[t]] = t
    /\ expired \in SUBSET Tokens
    /\ slow \in BOOLEAN
    /\ lpc \in [Logins -> {"new", "archive", "replace", "insert", "sync", "over"}]
    /\ old \in [Logins -> Logins \cup {None}]
    /\ \A l \in Logins : lpc[l] = "archive" => old[l] # None
    /\ seen \in [Logins -> SUBSET Logins]
    /\ gone \in SUBSET (Logins \ docs) /\ raced \in SUBSET gone
    /\ cpc \in [Checks -> {"idle", "get", "confirm", "load", "fill", "poison",
                           "accepted"}]
    /\ asks \in [Checks -> Tokens \cup {None}]
    /\ \A c \in Checks : cpc[c] # "idle" => asks[c] \in Tokens
    /\ sid \in [Checks -> Logins \cup {None}]
    /\ before \in [Checks -> SUBSET Logins]

\* A check accepts no session that had been replaced when the check began, whatever
\* Redis still says, and no other token's.
ReplacedIsRefused ==
    \A c \in Checks : cpc[c] = "accepted" => sid[c] \notin before[c] /\ Token[sid[c]] = asks[c]

\* A session is replaced without being archived only if its replacer had not seen it
\* when it looked, or had seen another beside it.
LostOnlyToARace == gone \ log \subseteq raced

\* A session that stays is not refused for ever: once Mongo answers in time, "-" goes
\* and does not come back.
NegativeFades ==
    \A s \in Logins :
        <>[](s \in Live /\ ~slow) => <>[](key[Token[s]] # Negative)

=============================================================================
