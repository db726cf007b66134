--------------------------- MODULE ServiceRegistry ---------------------------
(***************************************************************************)
(* ServiceManager (service/registry/manager.go) over Consul (consul.go):   *)
(* nodes register a method under a service ID, report it alive every few   *)
(* seconds, and a watching manager keeps a list of those Consul holds for  *)
(* healthy, from which Pick chooses.                                       *)
(*                                                                         *)
(* Consul is external: a check passes for TTL after a report, is critical  *)
(* afterwards, and after another Reap its service is deregistered.  Time   *)
(* is counted down; the reporters are punctual, their calls may fail.      *)
(*                                                                         *)
(* A watch is a goroutine that asks for the list with a blocking query:    *)
(* Consul answers when the list has changed since the index the goroutine  *)
(* holds, or after ten minutes.  StopWatch does not interrupt the query,   *)
(* so a goroutine that was stopped may apply one more list.                *)
(***************************************************************************)
EXTENDS Balancer

CONSTANTS
    Nodes,          \* nodes that offer the method
    Others,         \* instances of it that stay healthy throughout
    TTL,            \* the check's TTL (10 s)
    Reap,           \* DeregisterCriticalServiceAfter (1 min)
    MaxGap,         \* longest time between two reports (5 s and jitter)
    Watches,        \* calls of StartWatch that start a goroutine
    NoWatch

ASSUME RegistryAssumption ==
    /\ Instances = Nodes \cup Others
    /\ TTL \in Nat \ {0} /\ Reap \in Nat \ {0}
    /\ MaxGap \in Nat \ {0}
    /\ MaxGap < TTL
    /\ NoWatch \notin Watches

VARIABLES
    alive,      \* nodes that run
    mine,       \* nodes with the method in methodInfos
    due,        \* time to a node's next report
    name,       \* name the node's service ID is registered under in Consul
    passing,    \* time the node's check still passes, 0: critical
    critical,   \* time until a critical service is deregistered
    failed,     \* history: nodes whose last report failed, or that made none yet
    watching,   \* st.watching
    last,       \* the watch st.cancel cancels
    cancelled,  \* watches whose context is done
    pc,         \* where each goroutine is
    got,        \* the list it holds
    changed,    \* watches whose index is behind Consul's
    all,        \* st.all
    author      \* history: the watch that applied it

nodeVars == <<alive, mine, due>>
consulVars == <<name, passing, critical, changed>>
watchVars == <<watching, last, cancelled, pc, got>>
cache == <<all, author, balancerVars>>
vars == <<nodeVars, consulVars, failed, watchVars, cache>>

\* RegisterMethod registers "prefix-method", UpdateMethodMetaReplace "chat.method"; a
\* service ID that is not registered has the name "none".
Listed == {n \in Nodes : name[n] = "prefix-method" /\ passing[n] > 0} \cup Others

Init ==
    /\ alive = {} /\ mine = {} /\ failed = Nodes
    /\ due = [n \in Nodes |-> 0]
    /\ name = [n \in Nodes |-> "none"]
    /\ passing = [n \in Nodes |-> 0] /\ critical = [n \in Nodes |-> 0]
    /\ watching = FALSE /\ last = NoWatch /\ cancelled = {}
    /\ pc = [w \in Watches |-> "none"]
    /\ got = [w \in Watches |-> {}]
    /\ changed = {}
    /\ all = {} /\ author = NoWatch
    /\ BalancerInit

\* Consul's index of the service moves with the list.
Notify == changed' = IF Listed' # Listed THEN Watches ELSE changed

-----------------------------------------------------------------------------
(* The nodes that offer the method *)

\* A node boots: StartTTLReport starts its ticker.
Boot(n) ==
    /\ n \notin alive
    /\ alive' = alive \cup {n}
    /\ due' = [due EXCEPT ![n] = MaxGap]
    /\ failed' = failed \cup {n}
    /\ UNCHANGED <<mine, consulVars, watchVars, cache>>

Crash(n) ==
    /\ n \in alive
    /\ alive' = alive \ {n}
    /\ mine' = mine \ {n}
    /\ due' = [due EXCEPT ![n] = 0]
    /\ UNCHANGED <<consulVars, failed, watchVars, cache>>

\* ServiceRegister: a service that is there keeps the state of its check, a new one
\* starts critical.
Registered(n, as) ==
    /\ name' = [name EXCEPT ![n] = as]
    /\ critical' = IF name[n] = "none" THEN [critical EXCEPT ![n] = Reap] ELSE critical
    /\ UNCHANGED passing
    /\ Notify

\* A call of Consul that fails leaves the node without the method.
RegisterMethod(n) ==
    /\ n \in alive
    /\ Registered(n, "prefix-method")
    /\ mine' = mine \cup {n}
    /\ UNCHANGED <<alive, due, failed, watchVars, cache>>

\* The same ID goes to another name.
UpdateMethodMetaReplace(n) ==
    /\ n \in alive
    /\ Registered(n, "chat.method")
    /\ UNCHANGED <<nodeVars, failed, watchVars, cache>>

UnregisterMethod(n) ==
    /\ n \in alive /\ name[n] # "none"
    /\ name' = [name EXCEPT ![n] = "none"]
    /\ passing' = [passing EXCEPT ![n] = 0]
    /\ critical' = [critical EXCEPT ![n] = 0]
    /\ Notify
    /\ mine' = mine \ {n}
    /\ failed' = failed \cup {n}
    /\ UNCHANGED <<alive, due, watchVars, cache>>

\* Mutation: a report every TTL and jitter.
RearmLate(n) == due' = [due EXCEPT ![n] = TTL + 1]

\* The ticker and its jitter.
Rearm(n) == \E d \in 1 .. MaxGap : due' = [due EXCEPT ![n] = d]

\* UpdateTTL fails where Consul does not know the check.
Report(n) ==
    /\ n \in alive /\ due[n] = 0
    /\ n \in mine /\ name[n] # "none"
    /\ Rearm(n)
    /\ passing' = [passing EXCEPT ![n] = TTL]
    /\ critical' = [critical EXCEPT ![n] = 0]
    /\ failed' = failed \ {n}
    /\ UNCHANGED name
    /\ Notify
    /\ UNCHANGED <<alive, mine, watchVars, cache>>

ReportFails(n) ==
    /\ n \in alive /\ due[n] = 0
    /\ Rearm(n)
    /\ failed' = failed \cup {n}
    /\ UNCHANGED <<alive, mine, consulVars, watchVars, cache>>

Less(t) == IF t > 0 THEN t - 1 ELSE 0

\* Time passes; no reporter is late.
PassTime ==
    /\ \A n \in alive : due[n] > 0
    /\ due' = [n \in Nodes |-> Less(due[n])]
    /\ passing' = [n \in Nodes |-> Less(passing[n])]
    /\ critical' = [n \in Nodes |-> IF passing[n] = 1 THEN Reap ELSE Less(critical[n])]
    /\ name' = [n \in Nodes |-> IF critical[n] = 1 THEN "none" ELSE name[n]]
    /\ Notify
    /\ UNCHANGED <<alive, mine, failed, watchVars, cache>>

-----------------------------------------------------------------------------
(* A manager that watches *)

Goto(w, l) == pc' = [pc EXCEPT ![w] = l]

\* Nothing is done while watching is set.
StartWatch(w) ==
    /\ ~watching /\ pc[w] = "none"
    /\ watching' = TRUE
    /\ last' = w
    /\ Goto(w, "list")
    /\ changed' = changed \cup {w}
    /\ UNCHANGED <<nodeVars, name, passing, critical, failed, cancelled, got, cache>>

\* The first list, then that of a tick after a failed query.
List(w) ==
    /\ pc[w] \in {"list", "tick"}
    /\ pc[w] = "tick" => w \notin cancelled
    /\ \/ Goto(w, "apply") /\ got' = [got EXCEPT ![w] = Listed]
       \/ Goto(w, "loop") /\ UNCHANGED got
    /\ UNCHANGED <<nodeVars, consulVars, failed, watching, last, cancelled, cache>>

\* Mutation: the index moves up to the moment the list is applied.
ApplyAsLatest(w) ==
    /\ pc[w] = "apply"
    /\ all' = got[w]
    /\ author' = w
    /\ Update(got[w])
    /\ got' = [got EXCEPT ![w] = {}]
    /\ changed' = changed \ {w}
    /\ Goto(w, "loop")
    /\ UNCHANGED <<nodeVars, name, passing, critical, failed, watching, last, cancelled>>

Apply(w) ==
    /\ pc[w] = "apply"
    /\ all' = got[w]
    /\ author' = w
    /\ Update(got[w])
    /\ got' = [got EXCEPT ![w] = {}]
    /\ Goto(w, "loop")
    /\ UNCHANGED <<nodeVars, consulVars, failed, watching, last, cancelled>>

Ask(w) ==
    /\ pc[w] = "loop" /\ w \notin cancelled
    /\ Goto(w, "next")
    /\ UNCHANGED <<nodeVars, consulVars, failed, watching, last, cancelled, got, cache>>

\* Mutation: the query waits for a change however long it takes.
AnswerOnlyChanged(w) ==
    /\ pc[w] = "next" /\ w \in changed
    /\ got' = [got EXCEPT ![w] = Listed]
    /\ changed' = changed \ {w}
    /\ Goto(w, "apply")
    /\ UNCHANGED <<nodeVars, name, passing, critical, failed, watching, last, cancelled, cache>>

\* The list and the index it belongs to.  Unchanged, they come after ten minutes.
Answer(w) ==
    /\ pc[w] = "next"
    /\ got' = [got EXCEPT ![w] = Listed]
    /\ changed' = changed \ {w}
    /\ Goto(w, "apply")
    /\ UNCHANGED <<nodeVars, name, passing, critical, failed, watching, last, cancelled, cache>>

QueryFails(w) ==
    /\ pc[w] = "next"
    /\ Goto(w, "tick")
    /\ UNCHANGED <<nodeVars, consulVars, failed, watching, last, cancelled, got, cache>>

\* The goroutine sees its context done.
End(w) ==
    /\ pc[w] \in {"loop", "tick"} /\ w \in cancelled
    /\ Goto(w, "ended")
    /\ UNCHANGED <<nodeVars, consulVars, failed, watching, last, cancelled, got, cache>>

StopWatch ==
    /\ last # NoWatch /\ (watching \/ last \notin cancelled)
    /\ watching' = FALSE
    /\ cancelled' = cancelled \cup {last}
    /\ UNCHANGED <<nodeVars, consulVars, failed, last, pc, got, cache>>

\* The context the caller gave StartWatch ends; watching stays set.
ParentDone ==
    /\ last # NoWatch /\ last \notin cancelled
    /\ cancelled' = cancelled \cup {last}
    /\ UNCHANGED <<nodeVars, consulVars, failed, watching, last, pc, got, cache>>

Pick(i) ==
    /\ NextPick(i)
    /\ UNCHANGED <<nodeVars, consulVars, failed, watchVars, all, author>>

Next ==
    \/ \E n \in Nodes : Boot(n)
    \/ \E n \in Nodes : Crash(n)
    \/ \E n \in Nodes : RegisterMethod(n)
    \/ \E n \in Nodes : UpdateMethodMetaReplace(n)
    \/ \E n \in Nodes : UnregisterMethod(n)
    \/ \E n \in Nodes : Report(n)
    \/ \E n \in Nodes : ReportFails(n)
    \/ PassTime
    \/ \E w \in Watches : StartWatch(w)
    \/ \E w \in Watches : List(w)
    \/ \E w \in Watches : Apply(w)
    \/ \E w \in Watches : Ask(w)
    \/ \E w \in Watches : Answer(w)
    \/ \E w \in Watches : QueryFails(w)
    \/ \E w \in Watches : End(w)
    \/ StopWatch
    \/ ParentDone
    \/ \E i \in Instances : Pick(i)

Spec == Init /\ [][Next]_vars

\* Time passes, goroutines run, and queries are answered again and again: a query
\* that is not is the environment's doing, not the code's.
FairSpec ==
    /\ Spec
    /\ WF_vars(PassTime)
    /\ \A n \in Nodes : WF_vars(Report(n) \/ ReportFails(n))
    /\ \A w \in Watches :
        /\ WF_vars(List(w)) /\ WF_vars(Apply(w)) /\ WF_vars(Ask(w))
        /\ SF_vars(Answer(w))
        /\ WF_vars(End(w))

-----------------------------------------------------------------------------
\* Reports that succeed keep a method listed: it is out only before its first report,
\* after one that failed, or because its ID was given another name.
OutOnlyAfterFailure ==
    \A n \in mine \ failed : name[n] = "prefix-method" => n \in Listed

\* No change is missed between the query that returned a list and the one after: a
\* watch whose index is current and whose list is in the cache shows Consul's.
CacheFollows ==
    \A w \in Watches : pc[w] = "next" /\ w \notin changed /\ author = w => all = Listed

Watched == \E w \in Watches : pc[w] \notin {"none", "ended"} /\ w \notin cancelled

\* What stays in Consul's list, or out of it, comes into the cache, or leaves it, as
\* long as a watch goes on: late lists of stopped watches do not stay.
Converges ==
    \A n \in Nodes :
        /\ <>[](n \in Listed /\ Watched) => <>[](n \in all)
        /\ <>[](n \notin Listed /\ Watched) => <>[](n \notin all)

=============================================================================
