------------------------------ MODULE Balancer ------------------------------
(***************************************************************************)
(* SWRR (service/registry/registry.go): the smooth weighted round robin    *)
(* that ServiceManager.Pick draws from.  Each turn raises every instance   *)
(* by its weight and lowers the one picked, the first of the highest, by   *)
(* the sum of the weights.  Consul lists instances in no fixed order, so   *)
(* any of the highest may be the first.                                    *)
(***************************************************************************)
EXTENDS Integers, FiniteSets, FiniteSetsExt

CONSTANTS
    Instances,
    MetaWeight      \* the "weight" of an instance's metadata; NoWeight: none, or no number

NoWeight == 0

ASSUME BalancerAssumption ==
    /\ IsFiniteSet(Instances)
    /\ MetaWeight \in [Instances -> Int]

VARIABLES
    balanced,   \* the instances of SWRR.list
    current,    \* current of each, 0 for the others
    picks,      \* history: picks of each in this cycle
    turns       \* history: turns since Update, counted per cycle

balancerVars == <<balanced, current, picks, turns>>

\* Weights that are not positive count as 1.
parseWeight(i) == IF MetaWeight[i] > 0 THEN MetaWeight[i] ELSE 1

Total(S) == MapThenSumSet(parseWeight, S)

Zero == [i \in Instances |-> 0]

BalancerInit ==
    /\ balanced = {}
    /\ current = Zero /\ picks = Zero /\ turns = 0

Update(S) ==
    /\ balanced' = S
    /\ current' = Zero /\ picks' = Zero /\ turns' = 0

Raised == [i \in Instances |-> IF i \in balanced THEN current[i] + parseWeight(i) ELSE 0]

Highest == {i \in balanced : \A j \in balanced : Raised[j] <= Raised[i]}

\* A cycle is as many turns as the sum of the weights.
Count(i) ==
    IF turns + 1 = Total(balanced)
    THEN turns' = 0 /\ picks' = Zero
    ELSE turns' = turns + 1 /\ picks' = [picks EXCEPT ![i] = @ + 1]

\* Mutation: the instance picked is lowered by its own weight.
NextByWeight(i) ==
    /\ i \in Highest
    /\ current' = [Raised EXCEPT ![i] = @ - parseWeight(i)]
    /\ Count(i)
    /\ UNCHANGED balanced

\* The call returns i.
NextPick(i) ==
    /\ i \in Highest
    /\ current' = [Raised EXCEPT ![i] = @ - Total(balanced)]
    /\ Count(i)
    /\ UNCHANGED balanced

-----------------------------------------------------------------------------
\* Every instance gets its share: within a cycle nobody is more than a turn ahead of
\* it, and after a whole cycle each was picked exactly as often as it weighs.
FairShares ==
    \A i \in balanced :
        /\ current[i] = turns * parseWeight(i) - Total(balanced) * picks[i]
        /\ current[i] > -Total(balanced)
        /\ turns = 0 => current[i] = 0
        /\ picks[i] <= parseWeight(i)

=============================================================================
