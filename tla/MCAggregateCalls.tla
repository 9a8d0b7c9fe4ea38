-------------------------- MODULE MCAggregateCalls --------------------------
(***************************************************************************)
(* AggregateCalls with two parameters, one local variable and three temps  *)
(* to a frame: room for f(g(..), S{..}), a call and a literal both pending *)
(* as arguments of a call.                                                 *)
(***************************************************************************)
EXTENDS AggregateCalls, FiniteSetsExt, TLC

CONSTANTS MaxTasks, MaxTemps    \* bounds: of all activations together

MCParams == <<"p", "q">>

TempsSymmetric == Permutations(Temps)

SmallProgram ==
    /\ MapThenSumSet(LAMBDA d : Len(acts[d].todo), 1..Depth) <= MaxTasks
    /\ MapThenSumSet(LAMBDA d : Cardinality(acts[d].used), 1..Depth) <= MaxTemps

\* A temp, and a parameter's slot, is written before it is read: what one
\* that is not in use still holds does not matter.
InUse == Reachable \cup Depths \X Locals \cup UNION {acts[d].used : d \in 1..Depth}
Relevant == <<[a \in InUse |-> mem[a]], env, acts>>
=============================================================================
