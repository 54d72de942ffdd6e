---------------------------- MODULE BoundedBatch ----------------------------
(***************************************************************************)
(* What ExecuteBatch promises, whatever an execution does and whoever else *)
(* uses the manager:                                                       *)
(*                                                                         *)
(*   - each request is executed once, and no more than Bound at a time;    *)
(*   - its outcome is written once, at its own index, and stays;           *)
(*   - the batch returns once, when every outcome is there.                *)
(*                                                                         *)
(* It knows nothing of slots, goroutines or the steps of an execution.     *)
(* ProgramManager implements it.                                           *)
(***************************************************************************)
EXTENDS Naturals, FiniteSets

CONSTANTS
    Requests,     \* what is to be executed
    Bound,        \* how many at a time
    Outcomes,     \* what an execution may end with
    NoOutcome     \* it has not ended yet

VARIABLES
    batch,        \* "idle", "running", "returned"
    working,      \* the requests that are being executed
    outcome,      \* what the execution of a request ended with
    results       \* of the batch, indexed like the requests

vars == <<batch, working, outcome, results>>

Init ==
    /\ batch = "idle"
    /\ working = {}
    /\ outcome = [r \in Requests |-> NoOutcome]
    /\ results = outcome

Call ==
    /\ batch = "idle"
    /\ batch' = "running"
    /\ UNCHANGED <<working, outcome, results>>

TakeUp(r) ==
    /\ batch = "running"
    /\ r \notin working /\ outcome[r] = NoOutcome
    /\ Cardinality(working) < Bound
    /\ working' = working \cup {r}
    /\ UNCHANGED <<batch, outcome, results>>

End(r) ==
    /\ r \in working /\ outcome[r] = NoOutcome
    /\ \E o \in Outcomes \ {NoOutcome} : outcome' = [outcome EXCEPT ![r] = o]
    /\ UNCHANGED <<batch, working, results>>

Record(r) ==
    /\ r \in working /\ outcome[r] # NoOutcome
    /\ working' = working \ {r}
    /\ results' = [results EXCEPT ![r] = outcome[r]]
    /\ UNCHANGED <<batch, outcome>>

Return ==
    /\ batch = "running"
    /\ working = {} /\ \A r \in Requests : results[r] # NoOutcome
    /\ batch' = "returned"
    /\ UNCHANGED <<working, outcome, results>>

Next == Call \/ Return \/ \E r \in Requests : TakeUp(r) \/ End(r) \/ Record(r)

Spec == Init /\ [][Next]_vars

=============================================================================
