--------------------------- MODULE ProgramManager ---------------------------
(***************************************************************************)
(* The program manager (program_manager.go): a batch of executions with    *)
(* bounded concurrency, callers that execute, wait for their transaction,  *)
(* submit a proving request or only build its authorization, and an        *)
(* account that may be replaced or zeroized under them all.  The proving   *)
(* call is what ProvableClient promises, a bounded number of submissions;  *)
(* the authorization is one step that may fail, as in ImportResolver.      *)
(*                                                                         *)
(* Every submission makes the prover build a transaction of its own, which *)
(* is named by the execution and the number of the submission.             *)
(***************************************************************************)
EXTENDS Naturals, FiniteSets

CONSTANTS
    Requests,         \* the requests of ExecuteBatch
    Waiters,          \* goroutines that make one call of their own
    MaxConcurrency,   \* maxBatchConcurrency
    MaxRetries,       \* of the proving client
    Accounts,         \* accounts; each is also the name of its private key
    NoAccount,        \* pm.account is nil
    Zeroized,         \* the accounts that somebody zeroizes
    Overrides,        \* keys given with WithPrivateKey
    NoKey             \* none given, or none read yet

Executions == Requests \cup Waiters

ASSUME ExecutionAssumption == Requests \cap Waiters = {} /\ IsFiniteSet(Executions)
ASSUME BoundAssumption == MaxConcurrency \in Nat \ {0} /\ MaxRetries \in Nat
ASSUME AccountAssumption == Accounts \cap Overrides = {} /\ NoAccount \notin Accounts
ASSUME KeyAssumption == {NoKey, "torn"} \cap (Accounts \cup Overrides) = {}

VARIABLES
    configured,       \* pm.provableClient is there
    account,          \* pm.account
    secret,           \* the private key in each account's memory
    pc, opts, key,    \* of each execution: its step, its options, the key it read
    during,           \* the accounts that were pm.account until it read its key
    submission,       \* the number of its last submission to the prover
    report,           \* what the prover's proof came with about the broadcast
    sent,             \* its submissions whose transaction was broadcast
    confirmed,        \* its submission whose transaction is on the chain, or 0
    outcome,          \* what ExecuteViaDPS returned to it
    cancelled,        \* waiters whose context is done
    sem,              \* slots of the semaphore in use
    results,          \* of ExecuteBatch
    batch,            \* whether ExecuteBatch runs
    down              \* the process has crashed

manager == <<configured, account, secret>>
proving == <<submission, report>>
chain == <<sent, confirmed>>
pool == <<sem, results, batch>>
vars == <<manager, pc, opts, key, during, outcome, proving, chain, cancelled, pool, down>>

\* The wrappers of ExecuteViaDPS (Execute, transfers, staking) differ in their inputs.
Calls == {"BuildAuthorization", "SubmitProvingRequest", "ExecuteViaDPS", "ExecuteAndWait"}

Options == [call : Calls \cup {"none"}, key : Overrides \cup {NoKey}, broadcast : BOOLEAN]
NoOptions == [call |-> "none", key |-> NoKey, broadcast |-> FALSE]

\* A batch makes the calls that only execute; an authorization knows of no broadcast.
OptionsOf(e) ==
    {o \in Options : /\ o.call # "none"
                     /\ e \in Requests <=> o.call = "ExecuteViaDPS"
                     /\ o.broadcast => o.call # "BuildAuthorization"}

Attempts == 1..(MaxRetries + 1)

\* The prover's report on the broadcast: "silent" when the answer has none.
Reports == {"none", "ok", "failed", "silent"}

Outcomes == [kind : {"none", "authorization", "proof", "id", "error"}, submission : Attempts \cup {0}]
NoOutcome == [kind |-> "none", submission |-> 0]
Error == [kind |-> "error", submission |-> 0]

Labels == {"idle", "queued", "begin", "account", "authorize", "prove", "proved",
           "poll", "record", "release", "done"}

TypeOK ==
    /\ configured \in BOOLEAN
    /\ account \in Accounts \cup {NoAccount}
    /\ secret \in [Accounts -> {"whole", "torn", "gone"}]
    /\ pc \in [Executions -> Labels]
    /\ opts \in [Executions -> Options]
    /\ key \in [Executions -> Accounts \cup Overrides \cup {"torn", NoKey}]
    /\ during \in [Executions -> SUBSET Accounts]
    /\ outcome \in [Executions -> Outcomes]
    /\ submission \in [Executions -> Attempts \cup {0}]
    /\ report \in [Executions -> Reports]
    /\ sent \in [Executions -> SUBSET Attempts]
    /\ confirmed \in [Waiters -> Attempts \cup {0}]
    /\ cancelled \subseteq Waiters
    /\ sem \in Nat
    /\ results \in [Requests -> Outcomes]
    /\ batch \in {"idle", "running", "returned"}
    /\ down \in BOOLEAN

Init ==
    /\ configured \in BOOLEAN
    /\ account \in Accounts \cup {NoAccount}
    /\ secret = [a \in Accounts |-> "whole"]
    /\ pc = [e \in Executions |-> "idle"]
    /\ opts = [e \in Executions |-> NoOptions]
    /\ key = [e \in Executions |-> NoKey]
    /\ during = [e \in Executions |-> {}]
    /\ outcome = [e \in Executions |-> NoOutcome]
    /\ submission = [e \in Executions |-> 0]
    /\ report = [e \in Executions |-> "none"]
    /\ sent = [e \in Executions |-> {}]
    /\ confirmed = [w \in Waiters |-> 0]
    /\ cancelled = {}
    /\ sem = 0
    /\ results = [r \in Requests |-> NoOutcome]
    /\ batch = "idle"
    /\ down = FALSE

To(e, label) == pc' = [pc EXCEPT ![e] = label]

-----------------------------------------------------------------------------
(* The account                                                             *)

Running(e) == pc[e] \notin {"idle", "queued", "release", "done"}
ReadsAccount(e) == pc[e] = "account"

SetAccount ==
    /\ account' \in Accounts \cup {NoAccount}
    /\ during' = [e \in Executions |->
                    IF ReadsAccount(e) THEN during[e] \cup ({account'} \ {NoAccount}) ELSE during[e]]
    /\ UNCHANGED <<configured, secret, pc, opts, key, outcome, proving, chain, cancelled, pool, down>>

\* Zeroize overwrites the bytes of the key, then drops the slice.
ZeroizeBegins(a) ==
    /\ a \in Zeroized
    /\ secret[a] = "whole"
    /\ secret' = [secret EXCEPT ![a] = "torn"]
    /\ UNCHANGED <<configured, account, pc, opts, key, during, outcome, proving, chain, cancelled, pool, down>>

ZeroizeEnds(a) ==
    /\ secret[a] = "torn"
    /\ secret' = [secret EXCEPT ![a] = "gone"]
    /\ UNCHANGED <<configured, account, pc, opts, key, during, outcome, proving, chain, cancelled, pool, down>>

-----------------------------------------------------------------------------
(* ExecuteBatch                                                            *)

ExecuteBatch ==
    /\ batch = "idle"
    /\ batch' = "running"
    /\ pc' = [e \in Executions |-> IF e \in Requests THEN "queued" ELSE pc[e]]
    /\ UNCHANGED <<manager, opts, key, during, outcome, proving, chain, cancelled, sem, results, down>>

\* Mutant: one slot too many.
OneSlotMore == sem <= MaxConcurrency

SlotFree == sem < MaxConcurrency

AcquireSlot(r) ==
    /\ pc[r] = "queued" /\ SlotFree
    /\ sem' = sem + 1
    /\ To(r, "begin")
    /\ UNCHANGED <<manager, opts, key, during, outcome, proving, chain, cancelled, results, batch, down>>

\* Mutant: the goroutines share the loop variable.
CapturedIndex(r) == CHOOSE last \in Requests : TRUE

Index(r) == r

Record(r) ==
    /\ pc[r] = "record"
    /\ results' = [results EXCEPT ![Index(r)] = outcome[r]]
    /\ To(r, "release")
    /\ UNCHANGED <<manager, opts, key, during, outcome, proving, chain, cancelled, sem, batch, down>>

\* Mutants: the slot is given back twice, or not after an error.
FreedTwice(r) == sem - 2
FreedOnSuccess(r) == IF outcome[r].kind = "id" THEN sem - 1 ELSE sem

Freed(r) == sem - 1

ReleaseSlot(r) ==
    /\ pc[r] = "release"
    /\ sem' = Freed(r)
    /\ To(r, "done")
    /\ UNCHANGED <<manager, opts, key, during, outcome, proving, chain, cancelled, results, batch, down>>

\* Mutant: a goroutine is counted only once it has its slot.
NobodyAtWork == \A r \in Requests : pc[r] \in {"queued", "done"}

AllDone == \A r \in Requests : pc[r] = "done"

BatchReturns ==
    /\ batch = "running"
    /\ AllDone
    /\ batch' = "returned"
    /\ UNCHANGED <<manager, pc, opts, key, during, outcome, proving, chain, cancelled, sem, results, down>>

-----------------------------------------------------------------------------
(* One execution                                                           *)

Forgotten(e) ==
    /\ sent' = [sent EXCEPT ![e] = {}]
    /\ confirmed' = [w \in Waiters |-> IF w = e THEN 0 ELSE confirmed[w]]
    /\ cancelled' = cancelled \ {e}

Polls(e, result) == opts[e].call = "ExecuteAndWait" /\ result # Error

\* What the goroutine does with what ExecuteViaDPS gave it.  Its locals are gone, and
\* unless it polls nobody looks for its transactions or at its context again.
Ends(e, result) ==
    /\ outcome' = [outcome EXCEPT ![e] = result]
    /\ opts' = [opts EXCEPT ![e] = NoOptions]
    /\ key' = [key EXCEPT ![e] = NoKey]
    /\ during' = [during EXCEPT ![e] = {}]
    /\ submission' = [submission EXCEPT ![e] = 0]
    /\ report' = [report EXCEPT ![e] = "none"]
    /\ IF Polls(e, result)
       THEN To(e, "poll") /\ UNCHANGED <<chain, cancelled>>
       ELSE To(e, IF e \in Requests THEN "record" ELSE "done") /\ Forgotten(e)

Begin(w) ==
    /\ pc[w] = "idle"
    /\ To(w, "begin")
    /\ UNCHANGED <<manager, opts, key, during, outcome, proving, chain, cancelled, pool, down>>

\* Mutant: the account's key comes first.
AccountFirst(o) == IF account = NoAccount THEN o.key ELSE NoKey

GivenKey(o) == o.key

\* Only an authorization needs no prover.
Refused(o) ==
    \/ ~configured /\ o.call # "BuildAuthorization"
    \/ GivenKey(o) = NoKey /\ account = NoAccount

\* The options are applied, and pm.account is read for the first time.
BuildAuthorization(e) ==
    /\ pc[e] = "begin"
    /\ \E o \in OptionsOf(e) :
         \/ Refused(o) /\ Ends(e, Error)
         \/ /\ ~Refused(o)
            /\ opts' = [opts EXCEPT ![e] = o]
            /\ To(e, IF GivenKey(o) = NoKey THEN "account" ELSE "authorize")
            /\ key' = [key EXCEPT ![e] = GivenKey(o)]
            /\ during' = [during EXCEPT ![e] = IF GivenKey(o) = NoKey THEN {account} ELSE {}]
            /\ UNCHANGED <<outcome, proving, chain, cancelled>>
    /\ UNCHANGED <<manager, pool, down>>

\* Mutant: the key is that of an account the manager has kept.
KeptAccount == CHOOSE a \in Accounts : TRUE

ReadAgain == account

\* pm.account is read again, and its key copied; the other accounts it might have been
\* do not matter any more.
ReadKey(e) ==
    /\ pc[e] = "account" /\ account # NoAccount
    /\ \/ /\ secret[ReadAgain] = "gone"
          /\ Ends(e, Error)
       \/ /\ secret[ReadAgain] # "gone"
          /\ key' = [key EXCEPT ![e] = IF secret[ReadAgain] = "torn" THEN "torn" ELSE ReadAgain]
          /\ To(e, "authorize")
          /\ during' = [during EXCEPT ![e] = @ \cap {ReadAgain}]
          /\ UNCHANGED <<opts, outcome, proving, chain, cancelled>>
    /\ UNCHANGED <<manager, pool, down>>

\* A panic: a nil account, or the header of a slice that is being dropped.
Crash(e) ==
    /\ pc[e] = "account"
    /\ account # NoAccount => secret[account] = "torn"
    /\ down' = TRUE
    /\ UNCHANGED <<manager, pc, opts, key, during, outcome, proving, chain, cancelled, pool>>

AuthorizationFails(e) ==
    /\ pc[e] = "authorize"
    /\ Ends(e, Error)
    /\ UNCHANGED <<manager, pool, down>>

\* Mutant: what was copied of a key is authorized with, whatever it is.
AnyText(k) == k # NoKey

\* snarkVM parses no key that is cut at a zero.
Parsed(k) == k # "torn"

AuthorizationBuilt(e) ==
    /\ pc[e] = "authorize" /\ Parsed(key[e])
    /\ opts[e].call = "BuildAuthorization"
    /\ Ends(e, [kind |-> "authorization", submission |-> 0])
    /\ UNCHANGED <<manager, pool, down>>

\* The key is not looked at again.
SubmitProvingRequest(e) ==
    /\ pc[e] = "authorize" /\ Parsed(key[e])
    /\ opts[e].call # "BuildAuthorization"
    /\ submission' = [submission EXCEPT ![e] = 1]
    /\ To(e, "prove")
    /\ opts' = [opts EXCEPT ![e].key = NoKey]
    /\ key' = [key EXCEPT ![e] = NoKey]
    /\ during' = [during EXCEPT ![e] = {}]
    /\ UNCHANGED <<manager, outcome, report, chain, cancelled, pool, down>>

\* The prover broadcasts what it was asked to, whether or not its answer arrives.
ProverBroadcasts(e) ==
    /\ pc[e] = "prove" /\ opts[e].broadcast
    /\ submission[e] \notin sent[e]
    /\ sent' = [sent EXCEPT ![e] = @ \cup {submission[e]}]
    /\ UNCHANGED <<manager, pc, opts, key, during, outcome, proving, confirmed, cancelled, pool, down>>

\* What the prover says of the broadcast, if it says anything, is true.
Truthful(e) ==
    {"silent"} \cup (IF ~opts[e].broadcast THEN {}
                     ELSE IF submission[e] \in sent[e] THEN {"ok"} ELSE {"failed"})

\* The proof is there.
ProverAnswers(e) ==
    /\ pc[e] = "prove"
    /\ \E said \in Truthful(e) : report' = [report EXCEPT ![e] = said]
    /\ To(e, "proved")
    /\ UNCHANGED <<manager, opts, key, during, outcome, submission, chain, cancelled, pool, down>>

\* The answer invites a retry, whether or not the prover has broadcast.
ProvingRetries(e) ==
    /\ pc[e] = "prove" /\ submission[e] + 1 \in Attempts
    /\ submission' = [submission EXCEPT ![e] = @ + 1]
    /\ UNCHANGED <<manager, pc, opts, key, during, outcome, report, chain, cancelled, pool, down>>

ProvingFails(e) ==
    /\ pc[e] = "prove"
    /\ Ends(e, Error)
    /\ UNCHANGED <<manager, pool, down>>

\* Mutant: the result of the broadcast is not looked at.
NeverFailed(e) == FALSE

BroadcastFailed(e) == opts[e].broadcast /\ report[e] = "failed"

\* Mutant: the transaction is that of the first submission.
FirstSubmission(e) == 1

\* The answer is the one to the last submission.
Answered(e) == submission[e]

\* A caller that submits itself gets what the prover answered.
ProofReturned(e) ==
    /\ pc[e] = "proved" /\ opts[e].call = "SubmitProvingRequest"
    /\ Ends(e, [kind |-> "proof", submission |-> Answered(e)])
    /\ UNCHANGED <<manager, pool, down>>

\* The broadcast and the transaction are checked, which may have no ID.
ExecuteViaDPSReturns(e) ==
    /\ pc[e] = "proved" /\ opts[e].call # "SubmitProvingRequest"
    /\ \/ /\ ~BroadcastFailed(e)
          /\ Ends(e, [kind |-> "id", submission |-> Answered(e)])
       \/ Ends(e, Error)
    /\ UNCHANGED <<manager, pool, down>>

-----------------------------------------------------------------------------
(* Waiting for the transaction                                             *)

\* The transactions of one execution spend the same records or nonces: at most one
\* of them gets on the chain.
Confirm(w) ==
    /\ confirmed[w] = 0
    /\ \E n \in sent[w] : confirmed' = [confirmed EXCEPT ![w] = n]
    /\ UNCHANGED <<manager, pc, opts, key, during, outcome, proving, sent, cancelled, pool, down>>

\* Before the poll a context that is done shows as the failure of what it ends.
Cancel(w) ==
    /\ pc[w] = "poll" /\ w \notin cancelled
    /\ cancelled' = cancelled \cup {w}
    /\ UNCHANGED <<manager, pc, opts, key, during, outcome, proving, chain, pool, down>>

TransactionFound(w) ==
    /\ pc[w] = "poll"
    /\ confirmed[w] = outcome[w].submission
    /\ To(w, "done") /\ Forgotten(w)
    /\ UNCHANGED <<manager, opts, key, during, outcome, proving, pool, down>>

PollCancelled(w) ==
    /\ pc[w] = "poll" /\ w \in cancelled
    /\ outcome' = [outcome EXCEPT ![w] = Error]
    /\ To(w, "done") /\ Forgotten(w)
    /\ UNCHANGED <<manager, opts, key, during, proving, pool, down>>

-----------------------------------------------------------------------------

Step(e) ==
    \/ BuildAuthorization(e) \/ ReadKey(e) \/ Crash(e)
    \/ AuthorizationFails(e) \/ AuthorizationBuilt(e) \/ SubmitProvingRequest(e)
    \/ ProverAnswers(e) \/ ProvingRetries(e) \/ ProvingFails(e)
    \/ ProofReturned(e) \/ ExecuteViaDPSReturns(e)

Leaves(r) == Record(r) \/ ReleaseSlot(r)
Poll(w) == TransactionFound(w) \/ PollCancelled(w)

Next ==
    /\ ~down
    /\ \/ SetAccount \/ ExecuteBatch \/ BatchReturns
       \/ \E a \in Accounts : ZeroizeBegins(a) \/ ZeroizeEnds(a)
       \/ \E e \in Executions : Step(e) \/ ProverBroadcasts(e)
       \/ \E r \in Requests : AcquireSlot(r) \/ Leaves(r)
       \/ \E w \in Waiters : Begin(w) \/ Cancel(w) \/ Confirm(w) \/ Poll(w)

Spec == Init /\ [][Next]_vars

(***************************************************************************)
(* Goroutines run on, and a slot that is free goes to one that waits for   *)
(* it.  That the authorization and the proving call end is what            *)
(* ImportResolver and ProvableClient promise, and that one of the          *)
(* transactions a caller waits for gets on the chain, what the network     *)
(* does.                                                                   *)
(***************************************************************************)
FairSpec ==
    /\ Spec
    /\ WF_vars(~down /\ BatchReturns)
    /\ \A r \in Requests :
          SF_vars(~down /\ AcquireSlot(r)) /\ WF_vars(~down /\ (Step(r) \/ Leaves(r)))
    /\ \A w \in Waiters : WF_vars(~down /\ (Step(w) \/ Poll(w))) /\ WF_vars(~down /\ Confirm(w))

-----------------------------------------------------------------------------
(* Properties                                                              *)

(***************************************************************************)
(* "with bounded concurrency": no more than MaxConcurrency executions of a *)
(* batch are at work at a time, whatever way they end (ExecuteBatch).  It  *)
(* is a part of what BatchKeepsPromise says.                               *)
(***************************************************************************)
BoundedConcurrency ==
    Cardinality({r \in Requests : Running(r)}) <= MaxConcurrency

(***************************************************************************)
(* When the batch returns, each request has its own outcome at its own     *)
(* index, written before the batch was told (ExecuteBatch).  This too is   *)
(* a part of what BatchKeepsPromise says.                                  *)
(***************************************************************************)
ResultsInPlace ==
    batch = "returned" =>
        \A r \in Requests : results[r] = outcome[r] /\ results[r] # NoOutcome

(***************************************************************************)
(* ExecuteBatch is a BoundedBatch of the executions at work: each request  *)
(* is executed once, what it ended with is written once, at its own index, *)
(* and nothing changes after the return.                                   *)
(***************************************************************************)
Promise == INSTANCE BoundedBatch WITH
    Bound <- MaxConcurrency,
    working <- {r \in Requests : Running(r)},
    outcome <- [r \in Requests |-> outcome[r]]

BatchKeepsPromise == Promise!Spec

(***************************************************************************)
(* A transaction ID given to a caller who asked for a broadcast names a    *)
(* transaction that was broadcast, not one that failed to be, whatever     *)
(* submissions came before it; only a prover that is silent about the      *)
(* broadcast is trusted (ExecuteViaDPS).                                   *)
(***************************************************************************)
SuccessWasBroadcast ==
    [][\A e \in Executions :
          outcome'[e] # outcome[e] /\ outcome'[e].kind = "id"
            /\ opts[e].broadcast /\ report[e] # "silent"
            => outcome'[e].submission \in sent[e]]_vars

(***************************************************************************)
(* A proving request is authorized with the key its caller gave, or else   *)
(* with the whole key of an account that the manager had between the call  *)
(* and the reading of the key, however accounts are replaced and zeroized  *)
(* meanwhile (BuildAuthorization).                                         *)
(***************************************************************************)
AuthorizedWithItsKey ==
    [][\A e \in Executions : pc[e] # "prove" /\ pc'[e] = "prove" =>
          key[e] \in IF opts[e].key # NoKey THEN {opts[e].key} ELSE during[e]]_vars

(***************************************************************************)
(* A batch returns, unless an account was removed or zeroized under one of *)
(* its executions: every way out of an execution gives its slot back.      *)
(***************************************************************************)
BatchEnds == batch = "running" ~> batch = "returned" \/ down

(***************************************************************************)
(* Every call returns, and ExecuteAndWait when the chain has taken the     *)
(* transaction of the proof it was given: it polls on for ever only when   *)
(* the prover broadcast nothing, or when the chain took the transaction of *)
(* an earlier submission, whose answer was lost (WaitForTransaction).      *)
(***************************************************************************)
WaitEnds ==
    \A w \in Waiters :
        pc[w] = "begin" ~>
            \/ pc[w] = "done" \/ down
            \/ pc[w] = "poll" /\ sent[w] = {}
            \/ pc[w] = "poll" /\ confirmed[w] \in 1..(outcome[w].submission - 1)

=============================================================================
