------------------------ MODULE ProgramManager_proofs ------------------------
(* Theorems about ProgramManager, for every batch, bound and set of accounts. *)
EXTENDS ProgramManager, FiniteSetTheorems, TLAPS

\* Where ExecuteViaDPS, or what it is built from, is at work.
Working == {"begin", "account", "authorize", "prove", "proved"}

-----------------------------------------------------------------------------
(* Slots and types                                                         *)

Holders == {r \in Requests : pc[r] \notin {"idle", "queued", "done"}}

\* Every slot in use is held by one execution of the batch, and those never poll.
Slots ==
    /\ sem = Cardinality(Holders)
    /\ sem <= MaxConcurrency
    /\ \A r \in Requests : opts[r].call \in {"none", "ExecuteViaDPS"}
    /\ batch = "idle" => \A r \in Requests : pc[r] = "idle"

\* A submission has a number, and what is reported of its broadcast is true.
Reported ==
    \A e \in Executions :
        /\ pc[e] \in {"prove", "proved"} => submission[e] # 0
        /\ pc[e] = "proved" => report[e] # "none"
        /\ pc[e] = "proved" /\ report[e] = "ok" => submission[e] \in sent[e]

LEMMA HoldersFinite == IsFiniteSet(Holders)
BY ExecutionAssumption, FS_Subset DEF Holders, Executions

LEMMA Values ==
    /\ Error \in Outcomes
    /\ NoOutcome \in Outcomes
    /\ NoOptions \in Options
    /\ [kind |-> "authorization", submission |-> 0] \in Outcomes
    /\ \A n \in Attempts : /\ [kind |-> "proof", submission |-> n] \in Outcomes
                           /\ [kind |-> "id", submission |-> n] \in Outcomes
    /\ 1 \in Attempts
BY BoundAssumption DEF Error, NoOutcome, NoOptions, Outcomes, Options, Calls, Attempts

LEMMA ForgottenTypes ==
    ASSUME TypeOK, NEW e \in Executions, Forgotten(e)
    PROVE  /\ sent' \in [Executions -> SUBSET Attempts]
           /\ confirmed' \in [Waiters -> Attempts \cup {0}]
           /\ cancelled' \subseteq Waiters
BY DEF TypeOK, Forgotten

LEMMA EndsTypes ==
    ASSUME TypeOK, NEW e \in Executions, NEW result \in Outcomes, Ends(e, result),
           UNCHANGED <<manager, pool, down>>
    PROVE  TypeOK'
<1>1. /\ sent' \in [Executions -> SUBSET Attempts]
      /\ confirmed' \in [Waiters -> Attempts \cup {0}]
      /\ cancelled' \subseteq Waiters
  <2>1. CASE Forgotten(e)
    BY <2>1, ForgottenTypes
  <2>2. CASE UNCHANGED <<chain, cancelled>>
    BY <2>2 DEF chain, TypeOK
  <2>3. QED
    BY <2>1, <2>2 DEF Ends
<1>2. pc' \in [Executions -> Labels]
  BY DEF Ends, To, TypeOK, Labels
<1>3. opts' \in [Executions -> Options]
  BY Values DEF Ends, TypeOK
<1>4. QED
  BY <1>1, <1>2, <1>3 DEF Ends, TypeOK, manager, pool, Reports

LEMMA StepTypes ==
    ASSUME TypeOK, NEW e \in Executions, Step(e)
    PROVE  TypeOK'
<1>1. CASE \E result \in Outcomes : Ends(e, result) /\ UNCHANGED <<manager, pool, down>>
  BY <1>1, EndsTypes
<1>2. CASE BuildAuthorization(e)
  <2>1. PICK o \in OptionsOf(e) :
          \/ Refused(o) /\ Ends(e, Error)
          \/ /\ GivenKey(o) = NoKey => account # NoAccount
             /\ opts' = [opts EXCEPT ![e] = o]
             /\ To(e, IF GivenKey(o) = NoKey THEN "account" ELSE "authorize")
             /\ key' = [key EXCEPT ![e] = GivenKey(o)]
             /\ during' = [during EXCEPT ![e] = IF GivenKey(o) = NoKey THEN {account} ELSE {}]
             /\ UNCHANGED <<outcome, proving, chain, cancelled>>
    BY <1>2 DEF BuildAuthorization, Refused
  <2>2. o \in Options
    BY DEF OptionsOf
  <2>3. GivenKey(o) \in Overrides \cup {NoKey}
    BY <2>2 DEF GivenKey, Options
  <2>4. CASE Ends(e, Error)
    BY <1>1, <1>2, <2>4, Values DEF BuildAuthorization
  <2>5. CASE ~Ends(e, Error)
    BY <1>2, <2>1, <2>2, <2>3, <2>5
       DEF BuildAuthorization, TypeOK, To, Labels, manager, pool, proving, chain
  <2>6. QED
    BY <2>4, <2>5
<1>3. CASE ReadKey(e)
  BY <1>1, <1>3, Values DEF ReadKey, ReadAgain, TypeOK, To, Labels, manager, pool, proving, chain
<1>4. CASE Crash(e)
  BY <1>4 DEF Crash, TypeOK, manager, pool, proving, chain
<1>5. CASE AuthorizationFails(e) \/ AuthorizationBuilt(e) \/ ProvingFails(e)
  BY <1>1, <1>5, Values DEF AuthorizationFails, AuthorizationBuilt, ProvingFails
<1>6. CASE SubmitProvingRequest(e)
  <2>1. opts' \in [Executions -> Options]
    BY <1>6 DEF SubmitProvingRequest, TypeOK, Options
  <2>2. QED
    BY <1>6, <2>1, Values DEF SubmitProvingRequest, TypeOK, To, Labels, manager, pool, chain
<1>7. CASE ProverAnswers(e)
  BY <1>7 DEF ProverAnswers, Truthful, TypeOK, To, Labels, Reports, manager, pool, chain
<1>8. CASE ProvingRetries(e)
  BY <1>8 DEF ProvingRetries, TypeOK, manager, pool, chain
<1>9. CASE ProofReturned(e) \/ ExecuteViaDPSReturns(e)
  <2>1. submission[e] \in Attempts \cup {0}
    BY DEF TypeOK
  <2>2. [kind |-> "proof", submission |-> submission[e]] \in Outcomes
    BY <2>1 DEF Outcomes
  <2>3. [kind |-> "id", submission |-> submission[e]] \in Outcomes
    BY <2>1 DEF Outcomes
  <2>4. QED
    BY <1>1, <1>9, <2>2, <2>3, Values DEF ProofReturned, ExecuteViaDPSReturns, Answered
<1>10. QED
  BY <1>2, <1>3, <1>4, <1>5, <1>6, <1>7, <1>8, <1>9 DEF Step

LEMMA SlotHeld ==
    ASSUME TypeOK, Slots, NEW r \in Requests, ReleaseSlot(r)
    PROVE  sem > 0
<1>1. r \in Holders
  BY DEF ReleaseSlot, Holders
<1>2. QED
  BY <1>1, HoldersFinite, FS_EmptySet, FS_CardinalityType DEF Slots

LEMMA TypeInv == ASSUME TypeOK, Slots, Reported, [Next]_vars PROVE TypeOK'
<1>1. CASE SetAccount
  BY <1>1 DEF SetAccount, TypeOK, proving, chain, pool
<1>2. ASSUME NEW a \in Accounts, ZeroizeBegins(a) \/ ZeroizeEnds(a) PROVE TypeOK'
  BY <1>2 DEF ZeroizeBegins, ZeroizeEnds, TypeOK, proving, chain, pool
<1>3. CASE ExecuteBatch \/ BatchReturns
  BY <1>3 DEF ExecuteBatch, BatchReturns, TypeOK, manager, proving, chain, Labels
<1>4. ASSUME NEW e \in Executions, Step(e) PROVE TypeOK'
  BY <1>4, StepTypes
<1>5. ASSUME NEW e \in Executions, ProverBroadcasts(e) PROVE TypeOK'
  <2>1. submission[e] \in Attempts
    BY <1>5 DEF ProverBroadcasts, Reported, TypeOK, Attempts
  <2>2. QED
    BY <1>5, <2>1 DEF ProverBroadcasts, TypeOK, manager, proving, pool
<1>6. ASSUME NEW r \in Requests, AcquireSlot(r) \/ Record(r) PROVE TypeOK'
  <2>1. r \in Executions
    BY DEF Executions
  <2>2. CASE AcquireSlot(r)
    BY <2>1, <2>2 DEF AcquireSlot, TypeOK, To, Labels, manager, proving, chain
  <2>3. CASE Record(r)
    BY <2>1, <2>3 DEF Record, Index, TypeOK, To, Labels, manager, proving, chain
  <2>4. QED
    BY <1>6, <2>2, <2>3
<1>7. ASSUME NEW r \in Requests, ReleaseSlot(r) PROVE TypeOK'
  <2>1. r \in Executions
    BY DEF Executions
  <2>2. sem' \in Nat
    <3>1. sem > 0 /\ sem \in Nat /\ sem' = sem - 1
      BY <1>7, SlotHeld DEF ReleaseSlot, Freed, TypeOK
    <3>2. QED
      BY <3>1
  <2>3. QED
    BY <1>7, <2>1, <2>2 DEF ReleaseSlot, TypeOK, To, Labels, manager, proving, chain
<1>8. ASSUME NEW w \in Waiters, Begin(w) \/ Cancel(w) \/ Confirm(w) PROVE TypeOK'
  <2>1. w \in Executions
    BY DEF Executions
  <2>2. CASE Begin(w)
    BY <2>1, <2>2 DEF Begin, TypeOK, To, Labels, manager, proving, chain, pool
  <2>3. CASE Cancel(w)
    BY <2>3 DEF Cancel, TypeOK, manager, proving, chain, pool
  <2>4. CASE Confirm(w)
    <3>1. PICK n \in sent[w] : confirmed' = [confirmed EXCEPT ![w] = n]
      BY <2>4 DEF Confirm
    <3>2. n \in Attempts
      BY <2>1, <3>1 DEF TypeOK
    <3>3. QED
      BY <2>4, <3>1, <3>2 DEF Confirm, TypeOK, manager, proving, pool
  <2>5. QED
    BY <1>8, <2>2, <2>3, <2>4
<1>9. ASSUME NEW w \in Waiters, Poll(w) PROVE TypeOK'
  BY <1>9, ForgottenTypes, Values
     DEF Poll, TransactionFound, PollCancelled, TypeOK, To, Labels, Executions, manager, proving, pool
<1>10. CASE UNCHANGED vars
  BY <1>10 DEF vars, TypeOK, manager, proving, chain, pool
<1>11. QED
  BY <1>1, <1>2, <1>3, <1>4, <1>5, <1>6, <1>7, <1>8, <1>9, <1>10 DEF Next, Leaves

-----------------------------------------------------------------------------
(* What a step of one execution leaves alone                               *)

LEMMA EndsAlone ==
    ASSUME TypeOK, NEW e \in Executions, NEW result, Ends(e, result)
    PROVE  \A d \in Executions \ {e} :
              UNCHANGED <<pc[d], opts[d], key[d], during[d], outcome[d], submission[d],
                          report[d], sent[d]>>
BY DEF Ends, To, Forgotten, TypeOK, chain

LEMMA StepAlone ==
    ASSUME TypeOK, NEW e \in Executions, Step(e)
    PROVE  /\ UNCHANGED <<manager, pool>>
           /\ \A d \in Executions \ {e} :
                 UNCHANGED <<pc[d], opts[d], key[d], during[d], outcome[d], submission[d],
                             report[d], sent[d]>>
<1> DEFINE Alone == \A d \in Executions \ {e} :
                       UNCHANGED <<pc[d], opts[d], key[d], during[d], outcome[d], submission[d],
                                   report[d], sent[d]>>
<1>1. CASE \E result : Ends(e, result)
  <2>1. Alone
    BY <1>1, EndsAlone
  <2>2. UNCHANGED <<manager, pool>>
    BY DEF Step, BuildAuthorization, ReadKey, Crash, AuthorizationFails, AuthorizationBuilt,
           SubmitProvingRequest, ProverAnswers, ProvingRetries, ProvingFails, ProofReturned,
           ExecuteViaDPSReturns
  <2>3. QED
    BY <2>1, <2>2
<1>2. CASE BuildAuthorization(e) \/ ReadKey(e) \/ Crash(e)
  BY <1>1, <1>2 DEF BuildAuthorization, ReadKey, Crash, To, TypeOK, proving, chain
<1>3. CASE SubmitProvingRequest(e)
  BY <1>3 DEF SubmitProvingRequest, To, TypeOK, chain
<1>4. CASE ProverAnswers(e) \/ ProvingRetries(e)
  BY <1>4 DEF ProverAnswers, ProvingRetries, To, TypeOK, chain
<1>5. CASE \/ AuthorizationFails(e) \/ AuthorizationBuilt(e) \/ ProvingFails(e)
           \/ ProofReturned(e) \/ ExecuteViaDPSReturns(e)
  BY <1>1, <1>5 DEF AuthorizationFails, AuthorizationBuilt, ProvingFails, ProofReturned,
                   ExecuteViaDPSReturns
<1>6. QED
  BY <1>2, <1>3, <1>4, <1>5 DEF Step

\* An execution at work goes on, ends, or crashes with the process.
LEMMA StepMoves ==
    ASSUME TypeOK, NEW e \in Executions, Step(e)
    PROVE  /\ pc[e] \in Working
           /\ \/ /\ \E label \in Working : To(e, label)
                 /\ UNCHANGED outcome
                 /\ opts'[e] \in OptionsOf(e) \/ opts'[e].call = opts[e].call
              \/ UNCHANGED <<pc, outcome, opts>>
              \/ \E result : Ends(e, result) /\ result # NoOutcome
<1>1. CASE BuildAuthorization(e)
  BY <1>1 DEF BuildAuthorization, Working, TypeOK, Error, NoOutcome
<1>2. CASE ReadKey(e) \/ Crash(e)
  BY <1>2 DEF ReadKey, Crash, Working, Error, NoOutcome
<1>3. CASE SubmitProvingRequest(e)
  BY <1>3 DEF SubmitProvingRequest, Working, TypeOK, Options
<1>4. CASE ProverAnswers(e) \/ ProvingRetries(e)
  BY <1>4 DEF ProverAnswers, ProvingRetries, Working
<1>5. CASE \/ AuthorizationFails(e) \/ AuthorizationBuilt(e) \/ ProvingFails(e)
           \/ ProofReturned(e) \/ ExecuteViaDPSReturns(e)
  BY <1>5 DEF AuthorizationFails, AuthorizationBuilt, ProvingFails, ProofReturned,
             ExecuteViaDPSReturns, Working, Error, NoOutcome
<1>6. QED
  BY <1>1, <1>2, <1>3, <1>4, <1>5 DEF Step

LEMMA Elsewhere ==
    /\ Working \cap {"idle", "queued", "done", "record", "release", "poll"} = {}
    /\ \A r \in Requests : r \in Executions /\ r \notin Waiters
    /\ \A w \in Waiters : w \in Executions /\ w \notin Requests
BY ExecutionAssumption DEF Working, Executions

-----------------------------------------------------------------------------
(* The semaphore                                                           *)

\* A step that takes no slot and gives none back.
LEMMA SlotsStay ==
    ASSUME Slots, UNCHANGED sem,
           \A r \in Requests : pc'[r] \in {"idle", "queued", "done"}
                                 <=> pc[r] \in {"idle", "queued", "done"},
           \A r \in Requests : opts'[r].call \in {"none", "ExecuteViaDPS"},
           batch' = "idle" => \A r \in Requests : pc'[r] = "idle"
    PROVE  Slots'
<1>1. Holders' = Holders
  BY DEF Holders
<1>2. QED
  BY <1>1 DEF Slots

LEMMA StepSlots ==
    ASSUME TypeOK, Slots, NEW e \in Executions, Step(e)
    PROVE  Slots'
<1>1. UNCHANGED <<sem, batch>>
  BY StepAlone DEF pool
<1>2. CASE e \notin Requests
  BY <1>1, <1>2, StepAlone, Elsewhere, SlotsStay DEF Slots
<1>3. CASE e \in Requests
  <2>1. pc[e] \in Working /\ opts[e].call \in {"none", "ExecuteViaDPS"}
    BY <1>3, StepMoves DEF Slots
  <2>2. pc'[e] \in Working \cup {"record"} /\ opts'[e].call \in {"none", "ExecuteViaDPS"}
    <3>1. CASE /\ \E label \in Working : To(e, label)
               /\ opts'[e] \in OptionsOf(e) \/ opts'[e].call = opts[e].call
      BY <1>3, <2>1, <3>1 DEF To, TypeOK, OptionsOf
    <3>2. CASE UNCHANGED <<pc, opts>>
      BY <2>1, <3>2
    <3>3. CASE \E result : Ends(e, result)
      BY <1>3, <2>1, <3>3 DEF Ends, Polls, To, TypeOK, NoOptions
    <3>4. QED
      BY <3>1, <3>2, <3>3, StepMoves
  <2>3. batch # "idle"
    BY <1>3, <2>1, Elsewhere DEF Slots
  <2>4. \A r \in Requests \ {e} : UNCHANGED <<pc[r], opts[r]>>
    BY StepAlone, Elsewhere
  <2>5. QED
    BY <1>1, <2>1, <2>2, <2>3, <2>4, Elsewhere, SlotsStay DEF Slots
<1>4. QED
  BY <1>2, <1>3

LEMMA SlotsInv == ASSUME TypeOK, Slots, [Next]_vars PROVE Slots'
<1>1. CASE UNCHANGED <<pc, opts, sem, batch>>
  BY <1>1, SlotsStay DEF Slots
<1>2. CASE ExecuteBatch
  BY <1>2, SlotsStay, Elsewhere DEF ExecuteBatch, Slots
<1>3. CASE BatchReturns
  BY <1>3, SlotsStay DEF BatchReturns, Slots
<1>4. ASSUME NEW e \in Executions, Step(e) PROVE Slots'
  BY <1>4, StepSlots
<1>5. ASSUME NEW r \in Requests, AcquireSlot(r) PROVE Slots'
  <2>1. r \notin Holders /\ Holders' = Holders \cup {r}
    BY <1>5, Elsewhere DEF AcquireSlot, To, Holders, TypeOK
  <2>2. Cardinality(Holders') = Cardinality(Holders) + 1
    BY <2>1, HoldersFinite, FS_AddElement
  <2>3. sem' = sem + 1 /\ sem < MaxConcurrency /\ sem \in Nat
    BY <1>5 DEF AcquireSlot, SlotFree, TypeOK
  <2>4. batch' # "idle"
    BY <1>5 DEF AcquireSlot, Slots
  <2>5. UNCHANGED opts
    BY <1>5 DEF AcquireSlot
  <2>6. QED
    BY <2>2, <2>3, <2>4, <2>5, BoundAssumption DEF Slots
<1>6. ASSUME NEW r \in Requests, ReleaseSlot(r) PROVE Slots'
  <2>1. r \in Holders /\ Holders' = Holders \ {r}
    BY <1>6, Elsewhere DEF ReleaseSlot, To, Holders, TypeOK
  <2>2. Cardinality(Holders') = Cardinality(Holders) - 1
    BY <2>1, HoldersFinite, FS_RemoveElement
  <2>3. sem' = sem - 1 /\ sem \in Nat
    BY <1>6 DEF ReleaseSlot, Freed, TypeOK
  <2>4. batch' # "idle"
    BY <1>6 DEF ReleaseSlot, Slots
  <2>5. UNCHANGED opts
    BY <1>6 DEF ReleaseSlot
  <2>6. QED
    BY <2>2, <2>3, <2>4, <2>5, BoundAssumption DEF Slots
<1>7. ASSUME NEW r \in Requests, Record(r) PROVE Slots'
  BY <1>7, SlotsStay, Elsewhere DEF Record, To, TypeOK, Slots
<1>8. ASSUME NEW w \in Waiters, Begin(w) \/ Poll(w) PROVE Slots'
  BY <1>8, SlotsStay, Elsewhere DEF Begin, Poll, TransactionFound, PollCancelled, To, TypeOK,
                                   Slots, pool
<1>9. CASE \/ SetAccount \/ UNCHANGED vars
           \/ \E a \in Accounts : ZeroizeBegins(a) \/ ZeroizeEnds(a)
           \/ \E e \in Executions : ProverBroadcasts(e)
           \/ \E w \in Waiters : Cancel(w) \/ Confirm(w)
  BY <1>1, <1>9 DEF SetAccount, ZeroizeBegins, ZeroizeEnds, ProverBroadcasts, Cancel, Confirm,
                    vars, pool
<1>10. QED
  BY <1>2, <1>3, <1>4, <1>5, <1>6, <1>7, <1>8, <1>9 DEF Next, Leaves

-----------------------------------------------------------------------------
(* Reports                                                                 *)

LEMMA ReportedInv == ASSUME TypeOK, Reported, [Next]_vars PROVE Reported'
<1>1. CASE UNCHANGED <<pc, submission, report, sent>>
  BY <1>1 DEF Reported
<1>2. ASSUME NEW e \in Executions, UNCHANGED <<submission, report>>,
             \E label \in Labels \ {"prove", "proved"} : To(e, label),
             UNCHANGED sent \/ Forgotten(e)
      PROVE  Reported'
  BY <1>2 DEF Reported, To, Forgotten, TypeOK
<1>3. ASSUME NEW e \in Executions, Step(e) PROVE Reported'
  <2>1. CASE \E result : Ends(e, result)
    <3>1. pc'[e] \notin {"prove", "proved"}
      BY <2>1 DEF Ends, To, TypeOK
    <3>2. QED
      BY <1>3, <3>1, StepAlone DEF Reported
  <2>2. CASE BuildAuthorization(e)
    <3>1. CASE \E label \in {"account", "authorize"} : To(e, label)
      BY <1>3, <3>1, StepAlone DEF To, Reported, TypeOK
    <3>2. QED
      BY <2>1, <2>2, <3>1 DEF BuildAuthorization
  <2>3. CASE ReadKey(e) \/ Crash(e)
    BY <2>1, <2>3 DEF ReadKey, Crash, To, Reported, TypeOK, proving, chain
  <2>4. CASE SubmitProvingRequest(e)
    BY <2>4 DEF SubmitProvingRequest, To, Reported, TypeOK, chain
  <2>5. CASE ProverAnswers(e)
    BY <2>5 DEF ProverAnswers, Truthful, To, Reported, TypeOK, chain
  <2>6. CASE ProvingRetries(e)
    <3>1. submission'[e] = submission[e] + 1 /\ submission[e] + 1 # 0
      BY <2>6 DEF ProvingRetries, TypeOK, Attempts
    <3>2. UNCHANGED <<pc, report, sent>> /\ pc[e] = "prove"
      BY <2>6 DEF ProvingRetries, chain
    <3>3. QED
      BY <1>3, <3>1, <3>2, StepAlone DEF Reported
  <2>7. CASE \/ AuthorizationFails(e) \/ AuthorizationBuilt(e) \/ ProvingFails(e)
             \/ ProofReturned(e) \/ ExecuteViaDPSReturns(e)
    BY <2>1, <2>7 DEF AuthorizationFails, AuthorizationBuilt, ProvingFails, ProofReturned,
                     ExecuteViaDPSReturns
  <2>8. QED
    BY <1>3, <2>2, <2>3, <2>4, <2>5, <2>6, <2>7 DEF Step
<1>4. ASSUME NEW e \in Executions, ProverBroadcasts(e) PROVE Reported'
  BY <1>4 DEF ProverBroadcasts, Reported, TypeOK, proving
<1>5. ASSUME NEW r \in Requests, AcquireSlot(r) \/ Leaves(r) PROVE Reported'
  BY <1>2, <1>5, Elsewhere DEF AcquireSlot, Leaves, Record, ReleaseSlot, Labels, proving, chain
<1>6. ASSUME NEW w \in Waiters, Begin(w) \/ Poll(w) PROVE Reported'
  BY <1>2, <1>6, Elsewhere DEF Begin, Poll, TransactionFound, PollCancelled, Labels, proving, chain
<1>7. CASE ExecuteBatch
  BY <1>7 DEF ExecuteBatch, Reported, proving, chain
<1>8. CASE \/ SetAccount \/ BatchReturns \/ UNCHANGED vars
           \/ \E a \in Accounts : ZeroizeBegins(a) \/ ZeroizeEnds(a)
           \/ \E w \in Waiters : Cancel(w) \/ Confirm(w)
  BY <1>1, <1>8 DEF SetAccount, BatchReturns, ZeroizeBegins, ZeroizeEnds, Cancel, Confirm,
                    vars, proving, chain
<1>9. QED
  BY <1>3, <1>4, <1>5, <1>6, <1>7, <1>8 DEF Next

LEMMA Initially == ASSUME Init PROVE TypeOK /\ Slots /\ Reported
<1>1. TypeOK
  <2>1. /\ pc \in [Executions -> Labels]
        /\ opts \in [Executions -> Options]
        /\ outcome \in [Executions -> Outcomes]
        /\ results \in [Requests -> Outcomes]
    BY Values DEF Init, Labels
  <2>2. /\ secret \in [Accounts -> {"whole", "torn", "gone"}]
        /\ key \in [Executions -> Accounts \cup Overrides \cup {"torn", NoKey}]
        /\ during \in [Executions -> SUBSET Accounts]
    BY DEF Init
  <2>3. /\ submission \in [Executions -> Attempts \cup {0}]
        /\ report \in [Executions -> Reports]
        /\ sent \in [Executions -> SUBSET Attempts]
        /\ confirmed \in [Waiters -> Attempts \cup {0}]
    BY DEF Init, Reports
  <2>4. QED
    BY <2>1, <2>2, <2>3 DEF Init, TypeOK
<1>2. Slots
  <2>1. Holders = {}
    BY Elsewhere DEF Init, Holders
  <2>2. \A r \in Requests : opts[r].call = "none" /\ pc[r] = "idle"
    BY Elsewhere DEF Init, NoOptions
  <2>3. Cardinality(Holders) = 0
    BY <2>1, FS_EmptySet
  <2>4. QED
    BY <2>2, <2>3, BoundAssumption DEF Init, Slots
<1>3. Reported
  BY DEF Init, Reported
<1>4. QED
  BY <1>1, <1>2, <1>3

LEMMA Invariant == Spec => [](TypeOK /\ Slots /\ Reported)
BY Initially, TypeInv, SlotsInv, ReportedInv, PTL DEF Spec

\* Every variable of the manager keeps its type, the count of its slots included.
THEOREM TypeCorrect == Spec => []TypeOK
BY Invariant, PTL

(***************************************************************************)
(* However large the batch and however its executions end, no more than    *)
(* MaxConcurrency of them are at work (the semaphore of ExecuteBatch).     *)
(***************************************************************************)
THEOREM ConcurrencyIsBounded == Spec => []BoundedConcurrency
<1>1. TypeOK /\ Slots => BoundedConcurrency
  <2> SUFFICES ASSUME TypeOK, Slots PROVE BoundedConcurrency
    OBVIOUS
  <2>1. {r \in Requests : Running(r)} \subseteq Holders
    BY DEF Running, Holders
  <2>2. Cardinality({r \in Requests : Running(r)}) <= Cardinality(Holders)
    BY <2>1, HoldersFinite, FS_Subset
  <2>3. Cardinality({r \in Requests : Running(r)}) \in Nat /\ Cardinality(Holders) \in Nat
    BY <2>1, HoldersFinite, FS_Subset, FS_CardinalityType
  <2>4. QED
    BY <2>2, <2>3, BoundAssumption DEF Slots, BoundedConcurrency
<1>2. QED
  BY <1>1, Invariant, PTL

(***************************************************************************)
(* An ID given to a caller who asked for a broadcast names the broadcast   *)
(* transaction, however many submissions there were (ExecuteViaDPS).       *)
(***************************************************************************)
THEOREM SuccessesWereBroadcast == Spec => SuccessWasBroadcast
<1> DEFINE Given(e) == outcome'[e] # outcome[e] /\ outcome'[e].kind = "id"
                         /\ opts[e].broadcast /\ report[e] # "silent"
                         => outcome'[e].submission \in sent[e]
<1>1. TypeOK /\ Reported /\ [Next]_vars => [\A e \in Executions : Given(e)]_vars
  <2> SUFFICES ASSUME TypeOK, Reported, Next, NEW e \in Executions PROVE Given(e)
    BY DEF Given
  <2>1. CASE UNCHANGED outcome
    BY <2>1
  <2>2. ASSUME NEW d \in Executions, NEW result, Ends(d, result), result.kind # "id"
        PROVE  Given(e)
    BY <2>2 DEF Ends, TypeOK
  <2>3. ASSUME NEW d \in Executions, Step(d) PROVE Given(e)
    <3>1. CASE ExecuteViaDPSReturns(d)
      <4>1. CASE Ends(d, Error)
        BY <2>2, <4>1 DEF Error
      <4>2. CASE ~BroadcastFailed(d) /\ Ends(d, [kind |-> "id", submission |-> submission[d]])
        <5>1. CASE e = d
          <6>1. pc[e] = "proved" /\ outcome'[e] = [kind |-> "id", submission |-> submission[e]]
            BY <3>1, <4>2, <5>1 DEF ExecuteViaDPSReturns, Ends, TypeOK
          <6>2. opts[e].broadcast /\ report[e] # "silent" => report[e] = "ok"
            BY <4>2, <5>1, <6>1 DEF BroadcastFailed, Reported, Reports, TypeOK
          <6>3. QED
            BY <6>1, <6>2 DEF Reported
        <5>2. CASE e # d
          BY <4>2, <5>2 DEF Ends, TypeOK
        <5>3. QED
          BY <5>1, <5>2
      <4>3. QED
        BY <3>1, <4>1, <4>2 DEF ExecuteViaDPSReturns, Answered
    <3>2. CASE BuildAuthorization(d) \/ ReadKey(d) \/ Crash(d)
      BY <2>1, <2>2, <3>2 DEF BuildAuthorization, ReadKey, Crash, Error
    <3>3. CASE SubmitProvingRequest(d) \/ ProverAnswers(d) \/ ProvingRetries(d)
      BY <2>1, <3>3 DEF SubmitProvingRequest, ProverAnswers, ProvingRetries
    <3>4. CASE \/ AuthorizationFails(d) \/ AuthorizationBuilt(d) \/ ProvingFails(d)
               \/ ProofReturned(d)
      BY <2>2, <3>4 DEF AuthorizationFails, AuthorizationBuilt, ProvingFails, ProofReturned, Error
    <3>5. QED
      BY <2>3, <3>1, <3>2, <3>3, <3>4 DEF Step
  <2>4. ASSUME NEW w \in Waiters, Poll(w) PROVE Given(e)
    BY <2>4, Elsewhere DEF Poll, TransactionFound, PollCancelled, Error, TypeOK
  <2>5. QED
    BY <2>1, <2>3, <2>4
       DEF Next, SetAccount, ExecuteBatch, BatchReturns, ZeroizeBegins, ZeroizeEnds,
           ProverBroadcasts, AcquireSlot, Leaves, Record, ReleaseSlot, Begin, Cancel, Confirm
<1>2. QED
  BY <1>1, Invariant, PTL DEF Spec, SuccessWasBroadcast

-----------------------------------------------------------------------------
(* Results                                                                 *)

\* An execution of the batch has its outcome before its result is recorded, and the
\* batch returns when all of them are.
Placed ==
    /\ \A r \in Requests :
          /\ pc[r] \in {"record", "release", "done"} => outcome[r] # NoOutcome
          /\ pc[r] \in {"release", "done"} => results[r] = outcome[r]
    /\ batch = "idle" => \A r \in Requests : pc[r] = "idle"
    /\ batch = "returned" => \A r \in Requests : pc[r] = "done"

\* A step that leaves alone the executions of the batch that have ended.
LEMMA PlacedStays ==
    ASSUME Placed, UNCHANGED <<results, batch>>,
           \A r \in Requests :
              \/ UNCHANGED <<pc[r], outcome[r]>>
              \/ pc[r] \in Working \cup {"queued"} /\ pc'[r] \in Working
              \/ pc[r] \in Working /\ pc'[r] = "record" /\ outcome'[r] # NoOutcome
    PROVE  Placed'
BY DEF Placed, Working

LEMMA StepPlaced ==
    ASSUME TypeOK, Slots, Placed, NEW e \in Executions, Step(e)
    PROVE  Placed'
<1>1. UNCHANGED <<results, batch>>
  BY StepAlone DEF pool
<1>2. \A d \in Executions \ {e} : UNCHANGED <<pc[d], outcome[d]>>
  BY StepAlone
<1>3. pc[e] \in Working
  BY StepMoves
<1>4. e \in Requests => \/ UNCHANGED <<pc[e], outcome[e]>>
                        \/ pc'[e] \in Working
                        \/ pc'[e] = "record" /\ outcome'[e] # NoOutcome
  <2>1. CASE \E label \in Working : To(e, label)
    BY <2>1 DEF To, TypeOK
  <2>2. CASE UNCHANGED <<pc, outcome>>
    BY <2>2
  <2>3. CASE \E result : Ends(e, result) /\ result # NoOutcome
    BY <2>3 DEF Ends, Polls, To, Slots, TypeOK
  <2>4. QED
    BY <2>1, <2>2, <2>3, StepMoves
<1>5. QED
  BY <1>1, <1>2, <1>3, <1>4, Elsewhere, PlacedStays

LEMMA PlacedInv == ASSUME TypeOK, Slots, Placed, [Next]_vars PROVE Placed'
<1>1. CASE UNCHANGED <<pc, outcome, results, batch>>
  BY <1>1 DEF Placed
<1>2. CASE ExecuteBatch
  BY <1>2, Elsewhere DEF ExecuteBatch, Placed
<1>3. CASE BatchReturns
  BY <1>3 DEF BatchReturns, AllDone, Placed
<1>4. ASSUME NEW e \in Executions, Step(e) PROVE Placed'
  BY <1>4, StepPlaced
<1>5. ASSUME NEW r \in Requests, AcquireSlot(r) PROVE Placed'
  <2>1. /\ pc[r] = "queued" /\ pc'[r] \in Working
        /\ \A q \in Requests \ {r} : UNCHANGED pc[q]
        /\ UNCHANGED <<outcome, results, batch>>
    BY <1>5, Elsewhere DEF AcquireSlot, To, Working, TypeOK
  <2>2. QED
    BY <2>1, PlacedStays
<1>6. ASSUME NEW r \in Requests, Record(r) PROVE Placed'
  BY <1>6, Elsewhere DEF Record, Index, To, Placed, TypeOK
<1>7. ASSUME NEW r \in Requests, ReleaseSlot(r) PROVE Placed'
  BY <1>7, Elsewhere DEF ReleaseSlot, To, Placed, TypeOK
<1>8. ASSUME NEW w \in Waiters, Begin(w) \/ Poll(w) PROVE Placed'
  <2>1. UNCHANGED <<results, batch>> /\ \A r \in Requests : UNCHANGED <<pc[r], outcome[r]>>
    BY <1>8, Elsewhere DEF Begin, Poll, TransactionFound, PollCancelled, To, TypeOK, pool
  <2>2. QED
    BY <2>1, PlacedStays
<1>9. CASE \/ SetAccount \/ UNCHANGED vars
           \/ \E a \in Accounts : ZeroizeBegins(a) \/ ZeroizeEnds(a)
           \/ \E e \in Executions : ProverBroadcasts(e)
           \/ \E w \in Waiters : Cancel(w) \/ Confirm(w)
  BY <1>1, <1>9 DEF SetAccount, ZeroizeBegins, ZeroizeEnds, ProverBroadcasts, Cancel, Confirm,
                    vars, pool
<1>10. QED
  BY <1>2, <1>3, <1>4, <1>5, <1>6, <1>7, <1>8, <1>9 DEF Next, Leaves

(***************************************************************************)
(* However the executions of a batch interleave and end, it returns with   *)
(* the outcome of each at its own index (ExecuteBatch).                    *)
(***************************************************************************)
THEOREM ResultsArePlaced == Spec => []ResultsInPlace
<1>1. Init => Placed
  BY Elsewhere DEF Init, Placed
<1>2. Placed => ResultsInPlace
  BY DEF Placed, ResultsInPlace
<1>3. QED
  BY <1>1, <1>2, PlacedInv, Invariant, PTL DEF Spec

-----------------------------------------------------------------------------
(* The batch as a BoundedBatch                                             *)

AtWork == {r \in Requests : Running(r)}

\* A request has no outcome until its execution ends, and none in the results until it
\* is recorded; only a batch that runs has executions in hand.
Unrecorded ==
    \A r \in Requests :
        /\ pc[r] \notin {"record", "release", "done"} => outcome[r] = NoOutcome
        /\ pc[r] \notin {"release", "done"} => results[r] = NoOutcome
        /\ pc[r] # "poll"
        /\ pc[r] = "queued" => batch = "running"

LEMMA UnrecordedStays ==
    ASSUME Unrecorded, UNCHANGED <<results, batch>>,
           \A r \in Requests :
              \/ UNCHANGED <<pc[r], outcome[r]>>
              \/ pc[r] \in Working \cup {"queued"} /\ pc'[r] \in Working /\ UNCHANGED outcome[r]
              \/ pc[r] \in Working /\ pc'[r] = "record"
              \/ pc[r] = "release" /\ pc'[r] = "done"
    PROVE  Unrecorded'
BY DEF Unrecorded, Working

LEMMA StepOfRequest ==
    ASSUME TypeOK, Slots, NEW r \in Requests, Step(r)
    PROVE  /\ pc[r] \in Working
           /\ \/ pc'[r] \in Working /\ UNCHANGED outcome[r]
              \/ pc'[r] = "record" /\ outcome'[r] # NoOutcome
<1>1. r \in Executions
  BY Elsewhere
<1>2. CASE (\E label \in Working : To(r, label)) /\ UNCHANGED outcome
  BY <1>1, <1>2, StepMoves DEF To, TypeOK
<1>3. CASE UNCHANGED <<pc, outcome, opts>>
  BY <1>1, <1>3, StepMoves
<1>4. CASE \E result : Ends(r, result) /\ result # NoOutcome
  <2>1. PICK result : Ends(r, result) /\ result # NoOutcome
    BY <1>4
  <2>2. pc'[r] = "record" /\ outcome'[r] = result
    BY <1>1, <2>1 DEF Ends, Polls, To, Slots, TypeOK
  <2>3. QED
    BY <2>1, <2>2, StepMoves, <1>1
<1>5. \/ (\E label \in Working : To(r, label)) /\ UNCHANGED outcome
      \/ UNCHANGED <<pc, outcome, opts>>
      \/ \E result : Ends(r, result) /\ result # NoOutcome
  BY <1>1, StepMoves
<1>6. QED
  BY <1>2, <1>3, <1>4, <1>5

LEMMA UnrecordedInv == ASSUME TypeOK, Slots, Placed, Unrecorded, [Next]_vars PROVE Unrecorded'
<1>1. CASE UNCHANGED <<pc, outcome, results, batch>>
  BY <1>1 DEF Unrecorded
<1>2. CASE ExecuteBatch
  BY <1>2, Elsewhere DEF ExecuteBatch, Unrecorded, Placed
<1>3. CASE BatchReturns
  BY <1>3 DEF BatchReturns, AllDone, Unrecorded
<1>4. ASSUME NEW e \in Executions, Step(e) PROVE Unrecorded'
  <2>1. /\ UNCHANGED <<results, batch>>
        /\ \A d \in Executions \ {e} : UNCHANGED <<pc[d], outcome[d]>>
    BY <1>4, StepAlone DEF pool
  <2>2. QED
    BY <1>4, <2>1, StepOfRequest, Elsewhere, UnrecordedStays
<1>5. ASSUME NEW r \in Requests, AcquireSlot(r) PROVE Unrecorded'
  BY <1>5, Elsewhere, UnrecordedStays DEF AcquireSlot, To, Working, TypeOK
<1>6. ASSUME NEW r \in Requests, Record(r) PROVE Unrecorded'
  BY <1>6, Elsewhere DEF Record, Index, To, Unrecorded, TypeOK
<1>7. ASSUME NEW r \in Requests, ReleaseSlot(r) PROVE Unrecorded'
  BY <1>7, Elsewhere, UnrecordedStays DEF ReleaseSlot, To, TypeOK
<1>8. ASSUME NEW w \in Waiters, Begin(w) \/ Poll(w) PROVE Unrecorded'
  <2>1. UNCHANGED <<results, batch>> /\ \A r \in Requests : UNCHANGED <<pc[r], outcome[r]>>
    BY <1>8, Elsewhere DEF Begin, Poll, TransactionFound, PollCancelled, To, TypeOK, pool
  <2>2. QED
    BY <2>1, UnrecordedStays
<1>9. CASE \/ SetAccount \/ UNCHANGED vars
           \/ \E a \in Accounts : ZeroizeBegins(a) \/ ZeroizeEnds(a)
           \/ \E e \in Executions : ProverBroadcasts(e)
           \/ \E w \in Waiters : Cancel(w) \/ Confirm(w)
  BY <1>1, <1>9 DEF SetAccount, ZeroizeBegins, ZeroizeEnds, ProverBroadcasts, Cancel, Confirm,
                    vars, pool
<1>10. QED
  BY <1>2, <1>3, <1>4, <1>5, <1>6, <1>7, <1>8, <1>9 DEF Next, Leaves

\* A step that the batch does not see.
LEMMA BatchStutters ==
    ASSUME UNCHANGED <<results, batch>>,
           \A r \in Requests : UNCHANGED outcome[r] /\ (Running(r)' <=> Running(r))
    PROVE  UNCHANGED Promise!vars
<1>1. AtWork' = AtWork
  BY DEF AtWork
<1>2. QED
  BY <1>1 DEF Promise!vars, AtWork

LEMMA SameCardinality == ASSUME NEW S PROVE Promise!Cardinality(S) = Cardinality(S)
BY DEF Promise!Cardinality, Cardinality

LEMMA TakesUp ==
    ASSUME TypeOK, Slots, Unrecorded, NEW r \in Requests, AcquireSlot(r)
    PROVE  Promise!TakeUp(r)
<1>1. /\ pc[r] = "queued" /\ pc'[r] = "begin"
      /\ \A q \in Requests \ {r} : UNCHANGED pc[q]
      /\ UNCHANGED <<batch, outcome, results>>
  BY Elsewhere DEF AcquireSlot, To, TypeOK
<1>2. r \notin AtWork /\ AtWork' = AtWork \cup {r}
  BY <1>1 DEF AtWork, Running
<1>3. batch = "running" /\ outcome[r] = NoOutcome
  BY <1>1 DEF Unrecorded
<1>4. Cardinality(AtWork) < MaxConcurrency
  <2>1. AtWork \subseteq Holders
    BY DEF AtWork, Running, Holders
  <2>2. /\ Cardinality(AtWork) <= Cardinality(Holders)
        /\ Cardinality(AtWork) \in Nat /\ Cardinality(Holders) \in Nat
    BY <2>1, HoldersFinite, FS_Subset, FS_CardinalityType
  <2>3. Cardinality(Holders) < MaxConcurrency
    BY DEF AcquireSlot, SlotFree, Slots
  <2>4. QED
    BY <2>2, <2>3, BoundAssumption
<1>5. QED
  BY <1>1, <1>2, <1>3, <1>4, SameCardinality DEF Promise!TakeUp, AtWork

LEMMA Ended ==
    ASSUME TypeOK, Slots, Unrecorded, NEW r \in Requests, Step(r), pc'[r] = "record"
    PROVE  Promise!End(r)
<1>1. /\ UNCHANGED <<results, batch>>
      /\ \A q \in Requests \ {r} : UNCHANGED <<pc[q], outcome[q]>>
  BY StepAlone, Elsewhere DEF pool
<1>2. pc[r] \in Working /\ outcome'[r] # NoOutcome
  BY StepOfRequest, Elsewhere
<1>3. r \in AtWork /\ AtWork' = AtWork
  BY <1>1, <1>2 DEF AtWork, Running, Working
<1>4. outcome[r] = NoOutcome
  BY <1>2 DEF Unrecorded, Working
<1>5. outcome'[r] \in Outcomes
  BY StepTypes, Elsewhere DEF TypeOK
<1>6. QED
  BY <1>1, <1>2, <1>3, <1>4, <1>5 DEF Promise!End, AtWork

LEMMA Recorded ==
    ASSUME TypeOK, Placed, NEW r \in Requests, Record(r)
    PROVE  Promise!Record(r)
<1>1. /\ pc[r] = "record" /\ pc'[r] = "release"
      /\ \A q \in Requests \ {r} : UNCHANGED pc[q]
      /\ results' = [results EXCEPT ![r] = outcome[r]]
      /\ UNCHANGED <<batch, outcome>>
  BY Elsewhere DEF Record, Index, To, TypeOK
<1>2. r \in AtWork /\ AtWork' = AtWork \ {r}
  BY <1>1 DEF AtWork, Running
<1>3. outcome[r] # NoOutcome
  BY <1>1 DEF Placed
<1>4. QED
  BY <1>1, <1>2, <1>3 DEF Promise!Record, AtWork

LEMMA BatchSteps ==
    ASSUME TypeOK, Slots, Placed, Unrecorded, [Next]_vars
    PROVE  [Promise!Next]_(Promise!vars)
<1>1. CASE UNCHANGED <<pc, outcome, results, batch>>
  BY <1>1, BatchStutters DEF Running
<1>2. CASE ExecuteBatch
  <2>1. batch = "idle" /\ batch' = "running" /\ UNCHANGED <<outcome, results>>
    BY <1>2 DEF ExecuteBatch
  <2>2. AtWork' = AtWork
    BY <1>2, <2>1, Elsewhere DEF ExecuteBatch, AtWork, Running, Placed
  <2>3. Promise!Call
    BY <2>1, <2>2 DEF Promise!Call, AtWork
  <2>4. QED
    BY <2>3 DEF Promise!Next
<1>3. CASE BatchReturns
  <2>1. batch = "running" /\ batch' = "returned" /\ UNCHANGED <<pc, outcome, results>>
    BY <1>3 DEF BatchReturns
  <2>2. \A r \in Requests : pc[r] = "done" /\ results[r] # NoOutcome
    BY <1>3 DEF BatchReturns, AllDone, Placed
  <2>3. AtWork = {} /\ AtWork' = {}
    BY <2>1, <2>2 DEF AtWork, Running
  <2>4. Promise!Return
    BY <2>1, <2>2, <2>3 DEF Promise!Return, AtWork
  <2>5. QED
    BY <2>4 DEF Promise!Next
<1>4. ASSUME NEW e \in Executions, Step(e) PROVE [Promise!Next]_(Promise!vars)
  <2>1. /\ UNCHANGED <<results, batch>>
        /\ \A d \in Executions \ {e} : UNCHANGED <<pc[d], outcome[d]>>
    BY <1>4, StepAlone DEF pool
  <2>2. CASE e \in Requests /\ pc'[e] = "record"
    BY <1>4, <2>2, Ended DEF Promise!Next
  <2>3. CASE ~(e \in Requests /\ pc'[e] = "record")
    <3>1. \A r \in Requests : UNCHANGED outcome[r] /\ (Running(r)' <=> Running(r))
      BY <1>4, <2>1, <2>3, StepOfRequest, Elsewhere DEF Running, Working
    <3>2. QED
      BY <2>1, <3>1, BatchStutters
  <2>4. QED
    BY <2>2, <2>3
<1>5. ASSUME NEW r \in Requests, AcquireSlot(r) \/ Record(r) PROVE Promise!Next
  BY <1>5, TakesUp, Recorded DEF Promise!Next
<1>6. ASSUME NEW r \in Requests, ReleaseSlot(r) PROVE UNCHANGED Promise!vars
  BY <1>6, Elsewhere, BatchStutters DEF ReleaseSlot, To, Running, TypeOK
<1>7. ASSUME NEW w \in Waiters, Begin(w) \/ Poll(w) PROVE UNCHANGED Promise!vars
  <2>1. UNCHANGED <<results, batch>> /\ \A r \in Requests : UNCHANGED <<pc[r], outcome[r]>>
    BY <1>7, Elsewhere DEF Begin, Poll, TransactionFound, PollCancelled, To, TypeOK, pool
  <2>2. QED
    BY <2>1, BatchStutters DEF Running
<1>8. CASE \/ SetAccount \/ UNCHANGED vars
           \/ \E a \in Accounts : ZeroizeBegins(a) \/ ZeroizeEnds(a)
           \/ \E e \in Executions : ProverBroadcasts(e)
           \/ \E w \in Waiters : Cancel(w) \/ Confirm(w)
  BY <1>1, <1>8 DEF SetAccount, ZeroizeBegins, ZeroizeEnds, ProverBroadcasts, Cancel, Confirm,
                    vars, pool
<1>9. QED
  BY <1>2, <1>3, <1>4, <1>5, <1>6, <1>7, <1>8 DEF Next, Leaves

(***************************************************************************)
(* ExecuteBatch implements BoundedBatch, whatever the executions do and    *)
(* whatever goes on beside it: each request is executed once, what it      *)
(* ended with is written once, at its own index, and nothing changes after *)
(* the return.                                                             *)
(***************************************************************************)
THEOREM ManagerKeepsPromise == Spec => BatchKeepsPromise
<1>1. Init => Placed /\ Unrecorded
  BY Elsewhere DEF Init, Placed, Unrecorded
<1>2. Init => Promise!Init
  <2> SUFFICES ASSUME Init PROVE Promise!Init
    OBVIOUS
  <2>1. AtWork = {}
    BY Elsewhere DEF Init, AtWork, Running
  <2>2. outcome = [e \in Executions |-> NoOutcome] /\ results = [r \in Requests |-> NoOutcome]
    BY DEF Init
  <2>3. [r \in Requests |-> outcome[r]] = [r \in Requests |-> NoOutcome]
    BY <2>2, Elsewhere
  <2>4. QED
    BY <2>1, <2>2, <2>3 DEF Init, Promise!Init, AtWork
<1>3. QED
  BY <1>1, <1>2, BatchSteps, PlacedInv, UnrecordedInv, Invariant, PTL
     DEF Spec, BatchKeepsPromise, Promise!Spec

-----------------------------------------------------------------------------
(* Keys                                                                    *)

\* Who is about to read the account's key has seen every account there was since it
\* began; who is about to authorize has the key its options gave, or read one.
Keyed ==
    \A e \in Executions :
        /\ pc[e] = "account" => /\ opts[e].key = NoKey
                                /\ account \in during[e] \cup {NoAccount}
        /\ pc[e] = "authorize" => IF opts[e].key # NoKey THEN key[e] = opts[e].key
                                  ELSE key[e] \in during[e] \cup {"torn"}

LEMMA StepKeyed ==
    ASSUME TypeOK, Keyed, NEW e \in Executions, Step(e)
    PROVE  Keyed'
<1>1. UNCHANGED account
  BY StepAlone DEF manager
<1>2. ASSUME pc'[e] \notin {"account", "authorize"} PROVE Keyed'
  BY <1>1, <1>2, StepAlone DEF Keyed
<1>3. CASE \E result : Ends(e, result)
  BY <1>2, <1>3 DEF Ends, To, TypeOK
<1>4. CASE BuildAuthorization(e)
  <2>1. CASE ~\E result : Ends(e, result)
    <3>1. PICK o \in OptionsOf(e) :
            /\ ~Refused(o)
            /\ opts' = [opts EXCEPT ![e] = o]
            /\ To(e, IF GivenKey(o) = NoKey THEN "account" ELSE "authorize")
            /\ key' = [key EXCEPT ![e] = GivenKey(o)]
            /\ during' = [during EXCEPT ![e] = IF GivenKey(o) = NoKey THEN {account} ELSE {}]
      BY <1>4, <2>1 DEF BuildAuthorization
    <3>2. /\ opts'[e] = o
          /\ pc'[e] = IF o.key = NoKey THEN "account" ELSE "authorize"
          /\ key'[e] = o.key
          /\ o.key = NoKey => during'[e] = {account}
      BY <3>1 DEF GivenKey, To, TypeOK
    <3>3. QED
      BY <1>1, <3>2, StepAlone DEF Keyed
  <2>2. QED
    BY <1>3, <2>1
<1>5. CASE ReadKey(e)
  <2>1. CASE ~\E result : Ends(e, result)
    <3>1. /\ pc[e] = "account" /\ account # NoAccount
          /\ key'[e] \in {"torn", account}
          /\ during'[e] = during[e] \cap {account}
          /\ pc'[e] = "authorize"
          /\ UNCHANGED opts
      BY <1>5, <2>1 DEF ReadKey, ReadAgain, To, TypeOK
    <3>2. QED
      BY <1>1, <3>1, StepAlone DEF Keyed
  <2>2. QED
    BY <1>3, <2>1
<1>6. CASE Crash(e)
  BY <1>6 DEF Crash, Keyed, manager
<1>7. CASE SubmitProvingRequest(e) \/ ProverAnswers(e) \/ ProvingRetries(e)
  BY <1>2, <1>7 DEF SubmitProvingRequest, ProverAnswers, ProvingRetries, To, TypeOK
<1>8. CASE \/ AuthorizationFails(e) \/ AuthorizationBuilt(e) \/ ProvingFails(e)
           \/ ProofReturned(e) \/ ExecuteViaDPSReturns(e)
  BY <1>3, <1>8 DEF AuthorizationFails, AuthorizationBuilt, ProvingFails, ProofReturned,
                   ExecuteViaDPSReturns
<1>9. QED
  BY <1>4, <1>5, <1>6, <1>7, <1>8 DEF Step

LEMMA KeyedInv == ASSUME TypeOK, Keyed, [Next]_vars PROVE Keyed'
<1>1. CASE UNCHANGED <<account, pc, opts, key, during>>
  BY <1>1 DEF Keyed
<1>2. CASE SetAccount
  BY <1>2 DEF SetAccount, ReadsAccount, Keyed
<1>3. CASE ExecuteBatch
  BY <1>3 DEF ExecuteBatch, Keyed, manager
<1>4. ASSUME NEW e \in Executions, Step(e) PROVE Keyed'
  BY <1>4, StepKeyed
<1>5. ASSUME NEW e \in Executions, UNCHANGED <<account, opts, key, during>>,
             \E label \in Labels \ {"account", "authorize"} : To(e, label)
      PROVE  Keyed'
  BY <1>5 DEF To, Keyed, TypeOK
<1>6. ASSUME NEW r \in Requests, AcquireSlot(r) \/ Leaves(r) PROVE Keyed'
  BY <1>5, <1>6, Elsewhere DEF AcquireSlot, Leaves, Record, ReleaseSlot, Labels, manager
<1>7. ASSUME NEW w \in Waiters, Begin(w) \/ Poll(w) PROVE Keyed'
  BY <1>5, <1>7, Elsewhere DEF Begin, Poll, TransactionFound, PollCancelled, Labels, manager
<1>8. CASE \/ BatchReturns \/ UNCHANGED vars
           \/ \E a \in Accounts : ZeroizeBegins(a) \/ ZeroizeEnds(a)
           \/ \E e \in Executions : ProverBroadcasts(e)
           \/ \E w \in Waiters : Cancel(w) \/ Confirm(w)
  BY <1>1, <1>8 DEF BatchReturns, ZeroizeBegins, ZeroizeEnds, ProverBroadcasts, Cancel, Confirm,
                    vars, manager
<1>9. QED
  BY <1>2, <1>3, <1>4, <1>6, <1>7, <1>8 DEF Next

(***************************************************************************)
(* However the account is replaced and zeroized, a proving request goes out*)
(* under the key its caller gave, or the whole key of an account that the  *)
(* manager had between the call and the reading of the key                 *)
(* (BuildAuthorization).                                                   *)
(***************************************************************************)
THEOREM KeysAreRight == Spec => AuthorizedWithItsKey
<1> DEFINE Right(e) == pc[e] # "prove" /\ pc'[e] = "prove" =>
                         key[e] \in IF opts[e].key # NoKey THEN {opts[e].key} ELSE during[e]
<1>1. TypeOK /\ Keyed /\ [Next]_vars => [\A e \in Executions : Right(e)]_vars
  <2> SUFFICES ASSUME TypeOK, Keyed, Next, NEW e \in Executions, pc[e] # "prove", pc'[e] = "prove"
               PROVE  key[e] \in IF opts[e].key # NoKey THEN {opts[e].key} ELSE during[e]
    BY DEF Right
  <2>1. SubmitProvingRequest(e) => Right(e)
    BY DEF SubmitProvingRequest, Parsed, Keyed
  <2>2. ASSUME NEW d \in Executions, Step(d) PROVE SubmitProvingRequest(e)
    <3>1. d = e
      BY <2>2, StepAlone
    <3>2. ~\E result : Ends(e, result)
      BY DEF Ends, To, TypeOK
    <3>3. QED
      BY <2>2, <3>1, <3>2
         DEF Step, BuildAuthorization, ReadKey, Crash, AuthorizationFails, AuthorizationBuilt,
             ProverAnswers, ProvingRetries, ProvingFails, ProofReturned, ExecuteViaDPSReturns,
             To, TypeOK
  <2>3. ASSUME NEW d \in Executions, NEW label \in Labels \ {"prove"}, To(d, label) PROVE FALSE
    BY <2>3 DEF To, TypeOK
  <2>4. QED
    BY <2>1, <2>2, <2>3, Elsewhere
       DEF Next, SetAccount, ExecuteBatch, BatchReturns, ZeroizeBegins, ZeroizeEnds,
           ProverBroadcasts, AcquireSlot, Leaves, Record, ReleaseSlot, Begin, Cancel, Confirm,
           Poll, TransactionFound, PollCancelled, Labels
<1>2. Init => Keyed
  BY DEF Init, Keyed
<1>3. QED
  BY <1>1, <1>2, KeyedInv, Invariant, PTL DEF Spec, AuthorizedWithItsKey

-----------------------------------------------------------------------------
(* The end of a batch                                                      *)

\* A count, which nothing reads: the steps each request has taken.
VARIABLE work

TakesStep(r) == pc'[r] # pc[r] \/ submission'[r] # submission[r]

Counting == work' = [r \in Requests |-> IF TakesStep(r) THEN work[r] + 1 ELSE work[r]]

CountedSpec == Spec /\ work = [r \in Requests |-> 0] /\ [][Counting]_<<vars, work>>

\* The most steps a request still has to take.
StepsLeft(r) ==
    CASE pc[r] = "idle" -> MaxRetries + 9
      [] pc[r] = "queued" -> MaxRetries + 8
      [] pc[r] = "begin" -> MaxRetries + 7
      [] pc[r] = "account" -> MaxRetries + 6
      [] pc[r] = "authorize" -> MaxRetries + 5
      [] pc[r] = "prove" -> MaxRetries + 5 - submission[r]
      [] pc[r] = "proved" -> 3
      [] pc[r] = "record" -> 2
      [] pc[r] = "release" -> 1
      [] OTHER -> 0

Counted ==
    /\ \A r \in Requests : work[r] \in Nat /\ work[r] + StepsLeft(r) <= MaxRetries + 9
    /\ \A r \in Requests : pc[r] # "poll" /\ (batch # "idle" => pc[r] # "idle")

\* The steps of a request, one by one.
Follows(r) ==
    \/ UNCHANGED <<pc[r], submission[r]>>
    \/ pc[r] = "queued" /\ pc'[r] = "begin"
    \/ pc[r] = "begin" /\ pc'[r] \in {"account", "authorize"}
    \/ pc[r] = "account" /\ pc'[r] = "authorize"
    \/ pc[r] = "authorize" /\ pc'[r] = "prove" /\ submission'[r] = 1
    \/ /\ pc[r] = "prove" /\ pc'[r] = "prove"
       /\ submission'[r] = submission[r] + 1 /\ submission'[r] \in Attempts
    \/ pc[r] = "prove" /\ pc'[r] = "proved"
    \/ pc[r] \in Working /\ pc'[r] = "record"
    \/ pc[r] = "record" /\ pc'[r] = "release"
    \/ pc[r] = "release" /\ pc'[r] = "done"

LEMMA StepFollows ==
    ASSUME TypeOK, Slots, NEW r \in Requests, Step(r)
    PROVE  Follows(r)
<1>1. r \in Executions
  BY Elsewhere
<1>2. ASSUME NEW result, Ends(r, result) PROVE pc'[r] = "record"
  BY <1>1, <1>2 DEF Ends, Polls, To, Slots, TypeOK
<1>3. pc[r] \in Working
  BY <1>1, StepMoves
<1>4. CASE BuildAuthorization(r)
  BY <1>1, <1>2, <1>3, <1>4 DEF BuildAuthorization, To, TypeOK, Follows
<1>5. CASE ReadKey(r) \/ Crash(r)
  BY <1>1, <1>2, <1>3, <1>5 DEF ReadKey, Crash, To, TypeOK, Follows, proving
<1>6. CASE SubmitProvingRequest(r)
  BY <1>1, <1>6 DEF SubmitProvingRequest, To, TypeOK, Follows
<1>7. CASE ProverAnswers(r) \/ ProvingRetries(r)
  BY <1>1, <1>7 DEF ProverAnswers, ProvingRetries, To, TypeOK, Follows
<1>8. CASE \/ AuthorizationFails(r) \/ AuthorizationBuilt(r) \/ ProvingFails(r)
           \/ ProofReturned(r) \/ ExecuteViaDPSReturns(r)
  BY <1>2, <1>3, <1>8 DEF AuthorizationFails, AuthorizationBuilt, ProvingFails, ProofReturned,
                         ExecuteViaDPSReturns, Follows
<1>9. QED
  BY <1>4, <1>5, <1>6, <1>7, <1>8 DEF Step

\* Once the batch has begun, all that its requests do is to follow.
LEMMA NextFollows ==
    ASSUME TypeOK, Slots, [Next]_vars, ~ExecuteBatch, NEW r \in Requests
    PROVE  Follows(r)
<1>1. r \in Executions /\ r \notin Waiters
  BY Elsewhere
<1>2. ASSUME NEW e \in Executions, Step(e) PROVE Follows(r)
  BY <1>1, <1>2, StepAlone, StepFollows DEF Follows
<1>3. ASSUME NEW q \in Requests, AcquireSlot(q) PROVE Follows(r)
  BY <1>1, <1>3, Elsewhere DEF AcquireSlot, To, TypeOK, Follows, proving
<1>4. ASSUME NEW q \in Requests, Leaves(q) PROVE Follows(r)
  BY <1>1, <1>4, Elsewhere DEF Leaves, Record, ReleaseSlot, To, TypeOK, Follows, proving
<1>5. ASSUME NEW w \in Waiters, Begin(w) \/ Poll(w) PROVE Follows(r)
  BY <1>1, <1>5, Elsewhere DEF Begin, Poll, TransactionFound, PollCancelled, To, TypeOK, Follows,
                               proving
<1>6. CASE \/ SetAccount \/ BatchReturns \/ UNCHANGED vars
           \/ \E a \in Accounts : ZeroizeBegins(a) \/ ZeroizeEnds(a)
           \/ \E e \in Executions : ProverBroadcasts(e)
           \/ \E w \in Waiters : Cancel(w) \/ Confirm(w)
  BY <1>6 DEF SetAccount, BatchReturns, ZeroizeBegins, ZeroizeEnds, ProverBroadcasts, Cancel,
              Confirm, vars, proving, Follows
<1>7. QED
  BY <1>2, <1>3, <1>4, <1>5, <1>6 DEF Next

\* A step leaves fewer.
LEMMA FewerLeft ==
    ASSUME TypeOK, TypeOK', Reported, Reported', NEW r \in Requests, Follows(r)
    PROVE  /\ StepsLeft(r) \in Nat /\ StepsLeft(r)' \in Nat
           /\ TakesStep(r) => StepsLeft(r)' < StepsLeft(r)
           /\ ~TakesStep(r) => StepsLeft(r)' = StepsLeft(r)
<1>1. /\ submission[r] \in 0..MaxRetries + 1 /\ submission'[r] \in 0..MaxRetries + 1
      /\ pc[r] = "prove" => submission[r] # 0
      /\ pc'[r] = "prove" => submission'[r] # 0
      /\ MaxRetries \in Nat
  BY BoundAssumption, Elsewhere DEF TypeOK, Reported, Attempts
<1>2. StepsLeft(r) \in Nat /\ StepsLeft(r)' \in Nat
  BY <1>1 DEF StepsLeft
<1>3. ~TakesStep(r) => StepsLeft(r)' = StepsLeft(r)
  BY DEF TakesStep, StepsLeft
<1>4. ASSUME TakesStep(r) PROVE StepsLeft(r)' < StepsLeft(r)
  <2>1. CASE pc[r] \in {"queued", "begin", "account"} /\ pc'[r] \in {"begin", "account", "authorize"}
             /\ Follows(r)
    BY <1>1, <1>4, <2>1 DEF Follows, StepsLeft, TakesStep
  <2>2. CASE pc[r] = "authorize" /\ pc'[r] = "prove" /\ submission'[r] = 1
    BY <1>1, <2>2 DEF StepsLeft
  <2>3. CASE pc[r] = "prove" /\ pc'[r] = "prove" /\ submission'[r] = submission[r] + 1
    BY <1>1, <2>3 DEF StepsLeft
  <2>4. CASE pc[r] = "prove" /\ pc'[r] = "proved"
    BY <1>1, <2>4 DEF StepsLeft
  <2>5. CASE pc[r] \in Working /\ pc'[r] = "record"
    BY <1>1, <2>5 DEF StepsLeft, Working
  <2>6. CASE pc[r] \in {"record", "release"} /\ pc'[r] \in {"release", "done"} /\ pc[r] # pc'[r]
    BY <2>6 DEF StepsLeft
  <2>7. QED
    BY <1>4, <2>1, <2>2, <2>3, <2>4, <2>5, <2>6 DEF Follows, TakesStep
<1>5. QED
  BY <1>2, <1>3, <1>4

LEMMA CountedInv ==
    ASSUME TypeOK, TypeOK', Slots, Reported, Reported', Counted, [Next]_vars,
           [Counting]_<<vars, work>>
    PROVE  Counted'
<1>1. CASE UNCHANGED <<vars, work>>
  BY <1>1 DEF Counted, StepsLeft, vars, proving, pool
<1>2. CASE Counting /\ ExecuteBatch
  <2>1. ASSUME NEW r \in Requests PROVE pc[r] = "idle" /\ pc'[r] = "queued"
    BY <1>2, <2>1, Elsewhere DEF ExecuteBatch, Slots
  <2>2. ASSUME NEW r \in Requests PROVE work'[r] = work[r] + 1
    BY <1>2, <2>1 DEF Counting, TakesStep
  <2>3. ASSUME NEW r \in Requests
        PROVE  work'[r] \in Nat /\ work'[r] + StepsLeft(r)' <= MaxRetries + 9
    BY <2>1, <2>2, BoundAssumption DEF Counted, StepsLeft
  <2>4. QED
    BY <2>1, <2>3 DEF Counted
<1>3. CASE Counting /\ ~ExecuteBatch
  <2>1. ASSUME NEW r \in Requests
        PROVE  work'[r] \in Nat /\ work'[r] + StepsLeft(r)' <= MaxRetries + 9
    <3>1. work'[r] = IF TakesStep(r) THEN work[r] + 1 ELSE work[r]
      BY <1>3 DEF Counting
    <3>2. /\ StepsLeft(r) \in Nat /\ StepsLeft(r)' \in Nat
          /\ TakesStep(r) => StepsLeft(r)' < StepsLeft(r)
          /\ ~TakesStep(r) => StepsLeft(r)' = StepsLeft(r)
      BY <1>3, NextFollows, FewerLeft
    <3>3. work[r] \in Nat /\ work[r] + StepsLeft(r) <= MaxRetries + 9 /\ MaxRetries \in Nat
      BY BoundAssumption DEF Counted
    <3>4. QED
      BY <3>1, <3>2, <3>3
  <2>2. ASSUME NEW r \in Requests
        PROVE  pc'[r] # "poll" /\ (pc'[r] = "idle" => pc[r] = "idle")
    BY <1>3, NextFollows DEF Follows, Counted, Working
  <2>3. batch = "idle" => batch' = "idle"
    BY <1>3, StepAlone DEF Next, SetAccount, BatchReturns, ZeroizeBegins, ZeroizeEnds, ProverBroadcasts,
         AcquireSlot, Leaves, Record, ReleaseSlot, Begin, Cancel, Confirm, Poll, TransactionFound,
         PollCancelled, vars, pool
  <2>4. QED
    BY <2>1, <2>2, <2>3 DEF Counted
<1>4. QED
  BY <1>1, <1>2, <1>3

(***************************************************************************)
(* A batch has an end, whatever order its executions take turns in: each   *)
(* takes no more than MaxRetries + 9 steps, from its goroutine's start to  *)
(* the release of its slot, and until all are done one of them holds a slot*)
(* and is at work, or one waits for a slot and there is one.  No goroutine *)
(* waits for a slot that nobody will give back (ExecuteBatch).             *)
(***************************************************************************)
THEOREM BatchesAreFinite ==
    CountedSpec => [](/\ \A r \in Requests : work[r] <= MaxRetries + 9
                      /\ batch = "running" =>
                            \/ AllDone
                            \/ \E r \in Requests : pc[r] \in Working \cup {"record", "release"}
                            \/ SlotFree /\ \E r \in Requests : pc[r] = "queued")
<1>1. Init /\ work = [r \in Requests |-> 0] => Counted
  <2> SUFFICES ASSUME Init, work = [r \in Requests |-> 0] PROVE Counted
    OBVIOUS
  <2>1. ASSUME NEW r \in Requests
        PROVE  pc[r] = "idle" /\ work[r] = 0
    BY Elsewhere DEF Init
  <2>2. ASSUME NEW r \in Requests
        PROVE  work[r] \in Nat /\ work[r] + StepsLeft(r) <= MaxRetries + 9
    BY <2>1, BoundAssumption DEF StepsLeft
  <2>3. batch = "idle"
    BY DEF Init
  <2>4. QED
    BY <2>1, <2>2, <2>3 DEF Counted
<1>2. TypeOK /\ Reported /\ Counted => \A r \in Requests : work[r] <= MaxRetries + 9
  <2> SUFFICES ASSUME TypeOK, Reported, Counted, NEW r \in Requests
               PROVE  work[r] <= MaxRetries + 9
    OBVIOUS
  <2>1. submission[r] \in 0..MaxRetries + 1 /\ MaxRetries \in Nat
    BY BoundAssumption, Elsewhere DEF TypeOK, Attempts
  <2>2. StepsLeft(r) \in Nat
    BY <2>1 DEF StepsLeft
  <2>3. QED
    BY <2>1, <2>2 DEF Counted
<1>3. ASSUME TypeOK, Slots, Counted, batch = "running", ~AllDone,
             ~\E r \in Requests : pc[r] \in Working \cup {"record", "release"}
      PROVE  SlotFree /\ \E r \in Requests : pc[r] = "queued"
  <2>1. \A r \in Requests : pc[r] \in {"queued", "done"}
    BY <1>3, Elsewhere DEF TypeOK, Labels, Counted, Working
  <2>2. Holders = {}
    BY <2>1 DEF Holders
  <2>3. sem = 0
    BY <1>3, <2>2, FS_EmptySet DEF Slots
  <2>4. QED
    BY <1>3, <2>1, <2>3, BoundAssumption DEF SlotFree, AllDone
<1>4. QED
  BY <1>1, <1>2, <1>3, CountedInv, Invariant, PTL DEF Spec, CountedSpec

=============================================================================
