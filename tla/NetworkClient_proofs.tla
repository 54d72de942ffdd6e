------------------------ MODULE NetworkClient_proofs ------------------------
(* Theorems about NetworkClient, for any number of callers, any answers and *)
(* any delays.                                                              *)
EXTENDS NetworkClient, SequenceTheorems, FiniteSetTheorems, TLAPS

-----------------------------------------------------------------------------
(* The types                                                               *)

GetOps == Operations \ POSTs

AnyAnswer == Answers \cup {Lost}

\* The types of what belongs to a caller.
CallerTypes ==
    /\ pc \in [Callers -> Labels]
    /\ op \in [Callers -> Ops \cup {"none"}]
    /\ attempt \in [Callers -> Nat]
    /\ timer \in [Callers -> Nat]
    /\ cancelled \in [Callers -> BOOLEAN]
    /\ log \in [Callers -> Seq(AnyAnswer)]
    /\ barred \in [Callers -> Nat]
    /\ result \in [Callers -> Results]

LimiterTypes ==
    /\ tokens \in -MaxPromised..Rate
    /\ sent \in [1..Rate -> Nat]

\* How far the loop of get has come.
Counted(c) ==
    /\ pc[c] = "backoff" => attempt[c] \in 1..MaxRetries
    /\ pc[c] = "limiter" => attempt[c] <= MaxRetries

TypeInv == CallerTypes /\ LimiterTypes /\ \A c \in Callers : Counted(c)

\* What the steps of a caller leave alone.
Alone(c) ==
    \A d \in Callers \ {c} :
        /\ pc'[d] = pc[d] /\ op'[d] = op[d] /\ attempt'[d] = attempt[d]
        /\ timer'[d] = timer[d] /\ cancelled'[d] = cancelled[d] /\ log'[d] = log[d]
        /\ barred'[d] = barred[d] /\ result'[d] = result[d]

Turn(c) == Begin(c) \/ Cancel(c) \/ Advance(c)

LEMMA Numbers ==
    /\ MaxRetries \in Int /\ Rate \in Nat /\ MaxPromised \in Nat \ {0}
    /\ Timeout \in Nat /\ PollInterval \in Nat
BY DurationAssumption, BoundAssumption

LEMMA WaitType == \A k \in Int : (IF k >= 0 THEN 0 ELSE -k) \in Nat
OBVIOUS

LEMMA DelayType == \A k \in 1..MaxRetries : Delay(k) \in Nat
BY DurationAssumption

LEMMA AnswerTypes ==
    /\ \A a \in Answers : a.status \in Nat \ {0} /\ a.retryAfter \in Nat /\ a.decodes \in BOOLEAN
    /\ \A a \in Answers : SecondsToWait(a) \in Nat
    /\ Lost \notin Answers /\ Lost.status = 0
BY AnswerAssumption DEF SecondsToWait, Lost

LEMMA LogGrows ==
    ASSUME CallerTypes, NEW c \in Callers, NEW a \in AnyAnswer, Logs(c, a)
    PROVE  /\ log' \in [Callers -> Seq(AnyAnswer)]
           /\ log'[c] = Append(log[c], a)
           /\ \A d \in Callers \ {c} : log'[d] = log[d]
BY AppendProperties DEF CallerTypes, Logs

LEMMA TurnTypes ==
    ASSUME TypeInv, NEW c \in Callers, Turn(c)
    PROVE  CallerTypes' /\ Alone(c) /\ Counted(c)'
<1> USE Numbers DEF CallerTypes, Alone, Counted, Labels, Waits, Results, To, Start, control
<1>1. CASE Begin(c)
  <2>1. PICK o \in Operations : Get(c, o) \/ Post(c, o)
    BY <1>1 DEF Begin
  <2>2. CASE Get(c, o)
    BY <2>2, OpAssumption, EmptySeq DEF TypeInv, Get, EnterGet
  <2>3. CASE Post(c, o)
    BY <2>3, OpAssumption, EmptySeq DEF TypeInv, Post
  <2>4. QED
    BY <2>1, <2>2, <2>3
<1>2. CASE Cancel(c)
  BY <1>2 DEF TypeInv, Cancel
<1>3. CASE LoopEnds(c) \/ FirstAttempt(c) \/ BackoffOver(c)
  <2>1. CASE LoopEnds(c)
    <3>1. PICK r \in Results : Finish(c, r)
      BY <2>1 DEF LoopEnds
    <3>2. QED
      BY <2>1, <3>1 DEF TypeInv, LoopEnds, Finish
  <2>2. CASE FirstAttempt(c)
    BY <2>2 DEF TypeInv, FirstAttempt, AttemptsLeft
  <2>3. CASE BackoffOver(c)
    BY <2>3 DEF TypeInv, BackoffOver
  <2>4. QED
    BY <1>3, <2>1, <2>2, <2>3
<1>4. CASE BackOff(c)
  <2>1. attempt[c] \in 1..MaxRetries
    BY <1>4 DEF TypeInv, BackOff, AttemptsLeft
  <2>2. Delay(attempt[c]) \in Nat
    BY <2>1, DelayType
  <2>3. QED
    BY <1>4, <2>1, <2>2 DEF TypeInv, BackOff
<1>5. CASE BackoffCancelled(c) \/ LimiterCancelled(c) \/ RetryAfterCancelled(c) \/ ReservationCancelled(c)
  <2>1. PICK label \in Labels : ContextDone(c, label)
    BY <1>5 DEF BackoffCancelled, LimiterCancelled, RetryAfterCancelled, ReservationCancelled
  <2>2. QED
    BY <2>1 DEF TypeInv, ContextDone, Finish
<1>16. CASE DeadlineTooNear(c) \/ Malformed(c)
  <2>1. PICK r \in Results : Finish(c, r)
    BY <1>16 DEF DeadlineTooNear, Malformed
  <2>2. UNCHANGED <<op, attempt, timer, cancelled, log, barred>>
    BY <1>16 DEF DeadlineTooNear, Malformed
  <2>3. QED
    BY <2>1, <2>2 DEF TypeInv, Finish
<1>6. CASE SendPost(c) \/ Send(c)
  <2>1. CASE SendPost(c)
    BY <2>1 DEF TypeInv, SendPost
  <2>2. CASE Send(c)
    BY <2>2 DEF TypeInv, Send
  <2>3. QED
    BY <1>6, <2>1, <2>2
<1>7. CASE Reserve(c)
  <2>1. PICK n \in Nat : Start(c, n)
    <3> DEFINE n == IF tokens' >= 0 THEN 0 ELSE -tokens'
    <3>1. tokens' \in Int
      BY <1>7 DEF Reserve, TakesToken, TypeInv, LimiterTypes
    <3>2. n \in Nat
      BY <3>1, WaitType
    <3>3. Start(c, n)
      BY <1>7 DEF Reserve, TakesToken
    <3>4. QED
      BY <3>2, <3>3
  <2>2. QED
    BY <1>7, <2>1 DEF TypeInv, Reserve
<1>8. CASE Concludes(c)
  <2>1. PICK a \in Answers, r \in Results : Logs(c, a) /\ Finish(c, r)
    BY <1>8 DEF Concludes
  <2>2. log' \in [Callers -> Seq(AnyAnswer)] /\ \A d \in Callers \ {c} : log'[d] = log[d]
    BY <2>1, LogGrows DEF TypeInv, AnyAnswer
  <2>3. QED
    BY <1>8, <2>1, <2>2 DEF TypeInv, Concludes, Finish
<1>9. CASE RefusedForNow(c)
  <2>1. PICK a \in Answers :
           /\ Logs(c, a)
           /\ barred' = [barred EXCEPT ![c] = IF a.status = 429 THEN a.retryAfter ELSE 0]
           /\ IF SecondsToWait(a) > 0
              THEN To(c, "retry-after") /\ Start(c, SecondsToWait(a)) /\ UNCHANGED attempt
              ELSE NextAttempt(c) /\ Start(c, 0)
    BY <1>9 DEF RefusedForNow
  <2>2. log' \in [Callers -> Seq(AnyAnswer)] /\ \A d \in Callers \ {c} : log'[d] = log[d]
    BY <2>1, LogGrows DEF TypeInv, AnyAnswer
  <2>3. SecondsToWait(a) \in Nat /\ a.retryAfter \in Nat
    BY AnswerTypes
  <2>4. barred' \in [Callers -> Nat] /\ \A d \in Callers \ {c} : barred'[d] = barred[d]
    BY <2>1, <2>3 DEF TypeInv
  <2>5. UNCHANGED <<op, cancelled, result>>
    BY <1>9 DEF RefusedForNow
  <2>6. CASE SecondsToWait(a) > 0
    <3>1. To(c, "retry-after") /\ Start(c, SecondsToWait(a)) /\ UNCHANGED attempt
      BY <2>1, <2>6
    <3>2. QED
      BY <2>2, <2>3, <2>4, <2>5, <3>1 DEF TypeInv
  <2>7. CASE ~(SecondsToWait(a) > 0)
    <3>1. NextAttempt(c) /\ Start(c, 0)
      BY <2>1, <2>7
    <3>2. QED
      BY <2>2, <2>4, <2>5, <3>1 DEF TypeInv, NextAttempt
  <2>8. QED
    BY <2>6, <2>7
<1>10. CASE RetryAfterOver(c)
  BY <1>10 DEF TypeInv, RetryAfterOver, NextAttempt
<1>11. CASE LosesAnswer(c)
  <2>1. log' \in [Callers -> Seq(AnyAnswer)] /\ \A d \in Callers \ {c} : log'[d] = log[d]
    BY <1>11, LogGrows DEF TypeInv, AnyAnswer, LosesAnswer
  <2>2. CASE op[c] \in POSTs
    BY <1>11, <2>1, <2>2 DEF TypeInv, LosesAnswer, AfterLoss, Finish
  <2>3. CASE op[c] \notin POSTs
    <3>1. NextAttempt(c) /\ UNCHANGED result /\ Start(c, 0) /\ UNCHANGED <<op, cancelled, barred>>
      BY <1>11, <2>3 DEF LosesAnswer, AfterLoss
    <3>2. QED
      BY <2>1, <3>1 DEF TypeInv, NextAttempt
  <2>4. QED
    BY <2>2, <2>3
<1>12. CASE NotThereYet(c)
  BY <1>12 DEF TypeInv, NotThereYet
<1>13. CASE PollAgain(c)
  BY <1>13, EmptySeq DEF TypeInv, PollAgain, EnterGet
<1>14. CASE PollCancelled(c) \/ Return(c)
  <2>1. Leave(c)
    BY <1>14 DEF PollCancelled, Return
  <2>2. <<>> \in Seq(AnyAnswer)
    BY EmptySeq
  <2>3. QED
    BY <2>1, <2>2 DEF TypeInv, Leave
<1>15. QED
  BY <1>1, <1>2, <1>3, <1>4, <1>5, <1>6, <1>7, <1>8, <1>9, <1>10, <1>11, <1>12, <1>13, <1>14,
     <1>16 DEF Turn, Advance

LEMMA LimiterLeftAlone ==
    ASSUME NEW c, Turn(c), ~Reserve(c), ~ReservationCancelled(c), ~Send(c)
    PROVE  UNCHANGED <<tokens, sent>>
BY DEF Turn, Begin, Get, Post, Cancel, Advance, LoopEnds, FirstAttempt, BackOff, BackoffOver,
       BackoffCancelled, SendPost, LimiterCancelled, Concludes, RefusedForNow, RetryAfterOver,
       RetryAfterCancelled, LosesAnswer, NotThereYet, PollAgain, PollCancelled, Return, Leave,
       ContextDone, Limiter, DeadlineTooNear, Malformed

LEMMA TurnLimiter ==
    ASSUME TypeInv, NEW c \in Callers, Turn(c)
    PROVE  LimiterTypes'
<1> USE Numbers DEF LimiterTypes
<1>1. CASE Reserve(c)
  BY <1>1 DEF TypeInv, Reserve, TakesToken
<1>2. CASE ReservationCancelled(c)
  BY <1>2 DEF TypeInv, CallerTypes, ReservationCancelled, ContextDone
<1>3. CASE Send(c)
  BY <1>3 DEF TypeInv, Send
<1>4. CASE ~Reserve(c) /\ ~ReservationCancelled(c) /\ ~Send(c)
  <2>1. UNCHANGED <<tokens, sent>>
    BY <1>4, LimiterLeftAlone
  <2>2. QED
    BY <2>1 DEF TypeInv
<1>5. QED
  BY <1>1, <1>2, <1>3, <1>4

LEMMA TickTypes ==
    ASSUME TypeInv, Tick
    PROVE  TypeInv'
<1> USE Numbers
<1>1. CallerTypes' /\ \A c \in Callers : Counted(c)'
  BY DEF TypeInv, Tick, CallerTypes, Counted, Dec
<1>2. tokens' \in -MaxPromised..Rate
  BY DEF TypeInv, LimiterTypes, Tick
<1>3. sent' \in [1..Rate -> Nat]
  BY DEF TypeInv, LimiterTypes, Tick
<1>4. QED
  BY <1>1, <1>2, <1>3 DEF TypeInv, LimiterTypes

LEMMA StepTypes == TypeInv /\ [Next]_vars => TypeInv'
<1> SUFFICES ASSUME TypeInv, [Next]_vars
             PROVE  TypeInv'
  OBVIOUS
<1>1. ASSUME NEW c \in Callers, Turn(c)
      PROVE  TypeInv'
  <2>1. CallerTypes' /\ Alone(c) /\ Counted(c)' /\ LimiterTypes'
    BY <1>1, TurnTypes, TurnLimiter
  <2>2. \A d \in Callers : Counted(d)'
    BY <2>1 DEF TypeInv, Counted, Alone
  <2>3. QED
    BY <2>1, <2>2 DEF TypeInv
<1>2. CASE UNCHANGED vars
  BY <1>2 DEF vars, TypeInv, CallerTypes, LimiterTypes, Counted
<1>3. QED
  BY <1>1, <1>2, TickTypes DEF Next, Turn

LEMMA TypesHold == Spec => []TypeInv
<1>1. Init => TypeInv
  <2> USE Numbers
  <2>1. QED
    BY EmptySeq DEF Init, TypeInv, CallerTypes, LimiterTypes, Counted, Labels, Results
<1>2. QED
  BY <1>1, StepTypes, PTL DEF Spec

(***************************************************************************)
(* Every state is of its type: the tokens of the limiter stay in their     *)
(* bounds, and no attempt after the last retry reaches it (get, Wait).     *)
(***************************************************************************)
THEOREM TypeCorrect == Spec => []TypeOK
<1>1. TypeInv => TypeOK
  BY DEF TypeInv, CallerTypes, LimiterTypes, Counted, TypeOK, AnyAnswer
<1>2. QED
  BY <1>1, TypesHold, PTL

-----------------------------------------------------------------------------
(* Retry-After                                                             *)

Loop == {"head", "backoff", "limiter", "reserved"}

\* Which labels belong to a GET, which to a POST.
Place(c) ==
    /\ (pc[c] = "idle") = (op[c] = "none")
    /\ pc[c] \in Loop \cup {"retry-after"} => op[c] \in GetOps
    /\ pc[c] = "post" => op[c] \in POSTs
    /\ pc[c] = "poll" => op[c] = "wait"

\* The loop goes on only when the node's wait is over, which its timer covers.
Waited(c) ==
    /\ pc[c] \in Loop \/ (pc[c] = "flying" /\ op[c] \notin POSTs) => barred[c] = 0
    /\ pc[c] = "retry-after" => barred[c] <= timer[c]

Placed == \A c \in Callers : Place(c) /\ Waited(c)

LEMMA WaitPlaces ==
    ASSUME TypeInv, NEW c \in Callers, Place(c), Waited(c), Turn(c)
    PROVE  Place(c)' /\ Waited(c)'
<1> USE DEF Place, Waited, Loop, GetOps, POSTs, To, Start, control
<1> USE DEF CallerTypes
<1>1. CASE Begin(c)
  <2>1. PICK o \in Operations : Get(c, o) \/ Post(c, o)
    BY <1>1 DEF Begin
  <2>2. "none" \notin Operations
    BY DEF Operations, Getters
  <2>3. QED
    BY <2>1, <2>2 DEF TypeInv, Get, EnterGet, Post
<1>2. CASE Cancel(c) \/ LoopEnds(c) \/ FirstAttempt(c) \/ BackOff(c) \/ BackoffOver(c)
  BY <1>2 DEF TypeInv, Cancel, LoopEnds, Finish, FirstAttempt, BackOff, BackoffOver
<1>3. CASE BackoffCancelled(c) \/ LimiterCancelled(c) \/ RetryAfterCancelled(c) \/ ReservationCancelled(c)
  BY <1>3 DEF TypeInv, BackoffCancelled, LimiterCancelled, RetryAfterCancelled,
              ReservationCancelled, ContextDone, Finish
<1>11. CASE DeadlineTooNear(c) \/ Malformed(c)
  BY <1>11 DEF TypeInv, DeadlineTooNear, Malformed, Finish
<1>4. CASE SendPost(c) \/ Reserve(c) \/ Send(c) \/ Concludes(c)
  BY <1>4 DEF TypeInv, SendPost, Reserve, Send, Concludes, Finish
<1>5. CASE RefusedForNow(c)
  <2>1. PICK a \in Answers :
           /\ Retried(c, a)
           /\ barred' = [barred EXCEPT ![c] = IF a.status = 429 THEN a.retryAfter ELSE 0]
           /\ IF SecondsToWait(a) > 0
              THEN To(c, "retry-after") /\ Start(c, SecondsToWait(a))
              ELSE To(c, "head")
    BY <1>5 DEF RefusedForNow, NextAttempt
  <2>2. pc[c] = "flying" /\ op' = op /\ op[c] \in GetOps
    BY <1>5, <2>1, OpAssumption DEF RefusedForNow, Retried, TypeInv
  <2>3. SecondsToWait(a) \in Nat /\ barred'[c] = SecondsToWait(a)
    BY <2>1, AnswerTypes DEF TypeInv, SecondsToWait
  <2>4. CASE SecondsToWait(a) > 0
    <3>1. pc'[c] = "retry-after" /\ timer'[c] = SecondsToWait(a)
      BY <2>1, <2>4 DEF TypeInv
    <3>2. QED
      BY <2>2, <2>3, <3>1
  <2>5. CASE ~(SecondsToWait(a) > 0)
    <3>1. pc'[c] = "head"
      BY <2>1, <2>5 DEF TypeInv
    <3>2. QED
      BY <2>2, <2>3, <2>5, <3>1
  <2>6. QED
    BY <2>4, <2>5
<1>6. CASE RetryAfterOver(c)
  BY <1>6 DEF TypeInv, RetryAfterOver, NextAttempt
<1>7. CASE LosesAnswer(c)
  <2>1. pc[c] = "flying" /\ op' = op /\ barred' = barred /\ AfterLoss(c)
    BY <1>7 DEF LosesAnswer
  <2>2. op[c] \in POSTs \/ (op[c] \in GetOps /\ op[c] # "none")
    BY <2>1, OpAssumption DEF TypeInv
  <2>3. QED
    BY <2>1, <2>2 DEF TypeInv, AfterLoss, Finish, NextAttempt
<1>8. CASE NotThereYet(c) \/ PollAgain(c)
  BY <1>8 DEF TypeInv, NotThereYet, Satisfied, PollAgain, EnterGet, Operations
<1>9. CASE PollCancelled(c) \/ Return(c)
  BY <1>9 DEF TypeInv, PollCancelled, Return, Leave
<1>10. QED
  BY <1>1, <1>2, <1>3, <1>4, <1>5, <1>6, <1>7, <1>8, <1>9, <1>11 DEF Turn, Advance

LEMMA PlacesHold == Spec => [](TypeInv /\ Placed)
<1>1. Init => Placed
  BY DEF Init, Placed, Place, Waited, Loop
<1>2. TypeInv /\ Placed /\ [Next]_vars => Placed'
  <2> SUFFICES ASSUME TypeInv, Placed, [Next]_vars
               PROVE  Placed'
    OBVIOUS
  <2>1. ASSUME NEW c \in Callers, Turn(c)
        PROVE  Placed'
    <3>1. Place(c)' /\ Waited(c)' /\ Alone(c)
      BY <2>1, WaitPlaces, TurnTypes DEF Placed
    <3>2. QED
      BY <3>1 DEF Placed, Place, Waited, Alone
  <2>2. CASE Tick
    <3>1. ASSUME NEW c \in Callers
          PROVE  Place(c)' /\ Waited(c)'
      <4>1. /\ pc'[c] = pc[c] /\ op'[c] = op[c] /\ Place(c) /\ Waited(c)
            /\ timer'[c] = Dec(timer[c]) /\ barred'[c] = Dec(barred[c])
            /\ timer[c] \in Nat /\ barred[c] \in Nat
        BY <2>2 DEF Tick, Placed, TypeInv, CallerTypes
      <4>2. QED
        BY <4>1 DEF Place, Waited, Dec
    <3>2. QED
      BY <3>1 DEF Placed
  <2>3. CASE UNCHANGED vars
    BY <2>3 DEF vars, Placed, Place, Waited
  <2>4. QED
    BY <2>1, <2>2, <2>3 DEF Next, Turn
<1>3. QED
  BY <1>1, <1>2, TypesHold, PTL DEF Spec

(***************************************************************************)
(* "Honor Retry-After header on 429": whatever the node asks for and       *)
(* however short the delays are, no request of a call goes out before the  *)
(* node's wait is over (get).                                              *)
(***************************************************************************)
THEOREM WaitsAsTold == Spec => RetryAfterHonoured
<1>1. TypeInv /\ Placed /\ [Next]_vars =>
        [\A c \in Callers : op[c] \notin POSTs /\ pc[c] = "reserved" /\ pc'[c] = "flying"
            => barred[c] = 0]_vars
  BY DEF Placed, Waited, Loop
<1>2. QED
  BY <1>1, PlacesHold, PTL DEF Spec, RetryAfterHonoured

-----------------------------------------------------------------------------
(* The limiter                                                             *)

\* The ones whose token is there; they send before the clock goes on.
Due == {c \in Callers : pc[c] = "reserved" /\ timer[c] = 0}

\* No two callers wait for the same tick, nor longer than for all that is promised.
Spread ==
    \A c \in Callers : pc[c] = "reserved" /\ timer[c] > 0 =>
        /\ timer[c] <= -tokens
        /\ \A d \in Callers \ {c} : pc[d] = "reserved" => timer[d] # timer[c]

AtHand == IF tokens > 0 THEN tokens ELSE 0

\* What was sent lately, is about to be, and could be at once.
Budget ==
    /\ Rate = 0 => tokens = 0
    /\ IsFiniteSet(Due)
    /\ \A i \in 1..Rate : sent[i] + Cardinality(Due) + AtHand <= Rate + (i - 1)

LEMMA DueCount ==
    ASSUME IsFiniteSet(Due)
    PROVE  Cardinality(Due) \in Nat
BY FS_CardinalityType

\* A caller that does not come to be due leaves no more of them.
LEMMA NotDue ==
    ASSUME TypeInv, Budget, NEW c \in Callers, Alone(c), UNCHANGED <<tokens, sent>>,
           pc'[c] # "reserved"
    PROVE  Budget'
<1>1. Due' \subseteq Due
  BY DEF Due, Alone
<1>2. /\ IsFiniteSet(Due')
      /\ Cardinality(Due') \in Nat /\ Cardinality(Due) \in Nat
      /\ Cardinality(Due') <= Cardinality(Due)
  BY <1>1, FS_Subset, FS_CardinalityType DEF Budget
<1>3. AtHand' = AtHand /\ AtHand \in Int
  BY DEF AtHand, TypeInv, LimiterTypes
<1>4. \A i \in 1..Rate : sent[i] \in Nat
  BY DEF TypeInv, LimiterTypes
<1>5. QED
  BY <1>2, <1>3, <1>4, Numbers DEF Budget

LEMMA ReserveInBudget ==
    ASSUME TypeInv, Spread, Budget, NEW c \in Callers, Alone(c), Reserve(c)
    PROVE  Spread' /\ Budget'
<1> USE Numbers
<1>1. /\ pc[c] = "limiter" /\ pc' = [pc EXCEPT ![c] = "reserved"]
      /\ tokens' = (IF Rate = 0 THEN tokens ELSE tokens - 1)
      /\ timer' = [timer EXCEPT ![c] = IF tokens' >= 0 THEN 0 ELSE -tokens']
      /\ sent' = sent
  BY DEF Reserve, TakesToken, To, Start
<1>2. /\ pc \in [Callers -> Labels] /\ timer \in [Callers -> Nat]
      /\ tokens \in Int /\ tokens <= Rate /\ \A i \in 1..Rate : sent[i] \in Nat
  BY DEF TypeInv, CallerTypes, LimiterTypes
<1>3. /\ pc'[c] = "reserved" /\ timer'[c] = (IF tokens' >= 0 THEN 0 ELSE -tokens')
      /\ \A d \in Callers \ {c} : pc'[d] = pc[d] /\ timer'[d] = timer[d]
  BY <1>1, <1>2
<1>4. Spread'
  <2>1. \A d \in Callers \ {c} : pc[d] = "reserved" /\ timer[d] > 0 => timer[d] <= -tokens
    BY DEF Spread
  <2>2. ASSUME NEW d \in Callers, pc'[d] = "reserved", timer'[d] > 0
        PROVE  /\ timer'[d] <= -tokens'
               /\ \A e \in Callers \ {d} : pc'[e] = "reserved" => timer'[e] # timer'[d]
    <3>1. CASE Rate = 0
      <4>1. tokens = 0 /\ tokens' = 0 /\ timer'[c] = 0
        BY <1>1, <1>3, <3>1 DEF Budget
      <4>2. d # c /\ pc[d] = "reserved" /\ timer[d] > 0 /\ timer'[d] = timer[d]
        BY <1>3, <2>2, <4>1
      <4>3. QED
        BY <1>2, <2>1, <4>1, <4>2
    <3>2. CASE Rate # 0 /\ d = c
      BY <1>1, <1>2, <1>3, <2>1, <2>2, <3>2
    <3>3. CASE Rate # 0 /\ d # c
      <4>1. timer'[d] = timer[d] /\ pc[d] = "reserved" /\ timer[d] <= -tokens
        BY <1>3, <2>1, <2>2, <3>3
      <4>2. tokens' = tokens - 1 /\ timer[d] \in Nat
        BY <1>1, <1>2, <3>3
      <4>3. timer'[c] # timer'[d]
        BY <1>2, <1>3, <2>2, <4>1, <4>2
      <4>4. \A e \in Callers \ {d, c} : pc'[e] = "reserved" => timer'[e] # timer'[d]
        BY <1>3, <2>2, <3>3, <4>1 DEF Spread
      <4>5. QED
        BY <1>2, <4>1, <4>2, <4>3, <4>4
    <3>4. QED
      BY <3>1, <3>2, <3>3
  <2>3. QED
    BY <2>2 DEF Spread
<1>5. c \notin Due /\ IsFiniteSet(Due)
  BY <1>1 DEF Due, Budget
<1>6. CASE timer'[c] = 0
  <2>1. Due' = Due \cup {c}
    BY <1>3, <1>6 DEF Due
  <2>2. IsFiniteSet(Due') /\ Cardinality(Due') = Cardinality(Due) + 1
    BY <1>5, <2>1, FS_AddElement
  <2>3. Cardinality(Due) \in Nat
    BY <1>5, DueCount
  <2>4. Rate # 0 => AtHand' = AtHand - 1 /\ AtHand \in Nat
    BY <1>1, <1>2, <1>3, <1>6 DEF AtHand
  <2>5. QED
    BY <1>1, <1>2, <1>4, <2>2, <2>3, <2>4 DEF Budget
<1>7. CASE timer'[c] # 0
  <2>1. Due' = Due
    BY <1>1, <1>3, <1>7 DEF Due
  <2>2. AtHand' = AtHand
    BY <1>1, <1>2, <1>3, <1>7 DEF AtHand
  <2>3. QED
    BY <1>1, <1>4, <2>1, <2>2 DEF Budget
<1>8. QED
  BY <1>6, <1>7

LEMMA CancelInBudget ==
    ASSUME TypeInv, Spread, Budget, NEW c \in Callers, Alone(c), ReservationCancelled(c)
    PROVE  Spread' /\ Budget'
<1> USE Numbers
<1>1. /\ pc[c] = "reserved" /\ timer[c] > 0 /\ pc'[c] = "over"
      /\ tokens' = (IF timer[c] = -tokens THEN tokens + 1 ELSE tokens)
      /\ sent' = sent
  BY DEF ReservationCancelled, ContextDone, Finish, To, TypeInv, CallerTypes
<1>2. /\ timer \in [Callers -> Nat] /\ tokens \in Int
      /\ \A d \in Callers \ {c} : pc'[d] = pc[d] /\ timer'[d] = timer[d]
  BY DEF TypeInv, CallerTypes, LimiterTypes, Alone
<1>3. timer[c] <= -tokens /\ tokens' <= 0
  BY <1>1, <1>2 DEF Spread
<1>4. Spread'
  <2>1. ASSUME NEW d \in Callers, pc'[d] = "reserved", timer'[d] > 0
        PROVE  /\ timer'[d] <= -tokens'
               /\ \A e \in Callers \ {d} : pc'[e] = "reserved" => timer'[e] # timer'[d]
    <3>1. d # c /\ pc[d] = "reserved" /\ timer'[d] = timer[d] /\ timer[d] \in Nat
      BY <1>1, <1>2, <2>1
    <3>2. timer[d] <= -tokens /\ timer[d] # timer[c]
      BY <1>1, <2>1, <3>1 DEF Spread
    <3>3. timer'[d] <= -tokens'
      BY <1>1, <1>2, <3>1, <3>2
    <3>4. \A e \in Callers \ {d} : pc'[e] = "reserved" => e # c /\ pc[e] = "reserved"
      BY <1>1, <1>2
    <3>5. QED
      BY <1>2, <2>1, <3>1, <3>3, <3>4 DEF Spread
  <2>2. QED
    BY <2>1 DEF Spread
<1>5. Due' = Due
  BY <1>1, <1>2 DEF Due
<1>6. AtHand' = 0 /\ AtHand = 0
  BY <1>1, <1>2, <1>3 DEF AtHand
<1>7. QED
  BY <1>1, <1>4, <1>5, <1>6 DEF Budget

LEMMA SendInBudget ==
    ASSUME TypeInv, Spread, Budget, NEW c \in Callers, Alone(c), Send(c)
    PROVE  Spread' /\ Budget'
<1> USE Numbers
<1>1. /\ c \in Due /\ pc'[c] = "flying" /\ tokens' = tokens
      /\ \A i \in 1..Rate : sent[i] \in Nat /\ sent'[i] = sent[i] + 1
  BY DEF Send, To, Due, TypeInv, CallerTypes, LimiterTypes
<1>2. \A d \in Callers \ {c} : pc'[d] = pc[d] /\ timer'[d] = timer[d]
  BY DEF Alone
<1>3. Spread'
  BY <1>1, <1>2 DEF Spread
<1>4. Due' = Due \ {c}
  BY <1>1, <1>2 DEF Due
<1>5. /\ IsFiniteSet(Due') /\ Cardinality(Due') = Cardinality(Due) - 1
      /\ Cardinality(Due) \in Nat
  BY <1>1, <1>4, FS_RemoveElement, DueCount DEF Budget
<1>6. AtHand' = AtHand /\ AtHand \in Int
  BY <1>1 DEF AtHand, TypeInv, LimiterTypes
<1>7. QED
  BY <1>1, <1>3, <1>5, <1>6 DEF Budget

\* Before the clock goes on, who is due has sent; at most one comes to be due.
LEMMA TickInBudget ==
    ASSUME TypeInv, Spread, Budget, Tick
    PROVE  Spread' /\ Budget'
<1> USE Numbers
<1>1. /\ tokens' = (IF tokens < Rate THEN tokens + 1 ELSE tokens)
      /\ sent' = [i \in 1..Rate |-> IF i = 1 THEN 0 ELSE sent[i - 1]]
      /\ timer' = [c \in Callers |-> Dec(timer[c])] /\ pc' = pc
  BY DEF Tick
<1>2. /\ timer \in [Callers -> Nat] /\ tokens \in Int /\ tokens <= Rate
      /\ \A i \in 1..Rate : sent[i] \in Nat
  BY DEF TypeInv, CallerTypes, LimiterTypes
<1>3. Due = {}
  BY DEF Due, Tick, Settled, Waits
<1>4. \A c \in Callers : pc[c] = "reserved" => timer[c] > 0 /\ timer'[c] = timer[c] - 1
  BY <1>1, <1>2, <1>3 DEF Due, Dec
<1>5. Spread'
  <2>1. ASSUME NEW c \in Callers, pc'[c] = "reserved", timer'[c] > 0
        PROVE  /\ timer'[c] <= -tokens'
               /\ \A d \in Callers \ {c} : pc'[d] = "reserved" => timer'[d] # timer'[c]
    <3>1. /\ timer[c] \in Nat /\ timer[c] > 0 /\ timer'[c] = timer[c] - 1
          /\ timer[c] <= -tokens
      BY <1>1, <1>2, <1>4, <2>1 DEF Spread
    <3>2. timer'[c] <= -tokens'
      BY <1>1, <1>2, <3>1
    <3>3. ASSUME NEW d \in Callers \ {c}, pc'[d] = "reserved"
          PROVE  timer'[d] # timer'[c]
      <4>1. timer[d] \in Nat /\ timer'[d] = timer[d] - 1
        BY <1>1, <1>2, <1>4, <3>3
      <4>2. timer[d] # timer[c]
        BY <1>1, <2>1, <3>1, <3>3 DEF Spread
      <4>3. QED
        BY <3>1, <4>1, <4>2
    <3>4. QED
      BY <3>2, <3>3
  <2>2. QED
    BY <2>1 DEF Spread
<1>6. \A c, d \in Due' : c = d
  <2>1. \A c \in Due' : c \in Callers /\ pc[c] = "reserved" /\ timer[c] = 1
    BY <1>1, <1>2, <1>4 DEF Due
  <2>2. QED
    BY <2>1 DEF Spread
<1>7. IsFiniteSet(Due') /\ Cardinality(Due') \in {0, 1} /\ (Due' # {} => tokens < 0)
  <2>1. CASE Due' = {}
    BY <2>1, FS_EmptySet
  <2>2. CASE Due' # {}
    <3>0. PICK c \in Due' : TRUE
      BY <2>2
    <3>1. /\ Due' = {c} /\ c \in Callers
          /\ pc[c] = "reserved" /\ timer[c] > 0 /\ timer[c] = 1
      <4>1. Due' = {c}
        BY <1>6
      <4>2. c \in Callers /\ pc[c] = "reserved" /\ timer'[c] = 0
        BY <1>1 DEF Due
      <4>3. QED
        BY <1>2, <1>4, <4>1, <4>2
    <3>2. 1 <= -tokens
      BY <3>1 DEF Spread
    <3>3. tokens < 0
      BY <1>2, <3>2
    <3>4. IsFiniteSet(Due') /\ Cardinality(Due') = 1
      BY <3>1, FS_Singleton
    <3>5. QED
      BY <3>3, <3>4
  <2>3. QED
    BY <2>1, <2>2
<1>8. AtHand \in Int /\ AtHand' \in Int /\ Cardinality(Due') \in Int
  BY <1>1, <1>2, <1>7 DEF AtHand
<1>9. /\ Cardinality(Due') + AtHand' <= AtHand + 1
      /\ Rate # 0 => Cardinality(Due') + AtHand' <= Rate
  <2>1. CASE tokens < 0
    <3>1. AtHand = 0 /\ AtHand' = 0
      BY <1>1, <1>2, <2>1 DEF AtHand
    <3>2. QED
      BY <1>7, <3>1
  <2>2. CASE tokens >= 0
    <3>1. Cardinality(Due') = 0
      BY <1>2, <1>7, <2>2, FS_EmptySet
    <3>2. AtHand = tokens /\ AtHand' = tokens'
      BY <1>1, <1>2, <2>2 DEF AtHand
    <3>3. tokens' <= tokens + 1 /\ tokens' <= Rate
      BY <1>1, <1>2
    <3>4. QED
      BY <1>1, <1>2, <3>1, <3>2, <3>3
  <2>3. QED
    BY <1>2, <2>1, <2>2
<1>10. ASSUME NEW i \in 1..Rate
       PROVE  sent'[i] + Cardinality(Due') + AtHand' <= Rate + (i - 1)
  <2>1. CASE i = 1
    <3>1. sent'[i] = 0 /\ Cardinality(Due') + AtHand' <= Rate
      BY <1>1, <1>9, <2>1
    <3>2. QED
      BY <1>8, <2>1, <3>1
  <2>2. CASE i # 1
    <3>1. i - 1 \in 1..Rate /\ sent'[i] = sent[i - 1] /\ sent[i - 1] \in Nat
      BY <1>1, <1>2, <2>2
    <3>2. sent[i - 1] + AtHand <= Rate + (i - 2)
      <4>1. sent[i - 1] + Cardinality(Due) + AtHand <= Rate + ((i - 1) - 1)
        BY <3>1 DEF Budget
      <4>2. Cardinality(Due) = 0
        BY <1>3, FS_EmptySet
      <4>3. QED
        BY <1>8, <3>1, <4>1, <4>2
    <3>3. QED
      BY <1>8, <1>9, <3>1, <3>2
  <2>3. QED
    BY <2>1, <2>2
<1>11. QED
  <2>1. Rate = 0 => tokens' = 0
    BY <1>1 DEF Budget
  <2>2. QED
    BY <1>5, <1>7, <1>10, <2>1 DEF Budget

(***************************************************************************)
(* The limiter: however many callers there are, and whatever they cancel,  *)
(* retry and poll, no more GETs go out in any time of up to a second than  *)
(* a full bucket and what flows back during it (WithRateLimit, get).       *)
(***************************************************************************)
THEOREM LimiterHolds == Spec => []GetsLimited
<1>1. Init => Spread /\ Budget
  <2> SUFFICES ASSUME Init PROVE Spread /\ Budget
    OBVIOUS
  <2>1. Due = {} /\ Spread
    BY DEF Init, Due, Spread
  <2>2. QED
    BY <2>1, FS_EmptySet, Numbers DEF Init, Budget, AtHand
<1>2. TypeInv /\ Spread /\ Budget /\ [Next]_vars => Spread' /\ Budget'
  <2> SUFFICES ASSUME TypeInv, Spread, Budget, [Next]_vars
               PROVE  Spread' /\ Budget'
    OBVIOUS
  <2>1. ASSUME NEW c \in Callers, Turn(c)
        PROVE  Spread' /\ Budget'
    <3>1. Alone(c)
      BY <2>1, TurnTypes
    <3>2. CASE Reserve(c)
      BY <3>1, <3>2, ReserveInBudget
    <3>3. CASE ReservationCancelled(c)
      BY <3>1, <3>3, CancelInBudget
    <3>4. CASE Send(c)
      BY <3>1, <3>4, SendInBudget
    <3>5. CASE ~Reserve(c) /\ ~ReservationCancelled(c) /\ ~Send(c)
      <4>1. UNCHANGED <<tokens, sent>>
        BY <2>1, <3>5, LimiterLeftAlone
      <4>2. pc'[c] # "reserved" \/ UNCHANGED <<pc, timer>>
        BY <2>1, <3>5 DEF TypeInv, CallerTypes, Turn, Begin, Get, Post, Cancel, Advance,
            LoopEnds, FirstAttempt, BackOff, BackoffOver, BackoffCancelled, SendPost,
            LimiterCancelled, Concludes, RefusedForNow, RetryAfterOver, RetryAfterCancelled,
            LosesAnswer, NotThereYet, PollAgain, PollCancelled, Return, Leave, ContextDone,
            EnterGet, Finish, NextAttempt, AfterLoss, To, DeadlineTooNear, Malformed
      <4>3. CASE pc'[c] # "reserved"
        <5>1. Spread'
          BY <3>1, <4>1, <4>3 DEF Spread, Alone
        <5>2. QED
          BY <3>1, <4>1, <4>3, <5>1, NotDue
      <4>4. CASE UNCHANGED <<pc, timer>>
        BY <4>1, <4>4 DEF Spread, Budget, Due, AtHand
      <4>5. QED
        BY <4>2, <4>3, <4>4
    <3>6. QED
      BY <3>2, <3>3, <3>4, <3>5
  <2>2. CASE UNCHANGED vars
    BY <2>2 DEF vars, Spread, Budget, Due, AtHand
  <2>3. QED
    BY <2>1, <2>2, TickInBudget DEF Next, Turn
<1>3. TypeInv /\ Budget => GetsLimited
  <2> SUFFICES ASSUME TypeInv, Budget, NEW i \in 1..Rate
               PROVE  sent[i] <= Rate + (i - 1)
    BY DEF GetsLimited
  <2>1. /\ sent[i] \in Nat /\ Cardinality(Due) \in Nat /\ AtHand \in Int /\ AtHand >= 0
        /\ sent[i] + Cardinality(Due) + AtHand <= Rate + (i - 1)
    BY DueCount DEF Budget, AtHand, TypeInv, LimiterTypes
  <2>2. QED
    BY <2>1, Numbers
<1>4. QED
  BY <1>1, <1>2, <1>3, TypesHold, PTL DEF Spec

-----------------------------------------------------------------------------
(* What a call has sent                                                    *)

Invites == {Lost} \cup {a \in Answers : a.status = 429 \/ a.status >= 500}

AllInvite(answers) == \A i \in 1..Len(answers) : answers[i] \in Invites

\* The log of a GET counts its attempts; a POST has none before its answer.
History(c) ==
    /\ pc[c] \in Loop \/ (pc[c] = "flying" /\ op[c] \notin POSTs) =>
           Len(log[c]) = attempt[c] /\ AllInvite(log[c])
    /\ pc[c] = "retry-after" => Len(log[c]) = attempt[c] + 1 /\ AllInvite(log[c])
    /\ pc[c] \in {"limiter", "reserved"} \/ (pc[c] = "flying" /\ op[c] \notin POSTs) =>
           attempt[c] <= MaxRetries
    /\ pc[c] \in {"post", "flying"} /\ op[c] \in POSTs => log[c] = <<>>

Histories == \A c \in Callers : History(c)

LEMMA OneMoreInvites ==
    ASSUME NEW answers \in Seq(AnyAnswer), AllInvite(answers), NEW a \in Invites
    PROVE  /\ AllInvite(Append(answers, a))
           /\ Len(Append(answers, a)) = Len(answers) + 1
<1>1. a \in AnyAnswer
  BY DEF AnyAnswer, Invites
<1>2. /\ Len(Append(answers, a)) = Len(answers) + 1 /\ Len(answers) \in Nat
      /\ \A i \in 1..Len(answers) : Append(answers, a)[i] = answers[i]
      /\ Append(answers, a)[Len(answers) + 1] = a
  BY <1>1, AppendProperties
<1>3. ASSUME NEW i \in 1..(Len(answers) + 1)
      PROVE  Append(answers, a)[i] \in Invites
  <2>1. CASE i \in 1..Len(answers)
    BY <1>2, <2>1 DEF AllInvite
  <2>2. CASE i = Len(answers) + 1
    BY <1>2, <2>2
  <2>3. QED
    BY <1>2, <2>1, <2>2
<1>4. QED
  BY <1>2, <1>3 DEF AllInvite

LEMMA HistoryGoesOn ==
    ASSUME TypeInv, NEW c \in Callers, Place(c), History(c), Turn(c)
    PROVE  History(c)'
<1> USE Numbers DEF History, Loop, To, Start, control
<1> USE DEF CallerTypes
<1>1. CASE Begin(c)
  <2>1. PICK o \in Operations : Get(c, o) \/ Post(c, o)
    BY <1>1 DEF Begin
  <2>2. AllInvite(<<>>) /\ Len(<<>>) = 0
    BY DEF AllInvite
  <2>3. CASE Get(c, o)
    BY <2>2, <2>3 DEF TypeInv, Get, EnterGet
  <2>4. CASE Post(c, o)
    BY <2>4 DEF TypeInv, Post
  <2>5. QED
    BY <2>1, <2>3, <2>4
<1>2. CASE Cancel(c) \/ LoopEnds(c) \/ BackOff(c) \/ BackoffOver(c)
  BY <1>2 DEF TypeInv, Cancel, LoopEnds, Finish, BackOff, BackoffOver, Counted
<1>3. CASE FirstAttempt(c)
  BY <1>3 DEF TypeInv, FirstAttempt, AttemptsLeft
<1>4. CASE BackoffCancelled(c) \/ LimiterCancelled(c) \/ RetryAfterCancelled(c) \/ ReservationCancelled(c)
  BY <1>4 DEF TypeInv, BackoffCancelled, LimiterCancelled, RetryAfterCancelled,
              ReservationCancelled, ContextDone, Finish
<1>20. CASE DeadlineTooNear(c) \/ Malformed(c)
  BY <1>20 DEF TypeInv, DeadlineTooNear, Malformed, Finish
<1>5. CASE SendPost(c) \/ Reserve(c) \/ Send(c)
  <2>1. CASE SendPost(c)
    BY <2>1 DEF TypeInv, SendPost, Place
  <2>2. CASE Reserve(c)
    BY <2>2 DEF TypeInv, Reserve, Counted
  <2>3. CASE Send(c)
    <3>1. op[c] \notin POSTs
      BY <2>3 DEF Send, Place, GetOps
    <3>2. QED
      BY <2>3, <3>1 DEF TypeInv, Send
  <2>4. QED
    BY <1>5, <2>1, <2>2, <2>3
<1>6. CASE Concludes(c)
  <2>1. pc'[c] = "over"
    BY <1>6 DEF TypeInv, Concludes, Finish
  <2>2. QED
    BY <2>1
<1>7. CASE RefusedForNow(c)
  <2>1. PICK a \in Answers :
           /\ Retried(c, a) /\ Logs(c, a)
           /\ \/ To(c, "retry-after") /\ UNCHANGED attempt
              \/ NextAttempt(c)
    BY <1>7 DEF RefusedForNow
  <2>2. pc[c] = "flying" /\ op[c] \notin POSTs /\ a \in Invites /\ op' = op
    BY <1>7, <2>1 DEF RefusedForNow, Retried, Invites
  <2>3. /\ AllInvite(log'[c]) /\ Len(log'[c]) = attempt[c] + 1
        /\ attempt[c] \in Nat /\ attempt[c] <= MaxRetries
    <3>1. log'[c] = Append(log[c], a)
      BY <2>1, LogGrows DEF TypeInv, AnyAnswer
    <3>2. log[c] \in Seq(AnyAnswer) /\ AllInvite(log[c]) /\ Len(log[c]) = attempt[c]
      BY <2>2 DEF TypeInv
    <3>3. AllInvite(log'[c]) /\ Len(log'[c]) = attempt[c] + 1
      BY <2>2, <3>1, <3>2, OneMoreInvites
    <3>4. QED
      BY <2>2, <3>3 DEF TypeInv
  <2>4. \/ pc'[c] = "retry-after" /\ attempt'[c] = attempt[c]
        \/ pc'[c] = "head" /\ attempt'[c] = attempt[c] + 1
    BY <2>1 DEF TypeInv, NextAttempt
  <2>5. QED
    BY <2>2, <2>3, <2>4
<1>8. CASE RetryAfterOver(c)
  BY <1>8 DEF TypeInv, RetryAfterOver, NextAttempt
<1>9. CASE LosesAnswer(c)
  <2>1. pc[c] = "flying" /\ op' = op /\ Logs(c, Lost) /\ AfterLoss(c) /\ Lost \in Invites
    BY <1>9 DEF LosesAnswer, Invites
  <2>2. CASE op[c] \in POSTs
    BY <2>1, <2>2 DEF TypeInv, AfterLoss, Finish
  <2>3. CASE op[c] \notin POSTs
    <3>1. AllInvite(log'[c]) /\ Len(log'[c]) = attempt[c] + 1
      <4>1. log'[c] = Append(log[c], Lost)
        BY <2>1, LogGrows DEF TypeInv, AnyAnswer
      <4>2. log[c] \in Seq(AnyAnswer) /\ AllInvite(log[c]) /\ Len(log[c]) = attempt[c]
        BY <2>1, <2>3 DEF TypeInv
      <4>3. QED
        BY <2>1, <4>1, <4>2, OneMoreInvites
    <3>2. pc'[c] = "head" /\ attempt'[c] = attempt[c] + 1
      BY <2>1, <2>3 DEF TypeInv, AfterLoss, NextAttempt
    <3>3. QED
      BY <3>1, <3>2
  <2>4. QED
    BY <2>2, <2>3
<1>10. CASE NotThereYet(c) \/ PollAgain(c)
  <2>1. AllInvite(<<>>) /\ Len(<<>>) = 0
    BY DEF AllInvite
  <2>2. QED
    BY <1>10, <2>1 DEF TypeInv, NotThereYet, PollAgain, EnterGet
<1>11. CASE PollCancelled(c) \/ Return(c)
  BY <1>11 DEF TypeInv, PollCancelled, Return, Leave
<1>12. QED
  BY <1>1, <1>2, <1>3, <1>4, <1>5, <1>6, <1>7, <1>8, <1>9, <1>10, <1>11, <1>20 DEF Turn, Advance

Invariant == TypeInv /\ Placed /\ Histories

LEMMA InvariantHolds == Spec => []Invariant
<1>1. Init => Histories
  BY DEF Init, Histories, History, Loop
<1>2. TypeInv /\ Placed /\ Histories /\ [Next]_vars => Histories'
  <2> SUFFICES ASSUME TypeInv, Placed, Histories, [Next]_vars
               PROVE  Histories'
    OBVIOUS
  <2>1. ASSUME NEW c \in Callers, Turn(c)
        PROVE  Histories'
    <3>1. History(c)' /\ Alone(c)
      BY <2>1, HistoryGoesOn, TurnTypes DEF Placed, Histories
    <3>2. QED
      BY <3>1 DEF Histories, History, Alone
  <2>2. CASE Tick \/ UNCHANGED vars
    BY <2>2 DEF Tick, vars, Histories, History
  <2>3. QED
    BY <2>1, <2>2 DEF Next, Turn
<1>3. QED
  BY <1>1, <1>2, PlacesHold, PTL DEF Spec, Invariant

-----------------------------------------------------------------------------
(* The promises                                                            *)

(***************************************************************************)
(* What a step of caller c is to RetriedCall, seen through the operations  *)
(* ops, when good answers end a call and inviting ones let it go on.       *)
(***************************************************************************)
Report(answers, good) == IF answers[Len(answers)] \in good THEN "good" ELSE "refused"

Still(c, ops) ==
    /\ Phase(c, ops)' = Phase(c, ops)
    /\ LogOf(c, ops)' = LogOf(c, ops) /\ Verdict(c, ops)' = Verdict(c, ops)

Begins(c, ops) ==
    /\ Phase(c, ops) = "idle" /\ Phase(c, ops)' = "busy"
    /\ LogOf(c, ops)' = LogOf(c, ops) /\ Verdict(c, ops)' = Verdict(c, ops)

Submits(c, ops, inviting, retries) ==
    /\ Phase(c, ops) = "busy" /\ Phase(c, ops)' = "flying"
    /\ Len(LogOf(c, ops)) <= retries
    /\ \A i \in 1..Len(LogOf(c, ops)) : LogOf(c, ops)[i] \in inviting
    /\ LogOf(c, ops)' = LogOf(c, ops) /\ Verdict(c, ops)' = Verdict(c, ops)

IsInvited(c, ops, inviting) ==
    /\ Phase(c, ops) = "flying" /\ Phase(c, ops)' = "busy"
    /\ \E a \in inviting : LogOf(c, ops)' = Append(LogOf(c, ops), a)
    /\ Verdict(c, ops)' = Verdict(c, ops)

IsAnswered(c, ops, good) ==
    /\ Phase(c, ops) = "flying" /\ Phase(c, ops)' = "over"
    /\ \E a \in AnyAnswer :
         /\ LogOf(c, ops)' = Append(LogOf(c, ops), a)
         /\ Verdict(c, ops)' = Report(Append(LogOf(c, ops), a), good)

GivesUp(c, ops, good, retries) ==
    /\ Phase(c, ops) = "busy" /\ Phase(c, ops)' = "over"
    /\ Len(LogOf(c, ops)) > retries /\ LogOf(c, ops) # <<>>
    /\ LogOf(c, ops)' = LogOf(c, ops)
    /\ Verdict(c, ops)' = Report(LogOf(c, ops), good)

Fails(c, ops) ==
    /\ Phase(c, ops) \in {"busy", "flying"} /\ Phase(c, ops)' = "over"
    /\ LogOf(c, ops)' = LogOf(c, ops) /\ Verdict(c, ops)' = "error"

Returns(c, ops) ==
    /\ Phase(c, ops) = "over" /\ Phase(c, ops)' = "idle"
    /\ LogOf(c, ops)' = <<>> /\ Verdict(c, ops)' = "none"

Moves(c, ops, good, inviting, retries) ==
    \/ Still(c, ops) \/ Begins(c, ops) \/ Submits(c, ops, inviting, retries)
    \/ IsInvited(c, ops, inviting) \/ IsAnswered(c, ops, good)
    \/ GivesUp(c, ops, good, retries) \/ Fails(c, ops) \/ Returns(c, ops)

LEMMA Frame ==
    ASSUME NEW c \in Callers, Alone(c), NEW ops
    PROVE  /\ [d \in Callers |-> Phase(d, ops)]' =
                [[d \in Callers |-> Phase(d, ops)] EXCEPT ![c] = Phase(c, ops)']
           /\ [d \in Callers |-> LogOf(d, ops)]' =
                [[d \in Callers |-> LogOf(d, ops)] EXCEPT ![c] = LogOf(c, ops)']
           /\ [d \in Callers |-> Verdict(d, ops)]' =
                [[d \in Callers |-> Verdict(d, ops)] EXCEPT ![c] = Verdict(c, ops)']
<1>1. ASSUME NEW d \in Callers \ {c}
      PROVE  /\ Phase(d, ops)' = Phase(d, ops)
             /\ LogOf(d, ops)' = LogOf(d, ops)
             /\ Verdict(d, ops)' = Verdict(d, ops)
  BY <1>1 DEF Alone, Phase, LogOf, Verdict
<1>2. QED
  BY <1>1

LEMMA GetsMove ==
    ASSUME NEW c \in Callers, Alone(c),
           Moves(c, Operations \ POSTs, {a \in Answers : a.status = 200}, Invites, MaxRetries)
    PROVE  [Gets!Next]_(Gets!vars)
<1> DEFINE ops == Operations \ POSTs
           phases == [d \in Callers |-> Phase(d, ops)]
           logs == [d \in Callers |-> LogOf(d, ops)]
           verdicts == [d \in Callers |-> Verdict(d, ops)]
<1>1. /\ phases' = [phases EXCEPT ![c] = Phase(c, ops)']
      /\ logs' = [logs EXCEPT ![c] = LogOf(c, ops)']
      /\ verdicts' = [verdicts EXCEPT ![c] = Verdict(c, ops)']
  BY Frame
<1>2. /\ LogOf(c, ops)' = LogOf(c, ops) => logs' = logs
      /\ Verdict(c, ops)' = Verdict(c, ops) => verdicts' = verdicts
      /\ Phase(c, ops)' = Phase(c, ops) => phases' = phases
  BY <1>1
<1>3. phases[c] = Phase(c, ops) /\ logs[c] = LogOf(c, ops) /\ verdicts[c] = Verdict(c, ops)
  OBVIOUS
<1>4. CASE Still(c, ops)
  BY <1>2, <1>4 DEF Still, Gets!vars
<1>5. CASE Begins(c, ops)
  BY <1>1, <1>2, <1>3, <1>5 DEF Begins, Gets!Begin, Gets!Next
<1>6. CASE Submits(c, ops, Invites, MaxRetries)
  BY <1>1, <1>2, <1>3, <1>6 DEF Submits, Invites, Gets!Submit, Gets!MayResubmit, Gets!Next
<1>7. CASE IsInvited(c, ops, Invites)
  <2>1. PICK a \in Invites : LogOf(c, ops)' = Append(logs[c], a)
    BY <1>3, <1>7 DEF IsInvited
  <2>2. phases[c] = "flying" /\ Phase(c, ops)' = "busy" /\ verdicts' = verdicts
    BY <1>2, <1>3, <1>7 DEF IsInvited
  <2>3. Gets!AnswerInvitesRetry(c)
    BY <1>1, <2>1, <2>2 DEF Invites, Gets!AnswerInvitesRetry
  <2>4. QED
    BY <2>3 DEF Gets!Next
<1>8. CASE IsAnswered(c, ops, {a \in Answers : a.status = 200})
  <2>1. PICK a \in AnyAnswer :
           /\ LogOf(c, ops)' = Append(logs[c], a)
           /\ Verdict(c, ops)' = Gets!Verdict(Append(logs[c], a))
    BY <1>3, <1>8 DEF IsAnswered, Report, Gets!Verdict
  <2>2. phases[c] = "flying" /\ Phase(c, ops)' = "over"
    BY <1>3, <1>8 DEF IsAnswered
  <2>3. Gets!AnswerConcludes(c)
    BY <1>1, <2>1, <2>2 DEF AnyAnswer, Gets!AnswerConcludes
  <2>4. QED
    BY <2>3 DEF Gets!Next
<1>9. CASE GivesUp(c, ops, {a \in Answers : a.status = 200}, MaxRetries)
  <2>1. /\ phases[c] = "busy" /\ Phase(c, ops)' = "over" /\ logs' = logs
        /\ Len(logs[c]) > MaxRetries /\ logs[c] # <<>>
        /\ Verdict(c, ops)' = Gets!Verdict(logs[c])
    BY <1>2, <1>3, <1>9 DEF GivesUp, Report, Gets!Verdict
  <2>2. Gets!GiveUp(c)
    BY <1>1, <2>1 DEF Gets!GiveUp
  <2>3. QED
    BY <2>2 DEF Gets!Next
<1>10. CASE Fails(c, ops)
  BY <1>1, <1>2, <1>3, <1>10 DEF Fails, Gets!Fail, Gets!Next
<1>11. CASE Returns(c, ops)
  BY <1>1, <1>3, <1>11 DEF Returns, Gets!Return, Gets!Next
<1>12. QED
  BY <1>4, <1>5, <1>6, <1>7, <1>8, <1>9, <1>10, <1>11 DEF Moves

\* Nothing is in flight, and the call is not over.
Busy == Loop \cup {"retry-after"}

Got == {a \in Answers : a.status = 200}

LEMMA NoneInvites ==
    ASSUME NEW answers, Len(answers) \in Nat \ {0}, AllInvite(answers)
    PROVE  Report(answers, Got) = "refused"
<1>1. answers[Len(answers)] \in Invites
  BY DEF AllInvite
<1>2. Invites \cap Got = {}
  BY AnswerTypes DEF Invites, Got
<1>3. QED
  BY <1>1, <1>2 DEF Report

LEMMA LogType ==
    ASSUME TypeInv, NEW c \in Callers
    PROVE  log[c] \in Seq(AnyAnswer) /\ Len(log[c]) \in Nat
BY DEF TypeInv, CallerTypes

LEMMA GetMoves ==
    ASSUME TypeInv, NEW c \in Callers, Place(c), History(c), Turn(c), MaxRetries >= 0
    PROVE  Moves(c, GetOps, Got, Invites, MaxRetries)
<1> DEFINE Goal == Moves(c, GetOps, Got, Invites, MaxRetries)
<1> USE Numbers
<1>1. /\ pc \in [Callers -> Labels] /\ op \in [Callers -> Ops \cup {"none"}]
      /\ log \in [Callers -> Seq(AnyAnswer)] /\ result \in [Callers -> Results]
      /\ attempt \in [Callers -> Nat]
  BY DEF TypeInv, CallerTypes
<1>2. "none" \notin GetOps /\ "wait" \in GetOps /\ GetOps \cap POSTs = {}
  BY DEF GetOps, Operations, Getters, POSTs
\* A step that changes neither the phase nor the log.
<1>3. ASSUME op'[c] = op[c], log'[c] = log[c], result'[c] = result[c],
             pc'[c] = pc[c] \/ (pc[c] \in Busy /\ pc'[c] \in Busy)
      PROVE  Goal
  BY <1>3 DEF Moves, Still, Phase, LogOf, Verdict, Busy, Loop
\* A step of a call that is no GET.
<1>4. ASSUME op[c] \notin GetOps, op'[c] \notin GetOps
      PROVE  Goal
  BY <1>4 DEF Moves, Still, Phase, LogOf, Verdict
\* A call that ends before it sends, or between two requests.
<1>5. ASSUME pc[c] \in Busy, op[c] \in GetOps, op' = op, log' = log, pc'[c] = "over",
             result'[c] \in {"context", "unsent"}
      PROVE  Goal
  BY <1>5 DEF Moves, Fails, Phase, LogOf, Verdict, Busy, Loop
<1>6. CASE Begin(c)
  <2>1. PICK o \in Operations : Get(c, o) \/ Post(c, o)
    BY <1>6 DEF Begin
  <2>2. CASE Get(c, o)
    <3>1. /\ op[c] = "none" /\ op'[c] \in GetOps /\ pc'[c] = "head"
          /\ log'[c] = <<>>
      BY <1>1, <2>1, <2>2 DEF Get, EnterGet, To, Place, GetOps
    <3>2. Begins(c, GetOps)
      BY <1>2, <3>1 DEF Begins, Phase, LogOf, Verdict
    <3>3. QED
      BY <3>2 DEF Moves
  <2>3. CASE Post(c, o)
    <3>1. op[c] = "none" /\ op'[c] \in POSTs
      BY <1>1, <2>3 DEF Post, Place
    <3>2. QED
      BY <1>2, <1>4, <3>1
  <2>4. QED
    BY <2>1, <2>2, <2>3
<1>7. CASE Cancel(c)
  BY <1>3, <1>7 DEF Cancel
<1>8. CASE LoopEnds(c)
  <2>1. /\ pc[c] = "head" /\ op[c] \in GetOps /\ op' = op /\ log' = log
        /\ Len(log[c]) = attempt[c] /\ AllInvite(log[c]) /\ attempt[c] > MaxRetries
    BY <1>1, <1>8 DEF LoopEnds, AttemptsLeft, Place, History, Loop, control
  <2>2. Len(log[c]) \in Nat \ {0} /\ log[c] # <<>>
    BY <1>1, <2>1
  <2>3. pc'[c] = "over" /\ result'[c] = "refused"
    BY <1>1, <1>8, <2>2 DEF LoopEnds, Finish, To
  <2>4. Report(log[c], Got) = "refused"
    BY <2>1, <2>2, NoneInvites
  <2>5. GivesUp(c, GetOps, Got, MaxRetries)
    BY <2>1, <2>2, <2>3, <2>4 DEF GivesUp, Phase, LogOf, Verdict
  <2>6. QED
    BY <2>5 DEF Moves
<1>9. CASE FirstAttempt(c) \/ BackOff(c) \/ BackoffOver(c) \/ Reserve(c) \/ RetryAfterOver(c)
  <2>1. /\ op' = op /\ log' = log /\ result' = result
        /\ pc[c] \in Busy /\ pc'[c] \in Busy
    BY <1>1, <1>9 DEF FirstAttempt, BackOff, BackoffOver, Reserve, RetryAfterOver, NextAttempt,
                      To, control, Busy, Loop
  <2>2. QED
    BY <1>3, <2>1
<1>10. CASE BackoffCancelled(c) \/ LimiterCancelled(c) \/ RetryAfterCancelled(c) \/ ReservationCancelled(c)
  <2>1. PICK label \in Busy : ContextDone(c, label)
    BY <1>10 DEF BackoffCancelled, LimiterCancelled, RetryAfterCancelled, ReservationCancelled,
                 Busy, Loop
  <2>2. op[c] \in GetOps
    BY <2>1 DEF ContextDone, Place, Busy
  <2>3. QED
    BY <1>1, <1>5, <2>1, <2>2 DEF ContextDone, Finish, To
<1>20. CASE DeadlineTooNear(c) \/ Malformed(c)
  <2>1. /\ pc[c] \in Busy \cup {"post"} /\ op' = op /\ log' = log
        /\ pc'[c] = "over" /\ result'[c] \in {"context", "unsent"}
    BY <1>1, <1>20 DEF DeadlineTooNear, Malformed, Finish, To, control, Busy, Loop
  <2>2. CASE op[c] \in GetOps
    BY <1>2, <1>5, <2>1, <2>2 DEF Place, Busy, Loop
  <2>3. CASE op[c] \notin GetOps
    BY <1>4, <2>1, <2>3
  <2>4. QED
    BY <2>2, <2>3
<1>11. CASE SendPost(c)
  <2>1. op[c] \in POSTs /\ op' = op
    BY <1>11 DEF SendPost, Place, control
  <2>2. QED
    BY <1>2, <1>4, <2>1
<1>12. CASE Send(c)
  <2>1. /\ pc[c] = "reserved" /\ pc'[c] = "flying" /\ op[c] \in GetOps
        /\ op' = op /\ log' = log
        /\ Len(log[c]) = attempt[c] /\ attempt[c] <= MaxRetries /\ AllInvite(log[c])
    BY <1>1, <1>12 DEF Send, To, control, Place, History, Loop
  <2>2. Submits(c, GetOps, Invites, MaxRetries)
    BY <2>1 DEF Submits, Phase, LogOf, Verdict, AllInvite
  <2>3. QED
    BY <2>2 DEF Moves
<1>13. CASE Concludes(c)
  <2>1. PICK a \in Answers :
           /\ ~Retried(c, a) /\ Logs(c, a)
           /\ Finish(c, IF ~Success(c, a) THEN "refused"
                        ELSE IF op[c] \in {"decoded", "wait"} /\ ~a.decodes
                        THEN "undecodable" ELSE "good")
    BY <1>13 DEF Concludes
  <2>2. pc[c] = "flying" /\ op' = op /\ pc'[c] = "over"
    BY <1>1, <1>13, <2>1 DEF Concludes, Finish, To, control
  <2>3. CASE op[c] \notin GetOps
    BY <1>4, <2>2, <2>3
  <2>4. CASE op[c] \in GetOps
    <3>1. log'[c] = Append(log[c], a) /\ a \in AnyAnswer
      BY <2>1, LogGrows DEF TypeInv, AnyAnswer
    <3>2. Success(c, a) = (a \in Got)
      BY <1>2, <2>4 DEF Success, Got, POSTs
    <3>3. Report(Append(log[c], a), Got) = IF a \in Got THEN "good" ELSE "refused"
      BY <1>1, <3>1, AppendProperties DEF Report
    <3>4. result'[c] \in IF a \in Got THEN {"good", "undecodable"} ELSE {"refused"}
      BY <1>1, <2>1, <3>2 DEF Finish
    <3>5. IsAnswered(c, GetOps, Got)
      BY <2>2, <2>4, <3>1, <3>3, <3>4 DEF IsAnswered, Phase, LogOf, Verdict
    <3>6. QED
      BY <3>5 DEF Moves
  <2>5. QED
    BY <2>3, <2>4
<1>14. CASE RefusedForNow(c) \/ (LosesAnswer(c) /\ op[c] \notin POSTs)
  <2>1. PICK a \in Invites : Logs(c, a) /\ op[c] \notin POSTs
    BY <1>14 DEF RefusedForNow, Retried, LosesAnswer, Invites
  <2>2. pc[c] = "flying" /\ op' = op /\ pc'[c] \in {"head", "retry-after"}
    BY <1>1, <1>14 DEF RefusedForNow, LosesAnswer, AfterLoss, NextAttempt, To, control
  <2>3. op[c] \in GetOps
    BY <1>1, <2>1, <2>2, OpAssumption DEF Place, GetOps
  <2>4. log'[c] = Append(log[c], a)
    BY <2>1, LogGrows DEF TypeInv, AnyAnswer, Invites
  <2>5. IsInvited(c, GetOps, Invites)
    BY <2>2, <2>3, <2>4 DEF IsInvited, Phase, LogOf, Verdict
  <2>6. QED
    BY <2>5 DEF Moves
<1>15. CASE LosesAnswer(c) /\ op[c] \in POSTs
  BY <1>2, <1>4, <1>15 DEF LosesAnswer, control
<1>16. CASE NotThereYet(c)
  <2>1. op[c] = "wait" /\ pc[c] = "over" /\ pc'[c] = "poll" /\ op' = op
    BY <1>1, <1>16 DEF NotThereYet, Satisfied, To, control
  <2>2. Returns(c, GetOps)
    BY <1>2, <2>1 DEF Returns, Phase, LogOf, Verdict
  <2>3. QED
    BY <2>2 DEF Moves
<1>17. CASE PollAgain(c)
  <2>1. op[c] = "wait" /\ pc[c] = "poll" /\ pc'[c] = "head" /\ op' = op /\ log'[c] = <<>>
    BY <1>1, <1>17 DEF PollAgain, EnterGet, Place, To, control
  <2>2. Begins(c, GetOps)
    BY <1>2, <2>1 DEF Begins, Phase, LogOf, Verdict
  <2>3. QED
    BY <2>2 DEF Moves
<1>18. CASE PollCancelled(c) \/ Return(c)
  <2>1. op'[c] = "none" /\ pc[c] \in {"poll", "over"}
    BY <1>1, <1>18 DEF PollCancelled, Return, Leave
  <2>2. CASE Phase(c, GetOps) = "idle"
    <3>1. Still(c, GetOps)
      BY <1>2, <2>1, <2>2 DEF Still, Phase, LogOf, Verdict
    <3>2. QED
      BY <3>1 DEF Moves
  <2>3. CASE Phase(c, GetOps) # "idle"
    <3>1. Returns(c, GetOps)
      BY <1>2, <2>1, <2>3 DEF Returns, Phase, LogOf, Verdict
    <3>2. QED
      BY <3>1 DEF Moves
  <2>4. QED
    BY <2>2, <2>3
<1>19. QED
  BY <1>6, <1>7, <1>8, <1>9, <1>10, <1>11, <1>12, <1>13, <1>14, <1>15, <1>16, <1>17, <1>18,
     <1>20 DEF Turn, Advance

LEMMA TimePasses ==
    ASSUME Tick \/ UNCHANGED vars, NEW ops
    PROVE  /\ [d \in Callers |-> Phase(d, ops)]' = [d \in Callers |-> Phase(d, ops)]
           /\ [d \in Callers |-> LogOf(d, ops)]' = [d \in Callers |-> LogOf(d, ops)]
           /\ [d \in Callers |-> Verdict(d, ops)]' = [d \in Callers |-> Verdict(d, ops)]
<1>1. UNCHANGED <<pc, op, log, result>>
  BY DEF Tick, vars
<1>2. QED
  BY <1>1 DEF Phase, LogOf, Verdict

(***************************************************************************)
(* A GET keeps its promise, with any number of retries and callers: it     *)
(* sends again only after what invites it to, at most MaxRetries times,    *)
(* and succeeds exactly on a 200 (get, WaitForTransaction).  With negative *)
(* retries get would send nothing and report success.                      *)
(***************************************************************************)
THEOREM GetsKeepPromise ==
    ASSUME MaxRetries >= 0
    PROVE  Spec => GetKeepsPromise
<1>1. Init => Gets!Init
  BY DEF Init, Gets!Init, Phase, LogOf, Verdict, Operations, Getters
<1>2. Invariant /\ [Next]_vars => [Gets!Next]_(Gets!vars)
  <2> SUFFICES ASSUME Invariant, [Next]_vars
               PROVE  [Gets!Next]_(Gets!vars)
    OBVIOUS
  <2>1. ASSUME NEW c \in Callers, Turn(c)
        PROVE  [Gets!Next]_(Gets!vars)
    <3>1. Moves(c, GetOps, Got, Invites, MaxRetries) /\ Alone(c)
      BY <2>1, GetMoves, TurnTypes DEF Invariant, Placed, Histories
    <3>2. QED
      BY <3>1, GetsMove DEF GetOps, Got
  <2>2. CASE Tick \/ UNCHANGED vars
    BY <2>2, TimePasses DEF Gets!vars
  <2>3. QED
    BY <2>1, <2>2 DEF Next, Turn
<1>3. QED
  BY <1>1, <1>2, InvariantHolds, PTL DEF Spec, GetKeepsPromise, Gets!Spec

LEMMA SubmissionsMove ==
    ASSUME NEW c \in Callers, Alone(c),
           Moves(c, {"submit"}, {a \in Answers : a.status \in {200, 201}}, {}, 0)
    PROVE  [Submissions!Next]_(Submissions!vars)
<1> DEFINE ops == {"submit"}
           phases == [d \in Callers |-> Phase(d, ops)]
           logs == [d \in Callers |-> LogOf(d, ops)]
           verdicts == [d \in Callers |-> Verdict(d, ops)]
<1>1. /\ phases' = [phases EXCEPT ![c] = Phase(c, ops)']
      /\ logs' = [logs EXCEPT ![c] = LogOf(c, ops)']
      /\ verdicts' = [verdicts EXCEPT ![c] = Verdict(c, ops)']
  BY Frame
<1>2. /\ LogOf(c, ops)' = LogOf(c, ops) => logs' = logs
      /\ Verdict(c, ops)' = Verdict(c, ops) => verdicts' = verdicts
      /\ Phase(c, ops)' = Phase(c, ops) => phases' = phases
  BY <1>1
<1>3. phases[c] = Phase(c, ops) /\ logs[c] = LogOf(c, ops) /\ verdicts[c] = Verdict(c, ops)
  OBVIOUS
<1>4. CASE Still(c, ops)
  BY <1>2, <1>4 DEF Still, Submissions!vars
<1>5. CASE Begins(c, ops)
  BY <1>1, <1>2, <1>3, <1>5 DEF Begins, Submissions!Begin, Submissions!Next
<1>6. CASE Submits(c, ops, {}, 0)
  BY <1>1, <1>2, <1>3, <1>6 DEF Submits, Submissions!Submit, Submissions!MayResubmit, Submissions!Next
<1>7. ~IsInvited(c, ops, {})
  BY DEF IsInvited
<1>8. CASE IsAnswered(c, ops, {a \in Answers : a.status \in {200, 201}})
  <2>1. PICK a \in AnyAnswer :
           /\ LogOf(c, ops)' = Append(logs[c], a)
           /\ Verdict(c, ops)' = Submissions!Verdict(Append(logs[c], a))
    BY <1>3, <1>8 DEF IsAnswered, Report, Submissions!Verdict
  <2>2. phases[c] = "flying" /\ Phase(c, ops)' = "over"
    BY <1>3, <1>8 DEF IsAnswered
  <2>3. Submissions!AnswerConcludes(c)
    BY <1>1, <2>1, <2>2 DEF AnyAnswer, Submissions!AnswerConcludes
  <2>4. QED
    BY <2>3 DEF Submissions!Next
<1>9. CASE GivesUp(c, ops, {a \in Answers : a.status \in {200, 201}}, 0)
  <2>1. /\ phases[c] = "busy" /\ Phase(c, ops)' = "over" /\ logs' = logs
        /\ Len(logs[c]) > 0 /\ logs[c] # <<>>
        /\ Verdict(c, ops)' = Submissions!Verdict(logs[c])
    BY <1>2, <1>3, <1>9 DEF GivesUp, Report, Submissions!Verdict
  <2>2. Submissions!GiveUp(c)
    BY <1>1, <2>1 DEF Submissions!GiveUp
  <2>3. QED
    BY <2>2 DEF Submissions!Next
<1>10. CASE Fails(c, ops)
  BY <1>1, <1>2, <1>3, <1>10 DEF Fails, Submissions!Fail, Submissions!Next
<1>11. CASE Returns(c, ops)
  BY <1>1, <1>3, <1>11 DEF Returns, Submissions!Return, Submissions!Next
<1>12. QED
  BY <1>4, <1>5, <1>6, <1>7, <1>8, <1>9, <1>10, <1>11 DEF Moves

LEMMA StatePathsMove ==
    ASSUME NEW c \in Callers, Alone(c),
           Moves(c, {"statepaths"}, {a \in Answers : a.status = 200}, {}, 0)
    PROVE  [StatePaths!Next]_(StatePaths!vars)
<1> DEFINE ops == {"statepaths"}
           phases == [d \in Callers |-> Phase(d, ops)]
           logs == [d \in Callers |-> LogOf(d, ops)]
           verdicts == [d \in Callers |-> Verdict(d, ops)]
<1>1. /\ phases' = [phases EXCEPT ![c] = Phase(c, ops)']
      /\ logs' = [logs EXCEPT ![c] = LogOf(c, ops)']
      /\ verdicts' = [verdicts EXCEPT ![c] = Verdict(c, ops)']
  BY Frame
<1>2. /\ LogOf(c, ops)' = LogOf(c, ops) => logs' = logs
      /\ Verdict(c, ops)' = Verdict(c, ops) => verdicts' = verdicts
      /\ Phase(c, ops)' = Phase(c, ops) => phases' = phases
  BY <1>1
<1>3. phases[c] = Phase(c, ops) /\ logs[c] = LogOf(c, ops) /\ verdicts[c] = Verdict(c, ops)
  OBVIOUS
<1>4. CASE Still(c, ops)
  BY <1>2, <1>4 DEF Still, StatePaths!vars
<1>5. CASE Begins(c, ops)
  BY <1>1, <1>2, <1>3, <1>5 DEF Begins, StatePaths!Begin, StatePaths!Next
<1>6. CASE Submits(c, ops, {}, 0)
  BY <1>1, <1>2, <1>3, <1>6 DEF Submits, StatePaths!Submit, StatePaths!MayResubmit, StatePaths!Next
<1>7. ~IsInvited(c, ops, {})
  BY DEF IsInvited
<1>8. CASE IsAnswered(c, ops, {a \in Answers : a.status = 200})
  <2>1. PICK a \in AnyAnswer :
           /\ LogOf(c, ops)' = Append(logs[c], a)
           /\ Verdict(c, ops)' = StatePaths!Verdict(Append(logs[c], a))
    BY <1>3, <1>8 DEF IsAnswered, Report, StatePaths!Verdict
  <2>2. phases[c] = "flying" /\ Phase(c, ops)' = "over"
    BY <1>3, <1>8 DEF IsAnswered
  <2>3. StatePaths!AnswerConcludes(c)
    BY <1>1, <2>1, <2>2 DEF AnyAnswer, StatePaths!AnswerConcludes
  <2>4. QED
    BY <2>3 DEF StatePaths!Next
<1>9. CASE GivesUp(c, ops, {a \in Answers : a.status = 200}, 0)
  <2>1. /\ phases[c] = "busy" /\ Phase(c, ops)' = "over" /\ logs' = logs
        /\ Len(logs[c]) > 0 /\ logs[c] # <<>>
        /\ Verdict(c, ops)' = StatePaths!Verdict(logs[c])
    BY <1>2, <1>3, <1>9 DEF GivesUp, Report, StatePaths!Verdict
  <2>2. StatePaths!GiveUp(c)
    BY <1>1, <2>1 DEF StatePaths!GiveUp
  <2>3. QED
    BY <2>2 DEF StatePaths!Next
<1>10. CASE Fails(c, ops)
  BY <1>1, <1>2, <1>3, <1>10 DEF Fails, StatePaths!Fail, StatePaths!Next
<1>11. CASE Returns(c, ops)
  BY <1>1, <1>3, <1>11 DEF Returns, StatePaths!Return, StatePaths!Next
<1>12. QED
  BY <1>4, <1>5, <1>6, <1>7, <1>8, <1>9, <1>10, <1>11 DEF Moves

PostGot(o) == {a \in Answers : a.status = 200 \/ (o = "submit" /\ a.status = 201)}

LEMMA PostMoves ==
    ASSUME TypeInv, NEW c \in Callers, Place(c), History(c), Turn(c), NEW o \in POSTs
    PROVE  Moves(c, {o}, PostGot(o), {}, 0)
<1> DEFINE Goal == Moves(c, {o}, PostGot(o), {}, 0)
<1>1. /\ pc \in [Callers -> Labels] /\ op \in [Callers -> Ops \cup {"none"}]
      /\ log \in [Callers -> Seq(AnyAnswer)] /\ result \in [Callers -> Results]
  BY DEF TypeInv, CallerTypes
<1>2. o # "none" /\ o \notin GetOps
  BY DEF GetOps, POSTs
<1>3. ASSUME op[c] # o, op'[c] # o
      PROVE  Goal
  BY <1>3 DEF Moves, Still, Phase, LogOf, Verdict
<1>4. CASE Begin(c)
  <2>1. PICK x \in Operations : Get(c, x) \/ Post(c, x)
    BY <1>4 DEF Begin
  <2>2. op[c] = "none" /\ op'[c] = x
    BY <1>1, <2>1 DEF Get, Post, Place
  <2>3. CASE x # o
    BY <1>2, <1>3, <2>2, <2>3
  <2>4. CASE x = o
    <3>1. pc'[c] = "post" /\ log'[c] = <<>>
      BY <1>1, <2>1, <2>4 DEF Get, Post, To
    <3>2. Begins(c, {o})
      BY <1>2, <2>2, <2>4, <3>1 DEF Begins, Phase, LogOf, Verdict
    <3>3. QED
      BY <3>2 DEF Moves
  <2>5. QED
    BY <2>3, <2>4
<1>5. CASE Cancel(c)
  <2>1. Still(c, {o})
    BY <1>5 DEF Cancel, Still, Phase, LogOf, Verdict
  <2>2. QED
    BY <2>1 DEF Moves
<1>6. CASE SendPost(c) /\ op[c] = o
  <2>1. pc[c] = "post" /\ pc'[c] = "flying" /\ op' = op /\ log' = log /\ log[c] = <<>>
    BY <1>1, <1>6 DEF SendPost, To, control, History
  <2>2. Submits(c, {o}, {}, 0)
    BY <1>6, <2>1 DEF Submits, Phase, LogOf, Verdict
  <2>3. QED
    BY <2>2 DEF Moves
<1>20. CASE Malformed(c) /\ op[c] = o
  <2>1. pc[c] = "post" /\ pc'[c] = "over" /\ op' = op /\ log' = log /\ result'[c] = "unsent"
    BY <1>1, <1>2, <1>20 DEF Malformed, Finish, To, control, Place, Loop
  <2>2. Fails(c, {o})
    BY <1>20, <2>1 DEF Fails, Phase, LogOf, Verdict
  <2>3. QED
    BY <2>2 DEF Moves
<1>7. CASE (Concludes(c) \/ LosesAnswer(c)) /\ op[c] = o
  <2>1. PICK a \in AnyAnswer :
           /\ Logs(c, a)
           /\ Finish(c, IF a \in PostGot(o) THEN "good" ELSE "refused")
    <3>1. CASE Concludes(c)
      <4>1. PICK a \in Answers :
               /\ Logs(c, a)
               /\ Finish(c, IF ~Success(c, a) THEN "refused" ELSE "good")
        BY <1>7, <3>1 DEF Concludes, POSTs
      <4>2. Success(c, a) = (a \in PostGot(o))
        BY <1>7 DEF Success, PostGot
      <4>3. QED
        BY <4>1, <4>2 DEF AnyAnswer
    <3>2. CASE LosesAnswer(c)
      <4>1. Logs(c, Lost) /\ Finish(c, "refused")
        BY <1>7, <3>2 DEF LosesAnswer, AfterLoss
      <4>2. Lost \notin PostGot(o)
        BY AnswerTypes DEF PostGot
      <4>3. QED
        BY <4>1, <4>2 DEF AnyAnswer
    <3>3. QED
      BY <1>7, <3>1, <3>2
  <2>2. pc[c] = "flying" /\ op' = op
    BY <1>7 DEF Concludes, LosesAnswer, control
  <2>3. pc'[c] = "over" /\ result'[c] = IF a \in PostGot(o) THEN "good" ELSE "refused"
    BY <1>1, <2>1 DEF Finish, To
  <2>4. log'[c] = Append(log[c], a)
    BY <2>1, LogGrows DEF TypeInv
  <2>5. Report(Append(log[c], a), PostGot(o)) = IF a \in PostGot(o) THEN "good" ELSE "refused"
    BY <1>1, AppendProperties DEF Report
  <2>6. IsAnswered(c, {o}, PostGot(o))
    BY <1>7, <2>2, <2>3, <2>4, <2>5 DEF IsAnswered, Phase, LogOf, Verdict
  <2>7. QED
    BY <2>6 DEF Moves
<1>8. CASE (PollCancelled(c) \/ Return(c)) /\ op[c] = o
  <2>1. pc[c] = "over" /\ op'[c] = "none"
    BY <1>1, <1>2, <1>8 DEF PollCancelled, Return, Leave, Place, GetOps, Operations, POSTs
  <2>2. Returns(c, {o})
    BY <1>2, <1>8, <2>1 DEF Returns, Phase, LogOf, Verdict
  <2>3. QED
    BY <2>2 DEF Moves
<1>9. CASE (PollCancelled(c) \/ Return(c)) /\ op[c] # o
  <2>1. op'[c] = "none"
    BY <1>1, <1>9 DEF PollCancelled, Return, Leave
  <2>2. QED
    BY <1>2, <1>3, <1>9, <2>1
<1>10. CASE (SendPost(c) \/ Malformed(c) \/ Concludes(c) \/ LosesAnswer(c)) /\ op[c] # o
  BY <1>3, <1>10 DEF SendPost, Malformed, Concludes, LosesAnswer, control
\* The other steps are those of GETs.
<1>11. CASE \/ LoopEnds(c) \/ FirstAttempt(c) \/ BackOff(c) \/ BackoffOver(c) \/ BackoffCancelled(c)
            \/ LimiterCancelled(c) \/ DeadlineTooNear(c)
            \/ Reserve(c) \/ ReservationCancelled(c) \/ Send(c)
            \/ RefusedForNow(c) \/ RetryAfterOver(c) \/ RetryAfterCancelled(c)
            \/ NotThereYet(c) \/ PollAgain(c)
  <2>1. op' = op
    BY <1>11 DEF LoopEnds, FirstAttempt, BackOff, BackoffOver, BackoffCancelled, LimiterCancelled,
        Reserve, ReservationCancelled, Send, RefusedForNow, RetryAfterOver, RetryAfterCancelled,
        NotThereYet, PollAgain, ContextDone, control, DeadlineTooNear
  <2>2. op[c] # o
    <3>1. CASE RefusedForNow(c)
      BY <3>1 DEF RefusedForNow, Retried
    <3>2. CASE NotThereYet(c) \/ PollAgain(c)
      BY <1>2, <3>2 DEF NotThereYet, Satisfied, PollAgain, Place, GetOps, Operations, POSTs
    <3>3. CASE ~RefusedForNow(c) /\ ~NotThereYet(c) /\ ~PollAgain(c)
      <4>1. pc[c] \in Busy
        BY <1>11, <3>3 DEF LoopEnds, FirstAttempt, BackOff, BackoffOver, BackoffCancelled,
            LimiterCancelled, Reserve, ReservationCancelled, Send, RetryAfterOver,
            RetryAfterCancelled, ContextDone, Busy, Loop, DeadlineTooNear
      <4>2. QED
        BY <1>2, <4>1 DEF Place, Busy
    <3>4. QED
      BY <3>1, <3>2, <3>3
  <2>3. QED
    BY <1>3, <2>1, <2>2
<1>12. QED
  BY <1>4, <1>5, <1>6, <1>7, <1>8, <1>9, <1>10, <1>11, <1>20 DEF Turn, Advance

(***************************************************************************)
(* A POST keeps its promise, with any number of callers: it is sent once,  *)
(* for the transaction of one that got lost may have been accepted, and    *)
(* succeeds on 200, or on 201 for a transaction only (submitTransaction,   *)
(* GetStatePaths).                                                         *)
(***************************************************************************)
THEOREM PostsAreSentOnce == Spec => PostsKeepPromise
<1>1. Init => Submissions!Init /\ StatePaths!Init
  BY DEF Init, Submissions!Init, StatePaths!Init, Phase, LogOf, Verdict
<1>2. Invariant /\ [Next]_vars =>
        [Submissions!Next]_(Submissions!vars) /\ [StatePaths!Next]_(StatePaths!vars)
  <2> SUFFICES ASSUME Invariant, [Next]_vars
               PROVE  [Submissions!Next]_(Submissions!vars) /\ [StatePaths!Next]_(StatePaths!vars)
    OBVIOUS
  <2>1. ASSUME NEW c \in Callers, Turn(c)
        PROVE  [Submissions!Next]_(Submissions!vars) /\ [StatePaths!Next]_(StatePaths!vars)
    <3>1. /\ Alone(c)
          /\ \A o \in POSTs : Moves(c, {o}, PostGot(o), {}, 0)
      BY <2>1, PostMoves, TurnTypes DEF Invariant, Placed, Histories
    <3>2. /\ PostGot("submit") = {a \in Answers : a.status \in {200, 201}}
          /\ PostGot("statepaths") = {a \in Answers : a.status = 200}
      BY DEF PostGot
    <3>3. /\ Moves(c, {"submit"}, {a \in Answers : a.status \in {200, 201}}, {}, 0)
          /\ Moves(c, {"statepaths"}, {a \in Answers : a.status = 200}, {}, 0)
      BY <3>1, <3>2 DEF POSTs
    <3>4. QED
      BY <3>1, <3>3, SubmissionsMove, StatePathsMove
  <2>2. CASE Tick \/ UNCHANGED vars
    BY <2>2, TimePasses DEF Submissions!vars, StatePaths!vars
  <2>3. QED
    BY <2>1, <2>2 DEF Next, Turn
<1>3. QED
  BY <1>1, <1>2, InvariantHolds, PTL
     DEF Spec, PostsKeepPromise, Submissions!Spec, StatePaths!Spec

-----------------------------------------------------------------------------
(* What follows from the promises                                          *)

GetBounds == INSTANCE RetriedCall_proofs WITH
    Answers <- Answers \cup {Lost},
    Good <- {a \in Answers : a.status = 200},
    Transient <- {Lost} \cup {a \in Answers : a.status = 429 \/ a.status >= 500},
    phase <- [c \in Callers |-> Phase(c, Operations \ POSTs)],
    log <- [c \in Callers |-> LogOf(c, Operations \ POSTs)],
    verdict <- [c \in Callers |-> Verdict(c, Operations \ POSTs)]

SubmissionBounds == INSTANCE RetriedCall_proofs WITH
    Answers <- Answers \cup {Lost},
    Good <- {a \in Answers : a.status \in {200, 201}},
    Transient <- {},
    MaxRetries <- 0,
    phase <- [c \in Callers |-> Phase(c, {"submit"})],
    log <- [c \in Callers |-> LogOf(c, {"submit"})],
    verdict <- [c \in Callers |-> Verdict(c, {"submit"})]

\* While a request of a GET is under way, all answers before it were lost or invited to
\* it, and they are no more than MaxRetries; success follows nothing but a 200.
GetsBounded ==
    \A c \in Callers : op[c] \in GetOps =>
        /\ pc[c] = "flying" =>
              /\ Len(log[c]) <= MaxRetries
              /\ \A i \in 1..Len(log[c]) :
                    log[c][i] = Lost \/ log[c][i].status = 429 \/ log[c][i].status >= 500
        /\ pc[c] = "over" /\ result[c] \in {"good", "undecodable"} =>
              log[c] # <<>> /\ log[c][Len(log[c])].status = 200

\* A transaction that is under way was not submitted before, and its submission is a
\* success only if it was answered with 200 or 201.
SubmittedOnce ==
    \A c \in Callers : op[c] = "submit" =>
        /\ pc[c] = "flying" => log[c] = <<>>
        /\ pc[c] = "over" /\ result[c] \in {"good", "undecodable"} =>
              log[c] # <<>> /\ log[c][Len(log[c])].status \in {200, 201}

(***************************************************************************)
(* A GET sends at most MaxRetries + 1 requests and none after an answer    *)
(* that is final (get); a transaction is sent once (submitTransaction).    *)
(***************************************************************************)
THEOREM RequestsAreBounded ==
    ASSUME MaxRetries \in Nat
    PROVE  Spec => [](GetsBounded /\ SubmittedOnce)
<1>1. Gets!Init /\ Submissions!Init => GetBounds!Init /\ SubmissionBounds!Init
  BY DEF Gets!Init, GetBounds!Init, Submissions!Init, SubmissionBounds!Init
<1>2. [Gets!Next]_(Gets!vars) => [GetBounds!Next]_(GetBounds!vars)
  BY Zenon
     DEF Gets!Next, Gets!Begin, Gets!Submit, Gets!AnswerInvitesRetry,
         Gets!AnswerConcludes, Gets!GiveUp, Gets!Fail, Gets!Return, Gets!vars,
         Gets!MayResubmit, Gets!Verdict,
         GetBounds!Next, GetBounds!Begin, GetBounds!Submit, GetBounds!AnswerInvitesRetry,
         GetBounds!AnswerConcludes, GetBounds!GiveUp, GetBounds!Fail, GetBounds!Return, GetBounds!vars,
         GetBounds!MayResubmit, GetBounds!Verdict
<1>3. [Submissions!Next]_(Submissions!vars) => [SubmissionBounds!Next]_(SubmissionBounds!vars)
  BY Zenon
     DEF Submissions!Next, Submissions!Begin, Submissions!Submit, Submissions!AnswerInvitesRetry,
         Submissions!AnswerConcludes, Submissions!GiveUp, Submissions!Fail, Submissions!Return, Submissions!vars,
         Submissions!MayResubmit, Submissions!Verdict,
         SubmissionBounds!Next, SubmissionBounds!Begin, SubmissionBounds!Submit, SubmissionBounds!AnswerInvitesRetry,
         SubmissionBounds!AnswerConcludes, SubmissionBounds!GiveUp, SubmissionBounds!Fail, SubmissionBounds!Return, SubmissionBounds!vars,
         SubmissionBounds!MayResubmit, SubmissionBounds!Verdict
<1>4. TypeOK /\ GetBounds!SubmissionsBounded /\ GetBounds!LastDecides => GetsBounded
  <2> SUFFICES ASSUME TypeOK, GetBounds!SubmissionsBounded, GetBounds!LastDecides,
                      NEW c \in Callers, op[c] \in GetOps
               PROVE  /\ pc[c] = "flying" =>
                            /\ Len(log[c]) <= MaxRetries
                            /\ \A i \in 1..Len(log[c]) :
                                  \/ log[c][i] = Lost
                                  \/ log[c][i].status = 429 \/ log[c][i].status >= 500
                      /\ pc[c] = "over" /\ result[c] \in {"good", "undecodable"} =>
                            log[c] # <<>> /\ log[c][Len(log[c])].status = 200
    BY DEF GetsBounded
  <2>1. pc[c] \in {"flying", "over"} =>
          LogOf(c, Operations \ POSTs) = log[c] /\ Phase(c, Operations \ POSTs) = pc[c]
    BY DEF LogOf, Phase, GetOps
  <2>2. CASE pc[c] = "flying"
    <3>1. /\ Len(log[c]) <= MaxRetries
          /\ \A i \in 1..Len(log[c]) :
                log[c][i] \in {Lost} \cup {a \in Answers : a.status = 429 \/ a.status >= 500}
      <4> DEFINE invites == {Lost} \cup {a \in Answers : a.status = 429 \/ a.status >= 500}
                 phases == [d \in Callers |-> Phase(d, Operations \ POSTs)]
                 logs == [d \in Callers |-> LogOf(d, Operations \ POSTs)]
      <4>1. /\ phases[c] = "flying" => Len(logs[c]) <= MaxRetries
            /\ phases[c] # "over" => \A i \in 1..Len(logs[c]) : logs[c][i] \in invites
        <5>1. GetBounds!Bounded(c)
          BY DEF GetBounds!SubmissionsBounded
        <5>2. QED
          BY <5>1 DEF GetBounds!Bounded
      <4>2. phases[c] = "flying" /\ logs[c] = log[c]
        BY <2>1, <2>2
      <4> HIDE DEF invites, phases, logs
      <4>3. Len(log[c]) <= MaxRetries /\ \A i \in 1..Len(log[c]) : log[c][i] \in invites
        BY <4>1, <4>2
      <4>4. QED
        BY <4>3 DEF invites
    <3>2. QED
      BY <2>2, <3>1
  <2>3. CASE pc[c] = "over"
    BY <2>1, <2>3 DEF GetBounds!LastDecides, GetBounds!Decided, Verdict
  <2>4. QED
    BY <2>2, <2>3
<1>5. TypeOK /\ SubmissionBounds!SubmissionsBounded /\ SubmissionBounds!LastDecides => SubmittedOnce
  <2> SUFFICES ASSUME TypeOK, SubmissionBounds!SubmissionsBounded, SubmissionBounds!LastDecides,
                      NEW c \in Callers, op[c] = "submit"
               PROVE  /\ pc[c] = "flying" => log[c] = <<>>
                      /\ pc[c] = "over" /\ result[c] \in {"good", "undecodable"} =>
                            log[c] # <<>> /\ log[c][Len(log[c])].status \in {200, 201}
    BY DEF SubmittedOnce
  <2>1. pc[c] \in {"flying", "over"} =>
          LogOf(c, {"submit"}) = log[c] /\ Phase(c, {"submit"}) = pc[c]
    BY DEF LogOf, Phase
  <2>2. CASE pc[c] = "flying"
    <3>1. Len(log[c]) <= 0 /\ log[c] \in Seq(Answers \cup {Lost})
      BY <2>1, <2>2 DEF SubmissionBounds!SubmissionsBounded, SubmissionBounds!Bounded, TypeOK
    <3>2. QED
      BY <2>2, <3>1
  <2>3. CASE pc[c] = "over"
    BY <2>1, <2>3 DEF SubmissionBounds!LastDecides, SubmissionBounds!Decided, Verdict
  <2>4. QED
    BY <2>2, <2>3
<1>6. GetBounds!Counted /\ SubmissionBounds!Counted
  BY DEF GetBounds!Counted, SubmissionBounds!Counted
<1>7. Spec => GetKeepsPromise
  BY GetsKeepPromise
<1>8. QED
  BY <1>1, <1>2, <1>3, <1>4, <1>5, <1>6, <1>7, TypeCorrect, PostsAreSentOnce,
     GetBounds!PromiseBounds, SubmissionBounds!PromiseBounds, PTL
     DEF GetKeepsPromise, PostsKeepPromise, Gets!Spec, GetBounds!Spec,
         Submissions!Spec, SubmissionBounds!Spec

-----------------------------------------------------------------------------
(* How long a GET lasts                                                    *)

\* A clock for each GET, which nothing reads: the time it has spent on anything but the
\* limiter.  A GET of a poll starts it anew.
VARIABLE spent

AtWork == {"head", "backoff", "limiter", "reserved", "flying", "retry-after"}

InGet(c) == pc[c] \in AtWork /\ op[c] \notin POSTs

Spending ==
    spent' = [c \in Callers |->
                IF ~InGet(c)' \/ (pc'[c] = "head" /\ attempt'[c] = 0) THEN 0
                ELSE IF Tick /\ pc[c] \in {"backoff", "flying", "retry-after"} THEN spent[c] + 1
                ELSE spent[c]]

TimedSpec == Spec /\ spent = [c \in Callers |-> 0] /\ [][Spending]_<<vars, spent>>

\* Backoffs last no longer than longest, and the node asks for no more than asked.
Patience(longest, asked) ==
    /\ \A k \in 1..MaxRetries : Delay(k) <= longest
    /\ \A a \in Answers : SecondsToWait(a) <= asked

\* The longest round, and the most that a GET spends.
Round(longest, asked) == longest + Timeout + asked

Longest(longest, asked) == Timeout + asked + MaxRetries * Round(longest, asked)

\* What is ahead of a GET at label, in its k-th retry, with t left on its timer: the rest of
\* the round, and the rounds to come.
RoundsAfter(k, longest, asked) == (MaxRetries - k) * Round(longest, asked)

AheadOf(label, k, t, longest, asked) ==
    CASE label = "head" /\ k = 0 -> Longest(longest, asked)
      [] label = "head" /\ k > MaxRetries -> 0
      [] label = "head" /\ k \in 1..MaxRetries ->
            Round(longest, asked) + RoundsAfter(k, longest, asked)
      [] label = "backoff" -> t + Timeout + asked + RoundsAfter(k, longest, asked)
      [] label \in {"limiter", "reserved"} -> Timeout + asked + RoundsAfter(k, longest, asked)
      [] label = "flying" -> t + asked + RoundsAfter(k, longest, asked)
      [] OTHER -> t + RoundsAfter(k, longest, asked)

Ahead(c, longest, asked) == AheadOf(pc[c], attempt[c], timer[c], longest, asked)

\* The time a GET has spent and the time ahead of it are no more than Longest.
SpentInv(longest, asked) ==
    \A c \in Callers :
        /\ spent[c] \in Nat
        /\ ~InGet(c) => spent[c] = 0
        /\ InGet(c) => /\ attempt[c] <= MaxRetries + 1
                       /\ pc[c] # "head" => attempt[c] <= MaxRetries
                       /\ spent[c] + Ahead(c, longest, asked) <= Longest(longest, asked)

\* What a step of c makes of its GET.
GoesOn(c, asked) ==
    \/ ~InGet(c)'
    \/ pc'[c] = "head" /\ attempt'[c] = 0
    \/ UNCHANGED <<pc[c], op[c], timer[c], attempt[c]>>
    \/ /\ UNCHANGED <<op[c], attempt[c]>>
       /\ \/ pc[c] = "head" /\ attempt[c] = 0 /\ pc'[c] = "limiter"
          \/ /\ pc[c] = "head" /\ attempt[c] \in 1..MaxRetries
             /\ pc'[c] = "backoff" /\ timer'[c] = Delay(attempt[c])
          \/ pc[c] = "backoff" /\ pc'[c] = "limiter"
          \/ pc[c] = "limiter" /\ pc'[c] = "reserved"
          \/ pc[c] = "reserved" /\ pc'[c] = "flying" /\ timer'[c] = Timeout
          \/ pc[c] = "flying" /\ pc'[c] = "retry-after" /\ timer'[c] <= asked
    \/ /\ UNCHANGED op[c]
       /\ pc[c] \in {"flying", "retry-after"} /\ pc'[c] = "head"
       /\ attempt'[c] = attempt[c] + 1

LEMMA CallerGoesOn ==
    ASSUME TypeInv, MaxRetries \in Nat, NEW longest \in Nat, NEW asked \in Nat,
           Patience(longest, asked), NEW c \in Callers, Place(c), Turn(c)
    PROVE  GoesOn(c, asked)
<1> USE Numbers DEF TypeInv, CallerTypes, To, Start, control
<1>1. \A label \in Labels \ AtWork : To(c, label) => ~InGet(c)'
  BY DEF InGet
<1>2. ASSUME NEW r, Finish(c, r) PROVE ~InGet(c)'
  BY <1>1, <1>2 DEF Finish, AtWork, Labels
<1>3. ASSUME NEW label, ContextDone(c, label) PROVE ~InGet(c)'
  BY <1>2, <1>3 DEF ContextDone
<1>4. CASE Begin(c)
  BY <1>4 DEF Begin, Get, Post, EnterGet, GoesOn, InGet, AtWork
<1>5. CASE Cancel(c)
  BY <1>5 DEF Cancel, GoesOn
<1>6. CASE \/ LoopEnds(c) \/ BackoffCancelled(c) \/ LimiterCancelled(c) \/ ReservationCancelled(c)
           \/ Concludes(c) \/ RetryAfterCancelled(c) \/ DeadlineTooNear(c) \/ Malformed(c)
  BY <1>2, <1>3, <1>6 DEF LoopEnds, BackoffCancelled, LimiterCancelled, ReservationCancelled,
                         Concludes, RetryAfterCancelled, DeadlineTooNear, Malformed, GoesOn
<1>7. CASE FirstAttempt(c) \/ BackOff(c) \/ BackoffOver(c)
  BY <1>7 DEF FirstAttempt, BackOff, BackoffOver, AttemptsLeft, GoesOn
<1>8. CASE SendPost(c) \/ Send(c)
  <2>1. CASE SendPost(c)
    BY <2>1 DEF SendPost, Place, GoesOn, InGet
  <2>2. CASE Send(c)
    BY <2>2 DEF Send, GoesOn
  <2>3. QED
    BY <1>8, <2>1, <2>2
<1>9. CASE Reserve(c)
  BY <1>9 DEF Reserve, GoesOn
<1>10. CASE RefusedForNow(c)
  <2>1. PICK a \in Answers :
           IF SecondsToWait(a) > 0
           THEN To(c, "retry-after") /\ Start(c, SecondsToWait(a)) /\ UNCHANGED attempt
           ELSE NextAttempt(c) /\ Start(c, 0)
    BY <1>10 DEF RefusedForNow
  <2>2. SecondsToWait(a) \in Nat /\ SecondsToWait(a) <= asked
    BY AnswerTypes DEF Patience
  <2>3. pc[c] = "flying" /\ UNCHANGED op
    BY <1>10 DEF RefusedForNow
  <2>4. CASE SecondsToWait(a) > 0
    BY <2>1, <2>2, <2>3, <2>4 DEF GoesOn
  <2>5. CASE ~(SecondsToWait(a) > 0)
    <3>1. NextAttempt(c)
      BY <2>1, <2>5
    <3>2. QED
      BY <2>3, <3>1 DEF GoesOn, NextAttempt
  <2>6. QED
    BY <2>4, <2>5
<1>11. CASE RetryAfterOver(c)
  BY <1>11 DEF RetryAfterOver, NextAttempt, GoesOn
<1>12. CASE LosesAnswer(c)
  BY <1>2, <1>12 DEF LosesAnswer, AfterLoss, NextAttempt, GoesOn
<1>13. CASE NotThereYet(c) \/ PollCancelled(c) \/ Return(c)
  BY <1>1, <1>13 DEF NotThereYet, PollCancelled, Return, Leave, GoesOn, AtWork, Labels, Waits
<1>14. CASE PollAgain(c)
  BY <1>14 DEF PollAgain, EnterGet, GoesOn
<1>15. QED
  BY <1>4, <1>5, <1>6, <1>7, <1>8, <1>9, <1>10, <1>11, <1>12, <1>13, <1>14 DEF Turn, Advance

LEMMA RoundsToCome ==
    ASSUME NEW n \in Nat, NEW k \in 0..n, NEW r \in Nat
    PROVE  /\ (n - k) * r \in Nat
           /\ (n - k) * r <= n * r
           /\ k < n => (n - k) * r = r + (n - (k + 1)) * r
OBVIOUS

\* The numbers of a GET that is at its k-th attempt.
LEMMA RoundSizes ==
    ASSUME MaxRetries \in Nat, NEW longest \in Nat, NEW asked \in Nat
    PROVE  /\ Timeout \in Nat /\ Round(longest, asked) \in Nat
           /\ Round(longest, asked) = longest + Timeout + asked
           /\ Longest(longest, asked) \in Nat
           /\ \A k \in 0..MaxRetries :
                 /\ (MaxRetries - k) * Round(longest, asked) \in Nat
                 /\ Timeout + asked + (MaxRetries - k) * Round(longest, asked)
                       <= Longest(longest, asked)
                 /\ k < MaxRetries =>
                       (MaxRetries - k) * Round(longest, asked)
                          = Round(longest, asked) + (MaxRetries - (k + 1)) * Round(longest, asked)
<1>1. Timeout \in Nat /\ Round(longest, asked) \in Nat
  BY Numbers DEF Round
<1>2. MaxRetries * Round(longest, asked) \in Nat
  BY <1>1, RoundsToCome
<1>3. \A k \in 0..MaxRetries :
         /\ (MaxRetries - k) * Round(longest, asked) \in Nat
         /\ (MaxRetries - k) * Round(longest, asked) <= MaxRetries * Round(longest, asked)
         /\ k < MaxRetries =>
               (MaxRetries - k) * Round(longest, asked)
                  = Round(longest, asked) + (MaxRetries - (k + 1)) * Round(longest, asked)
  BY <1>1, RoundsToCome
<1>4. Longest(longest, asked) = Timeout + asked + MaxRetries * Round(longest, asked)
  BY DEF Longest
<1>5. QED
  BY <1>1, <1>2, <1>3, <1>4 DEF Round

\* What is ahead of a GET is a number.
LEMMA AheadType ==
    ASSUME MaxRetries \in Nat, NEW longest \in Nat, NEW asked \in Nat,
           NEW label \in AtWork, NEW k \in Nat, NEW t \in Nat,
           k <= MaxRetries + 1, label # "head" => k <= MaxRetries
    PROVE  AheadOf(label, k, t, longest, asked) \in Nat
<1>1. Timeout \in Nat /\ Round(longest, asked) \in Nat /\ Longest(longest, asked) \in Nat
  BY RoundSizes
<1>2. ASSUME k <= MaxRetries PROVE RoundsAfter(k, longest, asked) \in Nat
  BY <1>2, RoundSizes DEF RoundsAfter
<1>3. CASE label = "head"
  BY <1>1, <1>2, <1>3 DEF AheadOf
<1>4. CASE label # "head"
  BY <1>1, <1>2, <1>4 DEF AheadOf
<1>5. QED
  BY <1>3, <1>4

LEMMA AheadSize ==
    ASSUME CallerTypes, MaxRetries \in Nat, NEW longest \in Nat, NEW asked \in Nat, NEW c \in Callers,
           InGet(c), attempt[c] <= MaxRetries + 1, pc[c] # "head" => attempt[c] <= MaxRetries
    PROVE  Ahead(c, longest, asked) \in Nat
BY AheadType DEF CallerTypes, InGet, Ahead

\* A GET that goes on comes no further from its end.
LEMMA GoesOnAhead ==
    ASSUME CallerTypes, CallerTypes', MaxRetries \in Nat, NEW longest \in Nat, NEW asked \in Nat,
           Patience(longest, asked), NEW c \in Callers, GoesOn(c, asked),
           InGet(c), attempt[c] <= MaxRetries + 1, pc[c] # "head" => attempt[c] <= MaxRetries,
           InGet(c)', ~(pc'[c] = "head" /\ attempt'[c] = 0)
    PROVE  /\ attempt'[c] <= MaxRetries + 1
           /\ pc'[c] # "head" => attempt'[c] <= MaxRetries
           /\ Ahead(c, longest, asked)' <= Ahead(c, longest, asked)
<1> DEFINE rounds == RoundsAfter(attempt[c], longest, asked)
<1>1. /\ attempt[c] \in 0..MaxRetries + 1 /\ timer[c] \in Nat /\ timer'[c] \in Nat
      /\ Timeout \in Nat /\ Round(longest, asked) \in Nat
      /\ Round(longest, asked) = longest + Timeout + asked
      /\ Longest(longest, asked) \in Nat
  BY RoundSizes DEF CallerTypes
<1>2. ASSUME attempt[c] <= MaxRetries
      PROVE  rounds \in Nat /\ Timeout + asked + rounds <= Longest(longest, asked)
  <2>1. attempt[c] \in 0..MaxRetries
    BY <1>1, <1>2
  <2>2. /\ (MaxRetries - attempt[c]) * Round(longest, asked) \in Nat
        /\ Timeout + asked + (MaxRetries - attempt[c]) * Round(longest, asked)
              <= Longest(longest, asked)
    BY <2>1, RoundSizes
  <2>3. QED
    BY <2>2 DEF RoundsAfter
<1>3. UNCHANGED attempt[c] => rounds' = rounds
  BY DEF RoundsAfter
<1> HIDE DEF rounds
<1>4. CASE UNCHANGED <<pc[c], op[c], timer[c], attempt[c]>>
  <2>1. Ahead(c, longest, asked)' = Ahead(c, longest, asked)
    BY <1>4 DEF Ahead, AheadOf
  <2>2. Ahead(c, longest, asked) \in Nat
    BY AheadSize
  <2>3. QED
    BY <1>4, <2>1, <2>2
<1>5. CASE UNCHANGED attempt[c] /\ pc[c] = "head" /\ attempt[c] = 0 /\ pc'[c] = "limiter"
  BY <1>1, <1>2, <1>3, <1>5 DEF Ahead, AheadOf, rounds
<1>6. CASE /\ UNCHANGED attempt[c] /\ pc[c] = "head" /\ attempt[c] \in 1..MaxRetries
           /\ pc'[c] = "backoff" /\ timer'[c] = Delay(attempt[c])
  <2>1. timer'[c] <= longest
    BY <1>6 DEF Patience
  <2>2. QED
    BY <1>1, <1>2, <1>3, <1>6, <2>1 DEF Ahead, AheadOf, rounds
<1>7. CASE /\ UNCHANGED attempt[c]
           /\ \/ pc[c] = "backoff" /\ pc'[c] = "limiter"
              \/ pc[c] = "limiter" /\ pc'[c] = "reserved"
  BY <1>1, <1>2, <1>3, <1>7 DEF Ahead, AheadOf, rounds
<1>8. CASE UNCHANGED attempt[c] /\ pc[c] = "reserved" /\ pc'[c] = "flying" /\ timer'[c] = Timeout
  BY <1>1, <1>2, <1>3, <1>8 DEF Ahead, AheadOf, rounds
<1>9. CASE UNCHANGED attempt[c] /\ pc[c] = "flying" /\ pc'[c] = "retry-after" /\ timer'[c] <= asked
  BY <1>1, <1>2, <1>3, <1>9 DEF Ahead, AheadOf, rounds
<1>10. CASE /\ pc[c] \in {"flying", "retry-after"} /\ pc'[c] = "head"
            /\ attempt'[c] = attempt[c] + 1
  <2>1. attempt[c] \in 0..MaxRetries /\ attempt'[c] \in 1..MaxRetries + 1
    BY <1>1, <1>10
  <2>2. rounds <= Ahead(c, longest, asked) /\ Ahead(c, longest, asked) \in Nat /\ rounds \in Nat
    BY <1>1, <1>2, <1>10, <2>1 DEF Ahead, AheadOf, rounds
  <2>3. CASE attempt[c] = MaxRetries
    <3>1. Ahead(c, longest, asked)' = 0
      BY <1>10, <2>1, <2>3 DEF Ahead, AheadOf
    <3>2. QED
      BY <1>10, <2>1, <2>2, <3>1
  <2>4. CASE attempt[c] < MaxRetries
    <3>1. attempt'[c] \in 1..MaxRetries
      BY <1>10, <2>1, <2>4
    <3>2. rounds = Round(longest, asked) + rounds'
      <4>1. (MaxRetries - attempt[c]) * Round(longest, asked)
              = Round(longest, asked) + (MaxRetries - (attempt[c] + 1)) * Round(longest, asked)
        BY <2>1, <2>4, RoundSizes
      <4>2. QED
        BY <1>10, <4>1 DEF rounds, RoundsAfter
    <3>3. Ahead(c, longest, asked)' = Round(longest, asked) + rounds'
      BY <1>10, <3>1 DEF Ahead, AheadOf, rounds
    <3>4. QED
      BY <1>10, <2>1, <2>2, <3>1, <3>2, <3>3
  <2>5. QED
    BY <2>1, <2>3, <2>4
<1>11. QED
  BY <1>1, <1>4, <1>5, <1>6, <1>7, <1>8, <1>9, <1>10 DEF GoesOn

LEMMA SpentByTurn ==
    ASSUME TypeInv, TypeInv', Placed, MaxRetries \in Nat, NEW longest \in Nat, NEW asked \in Nat,
           Patience(longest, asked), SpentInv(longest, asked), Spending, ~Tick,
           NEW c \in Callers, Turn(c)
    PROVE  SpentInv(longest, asked)'
<1>1. \A d \in Callers :
        spent'[d] = IF ~InGet(d)' \/ (pc'[d] = "head" /\ attempt'[d] = 0) THEN 0 ELSE spent[d]
  BY DEF Spending
<1>2. \A d \in Callers : spent'[d] \in Nat /\ (~InGet(d)' => spent'[d] = 0)
  BY <1>1 DEF SpentInv
<1>3. Alone(c) /\ GoesOn(c, asked) /\ CallerTypes /\ CallerTypes'
  BY TurnTypes, CallerGoesOn DEF Placed, TypeInv
<1>4. Longest(longest, asked) \in Nat
  BY RoundSizes
<1>5. ASSUME NEW d \in Callers, InGet(d)', pc'[d] = "head" /\ attempt'[d] = 0
      PROVE  spent'[d] = 0 /\ Ahead(d, longest, asked)' = Longest(longest, asked)
  BY <1>1, <1>5 DEF Ahead, AheadOf
<1>6. ASSUME NEW d \in Callers, InGet(d)', InGet(d), ~(pc'[d] = "head" /\ attempt'[d] = 0),
             /\ attempt'[d] <= MaxRetries + 1
             /\ pc'[d] # "head" => attempt'[d] <= MaxRetries
             /\ Ahead(d, longest, asked)' <= Ahead(d, longest, asked)
      PROVE  spent'[d] + Ahead(d, longest, asked)' <= Longest(longest, asked)
  <2>1. /\ spent'[d] = spent[d] /\ spent[d] \in Nat
        /\ spent[d] + Ahead(d, longest, asked) <= Longest(longest, asked)
    BY <1>1, <1>6 DEF SpentInv
  <2>2. Ahead(d, longest, asked) \in Nat
    BY <1>3, <1>6, AheadSize DEF SpentInv
  <2>3. Ahead(d, longest, asked)' \in Nat
    <3>1. pc'[d] \in AtWork /\ attempt'[d] \in Nat /\ timer'[d] \in Nat
      BY <1>3, <1>6 DEF CallerTypes, InGet
    <3>2. QED
      BY <1>6, <3>1, AheadType DEF Ahead
  <2>4. QED
    BY <1>4, <1>6, <2>1, <2>2, <2>3
<1>7. ASSUME NEW d \in Callers \ {c}, InGet(d)', ~(pc'[d] = "head" /\ attempt'[d] = 0)
      PROVE  /\ InGet(d)
             /\ attempt'[d] <= MaxRetries + 1
             /\ pc'[d] # "head" => attempt'[d] <= MaxRetries
             /\ Ahead(d, longest, asked)' <= Ahead(d, longest, asked)
  <2>1. pc'[d] = pc[d] /\ op'[d] = op[d] /\ attempt'[d] = attempt[d] /\ timer'[d] = timer[d]
    BY <1>3 DEF Alone
  <2>2. InGet(d) /\ Ahead(d, longest, asked)' = Ahead(d, longest, asked)
    BY <1>7, <2>1 DEF InGet, Ahead
  <2>3. Ahead(d, longest, asked) \in Nat
    BY <1>3, <2>2, AheadSize DEF SpentInv
  <2>4. QED
    BY <2>1, <2>2, <2>3 DEF SpentInv
<1>8. ASSUME InGet(c)', ~(pc'[c] = "head" /\ attempt'[c] = 0)
      PROVE  /\ InGet(c)
             /\ attempt'[c] <= MaxRetries + 1
             /\ pc'[c] # "head" => attempt'[c] <= MaxRetries
             /\ Ahead(c, longest, asked)' <= Ahead(c, longest, asked)
  <2>1. InGet(c)
    BY <1>3, <1>8 DEF GoesOn, InGet, AtWork
  <2>2. QED
    BY <1>3, <1>8, <2>1, GoesOnAhead DEF SpentInv
<1>9. ASSUME NEW d \in Callers, InGet(d)'
      PROVE  /\ attempt'[d] <= MaxRetries + 1
             /\ pc'[d] # "head" => attempt'[d] <= MaxRetries
             /\ spent'[d] + Ahead(d, longest, asked)' <= Longest(longest, asked)
  <2>1. CASE pc'[d] = "head" /\ attempt'[d] = 0
    BY <1>4, <1>5, <1>9, <2>1
  <2>2. CASE ~(pc'[d] = "head" /\ attempt'[d] = 0)
    BY <1>6, <1>7, <1>8, <1>9, <2>2
  <2>3. QED
    BY <2>1, <2>2
<1>10. QED
  BY <1>2, <1>9 DEF SpentInv

LEMMA SpentByTick ==
    ASSUME TypeInv, TypeInv', MaxRetries \in Nat, NEW longest \in Nat, NEW asked \in Nat,
           SpentInv(longest, asked), Spending, Tick
    PROVE  SpentInv(longest, asked)'
<1>1. UNCHANGED <<pc, op, attempt>> /\ CallerTypes /\ CallerTypes'
  BY DEF Tick, TypeInv
<1>2. ASSUME NEW c \in Callers, InGet(c)
      PROVE  /\ pc[c] \in {"backoff", "reserved", "flying", "retry-after", "limiter"}
             /\ pc[c] # "limiter" => timer'[c] = timer[c] - 1
  <2>1. pc[c] \in {"backoff", "reserved", "flying", "retry-after", "limiter"}
    BY <1>2 DEF Tick, Settled, InGet, AtWork, Waits
  <2>2. pc[c] # "limiter" => timer[c] # 0
    BY <2>1 DEF Tick, Settled
  <2>3. timer'[c] = IF timer[c] = 0 THEN 0 ELSE timer[c] - 1
    BY DEF Tick, Dec
  <2>4. QED
    BY <2>1, <2>2, <2>3
<1>3. \A c \in Callers : InGet(c)' <=> InGet(c)
  BY <1>1 DEF InGet
<1>4. ASSUME NEW c \in Callers, InGet(c)
      PROVE  spent'[c] + Ahead(c, longest, asked)' = spent[c] + Ahead(c, longest, asked)
  <2>1. pc'[c] = pc[c] /\ RoundsAfter(attempt[c], longest, asked)' = RoundsAfter(attempt[c], longest, asked)
    BY <1>1 DEF RoundsAfter
  <2>2. /\ Timeout \in Nat /\ timer[c] \in Nat /\ spent[c] \in Nat
        /\ RoundsAfter(attempt[c], longest, asked) \in Nat
    <3>1. attempt[c] \in 0..MaxRetries
      <4>1. pc[c] # "head" /\ attempt[c] \in Nat
        BY <1>1, <1>2, <1>4 DEF CallerTypes
      <4>2. attempt[c] <= MaxRetries
        BY <1>4, <4>1 DEF SpentInv
      <4>3. QED
        BY <4>1, <4>2
    <3>2. RoundsAfter(attempt[c], longest, asked) \in Nat
      BY <3>1, RoundSizes DEF RoundsAfter
    <3>3. QED
      BY <1>1, <3>2, RoundSizes DEF SpentInv, CallerTypes
  <2>3. spent'[c] = IF pc[c] \in {"backoff", "flying", "retry-after"} THEN spent[c] + 1 ELSE spent[c]
    BY <1>2, <1>3, <1>4, <2>1 DEF Spending
  <2>4. CASE pc[c] \in {"limiter", "reserved"}
    BY <2>1, <2>2, <2>3, <2>4 DEF Ahead, AheadOf
  <2>5. CASE pc[c] \in {"backoff", "flying", "retry-after"}
    <3>1. timer'[c] = timer[c] - 1 /\ spent'[c] = spent[c] + 1
      BY <1>2, <1>4, <2>3, <2>5
    <3>2. QED
      BY <2>1, <2>2, <2>5, <3>1 DEF Ahead, AheadOf
  <2>6. QED
    BY <1>2, <1>4, <2>4, <2>5
<1>5. \A c \in Callers : spent'[c] \in Nat /\ (~InGet(c)' => spent'[c] = 0)
  BY DEF SpentInv, Spending
<1>6. QED
  BY <1>1, <1>3, <1>4, <1>5 DEF SpentInv

(***************************************************************************)
(* A GET ends within Longest, the time it queues for the limiter apart,    *)
(* whatever the node answers and however the backoffs, the Retry-After     *)
(* waits and the timeouts of its attempts add up: MaxRetries rounds, one   *)
(* exchange and one wait more (get, http.Client.Timeout).                  *)
(***************************************************************************)
THEOREM GetsAreShort ==
    ASSUME MaxRetries \in Nat, NEW longest \in Nat, NEW asked \in Nat, Patience(longest, asked)
    PROVE  TimedSpec => [](\A c \in Callers : spent[c] <= Longest(longest, asked))
<1>1. Init /\ spent = [c \in Callers |-> 0] => SpentInv(longest, asked)
  <2> SUFFICES ASSUME Init, spent = [c \in Callers |-> 0], NEW c \in Callers
               PROVE  spent[c] \in Nat /\ spent[c] = 0 /\ ~InGet(c)
    BY DEF SpentInv
  <2>1. QED
    BY DEF Init, InGet, AtWork
<1>2. ASSUME TypeInv, TypeInv', Placed, SpentInv(longest, asked), [Next]_vars,
             [Spending]_<<vars, spent>>
      PROVE  SpentInv(longest, asked)'
  <2>1. CASE UNCHANGED <<vars, spent>>
    <3>1. UNCHANGED <<pc, op, attempt, timer, spent>>
      BY <2>1 DEF vars
    <3>2. QED
      BY <1>2, <3>1 DEF SpentInv, InGet, Ahead
  <2>2. CASE Spending /\ Tick
    BY <1>2, <2>2, SpentByTick
  <2>3. ASSUME Spending, ~Tick, NEW c \in Callers, Turn(c) PROVE SpentInv(longest, asked)'
    BY <1>2, <2>3, SpentByTurn
  <2>4. CASE Spending /\ ~Tick /\ UNCHANGED vars
    <3>1. UNCHANGED <<pc, op, attempt, timer>>
      BY <2>4 DEF vars
    <3>2. \A c \in Callers : spent'[c] = IF ~InGet(c) \/ (pc[c] = "head" /\ attempt[c] = 0) THEN 0
                                         ELSE spent[c]
      BY <2>4, <3>1 DEF Spending, InGet
    <3>3. Longest(longest, asked) \in Nat
      BY RoundSizes
    <3>4. ASSUME NEW c \in Callers
          PROVE  /\ InGet(c)' <=> InGet(c)
                 /\ Ahead(c, longest, asked)' = Ahead(c, longest, asked)
                 /\ pc[c] = "head" /\ attempt[c] = 0 =>
                       Ahead(c, longest, asked) = Longest(longest, asked)
      BY <3>1 DEF InGet, Ahead, AheadOf
    <3>5. QED
      BY <1>2, <3>1, <3>2, <3>3, <3>4 DEF SpentInv
  <2>5. QED
    BY <1>2, <2>1, <2>2, <2>3, <2>4 DEF Next, Turn
<1>3. ASSUME TypeInv, SpentInv(longest, asked)
      PROVE  \A c \in Callers : spent[c] <= Longest(longest, asked)
  <2>1. Longest(longest, asked) \in Nat
    BY RoundSizes
  <2>2. ASSUME NEW c \in Callers, InGet(c) PROVE spent[c] <= Longest(longest, asked)
    <3>1. Ahead(c, longest, asked) \in Nat
      BY <1>3, <2>2, AheadSize DEF SpentInv, TypeInv
    <3>2. QED
      BY <1>3, <2>1, <2>2, <3>1 DEF SpentInv
  <2>3. ASSUME NEW c \in Callers, ~InGet(c) PROVE spent[c] <= Longest(longest, asked)
    <3>1. spent[c] = 0
      BY <1>3, <2>3 DEF SpentInv
    <3>2. QED
      BY <2>1, <3>1
  <2>4. QED
    BY <2>2, <2>3
<1>4. QED
  BY <1>1, <1>2, <1>3, PlacesHold, PTL DEF Spec, TimedSpec

=============================================================================
