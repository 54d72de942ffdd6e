---------------------------- MODULE NetworkClient ----------------------------
(***************************************************************************)
(* The client of the node's REST API (network_client.go), shared by the    *)
(* goroutines in Callers: GETs with retries behind one rate limiter (get), *)
(* POSTs without either (submitTransaction, GetStatePaths), and the poll   *)
(* for a transaction (WaitForTransaction).                                 *)
(*                                                                         *)
(* A Tick is the time in which the limiter earns a token.  Timers count    *)
(* down with it.  A caller at a local step, or whose wait is over, is not  *)
(* overtaken by the clock.                                                 *)
(***************************************************************************)
EXTENDS Integers, Sequences

CONSTANTS
    Callers,
    MaxRetries,     \* maxRetries: WithRetry sets any int
    BaseDelay,      \* baseDelay
    Timeout,        \* Timeout of the http.Client
    PollInterval,   \* pollInterval, or its default
    Rate,           \* reqPerSec of WithRateLimit, 0 for no limiter
    Answers,        \* answers of the node: [status, retryAfter, decodes]
    Ops,            \* the operations callers use, of Operations
    MaxPromised     \* bound on the tokens the limiter promises ahead

\* retryAfter is the header's number of seconds, 0 for none or for a date.
Lost == [status |-> 0, retryAfter |-> 0, decodes |-> FALSE]

\* raw: a getter that returns the body as it is; decoded: one that unmarshals it.
Getters == {"raw", "decoded"}
POSTs == {"submit", "statepaths"}
Operations == Getters \cup POSTs \cup {"wait"}

Delay(k) == BaseDelay * 2^(k - 1)

ASSUME DurationAssumption ==
    /\ MaxRetries \in Int /\ Timeout \in Nat \ {0} /\ PollInterval \in Nat \ {0}
    /\ Rate \in Nat
    /\ \A k \in 1..MaxRetries : Delay(k) \in Nat \ {0}
ASSUME AnswerAssumption ==
    Answers \subseteq [status : Nat \ {0}, retryAfter : Nat, decodes : BOOLEAN]
ASSUME OpAssumption == Ops \subseteq Operations
ASSUME BoundAssumption == MaxPromised \in Nat \ {0}

VARIABLES
    tokens,         \* of the limiter, negative when some are promised
    sent,           \* GETs sent in the last tick, in the last two, and up to a second
    pc, op, attempt, timer, cancelled,
    log,            \* outcomes of the requests of the call, in order
    barred,         \* what is left of the Retry-After the node gave the call
    result          \* what get or the POST is about to return

control == <<op, cancelled>>
vars == <<tokens, sent, pc, op, attempt, timer, cancelled, log, barred, result>>

Waits == {"backoff", "reserved", "flying", "retry-after", "poll"}
Labels == Waits \cup {"idle", "head", "limiter", "post", "over"}
Results == {"none", "good", "undecodable", "refused", "context", "unsent"}

TypeOK ==
    /\ tokens \in -MaxPromised..Rate
    /\ sent \in [1..Rate -> Nat]
    /\ pc \in [Callers -> Labels]
    /\ op \in [Callers -> Ops \cup {"none"}]
    /\ attempt \in [Callers -> Nat]
    /\ \A c \in Callers : pc[c] = "limiter" => attempt[c] <= MaxRetries
    /\ timer \in [Callers -> Nat]
    /\ cancelled \in [Callers -> BOOLEAN]
    /\ log \in [Callers -> Seq(Answers \cup {Lost})]
    /\ barred \in [Callers -> Nat]
    /\ result \in [Callers -> Results]

\* NewNetworkClient and WithRateLimit: the bucket is full.
Init ==
    /\ tokens = Rate
    /\ sent = [i \in 1..Rate |-> 0]
    /\ pc = [c \in Callers |-> "idle"]
    /\ op = [c \in Callers |-> "none"]
    /\ attempt = [c \in Callers |-> 0]
    /\ timer = [c \in Callers |-> 0]
    /\ cancelled = [c \in Callers |-> FALSE]
    /\ log = [c \in Callers |-> <<>>]
    /\ barred = [c \in Callers |-> 0]
    /\ result = [c \in Callers |-> "none"]

To(c, label) == pc' = [pc EXCEPT ![c] = label]
Start(c, duration) == timer' = [timer EXCEPT ![c] = duration]
Limiter == <<tokens, sent>>

Finish(c, r) ==
    /\ To(c, "over")
    /\ result' = [result EXCEPT ![c] = r]

\* Mutant: the poll does not select on the context.
PollIgnoresContext(c) == cancelled[c] /\ pc[c] # "poll"

SeesContext(c) == cancelled[c]

\* A select sees that the context is done.
ContextDone(c, label) ==
    /\ pc[c] = label /\ SeesContext(c)
    /\ Finish(c, "context")
    /\ UNCHANGED <<sent, op, attempt, timer, cancelled, log, barred>>

-----------------------------------------------------------------------------
(* Starting and ending                                                     *)

EnterGet(c) ==
    /\ To(c, "head")
    /\ attempt' = [attempt EXCEPT ![c] = 0]
    /\ log' = [log EXCEPT ![c] = <<>>]
    /\ barred' = [barred EXCEPT ![c] = 0]
    /\ result' = [result EXCEPT ![c] = "none"]

Get(c, o) ==
    /\ pc[c] = "idle" /\ o \in Ops \ POSTs
    /\ op' = [op EXCEPT ![c] = o]
    /\ cancelled' = [cancelled EXCEPT ![c] = FALSE]
    /\ EnterGet(c)
    /\ UNCHANGED <<tokens, sent, timer>>

\* A POST neither retries nor asks the limiter.
Post(c, o) ==
    /\ pc[c] = "idle" /\ o \in Ops \cap POSTs
    /\ op' = [op EXCEPT ![c] = o]
    /\ cancelled' = [cancelled EXCEPT ![c] = FALSE]
    /\ log' = [log EXCEPT ![c] = <<>>]
    /\ result' = [result EXCEPT ![c] = "none"]
    /\ To(c, "post")
    /\ UNCHANGED <<tokens, sent, attempt, timer, barred>>

SendPost(c) ==
    /\ pc[c] = "post"
    /\ To(c, "flying")
    /\ Start(c, Timeout)
    /\ UNCHANGED <<tokens, sent, control, attempt, log, barred, result>>

Cancel(c) ==
    /\ pc[c] # "idle" /\ ~cancelled[c]
    /\ cancelled' = [cancelled EXCEPT ![c] = TRUE]
    /\ UNCHANGED <<tokens, sent, pc, op, attempt, timer, log, barred, result>>

\* What WaitForTransaction returns on; a getter returns on anything.
Satisfied(c) == op[c] = "wait" => result[c] = "good"

Leave(c) ==
    /\ To(c, "idle")
    /\ op' = [op EXCEPT ![c] = "none"]
    /\ log' = [log EXCEPT ![c] = <<>>]
    /\ barred' = [barred EXCEPT ![c] = 0]
    /\ attempt' = [attempt EXCEPT ![c] = 0]
    /\ cancelled' = [cancelled EXCEPT ![c] = FALSE]
    /\ result' = [result EXCEPT ![c] = "none"]
    /\ Start(c, 0)
    /\ UNCHANGED Limiter

Return(c) == pc[c] = "over" /\ Satisfied(c) /\ Leave(c)

-----------------------------------------------------------------------------
(* get: the loop                                                           *)

\* Mutant: one retry too many.
OneMoreAttempt(c) == attempt[c] <= MaxRetries + 1

AttemptsLeft(c) == attempt[c] <= MaxRetries

\* All attempts are used up, or there never was one: get returns lastErr.
LoopEnds(c) ==
    /\ pc[c] = "head" /\ ~AttemptsLeft(c)
    /\ Finish(c, IF log[c] = <<>>            \* a nil error with a nil body
                 THEN IF op[c] = "raw" THEN "good" ELSE "undecodable"
                 ELSE "refused")
    /\ UNCHANGED <<tokens, sent, control, attempt, timer, log, barred>>

FirstAttempt(c) ==
    /\ pc[c] = "head" /\ attempt[c] = 0 /\ AttemptsLeft(c)
    /\ To(c, "limiter")
    /\ UNCHANGED <<tokens, sent, control, attempt, timer, log, barred, result>>

BackOff(c) ==
    /\ pc[c] = "head" /\ attempt[c] > 0 /\ AttemptsLeft(c)
    /\ To(c, "backoff")
    /\ Start(c, Delay(attempt[c]))
    /\ UNCHANGED <<tokens, sent, control, attempt, log, barred, result>>

BackoffOver(c) ==
    /\ pc[c] = "backoff" /\ timer[c] = 0
    /\ To(c, "limiter")
    /\ UNCHANGED <<tokens, sent, control, attempt, timer, log, barred, result>>

BackoffCancelled(c) == ContextDone(c, "backoff") /\ UNCHANGED tokens

-----------------------------------------------------------------------------
(* The limiter (golang.org/x/time/rate), one token for each request        *)

\* Wait returns at once if the context is done.
LimiterCancelled(c) ==
    /\ Rate > 0
    /\ ContextDone(c, "limiter")
    /\ UNCHANGED tokens

\* Nor does it wait for a token that is promised for after the context's deadline.
DeadlineTooNear(c) ==
    /\ pc[c] = "limiter" /\ Rate > 0 /\ tokens <= 0 /\ ~SeesContext(c)
    /\ Finish(c, "context")
    /\ UNCHANGED <<tokens, sent, control, attempt, timer, log, barred>>

\* Mutant: a retry takes no token.
FirstTakesToken(c) ==
    /\ tokens' = IF Rate = 0 \/ attempt[c] > 0 THEN tokens ELSE tokens - 1
    /\ Start(c, IF tokens' >= 0 THEN 0 ELSE -tokens')

\* A token is there, or one is promised for later; later calls come after it.
TakesToken(c) ==
    /\ tokens' = IF Rate = 0 THEN tokens ELSE tokens - 1
    /\ Start(c, IF tokens' >= 0 THEN 0 ELSE -tokens')

Reserve(c) ==
    /\ pc[c] = "limiter"
    /\ Rate > 0 => ~SeesContext(c) /\ tokens > -MaxPromised
    /\ TakesToken(c)
    /\ To(c, "reserved")
    /\ UNCHANGED <<sent, control, attempt, log, barred, result>>

\* A promise is taken back only if no later one was made.
ReservationCancelled(c) ==
    /\ timer[c] > 0
    /\ ContextDone(c, "reserved")
    /\ tokens' = IF timer[c] = -tokens THEN tokens + 1 ELSE tokens

-----------------------------------------------------------------------------
(* One request                                                             *)

\* http.NewRequestWithContext fails, for the URL: if ever, then for the first request.
Malformed(c) ==
    /\ \/ pc[c] = "post"
       \/ pc[c] = "reserved" /\ timer[c] = 0 /\ log[c] = <<>>
    /\ Finish(c, "unsent")
    /\ UNCHANGED <<tokens, sent, control, attempt, timer, log, barred>>

Send(c) ==
    /\ pc[c] = "reserved" /\ timer[c] = 0
    /\ sent' = [i \in 1..Rate |-> sent[i] + 1]
    /\ To(c, "flying")
    /\ Start(c, Timeout)
    /\ UNCHANGED <<tokens, control, attempt, log, barred, result>>

Logs(c, a) == log' = [log EXCEPT ![c] = Append(@, a)]

Success(c, a) == a.status = 200 \/ (op[c] = "submit" /\ a.status = 201)

Retried(c, a) == op[c] \notin POSTs /\ (a.status = 429 \/ a.status >= 500)

\* The node answers, and get or the POST returns.
Concludes(c) ==
    /\ pc[c] = "flying"
    /\ \E a \in Answers :
         /\ ~Retried(c, a)
         /\ Logs(c, a)
         /\ Finish(c, IF ~Success(c, a) THEN "refused"
                      ELSE IF op[c] \in {"decoded", "wait"} /\ ~a.decodes
                      THEN "undecodable" ELSE "good")
    /\ Start(c, 0)
    /\ UNCHANGED <<tokens, sent, control, attempt, barred>>

NextAttempt(c) ==
    /\ attempt' = [attempt EXCEPT ![c] = @ + 1]
    /\ To(c, "head")

\* Mutant: Retry-After is not read.
HeaderIgnored(a) == 0

SecondsToWait(a) == IF a.status = 429 THEN a.retryAfter ELSE 0

RefusedForNow(c) ==
    /\ pc[c] = "flying"
    /\ \E a \in Answers :
         /\ Retried(c, a)
         /\ Logs(c, a)
         /\ barred' = [barred EXCEPT ![c] = IF a.status = 429 THEN a.retryAfter ELSE 0]
         /\ IF SecondsToWait(a) > 0
            THEN /\ To(c, "retry-after")
                 /\ Start(c, SecondsToWait(a))
                 /\ UNCHANGED attempt
            ELSE NextAttempt(c) /\ Start(c, 0)
    /\ UNCHANGED <<tokens, sent, control, result>>

RetryAfterOver(c) ==
    /\ pc[c] = "retry-after" /\ timer[c] = 0
    /\ NextAttempt(c)
    /\ UNCHANGED <<tokens, sent, control, timer, log, barred, result>>

RetryAfterCancelled(c) == ContextDone(c, "retry-after") /\ UNCHANGED tokens

\* Mutant: a POST is sent again.
PostSentAgain(c) == NextAttempt(c) /\ UNCHANGED result

\* What a request without an answer, or with half of one, leads to.
AfterLoss(c) ==
    IF op[c] \in POSTs THEN Finish(c, "refused") /\ UNCHANGED attempt
    ELSE NextAttempt(c) /\ UNCHANGED result

\* Mutant: a lost connection starts get anew.
LossStartsAnew(c) ==
    /\ pc[c] = "flying"
    /\ EnterGet(c)
    /\ Start(c, 0)
    /\ UNCHANGED <<tokens, sent, control>>

LosesAnswer(c) ==
    /\ pc[c] = "flying"
    /\ Logs(c, Lost)
    /\ AfterLoss(c)
    /\ Start(c, 0)
    /\ UNCHANGED <<tokens, sent, control, barred>>

-----------------------------------------------------------------------------
(* WaitForTransaction                                                      *)

NotThereYet(c) ==
    /\ pc[c] = "over" /\ ~Satisfied(c)
    /\ To(c, "poll")
    /\ Start(c, PollInterval)
    /\ UNCHANGED <<tokens, sent, control, attempt, log, barred, result>>

PollAgain(c) ==
    /\ pc[c] = "poll" /\ timer[c] = 0
    /\ EnterGet(c)
    /\ UNCHANGED <<tokens, sent, control, timer>>

PollCancelled(c) == pc[c] = "poll" /\ SeesContext(c) /\ Leave(c)

-----------------------------------------------------------------------------
(* Time                                                                    *)

Dec(n) == IF n = 0 THEN 0 ELSE n - 1

\* Nothing to do before time passes.  An exchange ends with its timeout at the
\* latest; a select or an exchange whose context is done ends at once.
Settled(c) ==
    \/ pc[c] \in {"idle", "limiter"}
    \/ pc[c] \in Waits /\ timer[c] > 0 /\ ~SeesContext(c)

Tick ==
    /\ \A c \in Callers : Settled(c)
    /\ tokens' = IF tokens < Rate THEN tokens + 1 ELSE tokens
    /\ sent' = [i \in 1..Rate |-> IF i = 1 THEN 0 ELSE sent[i - 1]]
    /\ timer' = [c \in Callers |-> Dec(timer[c])]
    /\ barred' = [c \in Callers |-> Dec(barred[c])]
    /\ UNCHANGED <<pc, op, attempt, cancelled, log, result>>

Advance(c) ==
    \/ LoopEnds(c) \/ FirstAttempt(c) \/ BackOff(c) \/ BackoffOver(c) \/ BackoffCancelled(c)
    \/ SendPost(c) \/ LimiterCancelled(c) \/ DeadlineTooNear(c) \/ Reserve(c)
    \/ ReservationCancelled(c) \/ Malformed(c) \/ Send(c)
    \/ Concludes(c) \/ RefusedForNow(c) \/ RetryAfterOver(c) \/ RetryAfterCancelled(c)
    \/ LosesAnswer(c) \/ NotThereYet(c) \/ PollAgain(c) \/ PollCancelled(c) \/ Return(c)

Begin(c) == \E o \in Operations : Get(c, o) \/ Post(c, o)

Next == Tick \/ \E c \in Callers : Begin(c) \/ Cancel(c) \/ Advance(c)

Spec == Init /\ [][Next]_vars

\* Time passes, and a goroutine that can run does.
FairSpec == Spec /\ SF_vars(Tick) /\ \A c \in Callers : WF_vars(Advance(c))

-----------------------------------------------------------------------------
(* Properties                                                              *)

(***************************************************************************)
(* What a GET promises, whatever the limiter, the headers and the polls do:*)
(* it sends again only after a lost answer, a 429 or a server error, no    *)
(* more than MaxRetries times, and it succeeds exactly on a 200 (get).     *)
(***************************************************************************)
Phase(c, ops) ==
    IF op[c] \notin ops \/ pc[c] = "poll" THEN "idle"
    ELSE CASE pc[c] = "flying" -> "flying"
           [] pc[c] = "over" -> "over"
           [] OTHER -> "busy"

Verdict(c, ops) ==
    IF Phase(c, ops) # "over" THEN "none"
    ELSE CASE result[c] \in {"good", "undecodable"} -> "good"
           [] result[c] = "refused" -> "refused"
           [] OTHER -> "error"

LogOf(c, ops) == IF Phase(c, ops) = "idle" THEN <<>> ELSE log[c]

Gets == INSTANCE RetriedCall WITH
    Answers <- Answers \cup {Lost},
    Good <- {a \in Answers : a.status = 200},
    Transient <- {Lost} \cup {a \in Answers : a.status = 429 \/ a.status >= 500},
    phase <- [c \in Callers |-> Phase(c, Operations \ POSTs)],
    log <- [c \in Callers |-> LogOf(c, Operations \ POSTs)],
    verdict <- [c \in Callers |-> Verdict(c, Operations \ POSTs)]

GetKeepsPromise == Gets!Spec

(***************************************************************************)
(* What a POST promises: one request, for the transaction of one that got  *)
(* lost may have been accepted, and success on 200, or on 201 for a        *)
(* transaction only (submitTransaction, GetStatePaths).                    *)
(***************************************************************************)
Submissions == INSTANCE RetriedCall WITH
    Answers <- Answers \cup {Lost},
    Good <- {a \in Answers : a.status \in {200, 201}},
    Transient <- {},
    MaxRetries <- 0,
    phase <- [c \in Callers |-> Phase(c, {"submit"})],
    log <- [c \in Callers |-> LogOf(c, {"submit"})],
    verdict <- [c \in Callers |-> Verdict(c, {"submit"})]

StatePaths == INSTANCE RetriedCall WITH
    Answers <- Answers \cup {Lost},
    Good <- {a \in Answers : a.status = 200},
    Transient <- {},
    MaxRetries <- 0,
    phase <- [c \in Callers |-> Phase(c, {"statepaths"})],
    log <- [c \in Callers |-> LogOf(c, {"statepaths"})],
    verdict <- [c \in Callers |-> Verdict(c, {"statepaths"})]

PostsKeepPromise == Submissions!Spec /\ StatePaths!Spec

(***************************************************************************)
(* All GETs together, retries and polls included, are no more in any time  *)
(* of up to a second than a full bucket and what flows back during it      *)
(* (WithRateLimit).                                                        *)
(***************************************************************************)
GetsLimited == \A i \in 1..Rate : sent[i] <= Rate + (i - 1)

(***************************************************************************)
(* "Honor Retry-After header on 429": no request of a call goes out before *)
(* the node's wait is over, however short the backoff is (get).            *)
(***************************************************************************)
RetryAfterHonoured ==
    [][\A c \in Callers : op[c] \notin POSTs /\ pc[c] = "reserved" /\ pc'[c] = "flying"
            => barred[c] = 0]_vars

(***************************************************************************)
(* A GET or POST returns, whatever the node answers and however many wait  *)
(* for the limiter.                                                        *)
(***************************************************************************)
CallsReturn ==
    \A c \in Callers : op[c] \in Getters \cup POSTs ~> op[c] = "none"

(***************************************************************************)
(* "until it is confirmed or the context is cancelled": the end of its     *)
(* context ends a poll, wherever in its GETs and waits it is.              *)
(***************************************************************************)
CancelReturns == \A c \in Callers : cancelled[c] ~> ~cancelled[c]

=============================================================================
