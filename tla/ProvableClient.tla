---------------------------- MODULE ProvableClient ----------------------------
(***************************************************************************)
(* The client of the delegated proving service (provable_client.go), shared*)
(* by the goroutines in Callers.  They share the JWT cache behind jwtMu and*)
(* the unguarded field proverBase; everything else belongs to one call.    *)
(*                                                                         *)
(* Time is relative: lifetimes and timers count down with Tick.  A caller  *)
(* at a local step (pc "send" or "seal") is not overtaken by the clock, and*)
(* neither is an exchange that is due to end: that is the timeout of the   *)
(* default http.Client, and the prompt return of http.Do and of select when*)
(* the context is done.                                                    *)
(***************************************************************************)
EXTENDS Naturals, Sequences

CONSTANTS
    Callers,      \* goroutines that share the client
    NoCaller,     \* jwtMu is free
    Provers,      \* base URLs, without their trailing slashes
    Torn,         \* what a read of proverBase in the middle of a write gives
    NoJWT,        \* nothing cached
    NoClaim,      \* a token from which no positive exp claim can be read
    NoKey,        \* no public key fetched for this attempt
    Issued,       \* tokens the service issues: [life, claim]
    Statuses,     \* HTTP statuses of the prover
    MaxRetries,   \* maxRetries
    BaseDelay,    \* baseDelay
    Timeout,      \* Timeout of the http.Client
    Buffer,       \* jwtBufferDuration
    Fallback      \* lifetime assumed for an opaque token: 1 hour

\* Duration of the wait before retry k.
Delay(k) == BaseDelay * 2^(k - 1)

ASSUME CallerAssumption == NoCaller \notin Callers
ASSUME TokenAssumption ==
    /\ Issued \subseteq [life : Nat, claim : Nat \cup {NoClaim}]
    /\ NoJWT \notin [life : Nat, exp : Nat]
ASSUME BaseAssumption == Torn \notin Provers
ASSUME KeyAssumption == NoKey \notin [prover : Provers \cup {Torn}, attempt : Nat]
ASSUME DurationAssumption ==
    /\ MaxRetries \in Nat /\ Timeout \in Nat /\ Buffer \in Nat /\ Fallback \in Nat
    /\ \A k \in 1..MaxRetries : Delay(k) \in Nat
ASSUME StatusAssumption == Statuses \subseteq Nat

VARIABLES
    jwtMu,        \* holder of jwtMu across a fetch, or NoCaller
    jwt,          \* jwt and jwtExp: what is left of the token, and of what is believed
    proverBase,   \* proverBase, Torn while it is being written
    pc,           \* where each caller is
    call,         \* the operation, its DPSPrivacy and the base URL it read
    bearer,       \* what is left of the token the call carries
    attempt,      \* loop counter of SubmitProvingRequestSafe
    timer,        \* what is left of the exchange or of the backoff
    key,          \* the public key the prover issued, and to which attempt
    cancelled,    \* the call's context is done
    log,          \* answers the prover gave to the call's requests
    result        \* what the call is about to return

shared == <<jwtMu, jwt, proverBase>>
vars == <<jwtMu, jwt, proverBase, pc, call, bearer, attempt, timer, key,
          cancelled, log, result>>

-----------------------------------------------------------------------------
(* Data                                                                    *)

Token == [life : Nat, exp : Nat]
Bases == Provers \cup {Torn}
Proving == {"submit", "withjwt"}        \* submit: SubmitProvingRequest, ...Safe, Prove
Ops == Proving \cup {"getjwt", "getkey"}
Calls == [op : Ops, private : BOOLEAN, to : Bases]
NoCall == [op |-> "none", private |-> FALSE, to |-> Torn]
Keys == [prover : Bases, attempt : Nat]
Answers == {a \in [status : Statuses, decodable : BOOLEAN] :
                a.decodable => a.status \in {200, 201}}
Kinds == {"none", "token", "key", "proof", "refused",
          "httpError", "transportError", "encodingError"}
Results == [kind : Kinds, status : Nat]
NoResult == [kind |-> "none", status |-> 0]
Failed(kind) == [kind |-> kind, status |-> 0]

Exchanges == {"fetch", "pubkey", "post"}
Waiting == Exchanges \cup {"backoff"}
Labels == Waiting \cup {"idle", "lock", "send", "seal", "done"}

\* The expiry a fresh token is believed to have.
ParseJWTExpiry(t) == IF t.claim = NoClaim THEN Fallback ELSE t.claim

\* Mutant: the cached token is used to its last moment.
ReusableWithoutBuffer(t) == t # NoJWT /\ t.exp > 0

\* The guard of the cache hit.
Reusable(t) == t # NoJWT /\ t.exp > Buffer

Dec(n) == IF n = 0 THEN 0 ELSE n - 1
Aged(t) == IF t = NoJWT THEN t ELSE [life |-> Dec(t.life), exp |-> Dec(t.exp)]

\* How the result of one submission reads: a proof or a refusal with its status.
\* The other kinds of results that are no success are Go errors.
HandleProvingResponse(a) ==
    IF a.decodable THEN [kind |-> "proof", status |-> 0]
                   ELSE [kind |-> "refused", status |-> a.status]

IsTransient(a) == ~a.decodable /\ a.status \in {500, 503}
RetriesExceeded == [kind |-> "refused", status |-> 503]

TypeOK ==
    /\ jwtMu \in Callers \cup {NoCaller}
    /\ jwt \in Token \cup {NoJWT}
    /\ proverBase \in Bases
    /\ pc \in [Callers -> Labels]
    /\ call \in [Callers -> Calls \cup {NoCall}]
    /\ bearer \in [Callers -> Nat]
    /\ attempt \in [Callers -> 0..MaxRetries]
    /\ timer \in [Callers -> Nat]
    /\ key \in [Callers -> Keys \cup {NoKey}]
    /\ cancelled \in [Callers -> BOOLEAN]
    /\ log \in [Callers -> Seq(Answers)]
    /\ result \in [Callers -> Results]

-----------------------------------------------------------------------------
(* Control                                                                 *)

\* NewProvableClient
Init ==
    /\ jwtMu = NoCaller
    /\ jwt = NoJWT
    /\ proverBase \in Provers
    /\ pc = [c \in Callers |-> "idle"]
    /\ call = [c \in Callers |-> NoCall]
    /\ bearer = [c \in Callers |-> 0]
    /\ attempt = [c \in Callers |-> 0]
    /\ timer = [c \in Callers |-> 0]
    /\ key = [c \in Callers |-> NoKey]
    /\ cancelled = [c \in Callers |-> FALSE]
    /\ log = [c \in Callers |-> <<>>]
    /\ result = [c \in Callers |-> NoResult]

Wait(c, label, duration) ==
    /\ pc' = [pc EXCEPT ![c] = label]
    /\ timer' = [timer EXCEPT ![c] = duration]

Goto(c, label) == Wait(c, label, 0)

\* The locals of the call are gone once its result is known.
Finish(c, r) ==
    /\ Goto(c, "done")
    /\ result' = [result EXCEPT ![c] = r]
    /\ bearer' = [bearer EXCEPT ![c] = 0]
    /\ attempt' = [attempt EXCEPT ![c] = 0]
    /\ key' = [key EXCEPT ![c] = NoKey]

\* The call goes on at label with the token, attempt and key it has.
GoOn(c, label) == Goto(c, label) /\ UNCHANGED <<bearer, attempt, key, result>>

\* A writer of proverBase in its first and in its second word.
SetProverURIBegins ==
    /\ proverBase # Torn
    /\ proverBase' = Torn
    /\ UNCHANGED <<jwtMu, jwt, pc, call, bearer, attempt, timer, key, cancelled, log, result>>

SetProverURIEnds ==
    /\ proverBase = Torn
    /\ proverBase' \in Provers
    /\ UNCHANGED <<jwtMu, jwt, pc, call, bearer, attempt, timer, key, cancelled, log, result>>

StartGetJWT(c) ==
    /\ pc[c] = "idle"
    /\ GoOn(c, "lock")
    /\ call' = [call EXCEPT ![c] = [op |-> "getjwt", private |-> FALSE, to |-> Torn]]
    /\ UNCHANGED <<shared, cancelled, log>>

\* The base URL is read, without a lock, before the JWT is asked for.
StartSubmit(c) ==
    /\ pc[c] = "idle"
    /\ GoOn(c, "lock")
    /\ \E private \in BOOLEAN, to \in Provers \cup {proverBase} :
         call' = [call EXCEPT ![c] = [op |-> "submit", private |-> private, to |-> to]]
    /\ UNCHANGED <<shared, cancelled, log>>

\* ProveWithJWT and GetPublicKey take the token from their caller.
StartWithToken(c) ==
    /\ pc[c] = "idle"
    /\ Goto(c, "send")
    /\ \E op \in {"withjwt", "getkey"} :
         call' = [call EXCEPT ![c] = [op |-> op, private |-> FALSE, to |-> proverBase]]
    /\ \E t \in Issued : bearer' = [bearer EXCEPT ![c] = t.life]
    /\ UNCHANGED <<shared, attempt, key, cancelled, log, result>>

Cancel(c) ==
    /\ pc[c] \notin {"idle", "done"}
    /\ ~cancelled[c]
    /\ cancelled' = [cancelled EXCEPT ![c] = TRUE]
    /\ UNCHANGED <<shared, pc, call, bearer, attempt, timer, key, log, result>>

\* What follows GetJWT: its return, or the first attempt.
HaveJWT(c, life) ==
    \/ /\ call[c].op = "getjwt"
       /\ Finish(c, [kind |-> "token", status |-> 0])
    \/ /\ call[c].op = "submit"
       /\ Goto(c, "send")
       /\ bearer' = [bearer EXCEPT ![c] = life]
       /\ UNCHANGED <<attempt, key, result>>

\* Mutant: GetJWT does not lock.
MutexIgnored == TRUE

MutexFree == jwtMu = NoCaller

JWTHit(c) ==
    /\ pc[c] = "lock"
    /\ MutexFree
    /\ Reusable(jwt)
    /\ HaveJWT(c, jwt.life)
    /\ UNCHANGED <<shared, call, cancelled, log>>

\* The mutex is held for as long as the exchange takes.
FetchJWT(c) ==
    /\ pc[c] = "lock"
    /\ MutexFree
    /\ ~Reusable(jwt)
    /\ ~cancelled[c]
    /\ jwtMu' = c
    /\ Wait(c, "fetch", Timeout)
    /\ UNCHANGED <<jwt, proverBase, call, bearer, attempt, key, cancelled, log, result>>

\* http.Do refuses a context that is done.
FetchRefused(c) ==
    /\ pc[c] = "lock"
    /\ MutexFree
    /\ ~Reusable(jwt)
    /\ cancelled[c]
    /\ Finish(c, Failed("transportError"))
    /\ UNCHANGED <<shared, call, cancelled, log>>

JWTArrives(c) ==
    /\ pc[c] = "fetch"
    /\ \E t \in Issued :
         /\ jwt' = [life |-> t.life, exp |-> ParseJWTExpiry(t)]
         /\ HaveJWT(c, t.life)
    /\ jwtMu' = NoCaller
    /\ UNCHANGED <<proverBase, call, cancelled, log>>

\* Every call of the loop body that asks for a key first.
NeedsKey(c) == call[c].private \/ call[c].op = "getkey"

SendPubkey(c) ==
    /\ pc[c] = "send"
    /\ NeedsKey(c)
    /\ ~cancelled[c]
    /\ Wait(c, "pubkey", Timeout)
    /\ UNCHANGED <<shared, call, bearer, attempt, key, cancelled, log, result>>

\* Mutant: the key is asked of the prover configured now.
KeyOfCurrentBase(c) == [prover |-> proverBase, attempt |-> attempt[c]]

KeyIssued(c) == [prover |-> call[c].to, attempt |-> attempt[c]]

PubkeyArrives(c) ==
    /\ pc[c] = "pubkey"
    /\ \/ /\ call[c].op = "getkey"
          /\ Finish(c, [kind |-> "key", status |-> 0])
       \/ /\ call[c].op = "submit"
          /\ Goto(c, "seal")
          /\ key' = [key EXCEPT ![c] = KeyIssued(c)]
          /\ UNCHANGED <<bearer, attempt, result>>
    /\ UNCHANGED <<shared, call, cancelled, log>>

\* Mutant: an error leaves GetJWT without unlocking.
StillLocked(c) == jwtMu

\* The deferred Unlock of GetJWT, on its way out of a failed fetch.
Unlocked(c) == IF pc[c] = "fetch" THEN NoCaller ELSE jwtMu

\* An error, or a status other than 200 (or 201, for a JWT).
ExchangeFails(c) ==
    /\ pc[c] \in {"fetch", "pubkey"}
    /\ \E kind \in {"httpError", "transportError"} : Finish(c, Failed(kind))
    /\ jwtMu' = Unlocked(c)
    /\ UNCHANGED <<jwt, proverBase, call, cancelled, log>>

\* json.Marshal, ProvingRequestToBytes or encryptProvingRequest fails.
EncodingFails(c) ==
    /\ \/ pc[c] = "send" /\ ~NeedsKey(c) /\ attempt[c] = 0
       \/ pc[c] = "seal"
    /\ Finish(c, Failed("encodingError"))
    /\ UNCHANGED <<shared, call, cancelled, log>>

Post(c) ==
    /\ \/ pc[c] = "send" /\ ~NeedsKey(c)
       \/ pc[c] = "seal"
    /\ ~cancelled[c]
    /\ Wait(c, "post", Timeout)
    /\ UNCHANGED <<shared, call, bearer, attempt, key, cancelled, log, result>>

SendRefused(c) ==
    /\ pc[c] \in {"send", "seal"}
    /\ cancelled[c]
    /\ Finish(c, Failed("transportError"))
    /\ UNCHANGED <<shared, call, cancelled, log>>

\* Mutants: the loop runs once more, or once less.
OneMoreAttempt(c) == attempt[c] <= MaxRetries
OneAttemptLess(c) == attempt[c] + 1 < MaxRetries

AttemptsLeft(c) == attempt[c] < MaxRetries

MayRetry(c, a) == call[c].op = "submit" /\ IsTransient(a)

\* continue, with attempts left: the wait at the head of the next iteration.
PostRetried(c) ==
    /\ pc[c] = "post"
    /\ AttemptsLeft(c)
    /\ \E a \in Answers :
         /\ MayRetry(c, a)
         /\ log' = [log EXCEPT ![c] = Append(@, a)]
    /\ attempt' = [attempt EXCEPT ![c] = @ + 1]
    /\ Wait(c, "backoff", Delay(attempt[c] + 1))
    /\ key' = [key EXCEPT ![c] = NoKey]
    /\ UNCHANGED <<shared, call, bearer, cancelled, result>>

\* continue, out of the loop; or the return of the answer.
PostConcluded(c) ==
    /\ pc[c] = "post"
    /\ \E a \in Answers :
         /\ MayRetry(c, a) => ~AttemptsLeft(c)
         /\ log' = [log EXCEPT ![c] = Append(@, a)]
         /\ Finish(c, IF MayRetry(c, a) THEN RetriesExceeded ELSE HandleProvingResponse(a))
    /\ UNCHANGED <<shared, call, cancelled>>

\* Mutant: a transport error is retried like a 503.
LostIsRetried(c) ==
    /\ pc[c] = "post"
    /\ AttemptsLeft(c)
    /\ attempt' = [attempt EXCEPT ![c] = @ + 1]
    /\ Wait(c, "backoff", Delay(attempt[c] + 1))
    /\ UNCHANGED <<shared, call, bearer, key, cancelled, log, result>>

\* The request or its answer is lost; the prover may have executed it.
PostLost(c) ==
    /\ pc[c] = "post"
    /\ Finish(c, Failed("transportError"))
    /\ UNCHANGED <<shared, call, cancelled, log>>

BackoffOver(c) ==
    /\ pc[c] = "backoff"
    /\ timer[c] = 0
    /\ GoOn(c, "send")
    /\ UNCHANGED <<shared, call, cancelled, log>>

BackoffCancelled(c) ==
    /\ pc[c] = "backoff"
    /\ cancelled[c]
    /\ Finish(c, Failed("transportError"))
    /\ UNCHANGED <<shared, call, cancelled, log>>

Return(c) ==
    /\ pc[c] = "done"
    /\ Goto(c, "idle")
    /\ call' = [call EXCEPT ![c] = NoCall]
    /\ cancelled' = [cancelled EXCEPT ![c] = FALSE]
    /\ log' = [log EXCEPT ![c] = <<>>]
    /\ result' = [result EXCEPT ![c] = NoResult]
    /\ UNCHANGED <<shared, bearer, attempt, key>>

\* An exchange or a wait that ends before time goes on.
Due(c) == pc[c] \in Waiting /\ (timer[c] = 0 \/ cancelled[c])

Tick ==
    /\ \A c \in Callers : pc[c] \notin {"send", "seal"} /\ ~Due(c)
    /\ jwt' = Aged(jwt)
    /\ bearer' = [c \in Callers |-> Dec(bearer[c])]
    /\ timer' = [c \in Callers |-> Dec(timer[c])]
    /\ UNCHANGED <<jwtMu, proverBase, pc, call, attempt, key, cancelled, log, result>>

Start(c) == StartGetJWT(c) \/ StartSubmit(c) \/ StartWithToken(c)
Acquire(c) == JWTHit(c) \/ FetchJWT(c) \/ FetchRefused(c)
Send(c) == SendPubkey(c) \/ EncodingFails(c) \/ Post(c) \/ SendRefused(c)
Give(c) == JWTArrives(c) \/ PubkeyArrives(c) \/ PostRetried(c) \/ PostConcluded(c)
Abandon(c) == ExchangeFails(c) \/ PostLost(c) \/ BackoffOver(c) \/ BackoffCancelled(c)

Next ==
    \/ \E c \in Callers :
        Start(c) \/ Cancel(c) \/ Acquire(c) \/ Send(c) \/ Give(c) \/ Abandon(c) \/ Return(c)
    \/ SetProverURIBegins
    \/ SetProverURIEnds
    \/ Tick

Spec == Init /\ [][Next]_vars

(***************************************************************************)
(* A goroutine runs on, sync.Mutex starves nobody, the clock goes on, and  *)
(* an exchange or a wait that is due ends.  Nothing obliges the service to *)
(* answer, or a caller to start or to cancel.                              *)
(***************************************************************************)
Fairness ==
    /\ SF_vars(Tick)
    /\ \A c \in Callers :
        /\ SF_vars(Acquire(c))
        /\ WF_vars(Send(c))
        /\ WF_vars(Due(c) /\ Abandon(c))
        /\ WF_vars(Return(c))

FairSpec == Spec /\ Fairness

-----------------------------------------------------------------------------
(* Properties                                                              *)

(***************************************************************************)
(* No caller asks for a JWT while the cached one is still good: whoever    *)
(* finds the cache stale re-checks it under the mutex, and the exchange of *)
(* another caller cannot have refilled it meanwhile (GetJWT).              *)
(***************************************************************************)
NoNeedlessFetch ==
    \A c \in Callers : pc[c] = "fetch" => jwtMu = c /\ ~Reusable(jwt)

(***************************************************************************)
(* A request is sealed with a key that the prover it goes to has issued to *)
(* this very attempt, however often SetProverURI or a retry intervenes     *)
(* (submitEncrypted).                                                      *)
(***************************************************************************)
KeyMatchesProver ==
    \A c \in Callers :
        pc[c] = "post" /\ call[c].private =>
            key[c] = [prover |-> call[c].to, attempt |-> attempt[c]]

(***************************************************************************)
(* A retrying call gives a refusal only for an answer that is no transient *)
(* failure, or when all its attempts were transient failures               *)
(* (SubmitProvingRequestSafe).                                             *)
(***************************************************************************)
RefusalIsEarned ==
    \A c \in Callers :
        result[c].kind = "refused" /\ call[c].op = "submit" =>
            \/ ~IsTransient(log[c][Len(log[c])])
            \/ /\ Len(log[c]) = MaxRetries + 1
               /\ \A i \in 1..Len(log[c]) : IsTransient(log[c][i])

\* The caller of an operation that fetches its own token sends its request.
SubmitsOwnToken(c) ==
    call[c].op = "submit" /\ pc[c] # "post" /\ pc'[c] = "post"

(***************************************************************************)
(* If tokens live as long as they are believed to and longer than Buffer,  *)
(* and an exchange takes no longer than Buffer, then the first submission  *)
(* of a call never carries an expired token, even when the token came from *)
(* the cache and a public key was fetched in between (jwtBufferDuration).  *)
(***************************************************************************)
FirstBearerAlive ==
    [][\A c \in Callers :
          SubmitsOwnToken(c) /\ attempt[c] = 0 => bearer[c] > 0]_vars

(***************************************************************************)
(* Every call returns, whatever the service does and whoever holds the     *)
(* mutex, because every exchange has a timeout: it is idle again and again.*)
(***************************************************************************)
CallsReturn == \A c \in Callers : []<>(pc[c] = "idle")

(***************************************************************************)
(* The comment of SubmitProvingRequestSafe: "Only transport/encoding errors*)
(* return a Go error".                                                     *)
(***************************************************************************)
OnlyTransportErrors ==
    \A c \in Callers : call[c].op = "submit" => result[c].kind # "httpError"

-----------------------------------------------------------------------------
(* What a call promises.  A call that only fetches a token or a key is     *)
(* idle to it.                                                             *)

Phase(c) ==
    IF call[c].op \notin Proving THEN "idle"
    ELSE CASE pc[c] = "post" -> "flying"
           [] pc[c] = "done" -> "over"
           [] OTHER -> "busy"

Verdict(c) ==
    IF Phase(c) # "over" THEN "none"
    ELSE CASE result[c].kind = "proof" -> "good"
           [] result[c].kind = "refused" -> "refused"
           [] OTHER -> "error"

Promise == INSTANCE RetriedCall WITH
    Good <- {a \in Answers : a.decodable},
    Transient <- {a \in Answers : IsTransient(a)},
    phase <- [c \in Callers |-> Phase(c)],
    verdict <- [c \in Callers |-> Verdict(c)]

(***************************************************************************)
(* Every call keeps the promise of RetriedCall: one request in flight, no  *)
(* more than MaxRetries resubmissions, each after an answer that invites   *)
(* it and none after a lost one, and a proof reported exactly when the last*)
(* answer carries it.                                                      *)
(***************************************************************************)
KeepsPromise == Promise!Spec

=============================================================================
