------------------------ MODULE ProvableClient_proofs ------------------------
(* Theorems about ProvableClient and their proofs. *)
EXTENDS ProvableClient, TLAPS

-----------------------------------------------------------------------------
(* Types                                                                   *)

LEMMA DataTypes ==
    /\ \A t \in Issued : [life |-> t.life, exp |-> ParseJWTExpiry(t)] \in Token
    /\ \A t \in Token \cup {NoJWT} : Aged(t) \in Token \cup {NoJWT}
    /\ \A n \in Nat : Dec(n) \in Nat
    /\ \A a \in Answers : HandleProvingResponse(a) \in Results
    /\ RetriesExceeded \in Results
    /\ \A kind \in Kinds : Failed(kind) \in Results
<1>1. \A n \in Nat : Dec(n) \in Nat
  BY DEF Dec
<1>2. \A t \in Issued : [life |-> t.life, exp |-> ParseJWTExpiry(t)] \in Token
  BY TokenAssumption, DurationAssumption DEF ParseJWTExpiry, Token
<1>3. \A t \in Token \cup {NoJWT} : Aged(t) \in Token \cup {NoJWT}
  BY <1>1 DEF Aged, Token
<1>4. \A a \in Answers : HandleProvingResponse(a) \in Results
  BY StatusAssumption DEF Answers, HandleProvingResponse, Kinds, Results
<1>5. /\ RetriesExceeded \in Results
      /\ \A kind \in Kinds : Failed(kind) \in Results
  BY DEF RetriesExceeded, Kinds, Results, Failed
<1>6. QED
  BY <1>1, <1>2, <1>3, <1>4, <1>5

\* What the operators that move a caller do to the types.
LEMMA WaitTypes ==
    ASSUME TypeOK, NEW c \in Callers, NEW label \in Labels, NEW d \in Nat,
           Wait(c, label, d)
    PROVE  pc' \in [Callers -> Labels] /\ timer' \in [Callers -> Nat]
BY DEF TypeOK, Wait

LEMMA GotoTypes ==
    ASSUME TypeOK, NEW c \in Callers, NEW label \in Labels, Goto(c, label)
    PROVE  pc' \in [Callers -> Labels] /\ timer' \in [Callers -> Nat]
BY DEF TypeOK, Goto, Wait

LocalsTyped ==
    /\ pc \in [Callers -> Labels]
    /\ bearer \in [Callers -> Nat]
    /\ attempt \in [Callers -> 0..MaxRetries]
    /\ timer \in [Callers -> Nat]
    /\ key \in [Callers -> Keys \cup {NoKey}]
    /\ result \in [Callers -> Results]

LEMMA FinishTypes ==
    ASSUME TypeOK, NEW c \in Callers, NEW r \in Results, Finish(c, r)
    PROVE  LocalsTyped'
<1>1. "done" \in Labels
  BY DEF Labels
<1>2. pc' \in [Callers -> Labels] /\ timer' \in [Callers -> Nat]
  BY <1>1, GotoTypes DEF Finish
<1>3. 0 \in 0..MaxRetries
  BY DurationAssumption
<1>4. QED
  BY <1>2, <1>3 DEF TypeOK, Finish, LocalsTyped

LEMMA GoOnTypes ==
    ASSUME TypeOK, NEW c \in Callers, NEW label \in Labels, GoOn(c, label)
    PROVE  LocalsTyped'
BY GotoTypes DEF TypeOK, GoOn, LocalsTyped

LEMMA HaveJWTTypes ==
    ASSUME TypeOK, NEW c \in Callers, NEW life \in Nat, HaveJWT(c, life)
    PROVE  LocalsTyped'
<1>1. CASE call[c].op = "getjwt" /\ Finish(c, [kind |-> "token", status |-> 0])
  <2>1. [kind |-> "token", status |-> 0] \in Results
    BY DEF Results, Kinds
  <2>2. QED
    BY <1>1, <2>1, FinishTypes
<1>2. CASE /\ Goto(c, "send")
           /\ bearer' = [bearer EXCEPT ![c] = life]
           /\ UNCHANGED <<attempt, key, result>>
  <2>1. "send" \in Labels
    BY DEF Labels
  <2>2. QED
    BY <1>2, <2>1, GotoTypes DEF TypeOK, LocalsTyped
<1>3. QED
  BY <1>1, <1>2 DEF HaveJWT

\* Every variable keeps its type (TypeOK), for any number of callers and retries.
THEOREM TypeCorrect == Spec => []TypeOK
<1>1. Init => TypeOK
  BY DurationAssumption
     DEF Init, TypeOK, Bases, NoCall, NoResult, Kinds, Results, Labels
<1>2. ASSUME TypeOK, [Next]_vars
      PROVE  TypeOK'
  <2> USE <1>2
  <2> USE DEF TypeOK, shared
  <2>1. CASE SetProverURIBegins \/ SetProverURIEnds
    BY <2>1 DEF SetProverURIBegins, SetProverURIEnds, Bases
  <2>2. CASE Tick
    BY <2>2, DataTypes DEF Tick
  <2>3. CASE UNCHANGED vars
    BY <2>3 DEF vars
  <2>4. Labels = {"fetch", "pubkey", "post", "backoff", "idle", "lock", "send", "seal", "done"}
    BY DEF Labels, Waiting, Exchanges
  <2>5. {"httpError", "transportError", "encodingError"} \subseteq Kinds
    BY DEF Kinds
  <2>6. ASSUME NEW c \in Callers, Start(c)
        PROVE  TypeOK'
    <3>1. CASE StartGetJWT(c)
      BY <2>4, <3>1, GoOnTypes DEF StartGetJWT, LocalsTyped, Calls, Ops, Bases
    <3>2. CASE StartSubmit(c)
      <4>1. call' \in [Callers -> Calls \cup {NoCall}]
        <5>1. PICK private \in BOOLEAN, to \in Provers \cup {proverBase} :
                call' = [call EXCEPT ![c] = [op |-> "submit", private |-> private, to |-> to]]
          BY <3>2 DEF StartSubmit
        <5>2. [op |-> "submit", private |-> private, to |-> to] \in Calls
          BY DEF Calls, Ops, Proving, Bases
        <5>3. QED
          BY <5>1, <5>2
      <4>2. LocalsTyped'
        BY <2>4, <3>2, GoOnTypes DEF StartSubmit
      <4>3. QED
        BY <3>2, <4>1, <4>2 DEF StartSubmit, LocalsTyped
    <3>3. CASE StartWithToken(c)
      BY <2>4, <3>3, GotoTypes, TokenAssumption DEF StartWithToken, Calls, Ops, Proving
    <3>4. QED
      BY <2>6, <3>1, <3>2, <3>3 DEF Start
  <2>7. ASSUME NEW c \in Callers, Acquire(c)
        PROVE  TypeOK'
    <3>1. CASE JWTHit(c)
      <4>1. jwt.life \in Nat
        BY <3>1 DEF JWTHit, Reusable, Token
      <4>2. LocalsTyped'
        BY <3>1, <4>1, HaveJWTTypes DEF JWTHit
      <4>3. QED
        BY <3>1, <4>2 DEF JWTHit, LocalsTyped
    <3>2. CASE FetchJWT(c)
      BY <2>4, <3>2, WaitTypes, DurationAssumption DEF FetchJWT
    <3>3. CASE FetchRefused(c)
      BY <2>5, <3>3, FinishTypes, DataTypes DEF FetchRefused, LocalsTyped
    <3>4. QED
      BY <2>7, <3>1, <3>2, <3>3 DEF Acquire
  <2>8. ASSUME NEW c \in Callers, Send(c)
        PROVE  TypeOK'
    <3>1. CASE SendPubkey(c) \/ Post(c)
      BY <2>4, <3>1, WaitTypes, DurationAssumption DEF SendPubkey, Post
    <3>2. CASE EncodingFails(c) \/ SendRefused(c)
      <4>1. LocalsTyped'
        BY <2>5, <3>2, FinishTypes, DataTypes DEF EncodingFails, SendRefused
      <4>2. QED
        BY <3>2, <4>1 DEF EncodingFails, SendRefused, LocalsTyped
    <3>3. QED
      BY <2>8, <3>1, <3>2 DEF Send
  <2>9. ASSUME NEW c \in Callers, Give(c)
        PROVE  TypeOK'
    <3>1. CASE JWTArrives(c)
      <4>1. PICK t \in Issued : /\ jwt' = [life |-> t.life, exp |-> ParseJWTExpiry(t)]
                                /\ HaveJWT(c, t.life)
        BY <3>1 DEF JWTArrives
      <4>2. t.life \in Nat
        BY TokenAssumption
      <4>3. LocalsTyped'
        BY <4>1, <4>2, HaveJWTTypes
      <4>4. jwt' \in Token
        BY <4>1, DataTypes
      <4>5. QED
        BY <3>1, <4>3, <4>4 DEF JWTArrives, LocalsTyped
    <3>2. CASE PubkeyArrives(c)
      <4>1. CASE Finish(c, [kind |-> "key", status |-> 0])
        <5>1. [kind |-> "key", status |-> 0] \in Results
          BY DEF Results, Kinds
        <5>2. QED
          BY <3>2, <4>1, <5>1, FinishTypes DEF PubkeyArrives, LocalsTyped
      <4>2. CASE /\ call[c].op = "submit"
                 /\ Goto(c, "seal")
                 /\ key' = [key EXCEPT ![c] = KeyIssued(c)]
                 /\ UNCHANGED <<bearer, attempt, result>>
        <5>1. KeyIssued(c) \in Keys
          BY <4>2 DEF KeyIssued, Keys, NoCall, Calls
        <5>2. QED
          BY <2>4, <3>2, <4>2, <5>1, GotoTypes DEF PubkeyArrives
      <4>3. QED
        BY <3>2, <4>1, <4>2 DEF PubkeyArrives
    <3>3. CASE PostRetried(c)
      <4>1. attempt[c] + 1 \in 1..MaxRetries
        BY <3>3, DurationAssumption DEF PostRetried, AttemptsLeft
      <4>2. pc' \in [Callers -> Labels] /\ timer' \in [Callers -> Nat]
        BY <2>4, <3>3, <4>1, WaitTypes, DurationAssumption DEF PostRetried
      <4>3. log' \in [Callers -> Seq(Answers)]
        BY <3>3 DEF PostRetried
      <4>4. attempt' \in [Callers -> 0..MaxRetries]
        BY <3>3, <4>1, DurationAssumption DEF PostRetried
      <4>5. QED
        BY <3>3, <4>2, <4>3, <4>4 DEF PostRetried
    <3>4. CASE PostConcluded(c)
      <4>1. PICK a \in Answers :
              /\ log' = [log EXCEPT ![c] = Append(@, a)]
              /\ Finish(c, IF MayRetry(c, a) THEN RetriesExceeded
                                             ELSE HandleProvingResponse(a))
        BY <3>4 DEF PostConcluded
      <4>2. (IF MayRetry(c, a) THEN RetriesExceeded ELSE HandleProvingResponse(a)) \in Results
        BY DataTypes
      <4>3. LocalsTyped'
        BY <4>1, <4>2, FinishTypes
      <4>4. log' \in [Callers -> Seq(Answers)]
        BY <4>1
      <4>5. QED
        BY <3>4, <4>3, <4>4 DEF PostConcluded, LocalsTyped
    <3>5. QED
      BY <2>9, <3>1, <3>2, <3>3, <3>4 DEF Give
  <2>10. ASSUME NEW c \in Callers, Abandon(c)
         PROVE  TypeOK'
    <3>1. CASE BackoffOver(c)
      BY <2>4, <3>1, GoOnTypes DEF BackoffOver, LocalsTyped
    <3>2. CASE PostLost(c) \/ BackoffCancelled(c)
      <4>1. LocalsTyped'
        BY <2>5, <3>2, FinishTypes, DataTypes DEF PostLost, BackoffCancelled
      <4>2. QED
        BY <3>2, <4>1 DEF PostLost, BackoffCancelled, LocalsTyped
    <3>3. CASE ExchangeFails(c)
      <4>1. LocalsTyped'
        BY <2>5, <3>3, FinishTypes, DataTypes DEF ExchangeFails
      <4>2. QED
        BY <3>3, <4>1 DEF ExchangeFails, Unlocked, LocalsTyped
    <3>4. QED
      BY <2>10, <3>1, <3>2, <3>3 DEF Abandon
  <2>11. ASSUME NEW c \in Callers, Cancel(c) \/ Return(c)
         PROVE  TypeOK'
    <3>1. CASE Cancel(c)
      BY <3>1 DEF Cancel
    <3>2. CASE Return(c)
      <4>1. NoResult \in Results
        BY DEF NoResult, Results, Kinds
      <4>2. pc' \in [Callers -> Labels] /\ timer' \in [Callers -> Nat]
        BY <2>4, <3>2, GotoTypes DEF Return
      <4>3. /\ call' \in [Callers -> Calls \cup {NoCall}]
            /\ cancelled' \in [Callers -> BOOLEAN]
            /\ log' \in [Callers -> Seq(Answers)]
            /\ result' \in [Callers -> Results]
        BY <3>2, <4>1 DEF Return
      <4>4. QED
        BY <3>2, <4>2, <4>3 DEF Return
    <3>3. QED
      BY <2>11, <3>1, <3>2
  <2>12. QED
    BY <2>1, <2>2, <2>3, <2>6, <2>7, <2>8, <2>9, <2>10, <2>11 DEF Next
<1>3. QED
  BY <1>1, <1>2, PTL DEF Spec

-----------------------------------------------------------------------------
(* The mutex and the cache                                                 *)

\* A caller inside the fetch holds jwtMu and nothing reusable is cached: the
\* exchange of one caller never repeats what another has just fetched (GetJWT).
THEOREM FetchIsNeeded == Spec => []NoNeedlessFetch
<1>1. Init => NoNeedlessFetch
  BY DEF Init, NoNeedlessFetch
<1>2. ASSUME TypeOK, NoNeedlessFetch, [Next]_vars
      PROVE  NoNeedlessFetch'
  <2> USE <1>2
  <2> USE DEF NoNeedlessFetch, TypeOK, shared
  <2>1. CASE SetProverURIBegins \/ SetProverURIEnds \/ UNCHANGED vars
    BY <2>1 DEF SetProverURIBegins, SetProverURIEnds, vars
  <2>2. CASE Tick
    <3>1. Reusable(Aged(jwt)) => Reusable(jwt)
      BY DurationAssumption DEF Reusable, Aged, Dec, Token
    <3>2. QED
      BY <2>2, <3>1 DEF Tick
  <2>3. ASSUME NEW c \in Callers, NEW label, label # "fetch",
               pc' = [pc EXCEPT ![c] = label], UNCHANGED <<jwtMu, jwt>>
        PROVE  NoNeedlessFetch'
    BY <2>3
  <2>4. ASSUME NEW c \in Callers, Start(c) \/ Return(c)
        PROVE  NoNeedlessFetch'
    BY <2>3, <2>4 DEF Start, StartGetJWT, StartSubmit, StartWithToken, Return, GoOn, Goto, Wait
  <2>5. ASSUME NEW c \in Callers, Acquire(c)
        PROVE  NoNeedlessFetch'
    <3>1. CASE JWTHit(c) \/ FetchRefused(c)
      BY <2>3, <3>1 DEF JWTHit, FetchRefused, HaveJWT, Finish, Goto, Wait
    <3>2. CASE FetchJWT(c)
      BY <3>2, CallerAssumption DEF FetchJWT, Wait, MutexFree
    <3>3. QED
      BY <2>5, <3>1, <3>2 DEF Acquire
  <2>6. ASSUME NEW c \in Callers, Send(c)
        PROVE  NoNeedlessFetch'
    BY <2>3, <2>6 DEF Send, SendPubkey, EncodingFails, Post, SendRefused, Finish, Goto, Wait
  <2>7. ASSUME NEW c \in Callers, Give(c)
        PROVE  NoNeedlessFetch'
    <3>1. CASE JWTArrives(c)
      <4>1. \A d \in Callers : pc'[d] # "fetch"
        BY <3>1 DEF JWTArrives, HaveJWT, Finish, Goto, Wait
      <4>2. QED
        BY <4>1
    <3>2. CASE PubkeyArrives(c)
      BY <2>3, <3>2 DEF PubkeyArrives, Finish, Goto, Wait
    <3>3. CASE PostRetried(c)
      BY <2>3, <3>3 DEF PostRetried, Wait
    <3>4. CASE PostConcluded(c)
      BY <2>3, <3>4 DEF PostConcluded, Finish, Goto, Wait
    <3>5. QED
      BY <2>7, <3>1, <3>2, <3>3, <3>4 DEF Give
  <2>8. ASSUME NEW c \in Callers, Abandon(c)
        PROVE  NoNeedlessFetch'
    <3>1. CASE ExchangeFails(c) /\ pc[c] = "fetch"
      <4>1. \A d \in Callers : pc'[d] # "fetch"
        BY <3>1 DEF ExchangeFails, Finish, Goto, Wait
      <4>2. QED
        BY <4>1
    <3>2. CASE ExchangeFails(c) /\ pc[c] # "fetch"
      BY <2>3, <3>2 DEF ExchangeFails, Unlocked, Finish, Goto, Wait
    <3>3. CASE PostLost(c) \/ BackoffOver(c) \/ BackoffCancelled(c)
      BY <2>3, <3>3 DEF PostLost, BackoffOver, BackoffCancelled, GoOn, Finish, Goto, Wait
    <3>4. QED
      BY <2>8, <3>1, <3>2, <3>3 DEF Abandon
  <2>9. ASSUME NEW c \in Callers, Cancel(c)
        PROVE  NoNeedlessFetch'
    BY <2>9 DEF Cancel
  <2>10. QED
    BY <2>1, <2>2, <2>4, <2>5, <2>6, <2>7, <2>8, <2>9 DEF Next
<1>3. QED
  BY <1>1, <1>2, TypeCorrect, PTL DEF Spec

-----------------------------------------------------------------------------
(* The public key                                                          *)

\* The key that a sealed request is waiting to be sent, or is sent, with.
SealedWithOwnKey ==
    \A c \in Callers :
        pc[c] = "seal" \/ (pc[c] = "post" /\ call[c].private) => key[c] = KeyIssued(c)

\* A sealed request carries the key that the prover it goes to issued to this
\* attempt, however the base URL changes meanwhile (submitEncrypted).
THEOREM KeyCorrect == Spec => []KeyMatchesProver
<1>1. Init => SealedWithOwnKey
  BY DEF Init, SealedWithOwnKey
<1>2. ASSUME TypeOK, SealedWithOwnKey, [Next]_vars
      PROVE  SealedWithOwnKey'
  <2> USE <1>2
  <2> USE DEF SealedWithOwnKey, TypeOK, KeyIssued
  <2>1. CASE SetProverURIBegins \/ SetProverURIEnds \/ Tick \/ UNCHANGED vars
    BY <2>1 DEF SetProverURIBegins, SetProverURIEnds, Tick, vars
  <2>2. ASSUME NEW c \in Callers, NEW label, label \notin {"seal", "post"},
               pc' = [pc EXCEPT ![c] = label],
               \A d \in Callers \ {c} : /\ call'[d] = call[d]
                                        /\ key'[d] = key[d]
                                        /\ attempt'[d] = attempt[d]
        PROVE  SealedWithOwnKey'
    BY <2>2
  <2>3. ASSUME NEW c \in Callers, NEW r, Finish(c, r), UNCHANGED call
        PROVE  SealedWithOwnKey'
    BY <2>2, <2>3 DEF Finish, Goto, Wait
  <2>4. ASSUME NEW c \in Callers, Start(c) \/ Return(c)
        PROVE  SealedWithOwnKey'
    BY <2>2, <2>4 DEF Start, StartGetJWT, StartSubmit, StartWithToken, Return, GoOn, Goto, Wait
  <2>5. ASSUME NEW c \in Callers, Acquire(c)
        PROVE  SealedWithOwnKey'
    BY <2>2, <2>3, <2>5
       DEF Acquire, JWTHit, FetchJWT, FetchRefused, HaveJWT, Goto, Wait
  <2>6. ASSUME NEW c \in Callers, Send(c)
        PROVE  SealedWithOwnKey'
    <3>1. CASE SendPubkey(c)
      BY <2>2, <3>1 DEF SendPubkey, Wait
    <3>2. CASE EncodingFails(c) \/ SendRefused(c)
      BY <2>3, <3>2 DEF EncodingFails, SendRefused
    <3>3. CASE Post(c)
      BY <3>3 DEF Post, NeedsKey, Wait
    <3>4. QED
      BY <2>6, <3>1, <3>2, <3>3 DEF Send
  <2>7. ASSUME NEW c \in Callers, Give(c)
        PROVE  SealedWithOwnKey'
    <3>1. CASE JWTArrives(c)
      BY <2>2, <2>3, <3>1 DEF JWTArrives, HaveJWT, Goto, Wait
    <3>2. CASE PubkeyArrives(c)
      <4>1. CASE Finish(c, [kind |-> "key", status |-> 0])
        BY <2>3, <3>2, <4>1 DEF PubkeyArrives
      <4>2. CASE /\ pc' = [pc EXCEPT ![c] = "seal"]
                 /\ key' = [key EXCEPT ![c] = KeyIssued(c)]
                 /\ UNCHANGED <<attempt, call>>
        <5>1. key'[c] = KeyIssued(c)'
          BY <4>2
        <5>2. ASSUME NEW d \in Callers \ {c}
              PROVE  /\ pc'[d] = pc[d] /\ key'[d] = key[d]
                     /\ KeyIssued(d)' = KeyIssued(d)
          BY <4>2
        <5>3. QED
          BY <4>2, <5>1, <5>2
      <4>3. QED
        BY <3>2, <4>1, <4>2 DEF PubkeyArrives, Goto, Wait
    <3>3. CASE PostRetried(c)
      BY <2>2, <3>3 DEF PostRetried, Wait
    <3>4. CASE PostConcluded(c)
      BY <2>3, <3>4 DEF PostConcluded
    <3>5. QED
      BY <2>7, <3>1, <3>2, <3>3, <3>4 DEF Give
  <2>8. ASSUME NEW c \in Callers, Abandon(c)
        PROVE  SealedWithOwnKey'
    BY <2>2, <2>3, <2>8
       DEF Abandon, ExchangeFails, PostLost, BackoffOver, BackoffCancelled, GoOn, Goto, Wait
  <2>9. ASSUME NEW c \in Callers, Cancel(c)
        PROVE  SealedWithOwnKey'
    BY <2>9 DEF Cancel
  <2>10. QED
    BY <2>1, <2>4, <2>5, <2>6, <2>7, <2>8, <2>9 DEF Next
<1>3. SealedWithOwnKey => KeyMatchesProver
  BY DEF SealedWithOwnKey, KeyMatchesProver, KeyIssued
<1>4. QED
  BY <1>1, <1>2, <1>3, TypeCorrect, PTL DEF Spec

-----------------------------------------------------------------------------
(* The token of a first submission                                         *)

\* Tokens outlive the buffer and what is believed of them, and an exchange fits
\* in the buffer: 5 minutes each in the code, when the default http.Client is used.
Honest ==
    /\ \A t \in Issued : ParseJWTExpiry(t) <= t.life /\ t.life > Buffer
    /\ Timeout <= Buffer

\* The cached token is no more than it is believed to be, and the token of a first
\* attempt has lost no more of the buffer than the exchange of the key has taken.
TokenLastsLongEnough ==
    /\ jwt # NoJWT => jwt.exp <= jwt.life
    /\ \A c \in Callers :
         /\ pc[c] = "backoff" => attempt[c] > 0
         /\ call[c].op = "submit" /\ attempt[c] = 0 =>
              /\ pc[c] = "send" => bearer[c] > Buffer
              /\ pc[c] \in {"pubkey", "seal"} => bearer[c] + Timeout > Buffer + timer[c]

LEMMA TokenLastsLongEnoughInv ==
    ASSUME Honest, TypeOK, TokenLastsLongEnough, [Next]_vars
    PROVE  TokenLastsLongEnough'
<1> USE DurationAssumption
<1> USE DEF TokenLastsLongEnough, TypeOK, shared
<1>1. CASE SetProverURIBegins \/ SetProverURIEnds \/ UNCHANGED vars
  BY <1>1 DEF SetProverURIBegins, SetProverURIEnds, vars
<1>2. CASE Tick
  <2>1. jwt' # NoJWT => jwt'.exp <= jwt'.life
    BY <1>2 DEF Tick, Aged, Dec, Token
  <2>2. ASSUME NEW c \in Callers, call[c].op = "submit", attempt[c] = 0,
               pc[c] \in {"send", "pubkey", "seal"}
        PROVE  /\ pc[c] = "pubkey"
               /\ bearer'[c] + Timeout > Buffer + timer'[c]
    <3>1. pc[c] = "pubkey" /\ timer[c] > 0
      BY <1>2, <2>2 DEF Tick, Due, Waiting, Exchanges
    <3>2. bearer[c] > 0
      BY <2>2, <3>1 DEF Honest
    <3>3. bearer'[c] = bearer[c] - 1 /\ timer'[c] = timer[c] - 1
      BY <1>2, <3>1, <3>2 DEF Tick, Dec
    <3>4. QED
      BY <2>2, <3>1, <3>2, <3>3
  <2>3. UNCHANGED <<pc, call, attempt>>
    BY <1>2 DEF Tick
  <2>4. QED
    BY <2>1, <2>2, <2>3
\* A caller that moves to a place of no interest, or keeps what matters there.
<1>3. ASSUME NEW c \in Callers, NEW label, label \notin {"send", "pubkey", "seal", "backoff"},
             pc' = [pc EXCEPT ![c] = label],
             jwt' = jwt \/ (jwt' # NoJWT => jwt'.exp <= jwt'.life),
             \A d \in Callers \ {c} : /\ call'[d] = call[d]
                                      /\ bearer'[d] = bearer[d]
                                      /\ attempt'[d] = attempt[d]
                                      /\ timer'[d] = timer[d]
      PROVE  TokenLastsLongEnough'
  BY <1>3
<1>4. ASSUME NEW c \in Callers, NEW r, Finish(c, r), UNCHANGED call,
             jwt' = jwt \/ (jwt' # NoJWT => jwt'.exp <= jwt'.life)
      PROVE  TokenLastsLongEnough'
  BY <1>3, <1>4 DEF Finish, Goto, Wait
<1>5. ASSUME NEW c \in Callers, Start(c) \/ Return(c)
      PROVE  TokenLastsLongEnough'
  <2>1. CASE StartGetJWT(c)
    BY <1>3, <2>1 DEF StartGetJWT, GoOn, Goto, Wait
  <2>2. CASE StartSubmit(c)
    BY <1>3, <2>2 DEF StartSubmit, GoOn, Goto, Wait
  <2>3. CASE StartWithToken(c)
    BY <2>3 DEF StartWithToken, Goto, Wait
  <2>4. CASE Return(c)
    BY <1>3, <2>4 DEF Return, Goto, Wait
  <2>5. QED
    BY <1>5, <2>1, <2>2, <2>3, <2>4 DEF Start
<1>6. ASSUME NEW c \in Callers, NEW life \in Nat, life > Buffer, HaveJWT(c, life),
             UNCHANGED call, jwt' = jwt \/ (jwt' # NoJWT => jwt'.exp <= jwt'.life)
      PROVE  TokenLastsLongEnough'
  <2>1. CASE Finish(c, [kind |-> "token", status |-> 0])
    BY <1>4, <1>6, <2>1
  <2>2. CASE /\ pc' = [pc EXCEPT ![c] = "send"]
             /\ timer' = [timer EXCEPT ![c] = 0]
             /\ bearer' = [bearer EXCEPT ![c] = life]
             /\ UNCHANGED attempt
    BY <1>6, <2>2
  <2>3. QED
    BY <1>6, <2>1, <2>2 DEF HaveJWT, Goto, Wait
<1>7. ASSUME NEW c \in Callers, Acquire(c)
      PROVE  TokenLastsLongEnough'
  <2>1. CASE JWTHit(c)
    <3>1. jwt.life \in Nat /\ jwt.life > Buffer
      BY <2>1 DEF JWTHit, Reusable, Token
    <3>2. QED
      BY <1>6, <2>1, <3>1 DEF JWTHit
  <2>2. CASE FetchJWT(c)
    BY <1>3, <2>2 DEF FetchJWT, Wait
  <2>3. CASE FetchRefused(c)
    BY <1>4, <2>3 DEF FetchRefused
  <2>4. QED
    BY <1>7, <2>1, <2>2, <2>3 DEF Acquire
<1>8. ASSUME NEW c \in Callers, Send(c)
      PROVE  TokenLastsLongEnough'
  <2>1. CASE SendPubkey(c)
    <3>1. /\ pc' = [pc EXCEPT ![c] = "pubkey"]
          /\ timer' = [timer EXCEPT ![c] = Timeout]
          /\ pc[c] = "send"
          /\ UNCHANGED <<jwt, call, bearer, attempt>>
      BY <2>1 DEF SendPubkey, Wait
    <3>2. QED
      BY <3>1
  <2>2. CASE EncodingFails(c) \/ SendRefused(c)
    BY <1>4, <2>2 DEF EncodingFails, SendRefused
  <2>3. CASE Post(c)
    BY <1>3, <2>3 DEF Post, Wait
  <2>4. QED
    BY <1>8, <2>1, <2>2, <2>3 DEF Send
<1>9. ASSUME NEW c \in Callers, Give(c)
      PROVE  TokenLastsLongEnough'
  <2>1. CASE JWTArrives(c)
    <3>1. PICK t \in Issued : /\ jwt' = [life |-> t.life, exp |-> ParseJWTExpiry(t)]
                              /\ HaveJWT(c, t.life)
      BY <2>1 DEF JWTArrives
    <3>2. t.life \in Nat /\ t.life > Buffer /\ jwt'.exp <= jwt'.life
      BY <3>1, TokenAssumption DEF Honest
    <3>3. QED
      BY <1>6, <2>1, <3>1, <3>2 DEF JWTArrives
  <2>2. CASE PubkeyArrives(c)
    <3>1. CASE Finish(c, [kind |-> "key", status |-> 0])
      BY <1>4, <2>2, <3>1 DEF PubkeyArrives
    <3>2. CASE /\ pc' = [pc EXCEPT ![c] = "seal"]
               /\ timer' = [timer EXCEPT ![c] = 0]
               /\ UNCHANGED <<bearer, attempt, jwt, call>>
      BY <2>2, <3>2 DEF PubkeyArrives
    <3>3. QED
      BY <2>2, <3>1, <3>2 DEF PubkeyArrives, Goto, Wait
  <2>3. CASE PostRetried(c)
    BY <2>3 DEF PostRetried, Wait
  <2>4. CASE PostConcluded(c)
    BY <1>4, <2>4 DEF PostConcluded
  <2>5. QED
    BY <1>9, <2>1, <2>2, <2>3, <2>4 DEF Give
<1>10. ASSUME NEW c \in Callers, Abandon(c)
       PROVE  TokenLastsLongEnough'
  <2>1. CASE BackoffOver(c)
    BY <2>1 DEF BackoffOver, GoOn, Goto, Wait
  <2>2. CASE ExchangeFails(c) \/ PostLost(c) \/ BackoffCancelled(c)
    BY <1>4, <2>2 DEF ExchangeFails, PostLost, BackoffCancelled
  <2>3. QED
    BY <1>10, <2>1, <2>2 DEF Abandon
<1>11. ASSUME NEW c \in Callers, Cancel(c)
       PROVE  TokenLastsLongEnough'
  BY <1>11 DEF Cancel
<1>12. QED
  BY <1>1, <1>2, <1>5, <1>7, <1>8, <1>9, <1>10, <1>11 DEF Next

\* With honest tokens the first submission of a call never carries an expired
\* token: the point of refreshing jwtBufferDuration early (GetJWT).
THEOREM FirstBearer == ASSUME Honest PROVE Spec => FirstBearerAlive
<1>1. Init => TokenLastsLongEnough
  BY DEF Init, TokenLastsLongEnough
<1>2. TypeOK /\ TokenLastsLongEnough /\ [Next]_vars => TokenLastsLongEnough'
  BY TokenLastsLongEnoughInv
<1>3. ASSUME TypeOK, TokenLastsLongEnough, [Next]_vars
      PROVE  [\A c \in Callers : SubmitsOwnToken(c) /\ attempt[c] = 0 => bearer[c] > 0]_vars
  <2>1. SUFFICES ASSUME Next, NEW c \in Callers, SubmitsOwnToken(c), attempt[c] = 0
                 PROVE  bearer[c] > 0
    BY <1>3
  <2>2. \A d \in Callers : \A label : pc' = [pc EXCEPT ![d] = label] => d = c /\ label = "post"
    BY <1>3, <2>1 DEF SubmitsOwnToken, TypeOK
  <2>3. pc' # pc
    BY <2>1 DEF SubmitsOwnToken
  <2>4. ~Tick /\ ~SetProverURIBegins /\ ~SetProverURIEnds
    BY <2>3 DEF Tick, SetProverURIBegins, SetProverURIEnds
  <2>5. PICK d \in Callers :
          Start(d) \/ Cancel(d) \/ Acquire(d) \/ Send(d) \/ Give(d) \/ Abandon(d) \/ Return(d)
    BY <2>1, <2>4 DEF Next
  <2>6. Post(d)
    <3>1. ~Start(d) /\ ~Cancel(d) /\ ~Return(d)
      BY <2>2, <2>3 DEF Start, StartGetJWT, StartSubmit, StartWithToken, Cancel, Return,
                        GoOn, Goto, Wait
    <3>2. ~Acquire(d)
      BY <2>2 DEF Acquire, JWTHit, FetchJWT, FetchRefused, HaveJWT, Finish, Goto, Wait
    <3>3. ~Give(d)
      BY <2>2 DEF Give, JWTArrives, PubkeyArrives, PostRetried, PostConcluded,
                  HaveJWT, Finish, Goto, Wait
    <3>4. ~Abandon(d)
      BY <2>2 DEF Abandon, ExchangeFails, PostLost, BackoffOver, BackoffCancelled,
                  GoOn, Finish, Goto, Wait
    <3>5. ~SendPubkey(d) /\ ~EncodingFails(d) /\ ~SendRefused(d)
      BY <2>2 DEF SendPubkey, EncodingFails, SendRefused, Finish, Goto, Wait
    <3>6. QED
      BY <2>5, <3>1, <3>2, <3>3, <3>4, <3>5 DEF Send
  <2>7. d = c /\ pc[c] \in {"send", "seal"}
    BY <2>2, <2>6 DEF Post, Wait
  <2>8. QED
    BY <1>3, <2>1, <2>7, DurationAssumption
       DEF TokenLastsLongEnough, SubmitsOwnToken, TypeOK, Honest
<1>4. QED
  BY <1>1, <1>2, <1>3, TypeCorrect, PTL DEF Spec, FirstBearerAlive

-----------------------------------------------------------------------------
(* The answers of a call                                                   *)

\* Which operations are where, and what the loop counter says of the log.
CallHistory ==
    \A c \in Callers :
        /\ pc[c] = "idle" <=> call[c].op = "none"
        /\ pc[c] \in {"lock", "fetch"} => call[c].op \in {"getjwt", "submit"}
        /\ pc[c] \in {"seal", "backoff"} => call[c].op = "submit"
        /\ pc[c] = "send" => call[c].op # "getjwt"
        /\ pc[c] = "post" => call[c].op \in Proving
        /\ pc[c] = "done" => attempt[c] = 0
        /\ call[c].op \notin Proving => log[c] = <<>>
        /\ pc[c] # "done" => /\ result[c] = NoResult
                            /\ Len(log[c]) = attempt[c]
                            /\ \A i \in 1..Len(log[c]) : IsTransient(log[c][i])

LEMMA AppendTransient ==
    ASSUME NEW answers \in Seq(Answers), NEW a \in Answers,
           \A i \in 1..Len(answers) : IsTransient(answers[i])
    PROVE  /\ Append(answers, a) \in Seq(Answers)
           /\ Len(Append(answers, a)) = Len(answers) + 1
           /\ Append(answers, a)[Len(answers) + 1] = a
           /\ IsTransient(a) =>
                \A i \in 1..(Len(answers) + 1) : IsTransient(Append(answers, a)[i])
<1>1. /\ Append(answers, a) \in Seq(Answers)
      /\ Len(Append(answers, a)) = Len(answers) + 1
      /\ Append(answers, a)[Len(answers) + 1] = a
      /\ \A i \in 1..Len(answers) : Append(answers, a)[i] = answers[i]
  OBVIOUS
<1>2. \A i \in 1..(Len(answers) + 1) : i \in 1..Len(answers) \/ i = Len(answers) + 1
  OBVIOUS
<1>3. QED
  BY <1>1, <1>2

LEMMA CallHistoryInv ==
    ASSUME TypeOK, CallHistory, [Next]_vars
    PROVE  CallHistory'
<1> USE DurationAssumption
<1> USE DEF CallHistory, TypeOK, shared
<1>1. CASE SetProverURIBegins \/ SetProverURIEnds \/ Tick \/ UNCHANGED vars
  BY <1>1 DEF SetProverURIBegins, SetProverURIEnds, Tick, vars
<1>2. ASSUME NEW c \in Callers, NEW r, Finish(c, r), UNCHANGED <<call, log>>,
             pc[c] # "idle"
      PROVE  CallHistory'
  BY <1>2 DEF Finish, Goto, Wait
<1>3. ASSUME NEW c \in Callers, NEW label, pc' = [pc EXCEPT ![c] = label],
             UNCHANGED <<call, log, attempt, result>>,
             pc[c] \notin {"idle", "done"},
             label \in {"fetch", "send", "seal", "pubkey", "post"},
             label = "fetch" => pc[c] = "lock",
             label = "send" => call[c].op # "getjwt",
             label = "seal" => call[c].op = "submit",
             label = "post" => call[c].op \in Proving
      PROVE  CallHistory'
  BY <1>3
<1>4. ASSUME NEW c \in Callers, Start(c)
      PROVE  CallHistory'
  <2>1. CASE StartGetJWT(c)
    BY <2>1 DEF StartGetJWT, GoOn, Goto, Wait, Proving
  <2>2. CASE StartSubmit(c)
    BY <2>2 DEF StartSubmit, GoOn, Goto, Wait, Proving
  <2>3. CASE StartWithToken(c)
    BY <2>3 DEF StartWithToken, Goto, Wait, Proving
  <2>4. QED
    BY <1>4, <2>1, <2>2, <2>3 DEF Start
<1>5. ASSUME NEW c \in Callers, Return(c)
      PROVE  CallHistory'
  <2>1. attempt[c] = 0
    BY <1>5 DEF Return
  <2>2. QED
    BY <1>5, <2>1 DEF Return, Goto, Wait, NoCall, Proving
<1>6. ASSUME NEW c \in Callers, NEW life, HaveJWT(c, life), UNCHANGED <<call, log>>,
             pc[c] \in {"lock", "fetch"}
      PROVE  CallHistory'
  <2>1. CASE Finish(c, [kind |-> "token", status |-> 0])
    BY <1>2, <1>6, <2>1
  <2>2. CASE /\ call[c].op = "submit"
             /\ pc' = [pc EXCEPT ![c] = "send"]
             /\ UNCHANGED <<attempt, result>>
    BY <1>3, <1>6, <2>2
  <2>3. QED
    BY <1>6, <2>1, <2>2 DEF HaveJWT, Goto, Wait
<1>7. ASSUME NEW c \in Callers, Acquire(c)
      PROVE  CallHistory'
  <2> HIDE DEF CallHistory, TypeOK, shared
  <2>1. CASE JWTHit(c)
    BY <1>6, <2>1 DEF JWTHit
  <2>2. CASE FetchJWT(c)
    <3>1. /\ pc' = [pc EXCEPT ![c] = "fetch"] /\ pc[c] = "lock"
          /\ UNCHANGED <<call, log, attempt, result>>
      BY <2>2 DEF FetchJWT, Wait
    <3>2. QED
      BY <1>3, <3>1
  <2>3. CASE FetchRefused(c)
    BY <1>2, <2>3 DEF FetchRefused
  <2>4. QED
    BY <1>7, <2>1, <2>2, <2>3 DEF Acquire
<1>8. ASSUME NEW c \in Callers, Send(c)
      PROVE  CallHistory'
  <2>1. CASE SendPubkey(c)
    BY <1>3, <2>1 DEF SendPubkey, Wait
  <2>2. CASE EncodingFails(c) \/ SendRefused(c)
    BY <1>2, <2>2 DEF EncodingFails, SendRefused
  <2>3. CASE Post(c)
    <3>1. call[c].op \in Proving
      <4>1. call[c].op \in {"submit", "withjwt", "getjwt", "getkey", "none"}
        BY DEF Calls, Ops, Proving, NoCall
      <4>2. QED
        BY <2>3, <4>1 DEF Post, NeedsKey, Proving
    <3>2. QED
      BY <1>3, <2>3, <3>1 DEF Post, Wait
  <2>4. QED
    BY <1>8, <2>1, <2>2, <2>3 DEF Send
<1>9. ASSUME NEW c \in Callers, Give(c)
      PROVE  CallHistory'
  <2>1. CASE JWTArrives(c)
    BY <1>6, <2>1 DEF JWTArrives
  <2>2. CASE PubkeyArrives(c)
    <3>1. CASE Finish(c, [kind |-> "key", status |-> 0])
      BY <1>2, <2>2, <3>1 DEF PubkeyArrives
    <3>2. CASE ~Finish(c, [kind |-> "key", status |-> 0])
      <4>1. /\ pc' = [pc EXCEPT ![c] = "seal"] /\ pc[c] = "pubkey"
            /\ call[c].op = "submit" /\ UNCHANGED <<call, log, attempt, result>>
        BY <2>2, <3>2 DEF PubkeyArrives, Goto, Wait
      <4>2. QED
        BY <1>3, <4>1
    <3>3. QED
      BY <3>1, <3>2
  <2>3. CASE PostRetried(c)
    <3>1. PICK a \in Answers : MayRetry(c, a) /\ log' = [log EXCEPT ![c] = Append(@, a)]
      BY <2>3 DEF PostRetried
    <3>2. /\ Len(log'[c]) = attempt'[c]
          /\ \A i \in 1..Len(log'[c]) : IsTransient(log'[c][i])
      BY <2>3, <3>1, AppendTransient DEF PostRetried, MayRetry
    <3>3. call[c].op = "submit"
      BY <3>1 DEF MayRetry
    <3>4. QED
      BY <2>3, <3>1, <3>2, <3>3 DEF PostRetried, Wait, Proving
  <2>4. CASE PostConcluded(c)
    BY <2>4 DEF PostConcluded, Finish, Goto, Wait
  <2>5. QED
    BY <1>9, <2>1, <2>2, <2>3, <2>4 DEF Give
<1>10. ASSUME NEW c \in Callers, Abandon(c)
       PROVE  CallHistory'
  <2>1. CASE BackoffOver(c)
    BY <1>3, <2>1 DEF BackoffOver, GoOn, Goto, Wait
  <2>2. CASE ExchangeFails(c) \/ PostLost(c) \/ BackoffCancelled(c)
    BY <1>2, <2>2 DEF ExchangeFails, PostLost, BackoffCancelled
  <2>3. QED
    BY <1>10, <2>1, <2>2 DEF Abandon
<1>11. ASSUME NEW c \in Callers, Cancel(c)
       PROVE  CallHistory'
  BY <1>11 DEF Cancel
<1>12. QED
  BY <1>1, <1>4, <1>5, <1>7, <1>8, <1>9, <1>10, <1>11 DEF Next

LEMMA CallHistoryInvariant == Spec => [](TypeOK /\ CallHistory)
<1>1. Init => CallHistory
  <2>1. ASSUME Init, NEW c \in Callers
        PROVE  /\ pc[c] = "idle" /\ call[c].op = "none" /\ log[c] = <<>>
               /\ attempt[c] = 0 /\ result[c] = NoResult
    BY <2>1 DEF Init, NoCall
  <2>2. Len(<<>>) = 0 /\ \A i \in 1..0 : FALSE
    OBVIOUS
  <2>3. ASSUME Init, NEW c \in Callers
        PROVE  \A i \in 1..Len(log[c]) : IsTransient(log[c][i])
    BY <2>1, <2>2, <2>3
  <2>4. QED
    BY <2>1, <2>2, <2>3 DEF CallHistory, Proving
<1>2. QED
  BY <1>1, CallHistoryInv, TypeCorrect, PTL DEF Spec

\* A retrying call never gives a transient failure back before its attempts are
\* used up (SubmitProvingRequestSafe).
THEOREM RefusalsAreEarned == Spec => []RefusalIsEarned
<1>1. Init => RefusalIsEarned
  BY DEF Init, RefusalIsEarned, NoResult
<1>2. ASSUME TypeOK, CallHistory, RefusalIsEarned, [Next]_vars
      PROVE  RefusalIsEarned'
  <2> USE <1>2
  <2> USE DEF RefusalIsEarned, TypeOK, shared
  <2>1. CASE UNCHANGED <<result, call, log>>
    BY <2>1
  <2>2. ASSUME NEW c \in Callers, result'[c].kind # "refused",
               \A d \in Callers \ {c} : /\ result'[d] = result[d]
                                        /\ call'[d] = call[d]
                                        /\ log'[d] = log[d]
        PROVE  RefusalIsEarned'
    BY <2>2
  <2>3. ASSUME NEW c \in Callers, pc[c] # "done", result' = result,
               \A d \in Callers \ {c} : call'[d] = call[d] /\ log'[d] = log[d]
        PROVE  RefusalIsEarned'
    <3>1. result'[c] = NoResult
      BY <2>3 DEF CallHistory
    <3>2. result'[c].kind # "refused"
      BY <3>1 DEF NoResult
    <3>3. \A d \in Callers \ {c} : result'[d] = result[d]
      BY <2>3
    <3>4. QED
      BY <2>2, <2>3, <3>2, <3>3
  <2>4. ASSUME NEW c \in Callers, NEW r, Finish(c, r), r.kind # "refused",
               UNCHANGED <<call, log>>
        PROVE  RefusalIsEarned'
    BY <2>2, <2>4 DEF Finish
  <2>5. CASE SetProverURIBegins \/ SetProverURIEnds \/ Tick \/ UNCHANGED vars
    BY <2>1, <2>5 DEF SetProverURIBegins, SetProverURIEnds, Tick, vars
  <2>6. ASSUME NEW c \in Callers, Start(c) \/ Cancel(c)
        PROVE  RefusalIsEarned'
    BY <2>3, <2>6 DEF Start, StartGetJWT, StartSubmit, StartWithToken, Cancel, GoOn
  <2>7. ASSUME NEW c \in Callers, Return(c)
        PROVE  RefusalIsEarned'
    BY <2>2, <2>7 DEF Return, NoResult
  <2>8. ASSUME NEW c \in Callers, Acquire(c) \/ JWTArrives(c)
        PROVE  RefusalIsEarned'
    BY <2>1, <2>4, <2>8
       DEF Acquire, JWTHit, FetchJWT, FetchRefused, JWTArrives, HaveJWT, Failed
  <2>9. ASSUME NEW c \in Callers, Send(c)
        PROVE  RefusalIsEarned'
    BY <2>1, <2>4, <2>9 DEF Send, SendPubkey, EncodingFails, Post, SendRefused, Failed
  <2>10. ASSUME NEW c \in Callers, PubkeyArrives(c) \/ PostRetried(c)
         PROVE  RefusalIsEarned'
    BY <2>1, <2>3, <2>4, <2>10 DEF PubkeyArrives, PostRetried
  <2>11. ASSUME NEW c \in Callers, PostConcluded(c)
         PROVE  RefusalIsEarned'
    <3>1. PICK a \in Answers :
            /\ MayRetry(c, a) => ~AttemptsLeft(c)
            /\ log' = [log EXCEPT ![c] = Append(@, a)]
      BY <2>11 DEF PostConcluded
    <3>2. /\ Len(log[c]) = attempt[c]
          /\ \A i \in 1..Len(log[c]) : IsTransient(log[c][i])
      BY <2>11 DEF PostConcluded, CallHistory
    <3>3. /\ Len(log'[c]) = attempt[c] + 1
          /\ log'[c][attempt[c] + 1] = a
          /\ IsTransient(a) => \A i \in 1..(attempt[c] + 1) : IsTransient(log'[c][i])
      <4>1. log[c] \in Seq(Answers) /\ log'[c] = Append(log[c], a)
        BY <3>1
      <4>2. QED
        BY <3>2, <4>1, AppendTransient
    <3>4. /\ UNCHANGED call
          /\ \A d \in Callers \ {c} : result'[d] = result[d] /\ log'[d] = log[d]
      BY <2>11, <3>1 DEF PostConcluded, Finish
    <3>5. CASE ~IsTransient(a)
      BY <3>3, <3>4, <3>5
    <3>6. CASE IsTransient(a) /\ call[c].op = "submit"
      <4>1. attempt[c] = MaxRetries
        BY <3>1, <3>6, DurationAssumption DEF MayRetry, AttemptsLeft
      <4>2. QED
        BY <3>3, <3>4, <3>6, <4>1
    <3>7. CASE call[c].op # "submit"
      BY <3>4, <3>7
    <3>8. QED
      BY <3>5, <3>6, <3>7
  <2>12. ASSUME NEW c \in Callers, Abandon(c)
         PROVE  RefusalIsEarned'
    BY <2>1, <2>4, <2>12
       DEF Abandon, ExchangeFails, PostLost, BackoffOver, BackoffCancelled, GoOn, Failed
  <2>13. QED
    BY <2>5, <2>6, <2>7, <2>8, <2>9, <2>10, <2>11, <2>12 DEF Next, Give
<1>3. QED
  BY <1>1, <1>2, CallHistoryInvariant, PTL DEF Spec

-----------------------------------------------------------------------------
(* The promise                                                             *)

\* A step of c leaves what the promise sees of the other callers alone.
StepOf(c) ==
    \A d \in Callers \ {c} : /\ pc'[d] = pc[d]
                             /\ call'[d] = call[d]
                             /\ result'[d] = result[d]

LEMMA Frame ==
    ASSUME NEW c \in Callers, StepOf(c)
    PROVE  /\ [d \in Callers |-> Phase(d)]' =
                [[d \in Callers |-> Phase(d)] EXCEPT ![c] = Phase(c)']
           /\ [d \in Callers |-> Verdict(d)]' =
                [[d \in Callers |-> Verdict(d)] EXCEPT ![c] = Verdict(c)']
<1>1. ASSUME NEW d \in Callers \ {c}
      PROVE  Phase(d)' = Phase(d) /\ Verdict(d)' = Verdict(d)
  BY <1>1 DEF StepOf, Phase, Verdict
<1>2. QED
  BY <1>1

LEMMA Stutters ==
    ASSUME NEW c \in Callers, StepOf(c), UNCHANGED log,
           Phase(c)' = Phase(c), Verdict(c)' = Verdict(c)
    PROVE  UNCHANGED Promise!vars
BY Frame DEF Promise!vars

LEMMA Fails ==
    ASSUME NEW c \in Callers, StepOf(c), UNCHANGED log,
           Phase(c) \in {"busy", "flying"}, Phase(c)' = "over", Verdict(c)' = "error"
    PROVE  Promise!Fail(c)
BY Frame DEF Promise!Fail

\* A call that ends without an answer fails, or is none of the promise's business.
LEMMA FinishRefines ==
    ASSUME TypeOK, CallHistory, NEW c \in Callers, NEW r, Finish(c, r),
           UNCHANGED <<call, log>>, pc[c] \notin {"idle", "done"},
           call[c].op \in Proving => r.kind \notin {"proof", "refused"}
    PROVE  [Promise!Next]_(Promise!vars)
<1>1. StepOf(c) /\ pc'[c] = "done" /\ result'[c] = r
  BY DEF StepOf, Finish, Goto, Wait, TypeOK
<1>2. CASE call[c].op \in Proving
  <2>1. /\ Phase(c) \in {"busy", "flying"}
        /\ Phase(c)' = "over"
        /\ Verdict(c)' = "error"
    BY <1>1, <1>2 DEF Phase, Verdict
  <2>2. QED
    BY <1>1, <2>1, Fails DEF Promise!Next
<1>3. CASE call[c].op \notin Proving
  <2>1. Phase(c)' = Phase(c) /\ Verdict(c)' = Verdict(c)
    BY <1>3 DEF Phase, Verdict
  <2>2. QED
    BY <1>1, <2>1, Stutters
<1>4. QED
  BY <1>2, <1>3

\* A move between two places where nothing is in flight.
LEMMA MoveRefines ==
    ASSUME NEW c \in Callers, StepOf(c), UNCHANGED <<call, log, result>>,
           pc[c] \notin {"idle", "done", "post"}, pc'[c] \notin {"idle", "done", "post"}
    PROVE  [Promise!Next]_(Promise!vars)
<1>1. Phase(c)' = Phase(c) /\ Verdict(c)' = Verdict(c)
  BY DEF Phase, Verdict
<1>2. UNCHANGED Promise!vars
  BY <1>1, Stutters
<1>3. QED
  BY <1>2

LEMMA AnswersKept ==
    ASSUME TypeOK, CallHistory, NEW c \in Callers, pc[c] # "done"
    PROVE  /\ Len(log[c]) <= MaxRetries
           /\ \A i \in 1..Len(log[c]) : log[c][i] \in {a \in Answers : IsTransient(a)}
<1>1. /\ Len(log[c]) = attempt[c] /\ attempt[c] \in 0..MaxRetries
      /\ \A i \in 1..Len(log[c]) : IsTransient(log[c][i])
  BY DEF TypeOK, CallHistory
<1>2. \A i \in 1..Len(log[c]) : log[c][i] \in Answers
  BY DEF TypeOK
<1>3. QED
  BY <1>1, <1>2, DurationAssumption

LEMMA StepRefines ==
    ASSUME TypeOK, CallHistory, [Next]_vars
    PROVE  [Promise!Next]_(Promise!vars)
<1> USE DEF shared
<1> /\ pc \in [Callers -> Labels] /\ call \in [Callers -> Calls \cup {NoCall}]
    /\ log \in [Callers -> Seq(Answers)] /\ result \in [Callers -> Results]
  BY DEF TypeOK
<1>1. CASE SetProverURIBegins \/ SetProverURIEnds \/ Tick \/ UNCHANGED vars
  <2>1. UNCHANGED <<pc, call, log, result>>
    BY <1>1 DEF SetProverURIBegins, SetProverURIEnds, Tick, vars
  <2>2. \A c \in Callers : Phase(c)' = Phase(c) /\ Verdict(c)' = Verdict(c)
    BY <2>1 DEF Phase, Verdict
  <2>3. QED
    BY <2>1, <2>2 DEF Promise!vars
<1>2. ASSUME NEW c \in Callers, Start(c)
      PROVE  [Promise!Next]_(Promise!vars)
  <2>1. /\ StepOf(c) /\ UNCHANGED <<log, result>>
        /\ pc[c] = "idle" /\ pc'[c] \in {"lock", "send"}
    BY <1>2 DEF Start, StartGetJWT, StartSubmit, StartWithToken, StepOf, GoOn, Goto, Wait
  <2>2. /\ Phase(c) = "idle" /\ Verdict(c) = "none"
        /\ Phase(c)' \in {"idle", "busy"} /\ Verdict(c)' = "none"
    BY <2>1 DEF CallHistory, Phase, Verdict, Proving
  <2>3. CASE Phase(c)' = "idle"
    BY <2>1, <2>2, <2>3, Stutters
  <2>4. CASE Phase(c)' = "busy"
    <3>1. Promise!Begin(c)
      <4>1. [d \in Callers |-> Verdict(d)]' = [d \in Callers |-> Verdict(d)]
        BY <2>1, <2>2, Frame
      <4>2. QED
        BY <2>1, <2>2, <2>4, <4>1, Frame DEF Promise!Begin
    <3>2. QED
      BY <3>1 DEF Promise!Next
  <2>5. QED
    BY <2>2, <2>3, <2>4
<1>3. ASSUME NEW c \in Callers, NEW life, HaveJWT(c, life), UNCHANGED <<call, log>>,
             pc[c] \in {"lock", "fetch"}
      PROVE  [Promise!Next]_(Promise!vars)
  <2>1. CASE call[c].op = "getjwt" /\ Finish(c, [kind |-> "token", status |-> 0])
    BY <1>3, <2>1, FinishRefines DEF Proving
  <2>2. CASE Goto(c, "send") /\ UNCHANGED result
    <3>1. StepOf(c) /\ pc'[c] = "send" /\ UNCHANGED <<call, log, result>>
      BY <1>3, <2>2 DEF Goto, Wait, StepOf
    <3>2. QED
      BY <1>3, <3>1, MoveRefines
  <2>3. QED
    BY <1>3, <2>1, <2>2 DEF HaveJWT
<1>4. ASSUME NEW c \in Callers, Acquire(c)
      PROVE  [Promise!Next]_(Promise!vars)
  <2>1. CASE JWTHit(c)
    BY <1>3, <2>1 DEF JWTHit
  <2>2. CASE FetchJWT(c)
    <3>1. /\ StepOf(c) /\ pc[c] = "lock" /\ pc'[c] = "fetch"
          /\ UNCHANGED <<call, log, result>>
      BY <2>2 DEF FetchJWT, Wait, StepOf
    <3>2. QED
      BY <3>1, MoveRefines
  <2>3. CASE FetchRefused(c)
    BY <2>3, FinishRefines DEF FetchRefused, Failed
  <2>4. QED
    BY <1>4, <2>1, <2>2, <2>3 DEF Acquire
<1>5. ASSUME NEW c \in Callers, Send(c)
      PROVE  [Promise!Next]_(Promise!vars)
  <2>1. CASE SendPubkey(c)
    <3>1. /\ StepOf(c) /\ pc[c] = "send" /\ pc'[c] = "pubkey"
          /\ UNCHANGED <<call, log, result>>
      BY <2>1 DEF SendPubkey, Wait, StepOf
    <3>2. QED
      BY <3>1, MoveRefines
  <2>2. CASE EncodingFails(c) \/ SendRefused(c)
    BY <2>2, FinishRefines DEF EncodingFails, SendRefused, Failed
  <2>3. CASE Post(c)
    <3>1. StepOf(c) /\ UNCHANGED <<call, log>> /\ pc[c] \in {"send", "seal"} /\ pc'[c] = "post"
      BY <2>3 DEF Post, Wait, StepOf
    <3>2. call[c].op \in Proving
      <4>1. call[c].op \in Proving \cup {"getjwt", "getkey"} \/ call[c].op = "none"
        BY DEF Calls, Ops, NoCall
      <4>2. QED
        BY <2>3, <4>1 DEF Post, NeedsKey, Proving, CallHistory
    <3>3. /\ Phase(c) = "busy" /\ Verdict(c) = "none"
          /\ Phase(c)' = "flying" /\ Verdict(c)' = "none"
      BY <3>1, <3>2 DEF Phase, Verdict
    <3>4. Promise!MayResubmit(log[c])
      BY <3>1, AnswersKept DEF Promise!MayResubmit
    <3>5. Promise!Submit(c)
      <4>1. [d \in Callers |-> Verdict(d)]' = [d \in Callers |-> Verdict(d)]
        BY <3>1, <3>3, Frame
      <4>2. QED
        BY <3>1, <3>3, <3>4, <4>1, Frame DEF Promise!Submit
    <3>6. QED
      BY <3>5 DEF Promise!Next
  <2>4. QED
    BY <1>5, <2>1, <2>2, <2>3 DEF Send
<1>6. ASSUME NEW c \in Callers, Give(c)
      PROVE  [Promise!Next]_(Promise!vars)
  <2>1. CASE JWTArrives(c)
    BY <1>3, <2>1 DEF JWTArrives
  <2>2. CASE PubkeyArrives(c)
    <3>1. CASE call[c].op = "getkey" /\ Finish(c, [kind |-> "key", status |-> 0])
      BY <2>2, <3>1, FinishRefines DEF PubkeyArrives, Proving
    <3>2. CASE Goto(c, "seal") /\ UNCHANGED result
      <4>1. /\ StepOf(c) /\ pc[c] = "pubkey" /\ pc'[c] = "seal"
            /\ UNCHANGED <<call, log, result>>
        BY <2>2, <3>2 DEF PubkeyArrives, Goto, Wait, StepOf
      <4>2. QED
        BY <4>1, MoveRefines
    <3>3. QED
      BY <2>2, <3>1, <3>2 DEF PubkeyArrives
  <2>3. CASE PostRetried(c)
    <3>1. PICK a \in Answers : MayRetry(c, a) /\ log' = [log EXCEPT ![c] = Append(@, a)]
      BY <2>3 DEF PostRetried
    <3>2. StepOf(c) /\ UNCHANGED call /\ pc[c] = "post" /\ pc'[c] = "backoff"
      BY <2>3 DEF PostRetried, StepOf, Wait
    <3>3. call[c].op \in Proving
      BY <3>1 DEF MayRetry, Proving
    <3>4. /\ Phase(c) = "flying" /\ Verdict(c) = "none"
          /\ Phase(c)' = "busy" /\ Verdict(c)' = "none"
      BY <3>2, <3>3 DEF Phase, Verdict
    <3>5. Promise!AnswerInvitesRetry(c)
      <4>1. [d \in Callers |-> Verdict(d)]' = [d \in Callers |-> Verdict(d)]
        BY <3>2, <3>4, Frame
      <4>2. a \in {b \in Answers : IsTransient(b)}
        BY <3>1 DEF MayRetry
      <4>3. QED
        BY <3>1, <3>2, <3>4, <4>1, <4>2, Frame DEF Promise!AnswerInvitesRetry
    <3>6. QED
      BY <3>5 DEF Promise!Next
  <2>4. CASE PostConcluded(c)
    <3>1. PICK a \in Answers :
            /\ log' = [log EXCEPT ![c] = Append(@, a)]
            /\ Finish(c, IF MayRetry(c, a) THEN RetriesExceeded
                                           ELSE HandleProvingResponse(a))
      BY <2>4 DEF PostConcluded
    <3>2. StepOf(c) /\ UNCHANGED call /\ pc[c] = "post" /\ pc'[c] = "done"
      BY <2>4, <3>1 DEF PostConcluded, StepOf, Finish, Goto, Wait
    <3>3. result'[c].kind = IF a.decodable THEN "proof" ELSE "refused"
      BY <3>1 DEF Finish, MayRetry, IsTransient, RetriesExceeded, HandleProvingResponse
    <3>4. call[c].op \in Proving
      BY <3>2 DEF CallHistory
    <3>5. /\ Phase(c) = "flying" /\ Phase(c)' = "over"
          /\ Verdict(c)' = IF a.decodable THEN "good" ELSE "refused"
      BY <3>2, <3>3, <3>4 DEF Phase, Verdict
    <3>6. Append(log[c], a)[Len(Append(log[c], a))] = a
      OBVIOUS
    <3>7. Promise!Verdict(Append(log[c], a)) = Verdict(c)'
      BY <3>5, <3>6 DEF Promise!Verdict
    <3>8. Promise!AnswerConcludes(c)
      BY <3>1, <3>2, <3>5, <3>7, Frame DEF Promise!AnswerConcludes
    <3>9. QED
      BY <3>8 DEF Promise!Next
  <2>5. QED
    BY <1>6, <2>1, <2>2, <2>3, <2>4 DEF Give
<1>7. ASSUME NEW c \in Callers, Abandon(c)
      PROVE  [Promise!Next]_(Promise!vars)
  <2>1. CASE BackoffOver(c)
    <3>1. /\ StepOf(c) /\ pc[c] = "backoff" /\ pc'[c] = "send"
          /\ UNCHANGED <<call, log, result>>
      BY <2>1 DEF BackoffOver, GoOn, Goto, Wait, StepOf
    <3>2. QED
      BY <3>1, MoveRefines
  <2>2. CASE ExchangeFails(c) \/ PostLost(c) \/ BackoffCancelled(c)
    BY <2>2, FinishRefines DEF ExchangeFails, PostLost, BackoffCancelled, Failed
  <2>3. QED
    BY <1>7, <2>1, <2>2 DEF Abandon
<1>8. ASSUME NEW c \in Callers, Return(c)
      PROVE  [Promise!Next]_(Promise!vars)
  <2>1. /\ StepOf(c) /\ pc[c] = "done" /\ pc'[c] = "idle"
        /\ call'[c] = NoCall /\ log' = [log EXCEPT ![c] = <<>>]
    BY <1>8 DEF Return, Goto, Wait, StepOf
  <2>2. Phase(c)' = "idle" /\ Verdict(c)' = "none"
    BY <2>1 DEF Phase, Verdict, NoCall, Proving
  <2>3. CASE call[c].op \in Proving
    <3>1. Phase(c) = "over"
      BY <2>1, <2>3 DEF Phase
    <3>2. Promise!Return(c)
      BY <2>1, <2>2, <3>1, Frame DEF Promise!Return
    <3>3. QED
      BY <3>2 DEF Promise!Next
  <2>4. CASE call[c].op \notin Proving
    <3>1. Phase(c) = "idle" /\ Verdict(c) = "none"
      BY <2>4 DEF Phase, Verdict
    <3>2. UNCHANGED log
      BY <2>1, <2>4 DEF CallHistory
    <3>3. QED
      BY <2>1, <2>2, <3>1, <3>2, Stutters
  <2>5. QED
    BY <2>3, <2>4
<1>9. ASSUME NEW c \in Callers, Cancel(c)
      PROVE  [Promise!Next]_(Promise!vars)
  <2>1. StepOf(c) /\ UNCHANGED <<pc, call, log, result>>
    BY <1>9 DEF Cancel, StepOf
  <2>2. Phase(c)' = Phase(c) /\ Verdict(c)' = Verdict(c)
    BY <2>1 DEF Phase, Verdict
  <2>3. QED
    BY <2>1, <2>2, Stutters
<1>10. QED
  BY <1>1, <1>2, <1>4, <1>5, <1>6, <1>7, <1>8, <1>9 DEF Next

\* The client implements RetriedCall for any number of callers and retries: no
\* request is submitted again after a lost answer, and what the call reports is
\* what its last answer said (SubmitProvingRequestSafe, ProveWithJWT).
THEOREM ClientKeepsPromise == Spec => KeepsPromise
<1>1. Init => Promise!Init
  <2>1. ASSUME Init, NEW c \in Callers
        PROVE  Phase(c) = "idle" /\ Verdict(c) = "none"
    BY <2>1 DEF Init, Phase, Verdict, NoCall, Proving
  <2>2. QED
    BY <2>1 DEF Init, Promise!Init
<1>2. TypeOK /\ CallHistory /\ [Next]_vars => [Promise!Next]_(Promise!vars)
  BY StepRefines
<1>3. QED
  BY <1>1, <1>2, CallHistoryInvariant, PTL DEF Spec, KeepsPromise, Promise!Spec

-----------------------------------------------------------------------------
(* What follows from the promise                                           *)

Bounds == INSTANCE RetriedCall_proofs WITH
    Good <- {a \in Answers : a.decodable},
    Transient <- {a \in Answers : IsTransient(a)},
    phase <- [c \in Callers |-> Phase(c)],
    verdict <- [c \in Callers |-> Verdict(c)]

\* While a proving request is under way, all answers before it invited to it, and they
\* are no more than MaxRetries.
Submissions ==
    \A c \in Callers : call[c].op \in Proving /\ pc[c] = "post" =>
        /\ Len(log[c]) <= MaxRetries
        /\ \A i \in 1..Len(log[c]) : IsTransient(log[c][i])

\* A proof is what the last answer carried, a refusal followed another answer, and a Go
\* error no answer that was final.
Endings ==
    \A c \in Callers : call[c].op \in Proving /\ pc[c] = "done" =>
        LET last == log[c][Len(log[c])]
        IN  CASE result[c].kind = "proof" -> log[c] # <<>> /\ last.decodable
              [] result[c].kind = "refused" -> log[c] # <<>> /\ last \notin {a \in Answers : a.decodable}
              [] OTHER -> \A i \in 1..Len(log[c]) : IsTransient(log[c][i])

(***************************************************************************)
(* A call submits at most MaxRetries + 1 times, and not again after an     *)
(* answer that is final; what it reports is what the last answer said      *)
(* (SubmitProvingRequestSafe, ProveWithJWT).                               *)
(***************************************************************************)
THEOREM LastAnswerDecides ==
    ASSUME MaxRetries \in Nat
    PROVE  Spec => [](Submissions /\ Endings)
<1>1. Promise!Init => Bounds!Init
  BY DEF Promise!Init, Bounds!Init
<1>2. [Promise!Next]_(Promise!vars) => [Bounds!Next]_(Bounds!vars)
  BY Zenon
     DEF Promise!Next, Promise!Begin, Promise!Submit, Promise!AnswerInvitesRetry,
         Promise!AnswerConcludes, Promise!GiveUp, Promise!Fail, Promise!Return, Promise!vars,
         Promise!MayResubmit, Promise!Verdict,
         Bounds!Next, Bounds!Begin, Bounds!Submit, Bounds!AnswerInvitesRetry,
         Bounds!AnswerConcludes, Bounds!GiveUp, Bounds!Fail, Bounds!Return, Bounds!vars,
         Bounds!MayResubmit, Bounds!Verdict
<1>3. Bounds!SubmissionsBounded => Submissions
  BY DEF Bounds!SubmissionsBounded, Bounds!Bounded, Submissions, Phase
<1>4. Bounds!LastDecides => Endings
  BY DEF Bounds!LastDecides, Bounds!Decided, Endings, Phase, Verdict
<1>5. QED
  BY <1>1, <1>2, <1>3, <1>4, ClientKeepsPromise, Bounds!PromiseBounds, PTL
     DEF KeepsPromise, Bounds!Counted, Promise!Spec, Bounds!Spec

-----------------------------------------------------------------------------
(* How long a call lasts                                                   *)

\* A clock for each call, which nothing reads: the time since it got past the mutex.
VARIABLE age

Underway(c) == pc[c] \in Waiting \cup {"send", "seal"}

Aging ==
    age' = [c \in Callers |-> IF ~Underway(c)' THEN 0
                              ELSE IF Tick THEN age[c] + 1 ELSE age[c]]

TimedSpec == Spec /\ age = [c \in Callers |-> 0] /\ [][Aging]_<<vars, age>>

\* The longest round: a backoff of no more than longest, a key and a request.
Round(longest) == longest + 2 * Timeout

\* What is ahead of a call when its request is under way, at the most.
Rounds(c, longest) == (MaxRetries - attempt[c]) * Round(longest)

Ahead(c, longest) ==
    CASE pc[c] \in {"fetch", "backoff"} -> timer[c] + 2 * Timeout + Rounds(c, longest)
      [] pc[c] = "send" -> 2 * Timeout + Rounds(c, longest)
      [] pc[c] = "pubkey" -> timer[c] + Timeout + Rounds(c, longest)
      [] pc[c] = "seal" -> Timeout + Rounds(c, longest)
      [] OTHER -> timer[c] + Rounds(c, longest)

Longest(longest) == 3 * Timeout + MaxRetries * Round(longest)

\* What a step of c, the clock apart, does to its own timer and to nobody else's.
Moves(c) ==
    /\ \A d \in Callers \ {c} : UNCHANGED <<pc[d], timer[d], attempt[d]>>
    /\ \/ UNCHANGED <<pc[c], timer[c], attempt[c]>>
       \/ pc'[c] \in {"idle", "lock", "done"}
       \/ /\ UNCHANGED attempt[c]
          /\ \/ pc[c] \in {"idle", "lock", "fetch"} /\ pc'[c] = "send"
             \/ pc[c] = "lock" /\ pc'[c] = "fetch" /\ timer'[c] = Timeout
             \/ pc[c] = "send" /\ pc'[c] \in {"pubkey", "post"} /\ timer'[c] = Timeout
             \/ pc[c] = "pubkey" /\ pc'[c] = "seal"
             \/ pc[c] = "seal" /\ pc'[c] = "post" /\ timer'[c] = Timeout
             \/ pc[c] = "backoff" /\ pc'[c] = "send"
       \/ /\ pc[c] = "post" /\ pc'[c] = "backoff"
          /\ attempt[c] < MaxRetries /\ attempt'[c] = attempt[c] + 1
          /\ timer'[c] = Delay(attempt'[c])

\* What it does to the mutex.
MutexOf(c) ==
    \/ UNCHANGED jwtMu /\ (pc[c] = "fetch" => pc'[c] = "fetch") /\ (pc'[c] = "fetch" => pc[c] = "fetch")
    \/ jwtMu = NoCaller /\ jwtMu' = c /\ pc'[c] = "fetch"
    \/ jwtMu' = NoCaller /\ pc[c] = "fetch" /\ pc'[c] # "fetch"

LEMMA FinishMoves ==
    ASSUME TypeOK, NEW c \in Callers, NEW r, Finish(c, r)
    PROVE  Moves(c) /\ pc'[c] = "done"
BY DEF Finish, Goto, Wait, Moves, TypeOK

LEMMA CallerMoves ==
    ASSUME TypeOK, NEW c \in Callers,
           Start(c) \/ Cancel(c) \/ Acquire(c) \/ Send(c) \/ Give(c) \/ Abandon(c) \/ Return(c)
    PROVE  Moves(c)
<1> USE DEF TypeOK
<1>1. CASE Start(c) \/ Cancel(c) \/ Return(c)
  BY <1>1 DEF Start, StartGetJWT, StartSubmit, StartWithToken, Cancel, Return, GoOn, Goto, Wait,
              Moves
<1>2. ASSUME NEW life, HaveJWT(c, life), pc[c] \in {"lock", "fetch"} PROVE Moves(c)
  BY <1>2, FinishMoves DEF HaveJWT, Goto, Wait, Moves
<1>3. CASE JWTHit(c) \/ JWTArrives(c)
  BY <1>2, <1>3 DEF JWTHit, JWTArrives
<1>4. CASE FetchJWT(c) \/ SendPubkey(c) \/ Post(c)
  BY <1>4 DEF FetchJWT, SendPubkey, Post, Wait, Moves
<1>5. CASE \/ FetchRefused(c) \/ EncodingFails(c) \/ SendRefused(c) \/ PostConcluded(c)
           \/ ExchangeFails(c) \/ PostLost(c) \/ BackoffCancelled(c)
  BY <1>5, FinishMoves
     DEF FetchRefused, EncodingFails, SendRefused, PostConcluded, ExchangeFails, PostLost,
         BackoffCancelled
<1>6. CASE PubkeyArrives(c)
  BY <1>6, FinishMoves DEF PubkeyArrives, Goto, Wait, Moves
<1>7. CASE PostRetried(c)
  BY <1>7, DurationAssumption DEF PostRetried, AttemptsLeft, Wait, Moves
<1>8. CASE BackoffOver(c)
  BY <1>8 DEF BackoffOver, GoOn, Goto, Wait, Moves
<1>9. QED
  BY <1>1, <1>3, <1>4, <1>5, <1>6, <1>7, <1>8 DEF Acquire, Send, Give, Abandon

LEMMA CallerLocks ==
    ASSUME TypeOK, NEW c \in Callers, \A d \in Callers : pc[d] = "fetch" <=> jwtMu = d,
           Start(c) \/ Cancel(c) \/ Acquire(c) \/ Send(c) \/ Give(c) \/ Abandon(c) \/ Return(c)
    PROVE  MutexOf(c)
<1> USE DEF TypeOK, shared, MutexOf
<1>1. CASE Start(c) \/ Cancel(c) \/ Return(c)
  BY <1>1 DEF Start, StartGetJWT, StartSubmit, StartWithToken, Cancel, Return, GoOn, Goto, Wait
<1>2. ASSUME NEW life, HaveJWT(c, life) PROVE pc'[c] \in {"done", "send"}
  BY <1>2, FinishMoves DEF HaveJWT, Goto, Wait
<1>3. CASE JWTHit(c) \/ JWTArrives(c)
  BY <1>2, <1>3 DEF JWTHit, JWTArrives
<1>4. CASE FetchJWT(c)
  BY <1>4 DEF FetchJWT, Wait, MutexFree
<1>5. CASE SendPubkey(c) \/ Post(c)
  BY <1>5 DEF SendPubkey, Post, Wait
<1>6. CASE \/ FetchRefused(c) \/ EncodingFails(c) \/ SendRefused(c) \/ PostConcluded(c)
           \/ PostLost(c) \/ BackoffCancelled(c)
  BY <1>6, FinishMoves
     DEF FetchRefused, EncodingFails, SendRefused, PostConcluded, PostLost, BackoffCancelled
<1>7. CASE ExchangeFails(c)
  BY <1>7, FinishMoves DEF ExchangeFails, Unlocked
<1>8. CASE PubkeyArrives(c)
  BY <1>8, FinishMoves DEF PubkeyArrives, Goto, Wait
<1>9. CASE PostRetried(c) \/ BackoffOver(c)
  BY <1>9 DEF PostRetried, BackoffOver, GoOn, Goto, Wait
<1>10. QED
  BY <1>1, <1>3, <1>4, <1>5, <1>6, <1>7, <1>8, <1>9 DEF Acquire, Send, Give, Abandon

LEMMA RoundsShrink ==
    ASSUME NEW n \in Nat, NEW k \in 0..n, NEW r \in Nat
    PROVE  /\ (n - k) * r \in Nat
           /\ (n - k) * r <= n * r
           /\ k < n => (n - k) * r = r + (n - (k + 1)) * r
OBVIOUS

\* The time a call has taken and the time ahead of it are no more than Longest.
TimeLeft(longest) ==
    \A c \in Callers :
        /\ age[c] \in Nat
        /\ ~Underway(c) => age[c] = 0
        /\ Underway(c) => age[c] + Ahead(c, longest) <= Longest(longest)

\* Who holds the mutex is in its exchange, and for no longer than its timeout.
Held ==
    /\ \A c \in Callers : pc[c] = "fetch" <=> jwtMu = c
    /\ \A c \in Callers : pc[c] = "fetch" => age[c] + timer[c] <= Timeout

LEMMA RoundsLeft ==
    ASSUME NEW longest \in Nat, NEW k \in 0..MaxRetries
    PROVE  /\ (MaxRetries - k) * Round(longest) \in Nat
           /\ Longest(longest) \in Nat /\ Timeout \in Nat
           /\ 3 * Timeout + (MaxRetries - k) * Round(longest) <= Longest(longest)
<1>1. Round(longest) \in Nat /\ Timeout \in Nat /\ MaxRetries \in Nat
  BY DurationAssumption DEF Round
<1>2. /\ (MaxRetries - k) * Round(longest) \in Nat
      /\ (MaxRetries - k) * Round(longest) <= MaxRetries * Round(longest)
  BY <1>1, RoundsShrink
<1>3. MaxRetries * Round(longest) \in Nat
  BY <1>1, RoundsShrink
<1>4. QED
  BY <1>1, <1>2, <1>3 DEF Longest

\* What is ahead of a caller, before and after a step, is a number.
LEMMA Sizes ==
    ASSUME TypeOK, TypeOK', NEW longest \in Nat, NEW c \in Callers
    PROVE  /\ Timeout \in Nat /\ Longest(longest) \in Nat
           /\ timer[c] \in Nat /\ Rounds(c, longest) \in Nat /\ Ahead(c, longest) \in Nat
           /\ timer'[c] \in Nat /\ Rounds(c, longest)' \in Nat /\ Ahead(c, longest)' \in Nat
           /\ 3 * Timeout + Rounds(c, longest)' <= Longest(longest)
           /\ attempt[c] \in 0..MaxRetries
<1>1. /\ attempt[c] \in 0..MaxRetries /\ timer[c] \in Nat
      /\ attempt'[c] \in 0..MaxRetries /\ timer'[c] \in Nat
  BY DEF TypeOK
<1>2. /\ Timeout \in Nat /\ Longest(longest) \in Nat
      /\ Rounds(c, longest) \in Nat /\ Rounds(c, longest)' \in Nat
      /\ 3 * Timeout + Rounds(c, longest)' <= Longest(longest)
  BY <1>1, RoundsLeft DEF Rounds
<1>3. Ahead(c, longest) \in Nat /\ Ahead(c, longest)' \in Nat
  BY <1>1, <1>2 DEF Ahead
<1>4. QED
  BY <1>1, <1>2, <1>3

\* A move that sends nothing again brings the end no further away.
LEMMA MoveAhead ==
    ASSUME TypeOK, TypeOK', NEW longest \in Nat, NEW c \in Callers, Moves(c), Underway(c),
           Underway(c)', UNCHANGED attempt[c]
    PROVE  Ahead(c, longest)' <= Ahead(c, longest)
<1>1. Rounds(c, longest)' = Rounds(c, longest)
  BY DEF Rounds
<1>2. Rounds(c, longest) \in Nat /\ Timeout \in Nat /\ timer[c] \in Nat /\ timer'[c] \in Nat
  BY Sizes
<1>3. CASE UNCHANGED <<pc[c], timer[c]>>
  BY <1>1, <1>3, Sizes DEF Ahead
<1>4. CASE pc'[c] = "send"
  <2>1. pc[c] \in {"fetch", "backoff"} \/ UNCHANGED <<pc[c], timer[c]>>
    BY <1>4 DEF Moves, Underway, Waiting, Exchanges
  <2>2. QED
    BY <1>1, <1>2, <1>3, <1>4, <2>1 DEF Ahead
<1>5. CASE pc[c] = "send" /\ pc'[c] \in {"pubkey", "post"} /\ timer'[c] = Timeout
  BY <1>1, <1>2, <1>5 DEF Ahead
<1>6. CASE pc[c] = "pubkey" /\ pc'[c] = "seal"
  BY <1>1, <1>2, <1>6 DEF Ahead
<1>7. CASE pc[c] = "seal" /\ pc'[c] = "post" /\ timer'[c] = Timeout
  BY <1>1, <1>2, <1>7 DEF Ahead
<1>8. QED
  <2>1. attempt'[c] # attempt[c] + 1
    BY Sizes
  <2>2. pc[c] \notin {"idle", "lock"} /\ pc'[c] \notin {"idle", "lock", "done"}
    BY DEF Underway, Waiting, Exchanges
  <2>3. QED
    BY <1>3, <1>4, <1>5, <1>6, <1>7, <2>1, <2>2 DEF Moves

\* A retry takes one round away.
LEMMA RetryAhead ==
    ASSUME TypeOK, TypeOK', NEW longest \in Nat, \A k \in 1..MaxRetries : Delay(k) <= longest,
           NEW c \in Callers, pc[c] = "post", pc'[c] = "backoff", attempt[c] < MaxRetries,
           attempt'[c] = attempt[c] + 1, timer'[c] = Delay(attempt'[c])
    PROVE  Ahead(c, longest)' <= Ahead(c, longest)
<1>1. Rounds(c, longest) = Round(longest) + Rounds(c, longest)'
  <2>1. Round(longest) \in Nat /\ MaxRetries \in Nat /\ attempt[c] \in 0..MaxRetries
    BY DurationAssumption, Sizes DEF Round
  <2>2. attempt[c] < MaxRetries => (MaxRetries - attempt[c]) * Round(longest)
          = Round(longest) + (MaxRetries - (attempt[c] + 1)) * Round(longest)
    BY <2>1, RoundsShrink
  <2>3. QED
    BY <2>2 DEF Rounds
<1>2. timer'[c] <= longest
  <2>1. attempt'[c] \in 1..MaxRetries
    BY Sizes, DurationAssumption
  <2>2. QED
    BY <2>1
<1>3. Rounds(c, longest)' \in Nat
  BY Sizes
<1>4. Timeout \in Nat /\ timer[c] \in Nat /\ timer'[c] \in Nat
  BY Sizes
<1>5. QED
  BY <1>1, <1>2, <1>3, <1>4 DEF Ahead, Round

LEMMA MoveLeaves ==
    ASSUME TypeOK, TypeOK', NEW longest \in Nat, \A k \in 1..MaxRetries : Delay(k) <= longest,
           TimeLeft(longest), Aging, ~Tick, NEW c \in Callers, Moves(c)
    PROVE  TimeLeft(longest)'
<1>1. \A d \in Callers : age'[d] = IF ~Underway(d)' THEN 0 ELSE age[d]
  BY DEF Aging
<1>2. ASSUME NEW d \in Callers, Underway(d), Underway(d)', Ahead(d, longest)' <= Ahead(d, longest)
      PROVE  age'[d] + Ahead(d, longest)' <= Longest(longest)
  <2>1. age'[d] = age[d] /\ age[d] \in Nat /\ age[d] + Ahead(d, longest) <= Longest(longest)
    BY <1>1, <1>2 DEF TimeLeft
  <2>2. QED
    BY <1>2, <2>1, Sizes
<1>3. ASSUME NEW d \in Callers \ {c}, Underway(d)'
      PROVE  age'[d] + Ahead(d, longest)' <= Longest(longest)
  <2>1. Ahead(d, longest)' = Ahead(d, longest) /\ Underway(d)
    BY <1>3 DEF Moves, Ahead, Rounds, Underway
  <2>2. QED
    BY <1>2, <1>3, <2>1, Sizes
<1>4. ASSUME Underway(c)'
      PROVE  age'[c] + Ahead(c, longest)' <= Longest(longest)
  <2>1. CASE ~Underway(c)
    <3>1. age'[c] = 0
      BY <1>1, <2>1, <1>4 DEF TimeLeft
    <3>2. pc'[c] \in {"send", "fetch"} /\ (pc'[c] = "fetch" => timer'[c] = Timeout)
      BY <1>4, <2>1 DEF Moves, Underway, Waiting, Exchanges
    <3>3. /\ Timeout \in Nat /\ Longest(longest) \in Nat
          /\ Rounds(c, longest)' \in Nat /\ Ahead(c, longest)' \in Nat
          /\ 3 * Timeout + Rounds(c, longest)' <= Longest(longest)
      BY Sizes
    <3>4. Ahead(c, longest)' <= 3 * Timeout + Rounds(c, longest)'
      <4>1. CASE pc'[c] = "send"
        BY <3>3, <4>1 DEF Ahead
      <4>2. CASE pc'[c] = "fetch" /\ timer'[c] = Timeout
        BY <3>3, <4>2 DEF Ahead
      <4>3. QED
        BY <3>2, <4>1, <4>2
    <3>5. QED
      BY <3>1, <3>3, <3>4
  <2>2. CASE Underway(c) /\ UNCHANGED attempt[c]
    BY <1>2, <1>4, <2>2, MoveAhead
  <2>3. CASE Underway(c) /\ ~UNCHANGED attempt[c]
    BY <1>2, <1>4, <2>3, RetryAhead DEF Moves, Underway, Waiting, Exchanges
  <2>4. QED
    BY <2>1, <2>2, <2>3
<1>5. QED
  BY <1>1, <1>3, <1>4 DEF TimeLeft

LEMMA TickLeaves ==
    ASSUME TypeOK, TypeOK', NEW longest \in Nat, TimeLeft(longest), Aging, Tick
    PROVE  TimeLeft(longest)'
<1>1. UNCHANGED <<pc, attempt>>
  BY DEF Tick
<1>2. ASSUME NEW c \in Callers, Underway(c)
      PROVE  pc[c] \in Waiting /\ timer'[c] = timer[c] - 1
  <2>1. pc[c] \in Waiting /\ timer[c] # 0
    BY <1>2 DEF Tick, Underway, Due
  <2>2. timer'[c] = Dec(timer[c])
    BY DEF Tick
  <2>3. QED
    BY <2>1, <2>2 DEF Dec
<1>3. \A c \in Callers : /\ Underway(c)' <=> Underway(c)
                        /\ age'[c] = IF Underway(c) THEN age[c] + 1 ELSE 0
  BY <1>1 DEF Aging, Underway
<1>4. ASSUME NEW c \in Callers, Underway(c)
      PROVE  Ahead(c, longest)' = Ahead(c, longest) - 1
  <2>1. Rounds(c, longest)' = Rounds(c, longest) /\ pc'[c] = pc[c]
    BY <1>1 DEF Rounds
  <2>2. Rounds(c, longest) \in Nat /\ Timeout \in Nat /\ timer[c] \in Nat
    BY Sizes
  <2>3. pc[c] \in {"fetch", "backoff", "pubkey", "post"}
    BY <1>2, <1>4 DEF Waiting, Exchanges
  <2>4. QED
    BY <1>2, <1>4, <2>1, <2>2, <2>3 DEF Ahead
<1>5. ASSUME NEW c \in Callers
      PROVE  /\ age'[c] \in Nat
             /\ ~Underway(c)' => age'[c] = 0
             /\ Underway(c)' => age'[c] + Ahead(c, longest)' <= Longest(longest)
  BY <1>3, <1>4, Sizes DEF TimeLeft
<1>6. QED
  BY <1>5 DEF TimeLeft

LEMMA TimeLeftInv ==
    ASSUME TypeOK, TypeOK', NEW longest \in Nat, \A k \in 1..MaxRetries : Delay(k) <= longest,
           TimeLeft(longest), [Next]_vars, [Aging]_<<vars, age>>
    PROVE  TimeLeft(longest)'
<1>1. CASE UNCHANGED <<vars, age>>
  <2>1. UNCHANGED <<pc, timer, attempt, age>>
    BY <1>1 DEF vars
  <2>2. QED
    BY <2>1 DEF TimeLeft, Underway, Ahead, Rounds
<1>2. CASE Aging /\ Tick
  BY <1>2, TickLeaves
<1>3. CASE Aging /\ ~Tick /\ UNCHANGED <<pc, timer, attempt>>
  <2>1. ASSUME NEW c \in Callers PROVE Moves(c)
    BY <1>3 DEF Moves
  <2>2. CASE Callers = {}
    BY <2>2 DEF TimeLeft
  <2>3. QED
    BY <1>3, <2>1, <2>2, MoveLeaves
<1>4. ASSUME Aging, ~Tick, NEW c \in Callers,
             Start(c) \/ Cancel(c) \/ Acquire(c) \/ Send(c) \/ Give(c) \/ Abandon(c) \/ Return(c)
      PROVE  TimeLeft(longest)'
  BY <1>4, CallerMoves, MoveLeaves
<1>5. SetProverURIBegins \/ SetProverURIEnds \/ UNCHANGED vars => UNCHANGED <<pc, timer, attempt>>
  BY DEF SetProverURIBegins, SetProverURIEnds, vars
<1>6. QED
  BY <1>1, <1>2, <1>3, <1>4, <1>5 DEF Next

LEMMA HeldInv ==
    ASSUME TypeOK, TypeOK', NEW longest \in Nat, TimeLeft(longest), Held,
           [Next]_vars, [Aging]_<<vars, age>>
    PROVE  Held'
<1>1. CASE UNCHANGED <<vars, age>>
  BY <1>1 DEF Held, vars
<1>2. \A c \in Callers : age[c] \in Nat /\ timer[c] \in Nat /\ timer'[c] \in Nat /\ Timeout \in Nat
  BY Sizes DEF TimeLeft
<1>3. \A c \in Callers : pc[c] = "lock" => age[c] = 0
  BY DEF TimeLeft, Underway, Waiting, Exchanges
<1>4. ASSUME NEW c \in Callers PROVE (pc[c] = "fetch")' => Underway(c)'
  BY DEF Underway, Waiting, Exchanges
<1>5. CASE Aging /\ Tick
  <2>1. UNCHANGED <<pc, jwtMu>>
    BY <1>5 DEF Tick
  <2>2. ASSUME NEW c \in Callers, pc[c] = "fetch"
        PROVE  timer[c] > 0 /\ timer'[c] = timer[c] - 1 /\ age'[c] = age[c] + 1
    <3>1. timer[c] # 0
      BY <1>5, <2>2 DEF Tick, Due, Waiting, Exchanges
    <3>2. timer'[c] = Dec(timer[c]) /\ age'[c] = age[c] + 1
      BY <1>4, <1>5, <2>1, <2>2 DEF Tick, Aging
    <3>3. timer[c] \in Nat
      BY <1>2
    <3>4. QED
      BY <3>1, <3>2, <3>3 DEF Dec
  <2>3. ASSUME NEW c \in Callers, pc[c] = "fetch"
        PROVE  age'[c] + timer'[c] <= Timeout
    <3>1. age[c] \in Nat /\ timer[c] \in Nat /\ Timeout \in Nat
      BY <1>2
    <3>2. age[c] + timer[c] <= Timeout
      BY <2>3 DEF Held
    <3>3. QED
      BY <2>2, <2>3, <3>1, <3>2
  <2>4. QED
    BY <2>1, <2>3 DEF Held
<1>6. ASSUME Aging, ~Tick, UNCHANGED <<pc, timer, jwtMu>> PROVE Held'
  BY <1>4, <1>6 DEF Held, Aging
<1>7. ASSUME Aging, ~Tick, NEW c \in Callers, Moves(c), MutexOf(c) PROVE Held'
  <2>1. \A d \in Callers \ {c} : UNCHANGED <<pc[d], timer[d]>>
    BY <1>7 DEF Moves
  <2>2. \A d \in Callers : (pc[d] = "fetch")' => age'[d] = age[d]
    BY <1>4, <1>7 DEF Aging
  <2>3. \A d \in Callers : (pc[d] = "fetch" <=> jwtMu = d)'
    BY <1>7, <2>1, CallerAssumption DEF MutexOf, Held
  <2>4. (pc[c] = "fetch")' => age'[c] + timer'[c] <= Timeout
    <3>1. CASE pc[c] = "fetch" /\ UNCHANGED timer[c]
      BY <2>2, <3>1 DEF Held
    <3>2. CASE pc[c] = "lock" /\ timer'[c] = Timeout
      <4>1. age[c] = 0 /\ Timeout \in Nat
        BY <1>2, <1>3, <3>2
      <4>2. QED
        BY <2>2, <3>2, <4>1
    <3>3. QED
      BY <1>7, <3>1, <3>2 DEF Moves
  <2>5. QED
    BY <2>1, <2>2, <2>3, <2>4 DEF Held
<1>8. ASSUME Aging, ~Tick, NEW c \in Callers,
             Start(c) \/ Cancel(c) \/ Acquire(c) \/ Send(c) \/ Give(c) \/ Abandon(c) \/ Return(c)
      PROVE  Held'
  BY <1>7, <1>8, CallerMoves, CallerLocks DEF Held
<1>9. SetProverURIBegins \/ SetProverURIEnds \/ UNCHANGED vars => UNCHANGED <<pc, timer, jwtMu>>
  BY DEF SetProverURIBegins, SetProverURIEnds, vars
<1>10. QED
  BY <1>1, <1>5, <1>6, <1>8, <1>9 DEF Next

(***************************************************************************)
(* A call that is past the mutex ends within Longest, whatever the services*)
(* do and the other goroutines: with backoffs of at most longest, three    *)
(* exchanges and MaxRetries rounds more.  And nobody keeps the mutex for   *)
(* longer than one exchange takes (Timeout of the http.Client,             *)
(* SubmitProvingRequestSafe, GetJWT).                                      *)
(***************************************************************************)
THEOREM CallsAreShort ==
    ASSUME NEW longest \in Nat, \A k \in 1..MaxRetries : Delay(k) <= longest
    PROVE  TimedSpec => [](/\ \A c \in Callers : age[c] <= Longest(longest)
                           /\ jwtMu # NoCaller => pc[jwtMu] = "fetch" /\ age[jwtMu] <= Timeout)
<1>1. Init /\ age = [c \in Callers |-> 0] => TimeLeft(longest) /\ Held
  BY CallerAssumption DEF Init, TimeLeft, Held, Underway, Waiting, Exchanges
<1>2. /\ TypeOK /\ TypeOK' /\ TimeLeft(longest) /\ Held
      /\ [Next]_vars /\ [Aging]_<<vars, age>>
      => TimeLeft(longest)' /\ Held'
  BY TimeLeftInv, HeldInv
<1>3. TypeOK /\ TimeLeft(longest) /\ Held
      => /\ \A c \in Callers : age[c] <= Longest(longest)
         /\ jwtMu # NoCaller => pc[jwtMu] = "fetch" /\ age[jwtMu] <= Timeout
  <2> SUFFICES ASSUME TypeOK, TimeLeft(longest), Held
               PROVE  /\ \A c \in Callers : age[c] <= Longest(longest)
                      /\ jwtMu # NoCaller => pc[jwtMu] = "fetch" /\ age[jwtMu] <= Timeout
    OBVIOUS
  <2>1. ASSUME NEW c \in Callers PROVE age[c] <= Longest(longest)
    <3>1. /\ attempt[c] \in 0..MaxRetries /\ timer[c] \in Nat /\ age[c] \in Nat
          /\ Rounds(c, longest) \in Nat /\ Timeout \in Nat /\ Longest(longest) \in Nat
      BY RoundsLeft DEF TypeOK, TimeLeft, Rounds
    <3>2. Ahead(c, longest) \in Nat
      BY <3>1 DEF Ahead
    <3>3. QED
      BY <3>1, <3>2 DEF TimeLeft
  <2>2. ASSUME jwtMu # NoCaller PROVE pc[jwtMu] = "fetch" /\ age[jwtMu] <= Timeout
    <3>1. jwtMu \in Callers /\ timer[jwtMu] \in Nat /\ age[jwtMu] \in Nat /\ Timeout \in Nat
      BY <2>2, DurationAssumption DEF TypeOK, TimeLeft
    <3>2. pc[jwtMu] = "fetch" /\ age[jwtMu] + timer[jwtMu] <= Timeout
      BY <3>1 DEF Held
    <3>3. QED
      BY <3>1, <3>2
  <2>3. QED
    BY <2>1, <2>2
<1>4. QED
  BY <1>1, <1>2, <1>3, TypeCorrect, PTL DEF Spec, TimedSpec

===============================================================================
