------------------------- MODULE RetriedCall_proofs -------------------------
(* What follows from RetriedCall, and so holds of all that implement it.   *)
EXTENDS RetriedCall, TLAPS

Counted == MaxRetries \in Nat

Outcomes == Answers \cup Transient

Types ==
    /\ phase \in [Callers -> {"idle", "busy", "flying", "over"}]
    /\ log \in [Callers -> Seq(Outcomes)]
    /\ verdict \in [Callers -> {"none", "good", "refused", "error"}]

\* No more than MaxRetries + 1 requests, and none after an answer that does not invite it.
Bounded(c) ==
    /\ Len(log[c]) <= MaxRetries + 1
    /\ phase[c] = "flying" => Len(log[c]) <= MaxRetries
    /\ \A i \in 1..(Len(log[c]) - 1) : log[c][i] \in Transient
    /\ phase[c] # "over" => \A i \in 1..Len(log[c]) : log[c][i] \in Transient

\* Success after a good answer only, refusal after another one only, and an error after
\* no answer but those that invite to a retry.
Decided(c) ==
    /\ verdict[c] = "good" => log[c] # <<>> /\ log[c][Len(log[c])] \in Good
    /\ verdict[c] = "refused" => log[c] # <<>> /\ log[c][Len(log[c])] \notin Good
    /\ verdict[c] = "error" => \A i \in 1..Len(log[c]) : log[c][i] \in Transient
    /\ verdict[c] # "none" <=> phase[c] = "over"

(***************************************************************************)
(* No call has more requests than it may, the one that is under way        *)
(* included, and none follows an answer that did not invite it.            *)
(***************************************************************************)
SubmissionsBounded == \A c \in Callers : Bounded(c)

(***************************************************************************)
(* The last answer decides what a call reports.                            *)
(***************************************************************************)
LastDecides == \A c \in Callers : Decided(c)

Inv == Types /\ SubmissionsBounded /\ LastDecides

-----------------------------------------------------------------------------

LEMMA AppendKeeps ==
    ASSUME NEW s \in Seq(Outcomes), NEW a \in Outcomes
    PROVE  /\ Append(s, a) \in Seq(Outcomes)
           /\ Len(Append(s, a)) = Len(s) + 1
           /\ Append(s, a) # <<>>
           /\ Append(s, a)[Len(s) + 1] = a
           /\ \A i \in 1..Len(s) : Append(s, a)[i] = s[i]
OBVIOUS

\* A step of one caller leaves the others alone.
LEMMA OneCaller ==
    ASSUME Inv, Types', NEW c \in Callers, Bounded(c)', Decided(c)',
           \A d \in Callers \ {c} : UNCHANGED <<phase[d], log[d], verdict[d]>>
    PROVE  Inv'
<1>1. ASSUME NEW d \in Callers \ {c} PROVE Bounded(d)' /\ Decided(d)'
  BY DEF Inv, SubmissionsBounded, LastDecides, Bounded, Decided
<1>2. QED
  BY <1>1 DEF Inv, SubmissionsBounded, LastDecides

LEMMA BoundKept == ASSUME Counted, Inv, [Next]_vars PROVE Inv'
<1>1. CASE UNCHANGED vars
  BY <1>1 DEF vars, Inv, Types, SubmissionsBounded, LastDecides, Bounded, Decided
<1>2. ASSUME NEW c \in Callers, AnswerInvitesRetry(c) PROVE Inv'
  <2>1. PICK a \in Transient : log' = [log EXCEPT ![c] = Append(@, a)]
    BY <1>2 DEF AnswerInvitesRetry
  <2>2. /\ log[c] \in Seq(Outcomes) /\ a \in Outcomes
        /\ log'[c] = Append(log[c], a)
        /\ phase[c] = "flying" /\ phase'[c] = "busy"
        /\ verdict'[c] = verdict[c] /\ verdict[c] = "none"
    BY <1>2, <2>1 DEF AnswerInvitesRetry, Inv, Types, Outcomes, LastDecides, Decided
  <2>3. Types'
    BY <1>2, <2>1, <2>2, AppendKeeps DEF AnswerInvitesRetry, Inv, Types
  <2>4. Bounded(c)'
    <3>1. Len(log[c]) <= MaxRetries /\ \A i \in 1..Len(log[c]) : log[c][i] \in Transient
      BY <2>2 DEF Inv, SubmissionsBounded, Bounded
    <3>2. \A i \in 1..Len(log'[c]) : log'[c][i] \in Transient
      BY <2>2, <3>1, AppendKeeps
    <3>3. QED
      BY <2>2, <3>1, <3>2, AppendKeeps DEF Bounded, Counted
  <2>5. Decided(c)'
    BY <2>2 DEF Decided
  <2>6. QED
    BY <1>2, <2>1, <2>3, <2>4, <2>5, OneCaller DEF AnswerInvitesRetry, Inv, Types
<1>3. ASSUME NEW c \in Callers, AnswerConcludes(c) PROVE Inv'
  <2>1. PICK a \in Answers :
          /\ log' = [log EXCEPT ![c] = Append(@, a)]
          /\ verdict' = [verdict EXCEPT ![c] = Verdict(Append(log[c], a))]
    BY <1>3 DEF AnswerConcludes
  <2>2. /\ log[c] \in Seq(Outcomes) /\ a \in Outcomes
        /\ log'[c] = Append(log[c], a)
        /\ phase[c] = "flying" /\ phase'[c] = "over"
    BY <1>3, <2>1 DEF AnswerConcludes, Inv, Types, Outcomes
  <2>3. verdict'[c] = IF a \in Good THEN "good" ELSE "refused"
    BY <2>1, <2>2, AppendKeeps DEF Verdict, Inv, Types
  <2>4. Types'
    BY <1>3, <2>1, <2>2, <2>3, AppendKeeps DEF AnswerConcludes, Inv, Types
  <2>5. Bounded(c)'
    <3>1. Len(log[c]) <= MaxRetries /\ \A i \in 1..Len(log[c]) : log[c][i] \in Transient
      BY <2>2 DEF Inv, SubmissionsBounded, Bounded
    <3>2. Len(log'[c]) - 1 = Len(log[c])
      BY <2>2, AppendKeeps
    <3>3. \A i \in 1..(Len(log'[c]) - 1) : log'[c][i] \in Transient
      BY <2>2, <3>1, <3>2, AppendKeeps
    <3>4. QED
      BY <2>2, <3>1, <3>2, <3>3, AppendKeeps DEF Bounded, Counted
  <2>6. Decided(c)'
    BY <2>2, <2>3, AppendKeeps DEF Decided
  <2>7. QED
    BY <1>3, <2>1, <2>4, <2>5, <2>6, OneCaller DEF AnswerConcludes, Inv, Types
<1>4. ASSUME NEW c \in Callers, GiveUp(c) PROVE Inv'
  <2>1. /\ phase[c] = "busy" /\ phase'[c] = "over" /\ log[c] # <<>>
        /\ verdict'[c] = Verdict(log[c]) /\ log'[c] = log[c]
        /\ log[c] \in Seq(Outcomes)
    BY <1>4 DEF GiveUp, Inv, Types
  <2>2. Types'
    BY <1>4 DEF GiveUp, Verdict, Inv, Types
  <2>3. Bounded(c)'
    BY <2>1 DEF Inv, SubmissionsBounded, Bounded
  <2>4. Decided(c)'
    BY <2>1 DEF Verdict, Decided
  <2>5. QED
    BY <1>4, <2>2, <2>3, <2>4, OneCaller DEF GiveUp, Inv, Types
<1>5. ASSUME NEW c \in Callers, Begin(c) \/ Submit(c) \/ Fail(c) \/ Return(c) PROVE Inv'
  <2>1. Types' /\ \A d \in Callers \ {c} : UNCHANGED <<phase[d], log[d], verdict[d]>>
    <3>1. /\ \E l \in {"idle", "busy", "flying", "over"} : phase' = [phase EXCEPT ![c] = l]
          /\ log' = log \/ log' = [log EXCEPT ![c] = <<>>]
          /\ verdict' = verdict
               \/ \E v \in {"none", "error"} : verdict' = [verdict EXCEPT ![c] = v]
      BY <1>5 DEF Begin, Submit, Fail, Return
    <3>2. phase' \in [Callers -> {"idle", "busy", "flying", "over"}]
      BY <3>1 DEF Inv, Types
    <3>3. log' \in [Callers -> Seq(Outcomes)]
      <4>1. <<>> \in Seq(Outcomes) /\ log \in [Callers -> Seq(Outcomes)]
        BY DEF Inv, Types
      <4>2. QED
        BY <3>1, <4>1
    <3>4. verdict' \in [Callers -> {"none", "good", "refused", "error"}]
      BY <3>1 DEF Inv, Types
    <3>5. \A d \in Callers \ {c} : UNCHANGED <<phase[d], log[d], verdict[d]>>
      BY <3>1 DEF Inv, Types
    <3>6. QED
      BY <3>2, <3>3, <3>4, <3>5 DEF Types
  <2>2. /\ log[c] \in Seq(Outcomes) /\ Len(log[c]) \in Nat
        /\ Bounded(c) /\ Decided(c)
    BY DEF Inv, Types, SubmissionsBounded, LastDecides
  <2>3. CASE Begin(c)
    <3>1. /\ phase[c] = "idle" /\ phase'[c] = "busy"
          /\ log'[c] = log[c] /\ verdict'[c] = verdict[c]
      BY <2>3 DEF Begin, Inv, Types
    <3>2. Bounded(c)'
      BY <2>2, <3>1 DEF Bounded, Counted
    <3>3. Decided(c)'
      BY <2>2, <3>1 DEF Decided
    <3>4. QED
      BY <2>1, <3>2, <3>3, OneCaller
  <2>4. CASE Return(c)
    <3>1. phase'[c] = "idle" /\ log'[c] = <<>> /\ verdict'[c] = "none"
      BY <2>4 DEF Return, Inv, Types
    <3>2. Bounded(c)'
      BY <3>1 DEF Bounded, Counted
    <3>3. Decided(c)'
      BY <3>1 DEF Decided
    <3>4. QED
      BY <2>1, <3>2, <3>3, OneCaller
  <2>5. CASE Submit(c)
    <3>1. /\ phase[c] = "busy" /\ phase'[c] = "flying" /\ MayResubmit(log[c])
          /\ log'[c] = log[c] /\ verdict'[c] = verdict[c]
      BY <2>5 DEF Submit, Inv, Types
    <3>2. Bounded(c)'
      BY <2>2, <3>1 DEF MayResubmit, Bounded, Counted
    <3>3. Decided(c)'
      BY <2>2, <3>1 DEF Bounded, Decided
    <3>4. QED
      BY <2>1, <3>2, <3>3, OneCaller
  <2>6. CASE Fail(c)
    <3>1. /\ phase[c] \in {"busy", "flying"} /\ phase'[c] = "over"
          /\ log'[c] = log[c] /\ verdict'[c] = "error"
      BY <2>6 DEF Fail, Inv, Types
    <3>2. Bounded(c)'
      BY <2>2, <3>1 DEF Bounded, Counted
    <3>3. Decided(c)'
      BY <2>2, <3>1 DEF Bounded, Decided
    <3>4. QED
      BY <2>1, <3>2, <3>3, OneCaller
  <2>7. QED
    BY <1>5, <2>3, <2>4, <2>5, <2>6
<1>6. QED
  BY <1>1, <1>2, <1>3, <1>4, <1>5 DEF Next

\* Of every implementation of RetriedCall: a call has no more requests than it may,
\* and what it reports is what the last answer said.
THEOREM PromiseBounds == Counted => (Spec => [](SubmissionsBounded /\ LastDecides))
<1> SUFFICES ASSUME Counted PROVE Spec => [](SubmissionsBounded /\ LastDecides)
  OBVIOUS
<1>1. Init => Inv
  BY DEF Init, Inv, Types, SubmissionsBounded, LastDecides, Bounded, Decided, Counted
<1>2. QED
  BY <1>1, BoundKept, PTL DEF Spec, Inv

=============================================================================
