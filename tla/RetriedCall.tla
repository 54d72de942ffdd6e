----------------------------- MODULE RetriedCall -----------------------------
(***************************************************************************)
(* What a call over HTTP with retries promises, whatever token, key, timer,*)
(* limiter or thread it takes to keep the promise:                         *)
(*                                                                         *)
(*   - a call has at most one request in flight;                           *)
(*   - it submits again only after an outcome that invites it to           *)
(*     (Transient), and never more than MaxRetries times;                  *)
(*   - it reports success exactly when the last answer carries it (Good),  *)
(*     and then it has stopped submitting.                                 *)
(*                                                                         *)
(* A request whose answer is lost may have been executed.  To the proving  *)
(* client that is the end of the call (Fail); to a GET of the node client  *)
(* it is one more outcome to retry.  ProvableClient and NetworkClient      *)
(* implement this specification.                                           *)
(***************************************************************************)
EXTENDS Naturals, Sequences

CONSTANTS
    Callers,      \* goroutines that may call
    Answers,      \* outcomes of a request
    Good,         \* the ones that carry what was asked for
    Transient,    \* the ones after which the same request may be sent again
    MaxRetries    \* submissions after the first

VARIABLES
    phase,        \* idle, busy (nothing in flight), flying or over
    log,          \* outcomes of the call's submissions, in order
    verdict       \* what the call reports when it is over

vars == <<phase, log, verdict>>

Verdict(answers) ==
    IF answers[Len(answers)] \in Good THEN "good" ELSE "refused"

MayResubmit(answers) ==
    /\ Len(answers) <= MaxRetries
    /\ \A i \in 1..Len(answers) : answers[i] \in Transient

-----------------------------------------------------------------------------

Init ==
    /\ phase = [c \in Callers |-> "idle"]
    /\ log = [c \in Callers |-> <<>>]
    /\ verdict = [c \in Callers |-> "none"]

Begin(c) ==
    /\ phase[c] = "idle"
    /\ phase' = [phase EXCEPT ![c] = "busy"]
    /\ UNCHANGED <<log, verdict>>

Submit(c) ==
    /\ phase[c] = "busy"
    /\ MayResubmit(log[c])
    /\ phase' = [phase EXCEPT ![c] = "flying"]
    /\ UNCHANGED <<log, verdict>>

AnswerInvitesRetry(c) ==
    /\ phase[c] = "flying"
    /\ \E a \in Transient : log' = [log EXCEPT ![c] = Append(@, a)]
    /\ phase' = [phase EXCEPT ![c] = "busy"]
    /\ UNCHANGED verdict

AnswerConcludes(c) ==
    /\ phase[c] = "flying"
    /\ \E a \in Answers :
         /\ log' = [log EXCEPT ![c] = Append(@, a)]
         /\ verdict' = [verdict EXCEPT ![c] = Verdict(Append(log[c], a))]
    /\ phase' = [phase EXCEPT ![c] = "over"]

\* The last retry that was allowed invited to another one.
GiveUp(c) ==
    /\ phase[c] = "busy"
    /\ Len(log[c]) > MaxRetries /\ log[c] # <<>>
    /\ phase' = [phase EXCEPT ![c] = "over"]
    /\ verdict' = [verdict EXCEPT ![c] = Verdict(log[c])]
    /\ UNCHANGED log

\* The call fails: before a submission, between two, or by losing the answer.
Fail(c) ==
    /\ phase[c] \in {"busy", "flying"}
    /\ phase' = [phase EXCEPT ![c] = "over"]
    /\ verdict' = [verdict EXCEPT ![c] = "error"]
    /\ UNCHANGED log

Return(c) ==
    /\ phase[c] = "over"
    /\ phase' = [phase EXCEPT ![c] = "idle"]
    /\ log' = [log EXCEPT ![c] = <<>>]
    /\ verdict' = [verdict EXCEPT ![c] = "none"]

Next ==
    \E c \in Callers :
        \/ Begin(c)
        \/ Submit(c)
        \/ AnswerInvitesRetry(c)
        \/ AnswerConcludes(c)
        \/ GiveUp(c)
        \/ Fail(c)
        \/ Return(c)

Spec == Init /\ [][Next]_vars

=============================================================================
