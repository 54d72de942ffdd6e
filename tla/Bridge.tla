------------------------------- MODULE Bridge -------------------------------
(***************************************************************************)
(* The bridge between Go and Rust (internal/ffi and rust-bridge): Go lends *)
(* C strings to a C function that Rust implements, Rust catches errors and *)
(* panics and gives a string of its own back, and Go frees both.  The      *)
(* functions that need snarkVM's process share one, loaded by the first of *)
(* them while the others wait, and work on a clone of it.                  *)
(***************************************************************************)
EXTENDS Naturals, FiniteSets

CONSTANTS
    Callers,      \* goroutines
    NoCaller,     \* nobody loads the process
    Functions,    \* the C functions they call, other than with the account's key
    Programs      \* programs that calls bring along

ASSUME CallerAssumption == NoCaller \notin Callers

\* The number of C strings a function is lent; a fee may be none.
Strings == [private_key_new |-> {0}, derive_all_keys |-> {1}, sign_message |-> {1},
            verify_signature |-> {2}, decrypt_record |-> {2}, program_id |-> {1},
            execute_program |-> {4}, authorize |-> {5},
            proving_request_to_bytes |-> {1, 2}, hash |-> {1}, verify_execution |-> {1}]

ASSUME FunctionAssumption == Functions \subseteq DOMAIN Strings

VARIABLES
    pc,           \* where each caller is
    fn, text,     \* the function it calls; whether Rust can parse what it brings
    lent,         \* the C strings of Go that are allocated for its call
    owed,         \* whether a string of Rust is allocated for it
    outcome,      \* what Rust made of the call
    message,      \* what its error says
    result,       \* what the Go function returned
    PROCESS,      \* the state of the static
    loader,       \* the caller that loads it
    base,         \* the programs of the shared process, besides credits.aleo
    clone         \* the programs of each caller's clone

call == <<fn, text>>
memory == <<lent, owed>>
answer == <<outcome, message>>
static == <<PROCESS, loader, base>>
bridge == <<pc, call, memory, answer, result, static, clone>>

Inside == {"rust", "process", "load", "execute"}
Failures == {"err", "panic", "exists"}
Outcomes == {"none", "value", "invalid"} \cup Failures

\* An error's message may have quotes or a NUL in it, or be empty.
Messages == {"none", "plain", "quoted", "nul", "empty"}

\* "other" is a string that Rust gave back for no value.
Results == {"none", "value", "true", "false", "other", "error"}

Labels == Inside \cup {"idle", "back", "done"}

BridgeTypeOK ==
    /\ fn \in [Callers -> DOMAIN Strings \cup {"none"}]
    /\ text \in [Callers -> {"good", "bad"}]
    /\ lent \in [Callers -> 0..5]
    /\ owed \in [Callers -> BOOLEAN]
    /\ outcome \in [Callers -> Outcomes]
    /\ message \in [Callers -> Messages]
    /\ result \in [Callers -> Results]
    /\ PROCESS \in {"unset", "loading", "ready", "failed", "poisoned"}
    /\ loader \in Callers \cup {NoCaller}
    /\ base \subseteq Programs
    /\ clone \in [Callers -> SUBSET Programs]

BridgeInit ==
    /\ pc = [c \in Callers |-> "idle"]
    /\ fn = [c \in Callers |-> "none"]
    /\ text = [c \in Callers |-> "good"]
    /\ lent = [c \in Callers |-> 0]
    /\ owed = [c \in Callers |-> FALSE]
    /\ outcome = [c \in Callers |-> "none"]
    /\ message = [c \in Callers |-> "none"]
    /\ result = [c \in Callers |-> "none"]
    /\ PROCESS = "unset"
    /\ loader = NoCaller
    /\ base = {}
    /\ clone = [c \in Callers |-> {}]

Goto(c, label) == pc' = [pc EXCEPT ![c] = label]

-----------------------------------------------------------------------------
(* Go calls                                                                *)

\* C.CString for every argument, and the call.
Lend(c, f, t) ==
    /\ Goto(c, "rust")
    /\ fn' = [fn EXCEPT ![c] = f]
    /\ text' = [text EXCEPT ![c] = t]
    /\ \E n \in Strings[f] : lent' = [lent EXCEPT ![c] = n]
    /\ UNCHANGED <<owed, answer, result, static, clone>>

\* A function ends without the bridge.
Finish(c, r) ==
    /\ Goto(c, "done")
    /\ result' = [result EXCEPT ![c] = r]
    /\ UNCHANGED <<call, memory, answer, static, clone>>

\* Hash knows some algorithms only.
Call(c) ==
    /\ pc[c] = "idle"
    /\ \/ \E f \in Functions, t \in {"good", "bad"} : Lend(c, f, t)
       \/ Finish(c, "error")

-----------------------------------------------------------------------------
(* Rust runs                                                               *)

\* Functions that pass snarkVM's errors on as they are, which may be empty, other than
\* those of a private key; and functions that read JSON, whose errors may quote a NUL.
Bare == {"decrypt_record", "program_id", "execute_program", "authorize"}
ReadsJSON == {"execute_program", "authorize", "proving_request_to_bytes", "hash",
              "verify_execution"}

\* The message of a panic is fixed; that of an error quotes what it is about, and the one
\* of a process not loaded has a prefix.
Words(c, o) ==
    CASE o \notin Failures -> {"none"}
      [] o \in Failures /\ (o # "err" \/ fn[c] = "verify_signature") -> {"plain"}
      [] OTHER -> {"quoted"}
                    \cup (IF fn[c] \in ReadsJSON THEN {"nul"} ELSE {})
                    \cup (IF fn[c] \in Bare /\ pc[c] # "process" THEN {"empty"} ELSE {})

\* ffi_catch: a value, an error and a panic all become one string, and the string
\* is Go's to give back.  A verification returns a number instead.
Ends(c, o) ==
    /\ Goto(c, "back")
    /\ outcome' = [outcome EXCEPT ![c] = o]
    /\ \E m \in Words(c, o) : message' = [message EXCEPT ![c] = m]
    /\ owed' = [owed EXCEPT ![c] = fn[c] # "verify_signature"]
    /\ clone' = [clone EXCEPT ![c] = {}]
    /\ text' = [text EXCEPT ![c] = "good"]
    /\ UNCHANGED <<fn, lent, result>>

UsesProcess(c) == fn[c] \in {"execute_program", "authorize", "verify_execution"}

\* What snarkVM may say: nothing it cannot parse has a value.
Verdicts(c) ==
    {"err", "panic"} \cup (IF text[c] = "bad" THEN {}
                           ELSE IF fn[c] = "verify_signature" THEN {"value", "invalid"}
                           ELSE {"value"})

Compute(c) ==
    /\ pc[c] = "rust"
    /\ ~UsesProcess(c)
    /\ \E o \in Verdicts(c) : Ends(c, o)
    /\ UNCHANGED static

\* The arguments are parsed before the process is asked for.
Parse(c) ==
    /\ pc[c] = "rust"
    /\ UsesProcess(c)
    /\ \/ /\ text[c] = "good"
          /\ Goto(c, "process")
          /\ UNCHANGED <<call, memory, answer, result, clone>>
       \/ \E o \in {"err", "panic"} : Ends(c, o)
    /\ UNCHANGED static

\* Mutant: the process is looked for without the lock of LazyLock.
LooksWithoutLock == PROCESS \in {"unset", "loading"}

NobodyLoads == PROCESS = "unset"

BeginLoad(c) ==
    /\ pc[c] = "process"
    /\ NobodyLoads
    /\ Goto(c, "load")
    /\ PROCESS' = "loading"
    /\ loader' = c
    /\ UNCHANGED <<call, memory, answer, result, base, clone>>

\* Mutant: a load that fails is tried again.
TriedAgain == "unset"

\* The static keeps the error of its initialization.
ErrorKept == "failed"

\* A panic goes on in the caller that loads, and LazyLock is poisoned for good.
EndLoad(c) ==
    /\ pc[c] = "load"
    /\ \/ /\ PROCESS' \in {"ready", ErrorKept}
          /\ Goto(c, "process")
          /\ UNCHANGED <<call, memory, answer, result, clone>>
       \/ /\ PROCESS' = "poisoned"
          /\ Ends(c, "panic")
    /\ loader' = NoCaller
    /\ UNCHANGED base

\* get_or_init_process: the clone, the error kept from loading, or the poison.
GetOrInitProcess(c) ==
    /\ pc[c] = "process"
    /\ \/ /\ PROCESS = "ready"
          /\ Goto(c, "execute")
          /\ clone' = [clone EXCEPT ![c] = base]
          /\ UNCHANGED <<call, memory, answer, result>>
       \/ PROCESS = "failed" /\ Ends(c, "err")
       \/ PROCESS = "poisoned" /\ Ends(c, "panic")
    /\ UNCHANGED static

\* Mutant: the process is not cloned.
AddedToAll(p) == base \cup {p}

\* add_program changes the caller's clone, which nobody else has.
Added(p) == base

\* add_program refuses a program that is there; execution or authorization follow.
AddProgram(c) ==
    /\ pc[c] = "execute"
    /\ fn[c] # "verify_execution"
    /\ \E p \in Programs :
         IF p \in clone[c] THEN Ends(c, "exists") /\ UNCHANGED base
         ELSE /\ \E o \in {"value", "err", "panic"} : Ends(c, o)
              /\ base' = Added(p)
    /\ UNCHANGED <<PROCESS, loader>>

\* verify_execution reads the shared process, which adds nothing to it.
VerifyWithProcess(c) ==
    /\ pc[c] = "execute"
    /\ fn[c] = "verify_execution"
    /\ \E o \in {"value", "err", "panic"} : Ends(c, o)
    /\ UNCHANGED static

-----------------------------------------------------------------------------
(* Back in Go                                                              *)

\* A string of Rust: whether it begins with {"error":" and is longer than that, the
\* characters in it that JSON does not take as they are, and what it holds.
Str(marked, raw, holds) == [marked |-> marked, raw |-> raw, holds |-> holds]
Null == Str(FALSE, {}, "null")

\* Mutant: the JSON of an error is put together with format!.
Formatted(m) == CASE m = "quoted" -> {"quote"} [] m = "nul" -> {"nul"} [] OTHER -> {}

\* serde_json leaves no character of a message that has to be escaped.
Escaped(m) == {}

\* CString::new refuses a NUL, and its default is empty.
ToCString(s) == IF "nul" \in s.raw THEN Str(FALSE, {}, "nothing") ELSE s

ErrorResult(m) == ToCString(Str(TRUE, Escaped(m), m))

\* The string of ffi_catch; no value begins as an error does, or has a NUL.
Caught(c) ==
    IF outcome[c] \in Failures THEN ErrorResult(message[c])
    ELSE ToCString(Str(FALSE, {}, IF fn[c] = "verify_execution" THEN "true" ELSE "value"))

\* resultOrError: the prefix, json.Unmarshal and a message make an error.  Any other
\* string is handed on, also the one of an error without a message.
ResultOrError(cstr) ==
    CASE cstr = Null -> "error"
      [] cstr.marked /\ cstr.raw = {} /\ cstr.holds # "empty" -> "error"
      [] OTHER -> IF cstr.holds \in {"value", "true"} THEN cstr.holds ELSE "other"

\* VerifySignature's switch on the number, which is 1, 0 or -1.
VerifySignature(o) ==
    CASE o = "value" -> "true"
      [] o = "invalid" -> "false"
      [] OTHER -> "error"

\* VerifyExecution compares the string with "true".
VerifyExecution(r) == IF r \in {"error", "true"} THEN r ELSE "false"

Answered(c) ==
    CASE fn[c] = "verify_signature" -> VerifySignature(outcome[c])
      [] fn[c] = "verify_execution" -> VerifyExecution(ResultOrError(Caught(c)))
      [] OTHER -> ResultOrError(Caught(c))

\* Mutant: the string of an error is not freed.
LeakedByErrors(c) == outcome[c] \in Failures

\* The deferred aleo_free_string runs before both returns of resultOrError.
Kept(c) == FALSE

\* Mutant: the arguments are freed by Rust as well.
FreedAgain(c) == 0 - lent[c]

\* Every C.CString has one deferred C.free.
Left(c) == 0

\* The string is copied and freed, and then the deferred C.free of each argument.
BackInGo(c) ==
    /\ pc[c] = "back"
    /\ Goto(c, "done")
    /\ result' = [result EXCEPT ![c] = Answered(c)]
    /\ owed' = [owed EXCEPT ![c] = Kept(c)]
    /\ lent' = [lent EXCEPT ![c] = Left(c)]
    /\ UNCHANGED <<call, answer, static, clone>>

Return(c) ==
    /\ pc[c] = "done"
    /\ Goto(c, "idle")
    /\ fn' = [fn EXCEPT ![c] = "none"]
    /\ outcome' = [outcome EXCEPT ![c] = "none"]
    /\ message' = [message EXCEPT ![c] = "none"]
    /\ result' = [result EXCEPT ![c] = "none"]
    /\ UNCHANGED <<text, memory, static, clone>>

\* The call on its way through Rust and back.
Crosses(c) ==
    \/ Compute(c) \/ Parse(c) \/ BeginLoad(c) \/ EndLoad(c) \/ GetOrInitProcess(c)
    \/ AddProgram(c) \/ VerifyWithProcess(c) \/ BackInGo(c)
=============================================================================
