------------------------------ MODULE Account ------------------------------
(***************************************************************************)
(* An Account (account.go) and the calls that goroutines make through the  *)
(* bridge, with its key and with what they bring themselves.  The key is a *)
(* slice that Zeroize overwrites byte by byte: for its owner, or as the    *)
(* finalizer, which the garbage collector may run once no goroutine will   *)
(* use the account again.  A goroutine in its last operation has given the *)
(* account up as soon as it has loaded the slice's header.                 *)
(***************************************************************************)
EXTENDS Bridge

CONSTANT Owners      \* goroutines that call Zeroize themselves

VARIABLES
    account,     \* its life: "none", "live", "zeroized", "finalized"
    key,         \* which bytes of the private key are still there
    refs,        \* the goroutines that may use it again
    op,          \* the operation of the account that a caller is in
    copy,        \* what the operation's copy of the key has of each byte
    payload      \* the last encrypted key

object == <<account, key, refs>>
vars == <<bridge, object, op, copy, payload>>

\* A key of two bytes: enough for a copy that has only one of them.
Bytes == {1, 2}
Whole == [i \in Bytes |-> TRUE]
Zeros == [i \in Bytes |-> FALSE]
AllOf(x) == [i \in Bytes |-> x]

Making == {"generate", "create"}
Reading == {"get", "sign", "encrypt"}

TypeOK ==
    /\ BridgeTypeOK
    /\ pc \in [Callers -> Labels \cup {"check", "copy"}]
    /\ account \in {"none", "live", "zeroized", "finalized"}
    /\ key \in [Bytes -> BOOLEAN]
    /\ refs \subseteq Callers
    /\ op \in [Callers -> Making \cup Reading \cup {"none"}]
    /\ copy \in [Callers -> [Bytes -> {"unread", "key", "zero", "nil"}]]
    /\ payload \in {"none", "good", "bad", "nil"}

Init ==
    /\ BridgeInit
    /\ account = "none"
    /\ key = Zeros
    /\ refs = {}
    /\ op = [c \in Callers |-> "none"]
    /\ copy = [c \in Callers |-> AllOf("unread")]
    /\ payload = "none"

Enter(c, o) == op' = [op EXCEPT ![c] = o]

-----------------------------------------------------------------------------
(* Making an account                                                       *)

\* The instance has one account at a time.
NoneYet == account = "none" /\ \A c \in Callers : op[c] \notin Making

NewAccount(c) ==
    /\ pc[c] = "idle"
    /\ NoneYet
    /\ Enter(c, "generate")
    /\ Lend(c, "private_key_new", "good")
    /\ UNCHANGED <<object, copy, payload>>

AccountFromPrivateKey(c) ==
    /\ pc[c] = "idle"
    /\ NoneYet
    /\ Enter(c, "create")
    /\ \/ \E t \in {"good", "bad"} : Lend(c, "derive_all_keys", t)
       \/ Finish(c, "error")      \* the empty key
    /\ UNCHANGED <<object, copy, payload>>

\* A wrong password is refused, and so is the payload of no key.
AccountFromEncryptedPrivateKey(c) ==
    /\ pc[c] = "idle"
    /\ NoneYet
    /\ payload # "none"
    /\ Enter(c, "create")
    /\ \/ payload # "nil" /\ Lend(c, "derive_all_keys", payload)
       \/ Finish(c, "error")
    /\ UNCHANGED <<object, copy, payload>>

DeriveKeys(c) ==
    /\ pc[c] = "done"
    /\ op[c] = "generate"
    /\ result[c] = "value"
    /\ Enter(c, "create")
    /\ Lend(c, "derive_all_keys", "good")
    /\ UNCHANGED <<object, copy, payload>>

\* Mutant: the account keeps the plaintext, which the deferred zeroBytes overwrites.
SharedBytes == Zeros

\* The account has bytes of its own.
OwnBytes == Whole

\* accountFromSK sets the finalizer and returns.
Created(c) ==
    /\ pc[c] = "done"
    /\ op[c] = "create"
    /\ result[c] = "value"
    /\ account' = "live"
    /\ key' = OwnBytes
    /\ refs' = {c}
    /\ Enter(c, "none")
    /\ Return(c)
    /\ UNCHANGED <<copy, payload>>

-----------------------------------------------------------------------------
(* Using it                                                                *)

\* The slice's header is loaded: after that a last operation holds the bytes alone.
LoadHeader(c) ==
    /\ Goto(c, "copy")
    /\ copy' = [copy EXCEPT ![c] = AllOf(IF account = "zeroized" THEN "nil" ELSE "unread")]
    /\ refs' \in {refs, refs \ {c}}
    /\ UNCHANGED <<call, memory, answer, result, static, clone, account, key, payload>>

\* PrivateKey and the other accessors, and Sign, begin with string(a.privateKey).
Get(c) ==
    /\ pc[c] = "idle"
    /\ c \in refs
    /\ \E o \in {"get", "sign"} : Enter(c, o)
    /\ LoadHeader(c)

\* EncryptPrivateKey checks that there is a key, and derives one from the password.
Encrypt(c) ==
    /\ pc[c] = "idle"
    /\ c \in refs
    /\ Enter(c, "encrypt")
    /\ IF account = "zeroized" THEN Finish(c, "error")
       ELSE Goto(c, "check") /\ UNCHANGED <<call, memory, answer, result, static, clone>>
    /\ UNCHANGED <<object, copy, payload>>

\* The key is read again.
Seal(c) ==
    /\ pc[c] = "check"
    /\ LoadHeader(c)
    /\ UNCHANGED op

CopyByte(c) ==
    /\ pc[c] = "copy"
    /\ \E i \in Bytes :
         /\ copy[c][i] = "unread"
         /\ copy' = [copy EXCEPT ![c][i] = IF key[i] THEN "key" ELSE "zero"]
    /\ UNCHANGED <<bridge, object, op, payload>>

\* Mutant: the copy is checked by its length only.
LengthChecked(c) == IF copy[c] = AllOf("nil") THEN "bad" ELSE "good"

\* C.CString and CStr cut a string at the first zero, and no part of a key parses.
Text(c) == IF copy[c] = AllOf("key") THEN "good" ELSE "bad"

Copied(c) ==
    /\ pc[c] = "copy"
    /\ \A i \in Bytes : copy[c][i] # "unread"
    /\ CASE op[c] = "sign" -> Lend(c, "sign_message", Text(c)) /\ UNCHANGED payload
         [] op[c] = "get" -> Finish(c, "value") /\ UNCHANGED payload
         [] OTHER -> /\ Finish(c, "value")
                     /\ payload' = IF copy[c] = AllOf("nil") THEN "nil" ELSE Text(c)
    /\ UNCHANGED <<object, op, copy>>

-----------------------------------------------------------------------------
(* Its end                                                                 *)

\* An owner zeroizes it when nobody copies from it.
Zeroize(c) ==
    /\ c \in Owners \cap refs
    /\ pc[c] = "idle"
    /\ \A d \in Callers : pc[d] # "copy"
    /\ account' = "zeroized"
    /\ key' = Zeros
    /\ UNCHANGED <<bridge, refs, op, copy, payload>>

\* An idle goroutine gives its reference to another, or forgets it.
Share(c, d) ==
    /\ c \in refs /\ pc[c] = "idle" /\ pc[d] = "idle"
    /\ refs' \in {refs \cup {d}, refs \ {c}}
    /\ UNCHANGED <<bridge, account, key, op, copy, payload>>

\* The collector finds the account unreachable, and runs the finalizer's Zeroize.
Finalize ==
    /\ account \in {"live", "zeroized"}
    /\ refs = {}
    /\ account' = "finalized"
    /\ UNCHANGED <<bridge, key, refs, op, copy, payload>>

ZeroByte ==
    /\ account = "finalized"
    /\ \E i \in Bytes :
         /\ key[i] /\ \A j \in 1..(i - 1) : ~key[j]
         /\ key' = [key EXCEPT ![i] = FALSE]
    /\ UNCHANGED <<bridge, account, refs, op, copy, payload>>

Collected ==
    /\ account = "finalized"
    /\ key = Zeros
    /\ \A c \in Callers : pc[c] # "copy"
    /\ account' = "none"
    /\ UNCHANGED <<bridge, key, refs, op, copy, payload>>

-----------------------------------------------------------------------------

CallDirectly(c) == Call(c) /\ UNCHANGED <<object, op, copy, payload>>
CallCrosses(c) == Crosses(c) /\ UNCHANGED <<object, op, copy, payload>>

\* Whatever is not the start of the next step of an account that is made: what Rust
\* did not derive is no keys for json.Unmarshal, and makes none.
CallReturns(c) ==
    /\ ~(op[c] \in Making /\ result[c] = "value")
    /\ Return(c)
    /\ Enter(c, "none")
    /\ copy' = [copy EXCEPT ![c] = AllOf("unread")]
    /\ UNCHANGED <<object, payload>>

Begins(c) ==
    \/ CallDirectly(c) \/ NewAccount(c) \/ AccountFromPrivateKey(c)
    \/ AccountFromEncryptedPrivateKey(c) \/ Get(c) \/ Encrypt(c)
    \/ Zeroize(c) \/ \E d \in Callers : Share(c, d)

GoesOn(c) ==
    \/ CallCrosses(c) \/ CallReturns(c) \/ DeriveKeys(c) \/ Created(c)
    \/ Seal(c) \/ CopyByte(c) \/ Copied(c)

Next ==
    \/ \E c \in Callers : Begins(c) \/ GoesOn(c)
    \/ Finalize \/ ZeroByte \/ Collected

Spec == Init /\ [][Next]_vars

\* A goroutine in a call runs on, and snarkVM's functions end.
FairSpec == Spec /\ \A c \in Callers : WF_vars(GoesOn(c))

-----------------------------------------------------------------------------
(* Properties                                                              *)

(***************************************************************************)
(* What Rust fails at or panics in is an error in Go, whatever its message *)
(* quotes, unless it is empty, and no failure is taken for a value or for a*)
(* verdict: error_result's JSON, to_c_string and resultOrError's reading of*)
(* it fit together, and so do the numbers of aleo_verify_signature.        *)
(***************************************************************************)
ErrorsCross ==
    \A c \in Callers : pc[c] = "done" /\ fn[c] # "none" =>
        /\ result[c] = "error" <=> outcome[c] \in Failures /\ message[c] # "empty"
        /\ result[c] \in {"value", "true"} => outcome[c] = "value"
        /\ result[c] = "false" => outcome[c] = "invalid"

(***************************************************************************)
(* While Rust works its arguments are allocated, and a call that is over   *)
(* leaves no string behind on either side, also after a panic.             *)
(***************************************************************************)
StringsAreFreed ==
    \A c \in Callers :
        /\ pc[c] \in Inside \cup {"back"} => lent[c] \in Strings[fn[c]]
        /\ owed[c] => pc[c] = "back"
        /\ pc[c] \in {"idle", "done"} => lent[c] = 0

(***************************************************************************)
(* The process is loaded by one caller while nobody uses it, and its state *)
(* is settled once: nobody has a clone of a process that was not loaded.   *)
(***************************************************************************)
LoadedOnce ==
    \A c \in Callers :
        /\ pc[c] = "load" => loader = c /\ PROCESS = "loading"
        /\ pc[c] = "execute" => PROCESS = "ready"

(***************************************************************************)
(* No call is refused for what another one did to the process: a program   *)
(* that one call added is never there already for the next.                *)
(***************************************************************************)
CallsAreIsolated == \A c \in Callers : outcome[c] # "exists"

(***************************************************************************)
(* Sign signs with the whole key of the account or fails: a copy that the  *)
(* finalizer overtook is cut at a zero, and does not parse.                *)
(***************************************************************************)
SignsWithItsKey ==
    \A c \in Callers :
        pc[c] = "done" /\ op[c] = "sign" /\ result[c] = "value" => copy[c] = AllOf("key")

(***************************************************************************)
(* A goroutine that has read the key, and may use the account again, has   *)
(* read all of it, however the others share the account and drop it.       *)
(***************************************************************************)
ReadersSeeTheKey ==
    \A c \in refs :
        /\ op[c] \in Reading /\ account # "zeroized" =>
              \A i \in Bytes : copy[c][i] \in {"unread", "key"}
        /\ account \in {"live", "zeroized"}

(***************************************************************************)
(* What EncryptPrivateKey returns can be decrypted to the key.             *)
(***************************************************************************)
PayloadDecrypts == payload \in {"none", "good"}

(***************************************************************************)
(* Every call returns, the ones that wait for the process too, also when   *)
(* it fails to load or its loading panics.                                 *)
(***************************************************************************)
CallsReturn == \A c \in Callers : pc[c] # "idle" ~> pc[c] = "idle"

=============================================================================
