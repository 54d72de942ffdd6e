--------------------------- MODULE Account_proofs ---------------------------
(* Theorems about Account and the Bridge below it, and their proofs. *)
EXTENDS Account, TLAPS

\* The parts of an answer are disturbed by the same steps.
USE DEF answer

-----------------------------------------------------------------------------
(* Types                                                                   *)

LEMMA StringsLent ==
    ASSUME NEW f \in DOMAIN Strings
    PROVE  Strings[f] \subseteq 0..5
BY DEF Strings

LEMMA Named ==
    /\ Functions \subseteq DOMAIN Strings
    /\ {"private_key_new", "derive_all_keys", "sign_message"} \subseteq DOMAIN Strings
BY FunctionAssumption DEF Strings

\* The variables of a call have their types, wherever the caller is.
CallTypes ==
    /\ BridgeTypeOK
    /\ pc \in [Callers -> Labels \cup {"check", "copy"}]

LEMMA LendTypes ==
    ASSUME CallTypes, NEW c \in Callers, NEW f \in DOMAIN Strings,
           NEW t \in {"good", "bad"}, Lend(c, f, t)
    PROVE  CallTypes'
<1>1. PICK n \in Strings[f] : lent' = [lent EXCEPT ![c] = n]
  BY DEF Lend
<1>2. lent' \in [Callers -> 0..5]
  BY <1>1, StringsLent DEF CallTypes, BridgeTypeOK
<1>3. QED
  BY <1>2 DEF Lend, CallTypes, BridgeTypeOK, Goto, static, Labels, Inside

LEMMA EndsTypes ==
    ASSUME CallTypes, NEW c \in Callers, NEW o \in Outcomes, Ends(c, o),
           PROCESS' \in {"unset", "loading", "ready", "failed", "poisoned"},
           loader' \in Callers \cup {NoCaller}, base' \subseteq Programs
    PROVE  CallTypes'
<1>1. Words(c, o) \subseteq Messages
  BY DEF Words, Messages
<1>2. QED
  BY <1>1 DEF Ends, CallTypes, BridgeTypeOK, Goto, Labels

LEMMA FinishTypes ==
    ASSUME CallTypes, NEW c \in Callers, NEW r \in Results, Finish(c, r)
    PROVE  CallTypes'
BY DEF Finish, CallTypes, BridgeTypeOK, Goto, Labels, call, memory, static

LEMMA ReturnTypes ==
    ASSUME CallTypes, NEW c \in Callers, Return(c)
    PROVE  CallTypes'
BY DEF Return, CallTypes, BridgeTypeOK, Goto, Labels, memory, static, Outcomes, Failures, Results,
   Messages

\* A caller moves on and nothing else of its call changes.
LEMMA MoveTypes ==
    ASSUME CallTypes, NEW c \in Callers, NEW label \in Labels \cup {"check", "copy"},
           Goto(c, label), UNCHANGED <<call, memory, answer, result, static, clone>>
    PROVE  CallTypes'
BY DEF Goto, CallTypes, BridgeTypeOK, call, memory, static

LEMMA StillTypes == ASSUME CallTypes, UNCHANGED bridge PROVE CallTypes'
BY DEF CallTypes, BridgeTypeOK, bridge, call, memory, static

LEMMA CrossesTypes ==
    ASSUME CallTypes, NEW c \in Callers, Crosses(c)
    PROVE  CallTypes'
<1>1. CASE Compute(c)
  <2>1. PICK o \in Verdicts(c) : Ends(c, o)
    BY <1>1 DEF Compute
  <2>2. o \in Outcomes
    BY DEF Verdicts, Outcomes, Failures
  <2>3. QED
    BY <1>1, <2>1, <2>2, EndsTypes DEF Compute, static, CallTypes, BridgeTypeOK
<1>2. CASE Parse(c)
  <2>1. CASE \E o \in {"err", "panic"} : Ends(c, o)
    BY <1>2, <2>1, EndsTypes DEF Parse, static, CallTypes, BridgeTypeOK, Outcomes, Failures
  <2>2. CASE Goto(c, "process") /\ UNCHANGED <<call, memory, answer, result, clone>>
    BY <1>2, <2>2 DEF Parse, Goto, static, call, memory, CallTypes, BridgeTypeOK, Labels, Inside
  <2>3. QED
    BY <1>2, <2>1, <2>2 DEF Parse
<1>3. CASE BeginLoad(c)
  BY <1>3 DEF BeginLoad, Goto, call, memory, CallTypes, BridgeTypeOK, Labels, Inside
<1>4. CASE EndLoad(c)
  <2>1. CASE Ends(c, "panic") /\ PROCESS' = "poisoned"
    BY <1>4, <2>1, EndsTypes DEF EndLoad, CallTypes, BridgeTypeOK, Outcomes, Failures
  <2>2. CASE /\ PROCESS' \in {"ready", ErrorKept} /\ Goto(c, "process")
             /\ UNCHANGED <<call, memory, answer, result, clone>>
    BY <1>4, <2>2 DEF EndLoad, ErrorKept, Goto, call, memory, CallTypes, BridgeTypeOK, Labels,
           Inside
  <2>3. QED
    BY <1>4, <2>1, <2>2 DEF EndLoad
<1>5. CASE GetOrInitProcess(c)
  <2>1. CASE Ends(c, "err") \/ Ends(c, "panic")
    BY <1>5, <2>1, EndsTypes DEF GetOrInitProcess, static, CallTypes, BridgeTypeOK, Outcomes,
           Failures
  <2>2. CASE /\ Goto(c, "execute") /\ clone' = [clone EXCEPT ![c] = base]
             /\ UNCHANGED <<call, memory, answer, result>>
    BY <1>5, <2>2 DEF GetOrInitProcess, Goto, call, memory, static, CallTypes, BridgeTypeOK,
                      Labels, Inside
  <2>3. QED
    BY <1>5, <2>1, <2>2 DEF GetOrInitProcess
<1>6. CASE AddProgram(c)
  <2>1. PICK o \in {"exists", "value", "err", "panic"} : Ends(c, o) /\ UNCHANGED base
    BY <1>6, Zenon DEF AddProgram, Added
  <2>2. QED
    BY <1>6, <2>1, EndsTypes DEF AddProgram, CallTypes, BridgeTypeOK, Outcomes, Failures
<1>7. CASE VerifyWithProcess(c)
  BY <1>7, EndsTypes DEF VerifyWithProcess, static, CallTypes, BridgeTypeOK, Outcomes, Failures
<1>8. CASE BackInGo(c)
  <2>1. Answered(c) \in Results /\ Kept(c) \in BOOLEAN /\ Left(c) \in 0..5
    BY DEF Answered, VerifySignature, VerifyExecution, ResultOrError, Results, Kept, Left
  <2>2. QED
    BY <1>8, <2>1 DEF BackInGo, Goto, call, static, CallTypes, BridgeTypeOK, Labels
<1>9. QED
  BY <1>1, <1>2, <1>3, <1>4, <1>5, <1>6, <1>7, <1>8 DEF Crosses

LEMMA TypeInv == ASSUME TypeOK, [Next]_vars PROVE TypeOK'
<1> DEFINE ObjectTypes ==
             /\ account \in {"none", "live", "zeroized", "finalized"}
             /\ key \in [Bytes -> BOOLEAN]
             /\ refs \subseteq Callers
           OpTypes ==
             /\ op \in [Callers -> Making \cup Reading \cup {"none"}]
             /\ copy \in [Callers -> [Bytes -> {"unread", "key", "zero", "nil"}]]
             /\ payload \in {"none", "good", "bad", "nil"}
<1>0. CallTypes /\ ObjectTypes /\ OpTypes
  BY DEF TypeOK, CallTypes
<1> SUFFICES CallTypes' /\ ObjectTypes' /\ OpTypes'
  BY DEF TypeOK, CallTypes
<1> USE <1>0
<1>1. ASSUME NEW c \in Callers, Begins(c) PROVE CallTypes' /\ ObjectTypes' /\ OpTypes'
  <2>1. CASE CallDirectly(c)
    <3>1. CASE \E f \in Functions, t \in {"good", "bad"} : Lend(c, f, t)
      BY <2>1, <3>1, Named, LendTypes DEF CallDirectly, object
    <3>2. CASE Finish(c, "error")
      BY <2>1, <3>2, FinishTypes DEF CallDirectly, object, Results
    <3>3. QED
      BY <2>1, <3>1, <3>2 DEF CallDirectly, Call
  <2>2. CASE NewAccount(c)
    BY <2>2, Named, LendTypes DEF NewAccount, Enter, object, Making
  <2>3. CASE AccountFromPrivateKey(c)
    BY <2>3, Named, LendTypes, FinishTypes DEF AccountFromPrivateKey, Enter, object, Making,
           Results
  <2>4. CASE AccountFromEncryptedPrivateKey(c)
    <3>1. payload # "nil" /\ payload # "none" => payload \in {"good", "bad"}
      OBVIOUS
    <3>2. QED
      BY <2>4, <3>1, Named, LendTypes, FinishTypes
         DEF AccountFromEncryptedPrivateKey, Enter, object, Making, Results
  <2>5. CASE Get(c)
    <3>1. CallTypes'
      BY <2>5, MoveTypes DEF Get, LoadHeader
    <3>2. AllOf(IF account = "zeroized" THEN "nil" ELSE "unread")
            \in [Bytes -> {"unread", "key", "zero", "nil"}]
      BY DEF AllOf
    <3>3. QED
      BY <2>5, <3>1, <3>2 DEF Get, LoadHeader, Enter, Reading
  <2>6. CASE Encrypt(c)
    <3>1. ObjectTypes' /\ OpTypes'
      BY <2>6 DEF Encrypt, Enter, object, Reading
    <3>2. CASE Finish(c, "error")
      BY <3>1, <3>2, FinishTypes DEF Results
    <3>3. CASE Goto(c, "check") /\ UNCHANGED <<call, memory, answer, result, static, clone>>
      BY <3>1, <3>3, MoveTypes
    <3>4. QED
      BY <2>6, <3>2, <3>3 DEF Encrypt
  <2>7. CASE Zeroize(c) \/ \E d \in Callers : Share(c, d)
    BY <2>7, StillTypes DEF Zeroize, Share, Zeros
  <2>8. QED
    BY <1>1, <2>1, <2>2, <2>3, <2>4, <2>5, <2>6, <2>7 DEF Begins
<1>2. ASSUME NEW c \in Callers, GoesOn(c) PROVE CallTypes' /\ ObjectTypes' /\ OpTypes'
  <2>1. CASE CallCrosses(c)
    BY <2>1, CrossesTypes DEF CallCrosses, object
  <2>2. CASE CallReturns(c)
    BY <2>2, ReturnTypes DEF CallReturns, Enter, object, AllOf
  <2>3. CASE DeriveKeys(c)
    BY <2>3, Named, LendTypes DEF DeriveKeys, Enter, object, Making
  <2>4. CASE Created(c)
    BY <2>4, ReturnTypes DEF Created, Enter, OwnBytes, Whole
  <2>5. CASE Seal(c)
    <3>1. CallTypes'
      BY <2>5, MoveTypes DEF Seal, LoadHeader
    <3>2. AllOf(IF account = "zeroized" THEN "nil" ELSE "unread")
            \in [Bytes -> {"unread", "key", "zero", "nil"}]
      BY DEF AllOf
    <3>3. QED
      BY <2>5, <3>1, <3>2 DEF Seal, LoadHeader
  <2>6. CASE CopyByte(c)
    BY <2>6, StillTypes DEF CopyByte, object
  <2>7. CASE Copied(c)
    <3>1. ObjectTypes' /\ OpTypes' /\ Text(c) \in {"good", "bad"}
      BY <2>7 DEF Copied, object, Text
    <3>2. CASE Lend(c, "sign_message", Text(c))
      BY <3>1, <3>2, Named, LendTypes
    <3>3. CASE Finish(c, "value")
      BY <3>1, <3>3, FinishTypes DEF Results
    <3>4. QED
      BY <2>7, <3>2, <3>3 DEF Copied
  <2>8. QED
    BY <1>2, <2>1, <2>2, <2>3, <2>4, <2>5, <2>6, <2>7 DEF GoesOn
<1>3. CASE Finalize \/ ZeroByte \/ Collected \/ UNCHANGED vars
  BY <1>3, StillTypes DEF Finalize, ZeroByte, Collected, vars, object
<1>4. QED
  BY <1>1, <1>2, <1>3 DEF Next

\* Every variable of the bridge and of the account keeps its type (bridge.go, account.go).
THEOREM TypeCorrect == Spec => []TypeOK
<1>1. Init => TypeOK
  BY DEF Init, BridgeInit, TypeOK, BridgeTypeOK, Labels, Inside, Outcomes, Failures, Messages,
         Results, AllOf, Zeros, Bytes
<1>2. QED
  BY <1>1, TypeInv, PTL DEF Spec

-----------------------------------------------------------------------------
(* What a call has to show at each of its labels                           *)

\* The result r of a call follows its outcome and its message.
CrossedIn(c, r) ==
    /\ r = "error" <=> outcome[c] \in Failures /\ message[c] # "empty"
    /\ r \in {"value", "true"} => outcome[c] = "value"
    /\ r = "false" => outcome[c] = "invalid"

Crossed(c) == CrossedIn(c, result[c])

\* What the message of an outcome may be, wherever it came about.
Worded(f, o) ==
    CASE o \notin Failures -> {"none"}
      [] o \in Failures /\ f \in Bare -> Messages \ {"none"}
      [] OTHER -> Messages \ {"none", "empty"}

\* What Rust gave back.
Settled(c) ==
    /\ outcome[c] # "none"
    /\ outcome[c] = "invalid" => fn[c] = "verify_signature"
    /\ message[c] \in Worded(fn[c], outcome[c])

\* The function is known while Rust works, its arguments are there until Go is back,
\* and the result follows the outcome.
CallShape(c) ==
    /\ pc[c] \in {"idle", "check", "copy"} => fn[c] = "none"
    /\ pc[c] \in Inside \cup {"back"} => fn[c] \in DOMAIN Strings /\ lent[c] \in Strings[fn[c]]
    /\ pc[c] \notin Inside \cup {"back"} => lent[c] = 0
    /\ owed[c] => pc[c] = "back"
    /\ pc[c] = "back" => Settled(c)
    /\ pc[c] = "done" /\ fn[c] # "none" => Crossed(c)

Shapes == \A c \in Callers : CallShape(c)

LEMMA LendShapes ==
    ASSUME CallTypes, Shapes, NEW c \in Callers, NEW f \in DOMAIN Strings, NEW t,
           pc[c] \in {"idle", "done", "copy"}, Lend(c, f, t)
    PROVE  Shapes'
<1> SUFFICES ASSUME NEW d \in Callers PROVE CallShape(d)'
  BY DEF Shapes
<1>1. CallShape(d) /\ CallShape(c)
  BY DEF Shapes
<1>2. PICK n \in Strings[f] : lent' = [lent EXCEPT ![c] = n]
  BY DEF Lend
<1>3. QED
  BY <1>1, <1>2 DEF Lend, CallShape, Crossed, CrossedIn, Settled, CallTypes, BridgeTypeOK, Goto,
         static, Inside

\* Only a verification has an invalid outcome.
Fits(c, o) == o # "none" /\ (o = "invalid" => fn[c] = "verify_signature")

LEMMA EndsShapes ==
    ASSUME CallTypes, Shapes, NEW c \in Callers, NEW o, Fits(c, o), pc[c] \in Inside, Ends(c, o)
    PROVE  Shapes'
<1>1. Words(c, o) \subseteq Worded(fn[c], o)
  <2>1. CASE o \notin Failures
    BY <2>1 DEF Words, Worded
  <2>2. CASE o \in Failures /\ fn[c] \in Bare
    <3>1. Worded(fn[c], o) = Messages \ {"none"}
      BY <2>2 DEF Worded
    <3>2. QED
      BY <2>2, <3>1 DEF Words, Messages
  <2>3. CASE o \in Failures /\ fn[c] \notin Bare
    <3>1. Worded(fn[c], o) = Messages \ {"none", "empty"}
      BY <2>3 DEF Worded
    <3>2. QED
      BY <2>3, <3>1 DEF Words, Messages
  <2>4. QED
    BY <2>1, <2>2, <2>3
<1>2. QED
  BY <1>1 DEF Shapes, CallShape, Crossed, CrossedIn, Settled, Fits, Ends, CallTypes, BridgeTypeOK,
         Goto, Inside

LEMMA FinishShapes ==
    ASSUME CallTypes, Shapes, NEW c \in Callers, NEW r, pc[c] \in {"idle", "copy"}, Finish(c, r)
    PROVE  Shapes'
BY DEF Shapes, CallShape, Crossed, CrossedIn, Settled, Finish, CallTypes, BridgeTypeOK, Goto,
       Inside,
       call, memory, static

LEMMA ReturnShapes ==
    ASSUME CallTypes, Shapes, NEW c \in Callers, Return(c)
    PROVE  Shapes'
BY DEF Shapes, CallShape, Crossed, CrossedIn, Settled, Return, CallTypes, BridgeTypeOK, Goto,
       Inside, memory, static

\* A caller moves on and nothing else of its call changes.
LEMMA MoveShapes ==
    ASSUME CallTypes, Shapes, NEW c \in Callers, NEW label, Goto(c, label),
           \/ pc[c] \in Inside /\ label \in Inside
           \/ pc[c] \in {"idle", "check"} /\ label \in {"check", "copy"},
           UNCHANGED <<call, memory, answer, result>>
    PROVE  Shapes'
BY DEF Shapes, CallShape, Crossed, CrossedIn, Settled, CallTypes, BridgeTypeOK, Goto, Inside,
       call, memory

(***************************************************************************)
(* However a failure is worded, its string is read as an error, unless it  *)
(* has no message: nothing stands in it that JSON would have to escape.    *)
(***************************************************************************)
LEMMA ErrorsAreRead ==
    ASSUME NEW m \in Messages \ {"none"}
    PROVE  ResultOrError(ErrorResult(m)) = IF m = "empty" THEN "other" ELSE "error"
<1> DEFINE s == Str(TRUE, {}, m)
<1>1. ErrorResult(m) = s /\ s.marked /\ s.raw = {} /\ s.holds = m
  BY DEF ErrorResult, ToCString, Escaped, Str
<1>2. s # Null
  BY DEF Str, Null
<1>3. QED
  BY <1>1, <1>2 DEF ResultOrError, Messages

LEMMA ValuesAreRead ==
    ASSUME NEW v \in {"value", "true"}
    PROVE  ResultOrError(ToCString(Str(FALSE, {}, v))) = v
<1> DEFINE s == Str(FALSE, {}, v)
<1>1. ToCString(s) = s /\ ~s.marked /\ s.holds = v
  BY DEF ToCString, Str
<1>2. s # Null
  BY DEF Str, Null
<1>3. QED
  BY <1>1, <1>2 DEF ResultOrError

\* The result that a call comes back to Go with.
LEMMA AnswersCross ==
    ASSUME CallTypes, NEW c \in Callers, Settled(c)
    PROVE  CrossedIn(c, Answered(c))
<1>1. CASE fn[c] = "verify_signature"
  <2>1. outcome[c] \in Failures => message[c] # "empty"
    BY <1>1 DEF Settled, Worded, Bare
  <2>2. Answered(c) = VerifySignature(outcome[c])
    BY <1>1 DEF Answered
  <2>3. QED
    BY <2>1, <2>2 DEF VerifySignature, CrossedIn, Settled, CallTypes, BridgeTypeOK, Outcomes,
                      Failures
<1>2. CASE fn[c] # "verify_signature" /\ outcome[c] \in Failures
  <2>1. message[c] \in Messages \ {"none"} /\ (message[c] = "empty" => fn[c] \in Bare)
    BY <1>2 DEF Settled, Worded
  <2>2. ResultOrError(Caught(c)) = IF message[c] = "empty" THEN "other" ELSE "error"
    BY <1>2, <2>1, ErrorsAreRead DEF Caught
  <2>3. message[c] = "empty" => Answered(c) = "other"
    BY <1>2, <2>1, <2>2 DEF Answered, Bare
  <2>4. message[c] # "empty" => Answered(c) = "error"
    BY <1>2, <2>2 DEF Answered, VerifyExecution
  <2>5. QED
    BY <1>2, <2>3, <2>4 DEF CrossedIn
<1>3. CASE fn[c] # "verify_signature" /\ outcome[c] \notin Failures
  <2>1. outcome[c] = "value"
    BY <1>3 DEF Settled, CallTypes, BridgeTypeOK, Outcomes
  <2>2. Answered(c) \in {"value", "true"}
    BY <1>3, ValuesAreRead DEF Caught, Answered, VerifyExecution
  <2>3. QED
    BY <1>3, <2>1, <2>2 DEF CrossedIn
<1>4. QED
  BY <1>1, <1>2, <1>3

LEMMA CrossesShapes ==
    ASSUME CallTypes, Shapes, NEW c \in Callers, Crosses(c)
    PROVE  Shapes'
<1>1. CASE \E o \in Outcomes : Fits(c, o) /\ pc[c] \in Inside /\ Ends(c, o)
  BY <1>1, EndsShapes
<1>2. CASE \E label \in Inside : /\ pc[c] \in Inside /\ Goto(c, label)
                                  /\ UNCHANGED <<call, memory, answer, result>>
  BY <1>2, MoveShapes
<1>3. CASE BackInGo(c)
  <2>1. Shapes => CrossedIn(c, Answered(c))
    BY <1>3, AnswersCross DEF BackInGo, Shapes, CallShape
  <2>2. QED
    BY <1>3, <2>1 DEF BackInGo, Kept, Left, Shapes, CallShape, Crossed, CrossedIn, Settled,
           CallTypes,
                      BridgeTypeOK, Goto, Inside, call, static
<1>4. Compute(c) \/ AddProgram(c) \/ VerifyWithProcess(c)
        => \E o \in Outcomes : Fits(c, o) /\ pc[c] \in Inside /\ Ends(c, o)
  BY DEF Compute, AddProgram, VerifyWithProcess, Verdicts, Fits, Outcomes, Failures, Inside
<1>5. Parse(c) \/ BeginLoad(c) \/ EndLoad(c) \/ GetOrInitProcess(c)
        => \/ \E o \in Outcomes : Fits(c, o) /\ pc[c] \in Inside /\ Ends(c, o)
           \/ \E label \in Inside : /\ pc[c] \in Inside /\ Goto(c, label)
                                     /\ UNCHANGED <<call, memory, answer, result>>
  BY DEF Parse, BeginLoad, EndLoad, GetOrInitProcess, Fits, Outcomes, Failures,
         Inside
<1>6. QED
  BY <1>1, <1>2, <1>3, <1>4, <1>5 DEF Crosses

LEMMA ShapesInv == ASSUME TypeOK, Shapes, [Next]_vars PROVE Shapes'
<1>0. CallTypes
  BY DEF TypeOK, CallTypes
<1> USE <1>0
<1>1. ASSUME NEW c \in Callers, Begins(c) PROVE Shapes'
  <2>1. CASE \E f \in DOMAIN Strings, t \in {"good", "bad", payload} :
               pc[c] = "idle" /\ Lend(c, f, t)
    BY <2>1, LendShapes
  <2>2. CASE pc[c] = "idle" /\ \E r : Finish(c, r)
    BY <2>2, FinishShapes
  <2>3. CASE Get(c)
    BY <2>3, MoveShapes DEF Get, LoadHeader
  <2>4. CASE Encrypt(c)
    BY <2>2, <2>4, MoveShapes DEF Encrypt
  <2>5. CASE Zeroize(c) \/ \E d \in Callers : Share(c, d)
    BY <2>5 DEF Zeroize, Share, bridge, Shapes, CallShape, Crossed, CrossedIn, Settled, call,
           memory
  <2>6. CASE CallDirectly(c) \/ NewAccount(c) \/ AccountFromPrivateKey(c)
               \/ AccountFromEncryptedPrivateKey(c)
    BY <2>1, <2>2, <2>6, Named DEF CallDirectly, Call, NewAccount, AccountFromPrivateKey,
                                   AccountFromEncryptedPrivateKey
  <2>7. QED
    BY <1>1, <2>3, <2>4, <2>5, <2>6 DEF Begins
<1>2. ASSUME NEW c \in Callers, GoesOn(c) PROVE Shapes'
  <2>1. CASE CallCrosses(c)
    BY <2>1, CrossesShapes DEF CallCrosses
  <2>2. CASE CallReturns(c) \/ Created(c)
    BY <2>2, ReturnShapes DEF CallReturns, Created
  <2>3. CASE DeriveKeys(c)
    BY <2>3, Named, LendShapes DEF DeriveKeys
  <2>4. CASE Seal(c)
    BY <2>4, MoveShapes DEF Seal, LoadHeader
  <2>5. CASE CopyByte(c)
    BY <2>5 DEF CopyByte, bridge, Shapes, CallShape, Crossed, CrossedIn, Settled, call, memory
  <2>6. CASE Copied(c)
    BY <2>6, Named, LendShapes, FinishShapes DEF Copied
  <2>7. QED
    BY <1>2, <2>1, <2>2, <2>3, <2>4, <2>5, <2>6 DEF GoesOn
<1>3. CASE Finalize \/ ZeroByte \/ Collected \/ UNCHANGED vars
  BY <1>3 DEF Finalize, ZeroByte, Collected, vars, bridge, Shapes, CallShape, Crossed, CrossedIn,
         Settled, call, memory
<1>4. QED
  BY <1>1, <1>2, <1>3 DEF Next

LEMMA ShapesHold == Spec => []Shapes
<1>1. Init => Shapes
  BY DEF Init, BridgeInit, Shapes, CallShape, Crossed, CrossedIn, Settled, Inside
<1>2. QED
  BY <1>1, ShapesInv, TypeCorrect, PTL DEF Spec

(***************************************************************************)
(* However many goroutines call, what Rust fails at or panics in is read   *)
(* back as an error whatever its message quotes, unless it has none, and   *)
(* no failure as a value or a verdict (error_result, to_c_string,          *)
(* resultOrError, VerifySignature, VerifyExecution).                       *)
(***************************************************************************)
THEOREM ErrorsAreErrors == Spec => []ErrorsCross
<1>1. Shapes => ErrorsCross
  BY DEF Shapes, CallShape, Crossed, CrossedIn, Settled, ErrorsCross
<1>2. QED
  BY <1>1, ShapesHold, PTL

(***************************************************************************)
(* However many goroutines call, the strings of a call are there while     *)
(* Rust reads them and are gone on both sides when it is over.             *)
(***************************************************************************)
THEOREM NothingIsLeaked == Spec => []StringsAreFreed
<1>1. Shapes => StringsAreFreed
  BY DEF Shapes, CallShape, Crossed, CrossedIn, Settled, StringsAreFreed, Inside
<1>2. QED
  BY <1>1, ShapesHold, PTL

-----------------------------------------------------------------------------
(* The process                                                             *)

\* Nobody's programs are in the process, or in a clone that was just taken.
Untouched ==
    /\ base = {}
    /\ \A c \in Callers : clone[c] = {} /\ outcome[c] # "exists"

\* No step outside the bridge touches the process.
LEMMA ElsewhereLoaded ==
    ASSUME CallTypes, NEW c \in Callers, NEW label, Goto(c, label),
           label \notin {"load", "execute"}, UNCHANGED static, LoadedOnce
    PROVE  LoadedOnce'
BY DEF LoadedOnce, CallTypes, Goto, static

LEMMA CrossesLoaded ==
    ASSUME CallTypes, LoadedOnce, NEW c \in Callers, Crosses(c)
    PROVE  LoadedOnce'
<1>1. CASE Compute(c) \/ Parse(c) \/ VerifyWithProcess(c) \/ BackInGo(c)
  BY <1>1, ElsewhereLoaded DEF Compute, Parse, VerifyWithProcess, BackInGo, Ends
<1>2. CASE BeginLoad(c)
  BY <1>2 DEF BeginLoad, NobodyLoads, LoadedOnce, Goto, CallTypes
<1>3. CASE EndLoad(c)
  BY <1>3 DEF EndLoad, LoadedOnce, Goto, Ends, CallTypes
<1>4. CASE GetOrInitProcess(c)
  <2>1. CASE PROCESS = "ready" /\ Goto(c, "execute")
    BY <1>4, <2>1 DEF GetOrInitProcess, LoadedOnce, Goto, CallTypes, static
  <2>2. CASE \E o : Ends(c, o)
    BY <1>4, <2>2, ElsewhereLoaded DEF GetOrInitProcess, Ends
  <2>3. QED
    BY <1>4, <2>1, <2>2 DEF GetOrInitProcess
<1>5. CASE AddProgram(c)
  BY <1>5 DEF AddProgram, Added, LoadedOnce, Goto, Ends, CallTypes
<1>6. QED
  BY <1>1, <1>2, <1>3, <1>4, <1>5 DEF Crosses

LEMMA CrossesUntouched ==
    ASSUME CallTypes, Untouched, NEW c \in Callers, Crosses(c)
    PROVE  Untouched'
<1>1. CASE base' = base /\ \E o \in Outcomes \ {"exists"} : Ends(c, o)
  BY <1>1 DEF Untouched, Ends, CallTypes, BridgeTypeOK
<1>2. CASE base' = base /\ UNCHANGED outcome
           /\ (UNCHANGED clone \/ clone' = [clone EXCEPT ![c] = base])
  BY <1>2 DEF Untouched, CallTypes, BridgeTypeOK
<1>3. CASE AddProgram(c)
  <2>1. clone[c] = {}
    BY DEF Untouched
  <2>2. base' = base /\ \E o \in {"value", "err", "panic"} : Ends(c, o)
    BY <1>3, <2>1 DEF AddProgram, Added
  <2>3. QED
    BY <1>1, <2>2 DEF Outcomes, Failures
<1>4. CASE Compute(c) \/ Parse(c) \/ BeginLoad(c) \/ EndLoad(c)
  BY <1>1, <1>2, <1>4 DEF Compute, Verdicts, Parse, BeginLoad, EndLoad, Outcomes, Failures, static
<1>5. CASE GetOrInitProcess(c) \/ VerifyWithProcess(c) \/ BackInGo(c)
  BY <1>1, <1>2, <1>5 DEF GetOrInitProcess, VerifyWithProcess, BackInGo, Outcomes, Failures,
         static
<1>6. QED
  BY <1>3, <1>4, <1>5 DEF Crosses

LEMMA ProcessInv ==
    ASSUME TypeOK, LoadedOnce, Untouched, [Next]_vars
    PROVE  LoadedOnce' /\ Untouched'
<1>0. CallTypes
  BY DEF TypeOK, CallTypes
<1> USE <1>0
<1>1. CASE UNCHANGED bridge
  BY <1>1 DEF bridge, static, LoadedOnce, Untouched
<1>2. ASSUME NEW c \in Callers, NEW label, Goto(c, label), label \notin {"load", "execute"},
             UNCHANGED <<static, clone>>,
             UNCHANGED outcome \/ outcome' = [outcome EXCEPT ![c] = "none"]
      PROVE  LoadedOnce' /\ Untouched'
  <2>1. Untouched'
    BY <1>2 DEF Untouched, static, CallTypes, BridgeTypeOK
  <2>2. QED
    BY <1>2, <2>1, ElsewhereLoaded
<1>3. ASSUME NEW c \in Callers, \/ \E f, t : Lend(c, f, t)
                                \/ \E r : Finish(c, r)
                                \/ Return(c)
      PROVE  LoadedOnce' /\ Untouched'
  BY <1>2, <1>3 DEF Lend, Finish, Return
<1>4. ASSUME NEW c \in Callers, Begins(c) PROVE LoadedOnce' /\ Untouched'
  <2>1. CASE CallDirectly(c) \/ NewAccount(c) \/ AccountFromPrivateKey(c)
               \/ AccountFromEncryptedPrivateKey(c)
    BY <1>3, <2>1 DEF CallDirectly, Call, NewAccount, AccountFromPrivateKey,
                      AccountFromEncryptedPrivateKey
  <2>2. CASE Get(c)
    BY <1>2, <2>2 DEF Get, LoadHeader
  <2>3. CASE Encrypt(c)
    BY <1>2, <1>3, <2>3 DEF Encrypt
  <2>4. CASE Zeroize(c) \/ \E d \in Callers : Share(c, d)
    BY <1>1, <2>4 DEF Zeroize, Share
  <2>5. QED
    BY <1>4, <2>1, <2>2, <2>3, <2>4 DEF Begins
<1>5. ASSUME NEW c \in Callers, GoesOn(c) PROVE LoadedOnce' /\ Untouched'
  <2>1. CASE CallCrosses(c)
    BY <2>1, CrossesLoaded, CrossesUntouched DEF CallCrosses
  <2>2. CASE CallReturns(c) \/ DeriveKeys(c) \/ Created(c) \/ Copied(c)
    BY <1>3, <2>2 DEF CallReturns, DeriveKeys, Created, Copied
  <2>3. CASE Seal(c)
    BY <1>2, <2>3 DEF Seal, LoadHeader
  <2>4. CASE CopyByte(c)
    BY <1>1, <2>4 DEF CopyByte
  <2>5. QED
    BY <1>5, <2>1, <2>2, <2>3, <2>4 DEF GoesOn
<1>6. CASE Finalize \/ ZeroByte \/ Collected \/ UNCHANGED vars
  BY <1>1, <1>6 DEF Finalize, ZeroByte, Collected, vars
<1>7. QED
  BY <1>4, <1>5, <1>6 DEF Next

(***************************************************************************)
(* However many goroutines find the process unloaded, one loads it, and    *)
(* nobody uses it before it is loaded (PROCESS, get_or_init_process).      *)
(***************************************************************************)
THEOREM ProcessLoadedOnce == Spec => []LoadedOnce
<1>1. Init => LoadedOnce /\ Untouched
  BY DEF Init, BridgeInit, LoadedOnce, Untouched
<1>2. QED
  BY <1>1, ProcessInv, TypeCorrect, PTL DEF Spec

(***************************************************************************)
(* However many goroutines bring programs along, none is refused for what  *)
(* another one added (the clones of aleo_authorize, aleo_execute_program). *)
(***************************************************************************)
THEOREM CallsIsolated == Spec => []CallsAreIsolated
<1>1. Init => LoadedOnce /\ Untouched
  BY DEF Init, BridgeInit, LoadedOnce, Untouched
<1>2. Untouched => CallsAreIsolated
  BY DEF Untouched, CallsAreIsolated
<1>3. QED
  BY <1>1, <1>2, ProcessInv, TypeCorrect, PTL DEF Spec

-----------------------------------------------------------------------------
(* The account                                                             *)

\* One goroutine at a time makes an account, and only while there is none; a live one
\* has its key, and only one that was not finalized may be used again.
Lifecycle ==
    /\ \A c \in Callers : pc[c] = "idle" => op[c] = "none"
    /\ \A c \in Callers : op[c] \in Making => account = "none"
    /\ \A c, d \in Callers : op[c] \in Making /\ op[d] \in Making => c = d
    /\ account = "live" => key = Whole
    /\ refs # {} => account \in {"live", "zeroized"}

LEMMA Kinds ==
    /\ "none" \notin Making \cup Reading
    /\ {"generate", "create"} \subseteq Making
    /\ {"get", "sign", "encrypt"} \subseteq Reading
    /\ Making \cap Reading = {}
BY DEF Making, Reading

\* A caller goes on with an operation, which makes an account only if nobody else does.
LEMMA LifecycleMoves ==
    ASSUME TypeOK, Lifecycle, NEW c \in Callers, NEW label, NEW o,
           Goto(c, label), Enter(c, o), label = "idle" => o = "none",
           o \in Making => /\ account = "none"
                          /\ \A d \in Callers : op[d] \in Making => d = c,
           UNCHANGED <<account, key>>, refs' \subseteq refs
    PROVE  Lifecycle'
BY DEF Lifecycle, TypeOK, Goto, Enter

LEMMA LifecycleStays ==
    ASSUME TypeOK, Lifecycle, NEW c \in Callers, NEW label, Goto(c, label), label # "idle",
           UNCHANGED <<op, account, key>>, refs' \subseteq refs
    PROVE  Lifecycle'
BY DEF Lifecycle, TypeOK, Goto

LEMMA Moves ==
    ASSUME CallTypes, NEW c \in Callers, Crosses(c)
    PROVE  \E label \in Labels \ {"idle"} : Goto(c, label)
BY DEF Crosses, Compute, Parse, BeginLoad, EndLoad, GetOrInitProcess, AddProgram,
       VerifyWithProcess, BackInGo, Ends, Labels, Inside

LEMMA LifecycleInv == ASSUME TypeOK, Lifecycle, [Next]_vars PROVE Lifecycle'
<1>0. CallTypes
  BY DEF TypeOK, CallTypes
<1>1. ASSUME NEW c \in Callers, Begins(c) PROVE Lifecycle'
  <2>1. CASE CallDirectly(c)
    BY <2>1, LifecycleStays DEF CallDirectly, Call, Lend, Finish, object
  <2>2. CASE NewAccount(c) \/ AccountFromPrivateKey(c) \/ AccountFromEncryptedPrivateKey(c)
    <3>1. NoneYet /\ \E o : Enter(c, o)
      BY <2>2 DEF NewAccount, AccountFromPrivateKey, AccountFromEncryptedPrivateKey
    <3>2. \E label : Goto(c, label) /\ label # "idle"
      BY <2>2 DEF NewAccount, AccountFromPrivateKey, AccountFromEncryptedPrivateKey, Lend, Finish
    <3>3. UNCHANGED object
      BY <2>2 DEF NewAccount, AccountFromPrivateKey, AccountFromEncryptedPrivateKey
    <3>4. QED
      BY <3>1, <3>2, <3>3, LifecycleMoves DEF NoneYet, object
  <2>3. CASE Get(c)
    BY <2>3, LifecycleMoves, Kinds DEF Get, LoadHeader
  <2>4. CASE Encrypt(c)
    BY <2>4, LifecycleMoves, Kinds DEF Encrypt, Finish, object
  <2>5. CASE Zeroize(c)
    BY <2>5 DEF Zeroize, Lifecycle, bridge
  <2>6. CASE \E d \in Callers : Share(c, d)
    BY <2>6 DEF Share, Lifecycle, bridge
  <2>7. QED
    BY <1>1, <2>1, <2>2, <2>3, <2>4, <2>5, <2>6 DEF Begins
<1>2. ASSUME NEW c \in Callers, GoesOn(c) PROVE Lifecycle'
  <2>1. CASE CallCrosses(c)
    BY <1>0, <2>1, Moves, LifecycleStays DEF CallCrosses, object
  <2>2. CASE CallReturns(c)
    BY <2>2, LifecycleMoves, Kinds DEF CallReturns, Return, object
  <2>3. CASE DeriveKeys(c)
    <3>1. op[c] \in Making
      BY <2>3, Kinds DEF DeriveKeys
    <3>2. account = "none" /\ \A d \in Callers : op[d] \in Making => d = c
      BY <3>1 DEF Lifecycle
    <3>3. QED
      BY <2>3, <3>2, LifecycleMoves DEF DeriveKeys, Lend, object
  <2>4. CASE Created(c)
    <3>1. op[c] \in Making
      BY <2>4, Kinds DEF Created
    <3>2. \A d \in Callers : op[d] \in Making => d = c
      BY <3>1 DEF Lifecycle
    <3>3. QED
      BY <2>4, <3>2, Kinds DEF Created, Lifecycle, TypeOK, Return, Goto, Enter, OwnBytes
  <2>5. CASE Seal(c)
    BY <2>5, LifecycleStays DEF Seal, LoadHeader
  <2>6. CASE CopyByte(c)
    BY <2>6 DEF CopyByte, Lifecycle, bridge, object
  <2>7. CASE Copied(c)
    BY <2>7, LifecycleStays DEF Copied, Lend, Finish, object
  <2>8. QED
    BY <1>2, <2>1, <2>2, <2>3, <2>4, <2>5, <2>6, <2>7 DEF GoesOn
<1>3. CASE Finalize \/ ZeroByte \/ Collected \/ UNCHANGED vars
  BY <1>3 DEF Finalize, ZeroByte, Collected, vars, Lifecycle, bridge, object
<1>4. QED
  BY <1>1, <1>2, <1>3 DEF Next

LEMMA LifecycleHolds == Spec => []Lifecycle
<1>1. Init => Lifecycle
  BY Kinds DEF Init, BridgeInit, Lifecycle
<1>2. QED
  BY <1>1, LifecycleInv, TypeCorrect, PTL DEF Spec

\* Who is on the way to the key is in a reading operation, and nobody else has a copy.
Unread ==
    \A c \in Callers :
        /\ pc[c] \in {"check", "copy"} => op[c] \in Reading
        /\ op[c] \notin Reading => copy[c] = AllOf("unread")

LEMMA UnreadMoves ==
    ASSUME TypeOK, Unread, NEW c \in Callers, NEW label, Goto(c, label),
           label \notin {"check", "copy"}, UNCHANGED copy,
           \A d \in Callers : op'[d] \in Reading <=> op[d] \in Reading
    PROVE  Unread'
BY DEF Unread, Goto, TypeOK

LEMMA UnreadReads ==
    ASSUME TypeOK, Unread, NEW c \in Callers, NEW label, Goto(c, label), op'[c] \in Reading,
           \A d \in Callers \ {c} : UNCHANGED <<op[d], copy[d]>>
    PROVE  Unread'
BY DEF Unread, Goto, TypeOK

LEMMA UnreadInv == ASSUME TypeOK, Lifecycle, Unread, [Next]_vars PROVE Unread'
<1>0. CallTypes
  BY DEF TypeOK, CallTypes
<1>1. ASSUME NEW c \in Callers, Begins(c) PROVE Unread'
  <2>1. CASE CallDirectly(c)
    BY <2>1, UnreadMoves DEF CallDirectly, Call, Lend, Finish
  <2>2. CASE NewAccount(c) \/ AccountFromPrivateKey(c) \/ AccountFromEncryptedPrivateKey(c)
    <3>1. op[c] \notin Reading
      BY <2>2, Kinds DEF NewAccount, AccountFromPrivateKey, AccountFromEncryptedPrivateKey,
                         Lifecycle
    <3>2. Enter(c, "generate") \/ Enter(c, "create")
      BY <2>2 DEF NewAccount, AccountFromPrivateKey, AccountFromEncryptedPrivateKey
    <3>3. \A d \in Callers : op'[d] \in Reading <=> op[d] \in Reading
      BY <3>1, <3>2, Kinds DEF Enter, TypeOK
    <3>4. UNCHANGED copy /\ \E label : Goto(c, label) /\ label \notin {"check", "copy"}
      BY <2>2 DEF NewAccount, AccountFromPrivateKey, AccountFromEncryptedPrivateKey, Lend, Finish
    <3>5. QED
      BY <3>3, <3>4, UnreadMoves
  <2>3. CASE Get(c)
    BY <2>3, UnreadReads, Kinds DEF Get, LoadHeader, Enter, TypeOK
  <2>4. CASE Encrypt(c)
    BY <2>4, UnreadReads, Kinds DEF Encrypt, Finish, Enter, TypeOK
  <2>5. CASE Zeroize(c) \/ \E d \in Callers : Share(c, d)
    BY <2>5 DEF Zeroize, Share, bridge, Unread
  <2>6. QED
    BY <1>1, <2>1, <2>2, <2>3, <2>4, <2>5 DEF Begins
<1>2. ASSUME NEW c \in Callers, GoesOn(c) PROVE Unread'
  <2>1. CASE CallCrosses(c)
    <3>1. \E label : Goto(c, label) /\ label \notin {"check", "copy"}
      BY <1>0, <2>1, Moves DEF CallCrosses, Labels, Inside
    <3>2. QED
      BY <2>1, <3>1, UnreadMoves DEF CallCrosses
  <2>2. CASE CallReturns(c)
    BY <2>2 DEF CallReturns, Return, Goto, Enter, Unread, TypeOK
  <2>3. CASE DeriveKeys(c)
    BY <2>3, UnreadMoves, Kinds DEF DeriveKeys, Lend, Enter, TypeOK
  <2>4. CASE Created(c)
    BY <2>4, UnreadMoves, Kinds DEF Created, Return, Enter, TypeOK
  <2>5. CASE Seal(c)
    <3>1. op[c] \in Reading
      BY <2>5 DEF Seal, Unread
    <3>2. QED
      BY <2>5, <3>1, UnreadReads DEF Seal, LoadHeader, TypeOK
  <2>6. CASE CopyByte(c)
    BY <2>6 DEF CopyByte, bridge, Unread, TypeOK
  <2>7. CASE Copied(c)
    BY <2>7, UnreadMoves DEF Copied, Lend, Finish
  <2>8. QED
    BY <1>2, <2>1, <2>2, <2>3, <2>4, <2>5, <2>6, <2>7 DEF GoesOn
<1>3. CASE Finalize \/ ZeroByte \/ Collected \/ UNCHANGED vars
  BY <1>3 DEF Finalize, ZeroByte, Collected, vars, bridge, Unread
<1>4. QED
  BY <1>1, <1>2, <1>3 DEF Next

\* A goroutine that may use a live account again has read whole bytes.
CopyIsWhole(c) ==
    c \in refs /\ op[c] \in Reading /\ account = "live" =>
        \A i \in Bytes : copy[c][i] \in {"unread", "key"}

CopiesAreWhole == \A c \in Callers : CopyIsWhole(c)

\* A step that begins no reading and gives nobody the account.
LEMMA CopiesStay ==
    ASSUME CopiesAreWhole, refs' \subseteq refs, account' = "live" => account = "live",
           UNCHANGED copy, \A c \in Callers : op'[c] = op[c] \/ op'[c] \notin Reading
    PROVE  CopiesAreWhole'
BY DEF CopiesAreWhole, CopyIsWhole

LEMMA HeaderLoaded ==
    ASSUME TypeOK, CopiesAreWhole, NEW c \in Callers, LoadHeader(c),
           \A d \in Callers : d # c => op'[d] = op[d]
    PROVE  CopiesAreWhole'
BY DEF CopiesAreWhole, CopyIsWhole, LoadHeader, AllOf, TypeOK

LEMMA CopiesInv ==
    ASSUME TypeOK, Lifecycle, Unread, CopiesAreWhole, [Next]_vars
    PROVE  CopiesAreWhole'
<1>1. ASSUME NEW c \in Callers, Begins(c) PROVE CopiesAreWhole'
  <2>1. CASE CallDirectly(c)
    BY <2>1, CopiesStay DEF CallDirectly, object
  <2>2. CASE NewAccount(c) \/ AccountFromPrivateKey(c) \/ AccountFromEncryptedPrivateKey(c)
    <3>1. Enter(c, "generate") \/ Enter(c, "create")
      BY <2>2 DEF NewAccount, AccountFromPrivateKey, AccountFromEncryptedPrivateKey
    <3>2. \A d \in Callers : op'[d] = op[d] \/ op'[d] \notin Reading
      BY <3>1, Kinds DEF Enter, TypeOK
    <3>3. UNCHANGED <<object, copy>>
      BY <2>2 DEF NewAccount, AccountFromPrivateKey, AccountFromEncryptedPrivateKey
    <3>4. QED
      BY <3>2, <3>3, CopiesStay DEF object
  <2>3. CASE Get(c)
    BY <2>3, HeaderLoaded DEF Get, Enter, TypeOK
  <2>4. CASE Encrypt(c)
    <3>1. CASE account = "zeroized"
      BY <2>4, <3>1 DEF Encrypt, object, CopiesAreWhole, CopyIsWhole
    <3>2. CASE account # "zeroized"
      <4>1. op[c] = "none"
        BY <2>4 DEF Encrypt, Lifecycle
      <4>2. copy[c] = AllOf("unread")
        BY <4>1, Kinds DEF Unread
      <4>3. QED
        BY <2>4, <4>2 DEF Encrypt, object, Enter, AllOf, TypeOK, CopiesAreWhole, CopyIsWhole
    <3>3. QED
      BY <3>1, <3>2
  <2>5. CASE Zeroize(c)
    BY <2>5, CopiesStay DEF Zeroize
  <2>6. CASE \E d \in Callers : Share(c, d)
    <3>1. PICK d \in Callers : Share(c, d)
      BY <2>6
    <3>2. op[d] \notin Reading
      BY <3>1, Kinds DEF Share, Lifecycle
    <3>3. ASSUME NEW e \in Callers, CopyIsWhole(e) PROVE CopyIsWhole(e)'
      <4>1. e \in refs' => e \in refs \/ e = d
        BY <3>1 DEF Share
      <4>2. UNCHANGED <<op, account, copy>>
        BY <3>1 DEF Share
      <4>3. QED
        BY <3>2, <3>3, <4>1, <4>2 DEF CopyIsWhole
    <3>4. QED
      BY <3>3 DEF CopiesAreWhole
  <2>7. QED
    BY <1>1, <2>1, <2>2, <2>3, <2>4, <2>5, <2>6 DEF Begins
<1>2. ASSUME NEW c \in Callers, GoesOn(c) PROVE CopiesAreWhole'
  <2>1. CASE CallCrosses(c)
    BY <2>1, CopiesStay DEF CallCrosses, object
  <2>2. CASE CallReturns(c)
    BY <2>2, Kinds DEF CallReturns, object, Enter, TypeOK, CopiesAreWhole, CopyIsWhole
  <2>3. CASE DeriveKeys(c)
    BY <2>3, CopiesStay, Kinds DEF DeriveKeys, object, Enter, TypeOK
  <2>4. CASE Created(c)
    BY <2>4, Kinds DEF Created, Enter, TypeOK, CopiesAreWhole, CopyIsWhole
  <2>5. CASE Seal(c)
    BY <2>5, HeaderLoaded DEF Seal
  <2>6. CASE CopyByte(c)
    <3>1. PICK i \in Bytes : copy' = [copy EXCEPT ![c][i] = IF key[i] THEN "key" ELSE "zero"]
      BY <2>6 DEF CopyByte
    <3>2. account = "live" => key[i]
      BY DEF Lifecycle, Whole
    <3>3. ASSUME NEW d \in Callers, CopyIsWhole(d) PROVE CopyIsWhole(d)'
      BY <2>6, <3>1, <3>2, <3>3 DEF CopyByte, object, CopyIsWhole, TypeOK
    <3>4. QED
      BY <3>3 DEF CopiesAreWhole
  <2>7. CASE Copied(c)
    BY <2>7, CopiesStay DEF Copied, object
  <2>8. QED
    BY <1>2, <2>1, <2>2, <2>3, <2>4, <2>5, <2>6, <2>7 DEF GoesOn
<1>3. CASE Finalize \/ ZeroByte \/ Collected \/ UNCHANGED vars
  BY <1>3, CopiesStay DEF Finalize, ZeroByte, Collected, vars, object
<1>4. QED
  BY <1>1, <1>2, <1>3 DEF Next

(***************************************************************************)
(* However many goroutines share an account and drop it, the finalizer     *)
(* takes no byte of the key from one that may use it again (account.go).   *)
(***************************************************************************)
THEOREM ReadersSafe == Spec => []ReadersSeeTheKey
<1>1. Init => Unread /\ CopiesAreWhole
  BY DEF Init, BridgeInit, Unread, CopiesAreWhole, CopyIsWhole
<1>2. TypeOK /\ Lifecycle /\ CopiesAreWhole => ReadersSeeTheKey
  BY DEF TypeOK, Lifecycle, CopiesAreWhole, CopyIsWhole, ReadersSeeTheKey
<1>3. QED
  BY <1>1, <1>2, UnreadInv, CopiesInv, LifecycleHolds, TypeCorrect, PTL DEF Spec

-----------------------------------------------------------------------------
(* Encrypting                                                              *)

\* What EncryptPrivateKey would be with a runtime.KeepAlive after its use of the key:
\* its caller may use the account again.
KeepsAlive == \A c \in Callers : pc[c] = "check" /\ pc'[c] = "copy" => c \in refs'

\* Of an account that nobody zeroizes, who copies it for a payload may use it again.
Sealing ==
    /\ account # "zeroized"
    /\ \A c \in Callers : op[c] = "encrypt" /\ pc[c] = "copy" => c \in refs
    /\ payload \in {"none", "good"}

\* A step of a goroutine that takes the account from no other one that copies.
LEMMA SealingStays ==
    ASSUME TypeOK, Sealing, NEW c \in Callers, account' # "zeroized", UNCHANGED payload,
           op'[c] = "encrypt" /\ pc'[c] = "copy" => c \in refs',
           \A d \in Callers \ {c} : pc[d] = "copy" =>
              UNCHANGED <<pc[d], op[d]>> /\ (d \in refs => d \in refs'),
           \A d \in Callers \ {c} : pc[d] # "copy" => pc'[d] # "copy"
    PROVE  Sealing'
BY DEF Sealing

\* While somebody copies for a payload, the account is there.
LEMMA SealsTheKey ==
    ASSUME TypeOK, Lifecycle, Unread, CopiesAreWhole, Sealing, NEW c \in Callers, Copied(c)
    PROVE  payload' \in {"none", "good"}
<1>1. CASE op[c] \in {"sign", "get"}
  BY <1>1 DEF Copied, Sealing
<1>2. CASE op[c] \notin {"sign", "get"}
  <2>1. op[c] = "encrypt" /\ c \in refs
    BY <1>2 DEF Copied, Unread, Reading, Sealing
  <2>2. account = "live"
    BY <2>1 DEF Lifecycle, Sealing
  <2>3. \A i \in Bytes : copy[c][i] = "key"
    BY <2>1, <2>2 DEF CopiesAreWhole, CopyIsWhole, Reading, Copied
  <2>4. copy[c] = AllOf("key") /\ copy[c] # AllOf("nil")
    BY <2>3 DEF TypeOK, AllOf, Bytes
  <2>5. QED
    BY <2>1, <2>4 DEF Copied, Text
<1>3. QED
  BY <1>1, <1>2

LEMMA SealingInv ==
    ASSUME Owners = {}, TypeOK, Lifecycle, Unread, CopiesAreWhole, Sealing,
           [Next /\ KeepsAlive]_vars
    PROVE  Sealing'
<1>0. CallTypes
  BY DEF TypeOK, CallTypes
<1>1. ASSUME NEW c \in Callers, Begins(c), KeepsAlive PROVE Sealing'
  <2>1. CASE CallDirectly(c)
    BY <2>1, SealingStays DEF CallDirectly, Call, Lend, Finish, Goto, object, Sealing, TypeOK
  <2>2. CASE NewAccount(c) \/ AccountFromPrivateKey(c) \/ AccountFromEncryptedPrivateKey(c)
    <3>1. UNCHANGED <<object, payload>> /\ \E o \in Making : Enter(c, o)
      BY <2>2, Kinds DEF NewAccount, AccountFromPrivateKey, AccountFromEncryptedPrivateKey
    <3>2. \E label \in {"rust", "done"} : Goto(c, label)
      BY <2>2 DEF NewAccount, AccountFromPrivateKey, AccountFromEncryptedPrivateKey, Lend, Finish
    <3>3. QED
      BY <3>1, <3>2, SealingStays DEF Goto, Enter, object, Sealing, TypeOK
  <2>3. CASE Get(c)
    BY <2>3, SealingStays DEF Get, LoadHeader, Goto, Enter, Sealing, TypeOK
  <2>4. CASE Encrypt(c)
    BY <2>4, SealingStays DEF Encrypt, Finish, Goto, Enter, object, Sealing, TypeOK
  <2>5. CASE Zeroize(c)
    BY <2>5 DEF Zeroize
  <2>6. CASE \E d \in Callers : Share(c, d)
    BY <2>6 DEF Share, bridge, Sealing
  <2>7. QED
    BY <1>1, <2>1, <2>2, <2>3, <2>4, <2>5, <2>6 DEF Begins
<1>2. ASSUME NEW c \in Callers, GoesOn(c), KeepsAlive PROVE Sealing'
  <2>1. CASE CallCrosses(c)
    <3>1. \E label : Goto(c, label) /\ label # "copy"
      BY <1>0, <2>1, Moves DEF CallCrosses, Labels, Inside
    <3>2. QED
      BY <2>1, <3>1, SealingStays DEF CallCrosses, Goto, object, Sealing, TypeOK
  <2>2. CASE CallReturns(c)
    BY <2>2, SealingStays DEF CallReturns, Return, Goto, Enter, object, Sealing, TypeOK
  <2>3. CASE DeriveKeys(c)
    BY <2>3, SealingStays DEF DeriveKeys, Lend, Goto, Enter, object, Sealing, TypeOK
  <2>4. CASE Created(c)
    <3>1. refs = {}
      BY <2>4, Kinds DEF Created, Lifecycle
    <3>2. QED
      BY <2>4, <3>1, SealingStays DEF Created, Return, Goto, Enter, Sealing, TypeOK
  <2>5. CASE Seal(c)
    <3>1. pc[c] = "check" /\ pc'[c] = "copy"
      BY <2>5 DEF Seal, LoadHeader, Goto, TypeOK
    <3>2. c \in refs'
      BY <1>2, <3>1 DEF KeepsAlive
    <3>3. QED
      BY <2>5, <3>1, <3>2, SealingStays DEF Seal, LoadHeader, Goto, Sealing, TypeOK
  <2>6. CASE CopyByte(c)
    BY <2>6 DEF CopyByte, bridge, object, Sealing
  <2>7. CASE Copied(c)
    <3>1. payload' \in {"none", "good"}
      BY <2>7, SealsTheKey
    <3>2. \E label \in {"rust", "done"} : Goto(c, label)
      BY <2>7 DEF Copied, Lend, Finish
    <3>3. UNCHANGED <<object, op>>
      BY <2>7 DEF Copied
    <3>4. QED
      BY <3>1, <3>2, <3>3 DEF Goto, object, Sealing, TypeOK
  <2>8. QED
    BY <1>2, <2>1, <2>2, <2>3, <2>4, <2>5, <2>6, <2>7 DEF GoesOn
<1>3. CASE Finalize \/ ZeroByte \/ Collected \/ UNCHANGED vars
  BY <1>3 DEF Finalize, ZeroByte, Collected, vars, bridge, object, Sealing
<1>4. QED
  BY <1>1, <1>2, <1>3 DEF Next

(***************************************************************************)
(* What keeps PayloadDecrypts from holding is the finalizer alone: were the*)
(* account kept alive until its key is sealed, every payload of an account *)
(* that nobody zeroizes could be decrypted (EncryptPrivateKey).            *)
(***************************************************************************)
THEOREM KeepAliveSuffices ==
    ASSUME Owners = {}
    PROVE  Spec /\ [][KeepsAlive]_vars => []PayloadDecrypts
<1>1. Init => Unread /\ CopiesAreWhole /\ Sealing
  BY DEF Init, BridgeInit, Unread, CopiesAreWhole, CopyIsWhole, Sealing
<1>2. /\ TypeOK /\ Lifecycle /\ Unread /\ CopiesAreWhole /\ Sealing
      /\ [Next]_vars /\ [KeepsAlive]_vars
      => Sealing'
  BY SealingInv
<1>3. Sealing => PayloadDecrypts
  BY DEF Sealing, PayloadDecrypts
<1>4. QED
  BY <1>1, <1>2, <1>3, UnreadInv, CopiesInv, LifecycleHolds, TypeCorrect, PTL DEF Spec

-----------------------------------------------------------------------------
(* Signing                                                                 *)

\* A signing call carries the whole key, or a text that Rust refuses.
Signing(c) ==
    op[c] = "sign" =>
        /\ pc[c] \in {"copy", "rust", "back", "done"}
        /\ pc[c] # "copy" => fn[c] = "sign_message"
        /\ pc[c] = "rust" /\ text[c] = "good" => copy[c] = AllOf("key")
        /\ pc[c] \in {"back", "done"} /\ outcome[c] \notin Failures => copy[c] = AllOf("key")

AllSigning == \A c \in Callers : Signing(c)

\* A caller that does not sign leaves the signing of the others alone.
LEMMA SigningStays ==
    ASSUME AllSigning, NEW c \in Callers, op'[c] # "sign",
           \A d \in Callers \ {c} :
              UNCHANGED <<pc[d], op[d], fn[d], text[d], copy[d], outcome[d]>>
    PROVE  AllSigning'
BY DEF AllSigning, Signing

LEMMA OthersCall ==
    ASSUME CallTypes, NEW c \in Callers,
           \/ \E f, t : Lend(c, f, t)
           \/ \E r : Finish(c, r)
           \/ Return(c) \/ Crosses(c)
    PROVE  \A d \in Callers \ {c} : UNCHANGED <<pc[d], fn[d], text[d], outcome[d]>>
<1>1. CASE (\E f, t : Lend(c, f, t)) \/ (\E r : Finish(c, r)) \/ Return(c)
  BY <1>1 DEF Lend, Finish, Return, Goto, CallTypes, BridgeTypeOK, call
<1>2. ASSUME NEW o, Ends(c, o)
      PROVE  \A d \in Callers \ {c} : UNCHANGED <<pc[d], fn[d], text[d], outcome[d]>>
  BY <1>2 DEF Ends, Goto, CallTypes, BridgeTypeOK
<1>3. CASE Crosses(c)
  <2>1. CASE Compute(c) \/ Parse(c) \/ BeginLoad(c) \/ EndLoad(c)
    BY <1>2, <2>1 DEF Compute, Parse, BeginLoad, EndLoad, Goto, CallTypes, call
  <2>2. CASE GetOrInitProcess(c) \/ AddProgram(c) \/ VerifyWithProcess(c) \/ BackInGo(c)
    BY <1>2, <2>2 DEF GetOrInitProcess, AddProgram, VerifyWithProcess, BackInGo, Goto,
                      CallTypes, call
  <2>3. QED
    BY <1>3, <2>1, <2>2 DEF Crosses
<1>4. QED
  BY <1>1, <1>3

LEMMA SigningInv ==
    ASSUME TypeOK, Lifecycle, AllSigning, [Next]_vars
    PROVE  AllSigning'
<1>0. CallTypes
  BY DEF TypeOK, CallTypes
<1> USE <1>0
<1>1. ASSUME NEW c \in Callers, Begins(c) PROVE AllSigning'
  <2>1. CASE CallDirectly(c)
    <3>1. op[c] = "none"
      BY <2>1 DEF CallDirectly, Call, Lifecycle
    <3>2. QED
      BY <2>1, <3>1, SigningStays, OthersCall DEF CallDirectly, Call, object
  <2>2. CASE NewAccount(c) \/ AccountFromPrivateKey(c) \/ AccountFromEncryptedPrivateKey(c)
    <3>1. /\ Enter(c, "generate") \/ Enter(c, "create")
          /\ (\E f, t : Lend(c, f, t)) \/ (\E r : Finish(c, r))
          /\ UNCHANGED copy
      BY <2>2 DEF NewAccount, AccountFromPrivateKey, AccountFromEncryptedPrivateKey
    <3>2. QED
      BY <3>1, SigningStays, OthersCall DEF Enter, TypeOK
  <2>3. CASE Get(c)
    BY <2>3 DEF Get, LoadHeader, Enter, Goto, TypeOK, AllSigning, Signing, call
  <2>4. CASE Encrypt(c)
    <3>1. CASE Finish(c, "error")
      BY <2>4, <3>1, SigningStays, OthersCall DEF Encrypt, Enter, TypeOK
    <3>2. CASE Goto(c, "check") /\ UNCHANGED <<call, memory, answer, result, static, clone>>
      BY <2>4, <3>2, SigningStays DEF Encrypt, Enter, Goto, TypeOK, call
    <3>3. QED
      BY <2>4, <3>1, <3>2 DEF Encrypt
  <2>5. CASE Zeroize(c) \/ \E d \in Callers : Share(c, d)
    BY <2>5 DEF Zeroize, Share, bridge, call, AllSigning, Signing
  <2>6. QED
    BY <1>1, <2>1, <2>2, <2>3, <2>4, <2>5 DEF Begins
<1>2. ASSUME NEW c \in Callers, GoesOn(c) PROVE AllSigning'
  <2>1. CASE CallCrosses(c) /\ op[c] # "sign"
    BY <2>1, SigningStays, OthersCall DEF CallCrosses
  <2>2. CASE CallCrosses(c) /\ op[c] = "sign"
    <3>1. Signing(c)
      BY DEF AllSigning
    <3>2. /\ fn[c] = "sign_message" /\ ~UsesProcess(c)
          /\ Compute(c) \/ BackInGo(c)
      BY <2>2, <3>1 DEF CallCrosses, Crosses, Signing, UsesProcess, Compute, Parse, BeginLoad,
         EndLoad, GetOrInitProcess, AddProgram, VerifyWithProcess, BackInGo
    <3>3. Signing(c)'
      <4>1. CASE Compute(c)
        <5>1. PICK o \in Verdicts(c) : Ends(c, o)
          BY <4>1 DEF Compute
        <5>2. text[c] = "good" => copy[c] = AllOf("key")
          BY <2>2, <3>1, <4>1 DEF Compute, Signing
        <5>3. text[c] = "bad" => Verdicts(c) = {"err", "panic"}
          BY DEF Verdicts
        <5>4. o \in {"err", "panic"} \/ copy[c] = AllOf("key")
          BY <5>1, <5>2, <5>3 DEF CallTypes, BridgeTypeOK
        <5>5. pc'[c] = "back" /\ fn'[c] = fn[c] /\ outcome'[c] = o /\ UNCHANGED <<op, copy>>
          BY <2>2, <5>1 DEF CallCrosses, Ends, Goto, CallTypes, BridgeTypeOK
        <5>6. QED
          BY <3>2, <5>4, <5>5 DEF Signing, Failures
      <4>2. CASE BackInGo(c)
        BY <2>2, <3>1, <4>2 DEF CallCrosses, Signing, BackInGo, Goto, CallTypes, call
      <4>3. QED
        BY <3>2, <4>1, <4>2
    <3>4. \A d \in Callers \ {c} : Signing(d)'
      BY <2>2, OthersCall DEF CallCrosses, AllSigning, Signing
    <3>5. QED
      BY <3>3, <3>4 DEF AllSigning
  <2>3. CASE CallReturns(c) \/ Created(c) \/ DeriveKeys(c)
    <3>1. /\ Enter(c, "none") \/ Enter(c, "create")
          /\ Return(c) \/ \E f, t : Lend(c, f, t)
          /\ UNCHANGED copy \/ copy' = [copy EXCEPT ![c] = AllOf("unread")]
      BY <2>3 DEF CallReturns, Created, DeriveKeys
    <3>2. QED
      BY <3>1, SigningStays, OthersCall DEF Enter, TypeOK
  <2>4. CASE Seal(c)
    BY <2>4 DEF Seal, LoadHeader, Goto, TypeOK, AllSigning, Signing, call
  <2>5. CASE CopyByte(c)
    BY <2>5 DEF CopyByte, bridge, call, TypeOK, AllSigning, Signing
  <2>6. CASE Copied(c) /\ op[c] # "sign"
    <3>1. \E r : Finish(c, r)
      BY <2>6 DEF Copied
    <3>2. QED
      BY <2>6, <3>1, SigningStays, OthersCall DEF Copied
  <2>7. CASE Copied(c) /\ op[c] = "sign"
    <3>1. Lend(c, "sign_message", Text(c)) /\ UNCHANGED <<op, copy>>
      BY <2>7 DEF Copied
    <3>2. Text(c) = "good" => copy[c] = AllOf("key")
      BY DEF Text
    <3>3. Signing(c)'
      BY <3>1, <3>2 DEF Lend, Goto, Signing, CallTypes, BridgeTypeOK
    <3>4. \A d \in Callers \ {c} : Signing(d)'
      BY <3>1, OthersCall DEF AllSigning, Signing
    <3>5. QED
      BY <3>3, <3>4 DEF AllSigning
  <2>8. QED
    BY <1>2, <2>1, <2>2, <2>3, <2>4, <2>5, <2>6, <2>7 DEF GoesOn
<1>3. CASE Finalize \/ ZeroByte \/ Collected \/ UNCHANGED vars
  BY <1>3 DEF Finalize, ZeroByte, Collected, vars, bridge, call, AllSigning, Signing
<1>4. QED
  BY <1>1, <1>2, <1>3 DEF Next

(***************************************************************************)
(* However many goroutines use an account, and whenever its finalizer      *)
(* runs, a signature is made with the whole key (Sign, read_c_str).        *)
(***************************************************************************)
THEOREM SignsWhole == Spec => []SignsWithItsKey
<1>1. Init => AllSigning
  BY DEF Init, AllSigning, Signing
<1>2. Shapes /\ AllSigning => SignsWithItsKey
  BY DEF Shapes, CallShape, Crossed, CrossedIn, AllSigning, Signing, SignsWithItsKey,
         Failures
<1>3. QED
  BY <1>1, <1>2, SigningInv, LifecycleHolds, ShapesHold, TypeCorrect, PTL DEF Spec

-----------------------------------------------------------------------------
(* The end of a call                                                       *)

\* A count, which nothing reads: the steps of the call that a caller is in.
VARIABLE turns

TakesTurn(c) == pc'[c] # pc[c] \/ copy'[c] # copy[c]

Counting ==
    turns' = [c \in Callers |-> IF pc'[c] = "idle" THEN 0
                                ELSE IF TakesTurn(c) THEN turns[c] + 1 ELSE turns[c]]

CountedSpec == Spec /\ turns = [c \in Callers |-> 0] /\ [][Counting]_<<vars, turns>>

\* The steps that a new key adds: derive_all_keys after private_key_new.
Again(c) == IF op[c] = "generate" THEN 3 ELSE 0

BytesLeft(c) ==
    (IF copy[c][1] = "unread" THEN 1 ELSE 0) + (IF copy[c][2] = "unread" THEN 1 ELSE 0)

\* The most steps that a call still has to take.
StepsLeft(c) ==
    CASE pc[c] = "idle" -> 7
      [] pc[c] = "check" -> 6
      [] pc[c] = "copy" -> BytesLeft(c) + (IF op[c] = "sign" THEN 3 ELSE 1)
      [] pc[c] = "rust" -> IF UsesProcess(c) THEN 6 ELSE 2 + Again(c)
      [] pc[c] = "process" -> IF PROCESS = "unset" THEN 5 ELSE 3
      [] pc[c] = "load" -> 4
      [] pc[c] = "execute" -> 2
      [] pc[c] = "back" -> 1 + Again(c)
      [] OTHER -> Again(c)

Counted ==
    \A c \in Callers :
        /\ turns[c] \in Nat
        /\ turns[c] + StepsLeft(c) <= 7

\* A new key needs no process, and the process is loading while somebody loads it.
Generating(c) ==
    op[c] = "generate" => /\ pc[c] \in {"rust", "back", "done"}
                          /\ pc[c] = "rust" => ~UsesProcess(c)

Attended ==
    /\ \A c \in Callers : Generating(c)
    /\ PROCESS = "loading" => \E c \in Callers : pc[c] = "load"

\* The steps of a call, one by one.
Follows(c) ==
    \/ pc[c] = "done" /\ pc'[c] = "idle"
    \/ UNCHANGED <<pc[c], op[c], fn[c], copy[c]>>
    \/ pc[c] = "idle" /\ pc'[c] \in {"rust", "done", "check", "copy"}
    \/ /\ UNCHANGED op[c]
       /\ \/ pc[c] = "check" /\ pc'[c] = "copy"
          \/ pc[c] = "copy" /\ pc'[c] = "copy" /\ BytesLeft(c)' < BytesLeft(c)
          \/ pc[c] = "copy" /\ pc'[c] = "rust" /\ op[c] = "sign" /\ fn'[c] = "sign_message"
          \/ pc[c] = "copy" /\ pc'[c] = "done" /\ op[c] # "generate"
          \/ pc[c] = "rust" /\ pc'[c] = "process" /\ UsesProcess(c)
          \/ pc[c] = "rust" /\ pc'[c] = "back"
          \/ pc[c] = "process" /\ pc'[c] = "load" /\ PROCESS = "unset"
          \/ pc[c] = "process" /\ pc'[c] \in {"execute", "back"} /\ PROCESS # "unset"
          \/ /\ pc[c] = "load" /\ pc'[c] \in {"process", "back"}
             /\ PROCESS' \notin {"unset", "loading"}
          \/ pc[c] = "execute" /\ pc'[c] = "back"
          \/ pc[c] = "back" /\ pc'[c] = "done"
    \/ /\ pc[c] = "done" /\ pc'[c] = "rust" /\ op[c] = "generate"
       /\ op'[c] = "create" /\ fn'[c] = "derive_all_keys"

\* What a step of c may make of the process.
Processed(c) ==
    \/ UNCHANGED PROCESS
    \/ PROCESS' = "loading" /\ pc'[c] = "load"
    \/ PROCESS' \notin {"unset", "loading"}

LEMMA CrossesFollow ==
    ASSUME CallTypes, NEW c \in Callers, Crosses(c), UNCHANGED <<op, copy>>
    PROVE  Follows(c) /\ Processed(c)
<1>1. ASSUME NEW o, Ends(c, o) PROVE pc'[c] = "back"
  BY <1>1 DEF Ends, Goto, CallTypes
<1>2. CASE Compute(c) \/ Parse(c)
  BY <1>1, <1>2 DEF Compute, Parse, Follows, Processed, Goto, CallTypes, static
<1>3. CASE BeginLoad(c) \/ EndLoad(c)
  BY <1>1, <1>3 DEF BeginLoad, NobodyLoads, EndLoad, ErrorKept, Follows, Processed, Goto,
         CallTypes
<1>4. CASE GetOrInitProcess(c)
  BY <1>1, <1>4 DEF GetOrInitProcess, Follows, Processed, Goto, CallTypes, static
<1>5. CASE AddProgram(c) \/ VerifyWithProcess(c)
  BY <1>1, <1>5 DEF AddProgram, VerifyWithProcess, Follows, Processed, static
<1>6. CASE BackInGo(c)
  BY <1>6 DEF BackInGo, Follows, Processed, Goto, CallTypes, static
<1>7. QED
  BY <1>2, <1>3, <1>4, <1>5, <1>6 DEF Crosses

\* A caller follows its call, and the others stay where they are.
LEMMA CallerFollows ==
    ASSUME TypeOK, Lifecycle, NEW c \in Callers, Generating(c), Begins(c) \/ GoesOn(c)
    PROVE  Follows(c) /\ Processed(c) /\ Generating(c)'
<1>0. CallTypes
  BY DEF TypeOK, CallTypes
<1> USE <1>0
<1>1. CASE Begins(c)
  <2>1. CASE CallDirectly(c)
    BY <2>1 DEF CallDirectly, Call, Lend, Finish, Goto, CallTypes, Lifecycle, static, Follows,
                Processed, Generating
  <2>2. CASE NewAccount(c)
    BY <2>2 DEF NewAccount, Lend, Goto, Enter, TypeOK, CallTypes, BridgeTypeOK, static, Follows,
                Processed, Generating, UsesProcess
  <2>3. CASE AccountFromPrivateKey(c) \/ AccountFromEncryptedPrivateKey(c)
    <3>1. op'[c] = "create" /\ pc[c] = "idle"
      BY <2>3 DEF AccountFromPrivateKey, AccountFromEncryptedPrivateKey, Enter, TypeOK
    <3>2. pc'[c] \in {"rust", "done"} /\ UNCHANGED static
      BY <2>3 DEF AccountFromPrivateKey, AccountFromEncryptedPrivateKey, Lend, Finish, Goto,
                  CallTypes
    <3>3. QED
      BY <3>1, <3>2 DEF static, Follows, Processed, Generating
  <2>4. CASE Get(c)
    BY <2>4 DEF Get, LoadHeader, Enter, Goto, TypeOK, static, Follows, Processed, Generating
  <2>5. CASE Encrypt(c)
    BY <2>5 DEF Encrypt, Finish, Enter, Goto, TypeOK, static, Follows, Processed, Generating
  <2>6. CASE Zeroize(c) \/ \E d \in Callers : Share(c, d)
    BY <2>6 DEF Zeroize, Share, bridge, call, static, Follows, Processed, Generating, UsesProcess
  <2>7. QED
    BY <1>1, <2>1, <2>2, <2>3, <2>4, <2>5, <2>6 DEF Begins
<1>2. CASE GoesOn(c)
  <2>1. CASE CallCrosses(c)
    <3>1. op[c] = "generate" => Compute(c) \/ BackInGo(c)
      BY <2>1 DEF CallCrosses, Crosses, Generating, Parse, BeginLoad, EndLoad, GetOrInitProcess,
                  AddProgram, VerifyWithProcess
    <3>2. op[c] = "generate" => pc'[c] \in {"back", "done"}
      BY <3>1 DEF Compute, BackInGo, Ends, Goto, CallTypes
    <3>3. QED
      BY <2>1, <3>2, CrossesFollow DEF CallCrosses, Generating
  <2>2. CASE CallReturns(c) \/ Created(c)
    BY <2>2 DEF CallReturns, Created, Return, Enter, Goto, TypeOK, static, Follows,
                Processed, Generating
  <2>3. CASE DeriveKeys(c)
    BY <2>3 DEF DeriveKeys, Lend, Enter, Goto, TypeOK, CallTypes, BridgeTypeOK, static, Follows,
                Processed, Generating
  <2>4. CASE Seal(c)
    BY <2>4 DEF Seal, LoadHeader, Goto, TypeOK, static, Follows, Processed, Generating
  <2>5. CASE CopyByte(c)
    <3>1. PICK b \in Bytes :
             /\ copy[c][b] = "unread"
             /\ copy' = [copy EXCEPT ![c][b] = IF key[b] THEN "key" ELSE "zero"]
      BY <2>5 DEF CopyByte
    <3>2. BytesLeft(c)' < BytesLeft(c)
      BY <3>1 DEF TypeOK, Bytes, BytesLeft
    <3>3. QED
      BY <2>5, <3>2 DEF CopyByte, bridge, call, static, Follows, Processed, Generating
  <2>6. CASE Copied(c)
    BY <2>6 DEF Copied, Lend, Finish, Goto, TypeOK, CallTypes, BridgeTypeOK, static, Follows,
                Processed, Generating
  <2>7. QED
    BY <1>2, <2>1, <2>2, <2>3, <2>4, <2>5, <2>6 DEF GoesOn
<1>3. QED
  BY <1>1, <1>2

LEMMA OthersStay ==
    ASSUME TypeOK, NEW c \in Callers, Begins(c) \/ GoesOn(c)
    PROVE  \A d \in Callers \ {c} : UNCHANGED <<pc[d], op[d], fn[d], copy[d]>>
<1>0. CallTypes
  BY DEF TypeOK, CallTypes
<1>1. CASE \/ \E f, t : Lend(c, f, t)
           \/ \E r : Finish(c, r)
           \/ Return(c) \/ Crosses(c)
  <2>1. \A d \in Callers \ {c} : UNCHANGED <<pc[d], fn[d]>>
    BY <1>0, <1>1, OthersCall
  <2>2. \A d \in Callers \ {c} : UNCHANGED <<op[d], copy[d]>>
    BY DEF Begins, GoesOn, CallDirectly, NewAccount, AccountFromPrivateKey,
           AccountFromEncryptedPrivateKey, Get, Encrypt, Zeroize, Share, CallCrosses, CallReturns,
           DeriveKeys, Created, Seal, CopyByte, Copied, LoadHeader, Enter, TypeOK
  <2>3. QED
    BY <2>1, <2>2
<1>2. CASE Get(c) \/ Encrypt(c) \/ Seal(c)
  BY <1>1, <1>2 DEF Get, Encrypt, Seal, LoadHeader, Goto, Enter, TypeOK, call
<1>3. CASE CopyByte(c) \/ Zeroize(c) \/ \E d \in Callers : Share(c, d)
  BY <1>3 DEF CopyByte, Zeroize, Share, bridge, call, TypeOK
<1>4. CASE \/ CallDirectly(c) \/ NewAccount(c) \/ AccountFromPrivateKey(c)
           \/ AccountFromEncryptedPrivateKey(c) \/ CallCrosses(c) \/ CallReturns(c)
           \/ DeriveKeys(c) \/ Created(c) \/ Copied(c)
  BY <1>1, <1>4 DEF CallDirectly, Call, NewAccount, AccountFromPrivateKey,
                   AccountFromEncryptedPrivateKey, CallCrosses, CallReturns, DeriveKeys, Created,
                   Copied
<1>5. QED
  BY <1>2, <1>3, <1>4 DEF Begins, GoesOn

LEMMA FewerLeft ==
    ASSUME TypeOK, NEW c \in Callers, Follows(c), Generating(c), Generating(c)',
           PROCESS' = "unset" => PROCESS = "unset"
    PROVE  /\ StepsLeft(c) \in 0..7 /\ StepsLeft(c)' \in 0..7
           /\ pc'[c] = "idle" \/ StepsLeft(c)' <= StepsLeft(c)
           /\ pc'[c] = "idle" \/ ~TakesTurn(c) \/ StepsLeft(c)' < StepsLeft(c)
<1>1. BytesLeft(c) \in 0..2 /\ BytesLeft(c)' \in 0..2
  BY DEF BytesLeft
<1>2. Again(c) \in {0, 3} /\ Again(c)' \in {0, 3}
  BY DEF Again
<1>3. StepsLeft(c) \in 0..7 /\ StepsLeft(c)' \in 0..7
  BY <1>1, <1>2 DEF StepsLeft
<1>4. CASE UNCHANGED <<pc[c], op[c], fn[c], copy[c]>>
  <2>1. ~TakesTurn(c)
    BY <1>4 DEF TakesTurn
  <2>2. BytesLeft(c)' = BytesLeft(c) /\ Again(c)' = Again(c) /\ UsesProcess(c)' = UsesProcess(c)
    BY <1>4 DEF BytesLeft, Again, UsesProcess
  <2>3. StepsLeft(c)' <= StepsLeft(c)
    BY <1>1, <1>2, <1>4, <2>2 DEF StepsLeft
  <2>4. QED
    BY <1>3, <2>1, <2>3
<1>5. CASE pc[c] = "idle" /\ pc'[c] \in {"rust", "done", "check", "copy"}
  <2>1. StepsLeft(c) = 7
    BY <1>5 DEF StepsLeft
  <2>2. StepsLeft(c)' < 7
    BY <1>1, <1>2, <1>5 DEF StepsLeft
  <2>3. QED
    BY <1>3, <2>1, <2>2
<1>6. CASE UNCHANGED op[c] /\ pc[c] \in {"check", "copy"} /\ pc'[c] \in {"copy", "rust", "done"}
           /\ Follows(c)
  <2>1. CASE pc[c] = "check" /\ pc'[c] = "copy"
    BY <1>1, <1>3, <2>1 DEF StepsLeft
  <2>2. CASE pc[c] = "copy" /\ pc'[c] = "copy" /\ BytesLeft(c)' < BytesLeft(c)
    BY <1>1, <1>3, <1>6, <2>2 DEF StepsLeft
  <2>3. CASE pc[c] = "copy" /\ pc'[c] = "rust" /\ op[c] = "sign" /\ fn'[c] = "sign_message"
    BY <1>1, <1>3, <1>6, <2>3 DEF StepsLeft, UsesProcess, Again
  <2>4. CASE pc[c] = "copy" /\ pc'[c] = "done" /\ op[c] # "generate"
    BY <1>1, <1>3, <1>6, <2>4 DEF StepsLeft, Again
  <2>5. QED
    BY <1>4, <1>6, <2>1, <2>2, <2>3, <2>4 DEF Follows
<1>7. CASE UNCHANGED op[c] /\ pc[c] \in {"rust", "process", "load", "execute", "back"}
           /\ pc'[c] # pc[c] /\ pc'[c] # "idle"
  <2> SUFFICES StepsLeft(c)' < StepsLeft(c)
    BY <1>3
  <2>1. Again(c)' = Again(c) /\ (pc[c] \in {"process", "load", "execute"} => Again(c) = 0)
    BY <1>7 DEF Again, Generating
  <2>2. CASE pc[c] = "rust" /\ pc'[c] = "process"
    BY <1>3, <1>7, <2>2 DEF StepsLeft, Follows
  <2>3. CASE pc[c] = "rust" /\ pc'[c] = "back"
    BY <1>2, <1>3, <2>1, <2>3 DEF StepsLeft
  <2>4. CASE pc[c] = "process" /\ pc'[c] = "load" /\ PROCESS = "unset"
    BY <1>3, <2>4 DEF StepsLeft
  <2>5. CASE pc[c] = "process" /\ pc'[c] \in {"execute", "back"} /\ PROCESS # "unset"
    BY <1>3, <2>1, <2>5 DEF StepsLeft
  <2>6. CASE /\ pc[c] = "load" /\ pc'[c] \in {"process", "back"}
             /\ PROCESS' \notin {"unset", "loading"}
    BY <1>3, <2>1, <2>6 DEF StepsLeft
  <2>7. CASE \/ pc[c] = "execute" /\ pc'[c] = "back"
             \/ pc[c] = "back" /\ pc'[c] = "done"
    BY <1>2, <1>3, <2>1, <2>7 DEF StepsLeft
  <2>8. \/ pc[c] = "rust" /\ pc'[c] = "process"
        \/ pc[c] = "rust" /\ pc'[c] = "back"
        \/ pc[c] = "process" /\ pc'[c] = "load" /\ PROCESS = "unset"
        \/ pc[c] = "process" /\ pc'[c] \in {"execute", "back"} /\ PROCESS # "unset"
        \/ /\ pc[c] = "load" /\ pc'[c] \in {"process", "back"}
           /\ PROCESS' \notin {"unset", "loading"}
        \/ pc[c] = "execute" /\ pc'[c] = "back"
        \/ pc[c] = "back" /\ pc'[c] = "done"
    BY <1>7 DEF Follows
  <2>9. QED
    BY <2>2, <2>3, <2>4, <2>5, <2>6, <2>7, <2>8
<1>8. CASE /\ pc[c] = "done" /\ pc'[c] = "rust" /\ op[c] = "generate"
           /\ op'[c] = "create" /\ fn'[c] = "derive_all_keys"
  BY <1>3, <1>8 DEF StepsLeft, Again, UsesProcess
<1>9. CASE pc'[c] = "idle"
  BY <1>3, <1>9
<1>10. \/ UNCHANGED <<pc[c], op[c], fn[c], copy[c]>>
       \/ pc[c] = "idle" /\ pc'[c] \in {"rust", "done", "check", "copy"}
       \/ /\ UNCHANGED op[c] /\ pc[c] \in {"check", "copy"}
          /\ pc'[c] \in {"copy", "rust", "done"} /\ Follows(c)
       \/ /\ UNCHANGED op[c] /\ pc[c] \in {"rust", "process", "load", "execute", "back"}
          /\ pc'[c] # pc[c] /\ pc'[c] # "idle"
       \/ /\ pc[c] = "done" /\ pc'[c] = "rust" /\ op[c] = "generate"
          /\ op'[c] = "create" /\ fn'[c] = "derive_all_keys"
       \/ pc'[c] = "idle"
  BY DEF Follows
<1>11. QED
  BY <1>4, <1>5, <1>6, <1>7, <1>8, <1>9, <1>10

LEMMA AttendedInv ==
    ASSUME TypeOK, Lifecycle, Attended, [Next]_vars
    PROVE  Attended'
<1>1. CASE UNCHANGED <<pc, op, fn, PROCESS>>
  BY <1>1 DEF Attended, Generating, UsesProcess
<1>2. ASSUME NEW c \in Callers, Begins(c) \/ GoesOn(c) PROVE Attended'
  <2>1. Follows(c) /\ Processed(c) /\ Generating(c)'
    BY <1>2, CallerFollows DEF Attended
  <2>2. \A d \in Callers \ {c} : UNCHANGED <<pc[d], op[d], fn[d]>>
    BY <1>2, OthersStay
  <2>3. \A d \in Callers : Generating(d)'
    BY <2>1, <2>2 DEF Attended, Generating, UsesProcess
  <2>4. PROCESS' = "loading" => \E d \in Callers : pc'[d] = "load"
    <3>1. CASE PROCESS' = "loading" /\ pc'[c] = "load"
      BY <3>1
    <3>2. CASE UNCHANGED PROCESS /\ PROCESS = "loading"
      <4>1. PICK d \in Callers : pc[d] = "load"
        BY <3>2 DEF Attended
      <4>2. CASE d = c
        BY <2>1, <3>2, <4>1, <4>2 DEF Follows
      <4>3. CASE d # c
        BY <2>2, <4>1, <4>3
      <4>4. QED
        BY <4>2, <4>3
    <3>3. QED
      BY <2>1, <3>1, <3>2 DEF Processed
  <2>5. QED
    BY <2>3, <2>4 DEF Attended
<1>3. CASE Finalize \/ ZeroByte \/ Collected \/ UNCHANGED vars
  BY <1>1, <1>3 DEF Finalize, ZeroByte, Collected, vars, bridge, call, static
<1>4. QED
  BY <1>2, <1>3 DEF Next

LEMMA CountedInv ==
    ASSUME TypeOK, Lifecycle, Attended, Attended', Counted, [Next]_vars, [Counting]_<<vars, turns>>
    PROVE  Counted'
<1>1. CASE UNCHANGED <<vars, turns>>
  BY <1>1 DEF Counted, StepsLeft, BytesLeft, Again, UsesProcess, vars, bridge, call, static
<1>2. ASSUME NEW c \in Callers, StepsLeft(c) \in 0..7, StepsLeft(c)' \in 0..7, Counting,
             pc'[c] = "idle" \/ StepsLeft(c)' <= StepsLeft(c),
             pc'[c] = "idle" \/ ~TakesTurn(c) \/ StepsLeft(c)' < StepsLeft(c)
      PROVE  turns'[c] \in Nat /\ turns'[c] + StepsLeft(c)' <= 7
  <2>1. turns[c] \in Nat /\ turns[c] + StepsLeft(c) <= 7
    BY DEF Counted
  <2>2. CASE pc'[c] = "idle"
    <3>1. turns'[c] = 0
      BY <1>2, <2>2 DEF Counting
    <3>2. QED
      BY <1>2, <3>1
  <2>3. CASE pc'[c] # "idle"
    <3>1. turns'[c] = IF TakesTurn(c) THEN turns[c] + 1 ELSE turns[c]
      BY <1>2, <2>3 DEF Counting
    <3>2. QED
      BY <1>2, <2>1, <2>3, <3>1
  <2>4. QED
    BY <2>2, <2>3
<1>3. ASSUME Counting, NEW d \in Callers, PROCESS' = "unset" => PROCESS = "unset",
             UNCHANGED <<pc[d], op[d], fn[d], copy[d]>>
      PROVE  turns'[d] \in Nat /\ turns'[d] + StepsLeft(d)' <= 7
  <2>1. Follows(d) /\ Generating(d) /\ Generating(d)'
    BY <1>3 DEF Follows, Attended
  <2>2. QED
    BY <1>2, <1>3, <2>1, FewerLeft
<1>4. ASSUME Counting, NEW c \in Callers, Begins(c) \/ GoesOn(c)
      PROVE  Counted'
  <2>1. Follows(c) /\ Processed(c) /\ Generating(c) /\ Generating(c)'
    BY <1>4, CallerFollows DEF Attended
  <2>2. PROCESS' = "unset" => PROCESS = "unset"
    BY <2>1 DEF Processed
  <2>3. turns'[c] \in Nat /\ turns'[c] + StepsLeft(c)' <= 7
    BY <1>2, <1>4, <2>1, <2>2, FewerLeft
  <2>4. ASSUME NEW d \in Callers \ {c}
        PROVE  turns'[d] \in Nat /\ turns'[d] + StepsLeft(d)' <= 7
    <3>1. UNCHANGED <<pc[d], op[d], fn[d], copy[d]>>
      BY <1>4, <2>4, OthersStay
    <3>2. QED
      BY <1>3, <1>4, <2>2, <3>1
  <2>5. QED
    BY <2>3, <2>4 DEF Counted
<1>5. CASE Counting /\ (Finalize \/ ZeroByte \/ Collected \/ UNCHANGED vars)
  <2>1. UNCHANGED <<pc, op, fn, copy, PROCESS>>
    BY <1>5 DEF Finalize, ZeroByte, Collected, vars, bridge, call, static
  <2>2. QED
    BY <1>3, <1>5, <2>1 DEF Counted
<1>6. QED
  BY <1>1, <1>4, <1>5 DEF Next

(***************************************************************************)
(* However many goroutines call, and whichever of them loads the process,  *)
(* fails to or panics: a call takes seven steps at most until it is over,  *)
(* and one that waits for the process finds it settled or still unset, or  *)
(* some other goroutine is loading it (get_or_init_process, whose lock is  *)
(* held over the loading).                                                 *)
(***************************************************************************)
THEOREM CallsAreFinite ==
    CountedSpec => [](/\ \A c \in Callers : turns[c] <= 7
                      /\ \A c \in Callers : pc[c] = "process" =>
                            PROCESS # "loading" \/ \E d \in Callers \ {c} : pc[d] = "load")
<1>1. Init => Attended
  BY Kinds DEF Init, BridgeInit, Attended, Generating
<1>2. Init /\ turns = [c \in Callers |-> 0] => Counted
  <2> SUFFICES ASSUME Init, turns = [c \in Callers |-> 0], NEW c \in Callers
               PROVE  turns[c] \in Nat /\ turns[c] + StepsLeft(c) <= 7
    BY DEF Counted
  <2>1. StepsLeft(c) = 7 /\ turns[c] = 0
    BY DEF Init, BridgeInit, StepsLeft
  <2>2. QED
    BY <2>1
<1>3. TypeOK /\ Counted => \A c \in Callers : turns[c] <= 7
  <2> SUFFICES ASSUME TypeOK, Counted, NEW c \in Callers PROVE turns[c] <= 7
    OBVIOUS
  <2>1. turns[c] \in Nat /\ turns[c] + StepsLeft(c) <= 7
    BY DEF Counted
  <2>2. BytesLeft(c) \in 0..2 /\ Again(c) \in {0, 3}
    BY DEF BytesLeft, Again
  <2>3. StepsLeft(c) \in Nat
    BY <2>2 DEF StepsLeft
  <2>4. QED
    BY <2>1, <2>3
<1>4. Attended => \A c \in Callers : pc[c] = "process" =>
                     PROCESS # "loading" \/ \E d \in Callers \ {c} : pc[d] = "load"
  BY DEF Attended
<1>5. QED
  BY <1>1, <1>2, <1>3, <1>4, AttendedInv, CountedInv, LifecycleHolds, TypeCorrect, PTL
     DEF Spec, CountedSpec

=============================================================================
