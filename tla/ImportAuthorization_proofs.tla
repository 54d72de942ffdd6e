-------------------- MODULE ImportAuthorization_proofs ---------------------
(* Theorems about what ImportResolver hands to aleo_authorize, on top of    *)
(* what ImportResolver_proofs shows of the walk.                            *)
EXTENDS ImportResolver_proofs, FiniteSetTheorems

-----------------------------------------------------------------------------
(* What is needed                                                          *)

\* S has the imports of the root, and those of each of its programs that was read.
Enough(c, S) ==
    /\ c.stack # <<>> => ImportsOf(c.stack[1]) \subseteq S
    /\ \A k \in 2..Len(c.stack) : c.stack[k].prog \in S => ImportsOf(c.stack[k]) \subseteq S
    /\ \A i \in 1..Len(c.ordered) : c.ordered[i].prog \in S => ImportsOf(c.ordered[i]) \subseteq S

\* Nothing is visited that could be left out, and the imports of what is resolved are.
Needed(c) ==
    /\ \A S \in SUBSET Programs : Enough(c, S) => c.visited \subseteq S
    /\ \A i \in 1..Len(c.ordered) : ImportsOf(c.ordered[i]) \subseteq c.visited

LEMMA NeededVisits ==
    ASSUME NEW c \in Calls, NEW d \in Calls, Shape(c), Walk(c), Needed(c),
           Skips(c, d) \/ Visits(c, d)
    PROVE  Needed(d)
<1> DEFINE a == Advanced(c)
           p == Head(Top(c).rest)
           n == Len(c.stack)
<1>1. c.pc = "walk" /\ c.stack # <<>> /\ Top(c).rest # <<>> /\ n \in Nat \ {0}
  BY StackElements DEF Shape, Skips, Visits
<1>2. /\ a = [c EXCEPT !.stack = a.stack] /\ a \in Calls
      /\ Len(a.stack) = n /\ a.stack # <<>>
      /\ \A k \in 1..n : a.stack[k].prog = c.stack[k].prog /\ a.stack[k].source = c.stack[k].source
  BY <1>1, AdvancedCall
<1>3. a.visited = c.visited /\ a.ordered = c.ordered
  BY <1>2 DEF Calls
<1> HIDE DEF a
<1>4. /\ d.stack = a.stack /\ d.ordered = c.ordered /\ c.visited \subseteq d.visited
      /\ d.visited = c.visited \/ (d.visited = c.visited \cup {p} /\ p # Credits)
  <2>1. CASE Skips(c, d)
    BY <1>3, <2>1 DEF Skips, SkippedImport, a
  <2>2. CASE Visits(c, d)
    <3>1. d = [a EXCEPT !.pc = "load", !.want = p, !.visited = @ \cup {p}] /\ ~Known(c, p)
      BY <2>2 DEF Visits, VisitedImport, a
    <3>2. QED
      BY <1>2, <1>3, <3>1 DEF Calls, Known
  <2>3. QED
    BY <2>1, <2>2
<1>5. ASSUME NEW S \in SUBSET Programs, Enough(d, S)
      PROVE  d.visited \subseteq S
  <2>1. \A k \in 1..n : ImportsOf(d.stack[k]) = ImportsOf(c.stack[k])
    BY <1>2, <1>4 DEF ImportsOf
  <2>2. ImportsOf(c.stack[1]) \subseteq S
    BY <1>1, <1>2, <1>4, <1>5, <2>1 DEF Enough
  <2>3. \A k \in 2..n : k \in 1..n
    BY <1>1
  <2>4. \A k \in 2..n : c.stack[k].prog \in S => ImportsOf(c.stack[k]) \subseteq S
    BY <1>2, <1>4, <1>5, <2>1, <2>3 DEF Enough
  <2>5. Enough(c, S)
    BY <1>4, <1>5, <2>2, <2>4 DEF Enough
  <2>6. c.visited \subseteq S
    BY <2>5 DEF Needed
  <2>7. ImportsOf(c.stack[n]) \subseteq S
    <3>1. CASE n = 1
      BY <2>2, <3>1
    <3>2. CASE n # 1
      <4>1. n \in 2..n
        <5>1. n \in Nat \ {0}
          BY <1>1
        <5> HIDE DEF n
        <5>2. QED
          BY <3>2, <5>1
      <4>2. c.stack[n].prog \in Above(c)
        BY <4>1 DEF Above
      <4>3. c.stack[n].prog \in c.visited
        BY <1>1, <4>2 DEF Walk, Marked
      <4>4. QED
        BY <2>4, <2>6, <4>1, <4>3
    <3>3. QED
      BY <3>1, <3>2
  <2>8. p \in ImportsOf(c.stack[n]) \cup {Credits}
    <3>1. Top(c) = c.stack[n] /\ Top(c) \in Frame
      BY <1>1, TopElement
    <3>2. p \in Range(Top(c).rest)
      BY <1>1, <3>1, FirstAndRest DEF Frame
    <3>3. n \in 1..n
      BY <1>1
    <3>4. Range(c.stack[n].rest) \subseteq Range(c.stack[n].source)
      BY <3>3 DEF Walk, Looked
    <3>5. QED
      BY <3>1, <3>2, <3>4 DEF ImportsOf
  <2>9. QED
    BY <1>4, <2>6, <2>7, <2>8
<1>6. \A i \in 1..Len(d.ordered) : ImportsOf(d.ordered[i]) \subseteq d.visited
  BY <1>4 DEF Needed
<1>7. QED
  BY <1>5, <1>6 DEF Needed

LEMMA NeededFinishes ==
    ASSUME NEW c \in Calls, NEW d \in Calls, Shape(c), Walk(c), Needed(c), Finishes(c, d)
    PROVE  Needed(d)
<1> DEFINE n == Len(c.stack)
           o == Len(c.ordered)
<1>1. /\ c.pc = "walk" /\ c.stack # <<>> /\ n \in Nat /\ n > 1 /\ o \in Nat
      /\ Top(c) = c.stack[n] /\ d = Finished(c) /\ Top(c).rest = <<>>
  BY StackElements, TopElement DEF Finishes, Shape
<1>2. /\ Len(d.stack) = n - 1 /\ d.stack # <<>>
      /\ \A k \in 1..(n - 1) : d.stack[k] = c.stack[k]
      /\ Len(d.ordered) = o + 1
      /\ \A i \in 1..o : d.ordered[i] = c.ordered[i]
      /\ d.ordered[o + 1] = [prog |-> Top(c).prog, source |-> Top(c).source]
      /\ d.visited = c.visited
  <2>1. /\ Len(d.stack) = n - 1
        /\ \A k \in 1..(n - 1) : d.stack[k] = c.stack[k]
        /\ Len(d.ordered) = o + 1
        /\ \A i \in 1..o : d.ordered[i] = c.ordered[i]
        /\ d.ordered[o + 1] = [prog |-> Top(c).prog, source |-> Top(c).source]
        /\ d.visited = c.visited
    BY <1>1, FinishedCall
  <2>2. d.stack # <<>>
    BY <1>1, <2>1
  <2>3. QED
    BY <2>1, <2>2
<1>3. d.ordered[o + 1].prog = c.stack[n].prog /\ ImportsOf(d.ordered[o + 1]) = ImportsOf(c.stack[n])
  BY <1>1, <1>2 DEF ImportsOf
<1>4. ASSUME NEW S \in SUBSET Programs, Enough(d, S)
      PROVE  d.visited \subseteq S
  <2>1. c.stack[1] = d.stack[1]
    BY <1>1, <1>2
  <2>2. ASSUME NEW k \in 2..n, c.stack[k].prog \in S
        PROVE  ImportsOf(c.stack[k]) \subseteq S
    <3>1. CASE k = n
      <4>1. o + 1 \in 1..Len(d.ordered)
        BY <1>1, <1>2
      <4>2. QED
        BY <1>3, <1>4, <2>2, <3>1, <4>1 DEF Enough
    <3>2. CASE k # n
      <4>1. k \in 2..Len(d.stack) /\ d.stack[k] = c.stack[k]
        BY <1>1, <1>2, <3>2
      <4>2. QED
        BY <1>4, <2>2, <4>1 DEF Enough
    <3>3. QED
      BY <3>1, <3>2
  <2>3. \A i \in 1..o : i \in 1..Len(d.ordered) /\ d.ordered[i] = c.ordered[i]
    BY <1>1, <1>2
  <2>4. Enough(c, S)
    BY <1>2, <1>4, <2>1, <2>2, <2>3 DEF Enough
  <2>5. QED
    BY <1>2, <2>4 DEF Needed
<1>5. ImportsOf(c.stack[n]) \subseteq c.visited
  <2>1. n \in 1..n /\ Range(c.stack[n].rest) = {}
    BY <1>1 DEF Range
  <2>2. QED
    BY <2>1 DEF Walk, Looked
<1>6. ASSUME NEW i \in 1..Len(d.ordered)
      PROVE  ImportsOf(d.ordered[i]) \subseteq d.visited
  <2>1. CASE i = o + 1
    BY <1>2, <1>3, <1>5, <2>1
  <2>2. CASE i # o + 1
    <3>1. i \in 1..o /\ d.ordered[i] = c.ordered[i]
      BY <1>1, <1>2, <2>2
    <3>2. QED
      BY <1>2, <3>1 DEF Needed
  <2>3. QED
    BY <2>1, <2>2
<1>7. QED
  BY <1>4, <1>6 DEF Needed

LEMMA NeededGoesOn ==
    ASSUME NEW c \in Calls, NEW d \in Calls, Shape(c), Walk(c), Needed(c), Kinds(c, d)
    PROVE  Needed(d)
<1>1. CASE Quiet(c, d)
  BY <1>1 DEF Quiet, Needed, Enough
<1>2. CASE Starts(d) \/ StartsInRoot(d)
  BY <1>2 DEF Starts, StartsInRoot, Needed
<1>3. CASE Enters(c, d)
  <2> DEFINE n == Len(c.stack)
  <2>1. PICK s \in Sources : d = Entered(c, c.want, s)
    BY <1>3 DEF Enters
  <2>2. c.want \in Programs /\ n \in Nat /\ (c.stack = <<>>) = (n = 0)
    BY <1>3, StackElements DEF Enters, Shape
  <2>3. /\ Len(d.stack) = n + 1
        /\ \A k \in 1..n : d.stack[k] = c.stack[k]
        /\ d.visited = c.visited /\ d.ordered = c.ordered
    BY <2>1, <2>2, EnteredCall
  <2>4. ASSUME NEW S \in SUBSET Programs, Enough(d, S)
        PROVE  Enough(c, S)
    <3>1. c.stack # <<>> => d.stack # <<>> /\ d.stack[1] = c.stack[1]
      BY <2>2, <2>3
    <3>2. \A k \in 2..n : k \in 2..Len(d.stack) /\ d.stack[k] = c.stack[k]
      BY <2>2, <2>3
    <3>3. QED
      BY <2>3, <2>4, <3>1, <3>2 DEF Enough
  <2>5. QED
    BY <2>3, <2>4 DEF Needed
<1>4. QED
  BY <1>1, <1>2, <1>3, NeededVisits, NeededFinishes DEF Kinds

\* The walk is over: everything visited is resolved, and with it all that is imported.
Complete(c) ==
    /\ Len(c.stack) = 1
    /\ c.visited = Names(c)
    /\ ImportsOf(c.stack[1]) \subseteq Names(c)

\* A walk that came back to a program its root imports would have found a cycle.
LEMMA RootIsNotResolved ==
    ASSUME NEW c \in Calls, Once(c), Needed(c), Complete(c), NoCycle(c)
    PROVE  c.stack[1].prog \notin Names(c)
<1> DEFINE root == c.stack[1]
           q == root.prog
           o == Len(c.ordered)
           Free(X) == /\ q \notin X
                      /\ \A i \in 1..o : c.ordered[i].prog \in X => ImportsOf(c.ordered[i]) \subseteq X
           V == UNION {X \in SUBSET Names(c) : Free(X)}
           U == Names(c) \ V
<1>1. SUFFICES ASSUME q \in Names(c) PROVE FALSE
  OBVIOUS
<1>2. Names(c) \subseteq Programs
  BY StackElements DEF Names, Resolved
<1>3. V \subseteq Names(c) /\ Free(V)
  OBVIOUS
<1>4. U \in (SUBSET Programs) \ {{}}
  <2>1. q \in U /\ U \subseteq Programs
    BY <1>1, <1>2, <1>3
  <2> HIDE DEF U
  <2>2. QED
    BY <2>1
<1>5. PICK p \in U : \A r \in Read(c) : r.prog = p => ImportsOf(r) \cap U = {}
  BY <1>4 DEF NoCycle
<1>6. CASE p = q
  <2> DEFINE r == [prog |-> root.prog, source |-> root.source]
  <2>1. r \in Read(c) /\ r.prog = q /\ ImportsOf(r) = ImportsOf(root)
    BY DEF Complete, Read, ImportsOf
  <2>2. ImportsOf(root) \subseteq V
    BY <1>5, <1>6, <2>1 DEF Complete
  <2>3. V \in SUBSET Programs
    BY <1>2, <1>3
  <2> HIDE DEF V
  <2>4. Enough(c, V)
    <3>1. 2..Len(c.stack) = {}
      BY DEF Complete
    <3>2. QED
      BY <1>3, <2>2, <3>1 DEF Enough
  <2>5. c.visited \subseteq V
    BY <2>3, <2>4 DEF Needed
  <2>6. QED
    BY <1>1, <1>3, <2>5 DEF Complete
<1>7. CASE p # q
  <2>1. PICK i \in 1..o : p = c.ordered[i].prog
    BY DEF Names
  <2>2. c.ordered[i] \in Read(c)
    BY DEF Read
  <2>3. ImportsOf(c.ordered[i]) \subseteq Names(c)
    BY DEF Needed, Complete
  <2>4. ImportsOf(c.ordered[i]) \subseteq V
    BY <1>5, <2>1, <2>2, <2>3
  <2>5. \A j \in 1..o : c.ordered[j].prog = p => j = i
    BY <2>1 DEF Once
  <2>6. p \in Names(c) /\ p \notin V
    BY <1>5
  <2> DEFINE W == V \cup {p}
  <2>7. W \subseteq Names(c) /\ Free(W)
    <3> HIDE DEF V
    <3>1. QED
      BY <1>3, <1>7, <2>4, <2>5, <2>6
  <2>8. W \subseteq V
    <3> HIDE DEF W
    <3>1. QED
      BY <2>7
  <2>9. QED
    BY <2>6, <2>8
<1>8. QED
  BY <1>6, <1>7

-----------------------------------------------------------------------------
(* What is authorized                                                      *)

\* What aleo_authorize has added so far.
Process(c) == {Credits} \cup {c.ordered[j].prog : j \in 1..c.added}

\* How the walk and the authorization end.
Ending(c) ==
    /\ c.pc # "done" => c.result = "none"
    /\ c.pc \notin {"add", "done"} => c.added = 0
    /\ c.pc \in {"parse", "add"} \/ c.result \notin {"none", "no key", "fetch"} => Complete(c)
    /\ c.pc = "add" => c.added <= Len(c.ordered) /\ c.process = Process(c)
    /\ c.result = "inputs" => "absent" \in Inputs
    /\ c.result \in {"import", "target"} => ~NoCycle(c)

AllNeeded == \A t \in Tasks : Needed(call[t])
AllOrdered == \A t \in Tasks : Ordered(call[t])
AllEnding == \A t \in Tasks : Ending(call[t])

LEMMA EndedEnding ==
    ASSUME NEW c \in Calls, NEW r
    PROVE  LET d == Ended(c, r) IN
           /\ d.pc = "done" /\ d.result = r
           /\ Complete(d) = Complete(c) /\ NoCycle(d) = NoCycle(c)
<1> DEFINE d == Ended(c, r)
<1>1. /\ d.pc = "done" /\ d.result = r
      /\ d.stack = c.stack /\ d.ordered = c.ordered /\ d.visited = c.visited
  BY DEF Ended, Calls
<1> HIDE DEF d
<1>2. Names(d) = Names(c) /\ Read(d) = Read(c)
  BY <1>1 DEF Names, Read
<1>3. QED
  BY <1>1, <1>2 DEF Complete, NoCycle, d

\* A call that is still walking has ended nothing.
LEMMA WalkingOn ==
    ASSUME NEW c \in Calls, Ending(c), NEW d,
           c.pc \notin {"add", "done"}, d.pc \notin {"parse", "add", "done"},
           d.result = c.result, d.added = c.added
    PROVE  Ending(d)
BY DEF Ending

\* A step of task t that brings its call to d.
LEMMA Stepped ==
    ASSUME TypeOK, NEW t \in Tasks, NEW d, Step(t, d)
    PROVE  call'[t] = d /\ \A u \in Tasks \ {t} : call'[u] = call[u]
BY DEF Step, TypeOK

LEMMA BeginEnding ==
    ASSUME TypeOK, NEW t \in Tasks, Begin(t)
    PROVE  Ending(call'[t])
<1>1. CASE Authorize(t)
  <2>1. PICK p \in Programs, b \in BOOLEAN :
           call' = [call EXCEPT ![t] = [Idle EXCEPT !.pc = "load", !.op = "authorize",
                                                    !.cached = b, !.want = p]]
    BY <1>1 DEF Authorize, Step
  <2>2. call'[t] = [Idle EXCEPT !.pc = "load", !.op = "authorize", !.cached = b, !.want = p]
    BY <2>1 DEF TypeOK
  <2>3. QED
    BY <2>2 DEF Idle, Ending
<1>2. CASE AuthorizeWithoutKey(t)
  <2>1. call' = [call EXCEPT ![t] = Ended([Idle EXCEPT !.op = "authorize"], "no key")]
    BY <1>2 DEF AuthorizeWithoutKey, Step
  <2>2. call'[t] = Ended([Idle EXCEPT !.op = "authorize"], "no key")
    BY <2>1 DEF TypeOK
  <2>3. QED
    BY <2>2 DEF Ended, Idle, Ending
<1>3. CASE GetProgramImports(t)
  <2>1. PICK p \in Programs, s \in Given :
           call' = [call EXCEPT ![t] = Entered([Idle EXCEPT !.op = "imports"], p, s)]
    BY <1>3 DEF GetProgramImports
  <2>2. call'[t] = Entered([Idle EXCEPT !.op = "imports"], p, s)
    BY <2>1 DEF TypeOK
  <2>3. QED
    BY <2>2 DEF Entered, Idle, Ending
<1>4. QED
  BY <1>1, <1>2, <1>3 DEF Begin

LEMMA FetchEnding ==
    ASSUME TypeOK, NEW t \in Tasks, Ending(call[t]),
           CacheHit(t) \/ Request(t) \/ NodeAnswers(t) \/ FetchFails(t) \/ AnswerArrives(t)
    PROVE  Ending(call'[t])
<1> DEFINE c == call[t]
<1>1. c \in Calls
  BY DEF TypeOK
<1>2. ASSUME NEW p, NEW s, Step(t, Entered(c, p, s)), c.pc \in {"load", "answered"}
      PROVE  Ending(call'[t])
  <2>1. LET d == Entered(c, p, s) IN
        d.pc = "walk" /\ d.result = c.result /\ d.added = c.added
    BY <1>1 DEF Entered, Calls
  <2>2. QED
    BY <1>1, <1>2, <2>1, Stepped, WalkingOn
<1>3. CASE CacheHit(t)
  BY <1>2, <1>3 DEF CacheHit
<1>4. CASE AnswerArrives(t)
  BY <1>2, <1>4 DEF AnswerArrives
<1>5. CASE Request(t) \/ NodeAnswers(t)
  <2>1. ASSUME NEW d, Step(t, d), c.pc \in {"load", "request"},
               d.pc \in {"request", "answered"}, d.result = c.result, d.added = c.added
        PROVE  Ending(call'[t])
    BY <1>1, <2>1, Stepped, WalkingOn
  <2>2. CASE Request(t)
    <3> DEFINE d == [c EXCEPT !.pc = "request", !.requests = Append(@, c.want)]
    <3>1. d.pc = "request" /\ d.result = c.result /\ d.added = c.added
      BY <1>1 DEF Calls
    <3>2. QED
      BY <2>1, <2>2, <3>1 DEF Request
  <2>3. CASE NodeAnswers(t)
    <3> DEFINE d == [c EXCEPT !.pc = "answered", !.answer = deployed[c.want]]
    <3>1. d.pc = "answered" /\ d.result = c.result /\ d.added = c.added
      BY <1>1 DEF Calls
    <3>2. QED
      BY <2>1, <2>3, <3>1 DEF NodeAnswers
  <2>4. QED
    BY <1>5, <2>2, <2>3
<1>6. CASE FetchFails(t)
  <2>1. call'[t] = Ended([Idle EXCEPT !.op = c.op, !.cached = c.cached], "fetch")
    BY <1>6, Stepped DEF FetchFails
  <2>2. call'[t].pc = "done" /\ call'[t].result = "fetch"
    BY <2>1 DEF Ended, Idle
  <2>3. QED
    BY <2>2 DEF Ending
<1>7. QED
  BY <1>3, <1>4, <1>5, <1>6

LEMMA WalkEnding ==
    ASSUME TypeOK, NEW t \in Tasks, Shape(call[t]), Walk(call[t]), Ending(call[t]),
           SkipImport(t) \/ VisitImport(t) \/ FinishImport(t) \/ FinishRoot(t)
    PROVE  Ending(call'[t])
<1> DEFINE c == call[t]
           n == Len(c.stack)
<1>1. c \in Calls /\ c.pc = "walk" /\ c.stack # <<>>
  BY DEF TypeOK, SkipImport, VisitImport, FinishImport, FinishRoot, Shape
<1>2. ASSUME NEW d, Step(t, d), d.pc \in {"walk", "load"},
             d.result = c.result, d.added = c.added
      PROVE  Ending(call'[t])
  BY <1>1, <1>2, Stepped, WalkingOn
<1>3. CASE SkipImport(t)
  <2> DEFINE d == SkippedImport(c)
  <2>1. d.pc = c.pc /\ d.result = c.result /\ d.added = c.added
    BY <1>1 DEF SkippedImport, Advanced, Calls
  <2>2. QED
    BY <1>1, <1>2, <1>3, <2>1 DEF SkipImport
<1>4. CASE VisitImport(t)
  <2> DEFINE d == VisitedImport(c, Head(Top(c).rest))
  <2>1. d.pc = "load" /\ d.result = c.result /\ d.added = c.added
    BY <1>1 DEF VisitedImport, Advanced, Calls
  <2>2. QED
    BY <1>2, <1>4, <2>1 DEF VisitImport
<1>5. CASE FinishImport(t)
  <2> DEFINE d == Finished(c)
  <2>1. d.pc = c.pc /\ d.result = c.result /\ d.added = c.added
    BY <1>1 DEF Finished, Calls
  <2>2. QED
    BY <1>1, <1>2, <1>5, <2>1 DEF FinishImport
<1>6. CASE FinishRoot(t)
  <2>1. n = 1 /\ Top(c) = c.stack[1] /\ Top(c).rest = <<>>
    BY <1>1, <1>6, TopElement DEF FinishRoot
  <2>2. Complete(c)
    <3>1. Above(c) = {} /\ Wanted(c) = {}
      BY <1>1, <2>1 DEF Above, Wanted, Loading
    <3>2. c.visited = Names(c)
      BY <1>1, <3>1 DEF Walk, Marked
    <3>3. Range(c.stack[1].rest) = {} /\ 1 \in 1..n
      BY <2>1 DEF Range
    <3>4. ImportsOf(c.stack[1]) \subseteq c.visited \cup Range(c.stack[1].rest)
      BY <3>3 DEF Walk, Looked
    <3>5. QED
      BY <2>1, <3>2, <3>3, <3>4 DEF Complete
  <2>3. CASE c.op = "imports"
    <3>1. call'[t] = Ended(c, "ok")
      BY <1>6, <2>3, Stepped DEF FinishRoot
    <3>2. call'[t].pc = "done" /\ call'[t].result = "ok" /\ Complete(call'[t])
      BY <1>1, <2>2, <3>1, EndedEnding
    <3>3. QED
      BY <3>2 DEF Ending
  <2>4. CASE c.op # "imports"
    <3> DEFINE d == [c EXCEPT !.pc = "parse"]
    <3>1. call'[t] = d
      BY <1>6, <2>4, Stepped DEF FinishRoot
    <3>2. /\ d.pc = "parse" /\ d.result = c.result /\ d.added = c.added
          /\ d.stack = c.stack /\ d.ordered = c.ordered /\ d.visited = c.visited
      BY <1>1 DEF Calls
    <3> HIDE DEF d
    <3>3. Complete(d)
      BY <2>2, <3>2 DEF Complete, Names
    <3>4. QED
      BY <1>1, <3>1, <3>2, <3>3 DEF Ending
  <2>5. QED
    BY <2>3, <2>4
<1>7. QED
  BY <1>3, <1>4, <1>5, <1>6

LEMMA ParseEnding ==
    ASSUME TypeOK, NEW t \in Tasks, Ending(call[t]), ParseInputs(t)
    PROVE  Ending(call'[t])
<1> DEFINE c == call[t]
           d == [c EXCEPT !.pc = "add", !.process = {Credits}]
<1>1. c \in Calls /\ c.pc = "parse" /\ Complete(c) /\ c.added = 0 /\ c.result = "none"
  BY DEF TypeOK, ParseInputs, Ending
<1>2. PICK inputs \in Inputs :
          Step(t, IF MarshalledAsArray(inputs) THEN d ELSE Ended(c, "inputs"))
  BY DEF ParseInputs
<1>3. CASE MarshalledAsArray(inputs)
  <2>1. call'[t] = d
    BY <1>2, <1>3, Stepped
  <2>2. /\ d.pc = "add" /\ d.result = c.result /\ d.added = c.added /\ d.process = {Credits}
        /\ d.stack = c.stack /\ d.ordered = c.ordered /\ d.visited = c.visited
    BY <1>1 DEF Calls
  <2> HIDE DEF d
  <2>3. Complete(d)
    BY <1>1, <2>2 DEF Complete, Names
  <2>4. Process(d) = {Credits} /\ Len(d.ordered) \in Nat
    BY <1>1, <2>2, StackElements DEF Process
  <2>5. QED
    BY <1>1, <2>1, <2>2, <2>3, <2>4 DEF Ending
<1>4. CASE ~MarshalledAsArray(inputs)
  <2>1. call'[t] = Ended(c, "inputs")
    BY <1>2, <1>4, Stepped
  <2>2. call'[t].pc = "done" /\ call'[t].result = "inputs" /\ Complete(call'[t])
    BY <1>1, <2>1, EndedEnding
  <2>3. "absent" \in Inputs
    BY <1>4, InputAssumption DEF MarshalledAsArray
  <2>4. QED
    BY <2>2, <2>3 DEF Ending
<1>5. QED
  BY <1>3, <1>4

LEMMA AddImportEnding ==
    ASSUME TypeOK, NEW t \in Tasks, Walk(call[t]), Ordered(call[t]), Ending(call[t]),
           AddImport(t)
    PROVE  Ending(call'[t])
<1> DEFINE c == call[t]
           k == c.added + 1
           next == c.ordered[k]
           d == [c EXCEPT !.added = @ + 1, !.process = @ \cup {next.prog}]
<1>1. /\ c \in Calls /\ c.pc = "add" /\ Complete(c) /\ c.result = "none"
      /\ c.process = Process(c) /\ c.added \in Nat /\ c.added < Len(c.ordered)
  BY DEF TypeOK, AddImport, Ending, Calls
<1>2. /\ Len(c.ordered) \in Nat /\ k \in 1..Len(c.ordered) /\ next \in Resolved
      /\ k - 1 = c.added
  BY <1>1, StackElements
<1>3. CASE Accepts(c.process, next.prog, next.source)
  <2>1. call'[t] = d
    BY <1>3, Stepped DEF AddImport
  <2>2. /\ d.pc = "add" /\ d.result = c.result /\ d.added = k
        /\ d.process = c.process \cup {next.prog}
        /\ d.stack = c.stack /\ d.ordered = c.ordered /\ d.visited = c.visited
    BY <1>1 DEF Calls
  <2>3. Process(d) = Process(c) \cup {next.prog}
    <3>1. 1..k = 1..c.added \cup {k}
      BY <1>1
    <3> HIDE DEF d, k
    <3>2. Process(d) = {Credits} \cup {c.ordered[j].prog : j \in 1..k}
      BY <2>2 DEF Process
    <3>3. QED
      BY <3>1, <3>2 DEF Process
  <2> HIDE DEF d
  <2>4. Complete(d)
    BY <1>1, <2>2 DEF Complete, Names
  <2>5. QED
    BY <1>1, <1>2, <2>1, <2>2, <2>3, <2>4 DEF Ending
<1>4. CASE ~Accepts(c.process, next.prog, next.source)
  <2>1. call'[t] = Ended(c, "import")
    BY <1>4, Stepped DEF AddImport
  <2>2. ASSUME NoCycle(c) PROVE FALSE
    <3>1. ImportsOf(next) \subseteq {c.ordered[j].prog : j \in 1..c.added}
      BY <1>2, <2>2 DEF Ordered
    <3>2. Range(next.source) \subseteq c.process
      BY <1>1, <3>1 DEF Process, ImportsOf
    <3>3. next.prog # Credits
      BY <1>2, ProgramAssumption DEF Resolved
    <3>4. \A j \in 1..c.added : c.ordered[j].prog # next.prog
      <4>1. \A j \in 1..c.added : j \in 1..Len(c.ordered) /\ j # k
        BY <1>1, <1>2
      <4>2. QED
        BY <1>2, <4>1 DEF Walk, Once
    <3>5. next.prog \notin c.process
      BY <1>1, <3>3, <3>4 DEF Process
    <3>6. QED
      BY <1>4, <3>2, <3>5 DEF Accepts
  <2>3. /\ call'[t].pc = "done" /\ call'[t].result = "import"
        /\ Complete(call'[t]) /\ ~NoCycle(call'[t])
    BY <1>1, <2>1, <2>2, EndedEnding
  <2>4. QED
    BY <2>3 DEF Ending
<1>5. QED
  BY <1>3, <1>4

LEMMA AddTargetEnding ==
    ASSUME TypeOK, NEW t \in Tasks, Walk(call[t]), Needed(call[t]), Ending(call[t]),
           AddTarget(t)
    PROVE  Ending(call'[t])
<1> DEFINE c == call[t]
           root == c.stack[1]
<1>1. /\ c \in Calls /\ c.pc = "add" /\ Complete(c) /\ c.result = "none"
      /\ c.process = Process(c) /\ c.added = Len(c.ordered)
  BY DEF TypeOK, AddTarget, Ending
<1>2. c.process = {Credits} \cup Names(c) /\ root \in Frame
  BY <1>1, StackElements DEF Process, Names, Complete
<1>3. PICK result : /\ result \in IF Accepts(c.process, root.prog, root.source)
                                  THEN {"ok", "refused"} ELSE {"target"}
                    /\ Step(t, Ended(c, result))
  BY DEF AddTarget
<1>4. ASSUME NoCycle(c) PROVE Accepts(c.process, root.prog, root.source)
  <2>1. root.prog \notin Names(c)
    BY <1>1, <1>4, RootIsNotResolved DEF Walk
  <2>2. root.prog # Credits
    BY <1>2, ProgramAssumption DEF Frame
  <2>3. Range(root.source) \subseteq c.process
    BY <1>1, <1>2 DEF Complete, ImportsOf
  <2>4. QED
    BY <1>2, <2>1, <2>2, <2>3 DEF Accepts
<1>5. call'[t] = Ended(c, result)
  BY <1>3, Stepped
<1>6. /\ call'[t].pc = "done" /\ call'[t].result = result
      /\ Complete(call'[t]) /\ NoCycle(call'[t]) = NoCycle(c)
  BY <1>1, <1>5, EndedEnding
<1>7. result \in {"ok", "refused", "target"} /\ (result = "target" => ~NoCycle(c))
  BY <1>3, <1>4
<1>8. QED
  BY <1>6, <1>7 DEF Ending

Inv == TypeInv /\ AllWalk /\ AllOrdered /\ AllNeeded /\ AllEnding

LEMMA InvHolds == Spec => []Inv
<1>1. Init => AllOrdered /\ AllNeeded /\ AllEnding
  <2> SUFFICES ASSUME Init, NEW t \in Tasks
               PROVE  Ordered(call[t]) /\ Needed(call[t]) /\ Ending(call[t])
    BY DEF AllOrdered, AllNeeded, AllEnding
  <2>1. call[t] = Idle
    BY DEF Init
  <2>2. QED
    BY <2>1 DEF Idle, Ordered, Needed, Ending
<1>2. TypeInv /\ AllWalk /\ AllOrdered /\ AllNeeded /\ AllEnding /\ [Next]_vars
        => AllOrdered' /\ AllNeeded' /\ AllEnding'
  <2> SUFFICES ASSUME TypeInv, AllWalk, AllOrdered, AllNeeded, AllEnding, [Next]_vars
               PROVE  AllOrdered' /\ AllNeeded' /\ AllEnding'
    OBVIOUS
  <2>1. CASE UNCHANGED call
    BY <2>1 DEF AllOrdered, AllNeeded, AllEnding
  <2>2. CASE call' # call
    <3>1. PICK t \in Tasks : Begin(t) \/ Advance(t)
      BY <2>2 DEF Next, Upgrade, vars
    <3>2. PICK d \in Calls : Turn(t, d)
      BY <3>1, Beginnings, Advances
    <3>3. TypeOK /\ call[t] \in Calls /\ Shape(call[t]) /\ Walk(call[t])
          /\ Ordered(call[t]) /\ Needed(call[t]) /\ Ending(call[t])
      BY DEF TypeInv, TypeOK, AllShaped, AllWalk, AllOrdered, AllNeeded, AllEnding
    <3>4. call'[t] = d /\ \A u \in Tasks \ {t} : call'[u] = call[u]
      BY <3>2, <3>3 DEF Turn, TypeOK
    <3>5. Ordered(d) /\ Needed(d)
      BY <3>2, <3>3, OrderGoesOn, NeededGoesOn DEF Turn
    <3>6. Ending(call'[t])
      BY <3>1, <3>3, BeginEnding, FetchEnding, WalkEnding, ParseEnding, AddImportEnding,
         AddTargetEnding DEF Advance
    <3>7. QED
      BY <3>4, <3>5, <3>6 DEF AllOrdered, AllNeeded, AllEnding
  <2>3. QED
    BY <2>1, <2>2
<1>3. QED
  BY <1>1, <1>2, WalksHold, PTL DEF Spec, Inv

(***************************************************************************)
(* The result of a walk has the imports of the root and of all that is in  *)
(* it, and nothing that could be left out, for every import graph, cyclic  *)
(* ones too (collectImports, GetProgramImports).                           *)
(***************************************************************************)
THEOREM AllThatIsNeeded == Spec => []ImportsComplete
<1>1. Inv => ImportsComplete
  <2> SUFFICES ASSUME Inv, NEW t \in Tasks,
                      call[t].pc = "add" \/ (call[t].op = "imports" /\ call[t].result = "ok")
               PROVE  LET c == call[t]
                          names == {r.prog : r \in Range(c.ordered)}
                          Closed(S) ==
                              /\ ImportsOf(c.stack[1]) \subseteq S
                              /\ \A r \in Range(c.ordered) : r.prog \in S => ImportsOf(r) \subseteq S
                      IN  /\ Closed(names)
                          /\ \A S \in SUBSET names : Closed(S) => S = names
    BY DEF ImportsComplete
  <2> DEFINE c == call[t]
  <2>1. c \in Calls /\ Needed(c) /\ Complete(c)
    BY DEF Inv, TypeInv, TypeOK, AllNeeded, AllEnding, Ending
  <2> HIDE DEF c
  <2>2. c.ordered \in Seq(Resolved)
    BY <2>1 DEF Calls
  <2>3. Range(c.ordered) = {c.ordered[i] : i \in 1..Len(c.ordered)}
    BY <2>2, RangeEquality
  <2>4. {r.prog : r \in Range(c.ordered)} = Names(c) /\ Names(c) \subseteq Programs
    BY <2>1, <2>3, StackElements DEF Names, Resolved
  <2>5. \A r \in Range(c.ordered) : ImportsOf(r) \subseteq Names(c)
    BY <2>1, <2>3 DEF Needed, Complete
  <2>6. ASSUME NEW S \in SUBSET Names(c), ImportsOf(c.stack[1]) \subseteq S,
               \A r \in Range(c.ordered) : r.prog \in S => ImportsOf(r) \subseteq S
        PROVE  S = Names(c)
    <3>1. 2..Len(c.stack) = {}
      BY <2>1 DEF Complete
    <3>2. Enough(c, S)
      BY <2>3, <2>6, <3>1 DEF Enough
    <3>3. S \in SUBSET Programs
      BY <2>4
    <3>4. c.visited \subseteq S
      BY <2>1, <3>2, <3>3 DEF Needed
    <3>5. QED
      BY <2>1, <3>4 DEF Complete
  <2>7. QED
    BY <2>1, <2>4, <2>5, <2>6 DEF Complete, c
<1>2. QED
  BY <1>1, InvHolds, PTL

(***************************************************************************)
(* Of inputs that are not nil and programs that do not import each other,  *)
(* aleo_authorize refuses none for its encoding, for a missing import or   *)
(* for one that is there already (BuildAuthorization, aleo_authorize).     *)
(***************************************************************************)
THEOREM SoundCallsPass ==
    ASSUME "absent" \notin Inputs
    PROVE  Spec => []SoundCallAccepted
<1>1. Inv => SoundCallAccepted
  <2> SUFFICES ASSUME Inv, NEW t \in Tasks
               PROVE  /\ call[t].result # "inputs"
                      /\ call[t].result \in {"import", "target"} => ~Acyclic(t)
    BY DEF SoundCallAccepted
  <2>1. TypeOK /\ Ending(call[t])
    BY DEF Inv, TypeInv, AllEnding
  <2>2. QED
    BY <2>1, CyclesOfACall DEF Ending
<1>2. QED
  BY <1>1, InvHolds, PTL

-----------------------------------------------------------------------------
(* The end of a call                                                       *)

LEMMA FirstLess ==
    ASSUME NEW m, NEW n,
           \/ m[1] < n[1]
           \/ m[1] = n[1] /\ m[2] < n[2]
           \/ m[1] = n[1] /\ m[2] = n[2] /\ m[3] < n[3]
           \/ m[1] = n[1] /\ m[2] = n[2] /\ m[3] = n[3] /\ m[4] < n[4]
    PROVE  LessLeft(m, n)
<1>1. CASE m[1] < n[1]
  BY <1>1 DEF LessLeft
<1>2. CASE m[1] = n[1] /\ m[2] < n[2]
  <2>1. \A j \in 1..(2 - 1) : m[j] = n[j]
    BY <1>2
  <2>2. QED
    BY <1>2, <2>1 DEF LessLeft
<1>3. CASE m[1] = n[1] /\ m[2] = n[2] /\ m[3] < n[3]
  <2>1. \A j \in 1..(3 - 1) : m[j] = n[j]
    <3>1. \A j \in 1..(3 - 1) : j = 1 \/ j = 2
      OBVIOUS
    <3>2. QED
      BY <1>3, <3>1
  <2>2. QED
    BY <1>3, <2>1 DEF LessLeft
<1>4. CASE m[1] = n[1] /\ m[2] = n[2] /\ m[3] = n[3] /\ m[4] < n[4]
  <2>1. \A j \in 1..(4 - 1) : m[j] = n[j]
    <3>1. \A j \in 1..(4 - 1) : j = 1 \/ j = 2 \/ j = 3
      OBVIOUS
    <3>2. QED
      BY <1>4, <3>1
  <2>2. QED
    BY <1>4, <2>1 DEF LessLeft
<1>5. QED
  BY <1>1, <1>2, <1>3, <1>4

LineLeft(c) ==
    CASE c.pc = "walk" -> Len(Top(c).rest)
      [] c.pc = "add" -> Len(c.ordered) - c.added
      [] OTHER -> 0

LEMMA LeftParts ==
    ASSUME NEW c
    PROVE  /\ c.pc = "done" => Left(c)[1] = 0 /\ Left(c)[2] = 0
           /\ c.pc # "done" => /\ Left(c)[1] = Cardinality(Programs \ c.visited)
                               /\ Left(c)[2] = Stage(c.pc)
                               /\ Left(c)[3] = Len(c.stack)
                               /\ Left(c)[4] = LineLeft(c)
BY DEF Left, LineLeft

LEMMA Unvisited ==
    ASSUME IsFiniteSet(Programs), NEW V
    PROVE  IsFiniteSet(Programs \ V) /\ Cardinality(Programs \ V) \in Nat
<1>1. Programs \ V \subseteq Programs
  OBVIOUS
<1>2. QED
  BY <1>1, FS_Subset, FS_CardinalityType

LEMMA Stages ==
    /\ \A l \in {"idle", "load", "request", "answered", "walk", "parse", "add", "done"} :
          Stage(l) \in Nat
    /\ Stage("load") = 6 /\ Stage("request") = 5 /\ Stage("answered") = 4
    /\ Stage("walk") = 3 /\ Stage("parse") = 2 /\ Stage("add") = 1
BY DEF Stage

\* What is left is a tuple of natural numbers, so it cannot get less for ever.
LEMMA LeftType ==
    ASSUME IsFiniteSet(Programs), NEW c \in Calls, Shape(c), Ending(c)
    PROVE  Left(c) \in Nat \X Nat \X Nat \X Nat
<1>1. /\ Cardinality(Programs \ c.visited) \in Nat /\ Stage(c.pc) \in Nat
      /\ Len(c.stack) \in Nat /\ Len(c.ordered) \in Nat /\ c.added \in Nat
  BY Unvisited, Stages, StackElements DEF Calls
<1>2. LineLeft(c) \in Nat
  <2>1. CASE c.pc = "walk"
    <3>1. Top(c) \in Frame
      BY <2>1, LastElement DEF Shape, Top, Calls
    <3>2. Len(Top(c).rest) \in Nat
      BY <3>1 DEF Frame
    <3>3. QED
      BY <2>1, <3>2 DEF LineLeft
  <2>2. CASE c.pc = "add"
    BY <1>1, <2>2 DEF Ending, LineLeft
  <2>3. CASE c.pc \notin {"walk", "add"}
    BY <2>3 DEF LineLeft
  <2>4. QED
    BY <2>1, <2>2, <2>3
<1>3. Left(c) = IF c.pc = "done" THEN <<0, 0, 0, 0>>
                ELSE <<Cardinality(Programs \ c.visited), Stage(c.pc), Len(c.stack), LineLeft(c)>>
  BY DEF Left, LineLeft
<1>4. QED
  BY <1>1, <1>2, <1>3

LEMMA NextStage ==
    ASSUME NEW c, NEW d, c.pc # "done", d.pc # "done",
           d.visited = c.visited, Stage(d.pc) < Stage(c.pc)
    PROVE  LessLeft(Left(d), Left(c))
BY LeftParts, FirstLess

LEMMA SameStage ==
    ASSUME NEW c, NEW d, c.pc # "done", d.pc = c.pc, d.visited = c.visited,
           \/ Len(d.stack) < Len(c.stack)
           \/ Len(d.stack) = Len(c.stack) /\ LineLeft(d) < LineLeft(c)
    PROVE  LessLeft(Left(d), Left(c))
<1> DEFINE m == Left(d)
           n == Left(c)
<1>1. /\ m[1] = Cardinality(Programs \ d.visited) /\ m[2] = Stage(d.pc)
      /\ m[3] = Len(d.stack) /\ m[4] = LineLeft(d)
  BY LeftParts
<1>2. /\ n[1] = Cardinality(Programs \ c.visited) /\ n[2] = Stage(c.pc)
      /\ n[3] = Len(c.stack) /\ n[4] = LineLeft(c)
  BY LeftParts
<1> HIDE DEF m, n
<1>3. m[1] = n[1] /\ m[2] = n[2] /\ (m[3] < n[3] \/ (m[3] = n[3] /\ m[4] < n[4]))
  BY <1>1, <1>2
<1>4. LessLeft(m, n)
  BY <1>3, FirstLess
<1>5. QED
  BY <1>4 DEF m, n

LEMMA LastStage ==
    ASSUME IsFiniteSet(Programs), NEW c \in Calls, c.pc \notin {"idle", "done"},
           NEW d, d.pc = "done"
    PROVE  LessLeft(Left(d), Left(c))
<1>1. Cardinality(Programs \ c.visited) \in Nat
  BY Unvisited
<1>2. Stage(c.pc) > 0
  BY Stages DEF Calls
<1>3. Left(d)[1] = 0 /\ Left(d)[2] = 0
  BY LeftParts
<1>4. Left(c)[1] = Cardinality(Programs \ c.visited) /\ Left(c)[2] = Stage(c.pc)
  BY LeftParts
<1>5. Left(d)[1] < Left(c)[1] \/ (Left(d)[1] = Left(c)[1] /\ Left(d)[2] < Left(c)[2])
  BY <1>1, <1>2, <1>3, <1>4
<1>6. QED
  BY <1>5, FirstLess

LEMMA FetchLess ==
    ASSUME IsFiniteSet(Programs), TypeOK, NEW t \in Tasks,
           CacheHit(t) \/ Request(t) \/ NodeAnswers(t) \/ FetchFails(t) \/ AnswerArrives(t)
    PROVE  LessLeft(Left(call'[t]), Left(call[t]))
<1> DEFINE c == call[t]
<1>1. c \in Calls
  BY DEF TypeOK
<1>2. ASSUME NEW p, NEW s, Step(t, Entered(c, p, s)), c.pc \in {"load", "answered"}
      PROVE  LessLeft(Left(call'[t]), Left(c))
  <2> DEFINE d == Entered(c, p, s)
  <2>1. d.pc = "walk" /\ d.visited = c.visited
    BY <1>1 DEF Entered, Calls
  <2>2. call'[t] = d
    BY <1>2, Stepped
  <2> HIDE DEF d
  <2>3. Stage(d.pc) < Stage(c.pc)
    BY <1>2, <2>1, Stages
  <2>4. QED
    BY <1>2, <2>1, <2>2, <2>3, NextStage
<1>3. CASE CacheHit(t)
  BY <1>2, <1>3 DEF CacheHit
<1>4. CASE AnswerArrives(t)
  BY <1>2, <1>4 DEF AnswerArrives
<1>5. CASE Request(t)
  <2> DEFINE d == [c EXCEPT !.pc = "request", !.requests = Append(@, c.want)]
  <2>1. d.pc = "request" /\ d.visited = c.visited
    BY <1>1 DEF Calls
  <2>2. call'[t] = d /\ c.pc = "load"
    BY <1>5, Stepped DEF Request
  <2> HIDE DEF d
  <2>3. Stage(d.pc) < Stage(c.pc)
    BY <2>1, <2>2, Stages
  <2>4. QED
    BY <2>1, <2>2, <2>3, NextStage
<1>6. CASE NodeAnswers(t)
  <2> DEFINE d == [c EXCEPT !.pc = "answered", !.answer = deployed[c.want]]
  <2>1. d.pc = "answered" /\ d.visited = c.visited
    BY <1>1 DEF Calls
  <2>2. call'[t] = d /\ c.pc = "request"
    BY <1>6, Stepped DEF NodeAnswers
  <2> HIDE DEF d
  <2>3. Stage(d.pc) < Stage(c.pc)
    BY <2>1, <2>2, Stages
  <2>4. QED
    BY <2>1, <2>2, <2>3, NextStage
<1>7. CASE FetchFails(t)
  <2>1. call'[t] = Ended([Idle EXCEPT !.op = c.op, !.cached = c.cached], "fetch")
    BY <1>7, Stepped DEF FetchFails
  <2>2. call'[t].pc = "done" /\ c.pc = "request"
    BY <1>7, <2>1 DEF Ended, Idle, FetchFails
  <2>3. QED
    BY <1>1, <2>2, LastStage
<1>8. QED
  BY <1>3, <1>4, <1>5, <1>6, <1>7

LEMMA WalkLess ==
    ASSUME IsFiniteSet(Programs), TypeOK, NEW t \in Tasks, Shape(call[t]),
           SkipImport(t) \/ VisitImport(t) \/ FinishImport(t) \/ FinishRoot(t)
    PROVE  LessLeft(Left(call'[t]), Left(call[t]))
<1> DEFINE c == call[t]
           n == Len(c.stack)
           a == Advanced(c)
<1>1. c \in Calls /\ c.pc = "walk" /\ c.stack # <<>> /\ n \in Nat \ {0}
  BY StackElements DEF TypeOK, SkipImport, VisitImport, FinishImport, FinishRoot, Shape
<1>2. ASSUME Top(c).rest # <<>>
      PROVE  /\ a.pc = "walk" /\ a.visited = c.visited /\ Len(a.stack) = n
             /\ Top(a).rest = Tail(Top(c).rest)
  <2>1. /\ a = [c EXCEPT !.stack = a.stack] /\ a \in Calls
        /\ Len(a.stack) = n /\ a.stack # <<>>
        /\ a.stack[n].rest = Tail(Top(c).rest)
    BY <1>1, <1>2, AdvancedCall
  <2>2. a.pc = c.pc /\ a.visited = c.visited
    BY <2>1 DEF Calls
  <2> HIDE DEF a
  <2>3. Top(a) = a.stack[n]
    BY <2>1, TopElement
  <2>4. QED
    BY <1>1, <2>1, <2>2, <2>3
<1>3. CASE SkipImport(t)
  <2>1. call'[t] = a /\ Top(c).rest # <<>>
    BY <1>3, Stepped DEF SkipImport, SkippedImport
  <2>2. Top(c) \in Frame
    BY <1>1, LastElement DEF Top, Calls
  <2>3. Len(Tail(Top(c).rest)) < Len(Top(c).rest)
    BY <2>1, <2>2, HeadTailProperties DEF Frame
  <2>4. LineLeft(a) < LineLeft(c)
    BY <1>1, <1>2, <2>1, <2>3 DEF LineLeft
  <2> HIDE DEF a
  <2>5. QED
    BY <1>1, <1>2, <2>1, <2>4, SameStage
<1>4. CASE VisitImport(t)
  <2> DEFINE p == Head(Top(c).rest)
             d == VisitedImport(c, p)
  <2>1. call'[t] = d /\ Top(c).rest # <<>> /\ p # Credits /\ p \notin c.visited
    BY <1>4, Stepped DEF VisitImport, Known
  <2>2. a \in Calls
    BY <1>1, <2>1, AdvancedCall
  <2>3. d.pc = "load" /\ d.visited = c.visited \cup {p}
    BY <1>2, <2>1, <2>2 DEF VisitedImport, Calls
  <2>4. p \in Programs \ c.visited
    <3>1. Top(c) \in Frame
      BY <1>1, LastElement DEF Top, Calls
    <3>2. p \in Programs \cup {Credits}
      BY <2>1, <3>1, HeadTailProperties DEF Frame
    <3>3. QED
      BY <2>1, <3>2
  <2> HIDE DEF d, p
  <2>5. Programs \ d.visited = (Programs \ c.visited) \ {p}
    BY <2>3
  <2>6. /\ Cardinality(Programs \ c.visited) \in Nat
        /\ Cardinality(Programs \ d.visited) = Cardinality(Programs \ c.visited) - 1
    <3>1. IsFiniteSet(Programs \ c.visited)
      BY Unvisited
    <3>2. Cardinality(Programs \ c.visited) \in Nat
      BY <3>1, FS_CardinalityType
    <3>3. Cardinality((Programs \ c.visited) \ {p}) = Cardinality(Programs \ c.visited) - 1
      BY <2>4, <3>1, FS_RemoveElement
    <3>4. QED
      BY <2>5, <3>2, <3>3
  <2>7. Left(d)[1] < Left(c)[1]
    BY <1>1, <2>3, <2>6, LeftParts
  <2>8. QED
    BY <2>1, <2>7, FirstLess
<1>5. CASE FinishImport(t)
  <2> DEFINE d == Finished(c)
  <2>1. call'[t] = d
    BY <1>5, Stepped DEF FinishImport
  <2>2. d.pc = c.pc /\ d.visited = c.visited /\ Len(d.stack) = n - 1
    BY <1>1, FinishedCall
  <2> HIDE DEF d
  <2>3. QED
    BY <1>1, <2>1, <2>2, SameStage
<1>6. CASE FinishRoot(t)
  <2>1. call'[t] = IF c.op = "imports" THEN Ended(c, "ok") ELSE [c EXCEPT !.pc = "parse"]
    BY <1>6, Stepped DEF FinishRoot
  <2>2. CASE c.op = "imports"
    BY <1>1, <2>1, <2>2, LastStage, EndedEnding
  <2>3. CASE c.op # "imports"
    <3> DEFINE d == [c EXCEPT !.pc = "parse"]
    <3>1. call'[t] = d /\ d.pc = "parse" /\ d.visited = c.visited
      BY <1>1, <2>1, <2>3 DEF Calls
    <3> HIDE DEF d
    <3>2. QED
      BY <1>1, <3>1, Stages, NextStage
  <2>4. QED
    BY <2>2, <2>3
<1>7. QED
  BY <1>3, <1>4, <1>5, <1>6

LEMMA AuthorizeLess ==
    ASSUME IsFiniteSet(Programs), TypeOK, NEW t \in Tasks,
           ParseInputs(t) \/ AddImport(t) \/ AddTarget(t)
    PROVE  LessLeft(Left(call'[t]), Left(call[t]))
<1> DEFINE c == call[t]
<1>1. c \in Calls /\ c.pc \in {"parse", "add"} /\ c.added \in Nat /\ Len(c.ordered) \in Nat
  BY StackElements DEF TypeOK, ParseInputs, AddImport, AddTarget, Calls
<1>2. ASSUME NEW r, Step(t, Ended(c, r))
      PROVE  LessLeft(Left(call'[t]), Left(c))
  BY <1>1, <1>2, Stepped, LastStage, EndedEnding
<1>3. CASE ParseInputs(t)
  <2> DEFINE d == [c EXCEPT !.pc = "add", !.process = {Credits}]
  <2>1. c.pc = "parse" /\ (Step(t, d) \/ Step(t, Ended(c, "inputs")))
    BY <1>3 DEF ParseInputs
  <2>2. d.pc = "add" /\ d.visited = c.visited
    BY <1>1 DEF Calls
  <2>3. Step(t, d) => call'[t] = d
    BY Stepped
  <2> HIDE DEF d
  <2>4. QED
    BY <1>2, <2>1, <2>2, <2>3, Stages, NextStage
<1>4. CASE AddImport(t)
  <2> DEFINE q == c.ordered[c.added + 1]
             d == [c EXCEPT !.added = @ + 1, !.process = @ \cup {q.prog}]
  <2>1. c.pc = "add" /\ (Step(t, d) \/ Step(t, Ended(c, "import")))
    BY <1>4 DEF AddImport
  <2>2. /\ d.pc = "add" /\ d.visited = c.visited /\ d.stack = c.stack
        /\ d.ordered = c.ordered /\ d.added = c.added + 1
    BY <1>1, <2>1 DEF Calls
  <2>3. Step(t, d) => call'[t] = d
    BY Stepped
  <2> HIDE DEF d
  <2>4. LineLeft(d) < LineLeft(c)
    BY <1>1, <2>1, <2>2 DEF LineLeft
  <2>5. LessLeft(Left(d), Left(c))
    BY <2>1, <2>2, <2>4, SameStage
  <2>6. QED
    BY <1>2, <2>1, <2>3, <2>5
<1>5. CASE AddTarget(t)
  BY <1>2, <1>5 DEF AddTarget
<1>6. QED
  BY <1>3, <1>4, <1>5

(***************************************************************************)
(* For every import graph of finitely many programs, cyclic ones too, each *)
(* step of a call lowers a tuple of natural numbers in the lexicographic   *)
(* order: no call goes on for ever (collectImports).                       *)
(***************************************************************************)
THEOREM CallsGoDown ==
    ASSUME IsFiniteSet(Programs)
    PROVE  Spec => /\ [](\A t \in Tasks : Left(call[t]) \in Nat \X Nat \X Nat \X Nat)
                   /\ StepsLeaveLess
<1>1. Inv => \A t \in Tasks : Left(call[t]) \in Nat \X Nat \X Nat \X Nat
  BY LeftType DEF Inv, TypeInv, TypeOK, AllShaped, AllEnding
<1>2. Inv /\ [Next]_vars =>
        [\A t \in Tasks : call[t].pc # "idle" /\ call'[t] # call[t]
            => LessLeft(Left(call'[t]), Left(call[t]))]_vars
  <2> SUFFICES ASSUME Inv, [Next]_vars, NEW t \in Tasks, call[t].pc # "idle", call'[t] # call[t]
               PROVE  LessLeft(Left(call'[t]), Left(call[t]))
    OBVIOUS
  <2>1. PICK u \in Tasks : Begin(u) \/ Advance(u)
    BY DEF Next, Upgrade, vars
  <2>2. PICK d \in Calls : call' = [call EXCEPT ![u] = d]
    BY <2>1, Beginnings, Advances DEF Turn, Inv
  <2>3. u = t
    BY <2>2 DEF Inv, TypeInv, TypeOK
  <2>4. Advance(t)
    BY <2>1, <2>3 DEF Begin, Authorize, AuthorizeWithoutKey, GetProgramImports
  <2>5. TypeOK /\ Shape(call[t])
    BY DEF Inv, TypeInv, AllShaped
  <2>6. QED
    BY <2>4, <2>5, FetchLess, WalkLess, AuthorizeLess DEF Advance
<1>3. QED
  BY <1>1, <1>2, InvHolds, PTL DEF Spec, StepsLeaveLess

=============================================================================
