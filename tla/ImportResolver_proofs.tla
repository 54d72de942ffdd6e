------------------------ MODULE ImportResolver_proofs ------------------------
(* Theorems about ImportResolver, for every import graph and set of calls. *)
EXTENDS ImportResolver, SequenceTheorems, TLAPS

-----------------------------------------------------------------------------
(* What the helpers do to a call                                           *)

Loading(c) == c.pc \in {"load", "request", "answered"}

\* What is being fetched, or walked, is there.
Shape(c) ==
    /\ Loading(c) => c.want \in Programs
    /\ c.pc = "answered" => c.answer \in Sources
    /\ c.pc \in {"walk", "parse", "add"} => c.stack # <<>>
    /\ c.pc = "idle" => c = Idle

LEMMA LastElement ==
    ASSUME NEW S, NEW s \in Seq(S), s # <<>>
    PROVE  Len(s) \in Nat \ {0} /\ Last(s) = s[Len(s)] /\ Last(s) \in S
<1>1. Len(s) \in Nat \ {0} /\ s[Len(s)] \in S
  OBVIOUS
<1>2. QED
  BY <1>1 DEF Last

LEMMA FrontElements ==
    ASSUME NEW S, NEW s \in Seq(S), s # <<>>
    PROVE  /\ Front(s) \in Seq(S)
           /\ Len(Front(s)) = Len(s) - 1
           /\ \A i \in 1..(Len(s) - 1) : Front(s)[i] = s[i]
<1> DEFINE n == Len(s) - 1
<1>1. n \in Nat /\ \A i \in 1..n : s[i] \in S
  OBVIOUS
<1> HIDE DEF n
<1>2. /\ SubSeq(s, 1, n) \in Seq(S)
      /\ Len(SubSeq(s, 1, n)) = IF 1 <= n THEN n - 1 + 1 ELSE 0
      /\ \A i \in 1..(n - 1 + 1) : SubSeq(s, 1, n)[i] = s[1 + i - 1]
  BY <1>1, 1 \in Int, SubSeqProperties
<1>3. Len(SubSeq(s, 1, n)) = n /\ \A i \in 1..n : SubSeq(s, 1, n)[i] = s[i]
  BY <1>1, <1>2
<1>4. QED
  BY <1>2, <1>3 DEF Front, n

LEMMA FirstAndRest ==
    ASSUME NEW S, NEW s \in Seq(S), s # <<>>
    PROVE  /\ Head(s) \in S /\ Tail(s) \in Seq(S)
           /\ Range(s) = {Head(s)} \cup Range(Tail(s))
<1>1. /\ Head(s) \in S /\ Tail(s) \in Seq(S) /\ Len(Tail(s)) = Len(s) - 1
      /\ \A i \in 1..Len(Tail(s)) : Tail(s)[i] = s[i + 1]
  BY HeadTailProperties
<1>2. Range(s) = {s[i] : i \in 1..Len(s)}
  BY RangeEquality
<1>3. Range(Tail(s)) = {Tail(s)[i] : i \in 1..Len(Tail(s))}
  BY <1>1, RangeEquality
<1>4. Len(s) \in Nat \ {0} /\ Head(s) = s[1]
  OBVIOUS
<1>5. ASSUME NEW i \in 1..Len(s) PROVE s[i] \in {Head(s)} \cup Range(Tail(s))
  <2>1. CASE i = 1
    BY <1>4, <2>1
  <2>2. CASE i # 1
    <3>1. i - 1 \in 1..Len(Tail(s)) /\ Tail(s)[i - 1] = s[i]
      BY <1>1, <1>4, <2>2
    <3>2. QED
      BY <1>3, <3>1
  <2>3. QED
    BY <2>1, <2>2
<1>6. ASSUME NEW i \in 1..Len(Tail(s)) PROVE Tail(s)[i] \in Range(s)
  <2>1. i + 1 \in 1..Len(s) /\ Tail(s)[i] = s[i + 1]
    BY <1>1, <1>4
  <2>2. QED
    BY <1>2, <2>1
<1>7. QED
  BY <1>1, <1>2, <1>3, <1>4, <1>5, <1>6

LEMMA IdleType == Idle \in Calls
BY EmptySeq DEF Idle, Calls, Results

LEMMA EndedType ==
    ASSUME NEW c \in Calls, NEW r \in Results
    PROVE  Ended(c, r) \in Calls
BY DEF Ended, Calls

LEMMA EnteredCall ==
    ASSUME NEW c \in Calls, NEW p \in Programs, NEW s \in Sources
    PROVE  LET d == Entered(c, p, s) IN
           /\ d \in Calls
           /\ Len(d.stack) = Len(c.stack) + 1
           /\ \A k \in 1..Len(c.stack) : d.stack[k] = c.stack[k]
           /\ d.stack[Len(c.stack) + 1] = [prog |-> p, source |-> s, rest |-> s]
           /\ d.pc = "walk" /\ d.stack # <<>>
           /\ d.visited = c.visited /\ d.ordered = c.ordered
           /\ d.cached = c.cached /\ d.requests = c.requests
<1> DEFINE f == [prog |-> p, source |-> s, rest |-> s]
           d == Entered(c, p, s)
<1>1. f \in Frame
  BY SourceAssumption DEF Frame
<1>2. c.stack \in Seq(Frame)
  BY DEF Calls
<1>3. d.stack = Append(c.stack, f)
  BY DEF Entered, Calls
<1>4. d \in Calls
  <2>1. Append(c.stack, f) \in Seq(Frame)
    BY <1>1, <1>2, AppendProperties
  <2>2. QED
    BY <2>1 DEF Entered, Calls
<1>5. /\ Len(d.stack) = Len(c.stack) + 1
      /\ \A k \in 1..Len(c.stack) : d.stack[k] = c.stack[k]
      /\ d.stack[Len(c.stack) + 1] = f
      /\ d.stack # <<>>
  BY <1>1, <1>2, <1>3, AppendProperties
<1>6. /\ d.pc = "walk"
      /\ d.visited = c.visited /\ d.ordered = c.ordered
      /\ d.cached = c.cached /\ d.requests = c.requests
  BY DEF Entered, Calls
<1>7. QED
  BY <1>4, <1>5, <1>6

LEMMA EnteredKeeps ==
    ASSUME NEW c \in Calls, NEW p, NEW s, NEW d, d = Entered(c, p, s)
    PROVE  /\ d.pc = "walk" /\ d.ordered = c.ordered
           /\ d.cached = c.cached /\ d.requests = c.requests
BY DEF Entered, Calls

LEMMA AdvancedCall ==
    ASSUME NEW c \in Calls, c.stack # <<>>, Top(c).rest # <<>>
    PROVE  LET d == Advanced(c) IN
           /\ d = [c EXCEPT !.stack = d.stack] /\ d \in Calls
           /\ Len(d.stack) = Len(c.stack) /\ d.stack # <<>>
           /\ \A k \in 1..Len(c.stack) : /\ d.stack[k].prog = c.stack[k].prog
                                         /\ d.stack[k].source = c.stack[k].source
           /\ \A k \in 1..(Len(c.stack) - 1) : d.stack[k].rest = c.stack[k].rest
           /\ d.stack[Len(c.stack)].rest = Tail(Top(c).rest)
<1> DEFINE d == Advanced(c)
           n == Len(c.stack)
           f == [c.stack[n] EXCEPT !.rest = Tail(@)]
<1>1. c.stack \in Seq(Frame) /\ n \in Nat \ {0} /\ Top(c) = c.stack[n] /\ Top(c) \in Frame
  BY LastElement DEF Calls, Top
<1>2. f \in Frame /\ f.prog = c.stack[n].prog /\ f.source = c.stack[n].source
        /\ f.rest = Tail(Top(c).rest)
  BY <1>1, HeadTailProperties DEF Frame
<1>3. d = [c EXCEPT !.stack = [c.stack EXCEPT ![n] = f]]
  BY DEF Advanced
<1>4. d.stack = [c.stack EXCEPT ![n] = f]
  BY <1>3 DEF Calls
<1>5. /\ d.stack \in Seq(Frame) /\ Len(d.stack) = n
      /\ \A k \in 1..n : d.stack[k] = IF k = n THEN f ELSE c.stack[k]
  BY <1>1, <1>2, <1>4, ExceptSeq
<1>6. d \in Calls
  BY <1>3, <1>4, <1>5 DEF Calls
<1>7. d.stack # <<>>
  BY <1>1, <1>5
<1>8. QED
  BY <1>1, <1>2, <1>3, <1>4, <1>5, <1>6, <1>7

LEMMA FinishedCall ==
    ASSUME NEW c \in Calls, c.stack # <<>>
    PROVE  LET d == Finished(c) IN
           /\ d \in Calls
           /\ Len(d.stack) = Len(c.stack) - 1
           /\ \A k \in 1..(Len(c.stack) - 1) : d.stack[k] = c.stack[k]
           /\ Len(d.ordered) = Len(c.ordered) + 1
           /\ \A i \in 1..Len(c.ordered) : d.ordered[i] = c.ordered[i]
           /\ d.ordered[Len(c.ordered) + 1] = [prog |-> Top(c).prog, source |-> Top(c).source]
           /\ d.pc = c.pc /\ d.visited = c.visited
           /\ d.cached = c.cached /\ d.requests = c.requests
<1> DEFINE d == Finished(c)
           r == [prog |-> Top(c).prog, source |-> Top(c).source]
<1>1. c.stack \in Seq(Frame) /\ c.ordered \in Seq(Resolved) /\ Top(c) \in Frame
  BY LastElement DEF Calls, Top
<1>2. r \in Resolved
  BY <1>1 DEF Frame, Resolved
<1>3. d.stack = Front(c.stack) /\ d.ordered = Append(c.ordered, r)
  BY DEF Finished, Calls
<1>4. /\ d.stack \in Seq(Frame)
      /\ Len(d.stack) = Len(c.stack) - 1
      /\ \A k \in 1..(Len(c.stack) - 1) : d.stack[k] = c.stack[k]
  BY <1>1, <1>3, FrontElements
<1>5. /\ d.ordered \in Seq(Resolved)
      /\ Len(d.ordered) = Len(c.ordered) + 1
      /\ \A i \in 1..Len(c.ordered) : d.ordered[i] = c.ordered[i]
      /\ d.ordered[Len(c.ordered) + 1] = r
  BY <1>1, <1>2, <1>3, AppendProperties
<1>6. /\ d.pc = c.pc /\ d.visited = c.visited
      /\ d.cached = c.cached /\ d.requests = c.requests
  BY DEF Finished, Calls
<1>7. d \in Calls
  BY <1>3, <1>4, <1>5 DEF Finished, Calls
<1>8. QED
  BY <1>4, <1>5, <1>6, <1>7

-----------------------------------------------------------------------------
(* The types, and the kinds of steps                                       *)

AllShaped == \A t \in Tasks : Shape(call[t])

TypeInv == TypeOK /\ AllShaped

\* The step leaves the walk alone, but may end it.
Quiet(c, d) ==
    /\ c.pc # "done"
    /\ d.stack = c.stack /\ d.visited = c.visited /\ d.ordered = c.ordered
    /\ d.pc = "done" \/ (d.want = c.want /\ Loading(d) = Loading(c))

\* A call begins: it has walked nothing.
Starts(d) == d.stack = <<>> /\ d.visited = {} /\ d.ordered = <<>>

StartsInRoot(d) ==
    /\ d.pc = "walk" /\ d.visited = {} /\ d.ordered = <<>>
    /\ Len(d.stack) = 1 /\ d.stack[1].rest = d.stack[1].source

Enters(c, d) ==
    /\ Loading(c)
    /\ \E s \in Sources : d = Entered(c, c.want, s)

\* An import line of the program on top is looked at.
Skips(c, d) ==
    /\ c.pc = "walk" /\ Top(c).rest # <<>>
    /\ Known(c, Head(Top(c).rest))
    /\ d = SkippedImport(c)

Visits(c, d) ==
    /\ c.pc = "walk" /\ Top(c).rest # <<>>
    /\ ~Known(c, Head(Top(c).rest))
    /\ d = VisitedImport(c, Head(Top(c).rest))

Finishes(c, d) ==
    /\ c.pc = "walk" /\ Top(c).rest = <<>> /\ Len(c.stack) > 1
    /\ d = Finished(c)

Kinds(c, d) ==
    \/ Quiet(c, d) \/ Starts(d) \/ StartsInRoot(d) \/ Enters(c, d)
    \/ Skips(c, d) \/ Visits(c, d) \/ Finishes(c, d)

\* What a call that goes on to d is.
Turn(t, d) ==
    /\ call' = [call EXCEPT ![t] = d]
    /\ d \in Calls /\ Shape(d)
    /\ Kinds(call[t], d)

LEMMA Beginnings ==
    ASSUME TypeInv, NEW t \in Tasks, Begin(t)
    PROVE  /\ \E d \in Calls : Turn(t, d)
           /\ programCache' = programCache
<1>1. CASE Authorize(t)
  <2>1. PICK p \in Programs, cached \in BOOLEAN :
           Step(t, [Idle EXCEPT !.pc = "load", !.op = "authorize", !.cached = cached, !.want = p])
    BY <1>1 DEF Authorize
  <2> DEFINE d == [Idle EXCEPT !.pc = "load", !.op = "authorize", !.cached = cached, !.want = p]
  <2>2. d \in Calls
    BY IdleType DEF Calls
  <2>3. Shape(d) /\ Starts(d)
    BY DEF Shape, Starts, Loading, Idle
  <2>4. QED
    BY <1>1, <2>1, <2>2, <2>3 DEF Authorize, Step, Turn, Kinds
<1>2. CASE AuthorizeWithoutKey(t)
  <2> DEFINE d == Ended([Idle EXCEPT !.op = "authorize"], "no key")
  <2>1. d \in Calls
    BY IdleType DEF Ended, Calls, Results
  <2>2. Shape(d) /\ Starts(d)
    BY DEF Shape, Starts, Loading, Idle, Ended
  <2>3. QED
    BY <1>2, <2>1, <2>2 DEF AuthorizeWithoutKey, Step, Turn, Kinds
<1>3. CASE GetProgramImports(t)
  <2>1. PICK p \in Programs, s \in Given :
           call' = [call EXCEPT ![t] = Entered([Idle EXCEPT !.op = "imports"], p, s)]
    BY <1>3 DEF GetProgramImports
  <2> DEFINE c == [Idle EXCEPT !.op = "imports"]
             d == Entered(c, p, s)
  <2>2. c \in Calls /\ s \in Sources
    BY IdleType, SourceAssumption DEF Calls
  <2>3. /\ d \in Calls /\ d.pc = "walk" /\ d.stack # <<>>
        /\ Len(d.stack) = Len(c.stack) + 1
        /\ d.stack[Len(c.stack) + 1] = [prog |-> p, source |-> s, rest |-> s]
        /\ d.visited = c.visited /\ d.ordered = c.ordered
    <3> HIDE DEF c
    <3>1. QED
      BY <2>2, EnteredCall
  <2>4. Shape(d)
    BY <2>3 DEF Shape, Loading
  <2>5. StartsInRoot(d)
    <3>1. c.stack = <<>> /\ c.visited = {} /\ c.ordered = <<>>
      BY DEF Idle
    <3> HIDE DEF c, d
    <3>2. Len(c.stack) + 1 = 1
      BY <3>1
    <3>3. Len(d.stack) = 1 /\ d.stack[1].rest = d.stack[1].source
      BY <2>3, <3>2
    <3>4. QED
      BY <2>3, <3>1, <3>3 DEF StartsInRoot
  <2>6. QED
    BY <1>3, <2>1, <2>3, <2>4, <2>5 DEF GetProgramImports, Turn, Kinds
<1>4. QED
  BY <1>1, <1>2, <1>3 DEF Begin

\* A call that begins leaves the node alone; it may be given a source.
LEMMA BeginOnNode ==
    ASSUME TypeInv, NEW t \in Tasks, Begin(t)
    PROVE  /\ UNCHANGED <<deployed, upgrades>>
           /\ during' \in [Tasks -> [Programs -> SUBSET Sources]]
           /\ \A u \in Tasks, p \in Programs : during[u][p] \subseteq during'[u][p]
<1>1. during \in [Tasks -> [Programs -> SUBSET Sources]]
  BY DEF TypeInv, TypeOK
<1>2. CASE Authorize(t) \/ AuthorizeWithoutKey(t)
  BY <1>1, <1>2 DEF Authorize, AuthorizeWithoutKey, Step, node
<1>3. CASE GetProgramImports(t)
  <2>1. PICK p \in Programs, s \in Sources :
           during' = [during EXCEPT ![t][p] = @ \cup {s}]
    BY <1>3, SourceAssumption DEF GetProgramImports
  <2>2. UNCHANGED <<deployed, upgrades>>
    BY <1>3 DEF GetProgramImports
  <2>3. QED
    BY <1>1, <2>1, <2>2
<1>4. QED
  BY <1>2, <1>3 DEF Begin

LEMMA Stepping ==
    ASSUME NEW t, NEW d \in Calls, Step(t, d), Shape(d), Quiet(call[t], d)
    PROVE  Turn(t, d)
BY DEF Step, Turn, Kinds

LEMMA Advances ==
    ASSUME TypeInv, NEW t \in Tasks, Advance(t)
    PROVE  /\ \E d \in Calls : Turn(t, d)
           /\ programCache' \in [Programs -> Sources \cup {NoSource}]
<1> DEFINE c == call[t]
           Goal == \E d \in Calls : Turn(t, d)
<1>1. c \in Calls /\ Shape(c) /\ programCache \in [Programs -> Sources \cup {NoSource}]
      /\ deployed \in [Programs -> Sources]
  BY DEF TypeInv, TypeOK, AllShaped
<1>2. ASSUME Loading(c), NEW s \in Sources, Step(t, Entered(c, c.want, s))
      PROVE  Goal
  <2>1. c.want \in Programs
    BY <1>1, <1>2 DEF Shape
  <2>2. /\ Entered(c, c.want, s) \in Calls /\ Entered(c, c.want, s).pc = "walk"
        /\ Entered(c, c.want, s).stack # <<>>
    BY <1>1, <2>1, EnteredCall
  <2>3. Shape(Entered(c, c.want, s))
    BY <2>2 DEF Shape, Loading
  <2>4. Enters(c, Entered(c, c.want, s))
    BY <1>2 DEF Enters
  <2>5. QED
    BY <1>2, <2>2, <2>3, <2>4 DEF Step, Turn, Kinds
<1>3. ASSUME NEW r \in Results, c.pc # "done", Step(t, Ended(c, r))
      PROVE  Goal
  <2>1. Ended(c, r) \in Calls
    BY <1>1, EndedType
  <2>2. Shape(Ended(c, r)) /\ Quiet(c, Ended(c, r))
    BY <1>1, <1>3 DEF Shape, Quiet, Loading, Ended, Calls
  <2>3. QED
    BY <1>3, <2>1, <2>2, Stepping
<1>4. CASE CacheHit(t)
  BY <1>1, <1>2, <1>4 DEF CacheHit, Hits, Shape, Loading
<1>5. CASE Request(t)
  <2> DEFINE d == [c EXCEPT !.pc = "request", !.requests = Append(@, c.want)]
  <2>1. c.pc = "load" /\ c.want \in Programs /\ Step(t, d) /\ programCache' = programCache
    BY <1>1, <1>5 DEF Request, Shape, Loading
  <2>2. d \in Calls
    BY <1>1, <2>1, AppendProperties DEF Calls
  <2>3. Shape(d) /\ Quiet(c, d)
    BY <1>1, <2>1 DEF Shape, Quiet, Loading, Calls
  <2>4. QED
    BY <1>1, <2>1, <2>2, <2>3, Stepping
<1>6. CASE NodeAnswers(t)
  <2> DEFINE d == [c EXCEPT !.pc = "answered", !.answer = deployed[c.want]]
  <2>1. c.pc = "request" /\ c.want \in Programs /\ Step(t, d) /\ programCache' = programCache
    BY <1>1, <1>6 DEF NodeAnswers, Shape, Loading
  <2>2. deployed[c.want] \in Sources
    BY <1>1, <2>1
  <2>3. d \in Calls
    BY <1>1, <2>2 DEF Calls
  <2>4. Shape(d) /\ Quiet(c, d)
    BY <1>1, <2>1, <2>2 DEF Shape, Quiet, Loading, Calls
  <2>5. QED
    BY <1>1, <2>1, <2>3, <2>4, Stepping
<1>7. CASE FetchFails(t)
  <2> DEFINE e == [Idle EXCEPT !.op = c.op, !.cached = c.cached]
             d == Ended(e, "fetch")
  <2>1. c.pc = "request" /\ Step(t, d) /\ programCache' = programCache
    BY <1>7 DEF FetchFails
  <2>2. e \in Calls
    BY <1>1, IdleType DEF Calls
  <2>3. d \in Calls
    BY <2>2, EndedType DEF Results
  <2>4. Shape(d) /\ Starts(d)
    BY DEF Shape, Starts, Loading, Ended, Idle
  <2>5. QED
    BY <1>1, <2>1, <2>3, <2>4 DEF Step, Turn, Kinds
<1>8. CASE AnswerArrives(t)
  <2>1. Loading(c) /\ c.want \in Programs /\ c.answer \in Sources
    BY <1>1, <1>8 DEF AnswerArrives, Shape, Loading
  <2>2. Goal
    BY <1>2, <1>8, <2>1 DEF AnswerArrives
  <2>3. QED
    BY <1>1, <1>8, <2>1, <2>2 DEF AnswerArrives, Store
<1>9. CASE SkipImport(t)
  <2>1. c.pc = "walk" /\ c.stack # <<>> /\ Top(c).rest # <<>>
    BY <1>1, <1>9 DEF SkipImport, Shape
  <2>2. /\ Advanced(c) = [c EXCEPT !.stack = Advanced(c).stack] /\ Advanced(c) \in Calls
        /\ Advanced(c).stack # <<>>
    BY <1>1, <2>1, AdvancedCall
  <2>3. Advanced(c).pc = "walk"
    BY <1>1, <2>1, <2>2 DEF Calls
  <2>4. Shape(Advanced(c))
    BY <2>2, <2>3 DEF Shape, Loading
  <2>5. Skips(c, Advanced(c)) /\ Step(t, Advanced(c)) /\ programCache' = programCache
    BY <1>9 DEF SkipImport, Skips, SkippedImport
  <2>6. QED
    BY <1>1, <2>2, <2>4, <2>5 DEF Step, Turn, Kinds
<1>10. CASE VisitImport(t)
  <2> DEFINE p == Head(Top(c).rest)
             d == VisitedImport(c, p)
  <2>1. c.pc = "walk" /\ c.stack # <<>> /\ Top(c).rest # <<>> /\ p # Credits
    BY <1>1, <1>10 DEF VisitImport, Shape, Known
  <2>2. p \in Programs
    <3>1. Top(c) \in Frame
      BY <1>1, <2>1, LastElement DEF Top, Calls
    <3>2. p \in Programs \cup {Credits}
      BY <2>1, <3>1, HeadTailProperties DEF Frame
    <3>3. QED
      BY <2>1, <3>2
  <2>3. Advanced(c) \in Calls
    BY <1>1, <2>1, AdvancedCall
  <2>4. d \in Calls /\ d.pc = "load" /\ d.want = p
    BY <2>2, <2>3 DEF VisitedImport, Calls
  <2>5. Shape(d)
    BY <2>2, <2>4 DEF Shape, Loading
  <2>6. Visits(c, d) /\ Step(t, d) /\ programCache' = programCache
    BY <1>10 DEF VisitImport, Visits
  <2>7. QED
    BY <1>1, <2>4, <2>5, <2>6 DEF Step, Turn, Kinds
<1>11. CASE FinishImport(t)
  <2>1. c.pc = "walk" /\ c.stack # <<>> /\ Len(c.stack) > 1
    BY <1>1, <1>11 DEF FinishImport, Shape
  <2>2. /\ Finished(c) \in Calls /\ Len(Finished(c).stack) = Len(c.stack) - 1
        /\ Finished(c).pc = "walk"
    BY <1>1, <2>1, FinishedCall
  <2>3. Finished(c).stack # <<>>
    BY <2>1, <2>2
  <2>4. Shape(Finished(c))
    BY <2>2, <2>3 DEF Shape, Loading
  <2>5. Finishes(c, Finished(c)) /\ Step(t, Finished(c)) /\ programCache' = programCache
    BY <1>11 DEF FinishImport, Finishes
  <2>6. QED
    BY <1>1, <2>2, <2>4, <2>5 DEF Step, Turn, Kinds
<1>12. CASE FinishRoot(t)
  <2> DEFINE d == [c EXCEPT !.pc = "parse"]
  <2>1. c.pc = "walk" /\ programCache' = programCache
    BY <1>12 DEF FinishRoot
  <2>2. CASE c.op = "imports"
    BY <1>1, <1>3, <1>12, <2>1, <2>2 DEF FinishRoot, Results
  <2>3. CASE c.op # "imports"
    <3>1. d \in Calls
      BY <1>1 DEF Calls
    <3>2. Shape(d) /\ Quiet(c, d)
      BY <1>1, <2>1 DEF Shape, Quiet, Loading, Calls
    <3>3. Step(t, d)
      BY <1>12, <2>3 DEF FinishRoot
    <3>4. QED
      BY <1>1, <2>1, <3>1, <3>2, <3>3, Stepping
  <2>4. QED
    BY <2>2, <2>3
<1>13. CASE ParseInputs(t)
  <2> DEFINE d == [c EXCEPT !.pc = "add", !.process = {Credits}]
  <2>1. c.pc = "parse" /\ programCache' = programCache /\ (Step(t, d) \/ Step(t, Ended(c, "inputs")))
    BY <1>13 DEF ParseInputs
  <2>2. d \in Calls
    BY <1>1 DEF Calls
  <2>3. Shape(d) /\ Quiet(c, d)
    BY <1>1, <2>1 DEF Shape, Quiet, Loading, Calls
  <2>4. QED
    BY <1>1, <1>3, <2>1, <2>2, <2>3, Stepping DEF Results
<1>14. CASE AddImport(t)
  <2> DEFINE next == c.ordered[c.added + 1]
             d == [c EXCEPT !.added = @ + 1, !.process = @ \cup {next.prog}]
  <2>1. /\ c.pc = "add" /\ c.added < Len(c.ordered) /\ programCache' = programCache
        /\ Step(t, d) \/ Step(t, Ended(c, "import"))
    BY <1>14 DEF AddImport
  <2>2. next.prog \in Programs
    <3>1. c.ordered \in Seq(Resolved) /\ c.added \in Nat /\ c.added + 1 \in 1..Len(c.ordered)
      BY <1>1, <2>1 DEF Calls
    <3>2. next \in Resolved
      BY <3>1
    <3>3. QED
      BY <3>2 DEF Resolved
  <2>3. d \in Calls
    <3> HIDE DEF next
    <3>1. /\ c.added + 1 \in Nat
          /\ c.process \cup {next.prog} \in SUBSET (Programs \cup {Credits})
      BY <1>1, <2>2 DEF Calls
    <3>2. QED
      BY <1>1, <3>1 DEF Calls
  <2>4. Shape(d) /\ Quiet(c, d)
    BY <1>1, <2>1 DEF Shape, Quiet, Loading, Calls
  <2>5. QED
    BY <1>1, <1>3, <2>1, <2>3, <2>4, Stepping DEF Results
<1>15. CASE AddTarget(t)
  <2>1. PICK r \in {"ok", "refused", "target"} : Step(t, Ended(c, r))
    BY <1>15 DEF AddTarget
  <2>2. c.pc = "add" /\ programCache' = programCache
    BY <1>15 DEF AddTarget
  <2>3. QED
    BY <1>1, <1>3, <2>1, <2>2 DEF Results
<1>16. QED
  BY <1>4, <1>5, <1>6, <1>7, <1>8, <1>9, <1>10, <1>11, <1>12, <1>13, <1>14, <1>15 DEF Advance

LEMMA TypesHold == Spec => []TypeInv
<1> USE UpgradeAssumption
<1>1. Init => TypeInv
  <2>1. \A t \in Tasks : Shape(Idle)
    BY DEF Shape, Idle, Loading
  <2>2. QED
    BY <2>1, IdleType DEF Init, TypeInv, TypeOK, AllShaped
<1>2. TypeInv /\ [Next]_vars => TypeInv'
  <2> SUFFICES ASSUME TypeInv, [Next]_vars
               PROVE  TypeInv'
    OBVIOUS
  <2>1. ASSUME NEW t \in Tasks, Begin(t) \/ Advance(t)
        PROVE  TypeInv'
    <3>1. PICK d \in Calls : Turn(t, d)
      BY <2>1, Beginnings, Advances
    <3>2. programCache' \in [Programs -> Sources \cup {NoSource}]
      BY <2>1, Beginnings, Advances DEF TypeInv, TypeOK
    <3>3. CASE Advance(t)
      <4>1. UNCHANGED node
        BY <3>3 DEF Advance, CacheHit, Request, NodeAnswers, FetchFails, AnswerArrives,
                    SkipImport, VisitImport, FinishImport, FinishRoot, ParseInputs, AddImport,
                    AddTarget, Step
      <4>2. QED
        BY <3>1, <3>2, <4>1 DEF Turn, TypeInv, TypeOK, AllShaped, node
    <3>4. CASE Begin(t)
      BY <3>1, <3>2, <3>4, BeginOnNode DEF Turn, TypeInv, TypeOK, AllShaped
    <3>5. QED
      BY <2>1, <3>3, <3>4
  <2>2. CASE Upgrade
    <3>1. PICK p \in Programs : \E s \in Sources \ {deployed[p]} :
              /\ deployed' = [deployed EXCEPT ![p] = s]
              /\ during' = [t \in Tasks |->
                    [during[t] EXCEPT ![p] = CASE call[t].pc = "idle" -> {s}
                                               [] call[t].pc = "done" -> @
                                               [] OTHER -> @ \cup {s}]]
      BY <2>2 DEF Upgrade
    <3>2. /\ deployed' \in [Programs -> Sources]
          /\ during' \in [Tasks -> [Programs -> SUBSET Sources]]
      BY <3>1 DEF TypeInv, TypeOK
    <3>3. QED
      BY <2>2, <3>2 DEF Upgrade, TypeInv, TypeOK, AllShaped
  <2>3. CASE UNCHANGED vars
    BY <2>3 DEF vars, node, TypeInv, TypeOK, AllShaped
  <2>4. QED
    BY <2>1, <2>2, <2>3 DEF Next
<1>3. QED
  BY <1>1, <1>2, PTL DEF Spec

(***************************************************************************)
(* Every state is of its type, for every import graph, every set of calls  *)
(* and every course of upgrades (fetchProgramCached, collectImports).      *)
(***************************************************************************)
THEOREM TypeCorrect == Spec => []TypeOK
<1>1. TypeInv => TypeOK
  BY DEF TypeInv
<1>2. QED
  BY <1>1, TypesHold, PTL

-----------------------------------------------------------------------------
(* The walk                                                                *)

Names(c) == {c.ordered[i].prog : i \in 1..Len(c.ordered)}

\* The imports that are being walked: all of the stack but the root.
Above(c) == {c.stack[k].prog : k \in 2..Len(c.stack)}

Wanted(c) == IF Loading(c) /\ c.stack # <<>> THEN {c.want} ELSE {}

\* What is marked as visited is resolved, being walked or being fetched.
Marked(c) == c.pc = "done" \/ c.visited = Names(c) \cup Above(c) \cup Wanted(c)

Once(c) ==
    /\ \A i, j \in 1..Len(c.ordered) : c.ordered[i].prog = c.ordered[j].prog => i = j
    /\ \A i, j \in 2..Len(c.stack) : c.stack[i].prog = c.stack[j].prog => i = j
    /\ Names(c) \cap Above(c) = {}
    /\ Wanted(c) \cap (Names(c) \cup Above(c)) = {}

\* The import lines of a program that are not ahead have been looked at.
Looked(c) ==
    \A k \in 1..Len(c.stack) :
        /\ Range(c.stack[k].rest) \subseteq Range(c.stack[k].source)
        /\ ImportsOf(c.stack[k]) \subseteq c.visited \cup Range(c.stack[k].rest)

\* Each program on the stack is imported by the one below it.
Chain(c) ==
    /\ \A k \in 1..(Len(c.stack) - 1) : c.stack[k + 1].prog \in ImportsOf(c.stack[k])
    /\ Loading(c) /\ c.stack # <<>> => c.want \in ImportsOf(c.stack[Len(c.stack)])

Walk(c) == Marked(c) /\ Once(c) /\ Looked(c) /\ Chain(c)

LEMMA StackElements ==
    ASSUME NEW c \in Calls
    PROVE  /\ Len(c.stack) \in Nat /\ Len(c.ordered) \in Nat
           /\ \A k \in 1..Len(c.stack) : c.stack[k] \in Frame
           /\ \A i \in 1..Len(c.ordered) : c.ordered[i] \in Resolved
           /\ (c.stack = <<>>) = (Len(c.stack) = 0)
<1>1. c.stack \in Seq(Frame) /\ c.ordered \in Seq(Resolved)
  BY DEF Calls
<1>2. QED
  BY <1>1

LEMMA TopElement ==
    ASSUME NEW c \in Calls, c.stack # <<>>
    PROVE  Top(c) = c.stack[Len(c.stack)] /\ Top(c) \in Frame
BY LastElement DEF Top, Calls

LEMMA WalkStarts ==
    ASSUME NEW d \in Calls, Starts(d)
    PROVE  Walk(d)
<1>1. Len(d.stack) = 0 /\ Len(d.ordered) = 0
  BY DEF Starts
<1>2. Names(d) = {} /\ Above(d) = {} /\ Wanted(d) = {}
  BY <1>1 DEF Starts, Names, Above, Wanted
<1>3. QED
  BY <1>1, <1>2 DEF Walk, Marked, Once, Looked, Chain, Starts

LEMMA WalkStartsInRoot ==
    ASSUME NEW d \in Calls, StartsInRoot(d)
    PROVE  Walk(d)
<1>1. Len(d.stack) = 1 /\ Len(d.ordered) = 0 /\ ~Loading(d)
  BY DEF StartsInRoot, Loading
<1>2. Names(d) = {} /\ Above(d) = {} /\ Wanted(d) = {}
  BY <1>1 DEF Names, Above, Wanted
<1>3. QED
  BY <1>1, <1>2 DEF Walk, Marked, Once, Looked, Chain, StartsInRoot, ImportsOf

LEMMA WalkQuiet ==
    ASSUME NEW c \in Calls, NEW d \in Calls, Walk(c), Quiet(c, d)
    PROVE  Walk(d)
<1>1. Names(d) = Names(c) /\ Above(d) = Above(c) /\ Wanted(d) \subseteq Wanted(c)
  BY DEF Quiet, Names, Above, Wanted, Loading
<1>2. d.pc = "done" \/ Wanted(d) = Wanted(c)
  BY DEF Quiet, Wanted
<1>3. Marked(d)
  BY <1>1, <1>2 DEF Walk, Marked, Quiet
<1>4. Once(d)
  BY <1>1 DEF Walk, Once, Quiet
<1>5. Looked(d) /\ Chain(d)
  BY DEF Walk, Looked, Chain, Quiet, Loading
<1>6. QED
  BY <1>3, <1>4, <1>5 DEF Walk

LEMMA WalkEnters ==
    ASSUME NEW c \in Calls, NEW d \in Calls, Shape(c), Walk(c), Enters(c, d)
    PROVE  Walk(d)
<1> DEFINE n == Len(c.stack)
           p == c.want
<1>1. PICK s \in Sources : d = Entered(c, p, s)
  BY DEF Enters
<1>2. p \in Programs /\ Loading(c) /\ c.pc # "done"
  BY DEF Enters, Shape, Loading
<1>3. /\ Len(d.stack) = n + 1
      /\ \A k \in 1..n : d.stack[k] = c.stack[k]
      /\ d.stack[n + 1] = [prog |-> p, source |-> s, rest |-> s]
      /\ d.pc = "walk"
      /\ d.visited = c.visited /\ d.ordered = c.ordered
  BY <1>1, <1>2, EnteredCall
<1>4. n \in Nat /\ (c.stack = <<>>) = (n = 0)
  BY StackElements
<1>5. Names(d) = Names(c) /\ Wanted(d) = {} /\ ~Loading(d)
  BY <1>3 DEF Names, Wanted, Loading
<1>6. CASE n = 0
  <2>1. Above(c) = {} /\ Above(d) = {} /\ Wanted(c) = {}
    BY <1>3, <1>4, <1>6 DEF Above, Wanted
  <2>2. Marked(d) /\ Once(d)
    BY <1>2, <1>3, <1>5, <1>6, <2>1 DEF Walk, Marked, Once
  <2>3. Looked(d) /\ Chain(d)
    BY <1>3, <1>5, <1>6 DEF Looked, Chain, ImportsOf
  <2>4. QED
    BY <2>2, <2>3 DEF Walk
<1>7. CASE n # 0
  <2>1. Wanted(c) = {p}
    BY <1>2, <1>4, <1>7 DEF Wanted
  <2>2. Above(d) = Above(c) \cup {p}
    <3>1. 2..(n + 1) = 2..n \cup {n + 1}
      BY <1>4, <1>7
    <3>2. d.stack[n + 1].prog = p
      BY <1>3
    <3>3. Above(d) = {d.stack[k].prog : k \in 2..n} \cup {p}
      BY <1>3, <3>1, <3>2 DEF Above
    <3>4. \A k \in 2..n : d.stack[k] = c.stack[k]
      BY <1>3, <1>4
    <3>5. {d.stack[k].prog : k \in 2..n} = Above(c)
      BY <3>4 DEF Above
    <3>6. QED
      BY <3>3, <3>5
  <2>3. Marked(d)
    BY <1>2, <1>3, <1>5, <2>1, <2>2 DEF Walk, Marked
  <2>4. p \notin Names(c) /\ \A k \in 2..n : c.stack[k].prog # p
    BY <2>1 DEF Walk, Once, Above
  <2>5. Once(d)
    <3>1. \A i, j \in 1..Len(d.ordered) : d.ordered[i].prog = d.ordered[j].prog => i = j
      BY <1>3 DEF Walk, Once
    <3>2. ASSUME NEW i \in 2..Len(d.stack), NEW j \in 2..Len(d.stack),
                 d.stack[i].prog = d.stack[j].prog
          PROVE  i = j
      <4>1. \A k \in 2..Len(d.stack) : \/ k \in 2..n /\ d.stack[k] = c.stack[k]
                                       \/ k = n + 1 /\ d.stack[k].prog = p
        BY <1>3, <1>4
      <4>2. \A k, l \in 2..n : c.stack[k].prog = c.stack[l].prog => k = l
        BY DEF Walk, Once
      <4>3. QED
        BY <2>4, <3>2, <4>1, <4>2
    <3>3. QED
      BY <1>5, <2>2, <2>4, <3>1, <3>2 DEF Walk, Once
  <2>6. Looked(d)
    <3>1. ASSUME NEW k \in 1..Len(d.stack)
          PROVE  /\ Range(d.stack[k].rest) \subseteq Range(d.stack[k].source)
                 /\ ImportsOf(d.stack[k]) \subseteq d.visited \cup Range(d.stack[k].rest)
      <4>1. CASE k \in 1..n
        BY <1>3, <4>1 DEF Walk, Looked
      <4>2. CASE k = n + 1
        BY <1>3, <4>2 DEF ImportsOf
      <4>3. QED
        BY <1>3, <1>4, <4>1, <4>2
    <3>2. QED
      BY <3>1 DEF Looked
  <2>7. Chain(d)
    <3>1. ASSUME NEW k \in 1..(Len(d.stack) - 1)
          PROVE  d.stack[k + 1].prog \in ImportsOf(d.stack[k])
      <4>1. CASE k < n
        BY <1>3, <1>4, <3>1, <4>1 DEF Walk, Chain
      <4>2. CASE k = n
        BY <1>2, <1>3, <1>4, <1>7, <4>2 DEF Walk, Chain
      <4>3. QED
        BY <1>3, <1>4, <3>1, <4>1, <4>2
    <3>2. QED
      BY <1>5, <3>1 DEF Chain
  <2>8. QED
    BY <2>3, <2>5, <2>6, <2>7 DEF Walk
<1>8. QED
  BY <1>6, <1>7

\* Only the lines ahead of the program on top change.
LEMMA WalkSkips ==
    ASSUME NEW c \in Calls, NEW d \in Calls, Shape(c), Walk(c), c.pc = "walk",
           Top(c).rest # <<>>, d.pc \in {"walk", "load"},
           Len(d.stack) = Len(c.stack),
           \A k \in 1..Len(c.stack) : /\ d.stack[k].prog = c.stack[k].prog
                                      /\ d.stack[k].source = c.stack[k].source,
           \A k \in 1..(Len(c.stack) - 1) : d.stack[k].rest = c.stack[k].rest,
           d.stack[Len(c.stack)].rest = Tail(Top(c).rest),
           d.ordered = c.ordered,
           c.visited \subseteq d.visited,
           Head(Top(c).rest) \in d.visited \cup {Credits}
    PROVE  /\ Looked(d)
           /\ \A k \in 1..(Len(d.stack) - 1) : d.stack[k + 1].prog \in ImportsOf(d.stack[k])
           /\ Names(d) = Names(c) /\ Above(d) = Above(c)
           /\ ImportsOf(d.stack[Len(d.stack)]) = ImportsOf(Top(c))
           /\ Head(Top(c).rest) \in ImportsOf(Top(c)) \cup {Credits}
<1> DEFINE n == Len(c.stack)
           rest == Top(c).rest
<1>1. c.stack # <<>> /\ n \in Nat \ {0} /\ Top(c) = c.stack[n] /\ Top(c) \in Frame
  BY StackElements, TopElement DEF Shape
<1>2. /\ rest \in Seq(Programs \cup {Credits})
      /\ Range(rest) = {Head(rest)} \cup Range(Tail(rest))
  BY <1>1, FirstAndRest DEF Frame
<1>3. /\ Range(rest) \subseteq Range(Top(c).source)
      /\ ImportsOf(Top(c)) \subseteq c.visited \cup Range(rest)
  <2>1. n \in 1..n
    BY <1>1
  <2>2. Looked(c)
    BY DEF Walk
  <2>3. QED
    BY <1>1, <2>1, <2>2 DEF Looked
<1>4. Looked(d)
  <2>1. ASSUME NEW k \in 1..n
        PROVE  /\ Range(d.stack[k].rest) \subseteq Range(d.stack[k].source)
               /\ ImportsOf(d.stack[k]) \subseteq d.visited \cup Range(d.stack[k].rest)
    <3>1. ImportsOf(d.stack[k]) = ImportsOf(c.stack[k])
      BY DEF ImportsOf
    <3>2. CASE k < n
      <4>1. d.stack[k].rest = c.stack[k].rest /\ d.stack[k].source = c.stack[k].source
        BY <1>1, <2>1, <3>2
      <4>2. Looked(c)
        BY DEF Walk
      <4>3. QED
        BY <3>1, <4>1, <4>2 DEF Looked
    <3>3. CASE k = n
      BY <1>1, <1>2, <1>3, <3>1, <3>3 DEF ImportsOf
    <3>4. QED
      BY <1>1, <3>2, <3>3
  <2>2. QED
    BY <2>1 DEF Looked
<1>5. ASSUME NEW k \in 1..(Len(d.stack) - 1)
      PROVE  d.stack[k + 1].prog \in ImportsOf(d.stack[k])
  <2>1. k \in 1..(n - 1) /\ k \in 1..n /\ k + 1 \in 1..n
    BY <1>1
  <2>2. c.stack[k + 1].prog \in ImportsOf(c.stack[k])
    BY <2>1 DEF Walk, Chain
  <2>3. QED
    BY <2>1, <2>2 DEF ImportsOf
<1>6. Names(d) = Names(c)
  BY DEF Names
<1>7. Above(d) = Above(c)
  <2>1. \A k \in 2..n : d.stack[k].prog = c.stack[k].prog
    BY <1>1
  <2>2. QED
    BY <2>1 DEF Above
<1>8. ImportsOf(d.stack[n]) = ImportsOf(Top(c))
  BY <1>1 DEF ImportsOf
<1>9. Head(rest) \in ImportsOf(Top(c)) \cup {Credits}
  BY <1>2, <1>3 DEF ImportsOf
<1>10. QED
  BY <1>4, <1>5, <1>6, <1>7, <1>8, <1>9

LEMMA WalkSkipsOrVisits ==
    ASSUME NEW c \in Calls, NEW d \in Calls, Shape(c), Walk(c),
           Skips(c, d) \/ Visits(c, d)
    PROVE  Walk(d)
<1> DEFINE a == Advanced(c)
           p == Head(Top(c).rest)
           n == Len(c.stack)
<1>1. c.pc = "walk" /\ c.stack # <<>> /\ Top(c).rest # <<>>
  BY DEF Shape, Skips, Visits
<1>2. /\ a = [c EXCEPT !.stack = a.stack] /\ a \in Calls
      /\ Len(a.stack) = n /\ a.stack # <<>>
      /\ \A k \in 1..n : a.stack[k].prog = c.stack[k].prog /\ a.stack[k].source = c.stack[k].source
      /\ \A k \in 1..(n - 1) : a.stack[k].rest = c.stack[k].rest
      /\ a.stack[n].rest = Tail(Top(c).rest)
  BY <1>1, AdvancedCall
<1>3. a.pc = "walk" /\ a.visited = c.visited /\ a.ordered = c.ordered
  BY <1>1, <1>2 DEF Calls
<1>4. Wanted(c) = {} /\ c.visited = Names(c) \cup Above(c)
  BY <1>1 DEF Walk, Marked, Wanted, Loading
<1>5. Top(c) = c.stack[n]
  BY <1>1, TopElement
<1> HIDE DEF a
<1>6. CASE Skips(c, d)
  <2>1. d = a /\ p \in d.visited \cup {Credits}
    BY <1>3, <1>6 DEF Skips, SkippedImport, a, Known
  <2>2. /\ Looked(d)
        /\ \A k \in 1..(Len(d.stack) - 1) : d.stack[k + 1].prog \in ImportsOf(d.stack[k])
        /\ Names(d) = Names(c) /\ Above(d) = Above(c)
    BY <1>1, <1>2, <1>3, <2>1, WalkSkips
  <2>3. Wanted(d) = {} /\ ~Loading(d)
    BY <1>3, <2>1 DEF Wanted, Loading
  <2>4. Marked(d)
    BY <1>3, <1>4, <2>1, <2>2, <2>3 DEF Marked
  <2>5. Once(d)
    <3>1. \A k \in 2..n : d.stack[k].prog = c.stack[k].prog
      BY <1>2, <2>1
    <3>2. QED
      BY <1>2, <1>3, <2>1, <2>2, <2>3, <3>1 DEF Walk, Once
  <2>6. QED
    BY <2>2, <2>3, <2>4, <2>5 DEF Walk, Chain
<1>7. CASE Visits(c, d)
  <2>1. d = [a EXCEPT !.pc = "load", !.want = p, !.visited = @ \cup {p}] /\ ~Known(c, p)
    BY <1>7 DEF Visits, VisitedImport, a
  <2>2. /\ d.pc = "load" /\ d.want = p /\ d.visited = c.visited \cup {p}
        /\ d.stack = a.stack /\ d.ordered = c.ordered
    BY <1>2, <1>3, <2>1 DEF Calls
  <2>3. /\ Looked(d)
        /\ \A k \in 1..(Len(d.stack) - 1) : d.stack[k + 1].prog \in ImportsOf(d.stack[k])
        /\ Names(d) = Names(c) /\ Above(d) = Above(c)
        /\ ImportsOf(d.stack[Len(d.stack)]) = ImportsOf(Top(c))
        /\ p \in ImportsOf(Top(c)) \cup {Credits}
    <3>1. /\ Len(d.stack) = n
          /\ \A k \in 1..n : d.stack[k].prog = c.stack[k].prog /\ d.stack[k].source = c.stack[k].source
          /\ \A k \in 1..(n - 1) : d.stack[k].rest = c.stack[k].rest
          /\ d.stack[n].rest = Tail(Top(c).rest)
      BY <1>2, <2>2
    <3>2. c.visited \subseteq d.visited /\ p \in d.visited \cup {Credits} /\ d.pc \in {"walk", "load"}
      BY <2>2
    <3>3. QED
      BY <1>1, <2>2, <3>1, <3>2, WalkSkips
  <2>4. Wanted(d) = {p}
    BY <1>2, <2>2 DEF Wanted, Loading
  <2>5. p \notin Names(c) \cup Above(c) /\ p # Credits
    BY <1>4, <2>1 DEF Known
  <2>6. Marked(d)
    BY <1>4, <2>2, <2>3, <2>4 DEF Marked
  <2>7. Once(d)
    <3>1. \A k \in 2..n : d.stack[k].prog = c.stack[k].prog
      BY <1>2, <2>2
    <3>2. \A i, j \in 2..Len(d.stack) : d.stack[i].prog = d.stack[j].prog => i = j
      BY <1>2, <2>2, <3>1 DEF Walk, Once
    <3>3. \A i, j \in 1..Len(d.ordered) : d.ordered[i].prog = d.ordered[j].prog => i = j
      BY <2>2 DEF Walk, Once
    <3>4. Names(d) \cap Above(d) = {}
      BY <2>3 DEF Walk, Once
    <3>5. Wanted(d) \cap (Names(d) \cup Above(d)) = {}
      BY <2>3, <2>4, <2>5
    <3>6. QED
      BY <3>2, <3>3, <3>4, <3>5 DEF Once
  <2>8. Chain(d)
    BY <2>2, <2>3, <2>5 DEF Chain
  <2>9. QED
    BY <2>3, <2>6, <2>7, <2>8 DEF Walk
<1>8. QED
  BY <1>6, <1>7

LEMMA WalkFinishes ==
    ASSUME NEW c \in Calls, NEW d \in Calls, Shape(c), Walk(c), Finishes(c, d)
    PROVE  Walk(d)
<1> DEFINE n == Len(c.stack)
           o == Len(c.ordered)
           p == c.stack[n].prog
<1>1. c.pc = "walk" /\ c.stack # <<>> /\ n \in Nat /\ n > 1 /\ o \in Nat /\ Top(c) = c.stack[n]
  BY StackElements, TopElement DEF Shape, Finishes
<1>2. /\ Len(d.stack) = n - 1
      /\ \A k \in 1..(n - 1) : d.stack[k] = c.stack[k]
      /\ Len(d.ordered) = o + 1
      /\ \A i \in 1..o : d.ordered[i] = c.ordered[i]
      /\ d.ordered[o + 1].prog = p
      /\ d.pc = "walk" /\ d.visited = c.visited
  <2>1. d = Finished(c)
    BY DEF Finishes
  <2>2. /\ Len(d.stack) = n - 1
        /\ \A k \in 1..(n - 1) : d.stack[k] = c.stack[k]
        /\ Len(d.ordered) = o + 1
        /\ \A i \in 1..o : d.ordered[i] = c.ordered[i]
        /\ d.ordered[o + 1] = [prog |-> Top(c).prog, source |-> Top(c).source]
        /\ d.pc = c.pc /\ d.visited = c.visited
    BY <1>1, <2>1, FinishedCall
  <2>3. d.ordered[o + 1].prog = p
    BY <1>1, <2>2
  <2>4. QED
    BY <1>1, <2>2, <2>3
<1>3. Wanted(c) = {} /\ Wanted(d) = {} /\ ~Loading(d) /\ c.visited = Names(c) \cup Above(c)
  BY <1>1, <1>2 DEF Walk, Marked, Wanted, Loading
<1>4. Names(d) = Names(c) \cup {p}
  <2>1. 1..(o + 1) = 1..o \cup {o + 1}
    BY <1>1
  <2>2. Names(d) = {d.ordered[i].prog : i \in 1..o} \cup {d.ordered[o + 1].prog}
    BY <1>2, <2>1 DEF Names
  <2>3. {d.ordered[i].prog : i \in 1..o} = Names(c)
    BY <1>2 DEF Names
  <2>4. QED
    BY <1>2, <2>2, <2>3
<1>5. Above(c) = Above(d) \cup {p}
  <2>1. 2..n = 2..(n - 1) \cup {n}
    BY <1>1
  <2>2. Above(c) = {c.stack[k].prog : k \in 2..(n - 1)} \cup {p}
    BY <2>1 DEF Above
  <2>3. \A k \in 2..(n - 1) : d.stack[k] = c.stack[k]
    <3>1. \A k \in 2..(n - 1) : k \in 1..(n - 1)
      BY <1>1
    <3>2. QED
      BY <1>2, <3>1
  <2>4. {c.stack[k].prog : k \in 2..(n - 1)} = {d.stack[k].prog : k \in 2..(n - 1)}
    BY <2>3
  <2>5. Above(d) = {d.stack[k].prog : k \in 2..(n - 1)}
    BY <1>2 DEF Above
  <2>6. QED
    BY <2>2, <2>4, <2>5
<1>6. \A k \in 2..(n - 1) : c.stack[k].prog # p
  BY <1>1 DEF Walk, Once
<1>7. p \notin Above(d)
  <2>1. \A k \in 2..(n - 1) : d.stack[k].prog # p
    BY <1>1, <1>2, <1>6
  <2>2. Len(d.stack) = n - 1
    BY <1>2
  <2>3. QED
    BY <2>1, <2>2 DEF Above
<1>8. Marked(d)
  BY <1>2, <1>3, <1>4, <1>5 DEF Marked
<1>9. Once(d)
  <2>1. \A i \in 1..o : c.ordered[i].prog # p
    BY <1>5 DEF Walk, Once, Names
  <2>2. \A i, j \in 1..Len(d.ordered) : d.ordered[i].prog = d.ordered[j].prog => i = j
    <3>1. \A i \in 1..Len(d.ordered) : \/ i \in 1..o /\ d.ordered[i].prog = c.ordered[i].prog
                                       \/ i = o + 1 /\ d.ordered[i].prog = p
      BY <1>1, <1>2
    <3>2. \A i, j \in 1..o : c.ordered[i].prog = c.ordered[j].prog => i = j
      BY DEF Walk, Once
    <3>3. QED
      BY <2>1, <3>1, <3>2
  <2>3. \A i, j \in 2..Len(d.stack) : d.stack[i].prog = d.stack[j].prog => i = j
    <3>1. \A i \in 2..Len(d.stack) : i \in 2..n /\ d.stack[i].prog = c.stack[i].prog
      BY <1>1, <1>2
    <3>2. \A i, j \in 2..n : c.stack[i].prog = c.stack[j].prog => i = j
      BY DEF Walk, Once
    <3>3. QED
      BY <3>1, <3>2
  <2>4. Names(d) \cap Above(d) = {}
    BY <1>4, <1>5, <1>7 DEF Walk, Once
  <2>5. QED
    BY <1>3, <2>2, <2>3, <2>4 DEF Once
<1>10. Looked(d)
  <2>1. \A k \in 1..Len(d.stack) : k \in 1..n /\ d.stack[k] = c.stack[k]
    BY <1>1, <1>2
  <2>2. QED
    BY <1>2, <2>1 DEF Walk, Looked
<1>11. Chain(d)
  <2>1. ASSUME NEW k \in 1..(Len(d.stack) - 1)
        PROVE  d.stack[k + 1].prog \in ImportsOf(d.stack[k])
    <3>1. k \in 1..(n - 1) /\ d.stack[k] = c.stack[k] /\ d.stack[k + 1] = c.stack[k + 1]
      BY <1>1, <1>2, <2>1
    <3>2. QED
      BY <3>1 DEF Walk, Chain
  <2>2. QED
    BY <1>3, <2>1 DEF Chain
<1>12. QED
  BY <1>8, <1>9, <1>10, <1>11 DEF Walk

LEMMA WalkGoesOn ==
    ASSUME NEW c \in Calls, NEW d \in Calls, Shape(c), Walk(c), Kinds(c, d)
    PROVE  Walk(d)
BY WalkStarts, WalkStartsInRoot, WalkQuiet, WalkEnters, WalkSkipsOrVisits, WalkFinishes DEF Kinds

LEMMA OneCallMoves ==
    ASSUME TypeInv, [Next]_vars, call' # call
    PROVE  \E t \in Tasks, d \in Calls : Turn(t, d)
<1>1. ~Upgrade /\ ~UNCHANGED vars
  BY DEF Upgrade, vars
<1>2. QED
  BY <1>1, Beginnings, Advances DEF Next

AllWalk == \A t \in Tasks : Walk(call[t])

LEMMA WalksHold == Spec => [](TypeInv /\ AllWalk)
<1>1. Init => AllWalk
  <2>1. Idle \in Calls /\ Starts(Idle)
    BY IdleType DEF Idle, Starts
  <2>2. QED
    BY <2>1, WalkStarts DEF Init, AllWalk
<1>2. TypeInv /\ AllWalk /\ [Next]_vars => AllWalk'
  <2> SUFFICES ASSUME TypeInv, AllWalk, [Next]_vars, call' # call
               PROVE  AllWalk'
    BY DEF AllWalk
  <2>1. PICK t \in Tasks, d \in Calls : Turn(t, d)
    BY OneCallMoves
  <2>2. call \in [Tasks -> Calls] /\ call[t] \in Calls /\ Shape(call[t]) /\ Walk(call[t])
    BY DEF TypeInv, TypeOK, AllShaped, AllWalk
  <2>3. Walk(d)
    BY <2>1, <2>2, WalkGoesOn DEF Turn
  <2>4. QED
    BY <2>1, <2>2, <2>3 DEF Turn, AllWalk
<1>3. QED
  BY <1>1, <1>2, TypesHold, PTL DEF Spec

(***************************************************************************)
(* An import is resolved once, on every import graph, cyclic ones too, and *)
(* however the sources change while a call walks them (collectImports).    *)
(***************************************************************************)
THEOREM ImportsResolvedOnce == Spec => []ResolvedOnce
<1>1. TypeInv /\ AllWalk => ResolvedOnce
  <2> SUFFICES ASSUME TypeInv, AllWalk, NEW t \in Tasks
               PROVE  IsInjective([i \in 1..Len(call[t].ordered) |-> call[t].ordered[i].prog]
                          \o [i \in 1..(Len(call[t].stack) - 1) |-> call[t].stack[i + 1].prog])
    BY DEF ResolvedOnce
  <2> DEFINE c == call[t]
             o == Len(c.ordered)
             m == Len(c.stack) - 1
             s1 == [i \in 1..o |-> c.ordered[i].prog]
             s2 == [i \in 1..m |-> c.stack[i + 1].prog]
             names == s1 \o s2
  <2>1. c \in Calls /\ Once(c)
    BY DEF TypeInv, TypeOK, AllWalk, Walk
  <2>2. /\ Len(c.stack) \in Nat /\ o \in Nat
        /\ \A k \in 1..Len(c.stack) : c.stack[k] \in Frame
        /\ \A i \in 1..o : c.ordered[i] \in Resolved
    BY <2>1, StackElements
  <2> HIDE DEF c
  <2>3. CASE Len(c.stack) = 0
    <3>1. 1..m = {} /\ s2 = <<>>
      BY <2>3
    <3>2. s1 \in Seq(Programs) /\ Len(s1) = o
      BY <2>2 DEF Resolved
    <3>3. names = s1
      <4> HIDE DEF s1, s2
      <4>1. s1 \o <<>> = s1
        BY <3>2, ConcatEmptySeq
      <4>2. QED
        BY <3>1, <4>1
    <3>4. IsInjective(s1)
      BY <2>1 DEF Once, IsInjective
    <3>5. QED
      BY <3>3, <3>4 DEF c
  <2>4. CASE Len(c.stack) # 0
    <3>1. m \in Nat
      BY <2>2, <2>4
    <3>2. s1 \in Seq(Programs) /\ Len(s1) = o
      BY <2>2 DEF Resolved
    <3>3. s2 \in Seq(Programs) /\ Len(s2) = m
      BY <2>2, <3>1 DEF Frame
    <3> HIDE DEF m
    <3>4. /\ names \in Seq(Programs) /\ Len(names) = o + m
          /\ \A i \in 1..(o + m) : names[i] = IF i <= o THEN s1[i] ELSE s2[i - o]
      <4> HIDE DEF s1, s2
      <4>1. /\ s1 \o s2 \in Seq(Programs)
            /\ Len(s1 \o s2) = Len(s1) + Len(s2)
            /\ \A i \in 1..Len(s1) + Len(s2) :
                  (s1 \o s2)[i] = IF i <= Len(s1) THEN s1[i] ELSE s2[i - Len(s1)]
        BY <3>2, <3>3, ConcatProperties
      <4>2. QED
        BY <3>2, <3>3, <4>1
    <3>5. \A i \in 1..o : names[i] = c.ordered[i].prog
      BY <2>2, <3>1, <3>4
    <3>6. \A i \in (o + 1)..(o + m) : i - o + 1 \in 2..Len(c.stack) /\ names[i] = c.stack[i - o + 1].prog
      <4>1. \A i \in (o + 1)..(o + m) : i - o \in 1..m /\ i \in 1..(o + m) /\ ~(i <= o)
        BY <2>2, <3>1
      <4>2. \A k \in 1..m : k + 1 \in 2..Len(c.stack)
        BY <2>2, <3>1 DEF m
      <4>3. QED
        BY <3>4, <4>1, <4>2
    <3>7. ASSUME NEW i \in 1..(o + m), NEW j \in 1..(o + m), names[i] = names[j]
          PROVE  i = j
      <4>1. i \in 1..o \/ i \in (o + 1)..(o + m)
        BY <2>2, <3>1
      <4>2. j \in 1..o \/ j \in (o + 1)..(o + m)
        BY <2>2, <3>1
      <4>3. CASE i \in 1..o /\ j \in 1..o
        BY <2>1, <3>5, <3>7, <4>3 DEF Once
      <4>4. CASE i \in (o + 1)..(o + m) /\ j \in (o + 1)..(o + m)
        <5>1. i - o + 1 = j - o + 1
          <6>1. \A k, l \in 2..Len(c.stack) : c.stack[k].prog = c.stack[l].prog => k = l
            BY <2>1 DEF Once
          <6>2. /\ i - o + 1 \in 2..Len(c.stack) /\ names[i] = c.stack[i - o + 1].prog
                /\ j - o + 1 \in 2..Len(c.stack) /\ names[j] = c.stack[j - o + 1].prog
            BY <3>6, <4>4
          <6>3. QED
            BY <3>7, <6>1, <6>2
        <5>2. QED
          BY <2>2, <3>1, <5>1
      <4>5. \A k \in 1..o : names[k] \in Names(c)
        BY <3>5 DEF Names
      <4>6. \A k \in (o + 1)..(o + m) : names[k] \in Above(c)
        BY <3>6 DEF Above
      <4>7. QED
        BY <2>1, <3>7, <4>1, <4>2, <4>3, <4>4, <4>5, <4>6 DEF Once
    <3>8. DOMAIN names = 1..(o + m)
      <4> HIDE DEF names
      <4>1. QED
        BY <3>4
    <3>9. IsInjective(names)
      BY <3>7, <3>8 DEF IsInjective
    <3>10. QED
      BY <3>9 DEF c, m
  <2>5. QED
    BY <2>3, <2>4
<1>2. QED
  BY <1>1, WalksHold, PTL

-----------------------------------------------------------------------------
(* The order                                                               *)

Read(c) ==
    {c.ordered[i] : i \in 1..Len(c.ordered)}
    \cup {[prog |-> c.stack[k].prog, source |-> c.stack[k].source] : k \in 1..Len(c.stack)}

NoCycle(c) ==
    \A S \in (SUBSET Programs) \ {{}} :
        \E p \in S : \A r \in Read(c) : r.prog = p => ImportsOf(r) \cap S = {}

Ordered(c) ==
    NoCycle(c) =>
        \A i \in 1..Len(c.ordered) :
            ImportsOf(c.ordered[i]) \subseteq {c.ordered[j].prog : j \in 1..(i - 1)}

LEMMA ReadByCall ==
    ASSUME TypeOK, NEW t \in Tasks
    PROVE  ReadBy(t) = Read(call[t])
<1> DEFINE c == call[t]
<1>1. c.ordered \in Seq(Resolved) /\ c.stack \in Seq(Frame)
  BY DEF TypeOK, Calls
<1>2. Range(c.ordered) = {c.ordered[i] : i \in 1..Len(c.ordered)}
  BY <1>1, RangeEquality
<1>3. Range(c.stack) = {c.stack[k] : k \in 1..Len(c.stack)}
  BY <1>1, RangeEquality
<1>4. {[prog |-> f.prog, source |-> f.source] : f \in Range(c.stack)}
        = {[prog |-> c.stack[k].prog, source |-> c.stack[k].source] : k \in 1..Len(c.stack)}
  BY <1>3
<1>5. QED
  BY <1>2, <1>4 DEF ReadBy, Read

LEMMA CyclesOfACall ==
    ASSUME TypeOK, NEW t \in Tasks
    PROVE  Acyclic(t) = NoCycle(call[t])
BY ReadByCall DEF Acyclic, NoCycle

\* What was read stays read, so a call that finds no cycle had none before.
LEMMA ReadMore ==
    ASSUME NEW c, NEW d, Read(c) \subseteq Read(d), NoCycle(d)
    PROVE  NoCycle(c)
BY DEF NoCycle

\* A program on top of the stack that imports one of the stack closes a cycle.
LEMMA CycleOnTheStack ==
    ASSUME NEW c \in Calls, Chain(c), NoCycle(c), NEW m \in 1..Len(c.stack)
    PROVE  c.stack[m].prog \notin ImportsOf(c.stack[Len(c.stack)])
<1> DEFINE n == Len(c.stack)
           S == {c.stack[k].prog : k \in m..n}
<1>1. SUFFICES ASSUME c.stack[m].prog \in ImportsOf(c.stack[n])
               PROVE  FALSE
  OBVIOUS
<1>2. n \in Nat /\ m \in 1..n /\ \A k \in 1..n : c.stack[k] \in Frame
  BY StackElements
<1>3. S \in (SUBSET Programs) \ {{}}
  <2>1. \A k \in m..n : c.stack[k].prog \in Programs
    BY <1>2 DEF Frame
  <2>2. c.stack[m].prog \in S
    BY <1>2
  <2>3. S \subseteq Programs
    BY <2>1
  <2>4. S # {}
    BY <2>2
  <2> HIDE DEF S
  <2>5. QED
    BY <2>3, <2>4
<1>4. PICK p \in S : \A r \in Read(c) : r.prog = p => ImportsOf(r) \cap S = {}
  BY <1>3 DEF NoCycle
<1>5. PICK k \in m..n : p = c.stack[k].prog
  BY <1>4
<1>6. ImportsOf(c.stack[k]) \cap S = {}
  <2> DEFINE r == [prog |-> c.stack[k].prog, source |-> c.stack[k].source]
  <2>1. r \in Read(c) /\ r.prog = p
    BY <1>2, <1>5 DEF Read
  <2>2. ImportsOf(r) = ImportsOf(c.stack[k])
    BY DEF ImportsOf
  <2>3. QED
    BY <1>4, <2>1, <2>2
<1>7. CASE k < n
  <2>1. k \in 1..(n - 1) /\ k + 1 \in m..n
    BY <1>2, <1>5, <1>7
  <2>2. c.stack[k + 1].prog \in ImportsOf(c.stack[k]) \cap S
    BY <2>1 DEF Chain
  <2>3. QED
    BY <1>6, <2>2
<1>8. CASE k = n
  <2>1. c.stack[m].prog \in S
    BY <1>2
  <2>2. QED
    BY <1>1, <1>6, <1>8, <2>1
<1>9. QED
  BY <1>2, <1>5, <1>7, <1>8

LEMMA ReadOfProgress ==
    ASSUME NEW c \in Calls, NEW d \in Calls, Shape(c), Kinds(c, d),
           ~Starts(d), ~StartsInRoot(d)
    PROVE  Read(c) \subseteq Read(d)
<1> DEFINE n == Len(c.stack)
           Image(f) == [prog |-> f.prog, source |-> f.source]
<1>1. n \in Nat
  BY StackElements
<1>2. CASE Quiet(c, d)
  BY <1>2 DEF Quiet, Read
<1>3. CASE Enters(c, d)
  <2>1. PICK s \in Sources : d = Entered(c, c.want, s)
    BY <1>3 DEF Enters
  <2>2. c.want \in Programs
    BY <1>3 DEF Enters, Shape
  <2>3. LET e == Entered(c, c.want, s) IN
        /\ Len(e.stack) = n + 1 /\ e.ordered = c.ordered
        /\ \A k \in 1..n : e.stack[k] = c.stack[k]
    BY <2>2, EnteredCall
  <2>4. \A k \in 1..n : k \in 1..Len(d.stack) /\ Image(c.stack[k]) = Image(d.stack[k])
    BY <1>1, <2>1, <2>3
  <2>5. d.ordered = c.ordered
    BY <2>1, <2>3
  <2> HIDE DEF Image
  <2>6. \A k \in 1..n : Image(c.stack[k]) \in {Image(d.stack[j]) : j \in 1..Len(d.stack)}
    BY <2>4
  <2>7. QED
    BY <2>5, <2>6 DEF Read, Image
<1>4. CASE Skips(c, d) \/ Visits(c, d)
  <2> DEFINE a == Advanced(c)
  <2>1. c.stack # <<>> /\ Top(c).rest # <<>>
    BY <1>4 DEF Skips, Visits, Shape
  <2>2. /\ a = [c EXCEPT !.stack = a.stack] /\ a \in Calls /\ Len(a.stack) = n
        /\ \A k \in 1..n : a.stack[k].prog = c.stack[k].prog /\ a.stack[k].source = c.stack[k].source
    BY <2>1, AdvancedCall
  <2>3. a.ordered = c.ordered
    BY <2>2 DEF Calls
  <2>4. d.stack = a.stack /\ d.ordered = a.ordered
    BY <1>4, <2>2 DEF Skips, Visits, SkippedImport, VisitedImport, Calls
  <2>5. \A k \in 1..n : Image(c.stack[k]) = Image(d.stack[k])
    BY <2>2, <2>4
  <2>6. QED
    BY <2>2, <2>3, <2>4, <2>5 DEF Read
<1>5. CASE Finishes(c, d)
  <2> DEFINE o == Len(c.ordered)
  <2>1. c.stack # <<>> /\ n > 1 /\ o \in Nat /\ Top(c) = c.stack[n] /\ d = Finished(c)
    BY <1>5, StackElements, TopElement DEF Finishes, Shape
  <2>2. /\ Len(d.stack) = n - 1
        /\ \A k \in 1..(n - 1) : d.stack[k] = c.stack[k]
        /\ Len(d.ordered) = o + 1
        /\ \A i \in 1..o : d.ordered[i] = c.ordered[i]
        /\ d.ordered[o + 1] = Image(Top(c))
    BY <2>1, FinishedCall
  <2>3. \A i \in 1..o : i \in 1..Len(d.ordered) /\ c.ordered[i] = d.ordered[i]
    BY <2>1, <2>2
  <2>4. ASSUME NEW k \in 1..n
        PROVE  Image(c.stack[k]) \in Read(d)
    <3>1. CASE k = n
      <4>1. o + 1 \in 1..Len(d.ordered) /\ Image(c.stack[k]) = d.ordered[o + 1]
        BY <2>1, <2>2, <3>1
      <4>2. QED
        BY <4>1 DEF Read
    <3>2. CASE k # n
      <4>1. k \in 1..Len(d.stack) /\ Image(c.stack[k]) = Image(d.stack[k])
        BY <1>1, <2>2, <3>2
      <4>2. QED
        BY <4>1 DEF Read
    <3>3. QED
      BY <3>1, <3>2
  <2>5. QED
    BY <2>3, <2>4 DEF Read
<1>6. QED
  BY <1>2, <1>3, <1>4, <1>5 DEF Kinds

LEMMA OrderGoesOn ==
    ASSUME NEW c \in Calls, NEW d \in Calls, Shape(c), Walk(c), Ordered(c), Kinds(c, d)
    PROVE  Ordered(d)
<1>1. CASE Starts(d) \/ StartsInRoot(d)
  BY <1>1 DEF Starts, StartsInRoot, Ordered
<1>2. CASE ~Starts(d) /\ ~StartsInRoot(d)
  <2> SUFFICES ASSUME NoCycle(d)
               PROVE  \A i \in 1..Len(d.ordered) :
                          ImportsOf(d.ordered[i]) \subseteq {d.ordered[j].prog : j \in 1..(i - 1)}
    BY DEF Ordered
  <2>1. NoCycle(c)
    BY <1>2, ReadOfProgress, ReadMore
  <2>2. \A i \in 1..Len(c.ordered) :
            ImportsOf(c.ordered[i]) \subseteq {c.ordered[j].prog : j \in 1..(i - 1)}
    BY <2>1 DEF Ordered
  <2>3. CASE ~Finishes(c, d)
    <3>1. d.ordered = c.ordered
      <4>1. CASE Quiet(c, d)
        BY <4>1 DEF Quiet
      <4>2. CASE Enters(c, d)
        BY <4>2, EnteredKeeps DEF Enters
      <4>3. CASE Skips(c, d) \/ Visits(c, d)
        <5>1. /\ Advanced(c) = [c EXCEPT !.stack = Advanced(c).stack]
              /\ Advanced(c) \in Calls
          BY <4>3, AdvancedCall DEF Skips, Visits, Shape
        <5>2. Advanced(c).ordered = c.ordered
          BY <5>1 DEF Calls
        <5>3. QED
          BY <4>3, <5>1, <5>2 DEF Skips, Visits, SkippedImport, VisitedImport, Calls
      <4>4. QED
        BY <1>2, <2>3, <4>1, <4>2, <4>3 DEF Kinds
    <3> DEFINE o == c.ordered
    <3>2. \A i \in 1..Len(o) : ImportsOf(o[i]) \subseteq {o[j].prog : j \in 1..(i - 1)}
      BY <2>2
    <3> HIDE DEF o
    <3>3. d.ordered = o
      BY <3>1 DEF o
    <3>4. QED
      BY <3>2, <3>3
  <2>4. CASE Finishes(c, d)
    <3> DEFINE n == Len(c.stack)
               o == Len(c.ordered)
    <3>1. c.pc = "walk" /\ c.stack # <<>> /\ n \in Nat /\ n > 1 /\ o \in Nat
          /\ Top(c) = c.stack[n] /\ d = Finished(c) /\ Top(c).rest = <<>>
      BY <2>4, StackElements, TopElement DEF Finishes, Shape
    <3>2. /\ Len(d.ordered) = o + 1
          /\ \A i \in 1..o : d.ordered[i] = c.ordered[i]
          /\ d.ordered[o + 1] = [prog |-> Top(c).prog, source |-> Top(c).source]
      BY <3>1, FinishedCall
    <3>3. ImportsOf(Top(c)) \subseteq Names(c) \cup Above(c)
      <4>1. Range(Top(c).rest) = {}
        BY <3>1 DEF Range
      <4>2. ImportsOf(c.stack[n]) \subseteq c.visited \cup Range(c.stack[n].rest)
        BY <3>1 DEF Walk, Looked
      <4>3. c.visited = Names(c) \cup Above(c)
        BY <3>1 DEF Walk, Marked, Wanted, Loading
      <4>4. QED
        BY <3>1, <4>1, <4>2, <4>3
    <3>4. ImportsOf(Top(c)) \cap Above(c) = {}
      <4>1. \A m \in 2..n : m \in 1..n
        OBVIOUS
      <4>2. \A m \in 2..n : c.stack[m].prog \notin ImportsOf(c.stack[n])
        BY <2>1, <4>1, CycleOnTheStack DEF Walk
      <4>3. QED
        BY <3>1, <4>2 DEF Above
    <3>5. ImportsOf(d.ordered[o + 1]) = ImportsOf(Top(c))
      BY <3>2 DEF ImportsOf
    <3>6. ImportsOf(d.ordered[o + 1]) \subseteq {d.ordered[j].prog : j \in 1..o}
      <4>1. Names(c) = {d.ordered[j].prog : j \in 1..o}
        BY <3>2 DEF Names
      <4>2. QED
        BY <3>3, <3>4, <3>5, <4>1
    <3>7. ASSUME NEW i \in 1..o
          PROVE  ImportsOf(d.ordered[i]) \subseteq {d.ordered[j].prog : j \in 1..(i - 1)}
      <4>1. \A j \in 1..(i - 1) : d.ordered[j] = c.ordered[j]
        BY <3>1, <3>2
      <4>2. {d.ordered[j].prog : j \in 1..(i - 1)} = {c.ordered[j].prog : j \in 1..(i - 1)}
        BY <4>1
      <4>3. QED
        BY <2>2, <3>2, <4>2
    <3>8. ASSUME NEW i \in 1..Len(d.ordered)
          PROVE  ImportsOf(d.ordered[i]) \subseteq {d.ordered[j].prog : j \in 1..(i - 1)}
      <4>1. CASE i \in 1..o
        BY <3>7, <4>1
      <4>2. CASE i = o + 1
        <5>1. i - 1 = o
          BY <3>1, <4>2
        <5>2. QED
          BY <3>6, <4>2, <5>1
      <4>3. QED
        BY <3>1, <3>2, <4>1, <4>2
    <3>9. QED
      BY <3>8
  <2>5. QED
    BY <2>3, <2>4
<1>3. QED
  BY <1>1, <1>2

(***************************************************************************)
(* Leaves first, for every import graph: of programs that do not import    *)
(* each other, as far as the call has read, each comes after all that it   *)
(* imports (collectImports).                                               *)
(***************************************************************************)
THEOREM LeavesFirst == Spec => []DependencyOrder
<1> DEFINE AllOrdered == \A t \in Tasks : Ordered(call[t])
<1>1. Init => AllOrdered
  BY DEF Init, Idle, Ordered
<1>2. TypeInv /\ AllWalk /\ AllOrdered /\ [Next]_vars => AllOrdered'
  <2> SUFFICES ASSUME TypeInv, AllWalk, AllOrdered, [Next]_vars, call' # call
               PROVE  AllOrdered'
    OBVIOUS
  <2>1. PICK t \in Tasks, d \in Calls : Turn(t, d)
    BY OneCallMoves
  <2>2. call \in [Tasks -> Calls] /\ call[t] \in Calls /\ Shape(call[t])
        /\ Walk(call[t]) /\ Ordered(call[t])
    BY DEF TypeInv, TypeOK, AllShaped, AllWalk
  <2>3. Ordered(d)
    BY <2>1, <2>2, OrderGoesOn DEF Turn
  <2>4. QED
    BY <2>1, <2>2, <2>3 DEF Turn
<1>3. TypeInv /\ AllOrdered => DependencyOrder
  BY CyclesOfACall DEF TypeInv, DependencyOrder, Ordered
<1>4. QED
  BY <1>1, <1>2, <1>3, WalksHold, PTL DEF Spec

-----------------------------------------------------------------------------
(* The cache                                                               *)

\* What a call with the cache has asked for is in the cache, or being fetched.
Asked(c) ==
    c.cached =>
        /\ \A i, j \in 1..Len(c.requests) : c.requests[i] = c.requests[j] => i = j
        /\ c.pc # "done" => \A i \in 1..Len(c.requests) :
               \/ programCache[c.requests[i]] # NoSource
               \/ c.pc \in {"request", "answered"} /\ c.requests[i] = c.want

AllAsked == \A t \in Tasks : Asked(call[t])

\* The cache forgets nothing.
LEMMA CacheGrows ==
    ASSUME TypeInv, [Next]_vars
    PROVE  \A p \in Programs : programCache[p] # NoSource => programCache'[p] # NoSource
<1>1. CASE programCache' = programCache
  BY <1>1
<1>2. ASSUME NEW t \in Tasks, AnswerArrives(t)
      PROVE  \A p \in Programs : programCache[p] # NoSource => programCache'[p] # NoSource
  <2>1. call[t].answer \in Sources /\ programCache \in [Programs -> Sources \cup {NoSource}]
    BY <1>2 DEF AnswerArrives, TypeInv, TypeOK, AllShaped, Shape
  <2>2. call[t].answer # NoSource
    BY <2>1, SourceAssumption
  <2>3. QED
    BY <1>2, <2>1, <2>2 DEF AnswerArrives, Store
<1>3. QED
  BY <1>1, <1>2 DEF Next, vars, Upgrade, Begin, Authorize, AuthorizeWithoutKey,
      GetProgramImports, Advance, CacheHit, Request, NodeAnswers, FetchFails, SkipImport,
      VisitImport, FinishImport, FinishRoot, ParseInputs, AddImport, AddTarget

\* A step that asks for nothing.
LEMMA AsksNoMore ==
    ASSUME TypeInv, [Next]_vars, NEW c \in Calls, Asked(c), NEW d \in Calls,
           d.cached = c.cached, d.requests = c.requests,
           \/ d.pc = "done"
           \/ c.pc \notin {"request", "answered", "done"}
           \/ c.pc = "request" /\ d.pc = "answered" /\ d.want = c.want
    PROVE  Asked(d)'
<1>1. \A i \in 1..Len(c.requests) : c.requests[i] \in Programs
  BY DEF Calls
<1>2. QED
  BY <1>1, CacheGrows DEF Asked

LEMMA OthersAsked ==
    ASSUME TypeInv, [Next]_vars, AllAsked, NEW t \in Tasks, NEW d,
           call' = [call EXCEPT ![t] = d], Asked(d)'
    PROVE  AllAsked'
<1>1. ASSUME NEW u \in Tasks, u # t
      PROVE  Asked(call[u])'
  <2>1. call'[u] = call[u] /\ call[u] \in Calls /\ Asked(call[u])
    BY <1>1 DEF TypeInv, TypeOK, AllAsked
  <2>2. \A i \in 1..Len(call[u].requests) : call[u].requests[i] \in Programs
    BY <2>1 DEF Calls
  <2>3. QED
    BY <2>1, <2>2, CacheGrows DEF Asked
<1>2. call'[t] = d
  BY DEF TypeInv, TypeOK
<1>3. QED
  BY <1>1, <1>2 DEF AllAsked, Asked

(***************************************************************************)
(* With the cache, a call asks the node for a program at most once, the    *)
(* root included, whatever the other calls fetch (fetchProgramCached).     *)
(***************************************************************************)
THEOREM AskedOnce == Spec => []RequestedOnce
<1>1. Init => AllAsked
  BY DEF Init, Idle, AllAsked, Asked
<1>2. TypeInv /\ AllAsked /\ [Next]_vars => AllAsked'
  <2> SUFFICES ASSUME TypeInv, AllAsked, [Next]_vars
               PROVE  AllAsked'
    OBVIOUS
  <2>1. ASSUME NEW t \in Tasks, Begin(t)
        PROVE  AllAsked'
    <3>1. PICK d \in Calls : Turn(t, d)
      BY <2>1, Beginnings
    <3>2. Len(call'[t].requests) = 0
      <4>1. CASE Authorize(t)
        <5>1. PICK p \in Programs, b \in BOOLEAN :
                 call' = [call EXCEPT ![t] = [Idle EXCEPT !.pc = "load", !.op = "authorize",
                                                          !.cached = b, !.want = p]]
          BY <4>1 DEF Authorize, Step
        <5>2. call'[t] = [Idle EXCEPT !.pc = "load", !.op = "authorize", !.cached = b, !.want = p]
          BY <5>1 DEF TypeInv, TypeOK
        <5>3. QED
          BY <5>2 DEF Idle
      <4>2. CASE AuthorizeWithoutKey(t)
        <5>1. call' = [call EXCEPT ![t] = Ended([Idle EXCEPT !.op = "authorize"], "no key")]
          BY <4>2 DEF AuthorizeWithoutKey, Step
        <5>2. call'[t] = Ended([Idle EXCEPT !.op = "authorize"], "no key")
          BY <5>1 DEF TypeInv, TypeOK
        <5>3. QED
          BY <5>2 DEF Idle, Ended
      <4>3. CASE GetProgramImports(t)
        <5>1. PICK p \in Programs, s \in Given :
                 call' = [call EXCEPT ![t] = Entered([Idle EXCEPT !.op = "imports"], p, s)]
          BY <4>3 DEF GetProgramImports
        <5>2. call'[t] = Entered([Idle EXCEPT !.op = "imports"], p, s)
          BY <5>1 DEF TypeInv, TypeOK
        <5>3. QED
          BY <5>2 DEF Idle, Entered
      <4>4. QED
        BY <2>1, <4>1, <4>2, <4>3 DEF Begin
    <3>3. call'[t] = d
      BY <3>1 DEF Turn, TypeInv, TypeOK
    <3>4. Asked(d)'
      BY <3>2, <3>3 DEF Asked
    <3>5. QED
      BY <3>1, <3>4, OthersAsked DEF Turn
  <2>2. ASSUME NEW t \in Tasks, Advance(t)
        PROVE  AllAsked'
    <3> DEFINE c == call[t]
    <3>1. PICK d \in Calls : Turn(t, d)
      BY <2>2, Advances
    <3>2. call' = [call EXCEPT ![t] = d] /\ call'[t] = d
          /\ c \in Calls /\ Shape(c) /\ Asked(c)
      BY <3>1 DEF Turn, TypeInv, TypeOK, AllShaped, AllAsked
    <3>3. \A e : Step(t, e) => d = e
      BY <3>2 DEF Step, TypeInv, TypeOK
    <3> HIDE DEF c
    <3>4. CASE Request(t)
      <4>1. /\ c.pc = "load" /\ c.want \in Programs
            /\ d = [c EXCEPT !.pc = "request", !.requests = Append(@, c.want)]
            /\ c.cached => programCache[c.want] = NoSource
            /\ programCache' = programCache
        <5>1. c.pc = "load" /\ c.want \in Programs
          BY <3>2, <3>4 DEF Request, Shape, Loading, c
        <5>2. Step(t, [c EXCEPT !.pc = "request", !.requests = Append(@, c.want)])
          BY <3>4 DEF Request, c
        <5>3. (c.cached => programCache[c.want] = NoSource) /\ programCache' = programCache
          BY <3>4 DEF Request, Hits, c
        <5>4. QED
          BY <3>3, <5>1, <5>2, <5>3
      <4>2. c.requests \in Seq(Programs)
        BY <3>2 DEF Calls
      <4>3. /\ d.pc = "request" /\ d.want = c.want /\ d.cached = c.cached
            /\ d.requests = Append(c.requests, c.want)
        BY <3>2, <4>1 DEF Calls
      <4>4. /\ Len(c.requests) \in Nat /\ Len(d.requests) = Len(c.requests) + 1
            /\ \A i \in 1..Len(c.requests) : d.requests[i] = c.requests[i]
            /\ d.requests[Len(c.requests) + 1] = c.want
        BY <4>1, <4>2, <4>3, AppendProperties
      <4>5. c.cached => \A i \in 1..Len(c.requests) : /\ programCache[c.requests[i]] # NoSource
                                                      /\ c.requests[i] # c.want
        BY <3>2, <4>1 DEF Asked
      <4>6. \A i \in 1..Len(d.requests) : i \in 1..Len(c.requests) \/ i = Len(c.requests) + 1
        BY <4>4
      <4>7. ASSUME c.cached
            PROVE  \A i, j \in 1..Len(d.requests) : d.requests[i] = d.requests[j] => i = j
        <5>1. \A i, j \in 1..Len(c.requests) : c.requests[i] = c.requests[j] => i = j
          BY <3>2, <4>7 DEF Asked
        <5>2. \A i \in 1..Len(d.requests) :
                  \/ i \in 1..Len(c.requests) /\ d.requests[i] = c.requests[i] /\ d.requests[i] # c.want
                  \/ i = Len(c.requests) + 1 /\ d.requests[i] = c.want
          BY <4>4, <4>5, <4>6, <4>7
        <5>3. QED
          BY <5>1, <5>2
      <4>8. Asked(d)'
        BY <4>1, <4>3, <4>4, <4>5, <4>6, <4>7 DEF Asked
      <4>9. QED
        BY <3>2, <4>8, OthersAsked
    <3>5. CASE AnswerArrives(t)
      <4>1. /\ c.pc = "answered" /\ c.want \in Programs /\ c.answer \in Sources
            /\ d = Entered(c, c.want, c.answer)
            /\ c.cached => programCache' = [programCache EXCEPT ![c.want] = c.answer]
        <5>1. c.pc = "answered" /\ c.want \in Programs /\ c.answer \in Sources
          BY <3>2, <3>5 DEF AnswerArrives, Shape, Loading, c
        <5>2. Step(t, Entered(c, c.want, c.answer))
          BY <3>5 DEF AnswerArrives, c
        <5>3. c.cached => programCache' = [programCache EXCEPT ![c.want] = c.answer]
          BY <3>5 DEF AnswerArrives, Store, c
        <5>4. QED
          BY <3>3, <5>1, <5>2, <5>3
      <4>2. d.cached = c.cached /\ d.requests = c.requests /\ d.pc = "walk"
        BY <3>2, <4>1, EnteredKeeps
      <4>3. ASSUME c.cached, NEW i \in 1..Len(c.requests)
            PROVE  programCache'[c.requests[i]] # NoSource
        <5>1. c.requests[i] \in Programs
          BY <3>2 DEF Calls
        <5>2. programCache'[c.want] = c.answer /\ c.answer # NoSource
          BY <4>1, <4>3, SourceAssumption DEF TypeInv, TypeOK
        <5>3. programCache[c.requests[i]] # NoSource \/ c.requests[i] = c.want
          BY <3>2, <4>1, <4>3 DEF Asked
        <5>4. QED
          BY <5>1, <5>2, <5>3, CacheGrows
      <4>4. Asked(d)'
        BY <3>2, <4>2, <4>3 DEF Asked
      <4>5. QED
        BY <3>2, <4>4, OthersAsked
    <3>6. CASE FetchFails(t)
      <4>1. d = Ended([Idle EXCEPT !.op = c.op, !.cached = c.cached], "fetch")
        BY <3>3, <3>6 DEF FetchFails, c
      <4>2. Len(d.requests) = 0
        BY <4>1 DEF Ended, Idle
      <4>3. Asked(d)'
        BY <4>2 DEF Asked
      <4>4. QED
        BY <3>2, <4>3, OthersAsked
    <3>7. CASE ~Request(t) /\ ~AnswerArrives(t) /\ ~FetchFails(t)
      <4>1. /\ d.cached = c.cached /\ d.requests = c.requests
            /\ \/ d.pc = "done"
               \/ c.pc \notin {"request", "answered", "done"}
               \/ c.pc = "request" /\ d.pc = "answered" /\ d.want = c.want
        <5>1. CASE CacheHit(t)
          <6>1. c.pc = "load" /\ c.want \in Programs
            BY <3>2, <5>1 DEF CacheHit, Shape, Loading, c
          <6>2. programCache[c.want] \in Sources
            BY <5>1, <6>1 DEF CacheHit, Hits, TypeInv, TypeOK, c
          <6>3. d = Entered(c, c.want, programCache[c.want])
            BY <3>3, <5>1 DEF CacheHit, c
          <6>4. QED
            BY <3>2, <6>1, <6>3, EnteredKeeps
        <5>2. CASE NodeAnswers(t)
          <6>1. /\ c.pc = "request"
                /\ d = [c EXCEPT !.pc = "answered", !.answer = deployed[c.want]]
            BY <3>3, <5>2 DEF NodeAnswers, c
          <6>2. QED
            BY <3>2, <6>1 DEF Calls
        <5>3. CASE SkipImport(t) \/ VisitImport(t)
          <6>1. /\ c.pc = "walk" /\ c.stack # <<>> /\ Top(c).rest # <<>>
                /\ d = Advanced(c) \/ \E p : d = VisitedImport(c, p)
            BY <3>2, <3>3, <5>3 DEF SkipImport, VisitImport, SkippedImport, Shape, c
          <6>2. Advanced(c) = [c EXCEPT !.stack = Advanced(c).stack] /\ Advanced(c) \in Calls
            BY <3>2, <6>1, AdvancedCall
          <6>3. Advanced(c).cached = c.cached /\ Advanced(c).requests = c.requests
            BY <3>2, <6>2 DEF Calls
          <6>4. d.cached = Advanced(c).cached /\ d.requests = Advanced(c).requests
            BY <6>1, <6>2 DEF VisitedImport, Calls
          <6>5. QED
            BY <6>1, <6>3, <6>4
        <5>4. CASE FinishImport(t)
          <6>1. c.pc = "walk" /\ c.stack # <<>> /\ d = Finished(c)
            BY <3>2, <3>3, <5>4 DEF FinishImport, Shape, c
          <6>2. QED
            BY <3>2, <6>1, FinishedCall
        <5>5. CASE FinishRoot(t) \/ ParseInputs(t) \/ AddImport(t) \/ AddTarget(t)
          <6>1. /\ c.pc \in {"walk", "parse", "add"}
                /\ \/ \E r : d = Ended(c, r)
                   \/ d = [c EXCEPT !.pc = "parse"]
                   \/ d = [c EXCEPT !.pc = "add", !.process = {Credits}]
                   \/ \E p : d = [c EXCEPT !.added = @ + 1, !.process = @ \cup {p}]
            <7>1. CASE FinishRoot(t)
              BY <3>3, <7>1 DEF FinishRoot, c
            <7>2. CASE ParseInputs(t)
              BY <3>3, <7>2 DEF ParseInputs, c
            <7>3. CASE AddImport(t)
              BY <3>3, <7>3 DEF AddImport, c
            <7>4. CASE AddTarget(t)
              BY <3>3, <7>4 DEF AddTarget, c
            <7>5. QED
              BY <5>5, <7>1, <7>2, <7>3, <7>4
          <6>2. QED
            BY <3>2, <6>1 DEF Ended, Calls
        <5>6. QED
          BY <2>2, <3>7, <5>1, <5>2, <5>3, <5>4, <5>5 DEF Advance
      <4>2. Asked(d)'
        BY <3>2, <4>1, AsksNoMore
      <4>3. QED
        BY <3>2, <4>2, OthersAsked
    <3>8. QED
      BY <3>4, <3>5, <3>6, <3>7
  <2>3. CASE Upgrade \/ UNCHANGED vars
    BY <2>3 DEF Upgrade, vars, AllAsked, Asked
  <2>4. QED
    BY <2>1, <2>2, <2>3 DEF Next
<1>3. TypeInv /\ AllAsked => RequestedOnce
  <2> SUFFICES ASSUME TypeInv, AllAsked, NEW t \in Tasks, call[t].cached
               PROVE  IsInjective(call[t].requests)
    BY DEF RequestedOnce
  <2>1. DOMAIN call[t].requests = 1..Len(call[t].requests)
    BY DEF TypeInv, TypeOK, Calls
  <2>2. QED
    BY <2>1 DEF AllAsked, Asked, IsInjective
<1>4. QED
  BY <1>1, <1>2, <1>3, TypesHold, PTL DEF Spec

-----------------------------------------------------------------------------
(* What a call reads, and when the node had it                             *)

LEMMA NothingRead ==
    ASSUME NEW c, c.stack = <<>>, c.ordered = <<>>
    PROVE  Read(c) = {}
BY DEF Read

LEMMA SameRead ==
    ASSUME NEW c, NEW d, d.stack = c.stack, d.ordered = c.ordered
    PROVE  Read(d) = Read(c)
BY DEF Read

LEMMA EnteredReads ==
    ASSUME NEW c \in Calls, NEW p \in Programs, NEW s \in Sources
    PROVE  Read(Entered(c, p, s)) \subseteq Read(c) \cup {[prog |-> p, source |-> s]}
<1> DEFINE d == Entered(c, p, s)
           n == Len(c.stack)
<1>0. /\ Len(d.stack) = n + 1 /\ d.ordered = c.ordered
      /\ \A k \in 1..n : d.stack[k] = c.stack[k]
      /\ d.stack[n + 1] = [prog |-> p, source |-> s, rest |-> s]
  BY EnteredCall
<1>1. /\ n \in Nat /\ Len(d.stack) = n + 1 /\ d.ordered = c.ordered
      /\ \A k \in 1..n : d.stack[k] = c.stack[k]
      /\ d.stack[n + 1].prog = p /\ d.stack[n + 1].source = s
  BY <1>0, StackElements
<1> HIDE DEF d
<1>2. ASSUME NEW k \in 1..Len(d.stack)
      PROVE  [prog |-> d.stack[k].prog, source |-> d.stack[k].source]
                \in Read(c) \cup {[prog |-> p, source |-> s]}
  <2>1. k \in 1..n \/ k = n + 1
    BY <1>1
  <2>2. QED
    BY <1>1, <2>1 DEF Read
<1>3. QED
  BY <1>1, <1>2 DEF Read, d

LEMMA FinishedReads ==
    ASSUME NEW c \in Calls, c.stack # <<>>
    PROVE  Read(Finished(c)) \subseteq Read(c)
<1> DEFINE d == Finished(c)
           n == Len(c.stack)
           o == Len(c.ordered)
<1>1. /\ n \in Nat \ {0} /\ o \in Nat /\ Top(c) = c.stack[n]
      /\ Len(d.stack) = n - 1 /\ Len(d.ordered) = o + 1
      /\ \A k \in 1..(n - 1) : d.stack[k] = c.stack[k]
      /\ \A i \in 1..o : d.ordered[i] = c.ordered[i]
      /\ d.ordered[o + 1] = [prog |-> Top(c).prog, source |-> Top(c).source]
  BY FinishedCall, StackElements, TopElement
<1> HIDE DEF d
<1>2. ASSUME NEW k \in 1..Len(d.stack)
      PROVE  [prog |-> d.stack[k].prog, source |-> d.stack[k].source] \in Read(c)
  <2>1. k \in 1..n /\ d.stack[k] = c.stack[k]
    BY <1>1
  <2>2. QED
    BY <2>1 DEF Read
<1>3. ASSUME NEW i \in 1..Len(d.ordered)
      PROVE  d.ordered[i] \in Read(c)
  <2>1. CASE i = o + 1
    <3>1. n \in 1..n /\ d.ordered[i] = [prog |-> c.stack[n].prog, source |-> c.stack[n].source]
      BY <1>1, <2>1
    <3>2. QED
      BY <3>1 DEF Read
  <2>2. CASE i # o + 1
    <3>1. i \in 1..o /\ d.ordered[i] = c.ordered[i]
      BY <1>1, <2>2
    <3>2. QED
      BY <3>1 DEF Read
  <2>3. QED
    BY <2>1, <2>2
<1>4. QED
  BY <1>2, <1>3 DEF Read, d

LEMMA AdvancedReads ==
    ASSUME NEW c \in Calls, c.stack # <<>>, Top(c).rest # <<>>
    PROVE  Read(Advanced(c)) = Read(c)
<1> DEFINE a == Advanced(c)
           n == Len(c.stack)
<1>1. /\ a = [c EXCEPT !.stack = a.stack] /\ Len(a.stack) = n
      /\ \A k \in 1..n : a.stack[k].prog = c.stack[k].prog /\ a.stack[k].source = c.stack[k].source
  BY AdvancedCall
<1>2. a.ordered = c.ordered
  BY <1>1 DEF Calls
<1> HIDE DEF a
<1>3. QED
  BY <1>1, <1>2 DEF Read, a

\* What a call that goes on reads: something new only by entering a program.
ReadsOn(t, d) ==
    LET c == call[t] IN
    /\ d.cached = c.cached /\ d.pc # "idle"
    /\ \/ /\ CacheHit(t)
          /\ d = Entered(c, c.want, programCache[c.want])
       \/ /\ AnswerArrives(t)
          /\ d = Entered(c, c.want, c.answer)
       \/ /\ d.pc = "answered" => d.answer = deployed[d.want] /\ d.want \in Programs /\ c.pc # "done"
          /\ Read(d) \subseteq Read(c) /\ programCache' = programCache

LEMMA AdvanceReads ==
    ASSUME TypeInv, NEW t \in Tasks, Advance(t)
    PROVE  \E d \in Calls : call' = [call EXCEPT ![t] = d] /\ ReadsOn(t, d)
<1> DEFINE c == call[t]
<1>1. PICK d \in Calls : Turn(t, d)
  BY Advances
<1>2. call' = [call EXCEPT ![t] = d] /\ call'[t] = d /\ c \in Calls /\ Shape(c)
  BY <1>1 DEF Turn, TypeInv, TypeOK, AllShaped
<1> SUFFICES ReadsOn(t, d)
  BY <1>2
<1>3. \A e : Step(t, e) => d = e
  BY <1>2 DEF Step, TypeInv, TypeOK
<1> HIDE DEF c
<1>4. ASSUME d.cached = c.cached, d.pc \notin {"idle", "answered"},
             Read(d) \subseteq Read(c), programCache' = programCache
      PROVE  ReadsOn(t, d)
  BY <1>4 DEF ReadsOn, c
<1>5. CASE CacheHit(t)
  <2>1. d = Entered(c, c.want, programCache[c.want])
    BY <1>3, <1>5 DEF CacheHit, c
  <2>2. d.cached = c.cached /\ d.pc = "walk"
    BY <1>2, <2>1, EnteredKeeps
  <2>3. QED
    BY <1>5, <2>1, <2>2 DEF ReadsOn, c
<1>6. CASE AnswerArrives(t)
  <2>1. d = Entered(c, c.want, c.answer)
    BY <1>3, <1>6 DEF AnswerArrives, c
  <2>2. d.cached = c.cached /\ d.pc = "walk"
    BY <1>2, <2>1, EnteredKeeps
  <2>3. QED
    BY <1>6, <2>1, <2>2 DEF ReadsOn, c
<1>7. CASE Request(t)
  <2>1. d = [c EXCEPT !.pc = "request", !.requests = Append(@, c.want)] /\ programCache' = programCache
    BY <1>3, <1>7 DEF Request, c
  <2>2. /\ d.cached = c.cached /\ d.pc = "request" /\ d.stack = c.stack /\ d.ordered = c.ordered
    BY <1>2, <2>1 DEF Calls
  <2>3. QED
    BY <1>4, <2>1, <2>2, SameRead
<1>8. CASE NodeAnswers(t)
  <2>1. /\ c.pc = "request" /\ c.want \in Programs /\ programCache' = programCache
        /\ d = [c EXCEPT !.pc = "answered", !.answer = deployed[c.want]]
    <3>1. d = [c EXCEPT !.pc = "answered", !.answer = deployed[c.want]]
      BY <1>3, <1>8 DEF NodeAnswers, c
    <3>2. c.pc = "request" /\ programCache' = programCache
      BY <1>8 DEF NodeAnswers, c
    <3>3. QED
      BY <1>2, <3>1, <3>2 DEF Shape, Loading
  <2>2. /\ d.cached = c.cached /\ d.pc = "answered" /\ d.want = c.want /\ d.answer = deployed[c.want]
        /\ d.stack = c.stack /\ d.ordered = c.ordered
    BY <1>2, <2>1 DEF Calls
  <2>3. Read(d) = Read(c)
    BY <2>2, SameRead
  <2>4. QED
    BY <2>1, <2>2, <2>3 DEF ReadsOn, c
<1>9. CASE FetchFails(t)
  <2>1. /\ d = Ended([Idle EXCEPT !.op = c.op, !.cached = c.cached], "fetch")
        /\ programCache' = programCache
    BY <1>3, <1>9 DEF FetchFails, c
  <2>2. d.cached = c.cached /\ d.pc = "done" /\ d.stack = <<>> /\ d.ordered = <<>>
    BY <2>1 DEF Ended, Idle
  <2>3. QED
    BY <1>4, <2>1, <2>2, NothingRead
<1>10. CASE SkipImport(t) \/ VisitImport(t)
  <2>1. /\ c.pc = "walk" /\ c.stack # <<>> /\ Top(c).rest # <<>> /\ programCache' = programCache
        /\ d = Advanced(c) \/ \E p : d = VisitedImport(c, p)
    BY <1>2, <1>3, <1>10 DEF SkipImport, VisitImport, SkippedImport, Shape, c
  <2>2. Advanced(c) = [c EXCEPT !.stack = Advanced(c).stack] /\ Advanced(c) \in Calls
    BY <1>2, <2>1, AdvancedCall
  <2>3. Advanced(c).cached = c.cached /\ Advanced(c).pc = c.pc
    BY <1>2, <2>2 DEF Calls
  <2>4. /\ d.cached = c.cached /\ d.pc \in {"walk", "load"}
        /\ d.stack = Advanced(c).stack /\ d.ordered = Advanced(c).ordered
    BY <2>1, <2>2, <2>3 DEF VisitedImport, Calls
  <2>5. Read(d) = Read(c)
    <3>1. Read(Advanced(c)) = Read(c)
      BY <1>2, <2>1, AdvancedReads
    <3>2. Read(d) = Read(Advanced(c))
      BY <2>4, SameRead
    <3>3. QED
      BY <3>1, <3>2
  <2>6. QED
    BY <1>4, <2>1, <2>4, <2>5
<1>11. CASE FinishImport(t)
  <2>1. c.pc = "walk" /\ c.stack # <<>> /\ d = Finished(c) /\ programCache' = programCache
    BY <1>2, <1>3, <1>11 DEF FinishImport, Shape, c
  <2>2. d.cached = c.cached /\ d.pc = "walk" /\ Read(d) \subseteq Read(c)
    BY <1>2, <2>1, FinishedCall, FinishedReads
  <2>3. QED
    BY <1>4, <2>1, <2>2
<1>12. CASE FinishRoot(t) \/ ParseInputs(t) \/ AddImport(t) \/ AddTarget(t)
  <2>1. /\ programCache' = programCache
        /\ \/ \E r : d = Ended(c, r)
           \/ d = [c EXCEPT !.pc = "parse"]
           \/ d = [c EXCEPT !.pc = "add", !.process = {Credits}]
           \/ /\ c.pc = "add"
              /\ \E p : d = [c EXCEPT !.added = @ + 1, !.process = @ \cup {p}]
    <3>1. CASE FinishRoot(t)
      BY <1>3, <3>1 DEF FinishRoot, c
    <3>2. CASE ParseInputs(t)
      BY <1>3, <3>2 DEF ParseInputs, c
    <3>3. CASE AddImport(t)
      BY <1>3, <3>3 DEF AddImport, c
    <3>4. CASE AddTarget(t)
      BY <1>3, <3>4 DEF AddTarget, c
    <3>5. QED
      BY <1>12, <3>1, <3>2, <3>3, <3>4
  <2>2. /\ d.cached = c.cached /\ d.pc \in {"done", "parse", "add"}
        /\ d.stack = c.stack /\ d.ordered = c.ordered
    BY <1>2, <2>1 DEF Ended, Calls
  <2>3. QED
    BY <1>4, <2>1, <2>2, SameRead
<1>13. QED
  BY <1>2, <1>5, <1>6, <1>7, <1>8, <1>9, <1>10, <1>11, <1>12 DEF Advance

Had(t, p, s) ==
    \E u \in Tasks : s \in during[u][p] /\ IF call[t].cached THEN call[u].cached ELSE u = t

\* What is on the node, in the cache, on its way and read was there in time.
Timely ==
    /\ \A t \in Tasks, p \in Programs : call[t].pc # "done" => deployed[p] \in during[t][p]
    /\ \A p \in Programs : programCache[p] # NoSource =>
          \E u \in Tasks : call[u].cached /\ programCache[p] \in during[u][p]
    /\ \A t \in Tasks : call[t].pc = "answered" => call[t].answer \in during[t][call[t].want]
    /\ \A t \in Tasks : \A r \in Read(call[t]) : Had(t, r.prog, r.source)

LEMMA ReadPrograms ==
    ASSUME NEW c \in Calls, NEW r \in Read(c)
    PROVE  r.prog \in Programs /\ r.source \in Sources
BY StackElements DEF Read, Frame, Resolved

LEMMA IdleTask ==
    ASSUME TypeInv, NEW t \in Tasks, call[t].pc = "idle"
    PROVE  ~call[t].cached /\ Read(call[t]) = {}
<1>1. call[t] = Idle
  BY DEF TypeInv, AllShaped, Shape
<1>2. QED
  BY <1>1, NothingRead DEF Idle

LEMMA UpgradeIsTimely ==
    ASSUME TypeInv, Timely, Upgrade
    PROVE  Timely'
<1>1. PICK p \in Programs, s \in Sources :
          /\ deployed' = [deployed EXCEPT ![p] = s]
          /\ during' = [t \in Tasks |->
                [during[t] EXCEPT ![p] = CASE call[t].pc = "idle" -> {s}
                                           [] call[t].pc = "done" -> @
                                           [] OTHER -> @ \cup {s}]]
  BY DEF Upgrade
<1>2. /\ programCache' = programCache /\ call' = call
      /\ deployed \in [Programs -> Sources]
      /\ during \in [Tasks -> [Programs -> SUBSET Sources]]
  BY DEF Upgrade, TypeInv, TypeOK
<1>3. ASSUME NEW t \in Tasks, call[t].pc # "idle", NEW q \in Programs
      PROVE  during[t][q] \subseteq during'[t][q]
  BY <1>1, <1>2, <1>3
<1>4. ASSUME NEW t \in Tasks, NEW q \in Programs, call[t].pc # "done"
      PROVE  deployed'[q] \in during'[t][q]
  <2>1. CASE q = p
    BY <1>1, <1>2, <1>4, <2>1
  <2>2. CASE q # p
    <3>1. deployed'[q] = deployed[q] /\ during'[t][q] = during[t][q]
      BY <1>1, <1>2, <2>2
    <3>2. QED
      BY <1>4, <3>1 DEF Timely
  <2>3. QED
    BY <2>1, <2>2
<1>5. \A q \in Programs : programCache[q] # NoSource =>
          \E u \in Tasks : call[u].cached /\ programCache[q] \in during'[u][q]
  BY <1>3, IdleTask DEF Timely
<1>6. \A t \in Tasks : call[t].pc = "answered" => call[t].answer \in during'[t][call[t].want]
  BY <1>3 DEF Timely, TypeInv, AllShaped, Shape, Loading
<1>7. ASSUME NEW t \in Tasks, NEW r \in Read(call[t])
      PROVE  Had(t, r.prog, r.source)'
  <2>1. call[t].pc # "idle" /\ r.prog \in Programs
    BY <1>7, IdleTask, ReadPrograms DEF TypeInv, TypeOK
  <2>2. PICK u \in Tasks : /\ r.source \in during[u][r.prog]
                           /\ IF call[t].cached THEN call[u].cached ELSE u = t
    BY <1>7 DEF Timely, Had
  <2>3. call[u].pc # "idle"
    BY <2>1, <2>2, IdleTask
  <2>4. QED
    BY <1>2, <1>3, <2>1, <2>2, <2>3 DEF Had
<1>8. QED
  BY <1>2, <1>4, <1>5, <1>6, <1>7 DEF Timely, Read

LEMMA BeginIsTimely ==
    ASSUME TypeInv, Timely, NEW t \in Tasks, Begin(t)
    PROVE  Timely'
<1>1. /\ call[t].pc = "idle" /\ UNCHANGED <<deployed, programCache>>
      /\ \A u \in Tasks, p \in Programs : during[u][p] \subseteq during'[u][p]
  BY BeginOnNode DEF Begin, Authorize, AuthorizeWithoutKey, GetProgramImports
<1>2. \E d \in Calls : /\ call' = [call EXCEPT ![t] = d] /\ d.pc \notin {"idle", "answered"}
                       /\ \/ Read(d) = {}
                          \/ /\ ~d.cached
                             /\ \A r \in Read(d) : r.prog \in Programs /\ r.source \in during'[t][r.prog]
  <2>1. CASE Authorize(t)
    <3>1. PICK p \in Programs, b \in BOOLEAN :
             call' = [call EXCEPT ![t] = [Idle EXCEPT !.pc = "load", !.op = "authorize",
                                                      !.cached = b, !.want = p]]
      BY <2>1 DEF Authorize, Step
    <3> DEFINE d == [Idle EXCEPT !.pc = "load", !.op = "authorize", !.cached = b, !.want = p]
    <3>2. d \in Calls
      BY IdleType DEF Calls
    <3>3. d.pc = "load" /\ d.stack = <<>> /\ d.ordered = <<>>
      BY DEF Idle
    <3>4. QED
      BY <3>1, <3>2, <3>3, NothingRead
  <2>2. CASE AuthorizeWithoutKey(t)
    <3> DEFINE e == [Idle EXCEPT !.op = "authorize"]
               d == Ended(e, "no key")
    <3>1. e \in Calls
      BY IdleType DEF Calls
    <3>2. d \in Calls
      BY <3>1, EndedType DEF Results
    <3>3. d.pc = "done" /\ d.stack = <<>> /\ d.ordered = <<>>
      BY DEF Idle, Ended
    <3>4. QED
      BY <2>2, <3>2, <3>3, NothingRead DEF AuthorizeWithoutKey, Step
  <2>3. CASE GetProgramImports(t)
    <3> DEFINE e == [Idle EXCEPT !.op = "imports"]
    <3>1. PICK p \in Programs, s \in Sources :
             /\ call' = [call EXCEPT ![t] = Entered(e, p, s)]
             /\ during' = [during EXCEPT ![t][p] = @ \cup {s}]
      BY <2>3, SourceAssumption DEF GetProgramImports
    <3>2. e \in Calls /\ s \in during'[t][p]
      BY <3>1, IdleType DEF Calls, TypeInv, TypeOK
    <3>3. ~e.cached /\ e.stack = <<>> /\ e.ordered = <<>>
      BY DEF Idle
    <3> HIDE DEF e
    <3> DEFINE d == Entered(e, p, s)
    <3>4. d \in Calls /\ d.pc = "walk" /\ d.cached = e.cached
      BY <3>2, EnteredCall
    <3>5. Read(d) \subseteq {[prog |-> p, source |-> s]}
      BY <3>2, <3>3, EnteredReads, NothingRead
    <3>6. \A r \in Read(d) : r.prog \in Programs /\ r.source \in during'[t][r.prog]
      BY <3>2, <3>5
    <3>7. QED
      BY <3>1, <3>3, <3>4, <3>6
  <2>4. QED
    BY <2>1, <2>2, <2>3 DEF Begin
<1>3. PICK d \in Calls : /\ call' = [call EXCEPT ![t] = d] /\ d.pc \notin {"idle", "answered"}
                        /\ \/ Read(d) = {}
                           \/ /\ ~d.cached
                              /\ \A r \in Read(d) : r.prog \in Programs
                                                     /\ r.source \in during'[t][r.prog]
  BY <1>2
<1>4. call'[t] = d /\ \A u \in Tasks \ {t} : call'[u] = call[u]
  BY <1>3 DEF TypeInv, TypeOK
<1>5. \A u \in Tasks : call[u].cached => u # t /\ call'[u].cached
  BY <1>1, <1>4, IdleTask
<1>6. \A u \in Tasks, p \in Programs : call'[u].pc # "done" => deployed'[p] \in during'[u][p]
  BY <1>1, <1>4 DEF Timely
<1>7. \A p \in Programs : programCache[p] # NoSource =>
          \E u \in Tasks : call'[u].cached /\ programCache[p] \in during'[u][p]
  BY <1>1, <1>5 DEF Timely
<1>8. ASSUME NEW u \in Tasks, call'[u].pc = "answered"
      PROVE  call'[u].answer \in during'[u][call'[u].want]
  <2>1. u # t /\ call'[u] = call[u] /\ call[u].want \in Programs
    BY <1>3, <1>4, <1>8 DEF TypeInv, AllShaped, Shape, Loading
  <2>2. QED
    BY <1>1, <1>8, <2>1 DEF Timely
<1>9. ASSUME NEW u \in Tasks, NEW r \in Read(call'[u])
      PROVE  Had(u, r.prog, r.source)'
  <2>1. CASE u = t
    <3>1. ~d.cached /\ r.source \in during'[t][r.prog]
      BY <1>3, <1>4, <1>9, <2>1
    <3>2. QED
      BY <1>4, <2>1, <3>1 DEF Had
  <2>2. CASE u # t
    <3>1. Had(u, r.prog, r.source) /\ r.prog \in Programs
      BY <1>4, <1>9, <2>2, ReadPrograms DEF Timely, TypeInv, TypeOK
    <3>2. QED
      BY <1>1, <1>4, <1>5, <2>2, <3>1 DEF Had
  <2>3. QED
    BY <2>1, <2>2
<1>10. QED
  BY <1>1, <1>6, <1>7, <1>8, <1>9 DEF Timely, Read

LEMMA AdvanceIsTimely ==
    ASSUME TypeInv, Timely, NEW t \in Tasks, Advance(t)
    PROVE  Timely'
<1> DEFINE c == call[t]
<1>1. PICK d \in Calls : call' = [call EXCEPT ![t] = d] /\ ReadsOn(t, d)
  BY AdvanceReads
<1>2. UNCHANGED <<deployed, during>>
  BY DEF Advance, CacheHit, Request, NodeAnswers, FetchFails, AnswerArrives, SkipImport,
         VisitImport, FinishImport, FinishRoot, ParseInputs, AddImport, AddTarget, Step, node
<1>3. /\ call'[t] = d /\ \A u \in Tasks \ {t} : call'[u] = call[u]
      /\ c \in Calls /\ Shape(c) /\ programCache \in [Programs -> Sources \cup {NoSource}]
  BY <1>1 DEF TypeInv, TypeOK, AllShaped
<1>4. \A u \in Tasks : call'[u].cached = call[u].cached
  BY <1>1, <1>3 DEF ReadsOn
<1>5. \A u \in Tasks, p \in Programs, s \in Sources : Had(u, p, s) => Had(u, p, s)'
  BY <1>2, <1>4 DEF Had
<1>6. c.pc # "done" /\ (d.pc = "answered" => d.answer = deployed[d.want] /\ d.want \in Programs)
  <2>1. c.pc # "done"
    BY DEF Advance, CacheHit, Request, NodeAnswers, FetchFails, AnswerArrives, SkipImport,
           VisitImport, FinishImport, FinishRoot, ParseInputs, AddImport, AddTarget
  <2>2. CASE CacheHit(t) \/ AnswerArrives(t)
    <3>1. (\E p, s : d = Entered(c, p, s)) => d.pc = "walk"
      BY <1>3, EnteredKeeps
    <3>2. \/ d.pc = "walk"
          \/ d.pc = "answered" => d.answer = deployed[d.want] /\ d.want \in Programs
      BY <1>1, <3>1 DEF ReadsOn
    <3>3. QED
      BY <2>1, <3>2
  <2>3. QED
    BY <1>1, <2>1, <2>2 DEF ReadsOn
<1>7. ASSUME AnswerArrives(t)
      PROVE  c.want \in Programs /\ c.answer \in Sources /\ c.answer \in during[t][c.want]
  BY <1>3, <1>7 DEF AnswerArrives, Shape, Loading, Timely
<1>8. ASSUME CacheHit(t)
      PROVE  /\ c.cached /\ c.want \in Programs /\ programCache[c.want] \in Sources
             /\ Had(t, c.want, programCache[c.want])
  <2>1. c.cached /\ c.want \in Programs /\ programCache[c.want] # NoSource
    BY <1>3, <1>8 DEF CacheHit, Hits, Shape, Loading
  <2>2. PICK u \in Tasks : call[u].cached /\ programCache[c.want] \in during[u][c.want]
    BY <2>1 DEF Timely
  <2>3. QED
    BY <1>3, <2>1, <2>2 DEF Had
<1>9. \A u \in Tasks, p \in Programs : call'[u].pc # "done" => deployed[p] \in during[u][p]
  BY <1>3, <1>6 DEF Timely
<1>10. ASSUME NEW p \in Programs, programCache'[p] # NoSource
       PROVE  \E u \in Tasks : call'[u].cached /\ programCache'[p] \in during[u][p]
  <2>1. CASE programCache'[p] = programCache[p]
    BY <1>4, <1>10, <2>1 DEF Timely
  <2>2. CASE programCache'[p] # programCache[p]
    <3>1. AnswerArrives(t)
      BY <1>1, <2>2 DEF ReadsOn, CacheHit
    <3>2. c.cached /\ p = c.want /\ programCache'[p] = c.answer
      BY <1>3, <2>2, <3>1 DEF AnswerArrives, Store
    <3>3. QED
      BY <1>4, <1>7, <3>1, <3>2
  <2>3. QED
    BY <2>1, <2>2
<1>11. \A u \in Tasks : call'[u].pc = "answered" => call'[u].answer \in during[u][call'[u].want]
  BY <1>3, <1>6 DEF Timely
<1>12. ASSUME NEW u \in Tasks, NEW r \in Read(call'[u])
       PROVE  Had(u, r.prog, r.source)'
  <2>1. CASE r \in Read(call[u])
    <3>1. Had(u, r.prog, r.source) /\ r.prog \in Programs /\ r.source \in Sources
      BY <2>1, ReadPrograms DEF Timely, TypeInv, TypeOK
    <3>2. QED
      BY <1>5, <3>1
  <2>2. CASE r \notin Read(call[u])
    <3>1. u = t /\ r \in Read(d)
      BY <1>3, <1>12, <2>2
    <3>2. CASE AnswerArrives(t)
      <4>1. d = Entered(c, c.want, c.answer) \/ Read(d) \subseteq Read(c)
        BY <1>1, <3>2 DEF ReadsOn, CacheHit, AnswerArrives
      <4>2. r = [prog |-> c.want, source |-> c.answer]
        BY <1>3, <1>7, <2>2, <3>1, <3>2, <4>1, EnteredReads
      <4>3. Had(t, c.want, c.answer)
        BY <1>7, <3>2 DEF Had
      <4>4. QED
        BY <1>5, <1>7, <3>1, <3>2, <4>2, <4>3
    <3>3. CASE CacheHit(t)
      <4>1. d = Entered(c, c.want, programCache[c.want]) \/ Read(d) \subseteq Read(c)
        BY <1>1, <3>3 DEF ReadsOn, CacheHit, AnswerArrives
      <4>2. r = [prog |-> c.want, source |-> programCache[c.want]]
        BY <1>3, <1>8, <2>2, <3>1, <3>3, <4>1, EnteredReads
      <4>3. QED
        BY <1>5, <1>8, <3>1, <3>3, <4>2
    <3>4. CASE ~AnswerArrives(t) /\ ~CacheHit(t)
      BY <1>1, <2>2, <3>1, <3>4 DEF ReadsOn
    <3>5. QED
      BY <3>2, <3>3, <3>4
  <2>3. QED
    BY <2>1, <2>2
<1>13. QED
  BY <1>2, <1>9, <1>10, <1>11, <1>12 DEF Timely, Read

(***************************************************************************)
(* Whatever is upgraded in the meantime, what a call without a cache uses  *)
(* the node had while it ran, or it was given, and what one with the cache *)
(* uses the node had while a call with the cache ran (fetchProgramCached). *)
(***************************************************************************)
THEOREM NoOtherSources == Spec => []SourcesWereDeployed
<1>1. Init => Timely
  <2> SUFFICES ASSUME Init PROVE Timely
    OBVIOUS
  <2>1. \A t \in Tasks : call[t] = Idle
    BY DEF Init
  <2>2. \A t \in Tasks : Read(call[t]) = {} /\ call[t].pc = "idle"
    BY <2>1, NothingRead DEF Idle
  <2>3. QED
    BY <2>2 DEF Init, Timely
<1>2. TypeInv /\ Timely /\ [Next]_vars => Timely'
  <2> SUFFICES ASSUME TypeInv, Timely, [Next]_vars
               PROVE  Timely'
    OBVIOUS
  <2>1. CASE UNCHANGED vars
    BY <2>1 DEF vars, node, Timely, Had, Read
  <2>2. QED
    BY <2>1, UpgradeIsTimely, BeginIsTimely, AdvanceIsTimely DEF Next
<1>3. TypeInv /\ Timely => SourcesWereDeployed
  <2> SUFFICES ASSUME TypeInv, Timely, NEW t \in Tasks
               PROVE  \A r \in ReadBy(t) : Had(t, r.prog, r.source)
    BY DEF SourcesWereDeployed, Had
  <2>1. ReadBy(t) = Read(call[t])
    BY ReadByCall DEF TypeInv
  <2>2. QED
    BY <2>1 DEF Timely
<1>4. QED
  BY <1>1, <1>2, <1>3, TypesHold, PTL DEF Spec

=============================================================================
