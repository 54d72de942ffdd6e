--------------------------- MODULE ImportResolver ---------------------------
(***************************************************************************)
(* The resolution of a program's transitive imports and the authorization  *)
(* built from them (authorization.go, and aleo_authorize of the Rust       *)
(* bridge).  Every call walks the import graph depth first with a visited  *)
(* set of its own; the calls of one ProgramManager share a cache of        *)
(* sources.  The source of a program is the sequence of its import lines.  *)
(* The call stack of collectImports is the sequence of its frames.         *)
(***************************************************************************)
EXTENDS Integers, Sequences, SequencesExt

CONSTANTS
    Tasks,          \* the concurrent calls
    Programs,       \* program IDs, but for the built-in one
    Credits,        \* "credits.aleo"
    Sources,        \* the sources a program may have
    Given,          \* the ones GetProgramImports is given
    NoSource,       \* no source: a cache miss, or a fetch that has no answer yet
    NoProgram,
    Inputs,         \* what callers pass as inputs: "given", or "absent" (a nil slice)
    MaxUpgrades     \* bound on how often the node's programs change

ASSUME ProgramAssumption ==
    /\ Credits \notin Programs
    /\ NoProgram \notin Programs \cup {Credits}
ASSUME SourceAssumption ==
    /\ Sources \subseteq Seq(Programs \cup {Credits})
    /\ NoSource \notin Sources
    /\ Given \subseteq Sources
ASSUME InputAssumption == Inputs \subseteq {"given", "absent"}
ASSUME UpgradeAssumption == MaxUpgrades \in Nat

VARIABLES
    deployed,       \* the node: the source of each program
    upgrades,       \* how often it has changed
    during,         \* the sources each program has had on it, or was given, in a call
    programCache,   \* ProgramManager.programCache
    call            \* the calls

node == <<deployed, upgrades, during>>
vars == <<node, programCache, call>>

Frame == [prog : Programs, source : Sources, rest : Seq(Programs \cup {Credits})]
Resolved == [prog : Programs, source : Sources]

Results == {"none", "no key", "fetch", "inputs", "import", "target", "refused", "ok"}

Calls ==
    [pc : {"idle", "load", "request", "answered", "walk", "parse", "add", "done"},
     op : {"none", "authorize", "imports"},
     cached : BOOLEAN,
     want : Programs \cup {NoProgram},       \* what is being fetched
     answer : Sources \cup {NoSource},
     stack : Seq(Frame),                     \* the root's frame comes first
     visited : SUBSET Programs,
     ordered : Seq(Resolved),
     process : SUBSET (Programs \cup {Credits}),
     added : Nat,                            \* imports added to the process
     requests : Seq(Programs),               \* GetProgram calls, in order
     result : Results]

TypeOK ==
    /\ deployed \in [Programs -> Sources]
    /\ upgrades \in 0..MaxUpgrades
    /\ during \in [Tasks -> [Programs -> SUBSET Sources]]
    /\ programCache \in [Programs -> Sources \cup {NoSource}]
    /\ call \in [Tasks -> Calls]

Idle ==
    [pc |-> "idle", op |-> "none", cached |-> FALSE,
     want |-> NoProgram, answer |-> NoSource, stack |-> <<>>, visited |-> {},
     ordered |-> <<>>, process |-> {}, added |-> 0, requests |-> <<>>,
     result |-> "none"]

Init ==
    /\ deployed \in [Programs -> Sources]
    /\ upgrades = 0
    /\ during = [t \in Tasks |-> [p \in Programs |-> {deployed[p]}]]
    /\ programCache = [p \in Programs |-> NoSource]
    /\ call = [t \in Tasks |-> Idle]

\* The node's programs may be upgraded at any time.
Upgrade ==
    /\ upgrades < MaxUpgrades
    /\ upgrades' = upgrades + 1
    /\ \E p \in Programs : \E s \in Sources \ {deployed[p]} :
         /\ deployed' = [deployed EXCEPT ![p] = s]
         /\ during' = [t \in Tasks |->
              [during[t] EXCEPT ![p] = CASE call[t].pc = "idle" -> {s}
                                         [] call[t].pc = "done" -> @
                                         [] OTHER -> @ \cup {s}]]
    /\ UNCHANGED <<programCache, call>>

-----------------------------------------------------------------------------
(* One call                                                                *)

\* Task t moves on, its new state is c.
Step(t, c) ==
    /\ call' = [call EXCEPT ![t] = c]
    /\ UNCHANGED node

Ended(c, result) == [c EXCEPT !.pc = "done", !.result = result]

\* collectImports is entered with the source s of program p.
Entered(c, p, s) ==
    [c EXCEPT !.pc = "walk", !.want = NoProgram, !.answer = NoSource,
              !.stack = Append(@, [prog |-> p, source |-> s, rest |-> s])]

Top(c) == Last(c.stack)

Advanced(c) == [c EXCEPT !.stack[Len(c.stack)].rest = Tail(@)]

\* Mutant: the imports that follow one already resolved are not looked at.
DropsTheRest(c) == [c EXCEPT !.stack[Len(c.stack)].rest = <<>>]
\* Mutant: an import that needs no work is looked at again.
LooksAgain(c) == c

\* An import that is known already or is built in.
SkippedImport(c) == Advanced(c)

\* Mutant: an import is marked only once it is resolved.
MarkedLate(c, p) == [Advanced(c) EXCEPT !.pc = "load", !.want = p]

VisitedImport(c, p) ==
    [Advanced(c) EXCEPT !.pc = "load", !.want = p, !.visited = @ \cup {p}]

\* Mutant: a program is put before the ones it depends on.
FinishedInFront(c) ==
    [c EXCEPT !.stack = Front(@),
              !.ordered = <<[prog |-> Top(c).prog, source |-> Top(c).source]>> \o @]

\* collectImports returns to the frame of the program that imports this one.
Finished(c) ==
    [c EXCEPT !.stack = Front(@),
              !.ordered = Append(@, [prog |-> Top(c).prog, source |-> Top(c).source])]

-----------------------------------------------------------------------------
(* BuildAuthorization, BuildAuthorizationWithCache and GetProgramImports   *)

\* BuildAuthorization has no cache, BuildAuthorizationWithCache has the shared one.
Authorize(t) ==
    /\ call[t].pc = "idle"
    /\ \E p \in Programs, cached \in BOOLEAN :
         Step(t, [Idle EXCEPT !.pc = "load", !.op = "authorize", !.cached = cached, !.want = p])
    /\ UNCHANGED programCache

AuthorizeWithoutKey(t) ==
    /\ call[t].pc = "idle"
    /\ Step(t, Ended([Idle EXCEPT !.op = "authorize"], "no key"))
    /\ UNCHANGED programCache

\* GetProgramImports is given the source, whatever the node has, and has no cache.
GetProgramImports(t) ==
    /\ call[t].pc = "idle"
    /\ \E p \in Programs, s \in Given :
         /\ call' = [call EXCEPT ![t] = Entered([Idle EXCEPT !.op = "imports"], p, s)]
         /\ during' = [during EXCEPT ![t][p] = @ \cup {s}]
    /\ UNCHANGED <<deployed, upgrades, programCache>>

-----------------------------------------------------------------------------
(* fetchProgramCached                                                      *)

\* Mutant: there is one cache for the calls with and the calls without.
HitsAnyway(c) == programCache[c.want] # NoSource

Hits(c) == c.cached /\ programCache[c.want] # NoSource

CacheHit(t) ==
    LET c == call[t] IN
    /\ c.pc = "load" /\ Hits(c)
    /\ Step(t, Entered(c, c.want, programCache[c.want]))
    /\ UNCHANGED programCache

Request(t) ==
    LET c == call[t] IN
    /\ c.pc = "load" /\ ~Hits(c)
    /\ Step(t, [c EXCEPT !.pc = "request", !.requests = Append(@, c.want)])
    /\ UNCHANGED programCache

\* The node answers; the answer is on its way.
NodeAnswers(t) ==
    LET c == call[t] IN
    /\ c.pc = "request"
    /\ Step(t, [c EXCEPT !.pc = "answered", !.answer = deployed[c.want]])
    /\ UNCHANGED programCache

\* No answer, an HTTP error or a cancelled context: what was read is dropped.
FetchFails(t) ==
    LET c == call[t] IN
    /\ c.pc = "request"
    /\ Step(t, Ended([Idle EXCEPT !.op = c.op, !.cached = c.cached], "fetch"))
    /\ UNCHANGED programCache

\* Mutant: the answer is not stored.
NotStored(t) == UNCHANGED programCache

Store(t) ==
    programCache' = IF call[t].cached
                    THEN [programCache EXCEPT ![call[t].want] = call[t].answer]
                    ELSE programCache

AnswerArrives(t) ==
    LET c == call[t] IN
    /\ c.pc = "answered"
    /\ Step(t, Entered(c, c.want, c.answer))
    /\ Store(t)

-----------------------------------------------------------------------------
(* collectImports and collectImportsMap                                    *)

\* Mutant: the built-in program is fetched like the others.
KnownIfVisited(c, p) == p \in c.visited

Known(c, p) == p = Credits \/ p \in c.visited

SkipImport(t) ==
    LET c == call[t] IN
    /\ c.pc = "walk" /\ Top(c).rest # <<>>
    /\ Known(c, Head(Top(c).rest))
    /\ Step(t, SkippedImport(c))
    /\ UNCHANGED programCache

VisitImport(t) ==
    LET c == call[t] IN
    /\ c.pc = "walk" /\ Top(c).rest # <<>>
    /\ ~Known(c, Head(Top(c).rest))
    /\ Step(t, VisitedImport(c, Head(Top(c).rest)))
    /\ UNCHANGED programCache

FinishImport(t) ==
    LET c == call[t] IN
    /\ c.pc = "walk" /\ Top(c).rest = <<>>
    /\ Len(c.stack) > 1
    /\ Step(t, Finished(c))
    /\ UNCHANGED programCache

\* collectImports returns to its caller.
FinishRoot(t) ==
    LET c == call[t] IN
    /\ c.pc = "walk" /\ Top(c).rest = <<>>
    /\ Len(c.stack) = 1
    /\ Step(t, IF c.op = "imports"
               THEN Ended(c, "ok")
               ELSE [c EXCEPT !.pc = "parse"])
    /\ UNCHANGED programCache

-----------------------------------------------------------------------------
(* aleo_authorize                                                          *)

\* json.Marshal of a nil slice is null, which is no array of strings.
MarshalledAsArray(inputs) == inputs = "given"

\* The inputs are read here and nowhere else, so here is where they are chosen.
ParseInputs(t) ==
    LET c == call[t] IN
    /\ c.pc = "parse"
    /\ \E inputs \in Inputs :
         Step(t, IF MarshalledAsArray(inputs)
                 THEN [c EXCEPT !.pc = "add", !.process = {Credits}]
                 ELSE Ended(c, "inputs"))
    /\ UNCHANGED programCache

\* Process::add_program: the program is new and its imports are there.
Accepts(process, p, s) == p \notin process /\ Range(s) \subseteq process

AddImport(t) ==
    LET c == call[t]
        next == c.ordered[c.added + 1]
    IN
    /\ c.pc = "add" /\ c.added < Len(c.ordered)
    /\ Step(t, IF Accepts(c.process, next.prog, next.source)
               THEN [c EXCEPT !.added = @ + 1, !.process = @ \cup {next.prog}]
               ELSE Ended(c, "import"))
    /\ UNCHANGED programCache

\* The target is added and authorized, which may fail for reasons of its own.
AddTarget(t) ==
    LET c == call[t]
        root == c.stack[1]
    IN
    /\ c.pc = "add" /\ c.added = Len(c.ordered)
    /\ \E result \in IF Accepts(c.process, root.prog, root.source)
                     THEN {"ok", "refused"}
                     ELSE {"target"} :
         Step(t, Ended(c, result))
    /\ UNCHANGED programCache

Advance(t) ==
    \/ CacheHit(t) \/ Request(t) \/ NodeAnswers(t) \/ FetchFails(t) \/ AnswerArrives(t)
    \/ SkipImport(t) \/ VisitImport(t) \/ FinishImport(t) \/ FinishRoot(t)
    \/ ParseInputs(t) \/ AddImport(t) \/ AddTarget(t)

Begin(t) == Authorize(t) \/ AuthorizeWithoutKey(t) \/ GetProgramImports(t)

Next == Upgrade \/ \E t \in Tasks : Begin(t) \/ Advance(t)

Spec == Init /\ [][Next]_vars

\* A call that runs is scheduled, and a request ends: the HTTP client has a timeout.
FairSpec == Spec /\ \A t \in Tasks : WF_vars(Advance(t))

-----------------------------------------------------------------------------
(* Properties                                                              *)

\* What task t has read: the resolved programs and the ones it is in.
ReadBy(t) ==
    Range(call[t].ordered)
    \cup {[prog |-> f.prog, source |-> f.source] : f \in Range(call[t].stack)}

ImportsOf(r) == Range(r.source) \ {Credits}

\* No programs import each other, as far as task t has read.
Acyclic(t) ==
    \A S \in (SUBSET Programs) \ {{}} :
        \E p \in S : \A r \in ReadBy(t) : r.prog = p => ImportsOf(r) \cap S = {}

(***************************************************************************)
(* "dependency order (leaves first)": of sources without a cycle, each     *)
(* comes after all that it imports, whatever the other calls put in the    *)
(* cache and however the node's programs change (collectImports).          *)
(***************************************************************************)
DependencyOrder ==
    \A t \in Tasks :
        \/ \A i \in 1..Len(call[t].ordered) :
              ImportsOf(call[t].ordered[i])
                  \subseteq {call[t].ordered[j].prog : j \in 1..(i - 1)}
        \/ ~Acyclic(t)

(***************************************************************************)
(* An import is resolved once: it is in the result or being walked, and    *)
(* not twice.  So the recursion of collectImports ends even on a cycle.    *)
(***************************************************************************)
ResolvedOnce ==
    \A t \in Tasks :
        LET names == [i \in 1..Len(call[t].ordered) |-> call[t].ordered[i].prog]
                     \o [i \in 1..(Len(call[t].stack) - 1) |-> call[t].stack[i + 1].prog]
        IN  IsInjective(names)

(***************************************************************************)
(* The result has the imports of the root and of everything in it, and     *)
(* nothing that is not needed: no smaller set has them (collectImports).   *)
(***************************************************************************)
ImportsComplete ==
    \A t \in Tasks : call[t].pc = "add" \/ (call[t].op = "imports" /\ call[t].result = "ok") =>
        LET c == call[t]
            names == {r.prog : r \in Range(c.ordered)}
            Closed(S) ==
                /\ ImportsOf(c.stack[1]) \subseteq S
                /\ \A r \in Range(c.ordered) : r.prog \in S => ImportsOf(r) \subseteq S
        IN  /\ Closed(names)
            /\ \A S \in SUBSET names : Closed(S) => S = names

(***************************************************************************)
(* With the cache, a call asks the node for a program at most once, also   *)
(* for the root, which is not marked as visited (fetchProgramCached).      *)
(***************************************************************************)
RequestedOnce ==
    \A t \in Tasks : call[t].cached => IsInjective(call[t].requests)

(***************************************************************************)
(* What a call without a cache uses, the node had for that program while   *)
(* the call ran, or it was given.  What one with a cache uses may be older:*)
(* the program may have been upgraded, but the node had it while some call *)
(* with the cache ran (fetchProgramCached).                                *)
(***************************************************************************)
SourcesWereDeployed ==
    \A t \in Tasks : \A r \in ReadBy(t) :
        \E u \in Tasks :
            /\ r.source \in during[u][r.prog]
            /\ IF call[t].cached THEN call[u].cached ELSE u = t

(***************************************************************************)
(* An authorization of programs that have no cycle is not refused for the  *)
(* inputs' encoding or for the order of the imports: aleo_authorize gets   *)
(* "a JSON array" and imports "in dependency order" (bridge.go).           *)
(***************************************************************************)
SoundCallAccepted ==
    \A t \in Tasks :
        /\ call[t].result # "inputs"
        /\ call[t].result \in {"import", "target"} => ~Acyclic(t)

\* What is left of a call: programs to find, what it does, its stack, and a line or import.
Stage(pc) ==
    CASE pc = "load" -> 6 [] pc = "request" -> 5 [] pc = "answered" -> 4
      [] pc = "walk" -> 3 [] pc = "parse" -> 2 [] pc = "add" -> 1 [] OTHER -> 0

Left(c) ==
    IF c.pc = "done" THEN <<0, 0, 0, 0>>
    ELSE <<Cardinality(Programs \ c.visited), Stage(c.pc), Len(c.stack),
           CASE c.pc = "walk" -> Len(Top(c).rest)
             [] c.pc = "add" -> Len(c.ordered) - c.added
             [] OTHER -> 0>>

LessLeft(m, n) ==
    \E i \in 1..4 : m[i] < n[i] /\ \A j \in 1..(i - 1) : m[j] = n[j]

(***************************************************************************)
(* Each step of a call leaves less to do, also on programs that import     *)
(* each other: the recursion of collectImports cannot go on for ever.      *)
(***************************************************************************)
StepsLeaveLess ==
    [][\A t \in Tasks : call[t].pc # "idle" /\ call'[t] # call[t]
            => LessLeft(Left(call'[t]), Left(call[t]))]_vars

(***************************************************************************)
(* Every call returns, also on programs that import each other.            *)
(***************************************************************************)
CallsEnd == \A t \in Tasks : call[t].pc # "idle" ~> call[t].pc = "done"

=============================================================================
