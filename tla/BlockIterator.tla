---------------------------- MODULE BlockIterator ----------------------------
(***************************************************************************)
(* The streaming iterator over a range of blocks (BlockIterator of         *)
(* network_client.go).  A block is its height, heights are uint64: numbers *)
(* below W, with additions that wrap.                                      *)
(***************************************************************************)
EXTENDS Integers, Sequences

CONSTANTS
    W,            \* 2^64
    BatchSize,    \* defaultBlockBatchSize
    Starts, Ends  \* the ranges an iterator is created for

ASSUME SizeAssumption == W \in Nat \ {0} /\ BatchSize \in 1..W
ASSUME RangeAssumption == Starts \subseteq 0..(W - 1) /\ Ends \subseteq 0..(W - 1)

VARIABLES
    start,        \* the first height of the range
    cur, end,     \* the fields of the iterator
    buf, bufIdx,
    err,
    returned,     \* what the last Next returned
    yielded,      \* the blocks that Block has shown, in order
    short         \* the node has answered with fewer blocks than asked for

vars == <<start, cur, end, buf, bufIdx, err, returned, yielded, short>>

\* The batch ends at BatchSize blocks, or with the range.
Unclamped(height) == (height + BatchSize - 1) % W

\* Mutant: the last batch is as long as the others.
Overruns(height) == Unclamped(height)

BatchEnd(height) ==
    IF Unclamped(height) > end THEN end ELSE Unclamped(height)

\* Mutant: the next batch starts one block too late.
SkipsOne(last) == (last + 2) % W

After(last) == (last + 1) % W

\* GetBlockRange: the first n of the blocks from first to last, which may be
\* fewer than asked for when the node has no more.
Blocks(first, n) == [i \in 1..n |-> first + i - 1]

Asked(first, last) == IF last >= first THEN last - first + 1 ELSE 0

TypeOK ==
    /\ start \in 0..(W - 1) /\ cur \in 0..(W - 1) /\ end \in 0..(W - 1)
    /\ buf \in Seq(Int)
    /\ bufIdx \in 0..Len(buf)
    /\ err \in BOOLEAN
    /\ returned \in {"nothing", "true", "false"}
    /\ yielded \in Seq(Int)
    /\ short \in BOOLEAN

Init ==
    /\ start \in Starts
    /\ cur = start
    /\ end \in Ends
    /\ buf = <<>>
    /\ bufIdx = 0
    /\ err = FALSE
    /\ returned = "nothing"
    /\ yielded = <<>>
    /\ short = FALSE

\* Mutant: bufIdx is advanced twice.
YieldAdvancesTwice(blocks, i) ==
    /\ yielded' = Append(yielded, blocks[i])
    /\ bufIdx' = i + 1
    /\ returned' = "true"

Yield(blocks, i) ==
    /\ yielded' = Append(yielded, blocks[i])
    /\ bufIdx' = i
    /\ returned' = "true"

ReturnFalse == returned' = "false" /\ UNCHANGED yielded

NextStops ==
    /\ err \/ (bufIdx = Len(buf) /\ cur > end)
    /\ ReturnFalse
    /\ UNCHANGED <<start, cur, end, buf, bufIdx, err, short>>

NextBuffered ==
    /\ ~err
    /\ bufIdx < Len(buf)
    /\ Yield(buf, bufIdx + 1)
    /\ UNCHANGED <<start, cur, end, buf, err, short>>

NeedsBatch == ~err /\ bufIdx = Len(buf) /\ cur <= end

NextFails ==
    /\ NeedsBatch
    /\ err' = TRUE
    /\ ReturnFalse
    /\ UNCHANGED <<start, cur, end, buf, bufIdx, short>>

NextFetches ==
    /\ NeedsBatch
    /\ \E n \in 0..Asked(cur, BatchEnd(cur)) :
         /\ buf' = Blocks(cur, n)
         /\ short' = (short \/ n < Asked(cur, BatchEnd(cur)))
         /\ \/ n > 0 /\ Yield(Blocks(cur, n), 1)
            \/ n = 0 /\ bufIdx' = 0 /\ ReturnFalse
    /\ cur' = After(BatchEnd(cur))
    /\ UNCHANGED <<start, end, err>>

Next == NextStops \/ NextBuffered \/ NextFails \/ NextFetches

Spec == Init /\ [][Next]_vars

-----------------------------------------------------------------------------
(* Properties                                                              *)

(***************************************************************************)
(* The blocks come in order, none twice and none from outside the range,   *)
(* even when the node answers with fewer than it was asked for: batches    *)
(* neither overlap nor run over the end (Next).                            *)
(***************************************************************************)
InOrder ==
    /\ \A i \in 1..Len(yielded) : yielded[i] \in start..end
    /\ \A i, j \in 1..Len(yielded) : i < j => yielded[i] < yielded[j]

(***************************************************************************)
(* "Returns false when done or on error": when Next returns false without  *)
(* an error, the blocks from start to end have all been shown, or the node *)
(* did not give all of them.                                               *)
(***************************************************************************)
NothingMissed ==
    returned = "false" /\ ~err /\ ~short => yielded = Blocks(start, end - start + 1)

=============================================================================
