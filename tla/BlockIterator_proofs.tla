------------------------- MODULE BlockIterator_proofs -------------------------
(* Theorems about BlockIterator and their proofs. *)
EXTENDS BlockIterator, TLAPS

\* No batch of the range wraps around W: the last height of every range is at
\* least a batch away from the largest uint64.
NoWrap == \A e \in Ends : e + BatchSize < W

LEMMA NoModulus ==
    ASSUME NEW x \in 0..(W - 1)
    PROVE  x % W = x
BY SizeAssumption, Z3

\* Where a batch ends and the next begins, as long as nothing wraps.
LEMMA BatchBounds ==
    ASSUME NEW height \in Nat, end \in Nat, end + BatchSize < W, height <= end
    PROVE  /\ BatchEnd(height) \in height..end
           /\ After(BatchEnd(height)) = BatchEnd(height) + 1
<1>1. height + BatchSize - 1 \in 0..(W - 1)
  BY SizeAssumption
<1>2. Unclamped(height) = height + BatchSize - 1
  BY <1>1, NoModulus DEF Unclamped
<1>3. BatchEnd(height) \in height..end
  BY <1>2, SizeAssumption DEF BatchEnd
<1>4. BatchEnd(height) + 1 \in 0..(W - 1)
  BY <1>3, SizeAssumption
<1>5. QED
  BY <1>3, <1>4, NoModulus DEF After

LEMMA BlocksAreASequence ==
    ASSUME NEW first \in Int, NEW n \in Nat
    PROVE  /\ Blocks(first, n) \in Seq(Int)
           /\ Len(Blocks(first, n)) = n
           /\ \A i \in 1..n : Blocks(first, n)[i] = first + i - 1
<1>1. Blocks(first, n) \in [1..n -> Int]
  BY DEF Blocks
<1>2. QED
  BY <1>1 DEF Blocks

LEMMA AskedBounds ==
    ASSUME NEW first \in Nat, NEW last \in Nat, first <= last
    PROVE  Asked(first, last) = last - first + 1
BY DEF Asked

LEMMA AppendProperties ==
    ASSUME NEW s \in Seq(Int), NEW x \in Int
    PROVE  /\ Append(s, x) \in Seq(Int)
           /\ Len(Append(s, x)) = Len(s) + 1
           /\ \A i \in 1..Len(s) : Append(s, x)[i] = s[i]
           /\ Append(s, x)[Len(s) + 1] = x
           /\ \A i \in 1..(Len(s) + 1) : i \in 1..Len(s) \/ i = Len(s) + 1
OBVIOUS

-----------------------------------------------------------------------------
(* Every range                                                             *)

LEMMA WrapsIntoRange ==
    ASSUME NEW x \in Int
    PROVE  x % W \in 0..(W - 1)
BY SizeAssumption, Z3

LEMMA TypeInv == ASSUME TypeOK, [Next]_vars PROVE TypeOK'
<1>1. CASE NextStops \/ NextFails \/ UNCHANGED vars
  BY <1>1 DEF NextStops, NextFails, ReturnFalse, vars, TypeOK
<1>2. CASE NextBuffered
  <2>1. bufIdx + 1 \in 1..Len(buf) /\ buf[bufIdx + 1] \in Int
    BY <1>2 DEF NextBuffered, TypeOK
  <2>2. QED
    BY <1>2, <2>1, AppendProperties DEF NextBuffered, Yield, TypeOK
<1>3. CASE NextFetches
  <2>1. BatchEnd(cur) \in Int /\ BatchEnd(cur) + 1 \in Int /\ cur \in Int
    <3>1. cur + BatchSize - 1 \in Int
      BY SizeAssumption DEF TypeOK
    <3>2. QED
      BY <3>1, WrapsIntoRange DEF BatchEnd, Unclamped, TypeOK
  <2>2. cur' \in 0..(W - 1)
    BY <1>3, <2>1, WrapsIntoRange DEF NextFetches, After
  <2>3. PICK n \in 0..Asked(cur, BatchEnd(cur)) :
          /\ buf' = Blocks(cur, n)
          /\ short' = (short \/ n < Asked(cur, BatchEnd(cur)))
          /\ \/ n > 0 /\ Yield(Blocks(cur, n), 1)
             \/ n = 0 /\ bufIdx' = 0 /\ ReturnFalse
    BY <1>3 DEF NextFetches
  <2>4. n \in Nat
    BY <2>1, <2>3 DEF Asked
  <2>5. /\ buf' \in Seq(Int) /\ Len(buf') = n
        /\ \A i \in 1..n : buf'[i] = cur + i - 1
    BY <2>1, <2>3, <2>4, BlocksAreASequence
  <2>6. short' \in BOOLEAN
    BY <2>3
  <2>7. bufIdx' \in 0..Len(buf') /\ returned' \in {"true", "false"} /\ yielded' \in Seq(Int)
    <3>1. CASE n > 0 /\ Yield(buf', 1)
      <4>1. buf'[1] \in Int
        BY <2>1, <2>4, <2>5, <3>1
      <4>2. QED
        BY <2>4, <2>5, <3>1, <4>1, AppendProperties DEF Yield, TypeOK
    <3>2. CASE n = 0 /\ bufIdx' = 0 /\ ReturnFalse
      BY <2>5, <3>2 DEF ReturnFalse, TypeOK
    <3>3. QED
      BY <2>3, <3>1, <3>2
  <2>8. UNCHANGED <<start, end, err>>
    BY <1>3 DEF NextFetches
  <2>9. QED
    BY <2>2, <2>5, <2>6, <2>7, <2>8 DEF TypeOK
<1>4. QED
  BY <1>1, <1>2, <1>3 DEF Next

\* Heights stay uint64 and the index stays in the buffer, also where the range wraps.
THEOREM IteratorTypeOK == Spec => []TypeOK
<1>1. ASSUME Init PROVE TypeOK
  <2>1. start \in 0..(W - 1) /\ end \in 0..(W - 1)
    BY <1>1, RangeAssumption DEF Init
  <2>2. buf \in Seq(Int) /\ yielded \in Seq(Int) /\ bufIdx \in 0..Len(buf)
    BY <1>1 DEF Init
  <2>3. QED
    BY <1>1, <2>1, <2>2 DEF Init, TypeOK
<1>2. QED
  BY <1>1, TypeInv, PTL DEF Spec

-----------------------------------------------------------------------------
(* Any node                                                                *)

\* What has been fetched lies behind cur, and what has been shown behind what is
\* left of the buffer.
Reading ==
    /\ start \in Nat /\ end \in Nat /\ cur \in Nat /\ start <= cur
    /\ end + BatchSize < W
    /\ cur <= end + 1 \/ cur = start
    /\ buf \in Seq(Int) /\ bufIdx \in 0..Len(buf) /\ yielded \in Seq(Int)
    /\ \A i \in 1..Len(buf) : buf[i] \in start..end /\ buf[i] < cur
    /\ \A i, j \in 1..Len(buf) : i < j => buf[i] < buf[j]
    /\ \A i \in 1..Len(yielded) : yielded[i] \in start..end /\ yielded[i] < cur
    /\ \A i, j \in 1..Len(yielded) : i < j => yielded[i] < yielded[j]
    /\ \A i \in 1..Len(yielded), j \in (bufIdx + 1)..Len(buf) : yielded[i] < buf[j]

LEMMA ReadingInit == ASSUME NoWrap, Init PROVE Reading
<1>1. end + BatchSize < W /\ start \in Nat /\ end \in Nat
  BY RangeAssumption DEF Init, NoWrap
<1>2. QED
  BY <1>1 DEF Init, Reading

LEMMA ReadingInv == ASSUME Reading, [Next]_vars PROVE Reading'
<1>1. CASE NextStops \/ NextFails \/ UNCHANGED vars
  BY <1>1 DEF NextStops, NextFails, ReturnFalse, vars, Reading
<1>2. CASE NextBuffered
  <2>1. bufIdx + 1 \in 1..Len(buf) /\ buf[bufIdx + 1] \in Int
    BY <1>2 DEF NextBuffered, Reading
  <2>2. /\ yielded' = Append(yielded, buf[bufIdx + 1])
        /\ bufIdx' = bufIdx + 1
        /\ UNCHANGED <<start, cur, end, buf>>
    BY <1>2 DEF NextBuffered, Yield
  <2>3. /\ yielded' \in Seq(Int) /\ Len(yielded') = Len(yielded) + 1
        /\ \A i \in 1..Len(yielded) : yielded'[i] = yielded[i]
        /\ yielded'[Len(yielded) + 1] = buf[bufIdx + 1]
        /\ \A i \in 1..Len(yielded') : i \in 1..Len(yielded) \/ i = Len(yielded) + 1
    BY <2>1, <2>2, AppendProperties DEF Reading
  <2>4. QED
    BY <2>1, <2>2, <2>3 DEF Reading
<1>3. CASE NextFetches
  <2>1. cur \in start..end /\ bufIdx = Len(buf)
    BY <1>3 DEF NextFetches, NeedsBatch, Reading
  <2>2. BatchEnd(cur) \in cur..end /\ cur' = BatchEnd(cur) + 1
    BY <1>3, <2>1, BatchBounds DEF NextFetches, Reading
  <2>3. PICK n \in 0..Asked(cur, BatchEnd(cur)) :
          /\ buf' = Blocks(cur, n)
          /\ short' = (short \/ n < Asked(cur, BatchEnd(cur)))
          /\ \/ n > 0 /\ Yield(Blocks(cur, n), 1)
             \/ n = 0 /\ bufIdx' = 0 /\ ReturnFalse
    BY <1>3 DEF NextFetches
  <2>4. n \in 0..(BatchEnd(cur) - cur + 1)
    BY <2>1, <2>2, AskedBounds DEF Reading
  <2>5. /\ buf' \in Seq(Int) /\ Len(buf') = n
        /\ \A i \in 1..n : buf'[i] = cur + i - 1
    <3>1. cur \in Int /\ n \in Nat /\ buf' = Blocks(cur, n)
      BY <2>1, <2>2, <2>3, <2>4 DEF Reading
    <3>2. QED
      BY <3>1, BlocksAreASequence
  <2>6. /\ \A i \in 1..n : buf'[i] \in start..end /\ buf'[i] < cur' /\ cur <= buf'[i]
        /\ \A i, j \in 1..n : i < j => buf'[i] < buf'[j]
    BY <2>1, <2>2, <2>4, <2>5 DEF Reading
  <2>7. UNCHANGED <<start, end>>
    BY <1>3 DEF NextFetches
  <2>8. CASE n = 0
    BY <2>1, <2>2, <2>3, <2>5, <2>6, <2>7, <2>8 DEF Reading, ReturnFalse, Yield
  <2>9. CASE n > 0
    <3>1. yielded' = Append(yielded, cur) /\ bufIdx' = 1
      <4>1. Yield(buf', 1)
        BY <2>3, <2>9
      <4>2. buf'[1] = cur
        BY <2>1, <2>4, <2>5, <2>9 DEF Reading
      <4>3. QED
        BY <4>1, <4>2 DEF Yield
    <3>2. /\ yielded' \in Seq(Int) /\ Len(yielded') = Len(yielded) + 1
          /\ \A i \in 1..Len(yielded) : yielded'[i] = yielded[i]
          /\ yielded'[Len(yielded) + 1] = cur
          /\ \A i \in 1..Len(yielded') : i \in 1..Len(yielded) \/ i = Len(yielded) + 1
      BY <2>1, <3>1, AppendProperties DEF Reading
    <3>3. \A j \in 2..n : cur < buf'[j]
      BY <2>1, <2>5 DEF Reading
    <3>4. ASSUME NEW i \in 1..Len(yielded')
          PROVE  yielded'[i] \in start..end /\ yielded'[i] <= cur
      <4>1. CASE i \in 1..Len(yielded)
        <5>1. yielded[i] \in start..end /\ yielded[i] < cur
          BY <4>1 DEF Reading
        <5>2. yielded'[i] = yielded[i]
          BY <3>2, <4>1
        <5>3. cur \in Int /\ start \in Int /\ end \in Int
          BY DEF Reading
        <5>4. QED
          BY <5>1, <5>2, <5>3
      <4>2. CASE i = Len(yielded) + 1
        BY <2>1, <3>2, <4>2
      <4>3. QED
        BY <3>2, <4>1, <4>2
    <3>5. ASSUME NEW i \in 1..Len(yielded'), NEW j \in 1..Len(yielded'), i < j
          PROVE  yielded'[i] < yielded'[j]
      <4>1. i \in 1..Len(yielded)
        BY <3>2, <3>5 DEF Reading
      <4>2. CASE j \in 1..Len(yielded)
        BY <3>2, <3>5, <4>1, <4>2 DEF Reading
      <4>3. CASE j = Len(yielded) + 1
        BY <3>2, <4>1, <4>3 DEF Reading
      <4>4. QED
        BY <3>2, <4>2, <4>3
    <3>6. ASSUME NEW i \in 1..Len(yielded'), NEW j \in 2..n
          PROVE  yielded'[i] < buf'[j]
      <4>1. yielded'[i] \in Int /\ yielded'[i] <= cur
        BY <3>4
      <4>2. cur < buf'[j] /\ buf'[j] \in Int /\ cur \in Int
        BY <2>1, <2>4, <2>6, <3>3 DEF Reading
      <4>3. QED
        BY <4>1, <4>2
    <3>7. cur' \in Nat /\ cur' <= end + 1 /\ cur < cur' /\ start <= cur' /\ cur \in Nat
      BY <2>1, <2>2 DEF Reading
    <3>8. \A i \in 1..Len(yielded') : yielded'[i] \in start..end /\ yielded'[i] < cur'
      BY <3>4, <3>7
    <3>9. bufIdx' \in 0..Len(buf') /\ (bufIdx' + 1)..Len(buf') = 2..n
      BY <2>4, <2>5, <2>9, <3>1
    <3>10. QED
      BY <2>5, <2>6, <2>7, <3>2, <3>5, <3>6, <3>7, <3>8, <3>9 DEF Reading
  <2>10. QED
    BY <2>4, <2>8, <2>9
<1>4. QED
  BY <1>1, <1>2, <1>3 DEF Next

\* The iterator shows blocks of its range in strictly increasing order, whatever
\* the node answers, for every range that ends a batch before the largest uint64.
THEOREM IteratorInOrder == ASSUME NoWrap PROVE Spec => []InOrder
<1>1. Init => Reading
  BY ReadingInit
<1>2. Reading /\ [Next]_vars => Reading'
  BY ReadingInv
<1>3. Reading => InOrder
  BY DEF Reading, InOrder
<1>4. QED
  BY <1>1, <1>2, <1>3, PTL DEF Spec

-----------------------------------------------------------------------------
(* A node that has given every block                                       *)

\* What has been shown, followed by what is left of the buffer, are the blocks
\* from start to just before cur.
Gapless ==
    /\ \A i \in 1..Len(yielded) : yielded[i] = start + i - 1
    /\ \A j \in 1..Len(buf) : buf[j] = cur - Len(buf) + j - 1
    /\ Len(yielded) + (Len(buf) - bufIdx) = cur - start
    /\ returned = "false" /\ ~err => bufIdx = Len(buf) /\ cur > end

LEMMA GaplessInv ==
    ASSUME Reading, Gapless, ~short', [Next]_vars
    PROVE  Gapless'
<1>1. CASE NextStops \/ NextFails \/ UNCHANGED vars
  BY <1>1 DEF NextStops, NextFails, ReturnFalse, vars, Gapless
<1>2. CASE NextBuffered
  <2>1. bufIdx + 1 \in 1..Len(buf) /\ buf[bufIdx + 1] \in Int
    BY <1>2 DEF NextBuffered, Reading
  <2>2. /\ yielded' = Append(yielded, buf[bufIdx + 1])
        /\ bufIdx' = bufIdx + 1 /\ returned' = "true"
        /\ UNCHANGED <<start, cur, end, buf>>
    BY <1>2 DEF NextBuffered, Yield
  <2>3. /\ Len(yielded') = Len(yielded) + 1
        /\ \A i \in 1..Len(yielded) : yielded'[i] = yielded[i]
        /\ yielded'[Len(yielded) + 1] = buf[bufIdx + 1]
        /\ \A i \in 1..Len(yielded') : i \in 1..Len(yielded) \/ i = Len(yielded) + 1
    BY <2>1, <2>2, AppendProperties DEF Reading
  <2>4. buf[bufIdx + 1] = start + Len(yielded)
    <3>1. buf[bufIdx + 1] = cur - Len(buf) + (bufIdx + 1) - 1
      BY <2>1 DEF Gapless
    <3>2. Len(buf) \in Nat /\ Len(yielded) \in Nat
      BY DEF Reading
    <3>3. QED
      BY <3>1, <3>2 DEF Reading, Gapless
  <2>5. Len(buf) \in Nat /\ Len(yielded) \in Nat
    BY DEF Reading
  <2>6. ASSUME NEW i \in 1..Len(yielded')
        PROVE  yielded'[i] = start + i - 1
    <3>1. CASE i \in 1..Len(yielded)
      BY <2>3, <3>1 DEF Gapless
    <3>2. CASE i = Len(yielded) + 1
      BY <2>3, <2>4, <2>5, <3>2 DEF Reading
    <3>3. QED
      BY <2>3, <3>1, <3>2
  <2>7. Len(yielded') + (Len(buf) - (bufIdx + 1)) = cur - start
    <3>1. Len(yielded') = Len(yielded) + 1
      BY <2>3
    <3>2. /\ Len(yielded) + (Len(buf) - bufIdx) = cur - start
          /\ bufIdx \in Int /\ cur \in Int /\ start \in Int
      BY DEF Reading, Gapless
    <3>3. QED
      BY <2>5, <3>1, <3>2
  <2>8. QED
    BY <2>2, <2>6, <2>7 DEF Gapless
<1>3. CASE NextFetches
  <2>1. cur \in start..end /\ bufIdx = Len(buf)
    BY <1>3 DEF NextFetches, NeedsBatch, Reading
  <2>2. BatchEnd(cur) \in cur..end /\ cur' = BatchEnd(cur) + 1
    BY <1>3, <2>1, BatchBounds DEF NextFetches, Reading
  <2>3. PICK n \in 0..Asked(cur, BatchEnd(cur)) :
          /\ buf' = Blocks(cur, n)
          /\ short' = (short \/ n < Asked(cur, BatchEnd(cur)))
          /\ \/ n > 0 /\ Yield(Blocks(cur, n), 1)
             \/ n = 0 /\ bufIdx' = 0 /\ ReturnFalse
    BY <1>3 DEF NextFetches
  <2>4. n = BatchEnd(cur) - cur + 1 /\ n > 0
    <3>1. Asked(cur, BatchEnd(cur)) = BatchEnd(cur) - cur + 1
      BY <2>1, <2>2, AskedBounds DEF Reading
    <3>2. ~(n < Asked(cur, BatchEnd(cur)))
      BY <2>3
    <3>3. QED
      BY <2>1, <2>2, <3>1, <3>2 DEF Reading
  <2>5. /\ Len(buf') = n
        /\ \A i \in 1..n : buf'[i] = cur + i - 1
    <3>1. cur \in Int /\ n \in Nat /\ buf' = Blocks(cur, n)
      BY <2>1, <2>2, <2>3, <2>4 DEF Reading
    <3>2. QED
      BY <3>1, BlocksAreASequence
  <2>6. yielded' = Append(yielded, cur) /\ bufIdx' = 1 /\ returned' = "true"
    <3>1. Yield(buf', 1)
      BY <2>3, <2>4
    <3>2. buf'[1] = cur
      BY <2>1, <2>4, <2>5 DEF Reading
    <3>3. QED
      BY <3>1, <3>2 DEF Yield
  <2>7. /\ Len(yielded') = Len(yielded) + 1
        /\ \A i \in 1..Len(yielded) : yielded'[i] = yielded[i]
        /\ yielded'[Len(yielded) + 1] = cur
        /\ \A i \in 1..Len(yielded') : i \in 1..Len(yielded) \/ i = Len(yielded) + 1
    BY <2>1, <2>6, AppendProperties DEF Reading
  <2>8. /\ UNCHANGED start /\ cur = start + Len(yielded)
        /\ Len(yielded) \in Nat /\ start \in Nat
    BY <1>3, <2>1 DEF NextFetches, Gapless, Reading
  <2>9. ASSUME NEW i \in 1..Len(yielded')
        PROVE  yielded'[i] = start + i - 1
    <3>1. CASE i \in 1..Len(yielded)
      BY <2>7, <3>1 DEF Gapless
    <3>2. CASE i = Len(yielded) + 1
      BY <2>7, <2>8, <3>2
    <3>3. QED
      BY <2>7, <3>1, <3>2
  <2>10. BatchEnd(cur) \in Int /\ cur \in Int /\ n \in Int
    BY <2>1, <2>2, <2>4 DEF Reading
  <2>11. cur' = cur + n
    BY <2>2, <2>4, <2>10
  <2>12. /\ \A j \in 1..n : buf'[j] = cur' - n + j - 1
         /\ Len(yielded') + (n - 1) = cur' - start
    <3>1. ASSUME NEW j \in 1..n
          PROVE  buf'[j] = cur' - n + j - 1
      <4>1. buf'[j] = cur + j - 1
        BY <2>5
      <4>2. QED
        BY <2>10, <2>11, <4>1
    <3>2. Len(yielded') = Len(yielded) + 1
      BY <2>7
    <3>3. QED
      BY <2>8, <2>10, <2>11, <3>1, <3>2
  <2>13. QED
    BY <2>5, <2>6, <2>8, <2>9, <2>12 DEF Gapless
<1>4. QED
  BY <1>1, <1>2, <1>3 DEF Next

\* A loop that ends without an error has seen every block of the range, once, in
\* order, unless the node gave fewer than it was asked for.
THEOREM IteratorComplete == ASSUME NoWrap PROVE Spec => []NothingMissed
<1>1. Init => Reading /\ Gapless /\ ~short
  <2>1. ASSUME Init
        PROVE  Reading /\ Len(<<>>) = 0 /\ yielded = <<>> /\ buf = <<>> /\ bufIdx = 0
               /\ cur = start /\ returned = "nothing" /\ ~short
    BY <2>1, ReadingInit DEF Init
  <2>2. QED
    BY <2>1 DEF Gapless, Reading
<1>2. Reading /\ (short \/ Gapless) /\ [Next]_vars => Reading' /\ (short' \/ Gapless')
  <2>1. Next => (short => short')
    BY DEF Next, NextStops, NextBuffered, NextFails, NextFetches
  <2>2. [Next]_vars => (short => short')
    BY <2>1 DEF vars
  <2>3. QED
    BY <2>2, ReadingInv, GaplessInv
<1>3. ASSUME Reading, Gapless, returned = "false", ~err
      PROVE  yielded = Blocks(start, end - start + 1)
  <2>1. 1..Len(yielded) = 1..(end - start + 1)
    <3>1. Len(yielded) = cur - start /\ cur > end /\ Len(yielded) \in Nat
      <4>1. Len(yielded) + (Len(buf) - bufIdx) = cur - start /\ bufIdx = Len(buf) /\ cur > end
        BY <1>3 DEF Gapless
      <4>2. Len(yielded) \in Nat /\ Len(buf) \in Nat /\ cur \in Int /\ start \in Int
        BY <1>3 DEF Reading
      <4>3. QED
        BY <4>1, <4>2
    <3>2. CASE cur = end + 1
      BY <1>3, <3>1, <3>2 DEF Reading
    <3>3. CASE cur = start
      BY <1>3, <3>1, <3>3 DEF Reading
    <3>4. QED
      BY <1>3, <3>1, <3>2, <3>3 DEF Reading
  <2>2. yielded = [i \in 1..Len(yielded) |-> yielded[i]]
    BY <1>3 DEF Reading
  <2>3. QED
    BY <1>3, <2>1, <2>2 DEF Gapless, Blocks
<1>4. QED
  BY <1>1, <1>2, <1>3, PTL DEF Spec, NothingMissed

=============================================================================
