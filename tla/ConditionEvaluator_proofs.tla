----------------------- MODULE ConditionEvaluator_proofs -----------------------
(***************************************************************************)
(* The evaluator, for any expressions, declared names and outcomes: it     *)
(* reads neither of the two vectors out of range, it gives a condition the *)
(* meaning that its expression has, it reports the leftmost operand that   *)
(* fails, and it evaluates the operands in order.                          *)
(***************************************************************************)
EXTENDS ConditionEvaluator, Ranks

----------------------------------------------------------------------------
\* Sequences as stacks.

\* The top of a stack and what is below it.
LEMMA TopAndRest ==
    ASSUME NEW S, NEW s \in Seq(S), s # <<>>
    PROVE  /\ Len(s) \in Nat \ {0}
           /\ Last(s) = s[Len(s)] /\ Last(s) \in S
           /\ Front(s) \in Seq(S)
           /\ Len(Front(s)) = Len(s) - 1
           /\ \A i \in 1 .. Len(s) - 1 : Front(s)[i] = s[i]
  <1>1. Len(s) \in Nat \ {0}
    BY EmptySeq
  <1>2. \A i \in 1 .. Len(s) : s[i] \in S
    BY ElementOfSeq
  <1> DEFINE f == SubSeq(s, 1, Len(s) - 1)
  <1>3. /\ f \in Seq(S)
        /\ Len(f) = IF 1 <= Len(s) - 1 THEN Len(s) - 1 - 1 + 1 ELSE 0
        /\ \A i \in 1 .. Len(s) - 1 - 1 + 1 : f[i] = s[1 + i - 1]
    <2>1. \A i \in 1 .. Len(s) - 1 : s[i] \in S
      BY <1>1, <1>2
    <2>2. 1 \in Int /\ Len(s) - 1 \in Int
      BY <1>1
    <2> QED
      BY <2>1, <2>2, SubSeqProperties
  <1>4. Front(s) = f
    BY DEF Front
  <1> HIDE DEF f
  <1>5. Len(f) = Len(s) - 1 /\ \A i \in 1 .. Len(s) - 1 : f[i] = s[i]
    <2>1. PICK n \in Nat : n = Len(s) /\ n > 0
      BY <1>1
    <2>2. \A i \in 1 .. n - 1 : i \in 1 .. n - 1 - 1 + 1 /\ 1 + i - 1 = i
      OBVIOUS
    <2>3. Len(f) = n - 1
      BY <1>3, <2>1
    <2> QED
      BY <1>3, <2>1, <2>2, <2>3
  <1>6. Last(s) = s[Len(s)] /\ Last(s) \in S
    BY <1>1, <1>2 DEF Last
  <1> QED
    BY <1>1, <1>3, <1>4, <1>5, <1>6

----------------------------------------------------------------------------
\* Ranges.

\* The `or' that the search finds, and that none is before it.
LEMMA FirstOrIsFirst ==
    ASSUME NEW c \in Call, HasOr(c)
    PROVE  /\ FirstOr(c) \in c.op .. c.opEnd - 1
           /\ isOR(FirstOr(c))
           /\ \A j \in c.op .. FirstOr(c) - 1 : ~isOR(j)
  <1> DEFINE ors == {k \in c.op .. c.opEnd - 1 : isOR(k)}
  <1>1. c.op \in Nat /\ c.opEnd \in Nat
    BY DEF Call
  <1>2. ors \subseteq Nat /\ ors # {}
    BY <1>1 DEF HasOr
  <1>3. PICK k \in ors : \A j \in ors : <<j, k>> \notin OpToRel(<, Nat)
    <2> HIDE DEF ors
    <2> QED
      BY <1>2, NatLessThanWellFounded, WFMin
  <1>4. \A j \in ors : ~(j < k)
    BY <1>2, <1>3 DEF OpToRel
  <1>5. \A j \in c.op .. k - 1 : ~isOR(j)
    BY <1>1, <1>4
  <1> QED
    BY <1>3, <1>5 DEF FirstOr

\* The fields of a call whose range is cut at either end.
LEMMA CutAtEnd ==
    ASSUME NEW T, NEW c \in [op : Nat, opEnd : Nat, opd : Nat, opdEnd : Nat, left : T],
           NEW k \in Nat, NEW i \in Nat,
           NEW d, d = [c EXCEPT !.opEnd = k, !.opdEnd = i]
    PROVE  /\ d \in [op : Nat, opEnd : Nat, opd : Nat, opdEnd : Nat, left : T]
           /\ d.op = c.op /\ d.opEnd = k /\ d.opd = c.opd /\ d.opdEnd = i
  OBVIOUS

LEMMA CutAtStart ==
    ASSUME NEW T, NEW c \in [op : Nat, opEnd : Nat, opd : Nat, opdEnd : Nat, left : T],
           NEW k \in Nat, NEW i \in Nat,
           NEW d, d = [c EXCEPT !.op = k, !.opd = i]
    PROVE  /\ d \in [op : Nat, opEnd : Nat, opd : Nat, opdEnd : Nat, left : T]
           /\ d.op = k /\ d.opEnd = c.opEnd /\ d.opd = i /\ d.opdEnd = c.opdEnd
  OBVIOUS

\* Both halves of a range with an `or' are in range, and neither is empty.
LEMMA HalvesInRange ==
    ASSUME NEW c, InRange(c), HasOr(c), Len(operators) \in Nat, Len(operands) \in Nat
    PROVE  /\ InRange([c EXCEPT !.opEnd = FirstOr(c), !.opdEnd = OperandSplit(c)])
           /\ InRange([c EXCEPT !.op = FirstOr(c) + 1, !.opd = OperandSplit(c)])
  <1>1. c \in Call
    BY DEF InRange
  <1>2. c.op \in Nat /\ c.opEnd \in Nat /\ c.opd \in Nat /\ c.opdEnd \in Nat
    BY <1>1 DEF Call
  <1>3. FirstOr(c) \in c.op .. c.opEnd - 1
    BY <1>1, FirstOrIsFirst
  <1>4. PICK op \in Nat, opEnd \in Nat, opd \in Nat, opdEnd \in Nat, k \in Nat,
             m \in Nat, n \in Nat :
           /\ op = c.op /\ opEnd = c.opEnd /\ opd = c.opd /\ opdEnd = c.opdEnd
           /\ k = FirstOr(c) /\ m = Len(operators) /\ n = Len(operands)
    <2>1. FirstOr(c) \in Nat
      BY <1>2, <1>3
    <2> QED
      BY <1>2, <2>1, Zenon
  <1>5. /\ 1 <= op /\ op <= k /\ k <= opEnd - 1 /\ opEnd <= m + 1
        /\ 1 <= opd /\ opd < opdEnd /\ opdEnd <= n + 1
        /\ opdEnd - opd = opEnd - op + 1
    BY <1>3, <1>4 DEF InRange
  <1>6. PICK i \in Nat : i = opd + (k - op) + 1
    BY <1>5
  <1>7. OperandSplit(c) = i
    BY <1>4, <1>6 DEF OperandSplit
  <1>8. /\ opd < i /\ i < opdEnd /\ i <= n + 1 /\ k <= m + 1 /\ k + 1 <= opEnd /\ 1 <= i
        /\ i - opd = k - op + 1
        /\ opdEnd - i = opEnd - (k + 1) + 1
        /\ 1 <= k + 1 /\ k + 1 \in Nat
    BY <1>5, <1>6
  <1> DEFINE L == [c EXCEPT !.opEnd = k, !.opdEnd = i]
             R == [c EXCEPT !.op = k + 1, !.opd = i]
  <1>9. /\ L \in Call
        /\ L.op = op /\ L.opEnd = k /\ L.opd = opd /\ L.opdEnd = i
    BY <1>1, <1>4, CutAtEnd DEF Call
  <1>10. /\ R \in Call
         /\ R.op = k + 1 /\ R.opEnd = opEnd /\ R.opd = i /\ R.opdEnd = opdEnd
    BY <1>1, <1>4, <1>8, CutAtStart DEF Call
  <1> HIDE DEF L, R
  <1>11. InRange(L)
    BY <1>4, <1>5, <1>8, <1>9 DEF InRange
  <1>12. InRange(R)
    BY <1>4, <1>5, <1>8, <1>10 DEF InRange
  <1> QED
    BY <1>4, <1>7, <1>11, <1>12 DEF L, R

\* Storing the left result changes no iterator.
LEMMA LeftKeepsRange ==
    ASSUME NEW c, InRange(c), NEW r \in Tuple
    PROVE  /\ InRange([c EXCEPT !.left = r])
           /\ HasOr(c) => HasOr([c EXCEPT !.left = r])
  BY DEF InRange, HasOr, Call

----------------------------------------------------------------------------
\* One lemma per group of actions.

\* What EvalIInv says of the calls, in the terms of a stack.
LEMMA Lengths ==
    ASSUME EvalIInv
    PROVE  /\ Len(operators) \in Nat /\ Len(operands) \in Nat /\ Len(calls) \in Nat
           /\ DOMAIN calls = 1 .. Len(calls)
           /\ calls # <<>> => /\ Len(calls) \in Nat \ {0}
                              /\ Current = calls[Len(calls)]
                              /\ InRange(Current)
                              /\ Front(calls) \in Seq(Call)
                              /\ Len(Front(calls)) = Len(calls) - 1
                              /\ \A k \in 1 .. Len(calls) - 1 : Front(calls)[k] = calls[k]
  <1>1. Len(operators) \in Nat /\ Len(operands) \in Nat
    BY LenProperties DEF EvalIInv, VectorsFit
  <1>2. calls \in Seq(Call)
    BY DEF EvalIInv, WaitingCallsSplit
  <1>3. Len(calls) \in Nat /\ DOMAIN calls = 1 .. Len(calls)
    BY <1>2, LenProperties
  <1>4. ASSUME calls # <<>>
        PROVE  /\ Len(calls) \in Nat \ {0}
               /\ Last(calls) = calls[Len(calls)]
               /\ Front(calls) \in Seq(Call)
               /\ Len(Front(calls)) = Len(calls) - 1
               /\ \A k \in 1 .. Len(calls) - 1 : Front(calls)[k] = calls[k]
    BY <1>2, <1>4, TopAndRest
  <1>5. ASSUME calls # <<>> PROVE InRange(calls[Len(calls)])
    <2>1. Len(calls) \in DOMAIN calls
      BY <1>3, <1>4, <1>5
    <2> QED
      BY <2>1 DEF EvalIInv, RangesMatch
  <1> QED
    BY <1>1, <1>3, <1>4, <1>5 DEF Current

\* A step that leaves the vectors and the outcomes alone keeps what is said of
\* them; what its calls must satisfy can be said before the step.
LEMMA VectorsStay ==
    ASSUME EvalIInv, UNCHANGED <<parserVars, outcome>>, status = "ok"
    PROVE  /\ VectorsFit'
           /\ outcome' \in [DOMAIN outcome' -> Outcome]
  BY DEF EvalIInv, VectorsFit, RangesMatch, parserVars

LEMMA CallsStay ==
    ASSUME UNCHANGED parserVars, calls' \in Seq(Call),
           \A k \in 1 .. Len(calls') : InRange(calls'[k]),
           \A k \in 1 .. Len(calls') - 1 : HasOr(calls'[k])
    PROVE  /\ (\A k \in DOMAIN calls : InRange(calls[k]))'
           /\ (\A k \in 1 .. Len(calls) - 1 : HasOr(calls[k]))'
  <1>1. DOMAIN calls' = 1 .. Len(calls')
    BY LenProperties
  <1>2. operators' = operators /\ operands' = operands
    BY DEF parserVars
  <1>3. (\A k \in DOMAIN calls : InRange(calls[k]))'
    BY <1>1, <1>2 DEF InRange
  <1>4. (\A k \in 1 .. Len(calls) - 1 : HasOr(calls[k]))'
    BY <1>2 DEF HasOr, isOR
  <1> QED
    BY <1>3, <1>4

LEMMA ParseKeepsInvariant ==
    ASSUME EvalIInv, Parse
    PROVE  EvalIInv'
  <1>1. status # "ok" /\ UNCHANGED evalVars
    BY DEF Parse, Parser!Step, Parser!RejectEmpty, Parser!RejectLeadingOperator,
       Parser!EnterLoop, Parser!RejectOperator, Parser!TakeOperator,
       Parser!RejectNegatedOperator, Parser!RejectUndeclared, Parser!TakeOperand,
       Parser!Finish, Parser!InLoop, Parser!PassesOperatorChecks, Parser!TermStarts
  <1>2. calls = <<>> /\ walk = NoWalk /\ returned = NoTuple
    BY <1>1 DEF EvalIInv, VectorsFit
  <1>3. VectorsFit'
    <2>1. operators' \in Seq({"and", "or"})
      <3>1. CASE Parser!TakeOperator
        BY <3>1, AppendProperties
        DEF EvalIInv, VectorsFit, Parser!TakeOperator, Parser!isBinaryOperator
      <3>2. CASE ~Parser!TakeOperator
        BY <3>2 DEF EvalIInv, VectorsFit, Parse, Parser!Step, Parser!RejectEmpty,
           Parser!RejectLeadingOperator, Parser!EnterLoop, Parser!RejectOperator,
           Parser!RejectNegatedOperator, Parser!RejectUndeclared, Parser!TakeOperand,
           Parser!Finish, Parser!Return
      <3> QED
        BY <3>1, <3>2
    <2>2. operands' \in Seq([name : Declared, negated : BOOLEAN])
      <3>1. CASE Parser!TakeOperand
        BY <3>1, AppendProperties DEF EvalIInv, VectorsFit, Parser!TakeOperand
      <3>2. CASE ~Parser!TakeOperand
        BY <3>2 DEF EvalIInv, VectorsFit, Parse, Parser!Step, Parser!RejectEmpty,
           Parser!RejectLeadingOperator, Parser!EnterLoop, Parser!RejectOperator,
           Parser!RejectNegatedOperator, Parser!RejectUndeclared, Parser!TakeOperator,
           Parser!Finish, Parser!Return
      <3> QED
        BY <3>1, <3>2
    <2>3. status' = "ok" => Len(operands') = Len(operators') + 1
      BY <1>1 DEF Parse, Parser!Step, Parser!RejectEmpty, Parser!RejectLeadingOperator,
         Parser!EnterLoop, Parser!RejectOperator, Parser!TakeOperator,
         Parser!RejectNegatedOperator, Parser!RejectUndeclared, Parser!TakeOperand,
         Parser!Finish, Parser!CountsAgree, Parser!Return
    <2> QED
      BY <1>1, <1>2, <2>1, <2>2, <2>3 DEF VectorsFit, evalVars
  <1>4. WaitingCallsSplit'
    BY <1>1, <1>2, EmptySeq DEF EvalIInv, WaitingCallsSplit, evalVars
  <1>5. RangesMatch'
    BY <1>1, <1>2 DEF EvalIInv, RangesMatch, evalVars
  <1> QED
    BY <1>3, <1>4, <1>5 DEF EvalIInv

\* The first call is on the whole of both vectors.
LEMMA ExecuteKeepsInvariant ==
    ASSUME EvalIInv, Execute
    PROVE  EvalIInv'
  <1>1. /\ calls = <<>> /\ returned = NoTuple /\ status = "ok"
        /\ outcome' \in [Declared -> Outcome]
        /\ UNCHANGED <<parserVars, walk, returned, evaluated>>
    BY DEF Execute
  <1>2. Len(operators) \in Nat /\ Len(operands) = Len(operators) + 1
    BY <1>1, Lengths DEF EvalIInv, VectorsFit
  <1>3. PICK c : c = [op |-> 1, opEnd |-> Len(operators) + 1,
                      opd |-> 1, opdEnd |-> Len(operands) + 1, left |-> NoTuple]
    OBVIOUS
  <1>4. InRange(c)
    BY <1>2, <1>3 DEF InRange, Call
  <1>5. /\ calls' = <<c>>
        /\ calls' \in Seq(Call) /\ Len(calls') = 1 /\ calls'[1] = c /\ DOMAIN calls' = {1}
    BY <1>3, <1>4 DEF InRange, Execute
  <1>6. walk = NoWalk
    BY <1>1 DEF EvalIInv, RangesMatch
  <1>7. VectorsFit'
    BY <1>1 DEF EvalIInv, VectorsFit, parserVars
  <1>8. WaitingCallsSplit'
    BY <1>1, <1>5, <1>6 DEF WaitingCallsSplit
  <1>9. outcome' \in [DOMAIN outcome' -> Outcome]
    BY <1>1
  <1>10. (\A k \in DOMAIN calls : InRange(calls[k]))'
    BY <1>1, <1>4, <1>5 DEF InRange, parserVars
  <1>11. RangesMatch'
    BY <1>1, <1>6, <1>9, <1>10 DEF RangesMatch
  <1> QED
    BY <1>7, <1>8, <1>11 DEF EvalIInv

\* The calls that are pushed, and the one that keeps the left result.
LeftHalf == [Current EXCEPT !.opEnd = FirstOr(Current), !.opdEnd = OperandSplit(Current)]
RightHalf == [Current EXCEPT !.op = FirstOr(Current) + 1, !.opd = OperandSplit(Current)]
Waiting == [Current EXCEPT !.left = returned]

\* The stack after the call on the left half.
LEMMA LeftPushed ==
    ASSUME EvalIInv, CallLeft, NEW n \in Nat, n = Len(calls)
    PROVE  /\ InRange(LeftHalf) /\ LeftHalf \in Call
           /\ n > 0
           /\ calls' \in Seq(Call) /\ Len(calls') = n + 1
           /\ \A k \in 1 .. n : calls'[k] = calls[k]
           /\ calls'[n + 1] = LeftHalf
  <1>0. PICK l : l = LeftHalf
    OBVIOUS
  <1>1. calls # <<>> /\ HasOr(Current)
    BY DEF CallLeft, Entered
  <1>2. InRange(l) /\ l \in Call
    BY <1>0, <1>1, Lengths, HalvesInRange DEF InRange, LeftHalf
  <1>3. calls' = Append(calls, l) /\ calls \in Seq(Call)
    BY <1>0 DEF CallLeft, EvalIInv, WaitingCallsSplit, LeftHalf
  <1>4. n > 0
    <2>1. Len(calls) \in Nat \ {0}
      BY <1>1, Lengths
    <2> QED
      BY <2>1
  <1>5. /\ calls' \in Seq(Call) /\ Len(calls') = n + 1
        /\ \A k \in 1 .. n : calls'[k] = calls[k]
        /\ calls'[n + 1] = l
    BY <1>2, <1>3, AppendProperties
  <1> QED
    BY <1>0, <1>2, <1>4, <1>5

\* The stack after the call on the right half, which leaves the left result in
\* the call below.
LEMMA RightPushed ==
    ASSUME EvalIInv, CallRight, NEW n \in Nat, n = Len(calls)
    PROVE  /\ InRange(Waiting) /\ HasOr(Waiting) /\ Waiting \in Call
           /\ InRange(RightHalf) /\ RightHalf \in Call
           /\ n > 0
           /\ calls' \in Seq(Call) /\ Len(calls') = n + 1
           /\ \A k \in 1 .. n - 1 : calls'[k] = calls[k]
           /\ calls'[n] = Waiting /\ calls'[n + 1] = RightHalf
  <1>0. PICK w, r : w = Waiting /\ r = RightHalf
    OBVIOUS
  <1>1. calls # <<>> /\ returned # NoTuple
    BY DEF CallRight
  <1>2. HasOr(Current) /\ returned \in Tuple
    BY <1>1 DEF EvalIInv, WaitingCallsSplit, RangesMatch
  <1>3. InRange(w) /\ HasOr(w) /\ w \in Call
    BY <1>0, <1>1, <1>2, Lengths, LeftKeepsRange DEF InRange, Waiting
  <1>4. InRange(r) /\ r \in Call
    BY <1>0, <1>1, <1>2, Lengths, HalvesInRange DEF InRange, RightHalf
  <1>5. n > 0
    <2>1. Len(calls) \in Nat \ {0}
      BY <1>1, Lengths
    <2> QED
      BY <2>1
  <1>6. PICK f : f = Front(calls)
    OBVIOUS
  <1>7. /\ f \in Seq(Call) /\ Len(f) = n - 1
        /\ \A k \in 1 .. n - 1 : f[k] = calls[k]
    BY <1>1, <1>6, Lengths
  <1>8. PICK u : u = Append(f, w)
    OBVIOUS
  <1>9. /\ u \in Seq(Call) /\ Len(u) = n
        /\ \A k \in 1 .. n - 1 : u[k] = f[k]
        /\ u[n] = w
    BY <1>3, <1>5, <1>7, <1>8, AppendProperties
  <1>10. calls' = u \o <<r>>
    BY <1>0, <1>6, <1>8 DEF CallRight, Waiting, RightHalf
  <1>11. calls' = Append(u, r)
    BY <1>4, <1>9, <1>10, AppendIsConcat
  <1>12. /\ calls' \in Seq(Call) /\ Len(calls') = n + 1
         /\ \A k \in 1 .. n : calls'[k] = u[k]
         /\ calls'[n + 1] = r
    BY <1>4, <1>9, <1>11, AppendProperties
  <1>13. \A k \in 1 .. n - 1 : calls'[k] = calls[k]
    BY <1>5, <1>7, <1>9, <1>12
  <1>14. calls'[n] = w
    BY <1>5, <1>9, <1>12
  <1> QED
    BY <1>0, <1>3, <1>4, <1>5, <1>12, <1>13, <1>14

\* A range with an `or' is split, and the left half called.
LEMMA CallLeftKeepsInvariant ==
    ASSUME EvalIInv, CallLeft
    PROVE  EvalIInv'
  <1>1. /\ calls # <<>> /\ returned = NoTuple /\ walk = NoWalk /\ HasOr(Current)
        /\ UNCHANGED <<parserVars, outcome, walk, returned, evaluated>>
    BY DEF CallLeft, Entered
  <1>2. PICK n \in Nat : n = Len(calls)
    BY Lengths
  <1>3. PICK l : l = LeftHalf
    OBVIOUS
  <1>4. InRange(l) /\ n > 0
    BY <1>2, <1>3, LeftPushed
  <1>5. /\ calls' \in Seq(Call) /\ Len(calls') = n + 1
        /\ \A k \in 1 .. n : calls'[k] = calls[k]
        /\ calls'[n + 1] = l
    BY <1>2, <1>3, LeftPushed
  <1>7. status = "ok"
    BY <1>1 DEF EvalIInv, VectorsFit
  <1>8. \A k \in 1 .. n : InRange(calls[k])
    BY <1>2, Lengths DEF EvalIInv, RangesMatch
  <1>9. \A k \in 1 .. n : HasOr(calls[k])
    <2>1. HasOr(calls[n])
      BY <1>1, <1>2, Lengths
    <2>2. \A k \in 1 .. n - 1 : HasOr(calls[k])
      BY <1>2 DEF EvalIInv, WaitingCallsSplit
    <2> QED
      BY <1>4, <2>1, <2>2
  <1>10. /\ (\A k \in DOMAIN calls : InRange(calls[k]))'
         /\ (\A k \in 1 .. Len(calls) - 1 : HasOr(calls[k]))'
    <2>1. \A k \in 1 .. Len(calls') : InRange(calls'[k])
      BY <1>4, <1>5, <1>8
    <2>2. \A k \in 1 .. Len(calls') - 1 : HasOr(calls'[k])
      BY <1>5, <1>9
    <2> QED
      BY <1>1, <1>5, <2>1, <2>2, CallsStay
  <1>11. WaitingCallsSplit'
    BY <1>1, <1>5, <1>10 DEF WaitingCallsSplit
  <1>12. VectorsFit' /\ outcome' \in [DOMAIN outcome' -> Outcome]
    BY <1>1, <1>7, VectorsStay
  <1>13. walk' = NoWalk /\ returned' = NoTuple
    BY <1>1
  <1>14. RangesMatch'
    BY <1>10, <1>12, <1>13 DEF RangesMatch
  <1> QED
    BY <1>11, <1>12, <1>14 DEF EvalIInv

\* A call returns: the one below it, if any, has been waiting for a half.
LEMMA ReturnKeepsInvariant ==
    ASSUME EvalIInv, calls # <<>>, calls' = Front(calls), returned' \in Tuple,
           walk' = NoWalk, UNCHANGED <<parserVars, outcome>>
    PROVE  EvalIInv'
  <1>1. PICK n \in Nat : n = Len(calls) /\ n > 0
    <2>1. Len(calls) \in Nat \ {0}
      BY Lengths
    <2> QED
      BY <2>1
  <1>2. /\ calls' \in Seq(Call) /\ Len(calls') = n - 1
        /\ \A k \in 1 .. n - 1 : calls'[k] = calls[k]
    BY <1>1, Lengths
  <1>3. \A k \in 1 .. n - 1 : InRange(calls[k]) /\ HasOr(calls[k])
    BY <1>1, Lengths DEF EvalIInv, RangesMatch, WaitingCallsSplit
  <1>4. /\ (\A k \in DOMAIN calls : InRange(calls[k]))'
        /\ (\A k \in 1 .. Len(calls) - 1 : HasOr(calls[k]))'
    <2>1. \A k \in 1 .. Len(calls') : InRange(calls'[k])
      BY <1>2, <1>3
    <2>2. \A k \in 1 .. Len(calls') - 1 : HasOr(calls'[k])
      BY <1>2, <1>3
    <2> QED
      BY <1>2, <2>1, <2>2, CallsStay
  <1>5. (calls # <<>> => HasOr(Current))'
    <2> SUFFICES ASSUME calls' # <<>> PROVE HasOr(Current)'
      OBVIOUS
    <2>1. n - 1 \in 1 .. n - 1
      <3>1. Len(calls') \in Nat \ {0}
        BY <1>2, EmptySeq
      <3> QED
        BY <1>1, <1>2, <3>1
    <2>2. Current' = calls[n - 1]
      BY <1>2, <2>1 DEF Current, Last
    <2>3. HasOr(calls[n - 1])
      BY <1>3, <2>1
    <2>4. operators' = operators
      BY DEF parserVars
    <2> QED
      BY <2>2, <2>3, <2>4 DEF HasOr, isOR
  <1>6. status = "ok"
    BY DEF EvalIInv, VectorsFit
  <1>7. VectorsFit' /\ outcome' \in [DOMAIN outcome' -> Outcome]
    BY <1>6, VectorsStay
  <1>8. WaitingCallsSplit'
    BY <1>2, <1>4, <1>5 DEF WaitingCallsSplit
  <1>9. RangesMatch'
    BY <1>4, <1>7 DEF RangesMatch
  <1> QED
    BY <1>7, <1>8, <1>9 DEF EvalIInv

\* The right half of a range that has an `or' is called.
LEMMA CallRightKeepsInvariant ==
    ASSUME EvalIInv, CallRight
    PROVE  EvalIInv'
  <1>1. /\ calls # <<>> /\ returned # NoTuple /\ returned' = NoTuple
        /\ UNCHANGED <<parserVars, outcome, walk, evaluated>>
    BY DEF CallRight
  <1>2. walk = NoWalk /\ HasOr(Current) /\ returned \in Tuple
    BY <1>1 DEF EvalIInv, WaitingCallsSplit, RangesMatch
  <1>3. PICK n \in Nat : n = Len(calls)
    BY Lengths
  <1>4. PICK w, r : w = Waiting /\ r = RightHalf
    OBVIOUS
  <1>5. InRange(w) /\ HasOr(w) /\ InRange(r) /\ n > 0
    BY <1>3, <1>4, RightPushed
  <1>6. /\ calls' \in Seq(Call) /\ Len(calls') = n + 1
        /\ \A k \in 1 .. n - 1 : calls'[k] = calls[k]
        /\ calls'[n] = w /\ calls'[n + 1] = r
    BY <1>3, <1>4, RightPushed
  <1>9. \A k \in 1 .. n - 1 : InRange(calls[k]) /\ HasOr(calls[k])
    BY <1>3, Lengths DEF EvalIInv, RangesMatch, WaitingCallsSplit
  <1>10. /\ (\A k \in DOMAIN calls : InRange(calls[k]))'
         /\ (\A k \in 1 .. Len(calls) - 1 : HasOr(calls[k]))'
    <2>1. \A k \in 1 .. Len(calls') : InRange(calls'[k])
      BY <1>5, <1>6, <1>9
    <2>2. \A k \in 1 .. Len(calls') - 1 : HasOr(calls'[k])
      BY <1>5, <1>6, <1>9
    <2> QED
      BY <1>1, <1>6, <2>1, <2>2, CallsStay
  <1>11. status = "ok"
    BY <1>1 DEF EvalIInv, VectorsFit
  <1>12. VectorsFit' /\ outcome' \in [DOMAIN outcome' -> Outcome]
    BY <1>1, <1>11, VectorsStay
  <1>13. WaitingCallsSplit'
    BY <1>1, <1>2, <1>6, <1>10 DEF WaitingCallsSplit
  <1>14. RangesMatch'
    BY <1>1, <1>2, <1>10, <1>12 DEF RangesMatch
  <1> QED
    BY <1>12, <1>13, <1>14 DEF EvalIInv

\* Both halves are there.
LEMMA CombineKeepsInvariant ==
    ASSUME EvalIInv, Combine
    PROVE  EvalIInv'
  <1>1. /\ calls # <<>> /\ returned # NoTuple /\ Current.left # NoTuple
        /\ returned' = Either(Current.left, returned)
        /\ calls' = Front(calls)
        /\ UNCHANGED <<parserVars, outcome, walk, evaluated>>
    BY DEF Combine
  <1>2. walk = NoWalk /\ returned \in Tuple
    BY <1>1 DEF EvalIInv, WaitingCallsSplit, RangesMatch
  <1>3. Current.left \in Tuple
    <2>1. Current \in Call
      BY <1>1, Lengths DEF InRange
    <2> QED
      BY <1>1, <2>1 DEF Call
  <1>4. \A l, r \in Tuple : Either(l, r) \in Tuple
    BY DEF Either, Tuple, Ok
  <1>5. returned' \in Tuple
    BY <1>1, <1>2, <1>3, <1>4
  <1> QED
    BY <1>1, <1>2, <1>5, ReturnKeepsInvariant

----------------------------------------------------------------------------
\* The walk along a range without `or'.

\* The types of the innermost call's iterators.
LEMMA CurrentFields ==
    ASSUME EvalIInv, calls # <<>>
    PROVE  /\ Current.op \in Nat /\ Current.opEnd \in Nat
           /\ Current.opd \in Nat /\ Current.opdEnd \in Nat
           /\ Current.op <= Current.opEnd /\ Current.opd < Current.opdEnd
           /\ Current.opdEnd - Current.opd = Current.opEnd - Current.op + 1
  <1>1. InRange(Current)
    BY Lengths
  <1> QED
    BY <1>1 DEF InRange, Call

\* The walk goes on to the next operand.
LEMMA WalkKeepsInvariant ==
    ASSUME EvalIInv, calls # <<>>, returned = NoTuple,
           UNCHANGED <<parserVars, outcome, calls, returned>>,
           walk' \in [op : Current.op .. Current.opEnd, opd : Current.opd .. Current.opdEnd,
                      result : BOOLEAN],
           Current.opdEnd - walk'.opd = Current.opEnd - walk'.op
    PROVE  EvalIInv'
  <1>1. Current' = Current /\ calls' # <<>>
    BY DEF Current
  <1>2. status = "ok"
    BY DEF EvalIInv, VectorsFit
  <1>3. VectorsFit' /\ outcome' \in [DOMAIN outcome' -> Outcome]
    BY <1>2, VectorsStay
  <1>4. calls \in Seq(Call) /\ \A k \in 1 .. Len(calls) - 1 : HasOr(calls[k])
    BY DEF EvalIInv, WaitingCallsSplit
  <1>5. \A k \in 1 .. Len(calls) : InRange(calls[k])
    BY Lengths DEF EvalIInv, RangesMatch
  <1>6. /\ (\A k \in DOMAIN calls : InRange(calls[k]))'
        /\ (\A k \in 1 .. Len(calls) - 1 : HasOr(calls[k]))'
    BY <1>4, <1>5, CallsStay
  <1>7. WaitingCallsSplit'
    BY <1>4, <1>6 DEF WaitingCallsSplit
  <1>8. RangesMatch'
    BY <1>1, <1>3, <1>6 DEF RangesMatch
  <1> QED
    BY <1>3, <1>7, <1>8 DEF EvalIInv

LEMMA FirstKeepsInvariant ==
    ASSUME EvalIInv, EvaluateFirst
    PROVE  EvalIInv'
  <1>1. /\ calls # <<>> /\ returned = NoTuple /\ walk = NoWalk
        /\ UNCHANGED <<parserVars, outcome>>
    BY DEF EvaluateFirst, Entered
  <1>2. \A b : b \in BOOLEAN => Ok(b) \in Tuple
    BY DEF Ok, Tuple
  <1>3. Failed(Current.opd) \in Tuple
    BY <1>1, CurrentFields DEF Failed, Tuple
  <1>4. SignedValue(Current.opd) \in BOOLEAN
    BY DEF SignedValue
  <1>5. CASE \E t \in Tuple : Leave(t)
    BY <1>1, <1>5, ReturnKeepsInvariant DEF Leave
  <1>6. CASE /\ Current.opdEnd - Current.opd # 1
             /\ walk' = [op |-> Current.op, opd |-> Current.opd + 1,
                         result |-> SignedValue(Current.opd)]
             /\ UNCHANGED <<returned, calls>>
    <2>1. PICK op \in Nat, opEnd \in Nat, opd \in Nat, opdEnd \in Nat :
            /\ op = Current.op /\ opEnd = Current.opEnd
            /\ opd = Current.opd /\ opdEnd = Current.opdEnd
      BY <1>1, CurrentFields
    <2>2. op <= opEnd /\ opd < opdEnd /\ opdEnd - opd = opEnd - op + 1
      BY <1>1, <2>1, CurrentFields
    <2>3. op \in op .. opEnd /\ opd + 1 \in opd .. opdEnd /\ opdEnd - (opd + 1) = opEnd - op
      BY <2>2
    <2>4. /\ walk' \in [op : op .. opEnd, opd : opd .. opdEnd, result : BOOLEAN]
          /\ walk'.op = op /\ walk'.opd = opd + 1
      BY <1>4, <1>6, <2>1, <2>3
    <2> QED
      BY <1>1, <1>6, <2>1, <2>3, <2>4, WalkKeepsInvariant
  <1> QED
    BY <1>2, <1>3, <1>4, <1>5, <1>6 DEF EvaluateFirst

LEMMA NextKeepsInvariant ==
    ASSUME EvalIInv, EvaluateNext
    PROVE  EvalIInv'
  <1>1. /\ calls # <<>> /\ returned = NoTuple /\ walk # NoWalk /\ ~AtEnd
        /\ UNCHANGED <<parserVars, outcome>>
    BY DEF EvaluateNext, EvalIInv, WaitingCallsSplit, RangesMatch
  <1>2. PICK op \in Nat, opEnd \in Nat, opd \in Nat, opdEnd \in Nat :
          /\ op = Current.op /\ opEnd = Current.opEnd
          /\ opd = Current.opd /\ opdEnd = Current.opdEnd
    BY <1>1, CurrentFields
  <1>3. /\ walk \in [op : op .. opEnd, opd : opd .. opdEnd, result : BOOLEAN]
        /\ opdEnd - walk.opd = opEnd - walk.op
    BY <1>1, <1>2 DEF EvalIInv, RangesMatch
  <1>4. PICK i \in Nat, k \in Nat :
          /\ i = walk.opd /\ k = walk.op
          /\ i \in opd .. opdEnd /\ k \in op .. opEnd
          /\ i # opdEnd /\ k # opEnd
    BY <1>1, <1>2, <1>3 DEF AtEnd
  <1>5. CASE \E t \in Tuple : Leave(t)
    BY <1>1, <1>5, ReturnKeepsInvariant DEF Leave
  <1>6. CASE /\ walk' = [op |-> walk.op + 1, opd |-> walk.opd + 1, result |->
                            evaluateExpression(walk.result, operators[walk.op],
                                               SignedValue(walk.opd))]
             /\ UNCHANGED <<returned, calls>>
    <2>1. k + 1 \in op .. opEnd /\ i + 1 \in opd .. opdEnd /\ opdEnd - (i + 1) = opEnd - (k + 1)
      BY <1>3, <1>4
    <2>2. PICK b \in BOOLEAN :
            b = evaluateExpression(walk.result, operators[walk.op], SignedValue(walk.opd))
      BY <1>3 DEF evaluateExpression, SignedValue
    <2>3. /\ walk' \in [op : op .. opEnd, opd : opd .. opdEnd, result : BOOLEAN]
          /\ walk'.op = k + 1 /\ walk'.opd = i + 1
      BY <1>4, <1>6, <2>1, <2>2
    <2> QED
      BY <1>1, <1>2, <1>6, <2>1, <2>3, WalkKeepsInvariant
  <1>7. Failed(walk.opd) \in Tuple
    BY <1>4 DEF Failed, Tuple
  <1> QED
    BY <1>5, <1>6, <1>7 DEF EvaluateNext

LEMMA EndKeepsInvariant ==
    ASSUME EvalIInv, ReachEnd
    PROVE  EvalIInv'
  <1>1. /\ calls # <<>> /\ walk.result \in BOOLEAN
        /\ Leave(Ok(walk.result))
        /\ UNCHANGED <<parserVars, outcome>>
    BY DEF ReachEnd, EvalIInv, RangesMatch
  <1>2. Ok(walk.result) \in Tuple
    BY <1>1 DEF Ok, Tuple
  <1> QED
    BY <1>1, <1>2, ReturnKeepsInvariant DEF Leave

----------------------------------------------------------------------------
\* What a condition means: one lemma per group of actions again, after the
\* facts about ranges of operands.

\* A group that fails nowhere, taken as a range of its own.
LEMMA GroupGives ==
    ASSUME NEW a \in Nat, NEW b \in Nat, a < b,
           \A k \in a .. b - 2 : ~isOR(k),
           \A i \in a .. b - 1 : ~OperandFails(i),
           NEW v \in BOOLEAN, v <=> \A i \in a .. b - 1 : SignedValue(i)
    PROVE  Gives(Ok(v), a, b)
  <1>1. \A i, j \in a .. b - 1 : SameGroupOf(i, j)
    BY DEF SameGroupOf, SameAnds, isOR
  <1>2. a \in a .. b - 1
    OBVIOUS
  <1>3. HoldsOn(a, b) <=> \A i \in a .. b - 1 : SignedValue(i)
    BY <1>1, <1>2 DEF HoldsOn
  <1> QED
    BY <1>3 DEF Gives, Ok

\* The first operand of a range that fails is what the range gives.
LEMMA FailureGives ==
    ASSUME NEW a \in Nat, NEW b \in Nat, NEW i \in a .. b - 1, 1 <= a,
           \A j \in a .. i - 1 : ~OperandFails(j), OperandFails(i)
    PROVE  Gives(Failed(i), a, b)
  BY DEF Gives, Failed

\* An `or' separates the groups of a range.
LEMMA OrSeparates ==
    ASSUME NEW a \in Nat, NEW m \in Nat, NEW b \in Nat, a < m, m < b, isOR(m - 1)
    PROVE  HoldsOn(a, b) <=> HoldsOn(a, m) \/ HoldsOn(m, b)
  <1>1. \A i \in a .. m - 1 : \A j \in m .. b - 1 : ~SameGroupOf(i, j) /\ ~SameGroupOf(j, i)
    BY DEF SameGroupOf, SameAnds, isOR
  <1>2. a .. b - 1 = (a .. m - 1) \cup (m .. b - 1)
    OBVIOUS
  <1>3. ASSUME HoldsOn(a, b) PROVE HoldsOn(a, m) \/ HoldsOn(m, b)
    <2>1. PICK i \in a .. b - 1 : \A j \in a .. b - 1 : SameGroupOf(i, j) => SignedValue(j)
      BY <1>3 DEF HoldsOn
    <2>2. CASE i \in a .. m - 1
      BY <1>2, <2>1, <2>2 DEF HoldsOn
    <2>3. CASE i \in m .. b - 1
      BY <1>2, <2>1, <2>3 DEF HoldsOn
    <2> QED
      BY <1>2, <2>2, <2>3
  <1>4. ASSUME HoldsOn(a, m) PROVE HoldsOn(a, b)
    <2>1. PICK i \in a .. m - 1 : \A j \in a .. m - 1 : SameGroupOf(i, j) => SignedValue(j)
      BY <1>4 DEF HoldsOn
    <2> QED
      BY <1>1, <1>2, <2>1 DEF HoldsOn
  <1>5. ASSUME HoldsOn(m, b) PROVE HoldsOn(a, b)
    <2>1. PICK i \in m .. b - 1 : \A j \in m .. b - 1 : SameGroupOf(i, j) => SignedValue(j)
      BY <1>5 DEF HoldsOn
    <2> QED
      BY <1>1, <1>2, <2>1 DEF HoldsOn
  <1> QED
    BY <1>3, <1>4, <1>5

\* What both halves of a range give, combined, is what the range gives.
LEMMA EitherGives ==
    ASSUME NEW a \in Nat, NEW m \in Nat, NEW b \in Nat, 1 <= a, a < m, m < b, isOR(m - 1),
           NEW l \in Tuple, NEW r \in Tuple, Gives(l, a, m), Gives(r, m, b)
    PROVE  Gives(Either(l, r), a, b)
  <1>1. a .. b - 1 = (a .. m - 1) \cup (m .. b - 1)
    OBVIOUS
  <1>2. CASE l.failed # 0
    <2>1. Either(l, r) = l
      BY <1>2 DEF Either
    <2> QED
      BY <1>1, <1>2, <2>1 DEF Gives
  <1>3. CASE l.failed = 0 /\ r.failed # 0
    <2>1. Either(l, r) = r
      BY <1>3 DEF Either
    <2>2. r.failed \in m .. b - 1 /\ a .. r.failed - 1 = (a .. m - 1) \cup (m .. r.failed - 1)
      BY <1>3 DEF Gives
    <2> QED
      BY <1>1, <1>3, <2>1, <2>2 DEF Gives
  <1>4. CASE l.failed = 0 /\ r.failed = 0
    <2>1. PICK v \in BOOLEAN : v = (l.value \/ r.value)
      OBVIOUS
    <2>2. Either(l, r) = Ok(v)
      BY <1>4, <2>1 DEF Either
    <2>3. v <=> HoldsOn(a, b)
      BY <1>4, <2>1, OrSeparates DEF Gives
    <2>4. \A i \in a .. b - 1 : ~OperandFails(i)
      BY <1>1, <1>4 DEF Gives
    <2> QED
      BY <2>2, <2>3, <2>4 DEF Gives, Ok
  <1> QED
    BY <1>2, <1>3, <1>4

\* The halves of a call that starts a group: where they meet is the position
\* after the `or'.
LEMMA HalvesOf ==
    ASSUME NEW c, InRange(c), HasOr(c), StartsGroup(c)
    PROVE  /\ OperandSplit(c) = FirstOr(c) + 1
           /\ c.opd \in Nat /\ OperandSplit(c) \in Nat /\ c.opdEnd \in Nat
           /\ 1 <= c.opd /\ c.opd < OperandSplit(c) /\ OperandSplit(c) < c.opdEnd
           /\ isOR(OperandSplit(c) - 1)
  <1>1. c \in Call
    BY DEF InRange
  <1>2. c.op \in Nat /\ c.opEnd \in Nat /\ c.opd \in Nat /\ c.opdEnd \in Nat
    BY <1>1 DEF Call
  <1>3. /\ FirstOr(c) \in c.op .. c.opEnd - 1 /\ isOR(FirstOr(c))
    BY <1>1, FirstOrIsFirst
  <1>4. PICK op \in Nat, opEnd \in Nat, opdEnd \in Nat, k \in Nat :
          op = c.op /\ opEnd = c.opEnd /\ op = c.opd /\ opdEnd = c.opdEnd /\ k = FirstOr(c)
    BY <1>2, <1>3 DEF StartsGroup
  <1>5. /\ 1 <= op /\ op <= k /\ k <= opEnd - 1 /\ opdEnd - op = opEnd - op + 1
    BY <1>3, <1>4 DEF InRange
  <1>6. OperandSplit(c) = k + 1
    BY <1>4, <1>5 DEF OperandSplit
  <1>7. k + 1 - 1 = k /\ k + 1 < opdEnd /\ op < k + 1
    BY <1>5
  <1> QED
    BY <1>3, <1>4, <1>5, <1>6, <1>7

LEMMA GivesStays ==
    ASSUME UNCHANGED <<parserVars, outcome>>, NEW t, NEW a, NEW b
    PROVE  Gives(t, a, b)' <=> Gives(t, a, b)
  BY DEF Gives, HoldsOn, SameGroupOf, SameAnds, SignedValue, OperandFails, Name, parserVars

\* What is said of a call depends on the vectors only.
LEMMA HalvesStay ==
    ASSUME UNCHANGED parserVars, NEW c
    PROVE  /\ HalfFrom(c)' = HalfFrom(c) /\ HalfTo(c)' = HalfTo(c)
           /\ OperandSplit(c)' = OperandSplit(c)
           /\ StartsGroup(c)' <=> StartsGroup(c)
           /\ HasOr(c)' <=> HasOr(c)
  <1>1. operators' = operators
    BY DEF parserVars
  <1>2. FirstOr(c)' = FirstOr(c)
    BY <1>1 DEF FirstOr, isOR
  <1>3. OperandSplit(c)' = OperandSplit(c)
    BY <1>2 DEF OperandSplit
  <1>4. (HasOr(c)' <=> HasOr(c)) /\ (StartsGroup(c)' <=> StartsGroup(c))
    BY <1>1 DEF HasOr, isOR, StartsGroup
  <1> QED
    BY <1>3, <1>4 DEF HalfFrom, HalfTo

\* What MeaningIInv says of the calls, from what their halves are before the step.
LEMMA NestedStays ==
    ASSUME UNCHANGED <<parserVars, outcome>>,
           \A k \in 1 .. Len(calls') : StartsGroup(calls'[k]),
           calls' # <<>> => Covers(calls'[1], 1, Len(operands) + 1),
           \A k \in 1 .. Len(calls') - 1 :
             Covers(calls'[k + 1], HalfFrom(calls'[k]), HalfTo(calls'[k]))
    PROVE  Nested'
  BY HalvesStay DEF Nested, Covers, parserVars

LEMMA LeftsStay ==
    ASSUME UNCHANGED <<parserVars, outcome>>,
           \A k \in 1 .. Len(calls') :
             calls'[k].left # NoTuple =>
               Gives(calls'[k].left, calls'[k].opd, OperandSplit(calls'[k]))
    PROVE  (\A k \in 1 .. Len(calls) :
              calls[k].left # NoTuple =>
                Gives(calls[k].left, calls[k].opd, OperandSplit(calls[k])))'
  BY HalvesStay, GivesStays

\* A call returns what the operands it covers give.
LEMMA ReturnMeans ==
    ASSUME EvalIInv, MeaningIInv, calls # <<>>, calls' = Front(calls), returned' # NoTuple,
           Gives(returned', Current.opd, Current.opdEnd),
           walk' = NoWalk, UNCHANGED <<parserVars, outcome>>
    PROVE  MeaningIInv'
  <1>1. PICK n \in Nat : n = Len(calls) /\ n > 0
    <2>1. Len(calls) \in Nat \ {0}
      BY Lengths
    <2> QED
      BY <2>1
  <1>2. /\ calls' \in Seq(Call) /\ Len(calls') = n - 1
        /\ \A k \in 1 .. n - 1 : calls'[k] = calls[k]
        /\ Current = calls[n]
    BY <1>1, Lengths
  <1>3. calls' # <<>> => n - 1 \in 1 .. n - 1
    <2> SUFFICES ASSUME calls' # <<>> PROVE n - 1 \in 1 .. n - 1
      OBVIOUS
    <2>1. Len(calls') \in Nat \ {0}
      BY <1>2, EmptySeq
    <2> QED
      BY <1>1, <1>2, <2>1
  <1>4. /\ \A k \in 1 .. n : StartsGroup(calls[k])
        /\ Covers(calls[1], 1, Len(operands) + 1)
        /\ \A k \in 1 .. n - 1 : Covers(calls[k + 1], HalfFrom(calls[k]), HalfTo(calls[k]))
        /\ \A k \in 1 .. n :
             calls[k].left # NoTuple => Gives(calls[k].left, calls[k].opd, OperandSplit(calls[k]))
    BY <1>1 DEF MeaningIInv, Nested, ResultsMean
  <1>5. Nested'
    <2>1. \A k \in 1 .. n - 1 : StartsGroup(calls'[k])
      BY <1>2, <1>4
    <2>2. calls' # <<>> => calls'[1] = calls[1]
      BY <1>1, <1>2, <1>3
    <2>3. \A k \in 1 .. n - 1 - 1 : calls'[k] = calls[k] /\ calls'[k + 1] = calls[k + 1]
      BY <1>1, <1>2
    <2>4. \A k \in 1 .. n - 1 - 1 : Covers(calls'[k + 1], HalfFrom(calls'[k]), HalfTo(calls'[k]))
      BY <1>1, <1>4, <2>3
    <2> QED
      BY <1>2, <1>4, <2>1, <2>2, <2>4, NestedStays
  <1>6. (\A k \in 1 .. Len(calls) :
            calls[k].left # NoTuple =>
              Gives(calls[k].left, calls[k].opd, OperandSplit(calls[k])))'
    <2>1. \A k \in 1 .. n - 1 :
            calls'[k].left # NoTuple => Gives(calls'[k].left, calls'[k].opd, OperandSplit(calls'[k]))
      BY <1>2, <1>4
    <2> QED
      BY <1>2, <2>1, LeftsStay
  <1>7. (Finished => Gives(returned, 1, Len(operands) + 1))'
    <2> SUFFICES ASSUME calls' = <<>> PROVE Gives(returned, 1, Len(operands) + 1)'
      BY DEF Finished
    <2>1. n = 1
      <3>1. PICK m : m = Len(calls')
        OBVIOUS
      <3>2. m = n - 1
        BY <1>2, <3>1
      <3>3. m = 0
        BY <3>1, EmptySeq, Zenon
      <3> QED
        BY <3>2, <3>3
    <2>2. Gives(returned', 1, Len(operands) + 1)
      BY <1>2, <1>4, <2>1 DEF Covers
    <2> QED
      BY <2>2, GivesStays DEF parserVars
  <1>8. (calls # <<>> => Gives(returned, HalfFrom(Current), HalfTo(Current)))'
    <2> SUFFICES ASSUME calls' # <<>> PROVE Gives(returned, HalfFrom(Current), HalfTo(Current))'
      OBVIOUS
    <2>1. n - 1 \in 1 .. n - 1 /\ n - 1 + 1 = n
      BY <1>1, <1>3
    <2>2. Current' = calls[n - 1]
      BY <1>2, <2>1 DEF Current, Last
    <2>3. Covers(calls[n], HalfFrom(calls[n - 1]), HalfTo(calls[n - 1]))
      BY <1>4, <2>1
    <2>4. Gives(returned', HalfFrom(calls[n - 1]), HalfTo(calls[n - 1]))
      BY <1>2, <2>3 DEF Covers
    <2> QED
      BY <2>2, <2>4, GivesStays, HalvesStay
  <1>9. ResultsMean'
    BY <1>6, <1>7, <1>8 DEF ResultsMean
  <1> QED
    BY <1>5, <1>9 DEF MeaningIInv

\* The left half starts where the range does, and no result is there yet.
LEMMA CallLeftMeans ==
    ASSUME EvalIInv, MeaningIInv, CallLeft
    PROVE  MeaningIInv'
  <1>1. /\ calls # <<>> /\ returned = NoTuple /\ walk = NoWalk /\ HasOr(Current)
        /\ UNCHANGED <<parserVars, outcome, walk, returned, evaluated>>
    BY DEF CallLeft, Entered
  <1>2. PICK n \in Nat : n = Len(calls)
    BY Lengths
  <1>3. PICK l : l = LeftHalf
    OBVIOUS
  <1>4. /\ n > 0
        /\ calls' \in Seq(Call) /\ Len(calls') = n + 1
        /\ \A k \in 1 .. n : calls'[k] = calls[k]
        /\ calls'[n + 1] = l
    BY <1>2, <1>3, LeftPushed
  <1>5. Current = calls[n] /\ Current \in Call
    BY <1>1, <1>2, Lengths DEF InRange
  <1>6. /\ \A k \in 1 .. n : StartsGroup(calls[k])
        /\ Covers(calls[1], 1, Len(operands) + 1)
        /\ \A k \in 1 .. n - 1 : Covers(calls[k + 1], HalfFrom(calls[k]), HalfTo(calls[k]))
        /\ \A k \in 1 .. n :
             calls[k].left # NoTuple => Gives(calls[k].left, calls[k].opd, OperandSplit(calls[k]))
        /\ Current.left = NoTuple
    BY <1>1, <1>2 DEF MeaningIInv, Nested, ResultsMean
  <1>7. /\ l.op = Current.op /\ l.opd = Current.opd
        /\ l.opdEnd = OperandSplit(Current) /\ l.left = NoTuple
    BY <1>3, <1>5, <1>6 DEF Call, LeftHalf
  <1>8. StartsGroup(l) /\ Covers(l, HalfFrom(Current), HalfTo(Current))
    <2>1. StartsGroup(Current)
      BY <1>4, <1>5, <1>6
    <2> QED
      BY <1>6, <1>7, <2>1 DEF StartsGroup, Covers, HalfFrom, HalfTo
  <1>9. Nested'
    <2>1. \A k \in 1 .. n + 1 : StartsGroup(calls'[k])
      BY <1>4, <1>6, <1>8
    <2>2. Covers(calls'[1], 1, Len(operands) + 1)
      BY <1>4, <1>6
    <2>3. \A k \in 1 .. n - 1 : calls'[k] = calls[k] /\ calls'[k + 1] = calls[k + 1]
      BY <1>4
    <2>4. Covers(calls'[n + 1], HalfFrom(calls'[n]), HalfTo(calls'[n]))
      BY <1>4, <1>5, <1>8
    <2>5. \A k \in 1 .. n : Covers(calls'[k + 1], HalfFrom(calls'[k]), HalfTo(calls'[k]))
      BY <1>6, <2>3, <2>4
    <2>6. \A k \in 1 .. Len(calls') - 1 : Covers(calls'[k + 1], HalfFrom(calls'[k]), HalfTo(calls'[k]))
      BY <1>4, <2>5
    <2> QED
      BY <1>1, <1>4, <2>1, <2>2, <2>6, NestedStays
  <1>10. (\A k \in 1 .. Len(calls) :
             calls[k].left # NoTuple =>
               Gives(calls[k].left, calls[k].opd, OperandSplit(calls[k])))'
    <2>1. \A k \in 1 .. n + 1 :
            calls'[k].left # NoTuple => Gives(calls'[k].left, calls'[k].opd, OperandSplit(calls'[k]))
      BY <1>4, <1>6, <1>7
    <2> QED
      BY <1>1, <1>4, <2>1, LeftsStay
  <1>11. (calls # <<>> /\ returned = NoTuple => Current.left = NoTuple)'
    <2>1. Current' = l
      BY <1>4 DEF Current, Last
    <2> QED
      BY <1>7, <2>1
  <1>12. returned' = NoTuple /\ walk' = NoWalk
    BY <1>1
  <1>13. ResultsMean'
    BY <1>10, <1>11, <1>12 DEF ResultsMean, Finished
  <1> QED
    BY <1>9, <1>13 DEF MeaningIInv

\* The left result is what the left half gives; the right half starts after
\* the `or'.
LEMMA CallRightMeans ==
    ASSUME EvalIInv, MeaningIInv, CallRight
    PROVE  MeaningIInv'
  <1>1. /\ calls # <<>> /\ returned # NoTuple /\ returned' = NoTuple /\ Current.left = NoTuple
        /\ UNCHANGED <<parserVars, outcome, walk, evaluated>>
    BY DEF CallRight
  <1>2. walk = NoWalk /\ HasOr(Current)
    BY <1>1 DEF EvalIInv, WaitingCallsSplit, RangesMatch
  <1>3. PICK n \in Nat : n = Len(calls)
    BY Lengths
  <1>4. PICK w, r : w = Waiting /\ r = RightHalf
    OBVIOUS
  <1>5. /\ HasOr(w) /\ InRange(w)
        /\ n > 0
        /\ calls' \in Seq(Call) /\ Len(calls') = n + 1
        /\ \A k \in 1 .. n - 1 : calls'[k] = calls[k]
        /\ calls'[n] = w /\ calls'[n + 1] = r
    BY <1>3, <1>4, RightPushed
  <1>6. Current = calls[n] /\ Current \in Call /\ InRange(Current)
    BY <1>1, <1>3, Lengths DEF InRange
  <1>7. /\ \A k \in 1 .. n : StartsGroup(calls[k])
        /\ Covers(calls[1], 1, Len(operands) + 1)
        /\ \A k \in 1 .. n - 1 : Covers(calls[k + 1], HalfFrom(calls[k]), HalfTo(calls[k]))
        /\ \A k \in 1 .. n :
             calls[k].left # NoTuple => Gives(calls[k].left, calls[k].opd, OperandSplit(calls[k]))
        /\ Gives(returned, HalfFrom(Current), HalfTo(Current))
    BY <1>1, <1>3 DEF MeaningIInv, Nested, ResultsMean
  <1>8. /\ w.op = Current.op /\ w.opEnd = Current.opEnd
        /\ w.opd = Current.opd /\ w.opdEnd = Current.opdEnd /\ w.left = returned
        /\ r.op = FirstOr(Current) + 1 /\ r.opd = OperandSplit(Current)
        /\ r.opdEnd = Current.opdEnd /\ r.left = NoTuple
    BY <1>1, <1>4, <1>6 DEF Call, Waiting, RightHalf
  <1>9. FirstOr(w) = FirstOr(Current) /\ OperandSplit(w) = OperandSplit(Current)
    BY <1>8 DEF FirstOr, OperandSplit
  <1>10. StartsGroup(Current)
    BY <1>5, <1>6, <1>7
  <1>11. /\ StartsGroup(w) /\ StartsGroup(r)
         /\ Covers(w, Current.opd, Current.opdEnd)
         /\ Covers(r, HalfFrom(w), HalfTo(w))
    <2>1. OperandSplit(Current) = FirstOr(Current) + 1 /\ isOR(OperandSplit(Current) - 1)
      BY <1>2, <1>6, <1>10, HalvesOf
    <2>2. StartsGroup(w)
      BY <1>8, <1>10 DEF StartsGroup
    <2>3. StartsGroup(r)
      BY <1>8, <2>1 DEF StartsGroup
    <2>4. Covers(w, Current.opd, Current.opdEnd)
      BY <1>8 DEF Covers
    <2>5. Covers(r, HalfFrom(w), HalfTo(w))
      BY <1>1, <1>8, <1>9 DEF Covers, HalfFrom, HalfTo
    <2> QED
      BY <2>2, <2>3, <2>4, <2>5
  <1>12. Nested'
    <2>1. \A k \in 1 .. n + 1 : StartsGroup(calls'[k])
      BY <1>5, <1>7, <1>11
    <2>2. Covers(calls'[1], 1, Len(operands) + 1)
      <3>1. CASE n = 1
        BY <1>5, <1>6, <1>7, <1>11, <3>1 DEF Covers
      <3>2. CASE n > 1
        BY <1>5, <1>7, <3>2
      <3> QED
        BY <1>5, <3>1, <3>2
    <2>3. \A k \in 1 .. n - 2 : calls'[k] = calls[k] /\ calls'[k + 1] = calls[k + 1]
      BY <1>5
    <2>4. Covers(calls'[n + 1], HalfFrom(calls'[n]), HalfTo(calls'[n]))
      BY <1>5, <1>11
    <2>5. ASSUME n - 1 \in 1 .. n - 1
          PROVE  Covers(calls'[n - 1 + 1], HalfFrom(calls'[n - 1]), HalfTo(calls'[n - 1]))
      <3>1. n - 1 + 1 = n /\ calls'[n - 1] = calls[n - 1]
        BY <1>5, <2>5
      <3>2. Covers(calls[n], HalfFrom(calls[n - 1]), HalfTo(calls[n - 1]))
        BY <1>7, <2>5, <3>1
      <3> QED
        BY <1>5, <1>6, <1>11, <3>1, <3>2 DEF Covers
    <2>6. \A k \in 1 .. n - 2 : Covers(calls'[k + 1], HalfFrom(calls'[k]), HalfTo(calls'[k]))
      BY <1>7, <2>3
    <2>7. \A k \in 1 .. n : k \in 1 .. n - 2 \/ (k = n - 1 /\ n - 1 \in 1 .. n - 1) \/ k = n
      OBVIOUS
    <2>8. \A k \in 1 .. n : Covers(calls'[k + 1], HalfFrom(calls'[k]), HalfTo(calls'[k]))
      BY <2>4, <2>5, <2>6, <2>7
    <2>9. \A k \in 1 .. Len(calls') - 1 : Covers(calls'[k + 1], HalfFrom(calls'[k]), HalfTo(calls'[k]))
      BY <1>5, <2>8
    <2> QED
      BY <1>1, <1>5, <2>1, <2>2, <2>9, NestedStays
  <1>13. (\A k \in 1 .. Len(calls) :
             calls[k].left # NoTuple =>
               Gives(calls[k].left, calls[k].opd, OperandSplit(calls[k])))'
    <2>1. Gives(w.left, w.opd, OperandSplit(w))
      BY <1>1, <1>7, <1>8, <1>9 DEF HalfFrom, HalfTo
    <2>2. \A k \in 1 .. n + 1 :
            calls'[k].left # NoTuple => Gives(calls'[k].left, calls'[k].opd, OperandSplit(calls'[k]))
      BY <1>5, <1>7, <1>8, <2>1
    <2> QED
      BY <1>1, <1>5, <2>2, LeftsStay
  <1>14. (calls # <<>> /\ returned = NoTuple => Current.left = NoTuple)'
    <2>1. Current' = r
      BY <1>5 DEF Current, Last
    <2> QED
      BY <1>8, <2>1
  <1>15. returned' = NoTuple /\ walk' = NoWalk
    BY <1>1, <1>2
  <1>16. ResultsMean'
    BY <1>13, <1>14, <1>15 DEF ResultsMean, Finished
  <1> QED
    BY <1>12, <1>16 DEF MeaningIInv

\* What MeaningIInv says of the innermost call.
LEMMA CurrentMeans ==
    ASSUME EvalIInv, MeaningIInv, calls # <<>>
    PROVE  /\ StartsGroup(Current)
           /\ Current.left # NoTuple =>
                Gives(Current.left, Current.opd, OperandSplit(Current))
           /\ Current \in Call /\ InRange(Current)
  <1>1. /\ Len(calls) \in 1 .. Len(calls) /\ Current = calls[Len(calls)]
        /\ InRange(Current)
    BY Lengths
  <1> QED
    BY <1>1 DEF MeaningIInv, Nested, ResultsMean, InRange

LEMMA CombineMeans ==
    ASSUME EvalIInv, MeaningIInv, Combine
    PROVE  MeaningIInv'
  <1>1. /\ calls # <<>> /\ returned # NoTuple /\ Current.left # NoTuple
        /\ returned' = Either(Current.left, returned)
        /\ calls' = Front(calls)
        /\ UNCHANGED <<parserVars, outcome, walk, evaluated>>
    BY DEF Combine
  <1>2. walk = NoWalk /\ returned \in Tuple /\ HasOr(Current)
    BY <1>1 DEF EvalIInv, WaitingCallsSplit, RangesMatch
  <1>3. /\ StartsGroup(Current) /\ InRange(Current) /\ Current.left \in Tuple
        /\ Gives(Current.left, Current.opd, OperandSplit(Current))
    BY <1>1, CurrentMeans DEF Call
  <1>4. Gives(returned, OperandSplit(Current), Current.opdEnd)
    BY <1>1 DEF MeaningIInv, ResultsMean, HalfFrom, HalfTo
  <1>5. /\ Current.opd \in Nat /\ OperandSplit(Current) \in Nat /\ Current.opdEnd \in Nat
        /\ 1 <= Current.opd /\ Current.opd < OperandSplit(Current)
        /\ OperandSplit(Current) < Current.opdEnd
        /\ isOR(OperandSplit(Current) - 1)
    BY <1>2, <1>3, HalvesOf
  <1>6. Gives(returned', Current.opd, Current.opdEnd)
    BY <1>1, <1>2, <1>3, <1>4, <1>5, EitherGives
  <1>7. returned' # NoTuple
    <2>1. \A l, r \in Tuple : Either(l, r) \in Tuple
      BY DEF Either, Tuple, Ok
    <2>2. returned' \in Tuple
      BY <1>1, <1>2, <1>3, <2>1
    <2> QED
      BY <2>2 DEF Tuple, NoTuple
  <1> QED
    BY <1>1, <1>2, <1>6, <1>7, ReturnMeans

\* A range without `or' is one group.
LEMMA OneGroup ==
    ASSUME EvalIInv, MeaningIInv, calls # <<>>, ~HasOr(Current)
    PROVE  /\ Current.op = Current.opd /\ Current.opEnd = Current.opdEnd - 1
           /\ Current.opd \in Nat /\ Current.opdEnd \in Nat
           /\ 1 <= Current.opd /\ Current.opd < Current.opdEnd
           /\ Current.opdEnd <= Len(operators) + 2
           /\ \A k \in Current.opd .. Current.opdEnd - 2 : ~isOR(k)
  <1>1. /\ Current.op \in Nat /\ Current.opEnd \in Nat
        /\ Current.opd \in Nat /\ Current.opdEnd \in Nat
        /\ Current.opd < Current.opdEnd
        /\ Current.opdEnd - Current.opd = Current.opEnd - Current.op + 1
    BY CurrentFields
  <1>2. Current.op = Current.opd /\ 1 <= Current.opd /\ Current.opEnd <= Len(operators) + 1
    BY CurrentMeans DEF StartsGroup, InRange
  <1>3. PICK op \in Nat, opEnd \in Nat, opdEnd \in Nat, m \in Nat :
          /\ op = Current.op /\ opEnd = Current.opEnd /\ opdEnd = Current.opdEnd
          /\ op = Current.opd /\ m = Len(operators)
    BY <1>1, <1>2, Lengths
  <1>4. opEnd = opdEnd - 1 /\ 1 <= op /\ op < opdEnd /\ opdEnd <= m + 2
    BY <1>1, <1>2, <1>3, SMTT(20)
  <1>5. \A k \in op .. opEnd - 1 : ~isOR(k)
    BY <1>3 DEF HasOr
  <1>6. \A k \in op .. opdEnd - 2 : ~isOR(k)
    BY <1>4, <1>5
  <1> QED
    BY <1>3, <1>4, <1>6

\* The walk has passed operands that do not fail, and carries their conjunction.
LEMMA WalkMeans ==
    ASSUME EvalIInv, MeaningIInv, calls # <<>>, returned = NoTuple,
           UNCHANGED <<parserVars, outcome, calls, returned>>, ~HasOr(Current),
           \A i \in Current.opd .. walk'.opd - 1 : ~OperandFails(i),
           walk'.result <=> \A i \in Current.opd .. walk'.opd - 1 : SignedValue(i)
    PROVE  MeaningIInv'
  <1>1. Current' = Current /\ calls' = calls /\ returned' = NoTuple
    BY DEF Current
  <1>2. /\ \A k \in 1 .. Len(calls) : StartsGroup(calls[k])
        /\ Covers(calls[1], 1, Len(operands) + 1)
        /\ \A k \in 1 .. Len(calls) - 1 :
             Covers(calls[k + 1], HalfFrom(calls[k]), HalfTo(calls[k]))
        /\ \A k \in 1 .. Len(calls) :
             calls[k].left # NoTuple => Gives(calls[k].left, calls[k].opd, OperandSplit(calls[k]))
        /\ Current.left = NoTuple
    BY DEF MeaningIInv, Nested, ResultsMean
  <1>3. Nested'
    BY <1>1, <1>2, NestedStays
  <1>4. (\A k \in 1 .. Len(calls) :
            calls[k].left # NoTuple =>
              Gives(calls[k].left, calls[k].opd, OperandSplit(calls[k])))'
    BY <1>1, <1>2, LeftsStay
  <1>5. /\ ~HasOr(Current)'
        /\ (\A i \in Current.opd .. walk.opd - 1 : ~OperandFails(i))'
        /\ (walk.result <=> \A i \in Current.opd .. walk.opd - 1 : SignedValue(i))'
    <2>1. ~HasOr(Current)'
      BY <1>1, HalvesStay
    <2>2. (\A i \in Current.opd .. walk.opd - 1 : ~OperandFails(i))'
      BY <1>1 DEF OperandFails, Name, parserVars
    <2>3. (walk.result <=> \A i \in Current.opd .. walk.opd - 1 : SignedValue(i))'
      BY <1>1 DEF SignedValue, Name, parserVars
    <2> QED
      BY <2>1, <2>2, <2>3
  <1>6. ResultsMean'
    BY <1>1, <1>2, <1>4, <1>5 DEF ResultsMean, Finished
  <1> QED
    BY <1>3, <1>6 DEF MeaningIInv

LEMMA TuplesAreThere ==
    /\ \A b : Ok(b) # NoTuple
    /\ \A i : Failed(i) # NoTuple
  BY DEF Ok, Failed, NoTuple

LEMMA FirstMeans ==
    ASSUME EvalIInv, MeaningIInv, EvaluateFirst
    PROVE  MeaningIInv'
  <1>1. /\ calls # <<>> /\ returned = NoTuple /\ walk = NoWalk /\ ~HasOr(Current)
        /\ UNCHANGED <<parserVars, outcome>>
    BY DEF EvaluateFirst, Entered
  <1>2. PICK a \in Nat, b \in Nat :
          /\ a = Current.opd /\ b = Current.opdEnd
          /\ 1 <= a /\ a < b
          /\ \A k \in a .. b - 2 : ~isOR(k)
    BY <1>1, OneGroup
  <1>3. PICK v \in BOOLEAN : v = SignedValue(a)
    BY DEF SignedValue
  <1>4. CASE OperandFails(a) /\ Leave(Failed(a))
    <2>1. a \in a .. b - 1 /\ \A j \in a .. a - 1 : ~OperandFails(j)
      BY <1>2
    <2>2. Gives(Failed(a), a, b)
      BY <1>2, <1>4, <2>1, FailureGives
    <2>3. /\ returned' # NoTuple /\ calls' = Front(calls) /\ walk' = NoWalk
          /\ Gives(returned', Current.opd, Current.opdEnd)
      BY <1>2, <1>4, <2>2, TuplesAreThere DEF Leave
    <2> QED
      BY <1>1, <2>3, ReturnMeans
  <1>5. CASE ~OperandFails(a) /\ b - a = 1 /\ Leave(Ok(v))
    <2>1. \A i \in a .. b - 1 : i = a
      BY <1>5
    <2>2. /\ \A i \in a .. b - 1 : ~OperandFails(i)
          /\ v <=> \A i \in a .. b - 1 : SignedValue(i)
      <3>1. a \in a .. b - 1
        BY <1>2
      <3> QED
        BY <1>3, <1>5, <2>1, <3>1
    <2>3. Gives(Ok(v), a, b)
      BY <1>2, <2>2, GroupGives
    <2>4. /\ returned' # NoTuple /\ calls' = Front(calls) /\ walk' = NoWalk
          /\ Gives(returned', Current.opd, Current.opdEnd)
      BY <1>2, <1>5, <2>3, TuplesAreThere DEF Leave
    <2> QED
      BY <1>1, <2>4, ReturnMeans
  <1>6. CASE /\ ~OperandFails(a)
             /\ walk' = [op |-> Current.op, opd |-> a + 1, result |-> v]
             /\ UNCHANGED <<returned, calls>>
    <2>1. walk'.opd - 1 = a /\ walk'.result = v
      BY <1>6
    <2>2. \A i \in a .. a : i = a
      OBVIOUS
    <2>3. /\ \A i \in a .. a : ~OperandFails(i)
          /\ v <=> \A i \in a .. a : SignedValue(i)
      <3>1. a \in a .. a
        OBVIOUS
      <3> QED
        BY <1>3, <1>6, <2>2, <3>1
    <2>4. /\ \A i \in Current.opd .. walk'.opd - 1 : ~OperandFails(i)
          /\ walk'.result <=> \A i \in Current.opd .. walk'.opd - 1 : SignedValue(i)
      BY <1>2, <2>1, <2>3
    <2> QED
      BY <1>1, <1>6, <2>4, WalkMeans
  <1> QED
    BY <1>2, <1>3, <1>4, <1>5, <1>6 DEF EvaluateFirst

\* Where the walk stands in its range, and what it carries.
LEMMA WalkStands ==
    ASSUME EvalIInv, MeaningIInv, walk # NoWalk
    PROVE  /\ calls # <<>> /\ returned = NoTuple /\ ~HasOr(Current)
           /\ walk.opd \in Current.opd .. Current.opdEnd
           /\ walk.op \in Current.opd .. Current.opdEnd - 1 /\ walk.op = walk.opd - 1
           /\ walk.result \in BOOLEAN
           /\ \A i \in Current.opd .. walk.opd - 1 : ~OperandFails(i)
           /\ walk.result <=> \A i \in Current.opd .. walk.opd - 1 : SignedValue(i)
           /\ AtEnd <=> walk.opd = Current.opdEnd
  <1>1. /\ calls # <<>> /\ returned = NoTuple
        /\ walk \in [op : Current.op .. Current.opEnd, opd : Current.opd .. Current.opdEnd,
                     result : BOOLEAN]
        /\ Current.opdEnd - walk.opd = Current.opEnd - walk.op
    BY DEF EvalIInv, RangesMatch, WaitingCallsSplit
  <1>2. /\ ~HasOr(Current)
        /\ \A i \in Current.opd .. walk.opd - 1 : ~OperandFails(i)
        /\ walk.result <=> \A i \in Current.opd .. walk.opd - 1 : SignedValue(i)
    BY DEF MeaningIInv, ResultsMean
  <1>3. PICK a \in Nat, b \in Nat :
          /\ a = Current.opd /\ b = Current.opdEnd /\ Current.op = a /\ Current.opEnd = b - 1
          /\ 1 <= a /\ a < b
    BY <1>1, <1>2, OneGroup
  <1>4. PICK i \in Nat, k \in Nat : /\ i = walk.opd /\ k = walk.op
                                    /\ i \in a .. b /\ k \in a .. b - 1
                                    /\ b - i = b - 1 - k
    BY <1>1, <1>3
  <1>5. k = i - 1 /\ (k = b - 1 <=> i = b)
    BY <1>4
  <1>6. AtEnd <=> i = b
    BY <1>3, <1>4, <1>5 DEF AtEnd
  <1> QED
    BY <1>1, <1>2, <1>3, <1>4, <1>5, <1>6

LEMMA NextMeans ==
    ASSUME EvalIInv, MeaningIInv, EvaluateNext
    PROVE  MeaningIInv'
  <1>1. walk # NoWalk /\ ~AtEnd /\ UNCHANGED <<parserVars, outcome>>
    BY DEF EvaluateNext
  <1>2. calls # <<>> /\ returned = NoTuple /\ ~HasOr(Current)
    BY <1>1, WalkStands
  <1>3. PICK a \in Nat, b \in Nat :
          /\ a = Current.opd /\ b = Current.opdEnd
          /\ 1 <= a /\ a < b /\ b <= Len(operators) + 2
          /\ \A k \in a .. b - 2 : ~isOR(k)
    BY <1>2, OneGroup
  <1>4. PICK i \in Nat : i = walk.opd /\ a <= i /\ i < b
    BY <1>1, <1>3, WalkStands
  <1>5. PICK result \in BOOLEAN :
          /\ result = walk.result
          /\ \A j \in a .. i - 1 : ~OperandFails(j)
          /\ result <=> \A j \in a .. i - 1 : SignedValue(j)
    BY <1>1, <1>3, <1>4, WalkStands
  <1>6. walk.op = i - 1 /\ i - 1 \in a .. b - 1
    BY <1>1, <1>3, <1>4, WalkStands
  <1>7. CASE OperandFails(i) /\ Leave(Failed(i))
    <2>1. i \in a .. b - 1
      BY <1>4
    <2>2. Gives(Failed(i), a, b)
      BY <1>3, <1>5, <1>7, <2>1, FailureGives
    <2>3. /\ returned' # NoTuple /\ calls' = Front(calls) /\ walk' = NoWalk
          /\ Gives(returned', Current.opd, Current.opdEnd)
      BY <1>3, <1>7, <2>2, TuplesAreThere DEF Leave
    <2> QED
      BY <1>1, <1>2, <2>3, ReturnMeans
  <1>8. CASE /\ ~OperandFails(i)
             /\ walk' = [op |-> walk.op + 1, opd |-> i + 1, result |->
                            evaluateExpression(result, operators[walk.op], SignedValue(i))]
             /\ UNCHANGED <<returned, calls>>
    <2>1. operators[walk.op] = "and"
      <3>1. walk.op \in 1 .. Len(operators) /\ walk.op \in a .. b - 2
        <4>1. PICK m \in Nat : m = Len(operators)
          BY Lengths
        <4> QED
          BY <1>3, <1>4, <1>6, <4>1
      <3>2. operators[walk.op] \in {"and", "or"}
        BY <3>1, ElementOfSeq DEF EvalIInv, VectorsFit
      <3> QED
        BY <1>3, <3>1, <3>2 DEF isOR
    <2>2. walk'.opd - 1 = i /\ walk'.result = (result /\ SignedValue(i))
      BY <1>8, <2>1 DEF evaluateExpression
    <2>3. a .. i = (a .. i - 1) \cup {i}
      BY <1>4
    <2>4. /\ \A j \in a .. i : ~OperandFails(j)
          /\ (result /\ SignedValue(i)) <=> \A j \in a .. i : SignedValue(j)
      BY <1>5, <1>8, <2>3
    <2>5. /\ \A j \in Current.opd .. walk'.opd - 1 : ~OperandFails(j)
          /\ walk'.result <=> \A j \in Current.opd .. walk'.opd - 1 : SignedValue(j)
      BY <1>3, <2>2, <2>4
    <2> QED
      BY <1>1, <1>2, <1>8, <2>5, WalkMeans
  <1> QED
    BY <1>4, <1>5, <1>7, <1>8 DEF EvaluateNext

LEMMA EndMeans ==
    ASSUME EvalIInv, MeaningIInv, ReachEnd
    PROVE  MeaningIInv'
  <1>1. walk # NoWalk /\ AtEnd /\ Leave(Ok(walk.result)) /\ UNCHANGED <<parserVars, outcome>>
    BY DEF ReachEnd
  <1>2. calls # <<>> /\ ~HasOr(Current)
    BY <1>1, WalkStands
  <1>3. PICK a \in Nat, b \in Nat :
          /\ a = Current.opd /\ b = Current.opdEnd
          /\ a < b
          /\ \A k \in a .. b - 2 : ~isOR(k)
    BY <1>2, OneGroup
  <1>4. PICK v \in BOOLEAN :
          /\ v = walk.result
          /\ \A j \in a .. b - 1 : ~OperandFails(j)
          /\ v <=> \A j \in a .. b - 1 : SignedValue(j)
    BY <1>1, <1>3, WalkStands
  <1>5. Gives(Ok(v), a, b)
    BY <1>3, <1>4, GroupGives
  <1>6. /\ returned' # NoTuple /\ calls' = Front(calls) /\ walk' = NoWalk
        /\ Gives(returned', Current.opd, Current.opdEnd)
    BY <1>1, <1>3, <1>4, <1>5, TuplesAreThere DEF Leave
  <1> QED
    BY <1>1, <1>2, <1>6, ReturnMeans

\* Nothing is evaluated while the parser runs.
LEMMA ParseMeans ==
    ASSUME EvalIInv, MeaningIInv, Parse
    PROVE  MeaningIInv'
  <1>1. status # "ok" /\ UNCHANGED evalVars
    BY DEF Parse, Parser!Step, Parser!RejectEmpty, Parser!RejectLeadingOperator,
       Parser!EnterLoop, Parser!RejectOperator, Parser!TakeOperator,
       Parser!RejectNegatedOperator, Parser!RejectUndeclared, Parser!TakeOperand,
       Parser!Finish, Parser!InLoop, Parser!PassesOperatorChecks, Parser!TermStarts
  <1>2. calls = <<>> /\ walk = NoWalk /\ returned = NoTuple
    BY <1>1 DEF EvalIInv, VectorsFit
  <1>3. calls' = <<>> /\ Len(calls') = 0 /\ walk' = NoWalk /\ returned' = NoTuple
    BY <1>1, <1>2, EmptySeq DEF evalVars
  <1> QED
    BY <1>3 DEF MeaningIInv, Nested, ResultsMean, Finished

LEMMA ExecuteMeans ==
    ASSUME EvalIInv, Execute
    PROVE  MeaningIInv'
  <1>1. /\ calls = <<>> /\ returned = NoTuple
        /\ UNCHANGED <<parserVars, walk, returned, evaluated>>
    BY DEF Execute
  <1>2. walk = NoWalk
    BY <1>1 DEF EvalIInv, RangesMatch
  <1>3. PICK c : c = [op |-> 1, opEnd |-> Len(operators) + 1,
                      opd |-> 1, opdEnd |-> Len(operands) + 1, left |-> NoTuple]
    OBVIOUS
  <1>4. /\ calls' = <<c>> /\ Len(calls') = 1 /\ calls'[1] = c /\ Current' = c
        /\ \A k \in 1 .. 1 : k = 1
    BY <1>3 DEF Execute, Current, Last
  <1>5. /\ c.op = 1 /\ c.opd = 1 /\ c.opdEnd = Len(operands) + 1 /\ c.left = NoTuple
    BY <1>3
  <1>6. operands' = operands
    BY <1>1 DEF parserVars
  <1>7. Nested'
    BY <1>4, <1>5, <1>6 DEF Nested, StartsGroup, Covers
  <1>8. walk' = NoWalk /\ returned' = NoTuple /\ calls' # <<>>
    BY <1>1, <1>2, <1>4
  <1>9. ResultsMean'
    BY <1>4, <1>5, <1>8 DEF ResultsMean, Finished
  <1> QED
    BY <1>7, <1>9 DEF MeaningIInv

LEMMA StutterMeans ==
    ASSUME MeaningIInv, UNCHANGED vars
    PROVE  MeaningIInv'
  <1>1. UNCHANGED <<parserVars, outcome>> /\ UNCHANGED <<calls, walk, returned>>
    BY DEF vars, evalVars
  <1>2. Current' = Current
    BY <1>1 DEF Current
  <1>3. Nested'
    BY <1>1, NestedStays DEF MeaningIInv, Nested
  <1>4. (\A k \in 1 .. Len(calls) :
            calls[k].left # NoTuple =>
              Gives(calls[k].left, calls[k].opd, OperandSplit(calls[k])))'
    BY <1>1, LeftsStay DEF MeaningIInv, ResultsMean
  <1>5. (Finished => Gives(returned, 1, Len(operands) + 1))'
    BY <1>1, GivesStays DEF MeaningIInv, ResultsMean, Finished, parserVars
  <1>6. (calls # <<>> /\ returned # NoTuple =>
           Gives(returned, HalfFrom(Current), HalfTo(Current)))'
    BY <1>1, <1>2, GivesStays, HalvesStay DEF MeaningIInv, ResultsMean
  <1>7. (walk # NoWalk =>
          /\ ~HasOr(Current)
          /\ \A i \in Current.opd .. walk.opd - 1 : ~OperandFails(i)
          /\ walk.result <=> \A i \in Current.opd .. walk.opd - 1 : SignedValue(i))'
    BY <1>1, <1>2 DEF MeaningIInv, ResultsMean, HasOr, isOR, OperandFails, SignedValue, Name,
       parserVars
  <1>8. ResultsMean'
    BY <1>1, <1>2, <1>4, <1>5, <1>6, <1>7 DEF MeaningIInv, ResultsMean
  <1> QED
    BY <1>3, <1>8 DEF MeaningIInv

----------------------------------------------------------------------------
\* The parser leaves one operand more than operators, and every call and walk
\* stays within its range of them.
THEOREM EvaluatorInvariant == Spec => []EvalIInv
  <1>1. Init => EvalIInv
    BY EmptySeq DEF Init, Parser!Init, EvalIInv, VectorsFit, WaitingCallsSplit, RangesMatch
  <1>2. EvalIInv /\ [Next]_vars => EvalIInv'
    <2> SUFFICES ASSUME EvalIInv, [Next]_vars PROVE EvalIInv'
      OBVIOUS
    <2>1. CASE Evaluate
      BY <2>1, CallLeftKeepsInvariant, CallRightKeepsInvariant, CombineKeepsInvariant,
         FirstKeepsInvariant, NextKeepsInvariant, EndKeepsInvariant DEF Evaluate
    <2>2. CASE UNCHANGED vars
      BY <2>2 DEF vars, evalVars, parserVars, EvalIInv, VectorsFit, WaitingCallsSplit,
         RangesMatch, InRange, HasOr, isOR, Current
    <2> QED
      BY <2>1, <2>2, ParseKeepsInvariant, ExecuteKeepsInvariant DEF Next, Stopped
  <1> QED
    BY <1>1, <1>2, PTL DEF Spec

\* No iterator of the evaluation leaves its range: neither vector is read past
\* its end.
THEOREM EvaluatorRanges == Spec => []RangesMatch
  BY EvaluatorInvariant, PTL DEF EvalIInv

\* What has been returned is, in every state, the meaning of the operands it
\* covers.
THEOREM EvaluatorMeaning == Spec => []MeaningIInv
  <1>1. Init => MeaningIInv
    BY EmptySeq DEF Init, MeaningIInv, Nested, ResultsMean, Finished
  <1>2. EvalIInv /\ MeaningIInv /\ [Next]_vars => MeaningIInv'
    <2> SUFFICES ASSUME EvalIInv, MeaningIInv, [Next]_vars PROVE MeaningIInv'
      OBVIOUS
    <2>1. CASE Evaluate
      BY <2>1, CallLeftMeans, CallRightMeans, CombineMeans, FirstMeans, NextMeans, EndMeans
      DEF Evaluate
    <2> QED
      BY <2>1, ParseMeans, ExecuteMeans, StutterMeans DEF Next, Stopped
  <1> QED
    BY <1>1, <1>2, EvaluatorInvariant, PTL DEF Spec

\* The status that a condition reports is that of the leftmost operand that
\* fails, for every expression and every outcome of its variables.
THEOREM LeftmostIsReported == Spec => []ReportsLeftmost
  <1>1. EvalIInv /\ MeaningIInv => ReportsLeftmost
    <2> SUFFICES ASSUME EvalIInv, MeaningIInv, Finished
                 PROVE  LET failing == {i \in DOMAIN operands : OperandFails(i)}
                        IN  IF failing = {} THEN returned.failed = 0
                            ELSE /\ returned.failed \in failing
                                 /\ \A i \in failing : returned.failed <= i
      BY DEF ReportsLeftmost
    <2>1. PICK n \in Nat : n = Len(operands) /\ DOMAIN operands = 1 .. n
      BY LenProperties DEF EvalIInv, VectorsFit
    <2>2. Gives(returned, 1, n + 1)
      BY <2>1 DEF MeaningIInv, ResultsMean
    <2>3. 1 .. n + 1 - 1 = 1 .. n
      BY <2>1
    <2>4. CASE returned.failed = 0
      BY <2>1, <2>2, <2>3, <2>4 DEF Gives
    <2>5. CASE returned.failed # 0
      <3>1. PICK f \in 1 .. n : /\ f = returned.failed /\ OperandFails(f)
                                /\ \A i \in 1 .. f - 1 : ~OperandFails(i)
        BY <2>2, <2>3, <2>5 DEF Gives
      <3>2. \A i \in 1 .. n : OperandFails(i) => f <= i
        BY <3>1
      <3> QED
        BY <2>1, <3>1, <3>2
    <2> QED
      BY <2>4, <2>5
  <1> QED
    BY <1>1, EvaluatorInvariant, EvaluatorMeaning, PTL

----------------------------------------------------------------------------
\* The order of evaluation.

\* What a push leaves, for a sequence of positions.
Extends(e, s, f) ==
    /\ e \in Seq(Nat) /\ Len(e) = Len(s) + 1
    /\ \A k \in 1 .. Len(s) : e[k] = s[k]
    /\ e[Len(s) + 1] = f

LEMMA PushExtends ==
    ASSUME NEW s \in Seq(Nat), NEW f \in Nat
    PROVE  Extends(Append(s, f), s, f)
  BY AppendProperties DEF Extends

\* An operand is due as long as it was.
LEMMA DueStays ==
    ASSUME UNCHANGED <<parserVars, outcome>>, NEW i
    PROVE  Due(i)' <=> Due(i)
  BY DEF Due, SameAnds, OperandFails, Name, parserVars

\* Steps that evaluate nothing move the frontier nowhere.
LEMMA OrderStays ==
    ASSUME OrderIInv, UNCHANGED <<parserVars, outcome, evaluated>>, Frontier' = Frontier
    PROVE  OrderIInv'
  BY DueStays DEF OrderIInv, InOrderUpTo

\* One more operand, at the frontier, that is due; what the step skips is not.
LEMMA AppendInOrder ==
    ASSUME UNCHANGED <<parserVars, outcome>>,
           NEW f \in Nat, NEW g \in Nat, InOrderUpTo(f), 1 <= f, f < g,
           evaluated' = Append(evaluated, f), Due(f), \A i \in f + 1 .. g - 1 : ~Due(i)
    PROVE  InOrderUpTo(g)'
  <1>1. /\ evaluated \in Seq(Nat)
        /\ \A k \in 1 .. Len(evaluated) : evaluated[k] \in 1 .. f - 1
        /\ \A k \in 1 .. Len(evaluated) - 1 : evaluated[k] < evaluated[k + 1]
        /\ \A i \in 1 .. f - 1 : i \in Range(evaluated) <=> Due(i)
    BY DEF InOrderUpTo
  <1>2. PICK n \in Nat : n = Len(evaluated)
    BY <1>1
  <1>3. PICK e : e = evaluated'
    OBVIOUS
  <1>4. /\ e \in Seq(Nat) /\ Len(e) = n + 1
        /\ \A k \in 1 .. n : e[k] = evaluated[k]
        /\ e[n + 1] = f
    <2>1. Extends(Append(evaluated, f), evaluated, f)
      BY <1>1, PushExtends
    <2>2. Extends(e, evaluated, f)
      BY <1>3, <2>1, Zenon
    <2> QED
      BY <1>2, <2>2 DEF Extends
  <1>5. \A k \in 1 .. n + 1 : e[k] \in 1 .. g - 1
    <2>1. \A k \in 1 .. n : e[k] \in 1 .. f - 1
      BY <1>1, <1>2, <1>4
    <2>2. \A x \in 1 .. f - 1 : x \in 1 .. g - 1
      OBVIOUS
    <2>3. e[n + 1] \in 1 .. g - 1
      BY <1>4
    <2>4. \A k \in 1 .. n + 1 : k = n + 1 \/ k \in 1 .. n
      OBVIOUS
    <2> QED
      BY <2>1, <2>2, <2>3, <2>4
  <1>6. \A k \in 1 .. n : e[k] < e[k + 1]
    <2>1. \A k \in 1 .. n - 1 : e[k] = evaluated[k] /\ e[k + 1] = evaluated[k + 1]
      BY <1>4
    <2>2. \A k \in 1 .. n : e[k] < f
      BY <1>1, <1>2, <1>4
    <2>3. \A k \in 1 .. n : k = n \/ k \in 1 .. n - 1
      OBVIOUS
    <2> QED
      BY <1>1, <1>2, <1>4, <2>1, <2>2, <2>3
  <1>7. Range(e) = Range(evaluated) \cup {f}
    <2>1. DOMAIN e = 1 .. n + 1 /\ DOMAIN evaluated = 1 .. n
      BY <1>1, <1>2, <1>4, LenProperties
    <2>2. \A k \in 1 .. n + 1 : k = n + 1 \/ k \in 1 .. n
      OBVIOUS
    <2> QED
      BY <1>4, <2>1, <2>2, SMTT(20) DEF Range
  <1>8. \A i \in Range(evaluated) : i < f
    <2>1. DOMAIN evaluated = 1 .. Len(evaluated)
      BY <1>1, LenProperties
    <2> QED
      BY <1>1, <2>1 DEF Range
  <1>9. \A i \in 1 .. g - 1 : i \in Range(e) <=> Due(i)
    <2> TAKE i \in 1 .. g - 1
    <2>1. CASE i \in 1 .. f - 1
      BY <1>1, <1>7, <2>1
    <2>2. CASE i = f
      BY <1>7, <2>2
    <2>3. CASE i \in f + 1 .. g - 1
      BY <1>7, <1>8, <2>3
    <2> QED
      BY <2>1, <2>2, <2>3
  <1> QED
    BY <1>3, <1>4, <1>5, <1>6, <1>9, DueStays DEF InOrderUpTo

LEMMA OrderGrows ==
    ASSUME OrderIInv, UNCHANGED <<parserVars, outcome>>,
           NEW f \in Nat, NEW g \in Nat, f = Frontier, g = Frontier', 1 <= f, f < g,
           evaluated' = Append(evaluated, f), Due(f), \A i \in f + 1 .. g - 1 : ~Due(i)
    PROVE  OrderIInv'
  BY AppendInOrder DEF OrderIInv

\* A call that returns leaves the frontier at its end.
LEMMA ReturnFrontier ==
    ASSUME EvalIInv, MeaningIInv, calls # <<>>, calls' = Front(calls), returned' # NoTuple,
           walk' = NoWalk, UNCHANGED <<parserVars, outcome>>
    PROVE  Frontier' = Current.opdEnd
  <1>1. PICK n \in Nat : n = Len(calls) /\ n > 0
    <2>1. Len(calls) \in Nat \ {0}
      BY Lengths
    <2> QED
      BY <2>1
  <1>2. /\ calls' \in Seq(Call) /\ Len(calls') = n - 1
        /\ \A k \in 1 .. n - 1 : calls'[k] = calls[k]
        /\ Current = calls[n]
    BY <1>1, Lengths
  <1>3. CASE calls' = <<>>
    <2>1. PICK m : m = Len(calls')
      OBVIOUS
    <2>2. m = n - 1
      BY <1>2, <2>1
    <2>3. m = 0
      BY <1>3, <2>1, EmptySeq, Zenon
    <2>4. Current.opdEnd = Len(operands) + 1
      <3>1. n = 1
        BY <2>2, <2>3
      <3> QED
        BY <1>2, <3>1 DEF MeaningIInv, Nested, Covers
    <2>5. Frontier' = Len(operands') + 1
      BY <1>3 DEF Frontier
    <2> QED
      BY <2>4, <2>5 DEF parserVars
  <1>4. CASE calls' # <<>>
    <2>1. n - 1 \in 1 .. n - 1 /\ n - 1 + 1 = n
      <3>1. Len(calls') \in Nat \ {0}
        BY <1>2, <1>4, EmptySeq
      <3> QED
        BY <1>1, <1>2, <3>1
    <2>2. Current' = calls[n - 1]
      BY <1>2, <2>1 DEF Current, Last
    <2>3. HalfTo(calls[n - 1]) = calls[n].opdEnd
      BY <1>1, <2>1 DEF MeaningIInv, Nested, Covers
    <2>4. Frontier' = HalfTo(Current)'
      BY <1>4 DEF Frontier
    <2>5. HalfTo(Current)' = HalfTo(calls[n - 1])
      BY <2>2, HalvesStay
    <2> QED
      BY <1>2, <2>3, <2>4, <2>5
  <1> QED
    BY <1>3, <1>4

LEMMA CallLeftInOrder ==
    ASSUME EvalIInv, MeaningIInv, OrderIInv, CallLeft
    PROVE  OrderIInv'
  <1>1. /\ calls # <<>> /\ returned = NoTuple /\ walk = NoWalk
        /\ UNCHANGED <<parserVars, outcome, walk, returned, evaluated>>
    BY DEF CallLeft, Entered
  <1>2. PICK n \in Nat : n = Len(calls)
    BY Lengths
  <1>3. PICK l : l = LeftHalf
    OBVIOUS
  <1>4. n > 0 /\ Len(calls') = n + 1 /\ calls'[n + 1] = l /\ calls' \in Seq(Call)
    BY <1>2, <1>3, LeftPushed
  <1>5. Current \in Call
    BY <1>1, Lengths DEF InRange
  <1>6. l.opd = Current.opd
    BY <1>3, <1>5 DEF Call, LeftHalf
  <1>7. Current' = l /\ calls' # <<>>
    <2>1. Current' = l
      BY <1>4 DEF Current, Last
    <2>2. calls' # <<>>
      BY DEF CallLeft
    <2> QED
      BY <2>1, <2>2
  <1>8. Frontier = Current.opd /\ Frontier' = Current'.opd
    BY <1>1, <1>7 DEF Frontier
  <1> QED
    BY <1>1, <1>6, <1>7, <1>8, OrderStays

LEMMA CallRightInOrder ==
    ASSUME EvalIInv, MeaningIInv, OrderIInv, CallRight
    PROVE  OrderIInv'
  <1>1. /\ calls # <<>> /\ returned # NoTuple /\ returned' = NoTuple /\ Current.left = NoTuple
        /\ UNCHANGED <<parserVars, outcome, walk, evaluated>>
    BY DEF CallRight
  <1>2. walk = NoWalk
    BY <1>1 DEF EvalIInv, WaitingCallsSplit
  <1>3. PICK n \in Nat : n = Len(calls)
    BY Lengths
  <1>4. PICK r : r = RightHalf
    OBVIOUS
  <1>5. n > 0 /\ Len(calls') = n + 1 /\ calls'[n + 1] = r /\ calls' \in Seq(Call)
    BY <1>3, <1>4, RightPushed
  <1>6. Current \in Call
    BY <1>1, Lengths DEF InRange
  <1>7. r.opd = OperandSplit(Current)
    BY <1>4, <1>6 DEF Call, RightHalf
  <1>8. Current' = r /\ calls' # <<>>
    <2>1. Current' = r
      BY <1>5 DEF Current, Last
    <2>2. calls' # <<>>
      <3>1. PICK m : m = Len(calls')
        OBVIOUS
      <3>2. m # 0
        BY <1>5, <3>1
      <3> QED
        BY <3>1, <3>2, EmptySeq, Zenon
    <2> QED
      BY <2>1, <2>2
  <1>9. Frontier = HalfTo(Current) /\ Frontier' = Current'.opd
    BY <1>1, <1>2, <1>8 DEF Frontier
  <1>10. HalfTo(Current) = OperandSplit(Current)
    BY <1>1 DEF HalfTo
  <1> QED
    BY <1>1, <1>7, <1>8, <1>9, <1>10, OrderStays

LEMMA CombineInOrder ==
    ASSUME EvalIInv, MeaningIInv, OrderIInv, Combine
    PROVE  OrderIInv'
  <1>1. /\ calls # <<>> /\ returned # NoTuple /\ Current.left # NoTuple
        /\ returned' = Either(Current.left, returned)
        /\ calls' = Front(calls)
        /\ UNCHANGED <<parserVars, outcome, walk, evaluated>>
    BY DEF Combine
  <1>2. walk = NoWalk /\ returned \in Tuple
    BY <1>1 DEF EvalIInv, WaitingCallsSplit, RangesMatch
  <1>3. returned' # NoTuple
    <2>1. Current.left \in Tuple
      BY <1>1, CurrentMeans DEF Call
    <2>2. \A l, r \in Tuple : Either(l, r) \in Tuple
      BY DEF Either, Tuple, Ok
    <2>3. returned' \in Tuple
      BY <1>1, <1>2, <2>1, <2>2
    <2> QED
      BY <2>3 DEF Tuple, NoTuple
  <1>4. Frontier' = Current.opdEnd
    BY <1>1, <1>2, <1>3, ReturnFrontier
  <1>5. Frontier = Current.opdEnd
    BY <1>1, <1>2 DEF Frontier, HalfTo
  <1> QED
    BY <1>1, <1>4, <1>5, OrderStays

\* In a group, an operand is due as long as none before it has failed; the
\* first one always is.
LEMMA DueInGroup ==
    ASSUME EvalIInv, MeaningIInv, calls # <<>>, ~HasOr(Current),
           NEW i \in Current.opd .. Current.opdEnd - 1
    PROVE  Due(i) <=> \A j \in Current.opd .. i - 1 : ~OperandFails(j)
  <1>1. PICK a \in Nat, b \in Nat :
          /\ a = Current.opd /\ b = Current.opdEnd
          /\ 1 <= a /\ a < b
          /\ \A k \in a .. b - 2 : ~isOR(k)
    BY OneGroup
  <1>2. a > 1 => isOR(a - 1)
    BY <1>1, CurrentMeans DEF StartsGroup
  <1>3. \A j \in 1 .. a - 1 : ~SameAnds(j, i)
    BY <1>1, <1>2 DEF SameAnds, isOR
  <1>4. \A j \in a .. i - 1 : SameAnds(j, i)
    BY <1>1 DEF SameAnds, isOR
  <1>5. 1 .. i - 1 = (1 .. a - 1) \cup (a .. i - 1)
    BY <1>1
  <1> QED
    BY <1>1, <1>3, <1>4, <1>5 DEF Due

LEMMA FirstInOrder ==
    ASSUME EvalIInv, MeaningIInv, OrderIInv, EvaluateFirst
    PROVE  OrderIInv'
  <1>1. /\ calls # <<>> /\ returned = NoTuple /\ walk = NoWalk /\ ~HasOr(Current)
        /\ UNCHANGED <<parserVars, outcome>>
    BY DEF EvaluateFirst, Entered
  <1>2. PICK a \in Nat, b \in Nat :
          /\ a = Current.opd /\ b = Current.opdEnd
          /\ 1 <= a /\ a < b
    BY <1>1, OneGroup
  <1>3. Frontier = a /\ evaluated' = Append(evaluated, a)
    BY <1>1, <1>2 DEF Frontier, EvaluateFirst
  <1>4. Due(a)
    BY <1>1, <1>2, DueInGroup
  <1>5. ASSUME NEW t, t # NoTuple, Leave(t) PROVE Frontier' = b
    BY <1>1, <1>2, <1>5, ReturnFrontier DEF Leave
  <1>6. CASE OperandFails(a) /\ Leave(Failed(a))
    <2>1. Frontier' = b
      BY <1>5, <1>6, TuplesAreThere
    <2>2. \A i \in a + 1 .. b - 1 : ~Due(i)
      BY <1>1, <1>2, <1>6, DueInGroup
    <2> QED
      BY <1>1, <1>2, <1>3, <1>4, <2>1, <2>2, OrderGrows
  <1>7. CASE b - a = 1 /\ Leave(Ok(SignedValue(a)))
    <2>1. Frontier' = b
      BY <1>5, <1>7, TuplesAreThere
    <2>2. \A i \in a + 1 .. b - 1 : ~Due(i)
      BY <1>2, <1>7
    <2> QED
      BY <1>1, <1>2, <1>3, <1>4, <2>1, <2>2, OrderGrows
  <1>8. CASE /\ walk' = [op |-> Current.op, opd |-> a + 1, result |-> SignedValue(a)]
             /\ UNCHANGED <<returned, calls>>
    <2>1. walk' # NoWalk
      BY <1>8 DEF NoWalk
    <2>2. Frontier' = a + 1
      BY <1>8, <2>1 DEF Frontier
    <2>3. \A i \in a + 1 .. a + 1 - 1 : ~Due(i)
      BY <1>2
    <2> QED
      BY <1>1, <1>2, <1>3, <1>4, <2>2, <2>3, OrderGrows
  <1> QED
    BY <1>2, <1>6, <1>7, <1>8 DEF EvaluateFirst

LEMMA NextInOrder ==
    ASSUME EvalIInv, MeaningIInv, OrderIInv, EvaluateNext
    PROVE  OrderIInv'
  <1>1. walk # NoWalk /\ ~AtEnd /\ UNCHANGED <<parserVars, outcome>>
    BY DEF EvaluateNext
  <1>2. calls # <<>> /\ returned = NoTuple /\ ~HasOr(Current)
    BY <1>1, WalkStands
  <1>3. PICK a \in Nat, b \in Nat :
          /\ a = Current.opd /\ b = Current.opdEnd
          /\ 1 <= a /\ a < b
    BY <1>2, OneGroup
  <1>4. PICK i \in Nat : /\ i = walk.opd /\ a <= i /\ i < b
                         /\ \A j \in a .. i - 1 : ~OperandFails(j)
    BY <1>1, <1>3, WalkStands
  <1>5. Frontier = i /\ evaluated' = Append(evaluated, i) /\ 1 <= i
    BY <1>1, <1>3, <1>4 DEF Frontier, EvaluateNext
  <1>6. Due(i)
    BY <1>2, <1>3, <1>4, DueInGroup
  <1>7. CASE OperandFails(i) /\ Leave(Failed(i))
    <2>1. Frontier' = b
      BY <1>1, <1>2, <1>3, <1>7, TuplesAreThere, ReturnFrontier DEF Leave
    <2>2. \A j \in i + 1 .. b - 1 : ~Due(j)
      <3> TAKE j \in i + 1 .. b - 1
      <3>1. j \in a .. b - 1 /\ i \in a .. j - 1
        BY <1>3, <1>4
      <3> QED
        BY <1>2, <1>3, <1>7, <3>1, DueInGroup
    <2> QED
      BY <1>1, <1>3, <1>4, <1>5, <1>6, <2>1, <2>2, OrderGrows
  <1>8. CASE \E k, v : walk' = [op |-> k, opd |-> i + 1, result |-> v]
    <2>1. walk' # NoWalk /\ walk'.opd = i + 1
      BY <1>8 DEF NoWalk
    <2>2. Frontier' = i + 1
      BY <2>1 DEF Frontier
    <2>3. \A j \in i + 1 .. i + 1 - 1 : ~Due(j)
      BY <1>4
    <2> QED
      BY <1>1, <1>4, <1>5, <1>6, <2>2, <2>3, OrderGrows
  <1> QED
    BY <1>4, <1>7, <1>8 DEF EvaluateNext

LEMMA EndInOrder ==
    ASSUME EvalIInv, MeaningIInv, OrderIInv, ReachEnd
    PROVE  OrderIInv'
  <1>1. /\ walk # NoWalk /\ AtEnd /\ Leave(Ok(walk.result))
        /\ UNCHANGED <<parserVars, outcome, evaluated>>
    BY DEF ReachEnd
  <1>2. calls # <<>> /\ walk.opd = Current.opdEnd
    BY <1>1, WalkStands
  <1>3. Frontier' = Current.opdEnd
    BY <1>1, <1>2, TuplesAreThere, ReturnFrontier DEF Leave
  <1>4. Frontier = Current.opdEnd
    BY <1>1, <1>2 DEF Frontier
  <1> QED
    BY <1>1, <1>3, <1>4, OrderStays

\* Before the evaluation begins nothing has been evaluated.
LEMMA BeforeEvaluation ==
    ASSUME OrderIInv, Frontier = 1, evaluated' = evaluated, Frontier' = 1
    PROVE  OrderIInv'
  BY DEF OrderIInv, InOrderUpTo

LEMMA ParseInOrder ==
    ASSUME EvalIInv, OrderIInv, Parse
    PROVE  OrderIInv'
  <1>1. status # "ok" /\ UNCHANGED evalVars
    BY DEF Parse, Parser!Step, Parser!RejectEmpty, Parser!RejectLeadingOperator,
       Parser!EnterLoop, Parser!RejectOperator, Parser!TakeOperator,
       Parser!RejectNegatedOperator, Parser!RejectUndeclared, Parser!TakeOperand,
       Parser!Finish, Parser!InLoop, Parser!PassesOperatorChecks, Parser!TermStarts
  <1>2. calls = <<>> /\ walk = NoWalk /\ returned = NoTuple
    BY <1>1 DEF EvalIInv, VectorsFit
  <1>3. Frontier = 1 /\ Frontier' = 1 /\ evaluated' = evaluated
    BY <1>1, <1>2 DEF Frontier, evalVars
  <1> QED
    BY <1>3, BeforeEvaluation

LEMMA ExecuteInOrder ==
    ASSUME EvalIInv, OrderIInv, Execute
    PROVE  OrderIInv'
  <1>1. calls = <<>> /\ returned = NoTuple /\ UNCHANGED <<walk, returned, evaluated>>
    BY DEF Execute
  <1>2. walk = NoWalk
    BY <1>1 DEF EvalIInv, RangesMatch
  <1>3. Current'.opd = 1 /\ calls' # <<>>
    BY DEF Execute, Current, Last
  <1>4. Frontier = 1 /\ Frontier' = 1
    BY <1>1, <1>2, <1>3 DEF Frontier
  <1> QED
    BY <1>1, <1>4, BeforeEvaluation

\* In every state, the operands before the frontier have had their turn.
THEOREM EvaluatorOrder == Spec => []OrderIInv
  <1>1. Init => OrderIInv
    BY EmptySeq DEF Init, OrderIInv, InOrderUpTo, Frontier
  <1>2. EvalIInv /\ MeaningIInv /\ OrderIInv /\ [Next]_vars => OrderIInv'
    <2> SUFFICES ASSUME EvalIInv, MeaningIInv, OrderIInv, [Next]_vars PROVE OrderIInv'
      OBVIOUS
    <2>1. CASE Evaluate
      BY <2>1, CallLeftInOrder, CallRightInOrder, CombineInOrder, FirstInOrder, NextInOrder,
         EndInOrder
      DEF Evaluate
    <2>2. CASE UNCHANGED vars
      <3>1. UNCHANGED <<parserVars, outcome, evaluated>> /\ UNCHANGED <<calls, walk, returned>>
        BY <2>2 DEF vars, evalVars
      <3>2. HalfTo(Current)' = HalfTo(Current)
        BY <3>1, HalvesStay DEF Current
      <3>3. Frontier' = Frontier
        BY <3>1, <3>2 DEF Frontier, Current, parserVars
      <3> QED
        BY <3>1, <3>3, OrderStays
    <2> QED
      BY <2>1, <2>2, ParseInOrder, ExecuteInOrder DEF Next, Stopped
  <1> QED
    BY <1>1, <1>2, EvaluatorInvariant, EvaluatorMeaning, PTL DEF Spec

\* Operands are evaluated from left to right, none twice, and an operand is left
\* out exactly when one before it in its own group has failed.
THEOREM OperandsInOrder == Spec => []EvaluatesInOrder
  <1>1. EvalIInv /\ OrderIInv => EvaluatesInOrder
    <2> SUFFICES ASSUME EvalIInv, OrderIInv PROVE EvaluatesInOrder
      OBVIOUS
    <2>1. ASSUME Finished
          PROVE  \A i \in DOMAIN operands : i \in Range(evaluated) <=> Due(i)
      <3>1. PICK n \in Nat : n = Len(operands) /\ DOMAIN operands = 1 .. n
        BY LenProperties DEF EvalIInv, VectorsFit
      <3>2. Frontier = n + 1
        BY <2>1, <3>1 DEF Finished, EvalIInv, WaitingCallsSplit, Frontier
      <3>3. n + 1 - 1 = n
        OBVIOUS
      <3> QED
        BY <3>1, <3>2, <3>3 DEF OrderIInv, InOrderUpTo
    <2> QED
      BY <2>1 DEF EvaluatesInOrder, OrderIInv, InOrderUpTo
  <1> QED
    BY <1>1, EvaluatorInvariant, EvaluatorOrder, PTL

----------------------------------------------------------------------------
(***************************************************************************)
(* From the tokens of an expression to the two vectors.  Operands and      *)
(* binary operators alternate, so the number that the scan gives to an     *)
(* operator is below that of an operand exactly when it stands before it.  *)
(***************************************************************************)

BinaryOperators(c) == {i \in 1 .. Len(c) : isBinaryOperator(c[i])}

\* Up to any token of an expression there are as many operands as binary
\* operators, or one more when the token is an operand.
LEMMA Balance ==
    ASSUME NEW c \in Seq(STRING), NEW D, WellFormed(c, D), NEW p \in 1 .. Len(c)
    PROVE  RankOf(p, Operands(c)) =
             RankOf(p, BinaryOperators(c)) + (IF isOperator(c[p]) THEN 0 ELSE 1)
<1> DEFINE named == Operands(c)
           binary == BinaryOperators(c)
           Balanced(q) == RankOf(q, named) = RankOf(q, binary) + (IF isOperator(c[q]) THEN 0 ELSE 1)
           bad == {q \in 1 .. Len(c) : ~Balanced(q)}
<1>1. PICK n \in Nat : n = Len(c)
  OBVIOUS
<1>2. named \subseteq 1 .. n /\ binary \subseteq 1 .. n
  BY <1>1 DEF Operands, BinaryOperators
<1>3. \A r \in 1 .. n : /\ r \in named <=> ~isOperator(c[r])
                       /\ r \in binary <=> isBinaryOperator(c[r])
  BY <1>1 DEF Operands, BinaryOperators
<1>4. /\ ~isBinaryOperator(c[1])
      /\ \A q \in 1 .. n - 1 : Follows(c[q], c[q + 1])
  BY <1>1 DEF WellFormed
<1> HIDE DEF named, binary
<1>5. ASSUME NEW q \in 1 .. n, q = 1 \/ Balanced(q - 1)
      PROVE  Balanced(q)
  <2>1. PICK x \in Nat, y \in Nat, u \in Nat, v \in Nat :
          /\ x = RankOf(q - 1, named) /\ u = RankOf(q, named)
          /\ y = RankOf(q - 1, binary) /\ v = RankOf(q, binary)
    <3>1. q \in Nat /\ q >= 1 /\ n \in Nat
      BY Z3
    <3>2. RankOf(q - 1, named) \in Nat /\ RankOf(q, named) \in Nat
      BY <1>2, <3>1, RankStep
    <3>3. RankOf(q - 1, binary) \in Nat /\ RankOf(q, binary) \in Nat
      BY <1>2, <3>1, RankStep
    <3> QED
      BY <3>2, <3>3
  <2>2. /\ ~isOperator(c[q]) => u = x + 1
        /\ isOperator(c[q]) => u = x
        /\ isBinaryOperator(c[q]) => v = y + 1
        /\ ~isBinaryOperator(c[q]) => v = y
    <3>1. q \in Nat /\ q >= 1 /\ n \in Nat
      OBVIOUS
    <3>2. (q \in named => u = x + 1) /\ (q \notin named => u = x)
      BY <1>2, <2>1, <3>1, RankStep
    <3>3. (q \in binary => v = y + 1) /\ (q \notin binary => v = y)
      BY <1>2, <2>1, <3>1, RankStep
    <3>4. (q \in named <=> ~isOperator(c[q])) /\ (q \in binary <=> isBinaryOperator(c[q]))
      BY <1>1 DEF named, binary, Operands, BinaryOperators
    <3> QED
      BY <3>2, <3>3, <3>4, Zenon
  <2>3. CASE q = 1
    <3>1. x = 0 /\ y = 0
      <4>1. RankOf(0, named) = 0 /\ RankOf(0, binary) = 0
        BY <1>2, FirstRank
      <4> QED
        BY <2>1, <2>3, <4>1
    <3>2. ~isBinaryOperator(c[q])
      BY <1>4, <2>3
    <3> QED
      BY <2>1, <2>2, <3>1, <3>2
  <2>4. CASE q # 1
    <3>1. q - 1 \in 1 .. n - 1 /\ q - 1 + 1 = q
      BY <2>4
    <3>2. x = y + (IF isOperator(c[q - 1]) THEN 0 ELSE 1)
      BY <1>5, <2>1, <2>4
    <3>3. Follows(c[q - 1], c[q])
      BY <1>4, <3>1
    <3>4. CASE isOperator(c[q - 1])
      <4>1. ~isBinaryOperator(c[q])
        BY <3>3, <3>4 DEF Follows, isOperator
      <4> QED
        BY <2>1, <2>2, <3>2, <3>4, <4>1
    <3>5. CASE ~isOperator(c[q - 1])
      <4>1. isBinaryOperator(c[q]) /\ isOperator(c[q])
        BY <3>3, <3>5 DEF Follows, isOperator
      <4> QED
        BY <2>1, <2>2, <3>2, <3>5, <4>1
    <3> QED
      BY <3>4, <3>5
  <2> QED
    BY <2>3, <2>4
<1>6. bad = {}
  <2> SUFFICES ASSUME bad # {} PROVE FALSE
    OBVIOUS
  <2>1. bad \subseteq Nat
    BY <1>1
  <2>2. PICK q \in bad : \A r \in bad : <<r, q>> \notin OpToRel(<, Nat)
    <3> HIDE DEF bad
    <3> QED
      BY <2>1, NatLessThanWellFounded, WFMin
  <2>3. q \in 1 .. n /\ ~Balanced(q)
    BY <1>1
  <2>4. q = 1 \/ q - 1 \notin bad
    <3>1. q # 1 => q \in Nat /\ q - 1 \in Nat /\ q - 1 < q
      BY <1>1, <2>3
    <3>2. q # 1 => <<q - 1, q>> \in OpToRel(<, Nat)
      BY <3>1 DEF OpToRel
    <3> QED
      BY <2>2, <3>2, Zenon
  <2>5. q = 1 \/ Balanced(q - 1)
    BY <1>1, <2>3, <2>4
  <2> QED
    BY <1>5, <2>3, <2>5
<1>7. Balanced(p)
  BY <1>6
<1> QED
  BY <1>7 DEF named, binary

\* An operand stands after a binary operator exactly when its number is higher.
LEMMA OperandsAround ==
    ASSUME NEW c \in Seq(STRING), NEW D, WellFormed(c, D),
           NEW p \in BinaryOperators(c), NEW i \in Operands(c)
    PROVE  /\ RankOf(p, BinaryOperators(c)) \in Nat
           /\ RankOf(i, Operands(c)) \in Nat
           /\ p < i <=> RankOf(p, BinaryOperators(c)) < RankOf(i, Operands(c))
<1> DEFINE named == Operands(c)
           binary == BinaryOperators(c)
<1>1. PICK n \in Nat : n = Len(c)
  OBVIOUS
<1>2. /\ named \subseteq 1 .. n /\ binary \subseteq 1 .. n
      /\ p \in 1 .. n /\ i \in 1 .. n /\ i \in named
      /\ isBinaryOperator(c[p]) /\ ~isOperator(c[i])
  BY <1>1 DEF Operands, BinaryOperators
<1>3. RankOf(p, named) = RankOf(p, binary) + 0
  <2>1. isOperator(c[p])
    BY <1>2 DEF isOperator
  <2> QED
    BY <1>1, <1>2, <2>1, Balance
<1> HIDE DEF named, binary
<1>4. n \in Nat /\ p \in Nat /\ p >= 1 /\ i \in Nat /\ i >= 1
  BY <1>2
<1>5. RankOf(p, named) \in Nat /\ RankOf(p, binary) \in Nat /\ RankOf(i, named) \in Nat
  <2>1. RankOf(p, named) \in Nat
    BY <1>2, <1>4, RankStep
  <2>2. RankOf(p, binary) \in Nat
    BY <1>2, <1>4, RankStep
  <2>3. RankOf(i, named) \in Nat
    BY <1>2, <1>4, RankStep
  <2> QED
    BY <2>1, <2>2, <2>3
<1>6. p # i
  BY <1>2 DEF isOperator
<1>7. p < i => RankOf(p, named) < RankOf(i, named)
  BY <1>2, <1>4, RankGrows
<1>8. i < p => RankOf(i, named) <= RankOf(p, named)
  BY <1>2, <1>4, RankGrows
<1>9. p < i <=> RankOf(p, binary) < RankOf(i, named)
  BY <1>2, <1>3, <1>5, <1>6, <1>7, <1>8
<1> QED
  BY <1>5, <1>9 DEF named, binary

\* The theorems about the parser, on the variables that the evaluator shares
\* with it.
P == INSTANCE ConditionParser_proofs

\* What the parser leaves of the expression it accepts.
Number(i) == RankOf(i, Operands(expr))
OperatorNumber(p) == RankOf(p, BinaryOperators(expr))

ExpressionStored ==
    /\ expr \in Seq(STRING)
    /\ WellFormed(expr, Declared)
    /\ Len(operands) = Cardinality(Operands(expr))
    /\ Len(operators) = Cardinality(BinaryOperators(expr))
    /\ \A i \in Operands(expr) :
         operands[Number(i)] = [name |-> expr[i], negated |-> Negated(expr, i)]
    /\ \A p \in BinaryOperators(expr) : operators[OperatorNumber(p)] = expr[p]

\* An instance has a Cardinality of its own.
LEMMA SameCardinality == \A S : P!Cardinality(S) = Cardinality(S)
BY Zenon DEF P!Cardinality, Cardinality

\* The parser returns ok with the whole expression in the two vectors.
LEMMA ParserStores ==
    ASSUME P!ParserIInv, status = "ok"
    PROVE  ExpressionStored
<1>1. expr \in Seq(STRING)
  BY ExpressionsAssumption DEF P!ParserIInv, P!ParserTypeOK
<1>2. WellFormed(expr, Declared)
  BY DEF P!ParserIInv, P!AcceptsOnlyWellFormed, P!WellFormed, WellFormed, P!Follows, Follows,
         P!isOperator, isOperator, P!isBinaryOperator, isBinaryOperator
<1>3. P!Records(1 .. Len(expr))
  BY DEF P!ParserIInv, P!RecordsExpression
<1>4. \A t : (P!isOperator(t) <=> isOperator(t)) /\ (P!isBinaryOperator(t) <=> isBinaryOperator(t))
  BY Zenon DEF P!isOperator, isOperator, P!isBinaryOperator, isBinaryOperator
<1>5. \A i : P!Negated(expr, i) = Negated(expr, i)
  BY Zenon DEF P!Negated, Negated
<1>6. /\ Operands(expr) = {i \in 1 .. Len(expr) : ~P!isOperator(expr[i])}
      /\ BinaryOperators(expr) = {i \in 1 .. Len(expr) : P!isBinaryOperator(expr[i])}
  BY <1>4, Zenon DEF Operands, BinaryOperators
<1>7. /\ Len(operands) = Cardinality(Operands(expr))
      /\ Len(operators) = Cardinality(BinaryOperators(expr))
      /\ \A i \in Operands(expr) : operands[P!Rank(i, Operands(expr))] =
            [name |-> expr[i], negated |-> P!Negated(expr, i)]
      /\ \A i \in BinaryOperators(expr) : operators[P!Rank(i, BinaryOperators(expr))] = expr[i]
  BY <1>3, <1>6, SameCardinality, Zenon DEF P!Records
<1>8. \A i, S : P!Rank(i, S) = RankOf(i, S)
  BY SameCardinality, Zenon DEF P!Rank, RankOf
<1>9. QED
  BY <1>1, <1>2, <1>5, <1>7, <1>8, Zenon DEF ExpressionStored, Number, OperatorNumber

\* The numbers of the operands are those of the vector, and so are those of the
\* operators; an operator stands between two operands when its number does.
LEMMA NumbersFit ==
    ASSUME ExpressionStored
    PROVE  /\ \A i \in Operands(expr) : Number(i) \in 1 .. Len(operands)
           /\ \A k \in 1 .. Len(operands) : \E i \in Operands(expr) : Number(i) = k
           /\ \A p \in BinaryOperators(expr) : OperatorNumber(p) \in 1 .. Len(operators)
           /\ \A k \in 1 .. Len(operators) :
                \E p \in BinaryOperators(expr) : OperatorNumber(p) = k
           /\ \A p \in BinaryOperators(expr), i \in Operands(expr) :
                p < i <=> OperatorNumber(p) < Number(i)
<1> DEFINE named == Operands(expr)
           binary == BinaryOperators(expr)
<1>1. PICK n \in Nat : n = Len(expr)
  BY DEF ExpressionStored
<1>2. named \subseteq 1 .. n /\ binary \subseteq 1 .. n
  BY <1>1 DEF Operands, BinaryOperators
<1>3. Len(operands) = Cardinality(named) /\ Len(operators) = Cardinality(binary)
  BY DEF ExpressionStored
<1>4. \A p \in binary, i \in named : p < i <=> RankOf(p, binary) < RankOf(i, named)
  BY OperandsAround DEF ExpressionStored
<1> HIDE DEF named, binary
<1>5. /\ \A i \in named : RankOf(i, named) \in 1 .. Cardinality(named)
      /\ \A p \in binary : RankOf(p, binary) \in 1 .. Cardinality(binary)
  BY <1>2, RankInRange
<1>6. /\ \A k \in 1 .. Cardinality(named) : \E i \in named : RankOf(i, named) = k
      /\ \A k \in 1 .. Cardinality(binary) : \E p \in binary : RankOf(p, binary) = k
  BY <1>2, RankTaken
<1>7. QED
  BY <1>3, <1>4, <1>5, <1>6, Zenon DEF named, binary, Number, OperatorNumber

\* Two operands belong to one conjunction of the expression exactly when their
\* numbers do in the vectors.
LEMMA GroupsAgree ==
    ASSUME ExpressionStored, Len(operands) = Len(operators) + 1, Len(operators) \in Nat,
           NEW i \in Operands(expr), NEW j \in Operands(expr)
    PROVE  SameGroup(expr, i, j) <=> SameGroupOf(Number(i), Number(j))
<1>1. PICK a \in Nat, b \in Nat, m \in Nat :
        /\ a = Number(i) /\ b = Number(j) /\ m = Len(operators)
        /\ a >= 1 /\ b >= 1 /\ a <= m + 1 /\ b <= m + 1
  BY NumbersFit
<1>2. \A p \in BinaryOperators(expr) :
        /\ OperatorNumber(p) \in 1 .. m
        /\ p < i <=> OperatorNumber(p) < a
        /\ p < j <=> OperatorNumber(p) < b
        /\ operators[OperatorNumber(p)] = expr[p]
  BY <1>1, NumbersFit, Zenon DEF ExpressionStored
<1>3. \A k \in 1 .. m : \E p \in BinaryOperators(expr) : OperatorNumber(p) = k
  BY <1>1, NumbersFit
<1>4. \A p \in 1 .. Len(expr) : expr[p] = "or" => p \in BinaryOperators(expr)
  BY DEF BinaryOperators, isBinaryOperator
<1>5. BinaryOperators(expr) \subseteq 1 .. Len(expr)
  BY DEF BinaryOperators
<1>6. ASSUME SameGroup(expr, i, j), NEW k \in 1 .. m, operators[k] = "or"
      PROVE  k < a <=> k < b
  <2>1. PICK p \in BinaryOperators(expr) : OperatorNumber(p) = k
    BY <1>3
  <2>2. expr[p] = "or" /\ p \in 1 .. Len(expr)
    BY <1>2, <1>5, <1>6, <2>1, Zenon
  <2>3. p < i <=> p < j
    BY <1>6, <2>2, Zenon DEF SameGroup
  <2>4. QED
    BY <1>2, <2>1, <2>3, Zenon
<1>7. ASSUME \A k \in 1 .. m : operators[k] = "or" => (k < a <=> k < b)
      PROVE  SameGroup(expr, i, j)
  BY <1>2, <1>4, <1>7, Zenon DEF SameGroup
<1>8. SameGroup(expr, i, j) <=> \A k \in 1 .. m : operators[k] = "or" => (k < a <=> k < b)
  BY <1>6, <1>7, Zenon
<1>9. SameGroupOf(a, b) <=> \A k \in 1 .. m : operators[k] = "or" => (k < a <=> k < b)
  <2>1. ASSUME SameGroupOf(a, b), NEW k \in 1 .. m, operators[k] = "or"
        PROVE  k < a <=> k < b
    BY <1>1, <2>1 DEF SameGroupOf, SameAnds
  <2>2. ASSUME \A k \in 1 .. m : operators[k] = "or" => (k < a <=> k < b)
        PROVE  SameGroupOf(a, b)
    <3>1. ASSUME NEW k \in a .. b - 1 PROVE operators[k] # "or"
      BY <1>1, <2>2
    <3>2. ASSUME NEW k \in b .. a - 1 PROVE operators[k] # "or"
      BY <1>1, <2>2
    <3>3. QED
      BY <3>1, <3>2 DEF SameGroupOf, SameAnds
  <2>3. QED
    BY <2>1, <2>2, Zenon
<1>10. QED
  BY <1>1, <1>8, <1>9, Zenon

\* The expression fails when one of the stored operands does, and it holds when
\* one group of them does.
LEMMA StoredMeaning ==
    ASSUME ExpressionStored, Len(operands) = Len(operators) + 1, Len(operators) \in Nat
    PROVE  /\ ConditionFails(expr, outcome) <=> \E k \in 1 .. Len(operands) : OperandFails(k)
           /\ ConditionHolds(expr, outcome) <=> HoldsOn(1, Len(operands) + 1)
<1>1. PICK n \in Nat : n = Len(operands)
  OBVIOUS
<1>2. \A i \in Operands(expr) :
        /\ Number(i) \in 1 .. n
        /\ operands[Number(i)].name = expr[i]
        /\ operands[Number(i)].negated = Negated(expr, i)
  <2>1. \A i \in Operands(expr) :
          operands[Number(i)] = [name |-> expr[i], negated |-> Negated(expr, i)]
    BY DEF ExpressionStored
  <2>2. \A i \in Operands(expr) : Number(i) \in 1 .. n
    BY <1>1, NumbersFit
  <2>3. ASSUME NEW i \in Operands(expr)
        PROVE  /\ operands[Number(i)].name = expr[i]
               /\ operands[Number(i)].negated = Negated(expr, i)
    <3>1. PICK x, y : x = expr[i] /\ y = Negated(expr, i)
      OBVIOUS
    <3>2. operands[Number(i)] = [name |-> x, negated |-> y]
      BY <2>1, <3>1, Zenon
    <3>3. operands[Number(i)].name = x /\ operands[Number(i)].negated = y
      BY <3>2
    <3>4. QED
      BY <3>1, <3>3, Zenon
  <2>4. QED
    BY <2>2, <2>3, Zenon
<1>3. \A k \in 1 .. n : \E i \in Operands(expr) : Number(i) = k
  BY <1>1, NumbersFit
<1>4. \A i \in Operands(expr) :
        OperandFails(Number(i)) <=> expr[i] \notin DOMAIN outcome \/ outcome[expr[i]].status # "ok"
  BY <1>2, Zenon DEF OperandFails, Name
<1>5. \A i \in Operands(expr) : SignedValue(Number(i)) <=> OperandHolds(expr, i, outcome)
  BY <1>2, Zenon DEF SignedValue, Name, OperandHolds
<1>6. \A i \in Operands(expr), j \in Operands(expr) :
        SameGroup(expr, i, j) <=> SameGroupOf(Number(i), Number(j))
  BY GroupsAgree
<1>7. ConditionFails(expr, outcome) <=> \E k \in 1 .. n : OperandFails(k)
  BY <1>2, <1>3, <1>4, Zenon DEF ConditionFails
<1>8. ConditionHolds(expr, outcome) <=>
        \E a \in 1 .. n : \A b \in 1 .. n : SameGroupOf(a, b) => SignedValue(b)
  <2>1. ASSUME NEW i \in Operands(expr)
        PROVE  (\A j \in Operands(expr) : SameGroup(expr, i, j) => OperandHolds(expr, j, outcome))
                 <=> (\A b \in 1 .. n : SameGroupOf(Number(i), b) => SignedValue(b))
    BY <1>2, <1>3, <1>5, <1>6, Zenon
  <2>2. QED
    BY <1>2, <1>3, <2>1, ZenonT(30) DEF ConditionHolds
<1>9. 1 .. Len(operands) = 1 .. n /\ 1 .. (Len(operands) + 1) - 1 = 1 .. n
  BY <1>1
<1>10. QED
  BY <1>7, <1>8, <1>9, Zenon DEF HoldsOn

\* The evaluator's parser is the parser of the proofs, step by step.
LEMMA SameParser == Parser!Step => P!Step
  <1> USE DEF Parser!Return, P!Return, Parser!isBinaryOperator, P!isBinaryOperator,
        Parser!isOperator, P!isOperator, Parser!InLoop, P!InLoop, Parser!TwoOperators,
        P!TwoOperators, Parser!TrailingOperator, P!TrailingOperator,
        Parser!PassesOperatorChecks, P!PassesOperatorChecks, Parser!OperandAt, P!OperandAt,
        Parser!TermStarts, P!TermStarts, Parser!CountsAgree, P!CountsAgree
  <1>1. Parser!RejectEmpty => P!RejectEmpty
    BY Zenon DEF Parser!RejectEmpty, P!RejectEmpty
  <1>2. Parser!RejectLeadingOperator => P!RejectLeadingOperator
    BY Zenon DEF Parser!RejectLeadingOperator, P!RejectLeadingOperator
  <1>3. Parser!EnterLoop => P!EnterLoop
    BY Zenon DEF Parser!EnterLoop, P!EnterLoop
  <1>4. Parser!RejectOperator => P!RejectOperator
    BY Zenon DEF Parser!RejectOperator, P!RejectOperator
  <1>5. Parser!TakeOperator => P!TakeOperator
    BY Zenon DEF Parser!TakeOperator, P!TakeOperator
  <1>6. Parser!RejectNegatedOperator => P!RejectNegatedOperator
    BY Zenon DEF Parser!RejectNegatedOperator, P!RejectNegatedOperator
  <1>7. Parser!RejectUndeclared => P!RejectUndeclared
    BY Zenon DEF Parser!RejectUndeclared, P!RejectUndeclared
  <1>8. Parser!TakeOperand => P!TakeOperand
    BY Zenon DEF Parser!TakeOperand, P!TakeOperand
  <1>9. Parser!Finish => P!Finish
    BY Zenon DEF Parser!Finish, P!Finish
  <1> QED
    BY <1>1, <1>2, <1>3, <1>4, <1>5, <1>6, <1>7, <1>8, <1>9, Zenon DEF Parser!Step, P!Step

\* Only Parse changes what the parser keeps.
LEMMA ParserStutters == [Next]_vars => Parse \/ UNCHANGED parserVars
  BY DEF Next, Execute, Evaluate, CallLeft, CallRight, Combine, EvaluateFirst, EvaluateNext,
         ReachEnd, Stopped, vars

\* Evaluating changes nothing that the parser keeps, so its invariant stands.
THEOREM ParserInside == Spec => []P!ParserIInv
  <1>1. Init => P!ParserIInv
    <2>1. Parser!Init => P!Init
      BY Zenon DEF Parser!Init, P!Init
    <2> QED
      BY <2>1, P!InitIInv, ExpressionsAssumption, DeclaredAssumption DEF Init
  <1>2. P!ParserIInv /\ [Next]_vars => P!ParserIInv'
    <2>1. Parse \/ UNCHANGED parserVars => [P!Next]_(P!vars)
      BY SameParser, Zenon DEF Parse, P!Next, P!vars, parserVars
    <2> QED
      BY <2>1, ParserStutters, P!NextIInv, ExpressionsAssumption, DeclaredAssumption
  <1> QED
    BY <1>1, <1>2, PTL DEF Spec

\* Parsing and evaluating together give every expression its meaning, for every
\* outcome of its variables: the condition fails when one of its operands does,
\* and otherwise it holds when one of the conjunctions between its `or's does.
THEOREM ConditionsMean == Spec => []GivesMeaning
  <1>1. P!ParserIInv /\ EvalIInv /\ MeaningIInv => GivesMeaning
    <2> SUFFICES ASSUME P!ParserIInv, EvalIInv, MeaningIInv, Finished
                 PROVE  /\ returned.failed # 0 <=> ConditionFails(expr, outcome)
                        /\ returned.failed = 0 =>
                             (returned.value <=> ConditionHolds(expr, outcome))
      BY Zenon DEF GivesMeaning
    <2>1. /\ status = "ok"
          /\ Len(operands) = Len(operators) + 1 /\ Len(operators) \in Nat
      BY DEF Finished, EvalIInv, VectorsFit
    <2>2. /\ ConditionFails(expr, outcome) <=> \E k \in 1 .. Len(operands) : OperandFails(k)
          /\ ConditionHolds(expr, outcome) <=> HoldsOn(1, Len(operands) + 1)
      BY <2>1, ParserStores, StoredMeaning
    <2>3. Gives(returned, 1, Len(operands) + 1)
      BY DEF MeaningIInv, ResultsMean
    <2>4. 1 .. Len(operands) = 1 .. (Len(operands) + 1) - 1
      BY <2>1
    <2>5. CASE returned.failed = 0
      BY <2>2, <2>3, <2>4, <2>5, Zenon DEF Gives
    <2>6. CASE returned.failed # 0
      BY <2>2, <2>3, <2>4, <2>6, Zenon DEF Gives
    <2> QED
      BY <2>5, <2>6
  <1> QED
    BY <1>1, ParserInside, EvaluatorInvariant, EvaluatorMeaning, PTL
=============================================================================
