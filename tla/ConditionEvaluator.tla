-------------------------- MODULE ConditionEvaluator --------------------------
(***************************************************************************)
(* ConditionProcessor::executeOperation on the two vectors that the parser *)
(* leaves: executeOperationRecursively splits a range at its first `or'    *)
(* and evaluates both halves, whatever the left one gives;                 *)
(* executeOperationLinearly walks along a range without `or'.  Ranges are  *)
(* half open, as pairs of iterators are.  The map of boolean variables and *)
(* the message do not change during an evaluation, so each variable has    *)
(* one outcome.                                                            *)
(***************************************************************************)
EXTENDS Conditions, Integers, SequencesExt

CONSTANTS Expressions, Declared

ASSUME ExpressionsAssumption == Expressions \subseteq Seq(STRING)
ASSUME DeclaredAssumption == Declared \subseteq STRING

VARIABLES
    expr, it, operators, operands, status,  \* the parser's
    outcome,    \* what SetBoolProcessor::executeOperation gives for each name
    calls,      \* the calls of executeOperationRecursively, innermost last
    walk,       \* the locals of executeOperationLinearly: iterators and result
    returned,   \* the tuple returned by the call that has just ended
    evaluated   \* history: the operands evaluated so far, as positions

Parser == INSTANCE ConditionParser

parserVars == <<expr, it, operators, operands, status>>
evalVars == <<outcome, calls, walk, returned, evaluated>>
vars == <<parserVars, evalVars>>

\* A variable without negation: its value, an error, or an exception.
Outcome ==
    {[status |-> "ok", value |-> b] : b \in BOOLEAN}
      \cup {[status |-> s, value |-> FALSE] : s \in {"error", "throw"}}

\* The tuple of status and boolean: failed is the operand whose error or
\* exception the status reports, 0 for an OK status.
Tuple == [failed : Nat, value : BOOLEAN]
Ok(b) == [failed |-> 0, value |-> b]
Failed(i) == [failed |-> i, value |-> FALSE]

NoTuple == <<>>
NoWalk == <<>>

\* A call on operators op .. opEnd - 1 and operands opd .. opdEnd - 1; left is
\* left_result once it is there.
Call == [op : Nat, opEnd : Nat, opd : Nat, opdEnd : Nat, left : Tuple \cup {NoTuple}]

Init ==
    /\ Parser!Init
    /\ outcome = <<>>
    /\ calls = <<>>
    /\ walk = NoWalk
    /\ returned = NoTuple
    /\ evaluated = <<>>

Parse ==
    /\ Parser!Step
    /\ UNCHANGED evalVars

\* executeOperation, once the constructor has stored the processor.
Execute ==
    /\ status = "ok" /\ calls = <<>> /\ returned = NoTuple
    /\ outcome' \in [Declared -> Outcome]
    /\ calls' = <<[op |-> 1, opEnd |-> Len(operators) + 1,
                   opd |-> 1, opdEnd |-> Len(operands) + 1, left |-> NoTuple]>>
    /\ UNCHANGED <<parserVars, walk, returned, evaluated>>

----------------------------------------------------------------------------
\* executeOperationRecursively.

Entered == calls # <<>> /\ returned = NoTuple /\ walk = NoWalk
Current == Last(calls)

isOR(k) == operators[k] = "or"

HasOr(c) == \E k \in c.op .. c.opEnd - 1 : isOR(k)

FirstOr(c) ==
    CHOOSE k \in c.op .. c.opEnd - 1 : isOR(k) /\ \A j \in c.op .. k - 1 : ~isOR(j)

\* A fault: the operand before the `or' goes to the right.
SplitBeforeOperand(c) == c.opd + (FirstOr(c) - c.op)

\* Where the operands of the left half end and those of the right half start.
OperandSplit(c) == c.opd + (FirstOr(c) - c.op) + 1

CallLeft ==
    /\ Entered
    /\ HasOr(Current)
    /\ calls' = Append(calls,
         [Current EXCEPT !.opEnd = FirstOr(Current), !.opdEnd = OperandSplit(Current)])
    /\ UNCHANGED <<parserVars, outcome, walk, returned, evaluated>>

\* A fault: a left half that holds or fails is the answer, without the right one.
CallRightShortCut ==
    /\ calls # <<>> /\ returned # NoTuple
    /\ Current.left = NoTuple
    /\ IF returned.failed # 0 \/ returned.value
       THEN /\ calls' = Front(calls)
            /\ returned' = returned
       ELSE /\ calls' = Append(Front(calls), [Current EXCEPT !.left = returned])
                          \o <<[Current EXCEPT !.op = FirstOr(Current) + 1,
                                               !.opd = OperandSplit(Current)]>>
            /\ returned' = NoTuple
    /\ UNCHANGED <<parserVars, outcome, walk, evaluated>>

CallRight ==
    /\ calls # <<>> /\ returned # NoTuple
    /\ Current.left = NoTuple
    /\ calls' = Append(Front(calls), [Current EXCEPT !.left = returned])
                  \o <<[Current EXCEPT !.op = FirstOr(Current) + 1,
                                       !.opd = OperandSplit(Current)]>>
    /\ returned' = NoTuple
    /\ UNCHANGED <<parserVars, outcome, walk, evaluated>>

\* A fault: the right status is looked at first.
EitherRightFirst(left, right) ==
    CASE right.failed # 0                     -> right
      [] right.failed = 0 /\ left.failed # 0  -> left
      [] OTHER                                -> Ok(left.value \/ right.value)

Either(left, right) ==
    CASE left.failed # 0                      -> left
      [] left.failed = 0 /\ right.failed # 0  -> right
      [] OTHER                                -> Ok(left.value \/ right.value)

Combine ==
    /\ calls # <<>> /\ returned # NoTuple
    /\ Current.left # NoTuple
    /\ returned' = Either(Current.left, returned)
    /\ calls' = Front(calls)
    /\ UNCHANGED <<parserVars, outcome, walk, evaluated>>

----------------------------------------------------------------------------
\* executeOperationLinearly, called in tail position: it returns for its call.

Name(i) == operands[i].name

\* An exception, of at() or of the evaluation, ends in the catch block.
OperandFails(i) == Name(i) \notin DOMAIN outcome \/ outcome[Name(i)].status # "ok"

\* A fault: the sign of the operand is not passed on.
UnsignedValue(i) == outcome[Name(i)].value

SignedValue(i) == outcome[Name(i)].value # operands[i].negated

Leave(tuple) ==
    /\ returned' = tuple
    /\ calls' = Front(calls)
    /\ walk' = NoWalk

EvaluateFirst ==
    /\ Entered
    /\ ~HasOr(Current)
    /\ evaluated' = Append(evaluated, Current.opd)
    /\ IF OperandFails(Current.opd)
       THEN Leave(Failed(Current.opd))
       ELSE IF Current.opdEnd - Current.opd = 1
       THEN Leave(Ok(SignedValue(Current.opd)))
       ELSE /\ walk' = [op |-> Current.op, opd |-> Current.opd + 1,
                        result |-> SignedValue(Current.opd)]
            /\ UNCHANGED <<returned, calls>>
    /\ UNCHANGED <<parserVars, outcome>>

evaluateExpression(b, operator, c) == IF operator = "and" THEN b /\ c ELSE b \/ c

AtEnd == walk.op = Current.opEnd \/ walk.opd = Current.opdEnd

\* A fault: the iterators stay where they are.  The history does too, which
\* keeps the states finite.
EvaluateNextInPlace ==
    /\ walk # NoWalk
    /\ ~AtEnd
    /\ IF OperandFails(walk.opd)
       THEN Leave(Failed(walk.opd))
       ELSE /\ walk' = [walk EXCEPT !.result =
                          evaluateExpression(@, operators[walk.op], SignedValue(walk.opd))]
            /\ UNCHANGED <<returned, calls>>
    /\ UNCHANGED <<parserVars, outcome, evaluated>>

EvaluateNext ==
    /\ walk # NoWalk
    /\ ~AtEnd
    /\ evaluated' = Append(evaluated, walk.opd)
    /\ IF OperandFails(walk.opd)
       THEN Leave(Failed(walk.opd))
       ELSE /\ walk' = [op |-> walk.op + 1, opd |-> walk.opd + 1, result |->
                          evaluateExpression(walk.result, operators[walk.op],
                                             SignedValue(walk.opd))]
            /\ UNCHANGED <<returned, calls>>
    /\ UNCHANGED <<parserVars, outcome>>

ReachEnd ==
    /\ walk # NoWalk
    /\ AtEnd
    /\ Leave(Ok(walk.result))
    /\ UNCHANGED <<parserVars, outcome, evaluated>>

----------------------------------------------------------------------------
Finished == calls = <<>> /\ returned # NoTuple

Stopped ==
    /\ Finished \/ status = "invalid"
    /\ UNCHANGED vars

Evaluate ==
    \/ CallLeft
    \/ CallRight
    \/ Combine
    \/ EvaluateFirst
    \/ EvaluateNext
    \/ ReachEnd

Next == Parse \/ Execute \/ Evaluate \/ Stopped

Spec == Init /\ [][Next]_vars /\ WF_vars(Parse) /\ WF_vars(Evaluate)

----------------------------------------------------------------------------
InRange(c) ==
    /\ c \in Call
    /\ 1 <= c.op /\ c.op <= c.opEnd /\ c.opEnd <= Len(operators) + 1
    /\ 1 <= c.opd /\ c.opd < c.opdEnd /\ c.opdEnd <= Len(operands) + 1
    /\ c.opdEnd - c.opd = c.opEnd - c.op + 1

\* The iterators are in range: a call has one operand more than operators, and
\* neither vector is read past its end.  Also the type invariant.
RangesMatch ==
    /\ \A k \in DOMAIN calls : InRange(calls[k])
    /\ walk # NoWalk =>
        /\ calls # <<>>
        /\ walk \in [op : Current.op .. Current.opEnd, opd : Current.opd .. Current.opdEnd,
                     result : BOOLEAN]
        /\ Current.opdEnd - walk.opd = Current.opEnd - walk.op
    /\ returned \in Tuple \cup {NoTuple}
    /\ outcome \in [DOMAIN outcome -> Outcome]

\* Parsing and evaluating together give the expression its meaning: `and' binds
\* tighter than `or', `not' tighter than both, and an error anywhere that is
\* reached makes the condition fail.
GivesMeaning ==
    Finished =>
        /\ returned.failed # 0 <=> ConditionFails(expr, outcome)
        /\ returned.failed = 0 => (returned.value <=> ConditionHolds(expr, outcome))

\* The status that reaches the log is that of the leftmost operand that fails,
\* although groups to its right are still evaluated after it.
ReportsLeftmost ==
    Finished =>
        LET failing == {i \in DOMAIN operands : OperandFails(i)}
        IN  IF failing = {} THEN returned.failed = 0
            ELSE returned.failed \in failing /\ \A i \in failing : returned.failed <= i

\* Operands are evaluated from left to right, none twice.  A true left half does
\* not spare the right one, nor does a false operand the rest of its group: an
\* operand is left out exactly when one before it in its own group has failed.
SameAnds(i, j) == \A k \in i .. j - 1 : operators[k] # "or"

Due(i) == \A j \in 1 .. i - 1 : SameAnds(j, i) => ~OperandFails(j)

EvaluatesInOrder ==
    /\ \A k \in 1 .. Len(evaluated) - 1 : evaluated[k] < evaluated[k + 1]
    /\ Finished => \A i \in DOMAIN operands : i \in Range(evaluated) <=> Due(i)

(***************************************************************************)
(* The inductive invariant of the proof: the parser accepted one operand   *)
(* more than operators before anything is evaluated, and a call waits only *)
(* for the halves of a range that has an `or'.                             *)
(***************************************************************************)
VectorsFit ==
    /\ operators \in Seq({"and", "or"})
    /\ operands \in Seq([name : Declared, negated : BOOLEAN])
    /\ status = "ok" => Len(operands) = Len(operators) + 1
    /\ calls # <<>> \/ walk # NoWalk \/ returned # NoTuple => status = "ok"

WaitingCallsSplit ==
    /\ calls \in Seq(Call)
    /\ \A k \in 1 .. Len(calls) - 1 : HasOr(calls[k])
    /\ returned # NoTuple /\ calls # <<>> => HasOr(Current)
    /\ walk # NoWalk => returned = NoTuple

EvalIInv == VectorsFit /\ WaitingCallsSplit /\ RangesMatch

(***************************************************************************)
(* The inductive invariant of what a condition means: every call covers    *)
(* the half that the call below it waits for, what has been returned is    *)
(* the meaning of the operands it covers, and the walk's result is the     *)
(* conjunction of what it has passed.  Operands and operators are numbered *)
(* alike, so a call starts at the beginning of a group.                    *)
(***************************************************************************)
SameGroupOf(i, j) == SameAnds(i, j) /\ SameAnds(j, i)

HoldsOn(a, b) ==
    \E i \in a .. b - 1 : \A j \in a .. b - 1 : SameGroupOf(i, j) => SignedValue(j)

Gives(tuple, a, b) ==
    IF tuple.failed = 0
    THEN /\ \A i \in a .. b - 1 : ~OperandFails(i)
         /\ tuple.value <=> HoldsOn(a, b)
    ELSE /\ tuple.failed \in a .. b - 1
         /\ OperandFails(tuple.failed)
         /\ \A i \in a .. tuple.failed - 1 : ~OperandFails(i)

\* The operands of the half that a call with an `or' is waiting for.
HalfFrom(c) == IF c.left = NoTuple THEN c.opd ELSE OperandSplit(c)
HalfTo(c) == IF c.left = NoTuple THEN OperandSplit(c) ELSE c.opdEnd

StartsGroup(c) == c.op = c.opd /\ (c.op > 1 => isOR(c.op - 1))
Covers(c, a, b) == c.opd = a /\ c.opdEnd = b

Nested ==
    /\ \A k \in 1 .. Len(calls) : StartsGroup(calls[k])
    /\ calls # <<>> => Covers(calls[1], 1, Len(operands) + 1)
    /\ \A k \in 1 .. Len(calls) - 1 : Covers(calls[k + 1], HalfFrom(calls[k]), HalfTo(calls[k]))

ResultsMean ==
    /\ \A k \in 1 .. Len(calls) :
        calls[k].left # NoTuple => Gives(calls[k].left, calls[k].opd, OperandSplit(calls[k]))
    /\ Finished => Gives(returned, 1, Len(operands) + 1)
    /\ calls # <<>> /\ returned # NoTuple =>
        Gives(returned, HalfFrom(Current), HalfTo(Current))
    /\ calls # <<>> /\ returned = NoTuple => Current.left = NoTuple
    /\ walk # NoWalk =>
        /\ ~HasOr(Current)
        /\ \A i \in Current.opd .. walk.opd - 1 : ~OperandFails(i)
        /\ walk.result <=> \A i \in Current.opd .. walk.opd - 1 : SignedValue(i)

MeaningIInv == Nested /\ ResultsMean

(***************************************************************************)
(* The inductive invariant of the order of evaluation: the operands before *)
(* the frontier have had their turn, the others have not.                  *)
(***************************************************************************)
Frontier ==
    CASE walk # NoWalk                          -> walk.opd
      [] walk = NoWalk /\ returned = NoTuple    ->
           IF calls = <<>> THEN 1 ELSE Current.opd
      [] OTHER                                  ->
           IF calls = <<>> THEN Len(operands) + 1 ELSE HalfTo(Current)

InOrderUpTo(frontier) ==
    /\ evaluated \in Seq(Nat)
    /\ \A k \in 1 .. Len(evaluated) : evaluated[k] \in 1 .. frontier - 1
    /\ \A k \in 1 .. Len(evaluated) - 1 : evaluated[k] < evaluated[k + 1]
    /\ \A i \in 1 .. frontier - 1 : i \in Range(evaluated) <=> Due(i)

OrderIInv == InOrderUpTo(Frontier)

\* The recursion ends.
EvaluationReturns == calls # <<>> ~> Finished
=============================================================================
