--------------------------- MODULE ConditionParser ---------------------------
(***************************************************************************)
(* HeaderProcessor::ConditionProcessorSetup and                            *)
(* ConditionProcessor::parseOperation: one pass over the tokens after      *)
(* `if', which looks at most one token back and one ahead, splits them     *)
(* into operands and binary operators, and at the end only compares how    *)
(* many of each it kept.                                                   *)
(***************************************************************************)
EXTENDS Conditions, Integers, FiniteSets

CONSTANTS
    Expressions,    \* the token sequences that may follow `if'
    Declared        \* names in bool_processors_: the variables set so far

ASSUME ExpressionsAssumption == Expressions \subseteq Seq(STRING)
ASSUME DeclaredAssumption == Declared \subseteq STRING

VARIABLES
    expr,           \* condition_expression from the iterator `start' on
    it,             \* the loop's iterator, as a position of expr
    operators,      \* operators_
    operands,       \* operands_: the name and whether it is negated
    status          \* "setup", "parsing", then the status returned

vars == <<expr, it, operators, operands, status>>

Operand == [name : STRING, negated : BOOLEAN]

Init ==
    /\ expr \in Expressions
    /\ it = 1
    /\ operators = <<>>
    /\ operands = <<>>
    /\ status = "setup"

Return(s) == status' = s /\ UNCHANGED <<expr, it, operators, operands>>

----------------------------------------------------------------------------
\* Before the loop: the empty condition and the leading binary operator.

RejectEmpty ==
    /\ status = "setup"
    /\ expr = <<>>
    /\ Return("invalid")

RejectLeadingOperator ==
    /\ status = "setup"
    /\ expr # <<>>
    /\ isBinaryOperator(expr[1])
    /\ Return("invalid")

EnterLoop ==
    /\ status = "setup"
    /\ expr # <<>>
    /\ ~isBinaryOperator(expr[1])
    /\ Return("parsing")

----------------------------------------------------------------------------
\* The body of the loop at position `it'.  Only end() itself ends the loop (see
\* Finish): an iterator beyond it would have no token to read and no way out.

InLoop == status = "parsing" /\ it <= Len(expr)

\* A fault: `not' taken for a binary operator.
TwoOperatorsWithNot ==
    /\ it > 1
    /\ isOperator(expr[it])
    /\ isBinaryOperator(expr[it - 1])

TwoOperators ==
    /\ it > 1
    /\ isBinaryOperator(expr[it])
    /\ isBinaryOperator(expr[it - 1])

TrailingOperator == it = Len(expr) /\ isOperator(expr[it])

RejectOperator ==
    /\ InLoop
    /\ TwoOperators \/ TrailingOperator
    /\ Return("invalid")

PassesOperatorChecks == InLoop /\ ~TwoOperators /\ ~TrailingOperator

TakeOperator ==
    /\ PassesOperatorChecks
    /\ isBinaryOperator(expr[it])
    /\ operators' = Append(operators, expr[it])
    /\ it' = it + 1
    /\ UNCHANGED <<expr, operands, status>>

RejectNegatedOperator ==
    /\ PassesOperatorChecks
    /\ expr[it] = "not"
    /\ isOperator(expr[it + 1])
    /\ Return("invalid")

\* The position of the operand of the term that starts at `it'.
OperandAt == IF expr[it] = "not" THEN it + 1 ELSE it

TermStarts ==
    /\ PassesOperatorChecks
    /\ ~isBinaryOperator(expr[it])
    /\ ~isOperator(expr[OperandAt])

RejectUndeclared ==
    /\ TermStarts
    /\ expr[OperandAt] \notin Declared
    /\ Return("invalid")

\* A fault: the iterator advances by two also after an operand without `not'.
TakeOperandAdvancingTwo ==
    /\ TermStarts
    /\ expr[OperandAt] \in Declared
    /\ operands' = Append(operands, [name |-> expr[OperandAt], negated |-> expr[it] = "not"])
    /\ it' = it + 2
    /\ UNCHANGED <<expr, operators, status>>

\* A fault: the sign of an operand is lost.
TakeOperandUnsigned ==
    /\ TermStarts
    /\ expr[OperandAt] \in Declared
    /\ operands' = Append(operands, [name |-> expr[OperandAt], negated |-> FALSE])
    /\ it' = OperandAt + 1
    /\ UNCHANGED <<expr, operators, status>>

TakeOperand ==
    /\ TermStarts
    /\ expr[OperandAt] \in Declared
    /\ operands' = Append(operands, [name |-> expr[OperandAt], negated |-> expr[it] = "not"])
    /\ it' = OperandAt + 1
    /\ UNCHANGED <<expr, operators, status>>

----------------------------------------------------------------------------
\* After the loop: size_t arithmetic, so operands_.size() - 1 would wrap on an
\* empty vector; the comparison below is the code's for every other length.

\* A fault: the counts compared with an inequality.
CountsCompared == Len(operators) < Len(operands)

CountsAgree == Len(operators) + 1 = Len(operands)

Finish ==
    /\ status = "parsing"
    /\ it = Len(expr) + 1
    /\ Return(IF CountsAgree THEN "ok" ELSE "invalid")

Done == status \in {"ok", "invalid"} /\ UNCHANGED vars

Step ==
    \/ RejectEmpty
    \/ RejectLeadingOperator
    \/ EnterLoop
    \/ RejectOperator
    \/ TakeOperator
    \/ RejectNegatedOperator
    \/ RejectUndeclared
    \/ TakeOperand
    \/ Finish

Next == Step \/ Done

Spec == Init /\ [][Next]_vars /\ WF_vars(Step)

----------------------------------------------------------------------------
ParserTypeOK ==
    /\ expr \in Expressions
    /\ it \in 1 .. Len(expr) + 1
    /\ operators \in Seq({"and", "or"})
    /\ operands \in Seq(Operand)
    /\ status \in {"setup", "parsing", "ok", "invalid"}

\* The parser accepts nothing outside the grammar: comparing the two counts at
\* the end is enough to catch two terms without an operator between them.
AcceptsOnlyWellFormed == status = "ok" => WellFormed(expr, Declared)

\* ... and refuses nothing the grammar allows.
RefusesOnlyMalformed == status = "invalid" => ~WellFormed(expr, Declared)

\* The operands and the operators at some first positions of the expression are
\* in the two vectors, in order, each operand with the sign written before it.
Rank(i, S) == Cardinality({j \in S : j <= i})

Records(positions) ==
    LET named  == {i \in positions : ~isOperator(expr[i])}
        binary == {i \in positions : isBinaryOperator(expr[i])}
    IN  /\ Len(operands) = Cardinality(named)
        /\ Len(operators) = Cardinality(binary)
        /\ \A i \in named :
             operands[Rank(i, named)] = [name |-> expr[i], negated |-> Negated(expr, i)]
        /\ \A i \in binary : operators[Rank(i, binary)] = expr[i]

\* The vectors executeOperation will index hold those of the whole expression.
RecordsExpression == status = "ok" => Records(1 .. Len(expr))

----------------------------------------------------------------------------
(***************************************************************************)
(* Why counting is enough.  At position `it' every token before it has     *)
(* passed the checks the grammar makes of it, with one exception: a term   *)
(* that starts right after an operand (Juxtaposed).  Each term adds one to *)
(* the surplus of operands over operators, each operator takes one away    *)
(* and is followed by a term, so the surplus is back at its least value if *)
(* and only if there was no such term.                                     *)
(***************************************************************************)
Consumed == 1 .. it - 1

Juxtaposed ==
    \E i \in Consumed :
        i > 1 /\ ~isOperator(expr[i - 1]) /\ ~isBinaryOperator(expr[i])

ConsumedPassedChecks ==
    /\ expr # <<>> /\ ~isBinaryOperator(expr[1])
    /\ \A i \in Consumed :
        /\ ~isOperator(expr[i]) => expr[i] \in Declared
        /\ isOperator(expr[i]) => i < Len(expr)
        /\ expr[i] = "not" => i + 1 \in Consumed /\ ~isOperator(expr[i + 1])
        /\ isBinaryOperator(expr[i]) => i > 1 /\ ~isBinaryOperator(expr[i - 1])

SurplusCounts ==
    LET surplus == Len(operands) - Len(operators)
        least   == IF it = 1 \/ isBinaryOperator(expr[it - 1]) THEN 0 ELSE 1
    IN  surplus >= least /\ (surplus = least <=> ~Juxtaposed)

LoopInvariant ==
    status = "parsing" => ConsumedPassedChecks /\ SurplusCounts /\ Records(Consumed)

\* The inductive invariant of the proofs.
ParserIInv ==
    /\ ParserTypeOK
    /\ status = "setup" => it = 1 /\ operators = <<>> /\ operands = <<>>
    /\ LoopInvariant
    /\ AcceptsOnlyWellFormed
    /\ RefusesOnlyMalformed
    /\ RecordsExpression

\* The loop, which advances by one or by two tokens, leaves on every input.
Terminates == <>(status \in {"ok", "invalid"})
=============================================================================
