----------------------- MODULE ConditionParser_proofs -----------------------
(***************************************************************************)
(* The condition parser decides the grammar, for every expression and      *)
(* every set of declared variables: TLC checks this for short expressions  *)
(* over a few names, these proofs for all of them.                         *)
(***************************************************************************)
EXTENDS ConditionParser, Ranks

\* No step of the parser changes the expression, and every token of it is a
\* string.
LEMMA ExpressionType ==
    ASSUME NEW c \in Expressions
    PROVE  c \in Seq(STRING) /\ Len(c) \in Nat /\ \A i \in 1 .. Len(c) : c[i] \in STRING
BY ExpressionsAssumption

\* The inductive invariant holds when the parser is entered.
LEMMA InitIInv == Init => ParserIInv
<1> SUFFICES ASSUME Init PROVE ParserIInv
  OBVIOUS
<1>1. expr \in Expressions /\ Len(expr) \in Nat
  BY ExpressionType DEF Init
<1>2. ParserTypeOK
  BY <1>1 DEF Init, ParserTypeOK
<1>3. QED
  BY <1>2
  DEF Init, ParserIInv, LoopInvariant, AcceptsOnlyWellFormed, RefusesOnlyMalformed, RecordsExpression

\* A step that returns an error does so on an expression outside the grammar.
LEMMA RejectsAreJustified ==
    ASSUME ParserIInv,
           RejectEmpty \/ RejectLeadingOperator \/ RejectOperator
             \/ RejectNegatedOperator \/ RejectUndeclared
    PROVE  ~WellFormed(expr, Declared)
<1>1. expr \in Seq(STRING) /\ Len(expr) \in Nat /\ it \in 1 .. Len(expr) + 1
  BY ExpressionType DEF ParserIInv, ParserTypeOK
<1>2. CASE RejectEmpty \/ RejectLeadingOperator
  BY <1>2 DEF RejectEmpty, RejectLeadingOperator, WellFormed
<1>3. CASE RejectOperator
  <2>1. it \in 1 .. Len(expr)
    BY <1>1, <1>3 DEF RejectOperator, InLoop
  <2>2. CASE TwoOperators
    <3>1. it - 1 \in 1 .. Len(expr) - 1 /\ (it - 1) + 1 = it
      BY <1>1, <2>1, <2>2 DEF TwoOperators
    <3>2. ~Follows(expr[it - 1], expr[it])
      BY <2>2 DEF TwoOperators, Follows, isBinaryOperator
    <3>3. QED
      BY <3>1, <3>2 DEF WellFormed
  <2>3. CASE TrailingOperator
    BY <2>3 DEF TrailingOperator, WellFormed
  <2>4. QED
    BY <1>3, <2>2, <2>3 DEF RejectOperator
<1>4. CASE RejectNegatedOperator
  <2>1. it \in 1 .. Len(expr) - 1
    BY <1>1, <1>4
    DEF RejectNegatedOperator, PassesOperatorChecks, InLoop, TrailingOperator, isOperator
  <2>2. ~Follows(expr[it], expr[it + 1])
    BY <1>4 DEF RejectNegatedOperator, Follows, isBinaryOperator
  <2>3. QED
    BY <2>1, <2>2 DEF WellFormed
<1>5. CASE RejectUndeclared
  <2>1. OperandAt \in 1 .. Len(expr)
    BY <1>1, <1>5
    DEF RejectUndeclared, TermStarts, PassesOperatorChecks, InLoop, TrailingOperator,
        OperandAt, isOperator
  <2>2. ~isOperator(expr[OperandAt]) /\ expr[OperandAt] \notin Declared
    BY <1>5 DEF RejectUndeclared, TermStarts
  <2>3. QED
    BY <2>1, <2>2 DEF WellFormed
<1>6. QED
  BY <1>2, <1>3, <1>4, <1>5

\* At the end of the loop the invariant speaks of the whole expression, which
\* is then well formed exactly when no two terms stand side by side.
LEMMA CountingDecides ==
    ASSUME ParserIInv, Finish
    PROVE  CountsAgree <=> WellFormed(expr, Declared)
<1>1. expr \in Seq(STRING) /\ Len(expr) \in Nat /\ it = Len(expr) + 1
  BY ExpressionType DEF ParserIInv, ParserTypeOK, Finish
<1>2. ConsumedPassedChecks /\ SurplusCounts /\ expr # <<>>
  BY DEF ParserIInv, LoopInvariant, Finish, ConsumedPassedChecks
<1>3. Len(expr) >= 1 /\ Consumed = 1 .. Len(expr)
  BY <1>1, <1>2 DEF Consumed
<1>4. ~isOperator(expr[Len(expr)])
  BY <1>1, <1>2, <1>3 DEF ConsumedPassedChecks
<1>5. CountsAgree <=> ~Juxtaposed
  <2>1. it # 1 /\ it - 1 = Len(expr) /\ ~isBinaryOperator(expr[it - 1])
    BY <1>1, <1>3, <1>4 DEF isOperator
  <2>2. Len(operands) \in Nat /\ Len(operators) \in Nat
    BY DEF ParserIInv, ParserTypeOK
  <2>3. QED
    BY <1>2, <2>1, <2>2 DEF SurplusCounts, CountsAgree
<1>6. ASSUME Juxtaposed PROVE ~WellFormed(expr, Declared)
  <2>1. PICK i \in Consumed :
          i > 1 /\ ~isOperator(expr[i - 1]) /\ ~isBinaryOperator(expr[i])
    BY <1>6 DEF Juxtaposed
  <2>2. i - 1 \in 1 .. Len(expr) - 1 /\ (i - 1) + 1 = i
    BY <1>1, <1>3, <2>1
  <2>3. ~Follows(expr[i - 1], expr[i])
    BY <2>1 DEF Follows, isOperator
  <2>4. QED
    BY <2>2, <2>3 DEF WellFormed
<1>7. ASSUME ~Juxtaposed PROVE WellFormed(expr, Declared)
  <2>1. ASSUME NEW i \in 1 .. Len(expr) - 1 PROVE Follows(expr[i], expr[i + 1])
    <3>1. i \in Consumed /\ i + 1 \in Consumed /\ i + 1 > 1 /\ (i + 1) - 1 = i
      BY <1>1, <1>3
    <3>2. CASE expr[i] = "not"
      BY <1>2, <3>1, <3>2 DEF ConsumedPassedChecks, Follows
    <3>3. CASE isBinaryOperator(expr[i])
      BY <1>2, <3>1, <3>3 DEF ConsumedPassedChecks, Follows, isBinaryOperator
    <3>4. CASE ~isOperator(expr[i])
      BY <1>7, <3>1, <3>4 DEF Juxtaposed, Follows, isOperator
    <3>5. QED
      BY <3>2, <3>3, <3>4 DEF isOperator
  <2>2. \A i \in 1 .. Len(expr) : isOperator(expr[i]) \/ expr[i] \in Declared
    BY <1>2, <1>3 DEF ConsumedPassedChecks
  <2>3. QED
    BY <1>2, <1>4, <2>1, <2>2 DEF WellFormed, ConsumedPassedChecks
<1>8. QED
  BY <1>5, <1>6, <1>7

\* What stands at the first n positions.
Named(n) == {i \in 1 .. n : ~isOperator(expr[i])}
Binary(n) == {i \in 1 .. n : isBinaryOperator(expr[i])}

LEMMA RecordsOf ==
    ASSUME NEW n
    PROVE  Records(1 .. n) <=>
             /\ Len(operands) = Cardinality(Named(n))
             /\ Len(operators) = Cardinality(Binary(n))
             /\ \A i \in Named(n) :
                  operands[RankOf(i, Named(n))] = [name |-> expr[i], negated |-> Negated(expr, i)]
             /\ \A i \in Binary(n) : operators[RankOf(i, Binary(n))] = expr[i]
BY DEF Records, Rank, RankOf, Named, Binary

\* Records speaks of the two vectors and the expression only.
LEMMA RecordsKept ==
    ASSUME NEW n, UNCHANGED <<expr, operators, operands>>, Records(1 .. n)
    PROVE  Records(1 .. n)'
BY DEF Records, Rank

LEMMA TakeOperatorRecords ==
    ASSUME ParserTypeOK, Records(Consumed), expr \in Seq(STRING), it \in 1 .. Len(expr),
           isBinaryOperator(expr[it]), UNCHANGED <<expr, operands>>,
           operators' = Append(operators, expr[it]), it' = it + 1
    PROVE  Records(Consumed)'
<1>1. PICK n \in Nat, k \in Nat : n = it - 1 /\ k = it /\ k > n
  BY DEF ParserTypeOK
<1>2. /\ Consumed = 1 .. n /\ Consumed' = 1 .. k
      /\ 1 .. k = (1 .. n) \cup {k}
  BY <1>1 DEF Consumed
<1> DEFINE S == Binary(n)
<1>3. Named(k)' = Named(n) /\ Binary(k)' = S \cup {k} /\ S \subseteq 1 .. n
  BY <1>1, <1>2 DEF Named, Binary, isOperator
<1>4. /\ Len(operands) = Cardinality(Named(n))
      /\ Len(operators) = Cardinality(S)
      /\ \A i \in Named(n) :
           operands[RankOf(i, Named(n))] = [name |-> expr[i], negated |-> Negated(expr, i)]
      /\ \A i \in S : operators[RankOf(i, S)] = expr[i]
  BY <1>2, RecordsOf
<1> HIDE DEF S
<1>5. PICK r : r = operators'
  OBVIOUS
<1>6. operators \in Seq({"and", "or"}) /\ expr[it] \in {"and", "or"}
  BY DEF ParserTypeOK, isBinaryOperator
<1>7. /\ Len(r) = Cardinality(S) + 1
      /\ r[Cardinality(S) + 1] = expr[k]
      /\ \A i \in 1 .. Cardinality(S) : r[i] = operators[i]
  BY <1>1, <1>4, <1>5, <1>6, AppendProperties
<1>8. /\ Cardinality(S \cup {k}) = Cardinality(S) + 1
      /\ RankOf(k, S \cup {k}) = Cardinality(S) + 1
      /\ \A i \in S : RankOf(i, S \cup {k}) = RankOf(i, S)
  <2>1. S \subseteq 1 .. n /\ k > n
    BY <1>1, <1>3
  <2>2. QED
    BY <2>1, LastRank
<1>9. \A i \in S : RankOf(i, S) \in 1 .. Cardinality(S)
  BY <1>3, RankInRange
<1>10. \A i \in S \cup {k} : r[RankOf(i, S \cup {k})] = expr[i]
  BY <1>4, <1>7, <1>8, <1>9
<1>11. QED
  BY <1>2, <1>3, <1>4, <1>5, <1>7, <1>8, <1>10 DEF Records, Rank, RankOf, Named, Binary

LEMMA TakeOperandRecords ==
    ASSUME ParserTypeOK, Records(Consumed), expr \in Seq(STRING), it \in 1 .. Len(expr),
           OperandAt \in 1 .. Len(expr),
           OperandAt = it \/ (expr[it] = "not" /\ OperandAt = it + 1),
           Negated(expr, OperandAt) <=> expr[it] = "not",
           ~isOperator(expr[OperandAt]), UNCHANGED <<expr, operators>>,
           operands' = Append(operands, [name |-> expr[OperandAt], negated |-> expr[it] = "not"]),
           it' = OperandAt + 1
    PROVE  Records(Consumed)'
<1>1. PICK n \in Nat, k \in Nat : n = it - 1 /\ k = OperandAt /\ k > n
  BY DEF ParserTypeOK
<1>2. /\ Consumed = 1 .. n /\ Consumed' = 1 .. k
      /\ 1 .. k = (1 .. n) \cup {it, k}
  BY <1>1 DEF Consumed
<1> DEFINE S == Named(n)
           v == [name |-> expr[k], negated |-> Negated(expr, k)]
<1>3. Binary(k)' = Binary(n) /\ Named(k)' = S \cup {k} /\ S \subseteq 1 .. n
  BY <1>1, <1>2 DEF Named, Binary, isOperator, isBinaryOperator
<1>4. /\ Len(operands) = Cardinality(S)
      /\ Len(operators) = Cardinality(Binary(n))
      /\ \A i \in S : operands[RankOf(i, S)] = [name |-> expr[i], negated |-> Negated(expr, i)]
      /\ \A i \in Binary(n) : operators[RankOf(i, Binary(n))] = expr[i]
  BY <1>2, RecordsOf
<1> HIDE DEF S
<1>5. PICK r : r = operands'
  OBVIOUS
<1>6. operands \in Seq(Operand) /\ v \in Operand /\ operands' = Append(operands, v)
  <2>1. expr[k] \in STRING /\ Negated(expr, k) \in BOOLEAN
    BY <1>1 DEF Negated
  <2>2. Negated(expr, k) = (expr[it] = "not")
    BY <1>1, <2>1
  <2>3. QED
    BY <1>1, <2>1, <2>2 DEF ParserTypeOK, Operand
<1> HIDE DEF v
<1>7. /\ Len(r) = Cardinality(S) + 1
      /\ r[Cardinality(S) + 1] = v
      /\ \A i \in 1 .. Cardinality(S) : r[i] = operands[i]
  BY <1>4, <1>5, <1>6, AppendProperties
<1>8. /\ Cardinality(S \cup {k}) = Cardinality(S) + 1
      /\ RankOf(k, S \cup {k}) = Cardinality(S) + 1
      /\ \A i \in S : RankOf(i, S \cup {k}) = RankOf(i, S)
  <2>1. S \subseteq 1 .. n /\ k > n
    BY <1>1, <1>3
  <2>2. QED
    BY <2>1, LastRank
<1>9. \A i \in S : RankOf(i, S) \in 1 .. Cardinality(S)
  BY <1>3, RankInRange
<1>10. \A i \in S \cup {k} :
         r[RankOf(i, S \cup {k})] = [name |-> expr[i], negated |-> Negated(expr, i)]
  BY <1>4, <1>7, <1>8, <1>9 DEF v
<1>11. QED
  BY <1>2, <1>3, <1>4, <1>5, <1>7, <1>8, <1>10 DEF Records, Rank, RankOf, Named, Binary

\* Keeping an operator takes one from the surplus, after an operand.
LEMMA TakeOperatorIInv == ASSUME ParserIInv, TakeOperator PROVE ParserIInv'
<1>1. /\ expr \in Seq(STRING) /\ Len(expr) \in Nat
      /\ it \in 1 .. Len(expr) /\ isBinaryOperator(expr[it])
      /\ ~TwoOperators /\ ~TrailingOperator /\ status = "parsing"
      /\ expr' = expr /\ it' = it + 1 /\ operators' = Append(operators, expr[it])
      /\ operands' = operands /\ status' = status
  BY ExpressionType DEF TakeOperator, PassesOperatorChecks, InLoop, ParserIInv, ParserTypeOK
<1>2. ConsumedPassedChecks /\ SurplusCounts /\ Records(Consumed) /\ ParserTypeOK
  BY <1>1 DEF ParserIInv, LoopInvariant
<1>3. /\ it > 1 /\ ~isBinaryOperator(expr[it - 1]) /\ it < Len(expr)
  BY <1>1, <1>2 DEF ConsumedPassedChecks, TwoOperators, TrailingOperator, isOperator
<1>4. ParserTypeOK'
  BY <1>1, <1>2 DEF ParserTypeOK, isBinaryOperator
<1>5. Consumed' = Consumed \cup {it} /\ Consumed = 1 .. it - 1
  BY <1>1 DEF Consumed
<1>6. ConsumedPassedChecks'
  BY <1>1, <1>2, <1>3, <1>5 DEF ConsumedPassedChecks, isOperator, isBinaryOperator
<1>7. SurplusCounts'
  <2>1. Juxtaposed' <=> Juxtaposed
    BY <1>1, <1>5 DEF Juxtaposed
  <2>2. Len(operators') = Len(operators) + 1 /\ Len(operators) \in Nat /\ Len(operands) \in Nat
    BY <1>1, <1>2 DEF ParserTypeOK, isBinaryOperator
  <2>3. it' # 1 /\ expr'[it' - 1] = expr[it]
    BY <1>1
  <2>4. QED
    BY <1>1, <1>2, <1>3, <2>1, <2>2, <2>3 DEF SurplusCounts
<1>8. Records(Consumed)'
  BY <1>1, <1>2, TakeOperatorRecords
<1>9. QED
  BY <1>1, <1>4, <1>6, <1>7, <1>8
  DEF ParserIInv, LoopInvariant, AcceptsOnlyWellFormed, RefusesOnlyMalformed,
      RecordsExpression

\* Keeping an operand adds one to the surplus: back to its least value after an
\* operator, above it after another operand.
LEMMA TakeOperandIInv == ASSUME ParserIInv, TakeOperand PROVE ParserIInv'
<1>1. /\ expr \in Seq(STRING) /\ Len(expr) \in Nat
      /\ it \in 1 .. Len(expr) /\ ~isBinaryOperator(expr[it])
      /\ ~isOperator(expr[OperandAt]) /\ expr[OperandAt] \in Declared
      /\ ~TrailingOperator /\ status = "parsing"
      /\ expr' = expr /\ it' = OperandAt + 1 /\ operators' = operators
      /\ operands' = Append(operands, [name |-> expr[OperandAt], negated |-> expr[it] = "not"])
      /\ status' = status
  BY ExpressionType
  DEF TakeOperand, TermStarts, PassesOperatorChecks, InLoop, ParserIInv, ParserTypeOK
<1>2. ConsumedPassedChecks /\ SurplusCounts /\ Records(Consumed) /\ ParserTypeOK
  BY <1>1 DEF ParserIInv, LoopInvariant
<1>3. /\ OperandAt \in 1 .. Len(expr)
      /\ OperandAt = it \/ (expr[it] = "not" /\ OperandAt = it + 1)
      /\ expr[it] = "not" => OperandAt = it + 1
  BY <1>1 DEF OperandAt, TrailingOperator, isOperator
<1>4. ParserTypeOK'
  <2>1. expr[OperandAt] \in STRING
    BY <1>1, <1>3
  <2>2. operands' \in Seq(Operand)
    BY <1>1, <1>2, <2>1 DEF ParserTypeOK, Operand
  <2>3. QED
    BY <1>1, <1>2, <1>3, <2>2 DEF ParserTypeOK
<1>5. Consumed' = Consumed \cup {it, OperandAt} /\ Consumed = 1 .. it - 1
  BY <1>1, <1>3 DEF Consumed
<1>6. ConsumedPassedChecks'
  BY <1>1, <1>2, <1>3, <1>5 DEF ConsumedPassedChecks, isOperator, isBinaryOperator, TrailingOperator
<1>7. SurplusCounts'
  <2> DEFINE beside == it > 1 /\ ~isOperator(expr[it - 1])
  <2>1. Juxtaposed' <=> Juxtaposed \/ beside
    <3>1. OperandAt # it => isOperator(expr[OperandAt - 1])
      BY <1>1, <1>3 DEF isOperator
    <3>2. QED
      BY <1>1, <1>3, <1>5, <3>1 DEF Juxtaposed
  <2>2. Len(operands') = Len(operands) + 1 /\ Len(operators) \in Nat /\ Len(operands) \in Nat
    <3>1. operands \in Seq(Operand)
      BY <1>2 DEF ParserTypeOK
    <3>2. QED
      BY <1>1, <1>2, <3>1 DEF ParserTypeOK
  <2>3. it' # 1 /\ ~isBinaryOperator(expr'[it' - 1])
    BY <1>1, <1>3 DEF isOperator
  <2>4. beside <=> ~(it = 1 \/ isBinaryOperator(expr[it - 1]))
    <3>1. ASSUME it > 1 PROVE expr[it - 1] # "not"
      BY <1>1, <1>2, <3>1 DEF ConsumedPassedChecks, Consumed
    <3>2. QED
      BY <1>1, <3>1 DEF isOperator
  <2>5. QED
    BY <1>1, <1>2, <2>1, <2>2, <2>3, <2>4 DEF SurplusCounts
<1>8. Records(Consumed)'
  <2>1. Negated(expr, OperandAt) <=> expr[it] = "not"
    <3>1. ASSUME it > 1 PROVE expr[it - 1] # "not"
      BY <1>1, <1>2, <3>1 DEF ConsumedPassedChecks, Consumed
    <3>2. QED
      BY <1>1, <1>3, <3>1 DEF Negated
  <2>2. QED
    BY <1>1, <1>2, <1>3, <2>1, TakeOperandRecords
<1>9. QED
  BY <1>1, <1>4, <1>6, <1>7, <1>8
  DEF ParserIInv, LoopInvariant, AcceptsOnlyWellFormed, RefusesOnlyMalformed,
      RecordsExpression

\* Every step keeps the inductive invariant.
LEMMA NextIInv == ParserIInv /\ [Next]_vars => ParserIInv'
<1> SUFFICES ASSUME ParserIInv, [Next]_vars PROVE ParserIInv'
  OBVIOUS
<1>1. ASSUME RejectEmpty \/ RejectLeadingOperator \/ RejectOperator
               \/ RejectNegatedOperator \/ RejectUndeclared
      PROVE  ParserIInv'
  <2>1. status' = "invalid" /\ UNCHANGED <<expr, it, operators, operands>>
    BY <1>1
    DEF RejectEmpty, RejectLeadingOperator, RejectOperator, RejectNegatedOperator,
        RejectUndeclared, Return
  <2>2. ~WellFormed(expr, Declared)
    BY <1>1, RejectsAreJustified
  <2>3. QED
    BY <2>1, <2>2
    DEF ParserIInv, ParserTypeOK, LoopInvariant, AcceptsOnlyWellFormed, RefusesOnlyMalformed,
      RecordsExpression
<1>2. CASE EnterLoop
  <2>1. /\ status = "setup" /\ status' = "parsing" /\ expr # <<>> /\ ~isBinaryOperator(expr[1])
        /\ UNCHANGED <<expr, it, operators, operands>>
    BY <1>2 DEF EnterLoop, Return
  <2>2. it = 1 /\ operators = <<>> /\ operands = <<>> /\ Consumed = {}
    BY <2>1 DEF ParserIInv, Consumed
  <2>3. ConsumedPassedChecks /\ ~Juxtaposed
    BY <2>1, <2>2 DEF ConsumedPassedChecks, Juxtaposed
  <2>4. SurplusCounts
    BY <2>2, <2>3 DEF SurplusCounts
  <2>5. (ConsumedPassedChecks /\ SurplusCounts)'
    BY <2>1, <2>3, <2>4
    DEF ConsumedPassedChecks, SurplusCounts, Juxtaposed, Consumed
  <2>6. Records(Consumed)'
    <3>1. Cardinality({}) = 0 /\ Len(<<>>) = 0
      BY FS_EmptySet
    <3>2. Consumed' = {} /\ operators' = <<>> /\ operands' = <<>>
      BY <2>1, <2>2 DEF Consumed
    <3>3. QED
      BY <3>1, <3>2 DEF Records
  <2>7. QED
    BY <2>1, <2>5, <2>6
    DEF ParserIInv, ParserTypeOK, LoopInvariant, AcceptsOnlyWellFormed, RefusesOnlyMalformed,
      RecordsExpression
<1>3. CASE TakeOperator
  BY <1>3, TakeOperatorIInv
<1>4. CASE TakeOperand
  BY <1>4, TakeOperandIInv
<1>5. CASE Finish
  <2>1. CountsAgree <=> WellFormed(expr, Declared)
    BY <1>5, CountingDecides
  <2>2. /\ status' = IF CountsAgree THEN "ok" ELSE "invalid"
        /\ UNCHANGED <<expr, it, operators, operands>>
    BY <1>5 DEF Finish, Return
  <2>3. Records(1 .. Len(expr))'
    <3>1. it = Len(expr) + 1 /\ Len(expr) \in Nat /\ Records(Consumed)
      BY <1>5, ExpressionType DEF Finish, ParserIInv, ParserTypeOK, LoopInvariant
    <3>2. Consumed = 1 .. Len(expr)
      BY <3>1 DEF Consumed
    <3>3. QED
      BY <2>2, <3>1, <3>2, RecordsKept
  <2>4. QED
    BY <2>1, <2>2, <2>3
    DEF ParserIInv, ParserTypeOK, LoopInvariant, AcceptsOnlyWellFormed, RefusesOnlyMalformed,
      RecordsExpression
<1>6. CASE UNCHANGED vars
  BY <1>6, RecordsKept
  DEF vars, ParserIInv, ParserTypeOK, LoopInvariant, ConsumedPassedChecks, SurplusCounts, Juxtaposed,
      Consumed, AcceptsOnlyWellFormed, RefusesOnlyMalformed,
      RecordsExpression
<1>7. QED
  BY <1>1, <1>2, <1>3, <1>4, <1>5, <1>6 DEF Next, Step, Done

\* The inductive invariant holds of every behaviour.
THEOREM ParserInvariant == Spec => []ParserIInv
BY InitIInv, NextIInv, PTL DEF Spec

\* ConditionProcessor::parseOperation returns ok only on an expression of the
\* grammar over declared variables, and an error only on one outside it.
THEOREM ParserDecidesGrammar == Spec => [](AcceptsOnlyWellFormed /\ RefusesOnlyMalformed)
<1>1. ParserIInv => AcceptsOnlyWellFormed /\ RefusesOnlyMalformed
  BY DEF ParserIInv
<1>2. QED
  BY <1>1, ParserInvariant, PTL

\* The parser refuses nothing that the grammar allows.
THEOREM ParserRefusesNoExpression == Spec => []RefusesOnlyMalformed
<1>1. ParserIInv => RefusesOnlyMalformed
  BY DEF ParserIInv
<1>2. QED
  BY <1>1, ParserInvariant, PTL

\* What the parser accepts it has recorded: the vectors that an evaluation will
\* walk hold the operands, each with its sign, and the operators in order.
THEOREM ParserRecordsExpression == Spec => []RecordsExpression
<1>1. ParserIInv => RecordsExpression
  BY DEF ParserIInv
<1>2. QED
  BY <1>1, ParserInvariant, PTL

\* The parser's variables keep their types: the iterator never passes the end.
THEOREM ParserTypes == Spec => []ParserTypeOK
<1>1. ParserIInv => ParserTypeOK
  BY DEF ParserIInv
<1>2. QED
  BY <1>1, ParserInvariant, PTL
=============================================================================
