----------------------------- MODULE Conditions -----------------------------
(***************************************************************************)
(* Conditional expressions: the tokens after the keyword `if' of an        *)
(* operation.  A term is a boolean variable or `not' and a boolean         *)
(* variable; terms are joined by `and' and `or', and `and' binds tighter   *)
(* (README.md, "Conditional Expressions").                                 *)
(*                                                                         *)
(* This module holds the token classes of utility.cc, the grammar as one   *)
(* predicate over positions, and the value of an expression.  How the code *)
(* decides the grammar, one token at a time, is module ConditionParser.    *)
(***************************************************************************)
EXTENDS Naturals, Sequences

isBinaryOperator(t) == t \in {"and", "or"}
isOperator(t) == isBinaryOperator(t) \/ t = "not"

(***************************************************************************)
(* c is an expression over the boolean variables in declared: it starts    *)
(* with a term, ends with an operand, `not' is followed by an operand, a   *)
(* binary operator by the start of a term, and an operand by a binary      *)
(* operator.                                                               *)
(***************************************************************************)
Follows(t, u) ==
    CASE t = "not"           -> ~isOperator(u)
      [] isBinaryOperator(t) -> ~isBinaryOperator(u)
      [] OTHER               -> isBinaryOperator(u)

WellFormed(c, declared) ==
    /\ c # <<>>
    /\ ~isBinaryOperator(c[1])
    /\ ~isOperator(c[Len(c)])
    /\ \A i \in 1 .. Len(c) - 1 : Follows(c[i], c[i + 1])
    /\ \A i \in 1 .. Len(c) : isOperator(c[i]) \/ c[i] \in declared

(***************************************************************************)
(* The value of an expression whose boolean variables evaluate to result,  *)
(* a function from names to records [status, value].  No operator cuts the *)
(* evaluation short, so the expression fails if any operand does, or has   *)
(* no entry in the map of boolean variables.  Otherwise it is a            *)
(* disjunction of conjunctions: the operands with no `or' between them     *)
(* belong to one conjunction.                                              *)
(***************************************************************************)
Operands(c) == {i \in 1 .. Len(c) : ~isOperator(c[i])}

Negated(c, i) == i > 1 /\ c[i - 1] = "not"

SameGroup(c, i, j) == \A k \in 1 .. Len(c) : c[k] = "or" => (k < i <=> k < j)

OperandHolds(c, i, result) == result[c[i]].value # Negated(c, i)

ConditionFails(c, result) ==
    \E i \in Operands(c) :
        c[i] \notin DOMAIN result \/ result[c[i]].status # "ok"

ConditionHolds(c, result) ==
    \E i \in Operands(c) :
        \A j \in Operands(c) : SameGroup(c, i, j) => OperandHolds(c, j, result)
=============================================================================
