---------------------------- MODULE BoolVariables ----------------------------
(***************************************************************************)
(* SetBoolProcessor: a boolean variable is a source, a match type and,     *)
(* except for `found', a text to compare with.  It holds no value: each    *)
(* reference from a condition computes it from the message as it is then.  *)
(***************************************************************************)
EXTENDS Conditions, DynamicFunctions

CONSTANTS
    PrefixOf,     \* pairs of different texts, the first a prefix of the second
    SubstringOf    \* pairs of different texts, the first a substring of the second

ASSUME SubstringOfAssumption ==
    PrefixOf \subseteq SubstringOf /\ \A p \in SubstringOf : p \in Text \X Text

MatchTypes == {"str", "beg", "sub", "found"}
requiresArgument(match) == match \in {"str", "sub", "beg"}

\* The comparison of `found' is the empty string.
BoolVariable ==
    [source : STRING, match : MatchTypes, compare : STRING \cup {""}]

(***************************************************************************)
(* tokens: side, set-bool, name, source, -m, match type, comparison.       *)
(***************************************************************************)
BoolParses(tokens, side) ==
    /\ Len(tokens) >= 6
    /\ tokens[5] = "-m"
    /\ tokens[6] \in MatchTypes
    /\ Len(tokens) = IF requiresArgument(tokens[6]) THEN 7 ELSE 6
    /\ Parses(tokens[4], side)
    /\ requiresArgument(tokens[6]) => Parses(tokens[7], side)

ParsedBool(tokens) ==
    [source  |-> tokens[4],
     match   |-> tokens[6],
     compare |-> IF requiresArgument(tokens[6]) THEN tokens[7] ELSE ""]

\* matcher_: nothing matches an empty source.  For `beg' with a comparison
\* longer than the source the call compares past the source's terminating zero,
\* which differs from every character of a comparison.
Matches(match, source, compare) ==
    /\ source # <<>>
    /\ \/ match = "found"
       \/ match \in {"beg", "sub"} /\ compare = <<>>
       \/ match \in {"str", "beg", "sub"} /\ compare = source
       \/ match = "beg" /\ <<compare, source>> \in PrefixOf
       \/ match = "sub" /\ <<compare, source>> \in SubstringOf

EvaluateBool(b, side, m) ==
    LET source  == Evaluate(b.source, side, m)
        compare == Evaluate(b.compare, side, m)
    IN  IF source.status # "ok" \/ compare.status # "ok"
        THEN [status |-> "error", value |-> FALSE]
        ELSE [status |-> "ok", value |-> Matches(b.match, source.text, compare.text)]

(***************************************************************************)
(* HeaderProcessor::evaluateCondition.  <<>> stands for an operation       *)
(* without `if'.  An exception of an operand's evaluation is caught in     *)
(* executeOperationLinearly and becomes an error status.                   *)
(***************************************************************************)
evaluateCondition(c, variables, side, m) ==
    LET result == [n \in DOMAIN variables |-> EvaluateBool(variables[n], side, m)]
    IN  CASE c = <<>> -> [status |-> "ok", value |-> TRUE]
          [] c # <<>> /\ ConditionFails(c, result) -> [status |-> "error", value |-> FALSE]
          [] OTHER -> [status |-> "ok", value |-> ConditionHolds(c, result)]
=============================================================================
