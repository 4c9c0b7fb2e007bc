----------------------------- MODULE Operations -----------------------------
(***************************************************************************)
(* One line of the configuration, as the tokens splitToken cuts it into:   *)
(* what parseOperation of each kind of processor accepts, and what it      *)
(* keeps.                                                                  *)
(***************************************************************************)
EXTENDS BoolVariables

ExecutedOperations == {"set-header", "append-header", "set-path", "set-metadata"}

(***************************************************************************)
(* What parseOperation keeps of a line: target is the key, or the path of  *)
(* set-path; condition the tokens after `if', <<>> when there is none.     *)
(***************************************************************************)
Processor ==
    [op : ExecutedOperations, target : STRING, values : Seq(STRING),
     condition : Seq(STRING)]

After(tokens, i) == SubSeq(tokens, i + 1, Len(tokens))

\* A fault: the status of ConditionProcessorSetup is not returned.
ClauseParsesUnchecked(tokens, i, declared) ==
    i <= Len(tokens) => tokens[i] = "if"

\* The clause of an operation whose arguments end before position i: nothing,
\* or `if' and an expression over the variables declared so far.
ClauseParses(tokens, i, declared) ==
    i <= Len(tokens) => tokens[i] = "if" /\ WellFormed(After(tokens, i), declared)

\* Where the values of append-header stop: at its first `if', or at the end.
FirstIf(tokens) ==
    CHOOSE i \in 4 .. Len(tokens) + 1 :
        /\ i <= Len(tokens) => tokens[i] = "if"
        /\ \A j \in 4 .. i - 1 : tokens[j] # "if"

KeyValueParses(tokens, side, declared) ==
    /\ Len(tokens) >= 4
    /\ Parses(tokens[3], side)
    /\ Parses(tokens[4], side)
    /\ ClauseParses(tokens, 5, declared)

AppendParses(tokens, side, declared) ==
    /\ Len(tokens) >= 4
    /\ Parses(tokens[3], side)
    /\ FirstIf(tokens) > 4
    /\ \A i \in 4 .. FirstIf(tokens) - 1 : Parses(tokens[i], side)
    /\ ClauseParses(tokens, FirstIf(tokens), declared)

SetPathParses(tokens, side, declared) ==
    /\ Len(tokens) >= 3
    /\ Parses(tokens[3], side)
    /\ ClauseParses(tokens, 4, declared)

\* The position after the last argument of an operation that parses.
ClauseAt(tokens) ==
    CASE tokens[2] = "append-header" -> FirstIf(tokens)
      [] tokens[2] = "set-path"      -> 4
      [] OTHER                       -> 5

ParsedOperation(tokens) ==
    [op        |-> tokens[2],
     target    |-> tokens[3],
     values    |-> SubSeq(tokens, 4, ClauseAt(tokens) - 1),
     condition |-> After(tokens, ClauseAt(tokens))]

\* A map with one entry set.
With(f, k, v) == [x \in DOMAIN f \cup {k} |-> IF x = k THEN v ELSE f[x]]

(***************************************************************************)
(* What makes line i of the configuration c good: an operation parses when *)
(* its arguments do and its condition is an expression over the variables  *)
(* that the lines above it set on its own side; a set-bool also needs a    *)
(* name none of those set.                                                 *)
(***************************************************************************)
DeclaredAbove(c, i, side) ==
    {c[j][3] : j \in {k \in 1 .. i - 1 :
        Len(c[k]) > 2 /\ c[k][1] = side /\ c[k][2] = "set-bool"}}

LineParses(c, i) ==
    LET tokens   == c[i]
        side     == tokens[1]
        declared == DeclaredAbove(c, i, side)
    IN  /\ Len(tokens) >= 2
        /\ side \in Sides
        /\ \/ /\ tokens[2] \in {"set-header", "set-metadata"}
              /\ KeyValueParses(tokens, side, declared)
           \/ /\ tokens[2] = "append-header"
              /\ AppendParses(tokens, side, declared)
           \/ /\ tokens[2] = "set-path" /\ side = "http-request"
              /\ SetPathParses(tokens, side, declared)
           \/ /\ tokens[2] = "set-bool"
              /\ BoolParses(tokens, side) /\ tokens[3] \notin declared
=============================================================================
