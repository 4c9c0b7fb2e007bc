------------------------- MODULE FilterConfig_proofs -------------------------
(***************************************************************************)
(* The constructor's promises for every set of configurations: what it     *)
(* stores is typed and closed, its error flag is exact, and a boolean      *)
(* variable keeps its first definition.                                    *)
(***************************************************************************)
EXTENDS FilterConfig, Ranks, WellFoundedInduction

\* The lines and tokens of a configuration.
LEMMA LineType ==
    ASSUME NEW c \in Configs
    PROVE  /\ c \in Seq(Seq(STRING)) /\ Len(c) \in Nat
           /\ \A i \in 1 .. Len(c) : c[i] \in Seq(STRING) /\ Len(c[i]) \in Nat
BY ConfigsAssumption

----------------------------------------------------------------------------
\* What the parse predicates say of the stored operation.

\* A declaration more does not spoil an expression.
LEMMA WellFormedMonotone ==
    ASSUME NEW c, NEW d, NEW e, d \subseteq e, WellFormed(c, d)
    PROVE  WellFormed(c, e)
BY DEF WellFormed

\* The search for `if' ends at the first one, or behind the line.
LEMMA FirstIfExists ==
    ASSUME NEW tokens \in Seq(STRING), Len(tokens) >= 4
    PROVE  FirstIf(tokens) \in 4 .. Len(tokens) + 1
<1> DEFINE stops == {i \in 4 .. Len(tokens) + 1 : i <= Len(tokens) => tokens[i] = "if"}
<1>1. Len(tokens) \in Nat
  OBVIOUS
<1>2. stops \subseteq Nat /\ Len(tokens) + 1 \in stops
  BY <1>1
<1>3. PICK i \in stops : \A j \in stops : <<j, i>> \notin OpToRel(<, Nat)
  <2>1. stops # {}
    BY <1>2
  <2> HIDE DEF stops
  <2>2. QED
    BY <1>2, <2>1, NatLessThanWellFounded, WFMin
<1>4. \A j \in stops : ~(j < i)
  BY <1>2, <1>3 DEF OpToRel
<1>5. ASSUME NEW j \in 4 .. i - 1 PROVE tokens[j] # "if"
  BY <1>1, <1>4
<1>6. QED
  BY <1>3, <1>5 DEF FirstIf

\* The condition kept of a clause that parses.
LEMMA ClauseKept ==
    ASSUME NEW tokens \in Seq(STRING), NEW i \in 1 .. Len(tokens) + 1, NEW d,
           ClauseParses(tokens, i, d)
    PROVE  /\ After(tokens, i) \in Seq(STRING)
           /\ After(tokens, i) = <<>> \/ WellFormed(After(tokens, i), d)
<1>1. Len(tokens) \in Nat /\ i \in Int /\ i + 1 \in Int /\ Len(tokens) \in Int
  OBVIOUS
<1>2. After(tokens, i) \in Seq(STRING)
  <2>1. \A j \in i + 1 .. Len(tokens) : tokens[j] \in STRING
    BY <1>1
  <2>2. QED
    BY <1>1, <2>1, SubSeqProperties DEF After
<1>3. CASE i <= Len(tokens)
  BY <1>2, <1>3 DEF ClauseParses
<1>4. CASE i = Len(tokens) + 1
  <2>1. Len(tokens) < i + 1
    BY <1>1, <1>4
  <2>2. After(tokens, i) = <<>>
    BY <1>1, <2>1, SubSeqEmpty DEF After
  <2>3. QED
    BY <1>2, <2>2
<1>5. QED
  BY <1>1, <1>3, <1>4

\* A token that parses on the response side does not call urlp.
LEMMA NoUrlpOnResponse ==
    ASSUME NEW t, Parses(t, "http-response")
    PROVE  ~isCall(t, "urlp")
BY DEF Parses, isCall

\* An operation whose arguments and clause parse is stored with its type, with
\* a condition over the declared variables, and with the tokens that parsed.
OperationParses(tokens, side, declared) ==
    \/ /\ tokens[2] \in {"set-header", "set-metadata"}
       /\ KeyValueParses(tokens, side, declared)
    \/ /\ tokens[2] = "append-header"
       /\ AppendParses(tokens, side, declared)
    \/ /\ tokens[2] = "set-path" /\ side = "http-request"
       /\ SetPathParses(tokens, side, declared)

LEMMA StoredOperation ==
    ASSUME NEW tokens \in Seq(STRING), NEW side \in Sides, NEW declared,
           OperationParses(tokens, side, declared)
    PROVE  LET p == ParsedOperation(tokens)
           IN  /\ p \in Processor
               /\ p.condition = <<>> \/ WellFormed(p.condition, declared)
               /\ \A t \in {p.target} \cup Range(p.values) : Parses(t, side)
               /\ p.op \in {"set-header", "set-metadata"} => Len(p.values) = 1
               /\ p.op = "set-path" => side = "http-request"
<1> DEFINE at == ClauseAt(tokens)
           values == SubSeq(tokens, 4, at - 1)
<1>1. /\ Len(tokens) \in Nat /\ Len(tokens) >= 3
      /\ tokens[2] \in ExecutedOperations /\ tokens[3] \in STRING
  BY DEF OperationParses, KeyValueParses, AppendParses, SetPathParses, ExecutedOperations
<1>2. /\ at \in 4 .. Len(tokens) + 1
      /\ Parses(tokens[3], side)
      /\ \A i \in 4 .. at - 1 : Parses(tokens[i], side)
      /\ ClauseParses(tokens, at, declared)
  <2>1. CASE tokens[2] \in {"set-header", "set-metadata"}
    <3>1. at = 5 /\ KeyValueParses(tokens, side, declared)
      BY <2>1 DEF ClauseAt, OperationParses
    <3>2. \A i \in 4 .. at - 1 : i = 4
      BY <3>1
    <3>3. QED
      BY <1>1, <3>1, <3>2 DEF KeyValueParses
  <2>2. CASE tokens[2] = "append-header"
    <3>1. at = FirstIf(tokens) /\ AppendParses(tokens, side, declared)
      BY <2>2 DEF ClauseAt, OperationParses
    <3>2. QED
      BY <3>1, FirstIfExists DEF AppendParses
  <2>3. CASE tokens[2] = "set-path"
    <3>1. at = 4 /\ SetPathParses(tokens, side, declared)
      BY <2>3 DEF ClauseAt, OperationParses
    <3>2. QED
      BY <1>1, <3>1 DEF SetPathParses
  <2>4. QED
    BY <2>1, <2>2, <2>3 DEF OperationParses
<1> HIDE DEF at
<1>3. /\ After(tokens, at) \in Seq(STRING)
      /\ After(tokens, at) = <<>> \/ WellFormed(After(tokens, at), declared)
  BY <1>1, <1>2, ClauseKept
<1>4. /\ values \in Seq(STRING)
      /\ \A i \in 1 .. (at - 1) - 4 + 1 : values[i] = tokens[4 + i - 1]
      /\ Len(values) = IF 4 <= at - 1 THEN (at - 1) - 4 + 1 ELSE 0
  <2>1. \A i \in 4 .. at - 1 : tokens[i] \in STRING
    BY <1>1, <1>2
  <2>2. 4 \in Int /\ at - 1 \in Int
    BY <1>1, <1>2
  <2>3. QED
    BY <2>1, <2>2, SubSeqProperties
<1>5. \A t \in Range(values) : Parses(t, side)
  <2> SUFFICES ASSUME NEW i \in DOMAIN values PROVE Parses(values[i], side)
    BY DEF Range
  <2>1. i \in 1 .. Len(values)
    BY <1>4, LenProperties
  <2> HIDE DEF values
  <2>2. i \in 1 .. (at - 1) - 4 + 1 /\ 4 + i - 1 \in 4 .. at - 1
    BY <1>1, <1>2, <1>4, <2>1
  <2>3. QED
    BY <1>2, <1>4, <2>2
<1> HIDE DEF values
<1>6. tokens[2] \in {"set-header", "set-metadata"} => Len(values) = 1
  BY <1>1, <1>2, <1>4 DEF at, ClauseAt
<1>7. ParsedOperation(tokens) =
        [op |-> tokens[2], target |-> tokens[3], values |-> values,
         condition |-> After(tokens, at)]
  BY DEF ParsedOperation, at, values
<1>8. ParsedOperation(tokens) \in Processor
  BY <1>1, <1>3, <1>4, <1>7 DEF Processor
<1>9. \A t \in {tokens[3]} \cup Range(values) : Parses(t, side)
  BY <1>2, <1>5
<1>10. tokens[2] = "set-path" => side = "http-request"
  BY DEF OperationParses
<1>11. QED
  BY <1>3, <1>6, <1>7, <1>8, <1>9, <1>10

LEMMA BoolVariableType ==
    ASSUME NEW source \in STRING, NEW match \in MatchTypes, NEW compare \in STRING \cup {""}
    PROVE  [source |-> source, match |-> match, compare |-> compare] \in BoolVariable
BY DEF BoolVariable

\* A set-bool line that parses is stored with its type and with the tokens that
\* parsed; the empty comparison of `found' is a literal.
LEMMA StoredBool ==
    ASSUME NEW tokens \in Seq(STRING), NEW side \in Sides, BoolParses(tokens, side)
    PROVE  LET b == ParsedBool(tokens)
           IN  /\ b \in BoolVariable
               /\ Parses(b.source, side) /\ Parses(b.compare, side)
<1>1. /\ Len(tokens) \in Nat /\ Len(tokens) >= 6
      /\ tokens[4] \in STRING /\ tokens[6] \in MatchTypes
  BY DEF BoolParses
<1>2. ParsedBool(tokens) \in BoolVariable
  <2>1. CASE tokens[6] \in {"str", "sub", "beg"}
    <3>1. tokens[7] \in STRING
      <4>1. Len(tokens) = IF tokens[6] \in {"str", "sub", "beg"} THEN 7 ELSE 6
        BY Zenon DEF BoolParses, requiresArgument
      <4>2. Len(tokens) = 7
        BY <2>1, <4>1
      <4>3. 7 \in 1 .. Len(tokens)
        BY <4>2
      <4>4. QED
        BY <4>3, ElementOfSeq
    <3>2. ParsedBool(tokens) =
            [source |-> tokens[4], match |-> tokens[6], compare |-> tokens[7]]
      BY <2>1 DEF ParsedBool, requiresArgument
    <3>3. QED
      BY <1>1, <3>1, <3>2, BoolVariableType, Zenon
  <2>2. CASE tokens[6] \notin {"str", "sub", "beg"}
    <3>1. ParsedBool(tokens) = [source |-> tokens[4], match |-> tokens[6], compare |-> ""]
      BY <2>2 DEF ParsedBool, requiresArgument
    <3>2. QED
      BY <1>1, <3>1, BoolVariableType, Zenon
  <2>3. QED
    BY <2>1, <2>2
<1>3. Parses("", side)
  BY FormAssumption DEF Parses, isStatic
<1>4. QED
  BY <1>2, <1>3 DEF BoolParses, ParsedBool

----------------------------------------------------------------------------
\* The steps of the constructor.

\* An operation declares no variable, a set-bool the one it names.
LEMMA DeclaredByLine ==
    ASSUME ConfigTypeOK, AtLine, Recognised, NEW s \in Sides
    PROVE  DeclaredAbove(config, line + 1, s) =
             DeclaredAbove(config, line, s)
               \cup (IF Side = s /\ Operation = "set-bool" /\ Len(Tokens) > 2
                     THEN {Tokens[3]} ELSE {})
<1>1. line \in Nat /\ line >= 1 /\ 1 .. (line + 1) - 1 = (1 .. line - 1) \cup {line}
  BY LineType DEF ConfigTypeOK
<1>2. QED
  BY <1>1 DEF DeclaredAbove, Side, Operation, Tokens

\* The constructor stops at a line that does not parse.
LEMMA ErrorStep ==
    ASSUME ConfigIInv, AtLine, setError, ~LineParses(config, line)
    PROVE  ConfigIInv'
<1>1. /\ error' = TRUE /\ construction' = "done"
      /\ UNCHANGED <<config, line, processors, bools>>
  BY DEF setError
<1>2. ConfigTypeOK'
  BY <1>1 DEF ConfigIInv, ConfigTypeOK
<1>3. StoppedForReason'
  BY <1>1 DEF StoppedForReason, AtLine
<1>4. (MapsMatchLines /\ LinesAboveParse /\ ConditionsClosed /\ OperationsParse /\ BoolsParse)'
  BY <1>1
  DEF ConfigIInv, MapsMatchLines, LinesAboveParse, ConditionsClosed, OperationsParse, BoolsParse
<1>5. QED
  BY <1>2, <1>3, <1>4 DEF ConfigIInv

\* An operation that parses is appended to the list of its side.
LEMMA PushStep ==
    ASSUME ConfigIInv, AtLine, Recognised, Operation # "set-bool", Push,
           OperationParses(Tokens, Side, Declared), LineParses(config, line)
    PROVE  ConfigIInv'
<1> DEFINE p == ParsedOperation(Tokens)
<1>1. /\ processors' = [processors EXCEPT ![Side] = Append(@, p)]
      /\ line' = line + 1
      /\ UNCHANGED <<config, construction, error, bools>>
  BY DEF Push
<1>2. /\ ConfigTypeOK /\ Len(config) \in Nat /\ line \in 1 .. Len(config)
      /\ Tokens \in Seq(STRING) /\ Side \in Sides
      /\ construction = "running"
  BY LineType DEF ConfigIInv, ConfigTypeOK, AtLine, Recognised, Tokens
<1>3. /\ p \in Processor
      /\ p.condition = <<>> \/ WellFormed(p.condition, DOMAIN bools[Side])
      /\ \A t \in {p.target} \cup Range(p.values) : Parses(t, Side)
      /\ p.op \in {"set-header", "set-metadata"} => Len(p.values) = 1
      /\ p.op = "set-path" => Side = "http-request"
  BY <1>2, StoredOperation DEF Declared
<1> HIDE DEF p
<1>4. \A s \in Sides : processors[s] \in Seq(Processor)
  BY <1>2 DEF ConfigTypeOK
<1>5. /\ processors' \in [Sides -> Seq(Processor)]
      /\ \A s \in Sides : \A k \in DOMAIN processors'[s] :
            \/ k \in DOMAIN processors[s] /\ processors'[s][k] = processors[s][k]
            \/ s = Side /\ processors'[s][k] = p
  <2>1. /\ Append(processors[Side], p) \in Seq(Processor)
        /\ \A k \in DOMAIN Append(processors[Side], p) :
             \/ k \in DOMAIN processors[Side] /\ Append(processors[Side], p)[k] = processors[Side][k]
             \/ Append(processors[Side], p)[k] = p
    BY <1>2, <1>3, <1>4
  <2>2. processors \in [Sides -> Seq(Processor)]
    BY <1>2 DEF ConfigTypeOK
  <2>3. QED
    BY <1>1, <1>2, <2>1, <2>2
<1>6. ConfigTypeOK'
  BY <1>1, <1>2, <1>5 DEF ConfigTypeOK
<1>7. MapsMatchLines'
  <2>1. \A s \in Sides : DeclaredAbove(config, line + 1, s) = DeclaredAbove(config, line, s)
    BY <1>2, DeclaredByLine
  <2>2. QED
    BY <1>1, <2>1 DEF ConfigIInv, MapsMatchLines
<1>8. LinesAboveParse'
  BY <1>1, <1>2 DEF ConfigIInv, LinesAboveParse
<1>9. StoppedForReason'
  BY <1>1, <1>2 DEF ConfigIInv, StoppedForReason
<1>10. ConditionsClosed'
  <2> SUFFICES ASSUME NEW s \in Sides, NEW k \in DOMAIN processors'[s]
               PROVE  \/ processors'[s][k].condition = <<>>
                      \/ WellFormed(processors'[s][k].condition, DOMAIN bools'[s])
    BY DEF ConditionsClosed
  <2>1. CASE k \in DOMAIN processors[s] /\ processors'[s][k] = processors[s][k]
    BY <1>1, <2>1 DEF ConfigIInv, ConditionsClosed
  <2>2. CASE s = Side /\ processors'[s][k] = p
    BY <1>1, <1>3, <2>2
  <2>3. QED
    BY <1>5, <2>1, <2>2
<1>11. OperationsParse'
  BY <1>3, <1>5 DEF ConfigIInv, OperationsParse
<1>12. BoolsParse'
  BY <1>1 DEF ConfigIInv, BoolsParse
<1>13. QED
  BY <1>6, <1>7, <1>8, <1>9, <1>10, <1>11, <1>12 DEF ConfigIInv

\* A set-bool that parses and has a new name is entered in the map of its side.
LEMMA SetBoolStep ==
    ASSUME ConfigIInv, ParseSetBool
    PROVE  ConfigIInv'
<1>1. /\ ConfigTypeOK /\ Len(config) \in Nat /\ line \in 1 .. Len(config)
      /\ Tokens \in Seq(STRING) /\ Side \in Sides /\ Operation = "set-bool"
      /\ AtLine /\ Recognised /\ Len(Tokens) > 2 /\ construction = "running"
      /\ Len(Tokens) \in Nat
  <2>1. /\ ConfigTypeOK /\ AtLine /\ Recognised
        /\ Operation = "set-bool" /\ Len(Tokens) > 2
    BY DEF ConfigIInv, ParseSetBool, AtOperation
  <2>2. Side \in Sides /\ construction = "running" /\ line <= Len(config)
    BY <2>1 DEF AtLine, Recognised
  <2>3. config \in Configs /\ line \in 1 .. Len(config) + 1
    BY <2>1 DEF ConfigTypeOK
  <2>4. Len(config) \in Nat /\ line \in 1 .. Len(config)
    BY <2>2, <2>3, LineType
  <2>5. Tokens \in Seq(STRING) /\ Len(Tokens) \in Nat
    BY <2>3, <2>4, LineType DEF Tokens
  <2>6. QED
    BY <2>1, <2>2, <2>4, <2>5
<1>2. Declared = DeclaredAbove(config, line, Side)
  BY <1>1 DEF ConfigIInv, MapsMatchLines, Declared
<1>3. LineParses(config, line) <=> BoolParses(Tokens, Side) /\ Tokens[3] \notin Declared
  BY <1>1, <1>2 DEF LineParses, Tokens, Side, Operation
<1>4. CASE ~(BoolParses(Tokens, Side) /\ Tokens[3] \notin Declared)
  BY <1>1, <1>3, <1>4, ErrorStep DEF ParseSetBool
<1>5. CASE BoolParses(Tokens, Side) /\ Tokens[3] \notin Declared
  <2> DEFINE b == ParsedBool(Tokens)
  <2>1. /\ bools' = [bools EXCEPT ![Side] = With(@, Tokens[3], b)]
        /\ line' = line + 1
        /\ UNCHANGED <<config, construction, error, processors>>
    BY <1>5 DEF ParseSetBool
  <2>2. /\ b \in BoolVariable
        /\ Parses(b.source, Side) /\ Parses(b.compare, Side)
    BY <1>1, <1>5, StoredBool
  <2> HIDE DEF b
  <2>3. \A s \in Sides : BoolMap(bools[s])
    BY <1>1 DEF ConfigTypeOK
  <2>4. DOMAIN bools = Sides
    BY <1>1 DEF ConfigTypeOK
  <2>5. /\ DOMAIN bools' = Sides
        /\ bools'[Side] = With(bools[Side], Tokens[3], b)
        /\ \A s \in Sides : s # Side => bools'[s] = bools[s]
    BY <1>1, <2>1, <2>4
  <2>6. /\ DOMAIN bools'[Side] = DOMAIN bools[Side] \cup {Tokens[3]}
        /\ bools'[Side][Tokens[3]] = b
        /\ \A n \in DOMAIN bools[Side] : bools'[Side][n] = bools[Side][n]
    BY <1>5, <2>5 DEF With, Declared
  <2>7. \A s \in Sides : BoolMap(bools'[s])
    <3>1. Tokens[3] \in STRING
      BY <1>1
    <3>2. BoolMap(With(bools[Side], Tokens[3], b))
      BY <1>1, <2>2, <2>3, <3>1 DEF BoolMap, With
    <3>3. QED
      BY <2>3, <2>5, <3>2
  <2>8. ConfigTypeOK'
    <3>1. bools' = [s \in Sides |-> bools'[s]]
      BY <2>1, <2>4, <1>1 DEF ConfigTypeOK
    <3>2. bools' \in [Sides -> {bools'[s] : s \in Sides}]
      BY <3>1
    <3>3. config' \in Configs /\ line' \in 1 .. Len(config') + 1
      BY <1>1, <2>1 DEF ConfigTypeOK
    <3>4. construction' \in {"running", "done", "threw"} /\ error' \in BOOLEAN
      BY <1>1, <2>1 DEF ConfigTypeOK
    <3>5. processors' \in [Sides -> Seq(Processor)]
      BY <1>1, <2>1 DEF ConfigTypeOK
    <3>6. QED
      BY <2>7, <3>2, <3>3, <3>4, <3>5 DEF ConfigTypeOK
  <2>9. MapsMatchLines'
    <3> SUFFICES ASSUME NEW s \in Sides
                 PROVE  DOMAIN bools'[s] = DeclaredAbove(config, line + 1, s)
      BY <2>1 DEF MapsMatchLines
    <3>1. DOMAIN bools[s] = DeclaredAbove(config, line, s)
      BY DEF ConfigIInv, MapsMatchLines
    <3>2. CASE s = Side
      BY <1>1, <2>6, <3>1, <3>2, DeclaredByLine
    <3>3. CASE s # Side
      BY <1>1, <2>5, <3>1, <3>3, DeclaredByLine
    <3>4. QED
      BY <3>2, <3>3
  <2>10. LinesAboveParse'
    BY <1>1, <1>3, <1>5, <2>1 DEF ConfigIInv, LinesAboveParse
  <2>11. StoppedForReason'
    BY <1>1, <2>1 DEF ConfigIInv, StoppedForReason
  <2>12. ConditionsClosed'
    <3> SUFFICES ASSUME NEW s \in Sides, NEW k \in DOMAIN processors[s]
                 PROVE  \/ processors[s][k].condition = <<>>
                        \/ WellFormed(processors[s][k].condition, DOMAIN bools'[s])
      BY <2>1 DEF ConditionsClosed
    <3>1. DOMAIN bools[s] \subseteq DOMAIN bools'[s]
      BY <2>5, <2>6
    <3>2. \/ processors[s][k].condition = <<>>
          \/ WellFormed(processors[s][k].condition, DOMAIN bools[s])
      BY DEF ConfigIInv, ConditionsClosed
    <3>3. QED
      BY <3>1, <3>2, WellFormedMonotone
  <2>13. OperationsParse'
    BY <2>1 DEF ConfigIInv, OperationsParse
  <2>14. BoolsParse'
    <3>1. \A s \in Sides : \A n \in DOMAIN bools'[s] :
            \/ n \in DOMAIN bools[s] /\ bools'[s][n] = bools[s][n]
            \/ s = Side /\ bools'[s][n] = b
      BY <2>5, <2>6
    <3>2. QED
      BY <2>2, <3>1 DEF ConfigIInv, BoolsParse
  <2>15. QED
    BY <2>8, <2>9, <2>10, <2>11, <2>12, <2>13, <2>14 DEF ConfigIInv
<1>6. QED
  BY <1>4, <1>5

\* One of the four operations: appended if it parses, else an error.
LEMMA OperationParsed ==
    ASSUME ConfigIInv,
           ParseSetHeader \/ ParseSetMetadata \/ ParseAppendHeader \/ ParseSetPath
    PROVE  /\ Tokens \in Seq(STRING) /\ Side \in Sides
           /\ AtLine /\ Recognised /\ Operation # "set-bool"
           /\ \/ /\ OperationParses(Tokens, Side, Declared) /\ LineParses(config, line)
                 /\ Push
              \/ ~LineParses(config, line) /\ setError
<1>1. /\ Tokens \in Seq(STRING) /\ Side \in Sides
      /\ AtLine /\ Recognised /\ Len(Tokens) >= 2
      /\ Operation \in ExecutedOperations /\ Operation # "set-bool"
  BY LineType
  DEF ConfigIInv, ConfigTypeOK, ParseSetHeader, ParseSetMetadata, ParseAppendHeader,
      ParseSetPath, AtOperation, AtLine, Recognised, Tokens, ExecutedOperations
<1>2. Declared = DeclaredAbove(config, line, Side)
  BY <1>1 DEF ConfigIInv, MapsMatchLines, Declared
<1>3. LineParses(config, line) <=> OperationParses(Tokens, Side, Declared)
  BY <1>1, <1>2
  DEF LineParses, OperationParses, Tokens, Side, Operation, ExecutedOperations
<1>4. IF OperationParses(Tokens, Side, Declared) THEN Push ELSE setError
  BY <1>1
  DEF ParseSetHeader, ParseSetMetadata, ParseAppendHeader, ParseSetPath, AtOperation,
      OperationParses, Operation
<1>5. QED
  BY <1>1, <1>3, <1>4

LEMMA OperationStep ==
    ASSUME ConfigIInv,
           ParseSetHeader \/ ParseSetMetadata \/ ParseAppendHeader \/ ParseSetPath
    PROVE  ConfigIInv'
BY OperationParsed, PushStep, ErrorStep

\* The inductive invariant holds at first and is kept by every step.
LEMMA InitConfigIInv == ConfigInit => ConfigIInv
<1> SUFFICES ASSUME ConfigInit PROVE ConfigIInv
  OBVIOUS
<1>1. Len(config) \in Nat
  BY LineType DEF ConfigInit
<1>2. /\ processors = [s \in Sides |-> <<>>] /\ bools = [s \in Sides |-> <<>>]
      /\ config \in Configs /\ line = 1 /\ construction = "running" /\ error = FALSE
  BY DEF ConfigInit
<1>3. ConfigTypeOK
  <2>1. \A s \in Sides : BoolMap(bools[s])
    BY <1>2 DEF BoolMap
  <2>2. bools \in [Sides -> {bools[s] : s \in Sides}]
    BY <1>2
  <2>3. processors \in [Sides -> Seq(Processor)]
    BY <1>2
  <2>4. config \in Configs /\ line \in 1 .. Len(config) + 1
    BY <1>1, <1>2
  <2>5. construction \in {"running", "done", "threw"} /\ error \in BOOLEAN
    BY <1>2
  <2>6. QED
    BY <2>1, <2>2, <2>3, <2>4, <2>5 DEF ConfigTypeOK
<1>4. MapsMatchLines /\ LinesAboveParse /\ StoppedForReason
  BY <1>2 DEF MapsMatchLines, LinesAboveParse, StoppedForReason, DeclaredAbove
<1>5. ConditionsClosed /\ OperationsParse /\ BoolsParse
  BY <1>2 DEF ConditionsClosed, OperationsParse, BoolsParse
<1>6. QED
  BY <1>3, <1>4, <1>5 DEF ConfigIInv

LEMMA ConstructConfigIInv == ConfigIInv /\ [Construct]_configVars => ConfigIInv'
<1> SUFFICES ASSUME ConfigIInv, [Construct]_configVars PROVE ConfigIInv'
  OBVIOUS
<1>1. CASE RejectLine
  <2>1. ~LineParses(config, line)
    BY <1>1 DEF RejectLine, Recognised, LineParses, Tokens, Side, Operation, ExecutedOperations
  <2>2. QED
    BY <1>1, <2>1, ErrorStep DEF RejectLine
<1>2. CASE ParseSetHeader \/ ParseSetMetadata \/ ParseAppendHeader \/ ParseSetPath
  BY <1>2, OperationStep
<1>3. CASE SetBoolThrows
  BY <1>3
  DEF SetBoolThrows, AtOperation, AtLine, ConfigIInv, ConfigTypeOK, MapsMatchLines,
      LinesAboveParse, StoppedForReason, ConditionsClosed, OperationsParse, BoolsParse
<1>4. CASE ParseSetBool
  BY <1>4, SetBoolStep
<1>5. CASE FinishConstruction
  <2>1. Len(config) \in Nat /\ line \in 1 .. Len(config) + 1
    BY LineType DEF ConfigIInv, ConfigTypeOK
  <2>2. QED
    BY <1>5, <2>1
    DEF FinishConstruction, ConfigIInv, ConfigTypeOK, MapsMatchLines, LinesAboveParse,
        StoppedForReason, ConditionsClosed, OperationsParse, BoolsParse
<1>6. CASE UNCHANGED configVars
  BY <1>6
  DEF configVars, ConfigIInv, ConfigTypeOK, MapsMatchLines, LinesAboveParse,
      StoppedForReason, ConditionsClosed, OperationsParse, BoolsParse
<1>7. QED
  BY <1>1, <1>2, <1>3, <1>4, <1>5, <1>6 DEF Construct

\* A step of the constructor keeps every definition that is in a map.
LEMMA ConstructKeepsBools ==
    ASSUME ConfigIInv, [Construct]_configVars, NEW s \in Sides, NEW n \in DOMAIN bools[s]
    PROVE  n \in DOMAIN bools'[s] /\ bools'[s][n] = bools[s][n]
<1>1. CASE ParseSetBool /\ bools' = [bools EXCEPT ![Side] = With(@, Tokens[3], ParsedBool(Tokens))]
             /\ Tokens[3] \notin Declared
  <2>1. DOMAIN bools = Sides
    BY DEF ConfigIInv, ConfigTypeOK
  <2>2. CASE s = Side
    BY <1>1, <2>1, <2>2 DEF With, Declared
  <2>3. CASE s # Side
    BY <1>1, <2>1, <2>3
  <2>4. QED
    BY <2>2, <2>3
<1>2. CASE UNCHANGED bools
  BY <1>2
<1>3. QED
  BY <1>1, <1>2
  DEF Construct, RejectLine, ParseSetHeader, ParseSetMetadata, ParseAppendHeader, ParseSetPath,
      SetBoolThrows, ParseSetBool, FinishConstruction, Push, setError, configVars

----------------------------------------------------------------------------
\* The order of what is stored.

\* The lines above the current one with an operation of side s.
OwnLines(s) == {i \in 1 .. line - 1 : config[i][1] = s /\ config[i][2] # "set-bool"}

StoredOf(s) ==
    /\ Len(processors[s]) = Cardinality(OwnLines(s))
    /\ \A i \in OwnLines(s) : processors[s][RankOf(i, OwnLines(s))] = ParsedOperation(config[i])

EnteredOf(s) ==
    \A i \in 1 .. line - 1 :
        config[i][1] = s /\ config[i][2] = "set-bool" =>
            bools[s][config[i][3]] = ParsedBool(config[i])

LEMMA StoredByLine == StoredInOrder <=> \A s \in Sides : StoredOf(s) /\ EnteredOf(s)
BY DEF StoredInOrder, StoredOf, EnteredOf, OwnLines, RankOf

LEMMA NextOwnLines ==
    ASSUME ConfigIInv, AtLine, UNCHANGED config, line' = line + 1, NEW s
    PROVE  /\ line - 1 \in Nat /\ line \in Nat /\ line > line - 1
           /\ OwnLines(s) \subseteq 1 .. line - 1
           /\ OwnLines(s)' = IF Side = s /\ Operation # "set-bool"
                             THEN OwnLines(s) \cup {line} ELSE OwnLines(s)
<1>1. line \in Nat /\ line >= 1 /\ 1 .. (line + 1) - 1 = (1 .. line - 1) \cup {line}
  BY LineType DEF ConfigIInv, ConfigTypeOK
<1>2. QED
  BY <1>1 DEF OwnLines, Side, Operation, Tokens

\* A step that reads no line stores nothing.
LEMMA StoredKept ==
    ASSUME StoredInOrder, UNCHANGED <<config, line, processors, bools>>
    PROVE  StoredInOrder'
<1> SUFFICES ASSUME NEW s \in Sides PROVE StoredOf(s)' /\ EnteredOf(s)'
  BY StoredByLine DEF StoredInOrder, StoredOf, EnteredOf, OwnLines, RankOf
<1>1. StoredOf(s) /\ EnteredOf(s)
  BY StoredByLine
<1>2. OwnLines(s)' = OwnLines(s)
  BY DEF OwnLines
<1>3. StoredOf(s)'
  BY <1>1, <1>2 DEF StoredOf
<1>4. EnteredOf(s)'
  BY <1>1 DEF EnteredOf
<1>5. QED
  BY <1>3, <1>4

\* An operation is appended at the rank of its line.
LEMMA PushStored ==
    ASSUME ConfigIInv, StoredInOrder, AtLine, Recognised, Operation # "set-bool", Push,
           OperationParses(Tokens, Side, Declared)
    PROVE  StoredInOrder'
<1> SUFFICES ASSUME NEW s \in Sides PROVE StoredOf(s)' /\ EnteredOf(s)'
  BY StoredByLine DEF StoredInOrder, StoredOf, EnteredOf, OwnLines, RankOf
<1> DEFINE p == ParsedOperation(Tokens)
<1>1. /\ processors' = [processors EXCEPT ![Side] = Append(@, p)]
      /\ line' = line + 1 /\ UNCHANGED <<config, bools>>
  BY DEF Push
<1>2. /\ ConfigTypeOK /\ Len(config) \in Nat /\ line \in 1 .. Len(config)
      /\ Tokens \in Seq(STRING) /\ Side \in Sides
  <2>1. ConfigTypeOK /\ config \in Configs /\ line \in 1 .. Len(config) + 1
    BY DEF ConfigIInv, ConfigTypeOK
  <2>2. Len(config) \in Nat /\ line \in 1 .. Len(config)
    BY <2>1, LineType DEF AtLine
  <2>3. Tokens \in Seq(STRING)
    BY <2>1, <2>2, LineType DEF Tokens
  <2>4. QED
    BY <2>1, <2>2, <2>3 DEF Recognised
<1>3. p \in Processor
  BY <1>2, StoredOperation
<1>4. StoredOf(s) /\ EnteredOf(s)
  BY StoredByLine
<1> HIDE DEF p
<1>5. EnteredOf(s)'
  <2> SUFFICES ASSUME NEW i \in 1 .. line' - 1, config[i][1] = s, config[i][2] = "set-bool"
               PROVE  bools[s][config[i][3]] = ParsedBool(config[i])
    BY <1>1 DEF EnteredOf
  <2>1. i \in 1 .. line - 1
    BY <1>1, <1>2 DEF Operation, Tokens
  <2>2. QED
    BY <1>4, <2>1 DEF EnteredOf
<1>6. StoredOf(s)'
  <2> DEFINE own == OwnLines(s)
             q == processors[s]
  <2>1. /\ line - 1 \in Nat /\ line > line - 1 /\ own \subseteq 1 .. line - 1
        /\ OwnLines(s)' = IF Side = s THEN own \cup {line} ELSE own
    BY <1>1, NextOwnLines
  <2>2. /\ Len(q) = Cardinality(own)
        /\ \A i \in own : q[RankOf(i, own)] = ParsedOperation(config[i])
    BY <1>4 DEF StoredOf
  <2> HIDE DEF own
  <2>3. CASE s # Side
    <3>1. processors'[s] = q /\ OwnLines(s)' = own
      BY <1>1, <1>2, <2>1, <2>3 DEF ConfigTypeOK
    <3>2. QED
      BY <1>1, <2>2, <3>1 DEF StoredOf
  <2>4. CASE s = Side
    <3>1. processors'[s] = Append(q, p) /\ OwnLines(s)' = own \cup {line}
      BY <1>1, <1>2, <2>1, <2>4 DEF ConfigTypeOK
    <3>2. q \in Seq(Processor)
      BY <1>2 DEF ConfigTypeOK
    <3> HIDE DEF q
    <3>3. /\ Len(Append(q, p)) = Cardinality(own \cup {line})
          /\ Append(q, p)[RankOf(line, own \cup {line})] = p
          /\ \A i \in own : Append(q, p)[RankOf(i, own \cup {line})] = q[RankOf(i, own)]
      <4>1. PICK n \in Nat, k \in Nat : n = line - 1 /\ k = line
        BY <1>2
      <4>2. own \subseteq 1 .. n /\ k > n
        BY <2>1, <4>1
      <4>3. PICK r : r = Append(q, p)
        OBVIOUS
      <4>4. /\ Len(r) = Cardinality(own) + 1
            /\ r[Cardinality(own) + 1] = p
            /\ \A i \in 1 .. Cardinality(own) : r[i] = q[i]
        BY <1>3, <2>2, <3>2, <4>3, AppendProperties
      <4>5. /\ Cardinality(own \cup {k}) = Cardinality(own) + 1
            /\ RankOf(k, own \cup {k}) = Cardinality(own) + 1
            /\ \A i \in own : RankOf(i, own \cup {k}) = RankOf(i, own)
        BY <4>2, LastRank
      <4>6. \A i \in own : RankOf(i, own) \in 1 .. Cardinality(own)
        BY <4>2, RankInRange
      <4>7. QED
        BY <4>1, <4>3, <4>4, <4>5, <4>6
    <3>4. p = ParsedOperation(config[line])
      BY DEF p, Tokens
    <3>5. \A i \in own \cup {line} :
             Append(q, p)[RankOf(i, own \cup {line})] = ParsedOperation(config[i])
      BY <2>2, <3>3, <3>4
    <3>6. QED
      BY <1>1, <3>1, <3>3, <3>5 DEF StoredOf
  <2>5. QED
    BY <2>3, <2>4
<1>7. QED
  BY <1>5, <1>6

\* A set-bool is entered under its name; the names above it are other names.
LEMMA SetBoolStored ==
    ASSUME ConfigIInv, StoredInOrder, ParseSetBool
    PROVE  StoredInOrder'
<1>1. /\ line \in 1 .. Len(config) /\ Len(config) \in Nat
      /\ Tokens \in Seq(STRING) /\ Side \in Sides /\ Operation = "set-bool" /\ AtLine
      /\ bools \in [Sides -> {bools[s] : s \in Sides}]
  <2>1. /\ config \in Configs /\ line \in 1 .. Len(config) + 1
        /\ bools \in [Sides -> {bools[s] : s \in Sides}]
    BY DEF ConfigIInv, ConfigTypeOK
  <2>2. AtLine /\ Side \in Sides /\ Operation = "set-bool" /\ line <= Len(config)
    BY DEF ParseSetBool, AtOperation, AtLine, Recognised
  <2>3. Len(config) \in Nat /\ line \in 1 .. Len(config)
    BY <2>1, <2>2, LineType
  <2>4. Tokens \in Seq(STRING)
    BY <2>1, <2>3, LineType DEF Tokens
  <2>5. QED
    BY <2>1, <2>2, <2>3, <2>4
<1>2. CASE ~(BoolParses(Tokens, Side) /\ Tokens[3] \notin Declared)
  <2>1. UNCHANGED <<config, line, processors, bools>>
    BY <1>2 DEF ParseSetBool, setError
  <2>2. QED
    BY <2>1, StoredKept
<1>3. CASE BoolParses(Tokens, Side) /\ Tokens[3] \notin Declared
  <2>1. /\ bools' = [bools EXCEPT ![Side] = With(@, Tokens[3], ParsedBool(Tokens))]
        /\ line' = line + 1
        /\ UNCHANGED <<config, processors>>
    BY <1>3 DEF ParseSetBool
  <2> SUFFICES ASSUME NEW s \in Sides PROVE StoredOf(s)' /\ EnteredOf(s)'
    BY StoredByLine DEF StoredInOrder, StoredOf, EnteredOf, OwnLines, RankOf
  <2>2. StoredOf(s) /\ EnteredOf(s)
    BY StoredByLine
  <2>3. StoredOf(s)'
    <3>1. OwnLines(s)' = OwnLines(s)
      BY <1>1, <2>1, NextOwnLines
    <3>2. QED
      BY <2>1, <2>2, <3>1 DEF StoredOf
  <2>4. EnteredOf(s)'
    <3> SUFFICES ASSUME NEW i \in 1 .. line' - 1, config[i][1] = s, config[i][2] = "set-bool"
                 PROVE  bools'[s][config[i][3]] = ParsedBool(config[i])
      BY <2>1 DEF EnteredOf
    <3>1. i \in 1 .. line - 1 \/ i = line
      BY <1>1, <2>1
    <3>2. s # Side => bools'[s] = bools[s]
      BY <1>1, <2>1
    <3>3. s = Side => bools'[s] = With(bools[s], Tokens[3], ParsedBool(Tokens))
      BY <1>1, <2>1
    <3>4. CASE i = line
      <4>1. s = Side /\ config[i] = Tokens
        BY <3>4 DEF Side, Tokens
      <4>2. QED
        BY <3>3, <4>1 DEF With
    <3>5. CASE i \in 1 .. line - 1
      <4>1. bools[s][config[i][3]] = ParsedBool(config[i])
        BY <2>2, <3>5 DEF EnteredOf
      <4>2. LineParses(config, i)
        BY <3>5 DEF ConfigIInv, LinesAboveParse
      <4>3. Len(config[i]) \in Nat
        <5>1. config \in Configs /\ i \in 1 .. Len(config)
          BY <1>1, <3>5 DEF ConfigIInv, ConfigTypeOK
        <5>2. QED
          BY <5>1, LineType
      <4>4. Len(config[i]) > 2
        BY <4>2, <4>3 DEF LineParses, BoolParses
      <4>5. config[i][3] \in DeclaredAbove(config, line, s)
        BY <3>5, <4>4 DEF DeclaredAbove
      <4>6. config[i][3] \in DOMAIN bools[s]
        BY <4>5 DEF ConfigIInv, MapsMatchLines
      <4>7. s = Side => config[i][3] # Tokens[3]
        BY <1>3, <4>6 DEF Declared
      <4>8. QED
        BY <3>2, <3>3, <4>1, <4>6, <4>7 DEF With
    <3>6. QED
      BY <3>1, <3>4, <3>5
  <2>5. QED
    BY <2>3, <2>4
<1>4. QED
  BY <1>2, <1>3

LEMMA ConstructStored ==
    ASSUME ConfigIInv, StoredInOrder, [Construct]_configVars
    PROVE  StoredInOrder'
<1>1. CASE ParseSetHeader \/ ParseSetMetadata \/ ParseAppendHeader \/ ParseSetPath
  <2>1. /\ AtLine /\ Recognised /\ Operation # "set-bool"
        /\ \/ OperationParses(Tokens, Side, Declared) /\ Push
           \/ setError
    BY <1>1, OperationParsed
  <2>2. CASE setError
    BY <2>2, StoredKept DEF setError
  <2>3. QED
    BY <2>1, <2>2, PushStored
<1>2. CASE ParseSetBool
  BY <1>2, SetBoolStored
<1>3. CASE \/ RejectLine \/ SetBoolThrows \/ FinishConstruction \/ UNCHANGED configVars
  <2>1. config' = config /\ line' = line /\ processors' = processors /\ bools' = bools
    BY <1>3 DEF RejectLine, SetBoolThrows, FinishConstruction, setError, configVars
  <2>2. QED
    BY <2>1, StoredKept
<1>4. QED
  BY <1>1, <1>2, <1>3 DEF Construct

LEMMA InitStored == ConfigInit => StoredInOrder
<1> SUFFICES ASSUME ConfigInit, NEW s \in Sides PROVE StoredOf(s) /\ EnteredOf(s)
  BY StoredByLine
<1>1. OwnLines(s) = {} /\ processors[s] = <<>> /\ 1 .. line - 1 = {}
  BY DEF ConfigInit, OwnLines
<1>2. Cardinality({}) = 0 /\ Len(<<>>) = 0
  BY FS_EmptySet
<1>3. QED
  BY <1>1, <1>2 DEF StoredOf, EnteredOf

----------------------------------------------------------------------------
\* The inductive invariant holds of every behaviour of the constructor.
THEOREM ConfigInvariant == ConfigSpec => []ConfigIInv
<1>1. ConfigIInv /\ [ConfigNext]_configVars => ConfigIInv'
  BY ConstructConfigIInv DEF ConfigNext, Constructed
<1>2. QED
  BY InitConfigIInv, <1>1, PTL DEF ConfigSpec

\* Everything the constructor stores keeps its type, for every configuration.
THEOREM ConfigTypes == ConfigSpec => []ConfigTypeOK
<1>1. ConfigIInv => ConfigTypeOK
  BY DEF ConfigIInv
<1>2. QED
  BY <1>1, ConfigInvariant, PTL

\* error_ is set exactly for the configurations with a line that does not parse.
THEOREM ErrorIsExact == ConfigSpec => []ErrorExactlyForBadLine
<1>1. ConfigIInv => ErrorExactlyForBadLine
  <2> SUFFICES ASSUME ConfigIInv, construction = "done"
               PROVE  error <=> \E i \in 1 .. Len(config) : ~LineParses(config, i)
    BY DEF ErrorExactlyForBadLine
  <2>1. Len(config) \in Nat /\ line \in 1 .. Len(config) + 1 /\ error \in BOOLEAN
    BY LineType DEF ConfigIInv, ConfigTypeOK
  <2>2. CASE error
    BY <2>1, <2>2 DEF ConfigIInv, StoppedForReason
  <2>3. CASE ~error
    BY <2>1, <2>3 DEF ConfigIInv, StoppedForReason, LinesAboveParse
  <2>4. QED
    BY <2>2, <2>3
<1>2. QED
  BY <1>1, ConfigInvariant, PTL

\* The lists hold the operations in the order of their lines, and the maps the
\* set-bools.
THEOREM OperationsInOrder == ConfigSpec => []StoredInOrder
<1>1. ConfigIInv /\ StoredInOrder /\ [ConfigNext]_configVars => (ConfigIInv /\ StoredInOrder)'
  BY ConstructConfigIInv, ConstructStored DEF ConfigNext, Constructed
<1>2. QED
  BY InitConfigIInv, InitStored, <1>1, PTL DEF ConfigSpec

\* A bad line is not above the current one, so what is stored, which comes from
\* the lines above the current one, comes from those above every bad line.
LEMMA StoredAboveBadLine ==
    ASSUME ConfigIInv, StoredInOrder
    PROVE  NothingStoredPastBadLine
<1> SUFFICES ASSUME NEW b \in 1 .. Len(config), ~LineParses(config, b), NEW s \in Sides
             PROVE  /\ Len(processors[s]) <=
                         Cardinality({i \in 1 .. b - 1 :
                            Len(config[i]) >= 2 /\ config[i][1] = s
                              /\ config[i][2] # "set-bool"})
                    /\ DOMAIN bools[s] \subseteq DeclaredAbove(config, b, s)
  BY DEF NothingStoredPastBadLine
<1> DEFINE above == {i \in 1 .. b - 1 :
                       Len(config[i]) >= 2 /\ config[i][1] = s /\ config[i][2] # "set-bool"}
<1>1. Len(config) \in Nat /\ line \in 1 .. Len(config) + 1
  BY LineType DEF ConfigIInv, ConfigTypeOK
<1>2. line <= b /\ 1 .. line - 1 \subseteq 1 .. b - 1
  BY <1>1 DEF ConfigIInv, LinesAboveParse
<1>3. OwnLines(s) \subseteq above
  <2>1. \A i \in 1 .. line - 1 : Len(config[i]) >= 2
    BY DEF ConfigIInv, LinesAboveParse, LineParses
  <2>2. QED
    BY <1>2, <2>1 DEF OwnLines
<1>4. IsFiniteSet(above)
  BY PositionsFinite
<1> HIDE DEF above
<1>5. Cardinality(OwnLines(s)) <= Cardinality(above)
  BY <1>3, <1>4, FS_Subset
<1>6. DeclaredAbove(config, line, s) \subseteq DeclaredAbove(config, b, s)
  BY <1>2 DEF DeclaredAbove
<1>7. Len(processors[s]) = Cardinality(OwnLines(s))
  BY StoredByLine DEF StoredOf
<1>8. DOMAIN bools[s] = DeclaredAbove(config, line, s)
  BY DEF ConfigIInv, MapsMatchLines
<1>9. QED
  BY <1>5, <1>6, <1>7, <1>8 DEF above

\* Neither a bad line nor one below it leaves an operation or a variable.
THEOREM NothingPastBadLine == ConfigSpec => []NothingStoredPastBadLine
<1>1. ConfigIInv /\ StoredInOrder => NothingStoredPastBadLine
  BY StoredAboveBadLine
<1>2. QED
  BY <1>1, ConfigInvariant, OperationsInOrder, PTL

\* No stored condition refers to a variable its side does not have.
THEOREM ConditionsAreClosed == ConfigSpec => []ConditionsClosed
<1>1. ConfigIInv => ConditionsClosed
  BY DEF ConfigIInv
<1>2. QED
  BY <1>1, ConfigInvariant, PTL

\* Nothing on the response side reads the request path.
THEOREM ResponseWithoutUrl == ConfigSpec => []ResponseNeverReadsUrl
<1>1. ConfigIInv => ResponseNeverReadsUrl
  BY NoUrlpOnResponse DEF ConfigIInv, OperationsParse, BoolsParse, ResponseNeverReadsUrl, Sides
<1>2. QED
  BY <1>1, ConfigInvariant, PTL

\* A boolean variable keeps its first definition.
THEOREM BoolsAreKept == ConfigSpec => BoolsKeepDefinition
<1>1. ConfigIInv /\ [ConfigNext]_configVars =>
        [\A s \in Sides : \A n \in DOMAIN bools[s] :
            n \in DOMAIN bools'[s] /\ bools'[s][n] = bools[s][n]]_configVars
  BY ConstructKeepsBools DEF ConfigNext, Constructed
<1>2. QED
  BY <1>1, ConfigInvariant, PTL DEF ConfigSpec, BoolsKeepDefinition
=============================================================================
