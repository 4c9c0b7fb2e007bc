------------------------ MODULE DynamicFunctions_proofs ------------------------
(***************************************************************************)
(* What evaluating a token or a condition can return, for every lexicon    *)
(* and every message: a text, an exception only out of a position that is  *)
(* not a number, an error only for a position out of the header's bounds.  *)
(***************************************************************************)
EXTENDS BoolVariables, SequenceTheorems, WellFoundedInduction, TLAPS

\* The maps of a message give texts.
TextMap(f) == \A k \in DOMAIN f : f[k] \in Text

Readable(m) == TextMap(m.headers) /\ TextMap(m.metadata) /\ m.path \in Path

----------------------------------------------------------------------------
\* Texts.

LEMMA OneElement == ASSUME NEW S, NEW x \in S PROVE <<x>> \in Seq(S)
<1>1. <<x>> \in [1 .. 1 -> S]
  OBVIOUS
<1>2. QED
  BY <1>1, SeqDef

LEMMA OneText == ASSUME NEW x \in STRING PROVE <<x>> \in Text
BY OneElement DEF Text

LEMMA LiteralIsText ==
    ASSUME NEW t \in STRING \cup {""}
    PROVE  Literal(t) \in Text
<1>1. CASE t = ""
  <2>1. Literal(t) = <<>>
    BY <1>1, FormAssumption DEF Literal
  <2>2. QED
    BY <2>1, EmptySeq DEF Text
<1>2. CASE t # "" /\ t \in DOMAIN Form
  <2>1. Form[t] \in TokenForm
    BY <1>2, FormAssumption
  <2>2. Form[t].text \in Text
    BY <2>1 DEF TokenForm
  <2>3. QED
    BY <1>2, <2>2 DEF Literal
<1>3. CASE t # "" /\ t \notin DOMAIN Form
  BY <1>3, OneText DEF Literal
<1>4. QED
  BY <1>1, <1>2, <1>3

LEMMA LowerCaseIsText ==
    ASSUME NEW x \in Text
    PROVE  LowerCaseString(x) \in Text
<1>1. PICK n \in Nat : n = Len(x) /\ DOMAIN x = 1 .. n /\ \A i \in 1 .. n : x[i] \in STRING
  BY LenProperties, ElementOfSeq DEF Text
<1>2. LowerCaseString(x) \in [1 .. n -> STRING]
  BY <1>1, LowerCaseAssumption DEF LowerCaseString
<1>3. QED
  BY <1>2, SeqDef DEF Text

LEMMA LookupIsText ==
    ASSUME NEW f, TextMap(f), NEW k
    PROVE  Lookup(f, k) \in Text
BY EmptySeq DEF Lookup, TextMap, Text

LEMMA OkIsResult == ASSUME NEW x \in Text PROVE Ok(x) \in Result /\ Ok(x).status = "ok"
BY DEF Ok, Result

LEMMA ErrorIsResult == Error \in Result /\ Error.status = "error"
BY EmptySeq DEF Error, Result, Text

----------------------------------------------------------------------------
\* The three functions.

\* hdr fails only for a position that the header does not have, and gives the
\* empty text only for a header that is not there.
LEMMA HeaderValue ==
    ASSUME NEW headers, TextMap(headers), NEW key \in STRING, NEW position \in Int
    PROVE  LET r == getHeaderValue(headers, key, position)
               name == LowerCaseString(<<key>>)
           IN  /\ r \in Result
               /\ r.status # "throw"
               /\ r.status = "error" =>
                    /\ name \in DOMAIN headers
                    /\ position \notin -Len(headers[name]) .. Len(headers[name]) - 1
               /\ r.status = "ok" /\ r.text = <<>> => name \notin DOMAIN headers
<1> DEFINE name == LowerCaseString(<<key>>)
           values == Lookup(headers, name)
           index == IF position < 0 THEN position + Len(values) ELSE position
<1>1. values \in Text /\ Len(values) \in Nat
  BY LookupIsText, LenProperties DEF Text
<1>2. CASE name \notin DOMAIN headers
  <2>1. values = <<>> /\ Len(values) = 0 /\ index \notin 0 .. Len(values) - 1
    BY <1>2, EmptySeq DEF Lookup
  <2>2. getHeaderValue(headers, key, position) = Ok(<<>>)
    BY <1>2, <2>1 DEF getHeaderValue
  <2>3. QED
    BY <1>2, <2>2, OkIsResult, EmptySeq DEF Text
<1>3. CASE name \in DOMAIN headers /\ index \in 0 .. Len(values) - 1
  <2>1. getHeaderValue(headers, key, position) = Ok(<<values[index + 1]>>)
    BY <1>3 DEF getHeaderValue
  <2>2. index + 1 \in 1 .. Len(values)
    BY <1>1, <1>3
  <2>3. values[index + 1] \in STRING
    BY <1>1, <2>2, ElementOfSeq DEF Text
  <2>4. Ok(<<values[index + 1]>>).text # <<>>
    BY DEF Ok
  <2>5. QED
    BY <2>1, <2>3, <2>4, OneText, OkIsResult
<1>4. CASE name \in DOMAIN headers /\ index \notin 0 .. Len(values) - 1
  <2>1. getHeaderValue(headers, key, position) = Error
    BY <1>4 DEF getHeaderValue
  <2>2. values = headers[name]
    BY <1>4 DEF Lookup
  <2>3. position \notin -Len(values) .. Len(values) - 1
    BY <1>1, <1>4
  <2>4. QED
    BY <1>4, <2>1, <2>2, <2>3, ErrorIsResult
<1>5. QED
  BY <1>2, <1>3, <1>4

\* A set of pairs of naturals has a first one in lexicographic order.
LEMMA FirstPair ==
    ASSUME NEW H \in SUBSET (Nat \X Nat), H # {}
    PROVE  \E h \in H : \A g \in H : h[1] < g[1] \/ (h[1] = g[1] /\ h[2] <= g[2])
<1> DEFINE rows == {h[1] : h \in H}
<1>1. PICK i \in rows : \A j \in rows : <<j, i>> \notin OpToRel(<, Nat)
  <2>1. rows # {} /\ rows \subseteq Nat
    OBVIOUS
  <2> HIDE DEF rows
  <2>2. QED
    BY <2>1, NatLessThanWellFounded, WFMin
<1>2. i \in Nat /\ \A j \in rows : j \in Nat /\ ~(j < i)
  BY <1>1 DEF OpToRel
<1> DEFINE columns == {h[2] : h \in {g \in H : g[1] = i}}
<1>3. PICK k \in columns : \A j \in columns : <<j, k>> \notin OpToRel(<, Nat)
  <2>1. columns # {} /\ columns \subseteq Nat
    BY <1>1
  <2> HIDE DEF columns
  <2>2. QED
    BY <2>1, NatLessThanWellFounded, WFMin
<1>4. k \in Nat /\ \A j \in columns : j \in Nat /\ ~(j < k)
  BY <1>3 DEF OpToRel
<1>5. PICK h \in H : h[1] = i /\ h[2] = k
  BY <1>3
<1>6. ASSUME NEW g \in H PROVE h[1] < g[1] \/ (h[1] = g[1] /\ h[2] <= g[2])
  <2>1. g[1] \in Nat /\ g[2] \in Nat /\ ~(g[1] < i)
    BY <1>2
  <2>2. g[1] = i => ~(g[2] < k)
    BY <1>4
  <2>3. QED
    BY <1>2, <1>4, <1>5, <2>1, <2>2
<1>7. QED
  BY <1>6

\* urlp always finds a text, the empty one at least.
LEMMA UrlpIsText ==
    ASSUME NEW path \in Path, NEW name
    PROVE  LET r == getUrlp(path, name) IN r \in Result /\ r.status = "ok"
<1> DEFINE params(i) == Params[path.query[i]]
           last == Len(path.query)
           hits == UNION {{i} \X {k \in DOMAIN params(i) :
                                   params(i)[k].name = name /\ (i = 1 \/ k > 1)} : i \in 1 .. last}
           first == CHOOSE h \in hits :
                       \A g \in hits : h[1] < g[1] \/ (h[1] = g[1] /\ h[2] <= g[2])
<1>1. path.query \in Seq(DOMAIN Params) /\ last \in Nat
  BY LenProperties DEF Path
<1>2. ASSUME NEW i \in 1 .. last
      PROVE  params(i) \in Seq([name : STRING, value : Text])
  BY <1>1, ElementOfSeq, ParamsAssumption
<1>3. ASSUME NEW i \in 1 .. last, NEW k \in DOMAIN params(i)
      PROVE  k \in Nat /\ params(i)[k].value \in Text
  <2>1. k \in 1 .. Len(params(i)) /\ Len(params(i)) \in Nat
    BY <1>2, LenProperties
  <2>2. params(i)[k] \in [name : STRING, value : Text]
    BY <1>2, <2>1, ElementOfSeq
  <2>3. QED
    BY <2>1, <2>2
<1>4. hits \in SUBSET (Nat \X Nat)
  BY <1>1, <1>3
<1>5. ASSUME NEW h \in hits
      PROVE  params(h[1])[h[2]].value \in Text
  <2>1. h[1] \in 1 .. last /\ h[2] \in DOMAIN params(h[1])
    OBVIOUS
  <2>2. QED
    BY <1>3, <2>1
<1>6. hits # {} => first \in hits
  <2> HIDE DEF hits
  <2>1. QED
    BY <1>4, FirstPair
<1>7. getUrlp(path, name) =
        CASE hits = {} -> Ok(<<>>)
          [] hits # {} /\ first[1] < last /\ first[2] = Len(params(first[1])) -> Ok(GluedValue)
          [] OTHER -> Ok(params(first[1])[first[2]].value)
  BY Zenon DEF getUrlp
<1>8. hits # {} => params(first[1])[first[2]].value \in Text
  <2> HIDE DEF hits, first, params
  <2>1. QED
    BY <1>5, <1>6
<1>9. Ok(<<>>) \in Result /\ Ok(<<>>).status = "ok"
  BY OkIsResult, EmptySeq DEF Text
<1>10. Ok(GluedValue) \in Result /\ Ok(GluedValue).status = "ok"
  BY GluedValueAssumption, OkIsResult
<1> HIDE DEF hits, first, params, last
<1>11. CASE hits = {}
  BY <1>7, <1>9, <1>11
<1>12. CASE hits # {}
  BY <1>7, <1>8, <1>10, <1>12, OkIsResult
<1>13. QED
  BY <1>11, <1>12

----------------------------------------------------------------------------
\* A token, classified.

LEMMA FormOfCall ==
    ASSUME NEW t, ~isStatic(t)
    PROVE  /\ t \in DOMAIN Form
           /\ Form[t].name \in STRING
           /\ Form[t].arguments \in Text
           /\ Len(Form[t].arguments) \in Nat
<1>1. t \in DOMAIN Form
  BY DEF isStatic
<1>2. Form[t] \in TokenForm
  BY <1>1, FormAssumption
<1>3. Form[t].name \in STRING /\ Form[t].arguments \in Text
  BY <1>2 DEF TokenForm
<1>4. QED
  BY <1>1, <1>3, LenProperties DEF Text

\* What a token that parses on its side can be.
LEMMA ParsedToken ==
    ASSUME NEW t, NEW side, Parses(t, side)
    PROVE  \/ isStatic(t)
           \/ /\ isCall(t, "hdr")
              /\ Len(Form[t].arguments) \in {1, 2}
           \/ isCall(t, "urlp") /\ side = "http-request"
           \/ isCall(t, "metadata")
<1> SUFFICES ASSUME ~isStatic(t)
             PROVE  \/ /\ isCall(t, "hdr")
                       /\ Len(Form[t].arguments) \in {1, 2}
                    \/ isCall(t, "urlp") /\ side = "http-request"
                    \/ isCall(t, "metadata")
  OBVIOUS
<1>1. /\ Form[t].name \in DOMAIN ArgumentCounts
      /\ isCall(t, "urlp") => side = "http-request"
      /\ Len(Form[t].arguments) \in ArgumentCounts[Form[t].name]
  BY DEF Parses
<1>2. Form[t].name \in {"hdr", "urlp", "metadata"}
  BY <1>1 DEF ArgumentCounts
<1>3. Form[t].name = "hdr" => Len(Form[t].arguments) \in {1, 2}
  BY <1>1 DEF ArgumentCounts
<1>4. QED
  BY <1>1, <1>2, <1>3 DEF isCall

LEMMA FirstArgument ==
    ASSUME NEW t, isCall(t, "hdr"), Len(Form[t].arguments) \in {1, 2}
    PROVE  Form[t].arguments[1] \in STRING
<1>1. Form[t].arguments \in Seq(STRING)
  BY FormOfCall DEF isCall, Text
<1>2. PICK n \in Nat : n = Len(Form[t].arguments)
  BY FormOfCall DEF isCall
<1>3. 1 \in 1 .. n
  <2>1. n = 1 \/ n = 2
    BY <1>2
  <2>2. QED
    BY <2>1
<1>4. QED
  BY <1>1, <1>2, <1>3, ElementOfSeq

LEMMA PositionOfCall ==
    ASSUME NEW t, isCall(t, "hdr"), ~PositionThrows(t)
    PROVE  Position(t) \in Int
<1>1. CASE HasPosition(t)
  <2>1. Position(t) = Numeral[Form[t].arguments[2]]
    BY <1>1 DEF Position
  <2>2. Form[t].arguments[2] \in DOMAIN Numeral
    BY <1>1 DEF PositionThrows
  <2>3. QED
    BY <1>1, <2>1, <2>2, NumeralAssumption
<1>2. CASE ~HasPosition(t)
  BY <1>2 DEF Position
<1>3. QED
  BY <1>1, <1>2

\* What a token that parsed gives on any message of its side: a result, an
\* exception only for a position that is not a number, an error only for a
\* position out of bounds, and the empty text only where nothing may be found.
LEMMA Evaluated ==
    ASSUME NEW t \in STRING \cup {""}, NEW side, Parses(t, side), NEW m, Readable(m)
    PROVE  LET r == Evaluate(t, side, m)
           IN  /\ r \in Result
               /\ r.status = "throw" => PositionThrows(t)
               /\ r.status = "error" => OutOfBounds(t, m.headers)
               /\ r.status = "ok" /\ r.text = <<>> => MayFindNothing(t, m.headers)
<1>1. CASE isStatic(t)
  <2>1. Evaluate(t, side, m) = Ok(Literal(t))
    BY <1>1 DEF Evaluate, isCall, PositionThrows
  <2>2. Ok(Literal(t)).text = Literal(t)
    BY DEF Ok
  <2>3. QED
    BY <1>1, <2>1, <2>2, LiteralIsText, OkIsResult DEF MayFindNothing
<1>2. CASE isCall(t, "hdr")
  <2>1. CASE PositionThrows(t)
    <3>1. Evaluate(t, side, m) = Throw
      BY <1>2, <2>1 DEF Evaluate, isCall
    <3>2. Throw \in Result /\ Throw.status = "throw"
      BY EmptySeq DEF Throw, Result, Text
    <3>3. QED
      BY <2>1, <3>1, <3>2
  <2>2. CASE ~PositionThrows(t)
    <3>1. Evaluate(t, side, m) = getHeaderValue(m.headers, Form[t].arguments[1], Position(t))
      BY <1>2, <2>2 DEF Evaluate, isCall
    <3>2. Len(Form[t].arguments) \in {1, 2}
      BY <1>2, ParsedToken DEF isCall
    <3>3. Form[t].arguments[1] \in STRING
      BY <1>2, <3>2, FirstArgument
    <3>4. Position(t) \in Int
      BY <1>2, <2>2, PositionOfCall
    <3>5. TextMap(m.headers)
      BY DEF Readable
    <3> DEFINE r == getHeaderValue(m.headers, Form[t].arguments[1], Position(t))
               key == LowerCaseString(<<Form[t].arguments[1]>>)
    <3>6. /\ r \in Result
          /\ r.status # "throw"
          /\ r.status = "error" =>
               /\ key \in DOMAIN m.headers
               /\ Position(t) \notin -Len(m.headers[key]) .. Len(m.headers[key]) - 1
          /\ r.status = "ok" /\ r.text = <<>> => key \notin DOMAIN m.headers
      BY <3>3, <3>4, <3>5, HeaderValue
    <3> HIDE DEF r
    <3>7. r.status = "error" => OutOfBounds(t, m.headers)
      BY <1>2, <2>2, <3>6 DEF OutOfBounds
    <3>8. r.status = "ok" /\ r.text = <<>> => MayFindNothing(t, m.headers)
      BY <1>2, <3>6 DEF MayFindNothing
    <3>9. QED
      BY <3>1, <3>6, <3>7, <3>8 DEF r
  <2>3. QED
    BY <2>1, <2>2
<1>3. CASE isCall(t, "urlp") /\ side = "http-request"
  <2>1. Evaluate(t, side, m) = getUrlp(m.path, Form[t].arguments[1])
    BY <1>3 DEF Evaluate, isCall, PositionThrows
  <2>2. QED
    BY <1>3, <2>1, UrlpIsText DEF Readable, MayFindNothing
<1>4. CASE isCall(t, "metadata")
  <2>1. Evaluate(t, side, m) = Ok(Lookup(m.metadata, Form[t].arguments))
    BY <1>4 DEF Evaluate, isCall, PositionThrows, getDynamicMetadata
  <2>2. QED
    BY <1>4, <2>1, LookupIsText, OkIsResult DEF Readable, MayFindNothing
<1>5. QED
  BY <1>1, <1>2, <1>3, <1>4, ParsedToken

----------------------------------------------------------------------------
\* Conditions.

\* A boolean variable fails only where its source or its comparison does.
LEMMA BoolEvaluated ==
    ASSUME NEW b \in BoolVariable, NEW side, NEW m, Readable(m),
           Parses(b.source, side), Parses(b.compare, side)
    PROVE  LET r == EvaluateBool(b, side, m)
           IN  /\ r.status \in {"ok", "error"} /\ r.value \in BOOLEAN
               /\ r.status = "error" =>
                    \E t \in {b.source, b.compare} :
                        PositionThrows(t) \/ OutOfBounds(t, m.headers)
<1>1. b.source \in STRING \cup {""} /\ b.compare \in STRING \cup {""}
  BY DEF BoolVariable
<1> DEFINE source == Evaluate(b.source, side, m)
           compare == Evaluate(b.compare, side, m)
<1> HIDE DEF source, compare
<1>2. /\ source \in Result
      /\ source.status # "ok" =>
           PositionThrows(b.source) \/ OutOfBounds(b.source, m.headers)
  <2>1. /\ source \in Result
        /\ source.status = "throw" => PositionThrows(b.source)
        /\ source.status = "error" => OutOfBounds(b.source, m.headers)
    BY <1>1, Evaluated DEF source
  <2>2. source.status \in {"ok", "error", "throw"}
    BY <2>1 DEF Result
  <2>3. QED
    BY <2>1, <2>2
<1>3. /\ compare \in Result
      /\ compare.status # "ok" =>
           PositionThrows(b.compare) \/ OutOfBounds(b.compare, m.headers)
  <2>1. /\ compare \in Result
        /\ compare.status = "throw" => PositionThrows(b.compare)
        /\ compare.status = "error" => OutOfBounds(b.compare, m.headers)
    BY <1>1, Evaluated DEF compare
  <2>2. compare.status \in {"ok", "error", "throw"}
    BY <2>1 DEF Result
  <2>3. QED
    BY <2>1, <2>2
<1>4. CASE source.status # "ok" \/ compare.status # "ok"
  <2>1. EvaluateBool(b, side, m) = [status |-> "error", value |-> FALSE]
    BY <1>4 DEF EvaluateBool, source, compare
  <2>2. QED
    BY <1>2, <1>3, <1>4, <2>1
<1>5. CASE source.status = "ok" /\ compare.status = "ok"
  <2>1. EvaluateBool(b, side, m) =
          [status |-> "ok", value |-> Matches(b.match, source.text, compare.text)]
    BY <1>5 DEF EvaluateBool, source, compare
  <2>2. Matches(b.match, source.text, compare.text) \in BOOLEAN
    BY Zenon DEF Matches
  <2>3. QED
    BY <2>1, <2>2
<1>6. QED
  BY <1>4, <1>5

\* A condition whose names are all in the map fails only where one of its
\* variables does: no operand is missing.
LEMMA ConditionEvaluated ==
    ASSUME NEW c, NEW variables, NEW side, NEW m, Readable(m),
           c = <<>> \/ WellFormed(c, DOMAIN variables),
           \A n \in DOMAIN variables :
              /\ variables[n] \in BoolVariable
              /\ Parses(variables[n].source, side) /\ Parses(variables[n].compare, side)
    PROVE  LET r == evaluateCondition(c, variables, side, m)
           IN  /\ r.status \in {"ok", "error"} /\ r.value \in BOOLEAN
               /\ r.status = "error" =>
                    \E n \in DOMAIN variables :
                        \E t \in {variables[n].source, variables[n].compare} :
                            PositionThrows(t) \/ OutOfBounds(t, m.headers)
<1> DEFINE result == [n \in DOMAIN variables |-> EvaluateBool(variables[n], side, m)]
           cause == \E n \in DOMAIN variables :
                        \E t \in {variables[n].source, variables[n].compare} :
                            PositionThrows(t) \/ OutOfBounds(t, m.headers)
<1>1. CASE c = <<>>
  <2>1. evaluateCondition(c, variables, side, m) = [status |-> "ok", value |-> TRUE]
    BY <1>1 DEF evaluateCondition
  <2>2. QED
    BY <2>1
<1>2. CASE c # <<>> /\ ConditionFails(c, result)
  <2>1. evaluateCondition(c, variables, side, m) = [status |-> "error", value |-> FALSE]
    BY <1>2 DEF evaluateCondition
  <2>2. PICK i \in Operands(c) : c[i] \notin DOMAIN result \/ result[c[i]].status # "ok"
    BY <1>2 DEF ConditionFails
  <2>3. c[i] \in DOMAIN variables
    BY <1>2, <2>2 DEF WellFormed, Operands
  <2>4. EvaluateBool(variables[c[i]], side, m).status # "ok"
    BY <2>2, <2>3
  <2>5. cause
    BY <2>3, <2>4, BoolEvaluated
  <2> HIDE DEF cause, result
  <2>6. [status |-> "error", value |-> FALSE].status \in {"ok", "error"}
        /\ [status |-> "error", value |-> FALSE].value \in BOOLEAN
    OBVIOUS
  <2>7. QED
    BY <2>1, <2>5, <2>6 DEF cause
<1>3. CASE c # <<>> /\ ~ConditionFails(c, result)
  <2>1. evaluateCondition(c, variables, side, m) =
          [status |-> "ok", value |-> ConditionHolds(c, result)]
    BY <1>3 DEF evaluateCondition
  <2>2. ConditionHolds(c, result) \in BOOLEAN
    BY Zenon DEF ConditionHolds
  <2> HIDE DEF result
  <2>3. QED
    BY <2>1, <2>2
<1>4. QED
  BY <1>1, <1>2, <1>3
=============================================================================
