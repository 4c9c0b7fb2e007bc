------------------------- MODULE FilterStream_proofs -------------------------
(***************************************************************************)
(* What a stream's handlers promise, for every set of configurations,      *)
(* every lexicon and every message: the constructor's invariant holds all  *)
(* along, and with it what a handler may do to a message, when it fails    *)
(* and when it is left by an exception.                                    *)
(***************************************************************************)
EXTENDS FilterStream, FilterConfig_proofs, DynamicFunctions_proofs, FiniteSetTheorems

----------------------------------------------------------------------------
\* Maps of texts.

LEMMA HeaderMapGives ==
    ASSUME NEW f, HeaderMap(f)
    PROVE  TextMap(f) /\ DOMAIN f \subseteq Text
BY DEF HeaderMap, TextMap

LEMMA EmptyHeaderMap == HeaderMap(<<>>) /\ DOMAIN <<>> = {}
BY DEF HeaderMap

LEMMA WithEntry ==
    ASSUME NEW f, NEW k, NEW v
    PROVE  /\ DOMAIN With(f, k, v) = DOMAIN f \cup {k}
           /\ With(f, k, v)[k] = v
           /\ \A x \in DOMAIN f : x # k => With(f, k, v)[x] = f[x]
BY DEF With

LEMMA WithIsHeaderMap ==
    ASSUME NEW f, HeaderMap(f), NEW k \in Text, NEW v \in Text
    PROVE  HeaderMap(With(f, k, v))
BY DEF HeaderMap, With

LEMMA ConcatIsText ==
    ASSUME NEW x \in Text, NEW y \in Text
    PROVE  x \o y \in Text /\ IsPrefix(x, x \o y)
<1>1. /\ x \o y \in Text
      /\ Len(x \o y) = Len(x) + Len(y)
      /\ Len(x) \in Nat /\ Len(y) \in Nat
  BY ConcatProperties, LenProperties DEF Text
<1>2. SubSeq(x \o y, 1, Len(x)) = SubSeq(x, 1, Len(x))
  <2>1. CASE Len(x) = 0
    BY <1>1, <2>1, SubSeqEmpty
  <2>2. CASE Len(x) # 0
    <3>1. Len(x) \in 1 .. Len(x) /\ 1 \in 1 .. Len(x)
      BY <1>1, <2>2
    <3>2. QED
      BY <3>1, SubSeqOfConcat1 DEF Text
  <2>3. QED
    BY <2>1, <2>2
<1>3. QED
  BY <1>1, <1>2 DEF IsPrefix

LEMMA TextIsItsPrefix == ASSUME NEW x \in Text PROVE IsPrefix(x, x)
BY LenProperties DEF IsPrefix, Text

----------------------------------------------------------------------------
\* The message and the operation a handler is at.

LEMMA Sided == ActiveSide \in Sides
BY DEF ActiveSide, Sides

LEMMA MessageIsReadable ==
    ASSUME TypeOK
    PROVE  Readable(Message)
<1>1. HeaderMap(headers[ActiveSide]) /\ HeaderMap(metadata) /\ path \in Path
  BY Sided DEF TypeOK
<1>2. QED
  BY <1>1, HeaderMapGives DEF Readable, Message

LEMMA OperationAt ==
    ASSUME ConfigIInv, TypeOK, next <= Len(processors[ActiveSide])
    PROVE  /\ next \in DOMAIN processors[ActiveSide]
           /\ Current \in Processor
           /\ \A t \in {Current.target} \cup Range(Current.values) :
                t \in STRING \cup {""} /\ Parses(t, ActiveSide)
           /\ Current.op \in {"set-header", "set-metadata"} => Len(Current.values) = 1
           /\ Current.op = "set-path" => ActiveSide = "http-request"
           /\ Current.condition = <<>> \/ WellFormed(Current.condition, DOMAIN bools[ActiveSide])
<1>1. processors[ActiveSide] \in Seq(Processor)
  BY Sided DEF TypeOK, ConfigTypeOK
<1>2. next \in 1 .. Len(processors[ActiveSide]) /\ DOMAIN processors[ActiveSide] = 1 .. Len(processors[ActiveSide])
  BY <1>1, LenProperties DEF TypeOK
<1>3. Current \in Processor
  BY <1>1, <1>2, ElementOfSeq DEF Current
<1>4. Current.target \in STRING /\ Current.values \in Seq(STRING)
  BY <1>3 DEF Processor
<1>5. Range(Current.values) \subseteq STRING
  BY <1>4, RangeOfSeq
<1>6. /\ \A t \in {Current.target} \cup Range(Current.values) : Parses(t, ActiveSide)
      /\ Current.op \in {"set-header", "set-metadata"} => Len(Current.values) = 1
      /\ Current.op = "set-path" => ActiveSide = "http-request"
  BY <1>2, Sided DEF ConfigIInv, OperationsParse, Current
<1>7. Current.condition = <<>> \/ WellFormed(Current.condition, DOMAIN bools[ActiveSide])
  BY <1>2, Sided DEF ConfigIInv, ConditionsClosed, Current
<1>8. QED
  BY <1>2, <1>3, <1>4, <1>5, <1>6, <1>7

\* Why an operation of side s may fail.
NameOrValueMissing(s) ==
    \E k \in DOMAIN processors[s] :
        /\ processors[s][k].op = "set-metadata"
        /\ \E t \in {processors[s][k].target} \cup Range(processors[s][k].values) :
              MayFindNothing(t, headers[s])

Cause(s) ==
    \/ \E t \in Functions(s) : OutOfBounds(t, headers[s])
    \/ \E n \in DOMAIN bools[s] :
          PositionThrows(bools[s][n].source) \/ PositionThrows(bools[s][n].compare)
    \/ NameOrValueMissing(s)

\* A token of the operation at hand: a text, an exception of a position, or an
\* error that has a cause; the empty text only where nothing may be found.
LEMMA TokenEvaluated ==
    ASSUME ConfigIInv, TypeOK, next <= Len(processors[ActiveSide]),
           NEW t \in {Current.target} \cup Range(Current.values)
    PROVE  /\ Value(t) \in Result
           /\ Value(t).status = "throw" => PositionThrows(t)
           /\ Value(t).status = "error" => Cause(ActiveSide)
           /\ Value(t).status = "ok" /\ Value(t).text = <<>> =>
                MayFindNothing(t, headers[ActiveSide])
<1>1. /\ t \in STRING \cup {""} /\ Parses(t, ActiveSide)
      /\ next \in DOMAIN processors[ActiveSide]
  BY OperationAt
<1>2. Readable(Message)
  BY MessageIsReadable
<1>3. /\ Value(t) \in Result
      /\ Value(t).status = "throw" => PositionThrows(t)
      /\ Value(t).status = "error" => OutOfBounds(t, Message.headers)
      /\ Value(t).status = "ok" /\ Value(t).text = <<>> => MayFindNothing(t, Message.headers)
  BY <1>1, <1>2, Evaluated DEF Value
<1>4. t \in Functions(ActiveSide)
  BY <1>1 DEF Functions, Current
<1>5. Message.headers = headers[ActiveSide]
  BY DEF Message
<1>6. QED
  BY <1>3, <1>4, <1>5 DEF Cause

\* The condition of the operation at hand: decided, or an error with a cause.
LEMMA ConditionDecided ==
    ASSUME ConfigIInv, TypeOK, next <= Len(processors[ActiveSide])
    PROVE  /\ Condition.status \in {"ok", "error"} /\ Condition.value \in BOOLEAN
           /\ Condition.status = "error" => Cause(ActiveSide)
<1> DEFINE variables == bools[ActiveSide]
<1>1. Current.condition = <<>> \/ WellFormed(Current.condition, DOMAIN variables)
  BY OperationAt
<1>2. \A n \in DOMAIN variables :
        /\ variables[n] \in BoolVariable
        /\ Parses(variables[n].source, ActiveSide)
        /\ Parses(variables[n].compare, ActiveSide)
  BY Sided DEF ConfigIInv, ConfigTypeOK, BoolsParse, BoolMap
<1>3. /\ Condition.status \in {"ok", "error"} /\ Condition.value \in BOOLEAN
      /\ Condition.status = "error" =>
           \E n \in DOMAIN variables :
               \E t \in {variables[n].source, variables[n].compare} :
                  PositionThrows(t) \/ OutOfBounds(t, Message.headers)
  BY <1>1, <1>2, MessageIsReadable, ConditionEvaluated DEF Condition
<1>4. ASSUME NEW n \in DOMAIN variables, NEW t \in {variables[n].source, variables[n].compare}
      PROVE  t \in Functions(ActiveSide)
  <2>1. /\ bools[ActiveSide][n].source \in {bools[ActiveSide][k].source : k \in DOMAIN bools[ActiveSide]}
        /\ bools[ActiveSide][n].compare \in {bools[ActiveSide][k].compare : k \in DOMAIN bools[ActiveSide]}
    OBVIOUS
  <2> DEFINE sources == {bools[ActiveSide][k].source : k \in DOMAIN bools[ActiveSide]}
             compares == {bools[ActiveSide][k].compare : k \in DOMAIN bools[ActiveSide]}
  <2>2. t \in sources \cup compares
    BY <2>1
  <2> HIDE DEF sources, compares
  <2>3. sources \cup compares \subseteq Functions(ActiveSide)
    BY Zenon DEF Functions, sources, compares
  <2>4. QED
    BY <2>2, <2>3
<1>5. Message.headers = headers[ActiveSide]
  BY DEF Message
<1>6. QED
  BY <1>3, <1>4, <1>5 DEF Cause

----------------------------------------------------------------------------
\* What the ends of a handler and its work on the message keep.

LEMMA ConfigKept ==
    ASSUME ConfigIInv, UNCHANGED configVars
    PROVE  ConfigIInv'
BY ConstructConfigIInv

LEMMA CauseKept ==
    ASSUME NEW s, UNCHANGED configVars, headers'[s] = headers[s]
    PROVE  Cause(s)' <=> Cause(s)
BY DEF Cause, NameOrValueMissing, Functions, configVars

LEMMA FailureIsCause == FailureHasCause <=> \A s \in Sides : outcome[s] = "failed" => Cause(s)
BY DEF FailureHasCause, Cause, NameOrValueMissing

\* A handler returns; with an error only if that has a cause.
LEMMA ReturnStep ==
    ASSUME StreamIInv, Executing, NEW how \in {"finished", "failed"}, Return(how),
           how = "failed" => Cause(ActiveSide)
    PROVE  StreamIInv'
<1>1. /\ phase' \in {"decoded", "encoded"}
      /\ outcome' = [outcome EXCEPT ![ActiveSide] = how]
      /\ next' = 1 /\ appending' = NotAppending
      /\ UNCHANGED <<headers, path, metadata, arrived, config, line, construction, error,
                     processors, bools>>
  BY DEF Return, message, configVars
<1>2. ConfigIInv'
  BY <1>1, ConfigKept DEF StreamIInv, configVars
<1>3. TypeOK /\ ~error /\ construction = "done" /\ ActiveSide \in Sides
  BY Sided DEF StreamIInv, HandlersAfterConstruction, Executing
<1>4. TypeOK'
  <2>1. outcome' \in [Sides -> {"none", "skipped", "finished", "failed"}]
    BY <1>1, <1>3 DEF TypeOK
  <2>2. NotAppending \in [key : Text, count : Nat \cup {-1}]
    BY EmptySeq DEF NotAppending, Text
  <2>3. ConfigTypeOK'
    BY <1>2 DEF ConfigIInv
  <2>4. QED
    BY <1>1, <1>3, <2>1, <2>2, <2>3 DEF TypeOK
<1>5. HandlersAfterConstruction' /\ UntouchedAsArrived' /\ AtRest' /\ AtOperationOfSide'
  BY <1>1, <1>3
  DEF HandlersAfterConstruction, UntouchedAsArrived, AtRest, AtOperationOfSide, Executing
<1>6. QueryStringKept' /\ MetadataHasValues' /\ OnlyPositionsEscape'
  BY <1>1 DEF StreamIInv, QueryStringKept, MetadataHasValues, OnlyPositionsEscape
<1>7. FailureHasCause'
  <2> SUFFICES ASSUME NEW s \in Sides, outcome'[s] = "failed" PROVE Cause(s)'
    BY DEF FailureHasCause, Cause, NameOrValueMissing
  <2>1. Cause(s)' <=> Cause(s)
    BY <1>1, CauseKept DEF configVars
  <2>2. CASE s = ActiveSide
    BY <1>1, <1>3, <2>1, <2>2 DEF TypeOK
  <2>3. CASE s # ActiveSide
    <3>1. outcome[s] = "failed"
      BY <1>1, <1>3, <2>3 DEF TypeOK
    <3>2. Cause(s)
      BY <3>1, FailureIsCause DEF StreamIInv
    <3>3. QED
      BY <2>1, <3>2
  <2>4. QED
    BY <2>2, <2>3
<1>8. QED
  BY <1>2, <1>4, <1>5, <1>6, <1>7 DEF StreamIInv

\* A handler is left by an exception, which a position threw.
LEMMA EscapeStep ==
    ASSUME StreamIInv, Executing, Escape, next <= Len(processors[ActiveSide]),
           Current.op # "set-metadata",
           NEW t \in {Current.target} \cup Range(Current.values), PositionThrows(t)
    PROVE  StreamIInv'
<1>1. /\ phase' = "crashed"
      /\ UNCHANGED <<next, appending, headers, path, metadata, outcome, arrived, config, line,
                     construction, error, processors, bools>>
  BY DEF Escape, message, configVars
<1>2. ConfigIInv'
  BY <1>1, ConfigKept DEF StreamIInv, configVars
<1>3. TypeOK /\ ConfigIInv /\ ~error /\ construction = "done" /\ outcome[ActiveSide] = "none"
  BY DEF StreamIInv, HandlersAfterConstruction, AtOperationOfSide, Executing
<1>4. TypeOK'
  BY <1>1, <1>2, <1>3 DEF TypeOK, ConfigIInv
<1>5. HandlersAfterConstruction' /\ UntouchedAsArrived' /\ AtRest' /\ AtOperationOfSide'
  BY <1>1, <1>3
  DEF HandlersAfterConstruction, UntouchedAsArrived, AtRest, AtOperationOfSide, Executing
<1>6. QueryStringKept' /\ MetadataHasValues'
  BY <1>1 DEF StreamIInv, QueryStringKept, MetadataHasValues
<1>7. OnlyPositionsEscape'
  <2>1. next \in DOMAIN processors[ActiveSide]
    BY <1>3, OperationAt
  <2>2. \E s \in Sides :
          /\ outcome[s] = "none"
          /\ next \in DOMAIN processors[s]
          /\ processors[s][next].op # "set-metadata"
          /\ \E u \in {processors[s][next].target} \cup Range(processors[s][next].values) :
               PositionThrows(u)
    BY <1>3, <2>1, Sided DEF Current
  <2>3. QED
    BY <1>1, <2>2 DEF OnlyPositionsEscape
<1>8. FailureHasCause'
  <2> SUFFICES ASSUME NEW s \in Sides, outcome'[s] = "failed" PROVE Cause(s)'
    BY DEF FailureHasCause, Cause, NameOrValueMissing
  <2>1. Cause(s)' <=> Cause(s)
    BY <1>1, CauseKept DEF configVars
  <2>2. QED
    BY <1>1, <2>1, FailureIsCause DEF StreamIInv
<1>9. QED
  BY <1>2, <1>4, <1>5, <1>6, <1>7, <1>8 DEF StreamIInv

\* An operation works on the message and the handler goes on: what the message
\* must still be afterwards.
MessageFits ==
    /\ headers \in [Sides -> {headers[s] : s \in Sides}]
    /\ \A s \in Sides : HeaderMap(headers[s])
    /\ path \in Path
    /\ HeaderMap(metadata)
    /\ QueryStringKept
    /\ MetadataHasValues

LEMMA WorkStep ==
    ASSUME StreamIInv, Executing, UNCHANGED <<phase, outcome, arrived, configVars>>,
           MessageFits', \A s \in Sides \ {ActiveSide} : headers'[s] = headers[s],
           next' \in Nat \ {0}, appending' \in [key : Text, count : Nat \cup {-1}],
           AtOperationOfSide'
    PROVE  StreamIInv'
<1>1. UNCHANGED <<phase, outcome, arrived, config, line, construction, error, processors, bools>>
  BY DEF configVars
<1>2. ConfigIInv'
  BY ConfigKept DEF StreamIInv
<1>3. TypeOK /\ ~error /\ construction = "done" /\ outcome[ActiveSide] = "none"
  BY DEF StreamIInv, HandlersAfterConstruction, AtOperationOfSide, Executing
<1>4. TypeOK'
  <2>1. ConfigTypeOK'
    BY <1>2 DEF ConfigIInv
  <2>2. /\ phase' \in {"decoding", "encoding"}
        /\ outcome' \in [Sides -> {"none", "skipped", "finished", "failed"}]
    BY <1>1, <1>3 DEF TypeOK, Executing
  <2>3. /\ arrived' \in [headers : {arrived'.headers}, path : Path, metadata : {arrived'.metadata}]
        /\ arrived'.headers \in [Sides -> {arrived'.headers[s] : s \in Sides}]
    BY <1>1, <1>3 DEF TypeOK
  <2>4. /\ headers' \in [Sides -> {headers'[s] : s \in Sides}]
        /\ \A s \in Sides : HeaderMap(headers'[s])
        /\ path' \in Path /\ HeaderMap(metadata')
    BY DEF MessageFits
  <2>5. QED
    BY <2>1, <2>2, <2>3, <2>4 DEF TypeOK
<1>5. HandlersAfterConstruction' /\ UntouchedAsArrived' /\ AtRest' /\ OnlyPositionsEscape'
  BY <1>1, <1>3
  DEF HandlersAfterConstruction, UntouchedAsArrived, AtRest, OnlyPositionsEscape, Executing
<1>6. FailureHasCause'
  <2> SUFFICES ASSUME NEW s \in Sides, outcome'[s] = "failed" PROVE Cause(s)'
    BY DEF FailureHasCause, Cause, NameOrValueMissing
  <2>1. s # ActiveSide /\ outcome[s] = "failed"
    BY <1>1, <1>3
  <2>2. Cause(s)' <=> Cause(s)
    BY <2>1, CauseKept
  <2>3. QED
    BY <2>1, <2>2, FailureIsCause DEF StreamIInv
<1>7. QED
  BY <1>2, <1>4, <1>5, <1>6 DEF StreamIInv, MessageFits

\* The parts of the message that an operation leaves alone fit still.
LEMMA HeadersWorked ==
    ASSUME StreamIInv, NEW h, HeaderMap(h),
           headers' = [headers EXCEPT ![ActiveSide] = h], UNCHANGED <<path, metadata, arrived>>
    PROVE  MessageFits' /\ \A s \in Sides \ {ActiveSide} : headers'[s] = headers[s]
<1>1. TypeOK /\ ActiveSide \in Sides
  BY Sided DEF StreamIInv
<1>2. /\ DOMAIN headers' = Sides /\ headers'[ActiveSide] = h
      /\ \A s \in Sides \ {ActiveSide} : headers'[s] = headers[s]
      /\ headers' = [s \in Sides |-> headers'[s]]
  BY <1>1 DEF TypeOK
<1>3. headers' \in [Sides -> {headers'[s] : s \in Sides}]
  BY <1>2
<1>4. \A s \in Sides : HeaderMap(headers'[s])
  BY <1>1, <1>2 DEF TypeOK
<1>5. (path \in Path /\ HeaderMap(metadata) /\ QueryStringKept /\ MetadataHasValues)'
  BY <1>1 DEF StreamIInv, TypeOK, QueryStringKept, MetadataHasValues
<1>6. QED
  BY <1>2, <1>3, <1>4, <1>5 DEF MessageFits

LEMMA OtherWorked ==
    ASSUME StreamIInv, UNCHANGED <<headers, arrived>>, path' \in Path, HeaderMap(metadata'),
           QueryStringKept', MetadataHasValues'
    PROVE  MessageFits' /\ \A s \in Sides \ {ActiveSide} : headers'[s] = headers[s]
<1>1. headers \in [Sides -> {headers[s] : s \in Sides}] /\ \A s \in Sides : HeaderMap(headers[s])
  BY DEF StreamIInv, TypeOK
<1>2. QED
  BY <1>1 DEF MessageFits

\* After an operation the handler is at the next one.
LEMMA Advanced ==
    ASSUME StreamIInv, Executing, next <= Len(processors[ActiveSide]), Advance,
           appending' = NotAppending
    PROVE  /\ UNCHANGED <<phase, outcome, arrived, configVars>>
           /\ next' \in Nat \ {0} /\ appending' \in [key : Text, count : Nat \cup {-1}]
           /\ AtOperationOfSide'
<1>1. UNCHANGED <<phase, outcome, arrived, configVars>> /\ next' = next + 1
  BY DEF Advance
<1>2. PICK n \in Nat : n = Len(processors[ActiveSide])
  BY Sided, LenProperties DEF StreamIInv, TypeOK, ConfigTypeOK
<1>3. next \in Nat \ {0} /\ outcome[ActiveSide] = "none"
  BY DEF StreamIInv, TypeOK, AtOperationOfSide
<1>4. next' \in Nat \ {0} /\ next' <= n + 1
  BY <1>1, <1>2, <1>3
<1>5. NotAppending \in [key : Text, count : Nat \cup {-1}]
  BY EmptySeq DEF NotAppending, Text
<1>6. ActiveSide' = ActiveSide /\ processors' = processors /\ outcome' = outcome
  BY <1>1 DEF ActiveSide, configVars
<1>7. AtOperationOfSide'
  BY <1>2, <1>3, <1>4, <1>6 DEF AtOperationOfSide
<1>8. QED
  BY <1>1, <1>4, <1>5, <1>7

----------------------------------------------------------------------------
\* The steps of a handler.

LEMMA FinishHandlerStep == ASSUME StreamIInv, FinishHandler PROVE StreamIInv'
<1>1. Executing /\ Return("finished")
  BY DEF FinishHandler
<1>2. QED
  BY <1>1, ReturnStep

LEMMA ConditionErrorStep == ASSUME StreamIInv, ConditionError PROVE StreamIInv'
<1>1. Executing /\ Return("failed") /\ next <= Len(processors[ActiveSide])
  BY DEF ConditionError, AtProcessor
<1>2. Cause(ActiveSide)
  BY <1>1, ConditionDecided DEF ConditionError, StreamIInv
<1>3. QED
  BY <1>1, <1>2, ReturnStep

LEMMA SkipOperationStep == ASSUME StreamIInv, SkipOperation PROVE StreamIInv'
<1>1. /\ Executing /\ next <= Len(processors[ActiveSide]) /\ Advance
      /\ appending = NotAppending /\ UNCHANGED <<headers, path, metadata, appending>>
  BY DEF SkipOperation, AtProcessor, message
<1>2. /\ UNCHANGED <<phase, outcome, arrived, configVars>>
      /\ next' \in Nat \ {0} /\ appending' \in [key : Text, count : Nat \cup {-1}]
      /\ AtOperationOfSide'
  BY <1>1, Advanced
<1>3. MessageFits' /\ \A s \in Sides \ {ActiveSide} : headers'[s] = headers[s]
  <2>1. path' \in Path /\ HeaderMap(metadata')
    BY <1>1 DEF StreamIInv, TypeOK
  <2>2. QueryStringKept' /\ MetadataHasValues'
    BY <1>1, <1>2 DEF StreamIInv, QueryStringKept, MetadataHasValues
  <2>3. QED
    BY <1>1, <1>2, <2>1, <2>2, OtherWorked
<1>4. QED
  BY <1>1, <1>2, <1>3, WorkStep

\* The tokens of an operation are among those that TokenEvaluated is about.
LEMMA KeyOfOperation ==
    ASSUME ConfigIInv, TypeOK, next <= Len(processors[ActiveSide])
    PROVE  /\ Key \in Result
           /\ Key.status = "throw" => PositionThrows(Current.target)
           /\ Key.status = "error" => Cause(ActiveSide)
BY TokenEvaluated DEF Key

LEMMA ValueOfOperation ==
    ASSUME ConfigIInv, TypeOK, next <= Len(processors[ActiveSide]),
           NEW i \in DOMAIN Current.values
    PROVE  /\ Current.values[i] \in {Current.target} \cup Range(Current.values)
           /\ Value(Current.values[i]) \in Result
           /\ Value(Current.values[i]).status = "throw" => PositionThrows(Current.values[i])
           /\ Value(Current.values[i]).status = "error" => Cause(ActiveSide)
<1>1. Current.values[i] \in Range(Current.values)
  BY DEF Range
<1>2. QED
  BY <1>1, TokenEvaluated

LEMMA OnlyValue ==
    ASSUME ConfigIInv, TypeOK, next <= Len(processors[ActiveSide]),
           Current.op \in {"set-header", "set-metadata"}
    PROVE  1 \in DOMAIN Current.values
<1>1. Current \in Processor /\ Len(Current.values) = 1
  BY OperationAt
<1>2. Current.values \in Seq(STRING)
  BY <1>1 DEF Processor
<1>3. QED
  BY <1>1, <1>2, LenProperties

\* How an operation ends: by an exception or with an error, which have a reason,
\* or with its work done.
LEMMA SetHeaderEnds ==
    ASSUME StreamIInv, ExecuteSetHeader, NEW v, v = Current.values[1]
    PROVE  /\ Executing /\ next <= Len(processors[ActiveSide]) /\ appending = NotAppending
           /\ Current.op = "set-header" /\ ConfigIInv /\ TypeOK
           /\ Key \in Result /\ Value(v) \in Result
           /\ \/ /\ Escape
                 /\ \E t \in {Current.target} \cup Range(Current.values) : PositionThrows(t)
              \/ Return("failed") /\ Cause(ActiveSide)
              \/ /\ Advance
                 /\ headers' = [headers EXCEPT ![ActiveSide] =
                                    setCopy(@, LowerCaseString(Key.text), Value(v).text)]
                 /\ UNCHANGED <<path, metadata, appending>>
<1>1. /\ Executing /\ next <= Len(processors[ActiveSide])
      /\ Current.op = "set-header" /\ appending = NotAppending /\ ConfigIInv /\ TypeOK
  BY DEF ExecuteSetHeader, Applies, At, AtProcessor, StreamIInv
<1>2. /\ Key \in Result
      /\ Key.status = "throw" => PositionThrows(Current.target)
      /\ Key.status = "error" => Cause(ActiveSide)
  BY <1>1, KeyOfOperation
<1>3. /\ v \in {Current.target} \cup Range(Current.values)
      /\ Value(v) \in Result
      /\ Value(v).status = "throw" => PositionThrows(v)
      /\ Value(v).status = "error" => Cause(ActiveSide)
  BY <1>1, OnlyValue, ValueOfOperation
<1>4. Key.status \in {"ok", "error", "throw"} /\ Value(v).status \in {"ok", "error", "throw"}
  BY <1>2, <1>3 DEF Result
<1>5. \/ (Key.status = "throw" \/ Value(v).status = "throw") /\ Escape
      \/ (Key.status = "error" \/ Value(v).status = "error") /\ Return("failed")
      \/ /\ Advance
         /\ headers' = [headers EXCEPT ![ActiveSide] =
                            setCopy(@, LowerCaseString(Key.text), Value(v).text)]
         /\ UNCHANGED <<path, metadata, appending>>
  BY <1>4 DEF ExecuteSetHeader
<1>6. QED
  BY <1>1, <1>2, <1>3, <1>5

LEMMA ExecuteSetHeaderStep == ASSUME StreamIInv, ExecuteSetHeader PROVE StreamIInv'
<1>1. PICK v : v = Current.values[1]
  OBVIOUS
<1>2. /\ Executing /\ next <= Len(processors[ActiveSide]) /\ appending = NotAppending
      /\ Current.op = "set-header" /\ ConfigIInv /\ TypeOK
      /\ Key \in Result /\ Value(v) \in Result
      /\ \/ /\ Escape
            /\ \E t \in {Current.target} \cup Range(Current.values) : PositionThrows(t)
         \/ Return("failed") /\ Cause(ActiveSide)
         \/ /\ Advance
            /\ headers' = [headers EXCEPT ![ActiveSide] =
                               setCopy(@, LowerCaseString(Key.text), Value(v).text)]
            /\ UNCHANGED <<path, metadata, appending>>
  BY <1>1, SetHeaderEnds
<1>3. CASE /\ Escape
           /\ \E t \in {Current.target} \cup Range(Current.values) : PositionThrows(t)
  BY <1>2, <1>3, EscapeStep
<1>4. CASE Return("failed") /\ Cause(ActiveSide)
  BY <1>2, <1>4, ReturnStep
<1>5. CASE /\ Advance
           /\ headers' = [headers EXCEPT ![ActiveSide] =
                              setCopy(@, LowerCaseString(Key.text), Value(v).text)]
           /\ UNCHANGED <<path, metadata, appending>>
  <2>1. /\ UNCHANGED <<phase, outcome, arrived, configVars>>
        /\ next' \in Nat \ {0} /\ appending' \in [key : Text, count : Nat \cup {-1}]
        /\ AtOperationOfSide'
    BY <1>2, <1>5, Advanced
  <2>2. LowerCaseString(Key.text) \in Text /\ Value(v).text \in Text
    BY <1>2, LowerCaseIsText DEF Result
  <2>3. HeaderMap(headers[ActiveSide])
    BY <1>2, Sided DEF TypeOK
  <2> DEFINE h == setCopy(headers[ActiveSide], LowerCaseString(Key.text), Value(v).text)
  <2>4. HeaderMap(h)
    BY <2>2, <2>3, WithIsHeaderMap DEF setCopy
  <2>5. headers' = [headers EXCEPT ![ActiveSide] = h]
    BY <1>5
  <2> HIDE DEF h
  <2>6. MessageFits' /\ \A s \in Sides \ {ActiveSide} : headers'[s] = headers[s]
    BY <1>5, <2>1, <2>4, <2>5, HeadersWorked
  <2>7. QED
    BY <1>2, <2>1, <2>6, WorkStep
<1>6. QED
  BY <1>2, <1>3, <1>4, <1>5

LEMMA BeginAppendEnds ==
    ASSUME StreamIInv, BeginAppend
    PROVE  /\ Executing /\ next <= Len(processors[ActiveSide])
           /\ Current.op = "append-header" /\ ConfigIInv /\ TypeOK
           /\ Key \in Result
           /\ \/ /\ Escape
                 /\ \E t \in {Current.target} \cup Range(Current.values) : PositionThrows(t)
              \/ Return("failed") /\ Cause(ActiveSide)
              \/ /\ appending' = [key |-> LowerCaseString(Key.text), count |-> 0]
                 /\ UNCHANGED <<phase, next, message, outcome, arrived, configVars>>
<1>1. /\ Executing /\ next <= Len(processors[ActiveSide])
      /\ Current.op = "append-header" /\ ConfigIInv /\ TypeOK
  BY DEF BeginAppend, Applies, At, AtProcessor, StreamIInv
<1>2. /\ Key \in Result
      /\ Key.status = "throw" => PositionThrows(Current.target)
      /\ Key.status = "error" => Cause(ActiveSide)
  BY <1>1, KeyOfOperation
<1>3. Key.status \in {"ok", "error", "throw"}
  BY <1>2 DEF Result
<1>4. \/ Key.status = "throw" /\ Escape
      \/ Key.status = "error" /\ Return("failed")
      \/ /\ appending' = [key |-> LowerCaseString(Key.text), count |-> 0]
         /\ UNCHANGED <<phase, next, message, outcome, arrived, configVars>>
  BY <1>3 DEF BeginAppend
<1>5. QED
  BY <1>1, <1>2, <1>4

LEMMA BeginAppendStep == ASSUME StreamIInv, BeginAppend PROVE StreamIInv'
<1>1. /\ Executing /\ next <= Len(processors[ActiveSide])
      /\ Current.op = "append-header" /\ ConfigIInv /\ TypeOK
      /\ Key \in Result
      /\ \/ /\ Escape
            /\ \E t \in {Current.target} \cup Range(Current.values) : PositionThrows(t)
         \/ Return("failed") /\ Cause(ActiveSide)
         \/ /\ appending' = [key |-> LowerCaseString(Key.text), count |-> 0]
            /\ UNCHANGED <<phase, next, message, outcome, arrived, configVars>>
  BY BeginAppendEnds
<1>2. CASE /\ Escape
           /\ \E t \in {Current.target} \cup Range(Current.values) : PositionThrows(t)
  BY <1>1, <1>2, EscapeStep
<1>3. CASE Return("failed") /\ Cause(ActiveSide)
  BY <1>1, <1>3, ReturnStep
<1>4. CASE /\ appending' = [key |-> LowerCaseString(Key.text), count |-> 0]
           /\ UNCHANGED <<phase, next, message, outcome, arrived, configVars>>
  <2>1. LowerCaseString(Key.text) \in Text
    BY <1>1, LowerCaseIsText DEF Result
  <2>2. appending' \in [key : Text, count : Nat \cup {-1}] /\ appending'.count = 0
    BY <1>4, <2>1
  <2>3. next' \in Nat \ {0}
    BY <1>1, <1>4 DEF TypeOK
  <2>4. Current' = Current /\ ActiveSide' = ActiveSide /\ Len(processors[ActiveSide])' = Len(processors[ActiveSide])
    BY <1>4 DEF Current, ActiveSide, configVars
  <2>5. PICK n \in Nat : n = Len(Current.values)
    <3>1. Current.values \in Seq(STRING)
      BY <1>1, OperationAt DEF Processor
    <3>2. QED
      BY <3>1, LenProperties
  <2>6. 0 \in 0 .. Len(Current.values)
    BY <2>5
  <2>7. outcome[ActiveSide] = "none" /\ next <= Len(processors[ActiveSide]) + 1
    BY <1>1 DEF StreamIInv, AtOperationOfSide
  <2>8. AtOperationOfSide'
    BY <1>1, <1>4, <2>2, <2>4, <2>6, <2>7 DEF AtOperationOfSide
  <2>9. MessageFits' /\ \A s \in Sides \ {ActiveSide} : headers'[s] = headers[s]
    <3>1. path' \in Path /\ HeaderMap(metadata') /\ UNCHANGED <<headers, path, metadata, arrived>>
      BY <1>1, <1>4 DEF TypeOK, message
    <3>2. QueryStringKept' /\ MetadataHasValues'
      BY <3>1 DEF StreamIInv, QueryStringKept, MetadataHasValues
    <3>3. QED
      BY <3>1, <3>2, OtherWorked
  <2>10. QED
    BY <1>1, <1>4, <2>2, <2>3, <2>8, <2>9, WorkStep
<1>5. QED
  BY <1>1, <1>2, <1>3, <1>4

\* Inside an append-header.
LEMMA InsideAppend ==
    ASSUME StreamIInv, InAppend
    PROVE  /\ Executing /\ next <= Len(processors[ActiveSide]) /\ ConfigIInv /\ TypeOK
           /\ Current.op = "append-header"
           /\ appending.count \in 0 .. Len(Current.values)
           /\ outcome[ActiveSide] = "none"
           /\ appending.key \in Text
           /\ Len(Current.values) \in Nat
           /\ DOMAIN Current.values = 1 .. Len(Current.values)
<1>1. /\ Executing /\ next <= Len(processors[ActiveSide]) /\ ConfigIInv /\ TypeOK
      /\ Current.op = "append-header"
      /\ appending.count \in 0 .. Len(Current.values)
      /\ outcome[ActiveSide] = "none"
  BY DEF InAppend, StreamIInv, AtOperationOfSide
<1>2. appending.key \in Text
  BY <1>1 DEF TypeOK
<1>3. Current.values \in Seq(STRING)
  BY <1>1, OperationAt DEF Processor
<1>4. QED
  BY <1>1, <1>2, <1>3, LenProperties

LEMMA AppendValueEnds ==
    ASSUME StreamIInv, AppendValue, NEW v, v = Current.values[appending.count + 1]
    PROVE  /\ Value(v) \in Result
           /\ \/ /\ Escape
                 /\ \E t \in {Current.target} \cup Range(Current.values) : PositionThrows(t)
              \/ Return("failed") /\ Cause(ActiveSide)
              \/ /\ headers' = [headers EXCEPT ![ActiveSide] =
                                    appendCopy(@, appending.key, Value(v).text)]
                 /\ appending' = [appending EXCEPT !.count = @ + 1]
                 /\ UNCHANGED <<phase, next, path, metadata, outcome, arrived, configVars>>
<1>1. InAppend /\ appending.count < Len(Current.values)
  BY DEF AppendValue
<1>2. /\ next <= Len(processors[ActiveSide]) /\ ConfigIInv /\ TypeOK
      /\ appending.count \in 0 .. Len(Current.values)
      /\ Len(Current.values) \in Nat
      /\ DOMAIN Current.values = 1 .. Len(Current.values)
  BY <1>1, InsideAppend
<1>3. appending.count + 1 \in DOMAIN Current.values
  BY <1>1, <1>2
<1>4. /\ v \in {Current.target} \cup Range(Current.values)
      /\ Value(v) \in Result
      /\ Value(v).status = "throw" => PositionThrows(v)
      /\ Value(v).status = "error" => Cause(ActiveSide)
  BY <1>2, <1>3, ValueOfOperation
<1>5. Value(v).status \in {"ok", "error", "throw"}
  BY <1>4 DEF Result
<1>6. \/ Value(v).status = "throw" /\ Escape
      \/ Value(v).status = "error" /\ Return("failed")
      \/ /\ headers' = [headers EXCEPT ![ActiveSide] = appendCopy(@, appending.key, Value(v).text)]
         /\ appending' = [appending EXCEPT !.count = @ + 1]
         /\ UNCHANGED <<phase, next, path, metadata, outcome, arrived, configVars>>
  BY <1>5 DEF AppendValue
<1>7. QED
  BY <1>4, <1>6

LEMMA AppendValueStep == ASSUME StreamIInv, AppendValue PROVE StreamIInv'
<1> DEFINE i == appending.count + 1
<1>1. InAppend /\ appending.count < Len(Current.values)
  BY DEF AppendValue
<1>2. /\ Executing /\ next <= Len(processors[ActiveSide]) /\ ConfigIInv /\ TypeOK
      /\ Current.op = "append-header"
      /\ appending.count \in 0 .. Len(Current.values)
      /\ outcome[ActiveSide] = "none"
      /\ appending.key \in Text
      /\ Len(Current.values) \in Nat
      /\ DOMAIN Current.values = 1 .. Len(Current.values)
  BY <1>1, InsideAppend
<1>3. i \in 0 .. Len(Current.values)
  BY <1>1, <1>2
<1>4. PICK v : v = Current.values[i]
  OBVIOUS
<1>5. /\ Value(v) \in Result
      /\ \/ /\ Escape
            /\ \E t \in {Current.target} \cup Range(Current.values) : PositionThrows(t)
         \/ Return("failed") /\ Cause(ActiveSide)
         \/ /\ headers' = [headers EXCEPT ![ActiveSide] =
                               appendCopy(@, appending.key, Value(v).text)]
            /\ appending' = [appending EXCEPT !.count = @ + 1]
            /\ UNCHANGED <<phase, next, path, metadata, outcome, arrived, configVars>>
  BY <1>4, AppendValueEnds
<1>6. CASE /\ Escape
           /\ \E t \in {Current.target} \cup Range(Current.values) : PositionThrows(t)
  BY <1>2, <1>6, EscapeStep
<1>7. CASE Return("failed") /\ Cause(ActiveSide)
  BY <1>2, <1>7, ReturnStep
<1>8. CASE /\ headers' = [headers EXCEPT ![ActiveSide] =
                              appendCopy(@, appending.key, Value(v).text)]
           /\ appending' = [appending EXCEPT !.count = @ + 1]
           /\ UNCHANGED <<phase, next, path, metadata, outcome, arrived, configVars>>
  <2>1. appending \in [key : Text, count : Nat \cup {-1}] /\ next \in Nat \ {0}
    BY <1>2 DEF TypeOK
  <2>2. i \in Nat
    BY <1>2
  <2>3. appending' \in [key : Text, count : Nat \cup {-1}] /\ appending'.count = i
    BY <1>8, <2>1, <2>2
  <2>4. Current' = Current /\ ActiveSide' = ActiveSide /\ Len(processors[ActiveSide])' = Len(processors[ActiveSide])
    BY <1>8 DEF Current, ActiveSide, configVars
  <2>5. next <= Len(processors[ActiveSide]) + 1
    BY <1>2 DEF StreamIInv, AtOperationOfSide
  <2>6. AtOperationOfSide'
    BY <1>2, <1>3, <1>8, <2>3, <2>4, <2>5 DEF AtOperationOfSide
  <2> DEFINE old == Lookup(headers[ActiveSide], appending.key)
             h == With(headers[ActiveSide], appending.key, old \o Value(v).text)
  <2>7. HeaderMap(headers[ActiveSide])
    BY <1>2, Sided DEF TypeOK
  <2>8. old \o Value(v).text \in Text
    <3>1. old \in Text
      BY <2>7, HeaderMapGives, LookupIsText
    <3>2. Value(v).text \in Text
      BY <1>5 DEF Result
    <3> HIDE DEF old
    <3>3. QED
      BY <3>1, <3>2, ConcatIsText
  <2>9. HeaderMap(h)
    BY <1>2, <2>7, <2>8, WithIsHeaderMap
  <2>10. headers' = [headers EXCEPT ![ActiveSide] = h]
    BY <1>8 DEF appendCopy
  <2> HIDE DEF h
  <2>11. MessageFits' /\ \A s \in Sides \ {ActiveSide} : headers'[s] = headers[s]
    BY <1>8, <2>9, <2>10, HeadersWorked
  <2>12. QED
    BY <1>2, <1>8, <2>1, <2>3, <2>6, <2>11, WorkStep
<1>9. QED
  BY <1>5, <1>6, <1>7, <1>8

LEMMA EndAppendStep == ASSUME StreamIInv, EndAppend PROVE StreamIInv'
<1>1. /\ Executing /\ next <= Len(processors[ActiveSide]) /\ TypeOK
      /\ Advance /\ appending' = NotAppending /\ UNCHANGED message
  BY InsideAppend DEF EndAppend
<1>2. /\ UNCHANGED <<phase, outcome, arrived, configVars>>
      /\ next' \in Nat \ {0} /\ appending' \in [key : Text, count : Nat \cup {-1}]
      /\ AtOperationOfSide'
  BY <1>1, Advanced
<1>3. MessageFits' /\ \A s \in Sides \ {ActiveSide} : headers'[s] = headers[s]
  <2>1. path' \in Path /\ HeaderMap(metadata') /\ UNCHANGED <<headers, path, metadata, arrived>>
    BY <1>1, <1>2 DEF TypeOK, message
  <2>2. QueryStringKept' /\ MetadataHasValues'
    BY <2>1 DEF StreamIInv, QueryStringKept, MetadataHasValues
  <2>3. QED
    BY <2>1, <2>2, OtherWorked
<1>4. QED
  BY <1>1, <1>2, <1>3, WorkStep

\* The end of a sequence is the end of what is put in front of that sequence.
LEMMA SuffixKept ==
    ASSUME NEW S, NEW p \in Seq(S), NEW q \in Seq(S), NEW n \in 0 .. Len(q)
    PROVE  /\ Len(p \o q) >= Len(q)
           /\ SubSeq(p \o q, Len(p \o q) - n + 1, Len(p \o q))
                = SubSeq(q, Len(q) - n + 1, Len(q))
<1>1. PICK k \in Nat, m \in Nat : k = Len(p) /\ m = Len(q)
  BY LenProperties
<1>2. Len(p \o q) = k + m
  BY <1>1, ConcatProperties
<1>3. SubSeq(p \o q, k + m - n + 1, k + m) = SubSeq(q, m - n + 1, m)
  <2>1. CASE n = 0
    <3>1. SubSeq(p \o q, k + m - n + 1, k + m) = <<>> /\ SubSeq(q, m - n + 1, m) = <<>>
      BY <1>1, <2>1, SubSeqEmpty
    <3>2. QED
      BY <3>1
  <2>2. CASE n # 0
    <3>1. k + m - n + 1 \in Len(p) + 1 .. Len(p) + Len(q) /\ k + m \in Len(p) + 1 .. Len(p) + Len(q)
      BY <1>1, <2>2
    <3>2. SubSeq(p \o q, k + m - n + 1, k + m)
            = SubSeq(q, k + m - n + 1 - Len(p), k + m - Len(p))
      BY <3>1, SubSeqOfConcat2
    <3>3. k + m - n + 1 - Len(p) = m - n + 1 /\ k + m - Len(p) = m
      BY <1>1
    <3>4. QED
      BY <3>2, <3>3
  <2>3. QED
    BY <2>1, <2>2
<1>4. QED
  BY <1>1, <1>2, <1>3

LEMMA PathOfText == ASSUME NEW x \in Text PROVE PathOf(x) \in Path
<1>1. CASE x \in DOMAIN PathForm
  BY <1>1, PathFormAssumption DEF PathOf
<1>2. CASE x \notin DOMAIN PathForm
  BY <1>2, EmptySeq DEF PathOf, Path
<1>3. QED
  BY <1>1, <1>2

\* The new path ends in the old one's query string.
LEMMA NewPathKeepsQuery ==
    ASSUME NEW x \in Text, path \in Path
    PROVE  NewPath(x) \in Path /\ NewPath(x).query = PathOf(x).query \o path.query
<1>1. /\ PathOf(x) \in Path
      /\ PathOf(x).query \in Seq(DOMAIN Params) /\ path.query \in Seq(DOMAIN Params)
  BY PathOfText DEF Path
<1>2. PathOf(x).query \o path.query \in Seq(DOMAIN Params)
  BY <1>1, ConcatProperties
<1>3. QED
  BY <1>1, <1>2 DEF NewPath, Path

LEMMA ExecuteSetPathStep == ASSUME StreamIInv, ExecuteSetPath PROVE StreamIInv'
<1>1. /\ Executing /\ next <= Len(processors[ActiveSide])
      /\ Current.op = "set-path" /\ appending = NotAppending /\ ConfigIInv /\ TypeOK
  BY DEF ExecuteSetPath, At, AtProcessor, StreamIInv
<1>2. /\ Key \in Result
      /\ Key.status = "throw" => PositionThrows(Current.target)
  BY <1>1, KeyOfOperation
<1>3. CASE Key.status = "throw"
  <2>1. Escape
    BY <1>3 DEF ExecuteSetPath
  <2>2. QED
    BY <1>1, <1>2, <1>3, <2>1, EscapeStep
<1>4. CASE Key.status # "throw"
  <2>1. /\ path' = IF Condition.value THEN NewPath(Key.text) ELSE path
        /\ Advance /\ UNCHANGED <<headers, metadata, appending>>
    BY <1>4 DEF ExecuteSetPath
  <2>2. /\ UNCHANGED <<phase, outcome, arrived, configVars>>
        /\ next' \in Nat \ {0} /\ appending' \in [key : Text, count : Nat \cup {-1}]
        /\ AtOperationOfSide'
    BY <1>1, <2>1, Advanced
  <2>3. /\ path \in Path /\ arrived.path \in Path
        /\ path.query \in Seq(DOMAIN Params) /\ arrived.path.query \in Seq(DOMAIN Params)
    BY <1>1 DEF TypeOK, Path
  <2>4. path' \in Path /\ QueryStringKept'
    <3>1. CASE path' = path
      BY <2>2, <2>3, <3>1 DEF StreamIInv, QueryStringKept
    <3>2. CASE path' = NewPath(Key.text)
      <4>1. Key.text \in Text
        BY <1>2 DEF Result
      <4>2. path' \in Path /\ path'.query = PathOf(Key.text).query \o path.query
        BY <2>3, <3>2, <4>1, NewPathKeepsQuery
      <4>3. PathOf(Key.text).query \in Seq(DOMAIN Params)
        BY <4>1, PathOfText DEF Path
      <4>4. /\ Len(path.query) - Len(arrived.path.query) >= 0
            /\ SubSeq(path.query, Len(path.query) - Len(arrived.path.query) + 1, Len(path.query))
                 = arrived.path.query
        BY DEF StreamIInv, QueryStringKept
      <4>5. /\ Len(path'.query) - Len(arrived.path.query) >= 0
            /\ SubSeq(path'.query, Len(path'.query) - Len(arrived.path.query) + 1, Len(path'.query))
                 = arrived.path.query
        <5>1. PICK p \in Seq(DOMAIN Params), q \in Seq(DOMAIN Params), a \in Seq(DOMAIN Params) :
                /\ p = PathOf(Key.text).query /\ q = path.query /\ a = arrived.path.query
                /\ p \o q = path'.query
          BY <2>3, <4>2, <4>3
        <5>2. PICK k \in Nat, m \in Nat, n \in Nat : k = Len(p \o q) /\ m = Len(q) /\ n = Len(a)
          BY LenProperties, ConcatProperties
        <5>3. n \in 0 .. m
          BY <4>4, <5>1, <5>2
        <5>4. k >= m /\ SubSeq(p \o q, k - n + 1, k) = SubSeq(q, m - n + 1, m)
          BY <5>2, <5>3, SuffixKept
        <5>5. SubSeq(q, m - n + 1, m) = a
          BY <4>4, <5>1, <5>2
        <5>6. k - n >= 0
          BY <5>3, <5>4
        <5>7. Len(p \o q) - Len(a) >= 0 /\ SubSeq(p \o q, Len(p \o q) - Len(a) + 1, Len(p \o q)) = a
          BY <5>2, <5>4, <5>5, <5>6
        <5>8. QED
          BY <5>1, <5>7
      <4>6. QED
        BY <2>2, <4>2, <4>5 DEF QueryStringKept
    <3>3. QED
      BY <2>1, <3>1, <3>2
  <2>5. HeaderMap(metadata') /\ MetadataHasValues'
    BY <1>1, <2>1 DEF TypeOK, StreamIInv, MetadataHasValues
  <2>6. MessageFits' /\ \A s \in Sides \ {ActiveSide} : headers'[s] = headers[s]
    BY <2>1, <2>2, <2>4, <2>5, OtherWorked
  <2>7. QED
    BY <1>1, <2>2, <2>6, WorkStep
<1>5. QED
  BY <1>3, <1>4

LEMMA ExecuteSetMetadataStep == ASSUME StreamIInv, ExecuteSetMetadata PROVE StreamIInv'
<1> DEFINE v == Current.values[1]
<1>1. /\ Executing /\ next <= Len(processors[ActiveSide])
      /\ Current.op = "set-metadata" /\ appending = NotAppending /\ ConfigIInv /\ TypeOK
  BY DEF ExecuteSetMetadata, Applies, At, AtProcessor, StreamIInv
<1>2. Key \in Result /\ Value(v) \in Result
  BY <1>1, KeyOfOperation, OnlyValue, ValueOfOperation
<1> HIDE DEF v
<1>3. CASE IsValue(Key) /\ IsValue(Value(v))
  <2>1. /\ metadata' = With(metadata, Key.text, Value(v).text)
        /\ Advance /\ UNCHANGED <<headers, path, appending>>
    BY <1>3 DEF ExecuteSetMetadata, mergeStruct, v
  <2>2. /\ UNCHANGED <<phase, outcome, arrived, configVars>>
        /\ next' \in Nat \ {0} /\ appending' \in [key : Text, count : Nat \cup {-1}]
        /\ AtOperationOfSide'
    BY <1>1, <2>1, Advanced
  <2>3. /\ Key.text \in Text /\ Key.text # <<>>
        /\ Value(v).text \in Text /\ Value(v).text # <<>>
    BY <1>2, <1>3 DEF IsValue, Result
  <2>4. HeaderMap(metadata) /\ path \in Path
    BY <1>1 DEF TypeOK
  <2>5. HeaderMap(metadata')
    BY <2>1, <2>3, <2>4, WithIsHeaderMap
  <2>6. MetadataHasValues'
    <3> DEFINE m == With(metadata, Key.text, Value(v).text)
    <3>1. \A k \in DOMAIN metadata : k # <<>> /\ metadata[k] # <<>>
      BY DEF StreamIInv, MetadataHasValues
    <3>2. /\ DOMAIN m = DOMAIN metadata \cup {Key.text}
          /\ m[Key.text] = Value(v).text
          /\ \A k \in DOMAIN metadata : k # Key.text => m[k] = metadata[k]
      BY DEF With
    <3>3. metadata' = m
      BY <2>1
    <3> HIDE DEF m
    <3>4. \A k \in DOMAIN m : k # <<>> /\ m[k] # <<>>
      BY <2>3, <3>1, <3>2
    <3>5. QED
      BY <3>3, <3>4 DEF MetadataHasValues
  <2>7. path' \in Path /\ QueryStringKept'
    BY <2>1, <2>2, <2>4 DEF StreamIInv, QueryStringKept
  <2>8. MessageFits' /\ \A s \in Sides \ {ActiveSide} : headers'[s] = headers[s]
    BY <2>1, <2>2, <2>5, <2>6, <2>7, OtherWorked
  <2>9. QED
    BY <1>1, <2>1, <2>2, <2>8, WorkStep
<1>4. CASE ~(IsValue(Key) /\ IsValue(Value(v)))
  <2>1. Return("failed")
    BY <1>4 DEF ExecuteSetMetadata, v
  <2>2. Cause(ActiveSide)
    <3>1. /\ next \in DOMAIN processors[ActiveSide]
          /\ v \in {Current.target} \cup Range(Current.values)
      BY <1>1, OperationAt, OnlyValue, ValueOfOperation DEF v
    <3>2. PICK t \in {Current.target} \cup Range(Current.values) : ~IsValue(Value(t))
      BY <1>4, <3>1 DEF Key
    <3>3. /\ Value(t) \in Result
          /\ Value(t).status = "throw" => PositionThrows(t)
          /\ Value(t).status = "error" => Cause(ActiveSide)
          /\ Value(t).status = "ok" /\ Value(t).text = <<>> =>
               MayFindNothing(t, headers[ActiveSide])
      BY <1>1, TokenEvaluated
    <3>4. CASE Value(t).status = "error"
      BY <3>3, <3>4
    <3>5. CASE MayFindNothing(t, headers[ActiveSide])
      BY <1>1, <3>1, <3>5 DEF Cause, NameOrValueMissing, Current
    <3>6. PositionThrows(t) => MayFindNothing(t, headers[ActiveSide])
      BY DEF PositionThrows, MayFindNothing
    <3>7. QED
      BY <3>2, <3>3, <3>4, <3>5, <3>6 DEF IsValue, Result
  <2>3. QED
    BY <1>1, <2>1, <2>2, ReturnStep
<1>5. QED
  BY <1>3, <1>4

----------------------------------------------------------------------------
\* The calls of the filter chain.

LEMMA InitStreamIInv == Init => StreamIInv
<1> SUFFICES ASSUME Init PROVE StreamIInv
  OBVIOUS
<1>1. ConfigIInv
  BY InitConfigIInv DEF Init
<1>2. /\ <<>> \in Text /\ HeaderMap(<<>>) /\ NoPath \in Path
      /\ NotAppending \in [key : Text, count : Nat \cup {-1}]
  BY EmptySeq, EmptyHeaderMap DEF Text, Path, NoPath, NotAppending
<1>3. TypeOK
  <2>1. ConfigTypeOK
    BY <1>1 DEF ConfigIInv
  <2>2. /\ headers \in [Sides -> {headers[s] : s \in Sides}]
        /\ \A s \in Sides : HeaderMap(headers[s])
    BY <1>2 DEF Init, NoHeaders
  <2>3. outcome \in [Sides -> {"none", "skipped", "finished", "failed"}]
    BY DEF Init
  <2>4. /\ arrived \in [headers : {arrived.headers}, path : Path, metadata : {arrived.metadata}]
        /\ arrived.headers \in [Sides -> {arrived.headers[s] : s \in Sides}]
    BY <1>2 DEF Init, NoHeaders
  <2>5. QED
    BY <1>2, <2>1, <2>2, <2>3, <2>4 DEF Init, TypeOK
<1>4. HandlersAfterConstruction /\ AtRest /\ UntouchedAsArrived /\ AtOperationOfSide
  BY DEF Init, ConfigInit, HandlersAfterConstruction, AtRest, UntouchedAsArrived,
         AtOperationOfSide, Executing
<1>5. QueryStringKept
  <2>1. path.query = <<>> /\ arrived.path.query = <<>>
    BY DEF Init, NoPath
  <2>2. Len(<<>>) = 0 /\ SubSeq(<<>>, 1, 0) = <<>>
    BY SubSeqEmpty, EmptySeq
  <2>3. QED
    BY <2>1, <2>2 DEF QueryStringKept
<1>6. OnlyPositionsEscape /\ FailureHasCause /\ MetadataHasValues
  BY DEF Init, OnlyPositionsEscape, FailureHasCause, MetadataHasValues
<1>7. QED
  BY <1>1, <1>3, <1>4, <1>5, <1>6 DEF StreamIInv

LEMMA ConstructStep == ASSUME StreamIInv, Construct, UNCHANGED streamVars PROVE StreamIInv'
<1>1. construction = "running"
  BY DEF Construct, RejectLine, ParseSetHeader, ParseSetMetadata, ParseAppendHeader, ParseSetPath,
         SetBoolThrows, ParseSetBool, FinishConstruction, AtOperation, AtLine
<1>2. UNCHANGED <<phase, next, appending, headers, path, metadata, outcome, arrived>>
  BY DEF streamVars
<1>3. phase = "idle" /\ outcome = [s \in Sides |-> "none"] /\ TypeOK
  BY <1>1 DEF StreamIInv, HandlersAfterConstruction
<1>4. ConfigIInv'
  BY ConstructConfigIInv DEF StreamIInv
<1>5. TypeOK'
  BY <1>2, <1>3, <1>4 DEF TypeOK, ConfigIInv
<1>6. HandlersAfterConstruction' /\ AtRest' /\ UntouchedAsArrived' /\ AtOperationOfSide'
  BY <1>2, <1>3 DEF StreamIInv, HandlersAfterConstruction, AtRest, UntouchedAsArrived,
                    AtOperationOfSide, Executing
<1>7. QueryStringKept' /\ MetadataHasValues'
  BY <1>2 DEF StreamIInv, QueryStringKept, MetadataHasValues
<1>8. OnlyPositionsEscape' /\ FailureHasCause'
  BY <1>2, <1>3 DEF OnlyPositionsEscape, FailureHasCause
<1>9. QED
  BY <1>4, <1>5, <1>6, <1>7, <1>8 DEF StreamIInv

LEMMA DecodeHeadersStep == ASSUME StreamIInv, DecodeHeaders PROVE StreamIInv'
<1>1. PICK r \in Requests :
        /\ headers' = [headers EXCEPT !["http-request"] = r.headers]
        /\ path' = r.path
        /\ arrived' = [arrived EXCEPT !.headers["http-request"] = r.headers, !.path = r.path]
  BY DEF DecodeHeaders
<1>2. HeaderMap(r.headers) /\ r.path \in Path
  BY RequestsAssumption
<1>3. /\ construction = "done" /\ phase = "idle" /\ "http-request" \in Sides
      /\ phase' = IF error THEN "decoded" ELSE "decoding"
      /\ outcome' = [outcome EXCEPT !["http-request"] = IF error THEN "skipped" ELSE "none"]
      /\ UNCHANGED <<next, appending, metadata, config, line, construction, error, processors,
                     bools>>
  BY DEF DecodeHeaders, Enter, configVars, Sides
<1>4. /\ ConfigIInv /\ TypeOK
      /\ outcome = [s \in Sides |-> "none"] /\ next = 1 /\ appending = NotAppending
      /\ headers = arrived.headers /\ path = arrived.path /\ metadata = <<>>
  BY <1>3 DEF StreamIInv, HandlersAfterConstruction, AtRest, UntouchedAsArrived
<1>5. headers' = arrived'.headers /\ path' = arrived'.path
  BY <1>1, <1>4 DEF TypeOK
<1>6. ConfigIInv'
  BY <1>3, <1>4, ConfigKept DEF configVars
<1>7. TypeOK'
  <2>1. ConfigTypeOK'
    BY <1>6 DEF ConfigIInv
  <2>2. DOMAIN headers' = Sides /\ headers' = [s \in Sides |-> headers'[s]]
    BY <1>1, <1>4 DEF TypeOK
  <2>3. headers' \in [Sides -> {headers'[s] : s \in Sides}]
    BY <2>2
  <2>4. \A s \in Sides : HeaderMap(headers'[s])
    BY <1>1, <1>2, <1>4 DEF TypeOK
  <2>5. outcome' \in [Sides -> {"none", "skipped", "finished", "failed"}]
    BY <1>3, <1>4
  <2>6. arrived' \in [headers : {arrived'.headers}, path : Path, metadata : {arrived'.metadata}]
    BY <1>1, <1>2, <1>4 DEF TypeOK
  <2>7. arrived'.headers \in [Sides -> {arrived'.headers[s] : s \in Sides}]
    BY <1>5, <2>3
  <2>8. QED
    BY <1>1, <1>2, <1>3, <1>4, <2>1, <2>3, <2>4, <2>5, <2>6, <2>7 DEF TypeOK
<1>8. HandlersAfterConstruction' /\ UntouchedAsArrived' /\ AtRest'
  BY <1>3, <1>4, <1>5 DEF HandlersAfterConstruction, UntouchedAsArrived, AtRest
<1>9. AtOperationOfSide'
  <2>1. PICK n \in Nat : n = Len(processors["http-request"])
    BY <1>3, <1>4, LenProperties DEF TypeOK, ConfigTypeOK
  <2>2. 1 <= Len(processors["http-request"]) + 1
    BY <2>1
  <2>3. QED
    BY <1>3, <1>4, <2>2 DEF AtOperationOfSide, Executing, ActiveSide
<1>10. QueryStringKept'
  <2>1. PICK q \in Seq(DOMAIN Params) : q = path'.query
    BY <1>1, <1>2 DEF Path
  <2>2. Len(q) \in Nat /\ SubSeq(q, 1, Len(q)) = q
    BY LenProperties, SubSeqFull
  <2>3. Len(q) - Len(q) = 0 /\ SubSeq(q, 0 + 1, Len(q)) = q
    BY <2>2
  <2>4. path'.query = q /\ arrived'.path.query = q
    BY <1>5, <2>1
  <2>5. QED
    BY <2>3, <2>4 DEF QueryStringKept
<1>11. OnlyPositionsEscape' /\ FailureHasCause' /\ MetadataHasValues'
  BY <1>3, <1>4 DEF OnlyPositionsEscape, FailureHasCause, MetadataHasValues
<1>12. QED
  BY <1>6, <1>7, <1>8, <1>9, <1>10, <1>11 DEF StreamIInv

LEMMA EncodeHeadersStep == ASSUME StreamIInv, EncodeHeaders PROVE StreamIInv'
<1>1. PICK r \in Responses :
        /\ headers' = [headers EXCEPT !["http-response"] = r]
        /\ arrived' = [arrived EXCEPT !.headers["http-response"] = r, !.metadata = metadata]
  BY DEF EncodeHeaders
<1>2. HeaderMap(r)
  BY ResponsesAssumption
<1>3. /\ construction = "done" /\ phase \in {"idle", "decoded"} /\ "http-response" \in Sides
      /\ phase' = IF error THEN "encoded" ELSE "encoding"
      /\ outcome' = [outcome EXCEPT !["http-response"] = IF error THEN "skipped" ELSE "none"]
      /\ UNCHANGED <<next, appending, path, metadata, config, line, construction, error,
                     processors, bools>>
  BY DEF EncodeHeaders, Enter, configVars, Sides
<1>4. /\ ConfigIInv /\ TypeOK /\ next = 1 /\ appending = NotAppending
      /\ error => headers = arrived.headers /\ path = arrived.path /\ metadata = <<>>
  BY <1>3 DEF StreamIInv, AtRest, UntouchedAsArrived
<1>5. /\ arrived'.path = arrived.path
      /\ arrived'.headers = [arrived.headers EXCEPT !["http-response"] = r]
  BY <1>1, <1>4 DEF TypeOK
<1>6. ConfigIInv'
  BY <1>3, <1>4, ConfigKept DEF configVars
<1>7. TypeOK'
  <2>1. ConfigTypeOK'
    BY <1>6 DEF ConfigIInv
  <2>2. headers' = [s \in Sides |-> headers'[s]] /\ arrived'.headers = [s \in Sides |-> arrived'.headers[s]]
    BY <1>1, <1>4, <1>5 DEF TypeOK
  <2>3. /\ headers' \in [Sides -> {headers'[s] : s \in Sides}]
        /\ arrived'.headers \in [Sides -> {arrived'.headers[s] : s \in Sides}]
    BY <2>2
  <2>4. \A s \in Sides : HeaderMap(headers'[s])
    BY <1>1, <1>2, <1>4 DEF TypeOK
  <2>5. outcome' \in [Sides -> {"none", "skipped", "finished", "failed"}]
    BY <1>3, <1>4 DEF TypeOK
  <2>6. arrived' \in [headers : {arrived'.headers}, path : Path, metadata : {arrived'.metadata}]
    BY <1>1, <1>4 DEF TypeOK
  <2>7. QED
    BY <1>3, <1>4, <2>1, <2>3, <2>4, <2>5, <2>6 DEF TypeOK
<1>8. HandlersAfterConstruction' /\ AtRest'
  BY <1>3, <1>4 DEF HandlersAfterConstruction, AtRest
<1>9. UntouchedAsArrived'
  BY <1>1, <1>3, <1>4, <1>5 DEF UntouchedAsArrived
<1>10. AtOperationOfSide'
  <2>1. PICK n \in Nat : n = Len(processors["http-response"])
    BY <1>3, <1>4, LenProperties DEF TypeOK, ConfigTypeOK
  <2>2. 1 <= Len(processors["http-response"]) + 1
    BY <2>1
  <2>3. ~error => outcome'["http-response"] = "none"
    BY <1>3, <1>4 DEF TypeOK
  <2>4. QED
    BY <1>3, <1>4, <2>2, <2>3 DEF AtOperationOfSide, Executing, ActiveSide
<1>11. QueryStringKept' /\ OnlyPositionsEscape' /\ MetadataHasValues'
  BY <1>3, <1>5 DEF StreamIInv, QueryStringKept, OnlyPositionsEscape, MetadataHasValues
<1>12. FailureHasCause'
  <2> SUFFICES ASSUME NEW s \in Sides, outcome'[s] = "failed" PROVE Cause(s)'
    BY DEF FailureHasCause, Cause, NameOrValueMissing
  <2>1. s # "http-response" /\ outcome[s] = "failed" /\ headers'[s] = headers[s]
    BY <1>1, <1>3, <1>4 DEF TypeOK
  <2>2. Cause(s)' <=> Cause(s)
    BY <1>3, <2>1, CauseKept DEF configVars
  <2>3. QED
    BY <2>1, <2>2, FailureIsCause DEF StreamIInv
<1>13. QED
  BY <1>6, <1>7, <1>8, <1>9, <1>10, <1>11, <1>12 DEF StreamIInv

\* A stream that is destroyed, or does nothing, stays as it is.
LEMMA RestStep ==
    ASSUME StreamIInv, phase' = phase \/ (phase' = "destroyed" /\ construction = "done"),
           UNCHANGED <<next, appending, headers, path, metadata, outcome, arrived, config, line,
                       construction, error, processors, bools>>
    PROVE  StreamIInv'
<1>1. UNCHANGED <<next, appending, headers, path, metadata, outcome, arrived, config, line,
                  construction, error, processors, bools>>
  OBVIOUS
<1>2. ConfigIInv'
  BY <1>1, ConfigKept DEF StreamIInv, configVars
<1>3. TypeOK'
  BY <1>1, <1>2 DEF StreamIInv, TypeOK, ConfigIInv
<1>4. HandlersAfterConstruction' /\ UntouchedAsArrived' /\ AtRest'
  BY <1>1 DEF StreamIInv, HandlersAfterConstruction, UntouchedAsArrived, AtRest
<1>5. AtOperationOfSide'
  <2>1. CASE phase' = phase
    BY <1>1, <2>1 DEF StreamIInv, AtOperationOfSide, Executing, ActiveSide, Current
  <2>2. CASE phase' = "destroyed"
    BY <2>2 DEF AtOperationOfSide, Executing
  <2>3. QED
    BY <2>1, <2>2
<1>6. QueryStringKept' /\ OnlyPositionsEscape' /\ MetadataHasValues'
  BY <1>1 DEF StreamIInv, QueryStringKept, OnlyPositionsEscape, MetadataHasValues
<1>7. FailureHasCause'
  <2> SUFFICES ASSUME NEW s \in Sides, outcome'[s] = "failed" PROVE Cause(s)'
    BY DEF FailureHasCause, Cause, NameOrValueMissing
  <2>1. Cause(s)' <=> Cause(s)
    BY <1>1, CauseKept DEF configVars
  <2>2. QED
    BY <1>1, <2>1, FailureIsCause DEF StreamIInv
<1>8. QED
  BY <1>2, <1>3, <1>4, <1>5, <1>6, <1>7 DEF StreamIInv

----------------------------------------------------------------------------
LEMMA NextStreamIInv == ASSUME StreamIInv, [Next]_vars PROVE StreamIInv'
<1>1. CASE Construct /\ UNCHANGED streamVars
  BY <1>1, ConstructStep
<1>2. CASE DecodeHeaders
  BY <1>2, DecodeHeadersStep
<1>3. CASE EncodeHeaders
  BY <1>3, EncodeHeadersStep
<1>4. CASE OnDestroy
  BY <1>4, RestStep DEF OnDestroy, message, configVars
<1>5. CASE HandlerStep
  <2>1. CASE FinishHandler
    BY <2>1, FinishHandlerStep
  <2>2. CASE ConditionError
    BY <2>2, ConditionErrorStep
  <2>3. CASE SkipOperation
    BY <2>3, SkipOperationStep
  <2>4. CASE ExecuteSetHeader
    BY <2>4, ExecuteSetHeaderStep
  <2>5. CASE BeginAppend
    BY <2>5, BeginAppendStep
  <2>6. CASE AppendValue
    BY <2>6, AppendValueStep
  <2>7. CASE EndAppend
    BY <2>7, EndAppendStep
  <2>8. CASE ExecuteSetPath
    BY <2>8, ExecuteSetPathStep
  <2>9. CASE ExecuteSetMetadata
    BY <2>9, ExecuteSetMetadataStep
  <2>10. QED
    BY <1>5, <2>1, <2>2, <2>3, <2>4, <2>5, <2>6, <2>7, <2>8, <2>9 DEF HandlerStep
<1>6. CASE StreamEnded \/ UNCHANGED vars
  <2>1. /\ phase' = phase
        /\ UNCHANGED <<next, appending, headers, path, metadata, outcome, arrived, config, line,
                       construction, error, processors, bools>>
    BY <1>6 DEF StreamEnded, vars
  <2>2. QED
    BY <2>1, RestStep
<1>7. QED
  BY <1>1, <1>2, <1>3, <1>4, <1>5, <1>6 DEF Next

\* The inductive invariant holds of every behaviour of a stream, whatever the
\* configuration, the lexicon and the messages.
THEOREM StreamInvariant == Spec => []StreamIInv
BY InitStreamIInv, NextStreamIInv, PTL DEF Spec

\* The variables of a stream keep their types.
THEOREM StreamTypes == Spec => []TypeOK
<1>1. StreamIInv => TypeOK
  BY DEF StreamIInv
<1>2. QED
  BY <1>1, StreamInvariant, PTL

\* A configuration with a bad line leaves every message as it arrived, also
\* when lines above the bad one are already stored.
THEOREM BadConfigIsInert == Spec => []BadConfigChangesNothing
<1>1. StreamIInv => BadConfigChangesNothing
  BY DEF StreamIInv, UntouchedAsArrived, BadConfigChangesNothing
<1>2. QED
  BY <1>1, StreamInvariant, PTL

\* However many set-path operations run, the query string of the request stays
\* the end of its path.
THEOREM QueryStringSurvives == Spec => []QueryStringKept
<1>1. StreamIInv => QueryStringKept
  BY DEF StreamIInv
<1>2. QED
  BY <1>1, StreamInvariant, PTL

\* Only the position of an hdr call that is not a number ends a handler by an
\* exception, and none does in a condition or a set-metadata.
THEOREM ExceptionsArePositions == Spec => []OnlyPositionsEscape
<1>1. StreamIInv => OnlyPositionsEscape
  BY DEF StreamIInv
<1>2. QED
  BY <1>1, StreamInvariant, PTL

\* A handler that fails had a position out of its header's bounds, a variable
\* whose position is not a number, or a set-metadata without a name or a value.
THEOREM FailuresHaveCauses == Spec => []FailureHasCause
<1>1. StreamIInv => FailureHasCause
  BY DEF StreamIInv
<1>2. QED
  BY <1>1, StreamInvariant, PTL

\* No metadata is stored under the empty name or with the empty value.
THEOREM MetadataIsSet == Spec => []MetadataHasValues
<1>1. StreamIInv => MetadataHasValues
  BY DEF StreamIInv
<1>2. QED
  BY <1>1, StreamInvariant, PTL

----------------------------------------------------------------------------
\* What no step takes away.

\* What a step of a handler does: it leaves the message alone, or it works on one
\* part of it, as its operation says.
LEMMA HandlerWork ==
    ASSUME StreamIInv, HandlerStep
    PROVE  /\ Executing
           /\ \A s \in Sides \ {ActiveSide} : outcome'[s] = outcome[s]
           /\ \/ UNCHANGED <<headers, path, metadata>>
              \/ /\ Current.op = "set-header"
                 /\ \E k \in Text, x \in Text :
                      headers' = [headers EXCEPT ![ActiveSide] = setCopy(@, k, x)]
                 /\ UNCHANGED <<path, metadata>>
              \/ /\ \E k \in Text, x \in Text :
                      headers' = [headers EXCEPT ![ActiveSide] = appendCopy(@, k, x)]
                 /\ UNCHANGED <<path, metadata>>
              \/ ActiveSide = "http-request" /\ UNCHANGED <<headers, metadata>>
              \/ /\ \E k, x : metadata' = mergeStruct(metadata, k, x)
                 /\ UNCHANGED <<headers, path>>
<1>1. Executing
  BY InsideAppend DEF HandlerStep, FinishHandler, ConditionError, SkipOperation, ExecuteSetHeader,
       BeginAppend, AppendValue, EndAppend, ExecuteSetPath, ExecuteSetMetadata, AtProcessor, At,
       Applies
<1>2. outcome \in [Sides -> {"none", "skipped", "finished", "failed"}]
  BY DEF StreamIInv, TypeOK
<1>3. ASSUME Escape \/ Return("failed") \/ Return("finished")
      PROVE  /\ UNCHANGED <<headers, path, metadata>>
             /\ \A s \in Sides \ {ActiveSide} : outcome'[s] = outcome[s]
  BY <1>2, <1>3 DEF Escape, Return, message
<1>4. ASSUME Advance PROVE outcome' = outcome
  BY <1>4 DEF Advance
<1>5. CASE FinishHandler \/ ConditionError
  BY <1>1, <1>3, <1>5 DEF FinishHandler, ConditionError
<1>6. CASE SkipOperation \/ EndAppend
  BY <1>1, <1>4, <1>6 DEF SkipOperation, EndAppend, message
<1>7. CASE ExecuteSetHeader
  <2>1. PICK v : v = Current.values[1]
    OBVIOUS
  <2>2. /\ Current.op = "set-header"
        /\ Key \in Result /\ Value(v) \in Result
        /\ \/ Escape
           \/ Return("failed")
           \/ /\ Advance
              /\ headers' = [headers EXCEPT ![ActiveSide] =
                                 setCopy(@, LowerCaseString(Key.text), Value(v).text)]
              /\ UNCHANGED <<path, metadata, appending>>
    BY <1>7, <2>1, SetHeaderEnds
  <2>3. LowerCaseString(Key.text) \in Text /\ Value(v).text \in Text
    BY <2>2, LowerCaseIsText DEF Result
  <2>4. QED
    BY <1>1, <1>3, <1>4, <2>2, <2>3
<1>8. CASE BeginAppend
  <2>1. \/ Escape
        \/ Return("failed")
        \/ UNCHANGED <<phase, next, message, outcome, arrived, configVars>>
    BY <1>8, BeginAppendEnds
  <2>2. QED
    BY <1>1, <1>3, <2>1 DEF message
<1>9. CASE AppendValue
  <2>1. PICK v : v = Current.values[appending.count + 1]
    OBVIOUS
  <2>2. /\ Value(v) \in Result
        /\ \/ Escape
           \/ Return("failed")
           \/ /\ headers' = [headers EXCEPT ![ActiveSide] =
                                 appendCopy(@, appending.key, Value(v).text)]
              /\ UNCHANGED <<phase, next, path, metadata, outcome, arrived, configVars>>
    BY <1>9, <2>1, AppendValueEnds
  <2>3. appending.key \in Text /\ Value(v).text \in Text
    BY <1>9, <2>2, InsideAppend DEF AppendValue, Result
  <2>4. QED
    BY <1>1, <1>3, <2>2, <2>3
<1>10. CASE ExecuteSetPath
  <2>1. ActiveSide = "http-request"
    BY <1>10, OperationAt DEF ExecuteSetPath, At, AtProcessor, StreamIInv
  <2>2. Escape \/ (Advance /\ UNCHANGED <<headers, metadata, appending>>)
    BY <1>10 DEF ExecuteSetPath
  <2>3. QED
    BY <1>1, <1>3, <1>4, <2>1, <2>2
<1>11. CASE ExecuteSetMetadata
  <2>1. \/ Return("failed")
        \/ /\ Advance
           /\ \E k, x : metadata' = mergeStruct(metadata, k, x)
           /\ UNCHANGED <<headers, path, appending>>
    BY <1>11 DEF ExecuteSetMetadata
  <2>2. QED
    BY <1>1, <1>3, <1>4, <2>1
<1>12. QED
  BY <1>5, <1>6, <1>7, <1>8, <1>9, <1>10, <1>11 DEF HandlerStep

\* A handler takes no header from the message it works on, and unless a
\* set-header replaces it, the header keeps what it had as a prefix.
THEOREM HeadersStay == Spec => HeadersNeverLost
<1> DEFINE Kept ==
        Executing =>
          \A k \in DOMAIN headers[ActiveSide] :
              /\ k \in DOMAIN headers'[ActiveSide]
              /\ \/ IsPrefix(headers[ActiveSide][k], headers'[ActiveSide][k])
                 \/ Current.op = "set-header"
<1>1. ASSUME StreamIInv, HandlerStep PROVE Kept
  <2> DEFINE old == headers[ActiveSide]
             new == headers'[ActiveSide]
  <2>1. \/ headers' = headers
        \/ /\ Current.op = "set-header"
           /\ \E k \in Text, x \in Text :
                headers' = [headers EXCEPT ![ActiveSide] = setCopy(@, k, x)]
        \/ \E k \in Text, x \in Text :
              headers' = [headers EXCEPT ![ActiveSide] = appendCopy(@, k, x)]
    BY <1>1, HandlerWork
  <2>2. HeaderMap(old) /\ headers \in [Sides -> {headers[s] : s \in Sides}] /\ ActiveSide \in Sides
    BY <1>1, Sided DEF StreamIInv, TypeOK
  <2>3. \A k \in DOMAIN old : old[k] \in Text /\ IsPrefix(old[k], old[k])
    BY <2>2, TextIsItsPrefix DEF HeaderMap
  <2>4. CASE headers' = headers
    BY <2>3, <2>4
  <2>5. CASE /\ Current.op = "set-header"
             /\ \E k \in Text, x \in Text :
                  headers' = [headers EXCEPT ![ActiveSide] = setCopy(@, k, x)]
    <3>1. PICK k \in Text, x \in Text : new = setCopy(old, k, x)
      BY <2>2, <2>5
    <3>2. DOMAIN old \subseteq DOMAIN new
      BY <3>1 DEF setCopy, With
    <3>3. QED
      BY <2>5, <3>2
  <2>6. CASE \E k \in Text, x \in Text :
               headers' = [headers EXCEPT ![ActiveSide] = appendCopy(@, k, x)]
    <3>1. PICK k \in Text, x \in Text : new = appendCopy(old, k, x)
      BY <2>2, <2>6
    <3>2. \A n \in DOMAIN old : n \in DOMAIN new /\ (new[n] = old[n] \/ new[n] = old[n] \o x)
      BY <3>1 DEF appendCopy, With, Lookup
    <3>3. \A n \in DOMAIN old : IsPrefix(old[n], old[n] \o x)
      BY <2>3, <3>1, ConcatIsText
    <3>4. QED
      BY <2>3, <3>2, <3>3
  <2>7. QED
    BY <2>1, <2>4, <2>5, <2>6
<1>2. ASSUME StreamIInv, Next, ~HandlerStep PROVE Kept
  <2>1. ~Executing \/ headers' = headers
    BY <1>2 DEF Next, streamVars, DecodeHeaders, EncodeHeaders, OnDestroy, StreamEnded, vars,
          message, Executing
  <2>2. HeaderMap(headers[ActiveSide])
    BY <1>2, Sided DEF StreamIInv, TypeOK
  <2>3. \A k \in DOMAIN headers[ActiveSide] :
           IsPrefix(headers[ActiveSide][k], headers[ActiveSide][k])
    BY <2>2, TextIsItsPrefix DEF HeaderMap
  <2>4. QED
    BY <2>1, <2>3
<1>3. StreamIInv /\ [Next]_vars => [Kept]_vars
  BY <1>1, <1>2
<1>4. QED
  BY <1>3, StreamInvariant, PTL DEF Spec, HeadersNeverLost

\* Once decodeHeaders has returned, no step changes the request or how its
\* handler returned.
THEOREM RequestIsSettled == Spec => RequestSettled
<1> DEFINE Settled ==
        phase \notin {"idle", "decoding"} =>
          UNCHANGED <<headers["http-request"], path, outcome["http-request"]>>
<1>1. ASSUME StreamIInv, HandlerStep PROVE Settled
  <2>1. SUFFICES ASSUME phase = "encoding"
                 PROVE  UNCHANGED <<headers["http-request"], path, outcome["http-request"]>>
    BY <1>1, HandlerWork DEF Executing
  <2>2. ActiveSide = "http-response" /\ "http-request" \in Sides \ {ActiveSide}
    BY <2>1 DEF ActiveSide, Sides
  <2>3. /\ outcome'["http-request"] = outcome["http-request"]
        /\ path' = path
        /\ \/ headers' = headers
           \/ \E h : headers' = [headers EXCEPT ![ActiveSide] = h]
    BY <1>1, <2>2, HandlerWork
  <2>4. headers \in [Sides -> {headers[s] : s \in Sides}]
    BY <1>1 DEF StreamIInv, TypeOK
  <2>5. headers'["http-request"] = headers["http-request"]
    BY <2>2, <2>3, <2>4
  <2>6. QED
    BY <2>3, <2>5
<1>2. ASSUME StreamIInv, Next, ~HandlerStep PROVE Settled
  <2>1. CASE EncodeHeaders
    BY <2>1 DEF EncodeHeaders, Enter
  <2>2. CASE ~EncodeHeaders
    BY <1>2, <2>2 DEF Next, streamVars, DecodeHeaders, OnDestroy, StreamEnded, vars, message
  <2>3. QED
    BY <2>1, <2>2
<1>3. StreamIInv /\ [Next]_vars => [Settled]_vars
  BY <1>1, <1>2 DEF vars
<1>4. QED
  BY <1>3, StreamInvariant, PTL DEF Spec, RequestSettled
=============================================================================
