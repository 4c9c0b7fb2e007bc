------------------------- MODULE FilterStreamContract -------------------------
(***************************************************************************)
(* FilterStream implements RewriteContract.  While a handler executes, the *)
(* contract still shows the message as the handler found it; the lists,    *)
(* the maps and the iterators have no counterpart.                         *)
(***************************************************************************)
EXTENDS FilterStream, RewriteMeaning

shownStage == IF construction = "threw" THEN "threw" ELSE phase
shownHeaders == IF Executing THEN [headers EXCEPT ![ActiveSide] = Found.headers] ELSE headers
shownPath == IF Executing THEN Found.path ELSE path
shownMetadata == IF Executing THEN Found.metadata ELSE metadata

Contract == INSTANCE RewriteContract WITH
    stage <- shownStage, headers <- shownHeaders, path <- shownPath, metadata <- shownMetadata

\* Seen from outside, a handler rewrites a message in one step, and the result
\* is a function of the configuration's text and the message that arrived:
\* nothing else of what the constructor stored or an earlier handler left
\* behind shows.  Every condition, key and value is judged on the message as
\* the operations before it left it.
HonoursContract == Contract!Spec

(***************************************************************************)
(* The inductive invariant of the proof: at its k-th operation a handler   *)
(* has made of the message it found what the contract makes of it up to    *)
(* any line that has k - 1 operations of the side above it; inside an      *)
(* append-header, with the first values of that appended.                  *)
(***************************************************************************)
OperationsUpTo(i) == Cardinality({j \in 1 .. i : IsExecuted(config[j], ActiveSide)})

\* m is the message with which the append-header began.
AppendFollows(m) ==
    LET condition == evaluateCondition(Current.condition, bools[ActiveSide], ActiveSide, m)
        key == Evaluate(Current.target, ActiveSide, m)
    IN  /\ condition.status = "ok" /\ condition.value
        /\ key.status = "ok" /\ appending.key = LowerCaseString(key.text)
        /\ AppendedUpTo(appending.key, Current.values, ActiveSide, m)[appending.count]
             = Went("finished", Message)

HandlerFollows ==
    Executing => \A i \in 0 .. Len(config) : OperationsUpTo(i) = next - 1 =>
        LET soFar == RewrittenUpTo(config, ActiveSide, Found)[i]
        IN  /\ soFar.how = "finished"
            /\ IF appending = NotAppending THEN soFar.message = Message
               ELSE AppendFollows(soFar.message)

ContractIInv ==
    /\ StreamIInv
    /\ StoredInOrder
    /\ HandlerFollows
    /\ error => ~NamelessBool(config[line])
    /\ phase = "idle" => arrived.metadata = <<>>
    /\ phase \in {"idle", "decoding", "decoded"} => outcome["http-response"] = "none"
=============================================================================
