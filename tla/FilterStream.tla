---------------------------- MODULE FilterStream ----------------------------
(***************************************************************************)
(* One HttpHeaderRewriteFilter over the life of its stream: construction   *)
(* (module FilterConfig), then decodeHeaders on the request and            *)
(* encodeHeaders on the response.  A handler executes the operations of    *)
(* its side in order, each on the message as the ones before it left it,   *)
(* and returns at the end of the list or at the first error.  An exception *)
(* that no try block encloses leaves the handler.                          *)
(*                                                                         *)
(* Every stream runs on one worker thread, so a handler is not interrupted *)
(* by another of its stream; append-header takes a step per value because  *)
(* each value is evaluated after the one before it was appended.           *)
(***************************************************************************)
EXTENDS FilterConfig, SequencesExt

CONSTANTS
    Requests,       \* request messages [headers, path] as they may arrive
    Responses       \* header maps of responses as they may arrive

HeaderMap(f) == DOMAIN f \subseteq Text /\ f \in [DOMAIN f -> Text]

ASSUME RequestsAssumption ==
    \A r \in Requests : HeaderMap(r.headers) /\ r.path \in Path
ASSUME ResponsesAssumption == \A r \in Responses : HeaderMap(r)

VARIABLES
    phase,          \* where the stream is: between, in or after the handlers
    next,           \* the handler's position in processors
    appending,      \* an append-header under way: its key, values appended
    headers,        \* the header map of each side
    path,           \* the request's :path
    metadata,       \* the filter's namespace of the stream's dynamic metadata
    outcome,        \* how the handler of each side returned
    arrived         \* history: headers, path and metadata as a handler found them

message == <<headers, path, metadata>>
streamVars == <<phase, next, appending, headers, path, metadata, outcome, arrived>>
vars == <<config, line, construction, error, processors, bools, phase, next, appending,
          headers, path, metadata, outcome, arrived>>

NotAppending == [key |-> <<>>, count |-> -1]
NoPath == [base |-> <<>>, query |-> <<>>]
NoHeaders == [s \in Sides |-> <<>>]

Init ==
    /\ ConfigInit
    /\ phase = "idle"
    /\ next = 1
    /\ appending = NotAppending
    /\ headers = NoHeaders
    /\ path = NoPath
    /\ metadata = <<>>
    /\ outcome = [s \in Sides |-> "none"]
    /\ arrived = [headers |-> NoHeaders, path |-> NoPath, metadata |-> <<>>]

----------------------------------------------------------------------------
\* The calls of the filter chain.  With error_ set a handler returns at once.

\* A fault: error_ is not looked at.
EnterUnchecked(side, busy, returned) ==
    /\ phase' = busy
    /\ UNCHANGED <<next, appending, metadata, outcome>>
    /\ UNCHANGED configVars

Enter(side, busy, returned) ==
    /\ phase' = IF error THEN returned ELSE busy
    /\ outcome' = [outcome EXCEPT ![side] = IF error THEN "skipped" ELSE "none"]
    /\ UNCHANGED <<next, appending, metadata>>
    /\ UNCHANGED configVars

DecodeHeaders ==
    /\ construction = "done"
    /\ phase = "idle"
    /\ \E r \in Requests :
        /\ headers' = [headers EXCEPT !["http-request"] = r.headers]
        /\ path' = r.path
        /\ arrived' = [arrived EXCEPT !.headers["http-request"] = r.headers, !.path = r.path]
    /\ Enter("http-request", "decoding", "decoded")

\* A local reply of an earlier filter reaches encodeHeaders without a request
\* having passed decodeHeaders.
EncodeHeaders ==
    /\ construction = "done"
    /\ phase \in {"idle", "decoded"}
    /\ \E r \in Responses :
        /\ headers' = [headers EXCEPT !["http-response"] = r]
        /\ arrived' = [arrived EXCEPT !.headers["http-response"] = r, !.metadata = metadata]
    /\ UNCHANGED path
    /\ Enter("http-response", "encoding", "encoded")

\* The stream may be reset between the two handlers.
OnDestroy ==
    /\ construction = "done"
    /\ phase \in {"idle", "decoded", "encoded"}
    /\ phase' = "destroyed"
    /\ UNCHANGED <<next, appending, message, outcome, arrived, configVars>>

----------------------------------------------------------------------------
\* Inside a handler.

Executing == phase \in {"decoding", "encoding"}

\* A fault: the response is worked on with the request's list and headers.
RequestSideAlways == "http-request"

ActiveSide == IF phase = "decoding" THEN "http-request" ELSE "http-response"

Message == [headers |-> headers[ActiveSide], path |-> path, metadata |-> metadata]

\* The message as this handler found it.
Found == [headers |-> arrived.headers[ActiveSide],
          path |-> IF phase = "decoding" THEN arrived.path ELSE path,
          metadata |-> arrived.metadata]

Current == processors[ActiveSide][next]

\* A fault: conditions are judged once, on the message as the handler found it.
ConditionOnArrival == evaluateCondition(Current.condition, bools[ActiveSide], ActiveSide, Found)

Condition == evaluateCondition(Current.condition, bools[ActiveSide], ActiveSide, Message)

\* A fault: so are values.
ValueOnArrival(t) == Evaluate(t, ActiveSide, Found)

Value(t) == Evaluate(t, ActiveSide, Message)
Key == Value(Current.target)

Return(how) ==
    /\ phase' = IF phase = "decoding" THEN "decoded" ELSE "encoded"
    /\ outcome' = [outcome EXCEPT ![ActiveSide] = how]
    /\ next' = 1
    /\ appending' = NotAppending
    /\ UNCHANGED <<message, arrived, configVars>>

Escape ==
    /\ phase' = "crashed"
    /\ UNCHANGED <<next, appending, message, outcome, arrived, configVars>>

\* A fault: the iterator over the operations is not advanced.
AdvanceStuck ==
    UNCHANGED <<next, phase, outcome, arrived, configVars>>

\* A fault: it moves backwards.
AdvanceBackwards ==
    /\ next' = next - 1
    /\ UNCHANGED <<phase, outcome, arrived, configVars>>

Advance ==
    /\ next' = next + 1
    /\ UNCHANGED <<phase, outcome, arrived, configVars>>

AtProcessor ==
    /\ Executing
    /\ next <= Len(processors[ActiveSide])
    /\ appending = NotAppending

At(op) == AtProcessor /\ Current.op = op
Applies(op) == At(op) /\ Condition.status = "ok" /\ Condition.value

\* A key `:path' is not connected with path (README.md, Named abstractions).
setCopy(map, key, value) == With(map, key, value)

appendCopy(map, key, value) == With(map, key, Lookup(map, key) \o value)

\* setDynamicMetadata merges what it is given into the struct that is there.
mergeStruct(struct, key, value) == With(struct, key, value)

FinishHandler ==
    /\ Executing
    /\ next > Len(processors[ActiveSide])
    /\ Return("finished")

ConditionError ==
    /\ AtProcessor
    /\ Condition.status = "error"
    /\ Return("failed")

\* set-path has an action of its own for a condition that is false.
SkipOperation ==
    /\ AtProcessor
    /\ Current.op # "set-path"
    /\ Condition.status = "ok" /\ ~Condition.value
    /\ Advance
    /\ UNCHANGED <<message, appending>>

\* Key and value are both evaluated before either status is looked at.
ExecuteSetHeader ==
    /\ Applies("set-header")
    /\ LET results == {Key.status, Value(Current.values[1]).status}
       IN  CASE "throw" \in results   -> Escape
             [] results = {"ok"}      ->
                  /\ headers' = [headers EXCEPT ![ActiveSide] =
                        setCopy(@, LowerCaseString(Key.text), Value(Current.values[1]).text)]
                  /\ Advance
                  /\ UNCHANGED <<path, metadata, appending>>
             [] results \in {{"error"}, {"ok", "error"}} -> Return("failed")

\* The key is evaluated once, before the loop over the values.
BeginAppend ==
    /\ Applies("append-header")
    /\ CASE Key.status = "throw" -> Escape
         [] Key.status = "error" -> Return("failed")
         [] Key.status = "ok"    ->
              /\ appending' = [key |-> LowerCaseString(Key.text), count |-> 0]
              /\ UNCHANGED <<phase, next, message, outcome, arrived, configVars>>

InAppend == Executing /\ appending # NotAppending

AppendValue ==
    /\ InAppend
    /\ appending.count < Len(Current.values)
    /\ LET value == Value(Current.values[appending.count + 1])
       IN  CASE value.status = "throw" -> Escape
             [] value.status = "error" -> Return("failed")
             [] value.status = "ok"    ->
                  /\ headers' = [headers EXCEPT ![ActiveSide] =
                                    appendCopy(@, appending.key, value.text)]
                  /\ appending' = [appending EXCEPT !.count = @ + 1]
                  /\ UNCHANGED <<phase, next, path, metadata, outcome, arrived, configVars>>

EndAppend ==
    /\ InAppend
    /\ appending.count = Len(Current.values)
    /\ appending' = NotAppending
    /\ Advance
    /\ UNCHANGED message

\* How a text that is set as the path will be read.
PathOf(x) == IF x \in DOMAIN PathForm THEN PathForm[x] ELSE [base |-> x, query |-> <<>>]

\* A fault: the query string of the old path is dropped.
NewPathOnly(x) == PathOf(x)

NewPath(x) == [PathOf(x) EXCEPT !.query = @ \o path.query]

\* The new path is evaluated before the condition's result is tested, and its
\* status is never tested: an error leaves the empty text.
ExecuteSetPath ==
    /\ At("set-path")
    /\ Condition.status = "ok"
    /\ IF Key.status = "throw"
       THEN Escape
       ELSE /\ path' = IF Condition.value THEN NewPath(Key.text) ELSE path
            /\ Advance
            /\ UNCHANGED <<headers, metadata, appending>>

\* A fault: the empty text is taken for a value.
IsStatusOk(r) == r.status = "ok"

\* For set-metadata the empty text is an error too.
IsValue(r) == r.status = "ok" /\ r.text # <<>>

\* A fault: no try block, so that an exception leaves the handler.
ExecuteSetMetadataUncaught ==
    /\ Applies("set-metadata")
    /\ LET value == Value(Current.values[1])
       IN  CASE "throw" \in {Key.status, value.status} -> Escape
             [] IsValue(Key) /\ IsValue(value) ->
                  /\ metadata' = mergeStruct(metadata, Key.text, value.text)
                  /\ Advance
                  /\ UNCHANGED <<headers, path, appending>>
             [] OTHER -> Return("failed")

\* One try block encloses the whole operation.
ExecuteSetMetadata ==
    /\ Applies("set-metadata")
    /\ LET value == Value(Current.values[1])
       IN  IF IsValue(Key) /\ IsValue(value)
           THEN /\ metadata' = mergeStruct(metadata, Key.text, value.text)
                /\ Advance
                /\ UNCHANGED <<headers, path, appending>>
           ELSE Return("failed")

HandlerStep ==
    \/ FinishHandler
    \/ ConditionError
    \/ SkipOperation
    \/ ExecuteSetHeader
    \/ BeginAppend
    \/ AppendValue
    \/ EndAppend
    \/ ExecuteSetPath
    \/ ExecuteSetMetadata

StreamEnded ==
    /\ phase \in {"crashed", "destroyed"} \/ construction = "threw"
    /\ UNCHANGED vars

Next ==
    \/ Construct /\ UNCHANGED streamVars
    \/ DecodeHeaders
    \/ EncodeHeaders
    \/ OnDestroy
    \/ HandlerStep
    \/ StreamEnded

\* A worker thread that has entered the constructor or a handler runs it to its
\* end; nothing obliges a request or a response to come.
Fairness == WF_vars(Construct /\ UNCHANGED streamVars) /\ WF_vars(HandlerStep)

Spec == Init /\ [][Next]_vars /\ Fairness

----------------------------------------------------------------------------
TypeOK ==
    /\ ConfigTypeOK
    /\ phase \in {"idle", "decoding", "decoded", "encoding", "encoded", "crashed", "destroyed"}
    /\ next \in Nat \ {0}
    /\ appending \in [key : Text, count : Nat \cup {-1}]
    /\ headers \in [Sides -> {headers[s] : s \in Sides}]
    /\ \A s \in Sides : HeaderMap(headers[s])
    /\ path \in Path
    /\ HeaderMap(metadata)
    /\ outcome \in [Sides -> {"none", "skipped", "finished", "failed"}]
    /\ arrived \in [headers : {arrived.headers}, path : Path, metadata : {arrived.metadata}]
    /\ arrived.headers \in [Sides -> {arrived.headers[s] : s \in Sides}]

\* A stream whose configuration has a bad line passes through untouched, also
\* when the lines above the bad one are already in the lists.
BadConfigChangesNothing ==
    error => /\ headers = arrived.headers
             /\ path = arrived.path
             /\ metadata = <<>>

\* Whatever set-path operations ran, the query string the request came with is
\* still the end of its path, as long as no set-header replaces `:path' itself.
QueryStringKept ==
    LET added == Len(path.query) - Len(arrived.path.query)
    IN  /\ added >= 0
        /\ SubSeq(path.query, added + 1, Len(path.query)) = arrived.path.query

\* An exception leaves a handler only out of a position of hdr that is not a
\* number, and never out of a condition or a set-metadata.
OnlyPositionsEscape ==
    phase = "crashed" =>
        \E s \in Sides :
            /\ outcome[s] = "none"
            /\ next \in DOMAIN processors[s]
            /\ processors[s][next].op # "set-metadata"
            /\ \E t \in {processors[s][next].target} \cup Range(processors[s][next].values) :
                 PositionThrows(t)

\* The functions that the operations of a side call, in conditions as well.
Functions(s) ==
    (UNION {{processors[s][k].target} \cup Range(processors[s][k].values) :
              k \in DOMAIN processors[s]})
      \cup {bools[s][n].source : n \in DOMAIN bools[s]}
      \cup {bools[s][n].compare : n \in DOMAIN bools[s]}

\* A handler that failed had one of three reasons, which its message still
\* shows: a position out of bounds, a variable whose position is not a number,
\* or a set-metadata without a name or a value.
FailureHasCause ==
    \A s \in Sides : outcome[s] = "failed" =>
        \/ \E t \in Functions(s) : OutOfBounds(t, headers[s])
        \/ \E n \in DOMAIN bools[s] :
              PositionThrows(bools[s][n].source) \/ PositionThrows(bools[s][n].compare)
        \/ \E k \in DOMAIN processors[s] :
              /\ processors[s][k].op = "set-metadata"
              /\ \E t \in {processors[s][k].target} \cup Range(processors[s][k].values) :
                    MayFindNothing(t, headers[s])

\* Metadata that is set has a name and a value, so reading the empty text means
\* that it was never set.
MetadataHasValues == \A k \in DOMAIN metadata : k # <<>> /\ metadata[k] # <<>>

\* A handler loses nothing: a header of the message it works on stays in the
\* map, and unless a set-header replaces it, keeps what it had as a prefix.
HeadersNeverLost ==
    [][Executing =>
        \A k \in DOMAIN headers[ActiveSide] :
            /\ k \in DOMAIN headers'[ActiveSide]
            /\ \/ IsPrefix(headers[ActiveSide][k], headers'[ActiveSide][k])
               \/ Current.op = "set-header"]_vars

\* The request is delivered once: after decodeHeaders has returned, also with
\* an error, nothing the response side executes changes it.
RequestSettled ==
    [][phase \notin {"idle", "decoding"} =>
        UNCHANGED <<headers["http-request"], path, outcome["http-request"]>>]_vars

(***************************************************************************)
(* The inductive invariant of the proofs: nothing runs before the          *)
(* constructor has returned without an error, what no operation has worked *)
(* on is as it arrived, and a handler is at one of its operations, inside  *)
(* it only for an append-header.                                           *)
(***************************************************************************)
HandlersAfterConstruction ==
    /\ construction # "done" => phase = "idle"
    /\ phase = "idle" => outcome = [s \in Sides |-> "none"]
    /\ error => phase \notin {"decoding", "encoding", "crashed"}

UntouchedAsArrived ==
    error \/ phase = "idle" =>
        headers = arrived.headers /\ path = arrived.path /\ metadata = <<>>

AtRest == phase \in {"idle", "decoded", "encoded"} => next = 1 /\ appending = NotAppending

AtOperationOfSide ==
    Executing =>
        /\ outcome[ActiveSide] = "none"
        /\ next <= Len(processors[ActiveSide]) + 1
        /\ appending # NotAppending =>
             /\ next <= Len(processors[ActiveSide])
             /\ Current.op = "append-header"
             /\ appending.count \in 0 .. Len(Current.values)

StreamIInv ==
    /\ ConfigIInv
    /\ TypeOK
    /\ HandlersAfterConstruction
    /\ UntouchedAsArrived
    /\ AtRest
    /\ AtOperationOfSide
    /\ QueryStringKept
    /\ OnlyPositionsEscape
    /\ FailureHasCause
    /\ MetadataHasValues

\* A handler that is entered returns or is left by an exception.
HandlersReturn == Executing ~> ~Executing

----------------------------------------------------------------------------
\* What the documentation says and the code does not do.

\* header_processor.cc:255, "do nothing because condition is false": a step for
\* an operation whose condition is false leaves the message alone and throws
\* nothing.
FalseConditionDoesNothing ==
    [][AtProcessor /\ Condition.status = "ok" /\ ~Condition.value =>
        UNCHANGED message /\ phase' # "crashed"]_vars

\* README.md:123, "If the requested value is not found, an empty string is
\* returned": a call an operation makes does not fail.
MissingValueIsEmpty ==
    AtProcessor /\ Condition.status = "ok" /\ Condition.value =>
        \A t \in {Current.target} \cup Range(Current.values) : Value(t).status # "error"

\* README.md:90, "this operation preserves the query string (eg.
\* `/oldpath?apikey=1' -> `/newpath?apikey=1')".
QueryStringPreserved ==
    arrived.path.query # <<>> => path.query = arrived.path.query
=============================================================================
