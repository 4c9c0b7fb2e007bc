---------------------------- MODULE FilterConfig ----------------------------
(***************************************************************************)
(* HttpHeaderRewriteFilter's constructor, which runs once per stream: it   *)
(* parses the configuration line by line, appends each operation to the    *)
(* list of its side, enters each set-bool in the map of its side, and at   *)
(* the first line it cannot parse sets error_ and stops there, with the    *)
(* lines before it already stored.                                         *)
(*                                                                         *)
(* A configuration is a sequence of lines and a line a sequence of tokens, *)
(* as the two splitToken calls cut them.                                   *)
(***************************************************************************)
EXTENDS Operations, FiniteSets, Functions

CONSTANT Configs    \* the configurations the listener may carry

ASSUME ConfigsAssumption == Configs \subseteq Seq(Seq(STRING))

VARIABLES
    config,         \* the text of config_, cut into lines and tokens
    line,           \* position of the next operation
    construction,   \* "running", "done", or "threw" out of the constructor
    error,          \* error_
    processors,     \* request_ and response_header_processors_
    bools           \* request_ and response_set_bool_processors_

configVars == <<config, line, construction, error, processors, bools>>

----------------------------------------------------------------------------
ConfigInit ==
    /\ config \in Configs
    /\ line = 1
    /\ construction = "running"
    /\ error = FALSE
    /\ processors = [s \in Sides |-> <<>>]
    /\ bools = [s \in Sides |-> <<>>]

Tokens == config[line]
Side == Tokens[1]
Operation == Tokens[2]

\* A fault: both sides declare their variables in one map.
DeclaredOnAnySide == UNION {DOMAIN bools[s] : s \in Sides}

Declared == DOMAIN bools[Side]

AtLine == construction = "running" /\ line <= Len(config)

Recognised ==
    /\ Len(Tokens) >= 2
    /\ Side \in Sides
    /\ Operation \in ExecutedOperations \cup {"set-bool"}

AtOperation(op) == AtLine /\ Recognised /\ Operation = op

\* A fault: no return behind it, so that the loop goes on to the next line.
setErrorWithoutReturn ==
    /\ error' = TRUE
    /\ line' = line + 1
    /\ UNCHANGED <<config, construction, processors, bools>>

setError ==
    /\ error' = TRUE
    /\ construction' = "done"
    /\ UNCHANGED <<config, line, processors, bools>>

\* A fault: a line is skipped after an operation.
PushSkippingLine ==
    /\ processors' = [processors EXCEPT ![Side] = Append(@, ParsedOperation(Tokens))]
    /\ line' = line + 2
    /\ UNCHANGED <<config, construction, error, bools>>

\* A fault: the newest operation is stored first.
PushFront ==
    /\ processors' = [processors EXCEPT ![Side] = <<ParsedOperation(Tokens)>> \o @]
    /\ line' = line + 1
    /\ UNCHANGED <<config, construction, error, bools>>

Push ==
    /\ processors' = [processors EXCEPT ![Side] = Append(@, ParsedOperation(Tokens))]
    /\ line' = line + 1
    /\ UNCHANGED <<config, construction, error, bools>>

RejectLine ==
    /\ AtLine
    /\ ~Recognised
    /\ setError

ParseSetHeader ==
    /\ AtOperation("set-header")
    /\ IF KeyValueParses(Tokens, Side, Declared) THEN Push ELSE setError

ParseSetMetadata ==
    /\ AtOperation("set-metadata")
    /\ IF KeyValueParses(Tokens, Side, Declared) THEN Push ELSE setError

ParseAppendHeader ==
    /\ AtOperation("append-header")
    /\ IF AppendParses(Tokens, Side, Declared) THEN Push ELSE setError

ParseSetPath ==
    /\ AtOperation("set-path")
    /\ IF Side = "http-request" /\ SetPathParses(Tokens, Side, Declared)
       THEN Push ELSE setError

\* tokens.at(2) stands before any test of the number of tokens and outside
\* every try block.
SetBoolThrows ==
    /\ AtOperation("set-bool")
    /\ Len(Tokens) = 2
    /\ construction' = "threw"
    /\ UNCHANGED <<config, line, error, processors, bools>>

\* A fault: the last definition of a variable wins.
ParseSetBoolOverwriting ==
    /\ AtOperation("set-bool")
    /\ Len(Tokens) > 2
    /\ IF BoolParses(Tokens, Side)
       THEN /\ bools' = [bools EXCEPT ![Side] = With(@, Tokens[3], ParsedBool(Tokens))]
            /\ line' = line + 1
            /\ UNCHANGED <<config, construction, error, processors>>
       ELSE setError

ParseSetBool ==
    /\ AtOperation("set-bool")
    /\ Len(Tokens) > 2
    /\ IF BoolParses(Tokens, Side) /\ Tokens[3] \notin Declared
       THEN /\ bools' = [bools EXCEPT ![Side] = With(@, Tokens[3], ParsedBool(Tokens))]
            /\ line' = line + 1
            /\ UNCHANGED <<config, construction, error, processors>>
       ELSE setError

FinishConstruction ==
    /\ construction = "running"
    /\ line > Len(config)
    /\ construction' = "done"
    /\ UNCHANGED <<config, line, error, processors, bools>>

Construct ==
    \/ RejectLine
    \/ ParseSetHeader
    \/ ParseSetMetadata
    \/ ParseAppendHeader
    \/ ParseSetPath
    \/ SetBoolThrows
    \/ ParseSetBool
    \/ FinishConstruction

Constructed == construction # "running" /\ UNCHANGED configVars

ConfigNext == Construct \/ Constructed

ConfigSpec == ConfigInit /\ [][ConfigNext]_configVars

----------------------------------------------------------------------------
BoolMap(f) == DOMAIN f \subseteq STRING /\ f \in [DOMAIN f -> BoolVariable]

ConfigTypeOK ==
    /\ config \in Configs
    /\ line \in 1 .. Len(config) + 1
    /\ construction \in {"running", "done", "threw"}
    /\ error \in BOOLEAN
    /\ processors \in [Sides -> Seq(Processor)]
    /\ bools \in [Sides -> {bools[s] : s \in Sides}]
    /\ \A s \in Sides : BoolMap(bools[s])

\* The filter is switched off exactly for the configurations with a line that
\* LineParses refuses: none is passed over, and no other one stops the
\* constructor.  LineParses is the code's notion of a good line.  In three places
\* the documentation has another one: README.md:68 says that `if' "cannot be used
\* as a string literal", but key, value and path are taken by position, and
\* `set-header a if' is a good line here, which sets a to "if"; it wants both
\* delimiters around a call (OnlyWrappedIsCall); and it gives set-path to both
\* sides (SetPathOnBothSides).
ErrorExactlyForBadLine ==
    construction = "done" => (error <=> \E i \in 1 .. Len(config) : ~LineParses(config, i))

\* The list of a side holds its operations in the order of the configuration,
\* each as its own line says, and the set-bools among them are in the map.
StoredInOrder ==
    \A s \in Sides :
        LET own == {i \in 1 .. line - 1 : config[i][1] = s /\ config[i][2] # "set-bool"}
            Rank(i) == Cardinality({j \in own : j <= i})
        IN  /\ Len(processors[s]) = Cardinality(own)
            /\ \A i \in own : processors[s][Rank(i)] = ParsedOperation(config[i])
            /\ \A i \in 1 .. line - 1 :
                 config[i][1] = s /\ config[i][2] = "set-bool" =>
                    bools[s][config[i][3]] = ParsedBool(config[i])

\* No line below a bad one has left an operation or a variable, nor has the bad
\* one: the lists and maps hold at most what the lines above it give.  Every
\* error exit of the constructor has to return for that, as much as to set error_.
NothingStoredPastBadLine ==
    \A b \in 1 .. Len(config) : ~LineParses(config, b) =>
        \A s \in Sides :
            /\ Len(processors[s]) <=
                 Cardinality({i \in 1 .. b - 1 :
                    Len(config[i]) >= 2 /\ config[i][1] = s /\ config[i][2] # "set-bool"})
            /\ DOMAIN bools[s] \subseteq DeclaredAbove(config, b, s)

\* Whatever the constructor stored, also when it stopped at an error, no
\* condition refers to a variable that the map of its side does not hold, so
\* the lookup bool_processors_->at in an evaluation never throws.
ConditionsClosed ==
    \A s \in Sides : \A k \in DOMAIN processors[s] :
        LET c == processors[s][k].condition
        IN  c = <<>> \/ WellFormed(c, DOMAIN bools[s])

\* urlp reads the request path through a dynamic_cast of the header map, which
\* fails on a response: no operation or variable of the response side calls it.
ResponseNeverReadsUrl ==
    LET ps == processors["http-response"]
        bs == bools["http-response"]
    IN  /\ \A k \in DOMAIN ps :
             \A t \in {ps[k].target} \cup Range(ps[k].values) : ~isCall(t, "urlp")
        /\ \A n \in DOMAIN bs :
             ~isCall(bs[n].source, "urlp") /\ ~isCall(bs[n].compare, "urlp")

\* A boolean variable keeps its first definition: no later line of either side
\* replaces or removes it, not even the line that is refused for trying.
BoolsKeepDefinition ==
    [][\A s \in Sides : \A n \in DOMAIN bools[s] :
          n \in DOMAIN bools'[s] /\ bools'[s][n] = bools[s][n]]_configVars

(***************************************************************************)
(* The inductive invariant of the proofs: the maps hold exactly the names  *)
(* set above the current line, every line above it parsed, the constructor *)
(* stopped at the end or at a line that does not parse, and every token it *)
(* kept parses on its side.                                                *)
(***************************************************************************)
MapsMatchLines == \A s \in Sides : DOMAIN bools[s] = DeclaredAbove(config, line, s)

LinesAboveParse == \A i \in 1 .. line - 1 : LineParses(config, i)

StoppedForReason ==
    /\ error => construction = "done" /\ line <= Len(config) /\ ~LineParses(config, line)
    /\ construction = "done" /\ ~error => line = Len(config) + 1

OperationsParse ==
    \A s \in Sides : \A k \in DOMAIN processors[s] :
        LET p == processors[s][k]
        IN  /\ \A t \in {p.target} \cup Range(p.values) : Parses(t, s)
            /\ p.op \in {"set-header", "set-metadata"} => Len(p.values) = 1
            /\ p.op = "set-path" => s = "http-request"

BoolsParse ==
    \A s \in Sides : \A n \in DOMAIN bools[s] :
        Parses(bools[s][n].source, s) /\ Parses(bools[s][n].compare, s)

ConfigIInv ==
    /\ ConfigTypeOK
    /\ MapsMatchLines
    /\ LinesAboveParse
    /\ StoppedForReason
    /\ ConditionsClosed
    /\ OperationsParse
    /\ BoolsParse

----------------------------------------------------------------------------
\* What the documentation says and the code does not do.

\* README.md:34, "Check for syntax errors": the constructor reports a bad line
\* through error_, and does not throw.
ConstructorNeverThrows == construction # "threw"

\* README.md:123, "the function call must be wrapped in `%[]'": what is stored
\* as a call has both delimiters.
OnlyWrappedIsCall ==
    \A s \in Sides : \A k \in DOMAIN processors[s] :
        \A t \in {processors[s][k].target} \cup Range(processors[s][k].values) :
            ~isStatic(t) => Form[t].opens /\ Form[t].closes

\* README.md:86, "<http-request/http-response> set-path <path>": a set-path whose
\* arguments parse is not the line the constructor stops at, on either side.
SetPathOnBothSides ==
    construction = "done" /\ error =>
        ~(Recognised /\ Operation = "set-path" /\ SetPathParses(Tokens, Side, Declared))
=============================================================================
