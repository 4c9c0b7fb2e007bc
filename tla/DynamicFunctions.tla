-------------------------- MODULE DynamicFunctions --------------------------
(***************************************************************************)
(* DynamicFunctionProcessor: a key, value, path or comparison of an        *)
(* operation is one token, either a literal or a call %[hdr(..)],          *)
(* %[urlp(..)] or %[metadata(..)].  The parse half classifies the token,   *)
(* the execute half computes its text from the message as it is now.       *)
(*                                                                         *)
(* A text is the sequence of its comma-separated pieces, none of them      *)
(* empty; <<>> is the empty string.  A message is a record of the header   *)
(* map (a partial function from names to texts, repeated headers joined as *)
(* getAllOfHeaderAsString joins them), the request path cut at its first   *)
(* `?', and the filter's dynamic metadata.                                 *)
(***************************************************************************)
EXTENDS Integers, Sequences

CONSTANTS
    Form,       \* what the parser sees of each token that is not a plain word
    Numeral,    \* the pieces std::stoi reads as an int, and that int
    LowerCase,  \* the pieces with an upper-case letter, and their lower case
    PathForm,   \* the texts with a `?', as the path they are read as
    Params,     \* for each query string there can be, its parameters in order
    GluedValue  \* a value with the query string behind it glued to it

Text == Seq(STRING)
Path == [base : Text, query : Seq(DOMAIN Params)]
Sides == {"http-request", "http-response"}

(***************************************************************************)
(* long: at least three characters; opens: starts with `%['; closes: ends  *)
(* with `]'.  Of the characters between the first two and the last one:    *)
(* name: those before `('; ended: the last is `)'; arguments: the pieces   *)
(* between the parentheses.  text: the token as a literal.                 *)
(***************************************************************************)
TokenForm ==
    [long : BOOLEAN, opens : BOOLEAN, closes : BOOLEAN, name : STRING,
     ended : BOOLEAN, arguments : Text, text : Text]

ASSUME FormAssumption == Form \in [DOMAIN Form -> TokenForm] /\ "" \notin DOMAIN Form
ASSUME NumeralAssumption == Numeral \in [DOMAIN Numeral -> Int]
ASSUME LowerCaseAssumption == LowerCase \in [DOMAIN LowerCase -> STRING]
ASSUME PathFormAssumption == PathForm \in [DOMAIN PathForm -> Path]
ASSUME ParamsAssumption ==
    Params \in [DOMAIN Params -> Seq([name : STRING, value : Text])]
ASSUME GluedValueAssumption == GluedValue \in Text

----------------------------------------------------------------------------
\* Parsing.

Literal(t) ==
    CASE t = ""           -> <<>>
      [] t \in DOMAIN Form -> Form[t].text
      [] OTHER            -> <<t>>

\* The two delimiters are tested with `and' inside a negation: a token is taken
\* for a call as soon as it has one of them.
isStatic(t) ==
    \/ t \notin DOMAIN Form
    \/ ~Form[t].long
    \/ ~Form[t].opens /\ ~Form[t].closes

ArgumentCounts == [hdr |-> {1, 2}, urlp |-> {1}, metadata |-> {1}]

isCall(t, name) == ~isStatic(t) /\ Form[t].name = name

\* A fault: urlp is not refused on the response side.
ParsesOnAnySide(t, side) ==
    \/ isStatic(t)
    \/ /\ Form[t].name \in DOMAIN ArgumentCounts
       /\ Form[t].ended
       /\ Len(Form[t].arguments) \in ArgumentCounts[Form[t].name]

Parses(t, side) ==
    \/ isStatic(t)
    \/ /\ Form[t].name \in DOMAIN ArgumentCounts
       /\ isCall(t, "urlp") => side = "http-request"
       /\ Form[t].ended
       /\ Len(Form[t].arguments) \in ArgumentCounts[Form[t].name]

----------------------------------------------------------------------------
\* Execution: a status and a text, as the returned tuple, or "throw" where an
\* exception leaves the function.

Ok(x) == [status |-> "ok", text |-> x]
Error == [status |-> "error", text |-> <<>>]
Throw == [status |-> "throw", text |-> <<>>]
Result == [status : {"ok", "error", "throw"}, text : Text]

LowerCaseString(x) ==
    [i \in DOMAIN x |-> IF x[i] \in DOMAIN LowerCase THEN LowerCase[x[i]] ELSE x[i]]

Lookup(f, k) == IF k \in DOMAIN f THEN f[k] ELSE <<>>

\* A fault: positions from the end are counted from the last index.
getHeaderValueFromLast(headers, key, position) ==
    LET values == Lookup(headers, LowerCaseString(<<key>>))
        index  == IF position < 0 THEN position + Len(values) - 1 ELSE position
    IN  CASE LowerCaseString(<<key>>) \notin DOMAIN headers -> Ok(<<>>)
          [] index \in 0 .. Len(values) - 1                 -> Ok(<<values[index + 1]>>)
          [] OTHER                                          -> Error

getHeaderValue(headers, key, position) ==
    LET values == Lookup(headers, LowerCaseString(<<key>>))
        index  == IF position < 0 THEN position + Len(values) ELSE position
    IN  CASE LowerCaseString(<<key>>) \notin DOMAIN headers -> Ok(<<>>)
          [] index \in 0 .. Len(values) - 1                 -> Ok(<<values[index + 1]>>)
          [] OTHER                                          -> Error

\* parseQueryString keeps the first of two parameters with one name.  A query
\* string behind another is read as part of it: its first parameter is glued to
\* the last value of the one before, some text that holds a `?'.
getUrlp(path, name) ==
    LET last == Len(path.query)
        params(i) == Params[path.query[i]]
        hits == UNION {{i} \X {k \in DOMAIN params(i) :
                                params(i)[k].name = name /\ (i = 1 \/ k > 1)} : i \in 1 .. last}
        first == CHOOSE h \in hits :
                    \A g \in hits : h[1] < g[1] \/ (h[1] = g[1] /\ h[2] <= g[2])
    IN  CASE hits = {} -> Ok(<<>>)
          [] hits # {} /\ first[1] < last /\ first[2] = Len(params(first[1])) -> Ok(GluedValue)
          [] OTHER -> Ok(params(first[1])[first[2]].value)

getDynamicMetadata(metadata, key) == Ok(Lookup(metadata, key))

\* The position of hdr is converted here, once per call, not when parsing.
HasPosition(t) == Len(Form[t].arguments) = 2

PositionThrows(t) ==
    isCall(t, "hdr") /\ HasPosition(t) /\ Form[t].arguments[2] \notin DOMAIN Numeral

Position(t) == IF HasPosition(t) THEN Numeral[Form[t].arguments[2]] ELSE -1

Evaluate(t, side, m) ==
    CASE isStatic(t)           -> Ok(Literal(t))
      [] PositionThrows(t)     -> Throw
      [] isCall(t, "hdr") /\ ~PositionThrows(t)
                               -> getHeaderValue(m.headers, Form[t].arguments[1], Position(t))
      [] isCall(t, "urlp")     -> IF side = "http-request"
                                  THEN getUrlp(m.path, Form[t].arguments[1])
                                  ELSE Error
      [] isCall(t, "metadata") -> getDynamicMetadata(m.metadata, Form[t].arguments)
      [] OTHER                 -> Error

----------------------------------------------------------------------------
\* Why an evaluation gives no text, as the header map it read still shows.

\* A call of hdr whose header is there, but has no value at the position asked
\* for: a header of n values has the positions -n to n - 1.  An empty one, which
\* came in so or was set from a value that was not found, has none, not even
\* the last, which a call without a position asks for.
OutOfBounds(t, headers) ==
    /\ isCall(t, "hdr") /\ ~PositionThrows(t)
    /\ LET key == LowerCaseString(<<Form[t].arguments[1]>>)
       IN  /\ key \in DOMAIN headers
           /\ Position(t) \notin -Len(headers[key]) .. Len(headers[key]) - 1

\* A token that may turn out empty, or throw.
MayFindNothing(t, headers) ==
    \/ isStatic(t) /\ Literal(t) = <<>>
    \/ isCall(t, "urlp") \/ isCall(t, "metadata")
    \/ isCall(t, "hdr") /\
         (PositionThrows(t) \/ LowerCaseString(<<Form[t].arguments[1]>>) \notin DOMAIN headers)
=============================================================================
