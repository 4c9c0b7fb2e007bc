---------------------------- MODULE RewriteMeaning ----------------------------
(***************************************************************************)
(* What a configuration means: a function from the message that arrives on *)
(* a side to the message that leaves, without lists, maps or iterators.    *)
(* The operations of the side are carried out in the order of the          *)
(* configuration, each judged and carried out on the message as those      *)
(* before it left it ("consistent with the latest header rewrite           *)
(* operations", README.md:55), up to the first that does not finish.       *)
(***************************************************************************)
EXTENDS Operations

(***************************************************************************)
(* The meaning of an operation: from a message m = [headers, path,         *)
(* metadata] to how the operation went and the message it leaves.          *)
(***************************************************************************)
Went(how, m) == [how |-> how, message |-> m]

\* An operation can be carried out if all its texts can be had.
How(results) ==
    IF Throw \in results THEN "crashed"
    ELSE IF Error \in results THEN "failed" ELSE "finished"

\* m with the effect of an operation on it, if that can be carried out.
Changed(results, effect, m) ==
    LET how == How(results) IN Went(how, IF how = "finished" THEN effect ELSE m)

HeaderAppended(name, x, m) ==
    [m EXCEPT !.headers = With(@, name, Lookup(@, name) \o x)]

\* One more value is appended, unless one before it could not be had.
AppendNext(before, name, t, side) ==
    LET value == Evaluate(t, side, before.message)
    IN  IF before.how # "finished" THEN before
        ELSE Changed({value}, HeaderAppended(name, value.text, before.message), before.message)

\* After the first k values; each is read after the one before it was appended.
AppendedUpTo(name, values, side, m) ==
    LET after[k \in 0 .. Len(values)] ==
            IF k = 0 THEN Went("finished", m)
            ELSE AppendNext(after[k - 1], name, values[k], side)
    IN  after

AppendHeader(key, values, side, m) ==
    IF key.status = "ok"
    THEN AppendedUpTo(LowerCaseString(key.text), values, side, m)[Len(values)]
    ELSE Changed({key}, m, m)

\* A new path may bring a query string; the old one stays behind it.
PathSet(x, m) ==
    LET new == IF x \in DOMAIN PathForm THEN PathForm[x] ELSE [base |-> x, query |-> <<>>]
    IN  [m EXCEPT !.path = [base |-> new.base, query |-> new.query \o @.query]]

Effect(p, side, m) ==
    LET target == Evaluate(p.target, side, m)
        value  == Evaluate(p.values[1], side, m)
    IN  CASE p.op = "set-header" ->
               Changed({target, value},
                       [m EXCEPT !.headers = With(@, LowerCaseString(target.text), value.text)], m)
          [] p.op = "append-header" -> AppendHeader(target, p.values, side, m)
          [] p.op = "set-path" -> Changed({target} \ {Error}, PathSet(target.text, m), m)
          [] p.op = "set-metadata" ->
               IF {target, value} \cap {Throw, Error, Ok(<<>>)} = {}
               THEN Went("finished", [m EXCEPT !.metadata = With(@, target.text, value.text)])
               ELSE Went("failed", m)

\* The one effect of a false condition is that of a path that throws.
Operate(p, variables, side, m) ==
    LET condition == evaluateCondition(p.condition, variables, side, m)
    IN  CASE condition.status = "error" -> Went("failed", m)
          [] condition.status = "ok" /\ condition.value -> Effect(p, side, m)
          [] condition.status = "ok" /\ ~condition.value ->
               IF p.op = "set-path" /\ Evaluate(p.target, side, m) = Throw
               THEN Went("crashed", m)
               ELSE Went("finished", m)

----------------------------------------------------------------------------
\* The meaning of a configuration c for one side.

SetsBool(l, side) == l[1] = side /\ l[2] = "set-bool"
IsExecuted(l, side) == l[1] = side /\ l[2] # "set-bool"

Variables(c, side) ==
    [n \in DeclaredAbove(c, Len(c) + 1, side) |->
        ParsedBool(c[CHOOSE i \in DOMAIN c : SetsBool(c[i], side) /\ c[i][3] = n])]

\* One more line is carried out, if it is for that side.
ExecuteNext(before, l, variables, side) ==
    IF before.how = "finished" /\ IsExecuted(l, side)
    THEN Operate(ParsedOperation(l), variables, side, before.message)
    ELSE before

\* After the first i lines.
RewrittenUpTo(c, side, m) ==
    LET variables == Variables(c, side)
        after[i \in 0 .. Len(c)] ==
            IF i = 0 THEN Went("finished", m)
            ELSE ExecuteNext(after[i - 1], c[i], variables, side)
    IN  after

Rewritten(c, side, m) == RewrittenUpTo(c, side, m)[Len(c)]

AllGood(c) == \A i \in DOMAIN c : LineParses(c, i)

\* A set-bool without a name, where the constructor gets that far.
NamelessBool(l) == Len(l) = 2 /\ l[1] \in Sides /\ l[2] = "set-bool"

Throws(c) == \E i \in DOMAIN c : NamelessBool(c[i]) /\ \A j \in 1 .. i - 1 : LineParses(c, j)
=============================================================================
