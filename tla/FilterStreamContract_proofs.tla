----------------------- MODULE FilterStreamContract_proofs -----------------------
(***************************************************************************)
(* The stream implements the contract, for every set of configurations and *)
(* of messages and every lexicon.                                          *)
(***************************************************************************)
EXTENDS FilterStreamContract, FilterStream_proofs

----------------------------------------------------------------------------
\* The two recursive functions of RewriteMeaning are what their definitions say.

LEMMA AppendedRecursion ==
    ASSUME NEW name, NEW values, NEW side, NEW m, Len(values) \in Nat
    PROVE  LET after == AppendedUpTo(name, values, side, m)
           IN  /\ after[0] = Went("finished", m)
               /\ \A k \in 1 .. Len(values) :
                    after[k] = AppendNext(after[k - 1], name, values[k], side)
<1> DEFINE Further(before, k) == AppendNext(before, name, values[k], side)
           Unfolds(f, n) == f = [k \in 0 .. n |->
                                   IF k = 0 THEN Went("finished", m) ELSE Further(f[k - 1], k)]
           len == Len(values)
           reached == {n \in Nat : \E f : Unfolds(f, n)}
<1>1. AppendedUpTo(name, values, side, m) = CHOOSE f : Unfolds(f, len)
  BY DEF AppendedUpTo
<1> HIDE DEF Further
<1>2. 0 \in reached
  <2>1. Unfolds([k \in 0 .. 0 |-> Went("finished", m)], 0)
    OBVIOUS
  <2>2. QED
    BY <2>1
<1>3. ASSUME NEW n \in Nat, n \in reached PROVE n + 1 \in reached
  <2>1. PICK f : Unfolds(f, n)
    BY <1>3
  <2> DEFINE g == [k \in 0 .. n + 1 |-> IF k = n + 1 THEN Further(f[n], k) ELSE f[k]]
  <2>2. ASSUME NEW k \in 0 .. n + 1
        PROVE  g[k] = IF k = 0 THEN Went("finished", m) ELSE Further(g[k - 1], k)
    <3>1. CASE k = n + 1
      <4>1. k - 1 = n /\ n \in 0 .. n + 1 /\ n # n + 1 /\ k # 0
        BY <3>1
      <4>2. g[n] = f[n]
        BY <4>1
      <4>3. QED
        BY <3>1, <4>1, <4>2
    <3>2. CASE k # n + 1 /\ k # 0
      <4>1. k \in 0 .. n /\ k - 1 \in 0 .. n + 1 /\ k - 1 # n + 1
        BY <3>2
      <4>2. g[k - 1] = f[k - 1] /\ g[k] = f[k]
        BY <3>2, <4>1
      <4>3. f[k] = Further(f[k - 1], k)
        BY <2>1, <3>2, <4>1
      <4>4. QED
        BY <3>2, <4>2, <4>3
    <3>3. CASE k = 0
      BY <2>1, <3>3
    <3>4. QED
      BY <3>1, <3>2, <3>3
  <2>3. Unfolds(g, n + 1)
    BY <2>2
  <2> HIDE DEF g, Unfolds
  <2>4. QED
    BY <2>3
<1>4. len \in reached
  <2> HIDE DEF reached
  <2>1. QED
    BY <1>2, <1>3, SetInduction
<1>5. PICK after : /\ after = AppendedUpTo(name, values, side, m)
                   /\ after = [k \in 0 .. len |->
                         IF k = 0 THEN Went("finished", m) ELSE Further(after[k - 1], k)]
  BY <1>1, <1>4
<1>6. after[0] = Went("finished", m) /\ \A k \in 1 .. len : after[k] = Further(after[k - 1], k)
  <2>1. 0 \in 0 .. len /\ \A k \in 1 .. len : k \in 0 .. len /\ k # 0
    OBVIOUS
  <2>2. QED
    BY <1>5, <2>1
<1>7. QED
  BY <1>5, <1>6 DEF Further

LEMMA RewrittenRecursion ==
    ASSUME NEW c, NEW side, NEW m, Len(c) \in Nat
    PROVE  LET after == RewrittenUpTo(c, side, m)
           IN  /\ after[0] = Went("finished", m)
               /\ \A i \in 1 .. Len(c) :
                    after[i] = ExecuteNext(after[i - 1], c[i], Variables(c, side), side)
<1> DEFINE Further(before, i) == ExecuteNext(before, c[i], Variables(c, side), side)
           Unfolds(f, n) == f = [i \in 0 .. n |->
                                   IF i = 0 THEN Went("finished", m) ELSE Further(f[i - 1], i)]
           len == Len(c)
           reached == {n \in Nat : \E f : Unfolds(f, n)}
<1>1. RewrittenUpTo(c, side, m) = CHOOSE f : Unfolds(f, len)
  BY DEF RewrittenUpTo
<1> HIDE DEF Further
<1>2. 0 \in reached
  <2>1. Unfolds([i \in 0 .. 0 |-> Went("finished", m)], 0)
    OBVIOUS
  <2>2. QED
    BY <2>1
<1>3. ASSUME NEW n \in Nat, n \in reached PROVE n + 1 \in reached
  <2>1. PICK f : Unfolds(f, n)
    BY <1>3
  <2> DEFINE g == [i \in 0 .. n + 1 |-> IF i = n + 1 THEN Further(f[n], i) ELSE f[i]]
  <2>2. ASSUME NEW i \in 0 .. n + 1
        PROVE  g[i] = IF i = 0 THEN Went("finished", m) ELSE Further(g[i - 1], i)
    <3>1. CASE i = n + 1
      <4>1. i - 1 = n /\ n \in 0 .. n + 1 /\ n # n + 1 /\ i # 0
        BY <3>1
      <4>2. g[n] = f[n]
        BY <4>1
      <4>3. QED
        BY <3>1, <4>1, <4>2
    <3>2. CASE i # n + 1 /\ i # 0
      <4>1. i \in 0 .. n /\ i - 1 \in 0 .. n + 1 /\ i - 1 # n + 1
        BY <3>2
      <4>2. g[i - 1] = f[i - 1] /\ g[i] = f[i]
        BY <3>2, <4>1
      <4>3. f[i] = Further(f[i - 1], i)
        BY <2>1, <3>2, <4>1
      <4>4. QED
        BY <3>2, <4>2, <4>3
    <3>3. CASE i = 0
      BY <2>1, <3>3
    <3>4. QED
      BY <3>1, <3>2, <3>3
  <2>3. Unfolds(g, n + 1)
    BY <2>2
  <2> HIDE DEF g, Unfolds
  <2>4. QED
    BY <2>3
<1>4. len \in reached
  <2> HIDE DEF reached
  <2>1. QED
    BY <1>2, <1>3, SetInduction
<1>5. PICK after : /\ after = RewrittenUpTo(c, side, m)
                   /\ after = [i \in 0 .. len |->
                         IF i = 0 THEN Went("finished", m) ELSE Further(after[i - 1], i)]
  BY <1>1, <1>4
<1>6. after[0] = Went("finished", m) /\ \A i \in 1 .. len : after[i] = Further(after[i - 1], i)
  <2>1. 0 \in 0 .. len /\ \A i \in 1 .. len : i \in 0 .. len /\ i # 0
    OBVIOUS
  <2>2. QED
    BY <1>5, <2>1
<1>7. QED
  BY <1>5, <1>6 DEF Further

\* A value that cannot be had ends an append-header.
LEMMA AppendedStays ==
    ASSUME NEW name, NEW values, NEW side, NEW m, Len(values) \in Nat,
           NEW k \in 0 .. Len(values), AppendedUpTo(name, values, side, m)[k].how # "finished"
    PROVE  AppendedUpTo(name, values, side, m)[Len(values)]
             = AppendedUpTo(name, values, side, m)[k]
<1> DEFINE len == Len(values)
<1>1. PICK after : after = AppendedUpTo(name, values, side, m)
  OBVIOUS
<1>2. \A i \in 1 .. len : after[i - 1].how # "finished" => after[i] = after[i - 1]
  <2>1. \A i \in 1 .. len : after[i] = AppendNext(after[i - 1], name, values[i], side)
    BY <1>1, AppendedRecursion
  <2>2. ASSUME NEW before, NEW i, before.how # "finished"
        PROVE  AppendNext(before, name, values[i], side) = before
    BY <2>2 DEF AppendNext
  <2>3. QED
    BY <2>1, <2>2
<1> DEFINE same == {n \in Nat : k + n <= len => after[k + n] = after[k]}
<1>3. 0 \in same
  OBVIOUS
<1>4. ASSUME NEW n \in Nat, n \in same PROVE n + 1 \in same
  <2> SUFFICES ASSUME k + (n + 1) <= len PROVE after[k + (n + 1)] = after[k]
    OBVIOUS
  <2>1. k + (n + 1) \in 1 .. len /\ (k + (n + 1)) - 1 = k + n /\ k + n <= len
    OBVIOUS
  <2>2. after[k + n] = after[k]
    BY <1>4, <2>1
  <2>3. QED
    BY <1>1, <1>2, <2>1, <2>2
<1>5. \A n \in Nat : n \in same
  <2> HIDE DEF same
  <2>1. QED
    BY <1>3, <1>4, SetInduction
<1>6. len - k \in Nat /\ k + (len - k) = len
  OBVIOUS
<1>7. QED
  BY <1>1, <1>5, <1>6

\* Lines of another kind change nothing, and neither does any line after an
\* operation that did not finish.
LEMMA RewrittenStays ==
    ASSUME NEW c, NEW side, NEW m, Len(c) \in Nat, NEW i \in 0 .. Len(c), NEW j \in i .. Len(c),
           \/ RewrittenUpTo(c, side, m)[i].how # "finished"
           \/ \A l \in i + 1 .. j : ~IsExecuted(c[l], side)
    PROVE  RewrittenUpTo(c, side, m)[j] = RewrittenUpTo(c, side, m)[i]
<1>1. PICK after : after = RewrittenUpTo(c, side, m)
  OBVIOUS
<1>2. \A l \in 1 .. Len(c) :
        after[l - 1].how # "finished" \/ ~IsExecuted(c[l], side) => after[l] = after[l - 1]
  BY <1>1, RewrittenRecursion DEF ExecuteNext
<1> DEFINE same == {n \in Nat : i + n <= j => after[i + n] = after[i]}
<1>3. 0 \in same
  OBVIOUS
<1>4. ASSUME NEW n \in Nat, n \in same PROVE n + 1 \in same
  <2> SUFFICES ASSUME i + (n + 1) <= j PROVE after[i + (n + 1)] = after[i]
    OBVIOUS
  <2>1. /\ i + (n + 1) \in 1 .. Len(c) /\ i + (n + 1) \in i + 1 .. j
        /\ (i + (n + 1)) - 1 = i + n /\ i + n <= j
    OBVIOUS
  <2>2. after[i + n] = after[i]
    BY <1>4, <2>1
  <2>3. after[i + n].how # "finished" \/ ~IsExecuted(c[i + (n + 1)], side)
    BY <1>1, <2>1, <2>2
  <2>4. QED
    BY <1>2, <2>1, <2>2, <2>3
<1>5. \A n \in Nat : n \in same
  <2> HIDE DEF same
  <2>1. QED
    BY <1>3, <1>4, SetInduction
<1>6. j - i \in Nat /\ i + (j - i) = j /\ j <= j
  OBVIOUS
<1>7. after[i + (j - i)] = after[i]
  BY <1>5, <1>6
<1>8. QED
  BY <1>1, <1>6, <1>7

----------------------------------------------------------------------------
\* What the constructor left and what the contract reads in the configuration.

LEMMA ReadToTheEnd ==
    ASSUME ConfigIInv, construction = "done", ~error
    PROVE  /\ Len(config) \in Nat /\ line = Len(config) + 1
           /\ DOMAIN config = 1 .. Len(config) /\ 1 .. line - 1 = 1 .. Len(config)
<1>1. config \in Configs /\ line = Len(config) + 1
  BY DEF ConfigIInv, ConfigTypeOK, StoppedForReason
<1>2. config \in Seq(Seq(STRING))
  BY <1>1, ConfigsAssumption
<1>3. Len(config) \in Nat /\ DOMAIN config = 1 .. Len(config)
  BY <1>2, LenProperties
<1>4. QED
  BY <1>1, <1>3

\* The map of a side is the one that the contract makes of the set-bools.
LEMMA VariablesStored ==
    ASSUME ConfigIInv, StoredInOrder, construction = "done", ~error, NEW s \in Sides
    PROVE  Variables(config, s) = bools[s]
<1>1. /\ Len(config) \in Nat /\ line = Len(config) + 1
      /\ DOMAIN config = 1 .. Len(config) /\ 1 .. line - 1 = 1 .. Len(config)
  BY ReadToTheEnd
<1>2. DOMAIN bools[s] = DeclaredAbove(config, line, s)
  BY DEF ConfigIInv, MapsMatchLines
<1>3. bools[s] = [n \in DOMAIN bools[s] |-> bools[s][n]]
  BY DEF ConfigIInv, ConfigTypeOK, BoolMap
<1>4. \A n \in DeclaredAbove(config, line, s) :
        bools[s][n] = ParsedBool(config[CHOOSE i \in DOMAIN config :
                                          SetsBool(config[i], s) /\ config[i][3] = n])
  <2> SUFFICES ASSUME NEW n \in DeclaredAbove(config, line, s)
               PROVE  bools[s][n] = ParsedBool(config[CHOOSE i \in DOMAIN config :
                                          SetsBool(config[i], s) /\ config[i][3] = n])
    OBVIOUS
  <2>1. PICK j \in DOMAIN config : SetsBool(config[j], s) /\ config[j][3] = n
    BY <1>1 DEF DeclaredAbove, SetsBool
  <2>2. PICK i : i = CHOOSE k \in DOMAIN config : SetsBool(config[k], s) /\ config[k][3] = n
    OBVIOUS
  <2>3. i \in DOMAIN config /\ SetsBool(config[i], s) /\ config[i][3] = n
    BY <2>1, <2>2
  <2>4. EnteredOf(s)
    BY StoredByLine
  <2>5. bools[s][config[i][3]] = ParsedBool(config[i])
    BY <1>1, <2>3, <2>4 DEF EnteredOf, SetsBool
  <2>6. QED
    BY <2>2, <2>3, <2>5
<1>5. QED
  BY <1>1, <1>2, <1>3, <1>4 DEF Variables

\* Positions of a side's operations, and their number up to a line, as ranks.
LEMMA OperationsRanked ==
    ASSUME ConfigIInv, StoredInOrder, construction = "done", ~error
    PROVE  LET own == OwnLines(ActiveSide)
           IN  /\ own \subseteq 1 .. Len(config)
               /\ \A i \in 1 .. Len(config) : i \in own <=> IsExecuted(config[i], ActiveSide)
               /\ Len(processors[ActiveSide]) = Cardinality(own)
               /\ \A i \in own : processors[ActiveSide][RankOf(i, own)] = ParsedOperation(config[i])
               /\ \A i \in 0 .. Len(config) : OperationsUpTo(i) = RankOf(i, own)
<1>1. Len(config) \in Nat /\ 1 .. line - 1 = 1 .. Len(config)
  BY ReadToTheEnd
<1>2. PICK own : own = OwnLines(ActiveSide)
  OBVIOUS
<1>3. own = {i \in 1 .. Len(config) : IsExecuted(config[i], ActiveSide)}
  BY <1>1, <1>2 DEF OwnLines, IsExecuted
<1>4. StoredOf(ActiveSide)
  BY StoredByLine, Sided
<1>5. \A i \in 0 .. Len(config) : OperationsUpTo(i) = RankOf(i, own)
  <2> SUFFICES ASSUME NEW i \in 0 .. Len(config) PROVE OperationsUpTo(i) = RankOf(i, own)
    OBVIOUS
  <2>1. {j \in 1 .. i : IsExecuted(config[j], ActiveSide)} = {j \in own : j <= i}
    BY <1>1, <1>3
  <2>2. QED
    BY <2>1 DEF OperationsUpTo, RankOf
<1>6. QED
  BY <1>2, <1>3, <1>4, <1>5 DEF StoredOf

\* The line of the operation that a handler is at.
LEMMA LineOfOperation ==
    ASSUME ConfigIInv, StoredInOrder, construction = "done", ~error,
           next \in Nat \ {0}, next <= Len(processors[ActiveSide])
    PROVE  \E l \in 1 .. Len(config) :
              /\ IsExecuted(config[l], ActiveSide) /\ ParsedOperation(config[l]) = Current
              /\ OperationsUpTo(l - 1) = next - 1
              /\ \A i \in 0 .. Len(config) : OperationsUpTo(i) = next =>
                   i \in l .. Len(config) /\ \A k \in l + 1 .. i : ~IsExecuted(config[k], ActiveSide)
<1>1. PICK own : own = OwnLines(ActiveSide)
  OBVIOUS
<1>2. PICK n \in Nat : n = Len(config)
  BY ReadToTheEnd
<1>3. /\ own \subseteq 1 .. n
      /\ \A i \in 1 .. n : i \in own <=> IsExecuted(config[i], ActiveSide)
      /\ Len(processors[ActiveSide]) = Cardinality(own)
      /\ \A i \in own : processors[ActiveSide][RankOf(i, own)] = ParsedOperation(config[i])
      /\ \A i \in 0 .. n : OperationsUpTo(i) = RankOf(i, own)
  BY <1>1, <1>2, OperationsRanked
<1>4. next \in 1 .. Cardinality(own)
  <2>1. Cardinality(own) \in Nat
    BY <1>3, PositionsFinite
  <2>2. QED
    BY <1>3, <2>1
<1>5. PICK l \in own : RankOf(l, own) = next
  BY <1>3, <1>4, RankTaken
<1>6. l \in Nat /\ l >= 1 /\ l \in 1 .. n /\ l - 1 \in 0 .. n
  BY <1>3
<1>7. RankOf(l - 1, own) = next - 1
  <2>1. RankOf(l - 1, own) \in Nat /\ RankOf(l, own) = RankOf(l - 1, own) + 1
    BY <1>3, <1>6, RankStep
  <2>2. QED
    BY <1>5, <2>1
<1>8. ASSUME NEW i \in 0 .. n, OperationsUpTo(i) = next
      PROVE  i \in l .. n /\ \A k \in l + 1 .. i : ~IsExecuted(config[k], ActiveSide)
  <2>1. RankOf(i, own) = next /\ i \in Nat
    BY <1>3, <1>8
  <2>2. ~(i < l)
    <3>1. ASSUME i < l PROVE FALSE
      <4>1. RankOf(i, own) \in Nat /\ RankOf(l, own) \in Nat /\ RankOf(i, own) < RankOf(l, own)
        BY <1>3, <1>6, <2>1, <3>1, RankGrows
      <4>2. QED
        BY <1>5, <2>1, <4>1
    <3>2. QED
      BY <3>1
  <2>3. ASSUME NEW k \in l + 1 .. i, k \in own PROVE FALSE
    <3>1. k \in Nat /\ l < k /\ k <= i
      BY <1>6, <2>1
    <3>2. RankOf(l, own) \in Nat /\ RankOf(k, own) \in Nat /\ RankOf(l, own) < RankOf(k, own)
      BY <1>3, <1>6, <2>3, <3>1, RankGrows
    <3>3. RankOf(k, own) <= RankOf(i, own)
      <4>1. CASE k = i
        BY <3>2, <4>1
      <4>2. CASE k < i
        BY <1>3, <2>1, <3>1, <4>2, RankGrows
      <4>3. QED
        BY <2>1, <3>1, <4>1, <4>2
    <3>4. QED
      BY <1>4, <1>5, <2>1, <3>2, <3>3
  <2>4. \A k \in l + 1 .. i : k \in 1 .. n
    BY <1>6, <1>8
  <2>5. QED
    BY <1>3, <1>6, <1>8, <2>1, <2>2, <2>3, <2>4
<1>9. ParsedOperation(config[l]) = Current /\ IsExecuted(config[l], ActiveSide)
  BY <1>3, <1>5, <1>6 DEF Current
<1>10. OperationsUpTo(l - 1) = next - 1
  BY <1>3, <1>6, <1>7
<1>11. QED
  BY <1>2, <1>6, <1>8, <1>9, <1>10

----------------------------------------------------------------------------
\* What the operations and their tokens mean.

LEMMA EvaluateGives ==
    ASSUME NEW t, NEW side, NEW m
    PROVE  LET r == Evaluate(t, side, m)
           IN  /\ r.status = "throw" <=> r = Throw
               /\ r.status = "error" <=> r = Error
               /\ r.status = "ok" => r = Ok(r.text)
               /\ r.status \in {"ok", "error", "throw"}
<1>1. PICK r : r = Evaluate(t, side, m)
  OBVIOUS
<1>2. r \in {Throw, Error} \/ \E x : r = Ok(x)
  <2>1. \A h, k, p : getHeaderValue(h, k, p) = Error \/ \E x : getHeaderValue(h, k, p) = Ok(x)
    BY DEF getHeaderValue
  <2>2. ASSUME NEW p, NEW n PROVE \E x : getUrlp(p, n) = Ok(x)
    <3> DEFINE params(i) == Params[p.query[i]]
               last == Len(p.query)
               hits == UNION {{i} \X {k \in DOMAIN params(i) :
                                       params(i)[k].name = n /\ (i = 1 \/ k > 1)} : i \in 1 .. last}
               first == CHOOSE h \in hits :
                           \A g \in hits : h[1] < g[1] \/ (h[1] = g[1] /\ h[2] <= g[2])
    <3>1. getUrlp(p, n) =
            CASE hits = {} -> Ok(<<>>)
              [] hits # {} /\ first[1] < last /\ first[2] = Len(params(first[1])) -> Ok(GluedValue)
              [] OTHER -> Ok(params(first[1])[first[2]].value)
      BY Zenon DEF getUrlp
    <3> HIDE DEF hits, first, params, last
    <3>2. QED
      BY <3>1
  <2>3. \A d, k : \E x : getDynamicMetadata(d, k) = Ok(x)
    BY DEF getDynamicMetadata
  <2>4. QED
    BY <1>1, <2>1, <2>2, <2>3 DEF Evaluate
<1>3. QED
  BY <1>1, <1>2 DEF Throw, Error, Ok

LEMMA OperateMeans ==
    ASSUME NEW p, NEW variables, NEW side, NEW m,
           NEW condition, condition = evaluateCondition(p.condition, variables, side, m)
    PROVE  /\ condition.status = "error" => Operate(p, variables, side, m) = Went("failed", m)
           /\ condition.status = "ok" /\ condition.value =>
                Operate(p, variables, side, m) = Effect(p, side, m)
           /\ condition.status = "ok" /\ ~condition.value =>
                Operate(p, variables, side, m) =
                  IF p.op = "set-path" /\ Evaluate(p.target, side, m) = Throw
                  THEN Went("crashed", m) ELSE Went("finished", m)
<1>1. /\ condition.status = "error" => Operate(p, variables, side, m) = Went("failed", m)
      /\ condition.status = "ok" /\ condition.value =>
           Operate(p, variables, side, m) = Effect(p, side, m)
  BY DEF Operate
<1>2. condition.status = "ok" /\ ~condition.value =>
        Operate(p, variables, side, m) =
          IF p.op = "set-path" /\ Evaluate(p.target, side, m) = Throw
          THEN Went("crashed", m) ELSE Went("finished", m)
  BY DEF Operate
<1>3. QED
  BY <1>1, <1>2

----------------------------------------------------------------------------
\* What a handler has made of the message, in terms of the contract.

LEMMA HandlerReady ==
    ASSUME ContractIInv, Executing
    PROVE  /\ StreamIInv /\ StoredInOrder /\ HandlerFollows /\ ConfigIInv /\ TypeOK
           /\ construction = "done" /\ ~error
           /\ next \in Nat \ {0} /\ Len(config) \in Nat
           /\ Variables(config, ActiveSide) = bools[ActiveSide]
           /\ ActiveSide \in Sides
<1>1. /\ StreamIInv /\ StoredInOrder /\ HandlerFollows /\ ConfigIInv /\ TypeOK
      /\ HandlersAfterConstruction
  BY DEF ContractIInv, StreamIInv
<1>2. construction = "done" /\ ~error
  BY <1>1 DEF HandlersAfterConstruction, Executing
<1>3. next \in Nat \ {0}
  BY <1>1 DEF TypeOK
<1>4. Len(config) \in Nat
  BY <1>1, <1>2, ReadToTheEnd
<1>5. Variables(config, ActiveSide) = bools[ActiveSide]
  BY <1>1, <1>2, Sided, VariablesStored
<1>6. QED
  BY <1>1, <1>2, <1>3, <1>4, <1>5, Sided

\* The operation at hand leaves went of the message: what the contract makes of
\* the message found up to the next operation, or at all.
OperationLeaves(went) ==
    IF went.how = "finished"
    THEN \A i \in 0 .. Len(config) : OperationsUpTo(i) = next =>
           RewrittenUpTo(config, ActiveSide, Found)[i] = went
    ELSE Rewritten(config, ActiveSide, Found) = went

LEMMA HandlerAtOperation ==
    ASSUME ContractIInv, Executing, next <= Len(processors[ActiveSide])
    PROVE  \E m : /\ IF appending = NotAppending THEN m = Message ELSE AppendFollows(m)
                  /\ OperationLeaves(Operate(Current, bools[ActiveSide], ActiveSide, m))
<1>1. /\ ConfigIInv /\ StoredInOrder /\ construction = "done" /\ ~error /\ HandlerFollows
      /\ next \in Nat \ {0} /\ Len(config) \in Nat
      /\ Variables(config, ActiveSide) = bools[ActiveSide]
  BY HandlerReady
<1>2. PICK l \in 1 .. Len(config) :
        /\ IsExecuted(config[l], ActiveSide) /\ ParsedOperation(config[l]) = Current
        /\ OperationsUpTo(l - 1) = next - 1
        /\ \A i \in 0 .. Len(config) : OperationsUpTo(i) = next =>
             i \in l .. Len(config) /\ \A k \in l + 1 .. i : ~IsExecuted(config[k], ActiveSide)
  BY <1>1, LineOfOperation
<1>3. PICK soFar : soFar = RewrittenUpTo(config, ActiveSide, Found)
  OBVIOUS
<1>4. PICK m : m = soFar[l - 1].message
  OBVIOUS
<1>5. /\ soFar[l - 1].how = "finished"
      /\ IF appending = NotAppending THEN m = Message ELSE AppendFollows(m)
  <2>1. l - 1 \in 0 .. Len(config)
    BY <1>1
  <2>2. QED
    BY <1>1, <1>2, <1>3, <1>4, <2>1 DEF HandlerFollows
<1>6. PICK went : went = Operate(Current, bools[ActiveSide], ActiveSide, m)
  OBVIOUS
<1>7. soFar[l] = went
  <2>1. soFar[l] = ExecuteNext(soFar[l - 1], config[l], bools[ActiveSide], ActiveSide)
    BY <1>1, <1>3, RewrittenRecursion
  <2>2. QED
    BY <1>2, <1>4, <1>5, <1>6, <2>1 DEF ExecuteNext
<1>8. l \in 0 .. Len(config) /\ Len(config) \in l .. Len(config)
  BY <1>1
<1>9. ASSUME NEW j \in l .. Len(config),
             went.how # "finished" \/ \A k \in l + 1 .. j : ~IsExecuted(config[k], ActiveSide)
      PROVE  soFar[j] = went
  BY <1>1, <1>3, <1>7, <1>8, <1>9, RewrittenStays
<1>10. OperationLeaves(went)
  <2>1. CASE went.how = "finished"
    BY <1>2, <1>3, <1>9, <2>1 DEF OperationLeaves
  <2>2. CASE went.how # "finished"
    BY <1>3, <1>8, <1>9, <2>2 DEF OperationLeaves, Rewritten
  <2>3. QED
    BY <2>1, <2>2
<1>11. QED
  BY <1>5, <1>6, <1>10

\* Behind its last operation a handler has made of the message all that the
\* contract does.
LEMMA HandlerAtEnd ==
    ASSUME ContractIInv, Executing, next > Len(processors[ActiveSide])
    PROVE  LET went == Rewritten(config, ActiveSide, Found)
           IN  went.how = "finished" /\ went.message = Message
<1>1. /\ StreamIInv /\ ConfigIInv /\ StoredInOrder /\ construction = "done" /\ ~error
      /\ HandlerFollows /\ next \in Nat \ {0} /\ Len(config) \in Nat /\ TypeOK
  BY HandlerReady
<1>2. PICK own : own = OwnLines(ActiveSide)
  OBVIOUS
<1>3. PICK n \in Nat : n = Len(config)
  BY <1>1
<1>4. /\ own \subseteq 1 .. n
      /\ Len(processors[ActiveSide]) = Cardinality(own)
      /\ \A i \in 0 .. n : OperationsUpTo(i) = RankOf(i, own)
  BY <1>1, <1>2, <1>3, OperationsRanked
<1>5. OperationsUpTo(n) = Cardinality(own) /\ Cardinality(own) \in Nat
  <2>1. n \in 0 .. n
    OBVIOUS
  <2>2. RankOf(n, own) = Cardinality(own)
    BY <1>4, FirstRank
  <2>3. Cardinality(own) \in Nat
    BY <1>4, PositionsFinite
  <2>4. QED
    BY <1>4, <2>1, <2>2, <2>3
<1>6. /\ next <= Len(processors[ActiveSide]) + 1
      /\ appending # NotAppending => next <= Len(processors[ActiveSide])
  BY <1>1 DEF StreamIInv, AtOperationOfSide
<1>7. next - 1 = Cardinality(own) /\ appending = NotAppending
  BY <1>1, <1>4, <1>5, <1>6
<1>8. PICK last : last = RewrittenUpTo(config, ActiveSide, Found)[n]
  OBVIOUS
<1>9. last.how = "finished" /\ last.message = Message
  BY <1>1, <1>3, <1>5, <1>7, <1>8 DEF HandlerFollows
<1>10. QED
  BY <1>3, <1>8, <1>9 DEF Rewritten

----------------------------------------------------------------------------
\* What a step of a handler shows.

\* A step of the stream is a step of the contract, or none, and leaves the
\* handler where the contract is.
HonouredStep == HandlerFollows' /\ (Contract!Next \/ UNCHANGED Contract!contractVars)

LEMMA NothingShows ==
    ASSUME StreamIInv, Executing, UNCHANGED <<phase, outcome, arrived, configVars>>,
           NEW h, headers' = [headers EXCEPT ![ActiveSide] = h],
           phase = "decoding" \/ path' = path
    PROVE  /\ UNCHANGED Contract!contractVars
           /\ UNCHANGED <<config, ActiveSide, Found>>
           /\ \A i : OperationsUpTo(i)' = OperationsUpTo(i)
<1>1. UNCHANGED <<config, construction, phase, arrived, outcome>>
  BY DEF configVars
<1>2. ActiveSide' = ActiveSide
  BY <1>1 DEF ActiveSide
<1>3. Found' = Found
  BY <1>1, <1>2 DEF Found
<1>4. Executing' /\ shownStage' = shownStage
  BY <1>1 DEF Executing, shownStage
<1>5. shownPath' = shownPath /\ shownMetadata' = shownMetadata
  BY <1>3, <1>4 DEF shownPath, shownMetadata
<1>6. shownHeaders' = shownHeaders
  <2>1. DOMAIN headers = Sides /\ headers = [s \in Sides |-> headers[s]]
    BY DEF StreamIInv, TypeOK
  <2>2. [headers' EXCEPT ![ActiveSide] = Found.headers]
          = [headers EXCEPT ![ActiveSide] = Found.headers]
    BY <2>1
  <2>3. QED
    BY <1>2, <1>3, <1>4, <2>2 DEF shownHeaders
<1>7. \A i : OperationsUpTo(i)' = OperationsUpTo(i)
  BY <1>1, <1>2 DEF OperationsUpTo
<1>8. QED
  BY <1>1, <1>2, <1>3, <1>4, <1>5, <1>6, <1>7 DEF Contract!contractVars

LEMMA HeadersUntouched ==
    ASSUME StreamIInv, headers' = headers
    PROVE  headers' = [headers EXCEPT ![ActiveSide] = headers[ActiveSide]]
BY Sided DEF StreamIInv, TypeOK

\* An operation that is done.
LEMMA AdvanceHonoured ==
    ASSUME ContractIInv, Executing, Advance, appending' = NotAppending,
           NEW h, headers' = [headers EXCEPT ![ActiveSide] = h],
           phase = "decoding" \/ path' = path,
           NEW m, m = Message', OperationLeaves(Went("finished", m))
    PROVE  HonouredStep
<1>1. /\ UNCHANGED Contract!contractVars
      /\ UNCHANGED <<config, ActiveSide, Found>>
      /\ \A i : OperationsUpTo(i)' = OperationsUpTo(i)
  BY HandlerReady, NothingShows DEF Advance
<1>2. next' - 1 = next
  BY HandlerReady DEF Advance
<1>3. \A i \in 0 .. Len(config) : OperationsUpTo(i) = next =>
        RewrittenUpTo(config, ActiveSide, Found)[i] = Went("finished", m)
  BY DEF OperationLeaves, Went
<1>4. HandlerFollows'
  <2> SUFFICES ASSUME NEW i \in 0 .. Len(config'), OperationsUpTo(i)' = next' - 1
               PROVE  LET soFar == RewrittenUpTo(config', ActiveSide', Found')[i]
                      IN  soFar.how = "finished" /\ soFar.message = m
    BY DEF HandlerFollows
  <2>1. RewrittenUpTo(config, ActiveSide, Found)[i] = Went("finished", m)
    BY <1>1, <1>2, <1>3
  <2>2. QED
    BY <1>1, <2>1 DEF Went
<1>5. QED
  BY <1>1, <1>4 DEF HonouredStep

\* A handler that ends.
LEMMA EndHonoured ==
    ASSUME ContractIInv, Executing, NEW went, went = Rewritten(config, ActiveSide, Found),
           went.message = Message,
           \/ went.how \in {"finished", "failed"} /\ Return(went.how)
           \/ went.how = "crashed" /\ Escape
    PROVE  HonouredStep
<1>1. /\ StreamIInv /\ construction = "done" /\ ActiveSide \in Sides
  BY HandlerReady
<1>2. UNCHANGED <<config, construction, headers, path, metadata>>
  BY DEF Return, Escape, message, configVars
<1>3. ~Executing' /\ HandlerFollows'
  BY DEF Executing, Return, Escape, HandlerFollows
<1>4. shownStage = phase /\ shownStage' = phase'
  BY <1>1, <1>2 DEF shownStage
<1>5. shownPath' = path /\ shownMetadata' = metadata /\ shownHeaders' = headers
  BY <1>2, <1>3 DEF shownPath, shownMetadata, shownHeaders
<1>6. DOMAIN headers = Sides /\ headers = [s \in Sides |-> headers[s]]
  BY <1>1 DEF StreamIInv, TypeOK
<1>7. [headers |-> shownHeaders[ActiveSide], path |-> shownPath, metadata |-> shownMetadata] = Found
  BY <1>1, <1>6 DEF shownHeaders, shownPath, shownMetadata, Found
<1>8. [shownHeaders EXCEPT ![ActiveSide] = went.message.headers] = headers
  <2>1. went.message.headers = headers[ActiveSide]
    BY DEF Message
  <2>2. shownHeaders = [headers EXCEPT ![ActiveSide] = Found.headers]
    BY DEF shownHeaders
  <2>3. QED
    BY <1>1, <1>6, <2>1, <2>2
<1>9. went.message.path = path /\ went.message.metadata = metadata
  BY DEF Message
<1>10. /\ phase' = "crashed" <=> went.how = "crashed"
       /\ outcome' = IF went.how = "crashed" THEN outcome
                     ELSE [outcome EXCEPT ![ActiveSide] = went.how]
  BY DEF Return, Escape
<1>11. CASE phase = "decoding"
  <2>1. ActiveSide = "http-request"
    BY <1>11 DEF ActiveSide
  <2>2. phase' \in {"decoded", "crashed"}
    BY <1>11 DEF Return, Escape
  <2>3. Contract!Rewrite("http-request", "decoding", "decoded")
    BY <1>2, <1>4, <1>5, <1>7, <1>8, <1>9, <1>10, <1>11, <2>1, <2>2 DEF Contract!Rewrite
  <2>4. QED
    BY <1>3, <2>3 DEF HonouredStep, Contract!Next
<1>12. CASE phase = "encoding"
  <2>1. ActiveSide = "http-response"
    BY <1>12 DEF ActiveSide
  <2>2. phase' \in {"encoded", "crashed"}
    BY <1>12 DEF Return, Escape
  <2>3. Contract!Rewrite("http-response", "encoding", "encoded")
    BY <1>2, <1>4, <1>5, <1>7, <1>8, <1>9, <1>10, <1>12, <2>1, <2>2 DEF Contract!Rewrite
  <2>4. QED
    BY <1>3, <2>3 DEF HonouredStep, Contract!Next
<1>13. QED
  BY <1>11, <1>12 DEF Executing

LEMMA FailureHonoured ==
    ASSUME ContractIInv, Executing, OperationLeaves(Went("failed", Message)), Return("failed")
    PROVE  HonouredStep
<1>1. PICK went : went = Rewritten(config, ActiveSide, Found)
  OBVIOUS
<1>2. went.how = "failed" /\ went.message = Message
  BY <1>1 DEF OperationLeaves, Went
<1>3. QED
  BY <1>1, <1>2, EndHonoured

LEMMA CrashHonoured ==
    ASSUME ContractIInv, Executing, OperationLeaves(Went("crashed", Message)), Escape
    PROVE  HonouredStep
<1>1. PICK went : went = Rewritten(config, ActiveSide, Found)
  OBVIOUS
<1>2. went.how = "crashed" /\ went.message = Message
  BY <1>1 DEF OperationLeaves, Went
<1>3. QED
  BY <1>1, <1>2, EndHonoured

----------------------------------------------------------------------------
\* The steps of a handler.

LEMMA FinishHandlerHonoured == ASSUME ContractIInv, FinishHandler PROVE HonouredStep
<1>1. Executing /\ next > Len(processors[ActiveSide]) /\ Return("finished")
  BY DEF FinishHandler
<1>2. PICK went : went = Rewritten(config, ActiveSide, Found)
  OBVIOUS
<1>3. went.how = "finished" /\ went.message = Message
  BY <1>1, <1>2, HandlerAtEnd
<1>4. QED
  BY <1>1, <1>2, <1>3, EndHonoured

\* What the contract makes of the message at the operation at hand.
LEMMA OperationJudged ==
    ASSUME ContractIInv, AtProcessor, NEW went,
           went = Operate(Current, bools[ActiveSide], ActiveSide, Message)
    PROVE  /\ Executing /\ next <= Len(processors[ActiveSide]) /\ appending = NotAppending
           /\ OperationLeaves(went)
           /\ Condition.status = "error" => went = Went("failed", Message)
           /\ Condition.status = "ok" /\ Condition.value => went = Effect(Current, ActiveSide, Message)
           /\ Condition.status = "ok" /\ ~Condition.value =>
                went = IF Current.op = "set-path" /\ Key = Throw
                       THEN Went("crashed", Message) ELSE Went("finished", Message)
<1>1. Executing /\ next <= Len(processors[ActiveSide]) /\ appending = NotAppending
  BY DEF AtProcessor
<1>2. OperationLeaves(went)
  BY <1>1, HandlerAtOperation
<1>3. PICK condition : condition = Condition
  OBVIOUS
<1>4. condition = evaluateCondition(Current.condition, bools[ActiveSide], ActiveSide, Message)
  BY <1>3 DEF Condition
<1>5. Key = Evaluate(Current.target, ActiveSide, Message)
  BY DEF Key, Value
<1>6. /\ condition.status = "error" => went = Went("failed", Message)
      /\ condition.status = "ok" /\ condition.value => went = Effect(Current, ActiveSide, Message)
      /\ condition.status = "ok" /\ ~condition.value =>
           went = IF Current.op = "set-path" /\ Evaluate(Current.target, ActiveSide, Message) = Throw
                  THEN Went("crashed", Message) ELSE Went("finished", Message)
  BY <1>4, OperateMeans
<1>7. QED
  BY <1>1, <1>2, <1>3, <1>5, <1>6

LEMMA ConditionErrorHonoured == ASSUME ContractIInv, ConditionError PROVE HonouredStep
<1>1. AtProcessor /\ Condition.status = "error" /\ Return("failed")
  BY DEF ConditionError
<1>2. Executing /\ OperationLeaves(Went("failed", Message))
  BY <1>1, OperationJudged
<1>3. QED
  BY <1>1, <1>2, FailureHonoured

LEMMA SkipOperationHonoured == ASSUME ContractIInv, SkipOperation PROVE HonouredStep
<1>1. /\ AtProcessor /\ Current.op # "set-path" /\ Advance /\ UNCHANGED <<message, appending>>
      /\ Condition.status = "ok" /\ ~Condition.value
  BY DEF SkipOperation
<1>2. PICK m : m = Message
  OBVIOUS
<1>3. Executing /\ appending = NotAppending /\ OperationLeaves(Went("finished", m))
  BY <1>1, <1>2, OperationJudged
<1>4. m = Message' /\ appending' = NotAppending /\ path' = path
  BY <1>1, <1>2, <1>3 DEF message, Message, ActiveSide, Advance
<1>5. PICK h : headers' = [headers EXCEPT ![ActiveSide] = h]
  BY <1>1, <1>3, HandlerReady, HeadersUntouched DEF message
<1>6. QED
  BY <1>1, <1>3, <1>4, <1>5, AdvanceHonoured

\* What comes of an operation that needs the results of its texts.
LEMMA ChangedGives ==
    ASSUME NEW results, NEW effect, NEW m
    PROVE  /\ Throw \in results => Changed(results, effect, m) = Went("crashed", m)
           /\ Throw \notin results /\ Error \in results =>
                Changed(results, effect, m) = Went("failed", m)
           /\ Throw \notin results /\ Error \notin results =>
                Changed(results, effect, m) = Went("finished", effect)
BY DEF Changed, How

LEMMA ExecuteSetHeaderHonoured == ASSUME ContractIInv, ExecuteSetHeader PROVE HonouredStep
<1>1. PICK key : key = Key
  OBVIOUS
<1>2. PICK value : value = Value(Current.values[1])
  OBVIOUS
<1>3. PICK m : m = Message
  OBVIOUS
<1>4. /\ AtProcessor /\ Current.op = "set-header" /\ Condition.status = "ok" /\ Condition.value
      /\ Executing /\ appending = NotAppending
      /\ OperationLeaves(Effect(Current, ActiveSide, m))
  <2>1. AtProcessor /\ Current.op = "set-header" /\ Condition.status = "ok" /\ Condition.value
    BY DEF ExecuteSetHeader, Applies, At
  <2>2. QED
    BY <1>3, <2>1, OperationJudged
<1>5. key = Evaluate(Current.target, ActiveSide, m) /\ value = Evaluate(Current.values[1], ActiveSide, m)
  BY <1>1, <1>2, <1>3 DEF Key, Value
<1>6. PICK effect : effect = [m EXCEPT !.headers = With(@, LowerCaseString(key.text), value.text)]
  OBVIOUS
<1>7. OperationLeaves(Changed({key, value}, effect, m))
  <2>1. Effect(Current, ActiveSide, m) = Changed({key, value}, effect, m)
    BY <1>4, <1>5, <1>6 DEF Effect
  <2>2. QED
    BY <1>4, <2>1
<1>8. /\ key.status = "throw" <=> key = Throw
      /\ key.status = "error" <=> key = Error
      /\ key.status \in {"ok", "error", "throw"}
      /\ value.status = "throw" <=> value = Throw
      /\ value.status = "error" <=> value = Error
      /\ value.status \in {"ok", "error", "throw"}
  BY <1>5, EvaluateGives
<1>9. LET results == {key.status, value.status}
      IN  CASE "throw" \in results   -> Escape
            [] results = {"ok"}      ->
                 /\ headers' = [headers EXCEPT ![ActiveSide] =
                       setCopy(@, LowerCaseString(key.text), value.text)]
                 /\ Advance
                 /\ UNCHANGED <<path, metadata, appending>>
            [] results \in {{"error"}, {"ok", "error"}} -> Return("failed")
  BY <1>1, <1>2 DEF ExecuteSetHeader
<1>10. CASE key = Throw \/ value = Throw
  <2>1. Escape
    BY <1>8, <1>9, <1>10
  <2>2. OperationLeaves(Went("crashed", Message))
    BY <1>3, <1>7, <1>10, ChangedGives
  <2>3. QED
    BY <1>4, <2>1, <2>2, CrashHonoured
<1>11. CASE key # Throw /\ value # Throw /\ (key = Error \/ value = Error)
  <2>1. Return("failed")
    <3>1. {key.status, value.status} \in {{"error"}, {"ok", "error"}}
      BY <1>8, <1>11
    <3>2. "throw" \notin {key.status, value.status} /\ {key.status, value.status} # {"ok"}
      BY <1>8, <1>11
    <3>3. QED
      BY <1>9, <3>1, <3>2
  <2>2. OperationLeaves(Went("failed", Message))
    BY <1>3, <1>7, <1>11, ChangedGives
  <2>3. QED
    BY <1>4, <2>1, <2>2, FailureHonoured
<1>12. CASE key # Throw /\ value # Throw /\ key # Error /\ value # Error
  <2>1. {key.status, value.status} = {"ok"} /\ "throw" \notin {key.status, value.status}
    BY <1>8, <1>12
  <2>2. /\ headers' = [headers EXCEPT ![ActiveSide] =
              setCopy(@, LowerCaseString(key.text), value.text)]
        /\ Advance /\ UNCHANGED <<path, metadata, appending>>
    BY <1>9, <2>1
  <2>3. effect = Message'
    <3>1. ActiveSide' = ActiveSide
      BY <2>2 DEF ActiveSide, Advance
    <3>2. headers'[ActiveSide] = With(headers[ActiveSide], LowerCaseString(key.text), value.text)
      BY <2>2, HandlerReady, <1>4 DEF TypeOK, setCopy
    <3>3. QED
      BY <1>3, <1>6, <2>2, <3>1, <3>2 DEF Message
  <2>4. OperationLeaves(Went("finished", effect))
    BY <1>7, <1>12, ChangedGives
  <2>5. PICK h : headers' = [headers EXCEPT ![ActiveSide] = h]
    BY <2>2
  <2>6. appending' = NotAppending /\ path' = path
    BY <1>4, <2>2
  <2>7. QED
    BY <1>4, <2>2, <2>3, <2>4, <2>5, <2>6, AdvanceHonoured
<1>13. QED
  BY <1>10, <1>11, <1>12

\* Inside an append-header: the message with which it began, and what the
\* contract makes of that with all the values.
LEMMA AppendJudged ==
    ASSUME ContractIInv, InAppend
    PROVE  /\ Executing /\ next <= Len(processors[ActiveSide]) /\ appending # NotAppending
           /\ \E m : /\ AppendFollows(m)
                     /\ OperationLeaves(AppendedUpTo(appending.key, Current.values, ActiveSide, m)
                                          [Len(Current.values)])
<1>1. StreamIInv /\ Executing /\ appending # NotAppending
  BY HandlerReady DEF InAppend
<1>2. next <= Len(processors[ActiveSide]) /\ Current.op = "append-header"
  BY <1>1, InsideAppend
<1>3. PICK m : /\ AppendFollows(m)
               /\ OperationLeaves(Operate(Current, bools[ActiveSide], ActiveSide, m))
  BY <1>1, <1>2, HandlerAtOperation
<1>4. PICK all : all = AppendedUpTo(appending.key, Current.values, ActiveSide, m)[Len(Current.values)]
  OBVIOUS
<1>5. PICK key : key = Evaluate(Current.target, ActiveSide, m)
  OBVIOUS
<1>6. PICK condition :
        condition = evaluateCondition(Current.condition, bools[ActiveSide], ActiveSide, m)
  OBVIOUS
<1>7. /\ condition.status = "ok" /\ condition.value
      /\ key.status = "ok" /\ appending.key = LowerCaseString(key.text)
  BY <1>3, <1>5, <1>6 DEF AppendFollows
<1>8. Operate(Current, bools[ActiveSide], ActiveSide, m) = Effect(Current, ActiveSide, m)
  BY <1>6, <1>7, OperateMeans
<1>9. AppendHeader(key, Current.values, ActiveSide, m) = all
  BY <1>4, <1>7 DEF AppendHeader
<1>10. Effect(Current, ActiveSide, m) = all
  BY <1>2, <1>5, <1>9 DEF Effect
<1>11. OperationLeaves(all)
  BY <1>3, <1>8, <1>10
<1>12. QED
  BY <1>1, <1>2, <1>3, <1>4, <1>11

\* One step into an append-header, or further in it.
LEMMA AppendGoesOn ==
    ASSUME ContractIInv, Executing,
           UNCHANGED <<phase, next, path, metadata, outcome, arrived, configVars>>,
           NEW h, headers' = [headers EXCEPT ![ActiveSide] = h],
           appending' # NotAppending,
           \A m : (IF appending = NotAppending THEN m = Message ELSE AppendFollows(m))
                    => AppendFollows(m)'
    PROVE  HonouredStep
<1>1. /\ UNCHANGED Contract!contractVars
      /\ UNCHANGED <<config, ActiveSide, Found>>
      /\ \A i : OperationsUpTo(i)' = OperationsUpTo(i)
  BY HandlerReady, NothingShows
<1>2. HandlerFollows
  BY HandlerReady
<1>3. HandlerFollows'
  <2> SUFFICES ASSUME NEW i \in 0 .. Len(config'), OperationsUpTo(i)' = next' - 1
               PROVE  LET soFar == RewrittenUpTo(config', ActiveSide', Found')[i]
                      IN  soFar.how = "finished" /\ \E m : m = soFar.message /\ AppendFollows(m)'
    BY DEF HandlerFollows, AppendFollows
  <2>1. PICK soFar : soFar = RewrittenUpTo(config, ActiveSide, Found)[i]
    OBVIOUS
  <2>2. /\ soFar.how = "finished"
        /\ IF appending = NotAppending THEN soFar.message = Message
           ELSE AppendFollows(soFar.message)
    BY <1>1, <1>2, <2>1 DEF HandlerFollows
  <2>3. PICK m : m = soFar.message
    OBVIOUS
  <2>4. AppendFollows(m)'
    BY <2>2, <2>3
  <2>5. QED
    BY <1>1, <2>1, <2>2, <2>3, <2>4
<1>4. QED
  BY <1>1, <1>3 DEF HonouredStep

LEMMA BeginAppendHonoured == ASSUME ContractIInv, BeginAppend PROVE HonouredStep
<1>1. PICK key : key = Key
  OBVIOUS
<1>2. PICK m : m = Message
  OBVIOUS
<1>3. /\ AtProcessor /\ Current.op = "append-header" /\ Condition.status = "ok" /\ Condition.value
      /\ Executing /\ appending = NotAppending /\ next <= Len(processors[ActiveSide])
      /\ OperationLeaves(Effect(Current, ActiveSide, m))
  <2>1. AtProcessor /\ Current.op = "append-header" /\ Condition.status = "ok" /\ Condition.value
    BY DEF BeginAppend, Applies, At
  <2>2. QED
    BY <1>2, <2>1, OperationJudged
<1>4. key = Evaluate(Current.target, ActiveSide, m)
  BY <1>1, <1>2 DEF Key, Value
<1>5. /\ key.status = "throw" <=> key = Throw
      /\ key.status = "error" <=> key = Error
      /\ key.status \in {"ok", "error", "throw"}
  BY <1>4, EvaluateGives
<1>6. key.status # "ok" => Effect(Current, ActiveSide, m) = Changed({key}, m, m)
  BY <1>3, <1>4 DEF Effect, AppendHeader
<1>7. CASE key.status = "throw"
  <2>1. Escape
    BY <1>1, <1>7 DEF BeginAppend
  <2>2. OperationLeaves(Went("crashed", Message))
    BY <1>2, <1>3, <1>5, <1>6, <1>7, ChangedGives
  <2>3. QED
    BY <1>3, <2>1, <2>2, CrashHonoured
<1>8. CASE key.status = "error"
  <2>1. Return("failed")
    BY <1>1, <1>8 DEF BeginAppend
  <2>2. OperationLeaves(Went("failed", Message))
    BY <1>2, <1>3, <1>5, <1>6, <1>8, ChangedGives
  <2>3. QED
    BY <1>3, <2>1, <2>2, FailureHonoured
<1>9. CASE key.status = "ok"
  <2>1. /\ appending' = [key |-> LowerCaseString(key.text), count |-> 0]
        /\ UNCHANGED <<phase, next, message, outcome, arrived, configVars>>
    BY <1>1, <1>9 DEF BeginAppend
  <2>2. UNCHANGED <<processors, bools, ActiveSide, Message, Current>>
    BY <2>1 DEF configVars, message, ActiveSide, Message, Current
  <2>3. PICK h : headers' = [headers EXCEPT ![ActiveSide] = h]
    BY <1>3, <2>1, HandlerReady, HeadersUntouched DEF message
  <2>4. appending' # NotAppending
    BY <2>1 DEF NotAppending
  <2>5. AppendedUpTo(appending'.key, Current.values, ActiveSide, m)[appending'.count]
          = Went("finished", m)
    <3>1. Len(Current.values) \in Nat
      <4>1. ConfigIInv /\ TypeOK
        BY <1>3, HandlerReady
      <4>2. Current.values \in Seq(STRING)
        BY <1>3, <4>1, OperationAt DEF Processor
      <4>3. QED
        BY <4>2, LenProperties
    <3>2. appending'.count = 0
      BY <2>1
    <3>3. QED
      BY <3>1, <3>2, AppendedRecursion
  <2>6. AppendFollows(m)'
    <3>1. /\ Condition = evaluateCondition(Current.condition, bools[ActiveSide], ActiveSide, m)
          /\ appending'.key = LowerCaseString(key.text)
      BY <1>2, <2>1 DEF Condition
    <3>2. QED
      BY <1>2, <1>3, <1>4, <1>9, <2>2, <2>5, <3>1 DEF AppendFollows
  <2>7. \A x : (IF appending = NotAppending THEN x = Message ELSE AppendFollows(x))
                  => AppendFollows(x)'
    BY <1>2, <1>3, <2>6
  <2>8. UNCHANGED <<phase, next, path, metadata, outcome, arrived, configVars>>
    BY <2>1 DEF message
  <2>9. QED
    BY <1>3, <2>3, <2>4, <2>7, <2>8, AppendGoesOn
<1>10. QED
  BY <1>5, <1>7, <1>8, <1>9

LEMMA AppendValueHonoured == ASSUME ContractIInv, AppendValue PROVE HonouredStep
<1> DEFINE len == Len(Current.values)
<1>1. /\ StreamIInv /\ InAppend /\ Executing /\ appending # NotAppending
      /\ ConfigIInv /\ TypeOK /\ ActiveSide \in Sides
      /\ next <= Len(processors[ActiveSide])
  BY HandlerReady, AppendJudged DEF AppendValue, InAppend
<1>2. len \in Nat /\ appending.count \in 0 .. len /\ appending.count < len
  BY <1>1, InsideAppend DEF AppendValue
<1>3. PICK n : n = appending.count
  OBVIOUS
<1>4. n \in 0 .. len /\ n < len /\ n + 1 \in 1 .. len /\ n + 1 \in 0 .. len /\ (n + 1) - 1 = n
  BY <1>2, <1>3
<1>5. PICK v : v = Current.values[n + 1]
  OBVIOUS
<1>6. PICK value : value = Value(v)
  OBVIOUS
<1>7. CASE value.status = "ok"
  <2>1. /\ headers' = [headers EXCEPT ![ActiveSide] = appendCopy(@, appending.key, value.text)]
        /\ appending' = [appending EXCEPT !.count = @ + 1]
        /\ UNCHANGED <<phase, next, path, metadata, outcome, arrived, configVars>>
    BY <1>3, <1>5, <1>6, <1>7 DEF AppendValue
  <2>2. UNCHANGED <<processors, bools, ActiveSide, Current>>
    BY <2>1 DEF configVars, ActiveSide, Current
  <2>3. appending' # NotAppending /\ appending'.key = appending.key /\ appending'.count = n + 1
    BY <1>1, <1>3, <1>4, <2>1 DEF NotAppending, TypeOK
  <2>4. Message' = HeaderAppended(appending.key, value.text, Message)
    <3>1. headers'[ActiveSide] = appendCopy(headers[ActiveSide], appending.key, value.text)
      BY <1>1, <2>1 DEF TypeOK
    <3>2. QED
      BY <2>1, <2>2, <3>1 DEF Message, HeaderAppended, appendCopy
  <2>5. ASSUME NEW m, AppendFollows(m) PROVE AppendFollows(m)'
    <3>1. PICK after : after = AppendedUpTo(appending.key, Current.values, ActiveSide, m)
      OBVIOUS
    <3>2. after[n + 1] = AppendNext(after[n], appending.key, v, ActiveSide)
      BY <1>2, <1>4, <1>5, <3>1, AppendedRecursion
    <3>3. after[n] = Went("finished", Message)
      BY <1>3, <2>5, <3>1 DEF AppendFollows
    <3>4. value = Evaluate(v, ActiveSide, Message)
      BY <1>6 DEF Value
    <3>5. PICK before : before = after[n]
      OBVIOUS
    <3>6. before.how = "finished" /\ before.message = Message
      BY <3>3, <3>5 DEF Went
    <3>7. AppendNext(before, appending.key, v, ActiveSide)
            = Changed({value}, HeaderAppended(appending.key, value.text, Message), Message)
      BY <3>4, <3>6 DEF AppendNext
    <3>8. Throw \notin {value} /\ Error \notin {value}
      BY <1>7 DEF Throw, Error
    <3>9. after[n + 1] = Went("finished", Message')
      BY <2>4, <3>2, <3>5, <3>7, <3>8, ChangedGives
    <3>10. QED
      BY <2>2, <2>3, <2>5, <3>1, <3>9 DEF AppendFollows
  <2>6. PICK h : headers' = [headers EXCEPT ![ActiveSide] = h]
    BY <2>1
  <2>7. \A m : (IF appending = NotAppending THEN m = Message ELSE AppendFollows(m))
                  => AppendFollows(m)'
    BY <1>1, <2>5
  <2>8. QED
    BY <1>1, <2>1, <2>3, <2>6, <2>7, AppendGoesOn
<1>8. ASSUME value.status # "ok" PROVE HonouredStep
  <2>1. PICK m : /\ AppendFollows(m)
                 /\ OperationLeaves(AppendedUpTo(appending.key, Current.values, ActiveSide, m)
                                      [Len(Current.values)])
    BY <1>1, AppendJudged
  <2>2. PICK after : after = AppendedUpTo(appending.key, Current.values, ActiveSide, m)
    OBVIOUS
  <2>3. PICK last : last = after[n + 1]
    OBVIOUS
  <2>4. last = AppendNext(after[n], appending.key, v, ActiveSide)
    BY <1>2, <1>4, <1>5, <2>2, <2>3, AppendedRecursion
  <2>5. PICK before : before = after[n]
    OBVIOUS
  <2>6. before.how = "finished" /\ before.message = Message
    BY <1>3, <2>1, <2>2, <2>5 DEF AppendFollows, Went
  <2>7. value = Evaluate(v, ActiveSide, Message)
    BY <1>6 DEF Value
  <2>8. last = Changed({value}, HeaderAppended(appending.key, value.text, Message), Message)
    BY <2>4, <2>5, <2>6, <2>7 DEF AppendNext
  <2>9. /\ value.status = "throw" <=> value = Throw
        /\ value.status = "error" <=> value = Error
        /\ value.status \in {"ok", "error", "throw"}
    BY <2>7, EvaluateGives
  <2>10. Throw # Error
    BY DEF Throw, Error
  <2>11. last = Went(IF value.status = "throw" THEN "crashed" ELSE "failed", Message)
    BY <1>8, <2>8, <2>9, <2>10, ChangedGives
  <2>12. last.how # "finished"
    BY <2>11 DEF Went
  <2>13. OperationLeaves(last)
    <3>1. after[len] = last
      BY <1>2, <1>4, <2>2, <2>3, <2>12, AppendedStays
    <3>2. QED
      BY <2>1, <2>2, <3>1
  <2>14. CASE value.status = "throw"
    <3>1. Escape
      BY <1>3, <1>5, <1>6, <2>14 DEF AppendValue
    <3>2. OperationLeaves(Went("crashed", Message))
      BY <2>11, <2>13, <2>14
    <3>3. QED
      BY <1>1, <3>1, <3>2, CrashHonoured
  <2>15. CASE value.status = "error"
    <3>1. Return("failed")
      BY <1>3, <1>5, <1>6, <2>15 DEF AppendValue
    <3>2. OperationLeaves(Went("failed", Message))
      BY <2>11, <2>13, <2>15
    <3>3. QED
      BY <1>1, <3>1, <3>2, FailureHonoured
  <2>16. QED
    BY <1>8, <2>9, <2>14, <2>15
<1>9. QED
  BY <1>7, <1>8

LEMMA EndAppendHonoured == ASSUME ContractIInv, EndAppend PROVE HonouredStep
<1>1. /\ InAppend /\ appending.count = Len(Current.values) /\ appending' = NotAppending
      /\ Advance /\ UNCHANGED message
  BY DEF EndAppend
<1>2. /\ Executing
      /\ \E m : /\ AppendFollows(m)
                /\ OperationLeaves(AppendedUpTo(appending.key, Current.values, ActiveSide, m)
                                     [Len(Current.values)])
  BY <1>1, AppendJudged
<1>3. PICK m : m = Message
  OBVIOUS
<1>4. OperationLeaves(Went("finished", m))
  BY <1>1, <1>2, <1>3 DEF AppendFollows
<1>5. m = Message' /\ path' = path
  BY <1>1, <1>3 DEF message, Message, ActiveSide, Advance
<1>6. PICK h : headers' = [headers EXCEPT ![ActiveSide] = h]
  BY <1>1, <1>2, HandlerReady, HeadersUntouched DEF message
<1>7. QED
  BY <1>1, <1>2, <1>4, <1>5, <1>6, AdvanceHonoured

LEMMA ExecuteSetPathHonoured == ASSUME ContractIInv, ExecuteSetPath PROVE HonouredStep
<1>1. PICK key : key = Key
  OBVIOUS
<1>2. PICK m : m = Message
  OBVIOUS
<1>3. PICK went : went = Operate(Current, bools[ActiveSide], ActiveSide, Message)
  OBVIOUS
<1>4. AtProcessor /\ Current.op = "set-path" /\ Condition.status = "ok"
  BY DEF ExecuteSetPath, At
<1>5. /\ Executing /\ next <= Len(processors[ActiveSide]) /\ appending = NotAppending
      /\ OperationLeaves(went)
  BY <1>3, <1>4, OperationJudged
<1>6. /\ Condition.value => went = Effect(Current, ActiveSide, Message)
      /\ ~Condition.value =>
           went = IF key = Throw THEN Went("crashed", Message) ELSE Went("finished", Message)
  BY <1>1, <1>3, <1>4, OperationJudged
<1>7. StreamIInv /\ ConfigIInv /\ TypeOK /\ path \in Path
  BY <1>5, HandlerReady DEF TypeOK
<1>8. key \in Result /\ ActiveSide = "http-request"
  BY <1>1, <1>4, <1>5, <1>7, KeyOfOperation, OperationAt
<1>9. phase = "decoding"
  BY <1>8 DEF ActiveSide
<1>10. key = Evaluate(Current.target, ActiveSide, Message)
  BY <1>1 DEF Key, Value
<1>11. Effect(Current, ActiveSide, Message)
         = Changed({key} \ {Error}, PathSet(key.text, Message), Message)
  BY <1>4, <1>10 DEF Effect
<1>12. key.status = "throw" <=> key = Throw
  BY <1>10, EvaluateGives
<1>13. Throw # Error
  BY DEF Throw, Error
<1>14. CASE key = Throw
  <2>1. Escape
    BY <1>1, <1>12, <1>14 DEF ExecuteSetPath
  <2>2. went = Went("crashed", Message)
    <3>1. Throw \in {key} \ {Error}
      BY <1>13, <1>14
    <3>2. QED
      BY <1>6, <1>11, <1>14, <3>1, ChangedGives
  <2>3. QED
    BY <1>5, <2>1, <2>2, CrashHonoured
<1>15. CASE key # Throw
  <2>1. /\ path' = IF Condition.value THEN NewPath(key.text) ELSE path
        /\ Advance /\ UNCHANGED <<headers, metadata, appending>>
    BY <1>1, <1>12, <1>15 DEF ExecuteSetPath
  <2>2. PICK h : headers' = [headers EXCEPT ![ActiveSide] = h]
    BY <1>7, <2>1, HeadersUntouched
  <2>3. ActiveSide' = ActiveSide /\ headers' = headers /\ metadata' = metadata
    BY <2>1 DEF ActiveSide, Advance
  <2>4. went = Went("finished", IF Condition.value THEN PathSet(key.text, Message) ELSE Message)
    <3>1. Throw \notin {key} \ {Error} /\ Error \notin {key} \ {Error}
      BY <1>15
    <3>2. QED
      BY <1>6, <1>11, <1>15, <3>1, ChangedGives
  <2>5. Message' = IF Condition.value THEN PathSet(key.text, Message) ELSE Message
    <3>1. CASE ~Condition.value
      BY <2>1, <2>3, <3>1 DEF Message
    <3>2. CASE Condition.value
      <4>1. PICK x \in Text : x = key.text
        BY <1>8 DEF Result
      <4>2. PICK old : old = PathOf(x)
        OBVIOUS
      <4>3. old \in Path
        BY <4>2, PathOfText
      <4>4. path' = [base |-> old.base, query |-> old.query \o path.query]
        <5>1. path' = [old EXCEPT !.query = @ \o path.query]
          BY <2>1, <3>2, <4>1, <4>2 DEF NewPath
        <5>2. QED
          BY <4>3, <5>1 DEF Path
      <4>5. PathSet(x, Message)
              = [Message EXCEPT !.path = [base |-> old.base, query |-> old.query \o @.query]]
        BY <4>2 DEF PathSet, PathOf
      <4>6. PathSet(x, Message) = [headers |-> headers[ActiveSide], path |-> path',
                                   metadata |-> metadata]
        BY <4>4, <4>5 DEF Message
      <4>7. QED
        BY <2>3, <3>2, <4>1, <4>6 DEF Message
    <3>3. QED
      BY <3>1, <3>2
  <2>6. PICK n : n = Message'
    OBVIOUS
  <2>7. OperationLeaves(Went("finished", n))
    BY <1>5, <2>4, <2>5, <2>6
  <2>8. appending' = NotAppending
    BY <1>5, <2>1
  <2>9. QED
    BY <1>5, <1>9, <2>1, <2>2, <2>6, <2>7, <2>8, AdvanceHonoured
<1>16. QED
  BY <1>14, <1>15

LEMMA ExecuteSetMetadataHonoured == ASSUME ContractIInv, ExecuteSetMetadata PROVE HonouredStep
<1>1. PICK key : key = Key
  OBVIOUS
<1>2. PICK value : value = Value(Current.values[1])
  OBVIOUS
<1>3. PICK m : m = Message
  OBVIOUS
<1>4. /\ AtProcessor /\ Current.op = "set-metadata" /\ Condition.status = "ok" /\ Condition.value
      /\ Executing /\ appending = NotAppending
      /\ OperationLeaves(Effect(Current, ActiveSide, m))
  <2>1. AtProcessor /\ Current.op = "set-metadata" /\ Condition.status = "ok" /\ Condition.value
    BY DEF ExecuteSetMetadata, Applies, At
  <2>2. QED
    BY <1>3, <2>1, OperationJudged
<1>5. key = Evaluate(Current.target, ActiveSide, m) /\ value = Evaluate(Current.values[1], ActiveSide, m)
  BY <1>1, <1>2, <1>3 DEF Key, Value
<1>6. Effect(Current, ActiveSide, m) =
        IF {key, value} \cap {Throw, Error, Ok(<<>>)} = {}
        THEN Went("finished", [m EXCEPT !.metadata = With(@, key.text, value.text)])
        ELSE Went("failed", m)
  BY <1>4, <1>5 DEF Effect
<1>7. ASSUME NEW t, NEW r, r = Evaluate(t, ActiveSide, m)
      PROVE  IsValue(r) <=> r \notin {Throw, Error, Ok(<<>>)}
  <2>1. /\ r.status = "throw" <=> r = Throw
        /\ r.status = "error" <=> r = Error
        /\ r.status = "ok" => r = Ok(r.text)
        /\ r.status \in {"ok", "error", "throw"}
    BY <1>7, EvaluateGives
  <2>2. r = Ok(<<>>) => r.text = <<>> /\ r.status = "ok"
    BY DEF Ok
  <2>3. QED
    BY <2>1, <2>2 DEF IsValue
<1>8. IsValue(key) /\ IsValue(value) <=> {key, value} \cap {Throw, Error, Ok(<<>>)} = {}
  <2>1. IsValue(key) <=> key \notin {Throw, Error, Ok(<<>>)}
    BY <1>5, <1>7
  <2>2. IsValue(value) <=> value \notin {Throw, Error, Ok(<<>>)}
    BY <1>5, <1>7
  <2>3. QED
    BY <2>1, <2>2
<1>9. CASE IsValue(key) /\ IsValue(value)
  <2>1. /\ metadata' = mergeStruct(metadata, key.text, value.text)
        /\ Advance /\ UNCHANGED <<headers, path, appending>>
    BY <1>1, <1>2, <1>9 DEF ExecuteSetMetadata
  <2>2. PICK h : headers' = [headers EXCEPT ![ActiveSide] = h]
    BY <1>4, <2>1, HandlerReady, HeadersUntouched
  <2>3. PICK n : n = [m EXCEPT !.metadata = With(@, key.text, value.text)]
    OBVIOUS
  <2>4. n = Message'
    <3>1. ActiveSide' = ActiveSide
      BY <2>1 DEF ActiveSide, Advance
    <3>2. metadata' = With(metadata, key.text, value.text)
      BY <2>1 DEF mergeStruct
    <3>3. QED
      BY <1>3, <2>1, <2>3, <3>1, <3>2 DEF Message
  <2>5. OperationLeaves(Went("finished", n))
    BY <1>4, <1>6, <1>8, <1>9, <2>3
  <2>6. appending' = NotAppending /\ path' = path
    BY <1>4, <2>1
  <2>7. QED
    BY <1>4, <2>1, <2>2, <2>4, <2>5, <2>6, AdvanceHonoured
<1>10. CASE ~(IsValue(key) /\ IsValue(value))
  <2>1. Return("failed")
    BY <1>1, <1>2, <1>10 DEF ExecuteSetMetadata
  <2>2. OperationLeaves(Went("failed", Message))
    BY <1>3, <1>4, <1>6, <1>8, <1>10
  <2>3. QED
    BY <1>4, <2>1, <2>2, FailureHonoured
<1>11. QED
  BY <1>9, <1>10

\* Every step of a handler.
LEMMA HandlerStepHonoured == ASSUME ContractIInv, HandlerStep PROVE HonouredStep
BY FinishHandlerHonoured, ConditionErrorHonoured, SkipOperationHonoured,
   ExecuteSetHeaderHonoured, BeginAppendHonoured, AppendValueHonoured, EndAppendHonoured,
   ExecuteSetPathHonoured, ExecuteSetMetadataHonoured DEF HandlerStep

----------------------------------------------------------------------------
\* The steps of the constructor.

\* Where the constructor comes to its end, the contract refuses nothing, and
\* finds bad lines where it has found one.
LEMMA EndIsAgreed ==
    ASSUME ContractIInv, construction = "done"
    PROVE  ~Throws(config) /\ (AllGood(config) <=> ~error)
<1>1. ConfigIInv /\ ConfigTypeOK /\ LinesAboveParse /\ StoppedForReason
  BY DEF ContractIInv, StreamIInv, ConfigIInv
<1>2. /\ config \in Configs /\ line \in 1 .. Len(config) + 1 /\ error \in BOOLEAN
      /\ DOMAIN config = 1 .. Len(config) /\ Len(config) \in Nat
  <2>1. config \in Configs /\ line \in 1 .. Len(config) + 1 /\ error \in BOOLEAN
    BY <1>1 DEF ConfigTypeOK
  <2>2. config \in Seq(Seq(STRING))
    BY <2>1, ConfigsAssumption
  <2>3. QED
    BY <2>1, <2>2, LenProperties
<1>3. \A i \in 1 .. line - 1 : LineParses(config, i)
  BY <1>1 DEF LinesAboveParse
<1>4. error => line <= Len(config) /\ ~LineParses(config, line) /\ ~NamelessBool(config[line])
  BY <1>1 DEF StoppedForReason, ContractIInv
<1>5. ~error => line = Len(config) + 1
  BY <1>1 DEF StoppedForReason
<1>6. ASSUME NEW i, NamelessBool(config[i]) PROVE ~LineParses(config, i)
  BY <1>6 DEF NamelessBool, LineParses, BoolParses
<1>7. AllGood(config) <=> ~error
  BY <1>2, <1>3, <1>4, <1>5 DEF AllGood
<1>8. ASSUME NEW i \in 1 .. Len(config), NamelessBool(config[i]),
             \A j \in 1 .. i - 1 : LineParses(config, j)
      PROVE  FALSE
  <2>1. ~LineParses(config, i)
    BY <1>6, <1>8
  <2>2. ~(i < line)
    BY <1>2, <1>3, <2>1
  <2>3. error /\ line <= i
    BY <1>2, <1>5, <2>2
  <2>4. line # i
    BY <1>4, <1>8, <2>3
  <2>5. line \in 1 .. i - 1
    BY <1>2, <2>3, <2>4
  <2>6. QED
    BY <1>4, <1>8, <2>3, <2>5
<1>9. QED
  BY <1>2, <1>7, <1>8 DEF Throws

LEMMA ConstructHonoured ==
    ASSUME ContractIInv, Construct, UNCHANGED streamVars
    PROVE  /\ HonouredStep
           /\ error' => ~NamelessBool(config'[line'])
<1>1. construction = "running" /\ phase = "idle" /\ config' = config
  <2>1. construction = "running" /\ config' = config
    BY DEF Construct, RejectLine, ParseSetHeader, ParseSetMetadata, ParseAppendHeader,
           ParseSetPath, SetBoolThrows, ParseSetBool, FinishConstruction, AtOperation, AtLine,
           Push, setError
  <2>2. QED
    BY <2>1 DEF ContractIInv, StreamIInv, HandlersAfterConstruction
<1>2. UNCHANGED <<phase, headers, path, metadata, outcome, arrived>>
  BY DEF streamVars
<1>3. ~Executing /\ ~Executing' /\ HandlerFollows'
  BY <1>1, <1>2 DEF Executing, HandlerFollows
<1>4. UNCHANGED <<config, shownHeaders, shownPath, shownMetadata, outcome>>
  BY <1>1, <1>2, <1>3 DEF shownHeaders, shownPath, shownMetadata
<1>5. shownStage = "idle" /\ shownStage' = IF construction' = "threw" THEN "threw" ELSE "idle"
  BY <1>1, <1>2 DEF shownStage
<1>6. error = FALSE
  BY <1>1 DEF ContractIInv, StreamIInv, ConfigIInv, ConfigTypeOK, StoppedForReason
<1>7. CASE SetBoolThrows
  <2>1. /\ AtLine /\ NamelessBool(config[line]) /\ construction' = "threw"
        /\ error' = error /\ line' = line
    BY <1>7 DEF SetBoolThrows, AtOperation, Recognised, Tokens, Side, Operation, NamelessBool
  <2>2. line \in DOMAIN config
    <3>1. config \in Configs /\ line \in 1 .. Len(config) + 1
      BY DEF ContractIInv, StreamIInv, ConfigIInv, ConfigTypeOK
    <3>2. config \in Seq(Seq(STRING))
      BY <3>1, ConfigsAssumption
    <3>3. QED
      BY <2>1, <3>1, <3>2, LenProperties DEF AtLine
  <2>3. Throws(config)
    BY <2>1, <2>2 DEF Throws, ContractIInv, StreamIInv, ConfigIInv, LinesAboveParse
  <2>4. Contract!Refuse
    BY <1>4, <1>5, <2>1, <2>3 DEF Contract!Refuse
  <2>5. QED
    BY <1>3, <1>6, <2>1, <2>4 DEF HonouredStep, Contract!Next
<1>8. CASE ~SetBoolThrows
  <2>1. construction' \in {"running", "done"}
    BY <1>1, <1>8 DEF Construct, RejectLine, ParseSetHeader, ParseSetMetadata, ParseAppendHeader,
           ParseSetPath, ParseSetBool, FinishConstruction, Push, setError
  <2>2. UNCHANGED Contract!contractVars
    BY <1>4, <1>5, <2>1 DEF Contract!contractVars
  <2>3. \/ error' = FALSE
        \/ /\ line' = line
           /\ ~Recognised \/ Operation # "set-bool" \/ Len(Tokens) > 2
    <3>1. CASE RejectLine
      BY <3>1 DEF RejectLine, setError
    <3>2. CASE ParseSetHeader \/ ParseSetMetadata \/ ParseAppendHeader \/ ParseSetPath
      <4>1. Operation # "set-bool"
        BY <3>2 DEF ParseSetHeader, ParseSetMetadata, ParseAppendHeader, ParseSetPath, AtOperation
      <4>2. error' = FALSE \/ line' = line
        BY <1>6, <3>2 DEF ParseSetHeader, ParseSetMetadata, ParseAppendHeader, ParseSetPath,
               Push, setError
      <4>3. QED
        BY <4>1, <4>2
    <3>3. CASE ParseSetBool
      BY <1>6, <3>3 DEF ParseSetBool, setError
    <3>4. CASE FinishConstruction
      BY <1>6, <3>4 DEF FinishConstruction
    <3>5. QED
      BY <1>8, <3>1, <3>2, <3>3, <3>4 DEF Construct
  <2>4. ~Recognised \/ Operation # "set-bool" \/ Len(Tokens) > 2 => ~NamelessBool(config[line])
    <3>1. PICK n : n = Len(Tokens)
      OBVIOUS
    <3>2. NamelessBool(config[line]) => n = 2 /\ Side \in Sides /\ Operation = "set-bool"
      BY <3>1 DEF NamelessBool, Operation, Side, Tokens
    <3>3. Recognised <=> n >= 2 /\ Side \in Sides
                           /\ Operation \in ExecutedOperations \cup {"set-bool"}
      BY <3>1 DEF Recognised
    <3>4. n = 2 => n >= 2 /\ ~(n > 2)
      OBVIOUS
    <3>5. QED
      BY <3>1, <3>2, <3>3, <3>4
  <2>5. error' => ~NamelessBool(config'[line'])
    BY <1>1, <2>3, <2>4
  <2>6. QED
    BY <1>3, <2>2, <2>5 DEF HonouredStep
<1>9. QED
  BY <1>7, <1>8

----------------------------------------------------------------------------
\* The calls of the filter chain.

\* Above the first operation of a side the message is as it was found.
LEMMA NothingExecuted ==
    ASSUME NEW c, NEW side, NEW m, Len(c) \in Nat, NEW i \in 0 .. Len(c),
           Cardinality({j \in 1 .. i : IsExecuted(c[j], side)}) = 0
    PROVE  RewrittenUpTo(c, side, m)[i] = Went("finished", m)
<1> DEFINE above == {j \in 1 .. i : IsExecuted(c[j], side)}
<1>1. above = {}
  <2>1. IsFiniteSet(above)
    BY PositionsFinite
  <2>2. QED
    BY <2>1, FS_EmptySet
<1>2. \A l \in 0 + 1 .. i : ~IsExecuted(c[l], side)
  BY <1>1
<1>3. 0 \in 0 .. Len(c) /\ i \in 0 .. Len(c)
  OBVIOUS
<1>4. RewrittenUpTo(c, side, m)[i] = RewrittenUpTo(c, side, m)[0]
  BY <1>2, <1>3, RewrittenStays
<1>5. QED
  BY <1>4, RewrittenRecursion

\* A handler that is entered.
LEMMA EnteredFollows ==
    ASSUME Len(config) \in Nat, config' = config, next' = 1, appending' = NotAppending,
           NEW m, m = Found', m = Message'
    PROVE  HandlerFollows'
<1> SUFFICES ASSUME NEW i \in 0 .. Len(config), OperationsUpTo(i)' = 0
             PROVE  LET soFar == RewrittenUpTo(config, ActiveSide', m)[i]
                    IN  soFar.how = "finished" /\ soFar.message = m
  BY DEF HandlerFollows
<1>1. Cardinality({j \in 1 .. i : IsExecuted(config[j], ActiveSide')}) = 0
  BY DEF OperationsUpTo
<1>2. RewrittenUpTo(config, ActiveSide', m)[i] = Went("finished", m)
  BY <1>1, NothingExecuted
<1>3. QED
  BY <1>2 DEF Went

LEMMA DecodeHeadersHonoured == ASSUME ContractIInv, DecodeHeaders PROVE HonouredStep
<1>1. /\ construction = "done" /\ phase = "idle" /\ Enter("http-request", "decoding", "decoded")
      /\ UNCHANGED configVars
  BY DEF DecodeHeaders, Enter
<1>2. PICK r \in Requests :
        /\ headers' = [headers EXCEPT !["http-request"] = r.headers]
        /\ path' = r.path
        /\ arrived' = [arrived EXCEPT !.headers["http-request"] = r.headers, !.path = r.path]
  BY DEF DecodeHeaders
<1>3. /\ StreamIInv /\ ConfigIInv /\ TypeOK /\ HandlersAfterConstruction /\ UntouchedAsArrived
      /\ AtRest /\ arrived.metadata = <<>>
  BY <1>1 DEF ContractIInv, StreamIInv
<1>4. /\ outcome = [s \in Sides |-> "none"] /\ metadata = <<>>
      /\ next = 1 /\ appending = NotAppending /\ error \in BOOLEAN
  BY <1>1, <1>3 DEF HandlersAfterConstruction, UntouchedAsArrived, AtRest, ConfigIInv, ConfigTypeOK
<1>5. /\ DOMAIN headers = Sides /\ DOMAIN arrived.headers = Sides
      /\ DOMAIN arrived = {"headers", "path", "metadata"}
  BY <1>3 DEF TypeOK
<1>6. ~Throws(config) /\ (AllGood(config) <=> ~error)
  BY <1>1, EndIsAgreed
<1>7. UNCHANGED <<config, construction, next, appending, metadata>>
  BY <1>1 DEF Enter, configVars
<1>8. ~Executing /\ shownStage = "idle" /\ shownHeaders = headers /\ shownMetadata = metadata
  BY <1>1 DEF Executing, shownStage, shownHeaders, shownMetadata
<1>9. CASE error
  <2>1. phase' = "decoded" /\ outcome' = [outcome EXCEPT !["http-request"] = "skipped"]
    BY <1>1, <1>9 DEF Enter
  <2>2. /\ ~Executing' /\ shownStage' = "decoded" /\ shownHeaders' = headers'
        /\ shownPath' = path' /\ shownMetadata' = metadata'
    BY <1>1, <1>7, <2>1 DEF Executing, shownStage, shownHeaders, shownPath, shownMetadata
  <2>3. Contract!ArriveRequest
    BY <1>2, <1>6, <1>7, <1>8, <1>9, <2>1, <2>2 DEF Contract!ArriveRequest, Contract!Arrive
  <2>4. QED
    BY <2>2, <2>3 DEF HonouredStep, HandlerFollows, Contract!Next
<1>10. CASE ~error
  <2>1. phase' = "decoding" /\ outcome' = [outcome EXCEPT !["http-request"] = "none"]
    BY <1>1, <1>10 DEF Enter
  <2>2. outcome' = outcome
    BY <1>4, <2>1 DEF Sides
  <2>3. Executing' /\ ActiveSide' = "http-request" /\ shownStage' = "decoding"
    BY <1>1, <1>7, <2>1 DEF Executing, ActiveSide, shownStage
  <2>4. PICK m : m = [headers |-> r.headers, path |-> r.path, metadata |-> metadata]
    OBVIOUS
  <2>5. "http-request" \in Sides
    BY DEF Sides
  <2>6. /\ headers'["http-request"] = r.headers /\ arrived'.headers["http-request"] = r.headers
        /\ arrived'.path = r.path /\ arrived'.metadata = metadata
    BY <1>2, <1>3, <1>4, <1>5, <2>5
  <2>7. m = Found' /\ m = Message'
    BY <1>2, <1>7, <2>1, <2>3, <2>4, <2>6 DEF Found, Message
  <2>8. shownHeaders' = headers' /\ shownPath' = r.path /\ shownMetadata' = metadata
    <3>1. headers' = [headers' EXCEPT !["http-request"] = r.headers]
      BY <1>2, <1>5, <2>5
    <3>2. QED
      BY <2>3, <2>4, <2>7, <3>1 DEF shownHeaders, shownPath, shownMetadata
  <2>9. Contract!ArriveRequest
    BY <1>2, <1>6, <1>7, <1>8, <1>10, <2>2, <2>3, <2>8 DEF Contract!ArriveRequest, Contract!Arrive
  <2>10. HandlerFollows'
    <3>1. Len(config) \in Nat
      BY <1>1, <1>3, <1>10, ReadToTheEnd
    <3>2. QED
      BY <1>4, <1>7, <2>7, <3>1, EnteredFollows
  <2>11. QED
    BY <2>9, <2>10 DEF HonouredStep, Contract!Next
<1>11. QED
  BY <1>9, <1>10

LEMMA EncodeHeadersHonoured == ASSUME ContractIInv, EncodeHeaders PROVE HonouredStep
<1>1. /\ construction = "done" /\ phase \in {"idle", "decoded"}
      /\ Enter("http-response", "encoding", "encoded")
      /\ UNCHANGED configVars /\ path' = path
  BY DEF EncodeHeaders, Enter
<1>2. PICK r \in Responses :
        /\ headers' = [headers EXCEPT !["http-response"] = r]
        /\ arrived' = [arrived EXCEPT !.headers["http-response"] = r, !.metadata = metadata]
  BY DEF EncodeHeaders
<1>3. /\ StreamIInv /\ ConfigIInv /\ TypeOK /\ HandlersAfterConstruction /\ AtRest
      /\ outcome["http-response"] = "none"
  BY <1>1 DEF ContractIInv, StreamIInv
<1>4. next = 1 /\ appending = NotAppending /\ error \in BOOLEAN /\ DOMAIN outcome = Sides
      /\ outcome = [s \in Sides |-> outcome[s]]
  BY <1>1, <1>3 DEF AtRest, ConfigIInv, ConfigTypeOK, TypeOK
<1>5. /\ DOMAIN headers = Sides /\ DOMAIN arrived.headers = Sides
      /\ DOMAIN arrived = {"headers", "path", "metadata"}
  BY <1>3 DEF TypeOK
<1>6. ~Throws(config) /\ (AllGood(config) <=> ~error)
  BY <1>1, EndIsAgreed
<1>7. UNCHANGED <<config, construction, next, appending, metadata>>
  BY <1>1 DEF Enter, configVars
<1>8. /\ ~Executing /\ shownStage = phase /\ shownHeaders = headers
      /\ shownPath = path /\ shownMetadata = metadata
  BY <1>1 DEF Executing, shownStage, shownHeaders, shownPath, shownMetadata
<1>9. CASE error
  <2>1. phase' = "encoded" /\ outcome' = [outcome EXCEPT !["http-response"] = "skipped"]
    BY <1>1, <1>9 DEF Enter
  <2>2. /\ ~Executing' /\ shownStage' = "encoded" /\ shownHeaders' = headers'
        /\ shownPath' = path' /\ shownMetadata' = metadata'
    BY <1>1, <1>7, <2>1 DEF Executing, shownStage, shownHeaders, shownPath, shownMetadata
  <2>3. Contract!ArriveResponse
    BY <1>1, <1>2, <1>6, <1>7, <1>8, <1>9, <2>1, <2>2 DEF Contract!ArriveResponse, Contract!Arrive
  <2>4. QED
    BY <2>2, <2>3 DEF HonouredStep, HandlerFollows, Contract!Next
<1>10. CASE ~error
  <2>1. phase' = "encoding" /\ outcome' = [outcome EXCEPT !["http-response"] = "none"]
    BY <1>1, <1>10 DEF Enter
  <2>2. outcome' = outcome
    BY <1>3, <1>4, <2>1
  <2>3. Executing' /\ ActiveSide' = "http-response" /\ shownStage' = "encoding"
    BY <1>1, <1>7, <2>1 DEF Executing, ActiveSide, shownStage
  <2>4. PICK m : m = [headers |-> r, path |-> path, metadata |-> metadata]
    OBVIOUS
  <2>5. "http-response" \in Sides
    BY DEF Sides
  <2>6. /\ headers'["http-response"] = r /\ arrived'.headers["http-response"] = r
        /\ arrived'.metadata = metadata
    BY <1>2, <1>5, <2>5
  <2>7. m = Found' /\ m = Message'
    BY <1>1, <1>7, <2>1, <2>3, <2>4, <2>6 DEF Found, Message
  <2>8. shownHeaders' = headers' /\ shownPath' = path /\ shownMetadata' = metadata
    <3>1. headers' = [headers' EXCEPT !["http-response"] = r]
      BY <1>2, <1>5, <2>5
    <3>2. QED
      BY <2>3, <2>4, <2>7, <3>1 DEF shownHeaders, shownPath, shownMetadata
  <2>9. Contract!ArriveResponse
    BY <1>1, <1>2, <1>6, <1>7, <1>8, <1>10, <2>2, <2>3, <2>8
    DEF Contract!ArriveResponse, Contract!Arrive
  <2>10. HandlerFollows'
    <3>1. Len(config) \in Nat
      BY <1>1, <1>3, <1>10, ReadToTheEnd
    <3>2. QED
      BY <1>4, <1>7, <2>7, <3>1, EnteredFollows
  <2>11. QED
    BY <2>9, <2>10 DEF HonouredStep, Contract!Next
<1>11. QED
  BY <1>9, <1>10

LEMMA OnDestroyHonoured == ASSUME ContractIInv, OnDestroy PROVE HonouredStep
<1>1. /\ construction = "done" /\ phase \in {"idle", "decoded", "encoded"} /\ phase' = "destroyed"
      /\ UNCHANGED <<config, construction, headers, path, metadata, outcome>>
  BY DEF OnDestroy, message, configVars
<1>2. ~Executing /\ ~Executing' /\ HandlerFollows'
  BY <1>1 DEF Executing, HandlerFollows
<1>3. /\ shownStage = phase /\ shownStage' = "destroyed"
      /\ UNCHANGED <<shownHeaders, shownPath, shownMetadata>>
  BY <1>1, <1>2 DEF shownStage, shownHeaders, shownPath, shownMetadata
<1>4. Contract!End
  BY <1>1, <1>3, EndIsAgreed DEF Contract!End
<1>5. QED
  BY <1>2, <1>4 DEF HonouredStep, Contract!Next

LEMMA RestHonoured == ASSUME ContractIInv, UNCHANGED vars PROVE HonouredStep
<1>1. UNCHANGED <<config, construction, processors, bools, phase, next, appending, headers, path,
                  metadata, outcome, arrived>>
  BY DEF vars
<1>2. UNCHANGED <<Executing, ActiveSide, Found, Message, Current>>
  BY <1>1 DEF Executing, ActiveSide, Found, Message, Current
<1>3. UNCHANGED Contract!contractVars
  BY <1>1, <1>2 DEF shownStage, shownHeaders, shownPath, shownMetadata, Contract!contractVars
<1>4. HandlerFollows
  BY DEF ContractIInv
<1>5. HandlerFollows'
  BY <1>1, <1>2, <1>4 DEF HandlerFollows, OperationsUpTo, AppendFollows
<1>6. QED
  BY <1>3, <1>5 DEF HonouredStep

----------------------------------------------------------------------------
\* The invariant, and the refinement.

LEMMA InitContract == Init => ContractIInv /\ Contract!Init
<1> SUFFICES ASSUME Init PROVE ContractIInv /\ Contract!Init
  OBVIOUS
<1>1. StreamIInv
  BY InitStreamIInv
<1>2. StoredInOrder /\ error = FALSE /\ construction = "running" /\ config \in Configs
  BY InitStored DEF Init, ConfigInit
<1>3. /\ phase = "idle" /\ arrived.metadata = <<>> /\ outcome = [s \in Sides |-> "none"]
      /\ headers = NoHeaders /\ path = NoPath /\ metadata = <<>>
  BY DEF Init
<1>4. ~Executing /\ HandlerFollows
  BY <1>3 DEF Executing, HandlerFollows
<1>5. outcome["http-response"] = "none"
  BY <1>3 DEF Sides
<1>6. ContractIInv
  BY <1>1, <1>2, <1>3, <1>4, <1>5 DEF ContractIInv
<1>7. shownStage = "idle" /\ shownHeaders = headers /\ shownPath = path /\ shownMetadata = metadata
  BY <1>2, <1>3, <1>4 DEF shownStage, shownHeaders, shownPath, shownMetadata
<1>8. Contract!Init
  BY <1>2, <1>3, <1>7 DEF Contract!Init, NoHeaders, NoPath, Sides
<1>9. QED
  BY <1>6, <1>8

\* A handler works on nothing that the constructor made, and one for the
\* response does not come back to the request.
LEMMA HandlerKeeps ==
    ASSUME HandlerStep
    PROVE  /\ UNCHANGED configVars /\ UNCHANGED arrived
           /\ phase = "encoding" => phase' \in {"encoding", "encoded", "crashed"}
           /\ phase' # "idle"
<1>1. ASSUME NEW how, Return(how) \/ Escape \/ (Executing /\ Advance)
      PROVE  /\ UNCHANGED configVars /\ UNCHANGED arrived
             /\ phase = "encoding" => phase' \in {"encoding", "encoded", "crashed"}
             /\ phase' # "idle"
  BY <1>1 DEF Return, Escape, Advance, Executing
<1>2. ASSUME Executing, UNCHANGED <<phase, arrived, configVars>>
      PROVE  /\ UNCHANGED configVars /\ UNCHANGED arrived
             /\ phase = "encoding" => phase' \in {"encoding", "encoded", "crashed"}
             /\ phase' # "idle"
  BY <1>2 DEF Executing
<1>3. CASE FinishHandler
  BY <1>1, <1>3 DEF FinishHandler
<1>4. CASE ConditionError
  BY <1>1, <1>4 DEF ConditionError
<1>5. CASE SkipOperation
  BY <1>1, <1>5 DEF SkipOperation, AtProcessor
<1>6. CASE ExecuteSetHeader
  <2>1. Executing
    BY <1>6 DEF ExecuteSetHeader, Applies, At, AtProcessor
  <2>2. Escape \/ Return("failed") \/ Advance
    <3>1. PICK results : results = {Key.status, Value(Current.values[1]).status}
      OBVIOUS
    <3>2. {Key.status, Value(Current.values[1]).status} \subseteq {"ok", "error", "throw"}
      BY EvaluateGives DEF Key, Value
    <3>3. \/ "throw" \in results
          \/ "throw" \notin results /\ results = {"ok"}
          \/ "throw" \notin results /\ results # {"ok"} /\ results \in {{"error"}, {"ok", "error"}}
      BY <3>1, <3>2
    <3>4. QED
      BY <1>6, <3>1, <3>3 DEF ExecuteSetHeader
  <2>3. QED
    BY <1>1, <2>1, <2>2
<1>7. CASE BeginAppend
  <2>1. Executing /\ Key.status \in {"ok", "error", "throw"}
    BY <1>7, EvaluateGives DEF BeginAppend, Applies, At, AtProcessor, Key, Value
  <2>2. Escape \/ Return("failed") \/ UNCHANGED <<phase, arrived, configVars>>
    BY <1>7, <2>1 DEF BeginAppend
  <2>3. QED
    BY <1>1, <1>2, <2>1, <2>2
<1>8. CASE AppendValue
  <2>1. /\ Executing
        /\ Value(Current.values[appending.count + 1]).status \in {"ok", "error", "throw"}
    BY <1>8, EvaluateGives DEF AppendValue, InAppend, Value
  <2>2. Escape \/ Return("failed") \/ UNCHANGED <<phase, arrived, configVars>>
    BY <1>8, <2>1 DEF AppendValue
  <2>3. QED
    BY <1>1, <1>2, <2>1, <2>2
<1>9. CASE EndAppend
  BY <1>1, <1>9 DEF EndAppend, InAppend
<1>10. CASE ExecuteSetPath
  BY <1>1, <1>10 DEF ExecuteSetPath, At, AtProcessor
<1>11. CASE ExecuteSetMetadata
  BY <1>1, <1>11 DEF ExecuteSetMetadata, Applies, At, AtProcessor
<1>12. QED
  BY <1>3, <1>4, <1>5, <1>6, <1>7, <1>8, <1>9, <1>10, <1>11 DEF HandlerStep

\* The parts of the invariant that are not about where a handler is.
LEMMA RestOfContractIInv ==
    ASSUME ContractIInv, [Next]_vars
    PROVE  /\ StoredInOrder'
           /\ error' => ~NamelessBool(config'[line'])
           /\ phase' = "idle" => arrived'.metadata = <<>>
           /\ phase' \in {"idle", "decoding", "decoded"} => outcome'["http-response"] = "none"
<1> DEFINE Resting == /\ phase' = "idle" => arrived'.metadata = <<>>
                      /\ phase' \in {"idle", "decoding", "decoded"} =>
                           outcome'["http-response"] = "none"
<1>1. /\ StreamIInv /\ ConfigIInv /\ StoredInOrder
      /\ error => ~NamelessBool(config[line])
      /\ phase = "idle" => arrived.metadata = <<>>
      /\ phase \in {"idle", "decoding", "decoded"} => outcome["http-response"] = "none"
  BY DEF ContractIInv, StreamIInv
<1>2. [Construct]_configVars => StoredInOrder'
  BY <1>1, ConstructStored
<1>3. UNCHANGED configVars => StoredInOrder' /\ (error' => ~NamelessBool(config'[line']))
  BY <1>1, <1>2 DEF configVars
<1>4. CASE Construct /\ UNCHANGED streamVars
  <2>1. Resting
    BY <1>1, <1>4 DEF streamVars
  <2>2. QED
    BY <1>2, <1>4, <2>1, ConstructHonoured
<1>5. CASE DecodeHeaders
  <2>1. /\ UNCHANGED configVars /\ phase = "idle" /\ phase' \in {"decoding", "decoded"}
        /\ \E x : outcome' = [outcome EXCEPT !["http-request"] = x]
    BY <1>5 DEF DecodeHeaders, Enter
  <2>2. DOMAIN outcome = Sides
    BY <1>1 DEF StreamIInv, TypeOK
  <2>3. QED
    BY <1>1, <1>3, <2>1, <2>2 DEF Sides
<1>6. CASE EncodeHeaders
  <2>1. UNCHANGED configVars /\ phase' \in {"encoding", "encoded"}
    BY <1>6 DEF EncodeHeaders, Enter
  <2>2. QED
    BY <1>3, <2>1
<1>7. CASE OnDestroy
  <2>1. UNCHANGED configVars /\ phase' = "destroyed"
    BY <1>7 DEF OnDestroy
  <2>2. QED
    BY <1>3, <2>1
<1>8. CASE HandlerStep
  <2>1. /\ UNCHANGED configVars /\ phase' # "idle"
        /\ phase = "encoding" => phase' \in {"encoding", "encoded", "crashed"}
    BY <1>8, HandlerKeeps
  <2>2. Executing /\ \A s \in Sides \ {ActiveSide} : outcome'[s] = outcome[s]
    BY <1>1, <1>8, HandlerWork
  <2>3. phase' \in {"idle", "decoding", "decoded"} => outcome'["http-response"] = "none"
    <3>1. CASE phase = "encoding"
      BY <2>1, <3>1
    <3>2. CASE phase = "decoding"
      <4>1. ActiveSide = "http-request"
        BY <3>2 DEF ActiveSide
      <4>2. outcome'["http-response"] = outcome["http-response"]
        BY <2>2, <4>1 DEF Sides
      <4>3. QED
        BY <1>1, <3>2, <4>2
    <3>3. QED
      BY <2>2, <3>1, <3>2 DEF Executing
  <2>4. QED
    BY <1>3, <2>1, <2>3
<1>9. CASE StreamEnded \/ UNCHANGED vars
  <2>1. UNCHANGED <<config, line, construction, error, processors, bools, phase, arrived, outcome>>
    BY <1>9 DEF StreamEnded, vars
  <2>2. UNCHANGED configVars /\ Resting
    BY <1>1, <2>1 DEF configVars
  <2>3. QED
    BY <1>3, <2>2
<1>10. QED
  BY <1>4, <1>5, <1>6, <1>7, <1>8, <1>9 DEF Next

\* Every step keeps the invariant and is one of the contract's, or none.
LEMMA NextContract ==
    ASSUME ContractIInv, [Next]_vars
    PROVE  ContractIInv' /\ (Contract!Next \/ UNCHANGED Contract!contractVars)
<1>1. HonouredStep
  <2>1. CASE Construct /\ UNCHANGED streamVars
    BY <2>1, ConstructHonoured
  <2>2. CASE DecodeHeaders
    BY <2>2, DecodeHeadersHonoured
  <2>3. CASE EncodeHeaders
    BY <2>3, EncodeHeadersHonoured
  <2>4. CASE OnDestroy
    BY <2>4, OnDestroyHonoured
  <2>5. CASE HandlerStep
    BY <2>5, HandlerStepHonoured
  <2>6. CASE StreamEnded \/ UNCHANGED vars
    BY <2>6, RestHonoured DEF StreamEnded
  <2>7. QED
    BY <2>1, <2>2, <2>3, <2>4, <2>5, <2>6 DEF Next
<1>2. StreamIInv'
  BY NextStreamIInv DEF ContractIInv
<1>3. /\ StoredInOrder' /\ (error' => ~NamelessBool(config'[line']))
      /\ phase' = "idle" => arrived'.metadata = <<>>
      /\ phase' \in {"idle", "decoding", "decoded"} => outcome'["http-response"] = "none"
  BY RestOfContractIInv
<1>4. ContractIInv'
  BY <1>1, <1>2, <1>3 DEF ContractIInv, HonouredStep
<1>5. QED
  BY <1>1, <1>4 DEF HonouredStep

\* Where a handler is, it has made of the message it found what the contract
\* makes of it with the operations carried out so far.
THEOREM ContractInvariant == Spec => []ContractIInv
BY InitContract, NextContract, PTL DEF Spec

\* Seen from outside, a stream does what the contract does: a handler rewrites a
\* message in one step, as a function of the configuration and the message.
THEOREM StreamHonoursContract == Spec => HonoursContract
<1>1. Init => ContractIInv /\ Contract!Init
  BY InitContract
<1>2. ContractIInv /\ [Next]_vars => ContractIInv' /\ [Contract!Next]_(Contract!contractVars)
  BY NextContract
<1>3. QED
  BY <1>1, <1>2, PTL DEF Spec, HonoursContract, Contract!Spec
=============================================================================
