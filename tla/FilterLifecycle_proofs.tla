------------------------ MODULE FilterLifecycle_proofs ------------------------
(***************************************************************************)
(* Nothing that is used is freed, and what is never freed is what a map    *)
(* and the set-bools it stores keep alive, for any number of               *)
(* configurations and streams.                                             *)
(***************************************************************************)
EXTENDS FilterLifecycle, TLAPS

----------------------------------------------------------------------------
\* Pointers, told apart by the tags of what they join.

\* Only the invocation of a callback and the chain point to a filter.
LEMMA FilterHolders ==
    ASSUME NEW f \in Streams, NEW r \in Pointers, r[2] = Filter(f)
    PROVE  r \in {<<Invocation(f), Filter(f)>>, <<Chain(f), Filter(f)>>}
  BY DEF Pointers, Invocation, Chain, Filter, Callback, Config, Map, Processor, Sides

LEMMA ObjectTags ==
    /\ \A n : Config(n)[1] \notin Owners
    /\ \A f : Filter(f)[1] \notin Owners
    /\ \A f, s : Map(f, s)[1] \notin Owners
    /\ \A f, i : Processor(f, i)[1] \notin Owners
  BY DEF Owners, Config, Filter, Map, Processor

\* A configuration that passed validation, or none.
LEMMA TextsAreLines ==
    ASSUME LifecycleTypeOK, NEW n \in Loads
    PROVE  text[n] \in Seq(Line)
  <1>1. text[n] \in Texts \/ text[n] = <<>>
    BY DEF LifecycleTypeOK
  <1>2. <<>> \in Seq(Line)
    OBVIOUS
  <1> QED
    BY <1>1, <1>2, TextsAssumption

LEMMA OwnPointer ==
    ASSUME LifecycleTypeOK, NEW f \in Streams, NEW kind, AtLine(f, kind)
    PROVE  /\ stream[f].line \in Positions
           /\ Text(f)[stream[f].line] \in Line
           /\ stream[f].load \in Loads
           /\ stream[f].line \in Nat
  <1>1. stream[f] \in [state : {"building", "open", "closed", "thrown"}, load : Loads, line : Nat]
    BY DEF LifecycleTypeOK, AtLine, Building
  <1>2. text[stream[f].load] \in Texts \cup {<<>>}
    BY <1>1 DEF LifecycleTypeOK
  <1>3. stream[f].line \in 1 .. Len(Text(f)) /\ Text(f) \in Texts
    BY <1>1, <1>2, TextsAssumption DEF AtLine, Building, LifecycleTypeOK, Text
  <1>4. QED
    BY <1>1, <1>3, TextsAssumption DEF Positions

----------------------------------------------------------------------------
\* One lemma per group of actions.

LEMMA LoadKeepsInvariant ==
    ASSUME LifecycleIInv, LoadStep
    PROVE  LifecycleIInv'
  <1>1. PICK n \in Loads : RefuseEmpty(n) \/ createFilterFactoryFromProto(n) \/ RemoveCallback(n)
    BY DEF LoadStep
  <1>2. CASE RefuseEmpty(n)
    BY <1>2 DEF LifecycleIInv, RefuseEmpty, LifecycleTypeOK, NoDangling, Custody, Text
  <1>3. CASE createFilterFactoryFromProto(n)
    <2>1. \A f \in Streams : stream[f].state # "none" => stream[f].load # n
      BY <1>3 DEF LifecycleIInv, Custody, createFilterFactoryFromProto
    <2>2. \A f \in Streams : stream[f].state # "none" => Text(f)' = Text(f)
      BY <1>3, <2>1 DEF LifecycleIInv, LifecycleTypeOK, createFilterFactoryFromProto, Text
    <2>3. <<Callback(n), Config(n)>> \in Pointers
      BY DEF Pointers
    <2>4. LifecycleTypeOK'
      BY <1>3, <2>2, <2>3, ObjectTags DEF LifecycleIInv, createFilterFactoryFromProto, LifecycleTypeOK
    <2>5. NoDangling'
      BY <1>3 DEF LifecycleIInv, createFilterFactoryFromProto, NoDangling, Callback, Owners
    <2>6. \A f \in Streams : <<Chain(f), Filter(f)>> # <<Callback(n), Config(n)>>
      BY DEF Chain, Callback
    <2>7. Custody'
      BY <1>3, <2>1, <2>6 DEF LifecycleIInv, LifecycleTypeOK, createFilterFactoryFromProto, Custody
    <2> QED
      BY <2>4, <2>5, <2>7 DEF LifecycleIInv
  <1>4. CASE RemoveCallback(n)
    <2>1. \A r \in refs : r \notin refs' => r[1] = Callback(n)
      BY <1>4 DEF RemoveCallback, HeldBy
    <2>2. /\ \A f \in Streams : Callback(n) \notin {Filter(f), Chain(f), Invocation(f)}
          /\ \A m \in Loads : m # n => Callback(m) # Callback(n)
      BY DEF Callback, Filter, Chain, Invocation
    <2>3. LifecycleTypeOK' /\ NoDangling'
      BY <1>4 DEF LifecycleIInv, RemoveCallback, LifecycleTypeOK, NoDangling, Text
    <2>4. Custody'
      BY <1>4, <2>1, <2>2 DEF LifecycleIInv, LifecycleTypeOK, RemoveCallback, Custody, Members
    <2> QED
      BY <2>3, <2>4 DEF LifecycleIInv
  <1> QED
    BY <1>1, <1>2, <1>3, <1>4

\* A pointer of the filter or its invocation that a step removes is not one of
\* another filter, of a callback or of a chain.
LEMMA HoldersDiffer ==
    ASSUME NEW f \in Streams
    PROVE  /\ \A n \in Loads : Callback(n) \notin {Filter(f), Chain(f), Invocation(f)}
           /\ \A g \in Streams : Filter(f) \notin {Invocation(g), Chain(g)}
                /\ Invocation(f) # Chain(g)
           /\ \A g \in Streams : g # f =>
                /\ Filter(f) # Filter(g)
                /\ Invocation(f) # Invocation(g)
                /\ Chain(f) # Chain(g)
  BY DEF Callback, Filter, Chain, Invocation

LEMMA NewKeepsInvariant ==
    ASSUME LifecycleIInv, NEW f \in Streams, NEW n \in Loads, NewFilter(f, n)
    PROVE  LifecycleIInv'
  <1>1. Members(f, n) \cup {<<Invocation(f), Filter(f)>>} \subseteq Pointers
    BY DEF Members, Pointers
  <1>2. LifecycleTypeOK'
    <2>1. stream'[f] = [state |-> "building", load |-> n, line |-> 1]
      BY DEF LifecycleIInv, LifecycleTypeOK, NewFilter
    <2>2. Text(f)' \in Seq(Line)
      BY <2>1, TextsAreLines DEF LifecycleIInv, NewFilter, Text
    <2>3. stream'[f].line \in 1 .. Len(Text(f)') + 1
      BY <2>1, <2>2
    <2>4. \A g \in Streams : g # f => stream'[g] = stream[g] /\ Text(g)' = Text(g)
      BY DEF LifecycleIInv, LifecycleTypeOK, NewFilter, Text
    <2> QED
      BY <1>1, <2>1, <2>3, <2>4, ObjectTags DEF LifecycleIInv, LifecycleTypeOK, NewFilter
  <1>3. NoDangling'
    <2>1. Config(n) \in live
      BY DEF LifecycleIInv, Custody, NoDangling, NewFilter
    <2> QED
      BY <2>1 DEF LifecycleIInv, NoDangling, NewFilter, Members, Invocation, Owners
  <1>4. Custody'
    <2>1. \A g \in Streams : <<Chain(g), Filter(g)>> \in refs' => <<Chain(g), Filter(g)>> \in refs
      BY HoldersDiffer DEF NewFilter, Members
    <2>2. <<Chain(f), Filter(f)>> \notin refs
      BY DEF LifecycleIInv, Custody, NewFilter
    <2> QED
      BY <2>1, <2>2 DEF LifecycleIInv, LifecycleTypeOK, Custody, NewFilter, Held, Members
  <1> QED
    BY <1>2, <1>3, <1>4 DEF LifecycleIInv

LEMMA BuildKeepsInvariant ==
    ASSUME LifecycleIInv, NEW f \in Streams, BuildStep(f)
    PROVE  LifecycleIInv'
  <1>1. ASSUME NEW owner, owner \in {Filter(f), OwnMap(f)}, Keep(f, owner),
               NEW kind, AtLine(f, kind)
        PROVE  LifecycleIInv'
    <2>1. Text(f)[stream[f].line].side \in Sides /\ stream[f].line \in Positions
      BY <1>1, OwnPointer DEF LifecycleIInv, Line
    <2>2. {<<owner, Own(f)>>, <<Own(f), OwnMap(f)>>} \subseteq Pointers
      BY <1>1, <2>1 DEF Pointers, OwnMap, Own
    <2>3. stream' = [stream EXCEPT ![f].line = @ + 1] /\ stream[f].state = "building"
      BY <1>1 DEF Keep, AtLine, Building
    <2>4. LifecycleTypeOK'
      <3>1. stream[f] \in [state : {"building"}, load : Loads, line : Nat]
        BY <2>3 DEF LifecycleIInv, LifecycleTypeOK
      <3>2. stream'[f] = [stream[f] EXCEPT !.line = @ + 1]
        BY <2>3 DEF LifecycleIInv, LifecycleTypeOK
      <3>3. Text(f)' = Text(f) /\ Text(f) \in Seq(Line)
        BY <1>1, <3>1, <3>2, TextsAreLines DEF LifecycleIInv, Keep, Text
      <3>4. stream'[f].line \in 1 .. Len(Text(f)') + 1
        BY <1>1, <3>1, <3>2, <3>3 DEF LifecycleIInv, LifecycleTypeOK, AtLine
      <3>5. \A g \in Streams : g # f => stream'[g] = stream[g] /\ Text(g)' = Text(g)
        BY <1>1, <2>3 DEF LifecycleIInv, LifecycleTypeOK, Keep, Text
      <3>6. stream' \in [Streams -> [state : {"none"}]
               \cup [state : {"building", "open", "closed", "thrown"}, load : Loads, line : Nat]]
        BY <2>3, <3>1, <3>2, <3>5 DEF LifecycleIInv, LifecycleTypeOK
      <3> QED
        BY <1>1, <2>2, <3>4, <3>5, <3>6, ObjectTags DEF LifecycleIInv, LifecycleTypeOK, Keep, Own
    <2>5. OwnMap(f) \in live /\ owner \in live
      <3>1. Members(f, stream[f].load) \subseteq refs /\ <<Invocation(f), Filter(f)>> \in refs
        BY <2>3 DEF LifecycleIInv, Custody, Held
      <3>2. <<Filter(f), OwnMap(f)>> \in refs
        BY <2>1, <3>1 DEF Members, OwnMap
      <3> QED
        BY <1>1, <3>1, <3>2 DEF LifecycleIInv, NoDangling
    <2>6. NoDangling'
      BY <1>1, <2>5 DEF LifecycleIInv, NoDangling, Keep
    <2>7. Custody'
      <3>1. \A g \in Streams : <<Chain(g), Filter(g)>> \in refs' => <<Chain(g), Filter(g)>> \in refs
        BY <1>1 DEF Keep, Own, OwnMap, Filter, Chain, Processor, Map
      <3>2. \A g \in Streams : /\ stream'[g].state = stream[g].state
                               /\ stream[g].state # "none" => stream'[g].load = stream[g].load
        BY <2>3 DEF LifecycleIInv, LifecycleTypeOK
      <3> QED
        BY <1>1, <3>1, <3>2 DEF LifecycleIInv, Custody, Keep, Held, Members
    <2> QED
      BY <2>4, <2>6, <2>7 DEF LifecycleIInv
  <1>2. ASSUME AddStreamFilter(f), stream[f].state = "building"
        PROVE  LifecycleIInv'
    <2>1. \A g \in Streams :
             /\ stream'[g].state = IF g = f THEN "open" ELSE stream[g].state
             /\ stream[g].state # "none" => /\ stream'[g].load = stream[g].load
                                            /\ stream'[g].line = stream[g].line
      BY <1>2 DEF LifecycleIInv, LifecycleTypeOK, AddStreamFilter
    <2>2. LifecycleTypeOK'
      <3>1. \A g \in Streams : stream'[g].state # "none" => Text(g)' = Text(g)
        BY <1>2, <2>1 DEF AddStreamFilter, Text
      <3>2. stream' \in [Streams -> [state : {"none"}]
               \cup [state : {"building", "open", "closed", "thrown"}, load : Loads, line : Nat]]
        BY <1>2 DEF LifecycleIInv, LifecycleTypeOK, AddStreamFilter
      <3>3. <<Chain(f), Filter(f)>> \in Pointers
        BY DEF Pointers
      <3> QED
        BY <1>2, <2>1, <3>1, <3>2, <3>3 DEF LifecycleIInv, LifecycleTypeOK, AddStreamFilter
    <2>3. NoDangling'
      <3>1. Filter(f) \in live
        BY <1>2 DEF LifecycleIInv, Custody, NoDangling
      <3> QED
        BY <1>2, <3>1 DEF LifecycleIInv, NoDangling, AddStreamFilter, Chain, Owners
    <2>4. \A r \in refs : r \notin refs' => r[1] = Invocation(f)
      BY <1>2 DEF AddStreamFilter, HeldBy
    <2>5. Custody'
      BY <1>2, <2>1, <2>4, HoldersDiffer
      DEF LifecycleIInv, Custody, AddStreamFilter, Held, Members
    <2> QED
      BY <2>2, <2>3, <2>5 DEF LifecycleIInv
  <1>3. CASE PushOperation(f) \/ InsertSetBool(f)
    BY <1>1, <1>3 DEF PushOperation, InsertSetBool
  <1>4. CASE StopAtBadLine(f) \/ Finish(f)
    BY <1>2, <1>4 DEF StopAtBadLine, Finish, AtLine, Building
  <1>5. CASE Throw(f)
    <2>1. stream[f].state = "building"
      BY <1>5 DEF Throw, AtLine, Building
    <2>2. \A g \in Streams :
             /\ stream'[g].state = IF g = f THEN "thrown" ELSE stream[g].state
             /\ stream[g].state # "none" => /\ stream'[g].load = stream[g].load
                                            /\ stream'[g].line = stream[g].line
      BY <1>5, <2>1 DEF LifecycleIInv, LifecycleTypeOK, Throw
    <2>3. LifecycleTypeOK'
      <3>1. \A g \in Streams : stream'[g].state # "none" => Text(g)' = Text(g)
        BY <1>5, <2>1, <2>2 DEF Throw, Text
      <3>2. stream' \in [Streams -> [state : {"none"}]
               \cup [state : {"building", "open", "closed", "thrown"}, load : Loads, line : Nat]]
        BY <1>5, <2>1 DEF LifecycleIInv, LifecycleTypeOK, Throw
      <3> QED
        BY <1>5, <2>1, <2>2, <3>1, <3>2 DEF LifecycleIInv, LifecycleTypeOK, Throw
    <2>4. NoDangling'
      <3>1. <<Chain(f), Filter(f)>> \notin refs
        BY <2>1 DEF LifecycleIInv, Custody
      <3>2. \A r \in refs' : r[2] # Filter(f) /\ r[1] # Filter(f)
        <4> TAKE r \in refs'
        <4>2. r \in refs /\ r \in Pointers /\ r[1] # Filter(f) /\ r[1] # Invocation(f)
          BY <1>5 DEF Throw, HeldBy, LifecycleIInv, LifecycleTypeOK
        <4>3. ASSUME r[2] = Filter(f) PROVE FALSE
          BY <3>1, <4>2, <4>3, FilterHolders
        <4> QED
          BY <4>2, <4>3
      <3> QED
        BY <1>5, <3>2 DEF LifecycleIInv, NoDangling, Throw
    <2>5. \A r \in refs : r \notin refs' => r[1] \in {Invocation(f), Filter(f)}
      BY <1>5 DEF Throw, HeldBy
    <2>6. refs' \subseteq refs
      BY <1>5 DEF Throw
    <2>7. Custody'
      BY <1>5, <2>1, <2>2, <2>5, <2>6, HoldersDiffer
      DEF LifecycleIInv, Custody, Throw, Held, Members
    <2> QED
      BY <2>3, <2>4, <2>7 DEF LifecycleIInv
  <1> QED
    BY <1>3, <1>4, <1>5 DEF BuildStep

LEMMA CloseKeepsInvariant ==
    ASSUME LifecycleIInv, NEW f \in Streams, CloseStream(f)
    PROVE  LifecycleIInv'
  <1>1. \A g \in Streams :
           /\ stream'[g].state = IF g = f THEN "closed" ELSE stream[g].state
           /\ stream[g].state # "none" => /\ stream'[g].load = stream[g].load
                                          /\ stream'[g].line = stream[g].line
    BY DEF LifecycleIInv, LifecycleTypeOK, CloseStream
  <1>2. LifecycleTypeOK'
    <2>1. \A g \in Streams : stream'[g].state # "none" => Text(g)' = Text(g)
      BY <1>1 DEF CloseStream, Text
    <2>2. stream' \in [Streams -> [state : {"none"}]
             \cup [state : {"building", "open", "closed", "thrown"}, load : Loads, line : Nat]]
      BY DEF LifecycleIInv, LifecycleTypeOK, CloseStream
    <2> QED
      BY <1>1, <2>1, <2>2 DEF LifecycleIInv, LifecycleTypeOK, CloseStream
  <1>3. NoDangling'
    BY DEF LifecycleIInv, NoDangling, CloseStream
  <1>4. \A r \in refs : r \notin refs' <=> r[1] = Chain(f)
    BY DEF CloseStream, HeldBy
  <1>5. refs' \subseteq refs
    BY DEF CloseStream
  <1>6. Custody'
    BY <1>1, <1>4, <1>5, HoldersDiffer DEF LifecycleIInv, Custody, CloseStream, Held, Members
  <1> QED
    BY <1>2, <1>3, <1>6 DEF LifecycleIInv

\* What Custody names is pointed to, so it is not what is released.
LEMMA ReleaseKeepsInvariant ==
    ASSUME LifecycleIInv, NEW o \in live, Release(o)
    PROVE  LifecycleIInv'
  <1>1. LifecycleTypeOK'
    BY DEF LifecycleIInv, LifecycleTypeOK, Release, Text
  <1>2. NoDangling'
    BY DEF LifecycleIInv, NoDangling, Release, PointingTo, HeldBy
  <1>3. \A r \in refs : r \notin refs' => r[1] = o
    BY DEF Release, HeldBy
  <1>4. refs' \subseteq refs
    BY DEF Release
  <1>5. \A r \in refs : r[2] # o
    BY DEF Release, PointingTo
  <1>6. \A n \in Loads : Callback(n) # o
    BY DEF LifecycleIInv, LifecycleTypeOK, Owners, Callback
  <1>7. \A f \in Streams : Invocation(f) # o /\ Chain(f) # o
    BY DEF LifecycleIInv, LifecycleTypeOK, Owners, Invocation, Chain
  <1>8. \A f \in Streams : stream[f].state \in Held => Filter(f) # o
    BY <1>5 DEF LifecycleIInv, Custody, Held
  <1>9. Custody'
    BY <1>3, <1>4, <1>6, <1>7, <1>8 DEF LifecycleIInv, Custody, Release, Held, Members
  <1> QED
    BY <1>1, <1>2, <1>9 DEF LifecycleIInv

----------------------------------------------------------------------------
\* Types, no dangling pointer and who must hold what, in every state.
THEOREM LifecycleInvariant == Spec => []LifecycleIInv
  <1>1. Init => LifecycleIInv
    BY DEF Init, LifecycleIInv, LifecycleTypeOK, NoDangling, Custody, Held
  <1>2. LifecycleIInv /\ [Next]_vars => LifecycleIInv'
    <2> SUFFICES ASSUME LifecycleIInv, [Next]_vars PROVE LifecycleIInv'
      OBVIOUS
    <2>1. CASE LoadStep
      BY <2>1, LoadKeepsInvariant
    <2>2. CASE \E f \in Streams : \E n \in Loads : NewFilter(f, n)
      BY <2>2, NewKeepsInvariant
    <2>3. CASE \E f \in Streams : BuildStep(f)
      BY <2>3, BuildKeepsInvariant
    <2>4. CASE \E f \in Streams : CloseStream(f)
      BY <2>4, CloseKeepsInvariant
    <2>5. CASE ReleaseStep
      BY <2>5, ReleaseKeepsInvariant DEF ReleaseStep
    <2>6. CASE UNCHANGED vars
      BY <2>6 DEF vars, LifecycleIInv, LifecycleTypeOK, NoDangling, Custody, Text, Members
    <2> QED
      BY <2>1, <2>2, <2>3, <2>4, <2>5, <2>6 DEF Next, AllOver
  <1> QED
    BY <1>1, <1>2, PTL DEF Spec

\* The types of the lifecycle hold in every state.
THEOREM LifecycleTypes == Spec => []LifecycleTypeOK
  BY LifecycleInvariant, PTL DEF LifecycleIInv

\* No pointer dangles, and a filter that is being made or is in a chain has its
\* maps and its configuration, whatever the main thread loads or removes.
THEOREM LifecycleSafety == Spec => []NothingUsedIsFreed
  <1>1. LifecycleIInv => NothingUsedIsFreed
    <2> SUFFICES ASSUME LifecycleIInv, NEW f \in Streams, stream[f].state \in Held
                 PROVE  {Filter(f), Config(stream[f].load)} \cup {Map(f, s) : s \in Sides}
                          \subseteq live
      BY DEF NothingUsedIsFreed, LifecycleIInv
    <2>1. Members(f, stream[f].load) \subseteq refs
      BY DEF LifecycleIInv, Custody
    <2>2. Filter(f) \in live
      BY DEF LifecycleIInv, Custody, Held, NoDangling
    <2>3. <<Filter(f), Config(stream[f].load)>> \in refs
      BY <2>1 DEF Members
    <2>4. \A s \in Sides : <<Filter(f), Map(f, s)>> \in refs
      BY <2>1 DEF Members
    <2>5. Config(stream[f].load) \in live
      BY <2>3 DEF LifecycleIInv, NoDangling
    <2>6. \A s \in Sides : Map(f, s) \in live
      BY <2>4 DEF LifecycleIInv, NoDangling
    <2> QED
      BY <2>2, <2>5, <2>6
  <1> QED
    BY <1>1, LifecycleInvariant, PTL

----------------------------------------------------------------------------
\* What is leaked.

\* The pointers between a map and a processor are not those of a filter, and
\* tell which map and which processor they join.
Bond(f, s, i) == {<<Map(f, s), Processor(f, i)>>, <<Processor(f, i), Map(f, s)>>}

\* A stored set-bool is a line of the configuration.
LEMMA StoredPositions ==
    ASSUME LifecycleTypeOK, NEW f \in Streams, stream[f].state # "none",
           NEW s \in Sides, NEW i \in StoredBools(f, s)
    PROVE  i \in Positions
  <1>1. stream[f] \in [state : {"building", "open", "closed", "thrown"}, load : Loads, line : Nat]
    BY DEF LifecycleTypeOK
  <1>2. Text(f) \in Texts \/ Text(f) = <<>>
    BY <1>1 DEF LifecycleTypeOK, Text
  <1>3. stream[f].line \in 1 .. Len(Text(f)) + 1 /\ stream[f].line \in Nat
    BY <1>1 DEF LifecycleTypeOK
  <1>4. i \in 1 .. stream[f].line - 1
    BY DEF StoredBools
  <1>5. CASE Text(f) \in Texts
    <2>1. Text(f) \in Seq(Line)
      BY <1>5, TextsAssumption
    <2>2. i \in 1 .. Len(Text(f))
      BY <1>3, <1>4, <2>1
    <2> QED
      BY <1>5, <2>2 DEF Positions
  <1>6. CASE Text(f) = <<>>
    <2>1. Len(Text(f)) = 0
      BY <1>6
    <2> QED
      BY <1>3, <1>4, <2>1
  <1> QED
    BY <1>2, <1>5, <1>6

\* A step that stores nothing keeps the invariant if it makes no bond and
\* breaks none of a stored set-bool.
LEMMA BondsStay ==
    ASSUME Cycles,
           \A f \in Streams : stream[f].state # "none" =>
             /\ stream'[f].state # "none" /\ stream'[f].line = stream[f].line
             /\ Text(f)' = Text(f),
           \A f \in Streams : stream[f].state = "none" =>
             stream'[f].state = "none" \/ stream'[f].line = 1,
           \A f \in Streams : <<Invocation(f), Filter(f)>> \in refs' => stream'[f].state = "building",
           \A f \in Streams, s \in Sides, i \in Positions : \A r \in Bond(f, s, i) :
             /\ r \in refs' => r \in refs
             /\ stream[f].state # "none" /\ i \in StoredBools(f, s) /\ r \in refs => r \in refs'
    PROVE  Cycles'
  <1>1. ASSUME NEW f \in Streams, NEW s \in Sides, NEW i \in Positions
        PROVE  /\ <<Map(f, s), Processor(f, i)>> \in refs' =>
                    stream'[f].state # "none" /\ i \in StoredBools(f, s)'
               /\ <<Processor(f, i), Map(f, s)>> \in refs' =>
                    /\ stream'[f].state # "none"
                    /\ i \in 1 .. stream'[f].line - 1 /\ Text(f)'[i].side = s
               /\ stream'[f].state # "none" /\ i \in StoredBools(f, s)' =>
                    Bond(f, s, i) \subseteq refs'
    <2>1. CASE stream[f].state # "none"
      <3>1. StoredBools(f, s)' = StoredBools(f, s)
        BY <2>1, Zenon DEF StoredBools
      <3>2. i \in StoredBools(f, s) => Bond(f, s, i) \subseteq refs
        BY <2>1 DEF Cycles, Bond
      <3> QED
        BY <2>1, <3>1, <3>2 DEF Cycles, Bond
    <2>2. CASE stream[f].state = "none"
      <3>1. <<Map(f, s), Processor(f, i)>> \notin refs' /\ <<Processor(f, i), Map(f, s)>> \notin refs'
        BY <2>2 DEF Cycles, Bond
      <3>2. stream'[f].state # "none" => StoredBools(f, s)' = {}
        BY <2>2 DEF StoredBools
      <3> QED
        BY <3>1, <3>2
    <2> QED
      BY <2>1, <2>2
  <1> QED
    BY <1>1, Zenon DEF Cycles, Building, Bond

\* The tags of the two ends of a bond.
LEMMA BondTags ==
    ASSUME NEW f \in Streams, NEW s \in Sides, NEW i \in Positions, NEW r \in Bond(f, s, i)
    PROVE  /\ \A n : r[1] # Callback(n) /\ r # <<Callback(n), Config(n)>>
           /\ \A g : r[1] # Filter(g) /\ r[2] # Filter(g) /\ r[1] # Invocation(g) /\ r[1] # Chain(g)
  BY DEF Bond, Map, Processor, Callback, Filter, Invocation, Chain

\* One lemma per group of actions.

LEMMA LoadKeepsCycles ==
    ASSUME LifecycleIInv, Cycles, LoadStep
    PROVE  Cycles'
  <1>1. PICK n \in Loads : RefuseEmpty(n) \/ createFilterFactoryFromProto(n) \/ RemoveCallback(n)
    BY DEF LoadStep
  <1>2. \A f \in Streams : stream[f].state # "none" => Text(f)' = Text(f)
    <2>1. CASE createFilterFactoryFromProto(n)
      <3>1. \A f \in Streams : stream[f].state # "none" => stream[f].load # n
        BY <2>1 DEF LifecycleIInv, Custody, createFilterFactoryFromProto
      <3> QED
        BY <2>1, <3>1 DEF LifecycleIInv, LifecycleTypeOK, createFilterFactoryFromProto, Text
    <2> QED
      BY <1>1, <2>1 DEF RefuseEmpty, RemoveCallback, Text
  <1>3. stream' = stream
    BY <1>1 DEF RefuseEmpty, createFilterFactoryFromProto, RemoveCallback
  <1>4. /\ \A r \in refs' : r \in refs \/ r = <<Callback(n), Config(n)>>
        /\ \A r \in refs : r \in refs' \/ r[1] = Callback(n)
    BY <1>1 DEF RefuseEmpty, createFilterFactoryFromProto, RemoveCallback, HeldBy
  <1>5. \A f \in Streams : <<Invocation(f), Filter(f)>> # <<Callback(n), Config(n)>>
    BY DEF Invocation, Callback
  <1>6. \A f \in Streams : <<Invocation(f), Filter(f)>> \in refs' => stream'[f].state = "building"
    BY <1>3, <1>4, <1>5, Zenon DEF Cycles, Building
  <1>7. \A f \in Streams, s \in Sides, i \in Positions : \A r \in Bond(f, s, i) :
          (r \in refs' => r \in refs) /\ (r \in refs => r \in refs')
    BY <1>4, BondTags, Zenon
  <1> QED
    BY <1>2, <1>3, <1>6, <1>7, BondsStay

LEMMA NewKeepsCycles ==
    ASSUME LifecycleIInv, Cycles, NEW f \in Streams, NEW n \in Loads, NewFilter(f, n)
    PROVE  Cycles'
  <1>1. stream[f].state = "none" /\ stream'[f].state = "building" /\ stream'[f].line = 1
    BY DEF NewFilter, LifecycleIInv, LifecycleTypeOK
  <1>2. \A g \in Streams : g # f => stream'[g] = stream[g]
    BY DEF NewFilter, LifecycleIInv, LifecycleTypeOK
  <1>3. \A g \in Streams : stream[g].state # "none" => Text(g)' = Text(g)
    BY <1>1, <1>2 DEF NewFilter, Text
  <1>4. /\ refs \subseteq refs'
        /\ \A r \in refs' : r \in refs \/ r[1] = Filter(f) \/ r = <<Invocation(f), Filter(f)>>
    BY DEF NewFilter, Members
  <1>5. \A g \in Streams : g # f =>
          /\ <<Invocation(g), Filter(g)>>[1] # Filter(f)
          /\ <<Invocation(g), Filter(g)>> # <<Invocation(f), Filter(f)>>
    BY DEF Invocation, Filter
  <1>6. \A g \in Streams : <<Invocation(g), Filter(g)>> \in refs' => stream'[g].state = "building"
    <2>1. ASSUME NEW g \in Streams, g # f, <<Invocation(g), Filter(g)>> \in refs'
          PROVE  stream'[g].state = "building"
      <3>1. <<Invocation(g), Filter(g)>> \in refs
        BY <1>4, <1>5, <2>1
      <3> QED
        BY <1>2, <2>1, <3>1 DEF Cycles, Building
    <2> QED
      BY <1>1, <2>1
  <1>7. \A g \in Streams, s \in Sides, i \in Positions : \A r \in Bond(g, s, i) :
          (r \in refs' => r \in refs) /\ (r \in refs => r \in refs')
    <2>1. \A g \in Streams, s \in Sides, i \in Positions : \A r \in Bond(g, s, i) :
            r[1] # Filter(f) /\ r # <<Invocation(f), Filter(f)>>
      BY DEF Bond, Map, Processor, Filter, Invocation
    <2> QED
      BY <1>4, <2>1, Zenon
  <1> QED
    BY <1>1, <1>2, <1>3, <1>6, <1>7, BondsStay

\* The steps of one stream that store nothing.
LEMMA StreamKeepsCycles ==
    ASSUME LifecycleIInv, Cycles, NEW f \in Streams,
           (Building(f) /\ AddStreamFilter(f)) \/ Throw(f) \/ CloseStream(f)
    PROVE  Cycles'
  <1>1. \A g \in Streams :
          /\ stream[g].state # "none" => stream'[g].state # "none" /\ stream'[g].line = stream[g].line
               /\ stream'[g].load = stream[g].load
          /\ stream[g].state = "none" => stream'[g].state = "none"
          /\ g # f => stream'[g] = stream[g]
    BY DEF LifecycleIInv, LifecycleTypeOK, AddStreamFilter, Throw, CloseStream, AtLine, Building
  <1>2. text' = text
    BY DEF AddStreamFilter, Throw, CloseStream
  <1>3. \A g \in Streams : stream[g].state # "none" => Text(g)' = Text(g)
    BY <1>1, <1>2 DEF Text
  <1>4. /\ \A r \in refs' : r \in refs \/ r = <<Chain(f), Filter(f)>>
        /\ \A r \in refs : r \in refs' \/ r[1] \in {Invocation(f), Filter(f), Chain(f)}
        /\ <<Invocation(f), Filter(f)>> \notin refs'
    <2>1. <<Invocation(f), Filter(f)>> # <<Chain(f), Filter(f)>>
      BY DEF Invocation, Chain
    <2>2. CASE AddStreamFilter(f)
      BY <2>1, <2>2 DEF AddStreamFilter, HeldBy
    <2>3. CASE Throw(f)
      BY <2>3 DEF Throw, HeldBy
    <2>4. CASE CloseStream(f)
      BY <2>4 DEF CloseStream, HeldBy, Cycles, Building
    <2> QED
      BY <2>2, <2>3, <2>4
  <1>5. \A g \in Streams : <<Invocation(g), Filter(g)>> # <<Chain(f), Filter(f)>>
    BY DEF Invocation, Chain
  <1>6. \A g \in Streams : <<Invocation(g), Filter(g)>> \in refs' => stream'[g].state = "building"
    <2> SUFFICES ASSUME NEW g \in Streams, <<Invocation(g), Filter(g)>> \in refs'
                 PROVE  stream'[g].state = "building"
      OBVIOUS
    <2>1. g # f /\ <<Invocation(g), Filter(g)>> \in refs
      BY <1>4, <1>5
    <2> QED
      BY <1>1, <2>1 DEF Cycles, Building
  <1>7. \A g \in Streams, s \in Sides, i \in Positions : \A r \in Bond(g, s, i) :
          (r \in refs' => r \in refs) /\ (r \in refs => r \in refs')
    <2>1. \A g \in Streams, s \in Sides, i \in Positions : \A r \in Bond(g, s, i) :
            r[1] \notin {Invocation(f), Filter(f), Chain(f)} /\ r # <<Chain(f), Filter(f)>>
      BY DEF Bond, Map, Processor, Filter, Invocation, Chain
    <2> QED
      BY <1>4, <2>1, Zenon
  <1> QED
    BY <1>1, <1>3, <1>6, <1>7, BondsStay

\* A map and a set-bool that it stores point to each other, so neither is
\* released.
LEMMA ReleaseKeepsCycles ==
    ASSUME LifecycleIInv, Cycles, NEW o \in live, Release(o)
    PROVE  Cycles'
  <1>1. UNCHANGED <<stream, text>> /\ refs' \subseteq refs
    BY DEF Release
  <1>2. \A r \in refs : r[2] # o /\ (r \notin refs' => r[1] = o)
    BY DEF Release, HeldBy, PointingTo
  <1>3. ASSUME NEW f \in Streams, NEW s \in Sides, NEW i \in Positions, NEW r \in Bond(f, s, i),
               stream[f].state # "none", i \in StoredBools(f, s)
        PROVE  r \in refs'
    <2>1. <<Map(f, s), Processor(f, i)>> \in refs /\ <<Processor(f, i), Map(f, s)>> \in refs
      BY <1>3 DEF Cycles
    <2>2. Map(f, s) # o /\ Processor(f, i) # o
      BY <1>2, <2>1
    <2> QED
      BY <1>2, <2>1, <2>2 DEF Bond
  <1>4. \A f \in Streams : <<Invocation(f), Filter(f)>> \in refs' => stream'[f].state = "building"
    BY <1>1 DEF Cycles, Building
  <1>5. \A f \in Streams : Text(f)' = Text(f)
    BY <1>1 DEF Text
  <1> QED
    BY <1>1, <1>3, <1>4, <1>5, BondsStay

\* The parts of the invariant, one bond at a time.
LEMMA CyclesTell ==
    ASSUME Cycles
    PROVE  /\ \A g \in Streams :
                <<Invocation(g), Filter(g)>> \in refs => stream[g].state = "building"
           /\ \A g \in Streams, s \in Sides, i \in Positions :
                /\ <<Map(g, s), Processor(g, i)>> \in refs =>
                    stream[g].state # "none" /\ i \in StoredBools(g, s)
                /\ <<Processor(g, i), Map(g, s)>> \in refs =>
                    /\ stream[g].state # "none"
                    /\ i \in 1 .. stream[g].line - 1 /\ Text(g)[i].side = s
                /\ stream[g].state # "none" /\ i \in StoredBools(g, s) =>
                    /\ <<Map(g, s), Processor(g, i)>> \in refs
                    /\ <<Processor(g, i), Map(g, s)>> \in refs
  BY DEF Cycles, Building

\* A line that is stored makes a bond with the map of its side: both pointers
\* when it is a set-bool, which the map then holds, and else the processor's.
LEMMA KeepKeepsCycles ==
    ASSUME LifecycleIInv, Cycles, NEW f \in Streams, PushOperation(f) \/ InsertSetBool(f)
    PROVE  Cycles'
  <1>1. PICK k \in Nat, side \in Sides, kind \in {"operation", "set-bool"} :
          /\ k = stream[f].line /\ k \in Positions
          /\ Text(f)[k] = [side |-> side, kind |-> kind]
          /\ Building(f) /\ AtLine(f, kind)
          /\ Keep(f, IF kind = "set-bool" THEN Map(f, side) ELSE Filter(f))
          /\ Own(f) = Processor(f, k) /\ OwnMap(f) = Map(f, side)
    <2>1. PICK kind \in {"operation", "set-bool"} :
            AtLine(f, kind) /\ Keep(f, IF kind = "set-bool" THEN OwnMap(f) ELSE Filter(f))
      BY DEF PushOperation, InsertSetBool
    <2>2. /\ stream[f].line \in Positions /\ stream[f].line \in Nat
          /\ Text(f)[stream[f].line] \in Line
      BY <2>1, OwnPointer DEF LifecycleIInv
    <2>3. Text(f)[stream[f].line].kind = kind
      BY <2>1 DEF AtLine
    <2>4. PICK side \in Sides : Text(f)[stream[f].line] = [side |-> side, kind |-> kind]
      BY <2>2, <2>3 DEF Line
    <2> QED
      BY <2>1, <2>2, <2>4 DEF AtLine, Own, OwnMap
  <1>2. /\ stream'[f].state = "building" /\ stream'[f].line = k + 1 /\ stream[f].line = k
        /\ stream[f].state = "building" /\ stream'[f].load = stream[f].load
        /\ \A g \in Streams : g # f => stream'[g] = stream[g]
        /\ text' = text
    BY <1>1 DEF Keep, Building, LifecycleIInv, LifecycleTypeOK
  <1>3. \A g \in Streams : Text(g)' = Text(g)
    BY <1>2 DEF Text
  <1>4. refs' = refs \cup {<<Processor(f, k), Map(f, side)>>,
                           <<IF kind = "set-bool" THEN Map(f, side) ELSE Filter(f), Processor(f, k)>>}
    BY <1>1 DEF Keep
  <1>5. \A g \in Streams, s \in Sides, i \in Positions :
          /\ <<Processor(g, i), Map(g, s)>> = <<Processor(f, k), Map(f, side)>>
               <=> g = f /\ i = k /\ s = side
          /\ <<Map(g, s), Processor(g, i)>> = <<Map(f, side), Processor(f, k)>>
               <=> g = f /\ i = k /\ s = side
          /\ <<Processor(g, i), Map(g, s)>> # <<Map(f, side), Processor(f, k)>>
          /\ <<Map(g, s), Processor(g, i)>> # <<Processor(f, k), Map(f, side)>>
          /\ <<Processor(g, i), Map(g, s)>> # <<Filter(f), Processor(f, k)>>
          /\ <<Map(g, s), Processor(g, i)>> # <<Filter(f), Processor(f, k)>>
          /\ <<Invocation(g), Filter(g)>> # <<Processor(f, k), Map(f, side)>>
          /\ <<Invocation(g), Filter(g)>> # <<Filter(f), Processor(f, k)>>
          /\ <<Invocation(g), Filter(g)>> # <<Map(f, side), Processor(f, k)>>
    BY DEF Processor, Map, Filter, Invocation
  <1>6. \A g \in Streams, s \in Sides, i \in Positions :
          /\ <<Processor(g, i), Map(g, s)>> \in refs' <=>
               \/ <<Processor(g, i), Map(g, s)>> \in refs
               \/ g = f /\ i = k /\ s = side
          /\ <<Map(g, s), Processor(g, i)>> \in refs' <=>
               \/ <<Map(g, s), Processor(g, i)>> \in refs
               \/ g = f /\ i = k /\ s = side /\ kind = "set-bool"
          /\ <<Invocation(g), Filter(g)>> \in refs' => <<Invocation(g), Filter(g)>> \in refs
    <2>1. CASE kind = "set-bool"
      BY <1>4, <1>5, <2>1
    <2>2. CASE kind # "set-bool"
      BY <1>4, <1>5, <2>2
    <2> QED
      BY <2>1, <2>2
  <1>7. \A s \in Sides : \A i : i \in StoredBools(f, s)' <=>
          i \in StoredBools(f, s) \/ (i = k /\ s = side /\ kind = "set-bool")
    <2>1. \A i : i \in 1 .. k <=> i \in 1 .. k - 1 \/ i = k
      BY <1>1, <1>2 DEF Positions
    <2>2. \A s \in Sides : [side |-> side, kind |-> kind] = [side |-> s, kind |-> "set-bool"]
            <=> s = side /\ kind = "set-bool"
      OBVIOUS
    <2>3. \A s \in Sides : \A i :
            /\ i \in StoredBools(f, s) <=>
                 i \in 1 .. k - 1 /\ Text(f)[i] = [side |-> s, kind |-> "set-bool"]
            /\ i \in StoredBools(f, s)' <=>
                 i \in 1 .. k /\ Text(f)[i] = [side |-> s, kind |-> "set-bool"]
      BY <1>1, <1>2, <1>3 DEF StoredBools
    <2> QED
      BY <1>1, <2>1, <2>2, <2>3, Zenon
  <1>8. \A g \in Streams : g # f => \A s \in Sides : StoredBools(g, s)' = StoredBools(g, s)
    BY <1>2, <1>3 DEF StoredBools
  <1>9. ASSUME NEW g \in Streams, NEW s \in Sides, NEW i \in Positions
        PROVE  /\ <<Map(g, s), Processor(g, i)>> \in refs' =>
                    stream'[g].state # "none" /\ i \in StoredBools(g, s)'
               /\ <<Processor(g, i), Map(g, s)>> \in refs' =>
                    /\ stream'[g].state # "none"
                    /\ i \in 1 .. stream'[g].line - 1 /\ Text(g)'[i].side = s
               /\ stream'[g].state # "none" /\ i \in StoredBools(g, s)' =>
                    {<<Map(g, s), Processor(g, i)>>, <<Processor(g, i), Map(g, s)>>} \subseteq refs'
    <2>0. /\ <<Map(g, s), Processor(g, i)>> \in refs =>
               stream[g].state # "none" /\ i \in StoredBools(g, s)
          /\ <<Processor(g, i), Map(g, s)>> \in refs =>
               /\ stream[g].state # "none"
               /\ i \in 1 .. stream[g].line - 1 /\ Text(g)[i].side = s
          /\ stream[g].state # "none" /\ i \in StoredBools(g, s) =>
               /\ <<Map(g, s), Processor(g, i)>> \in refs
               /\ <<Processor(g, i), Map(g, s)>> \in refs
      BY CyclesTell
    <2>1. CASE g # f
      <3>1. stream'[g] = stream[g] /\ Text(g)' = Text(g) /\ StoredBools(g, s)' = StoredBools(g, s)
        BY <1>2, <1>3, <1>8, <2>1
      <3>2. /\ <<Map(g, s), Processor(g, i)>> \in refs' <=> <<Map(g, s), Processor(g, i)>> \in refs
            /\ <<Processor(g, i), Map(g, s)>> \in refs' <=> <<Processor(g, i), Map(g, s)>> \in refs
        BY <1>6, <2>1
      <3> QED
        BY <2>0, <3>1, <3>2
    <2>2. CASE g = f
      <3>1. <<Map(g, s), Processor(g, i)>> \in refs' => i \in StoredBools(g, s)'
        BY <1>2, <1>6, <1>7, <2>0, <2>2
      <3>2. <<Processor(g, i), Map(g, s)>> \in refs' =>
              i \in 1 .. stream'[g].line - 1 /\ Text(g)'[i].side = s
        <4>1. CASE <<Processor(g, i), Map(g, s)>> \in refs
          <5>1. i \in 1 .. k - 1 /\ Text(g)[i].side = s
            BY <1>2, <2>0, <2>2, <4>1
          <5> QED
            BY <1>1, <1>2, <1>3, <2>2, <5>1
        <4>2. CASE i = k /\ s = side
          <5>1. k \in 1 .. k + 1 - 1
            BY <1>1 DEF Positions
          <5> QED
            BY <1>1, <1>2, <1>3, <2>2, <4>2, <5>1
        <4> QED
          BY <1>6, <2>2, <4>1, <4>2
      <3>3. i \in StoredBools(g, s)' =>
              {<<Map(g, s), Processor(g, i)>>, <<Processor(g, i), Map(g, s)>>} \subseteq refs'
        <4> SUFFICES ASSUME i \in StoredBools(g, s)'
                     PROVE  /\ <<Map(g, s), Processor(g, i)>> \in refs'
                            /\ <<Processor(g, i), Map(g, s)>> \in refs'
          OBVIOUS
        <4>1. CASE i \in StoredBools(g, s)
          <5>1. <<Map(g, s), Processor(g, i)>> \in refs /\ <<Processor(g, i), Map(g, s)>> \in refs
            BY <1>2, <2>0, <2>2, <4>1
          <5> QED
            BY <1>6, <5>1
        <4>2. CASE i = k /\ s = side /\ kind = "set-bool"
          BY <1>6, <2>2, <4>2
        <4> QED
          BY <1>7, <2>2, <4>1, <4>2
      <3> QED
        BY <1>2, <2>2, <3>1, <3>2, <3>3
    <2> QED
      BY <2>1, <2>2
  <1>10. ASSUME NEW g \in Streams, <<Invocation(g), Filter(g)>> \in refs'
         PROVE  Building(g)'
    <2>1. stream[g].state = "building"
      <3>1. side \in Sides /\ k \in Positions
        BY <1>1
      <3>2. <<Invocation(g), Filter(g)>> \in refs
        BY <1>6, <1>10, <3>1, Zenon
      <3> QED
        BY <3>2, CyclesTell
    <2>2. stream'[g].state = "building"
      BY <1>2, <2>1
    <2> QED
      BY <2>2 DEF Building
  <1> QED
    BY <1>9, <1>10, Zenon DEF Cycles

\* A stored set-bool and its map stand and fall together, for every stream.
THEOREM LifecycleCycles == Spec => []Cycles
  <1>1. Init => Cycles
    BY DEF Init, Cycles
  <1>2. LifecycleIInv /\ Cycles /\ [Next]_vars => Cycles'
    <2> SUFFICES ASSUME LifecycleIInv, Cycles, [Next]_vars PROVE Cycles'
      OBVIOUS
    <2>1. CASE LoadStep
      BY <2>1, LoadKeepsCycles
    <2>2. CASE \E f \in Streams : \E n \in Loads : NewFilter(f, n)
      BY <2>2, NewKeepsCycles
    <2>3. CASE \E f \in Streams : BuildStep(f)
      <3>1. PICK f \in Streams : BuildStep(f)
        BY <2>3
      <3>2. CASE PushOperation(f) \/ InsertSetBool(f)
        BY <3>2, KeepKeepsCycles
      <3>3. CASE StopAtBadLine(f) \/ Finish(f)
        BY <3>3, StreamKeepsCycles DEF StopAtBadLine, Finish, AtLine
      <3>4. CASE Throw(f)
        BY <3>4, StreamKeepsCycles
      <3> QED
        BY <3>1, <3>2, <3>3, <3>4 DEF BuildStep
    <2>4. CASE \E f \in Streams : CloseStream(f)
      BY <2>4, StreamKeepsCycles
    <2>5. CASE ReleaseStep
      BY <2>5, ReleaseKeepsCycles DEF ReleaseStep
    <2>6. CASE UNCHANGED vars
      <3>1. UNCHANGED <<stream, text, refs>>
        BY <2>6 DEF vars
      <3> QED
        BY <3>1 DEF Cycles, Building, StoredBools, Text
    <2> QED
      BY <2>1, <2>2, <2>3, <2>4, <2>5, <2>6 DEF Next, AllOver
  <1> QED
    BY <1>1, <1>2, LifecycleInvariant, PTL DEF Spec

\* What is there of a stream, once all that nothing points to is freed, is what
\* something of that stream points to.
LEMMA WhatPoints ==
    ASSUME LifecycleIInv, Cycles, Settled, NEW f \in Streams, stream[f].state \in {"closed", "thrown"}
    PROVE  /\ Filter(f) \notin live
           /\ \A s \in Sides : Map(f, s) \in live =>
                \E i \in Positions : <<Processor(f, i), Map(f, s)>> \in refs
           /\ \A i \in Positions : Processor(f, i) \in live =>
                \E s \in Sides : <<Map(f, s), Processor(f, i)>> \in refs
  <1>1. \A o \in live : \E r \in refs : r[2] = o /\ r \in Pointers
    BY DEF Settled, PointingTo, LifecycleIInv, LifecycleTypeOK
  <1>2. Filter(f) \notin live
    <2>1. /\ <<Invocation(f), Filter(f)>> \notin refs
          /\ <<Chain(f), Filter(f)>> \notin refs
      BY CyclesTell DEF LifecycleIInv, Custody
    <2> QED
      BY <1>1, <2>1, FilterHolders
  <1>3. \A x : <<Filter(f), x>> \notin refs
    BY <1>2, ObjectTags DEF LifecycleIInv, NoDangling
  <1>4. ASSUME NEW s \in Sides, NEW r \in Pointers, r[2] = Map(f, s)
        PROVE  r = <<Filter(f), Map(f, s)>>
                 \/ \E i \in Positions : r = <<Processor(f, i), Map(f, s)>>
    BY <1>4 DEF Pointers, Invocation, Chain, Filter, Callback, Config, Map, Processor
  <1>5. ASSUME NEW i \in Positions, NEW r \in Pointers, r[2] = Processor(f, i)
        PROVE  r = <<Filter(f), Processor(f, i)>>
                 \/ \E s \in Sides : r = <<Map(f, s), Processor(f, i)>>
    BY <1>5 DEF Pointers, Invocation, Chain, Filter, Callback, Config, Map, Processor
  <1> QED
    BY <1>1, <1>2, <1>3, <1>4, <1>5

\* What a stream leaves allocated for good is what its cycles hold: nothing else
\* of a stream that is over outlives it, and no set-bool does not.
THEOREM LeaksAreCycles == Spec => []LeaksExactlyTheCycles
  <1>1. LifecycleIInv /\ Cycles => LeaksExactlyTheCycles
    <2> SUFFICES ASSUME LifecycleIInv, Cycles, Settled,
                        NEW f \in Streams, stream[f].state \in {"closed", "thrown"}
                 PROVE  {o \in live : o[1] # "config" /\ o[2] = f} = Leaked(f)
      BY DEF LeaksExactlyTheCycles
    <2>1. ASSUME NEW s \in Sides, NEW i \in StoredBools(f, s)
          PROVE  Map(f, s) \in live /\ Processor(f, i) \in live
      <3>1. i \in Positions
        BY StoredPositions DEF LifecycleIInv
      <3>2. <<Map(f, s), Processor(f, i)>> \in refs /\ <<Processor(f, i), Map(f, s)>> \in refs
        BY <3>1, CyclesTell
      <3> QED
        BY <3>2 DEF LifecycleIInv, NoDangling
    <2>2. ASSUME NEW i \in Positions, Processor(f, i) \in live
          PROVE  \E s \in Sides : i \in StoredBools(f, s)
      BY <2>2, WhatPoints, CyclesTell
    <2>3. ASSUME NEW s \in Sides, Map(f, s) \in live
          PROVE  StoredBools(f, s) # {}
      <3>1. PICK i \in Positions : <<Processor(f, i), Map(f, s)>> \in refs
        BY <2>3, WhatPoints
      <3>2. Processor(f, i) \in live
        BY <3>1, ObjectTags DEF LifecycleIInv, NoDangling
      <3>3. PICK t \in Sides : i \in StoredBools(f, t)
        BY <2>2, <3>2
      <3>4. Text(f)[i].side = s /\ Text(f)[i].side = t
        <4>1. Text(f)[i] = [side |-> t, kind |-> "set-bool"]
          BY <3>3 DEF StoredBools
        <4>2. Text(f)[i].side = s
          <5>1. i \in Positions /\ s \in Sides /\ f \in Streams
            BY <3>1
          <5>2. <<Processor(f, i), Map(f, s)>> \in refs => Text(f)[i].side = s
            BY <5>1 DEF Cycles
          <5> QED
            BY <3>1, <5>2
        <4> QED
          BY <4>1, <4>2
      <3> QED
        BY <3>3, <3>4
    <2>4. ASSUME NEW o \in live, o[1] # "config", o[2] = f
          PROVE  \/ o = Filter(f)
                 \/ \E s \in Sides : o = Map(f, s)
                 \/ \E i \in Positions : o = Processor(f, i)
      <3>1. PICK r \in Pointers : r[2] = o
        BY DEF Settled, PointingTo, LifecycleIInv, LifecycleTypeOK
      <3> QED
        BY <2>4, <3>1 DEF Pointers, Invocation, Chain, Filter, Callback, Config, Map, Processor
    <2>5. ASSUME NEW o \in Leaked(f)
          PROVE  o \in live /\ o[1] # "config" /\ o[2] = f
      <3>1. CASE \E s \in Sides : StoredBools(f, s) # {} /\ o = Map(f, s)
        BY <2>1, <3>1 DEF Map
      <3>2. CASE \E s \in Sides : \E i \in StoredBools(f, s) : o = Processor(f, i)
        BY <2>1, <3>2 DEF Processor
      <3> QED
        BY <2>5, <3>1, <3>2, Zenon DEF Leaked
    <2>6. ASSUME NEW o \in live, o[1] # "config", o[2] = f
          PROVE  o \in Leaked(f)
      <3>1. o # Filter(f)
        BY WhatPoints
      <3>2. CASE \E s \in Sides : o = Map(f, s)
        BY <2>3, <3>2 DEF Leaked
      <3>3. CASE \E i \in Positions : o = Processor(f, i)
        <4>1. PICK i \in Positions, s \in Sides : o = Processor(f, i) /\ i \in StoredBools(f, s)
          BY <2>2, <3>3
        <4> QED
          BY <4>1 DEF Leaked
      <3> QED
        BY <2>4, <2>6, <3>1, <3>2, <3>3
    <2> QED
      BY <2>5, <2>6
  <1> QED
    BY <1>1, LifecycleInvariant, LifecycleCycles, PTL
=============================================================================
