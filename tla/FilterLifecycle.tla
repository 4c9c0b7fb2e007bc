---------------------------- MODULE FilterLifecycle ----------------------------
(***************************************************************************)
(* Who holds whom.  The factory makes one configuration object per         *)
(* configuration it is given and captures it in a callback; the callback   *)
(* makes a filter per stream; a filter makes two maps of boolean variables *)
(* and a processor per line, and every processor points back to the map of *)
(* its side.  All these pointers are counted (shared_ptr) or have a single *)
(* owner, so an object is freed when nothing points to it any more.        *)
(*                                                                         *)
(* Configurations are loaded and removed on the main thread while streams  *)
(* come and go on the workers.  A processor stands for itself and for the  *)
(* functions and the condition that it alone holds.                        *)
(***************************************************************************)
EXTENDS Naturals, Sequences

CONSTANTS
    Texts,      \* the configurations that pass validation, as lines
    Loads,      \* how often a configuration is given to the factory
    Streams

Sides == {"http-request", "http-response"}

\* A line by what becomes of it (FilterConfig): an operation is pushed, a
\* set-bool inserted, a bad line ends the loop, a set-bool without name throws.
Line == [side : Sides, kind : {"operation", "set-bool", "bad", "throws"}]

ASSUME TextsAssumption == Texts \subseteq Seq(Line)

VARIABLES
    factory,    \* for each load: "none", "refused", "active", "removed"
    text,       \* config_ of each configuration object
    stream,     \* for each stream: its state, its load, the constructor's line
    live,       \* the objects that are allocated
    refs        \* the pairs <<holder, object>>: who has a pointer to what

vars == <<factory, text, stream, live, refs>>

\* Objects, and holders that are not objects of this code: the callback that
\* Envoy keeps, the invocation of it that builds a filter, the filter chain.
Config(n) == <<"config", n>>
Filter(f) == <<"filter", f>>
Map(f, s) == <<"map", f, s>>
Processor(f, i) == <<"processor", f, i>>
Callback(n) == <<"callback", n>>
Invocation(f) == <<"invocation", f>>
Chain(f) == <<"chain", f>>

Init ==
    /\ factory = [n \in Loads |-> "none"]
    /\ text = [n \in Loads |-> <<>>]
    /\ stream = [f \in Streams |-> [state |-> "none"]]
    /\ live = {}
    /\ refs = {}

HeldBy(h) == {r \in refs : r[1] = h}
PointingTo(o) == {r \in refs : r[2] = o}

----------------------------------------------------------------------------
\* The factory.

\* min_len = 1: validation throws before anything is made.
RefuseEmpty(n) ==
    /\ factory[n] = "none"
    /\ factory' = [factory EXCEPT ![n] = "refused"]
    /\ UNCHANGED <<text, stream, live, refs>>

createFilterFactoryFromProto(n) ==
    /\ factory[n] = "none"
    /\ factory' = [factory EXCEPT ![n] = "active"]
    /\ \E t \in Texts : text' = [text EXCEPT ![n] = t]
    /\ live' = live \cup {Config(n)}
    /\ refs' = refs \cup {<<Callback(n), Config(n)>>}
    /\ UNCHANGED stream

\* A fault: the callback owns the configuration alone.
RemoveCallbackAndConfig(n) ==
    /\ factory[n] = "active"
    /\ \A f \in Streams : ~(stream[f].state = "building" /\ stream[f].load = n)
    /\ factory' = [factory EXCEPT ![n] = "removed"]
    /\ refs' = refs \ HeldBy(Callback(n))
    /\ live' = live \ {Config(n)}
    /\ UNCHANGED <<text, stream>>

\* Envoy drops a callback that no stream is being made with: the listener was
\* updated and the old filter chain drained.
RemoveCallback(n) ==
    /\ factory[n] = "active"
    /\ \A f \in Streams : ~(stream[f].state = "building" /\ stream[f].load = n)
    /\ factory' = [factory EXCEPT ![n] = "removed"]
    /\ refs' = refs \ HeldBy(Callback(n))
    /\ UNCHANGED <<text, stream, live>>

----------------------------------------------------------------------------
\* The callback, for one stream: new, constructor, addStreamFilter.

\* A fault: the filter keeps a plain reference to the configuration.
MembersUncounted(f, n) ==
    {<<Filter(f), Map(f, s)>> : s \in Sides}

Members(f, n) ==
    {<<Filter(f), Config(n)>>} \cup {<<Filter(f), Map(f, s)>> : s \in Sides}

NewFilter(f, n) ==
    /\ stream[f].state = "none"
    /\ factory[n] = "active"
    /\ stream' = [stream EXCEPT ![f] = [state |-> "building", load |-> n, line |-> 1]]
    /\ live' = live \cup {Filter(f)} \cup {Map(f, s) : s \in Sides}
    /\ refs' = refs \cup {<<Invocation(f), Filter(f)>>} \cup Members(f, n)
    /\ UNCHANGED <<factory, text>>

Building(f) == stream[f].state = "building"
Text(f) == text[stream[f].load]
AtLine(f, kind) ==
    /\ Building(f)
    /\ stream[f].line <= Len(Text(f))
    /\ Text(f)[stream[f].line].kind = kind

Own(f) == Processor(f, stream[f].line)
OwnMap(f) == Map(f, Text(f)[stream[f].line].side)

\* A fault: a line is skipped.
KeepSkippingLine(f, owner) ==
    /\ live' = live \cup {Own(f)}
    /\ refs' = refs \cup {<<owner, Own(f)>>, <<Own(f), OwnMap(f)>>}
    /\ stream' = [stream EXCEPT ![f].line = @ + 2]
    /\ UNCHANGED <<factory, text>>

\* A fault: a processor also shares its filter.
KeepWithFilter(f, owner) ==
    /\ live' = live \cup {Own(f)}
    /\ refs' = refs \cup {<<owner, Own(f)>>, <<Own(f), OwnMap(f)>>, <<Own(f), Filter(f)>>}
    /\ stream' = [stream EXCEPT ![f].line = @ + 1]
    /\ UNCHANGED <<factory, text>>

\* A new processor, held by owner, with its pointer to the map of its side.
Keep(f, owner) ==
    /\ live' = live \cup {Own(f)}
    /\ refs' = refs \cup {<<owner, Own(f)>>, <<Own(f), OwnMap(f)>>}
    /\ stream' = [stream EXCEPT ![f].line = @ + 1]
    /\ UNCHANGED <<factory, text>>

PushOperation(f) == AtLine(f, "operation") /\ Keep(f, Filter(f))

InsertSetBool(f) == AtLine(f, "set-bool") /\ Keep(f, OwnMap(f))

AddStreamFilter(f) ==
    /\ refs' = (refs \ HeldBy(Invocation(f))) \cup {<<Chain(f), Filter(f)>>}
    /\ stream' = [stream EXCEPT ![f].state = "open"]
    /\ UNCHANGED <<factory, text, live>>

\* The processor of a bad line is dropped before the constructor returns.
StopAtBadLine(f) == AtLine(f, "bad") /\ AddStreamFilter(f)

Finish(f) == Building(f) /\ stream[f].line > Len(Text(f)) /\ AddStreamFilter(f)

\* A fault: what `new' allocated is not given back.
ThrowKeepingFilter(f) ==
    /\ AtLine(f, "throws")
    /\ stream' = [stream EXCEPT ![f].state = "thrown"]
    /\ UNCHANGED <<factory, text, live, refs>>

\* The members are destroyed and the memory is given back; the chain never
\* sees the filter.
Throw(f) ==
    /\ AtLine(f, "throws")
    /\ refs' = refs \ (HeldBy(Invocation(f)) \cup HeldBy(Filter(f)))
    /\ live' = live \ {Filter(f)}
    /\ stream' = [stream EXCEPT ![f].state = "thrown"]
    /\ UNCHANGED <<factory, text>>

CloseStream(f) ==
    /\ stream[f].state = "open"
    /\ refs' = refs \ HeldBy(Chain(f))
    /\ stream' = [stream EXCEPT ![f].state = "closed"]
    /\ UNCHANGED <<factory, text, live>>

\* The last pointer is gone: the destructor runs and drops what o held.
Release(o) ==
    /\ PointingTo(o) = {}
    /\ live' = live \ {o}
    /\ refs' = refs \ HeldBy(o)
    /\ UNCHANGED <<factory, text, stream>>

----------------------------------------------------------------------------
LoadStep ==
    \E n \in Loads : RefuseEmpty(n) \/ createFilterFactoryFromProto(n) \/ RemoveCallback(n)

BuildStep(f) ==
    \/ PushOperation(f)
    \/ InsertSetBool(f)
    \/ StopAtBadLine(f)
    \/ Finish(f)
    \/ Throw(f)

ReleaseStep == \E o \in live : Release(o)

\* Nothing is left to load, to open, to close or to free.
AllOver ==
    /\ \A n \in Loads : factory[n] \in {"refused", "removed"}
    /\ \A f \in Streams : stream[f].state \in {"none", "thrown", "closed"}
    /\ UNCHANGED vars

Next ==
    \/ LoadStep
    \/ \E f \in Streams : \E n \in Loads : NewFilter(f, n)
    \/ \E f \in Streams : BuildStep(f)
    \/ \E f \in Streams : CloseStream(f)
    \/ ReleaseStep
    \/ AllOver

\* Destructors run, and a constructor that has begun is carried through; no
\* configuration, stream or end of a stream is bound to come.
Spec ==
    /\ Init /\ [][Next]_vars
    /\ WF_vars(ReleaseStep)
    /\ \A f \in Streams : WF_vars(BuildStep(f))

----------------------------------------------------------------------------
Positions == UNION {1 .. Len(t) : t \in Texts}

\* The holders that are not objects of this code.
Owners == {"callback", "invocation", "chain"}

\* What the pointers of this code can point from and to.
Pointers ==
    UNION {{<<Callback(n), Config(n)>> : n \in Loads},
           {<<Invocation(f), Filter(f)>> : f \in Streams},
           {<<Chain(f), Filter(f)>> : f \in Streams},
           {<<Filter(f), Config(n)>> : f \in Streams, n \in Loads},
           {<<Filter(f), Map(f, s)>> : f \in Streams, s \in Sides},
           {<<Filter(f), Processor(f, i)>> : f \in Streams, i \in Positions},
           {<<Map(f, s), Processor(f, i)>> : f \in Streams, s \in Sides, i \in Positions},
           {<<Processor(f, i), Map(f, s)>> : f \in Streams, s \in Sides, i \in Positions}}

LifecycleTypeOK ==
    /\ factory \in [Loads -> {"none", "refused", "active", "removed"}]
    /\ text \in [Loads -> Texts \cup {<<>>}]
    /\ stream \in [Streams -> [state : {"none"}]
         \cup [state : {"building", "open", "closed", "thrown"}, load : Loads, line : Nat]]
    /\ \A f \in Streams :
        stream[f].state # "none" => stream[f].line \in 1 .. Len(Text(f)) + 1
    /\ refs \subseteq Pointers
    /\ \A o \in live : o[1] \notin Owners

\* A filter whose stream is being made or is open is there with its maps and
\* its configuration, whatever was loaded or removed since, and no pointer
\* dangles: neither what it points to nor the object that holds it was freed.
Held == {"building", "open"}

NoDangling ==
    \A r \in refs :
        /\ r[2] \in live
        /\ r[1] \in live \/ r[1][1] \in Owners

NothingUsedIsFreed ==
    /\ NoDangling
    /\ \A f \in Streams : stream[f].state \in Held =>
        {Filter(f), Config(stream[f].load)} \cup {Map(f, s) : s \in Sides} \subseteq live

(***************************************************************************)
(* The inductive invariant of the proof: who must hold what.  A callback   *)
(* holds its configuration; a filter that is being made or is in a chain   *)
(* is held by exactly that, and holds its members.                         *)
(***************************************************************************)
Custody ==
    /\ \A n \in Loads : factory[n] = "active" => <<Callback(n), Config(n)>> \in refs
    /\ \A f \in Streams :
        /\ stream[f].state # "none" => factory[stream[f].load] \in {"active", "removed"}
        /\ stream[f].state = "building" => <<Invocation(f), Filter(f)>> \in refs
        /\ <<Chain(f), Filter(f)>> \in refs => stream[f].state = "open"
        /\ stream[f].state = "open" => <<Chain(f), Filter(f)>> \in refs
        /\ stream[f].state \in Held => Members(f, stream[f].load) \subseteq refs

LifecycleIInv == LifecycleTypeOK /\ NoDangling /\ Custody

\* The set-bools that a stream's constructor stored on side s.
StoredBools(f, s) ==
    {i \in 1 .. stream[f].line - 1 : Text(f)[i] = [side |-> s, kind |-> "set-bool"]}

\* The inductive invariant of what is leaked: the pointers between a map and the
\* processors of its side.  Only what the map was given holds or is held, and no
\* step takes a stored set-bool and its map apart.
Cycles ==
    /\ \A f \in Streams : <<Invocation(f), Filter(f)>> \in refs => Building(f)
    /\ \A f \in Streams, s \in Sides, i \in Positions :
        /\ <<Map(f, s), Processor(f, i)>> \in refs =>
            stream[f].state # "none" /\ i \in StoredBools(f, s)
        /\ <<Processor(f, i), Map(f, s)>> \in refs =>
            /\ stream[f].state # "none"
            /\ i \in 1 .. stream[f].line - 1 /\ Text(f)[i].side = s
        /\ stream[f].state # "none" /\ i \in StoredBools(f, s) =>
            {<<Map(f, s), Processor(f, i)>>, <<Processor(f, i), Map(f, s)>>} \subseteq refs

\* What a stream leaves allocated for good: a set-bool and the map that holds
\* it keep each other alive, so both outlive the filter, once per stream; a side
\* without set-bools, the operations, the filter and, once its callback and its
\* streams are gone, the configuration are freed.
Settled == \A o \in live : PointingTo(o) # {}

Leaked(f) ==
    LET sides == {s \in Sides : StoredBools(f, s) # {}}
    IN  {Map(f, s) : s \in sides}
          \cup UNION {{Processor(f, i) : i \in StoredBools(f, s)} : s \in sides}

LeaksExactlyTheCycles ==
    Settled =>
        \A f \in Streams : stream[f].state \in {"closed", "thrown"} =>
            {o \in live : o[1] # "config" /\ o[2] = f} = Leaked(f)

\* A configuration that was removed is freed when its last stream has ended;
\* the maps that leak do not hold it.
Unused(n) ==
    /\ factory[n] = "removed"
    /\ \A f \in Streams : stream[f].state \in Held => stream[f].load # n

ConfigFreed == \A n \in Loads : Unused(n) ~> Config(n) \notin live
=============================================================================
