---------------------------- MODULE RewriteContract ----------------------------
(***************************************************************************)
(* What a header rewrite filter promises to the filter chain around it: a  *)
(* message that arrives is rewritten in a single step, as a function of    *)
(* the configuration's text and the message.  There are no lists, maps or  *)
(* iterators here, and no half rewritten messages.  What that function is, *)
(* is a parameter; module RewriteMeaning defines it.                       *)
(***************************************************************************)
CONSTANTS
    Configs, Requests, Responses,
    Throws(_),          \* the configurations no filter can be made of
    AllGood(_),         \* those without a bad line
    Rewritten(_, _, _)  \* configuration, side and message to what comes of it

VARIABLES
    config,     \* the configuration, as lines of tokens
    stage,      \* what has happened to the stream
    headers, path, metadata,
    outcome     \* how the filter left the message of each side

contractVars == <<config, stage, headers, path, metadata, outcome>>

Init ==
    /\ config \in Configs
    /\ stage = "idle"
    /\ headers = [s \in {"http-request", "http-response"} |-> <<>>]
    /\ path = [base |-> <<>>, query |-> <<>>]
    /\ metadata = <<>>
    /\ outcome = [s \in {"http-request", "http-response"} |-> "none"]

Refuse ==
    /\ stage = "idle" /\ stage' = "threw"
    /\ Throws(config)
    /\ UNCHANGED <<config, headers, path, metadata, outcome>>

\* A stream with a bad configuration is passed over.
Arrive(side, busy, passed) ==
    /\ stage' \in {busy, passed} /\ (stage' = busy <=> AllGood(config))
    /\ ~Throws(config)
    /\ outcome' = IF stage' = busy THEN outcome ELSE [outcome EXCEPT ![side] = "skipped"]
    /\ UNCHANGED <<config, metadata>>

ArriveRequest ==
    /\ stage = "idle"
    /\ Arrive("http-request", "decoding", "decoded")
    /\ \E r \in Requests :
        /\ headers' = [headers EXCEPT !["http-request"] = r.headers]
        /\ path' = r.path

ArriveResponse ==
    /\ stage \in {"idle", "decoded"}
    /\ Arrive("http-response", "encoding", "encoded")
    /\ \E r \in Responses : headers' = [headers EXCEPT !["http-response"] = r]
    /\ UNCHANGED path

Rewrite(side, busy, passed) ==
    /\ stage = busy /\ stage' \in {passed, "crashed"}
    /\ LET m == [headers |-> headers[side], path |-> path, metadata |-> metadata]
           went == Rewritten(config, side, m)
       IN  /\ headers' = [headers EXCEPT ![side] = went.message.headers]
           /\ path' = went.message.path
           /\ metadata' = went.message.metadata
           /\ stage' = "crashed" <=> went.how = "crashed"
           /\ outcome' = IF went.how = "crashed" THEN outcome
                         ELSE [outcome EXCEPT ![side] = went.how]
    /\ UNCHANGED config

End ==
    /\ stage \in {"idle", "decoded", "encoded"} /\ stage' = "destroyed"
    /\ ~Throws(config)
    /\ UNCHANGED <<config, headers, path, metadata, outcome>>

Next ==
    \/ Refuse
    \/ ArriveRequest
    \/ ArriveResponse
    \/ Rewrite("http-request", "decoding", "decoded")
    \/ Rewrite("http-response", "encoding", "encoded")
    \/ End

Spec == Init /\ [][Next]_contractVars
=============================================================================
