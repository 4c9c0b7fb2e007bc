-------------------------- MODULE MCFilterLifecycle --------------------------
\* Configurations with set-bools on neither, one and both sides, and ones whose
\* constructor stops or throws after a set-bool was stored.
EXTENDS FilterLifecycle

MCLine(s, k) == [side |-> s, kind |-> k]
MCRequest(k) == MCLine("http-request", k)
MCResponse(k) == MCLine("http-response", k)

MCTexts == {
    <<MCRequest("operation"), MCResponse("operation")>>,
    <<MCRequest("set-bool"), MCRequest("operation"), MCResponse("set-bool")>>,
    <<MCResponse("set-bool"), MCResponse("set-bool")>>,
    <<MCRequest("set-bool"), MCRequest("bad"), MCResponse("set-bool")>>,
    <<MCResponse("set-bool"), MCRequest("operation"), MCRequest("throws")>>}
=============================================================================
