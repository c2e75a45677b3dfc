----------------------------- MODULE MCRpcSession -----------------------------
EXTENDS RpcSession

\* An update with the intervention id alone, one with the request id as well,
\* and one about another session with a second request id that does not parse.
MCShapes == {[method |-> TRUE, session |-> TRUE, own |-> FALSE, junk |-> FALSE, iids |-> {Advice}],
             [method |-> TRUE, session |-> TRUE, own |-> TRUE, junk |-> FALSE, iids |-> {Advice}],
             [method |-> TRUE, session |-> FALSE, own |-> TRUE, junk |-> TRUE, iids |-> {}]}
=============================================================================
