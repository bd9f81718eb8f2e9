------------------------------- MODULE MCService ------------------------------
\* The service on a few dimensions, requests and prewarm lists.
EXTENDS Service

CONSTANTS k1, k2, k3, none, main, w1, w2

MCPrewarm == {<<>>, <<k1, k2, k1, k3>>}

MCRequests ==
  {[route |-> "query", dims |-> <<k1>>, valid |-> TRUE],
   [route |-> "query", dims |-> <<none>>, valid |-> TRUE],
   [route |-> "query", dims |-> <<k2>>, valid |-> FALSE],
   [route |-> "prewarm", dims |-> <<k2, k3>>, valid |-> TRUE],
   [route |-> "ready", dims |-> <<>>, valid |-> TRUE]}
=============================================================================
