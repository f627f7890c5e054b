------------------------------ MODULE MCPubSub ------------------------------
EXTENDS PubSub

\* Two messages of different lengths.
Batches == {<<1, 2>>}

\* A program that calls a publisher, the two loops against each other, and a
\* program that receives from a subscriber.
Setups == {<<"api", "none">>, <<"run", "run">>, <<"none", "api">>}

\* No attempt at all, and one retry.
Retries == {-1, 1}
=============================================================================
