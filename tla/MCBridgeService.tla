--------------------------- MODULE MCBridgeService ---------------------------
EXTENDS BridgeService

\* Calls of batch with up to two different tasks, and with none.
MCBatch == {s \in UNION {[1..n -> Task] : n \in 0..2} :
               \A i, j \in DOMAIN s : s[i] = s[j] => i = j}
=============================================================================
