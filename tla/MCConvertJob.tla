---------------------------- MODULE MCConvertJob ----------------------------
EXTENDS ConvertJob

\* Retry limits: 1, 2 and 5 in the code.
RetryOnce == [l \in Steps |-> IF l \in {"split", "merge"} THEN 0 ELSE 1]
=============================================================================
