--------------------------- MODULE MCEventIndexer ---------------------------
(* Instances of EventIndexer for TLC.                                      *)
EXTENDS EventIndexer

\* One parse of each source at a time.
OneEach == Sources \X {1}

\* The two periodic processes, for liveness.
RetryAndLive == {"live", "retry"} \X {1}
=============================================================================
