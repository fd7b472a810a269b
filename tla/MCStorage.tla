------------------------------ MODULE MCStorage ------------------------------
(* Model-checking instance of Storage.                                     *)
EXTENDS Storage

\* Two keys so that one can be overwritten while the other ages; a ttl of
\* two ticks and a clock bound of four, so that an entry can be fresh,
\* overwritten, and expired within one behaviour.
MCKeys == {"k1", "k2"}
MCVals == {"v1", "v2"}
MCTTL == 2
MCMaxTime == 4
\* The refresh republishes entries older than three ticks: longer than the
\* ttl, as PERIOD_HOUR (360 s) is longer than the 20 s ttl.
MCPeriod == 3
=============================================================================
