------------------------------ MODULE MCServer ------------------------------
(***************************************************************************)
(* Model-checking instance of Server: 6-bit ids, k = 2, alpha = 1, the    *)
(* local node 0, three peers and the key's digest 10.                     *)
(***************************************************************************)
EXTENDS Server, TLC

MCIdBits == 6
MCKSize == 2
MCLocalId == 0
MCFracBits == 7
MCAlpha == 1
MCIdChars == 40

\* 40 and 41 share a 5-bit prefix: once the table has split, their
\* bucket [33, 64] has depth 5, so adding 43 pings the head instead of
\* splitting.  Their distances to the digest are 34 (40), 35 (41) and
\* 33 (43); the local node's is 10, so set_digest also stores locally.
MCPeers == {40, 41, 43}
MCTarget == 10
\* welcomeIfNewNode replicates by digest(dkey), another id: from 12 the
\* peers' distances are 36 (40), 37 (41) and 39 (43), so 43, the nearest
\* to the key, is the one a welcome never offers the value to while two
\* other contacts are known.
MCKeyNodeId == 12
MCVals == {"v0", "v1"}
MCSetVal == "v1"

\* The node list each peer answers; 41 knows 40 and 43, so a crawl that
\* lost 40 hears of it again.
MCKnows == (40 :> {43}) @@ (41 :> {40, 43}) @@ (43 :> {40, 41})

\* bootstrap left 40 and then 41 in the table.
MCInitKnown == <<40, 41>>

\* 43 still stores an older value of the key.
MCInitHeld == (40 :> NoVal) @@ (41 :> NoVal) @@ (43 :> "v0")
=============================================================================
