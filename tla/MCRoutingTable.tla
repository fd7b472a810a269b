--------------------------- MODULE MCRoutingTable ---------------------------
(***************************************************************************)
(* Model-checking instance of RoutingTable: 6-bit ids, k = 2, local node  *)
(* at id 0.  Six bits are the fewest for which a full bucket of distinct  *)
(* ids can have depth 5, i.e. the fewest in which addContact's no-split   *)
(* branch (depth % 5 = 0, local node out of range) pings the bucket head. *)
(***************************************************************************)
EXTENDS RoutingTable

MCIdBits == 6
MCKSize == 2
MCLocalId == 0
MCFracBits == 7
\* Two draws of random() per lonely bucket: 0 and one half of its width.
MCRandSteps == 2

\* Two pairs sharing a 5-bit prefix (8, 9 and 40, 41), two ids (50, 20)
\* that land beside them so that [33, 64] fills with depth 5 and pings, and
\* 32, the midpoint of the first split.
MCPeers == {8, 9, 20, 32, 40, 41, 50}

\* The midpoint 32 with two ids that fill the first bucket.
MCPeersMidpoint == {32, 40, 50}

\* Three buckets left of a target and none right of it, with no integer
\* midpoint among the peers, so findNeighbors is seen apart from split.
MCPeersTraverse == {8, 40, 50, 60}
=============================================================================
