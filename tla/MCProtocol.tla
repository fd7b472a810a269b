----------------------------- MODULE MCProtocol -----------------------------
(***************************************************************************)
(* Model-checking instance of Protocol: 6-bit ids, k = 2, local node 0.   *)
(***************************************************************************)
EXTENDS Protocol

MCIdBits == 6
MCKSize == 2
MCLocalId == 0
MCFracBits == 7

\* 40 and 41 share a 5-bit prefix: once both are in [33, 64] that bucket
\* has depth 5, so a third id there (43) goes to the replacement list and
\* the head is pinged.  20 lands in the other half.  The key's digest 42
\* lies between 40, 41 and 43, so which of them a store is offered to
\* depends on which are already contacts.
MCPeers == {20, 40, 41, 43}

MCKeys == {"key"}
MCVals == {"v"}
MCMaxCalls == 1
MCKeyId == [k \in MCKeys |-> 42]

\* For the replication run: the key's digest 10 is nearer to this node (0)
\* than to any peer, so whether a newcomer is sent the key turns on the
\* neighbors findNeighbors returns.  20 (distance 30) is the peer nearest
\* the key, 40 and 41 (34, 35) come next and fill [33, 64] to depth 5, and
\* 50 (56) either pings that bucket's head or, arriving before 41, splits
\* it: then buckets [0, 32]{20}, [33, 48.5]{40, 41}, [49.5, 64]{50} make
\* the traverser take 50 and 41 first, and findNeighbors(10) misses 40.
MCPeersStore == {20, 40, 41, 50}
MCKeyIdStore == [k \in MCKeys |-> 10]
=============================================================================
