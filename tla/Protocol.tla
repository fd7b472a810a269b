------------------------------ MODULE Protocol ------------------------------
(***************************************************************************)
(* The protocol handlers of one Kademlia node (src/unnamed/part_003 lines *)
(* 159-344, KademliaProtocol), composed with its routing table            *)
(* (RoutingTable) and its value store (Storage).                          *)
(*                                                                         *)
(* Peers send the node requests (rpc_ping, rpc_store, rpc_find_node,      *)
(* rpc_find_value); each handler first runs welcomeIfNewNode on the       *)
(* sender.  The node's own outgoing calls (callPing from addContact,      *)
(* callStore from welcomeIfNewNode, callFindNode/callFindValue from a     *)
(* crawl) are pending in `calls` until handleCallResponse sees their      *)
(* result: an answer welcomes the node, a timeout removes it from the     *)
(* table.  Any call may time out (UDP loses datagrams, peers crash) and   *)
(* any peer may send a request, so which peers are alive is left open.    *)
(*                                                                         *)
(* Time does not pass here: the store's clock is fixed, so cull() keeps   *)
(* every entry (the ttl is the subject of Storage).  Keys are model       *)
(* values whose sha1 digest is KeyId[key].  Pending calls are a set: two  *)
(* identical calls in flight at once are one.                             *)
(***************************************************************************)
EXTENDS Integers, Sequences, SequencesExt, FiniteSets

CONSTANTS
    IdBits, KSize, LocalId, Peers, FracBits, NoNode,   \* as in RoutingTable
    Keys,       \* keys stored under
    Vals,       \* stored values
    KeyId,      \* Keys -> ids: Node(digest(key)), welcomeIfNewNode's keynode
    NoVal,      \* model value: storage.get's null
    NoKey,      \* model value: the key field of a call that carries none
    MaxCalls    \* bound on the calls in flight when a crawl calls

ASSUME KeyId \in [Keys -> 0..(2^IdBits - 1)]

VARIABLES
    buckets,    \* router.buckets
    store,      \* storage entries (Storage's store)
    calls,      \* pending outgoing RPCs: [kind, node, key]
    silent      \* history: peers whose latest call timed out and that
                \* have not spoken since

vars == <<buckets, store, calls, silent>>

RT == INSTANCE RoutingTable WITH pinging <- {}

ST == INSTANCE Storage WITH now <- 0, got <- NoVal,
                            TTL <- 1, MaxTime <- 0, ClockMayGoBack <- FALSE, Null <- NoVal,
                            skewed <- FALSE, Period <- 0, republishing <- <<>>

Call == [kind : {"ping", "find"}, node : Peers, key : {NoKey}]
            \cup [kind : {"store"}, node : Peers, key : Keys]

Contacts == RT!Contacts(buckets)

\* Mutant of OfferStore: the `l === 0 ||` case dropped, so a node with no
\* neighbors of the key stores nothing on newcomers.
OfferStoreNeedsNeighbors(bs, n, k) ==
    LET kid == KeyId[k]
        nb  == RT!FindNeighbors(bs, kid, KSize, NoNode)
        l   == Len(nb)
    IN  /\ l > 0
        /\ RT!Distance(n, kid) < RT!Distance(nb[l], kid)
        /\ RT!Distance(LocalId, kid) < RT!Distance(nb[1], kid)

\* The store test of welcomeIfNewNode for one (key, value) of storage:
\* no neighbors of the key, or the new node nearer than the farthest of
\* them and this node nearer than the nearest.
OfferStore(bs, n, k) ==
    LET kid == KeyId[k]
        nb  == RT!FindNeighbors(bs, kid, KSize, NoNode)
        l   == Len(nb)
    IN  \/ l = 0
        \/ /\ RT!Distance(n, kid) < RT!Distance(nb[l], kid)
           /\ RT!Distance(LocalId, kid) < RT!Distance(nb[1], kid)

\* Mutant of Welcome: callStore(node, value, key), arguments swapped.
WelcomeSwapsStoreArgs(bs, s, n) ==
    IF ~RT!IsNewNode(bs, n)
    THEN [buckets |-> bs, store |-> s, out |-> {}]
    ELSE LET items == ST!Cull(s)
             r     == RT!AddContactOp(bs, n)
         IN  [buckets |-> r.buckets,
              store   |-> items,
              out     |-> {[kind |-> "store", node |-> n, key |-> items[i].val] :
                              i \in {j \in 1..Len(items) : OfferStore(bs, n, items[j].key)}}
                          \cup (IF r.ping = NoNode THEN {}
                                ELSE {[kind |-> "ping", node |-> r.ping, key |-> NoKey]})]

\* Mutant of Welcome: addContact's callPing of a full bucket's head is
\* never issued.
WelcomeNoPing(bs, s, n) ==
    IF ~RT!IsNewNode(bs, n)
    THEN [buckets |-> bs, store |-> s, out |-> {}]
    ELSE LET items == ST!Cull(s)
             r     == RT!AddContactOp(bs, n)
         IN  [buckets |-> r.buckets,
              store   |-> items,
              out     |-> {[kind |-> "store", node |-> n, key |-> items[i].key] :
                              i \in {j \in 1..Len(items) : OfferStore(bs, n, items[j].key)}}]

\* welcomeIfNewNode(node) on the table bs and the entries s: nothing for a
\* known node; otherwise storage.items() (a cull), a callStore for every
\* entry that passes OfferStore, then router.addContact(node), whose
\* callPing of a full bucket's head is one more call.
Welcome(bs, s, n) ==
    IF ~RT!IsNewNode(bs, n)
    THEN [buckets |-> bs, store |-> s, out |-> {}]
    ELSE LET items == ST!Cull(s)
             r     == RT!AddContactOp(bs, n)
         IN  [buckets |-> r.buckets,
              store   |-> items,
              out     |-> {[kind |-> "store", node |-> n, key |-> items[i].key] :
                              i \in {j \in 1..Len(items) : OfferStore(bs, n, items[j].key)}}
                          \cup (IF r.ping = NoNode THEN {}
                                ELSE {[kind |-> "ping", node |-> r.ping, key |-> NoKey]})]

\* Bookkeeping of the history when p is heard from.
Heard(p) == silent' = silent \ {p}

\* Apply a welcome result.
Apply(w) ==
    /\ buckets' = w.buckets
    /\ calls' = calls \cup w.out

Init ==
    /\ buckets = <<RT!NewBucket(0, RT!Top)>>
    /\ store = <<>>
    /\ calls = {}
    /\ silent = {}

\* rpc_ping(sender, nodeid): welcome the sender, answer our id.
RpcPing(p) ==
    /\ LET w == Welcome(buckets, store, p)
       IN  Apply(w) /\ store' = w.store
    /\ Heard(p)

\* rpc_store(sender, nodeid, key, value): welcome, then storage.set.
RpcStore(p, k, v) ==
    /\ LET w == Welcome(buckets, store, p)
       IN  Apply(w) /\ store' = ST!Put(w.store, k, v)
    /\ Heard(p)

\* rpc_find_node(sender, nodeid, key): welcome, answer findNeighbors
\* (the answer changes no state here).
RpcFindNode(p) ==
    /\ LET w == Welcome(buckets, store, p)
       IN  Apply(w) /\ store' = w.store
    /\ Heard(p)

\* rpc_find_value(sender, nodeid, key): welcome, storage.get; on a miss
\* it calls rpc_find_node, which welcomes the sender a second time.
RpcFindValue(p, k) ==
    /\ LET w1 == Welcome(buckets, store, p)
           hit == ST!Lookup(ST!Cull(w1.store), k) # NoVal
           w2 == IF hit THEN [w1 EXCEPT !.out = {}]
                 ELSE Welcome(w1.buckets, ST!Cull(w1.store), p)
       IN  /\ buckets' = w2.buckets
           /\ calls' = calls \cup w1.out \cup w2.out
           /\ store' = IF hit THEN ST!Cull(w1.store) ELSE w2.store
    /\ Heard(p)

\* callFindNode / callFindValue(nodeToAsk, ...) issued by a crawl, while
\* fewer than MaxCalls calls are in flight.
CallFind(p) ==
    /\ Cardinality(calls) < MaxCalls
    /\ calls' = calls \cup {[kind |-> "find", node |-> p, key |-> NoKey]}
    /\ UNCHANGED <<buckets, store, silent>>

\* handleCallResponse(result, node) with result[0] true: welcome node.
CallAnswered(c) ==
    /\ c \in calls
    /\ LET w == Welcome(buckets, store, c.node)
       IN  /\ buckets' = w.buckets
           /\ calls' = (calls \ {c}) \cup w.out
           /\ store' = w.store
    /\ Heard(c.node)

\* handleCallResponse(result, node) with result[0] false (the RPC timed
\* out): router.removeContact(node).
CallTimedOut(c) ==
    /\ c \in calls
    /\ calls' = calls \ {c}
    /\ buckets' = RT!RemoveContactOp(buckets, c.node)
    /\ silent' = silent \cup {c.node}
    /\ UNCHANGED store

Next ==
    \/ \E p \in Peers :
          \/ RpcPing(p) \/ RpcFindNode(p) \/ CallFind(p)
          \/ \E k \in Keys : RpcFindValue(p, k)
          \/ \E k \in Keys, v \in Vals : RpcStore(p, k, v)
    \/ \E c \in calls : CallAnswered(c) \/ CallTimedOut(c)

Spec == Init /\ [][Next]_vars

-----------------------------------------------------------------------------
(* Properties *)

TypeOK ==
    /\ buckets \in Seq(RT!Bucket)
    /\ store \in Seq([key : Keys, t : {0}, val : Vals])
    /\ calls \subseteq Call
    /\ silent \subseteq Peers

\* Spec 8, scenario 4: a node whose RPC timed out is not in the table
\* until it is heard from again -- although removeContact leaves it in
\* its bucket's replacement list, from which removeNode later promotes it.
NoSilentContact == Contacts \cap silent = {}

\* A step in which node n, not yet known, is welcomed: it sent a request
\* or answered a call.
WelcomeStep(n) ==
    /\ RT!IsNewNode(buckets, n)
    /\ \/ RpcPing(n) \/ RpcFindNode(n)
       \/ \E k \in Keys : RpcFindValue(n, k)
       \/ \E k \in Keys, v \in Vals : RpcStore(n, k, v)
       \/ \E c \in calls : c.node = n /\ CallAnswered(c)

\* Node n is nearer to id than every contact, and so is this node.
NearerThanContacts(n, id) ==
    \A c \in Contacts \ {n} :
        /\ RT!Distance(n, id) < RT!Distance(c, id)
        /\ RT!Distance(LocalId, id) < RT!Distance(c, id)

\* Spec 4.5 (replication to a newcomer, paper section 2.5): when a new
\* node is welcomed that is nearer to a stored key than every contact,
\* and this node is too, the key is sent to it.  welcomeIfNewNode tests
\* the neighbors findNeighbors returns, which may miss contacts (the
\* traverser's early end); the rule must still hold for every contact,
\* including when there are none (l === 0) and when the neighbors are
\* read before addContact puts the newcomer itself among them.
NewcomerNearestGetsStore ==
    [][\A n \in Peers : WelcomeStep(n) =>
          \A k \in ST!StoredKeys(store) :
              NearerThanContacts(n, KeyId[k])
                  => [kind |-> "store", node |-> n, key |-> k] \in calls']_vars

\* The routing table as the protocol drives it: the heads addContact is
\* pinging are the nodes of the ping calls in flight.
Tbl == INSTANCE RoutingTable WITH pinging <- {c.node : c \in {x \in calls : x.kind = "ping"}}

\* Spec 4.3-4.5: every step of the handlers changes the table only as the
\* table's own operations do -- addContact for a node heard from (with its
\* callPing of the head), removeContact after a timed-out call, and
\* handleCallResponse of a ping -- even where rpc_find_value welcomes its
\* sender twice and where unrelated calls to a pinged head settle first.
TableRefinement == Tbl!Spec

=============================================================================
