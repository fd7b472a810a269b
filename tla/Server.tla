------------------------------- MODULE Server -------------------------------
(***************************************************************************)
(* The high-level node (src/p2p/kademlia/crawling.js: SpiderCrawl,         *)
(* ValueSpiderCrawl, NodeSpiderCrawl, the network.js Server's get and      *)
(* set_digest) driven by the App's keepalive (src/unnamed/part_001), over *)
(* the node's routing table (RoutingTable) and the NodeHeap of each crawl *)
(* (src/unnamed/part_003 lines 52-153).                                    *)
(*                                                                         *)
(* One key is published: TheKey, whose digest is Target.  The other      *)
(* nodes are Peers; Knows[p] is the node list p answers to a find for     *)
(* Target (its own findNeighbors, without the asker), and held[p] the     *)
(* value p stores under the key.  Every RPC may be answered or time out: *)
(* rpc() settles every call within its 5 s timer, so a round of _find,    *)
(* which awaits gather_dict of all its calls, is one step whose outcome   *)
(* is any map from the queried peers to answered / timed out, and whose  *)
(* answers reach handleCallResponse in any order, then the timeouts.     *)
(*                                                                         *)
(* A NodeHeap is the set of nodes pushed and not removed (push skips an  *)
(* id already present); its iterator, the "visible" part, is the KSize    *)
(* nearest to Target in ascending distance.  One operation runs at a     *)
(* time: the App awaits each set before it arms the next keepalive, and   *)
(* get is called between them.                                            *)
(***************************************************************************)
EXTENDS Integers, Sequences, SequencesExt, FiniteSets, Bitwise

CONSTANTS
    IdBits, KSize, LocalId, Peers, FracBits, NoNode,   \* as in RoutingTable
    Alpha,      \* alpha, the crawl's parallelism
    IdChars,    \* characters of an id string (40 hex digits in the code)
    TheKey,     \* the App's key (its serial number)
    Target,     \* digest(TheKey), an id
    KeyNodeId,  \* digest(Target): welcomeIfNewNode's keynode for the
                \* stored key, which is already a digest
    Vals,       \* values a peer may store under the key
    SetVal,     \* the value the keepalive publishes
    NoVal,      \* model value: nothing stored / get returned null
    Knows,      \* Peers -> the node list a peer answers to a find
    InitKnown,  \* the contacts bootstrap left in the table, in order
    InitHeld    \* Peers -> what each peer stores under the key at start

ASSUME Alpha \in Nat \ {0} /\ SetVal \in Vals
ASSUME Knows \in [Peers -> SUBSET Peers] /\ InitHeld \in [Peers -> Vals \cup {NoVal}]
ASSUME \A p \in Peers : p \notin Knows[p] /\ Cardinality(Knows[p]) <= KSize

VARIABLES
    buckets,    \* router.buckets
    pinging,    \* heads whose callPing (from addContact) is in flight
    held,       \* Peers -> value stored under the key, or NoVal
    localHas,   \* this.storage holds SetVal under the key
    op,         \* "idle", "get" (value crawl), "set" (node crawl of
                \* set_digest), "stores" (its callStore race) or "hung"
    heap,       \* spider.nearest: the heap's nodes
    contacted,  \* spider.nearest.contacted
    lastIDs,    \* spider.lastIDsCrawled, as the ids it joins
    nwv,        \* ValueSpiderCrawl.nearestWithoutValue: the heap's nodes
    nodes,      \* the node list the set's crawl returned
    got,        \* what the last get returned
    setOk,      \* result[0] of what the last set returned
    answered    \* history: peers that answered a find of this crawl

vars == <<buckets, pinging, held, localHas, op, heap, contacted, lastIDs,
          nwv, nodes, got, setOk, answered>>

RT == INSTANCE RoutingTable

PR == INSTANCE Protocol WITH Keys <- {TheKey}, KeyId <- [k \in {TheKey} |-> KeyNodeId],
                             NoKey <- NoVal, MaxCalls <- 0, store <- <<>>,
                             calls <- {}, silent <- {}

Nearer(a, b) == RT!Distance(a, Target) < RT!Distance(b, Target)

\* The first n elements of s (Array.slice(0, n)).
Prefix(s, n) == SubSeq(s, 1, IF n < Len(s) THEN n ELSE Len(s))

\* NodeHeap iterator: the maxsize nearest nodes, nearest first.
Visible(h) == Prefix(SetToSortSeq(h, Nearer), KSize)

\* NodeHeap.getUncontacted / allBeenContacted
Uncontacted(h, c) == SelectSeq(Visible(h), LAMBDA p : p \notin c)

AllBeenContacted(h, c) == Uncontacted(h, c) = <<>>

\* Server.get and set_digest seed a crawl with router.findNeighbors(node).
Seeds == ToSet(RT!FindNeighbors(buckets, Target, KSize, NoNode))

\* _find's choice of peers: alpha of the uncontacted, or all of them
\* (count = the length of the joined id string) once the visible ids are
\* those of the previous round.
ToQuery(h, c, last) ==
    LET count == IF Visible(h) = last THEN IdChars * Len(Visible(h)) ELSE Alpha
    IN  Prefix(Uncontacted(h, c), count)

\* _handleFoundValues: the value whose count first exceeds the running
\* maximum, over the values in response order.
MostCommon(vals) ==
    LET step(acc, v) ==
            LET cnt == acc.counter[v] + 1
            IN  [counter |-> [acc.counter EXCEPT ![v] = cnt],
                 best    |-> IF cnt > acc.max THEN v ELSE acc.best,
                 max     |-> IF cnt > acc.max THEN cnt ELSE acc.max]
    IN  FoldLeft(step, [counter |-> [v \in Vals |-> 0], best |-> NoVal, max |-> 0],
                 vals).best

\* RPCFindResponse over the result of a find call to p: happened() is
\* the answer flag; hasValue() holds when p answered with its stored
\* value; getNodeList() is p's node list, empty when p timed out.
HasValue(p, ok) == ok[p] /\ held[p] # NoVal

NodeList(p, ok) == IF ok[p] THEN Knows[p] ELSE {}

\* Mutant of HandleCallResponse: the head addContact returns is recorded
\* as pinged even when no ping was issued.
HandleCallResponseAnyPing(st, n, ok, lh) ==
    IF ~ok THEN [st EXCEPT !.bs = RT!RemoveContactOp(@, n)]
    ELSE IF ~RT!IsNewNode(st.bs, n) THEN st
    ELSE LET r == RT!AddContactOp(st.bs, n)
         IN  [bs      |-> r.buckets,
              ping    |-> st.ping \cup {r.ping},
              offered |-> IF lh /\ PR!OfferStore(st.bs, n, TheKey)
                          THEN st.offered \cup {n} ELSE st.offered]

\* handleCallResponse(result, node): a timeout removes the node; an
\* answer runs welcomeIfNewNode -- for a new node, the callStore of the
\* local value when the replication rule offers it, then addContact,
\* whose head ping joins `pinging`.
HandleCallResponse(st, n, ok, lh) ==
    IF ~ok THEN [st EXCEPT !.bs = RT!RemoveContactOp(@, n)]
    ELSE IF ~RT!IsNewNode(st.bs, n) THEN st
    ELSE LET r == RT!AddContactOp(st.bs, n)
         IN  [bs      |-> r.buckets,
              ping    |-> IF r.ping = NoNode THEN st.ping ELSE st.ping \cup {r.ping},
              offered |-> IF lh /\ PR!OfferStore(st.bs, n, TheKey)
                          THEN st.offered \cup {n} ELSE st.offered]

\* The responses of several calls handled in the order they arrived.
HandleAll(order, ok, lh) ==
    FoldLeft(LAMBDA st, n : HandleCallResponse(st, n, ok[n], lh),
             [bs |-> buckets, ping |-> pinging, offered |-> {}], order)

\* The order in which the results of calls sent in the order `sent` reach
\* handleCallResponse: the answers, in any order, then the timeouts in
\* the order sent.  The calls of a batch arm their 5 s timers in one
\* synchronous loop, so the timers expire together, in arming order, with
\* no datagram handled between them; an answer later than that finds its
\* msgid gone and the call has timed out.
Arrivals(sent, ok) ==
    {a \o SelectSeq(sent, LAMBDA p : ~ok[p]) :
        a \in SetToSeqs({p \in ToSet(sent) : ok[p]})}

\* The peers' stores after the callStores of a step: the ones
\* welcomeIfNewNode offered reach their peer (it has just answered), and
\* each peer of `to` that stored ok takes value v.
Stored(offered, to, v, ok) ==
    [p \in Peers |-> IF p \in to /\ ok[p] THEN v
                     ELSE IF p \in offered THEN SetVal ELSE held[p]]

StartCrawl(mode) ==
    /\ op' = mode
    /\ heap' = Seeds
    /\ contacted' = {}
    /\ lastIDs' = <<>>
    /\ nwv' = {}
    /\ answered' = {}

InitTable ==
    FoldLeft(LAMBDA bs, n : RT!AddContactOp(bs, n).buckets,
             <<RT!NewBucket(0, RT!Top)>>, InitKnown)

Init ==
    /\ buckets = InitTable
    /\ pinging = {}
    /\ held = InitHeld
    /\ localHas = FALSE
    /\ op = "idle"
    /\ heap = {}
    /\ contacted = {}
    /\ lastIDs = <<>>
    /\ nwv = {}
    /\ nodes = <<>>
    /\ got = NoVal
    /\ setOk = FALSE
    /\ answered = {}

\* App.keepalive: node.set(key, val), i.e. set_digest(digest(key), val):
\* no neighbors returns false at once; otherwise a NodeSpiderCrawl.
Keepalive ==
    /\ op = "idle"
    /\ \/ /\ Seeds = {}
          /\ setOk' = FALSE
          /\ UNCHANGED <<op, heap, contacted, lastIDs, nwv, answered>>
       \/ /\ Seeds # {}
          /\ StartCrawl("set")
          /\ UNCHANGED setOk
    /\ UNCHANGED <<buckets, pinging, held, localHas, nodes, got>>

\* Server.get(key): a local value is returned; no neighbors returns
\* null; otherwise a ValueSpiderCrawl.
Get ==
    /\ op = "idle"
    /\ \/ /\ localHas
          /\ got' = SetVal
          /\ UNCHANGED <<op, heap, contacted, lastIDs, nwv, answered>>
       \/ /\ ~localHas
          /\ Seeds = {}
          /\ got' = NoVal
          /\ UNCHANGED <<op, heap, contacted, lastIDs, nwv, answered>>
       \/ /\ ~localHas
          /\ Seeds # {}
          /\ StartCrawl("get")
          /\ UNCHANGED got
    /\ UNCHANGED <<buckets, pinging, held, localHas, nodes, setOk>>

\* find() has returned: the spider and its heaps are dropped.
DropCrawl ==
    /\ heap' = {}
    /\ contacted' = {}
    /\ lastIDs' = <<>>
    /\ nwv' = {}

\* Apply the routing-table and store effects of handled responses.
ApplyResponses(st, to, v, ok) ==
    /\ buckets' = st.bs
    /\ pinging' = st.ping
    /\ held' = Stored(st.offered, to, v, ok)

\* Mutant of NodeRound: contacted holds only the peers of the last round.
NodeRoundForgetsContacted ==
    /\ op = "set"
    /\ LET uc    == ToQuery(heap, contacted, lastIDs)
           asked == ToSet(uc)
       IN  \E ok \in [asked -> BOOLEAN] : \E order \in Arrivals(uc, ok) :
           LET failed == {p \in asked : ~ok[p]}
               h  == (heap \cup UNION {NodeList(p, ok) : p \in asked}) \ failed
               c  == asked
           IN  /\ ApplyResponses(HandleAll(order, ok, localHas), {}, NoVal, ok)
               /\ answered' = answered \cup (asked \ failed)
               /\ \/ /\ AllBeenContacted(h, c)
                     /\ op' = "stores"
                     /\ nodes' = Visible(h)
                     /\ DropCrawl
                  \/ /\ ~AllBeenContacted(h, c)
                     /\ heap' = h
                     /\ contacted' = c
                     /\ lastIDs' = Visible(heap)
                     /\ UNCHANGED <<op, nodes, nwv>>
    /\ UNCHANGED <<localHas, got, setOk>>

\* One round of NodeSpiderCrawl: _find (count, lastIDsCrawled, _stun,
\* callFindNode to each chosen peer, markContacted, gather_dict) and
\* _nodesFound (push the answered node lists, remove the peers that timed
\* out, return the visible nodes once all are contacted).
NodeRound ==
    /\ op = "set"
    /\ LET uc    == ToQuery(heap, contacted, lastIDs)
           asked == ToSet(uc)
       IN  \E ok \in [asked -> BOOLEAN] : \E order \in Arrivals(uc, ok) :
           LET failed == {p \in asked : ~ok[p]}
               h  == (heap \cup UNION {NodeList(p, ok) : p \in asked}) \ failed
               c  == contacted \cup asked
           IN  /\ ApplyResponses(HandleAll(order, ok, localHas), {}, NoVal, ok)
               /\ answered' = answered \cup (asked \ failed)
               /\ \/ /\ AllBeenContacted(h, c)
                     /\ op' = "stores"
                     /\ nodes' = Visible(h)
                     /\ DropCrawl
                  \/ /\ ~AllBeenContacted(h, c)
                     /\ heap' = h
                     /\ contacted' = c
                     /\ lastIDs' = Visible(heap)
                     /\ UNCHANGED <<op, nodes, nwv>>
    /\ UNCHANGED <<localHas, got, setOk>>

\* One round of ValueSpiderCrawl: _find with callFindValue, then
\* _nodesFound: a peer that timed out is removed, a value is collected,
\* any other answer pushes the peer into nearestWithoutValue and its node
\* list into nearest.  Values found: _handleFoundValues returns the most
\* common one after a callStore of it to nearestWithoutValue.popleft()
\* (when that heap is not empty); none and all contacted: null;
\* otherwise another round.
ValueRound ==
    /\ op = "get"
    /\ LET uc    == ToQuery(heap, contacted, lastIDs)
           asked == ToSet(uc)
       IN  \E ok \in [asked -> BOOLEAN] : \E order \in Arrivals(uc, ok) :
           LET failed == {p \in asked : ~ok[p]}
               found  == SelectSeq(uc, LAMBDA p : HasValue(p, ok))
               noVal  == {p \in asked \ failed : ~HasValue(p, ok)}
               h  == (heap \cup UNION {NodeList(p, ok) : p \in noVal}) \ failed
               c  == contacted \cup asked
               w  == nwv \cup noVal
               st == HandleAll(order, ok, localHas)
               v  == MostCommon([i \in 1..Len(found) |-> held[found[i]]])
           IN  \/ /\ found # <<>>
                  /\ w = {}
                  /\ ApplyResponses(st, {}, NoVal, ok)
                  /\ got' = v
                  /\ op' = "idle"
                  /\ DropCrawl
               \/ /\ found # <<>>
                  /\ w # {}
                  /\ LET t == Head(SetToSortSeq(w, Nearer))
                     IN  \E sok \in BOOLEAN :
                            ApplyResponses(HandleCallResponse(st, t, sok, localHas),
                                           {t}, v, [p \in {t} |-> sok])
                  /\ got' = v
                  /\ op' = "idle"
                  /\ DropCrawl
               \/ /\ found = <<>>
                  /\ AllBeenContacted(h, c)
                  /\ ApplyResponses(st, {}, NoVal, ok)
                  /\ got' = NoVal
                  /\ op' = "idle"
                  /\ DropCrawl
               \/ /\ found = <<>>
                  /\ ~AllBeenContacted(h, c)
                  /\ ApplyResponses(st, {}, NoVal, ok)
                  /\ heap' = h
                  /\ contacted' = c
                  /\ lastIDs' = Visible(heap)
                  /\ nwv' = w
                  /\ UNCHANGED <<op, got>>
    /\ UNCHANGED <<localHas, nodes, setOk, answered>>

\* The rest of set_digest: store locally when this node is nearer than
\* the farthest node found, callStore to every node, and return
\* any(ds) -- Promise.race, i.e. the result of the first callStore to
\* settle (an answer whenever one came: answers settle before timeouts).  With no nodes, Promise.race([]) never settles.
SetStore ==
    /\ op = "stores"
    /\ \/ /\ nodes = <<>>
          /\ op' = "hung"
          /\ UNCHANGED <<buckets, pinging, held, localHas, setOk, nodes, answered>>
       \/ /\ nodes # <<>>
          /\ LET asked   == ToSet(nodes)
                 biggest == RT!Distance(Last(nodes), Target)
                 lh      == localHas \/ RT!Distance(LocalId, Target) < biggest
             IN  \E ok \in [asked -> BOOLEAN] : \E order \in Arrivals(nodes, ok) :
                 /\ ApplyResponses(HandleAll(order, ok, lh), asked, SetVal, ok)
                 /\ localHas' = lh
                 /\ setOk' = ok[order[1]]
                 /\ op' = "idle"
                 /\ nodes' = <<>>
                 /\ answered' = {}
    /\ UNCHANGED <<heap, contacted, lastIDs, nwv, got>>

\* handleCallResponse for an addContact head ping that answered or timed
\* out.
PingSettles(n) ==
    /\ n \in pinging
    /\ \E ok \in BOOLEAN :
          LET st == HandleCallResponse([bs |-> buckets, ping |-> pinging \ {n},
                                        offered |-> {}], n, ok, localHas)
          IN  /\ buckets' = st.bs
              /\ pinging' = st.ping
              /\ held' = Stored(st.offered, {}, NoVal, [p \in {} |-> FALSE])
    /\ UNCHANGED <<localHas, op, heap, contacted, lastIDs, nwv, nodes, got, setOk, answered>>

Next ==
    \/ Keepalive
    \/ Get
    \/ NodeRound
    \/ ValueRound
    \/ SetStore
    \/ \E n \in pinging : PingSettles(n)

\* The node's own steps: timers fire and every RPC settles within its
\* timeout, so while the App's keepalive, a crawl round, the store race
\* or a ping can go on, one of them does; get is called by a user, who
\* owes nothing.  Fairness is WF_vars(SystemNext) written out:
\* SystemEnabled is ENABLED <<SystemNext>>_vars (a keepalive that
\* changes something when idle, a round while a crawl runs, the race
\* once it has ended, a ping while one is in flight) and a step of Next
\* is a SystemNext step exactly when it is not a GetStep.
SystemNext ==
    \/ Keepalive
    \/ NodeRound
    \/ ValueRound
    \/ SetStore
    \/ \E n \in pinging : PingSettles(n)

SystemEnabled ==
    \/ op = "idle" /\ (Seeds # {} \/ setOk)
    \/ op \in {"get", "set", "stores"}
    \/ pinging # {}

GetStep == op = "idle" /\ (op' = "get" \/ got' # got)

Fairness == []<>(~SystemEnabled) \/ []<><<~GetStep>>_vars

Spec == Init /\ [][Next]_vars /\ Fairness

-----------------------------------------------------------------------------
(* Properties *)

TypeOK ==
    /\ buckets \in Seq(RT!Bucket)
    /\ pinging \subseteq Peers
    /\ held \in [Peers -> Vals \cup {NoVal}]
    /\ localHas \in BOOLEAN
    /\ op \in {"idle", "get", "set", "stores", "hung"}
    /\ heap \subseteq Peers
    /\ contacted \subseteq Peers
    /\ lastIDs \in Seq(Peers)
    /\ nwv \subseteq Peers
    /\ nodes \in Seq(Peers)
    /\ got \in Vals \cup {NoVal}
    /\ setOk \in BOOLEAN
    /\ answered \subseteq Peers

\* Spec 4.6, termination: every lookup ends -- each round of a get's
\* ValueSpiderCrawl or a set's NodeSpiderCrawl queries at least one peer
\* not yet contacted, whatever answers or times out, the heap's nodes
\* come back after removal and lastIDsCrawled widens the count.
LookupTerminates == op \in {"get", "set"} ~> op \notin {"get", "set"}

\* Spec 4.7 and 7: set_digest returns (false with no neighbors, and
\* otherwise whether a store succeeded), so the App's keepalive, which
\* awaits it, arms its next timer.
SetReturns == op \in {"set", "stores"} ~> op = "idle"

\* Spec 4.6 step 6: peers that did not answer are dropped from nearest, so
\* the node list a NodeSpiderCrawl returns to set_digest holds only peers
\* that answered one of its finds.
CrawlReturnsResponders == op = "stores" => ToSet(nodes) \subseteq answered

=============================================================================
