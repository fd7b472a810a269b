# TLA+ models of the canbox Kademlia DHT

This directory holds TLA+ models of the JavaScript Kademlia DHT in `src/`. The
models are checked with TLC. Every module is translated from the source, and
`PROJECT.json` maps each definition to the lines it models. The Go files
(`src/ipfs/**`, `src/unnamed/part_004`) are unrelated go-ipfs fragments and are
not modelled.

## The system

| Part | Source | State | Operations |
|---|---|---|---|
| RPC over UDP (`RPCProtocol`) | `src/p2p/rpcudp/index.js` | `_outstanding` (msgid -> [promise, timer]), armed timers | `rpc`, send callback, `_timeout`, `datagram_received`/`_solveDatagram`/`_acceptResponse`, `_acceptRequest` |
| Storage (`IStorage`, `ForgetfulStorage`) | `src/p2p/kademlia/storage.js` 1-93 | insertion-ordered Map key -> [time, value] | `set`, `get`, `items`, `cull`, `pop` |
| utils | `storage.js` 94-225 | `OrderedSet` | `push`, `pop`, `sharedPrefix`, `bytesToBitString`, `digest`, `compare` |
| Routing table (`KBucket`, `RoutingTable`, `TableTraverser`) | `src/unnamed/part_002` | list of buckets: range, nodes, replacement set, lastUpdated | `addContact` (split / ping head), `removeContact` (promote a replacement), `getBucketFor`, `findNeighbors`, `getLonelyBuckets` |
| Node, NodeHeap | `src/unnamed/part_003` 1-158 | heap of (distance, node), contacted set | `push`, `remove`, `popleft`, `getUncontacted`, `markContacted` |
| Protocol (`KademliaProtocol`) | `src/unnamed/part_003` 159-344 | router and storage | `rpc_ping`/`rpc_store`/`rpc_find_node`/`rpc_find_value`, `welcomeIfNewNode`, `handleCallResponse`, `call*` |
| Spider crawls | `src/p2p/kademlia/crawling.js` 1-243 | nearest heap, lastIDsCrawled | `_find` rounds, `_nodesFound`, `_handleFoundValues` |
| Server | `crawling.js` 250-476 | protocol, storage, refresh timer | `listen`, `bootstrap`, `refresh_table`, `get`, `set`, `set_digest` |
| App keepalive | `src/unnamed/part_001`, `crawling.js` 477-497 | interval timer | periodic `set` |

How the parts interact:
- A node's `KademliaProtocol` is an `RPCProtocol`. Every outgoing call (`callPing`, `callStore`, `callFindNode`, `callFindValue`) goes through `rpc()`. Its result goes to `handleCallResponse`, which removes the contact on a timeout and welcomes it otherwise.
- Every incoming request handler calls `welcomeIfNewNode`. That function reads `storage.items()`, may `callStore` values to the newcomer, and then calls `router.addContact`.
- `addContact` on a full bucket that it may not split pings the bucket's head. The ping's timeout then evicts the head and promotes a replacement.
- The spider crawls drive `callFindNode`/`callFindValue` rounds. `Server.set_digest` stores a value on the k nearest nodes it finds.

The behaviours that are hard to test:
- a timer racing the send callback;
- responses that are lost, duplicated or early;
- the order in which splits place ids;
- the traverser's walk over buckets;
- a clock that goes backwards under a count-based cull;
- promise races in `set_digest`.

## Modules

- **`RoutingTable.tla`** models the routing table of one node.
  - `buckets` is a sequence of records `[lo, hi, nodes, repl]`. Ids are `IdBits`-bit integers. Range bounds are scaled by `2^FracBits`, so that BigNumber's fractional midpoints are exact.
  - `pinging` is the set of heads whose `callPing` is awaited.
  - The actions are:
    - `AddContact(n)`, which is `addContact` with its recursive retry after `splitBucket` (`AddContactOp`);
    - `RemoveContact(n)`, which is `handleCallResponse` on a failed RPC;
    - `PingTimeout(n)` and `PingAnswered(n)`, the two outcomes of the head ping.
  - `FindNeighbors` is the traverser walk (`Walk`, RECURSIVE), followed by the cut at k and the sort by XOR distance.
  - Each bucket has a `lonely` flag: whether its `lastUpdated` is over an hour old. The `KBucket` constructor clears it (`NewBucket`), and so does the `TableTraverser` that every `findNeighbors` builds, for the target's bucket only (`Touch`). `Age(i)` is an hour passing for bucket `i`. `Lookup(id)` is a `findNeighbors(id)` from a crawl or a peer's request.
  - `RefreshId` is the id arithmetic of `KademliaProtocol.getRefreshIDs`: `(sub * rnd + sub).integerValue()` with `sub = max - min`, rounded half up, then cut to the id width (the code keeps the last 40 hex digits). `BigNumber.random()` is one of `RandSteps` evenly spaced draws.
  - `Refresh` is `_refresh_table` up to its crawls. It draws one id per lonely bucket, and its loop calls `findNeighbors` for each id before it awaits any crawl, so the whole step is synchronous. `Protocol` and `Server` pass no time, so their buckets never turn lonely.
- **`RPCUDP.tla`** models the caller side of `RPCProtocol`.
  - Its state is: `result` (the promise of each msgid), `timers`, `sendCallbacks` (not yet run), `outstanding` (the keys of `_outstanding`), `net` (a set of datagrams, so delivery is reordered) and `crashed` (an exception escaped a timer).
  - `Rpc`, `SendCallback`, `Timeout` and `AcceptResponse` are the code's steps.
  - `RemoteAnswer` is the peer's `_acceptRequest`. `Lose` drops a datagram. `AcceptResponse` may leave its datagram in `net`, which models duplication.
- **`Storage.tla`** models `ForgetfulStorage`.
  - `store` is the Map's entries in insertion order, and `now` is `Date.now()`. `ClockMayGoBack` lets the clock step back by one.
  - `Set`, `Get` and `Items` each include the `cull()` the code runs.
  - `Cull` pops from the front as many entries as `iteritemsOlderThan(ttl)` counts.
  - `RepublishStart` and `RepublishNext` are the republish loop at the end of `Server._refresh_table`, as the local store sees it. The loop reads the list `iteritemsOlderThan(PERIOD_HOUR)` once, without a cull (`republishing`). Each iteration then awaits `set_digest`, which stores the value locally only when this node is near enough. Other operations interleave between iterations, so TLC reaches a republish that writes an older value over a newer `set` of the same key. `StorageSpec` lets any `set` store any value, so this is a hazard in `PROJECT.json` and not a violated property.
- **`StorageSpec.tla`** is the abstract contract of spec 4.2, not a translation of code. Its `table` maps each key to the `[t, val]` of its last set, with no insertion order. Every set, get and items first forgets exactly the entries older than the ttl. Once the clock has gone back (`skewed`), the contract promises nothing about which entries are forgotten.
  - `Storage` implements it: `Contract == INSTANCE StorageSpec WITH table <- Table(store)`, where `Table` reads the Map's entries as a table. `StorageRefinement == Contract!Spec` is a property of the `storage` run.

- **`Protocol.tla`** composes `RoutingTable` and `Storage` (by `INSTANCE`) into the handlers of `KademliaProtocol`.
  - Its state is `buckets`, `store`, `calls` (the node's own RPCs in flight), and one history, `silent` (peers whose last call timed out and that have not spoken since).
  - `Welcome` is `welcomeIfNewNode`: the cull of `storage.items()`, a `callStore` for each key that passes the replication test (`OfferStore`), then `addContact`, whose head ping is one more call.
  - `RpcPing`, `RpcStore`, `RpcFindNode` and `RpcFindValue` are the request handlers. `RpcFindValue` welcomes twice on a miss, as the code does by calling `rpc_find_node`.
  - `CallAnswered` and `CallTimedOut` are the two branches of `handleCallResponse`. `CallFind` is a crawl's `callFindNode`.
  - The store's clock is fixed, so the ttl plays no part here.
  - `NewcomerNearestGetsStore` is spec 4.5's replication rule at its least disputable point. A newcomer is welcomed that is nearer to a stored key than every contact, and this node is nearer than every contact too. Then the key must be sent to the newcomer, whatever neighbours `findNeighbors` returns. It covers the `l === 0` case (no contacts) and the order that reads the neighbours before `addContact` adds the newcomer. The full rule, "exactly the keys the true k nearest call for", does not hold in the code. `findNeighbors` can miss a nearer contact (the `routing_traverser` finding). For example, with buckets [0,16]{}, [17,32]{20}, [33,64]{40,50} and key digest 10, `findNeighbors` gives [40,50] and offers the key to newcomer 41, although the nearest are [20,40]. That consequence is listed as a hazard.
  - `Tbl == INSTANCE RoutingTable WITH pinging <- ...` maps the module onto `RoutingTable`. The table's `pinging` is the set of nodes with a ping call in flight. `TableRefinement == Tbl!Spec` says the handlers change the table only as `addContact`, `removeContact` and the ping outcomes do. That includes `rpc_find_value`'s double welcome, and calls of other kinds to a pinged head that settle first.
- **`Server.tla`** models the spider crawls, `Server.get`, `Server.set`/`set_digest` and the App's keepalive, over the routing table of `RoutingTable` (by `INSTANCE`) and the store test of `Protocol`.
  - One key is published, `TheKey`, with digest `Target`. `welcomeIfNewNode` tests replication against `Node(digest(key))`, where the stored key is already the digest. That rehashed id is the constant `KeyNodeId`, which is unrelated to `Target`. `Knows[p]` is the node list peer `p` answers, and `held[p]` is what it stores.
  - A `NodeHeap` is the set of its nodes (`heap`) plus its `contacted` set. Its iterator, `Visible`, is the `KSize` nearest in ascending distance. `nwv` is `nearestWithoutValue`.
  - `op` is the operation under way: `idle`, `get` (a value crawl), `set` (the node crawl of `set_digest`), `stores` (the `callStore` race) or `hung`.
  - `Keepalive` is `App.keepalive` calling `set`, up to the start of the crawl. `Get` is `Server.get`: the local value, `null` without neighbours, or a value crawl.
  - `NodeRound` and `ValueRound` are one `_find` round each, together with its `_nodesFound`. The round computes the count from `lastIDsCrawled`, queries the uncontacted slice, and passes every `handleCallResponse` through `gather_dict`. The outcome of each call (answer or timeout) is chosen freely. The answers reach `handleCallResponse` in any order, then the timeouts in send order (`Arrivals`). The calls of a round, or of `set_digest`'s stores, are sent in one synchronous loop, so their 5 s timers expire together, in arming order, with no datagram handled between them. `ValueRound` includes `_handleFoundValues`: the plurality vote (`MostCommon`) and the `callStore` to the nearest node without the value.
  - `SetStore` is the rest of `set_digest`: the local store if this node is nearer than the farthest node found, the `callStore` to every node, and `any` over their results. Since answers settle before the batch's timers, `any` reports an answer whenever a store was answered. With no nodes, `Promise.race([])` never settles, and `op` becomes `hung`.
  - `PingSettles` ends a head ping started by `addContact`.
  - A round is one step because `gather_dict` awaits all its calls and `rpc()` settles each one within its timer. The `RPCUDP` model shows that calls settle, apart from the registration bug.

Each module has an `MC*.tla` that gives the constants their values, and one `.cfg` per run.

## Runs

| Run | Checks | Result |
|---|---|---|
| `routing` | `TypeOK`, `BucketBound`, `ReplacementsOnlyWhenFull`, `ContactLeavesOnlyByRemoval` | pass |
| `refresh_ids` | `RefreshRevivesLonely` | violation: a refresh leaves a lonely bucket lonely. `getRefreshIDs` never adds the bucket's lower bound, so after the first split the lower bucket's refresh id lies in the upper half. `findNeighbors` then touches that bucket and not the lonely one. |
| `routing_traverser` | `FindNeighborsComplete` | violation: the traverser stops when the side it must take next is empty, so `findNeighbors` returns fewer than k |
| `rpc` | `TypeOK`, `RegisteredEntriesLive`, `CallsComplete` | pass |
| `rpc_registration` | `EntryRegisteredBeforeEvents` | violation: `_timeout` (or the response) arrives before the send callback registers the msgid. The timer then throws a TypeError, and an early response is dropped. |
| `storage` | `TypeOK`, `StorageRefinement` | pass: the Map with FIFO culling implements `StorageSpec` until the clock first steps back |
| `storage_clock_back` | `CullRemovesOnlyExpired` | violation: a fresh entry is popped instead of the expired one |
| `protocol` | `TypeOK`, `NewcomerNearestGetsStore`, `TableRefinement` | pass: a newcomer nearest a stored key always gets it, also in tables where `findNeighbors` misses a contact; `Protocol` implements `RoutingTable` |
| `protocol_stale_replacement` | `NoSilentContact` | violation: a node that timed out in a replacement list is promoted by `removeNode` |
| `server` | `TypeOK`, `LookupTerminates` | pass: every crawl ends, whatever answers or times out and in whatever order |
| `server_set_hang` | `SetReturns` | violation: every seed times out, so the crawl returns no nodes and `set_digest` awaits `Promise.race([])` forever; the keepalive stops |
| `server_crawl_nonresponder` | `CrawlReturnsResponders` | violation: a peer removed after a timeout is pushed back by another peer's answer and is returned as one of the nearest nodes |

Every property of a passing run has a mutant in `PROJECT.json`: a plausible bug in a mapped definition that makes TLC report the property violated.

## Bounds

**RoutingTable.**
- `IdBits = 6` and `KSize = 2`. With 6 bits, two peers can share a 5-bit prefix. That is the only way a full bucket reaches depth 5, where `addContact` pings the head instead of splitting.
- `FracBits = 7` exceeds the deepest split, so every midpoint is exact.
- `RandSteps = 8` draws of `random()` per bucket in the `refresh_ids` run, so a bucket's refresh ids cover its width in steps of an eighth. The passing `routing` run sets `RandSteps = 2` (0 and one half), because a refresh picks one draw per lonely bucket, and eight choices for each of up to five buckets is too many. Two draws still put ids in both halves of every bucket.
- Each run uses the peer set that exercises it. The passing run's set contains 32, which is the first midpoint, and two pairs with a long common prefix. TLC reaches 32 held by two buckets. The split puts it in the upper bucket, `isNewNode` looks in the lower one, and a second welcome adds it there. No property states where a contact must sit, so `ContactLeavesOnlyByRemoval` does not see it, and it is listed as a hazard.

**RPCUDP.** Two msgids are enough for a response to one call to be in flight while the other times out.

**Storage.** Two keys, two values, `TTL = 2`, `Period = 3` and `MaxTime = 4`. A value can be written, survive a tick, expire and be overwritten within that clock. The republish period exceeds the ttl, as `PERIOD_HOUR` (360 s, despite its name) exceeds the 20 s ttl, so every republished entry has expired.

**Protocol.** One key, `MaxCalls = 1`, and a different peer set for each run.
- The `protocol` run has peers 20, 40, 41 and 50, and the key's digest is 10.
  - 40 and 41 fill [33, 64] to depth 5, so welcoming 50 pings the head, which is the case `TableRefinement` must match.
  - If 50 arrives before 41, [33, 64] splits instead. The table becomes [0, 32]{20}, [33, 48.5]{40, 41}, [49.5, 64]{50}. The traverser then takes 50 and 41 first, and `findNeighbors(10)` misses 40.
  - TLC reaches welcomes with a stored key in such tables.
  - This node (distance 10) is nearer the key than every peer (30 to 56), so which newcomers are sent the key turns on the neighbours returned.
- The `protocol_stale_replacement` run has peers 20, 40, 41 and 43, and the key's digest is 42. There, 43 waits in the depth-5 bucket's replacement list.

**Server.**
- Peers 40, 41 and 43, with `Target = 10`, `KeyNodeId = 12` and local id 0. Seen from 12, the peers come in a different order than seen from 10: 43 is nearest the key but farthest from the rehashed id. 40 and 41 fill a bucket of depth 5, so a welcome of 43 pings the head. The local node is nearer the key than every peer, so `set_digest` also stores locally.
- `Alpha = 1` makes a crawl take several rounds. `IdChars = 40` keeps the code's `count = ids.length * nearest.length`.
- Bootstrap leaves 40 and 41 in the table. 43 is known only from their answers.
- Peer 43 starts holding a different value, so a get meets a value to vote on and a node without it.

## Fairness

**RPCUDP.** `SendCallback` and `Timeout` are weakly fair: Node's event loop runs every callback that is ready and every timer that is due. Nothing is assumed of the network or the peer. `CHECK_DEADLOCK FALSE` is set because the caller has nothing left to do once every msgid is used, and a crash ends the process.

**Server.** The fairness is `WF_vars(SystemNext)`, where `SystemNext` is every action but `Get`. The code's own timers and promises drive a keepalive, a crawl round, the store race and a ping. An application's `get` calls are owed nothing. For speed the formula is written out: `SystemEnabled` is `ENABLED <<SystemNext>>_vars`, and a `Next` step is a `SystemNext` step exactly when it is not a `GetStep`. The runs set `CHECK_DEADLOCK FALSE` because a hung `set_digest` stops everything, which is the bug `server_set_hang` shows.

The `RoutingTable`, `Storage` and `Protocol` runs check safety only. They have no fairness and check deadlock.

## Abstractions

- Ids are small integers under XOR, and keys are model values with a fixed digest.
- Message bodies, encoding and logging are left out.
- In `Server`:
  - one operation runs at a time;
  - a peer's answers come from the constant `Knows`;
  - `welcomeIfNewNode`'s stores are assumed to reach the peer;
  - `_stun` (stun RPCs whose results are ignored) is left out;
  - the peers' own ttl is not modelled.

## Not modelled

- `Server.listen`, `stop` and `bootstrap_node`. Bootstrap appears only as the table it leaves (`InitKnown`).
- The refresh crawls of `_refresh_table`, and the network side of its republish (the crawl and `callStore`s of each `set_digest`). Its lookups are `RoutingTable`'s `Refresh`, and its local stores are `Storage`'s `RepublishNext`. The republish stores expired values again, which spec 4.2 and 4.8 allow (hazard in `PROJECT.json`). Only one refresh runs at a time here. In the code, the timer re-arms every `PERIOD_HOUR` whether or not the previous refresh has finished.
- Rejected `callStore`s. `rpc` throws for a request over 512 bytes, so a large value makes every store reject. `any()` then shifts its array down to `Promise.race([])` and never settles, where spec 9 asks for the last error. Values here have no size.
- The clock behind `lastUpdated`. Only "over an hour old or not" is kept per bucket. `addNode` does not touch it (spec 4.3 says it should), so this is a hazard, not a checked property.
- `App.stop` and the failure path of `App.init`. `stop()` calls `node.stop()` on an undeclared `node` (hazard in `PROJECT.json`).
- The split range gap. `split()` starts the upper bucket at midpoint + 1, so the one id between a fractional midpoint and midpoint + 1 lies in no bucket's range. A sha1 id hits it with probability about 2^-159, and `getBucketFor` only compares upper bounds, so it is documented as a hazard and not checked.
- The double `storage.get` in `Server.get`, which needs a clock in `Server`.
- An abstract lookup specification with a refinement mapping from `Server`. The crawl's result depends on `Knows` and on which calls time out, and no contract in spec 4.6 is stronger than `LookupTerminates` and the two violated properties.
- The logger, sha1 digests and the Go files (`src/ipfs/**`, `src/unnamed/part_004`), which are unrelated go-ipfs fragments.
