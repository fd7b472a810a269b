---------------------------- MODULE RoutingTable ----------------------------
(***************************************************************************)
(* The k-bucket routing table of one Kademlia node (src/unnamed/part_002: *)
(* KBucket, TableTraverser, RoutingTable).                                 *)
(*                                                                         *)
(* Identifiers are IdBits-bit integers instead of 160-bit ones; the table *)
(* starts with one bucket [0, 2^IdBits] exactly as the code starts with   *)
(* [0, 2^160].  Bucket bounds are BigNumber values in the code and the    *)
(* midpoint (min + max) / 2 may be fractional, so every bound is kept     *)
(* multiplied by Scale = 2^FracBits: a bound b stands for b / Scale.      *)
(* A node is its id: every peer has one address, so the code's            *)
(* sameHomeAs (host and port equality) is id equality here.               *)
(*                                                                         *)
(* The only protocol behaviour kept here is the one the table drives      *)
(* itself: addContact on a full bucket that may not split calls           *)
(* protocol.callPing(head), and handleCallResponse for that ping removes  *)
(* the head on a timeout or welcomes it on an answer.                     *)
(***************************************************************************)
EXTENDS Integers, Sequences, SequencesExt, FiniteSets, Bitwise

CONSTANTS
    IdBits,     \* width of an identifier (160 in the code)
    KSize,      \* k, the bucket capacity (ksize)
    LocalId,    \* id of this.node, never stored in the table
    Peers,      \* ids of the other nodes that may be added
    FracBits,   \* binary fraction digits kept for bucket bounds
    NoNode      \* model value: no node (no ping issued, no exclusion)

ASSUME IdBits \in Nat \ {0} /\ KSize \in Nat \ {0}
ASSUME LocalId \in 0..(2^IdBits - 1)
ASSUME Peers \subseteq (0..(2^IdBits - 1)) \ {LocalId}
\* Each split halves a range that still holds two ids, so at most IdBits
\* nested splits happen and IdBits + 1 fraction digits keep them exact.
ASSUME FracBits > IdBits

VARIABLES
    buckets,    \* this.buckets: sequence of KBucket records
    pinging     \* heads with a callPing in flight (issued by addContact)

vars == <<buckets, pinging>>

Scale == 2^FracBits
Scaled(id) == id * Scale
Top == Scaled(2^IdBits)
IdSpace == 0..(2^IdBits - 1)

\* Node.distanceTo: byte-wise XOR read as an unsigned integer.
Distance(a, b) == a ^^ b

\* new KBucket(rangeLower, rangeUpper, ksize).  lastUpdated is kept only
\* as whether it is over an hour old (`lonely`); the constructor touches it.
NewBucket(lo, hi) == [lo |-> lo, hi |-> hi, nodes |-> <<>>, repl |-> <<>>, lonely |-> FALSE]

Bucket == [lo : 0..Top, hi : 0..Top, nodes : Seq(Peers), repl : Seq(Peers), lonely : BOOLEAN]

\* Mutant of Split: strict comparisons on both sides lose the midpoint id.
SplitDropsMidpoint(b) ==
    LET mid == (b.lo + b.hi) \div 2
    IN  << [NewBucket(b.lo, mid) EXCEPT
                !.nodes = SelectSeq(b.nodes, LAMBDA id : mid > Scaled(id))],
           [NewBucket(mid + Scale, b.hi) EXCEPT
                !.nodes = SelectSeq(b.nodes, LAMBDA id : Scaled(id) > mid)] >>

\* KBucket.split: halve at midpoint; ids below it go to the lower bucket,
\* every other id (the midpoint itself included) to the upper one.
Split(b) ==
    LET mid == (b.lo + b.hi) \div 2
    IN  << [NewBucket(b.lo, mid) EXCEPT
                !.nodes = SelectSeq(b.nodes, LAMBDA id : mid > Scaled(id))],
           [NewBucket(mid + Scale, b.hi) EXCEPT
                !.nodes = SelectSeq(b.nodes, LAMBDA id : ~(mid > Scaled(id)))] >>

\* Mutant of RemoveNode: the replacement is never promoted.
RemoveNodeNoPromote(b, n) ==
    IF ~Contains(b.nodes, n) THEN b ELSE [b EXCEPT !.nodes = Remove(@, n)]

\* KBucket.removeNode: delete, then promote the newest replacement
\* (Map.set keeps an id already present where it is).
RemoveNode(b, n) ==
    IF ~Contains(b.nodes, n) THEN b
    ELSE LET rest == Remove(b.nodes, n)
         IN  IF b.repl = <<>> THEN [b EXCEPT !.nodes = rest]
             ELSE LET new == Last(b.repl)
                  IN  [b EXCEPT !.nodes = IF Contains(rest, new) THEN rest
                                          ELSE Append(rest, new),
                                !.repl = Front(b.repl)]

\* KBucket.hasInRange
HasInRange(b, id) == b.lo <= Scaled(id) /\ Scaled(id) <= b.hi

\* OrderedSet.push (utils): an element already present moves to the end.
OrderedPush(s, x) == Append(Remove(s, x), x)

\* Mutant of AddNode: capacity check `<=` instead of `<`.
AddNodeOffByOne(b, n) ==
    CASE Contains(b.nodes, n) ->
            [bucket |-> [b EXCEPT !.nodes = Append(Remove(@, n), n)], ok |-> TRUE]
      [] Len(b.nodes) <= KSize ->
            [bucket |-> [b EXCEPT !.nodes = Append(@, n)], ok |-> TRUE]
      [] OTHER ->
            [bucket |-> [b EXCEPT !.repl = OrderedPush(@, n)], ok |-> FALSE]

\* KBucket.addNode: known id moves to the tail; room appends; a full
\* bucket pushes the node onto the replacement OrderedSet and fails.
AddNode(b, n) ==
    CASE Contains(b.nodes, n) ->
            [bucket |-> [b EXCEPT !.nodes = Append(Remove(@, n), n)], ok |-> TRUE]
      [] Len(b.nodes) < KSize ->
            [bucket |-> [b EXCEPT !.nodes = Append(@, n)], ok |-> TRUE]
      [] OTHER ->
            [bucket |-> [b EXCEPT !.repl = OrderedPush(@, n)], ok |-> FALSE]

\* bytesToBitString of an id (most significant bit first).
BitString(id) == [i \in 1..IdBits |-> (id \div 2^(IdBits - i)) % 2]

\* KBucket.depth: length of the shared prefix of the ids' bit strings.
Depth(b) == Len(LongestCommonPrefix({BitString(id) : id \in ToSet(b.nodes)}))

\* KBucket.head
HeadOf(b) == b.nodes[1]

\* RoutingTable.getBucketFor: first bucket whose upper bound is >= id.
GetBucketFor(bs, id) ==
    CHOOSE i \in 1..Len(bs) : /\ bs[i].hi >= Scaled(id)
                              /\ \A j \in 1..(i - 1) : bs[j].hi < Scaled(id)

\* RoutingTable.splitBucket
SplitBucket(bs, i) ==
    SubSeq(bs, 1, i - 1) \o Split(bs[i]) \o SubSeq(bs, i + 1, Len(bs))

\* RoutingTable.addContact, with its recursive retry after a split.
\* Returns the new table and the head it pings (or NoNode).
RECURSIVE AddContactOp(_, _)
AddContactOp(bs, n) ==
    LET i == GetBucketFor(bs, n)
        r == AddNode(bs[i], n)
    IN  IF r.ok THEN [buckets |-> [bs EXCEPT ![i] = r.bucket], ping |-> NoNode]
        ELSE IF HasInRange(bs[i], LocalId) \/ Depth(bs[i]) % 5 # 0
             THEN AddContactOp(SplitBucket(bs, i), n)
             ELSE [buckets |-> [bs EXCEPT ![i] = r.bucket], ping |-> HeadOf(bs[i])]

\* RoutingTable.removeContact
RemoveContactOp(bs, n) ==
    LET i == GetBucketFor(bs, n) IN [bs EXCEPT ![i] = RemoveNode(@, n)]

\* new TableTraverser(table, startNode), as every findNeighbors(target)
\* builds it: the target's bucket has its lastUpdated touched.  Touch
\* does so for each target of a set of lookups.
Touch(bs, ids) ==
    LET hit == {GetBucketFor(bs, id) : id \in ids}
    IN  [j \in DOMAIN bs |-> IF j \in hit THEN [bs[j] EXCEPT !.lonely = FALSE] ELSE bs[j]]

\* RoutingTable.getLonelyBuckets: lastUpdated over an hour ago.
LonelyBuckets(bs) == {i \in 1..Len(bs) : bs[i].lonely}

\* RoutingTable.isNewNode
IsNewNode(bs, n) == ~Contains(bs[GetBucketFor(bs, n)].nodes, n)

Contacts(bs) == UNION {ToSet(bs[i].nodes) : i \in 1..Len(bs)}

(***************************************************************************)
(* RoutingTable.findNeighbors over a TableTraverser.  The traverser       *)
(* yields the target's bucket, then takes the last of the buckets left of *)
(* it while `left` holds, and the LAST of the buckets right of it         *)
(* (rightBuckets.pop()) otherwise; it ends as soon as the side it must    *)
(* take next is exhausted.  Nodes of a bucket come out last-inserted      *)
(* first (currentNodes.pop()).                                            *)
(***************************************************************************)
RECURSIVE Walk(_, _, _)
Walk(left, right, goLeft) ==
    IF goLeft /\ left # <<>> THEN <<Last(left)>> \o Walk(Front(left), right, FALSE)
    ELSE IF right # <<>> THEN <<Last(right)>> \o Walk(left, Front(right), TRUE)
    ELSE <<>>

TraversalOrder(bs, i) ==
    <<i>> \o Walk([j \in 1..(i - 1) |-> j], [j \in 1..(Len(bs) - i) |-> i + j], TRUE)

TraversedNodes(bs, target) ==
    LET order == TraversalOrder(bs, GetBucketFor(bs, target))
    IN  FlattenSeq([j \in 1..Len(order) |-> Reverse(bs[order[j]].nodes)])

\* Nodes pushed until the heap holds k of them, then the k nearest.
FindNeighbors(bs, target, k, exclude) ==
    LET eligible == SelectSeq(TraversedNodes(bs, target),
                              LAMBDA n : n # target /\ n # exclude)
        taken == SubSeq(eligible, 1, IF Len(eligible) < k THEN Len(eligible) ELSE k)
    IN  SetToSortSeq(ToSet(taken),
                     LAMBDA a, b : Distance(a, target) < Distance(b, target))

(***************************************************************************)
(* KademliaProtocol.getRefreshIDs for one lonely bucket [min, max]:      *)
(* sub = max - min, num = (sub * rnd + sub).integerValue() with           *)
(* BigNumber's default ROUND_HALF_UP, then the hex string left-padded    *)
(* and cut to its last BIT_SPACE digits, i.e. num modulo the id space.   *)
(* BigNumber.random() is one of RandSteps evenly spaced draws r /        *)
(* RandSteps in [0, 1).                                                   *)
(***************************************************************************)
RandSteps == 8

\* x.integerValue() of the non-negative rational p / q, rounding half up.
RoundHalfUp(p, q) == (2 * p + q) \div (2 * q)

RefreshId(b, r) ==
    RoundHalfUp((b.hi - b.lo) * (r + RandSteps), Scale * RandSteps) % 2^IdBits

-----------------------------------------------------------------------------

\* Mutant of Init: the first bucket's range ends at 2^(width + 1).
InitWideRange ==
    /\ buckets = <<NewBucket(0, 2 * Top)>>
    /\ pinging = {}

Init ==
    /\ buckets = <<NewBucket(0, Top)>>     \* RoutingTable.flush
    /\ pinging = {}

\* addContact(node), as welcomeIfNewNode calls it for a node it heard from.
AddContact(n) ==
    LET r == AddContactOp(buckets, n)
    IN  /\ buckets' = r.buckets
        /\ pinging' = IF r.ping = NoNode THEN pinging ELSE pinging \cup {r.ping}

\* removeContact(node), as handleCallResponse calls it after any RPC to
\* node timed out.
RemoveContact(n) ==
    /\ buckets' = RemoveContactOp(buckets, n)
    /\ UNCHANGED pinging

\* handleCallResponse for a ping that timed out: removeContact(head).
PingTimeout(n) ==
    /\ n \in pinging
    /\ pinging' = pinging \ {n}
    /\ buckets' = RemoveContactOp(buckets, n)

\* handleCallResponse for a ping that was answered: welcomeIfNewNode(head)
\* (the storage loop is empty here), a no-op for a node still stored.
PingAnswered(n) ==
    /\ n \in pinging
    /\ IF IsNewNode(buckets, n)
       THEN LET r == AddContactOp(buckets, n)
            IN  /\ buckets' = r.buckets
                /\ pinging' = IF r.ping = NoNode THEN pinging \ {n}
                              ELSE (pinging \ {n}) \cup {r.ping}
       ELSE /\ pinging' = pinging \ {n}
            /\ UNCHANGED buckets

\* An hour passes since bucket i's lastUpdated.
Age(i) ==
    /\ ~buckets[i].lonely
    /\ buckets' = [buckets EXCEPT ![i].lonely = TRUE]
    /\ UNCHANGED pinging

\* findNeighbors(target), as a crawl or a peer's find request calls it.
Lookup(id) ==
    /\ buckets' = Touch(buckets, {id})
    /\ UNCHANGED pinging

\* Server._refresh_table up to its crawls: getRefreshIDs draws one id per
\* lonely bucket, and the loop calls findNeighbors for each id before it
\* awaits any crawl.
Refresh ==
    /\ LonelyBuckets(buckets) # {}
    /\ \E r \in [LonelyBuckets(buckets) -> 0..(RandSteps - 1)] :
          buckets' = Touch(buckets, {RefreshId(buckets[i], r[i]) : i \in LonelyBuckets(buckets)})
    /\ UNCHANGED pinging

Next ==
    \/ \E n \in Peers :
          \/ AddContact(n)
          \/ RemoveContact(n)
          \/ PingTimeout(n)
          \/ PingAnswered(n)
    \/ \E i \in 1..Len(buckets) : Age(i)
    \/ \E id \in IdSpace : Lookup(id)
    \/ Refresh

Spec == Init /\ [][Next]_vars

-----------------------------------------------------------------------------
(* Properties *)

TypeOK ==
    /\ buckets \in Seq(Bucket)
    /\ Len(buckets) >= 1
    /\ pinging \subseteq Peers

\* Spec 3 (K-Bucket): a bucket never holds more than k nodes -- addNode's
\* capacity check, across splits and replacement promotions.
BucketBound == \A i \in 1..Len(buckets) : Len(buckets[i].nodes) <= KSize

\* A bucket keeps replacement candidates only while it is full: removeNode
\* promotes one as soon as a slot frees, and split drops them.
ReplacementsOnlyWhenFull ==
    \A i \in 1..Len(buckets) :
        buckets[i].repl # <<>> => Len(buckets[i].nodes) = KSize

\* A contact leaves the table only in a step that removes that contact
\* (removeContact after a timeout): a split or a replacement promotion
\* never loses one (spec 8, "split preserves set").
ContactLeavesOnlyByRemoval ==
    [][\A n \in Contacts(buckets) \ Contacts(buckets') :
          RemoveContact(n) \/ PingTimeout(n)]_vars

\* Spec 4.5 and 4.8 (the hourly refresh, paper section 2.3): the refresh
\* looks up an id drawn from each lonely bucket's range, so it leaves no
\* bucket lonely -- although getRefreshIDs computes sub * rnd + sub and
\* never adds the bucket's lower bound, and findNeighbors touches only the
\* bucket its target falls in.
RefreshRevivesLonely == [][Refresh => LonelyBuckets(buckets') = {}]_vars

\* Spec 4.3: findNeighbors stops only once k nodes are collected, so it
\* returns min(k, number of stored nodes other than the target).
FindNeighborsComplete ==
    \A t \in IdSpace :
        LET n == Cardinality(Contacts(buckets) \ {t})
        IN  Len(FindNeighbors(buckets, t, KSize, NoNode))
                = IF n < KSize THEN n ELSE KSize

=============================================================================
