------------------------------- MODULE Storage -------------------------------
(***************************************************************************)
(* The value store of a node (src/p2p/kademlia/storage.js lines 1-93:    *)
(* IStorage and ForgetfulStorage).  The store is a JavaScript Map, so it  *)
(* is a sequence of entries in insertion order; set() deletes a key       *)
(* before re-inserting it so that the order stays the order of the       *)
(* timestamps, and cull() pops from the front as many entries as it       *)
(* counts expired.  Date.now() is `now`, a bounded counter; it may step   *)
(* back by one when ClockMayGoBack holds (a wall clock set back).         *)
(* StorageSpec states the contract this store implements.                *)
(***************************************************************************)
EXTENDS Naturals, Sequences, SequencesExt, FiniteSets

CONSTANTS
    Keys,           \* digests stored under
    Vals,           \* stored byte strings
    TTL,            \* ForgetfulStorage ttl (20000 ms in the code)
    MaxTime,        \* bound on the clock
    ClockMayGoBack, \* whether Date.now() may decrease
    Period,         \* PERIOD_HOUR of the refresh's republish (crawling.js)
    Null            \* model value: get's default

ASSUME TTL \in Nat \ {0} /\ MaxTime \in Nat /\ ClockMayGoBack \in BOOLEAN /\ Period \in Nat

VARIABLES
    store,      \* Map entries in insertion order: [key, t, val]
    now,        \* Date.now()
    got,        \* value returned by the last get()
    skewed,     \* history: the clock has gone back at least once
    republishing \* entries _refresh_table has yet to republish

vars == <<store, now, got, skewed, republishing>>

Entry == [key : Keys, t : 0..MaxTime, val : Vals]

TypeOK ==
    /\ store \in Seq(Entry)
    /\ now \in 0..MaxTime
    /\ got \in Vals \cup {Null}
    /\ skewed \in BOOLEAN
    /\ republishing \in Seq(Entry)

\* iteritemsOlderThan(secondsOld): entries with now - secondsOld >= t.
OlderThan(s, age) == {i \in 1..Len(s) : now - age >= s[i].t}

\* ForgetfulStorage.cull: one FIFO pop per entry older than ttl.
Cull(s) == SubSeq(s, Cardinality(OlderThan(s, TTL)) + 1, Len(s))

StoredKeys(s) == {s[i].key : i \in 1..Len(s)}

\* Mutant of Lookup: `return key` instead of `return def` when absent.
LookupReturnsKey(s, k) ==
    IF k \in StoredKeys(s) THEN (CHOOSE e \in ToSet(s) : e.key = k).val ELSE k

\* IStorage.get(key, def) after the cull.
Lookup(s, k) ==
    IF k \in StoredKeys(s) THEN (CHOOSE e \in ToSet(s) : e.key = k).val ELSE Null

Init ==
    /\ store = <<>>
    /\ now = 0
    /\ got = Null
    /\ skewed = FALSE
    /\ republishing = <<>>

\* IStorage.set on the entries s: delete an existing key, append
\* [now, value] at the end of the Map, cull.
Put(s, k, v) ==
    Cull(Append(SelectSeq(s, LAMBDA e : e.key # k), [key |-> k, t |-> now, val |-> v]))

\* set(key, value)
Set(k, v) ==
    /\ store' = Put(store, k, v)
    /\ UNCHANGED <<now, got, skewed, republishing>>

\* Mutant of Get: the value is looked up before the cull.
GetLookupBeforeCull(k) ==
    /\ store' = Cull(store)
    /\ got' = Lookup(store, k)
    /\ UNCHANGED <<now, skewed, republishing>>

\* IStorage.get: cull, then the stored value or the default.
Get(k) ==
    /\ store' = Cull(store)
    /\ got' = Lookup(Cull(store), k)
    /\ UNCHANGED <<now, skewed, republishing>>

\* ForgetfulStorage.items: cull, then list (the list itself is read by
\* the protocol's welcomeIfNewNode).
Items ==
    /\ store' = Cull(store)
    /\ UNCHANGED <<now, got, skewed, republishing>>

\* Time passes.
Tick ==
    /\ now < MaxTime
    /\ now' = now + 1
    /\ UNCHANGED <<store, got, skewed, republishing>>

\* The wall clock is set back.
ClockBack ==
    /\ ClockMayGoBack
    /\ now > 0
    /\ now' = now - 1
    /\ skewed' = TRUE
    /\ UNCHANGED <<store, got, republishing>>

\* _refresh_table, after its crawls: the list of
\* iteritemsOlderThan(PERIOD_HOUR), which does not cull, in Map order.
RepublishStart ==
    /\ republishing = <<>>
    /\ republishing' = SelectSeq(store, LAMBDA e : now - Period >= e.t)
    /\ republishing' # <<>>
    /\ UNCHANGED <<store, now, got, skewed>>

\* One iteration of its loop: await set_digest(dkey, value), which stores
\* the value locally (storage.set) when this node is nearer the key than
\* the farthest node its crawl found, and not when it is farther or the
\* crawl found none.
RepublishNext ==
    /\ republishing # <<>>
    /\ \E close \in BOOLEAN :
          store' = IF close THEN Put(store, Head(republishing).key, Head(republishing).val)
                   ELSE store
    /\ republishing' = Tail(republishing)
    /\ UNCHANGED <<now, got, skewed>>

Next ==
    \/ \E k \in Keys, v \in Vals : Set(k, v)
    \/ RepublishStart
    \/ RepublishNext
    \/ \E k \in Keys : Get(k)
    \/ Items
    \/ Tick
    \/ ClockBack

Spec == Init /\ [][Next]_vars

-----------------------------------------------------------------------------
(* Properties *)

\* The contract as a table: each stored key's [t, val].
Table(s) ==
    [k \in Keys |-> IF k \in StoredKeys(s)
                    THEN LET e == CHOOSE e \in ToSet(s) : e.key = k
                         IN  [t |-> e.t, val |-> e.val]
                    ELSE Null]

Contract == INSTANCE StorageSpec WITH table <- Table(store)

\* Spec 4.2: the Map with FIFO culling implements the contract -- set
\* replaces the key's entry, and every set, get and items forgets exactly
\* the entries older than the ttl while the clock has only moved forward,
\* so get returns the latest set value until the ttl has passed and absent
\* afterwards -- although cull() pops entries by count from the front of
\* the Map instead of testing their timestamps.
StorageRefinement == Contract!Spec

\* Spec 4.2: a cull removes only entries older than the ttl (a set of k,
\* by a client or by the republish, also replaces the entry of k itself).
CullRemovesOnlyExpired ==
    [][\A e \in ToSet(store) \ ToSet(store') :
          \/ now - TTL >= e.t
          \/ \E v \in Vals : Set(e.key, v)
          \/ RepublishNext /\ Head(republishing).key = e.key]_vars

=============================================================================
