----------------------------- MODULE StorageSpec -----------------------------
(***************************************************************************)
(* The contract of a node's value store (spec 4.2), with no Map and no   *)
(* insertion order: a table from keys to the [t, val] of their last set,  *)
(* in which every operation first forgets the entries older than the ttl. *)
(*                                                                         *)
(* The contract presumes a clock that only moves forward.  Once it has    *)
(* gone back (`skewed`), this module promises nothing about which entries *)
(* an operation forgets: each may forget any of them.  Storage refines    *)
(* this module (Storage.tla, StorageRefinement).                          *)
(***************************************************************************)
EXTENDS Naturals

CONSTANTS Keys, Vals, TTL, MaxTime, ClockMayGoBack, Null

VARIABLES
    table,      \* key -> [t, val] of its live entry, or Null
    now,        \* the clock
    got,        \* value returned by the last get
    skewed      \* the clock has gone back at least once

vars == <<table, now, got, skewed>>

Fresh(e) == e # Null /\ now - TTL < e.t

\* The tables an operation may leave after forgetting: exactly the fresh
\* entries while the clock is monotone, any part of the table otherwise.
Forgotten(tbl) ==
    IF skewed
    THEN {[k \in Keys |-> IF k \in kept THEN tbl[k] ELSE Null] : kept \in SUBSET Keys}
    ELSE {[k \in Keys |-> IF Fresh(tbl[k]) THEN tbl[k] ELSE Null]}

Init ==
    /\ table = [k \in Keys |-> Null]
    /\ now = 0
    /\ got = Null
    /\ skewed = FALSE

\* set(key, value): replaces the key's entry, stamped now.
Set(k, v) ==
    \E tbl \in Forgotten([table EXCEPT ![k] = [t |-> now, val |-> v]]) :
        /\ tbl[k] # Null
        /\ table' = tbl
        /\ UNCHANGED <<now, got, skewed>>

\* get(key): the value of the key's live entry, or absent.
Get(k) ==
    \E tbl \in Forgotten(table) :
        /\ table' = tbl
        /\ got' = IF tbl[k] = Null THEN Null ELSE tbl[k].val
        /\ UNCHANGED <<now, skewed>>

\* items(): forget, then list.
Items ==
    \E tbl \in Forgotten(table) :
        /\ table' = tbl
        /\ UNCHANGED <<now, got, skewed>>

Tick ==
    /\ now < MaxTime
    /\ now' = now + 1
    /\ UNCHANGED <<table, got, skewed>>

ClockBack ==
    /\ ClockMayGoBack
    /\ now > 0
    /\ now' = now - 1
    /\ skewed' = TRUE
    /\ UNCHANGED <<table, got>>

Next ==
    \/ \E k \in Keys, v \in Vals : Set(k, v)
    \/ \E k \in Keys : Get(k)
    \/ Items
    \/ Tick
    \/ ClockBack

Spec == Init /\ [][Next]_vars

=============================================================================
