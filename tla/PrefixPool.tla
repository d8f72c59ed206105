----------------------------- MODULE PrefixPool -----------------------------
(***************************************************************************)
(* PrefixPool (compact_index.rs): the dictionary of parent paths that the  *)
(* packed rows share.  A value's id is its position; slots is an           *)
(* open-addressing table of ids, never more than half full, that grows and *)
(* is refilled with the values.  Everything it allocates stays under one   *)
(* limit; a value that would break it is simply not taken.                 *)
(*                                                                         *)
(* The hasher is seeded at random, so every hash function is an initial    *)
(* state.  An allocation may hold more than it was asked for.              *)
(***************************************************************************)
EXTENDS Integers, Sequences, SequencesExt, FiniteSetsExt

CONSTANTS
    NO_PREFIX,     \* u32::MAX, the id that is none
    Values,        \* texts that may be interned
    Hashes,        \* their hashes are 0 .. Hashes - 1
    FirstValues,   \* capacity of the first allocation for values
    FirstSlots,    \* and of the first table, a power of two
    EntryBytes, SlotBytes, PoolBytes,   \* size_of Box<str>, u32 and PrefixPool
    Limit,         \* PREFIX_POOL_BYTES
    Slack          \* bound: an allocation exceeds the request by at most Slack

PoolAssumption ==
    /\ NO_PREFIX \in Nat \ {0} /\ Hashes \in Nat \ {0}
    /\ FirstValues \in Nat \ {0} /\ FirstSlots \in Nat \ {0, 1} /\ Slack \in Nat

VARIABLES pool, hash
poolvars == <<pool, hash>>

\* capacity and slot_capacity are Vec::capacity of values and slots.
EmptyPool ==
    [values |-> <<>>, capacity |-> 0, slots |-> <<>>, slot_capacity |-> 0, string_bytes |-> 0]

capacity_bytes(p) == p.string_bytes + p.capacity * EntryBytes + p.slot_capacity * SlotBytes

\* get
Prefix(p, id) == IF id = NO_PREFIX THEN <<>> ELSE p.values[id + 1]

\* The slot that is k steps along the probe of hash h.
Probe(slots, h, k) == ((h + k) % Len(slots)) + 1

\* NO_PREFIX is None.
lookup(p, v, h) ==
    LET At(k) == p.slots[Probe(p.slots, h, k)]
        stops == {k \in 0 .. Len(p.slots) - 1 : At(k) = NO_PREFIX \/ p.values[At(k) + 1] = v}
    IN  IF stops = {} THEN NO_PREFIX ELSE At(Min(stops))

insert_slot(slots, id, h) ==
    LET k == Min({j \in 0 .. Len(slots) - 1 : slots[Probe(slots, h, j)] = NO_PREFIX})
    IN  [slots EXCEPT ![Probe(slots, h, k)] = id]

\* A slip: a grown table starts as a copy of the old one.
SlipRefilled(p, n) ==
    [i \in 1 .. n |-> IF i <= Len(p.slots) THEN p.slots[i] ELSE NO_PREFIX]

\* A new table of n slots that holds every value again.
Refilled(p, n) ==
    FoldLeft(LAMBDA slots, i : insert_slot(slots, i - 1, hash[p.values[i]]),
             [i \in 1 .. n |-> NO_PREFIX], [i \in 1 .. Len(p.values) |-> i])

GrownSlots(p) ==
    IF Len(p.values) + 1 > Len(p.slots) \div 2
      THEN Max({2 * Len(p.slots), FirstSlots}) ELSE Len(p.slots)

GrownValues(p) ==
    IF Len(p.values) + 1 > p.capacity THEN Max({2 * p.capacity, FirstValues}) ELSE p.capacity

fits(payload, entries, slots) ==
    payload + entries * EntryBytes + slots * SlotBytes + PoolBytes <= Limit

\* The new value is taken: there is an id for it, and both the requested and
\* the obtained capacities c and s fit.
Admitted(p, v, c, s) ==
    /\ Len(p.values) + 1 < NO_PREFIX
    /\ fits(p.string_bytes + Len(v), GrownValues(p), Max({GrownSlots(p), p.slot_capacity}))
    /\ fits(p.string_bytes + Len(v), c, s)

\* intern, with extra room in what it allocates; the pool that results, in
\* which v's id is lookup's answer.
intern(p, v, extra) ==
    LET n == GrownSlots(p)
        c == IF GrownValues(p) > p.capacity THEN GrownValues(p) + extra ELSE p.capacity
        s == IF n > Len(p.slots) THEN n + extra ELSE p.slot_capacity
    IN  IF lookup(p, v, hash[v]) # NO_PREFIX \/ ~Admitted(p, v, c, s) THEN p
        ELSE [values |-> Append(p.values, v), capacity |-> c,
              slots |-> insert_slot(IF n > Len(p.slots) THEN Refilled(p, n) ELSE p.slots,
                                    Len(p.values), hash[v]),
              slot_capacity |-> s, string_bytes |-> p.string_bytes + Len(v)]

PoolInit == pool = EmptyPool /\ hash \in [Values -> 0 .. Hashes - 1]

Intern == \E v \in Values, extra \in 0 .. Slack : pool' = intern(pool, v, extra) /\ UNCHANGED hash

PoolSpec == PoolInit /\ [][Intern]_poolvars

-----------------------------------------------------------------------------
\* A value is found under its own id if it was taken and under none otherwise,
\* whatever collides with it and however often the table has grown; so no value
\* is stored twice.
PoolFinds ==
    \A v \in Values :
        LET ids == {i \in DOMAIN pool.values : pool.values[i] = v}
        IN  IF ids = {} THEN lookup(pool, v, hash[v]) = NO_PREFIX
            ELSE ids = {lookup(pool, v, hash[v]) + 1}

\* Half of the table stays free: the unbounded probe of insert_slot always ends.
ProbesEnd ==
    /\ 2 * Len(pool.values) <= Len(pool.slots)
    /\ Cardinality({i \in DOMAIN pool.slots : pool.slots[i] # NO_PREFIX}) = Len(pool.values)

\* What is allocated, not what was asked for, stays under the limit, and no id
\* is the one that stands for none.
PoolBounded ==
    /\ pool = EmptyPool \/ capacity_bytes(pool) + PoolBytes <= Limit
    /\ Len(pool.values) < NO_PREFIX
=============================================================================
