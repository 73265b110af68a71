------------------------------- MODULE Cache --------------------------------
(* The caches and TLBs of cache.c: one struct cache, with its way lists,    *)
(* per-set hash tables, the shortcut to the block that hit last and the bus *)
(* to the next level.                                                       *)
(*                                                                          *)
(* An address is the number of its block: the offset in the block plays no  *)
(* part once the alignment checks have passed.  Block b lies in set         *)
(* b % nsets under tag b \div nsets and its CACHE_TAGSET is zero for b = 0. *)
(* Times are relative to `now': ready and bus_free are the cycles still to  *)
(* wait, which never go below zero because the code only takes MAX(0, .) of *)
(* the differences.  The counters of the statistics are left out.           *)
EXTENDS Integers, FiniteSets, Sequences

CONSTANTS
    nsets, assoc,
    hsize,          \* buckets of a set's hash table, 0: none (assoc / 4 above 4 ways)
    Block,          \* blocks the simulated program touches
    ReadLat,        \* latencies blk_access_fn(Read) may return
    WriteLat,       \* latencies blk_access_fn(Write) may return
    MAX_WAIT        \* bound: no miss starts that would take longer

ASSUME GeometryAssumption ==
    /\ nsets \in Nat \ {0} /\ assoc \in Nat \ {0} /\ hsize \in Nat
    /\ Block \subseteq Nat
    /\ ReadLat \subseteq Nat /\ WriteLat \subseteq Nat
    /\ MAX_WAIT \in Nat

VARIABLES
    policy,         \* cp->policy
    blk,            \* blk[s][w]: tag, status bits and ready time of block w of set s
    rank,           \* rank[s][w]: place in the ordered way chain, 0 is way_head
    hash,           \* hash[s][k]: the blocks on bucket chain k
    last_tagset,    \* block address of the last hit, 0 when forgotten
    last_blk,       \* its <<set, way>>, NULL when forgotten
    bus_free,
    newer,          \* history: blocks whose last write the next level has not seen
    asked           \* history: the last request, <<"access", b>>, <<"flush", b>> or
                    \* <<"flush_all">>

vars == <<policy, blk, rank, hash, last_tagset, last_blk, bus_free, newer, asked>>

Set == 0 .. nsets - 1
Way == 0 .. assoc - 1
Bucket == 0 .. hsize - 1
Policy == {"LRU", "FIFO", "Random"}
Cmd == {"Read", "Write"}
NULL == << >>
Blk == [tag : Nat, valid : BOOLEAN, dirty : BOOLEAN, ready : Nat]

CACHE_TAG(b) == b \div nsets
CACHE_SET(b) == b % nsets
CACHE_MK_BADDR(tag, s) == tag * nsets + s
\* The code folds the tag's bytes with xor and masks the result with hsize - 1,
\* which for tags below 2^8 and the power of two hsize is the remainder.
CACHE_HASH(tag) == tag % hsize
Larger(a, b) == IF a > b THEN a ELSE b

Init ==
    /\ policy \in Policy
    /\ blk = [s \in Set |-> [w \in Way |->
                [tag |-> 0, valid |-> FALSE, dirty |-> FALSE, ready |-> 0]]]
    /\ rank = [s \in Set |-> [w \in Way |-> assoc - 1 - w]]
    /\ hash = [s \in Set |-> [k \in Bucket |-> IF k = 0 THEN Way ELSE {}]]
    /\ last_tagset = 0 /\ last_blk = NULL
    /\ bus_free = 0 /\ newer = {} /\ asked = << >>

\* update_way_list(): way w of a set to the head, or to the tail, of its chain.
ToHead(r, w) ==
    [x \in Way |-> IF x = w THEN 0 ELSE IF r[x] < r[w] THEN r[x] + 1 ELSE r[x]]
ToTail(r, w) ==
    [x \in Way |-> IF x = w THEN assoc - 1 ELSE IF r[x] > r[w] THEN r[x] - 1 ELSE r[x]]

\* Mutant: the block stays on the chain of its old tag.
LeaveLinked(h, tag, w) == h

\* A block leaves, or enters, the bucket of a set's table that its tag selects.
unlink_htab_ent(h, tag, w) == [h EXCEPT ![CACHE_HASH(tag)] = @ \ {w}]
link_htab_ent(h, tag, w) == [h EXCEPT ![CACHE_HASH(tag)] = @ \cup {w}]

\* The search of cache_access(), cache_probe() and cache_flush_addr(): along
\* the way list, or along one bucket chain.
Candidates(b) ==
    IF hsize = 0 THEN Way ELSE hash[CACHE_SET(b)][CACHE_HASH(CACHE_TAG(b))]
Found(b) ==
    {w \in Candidates(b) : /\ blk[CACHE_SET(b)][w].tag = CACHE_TAG(b)
                           /\ blk[CACHE_SET(b)][w].valid}
cache_probe(b) == Found(b) # {}

\* A hit: data, dirty bit and the histories.
Touch(cmd, b, w) ==
    /\ blk' = [blk EXCEPT ![CACHE_SET(b)][w].dirty = @ \/ cmd = "Write"]
    /\ newer' = IF cmd = "Write" THEN newer \cup {b} ELSE newer
    /\ last_tagset' = b /\ last_blk' = <<CACHE_SET(b), w>> /\ asked' = <<"access", b>>

\* Mutant: a fast hit forgets to mark the block dirty.
FastHitClean(cmd, b) ==
    /\ b = last_tagset /\ last_blk # NULL
    /\ newer' = IF cmd = "Write" THEN newer \cup {b} ELSE newer
    /\ asked' = <<"access", b>>
    /\ UNCHANGED <<policy, blk, rank, hash, last_tagset, last_blk, bus_free>>

\* The access is to the block that hit last.
FastHit(cmd, b) ==
    /\ b = last_tagset /\ last_blk # NULL
    /\ Touch(cmd, b, last_blk[2])
    /\ UNCHANGED <<policy, rank, hash, bus_free>>

\* Mutant: a slow hit leaves the way list as it is.
HitInPlace(cmd, b) ==
    /\ b # last_tagset
    /\ \E w \in Found(b) : Touch(cmd, b, w)
    /\ UNCHANGED <<policy, rank, hash, bus_free>>

Hit(cmd, b) ==
    /\ b # last_tagset
    /\ \E w \in Found(b) :
         /\ Touch(cmd, b, w)
         /\ rank' = IF policy = "LRU"
                    THEN [rank EXCEPT ![CACHE_SET(b)] = ToHead(@, w)] ELSE rank
    /\ UNCHANGED <<policy, hash, bus_free>>

\* The block a miss replaces: the tail of the chain, or any.
Victims(s) == {w \in Way : policy = "Random" \/ rank[s][w] = assoc - 1}

\* Cycles until the block's own miss is satisfied and the bus is free.
Outstanding(old) == Larger(old.ready, bus_free)

\* A miss: the victim leaves its bucket, is written back if it is dirty, and
\* is filled and linked again under its new tag.  r and x are what the block
\* access function returns for the fill and for the write back.
Miss(cmd, b, w, r, x) ==
    LET s    == CACHE_SET(b)
        tag  == CACHE_TAG(b)
        old  == blk[s][w]
        wait == Outstanding(old)
        lat  == IF ~old.valid THEN r ELSE IF ~old.dirty THEN wait + r ELSE wait + x + r
    IN /\ b # last_tagset /\ Found(b) = {}
       /\ w \in Victims(s)
       /\ lat <= MAX_WAIT
       /\ rank' = IF policy = "Random" THEN rank ELSE [rank EXCEPT ![s] = ToHead(@, w)]
       /\ hash' = IF hsize = 0 THEN hash
                  ELSE [hash EXCEPT ![s] =
                          link_htab_ent(unlink_htab_ent(@, old.tag, w), tag, w)]
       /\ last_tagset' = 0 /\ last_blk' = NULL
       /\ bus_free' = IF old.valid THEN wait + 1 ELSE bus_free
       /\ blk' = [blk EXCEPT ![s][w] =
                    [tag |-> tag, valid |-> TRUE, dirty |-> cmd = "Write", ready |-> lat]]
       /\ newer' = (newer \ (IF old.valid /\ old.dirty
                             THEN {CACHE_MK_BADDR(old.tag, s)} ELSE {}))
                    \cup (IF cmd = "Write" THEN {b} ELSE {})
       /\ asked' = <<"access", b>>
       /\ UNCHANGED policy

\* The addresses of the dirty blocks.
DirtyBlocks ==
    {CACHE_MK_BADDR(blk[v[1]][v[2]].tag, v[1]) : v \in
       {u \in Set \X Way : blk[u[1]][u[2]].valid /\ blk[u[1]][u[2]].dirty}}

\* All blocks are invalidated, the dirty ones written back.
cache_flush ==
    /\ blk' = [s \in Set |-> [w \in Way |-> [blk[s][w] EXCEPT !.valid = FALSE]]]
    /\ newer' = newer \ DirtyBlocks
    /\ last_tagset' = 0 /\ last_blk' = NULL /\ asked' = <<"flush_all">>
    /\ UNCHANGED <<policy, rank, hash, bus_free>>

\* One block is invalidated, written back if it is dirty, and moved to the
\* tail of its way list; nothing happens when it is not there.
cache_flush_addr(b) ==
    LET s == CACHE_SET(b) IN
    /\ \E w \in Found(b) :
         /\ blk' = [blk EXCEPT ![s][w].valid = FALSE]
         /\ newer' = IF blk[s][w].dirty
                     THEN newer \ {CACHE_MK_BADDR(blk[s][w].tag, s)} ELSE newer
         /\ rank' = [rank EXCEPT ![s] = ToTail(@, w)]
    /\ last_tagset' = 0 /\ last_blk' = NULL /\ asked' = <<"flush", b>>
    /\ UNCHANGED <<policy, hash, bus_free>>

\* The caller's clock moves on.
Tick ==
    /\ bus_free' = Larger(bus_free - 1, 0)
    /\ blk' = [s \in Set |-> [w \in Way |-> [blk[s][w] EXCEPT !.ready = Larger(@ - 1, 0)]]]
    /\ UNCHANGED <<policy, rank, hash, last_tagset, last_blk, newer, asked>>

Next ==
    \/ \E cmd \in Cmd, b \in Block :
         \/ FastHit(cmd, b) \/ Hit(cmd, b)
         \/ \E w \in Way, r \in ReadLat, x \in WriteLat : Miss(cmd, b, w, r, x)
    \/ cache_flush
    \/ \E b \in Block : cache_flush_addr(b)
    \/ Tick

Spec == Init /\ [][Next]_vars
-----------------------------------------------------------------------------
(* Properties.                                                             *)

Holds(s, w, b) == blk[s][w].valid /\ CACHE_MK_BADDR(blk[s][w].tag, s) = b

\* The shortcut of cache_access() ("check for a fast hit: access to same
\* block"): an access that takes it finds the block it asks for, although
\* replacement, flushes and hits elsewhere happened since the last hit.
FastHitSound ==
    \A b \in Block : b = last_tagset =>
        last_blk # NULL /\ Holds(last_blk[1], last_blk[2], b)

\* The search of cache_access() is exact: with a hash table or without, it finds
\* the one valid copy of a block if there is one, and the block
\* unlink_htab_ent() looks for is on the chain of its tag ("assert(ent)").
LookupExact ==
    \A s \in Set :
       /\ \A v, w \in Way : blk[s][v].valid /\ blk[s][w].valid
                             /\ blk[s][v].tag = blk[s][w].tag => v = w
       /\ hsize > 0 => \A w \in Way, k \in Bucket :
             w \in hash[s][k] <=> k = CACHE_HASH(blk[s][w].tag)

\* A write-back cache loses no write: a block was written since the next level
\* last received it exactly when it is in the cache and dirty, through
\* replacement, both flushes and refills of flushed blocks.
WritesKept == newer = DirtyBlocks

\* The blocks of a set in the order of its way list.
Chain(s) == [i \in 1 .. assoc |-> CHOOSE w \in Way : rank[s][w] = i - 1]
Content ==
    [s \in Set |->
       LET q == SelectSeq(Chain(s), LAMBDA w : blk[s][w].valid)
       IN [i \in DOMAIN q |-> CACHE_MK_BADDR(blk[s][q[i]].tag, s)]]
Promise == INSTANCE SetAssociative WITH content <- Content

\* The cache implements the policy it was created with: after every access and
\* flush, the blocks a set holds and the order in which misses will evict them are
\* those of perfect LRU, FIFO or random replacement of the blocks asked for, although
\* only a slow hit of cache_access() moves its block in the way list; the fast hit
\* relies on the block being in front already under LRU.
ImplementsPolicy == Promise!Spec
=============================================================================
