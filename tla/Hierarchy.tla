------------------------------ MODULE Hierarchy ------------------------------
(* The caches and TLBs of sim-cache.c put together: which cache each level    *)
(* of the instruction and data side points at, what a miss or a write back    *)
(* asks of the next level, and the flush in front of a system call.           *)
(*                                                                            *)
(* Each cache is one set under LRU, as SetAssociative promises it: sets do    *)
(* not interact.  A block number is that of the first level; a larger block   *)
(* of cache c holds Scale[c] of them.  The simulator keeps no data in its     *)
(* caches, so what memory lacks is a history variable.                        *)
EXTENDS Integers, Sequences, SequencesExt

CONSTANTS
    Text, Data,         \* first-level blocks of instructions and of data
    Assoc, Scale        \* of each cache

VARIABLES
    ptr,                \* cache_il1, cache_il2, cache_dl1, cache_dl2, itlb, dtlb: a cache or NULL
    flush_on_syscalls,
    phase,              \* "fetch" or "execute"
    cache,              \* cache[c]: its blocks, most recently used first
    unsaved             \* history: data blocks whose last write memory has not received

vars == <<ptr, flush_on_syscalls, phase, cache, unsaved>>

NULL == "NULL"
Cache == {"il1", "il2", "dl1", "dl2", "itlb", "dtlb"}

\* sim_check_options(): the combinations it accepts; without a first level there is
\* no second, and an instruction level that points at a data level has none below.
Setups ==
    {p \in [Cache -> Cache \cup {NULL}] :
       /\ \A c \in {"dl1", "dl2", "itlb", "dtlb"} : p[c] \in {c, NULL}
       /\ p["dl1"] = NULL => p["dl2"] = NULL
       /\ \/ p["il1"] \in {NULL, p["dl1"], p["dl2"]} /\ p["il2"] = NULL
          \/ p["il1"] = "il1" /\ p["il2"] \in {NULL, "il2", p["dl2"]}}

Init ==
    /\ ptr \in Setups /\ flush_on_syscalls \in BOOLEAN
    /\ phase = "fetch" /\ cache = [c \in Cache |-> << >>] /\ unsaved = {}

\* The block access functions: dl1_access_fn() and il1_access_fn() go to the second
\* level if there is one, the others to memory.
Below(c) == CASE c = "dl1" -> ptr["dl2"] [] c = "il1" -> ptr["il2"] [] OTHER -> NULL

BlockIn(c, b) == b \div Scale[c]
Places(h, c, k) == {i \in DOMAIN h.cache[c] : h.cache[c][i].blk = k}
Dirty(h, c, b) == \E i \in Places(h, c, BlockIn(c, b)) : h.cache[c][i].dirty

\* Memory receives block k of cache c: the newest value of what the first level
\* does not hold dirty itself.  The TLBs hold no data (dtlb_access_fn()).
Memory(h, c, k) ==
    IF c \in {"itlb", "dtlb"} THEN h
    ELSE [h EXCEPT !.unsaved = @ \ {b \in Data : BlockIn(c, b) = k /\ ~Dirty(h, "dl1", b)}]

\* Mutant: a hit leaves the dirty bit alone.
CleanHit(q, i, cmd) == <<q[i]>> \o RemoveAt(q, i)

\* A hit of cache_access() on the block at place i.
Used(q, i, cmd) == <<[q[i] EXCEPT !.dirty = @ \/ cmd = "Write"]>> \o RemoveAt(q, i)

Filled(q, k, cmd) == <<[blk |-> k, dirty |-> cmd = "Write"]>> \o q

\* The parts of cache_access() for block k of cache c: a hit; the victim of a miss and
\* what is left without it; the fill.
Hit(h, c, cmd, k) ==
    [h EXCEPT !.cache[c] = Used(@, CHOOSE i \in Places(h, c, k) : TRUE, cmd)]
Full(h, c) == Len(h.cache[c]) = Assoc[c]
DirtyVictim(h, c) == Full(h, c) /\ Last(h.cache[c]).dirty
Evicted(h, c) == IF Full(h, c) THEN [h EXCEPT !.cache[c] = Front(@)] ELSE h
Fill(h, c, cmd, k) == [h EXCEPT !.cache[c] = Filled(@, k, cmd)]

\* dl2_access_fn(), il2_access_fn(), itlb_access_fn() and dtlb_access_fn(), and the
\* functions of the first level when there is no second.
LowestFn(h, c, cmd, k) == IF cmd = "Write" THEN Memory(h, c, k) ELSE h

\* cache_access() of a cache above memory: a dirty victim is written back before the
\* new block is read.
LowestAccess(h, c, cmd, b) ==
    LET k == BlockIn(c, b)
        back == IF DirtyVictim(h, c)
                THEN LowestFn(Evicted(h, c), c, "Write", Last(h.cache[c]).blk) ELSE Evicted(h, c)
    IN IF Places(h, c, k) # {} THEN Hit(h, c, cmd, k)
       ELSE Fill(LowestFn(back, c, "Read", k), c, cmd, k)

\* blk_access_fn of cache c.
blk_access_fn(h, c, cmd, k) ==
    IF Below(c) = NULL THEN LowestFn(h, c, cmd, k)
    ELSE LowestAccess(h, Below(c), cmd, k * Scale[c])

\* cache_access() of any cache.
cache_access(h, c, cmd, b) ==
    LET k == BlockIn(c, b)
        back == IF DirtyVictim(h, c)
                THEN blk_access_fn(Evicted(h, c), c, "Write", Last(h.cache[c]).blk) ELSE Evicted(h, c)
    IN IF Places(h, c, k) # {} THEN Hit(h, c, cmd, k)
       ELSE Fill(blk_access_fn(back, c, "Read", k), c, cmd, k)

\* cache_flush(): along the way list, each block is invalidated, then written back.
cache_flush(h, c) ==
    FoldLeft(LAMBDA g, e : LET out == [g EXCEPT !.cache[c] = Tail(@)]
                           IN IF e.dirty THEN blk_access_fn(out, c, "Write", e.blk) ELSE out,
             h, h.cache[c])

\* An access if the cache is configured, and a flush if it is.
Accessed(h, c, cmd, b) == IF ptr[c] = NULL THEN h ELSE cache_access(h, ptr[c], cmd, b)
Flushed(h, c) == IF ptr[c] = NULL THEN h ELSE cache_flush(h, ptr[c])

Hier == [cache |-> cache, unsaved |-> unsaved]
Becomes(h) == cache' = h.cache /\ unsaved' = h.unsaved

\* The main loop: the instruction is fetched, then executed.
Fetch(b) ==
    /\ phase = "fetch" /\ phase' = "execute"
    /\ Becomes(Accessed(Accessed(Hier, "itlb", "Read", b), "il1", "Read", b))
    /\ UNCHANGED <<ptr, flush_on_syscalls>>

\* __READ_CACHE(), __WRITE_CACHE() and dcache_access_fn(), any number of times for
\* an instruction; without a data cache a write goes to memory.
DataAccess(cmd, b) ==
    LET h == Accessed(Accessed(Hier, "dtlb", cmd, b), "dl1", cmd, b) IN
    /\ phase = "execute"
    /\ Becomes([h EXCEPT !.unsaved =
                   @ \cup (IF cmd = "Write" /\ ptr["dl1"] # NULL THEN {b} ELSE {})])
    /\ UNCHANGED <<ptr, flush_on_syscalls, phase>>

\* Mutant: the second level is flushed before the first.
FlushBottomUp(h) == Flushed(Flushed(Flushed(h, "dtlb"), "dl2"), "dl1")

\* The flushes of SYSCALL().
FlushAll(h) == Flushed(Flushed(Flushed(h, "dtlb"), "dl1"), "dl2")

\* SYSCALL() with -flush: the system call itself then goes to memory directly.
Syscall ==
    /\ phase = "execute" /\ flush_on_syscalls /\ phase' = "fetch"
    /\ Becomes(FlushAll(Hier))
    /\ UNCHANGED <<ptr, flush_on_syscalls>>

\* Any other instruction is done.
NextInsn ==
    /\ phase = "execute" /\ phase' = "fetch"
    /\ UNCHANGED <<ptr, flush_on_syscalls, cache, unsaved>>

Next == \/ \E b \in Text : Fetch(b)
        \/ \E cmd \in {"Read", "Write"}, b \in Data : DataAccess(cmd, b)
        \/ Syscall \/ NextInsn

Spec == Init /\ [][Next]_vars
-----------------------------------------------------------------------------
(* Properties.                                                               *)

\* No write is lost between the levels: what memory has not received is dirty in the
\* first or the second data cache, however misses of either side evict blocks, with
\* every way of unifying the levels, and through flushes.
NoWriteLost == \A b \in unsaved : Dirty(Hier, "dl1", b) \/ Dirty(Hier, "dl2", b)

\* "-flush: flush caches on system calls": the system call, which goes past the
\* caches, finds every write in memory and leaves no stale data block behind.
FlushSavesAll ==
    [][phase = "execute" /\ phase' = "fetch" /\ cache' # cache =>
         /\ unsaved' = {}
         /\ \A c \in {"dl1", "dl2", "dtlb"} : cache'[c] = << >>]_vars
=============================================================================
