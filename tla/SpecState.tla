------------------------------ MODULE SpecState ------------------------------
(* The state of the trace generator of sim-outorder.c: registers with a      *)
(* copy-on-write layer, and memory with a hash table of speculative stores   *)
(* over it, used while instructions behind a misprediction are executed and  *)
(* dropped by tracer_recover().                                              *)
(*                                                                           *)
(* Values are small numbers, sizes are 1 and 2 bytes: the code treats 1, 2   *)
(* and 4 alike and its instructions use no other size.  The pairs of floating*)
(* point registers, which share a bit of use_spec_F, are given by FlagOf.    *)
EXTENDS Integers, FiniteSets, Sequences

CONSTANTS
    Reg,                \* registers of all banks
    FlagOf,             \* FlagOf[r]: the register whose bit stands for r
    Text, Data,         \* addresses of the text and of data and stack
    STORE_HASH_SIZE,
    Value,              \* values of a byte and of a register, with 0
    MAX_ALLOC           \* bound on calls of calloc()

VARIABLES
    spec_mode, bugcompat_mode,
    regs, spec_regs,    \* registers and their speculative copies
    use_spec,           \* use_spec_R, use_spec_F, use_spec_HI, ...: bits set
    mem,                \* the memory of mem_access()
    store_htable,       \* store_htable[k]: chain of [addr, data]
    free,               \* entries on bucket_free_list
    allocated,          \* entries obtained from calloc()
    right_regs, right_mem,  \* history: what the right path so far has written
    want_regs, want_mem,    \* history: and the path being executed, on top of that
    wrote, stores       \* history: registers and [addr, n] written since speculation began

regVars == <<regs, spec_regs, use_spec, right_regs, want_regs, wrote>>
memVars == <<mem, store_htable, free, allocated, right_mem, want_mem, stores>>
vars == <<spec_mode, bugcompat_mode, regVars, memVars>>

Addr == Text \cup Data
Hash == 0 .. STORE_HASH_SIZE - 1
\* Below 2^8 the code's fold of the address's bytes is the remainder.
HASH_ADDR(a) == a % STORE_HASH_SIZE
Bytes(a, n) == a .. a + n - 1
Aligned(a, n) == a % n = 0 /\ Bytes(a, n) \subseteq Addr
Permitted(cmd, a) == (a \in Text /\ cmd = "Read") \/ a \in Data
Entry == [addr : Addr, data : [0 .. 1 -> Value]]

Init ==
    /\ spec_mode = FALSE /\ bugcompat_mode \in BOOLEAN
    /\ regs = [r \in Reg |-> 0] /\ spec_regs = [r \in Reg |-> 0] /\ use_spec = {}
    /\ mem = [a \in Addr |-> 0] /\ store_htable = [k \in Hash |-> << >>]
    /\ free = 0 /\ allocated = 0
    /\ right_regs = regs /\ right_mem = mem
    /\ want_regs = regs /\ want_mem = mem /\ wrote = {} /\ stores = {}

\* GPR(), FPR_L(), FPR_F(), HI, LO, FCC; FPR_D() reads both registers of a pair.
GPR(r) == IF FlagOf[r] \in use_spec THEN spec_regs[r] ELSE regs[r]

\* Mutant: the bit of the register itself is set, not that of its pair.
SetOwnBit(rs, v) ==
    /\ IF spec_mode
       THEN /\ use_spec' = use_spec \cup rs
            /\ spec_regs' = [r \in Reg |-> IF r \in rs THEN v ELSE spec_regs[r]]
            /\ wrote' = wrote \cup rs /\ UNCHANGED <<regs, right_regs>>
       ELSE /\ regs' = [r \in Reg |-> IF r \in rs THEN v ELSE regs[r]]
            /\ right_regs' = [r \in Reg |-> IF r \in rs THEN v ELSE right_regs[r]]
            /\ UNCHANGED <<spec_regs, use_spec, wrote>>
    /\ want_regs' = [r \in Reg |-> IF r \in rs THEN v ELSE want_regs[r]]
    /\ UNCHANGED <<spec_mode, bugcompat_mode, memVars>>

\* SET_GPR() and its relatives; SET_FPR_D() writes both registers of a pair.
SET_GPR(rs, v) ==
    /\ IF spec_mode
       THEN /\ use_spec' = use_spec \cup {FlagOf[r] : r \in rs}
            /\ spec_regs' = [r \in Reg |-> IF r \in rs THEN v ELSE spec_regs[r]]
            /\ wrote' = wrote \cup rs /\ UNCHANGED <<regs, right_regs>>
       ELSE /\ regs' = [r \in Reg |-> IF r \in rs THEN v ELSE regs[r]]
            /\ right_regs' = [r \in Reg |-> IF r \in rs THEN v ELSE right_regs[r]]
            /\ UNCHANGED <<spec_regs, use_spec, wrote>>
    /\ want_regs' = [r \in Reg |-> IF r \in rs THEN v ELSE want_regs[r]]
    /\ UNCHANGED <<spec_mode, bugcompat_mode, memVars>>

\* The writes of the instructions: one register, or a pair.
RegSets == {{r} : r \in Reg} \cup {{q \in Reg : FlagOf[q] = FlagOf[r]} : r \in Reg}

Stored(m, a, n, v) == [b \in DOMAIN m |-> IF b \in Bytes(a, n) THEN v[b - a] ELSE m[b]]

\* A store outside speculation.
mem_access(a, n, v) ==
    /\ ~spec_mode /\ Permitted("Write", a) /\ Aligned(a, n)
    /\ mem' = Stored(mem, a, n, v)
    /\ right_mem' = Stored(right_mem, a, n, v) /\ want_mem' = Stored(want_mem, a, n, v)
    /\ UNCHANGED <<spec_mode, bugcompat_mode, regVars, store_htable, free, allocated, stores>>

\* Mutant: the entry is linked at the front without being unlinked.
LinkedTwice(q, i) == <<q[i]>> \o q

\* The search of spec_mem_access(), and the chain with the entry moved to its front.
Places(a) == {i \in DOMAIN store_htable[HASH_ADDR(a)] : store_htable[HASH_ADDR(a)][i].addr = a}
InFront(q, i) == <<q[i]>> \o SubSeq(q, 1, i - 1) \o SubSeq(q, i + 1, Len(q))

\* What a speculative read of n bytes returns.
SpecRead(a, n) ==
    [k \in 0 .. n - 1 |->
        IF Places(a) # {}
        THEN store_htable[HASH_ADDR(a)][CHOOSE i \in Places(a) : TRUE].data[k]
        ELSE mem[a + k]]

\* A speculative read or write that finds an entry.
SpecHit(cmd, a, n, v) ==
    /\ spec_mode /\ Permitted(cmd, a) /\ Aligned(a, n)
    /\ \E i \in Places(a) :
         LET q == InFront(store_htable[HASH_ADDR(a)], i) IN
         store_htable' = [store_htable EXCEPT ![HASH_ADDR(a)] =
            IF cmd = "Read" THEN q
            ELSE [q EXCEPT ![1].data = [k \in 0 .. 1 |-> IF k < n THEN v[k] ELSE @[k]]]]
    /\ want_mem' = IF cmd = "Read" THEN want_mem ELSE Stored(want_mem, a, n, v)
    /\ stores' = IF cmd = "Read" THEN stores ELSE stores \cup {<<a, n>>}
    /\ UNCHANGED <<spec_mode, bugcompat_mode, regVars, mem, free, allocated, right_mem>>

\* The free list after an entry was taken from it or, when it is empty, from calloc().
Take(n) == IF n = 0 THEN 0 ELSE n - 1

\* A speculative write that finds no entry takes one from the free list or from
\* calloc(); in bugcompat mode it is not linked into the table.
SpecAllocate(a, n, v) ==
    /\ spec_mode /\ Permitted("Write", a) /\ Aligned(a, n)
    /\ Places(a) = {}
    /\ free > 0 \/ allocated < MAX_ALLOC
    /\ free' = Take(free)
    /\ allocated' = IF free > 0 THEN allocated ELSE allocated + 1
    /\ store_htable' =
        IF bugcompat_mode THEN store_htable
        ELSE [store_htable EXCEPT ![HASH_ADDR(a)] =
                <<[addr |-> a, data |-> [k \in 0 .. 1 |-> IF k < n THEN v[k] ELSE 0]]>> \o @]
    /\ want_mem' = Stored(want_mem, a, n, v) /\ stores' = stores \cup {<<a, n>>}
    /\ UNCHANGED <<spec_mode, bugcompat_mode, regVars, mem, right_mem>>

\* ruu_dispatch() enters speculative mode behind a mispredicted branch.
Mispredict ==
    /\ ~spec_mode /\ spec_mode' = TRUE
    /\ UNCHANGED <<bugcompat_mode, regVars, memVars>>

\* Entries in all chains.
InTable == Cardinality({p \in Hash \X (1 .. MAX_ALLOC) : p[2] \in DOMAIN store_htable[p[1]]})

\* Mutant: the chains behind the first are kept.
FirstEmptied(t) == [t EXCEPT ![0] = << >>]

\* The loop of tracer_recover() over the chains.
Emptied(t) == [k \in Hash |-> << >>]

tracer_recover ==
    /\ spec_mode /\ spec_mode' = FALSE
    /\ use_spec' = {}
    /\ store_htable' = Emptied(store_htable)
    /\ free' = free + InTable
    /\ want_regs' = right_regs /\ want_mem' = right_mem /\ wrote' = {} /\ stores' = {}
    /\ UNCHANGED <<bugcompat_mode, regs, spec_regs, mem, allocated, right_regs, right_mem>>

Next ==
    \/ \E rs \in RegSets, v \in Value : SET_GPR(rs, v)
    \/ \E n \in 1 .. 2 : \E a \in Addr, v \in [0 .. n - 1 -> Value] :
         \/ mem_access(a, n, v)
         \/ SpecAllocate(a, n, v)
         \/ \E cmd \in {"Read", "Write"} : SpecHit(cmd, a, n, v)
    \/ Mispredict \/ tracer_recover

Spec == Init /\ [][Next]_vars

(***************************************************************************)
(* Properties                                                              *)
(***************************************************************************)
Overlap(a, n) == {s \in stores : Bytes(a, n) \cap Bytes(s[1], s[2]) # {}}

\* A load on the right path reads what the right path stored, no matter which wrong
\* paths were executed and recovered from.  A speculative load reads what the path so
\* far has stored, the right path's value where the wrong path stored nothing, and
\* nothing an earlier wrong path stored, whenever the stores it overlaps were made at
\* its own address, one of them as wide as itself (spec_mem_access() says that other
\* overlaps are not combined).
LoadsSeeStores ==
    /\ ~spec_mode => mem = want_mem
    /\ spec_mode /\ ~bugcompat_mode =>
          \A n \in 1 .. 2 : \A a \in Addr :
              /\ Aligned(a, n)
              /\ \A s \in Overlap(a, n) : s[1] = a
              /\ Overlap(a, n) # {} => \E s \in Overlap(a, n) : s[2] >= n
              => SpecRead(a, n) = [k \in 0 .. n - 1 |-> want_mem[a + k]]

\* A register reads as last written on the path being executed, on either path
\* and after any number of recoveries, unless only the other register of its pair
\* was written since the misprediction.  After tracer_recover() that is what the
\* right path alone has written.
RegistersNewest ==
    \A r \in Reg : (FlagOf[r] \in {FlagOf[w] : w \in wrote} => r \in wrote)
                   => GPR(r) = want_regs[r]

\* "speculative copy on write storage provided for fast recovery during wrong path
\* execute": every register reads as last written on the path being executed.
CopyOnWrite == \A r \in Reg : GPR(r) = want_regs[r]

\* Moving entries to the front of their chains, allocating and releasing them
\* neither loses nor doubles one: each is on the free list or once in the bucket of
\* its address (in bugcompat mode the entries written are lost on purpose).
BucketsConserved ==
    ~bugcompat_mode =>
        /\ allocated = free + InTable
        /\ \A k \in Hash : \A i, j \in DOMAIN store_htable[k] :
              /\ HASH_ADDR(store_htable[k][i].addr) = k
              /\ store_htable[k][i].addr = store_htable[k][j].addr => i = j
=============================================================================
