------------------------------ MODULE MCLibrary ------------------------------
(* The parts of the simulators that share no state with each other, checked  *)
(* one at a time: the event queue, the speculative state of the trace        *)
(* generator, libcheetah, the debugger, the caches of sim-cache.c, and the   *)
(* symbol tables.                                                            *)
EXTENDS Integers, TLC

CONSTANTS Time, MAX_ID,
          Reg, FlagOf, Text, Data, STORE_HASH_SIZE, Value, MAX_ALLOC,
          A, B, C, N, REUSE, SaLine, DmLine, FaSetup, DUMMY, HASHNO,
          Code, Branch, ENTRY, SS_INST_SIZE, Mem, Class, Range, MAX_BREAK, MAX_INSN,
          TextBlock, DataBlock, Assoc, Scale,
          Name, SymAddr, END, MAX_SYMS

\* What the modules assume of their constants, and what cheetah_init() tests.
ASSUME EventAssumption == Time \subseteq Nat /\ MAX_ID \in Nat
ASSUME StateAssumption ==
    /\ FlagOf \in [Reg -> Reg] /\ \A r \in Reg : FlagOf[FlagOf[r]] = FlagOf[r]
    /\ Text \subseteq Nat /\ Data \subseteq Nat /\ Text \cap Data = {}
    /\ STORE_HASH_SIZE \in Nat \ {0} /\ 0 \in Value /\ MAX_ALLOC \in Nat
ASSUME CheetahAssumption ==
    /\ {A, B, C, N} \subseteq Nat /\ A <= B /\ B <= C /\ REUSE \in Nat \ {0}
    /\ SaLine \subseteq Nat /\ DmLine \subseteq Nat
    /\ \A s \in FaSetup : DUMMY \notin s.lines /\ s.again \subseteq s.lines /\ s.max \in Nat \ {0}
    /\ HASHNO \in Nat \ {0}
ASSUME DebuggerAssumption ==
    /\ Branch \subseteq Code /\ ENTRY \in Code
    /\ \A a \in Code \ Branch : a + SS_INST_SIZE \in Code
    /\ \A r \in Range : r.ptype # "addr" => r.end < MAX_INSN
ASSUME BlockAssumption ==
    /\ TextBlock \cap DataBlock = {}
    /\ \A c \in DOMAIN Assoc : Assoc[c] \in Nat \ {0} /\ Scale[c] \in Nat \ {0}

VARIABLES
    part,               \* the part that moves
    eventq_pending, eventq_free, descriptors, next_ID, now, stack, ran, removed, early, at,
    spec_mode, bugcompat_mode, regs, spec_regs, use_spec, mem, store_htable, free, allocated,
    right_regs, right_mem, want_regs, want_mem, wrote, stores,
    trace_config, arr, sa_recent, bt, plain,
    Line, Again, MAX_LINES, tree, root, slot, tot_addrs, delete_stack, last_inum, overrun, fa_recent,
    mode, first, regs_PC, next_PC, sim_num_insn, access, addr, dlite_bps, break_id, dlite_check,
    dlite_active, dlite_return, break_access, dbreak,
    ptr, flush_on_syscalls, phase, cache, unsaved,
    sym_db, syms_loaded, table, by_name, size, bound

Ev == INSTANCE EventQ WITH allocated <- descriptors
St == INSTANCE SpecState
Ch == INSTANCE Cheetah
Dl == INSTANCE DLite WITH Text <- Code, MAX_ID <- MAX_BREAK
Hi == INSTANCE Hierarchy WITH Text <- TextBlock, Data <- DataBlock
Sy == INSTANCE Symbol WITH Addr <- SymAddr

evVars == <<eventq_pending, eventq_free, descriptors, next_ID, now, stack, ran, removed, early, at>>
stVars == <<spec_mode, bugcompat_mode, regs, spec_regs, use_spec, mem, store_htable, free, allocated,
            right_regs, right_mem, want_regs, want_mem, wrote, stores>>
chVars == <<trace_config, arr, sa_recent, bt, plain,
            Line, Again, MAX_LINES, tree, root, slot, tot_addrs, delete_stack, last_inum, overrun, fa_recent>>
dlVars == <<mode, first, regs_PC, next_PC, sim_num_insn, access, addr, dlite_bps, break_id,
            dlite_check, dlite_active, dlite_return, break_access, dbreak>>
hiVars == <<ptr, flush_on_syscalls, phase, cache, unsaved>>
syVars == <<sym_db, syms_loaded, table, by_name, size, bound>>
vars == <<part, evVars, stVars, chVars, dlVars, hiVars, syVars>>

Init == /\ part \in {"events", "state", "cheetah", "debugger", "caches", "symbols"}
        /\ Ev!Init
        /\ IF part = "state" THEN St!Init ELSE bugcompat_mode = FALSE /\ St!Init
        /\ IF part = "cheetah" THEN Ch!cheetah_init
           ELSE trace_config = "SA" /\ MAX_LINES = 7 /\ Ch!cheetah_init
        /\ trace_config # "FA" => MAX_LINES = 7
        /\ IF part = "debugger" THEN Dl!Init ELSE dlite_active = FALSE /\ Dl!Init
        /\ IF part = "caches" THEN Hi!Init
           ELSE ptr = [c \in Hi!Cache |-> Hi!NULL] /\ flush_on_syscalls = FALSE /\ Hi!Init
        /\ IF part = "symbols" THEN Sy!Init ELSE sym_db = << >> /\ Sy!Init

Next ==
    \/ part = "events" /\ Ev!Next /\ UNCHANGED <<part, stVars, chVars, dlVars, hiVars, syVars>>
    \/ part = "state" /\ St!Next /\ UNCHANGED <<part, evVars, chVars, dlVars, hiVars, syVars>>
    \/ part = "cheetah" /\ Ch!cheetah_access
       /\ UNCHANGED <<part, evVars, stVars, dlVars, hiVars, syVars>>
    \/ part = "debugger" /\ Dl!Next /\ UNCHANGED <<part, evVars, stVars, chVars, hiVars, syVars>>
    \/ part = "caches" /\ Hi!Next /\ UNCHANGED <<part, evVars, stVars, chVars, dlVars, syVars>>
    \/ part = "symbols" /\ Sy!Next /\ UNCHANGED <<part, evVars, stVars, chVars, dlVars, hiVars>>

Spec == Init /\ [][Next]_vars

MCFlag == "f0" :> "f0" @@ "f1" :> "f0"
\* Five lines that all fit, and two traces that fill caches of four and five lines.
MCFaSetup == {[lines |-> 2 .. 6, again |-> 2 .. 6, max |-> 7],
              [lines |-> 2 .. 8, again |-> 2 .. 4, max |-> 4],
              [lines |-> 2 .. 9, again |-> {2, 4}, max |-> 5]}

MCClass == {{"read", "write"}, {"write"}, {"read", "write", "exec"}}
\* A range over code and data, one of counts, and one dlite_rbreak() refuses.
MCRange == {[ptype |-> "addr", etype |-> "addr", start |-> 4, end |-> 6],
            [ptype |-> "inst", etype |-> "inst", start |-> 2, end |-> 3],
            [ptype |-> "cycle", etype |-> "addr", start |-> 1, end |-> 2]}
\* Second-level blocks are twice, pages four times the size of first-level blocks.
MCAssoc == [c \in {"il1", "il2", "dl1", "dl2", "itlb", "dtlb"} |->
             IF c \in {"dl1", "dl2"} THEN 2 ELSE 1]
MCScale == "il1" :> 1 @@ "dl1" :> 1 @@ "il2" :> 2 @@ "dl2" :> 2 @@ "itlb" :> 4 @@ "dtlb" :> 4
MCEnd == "text" :> 2 @@ "data" :> 5

\* eventq_service_events() returns only when nothing due is pending, and runs what
\* it runs in the order of its time, whatever its callbacks do to the queue.
ServicedInOrder == Ev!ServicedInOrder

\* "service all events in order of occurrance until and at NOW" (eventq.h): no event
\* is forgotten.
NoneForgotten == Ev!NoneForgotten

\* eventq.c forgets only events a callback queued at or before the time of the event
\* eventq_service_events() runs it for; every other one is pending, was run once or
\* was removed.
OnceUnlessForgotten == Ev!OnceUnlessForgotten

\* The descriptors eventq.c obtained are free, pending, in use, or gone with a lost event.
DescriptorsConserved == Ev!DescriptorsConserved

\* A load of spec_mem_access() reads what the path so far has stored, where it does
\* not overlap stores of another address or stores narrower than itself only.
LoadsSeeStores == St!LoadsSeeStores

\* A register reads as last written on the path being executed, on either path and
\* after any tracer_recover(), unless only the other one of its pair was written.
RegistersNewest == St!RegistersNewest

\* "speculative copy on write storage provided for fast recovery during wrong path
\* execute" (sim-outorder.c): every register reads as last written on the path.
CopyOnWrite == St!CopyOnWrite

\* spec_mem_access() and tracer_recover() neither lose nor double a hash bucket entry.
BucketsConserved == St!BucketsConserved

\* sacnmul_woarr() counts for every number of sets at once what a simulation of that
\* cache alone would count.
OnePassExact == part = "cheetah" /\ trace_config = "SA" => Ch!Sa!OnePassExact

\* The binomial tree of saclru.c holds the lines of the largest caches, each once.
TreeHoldsCaches == part = "cheetah" /\ trace_config = "SA" => Ch!Sa!TreeHoldsCaches

\* dmvl() counts for every line size at once what a simulation of that direct-mapped
\* cache alone would count.
LineSizesExact == part = "cheetah" /\ trace_config = "DM" => Ch!Dm!LineSizesExact

\* ref_tree() finds the place of a line in the LRU stack, however faclru.c splayed
\* the tree and whatever it deleted from it, as long as its stacks were long enough.
DepthsExact == part = "cheetah" /\ trace_config = "FA" => Ch!Fa!DepthsExact

\* init_faclru() "allocates space for the arrays": the paths ref_tree() and delete()
\* of faclru.c record fit into p_stack and delete_stack.
StacksFit == Ch!Fa!StacksFit

\* The flag dlite_check never hides a breakpoint from the main loop of sim-safe.c,
\* whatever the user set, deleted, cleared and stepped over before.
NoBreakMissed == Dl!NoBreakMissed

\* The prompt of dlite_main() blames the instruction just finished for a data break
\* only when it caused one, or made no reference at all while a breakpoint is on reads
\* of address 0.
ReasonTrue == Dl!ReasonTrue

\* What memory has not received is dirty in the first or second data cache of
\* sim-cache.c, however its levels are unified and evict each other's blocks.
NoWriteLost == part = "caches" => Hi!NoWriteLost

\* With -flush, the system call of sim-cache.c finds every write in memory and leaves
\* no stale data block behind.
FlushSavesAll == Hi!FlushSavesAll

\* sym_bind_addr() binds an address to a symbol nearest before it, also where several
\* symbols share an address, and sym_bind_name() finds a symbol of the name, whenever
\* there is one.
BindsRight == Sy!BindsRight
=============================================================================
