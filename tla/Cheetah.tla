------------------------------- MODULE Cheetah -------------------------------
(* libcheetah as sim-cheetah uses it: cheetah_init() selects one of the one- *)
(* pass simulators by the cache configuration, cheetah_access() passes every *)
(* address of the trace on to it.  The optimal policies (-Ropt) are left out.*)
(* The options A and B are logarithms of numbers of sets when set-associative*)
(* caches are simulated, and of line sizes when direct-mapped ones are.      *)
EXTENDS Integers

CONSTANTS A, B, C, N,               \* options of libcheetah
          REUSE,                    \* see FacLru
          SaLine, DmLine,           \* lines of the traces
          FaSetup, DUMMY, HASHNO    \* see FacLru

VARIABLES
    trace_config,                   \* "SA", "FA" or "DM"
    arr, sa_recent,                 \* saclru.c
    bt, plain,                      \* dmvl.c
    Line, Again, MAX_LINES, tree, root, slot, tot_addrs, delete_stack, last_inum, overrun,
    fa_recent                       \* faclru.c

saVars == <<arr, sa_recent>>
dmVars == <<bt, plain>>
faVars == <<Line, Again, MAX_LINES, tree, root, slot, tot_addrs, delete_stack, last_inum, overrun,
            fa_recent>>
vars == <<trace_config, saVars, dmVars, faVars>>

Sa == INSTANCE SacLru WITH Line <- SaLine, recent <- sa_recent
Dm == INSTANCE Dmvl WITH NO_LINES <- B - A + 1, SETS1 <- C - B, Address <- DmLine
Fa == INSTANCE FacLru WITH Setup <- FaSetup, recent <- fa_recent

\* cheetah_init(); the statics of the simulators that are not selected stay unused.
cheetah_init ==
    /\ trace_config \in {"SA", "FA", "DM"}
    /\ Sa!Init /\ Dm!Init /\ Fa!Init

cheetah_access ==
    \/ trace_config = "SA" /\ Sa!Next /\ UNCHANGED <<trace_config, dmVars, faVars>>
    \/ trace_config = "FA" /\ Fa!Next /\ UNCHANGED <<trace_config, saVars, dmVars>>
    \/ trace_config = "DM" /\ Dm!Next /\ UNCHANGED <<trace_config, saVars, faVars>>

Spec == cheetah_init /\ [][cheetah_access]_vars
=============================================================================
