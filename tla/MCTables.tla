------------------------------- MODULE MCTables -------------------------------
(* The cache and the branch predictor, which share no state, one at a time:  *)
(* the cache with the constants of the configuration, the predictor on three *)
(* small programs: conditional branches, branches that share a BTB set, and  *)
(* calls with returns.                                                       *)
EXTENDS Cache

CONSTANTS bimod_size, l1size, l2size, meta_size, shift_width,
          btb_sets, btb_assoc, retstack_size,
          Predictors        \* the setups of the predictor

\* The size conditions of bpred_create() and bpred_dir_create().
ASSUME PredictorAssumption ==
    /\ \A n \in {bimod_size, l1size, l2size, meta_size, btb_sets, btb_assoc} :
          \E k \in 0 .. 16 : n = 2 ^ k
    /\ \E k \in 0 .. 16 : retstack_size \in {0, 2 ^ k}
    /\ shift_width \in 1 .. 30 /\ \A s \in Predictors : s.window \in Nat

VARIABLES
    part,               \* the part that moves
    class, xor, when, window, program, counters, shiftregs, btb_data, lru, stack, tos,
    inflight, used, last, calls, seen

Bp == INSTANCE BPred WITH Setup <- Predictors

bpVars == <<class, xor, when, window, program, counters, shiftregs, btb_data, lru, stack, tos,
            inflight, used, last, calls, seen>>

Branches == {[pc |-> 2, op |-> "cond", to |-> {8}], [pc |-> 3, op |-> "cond", to |-> {8}]}
Jumps == {[pc |-> 2, op |-> "jr", to |-> {8, 9}], [pc |-> 4, op |-> "jr", to |-> {9}],
          [pc |-> 6, op |-> "cond", to |-> {9}]}
Calls == {[pc |-> 2, op |-> "jal", to |-> {8}], [pc |-> 4, op |-> "jalr", to |-> {8, 9}],
          [pc |-> 8, op |-> "ret", to |-> {3, 5}]}

MCPredictors ==
    [class : {"comb"}, xor : BOOLEAN, when : {"now"}, window : {0}, program : {Branches}]
    \cup {[class |-> "comb", xor |-> TRUE, when |-> "WB", window |-> 2, program |-> Branches],
          [class |-> "2lev", xor |-> FALSE, when |-> "CT", window |-> 2, program |-> Branches],
          [class |-> "bimod", xor |-> FALSE, when |-> "ID", window |-> 2, program |-> Branches]}
    \cup [class : {"bimod"}, xor : {FALSE}, when : {"now", "ID", "WB", "CT"}, window : {2},
          program : {Jumps, Calls}]
    \cup [class : {"bimod"}, xor : {FALSE}, when : {"CT"}, window : {3},
          program : {{b \in Calls : b.op # "jalr"}}]

TablesInit ==
    /\ part \in {"cache", "predictor"}
    /\ IF part = "cache" THEN Init ELSE policy = "LRU" /\ Init
    /\ IF part = "predictor" THEN Bp!Init
       ELSE /\ class = "bimod" /\ xor = FALSE /\ when = "now" /\ program = Jumps
            /\ Bp!Init

TablesNext ==
    /\ UNCHANGED part
    /\ \/ part = "cache" /\ Next /\ UNCHANGED bpVars
       \/ part = "predictor" /\ Bp!Next /\ UNCHANGED vars

TablesSpec == TablesInit /\ [][TablesNext]_<<part, vars, bpVars>>

\* The BTB holds, in the order of its chains, exactly the branches of each set that
\* were last taken, in whatever order and however late bpred_update() is called.
BtbHoldsLastTaken == Bp!BtbHoldsLastTaken

\* Under sim-bpred a BTB entry holds the "last destination of branch when taken".
BtbTargetLast == Bp!BtbTargetLast

\* Under sim-bpred the return address stack holds the last open calls, also after it
\* overflowed and after it underflowed.
StackHoldsCalls == Bp!StackHoldsCalls

\* Unless a call pushed since, bpred_recover() leaves the return address stack as it
\* was before the mispredicted branch, however many wrong path returns popped it.
RecoveryRestoresStack == Bp!RecoveryRestoresStack

\* A bimodal or meta counter of bpred.c whose last two lessons agree predicts them.
CountersLearn == Bp!CountersLearn
=============================================================================
