------------------------------ MODULE FrontEnd ------------------------------
(* The front end of sim-outorder.c: the fetch unit, the queue of fetched    *)
(* instructions, and the part of ruu_dispatch() that executes instructions  *)
(* and finds out that the fetch unit went the wrong way, either at once (a  *)
(* misfetch, or any wrong turn under perfect prediction) or when the branch *)
(* completes (a misprediction, which starts speculative mode).              *)
(*                                                                          *)
(* `goal' is what the program itself would execute next.  The RUU is open:  *)
(* it may refuse instructions at any time, and a mispredicted branch        *)
(* completes at any later writeback.  What the dynamic predictors answer,   *)
(* and whether the I-cache hits, is open too.                               *)
EXTENDS Integers

CONSTANTS
    ruu_ifq_size, ruu_branch_penalty, fetch_speed, ruu_decode_width,
    ruu_include_spec,
    own_il1,              \* the I-cache and I-TLB are not shared with data
    INST_SIZE, PC_MOD,    \* sizeof(SS_INST_TYPE); addresses are unsigned and wrap
    Text,                 \* addresses of the program's instructions
    Prog,                 \* Prog[pc]: its operation and, if direct, its target
    MissLat               \* latencies of I-cache and I-TLB misses

Op == {"alu", "nop", "trap", "branch", "jump", "jr"}
F_CTRL   == {"branch", "jump", "jr"}
F_UNCOND == {"jump", "jr"}
F_DIRJMP == {"branch", "jump"}
PC == 0 .. PC_MOD - 1
After(pc) == (pc + INST_SIZE) % PC_MOD

ASSUME FrontEndAssumption ==
    /\ {ruu_ifq_size, ruu_branch_penalty, fetch_speed, ruu_decode_width}
          \subseteq Nat \ {0}
    /\ ruu_include_spec \in BOOLEAN /\ own_il1 \in BOOLEAN
    /\ INST_SIZE \in Nat \ {0} /\ PC_MOD \in Nat \ {0}
    /\ Text \subseteq PC \ {0} /\ {0, 1} \subseteq PC
    /\ Prog \in [Text -> [op : Op, target : PC]]
    /\ MissLat \subseteq Nat \ {0}

VARIABLES
    stage,                \* which stage of sim_main() runs
    pred_type,            \* option -bpred
    fetch_data, fetch_head, fetch_tail, fetch_num,
    fetch_regs_PC, fetch_pred_PC, ruu_fetch_issue_delay,
    spec_mode, recover_PC,
    n, branch_cnt,        \* n_dispatched of ruu_dispatch(), i of ruu_fetch()
    arriving,             \* address whose miss the fetch unit waited for, 0: none
    goal,                 \* history: what the program executes next
    beat                  \* history: flips when the program takes a step

queueVars == <<fetch_data, fetch_head, fetch_tail, fetch_num>>
fetchVars == <<fetch_regs_PC, fetch_pred_PC, ruu_fetch_issue_delay, arriving>>
pathVars  == <<spec_mode, recover_PC, goal, beat>>
vars == <<stage, pred_type, queueVars, fetchVars, pathVars, n, branch_cnt>>

Slot == 0 .. ruu_ifq_size - 1
FetchRec == [op : Op, regs_PC : PC, pred_PC : PC]
bandwidth == ruu_decode_width * fetch_speed

Init ==
    /\ stage = "writeback"
    /\ pred_type \in {"perfect", "taken", "nottaken", "dynamic"}
    /\ fetch_data = [i \in Slot |-> [op |-> "nop", regs_PC |-> 0, pred_PC |-> 0]]
    /\ fetch_head = 0 /\ fetch_tail = 0 /\ fetch_num = 0
    /\ goal \in Text /\ fetch_pred_PC = goal          \* ld_prog_entry
    /\ fetch_regs_PC = (goal + PC_MOD - INST_SIZE) % PC_MOD
    /\ ruu_fetch_issue_delay = 0 /\ arriving = 0
    /\ spec_mode = FALSE /\ recover_PC = 0 /\ beat = 0
    /\ n = 0 /\ branch_cnt = 0
-----------------------------------------------------------------------------
(* ruu_writeback(): the mispredicted branch may complete.                  *)

\* Mutant: the fetched wrong path stays in the queue.
RecoverKeepingQueue ==
    /\ stage = "writeback" /\ spec_mode
    /\ spec_mode' = FALSE
    /\ fetch_regs_PC' = recover_PC /\ fetch_pred_PC' = recover_PC
    /\ ruu_fetch_issue_delay' = ruu_branch_penalty /\ arriving' = 0
    /\ stage' = "dispatch"
    /\ UNCHANGED <<pred_type, queueVars, recover_PC, n, branch_cnt, goal, beat>>

\* tracer_recover(), and the stall of the fetch unit.
Recover ==
    /\ stage = "writeback" /\ spec_mode
    /\ spec_mode' = FALSE
    /\ fetch_num' = 0 /\ fetch_tail' = 0 /\ fetch_head' = 0
    /\ fetch_regs_PC' = recover_PC /\ fetch_pred_PC' = recover_PC
    /\ ruu_fetch_issue_delay' = ruu_branch_penalty /\ arriving' = 0
    /\ stage' = "dispatch"
    /\ UNCHANGED <<pred_type, fetch_data, recover_PC, n, branch_cnt, goal, beat>>

NoRecovery ==
    /\ stage = "writeback" /\ stage' = "dispatch"
    /\ UNCHANGED <<pred_type, queueVars, fetchVars, pathVars, n, branch_cnt>>
-----------------------------------------------------------------------------
(* ruu_dispatch().                                                         *)

\* Where an instruction may go: a program stays inside its text, a wrong path
\* may take an indirect jump anywhere.
NextPC(e) ==
    CASE e.op = "branch" -> {After(e.regs_PC), Prog[e.regs_PC].target}
      [] e.op = "jump"   -> {Prog[e.regs_PC].target}
      [] e.op = "jr"     -> IF spec_mode THEN PC ELSE Text
      [] OTHER           -> {After(e.regs_PC)}

br_pred_taken(e) == e.pred_PC # After(e.regs_PC)

\* The wrong turn is repaired at once.
Redirect(e, next) ==
    \/ e.pred_PC # next /\ pred_type = "perfect"
    \/ e.op \in F_DIRJMP /\ Prog[e.regs_PC].target # e.pred_PC /\ br_pred_taken(e)

\* Mutant: the redirected queue is emptied but its tail is not moved.
ConsumeBadly(redirect) ==
    /\ fetch_head' = IF redirect THEN 0 ELSE (fetch_head + 1) % ruu_ifq_size
    /\ fetch_num'  = IF redirect THEN 0 ELSE fetch_num - 1
    /\ fetch_tail' = fetch_tail

\* The instruction leaves the queue; a redirection throws the rest away by
\* making it the only entry first (head = size - 1, num = 1, tail = 0).
Consume(redirect) ==
    LET head == IF redirect THEN ruu_ifq_size - 1 ELSE fetch_head
        num  == IF redirect THEN 1 ELSE fetch_num
    IN /\ fetch_head' = (head + 1) % ruu_ifq_size
       /\ fetch_num'  = num - 1
       /\ fetch_tail' = IF redirect THEN 0 ELSE fetch_tail

\* A trap is dispatched into an empty RUU, which is not speculative (module
\* Ruu, NoPanic).
CanDispatch(e) ==
    /\ stage = "dispatch" /\ n < bandwidth /\ fetch_num # 0
    /\ ruu_include_spec \/ ~spec_mode
    /\ e.op = "trap" => ~spec_mode

Dispatch ==
    LET e == fetch_data[fetch_head] IN
    /\ CanDispatch(e)
    /\ \E next \in NextPC(e) :
         LET redirect == Redirect(e, next)
             wrong    == ~spec_mode /\ e.pred_PC # next /\ ~redirect
         IN /\ ~spec_mode => next \in Text
            /\ IF redirect
               THEN /\ fetch_pred_PC' = next /\ fetch_regs_PC' = next /\ arriving' = 0
                    /\ ruu_fetch_issue_delay' =
                          IF pred_type = "perfect" THEN ruu_fetch_issue_delay
                          ELSE ruu_branch_penalty
               ELSE UNCHANGED fetchVars
            /\ Consume(redirect)
            /\ spec_mode' = (spec_mode \/ wrong)
            /\ recover_PC' = IF wrong THEN next ELSE recover_PC
            /\ IF spec_mode THEN UNCHANGED <<goal, beat>>
                            ELSE goal' = next /\ beat' = 1 - beat
    /\ n' = IF e.op = "nop" THEN n ELSE n + 1
    /\ UNCHANGED <<stage, pred_type, fetch_data, branch_cnt>>

\* The loop's guard fails, or the RUU or LSQ has no room.
DispatchDone ==
    /\ stage = "dispatch" /\ stage' = "fetch"
    /\ n' = 0 /\ branch_cnt' = 0
    /\ UNCHANGED <<pred_type, queueVars, fetchVars, pathVars>>
-----------------------------------------------------------------------------
(* ruu_fetch().                                                            *)

\* What bpred_lookup() may return: 0 for not taken, 1 for taken to an unknown
\* target.  The fetch unit does not compute targets and passes 0 for them.
bpred_lookup(op, pc) ==
    CASE pred_type = "dynamic"  -> PC
      [] pred_type = "nottaken" -> IF op \in F_UNCOND THEN {0} ELSE {After(pc)}
      [] OTHER                  -> {0}

Fetching ==
    /\ stage = "fetch" /\ ruu_fetch_issue_delay = 0
    /\ n < bandwidth /\ fetch_num < ruu_ifq_size /\ branch_cnt < fetch_speed

NextCycle == stage' = "writeback" /\ n' = 0 /\ branch_cnt' = 0

\* The I-cache or the I-TLB misses: try again once the block is there.  Data
\* accesses to a shared cache may have replaced it by then.
FetchMiss(lat) ==
    /\ Fetching /\ fetch_pred_PC \in Text
    /\ own_il1 => fetch_pred_PC # arriving
    /\ fetch_regs_PC' = fetch_pred_PC /\ arriving' = fetch_pred_PC
    /\ ruu_fetch_issue_delay' = lat - 1            \* the delay was 0
    /\ NextCycle
    /\ UNCHANGED <<pred_type, queueVars, fetch_pred_PC, pathVars>>

\* Mutant: the queue entry keeps the address fetched before.
StaleEntry(op, next) == [op |-> op, regs_PC |-> fetch_regs_PC, pred_PC |-> next]

Fetched(op, next) == [op |-> op, regs_PC |-> fetch_pred_PC, pred_PC |-> next]

\* An instruction, a NOP for an address that is none, enters the queue.
Fetch(raw) ==
    LET pc   == fetch_pred_PC
        op   == IF pc \in Text THEN Prog[pc].op ELSE "nop"
        next == IF raw = 0 THEN After(pc) ELSE raw
    IN /\ Fetching
       /\ raw \in (IF pred_type # "perfect" /\ op \in F_CTRL
                   THEN bpred_lookup(op, pc) ELSE {0})
       /\ fetch_data' = [fetch_data EXCEPT ![fetch_tail] = Fetched(op, next)]
       /\ fetch_regs_PC' = pc /\ fetch_pred_PC' = next
       /\ branch_cnt' = IF raw = 0 THEN branch_cnt ELSE branch_cnt + 1
       /\ fetch_tail' = (fetch_tail + 1) % ruu_ifq_size
       /\ fetch_num' = fetch_num + 1
       /\ arriving' = 0 /\ n' = n + 1
       /\ UNCHANGED <<stage, pred_type, fetch_head, ruu_fetch_issue_delay, pathVars>>

\* Mutant: the stall is not counted down.
FetchStuck ==
    /\ stage = "fetch" /\ ~Fetching
    /\ NextCycle
    /\ UNCHANGED <<pred_type, queueVars, fetchVars, pathVars>>

FetchDone ==
    /\ stage = "fetch" /\ ~Fetching
    /\ ruu_fetch_issue_delay' =
          IF ruu_fetch_issue_delay > 0 THEN ruu_fetch_issue_delay - 1 ELSE 0
    /\ NextCycle
    /\ UNCHANGED <<pred_type, queueVars, fetch_regs_PC, fetch_pred_PC, arriving, pathVars>>

Next ==
    \/ Recover \/ NoRecovery
    \/ Dispatch \/ DispatchDone
    \/ \E lat \in MissLat : FetchMiss(lat)
    \/ \E raw \in PC : Fetch(raw)
    \/ FetchDone

Spec == Init /\ [][Next]_vars

\* The main loop never stops; the RUU always has room again (module Ruu,
\* WindowDrains) and completes mispredicted branches (SpeculationEnds).
FairSpec == Spec /\ WF_vars(Next) /\ SF_vars(Recover) /\ SF_vars(Dispatch)
-----------------------------------------------------------------------------
(* Properties.                                                             *)

\* Type invariant: queue indices inside fetch_data, addresses of their width.
TypeOK ==
    /\ stage \in {"writeback", "dispatch", "fetch"}
    /\ pred_type \in {"perfect", "taken", "nottaken", "dynamic"}
    /\ fetch_data \in [Slot -> FetchRec]
    /\ fetch_head \in Slot /\ fetch_tail \in Slot /\ fetch_num \in 0 .. ruu_ifq_size
    /\ fetch_regs_PC \in PC /\ fetch_pred_PC \in PC /\ recover_PC \in PC
    /\ arriving \in PC /\ goal \in PC
    /\ ruu_fetch_issue_delay \in Nat /\ n \in Nat /\ branch_cnt \in Nat
    /\ spec_mode \in BOOLEAN /\ beat \in {0, 1}

Entry(k) == fetch_data[(fetch_head + k) % ruu_ifq_size]
\* The address the entry behind the first k has, or will have once fetched.
Following(k) == IF k < fetch_num THEN Entry(k).regs_PC ELSE fetch_pred_PC

\* The queue between ruu_fetch() and ruu_dispatch() is one unbroken path: its
\* count fits its pointers, each entry is the predicted successor of the one
\* before it, and the fetch unit continues behind the last one, through
\* misfetches and recoveries that rewrite the pointers in mid loop.
OnePath ==
    /\ (fetch_head + fetch_num) % ruu_ifq_size = fetch_tail
    /\ \A k \in 0 .. fetch_num - 1 : Entry(k).pred_PC = Following(k + 1)

\* sim-outorder executes the program: outside speculative mode the instruction
\* ruu_dispatch() takes next is the one the program executes next, whatever was
\* predicted, fetched and thrown away, and in speculative mode recover_PC, where
\* tracer_recover() sends the fetch unit, is.
RightPath ==
    IF spec_mode THEN recover_PC = goal ELSE Following(0) = goal

\* A NOP gets no RUU station (rs = NULL), and ruu_dispatch() writes
\* rs->recover_inst when it enters speculative mode: only a control transfer
\* can be followed by another instruction than its successor.
OnlyBranchesMispredict ==
    \A k \in 0 .. fetch_num - 1 :
       /\ Entry(k).op \notin F_CTRL => Entry(k).pred_PC = After(Entry(k).regs_PC)
       /\ ~spec_mode /\ k = 0 => Entry(k).regs_PC \in Text

\* Perfect prediction never lets the simulator leave the program's path ("we're
\* simulating perfect prediction and are in a mis-predict state and need to
\* patch up").
PerfectNeverSpeculates == pred_type = "perfect" => ~spec_mode

\* The program always advances: no sequence of misfetches, mispredictions,
\* I-cache misses and fetch stalls keeps the front end from delivering the next
\* instruction of the program.
Advances == (beat = 0 ~> beat = 1) /\ (beat = 1 ~> beat = 0)

\* "BPredTaken: static predict branch taken": with -bpred taken the fetch unit
\* does not continue behind a branch.
StaticTaken ==
    pred_type = "taken" => \A k \in 0 .. fetch_num - 1 :
       Entry(k).op \in F_CTRL => br_pred_taken(Entry(k))
=============================================================================
