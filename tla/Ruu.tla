--------------------------------- MODULE Ruu ---------------------------------
(***************************************************************************)
(* The out-of-order core of sim-outorder.c: the register update unit       *)
(* (RUU), the load/store queue (LSQ), the create vector that names the     *)
(* producer of every register, the output dependence chains that wake up   *)
(* consumers, the ready queue and the event queue, and the pipeline stages *)
(* sim_main() runs over them every cycle, in its (reverse) order:          *)
(*                                                                         *)
(*   commit  release_fu  writeback  [refresh  issue]  dispatch             *)
(*                                           [refresh  issue if bugcompat] *)
(*                                                                         *)
(* A loop of a stage is one action per iteration; `stage' says which loop  *)
(* the simulator is in, so the iterations of a stage cannot be interleaved *)
(* with another stage.  The values instructions compute are not modelled.  *)
(* What the caches, the branch predictor and the fetch queue answer (the   *)
(* latency of a load, whether a control transfer was predicted right,      *)
(* whether there is an instruction to dispatch) is left open.              *)
(***************************************************************************)
EXTENDS Integers, Sequences, FiniteSets

CONSTANTS
    RUU_size, LSQ_size,                                  \* ring sizes
    ruu_commit_width, ruu_issue_width, ruu_decode_width, \* bandwidths (decode
                                          \* is ruu_decode_width * fetch_speed)
    ruu_inorder_issue,    \* BOOLEAN, option -issue:inorder
    ruu_include_spec,     \* BOOLEAN, option -issue:wrongpath
    bugcompat_mode,       \* BOOLEAN, option -bugcompat
    TAG_MOD, SEQ_MOD,     \* tags and inst_seq are unsigned and wrap modulo
                          \* these (2^32 in the code)
    NumRegs,              \* architected registers are 1 .. NumRegs
    Addr,                 \* effective addresses
    Insts,                \* decoded instructions the program may execute
    Unit, fu_table,       \* functional units; class -> its res_templates
    CacheLat, TlbLat,     \* latencies D-cache and D-TLB may answer a load
    MaxInsts, Endless     \* bound: instructions dispatched in a behaviour,
                          \* unless Endless

NA   == 0                 \* "no register", DNA
DTMP == NumRegs + 1       \* carries an effective address to its load/store
Reg  == 0 .. DTMP

Op      == {"alu", "mul", "div", "ctrl", "jump", "load", "store", "trap"}
F_CTRL  == {"ctrl", "jump"}
F_MEM   == {"load", "store"}
F_LONGLAT == {"mul", "div"}
FuClass == {"IntALU", "IntMULT", "IntDIV", "RdPort", "WrPort"}

\* The functional unit class of an operation; "agen" is the ADD that computes
\* the effective address of a load or a store; jumps and traps need no unit, "NA".
SS_OP_FUCLASS(op) ==
    CASE op \in {"alu", "agen", "ctrl"} -> "IntALU"
      [] op = "mul"   -> "IntMULT"
      [] op = "div"   -> "IntDIV"
      [] op = "load"  -> "RdPort"
      [] op = "store" -> "WrPort"
      [] OTHER        -> "NA"

Ideps == 0 .. 2           \* MAX_IDEPS
Odeps == 0 .. 1           \* MAX_ODEPS
STORE_OP_INDEX   == 0
STORE_ADDR_INDEX == 1

InstType == [op : Op, in : [Ideps -> 0 .. NumRegs],
             out : [Odeps -> 0 .. NumRegs], addr : Addr]
Template == [unit : Unit, oplat : Nat \ {0}, issuelat : Nat \ {0}]

\* What sim_check_options() and fu_config guarantee.
ASSUME SizesAssumption ==
    /\ RUU_size \in Nat \ {0, 1} /\ LSQ_size \in Nat \ {0, 1}
    /\ {ruu_commit_width, ruu_issue_width, ruu_decode_width} \subseteq Nat \ {0}
    /\ {ruu_inorder_issue, ruu_include_spec, bugcompat_mode} \subseteq BOOLEAN
    /\ NumRegs \in Nat
    /\ TAG_MOD \in Nat \ {0} /\ SEQ_MOD \in Nat \ {0}
ASSUME InstsAssumption == Insts \subseteq InstType /\ 0 \in Addr
ASSUME UnitsAssumption ==
    /\ fu_table \in [FuClass -> Seq(Template)]
    /\ CacheLat \subseteq Nat \ {0} /\ CacheLat # {}
    /\ TlbLat \subseteq Nat \ {0} /\ TlbLat # {}
ASSUME BoundAssumption == MaxInsts \in Nat /\ Endless \in BOOLEAN

Station == ({"RUU"} \X (0 .. RUU_size - 1)) \cup ({"LSQ"} \X (0 .. LSQ_size - 1))
R(i) == <<"RUU", i>>
L(i) == <<"LSQ", i>>
InLSQ(s) == s[1] = "LSQ"  \* rs->in_LSQ
NULL == <<"NULL", 0>>

Stage == {"commit", "writeback", "recover", "broadcast", "refresh", "issue",
          "dispatch"}

VARIABLES
    stage,                          \* the loop sim_main() is in
    RUU_head, RUU_tail, RUU_num,
    LSQ_head, LSQ_tail, LSQ_num,
    rs,                             \* the stations of the RUU and the LSQ
    create_vector, spec_create_vector, use_spec_cv,
    event_queue, ready_queue,
    rslink_used,                    \* RS_links taken from the free list
    busy,                           \* cycles each functional unit is busy
    spec_mode, inst_seq, last_op,
    fuel,                           \* bound: instructions left to dispatch
    n,         \* committed, i of lsq_refresh(), n_issued, n_dispatched
    cur, onum, \* station writeback completes, and the output it broadcasts
    std_unknowns,                   \* local array of lsq_refresh()
    node                            \* ruu_issue()'s copy of the ready queue

ruuVars  == <<RUU_head, RUU_tail, RUU_num>>
lsqVars  == <<LSQ_head, LSQ_tail, LSQ_num>>
cvVars   == <<create_vector, spec_create_vector, use_spec_cv>>
dispVars == <<inst_seq, last_op, fuel>>
wbVars   == <<cur, onum>>
vars == <<stage, ruuVars, lsqVars, rs, cvVars, event_queue, ready_queue,
          rslink_used, busy, spec_mode, dispVars, n, wbVars, std_unknowns, node>>

OdepLink == [rs : Station, tag : Nat, opnum : Ideps]
StationType ==
    [op : Op \cup {"agen", "none"}, ea_comp : BOOLEAN, recover_inst : BOOLEAN,
     spec_mode : BOOLEAN, addr : Addr, tag : Nat, seq : Nat, queued : BOOLEAN,
     issued : BOOLEAN, completed : BOOLEAN, onames : [Odeps -> Reg],
     odep_list : [Odeps -> Seq(OdepLink)],
     idep_ready : [Ideps -> BOOLEAN]]
CvLink    == [rs : Station \cup {NULL}, odep_num : Odeps]
Event     == [rs : Station, tag : Nat, wait : Int]
ReadyNode == [rs : Station, tag : Nat, seq : Nat]

CVLINK_NULL == [rs |-> NULL, odep_num |-> 0]
RSLINK_NULL == [rs |-> NULL, tag |-> 0]

Init ==
    /\ stage = "commit"
    /\ RUU_head = 0 /\ RUU_tail = 0 /\ RUU_num = 0
    /\ LSQ_head = 0 /\ LSQ_tail = 0 /\ LSQ_num = 0
    /\ rs = [s \in Station |->
               [op |-> "none", ea_comp |-> FALSE, recover_inst |-> FALSE,
                spec_mode |-> FALSE, addr |-> 0, tag |-> 0, seq |-> 0,
                queued |-> FALSE, issued |-> FALSE, completed |-> FALSE,
                onames |-> [i \in Odeps |-> NA],
                odep_list |-> [i \in Odeps |-> << >>],
                idep_ready |-> [i \in Ideps |-> FALSE]]]
    /\ create_vector = [r \in Reg |-> CVLINK_NULL]
    /\ spec_create_vector = [r \in Reg |-> CVLINK_NULL]
    /\ use_spec_cv = {}
    /\ event_queue = << >> /\ ready_queue = << >>
    /\ rslink_used = 0
    /\ busy = [u \in Unit |-> 0]
    /\ spec_mode = FALSE /\ inst_seq = 0 /\ last_op = RSLINK_NULL
    /\ fuel = MaxInsts
    /\ n = 0 /\ cur = R(0) /\ onum = 0
    /\ std_unknowns = << >> /\ node = << >>

-----------------------------------------------------------------------------
(* Links, queues and the functional unit pool.                             *)

NextTag(tag) == (tag + 1) % TAG_MOD      \* tag++: the instance is gone
\* Mutant: a link is trusted without comparing its tag.
RSLINK_TRUSTED(link) == link.rs \in Station
RSLINK_VALID(link) == link.tag = rs[link.rs].tag
OPERANDS_READY(s)  == \A k \in Ideps : rs[s].idep_ready[k]
IsStore(s) == InLSQ(s) /\ rs[s].op = "store"
IsLoad(s)  == InLSQ(s) /\ rs[s].op = "load"

\* q with e linked in behind its first k elements.
InsertAfter(q, k, e) == SubSeq(q, 1, k) \o <<e>> \o SubSeq(q, k + 1, Len(q))

\* The place (one number) eventq_queue_event() finds for an event `wait'
\* cycles ahead: before the first event that is not earlier.
EventPlace(wait) ==
    {k \in 0 .. Len(event_queue) :
        /\ \A i \in 1 .. k : event_queue[i].wait < wait
        /\ k < Len(event_queue) => event_queue[k + 1].wait >= wait}

\* Event times are kept relative to sim_cycle: wait = when - sim_cycle.
eventq_queue_event(s, wait) ==
    \E k \in EventPlace(wait) :
        event_queue' = InsertAfter(event_queue, k,
                          [rs |-> s, tag |-> rs[s].tag, wait |-> wait])

\* The place readyq_enqueue() finds in q for an operation op with number seq:
\* memory, long latency and control operations go to the head, the others
\* before the first node that is not older.
ReadyPlace(q, s, op, seq) ==
    {k \in 0 .. Len(q) :
        IF InLSQ(s) \/ op \in F_LONGLAT \cup F_CTRL THEN k = 0
        ELSE /\ \A i \in 1 .. k : q[i].seq < seq
             /\ k < Len(q) => q[k + 1].seq >= seq}

\* The queue part of readyq_enqueue(); the caller sets the station's queued.
readyq_enqueue(s, op, seq) ==
    \E k \in ReadyPlace(ready_queue, s, op, seq) :
        ready_queue' = InsertAfter(ready_queue, k,
                          [rs |-> s, tag |-> rs[s].tag, seq |-> seq])

\* The first free template of a class, as a set: empty when all are busy.
res_get(class) ==
    LET plates == fu_table[class] IN
    {plates[i] : i \in {j \in 1 .. Len(plates) :
                          /\ busy[plates[j].unit] = 0
                          /\ \A k \in 1 .. j - 1 : busy[plates[k].unit] # 0}}

-----------------------------------------------------------------------------
(* ruu_commit(), then ruu_release_fu().                                    *)

\* Mutant: retire an address computation whose access has not completed.
CommitUnfinishedAccess ==
    /\ RUU_num > 0 /\ n < ruu_commit_width
    /\ rs[R(RUU_head)].completed
    /\ rs[R(RUU_head)].ea_comp /\ rs[L(LSQ_head)].op = "store" =>
          res_get("WrPort") # {}

CommitReady ==
    /\ RUU_num > 0 /\ n < ruu_commit_width
    /\ rs[R(RUU_head)].completed
    /\ rs[R(RUU_head)].ea_comp =>
          /\ rs[L(LSQ_head)].completed
          /\ rs[L(LSQ_head)].op = "store" => res_get("WrPort") # {}

CommitOther ==
    /\ stage = "commit" /\ CommitReady /\ ~rs[R(RUU_head)].ea_comp
    /\ rs' = [rs EXCEPT ![R(RUU_head)].tag = NextTag(@)]
    /\ RUU_head' = (RUU_head + 1) % RUU_size /\ RUU_num' = RUU_num - 1
    /\ n' = n + 1
    /\ UNCHANGED <<stage, RUU_tail, lsqVars, cvVars, event_queue, ready_queue,
                   rslink_used, busy, spec_mode, dispVars, wbVars,
                   std_unknowns, node>>

\* A load or store retires the head of the LSQ too; a store needs a port.
CommitMem ==
    /\ stage = "commit" /\ CommitReady /\ rs[R(RUU_head)].ea_comp
    /\ IF rs[L(LSQ_head)].op = "store"
       THEN \E fu \in res_get("WrPort") :
               busy' = [busy EXCEPT ![fu.unit] = fu.issuelat]
       ELSE busy' = busy
    /\ rs' = [rs EXCEPT ![R(RUU_head)].tag = NextTag(@),
                        ![L(LSQ_head)].tag = NextTag(@)]
    /\ RUU_head' = (RUU_head + 1) % RUU_size /\ RUU_num' = RUU_num - 1
    /\ LSQ_head' = (LSQ_head + 1) % LSQ_size /\ LSQ_num' = LSQ_num - 1
    /\ n' = n + 1
    /\ UNCHANGED <<stage, RUU_tail, LSQ_tail, cvVars, event_queue, ready_queue,
                   rslink_used, spec_mode, dispVars, wbVars, std_unknowns, node>>

\* Mutant: never count down.
release_no_fu ==
    /\ stage = "commit" /\ ~CommitReady
    /\ stage' = "writeback"
    /\ UNCHANGED <<ruuVars, lsqVars, rs, cvVars, event_queue, ready_queue,
                   rslink_used, busy, spec_mode, dispVars, n, wbVars,
                   std_unknowns, node>>

ruu_release_fu ==
    /\ stage = "commit" /\ ~CommitReady
    /\ busy' = [u \in Unit |-> IF busy[u] > 0 THEN busy[u] - 1 ELSE busy[u]]
    /\ stage' = "writeback"
    /\ UNCHANGED <<ruuVars, lsqVars, rs, cvVars, event_queue, ready_queue,
                   rslink_used, spec_mode, dispVars, n, wbVars, std_unknowns,
                   node>>

-----------------------------------------------------------------------------
(* ruu_writeback(), with ruu_recover() and tracer_recover().               *)

EventDue == event_queue # << >> /\ Head(event_queue).wait <= 0

\* eventq_next_event() drops the event of a squashed operation.
WritebackSquashed ==
    /\ stage = "writeback" /\ EventDue /\ ~RSLINK_VALID(Head(event_queue))
    /\ event_queue' = Tail(event_queue) /\ rslink_used' = rslink_used - 1
    /\ UNCHANGED <<stage, ruuVars, lsqVars, rs, cvVars, ready_queue, busy,
                   spec_mode, dispVars, n, wbVars, std_unknowns, node>>

\* Mutant: clear the entries of s even when a later operation has taken over.
CreatorForgotten(cv, s) ==
    [r \in Reg |-> IF r # NA /\ \E o \in Odeps : rs[s].onames[o] = r
                   THEN CVLINK_NULL ELSE cv[r]]

\* cv without the entries that still name s as the creator of its outputs.
CreatorDone(cv, s) ==
    [r \in Reg |-> IF /\ r # NA /\ cv[r].rs = s
                      /\ rs[s].onames[cv[r].odep_num] = r
                   THEN CVLINK_NULL ELSE cv[r]]

\* What ruu_writeback() demands of an operation whose event has come; it panics
\* "inst completed and !ready, !issued, or completed" or "mis-predicted load or
\* store?!?!?" otherwise (see NoPanic).
Completable(s) ==
    /\ OPERANDS_READY(s) /\ ~rs[s].queued /\ rs[s].issued /\ ~rs[s].completed
    /\ rs[s].recover_inst => ~InLSQ(s)

\* The operation completes.  The create vector entries it owns are cleared
\* here, for both outputs, before a recovery and before the chains are walked:
\* neither of the two reads or writes them.
WritebackEvent ==
    /\ stage = "writeback" /\ EventDue /\ RSLINK_VALID(Head(event_queue))
    /\ LET s == Head(event_queue).rs IN
       /\ Completable(s)
       /\ rs' = [rs EXCEPT ![s].completed = TRUE]
       /\ cur' = s /\ onum' = 0
       /\ stage' = IF rs[s].recover_inst THEN "recover" ELSE "broadcast"
       /\ IF rs[s].spec_mode
          THEN /\ spec_create_vector' = CreatorDone(spec_create_vector, s)
               /\ create_vector' = create_vector
          ELSE /\ create_vector' = CreatorDone(create_vector, s)
               /\ spec_create_vector' = spec_create_vector
    /\ event_queue' = Tail(event_queue) /\ rslink_used' = rslink_used - 1
    /\ UNCHANGED <<ruuVars, lsqVars, use_spec_cv, ready_queue, busy, spec_mode,
                   dispVars, n, std_unknowns, node>>

RUU_index == (RUU_tail + (RUU_size - 1)) % RUU_size
LSQ_index == (LSQ_tail + (LSQ_size - 1)) % LSQ_size
\* Mutant: the chains of a squashed operation are not freed.
NoLinks(s) == 0
NumLinks(s) == Len(rs[s].odep_list[0]) + Len(rs[s].odep_list[1])
\* Mutant: a squashed operation keeps its tag.
SquashSilently(st) == [st EXCEPT !.odep_list = [i \in Odeps |-> << >>]]
Squash(st) == [st EXCEPT !.tag = NextTag(@), !.odep_list = [i \in Odeps |-> << >>]]

\* One step of ruu_recover(): squash the youngest operation.
RecoverOther ==
    /\ stage = "recover" /\ R(RUU_index) # cur /\ ~rs[R(RUU_index)].ea_comp
    /\ rs' = [rs EXCEPT ![R(RUU_index)] = Squash(@)]
    /\ rslink_used' = rslink_used - NumLinks(R(RUU_index))
    /\ RUU_tail' = RUU_index /\ RUU_num' = RUU_num - 1
    /\ UNCHANGED <<stage, RUU_head, lsqVars, cvVars, event_queue, ready_queue,
                   busy, spec_mode, dispVars, n, wbVars, std_unknowns, node>>

RecoverMem ==
    /\ stage = "recover" /\ R(RUU_index) # cur /\ rs[R(RUU_index)].ea_comp
    /\ rs' = [rs EXCEPT ![R(RUU_index)] = Squash(@), ![L(LSQ_index)] = Squash(@)]
    /\ rslink_used' = rslink_used - NumLinks(R(RUU_index)) - NumLinks(L(LSQ_index))
    /\ RUU_tail' = RUU_index /\ RUU_num' = RUU_num - 1
    /\ LSQ_tail' = LSQ_index /\ LSQ_num' = LSQ_num - 1
    /\ UNCHANGED <<stage, RUU_head, LSQ_head, cvVars, event_queue, ready_queue,
                   busy, spec_mode, dispVars, n, wbVars, std_unknowns, node>>

\* Mutant: recovery does not leave speculative mode.
RecoverForever ==
    /\ stage = "recover" /\ R(RUU_index) = cur
    /\ use_spec_cv' = {} /\ stage' = "broadcast"
    /\ UNCHANGED <<ruuVars, lsqVars, rs, create_vector, spec_create_vector,
                   event_queue, ready_queue, rslink_used, busy, spec_mode,
                   dispVars, n, wbVars, std_unknowns, node>>

\* The walk met the branch: drop the speculative create vector and leave
\* speculative mode (tracer_recover()), then broadcast the branch's results.
RecoverDone ==
    /\ stage = "recover" /\ R(RUU_index) = cur
    /\ use_spec_cv' = {} /\ spec_mode' = FALSE /\ stage' = "broadcast"
    /\ UNCHANGED <<ruuVars, lsqVars, rs, create_vector, spec_create_vector,
                   event_queue, ready_queue, rslink_used, busy, dispVars, n,
                   wbVars, std_unknowns, node>>

\* What is left of the output chain being walked (only an output with a name
\* has one), and the stations without its first link.
Chain ==
    IF rs[cur].onames[onum] = NA THEN << >> ELSE rs[cur].odep_list[onum]
Walked == [rs EXCEPT ![cur].odep_list[onum] = Tail(Chain)]

BroadcastSquashed ==
    /\ stage = "broadcast" /\ Chain # << >> /\ ~RSLINK_VALID(Head(Chain))
    /\ rs' = Walked /\ rslink_used' = rslink_used - 1
    /\ UNCHANGED <<stage, ruuVars, lsqVars, cvVars, event_queue, ready_queue,
                   busy, spec_mode, dispVars, n, wbVars, std_unknowns, node>>

\* Mark the consumer's operand ready; queue it once all its operands are,
\* unless it is a load, which waits for lsq_refresh().
BroadcastWake ==
    /\ stage = "broadcast" /\ Chain # << >> /\ RSLINK_VALID(Head(Chain))
    /\ LET c == Head(Chain).rs
           k == Head(Chain).opnum
           wake == /\ \A j \in Ideps \ {k} : rs[c].idep_ready[j]
                   /\ ~IsLoad(c)
       IN /\ rs' = [Walked EXCEPT ![c].idep_ready[k] = TRUE,
                                  ![c].queued = @ \/ wake]
          /\ IF wake
             THEN /\ readyq_enqueue(c, rs[c].op, rs[c].seq)
                  /\ rslink_used' = rslink_used
             ELSE ready_queue' = ready_queue /\ rslink_used' = rslink_used - 1
    /\ UNCHANGED <<stage, ruuVars, lsqVars, cvVars, event_queue, busy,
                   spec_mode, dispVars, n, wbVars, std_unknowns, node>>

BroadcastNext ==
    /\ stage = "broadcast" /\ Chain = << >>
    /\ IF onum = 0 THEN onum' = 1 /\ stage' = stage
                   ELSE onum' = 0 /\ stage' = "writeback"
    /\ UNCHANGED <<ruuVars, lsqVars, rs, cvVars, event_queue, ready_queue,
                   rslink_used, busy, spec_mode, dispVars, n, cur,
                   std_unknowns, node>>

\* No event is due: go on to lsq_refresh(), or to ruu_dispatch() first when
\* -bugcompat is given.
WritebackDone ==
    /\ stage = "writeback" /\ ~EventDue
    /\ stage' = IF bugcompat_mode THEN "dispatch" ELSE "refresh"
    /\ n' = 0
    /\ UNCHANGED <<ruuVars, lsqVars, rs, cvVars, event_queue, ready_queue,
                   rslink_used, busy, spec_mode, dispVars, wbVars,
                   std_unknowns, node>>

-----------------------------------------------------------------------------
(* lsq_refresh(): n is its i, std_unknowns the addresses of the earlier    *)
(* stores whose data is unknown.                                           *)

Scanned == L((LSQ_head + n) % LSQ_size)
AddrUnknown(s) == IsStore(s) /\ ~rs[s].idep_ready[STORE_ADDR_INDEX]
StdUnknown(s)  == IsStore(s) /\ ~OPERANDS_READY(s)

RefreshStore ==
    /\ stage = "refresh" /\ n < LSQ_num
    /\ IsStore(Scanned) /\ ~AddrUnknown(Scanned)
    /\ std_unknowns' =
          IF StdUnknown(Scanned) THEN Append(std_unknowns, rs[Scanned].addr)
          ELSE [j \in DOMAIN std_unknowns |->    \* a later known store hides it
                  IF std_unknowns[j] = rs[Scanned].addr THEN 0
                  ELSE std_unknowns[j]]
    /\ n' = n + 1
    /\ UNCHANGED <<stage, ruuVars, lsqVars, rs, cvVars, event_queue,
                   ready_queue, rslink_used, busy, spec_mode, dispVars, wbVars,
                   node>>

\* Mutants: a load is queued again after it was issued; a load ignores the
\* stores whose data is unknown.
LoadReadyAgain(s) ==
    /\ ~rs[s].queued /\ ~rs[s].completed /\ OPERANDS_READY(s)
    /\ \A j \in DOMAIN std_unknowns : std_unknowns[j] # rs[s].addr
LoadReadyEarly(s) ==
    /\ ~rs[s].queued /\ ~rs[s].issued /\ ~rs[s].completed /\ OPERANDS_READY(s)

LoadReady(s) ==
    /\ ~rs[s].queued /\ ~rs[s].issued /\ ~rs[s].completed /\ OPERANDS_READY(s)
    /\ \A j \in DOMAIN std_unknowns : std_unknowns[j] # rs[s].addr

RefreshLoad ==
    /\ stage = "refresh" /\ n < LSQ_num /\ IsLoad(Scanned)
    /\ IF LoadReady(Scanned)
       THEN /\ readyq_enqueue(Scanned, rs[Scanned].op, rs[Scanned].seq)
            /\ rs' = [rs EXCEPT ![Scanned].queued = TRUE]
            /\ rslink_used' = rslink_used + 1
       ELSE UNCHANGED <<ready_queue, rs, rslink_used>>
    /\ n' = n + 1
    /\ UNCHANGED <<stage, ruuVars, lsqVars, cvVars, event_queue, busy,
                   spec_mode, dispVars, wbVars, std_unknowns, node>>

\* The scan ends at the tail or at a store with an unknown address; then
\* ruu_issue() takes over the whole ready queue.
RefreshDone ==
    /\ stage = "refresh" /\ (n < LSQ_num => AddrUnknown(Scanned))
    /\ stage' = "issue" /\ n' = 0 /\ std_unknowns' = << >>
    /\ node' = ready_queue /\ ready_queue' = << >>
    /\ UNCHANGED <<ruuVars, lsqVars, rs, cvVars, event_queue, rslink_used,
                   busy, spec_mode, dispVars, wbVars>>

-----------------------------------------------------------------------------
(* ruu_issue(): n is n_issued.                                             *)

Issuing == stage = "issue" /\ node # << >> /\ n < ruu_issue_width
Picked  == Head(node).rs

\* A squashed node is dropped, by the issue loop or by the loop after it.
IssueSquashed ==
    /\ stage = "issue" /\ node # << >> /\ ~RSLINK_VALID(Head(node))
    /\ node' = Tail(node) /\ rslink_used' = rslink_used - 1
    /\ UNCHANGED <<stage, ruuVars, lsqVars, rs, cvVars, event_queue,
                   ready_queue, busy, spec_mode, dispVars, n, wbVars,
                   std_unknowns>>

\* A store completes at once; one that creates a result is a panic, which the
\* guard keeps out (see StoreHasNoResult).
IssueStore ==
    /\ Issuing /\ RSLINK_VALID(Head(node)) /\ IsStore(Picked)
    /\ \A i \in Odeps : rs[Picked].onames[i] = NA
    /\ rs' = [rs EXCEPT ![Picked].queued = FALSE, ![Picked].issued = TRUE,
                        ![Picked].completed = TRUE]
    /\ node' = Tail(node) /\ rslink_used' = rslink_used - 1
    /\ n' = n + 1
    /\ UNCHANGED <<stage, ruuVars, lsqVars, cvVars, event_queue, ready_queue,
                   busy, spec_mode, dispVars, wbVars, std_unknowns>>

\* An earlier store in the LSQ to the same address forwards its value.
Forwarded(s) ==
    LET age(j) == (j - LSQ_head + LSQ_size) % LSQ_size IN
    \E j \in 0 .. LSQ_size - 1 :
        /\ age(j) < age(s[2])
        /\ rs[L(j)].op = "store" /\ rs[L(j)].addr = rs[s].addr

\* The latencies with which the picked operation may complete on template fu.
\* A load takes the longer of its two parallel accesses: to the LSQ or the
\* D-cache, and to the D-TLB; both are skipped (oplat, 0) when they are not
\* configured or the address is outside the data segment.
Latency(s, fu) ==
    IF IsLoad(s)
    THEN {IF c > t THEN c ELSE t :
             c \in IF Forwarded(s) THEN {1} ELSE CacheLat \cup {fu.oplat},
             t \in TlbLat \cup {0}}
    ELSE {fu.oplat}

Issue ==
    /\ Issuing /\ RSLINK_VALID(Head(node)) /\ ~IsStore(Picked)
    /\ IF SS_OP_FUCLASS(rs[Picked].op) = "NA"
       THEN eventq_queue_event(Picked, 1) /\ busy' = busy
       ELSE \E fu \in res_get(SS_OP_FUCLASS(rs[Picked].op)) :
              /\ busy' = [busy EXCEPT ![fu.unit] = fu.issuelat]
              /\ \E lat \in Latency(Picked, fu) : eventq_queue_event(Picked, lat)
    /\ rs' = [rs EXCEPT ![Picked].queued = FALSE, ![Picked].issued = TRUE]
    /\ node' = Tail(node)         \* its link is freed, the event's is new
    /\ n' = n + 1
    /\ UNCHANGED <<stage, ruuVars, lsqVars, cvVars, ready_queue, rslink_used,
                   spec_mode, dispVars, wbVars, std_unknowns>>

\* No unit is free, or the issue bandwidth is used up: back to the ready queue.
IssueLater ==
    /\ stage = "issue" /\ node # << >> /\ RSLINK_VALID(Head(node))
    /\ n < ruu_issue_width =>
          /\ ~IsStore(Picked) /\ SS_OP_FUCLASS(rs[Picked].op) # "NA"
          /\ res_get(SS_OP_FUCLASS(rs[Picked].op)) = {}
    /\ readyq_enqueue(Picked, rs[Picked].op, rs[Picked].seq)
    /\ node' = Tail(node)
    /\ UNCHANGED <<stage, ruuVars, lsqVars, rs, cvVars, event_queue,
                   rslink_used, busy, spec_mode, dispVars, n, wbVars,
                   std_unknowns>>

-----------------------------------------------------------------------------
(* ruu_dispatch(): n is n_dispatched.  Every cycle ends with it or, when   *)
(* -bugcompat is given, with ruu_issue().                                  *)

\* sim_cycle++: every pending event is one cycle nearer.
NextCycle ==
    /\ event_queue' = [i \in DOMAIN event_queue |->
                          [event_queue[i] EXCEPT !.wait = @ - 1]]
    /\ stage' = "commit" /\ n' = 0

IssueDone ==
    /\ stage = "issue" /\ node = << >>
    /\ IF bugcompat_mode THEN NextCycle
       ELSE stage' = "dispatch" /\ n' = 0 /\ event_queue' = event_queue
    /\ UNCHANGED <<ruuVars, lsqVars, rs, cvVars, ready_queue, rslink_used,
                   busy, spec_mode, dispVars, wbVars, std_unknowns, node>>

CREATE_VECTOR(r) ==
    IF r \in use_spec_cv THEN spec_create_vector[r] ELSE create_vector[r]

\* The operands in names that a pending operation will create.
Pending(names) ==
    {k \in Ideps : names[k] # NA /\ CREATE_VECTOR(names[k]).rs # NULL}

\* ruu_link_idep() for every operand of s: the links put on the chain of
\* output o of station p, the operand linked last first.
NewLinks(s, names, p, o) ==
    LET link(k) ==
          IF k \in Pending(names) /\ CREATE_VECTOR(names[k]) = [rs |-> p, odep_num |-> o]
          THEN <<[rs |-> s, tag |-> rs[s].tag, opnum |-> k]>> ELSE << >>
    IN link(2) \o link(1) \o link(0)

\* ruu_install_odep() for the outputs of s: the registers they name, each
\* with s as its creator.
Creates(s, out) ==
    [r \in {out[o] : o \in Odeps} \ {NA} |->
       [rs |-> s, odep_num |-> IF out[1] = r THEN 1 ELSE 0]]

\* Store the new creators in the create vector that spec_mode selects.
SET_CREATE_VECTOR(made) ==
    LET set(cv) == [r \in Reg |-> IF r \in DOMAIN made THEN made[r] ELSE cv[r]]
    IN IF spec_mode
       THEN /\ spec_create_vector' = set(spec_create_vector)
            /\ use_spec_cv' = use_spec_cv \cup DOMAIN made
            /\ create_vector' = create_vector
       ELSE /\ create_vector' = set(create_vector)
            /\ UNCHANGED <<spec_create_vector, use_spec_cv>>

\* Station s filled in; its tag stays, and so does the chain of an output
\* without a name.
Filled(s, op, ea, mis, addr, seq, out, ready, queued) ==
    [rs[s] EXCEPT !.op = op, !.ea_comp = ea, !.recover_inst = mis,
        !.spec_mode = spec_mode, !.addr = addr, !.seq = seq, !.queued = queued,
        !.issued = FALSE, !.completed = FALSE, !.onames = out,
        !.odep_list = [o \in Odeps |-> IF out[o] = NA THEN @[o] ELSE << >>],
        !.idep_ready = [k \in Ideps |-> k \in ready]]

InOrderStall ==
    /\ ruu_inorder_issue /\ last_op.rs # NULL
    /\ RSLINK_VALID(last_op) /\ ~OPERANDS_READY(last_op.rs)

\* Bandwidth and room are left, the path is one to execute, and with
\* -issue:inorder the last operation is not waiting for operands.
DispatchReady ==
    /\ stage = "dispatch" /\ n < ruu_decode_width
    /\ RUU_num < RUU_size /\ LSQ_num < LSQ_size
    /\ (ruu_include_spec \/ ~spec_mode)
    /\ ~InOrderStall
    /\ fuel > 0

\* A trap waits until the RUU is empty.
Drained(op) == op = "trap" => RUU_num = 0

\* An operation that is not a load or store.  Only a control transfer on the
\* right path can be mispredicted (mis).
DispatchOther(i, mis) ==
    /\ DispatchReady /\ i.op \notin F_MEM
    /\ Drained(i.op)
    /\ mis => i.op \in F_CTRL /\ ~spec_mode
    /\ LET s == R(RUU_tail)
           seq == (inst_seq + 1) % SEQ_MOD
           ready == Ideps \ Pending(i.in)
       IN /\ rs' = [t \in Station |->
                      IF t = s
                      THEN Filled(s, i.op, FALSE, mis, 0, seq, i.out, ready,
                                  ready = Ideps)
                      ELSE [rs[t] EXCEPT !.odep_list =
                              [o \in Odeps |-> NewLinks(s, i.in, t, o) \o @[o]]]]
          /\ SET_CREATE_VECTOR(Creates(s, i.out))
          /\ IF ready = Ideps
             THEN /\ readyq_enqueue(s, i.op, seq)
                  /\ last_op' = RSLINK_NULL
                  /\ rslink_used' = rslink_used + 1
             ELSE /\ ready_queue' = ready_queue
                  /\ last_op' = [rs |-> s, tag |-> rs[s].tag]
                  /\ rslink_used' = rslink_used + Cardinality(Pending(i.in))
          /\ inst_seq' = seq
    /\ RUU_tail' = (RUU_tail + 1) % RUU_size /\ RUU_num' = RUU_num + 1
    /\ spec_mode' = (spec_mode \/ mis)
    /\ fuel' = (IF Endless THEN fuel ELSE fuel - 1) /\ n' = n + 1
    /\ UNCHANGED <<stage, RUU_head, lsqVars, event_queue, busy, wbVars,
                   std_unknowns, node>>

\* A load or store: an address computation in the RUU, which creates DTMP, and
\* the access in the LSQ, which waits for it and therefore is never ready yet.
DispatchMem(i) ==
    /\ DispatchReady /\ i.op \in F_MEM
    /\ LET s == R(RUU_tail)
           m == L(LSQ_tail)
           seq  == (inst_seq + 1) % SEQ_MOD
           mseq == (inst_seq + 2) % SEQ_MOD
           ein  == [i.in EXCEPT ![0] = NA]               \* address operands
           min  == [k \in Ideps |-> IF k = 0 THEN i.in[0] ELSE NA]
           eout == [o \in Odeps |-> IF o = 0 THEN DTMP ELSE NA]
           eready == Ideps \ Pending(ein)
           mready == Ideps \ (Pending(min) \cup {STORE_ADDR_INDEX})
       IN /\ rs' = [t \in Station |->
                      IF t = s
                      THEN [Filled(s, "agen", TRUE, FALSE, 0, seq, eout, eready,
                                   eready = Ideps)
                              EXCEPT !.odep_list[0] =
                                <<[rs |-> m, tag |-> rs[m].tag,
                                   opnum |-> STORE_ADDR_INDEX]>>]
                      ELSE IF t = m
                      THEN Filled(m, i.op, FALSE, FALSE, i.addr, mseq, i.out,
                                  mready, FALSE)
                      ELSE [rs[t] EXCEPT !.odep_list =
                              [o \in Odeps |-> NewLinks(m, min, t, o)
                                        \o NewLinks(s, ein, t, o) \o @[o]]]]
          /\ SET_CREATE_VECTOR([r \in DOMAIN Creates(m, i.out) \cup {DTMP} |->
                 IF r = DTMP THEN [rs |-> s, odep_num |-> 0]
                 ELSE Creates(m, i.out)[r]])
          /\ IF eready = Ideps THEN readyq_enqueue(s, "agen", seq)
                               ELSE ready_queue' = ready_queue
          /\ rslink_used' = rslink_used + 1 + (IF eready = Ideps THEN 1 ELSE 0)
                + Cardinality(Pending(ein)) + Cardinality(Pending(min))
          /\ last_op' = [rs |-> m, tag |-> rs[m].tag]
          /\ inst_seq' = mseq
    /\ RUU_tail' = (RUU_tail + 1) % RUU_size /\ RUU_num' = RUU_num + 1
    /\ LSQ_tail' = (LSQ_tail + 1) % LSQ_size /\ LSQ_num' = LSQ_num + 1
    /\ fuel' = (IF Endless THEN fuel ELSE fuel - 1) /\ n' = n + 1
    /\ UNCHANGED <<stage, RUU_head, LSQ_head, event_queue, busy, spec_mode,
                   wbVars, std_unknowns, node>>

\* Nothing more to dispatch: the loop's guard fails or the fetch queue is
\* empty, which it may be at any time.
DispatchDone ==
    /\ stage = "dispatch"
    /\ IF bugcompat_mode
       THEN stage' = "refresh" /\ n' = 0 /\ event_queue' = event_queue
       ELSE NextCycle
    /\ UNCHANGED <<ruuVars, lsqVars, rs, cvVars, ready_queue, rslink_used,
                   busy, spec_mode, dispVars, wbVars, std_unknowns, node>>

Next ==
    \/ CommitOther \/ CommitMem \/ ruu_release_fu
    \/ WritebackSquashed \/ WritebackEvent \/ WritebackDone
    \/ RecoverOther \/ RecoverMem \/ RecoverDone
    \/ BroadcastSquashed \/ BroadcastWake \/ BroadcastNext
    \/ RefreshStore \/ RefreshLoad \/ RefreshDone
    \/ IssueSquashed \/ IssueStore \/ Issue \/ IssueLater \/ IssueDone
    \/ \E i \in Insts, mis \in BOOLEAN : DispatchOther(i, mis)
    \/ \E i \in Insts : DispatchMem(i)
    \/ DispatchDone

Spec == Init /\ [][Next]_vars
-----------------------------------------------------------------------------
(* Properties.                                                             *)

Age(s) == IF InLSQ(s) THEN (s[2] - LSQ_head + LSQ_size) % LSQ_size
                      ELSE (s[2] - RUU_head + RUU_size) % RUU_size
Live(s) == Age(s) < IF InLSQ(s) THEN LSQ_num ELSE RUU_num
LiveStations == {s \in Station : Live(s)}
LiveRuu == {s \in LiveStations : ~InLSQ(s)}

\* The live address computations older than a, and the access a belongs to.
AccessOf(a) ==
    LET older == {b \in LiveRuu : rs[b].ea_comp /\ Age(b) < Age(a)} IN
    L((LSQ_head + Cardinality(older)) % LSQ_size)

\* Type invariant: the queues, stations and loop variables of sim-outorder.c
\* have the shape their declarations say, indices inside their arrays.
TypeOK ==
    /\ stage \in Stage
    /\ RUU_head \in 0 .. RUU_size - 1 /\ RUU_tail \in 0 .. RUU_size - 1
    /\ LSQ_head \in 0 .. LSQ_size - 1 /\ LSQ_tail \in 0 .. LSQ_size - 1
    /\ RUU_num \in 0 .. RUU_size /\ LSQ_num \in 0 .. LSQ_size
    /\ rs \in [Station -> StationType]
    /\ create_vector \in [Reg -> CvLink] /\ spec_create_vector \in [Reg -> CvLink]
    /\ use_spec_cv \subseteq Reg
    /\ event_queue \in Seq(Event)
    /\ ready_queue \in Seq(ReadyNode) /\ node \in Seq(ReadyNode)
    /\ rslink_used \in Int
    /\ busy \in [Unit -> Nat]
    /\ spec_mode \in BOOLEAN /\ inst_seq \in Nat
    /\ last_op \in [rs : Station \cup {NULL}, tag : Nat]
    /\ fuel \in 0 .. MaxInsts
    /\ n \in Nat /\ cur \in Station /\ onum \in Odeps
    /\ std_unknowns \in Seq(Addr)

\* The sanity checks of sim_main(), which panics "RUU_head/RUU_tail wedged" or
\* "RUU_num < LSQ_num": the counters agree with the pointers.
RingsConsistent ==
    /\ (RUU_head + RUU_num) % RUU_size = RUU_tail
    /\ (LSQ_head + LSQ_num) % LSQ_size = LSQ_tail
    /\ RUU_num >= LSQ_num

\* While in speculative mode exactly one operation in flight will end it, an
\* uncompleted one (or the one ruu_recover() is being run for); it is on the
\* right path, and the operations younger than it are the wrong path ones.
\* Otherwise no wrong path operation is in flight.  So a drained machine is
\* never speculative ("drained and speculative"), ruu_recover() meets the
\* branch before the head, and tracer_recover() only runs in speculative mode.
Resolves(s) ==
    /\ rs[s].recover_inst
    /\ ~rs[s].completed \/ (stage = "recover" /\ cur = s)
SpecModeExact ==
    /\ spec_mode =>
         \E b \in LiveRuu :
            /\ Resolves(b) /\ ~rs[b].spec_mode
            /\ \A s \in LiveRuu \ {b} :
                  ~Resolves(s) /\ rs[s].spec_mode = (Age(s) > Age(b))
    /\ ~spec_mode => \A s \in LiveRuu : ~Resolves(s) /\ ~rs[s].spec_mode

\* Nothing executed on the wrong path reaches the architected state: the
\* operation ruu_commit() retires was dispatched on the right path.
CommitsRightPath ==
    [][RUU_head' # RUU_head => ~rs[R(RUU_head)].spec_mode]_vars

\* Results arrive on time: the event queue stays sorted, so the writeback loop,
\* which only looks at its head, leaves no due event behind for a later cycle
\* ("event occurred in the past").
EventsOnTime ==
    /\ \A i, j \in DOMAIN event_queue :
          i < j => event_queue[i].wait <= event_queue[j].wait
    /\ \A i \in DOMAIN event_queue :
          event_queue[i].wait >=
             IF stage \in {"commit", "writeback", "recover", "broadcast"} THEN 0 ELSE 1

Writers(r) == {s \in LiveStations : \E o \in Odeps : rs[s].onames[o] = r}
\* Program order of two live stations; an access follows its computation.
Before(s, t) ==
    LET pos(x) == IF InLSQ(x)
                  THEN 2 * (CHOOSE k \in {Age(a) : a \in {b \in LiveRuu :
                              rs[b].ea_comp /\ AccessOf(b) = x}} : TRUE) + 1
                  ELSE 2 * Age(x)
    IN pos(s) < pos(t)

\* CREATE_VECTOR() names, for every register, its youngest writer in flight
\* while that writer has not completed, and the register file otherwise: also
\* after a recovery threw the speculative copy away.
CreateVectorPrecise ==
    stage # "recover" =>
    \A r \in Reg \ {NA} :
       LET last == {s \in Writers(r) : \A t \in Writers(r) \ {s} : Before(t, s)}
           cv == CREATE_VECTOR(r)
       IN IF \E s \in last : ~rs[s].completed
          THEN cv.rs \in last /\ rs[cv.rs].onames[cv.odep_num] = r
          ELSE cv.rs = NULL

\* All links on output chains, as <<station, output, position>>.
ChainLinks ==
    UNION {{<<p, o, i>> : i \in DOMAIN rs[p].odep_list[o]} : p \in Station, o \in Odeps}

\* The links in a sequence that still name s.
Naming(q, s) == {i \in DOMAIN q : q[i].rs = s /\ q[i].tag = rs[s].tag}

\* No wakeup is lost or given twice: an operand that is not ready is on exactly
\* one output chain, that of an operation that has not broadcast it yet, and a
\* ready operand is on none.  A stale link (its station squashed, perhaps in
\* use again) never validates, whatever number of times slots are reused.
WakeupExact ==
    \A s \in Station, k \in Ideps :
       LET links == {l \in ChainLinks :
                       LET link == rs[l[1]].odep_list[l[2]][l[3]]
                       IN link.rs = s /\ link.tag = rs[s].tag /\ link.opnum = k}
       IN IF Live(s) /\ ~rs[s].idep_ready[k]
          THEN /\ Cardinality(links) = 1
               /\ \A l \in links : /\ Live(l[1])
                                   /\ ~rs[l[1]].completed \/ l[1] = cur
          ELSE links = {}

\* The status bits of a live operation agree with the queues ruu_issue() and
\* ruu_writeback() take it from: queued means exactly one valid node in the
\* ready queue, issued and not completed exactly one valid event, and a
\* squashed or retired operation is in neither.
QueuesExact ==
    \A s \in Station :
       LET nodes  == Cardinality(Naming(ready_queue, s)) + Cardinality(Naming(node, s))
           events == Cardinality(Naming(event_queue, s))
       IN IF Live(s)
          THEN /\ nodes  = IF rs[s].queued THEN 1 ELSE 0
               /\ events = IF rs[s].issued /\ ~rs[s].completed THEN 1 ELSE 0
               /\ rs[s].queued \/ rs[s].issued => OPERANDS_READY(s)
               /\ ~(rs[s].queued /\ rs[s].issued)
               /\ rs[s].completed => rs[s].issued
          ELSE nodes = 0 /\ events = 0

\* The panics of the pipeline stages are unreachable: at the place of each
\* check the state is as it demands.  ruu_commit() tests that the LSQ is in step
\* as soon as the address computation at the head has completed, before it looks
\* whether the access has.
NoPanic ==
    /\ stage = "commit" /\ RUU_num > 0 /\ n < ruu_commit_width
          /\ rs[R(RUU_head)].completed /\ rs[R(RUU_head)].ea_comp =>
         LSQ_num > 0 /\ rs[L(LSQ_head)].op \in F_MEM
    /\ stage = "commit" /\ CommitReady =>
         \A o \in Odeps : rs[R(RUU_head)].odep_list[o] = << >>
    /\ stage = "writeback" /\ EventDue /\ RSLINK_VALID(Head(event_queue)) =>
         LET s == Head(event_queue).rs IN
         Completable(s) /\ (rs[s].recover_inst => spec_mode)
    /\ stage = "recover" /\ R(RUU_index) # cur =>
         /\ RUU_num > 0 /\ RUU_index # RUU_head
         /\ rs[R(RUU_index)].ea_comp => LSQ_num > 0
    /\ stage = "broadcast" /\ Chain # << >> /\ RSLINK_VALID(Head(Chain)) =>
         LET c == Head(Chain).rs IN
         ~rs[c].idep_ready[Head(Chain).opnum] /\ ~rs[c].queued
    /\ stage = "issue" /\ node # << >> /\ RSLINK_VALID(Head(node)) =>
         /\ OPERANDS_READY(Picked) /\ rs[Picked].queued
         /\ ~rs[Picked].issued /\ ~rs[Picked].completed
    /\ stage = "dispatch" /\ RUU_num = 0 => ~spec_mode

\* The RS_link free list loses no record: the records RSLINK_NEW() took from it
\* and RSLINK_FREE() did not return are those on the output chains, in the ready
\* queue and in the event queue, the stale ones squashing leaves behind included.
LinksConserved ==
    rslink_used = Cardinality(ChainLinks) + Len(event_queue) + Len(ready_queue)
                     + Len(node)

\* Memory order (the comment of lsq_refresh()): once a load is in the ready
\* queue or executes, the address of every earlier store is known, and so is
\* the data of the latest earlier store to its own address.
LoadsWaitForStores ==
    \A s \in LiveStations : IsLoad(s) /\ (rs[s].queued \/ rs[s].issued) =>
       LET earlier == {t \in LiveStations : IsStore(t) /\ Age(t) < Age(s)}
           same    == {t \in earlier : rs[t].addr = rs[s].addr}
       IN /\ \A t \in earlier : ~AddrUnknown(t)
          /\ \A t \in same : (\A u \in same : Age(u) <= Age(t)) => ~StdUnknown(t)

\* The window the program sees: the k-th instruction of the RUU, finished when
\* its operation and, for a load or store, its access has completed.  From the
\* moment a mispredicted branch completes its successors are gone.
WindowLen ==
    IF stage = "recover" THEN Age(cur) + 1 ELSE RUU_num
WindowView ==
    [k \in 1 .. WindowLen |->
       LET s == R((RUU_head + k - 1) % RUU_size)
           a == IF rs[s].ea_comp THEN AccessOf(s) ELSE s
       IN [kind |-> rs[a].op, wrong |-> rs[s].spec_mode,
           mispredicted |-> rs[s].recover_inst,
           done |-> rs[s].completed /\ rs[a].completed]]
Window == INSTANCE InOrderWindow WITH
              Size <- RUU_size, Kind <- Op, window <- WindowView

\* The RUU and LSQ implement the in-order window: program order retirement,
\* only of finished right path instructions, and exact recovery, although
\* ruu_recover() takes one step per squashed operation.
ImplementsWindow == Window!Spec

\* The panic "store creates result" of ruu_issue() is unreachable.
StoreHasNoResult ==
    stage = "issue" /\ node # << >> /\ RSLINK_VALID(Head(node))
       /\ IsStore(Picked) => \A o \in Odeps : rs[Picked].onames[o] = NA
=============================================================================
