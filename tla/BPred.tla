-------------------------------- MODULE BPred --------------------------------
(* The branch predictor (bpred.c) under its two users.  sim-bpred looks a    *)
(* branch up and updates the predictor at once.  sim-outorder looks it up    *)
(* when it is fetched and updates it when it is dispatched, written back or  *)
(* committed (option -bpred:spec_update), while other branches are looked up *)
(* and updated, wrong path ones included, and repairs the return address     *)
(* stack when a mispredicted branch completes.                               *)
(*                                                                           *)
(* Code addresses are instruction numbers (address / 8), from 2 on: 0 is an  *)
(* empty BTB entry and no prediction, 1 is "taken, target unknown".  They    *)
(* are small, so the bits BIMOD_HASH folds in from above (address >> 19) are *)
(* zero.  The control flow between branches is left open: any branch of the  *)
(* program may be fetched next.  Statistics are left out.                    *)
EXTENDS Integers, FiniteSets, FiniteSetsExt, Sequences

CONSTANTS
    Setup,                    \* [class, xor, when, window, program]: what is simulated
    bimod_size, l1size, l2size, meta_size, shift_width,
    btb_sets, btb_assoc, retstack_size

VARIABLES
    class, xor,               \* predictor options; class is "comb", "2lev" or "bimod"
    when,                     \* "now" (sim-bpred), or "ID", "WB", "CT"
    window,                   \* branches in flight, at most
    program,                  \* set of branches [pc, op, to]
    counters,                 \* the tables of two-bit counters: bimod, twolev, meta
    shiftregs,                \* history registers
    btb_data,                 \* btb_data[s][w] = [addr, target]
    lru,                      \* the chain of set s: its ways, the last used first
    stack, tos,               \* return address stack
    inflight,                 \* sim-outorder: branches fetched and not retired, oldest first
    used,                     \* history: branches of a set that were taken, the last first
    last,                     \* history: destination of a branch when last taken
    calls,                    \* history: return addresses of the last open calls
    seen                      \* history: last two lessons of the bimod and meta counters

setup == <<class, xor, when, window, program>>
tables == <<counters, shiftregs, btb_data, lru>>
vars == <<setup, tables, stack, tos, inflight, used, last, calls, seen>>

Op == {"cond", "jump", "jal", "jalr", "jr", "ret"}      \* ret is JR through r31
Uncond(b) == b.op # "cond"
Call(b) == b.op \in {"jal", "jalr"}
Direct(b) == b.op \in {"cond", "jump", "jal"}           \* F_DIRJMP
Return(b) == b.op = "ret" /\ retstack_size > 0
Taken(b, next) == next # b.pc + 1

Way == 1 .. btb_assoc
FlipFlop(n) == [i \in 0 .. n - 1 |-> IF i % 2 = 0 THEN 1 ELSE 2]
SetOf(pc) == pc % btb_sets
\* Bit i of n, and exclusive or of numbers of up to 8 bits.
Bit(n, i) == (n \div 2 ^ i) % 2
Xor(m, n) == MapThenSumSet(LAMBDA i : IF Bit(m, i) # Bit(n, i) THEN 2 ^ i ELSE 0, 0 .. 7)

Init ==
    /\ \E s \in Setup : /\ class = s.class /\ xor = s.xor /\ when = s.when
                       /\ window = s.window /\ program = s.program
    /\ counters = [bimod |-> FlipFlop(bimod_size), twolev |-> FlipFlop(l2size),
                   meta |-> FlipFlop(meta_size)]
    /\ shiftregs = [i \in 0 .. l1size - 1 |-> 0]
    /\ btb_data = [s \in 0 .. btb_sets - 1 |-> [w \in Way |-> [addr |-> 0, target |-> 0]]]
    /\ lru = [s \in 0 .. btb_sets - 1 |-> [w \in Way |-> w]]
    /\ stack = [i \in 0 .. retstack_size - 1 |-> 0] /\ tos = retstack_size - 1
    /\ inflight = << >>
    /\ used = [s \in 0 .. btb_sets - 1 |-> << >>] /\ last = [b \in program |-> 0]
    /\ calls = << >>
    /\ seen = [bimod |-> [i \in 0 .. bimod_size - 1 |-> << >>],
               meta |-> [i \in 0 .. meta_size - 1 |-> << >>]]

(***************************************************************************)
(* bpred_lookup()                                                          *)
(***************************************************************************)
L2Index(pc) ==
    LET h == shiftregs[pc % l1size] IN
    (IF xor THEN Xor(h, pc) ELSE h + pc * 2 ^ shift_width) % l2size

\* bpred_dir_lookup(): the counter of a branch in a table.
Counter(t, pc) == <<t, CASE t = "bimod" -> pc % bimod_size
                         [] t = "meta" -> pc % meta_size
                         [] t = "twolev" -> L2Index(pc)>>
Says(p) == counters[p[1]][p[2]] >= 2

\* The counters a branch uses (pdir1 first, then pdir2), and the directions the
\* components of the combining predictor gave.
UpdateRecord(b) ==
    LET bi == Counter("bimod", b.pc)  tl == Counter("twolev", b.pc)  me == Counter("meta", b.pc)
    IN CASE Uncond(b) -> [pdir |-> << >>, pmeta |-> << >>, bimod |-> FALSE, twolev |-> FALSE]
         [] ~Uncond(b) /\ class = "bimod" ->
              [pdir |-> <<bi>>, pmeta |-> << >>, bimod |-> FALSE, twolev |-> FALSE]
         [] ~Uncond(b) /\ class = "2lev" ->
              [pdir |-> <<tl>>, pmeta |-> << >>, bimod |-> FALSE, twolev |-> FALSE]
         [] ~Uncond(b) /\ class = "comb" ->
              [pdir |-> IF Says(me) THEN <<tl, bi>> ELSE <<bi, tl>>, pmeta |-> me,
               bimod |-> Says(bi), twolev |-> Says(tl)]

Ways(pc) == {w \in Way : btb_data[SetOf(pc)][w].addr = pc}

\* The predicted address; the caller turns 0 into the next instruction.
Predict(b, u) ==
    LET hits == Ways(b.pc)
        target == IF hits = {} THEN 1 ELSE btb_data[SetOf(b.pc)][Min(hits)].target
    IN IF Return(b) THEN stack[tos]
       ELSE IF Uncond(b) \/ Says(u.pdir[1]) THEN target ELSE 0
PredPC(b, u) == IF Predict(b, u) = 0 THEN b.pc + 1 ELSE Predict(b, u)

\* Mutant: a return reads the stack without popping it.
PoppedNot(b) == tos

\* The top of the return address stack after a lookup.
Popped(b) == IF Return(b) THEN (tos + retstack_size - 1) % retstack_size ELSE tos

(***************************************************************************)
(* bpred_update()                                                          *)
(***************************************************************************)
Pushes(b) == Call(b) /\ retstack_size > 0

\* A saturating counter moves.
Step(c, up) == IF up THEN IF c < 3 THEN c + 1 ELSE c ELSE IF c > 0 THEN c - 1 ELSE c

\* Mutant: the second component of the combining predictor is not trained.
TrainFirst(u, taken) ==
    [t \in DOMAIN counters |-> [i \in DOMAIN counters[t] |->
        IF u.pdir # << >> /\ u.pdir[1] = <<t, i>> THEN Step(counters[t][i], taken)
        ELSE IF u.pmeta = <<t, i>> /\ u.bimod # u.twolev
        THEN Step(counters[t][i], u.twolev = taken)
        ELSE counters[t][i]]]

\* The counters after the update.
Train(u, taken) ==
    [t \in DOMAIN counters |-> [i \in DOMAIN counters[t] |->
        IF \E k \in DOMAIN u.pdir : u.pdir[k] = <<t, i>> THEN Step(counters[t][i], taken)
        ELSE IF u.pmeta = <<t, i>> /\ u.bimod # u.twolev
        THEN Step(counters[t][i], u.twolev = taken)
        ELSE counters[t][i]]]

\* The history register of a conditional branch takes the outcome in.
Shift(b, taken) ==
    IF Uncond(b) \/ class = "bimod" THEN shiftregs
    ELSE [shiftregs EXCEPT ![b.pc % l1size] =
             (2 * @ + IF taken THEN 1 ELSE 0) % 2 ^ shift_width]

\* Mutant: a branch that hits keeps its place in the chain.
MoveMissedFirst(chain, w, hit) ==
    IF hit THEN chain ELSE <<w>> \o SelectSeq(chain, LAMBDA x : x # w)

\* The selected way becomes the most recently used one.
MoveFirst(chain, w, hit) == <<w>> \o SelectSeq(chain, LAMBDA x : x # w)

\* Mutant: the target of an entry is never replaced.
EntryKept(e, b, next, correct) == IF e.addr = b.pc THEN e ELSE [addr |-> b.pc, target |-> next]

\* The entry of a taken branch.
Entry(e, b, next, correct) ==
    IF e.addr = b.pc /\ correct THEN e ELSE [addr |-> b.pc, target |-> next]

UpdateBtb(b, next, correct) ==
    LET s == SetOf(b.pc)
        hits == Ways(b.pc)
        w == IF hits # {} THEN Max(hits) ELSE lru[s][btb_assoc]
    IN /\ lru' = [lru EXCEPT ![s] = MoveFirst(@, w, hits # {})]
       /\ btb_data' = [btb_data EXCEPT ![s][w] = Entry(@, b, next, correct)]

\* The first n of a history, and the last two of a history of lessons.
Shorten(q, n) == SubSeq(q, 1, Min({Len(q), n}))
Remember(h, x) == IF h = << >> THEN <<x>> ELSE <<h[Len(h)], x>>
Learn(b, u, taken) ==
    [bimod |-> [i \in DOMAIN seen.bimod |->
                  IF ~Uncond(b) /\ class # "2lev" /\ i = b.pc % bimod_size
                  THEN Remember(seen.bimod[i], taken) ELSE seen.bimod[i]],
     meta |-> [i \in DOMAIN seen.meta |->
                  IF ~Uncond(b) /\ class = "comb" /\ i = b.pc % meta_size /\ u.bimod # u.twolev
                  THEN Remember(seen.meta[i], u.twolev = taken) ELSE seen.meta[i]]]

\* bpred_update(): a return that used the stack changes nothing; a call pushes onto
\* a stack whose top is t.
Update(b, u, pred, next, t) ==
    LET taken == Taken(b, next)
        at == (t + 1) % retstack_size
        s == SetOf(b.pc)
    IN IF Return(b) THEN tos' = t /\ UNCHANGED <<tables, stack, used, last, seen>>
       ELSE /\ IF Pushes(b) THEN tos' = at /\ stack' = [stack EXCEPT ![at] = b.pc + 1]
                            ELSE tos' = t /\ UNCHANGED stack
            /\ counters' = Train(u, taken) /\ shiftregs' = Shift(b, taken)
            /\ IF taken THEN UpdateBtb(b, next, pred = next) ELSE UNCHANGED <<btb_data, lru>>
            /\ used' = IF taken THEN [used EXCEPT ![s] = Shorten(<<b.pc>> \o SelectSeq(@, LAMBDA x : x # b.pc),
                                                                 btb_assoc)]
                                ELSE used
            /\ last' = IF taken /\ when = "now" THEN [last EXCEPT ![b] = next] ELSE last
            /\ seen' = Learn(b, u, taken)

NoUpdate(t) == tos' = t /\ UNCHANGED <<tables, stack, used, last, seen>>

(***************************************************************************)
(* sim-bpred                                                               *)
(***************************************************************************)
Execute(b, next) ==
    LET u == UpdateRecord(b) IN
    /\ when = "now"
    /\ Update(b, u, PredPC(b, u), next, Popped(b))
    /\ calls' = IF Pushes(b) THEN Shorten(<<b.pc + 1>> \o calls, retstack_size)
                ELSE IF Return(b) /\ calls # << >> THEN Tail(calls) ELSE calls
    /\ UNCHANGED <<setup, inflight>>

(***************************************************************************)
(* sim-outorder                                                            *)
(***************************************************************************)
\* An update pushed: the branches in flight can no longer restore their stack.
Spoil(q, pushed) == [i \in DOMAIN q |-> IF pushed THEN [q[i] EXCEPT !.before = << >>] ELSE q[i]]

\* ruu_fetch(): a branch is looked up and queued.
Fetch(b) ==
    LET u == UpdateRecord(b) IN
    /\ when # "now" /\ Len(inflight) < window
    /\ inflight' = Append(inflight,
          [branch |-> b, update |-> u, pred |-> PredPC(b, u), next |-> 0, stage |-> "fetched",
           recover_inst |-> FALSE, stack_recover_idx |-> IF retstack_size > 0 THEN tos ELSE 0,
           before |-> <<stack, tos>>])
    /\ NoUpdate(Popped(b))
    /\ UNCHANGED <<setup, calls>>

spec_mode == \E i \in DOMAIN inflight : inflight[i].recover_inst /\ inflight[i].stage = "dispatched"

\* ruu_dispatch(): the outcome becomes known.  A wrong target of a direct branch
\* that was predicted taken drops what was fetched behind it (a misfetch), any other
\* wrong prediction on the right path starts speculation.
Dispatch(next) ==
    LET i == Min({j \in DOMAIN inflight : inflight[j].stage = "fetched"})
        e == inflight[i]  b == e.branch
        redirected == Direct(b) /\ Taken(b, e.pred) /\ ~(e.pred \in b.to)
        q == IF redirected THEN SubSeq(inflight, 1, i) ELSE inflight
        update == ~spec_mode /\ when = "ID"
    IN /\ \E j \in DOMAIN inflight : inflight[j].stage = "fetched"
       /\ next \in b.to \cup (IF Uncond(b) THEN {} ELSE {b.pc + 1})
       /\ inflight' = Spoil([q EXCEPT ![i].stage = "dispatched", ![i].next = next,
                                      ![i].recover_inst = ~spec_mode /\ e.pred # next /\ ~redirected],
                            update /\ Pushes(b))
       /\ IF update THEN Update(b, e.update, e.pred, next, tos) ELSE NoUpdate(tos)
       /\ UNCHANGED <<setup, calls>>

\* Mutant: the top of the stack is not restored.
RecoveredNot(e) == tos

\* bpred_recover().
Recovered(e) == IF e.recover_inst THEN e.stack_recover_idx ELSE tos

\* ruu_writeback(): a mispredicted branch squashes the younger ones and restores
\* the top of the return address stack, before it updates the predictor.
Writeback(i) ==
    LET e == inflight[i]
        q == IF e.recover_inst THEN SubSeq(inflight, 1, i) ELSE inflight
    IN /\ e.stage = "dispatched"
       /\ inflight' = Spoil([q EXCEPT ![i].stage = "completed"],
                            when = "WB" /\ Pushes(e.branch))
       /\ IF when = "WB" THEN Update(e.branch, e.update, e.pred, e.next, Recovered(e))
                         ELSE NoUpdate(Recovered(e))
       /\ UNCHANGED <<setup, calls>>

\* ruu_commit().
Commit ==
    LET e == Head(inflight) IN
    /\ inflight # << >> /\ e.stage = "completed"
    /\ inflight' = Spoil(Tail(inflight), when = "CT" /\ Pushes(e.branch))
    /\ IF when = "CT" THEN Update(e.branch, e.update, e.pred, e.next, tos) ELSE NoUpdate(tos)
    /\ UNCHANGED <<setup, calls>>

Next ==
    \/ \E b \in program : \/ \E next \in b.to \cup (IF Uncond(b) THEN {} ELSE {b.pc + 1}) :
                                Execute(b, next)
                          \/ Fetch(b)
    \/ \E b \in program : \E next \in b.to \cup {b.pc + 1} : Dispatch(next)
    \/ \E i \in DOMAIN inflight : Writeback(i)
    \/ Commit

Spec == Init /\ [][Next]_vars

(***************************************************************************)
(* Properties                                                              *)
(***************************************************************************)
\* The BTB holds, in the order of its chains, exactly the branches of each set that
\* were last taken, whatever order and however late bpred_update() is called; in
\* particular no branch has two entries ("assert(!pbtb)").
BtbHoldsLastTaken ==
    \A s \in DOMAIN lru : \A k \in Way :
        btb_data[s][lru[s][k]].addr = IF k <= Len(used[s]) THEN used[s][k] ELSE 0

\* When every lookup is followed at once by its update, a BTB entry holds the "last
\* destination of branch when taken", although bpred_update() writes the target only
\* when the prediction was wrong.
BtbTargetLast ==
    when = "now" =>
        \A s \in DOMAIN btb_data : \A w \in Way : \A b \in program :
            btb_data[s][w].addr = b.pc => btb_data[s][w].target = last[b]

\* When every lookup is followed at once by its update, the circular return address
\* stack holds the return addresses of the last retstack_size open calls, also after
\* it overflowed and after it underflowed.
StackHoldsCalls ==
    when = "now" => \A k \in DOMAIN calls :
        stack[(tos + 1 + retstack_size - k) % retstack_size] = calls[k]

\* "A mispredicted branch, as part of its recovery, restores the TOS": unless a call
\* pushed since the branch was looked up, the whole stack is then as it was before
\* the branch, however many wrong path returns popped it.
RecoveryRestoresStack ==
    [][\A i \in DOMAIN inflight :
          Writeback(i) /\ inflight[i].recover_inst /\ inflight'[i].before # << >>
          => <<stack, tos>>' = inflight[i].before]_vars

\* A counter whose last two lessons agree predicts them: the bimodal counters learn
\* every outcome, also while the 2-level component is in use, and the meta counters
\* learn which component was right when they disagreed at lookup.
CountersLearn ==
    \A t \in {"bimod", "meta"} : \A i \in DOMAIN seen[t] :
        LET h == seen[t][i] IN Len(h) = 2 /\ h[1] = h[2] => (counters[t][i] >= 2) = h[1]
=============================================================================
