--------------------------- MODULE FrontEndProofs ---------------------------
(* The front end executes the program, for every program, queue size,       *)
(* bandwidth, penalty and behaviour of the predictor, the I-cache and the   *)
(* RUU.                                                                     *)
EXTENDS FrontEnd, Rings

\* A leaf that names no prover is given to the SMT solver, with time to spare.
USE SMTT(30)

\* The inductive invariant.  It adds to the three invariants that the program
\* stays in its text, and speaks of places in the queue without remainders.
at(k) == fetch_data[Behind(fetch_head, k, ruu_ifq_size)]
following(k) == IF k < fetch_num THEN at(k).regs_PC ELSE fetch_pred_PC
Linked(k) ==
    /\ at(k).pred_PC = following(k + 1)
    /\ at(k).op \notin F_CTRL => at(k).pred_PC = After(at(k).regs_PC)
    /\ at(k).op \in F_CTRL => at(k).regs_PC \in Text
Path ==
    /\ fetch_tail = Behind(fetch_head, fetch_num, ruu_ifq_size)
    /\ \A k \in 0 .. fetch_num - 1 : Linked(k)
Goal ==
    /\ goal \in Text
    /\ spec_mode => recover_PC = goal
    /\ ~spec_mode => following(0) = goal
Perfect == pred_type = "perfect" => spec_mode = FALSE
IInv == TypeOK /\ Path /\ Goal /\ Perfect

LEMMA Constants ==
    /\ ruu_ifq_size \in Nat \ {0} /\ ruu_branch_penalty \in Nat \ {0}
    /\ INST_SIZE \in Nat \ {0} /\ PC_MOD \in Nat \ {0}
    /\ Text \subseteq PC /\ 0 \in PC /\ 1 \in PC
  BY FrontEndAssumption DEF FrontEndAssumption

LEMMA AfterType == ASSUME NEW pc \in PC PROVE After(pc) \in PC
  <1>1. pc + INST_SIZE \in Int BY Constants DEF PC
  <1>2. ASSUME NEW a \in Int, NEW m \in Nat \ {0} PROVE a % m \in 0 .. m - 1 OBVIOUS
  <1> QED BY <1>1, <1>2, Constants DEF After, PC

LEMMA ProgType ==
    ASSUME NEW pc \in Text PROVE Prog[pc].op \in Op /\ Prog[pc].target \in PC
  BY FrontEndAssumption DEF FrontEndAssumption

LEMMA SlotBounds ==
    ASSUME TypeOK, NEW k \in 0 .. ruu_ifq_size - 1
    PROVE  Behind(fetch_head, k, ruu_ifq_size) \in Slot
  BY Constants, BehindStep DEF TypeOK, Slot

-----------------------------------------------------------------------------
(* The initial state and the steps that leave the queue alone.             *)

LEMMA InitIInv == Init => IInv
  <1> SUFFICES ASSUME Init PROVE IInv OBVIOUS
  <1> USE Constants
  <1>1. goal \in PC BY DEF Init
  <1>2. fetch_regs_PC \in PC
    <2>1. goal + PC_MOD - INST_SIZE \in Int BY <1>1 DEF PC
    <2>2. ASSUME NEW a \in Int, NEW m \in Nat \ {0} PROVE a % m \in 0 .. m - 1 OBVIOUS
    <2> QED BY <2>1, <2>2 DEF Init, PC
  <1>3. fetch_data \in [Slot -> FetchRec] BY DEF Init, FetchRec, Op
  <1>4. fetch_head \in Slot /\ fetch_tail \in Slot /\ fetch_num \in 0 .. ruu_ifq_size
    BY DEF Init, Slot
  <1>5. TypeOK BY Zenon, <1>1, <1>2, <1>3, <1>4 DEF Init, TypeOK
  <1>6. Path BY DEF Init, Path, Behind
  <1>7. Goal /\ Perfect BY DEF Init, Goal, Perfect, following
  <1> QED BY <1>5, <1>6, <1>7 DEF IInv

\* Path and Goal depend on the queue, the fetch address and the path variables.
Still ==
    /\ UNCHANGED <<queueVars, pathVars, pred_type>>
    /\ fetch_pred_PC' = fetch_pred_PC

LEMMA StillFrame == ASSUME Path, Goal, Perfect, Still PROVE Path' /\ Goal' /\ Perfect'
  <1>1. \A k : at(k)' = at(k) BY DEF Still, queueVars, at, Behind
  <1>2. \A k : following(k)' = following(k) BY <1>1 DEF Still, queueVars, following
  <1>3. \A k : Linked(k)' = Linked(k) BY <1>1, <1>2 DEF Linked
  <1>4. Path' BY <1>3 DEF Path, Still, queueVars
  <1>5. Goal' /\ Perfect' BY <1>2 DEF Goal, Perfect, Still, pathVars
  <1> QED BY <1>4, <1>5

LEMMA QuietStep ==
    ASSUME IInv, \/ NoRecovery \/ DispatchDone \/ FetchDone \/ UNCHANGED vars
                 \/ \E lat \in MissLat : FetchMiss(lat)
    PROVE  IInv'
  <1>1. CASE NoRecovery \/ DispatchDone \/ UNCHANGED vars
    <2>1. Still BY <1>1 DEF NoRecovery, DispatchDone, vars, Still, queueVars, fetchVars, pathVars
    <2>2. TypeOK'
      BY <1>1 DEF IInv, TypeOK, NoRecovery, DispatchDone, vars, queueVars, fetchVars, pathVars
    <2> QED BY <2>1, <2>2, StillFrame DEF IInv
  <1>2. CASE FetchDone
    <2>1. Still BY <1>2 DEF FetchDone, Still, queueVars, pathVars
    <2>2. ruu_fetch_issue_delay' \in Nat BY <1>2 DEF FetchDone, IInv, TypeOK
    <2>3. TypeOK'
      BY <1>2, <2>2 DEF IInv, TypeOK, FetchDone, NextCycle, queueVars, pathVars
    <2> QED BY <2>1, <2>3, StillFrame DEF IInv
  <1>3. ASSUME NEW lat \in MissLat, FetchMiss(lat) PROVE IInv'
    <2>1. Still BY <1>3 DEF FetchMiss, Still, queueVars, pathVars
    <2>2. ruu_fetch_issue_delay' \in Nat
      BY <1>3, FrontEndAssumption DEF FetchMiss, FrontEndAssumption
    <2>3. TypeOK'
      BY <1>3, <2>2 DEF IInv, TypeOK, FetchMiss, NextCycle, queueVars, pathVars
    <2> QED BY <2>1, <2>3, StillFrame DEF IInv
  <1> QED BY <1>1, <1>2, <1>3

LEMMA RecoverStep == ASSUME IInv, Recover PROVE IInv'
  <1>0. 0 \in Slot /\ 0 \in 0 .. ruu_ifq_size /\ ruu_branch_penalty \in Nat /\ 0 \in PC
    BY Constants DEF Slot
  <1>1. TypeOK' BY Zenon, <1>0 DEF IInv, TypeOK, Recover
  <1>2. fetch_num' = 0 /\ fetch_head' = 0 /\ fetch_tail' = 0 BY DEF Recover
  <1>3. Path' BY <1>2, Constants DEF Path, Behind
  <1>4. fetch_pred_PC' = goal /\ goal' = goal /\ goal \in Text /\ spec_mode' = FALSE
    BY DEF IInv, Goal, Recover
  <1>5. following(0)' = fetch_pred_PC' BY <1>2 DEF following
  <1>6. Goal' /\ Perfect' BY <1>4, <1>5 DEF Goal, Perfect
  <1> QED BY <1>1, <1>3, <1>6 DEF IInv
-----------------------------------------------------------------------------
(* Dispatch: the head of the queue leaves it, or the queue is emptied.     *)

LEMMA HeadEntry ==
    ASSUME TypeOK, Path, fetch_num # 0
    PROVE  /\ fetch_num \in 1 .. ruu_ifq_size /\ fetch_head \in Slot
           /\ at(0) = fetch_data[fetch_head] /\ at(0) \in FetchRec /\ Linked(0)
  <1>1. fetch_num \in 1 .. ruu_ifq_size /\ fetch_head \in Slot BY Constants DEF TypeOK
  <1>2. Behind(fetch_head, 0, ruu_ifq_size) = fetch_head
    BY <1>1, Constants DEF Behind, Slot
  <1>3. at(0) = fetch_data[fetch_head] BY <1>2 DEF at
  <1> QED BY <1>1, <1>3 DEF TypeOK, Path

LEMMA NextType ==
    ASSUME NEW e \in FetchRec, e.op \in F_CTRL => e.regs_PC \in Text,
           NEW next \in NextPC(e)
    PROVE  next \in PC
  <1>1. e.regs_PC \in PC /\ e.op \in Op BY DEF FetchRec
  <1>2. After(e.regs_PC) \in PC BY <1>1, AfterType
  <1>3. e.op \in F_CTRL => Prog[e.regs_PC].target \in PC BY ProgType
  <1> QED BY <1>1, <1>2, <1>3, Constants DEF NextPC, F_CTRL

\* What Consume() makes of the queue when it is not redirected.
LEMMA ConsumeFrame ==
    ASSUME TypeOK, Path, fetch_num # 0, Consume(FALSE), fetch_data' = fetch_data,
           fetch_pred_PC' = fetch_pred_PC
    PROVE  /\ Path' /\ following(0)' = following(1)
           /\ fetch_head' \in Slot /\ fetch_num' \in 0 .. ruu_ifq_size
           /\ fetch_tail' = fetch_tail
  <1>1. fetch_num \in 1 .. ruu_ifq_size /\ fetch_head \in 0 .. ruu_ifq_size - 1
    BY HeadEntry DEF Slot
  <1>2. /\ fetch_head' = (fetch_head + 1) % ruu_ifq_size
        /\ fetch_num' = fetch_num - 1 /\ fetch_tail' = fetch_tail
    BY DEF Consume
  <1>3. \A k \in 0 .. ruu_ifq_size - 1 :
           Behind(fetch_head', k, ruu_ifq_size) = Behind(fetch_head, k + 1, ruu_ifq_size)
    BY <1>1, <1>2, Constants, BehindStep
  <1>4. fetch_head' \in Slot BY <1>1, <1>2, Constants, BehindStep DEF Slot
  <1>5. \A k \in 0 .. ruu_ifq_size - 1 : at(k)' = at(k + 1) BY <1>3 DEF at
  <1>6. \A k \in 0 .. ruu_ifq_size - 1 : following(k)' = following(k + 1)
    BY <1>1, <1>2, <1>5 DEF following
  <1>7. ASSUME NEW k \in 0 .. fetch_num' - 1 PROVE Linked(k)'
    <2>1. k + 1 \in 0 .. fetch_num - 1 /\ k \in 0 .. ruu_ifq_size - 1
          /\ k + 1 \in 0 .. ruu_ifq_size - 1
      BY <1>1, <1>2, Constants
    <2>2. Linked(k + 1) BY <2>1 DEF Path
    <2>3. at(k)' = at(k + 1) /\ following(k + 1)' = following(k + 2)
      BY <2>1, <1>5, <1>6
    <2>4. (k + 1) + 1 = k + 2 BY <2>1
    <2> QED BY <2>2, <2>3, <2>4 DEF Linked
  <1>8. fetch_tail' = Behind(fetch_head', fetch_num', ruu_ifq_size)
    <2>1. fetch_num - 1 \in 0 .. ruu_ifq_size - 1 /\ (fetch_num - 1) + 1 = fetch_num
      BY <1>1, Constants
    <2> QED BY <2>1, <1>2, <1>3 DEF Path
  <1>9. following(0)' = following(1) BY <1>6, Constants
  <1>10. fetch_num' \in 0 .. ruu_ifq_size BY <1>1, <1>2, Constants
  <1>11. Path' BY <1>7, <1>8 DEF Path
  <1> QED BY <1>2, <1>4, <1>9, <1>10, <1>11

\* What it makes of a redirected queue.
LEMMA RedirectFrame ==
    ASSUME Consume(TRUE)
    PROVE  /\ fetch_num' = 0 /\ fetch_head' = 0 /\ fetch_tail' = 0
           /\ Path' /\ following(0)' = fetch_pred_PC'
  <1>1. ruu_ifq_size % ruu_ifq_size = 0 BY Constants
  <1>2. (ruu_ifq_size - 1) + 1 = ruu_ifq_size BY Constants
  <1>3. fetch_num' = 0 /\ fetch_head' = 0 /\ fetch_tail' = 0
    BY <1>1, <1>2 DEF Consume
  <1> QED BY <1>3, Constants DEF Path, following, Behind

LEMMA DispatchStep == ASSUME IInv, Dispatch PROVE IInv'
  <1> DEFINE e == fetch_data[fetch_head]
  <1>1. fetch_num # 0 /\ TypeOK /\ Path /\ Goal /\ Perfect
    BY DEF IInv, Dispatch, CanDispatch
  <1>2. e = at(0) /\ e \in FetchRec /\ Linked(0) /\ fetch_num \in 1 .. ruu_ifq_size
    BY <1>1, HeadEntry
  <1>3. PICK next \in NextPC(e) :
         LET redirect == Redirect(e, next)
             wrong    == ~spec_mode /\ e.pred_PC # next /\ ~redirect
         IN /\ ~spec_mode => next \in Text
            /\ IF redirect
               THEN /\ fetch_pred_PC' = next /\ fetch_regs_PC' = next /\ arriving' = 0
                    /\ ruu_fetch_issue_delay' =
                          IF pred_type = "perfect" THEN ruu_fetch_issue_delay
                          ELSE ruu_branch_penalty
               ELSE UNCHANGED fetchVars
            /\ Consume(redirect)
            /\ spec_mode' = (spec_mode \/ wrong)
            /\ recover_PC' = IF wrong THEN next ELSE recover_PC
            /\ IF spec_mode THEN UNCHANGED <<goal, beat>>
                            ELSE goal' = next /\ beat' = 1 - beat
    BY DEF Dispatch
  <1>4. next \in PC
    <2>1. e.op \in F_CTRL => e.regs_PC \in Text BY <1>2 DEF Linked
    <2> QED BY Zenon, <1>2, <2>1, NextType
  <1>5. /\ stage' = stage /\ pred_type' = pred_type /\ fetch_data' = fetch_data
        /\ branch_cnt' = branch_cnt /\ n' \in Nat
    BY <1>1 DEF Dispatch, TypeOK
  <1>6. spec_mode' \in BOOLEAN /\ recover_PC' \in PC /\ goal' \in PC /\ beat' \in {0, 1}
    BY <1>1, <1>3, <1>4, Constants DEF TypeOK
  <1>7. CASE Redirect(e, next)
    <2>1. Consume(TRUE) BY Zenon, <1>3, <1>7
    <2>2. fetch_pred_PC' = next /\ fetch_regs_PC' = next /\ arriving' = 0
          /\ ruu_fetch_issue_delay' \in Nat
      BY <1>1, <1>3, <1>7, Constants DEF TypeOK
    <2>3. 0 \in Slot /\ 0 \in 0 .. ruu_ifq_size /\ 0 \in PC BY Constants DEF Slot
    <2>4. fetch_num' = 0 /\ fetch_head' = 0 /\ fetch_tail' = 0 BY <2>1, RedirectFrame
    <2>5. TypeOK' BY <1>1, <1>4, <1>5, <1>6, <2>2, <2>3, <2>4 DEF TypeOK
    <2>6. Path' /\ following(0)' = next BY <2>1, <2>2, RedirectFrame
    <2>7. spec_mode' = spec_mode /\ recover_PC' = recover_PC
      BY <1>1, <1>3, <1>7 DEF TypeOK
    <2>8. Goal' BY <1>1, <1>3, <2>6, <2>7 DEF Goal
    <2>9. Perfect' BY <1>1, <1>5, <2>7 DEF Perfect
    <2> QED BY <2>5, <2>6, <2>8, <2>9 DEF IInv
  <1>8. CASE ~Redirect(e, next)
    <2>1. Consume(FALSE) BY <1>3, <1>8 DEF Consume
    <2>2. UNCHANGED fetchVars BY <1>3, <1>8
    <2>3. /\ Path' /\ following(0)' = following(1)
          /\ fetch_head' \in Slot /\ fetch_num' \in 0 .. ruu_ifq_size
          /\ fetch_tail' = fetch_tail
      BY <1>1, <1>5, <2>1, <2>2, ConsumeFrame DEF fetchVars
    <2>4. TypeOK' BY <1>1, <1>5, <1>6, <2>2, <2>3 DEF TypeOK, fetchVars
    <2>5. following(1) = e.pred_PC BY <1>2 DEF Linked
    <2>6. Goal' BY Zenon, <1>1, <1>3, <1>8, <2>3, <2>5 DEF Goal
    <2>7. pred_type = "perfect" => e.pred_PC = next BY <1>8 DEF Redirect
    <2>8. Perfect' BY <1>1, <1>3, <1>5, <2>7 DEF Perfect, TypeOK
    <2> QED BY <2>3, <2>4, <2>6, <2>8 DEF IInv
  <1> QED BY <1>7, <1>8
-----------------------------------------------------------------------------
(* Fetch: a new entry behind the last one.                                 *)

LEMMA FetchStep == ASSUME IInv, NEW raw \in PC, Fetch(raw) PROVE IInv'
  <1> DEFINE pc   == fetch_pred_PC
             op   == IF pc \in Text THEN Prog[pc].op ELSE "nop"
             next == IF raw = 0 THEN After(pc) ELSE raw
             new  == [op |-> op, regs_PC |-> pc, pred_PC |-> next]
  <1>1. TypeOK /\ Path /\ Goal /\ Perfect BY DEF IInv
  <1>2. /\ pc \in PC /\ fetch_head \in 0 .. ruu_ifq_size - 1
        /\ fetch_num \in 0 .. ruu_ifq_size - 1
    BY <1>1, Constants DEF Fetch, Fetching, TypeOK, Slot
  <1>3. op \in Op /\ next \in PC BY <1>2, ProgType, AfterType DEF Op
  <1>4. new \in FetchRec BY <1>2, <1>3 DEF FetchRec
  <1>5. /\ fetch_data' = [fetch_data EXCEPT ![fetch_tail] = new]
        /\ fetch_regs_PC' = pc /\ fetch_pred_PC' = next
        /\ fetch_tail' = (fetch_tail + 1) % ruu_ifq_size
        /\ fetch_num' = fetch_num + 1
        /\ arriving' = 0 /\ n' = n + 1
        /\ branch_cnt' = IF raw = 0 THEN branch_cnt ELSE branch_cnt + 1
        /\ UNCHANGED <<stage, pred_type, fetch_head, ruu_fetch_issue_delay>>
        /\ UNCHANGED <<spec_mode, recover_PC, goal, beat>>
    BY DEF Fetch, Fetched, pathVars
  <1>6. op \notin F_CTRL => next = After(pc) BY DEF Fetch
  <1>7. op \in F_CTRL => pc \in Text BY DEF F_CTRL
  <1>8. /\ fetch_tail = Behind(fetch_head, fetch_num, ruu_ifq_size)
        /\ fetch_tail' = Behind(fetch_head, fetch_num + 1, ruu_ifq_size)
        /\ fetch_tail' \in Slot /\ fetch_tail \in Slot
    <2>1. fetch_tail = Behind(fetch_head, fetch_num, ruu_ifq_size) BY <1>1 DEF Path
    <2>2. fetch_tail' = Behind(fetch_head, fetch_num + 1, ruu_ifq_size)
      BY <1>2, <1>5, <2>1, Constants, BehindStep
    <2>3. fetch_tail \in 0 .. ruu_ifq_size - 1 BY <1>1 DEF TypeOK, Slot
    <2>4. fetch_tail' \in Slot BY <1>5, <2>3, Constants, BehindStep DEF Slot
    <2> QED BY <2>1, <2>2, <2>3, <2>4 DEF Slot
  <1>9. TypeOK'
    <2>1. fetch_num' \in 0 .. ruu_ifq_size BY <1>2, <1>5, Constants
    <2>2. n' \in Nat /\ branch_cnt' \in Nat BY <1>1, <1>5 DEF TypeOK
    <2>3. fetch_data' \in [Slot -> FetchRec] BY <1>1, <1>4, <1>5 DEF TypeOK
    <2>4. 0 \in PC BY Constants
    <2> QED BY <1>1, <1>2, <1>3, <1>5, <1>8, <2>1, <2>2, <2>3, <2>4 DEF TypeOK
  <1>10. ASSUME NEW k \in 0 .. fetch_num - 1
         PROVE  at(k)' = at(k) /\ following(k)' = following(k)
    <2>1. k \in 0 .. ruu_ifq_size - 1 /\ k # fetch_num /\ k < fetch_num /\ k < fetch_num'
      BY <1>2, <1>5, Constants
    <2>2. Behind(fetch_head, k, ruu_ifq_size) # fetch_tail
      BY <1>2, <1>8, <2>1, Constants, BehindDiffers
    <2>3. Behind(fetch_head, k, ruu_ifq_size) \in Slot BY <1>1, <2>1, SlotBounds
    <2>4. at(k)' = at(k) BY <1>1, <1>5, <2>2, <2>3 DEF at, TypeOK
    <2> QED BY <2>1, <2>4 DEF following
  <1>11. ASSUME NEW k, k = fetch_num
         PROVE  at(k)' = new /\ following(k)' = following(k) /\ following(k + 1)' = next
    <2>1. fetch_data'[fetch_tail] = new BY <1>1, <1>5, <1>8 DEF TypeOK
    <2>2. at(k)' = new BY <1>5, <1>8, <1>11, <2>1 DEF at
    <2>3. k < fetch_num' /\ ~(k < fetch_num) /\ ~(k + 1 < fetch_num')
      BY <1>2, <1>5, <1>11
    <2>4. following(k)' = pc /\ following(k) = pc BY <2>2, <2>3 DEF following
    <2>5. following(k + 1)' = next BY <1>5, <2>3 DEF following
    <2> QED BY <2>2, <2>4, <2>5
  <1>12. ASSUME NEW k \in 0 .. fetch_num' - 1 PROVE Linked(k)'
    <2>1. CASE k = fetch_num
      <3>1. at(k)' = new /\ following(k + 1)' = next BY <2>1, <1>11
      <3>2. at(k)'.op = op /\ at(k)'.regs_PC = pc /\ at(k)'.pred_PC = next BY <3>1
      <3> QED BY <3>1, <3>2, <1>6, <1>7 DEF Linked, After
    <2>2. CASE k \in 0 .. fetch_num - 1
      <3>1. Linked(k) /\ at(k)' = at(k) BY <1>1, <1>10, <2>2 DEF Path
      <3>2. k + 1 = fetch_num \/ k + 1 \in 0 .. fetch_num - 1 BY <1>2, <2>2
      <3>3. following(k + 1)' = following(k + 1) BY <1>10, <1>11, <3>2
      <3> QED BY <3>1, <3>3 DEF Linked
    <2> QED BY <1>2, <1>5, <2>1, <2>2
  <1>13. Path' BY <1>5, <1>8, <1>12 DEF Path
  <1>14. following(0)' = following(0)
    <2>1. 0 = fetch_num \/ 0 \in 0 .. fetch_num - 1 BY <1>2
    <2> QED BY <2>1, <1>10, <1>11
  <1>15. Goal' /\ Perfect' BY <1>1, <1>5, <1>14 DEF Goal, Perfect
  <1> QED BY <1>9, <1>13, <1>15 DEF IInv
-----------------------------------------------------------------------------
(* The theorems.                                                           *)

LEMMA NextIInv == IInv /\ [Next]_vars => IInv'
  <1> SUFFICES ASSUME IInv, [Next]_vars PROVE IInv' OBVIOUS
  <1>1. CASE Recover BY <1>1, RecoverStep
  <1>2. CASE NoRecovery BY <1>2, QuietStep
  <1>3. CASE Dispatch BY <1>3, DispatchStep
  <1>4. CASE DispatchDone BY <1>4, QuietStep
  <1>5. CASE \E lat \in MissLat : FetchMiss(lat) BY <1>5, QuietStep
  <1>6. CASE \E raw \in PC : Fetch(raw) BY <1>6, FetchStep
  <1>7. CASE FetchDone BY <1>7, QuietStep
  <1>8. CASE UNCHANGED vars BY <1>8, QuietStep
  <1> QED BY <1>1, <1>2, <1>3, <1>4, <1>5, <1>6, <1>7, <1>8 DEF Next

\* The invariant is inductive: every step of ruu_writeback(), ruu_dispatch() and
\* ruu_fetch() on the fetch queue keeps it.
THEOREM PathInductive == Spec => []IInv
  BY InitIInv, NextIInv, PTL DEF Spec

\* The remainders of the code address the places the invariant speaks of.
LEMMA Places ==
    ASSUME TypeOK
    PROVE  /\ \A k \in 0 .. fetch_num - 1 : Entry(k) = at(k)
           /\ \A k \in 0 .. fetch_num : Following(k) = following(k)
           /\ (fetch_head + fetch_num) % ruu_ifq_size
                = Behind(fetch_head, fetch_num, ruu_ifq_size)
  <1>1. fetch_num \in 0 .. ruu_ifq_size /\ fetch_head \in 0 .. ruu_ifq_size - 1
    BY DEF TypeOK, Slot
  <1>2. \A k \in 0 .. ruu_ifq_size :
           (fetch_head + k) % ruu_ifq_size = Behind(fetch_head, k, ruu_ifq_size)
    BY <1>1, Constants, RingArith
  <1>3. \A k \in 0 .. ruu_ifq_size : Entry(k) = at(k) BY <1>2 DEF Entry, at
  <1>4. \A k \in 0 .. ruu_ifq_size : Following(k) = following(k)
    BY <1>3 DEF Following, following
  <1>5. 0 .. fetch_num \subseteq 0 .. ruu_ifq_size BY <1>1, Constants
  <1>6. 0 .. fetch_num - 1 \subseteq 0 .. ruu_ifq_size BY <1>1, Constants
  <1> QED BY <1>1, <1>2, <1>3, <1>4, <1>5, <1>6

\* The fetch queue is one unbroken path, through misfetches and recoveries.
THEOREM QueueIsOnePath == Spec => []OnePath
  <1>1. IInv => OnePath
    <2> SUFFICES ASSUME IInv PROVE OnePath OBVIOUS
    <2>1. TypeOK /\ Path /\ fetch_num \in Nat BY Constants DEF IInv, TypeOK
    <2>2. ASSUME NEW k \in 0 .. fetch_num - 1 PROVE Entry(k).pred_PC = Following(k + 1)
      <3>1. k + 1 \in 0 .. fetch_num BY <2>1
      <3> QED BY <2>1, <3>1, Places DEF Path, Linked
    <2> QED BY <2>1, <2>2, Places DEF OnePath, Path
  <1> QED BY <1>1, PathInductive, PTL

\* sim-outorder executes the program: what ruu_dispatch() takes outside
\* speculative mode, and what tracer_recover() returns to, is the instruction the
\* program executes next.
THEOREM ExecutesTheProgram == Spec => []RightPath
  <1>1. IInv => RightPath
    <2> SUFFICES ASSUME IInv PROVE RightPath OBVIOUS
    <2>1. TypeOK /\ Goal /\ fetch_num \in Nat BY Constants DEF IInv, TypeOK
    <2>2. Following(0) = following(0) BY <2>1, Places
    <2> QED BY <2>1, <2>2 DEF RightPath, Goal
  <1> QED BY <1>1, PathInductive, PTL

\* Speculative mode is entered behind a control transfer only, never behind the
\* NOP that ruu_dispatch() gives no RUU station.
THEOREM BranchesOnly == Spec => []OnlyBranchesMispredict
  <1>1. IInv => OnlyBranchesMispredict
    <2> SUFFICES ASSUME IInv, NEW k \in 0 .. fetch_num - 1
                 PROVE  /\ Entry(k).op \notin F_CTRL =>
                              Entry(k).pred_PC = After(Entry(k).regs_PC)
                        /\ ~spec_mode /\ k = 0 => Entry(k).regs_PC \in Text
      BY DEF OnlyBranchesMispredict
    <2>1. TypeOK /\ Path /\ Goal /\ fetch_num \in Nat BY Constants DEF IInv, TypeOK
    <2>2. Entry(k) = at(k) BY <2>1, Places
    <2>3. Linked(k) BY <2>1 DEF Path
    <2>4. ~spec_mode /\ k = 0 => at(k).regs_PC \in Text
      BY <2>1 DEF Goal, following
    <2> QED BY <2>2, <2>3, <2>4 DEF Linked
  <1> QED BY <1>1, PathInductive, PTL

\* With -bpred perfect the simulator never enters speculative mode.
THEOREM PerfectIsPerfect == Spec => []PerfectNeverSpeculates
  <1>1. IInv => PerfectNeverSpeculates BY DEF IInv, Perfect, PerfectNeverSpeculates
  <1> QED BY <1>1, PathInductive, PTL

\* Queue indices stay inside fetch_data and addresses inside their width.
THEOREM FrontEndTypes == Spec => []TypeOK
  <1>1. IInv => TypeOK BY DEF IInv
  <1> QED BY <1>1, PathInductive, PTL
=============================================================================
