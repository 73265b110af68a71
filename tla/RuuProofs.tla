------------------------------ MODULE RuuProofs ------------------------------
(***************************************************************************)
(* Proofs about the out-of-order core, for every size, width, program and  *)
(* functional unit configuration: the rings are consistent, speculation    *)
(* and recovery are exact, events are on time.                             *)
(***************************************************************************)
EXTENDS RuuTypeProofs, Rings

\* A leaf that names no prover is given to the SMT solver, to Zenon if that fails, and
\* then to the SMT solver with more time.
USE SMTT(30), ZenonT(20), SMTT(60)

Ring == 0 .. RUU_size - 1

\* The age of RUU entry i, without remainders.
age(i) == IF i >= RUU_head THEN i - RUU_head ELSE i - RUU_head + RUU_size

LEMMA AgeLive ==
    ASSUME Shape, NEW i \in Ring
    PROVE  /\ R(i) \in Station /\ ~InLSQ(R(i))
           /\ Age(R(i)) = age(i) /\ age(i) \in Ring
           /\ Live(R(i)) = (age(i) < RUU_num)
  <1>1. RUU_size \in Nat \ {0} /\ RUU_head \in 0 .. RUU_size - 1
    BY SizesAssumption DEF SizesAssumption, Shape
  <1>2. R(i) \in Station BY StationMember, SizesAssumption DEF Ring
  <1>3. ~InLSQ(R(i)) BY DEF InLSQ, R
  <1>4. R(i)[2] = i BY DEF R
  <1>5. Age(R(i)) = (i - RUU_head + RUU_size) % RUU_size BY <1>3, <1>4 DEF Age
  <1>6. Age(R(i)) = age(i) BY Zenon, <1>1, <1>5, RingArith DEF Ring, age
  <1>7. age(i) \in Ring BY <1>1 DEF age, Ring
  <1> QED BY <1>2, <1>3, <1>6, <1>7 DEF Live

LEMMA LiveRuuIs ==
    ASSUME Shape PROVE LiveRuu = {R(i) : i \in {j \in Ring : age(j) < RUU_num}}
  <1>1. ASSUME NEW s \in LiveRuu PROVE \E i \in Ring : s = R(i) /\ age(i) < RUU_num
    <2>1. s \in Station /\ Live(s) /\ ~InLSQ(s) BY DEF LiveRuu, LiveStations
    <2>2. PICK i \in Ring : s = R(i) BY <2>1 DEF Station, InLSQ, R, Ring
    <2> QED BY Zenon, <2>1, <2>2, AgeLive
  <1>2. ASSUME NEW i \in Ring, age(i) < RUU_num PROVE R(i) \in LiveRuu
    BY Zenon, <1>2, AgeLive DEF LiveRuu, LiveStations
  <1> QED BY <1>1, <1>2

-----------------------------------------------------------------------------
(* Speculation.  The invariant ranges over all RUU entries, live or not: a *)
(* retired entry is completed and a squashed one was on the wrong path, so *)
(* neither can end speculative mode, whatever its stale links say.         *)

live(i) == age(i) < RUU_num
ends(i) == Resolves(R(i))
wrong(i) == rs[R(i)].spec_mode

Branch(b) ==
    /\ live(b) /\ ends(b) /\ ~wrong(b)
    /\ \A i \in Ring \ {b} :
          ~ends(i) /\ (live(i) => wrong(i) = (age(i) > age(b)))

Revealed(s) == rs[s].recover_inst /\ rs[s].completed

SpecInv ==
    /\ RUU_num \in 0 .. RUU_size
    /\ RUU_tail = Behind(RUU_head, RUU_num, RUU_size)
    /\ spec_mode => \E b \in Ring : Branch(b)
    /\ ~spec_mode => \A i \in Ring : ~ends(i) /\ (live(i) => ~wrong(i))
    /\ stage = "recover" => \E c \in Ring : cur = R(c) /\ Revealed(R(c))

\* A step that keeps what the RUU entries say about control and memory.
Kept ==
    \A i \in Ring : /\ rs'[R(i)].recover_inst = rs[R(i)].recover_inst
                    /\ rs'[R(i)].completed = rs[R(i)].completed
                    /\ rs'[R(i)].spec_mode = rs[R(i)].spec_mode
                    /\ rs'[R(i)].ea_comp = rs[R(i)].ea_comp

\* An action that leaves the ring, the mode and what each entry says about
\* speculation alone preserves the invariant.
LEMMA SpecFrame ==
    ASSUME SpecInv, UNCHANGED <<ruuVars, spec_mode>>,
           \A i \in Ring : ends(i)' = ends(i) /\ wrong(i)' = wrong(i),
           stage' = "recover" => \E c \in Ring : cur' = R(c) /\ Revealed(R(c))'
    PROVE  SpecInv'
  <1>1. \A i \in Ring : age(i)' = age(i) /\ live(i)' = live(i)
    BY DEF age, live, ruuVars
  <1>2. \A b \in Ring : Branch(b) => Branch(b)' BY <1>1 DEF Branch
  <1> QED BY <1>1, <1>2 DEF SpecInv, ruuVars

\* ... in particular one outside recovery that keeps the three flags.
LEMMA FlagsFrame ==
    ASSUME SpecInv, UNCHANGED <<ruuVars, spec_mode>>,
           stage # "recover", stage' # "recover",
           Kept
    PROVE  SpecInv'
  <1>1. \A i \in Ring : ends(i)' = ends(i) /\ wrong(i)' = wrong(i)
    BY DEF ends, wrong, Resolves, Kept
  <1> QED BY <1>1, SpecFrame

LEMMA InitSpecInv == Init => SpecInv
  <1> SUFFICES ASSUME Init PROVE SpecInv OBVIOUS
  <1>1. RUU_size \in Nat \ {0, 1} BY SizesAssumption DEF SizesAssumption
  <1>2. \A i \in Ring : R(i) \in Station BY StationMember, SizesAssumption DEF Ring
  <1>3. \A i \in Ring : rs[R(i)].recover_inst = FALSE /\ rs[R(i)].spec_mode = FALSE
    BY <1>2 DEF Init
  <1>4. \A i \in Ring : ~ends(i) /\ ~wrong(i) BY <1>3 DEF ends, wrong, Resolves
  <1> QED BY <1>1, <1>4 DEF Init, SpecInv, Behind

\* A station is written through one of its entries only.
LEMMA RuuEntries ==
    ASSUME NEW i \in Ring, NEW j \in Ring, NEW k
    PROVE  R(i) # L(k) /\ (R(i) = R(j) => i = j)
  BY DEF R, L

\* ruu_commit() retires a completed entry at the head.
LEMMA CommitSpecInv ==
    ASSUME Shape, SpecInv, stage = "commit", stage' = stage, cur' = cur, CommitReady,
           RUU_head' = (RUU_head + 1) % RUU_size, RUU_num' = RUU_num - 1,
           RUU_tail' = RUU_tail, spec_mode' = spec_mode,
           Kept
    PROVE  SpecInv'
  <1>0. /\ RUU_size \in Nat \ {0} /\ RUU_head \in Ring /\ RUU_num \in 1 .. RUU_size
        /\ RUU_tail = Behind(RUU_head, RUU_num, RUU_size)
    BY SizesAssumption DEF SizesAssumption, Shape, SpecInv, CommitReady, Ring
  <1>1. RUU_head' = IF RUU_head + 1 = RUU_size THEN 0 ELSE RUU_head + 1
    BY <1>0, ModInc DEF Ring
  <1>2. /\ RUU_num' \in 0 .. RUU_size
        /\ RUU_tail' = Behind(RUU_head', RUU_num', RUU_size)
    BY <1>0, <1>1 DEF Behind, Ring
  <1>3. \A i \in Ring : ends(i)' = ends(i) /\ wrong(i)' = wrong(i)
    BY DEF ends, wrong, Resolves, Kept
  <1>4. \A i \in Ring : age(i) \in Ring /\ age(i)' = IF i = RUU_head THEN RUU_size - 1 ELSE age(i) - 1
    BY <1>0, <1>1 DEF age, Ring
  <1>5. \A i \in Ring : live(i)' = (live(i) /\ i # RUU_head)
    BY <1>0, <1>1 DEF age, Ring, live
  <1>6. ~ends(RUU_head) BY DEF ends, Resolves, CommitReady
  <1>7. \A b \in Ring : Branch(b) => Branch(b)'
    <2> SUFFICES ASSUME NEW b \in Ring, Branch(b) PROVE Branch(b)' OBVIOUS
    <2>1. b # RUU_head BY <1>6 DEF Branch
    <2>2. live(b)' /\ ends(b)' /\ ~wrong(b)' BY Zenon, <1>3, <1>5, <2>1 DEF Branch
    <2>3. ASSUME NEW i \in Ring \ {b}
          PROVE  ~ends(i)' /\ (live(i)' => wrong(i)' = (age(i)' > age(b)'))
      <3>1. ~ends(i) /\ (live(i) => wrong(i) = (age(i) > age(b))) BY DEF Branch
      <3>2. live(i)' => live(i) /\ i # RUU_head BY Zenon, <1>5
      <3>3. i # RUU_head => (age(i)' > age(b)') = (age(i) > age(b))
        BY <1>4, <2>1 DEF Ring
      <3> QED BY <1>3, <3>1, <3>2, <3>3
    <2> QED BY <2>2, <2>3 DEF Branch
  <1> QED BY Zenon, <1>2, <1>3, <1>5, <1>7 DEF SpecInv


\* ruu_recover() squashes the youngest entry, which is not the branch.
LEMMA RecoverSpecInv ==
    ASSUME Shape, SpecInv, stage = "recover", stage' = stage, cur' = cur,
           R(RUU_index) # cur, RUU_tail' = RUU_index, RUU_num' = RUU_num - 1,
           RUU_head' = RUU_head, spec_mode' = spec_mode,
           Kept
    PROVE  SpecInv' /\ RUU_num > 0 /\ RUU_index # RUU_head
  <1>0. /\ RUU_size \in Nat \ {0} /\ RUU_head \in Ring /\ RUU_num \in 0 .. RUU_size
        /\ RUU_tail = Behind(RUU_head, RUU_num, RUU_size) /\ RUU_tail \in Ring
    BY SizesAssumption DEF SizesAssumption, Shape, SpecInv, Ring
  <1>1. RUU_index = IF RUU_tail = 0 THEN RUU_size - 1 ELSE RUU_tail - 1
    BY <1>0, ModInc DEF Ring, RUU_index
  <1>2. PICK c \in Ring : cur = R(c) /\ Revealed(R(c)) BY DEF SpecInv
  <1>3. ends(c) BY <1>2 DEF ends, Resolves, Revealed
  <1>4. spec_mode BY <1>3 DEF SpecInv
  <1>5. PICK b \in Ring : Branch(b) BY <1>4 DEF SpecInv
  <1>6. b = c BY <1>3, <1>5 DEF Branch
  <1>7. RUU_index \in Ring /\ RUU_index # b BY <1>0, <1>1, <1>2, <1>6 DEF Ring
  <1>8. live(b) /\ age(b) \in Ring BY <1>0, <1>5 DEF Branch, age, Ring
  <1>9. RUU_num > 0 BY <1>0, <1>8 DEF live, Ring
  <1>10. age(RUU_index) = RUU_num - 1 BY <1>0, <1>1, <1>9 DEF age, Behind, Ring
  <1>11. age(b) < RUU_num - 1
    <2>1. age(b) # age(RUU_index) BY <1>0, <1>7 DEF age, Ring
    <2> QED BY <1>0, <1>8, <1>10, <2>1 DEF live, Ring
  <1>12. RUU_index # RUU_head BY <1>0, <1>8, <1>10, <1>11 DEF age, Ring
  <1>13. /\ RUU_num' \in 0 .. RUU_size
         /\ RUU_tail' = Behind(RUU_head', RUU_num', RUU_size)
    BY <1>0, <1>1, <1>9 DEF Behind, Ring
  <1>14. \A i \in Ring : ends(i)' = ends(i) /\ wrong(i)' = wrong(i) /\ age(i)' = age(i)
    BY DEF ends, wrong, Resolves, age, Kept
  <1>15. \A i \in Ring : live(i)' => live(i)
    BY <1>0, <1>14 DEF live, Ring, age
  <1>16. live(b)' BY <1>11, <1>14 DEF live
  <1>17. Branch(b)' BY <1>5, <1>14, <1>15, <1>16 DEF Branch
  <1>18. SpecInv' BY <1>2, <1>4, <1>13, <1>17 DEF SpecInv, Revealed, Kept
  <1> QED BY <1>9, <1>12, <1>18

\* The walk has met the branch: nothing on the wrong path is left.
LEMMA RecoverDoneSpecInv == Shape /\ SpecInv /\ RecoverDone => SpecInv'
  <1> SUFFICES ASSUME Shape, SpecInv, RecoverDone PROVE SpecInv' OBVIOUS
  <1>0. /\ RUU_size \in Nat \ {0} /\ RUU_head \in Ring /\ RUU_num \in 0 .. RUU_size
        /\ RUU_tail = Behind(RUU_head, RUU_num, RUU_size) /\ RUU_tail \in Ring
    BY SizesAssumption DEF SizesAssumption, Shape, SpecInv, Ring
  <1>1. RUU_index = IF RUU_tail = 0 THEN RUU_size - 1 ELSE RUU_tail - 1
    BY Zenon, <1>0, ModInc DEF Ring, RUU_index
  <1>2. PICK c \in Ring : cur = R(c) /\ Revealed(R(c))
    BY DEF SpecInv, RecoverDone
  <1>3. ends(c) BY <1>2 DEF ends, Resolves, Revealed, RecoverDone
  <1>4. PICK b \in Ring : Branch(b) BY <1>3 DEF SpecInv
  <1>5. b = c /\ RUU_index \in Ring BY <1>0, <1>1, <1>3, <1>4 DEF Branch, Ring
  <1>6. RUU_index = b BY <1>2, <1>5, RuuEntries DEF RecoverDone
  <1>7. RUU_num > 0 BY <1>0, <1>4 DEF live, age, Ring, Branch
  <1>8. age(b) = RUU_num - 1 BY <1>0, <1>1, <1>6, <1>7 DEF age, Behind, Ring
  <1>9. /\ UNCHANGED <<RUU_head, RUU_tail, RUU_num, rs, cur>>
        /\ spec_mode' = FALSE /\ stage' = "broadcast"
    BY DEF RecoverDone, ruuVars, wbVars
  <1>10. \A i \in Ring : live(i) => ~wrong(i)
    <2> SUFFICES ASSUME NEW i \in Ring, live(i) PROVE ~wrong(i) OBVIOUS
    <2>1. age(i) \in Int /\ ~(age(i) > age(b)) BY <1>0, <1>8 DEF live, age, Ring
    <2> QED BY Zenon, <1>4, <2>1 DEF Branch
  <1>11. \A i \in Ring : ~ends(i)'
    <2> SUFFICES ASSUME NEW i \in Ring PROVE ~ends(i)' OBVIOUS
    <2>1. CASE i = b
      <3>1. rs[R(b)].completed
        BY <1>2, <1>5 DEF Revealed
      <3> QED BY <1>9, <2>1, <3>1 DEF ends, Resolves
    <2>2. CASE i # b
      <3>1. ~ends(i) BY <1>4, <2>2 DEF Branch
      <3> QED BY <1>9, <3>1 DEF ends, Resolves
    <2> QED BY <2>1, <2>2
  <1>12. \A i \in Ring : live(i)' = live(i) /\ wrong(i)' = wrong(i)
    BY <1>9 DEF live, age, wrong
  <1> QED BY <1>0, <1>9, <1>10, <1>11, <1>12 DEF SpecInv


\* A completing misprediction goes on to recovery, which it then ends.
LEMMA WritebackEventSpecInv == Shape /\ SpecInv /\ WritebackEvent => SpecInv'
  <1> SUFFICES ASSUME Shape, SpecInv, WritebackEvent PROVE SpecInv' OBVIOUS
  <1> DEFINE s == Head(event_queue).rs
  <1>1. s \in Station
    <2>1. event_queue \in Seq(Event) /\ event_queue # << >>
      BY DEF Shape, WritebackEvent, EventDue
    <2>2. Head(event_queue) \in Event BY <2>1
    <2> QED BY <2>2 DEF Event
  <1>2. /\ Completable(s) /\ cur' = s /\ stage = "writeback"
        /\ stage' = IF rs[s].recover_inst THEN "recover" ELSE "broadcast"
        /\ rs' = [rs EXCEPT ![s].completed = TRUE]
        /\ UNCHANGED <<ruuVars, spec_mode>>
    BY DEF WritebackEvent
  <1> HIDE DEF s
  <1>3. \A t \in Station : /\ rs'[t].recover_inst = rs[t].recover_inst
                           /\ rs'[t].spec_mode = rs[t].spec_mode
                           /\ rs'[t].completed = (rs[t].completed \/ t = s)
    BY ZenonT(40), <1>1, <1>2, StationTyped DEF Shape, StationType
  <1>4. \A i \in Ring : R(i) \in Station BY StationMember, SizesAssumption DEF Ring
  <1>5. ~rs[s].completed BY <1>2 DEF Completable
  <1>6. \A i \in Ring : ends(i)' = ends(i) /\ wrong(i)' = wrong(i)
    BY <1>2, <1>3, <1>4, <1>5 DEF ends, wrong, Resolves
  <1>7. ASSUME stage' = "recover" PROVE \E c \in Ring : cur' = R(c) /\ Revealed(R(c))'
    <2>1. rs[s].recover_inst /\ ~InLSQ(s) BY <1>2, <1>7 DEF Completable
    <2>2. PICK c \in Ring : s = R(c) BY <1>1, <2>1 DEF Station, InLSQ, R, Ring
    <2> QED BY Zenon, <1>1, <1>2, <1>3, <2>1, <2>2 DEF Revealed
  <1> QED BY <1>2, <1>6, <1>7, SpecFrame

\* A new youngest entry: on the wrong path in speculative mode, and the branch
\* that starts it when it is mispredicted.
LEMMA DispatchSpecInv ==
    ASSUME Shape, SpecInv, NEW mis \in BOOLEAN, NEW t \in Ring,
           RUU_tail = t, stage = "dispatch", stage' = stage,
           cur' = cur, RUU_num < RUU_size, mis => ~spec_mode,
           RUU_tail' = (RUU_tail + 1) % RUU_size, RUU_num' = RUU_num + 1,
           RUU_head' = RUU_head, spec_mode' = (spec_mode \/ mis),
           \A i \in Ring \ {t} :
                           /\ rs'[R(i)].recover_inst = rs[R(i)].recover_inst
                           /\ rs'[R(i)].completed = rs[R(i)].completed
                           /\ rs'[R(i)].spec_mode = rs[R(i)].spec_mode,
           rs'[R(t)].recover_inst = mis, ~rs'[R(t)].completed,
           rs'[R(t)].spec_mode = spec_mode
    PROVE  SpecInv'
  <1>0. /\ RUU_size \in Nat \ {0} /\ RUU_head \in Ring /\ RUU_num \in 0 .. RUU_size
        /\ t = Behind(RUU_head, RUU_num, RUU_size)
        /\ spec_mode \in BOOLEAN
    BY SizesAssumption DEF SizesAssumption, Shape, SpecInv, Ring
  <1>1. RUU_tail' = IF t + 1 = RUU_size THEN 0 ELSE t + 1
    BY <1>0, ModInc DEF Ring
  <1>2. /\ RUU_num' \in 0 .. RUU_size
        /\ RUU_tail' = Behind(RUU_head', RUU_num', RUU_size)
    BY <1>0, <1>1 DEF Behind, Ring
  <1>3. \A i \in Ring \ {t} : ends(i)' = ends(i) /\ wrong(i)' = wrong(i)
    BY DEF ends, wrong, Resolves
  <1>4. ends(t)' = mis /\ wrong(t)' = spec_mode
    BY Zenon, <1>0 DEF ends, wrong, Resolves
  <1>5. age(t) = RUU_num BY <1>0 DEF age, Behind, Ring
  <1>6. \A i \in Ring : age(i)' = age(i) /\ age(i) \in Ring
    BY <1>0 DEF age, Ring
  <1>7. \A i \in Ring \ {t} : live(i)' = live(i)
    BY <1>0, <1>6 DEF age, Ring, live, Behind
  <1>8. live(t)' /\ ~live(t) BY <1>0, <1>5, <1>6 DEF live, Ring
  <1>9. CASE spec_mode
    <2>1. PICK b \in Ring : Branch(b) BY <1>9 DEF SpecInv
    <2>2. b # t /\ live(b) BY <1>8, <2>1 DEF Branch
    <2>3. RUU_num > age(b) BY <1>0, <1>6, <2>2 DEF live, Ring
    <2>4. ASSUME NEW i \in Ring \ {b}
          PROVE  ~ends(i)' /\ (live(i)' => wrong(i)' = (age(i)' > age(b)'))
      <3>1. CASE i = t BY ZenonT(40), <1>4, <1>5, <1>6, <1>9, <2>3, <3>1
      <3>2. CASE i # t
        BY <1>3, <1>6, <1>7, <2>1, <3>2 DEF Branch
      <3> QED BY <3>1, <3>2
    <2>5. Branch(b)' BY <1>3, <1>7, <2>1, <2>2, <2>4 DEF Branch
    <2> QED BY Zenon, <1>2, <1>9, <2>5 DEF SpecInv
  <1>10. CASE ~spec_mode /\ mis
    <2>1. \A i \in Ring \ {t} :
             ~ends(i)' /\ (live(i)' => ~wrong(i)' /\ ~(age(i)' > age(t)'))
      BY <1>0, <1>3, <1>5, <1>6, <1>7, <1>10 DEF SpecInv, live, Ring
    <2>2. ~wrong(t)' BY <1>4, <1>10
    <2>4. \A i \in Ring \ {t} : wrong(i)' \in BOOLEAN
      <3>1. \A i \in Ring : rs[R(i)].spec_mode \in BOOLEAN
        BY StationMember, SizesAssumption, StationTyped DEF Ring, StationType
      <3> QED BY <1>3, <3>1 DEF wrong
    <2>5. \A i \in Ring \ {t} : live(i)' => wrong(i)' = (age(i)' > age(t)')
      BY <2>1, <2>4
    <2>3. Branch(t)' BY <1>0, <1>4, <1>8, <1>10, <2>1, <2>2, <2>5 DEF Branch
    <2> QED BY Zenon, <1>0, <1>2, <1>10, <2>3 DEF SpecInv
  <1>11. CASE ~spec_mode /\ ~mis
    <2>1. \A i \in Ring : ~ends(i)' /\ (live(i)' => ~wrong(i)')
      BY <1>3, <1>4, <1>7, <1>11 DEF SpecInv
    <2> QED BY <1>2, <1>11, <2>1 DEF SpecInv
  <1> QED BY <1>9, <1>10, <1>11


\* What the other actions do to the three flags of the RUU entries.
LEMMA StationsFlags ==
    ASSUME Shape, NEW i \in Ring
    PROVE  R(i) \in Station /\ rs[R(i)] \in StationType
  BY StationMember, SizesAssumption, StationTyped DEF Ring

\* Stations that differ in other fields only.
LEMMA KeptPointwise ==
    ASSUME Shape,
           \A i \in Ring : \/ rs'[R(i)] = rs[R(i)]
                           \/ \E x : rs'[R(i)] = [rs[R(i)] EXCEPT !.tag = x]
                           \/ \E x : rs'[R(i)] = [rs[R(i)] EXCEPT !.odep_list = x]
                           \/ \E x : rs'[R(i)] = [rs[R(i)] EXCEPT !.queued = x]
    PROVE  Kept
  BY ZenonT(40), StationsFlags DEF Kept, StationType

LEMMA CommitKept == Shape /\ (CommitOther \/ CommitMem) => Kept
  <1> SUFFICES ASSUME Shape, CommitOther \/ CommitMem PROVE Kept OBVIOUS
  <1>1. CASE CommitOther
    BY ZenonT(40), <1>1, EndsAreStations, StationsFlags DEF CommitOther, Shape, StationType, Kept
  <1>2. CASE CommitMem
    <2> DEFINE a == R(RUU_head)
               b == L(LSQ_head)
    <2>1. rs' = [rs EXCEPT ![a] = [rs[a] EXCEPT !.tag = NextTag(@)],
                           ![b] = [rs[b] EXCEPT !.tag = NextTag(@)]]
      BY <1>2 DEF CommitMem, R, L
    <2>2. \A i \in Ring : R(i) # b BY DEF R, L
    <2>3. a \in Station /\ b \in Station BY EndsAreStations
    <2> HIDE DEF a, b
    <2>4. \A i \in Ring : rs'[R(i)] = rs[R(i)]
                          \/ rs'[R(i)] = [rs[R(i)] EXCEPT !.tag = NextTag(@)]
      BY ZenonT(40), <2>1, <2>2, <2>3, StationsFlags DEF Shape
    <2> QED BY Zenon, <2>4, KeptPointwise
  <1> QED BY <1>1, <1>2

LEMMA RecoverKept == Shape /\ (RecoverOther \/ RecoverMem) => Kept
  <1> SUFFICES ASSUME Shape, RecoverOther \/ RecoverMem PROVE Kept OBVIOUS
  <1>0. \A st \in StationType : /\ Squash(st).recover_inst = st.recover_inst
                                /\ Squash(st).completed = st.completed
                                /\ Squash(st).spec_mode = st.spec_mode
                                /\ Squash(st).ea_comp = st.ea_comp
    BY DEF Squash, StationType
  <1>1. CASE RecoverOther
    BY ZenonT(40), <1>0, <1>1, EndsAreStations, StationsFlags DEF RecoverOther, Shape, Kept
  <1>2. CASE RecoverMem
    BY ZenonT(40), <1>0, <1>2, EndsAreStations, StationsFlags DEF RecoverMem, Shape, Kept
  <1> QED BY <1>1, <1>2

\* The stages outside commit, recovery, completion and dispatch.
Quiet ==
    \/ ruu_release_fu \/ WritebackSquashed \/ WritebackDone \/ BroadcastNext
    \/ BroadcastSquashed \/ BroadcastWake
    \/ RefreshStore \/ RefreshLoad \/ RefreshDone
    \/ IssueSquashed \/ IssueStore \/ Issue \/ IssueLater \/ IssueDone \/ DispatchDone

LEMMA QuietFrame ==
    Quiet => /\ UNCHANGED <<ruuVars, lsqVars, spec_mode>>
             /\ stage # "recover" /\ stage' # "recover"
  BY Zenon DEF Quiet, ruu_release_fu, WritebackSquashed, WritebackDone, BroadcastNext,
         BroadcastSquashed, BroadcastWake, RefreshStore, RefreshLoad, RefreshDone,
         IssueSquashed, IssueStore, Issue, Issuing, IssueLater, IssueDone, DispatchDone,
         NextCycle

LEMMA BroadcastKept == Shape /\ (BroadcastSquashed \/ BroadcastWake) => Kept
  <1> SUFFICES ASSUME Shape, BroadcastSquashed \/ BroadcastWake PROVE Kept OBVIOUS
  <1>1. Chain # << >> BY DEF BroadcastSquashed, BroadcastWake
  <1>2. Walked \in [Station -> StationType] /\ cur \in Station
    BY <1>1, WalkedType DEF Shape
  <1>3. \A t \in Station : /\ Walked[t].recover_inst = rs[t].recover_inst
                           /\ Walked[t].completed = rs[t].completed
                           /\ Walked[t].spec_mode = rs[t].spec_mode
                           /\ Walked[t].ea_comp = rs[t].ea_comp
    <2>1. PICK q : Walked = [rs EXCEPT ![cur] = [rs[cur] EXCEPT !.odep_list = q]]
      BY ZenonT(40) DEF Walked
    <2>2. \A t \in Station : Walked[t] = rs[t] \/ Walked[t] = [rs[t] EXCEPT !.odep_list = q]
      BY <1>2, <2>1 DEF Shape
    <2> QED BY Zenon, <2>2, StationTyped DEF StationType
  <1>4. \A t \in Station : /\ rs'[t].recover_inst = rs[t].recover_inst
                           /\ rs'[t].completed = rs[t].completed
                           /\ rs'[t].spec_mode = rs[t].spec_mode
                           /\ rs'[t].ea_comp = rs[t].ea_comp
    <2>1. CASE BroadcastSquashed BY <1>3, <2>1 DEF BroadcastSquashed
    <2>2. CASE BroadcastWake
      <3>1. PICK c, k, q : rs' = [Walked EXCEPT ![c].idep_ready[k] = TRUE, ![c].queued = q]
        BY Zenon, <2>2 DEF BroadcastWake
      <3> HIDE DEF Walked
      <3> QED BY <1>2, <1>3, <3>1 DEF StationType
    <2> QED BY <2>1, <2>2
  <1> QED BY <1>4, StationsFlags DEF Kept

LEMMA QuietKept == Shape /\ Quiet => Kept
  <1> SUFFICES ASSUME Shape, Quiet PROVE Kept OBVIOUS
  <1>1. CASE rs' = rs BY <1>1 DEF Kept
  <1>2. CASE RefreshLoad
    <2>1. \/ rs' = rs
          \/ rs' = [rs EXCEPT ![Scanned] = [rs[Scanned] EXCEPT !.queued = TRUE]]
      BY <1>2 DEF RefreshLoad
    <2>2. \A i \in Ring : rs'[R(i)] = rs[R(i)]
                          \/ rs'[R(i)] = [rs[R(i)] EXCEPT !.queued = TRUE]
      BY Zenon, <2>1, StationsFlags, ScannedType DEF Shape
    <2> QED BY <2>2, KeptPointwise
  <1>3. CASE IssueStore
    <2>1. node # << >> /\ InLSQ(Picked) BY <1>3 DEF IssueStore, Issuing, IsStore
    <2>2. \A i \in Ring : R(i) # Picked BY <2>1 DEF R, InLSQ
    <2> QED BY Zenon, <1>3, <2>2, StationsFlags DEF IssueStore, Shape, Kept
  <1>4. CASE Issue
    <2>1. node # << >> BY <1>4 DEF Issue, Issuing
    <2> QED BY Zenon, <1>4, <2>1, StationsFlags, PickedType DEF Issue, Shape, StationType, Kept
  <1> QED BY <1>1, <1>2, <1>3, <1>4, BroadcastKept
      DEF Quiet, ruu_release_fu, WritebackSquashed, WritebackDone, BroadcastNext,
          RefreshStore, RefreshDone, IssueSquashed, IssueLater, IssueDone, DispatchDone

LEMMA CommitActionsSpecInv ==
    Shape /\ SpecInv /\ (CommitOther \/ CommitMem) => SpecInv'
  <1> SUFFICES ASSUME Shape, SpecInv, CommitOther \/ CommitMem PROVE SpecInv' OBVIOUS
  <1>1. /\ stage = "commit" /\ stage' = stage /\ cur' = cur /\ CommitReady
        /\ RUU_head' = (RUU_head + 1) % RUU_size /\ RUU_num' = RUU_num - 1
        /\ RUU_tail' = RUU_tail /\ spec_mode' = spec_mode
    BY DEF CommitOther, CommitMem, wbVars
  <1> QED BY <1>1, CommitKept, CommitSpecInv

LEMMA RecoverActionsSpecInv ==
    Shape /\ SpecInv /\ (RecoverOther \/ RecoverMem) =>
       SpecInv' /\ RUU_num > 0 /\ RUU_index # RUU_head
  <1> SUFFICES ASSUME Shape, SpecInv, RecoverOther \/ RecoverMem
               PROVE  SpecInv' /\ RUU_num > 0 /\ RUU_index # RUU_head
    OBVIOUS
  <1>1. /\ stage = "recover" /\ stage' = stage /\ cur' = cur /\ R(RUU_index) # cur
        /\ RUU_tail' = RUU_index /\ RUU_num' = RUU_num - 1
        /\ RUU_head' = RUU_head /\ spec_mode' = spec_mode
    BY DEF RecoverOther, RecoverMem, wbVars
  <1> QED BY <1>1, RecoverKept, RecoverSpecInv

LEMMA QuietSpecInv == Shape /\ SpecInv /\ Quiet => SpecInv'
  BY QuietFrame, QuietKept, FlagsFrame

LEMMA DispatchOtherSpecInv ==
    ASSUME Shape, SpecInv, NEW i \in Insts, NEW mis \in BOOLEAN, DispatchOther(i, mis)
    PROVE  SpecInv'
  <1>0. RUU_tail \in Ring BY DEF Shape, Ring
  <1>1. PICK t \in Ring : t = RUU_tail BY <1>0
  <1>2. /\ stage = "dispatch" /\ stage' = stage /\ cur' = cur /\ RUU_num < RUU_size
        /\ (mis => ~spec_mode) /\ RUU_tail' = (RUU_tail + 1) % RUU_size
        /\ RUU_num' = RUU_num + 1 /\ RUU_head' = RUU_head
        /\ spec_mode' = (spec_mode \/ mis)
    BY DEF DispatchOther, DispatchReady, wbVars
  <1>3. PICK seq, ready, q :
           rs'[R(t)] = Filled(R(t), i.op, FALSE, mis, 0, seq, i.out, ready, q)
    BY ZenonT(40), <1>1, StationsFlags DEF DispatchOther
  <1>4. /\ rs'[R(t)].recover_inst = mis /\ ~rs'[R(t)].completed
        /\ rs'[R(t)].spec_mode = spec_mode
    BY <1>3, StationsFlags DEF Filled, StationType
  <1>5. \A j \in Ring \ {t} : /\ rs'[R(j)].recover_inst = rs[R(j)].recover_inst
                              /\ rs'[R(j)].completed = rs[R(j)].completed
                              /\ rs'[R(j)].spec_mode = rs[R(j)].spec_mode
    <2> SUFFICES ASSUME NEW j \in Ring \ {t}
                 PROVE  /\ rs'[R(j)].recover_inst = rs[R(j)].recover_inst
                        /\ rs'[R(j)].completed = rs[R(j)].completed
                        /\ rs'[R(j)].spec_mode = rs[R(j)].spec_mode
      OBVIOUS
    <2>1. R(j) # R(t) BY RuuEntries
    <2>2. PICK l : rs'[R(j)] = [rs[R(j)] EXCEPT !.odep_list = l]
      BY Zenon, <1>1, <2>1, StationsFlags DEF DispatchOther
    <2> QED BY <2>2, StationsFlags DEF StationType
  <1> QED BY <1>1, <1>2, <1>4, <1>5, DispatchSpecInv

LEMMA DispatchMemSpecInv ==
    ASSUME Shape, SpecInv, NEW i \in Insts, DispatchMem(i)
    PROVE  SpecInv'
  <1>0. RUU_tail \in Ring BY DEF Shape, Ring
  <1>1. PICK t \in Ring : t = RUU_tail BY <1>0
  <1>2. /\ stage = "dispatch" /\ stage' = stage /\ cur' = cur /\ RUU_num < RUU_size
        /\ RUU_tail' = (RUU_tail + 1) % RUU_size
        /\ RUU_num' = RUU_num + 1 /\ RUU_head' = RUU_head
        /\ spec_mode' = spec_mode
    BY DEF DispatchMem, DispatchReady, wbVars
  <1>3. PICK seq, eout, ready, q, l :
           rs'[R(t)] = [Filled(R(t), "agen", TRUE, FALSE, 0, seq, eout, ready, q)
                          EXCEPT !.odep_list[0] = l]
    BY ZenonT(40), <1>1, StationsFlags DEF DispatchMem
  <1>4. /\ rs'[R(t)].recover_inst = FALSE /\ ~rs'[R(t)].completed
        /\ rs'[R(t)].spec_mode = spec_mode
    BY <1>3, StationsFlags DEF Filled, StationType
  <1>5. \A j \in Ring \ {t} : /\ rs'[R(j)].recover_inst = rs[R(j)].recover_inst
                              /\ rs'[R(j)].completed = rs[R(j)].completed
                              /\ rs'[R(j)].spec_mode = rs[R(j)].spec_mode
    <2> SUFFICES ASSUME NEW j \in Ring \ {t}
                 PROVE  /\ rs'[R(j)].recover_inst = rs[R(j)].recover_inst
                        /\ rs'[R(j)].completed = rs[R(j)].completed
                        /\ rs'[R(j)].spec_mode = rs[R(j)].spec_mode
      OBVIOUS
    <2>1. R(j) # R(t) /\ R(j) # L(LSQ_tail) BY RuuEntries
    <2>2. PICK l2 : rs'[R(j)] = [rs[R(j)] EXCEPT !.odep_list = l2]
      BY Zenon, <1>1, <2>1, StationsFlags DEF DispatchMem
    <2> QED BY <2>2, StationsFlags DEF StationType
  <1>6. spec_mode' = (spec_mode \/ FALSE) /\ (FALSE => ~spec_mode) /\ FALSE \in BOOLEAN
    BY <1>2 DEF Shape
  <1> QED BY Zenon, <1>1, <1>2, <1>4, <1>5, <1>6, DispatchSpecInv

LEMMA NextSpecInv == Shape /\ SpecInv /\ [Next]_vars => SpecInv'
  <1> SUFFICES ASSUME Shape, SpecInv, [Next]_vars PROVE SpecInv' OBVIOUS
  <1>1. CASE UNCHANGED vars
    <2>1. UNCHANGED <<ruuVars, spec_mode, rs, stage, cur>> BY <1>1 DEF vars, wbVars
    <2>2. \A i \in Ring : ends(i)' = ends(i) /\ wrong(i)' = wrong(i)
      BY <2>1 DEF ends, wrong, Resolves
    <2>3. stage' = "recover" => \E c \in Ring : cur' = R(c) /\ Revealed(R(c))'
      BY <2>1 DEF SpecInv, Revealed
    <2> QED BY <2>1, <2>2, <2>3, SpecFrame
  <1>2. CASE \E i \in Insts, mis \in BOOLEAN : DispatchOther(i, mis)
    BY <1>2, DispatchOtherSpecInv
  <1>3. CASE \E i \in Insts : DispatchMem(i) BY <1>3, DispatchMemSpecInv
  <1> QED BY <1>1, <1>2, <1>3, CommitActionsSpecInv, WritebackEventSpecInv,
             RecoverActionsSpecInv, RecoverDoneSpecInv, QuietSpecInv
          DEF Next, Quiet


-----------------------------------------------------------------------------
(* The two rings together: the LSQ holds one entry for every address       *)
(* computation in the RUU, so it never has more entries than the RUU.      *)

InWindow == {i \in Ring : live(i)}
Agens    == {i \in Ring : live(i) /\ rs[R(i)].ea_comp}

CountInv ==
    /\ LSQ_num \in 0 .. LSQ_size
    /\ LSQ_tail = Behind(LSQ_head, LSQ_num, LSQ_size)
    /\ RUU_num = Cardinality(InWindow)
    /\ LSQ_num = Cardinality(Agens)

LEMMA RingFinite ==
    /\ IsFiniteSet(InWindow) /\ IsFiniteSet(Agens) /\ Agens \subseteq InWindow
    /\ Cardinality(InWindow) \in Nat /\ Cardinality(Agens) \in Nat
    /\ Cardinality(Agens) <= Cardinality(InWindow)
  <1>1. RUU_size - 1 \in Int /\ 0 \in Int BY SizesAssumption DEF SizesAssumption
  <1>2. IsFiniteSet(Ring) BY <1>1, FS_Interval DEF Ring
  <1>3. InWindow \subseteq Ring /\ Agens \subseteq InWindow BY DEF InWindow, Agens
  <1>4. IsFiniteSet(InWindow) BY <1>2, <1>3, FS_Subset
  <1>5. IsFiniteSet(Agens) /\ Cardinality(Agens) <= Cardinality(InWindow)
    BY <1>3, <1>4, FS_Subset
  <1> QED BY <1>3, <1>4, <1>5, FS_CardinalityType

LEMMA CountFrame ==
    ASSUME CountInv, UNCHANGED <<ruuVars, lsqVars>>,
           \A i \in Ring : rs'[R(i)].ea_comp = rs[R(i)].ea_comp
    PROVE  CountInv'
  <1>1. \A i \in Ring : live(i)' = live(i) BY DEF live, age, ruuVars
  <1>2. InWindow' = InWindow /\ Agens' = Agens BY <1>1 DEF InWindow, Agens
  <1> QED BY <1>2 DEF CountInv, lsqVars, ruuVars

LEMMA InitCountInv == Init => CountInv
  <1> SUFFICES ASSUME Init PROVE CountInv OBVIOUS
  <1>1. LSQ_size \in Nat \ {0, 1} /\ RUU_size \in Nat \ {0, 1}
    BY SizesAssumption DEF SizesAssumption
  <1>2. InWindow = {} /\ Agens = {}
    BY <1>1 DEF Init, InWindow, Agens, live, age, Ring
  <1>3. Cardinality({}) = 0 BY FS_EmptySet
  <1> QED BY <1>1, <1>2, <1>3 DEF Init, CountInv, Behind

\* Taking entry x out of the window, with its access if it has one.
LEMMA CountRemove ==
    ASSUME Shape, CountInv, NEW x \in InWindow, InWindow' = InWindow \ {x},
           RUU_num' = RUU_num - 1,
           \A i \in Ring : rs'[R(i)].ea_comp = rs[R(i)].ea_comp,
           IF rs[R(x)].ea_comp
           THEN /\ LSQ_num' = LSQ_num - 1
                /\ \/ /\ LSQ_head' = (LSQ_head + 1) % LSQ_size /\ LSQ_tail' = LSQ_tail
                   \/ /\ LSQ_tail' = LSQ_index /\ LSQ_head' = LSQ_head
           ELSE UNCHANGED lsqVars
    PROVE  CountInv'
  <1>0. x \in Ring BY DEF InWindow
  <1>1. RUU_num' = Cardinality(InWindow')
    BY Zenon, RingFinite, FS_RemoveElement DEF CountInv
  <1>2. Agens' = {i \in InWindow' : rs'[R(i)].ea_comp} BY DEF Agens, InWindow
  <1>3. Agens' = Agens \ {x}
    <2>1. Agens = {i \in InWindow : rs[R(i)].ea_comp} BY DEF Agens, InWindow
    <2>2. InWindow \subseteq Ring BY DEF InWindow
    <2> QED BY <1>2, <2>1, <2>2
  <1>4. CASE rs[R(x)].ea_comp
    <2>1. x \in Agens BY <1>0, <1>4 DEF Agens, InWindow
    <2>2. LSQ_num' = Cardinality(Agens') /\ LSQ_num' \in Nat
      <3>1. /\ IsFiniteSet(Agens \ {x})
            /\ Cardinality(Agens \ {x}) = Cardinality(Agens) - 1
        BY <2>1, RingFinite, FS_RemoveElement
      <3>2. Cardinality(Agens \ {x}) \in Nat BY <3>1, FS_CardinalityType
      <3>3. LSQ_num' = LSQ_num - 1 /\ LSQ_num = Cardinality(Agens) BY <1>4 DEF CountInv
      <3> QED BY <1>3, <3>1, <3>2, <3>3
    <2>3. /\ LSQ_size \in Nat \ {0} /\ LSQ_head \in 0 .. LSQ_size - 1
          /\ LSQ_tail \in 0 .. LSQ_size - 1 /\ LSQ_num \in 0 .. LSQ_size
          /\ LSQ_tail = Behind(LSQ_head, LSQ_num, LSQ_size) /\ LSQ_num' = LSQ_num - 1
      BY ZenonT(40), <1>4, SizesAssumption DEF SizesAssumption, Shape, CountInv
    <2>4. LSQ_tail' = Behind(LSQ_head', LSQ_num', LSQ_size)
      <3>1. CASE LSQ_head' = (LSQ_head + 1) % LSQ_size /\ LSQ_tail' = LSQ_tail
        <4>1. LSQ_head' = IF LSQ_head + 1 = LSQ_size THEN 0 ELSE LSQ_head + 1
          BY <2>3, <3>1, ModInc
        <4>2. LSQ_num \in 1 .. LSQ_size BY <2>2, <2>3
        <4> QED BY <2>3, <3>1, <4>1, <4>2, BehindShrinks
      <3>2. CASE LSQ_tail' = LSQ_index /\ LSQ_head' = LSQ_head
        <4>1. LSQ_tail' = IF LSQ_tail = 0 THEN LSQ_size - 1 ELSE LSQ_tail - 1
          BY <2>3, <3>2, ModInc DEF LSQ_index
        <4>2. LSQ_num \in 1 .. LSQ_size BY <2>2, <2>3
        <4> QED BY <2>3, <3>2, <4>1, <4>2, BehindShrinks
      <3> QED BY ZenonT(40), <1>4, <3>1, <3>2
    <2> QED BY <1>1, <2>2, <2>3, <2>4 DEF CountInv
  <1>5. CASE ~rs[R(x)].ea_comp
    <2>1. Agens' = Agens BY <1>3, <1>5 DEF Agens
    <2> QED BY <1>1, <1>5, <2>1 DEF CountInv, lsqVars
  <1> QED BY <1>4, <1>5

\* Putting entry x into the window, with its access if it has one.
LEMMA CountAdd ==
    ASSUME Shape, CountInv, NEW x \in Ring \ InWindow, InWindow' = InWindow \cup {x},
           RUU_num' = RUU_num + 1, LSQ_num < LSQ_size,
           \A i \in Ring \ {x} : rs'[R(i)].ea_comp = rs[R(i)].ea_comp,
           IF rs'[R(x)].ea_comp
           THEN /\ LSQ_num' = LSQ_num + 1 /\ LSQ_head' = LSQ_head
                /\ LSQ_tail' = (LSQ_tail + 1) % LSQ_size
           ELSE UNCHANGED lsqVars
    PROVE  CountInv'
  <1>1. RUU_num' = Cardinality(InWindow')
    BY Zenon, RingFinite, FS_AddElement DEF CountInv
  <1>2. Agens' = {i \in InWindow' : rs'[R(i)].ea_comp} BY DEF Agens, InWindow
  <1>3. Agens = {i \in InWindow : rs[R(i)].ea_comp} /\ InWindow \subseteq Ring
    BY DEF Agens, InWindow
  <1>4. CASE rs'[R(x)].ea_comp
    <2>1. Agens' = Agens \cup {x} /\ x \notin Agens BY <1>2, <1>3, <1>4
    <2>2. LSQ_num' = Cardinality(Agens')
      BY Zenon, <1>4, <2>1, RingFinite, FS_AddElement DEF CountInv
    <2>3. /\ LSQ_size \in Nat \ {0} /\ LSQ_head \in 0 .. LSQ_size - 1
          /\ LSQ_tail \in 0 .. LSQ_size - 1 /\ LSQ_num \in 0 .. LSQ_size
          /\ LSQ_tail = Behind(LSQ_head, LSQ_num, LSQ_size) /\ LSQ_num' = LSQ_num + 1
          /\ LSQ_head' = LSQ_head
      BY <1>4, SizesAssumption DEF SizesAssumption, Shape, CountInv
    <2>4. LSQ_tail' = IF LSQ_tail + 1 = LSQ_size THEN 0 ELSE LSQ_tail + 1
      BY <1>4, <2>3, ModInc
    <2>5. LSQ_tail' = Behind(LSQ_head', LSQ_num', LSQ_size) BY <2>3, <2>4 DEF Behind
    <2> QED BY <1>1, <2>2, <2>3, <2>5 DEF CountInv
  <1>5. CASE ~rs'[R(x)].ea_comp
    <2>1. Agens' = Agens BY <1>2, <1>3, <1>5
    <2> QED BY <1>1, <1>5, <2>1 DEF CountInv, lsqVars
  <1> QED BY <1>4, <1>5


\* Which entries each change of the ring takes out of the window or puts in.
LEMMA CommitWindow ==
    ASSUME Shape, SpecInv, NEW h \in Ring, h = RUU_head, RUU_num > 0,
           RUU_head' = (RUU_head + 1) % RUU_size, RUU_num' = RUU_num - 1
    PROVE  h \in InWindow /\ InWindow' = InWindow \ {h}
  <1>0. RUU_size \in Nat \ {0} /\ RUU_num \in 1 .. RUU_size
    BY SizesAssumption DEF SizesAssumption, SpecInv
  <1>1. RUU_head' = IF h + 1 = RUU_size THEN 0 ELSE h + 1 BY Zenon, <1>0, ModInc DEF Ring
  <1>2. \A i \in Ring : live(i)' = (live(i) /\ i # h)
    BY <1>0, <1>1 DEF age, Ring, live
  <1>3. live(h) BY <1>0 DEF age, live, Ring
  <1> QED BY Zenon, <1>2, <1>3 DEF InWindow

LEMMA RecoverWindow ==
    ASSUME Shape, SpecInv, NEW x \in Ring, x = RUU_index, RUU_num > 0,
           RUU_head' = RUU_head, RUU_num' = RUU_num - 1
    PROVE  x \in InWindow /\ InWindow' = InWindow \ {x}
  <1>0. /\ RUU_size \in Nat \ {0} /\ RUU_head \in Ring /\ RUU_num \in 1 .. RUU_size
        /\ RUU_tail = Behind(RUU_head, RUU_num, RUU_size) /\ RUU_tail \in Ring
    BY SizesAssumption DEF SizesAssumption, Shape, SpecInv, Ring
  <1>1. x = IF RUU_tail = 0 THEN RUU_size - 1 ELSE RUU_tail - 1
    BY <1>0, ModInc DEF Ring, RUU_index
  <1>2. age(x) = RUU_num - 1 BY <1>0, <1>1 DEF age, Behind, Ring
  <1>3. \A i \in Ring : age(i) \in Ring /\ (age(i) = age(x) => i = x) /\ age(i)' = age(i)
    BY <1>0 DEF age, Ring
  <1>4. \A i \in Ring : live(i)' = (live(i) /\ i # x)
    BY <1>0, <1>2, <1>3 DEF live, Ring
  <1>5. live(x) BY <1>0, <1>2 DEF live
  <1> QED BY Zenon, <1>4, <1>5 DEF InWindow

LEMMA DispatchWindow ==
    ASSUME Shape, SpecInv, NEW t \in Ring, t = RUU_tail, RUU_num < RUU_size,
           RUU_head' = RUU_head, RUU_num' = RUU_num + 1
    PROVE  t \notin InWindow /\ InWindow' = InWindow \cup {t}
  <1>0. /\ RUU_size \in Nat \ {0} /\ RUU_head \in Ring /\ RUU_num \in 0 .. RUU_size
        /\ t = Behind(RUU_head, RUU_num, RUU_size)
    BY SizesAssumption DEF SizesAssumption, Shape, SpecInv, Ring
  <1>1. age(t) = RUU_num BY <1>0 DEF age, Behind, Ring
  <1>2. \A i \in Ring : age(i) \in Ring /\ (age(i) = age(t) => i = t) /\ age(i)' = age(i)
    BY <1>0 DEF age, Ring
  <1>3. \A i \in Ring : live(i)' = (live(i) \/ i = t)
    BY <1>0, <1>1, <1>2 DEF live, Ring
  <1>4. ~live(t) BY <1>0, <1>1 DEF live
  <1> QED BY Zenon, <1>3, <1>4 DEF InWindow

LEMMA CommitCountInv ==
    Shape /\ SpecInv /\ CountInv /\ (CommitOther \/ CommitMem) => CountInv'
  <1> SUFFICES ASSUME Shape, SpecInv, CountInv, CommitOther \/ CommitMem
               PROVE  CountInv'
    OBVIOUS
  <1>0. PICK h \in Ring : h = RUU_head BY DEF Shape, Ring
  <1>1. /\ RUU_num > 0 /\ RUU_head' = (RUU_head + 1) % RUU_size
        /\ RUU_num' = RUU_num - 1
    BY DEF CommitOther, CommitMem, CommitReady
  <1>2. h \in InWindow /\ InWindow' = InWindow \ {h} BY <1>0, <1>1, CommitWindow
  <1>3. \A i \in Ring : rs'[R(i)].ea_comp = rs[R(i)].ea_comp BY CommitKept DEF Kept
  <1>4. CASE CommitOther
    <2>1. ~rs[R(h)].ea_comp /\ UNCHANGED lsqVars BY <1>0, <1>4 DEF CommitOther
    <2> QED BY <1>1, <1>2, <1>3, <2>1, CountRemove
  <1>5. CASE CommitMem
    <2>1. /\ rs[R(h)].ea_comp /\ LSQ_num' = LSQ_num - 1
          /\ LSQ_head' = (LSQ_head + 1) % LSQ_size /\ LSQ_tail' = LSQ_tail
      BY <1>0, <1>5 DEF CommitMem
    <2> QED BY <1>1, <1>2, <1>3, <2>1, CountRemove
  <1> QED BY <1>4, <1>5


LEMMA RecoverCountInv ==
    Shape /\ SpecInv /\ CountInv /\ (RecoverOther \/ RecoverMem) => CountInv'
  <1> SUFFICES ASSUME Shape, SpecInv, CountInv, RecoverOther \/ RecoverMem
               PROVE  CountInv'
    OBVIOUS
  <1>0. PICK x \in Ring : x = RUU_index BY EndsAreStations DEF Ring
  <1>1. RUU_num > 0 /\ RUU_head' = RUU_head /\ RUU_num' = RUU_num - 1
    BY RecoverActionsSpecInv DEF RecoverOther, RecoverMem
  <1>2. x \in InWindow /\ InWindow' = InWindow \ {x} BY <1>0, <1>1, RecoverWindow
  <1>3. \A i \in Ring : rs'[R(i)].ea_comp = rs[R(i)].ea_comp BY RecoverKept DEF Kept
  <1>4. CASE RecoverOther
    <2>1. ~rs[R(x)].ea_comp /\ UNCHANGED lsqVars BY <1>0, <1>4 DEF RecoverOther
    <2> QED BY Zenon, <1>1, <1>2, <1>3, <2>1, CountRemove
  <1>5. CASE RecoverMem
    <2>1. /\ rs[R(x)].ea_comp /\ LSQ_num' = LSQ_num - 1
          /\ LSQ_tail' = LSQ_index /\ LSQ_head' = LSQ_head
      BY <1>0, <1>5 DEF RecoverMem
    <2> QED BY <1>1, <1>2, <1>3, <2>1, CountRemove
  <1> QED BY <1>4, <1>5

LEMMA DispatchOtherCountInv ==
    ASSUME Shape, SpecInv, CountInv, NEW i \in Insts, NEW mis \in BOOLEAN,
           DispatchOther(i, mis)
    PROVE  CountInv'
  <1>0. RUU_tail \in Ring BY DEF Shape, Ring
  <1>1. PICK t \in Ring : t = RUU_tail BY <1>0
  <1>2. /\ RUU_num < RUU_size /\ RUU_num' = RUU_num + 1 /\ RUU_head' = RUU_head
        /\ LSQ_num < LSQ_size /\ UNCHANGED lsqVars
    BY DEF DispatchOther, DispatchReady
  <1>3. t \notin InWindow /\ InWindow' = InWindow \cup {t} BY <1>1, <1>2, DispatchWindow
  <1>4. PICK seq, ready, q :
           rs'[R(t)] = Filled(R(t), i.op, FALSE, mis, 0, seq, i.out, ready, q)
    BY Zenon, <1>1, StationsFlags DEF DispatchOther
  <1>5. rs'[R(t)].ea_comp = FALSE BY <1>4, StationsFlags DEF Filled, StationType
  <1>6. \A j \in Ring \ {t} : rs'[R(j)].ea_comp = rs[R(j)].ea_comp
    <2> SUFFICES ASSUME NEW j \in Ring \ {t} PROVE rs'[R(j)].ea_comp = rs[R(j)].ea_comp
      OBVIOUS
    <2>1. R(j) # R(t) BY RuuEntries
    <2>2. PICK l : rs'[R(j)] = [rs[R(j)] EXCEPT !.odep_list = l]
      BY ZenonT(40), <1>1, <2>1, StationsFlags DEF DispatchOther
    <2> QED BY <2>2, StationsFlags DEF StationType
  <1> QED BY Zenon, <1>2, <1>3, <1>5, <1>6, CountAdd

LEMMA DispatchMemCountInv ==
    ASSUME Shape, SpecInv, CountInv, NEW i \in Insts, DispatchMem(i)
    PROVE  CountInv'
  <1>0. RUU_tail \in Ring BY DEF Shape, Ring
  <1>1. PICK t \in Ring : t = RUU_tail BY <1>0
  <1>2. /\ RUU_num < RUU_size /\ RUU_num' = RUU_num + 1 /\ RUU_head' = RUU_head
        /\ LSQ_num < LSQ_size /\ LSQ_num' = LSQ_num + 1 /\ LSQ_head' = LSQ_head
        /\ LSQ_tail' = (LSQ_tail + 1) % LSQ_size
    BY DEF DispatchMem, DispatchReady
  <1>3. t \notin InWindow /\ InWindow' = InWindow \cup {t} BY <1>1, <1>2, DispatchWindow
  <1>4. PICK seq, eout, ready, q, l :
           rs'[R(t)] = [Filled(R(t), "agen", TRUE, FALSE, 0, seq, eout, ready, q)
                          EXCEPT !.odep_list[0] = l]
    BY Zenon, <1>1, StationsFlags DEF DispatchMem
  <1>5. rs'[R(t)].ea_comp = TRUE BY <1>4, StationsFlags DEF Filled, StationType
  <1>6. \A j \in Ring \ {t} : rs'[R(j)].ea_comp = rs[R(j)].ea_comp
    <2> SUFFICES ASSUME NEW j \in Ring \ {t} PROVE rs'[R(j)].ea_comp = rs[R(j)].ea_comp
      OBVIOUS
    <2>1. R(j) # R(t) /\ R(j) # L(LSQ_tail) BY RuuEntries
    <2>2. PICK l2 : rs'[R(j)] = [rs[R(j)] EXCEPT !.odep_list = l2]
      BY Zenon, <1>1, <2>1, StationsFlags DEF DispatchMem
    <2> QED BY <2>2, StationsFlags DEF StationType
  <1> QED BY <1>2, <1>3, <1>5, <1>6, CountAdd

LEMMA NextCountInv == Shape /\ SpecInv /\ CountInv /\ [Next]_vars => CountInv'
  <1> SUFFICES ASSUME Shape, SpecInv, CountInv, [Next]_vars PROVE CountInv' OBVIOUS
  <1>1. CASE UNCHANGED vars BY <1>1, CountFrame DEF vars
  <1>2. CASE \E i \in Insts, mis \in BOOLEAN : DispatchOther(i, mis)
    BY <1>2, DispatchOtherCountInv
  <1>3. CASE \E i \in Insts : DispatchMem(i) BY <1>3, DispatchMemCountInv
  <1>4. CASE Quiet BY Zenon, <1>4, QuietFrame, QuietKept, CountFrame DEF Kept
  <1>5. CASE RecoverDone BY <1>5, CountFrame DEF RecoverDone
  <1>6. CASE WritebackEvent
    <2>1. PICK s : rs' = [rs EXCEPT ![s].completed = TRUE] BY Zenon, <1>6 DEF WritebackEvent
    <2>2. \A i \in Ring : rs'[R(i)].ea_comp = rs[R(i)].ea_comp
      BY <2>1, StationsFlags DEF Shape, StationType
    <2>3. UNCHANGED <<ruuVars, lsqVars>> BY <1>6 DEF WritebackEvent
    <2> QED BY <2>2, <2>3, CountFrame
  <1> QED BY <1>1, <1>2, <1>3, <1>4, <1>5, <1>6, CommitCountInv, RecoverCountInv
      DEF Next, Quiet

-----------------------------------------------------------------------------
(* Events.                                                                 *)

LEMMA InsertAfterAt ==
    ASSUME NEW S, NEW q \in Seq(S), NEW k \in 0 .. Len(q), NEW e \in S
    PROVE  /\ Len(InsertAfter(q, k, e)) = Len(q) + 1
           /\ \A i \in 1 .. Len(q) + 1 :
                 InsertAfter(q, k, e)[i] =
                    IF i <= k THEN q[i] ELSE IF i = k + 1 THEN e ELSE q[i - 1]
  <1> DEFINE A == SubSeq(q, 1, k)
             C == SubSeq(q, k + 1, Len(q))
             B == A \o <<e>>
  <1>0. Len(q) \in Nat /\ k \in Nat OBVIOUS
  <1>1. A \in Seq(S) /\ Len(A) = k /\ \A i \in 1 .. k : A[i] = q[i] OBVIOUS
  <1>2. C \in Seq(S) /\ Len(C) = Len(q) - k /\ \A j \in 1 .. Len(q) - k : C[j] = q[k + j]
    OBVIOUS
  <1>3. InsertAfter(q, k, e) = B \o C BY DEF InsertAfter
  <1> HIDE DEF A, C
  <1>4. /\ B \in Seq(S) /\ Len(B) = k + 1
        /\ \A i \in 1 .. k + 1 : B[i] = IF i <= k THEN q[i] ELSE e
    BY <1>0, <1>1
  <1> HIDE DEF B
  <1>5. Len(B \o C) = Len(q) + 1
    <2>1. B \in Seq(S) /\ C \in Seq(S) BY <1>2, <1>4
    <2>2. Len(B \o C) = Len(B) + Len(C) BY <2>1
    <2>3. Len(B) = k + 1 /\ Len(C) = Len(q) - k BY <1>2, <1>4
    <2> HIDE DEF B, C
    <2> QED BY <1>0, <2>2, <2>3
  <1>6. \A i \in 1 .. Len(q) + 1 : (B \o C)[i] = IF i <= k + 1 THEN B[i] ELSE C[i - (k + 1)]
    BY <1>0, <1>2, <1>4
  <1>7. \A i \in 1 .. Len(q) + 1 : i > k + 1 => C[i - (k + 1)] = q[i - 1]
    <2> SUFFICES ASSUME NEW i \in 1 .. Len(q) + 1, i > k + 1 PROVE C[i - (k + 1)] = q[i - 1]
      OBVIOUS
    <2>1. i - (k + 1) \in 1 .. Len(q) - k /\ k + (i - (k + 1)) = i - 1 BY <1>0
    <2> QED BY <1>2, <2>1
  <1> QED BY <1>0, <1>3, <1>4, <1>5, <1>6, <1>7

\* The queue with an event `w' cycles ahead linked in, or its head taken off.
LEMMA InsertEvent ==
    ASSUME Shape, NEW s \in Station, NEW w \in Nat \ {0}, eventq_queue_event(s, w),
           EventsOnTime, stage = "issue", stage' = "issue"
    PROVE  EventsOnTime'
  <1> DEFINE q == event_queue
             e == [rs |-> s, tag |-> rs[s].tag, wait |-> w]
             p == event_queue'
  <1>1. PICK k \in EventPlace(w) : p = InsertAfter(q, k, e) BY DEF eventq_queue_event
  <1>2. /\ k \in 0 .. Len(q) /\ q \in Seq(Event) /\ Len(q) \in Nat
        /\ \A i \in 1 .. k : q[i].wait < w
        /\ k < Len(q) => q[k + 1].wait >= w
    BY DEF EventPlace, Shape
  <1>3. e \in Event
    <2>1. rs[s].tag \in Nat BY StationTyped, StationFields
    <2> QED BY <2>1 DEF Event
  <1>4. /\ \A i \in 1 .. Len(q) : q[i].wait \in Int /\ q[i].wait >= 1
        /\ \A i, j \in 1 .. Len(q) : i < j => q[i].wait <= q[j].wait
    <2>1. DOMAIN q = 1 .. Len(q) /\ \A i \in 1 .. Len(q) : q[i] \in Event
      <3> HIDE DEF q
      <3> QED BY <1>2
    <2> QED BY Zenon, <2>1 DEF EventsOnTime, Event
  <1>5. /\ Len(p) = Len(q) + 1 /\ p \in Seq(Event)
        /\ \A i \in 1 .. Len(q) + 1 :
              p[i] = IF i <= k THEN q[i] ELSE IF i = k + 1 THEN e ELSE q[i - 1]
    <2> HIDE DEF q, e, p
    <2>1. p \in Seq(Event) BY <1>1, <1>2, <1>3, InsertAfterType
    <2> QED BY <1>1, <1>2, <1>3, <2>1, InsertAfterAt
  <1>6. DOMAIN p = 1 .. Len(q) + 1 BY <1>5
  <1>7. e.wait = w OBVIOUS
  <1> HIDE DEF q, e, p
  <1>8. \A i \in 1 .. Len(q) + 1 :
           /\ i <= k => p[i].wait = q[i].wait /\ i \in 1 .. Len(q)
           /\ i = k + 1 => p[i].wait = w
           /\ i > k + 1 => p[i].wait = q[i - 1].wait /\ i - 1 \in k + 1 .. Len(q)
    BY <1>2, <1>5, <1>7
  <1>9. \A j \in k + 1 .. Len(q) : q[j].wait >= w
    <2> SUFFICES ASSUME NEW j \in k + 1 .. Len(q) PROVE q[j].wait >= w OBVIOUS
    <2>1. k + 1 \in 1 .. Len(q) /\ j \in 1 .. Len(q) /\ q[k + 1].wait >= w BY <1>2
    <2>2. q[k + 1].wait <= q[j].wait BY <1>4, <2>1
    <2> QED BY <1>4, <2>1, <2>2
  <1>10. \A i \in 1 .. Len(q) + 1 : p[i].wait \in Int /\ p[i].wait >= 1
    <2> SUFFICES ASSUME NEW i \in 1 .. Len(q) + 1
                 PROVE  p[i].wait \in Int /\ p[i].wait >= 1
      OBVIOUS
    <2>1. CASE i <= k BY <1>4, <1>8, <2>1
    <2>2. CASE i = k + 1 BY <1>8, <2>2
    <2>3. CASE i > k + 1
      <3>1. p[i].wait = q[i - 1].wait /\ i - 1 \in 1 .. Len(q) BY <1>2, <1>8, <2>3
      <3> QED BY <1>4, <3>1
    <2> QED BY <1>2, <2>1, <2>2, <2>3
  <1>11. \A i, j \in 1 .. Len(q) + 1 : i < j => p[i].wait <= p[j].wait
    <2> SUFFICES ASSUME NEW i \in 1 .. Len(q) + 1, NEW j \in 1 .. Len(q) + 1, i < j
                 PROVE  p[i].wait <= p[j].wait
      OBVIOUS
    <2>1. CASE j <= k
      <3>1. i <= k /\ i \in 1 .. Len(q) /\ j \in 1 .. Len(q) BY <1>2, <2>1
      <3> QED BY <1>4, <1>8, <2>1, <3>1
    <2>2. CASE j = k + 1
      <3>1. i \in 1 .. k /\ i <= k BY <1>2, <2>2
      <3> QED BY <1>2, <1>4, <1>8, <2>2, <3>1
    <2>3. CASE j > k + 1
      <3>1. p[j].wait = q[j - 1].wait /\ j - 1 \in k + 1 .. Len(q) /\ j - 1 \in 1 .. Len(q)
        BY <1>2, <1>8, <2>3
      <3>2. CASE i <= k
        <4>1. p[i].wait = q[i].wait /\ i \in 1 .. Len(q) BY <1>8, <3>2
        <4>2. i < j - 1 BY <1>2, <2>3, <3>2
        <4> QED BY <1>4, <3>1, <4>1, <4>2
      <3>3. CASE i = k + 1
        <4>1. p[i].wait = w BY <1>8, <3>3
        <4> QED BY Zenon, <1>9, <3>1, <4>1
      <3>4. CASE i > k + 1
        <4>1. /\ p[i].wait = q[i - 1].wait /\ i - 1 \in 1 .. Len(q) /\ i - 1 < j - 1
          BY <1>2, <1>8, <3>4
        <4> QED BY <1>4, <3>1, <4>1
      <3> QED BY <1>2, <3>2, <3>3, <3>4
    <2> QED BY <1>2, <2>1, <2>2, <2>3
  <1> QED BY <1>6, <1>10, <1>11 DEF EventsOnTime, p


\* A step that keeps the queue may only move on to a stage that allows as much.
LEMMA EventsFrame ==
    ASSUME EventsOnTime, event_queue' = event_queue,
           stage' \in {"commit", "writeback", "recover", "broadcast"}
             \/ stage \notin {"commit", "writeback", "recover", "broadcast"},
           Shape
    PROVE  EventsOnTime'
  <1>1. \A i \in DOMAIN event_queue : event_queue[i].wait \in Int
    <2>1. event_queue \in Seq(Event) BY DEF Shape
    <2>2. \A i \in DOMAIN event_queue : event_queue[i] \in Event BY <2>1
    <2> QED BY <2>2 DEF Event
  <1> QED BY <1>1 DEF EventsOnTime

LEMMA TailEvents ==
    ASSUME Shape, EventsOnTime, stage = "writeback", event_queue # << >>,
           event_queue' = Tail(event_queue),
           stage' \in {"writeback", "recover", "broadcast"}
    PROVE  EventsOnTime'
  <1> DEFINE q == event_queue
             p == event_queue'
  <1>1. q \in Seq(Event) /\ q # << >> /\ DOMAIN q = 1 .. Len(q) BY DEF Shape
  <1>2. p = Tail(q) OBVIOUS
  <1>3. /\ \A i \in 1 .. Len(q) : q[i].wait >= 0
        /\ \A i, j \in 1 .. Len(q) : i < j => q[i].wait <= q[j].wait
    BY <1>1 DEF EventsOnTime
  <1> HIDE DEF q, p
  <1>4. /\ Len(q) \in Nat \ {0} /\ DOMAIN p = 1 .. Len(q) - 1
        /\ \A i \in 1 .. Len(q) - 1 : p[i] = q[i + 1]
    BY <1>1, <1>2
  <1>5. \A i \in 1 .. Len(q) - 1 : i + 1 \in 1 .. Len(q) BY <1>4
  <1>6. \A i, j \in 1 .. Len(q) - 1 : i < j => i + 1 < j + 1 BY <1>4
  <1>7. \A i \in DOMAIN p : p[i].wait >= 0 BY <1>3, <1>4, <1>5
  <1>8. \A i, j \in DOMAIN p : i < j => p[i].wait <= p[j].wait
    BY <1>3, <1>4, <1>5, <1>6
  <1> QED BY <1>7, <1>8 DEF EventsOnTime, p

\* Writeback ends with no due event: the head is in the future, and so is
\* everything behind it.
LEMMA NoneDue ==
    ASSUME Shape, EventsOnTime, ~EventDue
    PROVE  \A i \in DOMAIN event_queue : event_queue[i].wait \in Int /\ event_queue[i].wait >= 1
  <1> DEFINE q == event_queue
  <1>1. q \in Seq(Event) /\ DOMAIN q = 1 .. Len(q) /\ Len(q) \in Nat BY DEF Shape
  <1>2. \A i \in 1 .. Len(q) : q[i] \in Event BY <1>1
  <1>3. \A i \in 1 .. Len(q) : q[i].wait \in Int BY <1>2 DEF Event
  <1>4. \A i, j \in 1 .. Len(q) : i < j => q[i].wait <= q[j].wait
    BY <1>1 DEF EventsOnTime
  <1>5. q # << >> => Head(q).wait >= 1 /\ Head(q) = q[1] /\ 1 \in 1 .. Len(q)
    <2> SUFFICES ASSUME q # << >> PROVE Head(q).wait >= 1 /\ Head(q) = q[1] /\ 1 \in 1 .. Len(q)
      OBVIOUS
    <2>1. 1 \in 1 .. Len(q) /\ Head(q) = q[1] BY <1>1
    <2>2. ~(Head(q).wait <= 0) BY DEF EventDue
    <2> QED BY <1>3, <2>1, <2>2
  <1> HIDE DEF q
  <1>6. ASSUME NEW i \in 1 .. Len(q) PROVE q[i].wait >= 1
    <2>1. q # << >> BY <1>1
    <2>2. q[1].wait >= 1 /\ 1 \in 1 .. Len(q) BY <1>5, <2>1
    <2>3. i = 1 \/ 1 < i BY <1>1
    <2> QED BY <1>3, <1>4, <2>2, <2>3
  <1> QED BY <1>1, <1>3, <1>6 DEF q

LEMMA NextCycleEvents ==
    ASSUME Shape, EventsOnTime, NextCycle, stage \in {"issue", "dispatch"}
    PROVE  EventsOnTime'
  <1> DEFINE q == event_queue
             p == event_queue'
  <1>1. q \in Seq(Event) /\ \A i \in DOMAIN q : q[i] \in Event BY DEF Shape
  <1>2. p = [i \in DOMAIN q |-> [q[i] EXCEPT !.wait = @ - 1]] /\ stage' = "commit"
    BY DEF NextCycle
  <1>3. /\ \A i \in DOMAIN q : q[i].wait >= 1
        /\ \A i, j \in DOMAIN q : i < j => q[i].wait <= q[j].wait
    BY DEF EventsOnTime
  <1> HIDE DEF q, p
  <1>4. \A i \in DOMAIN q : q[i].wait \in Int /\ p[i].wait = q[i].wait - 1
    BY <1>1, <1>2 DEF Event
  <1>5. DOMAIN p = DOMAIN q BY <1>2
  <1>6. \A i \in DOMAIN p : p[i].wait >= 0 BY <1>3, <1>4, <1>5
  <1>7. \A i, j \in DOMAIN p : i < j => p[i].wait <= p[j].wait BY <1>3, <1>4, <1>5
  <1> QED BY <1>2, <1>6, <1>7 DEF EventsOnTime, p

LEMMA IssueEvents == Shape /\ EventsOnTime /\ Issue => EventsOnTime'
  <1> SUFFICES ASSUME Shape, EventsOnTime, Issue PROVE EventsOnTime' OBVIOUS
  <1>1. node # << >> /\ stage = "issue" /\ stage' = "issue" BY DEF Issue, Issuing
  <1>2. Picked \in Station BY <1>1, PickedType
  <1>3. PICK w \in Nat \ {0} : eventq_queue_event(Picked, w)
    <2> DEFINE c == SS_OP_FUCLASS(rs[Picked].op)
    <2>1. CASE c = "NA" BY <2>1 DEF Issue
    <2>2. CASE c # "NA"
      <3>1. PICK fu \in res_get(c) : \E lat \in Latency(Picked, fu) : eventq_queue_event(Picked, lat)
        BY <2>2 DEF Issue
      <3>2. PICK lat \in Latency(Picked, fu) : eventq_queue_event(Picked, lat) BY <3>1
      <3>3. c \in FuClass BY <2>2, ClassType
      <3>4. lat \in Nat \ {0} BY <3>3, BusyType, LatencyType
      <3> QED BY <3>2, <3>4
    <2> QED BY <2>1, <2>2
  <1> QED BY <1>1, <1>2, <1>3, InsertEvent

LEMMA NextEvents == Shape /\ EventsOnTime /\ [Next]_vars => EventsOnTime'
  <1> SUFFICES ASSUME Shape, EventsOnTime, [Next]_vars PROVE EventsOnTime' OBVIOUS
  <1> DEFINE Early == {"commit", "writeback", "recover", "broadcast"}
  <1>1. CASE event_queue' = event_queue /\ (stage' \in Early \/ stage \notin Early)
    BY <1>1, EventsFrame
  <1>2. CASE WritebackSquashed
    BY <1>2, TailEvents DEF WritebackSquashed, EventDue
  <1>3. CASE WritebackEvent
    BY <1>3, TailEvents DEF WritebackEvent, EventDue
  <1>4. CASE WritebackDone
    <2>1. ~EventDue /\ event_queue' = event_queue BY <1>4 DEF WritebackDone
    <2> QED BY <2>1, NoneDue DEF EventsOnTime
  <1>5. CASE NextCycle /\ stage \in {"issue", "dispatch"} BY <1>5, NextCycleEvents
  <1>6. CASE UNCHANGED vars BY <1>6, EventsFrame DEF vars
  <1>7. CASE \E i \in Insts, mis \in BOOLEAN : DispatchOther(i, mis)
    BY <1>1, <1>7 DEF DispatchOther, DispatchReady
  <1>8. CASE \E i \in Insts : DispatchMem(i)
    BY <1>1, <1>8 DEF DispatchMem, DispatchReady
  <1>9. CASE IssueDone BY <1>1, <1>5, <1>9 DEF IssueDone
  <1>10. CASE DispatchDone BY <1>1, <1>5, <1>10 DEF DispatchDone
  <1>11. CASE CommitOther \/ CommitMem \/ ruu_release_fu
    BY <1>1, <1>11 DEF CommitOther, CommitMem, ruu_release_fu
  <1>12. CASE RecoverOther \/ RecoverMem \/ RecoverDone
    BY <1>1, <1>12 DEF RecoverOther, RecoverMem, RecoverDone
  <1>13. CASE BroadcastSquashed \/ BroadcastWake \/ BroadcastNext
    BY <1>1, <1>13 DEF BroadcastSquashed, BroadcastWake, BroadcastNext
  <1>14. CASE RefreshStore \/ RefreshLoad \/ RefreshDone
    BY <1>1, <1>14 DEF RefreshStore, RefreshLoad, RefreshDone
  <1>15. CASE IssueSquashed \/ IssueStore \/ IssueLater
    BY <1>1, <1>15 DEF IssueSquashed, IssueStore, IssueLater, Issuing
  <1> QED BY <1>2, <1>3, <1>4, <1>6, <1>7, <1>8, <1>9, <1>10, <1>11, <1>12, <1>13,
             <1>14, <1>15, IssueEvents
          DEF Next


-----------------------------------------------------------------------------
(* The theorems.                                                           *)

IInv == Shape /\ SpecInv /\ CountInv /\ EventsOnTime

\* The inductive invariant behind the theorems: the data types, exact
\* speculation (SpecInv), the RUU/LSQ pairing by count (CountInv), and sorted,
\* timely events.
THEOREM Inductive == Spec => []IInv
  <1>1. Init => IInv
    <2>1. Init => EventsOnTime
      <3>1. DOMAIN << >> = {} OBVIOUS
      <3> QED BY Zenon, <3>1 DEF Init, EventsOnTime
    <2> QED BY <2>1, InitShape, InitSpecInv, InitCountInv DEF IInv
  <1>2. IInv /\ [Next]_vars => IInv'
    BY NextShape, NextSpecInv, NextCountInv, NextEvents DEF IInv
  <1> QED BY <1>1, <1>2, PTL DEF Spec

LEMMA RuuRange == IInv => TypeOK
  <1> SUFFICES ASSUME IInv PROVE TypeOK OBVIOUS
  <1>1. RUU_num \in 0 .. RUU_size /\ LSQ_num \in 0 .. LSQ_size
    BY DEF IInv, SpecInv, CountInv
  <1> QED BY <1>1 DEF IInv, Shape, TypeOK

\* Every array index, counter, queue and station of the out-of-order core stays
\* in its declared range, for every configuration.
THEOREM TypeCorrect == Spec => []TypeOK
  BY Inductive, RuuRange, PTL

\* The consistency checks of sim_main() never fail: head, tail and number of
\* entries of the RUU and of the LSQ agree, and the LSQ never holds more
\* entries than the RUU.
THEOREM RingsStayConsistent == Spec => []RingsConsistent
  <1>1. IInv => RingsConsistent
    <2> SUFFICES ASSUME IInv PROVE RingsConsistent OBVIOUS
    <2>1. /\ RUU_size \in Nat \ {0} /\ LSQ_size \in Nat \ {0}
          /\ RUU_head \in 0 .. RUU_size - 1 /\ LSQ_head \in 0 .. LSQ_size - 1
          /\ RUU_num \in 0 .. RUU_size /\ LSQ_num \in 0 .. LSQ_size
      BY SizesAssumption DEF SizesAssumption, IInv, Shape, SpecInv, CountInv
    <2>2. /\ (RUU_head + RUU_num) % RUU_size = RUU_tail
          /\ (LSQ_head + LSQ_num) % LSQ_size = LSQ_tail
      BY Zenon, <2>1, RingArith DEF IInv, SpecInv, CountInv
    <2>3. RUU_num >= LSQ_num BY RingFinite DEF IInv, CountInv
    <2> QED BY <2>2, <2>3 DEF RingsConsistent
  <1> QED BY <1>1, Inductive, PTL

LEMMA SpecExact == IInv => SpecModeExact
  <1> SUFFICES ASSUME IInv PROVE SpecModeExact OBVIOUS
  <1>0. Shape /\ SpecInv BY DEF IInv
  <1>1. \A s \in LiveRuu : \E i \in Ring : s = R(i) /\ live(i)
    BY <1>0, LiveRuuIs DEF live
  <1>2. \A i \in Ring : Age(R(i)) = age(i) /\ (live(i) => R(i) \in LiveRuu)
    BY <1>0, AgeLive, LiveRuuIs DEF live
  <1>3. ASSUME spec_mode
        PROVE  \E b \in LiveRuu :
                 /\ Resolves(b) /\ ~rs[b].spec_mode
                 /\ \A s \in LiveRuu \ {b} :
                       ~Resolves(s) /\ rs[s].spec_mode = (Age(s) > Age(b))
    <2>1. PICK b \in Ring : Branch(b) BY <1>0, <1>3 DEF SpecInv
    <2>2. R(b) \in LiveRuu /\ Resolves(R(b)) /\ ~rs[R(b)].spec_mode
      BY <1>2, <2>1 DEF Branch, ends, wrong
    <2>3. ASSUME NEW s \in LiveRuu \ {R(b)}
          PROVE  ~Resolves(s) /\ rs[s].spec_mode = (Age(s) > Age(R(b)))
      <3>1. PICK i \in Ring : s = R(i) /\ live(i) BY <1>1
      <3>2. i # b BY <3>1
      <3> QED BY <1>2, <2>1, <3>1, <3>2 DEF Branch, ends, wrong
    <2> QED BY <2>2, <2>3
  <1>4. ASSUME ~spec_mode
        PROVE  \A s \in LiveRuu : ~Resolves(s) /\ ~rs[s].spec_mode
    BY <1>0, <1>1, <1>4 DEF SpecInv, ends, wrong
  <1> QED BY <1>3, <1>4 DEF SpecModeExact

\* Speculative mode is exact, for every window size and width: one branch in
\* flight will end it, precisely the operations behind that branch are on the
\* wrong path, and outside speculative mode there are none.
THEOREM SpeculationExact == Spec => []SpecModeExact
  BY SpecExact, Inductive, PTL

\* Events complete on time in every configuration: the event queue is sorted
\* and no due event is left when the writeback stage ends.
THEOREM EventsAlwaysOnTime == Spec => []EventsOnTime
  <1>1. IInv => EventsOnTime BY DEF IInv
  <1> QED BY <1>1, Inductive, PTL

LEMMA HeadRightPath ==
    ASSUME IInv, [Next]_vars, RUU_head' # RUU_head
    PROVE  ~rs[R(RUU_head)].spec_mode
  <1>0. Shape /\ SpecInv BY DEF IInv
  <1>1. CommitOther \/ CommitMem
    <2>1. ~Quiet BY QuietFrame DEF ruuVars
    <2> QED BY Zenon, <2>1 DEF Next, Quiet, vars, ruuVars, WritebackEvent, RecoverOther, RecoverMem,
                        RecoverDone, DispatchOther, DispatchMem
  <1>2. RUU_num > 0 BY <1>1 DEF CommitOther, CommitMem, CommitReady
  <1>3. /\ RUU_size \in Nat \ {0} /\ RUU_head \in Ring /\ RUU_num \in 1 .. RUU_size
    BY <1>0, <1>2, SizesAssumption DEF SizesAssumption, Shape, SpecInv, Ring
  <1>4. PICK h \in Ring : h = RUU_head BY <1>3
  <1>5. age(h) = 0 /\ live(h) BY <1>2, <1>3, <1>4 DEF age, live, Ring
  <1>6. CASE ~spec_mode BY <1>0, <1>4, <1>5, <1>6 DEF SpecInv, wrong
  <1>7. CASE spec_mode
    <2>1. PICK b \in Ring : Branch(b) BY <1>0, <1>7 DEF SpecInv
    <2>2. age(b) >= 0 BY <1>3 DEF age, Ring
    <2>3. CASE h = b BY <1>4, <2>1, <2>3 DEF Branch, wrong
    <2>4. CASE h # b
      <3>1. wrong(h) = (age(h) > age(b)) BY <1>5, <2>1, <2>4 DEF Branch
      <3>2. age(b) \in Int BY <1>3 DEF age, Ring
      <3>3. (age(h) > age(b)) = FALSE BY <1>5, <2>2, <3>2
      <3>4. wrong(h) = FALSE BY Zenon, <3>1, <3>3
      <3> QED BY <1>4, <3>4 DEF wrong
    <2> QED BY <2>3, <2>4
  <1> QED BY <1>6, <1>7

\* Nothing dispatched on the wrong path is ever retired by ruu_commit().
THEOREM WrongPathNeverCommits == Spec => CommitsRightPath
  <1>1. IInv /\ [Next]_vars => [RUU_head' # RUU_head => ~rs[R(RUU_head)].spec_mode]_vars
    BY HeadRightPath
  <1> QED BY <1>1, Inductive, PTL DEF Spec, CommitsRightPath

=============================================================================
