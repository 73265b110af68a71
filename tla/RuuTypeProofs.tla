---------------------------- MODULE RuuTypeProofs ----------------------------
(***************************************************************************)
(* Types of the out-of-order core, proved for every size, width, program   *)
(* and functional unit configuration: every step keeps the shape of the    *)
(* state.  The ranges of the two counters need more and are in RuuProofs.  *)
(***************************************************************************)
EXTENDS Ruu, FiniteSetTheorems, TLAPS

\* A leaf that names no prover is given to the SMT solver, to Zenon if that fails, and
\* then to the SMT solver with more time.
USE SMTT(30), ZenonT(20), SMTT(60)

-----------------------------------------------------------------------------
(* Operators.                                                              *)

\* An index one step further round a ring of k entries.
LEMMA ModInc ==
    ASSUME NEW k \in Nat \ {0}, NEW i \in 0 .. k - 1
    PROVE  /\ (i + 1) % k = IF i + 1 = k THEN 0 ELSE i + 1
           /\ (i + (k - 1)) % k = IF i = 0 THEN k - 1 ELSE i - 1
  OBVIOUS

\* Linking an element into a list keeps it a list over the same set.
LEMMA InsertAfterType ==
    ASSUME NEW S, NEW q \in Seq(S), NEW k \in 0 .. Len(q), NEW e \in S
    PROVE  InsertAfter(q, k, e) \in Seq(S)
  BY DEF InsertAfter

LEMMA StationMember ==
    ASSUME SizesAssumption
    PROVE  /\ \A i \in 0 .. RUU_size - 1 : R(i) \in Station
           /\ \A i \in 0 .. LSQ_size - 1 : L(i) \in Station
  BY DEF Station, R, L

LEMMA NextTagType ==
    ASSUME NEW t \in Nat, SizesAssumption PROVE NextTag(t) \in Nat
  BY DEF NextTag, SizesAssumption

\* A station whose tag, flags or lists are assigned stays a station.
LEMMA TagUpdate ==
    ASSUME NEW st \in StationType, NEW t \in Nat
    PROVE  [st EXCEPT !.tag = t] \in StationType
  BY Zenon DEF StationType

LEMMA SquashType ==
    ASSUME NEW st \in StationType, SizesAssumption
    PROVE  Squash(st) \in StationType
  <1>1. st.tag \in Nat BY DEF StationType
  <1>2. NextTag(st.tag) \in Nat BY <1>1, NextTagType
  <1>3. [i \in Odeps |-> << >>] \in [Odeps -> Seq(OdepLink)] OBVIOUS
  <1> QED BY Zenon, <1>2, <1>3 DEF Squash, StationType

\* The type invariant without the ranges of the two counters.
Shape ==
    /\ stage \in Stage
    /\ RUU_head \in 0 .. RUU_size - 1 /\ RUU_tail \in 0 .. RUU_size - 1
    /\ LSQ_head \in 0 .. LSQ_size - 1 /\ LSQ_tail \in 0 .. LSQ_size - 1
    /\ RUU_num \in Int /\ LSQ_num \in Int
    /\ rs \in [Station -> StationType]
    /\ create_vector \in [Reg -> CvLink] /\ spec_create_vector \in [Reg -> CvLink]
    /\ use_spec_cv \subseteq Reg
    /\ event_queue \in Seq(Event)
    /\ ready_queue \in Seq(ReadyNode) /\ node \in Seq(ReadyNode)
    /\ rslink_used \in Int
    /\ busy \in [Unit -> Nat]
    /\ spec_mode \in BOOLEAN /\ inst_seq \in Nat
    /\ last_op \in [rs : Station \cup {NULL}, tag : Nat]
    /\ fuel \in 0 .. MaxInsts
    /\ n \in Nat /\ cur \in Station /\ onum \in Odeps
    /\ std_unknowns \in Seq(Addr)

LEMMA InitShape == Init => Shape
  <1> SUFFICES ASSUME Init PROVE Shape OBVIOUS
  <1> USE SizesAssumption, InstsAssumption, UnitsAssumption, BoundAssumption, StationMember
  <1>1. rs \in [Station -> StationType]
    BY DEF Init, StationType, Reg, NA, DTMP, SizesAssumption, InstsAssumption, Odeps, Ideps
  <1>2. create_vector \in [Reg -> CvLink] /\ spec_create_vector \in [Reg -> CvLink]
    BY DEF Init, CvLink, CVLINK_NULL, Odeps
  <1>3. last_op \in [rs : Station \cup {NULL}, tag : Nat]
    BY DEF Init, RSLINK_NULL
  <1>4. cur \in Station BY DEF Init, SizesAssumption
  <1>5. busy \in [Unit -> Nat] BY DEF Init
  <1>7. stage \in Stage /\ onum \in Odeps BY DEF Init, Stage, Odeps
  <1>8. fuel \in 0 .. MaxInsts BY DEF Init, BoundAssumption
  <1>6. 0 \in 0 .. RUU_size - 1 /\ 0 \in 0 .. LSQ_size - 1 BY DEF SizesAssumption
  <1>9. spec_mode \in BOOLEAN BY Zenon DEF Init
  <1>10. event_queue \in Seq(Event) /\ ready_queue \in Seq(ReadyNode)
         /\ node \in Seq(ReadyNode) /\ std_unknowns \in Seq(Addr)
    BY DEF Init
  <1>11. RUU_num \in Int /\ LSQ_num \in Int /\ rslink_used \in Int /\ inst_seq \in Nat
         /\ n \in Nat /\ use_spec_cv \subseteq Reg
    BY DEF Init
  <1>12. RUU_head \in 0 .. RUU_size - 1 /\ RUU_tail \in 0 .. RUU_size - 1
         /\ LSQ_head \in 0 .. LSQ_size - 1 /\ LSQ_tail \in 0 .. LSQ_size - 1
    BY <1>6 DEF Init
  <1> HIDE SizesAssumption, InstsAssumption, UnitsAssumption, BoundAssumption, StationMember
  <1> QED BY <1>1, <1>2, <1>3, <1>4, <1>5, <1>7, <1>8, <1>9, <1>10, <1>11, <1>12 DEF Shape

\* The fields of a station, by name.
LEMMA StationFields ==
    ASSUME NEW st \in StationType
    PROVE  /\ st.tag \in Nat /\ st.seq \in Nat /\ st.addr \in Addr
           /\ st.odep_list \in [Odeps -> Seq(OdepLink)]
           /\ st.onames \in [Odeps -> Reg] /\ st.idep_ready \in [Ideps -> BOOLEAN]
  BY DEF StationType

LEMMA StationTyped ==
    ASSUME Shape, NEW s \in Station PROVE rs[s] \in StationType
  BY DEF Shape

LEMMA Numbers ==
    ASSUME Shape
    PROVE  /\ n \in Nat /\ inst_seq \in Nat /\ fuel \in 0 .. MaxInsts
           /\ RUU_num \in Int /\ LSQ_num \in Int /\ rslink_used \in Int
  BY DEF Shape

LEMMA RsUpdate ==
    ASSUME Shape, NEW s \in Station, NEW st \in StationType
    PROVE  [rs EXCEPT ![s] = st] \in [Station -> StationType]
  BY DEF Shape

\* The heads, and the youngest entries, are stations.
LEMMA EndsAreStations ==
    ASSUME Shape
    PROVE  /\ R(RUU_head) \in Station /\ L(LSQ_head) \in Station
           /\ R(RUU_tail) \in Station /\ L(LSQ_tail) \in Station
           /\ R(RUU_index) \in Station /\ L(LSQ_index) \in Station
           /\ RUU_index \in 0 .. RUU_size - 1 /\ LSQ_index \in 0 .. LSQ_size - 1
           /\ (RUU_head + 1) % RUU_size \in 0 .. RUU_size - 1
           /\ (LSQ_head + 1) % LSQ_size \in 0 .. LSQ_size - 1
           /\ (RUU_tail + 1) % RUU_size \in 0 .. RUU_size - 1
           /\ (LSQ_tail + 1) % LSQ_size \in 0 .. LSQ_size - 1
  <1>0. /\ RUU_size \in Nat \ {0} /\ RUU_head \in 0 .. RUU_size - 1
        /\ RUU_tail \in 0 .. RUU_size - 1
        /\ LSQ_size \in Nat \ {0} /\ LSQ_head \in 0 .. LSQ_size - 1
        /\ LSQ_tail \in 0 .. LSQ_size - 1
    BY SizesAssumption DEF Shape, SizesAssumption
  <1>1. /\ RUU_index \in 0 .. RUU_size - 1 /\ LSQ_index \in 0 .. LSQ_size - 1
        /\ (RUU_head + 1) % RUU_size \in 0 .. RUU_size - 1
        /\ (LSQ_head + 1) % LSQ_size \in 0 .. LSQ_size - 1
        /\ (RUU_tail + 1) % RUU_size \in 0 .. RUU_size - 1
        /\ (LSQ_tail + 1) % LSQ_size \in 0 .. LSQ_size - 1
    BY <1>0, ModInc DEF RUU_index, LSQ_index
  <1> QED BY <1>0, <1>1, StationMember, SizesAssumption

LEMMA EventQueued ==
    ASSUME Shape, NEW s \in Station, NEW w \in Int, eventq_queue_event(s, w)
    PROVE  event_queue' \in Seq(Event)
  <1>1. PICK k \in EventPlace(w) : event_queue' = InsertAfter(event_queue, k,
                          [rs |-> s, tag |-> rs[s].tag, wait |-> w])
    BY DEF eventq_queue_event
  <1>2. k \in 0 .. Len(event_queue) /\ event_queue \in Seq(Event)
    BY DEF EventPlace, Shape
  <1>3. [rs |-> s, tag |-> rs[s].tag, wait |-> w] \in Event
    BY StationTyped, StationFields DEF Event
  <1> QED BY <1>1, <1>2, <1>3, InsertAfterType

LEMMA ReadyQueued ==
    ASSUME Shape, NEW s \in Station, NEW op, NEW seq \in Nat,
           readyq_enqueue(s, op, seq)
    PROVE  ready_queue' \in Seq(ReadyNode)
  <1>1. PICK k \in ReadyPlace(ready_queue, s, op, seq) :
           ready_queue' = InsertAfter(ready_queue, k,
                             [rs |-> s, tag |-> rs[s].tag, seq |-> seq])
    BY DEF readyq_enqueue
  <1>2. k \in 0 .. Len(ready_queue) /\ ready_queue \in Seq(ReadyNode)
    BY DEF ReadyPlace, Shape
  <1>3. [rs |-> s, tag |-> rs[s].tag, seq |-> seq] \in ReadyNode
    BY StationTyped, StationFields DEF ReadyNode
  <1> QED BY <1>1, <1>2, <1>3, InsertAfterType

\* A unit res_get() hands out can be marked busy.
LEMMA BusyType ==
    ASSUME Shape, NEW c \in FuClass, NEW fu \in res_get(c)
    PROVE  /\ [busy EXCEPT ![fu.unit] = fu.issuelat] \in [Unit -> Nat]
           /\ fu.oplat \in Nat \ {0}
  <1>1. fu_table[c] \in Seq(Template) BY UnitsAssumption DEF UnitsAssumption
  <1>2. fu \in Template BY <1>1 DEF res_get
  <1> QED BY <1>2 DEF Template, Shape

-----------------------------------------------------------------------------
(* Shape is inductive: one step per action.                                *)

LEMMA CommitOtherShape == Shape /\ CommitOther => Shape'
  <1> SUFFICES ASSUME Shape, CommitOther PROVE Shape' OBVIOUS
  <1>0. RUU_head \in 0 .. RUU_size - 1 /\ RUU_size \in Nat \ {0} BY SizesAssumption DEF Shape, SizesAssumption
  <1>1. RUU_head' \in 0 .. RUU_size - 1 BY <1>0, ModInc DEF CommitOther
  <1>2. rs' \in [Station -> StationType]
    <2>1. R(RUU_head) \in Station BY <1>0, StationMember, SizesAssumption
    <2>2. rs[R(RUU_head)] \in StationType BY <2>1 DEF Shape
    <2>3. rs[R(RUU_head)].tag \in Nat BY <2>2 DEF StationType
    <2>4. [rs[R(RUU_head)] EXCEPT !.tag = NextTag(@)] \in StationType
      BY <2>2, <2>3, TagUpdate, NextTagType, SizesAssumption
    <2> QED BY <2>1, <2>4 DEF CommitOther, Shape
  <1>3. n' \in Nat BY Numbers DEF CommitOther
  <1>4. RUU_num' \in Int BY Numbers DEF CommitOther
  <1> QED BY Zenon, <1>1, <1>2, <1>3, <1>4 DEF Shape, CommitOther, lsqVars, cvVars, dispVars, wbVars

LEMMA CommitMemShape == Shape /\ CommitMem => Shape'
  <1> SUFFICES ASSUME Shape, CommitMem PROVE Shape' OBVIOUS
  <1>1. rs' \in [Station -> StationType]
    <2> DEFINE a == R(RUU_head)
               b == L(LSQ_head)
               sa == [rs[a] EXCEPT !.tag = NextTag(@)]
               sb == [rs[b] EXCEPT !.tag = NextTag(@)]
    <2>1. a \in Station /\ b \in Station BY EndsAreStations
    <2>2. sa \in StationType /\ sb \in StationType
      BY <2>1, StationTyped, StationFields, TagUpdate, NextTagType, SizesAssumption
    <2>3. a # b BY DEF R, L
    <2>4. rs' = [rs EXCEPT ![a] = sa, ![b] = sb] BY Zenon, <2>3 DEF CommitMem
    <2> HIDE DEF a, b, sa, sb
    <2> QED BY Zenon, <2>1, <2>2, <2>4 DEF Shape
  <1>2. busy' \in [Unit -> Nat]
    <2>1. CASE rs[L(LSQ_head)].op = "store"
      BY <2>1, BusyType DEF CommitMem, FuClass
    <2>2. CASE rs[L(LSQ_head)].op # "store" BY <2>2 DEF CommitMem, Shape
    <2> QED BY <2>1, <2>2
  <1>3. n' \in Nat BY Numbers DEF CommitMem
  <1>4. RUU_num' \in Int /\ LSQ_num' \in Int BY Numbers DEF CommitMem
  <1>5. RUU_head' \in 0 .. RUU_size - 1 /\ LSQ_head' \in 0 .. LSQ_size - 1
    BY EndsAreStations DEF CommitMem
  <1> QED BY Zenon, <1>1, <1>2, <1>3, <1>4, <1>5 DEF Shape, CommitMem, cvVars, dispVars, wbVars

LEMMA ReleaseShape == Shape /\ ruu_release_fu => Shape'
  <1> SUFFICES ASSUME Shape, ruu_release_fu PROVE Shape' OBVIOUS
  <1>1. busy' \in [Unit -> Nat] BY DEF Shape, ruu_release_fu
  <1>2. stage' \in Stage BY DEF ruu_release_fu, Stage
  <1> QED BY <1>1, <1>2 DEF Shape, ruu_release_fu, ruuVars, lsqVars, cvVars, dispVars, wbVars

LEMMA WritebackSquashedShape == Shape /\ WritebackSquashed => Shape'
  <1> SUFFICES ASSUME Shape, WritebackSquashed PROVE Shape' OBVIOUS
  <1>1. event_queue' \in Seq(Event)
    BY DEF Shape, WritebackSquashed, EventDue
  <1>2. rslink_used' \in Int BY Numbers DEF WritebackSquashed
  <1> QED BY <1>1, <1>2
      DEF Shape, WritebackSquashed, ruuVars, lsqVars, cvVars, dispVars, wbVars

LEMMA CreatorDoneType ==
    ASSUME NEW cv \in [Reg -> CvLink], NEW s
    PROVE  CreatorDone(cv, s) \in [Reg -> CvLink]
  BY DEF CreatorDone, CvLink, CVLINK_NULL, Odeps

LEMMA WritebackEventShape == Shape /\ WritebackEvent => Shape'
  <1> SUFFICES ASSUME Shape, WritebackEvent PROVE Shape' OBVIOUS
  <1> DEFINE s == Head(event_queue).rs
  <1>1. event_queue \in Seq(Event) /\ event_queue # << >>
    BY DEF Shape, WritebackEvent, EventDue
  <1>2. s \in Station /\ event_queue' \in Seq(Event)
    <2>1. Head(event_queue) \in Event /\ Tail(event_queue) \in Seq(Event)
      BY <1>1
    <2> QED BY <2>1 DEF Event, WritebackEvent
  <1>3. rs' \in [Station -> StationType]
    <2>1. [rs[s] EXCEPT !.completed = TRUE] \in StationType
      BY ZenonT(40), <1>2, StationTyped DEF StationType
    <2>2. rs' = [rs EXCEPT ![s] = [rs[s] EXCEPT !.completed = TRUE]]
      BY DEF WritebackEvent
    <2> HIDE DEF s
    <2> QED BY <1>2, <2>1, <2>2, RsUpdate
  <1>4. create_vector' \in [Reg -> CvLink] /\ spec_create_vector' \in [Reg -> CvLink]
    <2>1. /\ create_vector' \in {create_vector, CreatorDone(create_vector, s)}
          /\ spec_create_vector' \in {spec_create_vector, CreatorDone(spec_create_vector, s)}
      BY DEF WritebackEvent
    <2>2. create_vector \in [Reg -> CvLink] /\ spec_create_vector \in [Reg -> CvLink]
      BY DEF Shape
    <2>3. /\ CreatorDone(create_vector, s) \in [Reg -> CvLink]
          /\ CreatorDone(spec_create_vector, s) \in [Reg -> CvLink]
      BY Zenon, <2>2, CreatorDoneType
    <2> HIDE DEF s
    <2> QED BY Zenon, <2>1, <2>2, <2>3
  <1>5. stage' \in Stage BY DEF WritebackEvent, Stage
  <1>6. rslink_used' \in Int BY Numbers DEF WritebackEvent
  <1>7. cur' \in Station /\ onum' \in Odeps BY <1>2 DEF WritebackEvent, Odeps
  <1> QED BY <1>2, <1>3, <1>4, <1>5, <1>6, <1>7
      DEF Shape, WritebackEvent, ruuVars, lsqVars, dispVars

LEMMA WritebackDoneShape == Shape /\ WritebackDone => Shape'
  <1> SUFFICES ASSUME Shape, WritebackDone PROVE Shape' OBVIOUS
  <1>1. stage' \in Stage /\ n' \in Nat BY DEF WritebackDone, Stage
  <1> QED BY <1>1 DEF Shape, WritebackDone, ruuVars, lsqVars, cvVars, dispVars, wbVars

LEMMA NumLinksType ==
    ASSUME Shape, NEW s \in Station PROVE NumLinks(s) \in Nat
  <1>1. rs[s].odep_list \in [Odeps -> Seq(OdepLink)]
    BY StationTyped, StationFields
  <1>2. 0 \in Odeps /\ 1 \in Odeps BY DEF Odeps
  <1>3. /\ rs[s].odep_list[0] \in Seq(OdepLink)
        /\ rs[s].odep_list[1] \in Seq(OdepLink)
    BY <1>1, <1>2
  <1> DEFINE a == Len(rs[s].odep_list[0])
             b == Len(rs[s].odep_list[1])
  <1>4. a \in Nat /\ b \in Nat BY <1>3
  <1>5. NumLinks(s) = a + b BY DEF NumLinks
  <1> HIDE DEF a, b
  <1> QED BY <1>4, <1>5

LEMMA RecoverOtherShape == Shape /\ RecoverOther => Shape'
  <1> SUFFICES ASSUME Shape, RecoverOther PROVE Shape' OBVIOUS
  <1>0. R(RUU_index) \in Station BY EndsAreStations
  <1>1. rs' \in [Station -> StationType]
    BY <1>0, StationTyped, SquashType, RsUpdate, SizesAssumption DEF RecoverOther
  <1>2. rslink_used' \in Int BY <1>0, Numbers, NumLinksType DEF RecoverOther
  <1>3. RUU_tail' \in 0 .. RUU_size - 1 /\ RUU_num' \in Int
    BY EndsAreStations, Numbers DEF RecoverOther
  <1> QED BY <1>1, <1>2, <1>3 DEF Shape, RecoverOther, lsqVars, cvVars, dispVars, wbVars

LEMMA RecoverMemShape == Shape /\ RecoverMem => Shape'
  <1> SUFFICES ASSUME Shape, RecoverMem PROVE Shape' OBVIOUS
  <1>0. R(RUU_index) \in Station /\ L(LSQ_index) \in Station BY EndsAreStations
  <1>1. rs' \in [Station -> StationType]
    <2> DEFINE a == R(RUU_index)
               b == L(LSQ_index)
    <2>1. Squash(rs[a]) \in StationType /\ Squash(rs[b]) \in StationType
      BY <1>0, StationTyped, SquashType, SizesAssumption
    <2>2. a # b BY DEF R, L
    <2>3. rs' = [rs EXCEPT ![a] = Squash(rs[a]), ![b] = Squash(rs[b])]
      BY <2>2 DEF RecoverMem
    <2> HIDE DEF a, b
    <2> QED BY Zenon, <2>1, <2>3 DEF Shape
  <1>2. rslink_used' \in Int BY <1>0, Numbers, NumLinksType DEF RecoverMem
  <1>3. /\ RUU_tail' \in 0 .. RUU_size - 1 /\ RUU_num' \in Int
        /\ LSQ_tail' \in 0 .. LSQ_size - 1 /\ LSQ_num' \in Int
    BY EndsAreStations, Numbers DEF RecoverMem
  <1> QED BY Zenon, <1>1, <1>2, <1>3 DEF Shape, RecoverMem, cvVars, dispVars, wbVars

LEMMA RecoverDoneShape == Shape /\ RecoverDone => Shape'
  <1> SUFFICES ASSUME Shape, RecoverDone PROVE Shape' OBVIOUS
  <1>1. stage' \in Stage BY DEF RecoverDone, Stage
  <1>2. spec_mode' \in BOOLEAN /\ use_spec_cv' \subseteq Reg BY Zenon DEF RecoverDone
  <1> QED BY <1>1, <1>2 DEF Shape, RecoverDone, ruuVars, lsqVars, dispVars, wbVars


\* What is left of the chain writeback walks is a list of links.
LEMMA ChainType ==
    ASSUME Shape
    PROVE  /\ Chain \in Seq(OdepLink)
           /\ Chain # << >> => Head(Chain) \in OdepLink /\ Tail(Chain) \in Seq(OdepLink)
           /\ Chain # << >> => rs[cur].odep_list[onum] = Chain
  <1>1. cur \in Station /\ onum \in Odeps BY DEF Shape
  <1>2. rs[cur].odep_list[onum] \in Seq(OdepLink)
    BY <1>1, StationTyped, StationFields
  <1>3. Chain \in Seq(OdepLink) BY <1>2 DEF Chain
  <1> QED BY <1>3 DEF Chain

LEMMA WalkedType ==
    ASSUME Shape, Chain # << >> PROVE Walked \in [Station -> StationType]
  <1>1. cur \in Station /\ onum \in Odeps BY DEF Shape
  <1>2. rs[cur].odep_list \in [Odeps -> Seq(OdepLink)]
    BY <1>1, StationTyped, StationFields
  <1>3. [rs[cur].odep_list EXCEPT ![onum] = Tail(Chain)] \in [Odeps -> Seq(OdepLink)]
    BY <1>1, <1>2, ChainType
  <1>4. [rs[cur] EXCEPT !.odep_list = [rs[cur].odep_list EXCEPT ![onum] = Tail(Chain)]]
           \in StationType
    BY Zenon, <1>1, <1>3, StationTyped DEF StationType
  <1>5. Walked = [rs EXCEPT ![cur] =
           [rs[cur] EXCEPT !.odep_list = [rs[cur].odep_list EXCEPT ![onum] = Tail(Chain)]]]
    BY DEF Walked
  <1> QED BY <1>1, <1>4, <1>5, RsUpdate

LEMMA BroadcastSquashedShape == Shape /\ BroadcastSquashed => Shape'
  <1> SUFFICES ASSUME Shape, BroadcastSquashed PROVE Shape' OBVIOUS
  <1>1. rs' \in [Station -> StationType] BY WalkedType DEF BroadcastSquashed
  <1>2. rslink_used' \in Int BY Numbers DEF BroadcastSquashed
  <1> QED BY <1>1, <1>2
      DEF Shape, BroadcastSquashed, ruuVars, lsqVars, cvVars, dispVars, wbVars

LEMMA BroadcastWakeShape == Shape /\ BroadcastWake => Shape'
  <1> SUFFICES ASSUME Shape, BroadcastWake PROVE Shape' OBVIOUS
  <1> DEFINE c == Head(Chain).rs
             k == Head(Chain).opnum
             wake == /\ \A j \in Ideps \ {k} : rs[c].idep_ready[j]
                     /\ ~IsLoad(c)
  <1>0. Chain # << >> BY DEF BroadcastWake
  <1>1. c \in Station /\ k \in Ideps BY <1>0, ChainType DEF OdepLink
  <1>2. Walked \in [Station -> StationType] BY <1>0, WalkedType
  <1>3. rs' \in [Station -> StationType]
    <2> DEFINE i2 == [Walked[c].idep_ready EXCEPT ![k] = TRUE]
               q2 == Walked[c].queued \/ wake
    <2>1. Walked[c] \in StationType BY <1>1, <1>2
    <2>2. i2 \in [Ideps -> BOOLEAN] BY <1>1, <2>1, StationFields
    <2>3. q2 \in BOOLEAN OBVIOUS
    <2>4. rs' = [Walked EXCEPT ![c].idep_ready[k] = TRUE, ![c].queued = @ \/ wake]
      BY DEF BroadcastWake
    <2>5. rs' = [Walked EXCEPT ![c] = [Walked[c] EXCEPT !.idep_ready = i2, !.queued = q2]]
      BY Zenon, <1>1, <1>2, <2>1, <2>4 DEF StationType
    <2> HIDE DEF c, k, wake, i2, q2
    <2>6. [Walked[c] EXCEPT !.idep_ready = i2, !.queued = q2] \in StationType
      BY Zenon, <2>1, <2>2, <2>3 DEF StationType
    <2> QED BY <1>1, <1>2, <2>5, <2>6
  <1>4. ready_queue' \in Seq(ReadyNode) /\ rslink_used' \in Int
    <2>1. CASE wake
      <3>1. readyq_enqueue(c, rs[c].op, rs[c].seq) /\ rslink_used' = rslink_used
        BY <2>1 DEF BroadcastWake
      <3>2. rs[c].seq \in Nat BY <1>1, StationTyped, StationFields
      <3> QED BY <1>1, <3>1, <3>2, ReadyQueued, Numbers
    <2>2. CASE ~wake
      <3>1. ready_queue' = ready_queue /\ rslink_used' = rslink_used - 1
        BY <2>2 DEF BroadcastWake
      <3> QED BY <3>1 DEF Shape
    <2> QED BY <2>1, <2>2
  <1> QED BY Zenon, <1>3, <1>4
      DEF Shape, BroadcastWake, ruuVars, lsqVars, cvVars, dispVars, wbVars

LEMMA BroadcastNextShape == Shape /\ BroadcastNext => Shape'
  <1> SUFFICES ASSUME Shape, BroadcastNext PROVE Shape' OBVIOUS
  <1>1. stage' \in Stage /\ onum' \in Odeps BY DEF Shape, BroadcastNext, Stage, Odeps
  <1> QED BY <1>1 DEF Shape, BroadcastNext, ruuVars, lsqVars, cvVars, dispVars


LEMMA ScannedType ==
    ASSUME Shape PROVE Scanned \in Station /\ rs[Scanned] \in StationType
  <1>1. /\ LSQ_head \in Nat /\ n \in Nat /\ LSQ_size \in Nat \ {0}
    BY SizesAssumption DEF Shape, SizesAssumption
  <1>2. (LSQ_head + n) % LSQ_size \in 0 .. LSQ_size - 1 BY <1>1
  <1>3. Scanned \in Station BY <1>2, StationMember, SizesAssumption DEF Scanned
  <1> QED BY <1>3, StationTyped

LEMMA RefreshStoreShape == Shape /\ RefreshStore => Shape'
  <1> SUFFICES ASSUME Shape, RefreshStore PROVE Shape' OBVIOUS
  <1>1. std_unknowns' \in Seq(Addr)
    <2>1. rs[Scanned].addr \in Addr /\ 0 \in Addr /\ std_unknowns \in Seq(Addr)
      BY ScannedType, StationFields, InstsAssumption DEF InstsAssumption, Shape
    <2>2. CASE StdUnknown(Scanned)
      <3>1. std_unknowns' = Append(std_unknowns, rs[Scanned].addr)
        BY Zenon, <2>2 DEF RefreshStore
      <3> QED BY <2>1, <3>1
    <2>3. CASE ~StdUnknown(Scanned)
      <3>1. std_unknowns' = [j \in DOMAIN std_unknowns |->
                  IF std_unknowns[j] = rs[Scanned].addr THEN 0 ELSE std_unknowns[j]]
        BY Zenon, <2>3 DEF RefreshStore
      <3>2. DOMAIN std_unknowns = 1 .. Len(std_unknowns) /\ Len(std_unknowns) \in Nat
        BY <2>1
      <3>3. \A j \in 1 .. Len(std_unknowns) : std_unknowns[j] \in Addr BY <2>1
      <3>4. std_unknowns' \in [1 .. Len(std_unknowns) -> Addr]
        BY <2>1, <3>1, <3>2, <3>3
      <3> QED BY <3>2, <3>4
    <2> QED BY <2>2, <2>3
  <1>2. n' \in Nat BY Numbers DEF RefreshStore
  <1> QED BY <1>1, <1>2 DEF Shape, RefreshStore, ruuVars, lsqVars, cvVars, dispVars, wbVars

LEMMA RefreshLoadShape == Shape /\ RefreshLoad => Shape'
  <1> SUFFICES ASSUME Shape, RefreshLoad PROVE Shape' OBVIOUS
  <1>1. /\ rs' \in [Station -> StationType] /\ ready_queue' \in Seq(ReadyNode)
        /\ rslink_used' \in Int
    <2>1. CASE LoadReady(Scanned)
      <3>1. /\ readyq_enqueue(Scanned, rs[Scanned].op, rs[Scanned].seq)
            /\ rs' = [rs EXCEPT ![Scanned] = [rs[Scanned] EXCEPT !.queued = TRUE]]
            /\ rslink_used' = rslink_used + 1
        BY <2>1 DEF RefreshLoad
      <3>2. [rs[Scanned] EXCEPT !.queued = TRUE] \in StationType
        BY Zenon, ScannedType DEF StationType
      <3>3. rs' \in [Station -> StationType] BY <3>1, <3>2, ScannedType, RsUpdate
      <3>4. ready_queue' \in Seq(ReadyNode)
        BY <3>1, ScannedType, StationFields, ReadyQueued
      <3> QED BY <3>1, <3>3, <3>4, Numbers
    <2>2. CASE ~LoadReady(Scanned) BY <2>2 DEF RefreshLoad, Shape
    <2> QED BY <2>1, <2>2
  <1>2. n' \in Nat BY Numbers DEF RefreshLoad
  <1> QED BY Zenon, <1>1, <1>2 DEF Shape, RefreshLoad, ruuVars, lsqVars, cvVars, dispVars, wbVars

LEMMA RefreshDoneShape == Shape /\ RefreshDone => Shape'
  <1> SUFFICES ASSUME Shape, RefreshDone PROVE Shape' OBVIOUS
  <1>1. stage' \in Stage /\ n' \in Nat BY DEF RefreshDone, Stage
  <1>2. /\ std_unknowns' \in Seq(Addr) /\ ready_queue' \in Seq(ReadyNode)
        /\ node' \in Seq(ReadyNode)
    BY DEF RefreshDone, Shape
  <1> QED BY <1>1, <1>2 DEF Shape, RefreshDone, ruuVars, lsqVars, cvVars, dispVars, wbVars

\* The node ruu_issue() looks at names a station.
LEMMA PickedType ==
    ASSUME Shape, node # << >>
    PROVE  /\ Picked \in Station /\ rs[Picked] \in StationType
           /\ Tail(node) \in Seq(ReadyNode)
  <1>1. Head(node) \in ReadyNode /\ Tail(node) \in Seq(ReadyNode) BY DEF Shape
  <1>2. Picked \in Station BY <1>1 DEF Picked, ReadyNode
  <1> QED BY <1>1, <1>2, StationTyped

LEMMA IssueSquashedShape == Shape /\ IssueSquashed => Shape'
  <1> SUFFICES ASSUME Shape, IssueSquashed PROVE Shape' OBVIOUS
  <1>1. node' \in Seq(ReadyNode) BY PickedType DEF IssueSquashed
  <1>2. rslink_used' \in Int BY Numbers DEF IssueSquashed
  <1> QED BY <1>1, <1>2 DEF Shape, IssueSquashed, ruuVars, lsqVars, cvVars, dispVars, wbVars

LEMMA IssueStoreShape == Shape /\ IssueStore => Shape'
  <1> SUFFICES ASSUME Shape, IssueStore PROVE Shape' OBVIOUS
  <1>0. node # << >> BY DEF IssueStore, Issuing
  <1>1. node' \in Seq(ReadyNode) BY <1>0, PickedType DEF IssueStore
  <1>2. rslink_used' \in Int /\ n' \in Nat BY Numbers DEF IssueStore
  <1>3. rs' \in [Station -> StationType]
    <2> DEFINE st == [rs[Picked] EXCEPT !.queued = FALSE, !.issued = TRUE, !.completed = TRUE]
    <2>1. st \in StationType BY Zenon, <1>0, PickedType DEF StationType
    <2>2. rs' = [rs EXCEPT ![Picked] = st]
      BY Zenon, <1>0, PickedType DEF IssueStore, Shape
    <2> HIDE DEF st
    <2> QED BY <1>0, <2>1, <2>2, PickedType, RsUpdate
  <1> QED BY Zenon, <1>1, <1>2, <1>3 DEF Shape, IssueStore, ruuVars, lsqVars, cvVars, dispVars, wbVars


LEMMA ClassType ==
    ASSUME NEW op PROVE SS_OP_FUCLASS(op) \in FuClass \cup {"NA"}
  <1>1. \/ SS_OP_FUCLASS(op) = "IntALU" \/ SS_OP_FUCLASS(op) = "IntMULT"
        \/ SS_OP_FUCLASS(op) = "IntDIV" \/ SS_OP_FUCLASS(op) = "RdPort"
        \/ SS_OP_FUCLASS(op) = "WrPort" \/ SS_OP_FUCLASS(op) = "NA"
    BY DEF SS_OP_FUCLASS
  <1> QED BY <1>1 DEF FuClass

LEMMA LatencyType ==
    ASSUME NEW s, NEW fu, fu.oplat \in Nat \ {0}, NEW lat \in Latency(s, fu)
    PROVE  lat \in Nat \ {0}
  <1>1. CASE IsLoad(s)
    <2> DEFINE C == IF Forwarded(s) THEN {1} ELSE CacheLat \cup {fu.oplat}
               T == TlbLat \cup {0}
    <2>1. lat \in {IF c > t THEN c ELSE t : c \in C, t \in T} BY <1>1 DEF Latency
    <2>2. \A c \in C : c \in Nat \ {0} BY UnitsAssumption DEF UnitsAssumption
    <2>3. \A t \in T : t \in Nat BY UnitsAssumption DEF UnitsAssumption
    <2> HIDE DEF C, T
    <2>4. PICK c \in C, t \in T : lat = IF c > t THEN c ELSE t BY <2>1
    <2>5. c \in Nat \ {0} /\ t \in Nat BY <2>2, <2>3
    <2> QED BY <2>4, <2>5
  <1>2. CASE ~IsLoad(s) BY <1>2 DEF Latency
  <1> QED BY <1>1, <1>2

LEMMA IssueShape == Shape /\ Issue => Shape'
  <1> SUFFICES ASSUME Shape, Issue PROVE Shape' OBVIOUS
  <1>0. node # << >> BY DEF Issue, Issuing
  <1>1. node' \in Seq(ReadyNode) BY <1>0, PickedType DEF Issue
  <1>2. n' \in Nat BY Numbers DEF Issue
  <1>3. rs' \in [Station -> StationType]
    <2> DEFINE st == [rs[Picked] EXCEPT !.queued = FALSE, !.issued = TRUE]
    <2>1. st \in StationType BY Zenon, <1>0, PickedType DEF StationType
    <2>2. rs' = [rs EXCEPT ![Picked] = st]
      BY Zenon, <1>0, PickedType DEF Issue, Shape
    <2> HIDE DEF st
    <2> QED BY <1>0, <2>1, <2>2, PickedType, RsUpdate
  <1>4. event_queue' \in Seq(Event) /\ busy' \in [Unit -> Nat]
    <2> DEFINE c == SS_OP_FUCLASS(rs[Picked].op)
    <2>1. CASE c = "NA"
      <3>1. eventq_queue_event(Picked, 1) /\ busy' = busy BY <2>1 DEF Issue
      <3> QED BY <1>0, <3>1, PickedType, EventQueued DEF Shape
    <2>2. CASE c # "NA"
      <3>1. PICK fu \in res_get(c) :
              /\ busy' = [busy EXCEPT ![fu.unit] = fu.issuelat]
              /\ \E lat \in Latency(Picked, fu) : eventq_queue_event(Picked, lat)
        BY <2>2 DEF Issue
      <3>2. PICK lat \in Latency(Picked, fu) : eventq_queue_event(Picked, lat)
        BY <3>1
      <3>3. c \in FuClass BY <2>2, ClassType
      <3>4. fu.oplat \in Nat \ {0} /\ busy' \in [Unit -> Nat] BY <3>1, <3>3, BusyType
      <3>5. lat \in Nat \ {0} BY <3>4, LatencyType
      <3> QED BY <1>0, <3>2, <3>4, <3>5, PickedType, EventQueued
    <2> QED BY <2>1, <2>2
  <1> QED BY Zenon, <1>1, <1>2, <1>3, <1>4 DEF Shape, Issue, ruuVars, lsqVars, cvVars, dispVars, wbVars


LEMMA IssueLaterShape == Shape /\ IssueLater => Shape'
  <1> SUFFICES ASSUME Shape, IssueLater PROVE Shape' OBVIOUS
  <1>0. node # << >> BY DEF IssueLater
  <1>1. node' \in Seq(ReadyNode) BY <1>0, PickedType DEF IssueLater
  <1>2. ready_queue' \in Seq(ReadyNode)
    <2>1. readyq_enqueue(Picked, rs[Picked].op, rs[Picked].seq) BY DEF IssueLater
    <2>2. rs[Picked].seq \in Nat BY <1>0, PickedType, StationFields
    <2> QED BY <1>0, <2>1, <2>2, PickedType, ReadyQueued
  <1> QED BY <1>1, <1>2 DEF Shape, IssueLater, ruuVars, lsqVars, cvVars, dispVars, wbVars

LEMMA NextCycleType ==
    ASSUME Shape, NextCycle
    PROVE  event_queue' \in Seq(Event) /\ stage' \in Stage /\ n' \in Nat
  <1>1. event_queue \in Seq(Event) BY DEF Shape
  <1>2. DOMAIN event_queue = 1 .. Len(event_queue) /\ Len(event_queue) \in Nat BY <1>1
  <1>3. \A i \in 1 .. Len(event_queue) :
           [event_queue[i] EXCEPT !.wait = @ - 1] \in Event
    <2>1. \A i \in 1 .. Len(event_queue) : event_queue[i] \in Event BY <1>1
    <2>2. \A e \in Event : [e EXCEPT !.wait = @ - 1] \in Event BY DEF Event
    <2> QED BY <2>1, <2>2
  <1>4. event_queue' = [i \in 1 .. Len(event_queue) |->
                          [event_queue[i] EXCEPT !.wait = @ - 1]]
    BY <1>2 DEF NextCycle
  <1>5. event_queue' \in [1 .. Len(event_queue) -> Event] BY <1>3, <1>4
  <1>6. event_queue' \in Seq(Event) BY <1>2, <1>5
  <1> QED BY <1>6 DEF NextCycle, Stage

LEMMA IssueDoneShape == Shape /\ IssueDone => Shape'
  <1> SUFFICES ASSUME Shape, IssueDone PROVE Shape' OBVIOUS
  <1>1. event_queue' \in Seq(Event) /\ stage' \in Stage /\ n' \in Nat
    <2>1. CASE NextCycle BY <2>1, NextCycleType
    <2>2. CASE stage' = "dispatch" /\ n' = 0 /\ event_queue' = event_queue
      BY <2>2 DEF Shape, Stage
    <2> QED BY <2>1, <2>2 DEF IssueDone
  <1> QED BY <1>1 DEF Shape, IssueDone, ruuVars, lsqVars, cvVars, dispVars, wbVars

LEMMA DispatchDoneShape == Shape /\ DispatchDone => Shape'
  <1> SUFFICES ASSUME Shape, DispatchDone PROVE Shape' OBVIOUS
  <1>1. event_queue' \in Seq(Event) /\ stage' \in Stage /\ n' \in Nat
    <2>1. CASE NextCycle BY <2>1, NextCycleType
    <2>2. CASE stage' = "refresh" /\ n' = 0 /\ event_queue' = event_queue
      BY <2>2 DEF Shape, Stage
    <2> QED BY <2>1, <2>2 DEF DispatchDone
  <1> QED BY <1>1 DEF Shape, DispatchDone, ruuVars, lsqVars, cvVars, dispVars, wbVars

\* The links dispatch puts on one chain.
LEMMA NewLinksType ==
    ASSUME Shape, NEW s \in Station, NEW names, NEW p, NEW o
    PROVE  NewLinks(s, names, p, o) \in Seq(OdepLink)
  <1> DEFINE link(k) ==
          IF k \in Pending(names) /\ CREATE_VECTOR(names[k]) = [rs |-> p, odep_num |-> o]
          THEN <<[rs |-> s, tag |-> rs[s].tag, opnum |-> k]>> ELSE << >>
  <1>1. ASSUME NEW k \in Ideps PROVE link(k) \in Seq(OdepLink)
    <2>1. [rs |-> s, tag |-> rs[s].tag, opnum |-> k] \in OdepLink
      BY <1>1, StationTyped, StationFields DEF OdepLink
    <2> QED BY <2>1
  <1>2. link(0) \in Seq(OdepLink) /\ link(1) \in Seq(OdepLink) /\ link(2) \in Seq(OdepLink)
    BY <1>1 DEF Ideps
  <1>3. NewLinks(s, names, p, o) = link(2) \o link(1) \o link(0) BY DEF NewLinks
  <1> HIDE DEF link
  <1> QED BY <1>2, <1>3

\* A station whose chains got links in front stays a station.
LEMMA LinkedType ==
    ASSUME NEW st \in StationType, NEW f \in [Odeps -> Seq(OdepLink)]
    PROVE  [st EXCEPT !.odep_list = [o \in Odeps |-> f[o] \o @[o]]] \in StationType
  <1>1. [o \in Odeps |-> f[o] \o st.odep_list[o]] \in [Odeps -> Seq(OdepLink)]
    BY StationFields
  <1> QED BY Zenon, <1>1 DEF StationType

LEMMA FilledType ==
    ASSUME Shape, NEW s \in Station, NEW op \in Op \cup {"agen"}, NEW ea \in BOOLEAN,
           NEW mis \in BOOLEAN, NEW addr \in Addr, NEW seq \in Nat,
           NEW out \in [Odeps -> Reg], NEW ready, NEW queued \in BOOLEAN
    PROVE  Filled(s, op, ea, mis, addr, seq, out, ready, queued) \in StationType
  <1>1. [o \in Odeps |-> IF out[o] = NA THEN rs[s].odep_list[o] ELSE << >>]
           \in [Odeps -> Seq(OdepLink)]
    BY StationTyped, StationFields
  <1>2. [k \in Ideps |-> k \in ready] \in [Ideps -> BOOLEAN] OBVIOUS
  <1>3. rs[s] \in StationType /\ spec_mode \in BOOLEAN BY StationTyped DEF Shape
  <1> QED BY ZenonT(40), <1>1, <1>2, <1>3 DEF Filled, StationType


\* The create vector after SET_CREATE_VECTOR.
LEMMA SetCvType ==
    ASSUME Shape, NEW made, DOMAIN made \subseteq Reg,
           \A r \in DOMAIN made : made[r] \in CvLink, SET_CREATE_VECTOR(made)
    PROVE  /\ create_vector' \in [Reg -> CvLink]
           /\ spec_create_vector' \in [Reg -> CvLink] /\ use_spec_cv' \subseteq Reg
  <1> DEFINE set(cv) == [r \in Reg |-> IF r \in DOMAIN made THEN made[r] ELSE cv[r]]
  <1>1. ASSUME NEW cv \in [Reg -> CvLink] PROVE set(cv) \in [Reg -> CvLink]
    OBVIOUS
  <1>2. /\ create_vector \in [Reg -> CvLink] /\ spec_create_vector \in [Reg -> CvLink]
        /\ use_spec_cv \subseteq Reg
    BY DEF Shape
  <1>3. CASE spec_mode
    <2>1. /\ spec_create_vector' = set(spec_create_vector)
          /\ use_spec_cv' = use_spec_cv \cup DOMAIN made
          /\ create_vector' = create_vector
      BY <1>3 DEF SET_CREATE_VECTOR
    <2>2. set(spec_create_vector) \in [Reg -> CvLink] BY <1>1, <1>2
    <2> HIDE DEF set
    <2> QED BY <1>2, <2>1, <2>2
  <1>4. CASE ~spec_mode
    <2>1. /\ create_vector' = set(create_vector)
          /\ UNCHANGED <<spec_create_vector, use_spec_cv>>
      BY <1>4 DEF SET_CREATE_VECTOR
    <2>2. set(create_vector) \in [Reg -> CvLink] BY <1>1, <1>2
    <2> HIDE DEF set
    <2> QED BY <1>2, <2>1, <2>2
  <1> QED BY <1>3, <1>4

LEMMA CreatesType ==
    ASSUME NEW s \in Station, NEW out \in [Odeps -> Reg]
    PROVE  /\ DOMAIN Creates(s, out) \subseteq Reg
           /\ \A r \in DOMAIN Creates(s, out) : Creates(s, out)[r] \in CvLink
  <1> DEFINE D == {out[o] : o \in Odeps} \ {NA}
  <1>1. D \subseteq Reg OBVIOUS
  <1>2. Creates(s, out) = [r \in D |->
           [rs |-> s, odep_num |-> IF out[1] = r THEN 1 ELSE 0]]
    BY DEF Creates
  <1>3. \A r : [rs |-> s, odep_num |-> IF out[1] = r THEN 1 ELSE 0] \in CvLink
    BY DEF CvLink, Odeps
  <1> HIDE DEF D
  <1> QED BY <1>1, <1>2, <1>3

\* The operands and results of an instruction of the program.
LEMMA InstFields ==
    ASSUME NEW i \in Insts
    PROVE  /\ i.op \in Op /\ i.addr \in Addr
           /\ i.in \in [Ideps -> 0 .. NumRegs] /\ i.out \in [Odeps -> Reg]
  <1>1. i \in InstType BY InstsAssumption DEF InstsAssumption
  <1>2. i.out \in [Odeps -> 0 .. NumRegs] BY <1>1 DEF InstType
  <1>3. 0 .. NumRegs \subseteq Reg BY SizesAssumption DEF Reg, DTMP, SizesAssumption
  <1>4. i.out \in [Odeps -> Reg] BY <1>2, <1>3
  <1> QED BY <1>1, <1>4 DEF InstType

LEMMA PendingCount ==
    ASSUME NEW names PROVE Cardinality(Pending(names)) \in Nat
  <1>1. IsFiniteSet(Ideps)
    <2> DEFINE lo == 0
               hi == 2
    <2>1. lo \in Int /\ hi \in Int /\ Ideps = lo .. hi BY DEF Ideps
    <2> HIDE DEF lo, hi
    <2> QED BY <2>1, FS_Interval
  <1>2. Pending(names) \subseteq Ideps BY DEF Pending
  <1> QED BY <1>1, <1>2, FS_Subset, FS_CardinalityType


LEMMA DispatchOtherShape ==
    ASSUME Shape, NEW i \in Insts, NEW mis \in BOOLEAN, DispatchOther(i, mis)
    PROVE  Shape'
  <1> DEFINE s == R(RUU_tail)
             seq == (inst_seq + 1) % SEQ_MOD
             ready == Ideps \ Pending(i.in)
             st == Filled(s, i.op, FALSE, mis, 0, seq, i.out, ready, ready = Ideps)
             linked(t) == [rs[t] EXCEPT !.odep_list =
                              [o \in Odeps |-> NewLinks(s, i.in, t, o) \o @[o]]]
  <1>1. s \in Station BY EndsAreStations
  <1>2. seq \in Nat BY Numbers, SizesAssumption DEF SizesAssumption
  <1>3. rs' \in [Station -> StationType]
    <2>1. st \in StationType
      <3>1. 0 \in Addr BY InstsAssumption DEF InstsAssumption
      <3>2. (ready = Ideps) \in BOOLEAN OBVIOUS
      <3> HIDE DEF s, seq, ready
      <3> QED BY Zenon, <1>1, <1>2, <3>1, <3>2, InstFields, FilledType
    <2>2. ASSUME NEW t \in Station PROVE linked(t) \in StationType
      <3> DEFINE f == [o \in Odeps |-> NewLinks(s, i.in, t, o)]
      <3>1. f \in [Odeps -> Seq(OdepLink)] BY <1>1, NewLinksType
      <3>2. rs[t] \in StationType BY StationTyped
      <3>3. linked(t) = [rs[t] EXCEPT !.odep_list = [o \in Odeps |-> f[o] \o @[o]]]
        BY Zenon
      <3> HIDE DEF f, linked
      <3> QED BY Zenon, <3>1, <3>2, <3>3, LinkedType
    <2>3. rs' = [t \in Station |-> IF t = s THEN st ELSE linked(t)]
      BY DEF DispatchOther
    <2> HIDE DEF s, st, linked
    <2> QED BY <2>1, <2>2, <2>3
  <1>4. /\ create_vector' \in [Reg -> CvLink]
        /\ spec_create_vector' \in [Reg -> CvLink] /\ use_spec_cv' \subseteq Reg
    <2>1. SET_CREATE_VECTOR(Creates(s, i.out)) BY DEF DispatchOther
    <2> HIDE DEF s
    <2> QED BY <1>1, <2>1, InstFields, CreatesType, SetCvType
  <1>5. /\ ready_queue' \in Seq(ReadyNode) /\ rslink_used' \in Int
        /\ last_op' \in [rs : Station \cup {NULL}, tag : Nat]
    <2>1. CASE ready = Ideps
      <3>1. /\ readyq_enqueue(s, i.op, seq) /\ last_op' = RSLINK_NULL
            /\ rslink_used' = rslink_used + 1
        BY <2>1 DEF DispatchOther
      <3> HIDE DEF s, seq, ready
      <3> QED BY <1>1, <1>2, <3>1, ReadyQueued, Numbers DEF RSLINK_NULL
    <2>2. CASE ready # Ideps
      <3>1. /\ ready_queue' = ready_queue /\ last_op' = [rs |-> s, tag |-> rs[s].tag]
            /\ rslink_used' = rslink_used + Cardinality(Pending(i.in))
        BY <2>2 DEF DispatchOther
      <3>2. rs[s].tag \in Nat BY <1>1, StationTyped, StationFields
      <3>3. rslink_used' \in Int BY <3>1, PendingCount, Numbers
      <3> HIDE DEF s
      <3> QED BY <1>1, <3>1, <3>2, <3>3 DEF Shape
    <2> QED BY <2>1, <2>2
  <1>6. /\ inst_seq' \in Nat /\ fuel' \in 0 .. MaxInsts /\ n' \in Nat
    <2>1. /\ inst_seq' = seq /\ n' = n + 1 /\ fuel > 0
          /\ fuel' = IF Endless THEN fuel ELSE fuel - 1
      BY DEF DispatchOther, DispatchReady
    <2> HIDE DEF seq
    <2> QED BY <1>2, <2>1, Numbers, BoundAssumption DEF BoundAssumption
  <1>7. RUU_tail' \in 0 .. RUU_size - 1 /\ RUU_num' \in Int
    BY EndsAreStations, Numbers DEF DispatchOther
  <1>8. spec_mode' \in BOOLEAN BY DEF DispatchOther
  <1>9. UNCHANGED <<stage, RUU_head, lsqVars, event_queue, busy, wbVars, std_unknowns, node>>
    BY DEF DispatchOther
  <1> HIDE DEF s, seq, ready, st, linked
  <1> QED BY Zenon, <1>3, <1>4, <1>5, <1>6, <1>7, <1>8, <1>9 DEF Shape, lsqVars, wbVars


LEMMA DispatchMemShape ==
    ASSUME Shape, NEW i \in Insts, DispatchMem(i)
    PROVE  Shape'
  <1> DEFINE s == R(RUU_tail)
             m == L(LSQ_tail)
             seq  == (inst_seq + 1) % SEQ_MOD
             mseq == (inst_seq + 2) % SEQ_MOD
             ein  == [i.in EXCEPT ![0] = NA]
             min  == [k \in Ideps |-> IF k = 0 THEN i.in[0] ELSE NA]
             eout == [o \in Odeps |-> IF o = 0 THEN DTMP ELSE NA]
             eready == Ideps \ Pending(ein)
             mready == Ideps \ (Pending(min) \cup {STORE_ADDR_INDEX})
             ast == Filled(s, "agen", TRUE, FALSE, 0, seq, eout, eready, eready = Ideps)
             link == [rs |-> m, tag |-> rs[m].tag, opnum |-> STORE_ADDR_INDEX]
             mst == Filled(m, i.op, FALSE, FALSE, i.addr, mseq, i.out, mready, FALSE)
             linked(t) == [rs[t] EXCEPT !.odep_list =
                 [o \in Odeps |-> NewLinks(m, min, t, o) \o NewLinks(s, ein, t, o) \o @[o]]]
             made == [r \in DOMAIN Creates(m, i.out) \cup {DTMP} |->
                        IF r = DTMP THEN [rs |-> s, odep_num |-> 0]
                        ELSE Creates(m, i.out)[r]]
  <1>1. s \in Station /\ m \in Station BY EndsAreStations
  <1>2. seq \in Nat /\ mseq \in Nat BY Numbers, SizesAssumption DEF SizesAssumption
  <1>3. eout \in [Odeps -> Reg] /\ DTMP \in Reg
    BY SizesAssumption DEF Reg, DTMP, NA, SizesAssumption
  <1>4. rs' \in [Station -> StationType]
    <2>1. ast \in StationType
      <3>1. 0 \in Addr /\ (eready = Ideps) \in BOOLEAN
        BY InstsAssumption DEF InstsAssumption
      <3> HIDE DEF s, seq, eready, eout
      <3> QED BY Zenon, <1>1, <1>2, <1>3, <3>1, FilledType
    <2>2. [ast EXCEPT !.odep_list[0] = <<link>>] \in StationType
      <3>1. link \in OdepLink
        BY <1>1, StationTyped, StationFields DEF OdepLink, STORE_ADDR_INDEX, Ideps
      <3> HIDE DEF ast, link
      <3>2. ast.odep_list \in [Odeps -> Seq(OdepLink)] BY <2>1, StationFields
      <3> DEFINE q == <<link>>
      <3>4. q \in Seq(OdepLink) BY <3>1
      <3> HIDE DEF q
      <3>3. [ast.odep_list EXCEPT ![0] = q] \in [Odeps -> Seq(OdepLink)]
        BY Zenon, <3>2, <3>4
      <3>5. [ast EXCEPT !.odep_list[0] = q] \in StationType
        BY Zenon, <2>1, <3>3 DEF StationType
      <3> QED BY <3>5 DEF q
    <2>3. mst \in StationType
      <3> HIDE DEF m, mseq, mready
      <3> QED BY Zenon, <1>1, <1>2, InstFields, FilledType
    <2>4. ASSUME NEW t \in Station PROVE linked(t) \in StationType
      <3> DEFINE f == [o \in Odeps |-> NewLinks(m, min, t, o) \o NewLinks(s, ein, t, o)]
      <3>1. \A o \in Odeps : /\ NewLinks(m, min, t, o) \in Seq(OdepLink)
                             /\ NewLinks(s, ein, t, o) \in Seq(OdepLink)
        BY <1>1, NewLinksType
      <3>2. f \in [Odeps -> Seq(OdepLink)] BY <3>1
      <3>3. rs[t] \in StationType BY StationTyped
      <3>4. linked(t) = [rs[t] EXCEPT !.odep_list = [o \in Odeps |-> f[o] \o @[o]]]
        BY Zenon
      <3> HIDE DEF f, linked
      <3> QED BY Zenon, <3>2, <3>3, <3>4, LinkedType
    <2>5. rs' = [t \in Station |-> IF t = s THEN [ast EXCEPT !.odep_list[0] = <<link>>]
                                   ELSE IF t = m THEN mst ELSE linked(t)]
      BY DEF DispatchMem
    <2> HIDE DEF s, m, ast, mst, link, linked
    <2> QED BY <2>2, <2>3, <2>4, <2>5
  <1>5. /\ create_vector' \in [Reg -> CvLink]
        /\ spec_create_vector' \in [Reg -> CvLink] /\ use_spec_cv' \subseteq Reg
    <2>1. SET_CREATE_VECTOR(made) BY DEF DispatchMem
    <2>2. [rs |-> s, odep_num |-> 0] \in CvLink BY <1>1 DEF CvLink, Odeps
    <2>3. /\ DOMAIN Creates(m, i.out) \subseteq Reg
          /\ \A r \in DOMAIN Creates(m, i.out) : Creates(m, i.out)[r] \in CvLink
      BY <1>1, InstFields, CreatesType
    <2> HIDE DEF s, m
    <2>4. DOMAIN made \subseteq Reg /\ \A r \in DOMAIN made : made[r] \in CvLink
      BY <1>3, <2>2, <2>3
    <2> HIDE DEF made
    <2> QED BY <2>1, <2>4, SetCvType
  <1>6. ready_queue' \in Seq(ReadyNode)
    <2>1. \/ readyq_enqueue(s, "agen", seq)
          \/ ready_queue' = ready_queue
      BY DEF DispatchMem
    <2> HIDE DEF s, seq
    <2> QED BY <1>1, <1>2, <2>1, ReadyQueued DEF Shape
  <1>7. rslink_used' \in Int
    <2>1. rslink_used' = rslink_used + 1 + (IF eready = Ideps THEN 1 ELSE 0)
                + Cardinality(Pending(ein)) + Cardinality(Pending(min))
      BY DEF DispatchMem
    <2> HIDE DEF eready, ein, min
    <2> QED BY <2>1, PendingCount, Numbers
  <1>8. last_op' \in [rs : Station \cup {NULL}, tag : Nat]
    <2>1. last_op' = [rs |-> m, tag |-> rs[m].tag] BY DEF DispatchMem
    <2>2. rs[m].tag \in Nat BY Zenon, <1>1, StationTyped, StationFields
    <2> HIDE DEF m
    <2> QED BY ZenonT(40), <1>1, <2>1, <2>2
  <1>9. /\ inst_seq' \in Nat /\ fuel' \in 0 .. MaxInsts /\ n' \in Nat
    <2>1. /\ inst_seq' = mseq /\ n' = n + 1 /\ fuel > 0
          /\ fuel' = IF Endless THEN fuel ELSE fuel - 1
      BY DEF DispatchMem, DispatchReady
    <2> HIDE DEF mseq
    <2> QED BY <1>2, <2>1, Numbers, BoundAssumption DEF BoundAssumption
  <1>10. /\ RUU_tail' \in 0 .. RUU_size - 1 /\ RUU_num' \in Int
         /\ LSQ_tail' \in 0 .. LSQ_size - 1 /\ LSQ_num' \in Int
    <2>1. /\ RUU_tail' = (RUU_tail + 1) % RUU_size /\ RUU_num' = RUU_num + 1
          /\ LSQ_tail' = (LSQ_tail + 1) % LSQ_size /\ LSQ_num' = LSQ_num + 1
      BY DEF DispatchMem
    <2> QED BY <2>1, EndsAreStations, Numbers
  <1>11. UNCHANGED <<stage, RUU_head, LSQ_head, event_queue, busy, spec_mode,
                     wbVars, std_unknowns, node>>
    BY DEF DispatchMem
  <1> HIDE DEF s, m, seq, mseq, ein, min, eout, eready, mready, ast, link, mst, linked, made
  <1> QED BY Zenon, <1>4, <1>5, <1>6, <1>7, <1>8, <1>9, <1>10, <1>11 DEF Shape, wbVars

LEMMA StutterShape == Shape /\ UNCHANGED vars => Shape'
  BY DEF Shape, vars, ruuVars, lsqVars, cvVars, dispVars, wbVars

LEMMA NextShape == Shape /\ [Next]_vars => Shape'
  <1> SUFFICES ASSUME Shape, [Next]_vars PROVE Shape' OBVIOUS
  <1>1. CASE UNCHANGED vars BY <1>1, StutterShape
  <1>2. CASE \E i \in Insts, mis \in BOOLEAN : DispatchOther(i, mis)
    BY <1>2, DispatchOtherShape
  <1>3. CASE \E i \in Insts : DispatchMem(i) BY <1>3, DispatchMemShape
  <1> QED BY <1>1, <1>2, <1>3, CommitOtherShape, CommitMemShape, ReleaseShape,
             WritebackSquashedShape, WritebackEventShape, WritebackDoneShape,
             RecoverOtherShape, RecoverMemShape, RecoverDoneShape,
             BroadcastSquashedShape, BroadcastWakeShape, BroadcastNextShape,
             RefreshStoreShape, RefreshLoadShape, RefreshDoneShape,
             IssueSquashedShape, IssueStoreShape, IssueShape, IssueLaterShape,
             IssueDoneShape, DispatchDoneShape
          DEF Next

=============================================================================
