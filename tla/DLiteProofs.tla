----------------------------- MODULE DLiteProofs -----------------------------
(* The flag dlite_check hides no breakpoint, for any program, any            *)
(* breakpoints and any number of them.                                       *)
EXTENDS DLite, TLAPS

USE SMTT(30)

\* What the commands put on the list.
Break == [id : Nat, class : Class \cup {{"exec"}},
          range : Range \cup {AtAddr(a) : a \in Text \cup Mem}]

\* The loop checks for a break while the list holds one.
Checked ==
    /\ dlite_bps \in Seq(Break) /\ break_id \in Nat
    /\ dlite_bps # << >> => dlite_check

\* A simulation starts without breakpoints and without the check.
LEMMA CheckedInit == Init => Checked
  BY DEF Init, Checked

\* set_break() puts one breakpoint on the list.
LEMMA CheckedSet ==
  ASSUME Checked, NEW class \in Class \cup {{"exec"}},
         NEW range \in Range \cup {AtAddr(a) : a \in Text \cup Mem},
         set_break(class, range)
  PROVE  Checked'
<1> DEFINE bp == [id |-> break_id, class |-> class, range |-> range]
<1>1. bp \in Break
  BY DEF Checked, Break
<1> HIDE DEF bp
<1>2. dlite_bps' = <<bp>> \o dlite_bps /\ break_id' = break_id + 1 /\ dlite_check' = TRUE
  BY DEF set_break, bp
<1>3. <<bp>> \o dlite_bps \in Seq(Break) /\ <<bp>> \o dlite_bps # << >>
  BY <1>1 DEF Checked
<1> QED
  BY <1>2, <1>3 DEF Checked

\* delete_break() keeps the flag in step with what is left.
LEMMA CheckedDelete == ASSUME Checked, NEW id, delete_break(id) PROVE Checked'
<1>1. PICK i \in 1 .. Len(dlite_bps) :
        dlite_bps' = SubSeq(dlite_bps, 1, i - 1) \o SubSeq(dlite_bps, i + 1, Len(dlite_bps))
  BY Zenon DEF delete_break
<1>2. SubSeq(dlite_bps, 1, i - 1) \in Seq(Break)
      /\ SubSeq(dlite_bps, i + 1, Len(dlite_bps)) \in Seq(Break)
  BY DEF Checked
<1>3. dlite_bps' \in Seq(Break)
  BY <1>1, <1>2
<1>4. dlite_bps' # << >> => dlite_check'
  BY Zenon DEF delete_break
<1>5. break_id' = break_id
  BY Zenon DEF delete_break
<1> QED
  BY <1>3, <1>4, <1>5 DEF Checked

\* Every command and every step of the program keeps the flag in step with the list.
LEMMA CheckedStep == Checked /\ [Next]_vars => Checked'
<1> SUFFICES ASSUME Checked, [Next]_vars PROVE Checked'
  OBVIOUS
<1>1. CASE UNCHANGED bpVars
  BY <1>1 DEF Checked, bpVars
<1>2. ASSUME NEW a \in Text, dlite_break(a) PROVE Checked'
  BY <1>2, CheckedSet DEF dlite_break
<1>3. ASSUME NEW a \in Mem, NEW class \in Class, dlite_dbreak(a, class) PROVE Checked'
  BY <1>3, CheckedSet DEF dlite_dbreak
<1>4. ASSUME NEW range \in Range, NEW class \in Class, dlite_rbreak(range, class)
      PROVE  Checked'
  BY <1>4, CheckedSet DEF dlite_rbreak
<1>5. ASSUME NEW id \in 1 .. MAX_ID, delete_break(id) PROVE Checked'
  BY <1>5, CheckedDelete
<1>6. CASE dlite_clear
  BY <1>6 DEF dlite_clear, Checked
<1>7. Start \/ dlite_step \/ UNCHANGED vars => UNCHANGED bpVars
  BY DEF Start, dlite_step, Leave, vars, bpVars
<1>8. ASSUME NEW npc, NEW r, Execute(npc, r[1], r[2]) PROVE UNCHANGED bpVars
  BY <1>8 DEF Execute
<1>9. ASSUME NEW pc, dlite_cont(pc) PROVE UNCHANGED bpVars
  BY <1>9 DEF dlite_cont, Leave
<1> QED
  BY <1>1, <1>2, <1>3, <1>4, <1>5, <1>6, <1>7, <1>8, <1>9 DEF Next

\* An instruction after which the loop goes on passed no breakpoint.
LEMMA ExecutePasses ==
  ASSUME Checked, NEW npc, NEW acc \in {"none", "read", "write"}, NEW a,
         Execute(npc, acc, a),
         mode' = "run", NEW i \in DOMAIN dlite_bps
  PROVE  /\ ~StopsCode(dlite_bps[i], regs_PC', sim_num_insn')
         /\ ~StopsData(dlite_bps[i], access', addr')
<1> DEFINE icount == sim_num_insn'
           c == dlite_check_break(npc, Reported(acc), a, icount)
<1>1. ~c.hit /\ regs_PC' = npc /\ access' = acc /\ addr' = a
  BY DEF Execute, Enter, Advance
<1>2. dlite_check
  BY DEF Checked
<1>3. Hits(npc, Reported(acc), a, icount) = {}
  BY <1>1, <1>2 DEF dlite_check_break
<1>4. Reason(dlite_bps[i], npc, Reported(acc), a, icount) = "none"
  BY <1>3 DEF Hits
<1> QED
  BY <1>1, <1>4 DEF Reason, Reported, StopsCode, StopsData

\* The main loop of sim-safe.c goes on to the next instruction only when no
\* breakpoint of the list stops there, whatever the user set, deleted, cleared and
\* stepped over before.
THEOREM BreaksAreNotMissed == Spec => NoBreakMissed
<1> DEFINE Passed ==
        mode = "run" /\ mode' = "run" =>
          \A i \in DOMAIN dlite_bps : /\ ~StopsCode(dlite_bps[i], regs_PC', sim_num_insn')
                                      /\ ~StopsData(dlite_bps[i], access', addr')
<1>1. Checked /\ [Next]_vars => [Passed]_vars
  <2> SUFFICES ASSUME Checked, Next, mode = "run", mode' = "run", NEW i \in DOMAIN dlite_bps
               PROVE  /\ ~StopsCode(dlite_bps[i], regs_PC', sim_num_insn')
                      /\ ~StopsData(dlite_bps[i], access', addr')
    OBVIOUS
  <2>1. PICK npc \in Successors, r \in Refs : Execute(npc, r[1], r[2])
    BY DEF Next, Start, dlite_cont, dlite_step, Leave, dlite_break, dlite_dbreak, dlite_rbreak,
           set_break, delete_break, dlite_clear
  <2> QED
    BY <2>1, ExecutePasses DEF Refs
<1> QED
  BY CheckedInit, CheckedStep, <1>1, PTL DEF Spec, NoBreakMissed
=============================================================================
