-------------------------------- MODULE DLite --------------------------------
(* The debugger DLite! of dlite.c under the main loop of sim-safe.c: the      *)
(* list of breakpoints, the flag that spares the loop its check, single       *)
(* stepping, and what the prompt says about why it appeared.                  *)
(*                                                                            *)
(* The simulated program is any program over Text whose instructions outside  *)
(* Branch fall through.  The instruction and the cycle count the loop passes  *)
(* are the same number, which stands still at MAX_INSN: every range of counts *)
(* ends below it.                                                             *)
(* A command that returns an error string changes nothing and is no step.     *)
EXTENDS Integers, Sequences

CONSTANTS
    Text, Branch, ENTRY, SS_INST_SIZE,  \* instructions, the branches among them, ld_prog_entry
    Mem,                                \* data addresses
    Class,                              \* access classes a command may name
    Range,                              \* ranges range_parse_range() may return
    MAX_ID,                             \* bound on break_id
    MAX_INSN                            \* bound on sim_num_insn

VARIABLES
    mode,               \* "start", "run", or "prompt" inside dlite_main()
    first,              \* the prompt is the one before the loop
    regs_PC, next_PC, sim_num_insn,
    access, addr,       \* history: the reference of the last instruction, "none" and 0
                        \* when it made none
    dlite_bps, break_id, dlite_check, dlite_active, dlite_return,
    break_access, dbreak

progVars == <<regs_PC, next_PC, sim_num_insn, access, addr>>
bpVars == <<dlite_bps, break_id, dlite_check>>
vars == <<mode, first, progVars, bpVars, dlite_active, dlite_return, break_access, dbreak>>

Init ==
    /\ mode = "start" /\ first = FALSE
    /\ regs_PC = ENTRY /\ next_PC = ENTRY + SS_INST_SIZE /\ sim_num_insn = 0
    /\ access = "none" /\ addr = 0
    /\ dlite_bps = << >> /\ break_id = 1 /\ dlite_check = FALSE
    /\ dlite_active \in BOOLEAN         \* the option -i
    /\ dlite_return = FALSE /\ break_access = "none" /\ dbreak = FALSE

\* range_cmp_range() returns 0 for what lies inside, both ends included.
Inside(r, val) == r.start <= val /\ val <= r.end

\* The switch of __check_break(): why breakpoint bp stops, or "none".
Reason(bp, npc, acc, a, icount) ==
    IF bp.range.ptype # "addr"
    THEN IF Inside(bp.range, icount) THEN "exec" ELSE "none"
    ELSE IF "exec" \in bp.class /\ Inside(bp.range, npc) THEN "exec"
    ELSE IF acc \in bp.class /\ Inside(bp.range, a) THEN acc ELSE "none"

\* The places of the breakpoints that stop.
Hits(npc, acc, a, icount) ==
    {i \in DOMAIN dlite_bps : Reason(dlite_bps[i], npc, acc, a, icount) # "none"}

\* Mutant: single stepping leaves the reason of the last break.
CheckBreakStale(npc, acc, a, icount) ==
    LET hits == Hits(npc, acc, a, icount)
        i == CHOOSE x \in hits : \A y \in hits : x <= y
    IN IF dlite_active \/ ~dlite_check
       THEN [hit |-> dlite_active, access |-> break_access]
       ELSE [hit |-> hits # {},
             access |-> IF hits = {} THEN "none" ELSE Reason(dlite_bps[i], npc, acc, a, icount)]

\* dlite_check_break(): whether to stop, and break_access after it.
dlite_check_break(npc, acc, a, icount) ==
    LET hits == Hits(npc, acc, a, icount)
        i == CHOOSE x \in hits : \A y \in hits : x <= y
    IN IF dlite_active THEN [hit |-> TRUE, access |-> "none"]
       ELSE IF ~dlite_check THEN [hit |-> FALSE, access |-> break_access]
       ELSE IF hits = {} THEN [hit |-> FALSE, access |-> "none"]
       ELSE [hit |-> TRUE, access |-> Reason(dlite_bps[i], npc, acc, a, icount)]

\* dlite_main() up to its loop.
Enter(reason) ==
    /\ mode' = "prompt" /\ dlite_active' = TRUE /\ dlite_return' = FALSE
    /\ dbreak' = (reason \in {"read", "write"})

\* sim_main() before its loop.
Start ==
    LET c == dlite_check_break(regs_PC, "none", 0, 0) IN
    /\ mode = "start" /\ break_access' = c.access
    /\ IF c.hit THEN Enter(c.access) /\ first' = TRUE
       ELSE mode' = "run" /\ UNCHANGED <<first, dlite_active, dlite_return, dbreak>>
    /\ UNCHANGED <<progVars, bpVars>>

\* "go to the next instruction": what follows the check in the loop.
Advance(npc) == regs_PC' = npc /\ next_PC' = npc + SS_INST_SIZE

\* What the loop passes to the check for a reference: is_write and addr, so that an
\* instruction without a reference is passed as a read of 0.
Reported(acc) == IF acc = "write" THEN "write" ELSE "read"

\* One iteration: an instruction that goes to npc and makes the reference acc to a.
Execute(npc, acc, a) ==
    LET icount == IF sim_num_insn = MAX_INSN THEN MAX_INSN ELSE sim_num_insn + 1
        c == dlite_check_break(npc, Reported(acc), a, icount)
    IN /\ mode = "run"
       /\ sim_num_insn' = icount /\ access' = acc /\ addr' = a
       /\ break_access' = c.access
       /\ IF c.hit THEN Enter(c.access) /\ next_PC' = npc /\ UNCHANGED regs_PC
          ELSE Advance(npc) /\ UNCHANGED <<mode, dlite_active, dlite_return, dbreak>>
       /\ first' = FALSE /\ UNCHANGED bpVars

\* dlite_main() returns: to the loop, or to the place in front of it.
Leave(active, pc) ==
    /\ mode = "prompt" /\ mode' = "run" /\ dlite_active' = active /\ dlite_return' = TRUE
    /\ IF first THEN regs_PC' = pc /\ UNCHANGED next_PC ELSE Advance(next_PC)
    /\ UNCHANGED <<first, sim_num_insn, access, addr, bpVars, break_access, dbreak>>

dlite_cont(pc) == Leave(FALSE, pc)
dlite_step == Leave(TRUE, regs_PC)

promptVars == <<mode, first, progVars, dlite_active, dlite_return, break_access, dbreak>>

\* Mutant: a breakpoint set does not turn the check on again.
SetUnchecked(class, range) ==
    /\ mode = "prompt" /\ break_id <= MAX_ID
    /\ dlite_bps' = <<[id |-> break_id, class |-> class, range |-> range]>> \o dlite_bps
    /\ break_id' = break_id + 1 /\ dlite_check' = (dlite_check \/ break_id = 1)
    /\ UNCHANGED promptVars

\* A breakpoint goes to the front of the list.
set_break(class, range) ==
    /\ mode = "prompt" /\ break_id <= MAX_ID
    /\ dlite_bps' = <<[id |-> break_id, class |-> class, range |-> range]>> \o dlite_bps
    /\ break_id' = break_id + 1 /\ dlite_check' = TRUE
    /\ UNCHANGED promptVars

AtAddr(a) == [ptype |-> "addr", etype |-> "addr", start |-> a, end |-> a + 1]
dlite_break(a) == set_break({"exec"}, AtAddr(a))
dlite_dbreak(a, class) == set_break(class, AtAddr(a))
dlite_rbreak(range, class) ==
    /\ range.ptype = range.etype /\ range.start <= range.end
    /\ set_break(class, range)

\* The breakpoint is unlinked; the check stops when it was the last one.
delete_break(id) ==
    /\ mode = "prompt"
    /\ \E i \in 1 .. Len(dlite_bps) :
         /\ dlite_bps[i].id = id
         /\ dlite_bps' = SubSeq(dlite_bps, 1, i - 1) \o SubSeq(dlite_bps, i + 1, Len(dlite_bps))
    /\ dlite_check' = (dlite_bps' # << >>)
    /\ UNCHANGED <<break_id, promptVars>>

\* delete_break() of the first one until none is left.
dlite_clear ==
    /\ mode = "prompt" /\ dlite_bps # << >>
    /\ dlite_bps' = << >> /\ dlite_check' = FALSE
    /\ UNCHANGED <<break_id, promptVars>>

\* What the instruction at regs_PC may do: where it goes, and its reference.
Successors == IF regs_PC \in Branch THEN Text ELSE {next_PC}
Refs == {<<"none", 0>>} \cup ({"read", "write"} \X Mem)

Next ==
    \/ Start
    \/ \E npc \in Successors, r \in Refs : Execute(npc, r[1], r[2])
    \/ \E pc \in Text \cup {regs_PC} : dlite_cont(pc)
    \/ dlite_step
    \/ \E a \in Text : dlite_break(a)
    \/ \E a \in Mem, class \in Class : dlite_dbreak(a, class)
    \/ \E range \in Range, class \in Class : dlite_rbreak(range, class)
    \/ \E id \in 1 .. MAX_ID : delete_break(id)
    \/ dlite_clear

Spec == Init /\ [][Next]_vars
-----------------------------------------------------------------------------
(* Properties.                                                               *)

\* What a user expects of a breakpoint: it stops at its code, at a reference of its
\* class to its data, or at its instruction or cycle count.
StopsCode(bp, npc, icount) ==
    IF bp.range.ptype = "addr"
    THEN "exec" \in bp.class /\ Inside(bp.range, npc) ELSE Inside(bp.range, icount)
StopsData(bp, acc, a) ==
    bp.range.ptype = "addr" /\ acc # "none" /\ acc \in bp.class /\ Inside(bp.range, a)

\* The flag dlite_check never hides a breakpoint: whatever was set, deleted, cleared
\* and stepped over before, the loop of sim-safe.c goes on to the next instruction
\* only when no breakpoint on the list stops there.
NoBreakMissed ==
    [][mode = "run" /\ mode' = "run" =>
         \A i \in DOMAIN dlite_bps : /\ ~StopsCode(dlite_bps[i], regs_PC', sim_num_insn')
                                     /\ ~StopsData(dlite_bps[i], access', addr')]_vars

\* "this variable clues dlite_main() into why it was called": the prompt says that the
\* instruction just finished caused a data break only when it did, and a stop that is
\* neither one nor a single step has a code or count breakpoint.  The exception is an
\* instruction that made no reference: the loop of sim-safe.c passes it as a read of
\* address 0, so it is blamed, wrongly, where a breakpoint is on reads of 0.
ReasonTrue ==
    [][mode = "run" /\ mode' = "prompt" =>
         IF dbreak'
         THEN \E i \in DOMAIN dlite_bps :
                 \/ StopsData(dlite_bps[i], access', addr')
                 \/ access' = "none" /\ StopsData(dlite_bps[i], "read", 0)
         ELSE dlite_active \/ \E i \in DOMAIN dlite_bps :
                                StopsCode(dlite_bps[i], next_PC', sim_num_insn')]_vars
=============================================================================
