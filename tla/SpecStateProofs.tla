--------------------------- MODULE SpecStateProofs ---------------------------
(* The registers of the trace generator, for any registers, any pairing of   *)
(* them on bits and any values: a wrong path reads its own writes and the    *)
(* right path never does.  The memory below is the right path's too.         *)
EXTENDS SpecState, TLAPS

USE SMTT(30)

\* Outside speculation there is no copy and nothing to recover.  Under it the bits
\* set are those of the registers written, a register whose bit is clear has its
\* value in regs, and one that was written has it in spec_regs.  What lies below,
\* regs and mem, is what the right path wrote.
Layers ==
    /\ regs = right_regs /\ mem = right_mem
    /\ ~spec_mode => use_spec = {} /\ wrote = {}
    /\ wrote \subseteq Reg
    /\ \A r \in wrote : FlagOf[r] \in use_spec /\ want_regs[r] = spec_regs[r]
    /\ \A r \in Reg : FlagOf[r] \in use_spec => \E w \in wrote : FlagOf[w] = FlagOf[r]
    /\ \A r \in Reg : FlagOf[r] \notin use_spec => want_regs[r] = regs[r]

\* The registers start without a speculative copy.
LEMMA LayersInit == Init => Layers
  BY DEF Init, Layers

\* The sets SET_GPR() writes hold registers only.
LEMMA RegSetsReg == ASSUME NEW rs \in RegSets PROVE rs \subseteq Reg
  BY DEF RegSets

\* A write of SET_GPR(), SET_FPR_D() and their relatives keeps the layers apart.
LEMMA LayersWrite ==
  ASSUME Layers, NEW rs \in RegSets, NEW v \in Value, SET_GPR(rs, v)
  PROVE  Layers'
<1>1. rs \subseteq Reg
  BY RegSetsReg
<1>2. CASE spec_mode
  <2>1. use_spec' = use_spec \cup {FlagOf[r] : r \in rs} /\ wrote' = wrote \cup rs
        /\ regs' = regs /\ right_regs' = right_regs /\ spec_mode' = spec_mode
        /\ mem' = mem /\ right_mem' = right_mem
        /\ spec_regs' = [r \in Reg |-> IF r \in rs THEN v ELSE spec_regs[r]]
        /\ want_regs' = [r \in Reg |-> IF r \in rs THEN v ELSE want_regs[r]]
    BY <1>2 DEF SET_GPR, memVars
  <2>2. (wrote \subseteq Reg)'
    BY <1>1, <2>1 DEF Layers
  <2>3. ASSUME NEW r \in wrote'
        PROVE  FlagOf[r] \in use_spec' /\ want_regs'[r] = spec_regs'[r]
    BY <1>1, <2>1, <2>2 DEF Layers
  <2>4. ASSUME NEW r \in Reg, FlagOf[r] \in use_spec'
        PROVE  \E w \in wrote' : FlagOf[w] = FlagOf[r]
    BY <2>1, <2>4 DEF Layers
  <2>5. ASSUME NEW r \in Reg, FlagOf[r] \notin use_spec'
        PROVE  want_regs'[r] = regs'[r]
    BY <2>1, <2>5 DEF Layers
  <2> QED
    BY <1>2, <2>1, <2>2, <2>3, <2>4, <2>5 DEF Layers
<1>3. CASE ~spec_mode
  BY <1>1, <1>3 DEF SET_GPR, memVars, Layers
<1> QED
  BY <1>2, <1>3

\* Every step keeps the layers apart; tracer_recover() drops the speculative one.
LEMMA LayersStep == Layers /\ [Next]_vars => Layers'
<1> SUFFICES ASSUME Layers, [Next]_vars PROVE Layers'
  OBVIOUS
<1>1. ASSUME NEW rs \in RegSets, NEW v \in Value, SET_GPR(rs, v) PROVE Layers'
  BY <1>1, LayersWrite
<1>2. ASSUME NEW n \in 1 .. 2, NEW a \in Addr, NEW v \in [0 .. n - 1 -> Value],
             mem_access(a, n, v) \/ SpecAllocate(a, n, v)
             \/ \E cmd \in {"Read", "Write"} : SpecHit(cmd, a, n, v)
      PROVE  Layers'
  <2>1. UNCHANGED <<spec_mode, regVars>>
    BY <1>2 DEF mem_access, SpecAllocate, SpecHit
  <2>2. mem' = right_mem'
    BY <1>2 DEF mem_access, SpecAllocate, SpecHit, Layers
  <2> QED
    BY <2>1, <2>2 DEF Layers, regVars
<1>3. CASE Mispredict
  BY <1>3 DEF Mispredict, Layers, regVars, memVars
<1>4. CASE tracer_recover
  BY <1>4 DEF tracer_recover, Layers
<1>5. CASE UNCHANGED vars
  BY <1>5 DEF vars, regVars, memVars, Layers
<1> QED
  BY <1>1, <1>2, <1>3, <1>4, <1>5 DEF Next

\* GPR() and its relatives read the newest write of the path being executed, on
\* either path and after any tracer_recover(), unless only the other register of
\* the pair that shares the bit was written since the misprediction.
THEOREM RegistersAreNewest == Spec => []RegistersNewest
<1>1. Layers => RegistersNewest
  BY DEF Layers, RegistersNewest, GPR
<1> QED
  BY LayersInit, LayersStep, <1>1, PTL DEF Spec

\* tracer_recover() restores the right path: outside speculation every register, and
\* at all times memory, holds exactly what the right path's own instructions wrote
\* (right_regs and right_mem, which no wrong path and no recovery touches), whatever
\* wrong paths were executed in between and whatever the pairing of the registers.
THEOREM RecoveryExact ==
  Spec => [](/\ mem = right_mem
             /\ ~spec_mode => \A r \in Reg : GPR(r) = right_regs[r])
<1>1. Layers => /\ mem = right_mem
                /\ ~spec_mode => \A r \in Reg : GPR(r) = right_regs[r]
  BY DEF Layers, GPR
<1> QED
  BY LayersInit, LayersStep, <1>1, PTL DEF Spec
=============================================================================
