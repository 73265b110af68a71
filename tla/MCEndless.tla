----------------------------- MODULE MCEndless ------------------------------
(* Two endless programs on Ruu, one at a time, in which sequence numbers and *)
(* tags wrap.  The constants of the configuration are those of the first:    *)
(* branches that test what was loaded.                                       *)
EXTENDS MCRuu

VARIABLES
    part,               \* the program that is executed
    slot                \* the entry of the RUU WindowDrains looks at

\* Loads and stores that depend on one another, in a larger window.
Me == INSTANCE Ruu WITH
        RUU_size <- 4, ruu_decode_width <- 2, TAG_MOD <- 3, Insts <- MCMem

EndlessInit ==
    \/ part = "branches" /\ slot = 0 /\ Init
    \/ part = "memory" /\ slot \in 0 .. 3 /\ Me!Init

EndlessNext ==
    /\ UNCHANGED <<part, slot>>
    /\ \/ part = "branches" /\ Next
       \/ part = "memory" /\ Me!Next

\* The simulator never waits: its main loop always has a next step to take.
EndlessSpec ==
    /\ EndlessInit /\ [][EndlessNext]_<<part, slot, vars>>
    /\ WF_<<part, slot, vars>>(EndlessNext)

\* Nothing waits for ever: whatever is in the RUU leaves it, by commit or by
\* recovery, although loads overtake older operations in the ready queue and wait
\* for stores, units are busy and stores compete for the memory ports.
WindowDrains == part = "memory" /\ Me!Live(R(slot)) ~> ~Me!Live(R(slot))

\* Every misprediction is discovered: speculative mode ends.
SpeculationEnds == spec_mode ~> ~spec_mode
=============================================================================
