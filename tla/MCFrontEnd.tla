----------------------------- MODULE MCFrontEnd -----------------------------
(* A program with one instruction of every kind, for TLC.                  *)
EXTENDS FrontEnd, TLC

At(op, target) == [op |-> op, target |-> target]
\* A conditional branch over a trap and a backward jump, a NOP, and a return.
MCProg == 2 :> At("alu", 0) @@ 4 :> At("branch", 10) @@ 6 :> At("trap", 0)
          @@ 8 :> At("jump", 2) @@ 10 :> At("nop", 0) @@ 12 :> At("jr", 0)
\* A loop of a conditional branch, a jump and a return.
MCLoop == 2 :> At("branch", 6) @@ 4 :> At("jump", 2) @@ 6 :> At("jr", 0)
=============================================================================
