------------------------------- MODULE MCRuu --------------------------------
(* Instances of Ruu for TLC.                                               *)
EXTENDS Ruu, TLC

I(op, in0, in1, out0, addr) ==
    [op |-> op, in |-> (0 :> in0 @@ 1 :> in1 @@ 2 :> NA),
     out |-> (0 :> out0 @@ 1 :> NA), addr |-> addr]

\* One operation of every kind, over one register and two addresses.
MCInsts == {I("alu", 1, NA, 1, 0), I("load", NA, NA, 1, 4),
            I("store", 1, NA, NA, 4), I("ctrl", 1, NA, NA, 0),
            I("ctrl", NA, NA, NA, 0)}
\* Loads, and branches that test the loaded value.
MCLoop == {I("load", NA, NA, 1, 4), I("ctrl", 1, NA, NA, 0)}
\* Operations with priority, without a unit, and with a latency of several
\* cycles on a shared unit.
MCLong == {[I("mul", 1, NA, 1, 0) EXCEPT !.out[1] = 2], I("div", 1, NA, 2, 0),
           I("jump", 2, NA, NA, 0), I("trap", NA, NA, NA, 0), I("load", NA, 1, 2, 4)}
\* Loads and stores of one word that depend on one another.
MCMem == {I("load", NA, 1, 1, 4), I("store", 1, NA, NA, 4)}
\* A store that also increments its base register (SB t,o(b)+).
MCIncrement == {I("store", NA, 1, 1, 4), I("alu", 1, NA, 1, 0)}
MCUnit == {"ialu", "imult", "port"}
P(u, o, i) == <<[unit |-> u, oplat |-> o, issuelat |-> i]>>
MCTable == [c \in FuClass |->
    CASE c = "IntALU"  -> P("ialu", 1, 1)
      [] c = "IntMULT" -> P("imult", 2, 1)
      [] c = "IntDIV"  -> P("imult", 3, 2)
      [] OTHER         -> P("port", 1, 1)]
=============================================================================
