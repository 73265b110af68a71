------------------------------- MODULE Rings --------------------------------
(* Arithmetic of the circular queues of sim-outorder.c (RUU, LSQ, fetch     *)
(* queue): positions k steps behind a head h, with and without remainders.  *)
EXTENDS Integers, TLAPS

\* The place k steps behind h.
Behind(h, k, size) == IF h + k < size THEN h + k ELSE h + k - size

\* Taking an entry off either end of a ring moves that end by one.
LEMMA BehindShrinks ==
    ASSUME NEW size \in Nat \ {0}, NEW h \in 0 .. size - 1, NEW k \in 1 .. size
    PROVE  /\ Behind(IF h + 1 = size THEN 0 ELSE h + 1, k - 1, size) = Behind(h, k, size)
           /\ Behind(h, k - 1, size)
                = IF Behind(h, k, size) = 0 THEN size - 1 ELSE Behind(h, k, size) - 1
  BY DEF Behind

\* What the remainders of the code compute.
LEMMA RingArith ==
    ASSUME NEW size \in Nat \ {0}, NEW h \in 0 .. size - 1
    PROVE  /\ \A i \in 0 .. size - 1 :
                 (i - h + size) % size = IF i >= h THEN i - h ELSE i - h + size
           /\ \A k \in 0 .. size : (h + k) % size = Behind(h, k, size)
  <1>1. \A i \in 0 .. size - 1 :
                 (i - h + size) % size = IF i >= h THEN i - h ELSE i - h + size
    OBVIOUS
  <1>2. \A k \in 0 .. size : (h + k) % size = Behind(h, k, size)
    BY DEF Behind
  <1> QED BY <1>1, <1>2

\* Different distances up to a full round are different places.
LEMMA BehindDiffers ==
    ASSUME NEW size \in Nat \ {0}, NEW h \in 0 .. size - 1,
           NEW j \in 0 .. size - 1, NEW k \in 0 .. size - 1, j # k
    PROVE  Behind(h, j, size) # Behind(h, k, size)
  BY DEF Behind

\* From the next head everything is one step nearer.
LEMMA BehindStep ==
    ASSUME NEW size \in Nat \ {0}, NEW h \in 0 .. size - 1, NEW k \in 0 .. size - 1
    PROVE  /\ Behind((h + 1) % size, k, size) = Behind(h, k + 1, size)
           /\ (h + 1) % size \in 0 .. size - 1
           /\ (Behind(h, k, size) + 1) % size = Behind(h, k + 1, size)
           /\ Behind(h, k, size) \in 0 .. size - 1
  <1>1. (h + 1) % size = IF h + 1 = size THEN 0 ELSE h + 1 OBVIOUS
  <1>2. Behind(h, k, size) \in 0 .. size - 1 BY DEF Behind
  <1>3. ASSUME NEW i \in 0 .. size - 1
        PROVE  (i + 1) % size = IF i + 1 = size THEN 0 ELSE i + 1
    OBVIOUS
  <1>4. (Behind(h, k, size) + 1) % size
           = IF Behind(h, k, size) + 1 = size THEN 0 ELSE Behind(h, k, size) + 1
    BY <1>2, <1>3
  <1> QED BY <1>1, <1>2, <1>4 DEF Behind
=============================================================================
