--------------------------- MODULE SetAssociative ---------------------------
(* What a set-associative cache promises, whatever its lists, hash tables   *)
(* and shortcuts: which blocks each set holds after each request, and which *)
(* one a miss evicts.                                                       *)
EXTENDS Naturals, Sequences

CONSTANTS
    Block,      \* block addresses
    nsets,      \* sets in the cache
    assoc       \* blocks in a set

VARIABLES
    policy,     \* "LRU", "FIFO" or "Random"
    content,    \* content[s]: blocks set s holds, the next victim last
    asked       \* the last request: <<"access", b>>, <<"flush", b>> or <<"flush_all">>

vars == <<policy, content, asked>>

Elems(s) == {content[s][i] : i \in DOMAIN content[s]}
Without(q, bs) == SelectSeq(q, LAMBDA b : b \notin bs)

Init == /\ policy \in {"LRU", "FIFO", "Random"}
        /\ content = [s \in 0 .. nsets - 1 |-> << >>]
        /\ asked = << >>

\* A block that is there: only LRU changes the order.
Use(b) ==
    LET s == b % nsets IN
    /\ b \in Elems(s)
    /\ content' = IF policy = "LRU"
                  THEN [content EXCEPT ![s] = <<b>> \o Without(@, {b})]
                  ELSE content
    /\ UNCHANGED policy

\* A block that is not there: LRU and FIFO evict the last block of a full set
\* and nothing otherwise, Random may evict any one block.
Fill(b) ==
    LET s == b % nsets
        full == Len(content[s]) = assoc
    IN /\ b \notin Elems(s)
       /\ IF policy = "Random"
          THEN /\ content' = [content EXCEPT ![s] = content'[s]]
               /\ \E v \in SUBSET Elems(s) :
                     /\ \A x, y \in v : x = y
                     /\ full => v # {}
                     /\ {content'[s][i] : i \in DOMAIN content'[s]} = (Elems(s) \ v) \cup {b}
          ELSE content' = [content EXCEPT ![s] =
                             <<b>> \o (IF full THEN SubSeq(@, 1, assoc - 1) ELSE @)]
       /\ UNCHANGED policy

\* Blocks are flushed: the others stay and keep their order.
Drop(bs) ==
    /\ content' = [s \in 0 .. nsets - 1 |-> Without(content[s], bs)]
    /\ UNCHANGED policy

Next ==
    \/ \E b \in Block : asked' = <<"access", b>> /\ (Use(b) \/ Fill(b))
    \/ \E b \in Block : asked' = <<"flush", b>> /\ Drop({b})
    \/ asked' = <<"flush_all">> /\ Drop(Block)

Spec == Init /\ [][Next]_vars
=============================================================================
