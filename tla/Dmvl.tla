-------------------------------- MODULE Dmvl --------------------------------
(* The one-pass simulation of direct-mapped caches of libcheetah (dmvl.c):   *)
(* all caches of one size with lines of 2^A to 2^B bytes at once, from one   *)
(* binomial tree for every set of the cache with the longest lines.          *)
(*                                                                           *)
(* An address is the number of a line of the shortest kind.  It has, from    *)
(* the right, NO_LINES - 1 bits of set field 2, SETS1 bits of set field 1    *)
(* and the tag.  Of the counters rhits_arr the model keeps what one access   *)
(* adds.                                                                     *)
EXTENDS Integers, FiniteSets, FiniteSetsExt

CONSTANTS NO_LINES,     \* line sizes simulated, B - A + 1
          SETS1,        \* bits of set field 1, C - B
          Address

VARIABLES
    bt,         \* bt[set1][pos]: [tag, set2], tag_arr and set_arr
    plain       \* history: plain[i][set]: tag held by the cache with lines of 2^(A+i)

vars == <<bt, plain>>

SUB_ZERO == -1
Size == 0 .. NO_LINES - 1
Pos == 0 .. 2^(NO_LINES - 1) - 1
Set2(a) == a % 2^(NO_LINES - 1)
Set1(a) == (a \div 2^(NO_LINES - 1)) % 2^SETS1
TagOf(a) == a \div 2^(NO_LINES - 1 + SETS1)
\* lm_arr[x ^ y]: the number of first bits two set fields share.
LeftMatch(x, y) ==
    Max({k \in Size : x \div 2^(NO_LINES - 1 - k) = y \div 2^(NO_LINES - 1 - k)})

\* The node at a depth of 1 and more that a set field belongs to.
PosOf(set2, depth) == (set2 \div 2^(NO_LINES - depth)) + 2^(depth - 1)

\* init_dmvl(): every node holds the set field in the middle of its range.
Init ==
    /\ bt = [s \in 0 .. 2^SETS1 - 1 |-> [p \in Pos |->
                LET d == IF p = 0 THEN 0 ELSE 1 + Max({k \in Size : 2^k <= p}) IN
                [tag  |-> SUB_ZERO,
                 set2 |-> IF p = 0 THEN 0
                          ELSE 2^(NO_LINES - d - 1) + (p - 2^(d - 1)) * 2^(NO_LINES - d)]]]
    /\ plain = [i \in Size |-> [s \in 0 .. 2^(SETS1 + NO_LINES - 1 - i) - 1 |-> SUB_ZERO]]

\* The node that is searched for.
Found(node, set2) == node.set2 = set2

\* One node of the walk of dmvl(): what it holds is replaced by what the node above
\* held, and counted when its tag is the address's.  pos is NONE when the walk ends.
Visit(w, tag, set2) ==
    LET node == w.tree[w.pos]
        found == Found(node, set2)
        match == IF found THEN NO_LINES - 1 ELSE LeftMatch(node.set2, set2)
    IN [tree  |-> [w.tree EXCEPT ![w.pos] = w.carried],
        hits  |-> IF node.tag = tag THEN w.hits \cup {<<w.depth, match>>} ELSE w.hits,
        carried |-> node,
        depth |-> match + 1,
        pos   |-> IF match + 1 >= NO_LINES THEN -1 ELSE PosOf(node.set2, match + 1)]

\* dmvl(): the walk from the root, at most one node for every depth.
Walk(a) ==
    LET walk[n \in 0 .. NO_LINES] ==
            IF n = 0 THEN [tree |-> bt[Set1(a)], hits |-> {}, depth |-> 0, pos |-> 0,
                           carried |-> [tag |-> TagOf(a), set2 |-> Set2(a)]]
            ELSE IF walk[n - 1].pos = -1 THEN walk[n - 1]
            ELSE Visit(walk[n - 1], TagOf(a), Set2(a))
    IN walk[NO_LINES]

\* Mutant: the counters of one row less are added up.
HitsShort(a, i) ==
    Cardinality({h \in Walk(a).hits : h[1] < NO_LINES - i - 1 /\ h[2] >= NO_LINES - i - 1})

\* outpr_dmvl(): what an access adds to the hits of the cache with lines of 2^(A+i).
Hits(a, i) ==
    Cardinality({h \in Walk(a).hits : h[1] <= NO_LINES - i - 1 /\ h[2] >= NO_LINES - i - 1})

PlainSet(a, i) == (a % 2^(SETS1 + NO_LINES - 1)) \div 2^i

dmvl(a) ==
    /\ bt' = [bt EXCEPT ![Set1(a)] = Walk(a).tree]
    /\ plain' = [i \in Size |-> [plain[i] EXCEPT ![PlainSet(a, i)] = TagOf(a)]]

Next == \E a \in Address : dmvl(a)

Spec == Init /\ [][Next]_vars

(***************************************************************************)
(* Properties                                                              *)
(***************************************************************************)
\* One walk equals many caches: in whatever state the tree is, an access counts
\* exactly one hit for the line sizes at which a direct-mapped cache of its own
\* would hit, and none for the others.
LineSizesExact ==
    \A a \in Address, i \in Size :
        Hits(a, i) = IF plain[i][PlainSet(a, i)] = TagOf(a) THEN 1 ELSE 0

=============================================================================
