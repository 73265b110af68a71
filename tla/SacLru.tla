------------------------------- MODULE SacLru -------------------------------
(* The one-pass simulation of set-associative LRU caches of libcheetah       *)
(* (saclru.c): one access updates a generalised binomial tree and tells, for *)
(* all numbers of sets from 2^A to 2^B and all associativities up to 2^N     *)
(* together, in which of these caches it hits.                               *)
(*                                                                           *)
(* An address is the number of its line.  A tree node is numbered 2^depth    *)
(* plus the last depth bits of the tags it holds, so that the root is 1; its *)
(* row is the sequence of its used slots, the code's index of the first one  *)
(* being TWO_PWR_N + 1 minus its length.  The counters sac_hits and hitarr0  *)
(* are only added to: Score says which of them an access increments.         *)
EXTENDS Integers, FiniteSets, FiniteSetsExt, Sequences

CONSTANTS A, B, N,      \* as in the code: logarithms of sets and associativity
          Line          \* lines the trace touches

VARIABLES
    arr,        \* arr[s][node]: row of a node of the tree of set s
    recent      \* history: the lines seen, the last one first

vars == <<arr, recent>>

TWO_PWR_N == 2^N
MAX_DEPTH == B - A
Level == 0 .. MAX_DEPTH
Nodes == 1 .. 2^(MAX_DEPTH + 1) - 1
MISS == -1
Limit == (1 + Max(Line)) * 2^B
\* B80000000: greater than every tag, with no bit set that a node's number has.
Bogus == Limit * 2^B
NodeOf(tag, depth) == 2^depth + (tag % 2^depth)
\* rm_arr[]: the number of last bits two tags share, of those that select a set.
RightMatch(x, y) == Max({k \in Level : x % 2^k = y % 2^k})
DepthOf(node) == Max({k \in Level : 2^k <= node})

\* init_saclru(): the nodes in the right half of each level are full of lines
\* that no trace has, the other ones empty.
Init ==
    /\ arr = [s \in 0 .. 2^A - 1 |-> [node \in Nodes |->
                LET d == DepthOf(node)  k == node - 2^d IN
                IF d > 0 /\ 2 * k < 2^d THEN << >> ELSE [j \in 1 .. TWO_PWR_N |-> Bogus + k]]]
    /\ recent = << >>

\* Mutant: a row is skipped unless it is full.
NextLevelFull(tree, tag, d) ==
    LET used == {k \in Level : k > d /\ Len(tree[NodeOf(tag, k)]) = TWO_PWR_N}
    IN IF used = {} THEN MAX_DEPTH + 1 ELSE Min(used)

\* The next level below d whose row for the tag is not empty.
NextLevel(tree, tag, d) ==
    LET used == {k \in Level : k > d /\ tree[NodeOf(tag, k)] # << >>}
    IN IF used = {} THEN MAX_DEPTH + 1 ELSE Min(used)

\* Mutant: the line goes to the leftmost node of the level.
PutLeft(tree, tag, d) == [tree EXCEPT ![2^d] = <<tag>> \o @]

\* A line in front of the row of its node at depth d.
Put(tree, tag, d) == [tree EXCEPT ![NodeOf(tag, d)] = <<tag>> \o @]

\* One level of the search for orig_tag: its row gives up the line found, or its
\* last one; then atag, which the level above gave up, enters this level.  At the
\* root atag is orig_tag itself.
SearchLevel(w, orig_tag) ==
    LET node == NodeOf(orig_tag, w.depth)
        row == w.tree[node]
        at == {i \in DOMAIN row : row[i] = orig_tag}
        out == IF at = {} THEN Len(row) ELSE Min(at)
        passed == IF at = {} THEN DOMAIN row ELSE 1 .. out - 1
        left == SubSeq(row, 1, out - 1) \o SubSeq(row, out + 1, Len(row))
        tree == Put([w.tree EXCEPT ![node] = left], w.atag, w.depth)
    IN [tree   |-> tree,
        hit    |-> at # {},
        depths |-> [k \in Level |-> w.depths[k]
                      + Cardinality({i \in passed : RightMatch(orig_tag, row[i]) = k})],
        atag   |-> row[Len(row)],
        depth  |-> NextLevel(tree, orig_tag, w.depth)]

\* The loop of sacnmul_woarr() over the levels.
Search(tree, orig_tag) ==
    LET walk[n \in 0 .. MAX_DEPTH + 1] ==
            IF n = 0 THEN [tree |-> tree, hit |-> FALSE, depths |-> [k \in Level |-> 0],
                           atag |-> orig_tag, depth |-> 0]
            ELSE IF walk[n - 1].hit \/ walk[n - 1].depth > MAX_DEPTH THEN walk[n - 1]
            ELSE SearchLevel(walk[n - 1], orig_tag)
    IN walk[MAX_DEPTH + 1]

TreeOf(line) == arr[line % 2^A]
TagOf(line) == line \div 2^A
HitAtRoot(line) == TreeOf(line)[1][1] = TagOf(line)

\* Mutant: only the lines that share exactly i bits are counted.
SumExact(depths, i) == depths[i]

\* The lines that came in the way in caches with 2^(A + i) sets.
SumFrom(depths, i) == MapThenSumSet(LAMBDA k : depths[k], i .. MAX_DEPTH)

\* The counters an access adds to: sac_hits[Score(line)[i]][i] for every i, unless
\* it is a MISS.  A hit at the root is counted by hitarr0, which outpr_saclru()
\* adds to sac_hits[0][i] for all i.
Score(line) ==
    LET w == Search(TreeOf(line), TagOf(line))
        sum == [i \in Level |-> SumFrom(w.depths, i)]
    IN [i \in Level |->
          IF HitAtRoot(line) THEN 0
          ELSE IF w.hit /\ \A k \in i .. MAX_DEPTH : sum[k] < TWO_PWR_N THEN sum[i] ELSE MISS]

\* sacnmul_woarr(): an access to a line.
sacnmul_woarr(line) ==
    /\ arr' = IF HitAtRoot(line) THEN arr
              ELSE [arr EXCEPT ![line % 2^A] = Search(@, TagOf(line)).tree]
    /\ recent' = <<line>> \o SelectSeq(recent, LAMBDA x : x # line)

Next == \E line \in Line : sacnmul_woarr(line)

Spec == Init /\ [][Next]_vars

(***************************************************************************)
(* Properties                                                              *)
(***************************************************************************)
\* The reference: how many of the lines more recent than a line share its set in a
\* cache with 2^(A + i) sets, which is its place in that set's LRU list.
InTheWay(line, i) ==
    LET p == CHOOSE k \in DOMAIN recent : recent[k] = line
    IN Cardinality({k \in 1 .. p - 1 : recent[k] % 2^(A + i) = line % 2^(A + i)})
Cached(line, i) == /\ \E k \in DOMAIN recent : recent[k] = line
                   /\ InTheWay(line, i) < TWO_PWR_N

\* One pass equals many: whatever was accessed before, an access is counted as a
\* hit at exactly the place of the line in the LRU list of its set, for every number
\* of sets at once, and as a miss when it is not among the first TWO_PWR_N.
OnePassExact ==
    \A line \in Line :
        Score(line) = [i \in Level |-> IF Cached(line, i) THEN InTheWay(line, i) ELSE MISS]

\* The tree holds every line of the largest caches once, in a node of its own last
\* bits, and no other line of the trace: moving lines between rows neither loses
\* nor doubles one.  No row grows beyond its slots: sacnmul_woarr() moves a row's
\* index without looking, and an index of 0 would be overwritten by a line.
TreeHoldsCaches ==
    /\ \A s \in DOMAIN arr, node \in Nodes : Len(arr[s][node]) <= TWO_PWR_N
    /\ \A line \in Line :
          LET places == {<<node, j>> \in Nodes \X (1 .. TWO_PWR_N) :
                            j <= Len(TreeOf(line)[node]) /\ TreeOf(line)[node][j] = TagOf(line)} IN
          /\ Cardinality(places) = IF Cached(line, MAX_DEPTH) THEN 1 ELSE 0
          /\ \A h \in places : h[1] = NodeOf(TagOf(line), DepthOf(h[1]))
=============================================================================
