------------------------------- MODULE FacLru -------------------------------
(* The one-pass simulation of fully associative LRU caches of libcheetah     *)
(* (faclru.c, with the splay tree of util.c): the lines seen are kept in a   *)
(* binary tree ordered by the time of their last access, in which the depth  *)
(* of a line in the LRU stack is counted on the way down.                    *)
(*                                                                           *)
(* Only the order of access times matters, so they are renumbered after      *)
(* every access.  Nodes are numbered by their times, 0 is NULL.  A chain of  *)
(* the hash table is a sequence whose first entry is slot[] itself.  p_stack *)
(* and delete_stack have the MAX_LINES entries the code allocates: an access *)
(* that would write behind one of them is undefined and ends the simulation. *)
(* Line DUMMY, address 1 in the code, is not part of the trace: init_faclru()*)
(* enters it with a time that the first access gets too ("Assumes that the   *)
(* first address is 1").                                                     *)
EXTENDS Integers, FiniteSets, FiniteSetsExt, Sequences

CONSTANTS Setup,        \* [lines, again, max]: lines of the trace, those it returns to,
                        \* lines of the largest cache
          DUMMY,        \* the line init_faclru() enters
          HASHNO,       \* slots of the hash table
          REUSE         \* least top at which delete() reuses its stack, 5 in the code

VARIABLES
    Line, Again, MAX_LINES,     \* the setup that is simulated
    tree,               \* tree[p]: node [inum, addr, rtwt, lft, rt]
    root,
    slot,               \* slot[loc]: chain of [addr, inum], inum the time of the last access
    tot_addrs,          \* distinct lines counted, up to MAX_LINES + 1
    delete_stack,       \* static stack of delete(), the node deleted next last
    last_inum,          \* and the time that node had
    overrun,            \* an access wrote behind p_stack or delete_stack
    recent              \* history: the lines seen, the last one first

vars == <<Line, Again, MAX_LINES, tree, root, slot, tot_addrs, delete_stack, last_inum, overrun, recent>>

NULL == 0
Node == DOMAIN tree

Init ==
    /\ \E s \in Setup : Line = s.lines /\ Again = s.again /\ MAX_LINES = s.max
    /\ tree = <<[inum |-> 0, addr |-> DUMMY, rtwt |-> 0, lft |-> NULL, rt |-> NULL]>>
    /\ root = 1
    /\ slot = [loc \in 0 .. HASHNO - 1 |->
                 IF loc = DUMMY % HASHNO THEN <<[addr |-> DUMMY, inum |-> 1]>> ELSE << >>]
    /\ tot_addrs = 0 /\ delete_stack = << >> /\ last_inum = 0
    /\ overrun = FALSE /\ recent = << >>

\* The search of hash_lookup_add() along a chain, and what it returns: the time of the
\* last access to the line, 0 when it is not there.
Entries(addr) == {i \in DOMAIN slot[addr % HASHNO] : slot[addr % HASHNO][i].addr = addr}
hash_lookup(addr) ==
    IF Entries(addr) = {} THEN 0
    ELSE slot[addr % HASHNO][CHOOSE i \in Entries(addr) : TRUE].inum

\* hash_lookup_add(): the time of an entry that is there is replaced, another entry
\* goes to the end of its chain.
hash_lookup_add(addr, time) ==
    [slot EXCEPT ![addr % HASHNO] =
        IF Entries(addr) = {} THEN Append(@, [addr |-> addr, inum |-> time])
        ELSE [i \in DOMAIN @ |-> IF i \in Entries(addr) THEN [@[i] EXCEPT !.inum = time] ELSE @[i]]]

\* hash_del(): the entry leaves its chain, which keeps its order; the first one by
\* having the second copied over it.
hash_del(h, addr) == [h EXCEPT ![addr % HASHNO] = SelectSeq(@, LAMBDA e : e.addr # addr)]

\* The link of node z to node y is set to node x.
Relink(t, z, y, x) == IF t[z].lft = y THEN [t EXCEPT ![z].lft = x] ELSE [t EXCEPT ![z].rt = x]

\* rotate_left() and rotate_right() at entry y of the stack.
RotateLeft(w, y) ==
    LET p == w.stk
        t1 == IF y > 1 THEN Relink(w.t, p[y - 1], p[y], p[y + 1]) ELSE w.t
    IN [t |-> [t1 EXCEPT ![p[y]].rt = t1[p[y + 1]].lft,
                         ![p[y]].rtwt = @ - (t1[p[y + 1]].rtwt + 1),
                         ![p[y + 1]].lft = p[y]],
        stk |-> [i \in DOMAIN p |-> IF i \in {y, y + 1} /\ i < Len(p) THEN p[i + 1] ELSE p[i]]]
RotateRight(w, y) ==
    LET p == w.stk
        t1 == IF y > 1 THEN Relink(w.t, p[y - 1], p[y], p[y + 1]) ELSE w.t
    IN [t |-> [t1 EXCEPT ![p[y]].lft = t1[p[y + 1]].rt,
                         ![p[y + 1]].rt = p[y],
                         ![p[y + 1]].rtwt = @ + t1[p[y]].rtwt + 1],
        stk |-> [i \in DOMAIN p |-> IF i \in {y, y + 1} /\ i < Len(p) THEN p[i + 1] ELSE p[i]]]

\* splay(): the entry moves to the place of its grandparent.
Splay(w, at) ==
    LET gx == at - 2  px == at - 1
        left == w.t[w.stk[px]].lft = w.stk[at]
        pleft == w.t[w.stk[gx]].lft = w.stk[px]
    IN CASE gx = 0 /\ left             -> RotateRight(w, 1)
         [] gx = 0 /\ ~left            -> RotateLeft(w, 1)
         [] gx > 0 /\ left /\ pleft    -> RotateRight(RotateRight(w, gx), gx)
         [] gx > 0 /\ left /\ ~pleft   -> RotateLeft(RotateRight(w, px), gx)
         [] gx > 0 /\ ~left /\ ~pleft  -> RotateLeft(RotateLeft(w, gx), gx)
         [] gx > 0 /\ ~left /\ pleft   -> RotateRight(RotateLeft(w, px), gx)

\* The loop of ref_tree() that splays entry at to the root.
SplayUp(w, at) ==
    LET step[k \in 0 .. at] ==      \* after k turns of the loop
            LET here == at - 2 * (k - 1) IN
            IF k = 0 THEN w
            ELSE IF here > 1 THEN Splay(step[k - 1], here) ELSE step[k - 1]
    IN step[at]

\* The nodes from the root down to the one with a time.
PathTo(inum) ==
    LET down[n \in 1 .. Len(tree)] ==
            IF n = 1 THEN <<root>>
            ELSE LET p == down[n - 1]  c == tree[p[Len(p)]] IN
                 IF c.inum = inum THEN p
                 ELSE Append(p, IF c.inum > inum THEN c.lft ELSE c.rt)
    IN down[Len(tree)]

\* A node and its left children, down to the last.
LeftChain(t, p) ==
    LET chain[n \in 0 .. Len(t)] ==
            IF n = 0 THEN IF p = NULL THEN << >> ELSE <<p>>
            ELSE LET q == chain[n - 1] IN
                 IF q = << >> \/ t[q[Len(q)]].lft = NULL THEN q
                 ELSE Append(q, t[q[Len(q)]].lft)
    IN chain[Len(t)]

Passed(inum) == LET path == PathTo(inum) IN {path[i] : i \in DOMAIN path}

\* Mutant: the nodes passed on the way are not counted, only those to their right.
AboveShort(inum) ==
    MapThenSumSet(LAMBDA p : IF tree[p].inum >= inum THEN tree[p].rtwt ELSE 0, Passed(inum))

\* addr_above of ref_tree(): the lines accessed since the time.
Above(inum) ==
    MapThenSumSet(LAMBDA p : IF tree[p].inum > inum THEN tree[p].rtwt + 1
                             ELSE IF tree[p].inum = inum THEN tree[p].rtwt ELSE 0, Passed(inum))

\* ref_tree(): the node is taken out, its neighbour splayed, and it becomes the
\* root.  Its place is filled by the next younger node, whose own node is moved.
\* fits says that p_stack, which is used from entry 1 on, has room for the path.
ref_tree(inum, addr, time) ==
    LET path == PathTo(inum)
        pos == Len(path)
        found == path[pos]
        stk == path \o LeftChain(tree, tree[found].rt)
        top == Len(stk)
        out == stk[top]
        passed == Passed(inum)
        t1 == [p \in Node |->
                 IF p \in passed /\ tree[p].inum <= inum
                 THEN [tree[p] EXCEPT !.rtwt = @ - 1] ELSE tree[p]]
        turns == {i \in 1 .. pos : tree[path[i]].inum > inum}
        lstlft == IF turns = {} THEN 0 ELSE Max(turns)
        t2 == IF pos = top
              THEN Relink(t1, stk[top - 1], out, t1[out].lft)
              ELSE [Relink(t1, stk[top - 1], out, t1[out].rt) EXCEPT
                      ![found].addr = t1[out].addr, ![found].inum = t1[out].inum]
        w == SplayUp([t |-> t2, stk |-> stk], IF pos = top THEN lstlft ELSE top - 1)
    IN IF tree[root].inum = inum
       THEN [t |-> [tree EXCEPT ![root].inum = time], root |-> root, fits |-> TRUE]
       ELSE [t |-> [w.t EXCEPT ![out] = [inum |-> time, addr |-> addr, rtwt |-> 0,
                                         lft |-> w.stk[1], rt |-> NULL]],
             root |-> out, fits |-> top < MAX_LINES]

\* delete() may use the stack its last call left.
Reusable ==
    /\ Len(delete_stack) > REUSE
    /\ tree[delete_stack[Len(delete_stack)]].inum = last_inum
    /\ tree[delete_stack[Len(delete_stack) - 1]].lft = delete_stack[Len(delete_stack)]

\* delete(): the oldest node, the tree without it and the path to the next one, which
\* delete_stack has room for when it fits.
delete ==
    LET path == IF Reusable THEN delete_stack ELSE LeftChain(tree, root)
        out == path[Len(path)]
        above == SubSeq(path, 1, Len(path) - 1)
        t == [tree EXCEPT ![above[Len(above)]].lft = tree[out].rt]
        stk == above \o LeftChain(t, t[above[Len(above)]].lft)
    IN [out |-> out, t |-> t, stk |-> stk, last |-> t[stk[Len(stk)]].inum,
        fits |-> Len(stk) <= MAX_LINES]

\* Access times as ranks among the times still in use, and nodes by their times.
Used(t) == {t[p].inum : p \in DOMAIN t} \cup {0}
Rank(t, i) == Cardinality({j \in Used(t) : j < i})
NodeNo(t, p) ==
    IF p = NULL THEN NULL ELSE 1 + Cardinality({q \in DOMAIN t : t[q].inum < t[p].inum})
Renumber(t) ==
    LET no == [p \in {NULL} \cup DOMAIN t |-> NodeNo(t, p)] IN
    [k \in DOMAIN t |->
       LET p == CHOOSE q \in DOMAIN t : no[q] = k IN
       [t[p] EXCEPT !.inum = Rank(t, @), !.lft = no[@], !.rt = no[@]]]
RenumberStack(stk, t) == [i \in DOMAIN stk |-> NodeNo(t, stk[i])]
RenumberSlots(h, t) ==
    [loc \in DOMAIN h |->
       [i \in DOMAIN h[loc] |->
          IF h[loc][i].addr = DUMMY THEN h[loc][i] ELSE [h[loc][i] EXCEPT !.inum = Rank(t, @)]]]

\* ptc(): the access to a line that is in the tree.
Reference(a) ==
    LET time == Len(tree) + 1
        r == ref_tree(hash_lookup(a), a, time)
    IN /\ ~overrun /\ hash_lookup(a) # 0 /\ r.fits
       /\ tree' = Renumber(r.t) /\ root' = NodeNo(r.t, r.root)
       /\ slot' = RenumberSlots(hash_lookup_add(a, time), r.t)
       /\ last_inum' = IF last_inum \in Used(r.t) THEN Rank(r.t, last_inum) ELSE -1
       /\ delete_stack' = RenumberStack(delete_stack, r.t)
       /\ UNCHANGED <<Line, Again, MAX_LINES, tot_addrs, overrun>>
       /\ recent' = <<a>> \o SelectSeq(recent, LAMBDA x : x # a)

NewRoot(a, time) == [inum |-> time, addr |-> a, rtwt |-> 0, lft |-> root, rt |-> NULL]

\* ptc(): a new line while the limit is not exceeded.
Insert(a) ==
    LET time == Len(tree) + 1  t == Append(tree, NewRoot(a, time)) IN
    /\ ~overrun /\ hash_lookup(a) = 0 /\ tot_addrs <= MAX_LINES
    /\ tree' = Renumber(t) /\ root' = NodeNo(t, Len(t))
    /\ slot' = RenumberSlots(hash_lookup_add(a, time), t)
    /\ tot_addrs' = tot_addrs + 1
    /\ delete_stack' = RenumberStack(delete_stack, t)
    /\ UNCHANGED <<Line, Again, MAX_LINES, last_inum, overrun>>
    /\ recent' = <<a>> \o recent

\* ptc(): a new line takes the node of the oldest one.
Replace(a) ==
    LET time == Len(tree) + 1
        d == delete
        t == [d.t EXCEPT ![d.out] = NewRoot(a, time)]
    IN /\ ~overrun /\ hash_lookup(a) = 0 /\ tot_addrs > MAX_LINES /\ d.fits
       /\ tree' = Renumber(t) /\ root' = NodeNo(t, d.out)
       /\ slot' = RenumberSlots(hash_del(hash_lookup_add(a, time), tree[d.out].addr), t)
       /\ delete_stack' = RenumberStack(d.stk, t) /\ last_inum' = Rank(t, d.last)
       /\ UNCHANGED <<Line, Again, MAX_LINES, tot_addrs, overrun>>
       /\ recent' = <<a>> \o SelectSeq(recent, LAMBDA x : x # a)

\* ptc(): ref_tree() or delete() writes behind its stack.  What the heap holds then,
\* and what the simulator counts from then on, is undefined.
Overrun(a) ==
    /\ ~overrun
    /\ IF hash_lookup(a) # 0 THEN ~ref_tree(hash_lookup(a), a, Len(tree) + 1).fits
       ELSE tot_addrs > MAX_LINES /\ ~delete.fits
    /\ overrun' = TRUE
    /\ UNCHANGED <<Line, Again, MAX_LINES, tree, root, slot, tot_addrs, delete_stack, last_inum, recent>>
Undefined == overrun /\ UNCHANGED vars

\* The trace.  Lines differ by nothing but their slots: they are named in the order of
\* their first access.
Seen(a) == \E k \in DOMAIN recent : recent[k] = a
Trace == {a \in Line : (\A b \in Line : b < a => Seen(b)) /\ (Seen(a) => a \in Again)}

Next == \/ \E a \in Trace : Reference(a) \/ Insert(a) \/ Replace(a) \/ Overrun(a)
        \/ Undefined

Spec == Init /\ [][Next]_vars

(***************************************************************************)
(* Properties                                                              *)
(***************************************************************************)

\* The stack depth ref_tree() counts for a line is its place in the LRU stack, for
\* every line among the MAX_LINES last ones, however the tree was splayed and
\* whatever was deleted from it, as long as no access wrote behind a stack.
DepthsExact ==
    ~overrun =>
      \A k \in DOMAIN recent :
        LET inum == hash_lookup(recent[k]) IN
        /\ k <= MAX_LINES => inum > 0
        /\ inum > 0 => Above(inum) + 1 = k

\* init_faclru() "allocates space for the arrays" (and delete() for its stack): the
\* paths ref_tree() and delete() record in p_stack and delete_stack fit into them.
StacksFit == ~overrun
=============================================================================
