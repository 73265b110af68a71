------------------------------- MODULE Symbol --------------------------------
(* The symbol tables of symbol.c: their sortings, the sizes computed from     *)
(* them, and the binary searches that bind an address or a name to a symbol.  *)
(*                                                                            *)
(* The symbols of an executable are any sequence: several may share an        *)
(* address or a name.  Names are numbers in the order of strcmp().  qsort()   *)
(* may leave equal symbols in any order.  The table of all symbols by address *)
(* is left out: the program only prints it.                                   *)
EXTENDS Integers, Sequences, FiniteSets, SequencesExt

CONSTANTS
    Name, Addr,         \* names, and addresses in the order of the segments
    END,                \* END[seg]: ld_text_base + ld_text_size, ld_data_base + ld_data_size
    MAX_SYMS            \* bound on the symbols of the executable

VARIABLES
    sym_db,             \* symbols of the executable: [name, seg, addr]
    syms_loaded,
    table,              \* table[seg]: places in sym_db, sorted by address
    by_name,            \* by_name[db]: places in sym_db, sorted by name
    size,               \* size of each symbol
    bound               \* the last query and the place it found, 0: NULL

vars == <<sym_db, syms_loaded, table, by_name, size, bound>>

Seg == {"text", "data"}
Db == Seg \cup {"any"}
Nothing == [query |-> "none"]

\* Addresses of the text lie below END["text"], those of the data above.
Symbols ==
    {s \in [name : Name, seg : Seg, addr : Addr] :
       IF s.seg = "text" THEN s.addr <= END["text"] ELSE s.addr > END["text"]}

\* The order of the symbols in the executable plays no part: it is that of addresses.
Init ==
    /\ sym_db \in UNION {[1 .. n -> Symbols] : n \in 0 .. MAX_SYMS}
    /\ \A i \in 2 .. Len(sym_db) : sym_db[i - 1].addr <= sym_db[i].addr
    /\ syms_loaded = FALSE /\ bound = Nothing
    /\ table = [d \in Seg |-> << >>] /\ by_name = [d \in Db |-> << >>] /\ size = << >>

\* The symbols of a database, and the orders qsort() may leave them in.
Members(d) == {i \in DOMAIN sym_db : d \in {"any", sym_db[i].seg}}
Sorted(S, key) ==
    {q \in [1 .. Cardinality(S) -> S] :
       /\ \A i, j \in DOMAIN q : q[i] = q[j] => i = j
       /\ \A i \in 2 .. Len(q) : key[q[i - 1]] <= key[q[i]]}

\* Each symbol ends where the next of its segment begins, the last with the segment.
SizeOf(t, i) ==
    LET q == t[sym_db[i].seg]
        p == CHOOSE x \in DOMAIN q : q[x] = i
        end == IF p = Len(q) THEN END[sym_db[i].seg] ELSE sym_db[q[p + 1]].addr
    IN end - sym_db[i].addr

\* The sortings and sizes; a second call returns at once.
sym_loadsyms ==
    LET addr == [i \in DOMAIN sym_db |-> sym_db[i].addr]
        name == [i \in DOMAIN sym_db |-> sym_db[i].name]
    IN /\ ~syms_loaded /\ syms_loaded' = TRUE
       /\ \E t \in Sorted(Members("text"), addr), d \in Sorted(Members("data"), addr) :
            table' = [x \in Seg |-> IF x = "text" THEN t ELSE d]
       /\ \E a \in Sorted(Members("any"), name), t \in Sorted(Members("text"), name),
             d \in Sorted(Members("data"), name) :
            by_name' = [x \in Db |-> CASE x = "any" -> a [] x = "text" -> t [] x = "data" -> d]
       /\ size' = [i \in DOMAIN sym_db |-> SizeOf(table', i)]
       /\ UNCHANGED <<sym_db, bound>>

\* Mutant: an interval of one symbol is not searched.
MoreThanOne(low, high) == high > low

\* Whether there is anything left to search.
More(low, high) == high >= low

\* The binary search both functions make over table q: the symbol found, 0 for none.
\* match are the symbols that end it, left those it goes on to the left of.
Search(q, match, left) ==
    LET find[low \in 1 .. Len(q) + 1, high \in 0 .. Len(q)] ==
          LET pos == (low + high) \div 2 IN
          IF q[pos] \in match THEN q[pos]
          ELSE IF q[pos] \in left
               THEN IF More(low, pos - 1) THEN find[low, pos - 1] ELSE 0
               ELSE IF More(pos + 1, high) THEN find[pos + 1, high] ELSE 0
    IN IF q = << >> THEN 0 ELSE find[1, Len(q)]

Covers(i, addr) ==
    /\ sym_db[i].addr <= addr
    /\ addr < sym_db[i].addr + (IF size[i] < 1 THEN 1 ELSE size[i])

sym_bind_addr(addr, exact, d) ==
    /\ syms_loaded
    /\ bound' = [query |-> IF exact THEN "exact" ELSE "within", key |-> addr, db |-> d,
                 found |-> Search(table[d],
                             {i \in Members(d) : IF exact THEN sym_db[i].addr = addr
                                                          ELSE Covers(i, addr)},
                             {i \in Members(d) : addr < sym_db[i].addr})]
    /\ UNCHANGED <<sym_db, syms_loaded, table, by_name, size>>

sym_bind_name(name, d) ==
    /\ syms_loaded
    /\ bound' = [query |-> "name", key |-> name, db |-> d,
                 found |-> Search(by_name[d], {i \in Members(d) : sym_db[i].name = name},
                                              {i \in Members(d) : sym_db[i].name > name})]
    /\ UNCHANGED <<sym_db, syms_loaded, table, by_name, size>>

Next == \/ sym_loadsyms
        \/ \E addr \in Addr, exact \in BOOLEAN, d \in Seg : sym_bind_addr(addr, exact, d)
        \/ \E name \in Name, d \in Db : sym_bind_name(name, d)

Spec == Init /\ [][Next]_vars
-----------------------------------------------------------------------------
(* Properties.                                                               *)

\* The searches bind what they are asked for.  sym_bind_addr() finds a symbol that
\* starts nearest before the address, also where several symbols share an address and
\* all but the last of them have no size, or, if asked for an exact match, one that
\* starts there; sym_bind_name() finds one of the name.  They return NULL only when
\* there is none.
BindsRight ==
    LET before == {i \in Members(bound.db) : sym_db[i].addr <= bound.key}
        right == CASE bound.query = "within" ->
                        {i \in before : \A j \in before : sym_db[j].addr <= sym_db[i].addr}
                   [] bound.query = "exact" -> {i \in before : sym_db[i].addr = bound.key}
                   [] bound.query = "name" -> {i \in Members(bound.db) : sym_db[i].name = bound.key}
    IN bound.query = "name" \/ (bound.query # "none" /\ bound.key < END[bound.db]) =>
         IF right = {} THEN bound.found = 0 ELSE bound.found \in right
=============================================================================
