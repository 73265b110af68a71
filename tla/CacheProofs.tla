----------------------------- MODULE CacheProofs -----------------------------
(* The redundant structures of a cache agree, for every geometry, every      *)
(* replacement policy and every latency of the next level.                   *)
EXTENDS Cache, TLAPS

USE SMTT(30)

\* An address is made of its tag and its set.
LEMMA AddressParts ==
  ASSUME NEW b \in Nat
  PROVE  /\ CACHE_SET(b) \in Set /\ CACHE_TAG(b) \in Nat
         /\ CACHE_MK_BADDR(CACHE_TAG(b), CACHE_SET(b)) = b
<1>1. nsets \in Nat /\ nsets > 0
  BY GeometryAssumption
<1>2. b % nsets \in 0 .. nsets - 1 /\ b \div nsets \in Int
  BY <1>1
<1>3. b = nsets * (b \div nsets) + (b % nsets)
  BY <1>1
<1>4. b \div nsets \in Nat
  BY <1>1, <1>2, <1>3
<1>5. (b \div nsets) * nsets + (b % nsets) = b
  BY <1>1, <1>2, <1>3
<1> QED
  BY <1>2, <1>4, <1>5 DEF CACHE_SET, CACHE_TAG, CACHE_MK_BADDR, Set

\* CACHE_MK_BADDR() loses nothing: different tags or sets make different addresses.
LEMMA PartsOfAddress ==
  ASSUME NEW t \in Nat, NEW s \in Set
  PROVE  /\ CACHE_MK_BADDR(t, s) \in Nat
         /\ CACHE_TAG(CACHE_MK_BADDR(t, s)) = t /\ CACHE_SET(CACHE_MK_BADDR(t, s)) = s
<1>1. nsets \in Nat /\ nsets > 0 /\ s \in Nat /\ s < nsets
  BY GeometryAssumption DEF Set
<1> DEFINE b == t * nsets + s
<1>2. b \in Nat
  BY <1>1
<1>3. b \div nsets = t /\ b % nsets = s
  BY <1>1, <1>2
<1> QED
  BY <1>2, <1>3 DEF CACHE_SET, CACHE_TAG, CACHE_MK_BADDR

\* CACHE_HASH() selects a bucket of the table if there is one.
LEMMA HashInRange == ASSUME NEW t \in Nat, hsize > 0 PROVE CACHE_HASH(t) \in Bucket
  BY GeometryAssumption DEF CACHE_HASH, Bucket

\* The types the argument needs.
Shape ==
    /\ blk \in [Set -> [Way -> Blk]] /\ bus_free \in Nat
    /\ hash \in [Set -> [Bucket -> SUBSET Way]]
    /\ last_blk \in (Set \X Way) \cup {NULL}

\* LookupExact in two parts, and WritesKept of one address.
Unique ==
    \A s \in Set : \A v, w \in Way :
        blk[s][v].valid /\ blk[s][w].valid /\ blk[s][v].tag = blk[s][w].tag => v = w
Hashed ==
    hsize > 0 => \A s \in Set, w \in Way, k \in Bucket :
                    w \in hash[s][k] <=> k = CACHE_HASH(blk[s][w].tag)
DirtyAt(s, w, a) == blk[s][w].valid /\ blk[s][w].dirty /\ CACHE_MK_BADDR(blk[s][w].tag, s) = a
Written == \A a : a \in newer <=> \E s \in Set, w \in Way : DirtyAt(s, w, a)

\* The way lists play no part: any block may be replaced.
Agree == Shape /\ Unique /\ Hashed /\ Written /\ FastHitSound

\* The dirty blocks one by one.
LEMMA DirtyOneByOne ==
  ASSUME NEW a
  PROVE  a \in DirtyBlocks <=> \E s \in Set, w \in Way : DirtyAt(s, w, a)
<1>1. ASSUME a \in DirtyBlocks PROVE \E s \in Set, w \in Way : DirtyAt(s, w, a)
  <2>1. PICK v \in Set \X Way : /\ blk[v[1]][v[2]].valid /\ blk[v[1]][v[2]].dirty
                                /\ a = CACHE_MK_BADDR(blk[v[1]][v[2]].tag, v[1])
    BY <1>1 DEF DirtyBlocks
  <2>2. v[1] \in Set /\ v[2] \in Way /\ DirtyAt(v[1], v[2], a)
    BY <2>1 DEF DirtyAt
  <2> QED
    BY <2>2
<1>2. ASSUME NEW s \in Set, NEW w \in Way, DirtyAt(s, w, a) PROVE a \in DirtyBlocks
  <2>1. <<s, w>> \in Set \X Way /\ <<s, w>>[1] = s /\ <<s, w>>[2] = w
    OBVIOUS
  <2> QED
    BY <1>2, <2>1 DEF DirtyBlocks, DirtyAt
<1> QED
  BY <1>1, <1>2

\* The search finds the ways that hold the block, with hash tables or without.
LEMMA FoundHolds ==
  ASSUME Shape, Hashed, NEW b \in Block, NEW w \in Way
  PROVE  w \in Found(b) <=> /\ blk[CACHE_SET(b)][w].valid
                            /\ blk[CACHE_SET(b)][w].tag = CACHE_TAG(b)
<1>1. b \in Nat /\ CACHE_SET(b) \in Set /\ CACHE_TAG(b) \in Nat
  BY AddressParts, GeometryAssumption
<1>2. CASE hsize = 0
  BY <1>2 DEF Found, Candidates
<1>3. CASE hsize # 0
  <2>1. hsize > 0 /\ CACHE_HASH(CACHE_TAG(b)) \in Bucket
    BY <1>1, <1>3, HashInRange, GeometryAssumption
  <2>2. w \in Candidates(b) <=> CACHE_HASH(CACHE_TAG(b)) = CACHE_HASH(blk[CACHE_SET(b)][w].tag)
    BY <1>1, <1>3, <2>1 DEF Candidates, Hashed
  <2>3. w \in Found(b) <=> w \in Candidates(b) /\ blk[CACHE_SET(b)][w].tag = CACHE_TAG(b)
                           /\ blk[CACHE_SET(b)][w].valid
    BY DEF Found
  <2> QED
    BY <2>2, <2>3
<1> QED
  BY <1>2, <1>3

\* The search looks at ways only.
LEMMA FoundWays == ASSUME Shape, NEW b \in Block PROVE Found(b) \subseteq Way
<1>1. b \in Nat /\ CACHE_SET(b) \in Set /\ CACHE_TAG(b) \in Nat
  BY AddressParts, GeometryAssumption
<1>2. hsize # 0 => CACHE_HASH(CACHE_TAG(b)) \in Bucket
  BY <1>1, HashInRange, GeometryAssumption
<1> QED
  BY <1>1, <1>2 DEF Found, Candidates, Shape

\* A way that holds a block is in the block's set, under its tag.
LEMMA HoldsPlace ==
  ASSUME Shape, NEW b \in Block, NEW s \in Set, NEW w \in Way, Holds(s, w, b)
  PROVE  s = CACHE_SET(b) /\ blk[s][w].tag = CACHE_TAG(b) /\ blk[s][w].valid
<1>1. blk[s][w].tag \in Nat
  BY DEF Shape, Blk
<1> QED
  BY <1>1, PartsOfAddress DEF Holds

\* Changing one block changes nothing else.
LEMMA OneBlock ==
  ASSUME blk \in [Set -> [Way -> Blk]], NEW s \in Set, NEW w \in Way, NEW n \in Blk,
         blk' = [blk EXCEPT ![s][w] = n]
  PROVE  /\ blk' \in [Set -> [Way -> Blk]]
         /\ \A t \in Set, x \in Way : blk'[t][x] = IF t = s /\ x = w THEN n ELSE blk[t][x]
  OBVIOUS

\* A hit, fast or slow, keeps the agreement.
LEMMA TouchKeeps ==
  ASSUME Agree, NEW cmd \in Cmd, NEW b \in Block, NEW w \in Found(b), Touch(cmd, b, w),
         UNCHANGED <<hash, bus_free>>
  PROVE  Agree'
<1> DEFINE s == CACHE_SET(b)
           n == [blk[s][w] EXCEPT !.dirty = @ \/ cmd = "Write"]
<1>1. b \in Nat /\ s \in Set /\ CACHE_TAG(b) \in Nat /\ CACHE_MK_BADDR(CACHE_TAG(b), s) = b
  BY AddressParts, GeometryAssumption
<1>2. w \in Way /\ blk[s][w].valid /\ blk[s][w].tag = CACHE_TAG(b)
  BY FoundWays, FoundHolds DEF Agree
<1>3. blk[s][w] \in Blk
  BY <1>1, <1>2 DEF Agree, Shape
<1>4. n \in Blk /\ n.tag = blk[s][w].tag /\ (n.valid <=> blk[s][w].valid)
      /\ (n.dirty <=> blk[s][w].dirty \/ cmd = "Write")
  <2> DEFINE o == blk[s][w]
             d == o.dirty \/ cmd = "Write"
  <2>1. d \in BOOLEAN
    BY Zenon
  <2>2. o \in Blk /\ n = [o EXCEPT !.dirty = d]
    BY <1>3
  <2> HIDE DEF d, n, o
  <2>3. n \in Blk
    BY <2>1, <2>2 DEF Blk
  <2>4. n.tag = o.tag
    BY <2>1, <2>2 DEF Blk
  <2>5. n.valid = o.valid
    BY <2>1, <2>2 DEF Blk
  <2>6. n.dirty = d
    BY <2>1, <2>2 DEF Blk
  <2> QED
    BY <2>3, <2>4, <2>5, <2>6, Zenon DEF o, d
<1>5. blk' = [blk EXCEPT ![s][w] = n]
  BY DEF Touch
<1>6. /\ blk' \in [Set -> [Way -> Blk]]
      /\ \A t \in Set, x \in Way : blk'[t][x] = IF t = s /\ x = w THEN n ELSE blk[t][x]
  <2> HIDE DEF n, s
  <2> QED
    BY <1>1, <1>2, <1>4, <1>5, OneBlock DEF Agree, Shape
<1>7. \A t \in Set, x \in Way :
        /\ blk'[t][x].tag = blk[t][x].tag /\ (blk'[t][x].valid <=> blk[t][x].valid)
        /\ (blk'[t][x].dirty <=> blk[t][x].dirty \/ (t = s /\ x = w /\ cmd = "Write"))
  <2> HIDE DEF n, s
  <2> QED
    BY <1>4, <1>6
<1> HIDE DEF n, s
<1>8. Shape'
  BY <1>1, <1>2, <1>6 DEF Agree, Shape, Touch, s, Bucket, Set, Way, NULL
<1>9. Unique'
  BY <1>7 DEF Agree, Unique, Set, Way
<1>10. Hashed'
  BY <1>7 DEF Agree, Hashed, Set, Way, Bucket, CACHE_HASH
<1>11. Written'
  <2>1. \A a : \A t \in Set, x \in Way :
          DirtyAt(t, x, a)' <=> DirtyAt(t, x, a) \/ (t = s /\ x = w /\ cmd = "Write" /\ a = b)
    BY <1>1, <1>2, <1>7 DEF DirtyAt, CACHE_MK_BADDR
  <2>2. \A a : a \in newer' <=> a \in newer \/ (cmd = "Write" /\ a = b)
    BY DEF Touch
  <2> QED
    BY <1>1, <1>2, <2>1, <2>2 DEF Agree, Written, Set, Way
<1>12. FastHitSound'
  <2>1. last_tagset' = b /\ last_blk'[1] = s /\ last_blk'[2] = w /\ last_blk' # << >>
    BY DEF Touch, s
  <2>2. Holds(s, w, b)'
    BY <1>1, <1>2, <1>7 DEF Holds, CACHE_MK_BADDR
  <2> QED
    BY <2>1, <2>2 DEF FastHitSound, NULL, Holds, CACHE_MK_BADDR
<1> QED
  BY <1>8, <1>9, <1>10, <1>11, <1>12 DEF Agree

\* The dirty blocks when one way changes: Written survives if newer loses
\* the address that way held and gains the one it now holds dirty.
LEMMA WrittenOneWay ==
  ASSUME Shape, Unique, Written, NEW s \in Set, NEW w \in Way,
         \A t \in Set, x \in Way : ~(t = s /\ x = w) => blk'[t][x] = blk[t][x],
         \A a : a \in newer' <=> \/ a \in newer /\ ~DirtyAt(s, w, a)
                                 \/ DirtyAt(s, w, a)'
  PROVE  Written'
<1>1. \A a : \A t \in Set, x \in Way :
        ~(t = s /\ x = w) => (DirtyAt(t, x, a)' <=> DirtyAt(t, x, a))
  BY DEF DirtyAt, CACHE_MK_BADDR
<1>2. ASSUME NEW t \in Set, NEW x \in Way, NEW a, DirtyAt(t, x, a), DirtyAt(s, w, a)
      PROVE  t = s /\ x = w
  <2>1. blk[t][x].tag \in Nat /\ blk[s][w].tag \in Nat
    BY DEF Shape, Blk
  <2>2. CACHE_MK_BADDR(blk[t][x].tag, t) = CACHE_MK_BADDR(blk[s][w].tag, s)
    BY <1>2 DEF DirtyAt
  <2>3. t = s /\ blk[t][x].tag = blk[s][w].tag
    BY <2>1, <2>2, PartsOfAddress
  <2> QED
    BY <1>2, <2>3 DEF DirtyAt, Unique
<1>3. ASSUME NEW a PROVE a \in newer' <=> \E t \in Set, x \in Way : DirtyAt(t, x, a)'
  BY <1>1, <1>2 DEF Written
<1> QED
  BY <1>3 DEF Written, Set, Way

\* A miss keeps the agreement.
LEMMA MissKeeps ==
  ASSUME 0 \notin Block, Agree, NEW cmd \in Cmd, NEW b \in Block, NEW w \in Way,
         NEW r \in ReadLat, NEW y \in WriteLat, Miss(cmd, b, w, r, y)
  PROVE  Agree'
<1> DEFINE s    == CACHE_SET(b)
           tag  == CACHE_TAG(b)
           old  == blk[s][w]
           wait == Outstanding(old)
           lat  == IF ~old.valid THEN r ELSE IF ~old.dirty THEN wait + r ELSE wait + y + r
           d    == cmd = "Write"
           n    == [tag |-> tag, valid |-> TRUE, dirty |-> d, ready |-> lat]
<1>1. b \in Nat /\ s \in Set /\ tag \in Nat /\ CACHE_MK_BADDR(tag, s) = b
  BY AddressParts, GeometryAssumption
<1>2. old \in Blk
  BY <1>1 DEF Agree, Shape
<1>3. wait \in Nat
  BY <1>2 DEF Agree, Shape, Blk, Outstanding, Larger
<1>4. lat \in Nat
  <2> HIDE DEF wait, old
  <2> QED
    BY <1>3, GeometryAssumption
<1>5. blk' = [blk EXCEPT ![s][w] = n]
  BY DEF Miss
<1>6. n \in Blk /\ n.tag = tag /\ n.valid
  <2>1. d \in BOOLEAN
    BY Zenon
  <2> HIDE DEF d, lat, tag
  <2> QED
    BY <1>1, <1>4, <2>1 DEF Blk
<1>7. n.dirty <=> cmd = "Write"
  BY Zenon
<1>8. /\ blk' \in [Set -> [Way -> Blk]]
      /\ \A t \in Set, x \in Way : blk'[t][x] = IF t = s /\ x = w THEN n ELSE blk[t][x]
  <2> HIDE DEF n, s
  <2> QED
    BY <1>1, <1>5, <1>6, OneBlock DEF Agree, Shape
<1> HIDE DEF n, s
<1>9. Unique'
  <2>1. \A x \in Way : ~(blk[s][x].valid /\ blk[s][x].tag = tag)
    BY <1>1, FoundHolds DEF Agree, Miss, s
  <2> HIDE DEF tag
  <2> QED
    BY <1>6, <1>8, <2>1 DEF Agree, Unique, Set, Way
<1>10. Hashed' /\ hash' \in [Set -> [Bucket -> SUBSET Way]]
  <2>1. CASE hsize = 0
    BY <2>1 DEF Agree, Shape, Hashed, Miss
  <2>2. CASE hsize # 0
    <3>1. hsize > 0 /\ CACHE_HASH(tag) \in Bucket /\ CACHE_HASH(old.tag) \in Bucket
      BY <1>1, <1>2, <2>2, HashInRange, GeometryAssumption DEF Blk
    <3>2. hash' = [hash EXCEPT ![s] = link_htab_ent(unlink_htab_ent(hash[s], old.tag, w), tag, w)]
      BY <2>2 DEF Miss, s
    <3> HIDE DEF tag, old
    <3>3. hash' \in [Set -> [Bucket -> SUBSET Way]]
      BY <1>1, <3>1, <3>2 DEF Agree, Shape, link_htab_ent, unlink_htab_ent
    <3>4. \A t \in Set, k \in Bucket, x \in Way :
            x \in hash'[t][k] <=> IF t = s /\ x = w THEN \/ k = CACHE_HASH(tag)
                                                         \/ x \in hash[t][k] /\ k # CACHE_HASH(old.tag)
                                  ELSE x \in hash[t][k]
      BY <1>1, <3>1, <3>2 DEF Agree, Shape, link_htab_ent, unlink_htab_ent
    <3>5. \A t \in Set, k \in Bucket, x \in Way :
            x \in hash[t][k] <=> k = CACHE_HASH(blk[t][x].tag)
      BY <3>1 DEF Agree, Hashed
    <3>6. ASSUME NEW t \in Set, NEW k \in Bucket, NEW x \in Way
          PROVE  x \in hash'[t][k] <=> k = CACHE_HASH(blk'[t][x].tag)
      <4>1. CASE t = s /\ x = w
        BY <1>6, <1>8, <3>4, <3>5, <4>1 DEF old
      <4>2. CASE ~(t = s /\ x = w)
        BY <1>8, <3>4, <3>5, <4>2
      <4> QED
        BY <4>1, <4>2
    <3> QED
      BY <3>3, <3>6 DEF Hashed, Set, Way, Bucket, CACHE_HASH
  <2> QED
    BY <2>1, <2>2
<1>11. Shape'
  <2>1. bus_free' \in Nat /\ last_blk' = NULL
    BY <1>3 DEF Miss, Agree, Shape, s
  <2> QED
    BY <1>8, <1>10, <2>1 DEF Shape, Set, Way, Bucket, NULL, Blk
<1>12. Written'
  <2>1. \A a : a \in newer' <=> \/ a \in newer /\ ~DirtyAt(s, w, a)
                                \/ cmd = "Write" /\ a = b
    BY DEF Miss, DirtyAt, s
  <2>2. blk'[s][w] = n
    BY <1>1, <1>8
  <2>3. \A a : DirtyAt(s, w, a)' <=> cmd = "Write" /\ a = b
    BY <1>1, <1>6, <1>7, <2>2 DEF DirtyAt, CACHE_MK_BADDR
  <2> QED
    BY <1>1, <1>8, <2>1, <2>3, WrittenOneWay DEF Agree
<1>13. FastHitSound'
  BY DEF Miss, FastHitSound
<1> QED
  BY <1>9, <1>10, <1>11, <1>12, <1>13 DEF Agree

\* Flushing one block keeps the agreement.
LEMMA FlushAddrKeeps ==
  ASSUME 0 \notin Block, Agree, NEW b \in Block, cache_flush_addr(b)
  PROVE  Agree'
<1> DEFINE s == CACHE_SET(b)
<1>1. s \in Set
  BY AddressParts, GeometryAssumption
<1>2. PICK w \in Found(b) :
        /\ blk' = [blk EXCEPT ![s][w].valid = FALSE]
        /\ newer' = IF blk[s][w].dirty
                    THEN newer \ {CACHE_MK_BADDR(blk[s][w].tag, s)} ELSE newer
  BY Zenon DEF cache_flush_addr
<1>3. w \in Way /\ blk[s][w].valid
  BY FoundWays, FoundHolds DEF Agree
<1> DEFINE o == blk[s][w]
           d == FALSE
           n == [o EXCEPT !.valid = d]
<1>4. o \in Blk /\ d \in BOOLEAN /\ ~d /\ blk' = [blk EXCEPT ![s][w] = n]
  <2>1. o \in Blk
    BY <1>1, <1>3 DEF Agree, Shape
  <2>2. d \in BOOLEAN /\ ~d
    BY Zenon
  <2>3. blk' = [blk EXCEPT ![s][w] = n]
    BY <1>2
  <2> QED
    BY <2>1, <2>2, <2>3, Zenon
<1>5. n \in Blk /\ n.tag = o.tag /\ ~n.valid
  <2> HIDE DEF o, d
  <2>1. n \in Blk
    BY <1>4 DEF Blk
  <2>2. n.tag = o.tag
    BY <1>4 DEF Blk
  <2>3. n.valid = d
    BY <1>4 DEF Blk
  <2> QED
    BY <1>4, <2>1, <2>2, <2>3, Zenon
<1> HIDE DEF n, s
<1>6. /\ blk' \in [Set -> [Way -> Blk]]
      /\ \A t \in Set, x \in Way : blk'[t][x] = IF t = s /\ x = w THEN n ELSE blk[t][x]
  BY <1>1, <1>3, <1>4, <1>5, OneBlock DEF Agree, Shape
<1>7. blk'[s][w] = n /\ hash' = hash
  BY <1>1, <1>3, <1>6 DEF cache_flush_addr
<1>8. Unique'
  BY <1>5, <1>6 DEF Agree, Unique, Set, Way
<1>9. Hashed'
  BY <1>5, <1>6, <1>7 DEF Agree, Hashed, Set, Way, Bucket, CACHE_HASH
<1>10. Shape'
  BY <1>6 DEF Agree, Shape, cache_flush_addr, Set, Way, Bucket, NULL, Blk
<1>11. Written'
  <2>1. \A a : a \in newer' <=> a \in newer /\ ~DirtyAt(s, w, a)
    BY <1>2, <1>3 DEF DirtyAt
  <2>2. \A a : ~DirtyAt(s, w, a)'
    BY <1>5, <1>7 DEF DirtyAt
  <2> QED
    BY <1>1, <1>3, <1>6, <2>1, <2>2, WrittenOneWay DEF Agree
<1>12. FastHitSound'
  BY DEF cache_flush_addr, FastHitSound
<1> QED
  BY <1>8, <1>9, <1>10, <1>11, <1>12 DEF Agree

\* Flushing the cache leaves no valid block, and nothing for the next level to see.
LEMMA FlushKeeps == ASSUME 0 \notin Block, Agree, cache_flush PROVE Agree'
<1> DEFINE d == FALSE
<1>1. d \in BOOLEAN /\ ~d
  OBVIOUS
<1>2. blk' = [s \in Set |-> [w \in Way |-> [blk[s][w] EXCEPT !.valid = d]]]
  BY DEF cache_flush
<1> HIDE DEF d
<1>3. ASSUME NEW s \in Set, NEW w \in Way
      PROVE  blk'[s][w] \in Blk /\ blk'[s][w].tag = blk[s][w].tag /\ ~blk'[s][w].valid
  <2>1. blk[s][w] \in Blk /\ blk'[s][w] = [blk[s][w] EXCEPT !.valid = d]
    BY <1>2 DEF Agree, Shape
  <2>2. blk'[s][w] \in Blk
    BY <1>1, <2>1 DEF Blk
  <2>3. blk'[s][w].tag = blk[s][w].tag
    BY <1>1, <2>1 DEF Blk
  <2>4. blk'[s][w].valid = d
    BY <1>1, <2>1 DEF Blk
  <2> QED
    BY <1>1, <2>2, <2>3, <2>4, Zenon
<1>4. Shape'
  <2>1. blk' \in [Set -> [Way -> Blk]]
    BY <1>2, <1>3
  <2> QED
    BY <2>1 DEF Agree, Shape, cache_flush, Set, Way, Bucket, NULL, Blk
<1>5. Unique'
  BY <1>3 DEF Unique, Set, Way
<1>6. Hashed'
  BY <1>3 DEF Agree, Hashed, cache_flush, Set, Way, Bucket, CACHE_HASH
<1>7. Written'
  <2>1. \A a : a \notin newer'
    BY DirtyOneByOne DEF Agree, Written, cache_flush
  <2>2. \A a : \A s \in Set, w \in Way : ~DirtyAt(s, w, a)'
    BY <1>3 DEF DirtyAt
  <2> QED
    BY <2>1, <2>2 DEF Written, Set, Way
<1>8. FastHitSound'
  BY DEF cache_flush, FastHitSound
<1> QED
  BY <1>4, <1>5, <1>6, <1>7, <1>8 DEF Agree

\* The clock changes waiting times only.
LEMMA TickKeeps == ASSUME Agree, Tick PROVE Agree'
<1>1. ASSUME NEW s \in Set, NEW w \in Way
      PROVE  /\ blk'[s][w] \in Blk /\ blk'[s][w].tag = blk[s][w].tag
             /\ (blk'[s][w].valid <=> blk[s][w].valid) /\ (blk'[s][w].dirty <=> blk[s][w].dirty)
  <2> DEFINE m == Larger(blk[s][w].ready - 1, 0)
  <2>1. blk[s][w] \in Blk /\ blk'[s][w] = [blk[s][w] EXCEPT !.ready = m]
    BY DEF Agree, Shape, Tick
  <2>2. m \in Nat
    BY <2>1 DEF Larger, Blk
  <2> HIDE DEF m
  <2>3. blk'[s][w] \in Blk
    BY <2>1, <2>2 DEF Blk
  <2>4. blk'[s][w].tag = blk[s][w].tag
    BY <2>1 DEF Blk
  <2>5. blk'[s][w].valid = blk[s][w].valid
    BY <2>1 DEF Blk
  <2>6. blk'[s][w].dirty = blk[s][w].dirty
    BY <2>1 DEF Blk
  <2> QED
    BY <2>3, <2>4, <2>5, <2>6, Zenon
<1>2. Shape'
  <2>1. blk' \in [Set -> [Way -> Blk]]
    BY <1>1 DEF Tick
  <2>2. bus_free' \in Nat
    BY DEF Agree, Shape, Tick, Larger
  <2> QED
    BY <2>1, <2>2 DEF Agree, Shape, Tick, Set, Way, Bucket, NULL, Blk
<1>3. Unique'
  BY <1>1 DEF Agree, Unique, Set, Way
<1>4. Hashed'
  BY <1>1 DEF Agree, Hashed, Tick, Set, Way, Bucket, CACHE_HASH
<1>5. Written'
  <2>1. \A a : \A s \in Set, w \in Way : DirtyAt(s, w, a)' <=> DirtyAt(s, w, a)
    BY <1>1 DEF DirtyAt, CACHE_MK_BADDR
  <2> QED
    BY <2>1 DEF Agree, Written, Tick, Set, Way
<1>6. FastHitSound'
  <2>1. last_blk # NULL => last_blk[1] \in Set /\ last_blk[2] \in Way
    BY DEF Agree, Shape
  <2> QED
    BY <1>1, <2>1 DEF Agree, FastHitSound, Tick, Holds, NULL, CACHE_MK_BADDR
<1> QED
  BY <1>2, <1>3, <1>4, <1>5, <1>6 DEF Agree

LEMMA AgreeInit == ASSUME 0 \notin Block, Init PROVE Agree
<1> DEFINE d == FALSE
           n == [tag |-> 0, valid |-> d, dirty |-> d, ready |-> 0]
<1>1. d \in BOOLEAN /\ ~d
  OBVIOUS
<1>2. blk = [s \in Set |-> [w \in Way |-> n]]
  BY DEF Init
<1> HIDE DEF d
<1>3. n \in Blk /\ n.tag = 0 /\ ~n.valid
  BY <1>1 DEF Blk
<1> HIDE DEF n
<1>4. \A s \in Set, w \in Way : blk[s][w].tag = 0 /\ ~blk[s][w].valid
  BY <1>2, <1>3
<1>5. Shape
  <2>1. blk \in [Set -> [Way -> Blk]]
    BY <1>2, <1>3
  <2>2. hash \in [Set -> [Bucket -> SUBSET Way]]
    BY DEF Init
  <2> QED
    BY <2>1, <2>2 DEF Init, Shape
<1>6. Unique
  BY <1>4 DEF Unique
<1>7. Hashed
  <2>1. hsize > 0 => CACHE_HASH(0) = 0
    BY GeometryAssumption DEF CACHE_HASH
  <2> QED
    BY <1>4, <2>1 DEF Init, Hashed
<1>8. Written
  BY <1>4 DEF Init, Written, DirtyAt
<1>9. FastHitSound
  BY DEF Init, FastHitSound
<1> QED
  BY <1>5, <1>6, <1>7, <1>8, <1>9 DEF Agree

LEMMA AgreeStep == ASSUME 0 \notin Block, Agree, [Next]_vars PROVE Agree'
<1>1. ASSUME NEW cmd \in Cmd, NEW b \in Block, FastHit(cmd, b) PROVE Agree'
  <2>1. last_blk # NULL /\ Holds(last_blk[1], last_blk[2], b)
    BY <1>1 DEF FastHit, Agree, FastHitSound
  <2>2. last_blk[1] \in Set /\ last_blk[2] \in Way
    BY <2>1 DEF Agree, Shape
  <2>3. last_blk[2] \in Found(b)
    BY <2>1, <2>2, HoldsPlace, FoundHolds DEF Agree
  <2> QED
    BY <1>1, <2>3, TouchKeeps DEF FastHit
<1>2. ASSUME NEW cmd \in Cmd, NEW b \in Block, Hit(cmd, b) PROVE Agree'
  BY <1>2, TouchKeeps DEF Hit
<1>3. ASSUME NEW cmd \in Cmd, NEW b \in Block, NEW w \in Way, NEW r \in ReadLat,
             NEW y \in WriteLat, Miss(cmd, b, w, r, y) PROVE Agree'
  BY <1>3, MissKeeps
<1>4. CASE cache_flush
  BY <1>4, FlushKeeps
<1>5. ASSUME NEW b \in Block, cache_flush_addr(b) PROVE Agree'
  BY <1>5, FlushAddrKeeps
<1>6. CASE Tick
  BY <1>6, TickKeeps
<1>7. CASE UNCHANGED vars
  BY <1>7 DEF vars, Agree, Shape, Unique, Hashed, Written, DirtyAt, FastHitSound, Holds,
              Set, Way, Bucket, Blk, NULL, CACHE_HASH, CACHE_MK_BADDR
<1> QED
  BY <1>1, <1>2, <1>3, <1>4, <1>5, <1>6, <1>7 DEF Next

\* The three promises of a cache whose program does not touch block 0, for
\* every geometry, replacement policy and latency: cache_access() searches
\* exactly, its shortcut leads to the block asked for, and no write is lost
\* by replacement or flushes.  CACHE_TAGSET is zero both for block 0 and for
\* a forgotten shortcut, hence the hypothesis.
THEOREM CacheCorrect ==
  ASSUME 0 \notin Block
  PROVE  Spec => [](LookupExact /\ FastHitSound /\ WritesKept)
<1>1. Init => Agree
  BY AgreeInit
<1>2. Agree /\ [Next]_vars => Agree'
  BY AgreeStep
<1>3. Agree => LookupExact /\ FastHitSound /\ WritesKept
  <2>1. ASSUME Agree PROVE LookupExact
    BY <2>1 DEF Agree, Unique, Hashed, LookupExact
  <2>2. ASSUME Agree PROVE WritesKept
    <3>1. \A a : a \in newer <=> a \in DirtyBlocks
      BY <2>2, DirtyOneByOne DEF Agree, Written
    <3> QED
      BY <3>1 DEF WritesKept
  <2> QED
    BY <2>1, <2>2 DEF Agree
<1> QED
  BY <1>1, <1>2, <1>3, PTL DEF Spec
=============================================================================
