---------------------------- MODULE HeapProofs -----------------------------
(***************************************************************************)
(* The arena of the AIV heap stays well formed, a call touches no block    *)
(* but its client's, and the accounts match the blocks, for every arena,   *)
(* every alignment, any sizes and any sequence of allocations, frees and   *)
(* resizes, of the memory heap alone or below a hybrid one.                *)
(*                                                                         *)
(* Three facts are kept about the blocks: they tile the region (Tiled), no *)
(* two free ones touch (Apart), and the chain lists the free ones (Lists). *)
(* Tiles are cut in two (Cut), joined with their right neighbour (Joined)  *)
(* or relabelled; each operation of AivHeap is made of these.              *)
(***************************************************************************)
EXTENDS Heap, Sums, SequenceTheorems

-----------------------------------------------------------------------------
(* The chain of the free blocks.                                           *)

Lists(c, set) == c \in Seq(Nat) /\ IsInjective(c) /\ ToSet(c) = set

LEMMA RemoveAtProperties ==
    ASSUME NEW S, NEW s \in Seq(S), NEW i \in 1 .. Len(s)
    PROVE  /\ RemoveAt(s, i) \in Seq(S) /\ Len(RemoveAt(s, i)) = Len(s) - 1
           /\ \A j \in 1 .. Len(s) - 1 : RemoveAt(s, i)[j] = IF j < i THEN s[j] ELSE s[j + 1]
<1> DEFINE a == SubSeq(s, 1, i - 1)
           b == SubSeq(s, i + 1, Len(s))
<1>1. Len(s) \in Nat /\ \A j \in 1 .. Len(s) : s[j] \in S
  BY LenProperties, ElementOfSeq
<1>2. /\ a \in Seq(S) /\ Len(a) = i - 1
      /\ \A j \in 1 .. i - 1 : a[j] = s[j]
  <2>1. i - 1 \in Int /\ \A j \in 1 .. i - 1 : s[j] \in S
    BY <1>1
  <2>2. /\ a \in Seq(S) /\ Len(a) = IF 1 <= i - 1 THEN i - 1 - 1 + 1 ELSE 0
        /\ \A j \in 1 .. i - 1 - 1 + 1 : a[j] = s[1 + j - 1]
    BY <2>1, SubSeqProperties
  <2> HIDE DEF a
  <2>3. Len(a) = i - 1
    BY <2>2
  <2>4. \A j \in 1 .. i - 1 : a[j] = s[j]
    BY <2>2
  <2> QED BY <2>2, <2>3, <2>4
<1>3. /\ b \in Seq(S) /\ Len(b) = Len(s) - i
      /\ \A j \in 1 .. Len(s) - i : b[j] = s[i + j]
  <2>1. i + 1 \in Int /\ Len(s) \in Int /\ \A j \in i + 1 .. Len(s) : s[j] \in S
    BY <1>1
  <2>2. /\ b \in Seq(S) /\ Len(b) = IF i + 1 <= Len(s) THEN Len(s) - (i + 1) + 1 ELSE 0
        /\ \A j \in 1 .. Len(s) - (i + 1) + 1 : b[j] = s[i + 1 + j - 1]
    BY <2>1, SubSeqProperties
  <2> HIDE DEF b
  <2>3. Len(b) = Len(s) - i
    BY <1>1, <2>2
  <2>4. \A j \in 1 .. Len(s) - i : b[j] = s[i + j]
    <3> TAKE j \in 1 .. Len(s) - i
    <3>1. j \in 1 .. Len(s) - (i + 1) + 1 /\ i + 1 + j - 1 = i + j
      BY <1>1
    <3> QED BY <2>2, <3>1
  <2> QED BY <2>2, <2>3, <2>4
<1>4. RemoveAt(s, i) = a \o b
  BY DEF RemoveAt
<1> HIDE DEF a, b
<1>5. /\ a \o b \in Seq(S) /\ Len(a \o b) = Len(a) + Len(b)
      /\ \A j \in 1 .. Len(a) + Len(b) : (a \o b)[j] = IF j <= Len(a) THEN a[j] ELSE b[j - Len(a)]
  BY <1>2, <1>3, ConcatProperties
<1>6. ASSUME NEW j \in 1 .. Len(s) - 1
      PROVE  (a \o b)[j] = IF j < i THEN s[j] ELSE s[j + 1]
  <2>1. j \in 1 .. Len(a) + Len(b) /\ (j <= Len(a) <=> j < i)
    BY <1>1, <1>2, <1>3
  <2>2. CASE j < i
    BY <1>2, <1>5, <2>1, <2>2
  <2>3. CASE ~(j < i)
    <3>1. j - Len(a) \in 1 .. Len(s) - i /\ i + (j - Len(a)) = j + 1
      BY <1>1, <1>2, <2>3
    <3> QED BY <1>3, <1>5, <2>1, <2>3, <3>1
  <2> QED BY <2>2, <2>3
<1> QED BY <1>1, <1>2, <1>3, <1>4, <1>5, <1>6

LEMMA Unchaining ==
    ASSUME NEW c, NEW set, Lists(c, set), NEW o \in set
    PROVE  Lists(Unchain(c, o), set \ {o})
<1> DEFINE i == CHOOSE i \in DOMAIN c : c[i] = o
           d == RemoveAt(c, i)
<1>1. DOMAIN c = 1 .. Len(c) /\ Len(c) \in Nat /\ c \in Seq(Nat)
  BY LenProperties DEF Lists
<1>2. i \in 1 .. Len(c) /\ c[i] = o
  BY <1>1 DEF Lists, ToSet
<1>3. d = Unchain(c, o)
  BY DEF Unchain
<1> HIDE DEF i
<1>4. /\ d \in Seq(Nat) /\ Len(d) = Len(c) - 1
      /\ \A j \in 1 .. Len(c) - 1 : d[j] = IF j < i THEN c[j] ELSE c[j + 1]
  BY <1>1, <1>2, RemoveAtProperties
<1> HIDE DEF d
<1>5. DOMAIN d = 1 .. Len(c) - 1
  BY <1>4, LenProperties
<1> DEFINE Was(j) == IF j < i THEN j ELSE j + 1
<1>11. \A j \in 1 .. Len(c) - 1 : Was(j) \in 1 .. Len(c) /\ Was(j) # i /\ d[j] = c[Was(j)]
  <2> SUFFICES ASSUME NEW j \in 1 .. Len(c) - 1
               PROVE  Was(j) \in 1 .. Len(c) /\ Was(j) # i /\ d[j] = c[Was(j)]
    OBVIOUS
  <2>1. CASE j < i
    <3>1. Was(j) = j /\ d[j] = c[j]
      BY <1>4, <2>1
    <3> QED BY <1>1, <1>2, <2>1, <3>1
  <2>2. CASE ~(j < i)
    <3>1. Was(j) = j + 1 /\ d[j] = c[j + 1]
      BY <1>4, <2>2
    <3> QED BY <1>1, <1>2, <2>2, <3>1
  <2> QED BY <2>1, <2>2
<1>6. \A j, k \in 1 .. Len(c) : c[j] = c[k] => j = k
  BY <1>1 DEF Lists, IsInjective
<1>7. IsInjective(d)
  <2> SUFFICES ASSUME NEW j \in 1 .. Len(c) - 1, NEW k \in 1 .. Len(c) - 1, d[j] = d[k] PROVE j = k
    BY <1>5 DEF IsInjective
  <2>1. Was(j) = Was(k)
    BY <1>6, <1>11
  <2> QED BY <1>1, <1>2, <2>1
<1>8. ASSUME NEW x \in ToSet(d) PROVE x \in set \ {o}
  <2>1. PICK j \in 1 .. Len(c) - 1 : x = d[j]
    BY <1>5 DEF ToSet
  <2>2. Was(j) \in 1 .. Len(c) /\ Was(j) # i /\ x = c[Was(j)]
    BY <1>11, <2>1
  <2> HIDE DEF Was
  <2> QED BY <1>1, <1>2, <1>6, <2>2 DEF Lists, ToSet
<1>9. ASSUME NEW x \in set \ {o} PROVE x \in ToSet(d)
  <2>1. PICK j \in 1 .. Len(c) : x = c[j]
    BY <1>1 DEF Lists, ToSet
  <2>2. j # i
    BY <1>2, <2>1
  <2> DEFINE J == IF j < i THEN j ELSE j - 1
  <2>3. J \in 1 .. Len(c) - 1 /\ d[J] = c[j]
    BY <1>1, <1>2, <1>4, <2>2, SMTT(20)
  <2> QED BY <1>5, <2>1, <2>3 DEF ToSet
<1>10. ToSet(d) = set \ {o}
  BY <1>8, <1>9
<1> QED BY <1>3, <1>4, <1>7, <1>10 DEF Lists

LEMMA Replacing ==
    ASSUME NEW c, NEW set, Lists(c, set), NEW o \in set, NEW n \in Nat, n \notin set
    PROVE  Lists(ReplaceAll(c, o, n), (set \ {o}) \cup {n})
<1> DEFINE d == ReplaceAll(c, o, n)
<1>1. DOMAIN c = 1 .. Len(c) /\ Len(c) \in Nat /\ \A i \in 1 .. Len(c) : c[i] \in Nat
  BY LenProperties, ElementOfSeq DEF Lists
<1>2. DOMAIN d = 1 .. Len(c) /\ \A i \in 1 .. Len(c) : d[i] = IF c[i] = o THEN n ELSE c[i]
  BY DEF ReplaceAll
<1>3. d \in Seq(Nat)
  <2>1. d \in [1 .. Len(c) -> Nat]
    BY <1>1 DEF ReplaceAll
  <2> QED BY <1>1, <2>1, SeqDef
<1> HIDE DEF d
<1>4. \A j, k \in 1 .. Len(c) : c[j] = c[k] => j = k
  BY <1>1 DEF Lists, IsInjective
<1>5. set = {c[i] : i \in 1 .. Len(c)}
  BY <1>1 DEF Lists, ToSet
<1>6. IsInjective(d)
  <2> SUFFICES ASSUME NEW j \in 1 .. Len(c), NEW k \in 1 .. Len(c), d[j] = d[k] PROVE j = k
    BY <1>2 DEF IsInjective
  <2>1. c[j] # n /\ c[k] # n
    BY <1>5
  <2>2. c[j] = c[k]
    BY <1>2, <2>1
  <2> QED BY <1>4, <2>2
<1>7. ASSUME NEW x \in ToSet(d) PROVE x \in (set \ {o}) \cup {n}
  BY <1>2, <1>5 DEF ToSet
<1>8. ASSUME NEW x \in (set \ {o}) \cup {n} PROVE x \in ToSet(d)
  <2>1. \A i \in 1 .. Len(c) : d[i] \in ToSet(d)
    BY <1>2 DEF ToSet
  <2>2. CASE x = n
    <3>1. PICK i \in 1 .. Len(c) : c[i] = o
      BY <1>5
    <3> QED BY <1>2, <2>1, <2>2, <3>1
  <2>3. CASE x \in set \ {o}
    <3>1. PICK i \in 1 .. Len(c) : c[i] = x
      BY <1>5, <2>3
    <3> QED BY <1>2, <2>1, <2>3, <3>1
  <2> QED BY <2>2, <2>3
<1>9. ToSet(d) = (set \ {o}) \cup {n}
  BY <1>7, <1>8
<1> QED BY <1>3, <1>6, <1>9 DEF Lists, d

LEMMA Chaining ==
    ASSUME NEW c, NEW set, Lists(c, set), NEW n \in Nat, n \notin set
    PROVE  Lists(Cons(n, c), set \cup {n})
<1> DEFINE d == Cons(n, c)
<1>1. DOMAIN c = 1 .. Len(c) /\ Len(c) \in Nat /\ c \in Seq(Nat)
  BY LenProperties DEF Lists
<1>2. <<n>> \in Seq(Nat) /\ Len(<<n>>) = 1 /\ <<n>>[1] = n
  OBVIOUS
<1>3. /\ d \in Seq(Nat) /\ Len(d) = 1 + Len(c)
      /\ \A i \in 1 .. 1 + Len(c) : d[i] = IF i <= 1 THEN <<n>>[i] ELSE c[i - 1]
  BY <1>1, <1>2, ConcatProperties DEF Cons
<1> HIDE DEF d
<1>4. DOMAIN d = 1 .. 1 + Len(c)
  BY <1>3, LenProperties
<1>12. 1 \in 1 .. 1 + Len(c)
  BY <1>1
<1>5. d[1] = n /\ \A i \in 1 .. Len(c) : i + 1 \in 1 .. 1 + Len(c) /\ d[i + 1] = c[i]
  <2>1. d[1] = n
    BY <1>2, <1>3, <1>12
  <2>2. \A i \in 1 .. Len(c) : i + 1 \in 1 .. 1 + Len(c) /\ ~(i + 1 <= 1) /\ i + 1 - 1 = i
    BY <1>1
  <2> QED BY <1>3, <2>1, <2>2
<1>6. \A i \in 2 .. 1 + Len(c) : i - 1 \in 1 .. Len(c) /\ d[i] = c[i - 1]
  BY <1>1, <1>3
<1>7. set = {c[i] : i \in 1 .. Len(c)}
  BY <1>1 DEF Lists, ToSet
<1>8. IsInjective(d)
  <2> SUFFICES ASSUME NEW j \in 1 .. 1 + Len(c), NEW k \in 1 .. 1 + Len(c), d[j] = d[k] PROVE j = k
    BY <1>4 DEF IsInjective
  <2>1. \A i \in 2 .. 1 + Len(c) : d[i] # n
    BY <1>6, <1>7
  <2>2. CASE j = 1
    BY <1>1, <1>5, <2>1, <2>2
  <2>3. CASE k = 1
    BY <1>1, <1>5, <2>1, <2>3
  <2>4. CASE j # 1 /\ k # 1
    <3>1. j \in 2 .. 1 + Len(c) /\ k \in 2 .. 1 + Len(c)
      BY <1>1, <2>4
    <3>2. c[j - 1] = c[k - 1] /\ j - 1 \in DOMAIN c /\ k - 1 \in DOMAIN c
      BY <1>1, <1>6, <3>1
    <3>3. j - 1 = k - 1
      BY <3>2 DEF Lists, IsInjective
    <3> QED BY <1>1, <3>3
  <2> QED BY <2>2, <2>3, <2>4
<1>9. ASSUME NEW x \in ToSet(d) PROVE x \in set \cup {n}
  <2>1. PICK i \in 1 .. 1 + Len(c) : x = d[i]
    BY <1>4 DEF ToSet
  <2>2. i = 1 \/ i \in 2 .. 1 + Len(c)
    BY <1>1
  <2> QED BY <1>5, <1>6, <1>7, <2>1, <2>2
<1>10. ASSUME NEW x \in set \cup {n} PROVE x \in ToSet(d)
  <2>1. \A i \in 1 .. 1 + Len(c) : d[i] \in ToSet(d)
    BY <1>4 DEF ToSet
  <2>2. 1 \in 1 .. 1 + Len(c)
    BY <1>1
  <2> QED BY <1>5, <1>7, <2>1, <2>2
<1>11. ToSet(d) = set \cup {n}
  BY <1>9, <1>10
<1> QED BY <1>3, <1>8, <1>11 DEF Lists, d
-----------------------------------------------------------------------------
(* Tiles: a set of offsets D, each with its end e.                         *)

Tiles(D, e, limit) ==
    /\ D \subseteq Nat /\ 0 \in D
    /\ \A p \in D : e[p] \in Nat /\ p < e[p] /\ e[p] <= limit
    /\ \A p \in D : e[p] = limit \/ e[p] \in D
    /\ \A p \in D : p = 0 \/ \E l \in D : e[l] = p
    /\ \A p, q \in D : p < q => e[p] <= q

LEMMA Neighbours ==
    ASSUME NEW limit \in Nat, NEW D, NEW e, Tiles(D, e, limit),
           NEW p \in D, NEW q \in D, e[p] = e[q]
    PROVE  p = q
BY DEF Tiles

LEMMA CutTiles ==
    ASSUME NEW limit \in Nat, NEW D, NEW e, Tiles(D, e, limit),
           NEW o \in D, NEW n \in Nat, o < n, n < e[o], NEW f,
           f[o] = n, f[n] = e[o], \A p \in D \ {o} : f[p] = e[p]
    PROVE  n \notin D /\ Tiles(D \cup {n}, f, limit)
<1>1. n \notin D
  BY DEF Tiles
<1>2. \A p \in D \ {o} : f[p] = e[p] /\ p # n /\ p \in Nat
  BY <1>1 DEF Tiles
<1>3. /\ D \cup {n} \subseteq Nat /\ 0 \in D \cup {n}
      /\ \A p \in D \cup {n} : f[p] \in Nat /\ p < f[p] /\ f[p] <= limit
  BY <1>2 DEF Tiles
<1>4. \A p \in D \cup {n} : f[p] = limit \/ f[p] \in D \cup {n}
  BY <1>2 DEF Tiles
<1>5. ASSUME NEW p \in D \cup {n} PROVE p = 0 \/ \E l \in D \cup {n} : f[l] = p
  <2>1. CASE p = n
    BY <2>1
  <2>2. CASE p \in D /\ p # 0
    <3>1. PICK l \in D : e[l] = p
      BY <2>2 DEF Tiles
    <3>2. CASE l = o
      BY <3>1, <3>2
    <3>3. CASE l # o
      BY <1>2, <3>1, <3>3
    <3> QED BY <3>2, <3>3
  <2> QED BY <2>1, <2>2
<1>6. ASSUME NEW p \in D \cup {n}, NEW q \in D \cup {n}, p < q PROVE f[p] <= q
  <2>1. CASE p \in D \ {o} /\ q \in D
    BY <1>2, <1>6, <2>1 DEF Tiles
  <2>2. CASE p \in D \ {o} /\ q = n
    BY <1>2, <1>6, <2>2 DEF Tiles
  <2>3. CASE p = o
    BY <1>1, <1>2, <1>6, <2>3 DEF Tiles
  <2>4. CASE p = n
    BY <1>1, <1>2, <1>6, <2>4 DEF Tiles
  <2> QED BY <2>1, <2>2, <2>3, <2>4
<1> QED BY <1>1, <1>3, <1>4, <1>5, <1>6 DEF Tiles

LEMMA JoinTiles ==
    ASSUME NEW limit \in Nat, NEW D, NEW e, Tiles(D, e, limit),
           NEW l \in D, NEW r \in D, e[l] = r, NEW f,
           f[l] = e[r], \A p \in D \ {l, r} : f[p] = e[p]
    PROVE  l # r /\ Tiles(D \ {r}, f, limit)
<1>1. l < r /\ r # 0 /\ l \in Nat /\ r \in Nat
  BY DEF Tiles
<1>2. \A p \in D : e[p] = r => p = l
  BY Neighbours
<1>3. \A p \in D \ {l, r} : f[p] = e[p] /\ p \in Nat /\ f[p] # r
  BY <1>2 DEF Tiles
<1>4. /\ D \ {r} \subseteq Nat /\ 0 \in D \ {r}
      /\ \A p \in D \ {r} : f[p] \in Nat /\ p < f[p] /\ f[p] <= limit
  BY <1>1, <1>3 DEF Tiles
<1>5. \A p \in D \ {r} : f[p] = limit \/ f[p] \in D \ {r}
  BY <1>1, <1>3 DEF Tiles
<1>6. ASSUME NEW p \in D \ {r} PROVE p = 0 \/ \E k \in D \ {r} : f[k] = p
  <2>1. CASE p # 0
    <3>1. PICK k \in D : e[k] = p
      BY <2>1 DEF Tiles
    <3>2. CASE k = r
      BY <1>1, <3>1, <3>2
    <3>3. CASE k # r
      <4>1. k # l
        BY <3>1
      <4> QED BY <1>3, <3>1, <3>3, <4>1
    <3> QED BY <3>2, <3>3
  <2> QED BY <2>1
<1>7. ASSUME NEW p \in D \ {r}, NEW q \in D \ {r}, p < q PROVE f[p] <= q
  <2>1. CASE p = l
    BY <1>1, <1>7, <2>1 DEF Tiles
  <2>2. CASE p # l
    BY <1>3, <1>7, <2>2 DEF Tiles
  <2> QED BY <2>1, <2>2
<1> QED BY <1>1, <1>4, <1>5, <1>6, <1>7 DEF Tiles
-----------------------------------------------------------------------------
(* Blocks.                                                                 *)

BlockType == [size : Nat \ {0}, alloc : Nat, free : BOOLEAN]
Ends(B) == [p \in DOMAIN B |-> p + Header + B[p].size + Footer]
FreeOf(B) == {p \in DOMAIN B : B[p].free}
TakenOf(B) == DOMAIN B \ FreeOf(B)

Tiled(B, limit) == (\A p \in DOMAIN B : B[p] \in BlockType) /\ Tiles(DOMAIN B, Ends(B), limit)
Apart(B) == \A p, q \in FreeOf(B) : Ends(B)[p] # q

\* An operation on the block at o leaves the other allocated ones alone.
Spares(B, C, o) == \A p \in DOMAIN B \ {o} : ~B[p].free => p \in DOMAIN C /\ C[p] = B[p]

(* What a caller gets is what it asked for or more, by less than a unit of *)
(* alignment.                                                              *)
LEMMA PackedBounds ==
    ASSUME NEW size \in Nat
    PROVE  Packed(size) \in Nat /\ size <= Packed(size) /\ Packed(size) <= size + Alignment - 1
<1> DEFINE q == (size + Alignment - 1) \div Alignment
<1>1. Alignment \in Nat /\ Alignment > 0
  BY BlockAssumption
<1>2. size + Alignment - 1 \in Nat
  BY <1>1
<1>3. /\ q \in Int
      /\ size + Alignment - 1 = Alignment * q + ((size + Alignment - 1) % Alignment)
      /\ (size + Alignment - 1) % Alignment \in 0 .. Alignment - 1
  BY <1>1, <1>2
<1>4. Packed(size) = Alignment * q /\ Alignment * q \in Int
  BY <1>1, <1>3 DEF Packed
<1> HIDE DEF q
<1> QED BY <1>1, <1>3, <1>4

LEMMA EndsAre ==
    ASSUME NEW limit \in Nat, NEW B, Tiled(B, limit), NEW o \in DOMAIN B
    PROVE  /\ B[o] \in BlockType /\ o \in Nat /\ B[o].size \in Nat \ {0}
           /\ Ends(B)[o] = o + Header + B[o].size + Footer
           /\ Ends(B)[o] \in Nat
BY DEF Tiled, Tiles, Ends, BlockType

(* One block becomes two.                                                  *)
Cuts(B, o, b, rest, n) ==
    /\ o \in DOMAIN B /\ b \in BlockType /\ rest \in BlockType
    /\ n = o + Header + b.size + Footer
    /\ n + Header + rest.size + Footer = Ends(B)[o]

WasCut(B, C, o, b, rest, n) ==
    /\ n \in Nat /\ n \notin DOMAIN B /\ DOMAIN C = DOMAIN B \cup {n}
    /\ C[o] = b /\ C[n] = rest
    /\ \A p \in DOMAIN B \ {o} : C[p] = B[p] /\ Ends(C)[p] = Ends(B)[p]
    /\ Ends(C)[o] = n /\ Ends(C)[n] = Ends(B)[o]

LEMMA Cut ==
    ASSUME NEW limit \in Nat, NEW B, Tiled(B, limit), NEW o, NEW b, NEW rest, NEW n,
           Cuts(B, o, b, rest, n), NEW C, C = Put(Put(B, o, b), n, rest)
    PROVE  Tiled(C, limit) /\ WasCut(B, C, o, b, rest, n)
<1>11. o \in DOMAIN B /\ b \in BlockType /\ rest \in BlockType
  BY DEF Cuts
<1>1. Header \in Nat \ {0} /\ Footer \in Nat \ {0} /\ b.size \in Nat \ {0} /\ rest.size \in Nat \ {0}
  BY <1>11, BlockAssumption DEF BlockType
<1>2. n \in Nat /\ o < n /\ n < Ends(B)[o]
  <2>1. o \in Nat /\ Ends(B)[o] \in Nat
    BY <1>11, EndsAre
  <2> QED BY <1>1, <2>1 DEF Cuts
<1> DEFINE P == Put(B, o, b)
<1>3. DOMAIN P = DOMAIN B /\ P[o] = b /\ \A p \in DOMAIN B \ {o} : P[p] = B[p]
  BY <1>11 DEF Put
<1> HIDE DEF P
<1>4. DOMAIN C = DOMAIN B \cup {n} /\ C[n] = rest /\ \A p \in DOMAIN B \ {n} : C[p] = P[p]
  <2>1. C = Put(P, n, rest)
    BY DEF P
  <2> QED BY <1>3, <2>1 DEF Put
<1>5. Tiles(DOMAIN B, Ends(B), limit)
  BY DEF Tiled
<1>6. n \notin DOMAIN B
  BY <1>2, <1>5, <1>11 DEF Tiles
<1>7. C[o] = b /\ \A p \in DOMAIN B \ {o} : C[p] = B[p]
  BY <1>3, <1>4, <1>6, <1>11
<1>8. /\ Ends(C)[o] = n /\ Ends(C)[n] = Ends(B)[o]
      /\ \A p \in DOMAIN B \ {o} : Ends(C)[p] = Ends(B)[p]
  <2>1. DOMAIN C = DOMAIN B \cup {n} /\ C[o] = b /\ C[n] = rest /\ o \in DOMAIN B
    BY <1>4, <1>7, <1>11
  <2>2. Ends(C)[o] = o + Header + b.size + Footer /\ Ends(C)[n] = n + Header + rest.size + Footer
    BY <2>1 DEF Ends
  <2>3. \A p \in DOMAIN B \ {o} : Ends(C)[p] = Ends(B)[p]
    BY <1>7, <2>1 DEF Ends
  <2> QED BY <2>2, <2>3 DEF Cuts
<1>9. Tiles(DOMAIN C, Ends(C), limit)
  BY <1>2, <1>4, <1>5, <1>8, <1>11, CutTiles
<1>10. \A p \in DOMAIN C : C[p] \in BlockType
  BY <1>4, <1>7, <1>11 DEF Tiled
<1> QED BY <1>2, <1>4, <1>6, <1>7, <1>8, <1>9, <1>10 DEF Tiled, WasCut

(* A block changes its label and keeps its size.                           *)
LEMMA Relabel ==
    ASSUME NEW limit \in Nat, NEW B, Tiled(B, limit), NEW o \in DOMAIN B,
           NEW b \in BlockType, b.size = B[o].size, NEW C, C = [B EXCEPT ![o] = b]
    PROVE  /\ Tiled(C, limit) /\ DOMAIN C = DOMAIN B /\ C[o] = b
           /\ \A p \in DOMAIN B \ {o} : C[p] = B[p]
           /\ Ends(C) = Ends(B)
<1>1. DOMAIN C = DOMAIN B /\ C[o] = b /\ \A p \in DOMAIN B \ {o} : C[p] = B[p]
  OBVIOUS
<1>2. \A p \in DOMAIN B : C[p].size = B[p].size /\ C[p] \in BlockType
  BY <1>1 DEF Tiled
<1>3. Ends(C) = Ends(B)
  BY <1>1, <1>2 DEF Ends
<1> QED BY <1>1, <1>2, <1>3 DEF Tiled
-----------------------------------------------------------------------------
(* The arena and its operations.                                           *)

IsArena(a) == a = [blocks |-> a.blocks, chain |-> a.chain]
Arena(a, limit) ==
    /\ IsArena(a) /\ Tiled(a.blocks, limit)
    /\ Apart(a.blocks) /\ Lists(a.chain, FreeOf(a.blocks))

LEMMA ArenaWell ==
    ASSUME NEW limit \in Nat, NEW a, Arena(a, limit)
    PROVE  WellFormedArena(a, limit)
<1> DEFINE B == a.blocks
<1>1. \A o \in DOMAIN B : EndOf(a, o) = Ends(B)[o] /\ B[o].size > 0
  BY EndsAre DEF Arena, EndOf, Ends
<1>2. /\ 0 \in DOMAIN B
      /\ \A o \in DOMAIN B : Ends(B)[o] = limit \/ Ends(B)[o] \in DOMAIN B
      /\ \A o \in DOMAIN B : o = 0 \/ \E l \in DOMAIN B : Ends(B)[l] = o
      /\ \A o, p \in DOMAIN B : o < p => Ends(B)[o] <= p
  BY DEF Arena, Tiled, Tiles
<1>3. \A o, p \in DOMAIN B : B[o].free /\ B[p].free => Ends(B)[o] # p
  BY DEF Arena, Apart, FreeOf
<1>4. ToSet(a.chain) = FreeIn(a) /\ IsInjective(a.chain)
  BY DEF Arena, Lists, FreeOf, FreeIn, Offsets
<1> HIDE DEF B
<1>5. DOMAIN B = Offsets(a) /\ B = a.blocks
  BY DEF B, Offsets
<1>6. \A o \in Offsets(a) : o = 0 \/ LeftOf(a, o) # {}
  BY <1>1, <1>2, <1>5 DEF LeftOf
<1>7. \A o \in Offsets(a) : a.blocks[o].free => \A r \in RightOf(a, o) : ~a.blocks[r].free
  BY <1>1, <1>3, <1>5 DEF RightOf
<1> QED BY <1>1, <1>2, <1>4, <1>5, <1>6, <1>7 DEF WellFormedArena

LEMMA Single == ASSUME NEW o \in Nat PROVE Lists(<<o>>, {o})
<1>1. <<o>> \in Seq(Nat) /\ DOMAIN <<o>> = {1} /\ <<o>>[1] = o
  OBVIOUS
<1> QED BY <1>1 DEF Lists, IsInjective, ToSet

\* C is B after the block r has become part of its left neighbour l.
Joined(B, C, l, r) ==
    /\ l # r /\ DOMAIN C = DOMAIN B \ {r}
    /\ C[l].free = B[l].free /\ C[l].alloc = B[l].alloc
    /\ C[l].size = B[l].size + B[r].size + Header + Footer
    /\ Ends(C)[l] = Ends(B)[r]
    /\ \A p \in DOMAIN B \ {l, r} : C[p] = B[p] /\ Ends(C)[p] = Ends(B)[p]

LEMMA Merging ==
    ASSUME NEW limit \in Nat, NEW a, IsArena(a), Tiled(a.blocks, limit),
           NEW l \in DOMAIN a.blocks, NEW r \in DOMAIN a.blocks, Ends(a.blocks)[l] = r,
           NEW m, m = Merge(a, l, r)
    PROVE  /\ IsArena(m) /\ m.chain = a.chain /\ Tiled(m.blocks, limit)
           /\ Joined(a.blocks, m.blocks, l, r)
<1> DEFINE B == a.blocks
           b == [B[l] EXCEPT !.size = @ + B[r].size + Header + Footer]
           P == Put(B, l, b)
           C == m.blocks
<1>1. /\ B[l] \in BlockType /\ B[r].size \in Nat /\ Header \in Nat /\ Footer \in Nat
      /\ B[l].size \in Nat \ {0} /\ l \in Nat /\ r \in Nat
      /\ Ends(B)[l] = l + Header + B[l].size + Footer /\ Ends(B)[r] = r + Header + B[r].size + Footer
  <2>1. \A p \in DOMAIN B : /\ B[p] \in BlockType /\ p \in Nat /\ B[p].size \in Nat \ {0}
                            /\ Ends(B)[p] = p + Header + B[p].size + Footer
    BY EndsAre
  <2>2. l \in DOMAIN B /\ r \in DOMAIN B
    OBVIOUS
  <2> HIDE DEF B
  <2>3. /\ B[l] \in BlockType /\ l \in Nat /\ B[l].size \in Nat \ {0}
        /\ Ends(B)[l] = l + Header + B[l].size + Footer
    BY <2>1, <2>2, Zenon
  <2>4. /\ r \in Nat /\ B[r].size \in Nat \ {0} /\ Ends(B)[r] = r + Header + B[r].size + Footer
    BY <2>1, <2>2, Zenon
  <2> QED BY <2>3, <2>4, BlockAssumption
<1>2. /\ b \in BlockType /\ b.size = B[l].size + B[r].size + Header + Footer
      /\ b.free = B[l].free /\ b.alloc = B[l].alloc
  <2> DEFINE x == B[l]
             s == B[r].size
  <2>1. x \in BlockType /\ s \in Nat /\ Header \in Nat /\ Footer \in Nat
    BY <1>1
  <2> HIDE DEF x, s
  <2>2. x = [size |-> x.size, alloc |-> x.alloc, free |-> x.free] /\ x.size \in Nat \ {0}
        /\ x.alloc \in Nat /\ x.free \in BOOLEAN
    BY <2>1 DEF BlockType
  <2> DEFINE y == [x EXCEPT !.size = @ + s + Header + Footer]
  <2>3. y = [size |-> x.size + s + Header + Footer, alloc |-> x.alloc, free |-> x.free]
    BY <2>2
  <2>4. x.size + s + Header + Footer \in Nat \ {0}
    BY <2>1, <2>2
  <2>5. y \in BlockType /\ y.size = x.size + s + Header + Footer /\ y.free = x.free /\ y.alloc = x.alloc
    BY <2>2, <2>3, <2>4 DEF BlockType
  <2> QED BY <2>5 DEF x, s
<1>3. m = [blocks |-> Drop(P, r), chain |-> a.chain]
  BY DEF Merge, IsArena
<1>4. C = Drop(P, r) /\ m.chain = a.chain /\ IsArena(m)
  BY <1>3 DEF IsArena
<1>5. l \in DOMAIN B /\ r \in DOMAIN B /\ Ends(B)[l] = r
      /\ Tiles(DOMAIN B, Ends(B), limit) /\ \A p \in DOMAIN B : B[p] \in BlockType
  BY DEF Tiled
<1> HIDE DEF b, C, B
<1>6. DOMAIN P = DOMAIN B /\ P[l] = b /\ \A p \in DOMAIN B \ {l} : P[p] = B[p]
  BY <1>5 DEF Put
<1> HIDE DEF P
<1>7. DOMAIN C = DOMAIN B \ {r} /\ \A p \in DOMAIN B \ {r} : C[p] = P[p]
  BY <1>4, <1>6 DEF Drop
<1>8. l # r
  BY <1>5 DEF Tiles
<1>9. C[l] = b /\ \A p \in DOMAIN B \ {l, r} : C[p] = B[p]
  BY <1>5, <1>6, <1>7, <1>8
<1>10. Ends(C)[l] = l + Header + b.size + Footer /\ \A p \in DOMAIN B \ {l, r} : Ends(C)[p] = Ends(B)[p]
  BY <1>5, <1>7, <1>8, <1>9 DEF Ends
<1>11. Ends(C)[l] = Ends(B)[r]
  BY <1>1, <1>2, <1>5, <1>10
<1>12. Tiles(DOMAIN C, Ends(C), limit)
  BY <1>5, <1>7, <1>10, <1>11, JoinTiles
<1>13. \A p \in DOMAIN C : C[p] \in BlockType
  BY <1>2, <1>5, <1>7, <1>9
<1>14. Tiled(C, limit)
  BY <1>12, <1>13 DEF Tiled
<1>15. Joined(B, C, l, r)
  BY <1>2, <1>7, <1>8, <1>9, <1>10, <1>11 DEF Joined
<1> QED BY <1>4, <1>14, <1>15 DEF B, C

\* The block at o was taken, and is no longer; the others that are taken stay.
GivenBack(B, c, o, limit) ==
    /\ Arena(c, limit) /\ Spares(B, c.blocks, o)
    /\ TakenOf(c.blocks) = TakenOf(B) \ {o}

(* A block between allocated ones becomes free.                            *)
LEMMA Freeing ==
    ASSUME NEW limit \in Nat, NEW m, IsArena(m), Tiled(m.blocks, limit), Apart(m.blocks),
           NEW o \in DOMAIN m.blocks, ~m.blocks[o].free,
           \A p \in FreeOf(m.blocks) : Ends(m.blocks)[p] # o /\ Ends(m.blocks)[o] # p,
           NEW ch, Lists(ch, FreeOf(m.blocks) \cup {o}),
           NEW c, c = [blocks |-> [m.blocks EXCEPT ![o] = Block(m.blocks[o].size, 0, TRUE)], chain |-> ch]
    PROVE  GivenBack(m.blocks, c, o, limit)
<1> DEFINE B == m.blocks
           b == Block(B[o].size, 0, TRUE)
           C == [B EXCEPT ![o] = b]
<1>1. b \in BlockType /\ b.size = B[o].size /\ b.free
  BY EndsAre DEF Block, BlockType
<1>2. c.blocks = C /\ c.chain = ch /\ IsArena(c)
  BY DEF IsArena
<1> HIDE DEF b
<1>3. /\ Tiled(C, limit) /\ DOMAIN C = DOMAIN B /\ C[o] = b
      /\ \A p \in DOMAIN B \ {o} : C[p] = B[p]
      /\ Ends(C) = Ends(B)
  BY <1>1, Relabel
<1> HIDE DEF C
<1>4. FreeOf(C) = FreeOf(B) \cup {o}
  BY <1>1, <1>3 DEF FreeOf
<1>5. Ends(B)[o] # o
  BY DEF Tiled, Tiles
<1>6. Apart(C)
  BY <1>3, <1>4, <1>5 DEF Apart
<1>7. Spares(B, C, o)
  BY <1>3 DEF Spares
<1>8. TakenOf(C) = TakenOf(B) \ {o}
  BY <1>3, <1>4 DEF TakenOf
<1>9. Arena(c, limit)
  BY <1>2, <1>3, <1>4, <1>6 DEF Arena
<1> QED BY <1>2, <1>7, <1>8, <1>9 DEF GivenBack, B
(* A block takes in the free block to its right.                           *)
Takes(a, l, r, limit) ==
    /\ IsArena(a) /\ Tiled(a.blocks, limit) /\ Lists(a.chain, FreeOf(a.blocks))
    /\ l \in DOMAIN a.blocks /\ r \in FreeOf(a.blocks) /\ Ends(a.blocks)[l] = r
    /\ \A p, q \in FreeOf(a.blocks) : Ends(a.blocks)[p] = q => p = l

Took(a, m, l, r, limit) ==
    /\ IsArena(m) /\ Tiled(m.blocks, limit)
    /\ Lists(m.chain, FreeOf(m.blocks)) /\ Apart(m.blocks)
    /\ FreeOf(m.blocks) = FreeOf(a.blocks) \ {r}
    /\ Joined(a.blocks, m.blocks, l, r)

LEMMA TakingRight ==
    ASSUME NEW limit \in Nat, NEW a, NEW l, NEW r, Takes(a, l, r, limit),
           NEW m, m = [Merge(a, l, r) EXCEPT !.chain = Unchain(@, r)]
    PROVE  Took(a, m, l, r, limit)
<1> DEFINE B == a.blocks
           n == Merge(a, l, r)
           C == n.blocks
<1>1. /\ IsArena(a) /\ Tiled(a.blocks, limit) /\ l \in DOMAIN a.blocks /\ r \in DOMAIN a.blocks
      /\ Ends(a.blocks)[l] = r
  BY DEF Takes, FreeOf
<1>12. n = Merge(a, l, r)
  OBVIOUS
<1> HIDE DEF n
<1>2. IsArena(n) /\ n.chain = a.chain /\ Tiled(C, limit) /\ Joined(B, C, l, r)
  BY <1>1, <1>12, Merging
<1> USE DEF n
<1> HIDE DEF n
<1>3. m = [blocks |-> C, chain |-> Unchain(a.chain, r)]
  BY <1>2 DEF IsArena, n
<1> HIDE DEF C
<1>4. m.blocks = C /\ m.chain = Unchain(a.chain, r)
  BY <1>3
<1>9. IsArena(m)
  BY <1>3, <1>4 DEF IsArena
<1>5. /\ l \in DOMAIN B /\ r \in FreeOf(B) /\ Ends(B)[l] = r
      /\ \A p, q \in FreeOf(B) : Ends(B)[p] = q => p = l
      /\ Lists(a.chain, FreeOf(B))
  BY DEF Takes
<1> HIDE DEF B
<1>6. FreeOf(C) = FreeOf(B) \ {r}
  BY <1>2, <1>5 DEF FreeOf, Joined
<1>7. Lists(m.chain, FreeOf(C))
  BY <1>4, <1>5, <1>6, Unchaining
<1>8. Apart(C)
  <2> SUFFICES ASSUME NEW p \in FreeOf(C), NEW q \in FreeOf(C), Ends(C)[p] = q PROVE FALSE
    BY DEF Apart
  <2>1. p \in FreeOf(B) /\ q \in FreeOf(B) /\ p # r /\ p \in DOMAIN B
    BY <1>6 DEF FreeOf
  <2>2. CASE p = l
    <3>1. Ends(B)[r] = q /\ l # r
      BY <1>2, <2>2 DEF Joined
    <3> QED BY <1>5, <2>1, <3>1
  <2>3. CASE p # l
    <3>1. Ends(B)[p] = q
      BY <1>2, <2>1, <2>3 DEF Joined
    <3> QED BY <1>5, <2>1, <2>3, <3>1
  <2> QED BY <2>2, <2>3
<1> QED BY <1>2, <1>4, <1>6, <1>7, <1>8, <1>9 DEF B, Took

(* addFreeBlock.                                                           *)
LEMMA AddingFree ==
    ASSUME NEW limit \in Nat, NEW a, Arena(a, limit), NEW o \in DOMAIN a.blocks, ~a.blocks[o].free,
           NEW c, c = AddFreeBlock(a, o)
    PROVE  GivenBack(a.blocks, c, o, limit)
<1> DEFINE B == a.blocks
           left == {l \in LeftOf(a, o) : a.blocks[l].free}
<1>1. /\ IsArena(a) /\ Tiled(B, limit) /\ Apart(B) /\ Lists(a.chain, FreeOf(B))
      /\ o \in DOMAIN B /\ ~B[o].free /\ o \in Nat /\ o \notin FreeOf(B)
  BY DEF Arena, Tiled, Tiles, FreeOf
<1>2. left = {l \in FreeOf(B) : Ends(B)[l] = o}
  BY DEF LeftOf, FreeOf, Offsets, EndOf, Ends
<1>3. \A p, q \in FreeOf(B) : Ends(B)[p] # q
  BY <1>1 DEF Apart
<1>4. CASE a.chain = <<>>
  <2>1. c = [blocks |-> [B EXCEPT ![o] = Block(B[o].size, 0, TRUE)], chain |-> <<o>>]
    BY <1>1, <1>4 DEF AddFreeBlock, IsArena, Block
  <2>2. FreeOf(B) = {}
    BY <1>1, <1>4 DEF Lists, ToSet
  <2>3. Lists(<<o>>, FreeOf(B) \cup {o})
    BY <1>1, <2>2, Single
  <2> QED BY <1>1, <2>1, <2>2, <2>3, Freeing
<1>5. CASE a.chain # <<>> /\ left # {}
  <2> DEFINE l == CHOOSE l \in left : TRUE
             m == Merge(a, l, o)
             C == m.blocks
             right == {r \in RightOf(m, l) : m.blocks[r].free}
             r == CHOOSE r \in right : TRUE
             n == [Merge(m, l, r) EXCEPT !.chain = Unchain(@, r)]
  <2>1. l \in FreeOf(B) /\ l \in DOMAIN B /\ B[l].free /\ Ends(B)[l] = o
    BY <1>2, <1>5 DEF FreeOf
  <2>2. c = IF right = {} THEN m ELSE n
    BY <1>5 DEF AddFreeBlock
  <2> HIDE DEF l
  <2>11. m = Merge(a, l, o) /\ IsArena(a) /\ Tiled(B, limit)
    BY <1>1
  <2> HIDE DEF m
  <2>12. IsArena(m) /\ m.chain = a.chain /\ Tiled(C, limit) /\ Joined(B, C, l, o)
    BY <1>1, <2>1, <2>11, Merging
  <2>3. /\ IsArena(m) /\ m.chain = a.chain /\ Tiled(C, limit) /\ l # o
        /\ DOMAIN C = DOMAIN B \ {o} /\ C[l].free = B[l].free
        /\ Ends(C)[l] = Ends(B)[o]
        /\ \A p \in DOMAIN B \ {l, o} : C[p] = B[p] /\ Ends(C)[p] = Ends(B)[p]
    BY <2>12 DEF Joined
  <2>4. right = {q \in FreeOf(C) : Ends(C)[l] = q}
    <3>1. l \in DOMAIN C
      BY <2>1, <2>3
    <3> QED BY <3>1 DEF RightOf, FreeOf, Offsets, EndOf, Ends
  <2> HIDE DEF right
  <2>5. FreeOf(C) = FreeOf(B)
    <3> HIDE DEF B, C
    <3> QED BY <1>1, <2>1, <2>3 DEF FreeOf
  <2>6. \A p, q \in FreeOf(C) : Ends(C)[p] = q => p = l
    <3> HIDE DEF B, C
    <3>1. \A p \in FreeOf(C) : p \in DOMAIN B /\ p # o
      BY <1>1, <2>3 DEF FreeOf
    <3> QED BY <1>3, <2>3, <2>5, <3>1
  <2>7. Lists(m.chain, FreeOf(C))
    BY <1>1, <2>3, <2>5
  <2>8. Spares(B, C, o)
    <3> HIDE DEF B, C
    <3> QED BY <2>1, <2>3 DEF Spares
  <2>13. TakenOf(C) = TakenOf(B) \ {o}
    <3> HIDE DEF B, C
    <3> QED BY <2>3, <2>5 DEF TakenOf
  <2>9. CASE right = {}
    <3>1. Apart(C)
      <4> HIDE DEF B, C
      <4> QED BY <2>4, <2>6, <2>9 DEF Apart
    <3> QED BY <2>2, <2>3, <2>7, <2>8, <2>9, <2>13, <3>1 DEF Arena, GivenBack
  <2>10. CASE right # {}
    <3>1. r \in FreeOf(C) /\ Ends(C)[l] = r /\ l \in DOMAIN C
      BY <2>1, <2>3, <2>4, <2>10
    <3> HIDE DEF r
    <3>4. n = [Merge(m, l, r) EXCEPT !.chain = Unchain(@, r)]
      OBVIOUS
    <3> HIDE DEF n
    <3>6. Takes(m, l, r, limit)
      BY <2>3, <2>6, <2>7, <3>1 DEF Takes
    <3>7. Took(m, n, l, r, limit)
      BY <3>4, <3>6, TakingRight
    <3>5. /\ IsArena(n) /\ Tiled(n.blocks, limit) /\ Lists(n.chain, FreeOf(n.blocks)) /\ Apart(n.blocks)
          /\ FreeOf(n.blocks) = FreeOf(C) \ {r} /\ Joined(C, n.blocks, l, r)
      BY <3>7 DEF Took
    <3>2. /\ IsArena(n) /\ Tiled(n.blocks, limit) /\ Lists(n.chain, FreeOf(n.blocks)) /\ Apart(n.blocks)
          /\ DOMAIN n.blocks = DOMAIN C \ {r}
          /\ \A p \in DOMAIN C \ {l, r} : n.blocks[p] = C[p]
      BY <3>5 DEF Joined
    <3> DEFINE D == n.blocks
    <3>3. Spares(B, D, o)
      <4> HIDE DEF B, C, D
      <4>1. C[r].free /\ C[l].free
        BY <2>1, <2>3, <3>1 DEF FreeOf
      <4> QED BY <2>8, <3>2, <4>1 DEF Spares, D
    <3>8. TakenOf(D) = TakenOf(C)
      <4> HIDE DEF B, C
      <4> QED BY <3>1, <3>2, <3>5 DEF TakenOf, D
    <3> QED BY <2>2, <2>10, <2>13, <3>2, <3>3, <3>8 DEF Arena, GivenBack
  <2> QED BY <2>9, <2>10
<1>6. CASE a.chain # <<>> /\ left = {}
  <2> DEFINE right == {r \in RightOf(a, o) : a.blocks[r].free}
             r == CHOOSE r \in right : TRUE
             n == [Merge(a, o, r) EXCEPT !.chain = Unchain(@, r)]
             m == IF right = {} THEN a ELSE n
  <2>1. c = [m EXCEPT !.blocks[o] = Block(@.size, 0, TRUE), !.chain = Cons(o, @)]
    BY <1>6 DEF AddFreeBlock, Block
  <2>2. right = {q \in FreeOf(B) : Ends(B)[o] = q}
    BY <1>1 DEF RightOf, FreeOf, Offsets, EndOf, Ends
  <2> HIDE DEF right
  <2>3. CASE right = {}
    <3>1. c = [blocks |-> [B EXCEPT ![o] = Block(B[o].size, 0, TRUE)], chain |-> Cons(o, a.chain)]
      BY <1>1, <2>1, <2>3 DEF IsArena, Block
    <3>2. \A p \in FreeOf(B) : Ends(B)[p] # o /\ Ends(B)[o] # p
      BY <1>2, <1>6, <2>2, <2>3
    <3>3. Lists(Cons(o, a.chain), FreeOf(B) \cup {o})
      BY <1>1, Chaining
    <3> QED BY <1>1, <3>1, <3>2, <3>3, Freeing
  <2>4. CASE right # {}
    <3>1. r \in FreeOf(B) /\ Ends(B)[o] = r
      BY <2>2, <2>4
    <3> HIDE DEF r
    <3>9. n = [Merge(a, o, r) EXCEPT !.chain = Unchain(@, r)]
      OBVIOUS
    <3> HIDE DEF n
    <3>10. /\ IsArena(n) /\ Tiled(n.blocks, limit) /\ Lists(n.chain, FreeOf(n.blocks)) /\ Apart(n.blocks)
           /\ FreeOf(n.blocks) = FreeOf(B) \ {r} /\ Joined(B, n.blocks, o, r)
      <4>1. Takes(a, o, r, limit)
        BY <1>1, <1>3, <3>1 DEF Takes
      <4>2. Took(a, n, o, r, limit)
        BY <3>9, <4>1, TakingRight
      <4> QED BY <4>2 DEF Took
    <3>2. /\ IsArena(n) /\ Tiled(n.blocks, limit) /\ o # r /\ Lists(n.chain, FreeOf(n.blocks)) /\ Apart(n.blocks)
          /\ DOMAIN n.blocks = DOMAIN B \ {r} /\ FreeOf(n.blocks) = FreeOf(B) \ {r}
          /\ n.blocks[o].free = B[o].free /\ Ends(n.blocks)[o] = Ends(B)[r]
          /\ \A p \in DOMAIN B \ {o, r} : n.blocks[p] = B[p] /\ Ends(n.blocks)[p] = Ends(B)[p]
      BY <3>10 DEF Joined
    <3> DEFINE D == n.blocks
    <3>3. o \in DOMAIN D /\ ~D[o].free /\ o \notin FreeOf(D)
      BY <1>1, <3>2
    <3>4. c = [blocks |-> [D EXCEPT ![o] = Block(D[o].size, 0, TRUE)], chain |-> Cons(o, n.chain)]
      BY <2>1, <2>4, <3>2 DEF IsArena, Block
    <3>5. \A p \in FreeOf(D) : Ends(D)[p] # o /\ Ends(D)[o] # p
      <4> HIDE DEF B, D
      <4>1. \A p \in FreeOf(D) : p \in FreeOf(B) /\ p # o /\ p # r /\ p \in DOMAIN B
        BY <3>2, <3>3 DEF FreeOf, D
      <4> QED BY <1>2, <1>3, <1>6, <3>1, <3>2, <4>1 DEF D
    <3>6. Lists(Cons(o, n.chain), FreeOf(D) \cup {o})
      BY <1>1, <3>2, <3>3, Chaining
    <3>12. GivenBack(D, c, o, limit)
      BY <3>2, <3>3, <3>4, <3>5, <3>6, Freeing
    <3>7. Arena(c, limit) /\ Spares(D, c.blocks, o) /\ TakenOf(c.blocks) = TakenOf(D) \ {o}
      BY <3>12 DEF GivenBack
    <3>8. Spares(B, c.blocks, o)
      <4>1. B[r].free
        BY <3>1 DEF FreeOf
      <4> DEFINE E == c.blocks
      <4> HIDE DEF B, D, E
      <4> QED BY <3>2, <3>7, <4>1 DEF Spares, D, E
    <3>11. TakenOf(D) = TakenOf(B)
      <4> HIDE DEF B
      <4> QED BY <3>1, <3>2 DEF TakenOf, D
    <3> QED BY <3>7, <3>8, <3>11 DEF GivenBack
  <2> QED BY <2>3, <2>4
<1> QED BY <1>4, <1>5, <1>6
\* The arena c is what an operation on the block o makes of a.
Kept(a, c, o, limit) == Arena(c, limit) /\ Spares(a.blocks, c.blocks, o)

(* A block that stays allocated gets another size asked for.               *)
Labels(a, c, o, b) ==
    /\ o \in DOMAIN a.blocks /\ ~a.blocks[o].free
    /\ b \in BlockType /\ b.size = a.blocks[o].size /\ ~b.free
    /\ c = [blocks |-> [a.blocks EXCEPT ![o] = b], chain |-> a.chain]

Labelled(a, c, o, b, limit) ==
    /\ Kept(a, c, o, limit) /\ DOMAIN c.blocks = DOMAIN a.blocks /\ c.blocks[o] = b
    /\ FreeOf(c.blocks) = FreeOf(a.blocks) /\ Ends(c.blocks) = Ends(a.blocks)

LEMMA Labelling ==
    ASSUME NEW limit \in Nat, NEW a, Arena(a, limit), NEW o, NEW b, NEW c, Labels(a, c, o, b)
    PROVE  Labelled(a, c, o, b, limit)
<1> DEFINE B == a.blocks
           C == [B EXCEPT ![o] = b]
<1>1. c.blocks = C /\ c.chain = a.chain /\ IsArena(c)
  BY DEF IsArena, Labels
<1>2. /\ Tiled(B, limit) /\ Apart(B) /\ Lists(a.chain, FreeOf(B)) /\ ~B[o].free /\ o \in DOMAIN B
      /\ b \in BlockType /\ b.size = B[o].size /\ ~b.free
  BY DEF Arena, Labels
<1>3. /\ Tiled(C, limit) /\ DOMAIN C = DOMAIN B /\ C[o] = b
      /\ \A p \in DOMAIN B \ {o} : C[p] = B[p]
      /\ Ends(C) = Ends(B)
  BY <1>2, Relabel
<1> HIDE DEF C
<1>4. FreeOf(C) = FreeOf(B)
  <2> HIDE DEF B
  <2> QED BY <1>2, <1>3 DEF FreeOf
<1>5. Apart(C)
  BY <1>2, <1>3, <1>4 DEF Apart
<1>6. Spares(B, C, o)
  <2> HIDE DEF B
  <2> QED BY <1>3 DEF Spares
<1>7. Arena(c, limit)
  BY <1>1, <1>2, <1>3, <1>4, <1>5 DEF Arena
<1> QED BY <1>1, <1>3, <1>4, <1>6, <1>7 DEF Kept, Labelled

(* The size asked for, of a block that is large enough.                    *)
LEMMA Allocated ==
    ASSUME NEW b \in BlockType, NEW alloc \in Nat
    PROVE  /\ [b EXCEPT !.alloc = alloc] \in BlockType
           /\ [b EXCEPT !.alloc = alloc].size = b.size /\ [b EXCEPT !.alloc = alloc].free = b.free
           /\ [b EXCEPT !.alloc = alloc].alloc = alloc
<1>1. b = [size |-> b.size, alloc |-> b.alloc, free |-> b.free] /\ b.size \in Nat \ {0} /\ b.free \in BOOLEAN
  BY DEF BlockType
<1>2. [b EXCEPT !.alloc = alloc] = [size |-> b.size, alloc |-> alloc, free |-> b.free]
  BY <1>1
<1> QED BY <1>1, <1>2 DEF BlockType

Reallocated(a, c, o, alloc, limit) ==
    /\ Kept(a, c, o, limit) /\ DOMAIN c.blocks = DOMAIN a.blocks /\ ~c.blocks[o].free
    /\ c.blocks[o].alloc = alloc /\ c.blocks[o].size = a.blocks[o].size
    /\ FreeOf(c.blocks) = FreeOf(a.blocks) /\ Ends(c.blocks) = Ends(a.blocks)

LEMMA LabelledAlloc ==
    ASSUME NEW limit \in Nat, NEW a, Arena(a, limit), NEW o \in DOMAIN a.blocks, ~a.blocks[o].free,
           NEW alloc \in Nat, NEW c, c = [a EXCEPT !.blocks[o].alloc = alloc]
    PROVE  Reallocated(a, c, o, alloc, limit)
<1> DEFINE b == [a.blocks[o] EXCEPT !.alloc = alloc]
<1>1. a = [blocks |-> a.blocks, chain |-> a.chain] /\ Tiled(a.blocks, limit)
  BY DEF Arena, IsArena
<1>2. a.blocks[o] \in BlockType
  BY <1>1, EndsAre
<1>3. b \in BlockType /\ b.size = a.blocks[o].size /\ ~b.free /\ b.alloc = alloc
  BY <1>2, Allocated
<1>4. c = [blocks |-> [a.blocks EXCEPT ![o] = b], chain |-> a.chain]
  BY <1>1
<1> HIDE DEF b
<1>6. Labels(a, c, o, b)
  BY <1>3, <1>4 DEF Labels
<1>5. Labelled(a, c, o, b, limit)
  BY <1>6, Labelling
<1> QED BY <1>3, <1>5 DEF Labelled, Reallocated

(* aivHeapFree.                                                            *)
LEMMA FreeingBlock ==
    ASSUME NEW limit \in Nat, NEW a, Arena(a, limit), NEW o \in DOMAIN a.blocks, ~a.blocks[o].free,
           NEW c, c = FreeBlock(a, o)
    PROVE  Kept(a, c, o, limit) /\ TakenOf(c.blocks) = TakenOf(a.blocks) \ {o}
<1> DEFINE d == [a EXCEPT !.blocks[o].alloc = 0]
<1>2. c = AddFreeBlock(d, o) /\ d = [a EXCEPT !.blocks[o].alloc = 0]
  BY DEF FreeBlock
<1> HIDE DEF d
<1>6. 0 \in Nat
  OBVIOUS
<1>7. Reallocated(a, d, o, 0, limit)
  BY <1>2, <1>6, LabelledAlloc
<1>1. /\ Kept(a, d, o, limit) /\ DOMAIN d.blocks = DOMAIN a.blocks /\ ~d.blocks[o].free
      /\ FreeOf(d.blocks) = FreeOf(a.blocks)
  BY <1>7 DEF Reallocated
<1>3. Arena(c, limit) /\ Spares(d.blocks, c.blocks, o) /\ TakenOf(c.blocks) = TakenOf(d.blocks) \ {o}
  <2>1. GivenBack(d.blocks, c, o, limit)
    BY <1>1, <1>2, AddingFree DEF Kept
  <2> QED BY <2>1 DEF GivenBack
<1> DEFINE B == a.blocks
           D == d.blocks
           C == c.blocks
<1>4. Spares(B, D, o) /\ Spares(D, C, o)
  BY <1>1, <1>3 DEF Kept
<1> HIDE DEF B, C, D
<1>5. Spares(B, C, o)
  BY <1>4 DEF Spares
<1>8. TakenOf(d.blocks) = TakenOf(a.blocks)
  BY <1>1 DEF TakenOf
<1> QED BY <1>3, <1>5, <1>8 DEF Kept, B, C
(* A free block gives way to a smaller one, n, at its end.                 *)
Slides(B, C, o, f, n, limit) ==
    /\ Apart(B) /\ Tiled(C, limit) /\ f \in FreeOf(B)
    /\ FreeOf(C) = (FreeOf(B) \ {f}) \cup {n}
    /\ o \in DOMAIN C /\ o \notin FreeOf(C)
    /\ Ends(C)[o] = n /\ Ends(C)[n] = Ends(B)[f]
    /\ \A p \in FreeOf(B) \ {f} : Ends(C)[p] = Ends(B)[p]

LEMMA Sliding ==
    ASSUME NEW limit \in Nat, NEW B, NEW C, NEW o, NEW f, NEW n, Slides(B, C, o, f, n, limit)
    PROVE  Apart(C)
<1>1. \A p, q \in FreeOf(B) : Ends(B)[p] # q
  BY DEF Slides, Apart
<1>2. \A p \in DOMAIN C : Ends(C)[p] = Ends(C)[o] => p = o
  BY Neighbours DEF Slides, Tiled
<1>3. \A p \in DOMAIN C : Ends(C)[p] # p
  BY DEF Slides, Tiled, Tiles
<1>4. SUFFICES ASSUME NEW p \in FreeOf(C), NEW q \in FreeOf(C), Ends(C)[p] = q PROVE FALSE
  BY DEF Apart
<1>5. p \in DOMAIN C /\ p # o
  BY DEF Slides, FreeOf
<1>6. q # n
  BY <1>2, <1>4, <1>5 DEF Slides
<1>7. CASE p = n
  BY <1>1, <1>4, <1>6, <1>7 DEF Slides
<1>8. CASE p # n
  BY <1>1, <1>4, <1>6, <1>8 DEF Slides
<1> QED BY <1>7, <1>8

\* The block at o is its client's, for a size that it has room for.
Held(a, c, o, size, limit) ==
    /\ Kept(a, c, o, limit) /\ o \in DOMAIN c.blocks /\ ~c.blocks[o].free
    /\ c.blocks[o].alloc = size /\ size <= c.blocks[o].size

\* The account is to grow by the size of the block, and by SplitExcess if it is taken whole.
Filled(a, c, o, size) ==
    /\ TakenOf(c.blocks) = TakenOf(a.blocks) \cup {o}
    /\ c.blocks[o].size = Packed(size) + SplitExcess(a, o, size)

(* splitFreeBlock.                                                         *)
LEMMA SplittingWhole ==
    ASSUME NEW limit \in Nat, NEW a, Arena(a, limit), NEW o \in FreeOf(a.blocks),
           NEW size \in Nat \ {0}, a.blocks[o].size >= Packed(size), TakesWhole(a, o, size),
           NEW c, c = SplitFreeBlock(a, o, size)
    PROVE  Held(a, c, o, size, limit) /\ Filled(a, c, o, size)
<1> DEFINE B == a.blocks
           b == Block(B[o].size, size, FALSE)
           C == [B EXCEPT ![o] = b]
<1>1. Tiled(B, limit) /\ Apart(B) /\ Lists(a.chain, FreeOf(B)) /\ B[o].free /\ o \in DOMAIN B
  BY DEF Arena, FreeOf
<1>2. B[o].size \in Nat \ {0} /\ size <= B[o].size
  <2>1. B[o].size \in Nat \ {0}
    BY <1>1, EndsAre
  <2>2. Packed(size) \in Nat /\ size <= Packed(size)
    BY PackedBounds
  <2> QED BY <2>1, <2>2
<1>3. b \in BlockType /\ b.size = B[o].size /\ b.alloc = size /\ ~b.free
  BY <1>2 DEF Block, BlockType
<1>4. c = [blocks |-> Put(B, o, b), chain |-> Unchain(a.chain, o)]
  BY DEF SplitFreeBlock
<1> HIDE DEF b
<1>5. Put(B, o, b) = C
  BY <1>1 DEF Put
<1>6. c.blocks = C /\ c.chain = Unchain(a.chain, o) /\ IsArena(c)
  BY <1>4, <1>5 DEF IsArena
<1>7. /\ Tiled(C, limit) /\ DOMAIN C = DOMAIN B /\ C[o] = b
      /\ \A p \in DOMAIN B \ {o} : C[p] = B[p]
      /\ Ends(C) = Ends(B)
  BY <1>1, <1>3, Relabel
<1> HIDE DEF B, C
<1>8. FreeOf(C) = FreeOf(B) \ {o}
  BY <1>1, <1>3, <1>7 DEF FreeOf
<1>9. Apart(C)
  BY <1>1, <1>7, <1>8 DEF Apart
<1>10. Lists(Unchain(a.chain, o), FreeOf(C))
  BY <1>1, <1>8, Unchaining DEF B
<1>11. Spares(B, C, o)
  BY <1>7 DEF Spares
<1>12. Arena(c, limit)
  BY <1>6, <1>7, <1>9, <1>10 DEF Arena
<1>13. Kept(a, c, o, limit)
  BY <1>6, <1>11, <1>12 DEF Kept, B
<1>14. TakenOf(C) = TakenOf(B) \cup {o}
  BY <1>1, <1>7, <1>8 DEF TakenOf
<1>15. c.blocks[o].size = Packed(size) + SplitExcess(a, o, size)
  <2>1. c.blocks[o].size = B[o].size
    BY <1>3, <1>6, <1>7
  <2>2. SplitExcess(a, o, size) = B[o].size - Packed(size) /\ Packed(size) \in Nat
    BY PackedBounds DEF SplitExcess, B
  <2> QED BY <1>2, <2>1, <2>2
<1>16. Filled(a, c, o, size)
  BY <1>6, <1>14, <1>15 DEF Filled, B
<1> QED BY <1>1, <1>2, <1>3, <1>6, <1>7, <1>13, <1>16 DEF Held

LEMMA SplittingPart ==
    ASSUME NEW limit \in Nat, NEW a, Arena(a, limit), NEW o \in FreeOf(a.blocks),
           NEW size \in Nat \ {0}, a.blocks[o].size >= Packed(size), ~TakesWhole(a, o, size),
           NEW c, c = SplitFreeBlock(a, o, size)
    PROVE  Held(a, c, o, size, limit) /\ Filled(a, c, o, size)
<1> DEFINE B == a.blocks
           n == o + Header + Packed(size) + Footer
           b == Block(Packed(size), size, FALSE)
           rest == Block(B[o].size - Packed(size) - Header - Footer, 0, TRUE)
           C == Put(Put(B, o, b), n, rest)
<1>1. Tiled(B, limit) /\ Apart(B) /\ Lists(a.chain, FreeOf(B)) /\ B[o].free /\ o \in DOMAIN B
  BY DEF Arena, FreeOf
<1>2. /\ Packed(size) \in Nat \ {0} /\ size <= Packed(size)
      /\ Header \in Nat /\ Footer \in Nat /\ B[o].size \in Nat \ {0} /\ o \in Nat
      /\ Ends(B)[o] = o + Header + B[o].size + Footer
  <2>1. B[o].size \in Nat \ {0} /\ o \in Nat /\ Ends(B)[o] = o + Header + B[o].size + Footer
    BY <1>1, EndsAre
  <2>2. Packed(size) \in Nat /\ size <= Packed(size)
    BY PackedBounds
  <2> QED BY <2>1, <2>2, BlockAssumption
<1>3. B[o].size - Packed(size) - Header - Footer \in Nat \ {0}
  <2>1. ~(B[o].size < Packed(size) + (Header + MinFree + Footer))
    BY DEF TakesWhole, MinFreeBlock
  <2>2. MinFree \in Nat \ {0}
    BY BlockAssumption
  <2> QED BY <1>2, <2>1, <2>2
<1>4. b \in BlockType /\ b.size = Packed(size) /\ b.alloc = size /\ ~b.free
  BY <1>2 DEF Block, BlockType
<1>5. rest \in BlockType /\ rest.size = B[o].size - Packed(size) - Header - Footer /\ rest.free
  BY <1>3 DEF Block, BlockType
<1>6. c = [blocks |-> C, chain |-> ReplaceAll(a.chain, o, n)]
  BY DEF SplitFreeBlock
<1>7. n = o + Header + b.size + Footer /\ n + Header + rest.size + Footer = Ends(B)[o]
  <2> HIDE DEF b, rest
  <2> QED BY <1>2, <1>4, <1>5
<1>8. C = Put(Put(B, o, b), n, rest)
  OBVIOUS
<1> HIDE DEF b, rest, n, C
<1>9. c.blocks = C /\ c.chain = ReplaceAll(a.chain, o, n) /\ IsArena(c)
  BY <1>6 DEF IsArena
<1> HIDE DEF B
<1>10. Cuts(B, o, b, rest, n)
  BY <1>1, <1>4, <1>5, <1>7 DEF Cuts
<1>11. Tiled(C, limit) /\ WasCut(B, C, o, b, rest, n)
  BY <1>1, <1>8, <1>10, Cut
<1>12. FreeOf(C) = (FreeOf(B) \ {o}) \cup {n} /\ o \notin FreeOf(C) /\ o \in DOMAIN C /\ n \notin FreeOf(B)
  BY <1>1, <1>4, <1>5, <1>11 DEF WasCut, FreeOf
<1>13. o \in FreeOf(B) /\ \A p \in FreeOf(B) \ {o} : p \in DOMAIN B \ {o}
  BY <1>1 DEF FreeOf
<1>14. Slides(B, C, o, o, n, limit)
  BY <1>1, <1>11, <1>12, <1>13 DEF Slides, WasCut
<1>15. Apart(C)
  BY <1>14, Sliding
<1>16. n \in Nat
  BY <1>11 DEF WasCut
<1>17. Lists(ReplaceAll(a.chain, o, n), FreeOf(C))
  BY <1>1, <1>12, <1>13, <1>16, Replacing
<1>18. Spares(B, C, o)
  BY <1>11 DEF Spares, WasCut
<1>19. Arena(c, limit)
  BY <1>9, <1>11, <1>15, <1>17 DEF Arena
<1>20. Kept(a, c, o, limit)
  BY <1>9, <1>18, <1>19 DEF Kept, B
<1>21. C[o] = b
  BY <1>11 DEF WasCut
<1>22. TakenOf(C) = TakenOf(B) \cup {o}
  BY <1>1, <1>11, <1>12 DEF TakenOf, WasCut
<1>23. Filled(a, c, o, size)
  <2>1. SplitExcess(a, o, size) = 0
    BY DEF SplitExcess
  <2>2. c.blocks[o].size = Packed(size) /\ Packed(size) \in Nat
    BY <1>2, <1>4, <1>9, <1>21
  <2>3. c.blocks[o].size = Packed(size) + SplitExcess(a, o, size)
    BY <2>1, <2>2
  <2> QED BY <1>9, <1>22, <2>3 DEF Filled, B
<1> QED BY <1>2, <1>4, <1>9, <1>12, <1>20, <1>21, <1>23 DEF Held

LEMMA Splitting ==
    ASSUME NEW limit \in Nat, NEW a, Arena(a, limit), NEW o \in FreeOf(a.blocks),
           NEW size \in Nat \ {0}, a.blocks[o].size >= Packed(size),
           NEW c, c = SplitFreeBlock(a, o, size)
    PROVE  Held(a, c, o, size, limit) /\ Filled(a, c, o, size)
<1>1. CASE TakesWhole(a, o, size)
  BY <1>1, SplittingWhole
<1>2. CASE ~TakesWhole(a, o, size)
  BY <1>2, SplittingPart
<1> QED BY <1>1, <1>2
(* splitAllocatedBlock: the end of the block is freed.                     *)
LEMMA SplittingAllocated ==
    ASSUME NEW limit \in Nat, NEW a, Arena(a, limit), NEW o \in DOMAIN a.blocks, ~a.blocks[o].free,
           NEW size \in Nat \ {0}, a.blocks[o].size - size > MinFreeBlock,
           NEW c, c = SplitAllocatedBlock(a, o, size)
    PROVE  Held(a, c, o, size, limit)
<1> DEFINE B == a.blocks
           n == o + Header + Packed(size) + Footer
           b == Block(Packed(size), size, FALSE)
           rest == Block(B[o].size - Packed(size) - Header - Footer, 0, FALSE)
           C == Put(Put(B, o, b), n, rest)
           d == [a EXCEPT !.blocks = C]
<1>1. /\ IsArena(a) /\ Tiled(B, limit) /\ Apart(B) /\ Lists(a.chain, FreeOf(B))
      /\ ~B[o].free /\ o \in DOMAIN B
  BY DEF Arena
<1>2. /\ Packed(size) \in Nat \ {0} /\ size <= Packed(size) /\ Packed(size) <= size + Alignment - 1
      /\ Header \in Nat /\ Footer \in Nat /\ B[o].size \in Nat \ {0} /\ o \in Nat
      /\ Ends(B)[o] = o + Header + B[o].size + Footer
  <2>1. B[o].size \in Nat \ {0} /\ o \in Nat /\ Ends(B)[o] = o + Header + B[o].size + Footer
    BY <1>1, EndsAre
  <2>2. Packed(size) \in Nat /\ size <= Packed(size) /\ Packed(size) <= size + Alignment - 1
    BY PackedBounds
  <2> QED BY <2>1, <2>2, BlockAssumption
<1>3. B[o].size - Packed(size) - Header - Footer \in Nat \ {0}
  <2>1. B[o].size - size > Header + MinFree + Footer
    BY DEF MinFreeBlock
  <2>2. MinFree \in Nat /\ Alignment \in Nat /\ Alignment <= MinFree + 1
    BY BlockAssumption
  <2> QED BY <1>2, <2>1, <2>2
<1>4. b \in BlockType /\ b.size = Packed(size) /\ b.alloc = size /\ ~b.free
  BY <1>2 DEF Block, BlockType
<1>5. rest \in BlockType /\ rest.size = B[o].size - Packed(size) - Header - Footer /\ ~rest.free
  BY <1>3 DEF Block, BlockType
<1>6. c = AddFreeBlock(d, n) /\ d = [blocks |-> C, chain |-> a.chain]
  <2>1. c = AddFreeBlock(d, n)
    BY DEF SplitAllocatedBlock, Block
  <2> HIDE DEF C
  <2>2. d = [blocks |-> C, chain |-> a.chain]
    BY <1>1 DEF IsArena
  <2> QED BY <2>1, <2>2
<1>7. n = o + Header + b.size + Footer /\ n + Header + rest.size + Footer = Ends(B)[o]
  <2> HIDE DEF b, rest
  <2> QED BY <1>2, <1>4, <1>5
<1>8. C = Put(Put(B, o, b), n, rest)
  OBVIOUS
<1> HIDE DEF b, rest, n, C
<1>9. d.blocks = C /\ d.chain = a.chain /\ IsArena(d)
  BY <1>6 DEF IsArena
<1> HIDE DEF B, d
<1>10. Cuts(B, o, b, rest, n)
  BY <1>1, <1>4, <1>5, <1>7 DEF Cuts
<1>11. Tiled(C, limit) /\ WasCut(B, C, o, b, rest, n)
  BY <1>1, <1>8, <1>10, Cut
<1>12. FreeOf(C) = FreeOf(B) /\ o \in DOMAIN C /\ n \in DOMAIN C /\ C[n] = rest /\ C[o] = b /\ o # n
  BY <1>1, <1>4, <1>5, <1>11 DEF WasCut, FreeOf
<1>13. \A p \in FreeOf(B) : p \in DOMAIN B \ {o}
  BY <1>1 DEF FreeOf
<1>14. Apart(C)
  BY <1>1, <1>11, <1>12, <1>13 DEF Apart, WasCut
<1>15. Arena(d, limit)
  BY <1>1, <1>9, <1>11, <1>12, <1>14 DEF Arena
<1>16. n \in DOMAIN d.blocks /\ ~d.blocks[n].free
  BY <1>5, <1>9, <1>12
<1>17. Arena(c, limit) /\ Spares(d.blocks, c.blocks, n)
  <2>1. GivenBack(d.blocks, c, n, limit)
    BY <1>6, <1>15, <1>16, AddingFree
  <2> QED BY <2>1 DEF GivenBack
<1> DEFINE E == c.blocks
<1> HIDE DEF E
<1>18. Spares(C, E, n)
  BY <1>9, <1>17 DEF E
<1>19. Spares(B, E, o)
  <2>1. \A p \in DOMAIN B \ {o} : p \in DOMAIN C \ {n} /\ C[p] = B[p]
    BY <1>11 DEF WasCut
  <2> QED BY <1>18, <2>1 DEF Spares
<1>20. o \in DOMAIN E /\ E[o] = b
  BY <1>4, <1>12, <1>18 DEF Spares
<1>21. Kept(a, c, o, limit)
  BY <1>17, <1>19 DEF Kept, B, E
<1> QED BY <1>2, <1>4, <1>20, <1>21 DEF Held, E

(* coalesceFreeToAllocatedBlock, when the free block is taken whole.       *)
LEMMA CoalescingWhole ==
    ASSUME NEW limit \in Nat, NEW a, Arena(a, limit), NEW o \in DOMAIN a.blocks, ~a.blocks[o].free,
           NEW f \in FreeOf(a.blocks), Ends(a.blocks)[o] = f, NEW diff \in Nat \ {0},
           a.blocks[f].size + Overhead + (a.blocks[o].size - a.blocks[o].alloc) >= diff,
           a.blocks[f].size < Packed(diff) + MinFree,
           NEW c, c = CoalesceFreeToAllocated(a, o, f, diff)
    PROVE  Held(a, c, o, a.blocks[o].alloc + diff, limit)
<1> DEFINE B == a.blocks
           alloc == B[o].alloc + diff
           d == [a EXCEPT !.blocks[o].alloc = alloc]
           D == d.blocks
           C == c.blocks
<1>1. Tiled(B, limit) /\ Apart(B) /\ o \in DOMAIN B /\ ~B[o].free /\ f \in DOMAIN B /\ f \in FreeOf(B)
      /\ Ends(B)[o] = f /\ B[f].free
  BY DEF Arena, FreeOf
<1>2. B[o].size \in Nat /\ B[o].alloc \in Nat /\ B[f].size \in Nat /\ alloc \in Nat
  <2>1. \A p \in DOMAIN B : B[p] \in BlockType
    BY <1>1, EndsAre
  <2> HIDE DEF B
  <2>2. B[o] \in BlockType /\ B[f] \in BlockType
    BY <1>1, <2>1, Zenon
  <2> QED BY <2>2 DEF BlockType
<1>3. c = [Merge(d, o, f) EXCEPT !.chain = Unchain(@, f)] /\ d = [a EXCEPT !.blocks[o].alloc = alloc]
  BY DEF CoalesceFreeToAllocated
<1>4. B[f].size + Header + Footer + B[o].size >= alloc
  <2>1. B[f].size + (Header + Footer) + (B[o].size - B[o].alloc) >= diff
    BY DEF Overhead
  <2>2. Header \in Nat /\ Footer \in Nat
    BY BlockAssumption
  <2> QED BY <1>2, <2>1, <2>2
<1> HIDE DEF d, alloc
<1>5. Kept(a, d, o, limit) /\ DOMAIN D = DOMAIN B /\ ~D[o].free
      /\ D[o].alloc = alloc /\ D[o].size = B[o].size
      /\ FreeOf(D) = FreeOf(B) /\ Ends(D) = Ends(B)
  <2>1. Reallocated(a, d, o, alloc, limit)
    BY <1>2, <1>3, LabelledAlloc
  <2> QED BY <2>1 DEF Reallocated
<1>6. IsArena(d) /\ Tiled(D, limit) /\ Apart(D) /\ Lists(d.chain, FreeOf(D)) /\ Spares(B, D, o)
  BY <1>5 DEF Kept, Arena
<1> HIDE DEF B, D
<1>7. Takes(d, o, f, limit)
  BY <1>1, <1>5, <1>6 DEF Takes, Apart, D
<1>8. Took(d, c, o, f, limit)
  BY <1>3, <1>7, TakingRight
<1>9. Arena(c, limit) /\ Joined(D, C, o, f)
  BY <1>8 DEF Took, Arena, D
<1> HIDE DEF C
<1>10. D[f].free /\ D[f].size = B[f].size
  <2>1. f \in FreeOf(D)
    BY <1>1, <1>5
  <2>2. Ends(D)[f] = f + Header + D[f].size + Footer /\ Ends(B)[f] = f + Header + B[f].size + Footer
    BY <1>1, <1>5 DEF Ends
  <2>3. f \in Nat /\ D[f].size \in Nat /\ B[f].size \in Nat
    BY <1>1, <1>2, <1>5, <1>6, EndsAre
  <2> QED BY <1>5, <2>1, <2>2, <2>3, BlockAssumption DEF FreeOf
<1>11. o \in DOMAIN C /\ ~C[o].free /\ C[o].alloc = alloc /\ C[o].size = B[o].size + B[f].size + Header + Footer
  BY <1>1, <1>5, <1>9, <1>10 DEF Joined
<1>12. alloc <= C[o].size
  <2> DEFINE s == C[o].size
             x == B[o].size
             y == B[f].size
  <2>1. s = x + y + Header + Footer /\ y + Header + Footer + x >= alloc /\ x \in Nat /\ y \in Nat /\ alloc \in Nat
    BY <1>2, <1>4, <1>11
  <2> HIDE DEF s, x, y
  <2>2. alloc <= s
    BY <2>1, BlockAssumption
  <2> QED BY <2>2 DEF s
<1>13. Spares(B, C, o)
  BY <1>5, <1>6, <1>9, <1>10 DEF Spares, Joined
<1>14. Kept(a, c, o, limit)
  BY <1>9, <1>13 DEF Kept, B, C
<1> QED BY <1>11, <1>12, <1>14 DEF Held, B, C, alloc
(* A block grows into the free one to its right, whose end stays free.     *)
Grows(B, C, o, f, b, n, rest, limit) ==
    /\ Tiled(B, limit) /\ o \in DOMAIN B /\ f \in DOMAIN B /\ Ends(B)[o] = f
    /\ b \in BlockType /\ rest \in BlockType
    /\ n = o + Header + b.size + Footer /\ f < n
    /\ n + Header + rest.size + Footer = Ends(B)[f]
    /\ C = Put(Put(Drop(B, f), o, b), n, rest)

Grown(B, C, o, f, b, n, rest, limit) ==
    /\ Tiled(C, limit) /\ o # f /\ n \in Nat /\ n \notin DOMAIN B
    /\ DOMAIN C = (DOMAIN B \ {f}) \cup {n} /\ C[o] = b /\ C[n] = rest
    /\ \A p \in DOMAIN B \ {o, f} : C[p] = B[p] /\ Ends(C)[p] = Ends(B)[p]
    /\ Ends(C)[o] = n /\ Ends(C)[n] = Ends(B)[f]

LEMMA Growing ==
    ASSUME NEW limit \in Nat, NEW B, NEW C, NEW o, NEW f, NEW b, NEW n, NEW rest,
           Grows(B, C, o, f, b, n, rest, limit)
    PROVE  Grown(B, C, o, f, b, n, rest, limit)
<1> DEFINE e == [p \in DOMAIN B \ {f} |-> IF p = o THEN Ends(B)[f] ELSE Ends(B)[p]]
           P == Put(Drop(B, f), o, b)
<1>1. /\ Tiled(B, limit) /\ Tiles(DOMAIN B, Ends(B), limit)
      /\ o \in DOMAIN B /\ f \in DOMAIN B /\ Ends(B)[o] = f /\ b \in BlockType /\ rest \in BlockType
  BY DEF Grows, Tiled
<1>2. /\ o \in Nat /\ f \in Nat /\ o < f /\ Ends(B)[f] \in Nat
      /\ Header \in Nat \ {0} /\ Footer \in Nat \ {0} /\ b.size \in Nat \ {0} /\ rest.size \in Nat \ {0}
  BY <1>1, BlockAssumption DEF Tiles, BlockType
<1>3. n \in Nat /\ f < n /\ n < Ends(B)[f]
  BY <1>2 DEF Grows
<1>4. DOMAIN e = DOMAIN B \ {f} /\ e[o] = Ends(B)[f] /\ \A p \in DOMAIN B \ {o, f} : e[p] = Ends(B)[p]
  BY <1>1, <1>2
<1> HIDE DEF e
<1>5. Tiles(DOMAIN B \ {f}, e, limit)
  BY <1>1, <1>4, JoinTiles
<1>6. n \notin DOMAIN B
  <2>1. n \notin DOMAIN B \ {f}
    BY <1>1, <1>2, <1>3, <1>4, <1>5 DEF Tiles
  <2> QED BY <1>2, <1>3, <2>1
<1>7. DOMAIN P = DOMAIN B \ {f} /\ P[o] = b /\ \A p \in DOMAIN B \ {o, f} : P[p] = B[p]
  BY <1>1, <1>2 DEF Put, Drop
<1>8. C = Put(P, n, rest)
  BY DEF Grows
<1> HIDE DEF P
<1>9. DOMAIN C = (DOMAIN B \ {f}) \cup {n} /\ C[n] = rest /\ C[o] = b /\ \A p \in DOMAIN B \ {o, f} : C[p] = B[p]
  <2>1. DOMAIN C = DOMAIN P \cup {n} /\ C[n] = rest /\ \A p \in DOMAIN P \ {n} : C[p] = P[p]
    BY <1>8 DEF Put
  <2> QED BY <1>1, <1>2, <1>6, <1>7, <2>1
<1>10. Ends(C)[o] = n /\ Ends(C)[n] = Ends(B)[f] /\ \A p \in DOMAIN B \ {o, f} : Ends(C)[p] = Ends(B)[p]
  <2>1. o \in DOMAIN C /\ n \in DOMAIN C /\ \A p \in DOMAIN B \ {o, f} : p \in DOMAIN C
    BY <1>1, <1>2, <1>9
  <2>2. Ends(C)[o] = o + Header + b.size + Footer /\ Ends(C)[n] = n + Header + rest.size + Footer
    BY <1>9, <2>1 DEF Ends
  <2>3. \A p \in DOMAIN B \ {o, f} : Ends(C)[p] = Ends(B)[p]
    BY <1>9, <2>1 DEF Ends
  <2> QED BY <2>2, <2>3 DEF Grows
<1>11. Tiles(DOMAIN C, Ends(C), limit)
  <2>1. o \in DOMAIN B \ {f} /\ o < n /\ n < e[o] /\ Ends(C)[n] = e[o]
    BY <1>1, <1>2, <1>3, <1>4, <1>10
  <2>2. \A p \in (DOMAIN B \ {f}) \ {o} : Ends(C)[p] = e[p]
    BY <1>4, <1>10
  <2>3. Ends(C)[o] = n /\ n \in Nat
    BY <1>3, <1>10
  <2>4. Tiles((DOMAIN B \ {f}) \cup {n}, Ends(C), limit)
    BY <1>5, <2>1, <2>2, <2>3, CutTiles
  <2> QED BY <1>9, <2>4
<1>12. \A p \in DOMAIN C : C[p] \in BlockType
  BY <1>1, <1>9 DEF Tiled
<1> QED BY <1>2, <1>3, <1>6, <1>9, <1>10, <1>11, <1>12 DEF Grown, Tiled

(* coalesceFreeToAllocatedBlock, when the rest keeps its place.            *)
LEMMA CoalescingPart ==
    ASSUME NEW limit \in Nat, NEW a, Arena(a, limit), NEW o \in DOMAIN a.blocks, ~a.blocks[o].free,
           a.blocks[o].alloc <= a.blocks[o].size,
           NEW f \in FreeOf(a.blocks), Ends(a.blocks)[o] = f, NEW diff \in Nat \ {0},
           ~(a.blocks[f].size < Packed(diff) + MinFree),
           NEW c, c = CoalesceFreeToAllocated(a, o, f, diff)
    PROVE  Held(a, c, o, a.blocks[o].alloc + diff, limit)
<1> DEFINE B == a.blocks
           alloc == B[o].alloc + diff
           n == f + Packed(diff)
           b == Block(B[o].size + Packed(diff), alloc, FALSE)
           rest == Block(B[f].size - Packed(diff), 0, TRUE)
           C == Put(Put(Drop(B, f), o, b), n, rest)
<1>1. /\ Tiled(B, limit) /\ Apart(B) /\ Lists(a.chain, FreeOf(B))
      /\ o \in DOMAIN B /\ ~B[o].free /\ f \in DOMAIN B /\ f \in FreeOf(B)
      /\ Ends(B)[o] = f /\ B[f].free
  BY DEF Arena, FreeOf
<1>2. /\ B[o].size \in Nat \ {0} /\ B[o].alloc \in Nat /\ B[f].size \in Nat \ {0} /\ o \in Nat /\ f \in Nat
      /\ Ends(B)[o] = o + Header + B[o].size + Footer /\ Ends(B)[f] = f + Header + B[f].size + Footer
  <2>1. \A p \in DOMAIN B : B[p] \in BlockType /\ p \in Nat /\ Ends(B)[p] = p + Header + B[p].size + Footer
    BY <1>1, EndsAre
  <2> HIDE DEF B
  <2>2. B[o] \in BlockType /\ B[f] \in BlockType /\ o \in Nat /\ f \in Nat
    BY <1>1, <2>1, Zenon
  <2>3. Ends(B)[o] = o + Header + B[o].size + Footer /\ Ends(B)[f] = f + Header + B[f].size + Footer
    BY <1>1, <2>1, Zenon
  <2> QED BY <2>2, <2>3 DEF BlockType
<1>3. /\ Packed(diff) \in Nat \ {0} /\ diff <= Packed(diff) /\ B[f].size - Packed(diff) \in Nat \ {0}
      /\ Header \in Nat /\ Footer \in Nat
  <2>1. Packed(diff) \in Nat /\ diff <= Packed(diff)
    BY PackedBounds
  <2>2. ~(B[f].size < Packed(diff) + MinFree) /\ MinFree \in Nat \ {0}
    BY BlockAssumption
  <2> QED BY <1>2, <2>1, <2>2, BlockAssumption
<1>4. alloc \in Nat /\ alloc <= B[o].size + Packed(diff) /\ B[o].size + Packed(diff) \in Nat \ {0}
  BY <1>2, <1>3
<1> HIDE DEF alloc
<1>5. b \in BlockType /\ b.size = B[o].size + Packed(diff) /\ b.alloc = alloc /\ ~b.free
  BY <1>4 DEF Block, BlockType
<1>6. rest \in BlockType /\ rest.size = B[f].size - Packed(diff) /\ rest.free
  BY <1>3 DEF Block, BlockType
<1>7. c = [blocks |-> C, chain |-> ReplaceAll(a.chain, f, n)]
  BY DEF CoalesceFreeToAllocated, alloc
<1>8. n = o + Header + b.size + Footer /\ f < n /\ n + Header + rest.size + Footer = Ends(B)[f]
  <2> DEFINE p == Packed(diff)
  <2>1. p \in Nat \ {0} /\ n = f + p /\ b.size = B[o].size + p /\ rest.size = B[f].size - p
    BY <1>3, <1>5, <1>6
  <2> HIDE DEF b, rest, B, n, p
  <2>2. f = o + Header + B[o].size + Footer
    BY <1>1, <1>2
  <2>3. f < n
    BY <1>2, <2>1
  <2>4. n = o + Header + b.size + Footer
    BY <1>2, <1>3, <2>1, <2>2
  <2>5. n + Header + rest.size + Footer = Ends(B)[f]
    BY <1>2, <1>3, <2>1
  <2> QED BY <2>3, <2>4, <2>5
<1>9. C = Put(Put(Drop(B, f), o, b), n, rest)
  OBVIOUS
<1> HIDE DEF b, rest, n, C
<1>10. c.blocks = C /\ c.chain = ReplaceAll(a.chain, f, n) /\ IsArena(c)
  BY <1>7 DEF IsArena
<1> HIDE DEF B
<1>11. Grows(B, C, o, f, b, n, rest, limit)
  BY <1>1, <1>5, <1>6, <1>8, <1>9 DEF Grows
<1>12. Grown(B, C, o, f, b, n, rest, limit)
  BY <1>11, Growing
<1>13. FreeOf(C) = (FreeOf(B) \ {f}) \cup {n} /\ o \in DOMAIN C /\ o \notin FreeOf(C) /\ n \notin FreeOf(B)
  BY <1>1, <1>5, <1>6, <1>12 DEF Grown, FreeOf
<1>14. \A p \in FreeOf(B) \ {f} : p \in DOMAIN B \ {o, f}
  BY <1>1 DEF FreeOf
<1>15. Slides(B, C, o, f, n, limit)
  BY <1>1, <1>12, <1>13, <1>14 DEF Slides, Grown
<1>16. Apart(C)
  BY <1>15, Sliding
<1>17. Lists(ReplaceAll(a.chain, f, n), FreeOf(C))
  <2>1. n \in Nat
    BY <1>12 DEF Grown
  <2> QED BY <1>1, <1>13, <2>1, Replacing
<1>18. Spares(B, C, o)
  BY <1>1, <1>12 DEF Spares, Grown
<1>19. Arena(c, limit)
  BY <1>10, <1>12, <1>16, <1>17 DEF Arena, Grown
<1>20. Kept(a, c, o, limit)
  BY <1>10, <1>18, <1>19 DEF Kept, B
<1>21. C[o] = b
  BY <1>12 DEF Grown
<1> QED BY <1>4, <1>5, <1>10, <1>13, <1>20, <1>21 DEF Held, alloc, B

LEMMA Coalescing ==
    ASSUME NEW limit \in Nat, NEW a, Arena(a, limit), NEW o \in DOMAIN a.blocks, ~a.blocks[o].free,
           a.blocks[o].alloc <= a.blocks[o].size,
           NEW f \in FreeOf(a.blocks), Ends(a.blocks)[o] = f, NEW diff \in Nat \ {0},
           a.blocks[f].size + Overhead + (a.blocks[o].size - a.blocks[o].alloc) >= diff,
           NEW c, c = CoalesceFreeToAllocated(a, o, f, diff)
    PROVE  Held(a, c, o, a.blocks[o].alloc + diff, limit)
<1>1. CASE a.blocks[f].size < Packed(diff) + MinFree
  BY <1>1, CoalescingWhole
<1>2. CASE ~(a.blocks[f].size < Packed(diff) + MinFree)
  BY <1>2, CoalescingPart
<1> QED BY <1>1, <1>2

(* aivHeapInit.                                                            *)
LEMMA NewlyMade ==
    ASSUME NEW limit \in Nat, limit > Overhead
    PROVE  Arena(NewArena(limit), limit)
<1> DEFINE a == NewArena(limit)
           b == Block(limit - Header - Footer, 0, TRUE)
           B == [o \in {0} |-> b]
<1>1. Header \in Nat \ {0} /\ Footer \in Nat \ {0} /\ limit - Header - Footer \in Nat \ {0}
  BY BlockAssumption DEF Overhead
<1>2. b \in BlockType /\ b.size = limit - Header - Footer /\ b.free
  BY <1>1 DEF Block, BlockType
<1>3. a.blocks = B /\ a.chain = <<0>> /\ IsArena(a)
  BY DEF NewArena, IsArena
<1> HIDE DEF b, a
<1>4. DOMAIN B = {0} /\ B[0] = b /\ Ends(B)[0] = 0 + Header + b.size + Footer
  BY DEF Ends
<1> HIDE DEF B
<1>5. Ends(B)[0] = limit /\ 0 < limit
  BY <1>1, <1>2, <1>4
<1>6. Tiles(DOMAIN B, Ends(B), limit)
  BY <1>4, <1>5 DEF Tiles
<1>7. FreeOf(B) = {0}
  BY <1>2, <1>4 DEF FreeOf
<1>8. Tiled(B, limit)
  BY <1>2, <1>4, <1>6 DEF Tiled
<1>9. Apart(B)
  BY <1>5, <1>7 DEF Apart
<1>10. Lists(<<0>>, {0})
  BY Single
<1>11. Lists(a.chain, FreeOf(B))
  BY <1>3, <1>7, <1>10
<1>12. Arena(a, limit)
  BY <1>3, <1>8, <1>9, <1>11 DEF Arena
<1> QED BY <1>12 DEF a
-----------------------------------------------------------------------------
(* The smallest number: what getFreeBlock finds, and an unused handle.     *)

LEMMA MinIsIn ==
    ASSUME NEW S \in SUBSET Nat, S # {}
    PROVE  Min(S) \in S
<1>1. PICK x \in S : \A y \in S : ~(<<y, x>> \in OpToRel(<, Nat))
  BY NatLessThanWellFounded, WFMin
<1>2. x \in Nat /\ \A y \in S : y \in Nat /\ ~(y < x)
  BY <1>1 DEF OpToRel
<1>3. \A y \in S : x <= y
  BY <1>2
<1> QED BY <1>3 DEF Min

LEMMA UnusedIsFree ==
    ASSUME NEW f, IsFiniteSet(DOMAIN f)
    PROVE  Unused(f) \in Nat \ DOMAIN f
<1> DEFINE k == Cardinality(DOMAIN f)
           S == (1 .. (k + 1)) \ DOMAIN f
<1>1. k \in Nat
  BY FS_CardinalityType
<1>2. S # {}
  <2> SUFFICES ASSUME S = {} PROVE FALSE
    OBVIOUS
  <2>1. 1 .. (k + 1) \in SUBSET DOMAIN f
    OBVIOUS
  <2>2. Cardinality(1 .. (k + 1)) <= Cardinality(DOMAIN f)
    BY <2>1, FS_Subset
  <2>3. 1 \in Int /\ k + 1 \in Int /\ ~(1 > k + 1) /\ k + 1 - 1 + 1 = k + 1
    BY <1>1
  <2>4. Cardinality(1 .. (k + 1)) = k + 1
    <3> HIDE DEF k
    <3> QED BY <2>3, FS_Interval
  <2>5. k + 1 <= k
    BY <2>2, <2>4
  <2> QED BY <1>1, <2>5
<1>3. S \in SUBSET Nat
  OBVIOUS
<1>4. Min(S) \in S
  BY <1>2, <1>3, MinIsIn
<1> QED BY <1>3, <1>4 DEF Unused

LEMMA GettingFree ==
    ASSUME NEW limit \in Nat, NEW a, Arena(a, limit), NEW size, NEW o,
           o = GetFreeBlock(a, size), o # NoBlock
    PROVE  o \in FreeOf(a.blocks) /\ a.blocks[o].size >= Packed(size)
<1> DEFINE fits == {i \in DOMAIN a.chain : a.blocks[a.chain[i]].size >= Packed(size)}
<1>1. fits # {} /\ o = a.chain[Min(fits)]
  BY DEF GetFreeBlock
<1>2. Lists(a.chain, FreeOf(a.blocks))
  BY DEF Arena
<1>3. fits \in SUBSET Nat
  BY <1>2, LenProperties, SMTT(20) DEF Lists
<1>4. Min(fits) \in fits
  BY <1>1, <1>3, MinIsIn
<1>5. Min(fits) \in DOMAIN a.chain /\ a.blocks[o].size >= Packed(size)
  BY <1>1, <1>4
<1>6. o \in ToSet(a.chain)
  BY <1>1, <1>5 DEF ToSet
<1> QED BY <1>2, <1>5, <1>6 DEF Lists

-----------------------------------------------------------------------------
(* The accounts.                                                           *)

LEMMA Accounting ==
    ASSUME NEW acct \in Account, NEW n \in Nat
    PROVE  IncrementUsage(acct, n) \in Account /\ DecrementUsage(acct, n) \in Account
<1>1. acct.size \in Nat /\ acct.count \in Int
  BY DEF Account
<1>2. FloorSub(acct.size, n) \in Nat
  BY <1>1 DEF FloorSub
<1> QED BY <1>1, <1>2 DEF Account, IncrementUsage, DecrementUsage

LEMMA Enlarging ==
    ASSUME NEW acct \in Account, NEW n \in Nat
    PROVE  [acct EXCEPT !.size = @ + n] \in Account
<1>1. acct.size \in Nat /\ acct.count \in Int /\ acct = [size |-> acct.size, count |-> acct.count]
  BY DEF Account
<1>2. [acct EXCEPT !.size = @ + n] = [size |-> acct.size + n, count |-> acct.count]
  BY <1>1
<1>3. acct.size + n \in Nat
  BY <1>1
<1> QED BY <1>1, <1>2, <1>3 DEF Account

LEMMA ResizingAccount ==
    ASSUME NEW acct \in Account, NEW size \in Nat, NEW new \in Nat
    PROVE  ResizedAccount(acct, size, new) \in Account
<1> DEFINE s == IF new > size THEN acct.size + (new - size) ELSE FloorSub(acct.size, size - new)
<1>1. acct.size \in Nat /\ acct.count \in Int /\ acct = [size |-> acct.size, count |-> acct.count]
  BY DEF Account
<1>2. s \in Nat
  BY <1>1 DEF FloorSub
<1>3. ResizedAccount(acct, size, new) = [size |-> s, count |-> acct.count]
  BY <1>1 DEF ResizedAccount
<1> HIDE DEF s
<1> QED BY <1>1, <1>2, <1>3 DEF Account

-----------------------------------------------------------------------------
(* Heaps and handles.                                                      *)

HeapOK(hp, limit) ==
    /\ hp = [top |-> hp.top, mem |-> hp.mem, arena |-> hp.arena,
             sys |-> hp.sys, store |-> hp.store, files |-> hp.files]
    /\ hp.top \in Account /\ hp.mem \in Account
    /\ Arena(hp.arena, limit)
    /\ IsFiniteSet(DOMAIN hp.sys) /\ IsFiniteSet(DOMAIN hp.store) /\ hp.files \in Nat

Handles == {h \in {"aiv", "sys", "spill"} \X Nat : IsDirect(h) \/ Spills}

\* g names an allocation of the heap
Live(hp, g) ==
    \/ g[1] = "aiv" /\ g[2] \in DOMAIN hp.arena.blocks /\ ~hp.arena.blocks[g[2]].free
    \/ g[1] = "sys" /\ g[2] \in DOMAIN hp.sys /\ hp.sys[g[2]].size \in Nat
    \/ g[1] = "spill" /\ g[2] \in DOMAIN hp.store /\ hp.store[g[2]].size \in Nat

SameBlock(hp, hq, g) == g[1] = "aiv" => hq.arena.blocks[g[2]] = hp.arena.blocks[g[2]]

\* an allocation of the size asked for
Suits(hp, g, size) ==
    g[1] = "aiv" => hp.arena.blocks[g[2]].alloc = size /\ size <= hp.arena.blocks[g[2]].size

\* hq keeps the allocations of hp, except for the one of h
Keeps(hp, hq, h) ==
    \A g \in Handles : g # h /\ Live(hp, g) => Live(hq, g) /\ SameBlock(hp, hq, g)

Sized(f, g, n) == \A m \in DOMAIN f \ {n} : f[m].size \in Nat => m \in DOMAIN g /\ g[m].size \in Nat

LEMMA KeepsTransitive ==
    ASSUME NEW hp, NEW hq, NEW hr, NEW h, Keeps(hp, hq, NoHandle), Keeps(hq, hr, h)
    PROVE  Keeps(hp, hr, h)
<1>1. \A g \in Handles : g # NoHandle
  BY DEF Handles, NoHandle
<1> QED BY <1>1 DEF Keeps, SameBlock

LEMMA KeepsSame ==
    ASSUME NEW hp, NEW hq, NEW h, hq.arena = hp.arena, hq.sys = hp.sys, hq.store = hp.store
    PROVE  Keeps(hp, hq, h) /\ \A g : (Live(hq, g) <=> Live(hp, g)) /\ SameBlock(hp, hq, g)
BY DEF Keeps, Live, SameBlock

LEMMA KeepsArena ==
    ASSUME NEW hp, NEW hq, NEW o, Spares(hp.arena.blocks, hq.arena.blocks, o),
           hq.sys = hp.sys, hq.store = hp.store
    PROVE  Keeps(hp, hq, AivHandle(o)) /\ (hp.arena.blocks[o].free => Keeps(hp, hq, NoHandle))
<1> DEFINE B == hp.arena.blocks
           C == hq.arena.blocks
<1>1. \A p \in DOMAIN B \ {o} : ~B[p].free => p \in DOMAIN C /\ C[p] = B[p]
  BY DEF Spares
<1>2. ASSUME NEW g \in Handles, Live(hp, g), g[1] = "aiv" => g[2] # o
      PROVE  Live(hq, g) /\ SameBlock(hp, hq, g)
  <2> HIDE DEF B, C
  <2>1. CASE g[1] = "aiv"
    BY <1>1, <1>2, <2>1 DEF Live, SameBlock, B, C
  <2>2. CASE g[1] # "aiv"
    BY <1>2, <2>2 DEF Live, SameBlock
  <2> QED BY <2>1, <2>2
<1>3. \A g \in Handles : g # AivHandle(o) => (g[1] = "aiv" => g[2] # o)
  BY DEF Handles, AivHandle
<1>4. B[o].free => \A g \in Handles : Live(hp, g) => (g[1] = "aiv" => g[2] # o)
  BY DEF Live
<1> HIDE DEF B, C
<1>5. Keeps(hp, hq, AivHandle(o))
  BY <1>2, <1>3 DEF Keeps
<1>6. B[o].free => Keeps(hp, hq, NoHandle)
  BY <1>2, <1>4 DEF Keeps
<1> QED BY <1>5, <1>6 DEF B

LEMMA KeepsSys ==
    ASSUME NEW hp, NEW hq, NEW n, Sized(hp.sys, hq.sys, n),
           hq.arena = hp.arena, hq.store = hp.store
    PROVE  /\ Keeps(hp, hq, SysHandle(n))
           /\ Live(hq, SysHandle(n)) \/ ~Live(hp, SysHandle(n)) => Keeps(hp, hq, NoHandle)
<1>1. \A m \in DOMAIN hp.sys \ {n} : hp.sys[m].size \in Nat => m \in DOMAIN hq.sys /\ hq.sys[m].size \in Nat
  BY DEF Sized
<1>2. ASSUME NEW g \in Handles, Live(hp, g), g # SysHandle(n)
      PROVE  Live(hq, g) /\ SameBlock(hp, hq, g)
  <2>1. g[1] = "sys" => g[2] # n
    BY <1>2 DEF Handles, SysHandle
  <2> QED BY <1>1, <1>2, <2>1 DEF Live, SameBlock
<1>3. SameBlock(hp, hq, SysHandle(n))
  BY DEF SameBlock, SysHandle
<1> QED BY <1>2, <1>3 DEF Keeps

LEMMA KeepsStore ==
    ASSUME NEW hp, NEW hq, NEW n, Sized(hp.store, hq.store, n),
           hq.arena = hp.arena, hq.sys = hp.sys
    PROVE  /\ Keeps(hp, hq, SpillHandle(n))
           /\ Live(hq, SpillHandle(n)) \/ ~Live(hp, SpillHandle(n)) => Keeps(hp, hq, NoHandle)
<1>1. \A m \in DOMAIN hp.store \ {n} : hp.store[m].size \in Nat => m \in DOMAIN hq.store /\ hq.store[m].size \in Nat
  BY DEF Sized
<1>2. ASSUME NEW g \in Handles, Live(hp, g), g # SpillHandle(n)
      PROVE  Live(hq, g) /\ SameBlock(hp, hq, g)
  <2>1. g[1] = "spill" => g[2] # n
    BY <1>2 DEF Handles, SpillHandle
  <2> QED BY <1>1, <1>2, <2>1 DEF Live, SameBlock
<1>3. SameBlock(hp, hq, SpillHandle(n))
  BY DEF SameBlock, SpillHandle
<1> QED BY <1>2, <1>3 DEF Keeps

WasPut(f, g, n, b) ==
    /\ Sized(f, g, n) /\ g[n] = b /\ n \in DOMAIN g
    /\ IsFiniteSet(DOMAIN f) => IsFiniteSet(DOMAIN g)

LEMMA PutSizes ==
    ASSUME NEW f, NEW n, NEW b, NEW g, g = Put(f, n, b)
    PROVE  WasPut(f, g, n, b)
<1>1. DOMAIN g = DOMAIN f \cup {n} /\ g[n] = b /\ \A m \in DOMAIN f \ {n} : g[m] = f[m]
  BY DEF Put
<1>2. IsFiniteSet(DOMAIN f) => IsFiniteSet(DOMAIN f \cup {n})
  BY FS_AddElement
<1> QED BY <1>1, <1>2 DEF Sized, WasPut

LEMMA DropSizes ==
    ASSUME NEW f, NEW n, NEW g, g = Drop(f, n)
    PROVE  Sized(f, g, n) /\ (IsFiniteSet(DOMAIN f) => IsFiniteSet(DOMAIN g))
<1>1. DOMAIN g = DOMAIN f \ {n} /\ \A m \in DOMAIN f \ {n} : g[m] = f[m]
  BY DEF Drop
<1>2. IsFiniteSet(DOMAIN f) => IsFiniteSet(DOMAIN f \ {n})
  BY FS_RemoveElement
<1> QED BY <1>1, <1>2 DEF Sized
-----------------------------------------------------------------------------
(* The memory heap.                                                        *)

\* An allocation gives nobody's memory, except that a file may be written
\* over one that a failed call has left.
Allocates(hp, r, size, limit) ==
    /\ HeapOK(r.heap, limit) /\ Keeps(hp, r.heap, NoHandle)
    /\ r.handle # NoHandle =>
         /\ r.handle \in Handles /\ Live(r.heap, r.handle) /\ Suits(r.heap, r.handle, size)
         /\ Live(hp, r.handle) => setup.spill = "file" /\ r.handle[1] = "spill"

\* A free takes what it was asked to, or nothing.
Frees(hp, r, h, limit) ==
    /\ HeapOK(r.heap, limit) /\ Keeps(hp, r.heap, h)
    /\ ~Ok(r) => Keeps(hp, r.heap, NoHandle)

\* A resize leaves one handle for the new size, or the old one untouched.
Resizes(hp, r, h, new, limit) ==
    /\ HeapOK(r.heap, limit) /\ Keeps(hp, r.heap, h)
    /\ ~Ok(r) => Keeps(hp, r.heap, NoHandle)
    /\ Ok(r) => /\ r.handle \in Handles /\ Live(r.heap, r.handle) /\ Suits(r.heap, r.handle, new)
                /\ r.handle = h \/ ~Live(hp, r.handle)

LEMMA Outcomes ==
    ASSUME NEW hp, NEW h, NEW status
    PROVE  /\ Outcome(hp, h, status).heap = hp /\ Outcome(hp, h, status).handle = h
           /\ Outcome(hp, h, status).status = status
BY DEF Outcome

\* only the accounts differ
LEMMA OtherAccounts ==
    ASSUME NEW limit \in Nat, NEW hp, HeapOK(hp, limit), NEW top \in Account, NEW mem \in Account,
           NEW hq, hq = [top |-> top, mem |-> mem, arena |-> hp.arena,
                         sys |-> hp.sys, store |-> hp.store, files |-> hp.files]
    PROVE  HeapOK(hq, limit) /\ \A h : Keeps(hp, hq, h)
<1>1. /\ hq.arena = hp.arena /\ hq.sys = hp.sys /\ hq.store = hp.store /\ hq.files = hp.files
      /\ hq.top = top /\ hq.mem = mem
  OBVIOUS
<1>2. HeapOK(hq, limit)
  BY <1>1 DEF HeapOK
<1> QED BY <1>1, <1>2, KeepsSame

LEMMA SysAllocating ==
    ASSUME NEW limit \in Nat, NEW hp, HeapOK(hp, limit), NEW size \in Nat \ {0}, NEW r \in SysAllocs(hp, size)
    PROVE  Allocates(hp, r, size, limit)
<1> DEFINE n == Unused(hp.sys)
           block == [size |-> size, room |-> size]
           counted == IncrementUsage(hp.mem, Overhead + size)
           S == Put(hp.sys, n, block)
           undone == DecrementUsage(counted, Overhead + size)
<1>1. /\ hp = [top |-> hp.top, mem |-> hp.mem, arena |-> hp.arena,
               sys |-> hp.sys, store |-> hp.store, files |-> hp.files]
      /\ hp.top \in Account /\ hp.mem \in Account /\ IsFiniteSet(DOMAIN hp.sys)
  BY DEF HeapOK
<1>2. Overhead + size \in Nat
  BY BlockAssumption DEF Overhead
<1>3. counted \in Account
  BY <1>1, <1>2, Accounting
<1>4. undone \in Account
  <2> HIDE DEF counted
  <2> QED BY <1>2, <1>3, Accounting
<1>5. \/ r = Outcome([hp EXCEPT !.mem = counted, !.sys = S], SysHandle(n), "ok")
      \/ r = Outcome([hp EXCEPT !.mem = undone], NoHandle, "ok")
  BY DEF SysAllocs
<1>6. n \in Nat \ DOMAIN hp.sys
  BY <1>1, UnusedIsFree
<1>13. block.size = size /\ S = Put(hp.sys, n, block)
  OBVIOUS
<1> HIDE DEF counted, undone, S, n, block
<1>12. WasPut(hp.sys, S, n, block)
  BY <1>13, PutSizes
<1>7. Sized(hp.sys, S, n) /\ S[n] = block /\ n \in DOMAIN S /\ IsFiniteSet(DOMAIN S)
  BY <1>1, <1>12 DEF WasPut
<1>8. CASE r = Outcome([hp EXCEPT !.mem = counted, !.sys = S], SysHandle(n), "ok")
  <2> DEFINE hq == r.heap
  <2>1. /\ hq = [top |-> hp.top, mem |-> counted, arena |-> hp.arena,
                 sys |-> S, store |-> hp.store, files |-> hp.files]
        /\ r.handle = SysHandle(n)
    <3>1. hq = [hp EXCEPT !.mem = counted, !.sys = S] /\ r.handle = SysHandle(n)
      BY <1>8 DEF Outcome
    <3> HIDE DEF hq
    <3> QED BY <1>1, <3>1
  <2> HIDE DEF hq
  <2>2. /\ hq.arena = hp.arena /\ hq.sys = S /\ hq.store = hp.store /\ hq.files = hp.files
        /\ hq.top = hp.top /\ hq.mem = counted
    BY <2>1
  <2>3. HeapOK(hq, limit)
    BY <1>3, <1>7, <2>1, <2>2 DEF HeapOK
  <2>4. SysHandle(n) \in Handles /\ ~Live(hp, SysHandle(n)) /\ SysHandle(n) # NoHandle
    BY <1>6 DEF SysHandle, Handles, Live, NoHandle, IsDirect
  <2>5. Live(hq, SysHandle(n)) /\ Suits(hq, SysHandle(n), size)
    BY <1>7, <1>13, <2>2 DEF SysHandle, Live, Suits
  <2>6. Sized(hp.sys, hq.sys, n)
    BY <1>7, <2>2
  <2>7. Keeps(hp, hq, NoHandle)
    BY <2>2, <2>4, <2>6, KeepsSys
  <2> QED BY <2>1, <2>3, <2>4, <2>5, <2>7 DEF Allocates, hq
<1>9. CASE r = Outcome([hp EXCEPT !.mem = undone], NoHandle, "ok")
  <2>1. /\ r.heap = [top |-> hp.top, mem |-> undone, arena |-> hp.arena,
                     sys |-> hp.sys, store |-> hp.store, files |-> hp.files]
        /\ r.handle = NoHandle
    BY <1>1, <1>9, Outcomes
  <2>2. HeapOK(r.heap, limit) /\ Keeps(hp, r.heap, NoHandle)
    BY <1>1, <1>4, <2>1, OtherAccounts
  <2> QED BY <2>1, <2>2 DEF Allocates
<1> QED BY <1>5, <1>8, <1>9

LEMMA AivAllocating ==
    ASSUME NEW limit \in Nat, NEW hp, HeapOK(hp, limit), NEW size \in Nat \ {0}, NEW r \in AivAllocs(hp, size)
    PROVE  Allocates(hp, r, size, limit)
<1> DEFINE o == GetFreeBlock(hp.arena, size)
           counted == IncrementUsage(hp.mem, Overhead + Packed(size))
           undone == DecrementUsage(counted, Overhead + Packed(size))
           mem == [counted EXCEPT !.size = @ + SplitExcess(hp.arena, o, size)]
           A == SplitFreeBlock(hp.arena, o, size)
<1>1. /\ hp = [top |-> hp.top, mem |-> hp.mem, arena |-> hp.arena,
               sys |-> hp.sys, store |-> hp.store, files |-> hp.files]
      /\ hp.top \in Account /\ hp.mem \in Account /\ Arena(hp.arena, limit)
  BY DEF HeapOK
<1>2. Overhead + Packed(size) \in Nat /\ Packed(size) \in Nat
  <2>1. Packed(size) \in Nat
    BY PackedBounds
  <2> QED BY <2>1, BlockAssumption DEF Overhead
<1>3. counted \in Account
  BY <1>1, <1>2, Accounting
<1>4. undone \in Account
  <2> HIDE DEF counted
  <2> QED BY <1>2, <1>3, Accounting
<1>5. /\ o = NoBlock => r = Outcome([hp EXCEPT !.mem = undone], NoHandle, "ok")
      /\ o # NoBlock => r = Outcome([hp EXCEPT !.mem = mem, !.arena = A], AivHandle(o), "ok")
  BY DEF AivAllocs
<1> HIDE DEF o
<1>8. CASE o # NoBlock
  <2>1. o \in FreeOf(hp.arena.blocks) /\ hp.arena.blocks[o].size >= Packed(size)
    BY <1>1, <1>8, GettingFree DEF o
  <2>2. o \in DOMAIN hp.arena.blocks /\ hp.arena.blocks[o].free /\ o \in Nat /\ hp.arena.blocks[o].size \in Nat
    <3>1. o \in DOMAIN hp.arena.blocks /\ hp.arena.blocks[o].free /\ Tiled(hp.arena.blocks, limit)
      BY <1>1, <2>1 DEF FreeOf, Arena
    <3> QED BY <3>1, EndsAre
  <2>3. Held(hp.arena, A, o, size, limit)
    BY <1>1, <2>1, Splitting
  <2>4. SplitExcess(hp.arena, o, size) \in Nat
    BY <1>2, <2>1, <2>2 DEF SplitExcess
  <2>5. mem \in Account
    <3> HIDE DEF counted
    <3> QED BY <1>3, <2>4, Enlarging
  <2> DEFINE hq == r.heap
  <2> HIDE DEF mem, A
  <2>6. /\ hq = [top |-> hp.top, mem |-> mem, arena |-> A,
                 sys |-> hp.sys, store |-> hp.store, files |-> hp.files]
        /\ r.handle = AivHandle(o)
    <3>1. hq = [hp EXCEPT !.mem = mem, !.arena = A] /\ r.handle = AivHandle(o)
      BY <1>5, <1>8 DEF Outcome
    <3> HIDE DEF hq
    <3> QED BY <1>1, <3>1
  <2> HIDE DEF hq
  <2>7. /\ hq.arena = A /\ hq.sys = hp.sys /\ hq.store = hp.store /\ hq.files = hp.files
        /\ hq.top = hp.top /\ hq.mem = mem
    BY <2>6
  <2>8. Arena(A, limit) /\ Spares(hp.arena.blocks, hq.arena.blocks, o)
    BY <2>3, <2>7 DEF Held, Kept
  <2>9. HeapOK(hq, limit)
    BY <2>5, <2>6, <2>7, <2>8 DEF HeapOK
  <2>10. Keeps(hp, hq, NoHandle)
    BY <2>2, <2>7, <2>8, KeepsArena
  <2>11. AivHandle(o) \in Handles /\ ~Live(hp, AivHandle(o))
    BY <2>2 DEF AivHandle, Handles, Live, IsDirect
  <2>12. Live(hq, AivHandle(o)) /\ Suits(hq, AivHandle(o), size)
    BY <2>3, <2>7 DEF Held, AivHandle, Live, Suits
  <2> QED BY <2>6, <2>9, <2>10, <2>11, <2>12 DEF Allocates, hq
<1>9. CASE o = NoBlock
  <2> HIDE DEF undone
  <2>1. /\ r.heap = [top |-> hp.top, mem |-> undone, arena |-> hp.arena,
                     sys |-> hp.sys, store |-> hp.store, files |-> hp.files]
        /\ r.handle = NoHandle
    BY <1>1, <1>5, <1>9, Outcomes
  <2>2. HeapOK(r.heap, limit) /\ Keeps(hp, r.heap, NoHandle)
    BY <1>1, <1>4, <2>1, OtherAccounts
  <2> QED BY <2>1, <2>2 DEF Allocates
<1> QED BY <1>8, <1>9

LEMMA KeepsItself ==
    ASSUME NEW hp, NEW h
    PROVE  Keeps(hp, hp, h)
BY DEF Keeps, SameBlock

\* also: the memory heap gives no spilled handle
LEMMA MemAllocating ==
    ASSUME NEW limit \in Nat, NEW hp, HeapOK(hp, limit), NEW size \in Nat \ {0}, NEW r \in MemAllocs(hp, size)
    PROVE  Allocates(hp, r, size, limit)
<1>1. CASE ~Fits(hp.mem, Overhead + AlignedSize(size), MemLimit)
  <2>1. r.heap = hp /\ r.handle = NoHandle
    BY <1>1, Outcomes DEF MemAllocs
  <2> QED BY <2>1, KeepsItself DEF Allocates
<1>2. CASE Fits(hp.mem, Overhead + AlignedSize(size), MemLimit)
  <2>1. r \in AivAllocs(hp, size) \/ r \in SysAllocs(hp, size)
    BY <1>2 DEF MemAllocs
  <2> QED BY <2>1, AivAllocating, SysAllocating
<1> QED BY <1>1, <1>2
LEMMA LiveSizes ==
    ASSUME NEW limit \in Nat, NEW hp, HeapOK(hp, limit), NEW h \in Handles, Live(hp, h), IsDirect(h)
    PROVE  MemAllocationSize(hp, h) \in Nat /\ MemAllocationSize(hp, h) - Overhead \in Nat
<1>1. Overhead \in Nat
  BY BlockAssumption DEF Overhead
<1>2. Tiled(hp.arena.blocks, limit)
  BY DEF HeapOK, Arena
<1>3. CASE h[1] = "aiv"
  <2>1. h[2] \in DOMAIN hp.arena.blocks
    BY <1>3 DEF Live
  <2>2. hp.arena.blocks[h[2]].size \in Nat
    BY <1>2, <2>1, EndsAre
  <2> QED BY <1>1, <1>3, <2>2 DEF MemAllocationSize
<1>4. CASE h[1] = "sys"
  <2>1. hp.sys[h[2]].size \in Nat
    BY <1>4 DEF Live
  <2> QED BY <1>1, <1>4, <2>1 DEF MemAllocationSize
<1>5. h[1] = "aiv" \/ h[1] = "sys"
  BY DEF Handles, IsDirect
<1> QED BY <1>3, <1>4, <1>5

LEMMA MemFreeing ==
    ASSUME NEW limit \in Nat, NEW hp, HeapOK(hp, limit), NEW h \in Handles, Live(hp, h), IsDirect(h),
           NEW r, r = MemFree(hp, h)
    PROVE  Frees(hp, r, h, limit)
<1> DEFINE n == MemAllocationSize(hp, h)
           mem == DecrementUsage(hp.mem, n)
           counted == [hp EXCEPT !.mem = mem]
           F == FreeBlock(hp.arena, h[2])
           S == Drop(hp.sys, h[2])
<1>1. /\ hp = [top |-> hp.top, mem |-> hp.mem, arena |-> hp.arena,
               sys |-> hp.sys, store |-> hp.store, files |-> hp.files]
      /\ hp.top \in Account /\ hp.mem \in Account /\ Arena(hp.arena, limit)
      /\ IsFiniteSet(DOMAIN hp.sys)
  BY DEF HeapOK
<1>2. mem \in Account
  BY <1>1, LiveSizes, Accounting
<1>3. /\ ~CommonFreeAllows(hp.mem, n) => r = Outcome(hp, h, "failed")
      /\ CommonFreeAllows(hp.mem, n) /\ h[1] = "aiv" => r = AivFree(counted, h)
      /\ CommonFreeAllows(hp.mem, n) /\ h[1] # "aiv" => r = SysFree(counted, h)
  BY DEF MemFree
<1> HIDE DEF n, mem
<1>4. counted = [top |-> hp.top, mem |-> mem, arena |-> hp.arena,
                 sys |-> hp.sys, store |-> hp.store, files |-> hp.files]
  BY <1>1
<1> HIDE DEF counted, F, S
<1>5. CASE ~CommonFreeAllows(hp.mem, n)
  <2>1. r.heap = hp /\ r.status = "failed"
    BY <1>3, <1>5 DEF Outcome
  <2> QED BY <2>1, KeepsItself DEF Frees
<1>6. CASE CommonFreeAllows(hp.mem, n) /\ h[1] = "aiv"
  <2> DEFINE hq == r.heap
             o == h[2]
  <2>1. hq = [counted EXCEPT !.arena = FreeBlock(@, o)] /\ r.status = "ok"
    BY <1>3, <1>6 DEF AivFree, Outcome
  <2> HIDE DEF hq
  <2>2. hq = [top |-> hp.top, mem |-> mem, arena |-> F,
              sys |-> hp.sys, store |-> hp.store, files |-> hp.files]
    BY <1>4, <2>1 DEF F
  <2>3. o \in DOMAIN hp.arena.blocks /\ ~hp.arena.blocks[o].free /\ h = AivHandle(o)
    BY <1>6 DEF Live, Handles, AivHandle
  <2>4. F = FreeBlock(hp.arena, o)
    BY DEF F
  <2>5. Kept(hp.arena, F, o, limit)
    BY <1>1, <2>3, <2>4, FreeingBlock
  <2>6. /\ hq.arena = F /\ hq.sys = hp.sys /\ hq.store = hp.store /\ hq.files = hp.files
        /\ hq.top = hp.top /\ hq.mem = mem
    BY <2>2
  <2>7. Arena(F, limit) /\ Spares(hp.arena.blocks, hq.arena.blocks, o)
    BY <2>5, <2>6 DEF Kept
  <2>8. HeapOK(hq, limit)
    BY <1>2, <2>2, <2>6, <2>7 DEF HeapOK
  <2>9. Keeps(hp, hq, h)
    BY <2>3, <2>6, <2>7, KeepsArena
  <2> QED BY <2>1, <2>8, <2>9 DEF Frees, Ok, hq
<1>7. CASE CommonFreeAllows(hp.mem, n) /\ h[1] # "aiv"
  <2> DEFINE hq == r.heap
             m == h[2]
  <2>1. hq = [counted EXCEPT !.sys = Drop(@, m)] /\ r.status = "ok"
    BY <1>3, <1>7 DEF SysFree, Outcome
  <2> HIDE DEF hq
  <2>2. hq = [top |-> hp.top, mem |-> mem, arena |-> hp.arena,
              sys |-> S, store |-> hp.store, files |-> hp.files]
    BY <1>4, <2>1 DEF S
  <2>3. h = SysHandle(m)
    BY <1>7 DEF Handles, SysHandle, IsDirect
  <2>4. S = Drop(hp.sys, m)
    BY DEF S
  <2>5. Sized(hp.sys, S, m) /\ IsFiniteSet(DOMAIN S)
    BY <1>1, <2>4, DropSizes
  <2>6. /\ hq.arena = hp.arena /\ hq.sys = S /\ hq.store = hp.store /\ hq.files = hp.files
        /\ hq.top = hp.top /\ hq.mem = mem
    BY <2>2
  <2>7. HeapOK(hq, limit)
    BY <1>2, <2>2, <2>5, <2>6 DEF HeapOK
  <2>8. Sized(hp.sys, hq.sys, m)
    BY <2>5, <2>6
  <2>9. Keeps(hp, hq, h)
    BY <2>3, <2>6, <2>8, KeepsSys
  <2> QED BY <2>1, <2>7, <2>9 DEF Frees, Ok, hq
<1> QED BY <1>5, <1>6, <1>7

\* a call that may change the size of a handle
Asked(hp, h, size, new) ==
    /\ h \in Handles /\ Live(hp, h) /\ Suits(hp, h, size)
    /\ size \in Nat /\ new \in Nat \ {0} /\ new # size

LEMMA SysResizing ==
    ASSUME NEW limit \in Nat, NEW hp, HeapOK(hp, limit), NEW h, NEW size, NEW new,
           Asked(hp, h, size, new), h[1] = "sys", NEW r \in SysResizes(hp, h, size, new)
    PROVE  Resizes(hp, r, h, new, limit)
<1> DEFINE n == h[2]
           block == [size |-> new, room |-> size]
           counted == ResizedAccount(hp.mem, size, new)
           undone == IF new > size THEN DecrementUsage(counted, new - size)
                     ELSE IncrementUsage(counted, size - new)
           S == [hp.sys EXCEPT ![n] = block]
<1>1. /\ hp = [top |-> hp.top, mem |-> hp.mem, arena |-> hp.arena,
               sys |-> hp.sys, store |-> hp.store, files |-> hp.files]
      /\ hp.top \in Account /\ hp.mem \in Account /\ IsFiniteSet(DOMAIN hp.sys)
  BY DEF HeapOK
<1>2. h \in Handles /\ Live(hp, h) /\ size \in Nat /\ new \in Nat
  BY DEF Asked
<1>3. counted \in Account
  BY <1>1, <1>2, ResizingAccount
<1>4. undone \in Account
  <2>1. /\ new > size => new - size \in Nat
        /\ ~(new > size) => size - new \in Nat
    BY <1>2
  <2> HIDE DEF counted
  <2> QED BY <1>3, <2>1, Accounting
<1>5. \/ r = Outcome([hp EXCEPT !.mem = counted, !.sys[n] = block], h, "ok")
      \/ r = Outcome([hp EXCEPT !.mem = undone], h, "realloc")
  BY DEF SysResizes
<1>6. h = SysHandle(n) /\ n \in DOMAIN hp.sys
  BY <1>2 DEF Handles, SysHandle, Live
<1>7. DOMAIN S = DOMAIN hp.sys /\ S[n].size \in Nat /\ \A m \in DOMAIN hp.sys \ {n} : S[m] = hp.sys[m]
  BY <1>2, <1>6
<1> HIDE DEF counted, undone, S, block
<1>8. CASE r = Outcome([hp EXCEPT !.mem = counted, !.sys[n] = block], h, "ok")
  <2> DEFINE hq == r.heap
  <2>1. hq = [hp EXCEPT !.mem = counted, !.sys[n] = block] /\ r.handle = h /\ r.status = "ok"
    BY <1>8 DEF Outcome
  <2> HIDE DEF hq
  <2>2. hq = [top |-> hp.top, mem |-> counted, arena |-> hp.arena,
              sys |-> S, store |-> hp.store, files |-> hp.files]
    BY <1>1, <2>1 DEF S
  <2>3. /\ hq.arena = hp.arena /\ hq.sys = S /\ hq.store = hp.store /\ hq.files = hp.files
        /\ hq.top = hp.top /\ hq.mem = counted
    BY <2>2
  <2>4. HeapOK(hq, limit)
    BY <1>1, <1>3, <1>7, <2>2, <2>3 DEF HeapOK
  <2>5. Sized(hp.sys, hq.sys, n)
    BY <1>7, <2>3 DEF Sized
  <2>6. Keeps(hp, hq, h)
    BY <1>6, <2>3, <2>5, KeepsSys
  <2>7. Live(hq, h) /\ Suits(hq, h, new)
    BY <1>6, <1>7, <2>3 DEF Live, Suits, SysHandle
  <2> QED BY <1>2, <2>1, <2>4, <2>6, <2>7 DEF Resizes, Ok, hq
<1>9. CASE r = Outcome([hp EXCEPT !.mem = undone], h, "realloc")
  <2>1. r.heap = [hp EXCEPT !.mem = undone] /\ r.status = "realloc"
    BY <1>9 DEF Outcome
  <2>2. r.heap = [top |-> hp.top, mem |-> undone, arena |-> hp.arena,
                  sys |-> hp.sys, store |-> hp.store, files |-> hp.files]
    BY <1>1, <2>1
  <2>3. HeapOK(r.heap, limit) /\ \A g : Keeps(hp, r.heap, g)
    BY <1>1, <1>4, <2>2, OtherAccounts
  <2> QED BY <2>1, <2>3 DEF Resizes, Ok
<1> QED BY <1>5, <1>8, <1>9
\* the block of h was resized in the arena
LEMMA ResizedInArena ==
    ASSUME NEW limit \in Nat, NEW hp, HeapOK(hp, limit), NEW h \in Handles, h[1] = "aiv", NEW new,
           NEW A, Held(hp.arena, A, h[2], new, limit), NEW mem \in Account,
           NEW r, r = Outcome([top |-> hp.top, mem |-> mem, arena |-> A, sys |-> hp.sys,
                               store |-> hp.store, files |-> hp.files], h, "ok")
    PROVE  Resizes(hp, r, h, new, limit)
<1> DEFINE hq == r.heap
           o == h[2]
<1>1. /\ hq = [top |-> hp.top, mem |-> mem, arena |-> A, sys |-> hp.sys,
               store |-> hp.store, files |-> hp.files]
      /\ r.handle = h /\ r.status = "ok"
  BY DEF Outcome
<1> HIDE DEF hq
<1>2. /\ hq.arena = A /\ hq.sys = hp.sys /\ hq.store = hp.store /\ hq.files = hp.files
      /\ hq.top = hp.top /\ hq.mem = mem
  BY <1>1
<1>3. Arena(A, limit) /\ Spares(hp.arena.blocks, hq.arena.blocks, o)
  BY <1>2 DEF Held, Kept
<1>4. HeapOK(hq, limit)
  BY <1>1, <1>2, <1>3 DEF HeapOK
<1>5. h = AivHandle(o)
  BY DEF Handles, AivHandle
<1>6. Keeps(hp, hq, h)
  BY <1>2, <1>3, <1>5, KeepsArena
<1>7. Live(hq, h) /\ Suits(hq, h, new)
  BY <1>2 DEF Held, Live, Suits
<1> QED BY <1>1, <1>4, <1>6, <1>7 DEF Resizes, Ok, hq

\* a step that only counts, and then a resize
LEMMA CountedResize ==
    ASSUME NEW limit, NEW hp, NEW hq, NEW h, NEW r, NEW new,
           Keeps(hp, hq, NoHandle), Resizes(hq, r, h, new, limit)
    PROVE  Resizes(hp, r, h, new, limit)
<1>1. Keeps(hq, r.heap, h) /\ (~Ok(r) => Keeps(hq, r.heap, NoHandle))
  BY DEF Resizes
<1>2. Keeps(hp, r.heap, h)
  BY <1>1, KeepsTransitive
<1>3. ~Ok(r) => Keeps(hp, r.heap, NoHandle)
  BY <1>1, KeepsTransitive
<1>4. \A g \in Handles : ~Live(hq, g) => ~Live(hp, g)
  BY DEF Keeps, Handles, NoHandle
<1> QED BY <1>2, <1>3, <1>4 DEF Resizes

\* heapSetAllocSize of the memory heap allocates, and then frees
LEMMA Moving ==
    ASSUME NEW limit \in Nat, NEW hp, HeapOK(hp, limit), NEW h \in Handles, Live(hp, h), IsDirect(h),
           NEW new \in Nat \ {0}, NEW q \in MemAllocs(hp, new),
           NEW r, r = IF q.handle = NoHandle THEN Outcome(q.heap, h, "failed")
                      ELSE IF Ok(MemFree(q.heap, h)) THEN Outcome(MemFree(q.heap, h).heap, q.handle, "ok")
                      ELSE Outcome(MemFree(MemFree(q.heap, h).heap, q.handle).heap, h, "failed")
    PROVE  Resizes(hp, r, h, new, limit)
<1> DEFINE f == MemFree(q.heap, h)
           e == MemFree(f.heap, q.handle)
           g == q.handle
<1>1. /\ HeapOK(q.heap, limit) /\ Keeps(hp, q.heap, NoHandle)
      /\ g # NoHandle => /\ g \in Handles /\ Live(q.heap, g) /\ Suits(q.heap, g, new)
                         /\ Live(hp, g) => g[1] = "spill"
      /\ g # NoHandle => IsDirect(g)
  <2>1. Allocates(hp, q, new, limit)
    BY MemAllocating
  <2>2. g # NoHandle => IsDirect(g)
    <3>1. q.handle = NoHandle \/ \E n : q.handle = AivHandle(n) \/ q.handle = SysHandle(n)
      BY Outcomes DEF MemAllocs, AivAllocs, SysAllocs
    <3> QED BY <3>1 DEF AivHandle, SysHandle, IsDirect
  <2> QED BY <2>1, <2>2 DEF Allocates
<1>2. h # NoHandle /\ Live(q.heap, h)
  BY <1>1 DEF Handles, NoHandle, Keeps
<1>3. g # NoHandle => ~Live(hp, g) /\ g # h
  BY <1>1 DEF IsDirect
<1>4. f = MemFree(q.heap, h)
  OBVIOUS
<1>5. e = MemFree(f.heap, g)
  OBVIOUS
<1>6. /\ g = NoHandle => r = Outcome(q.heap, h, "failed")
      /\ g # NoHandle /\ Ok(f) => r = Outcome(f.heap, g, "ok")
      /\ g # NoHandle /\ ~Ok(f) => r = Outcome(e.heap, h, "failed")
  OBVIOUS
<1> HIDE DEF f, e, g
<1>7. CASE g = NoHandle
  <2>1. r.heap = q.heap /\ r.status = "failed"
    BY <1>6, <1>7 DEF Outcome
  <2>2. Keeps(hp, q.heap, h)
    BY <1>1 DEF Keeps, Handles, NoHandle
  <2> QED BY <1>1, <2>1, <2>2 DEF Resizes, Ok
<1>8. CASE g # NoHandle
  <2>1. Frees(q.heap, f, h, limit)
    BY <1>1, <1>2, <1>4, MemFreeing
  <2>2. HeapOK(f.heap, limit) /\ Keeps(q.heap, f.heap, h) /\ (~Ok(f) => Keeps(q.heap, f.heap, NoHandle))
    BY <2>1 DEF Frees
  <2>3. CASE Ok(f)
    <3>1. r.heap = f.heap /\ r.status = "ok" /\ r.handle = g
      BY <1>6, <1>8, <2>3 DEF Outcome
    <3>2. Keeps(hp, f.heap, h)
      BY <1>1, <2>2, KeepsTransitive
    <3>3. g \in Handles /\ Live(f.heap, g) /\ SameBlock(q.heap, f.heap, g)
      BY <1>1, <1>3, <1>8, <2>2 DEF Keeps
    <3>4. Suits(f.heap, g, new)
      BY <1>1, <1>8, <3>3 DEF Suits, SameBlock
    <3> QED BY <1>3, <1>8, <2>2, <3>1, <3>2, <3>3, <3>4 DEF Resizes, Ok
  <2>4. CASE ~Ok(f)
    <3>1. r.heap = e.heap /\ r.status = "failed"
      BY <1>6, <1>8, <2>4 DEF Outcome
    <3>2. g \in Handles /\ Live(f.heap, g) /\ IsDirect(g)
      BY <1>1, <1>8, <2>2, <2>4 DEF Keeps, Handles, NoHandle
    <3>3. Frees(f.heap, e, g, limit)
      BY <1>5, <2>2, <3>2, MemFreeing
    <3>4. Keeps(hp, f.heap, NoHandle)
      BY <1>1, <2>2, <2>4, KeepsTransitive
    <3>5. HeapOK(e.heap, limit) /\ Keeps(f.heap, e.heap, g)
      BY <3>3 DEF Frees
    <3>6. Keeps(hp, e.heap, g)
      BY <3>4, <3>5, KeepsTransitive
    <3>7. Keeps(hp, e.heap, NoHandle) /\ Keeps(hp, e.heap, h)
      BY <1>3, <1>8, <3>6 DEF Keeps
    <3> QED BY <3>1, <3>5, <3>7 DEF Resizes, Ok
  <2> QED BY <2>3, <2>4
<1> QED BY <1>7, <1>8
LEMMA AivResizing ==
    ASSUME NEW limit \in Nat, NEW hp, HeapOK(hp, limit), NEW h, NEW size, NEW new,
           Asked(hp, h, size, new), h[1] = "aiv", NEW r \in AivResizes(hp, h, size, new)
    PROVE  Resizes(hp, r, h, new, limit)
<1> DEFINE o == h[2]
           a == hp.arena
           B == a.blocks
           mem == ResizedAccount(hp.mem, size, new)
           counted == [hp EXCEPT !.mem = mem]
<1>1. /\ hp = [top |-> hp.top, mem |-> hp.mem, arena |-> hp.arena,
               sys |-> hp.sys, store |-> hp.store, files |-> hp.files]
      /\ hp.top \in Account /\ hp.mem \in Account /\ Arena(a, limit)
  BY DEF HeapOK
<1>2. h \in Handles /\ Live(hp, h) /\ size \in Nat /\ new \in Nat \ {0} /\ new # size
  BY DEF Asked
<1>3. o \in DOMAIN B /\ ~B[o].free /\ B[o].alloc = size /\ size <= B[o].size /\ Tiled(B, limit)
  BY <1>1 DEF Asked, Live, Suits, Arena
<1>4. B[o].size \in Nat /\ Ends(B)[o] = o + Header + B[o].size + Footer
  BY <1>3, EndsAre
<1>5. mem \in Account
  BY <1>1, <1>2, ResizingAccount
<1>6. \/ /\ FitsInPlace(B[o], size, new)
         /\ r = Outcome([counted EXCEPT !.arena.blocks[o].alloc = new], h, "ok")
      \/ /\ ~FitsInPlace(B[o], size, new) /\ new < size
         /\ r = Outcome([counted EXCEPT !.arena = SplitAllocatedBlock(@, o, new)], h, "ok")
      \/ /\ ~(new < size) /\ RightMakesRoom(a, o, new - size)
         /\ r = Outcome([counted EXCEPT !.arena =
                           CoalesceFreeToAllocated(@, o, EndOf(a, o), new - size)], h, "ok")
      \/ \E q \in MemAllocs(counted, new) :
            r = IF q.handle = NoHandle THEN Outcome(q.heap, h, "failed")
                ELSE IF Ok(MemFree(q.heap, h)) THEN Outcome(MemFree(q.heap, h).heap, q.handle, "ok")
                ELSE Outcome(MemFree(MemFree(q.heap, h).heap, q.handle).heap, h, "failed")
  BY DEF AivResizes
<1> HIDE DEF mem
<1>7. counted = [top |-> hp.top, mem |-> mem, arena |-> hp.arena,
                 sys |-> hp.sys, store |-> hp.store, files |-> hp.files]
  BY <1>1
<1> HIDE DEF counted
<1>8. ASSUME NEW A, Held(a, A, o, new, limit),
             r = Outcome([top |-> hp.top, mem |-> mem, arena |-> A, sys |-> hp.sys,
                          store |-> hp.store, files |-> hp.files], h, "ok")
      PROVE  Resizes(hp, r, h, new, limit)
  BY <1>2, <1>5, <1>8, ResizedInArena
<1>9. CASE /\ FitsInPlace(B[o], size, new)
           /\ r = Outcome([counted EXCEPT !.arena.blocks[o].alloc = new], h, "ok")
  <2> DEFINE A == [a EXCEPT !.blocks[o].alloc = new]
  <2>1. [counted EXCEPT !.arena.blocks[o].alloc = new] =
          [top |-> hp.top, mem |-> mem, arena |-> A, sys |-> hp.sys, store |-> hp.store, files |-> hp.files]
    BY <1>7
  <2>2. A = [a EXCEPT !.blocks[o].alloc = new] /\ new \in Nat
    BY <1>2
  <2>6. FitsInPlace(B[o], size, new)
    BY <1>9
  <2> HIDE DEF A
  <2>3. Reallocated(a, A, o, new, limit)
    BY <1>1, <1>3, <2>2, LabelledAlloc
  <2>4. new <= B[o].size
    <3> DEFINE s == B[o].size
               z == B[o].alloc
    <3>1. \/ new > size /\ new - size <= s - z
          \/ new < size
      BY <2>6 DEF FitsInPlace
    <3>2. z = size /\ size <= s /\ s \in Nat
      BY <1>3, <1>4
    <3> HIDE DEF s, z
    <3>3. new <= s
      BY <1>2, <3>1, <3>2
    <3> QED BY <3>3 DEF s
  <2>5. Held(a, A, o, new, limit)
    BY <1>3, <2>3, <2>4 DEF Held, Reallocated
  <2> QED BY <1>8, <1>9, <2>1, <2>5
<1>10. CASE /\ ~FitsInPlace(B[o], size, new) /\ new < size
            /\ r = Outcome([counted EXCEPT !.arena = SplitAllocatedBlock(@, o, new)], h, "ok")
  <2> DEFINE A == SplitAllocatedBlock(a, o, new)
  <2>1. [counted EXCEPT !.arena = SplitAllocatedBlock(@, o, new)] =
          [top |-> hp.top, mem |-> mem, arena |-> A, sys |-> hp.sys, store |-> hp.store, files |-> hp.files]
    BY <1>7
  <2>2. A = SplitAllocatedBlock(a, o, new)
    OBVIOUS
  <2>6. ~FitsInPlace(B[o], size, new) /\ new < size
    BY <1>10
  <2> HIDE DEF A
  <2>3. B[o].size - new > MinFreeBlock
    <3> DEFINE s == B[o].size
               z == B[o].alloc
    <3>1. ~((s - z) + (size - new) <= MinFreeBlock)
      BY <2>6 DEF FitsInPlace
    <3>2. z = size /\ s \in Nat /\ MinFreeBlock \in Nat
      BY <1>3, <1>4, BlockAssumption DEF MinFreeBlock
    <3> HIDE DEF s, z
    <3>3. s - new > MinFreeBlock
      BY <1>2, <3>1, <3>2
    <3> QED BY <3>3 DEF s
  <2>4. Held(a, A, o, new, limit)
    BY <1>1, <1>2, <1>3, <2>2, <2>3, SplittingAllocated
  <2> QED BY <1>8, <1>10, <2>1, <2>4
<1>11. CASE /\ ~(new < size) /\ RightMakesRoom(a, o, new - size)
            /\ r = Outcome([counted EXCEPT !.arena =
                              CoalesceFreeToAllocated(@, o, EndOf(a, o), new - size)], h, "ok")
  <2> DEFINE f == EndOf(a, o)
             diff == new - size
             A == CoalesceFreeToAllocated(a, o, f, diff)
  <2>1. [counted EXCEPT !.arena = CoalesceFreeToAllocated(@, o, f, diff)] =
          [top |-> hp.top, mem |-> mem, arena |-> A, sys |-> hp.sys, store |-> hp.store, files |-> hp.files]
    BY <1>7
  <2>2. A = CoalesceFreeToAllocated(a, o, f, diff) /\ diff \in Nat \ {0}
    BY <1>2, <1>11
  <2>3. f \in DOMAIN B /\ B[f].free /\ B[f].size + Overhead + (B[o].size - B[o].alloc) >= diff
    BY <1>11 DEF RightMakesRoom, RightOf, Offsets
  <2>4. f \in FreeOf(B) /\ Ends(B)[o] = f
    BY <1>4, <2>3 DEF FreeOf, EndOf
  <2>5. B[o].alloc + diff = new /\ B[o].alloc <= B[o].size
    BY <1>2, <1>3
  <2> HIDE DEF A, f, diff
  <2>6. Held(a, A, o, B[o].alloc + diff, limit)
    BY <1>1, <1>3, <2>2, <2>3, <2>4, <2>5, Coalescing
  <2>7. Held(a, A, o, new, limit)
    BY <2>5, <2>6
  <2> QED BY <1>8, <1>11, <2>1, <2>7 DEF f, diff
<1>12. CASE \E q \in MemAllocs(counted, new) :
              r = IF q.handle = NoHandle THEN Outcome(q.heap, h, "failed")
                  ELSE IF Ok(MemFree(q.heap, h)) THEN Outcome(MemFree(q.heap, h).heap, q.handle, "ok")
                  ELSE Outcome(MemFree(MemFree(q.heap, h).heap, q.handle).heap, h, "failed")
  <2>1. HeapOK(counted, limit) /\ Keeps(hp, counted, NoHandle)
    BY <1>1, <1>5, <1>7, OtherAccounts
  <2>2. \A g : Live(counted, g) <=> Live(hp, g)
    BY <1>7 DEF Live
  <2>3. Resizes(counted, r, h, new, limit)
    <3>1. PICK q \in MemAllocs(counted, new) :
              r = IF q.handle = NoHandle THEN Outcome(q.heap, h, "failed")
                  ELSE IF Ok(MemFree(q.heap, h)) THEN Outcome(MemFree(q.heap, h).heap, q.handle, "ok")
                  ELSE Outcome(MemFree(MemFree(q.heap, h).heap, q.handle).heap, h, "failed")
      BY <1>12
    <3>2. IsDirect(h) /\ Live(counted, h)
      BY <1>2, <2>2 DEF IsDirect
    <3> QED BY <1>2, <2>1, <3>1, <3>2, Moving
  <2> QED BY <2>1, <2>3, CountedResize
<1> QED BY <1>6, <1>9, <1>10, <1>11, <1>12

LEMMA MemResizing ==
    ASSUME NEW limit \in Nat, NEW hp, HeapOK(hp, limit), NEW h, NEW size, NEW new,
           Asked(hp, h, size, new), IsDirect(h), NEW r \in MemResizes(hp, h, size, new)
    PROVE  Resizes(hp, r, h, new, limit)
<1>1. h[1] = "aiv" \/ h[1] = "sys"
  BY DEF Asked, Handles, IsDirect
<1>2. CASE ~CommonResizeAllows(hp.mem, size, new, MemLimit)
  <2>1. r.heap = hp /\ r.status = "failed"
    BY <1>2 DEF MemResizes, Outcome
  <2> QED BY <2>1, KeepsItself DEF Resizes, Ok
<1>3. CASE CommonResizeAllows(hp.mem, size, new, MemLimit)
  <2>1. CASE h[1] = "aiv"
    <3>1. r \in AivResizes(hp, h, size, new)
      BY <1>3, <2>1 DEF MemResizes
    <3> QED BY <2>1, <3>1, AivResizing
  <2>2. CASE h[1] = "sys"
    <3>1. r \in SysResizes(hp, h, size, new)
      BY <1>3, <2>2 DEF MemResizes
    <3> QED BY <2>2, <3>1, SysResizing
  <2> QED BY <1>1, <2>1, <2>2
<1> QED BY <1>2, <1>3
-----------------------------------------------------------------------------
(* The hybrid heap.                                                        *)

\* an object is stored under a number
LEMMA Storing ==
    ASSUME NEW limit \in Nat, NEW hp, HeapOK(hp, limit), NEW n, NEW b, b.size \in Nat,
           NEW top \in Account, NEW files \in Nat,
           NEW hq, hq = [top |-> top, mem |-> hp.mem, arena |-> hp.arena, sys |-> hp.sys,
                         store |-> Put(hp.store, n, b), files |-> files]
    PROVE  HeapOK(hq, limit) /\ Keeps(hp, hq, NoHandle) /\ Live(hq, SpillHandle(n))
<1> DEFINE S == Put(hp.store, n, b)
<1>1. WasPut(hp.store, S, n, b)
  BY PutSizes
<1> HIDE DEF S
<1>2. hq = [top |-> top, mem |-> hp.mem, arena |-> hp.arena, sys |-> hp.sys, store |-> S, files |-> files]
  BY DEF S
<1>3. /\ hq.arena = hp.arena /\ hq.sys = hp.sys /\ hq.store = S /\ hq.files = files
      /\ hq.top = top /\ hq.mem = hp.mem
  BY <1>2
<1>4. Sized(hp.store, S, n) /\ S[n] = b /\ n \in DOMAIN S /\ IsFiniteSet(DOMAIN S)
  BY <1>1 DEF WasPut, HeapOK
<1>5. HeapOK(hq, limit)
  BY <1>2, <1>3, <1>4 DEF HeapOK
<1>6. Live(hq, SpillHandle(n))
  BY <1>3, <1>4 DEF Live, SpillHandle
<1>7. Sized(hp.store, hq.store, n)
  BY <1>3, <1>4
<1>8. Keeps(hp, hq, NoHandle)
  BY <1>3, <1>6, <1>7, KeepsStore
<1> QED BY <1>5, <1>6, <1>8

LEMMA VramSpilling ==
    ASSUME NEW limit \in Nat, NEW hp, HeapOK(hp, limit), NEW size \in Nat \ {0}, setup.spill = "vram",
           NEW r \in VramSpills(hp, size)
    PROVE  Allocates(hp, r, size, limit)
<1> DEFINE n == Unused(hp.store)
           b == [size |-> size, file |-> 0, length |-> size]
           S == Put(hp.store, n, b)
           undone == DecrementUsage(hp.top, SpillOverhead + size)
           stored == [hp EXCEPT !.store = S]
<1>1. /\ hp = [top |-> hp.top, mem |-> hp.mem, arena |-> hp.arena,
               sys |-> hp.sys, store |-> hp.store, files |-> hp.files]
      /\ hp.top \in Account /\ IsFiniteSet(DOMAIN hp.store) /\ hp.files \in Nat
  BY DEF HeapOK
<1>2. undone \in Account
  <2>1. SpillOverhead + size \in Nat
    BY SizeAssumption
  <2> QED BY <1>1, <2>1, Accounting
<1>3. \/ r = Outcome(stored, SpillHandle(n), "ok")
      \/ r = Outcome(hp, NoHandle, "failed")
      \/ r = Outcome([stored EXCEPT !.top = undone], NoHandle, "failed")
  BY DEF VramSpills
<1>4. n \in Nat /\ n \notin DOMAIN hp.store
  BY <1>1, UnusedIsFree
<1>5. b.size \in Nat /\ S = Put(hp.store, n, b)
  OBVIOUS
<1> HIDE DEF n, b, S, undone
<1>6. stored = [top |-> hp.top, mem |-> hp.mem, arena |-> hp.arena,
                sys |-> hp.sys, store |-> Put(hp.store, n, b), files |-> hp.files]
  BY <1>1, <1>5
<1> HIDE DEF stored
<1>7. CASE r = Outcome(stored, SpillHandle(n), "ok")
  <2>1. r.heap = stored /\ r.handle = SpillHandle(n)
    BY <1>7 DEF Outcome
  <2>2. HeapOK(stored, limit) /\ Keeps(hp, stored, NoHandle) /\ Live(stored, SpillHandle(n))
    BY <1>1, <1>4, <1>5, <1>6, Storing
  <2>3. SpillHandle(n) \in Handles /\ ~Live(hp, SpillHandle(n)) /\ Suits(stored, SpillHandle(n), size)
    BY <1>4 DEF SpillHandle, Handles, Live, Suits, Spills
  <2> QED BY <2>1, <2>2, <2>3 DEF Allocates
<1>8. CASE r = Outcome(hp, NoHandle, "failed")
  <2>1. r.heap = hp /\ r.handle = NoHandle
    BY <1>8 DEF Outcome
  <2> QED BY <2>1, KeepsItself DEF Allocates
<1>9. CASE r = Outcome([stored EXCEPT !.top = undone], NoHandle, "failed")
  <2> DEFINE hq == r.heap
  <2>1. hq = [stored EXCEPT !.top = undone] /\ r.handle = NoHandle
    BY <1>9 DEF Outcome
  <2> HIDE DEF hq
  <2>2. hq = [top |-> undone, mem |-> hp.mem, arena |-> hp.arena,
              sys |-> hp.sys, store |-> Put(hp.store, n, b), files |-> hp.files]
    BY <1>6, <2>1
  <2>3. HeapOK(hq, limit) /\ Keeps(hp, hq, NoHandle)
    BY <1>1, <1>2, <1>4, <1>5, <2>2, Storing
  <2> QED BY <2>1, <2>3 DEF Allocates, hq
<1> QED BY <1>3, <1>7, <1>8, <1>9

LEMMA FileSpilling ==
    ASSUME NEW limit \in Nat, NEW hp, HeapOK(hp, limit), NEW size \in Nat \ {0}, setup.spill = "file",
           NEW r \in FileSpills(hp, size)
    PROVE  Allocates(hp, r, size, limit)
<1> DEFINE n == hp.files + 1
           b == [size |-> size, file |-> n, length |-> size]
           S == Put(hp.store, n, b)
           stored == [hp EXCEPT !.store = S]
<1>1. /\ hp = [top |-> hp.top, mem |-> hp.mem, arena |-> hp.arena,
               sys |-> hp.sys, store |-> hp.store, files |-> hp.files]
      /\ hp.top \in Account /\ hp.files \in Nat
  BY DEF HeapOK
<1>2. n \in Nat /\ b.size \in Nat /\ S = Put(hp.store, n, b)
  BY <1>1
<1>3. \/ r = Outcome([stored EXCEPT !.files = n], SpillHandle(n), "ok")
      \/ r = Outcome(hp, NoHandle, "failed")
      \/ r = Outcome(stored, NoHandle, "failed")
  BY DEF FileSpills
<1> HIDE DEF n, b, S
<1>4. stored = [top |-> hp.top, mem |-> hp.mem, arena |-> hp.arena,
                sys |-> hp.sys, store |-> Put(hp.store, n, b), files |-> hp.files]
  BY <1>1, <1>2
<1> HIDE DEF stored
<1>5. CASE r = Outcome([stored EXCEPT !.files = n], SpillHandle(n), "ok")
  <2> DEFINE hq == r.heap
  <2>1. hq = [stored EXCEPT !.files = n] /\ r.handle = SpillHandle(n)
    BY <1>5 DEF Outcome
  <2> HIDE DEF hq
  <2>2. hq = [top |-> hp.top, mem |-> hp.mem, arena |-> hp.arena,
              sys |-> hp.sys, store |-> Put(hp.store, n, b), files |-> n]
    BY <1>4, <2>1
  <2>3. HeapOK(hq, limit) /\ Keeps(hp, hq, NoHandle) /\ Live(hq, SpillHandle(n))
    BY <1>1, <1>2, <2>2, Storing
  <2>4. SpillHandle(n) \in Handles /\ SpillHandle(n)[1] = "spill" /\ Suits(hq, SpillHandle(n), size)
    BY <1>2 DEF SpillHandle, Handles, Suits, Spills
  <2> QED BY <2>1, <2>3, <2>4 DEF Allocates, hq
<1>6. CASE r = Outcome(hp, NoHandle, "failed")
  <2>1. r.heap = hp /\ r.handle = NoHandle
    BY <1>6 DEF Outcome
  <2> QED BY <2>1, KeepsItself DEF Allocates
<1>7. CASE r = Outcome(stored, NoHandle, "failed")
  <2>1. r.heap = stored /\ r.handle = NoHandle
    BY <1>7 DEF Outcome
  <2>2. HeapOK(stored, limit) /\ Keeps(hp, stored, NoHandle)
    BY <1>1, <1>2, <1>4, Storing
  <2> QED BY <2>1, <2>2 DEF Allocates
<1> QED BY <1>3, <1>5, <1>6, <1>7

\* a step that only counts, and then an allocation
LEMMA CountedAllocation ==
    ASSUME NEW limit, NEW hp, NEW hq, NEW r, NEW size,
           Keeps(hp, hq, NoHandle), Allocates(hq, r, size, limit)
    PROVE  Allocates(hp, r, size, limit)
<1>1. Keeps(hq, r.heap, NoHandle)
  BY DEF Allocates
<1>2. Keeps(hp, r.heap, NoHandle)
  BY <1>1, KeepsTransitive
<1>3. \A g \in Handles : ~Live(hq, g) => ~Live(hp, g)
  BY DEF Keeps, Handles, NoHandle
<1> QED BY <1>2, <1>3 DEF Allocates

LEMMA SpillAllocating ==
    ASSUME NEW limit \in Nat, NEW hp, HeapOK(hp, limit), NEW size \in Nat \ {0},
           setup.spill \in {"vram", "file"}, NEW r \in SpillAllocs(hp, size)
    PROVE  Allocates(hp, r, size, limit)
<1> DEFINE top == IncrementUsage(hp.top, SpillOverhead + size)
           counted == [hp EXCEPT !.top = top]
<1>1. /\ hp = [top |-> hp.top, mem |-> hp.mem, arena |-> hp.arena,
               sys |-> hp.sys, store |-> hp.store, files |-> hp.files]
      /\ hp.top \in Account /\ hp.mem \in Account
  BY DEF HeapOK
<1>2. top \in Account
  <2>1. SpillOverhead + size \in Nat
    BY SizeAssumption
  <2> QED BY <1>1, <2>1, Accounting
<1>3. PICK q \in MemAllocs(counted, size) :
        r \in IF q.handle # NoHandle THEN {q} ELSE Spilled(counted, size)
  BY DEF SpillAllocs
<1> HIDE DEF top
<1>4. counted = [top |-> top, mem |-> hp.mem, arena |-> hp.arena,
                 sys |-> hp.sys, store |-> hp.store, files |-> hp.files]
  BY <1>1
<1> HIDE DEF counted
<1>5. HeapOK(counted, limit) /\ Keeps(hp, counted, NoHandle)
  BY <1>1, <1>2, <1>4, OtherAccounts
<1>7. Allocates(counted, r, size, limit)
  <2>1. CASE q.handle # NoHandle
    <3>1. r = q
      BY <1>3, <2>1
    <3> QED BY <1>5, <3>1, MemAllocating
  <2>2. CASE q.handle = NoHandle
    <3>1. r \in Spilled(counted, size)
      BY <1>3, <2>2
    <3>2. CASE setup.spill = "vram"
      <4>1. r \in VramSpills(counted, size)
        BY <3>1, <3>2 DEF Spilled
      <4> QED BY <1>5, <3>2, <4>1, VramSpilling
    <3>3. CASE setup.spill = "file"
      <4>1. r \in FileSpills(counted, size)
        BY <3>1, <3>3 DEF Spilled
      <4> QED BY <1>5, <3>3, <4>1, FileSpilling
    <3> QED BY <3>2, <3>3
  <2> QED BY <2>1, <2>2
<1> QED BY <1>5, <1>7, CountedAllocation
LEMMA FoundFreeing ==
    ASSUME NEW limit \in Nat, NEW hp, HeapOK(hp, limit), NEW h \in Handles, Live(hp, h),
           NEW n \in Nat, NEW r \in FreesFound(hp, h, n)
    PROVE  Frees(hp, r, h, limit)
<1> DEFINE top == DecrementUsage(hp.top, n)
           counted == [hp EXCEPT !.top = top]
<1>1. /\ hp = [top |-> hp.top, mem |-> hp.mem, arena |-> hp.arena,
               sys |-> hp.sys, store |-> hp.store, files |-> hp.files]
      /\ hp.top \in Account /\ hp.mem \in Account
  BY DEF HeapOK
<1>3. top \in Account
    <2> QED BY <1>1, Accounting
<1>4. /\ ~CommonFreeAllows(hp.top, n) => r = Outcome(hp, h, "failed")
      /\ CommonFreeAllows(hp.top, n) /\ IsDirect(h) => r = MemFree(counted, h)
      /\ CommonFreeAllows(hp.top, n) /\ ~IsDirect(h) => r \in FileFrees(counted, h)
  BY DEF FreesFound
<1> HIDE DEF top
<1>5. counted = [top |-> top, mem |-> hp.mem, arena |-> hp.arena,
                 sys |-> hp.sys, store |-> hp.store, files |-> hp.files]
  BY <1>1
<1> HIDE DEF counted
<1>6. HeapOK(counted, limit) /\ Keeps(hp, counted, NoHandle)
  BY <1>1, <1>3, <1>5, OtherAccounts
<1>7. Live(counted, h)
  BY <1>5 DEF Live
<1>8. CASE ~CommonFreeAllows(hp.top, n)
  <2>1. r.heap = hp /\ r.status = "failed"
    BY <1>4, <1>8 DEF Outcome
  <2> QED BY <2>1, KeepsItself DEF Frees
<1>9. CASE CommonFreeAllows(hp.top, n)
  <2>1. Frees(counted, r, h, limit)
    <3>1. CASE IsDirect(h)
      <4>1. r = MemFree(counted, h)
        BY <1>4, <1>9, <3>1
      <4> QED BY <1>6, <1>7, <3>1, <4>1, MemFreeing
    <3>2. CASE ~IsDirect(h)
      <4> DEFINE m == h[2]
                 S == Drop(counted.store, m)
                 hq == [counted EXCEPT !.store = S]
      <4>1. r = Outcome(hq, NoHandle, "ok") \/ r = Outcome(counted, h, "failed")
        BY <1>4, <1>9, <3>2 DEF FileFrees
      <4>2. CASE r = Outcome(counted, h, "failed")
        <5>1. r.heap = counted /\ r.status = "failed"
          BY <4>2 DEF Outcome
        <5> QED BY <1>6, <5>1, KeepsItself DEF Frees
      <4>3. CASE r = Outcome(hq, NoHandle, "ok")
        <5>1. r.heap = hq /\ r.status = "ok"
          BY <4>3 DEF Outcome
        <5>2. S = Drop(counted.store, m)
          OBVIOUS
        <5> HIDE DEF S
        <5>3. hq = [top |-> top, mem |-> hp.mem, arena |-> hp.arena,
                    sys |-> hp.sys, store |-> S, files |-> hp.files]
          BY <1>5
        <5> HIDE DEF hq
        <5>4. /\ hq.arena = counted.arena /\ hq.sys = counted.sys /\ hq.store = S
              /\ hq.files = counted.files /\ hq.top = counted.top /\ hq.mem = counted.mem
          BY <1>5, <5>3
        <5>5. Sized(counted.store, S, m) /\ IsFiniteSet(DOMAIN S)
          BY <1>6, <5>2, DropSizes DEF HeapOK
        <5>6. HeapOK(hq, limit)
          BY <1>5, <1>6, <5>3, <5>4, <5>5 DEF HeapOK
        <5>7. h = SpillHandle(m)
          BY <3>2 DEF Handles, SpillHandle, IsDirect
        <5>8. Sized(counted.store, hq.store, m)
          BY <5>4, <5>5
        <5>9. Keeps(counted, hq, h)
          BY <5>4, <5>7, <5>8, KeepsStore
        <5> QED BY <5>1, <5>6, <5>9 DEF Frees, Ok
      <4> QED BY <4>1, <4>2, <4>3
    <3> QED BY <3>1, <3>2
  <2>2. Keeps(counted, r.heap, h) /\ (~Ok(r) => Keeps(counted, r.heap, NoHandle)) /\ HeapOK(r.heap, limit)
    BY <2>1 DEF Frees
  <2>3. Keeps(hp, r.heap, h) /\ (~Ok(r) => Keeps(hp, r.heap, NoHandle))
    BY <1>6, <2>2, KeepsTransitive
  <2> QED BY <2>2, <2>3 DEF Frees
<1> QED BY <1>8, <1>9

LEMMA SizesFoundNat ==
    ASSUME NEW limit \in Nat, NEW hp, HeapOK(hp, limit), NEW h \in Handles, Live(hp, h), NEW n \in SizesFound(hp, h)
    PROVE  n \in Nat
<1> DEFINE full == SpillAllocationSize(hp, h)
<1>1. full \in Nat
  <2>1. CASE IsDirect(h)
    <3> DEFINE k == MemAllocationSize(hp, h) - Overhead
    <3>1. k \in Nat
      BY <2>1, LiveSizes
    <3>2. full = k + SpillOverhead
      BY <2>1 DEF SpillAllocationSize
    <3> HIDE DEF k, full
    <3> QED BY <3>1, <3>2, SizeAssumption
  <2>2. CASE ~IsDirect(h)
    <3>1. hp.store[h[2]].size \in Nat
      BY <2>2 DEF Live, IsDirect
    <3> QED BY <2>2, <3>1, SizeAssumption DEF SpillAllocationSize
  <2> QED BY <2>1, <2>2
<1>2. n = full \/ n = SpillOverhead
  BY DEF SizesFound
<1> QED BY <1>1, <1>2, SizeAssumption

\* hybridHeapFree and hybridFileHeapFree, whatever size they find
LEMMA SpillFreeing ==
    ASSUME NEW limit \in Nat, NEW hp, HeapOK(hp, limit), NEW h \in Handles, Live(hp, h), NEW r \in SpillFrees(hp, h)
    PROVE  Frees(hp, r, h, limit)
<1>1. CASE \E n \in SizesFound(hp, h) : r \in FreesFound(hp, h, n)
  BY <1>1, SizesFoundNat, FoundFreeing
<1>2. CASE r = Outcome(hp, h, "failed")
  <2>1. r.heap = hp /\ r.status = "failed"
    BY <1>2 DEF Outcome
  <2> QED BY <2>1, KeepsItself DEF Frees
<1> DEFINE Found == UNION {FreesFound(hp, h, n) : n \in SizesFound(hp, h)}
           Unlocked == IF setup.spill = "vram" THEN Refused(hp, h) ELSE {}
<1>3. r \in Unlocked => r = Outcome(hp, h, "failed")
  BY DEF Refused
<1>4. r \in Found => \E n \in SizesFound(hp, h) : r \in FreesFound(hp, h, n)
  OBVIOUS
<1>5. SpillFrees(hp, h) = Found \cup Unlocked
  BY DEF SpillFrees
<1> HIDE DEF Found, Unlocked
<1>6. r \in Found \/ r \in Unlocked
  BY <1>5
<1> QED BY <1>1, <1>2, <1>3, <1>4, <1>6

\* hybridHeapSetAllocSize allocates, and then frees
LEMMA VramMoving ==
    ASSUME NEW limit \in Nat, NEW hp, HeapOK(hp, limit), NEW h \in Handles, Live(hp, h),
           setup.spill = "vram", NEW new \in Nat \ {0}, NEW r \in VramMoves(hp, h, new)
    PROVE  Resizes(hp, r, h, new, limit)
<1>1. PICK q \in IF Fits(hp.top, SpillOverhead + new, setup.limit) THEN SpillAllocs(hp, new)
                 ELSE {Outcome(hp, NoHandle, "ok")} :
         r \in IF q.handle = NoHandle THEN {Outcome(q.heap, h, "failed")}
               ELSE {IF Ok(f) THEN Outcome(f.heap, q.handle, "ok") ELSE Outcome(f.heap, h, "failed") :
                     f \in SpillFrees(q.heap, h)} \cup {Outcome(q.heap, h, "failed")}
  BY DEF VramMoves, Refused
<1> DEFINE g == q.handle
<1>2. Allocates(hp, q, new, limit)
  <2>1. CASE Fits(hp.top, SpillOverhead + new, setup.limit)
    <3>1. q \in SpillAllocs(hp, new)
      BY <1>1, <2>1
    <3> QED BY <3>1, SpillAllocating
  <2>2. CASE ~Fits(hp.top, SpillOverhead + new, setup.limit)
    <3>1. q.heap = hp /\ q.handle = NoHandle
      BY <1>1, <2>2 DEF Outcome
    <3> QED BY <3>1, KeepsItself DEF Allocates
  <2> QED BY <2>1, <2>2
<1>3. /\ HeapOK(q.heap, limit) /\ Keeps(hp, q.heap, NoHandle)
      /\ g # NoHandle => g \in Handles /\ Live(q.heap, g) /\ Suits(q.heap, g, new) /\ ~Live(hp, g)
  BY <1>2 DEF Allocates
<1>4. Live(q.heap, h) /\ (g # NoHandle => g # h)
  BY <1>3 DEF Keeps, Handles, NoHandle
<1>5. CASE r = Outcome(q.heap, h, "failed")
  <2>1. r.heap = q.heap /\ r.status = "failed"
    BY <1>5 DEF Outcome
  <2>2. Keeps(hp, q.heap, h)
    BY <1>3 DEF Keeps, Handles, NoHandle
  <2> QED BY <1>3, <2>1, <2>2 DEF Resizes, Ok
<1>6. CASE g # NoHandle /\ r # Outcome(q.heap, h, "failed")
  <2>1. PICK f \in SpillFrees(q.heap, h) :
          r = IF Ok(f) THEN Outcome(f.heap, g, "ok") ELSE Outcome(f.heap, h, "failed")
    BY <1>1, <1>6
  <2> HIDE DEF g
  <2>2. Frees(q.heap, f, h, limit)
    BY <1>3, <1>4, SpillFreeing
  <2>3. HeapOK(f.heap, limit) /\ Keeps(q.heap, f.heap, h) /\ (~Ok(f) => Keeps(q.heap, f.heap, NoHandle))
    BY <2>2 DEF Frees
  <2>4. Keeps(hp, f.heap, h) /\ (~Ok(f) => Keeps(hp, f.heap, NoHandle))
    BY <1>3, <2>3, KeepsTransitive
  <2>5. CASE Ok(f)
    <3>1. r.heap = f.heap /\ r.status = "ok" /\ r.handle = g
      BY <2>1, <2>5 DEF Outcome
    <3>2. g \in Handles /\ Live(f.heap, g) /\ SameBlock(q.heap, f.heap, g)
      BY <1>3, <1>4, <1>6, <2>3 DEF Keeps
    <3>3. Suits(f.heap, g, new)
      BY <1>3, <1>6, <3>2 DEF Suits, SameBlock
    <3> QED BY <1>3, <1>6, <2>3, <2>4, <3>1, <3>2, <3>3 DEF Resizes, Ok
  <2>6. CASE ~Ok(f)
    <3>1. r.heap = f.heap /\ r.status = "failed"
      BY <2>1, <2>6 DEF Outcome
    <3> QED BY <2>3, <2>4, <2>6, <3>1 DEF Resizes, Ok
  <2> QED BY <2>5, <2>6
<1>7. g = NoHandle => r = Outcome(q.heap, h, "failed")
  BY <1>1
<1> QED BY <1>5, <1>6, <1>7

LEMMA FileResizing ==
    ASSUME NEW limit \in Nat, NEW hp, HeapOK(hp, limit), NEW h \in Handles, Live(hp, h), ~IsDirect(h),
           NEW new \in Nat \ {0}, NEW r \in FileResizes(hp, h, new)
    PROVE  Resizes(hp, r, h, new, limit)
<1> DEFINE n == h[2]
           b == [size |-> new, file |-> 0, length |-> new]
           S == [hp.store EXCEPT ![n] = b]
           torn == [hp.store EXCEPT ![n].length = new]
<1>1. /\ hp = [top |-> hp.top, mem |-> hp.mem, arena |-> hp.arena,
               sys |-> hp.sys, store |-> hp.store, files |-> hp.files]
      /\ IsFiniteSet(DOMAIN hp.store)
  BY DEF HeapOK
<1>2. \/ r = Outcome([hp EXCEPT !.store[n] = b], h, "ok")
      \/ r = Outcome([hp EXCEPT !.store[n].length = new], h, "failed")
      \/ r = Outcome(hp, h, "failed")
  BY DEF FileResizes
<1>3. h = SpillHandle(n) /\ n \in DOMAIN hp.store
  BY DEF Handles, SpillHandle, Live, IsDirect
<1>4. DOMAIN S = DOMAIN hp.store /\ S[n].size \in Nat /\ \A m \in DOMAIN hp.store \ {n} : S[m] = hp.store[m]
  BY <1>3
<1> HIDE DEF S, b
<1>5. CASE r = Outcome([hp EXCEPT !.store[n] = b], h, "ok")
  <2> DEFINE hq == r.heap
  <2>1. hq = [hp EXCEPT !.store[n] = b] /\ r.handle = h /\ r.status = "ok"
    BY <1>5 DEF Outcome
  <2> HIDE DEF hq
  <2>2. hq = [top |-> hp.top, mem |-> hp.mem, arena |-> hp.arena,
              sys |-> hp.sys, store |-> S, files |-> hp.files]
    BY <1>1, <2>1 DEF S
  <2>3. /\ hq.arena = hp.arena /\ hq.sys = hp.sys /\ hq.store = S /\ hq.files = hp.files
        /\ hq.top = hp.top /\ hq.mem = hp.mem
    BY <2>2
  <2>4. HeapOK(hq, limit)
    BY <1>1, <1>4, <2>2, <2>3 DEF HeapOK
  <2>5. Sized(hp.store, hq.store, n)
    BY <1>4, <2>3 DEF Sized
  <2>6. Keeps(hp, hq, h)
    BY <1>3, <2>3, <2>5, KeepsStore
  <2>7. Live(hq, h) /\ Suits(hq, h, new)
    BY <1>3, <1>4, <2>3 DEF Live, Suits, SpillHandle
  <2> QED BY <2>1, <2>4, <2>6, <2>7 DEF Resizes, Ok, hq
<1>6. CASE r = Outcome(hp, h, "failed")
  <2>1. r.heap = hp /\ r.status = "failed"
    BY <1>6 DEF Outcome
  <2> QED BY <2>1, KeepsItself DEF Resizes, Ok
<1>7. CASE r = Outcome([hp EXCEPT !.store[n].length = new], h, "failed")
  <2> DEFINE hq == r.heap
  <2>1. hq = [hp EXCEPT !.store[n].length = new] /\ r.status = "failed"
    BY <1>7 DEF Outcome
  <2> HIDE DEF hq
  <2>2. hq = [top |-> hp.top, mem |-> hp.mem, arena |-> hp.arena,
              sys |-> hp.sys, store |-> torn, files |-> hp.files]
    <3>1. hq = [hp EXCEPT !.store = torn]
      BY Zenon, <2>1
    <3> HIDE DEF torn
    <3> QED BY <1>1, <3>1
  <2>3. hp.store[n].size \in Nat
    BY <1>3 DEF Live, SpillHandle
  <2>4. DOMAIN torn = DOMAIN hp.store /\ torn[n].size = hp.store[n].size /\ \A m \in DOMAIN hp.store \ {n} : torn[m] = hp.store[m]
    <3> DEFINE short == [hp.store[n] EXCEPT !.length = new]
    <3>1. short.size = hp.store[n].size
      OBVIOUS
    <3>2. torn = [hp.store EXCEPT ![n] = short]
      OBVIOUS
    <3> HIDE DEF torn, short
    <3> QED BY <1>3, <3>1, <3>2
  <2> HIDE DEF torn
  <2>5. /\ hq.arena = hp.arena /\ hq.sys = hp.sys /\ hq.store = torn /\ hq.files = hp.files
        /\ hq.top = hp.top /\ hq.mem = hp.mem
    BY <2>2
  <2>6. HeapOK(hq, limit)
    BY <1>1, <2>2, <2>4, <2>5 DEF HeapOK
  <2>7. \A g : Live(hp, g) => Live(hq, g) /\ SameBlock(hp, hq, g)
    BY <2>4, <2>5 DEF Live, SameBlock
  <2>8. Keeps(hp, hq, h) /\ Keeps(hp, hq, NoHandle)
    BY <2>7 DEF Keeps
  <2> QED BY <2>1, <2>6, <2>8 DEF Resizes, Ok, hq
<1> QED BY <1>2, <1>5, <1>6, <1>7

LEMMA SpillResizing ==
    ASSUME NEW limit \in Nat, NEW hp, HeapOK(hp, limit), NEW h, NEW size, NEW new,
           Asked(hp, h, size, new), setup.spill \in {"vram", "file"}, NEW r \in SpillResizes(hp, h, size, new)
    PROVE  Resizes(hp, r, h, new, limit)
<1> DEFINE top == ResizedAccount(hp.top, size, new)
           counted == [hp EXCEPT !.top = top]
           moves(hq) == IF setup.spill = "vram" THEN VramMoves(hq, h, new)
                        ELSE IF IsDirect(h) THEN {Outcome(hq, h, "failed")}
                        ELSE FileResizes(hq, h, new)
<1>1. /\ hp = [top |-> hp.top, mem |-> hp.mem, arena |-> hp.arena,
               sys |-> hp.sys, store |-> hp.store, files |-> hp.files]
      /\ hp.top \in Account /\ hp.mem \in Account
  BY DEF HeapOK
<1>2. h \in Handles /\ Live(hp, h) /\ Suits(hp, h, size) /\ size \in Nat /\ new \in Nat \ {0} /\ new # size
  BY DEF Asked
<1>3. top \in Account
  BY <1>1, <1>2, ResizingAccount
<1>4. \/ r = Outcome(hp, h, "failed")
      \/ ~IsDirect(h) /\ r \in moves(counted)
      \/ IsDirect(h) /\ \E q \in MemResizes(counted, h, size, new) :
                            r \in IF q.status = "realloc" THEN moves(q.heap) ELSE {q}
  BY DEF SpillResizes, Refused
<1> HIDE DEF top
<1>5. counted = [top |-> top, mem |-> hp.mem, arena |-> hp.arena,
                 sys |-> hp.sys, store |-> hp.store, files |-> hp.files]
  BY <1>1
<1> HIDE DEF counted
<1>6. HeapOK(counted, limit) /\ Keeps(hp, counted, NoHandle)
  BY <1>1, <1>3, <1>5, OtherAccounts
<1>7. Live(counted, h) /\ Suits(counted, h, size)
  BY <1>2, <1>5 DEF Live, Suits
<1>8. ASSUME NEW hq, HeapOK(hq, limit), Live(hq, h), r \in moves(hq)
      PROVE  Resizes(hq, r, h, new, limit)
  <2>1. CASE setup.spill = "vram"
    <3>1. r \in VramMoves(hq, h, new)
      BY <1>8, <2>1
    <3> QED BY <1>2, <1>8, <2>1, <3>1, VramMoving
  <2>2. CASE setup.spill # "vram" /\ IsDirect(h)
    <3>1. r = Outcome(hq, h, "failed")
      BY <1>8, <2>2
    <3>2. r.heap = hq /\ r.status = "failed"
      BY <3>1 DEF Outcome
    <3> QED BY <1>8, <3>2, KeepsItself DEF Resizes, Ok
  <2>3. CASE setup.spill # "vram" /\ ~IsDirect(h)
    <3>1. r \in FileResizes(hq, h, new)
      BY <1>8, <2>3
    <3> QED BY <1>2, <1>8, <2>3, <3>1, FileResizing
  <2> QED BY <2>1, <2>2, <2>3
<1> HIDE DEF moves
<1>9. CASE r = Outcome(hp, h, "failed")
  <2>1. r.heap = hp /\ r.status = "failed"
    BY <1>9 DEF Outcome
  <2> QED BY <2>1, KeepsItself DEF Resizes, Ok
<1>10. CASE ~IsDirect(h) /\ r \in moves(counted)
  <2>1. Resizes(counted, r, h, new, limit)
    BY <1>6, <1>7, <1>8, <1>10
  <2> QED BY <1>6, <2>1, CountedResize
<1>11. CASE IsDirect(h) /\ \E q \in MemResizes(counted, h, size, new) :
                              r \in IF q.status = "realloc" THEN moves(q.heap) ELSE {q}
  <2>1. PICK q \in MemResizes(counted, h, size, new) :
          r \in IF q.status = "realloc" THEN moves(q.heap) ELSE {q}
    BY <1>11
  <2>2. Asked(counted, h, size, new)
    BY <1>2, <1>7 DEF Asked
  <2>3. Resizes(counted, q, h, new, limit)
    BY <1>6, <1>11, <2>2, MemResizing
  <2>4. CASE q.status # "realloc"
    <3>1. r = q
      BY <2>1, <2>4
    <3> QED BY <1>6, <2>3, <3>1, CountedResize
  <2>5. CASE q.status = "realloc"
    <3>1. r \in moves(q.heap) /\ ~Ok(q)
      BY <2>1, <2>5 DEF Ok
    <3>2. HeapOK(q.heap, limit) /\ Keeps(counted, q.heap, NoHandle)
      BY <2>3, <3>1 DEF Resizes
    <3>3. Live(q.heap, h)
      BY <1>2, <1>7, <3>2 DEF Keeps, Handles, NoHandle
    <3>4. Resizes(q.heap, r, h, new, limit)
      BY <1>8, <3>1, <3>2, <3>3
    <3>5. Resizes(counted, r, h, new, limit)
      BY <3>2, <3>4, CountedResize
    <3> QED BY <1>6, <3>5, CountedResize
  <2> QED BY <2>4, <2>5
<1> QED BY <1>4, <1>9, <1>10, <1>11

-----------------------------------------------------------------------------
(* The heap and its client.                                                *)

Serves(hp, h, size) == h \in Handles /\ Live(hp, h) /\ Suits(hp, h, size)

HeapInv ==
    /\ TypeOK
    /\ HeapOK(heap, MemLimit)
    /\ \A h \in DOMAIN owned : Serves(heap, h, owned[h])

LEMMA Limits ==
    ASSUME NEW s \in Setups
    PROVE  LimitOf(s) \in Nat /\ LimitOf(s) > Overhead
<1> DEFINE part == IF s.spill # "none" THEN (s.limit * s.ratio) \div 100 ELSE s.limit
<1>1. s.limit \in Nat /\ s.ratio \in Nat
  BY SetupAssumption
<1>2. s.limit * s.ratio \in Nat
  BY <1>1
<1>3. part \in Nat
  <2> DEFINE p == s.limit * s.ratio
  <2> HIDE DEF p
  <2>1. p \in Nat => p \div 100 \in Nat
    OBVIOUS
  <2> QED BY <1>1, <1>2, <2>1 DEF p
<1>4. Packed(part) \in Nat
  <2> HIDE DEF part
  <2> QED BY <1>3, PackedBounds
<1>5. LimitOf(s) = part \/ LimitOf(s) = Packed(part)
  BY DEF LimitOf
<1> QED BY <1>3, <1>4, <1>5, SetupAssumption

LEMMA HeapStarts == Init => HeapInv
<1> SUFFICES ASSUME Init PROVE HeapInv
  OBVIOUS
<1>1. setup \in Setups /\ MemLimit \in Nat /\ MemLimit > Overhead
  BY Limits DEF Init, MemLimit
<1>2. Arena(NewArena(MemLimit), MemLimit)
  BY <1>1, NewlyMade
<1>3. NewAccount \in Account
  BY DEF NewAccount, Account
<1>4. DOMAIN << >> = {} /\ IsFiniteSet({})
  BY FS_EmptySet
<1>5. heap = [top |-> NewAccount, mem |-> NewAccount, arena |-> NewArena(MemLimit),
              sys |-> <<>>, store |-> <<>>, files |-> 0] /\ owned = <<>>
  BY DEF Init
<1>6. HeapOK(heap, MemLimit)
  <2> DEFINE a == NewArena(MemLimit)
             l == MemLimit
             n == NewAccount
  <2>1. Arena(a, l) /\ n \in Account
    BY <1>2, <1>3
  <2>2. heap = [top |-> n, mem |-> n, arena |-> a, sys |-> <<>>, store |-> <<>>, files |-> 0]
    BY <1>5
  <2> HIDE DEF a, l, n
  <2>3. HeapOK(heap, l)
    BY <1>4, <2>1, <2>2 DEF HeapOK
  <2> QED BY <2>3 DEF l
<1>7. TypeOK
  <2>1. heap.top \in Account /\ heap.mem \in Account
    BY <1>6 DEF HeapOK
  <2>2. released \in BOOLEAN /\ resizes = 0 /\ faults = 0
    BY DEF Init
  <2>3. MaxResizes \in Nat /\ MaxFaults \in Nat
    BY SizeAssumption
  <2>4. \A h \in DOMAIN owned : owned[h] \in Sizes
    BY <1>4, <1>5
  <2>5. resizes \in 0 .. MaxResizes /\ faults \in 0 .. MaxFaults
    BY <2>2, <2>3
  <2> QED BY <1>1, <2>1, <2>2, <2>4, <2>5 DEF TypeOK
<1> QED BY <1>4, <1>5, <1>6, <1>7 DEF HeapInv
LEMMA Served ==
    ASSUME HeapInv
    PROVE  /\ setup \in Setups /\ MemLimit \in Nat /\ MemLimit > Overhead /\ HeapOK(heap, MemLimit)
           /\ Spills => setup.spill \in {"vram", "file"}
           /\ \A h \in DOMAIN owned : owned[h] \in Sizes /\ Serves(heap, h, owned[h])
           /\ faults \in Nat /\ resizes \in Nat /\ MaxFaults \in Nat /\ MaxResizes \in Nat
<1>1. setup \in Setups
  BY DEF HeapInv, TypeOK
<1>2. MemLimit \in Nat /\ MemLimit > Overhead
  BY <1>1, Limits DEF MemLimit
<1>3. Spills => setup.spill \in {"vram", "file"}
  BY <1>1, SetupAssumption DEF Spills
<1>4. faults \in Nat /\ resizes \in Nat /\ MaxFaults \in Nat /\ MaxResizes \in Nat
  BY SizeAssumption DEF HeapInv, TypeOK
<1> QED BY <1>1, <1>2, <1>3, <1>4 DEF HeapInv, TypeOK

\* what OthersUntouched says of a step
Untouched ==
    \A h \in DOMAIN owned \cap DOMAIN owned' :
        h[1] = "aiv" /\ owned'[h] = owned[h] =>
            /\ h[2] \in DOMAIN heap'.arena.blocks
            /\ heap'.arena.blocks[h[2]] = heap.arena.blocks[h[2]]

LEMMA ServesOn ==
    ASSUME NEW hp, NEW hq, NEW h, NEW g, NEW size, Serves(hp, h, size), Keeps(hp, hq, g), h # g
    PROVE  Serves(hq, h, size) /\ SameBlock(hp, hq, h)
BY DEF Serves, Keeps, Suits, SameBlock

\* the rest of the types
LEMMA TypesKept ==
    ASSUME HeapInv, HeapOK(heap', MemLimit), setup' = setup, released' \in BOOLEAN,
           \A h \in DOMAIN owned' : owned'[h] \in Sizes /\ Serves(heap', h, owned'[h]),
           resizes' \in 0 .. MaxResizes, faults' \in 0 .. MaxFaults
    PROVE  HeapInv'
<1>1. MemLimit' = MemLimit
  BY DEF MemLimit
<1>2. heap'.top \in Account /\ heap'.mem \in Account
  BY DEF HeapOK
<1>3. TypeOK'
  BY <1>2 DEF TypeOK, HeapInv
<1>4. Handles' = Handles
  BY DEF Handles, Spills
<1>5. \A h \in DOMAIN owned' : h \in Handles' /\ Live(heap', h) /\ Suits(heap', h, owned'[h])
  BY <1>4 DEF Serves
<1> QED BY <1>1, <1>3, <1>5 DEF HeapInv, Serves

LEMMA CountedTypes ==
    ASSUME HeapInv, NEW r, Counted(r)
    PROVE  faults' \in 0 .. MaxFaults
<1>1. faults \in Nat /\ MaxFaults \in Nat
  BY Served
<1>2. faults' <= MaxFaults /\ (faults' = faults \/ faults' = faults + 1)
  BY DEF Counted
<1> QED BY <1>1, <1>2

LEMMA AllocKeeps ==
    ASSUME HeapInv, NEW size \in Sizes, Alloc(size), released' = released
    PROVE  HeapInv' /\ Untouched
<1>1. /\ MemLimit \in Nat /\ HeapOK(heap, MemLimit) /\ (Spills => setup.spill \in {"vram", "file"})
      /\ \A h \in DOMAIN owned : owned[h] \in Sizes /\ Serves(heap, h, owned[h])
  BY Served
<1>2. PICK r \in HeapAllocs(size) :
          /\ heap' = r.heap
          /\ owned' = IF r.handle = NoHandle THEN owned ELSE Put(owned, r.handle, size)
          /\ Counted(r)
  BY DEF Alloc
<1>3. size \in Nat \ {0}
  BY SizeAssumption
<1>4. Allocates(heap, r, size, MemLimit)
  <2>1. CASE ~Spills
    <3>1. r \in MemAllocs(heap, size)
      BY <1>2, <2>1 DEF HeapAllocs
    <3> QED BY <1>1, <1>3, <3>1, MemAllocating
  <2>2. CASE Spills /\ Fits(heap.top, SpillOverhead + size, setup.limit)
    <3>1. r \in SpillAllocs(heap, size)
      BY <1>2, <2>2 DEF HeapAllocs
    <3> QED BY <1>1, <1>3, <2>2, <3>1, SpillAllocating
  <2>3. CASE Spills /\ ~Fits(heap.top, SpillOverhead + size, setup.limit)
    <3>1. r = Outcome(heap, NoHandle, "ok")
      BY <1>2, <2>3 DEF HeapAllocs
    <3>2. r.heap = heap /\ r.handle = NoHandle
      BY <3>1 DEF Outcome
    <3> QED BY <1>1, <3>2, KeepsItself DEF Allocates
  <2> QED BY <2>1, <2>2, <2>3
<1>5. /\ HeapOK(heap', MemLimit) /\ Keeps(heap, heap', NoHandle)
      /\ r.handle # NoHandle => Serves(heap', r.handle, size)
  BY <1>2, <1>4 DEF Allocates, Serves
<1>6. \A h \in DOMAIN owned : Serves(heap', h, owned[h]) /\ SameBlock(heap, heap', h)
  <2>1. \A h \in DOMAIN owned : h # NoHandle
    BY <1>1 DEF Serves, Handles, NoHandle
  <2> QED BY <1>1, <1>5, <2>1, ServesOn
<1>7. \A h \in DOMAIN owned' :
        \/ h \in DOMAIN owned /\ owned'[h] = owned[h]
        \/ r.handle # NoHandle /\ h = r.handle /\ owned'[h] = size
  <2>1. CASE r.handle = NoHandle
    BY <1>2, <2>1
  <2>2. CASE r.handle # NoHandle
    BY <1>2, <2>2 DEF Put
  <2> QED BY <2>1, <2>2
<1>8. \A h \in DOMAIN owned' : owned'[h] \in Sizes /\ Serves(heap', h, owned'[h])
  BY <1>1, <1>5, <1>6, <1>7
<1>9. HeapInv'
  <2>1. setup' = setup /\ resizes' = resizes
    BY DEF Alloc
  <2>2. released' \in BOOLEAN /\ resizes' \in 0 .. MaxResizes
    BY <2>1 DEF HeapInv, TypeOK
  <2>3. faults' \in 0 .. MaxFaults
    BY <1>2, CountedTypes
  <2> QED BY <1>5, <1>8, <2>1, <2>2, <2>3, TypesKept
<1>10. Untouched
  <2> SUFFICES ASSUME NEW h \in DOMAIN owned \cap DOMAIN owned', h[1] = "aiv"
               PROVE  /\ h[2] \in DOMAIN heap'.arena.blocks
                      /\ heap'.arena.blocks[h[2]] = heap.arena.blocks[h[2]]
    BY DEF Untouched
  <2>1. Serves(heap', h, owned[h]) /\ SameBlock(heap, heap', h)
    BY <1>6
  <2> QED BY <2>1 DEF Serves, Live, SameBlock
<1> QED BY <1>9, <1>10
\* what is kept and served stays untouched
LEMMA UntouchedWhere ==
    ASSUME HeapInv,
           \A h \in DOMAIN owned \cap DOMAIN owned' : h[1] = "aiv" /\ owned'[h] = owned[h] =>
               Live(heap', h) /\ SameBlock(heap, heap', h)
    PROVE  Untouched
BY DEF Untouched, Live, SameBlock

LEMMA FreeKeeps ==
    ASSUME HeapInv, NEW h \in DOMAIN owned, Free(h), released' = released
    PROVE  HeapInv' /\ Untouched
<1>1. /\ MemLimit \in Nat /\ HeapOK(heap, MemLimit) /\ (Spills => setup.spill \in {"vram", "file"})
      /\ \A g \in DOMAIN owned : owned[g] \in Sizes /\ Serves(heap, g, owned[g])
  BY Served
<1>2. PICK r \in IF Spills THEN SpillFrees(heap, h) ELSE {MemFree(heap, h)} :
          heap' = r.heap /\ Counted(r)
  BY DEF Free
<1>3. h \in Handles /\ Live(heap, h)
  BY <1>1 DEF Serves
<1>4. Frees(heap, r, h, MemLimit)
  <2>1. CASE Spills
    <3>1. r \in SpillFrees(heap, h)
      BY <1>2, <2>1
    <3> QED BY <1>1, <1>3, <3>1, SpillFreeing
  <2>2. CASE ~Spills
    <3>1. r = MemFree(heap, h)
      BY <1>2, <2>2
    <3>2. IsDirect(h)
      BY <1>3, <2>2 DEF Handles
    <3> QED BY <1>1, <1>3, <3>1, <3>2, MemFreeing
  <2> QED BY <2>1, <2>2
<1>6. HeapOK(heap', MemLimit) /\ Keeps(heap, heap', h)
  BY <1>2, <1>4 DEF Frees
<1>7. \A g \in DOMAIN owned' : g \in DOMAIN owned /\ g # h /\ owned'[g] = owned[g]
  BY DEF Free, Drop
<1>8. \A g \in DOMAIN owned' : Serves(heap', g, owned[g]) /\ SameBlock(heap, heap', g)
  BY <1>1, <1>6, <1>7, ServesOn
<1>9. \A g \in DOMAIN owned' : owned'[g] \in Sizes /\ Serves(heap', g, owned'[g])
  BY <1>1, <1>7, <1>8
<1>10. HeapInv'
  <2>1. setup' = setup /\ resizes' = resizes
    BY DEF Free
  <2>2. released' \in BOOLEAN /\ resizes' \in 0 .. MaxResizes
    BY <2>1 DEF HeapInv, TypeOK
  <2>3. faults' \in 0 .. MaxFaults
    BY <1>2, CountedTypes
  <2> QED BY <1>6, <1>9, <2>1, <2>2, <2>3, TypesKept
<1>11. Untouched
  BY <1>8, UntouchedWhere DEF Serves
<1> QED BY <1>10, <1>11
LEMMA SetAllocSizeKeeps ==
    ASSUME HeapInv, NEW h \in DOMAIN owned, NEW new \in Sizes, SetAllocSize(h, new), released' = released
    PROVE  HeapInv' /\ Untouched
<1> DEFINE size == CurrentSize(h)
<1>1. /\ MemLimit \in Nat /\ HeapOK(heap, MemLimit) /\ (Spills => setup.spill \in {"vram", "file"})
      /\ \A g \in DOMAIN owned : owned[g] \in Sizes /\ Serves(heap, g, owned[g])
  BY Served
<1>2. PICK r \in IF Spills THEN SpillResizes(heap, h, size, new) ELSE MemResizes(heap, h, size, new) :
          /\ heap' = r.heap
          /\ owned' = IF Ok(r) THEN Put(Drop(owned, h), r.handle, new) ELSE owned
          /\ Counted(r)
  BY DEF SetAllocSize
<1>3. /\ h \in Handles /\ Live(heap, h) /\ Suits(heap, h, owned[h])
      /\ owned[h] \in Nat \ {0} /\ new \in Nat \ {0} /\ new # size
  BY <1>1, SizeAssumption DEF Serves, SetAllocSize
<1>4. /\ h[1] = "aiv" => size = heap.arena.blocks[h[2]].alloc
      /\ h[1] = "sys" => size = heap.sys[h[2]].size
      /\ h[1] = "spill" => size = heap.store[h[2]].size
  BY DEF CurrentSize
<1>5. h[1] = "aiv" => size = owned[h]
  BY <1>3, <1>4 DEF Suits
<1>6. size \in Nat
  <2>1. h[1] = "aiv" \/ h[1] = "sys" \/ h[1] = "spill"
    BY <1>3 DEF Handles
  <2> HIDE DEF size
  <2> QED BY <1>3, <1>4, <1>5, <2>1 DEF Live
<1> HIDE DEF size
<1>7. Asked(heap, h, size, new)
  <2>1. Suits(heap, h, size)
    BY <1>3, <1>5 DEF Suits
  <2> QED BY <1>3, <1>6, <2>1 DEF Asked
<1>8. Resizes(heap, r, h, new, MemLimit)
  <2>1. CASE Spills
    <3>1. r \in SpillResizes(heap, h, size, new)
      BY <1>2, <2>1
    <3> QED BY <1>1, <1>7, <2>1, <3>1, SpillResizing
  <2>2. CASE ~Spills
    <3>1. r \in MemResizes(heap, h, size, new)
      BY <1>2, <2>2
    <3>2. IsDirect(h)
      BY <1>3, <2>2 DEF Handles
    <3> QED BY <1>1, <1>7, <3>1, <3>2, MemResizing
  <2> QED BY <2>1, <2>2
<1>9. /\ HeapOK(heap', MemLimit) /\ Keeps(heap, heap', h)
      /\ ~Ok(r) => Keeps(heap, heap', NoHandle)
      /\ Ok(r) => Serves(heap', r.handle, new) /\ (r.handle = h \/ ~Live(heap, r.handle))
  BY <1>2, <1>8 DEF Resizes, Serves
<1>10. \A g \in DOMAIN owned \ {h} : Serves(heap', g, owned[g]) /\ SameBlock(heap, heap', g)
  BY <1>1, <1>9, ServesOn
<1>11. ASSUME ~Ok(r), NEW g \in DOMAIN owned'
       PROVE  g \in DOMAIN owned /\ owned'[g] = owned[g] /\ Serves(heap', g, owned[g]) /\ SameBlock(heap, heap', g)
  <2>1. owned' = owned
    BY <1>2, <1>11
  <2>2. h # NoHandle
    BY <1>3 DEF Handles, NoHandle
  <2>3. Serves(heap', h, owned[h]) /\ SameBlock(heap, heap', h)
    BY <1>1, <1>9, <1>11, <2>2, ServesOn
  <2> QED BY <1>10, <2>1, <2>3
<1>12. ASSUME Ok(r), NEW g \in DOMAIN owned', g # r.handle
       PROVE  g \in DOMAIN owned /\ owned'[g] = owned[g] /\ Serves(heap', g, owned[g]) /\ SameBlock(heap, heap', g)
  <2>1. g \in DOMAIN owned \ {h} /\ owned'[g] = owned[g]
    BY <1>2, <1>12 DEF Put, Drop
  <2> QED BY <1>10, <2>1
<1>13. ASSUME Ok(r), NEW g \in DOMAIN owned', g = r.handle
       PROVE  /\ owned'[g] = new /\ Serves(heap', g, new)
              /\ ~(g \in DOMAIN owned /\ g[1] = "aiv" /\ owned'[g] = owned[g])
  <2>1. owned'[g] = new
    BY <1>2, <1>13 DEF Put
  <2>2. g = h => g[1] # "aiv" \/ owned'[g] # owned[g]
    BY <1>3, <1>5, <2>1
  <2>3. g # h => g \notin DOMAIN owned
    BY <1>1, <1>9, <1>13 DEF Serves
  <2> QED BY <1>9, <1>13, <2>1, <2>2, <2>3
<1>14. \A g \in DOMAIN owned' : owned'[g] \in Sizes /\ Serves(heap', g, owned'[g])
  BY <1>1, <1>11, <1>12, <1>13
<1>15. \A g \in DOMAIN owned \cap DOMAIN owned' : g[1] = "aiv" /\ owned'[g] = owned[g] =>
           Live(heap', g) /\ SameBlock(heap, heap', g)
  BY <1>11, <1>12, <1>13 DEF Serves
<1>16. HeapInv'
  <2>1. setup' = setup /\ resizes' = resizes + 1 /\ resizes < MaxResizes
    BY DEF SetAllocSize
  <2>2. released' \in BOOLEAN
    BY DEF HeapInv, TypeOK
  <2>3. resizes' \in 0 .. MaxResizes
    BY <2>1, Served
  <2>4. faults' \in 0 .. MaxFaults
    BY <1>2, CountedTypes
  <2> QED BY <1>9, <1>14, <2>1, <2>2, <2>3, <2>4, TypesKept
<1>17. Untouched
  BY <1>15, UntouchedWhere
<1> QED BY <1>16, <1>17

LEMMA WriteContentKeeps ==
    ASSUME HeapInv, NEW h \in DOMAIN owned, WriteContent(h), released' = released
    PROVE  HeapInv' /\ Untouched
<1> DEFINE n == heap.store[h[2]].file
           b == heap.store[h[2]]
<1>1. /\ MemLimit \in Nat /\ HeapOK(heap, MemLimit)
      /\ \A g \in DOMAIN owned : owned[g] \in Sizes /\ Serves(heap, g, owned[g])
  BY Served
<1>2. h \in Handles /\ Live(heap, h) /\ ~IsDirect(h)
  BY <1>1 DEF Serves, WriteContent
<1>3. b.size \in Nat
  BY <1>2 DEF Live, IsDirect
<1>4. heap = [top |-> heap.top, mem |-> heap.mem, arena |-> heap.arena,
              sys |-> heap.sys, store |-> heap.store, files |-> heap.files]
      /\ heap.top \in Account /\ heap.files \in Nat
  BY <1>1 DEF HeapOK
<1>5. heap' = [heap EXCEPT !.store = Put(@, n, b)]
  BY <1>4 DEF WriteContent
<1> HIDE DEF n, b
<1>6. heap' = [top |-> heap.top, mem |-> heap.mem, arena |-> heap.arena,
               sys |-> heap.sys, store |-> Put(heap.store, n, b), files |-> heap.files]
  BY <1>4, <1>5
<1>7. HeapOK(heap', MemLimit) /\ Keeps(heap, heap', NoHandle)
  BY <1>1, <1>3, <1>4, <1>6, Storing
<1>8. UNCHANGED <<setup, owned, resizes, faults>>
  BY DEF WriteContent
<1>9. \A g \in DOMAIN owned : Serves(heap', g, owned[g]) /\ SameBlock(heap, heap', g)
  <2>1. \A g \in DOMAIN owned : g # NoHandle
    BY <1>1 DEF Serves, Handles, NoHandle
  <2> QED BY <1>1, <1>7, <2>1, ServesOn
<1>10. \A g \in DOMAIN owned' : owned'[g] \in Sizes /\ Serves(heap', g, owned'[g])
  BY <1>1, <1>8, <1>9
<1>11. HeapInv'
  <2>1. released' \in BOOLEAN /\ resizes' \in 0 .. MaxResizes /\ faults' \in 0 .. MaxFaults
    BY <1>8 DEF HeapInv, TypeOK
  <2> QED BY <1>7, <1>8, <1>10, <2>1, TypesKept
<1>12. Untouched
  BY <1>9, UntouchedWhere DEF Serves
<1> QED BY <1>11, <1>12

LEMMA ReleaseKeeps ==
    ASSUME HeapInv, Release
    PROVE  HeapInv' /\ Untouched
<1> DEFINE a == NewArena(MemLimit)
           l == MemLimit
           n == NewAccount
           s == heap'.store
<1>1. MemLimit \in Nat /\ MemLimit > Overhead /\ HeapOK(heap, MemLimit)
  BY Served
<1>2. /\ heap = [top |-> heap.top, mem |-> heap.mem, arena |-> heap.arena,
                sys |-> heap.sys, store |-> heap.store, files |-> heap.files]
      /\ IsFiniteSet(DOMAIN heap.sys) /\ IsFiniteSet(DOMAIN heap.store) /\ heap.files \in Nat
  BY <1>1 DEF HeapOK
<1>3. Arena(a, l) /\ n \in Account
  BY <1>1, NewlyMade DEF NewAccount, Account
<1>4. heap' = [top |-> n, mem |-> n, arena |-> a, sys |-> heap.sys, store |-> s, files |-> heap.files]
      /\ (s = <<>> \/ s = heap.store)
  <2>1. heap' = [heap EXCEPT !.top = n, !.mem = n, !.arena = a,
                             !.store = IF setup.spill = "file" THEN <<>> ELSE @]
    BY DEF Release
  <2> DEFINE t == IF setup.spill = "file" THEN <<>> ELSE heap.store
  <2> HIDE DEF a, n
  <2>2. heap' = [top |-> n, mem |-> n, arena |-> a, sys |-> heap.sys, store |-> t, files |-> heap.files]
    BY <1>2, <2>1
  <2>3. s = t
    BY <2>2
  <2> QED BY <2>2, <2>3
<1>5. DOMAIN <<>> = {} /\ IsFiniteSet({})
  BY FS_EmptySet
<1>6. IsFiniteSet(DOMAIN s)
  BY <1>2, <1>4, <1>5
<1> HIDE DEF a, l, n, s
<1>7. HeapOK(heap', l)
  BY <1>2, <1>3, <1>4, <1>6 DEF HeapOK
<1>8. UNCHANGED <<setup, owned, resizes, faults>> /\ released' = TRUE /\ owned = <<>>
  BY DEF Release
<1>9. DOMAIN owned = {} /\ DOMAIN owned' = {}
  BY <1>5, <1>8
<1>10. HeapInv'
  <2>1. released' \in BOOLEAN /\ resizes' \in 0 .. MaxResizes /\ faults' \in 0 .. MaxFaults
    BY <1>8 DEF HeapInv, TypeOK
  <2> QED BY <1>7, <1>8, <1>9, <2>1, TypesKept DEF l
<1>11. Untouched
  BY <1>9, UntouchedWhere
<1> QED BY <1>10, <1>11

LEMMA HeapNext == HeapInv /\ Next => HeapInv' /\ Untouched
<1> SUFFICES ASSUME HeapInv, Next PROVE HeapInv' /\ Untouched
  OBVIOUS
<1>1. ASSUME Use, released' = released PROVE HeapInv' /\ Untouched
  <2>1. ASSUME NEW size \in Sizes, Alloc(size) PROVE HeapInv' /\ Untouched
    BY <1>1, <2>1, AllocKeeps
  <2>2. ASSUME NEW h \in DOMAIN owned, Free(h) PROVE HeapInv' /\ Untouched
    BY <1>1, <2>2, FreeKeeps
  <2>3. ASSUME NEW h \in DOMAIN owned, NEW new \in Sizes, SetAllocSize(h, new) PROVE HeapInv' /\ Untouched
    BY <1>1, <2>3, SetAllocSizeKeeps
  <2>4. ASSUME NEW h \in DOMAIN owned, WriteContent(h) PROVE HeapInv' /\ Untouched
    BY <1>1, <2>4, WriteContentKeeps
  <2> QED BY <1>1, <2>1, <2>2, <2>3, <2>4 DEF Use
<1>2. CASE Release
  BY <1>2, ReleaseKeeps
<1> QED BY <1>1, <1>2 DEF Next

LEMMA HeapStep == HeapInv /\ [Next]_vars => HeapInv' /\ [Untouched]_vars
<1>1. HeapInv /\ Next => HeapInv' /\ [Untouched]_vars
  BY HeapNext
<1>2. HeapInv /\ UNCHANGED vars => HeapInv'
  <2> SUFFICES ASSUME HeapInv, UNCHANGED vars PROVE HeapInv'
    OBVIOUS
  <2>1. UNCHANGED <<setup, released, heap, owned, resizes, faults>>
    BY DEF vars
  <2>2. MemLimit' = MemLimit /\ Handles' = Handles
    BY <2>1 DEF MemLimit, Handles, Spills
  <2>3. TypeOK'
    BY <2>1 DEF HeapInv, TypeOK
  <2>4. HeapOK(heap', MemLimit') /\ \A h \in DOMAIN owned' : Serves(heap, h, owned'[h])
    BY <2>1, <2>2 DEF HeapInv
  <2> QED BY <2>1, <2>2, <2>3, <2>4 DEF HeapInv, Serves
<1> QED BY <1>1, <1>2

LEMMA HeapImplies == HeapInv => ArenaWellFormed
<1> SUFFICES ASSUME HeapInv PROVE ArenaWellFormed
  OBVIOUS
<1>1. MemLimit \in Nat /\ Arena(heap.arena, MemLimit)
  BY Served DEF HeapOK
<1>2. WellFormedArena(heap.arena, MemLimit)
  BY <1>1, ArenaWell
<1>3. ASSUME NEW h \in DOMAIN owned, h[1] = "aiv"
      PROVE  /\ h[2] \in Offsets(heap.arena)
             /\ LET b == heap.arena.blocks[h[2]]
                IN  ~b.free /\ b.alloc = owned[h] /\ b.alloc <= b.size
  BY <1>3, Served DEF Serves, Live, Suits, Offsets
<1>4. TypeOK
  BY DEF HeapInv
<1> QED BY <1>2, <1>3, <1>4 DEF ArenaWellFormed

\* The blocks of the AIV arena fill it without a gap or an overlap, free neighbours are
\* joined, the chain lists the free blocks, and each of the client's handles names a block
\* that is large enough: for every arena, alignment and sequence of calls (AivHeap.c).
THEOREM HeapSafety == Spec => []ArenaWellFormed
<1>1. Init => HeapInv
  BY HeapStarts
<1>2. HeapInv /\ [Next]_vars => HeapInv'
  BY HeapStep
<1>3. HeapInv => ArenaWellFormed
  BY HeapImplies
<1> QED BY <1>1, <1>2, <1>3, PTL DEF Spec

\* A call on one handle leaves the blocks of all the others as they were: aivHeapAlloc,
\* aivHeapFree and aivHeapSetAllocSize, which may move an allocation and fail half-way.
THEOREM HeapIsolation == Spec => OthersUntouched
<1>1. Init => HeapInv
  BY HeapStarts
<1>2. HeapInv /\ [Next]_vars => HeapInv' /\ [Untouched]_vars
  BY HeapStep
<1>3. [Untouched]_vars <=>
        [\A h \in DOMAIN owned \cap DOMAIN owned' :
            h[1] = "aiv" /\ owned'[h] = owned[h] =>
                /\ h[2] \in DOMAIN heap'.arena.blocks
                /\ heap'.arena.blocks[h[2]] = heap.arena.blocks[h[2]]]_vars
  BY DEF Untouched
<1> QED BY <1>1, <1>2, <1>3, PTL DEF Spec, OthersUntouched

-----------------------------------------------------------------------------
(* What the blocks of a memory heap take, headers and footers included.    *)

Weigh(f) == [x \in DOMAIN f |-> Overhead + f[x].size]
Weights(f, S) == Sum(Weigh(f), S)

WeightFold(it, f, S) ==
    it = [s \in SUBSET S |-> IF s = {} THEN 0
                             ELSE it[s \ {CHOOSE x \in s : TRUE}] + (Overhead + f[CHOOSE x \in s : TRUE].size)]

FoldOf(f, S) == FoldSet(LAMBDA x, acc : acc + (Overhead + f[x].size), 0, S)

LEMMA WeightsAreSums ==
    ASSUME NEW f, NEW S \in SUBSET DOMAIN f, IsFiniteSet(S)
    PROVE  FoldOf(f, S) = Weights(f, S)
<1> DEFINE v == Weigh(f)
<1>1. \A it : WeightFold(it, f, S) <=> Adds(it, v, S)
  <2>1. TAKE it
  <2>2. \A s \in SUBSET S :
           (IF s = {} THEN 0 ELSE it[s \ {CHOOSE x \in s : TRUE}] + (Overhead + f[CHOOSE x \in s : TRUE].size))
             = SumStep(it, v, s)
    <3>1. TAKE s \in SUBSET S
    <3>2. s # {} => Pick(s) \in DOMAIN f
      BY PickIsIn
    <3>3. s # {} => v[Pick(s)] = Overhead + f[Pick(s)].size
      BY <3>2 DEF Weigh
    <3> HIDE DEF v
    <3> QED BY <3>3 DEF SumStep, Pick
  <2>3. [s \in SUBSET S |-> IF s = {} THEN 0
                            ELSE it[s \ {CHOOSE x \in s : TRUE}] + (Overhead + f[CHOOSE x \in s : TRUE].size)]
          = [s \in SUBSET S |-> SumStep(it, v, s)]
    BY <2>2
  <2> QED BY <2>3 DEF Adds, WeightFold
<1> DEFINE it == CHOOSE g : WeightFold(g, f, S)
<1>2. FoldOf(f, S) = it[S]
  BY DEF FoldOf, FoldSet, MapThenFoldSet, WeightFold
<1>3. WeightFold(it, f, S)
  <2>1. \E g : Adds(g, v, S)
    BY AddsExists
  <2>2. \E g : WeightFold(g, f, S)
    BY <1>1, <2>1
  <2> QED BY <2>2
<1>4. Adds(it, v, S)
  BY <1>1, <1>3
<1> HIDE DEF it, v
<1>5. \A s \in SUBSET S : it[s] = Sum(v, s)
  BY <1>4, SumAdds
<1> QED BY <1>2, <1>5 DEF v, Weights

LEMMA WeightsSame ==
    ASSUME NEW f, NEW g, NEW S, IsFiniteSet(S),
           \A x \in S : x \in DOMAIN f /\ x \in DOMAIN g /\ f[x].size = g[x].size
    PROVE  Weights(f, S) = Weights(g, S)
<1> DEFINE v == Weigh(f)
           w == Weigh(g)
<1>1. \A x \in S : v[x] = w[x]
  BY DEF Weigh
<1> HIDE DEF v, w
<1>2. Sum(v, S) = Sum(w, S)
  BY <1>1, SumSame
<1> QED BY <1>2 DEF Weights, v, w

LEMMA WeightsWithout ==
    ASSUME NEW f, NEW S, IsFiniteSet(S), \A x \in S : x \in DOMAIN f /\ f[x].size \in Nat, NEW x \in S
    PROVE  /\ Weights(f, S) = Weights(f, S \ {x}) + (Overhead + f[x].size)
           /\ Weights(f, S) \in Nat /\ Weights(f, S \ {x}) \in Nat
<1> DEFINE v == Weigh(f)
<1>1. Overhead \in Nat
  BY BlockAssumption DEF Overhead
<1>2. \A y \in S : v[y] = Overhead + f[y].size /\ v[y] \in Nat
  BY <1>1 DEF Weigh
<1> HIDE DEF v
<1>3. Sum(v, S) = Sum(v, S \ {x}) + v[x] /\ Sum(v, S) \in Nat
  BY <1>2, SumRemoves
<1>4. IsFiniteSet(S \ {x})
  BY FS_RemoveElement
<1>5. Sum(v, S \ {x}) \in Nat
  BY <1>2, <1>4, SumRemoves
<1> QED BY <1>2, <1>3, <1>5 DEF Weights, v

LEMMA WeightsEmpty ==
    ASSUME NEW f
    PROVE  Weights(f, {}) = 0
BY SumEmpty DEF Weights

\* the properties fold what is in S
LEMMA SumOverIs ==
    ASSUME NEW f, NEW S \in SUBSET DOMAIN f, IsFiniteSet(S)
    PROVE  SumOver(S, LAMBDA x : Overhead + f[x].size) = Weights(f, S)
<1>1. SumOver(S, LAMBDA x : Overhead + f[x].size) = FoldOf(f, S)
  BY DEF SumOver, FoldOf
<1> QED BY <1>1, WeightsAreSums
-----------------------------------------------------------------------------
(* Blocks that tile a region cannot take more than the region.             *)

LEMMA BlocksFinite ==
    ASSUME NEW limit \in Nat, NEW a, Arena(a, limit)
    PROVE  /\ IsFiniteSet(DOMAIN a.blocks) /\ IsFiniteSet(TakenOf(a.blocks))
           /\ TakenOf(a.blocks) \in SUBSET DOMAIN a.blocks
           /\ \A o \in DOMAIN a.blocks : a.blocks[o].size \in Nat \ {0} /\ o \in Nat
<1>1. Tiled(a.blocks, limit)
  BY DEF Arena
<1>2. \A o \in DOMAIN a.blocks : o \in 0 .. limit
  BY <1>1 DEF Tiled, Tiles
<1>3. IsFiniteSet(0 .. limit)
  BY FS_Interval
<1>4. IsFiniteSet(DOMAIN a.blocks)
  BY <1>2, <1>3, FS_Subset
<1>5. TakenOf(a.blocks) \in SUBSET DOMAIN a.blocks
  BY DEF TakenOf
<1>6. IsFiniteSet(TakenOf(a.blocks))
  BY <1>4, <1>5, FS_Subset
<1>7. \A o \in DOMAIN a.blocks : a.blocks[o].size \in Nat \ {0} /\ o \in Nat
  BY <1>1, EndsAre
<1> QED BY <1>4, <1>5, <1>6, <1>7

Below(B, S, e) == S \in SUBSET DOMAIN B /\ \A p \in S : Ends(B)[p] <= e

LEMMA Packing ==
    ASSUME NEW limit \in Nat, NEW a, Arena(a, limit)
    PROVE  Weights(a.blocks, TakenOf(a.blocks)) <= limit
<1> DEFINE B == a.blocks
           bad == {e \in Nat : \E S : Below(B, S, e) /\ ~(Weights(B, S) <= e)}
<1>1. /\ Tiles(DOMAIN B, Ends(B), limit) /\ IsFiniteSet(DOMAIN B)
      /\ \A p \in DOMAIN B : /\ p \in Nat /\ B[p].size \in Nat
                             /\ Ends(B)[p] = p + Header + B[p].size + Footer
  <2>1. Tiled(B, limit)
    BY DEF Arena
  <2> QED BY <2>1, BlocksFinite, EndsAre DEF Tiled
<1>2. Header \in Nat \ {0} /\ Footer \in Nat \ {0} /\ Overhead = Header + Footer
  BY BlockAssumption DEF Overhead
<1>3. Below(B, TakenOf(B), limit)
  BY <1>1 DEF Below, TakenOf, Tiles
<1> HIDE DEF B
<1>4. SUFFICES ASSUME bad # {} PROVE FALSE
  BY <1>3 DEF B
<1>5. bad \in SUBSET Nat
  OBVIOUS
<1>6. PICK e \in bad : \A d \in bad : e <= d
  <2> HIDE DEF bad
  <2> QED BY <1>4, <1>5, LeastNatural
<1>7. PICK S : Below(B, S, e) /\ ~(Weights(B, S) <= e)
  BY <1>6
<1>8. e \in Nat /\ \A d \in Nat : d < e => d \notin bad
  <2> HIDE DEF bad
  <2> QED BY <1>5, <1>6
<1>9. IsFiniteSet(S) /\ S \in SUBSET DOMAIN B
  BY <1>1, <1>7, FS_Subset DEF Below
<1>10. \A x \in S : x \in DOMAIN B /\ B[x].size \in Nat
  BY <1>1, <1>9
<1>11. S # {}
  BY <1>7, <1>8, WeightsEmpty
<1>12. \A T : \A d \in Nat : d < e /\ Below(B, T, d) => Weights(B, T) <= d
  BY <1>8
<1> HIDE DEF bad
<1>13. PICK x \in S : Ends(B)[x] = e
  <2> SUFFICES ASSUME \A x \in S : Ends(B)[x] # e PROVE FALSE
    OBVIOUS
  <2>1. \A p \in S : Ends(B)[p] \in Nat /\ 0 < Ends(B)[p] /\ Ends(B)[p] <= e
    BY <1>1, <1>7, <1>9 DEF Below, Tiles
  <2>2. e - 1 \in Nat /\ e - 1 < e
    BY <1>8, <1>11, <2>1
  <2>3. \A p \in S : Ends(B)[p] <= e - 1
    BY <1>8, <2>1
  <2>4. Below(B, S, e - 1)
    BY <1>9, <2>3 DEF Below
  <2>5. Weights(B, S) <= e - 1
    BY <1>12, <2>2, <2>4
  <2>6. Weights(B, S) \in Nat
    BY <1>9, <1>10, <1>11, WeightsWithout
  <2> QED BY <1>7, <1>8, <2>5, <2>6
<1>14. /\ Weights(B, S) = Weights(B, S \ {x}) + (Overhead + B[x].size)
       /\ Weights(B, S) \in Nat /\ Weights(B, S \ {x}) \in Nat
  BY <1>9, <1>10, WeightsWithout
<1>15. x \in Nat /\ x < e /\ x + Overhead + B[x].size = e /\ B[x].size \in Nat
  <2>1. x \in DOMAIN B /\ x \in Nat /\ B[x].size \in Nat /\ e = x + Header + B[x].size + Footer
    BY <1>1, <1>9, <1>13
  <2> QED BY <1>2, <2>1
<1>16. \A p \in S \ {x} : Ends(B)[p] <= x
  <2>1. TAKE p \in S \ {x}
  <2>2. p \in DOMAIN B /\ x \in DOMAIN B /\ p \in Nat /\ p # x
    BY <1>1, <1>9
  <2>3. Ends(B)[p] \in Nat /\ p < Ends(B)[p] /\ Ends(B)[p] <= e
    BY <1>1, <1>7, <2>2 DEF Below, Tiles
  <2>4. CASE p < x
    BY <1>1, <2>2, <2>4 DEF Tiles
  <2>5. CASE x < p
    <3>1. e <= p
      BY <1>1, <1>13, <2>2, <2>5 DEF Tiles
    <3> QED BY <1>8, <2>2, <2>3, <3>1
  <2> QED BY <1>15, <2>2, <2>4, <2>5
<1>17. Below(B, S \ {x}, x)
  BY <1>9, <1>16 DEF Below
<1>18. Weights(B, S \ {x}) <= x
  BY <1>12, <1>15, <1>17
<1>19. Overhead \in Nat
  BY <1>2
<1> QED BY <1>7, <1>8, <1>14, <1>15, <1>18, <1>19

-----------------------------------------------------------------------------
(* The books of the memory heap: its account is what its blocks take.      *)

AivWeight(hp) == Weights(hp.arena.blocks, TakenOf(hp.arena.blocks))
SysWeight(hp) == Weights(hp.sys, DOMAIN hp.sys)

Books(hp) ==
    /\ setup.mem = "aiv" => DOMAIN hp.sys = {}
    /\ setup.mem # "aiv" => TakenOf(hp.arena.blocks) = {}
    /\ \A n \in DOMAIN hp.sys : hp.sys[n].size \in Nat
    /\ hp.mem.size = AivWeight(hp) + SysWeight(hp)
    /\ hp.mem.count = Cardinality(TakenOf(hp.arena.blocks)) + Cardinality(DOMAIN hp.sys)
    /\ hp.mem.size <= MemLimit

\* the allocations of the memory heap
MemHandles(hp) == {SysHandle(n) : n \in DOMAIN hp.sys} \cup {AivHandle(o) : o \in TakenOf(hp.arena.blocks)}

\* what a call on the memory heap leaves alone
Beside(hp, hq) ==
    /\ hq.top = hp.top /\ hq.store = hp.store /\ hq.files = hp.files
    /\ \A n \in DOMAIN hp.sys : n \in DOMAIN hq.sys => hq.sys[n].size = hp.sys[n].size

LEMMA Undoing ==
    ASSUME NEW acct \in Account, NEW n \in Nat
    PROVE  /\ DecrementUsage(IncrementUsage(acct, n), n) = acct
           /\ IncrementUsage(acct, n).size = acct.size + n /\ IncrementUsage(acct, n).count = acct.count + 1
<1>1. acct = [size |-> acct.size, count |-> acct.count] /\ acct.size \in Nat /\ acct.count \in Int
  BY DEF Account
<1> DEFINE s == acct.size
           k == acct.count
           i == IncrementUsage(acct, n)
<1>2. i.size = s + n /\ i.count = k + 1
  BY DEF IncrementUsage
<1> HIDE DEF i
<1>3. DecrementUsage(i, n) = [size |-> FloorSub(i.size, n), count |-> i.count - 1]
  BY DEF DecrementUsage
<1>5. s \in Nat /\ k \in Int /\ acct = [size |-> s, count |-> k]
  BY <1>1
<1> HIDE DEF s, k
<1>4. FloorSub(i.size, n) = s /\ i.count - 1 = k
  <2>1. i.size \in Nat /\ (i.size <= n => s = 0) /\ i.size - n = s
    BY <1>2, <1>5
  <2>2. FloorSub(i.size, n) = s
    BY <2>1 DEF FloorSub
  <2> QED BY <1>2, <1>5, <2>2
<1>6. DecrementUsage(i, n) = acct
  BY <1>3, <1>4, <1>5
<1> QED BY <1>2, <1>6 DEF i, s, k

LEMMA PuttingWeight ==
    ASSUME NEW f, IsFiniteSet(DOMAIN f), \A m \in DOMAIN f : f[m].size \in Nat,
           NEW n, n \notin DOMAIN f, NEW b, b.size \in Nat, NEW g, g = Put(f, n, b)
    PROVE  /\ DOMAIN g = DOMAIN f \cup {n} /\ g[n] = b /\ \A m \in DOMAIN f : g[m] = f[m]
           /\ Weights(g, DOMAIN g) = Weights(f, DOMAIN f) + (Overhead + b.size)
           /\ Weights(g, DOMAIN g) \in Nat /\ Weights(f, DOMAIN f) \in Nat
           /\ Cardinality(DOMAIN g) = Cardinality(DOMAIN f) + 1
<1>1. DOMAIN g = DOMAIN f \cup {n} /\ g[n] = b /\ \A m \in DOMAIN f : g[m] = f[m]
  BY DEF Put
<1>2. IsFiniteSet(DOMAIN g) /\ Cardinality(DOMAIN g) = Cardinality(DOMAIN f) + 1
  BY <1>1, FS_AddElement
<1>3. \A m \in DOMAIN g : g[m].size \in Nat
  BY <1>1
<1>4. n \in DOMAIN g /\ DOMAIN g \ {n} = DOMAIN f
  BY <1>1
<1>5. /\ Weights(g, DOMAIN g) = Weights(g, DOMAIN g \ {n}) + (Overhead + g[n].size)
      /\ Weights(g, DOMAIN g) \in Nat /\ Weights(g, DOMAIN g \ {n}) \in Nat
  BY <1>2, <1>3, <1>4, WeightsWithout
<1>6. Weights(g, DOMAIN f) = Weights(f, DOMAIN f)
  BY <1>1, WeightsSame
<1> QED BY <1>1, <1>2, <1>4, <1>5, <1>6

Lighter(f, g, n) ==
    /\ DOMAIN g = DOMAIN f \ {n} /\ \A m \in DOMAIN g : g[m] = f[m]
    /\ Weights(f, DOMAIN f) = Weights(g, DOMAIN g) + (Overhead + f[n].size)
    /\ Weights(g, DOMAIN g) \in Nat /\ Weights(f, DOMAIN f) \in Nat
    /\ Cardinality(DOMAIN g) = Cardinality(DOMAIN f) - 1

LEMMA DroppingWeight ==
    ASSUME NEW f, IsFiniteSet(DOMAIN f), \A m \in DOMAIN f : f[m].size \in Nat,
           NEW n \in DOMAIN f, NEW g, g = Drop(f, n)
    PROVE  Lighter(f, g, n)
<1>1. DOMAIN g = DOMAIN f \ {n} /\ \A m \in DOMAIN g : g[m] = f[m]
  BY DEF Drop
<1>2. IsFiniteSet(DOMAIN g) /\ Cardinality(DOMAIN g) = Cardinality(DOMAIN f) - 1
  BY <1>1, FS_RemoveElement
<1>3. /\ Weights(f, DOMAIN f) = Weights(f, DOMAIN f \ {n}) + (Overhead + f[n].size)
      /\ Weights(f, DOMAIN f) \in Nat /\ Weights(f, DOMAIN f \ {n}) \in Nat
  BY WeightsWithout
<1>4. Weights(f, DOMAIN g) = Weights(g, DOMAIN g)
  BY <1>1, <1>2, WeightsSame
<1> QED BY <1>1, <1>2, <1>3, <1>4 DEF Lighter

\* what an allocation of the memory heap does to its books
Booked(hp, r, size) ==
    /\ Books(r.heap) /\ Ok(r) /\ Beside(hp, r.heap)
    /\ r.handle = NoHandle => MemHandles(r.heap) = MemHandles(hp)
    /\ r.handle # NoHandle =>
         /\ IsDirect(r.handle) /\ r.handle \notin MemHandles(hp)
         /\ MemHandles(r.heap) = MemHandles(hp) \cup {r.handle}
         /\ r.handle[1] = "sys" => r.heap.sys[r.handle[2]].size = size

LEMMA BookedNothing ==
    ASSUME NEW hp, Books(hp), NEW r, r = Outcome(hp, NoHandle, "ok"), NEW size
    PROVE  Booked(hp, r, size)
<1>1. r.heap = hp /\ r.handle = NoHandle /\ Ok(r)
  BY Outcomes DEF Ok
<1> QED BY <1>1 DEF Booked, Beside

LEMMA SysBooking ==
    ASSUME NEW limit \in Nat, NEW hp, HeapOK(hp, limit), Books(hp), setup.mem # "aiv", MemLimit \in Nat,
           NEW size \in Nat \ {0}, Fits(hp.mem, Overhead + size, MemLimit), NEW r \in SysAllocs(hp, size)
    PROVE  Booked(hp, r, size)
<1> DEFINE n == Unused(hp.sys)
           block == [size |-> size, room |-> size]
           counted == IncrementUsage(hp.mem, Overhead + size)
           S == Put(hp.sys, n, block)
           undone == DecrementUsage(counted, Overhead + size)
<1>1. /\ hp = [top |-> hp.top, mem |-> hp.mem, arena |-> hp.arena,
               sys |-> hp.sys, store |-> hp.store, files |-> hp.files]
      /\ hp.mem \in Account /\ IsFiniteSet(DOMAIN hp.sys)
  BY DEF HeapOK
<1>2. Overhead + size \in Nat /\ Overhead \in Nat
  BY BlockAssumption DEF Overhead
<1>3. undone = hp.mem /\ counted.size = hp.mem.size + (Overhead + size) /\ counted.count = hp.mem.count + 1
  BY <1>1, <1>2, Undoing
<1>4. \/ r = Outcome([hp EXCEPT !.mem = counted, !.sys = S], SysHandle(n), "ok")
      \/ r = Outcome([hp EXCEPT !.mem = undone], NoHandle, "ok")
  BY DEF SysAllocs
<1>5. n \in Nat \ DOMAIN hp.sys
  BY <1>1, UnusedIsFree
<1>6. block.size = size /\ S = Put(hp.sys, n, block)
  OBVIOUS
<1> HIDE DEF counted, undone, S, n, block
<1>7. \A m \in DOMAIN hp.sys : hp.sys[m].size \in Nat
  BY DEF Books
<1>8. /\ DOMAIN S = DOMAIN hp.sys \cup {n} /\ S[n] = block /\ \A m \in DOMAIN hp.sys : S[m] = hp.sys[m]
      /\ Weights(S, DOMAIN S) = SysWeight(hp) + (Overhead + size)
      /\ Weights(S, DOMAIN S) \in Nat /\ SysWeight(hp) \in Nat
      /\ Cardinality(DOMAIN S) = Cardinality(DOMAIN hp.sys) + 1
  <2>1. block.size \in Nat
    BY <1>6
  <2> DEFINE f == hp.sys
  <2>2. IsFiniteSet(DOMAIN f) /\ n \notin DOMAIN f /\ (\A m \in DOMAIN f : f[m].size \in Nat) /\ S = Put(f, n, block)
    BY <1>1, <1>5, <1>6, <1>7
  <2> HIDE DEF f
  <2>3. /\ DOMAIN S = DOMAIN f \cup {n} /\ S[n] = block /\ \A m \in DOMAIN f : S[m] = f[m]
        /\ Weights(S, DOMAIN S) = Weights(f, DOMAIN f) + (Overhead + block.size)
        /\ Weights(S, DOMAIN S) \in Nat /\ Weights(f, DOMAIN f) \in Nat
        /\ Cardinality(DOMAIN S) = Cardinality(DOMAIN f) + 1
    BY <2>1, <2>2, PuttingWeight
  <2> QED BY <1>6, <2>3 DEF SysWeight, f
<1>9. CASE r = Outcome([hp EXCEPT !.mem = counted, !.sys = S], SysHandle(n), "ok")
  <2> DEFINE hq == r.heap
  <2>1. hq = [hp EXCEPT !.mem = counted, !.sys = S] /\ r.handle = SysHandle(n) /\ Ok(r)
    BY <1>9 DEF Outcome, Ok
  <2> HIDE DEF hq
  <2>2. /\ hq.arena = hp.arena /\ hq.sys = S /\ hq.store = hp.store /\ hq.files = hp.files
        /\ hq.top = hp.top /\ hq.mem = counted
    BY <1>1, <2>1
  <2>3. TakenOf(hp.arena.blocks) = {} /\ AivWeight(hp) = 0 /\ Cardinality({}) = 0
    BY WeightsEmpty, FS_EmptySet DEF Books, AivWeight
  <2>4. hp.mem.size = SysWeight(hp) /\ hp.mem.count = Cardinality(DOMAIN hp.sys)
    <3>1. Cardinality(DOMAIN hp.sys) \in Nat
      BY <1>1, FS_CardinalityType
    <3> QED BY <1>8, <2>3, <3>1 DEF Books
  <2>5. AivWeight(hq) = 0 /\ SysWeight(hq) = Weights(S, DOMAIN S) /\ TakenOf(hq.arena.blocks) = {}
    BY <2>2, <2>3 DEF AivWeight, SysWeight
  <2>6. hq.mem.size = AivWeight(hq) + SysWeight(hq)
    BY <1>3, <1>8, <2>2, <2>4, <2>5
  <2>7. hq.mem.count = Cardinality(TakenOf(hq.arena.blocks)) + Cardinality(DOMAIN hq.sys)
    <3>1. Cardinality(DOMAIN S) \in Nat
      BY <1>1, <1>8, FS_CardinalityType
    <3> QED BY <1>3, <1>8, <2>2, <2>3, <2>4, <2>5, <3>1
  <2>8. hq.mem.size <= MemLimit
    BY <1>3, <2>2 DEF Fits
  <2>9. \A m \in DOMAIN hq.sys : hq.sys[m].size \in Nat
    BY <1>6, <1>7, <1>8, <2>2
  <2>10. Books(hq)
    BY <2>5, <2>6, <2>7, <2>8, <2>9 DEF Books
  <2>11. Beside(hp, hq)
    BY <1>8, <2>2 DEF Beside
  <2>12. MemHandles(hq) = MemHandles(hp) \cup {SysHandle(n)} /\ SysHandle(n) \notin MemHandles(hp)
    BY <1>5, <1>8, <2>2 DEF MemHandles, SysHandle, AivHandle
  <2>13. SysHandle(n) # NoHandle /\ IsDirect(SysHandle(n)) /\ hq.sys[SysHandle(n)[2]].size = size
    BY <1>6, <1>8, <2>2 DEF SysHandle, NoHandle, IsDirect
  <2> QED BY <2>1, <2>10, <2>11, <2>12, <2>13 DEF Booked, hq
<1>10. CASE r = Outcome([hp EXCEPT !.mem = undone], NoHandle, "ok")
  <2>1. [hp EXCEPT !.mem = undone] = hp
    BY <1>1, <1>3
  <2> QED BY <1>10, <2>1, BookedNothing
<1> QED BY <1>4, <1>9, <1>10

\* the blocks of an arena when one becomes taken
LEMMA FillingWeight ==
    ASSUME NEW limit \in Nat, NEW a, NEW c, NEW o, NEW size, Arena(a, limit), Arena(c, limit),
           o \in FreeOf(a.blocks), Filled(a, c, o, size), Spares(a.blocks, c.blocks, o)
    PROVE  /\ Weights(c.blocks, TakenOf(c.blocks)) = Weights(a.blocks, TakenOf(a.blocks)) + (Overhead + c.blocks[o].size)
           /\ Weights(c.blocks, TakenOf(c.blocks)) \in Nat /\ Weights(a.blocks, TakenOf(a.blocks)) \in Nat
           /\ Cardinality(TakenOf(c.blocks)) = Cardinality(TakenOf(a.blocks)) + 1
<1> DEFINE B == a.blocks
           C == c.blocks
           T == TakenOf(B)
           U == TakenOf(C)
<1>1. U = T \cup {o} /\ o \notin T /\ U \ {o} = T
  BY DEF Filled, TakenOf
<1>2. /\ IsFiniteSet(T) /\ IsFiniteSet(U) /\ T \in SUBSET DOMAIN B /\ U \in SUBSET DOMAIN C
      /\ \A p \in DOMAIN C : C[p].size \in Nat
  BY BlocksFinite
<1>3. \A p \in T : p \in DOMAIN B /\ p \in DOMAIN C /\ C[p] = B[p]
  BY <1>1 DEF Spares, TakenOf, FreeOf
<1> HIDE DEF B, C, T, U
<1>4. Weights(C, T) = Weights(B, T)
  BY <1>2, <1>3, WeightsSame
<1>5. \A x \in U : x \in DOMAIN C /\ C[x].size \in Nat
  BY <1>2
<1>6. /\ Weights(C, U) = Weights(C, U \ {o}) + (Overhead + C[o].size)
      /\ Weights(C, U) \in Nat /\ Weights(C, U \ {o}) \in Nat
  BY <1>1, <1>2, <1>5, WeightsWithout
<1>7. Cardinality(U) = Cardinality(T) + 1
  BY <1>1, <1>2, FS_AddElement
<1> QED BY <1>1, <1>4, <1>6, <1>7 DEF B, C, T, U

\* and when one is given back
LEMMA GivingWeight ==
    ASSUME NEW limit \in Nat, NEW a, NEW c, NEW o, Arena(a, limit), Arena(c, limit),
           o \in TakenOf(a.blocks), TakenOf(c.blocks) = TakenOf(a.blocks) \ {o}, Spares(a.blocks, c.blocks, o)
    PROVE  /\ Weights(a.blocks, TakenOf(a.blocks)) = Weights(c.blocks, TakenOf(c.blocks)) + (Overhead + a.blocks[o].size)
           /\ Weights(c.blocks, TakenOf(c.blocks)) \in Nat /\ Weights(a.blocks, TakenOf(a.blocks)) \in Nat
           /\ Cardinality(TakenOf(c.blocks)) = Cardinality(TakenOf(a.blocks)) - 1
<1> DEFINE B == a.blocks
           C == c.blocks
           T == TakenOf(B)
           U == TakenOf(C)
<1>1. U = T \ {o} /\ o \in T
  OBVIOUS
<1>2. /\ IsFiniteSet(T) /\ IsFiniteSet(U) /\ T \in SUBSET DOMAIN B /\ U \in SUBSET DOMAIN C
      /\ \A p \in DOMAIN B : B[p].size \in Nat
  BY BlocksFinite
<1>3. \A p \in U : p \in DOMAIN B /\ p \in DOMAIN C /\ C[p] = B[p]
  BY <1>1 DEF Spares, TakenOf, FreeOf
<1> HIDE DEF B, C, T, U
<1>4. Weights(B, U) = Weights(C, U)
  BY <1>2, <1>3, WeightsSame
<1>5. \A x \in T : x \in DOMAIN B /\ B[x].size \in Nat
  BY <1>2
<1>6. /\ Weights(B, T) = Weights(B, T \ {o}) + (Overhead + B[o].size)
      /\ Weights(B, T) \in Nat /\ Weights(B, T \ {o}) \in Nat
  BY <1>1, <1>2, <1>5, WeightsWithout
<1>7. Cardinality(U) = Cardinality(T) - 1
  BY <1>1, <1>2, FS_RemoveElement
<1> QED BY <1>1, <1>4, <1>6, <1>7 DEF B, C, T, U

LEMMA AivBooking ==
    ASSUME NEW limit \in Nat, NEW hp, HeapOK(hp, limit), Books(hp), setup.mem = "aiv", limit = MemLimit,
           NEW size \in Nat \ {0}, NEW r \in AivAllocs(hp, size)
    PROVE  Booked(hp, r, size)
<1> DEFINE o == GetFreeBlock(hp.arena, size)
           counted == IncrementUsage(hp.mem, Overhead + Packed(size))
           undone == DecrementUsage(counted, Overhead + Packed(size))
           mem == [counted EXCEPT !.size = @ + SplitExcess(hp.arena, o, size)]
           A == SplitFreeBlock(hp.arena, o, size)
<1>1. /\ hp = [top |-> hp.top, mem |-> hp.mem, arena |-> hp.arena,
               sys |-> hp.sys, store |-> hp.store, files |-> hp.files]
      /\ hp.mem \in Account /\ Arena(hp.arena, limit)
  BY DEF HeapOK
<1>2. Overhead + Packed(size) \in Nat /\ Packed(size) \in Nat /\ Overhead \in Nat
  <2>1. Packed(size) \in Nat
    BY PackedBounds
  <2> QED BY <2>1, BlockAssumption DEF Overhead
<1>3. undone = hp.mem /\ counted.size = hp.mem.size + (Overhead + Packed(size)) /\ counted.count = hp.mem.count + 1
  BY <1>1, <1>2, Undoing
<1>11. counted \in Account
  BY <1>1, <1>2, Accounting
<1>4. /\ o = NoBlock => r = Outcome([hp EXCEPT !.mem = undone], NoHandle, "ok")
      /\ o # NoBlock => r = Outcome([hp EXCEPT !.mem = mem, !.arena = A], AivHandle(o), "ok")
  BY DEF AivAllocs
<1> HIDE DEF o, counted, undone
<1>5. CASE o # NoBlock
  <2>1. o \in FreeOf(hp.arena.blocks) /\ hp.arena.blocks[o].size >= Packed(size)
    BY <1>1, <1>5, GettingFree DEF o
  <2>2. Held(hp.arena, A, o, size, limit) /\ Filled(hp.arena, A, o, size)
    BY <1>1, <2>1, Splitting
  <2> DEFINE x == SplitExcess(hp.arena, o, size)
  <2>3. mem.size = counted.size + x /\ mem.count = counted.count
    <3>1. counted = [size |-> counted.size, count |-> counted.count]
      BY <1>11 DEF Account
    <3>2. mem = [size |-> counted.size + x, count |-> counted.count]
      BY <3>1
    <3> QED BY <3>2
  <2> HIDE DEF mem, A, x
  <2>4. Arena(A, limit) /\ Spares(hp.arena.blocks, A.blocks, o)
    BY <2>2 DEF Held, Kept
  <2>5. A.blocks[o].size = Packed(size) + x /\ TakenOf(A.blocks) = TakenOf(hp.arena.blocks) \cup {o}
    BY <2>2 DEF Filled, x
  <2>6. /\ Weights(A.blocks, TakenOf(A.blocks)) = AivWeight(hp) + (Overhead + A.blocks[o].size)
        /\ Weights(A.blocks, TakenOf(A.blocks)) \in Nat /\ AivWeight(hp) \in Nat
        /\ Cardinality(TakenOf(A.blocks)) = Cardinality(TakenOf(hp.arena.blocks)) + 1
    BY <1>1, <2>1, <2>2, <2>4, FillingWeight DEF AivWeight
  <2> DEFINE hq == r.heap
  <2>7. hq = [hp EXCEPT !.mem = mem, !.arena = A] /\ r.handle = AivHandle(o) /\ Ok(r)
    BY <1>4, <1>5 DEF Outcome, Ok
  <2> HIDE DEF hq
  <2>8. /\ hq.arena = A /\ hq.sys = hp.sys /\ hq.store = hp.store /\ hq.files = hp.files
        /\ hq.top = hp.top /\ hq.mem = mem
    BY <1>1, <2>7
  <2>9. DOMAIN hp.sys = {} /\ SysWeight(hp) = 0 /\ Cardinality({}) = 0 /\ SysWeight(hq) = 0
    BY <2>8, WeightsEmpty, FS_EmptySet DEF Books, SysWeight
  <2>10. hp.mem.size = AivWeight(hp) /\ hp.mem.count = Cardinality(TakenOf(hp.arena.blocks))
    <3>1. Cardinality(TakenOf(hp.arena.blocks)) \in Nat
      BY <1>1, BlocksFinite, FS_CardinalityType
    <3> QED BY <2>6, <2>9, <3>1 DEF Books
  <2>11. hq.mem.size = AivWeight(hq) + SysWeight(hq) /\ AivWeight(hq) = hq.mem.size
    <3>1. x \in Int
      <4>1. hp.arena.blocks[o].size \in Nat
        BY <1>1, <2>1, BlocksFinite DEF FreeOf
      <4> QED BY <1>2, <4>1 DEF x, SplitExcess
    <3>2. AivWeight(hq) = Weights(A.blocks, TakenOf(A.blocks))
      BY <2>8 DEF AivWeight
    <3>3. Overhead + (Packed(size) + x) = (Overhead + Packed(size)) + x
      BY <1>2, <3>1
    <3> QED BY <1>2, <1>3, <2>3, <2>5, <2>6, <2>8, <2>9, <2>10, <3>1, <3>2, <3>3
  <2>12. hq.mem.count = Cardinality(TakenOf(hq.arena.blocks)) + Cardinality(DOMAIN hq.sys)
    <3>1. Cardinality(TakenOf(hp.arena.blocks)) \in Nat
      BY <1>1, BlocksFinite, FS_CardinalityType
    <3> QED BY <1>3, <2>3, <2>6, <2>8, <2>9, <2>10, <3>1
  <2>13. hq.mem.size <= MemLimit
    BY <2>4, <2>8, <2>11, Packing DEF AivWeight
  <2>14. Books(hq)
    BY <2>8, <2>9, <2>11, <2>12, <2>13 DEF Books
  <2>15. Beside(hp, hq)
    BY <2>8 DEF Beside
  <2>16. o \notin TakenOf(hp.arena.blocks)
    BY <2>1 DEF TakenOf
  <2>17. MemHandles(hq) = MemHandles(hp) \cup {AivHandle(o)} /\ AivHandle(o) \notin MemHandles(hp)
    BY <2>5, <2>8, <2>16 DEF MemHandles, SysHandle, AivHandle
  <2>18. AivHandle(o) # NoHandle /\ IsDirect(AivHandle(o)) /\ AivHandle(o)[1] # "sys"
    BY DEF AivHandle, NoHandle, IsDirect
  <2> QED BY <2>7, <2>14, <2>15, <2>17, <2>18 DEF Booked, hq
<1>6. CASE o = NoBlock
  <2>1. [hp EXCEPT !.mem = undone] = hp
    BY <1>1, <1>3
  <2> QED BY <1>4, <1>6, <2>1, BookedNothing
<1> QED BY <1>5, <1>6

LEMMA MemBooking ==
    ASSUME NEW limit \in Nat, NEW hp, HeapOK(hp, limit), Books(hp), limit = MemLimit,
           NEW size \in Nat \ {0}, NEW r \in MemAllocs(hp, size)
    PROVE  Booked(hp, r, size)
<1>1. CASE ~Fits(hp.mem, Overhead + AlignedSize(size), MemLimit)
  <2>1. r = Outcome(hp, NoHandle, "ok")
    BY <1>1 DEF MemAllocs
  <2> QED BY <2>1, BookedNothing
<1>2. CASE Fits(hp.mem, Overhead + AlignedSize(size), MemLimit) /\ setup.mem = "aiv"
  <2>1. r \in AivAllocs(hp, size)
    BY <1>2 DEF MemAllocs
  <2> QED BY <1>2, <2>1, AivBooking
<1>3. CASE Fits(hp.mem, Overhead + AlignedSize(size), MemLimit) /\ setup.mem # "aiv"
  <2>1. r \in SysAllocs(hp, size) /\ Fits(hp.mem, Overhead + size, MemLimit)
    BY <1>3 DEF MemAllocs, AlignedSize
  <2> QED BY <1>3, <2>1, SysBooking
<1> QED BY <1>1, <1>2, <1>3

-----------------------------------------------------------------------------
(* A free takes its allocation out of the books, and is never refused.     *)

\* what the account of the memory heap loses
LEMMA Unaccounted ==
    ASSUME NEW acct \in Account, NEW n \in Nat, n <= acct.size
    PROVE  DecrementUsage(acct, n).size = acct.size - n /\ DecrementUsage(acct, n).count = acct.count - 1
<1>1. acct.size \in Nat
  BY DEF Account
<1>2. FloorSub(acct.size, n) = acct.size - n
  BY <1>1 DEF FloorSub
<1> QED BY <1>2 DEF DecrementUsage

Unbooked(hp, r, h) ==
    /\ Books(r.heap) /\ Ok(r) /\ Beside(hp, r.heap)
    /\ MemHandles(r.heap) = MemHandles(hp) \ {h}

LEMMA SysUnbooking ==
    ASSUME NEW limit \in Nat, NEW hp, HeapOK(hp, limit), Books(hp), MemLimit \in Nat,
           NEW n \in DOMAIN hp.sys, NEW r, r = MemFree(hp, SysHandle(n))
    PROVE  Unbooked(hp, r, SysHandle(n)) /\ CommonFreeAllows(hp.mem, MemAllocationSize(hp, SysHandle(n)))
<1> DEFINE h == SysHandle(n)
           w == Overhead + hp.sys[n].size
           S == Drop(hp.sys, n)
           acct == DecrementUsage(hp.mem, w)
<1>1. /\ hp = [top |-> hp.top, mem |-> hp.mem, arena |-> hp.arena,
               sys |-> hp.sys, store |-> hp.store, files |-> hp.files]
      /\ hp.mem \in Account /\ IsFiniteSet(DOMAIN hp.sys)
  BY DEF HeapOK
<1>2. h[1] = "sys" /\ h[2] = n /\ MemAllocationSize(hp, h) = w
  BY DEF SysHandle, MemAllocationSize
<1>3. \A m \in DOMAIN hp.sys : hp.sys[m].size \in Nat
  BY DEF Books
<1>4. w \in Nat
  BY <1>3, BlockAssumption DEF Overhead
<1>5. S = Drop(hp.sys, n)
  OBVIOUS
<1> HIDE DEF S
<1>6. /\ DOMAIN S = DOMAIN hp.sys \ {n} /\ \A m \in DOMAIN S : S[m] = hp.sys[m]
      /\ Weights(hp.sys, DOMAIN hp.sys) = Weights(S, DOMAIN S) + w
      /\ Weights(S, DOMAIN S) \in Nat /\ Weights(hp.sys, DOMAIN hp.sys) \in Nat
      /\ Cardinality(DOMAIN S) = Cardinality(DOMAIN hp.sys) - 1
  <2>1. Lighter(hp.sys, S, n)
    BY <1>1, <1>3, <1>5, DroppingWeight
  <2> QED BY <2>1 DEF Lighter
<1>7. setup.mem # "aiv" /\ TakenOf(hp.arena.blocks) = {}
  BY DEF Books
<1>8. AivWeight(hp) = 0 /\ Cardinality({}) = 0
  BY <1>7, WeightsEmpty, FS_EmptySet DEF AivWeight
<1>9. Cardinality(DOMAIN hp.sys) \in Nat
  BY <1>1, FS_CardinalityType
<1>10. hp.mem.size = Weights(hp.sys, DOMAIN hp.sys) /\ hp.mem.count = Cardinality(DOMAIN hp.sys)
  BY <1>6, <1>7, <1>8, <1>9 DEF Books, SysWeight
<1>11. CommonFreeAllows(hp.mem, w) /\ w <= hp.mem.size
  BY <1>4, <1>6, <1>10 DEF CommonFreeAllows
<1>12. acct.size = hp.mem.size - w /\ acct.count = hp.mem.count - 1
  BY <1>1, <1>4, <1>11, Unaccounted
<1>13. r = SysFree([hp EXCEPT !.mem = DecrementUsage(@, w)], h)
  <2>1. h[1] # "aiv"
    BY <1>2
  <2> HIDE DEF h, w
  <2> QED BY <1>2, <1>11, <2>1 DEF MemFree, h
<1> HIDE DEF acct
<1> DEFINE hq == r.heap
<1>14. hq = [top |-> hp.top, mem |-> acct, arena |-> hp.arena,
             sys |-> S, store |-> hp.store, files |-> hp.files] /\ Ok(r)
  <2> DEFINE hr == [hp EXCEPT !.mem = DecrementUsage(@, w)]
  <2>1. hr = [top |-> hp.top, mem |-> acct, arena |-> hp.arena,
              sys |-> hp.sys, store |-> hp.store, files |-> hp.files]
    BY <1>1 DEF acct
  <2> HIDE DEF hr
  <2>2. r = Outcome([hr EXCEPT !.sys = Drop(@, n)], NoHandle, "ok")
    BY <1>2, <1>13 DEF SysFree, hr
  <2>3. hq = [hr EXCEPT !.sys = Drop(@, n)] /\ Ok(r)
    BY <2>2, Outcomes DEF Ok
  <2> QED BY <1>5, <2>1, <2>3
<1> HIDE DEF hq
<1>15. /\ hq.arena = hp.arena /\ hq.sys = S /\ hq.store = hp.store /\ hq.files = hp.files
       /\ hq.top = hp.top /\ hq.mem = acct
  BY <1>14
<1>16. AivWeight(hq) = 0 /\ SysWeight(hq) = Weights(S, DOMAIN S) /\ TakenOf(hq.arena.blocks) = {}
  BY <1>7, <1>8, <1>15 DEF AivWeight, SysWeight
<1>17. hq.mem.size = AivWeight(hq) + SysWeight(hq) /\ hq.mem.size <= MemLimit
  <2>1. hp.mem.size \in Nat /\ hp.mem.size <= MemLimit
    BY <1>1 DEF Books, Account
  <2> QED BY <1>4, <1>6, <1>10, <1>12, <1>15, <1>16, <2>1
<1>18. hq.mem.count = Cardinality(TakenOf(hq.arena.blocks)) + Cardinality(DOMAIN hq.sys)
  BY <1>6, <1>8, <1>9, <1>10, <1>12, <1>15, <1>16
<1>19. \A m \in DOMAIN hq.sys : hq.sys[m].size \in Nat
  BY <1>3, <1>6, <1>15
<1>20. Books(hq)
  BY <1>7, <1>16, <1>17, <1>18, <1>19 DEF Books
<1>21. Beside(hp, hq)
  BY <1>6, <1>15 DEF Beside
<1>22. MemHandles(hq) = MemHandles(hp) \ {h}
  BY <1>6, <1>15 DEF MemHandles, SysHandle, AivHandle
<1> QED BY <1>2, <1>11, <1>14, <1>20, <1>21, <1>22 DEF Unbooked, hq

LEMMA AivUnbooking ==
    ASSUME NEW limit \in Nat, NEW hp, HeapOK(hp, limit), Books(hp), MemLimit \in Nat,
           NEW o \in TakenOf(hp.arena.blocks), NEW r, r = MemFree(hp, AivHandle(o))
    PROVE  Unbooked(hp, r, AivHandle(o)) /\ CommonFreeAllows(hp.mem, MemAllocationSize(hp, AivHandle(o)))
<1> DEFINE h == AivHandle(o)
           w == Overhead + hp.arena.blocks[o].size
           A == FreeBlock(hp.arena, o)
           acct == DecrementUsage(hp.mem, w)
<1>1. /\ hp = [top |-> hp.top, mem |-> hp.mem, arena |-> hp.arena,
               sys |-> hp.sys, store |-> hp.store, files |-> hp.files]
      /\ hp.mem \in Account /\ Arena(hp.arena, limit)
  BY DEF HeapOK
<1>2. h[1] = "aiv" /\ h[2] = o /\ MemAllocationSize(hp, h) = w
  BY DEF AivHandle, MemAllocationSize
<1>3. o \in DOMAIN hp.arena.blocks /\ ~hp.arena.blocks[o].free
  BY DEF TakenOf, FreeOf
<1>4. w \in Nat
  <2>1. hp.arena.blocks[o].size \in Nat
    BY <1>1, <1>3, BlocksFinite
  <2> QED BY <2>1, BlockAssumption DEF Overhead
<1>5. A = FreeBlock(hp.arena, o)
  OBVIOUS
<1> HIDE DEF A
<1>6. Kept(hp.arena, A, o, limit) /\ TakenOf(A.blocks) = TakenOf(hp.arena.blocks) \ {o}
  BY <1>1, <1>3, <1>5, FreeingBlock
<1>7. /\ AivWeight(hp) = Weights(A.blocks, TakenOf(A.blocks)) + w
      /\ Weights(A.blocks, TakenOf(A.blocks)) \in Nat /\ AivWeight(hp) \in Nat
      /\ Cardinality(TakenOf(A.blocks)) = Cardinality(TakenOf(hp.arena.blocks)) - 1
  BY <1>1, <1>6, GivingWeight DEF AivWeight, Kept
<1>8. setup.mem = "aiv" /\ DOMAIN hp.sys = {}
  BY DEF Books
<1>9. SysWeight(hp) = 0 /\ Cardinality({}) = 0 /\ Cardinality(TakenOf(hp.arena.blocks)) \in Nat
  BY <1>1, <1>8, WeightsEmpty, FS_EmptySet, BlocksFinite, FS_CardinalityType DEF SysWeight
<1>10. hp.mem.size = AivWeight(hp) /\ hp.mem.count = Cardinality(TakenOf(hp.arena.blocks))
  BY <1>7, <1>8, <1>9 DEF Books
<1>11. CommonFreeAllows(hp.mem, w) /\ w <= hp.mem.size
  BY <1>4, <1>7, <1>10 DEF CommonFreeAllows
<1>12. acct.size = hp.mem.size - w /\ acct.count = hp.mem.count - 1
  BY <1>1, <1>4, <1>11, Unaccounted
<1>13. r = AivFree([hp EXCEPT !.mem = DecrementUsage(@, w)], h)
  <2>1. h[1] = "aiv"
    BY <1>2
  <2> HIDE DEF h, w
  <2> QED BY <1>2, <1>11, <2>1 DEF MemFree, h
<1> HIDE DEF acct
<1> DEFINE hq == r.heap
<1>14. hq = [top |-> hp.top, mem |-> acct, arena |-> A,
             sys |-> hp.sys, store |-> hp.store, files |-> hp.files] /\ Ok(r)
  <2> DEFINE hr == [hp EXCEPT !.mem = DecrementUsage(@, w)]
  <2>1. hr = [top |-> hp.top, mem |-> acct, arena |-> hp.arena,
              sys |-> hp.sys, store |-> hp.store, files |-> hp.files]
    BY <1>1 DEF acct
  <2> HIDE DEF hr
  <2>2. r = Outcome([hr EXCEPT !.arena = FreeBlock(@, o)], NoHandle, "ok")
    BY <1>2, <1>13 DEF AivFree, hr
  <2>3. hq = [hr EXCEPT !.arena = FreeBlock(@, o)] /\ Ok(r)
    BY <2>2, Outcomes DEF Ok
  <2> QED BY <1>5, <2>1, <2>3
<1> HIDE DEF hq
<1>15. /\ hq.arena = A /\ hq.sys = hp.sys /\ hq.store = hp.store /\ hq.files = hp.files
       /\ hq.top = hp.top /\ hq.mem = acct
  BY <1>14
<1>16. SysWeight(hq) = 0 /\ AivWeight(hq) = Weights(A.blocks, TakenOf(A.blocks)) /\ DOMAIN hq.sys = {}
  BY <1>8, <1>9, <1>15 DEF AivWeight, SysWeight
<1>17. hq.mem.size = AivWeight(hq) + SysWeight(hq) /\ hq.mem.size <= MemLimit
  <2>1. hp.mem.size \in Nat /\ hp.mem.size <= MemLimit
    BY <1>1 DEF Books, Account
  <2> QED BY <1>4, <1>7, <1>10, <1>12, <1>15, <1>16, <2>1
<1>18. hq.mem.count = Cardinality(TakenOf(hq.arena.blocks)) + Cardinality(DOMAIN hq.sys)
  BY <1>7, <1>9, <1>10, <1>12, <1>15, <1>16
<1>20. Books(hq)
  BY <1>8, <1>16, <1>17, <1>18 DEF Books
<1>21. Beside(hp, hq)
  BY <1>15 DEF Beside
<1>22. MemHandles(hq) = MemHandles(hp) \ {h}
  BY <1>6, <1>15 DEF MemHandles, SysHandle, AivHandle
<1> QED BY <1>2, <1>11, <1>14, <1>20, <1>21, <1>22 DEF Unbooked, hq

LEMMA MemUnbooking ==
    ASSUME NEW limit \in Nat, NEW hp, HeapOK(hp, limit), Books(hp), MemLimit \in Nat,
           NEW h \in MemHandles(hp), NEW r, r = MemFree(hp, h)
    PROVE  Unbooked(hp, r, h) /\ CommonFreeAllows(hp.mem, MemAllocationSize(hp, h))
<1>1. CASE \E n \in DOMAIN hp.sys : h = SysHandle(n)
  BY <1>1, SysUnbooking
<1>2. CASE \E o \in TakenOf(hp.arena.blocks) : h = AivHandle(o)
  BY <1>2, AivUnbooking
<1> QED BY <1>1, <1>2 DEF MemHandles

-----------------------------------------------------------------------------
(* The hybrid heap: what is spilled, and what its own account keeps.       *)

StoreHandles(hp) == {SpillHandle(n) : n \in DOMAIN hp.store}
AllHandles(hp) == StoreHandles(hp) \cup MemHandles(hp)

SysKept(hp, hq) == \A n \in DOMAIN hp.sys : n \in DOMAIN hq.sys => hq.sys[n].size = hp.sys[n].size

\* a file that a failed call has left may be written over
StoreKept(hp, hq) ==
    /\ hp.files <= hq.files
    /\ \A n \in DOMAIN hp.store : (setup.spill = "file" => n <= hp.files) =>
           n \in DOMAIN hq.store /\ hq.store[n] = hp.store[n]

NewlySpilled(hp, r, size) ==
    \E n \in Nat :
        /\ r.handle = SpillHandle(n) /\ r.heap.store[n].size = size
        /\ setup.spill = "vram" => n \notin DOMAIN hp.store
        /\ setup.spill = "file" => n = hp.files + 1 /\ r.heap.files = n /\ r.heap.store[n].file = n

Spilt(hp, r, size) ==
    /\ r.heap.mem = hp.mem /\ r.heap.arena = hp.arena /\ r.heap.sys = hp.sys
    /\ StoreKept(hp, r.heap)
    /\ r.handle = NoHandle => ~Ok(r) /\ hp.top.size <= r.heap.top.size + (SpillOverhead + size)
    /\ r.handle # NoHandle =>
         /\ Ok(r) /\ r.heap.top = hp.top /\ ~IsDirect(r.handle)
         /\ StoreHandles(r.heap) = StoreHandles(hp) \cup {r.handle}
         /\ NewlySpilled(hp, r, size)

PutStored(hp, hq, n, b) ==
    /\ StoreHandles(hq) = StoreHandles(hp) \cup {SpillHandle(n)} /\ hq.store[n] = b
    /\ \A m \in DOMAIN hp.store \ {n} : m \in DOMAIN hq.store /\ hq.store[m] = hp.store[m]

LEMMA PuttingStored ==
    ASSUME NEW hp, NEW n, NEW b, NEW hq, hq.store = Put(hp.store, n, b)
    PROVE  PutStored(hp, hq, n, b)
<1> DEFINE S == hq.store
<1>1. DOMAIN S = DOMAIN hp.store \cup {n} /\ S[n] = b /\ \A m \in DOMAIN hp.store \ {n} : S[m] = hp.store[m]
  BY DEF Put
<1> QED BY <1>1 DEF StoreHandles, PutStored

LEMMA VramSpilt ==
    ASSUME NEW limit \in Nat, NEW hp, HeapOK(hp, limit), NEW size \in Nat \ {0}, setup.spill = "vram",
           NEW r \in VramSpills(hp, size)
    PROVE  Spilt(hp, r, size)
<1> DEFINE n == Unused(hp.store)
           b == [size |-> size, file |-> 0, length |-> size]
           S == Put(hp.store, n, b)
           undone == DecrementUsage(hp.top, SpillOverhead + size)
           stored == [hp EXCEPT !.store = S]
<1>1. /\ hp = [top |-> hp.top, mem |-> hp.mem, arena |-> hp.arena,
               sys |-> hp.sys, store |-> hp.store, files |-> hp.files]
      /\ hp.top \in Account /\ IsFiniteSet(DOMAIN hp.store) /\ hp.files \in Nat
  BY DEF HeapOK
<1>2. hp.top.size \in Nat /\ hp.top.size <= undone.size + (SpillOverhead + size) /\ SpillOverhead + size \in Nat
  <2>1. SpillOverhead + size \in Nat /\ hp.top.size \in Nat
    BY <1>1, SizeAssumption DEF Account
  <2>2. undone.size = FloorSub(hp.top.size, SpillOverhead + size)
    BY DEF DecrementUsage
  <2> HIDE DEF undone
  <2> QED BY <2>1, <2>2 DEF FloorSub
<1>3. \/ r = Outcome(stored, SpillHandle(n), "ok")
      \/ r = Outcome(hp, NoHandle, "failed")
      \/ r = Outcome([stored EXCEPT !.top = undone], NoHandle, "failed")
  BY DEF VramSpills
<1>4. n \in Nat /\ n \notin DOMAIN hp.store
  BY <1>1, UnusedIsFree
<1>5. b.size = size /\ S = Put(hp.store, n, b)
  OBVIOUS
<1> HIDE DEF n, b, S, undone
<1>6. stored = [top |-> hp.top, mem |-> hp.mem, arena |-> hp.arena,
                sys |-> hp.sys, store |-> S, files |-> hp.files]
  BY <1>1
<1> HIDE DEF stored
<1>7. CASE r = Outcome(stored, SpillHandle(n), "ok")
  <2>1. r.heap = stored /\ r.handle = SpillHandle(n) /\ Ok(r)
    BY <1>7 DEF Outcome, Ok
  <2>2. /\ stored.mem = hp.mem /\ stored.arena = hp.arena /\ stored.sys = hp.sys /\ stored.top = hp.top
        /\ stored.store = S /\ stored.files = hp.files
    BY <1>6
  <2>3. /\ StoreHandles(stored) = StoreHandles(hp) \cup {SpillHandle(n)}
        /\ S[n] = b /\ \A m \in DOMAIN hp.store \ {n} : m \in DOMAIN S /\ S[m] = hp.store[m]
    <3>1. stored.store = Put(hp.store, n, b)
      BY <1>5, <2>2
    <3>2. PutStored(hp, stored, n, b)
      BY <3>1, PuttingStored
    <3> QED BY <2>2, <3>2 DEF PutStored
  <2>4. StoreKept(hp, stored)
    BY <1>1, <1>4, <2>2, <2>3 DEF StoreKept
  <2>5. NewlySpilled(hp, r, size)
    BY <1>4, <1>5, <2>1, <2>2, <2>3 DEF NewlySpilled
  <2>6. SpillHandle(n) # NoHandle /\ ~IsDirect(SpillHandle(n))
    BY DEF SpillHandle, NoHandle, IsDirect
  <2> QED BY <2>1, <2>2, <2>3, <2>4, <2>5, <2>6 DEF Spilt
<1>8. CASE r = Outcome(hp, NoHandle, "failed")
  <2>1. r.heap = hp /\ r.handle = NoHandle /\ ~Ok(r)
    BY <1>8 DEF Outcome, Ok
  <2>2. StoreKept(hp, hp)
    BY <1>1 DEF StoreKept
  <2> QED BY <1>2, <2>1, <2>2 DEF Spilt
<1>9. CASE r = Outcome([stored EXCEPT !.top = undone], NoHandle, "failed")
  <2> DEFINE hq == r.heap
  <2>1. hq = [stored EXCEPT !.top = undone] /\ r.handle = NoHandle /\ ~Ok(r)
    BY <1>9 DEF Outcome, Ok
  <2> HIDE DEF hq
  <2>2. /\ hq.mem = hp.mem /\ hq.arena = hp.arena /\ hq.sys = hp.sys /\ hq.top = undone
        /\ hq.store = S /\ hq.files = hp.files
    BY <1>6, <2>1
  <2>3. \A m \in DOMAIN hp.store \ {n} : m \in DOMAIN S /\ S[m] = hp.store[m]
    <3>1. hq.store = Put(hp.store, n, b)
      BY <1>5, <2>2
    <3>2. PutStored(hp, hq, n, b)
      BY <3>1, PuttingStored
    <3> QED BY <2>2, <3>2 DEF PutStored
  <2>4. StoreKept(hp, hq)
    BY <1>1, <1>4, <2>2, <2>3 DEF StoreKept
  <2> QED BY <1>2, <2>1, <2>2, <2>4 DEF Spilt, hq
<1> QED BY <1>3, <1>7, <1>8, <1>9

LEMMA FileSpilt ==
    ASSUME NEW limit \in Nat, NEW hp, HeapOK(hp, limit), NEW size \in Nat \ {0}, setup.spill = "file",
           NEW r \in FileSpills(hp, size)
    PROVE  Spilt(hp, r, size)
<1> DEFINE n == hp.files + 1
           b == [size |-> size, file |-> n, length |-> size]
           S == Put(hp.store, n, b)
           stored == [hp EXCEPT !.store = S]
<1>1. /\ hp = [top |-> hp.top, mem |-> hp.mem, arena |-> hp.arena,
               sys |-> hp.sys, store |-> hp.store, files |-> hp.files]
      /\ hp.top \in Account /\ hp.files \in Nat
  BY DEF HeapOK
<1>2. n \in Nat /\ n = hp.files + 1 /\ b.size = size /\ b.file = n /\ S = Put(hp.store, n, b)
  BY <1>1
<1>3. \/ r = Outcome([stored EXCEPT !.files = n], SpillHandle(n), "ok")
      \/ r = Outcome(hp, NoHandle, "failed")
      \/ r = Outcome(stored, NoHandle, "failed")
  BY DEF FileSpills
<1>4. hp.top.size \in Nat /\ hp.top.size <= hp.top.size + (SpillOverhead + size)
  BY <1>1, SizeAssumption DEF Account
<1> HIDE DEF n, b, S
<1>5. stored = [top |-> hp.top, mem |-> hp.mem, arena |-> hp.arena,
                sys |-> hp.sys, store |-> S, files |-> hp.files]
  BY <1>1
<1> HIDE DEF stored
<1>6. CASE r = Outcome([stored EXCEPT !.files = n], SpillHandle(n), "ok")
  <2> DEFINE hq == r.heap
  <2>1. hq = [stored EXCEPT !.files = n] /\ r.handle = SpillHandle(n) /\ Ok(r)
    BY <1>6 DEF Outcome, Ok
  <2> HIDE DEF hq
  <2>2. /\ hq.mem = hp.mem /\ hq.arena = hp.arena /\ hq.sys = hp.sys /\ hq.top = hp.top
        /\ hq.store = S /\ hq.files = n
    BY <1>5, <2>1
  <2>3. /\ StoreHandles(hq) = StoreHandles(hp) \cup {SpillHandle(n)}
        /\ S[n] = b /\ \A m \in DOMAIN hp.store \ {n} : m \in DOMAIN S /\ S[m] = hp.store[m]
    <3>1. hq.store = Put(hp.store, n, b)
      BY <1>2, <2>2
    <3>2. PutStored(hp, hq, n, b)
      BY <3>1, PuttingStored
    <3> QED BY <2>2, <3>2 DEF PutStored
  <2>4. StoreKept(hp, hq)
    BY <1>1, <1>2, <2>2, <2>3 DEF StoreKept
  <2>5. NewlySpilled(hp, r, size)
    BY <1>2, <2>1, <2>2, <2>3 DEF NewlySpilled, hq
  <2>6. SpillHandle(n) # NoHandle /\ ~IsDirect(SpillHandle(n))
    BY DEF SpillHandle, NoHandle, IsDirect
  <2> QED BY <2>1, <2>2, <2>3, <2>4, <2>5, <2>6 DEF Spilt, hq
<1>7. CASE r = Outcome(hp, NoHandle, "failed")
  <2>1. r.heap = hp /\ r.handle = NoHandle /\ ~Ok(r)
    BY <1>7 DEF Outcome, Ok
  <2>2. StoreKept(hp, hp)
    BY <1>1 DEF StoreKept
  <2> QED BY <1>4, <2>1, <2>2 DEF Spilt
<1>8. CASE r = Outcome(stored, NoHandle, "failed")
  <2>1. r.heap = stored /\ r.handle = NoHandle /\ ~Ok(r)
    BY <1>8 DEF Outcome, Ok
  <2>2. /\ stored.mem = hp.mem /\ stored.arena = hp.arena /\ stored.sys = hp.sys /\ stored.top = hp.top
        /\ stored.store = S /\ stored.files = hp.files
    BY <1>5
  <2>3. \A m \in DOMAIN hp.store \ {n} : m \in DOMAIN S /\ S[m] = hp.store[m]
    <3>1. stored.store = Put(hp.store, n, b)
      BY <1>2, <2>2
    <3>2. PutStored(hp, stored, n, b)
      BY <3>1, PuttingStored
    <3> QED BY <2>2, <3>2 DEF PutStored
  <2>4. StoreKept(hp, stored)
    BY <1>1, <1>2, <2>2, <2>3 DEF StoreKept
  <2> QED BY <1>4, <2>1, <2>2, <2>4 DEF Spilt
<1> QED BY <1>3, <1>6, <1>7, <1>8

\* a step that only counts in the account on top
Recounted(hp, hq) ==
    /\ hq.mem = hp.mem /\ hq.arena = hp.arena /\ hq.sys = hp.sys
    /\ hq.store = hp.store /\ hq.files = hp.files

LEMMA BooksSame ==
    ASSUME NEW hp, NEW hq, hq.mem = hp.mem, hq.arena = hp.arena, hq.sys = hp.sys, Books(hp)
    PROVE  Books(hq) /\ MemHandles(hq) = MemHandles(hp)
BY DEF Books, MemHandles, AivWeight, SysWeight

\* what an allocation of the heap on top does
Ledger(hp, r, size) ==
    /\ Books(r.heap) /\ SysKept(hp, r.heap) /\ StoreKept(hp, r.heap)
    /\ r.handle = NoHandle /\ Ok(r) => AllHandles(r.heap) = AllHandles(hp)
    /\ r.handle # NoHandle =>
         /\ Ok(r) /\ AllHandles(r.heap) = AllHandles(hp) \cup {r.handle}
         /\ IsDirect(r.handle) => /\ r.handle \notin MemHandles(hp)
                                  /\ r.handle[1] = "sys" => r.heap.sys[r.handle[2]].size = size
         /\ ~IsDirect(r.handle) => NewlySpilled(hp, r, size)
    /\ Spills /\ r.handle = NoHandle => hp.top.size <= r.heap.top.size
    /\ Spills /\ r.handle # NoHandle => hp.top.size + (SpillOverhead + size) <= r.heap.top.size

LEMMA BookedLedger ==
    ASSUME NEW hp, NEW hq, NEW r, NEW size, Recounted(hp, hq), hp.files \in Nat, Booked(hq, r, size),
           hp.top.size <= hq.top.size,
           Spills /\ r.handle # NoHandle => hp.top.size + (SpillOverhead + size) <= hq.top.size
    PROVE  Ledger(hp, r, size)
<1>1. /\ r.heap.top = hq.top /\ r.heap.store = hp.store /\ r.heap.files = hp.files
      /\ hq.sys = hp.sys /\ hq.arena = hp.arena /\ Books(r.heap) /\ Ok(r) /\ Beside(hq, r.heap)
  BY DEF Recounted, Booked, Beside
<1>2. StoreHandles(r.heap) = StoreHandles(hp) /\ MemHandles(hq) = MemHandles(hp)
  BY <1>1 DEF StoreHandles, MemHandles
<1>3. StoreKept(hp, r.heap)
  BY <1>1 DEF StoreKept
<1>4. SysKept(hp, r.heap)
  BY <1>1 DEF SysKept, Beside
<1>5. CASE r.handle = NoHandle
  <2>1. MemHandles(r.heap) = MemHandles(hp)
    BY <1>2, <1>5 DEF Booked
  <2> QED BY <1>1, <1>2, <1>3, <1>4, <1>5, <2>1 DEF Ledger, AllHandles
<1>6. CASE r.handle # NoHandle
  <2>1. /\ MemHandles(r.heap) = MemHandles(hp) \cup {r.handle} /\ IsDirect(r.handle)
        /\ r.handle \notin MemHandles(hp)
        /\ r.handle[1] = "sys" => r.heap.sys[r.handle[2]].size = size
    BY <1>2, <1>6 DEF Booked
  <2>2. AllHandles(r.heap) = AllHandles(hp) \cup {r.handle}
    BY <1>2, <2>1 DEF AllHandles
  <2> QED BY <1>1, <1>3, <1>4, <1>6, <2>1, <2>2 DEF Ledger
<1> QED BY <1>5, <1>6

LEMMA SpiltLedger ==
    ASSUME NEW hp, NEW hq, NEW r, NEW size \in Nat, Recounted(hp, hq), Books(hp), Spilt(hq, r, size),
           hp.top.size \in Nat, r.heap.top.size \in Nat,
           hq.top.size = hp.top.size + (SpillOverhead + size)
    PROVE  Ledger(hp, r, size)
<1>1. /\ r.heap.mem = hp.mem /\ r.heap.arena = hp.arena /\ r.heap.sys = hp.sys
      /\ hq.store = hp.store /\ hq.files = hp.files
  BY DEF Recounted, Spilt
<1>2. Books(r.heap) /\ MemHandles(r.heap) = MemHandles(hp)
  BY <1>1, BooksSame
<1>3. StoreHandles(hq) = StoreHandles(hp)
  BY <1>1 DEF StoreHandles
<1>4. StoreKept(hp, r.heap)
  BY <1>1 DEF Spilt, StoreKept
<1>5. SysKept(hp, r.heap)
  BY <1>1 DEF SysKept
<1>6. CASE r.handle = NoHandle
  <2>1. ~Ok(r) /\ hq.top.size <= r.heap.top.size + (SpillOverhead + size)
    BY <1>6 DEF Spilt
  <2>2. hp.top.size <= r.heap.top.size
    BY <2>1, SizeAssumption
  <2> QED BY <1>2, <1>4, <1>5, <1>6, <2>1, <2>2 DEF Ledger
<1>7. CASE r.handle # NoHandle
  <2>1. /\ Ok(r) /\ r.heap.top = hq.top /\ ~IsDirect(r.handle)
        /\ StoreHandles(r.heap) = StoreHandles(hp) \cup {r.handle}
        /\ NewlySpilled(hq, r, size)
    BY <1>3, <1>7 DEF Spilt
  <2>2. NewlySpilled(hp, r, size)
    BY <1>1, <2>1 DEF NewlySpilled
  <2>3. AllHandles(r.heap) = AllHandles(hp) \cup {r.handle}
    BY <1>2, <2>1 DEF AllHandles
  <2>4. hp.top.size + (SpillOverhead + size) <= r.heap.top.size
    BY <2>1, SizeAssumption
  <2> QED BY <1>2, <1>4, <1>5, <1>7, <2>1, <2>2, <2>3, <2>4 DEF Ledger
<1> QED BY <1>6, <1>7

LEMMA SpillLedger ==
    ASSUME NEW limit \in Nat, NEW hp, HeapOK(hp, limit), Books(hp), limit = MemLimit, NEW size \in Nat \ {0},
           setup.spill \in {"vram", "file"}, NEW r \in SpillAllocs(hp, size)
    PROVE  Ledger(hp, r, size)
<1> DEFINE top == IncrementUsage(hp.top, SpillOverhead + size)
           counted == [hp EXCEPT !.top = top]
<1>1. /\ hp = [top |-> hp.top, mem |-> hp.mem, arena |-> hp.arena,
               sys |-> hp.sys, store |-> hp.store, files |-> hp.files]
      /\ hp.top \in Account /\ hp.mem \in Account /\ hp.files \in Nat
  BY DEF HeapOK
<1>2. SpillOverhead + size \in Nat /\ SpillOverhead \in Nat
  BY SizeAssumption
<1>3. top \in Account /\ top.size = hp.top.size + (SpillOverhead + size) /\ hp.top.size \in Nat
  BY <1>1, <1>2, Accounting, Undoing DEF Account
<1>4. PICK q \in MemAllocs(counted, size) :
        r \in IF q.handle # NoHandle THEN {q} ELSE Spilled(counted, size)
  BY DEF SpillAllocs
<1> HIDE DEF top
<1>5. counted = [top |-> top, mem |-> hp.mem, arena |-> hp.arena,
                 sys |-> hp.sys, store |-> hp.store, files |-> hp.files]
  BY <1>1
<1> HIDE DEF counted
<1>6. HeapOK(counted, limit)
  BY <1>1, <1>3, <1>5, OtherAccounts
<1>7. Recounted(hp, counted) /\ counted.top = top
  BY <1>5 DEF Recounted
<1>8. Books(counted)
  BY <1>7, BooksSame DEF Recounted
<1>9. CASE q.handle # NoHandle
  <2>1. r = q
    BY <1>4, <1>9
  <2>2. Booked(counted, r, size)
    BY <1>6, <1>8, <2>1, MemBooking
  <2>3. hp.top.size <= counted.top.size /\ hp.top.size + (SpillOverhead + size) <= counted.top.size
    BY <1>2, <1>3, <1>7
  <2> QED BY <1>1, <1>7, <2>2, <2>3, BookedLedger
<1>10. CASE q.handle = NoHandle
  <2>1. r \in Spilled(counted, size)
    BY <1>4, <1>10
  <2>2. Spilt(counted, r, size) /\ Allocates(counted, r, size, limit)
    <3>2. CASE setup.spill = "vram"
      <4>1. r \in VramSpills(counted, size)
        BY <2>1, <3>2 DEF Spilled
      <4> QED BY <1>6, <3>2, <4>1, VramSpilling, VramSpilt
    <3>3. CASE setup.spill = "file"
      <4>1. r \in FileSpills(counted, size)
        BY <2>1, <3>3 DEF Spilled
      <4> QED BY <1>6, <3>3, <4>1, FileSpilling, FileSpilt
    <3> QED BY <3>2, <3>3
  <2>3. r.heap.top.size \in Nat
    BY <2>2 DEF Allocates, HeapOK, Account
  <2>4. counted.top.size = hp.top.size + (SpillOverhead + size)
    BY <1>3, <1>7
  <2> QED BY <1>3, <1>7, <2>2, <2>3, <2>4, SpiltLedger
<1> QED BY <1>9, <1>10

-----------------------------------------------------------------------------
(* The client's handles against the books.                                 *)

\* what the account of a hybrid heap holds for the client at least
Claim(own) == [h \in DOMAIN own |-> SpillOverhead + own[h]]
Claims(own) == Sum(Claim(own), DOMAIN own)

LEMMA ClaimsWithout ==
    ASSUME NEW own, NEW new, NEW h \in DOMAIN own, IsFiniteSet(DOMAIN own),
           \A g \in DOMAIN own : own[g] \in Nat,
           DOMAIN new = DOMAIN own \ {h}, \A g \in DOMAIN new : new[g] = own[g]
    PROVE  Claims(own) = Claims(new) + (SpillOverhead + own[h]) /\ Claims(own) \in Nat /\ Claims(new) \in Nat
<1> DEFINE v == Claim(own)
           w == Claim(new)
           T == DOMAIN new
<1>1. SpillOverhead \in Nat
  BY SizeAssumption
<1>2. /\ \A g \in DOMAIN own : v[g] \in Nat /\ v[g] = SpillOverhead + own[g]
      /\ \A g \in T : v[g] = w[g] /\ w[g] \in Nat
  BY <1>1 DEF Claim
<1>3. IsFiniteSet(T)
  BY FS_RemoveElement
<1> HIDE DEF v, w
<1>4. Sum(v, DOMAIN own) = Sum(v, DOMAIN own \ {h}) + v[h] /\ Sum(v, DOMAIN own) \in Nat
  BY <1>2, SumRemoves
<1>5. Sum(v, T) = Sum(w, T)
  BY <1>2, <1>3, SumSame
<1>6. Sum(w, T) \in Nat
  BY <1>2, <1>3, SumRemoves
<1> QED BY <1>2, <1>4, <1>5, <1>6 DEF Claims, v, w

Owns(hp, own) == \A h \in DOMAIN own : h \in Handles /\ Live(hp, h) /\ own[h] \in Nat

\* each allocation is of the size the client asked for, and a file goes by its number
Agrees(hp, own) ==
    \A h \in DOMAIN own :
        /\ h[1] = "sys" => hp.sys[h[2]].size = own[h]
        /\ h[1] = "spill" => hp.store[h[2]].size = own[h]
        /\ h[1] = "spill" /\ setup.spill = "file" => h[2] <= hp.files /\ hp.store[h[2]].file = h[2]

Balanced(hp, own) ==
    /\ Books(hp) /\ IsFiniteSet(DOMAIN own)
    /\ Agrees(hp, own)
    /\ Spills /\ setup.mem # "aiv" => Claims(own) <= hp.top.size

\* nothing is left behind
Exact(hp, own) == AllHandles(hp) = DOMAIN own

LEMMA LiveDirect ==
    ASSUME NEW limit \in Nat, NEW hp, HeapOK(hp, limit), NEW h \in Handles, Live(hp, h)
    PROVE  /\ IsDirect(h) => h \in MemHandles(hp)
           /\ ~IsDirect(h) => h = SpillHandle(h[2]) /\ h[2] \in DOMAIN hp.store /\ h[1] = "spill" /\ Spills
<1>1. h = <<h[1], h[2]>> /\ (h[1] = "aiv" \/ h[1] = "sys" \/ h[1] = "spill")
  BY DEF Handles
<1>2. CASE h[1] = "aiv"
  BY <1>1, <1>2 DEF Live, MemHandles, AivHandle, IsDirect, TakenOf, FreeOf
<1>3. CASE h[1] = "sys"
  BY <1>1, <1>3 DEF Live, MemHandles, SysHandle, IsDirect
<1>4. CASE h[1] = "spill"
  BY <1>1, <1>4 DEF Live, SpillHandle, IsDirect, Handles
<1> QED BY <1>1, <1>2, <1>3, <1>4

LEMMA LedgerBalances ==
    ASSUME NEW limit \in Nat, NEW hp, HeapOK(hp, limit), NEW own, Owns(hp, own), Balanced(hp, own),
           NEW size \in Nat, NEW r, Ledger(hp, r, size), HeapOK(r.heap, limit), Owns(r.heap, own),
           r.handle # NoHandle => r.handle \in Handles, Spills => setup.spill \in {"vram", "file"},
           NEW new, new = IF r.handle = NoHandle THEN own ELSE Put(own, r.handle, size)
    PROVE  Balanced(r.heap, new) /\ (Ok(r) /\ Exact(hp, own) => Exact(r.heap, new))
<1> DEFINE hq == r.heap
           g == r.handle
<1>1. /\ Books(hq) /\ SysKept(hp, hq) /\ StoreKept(hp, hq) /\ Agrees(hp, own)
      /\ IsFiniteSet(DOMAIN own) /\ hp.files \in Nat /\ hq.files \in Nat /\ hp.files <= hq.files
      /\ hp.top.size \in Nat /\ hq.top.size \in Nat
  BY DEF Ledger, Balanced, HeapOK, Account, StoreKept
<1>2. ASSUME NEW h \in DOMAIN own
      PROVE  /\ h[1] = "sys" => hq.sys[h[2]].size = own[h]
             /\ h[1] = "spill" => hq.store[h[2]].size = own[h]
             /\ h[1] = "spill" /\ setup.spill = "file" => h[2] <= hq.files /\ hq.store[h[2]].file = h[2]
  <2>1. Live(hp, h) /\ Live(hq, h) /\ h[2] \in Nat
    BY DEF Owns, Handles
  <2>2. CASE h[1] = "sys"
    <3>1. h[2] \in DOMAIN hp.sys /\ h[2] \in DOMAIN hq.sys
      BY <2>1, <2>2 DEF Live
    <3> QED BY <1>1, <2>2, <3>1 DEF Agrees, SysKept
  <2>3. CASE h[1] = "spill"
    <3>1. h[2] \in DOMAIN hp.store /\ hp.store[h[2]].size = own[h]
      BY <1>1, <2>1, <2>3 DEF Live, Agrees
    <3>2. setup.spill = "file" => h[2] <= hp.files /\ hp.store[h[2]].file = h[2]
      BY <1>1, <2>3 DEF Agrees
    <3>3. hq.store[h[2]] = hp.store[h[2]]
      BY <1>1, <3>1, <3>2 DEF StoreKept
    <3> QED BY <1>1, <2>1, <2>3, <3>1, <3>2, <3>3
  <2> QED BY <2>2, <2>3
<1>3. CASE g = NoHandle
  <2>1. new = own
    BY <1>3
  <2>2. Agrees(hq, own)
    BY <1>2 DEF Agrees
  <2>3. Spills /\ setup.mem # "aiv" => Claims(own) <= hq.top.size
    <3> SUFFICES ASSUME Spills, setup.mem # "aiv" PROVE Claims(own) <= hq.top.size
      OBVIOUS
    <3>1. Claims(own) <= hp.top.size /\ hp.top.size <= hq.top.size
      BY <1>3 DEF Balanced, Ledger
    <3>2. Claims(own) \in Int
      <4>1. \A h \in DOMAIN own : Claim(own)[h] \in Nat
        BY SizeAssumption DEF Claim, Owns
      <4> QED BY <1>1, <4>1, SumRemoves DEF Claims
    <3> QED BY <1>1, <3>1, <3>2
  <2>4. Ok(r) => AllHandles(hq) = AllHandles(hp)
    BY <1>3 DEF Ledger
  <2> QED BY <1>1, <2>1, <2>2, <2>3, <2>4 DEF Balanced, Exact
<1>4. CASE g # NoHandle
  <2>1. /\ g \in Handles /\ AllHandles(hq) = AllHandles(hp) \cup {g}
        /\ IsDirect(g) => /\ g \notin MemHandles(hp)
                          /\ g[1] = "sys" => hq.sys[g[2]].size = size
        /\ ~IsDirect(g) => NewlySpilled(hp, r, size)
    BY <1>4 DEF Ledger
  <2>2. DOMAIN new = DOMAIN own \cup {g} /\ new[g] = size /\ \A h \in DOMAIN own \ {g} : new[h] = own[h]
    BY <1>4 DEF Put
  <2>3. g \notin DOMAIN own
    <3> SUFFICES ASSUME g \in DOMAIN own PROVE FALSE
      OBVIOUS
    <3>1. g \in Handles /\ Live(hp, g)
      BY DEF Owns
    <3>2. ~IsDirect(g) /\ g[2] \in DOMAIN hp.store /\ g[1] = "spill" /\ Spills
      BY <2>1, <3>1, LiveDirect
    <3>3. PICK n \in Nat : /\ g = SpillHandle(n)
                           /\ setup.spill = "vram" => n \notin DOMAIN hp.store
                           /\ setup.spill = "file" => n = hp.files + 1
      BY <2>1, <3>2 DEF NewlySpilled
    <3>4. g[2] = n
      BY <3>3 DEF SpillHandle
    <3>5. setup.spill = "file" => g[2] <= hp.files
      BY <1>1, <3>2 DEF Agrees
    <3> QED BY <1>1, <3>2, <3>3, <3>4, <3>5
  <2>4. /\ g[1] = "sys" => hq.sys[g[2]].size = size
        /\ g[1] = "spill" => hq.store[g[2]].size = size
        /\ g[1] = "spill" /\ setup.spill = "file" => g[2] <= hq.files /\ hq.store[g[2]].file = g[2]
    <3>1. CASE IsDirect(g)
      BY <2>1, <3>1 DEF IsDirect
    <3>2. CASE ~IsDirect(g)
      <4>1. PICK n \in Nat : /\ g = SpillHandle(n) /\ hq.store[n].size = size
                             /\ setup.spill = "file" => n = hp.files + 1 /\ hq.files = n /\ hq.store[n].file = n
        BY <2>1, <3>2 DEF NewlySpilled
      <4>2. g[2] = n /\ g[1] # "sys"
        BY <4>1 DEF SpillHandle
      <4> QED BY <4>1, <4>2
    <3> QED BY <3>1, <3>2
  <2>5. Agrees(hq, new)
    <3> HIDE DEF hq, g
    <3> QED BY <1>2, <2>2, <2>3, <2>4 DEF Agrees
  <2>6. IsFiniteSet(DOMAIN new)
    BY <1>1, <2>2, FS_AddElement
  <2>7. Spills /\ setup.mem # "aiv" => Claims(new) <= hq.top.size
    <3> SUFFICES ASSUME Spills, setup.mem # "aiv" PROVE Claims(new) <= hq.top.size
      OBVIOUS
    <3>1. Claims(own) <= hp.top.size /\ hp.top.size + (SpillOverhead + size) <= hq.top.size
      BY <1>4 DEF Balanced, Ledger
    <3>2. \A h \in DOMAIN new : new[h] \in Nat
      BY <2>2 DEF Owns
    <3> HIDE DEF hq, g
    <3>3. g \in DOMAIN new /\ DOMAIN own = DOMAIN new \ {g} /\ \A h \in DOMAIN own : own[h] = new[h]
      BY <2>2, <2>3
    <3>4. Claims(new) = Claims(own) + (SpillOverhead + new[g]) /\ Claims(new) \in Nat /\ Claims(own) \in Nat
      BY <2>6, <3>2, <3>3, ClaimsWithout
    <3> QED BY <1>1, <2>2, <3>1, <3>4, SizeAssumption
  <2> QED BY <1>1, <2>1, <2>2, <2>5, <2>6, <2>7 DEF Balanced, Exact
<1> QED BY <1>3, <1>4

-----------------------------------------------------------------------------
(* A free against the client's handles.                                    *)

Repaid(hp, r, h) ==
    /\ Books(r.heap) /\ SysKept(hp, r.heap) /\ r.heap.files = hp.files
    /\ \A n \in DOMAIN hp.store : SpillHandle(n) # h => n \in DOMAIN r.heap.store /\ r.heap.store[n] = hp.store[n]
    /\ Ok(r) => AllHandles(r.heap) = AllHandles(hp) \ {h}
    /\ Spills => hp.top.size <= r.heap.top.size + SpillAllocationSize(hp, h)

LEMMA UnbookedRepaid ==
    ASSUME NEW hp, NEW hq, NEW r, NEW h, Recounted(hp, hq), Unbooked(hq, r, h), IsDirect(h),
           Spills => hp.top.size <= hq.top.size + SpillAllocationSize(hp, h)
    PROVE  Repaid(hp, r, h)
<1>1. /\ r.heap.top = hq.top /\ r.heap.store = hp.store /\ r.heap.files = hp.files
      /\ hq.sys = hp.sys /\ hq.arena = hp.arena /\ Books(r.heap)
      /\ \A n \in DOMAIN hq.sys : n \in DOMAIN r.heap.sys => r.heap.sys[n].size = hq.sys[n].size
  BY DEF Recounted, Unbooked, Beside
<1>2. StoreHandles(r.heap) = StoreHandles(hp) /\ MemHandles(hq) = MemHandles(hp)
  BY <1>1 DEF StoreHandles, MemHandles
<1>3. h \notin StoreHandles(hp)
  BY DEF StoreHandles, SpillHandle, IsDirect
<1>4. MemHandles(r.heap) = MemHandles(hp) \ {h}
  BY <1>2 DEF Unbooked
<1>5. AllHandles(r.heap) = AllHandles(hp) \ {h}
  BY <1>2, <1>3, <1>4 DEF AllHandles
<1>6. SysKept(hp, r.heap)
  BY <1>1 DEF SysKept
<1> QED BY <1>1, <1>5, <1>6 DEF Repaid

\* a refused call, and one that only the account on top knows of
LEMMA NothingRepaid ==
    ASSUME NEW hp, NEW r, NEW h, Recounted(hp, r.heap), Books(hp), ~Ok(r),
           Spills => hp.top.size <= r.heap.top.size + SpillAllocationSize(hp, h)
    PROVE  Repaid(hp, r, h)
<1>1. /\ r.heap.mem = hp.mem /\ r.heap.arena = hp.arena /\ r.heap.sys = hp.sys
      /\ r.heap.store = hp.store /\ r.heap.files = hp.files
  BY DEF Recounted
<1>2. Books(r.heap)
  BY <1>1, BooksSame
<1>3. SysKept(hp, r.heap)
  BY <1>1 DEF SysKept
<1> QED BY <1>1, <1>2, <1>3 DEF Repaid

LEMMA DroppedRepaid ==
    ASSUME NEW hp, NEW r, NEW n \in DOMAIN hp.store, r.heap.mem = hp.mem, r.heap.arena = hp.arena, r.heap.sys = hp.sys,
           r.heap.store = Drop(hp.store, n), r.heap.files = hp.files, Books(hp),
           Spills => hp.top.size <= r.heap.top.size + SpillAllocationSize(hp, SpillHandle(n))
    PROVE  Repaid(hp, r, SpillHandle(n))
<1> DEFINE S == r.heap.store
           h == SpillHandle(n)
<1>1. DOMAIN S = DOMAIN hp.store \ {n} /\ \A m \in DOMAIN hp.store \ {n} : S[m] = hp.store[m]
  BY DEF Drop
<1>2. Books(r.heap) /\ MemHandles(r.heap) = MemHandles(hp)
  BY BooksSame
<1>3. SysKept(hp, r.heap)
  BY DEF SysKept
<1>4. \A m : SpillHandle(m) = h <=> m = n
  BY DEF SpillHandle
<1>5. h \notin MemHandles(hp)
  BY DEF MemHandles, SpillHandle, SysHandle, AivHandle
<1>6. StoreHandles(r.heap) = StoreHandles(hp) \ {h}
  <2> HIDE DEF h
  <2> QED BY <1>1, <1>4 DEF StoreHandles
<1>7. AllHandles(r.heap) = AllHandles(hp) \ {h}
  BY <1>2, <1>5, <1>6 DEF AllHandles
<1>8. \A m \in DOMAIN hp.store : SpillHandle(m) # h => m \in DOMAIN S /\ S[m] = hp.store[m]
  BY <1>1, <1>4
<1> QED BY <1>2, <1>3, <1>7, <1>8 DEF Repaid

LEMMA MemRepaid ==
    ASSUME NEW limit \in Nat, NEW hp, HeapOK(hp, limit), Books(hp), limit = MemLimit, ~Spills,
           NEW h \in Handles, Live(hp, h), NEW r, r = MemFree(hp, h)
    PROVE  Repaid(hp, r, h)
<1>1. IsDirect(h)
  BY DEF Handles
<1>2. h \in MemHandles(hp)
  BY <1>1, LiveDirect
<1>3. Unbooked(hp, r, h)
  BY <1>2, MemUnbooking
<1>4. Recounted(hp, hp)
  BY DEF Recounted
<1> QED BY <1>1, <1>3, <1>4, UnbookedRepaid

LEMMA SpillSizes ==
    ASSUME NEW limit \in Nat, NEW hp, HeapOK(hp, limit), NEW h \in Handles, Live(hp, h)
    PROVE  SpillAllocationSize(hp, h) \in Nat
<1> DEFINE n == SpillAllocationSize(hp, h)
<1>1. CASE IsDirect(h)
  <2> DEFINE k == MemAllocationSize(hp, h) - Overhead
  <2>1. k \in Nat
    BY <1>1, LiveSizes
  <2>2. n = k + SpillOverhead
    BY <1>1 DEF SpillAllocationSize
  <2> HIDE DEF k, n
  <2>3. n \in Nat
    BY <2>1, <2>2, SizeAssumption
  <2> QED BY <2>3 DEF n
<1>2. CASE ~IsDirect(h)
  <2>1. hp.store[h[2]].size \in Nat
    BY <1>2 DEF Live, IsDirect
  <2> QED BY <1>2, <2>1, SizeAssumption DEF SpillAllocationSize
<1> QED BY <1>1, <1>2

LEMMA TakingOff ==
    ASSUME NEW acct \in Account, NEW n \in Nat
    PROVE  /\ DecrementUsage(acct, n).size \in Nat /\ acct.size \in Nat
           /\ acct.size <= DecrementUsage(acct, n).size + n
<1>1. acct.size \in Nat
  BY DEF Account
<1>2. FloorSub(acct.size, n) \in Nat /\ acct.size <= FloorSub(acct.size, n) + n
  BY <1>1 DEF FloorSub
<1> QED BY <1>1, <1>2 DEF DecrementUsage

LEMMA FoundRepaid ==
    ASSUME NEW limit \in Nat, NEW hp, HeapOK(hp, limit), Books(hp), limit = MemLimit,
           NEW h \in Handles, Live(hp, h), NEW n \in SizesFound(hp, h), NEW r \in FreesFound(hp, h, n)
    PROVE  Repaid(hp, r, h)
<1> DEFINE top == DecrementUsage(hp.top, n)
           counted == [hp EXCEPT !.top = top]
<1>1. /\ hp = [top |-> hp.top, mem |-> hp.mem, arena |-> hp.arena,
               sys |-> hp.sys, store |-> hp.store, files |-> hp.files]
      /\ hp.top \in Account /\ hp.mem \in Account
  BY DEF HeapOK
<1>2. n \in Nat /\ n <= SpillAllocationSize(hp, h) /\ SpillAllocationSize(hp, h) \in Nat
  <2>1. SpillAllocationSize(hp, h) \in Nat
    BY SpillSizes
  <2>2. CASE IsDirect(h)
    BY <2>1, <2>2 DEF SizesFound
  <2>3. CASE ~IsDirect(h)
    <3>1. hp.store[h[2]].size \in Nat
      BY <2>3 DEF Live, IsDirect
    <3>2. SpillAllocationSize(hp, h) = hp.store[h[2]].size + SpillOverhead
      BY <2>3 DEF SpillAllocationSize
    <3>3. n = SpillAllocationSize(hp, h) \/ n = SpillOverhead
      BY DEF SizesFound
    <3> QED BY <3>1, <3>2, <3>3, SizeAssumption
  <2> QED BY <2>2, <2>3
<1>3. /\ top \in Account /\ hp.top.size \in Nat
      /\ hp.top.size <= top.size + SpillAllocationSize(hp, h)
  <2>1. top \in Account /\ hp.top.size \in Nat /\ top.size \in Nat /\ hp.top.size <= top.size + n
    BY <1>1, <1>2, Accounting, TakingOff
  <2> HIDE DEF top
  <2> QED BY <1>2, <2>1
<1>4. /\ ~CommonFreeAllows(hp.top, n) => r = Outcome(hp, h, "failed")
      /\ CommonFreeAllows(hp.top, n) /\ IsDirect(h) => r = MemFree(counted, h)
      /\ CommonFreeAllows(hp.top, n) /\ ~IsDirect(h) => r \in FileFrees(counted, h)
  BY DEF FreesFound
<1> HIDE DEF top
<1>5. counted = [top |-> top, mem |-> hp.mem, arena |-> hp.arena,
                 sys |-> hp.sys, store |-> hp.store, files |-> hp.files]
  BY <1>1
<1> HIDE DEF counted
<1>6. HeapOK(counted, limit)
  BY <1>1, <1>3, <1>5, OtherAccounts
<1>7. /\ Recounted(hp, counted) /\ counted.top = top
      /\ counted.arena = hp.arena /\ counted.sys = hp.sys /\ counted.mem = hp.mem
      /\ counted.store = hp.store /\ counted.files = hp.files
  BY <1>5 DEF Recounted
<1>8. Books(counted) /\ MemHandles(counted) = MemHandles(hp)
  BY <1>7, BooksSame
<1>9. CASE ~CommonFreeAllows(hp.top, n)
  <2>1. r.heap = hp /\ ~Ok(r)
    BY <1>4, <1>9 DEF Outcome, Ok
  <2>2. Recounted(hp, r.heap) /\ hp.top.size <= r.heap.top.size + SpillAllocationSize(hp, h)
    BY <1>2, <1>3, <2>1 DEF Recounted
  <2> QED BY <2>1, <2>2, NothingRepaid
<1>10. CASE CommonFreeAllows(hp.top, n) /\ IsDirect(h)
  <2>1. r = MemFree(counted, h)
    BY <1>4, <1>10
  <2>2. h \in MemHandles(counted)
    BY <1>8, <1>10, LiveDirect
  <2>3. Unbooked(counted, r, h)
    BY <1>6, <1>8, <2>1, <2>2, MemUnbooking
  <2>4. hp.top.size <= counted.top.size + SpillAllocationSize(hp, h)
    BY <1>3, <1>7
  <2> QED BY <1>7, <1>10, <2>3, <2>4, UnbookedRepaid
<1>11. CASE CommonFreeAllows(hp.top, n) /\ ~IsDirect(h)
  <2> DEFINE m == h[2]
             hq == [counted EXCEPT !.store = Drop(@, m)]
  <2>1. r = Outcome(hq, NoHandle, "ok") \/ r = Outcome(counted, h, "failed")
    BY <1>4, <1>11 DEF FileFrees
  <2>2. h = SpillHandle(m) /\ m \in DOMAIN hp.store
    BY <1>11, LiveDirect
  <2>3. CASE r = Outcome(counted, h, "failed")
    <3>1. r.heap = counted /\ ~Ok(r)
      BY <2>3 DEF Outcome, Ok
    <3>2. hp.top.size <= r.heap.top.size + SpillAllocationSize(hp, h)
      BY <1>3, <1>7, <3>1
    <3> QED BY <1>7, <3>1, <3>2, NothingRepaid
  <2>4. CASE r = Outcome(hq, NoHandle, "ok")
    <3>1. r.heap = hq
      BY <2>4 DEF Outcome
    <3>2. hq = [top |-> top, mem |-> hp.mem, arena |-> hp.arena,
                sys |-> hp.sys, store |-> Drop(hp.store, m), files |-> hp.files]
      BY <1>5
    <3> HIDE DEF hq, m
    <3>3. /\ r.heap.mem = hp.mem /\ r.heap.arena = hp.arena /\ r.heap.sys = hp.sys
          /\ r.heap.store = Drop(hp.store, m) /\ r.heap.files = hp.files /\ r.heap.top = top
      BY <3>1, <3>2
    <3>4. hp.top.size <= r.heap.top.size + SpillAllocationSize(hp, SpillHandle(m))
      BY <1>3, <2>2, <3>3
    <3>5. Repaid(hp, r, SpillHandle(m))
      BY <2>2, <3>3, <3>4, DroppedRepaid
    <3> QED BY <2>2, <3>5
  <2> QED BY <2>1, <2>3, <2>4
<1> QED BY <1>9, <1>10, <1>11

LEMMA SpillRepaid ==
    ASSUME NEW limit \in Nat, NEW hp, HeapOK(hp, limit), Books(hp), limit = MemLimit,
           NEW h \in Handles, Live(hp, h), NEW r \in SpillFrees(hp, h)
    PROVE  Repaid(hp, r, h)
<1>1. CASE \E n \in SizesFound(hp, h) : r \in FreesFound(hp, h, n)
  BY <1>1, FoundRepaid
<1>2. CASE r = Outcome(hp, h, "failed")
  <2>1. r.heap = hp /\ ~Ok(r)
    BY <1>2 DEF Outcome, Ok
  <2>2. hp.top.size \in Nat /\ SpillAllocationSize(hp, h) \in Nat
    BY SpillSizes DEF HeapOK, Account
  <2>3. Recounted(hp, r.heap) /\ hp.top.size <= r.heap.top.size + SpillAllocationSize(hp, h)
    BY <2>1, <2>2 DEF Recounted
  <2> QED BY <2>1, <2>3, NothingRepaid
<1> DEFINE Found == UNION {FreesFound(hp, h, n) : n \in SizesFound(hp, h)}
           Unlocked == IF setup.spill = "vram" THEN Refused(hp, h) ELSE {}
<1>3. r \in Unlocked => r = Outcome(hp, h, "failed")
  BY DEF Refused
<1>4. r \in Found => \E n \in SizesFound(hp, h) : r \in FreesFound(hp, h, n)
  OBVIOUS
<1>5. SpillFrees(hp, h) = Found \cup Unlocked
  BY DEF SpillFrees
<1> HIDE DEF Found, Unlocked
<1>6. r \in Found \/ r \in Unlocked
  BY <1>5
<1> QED BY <1>1, <1>2, <1>3, <1>4, <1>6

LEMMA SpillSizeIs ==
    ASSUME NEW limit \in Nat, NEW hp, HeapOK(hp, limit), NEW own, Owns(hp, own), Balanced(hp, own),
           setup.mem # "aiv", NEW h \in DOMAIN own
    PROVE  SpillAllocationSize(hp, h) = SpillOverhead + own[h] /\ own[h] \in Nat
<1>1. h \in Handles /\ Live(hp, h) /\ own[h] \in Nat
  BY DEF Owns
<1>2. Agrees(hp, own) /\ TakenOf(hp.arena.blocks) = {}
  BY DEF Balanced, Books
<1>3. CASE IsDirect(h)
  <2>1. h \in MemHandles(hp)
    BY <1>1, <1>3, LiveDirect
  <2>2. h[1] = "sys"
    BY <1>2, <2>1 DEF MemHandles, SysHandle
  <2>3. hp.sys[h[2]].size = own[h]
    BY <1>2, <2>2 DEF Agrees
  <2>4. MemAllocationSize(hp, h) = Overhead + own[h]
    BY <2>2, <2>3 DEF MemAllocationSize
  <2>5. Overhead \in Nat
    BY BlockAssumption DEF Overhead
  <2> QED BY <1>1, <1>3, <2>4, <2>5, SizeAssumption DEF SpillAllocationSize
<1>4. CASE ~IsDirect(h)
  <2>1. h[1] = "spill"
    BY <1>4 DEF IsDirect
  <2>2. hp.store[h[2]].size = own[h]
    BY <1>2, <2>1 DEF Agrees
  <2> QED BY <1>1, <1>4, <2>2, SizeAssumption DEF SpillAllocationSize
<1> QED BY <1>3, <1>4

LEMMA RepaidBalances ==
    ASSUME NEW limit \in Nat, NEW hp, HeapOK(hp, limit), NEW own, Owns(hp, own), Balanced(hp, own),
           NEW h \in DOMAIN own, NEW r, Repaid(hp, r, h), HeapOK(r.heap, limit),
           NEW new, new = Drop(own, h), Owns(r.heap, new)
    PROVE  Balanced(r.heap, new) /\ (Ok(r) /\ Exact(hp, own) => Exact(r.heap, new))
<1> DEFINE hq == r.heap
<1>1. DOMAIN new = DOMAIN own \ {h} /\ \A g \in DOMAIN new : new[g] = own[g]
  BY DEF Drop
<1>2. /\ Books(hq) /\ SysKept(hp, hq) /\ hq.files = hp.files /\ Agrees(hp, own) /\ IsFiniteSet(DOMAIN own)
      /\ \A n \in DOMAIN hp.store : SpillHandle(n) # h => n \in DOMAIN hq.store /\ hq.store[n] = hp.store[n]
      /\ hp.top.size \in Nat /\ hq.top.size \in Nat
  BY DEF Repaid, Balanced, HeapOK, Account
<1>3. IsFiniteSet(DOMAIN new)
  BY <1>1, <1>2, FS_RemoveElement
<1> HIDE DEF hq
<1>4. ASSUME NEW g \in DOMAIN new
      PROVE  /\ g[1] = "sys" => hq.sys[g[2]].size = new[g]
             /\ g[1] = "spill" => hq.store[g[2]].size = new[g]
             /\ g[1] = "spill" /\ setup.spill = "file" => g[2] <= hq.files /\ hq.store[g[2]].file = g[2]
  <2>1. Live(hp, g) /\ Live(hq, g) /\ g \in Handles /\ g \in DOMAIN own /\ g # h /\ new[g] = own[g]
    BY <1>1 DEF Owns, hq
  <2>2. CASE g[1] = "sys"
    <3>1. g[2] \in DOMAIN hp.sys /\ g[2] \in DOMAIN hq.sys
      BY <2>1, <2>2 DEF Live
    <3> QED BY <1>2, <2>1, <2>2, <3>1 DEF Agrees, SysKept
  <2>3. CASE g[1] = "spill"
    <3>1. g[2] \in DOMAIN hp.store /\ g = SpillHandle(g[2])
      BY <2>1, <2>3 DEF Live, Handles, SpillHandle
    <3>2. hq.store[g[2]] = hp.store[g[2]]
      BY <1>2, <2>1, <3>1
    <3> QED BY <1>2, <2>1, <2>3, <3>2 DEF Agrees
  <2> QED BY <2>2, <2>3
<1>5. Agrees(hq, new)
  BY <1>4 DEF Agrees
<1>6. Spills /\ setup.mem # "aiv" => Claims(new) <= hq.top.size
  <2> SUFFICES ASSUME Spills, setup.mem # "aiv" PROVE Claims(new) <= hq.top.size
    OBVIOUS
  <2>1. SpillAllocationSize(hp, h) = SpillOverhead + own[h] /\ own[h] \in Nat
    BY SpillSizeIs
  <2>2. Claims(own) <= hp.top.size /\ hp.top.size <= hq.top.size + (SpillOverhead + own[h])
    BY <2>1 DEF Balanced, Repaid, hq
  <2>3. \A g \in DOMAIN own : own[g] \in Nat
    BY DEF Owns
  <2>4. Claims(own) = Claims(new) + (SpillOverhead + own[h]) /\ Claims(own) \in Nat /\ Claims(new) \in Nat
    BY <1>1, <1>2, <2>3, ClaimsWithout
  <2> QED BY <1>2, <2>1, <2>2, <2>4, SizeAssumption
<1>7. Balanced(hq, new)
  BY <1>2, <1>3, <1>5, <1>6 DEF Balanced
<1>8. Ok(r) => AllHandles(hq) = AllHandles(hp) \ {h}
  BY DEF Repaid, hq
<1> QED BY <1>1, <1>7, <1>8 DEF Exact, hq

LEMMA WrittenBalances ==
    ASSUME NEW limit \in Nat, NEW hp, HeapOK(hp, limit), NEW own, Owns(hp, own), Balanced(hp, own),
           NEW h \in DOMAIN own, ~IsDirect(h), setup.spill = "file", NEW hq,
           hq = [hp EXCEPT !.store = Put(@, @[h[2]].file, @[h[2]])]
    PROVE  Balanced(hq, own) /\ (Exact(hp, own) => Exact(hq, own))
<1> DEFINE b == hp.store[h[2]]
           n == h[2]
<1>1. /\ hp = [top |-> hp.top, mem |-> hp.mem, arena |-> hp.arena,
               sys |-> hp.sys, store |-> hp.store, files |-> hp.files]
  BY DEF HeapOK
<1>2. h \in Handles /\ Live(hp, h) /\ h[1] = "spill" /\ n \in DOMAIN hp.store
  <2>1. h \in Handles /\ Live(hp, h)
    BY DEF Owns
  <2> QED BY <2>1, LiveDirect
<1>3. Books(hp) /\ IsFiniteSet(DOMAIN own) /\ Agrees(hp, own)
  BY DEF Balanced
<1>4. b.file = n
  BY <1>2, <1>3 DEF Agrees
<1>5. hq = [hp EXCEPT !.store = Put(hp.store, n, b)]
  BY <1>1, <1>4
<1>6. b = hp.store[n]
  OBVIOUS
<1> HIDE DEF b, n
<1>7. /\ hq.mem = hp.mem /\ hq.arena = hp.arena /\ hq.sys = hp.sys /\ hq.top = hp.top
      /\ hq.files = hp.files /\ hq.store = Put(hp.store, n, b)
  BY <1>1, <1>5
<1>8. DOMAIN hq.store = DOMAIN hp.store /\ \A m \in DOMAIN hp.store : hq.store[m] = hp.store[m]
  BY <1>2, <1>6, <1>7 DEF Put
<1>9. Books(hq) /\ MemHandles(hq) = MemHandles(hp)
  BY <1>3, <1>7, BooksSame
<1>10. AllHandles(hq) = AllHandles(hp)
  BY <1>8, <1>9 DEF AllHandles, StoreHandles
<1>11. \A g \in DOMAIN own : g[1] = "spill" => g[2] \in DOMAIN hp.store
  BY DEF Owns, Live
<1>12. Agrees(hq, own)
  BY <1>3, <1>7, <1>8, <1>11 DEF Agrees
<1> QED BY <1>3, <1>7, <1>9, <1>10, <1>12 DEF Balanced, Exact
-----------------------------------------------------------------------------
(* The books of the heap, step by step.                                    *)

AccountInv ==
    /\ HeapInv
    /\ released => DOMAIN owned = {}
    /\ resizes = 0 /\ ~released => Balanced(heap, owned) /\ (faults = 0 => Exact(heap, owned))

LEMMA OwnedServed ==
    ASSUME HeapInv
    PROVE  Owns(heap, owned)
BY Served, SizeAssumption DEF Owns, Serves

\* the same, of the step's outcome
LEMMA OwnedServedNext ==
    ASSUME HeapInv', setup' = setup
    PROVE  Owns(heap', owned') /\ HeapOK(heap', MemLimit)
<1>1. Handles' = Handles /\ MemLimit' = MemLimit
  BY DEF Handles, Spills, MemLimit
<1>2. \A h \in DOMAIN owned' : owned'[h] \in Sizes /\ h \in Handles /\ Live(heap', h)
  BY <1>1 DEF HeapInv, TypeOK, Serves
<1>3. HeapOK(heap', MemLimit)
  BY <1>1 DEF HeapInv
<1> QED BY <1>2, <1>3, SizeAssumption DEF Owns

LEMMA AccountKept ==
    ASSUME HeapInv', setup' = setup, released' => DOMAIN owned' = {},
           resizes' = 0 /\ ~released' => Balanced(heap', owned') /\ (faults' = 0 => Exact(heap', owned'))
    PROVE  AccountInv'
<1>1. MemLimit' = MemLimit /\ (Spills' <=> Spills)
  BY DEF MemLimit, Spills
<1>2. Balanced(heap', owned') => Balanced(heap, owned)'
  <2>1. Books(heap') => Books(heap)'
    BY <1>1 DEF Books
  <2>2. Agrees(heap', owned') => Agrees(heap, owned)'
    BY DEF Agrees
  <2> QED BY <1>1, <2>1, <2>2 DEF Balanced
<1>3. Exact(heap', owned') => Exact(heap, owned)'
  BY DEF Exact
<1> QED BY <1>2, <1>3 DEF AccountInv

LEMMA AllocAccounts ==
    ASSUME AccountInv, NEW size \in Sizes, Alloc(size), released' = released, ~released
    PROVE  AccountInv'
<1> DEFINE new == owned'
<1>1. /\ HeapInv /\ MemLimit \in Nat /\ HeapOK(heap, MemLimit)
      /\ (Spills => setup.spill \in {"vram", "file"}) /\ size \in Nat \ {0} /\ faults \in Nat
  BY Served, SizeAssumption DEF AccountInv
<1>2. HeapInv' /\ setup' = setup /\ resizes' = resizes
  BY <1>1, AllocKeeps DEF Alloc
<1>3. PICK r \in HeapAllocs(size) :
          /\ heap' = r.heap
          /\ owned' = IF r.handle = NoHandle THEN owned ELSE Put(owned, r.handle, size)
          /\ Counted(r)
  BY DEF Alloc
<1>4. ASSUME resizes = 0
      PROVE  Balanced(heap', owned') /\ (faults' = 0 => Exact(heap', owned'))
  <2>1. Balanced(heap, owned) /\ (faults = 0 => Exact(heap, owned)) /\ Books(heap)
    BY <1>4 DEF AccountInv, Balanced
  <2>2. Ledger(heap, r, size) /\ Allocates(heap, r, size, MemLimit)
    <3>1. heap.files \in Nat /\ heap.top.size \in Nat /\ Recounted(heap, heap)
      BY <1>1 DEF HeapOK, Account, Recounted
    <3>2. CASE ~Spills
      <4>1. r \in MemAllocs(heap, size)
        BY <1>3, <3>2 DEF HeapAllocs
      <4>2. Booked(heap, r, size) /\ Allocates(heap, r, size, MemLimit)
        BY <1>1, <2>1, <4>1, MemBooking, MemAllocating
      <4>3. Ledger(heap, r, size)
        BY <3>1, <3>2, <4>2, BookedLedger
      <4> QED BY <4>2, <4>3
    <3>3. CASE Spills /\ Fits(heap.top, SpillOverhead + size, setup.limit)
      <4>1. r \in SpillAllocs(heap, size)
        BY <1>3, <3>3 DEF HeapAllocs
      <4> QED BY <1>1, <2>1, <3>3, <4>1, SpillLedger, SpillAllocating
    <3>4. CASE Spills /\ ~Fits(heap.top, SpillOverhead + size, setup.limit)
      <4>1. r = Outcome(heap, NoHandle, "ok")
        BY <1>3, <3>4 DEF HeapAllocs
      <4>2. r.heap = heap /\ r.handle = NoHandle /\ Ok(r)
        BY <4>1 DEF Outcome, Ok
      <4>3. Ledger(heap, r, size)
        BY <2>1, <3>1, <4>2 DEF Ledger, SysKept, StoreKept
      <4>4. Allocates(heap, r, size, MemLimit)
        BY <1>1, <4>2, KeepsItself DEF Allocates
      <4> QED BY <4>3, <4>4
    <3> QED BY <3>2, <3>3, <3>4
  <2>3. HeapOK(r.heap, MemLimit) /\ (r.handle # NoHandle => r.handle \in Handles) /\ Keeps(heap, r.heap, NoHandle)
    BY <2>2 DEF Allocates
  <2>4. Owns(heap, owned)
    BY <1>1, OwnedServed
  <2>5. Owns(r.heap, owned)
    <3>1. \A h \in Handles : h # NoHandle
      BY DEF Handles, NoHandle
    <3> QED BY <2>3, <2>4, <3>1 DEF Owns, Keeps
  <2>6. new = IF r.handle = NoHandle THEN owned ELSE Put(owned, r.handle, size)
    BY <1>3
  <2> HIDE DEF new
  <2>7. Balanced(r.heap, new) /\ (Ok(r) /\ Exact(heap, owned) => Exact(r.heap, new))
    BY <1>1, <2>1, <2>2, <2>3, <2>4, <2>5, <2>6, LedgerBalances
  <2>8. faults' = 0 => faults = 0 /\ Ok(r)
    BY <1>1, <1>3 DEF Counted
  <2> QED BY <1>3, <2>1, <2>7, <2>8 DEF new
<1> QED BY <1>2, <1>4, AccountKept DEF AccountInv

LEMMA FreeAccounts ==
    ASSUME AccountInv, NEW h \in DOMAIN owned, Free(h), released' = released, ~released
    PROVE  AccountInv'
<1> DEFINE new == owned'
<1>1. /\ HeapInv /\ MemLimit \in Nat /\ HeapOK(heap, MemLimit) /\ faults \in Nat
  BY Served DEF AccountInv
<1>2. HeapInv' /\ setup' = setup /\ resizes' = resizes /\ owned' = Drop(owned, h)
  BY <1>1, FreeKeeps DEF Free
<1>3. PICK r \in IF Spills THEN SpillFrees(heap, h) ELSE {MemFree(heap, h)} :
          heap' = r.heap /\ Counted(r)
  BY DEF Free
<1>4. ASSUME resizes = 0
      PROVE  Balanced(heap', owned') /\ (faults' = 0 => Exact(heap', owned'))
  <2>1. Balanced(heap, owned) /\ (faults = 0 => Exact(heap, owned)) /\ Books(heap)
    BY <1>4 DEF AccountInv, Balanced
  <2>2. Owns(heap, owned)
    BY <1>1, OwnedServed
  <2>3. h \in Handles /\ Live(heap, h)
    BY <2>2 DEF Owns
  <2>4. Repaid(heap, r, h)
    <3>1. CASE Spills
      <4>1. r \in SpillFrees(heap, h)
        BY <1>3, <3>1
      <4> QED BY <1>1, <2>1, <2>3, <4>1, SpillRepaid
    <3>2. CASE ~Spills
      <4>1. r = MemFree(heap, h)
        BY <1>3, <3>2
      <4> QED BY <1>1, <2>1, <2>3, <3>2, <4>1, MemRepaid
    <3> QED BY <3>1, <3>2
  <2>5. Owns(r.heap, new) /\ HeapOK(r.heap, MemLimit)
    BY <1>2, <1>3, OwnedServedNext
  <2>6. new = Drop(owned, h)
    BY <1>2
  <2> HIDE DEF new
  <2>7. Balanced(r.heap, new) /\ (Ok(r) /\ Exact(heap, owned) => Exact(r.heap, new))
    BY <1>1, <2>1, <2>2, <2>4, <2>5, <2>6, RepaidBalances
  <2>8. faults' = 0 => faults = 0 /\ Ok(r)
    BY <1>1, <1>3 DEF Counted
  <2> QED BY <1>3, <2>1, <2>7, <2>8 DEF new
<1> QED BY <1>2, <1>4, AccountKept DEF AccountInv

LEMMA WriteContentAccounts ==
    ASSUME AccountInv, NEW h \in DOMAIN owned, WriteContent(h), released' = released, ~released
    PROVE  AccountInv'
<1>1. HeapInv /\ MemLimit \in Nat /\ HeapOK(heap, MemLimit) /\ Owns(heap, owned)
  BY Served, OwnedServed DEF AccountInv
<1>2. HeapInv'
  BY <1>1, WriteContentKeeps
<1>3. UNCHANGED <<setup, owned, resizes, faults>> /\ setup.spill = "file" /\ ~IsDirect(h)
  BY DEF WriteContent
<1>4. ASSUME resizes = 0
      PROVE  Balanced(heap', owned') /\ (faults' = 0 => Exact(heap', owned'))
  <2>1. Balanced(heap, owned) /\ (faults = 0 => Exact(heap, owned))
    BY <1>4 DEF AccountInv
  <2> DEFINE hq == heap'
  <2>2. hq = [heap EXCEPT !.store = Put(@, @[h[2]].file, @[h[2]])]
    BY DEF WriteContent
  <2> HIDE DEF hq
  <2>3. Balanced(hq, owned) /\ (Exact(heap, owned) => Exact(hq, owned))
    BY <1>1, <1>3, <2>1, <2>2, WrittenBalances
  <2> QED BY <1>3, <2>1, <2>3 DEF hq
<1> QED BY <1>2, <1>3, <1>4, AccountKept DEF AccountInv

LEMMA AccountStarts == Init => AccountInv
<1> SUFFICES ASSUME Init PROVE AccountInv
  OBVIOUS
<1>1. HeapInv
  BY HeapStarts
<1>2. MemLimit \in Nat /\ HeapOK(heap, MemLimit)
  BY <1>1, Served
<1>3. /\ heap = [top |-> NewAccount, mem |-> NewAccount, arena |-> NewArena(MemLimit),
                 sys |-> <<>>, store |-> <<>>, files |-> 0]
      /\ owned = <<>> /\ released = FALSE /\ setup \in Setups
  BY DEF Init
<1>4. /\ heap.top.size = 0 /\ heap.mem.size = 0 /\ heap.mem.count = 0
      /\ heap.sys = <<>> /\ heap.store = <<>> /\ heap.arena = NewArena(MemLimit)
  BY <1>3 DEF NewAccount
<1>5. DOMAIN heap.sys = {} /\ DOMAIN heap.store = {} /\ DOMAIN owned = {}
  <2>1. DOMAIN << >> = {}
    OBVIOUS
  <2> QED BY <1>3, <1>4, <2>1
<1>6. TakenOf(heap.arena.blocks) = {}
  <2> DEFINE b == Block(MemLimit - Header - Footer, 0, TRUE)
  <2>1. heap.arena.blocks = [o \in {0} |-> b]
    BY <1>4 DEF NewArena
  <2>2. b.free
    BY DEF Block
  <2> HIDE DEF b
  <2>3. FreeOf(heap.arena.blocks) = {0} /\ DOMAIN heap.arena.blocks = {0}
    BY <2>1, <2>2 DEF FreeOf
  <2> QED BY <2>3 DEF TakenOf
<1>7. AivWeight(heap) = 0 /\ SysWeight(heap) = 0
  BY <1>5, <1>6, WeightsEmpty DEF AivWeight, SysWeight
<1>8. Cardinality({}) = 0 /\ IsFiniteSet({})
  BY FS_EmptySet
<1>9. Books(heap)
  BY <1>2, <1>4, <1>5, <1>6, <1>7, <1>8 DEF Books
<1>10. Claims(owned) = 0
  BY <1>5, SumEmpty DEF Claims
<1>11. Balanced(heap, owned)
  BY <1>4, <1>5, <1>8, <1>9, <1>10 DEF Balanced, Agrees
<1>12. Exact(heap, owned)
  BY <1>5, <1>6 DEF Exact, AllHandles, StoreHandles, MemHandles
<1> QED BY <1>1, <1>3, <1>11, <1>12 DEF AccountInv

LEMMA AccountNext == AccountInv /\ [Next]_vars => AccountInv'
<1> SUFFICES ASSUME AccountInv, [Next]_vars PROVE AccountInv'
  OBVIOUS
<1>1. HeapInv' /\ HeapInv
  BY HeapStep DEF AccountInv
<1>2. CASE UNCHANGED vars
  <2>1. UNCHANGED <<setup, released, heap, owned, resizes, faults>>
    BY <1>2 DEF vars
  <2> QED BY <1>1, <2>1, AccountKept DEF AccountInv
<1>3. CASE Release
  <2>1. setup' = setup /\ released' = TRUE /\ owned' = <<>>
    BY <1>3 DEF Release
  <2>2. DOMAIN owned' = {}
    <3>1. DOMAIN << >> = {}
      OBVIOUS
    <3> QED BY <2>1, <3>1
  <2> QED BY <1>1, <2>1, <2>2, AccountKept
<1>4. ASSUME Use, ~released, released' = released PROVE AccountInv'
  <2>1. ASSUME NEW size \in Sizes, Alloc(size) PROVE AccountInv'
    BY <1>4, <2>1, AllocAccounts
  <2>2. ASSUME NEW h \in DOMAIN owned, Free(h) PROVE AccountInv'
    BY <1>4, <2>2, FreeAccounts
  <2>3. ASSUME NEW h \in DOMAIN owned, NEW new \in Sizes, SetAllocSize(h, new) PROVE AccountInv'
    <3>1. setup' = setup /\ resizes' = resizes + 1 /\ resizes \in Nat
      BY <1>1, <2>3, Served DEF SetAllocSize
    <3>2. resizes' # 0
      BY <3>1
    <3> QED BY <1>1, <1>4, <3>1, <3>2, AccountKept
  <2>4. ASSUME NEW h \in DOMAIN owned, WriteContent(h) PROVE AccountInv'
    BY <1>4, <2>4, WriteContentAccounts
  <2> QED BY <1>4, <2>1, <2>2, <2>3, <2>4 DEF Use
<1> QED BY <1>2, <1>3, <1>4 DEF Next

\* the account covers what a free takes off it
LEMMA Covered ==
    ASSUME AccountInv, resizes = 0
    PROVE  FreesCovered
<1> SUFFICES ASSUME ~(Spills /\ setup.mem = "aiv"), NEW h \in DOMAIN owned
             PROVE  IF Spills THEN CommonFreeAllows(heap.top, SpillAllocationSize(heap, h))
                    ELSE CommonFreeAllows(heap.mem, MemAllocationSize(heap, h))
  BY DEF FreesCovered
<1>1. HeapInv /\ MemLimit \in Nat /\ HeapOK(heap, MemLimit) /\ Owns(heap, owned)
  BY Served, OwnedServed DEF AccountInv
<1>2. ~released
  BY DEF AccountInv
<1>3. Balanced(heap, owned) /\ Books(heap) /\ IsFiniteSet(DOMAIN owned)
  BY <1>2 DEF AccountInv, Balanced
<1>4. h \in Handles /\ Live(heap, h)
  BY <1>1 DEF Owns
<1>5. CASE Spills
  <2>1. SpillAllocationSize(heap, h) = SpillOverhead + owned[h] /\ owned[h] \in Nat
    BY <1>1, <1>3, <1>5, SpillSizeIs
  <2> DEFINE new == Drop(owned, h)
  <2>2. DOMAIN new = DOMAIN owned \ {h} /\ \A g \in DOMAIN new : new[g] = owned[g]
    BY DEF Drop
  <2> HIDE DEF new
  <2>3. \A g \in DOMAIN owned : owned[g] \in Nat
    BY <1>1 DEF Owns
  <2>4. Claims(owned) = Claims(new) + (SpillOverhead + owned[h]) /\ Claims(owned) \in Nat /\ Claims(new) \in Nat
    BY <1>3, <2>2, <2>3, ClaimsWithout
  <2>5. Claims(owned) <= heap.top.size /\ heap.top.size \in Nat
    BY <1>1, <1>3, <1>5 DEF Balanced, HeapOK, Account
  <2>6. SpillAllocationSize(heap, h) <= heap.top.size
    BY <2>1, <2>4, <2>5, SizeAssumption
  <2> QED BY <1>5, <2>6 DEF CommonFreeAllows
<1>6. CASE ~Spills
  <2>1. IsDirect(h)
    BY <1>4, <1>6 DEF Handles
  <2>2. h \in MemHandles(heap)
    BY <1>1, <1>4, <2>1, LiveDirect
  <2>3. CommonFreeAllows(heap.mem, MemAllocationSize(heap, h))
    BY <1>1, <1>3, <2>2, MemUnbooking
  <2> QED BY <1>6, <2>3
<1> QED BY <1>5, <1>6

LEMMA AccountImplies == AccountInv => AccountMatchesBlocks
<1> SUFFICES ASSUME AccountInv PROVE AccountMatchesBlocks
  OBVIOUS
<1>1. resizes = 0 => FreesCovered
  BY Covered
<1>2. ASSUME resizes = 0, ~released
      PROVE  /\ faults = 0 => {SpillHandle(n) : n \in DOMAIN heap.store} \cup {SysHandle(n) : n \in DOMAIN heap.sys}
                                \cup {AivHandle(o) : o \in AivBlocks} = DOMAIN owned
             /\ heap.mem.size =
                  SumOver(AivBlocks, LAMBDA o : Overhead + heap.arena.blocks[o].size)
                    + SumOver(DOMAIN heap.sys, LAMBDA n : Overhead + heap.sys[n].size)
             /\ heap.mem.count = Cardinality(AivBlocks) + Cardinality(DOMAIN heap.sys)
             /\ heap.mem.size <= MemLimit
  <2>1. Books(heap) /\ (faults = 0 => Exact(heap, owned))
    BY <1>2 DEF AccountInv, Balanced
  <2>2. MemLimit \in Nat /\ Arena(heap.arena, MemLimit) /\ IsFiniteSet(DOMAIN heap.sys)
    BY Served DEF AccountInv, HeapOK
  <2>3. AivBlocks = TakenOf(heap.arena.blocks)
    BY DEF AivBlocks, Offsets, TakenOf, FreeOf
  <2>4. SumOver(AivBlocks, LAMBDA o : Overhead + heap.arena.blocks[o].size) = AivWeight(heap)
    <3>1. IsFiniteSet(AivBlocks) /\ AivBlocks \in SUBSET DOMAIN heap.arena.blocks
      BY <2>2, <2>3, BlocksFinite
    <3>2. SumOver(AivBlocks, LAMBDA o : Overhead + heap.arena.blocks[o].size) = Weights(heap.arena.blocks, AivBlocks)
      BY <3>1, SumOverIs
    <3> QED BY <2>3, <3>2 DEF AivWeight
  <2>5. SumOver(DOMAIN heap.sys, LAMBDA n : Overhead + heap.sys[n].size) = SysWeight(heap)
    BY <2>2, SumOverIs DEF SysWeight
  <2>6. faults = 0 => {SpillHandle(n) : n \in DOMAIN heap.store} \cup {SysHandle(n) : n \in DOMAIN heap.sys}
                        \cup {AivHandle(o) : o \in AivBlocks} = DOMAIN owned
    BY <2>1, <2>3 DEF Exact, AllHandles, StoreHandles, MemHandles
  <2> QED BY <2>1, <2>3, <2>4, <2>5, <2>6 DEF Books
<1> QED BY <1>1, <1>2 DEF AccountMatchesBlocks

\* The account of a heap is what its blocks take, and what is allocated is what the client
\* holds, while no call fails and nothing is resized; and a free never finds less in the
\* account than it takes off: for every arena, limit and sequence of allocations and frees
\* (commonHeapAlloc, commonHeapFree, splitFreeBlock, hybridHeapFree).
THEOREM HeapAccounts == Spec => []AccountMatchesBlocks
<1>1. Init => AccountInv
  BY AccountStarts
<1>2. AccountInv /\ [Next]_vars => AccountInv'
  BY AccountNext
<1>3. AccountInv => AccountMatchesBlocks
  BY AccountImplies
<1> QED BY <1>1, <1>2, <1>3, PTL DEF Spec
=============================================================================
