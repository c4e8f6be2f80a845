---------------------- MODULE AttachmentPipelineProofs ----------------------
(***************************************************************************)
(* Proofs about AttachmentPipeline for any entries, documents of any size, *)
(* any budget and channels of any capacity.                                *)
(***************************************************************************)
EXTENDS AttachmentPipeline, FiniteSetTheorems, TLAPS

(* What sizes add up to *)

Pairs(f) == UNION {{i} \X (1 .. f[i]) : i \in DOMAIN f}

LEMMA PairsOf ==
  ASSUME NEW D, IsFiniteSet(D), NEW f \in [D -> Nat]
  PROVE  /\ IsFiniteSet(Pairs(f)) /\ Bytes(f) = Cardinality(Pairs(f)) /\ Bytes(f) \in Nat
         /\ \A p : p \in Pairs(f) <=> \E i \in D : \E b \in 1 .. f[i] : p = <<i, b>>
<1> DEFINE g == [i \in D |-> {i} \X (1 .. f[i])]
           R == {g[i] : i \in D}
<1>1. g \in Surjection(D, R)
  BY DEF Surjection
<1>2. IsFiniteSet(R)
  BY <1>1, FS_Surjection
<1>3. ASSUME NEW T \in R PROVE IsFiniteSet(T)
  <2>1. PICK i \in D : T = {i} \X (1 .. f[i])
    OBVIOUS
  <2>2. IsFiniteSet({i})
    BY FS_Singleton
  <2>3. f[i] \in Nat
    OBVIOUS
  <2>4. IsFiniteSet(1 .. f[i])
    BY <2>3, FS_Interval
  <2> QED
    BY <2>1, <2>2, <2>4, FS_Product
<1>4. Pairs(f) = UNION R
  BY DEF Pairs
<1> HIDE DEF R
<1>5. IsFiniteSet(Pairs(f))
  BY <1>2, <1>3, <1>4, FS_UNION
<1>6. Bytes(f) = Cardinality(Pairs(f))
  BY DEF Bytes, Pairs
<1>7. \A p : p \in Pairs(f) <=> \E i \in D : \E b \in 1 .. f[i] : p = <<i, b>>
  BY DEF Pairs
<1> QED
  BY <1>5, <1>6, <1>7, FS_CardinalityType

\* Nothing adds up to nothing.
LEMMA BytesNone ==
  ASSUME NEW f \in [{} -> Nat]
  PROVE  Bytes(f) = 0
<1>1. IsFiniteSet({}) /\ Cardinality({}) = 0
  BY FS_EmptySet
<1>2. Pairs(f) = {}
  BY <1>1, PairsOf
<1> QED
  BY <1>1, <1>2, PairsOf

\* One more.
LEMMA BytesMore ==
  ASSUME NEW D, IsFiniteSet(D), NEW x, x \notin D, NEW f \in [D \cup {x} -> Nat],
         NEW g \in [D -> Nat], \A i \in D : g[i] = f[i]
  PROVE  /\ IsFiniteSet(D \cup {x})
         /\ Bytes(f) = Bytes(g) + f[x] /\ Bytes(g) \in Nat /\ f[x] \in Nat
<1> DEFINE own == {x} \X (1 .. f[x])
<1>1. IsFiniteSet(D \cup {x})
  BY FS_AddElement
<1>2. f[x] \in Nat
  OBVIOUS
<1>3. IsFiniteSet(own) /\ Cardinality(own) = f[x]
  <2>1. IsFiniteSet({x}) /\ Cardinality({x}) = 1
    BY FS_Singleton
  <2>2. IsFiniteSet(1 .. f[x]) /\ Cardinality(1 .. f[x]) = f[x]
    BY <1>2, FS_Interval
  <2>3. PICK one : one = {x}
    OBVIOUS
  <2>4. PICK some : some = 1 .. f[x]
    OBVIOUS
  <2>5. /\ IsFiniteSet(one \X some)
        /\ Cardinality(one \X some) = Cardinality(one) * Cardinality(some)
    BY <2>1, <2>2, <2>3, <2>4, FS_Product
  <2>6. Cardinality(one) * Cardinality(some) = f[x]
    BY <1>2, <2>1, <2>2, <2>3, <2>4
  <2> QED
    BY <2>3, <2>4, <2>5, <2>6
<1>4. /\ IsFiniteSet(Pairs(g)) /\ Bytes(g) = Cardinality(Pairs(g)) /\ Bytes(g) \in Nat
      /\ \A p : p \in Pairs(g) <=> \E i \in D : \E b \in 1 .. g[i] : p = <<i, b>>
  BY PairsOf
<1>5. /\ Bytes(f) = Cardinality(Pairs(f))
      /\ \A p : p \in Pairs(f) <=> \E i \in D \cup {x} : \E b \in 1 .. f[i] : p = <<i, b>>
  BY <1>1, PairsOf
<1>6. Pairs(f) = Pairs(g) \cup own
  <2>1. \A p : p \in own <=> \E b \in 1 .. f[x] : p = <<x, b>>
    OBVIOUS
  <2> HIDE DEF own
  <2>2. \A p : p \in Pairs(f) <=> p \in Pairs(g) \/ p \in own
    BY <1>4, <1>5, <2>1
  <2> QED
    BY <2>2
<1>7. Pairs(g) \cap own = {}
  <2>1. \A p \in own : p[1] = x
    OBVIOUS
  <2>2. \A p \in Pairs(g) : p[1] \in D
    BY <1>4
  <2> QED
    BY <2>1, <2>2
<1> HIDE DEF own
<1>8. Cardinality(Pairs(g) \cup own) = Cardinality(Pairs(g)) + Cardinality(own) - 0
  BY <1>3, <1>4, <1>7, FS_Union, FS_EmptySet
<1> QED
  BY <1>1, <1>2, <1>3, <1>4, <1>5, <1>6, <1>8

\* Sizes that can be told apart among others, none of them greater.
LEMMA BytesWithin ==
  ASSUME NEW D, IsFiniteSet(D), NEW E, IsFiniteSet(E), NEW f \in [D -> Nat],
         NEW g \in [E -> Nat], NEW h \in [D -> E],
         \A i, j \in D : h[i] = h[j] => i = j, \A i \in D : f[i] <= g[h[i]]
  PROVE  Bytes(f) <= Bytes(g)
<1>1. /\ IsFiniteSet(Pairs(f)) /\ Bytes(f) = Cardinality(Pairs(f))
      /\ \A p : p \in Pairs(f) <=> \E i \in D : \E b \in 1 .. f[i] : p = <<i, b>>
  BY PairsOf
<1>2. /\ IsFiniteSet(Pairs(g)) /\ Bytes(g) = Cardinality(Pairs(g))
      /\ \A p : p \in Pairs(g) <=> \E i \in E : \E b \in 1 .. g[i] : p = <<i, b>>
  BY PairsOf
<1> DEFINE m == [p \in Pairs(f) |-> <<h[p[1]], p[2]>>]
<1>3. \A p \in Pairs(f) : /\ p = <<p[1], p[2]>> /\ p[1] \in D /\ p[2] \in 1 .. f[p[1]]
                          /\ m[p] = <<h[p[1]], p[2]>>
  BY <1>1
<1>4. ASSUME NEW p \in Pairs(f) PROVE m[p] \in Pairs(g)
  <2>1. p[1] \in D /\ p[2] \in 1 .. f[p[1]] /\ m[p] = <<h[p[1]], p[2]>>
    BY <1>3
  <2>2. h[p[1]] \in E /\ f[p[1]] <= g[h[p[1]]] /\ f[p[1]] \in Nat /\ g[h[p[1]]] \in Nat
    BY <2>1
  <2>3. p[2] \in 1 .. g[h[p[1]]]
    BY <2>1, <2>2
  <2> QED
    BY <1>2, <2>1, <2>2, <2>3
<1>5. ASSUME NEW p \in Pairs(f), NEW q \in Pairs(f), m[p] = m[q] PROVE p = q
  <2>1. h[p[1]] = h[q[1]] /\ p[2] = q[2]
    BY <1>3, <1>5
  <2>2. p[1] = q[1]
    BY <1>3, <2>1
  <2>3. p = <<p[1], p[2]>>
    BY <1>3
  <2>4. q = <<q[1], q[2]>>
    BY <1>3
  <2> QED
    BY <2>1, <2>2, <2>3, <2>4
<1>6. m \in Injection(Pairs(f), Pairs(g))
  <2>1. m \in [Pairs(f) -> Pairs(g)]
    BY <1>4
  <2> HIDE DEF m
  <2> QED
    BY <1>5, <2>1 DEF Injection, IsInjective
<1>7. Cardinality(Pairs(f)) <= Cardinality(Pairs(g))
  BY <1>2, <1>6, FS_Injection
<1> QED
  BY <1>1, <1>2, <1>7

-----------------------------------------------------------------------------
(* The inductive invariant *)

Load(items) == Bytes([i \in DOMAIN items |-> items[i].bytes])

\* Has the consumer taken an item, has the producer one in hand?
Holding == consumer \in {"deciding", "inline", "sending"}
Making == producer \in {"inspecting", "preparing", "handing"}

\* Where the two threads can be together, and what is reserved for good there.
Places ==
  /\ closed <=> producer = "finished"
  /\ consumer \in {"static", "converted"} => producer = "idle"
  /\ producer = "idle" => making.index = 0 /\ consumer \in {"static", "converted", "done"}
  /\ consumer = "done" => producer \in {"idle", "finished"} /\ ready = <<>>
  /\ consumer = "static" => shared = 0
  /\ consumer = "converted" => shared = Static
  /\ consumer \in {"receiving", "deciding", "inline", "sending", "draining"} =>
       shared = Static + converted
  /\ consumer = "done" => shared = 0
  /\ waits["producer"] => producer = "preparing"
  /\ waits["consumer"] => consumer \in {"converted", "inline"}

\* An item holds the bytes of its documents, or none; one that was suppressed
\* when it was prepared holds none.
Sized(item) == (item.bytes = 0 \/ item.bytes = docs[item.index]) /\ (item.early => item.bytes = 0)

Sizing ==
  /\ \A i \in 1 .. Len(ready) : Sized(ready[i])
  /\ Sized(making) /\ (taken.bytes = 0 \/ taken.bytes = docs[taken.index])
  /\ producer # "handing" => making.bytes = 0
  /\ producer \in {"inspecting", "preparing"} => ~making.early
  /\ ~Holding => taken.bytes = 0
  /\ consumer = "deciding" /\ taken.early => taken.bytes = 0
  /\ consumer = "inline" => taken.bytes = 0

\* What Balanced says, item by item.
Account ==
  /\ used = shared + taken.bytes + Load(ready) + making.bytes
  /\ tokens = (IF Holding THEN 1 ELSE 0) + Len(ready) + (IF Making THEN 1 ELSE 0)

\* The last item that was handed over had the index "handed".
Sequenced(handed) ==
  /\ producer \in {"idle", "waiting"} => making.index = handed
  /\ Making => making.index = handed + 1
  /\ producer = "finished" => making.index \in {handed, handed + 1}
  /\ Len(ready) <= handed
  /\ \A i \in 1 .. Len(ready) : ready[i].index = handed - Len(ready) + i
  /\ consumer \notin {"draining", "done"} => taken.index = handed - Len(ready)
  /\ Holding => taken.index > 0

InSequence == \E handed \in 0 .. Total : Sequenced(handed)

IInv == TypeOK /\ Places /\ Sizing /\ Account /\ InSequence /\ WaitsForBytes

-----------------------------------------------------------------------------
(* What a queue of items holds *)

LEMMA LoadTyped ==
  ASSUME NEW q \in Seq(Item)
  PROVE  /\ Load(q) \in Nat /\ IsFiniteSet(1 .. Len(q)) /\ Len(q) \in Nat
         /\ [i \in DOMAIN q |-> q[i].bytes] \in [1 .. Len(q) -> Nat]
<1>1. /\ DOMAIN q = 1 .. Len(q) /\ Len(q) \in Nat
      /\ \A i \in 1 .. Len(q) : q[i] \in Item
  OBVIOUS
<1>2. \A i \in 1 .. Len(q) : q[i].bytes \in Nat
  BY <1>1 DEF Item
<1>3. IsFiniteSet(1 .. Len(q))
  BY <1>1, FS_Interval
<1>4. PICK f : f = [i \in DOMAIN q |-> q[i].bytes]
  OBVIOUS
<1>5. f \in [1 .. Len(q) -> Nat]
  BY <1>1, <1>2, <1>4
<1>6. Bytes(f) \in Nat
  BY <1>3, <1>5, PairsOf
<1> QED
  BY <1>1, <1>3, <1>4, <1>5, <1>6 DEF Load

LEMMA LoadEmpty == Load(<<>>) = 0
<1>1. PICK f : f = [i \in DOMAIN <<>> |-> <<>>[i].bytes]
  OBVIOUS
<1>2. f \in [{} -> Nat]
  BY <1>1
<1> QED
  BY <1>1, <1>2, BytesNone DEF Load

LEMMA LoadAppend ==
  ASSUME NEW q \in Seq(Item), NEW x \in Item
  PROVE  Load(Append(q, x)) = Load(q) + x.bytes
<1> DEFINE n == Len(q)
           after == Append(q, x)
<1>1. /\ n \in Nat /\ DOMAIN q = 1 .. n /\ after \in Seq(Item) /\ Len(after) = n + 1
      /\ DOMAIN after = 1 .. n + 1 /\ after[n + 1] = x
      /\ \A i \in 1 .. n : after[i] = q[i]
  OBVIOUS
<1>2. PICK f : f = [i \in DOMAIN after |-> after[i].bytes]
  OBVIOUS
<1>3. PICK g : g = [i \in DOMAIN q |-> q[i].bytes]
  OBVIOUS
<1>4. 1 .. n + 1 = (1 .. n) \cup {n + 1} /\ n + 1 \notin 1 .. n
  BY <1>1
<1>5. f \in [(1 .. n) \cup {n + 1} -> Nat]
  BY <1>1, <1>2, <1>4, LoadTyped
<1>6. g \in [1 .. n -> Nat] /\ IsFiniteSet(1 .. n)
  BY <1>3, LoadTyped
<1>7. f[n + 1] = x.bytes /\ \A i \in 1 .. n : g[i] = f[i]
  BY <1>1, <1>2, <1>3, <1>4
<1> HIDE DEF n, after
<1>8. Bytes(f) = Bytes(g) + f[n + 1]
  <2>1. PICK D, k : D = 1 .. n /\ k = n + 1
    OBVIOUS
  <2>2. /\ IsFiniteSet(D) /\ k \notin D /\ f \in [D \cup {k} -> Nat] /\ g \in [D -> Nat]
        /\ \A i \in D : g[i] = f[i]
    BY <1>4, <1>5, <1>6, <1>7, <2>1
  <2>3. Bytes(f) = Bytes(g) + f[k]
    BY <2>2, BytesMore
  <2> QED
    BY <2>1, <2>3
<1> QED
  BY <1>2, <1>3, <1>7, <1>8 DEF Load, after

LEMMA LoadTail ==
  ASSUME NEW q \in Seq(Item), q # <<>>
  PROVE  /\ Load(q) = Head(q).bytes + Load(Tail(q))
         /\ Head(q) \in Item /\ Tail(q) \in Seq(Item) /\ Len(Tail(q)) = Len(q) - 1
<1> DEFINE n == Len(q)
           rest == Tail(q)
<1>1. /\ n \in Nat /\ n > 0 /\ DOMAIN q = 1 .. n /\ rest \in Seq(Item) /\ Len(rest) = n - 1
      /\ DOMAIN rest = 1 .. n - 1 /\ q[1] = Head(q) /\ Head(q) \in Item
      /\ \A i \in 1 .. n - 1 : rest[i] = q[i + 1]
  OBVIOUS
<1>2. PICK f : f = [i \in DOMAIN q |-> q[i].bytes]
  OBVIOUS
<1>3. PICK g : g = [i \in DOMAIN rest |-> rest[i].bytes]
  OBVIOUS
<1>4. PICK h : h = [i \in 2 .. n |-> f[i]]
  OBVIOUS
<1>5. f \in [1 .. n -> Nat] /\ IsFiniteSet(1 .. n)
  BY <1>2, LoadTyped
<1>6. g \in [1 .. n - 1 -> Nat] /\ IsFiniteSet(1 .. n - 1)
  BY <1>1, <1>3, LoadTyped
<1>7. 1 .. n = (2 .. n) \cup {1} /\ 1 \notin 2 .. n
  BY <1>1
<1>8. IsFiniteSet(2 .. n) /\ h \in [2 .. n -> Nat]
  <2>1. IsFiniteSet(2 .. n)
    BY <1>5, <1>7, FS_Subset
  <2> QED
    BY <1>4, <1>5, <1>7, <2>1
<1>9. \A i \in 2 .. n : h[i] = f[i]
  BY <1>4
<1>10. \A i \in 1 .. n - 1 : i + 1 \in 2 .. n /\ g[i] = h[i + 1]
  BY <1>1, <1>2, <1>3, <1>4
<1>11. f[1] = Head(q).bytes
  BY <1>1, <1>2
<1> HIDE DEF n, rest
<1>12. Bytes(f) = Bytes(h) + f[1] /\ Bytes(h) \in Nat /\ f[1] \in Nat
  <2>1. PICK D, k : D = 2 .. n /\ k = 1
    OBVIOUS
  <2>2. /\ IsFiniteSet(D) /\ k \notin D /\ f \in [D \cup {k} -> Nat] /\ h \in [D -> Nat]
        /\ \A i \in D : h[i] = f[i]
    BY <1>5, <1>7, <1>8, <1>9, <2>1
  <2>3. Bytes(f) = Bytes(h) + f[k]
    BY <2>2, BytesMore
  <2>4. Bytes(h) \in Nat
    BY <1>8, PairsOf
  <2> QED
    BY <1>5, <1>7, <2>1, <2>3, <2>4
<1>13. Bytes(g) <= Bytes(h)
  <2>1. PICK up : up = [i \in 1 .. n - 1 |-> i + 1]
    OBVIOUS
  <2>2. /\ up \in [1 .. n - 1 -> 2 .. n]
        /\ \A i, j \in 1 .. n - 1 : up[i] = up[j] => i = j
        /\ \A i \in 1 .. n - 1 : g[i] <= h[up[i]]
    BY <1>6, <1>10, <2>1
  <2> QED
    BY <1>6, <1>8, <2>2, BytesWithin
<1>14. Bytes(h) <= Bytes(g)
  <2>1. PICK down : down = [i \in 2 .. n |-> i - 1]
    OBVIOUS
  <2>2. \A i \in 2 .. n : i - 1 \in 1 .. n - 1 /\ h[i] = g[i - 1]
    <3> TAKE i \in 2 .. n
    <3>1. i - 1 \in 1 .. n - 1 /\ (i - 1) + 1 = i
      BY <1>1
    <3> QED
      BY <1>10, <3>1
  <2>3. /\ down \in [2 .. n -> 1 .. n - 1]
        /\ \A i, j \in 2 .. n : down[i] = down[j] => i = j
        /\ \A i \in 2 .. n : h[i] <= g[down[i]]
    BY <1>6, <1>8, <2>1, <2>2
  <2> QED
    <3>1. PICK D, E : D = 2 .. n /\ E = 1 .. n - 1
      OBVIOUS
    <3>2. /\ IsFiniteSet(D) /\ IsFiniteSet(E) /\ h \in [D -> Nat] /\ g \in [E -> Nat]
          /\ down \in [D -> E] /\ \A i, j \in D : down[i] = down[j] => i = j
          /\ \A i \in D : h[i] <= g[down[i]]
      BY <1>6, <1>8, <2>3, <3>1
    <3> QED
      BY <3>2, BytesWithin
<1>15. Bytes(g) = Bytes(h)
  <2>1. Bytes(g) \in Nat
    BY <1>6, PairsOf
  <2> QED
    BY <1>12, <1>13, <1>14, <2>1
<1> QED
  <2>1. Load(q) = Bytes(f) /\ Load(Tail(q)) = Bytes(g)
    BY <1>2, <1>3 DEF Load, rest
  <2>2. Load(q) = Head(q).bytes + Load(Tail(q))
    BY <1>11, <1>12, <1>15, <2>1
  <2> QED
    BY <1>1, <2>2 DEF n, rest

-----------------------------------------------------------------------------
(* One lemma for each action *)

\* An item in hand, changed but not replaced.
LEMMA Changed ==
  ASSUME NEW x \in Item, NEW y
  PROVE  /\ y = [x EXCEPT !.bytes = 0] =>
              y \in Item /\ y.index = x.index /\ y.bytes = 0 /\ (y.early <=> x.early)
         /\ y = [x EXCEPT !.early = TRUE] =>
              y \in Item /\ y.index = x.index /\ y.bytes = x.bytes /\ y.early
         /\ y = [x EXCEPT !.bad = TRUE] =>
              y \in Item /\ y.index = x.index /\ y.bytes = x.bytes /\ (y.early <=> x.early)
         /\ y = [x EXCEPT !.bytes = 0, !.bad = TRUE] =>
              y \in Item /\ y.index = x.index /\ y.bytes = 0 /\ (y.early <=> x.early)
         /\ \A n \in Nat : y = [x EXCEPT !.bytes = n] =>
              y \in Item /\ y.index = x.index /\ y.bytes = n /\ (y.early <=> x.early)
<1>1. ASSUME y = [x EXCEPT !.bytes = 0]
      PROVE  y \in Item /\ y.index = x.index /\ y.bytes = 0 /\ (y.early <=> x.early)
  BY <1>1 DEF Item
<1>2. ASSUME y = [x EXCEPT !.early = TRUE]
      PROVE  y \in Item /\ y.index = x.index /\ y.bytes = x.bytes /\ y.early
  BY <1>2 DEF Item
<1>3. ASSUME y = [x EXCEPT !.bad = TRUE]
      PROVE  y \in Item /\ y.index = x.index /\ y.bytes = x.bytes /\ (y.early <=> x.early)
  BY <1>3 DEF Item
<1>4. ASSUME y = [x EXCEPT !.bytes = 0, !.bad = TRUE]
      PROVE  y \in Item /\ y.index = x.index /\ y.bytes = 0 /\ (y.early <=> x.early)
  BY <1>4 DEF Item
<1>5. ASSUME NEW n \in Nat, y = [x EXCEPT !.bytes = n]
      PROVE  y \in Item /\ y.index = x.index /\ y.bytes = n /\ (y.early <=> x.early)
  BY <1>5 DEF Item
<1> QED
  BY <1>1, <1>2, <1>3, <1>4, <1>5

\* Every size is a number, and an item in hand is that of an entry.
LEMMA Numbers ==
  ASSUME IInv
  PROVE  /\ used \in Nat /\ tokens \in Nat /\ shared \in Nat
         /\ Load(ready) \in Nat /\ Len(ready) \in Nat
         /\ taken.bytes \in Nat /\ making.bytes \in Nat
         /\ taken.index \in Nat /\ making.index \in Nat
         /\ Static \in Nat /\ converted \in Nat /\ Limit \in Nat /\ docs \in [Entries -> Nat]
         /\ Making => making.index \in Entries /\ docs[making.index] \in Nat
         /\ Holding => taken.index \in Entries /\ docs[taken.index] \in Nat
<1>1. Static \in Nat /\ converted \in Nat /\ Limit \in Nat /\ docs \in [Entries -> Nat]
  BY SizesAssumption DEF IInv, TypeOK
<1>2. used \in Nat /\ tokens \in Nat /\ shared \in Nat
  BY <1>1, CapacitiesAssumption DEF IInv, TypeOK
<1>3. Load(ready) \in Nat /\ Len(ready) \in Nat
  BY LoadTyped DEF IInv, TypeOK
<1>4. /\ taken.bytes \in Nat /\ making.bytes \in Nat
      /\ taken.index \in 0 .. Total /\ making.index \in 0 .. Total
  BY DEF IInv, TypeOK, Item
<1>5. Making => making.index \in Entries
  BY <1>4 DEF IInv, InSequence, Sequenced, Entries
<1>6. Holding => taken.index \in Entries
  BY <1>4 DEF IInv, InSequence, Sequenced, Entries
<1> QED
  BY <1>1, <1>2, <1>3, <1>4, <1>5, <1>6

LEMMA AdmitInv ==
  ASSUME IInv, Admit
  PROVE  IInv'
<1> USE DEF budget, channels, contexts, inputs
<1>1. /\ making' \in Item /\ making'.index = making.index + 1 /\ making'.bytes = 0
      /\ ~making'.early /\ producer' = "inspecting" /\ producer = "waiting"
  <2>1. making.index + 1 \in 0 .. Total
    BY SizesAssumption DEF IInv, TypeOK, Item, Admit
  <2> QED
    BY <2>1 DEF Admit, NewItem, Item
<1>2. TypeOK'
  BY <1>1, CapacitiesAssumption DEF IInv, TypeOK, Admit
<1>3. Places'
  BY <1>1 DEF IInv, Places, Admit
<1>4. Sizing'
  BY <1>1 DEF IInv, Sizing, Sized, Holding, Admit
<1>5. Account'
  BY <1>1 DEF IInv, TypeOK, Sizing, Account, Holding, Making, Admit
<1>6. InSequence'
  <2>1. PICK h \in 0 .. Total : Sequenced(h)
    BY DEF IInv, InSequence
  <2>2. Sequenced(h)'
    BY <1>1, <2>1 DEF Sequenced, Making, Holding, Admit
  <2> QED
    BY <2>2 DEF InSequence
<1>7. WaitsForBytes'
  BY <1>1 DEF IInv, Places, WaitsForBytes, Need, Threads, Admit
<1> QED
  BY <1>2, <1>3, <1>4, <1>5, <1>6, <1>7 DEF IInv

LEMMA CloseInv ==
  ASSUME IInv, Close
  PROVE  IInv'
<1> USE DEF budget, channels, contexts, inputs
<1>1. producer = "waiting" /\ producer' = "finished" /\ closed'
  BY DEF Close
<1>2. TypeOK'
  BY <1>1 DEF IInv, TypeOK, Close
<1>3. Places'
  BY <1>1 DEF IInv, Places, Close
<1>4. Sizing'
  BY <1>1 DEF IInv, Sizing, Sized, Holding, Close
<1>5. Account'
  BY <1>1 DEF IInv, Account, Holding, Making, Close
<1>6. InSequence'
  <2>1. PICK h \in 0 .. Total : Sequenced(h)
    BY DEF IInv, InSequence
  <2>2. Sequenced(h)'
    BY <1>1, <2>1 DEF Sequenced, Making, Holding, Close
  <2> QED
    BY <2>2 DEF InSequence
<1>7. WaitsForBytes'
  BY <1>1 DEF IInv, Places, WaitsForBytes, Need, Threads, Close
<1> QED
  BY <1>2, <1>3, <1>4, <1>5, <1>6, <1>7 DEF IInv

LEMMA InspectInv ==
  ASSUME IInv, Inspect
  PROVE  IInv'
<1> USE DEF budget, channels, contexts, inputs
<1>1. /\ making' \in Item /\ making'.index = making.index /\ making'.bytes = 0
      /\ making.bytes = 0 /\ producer = "inspecting" /\ producer' \in {"preparing", "handing"}
  <2>1. making \in Item /\ making.bytes = 0 /\ producer = "inspecting"
    BY DEF IInv, TypeOK, Sizing, Inspect
  <2>2. producer' \in {"preparing", "handing"}
    BY DEF Inspect
  <2>3. CASE making' = making
    BY <2>1, <2>2, <2>3
  <2>4. CASE making' = [making EXCEPT !.early = TRUE]
    BY <2>1, <2>2, <2>4, Changed
  <2>5. CASE making' = [making EXCEPT !.bad = TRUE]
    BY <2>1, <2>2, <2>5, Changed
  <2> QED
    BY <2>3, <2>4, <2>5 DEF Inspect
<1>2. producer' = "preparing" => ~making'.early
  <2>1. producer' = "preparing" => making' = making
    BY DEF Inspect
  <2>2. ~making.early
    BY <1>1 DEF IInv, Sizing
  <2> QED
    BY <2>1, <2>2
<1>3. TypeOK'
  BY <1>1 DEF IInv, TypeOK, Inspect
<1>4. Places'
  BY <1>1 DEF IInv, Places, Inspect
<1>5. Sizing'
  BY <1>1, <1>2 DEF IInv, Sizing, Sized, Holding, Inspect
<1>6. Account'
  BY <1>1 DEF IInv, Account, Holding, Making, Inspect
<1>7. InSequence'
  <2>1. PICK h \in 0 .. Total : Sequenced(h)
    BY DEF IInv, InSequence
  <2>2. Sequenced(h)'
    BY <1>1, <2>1 DEF Sequenced, Making, Holding, Inspect
  <2> QED
    BY <2>2 DEF InSequence
<1>8. WaitsForBytes'
  BY <1>1 DEF IInv, Places, WaitsForBytes, Need, Threads, Inspect
<1> QED
  BY <1>3, <1>4, <1>5, <1>6, <1>7, <1>8 DEF IInv

LEMMA PrepareInv ==
  ASSUME IInv, Prepare
  PROVE  IInv'
<1> USE DEF budget, channels, contexts, inputs
<1> DEFINE d == docs[making.index]
<1>1. /\ producer = "preparing" /\ making \in Item /\ making.bytes = 0 /\ ~making.early
      /\ d \in Nat /\ used \in Nat /\ Limit \in Nat /\ waits \in [Threads -> BOOLEAN]
  BY Numbers DEF IInv, TypeOK, Sizing, Prepare, Making
<1>2. /\ making' \in Item /\ making'.index = making.index /\ (making'.early <=> making.early)
      /\ making'.bytes = d \/ making'.bytes = 0
      /\ producer' = "preparing" \/ producer' = "handing"
      /\ producer' = "preparing" => making' = making
      /\ used' = used + making'.bytes /\ used' <= Limit
  <2>1. CASE Acquire("producer", d) /\ making' = [making EXCEPT !.bytes = d] /\ producer' = "handing"
    <3>1. PICK n \in Nat : n = d
      BY <1>1
    <3>2. making' = [making EXCEPT !.bytes = n]
      BY <2>1, <3>1
    <3>3. making' \in Item /\ making'.index = making.index /\ (making'.early <=> making.early)
      BY <1>1, <3>2, Changed
    <3>4. making'.bytes = n
      BY <1>1, <3>2, Changed
    <3>5. used' = used + n /\ used' <= Limit
      BY <2>1, <3>1 DEF Acquire
    <3> HIDE DEF d
    <3> QED
      BY <2>1, <3>1, <3>3, <3>4, <3>5
  <2>2. CASE Await("producer", d) /\ UNCHANGED <<producer, making>>
    BY <1>1, <2>2 DEF Await, IInv, TypeOK
  <2>3. CASE UNCHANGED used /\ making' = [making EXCEPT !.bad = TRUE] /\ producer' = "handing"
    <3>1. making' \in Item /\ making'.index = making.index /\ (making'.early <=> making.early)
      BY <1>1, <2>3, Changed
    <3>2. making'.bytes = 0
      BY <1>1, <2>3, Changed
    <3> QED
      BY <1>1, <2>3, <3>1, <3>2 DEF IInv, TypeOK
  <2> QED
    BY <2>1, <2>2, <2>3 DEF Prepare, Refuse
<1>3. /\ waits' \in [Threads -> BOOLEAN]
      /\ waits'["consumer"] <=> waits["consumer"]
      /\ waits'["producer"] => producer' = "preparing" /\ used' + d > Limit
  <2>1. CASE Acquire("producer", d) /\ producer' = "handing"
    BY <1>1, <2>1 DEF Acquire
  <2>2. CASE Await("producer", d) /\ UNCHANGED producer
    BY <1>1, <2>2 DEF Await, Threads
  <2>3. CASE Refuse("producer", d)
    BY <1>1, <2>3 DEF Refuse, Threads
  <2>4. CASE ~waits["producer"] /\ UNCHANGED budget
    BY <1>1, <2>4
  <2> QED
    BY <2>1, <2>2, <2>3, <2>4 DEF Prepare
<1>4. UNCHANGED <<channels, consumer, taken, shared, contexts, inputs>>
  BY DEF Prepare
<1> HIDE DEF d
<1>5. TypeOK'
  BY <1>1, <1>2, <1>3, <1>4 DEF IInv, TypeOK
<1>6. Places'
  BY <1>1, <1>2, <1>3, <1>4 DEF IInv, Places
<1>7. Sizing'
  BY <1>1, <1>2, <1>4 DEF IInv, Sizing, Sized, Holding, d
<1>8. Account'
  <2>1. used' = shared' + taken'.bytes + Load(ready') + making'.bytes
    BY <1>1, <1>2, <1>4, Numbers DEF IInv, Account
  <2>2. tokens' = (IF Holding' THEN 1 ELSE 0) + Len(ready') + (IF Making' THEN 1 ELSE 0)
    BY <1>1, <1>2, <1>4, Numbers DEF IInv, Account, Holding, Making
  <2> QED
    BY <2>1, <2>2 DEF Account
<1>9. InSequence'
  <2>1. PICK h \in 0 .. Total : Sequenced(h)
    BY DEF IInv, InSequence
  <2>2. Sequenced(h)'
    BY <1>1, <1>2, <1>4, <2>1 DEF Sequenced, Making, Holding
  <2> QED
    BY <1>4, <2>2 DEF InSequence
<1>10. WaitsForBytes'
  <2>1. waits'["producer"] => used' + Need("producer")' > Limit
    BY <1>2, <1>3, <1>4 DEF Need, d
  <2>2. waits'["consumer"] => used' + Need("consumer")' > Limit
    <3>1. Need("consumer")' = Need("consumer")
      BY <1>4 DEF Need
    <3>2. ASSUME waits'["consumer"] PROVE used + Need("consumer") > Limit /\ Need("consumer") \in Nat
      <4>1. waits["consumer"] /\ consumer \in {"converted", "inline"}
        BY <1>3, <3>2 DEF IInv, Places
      <4> QED
        BY <4>1, Numbers DEF IInv, WaitsForBytes, Threads, Need, Holding
    <3>3. used' >= used
      BY <1>1, <1>2
    <3>4. used' \in Nat
      BY <1>1, <1>2
    <3> QED
      BY <1>1, <3>1, <3>2, <3>3, <3>4
  <2> QED
    BY <2>1, <2>2 DEF WaitsForBytes, Threads
<1> QED
  BY <1>5, <1>6, <1>7, <1>8, <1>9, <1>10 DEF IInv

\* A release leaves nobody asleep whose bytes are free.
LEMMA ReleaseWakes ==
  ASSUME NEW size \in Nat, used \in Nat, size <= used, waits \in [Threads -> BOOLEAN], Release(size)
  PROVE  /\ waits' \in [Threads -> BOOLEAN]
         /\ used' = used - size /\ used' \in Nat /\ used' <= used
         /\ \A t \in Threads : waits'[t] => waits[t] /\ used' = used
<1>1. used' = used - size
  BY DEF Release
<1>2. CASE size > 0
  <2>1. waits' = [t \in Threads |-> FALSE]
    BY <1>2 DEF Release
  <2>2. waits' \in [Threads -> BOOLEAN] /\ \A t \in Threads : ~waits'[t]
    BY <2>1
  <2> QED
    BY <1>1, <2>2
<1>3. CASE size = 0
  BY <1>1, <1>3 DEF Release
<1> QED
  BY <1>2, <1>3

LEMMA PrepareFailsInv ==
  ASSUME IInv, PrepareFails
  PROVE  IInv'
<1> USE DEF budget, channels, contexts, inputs
<1>1. /\ making' \in Item /\ making'.index = making.index /\ making'.bytes = 0
      /\ producer = "handing"
  BY Changed DEF IInv, TypeOK, PrepareFails
<1>2. UNCHANGED <<channels, producer, consumer, taken, shared, contexts, inputs>>
  BY DEF PrepareFails
<1>3. making.bytes \in Nat /\ making.bytes <= used /\ used \in Nat
  BY Numbers DEF IInv, Account
<1>4. /\ waits' \in [Threads -> BOOLEAN] /\ used' = used - making.bytes
      /\ used' \in Nat /\ used' <= used
      /\ \A t \in Threads : waits'[t] => waits[t] /\ used' = used
  BY <1>3, ReleaseWakes DEF IInv, TypeOK, PrepareFails
<1>5. TypeOK'
  BY <1>1, <1>2, <1>3, <1>4, SizesAssumption DEF IInv, TypeOK
<1>6. Places'
  BY <1>1, <1>2, <1>4 DEF IInv, Places, Threads
<1>7. Sizing'
  BY <1>1, <1>2 DEF IInv, Sizing, Sized, Holding
<1>8. Account'
  <2>1. used' = shared' + taken'.bytes + Load(ready') + making'.bytes
    <3>1. /\ used \in Nat /\ shared \in Nat /\ taken.bytes \in Nat /\ Load(ready) \in Nat
          /\ making.bytes \in Nat
      BY Numbers
    <3>2. used = shared + taken.bytes + Load(ready) + making.bytes
      BY DEF IInv, Account
    <3>3. used' = used - making.bytes /\ making'.bytes = 0
      BY <1>1, <1>4
    <3>4. shared' = shared /\ taken' = taken /\ ready' = ready
      BY <1>2
    <3> QED
      BY <3>1, <3>2, <3>3, <3>4
  <2>2. tokens' = (IF Holding' THEN 1 ELSE 0) + Len(ready') + (IF Making' THEN 1 ELSE 0)
    BY <1>1, <1>2, <1>4, Numbers DEF IInv, Account, Holding, Making
  <2> QED
    BY <2>1, <2>2 DEF Account
<1>9. InSequence'
  <2>1. PICK h \in 0 .. Total : Sequenced(h)
    BY DEF IInv, InSequence
  <2>2. Sequenced(h)'
    BY <1>1, <1>2, <2>1 DEF Sequenced, Making, Holding
  <2> QED
    BY <1>2, <2>2 DEF InSequence
<1>10. WaitsForBytes'
  <2>1. \A t \in Threads : Need(t)' = Need(t)
    BY <1>1, <1>2 DEF Need
  <2> QED
    BY <1>4, <2>1 DEF IInv, WaitsForBytes
<1> QED
  BY <1>5, <1>6, <1>7, <1>8, <1>9, <1>10 DEF IInv

LEMMA HandOverInv ==
  ASSUME IInv, HandOver
  PROVE  IInv'
<1> USE DEF budget, channels, contexts, inputs
<1>1. /\ making \in Item /\ making' \in Item /\ making'.index = making.index
      /\ making'.bytes = 0 /\ (making'.early <=> making.early)
      /\ producer = "handing" /\ producer' = "waiting"
  BY Changed DEF IInv, TypeOK, HandOver
<1>2. UNCHANGED <<budget, tokens, closed, consumer, taken, shared, contexts, inputs>>
  BY DEF HandOver
<1>3. /\ ready \in Seq(Item) /\ ready' \in Seq(Item) /\ Len(ready') = Len(ready) + 1
      /\ Len(ready') <= Ready /\ Len(ready) \in Nat /\ ready'[Len(ready) + 1] = making
      /\ \A i \in 1 .. Len(ready) : ready'[i] = ready[i]
  <2>1. ready \in Seq(Item) /\ ready' = Append(ready, making) /\ Len(ready) < Ready
    BY DEF IInv, TypeOK, HandOver
  <2> QED
    BY <1>1, <2>1, CapacitiesAssumption
<1>4. Load(ready') = Load(ready) + making.bytes
  BY <1>1, <1>3, LoadAppend DEF HandOver
<1>5. TypeOK'
  BY <1>1, <1>2, <1>3 DEF IInv, TypeOK
<1>6. Places'
  BY <1>1, <1>2 DEF IInv, Places
<1>7. Sizing'
  <2>1. \A i \in 1 .. Len(ready') : Sized(ready[i])'
    <3> SUFFICES ASSUME NEW i \in 1 .. Len(ready') PROVE Sized(ready[i])'
      OBVIOUS
    <3>1. PICK x : x = ready'[i]
      OBVIOUS
    <3>2. Sized(x)
      <4>1. CASE i \in 1 .. Len(ready)
        <5>1. Sized(ready[i]) /\ x = ready[i]
          BY <1>3, <3>1, <4>1 DEF IInv, Sizing
        <5> QED
          BY <5>1
      <4>2. CASE i = Len(ready) + 1
        <5>1. Sized(making) /\ x = making
          BY <1>3, <3>1, <4>2 DEF IInv, Sizing
        <5> QED
          BY <5>1
      <4> QED
        BY <1>3, <4>1, <4>2
    <3>3. docs' = docs
      BY <1>2
    <3>4. (ready'[i]).bytes = 0 \/ (ready'[i]).bytes = docs'[(ready'[i]).index]
      BY <3>1, <3>2, <3>3 DEF Sized
    <3>5. (ready'[i]).early => (ready'[i]).bytes = 0
      BY <3>1, <3>2 DEF Sized
    <3> QED
      BY <3>4, <3>5 DEF Sized
  <2>2. Sized(making)'
    <3>1. making'.bytes = 0
      BY <1>1
    <3> QED
      BY <3>1 DEF Sized
  <2>3. taken'.bytes = 0 \/ taken'.bytes = docs'[taken'.index]
    BY <1>2 DEF IInv, Sizing
  <2>4. producer' # "handing" => making'.bytes = 0
    BY <1>1
  <2>5. producer' \in {"inspecting", "preparing"} => ~making'.early
    BY <1>1
  <2>6. ~Holding' => taken'.bytes = 0
    BY <1>2 DEF IInv, Sizing, Holding
  <2>7. consumer' = "deciding" /\ taken'.early => taken'.bytes = 0
    BY <1>2 DEF IInv, Sizing
  <2>8. consumer' = "inline" => taken'.bytes = 0
    BY <1>2 DEF IInv, Sizing
  <2> QED
    BY <2>1, <2>2, <2>3, <2>4, <2>5, <2>6, <2>7, <2>8 DEF Sizing
<1>8. Account'
  <2>1. used' = shared' + taken'.bytes + Load(ready') + making'.bytes
    BY <1>1, <1>2, <1>3, <1>4, Numbers DEF IInv, Account
  <2>2. tokens' = (IF Holding' THEN 1 ELSE 0) + Len(ready') + (IF Making' THEN 1 ELSE 0)
    BY <1>1, <1>2, <1>3, <1>4, Numbers DEF IInv, Account, Holding, Making
  <2> QED
    BY <2>1, <2>2 DEF Account
<1>9. InSequence'
  <2>1. PICK h \in 0 .. Total : Sequenced(h)
    BY DEF IInv, InSequence
  <2>2. making.index = h + 1 /\ h + 1 \in 0 .. Total
    BY <1>1, <2>1 DEF Sequenced, Making, Item
  <2>3. \A i \in 1 .. Len(ready') : ready'[i].index = (h + 1) - Len(ready') + i
    <3> SUFFICES ASSUME NEW i \in 1 .. Len(ready')
                 PROVE  ready'[i].index = (h + 1) - Len(ready') + i
      OBVIOUS
    <3>1. CASE i \in 1 .. Len(ready)
      <4>1. ready[i].index = h - Len(ready) + i
        BY <2>1, <3>1 DEF Sequenced
      <4>2. ready'[i] = ready[i]
        BY <1>3, <3>1
      <4>3. h - Len(ready) + i = (h + 1) - Len(ready') + i
        BY <1>3, <3>1
      <4> QED
        BY <4>1, <4>2, <4>3
    <3>2. CASE i = Len(ready) + 1
      <4>1. ready'[i] = making
        BY <1>3, <3>2
      <4>2. h + 1 = (h + 1) - Len(ready') + i
        BY <1>3, <3>2
      <4> QED
        BY <2>2, <4>1, <4>2
    <3>3. i \in 1 .. Len(ready) \/ i = Len(ready) + 1
      BY <1>3
    <3> QED
      BY <3>1, <3>2, <3>3
  <2>4. Sequenced(h + 1)'
    <3>1. taken.index \in Nat
      BY Numbers
    <3> QED
      BY <1>1, <1>2, <1>3, <2>1, <2>2, <2>3, <3>1 DEF Sequenced, Making, Holding
  <2> QED
    BY <2>2, <2>4 DEF InSequence
<1>10. WaitsForBytes'
  BY <1>1, <1>2 DEF IInv, Places, WaitsForBytes, Need, Threads
<1> QED
  BY <1>5, <1>6, <1>7, <1>8, <1>9, <1>10 DEF IInv

LEMMA WithdrawInv ==
  ASSUME IInv, Withdraw
  PROVE  IInv'
<1> USE DEF budget, channels, contexts, inputs
<1>1. /\ making' \in Item /\ making'.index = making.index /\ making'.bytes = 0
      /\ producer = "handing" /\ producer' = "finished" /\ closed'
      /\ tokens > 0 /\ tokens' = tokens - 1
  BY Changed DEF IInv, TypeOK, Withdraw
<1>2. UNCHANGED <<ready, consumer, taken, shared, contexts, inputs>>
  BY DEF Withdraw
<1>3. making.bytes \in Nat /\ making.bytes <= used /\ used \in Nat
  BY Numbers DEF IInv, Account
<1>4. /\ waits' \in [Threads -> BOOLEAN] /\ used' = used - making.bytes
      /\ used' \in Nat /\ used' <= used
      /\ \A t \in Threads : waits'[t] => waits[t] /\ used' = used
  BY <1>3, ReleaseWakes DEF IInv, TypeOK, Withdraw
<1>5. TypeOK'
  BY <1>1, <1>2, <1>3, <1>4, SizesAssumption, CapacitiesAssumption DEF IInv, TypeOK
<1>6. Places'
  BY <1>1, <1>2, <1>4 DEF IInv, Places, Threads
<1>7. Sizing'
  BY <1>1, <1>2 DEF IInv, Sizing, Sized, Holding
<1>8. Account'
  <2>1. used' = shared' + taken'.bytes + Load(ready') + making'.bytes
    <3>1. /\ used \in Nat /\ shared \in Nat /\ taken.bytes \in Nat /\ Load(ready) \in Nat
          /\ making.bytes \in Nat
      BY Numbers
    <3>2. used = shared + taken.bytes + Load(ready) + making.bytes
      BY DEF IInv, Account
    <3>3. used' = used - making.bytes /\ making'.bytes = 0
      BY <1>1, <1>4
    <3>4. shared' = shared /\ taken' = taken /\ ready' = ready
      BY <1>2
    <3> QED
      BY <3>1, <3>2, <3>3, <3>4
  <2>2. tokens' = (IF Holding' THEN 1 ELSE 0) + Len(ready') + (IF Making' THEN 1 ELSE 0)
    BY <1>1, <1>2, <1>4, Numbers DEF IInv, Account, Holding, Making
  <2> QED
    BY <2>1, <2>2 DEF Account
<1>9. InSequence'
  <2>1. PICK h \in 0 .. Total : Sequenced(h)
    BY DEF IInv, InSequence
  <2>2. Sequenced(h)'
    BY <1>1, <1>2, <2>1 DEF Sequenced, Making, Holding
  <2> QED
    BY <1>2, <2>2 DEF InSequence
<1>10. WaitsForBytes'
  <2>1. ~waits["producer"]
    BY <1>1 DEF IInv, Places
  <2>2. Need("consumer")' = Need("consumer")
    BY <1>1, <1>2 DEF Need
  <2> QED
    BY <1>4, <2>1, <2>2 DEF IInv, WaitsForBytes, Threads
<1> QED
  BY <1>5, <1>6, <1>7, <1>8, <1>9, <1>10 DEF IInv

LEMMA PrepareSharedInv ==
  ASSUME IInv, PrepareShared, UNCHANGED <<channels, making, taken, contexts, inputs>>
  PROVE  IInv'
<1> USE DEF channels, contexts, inputs
<1>1. /\ used \in Nat /\ Static \in Nat /\ converted \in Nat /\ Limit \in Nat
      /\ waits \in [Threads -> BOOLEAN] /\ producer = "idle"
      /\ consumer \in {"static", "converted"} /\ ~waits["producer"]
  BY Numbers DEF IInv, TypeOK, Places, PrepareShared
<1>2. UNCHANGED <<channels, making, taken, contexts, inputs>>
  OBVIOUS
<1>3. /\ waits' \in [Threads -> BOOLEAN] /\ ~waits'["producer"]
      /\ waits'["consumer"] => consumer' = "converted" /\ used' + converted > Limit
  <2>1. CASE consumer = "static"
    <3>1. ~waits["consumer"]
      BY <2>1 DEF IInv, Places
    <3> QED
      BY <1>1, <2>1, <3>1 DEF PrepareShared, Acquire
  <2>2. CASE consumer = "converted" /\ Acquire("consumer", converted)
    BY <1>1, <2>2 DEF Acquire
  <2>3. CASE consumer = "converted" /\ Await("consumer", converted) /\ UNCHANGED consumer
    BY <1>1, <2>3 DEF Await, Threads
  <2> QED
    BY <2>1, <2>2, <2>3 DEF PrepareShared
<1>4. \/ /\ consumer = "static" /\ consumer' = "converted" /\ producer' = "idle"
         /\ shared = 0 /\ shared' = Static /\ used' = used + Static /\ used' <= Limit
      \/ /\ consumer = "converted" /\ consumer' = "receiving" /\ producer' = "waiting"
         /\ shared = Static /\ shared' = Static + converted
         /\ used' = used + converted /\ used' <= Limit
      \/ /\ consumer = "converted" /\ consumer' = "converted" /\ producer' = "idle"
         /\ shared = Static /\ shared' = Static /\ used' = used /\ used' <= Limit
  <2>1. CASE consumer = "static"
    BY <1>1, <2>1 DEF IInv, Places, PrepareShared, Acquire
  <2>2. CASE consumer = "converted" /\ Acquire("consumer", converted) /\ consumer' = "receiving"
    BY <1>1, <2>2 DEF IInv, Places, PrepareShared, Acquire
  <2>3. CASE consumer = "converted" /\ Await("consumer", converted) /\ UNCHANGED <<shared, consumer, producer>>
    BY <1>1, <2>3 DEF IInv, TypeOK, Places, Await
  <2> QED
    BY <2>1, <2>2, <2>3 DEF PrepareShared
<1>5. TypeOK'
  <2>1. used' \in 0 .. Limit
    BY <1>1, <1>4
  <2>2. shared' \in {0, Static, Static + converted}
    BY <1>4
  <2> QED
    BY <1>2, <1>3, <1>4, <2>1, <2>2 DEF IInv, TypeOK
<1>6. Places'
  BY <1>1, <1>2, <1>3, <1>4 DEF IInv, Places
<1>7. Sizing'
  BY <1>1, <1>2, <1>4 DEF IInv, Sizing, Sized, Holding
<1>8. Account'
  <2>1. used' = shared' + taken'.bytes + Load(ready') + making'.bytes
    <3>1. /\ taken.bytes \in Nat /\ Load(ready) \in Nat /\ making.bytes \in Nat
          /\ used = shared + taken.bytes + Load(ready) + making.bytes
      BY Numbers DEF IInv, Account
    <3> QED
      BY <1>1, <1>2, <1>4, <3>1
  <2>2. Making' = Making /\ Holding' = Holding
    BY <1>1, <1>4 DEF Making, Holding
  <2> QED
    BY <1>2, <2>1, <2>2 DEF IInv, Account
<1>9. InSequence'
  <2>1. PICK h \in 0 .. Total : Sequenced(h)
    BY DEF IInv, InSequence
  <2>2. Sequenced(h)'
    BY <1>1, <1>2, <1>4, <2>1 DEF Sequenced, Making, Holding
  <2> QED
    BY <1>2, <2>2 DEF InSequence
<1>10. WaitsForBytes'
  BY <1>2, <1>3 DEF WaitsForBytes, Need, Threads
<1> QED
  BY <1>5, <1>6, <1>7, <1>8, <1>9, <1>10 DEF IInv

LEMMA SharedFailsInv ==
  ASSUME IInv, SharedFails, UNCHANGED <<channels, making, taken, contexts, inputs>>
  PROVE  IInv'
<1> USE DEF channels, contexts, inputs
<1>1. /\ consumer = "converted" /\ consumer' = "done" /\ shared' = 0
      /\ producer = "idle" /\ producer' = "idle" /\ used' = used - shared
      /\ used \in Nat /\ shared \in Nat /\ Limit \in Nat
  BY Numbers DEF IInv, Places, SharedFails
<1>2. UNCHANGED <<channels, making, taken, contexts, inputs>>
  OBVIOUS
<1>3. waits' \in [Threads -> BOOLEAN] /\ \A t \in Threads : ~waits'[t]
  BY DEF SharedFails
<1>4. /\ taken.bytes \in Nat /\ Load(ready) \in Nat /\ making.bytes \in Nat
      /\ used = shared + taken.bytes + Load(ready) + making.bytes
  BY Numbers DEF IInv, Account
<1>5. PICK h \in 0 .. Total : Sequenced(h)
  BY DEF IInv, InSequence
<1>6. ready = <<>>
  <2>1. making.index = 0 /\ making.index = h
    BY <1>1, <1>5 DEF IInv, Places, Sequenced
  <2>2. Len(ready) = 0 /\ ready \in Seq(Item)
    BY <1>5, <2>1 DEF IInv, TypeOK, Sequenced
  <2> QED
    BY <2>2
<1>7. TypeOK'
  <2>1. used' \in 0 .. Limit
    <3>1. used <= Limit
      BY <1>1 DEF IInv, TypeOK
    <3>2. used - shared >= 0 /\ used - shared <= used
      BY <1>1, <1>4
    <3> QED
      BY <1>1, <3>1, <3>2
  <2> QED
    BY <1>1, <1>2, <1>3, <2>1 DEF IInv, TypeOK
<1>8. Places'
  BY <1>1, <1>2, <1>3, <1>6 DEF IInv, Places, Threads
<1>9. Sizing'
  BY <1>1, <1>2 DEF IInv, Sizing, Sized, Holding
<1>10. Account'
  <2>1. used' = shared' + taken'.bytes + Load(ready') + making'.bytes
    BY <1>1, <1>2, <1>4
  <2>2. Making' = Making /\ Holding' = Holding
    BY <1>1 DEF Making, Holding
  <2> QED
    BY <1>2, <2>1, <2>2 DEF IInv, Account
<1>11. InSequence'
  <2>1. Sequenced(h)'
    BY <1>1, <1>2, <1>5 DEF Sequenced, Making, Holding
  <2> QED
    BY <1>2, <2>1 DEF InSequence
<1>12. WaitsForBytes'
  BY <1>3 DEF WaitsForBytes
<1> QED
  BY <1>7, <1>8, <1>9, <1>10, <1>11, <1>12 DEF IInv

\* What is left in the channel when an item is taken out of it.
LEMMA Rest ==
  ASSUME IInv, ready # <<>>, ready' = Tail(ready), UNCHANGED docs
  PROVE  /\ Head(ready) \in Item /\ ready' \in Seq(Item) /\ Len(ready') = Len(ready) - 1
         /\ Len(ready) \in Nat /\ Len(ready) > 0 /\ Len(ready') \in Nat /\ Len(ready') <= Ready
         /\ Load(ready) = Head(ready).bytes + Load(ready')
         /\ Head(ready).bytes \in Nat /\ Load(ready') \in Nat
         /\ Sized(Head(ready))
         /\ \A i \in 1 .. Len(ready') : Sized(ready[i])'
         /\ \A h \in 0 .. Total : Sequenced(h) =>
              /\ Len(ready') <= h /\ Head(ready).index = h - Len(ready')
              /\ \A i \in 1 .. Len(ready') : ready'[i].index = h - Len(ready') + i
<1>1. ready \in Seq(Item) /\ Len(ready) <= Ready /\ Ready \in Nat
  BY CapacitiesAssumption DEF IInv, TypeOK
<1>2. /\ Load(ready) = Head(ready).bytes + Load(ready')
      /\ Head(ready) \in Item /\ ready' \in Seq(Item) /\ Len(ready') = Len(ready) - 1
  BY <1>1, LoadTail
<1>3. /\ Len(ready) \in Nat /\ Len(ready) > 0 /\ Head(ready) = ready[1]
      /\ \A i \in 1 .. Len(ready') : ready'[i] = ready[i + 1] /\ i + 1 \in 1 .. Len(ready)
  BY <1>1, <1>2
<1>4. Head(ready).bytes \in Nat /\ Load(ready') \in Nat
  BY <1>2, LoadTyped DEF Item
<1>5. Sized(Head(ready))
  <2>1. Sized(ready[1])
    BY <1>3 DEF IInv, Sizing
  <2> QED
    BY <1>3, <2>1
<1>6. ASSUME NEW i \in 1 .. Len(ready') PROVE Sized(ready[i])'
  <2>1. PICK x : x = ready'[i]
    OBVIOUS
  <2>2. Sized(ready[i + 1]) /\ x = ready[i + 1]
    BY <1>3, <2>1 DEF IInv, Sizing
  <2>3. Sized(x)
    BY <2>2
  <2>4. x.bytes = 0 \/ x.bytes = docs'[x.index]
    BY <2>3 DEF Sized
  <2>5. x.early => x.bytes = 0
    BY <2>3 DEF Sized
  <2> QED
    BY <2>1, <2>4, <2>5 DEF Sized
<1>7. ASSUME NEW h \in 0 .. Total, Sequenced(h)
      PROVE  /\ Len(ready') <= h /\ Head(ready).index = h - Len(ready')
             /\ \A i \in 1 .. Len(ready') : ready'[i].index = h - Len(ready') + i
  <2>1. Len(ready) <= h /\ h \in Nat /\ \A i \in 1 .. Len(ready) : ready[i].index = h - Len(ready) + i
    BY <1>7, SizesAssumption DEF Sequenced
  <2>2. ready[1].index = h - Len(ready) + 1
    BY <1>3, <2>1
  <2>3. ASSUME NEW i \in 1 .. Len(ready') PROVE ready'[i].index = h - Len(ready') + i
    <3>1. ready'[i] = ready[i + 1] /\ i + 1 \in 1 .. Len(ready)
      BY <1>3
    <3>2. ready[i + 1].index = h - Len(ready) + (i + 1)
      BY <2>1, <3>1
    <3>3. h - Len(ready) + (i + 1) = h - Len(ready') + i
      BY <1>2, <1>3, <2>1
    <3> QED
      BY <3>1, <3>2, <3>3
  <2>4. Len(ready') <= h
    BY <1>2, <1>3, <2>1
  <2>5. Head(ready).index = h - Len(ready')
    BY <1>2, <1>3, <2>1, <2>2
  <2> QED
    BY <2>3, <2>4, <2>5
<1> QED
  BY <1>1, <1>2, <1>3, <1>4, <1>5, <1>6, <1>7

LEMMA ReceiveInv ==
  ASSUME IInv, Receive
  PROVE  IInv'
<1> USE DEF budget, channels, contexts, inputs
<1>1. /\ consumer = "receiving" /\ consumer' = "deciding" /\ ready # <<>>
      /\ taken' = Head(ready) /\ ready' = Tail(ready)
  BY DEF Receive
<1>2. UNCHANGED <<budget, tokens, closed, producer, making, shared, contexts, inputs>>
  BY DEF Receive
<1>3. /\ Head(ready) \in Item /\ ready' \in Seq(Item) /\ Len(ready') = Len(ready) - 1
      /\ Len(ready) \in Nat /\ Len(ready) > 0 /\ Len(ready') \in Nat /\ Len(ready') <= Ready
      /\ Load(ready) = Head(ready).bytes + Load(ready')
      /\ Head(ready).bytes \in Nat /\ Load(ready') \in Nat
  BY <1>1, <1>2, Rest
<1>4. Sized(Head(ready)) /\ \A i \in 1 .. Len(ready') : Sized(ready[i])'
  BY <1>1, <1>2, Rest
<1>5. PICK h \in 0 .. Total : Sequenced(h)
  BY DEF IInv, InSequence
<1>6. /\ Len(ready') <= h /\ Head(ready).index = h - Len(ready')
      /\ \A i \in 1 .. Len(ready') : ready'[i].index = h - Len(ready') + i
  BY <1>1, <1>2, <1>5, Rest
<1>7. taken.bytes = 0
  BY <1>1 DEF IInv, Sizing, Holding
<1>8. TypeOK'
  BY <1>1, <1>2, <1>3 DEF IInv, TypeOK
<1>9. Places'
  BY <1>1, <1>2 DEF IInv, Places
<1>10. Sizing'
  <2>1. Sized(making)'
    BY <1>2 DEF IInv, Sizing, Sized
  <2>2. taken'.bytes = 0 \/ taken'.bytes = docs'[taken'.index]
    BY <1>1, <1>2, <1>4 DEF Sized
  <2>3. taken'.early => taken'.bytes = 0
    BY <1>1, <1>4 DEF Sized
  <2>4. producer' # "handing" => making'.bytes = 0
    BY <1>2 DEF IInv, Sizing
  <2>5. producer' \in {"inspecting", "preparing"} => ~making'.early
    BY <1>2 DEF IInv, Sizing
  <2> QED
    BY <1>1, <1>4, <2>1, <2>2, <2>3, <2>4, <2>5 DEF Sizing, Holding
<1>11. Account'
  <2>1. used' = shared' + taken'.bytes + Load(ready') + making'.bytes
    <3>1. /\ used \in Nat /\ shared \in Nat /\ making.bytes \in Nat
          /\ used = shared + taken.bytes + Load(ready) + making.bytes
      BY Numbers DEF IInv, Account
    <3> QED
      BY <1>1, <1>2, <1>3, <1>7, <3>1
  <2>2. tokens' = (IF Holding' THEN 1 ELSE 0) + Len(ready') + (IF Making' THEN 1 ELSE 0)
    <3>1. PICK m \in {0, 1} : m = IF Making THEN 1 ELSE 0
      OBVIOUS
    <3>2. tokens \in Nat /\ Len(ready) \in Nat
      BY Numbers
    <3>3. tokens = 0 + Len(ready) + m
      BY <1>1, <3>1 DEF IInv, Account, Holding
    <3>4. Making' = Making /\ Holding'
      BY <1>1, <1>2 DEF Making, Holding
    <3>5. tokens' = 1 + Len(ready') + m
      BY <1>2, <1>3, <3>2, <3>3
    <3> QED
      BY <3>1, <3>4, <3>5
  <2> QED
    BY <2>1, <2>2 DEF Account
<1>12. InSequence'
  <2>1. taken'.index > 0
    <3>1. Len(ready) <= h /\ h \in Nat
      BY <1>5, SizesAssumption DEF Sequenced
    <3> QED
      BY <1>1, <1>3, <1>6, <3>1
  <2>2. Sequenced(h)'
    BY <1>1, <1>2, <1>5, <1>6, <2>1 DEF Sequenced, Making, Holding
  <2> QED
    BY <2>2 DEF InSequence
<1>13. WaitsForBytes'
  BY <1>1, <1>2 DEF IInv, Places, WaitsForBytes, Need, Threads
<1> QED
  BY <1>8, <1>9, <1>10, <1>11, <1>12, <1>13 DEF IInv

LEMMA DecideInv ==
  ASSUME IInv, Decide
  PROVE  IInv'
<1> USE DEF budget, channels, contexts, inputs
<1>1. consumer = "deciding" /\ consumer' \in {"inline", "sending"}
  BY DEF Decide
<1>2. UNCHANGED <<budget, channels, producer, making, taken, shared, contexts, inputs>>
  BY DEF Decide
<1>3. consumer' = "inline" => taken.bytes = 0
  <2>1. consumer' = "inline" => taken.early
    BY DEF Decide
  <2>2. taken.early => taken.bytes = 0
    BY <1>1 DEF IInv, Sizing
  <2> QED
    BY <2>1, <2>2
<1>4. TypeOK'
  BY <1>1, <1>2 DEF IInv, TypeOK
<1>5. Places'
  BY <1>1, <1>2 DEF IInv, Places
<1>6. Sizing'
  BY <1>1, <1>2, <1>3 DEF IInv, Sizing, Sized, Holding
<1>7. Account'
  <2>1. Holding' = Holding /\ Making' = Making
    BY <1>1, <1>2 DEF Holding, Making
  <2> QED
    BY <1>2, <2>1 DEF IInv, Account
<1>8. InSequence'
  <2>1. PICK h \in 0 .. Total : Sequenced(h)
    BY DEF IInv, InSequence
  <2>2. Sequenced(h)'
    BY <1>1, <1>2, <2>1 DEF Sequenced, Making, Holding
  <2> QED
    BY <1>2, <2>2 DEF InSequence
<1>9. WaitsForBytes'
  BY <1>1, <1>2 DEF IInv, Places, WaitsForBytes, Need, Threads
<1> QED
  BY <1>4, <1>5, <1>6, <1>7, <1>8, <1>9 DEF IInv

LEMMA PrepareInlineInv ==
  ASSUME IInv, PrepareInline
  PROVE  IInv'
<1> USE DEF budget, channels, contexts, inputs
<1> DEFINE d == docs[taken.index]
<1>1. /\ consumer = "inline" /\ taken \in Item /\ taken.bytes = 0
      /\ d \in Nat /\ used \in Nat /\ Limit \in Nat /\ waits \in [Threads -> BOOLEAN]
  BY Numbers DEF IInv, TypeOK, Sizing, PrepareInline, Holding
<1>2. /\ taken' \in Item /\ taken'.index = taken.index
      /\ taken'.bytes = d \/ taken'.bytes = 0
      /\ consumer' \in {"inline", "deciding", "sending"}
      /\ consumer' # "sending" => taken'.bytes = 0
      /\ used' = used + taken'.bytes /\ used' <= Limit
  <2>1. CASE Acquire("consumer", d) /\ taken' = [taken EXCEPT !.bytes = d] /\ consumer' = "sending"
    <3>1. PICK n \in Nat : n = d
      BY <1>1
    <3>2. taken' = [taken EXCEPT !.bytes = n]
      BY <2>1, <3>1
    <3>3. taken' \in Item /\ taken'.index = taken.index
      BY <1>1, <3>2, Changed
    <3>4. taken'.bytes = n
      BY <1>1, <3>2, Changed
    <3>5. used' = used + n /\ used' <= Limit
      BY <2>1, <3>1 DEF Acquire
    <3> HIDE DEF d
    <3> QED
      BY <2>1, <3>1, <3>3, <3>4, <3>5
  <2>2. CASE Await("consumer", d) /\ UNCHANGED <<consumer, taken>>
    BY <1>1, <2>2 DEF Await, IInv, TypeOK
  <2>3. CASE UNCHANGED used /\ taken' = [taken EXCEPT !.bad = TRUE] /\ consumer' = "deciding"
    <3>1. taken' \in Item /\ taken'.index = taken.index
      BY <1>1, <2>3, Changed
    <3>2. taken'.bytes = 0
      BY <1>1, <2>3, Changed
    <3> QED
      BY <1>1, <2>3, <3>1, <3>2 DEF IInv, TypeOK
  <2> QED
    BY <2>1, <2>2, <2>3 DEF PrepareInline, Refuse
<1>3. /\ waits' \in [Threads -> BOOLEAN]
      /\ waits'["producer"] <=> waits["producer"]
      /\ waits'["consumer"] => consumer' = "inline" /\ used' + d > Limit
  <2>1. CASE Acquire("consumer", d) /\ consumer' = "sending"
    BY <1>1, <2>1 DEF Acquire
  <2>2. CASE Await("consumer", d) /\ UNCHANGED consumer
    BY <1>1, <2>2 DEF Await, Threads
  <2>3. CASE Refuse("consumer", d)
    BY <1>1, <2>3 DEF Refuse, Threads
  <2>4. CASE ~waits["consumer"] /\ UNCHANGED budget
    BY <1>1, <2>4
  <2> QED
    BY <2>1, <2>2, <2>3, <2>4 DEF PrepareInline
<1>4. UNCHANGED <<channels, producer, making, shared, contexts, inputs>>
  BY DEF PrepareInline
<1> HIDE DEF d
<1>5. TypeOK'
  BY <1>1, <1>2, <1>3, <1>4 DEF IInv, TypeOK
<1>6. Places'
  BY <1>1, <1>2, <1>3, <1>4 DEF IInv, Places
<1>7. Sizing'
  <2>1. taken'.bytes = 0 \/ taken'.bytes = docs'[taken'.index]
    BY <1>2, <1>4 DEF d
  <2> QED
    BY <1>1, <1>2, <1>4, <2>1 DEF IInv, Sizing, Sized, Holding
<1>8. Account'
  <2>1. used' = shared' + taken'.bytes + Load(ready') + making'.bytes
    <3>1. /\ used \in Nat /\ shared \in Nat /\ making.bytes \in Nat /\ Load(ready) \in Nat
          /\ used = shared + taken.bytes + Load(ready) + making.bytes
      BY Numbers DEF IInv, Account
    <3>2. taken'.bytes \in Nat
      BY <1>1, <1>2
    <3> QED
      BY <1>1, <1>2, <1>4, <3>1, <3>2
  <2>2. Holding' = Holding /\ Making' = Making
    BY <1>1, <1>2, <1>4 DEF Holding, Making
  <2> QED
    BY <1>4, <2>1, <2>2 DEF IInv, Account
<1>9. InSequence'
  <2>1. PICK h \in 0 .. Total : Sequenced(h)
    BY DEF IInv, InSequence
  <2>2. Sequenced(h)'
    BY <1>1, <1>2, <1>4, <2>1 DEF Sequenced, Making, Holding
  <2> QED
    BY <1>4, <2>2 DEF InSequence
<1>10. WaitsForBytes'
  <2>1. waits'["consumer"] => used' + Need("consumer")' > Limit
    BY <1>2, <1>3, <1>4 DEF Need, d
  <2>2. waits'["producer"] => used' + Need("producer")' > Limit
    <3>1. Need("producer")' = Need("producer")
      BY <1>4 DEF Need
    <3>2. ASSUME waits'["producer"] PROVE used + Need("producer") > Limit /\ Need("producer") \in Nat
      <4>1. waits["producer"] /\ producer = "preparing"
        BY <1>3, <3>2 DEF IInv, Places
      <4> QED
        BY <4>1, Numbers DEF IInv, WaitsForBytes, Threads, Need, Making
    <3>3. used' >= used /\ used' \in Nat
      BY <1>1, <1>2
    <3> QED
      BY <1>1, <3>1, <3>2, <3>3
  <2> QED
    BY <2>1, <2>2 DEF WaitsForBytes, Threads
<1> QED
  BY <1>5, <1>6, <1>7, <1>8, <1>9, <1>10 DEF IInv

\* What Continue and StopEarly share.
LEMMA PutBackInv ==
  ASSUME IInv, PutBack, stopped' \in BOOLEAN, consumer' \in {"receiving", "draining"}
  PROVE  IInv'
<1> USE DEF budget, channels, contexts, inputs
<1>1. /\ taken' \in Item /\ taken'.index = taken.index /\ taken'.bytes = 0
      /\ consumer \in {"deciding", "sending"} /\ tokens > 0 /\ tokens' = tokens - 1
  BY Changed DEF IInv, TypeOK, PutBack
<1>2. UNCHANGED <<ready, closed, producer, making, shared, cancelled, inputs>>
  BY DEF PutBack
<1>3. /\ used \in Nat /\ shared \in Nat /\ taken.bytes \in Nat /\ Load(ready) \in Nat
      /\ making.bytes \in Nat /\ used = shared + taken.bytes + Load(ready) + making.bytes
  BY Numbers DEF IInv, Account
<1>4. /\ waits' \in [Threads -> BOOLEAN] /\ used' = used - taken.bytes
      /\ used' \in Nat /\ used' <= used
      /\ \A t \in Threads : waits'[t] => waits[t] /\ used' = used
  <2>1. taken.bytes <= used
    BY <1>3
  <2> QED
    BY <1>3, <2>1, ReleaseWakes DEF IInv, TypeOK, PutBack
<1>5. TypeOK'
  <2>1. used' \in 0 .. Limit
    BY <1>3, <1>4, SizesAssumption DEF IInv, TypeOK
  <2>2. tokens' \in 0 .. Admission
    BY <1>1, CapacitiesAssumption DEF IInv, TypeOK
  <2> QED
    BY <1>1, <1>2, <1>4, <2>1, <2>2 DEF IInv, TypeOK
<1>6. Places'
  BY <1>1, <1>2, <1>4 DEF IInv, Places, Threads
<1>7. Sizing'
  BY <1>1, <1>2 DEF IInv, Sizing, Sized, Holding
<1>8. Account'
  <2>1. used' = shared' + taken'.bytes + Load(ready') + making'.bytes
    BY <1>1, <1>2, <1>3, <1>4
  <2>2. tokens' = (IF Holding' THEN 1 ELSE 0) + Len(ready') + (IF Making' THEN 1 ELSE 0)
    <3>1. PICK m \in {0, 1} : m = IF Making THEN 1 ELSE 0
      OBVIOUS
    <3>2. tokens \in Nat /\ Len(ready) \in Nat
      BY Numbers
    <3>3. tokens = 1 + Len(ready) + m
      BY <1>1, <3>1 DEF IInv, Account, Holding
    <3>4. Making' = Making /\ ~Holding'
      BY <1>1, <1>2 DEF Making, Holding
    <3>5. tokens' = 0 + Len(ready') + m
      BY <1>1, <1>2, <3>2, <3>3
    <3> QED
      BY <3>1, <3>4, <3>5
  <2> QED
    BY <2>1, <2>2 DEF Account
<1>9. InSequence'
  <2>1. PICK h \in 0 .. Total : Sequenced(h)
    BY DEF IInv, InSequence
  <2>2. Sequenced(h)'
    BY <1>1, <1>2, <2>1 DEF Sequenced, Making, Holding
  <2> QED
    BY <1>2, <2>2 DEF InSequence
<1>10. WaitsForBytes'
  <2>1. ~waits'["consumer"]
    BY <1>1, <1>4 DEF IInv, Places, Threads
  <2>2. Need("producer")' = Need("producer")
    BY <1>2 DEF Need
  <2> QED
    BY <1>4, <2>1, <2>2 DEF IInv, WaitsForBytes, Threads
<1> QED
  BY <1>5, <1>6, <1>7, <1>8, <1>9, <1>10 DEF IInv

LEMMA DrainInv ==
  ASSUME IInv, Drain
  PROVE  IInv'
<1> USE DEF budget, channels, contexts, inputs
<1>1. /\ consumer = "draining" /\ ready # <<>> /\ ready' = Tail(ready)
      /\ tokens > 0 /\ tokens' = tokens - 1
  BY DEF Drain
<1>2. UNCHANGED <<closed, producer, making, consumer, taken, shared, contexts, inputs>>
  BY DEF Drain
<1>3. /\ Head(ready) \in Item /\ ready' \in Seq(Item) /\ Len(ready') = Len(ready) - 1
      /\ Len(ready) \in Nat /\ Len(ready) > 0 /\ Len(ready') \in Nat /\ Len(ready') <= Ready
      /\ Load(ready) = Head(ready).bytes + Load(ready')
      /\ Head(ready).bytes \in Nat /\ Load(ready') \in Nat
  BY <1>1, <1>2, Rest
<1>4. \A i \in 1 .. Len(ready') : Sized(ready[i])'
  BY <1>1, <1>2, Rest
<1>5. PICK h \in 0 .. Total : Sequenced(h)
  BY DEF IInv, InSequence
<1>6. /\ Len(ready') <= h
      /\ \A i \in 1 .. Len(ready') : ready'[i].index = h - Len(ready') + i
  BY <1>1, <1>2, <1>5, Rest
<1>7. /\ used \in Nat /\ shared \in Nat /\ taken.bytes \in Nat /\ making.bytes \in Nat
      /\ used = shared + taken.bytes + Load(ready) + making.bytes
  BY Numbers DEF IInv, Account
<1>8. /\ waits' \in [Threads -> BOOLEAN] /\ used' = used - Head(ready).bytes
      /\ used' \in Nat /\ used' <= used
      /\ \A t \in Threads : waits'[t] => waits[t] /\ used' = used
  <2>1. Head(ready).bytes <= used
    BY <1>3, <1>7
  <2> QED
    BY <1>3, <1>7, <2>1, ReleaseWakes DEF IInv, TypeOK, Drain
<1>9. TypeOK'
  <2>1. used' \in 0 .. Limit
    BY <1>7, <1>8, SizesAssumption DEF IInv, TypeOK
  <2>2. tokens' \in 0 .. Admission
    BY <1>1, CapacitiesAssumption DEF IInv, TypeOK
  <2> QED
    BY <1>2, <1>3, <1>8, <2>1, <2>2 DEF IInv, TypeOK
<1>10. Places'
  BY <1>1, <1>2, <1>8 DEF IInv, Places, Threads
<1>11. Sizing'
  <2>1. Sized(making)'
    BY <1>2 DEF IInv, Sizing, Sized
  <2> QED
    BY <1>1, <1>2, <1>4, <2>1 DEF IInv, Sizing, Holding
<1>12. Account'
  <2>1. used' = shared' + taken'.bytes + Load(ready') + making'.bytes
    <3>1. shared' = shared /\ taken' = taken /\ making' = making
      BY <1>2
    <3>2. used' = used - Head(ready).bytes
      BY <1>8
    <3>3. PICK b, l \in Nat : b = Head(ready).bytes /\ l = Load(ready')
      BY <1>3
    <3>4. used = shared + taken.bytes + (b + l) + making.bytes
      BY <1>3, <1>7, <3>3
    <3>5. used' = shared + taken.bytes + l + making.bytes
      BY <1>7, <3>2, <3>3, <3>4
    <3> QED
      BY <3>1, <3>3, <3>5
  <2>2. tokens' = (IF Holding' THEN 1 ELSE 0) + Len(ready') + (IF Making' THEN 1 ELSE 0)
    <3>1. PICK m \in {0, 1} : m = IF Making THEN 1 ELSE 0
      OBVIOUS
    <3>2. tokens \in Nat /\ Len(ready) \in Nat
      BY Numbers
    <3>3. tokens = 0 + Len(ready) + m
      BY <1>1, <3>1 DEF IInv, Account, Holding
    <3>4. Making' = Making /\ ~Holding'
      BY <1>1, <1>2 DEF Making, Holding
    <3>5. tokens' = 0 + Len(ready') + m
      BY <1>1, <1>3, <3>2, <3>3
    <3> QED
      BY <3>1, <3>4, <3>5
  <2> QED
    BY <2>1, <2>2 DEF Account
<1>13. InSequence'
  <2>1. Sequenced(h)'
    BY <1>1, <1>2, <1>5, <1>6 DEF Sequenced, Making, Holding
  <2> QED
    BY <2>1 DEF InSequence
<1>14. WaitsForBytes'
  <2>1. \A t \in Threads : Need(t)' = Need(t)
    BY <1>2 DEF Need
  <2> QED
    BY <1>8, <2>1 DEF IInv, WaitsForBytes
<1> QED
  BY <1>9, <1>10, <1>11, <1>12, <1>13, <1>14 DEF IInv

LEMMA FinishInv ==
  ASSUME IInv, Finish
  PROVE  IInv'
<1> USE DEF budget, channels, contexts, inputs
<1>1. /\ consumer \in {"receiving", "draining"} /\ consumer' = "done" /\ ready = <<>> /\ closed
      /\ shared' = 0 /\ stopped'
  BY DEF Finish
<1>2. UNCHANGED <<channels, producer, making, taken, cancelled, inputs>>
  BY DEF Finish
<1>3. /\ used \in Nat /\ shared \in Nat /\ taken.bytes \in Nat /\ Load(ready) \in Nat
      /\ making.bytes \in Nat /\ used = shared + taken.bytes + Load(ready) + making.bytes
  BY Numbers DEF IInv, Account
<1>4. /\ waits' \in [Threads -> BOOLEAN] /\ used' = used - shared
      /\ used' \in Nat /\ used' <= used
      /\ \A t \in Threads : waits'[t] => waits[t] /\ used' = used
  <2>1. shared <= used
    BY <1>3
  <2> QED
    BY <1>3, <2>1, ReleaseWakes DEF IInv, TypeOK, Finish
<1>5. TypeOK'
  <2>1. used' \in 0 .. Limit
    BY <1>3, <1>4, SizesAssumption DEF IInv, TypeOK
  <2>2. stopped' \in BOOLEAN
    BY DEF Finish
  <2> QED
    BY <1>1, <1>2, <1>4, <2>1, <2>2 DEF IInv, TypeOK
<1>6. Places'
  BY <1>1, <1>2, <1>4 DEF IInv, Places, Threads
<1>7. Sizing'
  BY <1>1, <1>2 DEF IInv, Sizing, Sized, Holding
<1>8. Account'
  <2>1. used' = shared' + taken'.bytes + Load(ready') + making'.bytes
    BY <1>1, <1>2, <1>3, <1>4
  <2>2. Holding' = Holding /\ Making' = Making
    BY <1>1, <1>2 DEF Holding, Making
  <2> QED
    BY <1>2, <2>1, <2>2 DEF IInv, Account
<1>9. InSequence'
  <2>1. PICK h \in 0 .. Total : Sequenced(h)
    BY DEF IInv, InSequence
  <2>2. Sequenced(h)'
    BY <1>1, <1>2, <2>1 DEF Sequenced, Making, Holding
  <2> QED
    BY <1>2, <2>2 DEF InSequence
<1>10. WaitsForBytes'
  <2>1. \A t \in Threads : ~waits[t]
    BY <1>1 DEF IInv, Places, Threads
  <2> QED
    BY <1>4, <2>1 DEF WaitsForBytes
<1> QED
  BY <1>5, <1>6, <1>7, <1>8, <1>9, <1>10 DEF IInv

\* A cancelled task, and an entry that comes on the suppression list or leaves it,
\* change nothing the invariant is about.
LEMMA OutsideInv ==
  ASSUME IInv, cancelled' \in BOOLEAN, suppressed' \subseteq Entries,
         UNCHANGED <<budget, channels, producer, making, consumer, taken, shared, stopped,
                     converted, docs>>
  PROVE  IInv'
<1> USE DEF budget, channels
<1>1. TypeOK'
  BY DEF IInv, TypeOK
<1>2. Places'
  BY DEF IInv, Places
<1>3. Sizing'
  BY DEF IInv, Sizing, Sized, Holding
<1>4. Account'
  BY DEF IInv, Account, Holding, Making
<1>5. InSequence'
  BY DEF IInv, InSequence, Sequenced, Holding, Making
<1>6. WaitsForBytes'
  BY DEF IInv, WaitsForBytes, Need
<1> QED
  BY <1>1, <1>2, <1>3, <1>4, <1>5, <1>6 DEF IInv

LEMMA InitInv ==
  ASSUME Init
  PROVE  IInv
<1>1. making = NewItem(0) /\ taken = NewItem(0) /\ NewItem(0) \in Item
  BY SizesAssumption DEF Init, NewItem, Item
<1>2. TypeOK
  <2>1. used \in 0 .. Limit /\ tokens \in 0 .. Admission
    BY SizesAssumption, CapacitiesAssumption DEF Init
  <2>2. ready \in Seq(Item) /\ Len(ready) <= Ready
    BY CapacitiesAssumption DEF Init
  <2>3. waits \in [Threads -> BOOLEAN]
    BY DEF Init
  <2>4. making \in Item /\ taken \in Item
    BY <1>1
  <2> QED
    BY <2>1, <2>2, <2>3, <2>4 DEF Init, TypeOK
<1>3. Places
  BY <1>1 DEF Init, Places, Threads, NewItem
<1>4. Sizing
  BY <1>1 DEF Init, Sizing, Sized, Holding, NewItem
<1>5. Account
  BY <1>1, LoadEmpty DEF Init, Account, Holding, Making, NewItem
<1>6. InSequence
  <2>1. Sequenced(0)
    <3>1. ready = <<>> /\ Len(ready) = 0 /\ making.index = 0 /\ taken.index = 0
      BY <1>1 DEF Init, NewItem
    <3>2. producer = "idle" /\ consumer = "static"
      BY DEF Init
    <3>3. \A i \in 1 .. Len(ready) : ready[i].index = 0 - Len(ready) + i
      BY <3>1
    <3>4. making.index = 0 /\ taken.index = 0 - Len(ready) /\ Len(ready) <= 0
      <4>1. PICK n : n = Len(ready)
        OBVIOUS
      <4>2. n = 0 /\ taken.index = 0 /\ making.index = 0
        BY <3>1, <4>1
      <4>3. taken.index = 0 - n /\ n <= 0
        BY ONLY <4>2
      <4> QED
        BY ONLY <4>1, <4>2, <4>3
    <3> QED
      BY <3>2, <3>3, <3>4 DEF Sequenced, Holding, Making
  <2> QED
    BY <2>1, SizesAssumption DEF InSequence
<1>7. WaitsForBytes
  BY DEF Init, WaitsForBytes
<1> QED
  BY <1>2, <1>3, <1>4, <1>5, <1>6, <1>7 DEF IInv

LEMMA NextInv ==
  ASSUME IInv, [Next]_vars
  PROVE  IInv'
<1>1. CASE Produce
  BY <1>1, AdmitInv, CloseInv, InspectInv, PrepareInv, PrepareFailsInv, HandOverInv, WithdrawInv
  DEF Produce
<1>2. CASE StartPipeline
  BY <1>2, PrepareSharedInv, SharedFailsInv DEF StartPipeline
<1>3. CASE Continue
  <2>1. stopped' \in BOOLEAN /\ consumer' \in {"receiving", "draining"} /\ PutBack
    BY <1>3 DEF IInv, TypeOK, Continue
  <2> QED
    BY <2>1, PutBackInv
<1>4. CASE StopEarly
  BY <1>4, PutBackInv DEF StopEarly
<1>5. CASE Receive \/ Decide \/ PrepareInline \/ Drain \/ Finish
  BY <1>5, ReceiveInv, DecideInv, PrepareInlineInv, DrainInv, FinishInv
<1>6. CASE Cancel
  BY <1>6, OutsideInv DEF Cancel, IInv, TypeOK, inputs
<1>7. CASE \E e \in Entries : ChangeSuppression(e)
  BY <1>7, OutsideInv DEF ChangeSuppression, contexts, IInv, TypeOK
<1>8. CASE UNCHANGED vars
  BY <1>8, OutsideInv DEF vars, contexts, inputs, IInv, TypeOK
<1> QED
  BY <1>1, <1>2, <1>3, <1>4, <1>5, <1>6, <1>7, <1>8 DEF Next, Consume

LEMMA Invariance == Spec => []IInv
<1>1. Init => IInv
  BY InitInv
<1>2. IInv /\ [Next]_vars => IInv'
  BY NextInv
<1> QED
  BY <1>1, <1>2, PTL DEF Spec

-----------------------------------------------------------------------------
(* The items in flight *)

\* The item taken, if there is one, is before those in the channel.
LEMMA Before ==
  ASSUME NEW q \in Seq(Item), NEW x \in Item
  PROVE  /\ <<x>> \o q \in Seq(Item) /\ Len(<<x>> \o q) = 1 + Len(q)
         /\ (<<x>> \o q)[1] = x
         /\ \A i \in 1 .. Len(q) : (<<x>> \o q)[i + 1] = q[i]
         /\ Load(<<x>> \o q) = x.bytes + Load(q)
<1>1. PICK r : r = <<x>> \o q
  OBVIOUS
<1>2. r \in Seq(Item) /\ Len(r) = 1 + Len(q) /\ Len(q) \in Nat /\ r[1] = x
  BY <1>1
<1>3. \A i \in 1 .. Len(q) : r[i + 1] = q[i]
  BY <1>1
<1>4. Head(r) = x /\ r # <<>>
  BY <1>2
<1>5. Tail(r) = q
  <2>1. Tail(r) \in Seq(Item) /\ Len(Tail(r)) = Len(q)
    BY <1>2
  <2>2. \A i \in 1 .. Len(q) : Tail(r)[i] = q[i]
    BY <1>2, <1>3
  <2> QED
    BY <2>1, <2>2
<1>6. Load(r) = x.bytes + Load(q)
  BY <1>2, <1>4, <1>5, LoadTail
<1> QED
  BY <1>1, <1>2, <1>3, <1>6

LEMMA Flight ==
  ASSUME IInv
  PROVE  /\ InFlight \in Seq(Item) /\ Len(InFlight) = tokens
         /\ Load(InFlight) = taken.bytes + Load(ready) + making.bytes
         /\ \A i \in 1 .. Len(InFlight) : InFlight[i].bytes = 0 \/ InFlight[i].bytes = docs[InFlight[i].index]
         /\ \E base \in Nat : \A i \in 1 .. Len(InFlight) : InFlight[i].index = base + i
         /\ Holding => Len(InFlight) > 0 /\ InFlight[1] = taken
         /\ Making => Len(InFlight) > 0 /\ InFlight[Len(InFlight)] = making
<1> DEFINE first == IF Holding THEN <<taken>> ELSE <<>>
           last == IF Making THEN <<making>> ELSE <<>>
<1>1. ready \in Seq(Item) /\ making \in Item /\ taken \in Item
  BY DEF IInv, TypeOK
<1>2. InFlight = first \o ready \o last
  BY DEF InFlight, Holding, Making
<1>3. /\ taken.bytes \in Nat /\ making.bytes \in Nat /\ Load(ready) \in Nat /\ Len(ready) \in Nat
      /\ taken.index \in Nat /\ making.index \in Nat
  BY Numbers
<1>4. PICK k \in {0, 1} : (Holding => k = 1) /\ (~Holding => k = 0)
  OBVIOUS
<1>5. PICK mid : mid = first \o ready
  OBVIOUS
<1>6. /\ mid \in Seq(Item) /\ Len(mid) = k + Len(ready) /\ Load(mid) = taken.bytes + Load(ready)
      /\ \A i \in 1 .. Len(ready) : mid[i + k] = ready[i]
      /\ Holding => mid[1] = taken
  <2>1. CASE Holding
    <3>1. mid = <<taken>> \o ready /\ k = 1
      BY <1>4, <1>5, <2>1
    <3> QED
      BY <1>1, <3>1, Before
  <2>2. CASE ~Holding
    <3>1. mid = <<>> \o ready /\ k = 0
      BY <1>4, <1>5, <2>2
    <3>2. mid = ready
      BY <1>1, <3>1
    <3>3. taken.bytes = 0
      BY <2>2 DEF IInv, Sizing
    <3> QED
      BY <1>1, <1>3, <2>2, <3>1, <3>2, <3>3
  <2> QED
    BY <2>1, <2>2
<1>7. PICK m \in {0, 1} : (Making => m = 1) /\ (~Making => m = 0)
  OBVIOUS
<1> HIDE DEF first
<1>8. /\ InFlight \in Seq(Item) /\ Len(InFlight) = k + Len(ready) + m
      /\ Load(InFlight) = taken.bytes + Load(ready) + making.bytes
      /\ \A i \in 1 .. k + Len(ready) : InFlight[i] = mid[i]
      /\ Making => InFlight[k + Len(ready) + 1] = making
  <2>1. CASE Making
    <3>1. InFlight = Append(mid, making) /\ m = 1
      BY <1>1, <1>2, <1>5, <1>6, <1>7, <2>1
    <3>2. Load(Append(mid, making)) = Load(mid) + making.bytes
      BY <1>1, <1>6, LoadAppend
    <3>3. /\ Append(mid, making) \in Seq(Item) /\ Len(Append(mid, making)) = Len(mid) + 1
          /\ \A i \in 1 .. Len(mid) : Append(mid, making)[i] = mid[i]
          /\ Append(mid, making)[Len(mid) + 1] = making
      BY <1>1, <1>6
    <3> QED
      BY <1>6, <3>1, <3>2, <3>3
  <2>2. CASE ~Making
    <3>1. InFlight = mid \o <<>> /\ m = 0
      BY <1>2, <1>5, <1>7, <2>2
    <3>2. InFlight = mid
      BY <1>6, <3>1
    <3>3. making.bytes = 0
      BY <2>2 DEF IInv, Sizing, Making
    <3>4. Len(ready) \in Nat /\ k \in Nat /\ taken.bytes \in Nat /\ Load(ready) \in Nat
      BY <1>3
    <3>5. Load(InFlight) = taken.bytes + Load(ready) + making.bytes
      BY <1>6, <3>2, <3>3, <3>4
    <3>6. Len(InFlight) = k + Len(ready) + m
      BY <1>6, <3>1, <3>2, <3>4
    <3> QED
      BY <1>6, <2>2, <3>2, <3>5, <3>6
  <2> QED
    BY <2>1, <2>2
<1> HIDE DEF last
<1>9. Len(InFlight) = tokens
  <2>1. tokens = k + Len(ready) + m
    BY <1>3, <1>4, <1>7 DEF IInv, Account
  <2> QED
    BY <1>8, <2>1
<1>10. \A i \in 1 .. Len(InFlight) :
         \/ Holding /\ i = 1 /\ k = 1 /\ InFlight[i] = taken
         \/ i - k \in 1 .. Len(ready) /\ InFlight[i] = ready[i - k]
         \/ Making /\ i = k + Len(ready) + 1 /\ InFlight[i] = making
  <2> SUFFICES ASSUME NEW i \in 1 .. Len(InFlight)
               PROVE  \/ Holding /\ i = 1 /\ k = 1 /\ InFlight[i] = taken
                      \/ i - k \in 1 .. Len(ready) /\ InFlight[i] = ready[i - k]
                      \/ Making /\ i = k + Len(ready) + 1 /\ InFlight[i] = making
    OBVIOUS
  <2>1. i \in Nat /\ i >= 1 /\ i <= k + Len(ready) + m
    BY <1>3, <1>8
  <2>2. CASE i <= k
    <3>1. Holding /\ i = 1 /\ k = 1
      BY <1>4, <2>1, <2>2
    <3>2. InFlight[1] = mid[1]
      BY <1>3, <1>8, <3>1
    <3> QED
      BY <1>6, <3>1, <3>2
  <2>3. CASE i > k /\ i <= k + Len(ready)
    <3>1. i - k \in 1 .. Len(ready) /\ (i - k) + k = i
      BY <1>3, <2>1, <2>3
    <3>2. InFlight[i] = mid[i]
      BY <1>3, <1>8, <2>1, <2>3
    <3>3. mid[(i - k) + k] = ready[i - k]
      BY <1>6, <3>1
    <3> QED
      BY <3>1, <3>2, <3>3
  <2>4. CASE i > k + Len(ready)
    <3>1. m = 1 /\ i = k + Len(ready) + 1
      BY <1>3, <2>1, <2>4
    <3> QED
      BY <1>7, <1>8, <3>1
  <2> QED
    BY <1>3, <2>1, <2>2, <2>3, <2>4
<1>11. ASSUME NEW i \in 1 .. Len(InFlight)
       PROVE  InFlight[i].bytes = 0 \/ InFlight[i].bytes = docs[InFlight[i].index]
  <2>1. taken.bytes = 0 \/ taken.bytes = docs[taken.index]
    BY DEF IInv, Sizing
  <2>2. making.bytes = 0 \/ making.bytes = docs[making.index]
    BY DEF IInv, Sizing, Sized
  <2>3. \A j \in 1 .. Len(ready) : ready[j].bytes = 0 \/ ready[j].bytes = docs[ready[j].index]
    BY DEF IInv, Sizing, Sized
  <2> QED
    BY <1>10, <2>1, <2>2, <2>3
<1>12. \E base \in Nat : \A i \in 1 .. Len(InFlight) : InFlight[i].index = base + i
  <2>1. PICK h \in 0 .. Total : Sequenced(h)
    BY DEF IInv, InSequence
  <2>2. h \in Nat /\ Len(ready) <= h
    BY <2>1, SizesAssumption DEF Sequenced
  <2>3. Holding => taken.index = h - Len(ready) /\ taken.index > 0
    BY <2>1 DEF Sequenced, Holding
  <2>4. \A j \in 1 .. Len(ready) : ready[j].index = h - Len(ready) + j
    BY <2>1 DEF Sequenced
  <2>5. Making => making.index = h + 1
    BY <2>1 DEF Sequenced
  <2>6. h - Len(ready) - k \in Nat
    BY <1>3, <1>4, <2>2, <2>3
  <2>7. ASSUME NEW i \in 1 .. Len(InFlight) PROVE InFlight[i].index = (h - Len(ready) - k) + i
    <3>1. i \in Nat
      BY <1>3, <1>8
    <3>2. CASE Holding /\ i = 1 /\ k = 1 /\ InFlight[i] = taken
      <4>1. InFlight[i].index = h - Len(ready)
        BY <2>3, <3>2
      <4> QED
        BY <1>3, <2>2, <3>2, <4>1
    <3>3. CASE i - k \in 1 .. Len(ready) /\ InFlight[i] = ready[i - k]
      <4>1. InFlight[i].index = h - Len(ready) + (i - k)
        BY <2>4, <3>3
      <4> QED
        BY <1>3, <2>2, <3>1, <4>1
    <3>4. CASE Making /\ i = k + Len(ready) + 1 /\ InFlight[i] = making
      <4>1. InFlight[i].index = h + 1
        BY <2>5, <3>4
      <4>2. h + 1 = (h - Len(ready) - k) + i
        BY <1>3, <2>2, <3>4
      <4> QED
        BY <4>1, <4>2
    <3> QED
      BY <1>10, <3>2, <3>3, <3>4
  <2>8. PICK base \in Nat : base = h - Len(ready) - k
    BY <2>6
  <2> QED
    BY <2>7, <2>8
<1>13. Holding => Len(InFlight) > 0 /\ InFlight[1] = taken
  BY <1>3, <1>4, <1>6, <1>8
<1>14. Making => Len(InFlight) > 0 /\ InFlight[Len(InFlight)] = making
  <2>1. k + Len(ready) + 1 > 0
    BY <1>3
  <2> QED
    BY <1>7, <1>8, <2>1
<1> QED
  BY <1>8, <1>9, <1>11, <1>12, <1>13, <1>14

\* Before the pipeline is started nothing is in flight.
LEMMA NothingYet ==
  ASSUME IInv, consumer \in {"static", "converted"}
  PROVE  InFlight = <<>>
<1>1. PICK h \in 0 .. Total : Sequenced(h)
  BY DEF IInv, InSequence
<1>2. producer = "idle" /\ making.index = 0 /\ making.index = h
  BY <1>1 DEF IInv, Places, Sequenced
<1>3. Len(ready) <= 0 /\ ready \in Seq(Item)
  BY <1>1, <1>2 DEF IInv, TypeOK, Sequenced
<1>4. ready = <<>>
  BY <1>3
<1>5. InFlight = <<>> \o <<>> \o <<>>
  BY <1>2, <1>4 DEF InFlight
<1> QED
  BY <1>5

\* Somebody who waits for documents, and holds none, waits in vain only if what is
\* admitted does not fit.
LEMMA RoomForOneMore ==
  ASSUME IInv, Fits, NEW w \in 1 .. Len(InFlight), InFlight[w].bytes = 0,
         shared <= Static + converted
  PROVE  used + docs[InFlight[w].index] <= Limit
<1> DEFINE N == Len(InFlight)
<1>1. /\ InFlight \in Seq(Item) /\ N = tokens
      /\ Load(InFlight) = taken.bytes + Load(ready) + making.bytes
      /\ \A i \in 1 .. N : InFlight[i].bytes = 0 \/ InFlight[i].bytes = docs[InFlight[i].index]
  BY Flight
<1>2. PICK base \in Nat : \A i \in 1 .. N : InFlight[i].index = base + i
  BY Flight
<1>3. N \in Nat /\ N <= Admission /\ Admission \in Nat
  BY <1>1, CapacitiesAssumption DEF IInv, TypeOK
<1>4. \A i \in 1 .. N : InFlight[i] \in Item
  BY <1>1
<1>5. \A i \in 1 .. N : base + i \in Entries
  <2> TAKE i \in 1 .. N
  <2>1. InFlight[i].index \in 0 .. Total /\ InFlight[i].index = base + i
    BY <1>2, <1>4 DEF Item
  <2> QED
    BY <1>3, <2>1, SizesAssumption DEF Entries
<1>6. docs \in [Entries -> Nat]
  BY Numbers
<1>7. PICK f : f = [i \in DOMAIN InFlight |-> InFlight[i].bytes]
  OBVIOUS
<1>8. PICK g : g = [i \in 1 .. N |-> IF i = w THEN docs[base + w] ELSE f[i]]
  OBVIOUS
<1>9. PICK rest : rest = [i \in (1 .. N) \ {w} |-> f[i]]
  OBVIOUS
<1>10. PICK admitted : admitted = base + 1 .. base + N
  OBVIOUS
<1>11. PICK all : all = [e \in admitted |-> docs[e]]
  OBVIOUS
<1>12. /\ f \in [1 .. N -> Nat] /\ IsFiniteSet(1 .. N) /\ Load(InFlight) = Bytes(f)
  BY <1>1, <1>7, LoadTyped DEF Load
<1>13. docs[base + w] \in Nat
  BY <1>5, <1>6
<1>14. g \in [1 .. N -> Nat] /\ g[w] = docs[base + w] /\ f[w] = 0
  BY <1>1, <1>7, <1>8, <1>12, <1>13
<1>15. rest \in [(1 .. N) \ {w} -> Nat] /\ IsFiniteSet((1 .. N) \ {w})
  BY <1>9, <1>12, FS_Subset
<1> HIDE DEF N
<1>16. Bytes(f) = Bytes(rest) + 0 /\ Bytes(g) = Bytes(rest) + docs[base + w] /\ Bytes(rest) \in Nat
  <2>1. PICK D : D = (1 .. N) \ {w}
    OBVIOUS
  <2>2. 1 .. N = D \cup {w}
    BY <2>1 DEF N
  <2>3. w \notin D /\ IsFiniteSet(D) /\ rest \in [D -> Nat]
    BY <1>15, <2>1
  <2>4. f \in [D \cup {w} -> Nat] /\ \A i \in D : rest[i] = f[i]
    BY <1>9, <1>12, <2>1, <2>2
  <2>5. g \in [D \cup {w} -> Nat] /\ \A i \in D : rest[i] = g[i]
    BY <1>8, <1>9, <1>14, <2>1, <2>2
  <2>6. Bytes(f) = Bytes(rest) + f[w]
    BY <2>3, <2>4, BytesMore
  <2>7. Bytes(g) = Bytes(rest) + g[w]
    BY <2>3, <2>5, BytesMore
  <2>8. Bytes(rest) \in Nat
    BY <2>3, PairsOf
  <2> QED
    BY <1>14, <2>6, <2>7, <2>8
<1>17. admitted \in SUBSET Entries /\ IsFiniteSet(admitted) /\ Cardinality(admitted) <= Admission
  <2>1. PICK lo, hi : lo = base + 1 /\ hi = base + N
    OBVIOUS
  <2>2. /\ IsFiniteSet(lo .. hi)
        /\ Cardinality(lo .. hi) = IF lo > hi THEN 0 ELSE hi - lo + 1
    <3>1. lo \in Int /\ hi \in Int
      BY <1>3, <2>1
    <3> QED
      BY <3>1, FS_Interval
  <2>3. IsFiniteSet(admitted) /\ Cardinality(admitted) <= Admission
    BY <1>3, <1>10, <2>1, <2>2
  <2>4. ASSUME NEW e \in admitted PROVE e \in Entries
    <3>1. e - base \in 1 .. N /\ base + (e - base) = e
      BY <1>3, <1>10
    <3> QED
      BY <1>5, <3>1 DEF N
  <2> QED
    BY <2>3, <2>4
<1>18. all \in [admitted -> Nat]
  BY <1>6, <1>11, <1>17
<1>19. Bytes(g) <= Bytes(all)
  <2>1. PICK D, at : D = 1 .. N /\ at = [i \in D |-> base + i]
    OBVIOUS
  <2>2. /\ IsFiniteSet(D) /\ g \in [D -> Nat] /\ at \in [D -> admitted]
    BY <1>3, <1>10, <1>12, <1>14, <2>1 DEF N
  <2>3. \A i, j \in D : at[i] = at[j] => i = j
    BY <2>1
  <2>4. ASSUME NEW i \in D PROVE g[i] <= all[at[i]]
    <3>1. at[i] = base + i /\ all[at[i]] = docs[base + i] /\ docs[base + i] \in Nat
      BY <1>11, <1>18, <2>1, <2>2
    <3>2. CASE i = w
      BY <1>14, <3>1, <3>2
    <3>3. CASE i # w
      <4>1. g[i] = InFlight[i].bytes
        BY <1>1, <1>7, <1>8, <2>1, <3>3 DEF N
      <4>2. InFlight[i].bytes = 0 \/ InFlight[i].bytes = docs[base + i]
        BY <1>1, <1>2, <2>1 DEF N
      <4> QED
        BY <3>1, <4>1, <4>2
    <3> QED
      BY <3>2, <3>3
  <2> QED
    BY <1>17, <1>18, <2>2, <2>3, <2>4, BytesWithin
<1>20. Static + converted + Bytes(all) <= Limit
  BY <1>11, <1>17 DEF Fits
<1>21. Bytes(all) \in Nat
  BY <1>17, <1>18, PairsOf
<1>22. used = shared + Bytes(f)
  <2>1. used = shared + taken.bytes + Load(ready) + making.bytes
    BY DEF IInv, Account
  <2>2. /\ shared \in Nat /\ taken.bytes \in Nat /\ Load(ready) \in Nat /\ making.bytes \in Nat
    BY Numbers
  <2> QED
    BY <1>1, <1>12, <2>1, <2>2
<1>23. InFlight[w].index = base + w
  BY <1>2 DEF N
<1>24. shared \in Nat /\ Static \in Nat /\ converted \in Nat /\ Limit \in Nat
  BY Numbers
<1>25. used + docs[base + w] = shared + Bytes(g)
  BY <1>13, <1>16, <1>22, <1>24
<1> QED
  <2>1. PICK b \in Nat : b = Bytes(g)
    BY <1>13, <1>16
  <2> QED
    BY <1>19, <1>20, <1>21, <1>23, <1>24, <1>25, <2>1

-----------------------------------------------------------------------------
(* What holds of every behaviour *)

\* The budget, the channels and the two goroutines of executeSend stay within
\* their types: used never leaves 0 .. Limit, and no channel its capacity.
THEOREM PipelineTypeCorrect == Spec => []TypeOK
<1>1. IInv => TypeOK
  BY DEF IInv
<1> QED
  BY <1>1, Invariance, PTL

\* Nobody sleeps in acquire while the bytes it waits for are free: a release
\* between the check and the wait is not missed.
THEOREM SleepersWaitForBytes == Spec => []WaitsForBytes
<1>1. IInv => WaitsForBytes
  BY DEF IInv
<1> QED
  BY <1>1, Invariance, PTL

\* Every reserved byte and every token belongs to an item in flight or to the
\* shared attachments, so that release never finds less than it returns.
THEOREM NothingLeaks == Spec => []Balanced
<1>1. IInv => Balanced
  <2> SUFFICES ASSUME IInv PROVE Balanced
    OBVIOUS
  <2>1. tokens = Len(InFlight) /\ Load(InFlight) = taken.bytes + Load(ready) + making.bytes
    BY Flight
  <2>2. used = shared + taken.bytes + Load(ready) + making.bytes
    BY DEF IInv, Account
  <2>3. /\ shared \in Nat /\ taken.bytes \in Nat /\ Load(ready) \in Nat /\ making.bytes \in Nat
    BY Numbers
  <2>4. used = shared + Load(InFlight)
    BY <2>1, <2>2, <2>3
  <2> QED
    BY <2>1, <2>4 DEF Balanced, Load
<1> QED
  BY <1>1, Invariance, PTL

\* The items reach the consumer in the order of the snapshot, none twice and none
\* left out.
THEOREM ItemsComeInOrder == Spec => []InOrder
<1>1. IInv => InOrder
  <2> SUFFICES ASSUME IInv, consumer \notin {"draining", "done"}, NEW i \in DOMAIN InFlight
               PROVE  InFlight[i].index =
                        i + IF consumer = "receiving" THEN taken.index ELSE taken.index - 1
    BY DEF InOrder
  <2>1. InFlight \in Seq(Item) /\ i \in 1 .. Len(InFlight) /\ Len(InFlight) \in Nat
    BY Flight
  <2>2. PICK base \in Nat : \A j \in 1 .. Len(InFlight) : InFlight[j].index = base + j
    BY Flight
  <2>3. consumer \notin {"static", "converted"}
    BY <2>1, NothingYet
  <2>4. CASE Holding
    <3>1. InFlight[1].index = base + 1 /\ InFlight[1] = taken
      BY <2>1, <2>2, <2>4, Flight
    <3>2. base = taken.index - 1
      BY <3>1
    <3>3. consumer # "receiving"
      BY <2>4 DEF Holding
    <3> QED
      BY <2>1, <2>2, <3>2, <3>3
  <2>5. CASE ~Holding
    <3>1. consumer = "receiving"
      BY <2>3, <2>5 DEF IInv, TypeOK, Holding
    <3>2. InFlight[i].index = i + taken.index
      <4>1. PICK h \in 0 .. Total : Sequenced(h)
        BY DEF IInv, InSequence
      <4>2. taken.index = h - Len(ready) /\ h \in Nat /\ Len(ready) \in Nat
        BY <3>1, <4>1, SizesAssumption DEF Sequenced, IInv, TypeOK
      <4>3. PICK last : last = IF Making THEN <<making>> ELSE <<>>
        OBVIOUS
      <4>4. InFlight = <<>> \o ready \o last
        BY <3>1, <4>3 DEF InFlight, Making
      <4>5. ready \in Seq(Item) /\ last \in Seq(Item)
        BY <4>3 DEF IInv, TypeOK
      <4>6. InFlight = ready \o last
        BY <4>4, <4>5
      <4>7. CASE i <= Len(ready)
        <5>1. InFlight[i] = ready[i] /\ i \in 1 .. Len(ready)
          BY <2>1, <4>2, <4>5, <4>6, <4>7
        <5>2. ready[i].index = h - Len(ready) + i
          BY <4>1, <5>1 DEF Sequenced
        <5> QED
          BY <2>1, <4>2, <5>1, <5>2
      <4>8. CASE i > Len(ready)
        <5>1. Making /\ i = Len(ready) + 1 /\ InFlight[i] = making
          BY <2>1, <4>2, <4>3, <4>5, <4>6, <4>8
        <5>2. making.index = h + 1
          BY <4>1, <5>1 DEF Sequenced
        <5> QED
          BY <2>1, <4>2, <5>1, <5>2
      <4> QED
        BY <2>1, <4>2, <4>7, <4>8
    <3> QED
      BY <3>1, <3>2
  <2> QED
    BY <2>4, <2>5
<1> QED
  BY <1>1, Invariance, PTL

\* If the shared attachments and the documents of as many entries as are admitted
\* fit into the budget, nobody ever has to wait for it.
THEOREM NobodyHasToWait == Spec => []NeverWaits
<1>1. IInv => NeverWaits
  <2> SUFFICES ASSUME IInv, Fits, NEW t \in Threads, waits[t] PROVE FALSE
    BY DEF NeverWaits
  <2>1. used + Need(t) > Limit
    BY DEF IInv, WaitsForBytes
  <2>2. /\ used \in Nat /\ shared \in Nat /\ Static \in Nat /\ converted \in Nat /\ Limit \in Nat
    BY Numbers
  <2>3. shared <= Static + converted
    BY <2>2 DEF IInv, TypeOK
  <2>4. CASE t = "producer"
    <3>1. producer = "preparing" /\ Making
      BY <2>4 DEF IInv, Places, Making
    <3>2. /\ making.bytes = 0 /\ docs[making.index] \in Nat
          /\ Len(InFlight) > 0 /\ InFlight[Len(InFlight)] = making /\ InFlight \in Seq(Item)
      BY <3>1, Flight, Numbers DEF IInv, Sizing
    <3>3. PICK w \in 1 .. Len(InFlight) : InFlight[w] = making
      BY <3>2
    <3>4. used + docs[making.index] <= Limit
      BY <2>3, <3>2, <3>3, RoomForOneMore
    <3>5. Need(t) = docs[making.index]
      BY <2>4 DEF Need
    <3> QED
      BY <2>1, <2>2, <3>2, <3>4, <3>5
  <2>5. CASE t = "consumer" /\ consumer = "inline"
    <3>1. Holding
      BY <2>5 DEF Holding
    <3>2. /\ taken.bytes = 0 /\ docs[taken.index] \in Nat
          /\ Len(InFlight) > 0 /\ InFlight[1] = taken /\ InFlight \in Seq(Item)
      BY <2>5, <3>1, Flight, Numbers DEF IInv, Sizing
    <3>3. PICK w \in 1 .. Len(InFlight) : InFlight[w] = taken
      BY <3>2
    <3>4. used + docs[taken.index] <= Limit
      BY <2>3, <3>2, <3>3, RoomForOneMore
    <3>5. Need(t) = docs[taken.index]
      BY <2>5 DEF Need
    <3> QED
      BY <2>1, <2>2, <3>2, <3>4, <3>5
  <2>6. CASE t = "consumer" /\ consumer = "converted"
    <3>1. Load(InFlight) = taken.bytes + Load(ready) + making.bytes /\ InFlight = <<>>
      BY <2>6, Flight, NothingYet
    <3>2. taken.bytes + Load(ready) + making.bytes = 0
      BY <3>1, LoadEmpty
    <3>3. used = Static
      <4>1. used = shared + taken.bytes + Load(ready) + making.bytes /\ shared = Static
        BY <2>6 DEF IInv, Account, Places
      <4>2. taken.bytes \in Nat /\ Load(ready) \in Nat /\ making.bytes \in Nat
        BY Numbers
      <4> QED
        BY <2>2, <3>2, <4>1, <4>2
    <3>4. PICK none : none = [e \in {} |-> docs[e]]
      OBVIOUS
    <3>5. Bytes(none) = 0
      <4>1. none \in [{} -> Nat]
        BY <3>4
      <4> QED
        BY <4>1, BytesNone
    <3>6. Static + converted + Bytes(none) <= Limit
      <4>1. {} \in SUBSET Entries /\ Cardinality({}) <= Admission
        BY FS_EmptySet, CapacitiesAssumption
      <4> QED
        BY <3>4, <4>1 DEF Fits
    <3>7. Need(t) = converted
      BY <2>6 DEF Need
    <3> QED
      BY <2>1, <2>2, <3>3, <3>5, <3>6, <3>7
  <2> QED
    BY <2>4, <2>5, <2>6 DEF IInv, Places, Threads
<1> QED
  BY <1>1, Invariance, PTL

\* Whoever gives something back has it to give: release does not find less than
\* it takes, which panics, and no goroutine waits for a token that is not there.
Covered ==
  /\ shared <= used
  /\ Holding => taken.bytes <= used /\ tokens > 0
  /\ producer = "handing" => making.bytes <= used /\ tokens > 0
  /\ ready # <<>> => Head(ready).bytes <= used /\ tokens > 0

\* releaseCampaignItem, drainCampaignItems, the producer that gives up and the
\* deferred release of executeSend are covered wherever they may run.
THEOREM ReleasesAreCovered == Spec => []Covered
<1>1. IInv => Covered
  <2> SUFFICES ASSUME IInv PROVE Covered
    OBVIOUS
  <2>1. /\ used \in Nat /\ shared \in Nat /\ taken.bytes \in Nat /\ Load(ready) \in Nat
        /\ making.bytes \in Nat /\ used = shared + taken.bytes + Load(ready) + making.bytes
    BY Numbers DEF IInv, Account
  <2>2. shared <= used /\ taken.bytes <= used /\ making.bytes <= used /\ Load(ready) <= used
    BY <2>1
  <2>3. tokens \in Nat /\ Len(ready) \in Nat
    BY Numbers
  <2>4. tokens = (IF Holding THEN 1 ELSE 0) + Len(ready) + (IF Making THEN 1 ELSE 0)
    BY DEF IInv, Account
  <2>5. Holding => tokens > 0
    BY <2>3, <2>4
  <2>6. producer = "handing" => tokens > 0
    BY <2>3, <2>4 DEF Making
  <2>7. ASSUME ready # <<>> PROVE Head(ready).bytes <= used /\ tokens > 0
    <3>1. ready \in Seq(Item)
      BY DEF IInv, TypeOK
    <3>2. Load(ready) = Head(ready).bytes + Load(Tail(ready)) /\ Head(ready) \in Item
          /\ Tail(ready) \in Seq(Item)
      BY <2>7, <3>1, LoadTail
    <3>3. Head(ready).bytes \in Nat /\ Load(Tail(ready)) \in Nat
      BY <3>2, LoadTyped DEF Item
    <3>4. Head(ready).bytes <= used
      BY <2>1, <2>2, <3>2, <3>3
    <3>5. Len(ready) > 0
      BY <2>7, <3>1
    <3>6. tokens > 0
      <4>1. PICK held \in {0, 1}, made \in {0, 1} : tokens = held + Len(ready) + made
        BY <2>4
      <4>2. PICK items \in Nat : items = Len(ready) /\ items > 0
        BY <2>3, <3>5
      <4> QED
        BY <4>1, <4>2
    <3> QED
      BY <3>4, <3>6
  <2> QED
    BY <2>2, <2>5, <2>6, <2>7 DEF Covered
<1> QED
  BY <1>1, Invariance, PTL

\* Where a goroutine waits for the other: the consumer for an item, the producer
\* for a token or for room in ready.
ConsumerStarves == consumer \in {"receiving", "draining"} /\ ready = <<>> /\ ~closed
ProducerStalls ==
  \/ producer = "waiting" /\ making.index < Total /\ tokens >= Admission
  \/ producer = "handing" /\ Len(ready) >= Ready

\* The two goroutines never wait for each other over the channels, whatever their
\* capacities: an item that is not sent yet keeps its token, but then the consumer
\* has it or can take it.
THEOREM NoMutualWait == Spec => []~(ConsumerStarves /\ ProducerStalls)
<1>1. IInv => ~(ConsumerStarves /\ ProducerStalls)
  <2> SUFFICES ASSUME IInv, ConsumerStarves, ProducerStalls PROVE FALSE
    OBVIOUS
  <2>1. ~Holding /\ Len(ready) = 0
    BY DEF ConsumerStarves, Holding
  <2>2. CASE producer = "waiting" /\ tokens >= Admission
    <3>1. ~Making
      BY <2>2 DEF Making
    <3>2. tokens = 0
      BY <2>1, <3>1 DEF IInv, Account
    <3> QED
      BY <2>2, <3>2, CapacitiesAssumption
  <2>3. CASE Len(ready) >= Ready
    BY <2>1, <2>3, CapacitiesAssumption
  <2> QED
    BY <2>2, <2>3 DEF ProducerStalls
<1> QED
  BY <1>1, Invariance, PTL
=============================================================================
