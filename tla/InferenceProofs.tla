-------------------------- MODULE InferenceProofs ---------------------------
(***************************************************************************)
(* Proofs about Inference: what the arena holds under the positions that   *)
(* passes have covered, what a prefill row's logits are of, and what a     *)
(* pass leaves alone.                                                      *)
(*                                                                         *)
(* A pass writes where the block tables say, and blocks are shared.  The   *)
(* argument is that two tables meet in a block only at the same index and  *)
(* after the same tokens (the books of the cache, KvCacheLemmas), so that  *)
(* whoever writes a covered position of somebody else's prompt writes what *)
(* is already there, and that decode rows write past every full block of   *)
(* their prompt, where nothing is shared.                                  *)
(***************************************************************************)
EXTENDS Inference, KvCacheLemmas

-----------------------------------------------------------------------------
(* The arena is an array of six indices.                                    *)

\* A place in the arena: d counts the dimensions of a vector from 0.
Places == [layer : Layers, block : BlockId, value : BOOLEAN, slot : 0..block_size - 1,
           head : KvHeads, dim : 0..head_dim - 1]
OffsetOf(w) == slot_offset(w.layer, w.block, w.value, w.slot, w.head) + w.dim

\* Two digits make a number below the product of their bases, and one only.
LEMMA TwoDigits ==
  ASSUME NEW m \in Nat, NEW n \in Nat, NEW x \in 0..m - 1, NEW y \in 0..n - 1
  PROVE  /\ x * n + y \in 0..m * n - 1
         /\ \A u \in 0..m - 1, v \in 0..n - 1 : x * n + y = u * n + v => x = u /\ y = v
<1>1. ASSUME NEW u \in 0..m - 1 PROVE u * n >= 0 /\ u * n + n <= m * n
  <2>1. (u + 1) * n <= m * n
    OBVIOUS
  <2> QED BY <2>1
<1>2. ASSUME NEW u \in 0..m - 1, NEW v \in 0..m - 1, u < v PROVE u * n + n <= v * n
  <2>1. (u + 1) * n <= v * n
    BY <1>2
  <2> QED BY <2>1
<1>3. x * n + y \in 0..m * n - 1
  <2>1. x * n \in Int /\ m * n \in Int /\ y \in Int /\ n \in Int
    OBVIOUS
  <2> QED BY <1>1, <2>1
<1>4. ASSUME NEW u \in 0..m - 1, NEW v \in 0..n - 1, x * n + y = u * n + v PROVE x = u /\ y = v
  <2>1. x * n \in Int /\ u * n \in Int
    OBVIOUS
  <2>2. ~(x < u)
    BY <1>2, <1>4, <2>1
  <2>3. ~(u < x)
    BY <1>2, <1>4, <2>1
  <2> QED BY <1>4, <2>1, <2>2, <2>3
<1> QED BY <1>3, <1>4

\* An offset is a number whose six digits are the indices of its place.
Nested(w) ==
  ((((w.layer * num_blocks + w.block) * 2 + (IF w.value THEN 1 ELSE 0)) * block_size
     + w.slot) * num_kv_heads + w.head) * head_dim + w.dim

LEMMA OffsetIsNested == ASSUME NEW w \in Places PROVE OffsetOf(w) = Nested(w)
<1>1. PICK nb, bs, nk, hd : /\ nb = num_blocks /\ bs = block_size /\ nk = num_kv_heads
                            /\ hd = head_dim
  OBVIOUS
<1>2. nb \in Nat /\ bs \in Nat /\ nk \in Nat /\ hd \in Nat
  BY <1>1, SizesAssumption, ModelAssumption
<1>3. PICK l, b, v, t, g, d : /\ l = w.layer /\ b = w.block /\ v = (IF w.value THEN 1 ELSE 0)
                              /\ t = w.slot /\ g = w.head /\ d = w.dim
  OBVIOUS
<1>4. l \in Nat /\ b \in Nat /\ v \in {0, 1} /\ t \in Nat /\ g \in Nat /\ d \in Nat
  BY <1>3, SizesAssumption, ModelAssumption DEF Places, Layers, BlockId, KvHeads
<1>5. PICK s : s = bs * nk * hd /\ s \in Nat
  BY <1>2
<1>6. OffsetOf(w) = l * nb * 2 * s + b * 2 * s + v * s + (t * nk + g) * hd + d
  <2>1. (IF w.value THEN s ELSE 0) = v * s
    BY <1>3, <1>5
  <2> QED BY <1>1, <1>3, <1>5, <2>1 DEF OffsetOf, slot_offset, region_offset, block_stride
<1>7. PICK r : r = (l * nb + b) * 2 + v /\ r \in Nat
  BY <1>2, <1>4
<1>8. l * nb * 2 * s + b * 2 * s + v * s = r * s
  BY <1>2, <1>4, <1>5, <1>7
<1>9. r * s = r * bs * nk * hd
  BY <1>2, <1>5, <1>7
<1>10. ((r * bs + t) * nk + g) * hd + d = r * bs * nk * hd + (t * nk + g) * hd + d
  BY <1>2, <1>4, <1>7
<1> QED BY <1>1, <1>2, <1>3, <1>4, <1>5, <1>6, <1>7, <1>8, <1>9, <1>10 DEF Nested


\* Different places have different offsets, all inside the array.
LEMMA OffsetsDistinct ==
  ASSUME NEW w \in Places
  PROVE  /\ OffsetOf(w) \in 0..ArenaLen - 1
         /\ \A x \in Places : OffsetOf(w) = OffsetOf(x) => w = x
<1> DEFINE v(x) == IF x.value THEN 1 ELSE 0
           n1(x) == x.layer * num_blocks + x.block
           n2(x) == n1(x) * 2 + v(x)
           n3(x) == n2(x) * block_size + x.slot
           n4(x) == n3(x) * num_kv_heads + x.head
           n5(x) == n4(x) * head_dim + x.dim
           m1 == num_layers * num_blocks
           m2 == m1 * 2
           m3 == m2 * block_size
           m4 == m3 * num_kv_heads
           m5 == m4 * head_dim
<1>1. /\ m1 \in Nat /\ m2 \in Nat /\ m3 \in Nat /\ m4 \in Nat
      /\ num_layers \in Nat /\ num_blocks \in Nat /\ block_size \in Nat /\ num_kv_heads \in Nat
      /\ head_dim \in Nat
  BY SizesAssumption, ModelAssumption
<1>2. \A x \in Places : /\ x.layer \in 0..num_layers - 1 /\ x.block \in 0..num_blocks - 1
                        /\ x.value \in BOOLEAN /\ v(x) \in 0..2 - 1
                        /\ x.slot \in 0..block_size - 1 /\ x.head \in 0..num_kv_heads - 1
                        /\ x.dim \in 0..head_dim - 1
  BY DEF Places, Layers, BlockId, KvHeads
<1>3. \A x \in Places : OffsetOf(x) = n5(x)
  BY OffsetIsNested DEF Nested
<1>4. ArenaLen = m5
  BY DEF ArenaLen
<1> DEFINE Fits(x, n, m) == n \in 0..m - 1
<1> HIDE DEF v
<1>5. \A x \in Places : n1(x) \in 0..m1 - 1
  BY <1>1, <1>2, TwoDigits
<1>6. ASSUME NEW x \in Places, NEW y \in Places, n1(x) = n1(y)
      PROVE  x.layer = y.layer /\ x.block = y.block
  <2>1. PICK m, n, u, w0, a, b : /\ m = num_layers /\ n = num_blocks
                                 /\ u = x.layer /\ a = x.block
                                 /\ w0 = y.layer /\ b = y.block
    OBVIOUS
  <2>2. /\ m \in Nat /\ n \in Nat /\ u \in 0..m - 1 /\ w0 \in 0..m - 1
        /\ a \in 0..n - 1 /\ b \in 0..n - 1
    BY <1>1, <1>2, <2>1
  <2>3. u * n + a = w0 * n + b
    BY <1>6, <2>1
  <2>4. u = w0 /\ a = b
    BY <2>2, <2>3, TwoDigits
  <2> QED BY <2>1, <2>4
<1> HIDE DEF n1, m1
<1>7. \A x \in Places : n2(x) \in 0..m2 - 1
  BY <1>1, <1>2, <1>5, TwoDigits
<1>8. ASSUME NEW x \in Places, NEW y \in Places, n2(x) = n2(y)
      PROVE  n1(x) = n1(y) /\ v(x) = v(y)
  <2>1. PICK m, n, u, w0, a, b : /\ m = m1 /\ n = 2
                                 /\ u = n1(x) /\ a = v(x)
                                 /\ w0 = n1(y) /\ b = v(y)
    OBVIOUS
  <2>2. /\ m \in Nat /\ n \in Nat /\ u \in 0..m - 1 /\ w0 \in 0..m - 1
        /\ a \in 0..n - 1 /\ b \in 0..n - 1
    BY <1>1, <1>2, <2>1, <1>5
  <2>3. u * n + a = w0 * n + b
    BY <1>8, <2>1
  <2>4. u = w0 /\ a = b
    BY <2>2, <2>3, TwoDigits
  <2> QED BY <2>1, <2>4
<1> HIDE DEF n2, m2
<1>9. \A x \in Places : n3(x) \in 0..m3 - 1
  BY <1>1, <1>2, <1>7, TwoDigits
<1>10. ASSUME NEW x \in Places, NEW y \in Places, n3(x) = n3(y)
      PROVE  n2(x) = n2(y) /\ x.slot = y.slot
  <2>1. PICK m, n, u, w0, a, b : /\ m = m2 /\ n = block_size
                                 /\ u = n2(x) /\ a = x.slot
                                 /\ w0 = n2(y) /\ b = y.slot
    OBVIOUS
  <2>2. /\ m \in Nat /\ n \in Nat /\ u \in 0..m - 1 /\ w0 \in 0..m - 1
        /\ a \in 0..n - 1 /\ b \in 0..n - 1
    BY <1>1, <1>2, <2>1, <1>7
  <2>3. u * n + a = w0 * n + b
    BY <1>10, <2>1
  <2>4. u = w0 /\ a = b
    BY <2>2, <2>3, TwoDigits
  <2> QED BY <2>1, <2>4
<1> HIDE DEF n3, m3
<1>11. \A x \in Places : n4(x) \in 0..m4 - 1
  BY <1>1, <1>2, <1>9, TwoDigits
<1>12. ASSUME NEW x \in Places, NEW y \in Places, n4(x) = n4(y)
      PROVE  n3(x) = n3(y) /\ x.head = y.head
  <2>1. PICK m, n, u, w0, a, b : /\ m = m3 /\ n = num_kv_heads
                                 /\ u = n3(x) /\ a = x.head
                                 /\ w0 = n3(y) /\ b = y.head
    OBVIOUS
  <2>2. /\ m \in Nat /\ n \in Nat /\ u \in 0..m - 1 /\ w0 \in 0..m - 1
        /\ a \in 0..n - 1 /\ b \in 0..n - 1
    BY <1>1, <1>2, <2>1, <1>9
  <2>3. u * n + a = w0 * n + b
    BY <1>12, <2>1
  <2>4. u = w0 /\ a = b
    BY <2>2, <2>3, TwoDigits
  <2> QED BY <2>1, <2>4
<1> HIDE DEF n4, m4
<1>13. \A x \in Places : n5(x) \in 0..m5 - 1
  BY <1>1, <1>2, <1>11, TwoDigits
<1>14. ASSUME NEW x \in Places, NEW y \in Places, n5(x) = n5(y)
      PROVE  n4(x) = n4(y) /\ x.dim = y.dim
  <2>1. PICK m, n, u, w0, a, b : /\ m = m4 /\ n = head_dim
                                 /\ u = n4(x) /\ a = x.dim
                                 /\ w0 = n4(y) /\ b = y.dim
    OBVIOUS
  <2>2. /\ m \in Nat /\ n \in Nat /\ u \in 0..m - 1 /\ w0 \in 0..m - 1
        /\ a \in 0..n - 1 /\ b \in 0..n - 1
    BY <1>1, <1>2, <2>1, <1>11
  <2>3. u * n + a = w0 * n + b
    BY <1>14, <2>1
  <2>4. u = w0 /\ a = b
    BY <2>2, <2>3, TwoDigits
  <2> QED BY <2>1, <2>4
<1> HIDE DEF n5, m5
<1>15. ASSUME NEW x \in Places, NEW y \in Places, OffsetOf(x) = OffsetOf(y) PROVE x = y
  <2>1. n5(x) = n5(y)
    BY <1>3, <1>15
  <2>2. n4(x) = n4(y) /\ x.dim = y.dim
    BY <2>1, <1>14
  <2>3. n3(x) = n3(y) /\ x.head = y.head
    BY <2>2, <1>12
  <2>4. n2(x) = n2(y) /\ x.slot = y.slot
    BY <2>3, <1>10
  <2>5. n1(x) = n1(y) /\ v(x) = v(y)
    BY <2>4, <1>8
  <2>6. x.layer = y.layer /\ x.block = y.block
    BY <2>5, <1>6
  <2>7. x.value = y.value
    BY <2>5, <1>2 DEF v
  <2> QED BY <2>2, <2>3, <2>4, <2>6, <2>7 DEF Places
<1> QED BY <1>3, <1>4, <1>13, <1>15

\* Where a vector of a layer begins, for a position: block and slot.
Spots == [block : BlockId, slot : 0..block_size - 1]

\* What is read where a vector was written is that vector, and what is read
\* anywhere else is what was there.
Writes(st, to, l, at, g, v, vector) ==
  \A m \in Layers, spot \in Spots, h \in KvHeads, u \in BOOLEAN :
     read(to, m, spot, h, u) = IF l = m /\ at = spot /\ g = h /\ v = u
                                 THEN vector ELSE read(st, m, spot, h, u)

LEMMA ReadAfterWrite ==
  ASSUME NEW E, NEW store \in [0..ArenaLen - 1 -> E], NEW vector \in [1..head_dim -> E],
         NEW l \in Layers, NEW at \in Spots, NEW g \in KvHeads, NEW v \in BOOLEAN
  PROVE  /\ write(store, l, at, g, v, vector) \in [0..ArenaLen - 1 -> E]
         /\ Writes(store, write(store, l, at, g, v, vector), l, at, g, v, vector)
<1> DEFINE Off(m, to, h, u) == slot_offset(m, to.block, u, to.slot, h)
           off == Off(l, at, g, v)
           after == write(store, l, at, g, v, vector)
           Place(m, to, h, u, d) == [layer |-> m, block |-> to.block, value |-> u,
                                     slot |-> to.slot, head |-> h, dim |-> d]
<1>1. head_dim \in Nat
  BY ModelAssumption
<1>2. after = [o \in 0..ArenaLen - 1 |->
               IF o \in off..off + head_dim - 1 THEN vector[o - off + 1] ELSE store[o]]
  BY DEF write
<1>3. ASSUME NEW m \in Layers, NEW to \in Spots, NEW h \in KvHeads, NEW u \in BOOLEAN
      PROVE  /\ Off(m, to, h, u) \in Int
             /\ \A d \in 0..head_dim - 1 : /\ Place(m, to, h, u, d) \in Places
                                           /\ OffsetOf(Place(m, to, h, u, d)) = Off(m, to, h, u) + d
                                           /\ Off(m, to, h, u) + d \in 0..ArenaLen - 1
  <2>1. \A d \in 0..head_dim - 1 :
           /\ Place(m, to, h, u, d) \in Places
           /\ OffsetOf(Place(m, to, h, u, d)) = Off(m, to, h, u) + d
    BY DEF Places, Spots, OffsetOf
  <2>2. \A d \in 0..head_dim - 1 : Off(m, to, h, u) + d \in 0..ArenaLen - 1
    <3> HIDE DEF Off, Place
    <3> QED BY <2>1, OffsetsDistinct
  <2>3. Off(m, to, h, u) \in Int
    <3>1. PICK nb, bs, nk, hd : /\ nb = num_blocks /\ bs = block_size /\ nk = num_kv_heads
                                /\ hd = head_dim
      OBVIOUS
    <3>2. nb \in Nat /\ bs \in Nat /\ nk \in Nat /\ hd \in Nat
      BY <3>1, SizesAssumption, ModelAssumption
    <3>3. m \in Nat /\ to.block \in Nat /\ to.slot \in Nat /\ h \in Nat
      BY SizesAssumption, ModelAssumption DEF Spots, BlockId, Layers, KvHeads
    <3>4. bs * nk \in Int /\ m * nb \in Int /\ to.slot * nk + h \in Int
      BY <3>2, <3>3
    <3>5. PICK s, t : s = bs * nk * hd /\ s \in Int /\ t = (to.slot * nk + h) * hd /\ t \in Int
      BY <3>2, <3>4
    <3>6. m * nb * 2 * s \in Int /\ to.block * 2 * s \in Int
      BY <3>2, <3>3, <3>4, <3>5, SMTT(30)
    <3>7. Off(m, to, h, u) = m * nb * 2 * s + to.block * 2 * s + (IF u THEN s ELSE 0) + t
      BY <3>1, <3>5 DEF slot_offset, region_offset, block_stride
    <3> HIDE DEF Off
    <3> QED BY <3>5, <3>6, <3>7
  <2> QED BY <2>1, <2>2, <2>3
<1>4. ASSUME NEW m \in Layers, NEW to \in Spots, NEW h \in KvHeads, NEW u \in BOOLEAN,
             NEW d \in 0..head_dim - 1, Off(m, to, h, u) + d \in off..off + head_dim - 1
      PROVE  l = m /\ at = to /\ g = h /\ v = u
  <2>1. PICK x, y : x = Off(m, to, h, u) /\ y = off
    OBVIOUS
  <2>2. x \in Int /\ y \in Int /\ x + d \in y..y + head_dim - 1
    BY <1>3, <1>4, <2>1, Zenon
  <2>3. PICK e \in 0..head_dim - 1 : x + d = y + e
    <3>1. x + d - y \in 0..head_dim - 1 /\ x + d = y + (x + d - y)
      BY <2>2, <1>1
    <3> QED BY <3>1
  <2>4. Place(m, to, h, u, d) = Place(l, at, g, v, e)
    <3>1. Place(m, to, h, u, d) \in Places /\ OffsetOf(Place(m, to, h, u, d)) = x + d
      BY <1>3, <2>1, SMTT(30)
    <3>2. Place(l, at, g, v, e) \in Places /\ OffsetOf(Place(l, at, g, v, e)) = y + e
      BY <1>3, <2>1, SMTT(30)
    <3> HIDE DEF Place
    <3> QED BY <2>3, <3>1, <3>2, OffsetsDistinct
  <2>5. l = m /\ at.block = to.block /\ u = v /\ at.slot = to.slot /\ g = h
    BY <2>4
  <2>6. at = to
    BY <2>5 DEF Spots
  <2> QED BY <2>5, <2>6
<1> HIDE DEF Place
<1>5. after \in [0..ArenaLen - 1 -> E]
  <2>1. off \in Int
    BY <1>3
  <2> HIDE DEF off
  <2>2. \A o \in 0..ArenaLen - 1 : o \in off..off + head_dim - 1 => o - off + 1 \in 1..head_dim
    BY <2>1, <1>1
  <2> QED BY <2>2, <1>2
<1>6. ASSUME NEW m \in Layers, NEW to \in Spots, NEW h \in KvHeads, NEW u \in BOOLEAN
      PROVE  read(after, m, to, h, u) = IF l = m /\ at = to /\ g = h /\ v = u
                                        THEN vector ELSE read(store, m, to, h, u)
  <2> DEFINE x == Off(m, to, h, u)
  <2>1. read(after, m, to, h, u) = [d \in 1..head_dim |-> after[x + d - 1]]
    BY DEF read
  <2>2. read(store, m, to, h, u) = [d \in 1..head_dim |-> store[x + d - 1]]
    BY DEF read
  <2>3. x \in Int /\ \A d \in 1..head_dim : x + d - 1 \in 0..ArenaLen - 1
    <3>1. x \in Int /\ \A d \in 0..head_dim - 1 : x + d \in 0..ArenaLen - 1
      BY <1>3
    <3> HIDE DEF x
    <3>2. ASSUME NEW d \in 1..head_dim PROVE x + d - 1 \in 0..ArenaLen - 1
      <4>1. d - 1 \in 0..head_dim - 1 /\ x + (d - 1) = x + d - 1
        BY <3>1, <1>1
      <4> QED BY <3>1, <4>1
    <3> QED BY <3>1, <3>2
  <2>4. CASE l = m /\ at = to /\ g = h /\ v = u
    <3>1. off = x
      BY <2>4
    <3> HIDE DEF off, x, after
    <3>2. \A d \in 1..head_dim : /\ x + d - 1 \in x..x + head_dim - 1
                                 /\ (x + d - 1) - x + 1 = d
      BY <2>3, <1>1
    <3>3. \A d \in 1..head_dim : after[x + d - 1] = vector[d]
      BY <1>2, <2>3, <3>1, <3>2
    <3>4. [d \in 1..head_dim |-> after[x + d - 1]] = vector
      BY <3>3
    <3> QED BY <2>1, <2>4, <3>4
  <2>5. CASE ~(l = m /\ at = to /\ g = h /\ v = u)
    <3>1. \A d \in 1..head_dim : x + d - 1 \notin off..off + head_dim - 1
      <4> SUFFICES ASSUME NEW d \in 1..head_dim, x + d - 1 \in off..off + head_dim - 1 PROVE FALSE
        OBVIOUS
      <4>1. d - 1 \in 0..head_dim - 1 /\ x + (d - 1) = x + d - 1
        <5> HIDE DEF x
        <5> QED BY <1>1, <2>3
      <4> HIDE DEF off
      <4>2. x + (d - 1) \in off..off + head_dim - 1
        <5> HIDE DEF x
        <5> QED BY <4>1
      <4> QED BY <1>4, <4>1, <4>2, <2>5
    <3> HIDE DEF off, x, after
    <3>2. \A d \in 1..head_dim : after[x + d - 1] = store[x + d - 1]
      BY <1>2, <2>3, <3>1
    <3> QED BY <2>1, <2>2, <2>5, <3>2
  <2> QED BY <2>4, <2>5
<1> QED BY <1>5, <1>6 DEF Writes

-----------------------------------------------------------------------------
(* What a row writes.                                                       *)

\* What an element of the arena may hold, and an arena.
Element == {Zero} \cup (Layers \X {"k", "v"} \X KvHeads \X (1..head_dim) \X Int \X Seq(Int))
Arenas == [0..ArenaLen - 1 -> Element]

\* The key and value of a hidden state are at a spot, in one head.
HasKV(st, l, at, g, position, h) ==
  /\ read(st, l, at, g, FALSE) = Key(l, g, position, h)
  /\ read(st, l, at, g, TRUE) = Value(l, g, h)

\* Two arenas agree at a spot of a layer in one head.
Agree(st, to, l, at, g) ==
  \A v \in BOOLEAN : read(st, l, at, g, v) = read(to, l, at, g, v)

\* Keys and values are vectors of elements.
LEMMA KeyType ==
  ASSUME NEW l \in Layers, NEW g \in KvHeads, NEW p \in Int, NEW h \in Seq(Int)
  PROVE  Key(l, g, p, h) \in [1..head_dim -> Element] /\ Value(l, g, h) \in [1..head_dim -> Element]
BY DEF Key, Value, Element

\* A head of a row writes its key and its value, and nothing else.
LEMMA WriteHeadIs ==
  ASSUME NEW st \in Arenas, NEW l \in Layers, NEW b, NEW hidden, NEW row, NEW g \in KvHeads,
         NEW at \in Spots, NEW p \in Int, NEW u \in Seq(Int),
         at = locate(TableOf(b, row), b.positions[row]), p = b.positions[row], u = hidden[row]
  PROVE  LET to == WriteHead(st, l, b, hidden, row, g) IN
         /\ to \in Arenas
         /\ HasKV(to, l, at, g, p, u)
         /\ \A m \in Layers, spot \in Spots, e \in KvHeads :
              ~(m = l /\ spot = at /\ e = g) => Agree(to, st, m, spot, e)
<1>1. PICK k, v : k = Key(l, g, p, u) /\ v = Value(l, g, u)
  OBVIOUS
<1>2. k \in [1..head_dim -> Element] /\ v \in [1..head_dim -> Element]
  BY <1>1, KeyType
<1>3. PICK mid : mid = write(st, l, at, g, FALSE, k)
  OBVIOUS
<1>4. PICK to : to = write(mid, l, at, g, TRUE, v)
  OBVIOUS
<1>5. WriteHead(st, l, b, hidden, row, g) = to
  BY <1>1, <1>3, <1>4 DEF WriteHead
<1>6. st \in [0..ArenaLen - 1 -> Element]
  BY DEF Arenas
<1>7. mid \in [0..ArenaLen - 1 -> Element] /\ Writes(st, mid, l, at, g, FALSE, k)
  BY <1>2, <1>3, <1>6, ReadAfterWrite
<1>8. to \in [0..ArenaLen - 1 -> Element] /\ Writes(mid, to, l, at, g, TRUE, v)
  BY <1>2, <1>4, <1>7, ReadAfterWrite
<1>9. HasKV(to, l, at, g, p, u)
  <2>1. read(to, l, at, g, TRUE) = v
    BY <1>8 DEF Writes
  <2>2. read(to, l, at, g, FALSE) = k
    BY <1>7, <1>8 DEF Writes
  <2> QED BY <1>1, <2>1, <2>2 DEF HasKV
<1>10. ASSUME NEW m \in Layers, NEW spot \in Spots, NEW e \in KvHeads,
              ~(m = l /\ spot = at /\ e = g), NEW x \in BOOLEAN
       PROVE  read(to, m, spot, e, x) = read(st, m, spot, e, x)
  BY <1>7, <1>8, <1>10 DEF Writes
<1> QED BY <1>5, <1>8, <1>9, <1>10 DEF Agree, Arenas

\* The heads of a row are written one after another.
LEMMA HeadsWritten ==
  ASSUME NEW st \in Arenas, NEW l \in Layers, NEW b, NEW hidden, NEW row,
         locate(TableOf(b, row), b.positions[row]) \in Spots, b.positions[row] \in Int,
         hidden[row] \in Seq(Int)
  PROVE  \E h \in [0..num_kv_heads -> Arenas] :
            /\ h[0] = st /\ h[num_kv_heads] = WriteRow(st, l, b, hidden, row)
            /\ \A i \in 1..num_kv_heads : h[i] = WriteHead(h[i - 1], l, b, hidden, row, i - 1)
<1>1. PICK N, S, base, seq : /\ N = num_kv_heads /\ S = Arenas /\ base = st
                             /\ seq = [g \in 1..N |-> g - 1]
  OBVIOUS
<1>2. /\ N \in Nat /\ base \in S /\ DOMAIN seq = 1..N
      /\ \A i \in 1..N : seq[i] \in KvHeads
  BY <1>1, ModelAssumption DEF KvHeads
<1>3. ASSUME NEW i \in 1..N, NEW x \in S PROVE WriteHead(x, l, b, hidden, row, seq[i]) \in S
  BY <1>1, <1>2, WriteHeadIs
<1> DEFINE F == [i \in 1..N |-> [x \in S |-> WriteHead(x, l, b, hidden, row, seq[i])]]
           Body(g) == [D \in SUBSET (1..N) |->
                         IF D = {} THEN base ELSE WriteHead(g[D \ {Max(D)}], l, b, hidden, row, seq[Max(D)])]
           iter == CHOOSE g : g = Body(g)
<1>4. F \in [1..N -> [S -> S]]
  BY <1>3
<1>5. \A i \in 1..N, x \in S : F[i][x] = WriteHead(x, l, b, hidden, row, seq[i])
  OBVIOUS
<1>6. WriteRow(st, l, b, hidden, row) = iter[1..N]
  <2>1. FoldLeft(LAMBDA x, g : WriteHead(x, l, b, hidden, row, g), base, seq) = iter[1..N]
    BY <1>2 DEF FoldLeft, MapThenFoldSet
  <2> HIDE DEF iter
  <2> QED BY <1>1, <2>1 DEF WriteRow
<1> HIDE DEF F
<1>7. iter = Body(iter)
  <2>1. PICK g : g \in FoldsOf(S, N, base, F)
    <3> HIDE DEF Body
    <3>1. FoldsOf(S, N, base, F) # {}
      BY <1>2, <1>4, FoldExists
    <3> QED BY <3>1
  <2>2. ASSUME NEW D \in SUBSET (1..N)
        PROVE  g[D] = IF D = {} THEN base ELSE WriteHead(g[D \ {Max(D)}], l, b, hidden, row, seq[Max(D)])
    <3> HIDE DEF Body
    <3>1. CASE D # {}
      <4>1. /\ Max(D) \in 1..N /\ g[D \ {Max(D)}] \in S
            /\ g[D] = F[Max(D)][g[D \ {Max(D)}]]
        BY <3>1, <2>1, <1>2, FoldDomain DEF FoldsOf
      <4> QED BY <4>1, <3>1, <1>5
    <3> QED BY <3>1, <2>1 DEF FoldsOf
  <2>3. g = Body(g)
    BY <2>1, <2>2 DEF FoldsOf
  <2> HIDE DEF Body
  <2> QED BY <2>3
<1> HIDE DEF iter
<1>8. \A D \in SUBSET (1..N) :
         iter[D] = IF D = {} THEN base ELSE WriteHead(iter[D \ {Max(D)}], l, b, hidden, row, seq[Max(D)])
  BY <1>7
<1> HIDE DEF Body
<1>9. Iterates(S, N, base, F, iter)
  <2>1. iter[{}] = base
    BY <1>8
  <2>2. ASSUME NEW D \in (SUBSET (1..N)) \ {{}}
        PROVE  iter[D \ {Max(D)}] \in S => iter[D] = F[Max(D)][iter[D \ {Max(D)}]]
    <3>1. Max(D) \in 1..N
      BY <1>2, FoldDomain
    <3> QED BY <3>1, <1>5, <1>8, ZenonT(40)
  <2> QED BY <2>1, <2>2 DEF Iterates
<1>10. PICK h \in StepsOf(S, N, base, F) : h[N] = iter[1..N]
  BY <1>2, <1>4, <1>9, FoldPrefixes
<1>11. /\ h \in [0..N -> S] /\ h[0] = base
       /\ \A i \in 1..N : h[i] = WriteHead(h[i - 1], l, b, hidden, row, seq[i])
  BY <1>2, <1>5, <1>10, FoldDomain DEF StepsOf
<1> QED BY <1>1, <1>6, <1>10, <1>11

\* A row writes its key and value in every head of one spot of its layer, and
\* nothing else.
LEMMA WriteRowIs ==
  ASSUME NEW st \in Arenas, NEW l \in Layers, NEW b, NEW hidden, NEW row,
         NEW at \in Spots, NEW p \in Int, NEW u \in Seq(Int),
         at = locate(TableOf(b, row), b.positions[row]), p = b.positions[row], u = hidden[row]
  PROVE  LET to == WriteRow(st, l, b, hidden, row) IN
         /\ to \in Arenas
         /\ \A g \in KvHeads : HasKV(to, l, at, g, p, u)
         /\ \A m \in Layers, spot \in Spots, g \in KvHeads :
              ~(m = l /\ spot = at) => Agree(to, st, m, spot, g)
<1>1. PICK n, to : n = num_kv_heads /\ to = WriteRow(st, l, b, hidden, row)
  OBVIOUS
<1>2. n \in Nat /\ KvHeads = 0..n - 1
  BY <1>1, ModelAssumption DEF KvHeads
<1>3. PICK h \in [0..n -> Arenas] :
         /\ h[0] = st /\ h[n] = to
         /\ \A i \in 1..n : h[i] = WriteHead(h[i - 1], l, b, hidden, row, i - 1)
  BY <1>1, HeadsWritten
<1> DEFINE Written(i) ==
             /\ \A g \in KvHeads : g < i => HasKV(h[i], l, at, g, p, u)
             /\ \A m \in Layers, spot \in Spots, g \in KvHeads :
                  ~(m = l /\ spot = at) => Agree(h[i], st, m, spot, g)
           Good == {i \in Nat : i <= n => Written(i)}
<1>4. Written(0)
  <2>1. \A g \in KvHeads : ~(g < 0)
    BY <1>2
  <2> QED BY <1>3, <2>1 DEF Agree
<1>5. ASSUME NEW i \in Nat, i <= n => Written(i), i + 1 <= n PROVE Written(i + 1)
  <2>1. Written(i) /\ i \in KvHeads /\ i \in 0..n /\ i + 1 \in 0..n
    BY <1>2, <1>5
  <2>2. i + 1 \in 1..n /\ (i + 1) - 1 = i
    BY <1>2, <1>5
  <2>3. PICK old, next : old = h[i] /\ next = h[i + 1]
    OBVIOUS
  <2>4. old \in Arenas /\ next = WriteHead(old, l, b, hidden, row, i)
    BY <1>3, <2>1, <2>2, <2>3
  <2>5. /\ HasKV(next, l, at, i, p, u)
        /\ \A m \in Layers, spot \in Spots, e \in KvHeads :
             ~(m = l /\ spot = at /\ e = i) => Agree(next, old, m, spot, e)
    BY <2>1, <2>4, WriteHeadIs
  <2>6. ASSUME NEW g \in KvHeads, g < i + 1 PROVE HasKV(next, l, at, g, p, u)
    <3>1. CASE g = i
      BY <2>5, <3>1
    <3>2. CASE g # i
      <4>1. g < i
        BY <1>2, <2>6, <3>2
      <4>2. HasKV(old, l, at, g, p, u) /\ Agree(next, old, l, at, g)
        BY <2>1, <2>3, <2>5, <3>2, <4>1
      <4> QED BY <4>2 DEF HasKV, Agree
    <3> QED BY <3>1, <3>2
  <2>7. ASSUME NEW m \in Layers, NEW spot \in Spots, NEW g \in KvHeads, ~(m = l /\ spot = at)
        PROVE  Agree(next, st, m, spot, g)
    <3>1. Agree(next, old, m, spot, g) /\ Agree(old, st, m, spot, g)
      BY <2>1, <2>3, <2>5, <2>7
    <3> QED BY <3>1 DEF Agree
  <2> QED BY <2>3, <2>6, <2>7
<1> HIDE DEF Written
<1>6. n \in Good
  <2>1. 0 \in Good /\ \A i \in Nat : i \in Good => i + 1 \in Good
    BY <1>4, <1>5
  <2> HIDE DEF Good
  <2> QED BY <1>2, <2>1, NatInductionOn
<1>7. Written(n)
  BY <1>2, <1>6
<1>8. \A g \in KvHeads : g < n
  BY <1>2
<1>9. to \in Arenas
  BY <1>2, <1>3
<1> QED BY <1>1, <1>3, <1>7, <1>8, <1>9 DEF Written

-----------------------------------------------------------------------------
(* The rows of a batch.                                                     *)

\* Where the rows of each sequence of a batch begin.
Begins(b, toks, o) ==
  Sums(o, toks) /\ \A i \in 1..Len(toks) + 1 : Offset(b, i) = o[i - 1]

LEMMA OffsetsAddUp ==
  ASSUME NEW b, NEW X, NEW toks \in Seq(Seq(X)),
         b.slot_token_counts = [i \in 1..Len(toks) |-> Len(toks[i])]
  PROVE  \E o : Begins(b, toks, o)
<1> USE DEF Begins
<1>1. PICK N, S, base, c : N = Len(toks) /\ S = Nat /\ base = 0 /\ c = b.slot_token_counts
  OBVIOUS
<1>2. /\ N \in Nat /\ base \in S /\ DOMAIN c = 1..N /\ Len(c) = N
      /\ \A i \in 1..N : c[i] = Len(toks[i]) /\ c[i] \in Nat
  BY <1>1
<1> DEFINE F == [i \in 1..N |-> [x \in S |-> x + c[i]]]
           Body(g) == [n \in 0..N |-> IF n = 0 THEN 0 ELSE g[n - 1] + c[n]]
           sum == CHOOSE g : g = Body(g)
<1>3. F \in [1..N -> [S -> S]]
  BY <1>1, <1>2
<1>4. PICK h : h \in StepsOf(S, N, base, F)
  <2> HIDE DEF F
  <2> QED BY <1>2, <1>3, StepsExist
<1>5. /\ h \in [0..N -> Nat] /\ h[0] = 0
      /\ \A i \in 1..N : h[i] = h[i - 1] + c[i]
  <2>1. \A i \in 1..N : i - 1 \in 0..N
    BY <1>2
  <2> QED BY <1>1, <1>4, <2>1 DEF StepsOf
<1>6. h = Body(h)
  <2>1. \A n \in 0..N : h[n] = IF n = 0 THEN 0 ELSE h[n - 1] + c[n]
    BY <1>5, <1>2
  <2> QED BY <1>5, <2>1
<1>7. sum = Body(sum)
  <2> HIDE DEF Body
  <2> QED BY <1>6
<1> HIDE DEF sum
<1>8. sum[0] = 0 /\ \A i \in 1..N : sum[i] = sum[i - 1] + c[i]
  BY <1>7, <1>2
<1>9. Follows(sum, h, N)
  BY <1>5, <1>8 DEF Follows
<1>10. \A i \in 0..N : sum[i] = h[i]
  <2>1. N \in Nat
    BY <1>2
  <2>2. PICK f : f = sum
    OBVIOUS
  <2>3. Follows(f, h, N)
    BY <1>9, <2>2
  <2>4. \A i \in 0..N : f[i] = h[i]
    BY <2>1, <2>3, StepsAgree
  <2> QED BY <2>2, <2>4
<1>11. \A i \in 1..N + 1 : Offset(b, i) = sum[i - 1]
  BY <1>1, <1>2 DEF Offset, sum
<1>12. \A i \in 1..N + 1 : i - 1 \in 0..N
  BY <1>2
<1>13. Sums(h, toks)
  BY <1>1, <1>2, <1>5 DEF Sums
<1>14. \A i \in 1..N + 1 : Offset(b, i) = h[i - 1]
  BY <1>10, <1>11, <1>12
<1> QED BY <1>1, <1>13, <1>14

\* What the queues and the granted rows hold.
Record == [prompt : Prompts, output : Seq({Generated}), computed : Nat]
Row == [id : SequenceIds, num_tokens : Nat, start_position : Nat, is_prefill : BOOLEAN]

\* A granted row: a chunk of a prompt that counts as computed up to its end, or
\* the token of a sequence whose prompt is complete.
RowOK(r) ==
  /\ r.id \in Running /\ r.num_tokens # 0
  /\ r.is_prefill => r.start_position + r.num_tokens = seqs[r.id].computed
  /\ ~r.is_prefill => /\ r.num_tokens = 1 /\ Decoding(r.id)
                      /\ r.start_position >= Len(seqs[r.id].prompt)

SeqsType ==
  /\ DOMAIN seqs \subseteq SequenceIds /\ Running \subseteq DOMAIN seqs
  /\ seqs \in [DOMAIN seqs -> Record]
  /\ \A id \in DOMAIN seqs : seqs[id].computed <= Len(seqs[id].prompt)

Granted ==
  /\ SeqsType /\ scheduled \in Seq(Row)
  /\ \A i \in DOMAIN scheduled : RowOK(scheduled[i])
  /\ \A i, j \in DOMAIN scheduled : scheduled[i].id = scheduled[j].id => i = j

\* A prompt is a sequence of tokens, and not empty.
LEMMA PromptIs ==
  ASSUME SeqsType, NEW id \in DOMAIN seqs
  PROVE  LET q == seqs[id] IN
         /\ q.prompt \in Prompts /\ q.prompt \in Seq(Int) /\ Len(q.prompt) \in Nat
         /\ q.prompt # << >> /\ Len(q.prompt) > 0
         /\ q.output \in Seq({Generated}) /\ q.computed \in Nat /\ q.computed <= Len(q.prompt)
         /\ Last(q.prompt \o q.output) \in Int /\ Len(q.output) \in Nat
<1>1. PICK p, o, c : p = seqs[id].prompt /\ o = seqs[id].output /\ c = seqs[id].computed
  OBVIOUS
<1>2. p \in Prompts /\ o \in Seq({Generated}) /\ c \in Nat /\ c <= Len(p)
  <2>1. seqs[id] \in Record
    BY DEF SeqsType
  <2> QED BY <1>1, <2>1 DEF SeqsType, Record
<1>3. p \in Seq(Int) /\ p # << >>
  BY <1>2, PromptsAssumption, InferenceAssumption
<1>4. Len(p) \in Nat /\ Len(p) > 0
  BY <1>3, EmptySeq
<1>5. Generated \in Int /\ o \in Seq(Int)
  <2>1. Generated \in Int
    BY InferenceAssumption
  <2> QED BY <1>2, <2>1
<1>6. Last(p \o o) \in Int
  <2>1. p \o o \in Seq(Int) /\ Len(p \o o) = Len(p) + Len(o) /\ Len(o) \in Nat
    BY <1>3, <1>5, ConcatProperties
  <2>2. Len(p \o o) \in 1..Len(p \o o)
    BY <1>4, <2>1
  <2> QED BY <2>1, <2>2 DEF Last
<1> QED BY <1>1, <1>2, <1>3, <1>4, <1>5, <1>6

\* The tokens of a granted row.
LEMMA RowTokensAre ==
  ASSUME Granted, NEW i \in DOMAIN scheduled
  PROVE  LET r == scheduled[i] IN
         /\ r \in Row /\ r.id \in DOMAIN seqs
         /\ RowTokens(r) \in Seq(Int) /\ Len(RowTokens(r)) = r.num_tokens
         /\ r.is_prefill => \A k \in 1..r.num_tokens :
              RowTokens(r)[k] = seqs[r.id].prompt[r.start_position + k]
<1>1. PICK r : r = scheduled[i] /\ r \in Row
  BY DEF Granted
<1>2. RowOK(r) /\ r.id \in DOMAIN seqs /\ SeqsType
  BY <1>1 DEF Granted, RowOK, SeqsType
<1>3. PICK p, a, n : p = seqs[r.id].prompt /\ a = r.start_position /\ n = r.num_tokens
  OBVIOUS
<1>4. p \in Seq(Int) /\ Len(p) \in Nat /\ a \in Nat /\ n \in Nat /\ seqs[r.id].computed <= Len(p)
  BY <1>1, <1>2, <1>3, PromptIs DEF Row
<1>5. CASE r.is_prefill
  <2>1. RowTokens(r) = SubSeq(p, a + 1, a + n)
    BY <1>3, <1>5 DEF RowTokens
  <2>2. a + n <= Len(p)
    BY <1>2, <1>3, <1>4, <1>5 DEF RowOK
  <2>3. \A k \in a + 1..a + n : k \in 1..Len(p)
    BY <1>4, <2>2
  <2>4. SubSeq(p, a + 1, a + n) \in Seq(Int)
    BY <1>4, <2>3, SubSeqProperties
  <2>5. Len(SubSeq(p, a + 1, a + n)) = n
    BY <1>4, <2>2, SubSeqProperties
  <2>6. \A k \in 1..n : SubSeq(p, a + 1, a + n)[k] = p[a + k]
    <3>1. \A k \in 1..n : SubSeq(p, a + 1, a + n)[k] = p[a + 1 + k - 1] /\ a + 1 + k - 1 = a + k
      BY <1>4, <2>2, <2>3, SubSeqProperties
    <3> QED BY <3>1
  <2> QED BY <1>1, <1>2, <1>3, <2>1, <2>4, <2>5, <2>6
<1>6. CASE ~r.is_prefill
  <2>1. RowTokens(r) = <<Last(p \o seqs[r.id].output)>> /\ n = 1
    BY <1>2, <1>3, <1>6 DEF RowTokens, RowOK
  <2>2. Last(p \o seqs[r.id].output) \in Int
    BY <1>2, <1>3, PromptIs
  <2> QED BY <1>1, <1>2, <1>3, <1>6, <2>1, <2>2
<1> QED BY <1>5, <1>6

\* Row `row` of the batch is the k-th of its i-th sequence.
RowFor(b, row, i, k) ==
  /\ row \in Rows(b) /\ row = Offset(b, i) + k
  /\ TableOf(b, row) = cache.tables[scheduled[i].id].blocks
  /\ b.positions[row] = scheduled[i].start_position + k - 1
  /\ b.tokens[row] = RowTokens(scheduled[i])[k]

\* Every row of the batch is one of some sequence granted, and every token
\* granted has its row.
LEMMA BatchRows ==
  ASSUME Granted
  PROVE  /\ \A row \in Rows(Batch) : \E i \in DOMAIN scheduled :
               \E k \in 1..scheduled[i].num_tokens : RowFor(Batch, row, i, k)
         /\ \A i \in DOMAIN scheduled : \A k \in 1..scheduled[i].num_tokens :
               RowFor(Batch, Offset(Batch, i) + k, i, k)
         /\ \A i \in DOMAIN scheduled : Batch.slot_token_counts[i] = scheduled[i].num_tokens
         /\ Len(Batch.sequence_ids) = Len(scheduled)
         /\ \A row \in Rows(Batch) : Batch.tokens[row] \in Int
         /\ Len(Batch.tokens) \in Nat
<1>1. PICK N, toks, b : /\ N = Len(scheduled) /\ b = Batch
                        /\ toks = [i \in 1..N |-> RowTokens(scheduled[i])]
  OBVIOUS
<1>2. /\ N \in Nat /\ DOMAIN scheduled = 1..N
      /\ \A i \in 1..N : /\ scheduled[i] \in Row /\ toks[i] \in Seq(Int)
                         /\ Len(toks[i]) = scheduled[i].num_tokens
                         /\ toks[i] = RowTokens(scheduled[i])
  <2>1. N \in Nat /\ DOMAIN scheduled = 1..N
    BY <1>1 DEF Granted
  <2> QED BY <1>1, <2>1, RowTokensAre
<1>3. toks \in Seq(Seq(Int)) /\ Len(toks) = N
  BY <1>1, <1>2
<1>4. PICK pos : pos = [i \in 1..N |->
                          [k \in 1..Len(toks[i]) |-> scheduled[i].start_position + k - 1]]
  OBVIOUS
<1>5. /\ b.tokens = FlattenSeq(toks) /\ b.positions = FlattenSeq(pos)
      /\ b.sequence_ids = [i \in 1..N |-> scheduled[i].id]
      /\ b.slot_token_counts = [i \in 1..N |-> Len(toks[i])]
      /\ b.block_tables = [i \in 1..N |-> cache.tables[scheduled[i].id].blocks]
  BY <1>1, <1>4 DEF Batch
<1>6. PICK o : Sums(o, toks) /\ \A i \in 1..N + 1 : Offset(b, i) = o[i - 1]
  <2>1. b.slot_token_counts = [i \in 1..Len(toks) |-> Len(toks[i])]
    BY <1>3, <1>5
  <2>2. toks \in Seq(Seq(Int))
    BY <1>3
  <2>3. \E o : Begins(b, toks, o)
    BY <2>1, <2>2, OffsetsAddUp
  <2> QED BY <1>3, <2>3 DEF Begins
<1>7. /\ \A i \in 1..N : pos[i] \in Seq(Int) /\ Len(pos[i]) = Len(toks[i]) /\ Len(toks[i]) \in Nat
      /\ pos \in Seq(Seq(Int)) /\ Len(pos) = N
  <2>1. ASSUME NEW i \in 1..N
        PROVE pos[i] \in Seq(Int) /\ Len(pos[i]) = Len(toks[i]) /\ Len(toks[i]) \in Nat
    <3>1. scheduled[i].start_position \in Nat /\ Len(toks[i]) \in Nat
      BY <1>2 DEF Row
    <3>2. pos[i] = [k \in 1..Len(toks[i]) |-> scheduled[i].start_position + k - 1]
      BY <1>4
    <3> QED BY <3>1, <3>2
  <2> QED BY <1>2, <1>4, <2>1
<1>8. Sums(o, pos)
  BY <1>3, <1>6, <1>7 DEF Sums
<1>9. /\ b.tokens \in Seq(Int) /\ Len(b.tokens) = o[N] /\ o[N] \in Nat
      /\ \A i \in 1..N : \A k \in 1..Len(toks[i]) : b.tokens[o[i - 1] + k] = toks[i][k]
  <2>1. o[N] \in Nat
    BY <1>2, <1>3, <1>6 DEF Sums
  <2>2. toks \in Seq(Seq(Int)) /\ Sums(o, toks)
    BY <1>3, <1>6
  <2>3. FlattenSeq(toks) \in Seq(Int) /\ Joins(FlattenSeq(toks), o, toks)
    BY <2>2, Flattened
  <2>4. b.tokens \in Seq(Int) /\ Joins(b.tokens, o, toks)
    BY <1>5, <2>3
  <2> QED BY <1>3, <2>1, <2>4 DEF Joins
<1>10. \A i \in 1..N : \A k \in 1..Len(pos[i]) : b.positions[o[i - 1] + k] = pos[i][k]
  <2>1. pos \in Seq(Seq(Int))
    BY <1>7
  <2>2. Joins(FlattenSeq(pos), o, pos)
    BY <1>8, <2>1, Flattened
  <2>3. Joins(b.positions, o, pos)
    BY <1>5, <2>2
  <2> QED BY <1>7, <2>3 DEF Joins
<1>11. /\ \A j \in 1..o[N] : \E i \in 1..N : j \in o[i - 1] + 1..o[i - 1] + Len(toks[i])
       /\ \A i, m \in 1..N :
            (o[i - 1] + 1..o[i - 1] + Len(toks[i])) \cap (o[m - 1] + 1..o[m - 1] + Len(toks[m])) # {}
              => i = m
       /\ \A i \in 1..N : o[i - 1] + Len(toks[i]) <= o[N]
  BY <1>3, <1>6, SumsCover
<1>12. \A i \in 1..N : i \in 1..N + 1 /\ i - 1 \in 0..N /\ o[i - 1] \in Nat /\ Offset(b, i) = o[i - 1]
  <2>1. o \in [0..N -> Nat]
    BY <1>3, <1>6 DEF Sums
  <2> QED BY <1>2, <1>6, <2>1
<1>13. ASSUME NEW i \in 1..N, NEW k \in 1..Len(toks[i]) PROVE RowFor(b, Offset(b, i) + k, i, k)
  <2>1. PICK row : row = o[i - 1] + k
    OBVIOUS
  <2>2. row \in o[i - 1] + 1..o[i - 1] + Len(toks[i]) /\ row \in 1..o[N]
    <3>1. PICK a, m, z : a = o[i - 1] /\ m = Len(toks[i]) /\ z = o[N]
      OBVIOUS
    <3>2. a \in Nat /\ m \in Nat /\ z \in Nat /\ a + m <= z /\ k \in 1..m
      BY <1>7, <1>9, <1>11, <1>12, <3>1
    <3>3. row = a + k
      BY <2>1, <3>1
    <3>4. row \in a + 1..a + m /\ row \in 1..z
      BY <3>2, <3>3
    <3> QED BY <3>1, <3>4
  <2>3. seq_of_row(b, row) = i
    <3>1. Len(b.sequence_ids) = N
      BY <1>2, <1>5
    <3>2. ASSUME NEW m \in 1..N
          PROVE  Offset(b, m) + 1..Offset(b, m) + b.slot_token_counts[m]
                   = o[m - 1] + 1..o[m - 1] + Len(toks[m])
      BY <1>5, <1>12
    <3>3. ASSUME NEW m \in 1..N, row \in o[m - 1] + 1..o[m - 1] + Len(toks[m]) PROVE m = i
      BY <1>11, <2>2, <3>3
    <3> DEFINE Part(m) == Offset(b, m) + 1..Offset(b, m) + b.slot_token_counts[m]
    <3>4. \A m \in 1..N : row \in Part(m) <=> m = i
      BY <2>2, <3>2, <3>3
    <3>5. seq_of_row(b, row) = CHOOSE m \in 1..N : row \in Part(m)
      BY <3>1 DEF seq_of_row
    <3> HIDE DEF Part
    <3> QED BY <3>4, <3>5
  <2>4. row \in Rows(b) /\ TableOf(b, row) = cache.tables[scheduled[i].id].blocks
    BY <1>5, <1>9, <2>2, <2>3 DEF Rows, TableOf
  <2>5. b.positions[row] = scheduled[i].start_position + k - 1
    <3>1. b.positions[row] = pos[i][k]
      BY <1>7, <1>10, <2>1
    <3> QED BY <1>4, <3>1
  <2>6. b.tokens[row] = RowTokens(scheduled[i])[k]
    BY <1>2, <1>9, <2>1
  <2>7. row = Offset(b, i) + k
    BY <1>12, <2>1
  <2> QED BY <2>4, <2>5, <2>6, <2>7 DEF RowFor
<1>14. ASSUME NEW row \in Rows(b)
       PROVE  \E i \in 1..N : \E k \in 1..Len(toks[i]) : RowFor(b, row, i, k)
  <2>1. row \in 1..o[N]
    BY <1>9 DEF Rows
  <2>2. PICK i \in 1..N : row \in o[i - 1] + 1..o[i - 1] + Len(toks[i])
    BY <1>11, <2>1
  <2>3. PICK k : k = row - o[i - 1]
    OBVIOUS
  <2>4. k \in 1..Len(toks[i]) /\ row = o[i - 1] + k
    <3>1. PICK a, m : a = o[i - 1] /\ m = Len(toks[i]) /\ a \in Nat /\ m \in Nat
      BY <1>7, <1>12
    <3>2. row \in a + 1..a + m /\ k = row - a
      BY <2>2, <2>3, <3>1
    <3>3. k \in 1..m /\ row = a + k
      BY <3>1, <3>2
    <3> QED BY <3>1, <3>3
  <2>5. row = Offset(b, i) + k
    BY <1>12, <2>4
  <2> QED BY <1>13, <2>4, <2>5
<1>15. \A i \in 1..N : b.slot_token_counts[i] = scheduled[i].num_tokens
  BY <1>2, <1>5
<1>16. Len(b.sequence_ids) = N
  BY <1>2, <1>5
<1>17. Len(b.tokens) \in Nat /\ \A row \in Rows(b) : b.tokens[row] \in Int
  BY <1>9 DEF Rows
<1> QED BY <1>1, <1>2, <1>13, <1>14, <1>15, <1>16, <1>17

-----------------------------------------------------------------------------
(* Where two block tables meet.                                             *)

\* The spot of a position that has a block.
LEMMA SpotOf ==
  ASSUME NEW T \in Seq(BlockId), NEW p \in Nat, HasBlock(T, p)
  PROVE  /\ p \div block_size \in Nat /\ p % block_size \in 0..block_size - 1
         /\ p \div block_size + 1 \in 1..Len(T) /\ locate(T, p) \in Spots
         /\ p = block_size * (p \div block_size) + (p % block_size)
         /\ p + 1 <= block_size * (p \div block_size + 1)
<1>1. PICK d, a, m : d = block_size /\ a = p \div block_size /\ m = p % block_size
  OBVIOUS
<1>2. d \in Nat /\ d > 0
  BY <1>1, SizesAssumption
<1>3. a = p \div d /\ m = p % d
  BY <1>1
<1>4. a \in Nat /\ m \in 0..d - 1 /\ p = d * a + m
  BY <1>2, <1>3
<1>5. a + 1 \in 1..Len(T)
  BY <1>1, <1>4 DEF HasBlock
<1>6. locate(T, p) \in Spots
  <2>1. T[a + 1] \in BlockId
    BY <1>5
  <2> QED BY <1>1, <1>4, <2>1 DEF locate, Spots
<1>7. p + 1 <= d * (a + 1)
  <2>1. d * (a + 1) = d * a + d /\ d * a \in Int
    BY <1>2, <1>4
  <2> QED BY <1>2, <1>4, <2>1
<1> QED BY <1>1, <1>4, <1>5, <1>6, <1>7

\* An earlier position has a block too.
LEMMA EarlierHasBlock ==
  ASSUME NEW T \in Seq(BlockId), NEW p \in Nat, HasBlock(T, p), NEW j \in Nat, j <= p
  PROVE  HasBlock(T, j)
<1>1. PICK d, a, b : d = block_size /\ a = p \div block_size /\ b = j \div block_size
  OBVIOUS
<1>2. d \in Nat /\ d > 0
  BY <1>1, SizesAssumption
<1>3. a = p \div d /\ b = j \div d
  BY <1>1
<1>4. a \in Nat /\ b \in Nat /\ p < d * a + d /\ d * b <= j
  BY <1>2, <1>3
<1>5. b <= a
  <2> SUFFICES ASSUME a + 1 <= b PROVE FALSE
    BY <1>4
  <2>1. d * (a + 1) <= d * b /\ d * (a + 1) = d * a + d /\ d * b \in Int /\ d * a \in Int
    BY <1>2, <1>4
  <2> QED BY <1>2, <1>4, <2>1
<1>6. a < Len(T)
  BY <1>1 DEF HasBlock
<1>7. b < Len(T)
  BY <1>4, <1>5, <1>6
<1> QED BY <1>1, <1>7 DEF HasBlock

\* Every position of a prompt has a block in the table of its sequence.
LEMMA PromptHasBlocks ==
  ASSUME NEW c, NEW P, CacheInv(c, P), NEW s \in DOMAIN c.tables, NEW i \in Nat, i < Len(P[s])
  PROVE  HasBlock(c.tables[s].blocks, i)
<1>1. PICK T, n, k : T = c.tables[s].blocks /\ n = c.tables[s].num_tokens /\ k = Len(T)
  OBVIOUS
<1>2. n \in Nat /\ T \in Seq(BlockId) /\ k \in Nat /\ k = blocks_required(n)
  BY <1>1, TableBlocks DEF CacheInv, TablesFit
<1>3. P[s] \in Seq(Int) /\ Len(P[s]) <= n
  BY <1>1, PromptsAssumption DEF CacheInv, HashesOwned, OwnHashes
<1>4. PICK d, a : d = block_size /\ a = i \div block_size
  OBVIOUS
<1>5. d \in Nat /\ d > 0 /\ n <= k * d
  BY <1>2, <1>4, BlocksRequired, SizesAssumption
<1>6. a = i \div d
  BY <1>4
<1>7. a \in Nat /\ d * a <= i
  BY <1>5, <1>6
<1>8. i < n
  BY <1>2, <1>3
<1>9. a < k
  <2> SUFFICES ASSUME k <= a PROVE FALSE
    BY <1>2, <1>7
  <2>1. k * d <= a * d /\ a * d = d * a /\ k * d \in Int /\ d * a \in Int
    BY <1>2, <1>5, <1>7
  <2> QED BY <1>2, <1>5, <1>7, <1>8, <2>1
<1> QED BY <1>1, <1>4, <1>9 DEF HasBlock

\* The tokens through position i.
Through(p, i) == SubSeq(p, 1, i + 1)

\* If a position of a sequence's prompt and a position of another have the same
\* spot, then they are the same position after the same tokens.
LEMMA TablesMeet ==
  ASSUME NEW c, NEW P, CacheInv(c, P), NEW s \in DOMAIN c.tables, NEW t \in DOMAIN c.tables,
         NEW i \in Nat, NEW p \in Nat, i < Len(P[s]), HasBlock(c.tables[t].blocks, p),
         locate(c.tables[s].blocks, i) = locate(c.tables[t].blocks, p)
  PROVE  p = i /\ i < Len(P[t]) /\ Through(P[t], i) = Through(P[s], i)
<1>1. PICK S, T, d, a, b : /\ S = c.tables[s].blocks /\ T = c.tables[t].blocks
                           /\ d = block_size
                           /\ a = i \div block_size /\ b = p \div block_size
  OBVIOUS
<1>2. PICK x, y : x = P[s] /\ y = P[t]
  OBVIOUS
<1>3. /\ x \in Prompts /\ x \in Seq(Int) /\ y \in Prompts /\ y \in Seq(Int)
      /\ OwnHashes(c, s, x) /\ OwnHashes(c, t, y)
  BY <1>2, PromptsAssumption DEF CacheInv, HashesOwned, OwnHashes
<1>4. S \in Seq(BlockId) /\ T \in Seq(BlockId) /\ IsInjective(S)
  BY <1>1, TableBlocks DEF CacheInv, TablesFit
<1>5. /\ HasBlock(S, i) /\ HasBlock(T, p)
      /\ a \in Nat /\ b \in Nat /\ a + 1 \in 1..Len(S) /\ b + 1 \in 1..Len(T)
      /\ i = d * a + (i % d) /\ p = d * b + (p % d) /\ i + 1 <= d * (a + 1)
      /\ i % d \in Int /\ p % d \in Int /\ d \in Nat
  <2>1. HasBlock(S, i) /\ HasBlock(T, p)
    BY <1>1, PromptHasBlocks
  <2>2. /\ i \div block_size \in Nat /\ i % block_size \in 0..block_size - 1
        /\ i \div block_size + 1 \in 1..Len(S)
        /\ i = block_size * (i \div block_size) + (i % block_size)
        /\ i + 1 <= block_size * (i \div block_size + 1)
    BY <1>4, <2>1, SpotOf
  <2>3. /\ p \div block_size \in Nat /\ p % block_size \in 0..block_size - 1
        /\ p \div block_size + 1 \in 1..Len(T)
        /\ p = block_size * (p \div block_size) + (p % block_size)
    BY <1>4, <2>1, SpotOf
  <2>4. d \in Nat
    BY <1>1, SizesAssumption
  <2>5. i % d \in 0..d - 1 /\ p % d \in 0..d - 1
    BY <1>1, <2>2, <2>3
  <2>6. i % d \in Int /\ p % d \in Int
    BY <2>4, <2>5
  <2> QED BY <1>1, <2>1, <2>2, <2>3, <2>4, <2>6
<1>6. S[a + 1] = T[b + 1] /\ i % d = p % d
  BY <1>1 DEF locate
<1>7. CASE s = t
  <2>1. a = b
    <3>1. a + 1 = b + 1
      BY <1>1, <1>4, <1>5, <1>6, <1>7 DEF IsInjective
    <3> QED BY <1>5, <3>1
  <2>2. p = i
    BY <1>5, <1>6, <2>1
  <2> QED BY <1>7, <2>2
<1>8. CASE s # t
  <2>1. c.hash[S[a + 1]] # NoHash
    <3>1. S[a + 1] \in Range(S) /\ T[b + 1] \in Range(T)
      <4>1. a + 1 \in DOMAIN S /\ b + 1 \in DOMAIN T
        BY <1>4, <1>5
      <4> QED BY <4>1 DEF Range
    <3> QED BY <1>1, <1>6, <1>8, <3>1 DEF CacheInv, SharedHashed
  <2>2. /\ a + 1 <= FullChunks(x) /\ b + 1 <= FullChunks(y)
        /\ chain_hash(x)[a + 1] = chain_hash(y)[b + 1]
    BY <1>1, <1>3, <1>5, <1>6, <2>1 DEF OwnHashes
  <2>3. a + 1 \in 1..FullChunks(x) /\ b + 1 \in 1..FullChunks(y)
    BY <1>3, <1>5, <2>2, FullChunksBound
  <2>4. a + 1 = b + 1 /\ Prefix(x, a + 1) = Prefix(y, b + 1)
    BY <1>3, <2>2, <2>3, CollisionFreeAssumption
  <2>5. a = b
    BY <1>5, <2>4
  <2>6. p = i
    BY <1>5, <1>6, <2>5
  <2>7. PICK e : e = (a + 1) * d /\ e \in Nat /\ i + 1 <= e
    <3>1. (a + 1) * d = d * (a + 1) /\ (a + 1) * d \in Nat
      BY <1>5
    <3> QED BY <1>5, <3>1
  <2>8. e <= Len(x) /\ e <= Len(y) /\ Len(x) \in Nat /\ Len(y) \in Nat
    <3>1. PICK f, g : f = FullChunks(x) /\ g = FullChunks(y)
      OBVIOUS
    <3>2. /\ f \in Nat /\ g \in Nat /\ f * d <= Len(x) /\ g * d <= Len(y)
          /\ Len(x) \in Nat /\ Len(y) \in Nat
      BY <1>1, <1>3, <3>1, FullChunksBound
    <3>3. a + 1 <= f /\ a + 1 <= g
      BY <2>2, <2>5, <3>1
    <3>4. (a + 1) * d <= f * d /\ (a + 1) * d <= g * d /\ f * d \in Int /\ g * d \in Int
      BY <1>5, <3>2, <3>3, SMTT(30)
    <3> QED BY <2>7, <3>2, <3>4
  <2>9. SubSeq(x, 1, e) = SubSeq(y, 1, e)
    BY <1>1, <2>4, <2>5, <2>7, <2>8 DEF Prefix
  <2>10. \A j \in 1..e : x[j] = y[j]
    <3>1. \A j \in 1..e : SubSeq(x, 1, e)[j] = x[j]
      BY <1>3, <2>7, <2>8
    <3>2. \A j \in 1..e : SubSeq(y, 1, e)[j] = y[j]
      BY <1>3, <2>7, <2>8
    <3> QED BY <2>9, <3>1, <3>2
  <2>11. Through(x, i) = Through(y, i)
    <3>1. Through(x, i) = [j \in 1..i + 1 |-> x[j]]
      BY <1>3, <2>7, <2>8 DEF Through
    <3>2. Through(y, i) = [j \in 1..i + 1 |-> y[j]]
      BY <1>3, <2>7, <2>8 DEF Through
    <3>3. \A j \in 1..i + 1 : x[j] = y[j]
      BY <2>7, <2>10
    <3> QED BY <3>1, <3>2, <3>3
  <2>12. i < Len(y)
    BY <2>7, <2>8
  <2> QED BY <1>2, <2>6, <2>11, <2>12
<1> QED BY <1>7, <1>8

-----------------------------------------------------------------------------
(* What the rows of a pass write.                                           *)

PromptOf == [id \in DOMAIN seqs |-> seqs[id].prompt]

\* A pass that is not refused, over sound books.
Pass == Granted /\ CacheInv(cache, PromptOf) /\ Located(Batch)

\* Row `row` of the batch is at position p of sequence id.
RowAt(row, id, p) ==
  \E i \in DOMAIN scheduled : \E k \in 1..scheduled[i].num_tokens :
     /\ RowFor(Batch, row, i, k)
     /\ id = scheduled[i].id /\ p = scheduled[i].start_position + k - 1

\* In layer l the arena holds at position i of a prompt what it should.
Right(st, l, id, i) ==
  \A g \in KvHeads :
     HasKV(st, l, locate(cache.tables[id].blocks, i), g, i, Hidden(l, Through(seqs[id].prompt, i)))

\* The rows of prompts enter layer l with the hidden state of their context.
HiddenOK(l, hidden) ==
  \A row \in Rows(Batch) :
     /\ hidden[row] \in Seq(Int)
     /\ \A id, p : RowAt(row, id, p) /\ p < Len(seqs[id].prompt)
                     => hidden[row] = Hidden(l, Through(seqs[id].prompt, p))

\* A running sequence: its prompt in the books of the cache.
LEMMA RunningPrompt ==
  ASSUME SeqsType, NEW id \in Running
  PROVE  /\ id \in DOMAIN seqs /\ id \in DOMAIN cache.tables /\ PromptOf[id] = seqs[id].prompt
         /\ seqs[id].prompt \in Seq(Int) /\ Len(seqs[id].prompt) \in Nat
         /\ seqs[id].prompt \in Prompts
<1>1. id \in DOMAIN seqs /\ id \in DOMAIN cache.tables
  BY DEF SeqsType, Running
<1> QED BY <1>1, PromptIs DEF PromptOf

\* The place of a row.
LEMMA RowPlace ==
  ASSUME Pass, NEW row, NEW id, NEW p, RowAt(row, id, p)
  PROVE  /\ row \in Rows(Batch) /\ id \in Running /\ p \in Nat
         /\ Batch.positions[row] = p /\ TableOf(Batch, row) = cache.tables[id].blocks
         /\ HasBlock(cache.tables[id].blocks, p)
         /\ locate(cache.tables[id].blocks, p) \in Spots
         /\ Batch.tokens[row] \in Int
         /\ p < Len(seqs[id].prompt) => Batch.tokens[row] = seqs[id].prompt[p + 1]
<1>0. PICK i \in DOMAIN scheduled : \E k \in 1..scheduled[i].num_tokens :
         /\ RowFor(Batch, row, i, k)
         /\ id = scheduled[i].id /\ p = scheduled[i].start_position + k - 1
  BY DEF RowAt
<1>1. PICK k \in 1..scheduled[i].num_tokens :
         /\ RowFor(Batch, row, i, k)
         /\ id = scheduled[i].id /\ p = scheduled[i].start_position + k - 1
  BY <1>0
<1>2. Granted /\ SeqsType /\ RowOK(scheduled[i]) /\ CacheInv(cache, PromptOf)
  BY DEF Pass, Granted
<1>3. PICK r, n, a : r = scheduled[i] /\ n = r.num_tokens /\ a = r.start_position
  OBVIOUS
<1>4. r \in Row /\ n \in Nat /\ a \in Nat /\ k \in 1..n /\ id = r.id
  <2>1. r \in Row
    BY <1>2, <1>3, RowTokensAre
  <2> QED BY <1>1, <1>3, <2>1 DEF Row
<1>5. p \in Nat /\ p = a + k - 1
  BY <1>1, <1>3, <1>4
<1>6. id \in Running /\ id \in DOMAIN seqs
  BY <1>1, <1>2 DEF RowOK, SeqsType
<1>7. /\ row \in Rows(Batch) /\ Batch.positions[row] = p
      /\ TableOf(Batch, row) = cache.tables[id].blocks
      /\ Batch.tokens[row] = RowTokens(r)[k]
  BY <1>1, <1>3 DEF RowFor
<1>8. HasBlock(cache.tables[id].blocks, p)
  <2>1. HasBlock(TableOf(Batch, row), Batch.positions[row])
    BY <1>7 DEF Pass, Located
  <2> QED BY <1>7, <2>1
<1>9. locate(cache.tables[id].blocks, p) \in Spots
  <2>1. cache.tables[id].blocks \in Seq(BlockId)
    BY <1>2, <1>6, TableBlocks DEF Running
  <2> QED BY <1>5, <1>8, <2>1, SpotOf
<1>10. Batch.tokens[row] \in Int
  BY <1>2, <1>7, BatchRows
<1>11. ASSUME p < Len(seqs[id].prompt) PROVE Batch.tokens[row] = seqs[id].prompt[p + 1]
  <2>1. Len(seqs[id].prompt) \in Nat
    BY <1>2, <1>6, PromptIs
  <2>2. r.is_prefill
    <3> SUFFICES ASSUME ~r.is_prefill PROVE FALSE
      OBVIOUS
    <3>1. a >= Len(seqs[id].prompt)
      BY <1>2, <1>3, <1>4 DEF RowOK
    <3> QED BY <1>4, <1>5, <1>11, <2>1, <3>1
  <2>3. RowTokens(r)[k] = seqs[id].prompt[a + k]
    BY <1>2, <1>3, <1>4, <2>2, RowTokensAre
  <2>4. a + k = p + 1
    BY <1>4, <1>5
  <2> QED BY <1>7, <2>3, <2>4
<1> QED BY <1>5, <1>6, <1>7, <1>8, <1>9, <1>10, <1>11

\* Every row has a place.
LEMMA RowsHavePlaces ==
  ASSUME Pass, NEW row \in Rows(Batch)
  PROVE  \E id, p : RowAt(row, id, p)
<1>0. PICK i \in DOMAIN scheduled : \E k \in 1..scheduled[i].num_tokens : RowFor(Batch, row, i, k)
  BY BatchRows DEF Pass
<1>1. PICK k \in 1..scheduled[i].num_tokens : RowFor(Batch, row, i, k)
  BY <1>0
<1>2. RowAt(row, scheduled[i].id, scheduled[i].start_position + k - 1)
  BY <1>1 DEF RowAt
<1> QED BY <1>2

\* The hidden state that enters a layer is a sequence of tokens.
ContextIs(p, i, x) ==
  x \in Seq(Int) /\ Len(x) = i + 1 /\ x # << >> /\ \A j \in 1..i + 1 : x[j] = p[j]
StateIs(p, i, h) == h \in Seq(Int) /\ h # << >> /\ Last(h) = p[i + 1]

LEMMA HiddenType ==
  ASSUME NEW p \in Seq(Int), NEW i \in Nat, i < Len(p)
  PROVE  /\ ContextIs(p, i, Through(p, i))
         /\ \A l : StateIs(p, i, Hidden(l, Through(p, i)))
<1> USE DEF ContextIs, StateIs
<1>1. Len(p) \in Nat /\ i + 1 \in 1..Len(p) /\ \A j \in 1..i + 1 : p[j] \in Int
  BY ElementOfSeq
<1>2. PICK x : x = Through(p, i)
  OBVIOUS
<1>3. x \in Seq(Int) /\ Len(x) = i + 1 /\ \A j \in 1..i + 1 : x[j] = p[j]
  BY <1>1, <1>2 DEF Through
<1>4. x # << >> /\ Last(x) = p[i + 1] /\ Last(x) \in Int
  BY <1>1, <1>3 DEF Last
<1>5. <<Last(x)>> \in Seq(Int) /\ <<Last(x)>> # << >> /\ Last(<<Last(x)>>) = Last(x)
  BY <1>4 DEF Last
<1>6. ASSUME NEW l PROVE StateIs(p, i, Hidden(l, x))
  <2>1. Hidden(l, x) \in {<<Last(x)>>, x}
    BY DEF Hidden
  <2> QED BY <1>3, <1>4, <1>5, <2>1
<1> QED BY <1>2, <1>3, <1>4, <1>6

\* To hold a prompt's key and value is a matter of the spot alone.
LEMMA RightKept ==
  ASSUME NEW st, NEW to, NEW m \in Layers, NEW id, NEW i, Right(st, m, id, i),
         \A g \in KvHeads : Agree(to, st, m, locate(cache.tables[id].blocks, i), g)
  PROVE  Right(to, m, id, i)
<1> SUFFICES ASSUME NEW g \in KvHeads
             PROVE  HasKV(to, m, locate(cache.tables[id].blocks, i), g, i,
                          Hidden(m, Through(seqs[id].prompt, i)))
  BY DEF Right
<1>1. PICK at, h : /\ at = locate(cache.tables[id].blocks, i)
                   /\ h = Hidden(m, Through(seqs[id].prompt, i))
  OBVIOUS
<1>2. HasKV(st, m, at, g, i, h) /\ Agree(to, st, m, at, g)
  BY <1>1 DEF Right
<1>3. HasKV(to, m, at, g, i, h)
  BY <1>2 DEF HasKV, Agree
<1> QED BY <1>1, <1>3

\* A row disturbs nothing that is right, and makes its own position right.
LEMMA WriteKeepsRight ==
  ASSUME Pass, NEW st \in Arenas, NEW l \in Layers, NEW hidden, HiddenOK(l, hidden),
         NEW row \in Rows(Batch)
  PROVE  LET to == WriteRow(st, l, Batch, hidden, row) IN
         /\ to \in Arenas
         /\ \A m \in Layers, id \in Running, i \in Nat :
              i < Len(seqs[id].prompt) /\ Right(st, m, id, i) => Right(to, m, id, i)
         /\ \A id, p : RowAt(row, id, p) /\ p < Len(seqs[id].prompt) => Right(to, l, id, p)
<1>1. PICK t, p : RowAt(row, t, p)
  BY RowsHavePlaces
<1>2. PICK T, at, u, to : /\ T = cache.tables[t].blocks /\ at = locate(T, p) /\ u = hidden[row]
                          /\ to = WriteRow(st, l, Batch, hidden, row)
  OBVIOUS
<1>3. /\ t \in Running /\ p \in Nat /\ Batch.positions[row] = p /\ TableOf(Batch, row) = T
      /\ HasBlock(T, p) /\ at \in Spots
  BY <1>1, <1>2, RowPlace
<1>4. u \in Seq(Int) /\ \A id, q : RowAt(row, id, q) /\ q < Len(seqs[id].prompt)
                                    => u = Hidden(l, Through(seqs[id].prompt, q))
  BY <1>2 DEF HiddenOK
<1>5. /\ to \in Arenas
      /\ \A g \in KvHeads : HasKV(to, l, at, g, p, u)
      /\ \A m \in Layers, spot \in Spots, g \in KvHeads :
           ~(m = l /\ spot = at) => Agree(to, st, m, spot, g)
  <2>1. p \in Int /\ at = locate(TableOf(Batch, row), Batch.positions[row])
    BY <1>2, <1>3
  <2> QED BY <1>2, <1>3, <1>4, <2>1, WriteRowIs
<1>6. SeqsType /\ CacheInv(cache, PromptOf)
  BY DEF Pass, Granted
<1>7. ASSUME NEW id \in Running, NEW i \in Nat, i < Len(seqs[id].prompt)
      PROVE  locate(cache.tables[id].blocks, i) \in Spots
  <2>1. /\ id \in DOMAIN cache.tables /\ PromptOf[id] = seqs[id].prompt
    BY <1>6, RunningPrompt
  <2>2. HasBlock(cache.tables[id].blocks, i) /\ cache.tables[id].blocks \in Seq(BlockId)
    BY <1>6, <1>7, <2>1, PromptHasBlocks, TableBlocks
  <2> QED BY <2>2, SpotOf
<1>8. ASSUME NEW id \in Running, NEW i \in Nat, i < Len(seqs[id].prompt),
             locate(cache.tables[id].blocks, i) = at
      PROVE  Right(to, l, id, i)
  <2>1. /\ id \in DOMAIN cache.tables /\ PromptOf[id] = seqs[id].prompt
        /\ t \in DOMAIN cache.tables /\ PromptOf[t] = seqs[t].prompt
    BY <1>3, <1>6, RunningPrompt
  <2>2. p = i /\ i < Len(seqs[t].prompt) /\ Through(seqs[t].prompt, i) = Through(seqs[id].prompt, i)
    BY <1>2, <1>3, <1>6, <1>8, <2>1, TablesMeet
  <2>3. u = Hidden(l, Through(seqs[id].prompt, i))
    BY <1>1, <1>4, <2>2
  <2> QED BY <1>5, <1>8, <2>2, <2>3 DEF Right
<1>9. ASSUME NEW m \in Layers, NEW id \in Running, NEW i \in Nat,
             i < Len(seqs[id].prompt), Right(st, m, id, i)
      PROVE  Right(to, m, id, i)
  <2>1. CASE m = l /\ locate(cache.tables[id].blocks, i) = at
    BY <1>8, <1>9, <2>1
  <2>2. CASE ~(m = l /\ locate(cache.tables[id].blocks, i) = at)
    <3>1. \A g \in KvHeads : Agree(to, st, m, locate(cache.tables[id].blocks, i), g)
      BY <1>5, <1>7, <1>9, <2>2
    <3> QED BY <1>9, <3>1, RightKept
  <2> QED BY <2>1, <2>2
<1>10. ASSUME NEW id, NEW q, RowAt(row, id, q), q < Len(seqs[id].prompt)
       PROVE  Right(to, l, id, q)
  <2>1. /\ id \in Running /\ q \in Nat /\ Batch.positions[row] = q
        /\ TableOf(Batch, row) = cache.tables[id].blocks
    BY <1>10, RowPlace
  <2>2. locate(cache.tables[id].blocks, q) = at
    BY <1>2, <1>3, <2>1
  <2> QED BY <1>8, <1>10, <2>1, <2>2
<1> QED BY <1>2, <1>5, <1>9, <1>10

\* A layer's writes, row by row.
WrittenRows(st, l, hidden) ==
  FoldLeft(LAMBDA x, row : WriteRow(x, l, Batch, hidden, row), st, [i \in Rows(Batch) |-> i])

\* The rows of a pass are written one after another.
LEMMA RowsWritten ==
  ASSUME Pass, NEW st \in Arenas, NEW l \in Layers, NEW hidden, HiddenOK(l, hidden)
  PROVE  \E h \in [0..Len(Batch.tokens) -> Arenas] :
            /\ h[0] = st
            /\ h[Len(Batch.tokens)] = WrittenRows(st, l, hidden)
            /\ \A i \in 1..Len(Batch.tokens) : h[i] = WriteRow(h[i - 1], l, Batch, hidden, i)
<1>1. PICK N, S, base, seq : /\ N = Len(Batch.tokens) /\ S = Arenas /\ base = st
                             /\ seq = [i \in Rows(Batch) |-> i]
  OBVIOUS
<1>2. /\ N \in Nat /\ base \in S /\ DOMAIN seq = 1..N
      /\ \A i \in 1..N : seq[i] = i /\ i \in Rows(Batch)
  BY <1>1, BatchRows DEF Rows, Pass
<1>3. ASSUME NEW i \in 1..N, NEW x \in S PROVE WriteRow(x, l, Batch, hidden, seq[i]) \in S
  BY <1>1, <1>2, WriteKeepsRight
<1> DEFINE F == [i \in 1..N |-> [x \in S |-> WriteRow(x, l, Batch, hidden, seq[i])]]
           Body(g) == [D \in SUBSET (1..N) |->
                         IF D = {} THEN base ELSE WriteRow(g[D \ {Max(D)}], l, Batch, hidden, seq[Max(D)])]
           iter == CHOOSE g : g = Body(g)
<1>4. F \in [1..N -> [S -> S]]
  BY <1>3
<1>5. \A i \in 1..N, x \in S : F[i][x] = WriteRow(x, l, Batch, hidden, seq[i])
  OBVIOUS
<1>6. WrittenRows(st, l, hidden) = iter[1..N]
  <2>1. FoldLeft(LAMBDA x, row : WriteRow(x, l, Batch, hidden, row), base, seq) = iter[1..N]
    BY <1>2 DEF FoldLeft, MapThenFoldSet
  <2> HIDE DEF iter
  <2> QED BY <1>1, <2>1 DEF WrittenRows
<1> HIDE DEF F
<1>7. iter = Body(iter)
  <2>1. PICK g : g \in FoldsOf(S, N, base, F)
    <3> HIDE DEF Body
    <3>1. FoldsOf(S, N, base, F) # {}
      BY <1>2, <1>4, FoldExists
    <3> QED BY <3>1
  <2>2. ASSUME NEW D \in SUBSET (1..N)
        PROVE  g[D] = IF D = {} THEN base ELSE WriteRow(g[D \ {Max(D)}], l, Batch, hidden, seq[Max(D)])
    <3> HIDE DEF Body
    <3>1. CASE D # {}
      <4>1. /\ Max(D) \in 1..N /\ g[D \ {Max(D)}] \in S
            /\ g[D] = F[Max(D)][g[D \ {Max(D)}]]
        BY <3>1, <2>1, <1>2, FoldDomain DEF FoldsOf
      <4> QED BY <4>1, <3>1, <1>5
    <3> QED BY <3>1, <2>1 DEF FoldsOf
  <2>3. g = Body(g)
    BY <2>1, <2>2 DEF FoldsOf
  <2> HIDE DEF Body
  <2> QED BY <2>3
<1> HIDE DEF iter
<1>8. \A D \in SUBSET (1..N) :
         iter[D] = IF D = {} THEN base ELSE WriteRow(iter[D \ {Max(D)}], l, Batch, hidden, seq[Max(D)])
  BY <1>7
<1> HIDE DEF Body
<1>9. Iterates(S, N, base, F, iter)
  <2>1. iter[{}] = base
    BY <1>8
  <2>2. ASSUME NEW D \in (SUBSET (1..N)) \ {{}}
        PROVE  iter[D \ {Max(D)}] \in S => iter[D] = F[Max(D)][iter[D \ {Max(D)}]]
    <3>1. Max(D) \in 1..N
      BY <1>2, FoldDomain
    <3> QED BY <3>1, <1>5, <1>8, ZenonT(40)
  <2> QED BY <2>1, <2>2 DEF Iterates
<1>10. PICK h \in StepsOf(S, N, base, F) : h[N] = iter[1..N]
  BY <1>2, <1>4, <1>9, FoldPrefixes
<1>11. /\ h \in [0..N -> S] /\ h[0] = base
       /\ \A i \in 1..N : h[i] = WriteRow(h[i - 1], l, Batch, hidden, seq[i])
  BY <1>2, <1>5, <1>10, FoldDomain DEF StepsOf
<1> QED BY <1>1, <1>2, <1>6, <1>10, <1>11, ZenonT(40)

\* Once the rows of a layer are written, they are right and nothing else is
\* disturbed.
LEMMA LayerWrites ==
  ASSUME Pass, NEW st \in Arenas, NEW l \in Layers, NEW hidden, HiddenOK(l, hidden)
  PROVE  LET to == WrittenRows(st, l, hidden) IN
         /\ to \in Arenas
         /\ \A m \in Layers, id \in Running, i \in Nat :
              i < Len(seqs[id].prompt) /\ Right(st, m, id, i) => Right(to, m, id, i)
         /\ \A row, id, p : RowAt(row, id, p) /\ p < Len(seqs[id].prompt) => Right(to, l, id, p)
<1>1. PICK n, to : /\ n = Len(Batch.tokens)
                   /\ to = WrittenRows(st, l, hidden)
  OBVIOUS
<1>2. n \in Nat /\ Rows(Batch) = 1..n
  BY <1>1, BatchRows DEF Rows, Pass
<1>3. PICK h \in [0..n -> Arenas] :
         /\ h[0] = st /\ h[n] = to
         /\ \A i \in 1..n : h[i] = WriteRow(h[i - 1], l, Batch, hidden, i)
  BY <1>1, RowsWritten
<1> DEFINE Keeps(x) == \A m \in Layers, id \in Running, i \in Nat :
                          i < Len(seqs[id].prompt) /\ Right(st, m, id, i) => Right(x, m, id, i)
           Makes(x, k) == \A row, id, p :
                          row <= k /\ RowAt(row, id, p) /\ p < Len(seqs[id].prompt)
                            => Right(x, l, id, p)
           Good == {k \in Nat : k <= n => Keeps(h[k]) /\ Makes(h[k], k)}
<1>4. Keeps(h[0]) /\ Makes(h[0], 0)
  <2>1. ASSUME NEW row, NEW id, NEW p, row <= 0, RowAt(row, id, p) PROVE FALSE
    <3>1. row \in 1..n
      BY <1>2, <2>1, RowPlace
    <3> QED BY <1>2, <2>1, <3>1
  <2> QED BY <1>3, <2>1
<1>5. ASSUME NEW k \in Nat, Keeps(h[k]), Makes(h[k], k), k + 1 <= n
      PROVE  Keeps(h[k + 1]) /\ Makes(h[k + 1], k + 1)
  <2>1. k \in 0..n /\ k + 1 \in 1..n /\ (k + 1) - 1 = k
    BY <1>2, <1>5
  <2>2. PICK old, next : old = h[k] /\ next = h[k + 1]
    OBVIOUS
  <2>3. old \in Arenas /\ next = WriteRow(old, l, Batch, hidden, k + 1) /\ k + 1 \in Rows(Batch)
    BY <1>2, <1>3, <2>1, <2>2
  <2>4. /\ \A m \in Layers, id \in Running, i \in Nat :
             i < Len(seqs[id].prompt) /\ Right(old, m, id, i) => Right(next, m, id, i)
        /\ \A id, p : RowAt(k + 1, id, p) /\ p < Len(seqs[id].prompt) => Right(next, l, id, p)
    BY <2>3, WriteKeepsRight
  <2>5. Keeps(next)
    BY <1>5, <2>2, <2>4
  <2>6. ASSUME NEW row, NEW id, NEW p, row <= k + 1, RowAt(row, id, p), p < Len(seqs[id].prompt)
        PROVE  Right(next, l, id, p)
    <3>1. row \in 1..n /\ id \in Running /\ p \in Nat
      BY <1>2, <2>6, RowPlace
    <3>2. CASE row = k + 1
      BY <2>4, <2>6, <3>2
    <3>3. CASE row # k + 1
      <4>1. row <= k
        BY <1>2, <2>6, <3>1, <3>3
      <4>2. Right(old, l, id, p)
        BY <1>5, <2>2, <2>6, <4>1
      <4> QED BY <2>4, <2>6, <3>1, <4>2
    <3> QED BY <3>2, <3>3
  <2> QED BY <2>2, <2>5, <2>6
<1> HIDE DEF Keeps, Makes
<1>6. n \in Good
  <2>1. 0 \in Good
    BY <1>4
  <2>2. ASSUME NEW k \in Nat, k \in Good PROVE k + 1 \in Good
    <3>1. k + 1 <= n => k <= n
      BY <1>2
    <3> QED BY <1>5, <2>2, <3>1
  <2> HIDE DEF Good
  <2> QED BY <1>2, <2>1, <2>2, NatInductionOn
<1>7. Keeps(to) /\ Makes(to, n)
  BY <1>2, <1>3, <1>6
<1>8. to \in Arenas
  BY <1>2, <1>3
<1>9. ASSUME NEW row, NEW id, NEW p, RowAt(row, id, p) PROVE row <= n
  BY <1>2, <1>9, RowPlace
<1> QED BY <1>1, <1>7, <1>8, <1>9 DEF Keeps, Makes

-----------------------------------------------------------------------------
(* What a row attends to.                                                   *)

\* What is read is a vector of elements.
LEMMA ReadType ==
  ASSUME NEW st \in Arenas, NEW l \in Layers, NEW at \in Spots, NEW g \in KvHeads, NEW v \in BOOLEAN
  PROVE  read(st, l, at, g, v) \in [1..head_dim -> Element]
<1> DEFINE x == slot_offset(l, at.block, v, at.slot, g)
           Place(d) == [layer |-> l, block |-> at.block, value |-> v, slot |-> at.slot,
                        head |-> g, dim |-> d - 1]
<1>1. ASSUME NEW d \in 1..head_dim PROVE x + (d - 1) \in 0..ArenaLen - 1 /\ x + (d - 1) = x + d - 1
  <2>1. d - 1 \in 0..head_dim - 1
    BY ModelAssumption
  <2>2. Place(d) \in Places /\ OffsetOf(Place(d)) = x + (d - 1)
    BY <2>1 DEF Places, Spots, OffsetOf
  <2>3. x + (d - 1) \in 0..ArenaLen - 1
    <3> HIDE DEF Place, x
    <3> QED BY <2>2, OffsetsDistinct
  <2>4. PICK nb, bs, nk, hd : /\ nb = num_blocks /\ bs = block_size /\ nk = num_kv_heads
                              /\ hd = head_dim
    OBVIOUS
  <2>5. nb \in Nat /\ bs \in Nat /\ nk \in Nat /\ hd \in Nat
    BY <2>4, SizesAssumption, ModelAssumption
  <2>6. l \in Nat /\ at.block \in Nat /\ at.slot \in Nat /\ g \in Nat
    BY SizesAssumption, ModelAssumption DEF Spots, BlockId, Layers, KvHeads
  <2>7. bs * nk \in Int /\ l * nb \in Int /\ at.slot * nk + g \in Int
    BY <2>5, <2>6
  <2>8. PICK s, t : s = bs * nk * hd /\ s \in Int /\ t = (at.slot * nk + g) * hd /\ t \in Int
    BY <2>5, <2>7
  <2>9. l * nb * 2 * s \in Int /\ at.block * 2 * s \in Int
    BY <2>5, <2>6, <2>7, <2>8
  <2>10. x = l * nb * 2 * s + at.block * 2 * s + (IF v THEN s ELSE 0) + t
    BY <2>4, <2>8 DEF slot_offset, region_offset, block_stride
  <2>11. x \in Int
    <3> HIDE DEF x
    <3> QED BY <2>8, <2>9, <2>10
  <2>12. x + (d - 1) = x + d - 1
    <3> HIDE DEF x
    <3> QED BY <2>1, <2>11
  <2> QED BY <2>3, <2>12
<1>2. read(st, l, at, g, v) = [d \in 1..head_dim |-> st[x + d - 1]]
  BY DEF read
<1> HIDE DEF x
<1>3. \A d \in 1..head_dim : st[x + d - 1] \in Element
  BY <1>1 DEF Arenas
<1> QED BY <1>2, <1>3

\* A query head reads the KV head of its group, whose heads are consecutive.
LEMMA HeadGroups ==
  ASSUME NEW qh \in 0..num_attention_heads - 1
  PROVE  /\ kv_head(qh) \in KvHeads
         /\ (CHOOSE h \in KvHeads : qh \in h * group_size..(h + 1) * group_size - 1) = kv_head(qh)
<1>1. PICK A, K, s : A = num_attention_heads /\ K = num_kv_heads /\ s = group_size
  OBVIOUS
<1>2. A \in Nat /\ A > 0 /\ K \in Nat /\ K > 0 /\ A % K = 0 /\ s = A \div K /\ qh \in 0..A - 1
  BY <1>1, ModelAssumption DEF group_size
<1>3. s \in Nat /\ A = K * s
  BY <1>2
<1>4. s > 0
  <2> SUFFICES ASSUME s = 0 PROVE FALSE
    BY <1>3
  <2>1. K * s = 0
    BY <1>2
  <2> QED BY <1>2, <1>3, <2>1
<1>5. PICK q : q = qh \div s
  OBVIOUS
<1>6. q \in Nat /\ s * q <= qh /\ qh < s * q + s
  BY <1>2, <1>3, <1>4, <1>5
<1>7. \A h \in Nat : (h + 1) * s = h * s + s /\ h * s \in Nat
  BY <1>3
<1>8. qh \in q * s..(q + 1) * s - 1
  <2>1. q * s = s * q
    BY <1>3, <1>6
  <2> QED BY <1>2, <1>6, <1>7, <2>1
<1>9. q \in 0..K - 1
  <2> SUFFICES ASSUME K <= q PROVE FALSE
    BY <1>2, <1>6
  <2>1. s * K <= s * q /\ s * K = K * s /\ s * K \in Int /\ s * q \in Int
    BY <1>2, <1>3, <1>6
  <2> QED BY <1>2, <1>3, <1>6, <2>1
<1>10. ASSUME NEW h \in 0..K - 1, qh \in h * s..(h + 1) * s - 1 PROVE h = q
  <2>0. h \in Nat /\ h * s <= qh /\ qh < h * s + s /\ h * s \in Nat
    BY <1>2, <1>7, <1>10
  <2>1. q * s <= qh /\ qh < q * s + s /\ q * s \in Nat
    BY <1>2, <1>6, <1>7, <1>8
  <2>2. ~(h < q)
    <3> SUFFICES ASSUME h + 1 <= q PROVE FALSE
      BY <1>6, <2>0
    <3>1. (h + 1) * s <= q * s
      BY <1>3, <1>6, <2>0
    <3> QED BY <1>2, <1>3, <1>7, <2>0, <2>1, <3>1
  <2>3. ~(q < h)
    <3> SUFFICES ASSUME q + 1 <= h PROVE FALSE
      BY <1>6, <2>0
    <3>1. (q + 1) * s <= h * s
      BY <1>3, <1>6, <2>0
    <3> QED BY <1>2, <1>3, <1>6, <1>7, <2>0, <2>1, <3>1
  <2> QED BY <1>6, <2>0, <2>2, <2>3
<1> DEFINE Heads(h) == qh \in h * s..(h + 1) * s - 1
<1>11. (CHOOSE h \in 0..K - 1 : Heads(h)) = q
  <2>1. \A h \in 0..K - 1 : Heads(h) <=> h = q
    BY <1>8, <1>10
  <2> HIDE DEF Heads
  <2> QED BY <1>9, <2>1
<1>12. kv_head(qh) = q /\ KvHeads = 0..K - 1
  BY <1>1, <1>5 DEF kv_head, KvHeads
<1> QED BY <1>1, <1>9, <1>11, <1>12

\* What attention makes of a position: the last token of the value's context.
TokenRead(v, token) == IF v = Zero \/ v[6] = Noise THEN token ELSE Last(v[6])

LEMMA TokenReadType ==
  ASSUME NEW v \in Element, NEW token \in Int PROVE TokenRead(v, token) \in Int
<1>1. CASE v = Zero \/ v[6] = Noise
  BY <1>1 DEF TokenRead
<1>2. CASE ~(v = Zero \/ v[6] = Noise)
  <2>1. v[6] \in Seq(Int) /\ v[6] # << >>
    BY <1>2 DEF Element, Noise
  <2>2. PICK h : h = v[6]
    OBVIOUS
  <2>3. Len(h) \in 1..Len(h) /\ h \in Seq(Int)
    BY <2>1, <2>2, EmptySeq
  <2>4. Last(h) \in Int
    BY <2>3 DEF Last
  <2> QED BY <1>2, <2>2, <2>4 DEF TokenRead
<1> QED BY <1>1, <1>2

\* Attention unfolded.
Saw(st, l, T, p, token) ==
  [j \in 1..p + 1 |-> TokenRead(Attended(st, l, T, 0, p)[j].v[1], token)]

Attends(st, l, T, token, p, seen) ==
  paged_attention(st, l, T, token, p) =
    IF seen # << >> /\ Last(seen) = token
       /\ \A qh \in 0..num_attention_heads - 1 :
            Attended(st, l, T, qh, p) = Faithful(l, qh, seen)
    THEN seen ELSE Noise

LEMMA AttentionIs ==
  ASSUME NEW st, NEW l, NEW T, NEW token, NEW p \in Nat
  PROVE  Attends(st, l, T, token, p, Saw(st, l, T, p, token))
<1> USE DEF Attends
<1>1. Len(Attended(st, l, T, 0, p)) = p + 1
  BY DEF Attended, attend_len
<1> QED BY <1>1 DEF paged_attention, Saw, TokenRead

\* Whatever attention reads, it leaves a sequence of tokens.
LEMMA AttentionType ==
  ASSUME NEW st \in Arenas, NEW l \in Layers, NEW T \in Seq(BlockId), NEW p \in Nat,
         HasBlock(T, p), NEW token \in Int
  PROVE  paged_attention(st, l, T, token, p) \in Seq(Int)
<1>1. 0 \in 0..num_attention_heads - 1 /\ 1 \in 1..head_dim
  BY ModelAssumption
<1>2. kv_head(0) \in KvHeads
  BY <1>1, HeadGroups
<1>3. ASSUME NEW j \in 1..p + 1 PROVE TokenRead(Attended(st, l, T, 0, p)[j].v[1], token) \in Int
  <2>1. j - 1 \in Nat /\ j - 1 <= p
    OBVIOUS
  <2>2. PICK at : at = locate(T, j - 1)
    OBVIOUS
  <2>3. at \in Spots
    BY <2>1, <2>2, EarlierHasBlock, SpotOf
  <2>4. read(st, l, at, kv_head(0), TRUE) \in [1..head_dim -> Element]
    BY <1>2, <2>3, ReadType
  <2>5. Attended(st, l, T, 0, p)[j].v = read(st, l, at, kv_head(0), TRUE)
    BY <2>2 DEF Attended, attend_len
  <2>6. Attended(st, l, T, 0, p)[j].v[1] \in Element
    BY <1>1, <2>4, <2>5
  <2> QED BY <2>6, TokenReadType
<1>4. Saw(st, l, T, p, token) \in Seq(Int)
  BY <1>3 DEF Saw
<1>5. PICK seen : seen = Saw(st, l, T, p, token)
  OBVIOUS
<1>6. Attends(st, l, T, token, p, seen)
  BY <1>5, AttentionIs
<1> QED BY <1>4, <1>5, <1>6 DEF Attends, Noise

\* Where every position through a row's own is right, attention makes the context
\* of the row.
LEMMA AttentionExact ==
  ASSUME NEW st, NEW l \in Layers, NEW T, NEW id, NEW p \in Nat, NEW x \in Seq(Int),
         T = cache.tables[id].blocks, x = seqs[id].prompt, p < Len(x),
         \A i \in 0..p : Right(st, l, id, i)
  PROVE  paged_attention(st, l, T, x[p + 1], p) = Through(x, p)
<1>1. 0 \in 0..num_attention_heads - 1 /\ 1 \in 1..head_dim /\ l \in Nat /\ Len(x) \in Nat
  BY ModelAssumption DEF Layers
<1>2. PICK ctx : ctx = Through(x, p)
  OBVIOUS
<1>3. /\ ctx \in Seq(Int) /\ Len(ctx) = p + 1 /\ ctx # << >> /\ ctx = [j \in 1..p + 1 |-> x[j]]
      /\ Last(ctx) = x[p + 1]
  <2>1. ContextIs(x, p, ctx)
    BY <1>2, HiddenType
  <2> QED BY <2>1 DEF Last, ContextIs
<1>4. ASSUME NEW j \in 1..p + 1
      PROVE  /\ j - 1 \in 0..p /\ j - 1 \in Nat /\ j - 1 < Len(x) /\ (j - 1) + 1 = j
             /\ SubSeq(ctx, 1, j) = Through(x, j - 1)
  <2>1. j - 1 \in 0..p /\ j - 1 < Len(x) /\ j \in 1..Len(x) /\ (j - 1) + 1 = j
    BY <1>1
  <2>2. SubSeq(x, 1, j) = [k \in 1..j |-> x[k]]
    BY <1>1, <2>1
  <2>3. SubSeq(ctx, 1, j) = [k \in 1..j |-> ctx[k]]
    BY <1>3, <2>1
  <2>4. \A k \in 1..j : ctx[k] = x[k]
    BY <1>3
  <2> QED BY <2>1, <2>2, <2>3, <2>4 DEF Through
<1>5. ASSUME NEW qh \in 0..num_attention_heads - 1, NEW j \in 1..p + 1
      PROVE  LET h == Hidden(l, Through(x, j - 1)) IN
             /\ Attended(st, l, T, qh, p)[j]
                  = [k |-> Key(l, kv_head(qh), j - 1, h), v |-> Value(l, kv_head(qh), h)]
             /\ Faithful(l, qh, ctx)[j]
                  = [k |-> Key(l, kv_head(qh), j - 1, h), v |-> Value(l, kv_head(qh), h)]
  <2>1. PICK h, at, g : /\ h = Hidden(l, Through(x, j - 1)) /\ at = locate(T, j - 1)
                        /\ g = kv_head(qh)
    OBVIOUS
  <2>2. g \in KvHeads
    BY <2>1, HeadGroups
  <2>3. HasKV(st, l, at, g, j - 1, h)
    <3>1. Right(st, l, id, j - 1)
      BY <1>4
    <3> QED BY <2>1, <2>2, <3>1 DEF Right
  <2>4. Attended(st, l, T, qh, p)[j] = [k |-> Key(l, g, j - 1, h), v |-> Value(l, g, h)]
    BY <2>1, <2>3 DEF Attended, attend_len, HasKV
  <2>5. Faithful(l, qh, ctx)[j] = [k |-> Key(l, g, j - 1, h), v |-> Value(l, g, h)]
    <3>1. (CHOOSE e \in KvHeads : qh \in e * group_size..(e + 1) * group_size - 1) = g
      BY <2>1, HeadGroups
    <3>2. SubSeq(ctx, 1, j) = Through(x, j - 1)
      BY <1>4
    <3> QED BY <1>3, <2>1, <3>1, <3>2 DEF Faithful
  <2> QED BY <2>1, <2>4, <2>5
<1>6. \A qh \in 0..num_attention_heads - 1 : Attended(st, l, T, qh, p) = Faithful(l, qh, ctx)
  <2> SUFFICES ASSUME NEW qh \in 0..num_attention_heads - 1
               PROVE  Attended(st, l, T, qh, p) = Faithful(l, qh, ctx)
    OBVIOUS
  <2>1. PICK a, f : a = Attended(st, l, T, qh, p) /\ f = Faithful(l, qh, ctx)
    OBVIOUS
  <2>2. a = [j \in 1..p + 1 |-> a[j]]
    BY <2>1 DEF Attended, attend_len
  <2>3. f = [j \in 1..p + 1 |-> f[j]]
    BY <1>3, <2>1 DEF Faithful
  <2>4. \A j \in 1..p + 1 : a[j] = f[j]
    BY <1>5, <2>1
  <2> QED BY <2>1, <2>2, <2>3, <2>4
<1>7. Saw(st, l, T, p, x[p + 1]) = ctx
  <2>1. ASSUME NEW j \in 1..p + 1
        PROVE  TokenRead(Attended(st, l, T, 0, p)[j].v[1], x[p + 1]) = x[j]
    <3>1. PICK h, e : h = Hidden(l, Through(x, j - 1)) /\ e = <<l, "v", kv_head(0), 1, 0, h>>
      OBVIOUS
    <3>2. h # << >> /\ Last(h) = x[j]
      <4>1. PICK i : i = j - 1 /\ i \in Nat /\ i < Len(x) /\ i + 1 = j
        BY <1>4
      <4>2. StateIs(x, i, h)
        BY <3>1, <4>1, HiddenType
      <4> QED BY <4>1, <4>2 DEF StateIs
    <3>3. Attended(st, l, T, 0, p)[j].v[1] = e
      <4>1. Attended(st, l, T, 0, p)[j].v = Value(l, kv_head(0), h)
        <5>1. Attended(st, l, T, 0, p)[j] = [k |-> Key(l, kv_head(0), j - 1, h),
                                             v |-> Value(l, kv_head(0), h)]
          BY <1>1, <1>5, <3>1
        <5> QED BY <5>1
      <4> QED BY <1>1, <3>1, <4>1 DEF Value
    <3>4. e # Zero /\ e[6] = h
      BY <3>1 DEF Zero
    <3> QED BY <3>2, <3>3, <3>4 DEF TokenRead, Noise
  <2> QED BY <1>3, <2>1 DEF Saw
<1>8. PICK token : token = x[p + 1]
  OBVIOUS
<1>9. Attends(st, l, T, token, p, Saw(st, l, T, p, token))
  BY AttentionIs
<1>10. Attends(st, l, T, token, p, ctx)
  BY <1>7, <1>8, <1>9
<1> QED BY <1>2, <1>3, <1>6, <1>8, <1>10 DEF Attends

-----------------------------------------------------------------------------
(* A layer, and the layers one after another.                               *)

\* Position i of the prompt was computed by an earlier pass.  While a batch is
\* under way its own chunks count as computed and are not yet.
Done(id, i) ==
  /\ i < seqs[id].computed
  /\ phase = "batched" => \A k \in DOMAIN scheduled :
       scheduled[k].id = id /\ scheduled[k].is_prefill => i < scheduled[k].start_position

\* The arena holds what earlier passes computed.
Known(st) ==
  \A l \in Layers, id \in Running, i \in Nat : Done(id, i) => Right(st, l, id, i)

\* In a layer the positions of the batch are right too.
Placed(st, l) ==
  \A row, id, p : RowAt(row, id, p) /\ p < Len(seqs[id].prompt) => Right(st, l, id, p)

\* After n layers.
After(n, s) ==
  /\ s.store \in Arenas /\ s.hidden \in [Rows(Batch) -> Seq(Int)]
  /\ Known(s.store) /\ HiddenOK(n, s.hidden)
  /\ \A m \in Layers : m < n => Placed(s.store, m)

\* The positions before a prompt row's own are done, or rows of the batch.
LEMMA EarlierRows ==
  ASSUME Pass, phase = "batched", NEW row, NEW id, NEW p, RowAt(row, id, p),
         p < Len(seqs[id].prompt), NEW j \in 0..p
  PROVE  Done(id, j) \/ \E q : RowAt(q, id, j)
<1>0. PICK i \in DOMAIN scheduled : \E k \in 1..scheduled[i].num_tokens :
         /\ RowFor(Batch, row, i, k)
         /\ id = scheduled[i].id /\ p = scheduled[i].start_position + k - 1
  BY DEF RowAt
<1>1. PICK k \in 1..scheduled[i].num_tokens :
         /\ RowFor(Batch, row, i, k)
         /\ id = scheduled[i].id /\ p = scheduled[i].start_position + k - 1
  BY <1>0
<1>2. Granted /\ SeqsType /\ RowOK(scheduled[i])
  BY DEF Pass, Granted
<1>3. PICK r, n, a : r = scheduled[i] /\ n = r.num_tokens /\ a = r.start_position
  OBVIOUS
<1>4. r \in Row /\ n \in Nat /\ a \in Nat /\ k \in 1..n /\ id = r.id /\ p = a + k - 1 /\ id \in DOMAIN seqs
  <2>1. r \in Row /\ r.id \in DOMAIN seqs
    BY <1>2, <1>3, RowTokensAre
  <2> QED BY <1>1, <1>3, <2>1 DEF Row
<1>5. Len(seqs[id].prompt) \in Nat
  BY <1>2, <1>4, PromptIs
<1>6. r.is_prefill /\ a + n = seqs[id].computed
  <2>1. ASSUME ~r.is_prefill PROVE FALSE
    <3>1. a >= Len(seqs[id].prompt)
      BY <1>2, <1>3, <1>4, <2>1 DEF RowOK
    <3> QED BY <1>4, <1>5, <3>1
  <2> QED BY <1>2, <1>3, <1>4, <2>1 DEF RowOK
<1>7. CASE j < a
  <2>1. j < seqs[id].computed
    BY <1>4, <1>6, <1>7
  <2>2. ASSUME NEW m \in DOMAIN scheduled, scheduled[m].id = id PROVE j < scheduled[m].start_position
    <3>1. m = i
      BY <1>2, <1>3, <1>4, <2>2 DEF Granted
    <3> QED BY <1>3, <1>7, <3>1
  <2> QED BY <2>1, <2>2 DEF Done
<1>8. CASE j >= a
  <2>1. PICK q : q = j - a + 1
    OBVIOUS
  <2>2. q \in 1..n /\ j = a + q - 1
    BY <1>4, <1>8, <2>1
  <2>3. RowFor(Batch, Offset(Batch, i) + q, i, q)
    BY <1>2, <1>3, <2>2, BatchRows
  <2>4. RowAt(Offset(Batch, i) + q, id, j)
    BY <1>3, <1>4, <2>2, <2>3 DEF RowAt
  <2> QED BY <2>4
<1> QED BY <1>4, <1>7, <1>8

\* What is done lies in the prompt.
LEMMA DoneInPrompt ==
  ASSUME SeqsType, NEW id \in Running, NEW i \in Nat, Done(id, i)
  PROVE  i < Len(seqs[id].prompt)
<1>1. id \in DOMAIN seqs
  BY RunningPrompt
<1>2. seqs[id].computed \in Nat /\ seqs[id].computed <= Len(seqs[id].prompt) /\ Len(seqs[id].prompt) \in Nat
  BY <1>1, PromptIs
<1> QED BY <1>2 DEF Done

\* One layer.
LEMMA LayerStep ==
  ASSUME Pass, phase = "batched", NEW l \in Layers, NEW s, After(l, s)
  PROVE  After(l + 1, layer_forward(l, Batch, s))
<1>1. PICK old, hidden, to, next :
         /\ old = s.store /\ hidden = s.hidden /\ to = WrittenRows(old, l, hidden)
         /\ next = layer_forward(l, Batch, s).hidden
  OBVIOUS
<1>21. layer_forward(l, Batch, s) =
         [store  |-> WrittenRows(s.store, l, s.hidden),
          hidden |-> [row \in Rows(Batch) |->
             IF s.hidden[row] = Noise THEN Noise
             ELSE paged_attention(WrittenRows(s.store, l, s.hidden), l, TableOf(Batch, row),
                                  Batch.tokens[row], Batch.positions[row])]]
  BY DEF layer_forward, WrittenRows
<1>2. layer_forward(l, Batch, s).store = to
  BY <1>1, <1>21
<1>3. next = [row \in Rows(Batch) |->
                IF hidden[row] = Noise THEN Noise
                ELSE paged_attention(to, l, TableOf(Batch, row), Batch.tokens[row],
                                     Batch.positions[row])]
  BY <1>1, <1>21
<1>4. /\ old \in Arenas /\ Known(old) /\ HiddenOK(l, hidden)
      /\ \A m \in Layers : m < l => Placed(old, m)
      /\ l \in Nat /\ l + 1 # 0
  BY <1>1 DEF After, Layers
<1>5. /\ to \in Arenas
      /\ \A m \in Layers, id \in Running, i \in Nat :
           i < Len(seqs[id].prompt) /\ Right(old, m, id, i) => Right(to, m, id, i)
      /\ \A row, id, p : RowAt(row, id, p) /\ p < Len(seqs[id].prompt) => Right(to, l, id, p)
  BY <1>1, <1>4, LayerWrites
<1>6. SeqsType
  BY DEF Pass, Granted
<1>7. Known(to)
  BY <1>4, <1>5, <1>6, DoneInPrompt DEF Known
<1>8. Placed(to, l)
  BY <1>5 DEF Placed
<1>9. ASSUME NEW m \in Layers, m < l PROVE Placed(to, m)
  <2> SUFFICES ASSUME NEW row, NEW id, NEW p, RowAt(row, id, p), p < Len(seqs[id].prompt)
               PROVE  Right(to, m, id, p)
    BY DEF Placed
  <2>1. Right(old, m, id, p)
    BY <1>4, <1>9 DEF Placed
  <2>2. id \in Running /\ p \in Nat
    BY RowPlace
  <2> QED BY <1>5, <2>1, <2>2
<1>10. \A m \in Layers : m < l + 1 => Placed(to, m)
  <2>1. \A m \in Layers : m < l + 1 => m < l \/ m = l
    BY ModelAssumption DEF Layers
  <2> QED BY <1>8, <1>9, <2>1
<1>11. ASSUME NEW row \in Rows(Batch) PROVE next[row] \in Seq(Int)
  <2>1. PICK id, p : RowAt(row, id, p)
    BY RowsHavePlaces
  <2>2. PICK T : T = cache.tables[id].blocks
    OBVIOUS
  <2>3. /\ id \in Running /\ p \in Nat /\ Batch.positions[row] = p /\ TableOf(Batch, row) = T
        /\ HasBlock(T, p) /\ Batch.tokens[row] \in Int
    BY <2>1, <2>2, RowPlace
  <2>4. T \in Seq(BlockId)
    BY <1>6, <2>2, <2>3, RunningPrompt, TableBlocks DEF Pass
  <2>5. paged_attention(to, l, T, Batch.tokens[row], p) \in Seq(Int)
    BY <1>5, <2>3, <2>4, AttentionType
  <2>6. Noise \in Seq(Int)
    BY DEF Noise
  <2> QED BY <1>3, <2>3, <2>5, <2>6
<1>12. ASSUME NEW row \in Rows(Batch), NEW id, NEW p, RowAt(row, id, p), p < Len(seqs[id].prompt)
       PROVE  next[row] = Hidden(l + 1, Through(seqs[id].prompt, p))
  <2>1. PICK T, x : T = cache.tables[id].blocks /\ x = seqs[id].prompt
    OBVIOUS
  <2>2. /\ id \in Running /\ p \in Nat /\ Batch.positions[row] = p /\ TableOf(Batch, row) = T
        /\ Batch.tokens[row] = x[p + 1]
    BY <1>12, <2>1, RowPlace
  <2>3. x \in Seq(Int) /\ p < Len(x)
    BY <1>6, <1>12, <2>1, <2>2, RunningPrompt
  <2>4. hidden[row] # Noise
    <3>1. hidden[row] = Hidden(l, Through(x, p))
      BY <1>4, <1>12, <2>1 DEF HiddenOK
    <3>2. StateIs(x, p, Hidden(l, Through(x, p)))
      BY <2>2, <2>3, HiddenType
    <3> QED BY <3>1, <3>2 DEF StateIs, Noise
  <2>5. ASSUME NEW i \in 0..p PROVE Right(to, l, id, i)
    <3>1. CASE Done(id, i)
      <4>1. i \in Nat
        BY <2>2
      <4> QED BY <1>7, <2>2, <3>1, <4>1 DEF Known
    <3>2. CASE \E q : RowAt(q, id, i)
      <4>1. i < Len(x)
        BY <2>2, <2>3
      <4> QED BY <1>5, <2>1, <3>2, <4>1
    <3> QED BY <1>12, <3>1, <3>2, EarlierRows
  <2>6. paged_attention(to, l, T, x[p + 1], p) = Through(x, p)
    BY <2>1, <2>2, <2>3, <2>5, AttentionExact, ZenonT(60)
  <2>7. next[row] = Through(x, p)
    BY <1>3, <2>2, <2>4, <2>6
  <2> QED BY <1>4, <2>1, <2>7 DEF Hidden
<1>13. HiddenOK(l + 1, next)
  BY <1>11, <1>12 DEF HiddenOK
<1>14. next \in [Rows(Batch) -> Seq(Int)]
  BY <1>3, <1>11
<1> QED BY <1>1, <1>2, <1>5, <1>7, <1>10, <1>13, <1>14 DEF After

\* What the embedding leaves.
LEMMA FirstLayer ==
  ASSUME Pass, arena \in Arenas, Known(arena)
  PROVE  After(0, [store |-> arena, hidden |-> embed(Batch)])
<1>1. PICK e : e = embed(Batch)
  OBVIOUS
<1>2. e = [row \in Rows(Batch) |-> <<Batch.tokens[row]>>]
  BY <1>1 DEF embed
<1>3. \A row \in Rows(Batch) : e[row] \in Seq(Int)
  BY <1>2, BatchRows DEF Pass
<1>4. ASSUME NEW row, NEW id, NEW p, RowAt(row, id, p), p < Len(seqs[id].prompt)
      PROVE  e[row] = Hidden(0, Through(seqs[id].prompt, p))
  <2>1. PICK x : x = seqs[id].prompt
    OBVIOUS
  <2>2. id \in Running /\ p \in Nat /\ row \in Rows(Batch) /\ Batch.tokens[row] = x[p + 1]
    BY <1>4, <2>1, RowPlace
  <2>3. x \in Seq(Int) /\ p < Len(x)
    BY <1>4, <2>1, <2>2, RunningPrompt DEF Pass, Granted
  <2>4. ContextIs(x, p, Through(x, p))
    BY <2>2, <2>3, HiddenType
  <2>5. Last(Through(x, p)) = x[p + 1]
    BY <2>2, <2>4 DEF ContextIs, Last
  <2> QED BY <1>2, <2>1, <2>2, <2>5 DEF Hidden
<1>5. \A m \in Layers : ~(m < 0)
  BY ModelAssumption DEF Layers
<1>6. HiddenOK(0, e)
  BY <1>3, <1>4 DEF HiddenOK
<1>7. e \in [Rows(Batch) -> Seq(Int)]
  BY <1>2, <1>3
<1> QED BY <1>1, <1>5, <1>6, <1>7 DEF After

\* All layers.
LEMMA LayersExact ==
  ASSUME Pass, phase = "batched", arena \in Arenas, Known(arena)
  PROVE  After(num_layers, AfterLayers(arena, Batch))
<1>1. PICK N, S, base, b : /\ N = num_layers /\ b = Batch
                           /\ S = [store : Arenas, hidden : [Rows(Batch) -> Seq(Int)]]
                           /\ base = [store |-> arena, hidden |-> embed(Batch)]
  OBVIOUS
<1>2. N \in Nat /\ Layers = 0..N - 1
  BY <1>1, ModelAssumption DEF Layers
<1>3. After(0, base) /\ base \in S
  <2>1. After(0, base)
    BY <1>1, FirstLayer
  <2> QED BY <1>1, <2>1 DEF After
<1>4. ASSUME NEW i \in 1..N, NEW x, After(i - 1, x)
      PROVE  After(i, layer_forward(i - 1, b, x)) /\ layer_forward(i - 1, b, x) \in S
  <2>1. i - 1 \in Layers /\ (i - 1) + 1 = i
    BY <1>2
  <2>2. After((i - 1) + 1, layer_forward(i - 1, Batch, x))
    BY <1>4, <2>1, LayerStep
  <2>3. After(i, layer_forward(i - 1, Batch, x))
    BY <2>1, <2>2
  <2>4. layer_forward(i - 1, Batch, x) =
          [store |-> layer_forward(i - 1, Batch, x).store,
           hidden |-> layer_forward(i - 1, Batch, x).hidden]
    BY DEF layer_forward
  <2>5. PICK y : y = layer_forward(i - 1, Batch, x)
    OBVIOUS
  <2>6. y \in S
    BY <1>1, <2>3, <2>4, <2>5 DEF After
  <2> QED BY <1>1, <2>3, <2>5, <2>6
<1> DEFINE F == [i \in 1..N |-> [x \in S |-> IF After(i - 1, x) THEN layer_forward(i - 1, b, x)
                                             ELSE base]]
           Body(g) == [n \in 0..N |-> IF n = 0 THEN base ELSE layer_forward(n - 1, b, g[n - 1])]
           sum == CHOOSE g : g = Body(g)
<1>5. AfterLayers(arena, Batch) = sum[N]
  BY <1>1 DEF AfterLayers
<1>6. F \in [1..N -> [S -> S]]
  BY <1>3, <1>4
<1>7. \A i \in 1..N, x \in S : After(i - 1, x) => F[i][x] = layer_forward(i - 1, b, x)
  OBVIOUS
<1> HIDE DEF F
<1>8. PICK h : h \in StepsOf(S, N, base, F)
  BY <1>2, <1>3, <1>6, StepsExist
<1>9. \A i \in 1..N : i - 1 \in 0..N /\ i \in 0..N
  BY <1>2
<1>10. h \in [0..N -> S] /\ h[0] = base /\ \A i \in 1..N : h[i] = F[i][h[i - 1]]
  BY <1>8 DEF StepsOf
<1> DEFINE Good == {n \in Nat : n <= N => After(n, h[n])}
<1>11. \A n \in Nat : n \in Good
  <2>1. 0 \in Good
    BY <1>3, <1>10
  <2>2. ASSUME NEW n \in Nat, n \in Good PROVE n + 1 \in Good
    <3> SUFFICES ASSUME n + 1 <= N PROVE After(n + 1, h[n + 1])
      OBVIOUS
    <3>1. n + 1 \in 1..N /\ (n + 1) - 1 = n /\ n \in 0..N /\ After(n, h[n])
      BY <1>2, <2>2
    <3>2. PICK i, x, y : i = n + 1 /\ x = h[n] /\ y = h[n + 1]
      OBVIOUS
    <3>3. i \in 1..N /\ After(i - 1, x) /\ x \in S /\ y = F[i][x]
      BY <1>10, <3>1, <3>2
    <3>4. y = layer_forward(i - 1, b, x)
      BY <1>7, <3>3
    <3>5. After(i, y)
      BY <1>4, <3>3, <3>4
    <3> QED BY <3>2, <3>5
  <2> HIDE DEF Good
  <2> QED BY <2>1, <2>2, NatInductionOn
<1>12. \A n \in 0..N : After(n, h[n])
  BY <1>2, <1>11
<1>13. ASSUME NEW i \in 1..N PROVE h[i] = layer_forward(i - 1, b, h[i - 1])
  <2>1. i - 1 \in 0..N /\ h[i - 1] \in S /\ After(i - 1, h[i - 1]) /\ h[i] = F[i][h[i - 1]]
    BY <1>9, <1>10, <1>12
  <2> QED BY <1>7, <2>1
<1>14. h = Body(h)
  <2>1. \A n \in 0..N : h[n] = IF n = 0 THEN base ELSE layer_forward(n - 1, b, h[n - 1])
    <3>1. \A n \in 0..N : n = 0 \/ n \in 1..N
      BY <1>2
    <3> QED BY <1>10, <1>13, <3>1
  <2> QED BY <1>10, <2>1
<1>15. sum = Body(sum)
  <2> HIDE DEF Body
  <2> QED BY <1>14
<1> HIDE DEF sum
<1>16. sum[0] = base /\ \A i \in 1..N : sum[i] = layer_forward(i - 1, b, sum[i - 1])
  <2>1. 0 \in 0..N /\ \A i \in 1..N : i \in 0..N /\ i # 0
    BY <1>2
  <2> QED BY <1>15, <2>1
<1>17. PICK f : f = sum
  OBVIOUS
<1>18. Follows(f, h, N)
  BY <1>10, <1>13, <1>16, <1>17 DEF Follows
<1>19. \A i \in 0..N : f[i] = h[i]
  BY <1>2, <1>18, StepsAgree
<1>20. N \in 0..N
  BY <1>2
<1> QED BY <1>1, <1>5, <1>12, <1>17, <1>19, <1>20

-----------------------------------------------------------------------------
(* A whole pass.                                                            *)

\* Everything that counts as computed is right.
Computed(st) ==
  \A l \in Layers, id \in Running, i \in Nat : i < seqs[id].computed => Right(st, l, id, i)

\* The logits of the prompt rows.
LogitsOfPrompts(logits) ==
  \A i \in DOMAIN scheduled : LET r == scheduled[i] IN
     r.is_prefill => logits[i] = SubSeq(seqs[r.id].prompt, 1, r.start_position + r.num_tokens)

\* Positions that count as computed are done, or rows of the batch.
LEMMA ComputedRows ==
  ASSUME Pass, NEW id \in Running, NEW j \in Nat, j < seqs[id].computed
  PROVE  Done(id, j) \/ \E q : RowAt(q, id, j)
<1> SUFFICES ASSUME ~Done(id, j) PROVE \E q : RowAt(q, id, j)
  OBVIOUS
<1>1. PICK i \in DOMAIN scheduled : /\ scheduled[i].id = id /\ scheduled[i].is_prefill
                                    /\ ~(j < scheduled[i].start_position)
  BY DEF Done
<1>2. Granted /\ SeqsType /\ RowOK(scheduled[i])
  BY DEF Pass, Granted
<1>3. PICK r, n, a : r = scheduled[i] /\ n = r.num_tokens /\ a = r.start_position
  OBVIOUS
<1>4. r \in Row /\ n \in Nat /\ a \in Nat
  <2>1. r \in Row
    BY <1>2, <1>3, RowTokensAre
  <2> QED BY <1>3, <2>1 DEF Row
<1>5. a + n = seqs[id].computed
  BY <1>1, <1>2, <1>3 DEF RowOK
<1>6. PICK q : q = j - a + 1
  OBVIOUS
<1>7. q \in 1..n /\ j = a + q - 1
  BY <1>1, <1>3, <1>4, <1>5, <1>6
<1>8. RowFor(Batch, Offset(Batch, i) + q, i, q)
  BY <1>2, <1>3, <1>7, BatchRows
<1>9. RowAt(Offset(Batch, i) + q, id, j)
  BY <1>1, <1>3, <1>7, <1>8 DEF RowAt
<1> QED BY <1>9

\* The last row of a prompt's chunk is at its last position.
LEMMA LastRow ==
  ASSUME Granted, NEW i \in DOMAIN scheduled
  PROVE  /\ RowAt(last_row(Batch, i), scheduled[i].id,
                  scheduled[i].start_position + scheduled[i].num_tokens - 1)
         /\ scheduled[i].num_tokens \in Nat \ {0} /\ scheduled[i].start_position \in Nat
<1>1. PICK r, n : r = scheduled[i] /\ n = r.num_tokens
  OBVIOUS
<1>2. n \in Nat /\ n # 0 /\ r.start_position \in Nat
  <2>1. r \in Row /\ RowOK(r)
    BY <1>1, RowTokensAre DEF Granted
  <2> QED BY <1>1, <2>1 DEF Row, RowOK
<1>3. n \in 1..n
  BY <1>2
<1>4. RowFor(Batch, Offset(Batch, i) + n, i, n) /\ Batch.slot_token_counts[i] = n
  BY <1>1, <1>3, BatchRows
<1>5. last_row(Batch, i) = Offset(Batch, i) + n
  BY <1>4 DEF last_row
<1> QED BY <1>1, <1>2, <1>3, <1>4, <1>5 DEF RowAt

\* A refused pass leaves the arena; one that is not leaves it right wherever
\* prompts count as computed, and answers each prompt row with its context.
LEMMA ForwardExact ==
  ASSUME Granted, CacheInv(cache, PromptOf), scheduled # << >>
  PROVE  LET out == forward(arena, Batch) IN
         /\ out.ok \in BOOLEAN
         /\ ~out.ok => out.store = arena
         /\ out.ok => Pass
         /\ out.ok /\ phase = "batched" /\ arena \in Arenas /\ Known(arena) =>
              /\ out.store \in Arenas
              /\ Known(out.store) /\ Computed(out.store) /\ LogitsOfPrompts(out.logits)
<1>1. PICK out, b, n : out = forward(arena, b) /\ b = Batch /\ n = Len(scheduled)
  OBVIOUS
<1>2. n \in Nat /\ DOMAIN scheduled = 1..n /\ 1 \in DOMAIN scheduled /\ Len(b.sequence_ids) = n
  <2>1. scheduled \in Seq(Row) /\ Len(b.sequence_ids) = Len(scheduled)
    BY <1>1, BatchRows DEF Granted
  <2>2. n \in Nat /\ n # 0
    BY <1>1, <2>1, EmptySeq
  <2> QED BY <1>1, <2>1, <2>2
<1>3. \A i \in 1..n : b.slot_token_counts[i] # 0
  BY <1>1, <1>2, BatchRows DEF Granted, RowOK
<1>4. b.tokens # << >>
  <2> SUFFICES ASSUME b.tokens = << >> PROVE FALSE
    OBVIOUS
  <2>1. RowFor(b, last_row(b, 1), 1, scheduled[1].num_tokens)
    <3>1. scheduled[1].num_tokens \in Nat \ {0}
      BY <1>2, LastRow
    <3>2. scheduled[1].num_tokens \in 1..scheduled[1].num_tokens
      BY <3>1
    <3>3. /\ RowFor(b, Offset(b, 1) + scheduled[1].num_tokens, 1, scheduled[1].num_tokens)
          /\ b.slot_token_counts[1] = scheduled[1].num_tokens
      BY <1>1, <1>2, <3>2, BatchRows
    <3> QED BY <3>3 DEF last_row
  <2>2. last_row(b, 1) \in 1..Len(b.tokens)
    BY <2>1 DEF RowFor, Rows
  <2>3. Len(b.tokens) = 0
    OBVIOUS
  <2> QED BY <2>2, <2>3
<1>5. Answer(arena, b) =
        [ok |-> TRUE, store |-> AfterLayers(arena, b).store,
         logits |-> [i \in 1..n |-> AfterLayers(arena, b).hidden[last_row(b, i)]]]
  BY <1>2, <1>3 DEF Answer
<1>6. out = IF validate(b) /\ Located(b) /\ InVocabulary(b) /\ InRope(b)
            THEN Answer(arena, b) ELSE Refused(arena)
  BY <1>1, <1>4 DEF forward
<1>7. out.ok \in BOOLEAN /\ (~out.ok => out.store = arena)
  BY <1>5, <1>6 DEF Refused
<1>8. ASSUME out.ok PROVE Pass /\ out = Answer(arena, b)
  <2>1. Located(b) /\ out = Answer(arena, b)
    BY <1>6, <1>8 DEF Refused
  <2> QED BY <1>1, <2>1 DEF Pass
<1>9. ASSUME out.ok, phase = "batched", arena \in Arenas, Known(arena)
      PROVE  /\ out.store \in Arenas
             /\ Known(out.store) /\ Computed(out.store) /\ LogitsOfPrompts(out.logits)
  <2>1. Pass /\ out = Answer(arena, b) /\ SeqsType
    BY <1>8, <1>9 DEF Pass, Granted
  <2>2. PICK s : s = AfterLayers(arena, b)
    OBVIOUS
  <2>3. After(num_layers, s)
    BY <1>1, <1>9, <2>1, <2>2, LayersExact
  <2>4. out.store = s.store /\ out.logits = [i \in 1..n |-> s.hidden[last_row(b, i)]]
    BY <1>5, <2>1, <2>2
  <2>5. s.store \in Arenas /\ Known(s.store) /\ \A m \in Layers : Placed(s.store, m)
    <3>1. \A m \in Layers : m < num_layers
      BY ModelAssumption DEF Layers
    <3> QED BY <2>3, <3>1 DEF After
  <2>6. Computed(s.store)
    <3> SUFFICES ASSUME NEW l \in Layers, NEW id \in Running, NEW i \in Nat, i < seqs[id].computed
                 PROVE  Right(s.store, l, id, i)
      BY DEF Computed
    <3>1. CASE Done(id, i)
      BY <2>5, <3>1 DEF Known
    <3>2. CASE \E q : RowAt(q, id, i)
      <4>1. i < Len(seqs[id].prompt)
        <5>1. id \in DOMAIN seqs
          BY <2>1, RunningPrompt
        <5>2. /\ seqs[id].computed \in Nat /\ Len(seqs[id].prompt) \in Nat
              /\ seqs[id].computed <= Len(seqs[id].prompt)
          BY <2>1, <5>1, PromptIs
        <5> QED BY <5>2
      <4> QED BY <2>5, <3>2, <4>1 DEF Placed
    <3> QED BY <2>1, <3>1, <3>2, ComputedRows
  <2>7. ASSUME NEW i \in DOMAIN scheduled, scheduled[i].is_prefill
        PROVE  out.logits[i] = SubSeq(seqs[scheduled[i].id].prompt, 1,
                                      scheduled[i].start_position + scheduled[i].num_tokens)
    <3>1. PICK r, x, e, p : /\ r = scheduled[i] /\ x = seqs[r.id].prompt
                            /\ e = r.start_position + r.num_tokens /\ p = e - 1
      OBVIOUS
    <3>2. /\ RowAt(last_row(b, i), r.id, p) /\ r.num_tokens \in Nat \ {0} /\ r.start_position \in Nat
      BY <1>1, <2>1, <3>1, LastRow
    <3>3. p \in Nat /\ p + 1 = e
      BY <3>1, <3>2
    <3>4. p < Len(x)
      <4>1. RowOK(r) /\ r.id \in DOMAIN seqs
        BY <2>1, <3>1 DEF Granted, RowOK, SeqsType
      <4>2. e = seqs[r.id].computed
        BY <2>7, <3>1, <4>1 DEF RowOK
      <4>3. seqs[r.id].computed \in Nat /\ Len(x) \in Nat /\ seqs[r.id].computed <= Len(x)
        BY <2>1, <3>1, <4>1, PromptIs
      <4> QED BY <3>3, <4>2, <4>3
    <3>5. last_row(b, i) \in Rows(Batch)
      BY <2>1, <3>2, RowPlace
    <3>6. s.hidden[last_row(b, i)] = Hidden(num_layers, Through(x, p))
      BY <2>3, <3>1, <3>2, <3>4, <3>5 DEF After, HiddenOK
    <3>7. Hidden(num_layers, Through(x, p)) = Through(x, p)
      BY ModelAssumption DEF Hidden
    <3>8. Through(x, p) = SubSeq(x, 1, e)
      BY <3>3 DEF Through
    <3> QED BY <1>2, <2>4, <3>1, <3>6, <3>7, <3>8
  <2> QED BY <2>4, <2>5, <2>6, <2>7 DEF LogitsOfPrompts
<1> QED BY <1>1, <1>7, <1>8, <1>9

-----------------------------------------------------------------------------
(* The calls of a step on the cache.                                        *)

\* The records that may be a cache, and those that may follow a cache in a step:
\* the same tables, none shorter and none changed.
Books ==
  [Fields -> [BlockId -> Nat] \cup [BlockId -> Hash \cup {NoHash}] \cup Seq(BlockId)
             \cup (UNION {[D -> Table] : D \in SUBSET SequenceIds})
             \cup (UNION {[D -> Entry] : D \in SUBSET Hash})]

Lengthens(S, T) == Len(S) <= Len(T) /\ \A i \in 1..Len(S) : T[i] = S[i]
Extends(c, d) ==
  /\ DOMAIN d.tables = DOMAIN c.tables
  /\ \A s \in DOMAIN c.tables : Lengthens(c.tables[s].blocks, d.tables[s].blocks)

Sound == {c \in Books : CacheInv(c, PromptOf) /\ Extends(cache, c)}
Reserved == [ok : BOOLEAN, cache : Sound]

LEMMA BooksType == ASSUME NEW c, CacheType(c) PROVE c \in Books
<1>1. DOMAIN c = Fields /\ c = [f \in Fields |-> c[f]]
  BY DEF CacheType
<1> DEFINE V == [BlockId -> Nat] \cup [BlockId -> Hash \cup {NoHash}] \cup Seq(BlockId)
                \cup (UNION {[D -> Table] : D \in SUBSET SequenceIds})
                \cup (UNION {[D -> Entry] : D \in SUBSET Hash})
<1>2. c["ref_count"] \in V
  BY DEF CacheType
<1>3. c["num_tokens"] \in V
  <2>1. c.num_tokens \in [BlockId -> 0..block_size]
    BY DEF CacheType
  <2>2. 0..block_size \subseteq Nat
    OBVIOUS
  <2>3. c.num_tokens \in [BlockId -> Nat]
    BY <2>1, <2>2
  <2> QED BY <2>3
<1>4. c["hash"] \in V
  BY DEF CacheType
<1>5. c["free_list"] \in V
  BY DEF CacheType
<1>6. c["tables"] \in V
  BY DEF CacheType, PartialFunction
<1>7. c["entries"] \in V
  BY DEF CacheType, PartialFunction
<1> HIDE DEF V
<1>8. \A f \in Fields : c[f] \in V
  BY <1>2, <1>3, <1>4, <1>5, <1>6, <1>7 DEF Fields
<1>9. c \in [Fields -> V]
  BY <1>1, <1>8
<1> QED BY <1>9 DEF Books, V

LEMMA SoundNow ==
  ASSUME CacheInv(cache, PromptOf) PROVE cache \in Sound
<1>1. cache \in Books
  BY BooksType DEF CacheInv
<1>2. ASSUME NEW s \in DOMAIN cache.tables
      PROVE  Len(cache.tables[s].blocks) <= Len(cache.tables[s].blocks)
  <2>1. Len(cache.tables[s].blocks) \in Nat
    BY TableBlocks
  <2> QED BY <2>1
<1> QED BY <1>1, <1>2 DEF Sound, Extends, Lengthens

\* One call more.
LEMMA ReserveStep ==
  ASSUME CacheInv(cache, PromptOf), NEW c \in Reserved, NEW x PROVE Reserve(c, x) \in Reserved
<1>1. PICK d : d = c.cache /\ d \in Sound /\ c.ok \in BOOLEAN
  BY DEF Reserved
<1>2. CacheInv(d, PromptOf) /\ Extends(cache, d)
  BY <1>1 DEF Sound
<1>3. CASE c.ok /\ append_ok(d, x.id)
  <2>1. PICK e, s : e = append_token(d, s) /\ s = x.id
    OBVIOUS
  <2>2. /\ CacheInv(e, PromptOf) /\ DOMAIN e.tables = DOMAIN d.tables
        /\ AppendsTo(d, e, s, FullChunks(PromptOf[s]))
    BY <1>2, <1>3, <2>1, AppendInv
  <2>3. s \in DOMAIN d.tables
    BY <1>3, <2>1 DEF append_ok
  <2>4. /\ \A t \in DOMAIN d.tables \ {s} : e.tables[t] = d.tables[t]
        /\ \A i \in 1..Len(d.tables[s].blocks) : e.tables[s].blocks[i] = d.tables[s].blocks[i]
        /\ e.tables[s].num_tokens = d.tables[s].num_tokens + 1
    BY <2>2 DEF AppendsTo
  <2>5. Len(d.tables[s].blocks) <= Len(e.tables[s].blocks)
    <3>1. PICK n : n = d.tables[s].num_tokens /\ n \in Nat /\ e.tables[s].num_tokens = n + 1
      BY <1>2, <2>3, <2>4, TableBlocks
    <3>2. Len(d.tables[s].blocks) = blocks_required(n)
      BY <1>2, <2>3, <3>1 DEF CacheInv, TablesFit
    <3>3. Len(e.tables[s].blocks) = blocks_required(n + 1)
      BY <2>2, <2>3, <3>1 DEF CacheInv, TablesFit
    <3>4. blocks_required(n) \in Nat /\ blocks_required(n + 1) \in {blocks_required(n), blocks_required(n) + 1}
      BY <3>1, BlocksRequired, OneMoreToken
    <3> QED BY <3>2, <3>3, <3>4
  <2>6. ASSUME NEW t \in DOMAIN cache.tables
        PROVE  /\ Len(cache.tables[t].blocks) <= Len(e.tables[t].blocks)
               /\ \A i \in 1..Len(cache.tables[t].blocks) :
                    e.tables[t].blocks[i] = cache.tables[t].blocks[i]
    <3>1. PICK a, b, f : a = cache.tables[t].blocks /\ b = d.tables[t].blocks /\ f = e.tables[t].blocks
      OBVIOUS
    <3>2. t \in DOMAIN d.tables /\ t \in DOMAIN e.tables
      BY <1>2, <2>2 DEF Extends
    <3>3. Len(a) \in Nat /\ Len(b) \in Nat /\ Len(f) \in Nat
      BY <1>2, <2>2, <3>1, <3>2, TableBlocks
    <3>4. Len(a) <= Len(b) /\ \A i \in 1..Len(a) : b[i] = a[i]
      BY <1>2, <3>1 DEF Extends, Lengthens
    <3>5. Len(b) <= Len(f) /\ \A i \in 1..Len(b) : f[i] = b[i]
      <4>1. CASE t = s
        BY <2>4, <2>5, <3>1, <4>1
      <4>2. CASE t # s
        BY <2>4, <3>1, <3>2, <3>3, <4>2
      <4> QED BY <4>1, <4>2
    <3>6. Len(a) <= Len(f) /\ \A i \in 1..Len(a) : f[i] = a[i]
      BY <3>3, <3>4, <3>5
    <3> QED BY <3>1, <3>6
  <2>7. Extends(cache, e)
    BY <1>2, <2>2, <2>6 DEF Extends, Lengthens
  <2>8. e \in Sound
    BY <2>2, <2>7, BooksType DEF Sound, CacheInv
  <2>9. Reserve(c, x) = [ok |-> TRUE, cache |-> e]
    BY <1>1, <1>3, <2>1 DEF Reserve
  <2> QED BY <2>8, <2>9 DEF Reserved
<1>4. CASE ~(c.ok /\ append_ok(d, x.id))
  <2>1. Reserve(c, x) = [ok |-> FALSE, cache |-> d]
    BY <1>1, <1>4 DEF Reserve
  <2> QED BY <1>1, <2>1 DEF Reserved
<1> QED BY <1>3, <1>4

LEMMA PublishStep ==
  ASSUME SeqsType, CacheInv(cache, PromptOf), NEW r, RowOK(r), NEW c \in Sound, c.tables = cache.tables
  PROVE  Publish(c, r) \in Sound /\ Publish(c, r).tables = cache.tables
<1>1. CacheInv(c, PromptOf)
  BY DEF Sound
<1>2. CASE r.is_prefill /\ Decoding(r.id)
  <2>1. PICK d : d = Publish(c, r)
    OBVIOUS
  <2>2. r.id \in Running
    BY DEF RowOK
  <2>3. PromptOf[r.id] = seqs[r.id].prompt
    BY <2>2, RunningPrompt
  <2>4. d = commit_prefill(c, r.id, PromptOf[r.id])
    BY <1>2, <2>1, <2>3 DEF Publish
  <2>5. CacheInv(d, PromptOf) /\ d.tables = c.tables
    BY <1>1, <2>4, CommitInv
  <2>6. Extends(cache, d)
    <3>1. Extends(cache, c)
      BY DEF Sound
    <3> QED BY <2>5, <3>1 DEF Extends
  <2>7. d \in Books
    BY <2>5, BooksType DEF CacheInv
  <2> QED BY <2>1, <2>5, <2>6, <2>7 DEF Sound
<1>3. CASE ~(r.is_prefill /\ Decoding(r.id))
  BY <1>3 DEF Publish
<1> QED BY <1>2, <1>3

\* The rows of a step reserve their slots one after another.
LEMMA RowsReserved ==
  ASSUME CacheInv(cache, PromptOf), NEW rows \in Seq(Row)
  PROVE  FoldLeft(Reserve, [ok |-> TRUE, cache |-> cache], rows) \in Reserved
<1>1. PICK N, S, base, seq : /\ N = Len(rows) /\ S = Reserved /\ base = [ok |-> TRUE, cache |-> cache]
                             /\ seq = rows
  OBVIOUS
<1>2. N \in Nat /\ base \in S /\ DOMAIN seq = 1..N
  BY <1>1, SoundNow DEF Reserved
<1>3. ASSUME NEW i \in 1..N, NEW x \in S PROVE Reserve(x, seq[i]) \in S
  BY <1>1, ReserveStep
<1> DEFINE F == [i \in 1..N |-> [x \in S |-> Reserve(x, seq[i])]]
           Body(g) == [D \in SUBSET (1..N) |->
                         IF D = {} THEN base ELSE Reserve(g[D \ {Max(D)}], seq[Max(D)])]
           iter == CHOOSE g : g = Body(g)
<1>4. F \in [1..N -> [S -> S]]
  BY <1>3
<1>5. \A i \in 1..N, x \in S : F[i][x] = Reserve(x, seq[i])
  OBVIOUS
<1>6. FoldLeft(Reserve, base, seq) = iter[1..N]
  <2>1. FoldLeft(Reserve, base, seq) = iter[1..N]
    BY <1>2 DEF FoldLeft, MapThenFoldSet
  <2> HIDE DEF iter
  <2> QED BY <1>1, <2>1
<1> HIDE DEF F
<1>7. iter = Body(iter)
  <2>1. PICK g : g \in FoldsOf(S, N, base, F)
    <3> HIDE DEF Body
    <3>1. FoldsOf(S, N, base, F) # {}
      BY <1>2, <1>4, FoldExists
    <3> QED BY <3>1
  <2>2. ASSUME NEW D \in SUBSET (1..N)
        PROVE  g[D] = IF D = {} THEN base ELSE Reserve(g[D \ {Max(D)}], seq[Max(D)])
    <3> HIDE DEF Body
    <3>1. CASE D # {}
      <4>1. /\ Max(D) \in 1..N /\ g[D \ {Max(D)}] \in S
            /\ g[D] = F[Max(D)][g[D \ {Max(D)}]]
        BY <3>1, <2>1, <1>2, FoldDomain DEF FoldsOf
      <4> QED BY <4>1, <3>1, <1>5
    <3> QED BY <3>1, <2>1 DEF FoldsOf
  <2>3. g = Body(g)
    BY <2>1, <2>2 DEF FoldsOf
  <2> HIDE DEF Body
  <2> QED BY <2>3
<1> HIDE DEF iter
<1>8. \A D \in SUBSET (1..N) :
         iter[D] = IF D = {} THEN base ELSE Reserve(iter[D \ {Max(D)}], seq[Max(D)])
  BY <1>7
<1> HIDE DEF Body
<1>9. Iterates(S, N, base, F, iter)
  <2>1. iter[{}] = base
    BY <1>8
  <2>2. ASSUME NEW D \in (SUBSET (1..N)) \ {{}}
        PROVE  iter[D \ {Max(D)}] \in S => iter[D] = F[Max(D)][iter[D \ {Max(D)}]]
    <3>1. Max(D) \in 1..N
      BY <1>2, FoldDomain
    <3> QED BY <3>1, <1>5, <1>8, ZenonT(40)
  <2> QED BY <2>1, <2>2 DEF Iterates
<1>10. PICK h \in StepsOf(S, N, base, F) : h[N] = iter[1..N]
  BY <1>2, <1>4, <1>9, FoldPrefixes
<1>11. /\ h \in [0..N -> S] /\ h[0] = base
       /\ \A i \in 1..N : h[i] = Reserve(h[i - 1], seq[i])
  BY <1>2, <1>5, <1>10, FoldDomain DEF StepsOf
<1>12. h[N] \in S
  BY <1>2, <1>11
<1>13. iter[1..N] \in S
  BY <1>10, <1>12
<1> QED BY <1>1, <1>6, <1>13

\* The prompts of a step are published one after another.
LEMMA RowsPublished ==
  ASSUME Granted, CacheInv(cache, PromptOf)
  PROVE  /\ FoldLeft(Publish, cache, scheduled) \in Sound
         /\ FoldLeft(Publish, cache, scheduled).tables = cache.tables
<1>1. PICK N, S, base, seq : /\ N = Len(scheduled) /\ S = {c \in Sound : c.tables = cache.tables} /\ base = cache
                             /\ seq = scheduled
  OBVIOUS
<1>2. N \in Nat /\ base \in S /\ DOMAIN seq = 1..N /\ SeqsType
  BY <1>1, SoundNow DEF Granted
<1>3. ASSUME NEW i \in 1..N, NEW x \in S PROVE Publish(x, seq[i]) \in S
  <2>1. RowOK(seq[i])
    BY <1>1, <1>2 DEF Granted
  <2>2. x \in Sound /\ x.tables = cache.tables
    BY <1>1
  <2>3. Publish(x, seq[i]) \in Sound /\ Publish(x, seq[i]).tables = cache.tables
    BY <1>2, <2>1, <2>2, PublishStep
  <2> QED BY <1>1, <2>3
<1> DEFINE F == [i \in 1..N |-> [x \in S |-> Publish(x, seq[i])]]
           Body(g) == [D \in SUBSET (1..N) |->
                         IF D = {} THEN base ELSE Publish(g[D \ {Max(D)}], seq[Max(D)])]
           iter == CHOOSE g : g = Body(g)
<1>4. F \in [1..N -> [S -> S]]
  BY <1>3
<1>5. \A i \in 1..N, x \in S : F[i][x] = Publish(x, seq[i])
  OBVIOUS
<1>6. FoldLeft(Publish, base, seq) = iter[1..N]
  <2>1. FoldLeft(Publish, base, seq) = iter[1..N]
    BY <1>2 DEF FoldLeft, MapThenFoldSet
  <2> HIDE DEF iter
  <2> QED BY <1>1, <2>1
<1> HIDE DEF F
<1>7. iter = Body(iter)
  <2>1. PICK g : g \in FoldsOf(S, N, base, F)
    <3> HIDE DEF Body
    <3>1. FoldsOf(S, N, base, F) # {}
      BY <1>2, <1>4, FoldExists
    <3> QED BY <3>1
  <2>2. ASSUME NEW D \in SUBSET (1..N)
        PROVE  g[D] = IF D = {} THEN base ELSE Publish(g[D \ {Max(D)}], seq[Max(D)])
    <3> HIDE DEF Body
    <3>1. CASE D # {}
      <4>1. /\ Max(D) \in 1..N /\ g[D \ {Max(D)}] \in S
            /\ g[D] = F[Max(D)][g[D \ {Max(D)}]]
        BY <3>1, <2>1, <1>2, FoldDomain DEF FoldsOf
      <4> QED BY <4>1, <3>1, <1>5
    <3> QED BY <3>1, <2>1 DEF FoldsOf
  <2>3. g = Body(g)
    BY <2>1, <2>2 DEF FoldsOf
  <2> HIDE DEF Body
  <2> QED BY <2>3
<1> HIDE DEF iter
<1>8. \A D \in SUBSET (1..N) :
         iter[D] = IF D = {} THEN base ELSE Publish(iter[D \ {Max(D)}], seq[Max(D)])
  BY <1>7
<1> HIDE DEF Body
<1>9. Iterates(S, N, base, F, iter)
  <2>1. iter[{}] = base
    BY <1>8
  <2>2. ASSUME NEW D \in (SUBSET (1..N)) \ {{}}
        PROVE  iter[D \ {Max(D)}] \in S => iter[D] = F[Max(D)][iter[D \ {Max(D)}]]
    <3>1. Max(D) \in 1..N
      BY <1>2, FoldDomain
    <3> QED BY <3>1, <1>5, <1>8, ZenonT(40)
  <2> QED BY <2>1, <2>2 DEF Iterates
<1>10. PICK h \in StepsOf(S, N, base, F) : h[N] = iter[1..N]
  BY <1>2, <1>4, <1>9, FoldPrefixes
<1>11. /\ h \in [0..N -> S] /\ h[0] = base
       /\ \A i \in 1..N : h[i] = Publish(h[i - 1], seq[i])
  BY <1>2, <1>5, <1>10, FoldDomain DEF StepsOf
<1>12. h[N] \in S
  BY <1>2, <1>11
<1>13. iter[1..N] \in S
  BY <1>10, <1>12
<1> QED BY <1>1, <1>6, <1>13

-----------------------------------------------------------------------------
(* The invariant.                                                           *)

\* The sequences and the step under way.
StepOK ==
  /\ Granted /\ CacheInv(cache, PromptOf)
  /\ phase \in {"idle", "batched", "forwarded"} /\ spoiled \in BOOLEAN
  /\ preemptions \in 0..MaxPreemptions /\ (phase = "idle") = (scheduled = << >>)
  /\ phase = "batched" => ~spoiled
  /\ \A id \in DOMAIN seqs : Len(seqs[id].output) <= MaxOutput
  /\ \A id \in DOMAIN seqs \ Running : seqs[id].computed = 0

\* What the arena holds, and what the pass answered.
ArenaOK ==
  /\ arena \in Arenas
  /\ ~spoiled => Known(arena)
  /\ phase = "forwarded" /\ result.ok /\ ~spoiled => LogitsOfPrompts(result.logits)

InferInd == StepOK /\ ArenaOK

\* The cells of a position stay right while its table only grows.
LEMMA RightCarried ==
  ASSUME SeqsType, CacheInv(cache, PromptOf), NEW l \in Layers, NEW id \in Running, NEW i \in Nat,
         i < Len(seqs[id].prompt), Right(arena, l, id, i), arena' = arena,
         seqs'[id].prompt = seqs[id].prompt,
         Lengthens(cache.tables[id].blocks, cache'.tables[id].blocks)
  PROVE  Right(arena, l, id, i)'
<1>1. PICK S, T, x : /\ S = cache.tables[id].blocks /\ T = cache'.tables[id].blocks
                     /\ x = seqs[id].prompt
  OBVIOUS
<1>2. S \in Seq(BlockId) /\ HasBlock(S, i)
  <2>1. id \in DOMAIN cache.tables /\ PromptOf[id] = x
    BY <1>1, RunningPrompt
  <2> QED BY <1>1, <2>1, TableBlocks, PromptHasBlocks
<1>3. i \div block_size + 1 \in 1..Len(S)
  BY <1>2, SpotOf
<1>4. locate(S, i) = locate(T, i)
  BY <1>1, <1>3 DEF Lengthens, locate
<1>5. \A g \in KvHeads : HasKV(arena, l, locate(S, i), g, i, Hidden(l, Through(x, i)))
  BY <1>1 DEF Right
<1> QED BY <1>1, <1>4, <1>5 DEF Right

\* What is known stays known when nothing becomes done and tables only grow.
LEMMA KnownCarried ==
  ASSUME SeqsType, CacheInv(cache, PromptOf), Known(arena), arena' = arena,
         \A id \in Running' : \A i \in Nat : Done(id, i)' =>
            /\ id \in Running /\ Done(id, i) /\ seqs'[id].prompt = seqs[id].prompt
            /\ Lengthens(cache.tables[id].blocks, cache'.tables[id].blocks)
  PROVE  Known(arena)'
<1> SUFFICES ASSUME NEW l \in Layers, NEW id \in Running', NEW i \in Nat, Done(id, i)'
             PROVE  Right(arena, l, id, i)'
  BY DEF Known
<1>1. /\ id \in Running /\ Done(id, i) /\ seqs'[id].prompt = seqs[id].prompt
      /\ Lengthens(cache.tables[id].blocks, cache'.tables[id].blocks)
  OBVIOUS
<1>2. i < Len(seqs[id].prompt)
  BY <1>1, DoneInPrompt
<1>3. Right(arena, l, id, i)
  BY <1>1 DEF Known
<1> QED BY <1>1, <1>2, <1>3, RightCarried

\* A table is no shorter than itself.
LEMMA SameLength ==
  ASSUME NEW c, NEW P, CacheInv(c, P), NEW s \in DOMAIN c.tables
  PROVE  Lengthens(c.tables[s].blocks, c.tables[s].blocks)
<1>1. Len(c.tables[s].blocks) \in Nat
  BY TableBlocks
<1> QED BY <1>1 DEF Lengthens

LEMMA InferInitInd == InferInit => InferInd
<1> SUFFICES ASSUME InferInit PROVE InferInd
  OBVIOUS
<1>1. /\ cache = new /\ arena = NewStore /\ scheduled = << >> /\ result = NoResult /\ phase = "idle"
      /\ spoiled = FALSE /\ preemptions = 0
      /\ seqs \in [SequenceIds -> {NewSequence(p) : p \in Prompts}]
  BY DEF InferInit
<1>2. Running = {}
  BY <1>1 DEF Running, new, Empty
<1>3. ASSUME NEW id \in DOMAIN seqs
      PROVE  /\ seqs[id] \in Record /\ seqs[id].computed = 0 /\ Len(seqs[id].output) = 0
             /\ Len(seqs[id].prompt) \in Nat
  <2>1. PICK p \in Prompts : seqs[id] = NewSequence(p)
    BY <1>1
  <2>2. p \in Seq(Int)
    BY PromptsAssumption
  <2> QED BY <2>1, <2>2 DEF NewSequence, Record
<1>4. SeqsType
  <2>1. seqs \in [DOMAIN seqs -> Record] /\ DOMAIN seqs = SequenceIds
    BY <1>1, <1>3
  <2> QED BY <1>2, <1>3, <2>1 DEF SeqsType
<1>5. Granted
  BY <1>1, <1>4 DEF Granted
<1>6. CacheInv(cache, PromptOf)
  BY <1>1, NewInv
<1>7. StepOK
  <2>1. 0 \in 0..MaxPreemptions /\ \A id \in DOMAIN seqs : Len(seqs[id].output) <= MaxOutput
    BY <1>3, InferenceAssumption
  <2> QED BY <1>1, <1>3, <1>5, <1>6, <2>1 DEF StepOK
<1>8. ArenaOK
  <2>1. arena \in Arenas
    BY <1>1 DEF NewStore, Arenas, Element
  <2>2. Known(arena)
    BY <1>2 DEF Known
  <2> QED BY <1>1, <2>1, <2>2 DEF ArenaOK
<1> QED BY <1>7, <1>8 DEF InferInd

\* Between steps nothing is scheduled.
LEMMA IdleGranted ==
  ASSUME SeqsType', scheduled' = << >> PROVE Granted'
BY DEF Granted

LEMMA AdmitInd ==
  ASSUME InferInd, NEW id \in SequenceIds, Admit(id) PROVE InferInd'
<1>1. /\ phase = "idle" /\ id \in DOMAIN seqs \ Running
      /\ allocate_ok(cache, id, seqs[id].prompt)
      /\ cache' = allocate(cache, id, seqs[id].prompt)
      /\ spoiled' = (spoiled /\ Running # {})
      /\ arena' = arena /\ seqs' = seqs /\ scheduled' = scheduled /\ result' = result
      /\ phase' = phase /\ preemptions' = preemptions
  BY DEF Admit
<1>2. StepOK /\ Granted /\ SeqsType /\ CacheInv(cache, PromptOf) /\ scheduled = << >>
  BY <1>1 DEF InferInd, StepOK, Granted
<1>3. PICK p, P : p = seqs[id].prompt /\ P = PromptOf /\ p \in Prompts
  BY <1>1, <1>2, PromptIs
<1>4. P[id] = p /\ PromptOf' = P
  BY <1>1, <1>3 DEF PromptOf
<1>5. /\ CacheInv(cache', P) /\ DOMAIN cache'.tables = DOMAIN cache.tables \cup {id}
      /\ Adopts(cache, cache', id, p)
  BY <1>1, <1>2, <1>3, <1>4, AllocateInv
<1>6. Running' = Running \cup {id} /\ \A s \in Running : cache'.tables[s] = cache.tables[s]
  BY <1>5 DEF Running, Adopts
<1>7. SeqsType'
  BY <1>1, <1>2, <1>6 DEF SeqsType
<1>8. StepOK'
  <2>1. Granted'
    BY <1>1, <1>2, <1>7, IdleGranted
  <2> QED BY <1>1, <1>2, <1>4, <1>5, <1>6, <2>1 DEF StepOK
<1>9. seqs[id].computed = 0
  BY <1>1, <1>2 DEF StepOK
<1>10. ASSUME NEW s \in Running', NEW i \in Nat, Done(s, i)'
       PROVE  /\ s \in Running /\ Done(s, i) /\ seqs'[s].prompt = seqs[s].prompt
              /\ Lengthens(cache.tables[s].blocks, cache'.tables[s].blocks)
  <2>1. i < seqs[s].computed
    BY <1>1, <1>10 DEF Done
  <2>2. s # id
    BY <1>9, <2>1
  <2>3. s \in Running /\ cache'.tables[s] = cache.tables[s]
    BY <1>6, <2>2
  <2>4. Lengthens(cache.tables[s].blocks, cache'.tables[s].blocks)
    BY <1>2, <2>3, SameLength DEF Running
  <2> QED BY <1>1, <2>1, <2>3, <2>4 DEF Done
<1>11. ArenaOK'
  <2>1. arena \in Arenas /\ (~spoiled => Known(arena))
    BY DEF InferInd, ArenaOK
  <2>2. ASSUME ~spoiled' PROVE Known(arena)'
    <3>1. CASE ~spoiled
      <4>1. Known(arena)
        BY <2>1, <3>1
      <4> QED BY <1>1, <1>2, <1>10, <4>1, KnownCarried
    <3>2. CASE Running = {}
      <4>1. ASSUME NEW s \in Running', NEW i \in Nat PROVE ~Done(s, i)'
        <5>1. s = id
          BY <1>6, <3>2
        <5> QED BY <1>1, <1>9, <5>1 DEF Done
      <4> QED BY <4>1 DEF Known
    <3> QED BY <1>1, <2>2, <3>1, <3>2
  <2> QED BY <1>1, <2>1, <2>2 DEF ArenaOK
<1> QED BY <1>8, <1>11 DEF InferInd

\* A sequence leaves the pool, and all that stay are as they were.
LEMMA Leaves ==
  ASSUME InferInd, NEW id, phase = "idle", cache' = free(cache, id), DOMAIN seqs' \subseteq DOMAIN seqs,
         seqs' \in [DOMAIN seqs' -> Record],
         \A s \in DOMAIN seqs \ {id} : s \in DOMAIN seqs' /\ seqs'[s] = seqs[s],
         \A s \in DOMAIN seqs' : /\ seqs'[s].prompt = seqs[s].prompt /\ seqs'[s].output = seqs[s].output
                                 /\ s \in {id} => seqs'[s].computed = 0,
         preemptions' \in 0..MaxPreemptions,
         UNCHANGED <<arena, scheduled, result, phase, spoiled>>
  PROVE  InferInd'
<1>1. /\ StepOK /\ Granted /\ SeqsType /\ CacheInv(cache, PromptOf) /\ scheduled = << >>
      /\ arena' = arena /\ scheduled' = scheduled /\ phase' = phase /\ spoiled' = spoiled
      /\ result' = result
  BY DEF InferInd, StepOK, Granted
<1>2. /\ CacheInv(cache', PromptOf) /\ DOMAIN cache'.tables = Running \ {id}
      /\ \A s \in Running \ {id} : cache'.tables[s] = cache.tables[s]
  BY <1>1, FreeInv DEF Running
<1>3. Running' = Running \ {id}
  BY <1>2 DEF Running
<1>4. /\ DOMAIN seqs' \subseteq SequenceIds /\ Running' \subseteq DOMAIN seqs'
      /\ \A s \in DOMAIN seqs' : seqs'[s].computed <= Len(seqs'[s].prompt)
  <2>1. DOMAIN seqs \subseteq SequenceIds /\ Running \subseteq DOMAIN seqs
    BY <1>1 DEF SeqsType
  <2>2. ASSUME NEW s \in DOMAIN seqs' PROVE seqs'[s].computed <= Len(seqs'[s].prompt)
    <3>1. s \in DOMAIN seqs /\ Len(seqs[s].prompt) \in Nat /\ Len(seqs[s].prompt) > 0
      BY <1>1, PromptIs
    <3>2. seqs[s].computed <= Len(seqs[s].prompt)
      BY <1>1, <3>1 DEF SeqsType
    <3>3. CASE s = id
      BY <3>1, <3>3
    <3>4. CASE s # id
      BY <3>1, <3>2, <3>4
    <3> QED BY <3>3, <3>4
  <2> QED BY <1>3, <2>1, <2>2
<1>5. SeqsType'
  BY <1>4 DEF SeqsType
<1>6. CacheInv(cache', PromptOf')
  <2>1. ASSUME NEW s \in DOMAIN cache'.tables PROVE PromptOf'[s] = PromptOf[s]
    <3>1. s \in DOMAIN seqs' /\ s \in DOMAIN seqs
      BY <1>2, <1>3, <1>4
    <3> QED BY <3>1 DEF PromptOf
  <2> QED BY <1>2, <2>1, PromptsOfTables
<1>7. StepOK'
  <2>1. Granted'
    BY <1>1, <1>5, IdleGranted
  <2>2. \A s \in DOMAIN seqs' : Len(seqs'[s].output) <= MaxOutput
    BY <1>1 DEF StepOK
  <2>3. ASSUME NEW s \in DOMAIN seqs' \ Running' PROVE seqs'[s].computed = 0
    <3>1. CASE s = id
      BY <3>1
    <3>2. CASE s # id
      BY <1>1, <1>3, <3>2 DEF StepOK
    <3> QED BY <3>1, <3>2
  <2>4. phase' = "idle" /\ scheduled' = << >> /\ spoiled' \in BOOLEAN
    BY <1>1 DEF StepOK
  <2> QED BY <1>6, <2>1, <2>2, <2>3, <2>4 DEF StepOK
<1>8. ASSUME NEW s \in Running', NEW i \in Nat, Done(s, i)'
      PROVE  /\ s \in Running /\ Done(s, i) /\ seqs'[s].prompt = seqs[s].prompt
             /\ Lengthens(cache.tables[s].blocks, cache'.tables[s].blocks)
  <2>1. s \in Running /\ s # id /\ cache'.tables[s] = cache.tables[s]
    BY <1>2, <1>3
  <2>2. seqs'[s] = seqs[s]
    BY <1>1, <2>1 DEF SeqsType
  <2>3. Done(s, i)
    BY <1>8, <2>2 DEF Done
  <2>4. Lengthens(cache.tables[s].blocks, cache'.tables[s].blocks)
    BY <1>1, <2>1, SameLength DEF Running
  <2> QED BY <2>1, <2>2, <2>3, <2>4
<1>9. ArenaOK'
  <2>1. arena \in Arenas /\ (~spoiled => Known(arena))
    BY DEF InferInd, ArenaOK
  <2>2. ~spoiled' => Known(arena)'
    BY <1>1, <1>8, <2>1, KnownCarried
  <2> QED BY <1>1, <2>1, <2>2 DEF ArenaOK
<1> QED BY <1>7, <1>9 DEF InferInd

LEMMA PreemptInd ==
  ASSUME InferInd, NEW id \in SequenceIds, Preempt(id) PROVE InferInd'
<1>1. /\ phase = "idle" /\ id \in Running /\ preemptions < MaxPreemptions
      /\ preemptions' = preemptions + 1 /\ cache' = free(cache, id)
      /\ seqs' = [seqs EXCEPT ![id].computed = 0]
      /\ UNCHANGED <<arena, scheduled, result, phase, spoiled>>
  BY DEF Preempt
<1>2. SeqsType /\ preemptions \in 0..MaxPreemptions
  BY DEF InferInd, StepOK, Granted
<1>3. preemptions' \in 0..MaxPreemptions
  BY <1>1, <1>2, InferenceAssumption
<1>4. DOMAIN seqs' = DOMAIN seqs /\ \A s \in DOMAIN seqs \ {id} : seqs'[s] = seqs[s]
  BY <1>1
<1>5. id \in DOMAIN seqs /\ seqs[id] \in Record /\ seqs'[id] = [seqs[id] EXCEPT !.computed = 0]
  BY <1>1, <1>2 DEF SeqsType
<1>6. /\ seqs'[id].prompt = seqs[id].prompt /\ seqs'[id].output = seqs[id].output
      /\ seqs'[id].computed = 0 /\ seqs'[id] \in Record
  BY <1>5 DEF Record
<1>7. seqs' \in [DOMAIN seqs' -> Record]
  <2>1. \A s \in DOMAIN seqs : seqs'[s] \in Record
    BY <1>2, <1>4, <1>6 DEF SeqsType
  <2> QED BY <1>1, <1>4, <2>1
<1> QED BY <1>1, <1>3, <1>4, <1>6, <1>7, Leaves

LEMMA DropInd ==
  ASSUME InferInd, NEW id \in SequenceIds, Drop(id) PROVE InferInd'
<1>1. /\ phase = "idle" /\ cache' = free(cache, id) /\ seqs' = Without(seqs, {id})
      /\ UNCHANGED <<arena, scheduled, result, phase, spoiled, preemptions>>
  BY DEF Drop
<1>2. SeqsType /\ preemptions \in 0..MaxPreemptions
  BY DEF InferInd, StepOK, Granted
<1>3. DOMAIN seqs' = DOMAIN seqs \ {id} /\ \A s \in DOMAIN seqs \ {id} : seqs'[s] = seqs[s]
  BY <1>1 DEF Without, Restrict
<1>4. seqs' \in [DOMAIN seqs' -> Record]
  <2>1. seqs' = [s \in DOMAIN seqs \ {id} |-> seqs[s]]
    BY <1>1, <1>3 DEF Without, Restrict
  <2> QED BY <1>2, <1>3, <2>1 DEF SeqsType
<1> QED BY <1>1, <1>2, <1>3, <1>4, Leaves

\* A grant to a sequence.
GrantTo(x, id) ==
  /\ x \in Row /\ x.id = id /\ x.num_tokens # 0
  /\ x.is_prefill => /\ x.start_position = seqs[id].computed
                     /\ x.start_position + x.num_tokens <= Len(seqs[id].prompt)
  /\ ~x.is_prefill => /\ x.num_tokens = 1 /\ Decoding(id)
                      /\ x.start_position >= Len(seqs[id].prompt)

LEMMA GrantsAre ==
  ASSUME SeqsType, NEW id \in Running, NEW x \in Grants(id) PROVE GrantTo(x, id)
<1>1. id \in DOMAIN seqs /\ id \in SequenceIds
  BY RunningPrompt DEF SeqsType
<1>2. PICK a, c, o : a = Len(seqs[id].prompt) /\ c = seqs[id].computed /\ o = Len(seqs[id].output)
  OBVIOUS
<1>3. a \in Nat /\ c \in Nat /\ o \in Nat /\ c <= a
  BY <1>1, <1>2, PromptIs
<1>4. CASE Decoding(id)
  <2>1. x = DecodeRow(id)
    BY <1>4 DEF Grants
  <2>2. x = [id |-> id, num_tokens |-> 1, start_position |-> a + o, is_prefill |-> FALSE]
    BY <1>2, <2>1 DEF DecodeRow, total_len
  <2>3. PICK m : m = a + o /\ m \in Nat /\ m >= a
    BY <1>3
  <2>4. x \in Row
    BY <1>1, <2>2, <2>3 DEF Row
  <2>5. x.id = id /\ x.num_tokens = 1 /\ x.num_tokens # 0 /\ ~x.is_prefill
    BY <2>2
  <2>6. x.start_position >= Len(seqs[id].prompt)
    BY <1>2, <1>3, <2>2, <2>3
  <2> QED BY <1>4, <2>4, <2>5, <2>6, Zenon DEF GrantTo
<1>5. CASE ~Decoding(id)
  <2>1. PICK n \in 1..a - c : x = PrefillRow(id, n)
    BY <1>2, <1>5 DEF Grants
  <2>2. x = [id |-> id, num_tokens |-> n, start_position |-> c, is_prefill |-> TRUE]
    BY <1>2, <2>1 DEF PrefillRow
  <2>3. n \in Nat /\ n # 0 /\ c + n <= a
    BY <1>3, <2>1
  <2> QED BY <1>1, <1>2, <1>3, <2>2, <2>3 DEF GrantTo, Row
<1> QED BY <1>4, <1>5

\* A batch is a sequence of grants, and not empty.
LEMMA BatchesAre ==
  ASSUME SeqsType, NEW r \in Batches
  PROVE  /\ r \in Seq(Row) /\ r # << >>
         /\ \A i, j \in DOMAIN r : r[i].id = r[j].id => i = j
         /\ \A i \in DOMAIN r : r[i].id \in Running /\ GrantTo(r[i], r[i].id)
<1>1. PICK G : G = UNION {Grants(id) : id \in Running}
  OBVIOUS
<1>2. PICK n \in 1..MaxRows : r \in [1..n -> G]
  BY <1>1 DEF Batches
<1>3. \A i, j \in DOMAIN r : r[i].id = r[j].id => i = j
  BY DEF Batches
<1>4. n \in Nat /\ n # 0 /\ DOMAIN r = 1..n
  BY <1>2
<1>5. ASSUME NEW i \in 1..n PROVE r[i].id \in Running /\ GrantTo(r[i], r[i].id) /\ r[i] \in Row
  <2>1. r[i] \in G
    BY <1>2
  <2>2. PICK id \in Running : r[i] \in Grants(id)
    BY <1>1, <2>1
  <2>3. GrantTo(r[i], id)
    BY <2>2, GrantsAre
  <2>4. r[i].id = id /\ r[i] \in Row
    BY <2>3 DEF GrantTo
  <2> QED BY <2>3, <2>4
<1>6. r \in [1..n -> Row]
  BY <1>2, <1>4, <1>5
<1>7. r \in Seq(Row) /\ r # << >>
  BY <1>4, <1>6
<1> QED BY <1>3, <1>4, <1>5, <1>7

LEMMA ScheduleInd ==
  ASSUME InferInd, NEW r \in Batches, Schedule(r) PROVE InferInd'
<1>1. PICK grown : grown = FoldLeft(Reserve, [ok |-> TRUE, cache |-> cache], DecodeRows(r))
  OBVIOUS
<1>2. /\ phase = "idle" /\ grown.ok /\ ~spoiled /\ cache' = grown.cache
      /\ seqs' = [id \in DOMAIN seqs |->
            IF \E i \in DOMAIN r : r[i].id = id /\ r[i].is_prefill
              THEN [seqs[id] EXCEPT !.computed = @ +
                      r[CHOOSE i \in DOMAIN r : r[i].id = id].num_tokens]
              ELSE seqs[id]]
      /\ scheduled' = r /\ phase' = "batched"
      /\ arena' = arena /\ result' = result /\ spoiled' = spoiled /\ preemptions' = preemptions
  BY <1>1 DEF Schedule
<1>3. StepOK /\ SeqsType /\ CacheInv(cache, PromptOf)
  BY DEF InferInd, StepOK, Granted
<1>4. /\ r \in Seq(Row) /\ r # << >>
      /\ \A i, j \in DOMAIN r : r[i].id = r[j].id => i = j
      /\ \A i \in DOMAIN r : r[i].id \in Running /\ GrantTo(r[i], r[i].id)
  BY <1>3, BatchesAre
<1>5. CacheInv(cache', PromptOf) /\ Extends(cache, cache')
  <2>1. DecodeRows(r) \in Seq(Row)
    BY <1>4, FilterType DEF DecodeRows
  <2>2. grown \in Reserved
    BY <1>1, <1>3, <2>1, RowsReserved
  <2> QED BY <1>2, <2>2 DEF Reserved, Sound
<1>6. Running' = Running
  BY <1>5 DEF Extends, Running
<1>7. ASSUME NEW i \in DOMAIN r, r[i].is_prefill
      PROVE  /\ seqs'[r[i].id] = [seqs[r[i].id] EXCEPT !.computed = @ + r[i].num_tokens]
             /\ seqs[r[i].id] \in Record /\ r[i].id \in DOMAIN seqs
             /\ seqs[r[i].id].computed + r[i].num_tokens <= Len(seqs[r[i].id].prompt)
             /\ seqs[r[i].id].computed + r[i].num_tokens \in Nat
  <2>1. PICK x, id : x = r[i] /\ id = r[i].id
    OBVIOUS
  <2>2. id \in DOMAIN seqs /\ seqs[id] \in Record /\ GrantTo(x, id)
    BY <1>3, <1>4, <2>1 DEF SeqsType
  <2>3. (CHOOSE j \in DOMAIN r : r[j].id = id) = i
    BY <1>4, <2>1
  <2>4. seqs'[id] = [seqs[id] EXCEPT !.computed = @ + x.num_tokens]
    BY <1>2, <1>7, <2>1, <2>2, <2>3
  <2>5. /\ seqs[id].computed + x.num_tokens <= Len(seqs[id].prompt)
        /\ seqs[id].computed + x.num_tokens \in Nat
    BY <1>7, <2>1, <2>2 DEF GrantTo, Row, Record
  <2> QED BY <2>1, <2>2, <2>4, <2>5
<1>8. ASSUME NEW id \in DOMAIN seqs, \A i \in DOMAIN r : r[i].id = id => ~r[i].is_prefill
      PROVE  seqs'[id] = seqs[id]
  BY <1>2, <1>8
<1>9. DOMAIN seqs' = DOMAIN seqs
  BY <1>2
<1>10. ASSUME NEW id \in DOMAIN seqs
       PROVE  /\ seqs'[id].prompt = seqs[id].prompt /\ seqs'[id].output = seqs[id].output
              /\ seqs'[id].computed <= Len(seqs'[id].prompt) /\ seqs'[id] \in Record
  <2>1. CASE \E i \in DOMAIN r : r[i].id = id /\ r[i].is_prefill
    <3>1. PICK i \in DOMAIN r : r[i].id = id /\ r[i].is_prefill
      BY <2>1
    <3>2. /\ seqs'[id] = [seqs[id] EXCEPT !.computed = @ + r[i].num_tokens] /\ seqs[id] \in Record
          /\ seqs[id].computed + r[i].num_tokens <= Len(seqs[id].prompt)
          /\ seqs[id].computed + r[i].num_tokens \in Nat
      BY <1>7, <3>1
    <3> QED BY <3>2 DEF Record
  <2>2. CASE ~\E i \in DOMAIN r : r[i].id = id /\ r[i].is_prefill
    <3>1. seqs'[id] = seqs[id]
      BY <1>8, <2>2
    <3> QED BY <1>3, <3>1 DEF SeqsType
  <2> QED BY <2>1, <2>2
<1>11. SeqsType'
  <2>1. seqs' \in [DOMAIN seqs' -> Record]
    BY <1>2, <1>9, <1>10
  <2> QED BY <1>3, <1>6, <1>9, <1>10, <2>1 DEF SeqsType
<1>12. ASSUME NEW i \in DOMAIN r PROVE RowOK(r[i])'
  <2>1. PICK x, id : x = r[i] /\ id = r[i].id
    OBVIOUS
  <2>2. /\ id \in Running /\ GrantTo(x, id) /\ id \in DOMAIN seqs
        /\ seqs'[id].prompt = seqs[id].prompt /\ id \in Running'
    BY <1>3, <1>4, <1>6, <1>10, <2>1 DEF SeqsType
  <2>3. CASE x.is_prefill
    <3>1. seqs'[id] = [seqs[id] EXCEPT !.computed = @ + x.num_tokens] /\ seqs[id] \in Record
      BY <1>7, <2>1, <2>3
    <3>2. seqs'[id].computed = x.start_position + x.num_tokens
      BY <2>2, <2>3, <3>1 DEF GrantTo, Record
    <3> QED BY <2>1, <2>2, <2>3, <3>2 DEF RowOK, GrantTo
  <2>4. CASE ~x.is_prefill
    <3>1. seqs'[id] = seqs[id]
      BY <1>4, <1>8, <2>1, <2>2, <2>4
    <3>2. Decoding(id)'
      BY <2>2, <2>4, <3>1 DEF Decoding, GrantTo
    <3> QED BY <2>1, <2>2, <2>4, <3>2 DEF RowOK, GrantTo
  <2> QED BY <2>3, <2>4
<1>13. Granted'
  BY <1>2, <1>4, <1>11, <1>12 DEF Granted
<1>14. PromptOf' = PromptOf
  BY <1>9, <1>10 DEF PromptOf
<1>15. StepOK'
  <2>1. \A id \in DOMAIN seqs' : Len(seqs'[id].output) <= MaxOutput
    BY <1>3, <1>9, <1>10 DEF StepOK
  <2>2. ASSUME NEW id \in DOMAIN seqs' \ Running' PROVE seqs'[id].computed = 0
    <3>1. seqs'[id] = seqs[id]
      BY <1>4, <1>6, <1>8, <1>9
    <3> QED BY <1>3, <1>6, <1>9, <3>1 DEF StepOK
  <2>3. phase' = "batched" /\ scheduled' # << >> /\ spoiled' = FALSE /\ preemptions' \in 0..MaxPreemptions
    BY <1>2, <1>3, <1>4 DEF StepOK
  <2> QED BY <1>5, <1>13, <1>14, <2>1, <2>2, <2>3 DEF StepOK
<1>16. ASSUME NEW id \in Running', NEW i \in Nat, Done(id, i)'
       PROVE  /\ id \in Running /\ Done(id, i) /\ seqs'[id].prompt = seqs[id].prompt
              /\ Lengthens(cache.tables[id].blocks, cache'.tables[id].blocks)
  <2>1. id \in Running /\ id \in DOMAIN seqs
    BY <1>3, <1>6 DEF SeqsType
  <2>2. Lengthens(cache.tables[id].blocks, cache'.tables[id].blocks)
    BY <1>5, <2>1 DEF Extends, Running
  <2>3. i < seqs[id].computed
    <3>1. CASE \E k \in DOMAIN r : r[k].id = id /\ r[k].is_prefill
      <4>1. PICK k \in DOMAIN r : r[k].id = id /\ r[k].is_prefill
        BY <3>1
      <4>2. i < r[k].start_position
        BY <1>2, <1>16, <4>1 DEF Done
      <4> QED BY <1>4, <4>1, <4>2 DEF GrantTo
    <3>2. CASE ~\E k \in DOMAIN r : r[k].id = id /\ r[k].is_prefill
      <4>1. seqs'[id] = seqs[id]
        BY <1>8, <2>1, <3>2
      <4> QED BY <1>16, <4>1 DEF Done
    <3> QED BY <3>1, <3>2
  <2>4. Done(id, i)
    BY <1>2, <2>3 DEF Done
  <2> QED BY <1>10, <2>1, <2>2, <2>4
<1>17. ArenaOK'
  <2>1. arena \in Arenas /\ Known(arena)
    BY <1>2 DEF InferInd, ArenaOK
  <2>2. Known(arena)'
    BY <1>2, <1>3, <1>16, <2>1, KnownCarried
  <2> QED BY <1>2, <2>1, <2>2 DEF ArenaOK
<1> QED BY <1>15, <1>17 DEF InferInd

LEMMA ForwardInd == ASSUME InferInd, Forward PROVE InferInd'
<1>1. PICK out : out = forward(arena, Batch)
  OBVIOUS
<1>2. /\ phase = "batched" /\ arena' = out.store /\ phase' = "forwarded"
      /\ result' = [ok |-> out.ok, logits |-> out.logits] /\ spoiled' = (spoiled \/ ~out.ok)
      /\ cache' = cache /\ seqs' = seqs /\ scheduled' = scheduled /\ preemptions' = preemptions
  BY <1>1 DEF Forward
<1>3. StepOK /\ Granted /\ SeqsType /\ CacheInv(cache, PromptOf) /\ scheduled # << >> /\ ~spoiled
  BY <1>2 DEF InferInd, StepOK, Granted
<1>4. arena \in Arenas /\ Known(arena)
  BY <1>3 DEF InferInd, ArenaOK
<1>5. /\ out.ok \in BOOLEAN /\ (~out.ok => out.store = arena)
      /\ out.ok => /\ out.store \in Arenas /\ Computed(out.store) /\ LogitsOfPrompts(out.logits)
  BY <1>1, <1>2, <1>3, <1>4, ForwardExact
<1>6. Running' = Running /\ PromptOf' = PromptOf
  BY <1>2 DEF Running, PromptOf
<1>7. Granted'
  <2>1. SeqsType'
    BY <1>2, <1>3, <1>6 DEF SeqsType
  <2>2. \A i \in DOMAIN scheduled : RowOK(scheduled[i])'
    BY <1>2, <1>3, <1>6 DEF Granted, RowOK, Decoding
  <2> QED BY <1>2, <1>3, <2>1, <2>2 DEF Granted
<1>8. StepOK'
  <2>1. spoiled' \in BOOLEAN
    BY <1>2, <1>5
  <2>2. CacheInv(cache', PromptOf')
    BY <1>2, <1>3, <1>6
  <2>3. /\ \A id \in DOMAIN seqs' : Len(seqs'[id].output) <= MaxOutput
        /\ \A id \in DOMAIN seqs' \ Running' : seqs'[id].computed = 0
        /\ preemptions' \in 0..MaxPreemptions
    BY <1>2, <1>3, <1>6 DEF StepOK
  <2> QED BY <1>2, <1>3, <1>7, <2>1, <2>2, <2>3 DEF StepOK
<1>9. ArenaOK'
  <2>1. arena' \in Arenas
    BY <1>2, <1>4, <1>5
  <2>2. ASSUME ~spoiled' PROVE Known(arena)'
    <3>1. Computed(out.store)
      BY <1>2, <1>5, <2>2
    <3>2. ASSUME NEW l \in Layers, NEW id \in Running', NEW i \in Nat, Done(id, i)'
          PROVE  Right(arena, l, id, i)'
      <4>1. id \in Running /\ i < seqs[id].computed
        BY <1>2, <1>6, <3>2 DEF Done
      <4>2. Right(out.store, l, id, i)
        BY <3>1, <4>1 DEF Computed
      <4> QED BY <1>2, <4>2 DEF Right
    <3> QED BY <3>2 DEF Known
  <2>3. ASSUME ~spoiled' PROVE LogitsOfPrompts(result.logits)'
    <3>1. LogitsOfPrompts(out.logits) /\ result'.logits = out.logits
      BY <1>2, <1>5, <2>3
    <3> QED BY <1>2, <3>1 DEF LogitsOfPrompts
  <2> QED BY <2>1, <2>2, <2>3 DEF ArenaOK
<1> QED BY <1>8, <1>9 DEF InferInd

LEMMA StepFailsInd == ASSUME InferInd, StepFails PROVE InferInd'
<1>1. /\ phase = "forwarded" /\ phase' = "idle" /\ scheduled' = << >> /\ cache' = cache /\ arena' = arena
      /\ seqs' = seqs /\ spoiled' = spoiled /\ preemptions' = preemptions
  BY DEF StepFails
<1>2. StepOK /\ SeqsType /\ CacheInv(cache, PromptOf)
  BY DEF InferInd, StepOK, Granted
<1>3. Running' = Running /\ PromptOf' = PromptOf
  BY <1>1 DEF Running, PromptOf
<1>4. SeqsType'
  BY <1>1, <1>2, <1>3 DEF SeqsType
<1>5. StepOK'
  <2>1. Granted'
    BY <1>1, <1>4, IdleGranted
  <2> QED BY <1>1, <1>2, <1>3, <2>1 DEF StepOK
<1>6. ASSUME NEW id \in Running', NEW i \in Nat, Done(id, i)'
      PROVE  /\ id \in Running /\ Done(id, i) /\ seqs'[id].prompt = seqs[id].prompt
             /\ Lengthens(cache.tables[id].blocks, cache'.tables[id].blocks)
  <2>1. Lengthens(cache.tables[id].blocks, cache.tables[id].blocks)
    BY <1>2, <1>3, SameLength DEF Running
  <2>2. Done(id, i)
    BY <1>1, <1>6 DEF Done
  <2> QED BY <1>1, <1>3, <2>1, <2>2
<1>7. ArenaOK'
  <2>1. arena \in Arenas /\ (~spoiled => Known(arena))
    BY DEF InferInd, ArenaOK
  <2>2. ~spoiled' => Known(arena)'
    BY <1>1, <1>2, <1>6, <2>1, KnownCarried
  <2> QED BY <1>1, <2>1, <2>2 DEF ArenaOK
<1> QED BY <1>5, <1>7 DEF InferInd

LEMMA StepEndsInd == ASSUME InferInd, StepEnds PROVE InferInd'
<1>1. PICK ids : ids = {scheduled[i].id : i \in DOMAIN scheduled}
  OBVIOUS
<1>2. /\ phase = "forwarded" /\ phase' = "idle" /\ scheduled' = << >> /\ arena' = arena
      /\ spoiled' = spoiled /\ preemptions' = preemptions
      /\ cache' = FoldLeft(Publish, cache, scheduled)
      /\ seqs' = [id \in DOMAIN seqs |->
            IF id \in ids /\ Decoding(id)
              THEN [seqs[id] EXCEPT !.output =
                      IF Len(@) < MaxOutput THEN Append(@, Generated) ELSE @]
              ELSE seqs[id]]
  BY <1>1 DEF StepEnds
<1>3. StepOK /\ Granted /\ SeqsType /\ CacheInv(cache, PromptOf)
  BY DEF InferInd, StepOK, Granted
<1>4. CacheInv(cache', PromptOf) /\ cache'.tables = cache.tables
  BY <1>2, <1>3, RowsPublished DEF Sound
<1>5. Running' = Running
  BY <1>4 DEF Running
<1>6. ASSUME NEW id \in DOMAIN seqs
      PROVE  /\ seqs'[id].prompt = seqs[id].prompt /\ seqs'[id].computed = seqs[id].computed
             /\ seqs'[id] \in Record /\ Len(seqs'[id].output) <= MaxOutput
  <2>1. PICK q, o : q = seqs[id] /\ o = q.output
    OBVIOUS
  <2>2. q \in Record /\ o \in Seq({Generated}) /\ Len(o) <= MaxOutput /\ Len(o) \in Nat
    BY <1>3, <2>1, PromptIs DEF SeqsType, StepOK
  <2>3. CASE seqs'[id] = q
    BY <2>1, <2>2, <2>3
  <2>4. CASE seqs'[id] # q
    <3>1. Len(o) < MaxOutput /\ seqs'[id] = [q EXCEPT !.output = Append(o, Generated)]
      <4>1. seqs'[id] = [q EXCEPT !.output = IF Len(o) < MaxOutput THEN Append(o, Generated) ELSE o]
        BY <1>2, <2>1, <2>4
      <4>2. [q EXCEPT !.output = o] = q
        BY <2>1, <2>2 DEF Record
      <4> QED BY <2>4, <4>1, <4>2
    <3>2. Append(o, Generated) \in Seq({Generated}) /\ Len(Append(o, Generated)) = Len(o) + 1
      BY <2>2, AppendProperties
    <3>3. Len(o) + 1 <= MaxOutput
      BY <2>2, <3>1, InferenceAssumption
    <3>4. seqs'[id] \in Record
      BY <2>2, <3>1, <3>2 DEF Record
    <3>5. seqs'[id].prompt = q.prompt /\ seqs'[id].computed = q.computed
          /\ seqs'[id].output = Append(o, Generated)
      BY <2>2, <3>1 DEF Record
    <3> QED BY <2>1, <3>2, <3>3, <3>4, <3>5
  <2> QED BY <2>3, <2>4
<1>7. DOMAIN seqs' = DOMAIN seqs
  BY <1>2
<1>8. SeqsType'
  <2>1. seqs' \in [DOMAIN seqs' -> Record]
    BY <1>2, <1>6, <1>7
  <2>2. \A id \in DOMAIN seqs' : seqs'[id].computed <= Len(seqs'[id].prompt)
    BY <1>3, <1>6, <1>7 DEF SeqsType
  <2> QED BY <1>3, <1>5, <1>7, <2>1, <2>2 DEF SeqsType
<1>9. PromptOf' = PromptOf
  BY <1>6, <1>7 DEF PromptOf
<1>10. StepOK'
  <2>1. Granted'
    BY <1>2, <1>8, IdleGranted
  <2>2. \A id \in DOMAIN seqs' \ Running' : seqs'[id].computed = 0
    BY <1>3, <1>5, <1>6, <1>7 DEF StepOK
  <2>3. phase' = "idle" /\ scheduled' = << >> /\ spoiled' \in BOOLEAN /\ preemptions' \in 0..MaxPreemptions
    BY <1>2, <1>3 DEF StepOK
  <2> QED BY <1>4, <1>6, <1>7, <1>9, <2>1, <2>2, <2>3 DEF StepOK
<1>11. ASSUME NEW id \in Running', NEW i \in Nat, Done(id, i)'
       PROVE  /\ id \in Running /\ Done(id, i) /\ seqs'[id].prompt = seqs[id].prompt
              /\ Lengthens(cache.tables[id].blocks, cache'.tables[id].blocks)
  <2>1. id \in Running /\ id \in DOMAIN seqs
    BY <1>3, <1>5 DEF SeqsType
  <2>2. Lengthens(cache.tables[id].blocks, cache'.tables[id].blocks)
    BY <1>3, <1>4, <2>1, SameLength DEF Running
  <2>3. Done(id, i)
    BY <1>2, <1>6, <1>11, <2>1 DEF Done
  <2> QED BY <1>6, <2>1, <2>2, <2>3
<1>12. ArenaOK'
  <2>1. arena \in Arenas /\ (~spoiled => Known(arena))
    BY DEF InferInd, ArenaOK
  <2>2. ~spoiled' => Known(arena)'
    BY <1>2, <1>3, <1>11, <2>1, KnownCarried
  <2> QED BY <1>2, <2>1, <2>2 DEF ArenaOK
<1> QED BY <1>10, <1>12 DEF InferInd

LEMMA InferNextInd == InferInd /\ [InferNext]_inferVars => InferInd'
<1> SUFFICES ASSUME InferInd, [InferNext]_inferVars PROVE InferInd'
  OBVIOUS
<1>1. ASSUME NEW id \in SequenceIds, Admit(id) \/ Preempt(id) \/ Drop(id) PROVE InferInd'
  BY <1>1, AdmitInd, PreemptInd, DropInd
<1>2. ASSUME NEW r \in Batches, Schedule(r) PROVE InferInd'
  BY <1>2, ScheduleInd
<1>3. CASE Forward
  BY <1>3, ForwardInd
<1>4. CASE StepFails
  BY <1>4, StepFailsInd
<1>5. CASE StepEnds
  BY <1>5, StepEndsInd
<1>6. CASE UNCHANGED inferVars
  <2>1. /\ Running' = Running /\ PromptOf' = PromptOf /\ seqs' = seqs /\ scheduled' = scheduled
        /\ phase' = phase /\ cache' = cache /\ arena' = arena /\ result' = result
        /\ spoiled' = spoiled /\ preemptions' = preemptions
    BY <1>6 DEF inferVars, Running, PromptOf
  <2>2. Granted'
    <3>1. Granted /\ (\A i \in DOMAIN scheduled : RowOK(scheduled[i])')
      BY <2>1 DEF InferInd, StepOK, Granted, RowOK, Decoding
    <3> QED BY <2>1, <3>1 DEF Granted, SeqsType
  <2>3. StepOK'
    BY <2>1, <2>2 DEF InferInd, StepOK
  <2>4. Known(arena) => Known(arena)'
    BY <2>1 DEF Known, Done, Right
  <2>5. ArenaOK'
    BY <2>1, <2>4 DEF InferInd, ArenaOK, LogitsOfPrompts
  <2> QED BY <2>3, <2>5 DEF InferInd
<1> QED BY <1>1, <1>2, <1>3, <1>4, <1>5, <1>6 DEF InferNext

LEMMA InferIndHolds == InferSpec => []InferInd
<1> QED BY InferInitInd, InferNextInd, PTL DEF InferSpec

-----------------------------------------------------------------------------
(* The theorems.                                                            *)

\* Whatever chunks prompts are cut into, whoever shares their blocks and whatever
\* the other rows of a batch are, the arena holds under every covered position of
\* a prompt what a run of the model over that prompt alone would have computed
\* (transformer.rs forward, attention.rs write), and every row of a batch passes
\* KvStore::check_bounds.
THEOREM ArenaHolds == InferSpec => []ArenaExact
<1>1. ASSUME InferInd PROVE ArenaExact
  <2>1. StepOK /\ ArenaOK /\ Granted /\ SeqsType /\ CacheInv(cache, PromptOf)
    BY <1>1 DEF InferInd, StepOK, Granted
  <2>2. InferTypeOK
    <3>1. ASSUME NEW id \in DOMAIN seqs
          PROVE  /\ seqs[id].prompt \in Prompts /\ seqs[id].computed \in 0..Len(seqs[id].prompt)
                 /\ Range(seqs[id].output) \subseteq {Generated}
                 /\ Len(seqs[id].output) <= MaxOutput
      <4>1. /\ seqs[id].prompt \in Prompts /\ seqs[id].output \in Seq({Generated})
            /\ seqs[id].computed \in Nat /\ Len(seqs[id].prompt) \in Nat
            /\ seqs[id].computed <= Len(seqs[id].prompt) /\ Len(seqs[id].output) <= MaxOutput
        BY <2>1, PromptIs DEF StepOK
      <4>2. Range(seqs[id].output) \subseteq {Generated}
        BY <4>1 DEF Range
      <4> QED BY <4>1, <4>2
    <3>2. DOMAIN arena = 0..ArenaLen - 1
      BY <2>1 DEF ArenaOK, Arenas
    <3> QED BY <2>1, <3>1, <3>2 DEF InferTypeOK, StepOK, SeqsType, CacheInv
  <2>3. BoundsHold
    <3> SUFFICES ASSUME Located(Batch), NEW row \in Rows(Batch), NEW g \in KvHeads
                 PROVE  LET at == locate(TableOf(Batch, row), Batch.positions[row]) IN
                        check_bounds(0, at.block, at.slot, g, Value(0, g, Noise))
      BY DEF BoundsHold
    <3>1. Pass
      BY <2>1 DEF Pass
    <3>2. PICK id, p : RowAt(row, id, p)
      BY <3>1, RowsHavePlaces
    <3>3. PICK at : at = locate(TableOf(Batch, row), Batch.positions[row])
      OBVIOUS
    <3>4. at \in Spots
      BY <3>1, <3>2, <3>3, RowPlace
    <3>5. at.block < num_blocks /\ at.slot < block_size /\ g < num_kv_heads /\ 0 < num_layers
      BY <3>4, SizesAssumption, ModelAssumption DEF Spots, BlockId, KvHeads
    <3>6. Len(Value(0, g, Noise)) = head_dim
      BY ModelAssumption DEF Value
    <3> QED BY <3>3, <3>5, <3>6 DEF check_bounds
  <2>4. PromptCellsExact
    <3> SUFFICES ASSUME phase # "batched", ~spoiled, NEW id \in Running,
                        NEW j \in 1..seqs[id].computed, NEW l \in Layers, NEW g \in KvHeads
                 PROVE  LET at == locate(cache.tables[id].blocks, j - 1)
                            h  == Hidden(l, SubSeq(seqs[id].prompt, 1, j))
                        IN  /\ read(arena, l, at, g, FALSE) = Key(l, g, j - 1, h)
                            /\ read(arena, l, at, g, TRUE) = Value(l, g, h)
      BY DEF PromptCellsExact, CellsExact
    <3>1. PICK i : i = j - 1 /\ i \in Nat /\ i < seqs[id].computed /\ i + 1 = j
      <4>1. seqs[id].computed \in Nat
        BY <2>1, RunningPrompt, PromptIs
      <4> QED BY <4>1
    <3>2. Done(id, i)
      BY <3>1 DEF Done
    <3>3. Right(arena, l, id, i)
      BY <2>1, <3>1, <3>2 DEF ArenaOK, Known
    <3>4. Through(seqs[id].prompt, i) = SubSeq(seqs[id].prompt, 1, j)
      BY <3>1 DEF Through
    <3> QED BY <3>1, <3>3, <3>4 DEF Right, HasKV
  <2> QED BY <2>2, <2>3, <2>4 DEF ArenaExact
<1> QED BY <1>1, InferIndHolds, PTL

\* The logits of a prefill row of a sequence without output are those of that
\* sequence at the end of its chunk (transformer.rs, the last rows of forward).
THEOREM LogitsHold == InferSpec => []PrefillLogitsExact
<1>1. InferInd => PrefillLogitsExact
  BY DEF InferInd, ArenaOK, LogitsOfPrompts, PrefillLogitsExact
<1> QED BY <1>1, InferIndHolds, PTL

\* Whatever is not a pass leaves the arena.
LEMMA ArenaLeft ==
  ASSUME [InferNext]_inferVars, ~Forward PROVE arena' = arena
<1>1. ASSUME NEW id \in SequenceIds, Admit(id) \/ Preempt(id) \/ Drop(id) PROVE arena' = arena
  BY <1>1 DEF Admit, Preempt, Drop
<1>2. ASSUME NEW r \in Batches, Schedule(r) PROVE arena' = arena
  BY <1>2 DEF Schedule
<1>3. StepFails \/ StepEnds \/ UNCHANGED inferVars => arena' = arena
  BY DEF StepFails, StepEnds, inferVars
<1> QED BY <1>1, <1>2, <1>3 DEF InferNext

\* What a pass is, where the invariant holds.
LEMMA PassIs ==
  ASSUME InferInd, Forward
  PROVE  /\ result'.ok \in BOOLEAN /\ (~result'.ok => arena' = arena)
         /\ phase = "batched" /\ SeqsType /\ Known(arena)
         /\ result'.ok => \A l \in Layers, id \in Running, i \in Nat : Done(id, i) => Right(arena', l, id, i)
<1>1. PICK out : out = forward(arena, Batch)
  OBVIOUS
<1>2. phase = "batched" /\ arena' = out.store /\ result' = [ok |-> out.ok, logits |-> out.logits]
  BY <1>1 DEF Forward
<1>3. Granted /\ SeqsType /\ CacheInv(cache, PromptOf) /\ scheduled # << >> /\ ~spoiled
  BY <1>2 DEF InferInd, StepOK, Granted
<1>4. arena \in Arenas /\ Known(arena)
  BY <1>3 DEF InferInd, ArenaOK
<1>5. out.ok \in BOOLEAN /\ (~out.ok => out.store = arena) /\ (out.ok => Known(out.store))
  BY <1>1, <1>2, <1>3, <1>4, ForwardExact
<1>6. out.ok => \A l \in Layers, id \in Running, i \in Nat : Done(id, i) => Right(out.store, l, id, i)
  BY <1>5 DEF Known
<1> QED BY <1>2, <1>3, <1>4, <1>5, <1>6

\* A refused pass has not touched the arena (transformer.rs forward: every check
\* comes before the first write).
THEOREM RefusalWritesNothing == InferSpec => RefusedPassWritesNothing
<1>1. ASSUME InferInd, [InferNext]_inferVars
      PROVE  phase' = "forwarded" /\ ~result'.ok => arena' = arena
  <2>1. CASE Forward
    BY <1>1, <2>1, PassIs
  <2>2. CASE ~Forward
    BY <1>1, <2>2, ArenaLeft
  <2> QED BY <2>1, <2>2
<1> QED BY <1>1, InferIndHolds, PTL DEF InferSpec, RefusedPassWritesNothing

\* A pass leaves what the sequences outside its batch have stored, even where
\* they share blocks with it (attention.rs write).
THEOREM BystandersHold == InferSpec => BystandersUndisturbed
<1>1. ASSUME InferInd, [InferNext]_inferVars, ~spoiled, arena' # arena, NEW id \in Running,
             \A i \in DOMAIN scheduled : scheduled[i].id # id,
             NEW j \in 1..seqs[id].computed, NEW l \in Layers, NEW g \in KvHeads
      PROVE  LET at == locate(cache.tables[id].blocks, j - 1) IN
             /\ read(arena', l, at, g, FALSE) = read(arena, l, at, g, FALSE)
             /\ read(arena', l, at, g, TRUE) = read(arena, l, at, g, TRUE)
  <2>1. Forward
    BY <1>1, ArenaLeft
  <2>2. SeqsType /\ Known(arena) /\ result'.ok
    BY <1>1, <2>1, PassIs
  <2>3. PICK i : i = j - 1 /\ i \in Nat /\ i < seqs[id].computed
    <3>1. seqs[id].computed \in Nat
      BY <1>1, <2>2, RunningPrompt, PromptIs
    <3> QED BY <1>1, <3>1
  <2>4. Done(id, i)
    BY <1>1, <2>3 DEF Done
  <2>5. Right(arena, l, id, i)
    BY <1>1, <2>2, <2>3, <2>4 DEF Known
  <2>6. Right(arena', l, id, i)
    BY <1>1, <2>1, <2>2, <2>3, <2>4, PassIs
  <2> QED BY <1>1, <2>3, <2>5, <2>6 DEF Right, HasKV
<1>2. ASSUME InferInd, [InferNext]_inferVars
      PROVE  ~spoiled /\ arena' # arena => \A id \in Running :
       (\A i \in DOMAIN scheduled : scheduled[i].id # id) =>
         \A j \in 1..seqs[id].computed, l \in Layers, g \in KvHeads :
            LET at == locate(cache.tables[id].blocks, j - 1) IN
            /\ read(arena', l, at, g, FALSE) = read(arena, l, at, g, FALSE)
            /\ read(arena', l, at, g, TRUE) = read(arena, l, at, g, TRUE)
  BY <1>1, <1>2
<1> QED BY <1>2, InferIndHolds, PTL DEF InferSpec, BystandersUndisturbed
=============================================================================
