----------------------------- MODULE ApiProofs ------------------------------
(***************************************************************************)
(* Proofs about a request: the incremental decoder, the stop matcher, and  *)
(* the handler that reads a stream of tokens through them.                 *)
(*                                                                         *)
(* Texts: lossy UTF-8 can be cut between any two bytes but the two of one  *)
(* character (LossyJoined), so that the text of some tokens, without the   *)
(* characters held back at its end, begins the text of more of them.  The  *)
(* decoder's invariant is DecoderOK: it has emitted the text of what left  *)
(* the window, which ends in no open character, and of the window all but  *)
(* what is held back; the offset it keeps is the width of the latter.      *)
(* Between the two halves of push only a part of the window's text is      *)
(* emitted (Partly), and the window moves only past text that all was.     *)
(*                                                                         *)
(* A tokenizer may strip the space that begins a text.  A window that      *)
(* begins with one is then decoded without it, and the offset no longer    *)
(* measures what was emitted.  The decoder is exact as long as no window   *)
(* has begun so (Intact): nothing is assumed of the tokenizer.  Without    *)
(* Intact the invariant still says where the events end and what was       *)
(* counted, since these do not depend on the text.                         *)
(*                                                                         *)
(* The matcher's invariant is MatcherOK: its buffer is an end of the text, *)
(* and all of it or at least as wide as the longest stop string.  A stop   *)
(* string that the next piece completes then lies in the buffer and the    *)
(* piece (OccursInEnd).  Where the stop string begins in what was sent     *)
(* before the piece, the stream has sent more than an answer that is cut   *)
(* as a whole would hold, and never less (CutPieces).                      *)
(*                                                                         *)
(* The handler's invariant ties the two to the events of the stream: in    *)
(* the loop it has taken tokens only, as many as it counts, its text is    *)
(* what the decoder emitted, and no stop string is in it.                  *)
(***************************************************************************)
EXTENDS Api, SequenceLemmas

-----------------------------------------------------------------------------
(* Sequences end to end.                                                    *)

\* A concatenation, element by element.
LEMMA Joined ==
  ASSUME NEW S, NEW x \in Seq(S), NEW y \in Seq(S)
  PROVE  /\ x \o y \in Seq(S) /\ Len(x \o y) = Len(x) + Len(y)
         /\ \A i \in 1..Len(x) : (x \o y)[i] = x[i]
         /\ \A i \in 1..Len(y) : (x \o y)[Len(x) + i] = y[i]
  OBVIOUS

LEMMA SameSeq ==
  ASSUME NEW S, NEW x \in Seq(S), NEW y \in Seq(S), Len(x) = Len(y),
         \A i \in 1..Len(x) : x[i] = y[i]
  PROVE  x = y
  OBVIOUS

\* Named, so that a proof says which three sequences it is about.
Regroups(x, y, z) == (x \o y) \o z = x \o (y \o z)

LEMMA JoinedAt ==
  ASSUME NEW S, NEW x \in Seq(S), NEW y \in Seq(S), NEW i \in 1..Len(y)
  PROVE  (x \o y)[Len(x) + i] = y[i]
  BY Joined

LEMMA Associates ==
  ASSUME NEW S, NEW x \in Seq(S), NEW y \in Seq(S), NEW z \in Seq(S)
  PROVE  Regroups(x, y, z)
  BY DEF Regroups

LEMMA Empties ==
  ASSUME NEW S, NEW x \in Seq(S)
  PROVE  /\ << >> \in Seq(S) /\ x \o << >> = x /\ << >> \o x = x
         /\ Len(x) \in Nat /\ (Len(x) = 0 <=> x = << >>) /\ DOMAIN x = 1..Len(x)
         /\ \A i \in 1..Len(x) : x[i] \in S
  OBVIOUS

\* A sequence cut in two.
LEMMA CutAt ==
  ASSUME NEW S, NEW t \in Seq(S), NEW i \in 0..Len(t)
  PROVE  /\ SubSeq(t, 1, i) \in Seq(S) /\ SubSeq(t, i + 1, Len(t)) \in Seq(S)
         /\ Len(SubSeq(t, 1, i)) = i /\ Len(SubSeq(t, i + 1, Len(t))) = Len(t) - i
         /\ t = SubSeq(t, 1, i) \o SubSeq(t, i + 1, Len(t))
<1>1. PICK n, u, v : n = Len(t) /\ u = SubSeq(t, 1, i) /\ v = SubSeq(t, i + 1, n)
  OBVIOUS
<1>2. n \in Nat /\ i \in Nat /\ i <= n /\ t \in [1..n -> S]
  BY <1>1
<1>3. u \in Seq(S) /\ Len(u) = i /\ \A k \in 1..i : u[k] = t[k]
  BY <1>1, <1>2
<1>4. v \in Seq(S) /\ Len(v) = n - i /\ \A k \in 1..n - i : v[k] = t[i + k]
  <2>1. \A k \in i + 1..n : t[k] \in S
    BY <1>2
  <2>2. v \in Seq(S) /\ Len(v) = n - i
    BY <1>1, <1>2, <2>1
  <2>3. \A k \in 1..n - i : v[k] = t[i + k]
    BY <1>1, <1>2, <2>1
  <2> QED BY <2>2, <2>3
<1>5. u \o v \in Seq(S) /\ Len(u \o v) = n
  <2>1. u \o v \in Seq(S) /\ Len(u \o v) = Len(u) + Len(v)
    BY <1>3, <1>4, Joined
  <2> QED BY <2>1, <1>2, <1>3, <1>4
<1>6. ASSUME NEW k \in 1..n PROVE (u \o v)[k] = t[k]
  <2>1. CASE k <= i
    BY <2>1, <1>2, <1>3, <1>4
  <2>2. CASE k > i
    <3>1. k - i \in 1..n - i /\ i + (k - i) = k
      BY <2>2, <1>2
    <3>2. (u \o v)[i + (k - i)] = v[k - i]
      BY <3>1, <1>3, <1>4, Joined
    <3> QED BY <3>1, <3>2, <1>4
  <2>3. k <= i \/ k > i
    BY <1>2
  <2> QED BY <2>1, <2>2, <2>3
<1>7. t = u \o v
  BY <1>1, <1>5, <1>6, SameSeq
<1> QED BY <1>1, <1>3, <1>4, <1>7

\* The same, of two parts with names.
Parts(t, i, p, z) == p = SubSeq(t, 1, i) /\ z = SubSeq(t, i + 1, Len(t))

LEMMA CutParts ==
  ASSUME NEW S, NEW t \in Seq(S), NEW i \in 0..Len(t), NEW p, NEW z, Parts(t, i, p, z)
  PROVE  p \in Seq(S) /\ z \in Seq(S) /\ Len(p) = i /\ Len(z) = Len(t) - i /\ t = p \o z
<1>1. p = SubSeq(t, 1, i) /\ z = SubSeq(t, i + 1, Len(t))
  BY DEF Parts
<1>2. PICK u, v : u = SubSeq(t, 1, i) /\ v = SubSeq(t, i + 1, Len(t))
  OBVIOUS
<1>3. u \in Seq(S) /\ v \in Seq(S) /\ Len(u) = i /\ Len(v) = Len(t) - i /\ t = u \o v
  BY <1>2, CutAt
<1> QED BY <1>1, <1>2, <1>3

LEMMA CutJoined ==
  ASSUME NEW S, NEW x \in Seq(S), NEW y \in Seq(S)
  PROVE  /\ SubSeq(x \o y, 1, Len(x)) = x
         /\ SubSeq(x \o y, Len(x) + 1, Len(x \o y)) = y
  OBVIOUS

LEMMA Cancels ==
  ASSUME NEW S, NEW x \in Seq(S), NEW y \in Seq(S), NEW z \in Seq(S), x \o y = x \o z
  PROVE  y = z
<1>1. Len(y) = Len(z)
  BY Joined
<1>2. ASSUME NEW i \in 1..Len(y) PROVE y[i] = z[i]
  BY <1>1, Joined
<1> QED BY <1>1, <1>2, SameSeq

LEMMA LastOfJoined ==
  ASSUME NEW S, NEW x \in Seq(S), NEW y \in Seq(S), y # << >>
  PROVE  Last(x \o y) = Last(y) /\ x \o y # << >> /\ Last(y) \in S
  BY DEF Last

LEMMA Prefixed ==
  ASSUME NEW S, NEW x \in Seq(S), NEW y \in Seq(S)
  PROVE  IsPrefix(x, x \o y)
  BY DEF IsPrefix

\* Of two beginnings of one sequence, the shorter begins the longer.
Overlap(x, y, u, v) == x \o y = u \o v /\ Len(x) <= Len(u)
Between(x, y, u, v, z) == u = x \o z /\ y = z \o v

LEMMA Nested ==
  ASSUME NEW S, NEW x \in Seq(S), NEW y \in Seq(S), NEW u \in Seq(S), NEW v \in Seq(S),
         Overlap(x, y, u, v)
  PROVE  \E z \in Seq(S) : Between(x, y, u, v, z)
<1>1. PICK n : n = Len(x)
  OBVIOUS
<1>2. x \o y = u \o v
  BY DEF Overlap
<1>3. n \in 0..Len(u) /\ n \in Nat
  BY <1>1 DEF Overlap
<1>4. PICK p, z : p = SubSeq(u, 1, n) /\ z = SubSeq(u, n + 1, Len(u))
  OBVIOUS
<1>5. p \in Seq(S) /\ z \in Seq(S) /\ Len(p) = n /\ u = p \o z
  <2>1. Parts(u, n, p, z)
    BY <1>4 DEF Parts
  <2> QED BY <1>3, <2>1, CutParts
<1>6. p = x
  <2>1. ASSUME NEW i \in 1..n PROVE p[i] = x[i]
    <3>1. i \in 1..Len(u) /\ i \in 1..Len(x) /\ i \in 1..Len(p)
      BY <1>1, <1>3, <1>5
    <3>2. (x \o y)[i] = x[i] /\ (u \o v)[i] = u[i] /\ u[i] = p[i]
      BY <3>1, <1>5, Joined
    <3> QED BY <3>2, <1>2
  <2> QED BY <2>1, <1>1, <1>5, SameSeq
<1>7. x \o y = x \o (z \o v) /\ z \o v \in Seq(S)
  <2>1. x \o y = (x \o z) \o v
    BY <1>5, <1>6, <1>2
  <2>2. (x \o z) \o v = x \o (z \o v)
    <3>1. z \in Seq(S)
      BY <1>5
    <3>2. Regroups(x, z, v)
      BY <3>1, Associates
    <3> QED BY <3>2 DEF Regroups
  <2>3. z \o v \in Seq(S)
    BY <1>5, Joined
  <2> QED BY <2>1, <2>2, <2>3
<1>8. y = z \o v
  BY <1>7, Cancels
<1> QED BY <1>5, <1>6, <1>8 DEF Between

-----------------------------------------------------------------------------
(* FlattenSeq and TextLen of two sequences end to end.                      *)

LEMMA FlattenJoined ==
  ASSUME NEW X, NEW s \in Seq(Seq(X)), NEW t \in Seq(Seq(X))
  PROVE  /\ FlattenSeq(s) \in Seq(X) /\ FlattenSeq(t) \in Seq(X)
         /\ FlattenSeq(s \o t) = FlattenSeq(s) \o FlattenSeq(t)
<1>1. PICK n, m, u : n = Len(s) /\ m = Len(t) /\ u = s \o t
  OBVIOUS
<1>2. /\ n \in Nat /\ m \in Nat /\ u \in Seq(Seq(X)) /\ Len(u) = n + m
      /\ \A i \in 1..n : u[i] = s[i] /\ s[i] \in Seq(X)
      /\ \A j \in 1..m : u[n + j] = t[j] /\ t[j] \in Seq(X)
  BY <1>1
<1>3. /\ \A i \in 1..n : i \in 1..n + m /\ i - 1 \in 0..n
      /\ \A j \in 1..m : n + j \in 1..n + m /\ (n + j) - 1 = n + (j - 1) /\ j - 1 \in 0..m /\ j \in 0..m
      /\ n \in 0..n /\ m \in 0..m /\ 0 \in 0..m /\ n + 0 = n
  BY <1>2
<1>4. PICK a : Glues(a, s, X) /\ FlattenSeq(s) = a[n]
  BY <1>1, FlattenSteps
<1>5. PICK b : Glues(b, t, X) /\ FlattenSeq(t) = b[m]
  BY <1>1, FlattenSteps
<1>6. PICK h : Glues(h, u, X) /\ FlattenSeq(u) = h[n + m]
  BY <1>2, FlattenSteps
<1>7. /\ a \in [0..n -> Seq(X)] /\ a[0] = << >> /\ \A i \in 1..n : a[i] = a[i - 1] \o s[i]
  BY <1>1, <1>4 DEF Glues
<1>8. /\ b \in [0..m -> Seq(X)] /\ b[0] = << >> /\ \A j \in 1..m : b[j] = b[j - 1] \o t[j]
  BY <1>1, <1>5 DEF Glues
<1>9. h[0] = << >> /\ \A i \in 1..n + m : h[i] = h[i - 1] \o u[i]
  BY <1>2, <1>6 DEF Glues
<1>10. a[n] \in Seq(X) /\ \A j \in 0..m : b[j] \in Seq(X)
  BY <1>3, <1>7, <1>8
<1>11. h[n] = a[n]
  <2>1. ASSUME NEW i \in 1..n, h[i - 1] = a[i - 1] PROVE h[i] = a[i]
    <3>1. h[i] = h[i - 1] \o u[i] /\ u[i] = s[i] /\ a[i] = a[i - 1] \o s[i]
      BY <1>2, <1>3, <1>7, <1>9
    <3> QED BY <2>1, <3>1
  <2>2. Follows(h, a, n)
    BY <1>7, <1>9, <2>1 DEF Follows
  <2> QED BY <1>2, <1>3, <2>2, StepsAgree
<1>12. PICK f : f = [j \in 0..m |-> h[n + j]]
  OBVIOUS
<1>13. PICK g : g = [j \in 0..m |-> a[n] \o b[j]]
  OBVIOUS
<1>14. f[0] = g[0]
  <2>1. f[0] = h[n]
    BY <1>3, <1>12
  <2>2. g[0] = a[n] \o << >>
    BY <1>3, <1>8, <1>13
  <2>3. a[n] \o << >> = a[n]
    BY <1>10, Empties
  <2> QED BY <1>11, <2>1, <2>2, <2>3
<1>15. ASSUME NEW j \in 1..m, f[j - 1] = g[j - 1] PROVE f[j] = g[j]
  <2>1. f[j] = h[n + j] /\ f[j - 1] = h[n + (j - 1)]
    BY <1>3, <1>12
  <2>2. g[j] = a[n] \o b[j] /\ g[j - 1] = a[n] \o b[j - 1]
    BY <1>3, <1>13
  <2>3. h[n + j] = h[(n + j) - 1] \o t[j]
    BY <1>2, <1>3, <1>9
  <2>4. h[(n + j) - 1] = h[n + (j - 1)]
    BY <1>3
  <2>5. f[j] = (a[n] \o b[j - 1]) \o t[j]
    BY <2>1, <2>2, <2>3, <2>4, <1>15
  <2>6. (a[n] \o b[j - 1]) \o t[j] = a[n] \o (b[j - 1] \o t[j])
    <3>1. PICK x, y, z : x = a[n] /\ y = b[j - 1] /\ z = t[j]
      OBVIOUS
    <3>2. x \in Seq(X) /\ y \in Seq(X) /\ z \in Seq(X)
      BY <1>2, <1>3, <1>10, <3>1
    <3>3. (x \o y) \o z = x \o (y \o z)
      <4>1. Regroups(x, y, z)
        BY <3>2, Associates
      <4> QED BY <4>1 DEF Regroups
    <3> QED BY <3>1, <3>3
  <2>7. b[j] = b[j - 1] \o t[j]
    BY <1>8
  <2> QED BY <2>2, <2>5, <2>6, <2>7
<1>16. f[m] = g[m]
  <2>1. Follows(f, g, m)
    BY <1>14, <1>15 DEF Follows
  <2> QED BY <1>2, <1>3, <2>1, StepsAgree
<1>17. h[n + m] = a[n] \o b[m]
  BY <1>3, <1>12, <1>13, <1>16
<1> QED BY <1>1, <1>3, <1>4, <1>5, <1>6, <1>10, <1>17

\* Of one element.
LEMMA FlattenOne ==
  ASSUME NEW X, NEW x \in Seq(X)
  PROVE  FlattenSeq(<<x>>) = x /\ FlattenSeq(<< >>) = << >>
<1>1. PICK s : s = <<x>>
  OBVIOUS
<1>2. s \in Seq(Seq(X)) /\ Len(s) = 1 /\ s[1] = x /\ << >> \in Seq(Seq(X)) /\ Len(<< >>) = 0
  BY <1>1
<1>3. PICK h : Glues(h, s, X) /\ FlattenSeq(s) = h[Len(s)]
  BY <1>2, FlattenSteps
<1>4. h[0] = << >> /\ \A i \in 1..1 : h[i] = h[i - 1] \o s[i]
  BY <1>2, <1>3 DEF Glues
<1>5. h[1] = << >> \o x
  <2>1. 1 \in 1..1 /\ 1 - 1 = 0
    OBVIOUS
  <2> QED BY <1>2, <1>4, <2>1
<1>6. FlattenSeq(<< >>) = << >>
  BY <1>2 DEF FlattenSeq
<1> QED BY <1>1, <1>2, <1>3, <1>5, <1>6, Empties

-----------------------------------------------------------------------------
(* The length of a text in bytes.                                           *)

\* h runs through t and adds up the widths.
Widths(h, t) ==
  /\ h \in [0..Len(t) -> Nat] /\ h[0] = 0
  /\ \A i \in 1..Len(t) : h[i] = h[i - 1] + Width(t[i])

LEMMA WidthBounds == \A c : Width(c) \in Nat /\ Width(c) >= 1
  BY DEF Width

LEMMA TextLenSteps ==
  ASSUME NEW t \in Text
  PROVE  \E h : Widths(h, t) /\ TextLen(t) = h[Len(t)]
<1>1. PICK N, S, base, seq : N = Len(t) /\ S = Nat /\ base = 0 /\ seq = t
  OBVIOUS
<1>2. N \in Nat /\ base \in S /\ DOMAIN seq = 1..N
  BY <1>1 DEF Text
<1>3. ASSUME NEW i \in 1..N, NEW x \in S PROVE x + Width(seq[i]) \in S
  BY <1>1, WidthBounds
<1> DEFINE F == [i \in 1..N |-> [x \in S |-> x + Width(seq[i])]]
           Body(g) == [D \in SUBSET (1..N) |->
                         IF D = {} THEN base ELSE g[D \ {Max(D)}] + Width(seq[Max(D)])]
           iter == CHOOSE g : g = Body(g)
<1>4. F \in [1..N -> [S -> S]]
  BY <1>3
<1>5. \A i \in 1..N, x \in S : F[i][x] = x + Width(seq[i])
  OBVIOUS
<1>6. TextLen(t) = iter[1..N]
  <2>1. FoldLeft(LAMBDA n, c : n + Width(c), base, seq) = iter[1..N]
    BY <1>2 DEF FoldLeft, MapThenFoldSet
  <2> HIDE DEF iter
  <2> QED BY <1>1, <2>1 DEF TextLen
<1> HIDE DEF F
<1>7. iter = Body(iter)
  <2>1. PICK g : g \in FoldsOf(S, N, base, F)
    <3> HIDE DEF Body
    <3>1. FoldsOf(S, N, base, F) # {}
      BY <1>2, <1>4, FoldExists
    <3> QED BY <3>1
  <2>2. ASSUME NEW D \in SUBSET (1..N)
        PROVE  g[D] = IF D = {} THEN base ELSE g[D \ {Max(D)}] + Width(seq[Max(D)])
    <3> HIDE DEF Body
    <3>1. CASE D # {}
      <4>1. Max(D) \in 1..N /\ g[D \ {Max(D)}] \in S /\ g[D] = F[Max(D)][g[D \ {Max(D)}]]
        BY <3>1, <2>1, <1>2, FoldDomain DEF FoldsOf
      <4> QED BY <4>1, <3>1, <1>5
    <3> QED BY <3>1, <2>1 DEF FoldsOf
  <2>3. g = Body(g)
    BY <2>1, <2>2 DEF FoldsOf
  <2> HIDE DEF Body
  <2> QED BY <2>3
<1> HIDE DEF iter
<1>8. \A D \in SUBSET (1..N) :
         iter[D] = IF D = {} THEN base ELSE iter[D \ {Max(D)}] + Width(seq[Max(D)])
  BY <1>7
<1> HIDE DEF Body
<1>9. Iterates(S, N, base, F, iter)
  <2>1. iter[{}] = base
    BY <1>8
  <2>2. ASSUME NEW D \in (SUBSET (1..N)) \ {{}}
        PROVE  iter[D \ {Max(D)}] \in S => iter[D] = F[Max(D)][iter[D \ {Max(D)}]]
    <3>1. Max(D) \in 1..N
      BY <1>2, FoldDomain
    <3> QED BY <3>1, <1>5, <1>8, ZenonT(40)
  <2> QED BY <2>1, <2>2 DEF Iterates
<1>10. PICK h \in StepsOf(S, N, base, F) : h[N] = iter[1..N]
  BY <1>2, <1>4, <1>9, FoldPrefixes
<1>11. /\ h \in [0..N -> S] /\ h[0] = base
       /\ \A i \in 1..N : h[i] = h[i - 1] + Width(seq[i])
  <2>1. h \in [0..N -> S] /\ h[0] = base /\ \A i \in 1..N : h[i] = F[i][h[i - 1]]
    BY <1>10 DEF StepsOf
  <2>2. \A i \in 1..N : h[i - 1] \in S
    BY <1>2, <2>1, FoldDomain
  <2> QED BY <1>5, <2>1, <2>2
<1> QED BY <1>1, <1>6, <1>10, <1>11 DEF Widths

LEMMA TextLenJoined ==
  ASSUME NEW s \in Text, NEW t \in Text
  PROVE  TextLen(s \o t) = TextLen(s) + TextLen(t) /\ TextLen(s) \in Nat /\ TextLen(t) \in Nat
<1>1. PICK n, m, u : n = Len(s) /\ m = Len(t) /\ u = s \o t
  OBVIOUS
<1>2. /\ n \in Nat /\ m \in Nat /\ u \in Text /\ Len(u) = n + m
      /\ \A i \in 1..n : u[i] = s[i]
      /\ \A j \in 1..m : u[n + j] = t[j]
  BY <1>1 DEF Text
<1>3. /\ \A i \in 1..n : i \in 1..n + m /\ i - 1 \in 0..n
      /\ \A j \in 1..m : n + j \in 1..n + m /\ (n + j) - 1 = n + (j - 1) /\ j - 1 \in 0..m /\ j \in 0..m
      /\ n \in 0..n /\ m \in 0..m /\ 0 \in 0..m /\ n + 0 = n
  BY <1>2
<1>4. PICK a : Widths(a, s) /\ TextLen(s) = a[n]
  BY <1>1, TextLenSteps
<1>5. PICK b : Widths(b, t) /\ TextLen(t) = b[m]
  BY <1>1, TextLenSteps
<1>6. PICK h : Widths(h, u) /\ TextLen(u) = h[n + m]
  BY <1>2, TextLenSteps
<1>7. /\ a \in [0..n -> Nat] /\ a[0] = 0 /\ \A i \in 1..n : a[i] = a[i - 1] + Width(s[i])
  BY <1>1, <1>4 DEF Widths
<1>8. /\ b \in [0..m -> Nat] /\ b[0] = 0 /\ \A j \in 1..m : b[j] = b[j - 1] + Width(t[j])
  BY <1>1, <1>5 DEF Widths
<1>9. h[0] = 0 /\ \A i \in 1..n + m : h[i] = h[i - 1] + Width(u[i])
  BY <1>2, <1>6 DEF Widths
<1>10. a[n] \in Nat /\ \A j \in 0..m : b[j] \in Nat
  BY <1>3, <1>7, <1>8
<1>11. h[n] = a[n]
  <2>1. ASSUME NEW i \in 1..n, h[i - 1] = a[i - 1] PROVE h[i] = a[i]
    <3>1. h[i] = h[i - 1] + Width(u[i]) /\ u[i] = s[i] /\ a[i] = a[i - 1] + Width(s[i])
      BY <1>2, <1>3, <1>7, <1>9
    <3> QED BY <2>1, <3>1
  <2>2. Follows(h, a, n)
    BY <1>7, <1>9, <2>1 DEF Follows
  <2> QED BY <1>2, <1>3, <2>2, StepsAgree
<1>12. PICK f : f = [j \in 0..m |-> h[n + j]]
  OBVIOUS
<1>13. PICK g : g = [j \in 0..m |-> a[n] + b[j]]
  OBVIOUS
<1>14. f[0] = g[0]
  <2>1. f[0] = h[n]
    BY <1>3, <1>12
  <2>2. g[0] = a[n] + 0
    BY <1>3, <1>8, <1>13
  <2> QED BY <1>10, <1>11, <2>1, <2>2
<1>15. ASSUME NEW j \in 1..m, f[j - 1] = g[j - 1] PROVE f[j] = g[j]
  <2>1. f[j] = h[n + j] /\ f[j - 1] = h[n + (j - 1)]
    BY <1>3, <1>12
  <2>2. g[j] = a[n] + b[j] /\ g[j - 1] = a[n] + b[j - 1]
    BY <1>3, <1>13
  <2>3. h[n + j] = h[(n + j) - 1] + Width(t[j])
    BY <1>2, <1>3, <1>9
  <2>4. h[(n + j) - 1] = h[n + (j - 1)]
    BY <1>3
  <2>5. f[j] = (a[n] + b[j - 1]) + Width(t[j])
    BY <2>1, <2>2, <2>3, <2>4, <1>15
  <2>6. b[j] = b[j - 1] + Width(t[j]) /\ b[j - 1] \in Nat
    BY <1>3, <1>8, <1>10
  <2> QED BY <1>10, <2>2, <2>5, <2>6, WidthBounds
<1>16. f[m] = g[m]
  <2>1. Follows(f, g, m)
    BY <1>14, <1>15 DEF Follows
  <2> QED BY <1>2, <1>3, <2>1, StepsAgree
<1>17. h[n + m] = a[n] + b[m]
  BY <1>3, <1>12, <1>13, <1>16
<1> QED BY <1>1, <1>3, <1>4, <1>5, <1>6, <1>10, <1>17

LEMMA TextLenOf ==
  ASSUME NEW t \in Text
  PROVE  TextLen(t) \in Nat /\ (TextLen(t) = 0 <=> t = << >>)
<1>1. PICK h : Widths(h, t) /\ TextLen(t) = h[Len(t)]
  BY TextLenSteps
<1>2. Len(t) \in Nat /\ (t = << >> <=> Len(t) = 0)
  BY DEF Text
<1>3. h[Len(t)] \in Nat /\ h[0] = 0
  BY <1>1, <1>2 DEF Widths
<1>4. ASSUME Len(t) # 0 PROVE h[Len(t)] # 0
  <2>1. Len(t) \in 1..Len(t) /\ Len(t) - 1 \in 0..Len(t)
    BY <1>2, <1>4
  <2>2. h[Len(t)] = h[Len(t) - 1] + Width(t[Len(t)]) /\ h[Len(t) - 1] \in Nat
    BY <1>1, <2>1 DEF Widths
  <2> QED BY <2>2, WidthBounds
<1> QED BY <1>1, <1>2, <1>3, <1>4

LEMMA MaxOf ==
  ASSUME NEW D \in SUBSET Int, NEW x \in D, \A y \in D : x >= y
  PROVE  Max(D) = x
<1>1. \A y \in D : (\A w \in D : y >= w) => y = x
  <2> SUFFICES ASSUME NEW y \in D, \A w \in D : y >= w PROVE y = x
    OBVIOUS
  <2>1. y \in Int /\ x \in Int /\ y >= x /\ x >= y
    OBVIOUS
  <2> QED BY <2>1
<1>2. PICK m : m = Max(D)
  OBVIOUS
<1>3. m \in D /\ \A w \in D : m >= w
  BY <1>2, Zenon DEF Max
<1> QED BY <1>1, <1>2, <1>3

LEMMA MaxOfNats ==
  ASSUME NEW N \in Nat, NEW D \in SUBSET (0..N), D # {}
  PROVE  Max(D) \in D /\ \A y \in D : Max(D) >= y
<1>1. PICK E : E = {N - y : y \in D}
  OBVIOUS
<1>2. E \in SUBSET Nat /\ E # {}
  <2>1. \A y \in D : y \in 0..N
    OBVIOUS
  <2>2. \A y \in D : N - y \in Nat
    BY <2>1
  <2>3. PICK y : y \in D
    OBVIOUS
  <2>4. N - y \in E
    BY <1>1, <2>3
  <2> QED BY <1>1, <2>2, <2>4
<1>3. PICK e \in E : \A k \in E : e <= k
  BY <1>2, LeastOf
<1>4. PICK x \in D : e = N - x
  BY <1>1, <1>3
<1>5. ASSUME NEW y \in D PROVE x >= y
  <2>1. N - y \in E
    BY <1>1
  <2>2. N - x <= N - y /\ x \in Int /\ y \in Int
    BY <1>3, <1>4, <2>1
  <2> QED BY <2>2
<1>6. D \in SUBSET Int
  OBVIOUS
<1>7. Max(D) = x
  BY <1>5, <1>6, MaxOf
<1> QED BY <1>5, <1>7

\* The same facts, of texts.
LEMMA Texts ==
  /\ << >> \in Text
  /\ \A x \in Text : x \o << >> = x /\ << >> \o x = x
  /\ \A x \in Text : Len(x) \in Nat /\ (Len(x) = 0 <=> x = << >>)
  /\ \A x, y \in Text : x \o y \in Text /\ Len(x \o y) = Len(x) + Len(y) /\ IsPrefix(x, x \o y)
  /\ \A x, y, z \in Text : x \o y = x \o z => y = z
  /\ \A x, y \in Text : y # << >> => Last(x \o y) = Last(y) /\ x \o y # << >>
<1>1. << >> \in Text /\ \A x \in Text : x \o << >> = x /\ << >> \o x = x
  BY Empties DEF Text
<1>2. \A x \in Text : Len(x) \in Nat /\ (Len(x) = 0 <=> x = << >>)
  BY Empties DEF Text
<1>3. ASSUME NEW x \in Text, NEW y \in Text
      PROVE  x \o y \in Text /\ Len(x \o y) = Len(x) + Len(y) /\ IsPrefix(x, x \o y)
  <2> USE DEF Text
  <2>1. IsPrefix(x, x \o y)
    BY Prefixed
  <2>2. x \o y \in Text /\ Len(x \o y) = Len(x) + Len(y)
    BY Joined
  <2> QED BY <2>1, <2>2
<1>4. ASSUME NEW x \in Text, NEW y \in Text, NEW z \in Text, x \o y = x \o z PROVE y = z
  <2> USE DEF Text
  <2> QED BY <1>4, Cancels
<1>5. ASSUME NEW x \in Text, NEW y \in Text, y # << >>
      PROVE  Last(x \o y) = Last(y) /\ x \o y # << >>
  <2> USE DEF Text
  <2> QED BY <1>5, LastOfJoined
<1> QED BY <1>1, <1>2, <1>3, <1>4, <1>5

LEMMA TextRegroups == \A x, y, z \in Text : Regroups(x, y, z)
  BY Associates DEF Text

LEMMA TextNested ==
  \A x, y, u, v \in Text : Overlap(x, y, u, v) => \E z \in Text : Between(x, y, u, v, z)
  BY Nested DEF Text

-----------------------------------------------------------------------------
(* The characters held back.                                                *)

Held == Seq({FFFD})

LEMMA HeldIsText ==
  ASSUME NEW z \in Held
  PROVE  z \in Text
<1>1. Len(z) \in Nat /\ z \in [1..Len(z) -> {FFFD}]
  BY DEF Held
<1>2. \A i \in 1..Len(z) : z[i] = FFFD
  BY <1>1
<1>3. FFFD \in Char
  BY DEF Char
<1>4. z = [i \in 1..Len(z) |-> z[i]] /\ z \in [1..Len(z) -> Char]
  BY <1>1, <1>2, <1>3
<1>5. z \in Seq(Char)
  BY <1>1, <1>4
<1> QED BY <1>5 DEF Text

LEMMA TrimUnique ==
  ASSUME NEW p \in Text, ~EndsOpen(p), NEW z \in Held
  PROVE  TrimEnd(p \o z) = p
<1>1. PICK t, n : t = p \o z /\ n = Len(p)
  OBVIOUS
<1>2. /\ n \in Nat /\ Len(z) \in Nat /\ Len(t) = n + Len(z)
      /\ \A i \in 1..n : t[i] = p[i]
      /\ \A i \in 1..Len(z) : t[n + i] = z[i]
  BY <1>1 DEF Text, Held
<1>3. PICK D : D = {0} \cup {i \in 1..Len(t) : t[i] # FFFD}
  OBVIOUS
<1>4. n \in D
  <2>1. CASE n = 0
    BY <1>3, <2>1
  <2>2. CASE n # 0
    <3>1. p # << >> /\ n \in 1..n /\ n \in 1..Len(t)
      BY <1>1, <1>2, <2>2
    <3>2. p[n] # FFFD
      BY <1>1, <3>1 DEF EndsOpen, Last
    <3> QED BY <1>2, <1>3, <3>1, <3>2
  <2> QED BY <2>1, <2>2
<1>5. ASSUME NEW y \in D PROVE n >= y
  <2>1. CASE y = 0
    BY <1>2, <2>1
  <2>2. CASE y \in 1..Len(t) /\ t[y] # FFFD
    <3> SUFFICES ASSUME ~(n >= y) PROVE FALSE
      OBVIOUS
    <3>1. y - n \in 1..Len(z) /\ n + (y - n) = y
      BY <1>2, <2>2
    <3>2. t[y] = z[y - n] /\ z[y - n] = FFFD
      BY <1>2, <3>1 DEF Held
    <3> QED BY <2>2, <3>2
  <2> QED BY <1>3, <2>1, <2>2
<1>6. D \in SUBSET Int
  BY <1>2, <1>3
<1>7. Max(D) = n
  BY <1>4, <1>5, <1>6, MaxOf
<1>8. p \in Seq(Char \cup {FFFD}) /\ z \in Seq(Char \cup {FFFD})
  BY DEF Text, Held
<1>9. SubSeq(p \o z, 1, n) = p
  BY <1>1, <1>8, CutJoined
<1> QED BY <1>1, <1>3, <1>7, <1>9 DEF TrimEnd

LEMMA TrimSplit ==
  ASSUME NEW t \in Text
  PROVE  /\ TrimEnd(t) \in Text /\ ~EndsOpen(TrimEnd(t))
         /\ \E z \in Held : t = TrimEnd(t) \o z
<1>1. PICK n, D : n = Len(t) /\ D = {0} \cup {i \in 1..Len(t) : t[i] # FFFD}
  OBVIOUS
<1>2. n \in Nat /\ D \in SUBSET (0..n) /\ D # {} /\ \A i \in 1..n : t[i] \in Char
  BY <1>1 DEF Text
<1>3. PICK k : k = Max(D)
  OBVIOUS
<1>4. k \in D /\ \A y \in D : k >= y
  BY <1>2, <1>3, MaxOfNats
<1>5. PICK p, z : p = SubSeq(t, 1, k) /\ z = SubSeq(t, k + 1, n)
  OBVIOUS
<1>6. p \in Text /\ z \in Text /\ Len(p) = k /\ Len(z) = n - k /\ t = p \o z
  <2>1. k \in 0..Len(t) /\ t \in Seq(Char)
    BY <1>1, <1>2, <1>4 DEF Text
  <2>2. Parts(t, k, p, z)
    BY <1>1, <1>5 DEF Parts
  <2>3. p \in Seq(Char) /\ z \in Seq(Char) /\ Len(p) = k /\ Len(z) = Len(t) - k /\ t = p \o z
    BY <2>1, <2>2, CutParts
  <2> QED BY <1>1, <2>3 DEF Text
<1>7. TrimEnd(t) = p
  BY <1>1, <1>3, <1>5 DEF TrimEnd
<1>8. k \in 0..n /\ \A i \in 1..n - k : t[k + i] = z[i]
  BY <1>1, <1>2, <1>4, <1>6, Joined DEF Text
<1>9. \A i \in 1..k : t[i] = p[i]
  BY <1>1, <1>2, <1>4, <1>6, Joined DEF Text
<1>10. ASSUME NEW i \in 1..n - k PROVE z[i] = FFFD
  <2> SUFFICES ASSUME z[i] # FFFD PROVE FALSE
    OBVIOUS
  <2>1. k + i \in 1..n /\ t[k + i] # FFFD
    BY <1>2, <1>8
  <2>2. k + i \in D
    BY <1>1, <2>1
  <2>3. k >= k + i
    BY <1>4, <2>2
  <2> QED BY <1>2, <1>8, <2>3
<1>11. z \in Held
  BY <1>6, <1>10 DEF Text, Held
<1>12. ~EndsOpen(p)
  <2> SUFFICES ASSUME p # << >> PROVE p[k] # FFFD
    BY <1>6 DEF EndsOpen, Last
  <2>1. k # 0
    BY <1>6 DEF Text
  <2>2. k \in 1..k /\ t[k] # FFFD
    BY <1>1, <1>4, <1>8, <2>1
  <2> QED BY <1>9, <2>2
<1> QED BY <1>6, <1>7, <1>11, <1>12

\* What ends in no open character lets what follows be trimmed alone.
LEMMA TrimJoined ==
  ASSUME NEW x \in Text, ~EndsOpen(x), NEW y \in Text
  PROVE  TrimEnd(x \o y) = x \o TrimEnd(y) /\ ~EndsOpen(x \o TrimEnd(y))
<1>1. PICK p : p = TrimEnd(y)
  OBVIOUS
<1>2. p \in Text /\ ~EndsOpen(p)
  BY <1>1, TrimSplit
<1>3. PICK z \in Held : y = p \o z
  BY <1>1, TrimSplit
<1>4. x \o p \in Text /\ z \in Text
  BY <1>2, HeldIsText, Joined DEF Text
<1>5. ~EndsOpen(x \o p)
  <2>1. CASE p = << >>
    <3>1. x \o p = x
      BY <2>1, Empties DEF Text
    <3> QED BY <3>1
  <2>2. CASE p # << >>
    <3>1. Last(x \o p) = Last(p)
      BY <1>2, <2>2, LastOfJoined DEF Text
    <3> QED BY <1>2, <2>2, <3>1 DEF EndsOpen
  <2> QED BY <2>1, <2>2
<1>6. x \o y = (x \o p) \o z
  <2>1. Regroups(x, p, z)
    BY <1>2, <1>4, TextRegroups
  <2> QED BY <1>3, <2>1 DEF Regroups
<1>7. TrimEnd((x \o p) \o z) = x \o p
  BY <1>4, <1>5, TrimUnique
<1> QED BY <1>1, <1>5, <1>6, <1>7

LEMMA TrimOpen ==
  ASSUME NEW x \in Text
  PROVE  TrimEnd(x \o <<FFFD>>) = TrimEnd(x)
<1>1. PICK p : p = TrimEnd(x)
  OBVIOUS
<1>2. p \in Text /\ ~EndsOpen(p)
  BY <1>1, TrimSplit
<1>3. PICK z \in Held : x = p \o z
  BY <1>1, TrimSplit
<1>4. PICK o : o = <<FFFD>>
  OBVIOUS
<1>5. o \in Held /\ z \o o \in Held /\ o \in Text /\ z \in Text
  <2>1. o \in Held
    BY <1>4 DEF Held
  <2>2. z \o o \in Held
    BY <2>1, Joined DEF Held
  <2> QED BY <2>1, <2>2, HeldIsText
<1>6. x \o o = p \o (z \o o)
  <2>1. Regroups(p, z, o)
    BY <1>2, <1>5, TextRegroups
  <2> QED BY <1>3, <2>1 DEF Regroups
<1>7. TrimEnd(p \o (z \o o)) = p
  BY <1>2, <1>5, TrimUnique
<1> QED BY <1>1, <1>4, <1>6, <1>7

\* p begins t.
Starts(p, t) == \E z \in Text : t = p \o z

LEMMA TrimStarts ==
  ASSUME NEW a \in Text, NEW b \in Text
  PROVE  Starts(TrimEnd(a), a \o b)
<1>1. PICK p : p = TrimEnd(a)
  OBVIOUS
<1>2. p \in Text
  BY <1>1, TrimSplit
<1>3. PICK h \in Held : a = p \o h
  BY <1>1, TrimSplit
<1>4. h \in Text
  BY HeldIsText
<1>5. (p \o h) \o b = p \o (h \o b)
  <2>1. Regroups(p, h, b)
    BY <1>2, <1>4, TextRegroups
  <2> QED BY <2>1 DEF Regroups
<1>6. h \o b \in Text
  BY <1>4, Texts, Zenon
<1> QED BY <1>1, <1>3, <1>5, <1>6 DEF Starts

\* A text that ends in no open character is not trimmed.
LEMMA TrimKeeps ==
  ASSUME NEW x \in Text, ~EndsOpen(x)
  PROVE  TrimEnd(x) = x
<1>1. << >> \in Held /\ x \o << >> = x
  BY Empties DEF Held, Text
<1> QED BY <1>1, TrimUnique

-----------------------------------------------------------------------------
(* Slices at a byte.                                                        *)

LEMMA SliceJoined ==
  ASSUME NEW x \in Text, NEW y \in Text
  PROVE  /\ Upto(x \o y, TextLen(x)) = x /\ From(x \o y, TextLen(x)) = y
         /\ is_char_boundary(x \o y, TextLen(x))
<1>1. PICK t, n : t = x \o y /\ n = Len(x)
  OBVIOUS
<1>2. n \in Nat /\ Len(y) \in Nat /\ Len(t) = n + Len(y) /\ t \in Text
  BY <1>1 DEF Text
<1>3. PICK D : D = {i \in 0..Len(t) : TextLen(SubSeq(t, 1, i)) <= TextLen(x)}
  OBVIOUS
<1>4. SubSeq(t, 1, n) = x /\ SubSeq(t, n + 1, Len(t)) = y
  BY <1>1, CutJoined DEF Text
<1>5. TextLen(x) \in Nat
  BY TextLenOf
<1>6. n \in D
  <2>1. n \in 0..Len(t) /\ TextLen(x) <= TextLen(x)
    BY <1>2, <1>5
  <2>2. TextLen(SubSeq(t, 1, n)) <= TextLen(x)
    BY <1>4, <2>1
  <2> QED BY <1>3, <2>1, <2>2, Zenon
<1>7. ASSUME NEW i \in D PROVE n >= i
  <2> SUFFICES ASSUME i > n PROVE FALSE
    BY <1>2, <1>3
  <2>1. i \in 0..Len(t)
    BY <1>3
  <2>2. PICK p, q : p = SubSeq(t, 1, i) /\ q = SubSeq(t, i + 1, Len(t))
    OBVIOUS
  <2>3. p \in Text /\ q \in Text /\ Len(p) = i /\ t = p \o q
    BY <1>2, <2>1, <2>2, CutAt DEF Text
  <2>4. n <= i
    BY <1>2, <2>1
  <2>5. PICK z \in Text : p = x \o z
    <3>1. x \o y = p \o q /\ Len(x) <= Len(p)
      BY <1>1, <2>3, <2>4
    <3>2. Overlap(x, y, p, q)
      BY <3>1 DEF Overlap
    <3>3. \E z \in Text : Between(x, y, p, q, z)
      BY <2>3, <3>2, TextNested
    <3> QED BY <3>3 DEF Between
  <2>6. z # << >>
    <3>1. Len(p) = n + Len(z)
      BY <1>1, <2>5 DEF Text
    <3>2. Len(<< >>) = 0
      OBVIOUS
    <3> QED BY <1>2, <2>1, <2>3, <3>1, <3>2
  <2>7. TextLen(p) = TextLen(x) + TextLen(z) /\ TextLen(z) \in Nat /\ TextLen(z) # 0
    BY <2>5, <2>6, TextLenJoined, TextLenOf
  <2>8. TextLen(p) <= TextLen(x)
    BY <1>3, <2>2
  <2> QED BY <1>5, <2>7, <2>8
<1>8. D \in SUBSET Int
  BY <1>2, <1>3
<1>9. Max(D) = n
  BY <1>6, <1>7, <1>8, MaxOf
<1>10. Boundary(t, TextLen(x)) = n
  BY <1>3, <1>9 DEF Boundary
<1> QED BY <1>1, <1>4, <1>10 DEF Upto, From, is_char_boundary

LEMMA SliceSplits ==
  ASSUME NEW t \in Text, NEW n \in Nat
  PROVE  /\ From(t, n) \in Text
         /\ \E p \in Text : t = p \o From(t, n) /\ TextLen(p) <= n
<1>1. PICK D : D = {i \in 0..Len(t) : TextLen(SubSeq(t, 1, i)) <= n}
  OBVIOUS
<1>2. Len(t) \in Nat /\ D \in SUBSET (0..Len(t))
  BY <1>1 DEF Text
<1>3. 0 \in D
  <2>1. SubSeq(t, 1, 0) = << >> /\ << >> \in Text
    BY DEF Text
  <2>2. TextLen(<< >>) = 0
    BY <2>1, TextLenOf
  <2>3. 0 \in 0..Len(t) /\ TextLen(SubSeq(t, 1, 0)) <= n
    <3>1. 0 <= n /\ 0 \in 0..Len(t)
      BY <1>2
    <3> QED BY <2>1, <2>2, <3>1, Zenon
  <2> QED BY <1>1, <2>3, Zenon
<1>4. PICK k : k = Max(D)
  OBVIOUS
<1>5. k \in D
  BY <1>2, <1>3, <1>4, MaxOfNats
<1>6. k \in 0..Len(t) /\ TextLen(SubSeq(t, 1, k)) <= n
  BY <1>1, <1>5
<1>7. Boundary(t, n) = k
  BY <1>1, <1>4 DEF Boundary
<1>8. /\ SubSeq(t, 1, k) \in Text /\ SubSeq(t, k + 1, Len(t)) \in Text
      /\ t = SubSeq(t, 1, k) \o SubSeq(t, k + 1, Len(t))
  BY <1>6, CutAt DEF Text
<1> QED BY <1>6, <1>7, <1>8 DEF From

-----------------------------------------------------------------------------
(* Bytes, and the text they make.                                           *)

Raw == Seq(Byte)

LEMMA BytesJoined ==
  ASSUME NEW s \in Seq(Tokens), NEW t \in Seq(Tokens)
  PROVE  /\ Bytes(s) \in Raw /\ Bytes(t) \in Raw
         /\ Bytes(s \o t) = Bytes(s) \o Bytes(t)
<1>1. PICK n, m, u : n = Len(s) /\ m = Len(t) /\ u = s \o t
  OBVIOUS
<1>2. /\ n \in Nat /\ m \in Nat /\ u \in Seq(Tokens) /\ Len(u) = n + m
      /\ \A i \in 1..n : u[i] = s[i] /\ s[i] \in Tokens
      /\ \A j \in 1..m : u[n + j] = t[j] /\ t[j] \in Tokens
  BY <1>1
<1>3. PICK a, b, c : /\ a = [i \in 1..n |-> Vocab[s[i]]] /\ b = [j \in 1..m |-> Vocab[t[j]]]
                     /\ c = [k \in 1..n + m |-> Vocab[u[k]]]
  OBVIOUS
<1>4. \A token \in Tokens : Vocab[token] \in Raw
  BY TokenizerAssumption DEF Raw
<1>5. a \in [1..n -> Raw] /\ b \in [1..m -> Raw]
  BY <1>2, <1>3, <1>4
<1>6. \A k \in 1..n + m : u[k] \in Tokens
  BY <1>2
<1>7. c \in [1..n + m -> Raw]
  BY <1>3, <1>4, <1>6
<1>8. n + m \in Nat
  BY <1>2
<1>9. a \in Seq(Raw) /\ b \in Seq(Raw) /\ c \in Seq(Raw) /\ Len(a) = n /\ Len(b) = m /\ Len(c) = n + m
  <2>1. a \in Seq(Raw) /\ Len(a) = n
    BY <1>2, <1>5
  <2>2. b \in Seq(Raw) /\ Len(b) = m
    BY <1>2, <1>5
  <2>3. c \in Seq(Raw) /\ Len(c) = n + m
    BY <1>7, <1>8
  <2> QED BY <2>1, <2>2, <2>3
<1>10. c = a \o b
  <2>1. a \o b \in Seq(Raw) /\ Len(a \o b) = n + m
    BY <1>9, Joined
  <2>2. ASSUME NEW k \in 1..n + m PROVE c[k] = (a \o b)[k]
    <3>1. CASE k \in 1..n
      <4>1. (a \o b)[k] = a[k]
        BY <1>9, <3>1, Joined
      <4>2. a[k] = Vocab[s[k]] /\ c[k] = Vocab[u[k]] /\ u[k] = s[k]
        BY <1>2, <1>3, <3>1
      <4> QED BY <4>1, <4>2
    <3>2. CASE k \notin 1..n
      <4>1. PICK j : j = k - n
        OBVIOUS
      <4>2. j \in 1..m /\ k = n + j
        BY <1>2, <3>2, <4>1
      <4>3. (a \o b)[n + j] = b[j]
        BY <1>9, <4>2, Joined
      <4>4. b[j] = Vocab[t[j]] /\ c[k] = Vocab[u[k]] /\ u[n + j] = t[j]
        BY <1>2, <1>3, <4>2
      <4> QED BY <4>2, <4>3, <4>4
    <3> QED BY <3>1, <3>2
  <2> QED BY <1>9, <2>1, <2>2, SameSeq
<1>11. Bytes(s) = FlattenSeq(a) /\ Bytes(t) = FlattenSeq(b) /\ Bytes(u) = FlattenSeq(c)
  BY <1>1, <1>2, <1>3 DEF Bytes
<1>12. /\ FlattenSeq(a) \in Raw /\ FlattenSeq(b) \in Raw
       /\ FlattenSeq(a \o b) = FlattenSeq(a) \o FlattenSeq(b)
  BY <1>9, FlattenJoined DEF Raw
<1> QED BY <1>1, <1>10, <1>11, <1>12

\* What the bytes of x become.
Pieces(x) == [i \in 1..Len(x) |-> Becomes(x, i)]

LEMMA PiecesType ==
  ASSUME NEW x \in Raw
  PROVE  Pieces(x) \in Seq(Text) /\ Len(Pieces(x)) = Len(x) /\ Lossy(x) = FlattenSeq(Pieces(x))
<1>1. Len(x) \in Nat /\ \A i \in 1..Len(x) : x[i] \in Byte
  BY DEF Raw
<1>2. ASSUME NEW c \in Char PROVE <<c>> \in Text
  BY DEF Text
<1>3. "wide" \in Char /\ FFFD \in Char
  BY DEF Char
<1>4. ASSUME NEW i \in 1..Len(x) PROVE Becomes(x, i) \in Text
  <2>1. x[i] \notin {"lead", "cont"} => x[i] \in Char
    BY <1>1 DEF Byte, Char
  <2>2. (IF x[i] \in {"lead", "cont"} THEN FFFD ELSE x[i]) \in Char
    BY <2>1, <1>3
  <2>3. <<IF x[i] \in {"lead", "cont"} THEN FFFD ELSE x[i]>> \in Text
    BY <2>2, <1>2
  <2>4. <<"wide">> \in Text /\ << >> \in Text
    BY <1>2, <1>3, Texts
  <2> QED BY <2>3, <2>4 DEF Becomes
<1>5. Pieces(x) \in [1..Len(x) -> Text]
  BY <1>4 DEF Pieces
<1> QED BY <1>1, <1>5 DEF Lossy, Pieces

LEMMA LossyType ==
  ASSUME NEW x \in Raw
  PROVE  Lossy(x) \in Text
<1>1. PICK s : s = Pieces(x)
  OBVIOUS
<1>2. s \in Seq(Seq(Char)) /\ Lossy(x) = FlattenSeq(s)
  BY <1>1, PiecesType DEF Text
<1>3. FlattenSeq(s) \in Seq(Char)
  BY <1>2, FlattenJoined
<1> QED BY <1>2, <1>3 DEF Text

\* A character begins in x and is completed by y.
Cuts(x, y) == x # << >> /\ y # << >> /\ Last(x) = "lead" /\ y[1] = "cont"

LEMMA LossyJoined ==
  ASSUME NEW x \in Raw, NEW y \in Raw, ~Cuts(x, y)
  PROVE  Lossy(x \o y) = Lossy(x) \o Lossy(y)
<1>1. PICK n, m, u : n = Len(x) /\ m = Len(y) /\ u = x \o y
  OBVIOUS
<1>2. /\ n \in Nat /\ m \in Nat /\ u \in Raw /\ Len(u) = n + m
      /\ \A i \in 1..n : u[i] = x[i]
      /\ \A j \in 1..m : u[n + j] = y[j]
  BY <1>1 DEF Raw
<1>3. ~(n > 0 /\ m > 0 /\ u[n] = "lead" /\ u[n + 1] = "cont")
  <2> SUFFICES ASSUME n > 0, m > 0, u[n] = "lead", u[n + 1] = "cont" PROVE FALSE
    OBVIOUS
  <2>1. x # << >> /\ y # << >> /\ n \in 1..n /\ 1 \in 1..m
    BY <1>1, <1>2
  <2>2. x[n] = "lead" /\ y[1] = "cont"
    BY <1>2, <2>1
  <2> QED BY <1>1, <2>1, <2>2 DEF Cuts, Last
<1>4. ASSUME NEW i \in 1..n PROVE Completes(u, i) = Completes(x, i)
  <2>1. u[i] = x[i] /\ (i > 1 => u[i - 1] = x[i - 1])
    BY <1>2
  <2> QED BY <2>1 DEF Completes
<1>5. ASSUME NEW j \in 1..m PROVE Completes(u, n + j) = Completes(y, j)
  <2>1. CASE j = 1
    <3>1. ~Completes(y, j)
      BY <2>1 DEF Completes
    <3>2. ~Completes(u, n + 1)
      <4> SUFFICES ASSUME n + 1 > 1, u[(n + 1) - 1] = "lead", u[n + 1] = "cont" PROVE FALSE
        BY DEF Completes
      <4>1. n > 0 /\ m > 0 /\ (n + 1) - 1 = n
        BY <1>2
      <4> QED BY <1>3, <4>1
    <3>3. Completes(u, n + 1) = FALSE /\ Completes(y, 1) = FALSE
      BY <2>1, <3>1, <3>2 DEF Completes
    <3> QED BY <2>1, <3>3
  <2>2. CASE j # 1
    <3>1. j - 1 \in 1..m /\ n + (j - 1) = (n + j) - 1 /\ j > 1 /\ n + j > 1
      BY <1>2, <2>2
    <3>2. u[n + j] = y[j] /\ u[n + (j - 1)] = y[j - 1]
      BY <1>2, <3>1
    <3> QED BY <3>1, <3>2 DEF Completes
  <2> QED BY <2>1, <2>2
<1>6. ASSUME NEW i \in 1..n PROVE Becomes(u, i) = Becomes(x, i)
  <2>1. u[i] = x[i] /\ Completes(u, i) = Completes(x, i)
    BY <1>2, <1>4
  <2>2. (i < n + m /\ Completes(u, i + 1)) = (i < n /\ Completes(x, i + 1))
    <3>1. CASE i < n
      <4>1. i + 1 \in 1..n /\ i < n + m
        BY <1>2, <3>1
      <4> QED BY <1>4, <3>1, <4>1
    <3>2. CASE ~(i < n)
      <4>1. i = n
        BY <1>2, <3>2
      <4>2. ASSUME n < n + m, Completes(u, n + 1) PROVE FALSE
        <5>1. n > 0 /\ m > 0 /\ (n + 1) - 1 = n
          BY <1>2, <4>1, <4>2
        <5>2. u[n] = "lead" /\ u[n + 1] = "cont"
          BY <4>2, <5>1 DEF Completes
        <5> QED BY <1>3, <5>1, <5>2
      <4> QED BY <3>2, <4>1, <4>2
    <3> QED BY <3>1, <3>2
  <2>3. Len(u) = n + m /\ Len(x) = n
    BY <1>1, <1>2
  <2> QED BY <2>1, <2>2, <2>3 DEF Becomes
<1>7. ASSUME NEW j \in 1..m PROVE Becomes(u, n + j) = Becomes(y, j)
  <2>1. u[n + j] = y[j] /\ Completes(u, n + j) = Completes(y, j)
    BY <1>2, <1>5
  <2>2. (n + j < n + m /\ Completes(u, (n + j) + 1)) = (j < m /\ Completes(y, j + 1))
    <3>1. (n + j < n + m) = (j < m) /\ (n + j) + 1 = n + (j + 1)
      BY <1>2
    <3>2. j < m => j + 1 \in 1..m
      BY <1>2
    <3> QED BY <1>5, <3>1, <3>2
  <2>3. Len(u) = n + m /\ Len(y) = m
    BY <1>1, <1>2
  <2> QED BY <2>1, <2>2, <2>3 DEF Becomes
<1>8. PICK a, b, c : a = Pieces(x) /\ b = Pieces(y) /\ c = Pieces(u)
  OBVIOUS
<1>9. /\ a \in Seq(Seq(Char)) /\ b \in Seq(Seq(Char)) /\ c \in Seq(Seq(Char))
      /\ Len(a) = n /\ Len(b) = m /\ Len(c) = n + m
      /\ Lossy(x) = FlattenSeq(a) /\ Lossy(y) = FlattenSeq(b) /\ Lossy(u) = FlattenSeq(c)
  BY <1>1, <1>2, <1>8, PiecesType DEF Text
<1>10. /\ \A i \in 1..n : a[i] = Becomes(x, i)
       /\ \A j \in 1..m : b[j] = Becomes(y, j)
       /\ \A k \in 1..n + m : c[k] = Becomes(u, k)
  BY <1>1, <1>2, <1>8 DEF Pieces
<1>11. c = a \o b
  <2>1. a \o b \in Seq(Seq(Char)) /\ Len(a \o b) = n + m
    BY <1>9, Joined
  <2>2. ASSUME NEW k \in 1..n + m PROVE c[k] = (a \o b)[k]
    <3>1. CASE k \in 1..n
      <4>1. (a \o b)[k] = a[k]
        BY <1>9, <3>1, Joined
      <4> QED BY <1>6, <1>10, <3>1, <4>1
    <3>2. CASE k \notin 1..n
      <4>1. PICK j : j = k - n
        OBVIOUS
      <4>2. j \in 1..m /\ k = n + j
        BY <1>2, <3>2, <4>1
      <4>3. (a \o b)[Len(a) + j] = b[j]
        <5>1. PICK S : S = Seq(Char)
          OBVIOUS
        <5>2. a \in Seq(S) /\ b \in Seq(S) /\ j \in 1..Len(b)
          BY <1>9, <4>2, <5>1
        <5> QED BY <5>2, JoinedAt
      <4> QED BY <1>7, <1>9, <1>10, <4>2, <4>3
    <3> QED BY <3>1, <3>2
  <2> QED BY <1>9, <2>1, <2>2, SameSeq
<1>12. FlattenSeq(a \o b) = FlattenSeq(a) \o FlattenSeq(b)
  BY <1>9, FlattenJoined
<1> QED BY <1>1, <1>9, <1>11, <1>12

\* The first byte of a character is a character of its own while it is the last.
LEMMA LossyOpen ==
  ASSUME NEW x \in Raw, x # << >>, Last(x) = "lead"
  PROVE  \E w \in Raw : x = w \o <<"lead">> /\ Lossy(x) = Lossy(w) \o <<FFFD>>
<1>1. PICK n, o : n = Len(x) /\ o = <<"lead">>
  OBVIOUS
<1>2. n \in Nat /\ n > 0 /\ o \in Raw /\ Len(o) = 1 /\ o[1] = "lead" /\ x[n] = "lead"
  <2>1. n \in Nat /\ n > 0 /\ x[n] = "lead"
    BY <1>1 DEF Raw, Last
  <2>2. "lead" \in Byte
    BY DEF Byte
  <2>3. o \in Seq(Byte) /\ Len(o) = 1 /\ o[1] = "lead"
    BY <1>1, <2>2
  <2> QED BY <2>1, <2>3 DEF Raw
<1>3. PICK w, v : w = SubSeq(x, 1, n - 1) /\ v = SubSeq(x, (n - 1) + 1, n)
  OBVIOUS
<1>4. n - 1 \in 0..n /\ n - (n - 1) = 1 /\ (n - 1) + 1 = n
  BY <1>2
<1>5. w \in Raw /\ v \in Raw /\ Len(w) = n - 1 /\ Len(v) = 1 /\ x = w \o v
  BY <1>1, <1>3, <1>4, CutAt DEF Raw
<1>6. v = o
  <2>1. 1 \in 1..Len(v)
    BY <1>5
  <2>2. (w \o v)[Len(w) + 1] = v[1]
    BY <1>5, <2>1, Joined DEF Raw
  <2>3. v[1] = "lead"
    BY <1>2, <1>4, <1>5, <2>2
  <2>4. \A i \in 1..1 : i = 1
    OBVIOUS
  <2> QED BY <1>2, <1>5, <2>3, <2>4, SameSeq DEF Raw
<1>7. ~Cuts(w, o)
  BY <1>2 DEF Cuts
<1>8. Lossy(o) = <<FFFD>>
  <2>1. Becomes(o, 1) = <<FFFD>>
    BY <1>2 DEF Becomes, Completes
  <2>2. Pieces(o) = <<(<<FFFD>>)>>
    BY <1>2, <2>1 DEF Pieces
  <2>3. <<FFFD>> \in Seq({FFFD})
    OBVIOUS
  <2>4. FlattenSeq(<<(<<FFFD>>)>>) = <<FFFD>>
    BY <2>3, FlattenOne
  <2> QED BY <1>2, <2>2, <2>4, PiecesType
<1>9. Lossy(w \o o) = Lossy(w) \o Lossy(o)
  BY <1>2, <1>5, <1>7, LossyJoined
<1> QED BY <1>1, <1>5, <1>6, <1>8, <1>9

\* A text that ends in no open character is not changed by what follows.
LEMMA LossyClosed ==
  ASSUME NEW x \in Raw, ~EndsOpen(Lossy(x)), NEW y \in Raw
  PROVE  Lossy(x \o y) = Lossy(x) \o Lossy(y)
<1>1. ASSUME Cuts(x, y) PROVE FALSE
  <2>1. x # << >> /\ Last(x) = "lead"
    BY <1>1 DEF Cuts
  <2>2. PICK w \in Raw : Lossy(x) = Lossy(w) \o <<FFFD>>
    BY <2>1, LossyOpen
  <2>3. PICK t : t = Lossy(w)
    OBVIOUS
  <2>4. t \in Text /\ <<FFFD>> \in Text
    <3>1. <<FFFD>> \in Held
      BY DEF Held
    <3> QED BY <2>3, <3>1, LossyType, HeldIsText
  <2>5. <<FFFD>> # << >> /\ Last(<<FFFD>>) = FFFD
    BY DEF Last
  <2>6. t \o <<FFFD>> # << >> /\ Last(t \o <<FFFD>>) = FFFD
    BY <2>4, <2>5, Texts
  <2> QED BY <2>2, <2>3, <2>6 DEF EndsOpen
<1> QED BY <1>1, LossyJoined

\* And what is left of any text without its open characters begins every
\* continuation.
LEMMA LossyGrows ==
  ASSUME NEW x \in Raw, NEW y \in Raw
  PROVE  Starts(TrimEnd(Lossy(x)), Lossy(x \o y))
<1>1. CASE ~Cuts(x, y)
  <2>1. Lossy(x \o y) = Lossy(x) \o Lossy(y) /\ Lossy(x) \in Text /\ Lossy(y) \in Text
    BY <1>1, LossyJoined, LossyType
  <2> QED BY <2>1, TrimStarts
<1>2. CASE Cuts(x, y)
  <2>1. x # << >> /\ Last(x) = "lead"
    BY <1>2 DEF Cuts
  <2>2. PICK w \in Raw : x = w \o <<"lead">> /\ Lossy(x) = Lossy(w) \o <<FFFD>>
    BY <2>1, LossyOpen
  <2>3. PICK o, v : o = <<"lead">> /\ v = o \o y
    OBVIOUS
  <2>4. o \in Raw
    <3>1. "lead" \in Byte
      BY DEF Byte
    <3> QED BY <2>3, <3>1 DEF Raw
  <2>5. v \in Raw /\ x \o y = w \o v
    <3>1. v \in Raw
      BY <2>3, <2>4, Joined DEF Raw
    <3>2. (w \o o) \o y = w \o (o \o y)
      <4>1. Regroups(w, o, y)
        BY <2>4, Associates DEF Raw
      <4> QED BY <4>1 DEF Regroups
    <3> QED BY <2>2, <2>3, <3>1, <3>2
  <2>6. v[1] = "lead"
    <3>1. Len(o) = 1 /\ o[1] = "lead" /\ 1 \in 1..1
      BY <2>3
    <3>2. (o \o y)[1] = o[1]
      BY <2>4, <3>1, Joined DEF Raw
    <3> QED BY <2>3, <3>1, <3>2
  <2>7. Lossy(w \o v) = Lossy(w) \o Lossy(v)
    BY <2>5, <2>6, LossyJoined DEF Cuts
  <2>8. Lossy(w) \in Text /\ Lossy(v) \in Text /\ Lossy(x) \in Text
    BY <2>5, LossyType
  <2>9. TrimEnd(Lossy(x)) = TrimEnd(Lossy(w))
    BY <2>2, <2>8, TrimOpen
  <2> QED BY <2>5, <2>7, <2>8, <2>9, TrimStarts
<1> QED BY <1>1, <1>2

-----------------------------------------------------------------------------
(* decode.                                                                  *)

LEMMA DecodeText ==
  ASSUME NEW s \in Seq(Tokens)
  PROVE  decode(s) \in Text
<1>1. PICK t : t = Lossy(Bytes(s))
  OBVIOUS
<1>2. t \in Text
  BY <1>1, BytesJoined, LossyType
<1>3. t # << >> => Tail(t) \in Text
  BY <1>2 DEF Text
<1>4. decode(s) = IF strips_first_space /\ t # << >> /\ t[1] = " " THEN Tail(t) ELSE t
  BY <1>1 DEF decode
<1> QED BY <1>2, <1>3, <1>4

\* The first element, and the others.
LEMMA OneElement ==
  ASSUME NEW X, NEW a \in X
  PROVE  /\ <<a>> \in Seq(X) /\ Len(<<a>>) = 1 /\ <<a>>[1] = a
  OBVIOUS

LEMMA TwoElements ==
  ASSUME NEW X, NEW a \in X, NEW b \in X
  PROVE  <<a, b>> \in Seq(X) /\ <<a>> \o <<b>> = <<a, b>>
<1>1. PICK x, y, z : x = <<a>> /\ y = <<b>> /\ z = <<a, b>>
  OBVIOUS
<1>2. z \in Seq(X) /\ Len(z) = 2 /\ z[1] = a /\ z[2] = b
  BY <1>1
<1>3. x \in Seq(X) /\ y \in Seq(X) /\ Len(x) = 1 /\ Len(y) = 1 /\ x[1] = a /\ y[1] = b
  BY <1>1, OneElement
<1>4. PICK c : c = x \o y
  OBVIOUS
<1>5. c \in Seq(X) /\ Len(c) = 2
  BY <1>3, <1>4, Joined
<1>6. c[1] = a
  <2>1. 1 \in 1..Len(x)
    BY <1>3
  <2> QED BY <1>3, <1>4, <2>1, Joined
<1>7. c[2] = b
  <2>1. Len(x) + 1 = 2 /\ 1 \in 1..Len(y)
    BY <1>3
  <2>2. c[Len(x) + 1] = y[1]
    BY <1>3, <1>4, <2>1, Joined
  <2> QED BY <1>3, <2>1, <2>2
<1>8. \A i \in 1..Len(c) : c[i] = z[i]
  BY <1>2, <1>5, <1>6, <1>7
<1>9. c = z
  BY <1>2, <1>5, <1>8, SameSeq
<1> QED BY <1>1, <1>2, <1>4, <1>9

LEMMA FirstAndTail ==
  ASSUME NEW X, NEW l \in Seq(X), l # << >>
  PROVE  l[1] \in X /\ Tail(l) \in Seq(X) /\ l = <<l[1]>> \o Tail(l)
  OBVIOUS

LEMMA TailOfJoined ==
  ASSUME NEW X, NEW a \in X, NEW v \in Seq(X)
  PROVE  <<a>> \o v # << >> /\ (<<a>> \o v)[1] = a /\ Tail(<<a>> \o v) = v
  OBVIOUS

\* A tokenizer that strips the first space leaves the text of tokens alone that
\* do not begin with one.
Unspaced(t) == t = << >> \/ t[1] # " "

LEMMA LossyNothing == Lossy(<< >>) = << >> /\ << >> \in Raw
<1>1. << >> \in Seq({})
  OBVIOUS
<1>2. FlattenSeq(<< >>) = << >>
  BY <1>1, FlattenOne
<1>3. [i \in 1..Len(<< >>) |-> Becomes(<< >>, i)] = << >>
  OBVIOUS
<1> QED BY <1>2, <1>3 DEF Lossy, Raw

LEMMA LossyUnspaced ==
  ASSUME NEW x \in Raw, Unspaced(x)
  PROVE  Unspaced(Lossy(x))
<1>1. CASE x = << >>
  BY <1>1, LossyNothing DEF Unspaced
<1>2. ASSUME x # << >> PROVE Unspaced(Lossy(x))
  <2>1. PICK n, p, q : n = Len(x) /\ p = SubSeq(x, 1, 1) /\ q = SubSeq(x, 2, n)
    OBVIOUS
  <2>2. n \in Nat /\ n > 0 /\ 1 \in 0..n /\ x[1] \in Byte /\ x[1] # " "
    <3>1. n \in Nat /\ n # 0 /\ \A i \in 1..n : x[i] \in Byte
      BY <1>2, <2>1, Empties DEF Raw
    <3>2. n > 0 /\ 1 \in 0..n /\ 1 \in 1..n
      BY <3>1
    <3> QED BY <1>2, <3>1, <3>2 DEF Unspaced
  <2>3. p \in Raw /\ q \in Raw /\ Len(p) = 1 /\ x = p \o q
    <3>1. 1 + 1 = 2
      OBVIOUS
    <3> QED BY <2>1, <2>2, <3>1, CutAt DEF Raw
  <2>4. p[1] = x[1] /\ p = <<x[1]>> /\ p # << >> /\ Last(p) = x[1]
    <3>1. 1 \in 1..Len(p)
      BY <2>3
    <3>2. (p \o q)[1] = p[1]
      BY <2>3, <3>1, Joined DEF Raw
    <3>3. p[1] = x[1]
      BY <2>3, <3>2
    <3> QED BY <2>3, <3>3 DEF Raw, Last
  <2>5. CASE ~Cuts(p, q)
    <3>1. PICK c : c = IF x[1] \in {"lead", "cont"} THEN FFFD ELSE x[1]
      OBVIOUS
    <3>2. c # " "
      BY <2>2, <3>1 DEF FFFD
    <3>3. Becomes(p, 1) = <<c>>
      <4>1. ~Completes(p, 1) /\ ~(1 < Len(p))
        BY <2>3 DEF Completes
      <4> QED BY <2>4, <3>1, <4>1 DEF Becomes
    <3>4. Pieces(p) = <<(<<c>>)>>
      BY <2>3, <3>3 DEF Pieces
    <3>5. <<c>> \in Seq({c})
      OBVIOUS
    <3>6. Lossy(p) = <<c>>
      BY <2>3, <3>4, <3>5, FlattenOne, PiecesType
    <3>7. Lossy(x) = Lossy(p) \o Lossy(q) /\ Lossy(p) \in Text /\ Lossy(q) \in Text
      BY <2>3, <2>5, LossyJoined, LossyType
    <3>8. Lossy(x)[1] = c
      <4>1. PICK u, v : u = Lossy(p) /\ v = Lossy(q)
        OBVIOUS
      <4>2. Len(u) = 1 /\ 1 \in 1..1 /\ u[1] = c
        BY <3>6, <4>1
      <4>3. (u \o v)[1] = u[1]
        BY <3>7, <4>1, <4>2, Joined DEF Text
      <4> QED BY <3>7, <4>1, <4>2, <4>3
    <3> QED BY <3>2, <3>8 DEF Unspaced
  <2>6. CASE Cuts(p, q)
    <3>1. x[1] = "lead" /\ q # << >> /\ q[1] = "cont"
      BY <2>4, <2>6 DEF Cuts
    <3>2. PICK m, o, r : m = Len(q) /\ o = SubSeq(q, 1, 1) /\ r = SubSeq(q, 2, m)
      OBVIOUS
    <3>3. m \in Nat /\ m > 0 /\ 1 \in 0..m
      BY <2>3, <3>1, <3>2 DEF Raw
    <3>4. o \in Raw /\ r \in Raw /\ Len(o) = 1 /\ q = o \o r
      <4>1. 1 + 1 = 2
        OBVIOUS
      <4> QED BY <2>3, <3>2, <3>3, <4>1, CutAt DEF Raw
    <3>5. o = <<"cont">>
      <4>1. 1 \in 1..Len(o)
        BY <3>4
      <4>2. (o \o r)[1] = o[1]
        BY <3>4, <4>1, Joined DEF Raw
      <4>3. o[1] = "cont"
        BY <3>1, <3>4, <4>2
      <4> QED BY <3>4, <4>3 DEF Raw
    <3>6. PICK l : l = p \o o
      OBVIOUS
    <3>7. l = <<"lead", "cont">> /\ l \in Raw
      <4>1. p = <<"lead">>
        BY <2>4, <3>1
      <4>2. "lead" \in Byte /\ "cont" \in Byte
        BY DEF Byte
      <4>3. <<"lead", "cont">> \in Raw /\ <<"lead">> \o <<"cont">> = <<"lead", "cont">>
        BY <4>2, TwoElements DEF Raw
      <4> QED BY <3>5, <3>6, <4>1, <4>3
    <3>8. x = l \o r
      <4>1. (p \o o) \o r = p \o (o \o r)
        <5>1. Regroups(p, o, r)
          BY <2>3, <3>4, Associates DEF Raw
        <5> QED BY <5>1 DEF Regroups
      <4> QED BY <2>3, <3>4, <3>6, <4>1
    <3>9. Lossy(l) = <<"wide">>
      <4>1. Len(l) = 2 /\ l[1] = "lead" /\ l[2] = "cont"
        BY <3>7
      <4>2. Completes(l, 2) /\ ~Completes(l, 1)
        BY <4>1 DEF Completes
      <4>3. Becomes(l, 1) = << >> /\ Becomes(l, 2) = <<"wide">>
        BY <4>1, <4>2 DEF Becomes
      <4>4. Pieces(l) = <<(<< >>), (<<"wide">>)>>
        BY <4>1, <4>3 DEF Pieces
      <4>5. PICK a, b : a = <<(<< >>)>> /\ b = <<(<<"wide">>)>>
        OBVIOUS
      <4>6. << >> \in Seq(Char) /\ <<"wide">> \in Seq(Char)
        BY DEF Char
      <4>7. a \in Seq(Seq(Char)) /\ b \in Seq(Seq(Char)) /\ a \o b = <<(<< >>), (<<"wide">>)>>
        <5>1. PICK X, e, f : X = Seq(Char) /\ e = << >> /\ f = <<"wide">>
          OBVIOUS
        <5>2. e \in X /\ f \in X
          BY <4>6, <5>1
        <5>3. <<e>> \in Seq(X) /\ <<f>> \in Seq(X) /\ <<e>> \o <<f>> = <<e, f>>
          BY <5>2, OneElement, TwoElements
        <5> QED BY <4>5, <5>1, <5>3
      <4>8. FlattenSeq(a \o b) = FlattenSeq(a) \o FlattenSeq(b)
        BY <4>7, FlattenJoined
      <4>9. FlattenSeq(a) = << >> /\ FlattenSeq(b) = <<"wide">>
        BY <4>5, <4>6, FlattenOne
      <4>10. << >> \o <<"wide">> = <<"wide">>
        OBVIOUS
      <4> QED BY <3>7, <4>4, <4>7, <4>8, <4>9, <4>10, PiecesType
    <3>10. ~Cuts(l, r)
      BY <3>7 DEF Cuts, Last
    <3>11. Lossy(x) = Lossy(l) \o Lossy(r) /\ Lossy(l) \in Text /\ Lossy(r) \in Text
      BY <3>4, <3>7, <3>8, <3>10, LossyJoined, LossyType
    <3>12. Lossy(x)[1] = "wide"
      <4>1. PICK u, v : u = Lossy(l) /\ v = Lossy(r)
        OBVIOUS
      <4>2. Len(u) = 1 /\ 1 \in 1..1 /\ u[1] = "wide"
        BY <3>9, <4>1
      <4>3. (u \o v)[1] = u[1]
        BY <3>11, <4>1, <4>2, Joined DEF Text
      <4> QED BY <3>11, <4>1, <4>2, <4>3
    <3> QED BY <3>12 DEF Unspaced
  <2> QED BY <2>5, <2>6
<1> QED BY <1>1, <1>2

\* The text of tokens of which none begins with a space does not, either.
LEMMA CleanBytes ==
  ASSUME NEW s \in Seq(Tokens), Clean(s)
  PROVE  Unspaced(Bytes(s))
<1>1. PICK n : n = Len(s)
  OBVIOUS
<1>2. n \in Nat
  BY <1>1
<1> DEFINE Good == {k \in Nat : k <= n => Unspaced(Bytes(SubSeq(s, 1, k)))}
<1>3. 0 \in Good
  <2>1. SubSeq(s, 1, 0) = << >>
    OBVIOUS
  <2>2. << >> \in Seq(Raw) /\ [i \in 1..Len(<< >>) |-> Vocab[(<< >>)[i]]] = << >>
    OBVIOUS
  <2>3. << >> \in Seq({})
    OBVIOUS
  <2>4. Bytes(<< >>) = << >>
    BY <2>2, <2>3, FlattenOne DEF Bytes
  <2> QED BY <2>1, <2>4 DEF Unspaced
<1>4. ASSUME NEW k \in Nat, k \in Good PROVE k + 1 \in Good
  <2> SUFFICES ASSUME k + 1 <= n PROVE Unspaced(Bytes(SubSeq(s, 1, k + 1)))
    OBVIOUS
  <2>1. PICK a, o, token : /\ a = SubSeq(s, 1, k) /\ o = <<token>>
                           /\ token = s[k + 1]
    OBVIOUS
  <2>2. k \in 0..n /\ k + 1 \in 1..n
    BY <1>2
  <2>3. a \in Seq(Tokens) /\ o \in Seq(Tokens) /\ token \in Tokens /\ SubSeq(s, 1, k + 1) = a \o o
    BY <1>1, <2>1, <2>2
  <2>4. Bytes(a) \in Raw /\ Bytes(o) \in Raw /\ Bytes(a \o o) = Bytes(a) \o Bytes(o)
    BY <2>3, BytesJoined
  <2>5. PICK v : v = Vocab[token]
    OBVIOUS
  <2>6. v \in Raw /\ Unspaced(v)
    BY <1>1, <2>1, <2>2, <2>3, <2>5, TokenizerAssumption DEF Clean, Unspaced, Raw
  <2>7. Bytes(o) = v
    <3>1. [i \in 1..Len(o) |-> Vocab[o[i]]] = <<v>>
      BY <2>1, <2>5
    <3>2. FlattenSeq(<<v>>) = v
      BY <2>6, FlattenOne DEF Raw
    <3> QED BY <3>1, <3>2 DEF Bytes
  <2>8. PICK x : x = Bytes(a)
    OBVIOUS
  <2>9. x \in Raw /\ Unspaced(x) /\ Bytes(SubSeq(s, 1, k + 1)) = x \o v
    <3>1. k <= n
      BY <2>2
    <3>2. Unspaced(Bytes(SubSeq(s, 1, k)))
      BY <1>4, <3>1
    <3> QED BY <2>1, <2>3, <2>4, <2>7, <2>8, <3>2
  <2>10. CASE x = << >>
    <3>1. x \o v = v
      BY <2>6, <2>10, Empties DEF Raw
    <3> QED BY <2>6, <2>9, <3>1
  <2>11. CASE x # << >>
    <3>1. 1 \in 1..Len(x)
      BY <2>9, <2>11 DEF Raw
    <3>2. (x \o v)[1] = x[1]
      BY <2>6, <2>9, <3>1, Joined DEF Raw
    <3> QED BY <2>9, <2>11, <3>2 DEF Unspaced
  <2> QED BY <2>10, <2>11
<1>5. n \in Good
  <2>1. \A k \in Nat : k \in Good => k + 1 \in Good
    BY <1>4
  <2> HIDE DEF Good
  <2> QED BY <1>2, <1>3, <2>1, NatInductionOn
<1>6. SubSeq(s, 1, n) = s
  BY <1>1
<1>7. n <= n
  BY <1>2
<1>8. Unspaced(Bytes(SubSeq(s, 1, n)))
  BY <1>5, <1>7
<1> QED BY <1>6, <1>8

\* The tokenizer keeps every space of these tokens.
SpaceKept(s) == strips_first_space => Clean(s)

LEMMA KeptParts ==
  ASSUME NEW s \in Seq(Tokens), NEW t \in Seq(Tokens)
  PROVE  SpaceKept(s \o t) <=> SpaceKept(s) /\ SpaceKept(t)
<1>1. PICK u, n, m : u = s \o t /\ n = Len(s) /\ m = Len(t)
  OBVIOUS
<1>2. /\ n \in Nat /\ m \in Nat /\ Len(u) = n + m
      /\ \A i \in 1..n : u[i] = s[i]
      /\ \A j \in 1..m : u[n + j] = t[j]
  BY <1>1
<1>3. ASSUME Clean(u) PROVE Clean(s) /\ Clean(t)
  <2>1. ASSUME NEW i \in 1..n PROVE Vocab[s[i]] = << >> \/ Vocab[s[i]][1] # " "
    <3>1. i \in 1..Len(u)
      BY <1>2
    <3> QED BY <1>2, <1>3, <3>1 DEF Clean
  <2>2. ASSUME NEW j \in 1..m PROVE Vocab[t[j]] = << >> \/ Vocab[t[j]][1] # " "
    <3>1. n + j \in 1..Len(u)
      BY <1>2
    <3>2. Vocab[u[n + j]] = << >> \/ Vocab[u[n + j]][1] # " "
      BY <1>3, <3>1 DEF Clean
    <3> QED BY <1>2, <3>2
  <2> QED BY <1>1, <2>1, <2>2 DEF Clean
<1>4. ASSUME Clean(s), Clean(t) PROVE Clean(u)
  <2>1. ASSUME NEW k \in 1..Len(u) PROVE Vocab[u[k]] = << >> \/ Vocab[u[k]][1] # " "
    <3>1. CASE k \in 1..n
      BY <1>1, <1>2, <1>4, <3>1 DEF Clean
    <3>2. CASE k \notin 1..n
      <4>1. PICK j : j = k - n
        OBVIOUS
      <4>2. j \in 1..m /\ k = n + j
        BY <1>2, <3>2, <4>1
      <4>3. Vocab[t[j]] = << >> \/ Vocab[t[j]][1] # " "
        BY <1>1, <1>4, <4>2 DEF Clean
      <4> QED BY <1>2, <4>2, <4>3
    <3> QED BY <3>1, <3>2
  <2> QED BY <2>1 DEF Clean
<1> QED BY <1>1, <1>3, <1>4 DEF SpaceKept

LEMMA DecodeKept ==
  ASSUME NEW s \in Seq(Tokens), SpaceKept(s)
  PROVE  decode(s) = Lossy(Bytes(s)) /\ Bytes(s) \in Raw /\ decode(s) \in Text
<1>1. Bytes(s) \in Raw
  BY BytesJoined
<1>2. strips_first_space => Unspaced(Lossy(Bytes(s)))
  BY <1>1, CleanBytes, LossyUnspaced DEF SpaceKept
<1>3. decode(s) = Lossy(Bytes(s))
  BY <1>2 DEF decode, Unspaced
<1> QED BY <1>1, <1>3, LossyType

\* Where the tokenizer keeps all spaces, decode is the same wherever the tokens
\* are cut, but for characters cut in two.
LEMMA DecodeClosed ==
  ASSUME NEW s \in Seq(Tokens), NEW t \in Seq(Tokens), SpaceKept(s), SpaceKept(t), ~EndsOpen(decode(s))
  PROVE  decode(s \o t) = decode(s) \o decode(t)
<1>1. s \o t \in Seq(Tokens) /\ Bytes(s \o t) = Bytes(s) \o Bytes(t)
  BY BytesJoined, Joined
<1>2. PICK x, y : x = Bytes(s) /\ y = Bytes(t)
  OBVIOUS
<1>3. x \in Raw /\ y \in Raw /\ decode(s) = Lossy(x) /\ decode(t) = Lossy(y)
  BY <1>2, DecodeKept
<1>4. decode(s \o t) = Lossy(x \o y)
  BY <1>1, <1>2, DecodeKept, KeptParts
<1> QED BY <1>3, <1>4, LossyClosed

\* With any tokenizer, the text of some tokens without its open characters
\* begins the text of more of them: a space is stripped from both or from none.
LEMMA DecodeGrows ==
  ASSUME NEW s \in Seq(Tokens), NEW t \in Seq(Tokens)
  PROVE  Starts(TrimEnd(decode(s)), decode(s \o t))
<1>1. s \o t \in Seq(Tokens) /\ Bytes(s \o t) = Bytes(s) \o Bytes(t) /\ Bytes(s) \in Raw /\ Bytes(t) \in Raw
  BY BytesJoined, Joined
<1>2. PICK l, p, u : l = Lossy(Bytes(s)) /\ p = TrimEnd(l) /\ u = Lossy(Bytes(s \o t))
  OBVIOUS
<1>3. l \in Text /\ p \in Text /\ u \in Text /\ Starts(p, u)
  <2>1. Bytes(s \o t) \in Raw
    BY <1>1, BytesJoined
  <2> QED BY <1>1, <1>2, <2>1, LossyType, LossyGrows, TrimSplit
<1>4. PICK z \in Text : u = p \o z
  BY <1>3 DEF Starts
<1>5. /\ decode(s) = IF strips_first_space /\ l # << >> /\ l[1] = " " THEN Tail(l) ELSE l
      /\ decode(s \o t) = IF strips_first_space /\ u # << >> /\ u[1] = " " THEN Tail(u) ELSE u
  BY <1>2 DEF decode
<1>6. p # << >> => p[1] = l[1] /\ l # << >> /\ u # << >> /\ u[1] = p[1]
  <2> SUFFICES ASSUME p # << >> PROVE p[1] = l[1] /\ l # << >> /\ u # << >> /\ u[1] = p[1]
    OBVIOUS
  <2>1. PICK h \in Held : l = p \o h
    BY <1>2, <1>3, TrimSplit
  <2>2. h \in Text
    BY HeldIsText
  <2>3. 1 \in 1..Len(p)
    BY <1>3 DEF Text
  <2>4. (p \o h)[1] = p[1] /\ (p \o z)[1] = p[1]
    BY <1>3, <2>2, <2>3, Joined DEF Text
  <2>5. Len(p \o h) = Len(p) + Len(h) /\ Len(p \o z) = Len(p) + Len(z)
    BY <1>3, <2>2, Texts
  <2>6. p \o h # << >> /\ p \o z # << >>
    <3>1. Len(p) \in Nat /\ Len(h) \in Nat /\ Len(z) \in Nat /\ Len(p) # 0
      BY <1>3, <2>2, Texts
    <3>2. Len(p \o h) # 0 /\ Len(p \o z) # 0
      BY <2>5, <3>1
    <3> QED BY <1>3, <1>4, <2>1, <3>2, Texts
  <2> QED BY <1>4, <2>1, <2>4, <2>6
<1>7. CASE ~(strips_first_space /\ l # << >> /\ l[1] = " ")
  <2>1. decode(s) = l
    BY <1>5, <1>7
  <2>2. CASE p = << >>
    <3>1. decode(s \o t) \in Text
      BY <1>1, DecodeText
    <3>2. << >> \o decode(s \o t) = decode(s \o t)
      BY <3>1, Texts
    <3> QED BY <1>2, <2>1, <2>2, <3>1, <3>2 DEF Starts
  <2>3. CASE p # << >>
    <3>1. decode(s \o t) = u
      BY <1>5, <1>6, <1>7, <2>3
    <3> QED BY <1>2, <1>3, <2>1, <3>1
  <2> QED BY <2>2, <2>3
<1>8. CASE strips_first_space /\ l # << >> /\ l[1] = " "
  <2>1. PICK o, w : o = <<" ">> /\ w = Tail(l)
    OBVIOUS
  <2>2. o \in Text /\ w \in Text /\ l = o \o w /\ ~EndsOpen(o)
    <3>1. " " \in Char
      BY DEF Char
    <3>2. o \in Text
      BY <2>1, <3>1, OneElement DEF Text
    <3>3. w \in Text /\ l = o \o w
      BY <1>3, <1>8, <2>1, FirstAndTail DEF Text
    <3>4. ~EndsOpen(o)
      BY <2>1 DEF EndsOpen, Last, FFFD
    <3> QED BY <3>2, <3>3, <3>4
  <2>3. p = o \o TrimEnd(w) /\ TrimEnd(w) \in Text
    BY <1>2, <2>2, TrimJoined, TrimSplit
  <2>4. PICK y : y = TrimEnd(w)
    OBVIOUS
  <2>5. PICK v : v = y \o z
    OBVIOUS
  <2>6. v \in Text /\ u = o \o v
    <3>1. Regroups(o, y, z)
      BY <2>2, <2>3, <2>4, TextRegroups
    <3>2. v \in Text
      BY <2>3, <2>4, <2>5, Texts
    <3> QED BY <1>4, <2>3, <2>4, <2>5, <3>1, <3>2 DEF Regroups
  <2>7. u # << >> /\ u[1] = " " /\ Tail(u) = v
    <3>1. " " \in Char
      BY DEF Char
    <3> QED BY <2>1, <2>6, <3>1, TailOfJoined DEF Text
  <2>8. decode(s) = w /\ decode(s \o t) = v
    BY <1>5, <1>8, <2>1, <2>7
  <2> QED BY <2>4, <2>5, <2>8 DEF Starts
<1> QED BY <1>7, <1>8

LEMMA DecodeNothing == decode(<< >>) = << >> /\ << >> \in Seq(Tokens)
<1>1. << >> \in Seq(Tokens) /\ << >> \in Seq({})
  OBVIOUS
<1>2. Bytes(<< >>) = << >>
  <2>1. [i \in 1..Len(<< >>) |-> Vocab[(<< >>)[i]]] = << >>
    OBVIOUS
  <2> QED BY <1>1, <2>1, FlattenOne DEF Bytes
<1> QED BY <1>1, <1>2, LossyNothing DEF decode

-----------------------------------------------------------------------------
(* The decoder's window.                                                    *)

\* A sequence cut at two places.
LEMMA CutTwice ==
  ASSUME NEW S, NEW t \in Seq(S), NEW i \in 0..Len(t), NEW j \in 0..Len(t), i <= j
  PROVE  /\ SubSeq(t, i + 1, j) \in Seq(S)
         /\ SubSeq(t, 1, j) = SubSeq(t, 1, i) \o SubSeq(t, i + 1, j)
         /\ SubSeq(t, i + 1, Len(t)) = SubSeq(t, i + 1, j) \o SubSeq(t, j + 1, Len(t))
<1>1. PICK n, p : n = Len(t) /\ p = SubSeq(t, 1, j)
  OBVIOUS
<1>2. PICK r : r = SubSeq(t, j + 1, n)
  OBVIOUS
<1>3. n \in Nat /\ i \in Nat /\ j \in Nat /\ i <= j /\ j <= n
  BY <1>1
<1>4. p \in Seq(S) /\ r \in Seq(S) /\ Len(p) = j /\ t = p \o r
  BY <1>1, <1>2, CutAt
<1>5. i \in 0..Len(p)
  BY <1>3, <1>4
<1>6. PICK a, b : a = SubSeq(p, 1, i) /\ b = SubSeq(p, i + 1, j)
  OBVIOUS
<1>7. a \in Seq(S) /\ b \in Seq(S) /\ Len(a) = i /\ p = a \o b
  BY <1>4, <1>5, <1>6, CutAt
<1>8. b \o r \in Seq(S)
  BY <1>4, <1>7, Joined
<1>9. t = a \o (b \o r)
  <2>1. (a \o b) \o r = a \o (b \o r)
    <3>1. Regroups(a, b, r)
      BY <1>4, <1>7, Associates
    <3> QED BY <3>1 DEF Regroups
  <2> QED BY <1>4, <1>7, <2>1
<1>10. SubSeq(t, 1, i) = a /\ SubSeq(t, i + 1, n) = b \o r
  <2>1. PICK q : q = b \o r
    OBVIOUS
  <2>2. SubSeq(a \o q, 1, Len(a)) = a /\ SubSeq(a \o q, Len(a) + 1, Len(a \o q)) = q
    BY <1>7, <1>8, <2>1, CutJoined
  <2> QED BY <1>1, <1>7, <1>9, <2>1, <2>2
<1>11. SubSeq(t, i + 1, j) = b
  <2>1. \A k \in 1..j : t[k] = p[k]
    BY <1>4, Joined
  <2>2. SubSeq(t, i + 1, j) = [k \in 1..j - i |-> t[i + k]]
    BY <1>3
  <2>3. b = [k \in 1..j - i |-> p[i + k]]
    BY <1>3, <1>4, <1>6
  <2>4. \A k \in 1..j - i : i + k \in 1..j
    BY <1>3
  <2> QED BY <2>1, <2>2, <2>3, <2>4
<1> QED BY <1>1, <1>2, <1>7, <1>10, <1>11

\* Cut at i, t grows by x in its second part.
GrowsBy(t, x, i, S) ==
  /\ Append(t, x) \in Seq(S) /\ i \in 0..Len(Append(t, x))
  /\ SubSeq(Append(t, x), 1, i) = SubSeq(t, 1, i)
  /\ SubSeq(Append(t, x), i + 1, Len(Append(t, x))) = SubSeq(t, i + 1, Len(t)) \o <<x>>

LEMMA CutAppended ==
  ASSUME NEW S, NEW t \in Seq(S), NEW x \in S, NEW i \in 0..Len(t)
  PROVE  GrowsBy(t, x, i, S)
<1>1. PICK u, n, o : u = Append(t, x) /\ n = Len(t) /\ o = <<x>>
  OBVIOUS
<1>2. u \in Seq(S) /\ n \in Nat /\ Len(u) = n + 1 /\ o \in Seq(S) /\ i \in Nat /\ i <= n
  BY <1>1
<1>3. u = t \o o
  BY <1>1
<1>4. PICK a, b : a = SubSeq(t, 1, i) /\ b = SubSeq(t, i + 1, n)
  OBVIOUS
<1>5. a \in Seq(S) /\ b \in Seq(S) /\ Len(a) = i /\ t = a \o b
  BY <1>1, <1>4, CutAt
<1>6. b \o o \in Seq(S)
  BY <1>2, <1>5, Joined
<1>7. u = a \o (b \o o)
  <2>1. (a \o b) \o o = a \o (b \o o)
    <3>1. Regroups(a, b, o)
      BY <1>2, <1>5, Associates
    <3> QED BY <3>1 DEF Regroups
  <2> QED BY <1>3, <1>5, <2>1
<1>8. PICK q : q = b \o o
  OBVIOUS
<1>9. SubSeq(a \o q, 1, Len(a)) = a /\ SubSeq(a \o q, Len(a) + 1, Len(a \o q)) = q
  <2>1. a \in Seq(S)
    BY <1>5
  <2>2. q \in Seq(S)
    BY <1>6, <1>8
  <2> QED BY <2>1, <2>2, CutJoined
<1>10. SubSeq(u, 1, i) = a /\ SubSeq(u, i + 1, Len(u)) = q
  BY <1>5, <1>7, <1>8, <1>9
<1>11. i \in 0..Len(u)
  BY <1>2
<1> QED BY <1>1, <1>2, <1>4, <1>8, <1>10, <1>11 DEF GrowsBy

DecoderType ==
  [tokens : Seq(Tokens), emitted : Text, window_start : Nat, window_emitted : Nat, out : Text]

\* The text of the tokens that have left the window.
Settled(d) == decode(SubSeq(d.tokens, 1, d.window_start))

\* The part u of the window's text is emitted, after the text of all that has
\* left the window; v is the rest.
Splits(d, u, v) ==
  /\ u \in Text /\ v \in Text /\ WindowText(d) = u \o v
  /\ ~EndsOpen(Settled(d)) /\ ~EndsOpen(u)
  /\ d.emitted = Settled(d) \o u /\ d.window_emitted = TextLen(u)

Windowed(d) == d \in DecoderType /\ d.window_start \in 0..Len(d.tokens)

\* Between two calls, and in the middle of push.
Partly(d) == Windowed(d) /\ \E u, v \in Text : Splits(d, u, v)
DecoderOK(d) ==
  /\ Windowed(d) /\ ~EndsOpen(Settled(d))
  /\ d.emitted = Settled(d) \o TrimEnd(WindowText(d))
  /\ d.window_emitted = TextLen(TrimEnd(WindowText(d)))

LEMMA WindowTypes ==
  ASSUME NEW d, Windowed(d)
  PROVE  /\ SubSeq(d.tokens, 1, d.window_start) \in Seq(Tokens)
         /\ SubSeq(d.tokens, d.window_start + 1, Len(d.tokens)) \in Seq(Tokens)
         /\ d.tokens = SubSeq(d.tokens, 1, d.window_start)
                         \o SubSeq(d.tokens, d.window_start + 1, Len(d.tokens))
         /\ Settled(d) \in Text /\ WindowText(d) \in Text
<1>1. d.tokens \in Seq(Tokens) /\ d.window_start \in 0..Len(d.tokens)
  BY DEF Windowed, DecoderType
<1>2. /\ SubSeq(d.tokens, 1, d.window_start) \in Seq(Tokens)
      /\ SubSeq(d.tokens, d.window_start + 1, Len(d.tokens)) \in Seq(Tokens)
      /\ d.tokens = SubSeq(d.tokens, 1, d.window_start)
                      \o SubSeq(d.tokens, d.window_start + 1, Len(d.tokens))
  BY <1>1, CutAt
<1> QED BY <1>2, DecodeText DEF Settled, WindowText

\* Nothing is stripped where the window begins, or nothing has left it.
LEMMA IntactKept ==
  ASSUME NEW d, Windowed(d)
  PROVE  Intact(d) <=> d.window_start = 0 \/ SpaceKept(d.tokens)
  BY DEF Intact, SpaceKept

\* What has been emitted is the text of all the tokens but its open characters.
LEMMA DecoderEmits ==
  ASSUME NEW d, DecoderOK(d), Intact(d)
  PROVE  /\ decode(d.tokens) \in Text /\ d.emitted = TrimEnd(decode(d.tokens))
         /\ Starts(d.emitted, decode(d.tokens))
<1>1. Windowed(d) /\ ~EndsOpen(Settled(d)) /\ d.emitted = Settled(d) \o TrimEnd(WindowText(d))
  BY DEF DecoderOK
<1>2. PICK s, t : /\ s = SubSeq(d.tokens, 1, d.window_start)
                  /\ t = SubSeq(d.tokens, d.window_start + 1, Len(d.tokens))
  OBVIOUS
<1>3. s \in Seq(Tokens) /\ t \in Seq(Tokens) /\ d.tokens = s \o t
  BY <1>1, <1>2, WindowTypes
<1>4. PICK a, w : a = decode(s) /\ w = decode(t)
  OBVIOUS
<1>5. a = Settled(d) /\ w = WindowText(d) /\ a \in Text /\ w \in Text /\ ~EndsOpen(a)
  BY <1>1, <1>2, <1>4, WindowTypes DEF Settled, WindowText
<1>6. decode(d.tokens) = a \o w
  <2>1. CASE SpaceKept(d.tokens)
    <3>1. SpaceKept(s) /\ SpaceKept(t)
      BY <1>3, <2>1, KeptParts
    <3> QED BY <1>3, <1>4, <1>5, <3>1, DecodeClosed
  <2>2. CASE d.window_start = 0
    <3>1. s = << >>
      BY <1>2, <2>2
    <3>2. a = << >> /\ << >> \o t = t /\ << >> \o w = w
      BY <1>3, <1>4, <1>5, <3>1, DecodeNothing, Texts, Empties
    <3> QED BY <1>3, <1>4, <3>1, <3>2
  <2> QED BY <1>1, <2>1, <2>2, IntactKept
<1>7. TrimEnd(a \o w) = a \o TrimEnd(w)
  BY <1>5, TrimJoined
<1>8. a \o w \in Text
  BY <1>5, Texts
<1>9. Starts(TrimEnd(a \o w), (a \o w) \o << >>)
  BY <1>8, Texts, TrimStarts
<1>10. (a \o w) \o << >> = a \o w
  BY <1>8, Texts
<1> QED BY <1>1, <1>5, <1>6, <1>7, <1>8, <1>9, <1>10

LEMMA PushStarts ==
  ASSUME NEW d, DecoderOK(d), NEW token \in Tokens
  PROVE  Partly([d EXCEPT !.tokens = Append(@, token)])
<1>1. /\ Windowed(d) /\ ~EndsOpen(Settled(d)) /\ d.emitted = Settled(d) \o TrimEnd(WindowText(d))
      /\ d.window_emitted = TextLen(TrimEnd(WindowText(d)))
  BY DEF DecoderOK
<1>2. d \in DecoderType /\ d.tokens \in Seq(Tokens) /\ d.window_start \in 0..Len(d.tokens)
  BY <1>1 DEF Windowed, DecoderType
<1>3. PICK e : e = [d EXCEPT !.tokens = Append(@, token)]
  OBVIOUS
<1>4. /\ e.tokens = Append(d.tokens, token) /\ e.emitted = d.emitted
      /\ e.window_start = d.window_start /\ e.window_emitted = d.window_emitted
  BY <1>2, <1>3 DEF DecoderType
<1>5. PICK o, s, t : /\ o = <<token>> /\ s = SubSeq(d.tokens, 1, d.window_start)
                     /\ t = SubSeq(d.tokens, d.window_start + 1, Len(d.tokens))
  OBVIOUS
<1>6. /\ Append(d.tokens, token) \in Seq(Tokens)
      /\ d.window_start \in 0..Len(Append(d.tokens, token))
      /\ SubSeq(Append(d.tokens, token), 1, d.window_start) = s
      /\ SubSeq(Append(d.tokens, token), d.window_start + 1, Len(Append(d.tokens, token))) = t \o o
  <2>1. PICK q, i : q = d.tokens /\ i = d.window_start
    OBVIOUS
  <2>2. q \in Seq(Tokens) /\ i \in 0..Len(q)
    BY <1>2, <2>1
  <2>3. /\ Append(q, token) \in Seq(Tokens) /\ i \in 0..Len(Append(q, token))
        /\ SubSeq(Append(q, token), 1, i) = SubSeq(q, 1, i)
        /\ SubSeq(Append(q, token), i + 1, Len(Append(q, token)))
             = SubSeq(q, i + 1, Len(q)) \o <<token>>
    <3>1. GrowsBy(q, token, i, Tokens)
      BY <2>2, CutAppended
    <3> QED BY <3>1 DEF GrowsBy
  <2> QED BY <1>5, <2>1, <2>3
<1>7. Windowed(e)
  BY <1>2, <1>3, <1>4, <1>6 DEF Windowed, DecoderType
<1>8. Settled(e) = Settled(d) /\ WindowText(e) = decode(t \o o) /\ WindowText(d) = decode(t)
  BY <1>4, <1>5, <1>6 DEF Settled, WindowText
<1>9. t \in Seq(Tokens) /\ o \in Seq(Tokens) /\ WindowText(d) \in Text
  BY <1>1, <1>5, WindowTypes
<1>10. Starts(TrimEnd(decode(t)), decode(t \o o))
  BY <1>9, DecodeGrows
<1>11. PICK u : u = TrimEnd(WindowText(d))
  OBVIOUS
<1>12. u \in Text /\ ~EndsOpen(u)
  BY <1>9, <1>11, TrimSplit
<1>13. PICK v \in Text : WindowText(e) = u \o v
  BY <1>8, <1>10, <1>11 DEF Starts
<1>14. Splits(e, u, v)
  BY <1>1, <1>4, <1>8, <1>11, <1>12, <1>13 DEF Splits
<1> QED BY <1>3, <1>7, <1>12, <1>14 DEF Partly

\* The first half of push, as far as it may get before decode fails.
Extended(d, token) == [d EXCEPT !.tokens = Append(@, token)]

LEMMA TokenAdded ==
  ASSUME NEW d, Windowed(d), NEW token \in Tokens,
         NEW c \in {Extended(d, token), Reanchored(Extended(d, token))}
  PROVE  /\ Windowed(c) /\ c.tokens = Append(d.tokens, token) /\ c.emitted = d.emitted
         /\ Intact(c) => Intact(d)
<1>1. d \in DecoderType /\ d.tokens \in Seq(Tokens) /\ d.window_start \in 0..Len(d.tokens)
  BY DEF Windowed, DecoderType
<1>2. PICK b, q : b = Extended(d, token) /\ q = Append(d.tokens, token)
  OBVIOUS
<1>3. /\ b.tokens = q /\ b.emitted = d.emitted /\ q \in Seq(Tokens)
      /\ b.window_start = d.window_start /\ b.window_emitted = d.window_emitted
  BY <1>1, <1>2 DEF DecoderType, Extended
<1>4. PICK n, i, j : n = Len(q) /\ i = d.window_start /\ j = n - window
  OBVIOUS
<1>5. n \in Nat /\ i \in 0..n /\ window \in Nat /\ b \in DecoderType
  <2>1. Len(q) = Len(d.tokens) + 1 /\ Len(d.tokens) \in Nat
    BY <1>1, <1>2
  <2>2. b \in DecoderType
    BY <1>1, <1>2, <1>3 DEF DecoderType, Extended
  <2> QED BY <1>1, <1>4, <2>1, <2>2, TokenizerAssumption
<1>6. PICK dropped : dropped = decode(SubSeq(q, i + 1, j))
  OBVIOUS
<1>7. PICK m : m = [b EXCEPT !.window_start = j, !.window_emitted = @ - TextLen(dropped)]
  OBVIOUS
<1>8. c = b \/ (c = m /\ n - i > 2 * window /\ b.window_emitted >= TextLen(dropped))
  BY <1>2, <1>3, <1>4, <1>6, <1>7 DEF Reanchored
<1>9. /\ c \in DecoderType /\ c.tokens = q /\ c.emitted = d.emitted /\ c.window_start \in 0..n
      /\ c.window_start = 0 => d.window_start = 0
  <2>1. ASSUME n - i > 2 * window, b.window_emitted >= TextLen(dropped)
        PROVE  j \in 0..n /\ b.window_emitted - TextLen(dropped) \in Nat /\ j # 0
    <3>1. j \in 0..n /\ i <= j /\ i \in 0..n /\ j # 0
      BY <1>4, <1>5, <2>1, TokenizerAssumption
    <3>2. SubSeq(q, i + 1, j) \in Seq(Tokens)
      BY <1>3, <1>4, <3>1, CutTwice
    <3>3. TextLen(dropped) \in Nat
      BY <1>6, <3>2, DecodeText, TextLenOf
    <3>4. b.window_emitted \in Nat
      BY <1>5 DEF DecoderType
    <3> QED BY <2>1, <3>1, <3>3, <3>4
  <2>2. j \in 0..n => j \in Nat
    BY <1>5
  <2>3. CASE c = b
    BY <1>3, <1>5, <1>4, <2>3
  <2>4. CASE c = m /\ n - i > 2 * window /\ b.window_emitted >= TextLen(dropped)
    <3>1. j \in 0..n /\ j \in Nat /\ j # 0 /\ b.window_emitted - TextLen(dropped) \in Nat
      BY <2>1, <2>2, <2>4
    <3> QED BY <1>3, <1>5, <1>7, <2>4, <3>1 DEF DecoderType
  <2> QED BY <1>8, <2>3, <2>4
<1>10. Windowed(c)
  BY <1>4, <1>9 DEF Windowed
<1>11. SpaceKept(q) => SpaceKept(d.tokens)
  <2>1. <<token>> \in Seq(Tokens) /\ q = d.tokens \o <<token>>
    BY <1>1, <1>2
  <2> QED BY <1>1, <2>1, KeptParts
<1> QED BY <1>2, <1>9, <1>10, <1>11, IntactKept

\* What any tokenizer can rely on.
LEMMA PushTypes ==
  ASSUME NEW d, Windowed(d), NEW token \in Tokens
  PROVE  LET e == push(d, token)
         IN  /\ Windowed(e) /\ e.tokens = Append(d.tokens, token)
             /\ e.out \in Text /\ e.emitted = d.emitted \o e.out
             /\ Intact(e) => Intact(d)
<1>1. PICK q : q = Append(d.tokens, token)
  OBVIOUS
<1>2. PICK c : c = Reanchored(Extended(d, token))
  OBVIOUS
<1>3. Windowed(c) /\ c.tokens = q /\ c.emitted = d.emitted /\ (Intact(c) => Intact(d))
  BY <1>1, <1>2, TokenAdded
<1>4. c \in DecoderType /\ d \in DecoderType /\ c.window_start \in 0..Len(c.tokens)
  BY <1>3 DEF Windowed
<1>5. PICK t, k : t = WindowText(c) /\ k = c.window_emitted
  OBVIOUS
<1>6. t \in Text /\ k \in Nat
  BY <1>3, <1>4, <1>5, WindowTypes DEF DecoderType
<1>7. PICK out : out = IF TextLen(t) <= k THEN << >> ELSE Stable(From(t, k))
  OBVIOUS
<1>8. out \in Text /\ TextLen(out) \in Nat
  <2>1. From(t, k) \in Text
    BY <1>6, SliceSplits
  <2>2. Stable(From(t, k)) \in Text
    BY <2>1, TrimSplit DEF Stable
  <2>3. out \in Text
    BY <1>7, <2>2, Texts
  <2> QED BY <2>3, TextLenOf
<1>9. PICK e : e = [c EXCEPT !.window_emitted = @ + TextLen(out), !.emitted = @ \o out, !.out = out]
  OBVIOUS
<1>10. push(d, token) = e
  BY <1>2, <1>5, <1>7, <1>9 DEF push, Extended
<1>11. /\ e.tokens = q /\ e.out = out /\ e.emitted = d.emitted \o out
       /\ e.window_start = c.window_start
  BY <1>3, <1>4, <1>9 DEF DecoderType
<1>12. e \in DecoderType
  <2>1. d.emitted \o out \in Text
    BY <1>4, <1>8, Texts DEF DecoderType
  <2>2. c.emitted \o out \in Text /\ c.window_emitted + TextLen(out) \in Nat
    BY <1>3, <1>5, <1>6, <1>8, <2>1
  <2> QED BY <1>4, <1>8, <1>9, <2>2 DEF DecoderType
<1>13. Windowed(e) /\ (Intact(e) => Intact(c))
  BY <1>3, <1>4, <1>11, <1>12 DEF Windowed, Intact
<1> QED BY <1>1, <1>3, <1>8, <1>10, <1>11, <1>13

\* The window moves past tokens whose text is complete and has been emitted.
LEMMA WindowMoves ==
  ASSUME NEW d, Partly(d), Intact(Reanchored(d))
  PROVE  Partly(Reanchored(d)) /\ Reanchored(d).tokens = d.tokens
                               /\ Reanchored(d).emitted = d.emitted
<1>1. Windowed(d) /\ d \in DecoderType /\ d.tokens \in Seq(Tokens) /\ d.window_start \in 0..Len(d.tokens)
  BY DEF Partly, Windowed, DecoderType
<1>2. PICK n, i, j : n = Len(d.tokens) /\ i = d.window_start /\ j = n - window
  OBVIOUS
<1>3. PICK x, y, s, t : /\ x = SubSeq(d.tokens, i + 1, j) /\ y = SubSeq(d.tokens, j + 1, n)
                        /\ s = SubSeq(d.tokens, 1, i) /\ t = SubSeq(d.tokens, i + 1, n)
  OBVIOUS
<1>4. PICK b : b = decode(x)
  OBVIOUS
<1>5. PICK e : e = [d EXCEPT !.window_start = j, !.window_emitted = @ - TextLen(b)]
  OBVIOUS
<1>6. Reanchored(d) = IF n - i > 2 * window /\ ~EndsOpen(b) /\ d.window_emitted >= TextLen(b)
                        THEN e ELSE d
  BY <1>2, <1>3, <1>4, <1>5 DEF Reanchored
<1>7. ASSUME n - i > 2 * window, ~EndsOpen(b), d.window_emitted >= TextLen(b), Intact(e)
      PROVE  Partly(e) /\ e.tokens = d.tokens /\ e.emitted = d.emitted
  <2>1. n \in Nat /\ i \in Nat /\ i <= n /\ window \in Nat /\ window > 0
    BY <1>1, <1>2, TokenizerAssumption
  <2>2. j \in 0..n /\ i \in 0..n /\ i <= j
    BY <1>2, <1>7, <2>1
  <2>3. /\ e.tokens = d.tokens /\ e.emitted = d.emitted /\ e.window_start = j
        /\ e.window_emitted = d.window_emitted - TextLen(b)
    BY <1>1, <1>5 DEF DecoderType
  <2>4. x \in Seq(Tokens) /\ SubSeq(d.tokens, 1, j) = s \o x /\ t = x \o y
    <3>1. PICK q : q = d.tokens
      OBVIOUS
    <3>2. q \in Seq(Tokens) /\ i \in 0..Len(q) /\ j \in 0..Len(q)
      BY <1>1, <1>2, <2>2, <3>1
    <3>3. /\ SubSeq(q, i + 1, j) \in Seq(Tokens)
          /\ SubSeq(q, 1, j) = SubSeq(q, 1, i) \o SubSeq(q, i + 1, j)
          /\ SubSeq(q, i + 1, Len(q)) = SubSeq(q, i + 1, j) \o SubSeq(q, j + 1, Len(q))
      BY <2>2, <3>2, CutTwice
    <3> QED BY <1>2, <1>3, <3>1, <3>3
  <2>5. s \in Seq(Tokens) /\ t \in Seq(Tokens) /\ Settled(d) = decode(s) /\ WindowText(d) = decode(t)
    BY <1>1, <1>2, <1>3, WindowTypes DEF Settled, WindowText
  <2>6. y \in Seq(Tokens) /\ SpaceKept(s) /\ SpaceKept(x) /\ SpaceKept(y)
    <3>1. y \in Seq(Tokens)
      BY <1>1, <1>2, <1>3, <2>2, CutAt
    <3>2. j # 0
      BY <1>2, <1>7, <2>1
    <3>3. SpaceKept(d.tokens)
      BY <1>7, <2>3, <3>2 DEF Intact, SpaceKept
    <3>4. d.tokens = s \o t
      BY <1>1, <1>2, <1>3, WindowTypes
    <3>5. SpaceKept(s) /\ SpaceKept(t)
      BY <2>5, <3>3, <3>4, KeptParts
    <3> QED BY <2>4, <3>1, <3>5, KeptParts
  <2>7. PICK u \in Text, v \in Text : Splits(d, u, v)
    BY DEF Partly
  <2>8. PICK a, c : a = decode(s) /\ c = decode(y)
    OBVIOUS
  <2>9. a \in Text /\ b \in Text /\ c \in Text
    BY <1>4, <2>4, <2>5, <2>6, <2>8, DecodeText
  <2>10. decode(t) = b \o c
    BY <1>4, <1>7, <2>4, <2>6, <2>8, DecodeClosed
  <2>11. b \o c = u \o v /\ ~EndsOpen(a) /\ ~EndsOpen(u) /\ d.emitted = a \o u /\ d.window_emitted = TextLen(u)
    BY <2>5, <2>7, <2>8, <2>10 DEF Splits
  <2>12. PICK z \in Text : u = b \o z /\ c = z \o v
    <3>1. Len(b) \in Nat /\ Len(u) \in Nat
      BY <2>9, Texts
    <3>2. CASE Len(b) <= Len(u)
      <4>1. Overlap(b, c, u, v)
        BY <2>11, <3>2 DEF Overlap
      <4>2. \E z \in Text : Between(b, c, u, v, z)
        BY <2>9, <4>1, TextNested
      <4> QED BY <4>2 DEF Between
    <3>3. CASE Len(u) < Len(b)
      <4>1. Overlap(u, v, b, c)
        BY <2>11, <3>1, <3>3 DEF Overlap
      <4>2. \E z \in Text : Between(u, v, b, c, z)
        BY <2>9, <4>1, TextNested
      <4>3. PICK z \in Text : b = u \o z
        BY <4>2 DEF Between
      <4>4. TextLen(b) = TextLen(u) + TextLen(z) /\ TextLen(u) \in Nat /\ TextLen(z) \in Nat
        BY <4>3, TextLenJoined
      <4>5. TextLen(z) = 0
        BY <1>7, <2>11, <4>4
      <4>6. z = << >>
        BY <4>5, TextLenOf
      <4>7. b = u
        BY <4>3, <4>6, Texts
      <4> QED BY <3>1, <3>3, <4>7
    <3>4. Len(b) <= Len(u) \/ Len(u) < Len(b)
      BY <3>1
    <3> QED BY <3>2, <3>3, <3>4
  <2>13. ~EndsOpen(z)
    <3>1. CASE z = << >>
      BY <3>1 DEF EndsOpen
    <3>2. CASE z # << >>
      <4>1. Last(b \o z) = Last(z) /\ b \o z # << >>
        BY <2>9, <3>2, Texts
      <4> QED BY <2>11, <2>12, <4>1 DEF EndsOpen
    <3> QED BY <3>1, <3>2
  <2>14. decode(s \o x) = a \o b
    BY <1>4, <2>4, <2>5, <2>6, <2>8, <2>11, DecodeClosed
  <2>15. Settled(e) = a \o b /\ WindowText(e) = c
    BY <1>2, <1>3, <2>3, <2>4, <2>8, <2>14 DEF Settled, WindowText
  <2>16. ~EndsOpen(a \o b)
    <3>1. CASE b = << >>
      <4>1. a \o b = a
        BY <2>9, <3>1, Texts
      <4> QED BY <2>11, <4>1
    <3>2. CASE b # << >>
      <4>1. Last(a \o b) = Last(b)
        BY <2>9, <3>2, Texts
      <4> QED BY <1>7, <3>2, <4>1 DEF EndsOpen
    <3> QED BY <3>1, <3>2
  <2>17. d.emitted = (a \o b) \o z
    <3>1. (a \o b) \o z = a \o (b \o z)
      <4>1. a \in Text /\ b \in Text /\ z \in Text
        BY <2>9
      <4>2. Regroups(a, b, z)
        BY <4>1, TextRegroups
      <4> QED BY <4>2 DEF Regroups
    <3> QED BY <2>11, <2>12, <3>1
  <2>18. TextLen(u) - TextLen(b) = TextLen(z) /\ TextLen(z) \in Nat
    <3>1. TextLen(u) = TextLen(b) + TextLen(z) /\ TextLen(b) \in Nat /\ TextLen(z) \in Nat
      BY <2>9, <2>12, TextLenJoined
    <3> QED BY <3>1
  <2>19. Splits(e, z, v)
    BY <2>3, <2>11, <2>12, <2>13, <2>15, <2>16, <2>17, <2>18 DEF Splits
  <2>20. Windowed(e)
    <3>1. j \in Nat /\ d.window_emitted - TextLen(b) \in Nat
      BY <2>2, <2>11, <2>18
    <3>2. e \in DecoderType
      BY <1>1, <1>5, <3>1 DEF DecoderType
    <3> QED BY <1>2, <2>2, <2>3, <3>2 DEF Windowed
  <2> QED BY <2>3, <2>19, <2>20 DEF Partly
<1> QED BY <1>6, <1>7

LEMMA PushEnds ==
  ASSUME NEW d, Partly(d)
  PROVE  LET t   == WindowText(d)
             out == IF TextLen(t) <= d.window_emitted THEN << >>
                    ELSE Stable(From(t, d.window_emitted))
             e   == [d EXCEPT !.window_emitted = @ + TextLen(out),
                              !.emitted = @ \o out, !.out = out]
         IN  /\ DecoderOK(e) /\ out \in Text /\ e.out = out
             /\ e.tokens = d.tokens /\ e.emitted = d.emitted \o out
             /\ TextLen(t) > d.window_emitted => is_char_boundary(t, d.window_emitted)
<1> DEFINE t == WindowText(d)
           out == IF TextLen(t) <= d.window_emitted THEN << >>
                  ELSE Stable(From(t, d.window_emitted))
           e == [d EXCEPT !.window_emitted = @ + TextLen(out), !.emitted = @ \o out, !.out = out]
<1>1. Windowed(d) /\ d \in DecoderType /\ d.window_start \in 0..Len(d.tokens)
  BY DEF Partly, Windowed, DecoderType
<1>2. PICK u \in Text, v \in Text : Splits(d, u, v)
  BY DEF Partly
<1>3. PICK a : a = Settled(d)
  OBVIOUS
<1>4. /\ t = u \o v /\ ~EndsOpen(a) /\ ~EndsOpen(u) /\ d.emitted = a \o u
      /\ d.window_emitted = TextLen(u) /\ a \in Text
  BY <1>1, <1>2, <1>3, WindowTypes DEF Splits
<1>5. TextLen(t) = TextLen(u) + TextLen(v) /\ TextLen(u) \in Nat /\ TextLen(v) \in Nat
  BY <1>4, TextLenJoined
<1>6. From(t, TextLen(u)) = v /\ is_char_boundary(t, TextLen(u))
  BY <1>4, SliceJoined
<1>7. out \in Text /\ TrimEnd(t) = u \o out
  <2>1. CASE TextLen(t) <= d.window_emitted
    <3>1. out = << >>
      BY <2>1
    <3>2. TextLen(v) = 0
      BY <1>4, <1>5, <2>1
    <3>3. v = << >>
      BY <3>2, TextLenOf
    <3>4. t = u /\ u \o << >> = u /\ << >> \in Text
      BY <1>4, <3>3, Texts
    <3>5. TrimEnd(u) = u
      BY <1>4, TrimKeeps
    <3> QED BY <3>1, <3>4, <3>5
  <2>2. CASE ~(TextLen(t) <= d.window_emitted)
    <3>1. out = TrimEnd(v)
      BY <1>4, <1>6, <2>2 DEF Stable
    <3>2. TrimEnd(v) \in Text
      BY TrimSplit
    <3>3. TrimEnd(u \o v) = u \o TrimEnd(v)
      BY <1>4, TrimJoined
    <3> QED BY <1>4, <3>1, <3>2, <3>3
  <2> QED BY <2>1, <2>2
<1> HIDE DEF t, out
<1>8. /\ e.tokens = d.tokens /\ e.emitted = d.emitted \o out /\ e.window_start = d.window_start
      /\ e.window_emitted = d.window_emitted + TextLen(out) /\ e.out = out
  BY <1>1 DEF DecoderType
<1>9. TextLen(u \o out) = TextLen(u) + TextLen(out) /\ TextLen(out) \in Nat
  BY <1>7, TextLenJoined
<1>10. d.emitted \o out = a \o (u \o out) /\ d.emitted \o out \in Text
  <2>1. (a \o u) \o out = a \o (u \o out)
    <3>1. Regroups(a, u, out)
      BY <1>4, <1>7, TextRegroups
    <3> QED BY <3>1 DEF Regroups
  <2>2. a \o u \in Text
    BY <1>4, Texts
  <2>3. (a \o u) \o out \in Text
    BY <1>7, <2>2, Texts
  <2> QED BY <1>4, <2>1, <2>3
<1>11. d.window_emitted + TextLen(out) \in Nat
  BY <1>4, <1>5, <1>9
<1>12. e \in DecoderType
  BY <1>1, <1>7, <1>10, <1>11 DEF DecoderType
<1>13. Settled(e) = a /\ WindowText(e) = t
  BY <1>3, <1>8 DEF Settled, WindowText, t
<1>14. DecoderOK(e)
  BY <1>1, <1>4, <1>7, <1>8, <1>9, <1>10, <1>12, <1>13 DEF DecoderOK, Windowed
<1>15. is_char_boundary(t, d.window_emitted)
  BY <1>4, <1>6
<1> QED BY <1>7, <1>8, <1>14, <1>15 DEF t, out

\* push keeps the decoder's state, and slices at a boundary.
LEMMA PushOK ==
  ASSUME NEW d, DecoderOK(d), NEW token \in Tokens, Intact(push(d, token))
  PROVE  LET e == push(d, token)
         IN  /\ DecoderOK(e) /\ e.tokens = Append(d.tokens, token)
             /\ e.out \in Text /\ e.emitted = d.emitted \o e.out
             /\ SlicesAt(d, token)
<1>1. PICK b : b = [d EXCEPT !.tokens = Append(@, token)]
  OBVIOUS
<1>2. PICK c : c = Reanchored(b)
  OBVIOUS
<1>3. d \in DecoderType
  BY DEF DecoderOK, Windowed
<1>4. b.tokens = Append(d.tokens, token) /\ b.emitted = d.emitted
  BY <1>1, <1>3 DEF DecoderType
<1>5. Partly(b)
  BY <1>1, PushStarts
<1>6. PICK t, out : /\ t = WindowText(c)
                    /\ out = IF TextLen(t) <= c.window_emitted THEN << >>
                             ELSE Stable(From(t, c.window_emitted))
  OBVIOUS
<1>7. PICK e : e = [c EXCEPT !.window_emitted = @ + TextLen(out), !.emitted = @ \o out, !.out = out]
  OBVIOUS
<1>8. push(d, token) = e
  BY <1>1, <1>2, <1>6, <1>7 DEF push
<1>9. Partly(c) /\ c.tokens = b.tokens /\ c.emitted = b.emitted
  <2>1. Windowed(d)
    BY DEF DecoderOK
  <2>2. c \in DecoderType
    BY <1>1, <1>2, <2>1, TokenAdded DEF Extended, Windowed
  <2>3. e.tokens = c.tokens /\ e.window_start = c.window_start
    BY <1>7, <2>2 DEF DecoderType
  <2>4. Intact(c)
    BY <1>8, <2>3 DEF Intact
  <2> QED BY <1>2, <1>5, <2>4, WindowMoves
<1>10. SlicesAt(d, token) = (TextLen(t) > c.window_emitted => is_char_boundary(t, c.window_emitted))
  BY <1>1, <1>2, <1>6 DEF SlicesAt
<1>11. /\ DecoderOK(e) /\ out \in Text /\ e.out = out
       /\ e.tokens = c.tokens /\ e.emitted = c.emitted \o out
       /\ TextLen(t) > c.window_emitted => is_char_boundary(t, c.window_emitted)
  BY <1>9, <1>6, <1>7, PushEnds
<1> QED BY <1>4, <1>9, <1>8, <1>10, <1>11

-----------------------------------------------------------------------------
(* flush.                                                                   *)

LEMMA WholeSeq ==
  ASSUME NEW x \in Text
  PROVE  SubSeq(x, 1, Len(x)) = x
  BY Empties, CutJoined DEF Text

LEMMA CommonPrefix ==
  ASSUME NEW p \in Text, NEW z \in Text
  PROVE  LongestCommonPrefix({p \o z, p}) = p
<1>1. PICK t, C : t = p \o z /\ C = CommonPrefixes({t, p})
  OBVIOUS
<1>2. t \in Text /\ IsPrefix(p, t) /\ Len(p) \in Nat /\ Len(t) \in Nat
  BY <1>1, Texts
<1>3. \A q : q \in C <=> /\ q \in Prefixes(t) \cup Prefixes(p)
                         /\ IsPrefix(q, t) /\ IsPrefix(q, p)
  BY <1>1 DEF CommonPrefixes
<1>4. p \in C
  <2>1. SubSeq(p, 1, Len(p)) = p /\ Len(p) \in 0..Len(p)
    BY <1>2, WholeSeq
  <2>2. p \in Prefixes(p)
    BY <2>1 DEF Prefixes
  <2>3. IsPrefix(p, p)
    BY <1>2 DEF IsPrefix
  <2> QED BY <1>2, <1>3, <2>2, <2>3
<1>5. ASSUME NEW q \in C
      PROVE  q \in Text /\ Len(q) <= Len(p) /\ (Len(q) = Len(p) => q = p)
  <2>1. q \in Prefixes(t) \cup Prefixes(p) /\ IsPrefix(q, p)
    BY <1>3
  <2>2. q \in Text
    <3>1. CASE q \in Prefixes(t)
      <4>1. PICK i \in 0..Len(t) : q = SubSeq(t, 1, i)
        BY <3>1 DEF Prefixes
      <4> QED BY <1>2, <4>1, CutAt DEF Text
    <3>2. CASE q \in Prefixes(p)
      <4>1. PICK i \in 0..Len(p) : q = SubSeq(p, 1, i)
        BY <3>2 DEF Prefixes
      <4> QED BY <4>1, CutAt DEF Text
    <3> QED BY <2>1, <3>1, <3>2
  <2>3. Len(q) <= Len(p) /\ SubSeq(q, 1, Len(q)) = SubSeq(p, 1, Len(q))
    BY <2>1 DEF IsPrefix
  <2>4. SubSeq(q, 1, Len(q)) = q /\ SubSeq(p, 1, Len(p)) = p
    BY <2>2, WholeSeq
  <2> QED BY <2>2, <2>3, <2>4
<1>6. PICK m : m = CHOOSE longest \in C : \A other \in C : Len(other) <= Len(longest)
  OBVIOUS
<1>7. m \in C /\ \A other \in C : Len(other) <= Len(m)
  <2>1. \A other \in C : Len(other) <= Len(p)
    BY <1>5
  <2> QED BY <1>4, <1>6, <2>1
<1>8. Len(p) <= Len(m) /\ Len(m) <= Len(p) /\ Len(m) \in Nat
  <2>1. m \in Text
    BY <1>5, <1>7
  <2> QED BY <1>4, <1>5, <1>7, <2>1, Texts
<1>9. m = p
  BY <1>2, <1>5, <1>7, <1>8
<1> QED BY <1>1, <1>6, <1>9 DEF LongestCommonPrefix

LEMMA LongestPrefix ==
  ASSUME NEW t \in Text, NEW p \in Text
  PROVE  Len(LongestCommonPrefix({t, p})) \in 0..Len(t)
<1>1. PICK C : C = CommonPrefixes({t, p})
  OBVIOUS
<1>2. Len(t) \in Nat /\ Len(p) \in Nat
  BY Texts
<1>3. \A q : q \in C <=> /\ q \in Prefixes(t) \cup Prefixes(p)
                         /\ IsPrefix(q, t) /\ IsPrefix(q, p)
  BY <1>1 DEF CommonPrefixes
<1>4. << >> \in C
  <2>1. SubSeq(t, 1, 0) = << >> /\ 0 \in 0..Len(t)
    BY <1>2 DEF Text
  <2>2. << >> \in Prefixes(t)
    BY <2>1 DEF Prefixes
  <2>3. PICK o : o = << >>
    OBVIOUS
  <2>4. o \in Text /\ o \o t = t /\ o \o p = p
    BY <2>3, Texts
  <2>5. IsPrefix(o, o \o t) /\ IsPrefix(o, o \o p)
    BY <2>4, Texts
  <2> QED BY <1>3, <2>2, <2>3, <2>4, <2>5
<1>5. ASSUME NEW q \in C PROVE Len(q) \in 0..Len(t)
  <2>1. q \in Prefixes(t) \cup Prefixes(p) /\ IsPrefix(q, t)
    BY <1>3
  <2>2. Len(q) <= Len(t)
    BY <2>1 DEF IsPrefix
  <2>3. Len(q) \in Nat
    <3>1. CASE q \in Prefixes(t)
      <4>1. PICK i \in 0..Len(t) : q = SubSeq(t, 1, i)
        BY <3>1 DEF Prefixes
      <4> QED BY <1>2, <4>1, CutAt DEF Text
    <3>2. CASE q \in Prefixes(p)
      <4>1. PICK i \in 0..Len(p) : q = SubSeq(p, 1, i)
        BY <3>2 DEF Prefixes
      <4> QED BY <1>2, <4>1, CutAt DEF Text
    <3> QED BY <2>1, <3>1, <3>2
  <2> QED BY <1>2, <2>2, <2>3
<1>6. PICK best \in C : \A other \in C : Len(other) <= Len(best)
  <2>1. PICK D : D = {Len(t) - Len(q) : q \in C}
    OBVIOUS
  <2>2. D \in SUBSET Nat
    <3>1. \A q \in C : Len(t) - Len(q) \in Nat
      BY <1>2, <1>5
    <3> QED BY <2>1, <3>1
  <2>3. D # {}
    BY <1>4, <2>1
  <2>4. PICK e \in D : \A k \in D : e <= k
    BY <2>2, <2>3, LeastOf
  <2>5. PICK m \in C : e = Len(t) - Len(m)
    BY <2>1
  <2>6. ASSUME NEW other \in C PROVE Len(other) <= Len(m)
    <3>1. Len(t) - Len(m) <= Len(t) - Len(other)
      BY <2>1, <2>4, <2>5
    <3>2. Len(m) \in Nat /\ Len(other) \in Nat
      BY <1>2, <1>5
    <3> QED BY <1>2, <3>1, <3>2
  <2> QED BY <2>6
<1>7. PICK m : m = CHOOSE longest \in C : \A other \in C : Len(other) <= Len(longest)
  OBVIOUS
<1>8. m \in C
  BY <1>6, <1>7
<1>9. LongestCommonPrefix({t, p}) = m
  BY <1>1, <1>7 DEF LongestCommonPrefix
<1> QED BY <1>5, <1>8, <1>9

LEMMA FlushTypes ==
  ASSUME NEW d, Windowed(d)
  PROVE  LET e == flush(d)
         IN  Windowed(e) /\ e.tokens = d.tokens /\ e.out \in Text /\ Intact(e) = Intact(d)
<1>1. d \in DecoderType /\ d.tokens \in Seq(Tokens) /\ d.emitted \in Text
  BY DEF Windowed, DecoderType
<1>2. PICK full, p : full = decode(d.tokens) /\ p = d.emitted
  OBVIOUS
<1>3. full \in Text /\ p \in Text
  BY <1>1, <1>2, DecodeText
<1>4. PICK i : i = Len(LongestCommonPrefix({full, p}))
  OBVIOUS
<1>5. PICK z : z = SubSeq(full, i + 1, Len(full))
  OBVIOUS
<1>6. z \in Text
  <2>1. i \in 0..Len(full)
    BY <1>3, <1>4, LongestPrefix
  <2> QED BY <1>3, <1>5, <2>1, CutAt DEF Text
<1>7. PICK e : e = IF z = << >> THEN [d EXCEPT !.out = << >>]
                   ELSE [d EXCEPT !.emitted = full, !.out = z,
                                  !.window_emitted = @ + TextLen(z)]
  OBVIOUS
<1>8. flush(d) = e
  BY <1>2, <1>4, <1>5, <1>7 DEF flush
<1>9. TextLen(z) \in Nat /\ << >> \in Text
  BY <1>6, TextLenOf, Texts
<1>10. d.window_emitted + TextLen(z) \in Nat
  BY <1>1, <1>9 DEF DecoderType
<1>11. /\ e \in DecoderType /\ e.tokens = d.tokens /\ e.window_start = d.window_start
       /\ e.out \in Text
  BY <1>1, <1>3, <1>6, <1>7, <1>9, <1>10 DEF DecoderType
<1>12. Windowed(e) /\ Intact(e) = Intact(d)
  BY <1>11 DEF Windowed, Intact
<1> QED BY <1>8, <1>11, <1>12

LEMMA FlushOK ==
  ASSUME NEW d, DecoderOK(d), Intact(d)
  PROVE  LET e == flush(d)
         IN  /\ Windowed(e) /\ e.tokens = d.tokens /\ e.out \in Text
             /\ e.emitted = decode(d.tokens) /\ e.emitted = d.emitted \o e.out
<1>1. Windowed(d) /\ d \in DecoderType /\ d.emitted \in Text
  BY DEF DecoderOK, Windowed, DecoderType
<1>2. PICK full, p : full = decode(d.tokens) /\ p = d.emitted
  OBVIOUS
<1>3. full \in Text /\ Starts(p, full) /\ p \in Text
  BY <1>1, <1>2, DecoderEmits
<1>4. PICK z \in Text : full = p \o z
  BY <1>3 DEF Starts
<1>5. LongestCommonPrefix({full, p}) = p
  BY <1>3, <1>4, CommonPrefix
<1>6. SubSeq(full, Len(p) + 1, Len(full)) = z
  BY <1>3, <1>4, CutJoined DEF Text
<1>7. PICK e : e = IF z = << >> THEN [d EXCEPT !.out = << >>]
                   ELSE [d EXCEPT !.emitted = full, !.out = z,
                                  !.window_emitted = @ + TextLen(z)]
  OBVIOUS
<1>8. flush(d) = e
  BY <1>2, <1>5, <1>6, <1>7 DEF flush
<1>9. TextLen(z) \in Nat /\ << >> \in Text /\ p \o << >> = p
  BY <1>3, TextLenOf, Texts
<1>10. CASE z = << >>
  <2>1. e = [d EXCEPT !.out = << >>]
    BY <1>7, <1>10
  <2>2. /\ e \in DecoderType /\ e.tokens = d.tokens /\ e.window_start = d.window_start
        /\ e.emitted = d.emitted /\ e.out = << >>
    BY <1>1, <1>9, <2>1 DEF DecoderType
  <2>3. full = p
    BY <1>4, <1>9, <1>10
  <2>4. Windowed(e)
    BY <1>1, <2>2 DEF Windowed
  <2> QED BY <1>2, <1>8, <1>9, <2>2, <2>3, <2>4
<1>11. CASE z # << >>
  <2>1. e = [d EXCEPT !.emitted = full, !.out = z, !.window_emitted = @ + TextLen(z)]
    BY <1>7, <1>11
  <2>2. d.window_emitted + TextLen(z) \in Nat
    BY <1>1, <1>9 DEF DecoderType
  <2>3. /\ e \in DecoderType /\ e.tokens = d.tokens /\ e.window_start = d.window_start
        /\ e.emitted = full /\ e.out = z
    BY <1>1, <1>3, <2>1, <2>2 DEF DecoderType
  <2>4. Windowed(e)
    BY <1>1, <2>3 DEF Windowed
  <2> QED BY <1>2, <1>4, <1>8, <2>3, <2>4
<1> QED BY <1>10, <1>11

LEMMA NewDecoderTypes ==
  /\ Windowed(NewDecoder) /\ NewDecoder.tokens = << >> /\ NewDecoder.emitted = << >>
  /\ << >> \in Seq(Tokens)
<1>1. << >> \in Seq(Tokens) /\ << >> \in Text
  BY Texts
<1>2. PICK d : d = NewDecoder
  OBVIOUS
<1>3. d.tokens = << >> /\ d.emitted = << >> /\ d.window_start = 0
  BY <1>2 DEF NewDecoder
<1>4. d \in DecoderType
  BY <1>1, <1>2 DEF NewDecoder, DecoderType
<1>5. Windowed(d)
  BY <1>1, <1>3, <1>4 DEF Windowed
<1> QED BY <1>1, <1>2, <1>3, <1>5

LEMMA NewDecoderOK ==
  /\ DecoderOK(NewDecoder) /\ NewDecoder.tokens = << >> /\ NewDecoder.emitted = << >>
  /\ << >> \in Seq(Tokens)
<1>1. PICK d : d = NewDecoder
  OBVIOUS
<1>2. /\ d.tokens = << >> /\ d.emitted = << >> /\ d.window_start = 0 /\ d.window_emitted = 0
      /\ << >> \in Seq(Tokens) /\ << >> \in Text
  BY <1>1, DecodeNothing, Texts DEF NewDecoder
<1>3. d \in DecoderType
  BY <1>1, <1>2 DEF NewDecoder, DecoderType
<1>4. Windowed(d)
  BY <1>2, <1>3 DEF Windowed
<1>5. Settled(d) = << >> /\ WindowText(d) = << >>
  <2>1. /\ SubSeq(<< >>, 1, 0) = << >> /\ SubSeq(<< >>, 0 + 1, 0) = << >>
        /\ Len(<< >>) = 0
    OBVIOUS
  <2> QED BY <1>2, <2>1, DecodeNothing DEF Settled, WindowText
<1>6. ~EndsOpen(<< >>)
  BY DEF EndsOpen
<1>7. TrimEnd(<< >>) = << >> /\ TextLen(<< >>) = 0 /\ << >> \o << >> = << >>
  BY <1>2, <1>6, TrimKeeps, TextLenOf, Texts
<1> QED BY <1>1, <1>2, <1>4, <1>5, <1>6, <1>7 DEF DecoderOK

-----------------------------------------------------------------------------
(* Stop strings.                                                            *)

\* s is in the middle of t.
Around(t, s, a, b) == t = (a \o s) \o b

LEMMA OccursAt ==
  ASSUME NEW t \in Text, NEW s \in Text, Occurs(t, s)
  PROVE  \E a, b \in Text : Around(t, s, a, b)
<1>1. PICK i \in 1..Len(t) - Len(s) + 1 : SubSeq(t, i, i + Len(s) - 1) = s
  BY DEF Occurs, Positions
<1>2. Len(t) \in Nat /\ Len(s) \in Nat
  BY Texts
<1>3. PICK j, k : j = i - 1 /\ k = i + Len(s) - 1
  OBVIOUS
<1>4. j \in 0..Len(t) /\ k \in 0..Len(t) /\ j <= k /\ j + 1 = i
  BY <1>2, <1>3
<1>5. PICK a, b : a = SubSeq(t, 1, j) /\ b = SubSeq(t, k + 1, Len(t))
  OBVIOUS
<1>6. SubSeq(t, 1, k) = a \o SubSeq(t, j + 1, k)
  BY <1>4, <1>5, CutTwice DEF Text
<1>7. SubSeq(t, j + 1, k) = s
  BY <1>1, <1>3, <1>4
<1>8. a \in Text
  BY <1>4, <1>5, CutAt DEF Text
<1>9. b \in Text /\ t = SubSeq(t, 1, k) \o b
  BY <1>4, <1>5, CutAt DEF Text
<1>10. Around(t, s, a, b)
  BY <1>6, <1>7, <1>9 DEF Around
<1> QED BY <1>8, <1>9, <1>10

LEMMA OccursIn ==
  ASSUME NEW t \in Text, NEW s \in Text, NEW a \in Text, NEW b \in Text, Around(t, s, a, b)
  PROVE  Occurs(t, s)
<1>1. PICK n, m, u : n = Len(a) /\ m = Len(s) /\ u = a \o s
  OBVIOUS
<1>2. /\ n \in Nat /\ m \in Nat /\ Len(b) \in Nat /\ u \in Text /\ Len(u) = n + m
      /\ t = u \o b /\ Len(t) = n + m + Len(b)
  BY <1>1, Texts DEF Around
<1>3. n + 1 \in 1..Len(t) - m + 1 /\ (n + 1) + m - 1 = n + m
  BY <1>2
<1>4. SubSeq(t, 1, n + m) = u
  BY <1>2, CutJoined DEF Text
<1>5. SubSeq(u, n + 1, n + m) = s
  <2>1. SubSeq(a \o s, Len(a) + 1, Len(a \o s)) = s
    BY CutJoined DEF Text
  <2>2. Len(a \o s) = n + m
    BY <1>1, <1>2
  <2> QED BY <1>1, <2>1, <2>2
<1>6. SubSeq(t, n + 1, n + m) = s
  <2>1. n \in 0..Len(t) /\ n + m \in 0..Len(t) /\ n <= n + m
    BY <1>2
  <2>2. PICK p, q : p = SubSeq(t, 1, n) /\ q = SubSeq(t, n + 1, n + m)
    OBVIOUS
  <2>3. PICK k : k = n + m
    OBVIOUS
  <2>4. SubSeq(t, 1, k) = p \o SubSeq(t, n + 1, k) /\ SubSeq(t, n + 1, k) \in Text
    BY <2>1, <2>2, <2>3, CutTwice DEF Text
  <2>5. u = p \o q /\ q \in Text
    BY <1>4, <2>2, <2>3, <2>4
  <2>6. p \in Text /\ Len(p) = n
    BY <2>1, <2>2, CutAt DEF Text
  <2>7. SubSeq(u, n + 1, n + m) = q
    BY <1>2, <2>5, <2>6, CutJoined DEF Text
  <2> QED BY <1>5, <2>2, <2>7
<1>7. SubSeq(t, n + 1, (n + 1) + Len(s) - 1) = s
  BY <1>1, <1>3, <1>6
<1>8. n + 1 \in Positions(t, s)
  BY <1>1, <1>3, <1>7 DEF Positions
<1> QED BY <1>8 DEF Occurs

\* What occurs in a part occurs in the whole.
LEMMA OccursOnwards ==
  ASSUME NEW pre \in Text, NEW t \in Text, NEW s \in Text, Occurs(t, s)
  PROVE  Occurs(pre \o t, s)
<1>1. PICK a \in Text, b \in Text : Around(t, s, a, b)
  BY OccursAt
<1>2. pre \o t \in Text /\ pre \o a \in Text /\ a \o s \in Text
  BY <1>1, Texts
<1>3. pre \o ((a \o s) \o b) = (pre \o (a \o s)) \o b
  <2>1. PICK x : x = a \o s
    OBVIOUS
  <2>2. x \in Text
    BY <1>2, <2>1
  <2>3. Regroups(pre, x, b)
    BY <2>2, TextRegroups
  <2> QED BY <2>1, <2>3 DEF Regroups
<1>4. (pre \o a) \o s = pre \o (a \o s)
  <2>1. Regroups(pre, a, s)
    BY TextRegroups
  <2> QED BY <2>1 DEF Regroups
<1>5. Around(pre \o t, s, pre \o a, b)
  BY <1>1, <1>3, <1>4 DEF Around
<1> QED BY <1>2, <1>5, OccursIn

\* An end of the text no shorter than s is enough to see s when it is completed.
LEMMA OccursInEnd ==
  ASSUME NEW pre \in Text, NEW buffer \in Text, NEW x \in Text, NEW s \in Text,
         ~Occurs(pre \o buffer, s), pre = << >> \/ TextLen(buffer) >= TextLen(s),
         Occurs((pre \o buffer) \o x, s)
  PROVE  Occurs(buffer \o x, s)
<1>1. PICK e : e = pre \o buffer
  OBVIOUS
<1>2. e \in Text /\ e \o x \in Text
  BY <1>1, Texts
<1>3. Occurs(e \o x, s)
  BY <1>1
<1>4. PICK a \in Text, b \in Text : Around(e \o x, s, a, b)
  BY <1>2, <1>3, OccursAt
<1>5. PICK u : u = a \o s
  OBVIOUS
<1>6. u \in Text /\ e \o x = u \o b
  BY <1>4, <1>5, Texts DEF Around
<1>7. Len(e) \in Nat /\ Len(u) \in Nat /\ Len(pre) \in Nat /\ Len(a) \in Nat
  BY <1>2, <1>6, Texts
<1>8. ~(Len(u) <= Len(e))
  <2> SUFFICES ASSUME Len(u) <= Len(e) PROVE FALSE
    OBVIOUS
  <2>1. Overlap(u, b, e, x)
    BY <1>6 DEF Overlap
  <2>2. \E z \in Text : Between(u, b, e, x, z)
    BY <1>2, <1>6, <2>1, TextNested
  <2>3. PICK z \in Text : e = u \o z
    BY <2>2 DEF Between
  <2>4. Around(e, s, a, z)
    BY <1>5, <2>3 DEF Around
  <2>5. Occurs(e, s)
    BY <1>2, <2>4, OccursIn
  <2> QED BY <1>1, <2>5
<1>9. PICK z \in Text : u = e \o z /\ x = z \o b
  <2>1. Overlap(e, x, u, b)
    BY <1>6, <1>7, <1>8 DEF Overlap
  <2>2. \E z \in Text : Between(e, x, u, b, z)
    BY <1>2, <1>6, <2>1, TextNested
  <2> QED BY <2>2 DEF Between
<1>10. PICK r : r = buffer \o z
  OBVIOUS
<1>11. r \in Text /\ a \o s = pre \o r
  <2>1. Regroups(pre, buffer, z)
    BY TextRegroups
  <2>2. r \in Text
    BY <1>10, Texts
  <2> QED BY <1>1, <1>5, <1>9, <1>10, <2>1, <2>2 DEF Regroups
<1>12. CASE Len(pre) <= Len(a)
  <2>1. Overlap(pre, r, a, s)
    BY <1>11, <1>12 DEF Overlap
  <2>2. \E c \in Text : Between(pre, r, a, s, c)
    BY <1>11, <2>1, TextNested
  <2>3. PICK c \in Text : r = c \o s
    BY <2>2 DEF Between
  <2>4. buffer \o x = r \o b
    <3>1. Regroups(buffer, z, b)
      BY TextRegroups
    <3> QED BY <1>9, <1>10, <3>1 DEF Regroups
  <2>5. Around(buffer \o x, s, c, b)
    BY <2>3, <2>4 DEF Around
  <2>6. buffer \o x \in Text
    BY Texts
  <2> QED BY <2>5, <2>6, OccursIn
<1>13. CASE Len(a) < Len(pre)
  <2>1. Overlap(a, s, pre, r)
    BY <1>7, <1>11, <1>13 DEF Overlap
  <2>2. \E c \in Text : Between(a, s, pre, r, c)
    BY <1>11, <2>1, TextNested
  <2>3. PICK c \in Text : pre = a \o c /\ s = c \o r
    BY <2>2 DEF Between
  <2>4. c # << >> /\ pre # << >>
    <3>1. c = << >> => pre = a
      BY <2>3, Texts
    <3>2. pre # a
      BY <1>7, <1>13
    <3>3. pre # << >>
      BY <1>7, <1>13, Texts
    <3> QED BY <3>1, <3>2, <3>3
  <2>5. TextLen(s) = TextLen(c) + TextLen(r) /\ TextLen(c) \in Nat /\ TextLen(c) # 0
    BY <1>11, <2>3, <2>4, TextLenJoined, TextLenOf
  <2>6. TextLen(r) = TextLen(buffer) + TextLen(z) /\ TextLen(buffer) \in Nat /\ TextLen(z) \in Nat
    BY <1>10, TextLenJoined
  <2>7. TextLen(buffer) >= TextLen(s)
    BY <2>4
  <2> QED BY <2>5, <2>6, <2>7
<1>14. Len(pre) <= Len(a) \/ Len(a) < Len(pre)
  BY <1>7
<1> QED BY <1>12, <1>13, <1>14

LEMMA Bounded ==
  ASSUME NEW n \in Nat, NEW f \in [1..n -> Nat]
  PROVE  \E b \in Nat : \A i \in 1..n : f[i] <= b
<1> DEFINE Good == {k \in Nat : k <= n => \E b \in Nat : \A i \in 1..k : f[i] <= b}
<1>1. 0 \in Good
  OBVIOUS
<1>2. ASSUME NEW k \in Nat, k \in Good PROVE k + 1 \in Good
  <2> SUFFICES ASSUME k + 1 <= n PROVE \E b \in Nat : \A i \in 1..k + 1 : f[i] <= b
    OBVIOUS
  <2>1. PICK b \in Nat : \A i \in 1..k : f[i] <= b
    BY <1>2
  <2>2. k + 1 \in 1..n /\ f[k + 1] \in Nat /\ \A i \in 1..k : i \in 1..n
    OBVIOUS
  <2>3. PICK c : c = b + f[k + 1]
    OBVIOUS
  <2>4. c \in Nat /\ b <= c /\ f[k + 1] <= c
    BY <2>2, <2>3
  <2>5. ASSUME NEW i \in 1..k + 1 PROVE f[i] <= c
    <3>1. CASE i = k + 1
      BY <2>4, <3>1
    <3>2. CASE i # k + 1
      <4>1. i \in 1..k
        BY <3>2
      <4>2. f[i] <= b /\ f[i] \in Nat
        BY <2>1, <2>2, <4>1
      <4> QED BY <2>4, <4>2
    <3> QED BY <3>1, <3>2
  <2> QED BY <2>4, <2>5
<1>3. n \in Good
  <2>1. \A k \in Nat : k \in Good => k + 1 \in Good
    BY <1>2
  <2> HIDE DEF Good
  <2> QED BY <1>1, <2>1, NatInductionOn
<1> QED BY <1>3

MatcherType == [sequences : Seq(Text), buffer : Text, found : BOOLEAN]

LEMMA MaxLenBounds ==
  ASSUME NEW m \in MatcherType
  PROVE  /\ max_len(m) \in Nat
         /\ \A s \in Range(m.sequences) : s \in Text /\ max_len(m) >= TextLen(s)
<1>1. PICK q, n : q = m.sequences /\ n = Len(q)
  OBVIOUS
<1>2. q \in Seq(Text) /\ n \in Nat /\ DOMAIN q = 1..n /\ \A i \in 1..n : q[i] \in Text
  BY <1>1 DEF MatcherType
<1>3. PICK f : f = [i \in 1..n |-> TextLen(q[i])]
  OBVIOUS
<1>4. f \in [1..n -> Nat]
  BY <1>2, <1>3, TextLenOf
<1>5. PICK b \in Nat : \A i \in 1..n : f[i] <= b
  BY <1>2, <1>4, Bounded
<1>6. Range(q) = {q[i] : i \in 1..n}
  BY <1>2 DEF Range
<1>7. PICK D : D = {0} \cup {TextLen(s) : s \in Range(q)}
  OBVIOUS
<1>8. \A s \in Range(q) : s \in Text /\ TextLen(s) \in 0..b
  <2>1. ASSUME NEW i \in 1..n PROVE q[i] \in Text /\ TextLen(q[i]) \in 0..b
    <3>1. f[i] = TextLen(q[i]) /\ f[i] \in Nat /\ f[i] <= b
      BY <1>3, <1>4, <1>5
    <3> QED BY <1>2, <3>1
  <2> QED BY <1>6, <2>1
<1>9. D \in SUBSET (0..b) /\ D # {}
  <2>1. 0 \in 0..b
    OBVIOUS
  <2> QED BY <1>7, <1>8, <2>1
<1>10. Max(D) \in D /\ \A y \in D : Max(D) >= y
  BY <1>9, MaxOfNats
<1>11. max_len(m) = Max(D)
  BY <1>1, <1>7 DEF max_len
<1>12. \A s \in Range(q) : TextLen(s) \in D
  BY <1>7
<1>13. Max(D) \in Nat
  <2>1. \A y \in 0..b : y \in Nat
    OBVIOUS
  <2> QED BY <1>9, <1>10, <2>1
<1> QED BY <1>1, <1>8, <1>10, <1>11, <1>12, <1>13

\* The buffer is an end of the text e, long enough for every stop string.
Covers(m, pre, e) ==
  e = pre \o m.buffer /\ (pre = << >> \/ TextLen(m.buffer) >= max_len(m))
MatcherOK(m, e) ==
  /\ m \in MatcherType
  /\ m.sequences # << >> => \E pre \in Text : Covers(m, pre, e)

HasStop(q, e) == \E s \in Range(q) : Occurs(e, s)

\* feed sees a stop string exactly when there is one.
LEMMA FeedOK ==
  ASSUME NEW m, NEW e \in Text, MatcherOK(m, e), ~HasStop(m.sequences, e), NEW x \in Text
  PROVE  /\ MatcherOK(feed(m, x), e \o x) /\ feed(m, x).sequences = m.sequences
         /\ feed(m, x).found = HasStop(m.sequences, e \o x)
<1>1. m \in MatcherType /\ m.buffer \in Text /\ m.sequences \in Seq(Text)
  BY DEF MatcherOK, MatcherType
<1>2. PICK n : n = feed(m, x)
  OBVIOUS
<1>3. CASE m.sequences = << >>
  <2>1. n = [m EXCEPT !.found = FALSE]
    BY <1>2, <1>3 DEF feed
  <2>2. n \in MatcherType /\ n.sequences = m.sequences /\ n.found = FALSE
    BY <1>1, <2>1 DEF MatcherType
  <2>3. ~HasStop(m.sequences, e \o x)
    BY <1>3 DEF HasStop, Range
  <2>4. n.found = HasStop(m.sequences, e \o x)
    BY <2>2, <2>3 DEF HasStop
  <2>5. MatcherOK(n, e \o x)
    BY <1>3, <2>2 DEF MatcherOK
  <2> QED BY <1>2, <2>2, <2>4, <2>5
<1>4. CASE m.sequences # << >> /\ x = << >>
  <2>1. n = [m EXCEPT !.found = FALSE]
    BY <1>2, <1>4 DEF feed
  <2>2. n \in MatcherType /\ n.sequences = m.sequences /\ n.buffer = m.buffer /\ n.found = FALSE
    BY <1>1, <2>1 DEF MatcherType
  <2>3. e \o x = e
    BY <1>4, Texts
  <2>4. max_len(n) = max_len(m)
    BY <2>2 DEF max_len
  <2>5. PICK pre \in Text : Covers(m, pre, e)
    BY <1>4 DEF MatcherOK
  <2>6. Covers(n, pre, e \o x)
    BY <2>2, <2>3, <2>4, <2>5 DEF Covers
  <2>7. n.found = HasStop(m.sequences, e \o x)
    BY <2>2, <2>3 DEF HasStop
  <2>8. MatcherOK(n, e \o x)
    BY <2>2, <2>6 DEF MatcherOK
  <2> QED BY <1>2, <2>2, <2>7, <2>8
<1>5. CASE m.sequences # << >> /\ x # << >>
  <2>1. PICK b, found : b = m.buffer \o x /\ found = HasStop(m.sequences, b)
    OBVIOUS
  <2>2. n = [m EXCEPT !.found = found, !.buffer = Retained(m, b)]
    BY <1>2, <1>5, <2>1 DEF feed, HasStop
  <2>3. b \in Text /\ found \in BOOLEAN
    BY <1>1, <2>1, Texts DEF HasStop
  <2>4. PICK pre \in Text : Covers(m, pre, e)
    BY <1>5 DEF MatcherOK
  <2>5. e = pre \o m.buffer /\ (pre = << >> \/ TextLen(m.buffer) >= max_len(m))
    BY <2>4 DEF Covers
  <2>6. e \o x = pre \o b
    <3>1. PICK c : c = m.buffer
      OBVIOUS
    <3>2. (pre \o c) \o x = pre \o (c \o x)
      <4>1. c \in Text
        BY <1>1, <3>1
      <4>2. Regroups(pre, c, x)
        BY <4>1, TextRegroups
      <4> QED BY <4>2 DEF Regroups
    <3> QED BY <2>1, <2>5, <3>1, <3>2
  <2>7. max_len(m) \in Nat /\ \A s \in Range(m.sequences) : s \in Text /\ max_len(m) >= TextLen(s)
    BY <1>1, MaxLenBounds
  <2>8. found = HasStop(m.sequences, e \o x)
    <3>1. ASSUME NEW s \in Range(m.sequences), Occurs(b, s) PROVE Occurs(e \o x, s)
      BY <2>3, <2>6, <2>7, <3>1, OccursOnwards
    <3>2. ASSUME NEW s \in Range(m.sequences), Occurs(e \o x, s) PROVE Occurs(b, s)
      <4>1. PICK c : c = m.buffer
        OBVIOUS
      <4>2. c \in Text /\ s \in Text /\ TextLen(c) \in Nat /\ TextLen(s) \in Nat
        BY <1>1, <2>7, <4>1, TextLenOf
      <4>3. pre = << >> \/ TextLen(c) >= TextLen(s)
        BY <2>5, <2>7, <4>1, <4>2
      <4>4. ~Occurs(pre \o c, s)
        BY <2>5, <4>1 DEF HasStop
      <4>5. Occurs((pre \o c) \o x, s)
        BY <2>5, <3>2, <4>1
      <4>6. Occurs(c \o x, s)
        BY <4>2, <4>3, <4>4, <4>5, OccursInEnd
      <4> QED BY <2>1, <4>1, <4>6
    <3> QED BY <2>1, <3>1, <3>2 DEF HasStop
  <2>9. PICK r : r = Retained(m, b)
    OBVIOUS
  <2>10. TextLen(b) \in Nat
    BY <2>3, TextLenOf
  <2>11. r \in Text /\ \E p \in Text : b = p \o r /\ (p = << >> \/ TextLen(r) >= max_len(m))
    <3>1. CASE TextLen(b) > 2 * max_len(m)
      <4>1. PICK k : k = TextLen(b) - max_len(m)
        OBVIOUS
      <4>2. k \in Nat /\ r = From(b, k)
        BY <2>7, <2>9, <2>10, <3>1, <4>1 DEF Retained
      <4>3. r \in Text
        BY <2>3, <4>2, SliceSplits
      <4>4. PICK p \in Text : b = p \o r /\ TextLen(p) <= k
        BY <2>3, <4>2, SliceSplits
      <4>5. TextLen(b) = TextLen(p) + TextLen(r) /\ TextLen(p) \in Nat /\ TextLen(r) \in Nat
        BY <4>3, <4>4, TextLenJoined
      <4>6. TextLen(r) >= max_len(m)
        BY <2>7, <4>1, <4>4, <4>5
      <4> QED BY <4>3, <4>4, <4>6
    <3>2. CASE ~(TextLen(b) > 2 * max_len(m))
      <4>1. r = b
        BY <2>9, <3>2 DEF Retained
      <4>2. << >> \in Text /\ << >> \o b = b
        BY <2>3, Texts
      <4> QED BY <2>3, <4>1, <4>2
    <3> QED BY <3>1, <3>2
  <2>12. PICK p \in Text : b = p \o r /\ (p = << >> \/ TextLen(r) >= max_len(m))
    BY <2>11
  <2>13. /\ n \in MatcherType /\ n.sequences = m.sequences /\ n.buffer = r /\ n.found = found
    BY <1>1, <2>2, <2>3, <2>9, <2>11 DEF MatcherType
  <2>14. max_len(n) = max_len(m)
    BY <2>13 DEF max_len
  <2>15. \E u \in Text : Covers(n, u, e \o x)
    <3>1. CASE p = << >>
      <4>1. b = r
        BY <2>11, <2>12, <3>1, Texts
      <4>2. TextLen(m.buffer) >= max_len(m) => TextLen(r) >= max_len(m)
        <5>1. PICK c : c = m.buffer
          OBVIOUS
        <5>2. TextLen(c \o x) = TextLen(c) + TextLen(x) /\ TextLen(c) \in Nat /\ TextLen(x) \in Nat
          <6>1. c \in Text
            BY <1>1, <5>1
          <6> QED BY <6>1, TextLenJoined
        <5>3. TextLen(r) = TextLen(c) + TextLen(x)
          BY <2>1, <4>1, <5>1, <5>2
        <5>4. max_len(m) \in Nat
          BY <2>7
        <5> QED BY <5>1, <5>2, <5>3, <5>4
      <4>3. Covers(n, pre, e \o x)
        BY <2>5, <2>6, <2>13, <2>14, <4>1, <4>2 DEF Covers
      <4> QED BY <4>3
    <3>2. CASE p # << >>
      <4>1. pre \o p \in Text
        BY Texts
      <4>2. (pre \o p) \o r = pre \o (p \o r)
        <5>1. Regroups(pre, p, r)
          BY <2>11, TextRegroups
        <5> QED BY <5>1 DEF Regroups
      <4>3. e \o x = (pre \o p) \o r
        BY <2>6, <2>12, <4>2
      <4>4. TextLen(r) >= max_len(m)
        BY <2>12, <3>2
      <4>5. Covers(n, pre \o p, e \o x)
        BY <2>13, <2>14, <4>3, <4>4 DEF Covers
      <4> QED BY <4>1, <4>5
    <3> QED BY <3>1, <3>2
  <2> QED BY <1>2, <2>8, <2>13, <2>15 DEF MatcherOK
<1> QED BY <1>3, <1>4, <1>5

LEMMA NewMatcherOK ==
  ASSUME NEW q \in Seq(Text)
  PROVE  /\ MatcherOK(NewMatcher(q), << >>) /\ NewMatcher(q) \in MatcherType
         /\ NewMatcher(q).sequences = q /\ NewMatcher(q).found = FALSE
<1>1. PICK m : m = NewMatcher(q)
  OBVIOUS
<1>2. m.sequences = q /\ m.buffer = << >> /\ m.found = FALSE
  BY <1>1 DEF NewMatcher
<1>3. << >> \in Text /\ << >> \o << >> = << >>
  BY Texts
<1>4. m \in MatcherType
  BY <1>1, <1>3 DEF NewMatcher, MatcherType
<1>5. Covers(m, << >>, << >>)
  BY <1>2, <1>3 DEF Covers
<1>6. MatcherOK(m, << >>)
  BY <1>3, <1>4, <1>5 DEF MatcherOK
<1> QED BY <1>1, <1>2, <1>4, <1>6

\* There is nothing to find in no text.
LEMMA NothingFound ==
  ASSUME NEW q \in Seq(Text), \A i \in DOMAIN q : q[i] # << >>
  PROVE  ~HasStop(q, << >>)
<1> SUFFICES ASSUME NEW s \in Range(q), Occurs(<< >>, s) PROVE FALSE
  BY DEF HasStop
<1>1. s \in Text /\ s # << >>
  BY DEF Range
<1>2. Len(s) \in Nat /\ Len(s) # 0 /\ Len(<< >>) = 0
  BY <1>1, Texts
<1>3. PICK i \in 1..0 - Len(s) + 1 : TRUE
  BY <1>2 DEF Occurs, Positions
<1> QED BY <1>2, <1>3

\* A text cut at a stop string is a beginning of it.
LEMMA CutAtStop ==
  ASSUME NEW m \in MatcherType, NEW t \in Text
  PROVE  truncate_at_stop(m, t) \in Text /\ Starts(truncate_at_stop(m, t), t)
<1>1. PICK D : D = UNION {Positions(t, s) : s \in Range(m.sequences)}
  OBVIOUS
<1>2. PICK r : r = IF D = {} THEN t ELSE SubSeq(t, 1, Min(D) - 1)
  OBVIOUS
<1>3. truncate_at_stop(m, t) = r
  BY <1>1, <1>2 DEF truncate_at_stop
<1>4. CASE D = {}
  <2>1. r = t /\ << >> \in Text /\ t \o << >> = t
    BY <1>2, <1>4, Texts
  <2> QED BY <1>3, <2>1 DEF Starts
<1>5. CASE D # {}
  <2>1. Len(t) \in Nat
    BY Texts
  <2>2. \A s \in Range(m.sequences) : Len(s) \in Nat
    <3>1. m.sequences \in Seq(Text)
      BY DEF MatcherType
    <3>2. \A s \in Range(m.sequences) : s \in Text
      BY <3>1 DEF Range
    <3> QED BY <3>2, Texts
  <2>3. D \in SUBSET (1..Len(t) + 1)
    <3>1. ASSUME NEW s \in Range(m.sequences), NEW i \in Positions(t, s)
          PROVE  i \in 1..Len(t) + 1
      BY <2>1, <2>2 DEF Positions
    <3> QED BY <1>1, <3>1
  <2>4. PICK e \in D : \A k \in D : e <= k
    <3>1. D \in SUBSET Nat
      BY <2>1, <2>3
    <3> QED BY <1>5, <3>1, LeastOf
  <2>5. Min(D) \in D
    BY <2>4, Zenon DEF Min
  <2>6. PICK k, i : k = Min(D) /\ i = k - 1
    OBVIOUS
  <2>7. i \in 0..Len(t)
    <3>1. k \in 1..Len(t) + 1
      BY <2>3, <2>5, <2>6
    <3> QED BY <2>1, <2>6, <3>1
  <2>8. r = SubSeq(t, 1, i)
    BY <1>2, <1>5, <2>6
  <2>9. r \in Text /\ SubSeq(t, i + 1, Len(t)) \in Text /\ t = r \o SubSeq(t, i + 1, Len(t))
    BY <2>7, <2>8, CutAt DEF Text
  <2> QED BY <1>3, <2>9 DEF Starts
<1> QED BY <1>4, <1>5

LEMMA StartsItself ==
  ASSUME NEW p \in Text
  PROVE  Starts(p, p)
<1>1. << >> \in Text /\ p \o << >> = p
  BY Texts
<1> QED BY <1>1 DEF Starts

LEMMA StartsPrefix ==
  ASSUME NEW p \in Text, NEW q \in Text, NEW t, Starts(p, q), Starts(q, t)
  PROVE  IsPrefix(p, t)
<1>1. PICK y \in Text : q = p \o y
  BY DEF Starts
<1>2. PICK z \in Text : t = q \o z
  BY DEF Starts
<1>3. t = p \o (y \o z)
  <2>1. Regroups(p, y, z)
    BY TextRegroups
  <2> QED BY <1>1, <1>2, <2>1 DEF Regroups
<1>4. PICK w : w = y \o z
  OBVIOUS
<1>5. w \in Text
  BY <1>4, Texts
<1> QED BY <1>3, <1>4, <1>5, Texts

LEMMA WholeWithoutStop ==
  ASSUME NEW m, NEW t, ~HasStop(m.sequences, t)
  PROVE  truncate_at_stop(m, t) = t
<1>1. \A s \in Range(m.sequences) : Positions(t, s) = {}
  BY DEF HasStop, Occurs
<1>2. UNION {Positions(t, s) : s \in Range(m.sequences)} = {}
  BY <1>1
<1> QED BY <1>2 DEF truncate_at_stop

LEMMA Shifted ==
  ASSUME NEW e \in Text, NEW x \in Text, NEW i \in 1..Len(x) + 1, NEW j \in 0..Len(x)
  PROVE  SubSeq(e \o x, Len(e) + i, Len(e) + j) = SubSeq(x, i, j)
<1>1. PICK n, t : n = Len(e) /\ t = e \o x
  OBVIOUS
<1>2. /\ n \in Nat /\ Len(x) \in Nat /\ t \in Text /\ Len(t) = n + Len(x)
      /\ \A k \in 1..Len(x) : t[n + k] = x[k]
  BY <1>1, Texts, Joined DEF Text
<1>3. SubSeq(t, n + i, n + j) = [k \in 1..(n + j) - (n + i) + 1 |-> t[(n + i) + k - 1]]
  BY <1>2 DEF Text
<1>4. SubSeq(x, i, j) = [k \in 1..j - i + 1 |-> x[i + k - 1]]
  BY <1>2 DEF Text
<1>5. (n + j) - (n + i) + 1 = j - i + 1
  BY <1>2
<1>6. ASSUME NEW k \in 1..j - i + 1 PROVE t[(n + i) + k - 1] = x[i + k - 1]
  <2>1. i + k - 1 \in 1..Len(x) /\ (n + i) + k - 1 = n + (i + k - 1)
    BY <1>2
  <2> QED BY <1>2, <2>1
<1> QED BY <1>1, <1>3, <1>4, <1>5, <1>6

LEMMA MinOf ==
  ASSUME NEW D \in SUBSET Int, NEW x \in D, \A y \in D : x <= y
  PROVE  Min(D) = x
<1>1. ASSUME NEW z \in D, \A y \in D : z <= y PROVE z = x
  <2>1. z <= x /\ x <= z /\ z \in Int /\ x \in Int
    BY <1>1
  <2> QED BY <2>1
<1>2. PICK z : z = CHOOSE w \in D : \A y \in D : w <= y
  OBVIOUS
<1>3. z \in D /\ \A y \in D : z <= y
  BY <1>2
<1> QED BY <1>1, <1>2, <1>3 DEF Min

\* Where a stop string first occurs in two texts end to end: inside the first
\* of them or across, or where it first occurs in the second.
LEMMA CutPieces ==
  ASSUME NEW m \in MatcherType, NEW e \in Text, NEW x \in Text
  PROVE  LET c == truncate_at_stop(m, e \o x)
             r == truncate_at_stop(m, x)
         IN  IsPrefix(c, e \o r) /\ (c = e \o r \/ Len(c) < Len(e))
<1>1. PICK n, t, S : n = Len(e) /\ t = e \o x /\ S = Range(m.sequences)
  OBVIOUS
<1>2. PICK D, B : /\ D = UNION {Positions(t, s) : s \in S}
                  /\ B = UNION {Positions(x, s) : s \in S}
  OBVIOUS
<1>3. PICK c, r : c = truncate_at_stop(m, t) /\ r = truncate_at_stop(m, x)
  OBVIOUS
<1>4. /\ c = (IF D = {} THEN t ELSE SubSeq(t, 1, Min(D) - 1))
      /\ r = (IF B = {} THEN x ELSE SubSeq(x, 1, Min(B) - 1))
  BY <1>1, <1>2, <1>3 DEF truncate_at_stop
<1>5. n \in Nat /\ Len(x) \in Nat /\ t \in Text /\ Len(t) = n + Len(x)
  BY <1>1, Texts
<1>6. \A s \in S : s \in Text /\ Len(s) \in Nat
  BY <1>1, MaxLenBounds, Texts
<1>7. /\ \A k \in D : k \in Nat /\ 1 <= k /\ k <= Len(t) + 1
      /\ \A k \in B : k \in Nat /\ 1 <= k /\ k <= Len(x) + 1
  BY <1>2, <1>5, <1>6 DEF Positions
<1>8. ASSUME NEW i \in Nat, i >= 1 PROVE i \in B <=> n + i \in D
  <2> SUFFICES ASSUME NEW s \in S PROVE i \in Positions(x, s) <=> n + i \in Positions(t, s)
    BY <1>2
  <2>1. i \in 1..Len(x) - Len(s) + 1 <=> n + i \in 1..Len(t) - Len(s) + 1
    BY <1>5, <1>6, <1>8
  <2>2. ASSUME i \in 1..Len(x) - Len(s) + 1
        PROVE  SubSeq(t, n + i, (n + i) + Len(s) - 1) = SubSeq(x, i, i + Len(s) - 1)
    <3>1. PICK j : j = i + Len(s) - 1
      OBVIOUS
    <3>2. i \in 1..Len(x) + 1 /\ j \in 0..Len(x) /\ (n + i) + Len(s) - 1 = n + j
      BY <1>5, <1>6, <2>2, <3>1
    <3> QED BY <1>1, <3>1, <3>2, Shifted
  <2> QED BY <2>1, <2>2 DEF Positions
<1>9. r \in Text /\ Starts(r, x) /\ c \in Text
  BY <1>3, <1>5, CutAtStop
<1>10. CASE D = {}
  <2>1. B = {}
    BY <1>7, <1>8, <1>10
  <2>2. c = e \o r
    BY <1>1, <1>4, <1>10, <2>1
  <2>3. IsPrefix(c, c)
    BY <1>9, StartsItself, StartsPrefix
  <2> QED BY <1>1, <1>3, <2>2, <2>3
<1>11. CASE D # {}
  <2>1. PICK k \in D : \A y \in D : k <= y
    <3>1. D \in SUBSET Nat
      BY <1>7
    <3> QED BY <1>11, <3>1, LeastOf
  <2>2. Min(D) = k /\ k \in Nat /\ 1 <= k /\ k <= Len(t) + 1
    <3>1. D \in SUBSET Int
      BY <1>7
    <3> QED BY <1>7, <2>1, <3>1, MinOf
  <2>3. PICK i : i = k - 1
    OBVIOUS
  <2>4. i \in 0..Len(t) /\ c = SubSeq(t, 1, i)
    BY <1>4, <1>5, <1>11, <2>2, <2>3
  <2>5. CASE k <= n
    <3>1. i \in 0..n /\ n \in 0..Len(t) /\ i <= n
      BY <1>5, <2>2, <2>3, <2>5
    <3>2. SubSeq(t, 1, n) = e
      BY <1>1, CutJoined DEF Text
    <3>3. PICK v : v = SubSeq(t, i + 1, n)
      OBVIOUS
    <3>4. v \in Text /\ e = c \o v /\ Len(c) = i
      <4>1. v \in Text /\ SubSeq(t, 1, n) = SubSeq(t, 1, i) \o v
        BY <1>5, <2>4, <3>1, <3>3, CutTwice DEF Text
      <4>2. Len(c) = i
        BY <1>5, <2>4, CutAt DEF Text
      <4> QED BY <2>4, <3>2, <4>1, <4>2
    <3>5. Starts(c, e) /\ Starts(e, e \o r)
      BY <1>9, <3>4 DEF Starts
    <3>6. IsPrefix(c, e \o r)
      BY <1>9, <3>5, StartsPrefix
    <3>7. Len(c) < n
      BY <1>5, <2>2, <2>3, <2>5, <3>4
    <3> QED BY <1>1, <1>3, <3>6, <3>7
  <2>6. CASE ~(k <= n)
    <3>1. PICK b : b = k - n
      OBVIOUS
    <3>2. b \in Nat /\ b >= 1 /\ n + b = k
      BY <1>5, <2>2, <2>6, <3>1
    <3>3. b \in B
      BY <1>8, <2>1, <3>2
    <3>4. ASSUME NEW y \in B PROVE b <= y
      <4>1. y \in Nat /\ y >= 1
        BY <1>7
      <4>2. n + y \in D
        BY <1>8, <4>1
      <4> QED BY <1>5, <2>1, <3>2, <4>1, <4>2
    <3>5. Min(B) = b
      <4>1. B \in SUBSET Int
        BY <1>7
      <4> QED BY <3>3, <3>4, <4>1, MinOf
    <3>6. PICK j : j = b - 1
      OBVIOUS
    <3>7. j \in 0..Len(x) /\ i = n + j /\ 1 \in 1..Len(x) + 1 /\ n + 1 = n + 1
      BY <1>5, <1>7, <2>3, <3>2, <3>3, <3>6
    <3>8. r = SubSeq(x, 1, j)
      BY <1>4, <3>3, <3>5, <3>6
    <3>9. SubSeq(t, n + 1, n + j) = r
      BY <1>1, <3>7, <3>8, Shifted
    <3>10. SubSeq(t, 1, n) = e
      BY <1>1, CutJoined DEF Text
    <3>11. n \in 0..Len(t) /\ n <= i
      BY <1>5, <3>7
    <3>12. SubSeq(t, 1, i) = SubSeq(t, 1, n) \o SubSeq(t, n + 1, i)
      BY <1>5, <2>4, <3>11, CutTwice DEF Text
    <3>13. c = e \o r
      BY <2>4, <3>7, <3>9, <3>10, <3>12
    <3>14. IsPrefix(c, c)
      BY <1>9, StartsItself, StartsPrefix
    <3> QED BY <1>1, <1>3, <3>13, <3>14
  <2> QED BY <2>5, <2>6
<1> QED BY <1>10, <1>11

-----------------------------------------------------------------------------
(* The invariant of a request.                                              *)

EventType == [kind : {"Token", "Stop", "Length", "Cancelled", "Timeout"}, n : Nat]

\* A terminal event reports no more tokens than were sent before it.
Sent(s) ==
  /\ s \in Seq(EventType)
  /\ \A i \in 1..Len(s) : IF is_terminal(s[i]) THEN s[i].n < i ELSE i <= MaxTokens
AllTokens(s) == Len(s) <= MaxTokens /\ \A i \in 1..Len(s) : ~is_terminal(s[i])

\* While the engine holds the sender it has sent tokens only.
StreamOK ==
  /\ Sent(events) /\ sender \in {"none", "held", "dropped"}
  /\ sender = "none" => events = << >>
  /\ sender # "dropped" => AllTokens(events)

LocalsOK ==
  /\ req \in Requests /\ taken \in 0..Len(events)
  /\ finish \in {"Stop", "Length", "Cancelled", "Timeout"}
  /\ Windowed(decoder) /\ text \in Text
  /\ matcher \in MatcherType /\ matcher.sequences = req.stop
  /\ completion_tokens \in 0..MaxTokens

\* The tokens are counted, but for one that broke a stream off.
Counts == completion_tokens = Len(decoder.tokens)
Broken ==
  /\ Streams /\ ~EndedByDone /\ ~matcher.found
  /\ completion_tokens = Len(decoder.tokens) - 1
CountOK == phase \in {"answered", "gone"} \/ Counts \/ (phase = "closing" /\ Broken)

PhaseOK ==
  /\ phase \in {"arrived", "receiving", "closing", "answered", "gone"}
  /\ (phase = "answered") = (reply # Pending)

FreshOK ==
  phase = "arrived" =>
    /\ sender = "none" /\ taken = 0 /\ text = << >>
    /\ decoder = NewDecoder /\ matcher = NewMatcher(req.stop)

\* In the loop, every event taken was a token.
LoopOK ==
  phase = "receiving" =>
    /\ MatcherOK(matcher, decoder.emitted)
    /\ ~matcher.found /\ ~HasStop(req.stop, decoder.emitted)
    /\ text = decoder.emitted /\ taken = completion_tokens
    /\ ~EndedByDone

FoundOK == matcher.found => HasStop(req.stop, decoder.emitted)

\* What takes nothing of the window.
RequestInd ==
  StreamOK /\ LocalsOK /\ CountOK /\ PhaseOK /\ FreshOK /\ LoopOK /\ FoundOK /\ UsageExact

\* And what is said while no space is stripped where the window begins.
DecodingOK == phase = "receiving" /\ Intact(decoder) => DecoderOK(decoder)
Whole ==
  IF EndedByDone THEN decode(decoder.tokens) ELSE TrimEnd(decode(decoder.tokens))
ClosingOK == phase = "closing" /\ ~Streams /\ Intact(decoder) => text = Whole

TextInd == DecodingOK /\ ClosingOK /\ StreamExact /\ AnswerTextExact

ApiInd == RequestInd /\ TextInd

-----------------------------------------------------------------------------
(* The request and its answers.                                             *)

LEMMA RequestType ==
  ASSUME NEW r \in Requests
  PROVE  /\ r.stop \in Seq(Text) /\ r.endpoint \in {"chat", "completions"}
         /\ r.endpoint = "chat" => r.echo = FALSE
<1>1. r \in ChatCompletionRequest \/ r \in CompletionRequest
  BY RequestsAssumption
<1>2. CASE r \in ChatCompletionRequest
  BY <1>2 DEF ChatCompletionRequest
<1>3. CASE r \in CompletionRequest
  BY <1>3 DEF CompletionRequest
<1> QED BY <1>1, <1>2, <1>3

LEMMA ValidStops ==
  ASSUME NEW r, Valid(r)
  PROVE  \A i \in DOMAIN r.stop : r.stop[i] # << >>
<1>1. PICK p : p = build_params(r)
  OBVIOUS
<1>2. p.stop_sequences = r.stop
  BY <1>1 DEF build_params
<1>3. validate(p)
  BY <1>1 DEF Valid
<1>4. \A i \in DOMAIN p.stop_sequences : p.stop_sequences[i] # << >>
  BY <1>3 DEF validate
<1> QED BY <1>2, <1>4

LEMMA ErrorReplies ==
  ASSUME NEW e \in Refusals \cup {"InvalidRequest", "Tokenizer"}
  PROVE  ErrorReply(e) # Pending /\ ErrorReply(e).status # 200
<1>1. status(e) \in {400, 429, 503}
  BY DEF Refusals, status
<1>2. PICK a : a = ErrorReply(e)
  OBVIOUS
<1>3. a.status = status(e)
  BY <1>2 DEF ErrorReply
<1>4. Pending.status = 0
  BY DEF Pending
<1>5. a.status # 0 /\ a.status # 200
  BY <1>1, <1>3
<1> QED BY <1>2, <1>4, <1>5

-----------------------------------------------------------------------------
(* What the engine sends.                                                   *)

LEMMA EventAdded ==
  ASSUME NEW s, Sent(s), NEW e \in EventType,
         IF is_terminal(e) THEN e.n <= Len(s) ELSE Len(s) < MaxTokens
  PROVE  /\ Sent(Append(s, e)) /\ Len(Append(s, e)) = Len(s) + 1 /\ Len(s) \in Nat
         /\ \A i \in 1..Len(s) : Append(s, e)[i] = s[i]
         /\ AllTokens(s) /\ ~is_terminal(e) => AllTokens(Append(s, e))
<1>1. s \in Seq(EventType) /\ MaxTokens \in Nat
  BY BoundAssumption DEF Sent
<1>2. PICK t, n : t = Append(s, e) /\ n = Len(s)
  OBVIOUS
<1>3. /\ t \in Seq(EventType) /\ Len(t) = n + 1 /\ n \in Nat
      /\ t[n + 1] = e /\ \A i \in 1..n : t[i] = s[i]
  BY <1>1, <1>2
<1>4. \A i \in 1..n + 1 : i \in 1..n \/ i = n + 1
  BY <1>3
<1>5. e.n \in Nat
  BY DEF EventType
<1>6. ASSUME NEW i \in 1..Len(t)
      PROVE  IF is_terminal(t[i]) THEN t[i].n < i ELSE i <= MaxTokens
  <2>1. CASE i \in 1..n
    <3>1. t[i] = s[i]
      BY <1>3, <2>1
    <3>2. IF is_terminal(s[i]) THEN s[i].n < i ELSE i <= MaxTokens
      BY <1>2, <2>1 DEF Sent
    <3> QED BY <3>1, <3>2
  <2>2. CASE i = n + 1
    <3>1. t[i] = e
      BY <1>3, <2>2
    <3>2. IF is_terminal(e) THEN e.n < i ELSE i <= MaxTokens
      BY <1>1, <1>2, <1>3, <1>5, <2>2
    <3> QED BY <3>1, <3>2
  <2> QED BY <1>3, <1>4, <2>1, <2>2
<1>7. Sent(t)
  BY <1>3, <1>6 DEF Sent
<1>8. ASSUME AllTokens(s), ~is_terminal(e) PROVE AllTokens(t)
  <2>1. Len(t) <= MaxTokens
    BY <1>1, <1>2, <1>3, <1>8
  <2>2. ASSUME NEW i \in 1..Len(t) PROVE ~is_terminal(t[i])
    <3>1. CASE i \in 1..n
      BY <1>2, <1>3, <1>8, <3>1 DEF AllTokens
    <3>2. CASE i = n + 1
      BY <1>3, <1>8, <3>2
    <3> QED BY <1>3, <1>4, <3>1, <3>2
  <2> QED BY <2>1, <2>2 DEF AllTokens
<1> QED BY <1>2, <1>3, <1>7, <1>8

\* t has the events of s, and perhaps more.
Onwards(s, t) ==
  Len(s) \in Nat /\ Len(t) \in Nat /\ Len(s) <= Len(t) /\ \A i \in 1..Len(s) : t[i] = s[i]

LEMMA EngineSteps ==
  ASSUME StreamOK, EngineSends \/ DropSender \/ Accept
  PROVE  StreamOK' /\ Onwards(events, events') /\ sender' # "none"
<1>1. events \in Seq(EventType) /\ Len(events) \in Nat /\ Sent(events) /\ MaxTokens \in Nat
  BY BoundAssumption DEF StreamOK, Sent
<1>2. Onwards(events, events)
  BY <1>1 DEF Onwards
<1>3. CASE DropSender
  <2>1. sender' = "dropped" /\ events' = events
    BY <1>3 DEF DropSender
  <2> QED BY <1>1, <1>2, <2>1 DEF StreamOK
<1>4. CASE Accept
  <2>1. sender = "none" /\ sender' = "held" /\ events' = events
    BY <1>4 DEF Accept
  <2> QED BY <1>1, <1>2, <2>1 DEF StreamOK
<1>5. CASE InBound /\ SendToken
  <2>1. sender = "held" /\ sender' = "held" /\ Len(events) < MaxTokens
    BY <1>5 DEF InBound, SendToken
  <2>2. PICK e : e = Token(Len(events))
    OBVIOUS
  <2>3. events' = Append(events, e)
    BY <1>5, <2>2 DEF SendToken
  <2>4. e \in EventType /\ ~is_terminal(e)
    BY <1>1, <2>2 DEF Token, EventType, is_terminal
  <2>5. AllTokens(events)
    BY <2>1 DEF StreamOK
  <2>6. PICK s : s = events
    OBVIOUS
  <2>7. /\ Sent(Append(s, e)) /\ Len(Append(s, e)) = Len(s) + 1 /\ Len(s) \in Nat
        /\ AllTokens(Append(s, e)) /\ \A i \in 1..Len(s) : Append(s, e)[i] = s[i]
    BY <1>1, <2>1, <2>4, <2>5, <2>6, EventAdded
  <2>8. Onwards(events, events')
    BY <2>3, <2>6, <2>7 DEF Onwards
  <2> QED BY <2>1, <2>3, <2>6, <2>7, <2>8 DEF StreamOK
<1>6. ASSUME NEW reason \in {"Stop", "Length"}, InBound /\ SendLast(reason)
      PROVE  StreamOK' /\ Onwards(events, events') /\ sender' # "none"
  <2>1. sender' = "dropped" /\ Len(events) < MaxTokens
    BY <1>6 DEF InBound, SendLast
  <2>2. PICK n, e, f : n = Len(events) /\ e = Token(n) /\ f = Done(reason, n + 1)
    OBVIOUS
  <2>3. e \in EventType /\ ~is_terminal(e)
    BY <1>1, <2>2 DEF Token, EventType, is_terminal
  <2>4. f \in EventType /\ is_terminal(f) /\ f.n = n + 1
    BY <1>1, <2>2 DEF Done, EventType, is_terminal
  <2>5. PICK s, t : s = events /\ t = Append(s, e)
    OBVIOUS
  <2>6. Sent(t) /\ Len(t) = n + 1 /\ \A i \in 1..n : t[i] = s[i]
    BY <1>1, <2>1, <2>2, <2>3, <2>5, EventAdded
  <2>7. /\ Sent(Append(t, f)) /\ Len(Append(t, f)) = n + 2
        /\ \A i \in 1..n + 1 : Append(t, f)[i] = t[i]
    <3>1. f.n <= Len(t)
      BY <1>1, <2>2, <2>4, <2>6
    <3>2. /\ Sent(Append(t, f)) /\ Len(Append(t, f)) = Len(t) + 1
          /\ \A i \in 1..Len(t) : Append(t, f)[i] = t[i]
      BY <2>4, <2>6, <3>1, EventAdded
    <3> QED BY <1>1, <2>2, <2>6, <3>2
  <2>8. events' = t \/ events' = Append(t, f)
    <3>1. s \o <<e, f>> = Append(Append(s, e), f)
      BY <1>1, <2>3, <2>4, <2>5
    <3> QED BY <1>6, <2>2, <2>5, <3>1 DEF SendLast
  <2>9. Onwards(events, events')
    <3>1. \A i \in 1..n : i \in 1..n + 1
      BY <1>1, <2>2
    <3>2. n <= n + 1 /\ n <= n + 2 /\ n \in Nat /\ n + 1 \in Nat /\ n + 2 \in Nat
      BY <1>1, <2>2
    <3> QED BY <2>2, <2>5, <2>6, <2>7, <2>8, <3>1, <3>2 DEF Onwards
  <2> QED BY <2>1, <2>6, <2>7, <2>8, <2>9 DEF StreamOK
<1>7. ASSUME NEW e \in EventType, is_terminal(e), e.n <= Len(events),
             sender' = "dropped", events' = Append(events, e)
      PROVE  StreamOK' /\ Onwards(events, events') /\ sender' # "none"
  <2>1. PICK s : s = events
    OBVIOUS
  <2>2. /\ Sent(Append(s, e)) /\ Len(Append(s, e)) = Len(s) + 1 /\ Len(s) \in Nat
        /\ \A i \in 1..Len(s) : Append(s, e)[i] = s[i]
    BY <1>1, <1>7, <2>1, EventAdded
  <2>3. Onwards(events, events')
    BY <1>7, <2>1, <2>2 DEF Onwards
  <2> QED BY <1>7, <2>1, <2>2, <2>3 DEF StreamOK
<1>8. CASE TimeOut
  <2>1. sender' = "dropped"
    BY <1>8 DEF TimeOut
  <2>2. CASE UNCHANGED events
    BY <1>1, <1>2, <2>1, <2>2 DEF StreamOK
  <2>3. ASSUME NEW n \in {0, Len(events)}, events' = Append(events, Done("Timeout", n))
        PROVE  StreamOK' /\ Onwards(events, events') /\ sender' # "none"
    <3>1. PICK e : e = Done("Timeout", n)
      OBVIOUS
    <3>2. e \in EventType /\ is_terminal(e) /\ e.n <= Len(events)
      BY <1>1, <3>1 DEF Done, EventType, is_terminal
    <3> QED BY <1>7, <2>1, <2>3, <3>1, <3>2
  <2> QED BY <1>8, <2>2, <2>3 DEF TimeOut
<1>9. CASE CancelStream
  <2>1. PICK e : e = Done("Cancelled", 0)
    OBVIOUS
  <2>2. sender' = "dropped" /\ events' = Append(events, e)
    BY <1>9, <2>1 DEF CancelStream
  <2>3. e \in EventType /\ is_terminal(e) /\ e.n <= Len(events)
    BY <1>1, <2>1 DEF Done, EventType, is_terminal
  <2> QED BY <1>7, <2>2, <2>3
<1> QED BY <1>3, <1>4, <1>5, <1>6, <1>8, <1>9 DEF EngineSends

-----------------------------------------------------------------------------
(* Steps that leave the handler's text alone.                               *)

LEMMA SameEnd ==
  ASSUME taken \in 0..Len(events), Onwards(events, events'), taken' = taken
  PROVE  taken' \in 0..Len(events') /\ EndedByDone' = EndedByDone
<1>1. Len(events) \in Nat /\ Len(events') \in Nat /\ Len(events) <= Len(events')
  BY DEF Onwards
<1>2. taken > 0 => events'[taken] = events[taken]
  <2>1. taken > 0 => taken \in 1..Len(events)
    BY <1>1
  <2> QED BY <2>1 DEF Onwards
<1> QED BY <1>1, <1>2 DEF EndedByDone

LEMMA SameText ==
  ASSUME ApiInd, Onwards(events, events'), Untouched
  PROVE  /\ LocalsOK' /\ FoundOK' /\ StreamExact' /\ Counts' = Counts /\ Broken' = Broken
         /\ EndedByDone' = EndedByDone /\ Whole' = Whole /\ Streams' = Streams
<1>1. /\ req' = req /\ taken' = taken /\ decoder' = decoder /\ matcher' = matcher
      /\ text' = text /\ completion_tokens' = completion_tokens /\ finish' = finish
  BY DEF Untouched
<1>2. LocalsOK /\ FoundOK /\ StreamExact
  BY DEF ApiInd, RequestInd, TextInd
<1>3. taken' \in 0..Len(events') /\ EndedByDone' = EndedByDone
  BY <1>1, <1>2, SameEnd DEF LocalsOK
<1>4. LocalsOK'
  BY <1>1, <1>2, <1>3 DEF LocalsOK
<1>5. FoundOK'
  BY <1>1, <1>2 DEF FoundOK
<1>6. Streams' = Streams
  BY <1>1 DEF Streams, handler
<1>7. StreamExact'
  BY <1>1, <1>2, <1>3, <1>6 DEF StreamExact
<1>8. Whole' = Whole
  BY <1>1, <1>3 DEF Whole
<1>9. Counts' = Counts /\ Broken' = Broken
  BY <1>1, <1>3, <1>6 DEF Counts, Broken
<1> QED BY <1>3, <1>4, <1>5, <1>6, <1>7, <1>8, <1>9

LEMMA SameStream ==
  ASSUME StreamOK, UNCHANGED streamVars
  PROVE  StreamOK' /\ Onwards(events, events')
<1>1. events' = events /\ sender' = sender
  BY DEF streamVars
<1>2. StreamOK'
  BY <1>1 DEF StreamOK
<1>3. Len(events) \in Nat
  BY DEF StreamOK, Sent
<1> QED BY <1>1, <1>2, <1>3 DEF Onwards

\* A step of the engine, or none.
LEMMA IdleKeeps ==
  ASSUME ApiInd, StreamOK', Onwards(events, events'), UNCHANGED handlerVars,
         phase = "arrived" => sender' = sender
  PROVE  ApiInd'
<1>1. /\ req' = req /\ taken' = taken /\ decoder' = decoder /\ matcher' = matcher
      /\ text' = text /\ completion_tokens' = completion_tokens /\ finish' = finish
      /\ phase' = phase /\ reply' = reply
  BY DEF handlerVars
<1>2. Untouched
  BY <1>1 DEF Untouched
<1>3. /\ LocalsOK' /\ FoundOK' /\ StreamExact' /\ Counts' = Counts /\ Broken' = Broken
      /\ EndedByDone' = EndedByDone /\ Whole' = Whole /\ Streams' = Streams
  BY <1>2, SameText
<1>4. PhaseOK' /\ FreshOK' /\ CountOK'
  <2>1. PhaseOK /\ FreshOK /\ CountOK
    BY DEF ApiInd, RequestInd
  <2>2. PhaseOK'
    BY <1>1, <2>1 DEF PhaseOK
  <2>3. FreshOK'
    BY <1>1, <2>1 DEF FreshOK
  <2>4. CountOK'
    BY <1>1, <1>3, <2>1 DEF CountOK
  <2> QED BY <2>2, <2>3, <2>4
<1>5. LoopOK'
  <2>1. LoopOK
    BY DEF ApiInd, RequestInd
  <2> QED BY <1>1, <1>3, <2>1 DEF LoopOK
<1>6. UsageExact'
  <2>1. UsageExact
    BY DEF ApiInd, RequestInd
  <2> QED BY <1>1, <1>3, <2>1 DEF UsageExact
<1>7. TextInd'
  <2>1. DecodingOK /\ ClosingOK /\ AnswerTextExact
    BY DEF ApiInd, TextInd
  <2>2. DecodingOK'
    BY <1>1, <2>1 DEF DecodingOK
  <2>3. ClosingOK'
    BY <1>1, <1>3, <2>1 DEF ClosingOK
  <2>4. AnswerTextExact'
    BY <1>1, <1>3, <2>1 DEF AnswerTextExact
  <2> QED BY <1>3, <2>2, <2>3, <2>4 DEF TextInd
<1>8. RequestInd'
  BY <1>3, <1>4, <1>5, <1>6 DEF RequestInd
<1> QED BY <1>7, <1>8 DEF ApiInd

\* Where the invariant says nothing of the text.
LEMMA QuietEnd ==
  ASSUME RequestInd', phase' \in {"answered", "gone"},
         phase' = "answered" => reply'.status # 200, StreamExact'
  PROVE  ApiInd'
<1>1. DecodingOK' /\ ClosingOK' /\ AnswerTextExact'
  BY DEF DecodingOK, ClosingOK, AnswerTextExact
<1> QED BY <1>1 DEF ApiInd, TextInd

LEMMA EngineKeeps ==
  ASSUME ApiInd, EngineSends \/ EngineLetsGo \/ Over
  PROVE  ApiInd'
<1>1. StreamOK /\ FreshOK
  BY DEF ApiInd, RequestInd
<1>2. CASE EngineSends
  <2>1. phase = "receiving" /\ UNCHANGED handlerVars
    BY <1>2 DEF EngineSends, HasRoom
  <2>2. StreamOK' /\ Onwards(events, events')
    BY <1>1, <1>2, EngineSteps
  <2> QED BY <2>1, <2>2, IdleKeeps
<1>3. CASE EngineLetsGo
  <2>1. DropSender /\ UNCHANGED handlerVars
    BY <1>3 DEF EngineLetsGo
  <2>2. StreamOK' /\ Onwards(events, events')
    BY <1>1, <2>1, EngineSteps
  <2>3. phase # "arrived"
    BY <1>1, <2>1 DEF DropSender, FreshOK
  <2> QED BY <2>1, <2>2, <2>3, IdleKeeps
<1>4. CASE Over
  <2>1. UNCHANGED streamVars /\ UNCHANGED handlerVars
    BY <1>4 DEF Over, apiVars
  <2>2. StreamOK' /\ Onwards(events, events')
    BY <1>1, <2>1, SameStream
  <2> QED BY <2>1, <2>2, IdleKeeps DEF streamVars
<1> QED BY <1>2, <1>3, <1>4

\* The handler answers with an error before it has taken any event.
LEMMA RefusalKeeps ==
  ASSUME ApiInd, UNCHANGED streamVars, Untouched,
         NEW e \in Refusals \cup {"InvalidRequest", "Tokenizer"}, Fail(e)
  PROVE  ApiInd'
<1>1. StreamOK' /\ Onwards(events, events')
  BY SameStream DEF ApiInd, RequestInd
<1>2. LocalsOK' /\ FoundOK' /\ StreamExact'
  BY <1>1, SameText
<1>3. phase' = "answered" /\ reply' # Pending /\ reply'.status # 200
  BY ErrorReplies DEF Fail
<1>4. PhaseOK' /\ FreshOK' /\ LoopOK' /\ UsageExact' /\ CountOK'
  BY <1>3 DEF PhaseOK, FreshOK, LoopOK, UsageExact, CountOK
<1>5. RequestInd'
  BY <1>1, <1>2, <1>4 DEF RequestInd
<1> QED BY <1>2, <1>3, <1>5, QuietEnd

LEMMA LeavingKeeps ==
  ASSUME ApiInd, Disconnect
  PROVE  ApiInd'
<1>1. /\ phase \in {"receiving", "closing"} /\ phase' = "gone" /\ Untouched
      /\ UNCHANGED streamVars /\ reply' = reply
  BY DEF Disconnect
<1>2. StreamOK' /\ Onwards(events, events')
  BY <1>1, SameStream DEF ApiInd, RequestInd
<1>3. LocalsOK' /\ FoundOK' /\ StreamExact'
  BY <1>1, <1>2, SameText
<1>4. PhaseOK' /\ FreshOK' /\ LoopOK' /\ UsageExact' /\ CountOK'
  <2>1. PhaseOK
    BY DEF ApiInd, RequestInd
  <2> QED BY <1>1, <2>1 DEF PhaseOK, FreshOK, LoopOK, UsageExact, CountOK
<1>5. RequestInd'
  BY <1>2, <1>3, <1>4 DEF RequestInd
<1> QED BY <1>1, <1>3, <1>5, QuietEnd

LEMMA GenerateKeeps ==
  ASSUME ApiInd, generate
  PROVE  ApiInd'
<1>1. /\ phase = "arrived" /\ Valid(req) /\ Accept /\ phase' = "receiving" /\ Untouched
      /\ reply' = reply
  BY DEF generate
<1>2. StreamOK' /\ Onwards(events, events')
  BY <1>1, EngineSteps DEF ApiInd, RequestInd
<1>3. LocalsOK' /\ FoundOK' /\ StreamExact' /\ EndedByDone' = EndedByDone /\ Counts' = Counts
  BY <1>1, <1>2, SameText
<1>4. /\ req' = req /\ taken' = taken /\ decoder' = decoder /\ matcher' = matcher
      /\ text' = text /\ completion_tokens' = completion_tokens
  BY <1>1 DEF Untouched
<1>5. PhaseOK' /\ FreshOK' /\ UsageExact' /\ CountOK' /\ Counts
  <2>1. PhaseOK /\ Counts
    BY <1>1 DEF ApiInd, RequestInd, CountOK
  <2> QED BY <1>1, <1>3, <2>1 DEF PhaseOK, FreshOK, UsageExact, CountOK
<1>6. taken = 0 /\ text = << >> /\ decoder = NewDecoder /\ matcher = NewMatcher(req.stop)
  BY <1>1 DEF ApiInd, RequestInd, FreshOK
<1>7. LoopOK'
  <2>1. req \in Requests /\ completion_tokens = Len(decoder.tokens)
    BY <1>5 DEF ApiInd, RequestInd, LocalsOK, Counts
  <2>2. req.stop \in Seq(Text)
    BY <2>1, RequestType
  <2>3. decoder.tokens = << >> /\ decoder.emitted = << >>
    BY <1>6, NewDecoderTypes
  <2>4. MatcherOK(matcher, << >>) /\ matcher.found = FALSE
    BY <1>6, <2>2, NewMatcherOK
  <2>5. ~HasStop(req.stop, << >>)
    <3>1. \A i \in DOMAIN req.stop : req.stop[i] # << >>
      BY <1>1, ValidStops
    <3> QED BY <2>2, <3>1, NothingFound
  <2>6. ~EndedByDone /\ completion_tokens = 0
    BY <1>6, <2>1, <2>3 DEF EndedByDone
  <2> QED BY <1>3, <1>4, <1>6, <2>3, <2>4, <2>5, <2>6 DEF LoopOK
<1>8. RequestInd'
  BY <1>2, <1>3, <1>5, <1>7 DEF RequestInd
<1>9. TextInd'
  <2>1. DecoderOK(decoder)
    BY <1>6, NewDecoderOK
  <2>2. DecodingOK' /\ ClosingOK' /\ AnswerTextExact'
    BY <1>1, <1>4, <2>1 DEF DecodingOK, ClosingOK, AnswerTextExact
  <2> QED BY <1>3, <2>2 DEF TextInd
<1> QED BY <1>8, <1>9 DEF ApiInd

LEMMA ClosedKeeps ==
  ASSUME ApiInd, ChannelClosed
  PROVE  ApiInd'
<1>1. /\ phase = "receiving" /\ phase' = "closing" /\ Untouched
      /\ UNCHANGED streamVars /\ reply' = reply
  BY DEF ChannelClosed
<1>2. StreamOK' /\ Onwards(events, events')
  BY <1>1, SameStream DEF ApiInd, RequestInd
<1>3. LocalsOK' /\ FoundOK' /\ StreamExact' /\ Whole' = Whole /\ Counts' = Counts
  BY <1>1, <1>2, SameText
<1>4. PhaseOK' /\ FreshOK' /\ LoopOK' /\ UsageExact' /\ CountOK'
  <2>1. PhaseOK /\ Counts
    BY <1>1 DEF ApiInd, RequestInd, CountOK
  <2> QED BY <1>1, <1>3, <2>1 DEF PhaseOK, FreshOK, LoopOK, UsageExact, CountOK
<1>5. RequestInd'
  BY <1>2, <1>3, <1>4 DEF RequestInd
<1>6. TextInd'
  <2>1. text' = text /\ decoder' = decoder
    BY <1>1 DEF Untouched
  <2>2. text = decoder.emitted /\ ~EndedByDone
    BY <1>1 DEF ApiInd, RequestInd, LoopOK
  <2>3. ASSUME Intact(decoder) PROVE text = Whole
    <3>1. DecoderOK(decoder)
      BY <1>1, <2>3 DEF ApiInd, TextInd, DecodingOK
    <3>2. decoder.emitted = TrimEnd(decode(decoder.tokens))
      BY <2>3, <3>1, DecoderEmits
    <3> QED BY <2>2, <3>2 DEF Whole
  <2>4. ClosingOK'
    BY <1>3, <2>1, <2>3 DEF ClosingOK
  <2>5. DecodingOK' /\ AnswerTextExact'
    BY <1>1 DEF DecodingOK, AnswerTextExact
  <2> QED BY <1>3, <2>4, <2>5 DEF TextInd
<1> QED BY <1>5, <1>6 DEF ApiInd

LEMMA AnswerKeeps ==
  ASSUME ApiInd, Answer
  PROVE  ApiInd'
<1>1. /\ phase = "closing" /\ phase' = "answered" /\ Untouched /\ UNCHANGED streamVars
      /\ reply' = [status |-> 200, text |-> Shown,
                   finish_reason |-> as_api_str(finish), usage |-> Usage]
  BY DEF Answer
<1>2. StreamOK' /\ Onwards(events, events')
  BY <1>1, SameStream DEF ApiInd, RequestInd
<1>3. /\ LocalsOK' /\ FoundOK' /\ StreamExact'
      /\ EndedByDone' = EndedByDone /\ Streams' = Streams
  BY <1>1, <1>2, SameText
<1>4. reply'.status = 200 /\ reply'.text = Shown /\ reply'.usage = Usage
  BY <1>1
<1>5. PhaseOK' /\ FreshOK' /\ LoopOK' /\ CountOK'
  <2>1. Pending.status = 0
    BY DEF Pending
  <2>2. reply' # Pending
    BY <1>4, <2>1
  <2> QED BY <1>1, <2>2 DEF PhaseOK, FreshOK, LoopOK, CountOK
<1>6. req' = req /\ decoder' = decoder /\ matcher' = matcher
  BY <1>1 DEF Untouched
<1>7. UsageExact'
  <2>1. Counts \/ Broken
    BY <1>1 DEF ApiInd, RequestInd, CountOK
  <2>2. /\ Usage.completion_tokens = completion_tokens
        /\ Usage.total_tokens = prompt_tokens + completion_tokens
    BY DEF Usage
  <2> QED BY <1>3, <1>4, <1>6, <2>1, <2>2 DEF UsageExact, Counts, Broken
<1>8. AnswerTextExact'
  <2> SUFFICES ASSUME ~Streams, Intact(decoder)
               PROVE  Shown = (IF req.echo THEN PromptText ELSE << >>)
                                 \o truncate_at_stop(matcher, Whole)
    BY <1>3, <1>4, <1>6 DEF AnswerTextExact, Whole
  <2>1. text = Whole
    BY <1>1 DEF ApiInd, TextInd, ClosingOK
  <2>2. req \in Requests /\ matcher \in MatcherType /\ text \in Text
    BY DEF ApiInd, RequestInd, LocalsOK
  <2>3. handler = "completions" \/ (handler = "collect_chat" /\ req.endpoint = "chat")
    BY <2>2, RequestType DEF Streams, handler
  <2>4. CASE handler = "completions"
    BY <2>1, <2>4 DEF Shown, CompletionResponse
  <2>5. CASE handler = "collect_chat" /\ req.endpoint = "chat"
    <3>1. req.echo = FALSE
      BY <2>2, <2>5, RequestType
    <3>2. PICK t : t = truncate_at_stop(matcher, text)
      OBVIOUS
    <3>3. t \in Text
      BY <2>2, <3>2, CutAtStop
    <3>4. << >> \o t = t
      BY <3>3, Texts
    <3> QED BY <2>1, <2>5, <3>1, <3>2, <3>4 DEF Shown, ChatCompletionResponse
  <2> QED BY <2>3, <2>4, <2>5
<1>9. RequestInd'
  BY <1>2, <1>3, <1>5, <1>7 DEF RequestInd
<1>10. TextInd'
  <2>1. DecodingOK' /\ ClosingOK'
    BY <1>1 DEF DecodingOK, ClosingOK
  <2> QED BY <1>3, <1>8, <2>1 DEF TextInd
<1> QED BY <1>9, <1>10 DEF ApiInd

-----------------------------------------------------------------------------
(* Steps that take an event.                                                *)

LEMMA Received ==
  ASSUME ApiInd, NEW terminal \in BOOLEAN, Receives(terminal)
  PROVE  /\ phase = "receiving" /\ taken' = taken + 1 /\ taken \in Nat
         /\ req' = req /\ Streams' = Streams /\ StreamOK'
         /\ taken' \in 0..Len(events') /\ taken' \in 1..Len(events)
         /\ EndedByDone' = terminal /\ is_terminal(events[taken']) = terminal
<1>1. /\ phase = "receiving" /\ taken < Len(events) /\ taken' = taken + 1
      /\ is_terminal(events[taken + 1]) = terminal /\ UNCHANGED streamVars /\ req' = req
  BY DEF Receives
<1>2. StreamOK /\ taken \in 0..Len(events)
  BY DEF ApiInd, RequestInd, LocalsOK
<1>3. Len(events) \in Nat
  BY <1>2 DEF StreamOK, Sent
<1>4. StreamOK' /\ events' = events
  BY <1>1, <1>2, SameStream DEF streamVars
<1>5. taken \in Nat /\ taken' \in 1..Len(events) /\ taken' \in 0..Len(events) /\ taken' > 0
  BY <1>1, <1>2, <1>3
<1>6. Streams' = Streams
  BY <1>1 DEF Streams, handler
<1>7. EndedByDone' = terminal
  BY <1>1, <1>4, <1>5 DEF EndedByDone
<1> QED BY <1>1, <1>4, <1>5, <1>6, <1>7

\* What the handler knows while it is in the loop.
LEMMA InLoop ==
  ASSUME ApiInd, phase = "receiving"
  PROVE  /\ (Intact(decoder) => DecoderOK(decoder)) /\ Windowed(decoder)
         /\ MatcherOK(matcher, decoder.emitted) /\ ~matcher.found
         /\ truncate_at_stop(matcher, decoder.emitted) = decoder.emitted
         /\ ~HasStop(req.stop, decoder.emitted)
         /\ text = decoder.emitted /\ taken = completion_tokens
         /\ completion_tokens = Len(decoder.tokens) /\ decoder.tokens \in Seq(Tokens)
         /\ decoder.emitted \in Text /\ req \in Requests
         /\ matcher.sequences = req.stop /\ completion_tokens <= MaxTokens
         /\ finish \in {"Stop", "Length", "Cancelled", "Timeout"} /\ reply = Pending
<1>1. LoopOK /\ LocalsOK /\ PhaseOK /\ Counts
  BY DEF ApiInd, RequestInd, CountOK
<1>2. decoder.tokens \in Seq(Tokens) /\ decoder.emitted \in Text
  BY <1>1 DEF LocalsOK, Windowed, DecoderType
<1>3. Intact(decoder) => DecoderOK(decoder)
  BY DEF ApiInd, TextInd, DecodingOK
<1>4. truncate_at_stop(matcher, decoder.emitted) = decoder.emitted
  BY <1>1, WholeWithoutStop DEF LoopOK, LocalsOK
<1>5. completion_tokens <= MaxTokens
  BY <1>1, BoundAssumption DEF LocalsOK
<1> QED BY <1>1, <1>2, <1>3, <1>4, <1>5 DEF LoopOK, LocalsOK, PhaseOK, Counts

LEMMA TokenKeeps ==
  ASSUME ApiInd, NEW token \in Tokens, TakeToken(token)
  PROVE  ApiInd'
<1>1. PICK d, m : d = push(decoder, token) /\ m = feed(matcher, d.out)
  OBVIOUS
<1>2. /\ Receives(FALSE) /\ decoder' = d /\ matcher' = m /\ text' = TextWith(m, d.out)
      /\ completion_tokens' = completion_tokens + 1 /\ reply' = reply
      /\ phase' = IF m.found THEN "closing" ELSE phase
      /\ finish' = IF m.found THEN "Stop" ELSE finish
  BY <1>1 DEF TakeToken
<1>3. /\ phase = "receiving" /\ taken' = taken + 1 /\ taken \in Nat
      /\ req' = req /\ Streams' = Streams /\ StreamOK'
      /\ taken' \in 0..Len(events') /\ taken' \in 1..Len(events)
      /\ ~EndedByDone' /\ ~is_terminal(events[taken'])
  BY <1>2, Received
<1>4. /\ Windowed(decoder) /\ MatcherOK(matcher, decoder.emitted)
      /\ ~HasStop(req.stop, decoder.emitted) /\ text = decoder.emitted
      /\ taken = completion_tokens /\ completion_tokens = Len(decoder.tokens)
      /\ decoder.tokens \in Seq(Tokens) /\ decoder.emitted \in Text /\ req \in Requests
      /\ matcher.sequences = req.stop
      /\ finish \in {"Stop", "Length", "Cancelled", "Timeout"} /\ reply = Pending
  BY <1>3, InLoop
<1>5. /\ Windowed(d) /\ d.tokens = Append(decoder.tokens, token)
      /\ d.out \in Text /\ d.emitted = decoder.emitted \o d.out
      /\ Intact(d) => Intact(decoder)
  BY <1>1, <1>4, PushTypes
<1>6. PICK e, x : e = decoder.emitted /\ x = d.out
  OBVIOUS
<1>7. e \in Text /\ x \in Text /\ d.emitted = e \o x /\ text = e /\ e \o x \in Text
  BY <1>4, <1>5, <1>6, Texts
<1>8. /\ MatcherOK(m, e \o x) /\ m.sequences = req.stop /\ m.found = HasStop(req.stop, e \o x)
  <2>1. MatcherOK(matcher, e) /\ ~HasStop(matcher.sequences, e) /\ m = feed(matcher, x)
    BY <1>1, <1>4, <1>6
  <2>2. /\ MatcherOK(feed(matcher, x), e \o x) /\ feed(matcher, x).sequences = matcher.sequences
        /\ feed(matcher, x).found = HasStop(matcher.sequences, e \o x)
    BY <1>7, <2>1, FeedOK
  <2> QED BY <1>4, <2>1, <2>2
<1>9. m \in MatcherType
  BY <1>8 DEF MatcherOK
<1>10. Len(d.tokens) = Len(decoder.tokens) + 1 /\ d.tokens \in Seq(Tokens)
  BY <1>4, <1>5
<1>11. taken + 1 <= MaxTokens
  BY <1>3 DEF ApiInd, RequestInd, StreamOK, Sent
<1>12. ASSUME Intact(d)
       PROVE  /\ DecoderOK(d) /\ d.emitted = TrimEnd(decode(d.tokens))
              /\ Starts(e \o x, decode(d.tokens))
  <2>1. DecoderOK(decoder)
    BY <1>3, <1>5, <1>12, InLoop
  <2>2. DecoderOK(d)
    BY <1>1, <1>12, <2>1, PushOK
  <2> QED BY <1>7, <1>12, <2>2, DecoderEmits
<1>13. text' = IF Streams /\ m.found THEN e \o truncate_at_stop(m, x) ELSE e \o x
  <2>1. handler \in {"completions", "chat_stream", "collect_chat"}
    BY DEF handler
  <2> QED BY <1>2, <1>6, <1>7, <2>1
          DEF TextWith, Streams, chat_stream, collect_chat, completions, Visible
<1>14. text' \in Text /\ Starts(text', e \o x)
  <2>1. CASE Streams /\ m.found
    <3>1. PICK r : r = truncate_at_stop(m, x)
      OBVIOUS
    <3>2. r \in Text /\ Starts(r, x)
      BY <1>7, <1>9, <3>1, CutAtStop
    <3>3. PICK z \in Text : x = r \o z
      BY <3>2 DEF Starts
    <3>4. e \o r \in Text
      BY <1>7, <3>2, Texts
    <3>5. (e \o r) \o z = e \o (r \o z)
      <4>1. Regroups(e, r, z)
        BY <1>7, <3>2, TextRegroups
      <4> QED BY <4>1 DEF Regroups
    <3>6. text' = e \o r
      BY <1>13, <2>1, <3>1
    <3> QED BY <3>3, <3>4, <3>5, <3>6 DEF Starts
  <2>2. CASE ~(Streams /\ m.found)
    BY <1>7, <1>13, <2>2, StartsItself
  <2> QED BY <2>1, <2>2
<1>15. LocalsOK'
  <2>1. finish' \in {"Stop", "Length", "Cancelled", "Timeout"}
    BY <1>2, <1>4
  <2>2. completion_tokens' \in 0..MaxTokens
    BY <1>2, <1>3, <1>4, <1>11, BoundAssumption
  <2> QED BY <1>2, <1>3, <1>4, <1>5, <1>8, <1>9, <1>14, <2>1, <2>2 DEF LocalsOK
<1>16. PhaseOK' /\ FreshOK' /\ UsageExact' /\ AnswerTextExact' /\ CountOK'
  <2>1. phase' \in {"closing", "receiving"} /\ reply' = Pending
    BY <1>2, <1>3, <1>4
  <2>2. Counts'
    BY <1>2, <1>4, <1>10 DEF Counts
  <2> QED BY <2>1, <2>2 DEF PhaseOK, FreshOK, AnswerTextExact, UsageExact, CountOK
<1>17. LoopOK'
  <2> SUFFICES ASSUME phase' = "receiving"
               PROVE  /\ MatcherOK(m, d.emitted) /\ ~m.found
                      /\ ~HasStop(req.stop, d.emitted) /\ text' = d.emitted
                      /\ taken' = completion_tokens' /\ ~EndedByDone'
    BY <1>2, <1>3 DEF LoopOK
  <2>1. ~m.found
    BY <1>2
  <2> QED BY <1>2, <1>3, <1>4, <1>7, <1>8, <1>13, <2>1
<1>18. FoundOK'
  BY <1>2, <1>3, <1>7, <1>8 DEF FoundOK
<1>19. RequestInd'
  BY <1>3, <1>15, <1>16, <1>17, <1>18 DEF RequestInd
<1>20. TextInd'
  <2>1. ClosingOK'
    <3> SUFFICES ASSUME ~Streams, Intact(d) PROVE text' = TrimEnd(decode(d.tokens))
      BY <1>2, <1>3 DEF ClosingOK, Whole
    <3> QED BY <1>7, <1>12, <1>13
  <2>2. StreamExact'
    <3>1. PICK c, r : c = truncate_at_stop(m, e \o x) /\ r = truncate_at_stop(m, x)
      OBVIOUS
    <3>2. ASSUME Intact(d) PROVE IsPrefix(text', decode(d.tokens))
      BY <1>7, <1>12, <1>14, <3>2, StartsPrefix
    <3>3. Len(e \o x) - Len(x) = Len(e)
      BY <1>7, Texts
    <3>4. ASSUME Streams
          PROVE  IsPrefix(c, text') /\ (text' = c \/ (m.found /\ Len(c) < Len(e)))
      <4>1. CASE m.found
        <5>1. text' = e \o r
          BY <1>13, <3>1, <3>4, <4>1
        <5> QED BY <1>7, <1>9, <3>1, <4>1, <5>1, CutPieces
      <4>2. CASE ~m.found
        <5>1. text' = e \o x /\ ~HasStop(m.sequences, e \o x)
          BY <1>8, <1>13, <4>2
        <5>2. c = text'
          BY <3>1, <5>1, WholeWithoutStop
        <5>3. IsPrefix(c, c)
          BY <1>7, <5>1, <5>2, StartsItself, StartsPrefix
        <5> QED BY <5>2, <5>3
      <4> QED BY <4>1, <4>2
    <3> QED BY <1>2, <1>3, <1>6, <1>7, <3>1, <3>2, <3>3, <3>4 DEF StreamExact
  <2>3. DecodingOK'
    BY <1>2, <1>12 DEF DecodingOK
  <2> QED BY <1>16, <2>1, <2>2, <2>3 DEF TextInd
<1> QED BY <1>19, <1>20 DEF ApiInd

\* What a stream has sent in the loop is the beginning of all that may follow.
LEMMA StreamKeeps ==
  ASSUME ApiInd, phase = "receiving", matcher' = matcher, text' = text,
         decoder'.emitted = decoder.emitted,
         Intact(decoder') => IsPrefix(text, decode(decoder'.tokens))
  PROVE  StreamExact' /\ ~matcher'.found
<1>1. /\ truncate_at_stop(matcher, decoder.emitted) = decoder.emitted
      /\ text = decoder.emitted /\ decoder.emitted \in Text /\ ~matcher.found
  BY InLoop
<1>2. IsPrefix(text, text)
  BY <1>1, StartsItself, StartsPrefix
<1> QED BY <1>1, <1>2 DEF StreamExact

LEMMA SameDecoder ==
  ASSUME ApiInd, phase = "receiving", Intact(decoder)
  PROVE  IsPrefix(text, decode(decoder.tokens))
<1>1. DecoderOK(decoder) /\ text = decoder.emitted /\ decoder.emitted \in Text
  BY InLoop
<1>2. Starts(text, decode(decoder.tokens)) /\ Starts(text, text)
  BY <1>1, DecoderEmits, StartsItself
<1> QED BY <1>1, <1>2, StartsPrefix

LEMMA ExtendedDecoder ==
  ASSUME ApiInd, phase = "receiving", NEW token \in Tokens,
         NEW c \in {Extended(decoder, token), Reanchored(Extended(decoder, token))}
  PROVE  /\ Windowed(c) /\ c.emitted = decoder.emitted
         /\ Len(c.tokens) = completion_tokens + 1
         /\ Intact(c) => IsPrefix(text, decode(c.tokens))
<1>1. /\ Windowed(decoder) /\ (Intact(decoder) => DecoderOK(decoder))
      /\ text = decoder.emitted /\ decoder.emitted \in Text
      /\ decoder.tokens \in Seq(Tokens) /\ completion_tokens = Len(decoder.tokens)
  BY InLoop
<1>2. /\ Windowed(c) /\ c.tokens = Append(decoder.tokens, token)
      /\ c.emitted = decoder.emitted /\ (Intact(c) => Intact(decoder))
  BY <1>1, TokenAdded
<1>3. ASSUME Intact(c) PROVE IsPrefix(text, decode(c.tokens))
  <2>1. PICK s, o : s = decoder.tokens /\ o = <<token>>
    OBVIOUS
  <2>2. s \in Seq(Tokens) /\ o \in Seq(Tokens) /\ c.tokens = s \o o
    BY <1>1, <1>2, <2>1
  <2>3. text = TrimEnd(decode(s))
    BY <1>1, <1>2, <1>3, <2>1, DecoderEmits
  <2>4. Starts(text, decode(s \o o)) /\ Starts(text, text)
    BY <1>1, <2>2, <2>3, DecodeGrows, StartsItself
  <2> QED BY <1>1, <2>2, <2>4, StartsPrefix
<1>4. Len(c.tokens) = completion_tokens + 1
  BY <1>1, <1>2
<1> QED BY <1>2, <1>3, <1>4

\* The loop ends with the text it has.
LEMMA FailureKeeps ==
  ASSUME ApiInd, NEW terminal \in BOOLEAN, Receives(terminal),
         UNCHANGED <<matcher, text, completion_tokens>>,
         Windowed(decoder'), decoder'.emitted = decoder.emitted,
         Intact(decoder') => IsPrefix(text, decode(decoder'.tokens)),
         Len(decoder'.tokens) = IF terminal THEN completion_tokens ELSE completion_tokens + 1,
         finish' \in {"Stop", "Length", "Cancelled", "Timeout"},
         IF Streams THEN phase' = "closing" /\ reply' = reply ELSE Fail("Tokenizer")
  PROVE  ApiInd'
<1>1. /\ phase = "receiving" /\ req' = req /\ Streams' = Streams /\ StreamOK'
      /\ taken' \in 0..Len(events') /\ EndedByDone' = terminal
  BY Received
<1>2. LocalsOK'
  <2>1. LocalsOK
    BY DEF ApiInd, RequestInd
  <2> QED BY <1>1, <2>1 DEF LocalsOK
<1>3. FoundOK' /\ StreamExact' /\ ~matcher'.found
  <2>1. StreamExact' /\ ~matcher'.found
    BY <1>1, StreamKeeps
  <2> QED BY <2>1 DEF FoundOK
<1>4. \/ Streams /\ phase' = "closing" /\ reply' = Pending
      \/ ~Streams /\ phase' = "answered" /\ reply' # Pending /\ reply'.status # 200
  <2>1. CASE Streams
    BY <1>1, <2>1, InLoop
  <2>2. CASE ~Streams
    <3>1. PICK e : e = "Tokenizer"
      OBVIOUS
    <3>2. phase' = "answered" /\ reply' = ErrorReply(e)
      BY <2>2, <3>1 DEF Fail
    <3>3. ErrorReply(e) # Pending /\ ErrorReply(e).status # 200
      BY <3>1, ErrorReplies
    <3> QED BY <2>2, <3>2, <3>3
  <2> QED BY <2>1, <2>2
<1>5. PhaseOK' /\ FreshOK' /\ LoopOK' /\ UsageExact'
  BY <1>1, <1>4 DEF PhaseOK, FreshOK, LoopOK, UsageExact
<1>6. CountOK'
  <2>1. CASE terminal
    BY <2>1 DEF CountOK, Counts
  <2>2. CASE ~terminal
    <3>1. completion_tokens \in Nat
      BY DEF ApiInd, RequestInd, LocalsOK
    <3>2. completion_tokens' = Len(decoder'.tokens) - 1
      BY <2>2, <3>1
    <3>3. Streams => Broken'
      BY <1>1, <1>3, <2>2, <3>2 DEF Broken
    <3> QED BY <1>4, <3>3 DEF CountOK
  <2> QED BY <2>1, <2>2
<1>7. RequestInd'
  BY <1>1, <1>2, <1>3, <1>5, <1>6 DEF RequestInd
<1>8. DecodingOK' /\ ClosingOK' /\ AnswerTextExact'
  BY <1>1, <1>4 DEF DecodingOK, ClosingOK, AnswerTextExact
<1> QED BY <1>3, <1>7, <1>8 DEF ApiInd, TextInd

LEMMA PanicKeeps ==
  ASSUME ApiInd, NEW token \in Tokens, PushPanics(token)
  PROVE  ApiInd'
<1>1. /\ Receives(FALSE) /\ phase' = "gone" /\ decoder' = decoder /\ matcher' = matcher
      /\ text' = text /\ completion_tokens' = completion_tokens /\ finish' = finish
      /\ reply' = reply
  BY DEF PushPanics
<1>2. /\ phase = "receiving" /\ req' = req /\ StreamOK' /\ taken' \in 0..Len(events')
  BY <1>1, Received
<1>3. LocalsOK'
  <2>1. LocalsOK
    BY DEF ApiInd, RequestInd
  <2> QED BY <1>1, <1>2, <2>1 DEF LocalsOK
<1>4. StreamExact' /\ ~matcher'.found
  BY <1>1, <1>2, StreamKeeps, SameDecoder
<1>5. PhaseOK' /\ FreshOK' /\ LoopOK' /\ UsageExact' /\ CountOK' /\ FoundOK'
  <2>1. PhaseOK
    BY DEF ApiInd, RequestInd
  <2> QED BY <1>1, <1>2, <1>4, <2>1 DEF PhaseOK, FreshOK, LoopOK, UsageExact, CountOK, FoundOK
<1>6. RequestInd'
  BY <1>2, <1>3, <1>5 DEF RequestInd
<1> QED BY <1>1, <1>4, <1>6, QuietEnd

\* The engine's count of tokens is not above the handler's.
LEMMA DoneCounts ==
  ASSUME ApiInd, Receives(TRUE)
  PROVE  /\ Counted(events[taken + 1].n) = completion_tokens
         /\ events[taken + 1].kind \in {"Stop", "Length", "Cancelled", "Timeout"}
<1>1. /\ phase = "receiving" /\ taken' = taken + 1 /\ taken \in Nat
      /\ taken' \in 1..Len(events) /\ is_terminal(events[taken'])
  BY Received
<1>2. PICK e : e = events[taken + 1]
  OBVIOUS
<1>3. e \in EventType /\ is_terminal(e) /\ e.n < taken + 1
  BY <1>1, <1>2 DEF ApiInd, RequestInd, StreamOK, Sent
<1>4. e.n \in Nat /\ e.kind \in {"Stop", "Length", "Cancelled", "Timeout"}
  BY <1>3 DEF EventType, is_terminal
<1>5. taken = completion_tokens
  BY <1>1, InLoop
<1>6. Counted(e.n) = completion_tokens
  BY <1>1, <1>3, <1>4, <1>5 DEF Counted
<1> QED BY <1>2, <1>4, <1>6

LEMMA DoneKeeps ==
  ASSUME ApiInd, TakeDone
  PROVE  ApiInd'
<1>1. PICK d, e : d = flush(decoder) /\ e = events[taken + 1]
  OBVIOUS
<1>2. /\ Receives(TRUE) /\ decoder' = d /\ text' = text \o d.out
      /\ completion_tokens' = Counted(e.n) /\ finish' = e.kind
      /\ phase' = "closing" /\ matcher' = matcher /\ reply' = reply
  BY <1>1 DEF TakeDone
<1>3. /\ phase = "receiving" /\ req' = req /\ Streams' = Streams /\ StreamOK'
      /\ taken' \in 0..Len(events') /\ EndedByDone'
  BY <1>2, Received
<1>4. /\ Windowed(decoder) /\ text = decoder.emitted /\ ~matcher.found
      /\ reply = Pending /\ decoder.tokens \in Seq(Tokens) /\ decoder.emitted \in Text
  BY <1>3, InLoop
<1>5. Windowed(d) /\ d.tokens = decoder.tokens /\ d.out \in Text /\ Intact(d) = Intact(decoder)
  BY <1>1, <1>4, FlushTypes
<1>6. text' \in Text
  BY <1>2, <1>4, <1>5, Texts
<1>7. LocalsOK'
  <2>1. LocalsOK
    BY DEF ApiInd, RequestInd
  <2>2. completion_tokens' = completion_tokens /\ finish' \in {"Stop", "Length", "Cancelled", "Timeout"}
    BY <1>1, <1>2, DoneCounts
  <2> QED BY <1>2, <1>3, <1>5, <1>6, <2>1, <2>2 DEF LocalsOK
<1>8. PhaseOK' /\ FreshOK' /\ LoopOK' /\ UsageExact' /\ CountOK'
  <2>1. completion_tokens' = Len(decoder.tokens)
    BY <1>1, <1>2, <1>3, DoneCounts, InLoop
  <2> QED BY <1>2, <1>4, <1>5, <2>1
          DEF PhaseOK, FreshOK, LoopOK, UsageExact, CountOK, Counts
<1>9. FoundOK'
  BY <1>2, <1>4 DEF FoundOK
<1>10. RequestInd'
  BY <1>3, <1>7, <1>8, <1>9 DEF RequestInd
<1>11. TextInd'
  <2>1. ASSUME Intact(d) PROVE text' = decode(d.tokens) /\ d.emitted = text'
    <3>1. DecoderOK(decoder)
      BY <1>3, <1>5, <2>1, InLoop
    <3>2. d.emitted = decode(decoder.tokens) /\ d.emitted = decoder.emitted \o d.out
      BY <1>1, <1>5, <2>1, <3>1, FlushOK
    <3> QED BY <1>2, <1>4, <1>5, <3>2
  <2>2. ClosingOK' /\ DecodingOK' /\ AnswerTextExact'
    BY <1>2, <1>3, <1>4, <2>1 DEF ClosingOK, Whole, DecodingOK, AnswerTextExact
  <2>3. StreamExact'
    <3>1. PICK c : c = truncate_at_stop(matcher, text')
      OBVIOUS
    <3>2. matcher \in MatcherType
      BY DEF ApiInd, RequestInd, LocalsOK
    <3>3. c \in Text /\ Starts(c, text') /\ Starts(text', text')
      BY <1>6, <3>1, <3>2, CutAtStop, StartsItself
    <3>4. IsPrefix(text', text') /\ IsPrefix(c, text')
      BY <1>6, <3>3, StartsPrefix
    <3> QED BY <1>2, <1>3, <2>1, <3>1, <3>4 DEF StreamExact
  <2> QED BY <2>2, <2>3 DEF TextInd
<1> QED BY <1>10, <1>11 DEF ApiInd

-----------------------------------------------------------------------------
(* The invariant holds.                                                     *)

LEMMA ApiInit ==
  ASSUME Init
  PROVE  ApiInd
<1>1. /\ events = << >> /\ sender = "none" /\ req \in Requests /\ phase = "arrived"
      /\ taken = 0 /\ decoder = NewDecoder /\ matcher = NewMatcher(req.stop)
      /\ text = << >> /\ completion_tokens = 0 /\ finish = "Length" /\ reply = Pending
  BY DEF Init, StreamInit
<1>2. Windowed(decoder) /\ decoder.tokens = << >> /\ decoder.emitted = << >>
  BY <1>1, NewDecoderTypes
<1>3. req.stop \in Seq(Text)
  BY <1>1, RequestType
<1>4. matcher \in MatcherType /\ matcher.sequences = req.stop /\ matcher.found = FALSE
  BY <1>1, <1>3, NewMatcherOK
<1>5. << >> \in Text /\ Len(<< >>) = 0 /\ << >> \in Seq(EventType) /\ MaxTokens \in Nat
  BY Texts, BoundAssumption
<1>6. StreamOK
  BY <1>1, <1>5 DEF StreamOK, Sent, AllTokens
<1>7. LocalsOK
  BY <1>1, <1>2, <1>4, <1>5 DEF LocalsOK
<1>8. PhaseOK /\ FreshOK /\ LoopOK /\ CountOK
  BY <1>1, <1>2 DEF PhaseOK, FreshOK, LoopOK, CountOK, Counts
<1>9. FoundOK /\ UsageExact
  BY <1>1, <1>4 DEF FoundOK, UsageExact
<1>10. TextInd
  <2>1. PICK o, c : o = << >> /\ c = truncate_at_stop(matcher, o)
    OBVIOUS
  <2>2. o \in Text /\ decode(decoder.tokens) = o
    BY <1>2, <1>5, <2>1, DecodeNothing
  <2>3. c \in Text /\ Starts(c, o) /\ Starts(o, o)
    BY <1>4, <2>1, <2>2, CutAtStop, StartsItself
  <2>4. IsPrefix(o, o) /\ IsPrefix(c, o)
    BY <2>2, <2>3, StartsPrefix
  <2>5. c = o
    <3>1. PICK z \in Text : o = c \o z
      BY <2>3 DEF Starts
    <3>2. Len(c) \in Nat /\ Len(z) \in Nat /\ Len(c \o z) = Len(c) + Len(z) /\ Len(o) = 0
      BY <2>1, <2>3, Texts
    <3>3. Len(c) = 0
      BY <3>1, <3>2
    <3> QED BY <2>1, <2>3, <3>3, Texts
  <2>6. StreamExact
    BY <1>1, <1>2, <2>1, <2>2, <2>4, <2>5 DEF StreamExact
  <2>7. DecodingOK /\ ClosingOK /\ AnswerTextExact
    BY <1>1 DEF DecodingOK, ClosingOK, AnswerTextExact
  <2> QED BY <2>7, <2>6 DEF TextInd
<1> QED BY <1>6, <1>7, <1>8, <1>9, <1>10 DEF ApiInd, RequestInd

LEMMA ApiStep ==
  ASSUME ApiInd, [Next]_apiVars
  PROVE  ApiInd'
<1>1. CASE Reject
  BY <1>1, RefusalKeeps DEF Reject
<1>2. CASE EncodeFails
  BY <1>2, RefusalKeeps DEF EncodeFails
<1>3. CASE \E e \in Refusals : EngineRefuses(e)
  <2>1. PICK e \in Refusals : EngineRefuses(e)
    BY <1>3
  <2> QED BY <2>1, RefusalKeeps DEF EngineRefuses
<1>4. CASE generate
  BY <1>4, GenerateKeeps
<1>5. CASE \E token \in Tokens : TakeToken(token)
  BY <1>5, TokenKeeps
<1>6. CASE \E token \in Tokens : PushPanics(token)
  BY <1>6, PanicKeeps
<1>7. CASE \E token \in Tokens : PushFails(token)
  <2>1. PICK token \in Tokens : PushFails(token)
    BY <1>7
  <2>2. /\ Receives(FALSE) /\ phase = "receiving"
        /\ decoder' \in {Extended(decoder, token), Reanchored(Extended(decoder, token))}
        /\ UNCHANGED <<matcher, text, completion_tokens>> /\ finish' = finish
        /\ IF Streams THEN phase' = "closing" /\ reply' = reply ELSE Fail("Tokenizer")
    BY <2>1 DEF PushFails, Receives, Extended
  <2>3. finish' \in {"Stop", "Length", "Cancelled", "Timeout"}
    BY <2>2, InLoop
  <2>4. PICK c : c = decoder'
    OBVIOUS
  <2>5. /\ Windowed(c) /\ c.emitted = decoder.emitted
        /\ Len(c.tokens) = completion_tokens + 1
        /\ Intact(c) => IsPrefix(text, decode(c.tokens))
    BY <2>2, <2>4, ExtendedDecoder
  <2> QED BY <2>2, <2>3, <2>4, <2>5, FailureKeeps
<1>8. CASE TakeDone
  BY <1>8, DoneKeeps
<1>9. CASE FlushFails
  <2>1. Receives(TRUE) /\ phase = "receiving"
    BY <1>9 DEF FlushFails, Receives
  <2>2. /\ Counted(events[taken + 1].n) = completion_tokens
        /\ events[taken + 1].kind \in {"Stop", "Length", "Cancelled", "Timeout"}
    BY <2>1, DoneCounts
  <2>3. /\ finish \in {"Stop", "Length", "Cancelled", "Timeout"}
        /\ Windowed(decoder) /\ Len(decoder.tokens) = completion_tokens
        /\ Intact(decoder) => IsPrefix(text, decode(decoder.tokens))
    BY <2>1, InLoop, SameDecoder
  <2>4. /\ completion_tokens' = completion_tokens
        /\ finish' \in {"Stop", "Length", "Cancelled", "Timeout"}
        /\ UNCHANGED <<decoder, matcher, text>>
        /\ IF Streams THEN phase' = "closing" /\ reply' = reply ELSE Fail("Tokenizer")
    BY <1>9, <2>2, <2>3 DEF FlushFails
  <2> QED BY <2>1, <2>3, <2>4, FailureKeeps
<1>10. CASE ChannelClosed
  BY <1>10, ClosedKeeps
<1>11. CASE Answer
  BY <1>11, AnswerKeeps
<1>12. CASE Disconnect
  BY <1>12, LeavingKeeps
<1>13. CASE EngineSends \/ EngineLetsGo \/ Over
  BY <1>13, EngineKeeps
<1>14. CASE UNCHANGED apiVars
  <2>1. UNCHANGED streamVars /\ UNCHANGED handlerVars /\ StreamOK
    BY <1>14 DEF apiVars, ApiInd, RequestInd
  <2>2. StreamOK' /\ Onwards(events, events')
    BY <2>1, SameStream
  <2> QED BY <2>1, <2>2, IdleKeeps DEF streamVars
<1> QED BY <1>1, <1>2, <1>3, <1>4, <1>5, <1>7, <1>8, <1>9, <1>10, <1>11, <1>12, <1>13, <1>14, <1>6
        DEF Next, Handler

\* The inductive invariant of a request holds in every state of a handler: what
\* each phase leaves behind, and, while no space is lost where the decoder's
\* window begins, what the text of the answer is made of.
THEOREM ApiInvariant == Spec => []ApiInd
<1>1. Init => ApiInd
  BY ApiInit
<1>2. ApiInd /\ [Next]_apiVars => ApiInd'
  BY ApiStep
<1> QED BY <1>1, <1>2, PTL DEF Spec

LEMMA ApiTypes ==
  ASSUME ApiInd
  PROVE  ApiTypeOK
<1>1. StreamOK /\ LocalsOK /\ PhaseOK
  BY DEF ApiInd, RequestInd
<1>2. /\ decoder.tokens \in Seq(Tokens) /\ decoder.emitted \in Text
      /\ decoder.window_start \in 0..Len(decoder.tokens) /\ decoder.window_emitted \in Nat
      /\ matcher.buffer \in Text
  BY <1>1 DEF LocalsOK, Windowed, DecoderType, MatcherType
<1>3. completion_tokens \in 0..MaxTokens
  BY <1>1 DEF LocalsOK
<1> QED BY <1>1, <1>2, <1>3 DEF ApiTypeOK, StreamOK, LocalsOK, PhaseOK

\* The fields of a handler, of its decoder and of its matcher keep their types,
\* for any tokenizer, any request and any length of the engine's channel.
THEOREM ApiTypesHold == Spec => []ApiTypeOK
<1>1. ApiInd => ApiTypeOK
  BY ApiTypes
<1> QED BY <1>1, ApiInvariant, PTL

\* Stop strings in a stream of tokens, whatever the tokenizer: the loop of a
\* handler goes on exactly while the text has none, although the matcher
\* (StopSequenceMatcher::feed) keeps only an end of it.
THEOREM StopFoundHolds == Spec => []StopFoundExactly
<1>1. ApiInd => StopFoundExactly
  BY DEF ApiInd, RequestInd, LoopOK, FoundOK, HasStop, StopFoundExactly
<1> QED BY <1>1, ApiInvariant, PTL

\* The usage of an answer counts the tokens the client was answered with.
THEOREM UsageHolds == Spec => []UsageExact
<1>1. ApiInd => UsageExact
  BY DEF ApiInd, RequestInd
<1> QED BY <1>1, ApiInvariant, PTL

\* IncrementalDecoder has emitted the text of all its tokens but for a character
\* not yet complete, and push slices at a character boundary: with a tokenizer
\* that keeps leading spaces wherever the window has moved, with one that drops
\* them until the window moves, or for good if no token begins with a space.
THEOREM DecoderHolds == Spec => []DecoderExact
<1>1. ApiInd => DecoderExact
  <2> SUFFICES ASSUME ApiInd PROVE DecoderExact
    OBVIOUS
  <2>1. ApiTypeOK
    BY ApiTypes
  <2>2. ASSUME phase = "receiving"
        PROVE  /\ Intact(decoder) => decoder.emitted = TrimEnd(decode(decoder.tokens))
               /\ \A token \in Tokens : Intact(push(decoder, token)) => SlicesAt(decoder, token)
    <3>1. Windowed(decoder) /\ (Intact(decoder) => DecoderOK(decoder))
      BY <2>2, InLoop
    <3>2. Intact(decoder) => decoder.emitted = TrimEnd(decode(decoder.tokens))
      BY <3>1, DecoderEmits
    <3>3. ASSUME NEW token \in Tokens, Intact(push(decoder, token))
          PROVE  SlicesAt(decoder, token)
      <4>1. Intact(decoder)
        BY <3>1, <3>3, PushTypes
      <4> QED BY <3>1, <3>3, <4>1, PushOK
    <3> QED BY <3>2, <3>3
  <2> QED BY <2>1, <2>2 DEF DecoderExact
<1> QED BY <1>1, ApiInvariant, PTL

\* An answer that is not streamed is the text of the tokens received, cut before
\* the first stop string, as far as the decoder's is, and its usage counts them.
THEOREM AnswerHolds == Spec => []AnswerExact
<1>1. ApiInd => AnswerExact
  BY DEF ApiInd, RequestInd, TextInd, AnswerExact
<1> QED BY <1>1, ApiInvariant, PTL

\* What a stream has sent is a beginning of that text, and holds at least what a
\* whole answer would; it holds more only of a stop string that began in a piece
\* already sent, or of characters held back to the end, which go unexamined.
THEOREM StreamHolds == Spec => []StreamExact
<1>1. ApiInd => StreamExact
  BY DEF ApiInd, TextInd
<1> QED BY <1>1, ApiInvariant, PTL
=============================================================================
