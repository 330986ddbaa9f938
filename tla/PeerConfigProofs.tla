-------------------------- MODULE PeerConfigProofs ---------------------------
(***************************************************************************)
(* What the loop of remove_peer and the update of peerconfgen.py do to a   *)
(* list of blocks, for lists of any length: the lemmas that the proofs     *)
(* about PeerStore and Autoprune rest on.                                  *)
(***************************************************************************)
EXTENDS PeerConfig, WellFoundedInduction, TLAPS

(***************************************************************************)
(* Induction over the places of a list, and what a loop computes.          *)
(***************************************************************************)

LEMMA LeastNat ==
  ASSUME NEW T \in SUBSET Nat, T # {}
  PROVE  \E x \in T : \A y \in T : x <= y
<1> DEFINE R == OpToRel(<, Nat)
<1>1. PICK x \in T : \A y \in T : ~(<<y, x>> \in R)
  BY WFMin, NatLessThanWellFounded, Zenon
<1>2. \A y \in T : ~(y < x)
  BY <1>1, Zenon DEF OpToRel
<1>3. \A y \in T : x <= y
  <2> TAKE y \in T
  <2>1. x \in Nat /\ y \in Nat /\ ~(y < x)
    BY <1>2
  <2> QED BY <2>1
<1> QED BY <1>3

LEMMA UpTo ==
  ASSUME NEW N \in Nat, NEW T, 0 \in T,
         \A i \in 0..N : i < N /\ i \in T => i + 1 \in T
  PROVE  \A i \in 0..N : i \in T
<1> DEFINE Missed == {i \in 0..N : i \notin T}
<1> SUFFICES ASSUME Missed # {} PROVE FALSE
  OBVIOUS
<1>1. PICK x \in Missed : \A y \in Missed : x <= y
  <2>1. Missed \in SUBSET Nat
    OBVIOUS
  <2> HIDE DEF Missed
  <2> QED BY <2>1, LeastNat, Zenon
<1>2. x \in 0..N /\ x \notin T /\ x # 0
  BY <1>1
<1>3. x - 1 \in 0..N /\ x - 1 < N /\ x = (x - 1) + 1
  BY <1>2
<1>4. x - 1 \in T
  BY <1>1, <1>2, <1>3
<1> QED BY <1>2, <1>3, <1>4

LoopOf(f, N, S, b, step) ==
  /\ f \in [0..N -> S] /\ f[0] = b
  /\ \A n \in 1..N : f[n] = step[<<n, f[n - 1]>>]

LEMMA LoopExists ==
  ASSUME NEW N \in Nat, NEW S, NEW b \in S, NEW step \in [(1..N) \X S -> S]
  PROVE  \E f : LoopOf(f, N, S, b, step)
<1> DEFINE Loops(f, m) == f[0] = b /\ \A n \in 1..m : f[n] = step[<<n, f[n - 1]>>]
           T == {m \in 0..N : \E f \in [0..m -> S] : Loops(f, m)}
<1>1. 0 \in T
  <2>1. [n \in 0..0 |-> b] \in [0..0 -> S] /\ Loops([n \in 0..0 |-> b], 0)
    OBVIOUS
  <2>2. \E f \in [0..0 -> S] : Loops(f, 0)
    BY <2>1
  <2> HIDE DEF Loops
  <2> QED BY <2>2
<1>2. ASSUME NEW m \in 0..N, m < N, m \in T
      PROVE  m + 1 \in T
  <2>1. PICK f \in [0..m -> S] : Loops(f, m)
    BY <1>2
  <2> DEFINE g == [n \in 0..(m + 1) |-> IF n = m + 1 THEN step[<<m + 1, f[m]>>] ELSE f[n]]
  <2>2. m + 1 \in 1..N /\ f[m] \in S
    BY <1>2
  <2>3. step[<<m + 1, f[m]>>] \in S
    BY <2>2
  <2>4. g \in [0..(m + 1) -> S]
    BY <2>3
  <2>5. Loops(g, m + 1)
    <3>1. g[0] = b
      BY <2>1
    <3>2. ASSUME NEW n \in 1..(m + 1)
          PROVE  g[n] = step[<<n, g[n - 1]>>]
      <4>1. CASE n = m + 1
        <5>1. n - 1 = m /\ m \in 0..(m + 1) /\ m # m + 1
          BY <4>1
        <5>2. g[n] = step[<<m + 1, f[m]>>] /\ g[m] = f[m]
          BY <4>1, <5>1
        <5> QED BY <4>1, <5>1, <5>2
      <4>2. CASE n # m + 1
        <5>1. n \in 1..m /\ n - 1 \in 0..m
          BY <4>2
        <5>2. g[n] = f[n] /\ g[n - 1] = f[n - 1]
          BY <4>2, <5>1
        <5> QED BY <2>1, <5>1, <5>2
      <4> QED BY <4>1, <4>2
    <3> HIDE DEF g
    <3> QED BY <3>1, <3>2
  <2> HIDE DEF g, Loops
  <2> QED BY <2>2, <2>4, <2>5
<1>3. N \in T
  <2> HIDE DEF T
  <2>1. \A i \in 0..N : i \in T
    BY <1>1, <1>2, UpTo
  <2> QED BY <2>1
<1> QED BY <1>3 DEF LoopOf

-----------------------------------------------------------------------------
(***************************************************************************)
(* One place of the loop of remove_peer.                                   *)
(***************************************************************************)

LEMMA RemoveAtFacts ==
  ASSUME NEW S, NEW s \in Seq(S), NEW n \in 1..Len(s)
  PROVE  /\ RemoveAt(s, n) \in Seq(S)
         /\ Len(RemoveAt(s, n)) = Len(s) - 1
         /\ \A i \in 1..(Len(s) - 1) : RemoveAt(s, n)[i] = IF i < n THEN s[i] ELSE s[i + 1]
<1> DEFINE before == SubSeq(s, 1, n - 1)
           after == SubSeq(s, n + 1, Len(s))
<1>1. /\ before \in Seq(S) /\ Len(before) = n - 1
      /\ \A i \in 1..(n - 1) : before[i] = s[i]
  OBVIOUS
<1>2. /\ after \in Seq(S) /\ Len(after) = Len(s) - n
      /\ \A i \in 1..(Len(s) - n) : after[i] = s[i + n]
  OBVIOUS
<1>3. RemoveAt(s, n) = before \o after
  BY DEF RemoveAt
<1> HIDE DEF before, after
<1>4. /\ RemoveAt(s, n) \in Seq(S) /\ Len(RemoveAt(s, n)) = Len(s) - 1
  BY <1>1, <1>2, <1>3
<1>5. ASSUME NEW i \in 1..(Len(s) - 1)
      PROVE  RemoveAt(s, n)[i] = IF i < n THEN s[i] ELSE s[i + 1]
  <2>1. CASE i < n
    BY <1>1, <1>2, <1>3, <2>1
  <2>2. CASE ~(i < n)
    <3>1. RemoveAt(s, n)[i] = after[i - (n - 1)]
      BY <1>1, <1>2, <1>3, <2>2
    <3>2. i - (n - 1) \in 1..(Len(s) - n) /\ (i - (n - 1)) + n = i + 1
      BY <2>2
    <3> QED BY <1>2, <2>2, <3>1, <3>2
  <2> QED BY <2>1, <2>2
<1> QED BY <1>4, <1>5

LEMMA VisitedType ==
  ASSUME NEW c, NEW l \in Seq(Block), NEW n \in Nat
  PROVE  Visited(c, l, n) \in Seq(Block)
BY RemoveAtFacts DEF Visited

(* The lists that the loop goes through.                                   *)
LEMMA Loop ==
  ASSUME NEW c, NEW s \in Seq(Block)
  PROVE  \E left \in [0..Len(s) -> Seq(Block)] :
            /\ left[0] = s
            /\ \A n \in 1..Len(s) : left[n] = Visited(c, left[n - 1], n)
            /\ Removed(c, s) = left[Len(s)]
<1> DEFINE N == Len(s)
           step == [x \in (1..N) \X Seq(Block) |-> Visited(c, x[2], x[1])]
           Is(f) == f = [n \in 0..N |-> IF n = 0 THEN s ELSE Visited(c, f[n - 1], n)]
           left == CHOOSE f : Is(f)
<1>1. N \in Nat
  OBVIOUS
<1>2. step \in [(1..N) \X Seq(Block) -> Seq(Block)]
  BY VisitedType
<1>3. PICK f : LoopOf(f, N, Seq(Block), s, step)
  <2>1. s \in Seq(Block)
    OBVIOUS
  <2> HIDE DEF step, N, Is, left
  <2> QED BY <1>1, <1>2, <2>1, LoopExists
<1>4. ASSUME NEW n \in 1..N
      PROVE  f[n] = Visited(c, f[n - 1], n)
  <2>1. n - 1 \in 0..N
    BY <1>1, <1>4
  <2>2. <<n, f[n - 1]>> \in (1..N) \X Seq(Block)
    BY <1>3, <2>1 DEF LoopOf
  <2> QED BY <1>3, <2>2 DEF LoopOf
<1>5. Is(f)
  <2>1. \A n \in 0..N : f[n] = IF n = 0 THEN s ELSE Visited(c, f[n - 1], n)
    BY <1>1, <1>3, <1>4 DEF LoopOf
  <2>2. f = [n \in 0..N |-> f[n]]
    BY <1>3 DEF LoopOf
  <2> HIDE DEF step
  <2> QED BY <2>1, <2>2
<1>6. Is(left)
  <2> HIDE DEF Is
  <2> QED BY <1>5
<1>7. Removed(c, s) = left[N]
  BY DEF Removed
<1> HIDE DEF left
<1>8. left[0] = s /\ \A n \in 1..N : left[n] = Visited(c, left[n - 1], n)
  BY <1>1, <1>6
<1>9. left \in [0..N -> Seq(Block)]
  <2> DEFINE T == {n \in 0..N : left[n] \in Seq(Block)}
  <2>1. 0 \in T
    BY <1>8
  <2>2. \A n \in 0..N : n < N /\ n \in T => n + 1 \in T
    BY <1>8, VisitedType
  <2>3. \A n \in 0..N : n \in T
    <3> HIDE DEF T
    <3> QED BY <1>1, <2>1, <2>2, UpTo
  <2> QED BY <1>6, <2>3
<1> QED BY <1>7, <1>8, <1>9

-----------------------------------------------------------------------------
(***************************************************************************)
(* What the list is after n places: the places to come hold what the list  *)
(* held, moved by as many places as there were deletions, and of the       *)
(* blocks before them only such as match are gone, and each that matches   *)
(* unless the block before it matches too.                                 *)
(***************************************************************************)

Lone(c, s) == {i \in DOMAIN s : Matches(c, s[i]) /\ (i > 1 => ~Matches(c, s[i - 1]))}

Looked(c, s, l, n) ==
    /\ l \in Seq(Block) /\ Len(l) <= Len(s)
    /\ \A j \in 1..Len(l) : j > n => l[j] = s[j + (Len(s) - Len(l))]
    /\ \A j \in 1..Len(l) : \E i \in 1..Len(s) : l[j] = s[i]
    /\ \A i \in 1..Len(s) : ~Matches(c, s[i]) => \E j \in 1..Len(l) : l[j] = s[i]
    /\ UniqueNamesIn(s) =>
          /\ UniqueNamesIn(l)
          /\ \A i \in Lone(c, s) : i <= n + (Len(s) - Len(l)) =>
                \A j \in 1..Len(l) : l[j] # s[i]

LEMMA LookedStart ==
  ASSUME NEW c, NEW s \in Seq(Block)
  PROVE  Looked(c, s, s, 0)
BY DEF Looked, Lone

LEMMA LookedNext ==
  ASSUME NEW c, NEW s \in Seq(Block), NEW l, NEW n \in Nat, Looked(c, s, l, n)
  PROVE  Looked(c, s, Visited(c, l, n + 1), n + 1)
<1> DEFINE d == Len(s) - Len(l)
<1>1. /\ l \in Seq(Block) /\ Len(l) \in Nat /\ Len(s) \in Nat /\ d \in Nat
      /\ DOMAIN l = 1..Len(l) /\ DOMAIN s = 1..Len(s)
  BY DEF Looked
<1>2. \A i \in Lone(c, s) : i \in 1..Len(s) /\ Matches(c, s[i])
                             /\ (i > 1 => ~Matches(c, s[i - 1]))
  BY <1>1 DEF Lone
<1>3. CASE n + 1 \notin DOMAIN l
  <2>1. Visited(c, l, n + 1) = l
    BY <1>3 DEF Visited
  <2>2. \A i \in Lone(c, s) : i <= n + d
    BY <1>1, <1>2, <1>3
  <2>3. \A j \in 1..Len(l) : ~(j > n + 1)
    BY <1>1, <1>3
  <2> QED BY <2>1, <2>2, <2>3 DEF Looked
<1>4. CASE n + 1 \in DOMAIN l /\ ~Matches(c, l[n + 1])
  <2>1. Visited(c, l, n + 1) = l
    BY <1>4 DEF Visited
  <2>2. l[n + 1] = s[n + 1 + d]
    BY <1>1, <1>4 DEF Looked
  <2>3. \A i \in Lone(c, s) : i <= n + 1 + d => i <= n + d
    BY <1>1, <1>2, <1>4, <2>2
  <2> QED BY <1>1, <2>1, <2>3 DEF Looked
<1>5. CASE n + 1 \in DOMAIN l /\ Matches(c, l[n + 1])
  <2> DEFINE m == RemoveAt(l, n + 1)
  <2>1. Visited(c, l, n + 1) = m
    BY <1>5 DEF Visited
  <2>2. /\ m \in Seq(Block) /\ Len(m) = Len(l) - 1
        /\ \A j \in 1..Len(m) : m[j] = IF j < n + 1 THEN l[j] ELSE l[j + 1]
    BY <1>1, <1>5, RemoveAtFacts
  <2>3. /\ l[n + 1] = s[n + 1 + d] /\ n + 1 \in 1..Len(l)
        /\ Len(s) - Len(m) = d + 1 /\ DOMAIN m = 1..Len(m)
    <3>1. n + 1 \in 1..Len(l) /\ n + 1 > n
      BY <1>1, <1>5
    <3>2. l[n + 1] = s[n + 1 + d]
      BY <3>1 DEF Looked
    <3>3. Len(m) = Len(l) - 1 /\ DOMAIN m = 1..Len(m)
      BY <2>2
    <3> HIDE DEF m
    <3> QED BY <1>1, <3>1, <3>2, <3>3
  <2> HIDE DEF m
  <2>4. \A j \in 1..Len(m) : j > n + 1 => m[j] = s[j + (d + 1)]
    <3> SUFFICES ASSUME NEW j \in 1..Len(m), j > n + 1
                 PROVE  m[j] = s[j + (d + 1)]
      OBVIOUS
    <3>1. m[j] = l[j + 1] /\ j + 1 \in 1..Len(l) /\ j + 1 > n
      BY <1>1, <2>2
    <3>2. l[j + 1] = s[(j + 1) + d]
      BY <3>1 DEF Looked
    <3>3. (j + 1) + d = j + (d + 1)
      BY <1>1
    <3> QED BY <3>1, <3>2, <3>3
  <2>5. \A j \in 1..Len(m) : \E k \in 1..Len(l) : /\ m[j] = l[k] /\ k # n + 1
                                                   /\ k = IF j < n + 1 THEN j ELSE j + 1
    BY <1>1, <2>2
  <2>6. \A k \in 1..Len(l) : k # n + 1 => \E j \in 1..Len(m) : m[j] = l[k]
    <3> SUFFICES ASSUME NEW k \in 1..Len(l), k # n + 1
                 PROVE  \E j \in 1..Len(m) : m[j] = l[k]
      OBVIOUS
    <3>1. CASE k < n + 1
      BY <1>1, <2>2, <2>3, <3>1
    <3>2. CASE k > n + 1
      <4>1. k - 1 \in 1..Len(m) /\ ~(k - 1 < n + 1) /\ (k - 1) + 1 = k
        BY <1>1, <2>2, <3>2
      <4> QED BY <2>2, <4>1
    <3> QED BY <1>1, <3>1, <3>2
  <2>7. \A j \in 1..Len(m) : \E i \in 1..Len(s) : m[j] = s[i]
    BY <2>5 DEF Looked
  <2>8. \A i \in 1..Len(s) : ~Matches(c, s[i]) => \E j \in 1..Len(m) : m[j] = s[i]
    <3> SUFFICES ASSUME NEW i \in 1..Len(s), ~Matches(c, s[i])
                 PROVE  \E j \in 1..Len(m) : m[j] = s[i]
      OBVIOUS
    <3>1. PICK k \in 1..Len(l) : l[k] = s[i]
      BY DEF Looked
    <3>2. k # n + 1
      BY <1>5, <3>1
    <3> QED BY <2>6, <3>1, <3>2
  <2>9. ASSUME UniqueNamesIn(s)
        PROVE  /\ UniqueNamesIn(m)
               /\ \A i \in Lone(c, s) : i <= (n + 1) + (d + 1) =>
                     \A j \in 1..Len(m) : m[j] # s[i]
    <3>1. \A k, j \in 1..Len(l) : l[k].name = l[j].name => k = j
      BY <1>1, <2>9 DEF Looked, UniqueNamesIn
    <3>2. UniqueNamesIn(m)
      <4> SUFFICES ASSUME NEW i \in 1..Len(m), NEW j \in 1..Len(m), m[i].name = m[j].name
                   PROVE  i = j
        BY <2>3 DEF UniqueNamesIn
      <4>1. PICK a \in 1..Len(l) : m[i] = l[a] /\ a = IF i < n + 1 THEN i ELSE i + 1
        BY <2>5
      <4>2. PICK b \in 1..Len(l) : m[j] = l[b] /\ b = IF j < n + 1 THEN j ELSE j + 1
        BY <2>5
      <4>3. a = b
        BY <3>1, <4>1, <4>2
      <4> QED BY <1>1, <4>1, <4>2, <4>3
    <3>3. ASSUME NEW i \in Lone(c, s), i <= (n + 1) + (d + 1), NEW j \in 1..Len(m)
          PROVE  m[j] # s[i]
      <4>1. PICK k \in 1..Len(l) : m[j] = l[k] /\ k # n + 1
        BY <2>5
      <4>2. CASE i <= n + d
        BY <2>9, <3>3, <4>1, <4>2 DEF Looked
      <4>3. CASE i = n + 1 + d
        BY <2>3, <3>1, <4>1, <4>3
      <4>4. CASE i = n + 2 + d
        <5>1. i > 1 /\ i - 1 = n + 1 + d
          BY <1>1, <4>4
        <5> QED BY <1>2, <1>5, <2>3, <3>3, <5>1
      <4>5. i \in Nat
        BY <1>1, <1>2
      <4> QED BY <1>1, <3>3, <4>2, <4>3, <4>4, <4>5
    <3> QED BY <3>2, <3>3
  <2>10. Len(m) <= Len(s)
    BY <1>1, <2>3
  <2> HIDE DEF d
  <2>11. Looked(c, s, m, n + 1)
    BY <2>2, <2>3, <2>4, <2>7, <2>8, <2>9, <2>10 DEF Looked
  <2> QED BY <2>1, <2>11
<1> QED BY <1>3, <1>4, <1>5

(* What is left when the loop is over.                                     *)
LEMMA RemovedLooked ==
  ASSUME NEW c, NEW s \in Seq(Block)
  PROVE  Looked(c, s, Removed(c, s), Len(s))
<1>1. PICK left \in [0..Len(s) -> Seq(Block)] :
         /\ left[0] = s
         /\ \A n \in 1..Len(s) : left[n] = Visited(c, left[n - 1], n)
         /\ Removed(c, s) = left[Len(s)]
  BY Loop
<1> DEFINE T == {n \in 0..Len(s) : Looked(c, s, left[n], n)}
<1>2. 0 \in T
  BY <1>1, LookedStart
<1>3. ASSUME NEW n \in 0..Len(s), n < Len(s), n \in T
      PROVE  n + 1 \in T
  <2>1. left[n + 1] = Visited(c, left[n], n + 1) /\ n + 1 \in 0..Len(s)
    BY <1>1, <1>3
  <2>2. Looked(c, s, left[n + 1], n + 1)
    BY <1>3, <2>1, LookedNext
  <2> QED BY <2>1, <2>2
<1>4. \A n \in 0..Len(s) : n \in T
  <2>1. Len(s) \in Nat
    OBVIOUS
  <2>2. \A n \in 0..Len(s) : n < Len(s) /\ n \in T => n + 1 \in T
    BY <1>3
  <2> HIDE DEF T
  <2> QED BY <1>2, <2>1, <2>2, UpTo
<1> QED BY <1>1, <1>4

(* remove_peer, for a list of any length: only blocks that match go, a     *)
(* block that matches goes unless the one before it matches too, and names *)
(* stay unique.                                                            *)
THEOREM RemovedFacts ==
  ASSUME NEW c, NEW s \in Seq(Block)
  PROVE  /\ Removed(c, s) \in Seq(Block)
         /\ Range(Removed(c, s)) \subseteq Range(s)
         /\ \A b \in Range(s) \ Range(Removed(c, s)) : Matches(c, b)
         /\ UniqueNamesIn(s) =>
               /\ UniqueNamesIn(Removed(c, s))
               /\ \A i \in Lone(c, s) : s[i] \notin Range(Removed(c, s))
<1> DEFINE l == Removed(c, s)
<1>1. Looked(c, s, l, Len(s))
  BY RemovedLooked
<1> HIDE DEF l
<1>2. l \in Seq(Block) /\ DOMAIN l = 1..Len(l) /\ DOMAIN s = 1..Len(s) /\ Len(l) <= Len(s)
  BY <1>1 DEF Looked
<1>3. Range(l) = {l[j] : j \in 1..Len(l)} /\ Range(s) = {s[i] : i \in 1..Len(s)}
  BY <1>2 DEF Range
<1>4. Range(l) \subseteq Range(s)
  <2>1. \A j \in 1..Len(l) : \E i \in 1..Len(s) : l[j] = s[i]
    BY <1>1 DEF Looked
  <2> QED BY <1>3, <2>1
<1>5. \A b \in Range(s) \ Range(l) : Matches(c, b)
  <2>1. \A i \in 1..Len(s) : ~Matches(c, s[i]) => \E j \in 1..Len(l) : l[j] = s[i]
    BY <1>1 DEF Looked
  <2> QED BY <1>3, <2>1
<1>6. ASSUME UniqueNamesIn(s)
      PROVE  UniqueNamesIn(l) /\ \A i \in Lone(c, s) : s[i] \notin Range(l)
  <2>1. \A i \in Lone(c, s) : i \in 1..Len(s) /\ i <= Len(s) + (Len(s) - Len(l))
    BY <1>2 DEF Lone
  <2> QED BY <1>1, <1>3, <1>6, <2>1 DEF Looked
<1> QED BY <1>2, <1>4, <1>5, <1>6 DEF l

(* The first block that matches is always one that goes: a removal that is *)
(* repeated until it changes nothing leaves no block that matches.         *)
THEOREM RemovesSome ==
  ASSUME NEW c, NEW s \in Seq(Block), UniqueNamesIn(s),
         NEW k \in DOMAIN s, Matches(c, s[k])
  PROVE  Range(Removed(c, s)) # Range(s)
<1> DEFINE T == {i \in DOMAIN s : Matches(c, s[i])}
<1>1. DOMAIN s = 1..Len(s) /\ Len(s) \in Nat
  OBVIOUS
<1>2. T \in SUBSET Nat /\ T # {}
  BY <1>1
<1> HIDE DEF T
<1>3. PICK i \in T : \A j \in T : i <= j
  BY <1>2, LeastNat
<1>4. i \in 1..Len(s) /\ Matches(c, s[i])
  BY <1>1 DEF T
<1>5. ASSUME i > 1 PROVE ~Matches(c, s[i - 1])
  <2>1. i - 1 \in 1..Len(s) /\ ~(i <= i - 1)
    BY <1>4, <1>5
  <2> QED BY <1>1, <1>3, <2>1 DEF T
<1>6. i \in Lone(c, s)
  BY <1>1, <1>4, <1>5 DEF Lone
<1>7. s[i] \in Range(s)
  BY <1>1, <1>4 DEF Range
<1> QED BY <1>6, <1>7, RemovedFacts

-----------------------------------------------------------------------------
(***************************************************************************)
(* The list that peerconfgen.py writes.                                    *)
(***************************************************************************)

(* A new block replaces the one of its name or comes last: no other block  *)
(* goes, nothing else comes, and names stay unique.                        *)
THEOREM UpdatedFacts ==
  ASSUME NEW c, c.peer \in Peer, NEW asn \in Asn, NEW s \in Seq(Block)
  PROVE  /\ Updated(c, asn, s) \in Seq(Block)
         /\ \A b \in Range(s) \ Range(Updated(c, asn, s)) : b.name = Iface[c.peer]
         /\ Positions(c, s) = {} => Range(s) \subseteq Range(Updated(c, asn, s))
         /\ UniqueNamesIn(s) =>
               /\ UniqueNamesIn(Updated(c, asn, s))
               /\ LET block == [name |-> Iface[c.peer], asn |-> asn]
                  IN  Range(Updated(c, asn, s)) = {b \in Range(s) : b.name # block.name} \cup {block}
<1> DEFINE block == [name |-> Iface[c.peer], asn |-> asn]
           l == Updated(c, asn, s)
<1>1. block \in Block /\ block.name = Iface[c.peer]
  BY DEF Block, Ifaces
<1>2. Positions(c, s) = {i \in 1..Len(s) : s[i].name = Iface[c.peer]}
  BY DEF Positions
<1>3. CASE Positions(c, s) = {}
  <2>1. l = Append(s, block)
    BY <1>3 DEF Updated
  <2> HIDE DEF block, l
  <2>2. /\ l \in Seq(Block) /\ Len(l) = Len(s) + 1 /\ l[Len(s) + 1] = block
        /\ \A i \in 1..Len(s) : l[i] = s[i]
    BY <1>1, <2>1
  <2>3. Range(s) \subseteq Range(l)
    <3>1. DOMAIN l = 1..(Len(s) + 1) /\ DOMAIN s = 1..Len(s)
      BY <2>2
    <3> QED BY <2>2, <3>1 DEF Range
  <2>4. UniqueNamesIn(s) => UniqueNamesIn(l)
    BY <1>1, <1>2, <1>3, <2>2 DEF UniqueNamesIn
  <2>5. Range(l) = {b \in Range(s) : b.name # block.name} \cup {block}
    <3>1. DOMAIN l = 1..(Len(s) + 1) /\ DOMAIN s = 1..Len(s)
      BY <2>2
    <3>2. \A b \in Range(s) : b.name # block.name
      BY <1>1, <1>2, <1>3, <3>1 DEF Range
    <3>3. Range(l) = Range(s) \cup {block}
      BY <2>2, <3>1 DEF Range
    <3> QED BY <3>2, <3>3
  <2> QED BY <2>2, <2>3, <2>4, <2>5 DEF l, block
<1>4. CASE Positions(c, s) # {}
  <2> DEFINE first == CHOOSE i \in Positions(c, s) : \A j \in Positions(c, s) : i <= j
  <2>1. PICK i \in Positions(c, s) : \A j \in Positions(c, s) : i <= j
    <3>1. Positions(c, s) \in SUBSET Nat
      BY <1>2
    <3> QED BY <1>4, <3>1, LeastNat
  <2>2. first \in 1..Len(s) /\ s[first].name = Iface[c.peer]
    BY <1>2, <2>1
  <2>3. l = [s EXCEPT ![first] = block]
    BY <1>4 DEF Updated
  <2> HIDE DEF block, l, first
  <2>4. /\ l \in Seq(Block) /\ Len(l) = Len(s) /\ l[first] = block
        /\ \A k \in 1..Len(s) : k # first => l[k] = s[k]
    BY <1>1, <2>2, <2>3
  <2>5. DOMAIN l = 1..Len(s) /\ DOMAIN s = 1..Len(s)
    BY <2>4
  <2>6. \A b \in Range(s) \ Range(l) : b.name = Iface[c.peer]
    BY <2>2, <2>4, <2>5 DEF Range
  <2>7. UniqueNamesIn(s) => UniqueNamesIn(l)
    <3>1. \A k \in 1..Len(s) : l[k].name = s[k].name
      BY <1>1, <2>2, <2>4
    <3> QED BY <2>5, <3>1 DEF UniqueNamesIn
  <2>8. UniqueNamesIn(s) => Range(l) = {b \in Range(s) : b.name # block.name} \cup {block}
    <3> SUFFICES ASSUME UniqueNamesIn(s)
                 PROVE  Range(l) = {b \in Range(s) : b.name # block.name} \cup {block}
      OBVIOUS
    <3>1. \A k \in 1..Len(s) : s[k].name = block.name <=> k = first
      BY <1>1, <2>2, <2>5 DEF UniqueNamesIn
    <3>2. ASSUME NEW b \in Range(l)
          PROVE  b = block \/ (b \in Range(s) /\ b.name # block.name)
      BY <2>4, <2>5, <3>1 DEF Range
    <3>3. ASSUME NEW b \in Range(s), b.name # block.name
          PROVE  b \in Range(l)
      BY <2>2, <2>4, <2>5, <3>1, <3>3 DEF Range
    <3>4. block \in Range(l)
      BY <2>2, <2>4, <2>5 DEF Range
    <3> QED BY <3>2, <3>3, <3>4
  <2> QED BY <1>4, <2>4, <2>6, <2>7, <2>8 DEF l, block
<1> QED BY <1>3, <1>4
=============================================================================
