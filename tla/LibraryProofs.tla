---------------------------- MODULE LibraryProofs ----------------------------
(***************************************************************************)
(* Proofs about Library: the memory and the string routines and itoa do    *)
(* what they are called for, for every size and content of the memory,     *)
(* every number of calls in a row, every word and every radix.             *)
(***************************************************************************)
EXTENDS Library, WellFoundedInduction, TLAPS

-----------------------------------------------------------------------------
(* Numbers. *)

\* A set of numbers that is not empty has a least one.
LEMMA LeastNumber ==
  ASSUME NEW S \in SUBSET Nat, S # {}
  PROVE  \E least \in S : \A n \in S : least <= n
<1> DEFINE R == OpToRel(<, Nat)
<1>1. \A x, y \in Nat : <<x, y>> \in R <=> x < y
  BY DEF OpToRel
<1>2. IsWellFoundedOn(R, Nat)
  BY NatLessThanWellFounded
<1>3. S \subseteq Nat
  OBVIOUS
<1> HIDE DEF R
<1>4. PICK least \in S : \A n \in S : ~(<<n, least>> \in R)
  BY <1>2, <1>3, WFMin
<1>5. ASSUME NEW n \in S PROVE least <= n
  <2>1. n \in Nat /\ least \in Nat /\ ~(<<n, least>> \in R)
    BY <1>4
  <2>2. ~(n < least)
    BY <1>1, <2>1
  <2> QED BY <2>1, <2>2
<1> QED BY <1>5

\* A set that has 0, and the successor of each of its numbers below top.
LEMMA UpTo ==
  ASSUME NEW top \in Nat, NEW S, 0 \in S,
         \A k \in 0 .. top - 1 : k \in S => k + 1 \in S
  PROVE  \A k \in 0 .. top : k \in S
<1> DEFINE out == {k \in 0 .. top : k \notin S}
<1> SUFFICES ASSUME out # {} PROVE FALSE
  OBVIOUS
<1>1. PICK least \in out : \A n \in out : least <= n
  <2>1. out \in SUBSET Nat
    OBVIOUS
  <2> HIDE DEF out
  <2> QED BY <2>1, LeastNumber
<1>2. least # 0 /\ least \in 0 .. top /\ least \notin S
  OBVIOUS
<1>3. least - 1 \in 0 .. top - 1 /\ least - 1 \notin out
  BY <1>1, <1>2
<1>4. least - 1 \in S
  BY <1>3
<1>5. (least - 1) + 1 \in S
  BY <1>3, <1>4
<1> QED BY <1>2, <1>5

-----------------------------------------------------------------------------
(* rep movs. *)

\* One unit of rep movs.
MoveUnit(m, to, from, size) ==
  [a \in Addr |-> IF a - to \in 0 .. size - 1 THEN m[from + a - to] ELSE m[a]]

\* The unit that makes the k-th memory from the one before.
UnitMoved(m, edi, esi, size, down, k) ==
  MoveUnit(m, UnitAt(edi, size, k - 1, down), UnitAt(esi, size, k - 1, down),
           size)

Moves(m, edi, esi, size, ecx, down) ==
  CHOOSE move : move = [k \in 0 .. ecx |->
    IF k = 0 THEN m ELSE UnitMoved(move[k - 1], edi, esi, size, down, k)]

LEMMA RepMovsUnfolds ==
  ASSUME NEW m, NEW edi, NEW esi, NEW size, NEW ecx, NEW down
  PROVE  RepMovs(m, edi, esi, size, ecx, down)
           = Moves(m, edi, esi, size, ecx, down)[ecx]
  BY Zenon DEF RepMovs, Moves, UnitMoved, MoveUnit

\* A recursion from each number to the one before is defined.
LEMMA MovesExists ==
  ASSUME NEW m, NEW edi, NEW esi, NEW size, NEW ecx \in Nat, NEW down
  PROVE  Moves(m, edi, esi, size, ecx, down) = [k \in 0 .. ecx |->
           IF k = 0 THEN m
           ELSE UnitMoved(Moves(m, edi, esi, size, ecx, down)[k - 1],
                          edi, esi, size, down, k)]
<1> DEFINE Step(x, k) == UnitMoved(x, edi, esi, size, down, k)
           Is(f, n) == f = [k \in 0 .. n |->
                              IF k = 0 THEN m ELSE Step(f[k - 1], k)]
           S == {n \in Nat : \E f : Is(f, n)}
<1> HIDE DEF Step
<1>1. 0 \in S
  <2> DEFINE f == [k \in 0 .. 0 |-> m]
  <2>1. f = [k \in 0 .. 0 |-> IF k = 0 THEN m ELSE Step(f[k - 1], k)]
    BY \A k \in 0 .. 0 : k = 0
  <2> QED BY <2>1
<1>2. ASSUME NEW n \in Nat, n \in S PROVE n + 1 \in S
  <2>1. PICK f : Is(f, n)
    BY <1>2
  <2> DEFINE g == [k \in 0 .. n + 1 |->
                     IF k <= n THEN f[k] ELSE Step(f[n], n + 1)]
  <2>2. \A k \in 0 .. n : g[k] = f[k]
    OBVIOUS
  <2>3. g[n + 1] = Step(f[n], n + 1)
    OBVIOUS
  <2>4. ASSUME NEW k \in 0 .. n + 1
        PROVE  g[k] = IF k = 0 THEN m ELSE Step(g[k - 1], k)
    <3> HIDE DEF g
    <3>1. CASE k = 0
      <4>1. f[0] = m
        BY <2>1
      <4> QED BY <2>2, <3>1, <4>1
    <3>2. CASE k \in 1 .. n
      <4>1. k \in 0 .. n /\ k - 1 \in 0 .. n /\ k # 0
        BY <3>2
      <4>2. f[k] = Step(f[k - 1], k)
        BY <2>1, <4>1
      <4> QED BY <2>2, <4>1, <4>2
    <3>3. CASE k = n + 1
      <4>1. k # 0 /\ k - 1 = n /\ n \in 0 .. n
        BY <3>3
      <4> QED BY <2>2, <2>3, <3>3, <4>1
    <3> QED BY <3>1, <3>2, <3>3
  <2>5. Is(g, n + 1)
    BY <2>4
  <2> HIDE DEF Is, g
  <2> QED BY <2>5
<1>3. ecx \in S
  <2> HIDE DEF S
  <2>1. \A k \in 0 .. ecx - 1 : k \in S => k + 1 \in S
    BY <1>2
  <2> QED BY <1>1, <2>1, UpTo
<1>4. \E f : f = [k \in 0 .. ecx |-> IF k = 0 THEN m ELSE Step(f[k - 1], k)]
  BY <1>3
<1> QED BY <1>4, Zenon DEF Moves, Step

LEMMA MovesAt ==
  ASSUME NEW m, NEW edi, NEW esi, NEW size, NEW ecx \in Nat, NEW down
  PROVE  LET move == Moves(m, edi, esi, size, ecx, down)
         IN  /\ move[0] = m
             /\ \A k \in 0 .. ecx - 1 :
                  move[k + 1] = UnitMoved(move[k], edi, esi, size, down, k + 1)
<1> DEFINE move == Moves(m, edi, esi, size, ecx, down)
<1>1. move = [k \in 0 .. ecx |->
         IF k = 0 THEN m
         ELSE UnitMoved(move[k - 1], edi, esi, size, down, k)]
  BY MovesExists
<1> HIDE DEF move
<1>2. 0 \in 0 .. ecx
  OBVIOUS
<1>3. ASSUME NEW k \in 0 .. ecx - 1
      PROVE  move[k + 1] = UnitMoved(move[k], edi, esi, size, down, k + 1)
  <2>1. k + 1 \in 0 .. ecx /\ k + 1 # 0 /\ (k + 1) - 1 = k
    OBVIOUS
  <2> QED BY <1>1, <2>1
<1>4. move[0] = m
  BY <1>1, <1>2
<1> QED BY <1>3, <1>4 DEF move

\* The memory m after n bytes from s on are at d.
Moved(m, d, s, n) ==
  [a \in Addr |-> IF a - d \in 0 .. n - 1 THEN m[s + a - d] ELSE m[a]]

\* The areas are inside the memory, and the destination d does not begin
\* inside the source s.
Fits(d, s, n) ==
  d + n <= MEMSIZE /\ s + n <= MEMSIZE /\ d - s \notin 1 .. n - 1

\* The areas that MemoryCall passes.
Areas(d, s, n) ==
  d \in Addr /\ s \in Addr /\ n \in Nat /\ d + n <= MEMSIZE /\ s + n <= MEMSIZE

\* Bytes that are moved behind others: the ones to be read are still there
\* unless the destination begins inside the source.
LEMMA MovedUp ==
  ASSUME NEW m, NEW d \in Nat, NEW s \in Nat, NEW p \in Nat, NEW q \in Nat,
         NEW n \in Nat, n = p + q, Fits(d, s, n)
  PROVE  Moved(Moved(m, d, s, p), d + p, s + p, q) = Moved(m, d, s, n)
<1> USE LibraryAssumption DEF Addr, Fits
<1> DEFINE m1 == Moved(m, d, s, p)
<1>1. ASSUME NEW a \in Addr
      PROVE  Moved(m1, d + p, s + p, q)[a] = Moved(m, d, s, n)[a]
  <2>1. CASE a - (d + p) \in 0 .. q - 1
    <3> DEFINE x == (s + p) + a - (d + p)
    <3>1. x \in Addr /\ x = s + a - d /\ x - d \notin 0 .. p - 1
      BY <2>1
    <3>2. m1[x] = m[x]
      BY <3>1 DEF Moved
    <3>3. Moved(m1, d + p, s + p, q)[a] = m1[x]
      BY <2>1 DEF Moved
    <3>4. a - d \in 0 .. n - 1
      BY <2>1
    <3>5. Moved(m, d, s, n)[a] = m[s + a - d]
      BY <3>4 DEF Moved
    <3> QED BY <3>1, <3>2, <3>3, <3>5
  <2>2. CASE a - (d + p) \notin 0 .. q - 1
    <3>1. a - d \in 0 .. n - 1 <=> a - d \in 0 .. p - 1
      BY <2>2
    <3>2. Moved(m1, d + p, s + p, q)[a] = m1[a]
      BY <2>2 DEF Moved
    <3> QED BY <3>1, <3>2 DEF Moved
  <2> QED BY <2>1, <2>2
<1> QED BY <1>1 DEF Moved

LEMMA MovedNothing ==
  ASSUME NEW m \in [Addr -> Byte], NEW d, NEW s
  PROVE  Moved(m, d, s, 0) = m
<1>1. \A i : i \notin 0 .. 0 - 1
  OBVIOUS
<1>2. ASSUME NEW a \in Addr PROVE Moved(m, d, s, 0)[a] = m[a]
  BY <1>1 DEF Moved
<1> QED BY <1>2 DEF Moved

LEMMA MovedType ==
  ASSUME NEW m \in [Addr -> Byte], NEW d \in Addr, NEW s \in Addr,
         NEW n \in Nat, s + n <= MEMSIZE
  PROVE  Moved(m, d, s, n) \in [Addr -> Byte]
<1> USE LibraryAssumption DEF Addr
<1>1. ASSUME NEW a \in Addr, a - d \in 0 .. n - 1
      PROVE  s + a - d \in Addr
  BY <1>1
<1>2. ASSUME NEW a \in Addr
      PROVE  (IF a - d \in 0 .. n - 1 THEN m[s + a - d] ELSE m[a]) \in Byte
  <2>1. CASE a - d \in 0 .. n - 1
    BY <1>1, <2>1
  <2>2. CASE a - d \notin 0 .. n - 1
    BY <2>2
  <2> QED BY <2>1, <2>2
<1> QED BY <1>2 DEF Moved

\* rep movs upwards, and its k-th memory.
MovsUp(m, edi, esi, size, ecx) == RepMovs(m, edi, esi, size, ecx, FALSE)

UpTo_(m, edi, esi, size, ecx, k) == Moves(m, edi, esi, size, ecx, FALSE)[k]

IsUp(m, d, s, size, ecx) ==
  /\ UpTo_(m, d, s, size, ecx, 0) = m
  /\ \A k \in 0 .. ecx - 1 : UpTo_(m, d, s, size, ecx, k + 1) =
       MoveUnit(UpTo_(m, d, s, size, ecx, k), d + size * k, s + size * k, size)
  /\ MovsUp(m, d, s, size, ecx) = UpTo_(m, d, s, size, ecx, ecx)

LEMMA MovsUpAt ==
  ASSUME NEW m, NEW d \in Nat, NEW s \in Nat, NEW size \in {1, 4},
         NEW ecx \in Nat
  PROVE  IsUp(m, d, s, size, ecx)
<1>0. PICK down \in BOOLEAN : down = FALSE
  OBVIOUS
<1> DEFINE move == Moves(m, d, s, size, ecx, down)
<1>1. /\ move[0] = m
      /\ \A k \in 0 .. ecx - 1 :
           move[k + 1] = UnitMoved(move[k], d, s, size, down, k + 1)
  BY MovesAt
<1> HIDE DEF move
<1>2. \A k : UpTo_(m, d, s, size, ecx, k) = move[k]
  BY <1>0 DEF move, UpTo_
<1>3. ASSUME NEW k \in 0 .. ecx - 1
      PROVE  /\ UnitAt(d, size, (k + 1) - 1, down) = d + size * k
             /\ UnitAt(s, size, (k + 1) - 1, down) = s + size * k
  BY <1>0 DEF UnitAt
<1>4. ASSUME NEW k \in 0 .. ecx - 1
      PROVE  move[k + 1] = MoveUnit(move[k], d + size * k, s + size * k, size)
  BY <1>1, <1>3 DEF UnitMoved
<1>5. MovsUp(m, d, s, size, ecx) = move[ecx]
  BY <1>0, RepMovsUnfolds DEF MovsUp, move
<1> QED BY <1>1, <1>2, <1>4, <1>5 DEF IsUp

\* size * ecx is n.
Covers(size, ecx, n) == n = size * ecx

\* rep movs upwards, by bytes and by double words.
LEMMA RepMovsUp ==
  ASSUME NEW m \in [Addr -> Byte], NEW d \in Nat, NEW s \in Nat,
         NEW size \in {1, 4}, NEW ecx \in Nat, NEW n \in Nat,
         Covers(size, ecx, n), Fits(d, s, n)
  PROVE  MovsUp(m, d, s, size, ecx) = Moved(m, d, s, n)
<1> USE LibraryAssumption DEF Covers
<1> DEFINE move(k) == UpTo_(m, d, s, size, ecx, k)
           S == {k \in 0 .. ecx : move(k) = Moved(m, d, s, size * k)}
<1>1. /\ move(0) = m
      /\ \A k \in 0 .. ecx - 1 : move(k + 1) =
           MoveUnit(move(k), d + size * k, s + size * k, size)
      /\ MovsUp(m, d, s, size, ecx) = move(ecx)
  <2>1. IsUp(m, d, s, size, ecx)
    BY MovsUpAt
  <2> QED BY <2>1 DEF IsUp
<1> HIDE DEF move
<1>2. 0 \in S
  <2>1. move(0) = m /\ size * 0 = 0
    BY <1>1
  <2> QED BY <2>1, MovedNothing
<1>3. ASSUME NEW k \in 0 .. ecx - 1, k \in S PROVE k + 1 \in S
  <2>1. k + 1 \in 0 .. ecx
    OBVIOUS
  <2>2. PICK p \in Nat : p = size * k
    OBVIOUS
  <2>3. move(k) = Moved(m, d, s, p)
    BY <1>3, <2>2
  <2>4. move(k + 1) = MoveUnit(move(k), d + p, s + p, size)
    BY <1>1, <2>2
  <2>5. MoveUnit(move(k), d + p, s + p, size)
          = Moved(move(k), d + p, s + p, size)
    BY Zenon DEF MoveUnit, Moved
  <2>6. PICK r \in Nat : r = p + size
    OBVIOUS
  <2>7. size \in Nat /\ r = size * (k + 1) /\ Fits(d, s, r)
    BY <2>2, <2>6 DEF Fits
  <2>8. Moved(Moved(m, d, s, p), d + p, s + p, size) = Moved(m, d, s, r)
    BY <2>6, <2>7, MovedUp
  <2>9. move(k + 1) = Moved(m, d, s, size * (k + 1))
    BY <2>3, <2>4, <2>5, <2>7, <2>8
  <2> QED BY <2>1, <2>9
<1>4. ecx \in S
  <2> HIDE DEF S
  <2>1. \A k \in 0 .. ecx - 1 : k \in S => k + 1 \in S
    BY <1>3
  <2>2. \A k \in 0 .. ecx : k \in S
    BY <1>2, <2>1, UpTo
  <2> QED BY <2>2
<1> QED BY <1>1, <1>4

LEMMA MovsbUp ==
  ASSUME NEW m \in [Addr -> Byte], NEW d \in Nat, NEW s \in Nat,
         NEW n \in Nat, Fits(d, s, n)
  PROVE  MovsUp(m, d, s, 1, n) = Moved(m, d, s, n)
<1>1. PICK size \in {1, 4} : size = 1
  OBVIOUS
<1>2. Covers(size, n, n)
  BY <1>1 DEF Covers
<1>3. MovsUp(m, d, s, size, n) = Moved(m, d, s, n)
  BY <1>2, RepMovsUp
<1> QED BY <1>1, <1>3

LEMMA MovslUp ==
  ASSUME NEW m \in [Addr -> Byte], NEW d \in Nat, NEW s \in Nat,
         NEW words \in Nat, NEW n \in Nat, n = 4 * words, Fits(d, s, n)
  PROVE  MovsUp(m, d, s, 4, words) = Moved(m, d, s, n)
<1>1. PICK size \in {1, 4} : size = 4
  OBVIOUS
<1>2. Covers(size, words, n)
  BY <1>1 DEF Covers
<1>3. MovsUp(m, d, s, size, words) = Moved(m, d, s, n)
  BY <1>2, RepMovsUp
<1> QED BY <1>1, <1>3

\* A byte that is moved to the place below others that came from above it.
LEMMA MovedDown ==
  ASSUME NEW m, NEW d \in Nat, NEW s \in Nat, NEW k \in Nat, s < d,
         d >= 1, s >= 1, d + k <= MEMSIZE
  PROVE  Moved(Moved(m, d, s, k), d - 1, s - 1, 1)
           = Moved(m, d - 1, s - 1, k + 1)
<1> USE LibraryAssumption DEF Addr
<1> DEFINE m1 == Moved(m, d, s, k)
<1>1. ASSUME NEW a \in Addr
      PROVE  Moved(m1, d - 1, s - 1, 1)[a] = Moved(m, d - 1, s - 1, k + 1)[a]
  <2>1. CASE a = d - 1
    <3>1. /\ a - (d - 1) \in 0 .. 1 - 1 /\ a - (d - 1) \in 0 .. (k + 1) - 1
          /\ (s - 1) + a - (d - 1) = s - 1
          /\ s - 1 \in Addr /\ (s - 1) - d \notin 0 .. k - 1
      BY <2>1
    <3>2. m1[s - 1] = m[s - 1]
      BY <3>1 DEF Moved
    <3> HIDE DEF m1
    <3>3. /\ Moved(m1, d - 1, s - 1, 1)[a] = m1[s - 1]
          /\ Moved(m, d - 1, s - 1, k + 1)[a] = m[s - 1]
      BY <3>1 DEF Moved
    <3> QED BY <3>2, <3>3
  <2>2. CASE a # d - 1
    <3>1. /\ a - (d - 1) \notin 0 .. 1 - 1
          /\ a - (d - 1) \in 0 .. (k + 1) - 1 <=> a - d \in 0 .. k - 1
          /\ (s - 1) + a - (d - 1) = s + a - d
      BY <2>2
    <3>2. Moved(m1, d - 1, s - 1, 1)[a] = m1[a]
      BY <3>1 DEF Moved
    <3> QED BY <3>1, <3>2 DEF Moved
  <2> QED BY <2>1, <2>2
<1> QED BY <1>1 DEF Moved

\* rep movs downwards, by bytes, from the last one.
MovsDown(m, d, s, n) == RepMovs(m, d + (n - 1), s + (n - 1), 1, n, TRUE)

LEMMA RepMovsDown ==
  ASSUME NEW m \in [Addr -> Byte], NEW d \in Addr, NEW s \in Addr,
         NEW n \in Nat, Areas(d, s, n), s < d
  PROVE  MovsDown(m, d, s, n) = Moved(m, d, s, n)
<1>a. d + n <= MEMSIZE /\ s + n <= MEMSIZE
  BY DEF Areas
<1> USE LibraryAssumption
<1>0. PICK down \in BOOLEAN : down = TRUE
  OBVIOUS
<1> DEFINE edi == d + (n - 1)
           esi == s + (n - 1)
           move == Moves(m, edi, esi, 1, n, down)
           S == {k \in 0 .. n :
                   move[k] = Moved(m, d + (n - k), s + (n - k), k)}
<1>1. /\ move[0] = m
      /\ \A k \in 0 .. n - 1 :
           move[k + 1] = UnitMoved(move[k], edi, esi, 1, down, k + 1)
  <2> HIDE DEF edi, esi
  <2> QED BY MovesAt
<1> HIDE DEF move
<1>2. 0 \in S
  <2>1. move[0] = m
    BY <1>1
  <2> QED BY <2>1, MovedNothing
<1>3. ASSUME NEW k \in 0 .. n - 1, k \in S PROVE k + 1 \in S
  <2>1. k + 1 \in 0 .. n /\ k + 1 # 0 /\ (k + 1) - 1 = k /\ k \in Nat
    OBVIOUS
  <2>2. move[k + 1] = UnitMoved(move[k], edi, esi, 1, down, k + 1)
    BY <1>1, <2>1
  <2>3. PICK dd \in Nat : dd = d + (n - k)
    BY DEF Addr
  <2>4. PICK ss \in Nat : ss = s + (n - k)
    BY DEF Addr
  <2>5. /\ UnitAt(edi, 1, (k + 1) - 1, down) = dd - 1
        /\ UnitAt(esi, 1, (k + 1) - 1, down) = ss - 1
    BY <1>0, <2>3, <2>4 DEF UnitAt, Addr
  <2>6. move[k] = Moved(m, dd, ss, k)
    BY <1>3, <2>3, <2>4
  <2>7. UnitMoved(move[k], edi, esi, 1, down, k + 1)
          = Moved(move[k], dd - 1, ss - 1, 1)
    BY <2>5, Zenon DEF UnitMoved, MoveUnit, Moved
  <2>8. ss < dd /\ dd >= 1 /\ ss >= 1 /\ dd + k <= MEMSIZE
    BY <1>a, <2>3, <2>4 DEF Addr
  <2>9. Moved(Moved(m, dd, ss, k), dd - 1, ss - 1, 1)
          = Moved(m, dd - 1, ss - 1, k + 1)
    BY <2>1, <2>8, MovedDown
  <2>10. dd - 1 = d + (n - (k + 1)) /\ ss - 1 = s + (n - (k + 1))
    BY <2>3, <2>4 DEF Addr
  <2>11. move[k + 1] = Moved(m, d + (n - (k + 1)), s + (n - (k + 1)), k + 1)
    BY <2>2, <2>6, <2>7, <2>9, <2>10
  <2> QED BY <2>1, <2>11
<1>4. n \in S
  <2> HIDE DEF S
  <2>1. \A k \in 0 .. n - 1 : k \in S => k + 1 \in S
    BY <1>3
  <2>2. \A k \in 0 .. n : k \in S
    BY <1>2, <2>1, UpTo
  <2> QED BY <2>2
<1>5. d + (n - n) = d /\ s + (n - n) = s
  BY DEF Addr
<1>6. move[n] = Moved(m, d, s, n)
  BY <1>4, <1>5
<1> QED BY <1>0, <1>6, RepMovsUnfolds DEF move, MovsDown

\* rep movs upwards leaves bytes in the memory, also where areas overlap.
LEMMA RepMovsType ==
  ASSUME NEW m \in [Addr -> Byte], NEW d \in Nat, NEW s \in Nat,
         NEW size \in {1, 4}, NEW ecx \in Nat, NEW n \in Nat,
         Covers(size, ecx, n), s + n <= MEMSIZE
  PROVE  MovsUp(m, d, s, size, ecx) \in [Addr -> Byte]
<1> USE LibraryAssumption DEF Covers
<1> DEFINE move(k) == UpTo_(m, d, s, size, ecx, k)
           S == {k \in 0 .. ecx : move(k) \in [Addr -> Byte]}
<1>1. /\ move(0) = m
      /\ \A k \in 0 .. ecx - 1 : move(k + 1) =
           MoveUnit(move(k), d + size * k, s + size * k, size)
      /\ MovsUp(m, d, s, size, ecx) = move(ecx)
  <2>1. IsUp(m, d, s, size, ecx)
    BY MovsUpAt
  <2> QED BY <2>1 DEF IsUp
<1> HIDE DEF move
<1>2. 0 \in S
  BY <1>1
<1>3. ASSUME NEW k \in 0 .. ecx - 1, k \in S PROVE k + 1 \in S
  <2>1. PICK to \in Nat : to = d + size * k
    OBVIOUS
  <2>2. PICK from \in Nat : from = s + size * k
    OBVIOUS
  <2>3. from + size <= MEMSIZE
    BY <2>2
  <2>4. PICK done \in [Addr -> Byte] : done = move(k)
    BY <1>3
  <2>5. move(k + 1) = MoveUnit(done, to, from, size)
    BY <1>1, <2>1, <2>2, <2>4
  <2>6. ASSUME NEW a \in Addr
        PROVE  (IF a - to \in 0 .. size - 1 THEN done[from + a - to]
                ELSE done[a]) \in Byte
    <3>1. CASE a - to \in 0 .. size - 1
      <4>1. from + a - to \in Addr
        BY <2>3, <3>1 DEF Addr
      <4> QED BY <3>1, <4>1
    <3>2. CASE a - to \notin 0 .. size - 1
      BY <3>2
    <3> QED BY <3>1, <3>2
  <2>7. MoveUnit(done, to, from, size) \in [Addr -> Byte]
    BY <2>6 DEF MoveUnit
  <2> QED BY <2>5, <2>7
<1>4. ecx \in S
  <2> HIDE DEF S
  <2>1. \A k \in 0 .. ecx - 1 : k \in S => k + 1 \in S
    BY <1>3
  <2>2. \A k \in 0 .. ecx : k \in S
    BY <1>2, <2>1, UpTo
  <2> QED BY <2>2
<1> QED BY <1>1, <1>4

-----------------------------------------------------------------------------
(* The memory routines. *)

\* The three parts that memset and memcpy take an area apart into.
LEMMA HeadParts ==
  ASSUME NEW addr \in Nat, NEW n \in Nat
  PROVE  /\ Head_(addr, n) \in 0 .. n
         /\ (n - Head_(addr, n)) \div Len4 \in Nat
         /\ (n - Head_(addr, n)) % Len4 \in Nat
         /\ Head_(addr, n) + 4 * ((n - Head_(addr, n)) \div Len4)
              + ((n - Head_(addr, n)) % Len4) = n
<1>1. Head_(addr, n) \in 0 .. n
  BY DEF Head_, Len4
<1>2. PICK r \in Nat : r = n - Head_(addr, n)
  BY <1>1
<1> QED BY <1>1, <1>2 DEF Len4

LEMMA memcpy_right ==
  ASSUME NEW d, NEW s, NEW n, Areas(d, s, n), mem \in [Addr -> Byte],
         memcpy(d, s, n)
  PROVE  MemoryRight' /\ StringsRight' /\ mem' \in [Addr -> Byte]
<1> USE LibraryAssumption
<1>0. /\ d \in Addr /\ s \in Addr /\ d \in Nat /\ s \in Nat /\ n \in Nat
      /\ d + n <= MEMSIZE /\ s + n <= MEMSIZE
  BY DEF Areas, Addr
<1>1. PICK m \in [Addr -> Byte] : m = mem
  OBVIOUS
<1>2. PICK head \in Nat : head = Head_(d, n)
  BY <1>0, HeadParts
<1>3. PICK words \in Nat : words = (n - head) \div Len4
  BY <1>0, <1>2, HeadParts
<1>4. PICK tail \in Nat : tail = (n - head) % Len4
  BY <1>0, <1>2, HeadParts
<1>5. head + 4 * words + tail = n /\ head <= n
  BY <1>0, <1>2, <1>3, <1>4, HeadParts
<1>6. PICK past \in Nat : past = head + 4 * words
  OBVIOUS
<1>7. PICK m1 : m1 = MovsUp(m, d, s, 1, head)
  OBVIOUS
<1>8. PICK m2 : m2 = MovsUp(m1, d + head, s + head, 4, words)
  OBVIOUS
<1>9. /\ mem' = MovsUp(m2, d + past, s + past, 1, tail)
      /\ call' = [fn |-> "memcpy", s |-> s, d |-> d, n |-> n]
      /\ before' = m
  BY <1>1, <1>2, <1>3, <1>4, <1>6, <1>7, <1>8 DEF memcpy, Called,
       Len4, MovsUp
<1>10. m1 \in [Addr -> Byte]
  <2>1. Covers(1, head, head) /\ s + head <= MEMSIZE
    BY <1>0, <1>5 DEF Covers
  <2> QED BY <1>0, <1>7, <2>1, RepMovsType
<1>11. m2 \in [Addr -> Byte]
  <2>1. PICK d1 \in Nat : d1 = d + head
    BY <1>0
  <2>2. PICK s1 \in Nat : s1 = s + head
    BY <1>0
  <2>3. PICK q \in Nat : q = 4 * words
    OBVIOUS
  <2>4. Covers(4, words, q) /\ s1 + q <= MEMSIZE
    BY <1>0, <1>5, <2>2, <2>3 DEF Covers
  <2> QED BY <1>8, <1>10, <2>1, <2>2, <2>4, RepMovsType
<1>12. mem' \in [Addr -> Byte]
  <2>1. PICK d2 \in Nat : d2 = d + past
    BY <1>0
  <2>2. PICK s2 \in Nat : s2 = s + past
    BY <1>0
  <2>3. Covers(1, tail, tail) /\ s2 + tail <= MEMSIZE
    BY <1>0, <1>5, <1>6, <2>2 DEF Covers
  <2> QED BY <1>9, <1>11, <2>1, <2>2, <2>3, RepMovsType
<1>13. ASSUME d - s \notin 1 .. n - 1 PROVE mem' = Moved(m, d, s, n)
  <2>1. m1 = Moved(m, d, s, head)
    <3>1. Fits(d, s, head)
      BY <1>0, <1>5, <1>13 DEF Fits
    <3> QED BY <1>0, <1>7, <3>1, MovsbUp
  <2>2. m2 = Moved(m, d, s, past)
    <3>1. PICK q \in Nat : q = 4 * words
      OBVIOUS
    <3>2. PICK d1 \in Nat : d1 = d + head
      BY <1>0
    <3>3. PICK s1 \in Nat : s1 = s + head
      BY <1>0
    <3>4. Fits(d1, s1, q)
      BY <1>0, <1>5, <1>13, <3>1, <3>2, <3>3 DEF Fits
    <3>5. m2 = Moved(m1, d1, s1, q)
      BY <1>8, <1>10, <3>1, <3>2, <3>3, <3>4, MovslUp
    <3>6. past = head + q /\ Fits(d, s, past)
      BY <1>0, <1>5, <1>6, <1>13, <3>1 DEF Fits
    <3>7. Moved(Moved(m, d, s, head), d + head, s + head, q)
            = Moved(m, d, s, past)
      BY <1>0, <3>6, MovedUp
    <3> QED BY <1>6, <2>1, <3>1, <3>2, <3>3, <3>5, <3>7
  <2>3. PICK d2 \in Nat : d2 = d + past
    BY <1>0
  <2>4. PICK s2 \in Nat : s2 = s + past
    BY <1>0
  <2>5. Fits(d2, s2, tail)
    BY <1>0, <1>5, <1>6, <1>13, <2>3, <2>4 DEF Fits
  <2>6. mem' = Moved(m2, d2, s2, tail)
    BY <1>9, <1>11, <2>3, <2>4, <2>5, MovsbUp
  <2>7. n = past + tail /\ Fits(d, s, n)
    BY <1>0, <1>5, <1>6, <1>13 DEF Fits
  <2>8. Moved(Moved(m, d, s, past), d + past, s + past, tail)
          = Moved(m, d, s, n)
    BY <1>0, <2>7, MovedUp
  <2> QED BY <2>2, <2>3, <2>4, <2>6, <2>7, <2>8
<1>14. MemoryRight'
  BY <1>9, <1>13 DEF MemoryRight, Copied, Moved
<1>15. StringsRight'
  BY <1>9 DEF StringsRight
<1> QED BY <1>12, <1>14, <1>15

LEMMA memmove_right ==
  ASSUME NEW d, NEW s, NEW n, Areas(d, s, n), mem \in [Addr -> Byte],
         memmove(d, s, n)
  PROVE  MemoryRight' /\ StringsRight' /\ mem' \in [Addr -> Byte]
<1> USE LibraryAssumption
<1>0. /\ d \in Addr /\ s \in Addr /\ d \in Nat /\ s \in Nat /\ n \in Nat
      /\ d + n <= MEMSIZE /\ s + n <= MEMSIZE
  BY DEF Areas, Addr
<1>1. PICK m \in [Addr -> Byte] : m = mem
  OBVIOUS
<1>2. /\ call' = [fn |-> "memmove", s |-> s, d |-> d, n |-> n]
      /\ before' = m
  BY <1>1 DEF memmove, Called
<1>3. mem' = Moved(m, d, s, n)
  <2>1. CASE s < d
    <3>1. mem' = MovsDown(m, d, s, n)
      BY <1>1, <2>1 DEF memmove, MovsDown
    <3> QED BY <1>0, <2>1, <3>1, RepMovsDown
  <2>2. CASE ~(s < d)
    <3>1. mem' = MovsUp(m, d, s, 1, n)
      <4>1. d + 0 = d /\ s + 0 = s
        BY <1>0
      <4>2. (s < d) = FALSE
        BY <2>2
      <4>3. PICK last : last = IF s < d THEN n - 1 ELSE 0
        OBVIOUS
      <4>4. mem' = RepMovs(m, d + last, s + last, 1, n, s < d)
        BY <1>1, <4>3, Zenon DEF memmove
      <4>5. last = 0
        BY <2>2, <4>3
      <4> QED BY <4>1, <4>2, <4>4, <4>5, Zenon DEF MovsUp
    <3>2. Fits(d, s, n)
      BY <1>0, <2>2 DEF Fits
    <3> QED BY <1>0, <3>1, <3>2, MovsbUp
  <2> QED BY <2>1, <2>2
<1>4. mem' \in [Addr -> Byte]
  BY <1>0, <1>3, MovedType
<1>5. MemoryRight'
  BY <1>2, <1>3 DEF MemoryRight, Copied, Moved
<1>6. StringsRight'
  BY <1>2 DEF StringsRight
<1> QED BY <1>4, <1>5, <1>6

\* rep stos upwards.
StosUp(m, edi, value, size, ecx) == RepStos(m, edi, value, size, ecx, FALSE)

\* The memory m with the n bytes at s filled with the bytes of value in turn.
Filled(m, s, value, size, n) ==
  [a \in Addr |-> IF a - s \in 0 .. n - 1 THEN value[((a - s) % size) + 1]
                  ELSE m[a]]

LEMMA RepStosUp ==
  ASSUME NEW m \in [Addr -> Byte], NEW s \in Nat, NEW value,
         NEW size \in {1, 2, 4}, NEW ecx \in Nat, NEW n \in Nat,
         Covers(size, ecx, n)
  PROVE  StosUp(m, s, value, size, ecx) = Filled(m, s, value, size, n)
<1> USE LibraryAssumption
<1> DEFINE hit(a) == {k \in 0 .. ecx - 1 :
                        a - UnitAt(s, size, k, FALSE) \in 0 .. size - 1}
           k0(a) == CHOOSE k \in hit(a) : TRUE
<1>1. ASSUME NEW a \in Addr, NEW k \in 0 .. ecx - 1
      PROVE  /\ UnitAt(s, size, k, FALSE) = s + size * k
             /\ a - (s + size * k) \in 0 .. size - 1
                  => /\ a - s \in 0 .. n - 1
                     /\ a - (s + size * k) = (a - s) % size
  <2>1. UnitAt(s, size, k, FALSE) = s + size * k
    BY DEF UnitAt
  <2>2. ASSUME a - (s + size * k) \in 0 .. size - 1
        PROVE  a - s \in 0 .. n - 1 /\ a - (s + size * k) = (a - s) % size
    <3>1. PICK x \in Int : x = a - s
      BY DEF Addr
    <3>2. x - size * k \in 0 .. size - 1
      BY <2>2, <3>1 DEF Addr
    <3>3. x \in 0 .. n - 1 /\ x - size * k = x % size
      <4>1. CASE size = 1
        BY <3>2, <4>1 DEF Covers
      <4>2. CASE size = 2
        BY <3>2, <4>2 DEF Covers
      <4>3. CASE size = 4
        BY <3>2, <4>3 DEF Covers
      <4> QED BY <4>1, <4>2, <4>3
    <3> QED BY <3>1, <3>3 DEF Addr
  <2> QED BY <2>1, <2>2
<1>2. ASSUME NEW a \in Addr, a - s \in 0 .. n - 1
      PROVE  \E k \in 0 .. ecx - 1 : a - (s + size * k) \in 0 .. size - 1
  <2>1. PICK x \in 0 .. n - 1 : x = a - s
    BY <1>2
  <2>2. /\ x \div size \in 0 .. ecx - 1
        /\ x - size * (x \div size) \in 0 .. size - 1
    <3>1. CASE size = 1
      <4>1. x \div 1 = x /\ ecx = n
        BY <2>1, <3>1 DEF Covers
      <4> QED BY <3>1, <4>1
    <3>2. CASE size = 2
      <4>1. PICK y \in Int : y = x \div 2
        OBVIOUS
      <4>2. x - 2 * y \in 0 .. 1
        BY <4>1
      <4>3. n = 2 * ecx
        BY <3>2 DEF Covers
      <4>4. y \in 0 .. ecx - 1
        BY <4>2, <4>3
      <4> QED BY <3>2, <4>1, <4>2, <4>4
    <3>3. CASE size = 4
      <4>1. PICK y \in Int : y = x \div 4
        OBVIOUS
      <4>2. x - 4 * y \in 0 .. 3
        BY <4>1
      <4>3. n = 4 * ecx
        BY <3>3 DEF Covers
      <4>4. y \in 0 .. ecx - 1
        BY <4>2, <4>3
      <4> QED BY <3>3, <4>1, <4>2, <4>4
    <3> QED BY <3>1, <3>2, <3>3
  <2>3. PICK k \in 0 .. ecx - 1 : k = x \div size
    BY <2>2
  <2>4. a - (s + size * k) \in 0 .. size - 1
    BY <2>1, <2>2, <2>3 DEF Addr
  <2> QED BY <2>4
<1>3. ASSUME NEW a \in Addr
      PROVE  (IF hit(a) = {} THEN m[a]
              ELSE value[a - UnitAt(s, size, k0(a), FALSE) + 1])
             = Filled(m, s, value, size, n)[a]
  <2>1. CASE hit(a) = {}
    <3>1. a - s \notin 0 .. n - 1
      BY <1>1, <1>2, <2>1
    <3> QED BY <2>1, <3>1 DEF Filled
  <2>2. CASE hit(a) # {}
    <3>1. k0(a) \in hit(a)
      BY <2>2
    <3>2. PICK k \in 0 .. ecx - 1 : k = k0(a)
      BY <3>1
    <3>3. /\ UnitAt(s, size, k, FALSE) = s + size * k
          /\ a - (s + size * k) \in 0 .. size - 1
      BY <1>1, <3>1, <3>2
    <3>4. a - s \in 0 .. n - 1 /\ a - (s + size * k) = (a - s) % size
      BY <1>1, <3>3
    <3> HIDE DEF hit, k0
    <3> QED BY <2>2, <3>2, <3>3, <3>4 DEF Filled
  <2> QED BY <2>1, <2>2
<1>4. StosUp(m, s, value, size, ecx) = [a \in Addr |->
        IF hit(a) = {} THEN m[a]
        ELSE value[a - UnitAt(s, size, k0(a), FALSE) + 1]]
  BY Zenon DEF StosUp, RepStos
<1>5. Filled(m, s, value, size, n)
        = [a \in Addr |-> Filled(m, s, value, size, n)[a]]
  BY DEF Filled
<1> HIDE DEF hit, k0
<1> QED BY <1>3, <1>4, <1>5

\* The memory m with v in the n bytes at s.
Set(m, s, v, n) ==
  [a \in Addr |-> IF a - s \in 0 .. n - 1 THEN v ELSE m[a]]

LEMMA SetOn ==
  ASSUME NEW m \in [Addr -> Byte], NEW s \in Nat, NEW v \in Byte,
         NEW p \in Nat, NEW q \in Nat, NEW n \in Nat, n = p + q
  PROVE  Set(Set(m, s, v, p), s + p, v, q) = Set(m, s, v, n)
<1> USE LibraryAssumption DEF Addr
<1>1. ASSUME NEW a \in Addr
      PROVE  a - s \in 0 .. n - 1 <=> \/ a - s \in 0 .. p - 1
                                     \/ a - (s + p) \in 0 .. q - 1
  OBVIOUS
<1>2. ASSUME NEW a \in Addr
      PROVE  Set(Set(m, s, v, p), s + p, v, q)[a] = Set(m, s, v, n)[a]
  BY <1>1 DEF Set
<1> QED BY <1>2 DEF Set

LEMMA SetType ==
  ASSUME NEW m \in [Addr -> Byte], NEW s, NEW v \in Byte, NEW n
  PROVE  Set(m, s, v, n) \in [Addr -> Byte]
  BY DEF Set

\* memset stores the same byte everywhere.
Same(v) == [i \in 1 .. Len4 |-> v]

LEMMA SetBytes ==
  ASSUME NEW m \in [Addr -> Byte], NEW s \in Nat, NEW v \in Byte,
         NEW size \in {1, 4}, NEW ecx \in Nat, NEW n \in Nat,
         Covers(size, ecx, n)
  PROVE  StosUp(m, s, Same(v), size, ecx) = Set(m, s, v, n)
<1>1. PICK al : al = [i \in 1 .. 4 |-> v]
  OBVIOUS
<1>2. StosUp(m, s, al, size, ecx) = Filled(m, s, al, size, n)
  <2>1. PICK z \in {1, 2, 4} : z = size
    OBVIOUS
  <2>2. StosUp(m, s, al, z, ecx) = Filled(m, s, al, z, n)
    BY <2>1, RepStosUp
  <2> QED BY <2>1, <2>2
<1>3. ASSUME NEW a \in Addr PROVE al[((a - s) % size) + 1] = v
  <2>1. PICK x \in Int : x = a - s
    BY LibraryAssumption DEF Addr
  <2>2. (x % size) + 1 \in 1 .. 4
    <3>1. CASE size = 1
      BY <3>1
    <3>2. CASE size = 4
      BY <3>2
    <3> QED BY <3>1, <3>2
  <2> QED BY <1>1, <2>1, <2>2
<1>4. Filled(m, s, al, size, n) = Set(m, s, v, n)
  BY <1>3 DEF Filled, Set
<1> QED BY <1>1, <1>2, <1>4 DEF Len4, Same

LEMMA memset_right ==
  ASSUME NEW s \in Addr, NEW c \in Nat, NEW n \in Nat, s + n <= MEMSIZE,
         mem \in [Addr -> Byte], memset(s, c, n)
  PROVE  MemoryRight' /\ StringsRight' /\ mem' \in [Addr -> Byte]
<1> USE LibraryAssumption
<1>0. s \in Nat
  BY DEF Addr
<1>1. PICK m \in [Addr -> Byte] : m = mem
  OBVIOUS
<1>2. PICK head \in Nat : head = Head_(s, n)
  BY <1>0, HeadParts
<1>3. PICK words \in Nat : words = (n - head) \div Len4
  BY <1>0, <1>2, HeadParts
<1>4. PICK tail \in Nat : tail = (n - head) % Len4
  BY <1>0, <1>2, HeadParts
<1>5. head + 4 * words + tail = n
  BY <1>0, <1>2, <1>3, <1>4, HeadParts
<1>6. PICK v \in Byte : v = c % 256
  BY DEF Byte
<1>7. PICK q \in Nat : q = 4 * words
  OBVIOUS
<1>8. PICK past \in Nat : past = head + q
  OBVIOUS
<1>9. PICK m1 : m1 = StosUp(m, s, Same(v), 1, head)
  OBVIOUS
<1>10. PICK m2 : m2 = StosUp(m1, s + head, Same(v), 4, words)
  OBVIOUS
<1>11. /\ mem' = StosUp(m2, s + head + 4 * words, Same(v), 1, tail)
       /\ call' = [fn |-> "memset", s |-> s, c |-> c, n |-> n]
       /\ before' = m
  BY <1>1, <1>2, <1>3, <1>4, <1>6, <1>9, <1>10
     DEF memset, Called, Len4, StosUp, Same
<1>12. m1 = Set(m, s, v, head)
  <2>1. Covers(1, head, head)
    BY DEF Covers
  <2> QED BY <1>0, <1>9, <2>1, SetBytes
<1>a. m1 \in [Addr -> Byte]
  BY <1>12, SetType
<1>13. m2 = Set(m, s, v, past)
  <2>1. PICK s1 \in Nat : s1 = s + head
    BY <1>0
  <2>2. Covers(4, words, q)
    BY <1>7 DEF Covers
  <2>3. m2 = Set(m1, s1, v, q)
    BY <1>10, <1>a, <2>1, <2>2, SetBytes
  <2>4. Set(Set(m, s, v, head), s + head, v, q) = Set(m, s, v, past)
    BY <1>0, <1>8, SetOn
  <2> QED BY <1>12, <2>1, <2>3, <2>4
<1>b. m2 \in [Addr -> Byte]
  BY <1>13, SetType
<1>14. mem' = Set(m, s, v, n)
  <2>1. PICK s2 \in Nat : s2 = s + past
    BY <1>0
  <2>2. Covers(1, tail, tail) /\ s2 = s + head + 4 * words /\ n = past + tail
    BY <1>0, <1>5, <1>7, <1>8, <2>1 DEF Covers
  <2>3. mem' = Set(m2, s2, v, tail)
    <3>1. mem' = StosUp(m2, s2, Same(v), 1, tail)
      BY <1>11, <2>2
    <3> QED BY <1>b, <2>2, <3>1, SetBytes
  <2>4. Set(Set(m, s, v, past), s + past, v, tail) = Set(m, s, v, n)
    BY <1>0, <2>2, SetOn
  <2> QED BY <1>13, <2>1, <2>3, <2>4
<1>15. mem' \in [Addr -> Byte]
  BY <1>14 DEF Set
<1>16. MemoryRight'
  BY <1>6, <1>11, <1>14 DEF MemoryRight, Set
<1>17. StringsRight'
  BY <1>11 DEF StringsRight
<1> QED BY <1>15, <1>16, <1>17

\* A byte of a register is a byte.
LEMMA BytesType ==
  ASSUME NEW c \in Nat, NEW i \in 1 .. 4
  PROVE  (c \div PlaceValue[i]) % 256 \in Byte
<1>1. PICK b \in Nat \ {0} : b = PlaceValue[i]
  <2>1. CASE i = 1
    BY <2>1 DEF PlaceValue
  <2>2. CASE i = 2
    BY <2>2 DEF PlaceValue
  <2>3. CASE i = 3
    BY <2>3 DEF PlaceValue
  <2>4. CASE i = 4
    BY <2>4 DEF PlaceValue
  <2> QED BY <2>1, <2>2, <2>3, <2>4
<1>2. c \div b \in Int
  OBVIOUS
<1>3. \A x \in Int : x % 256 \in Byte
  BY DEF Byte
<1> QED BY <1>1, <1>2, <1>3

\* Units of 2 or 4 bytes, from a register that holds c.
LEMMA UnitsSet ==
  ASSUME NEW m \in [Addr -> Byte], NEW s \in Nat, NEW c \in Nat,
         NEW size \in {2, 4}, NEW ecx \in Nat, NEW n \in Nat,
         Covers(size, ecx, n)
  PROVE  /\ StosUp(m, s, Bytes(c, size), size, ecx) =
              [a \in Addr |-> IF a - s \in 0 .. n - 1
                              THEN Bytes(c, 4)[((a - s) % size) + 1]
                              ELSE m[a]]
         /\ StosUp(m, s, Bytes(c, size), size, ecx) \in [Addr -> Byte]
<1>1. PICK b : b = Bytes(c, size)
  OBVIOUS
<1>2. StosUp(m, s, b, size, ecx) = Filled(m, s, b, size, n)
  <2>1. PICK z \in {1, 2, 4} : z = size
    OBVIOUS
  <2>2. StosUp(m, s, b, z, ecx) = Filled(m, s, b, z, n)
    BY <2>1, RepStosUp
  <2> QED BY <2>1, <2>2
<1>3. ASSUME NEW a \in Addr
      PROVE  /\ b[((a - s) % size) + 1] = Bytes(c, 4)[((a - s) % size) + 1]
             /\ b[((a - s) % size) + 1] \in Byte
  <2>1. PICK x \in Int : x = a - s
    BY LibraryAssumption DEF Addr
  <2>2. PICK i \in Int : i = (x % size) + 1
    OBVIOUS
  <2>3. i \in 1 .. size /\ i \in 1 .. 4
    <3>1. CASE size = 2
      BY <2>2, <3>1
    <3>2. CASE size = 4
      BY <2>2, <3>2
    <3> QED BY <3>1, <3>2
  <2>4. /\ b[i] = (c \div PlaceValue[i]) % 256
        /\ Bytes(c, 4)[i] = (c \div PlaceValue[i]) % 256
    BY <1>1, <2>3 DEF Bytes
  <2> QED BY <2>1, <2>2, <2>3, <2>4, BytesType
<1>4. Filled(m, s, b, size, n) =
        [a \in Addr |-> IF a - s \in 0 .. n - 1
                        THEN Bytes(c, 4)[((a - s) % size) + 1]
                        ELSE m[a]]
  BY <1>3 DEF Filled
<1>5. Filled(m, s, b, size, n) \in [Addr -> Byte]
  BY <1>3 DEF Filled
<1> QED BY <1>1, <1>2, <1>4, <1>5

LEMMA memset_word_right ==
  ASSUME NEW s \in Addr, NEW c \in Nat, NEW n \in Nat,
         mem \in [Addr -> Byte], memset_word(s, c, n)
  PROVE  MemoryRight' /\ StringsRight' /\ mem' \in [Addr -> Byte]
<1>0. s \in Nat
  BY LibraryAssumption DEF Addr
<1>1. PICK m \in [Addr -> Byte] : m = mem
  OBVIOUS
<1>2. /\ mem' = StosUp(m, s, Bytes(c, 2), 2, n)
      /\ call' = [fn |-> "memset_word", s |-> s, c |-> c, n |-> n]
      /\ before' = m
  BY <1>1 DEF memset_word, Called, StosUp
<1>3. PICK w \in Nat : w = 2 * n
  OBVIOUS
<1>4. Covers(2, n, w)
  BY <1>3 DEF Covers
<1>5. /\ mem' = [a \in Addr |-> IF a - s \in 0 .. w - 1
                               THEN Bytes(c, 4)[((a - s) % 2) + 1]
                               ELSE m[a]]
      /\ mem' \in [Addr -> Byte]
  BY <1>0, <1>2, <1>4, UnitsSet
<1>6. MemoryRight'
  BY <1>2, <1>3, <1>5 DEF MemoryRight
<1>7. StringsRight'
  BY <1>2 DEF StringsRight
<1> QED BY <1>5, <1>6, <1>7

LEMMA memset_dword_right ==
  ASSUME NEW s \in Addr, NEW c \in Nat, NEW n \in Nat,
         mem \in [Addr -> Byte], memset_dword(s, c, n)
  PROVE  MemoryRight' /\ StringsRight' /\ mem' \in [Addr -> Byte]
<1>0. s \in Nat
  BY LibraryAssumption DEF Addr
<1>1. PICK m \in [Addr -> Byte] : m = mem
  OBVIOUS
<1>2. /\ mem' = StosUp(m, s, Bytes(c, 4), 4, n)
      /\ call' = [fn |-> "memset_dword", s |-> s, c |-> c, n |-> n]
      /\ before' = m
  BY <1>1 DEF memset_dword, Called, StosUp, Len4
<1>3. PICK w \in Nat : w = 4 * n
  OBVIOUS
<1>4. Covers(4, n, w)
  BY <1>3 DEF Covers
<1>5. /\ mem' = [a \in Addr |-> IF a - s \in 0 .. w - 1
                               THEN Bytes(c, 4)[((a - s) % 4) + 1]
                               ELSE m[a]]
      /\ mem' \in [Addr -> Byte]
  BY <1>0, <1>2, <1>4, UnitsSet
<1>6. MemoryRight'
  BY <1>2, <1>3, <1>5 DEF MemoryRight
<1>7. StringsRight'
  BY <1>2 DEF StringsRight
<1> QED BY <1>5, <1>6, <1>7

-----------------------------------------------------------------------------
(* The string routines. *)

\* e is where the string at s ends.
Ends(m, s, e) ==
  e \in Addr /\ e >= s /\ m[e] = 0 /\ \A a \in s .. e - 1 : m[a] # 0

\* A string has an end, and one end only.
LEMMA EndOfIs ==
  ASSUME NEW m, NEW s \in Nat, IsString(m, s)
  PROVE  Ends(m, s, EndOf(m, s))
<1> USE LibraryAssumption
<1> DEFINE zeros == {e \in Addr : e >= s /\ m[e] = 0}
<1>1. zeros \in SUBSET Nat /\ zeros # {}
  BY DEF IsString, Addr
<1>2. PICK least \in zeros : \A e \in zeros : least <= e
  BY <1>1, LeastNumber
<1>3. ASSUME NEW a \in s .. least - 1 PROVE m[a] # 0
  <2>1. a \in Addr /\ a >= s /\ ~(least <= a)
    BY DEF Addr
  <2> QED BY <1>2, <2>1
<1>4. Ends(m, s, least)
  BY <1>3 DEF Ends
<1> QED BY <1>4 DEF Ends, EndOf

LEMMA EndUnique ==
  ASSUME NEW m, NEW s \in Nat, NEW e, Ends(m, s, e)
  PROVE  EndOf(m, s) = e
<1> USE LibraryAssumption
<1>1. IsString(m, s)
  BY DEF Ends, IsString
<1>2. PICK f : f = EndOf(m, s)
  OBVIOUS
<1>3. Ends(m, s, f)
  BY <1>1, <1>2, EndOfIs
<1>4. ~(e < f) /\ ~(f < e)
  BY <1>3 DEF Ends, Addr
<1>5. e \in Int /\ f \in Int
  BY <1>3 DEF Ends, Addr
<1> QED BY <1>2, <1>4, <1>5

LEMMA strlen_right ==
  ASSUME NEW s \in Addr, mem \in [Addr -> Byte], strlen(s)
  PROVE  MemoryRight' /\ StringsRight' /\ mem' \in [Addr -> Byte]
<1> USE LibraryAssumption
<1>1. PICK m \in [Addr -> Byte] : m = mem
  OBVIOUS
<1>2. /\ mem' = m /\ ret' = EndOf(m, s) - s /\ IsString(m, s)
      /\ call' = [fn |-> "strlen", s |-> s]
  BY <1>1 DEF strlen, Called
<1>3. PICK n \in Nat : n = EndOf(m, s) - s
  <2>1. s \in Nat
    BY DEF Addr
  <2>2. Ends(m, s, EndOf(m, s))
    BY <1>2, <2>1, EndOfIs
  <2> QED BY <2>1, <2>2 DEF Ends, Addr
<1>4. Len([k \in 1 .. n |-> m[s + k - 1]]) = n
  OBVIOUS
<1>5. StringsRight'
  BY <1>2, <1>3, <1>4 DEF StringsRight, StringAt
<1>6. MemoryRight'
  BY <1>2 DEF MemoryRight
<1> QED BY <1>2, <1>5, <1>6

\* The places of the n bytes at s up to the end of a string.
Upto(m, s, n) == {k \in 0 .. n - 1 : \A j \in 0 .. k - 1 : m[s + j] # 0}

Cut(m, s, n) == [k \in Upto(m, s, n) |-> m[s + k]]

\* The first place where the strings differ or end decides.
LEMMA FirstDecides ==
  ASSUME NEW m \in [Addr -> Byte], NEW s1 \in Addr, NEW s2 \in Addr,
         NEW n \in Nat, Areas(s1, s2, n),
         NEW i \in 0 .. n - 1,
         \A j \in 0 .. i - 1 : m[s1 + j] = m[s2 + j] /\ m[s1 + j] # 0,
         m[s1 + i] # m[s2 + i] \/ m[s1 + i] = 0
  PROVE  m[s1 + i] - m[s2 + i] = 0 <=> Cut(m, s1, n) = Cut(m, s2, n)
<1> USE LibraryAssumption
<1>0. s1 + n <= MEMSIZE /\ s2 + n <= MEMSIZE
  BY DEF Areas
<1>1. m[s1 + i] \in Int /\ m[s2 + i] \in Int
  <2>1. s1 + i \in Addr /\ s2 + i \in Addr
    BY <1>0 DEF Addr
  <2>2. m[s1 + i] \in Byte /\ m[s2 + i] \in Byte
    BY <2>1
  <2> QED BY <2>2 DEF Byte
<1>2. i \in Upto(m, s1, n) /\ i \in Upto(m, s2, n)
  BY DEF Upto
<1>3. CASE m[s1 + i] # m[s2 + i]
  <2>1. Cut(m, s1, n)[i] # Cut(m, s2, n)[i]
    BY <1>2, <1>3 DEF Cut
  <2> QED BY <1>1, <1>3, <2>1
<1>4. CASE m[s1 + i] = m[s2 + i]
  <2>1. m[s1 + i] = 0 /\ m[s2 + i] = 0
    BY <1>4
  <2>2. ASSUME NEW k \in 0 .. n - 1
        PROVE  /\ k \in Upto(m, s1, n) <=> k <= i
               /\ k \in Upto(m, s2, n) <=> k <= i
    <3>1. CASE k <= i
      <4>1. \A j \in 0 .. k - 1 : j \in 0 .. i - 1
        BY <3>1
      <4> QED BY <3>1, <4>1 DEF Upto
    <3>2. CASE ~(k <= i)
      <4>1. i \in 0 .. k - 1
        BY <3>2
      <4> QED BY <2>1, <3>2, <4>1 DEF Upto
    <3> QED BY <3>1, <3>2
  <2>3. Upto(m, s1, n) = Upto(m, s2, n)
    <3>1. \A k \in Upto(m, s1, n) : k \in 0 .. n - 1
      BY DEF Upto
    <3>2. \A k \in Upto(m, s2, n) : k \in 0 .. n - 1
      BY DEF Upto
    <3> QED BY <2>2, <3>1, <3>2
  <2>4. ASSUME NEW k \in Upto(m, s1, n) PROVE m[s1 + k] = m[s2 + k]
    <3>1. k \in 0 .. n - 1
      BY DEF Upto
    <3>2. k = i \/ k \in 0 .. i - 1
      BY <2>2, <3>1
    <3> QED BY <1>4, <3>2
  <2>5. Cut(m, s1, n) = Cut(m, s2, n)
    BY <2>3, <2>4 DEF Cut
  <2> QED BY <1>1, <1>4, <2>5
<1> QED BY <1>3, <1>4

LEMMA strncmp_right ==
  ASSUME NEW s1, NEW s2, NEW n, Areas(s1, s2, n),
         mem \in [Addr -> Byte], strncmp(s1, s2, n)
  PROVE  MemoryRight' /\ StringsRight' /\ mem' \in [Addr -> Byte]
<1> USE LibraryAssumption
<1>0. s1 \in Addr /\ s2 \in Addr /\ n \in Nat
  BY DEF Areas
<1>1. PICK m \in [Addr -> Byte] : m = mem
  OBVIOUS
<1> DEFINE stops == {k \in 0 .. n - 1 : \/ m[s1 + k] # m[s2 + k]
                                        \/ m[s1 + k] = 0}
           first == CHOOSE k \in stops : \A j \in stops : k <= j
<1>2. /\ mem' = m /\ before' = m
      /\ ret' = IF stops = {} THEN 0
                ELSE SignedByte(m[s1 + first]) - SignedByte(m[s2 + first])
      /\ call' = [fn |-> "strncmp", s |-> s1, d |-> s2, n |-> n]
  BY <1>1 DEF strncmp, Called
<1>3. (ret' = 0) <=> (Cut(m, s1, n) = Cut(m, s2, n))
  <2>1. CASE stops = {}
    <3>1. \A k \in 0 .. n - 1 : m[s1 + k] = m[s2 + k] /\ m[s1 + k] # 0
      BY <2>1
    <3>2. \A k \in 0 .. n - 1 : \A j \in 0 .. k - 1 : j \in 0 .. n - 1
      BY <1>0
    <3>3. Upto(m, s1, n) = 0 .. n - 1 /\ Upto(m, s2, n) = 0 .. n - 1
      BY <3>1, <3>2 DEF Upto
    <3>4. Cut(m, s1, n) = Cut(m, s2, n)
      BY <3>1, <3>3 DEF Cut
    <3> QED BY <1>2, <2>1, <3>4
  <2>2. CASE stops # {}
    <3>1. \E k \in stops : \A j \in stops : k <= j
      <4>1. stops \in SUBSET Nat
        BY <1>0
      <4> HIDE DEF stops
      <4> QED BY <2>2, <4>1, LeastNumber
    <3>2. first \in stops /\ \A j \in stops : first <= j
      BY <3>1
    <3> HIDE DEF first
    <3>3. PICK i \in 0 .. n - 1 : i = first
      BY <3>2
    <3>4. ASSUME NEW j \in 0 .. i - 1
          PROVE  m[s1 + j] = m[s2 + j] /\ m[s1 + j] # 0
      <4>1. j \in 0 .. n - 1 /\ ~(i <= j)
        BY <1>0
      <4> QED BY <3>2, <3>3, <4>1
    <3>5. m[s1 + i] # m[s2 + i] \/ m[s1 + i] = 0
      BY <3>2, <3>3
    <3>6. m[s1 + i] - m[s2 + i] = 0 <=> Cut(m, s1, n) = Cut(m, s2, n)
      BY <1>0, <3>4, <3>5, FirstDecides
    <3>7. ret' = SignedByte(m[s1 + i]) - SignedByte(m[s2 + i])
      BY <1>2, <2>2, <3>3
    <3>8. m[s1 + i] \in Byte /\ m[s2 + i] \in Byte
      BY <1>0 DEF Areas, Addr
    <3>9. ret' = 0 <=> m[s1 + i] - m[s2 + i] = 0
      <4>1. ASSUME NEW x \in 0 .. 255, NEW y \in 0 .. 255
            PROVE  SignedByte(x) - SignedByte(y) = 0 <=> x - y = 0
        BY DEF SignedByte
      <4> QED BY <3>7, <3>8, <4>1 DEF Byte
    <3> QED BY <3>6, <3>9
  <2> QED BY <2>1, <2>2
<1>4. StringsRight'
  <2> HIDE DEF stops, first
  <2> QED BY <1>2, <1>3 DEF StringsRight, Cut, Upto
<1>5. MemoryRight'
  BY <1>2 DEF MemoryRight
<1> QED BY <1>2, <1>4, <1>5

LEMMA strcpy_right ==
  ASSUME NEW d \in Addr, NEW s \in Addr, mem \in [Addr -> Byte],
         EndOf(mem, s) - s < MEMSIZE - d, strcpy(d, s)
  PROVE  MemoryRight' /\ StringsRight' /\ mem' \in [Addr -> Byte]
<1> USE LibraryAssumption
<1>0. s \in Nat /\ d \in Nat
  BY DEF Addr
<1>1. PICK m \in [Addr -> Byte] : m = mem
  OBVIOUS
<1>2. PICK e : e = EndOf(m, s)
  OBVIOUS
<1>3. Ends(m, s, e)
  BY <1>0, <1>1, <1>2, EndOfIs DEF strcpy
<1>4. PICK n \in Nat : n = e - s
  BY <1>0, <1>3 DEF Ends, Addr
<1>5. d + n < MEMSIZE /\ s + n < MEMSIZE /\ m[s + n] = 0
  BY <1>0, <1>1, <1>2, <1>3, <1>4 DEF Ends, Addr
<1>6. PICK str \in Seq(Byte) : str = StringAt(m, s) /\ Len(str) = n
  <2>1. \A k \in 1 .. n : s + k - 1 \in Addr
    BY <1>5 DEF Addr
  <2>2. [k \in 1 .. n |-> m[s + k - 1]] \in Seq(Byte)
    BY <2>1
  <2>3. StringAt(m, s) = [k \in 1 .. n |-> m[s + k - 1]]
    BY <1>2, <1>4 DEF StringAt
  <2> QED BY <2>2, <2>3
<1>7. \A k \in 1 .. n : str[k] = m[s + k - 1]
  BY <1>2, <1>4, <1>6 DEF StringAt
<1>8. PICK app : app = Append(str, 0)
  OBVIOUS
<1>9. /\ Len(app) = n + 1 /\ app[n + 1] = 0
      /\ \A k \in 1 .. n : app[k] = m[s + k - 1]
  BY <1>6, <1>7, <1>8
<1>10. /\ mem' = Put(m, d, app) /\ before' = m
       /\ call' = [fn |-> "strcpy", s |-> s, d |-> d]
  BY <1>1, <1>6, <1>8 DEF strcpy, Called
<1>11. mem' = Moved(m, d, s, n + 1)
  <2>1. ASSUME NEW a \in Addr, a - d \in 0 .. (n + 1) - 1
        PROVE  app[a - d + 1] = m[s + a - d]
    <3>1. CASE a - d = n
      <4>1. a - d + 1 = n + 1 /\ s + a - d = s + n
        BY <1>0, <3>1 DEF Addr
      <4> QED BY <1>5, <1>9, <4>1
    <3>2. CASE a - d # n
      <4>1. PICK k \in 1 .. n : k = a - d + 1
        BY <2>1, <3>2 DEF Addr
      <4>2. s + k - 1 = s + a - d
        BY <1>0, <4>1 DEF Addr
      <4> QED BY <1>9, <4>1, <4>2
    <3> QED BY <3>1, <3>2
  <2>2. Put(m, d, app) = [a \in Addr |->
          IF a - d \in 0 .. (n + 1) - 1 THEN app[a - d + 1] ELSE m[a]]
    BY <1>9 DEF Put
  <2> QED BY <1>10, <2>1, <2>2 DEF Moved
<1>12. PICK w \in [Addr -> Byte] : w = mem'
  <2>1. PICK l \in Nat : l = n + 1
    OBVIOUS
  <2>2. s + l <= MEMSIZE
    BY <1>0, <1>5, <2>1
  <2> QED BY <1>11, <2>1, <2>2, MovedType
<1>13. /\ \A a \in Addr : a - d \in 0 .. n => w[a] = m[s + a - d]
       /\ \A a \in Addr : a - d \notin 0 .. n => w[a] = m[a]
  BY <1>11, <1>12 DEF Moved
<1>14. \A k \in 0 .. n : w[d + k] = m[s + k]
  <2> SUFFICES ASSUME NEW k \in 0 .. n PROVE w[d + k] = m[s + k]
    OBVIOUS
  <2>1. d + k \in Addr /\ (d + k) - d = k /\ s + (d + k) - d = s + k
    BY <1>0, <1>5 DEF Addr
  <2> QED BY <1>13, <2>1
<1>15. Ends(w, d, d + n)
  <2>1. d + n \in Addr /\ d + n >= d
    BY <1>0, <1>5 DEF Addr
  <2>2. w[d + n] = 0
    BY <1>5, <1>14
  <2>3. ASSUME NEW a \in d .. (d + n) - 1 PROVE w[a] # 0
    <3>1. PICK k \in 0 .. n - 1 : a = d + k
      <4>1. a - d \in 0 .. n - 1 /\ a = d + (a - d)
        BY <1>0
      <4> QED BY <4>1
    <3>2. s + k \in s .. e - 1
      BY <1>0, <1>3, <1>4 DEF Ends, Addr
    <3>3. m[s + k] # 0
      BY <1>3, <3>2 DEF Ends
    <3> QED BY <1>14, <3>1, <3>3
  <2> QED BY <2>1, <2>2, <2>3 DEF Ends
<1>16. EndOf(w, d) = d + n
  BY <1>0, <1>15, EndUnique
<1>17. StringAt(w, d) = StringAt(m, s)
  <2>1. ASSUME NEW k \in 1 .. n PROVE w[d + k - 1] = m[s + k - 1]
    <3>1. PICK j \in 0 .. n : d + k - 1 = d + j /\ s + k - 1 = s + j
      <4>1. k - 1 \in 0 .. n
        OBVIOUS
      <4> QED BY <1>0, <4>1
    <3> QED BY <1>14, <3>1
  <2>2. (d + n) - d = n
    BY <1>0
  <2>3. StringAt(w, d) = [k \in 1 .. n |-> w[d + k - 1]]
    BY <1>16, <2>2 DEF StringAt
  <2>4. StringAt(m, s) = [k \in 1 .. n |-> m[s + k - 1]]
    BY <1>2, <1>4 DEF StringAt
  <2> QED BY <2>1, <2>3, <2>4
<1>18. ASSUME NEW a \in Addr, a < d \/ a > EndOf(w, d) PROVE w[a] = m[a]
  <2>1. a - d \notin 0 .. n
    BY <1>0, <1>16, <1>18 DEF Addr
  <2> QED BY <1>13, <2>1
<1>19. StringsRight'
  BY <1>10, <1>12, <1>17, <1>18 DEF StringsRight
<1>20. MemoryRight'
  BY <1>10 DEF MemoryRight
<1> QED BY <1>12, <1>19, <1>20

LEMMA strncpy_right ==
  ASSUME NEW d, NEW s, NEW n, Areas(d, s, n), mem \in [Addr -> Byte],
         strncpy(d, s, n)
  PROVE  MemoryRight' /\ StringsRight' /\ mem' \in [Addr -> Byte]
<1> USE LibraryAssumption
<1>0. /\ d \in Addr /\ s \in Addr /\ d \in Nat /\ s \in Nat /\ n \in Nat
      /\ d + n <= MEMSIZE /\ s + n <= MEMSIZE
  BY DEF Areas, Addr
<1>1. PICK m \in [Addr -> Byte] : m = mem
  OBVIOUS
<1> DEFINE Is(k) == /\ k = n \/ m[s + k] = 0
                    /\ \A j \in 0 .. k - 1 : m[s + j] # 0
           i == CHOOSE k \in 0 .. n : Is(k)
           bytes == [k \in 1 .. n |-> IF k <= i THEN m[s + k - 1] ELSE 0]
<1>2. /\ mem' = Put(m, d, bytes) /\ before' = m
      /\ call' = [fn |-> "strncpy", s |-> s, d |-> d, n |-> n]
  BY <1>1 DEF strncpy, Called
<1>3. i \in 0 .. n /\ Is(i)
  <2> DEFINE S == {k \in 0 .. n : k = n \/ m[s + k] = 0}
  <2>1. S \in SUBSET Nat /\ n \in S
    BY <1>0
  <2>2. PICK least \in S : \A k \in S : least <= k
    <3> HIDE DEF S
    <3> QED BY <2>1, LeastNumber
  <2>3. ASSUME NEW j \in 0 .. least - 1 PROVE m[s + j] # 0
    <3>1. j \in 0 .. n /\ ~(least <= j)
      BY <1>0
    <3> QED BY <2>2, <3>1
  <2>4. least \in 0 .. n /\ Is(least)
    BY <2>3
  <2> HIDE DEF Is
  <2> QED BY <2>4
<1> HIDE DEF i
<1>4. Len(bytes) = n
  BY <1>0
<1>5. Put(m, d, bytes) = [a \in Addr |->
        IF a - d \in 0 .. n - 1 THEN bytes[a - d + 1] ELSE m[a]]
  <2> HIDE DEF bytes
  <2> QED BY <1>4 DEF Put
<1>6. ASSUME NEW a \in Addr, a - d \in 0 .. n - 1
      PROVE  /\ bytes[a - d + 1] = IF \E e \in s .. s + a - d : m[e] = 0
                                   THEN 0 ELSE m[s + a - d]
             /\ bytes[a - d + 1] \in Byte
  <2>1. PICK k \in 0 .. n - 1 : k = a - d
    BY <1>6
  <2>2. k + 1 \in 1 .. n /\ s + (k + 1) - 1 = s + k /\ s + a - d = s + k
    BY <1>0, <2>1 DEF Addr
  <2>3. bytes[k + 1] = IF k + 1 <= i THEN m[s + k] ELSE 0
    BY <2>2
  <2>4. s + k \in Addr
    BY <1>0 DEF Addr
  <2>5. CASE k + 1 <= i
    <3>1. ASSUME NEW e \in s .. s + k PROVE m[e] # 0
      <4>1. e - s \in 0 .. i - 1 /\ e = s + (e - s)
        BY <1>0, <1>3, <2>5
      <4> QED BY <1>3, <4>1
    <3> QED BY <2>1, <2>2, <2>3, <2>4, <2>5, <3>1
  <2>6. CASE ~(k + 1 <= i)
    <3>1. i # n /\ s + i \in s .. s + k
      BY <1>0, <1>3, <2>6
    <3>2. m[s + i] = 0
      BY <1>3, <3>1
    <3> QED BY <2>1, <2>2, <2>3, <2>6, <3>1, <3>2 DEF Byte
  <2> QED BY <2>5, <2>6
<1> HIDE DEF bytes
<1>7. mem' \in [Addr -> Byte]
  BY <1>2, <1>5, <1>6
<1>8. PICK w \in [Addr -> Byte] : w = mem'
  BY <1>7
<1>9. ASSUME NEW a \in Addr \ (d .. d + n - 1) PROVE w[a] = m[a]
  <2>1. a - d \notin 0 .. n - 1
    BY <1>0 DEF Addr
  <2> QED BY <1>2, <1>5, <1>8, <2>1
<1>10. ASSUME NEW a \in d .. d + n - 1
       PROVE  w[a] = IF \E e \in s .. s + a - d : m[e] = 0
                     THEN 0 ELSE m[s + a - d]
  <2>1. a \in Addr /\ a - d \in 0 .. n - 1
    BY <1>0 DEF Addr
  <2> QED BY <1>2, <1>5, <1>6, <1>8, <2>1
<1>11. StringsRight'
  BY <1>2, <1>8, <1>9, <1>10 DEF StringsRight
<1>12. MemoryRight'
  BY <1>2 DEF MemoryRight
<1> QED BY <1>7, <1>11, <1>12

-----------------------------------------------------------------------------
(* The specification. *)

\* What a call begins with.  Behind itoa and printf there is none.
Typed ==
  calls \in Nat /\ (calls < MaxCalls => mem \in [Addr -> Byte])

LEMMA LibraryInit == Init => Typed /\ MemoryRight /\ StringsRight
<1> SUFFICES ASSUME Init PROVE Typed /\ MemoryRight /\ StringsRight
  OBVIOUS
<1>1. Typed
  BY LibraryAssumption DEF Init, Typed
<1>2. MemoryRight
  BY DEF Init, MemoryRight
<1>3. StringsRight
  BY DEF Init, StringsRight
<1> QED BY <1>1, <1>2, <1>3

\* What every call of the first two kinds does to the count.
LEMMA CallCounted ==
  ASSUME Typed, MemoryCall \/ StringCall
  PROVE  calls' = calls + 1
<1>1. /\ \A s, c, n : memset(s, c, n) => calls' = calls + 1
      /\ \A s, c, n : memset_word(s, c, n) => calls' = calls + 1
      /\ \A s, c, n : memset_dword(s, c, n) => calls' = calls + 1
  BY DEF memset, memset_word, memset_dword, Called
<1>2. /\ \A d, s, n : memcpy(d, s, n) => calls' = calls + 1
      /\ \A d, s, n : memmove(d, s, n) => calls' = calls + 1
  BY DEF memcpy, memmove, Called
<1>3. /\ \A s : strlen(s) => calls' = calls + 1
      /\ \A s, d, n : strncmp(s, d, n) => calls' = calls + 1
  BY DEF strlen, strncmp, Called
<1>4. /\ \A d, s : strcpy(d, s) => calls' = calls + 1
      /\ \A d, s, n : strncpy(d, s, n) => calls' = calls + 1
  BY DEF strcpy, strncpy, Called
<1>5. CASE MemoryCall
  BY <1>1, <1>2, <1>5, Zenon DEF MemoryCall
<1>6. CASE StringCall
  BY <1>3, <1>4, <1>6, Zenon DEF StringCall
<1> QED BY <1>5, <1>6

\* Both areas of a call are inside the memory.
LEMMA AreasGiven ==
  ASSUME NEW s \in Addr, NEW d \in Addr,
         NEW n \in 0 .. MEMSIZE - (IF s > d THEN s ELSE d)
  PROVE  Areas(d, s, n) /\ Areas(s, d, n)
<1>1. s \in Nat /\ d \in Nat /\ MEMSIZE \in Nat
  BY LibraryAssumption DEF Addr
<1>2. CASE s > d
  BY <1>1, <1>2 DEF Areas
<1>3. CASE ~(s > d)
  BY <1>1, <1>3 DEF Areas
<1> QED BY <1>2, <1>3

LEMMA FillType == FillByte \in Nat /\ FillWord \in Nat /\ FillDword \in Nat
  BY SMT DEF FillByte, FillWord, FillDword

LEMMA MemoryCallRight ==
  ASSUME mem \in [Addr -> Byte], MemoryCall
  PROVE  MemoryRight' /\ StringsRight' /\ mem' \in [Addr -> Byte]
<1> DEFINE Right == MemoryRight' /\ StringsRight' /\ mem' \in [Addr -> Byte]
<1>1. ASSUME NEW s \in Addr, NEW n \in 0 .. MEMSIZE - s,
             \/ memset(s, FillByte, n)
             \/ memset_word(s, FillWord, n)
             \/ memset_dword(s, FillDword, n)
      PROVE  Right
  <2>0. n \in Nat /\ s + n <= MEMSIZE
    BY LibraryAssumption DEF Addr
  <2>1. CASE memset(s, FillByte, n)
    BY <2>0, <2>1, FillType, memset_right
  <2>2. CASE memset_word(s, FillWord, n)
    BY <2>0, <2>2, FillType, memset_word_right
  <2>3. CASE memset_dword(s, FillDword, n)
    BY <2>0, <2>3, FillType, memset_dword_right
  <2> QED BY <1>1, <2>1, <2>2, <2>3
<1>2. ASSUME NEW s \in Addr, NEW d \in Addr,
             NEW n \in 0 .. MEMSIZE - (IF s > d THEN s ELSE d),
             memcpy(d, s, n) \/ memmove(d, s, n)
      PROVE  Right
  <2>0. Areas(d, s, n)
    BY AreasGiven
  <2>1. CASE memcpy(d, s, n)
    BY <2>0, <2>1, memcpy_right
  <2>2. CASE memmove(d, s, n)
    BY <2>0, <2>2, memmove_right
  <2> QED BY <1>2, <2>1, <2>2
<1> HIDE DEF Right
<1>3. Right
  BY <1>1, <1>2 DEF MemoryCall
<1> QED BY <1>3 DEF Right

LEMMA StringCallRight ==
  ASSUME mem \in [Addr -> Byte], StringCall
  PROVE  MemoryRight' /\ StringsRight' /\ mem' \in [Addr -> Byte]
<1> DEFINE Right == MemoryRight' /\ StringsRight' /\ mem' \in [Addr -> Byte]
<1>1. ASSUME NEW s \in Addr, strlen(s) PROVE Right
  BY <1>1, strlen_right
<1>2. ASSUME NEW s \in Addr, NEW d \in Addr,
             EndOf(mem, s) - s < MEMSIZE - d, strcpy(d, s)
      PROVE  Right
  BY <1>2, strcpy_right
<1>3. ASSUME NEW s \in Addr, NEW d \in Addr,
             NEW n \in 0 .. MEMSIZE - (IF s > d THEN s ELSE d),
             strncmp(s, d, n) \/ strncpy(d, s, n)
      PROVE  Right
  <2>0. Areas(d, s, n) /\ Areas(s, d, n)
    BY AreasGiven
  <2>1. CASE strncmp(s, d, n)
    BY <2>0, <2>1, strncmp_right
  <2>2. CASE strncpy(d, s, n)
    BY <2>0, <2>2, strncpy_right
  <2> QED BY <1>3, <2>1, <2>2
<1> HIDE DEF Right
<1>4. Right
  BY <1>1, <1>2, <1>3 DEF StringCall
<1> QED BY <1>4 DEF Right

LEMMA LibraryNext ==
  ASSUME Typed, MemoryRight, StringsRight, [Next]_vars
  PROVE  Typed' /\ MemoryRight' /\ StringsRight'
<1> USE LibraryAssumption
<1>1. CASE Next /\ (MemoryCall \/ StringCall)
  <2>1. mem \in [Addr -> Byte]
    BY <1>1 DEF Next, Typed
  <2>2. MemoryRight' /\ StringsRight' /\ mem' \in [Addr -> Byte]
    BY <1>1, <2>1, MemoryCallRight, StringCallRight
  <2>3. calls' \in Nat
    BY <1>1, CallCounted DEF Typed
  <2> QED BY <2>2, <2>3 DEF Typed
<1>2. CASE Next /\ Conversion
  <2>0. /\ \A v, b, r : itoa(v, b, r) =>
             calls' = MaxCalls /\ call'.fn \in {"itoa", "printf"}
        /\ \A dirs : printf(dirs) =>
             calls' = MaxCalls /\ call'.fn \in {"itoa", "printf"}
    BY DEF itoa, printf, CalledLast
  <2>1. calls' = MaxCalls
    BY <1>2, <2>0, Zenon DEF Conversion
  <2>2. call'.fn \in {"itoa", "printf"}
    BY <1>2, <2>0, Zenon DEF Conversion
  <2>3. Typed'
    BY <2>1 DEF Typed
  <2>4. MemoryRight'
    BY <2>2 DEF MemoryRight
  <2>5. StringsRight'
    BY <2>2 DEF StringsRight
  <2> QED BY <2>3, <2>4, <2>5
<1>3. CASE UNCHANGED vars
  <2>1. UNCHANGED <<mem, call, before, ret, calls>>
    BY <1>3 DEF vars
  <2>2. Typed'
    BY <2>1 DEF Typed
  <2>3. MemoryRight'
    BY <2>1 DEF MemoryRight, Copied
  <2>4. StringsRight'
    BY <2>1 DEF StringsRight
  <2> QED BY <2>2, <2>3, <2>4
<1> QED BY <1>1, <1>2, <1>3 DEF Next

\* memset, memset_word, memset_dword, memcpy and memmove change exactly the
\* bytes of the area, to what the call says: for every size and content of the
\* memory, every alignment and length, every overlap that the routine allows,
\* and whatever the direction flag was left at by the calls before.
THEOREM MemoryIsRight == Spec => []MemoryRight
<1>1. Init => Typed /\ MemoryRight /\ StringsRight
  BY LibraryInit
<1>2. /\ Typed /\ MemoryRight /\ StringsRight
      /\ [Next]_vars
      => (Typed /\ MemoryRight /\ StringsRight)'
  BY LibraryNext
<1> QED BY <1>1, <1>2, PTL DEF Spec

\* strlen, strncmp, strcpy and strncpy measure, compare and copy strings up to
\* their '\0', and change nothing else: for every memory, every string in it
\* and every bound that is passed.
THEOREM StringsAreRight == Spec => []StringsRight
<1>1. Init => Typed /\ MemoryRight /\ StringsRight
  BY LibraryInit
<1>2. /\ Typed /\ MemoryRight /\ StringsRight
      /\ [Next]_vars
      => (Typed /\ MemoryRight /\ StringsRight)'
  BY LibraryNext
<1> QED BY <1>1, <1>2, PTL DEF Spec

-----------------------------------------------------------------------------
(* strrev. *)

\* One exchange of strrev, of the places beg and n - beg + 1.
Exchanged(s, n, beg) ==
  IF beg >= n - beg + 1 THEN s
  ELSE [s EXCEPT ![beg] = s[n - beg + 1], ![n - beg + 1] = s[beg]]

Swaps(s) ==
  CHOOSE swap : swap = [beg \in 0 .. Len(s) |->
    IF beg = 0 THEN s ELSE Exchanged(swap[beg - 1], Len(s), beg)]

LEMMA SwappedUnfolds ==
  ASSUME NEW s
  PROVE  Swapped(s) = Swaps(s)[Len(s) \div 2]
  BY Zenon DEF Swapped, Swaps, Exchanged

LEMMA SwapsExists ==
  ASSUME NEW s, Len(s) \in Nat
  PROVE  Swaps(s) = [beg \in 0 .. Len(s) |->
           IF beg = 0 THEN s ELSE Exchanged(Swaps(s)[beg - 1], Len(s), beg)]
<1>1. PICK len \in Nat : len = Len(s)
  OBVIOUS
<1> DEFINE Step(x, k) == Exchanged(x, len, k)
           Is(f, n) == f = [k \in 0 .. n |->
                              IF k = 0 THEN s ELSE Step(f[k - 1], k)]
           S == {n \in Nat : \E f : Is(f, n)}
<1> HIDE DEF Step
<1>2. 0 \in S
  <2> DEFINE f == [k \in 0 .. 0 |-> s]
  <2>1. f = [k \in 0 .. 0 |-> IF k = 0 THEN s ELSE Step(f[k - 1], k)]
    BY \A k \in 0 .. 0 : k = 0
  <2> QED BY <2>1
<1>3. ASSUME NEW n \in Nat, n \in S PROVE n + 1 \in S
  <2>1. PICK f : Is(f, n)
    BY <1>3
  <2> DEFINE g == [k \in 0 .. n + 1 |->
                     IF k <= n THEN f[k] ELSE Step(f[n], n + 1)]
  <2>2. \A k \in 0 .. n : g[k] = f[k]
    OBVIOUS
  <2>3. g[n + 1] = Step(f[n], n + 1)
    OBVIOUS
  <2>4. ASSUME NEW k \in 0 .. n + 1
        PROVE  g[k] = IF k = 0 THEN s ELSE Step(g[k - 1], k)
    <3> HIDE DEF g
    <3>1. CASE k = 0
      <4>1. f[0] = s
        BY <2>1
      <4> QED BY <2>2, <3>1, <4>1
    <3>2. CASE k \in 1 .. n
      <4>1. k \in 0 .. n /\ k - 1 \in 0 .. n /\ k # 0
        BY <3>2
      <4>2. f[k] = Step(f[k - 1], k)
        BY <2>1, <4>1
      <4> QED BY <2>2, <4>1, <4>2
    <3>3. CASE k = n + 1
      <4>1. k # 0 /\ k - 1 = n /\ n \in 0 .. n
        BY <3>3
      <4> QED BY <2>2, <2>3, <3>3, <4>1
    <3> QED BY <3>1, <3>2, <3>3
  <2>5. Is(g, n + 1)
    BY <2>4
  <2> HIDE DEF Is, g
  <2> QED BY <2>5
<1>4. len \in S
  <2> HIDE DEF S
  <2>1. \A k \in 0 .. len - 1 : k \in S => k + 1 \in S
    BY <1>3
  <2>2. \A k \in 0 .. len : k \in S
    BY <1>2, <2>1, UpTo
  <2>3. len \in 0 .. len
    OBVIOUS
  <2> QED BY <2>2, <2>3
<1>5. \E f : f = [k \in 0 .. len |-> IF k = 0 THEN s ELSE Step(f[k - 1], k)]
  BY <1>4
<1> QED BY <1>1, <1>5, Zenon DEF Swaps, Step

\* The first and the last beg places are exchanged.
Turned(s, n, beg) ==
  [j \in 1 .. n |-> IF j <= beg \/ j > n - beg THEN s[n + 1 - j] ELSE s[j]]

LEMMA ExchangedTurned ==
  ASSUME NEW s, NEW n \in Nat, NEW beg \in Nat \ {0}, 2 * beg <= n
  PROVE  Exchanged(Turned(s, n, beg - 1), n, beg) = Turned(s, n, beg)
<1>0. PICK b \in Nat, e \in Nat : b = beg - 1 /\ e = n - beg + 1
  OBVIOUS
<1>1. PICK t : b = beg - 1 /\ e = n - beg + 1 /\ t = Turned(s, n, b)
  BY <1>0
<1>2. /\ beg \in 1 .. n /\ e \in 1 .. n /\ beg < e /\ n + 1 - beg = e
      /\ n + 1 - e = beg
  BY <1>1
<1>3. /\ DOMAIN t = 1 .. n
      /\ \A j \in 1 .. n :
           t[j] = IF j <= b \/ j > n - b THEN s[n + 1 - j] ELSE s[j]
  BY <1>1 DEF Turned
<1>4. t[beg] = s[beg] /\ t[e] = s[e]
  <2>1. ~(beg <= b \/ beg > n - b) /\ ~(e <= b \/ e > n - b)
    BY <1>1, <1>2
  <2> QED BY <1>2, <1>3, <2>1
<1>5. Exchanged(t, n, beg) = [t EXCEPT ![beg] = t[e], ![e] = t[beg]]
  <2>1. ~(beg >= n - beg + 1)
    BY <1>1, <1>2
  <2> QED BY <1>1, <2>1, Zenon DEF Exchanged
<1>6. PICK u : u = [t EXCEPT ![beg] = t[e], ![e] = t[beg]]
  OBVIOUS
<1>7. /\ DOMAIN u = 1 .. n /\ u[beg] = s[e] /\ u[e] = s[beg]
      /\ \A j \in 1 .. n : j # beg /\ j # e => u[j] = t[j]
  BY <1>2, <1>3, <1>4, <1>6
<1>8. ASSUME NEW j \in 1 .. n
      PROVE  u[j] = IF j <= beg \/ j > n - beg THEN s[n + 1 - j] ELSE s[j]
  <2>1. CASE j = beg
    BY <1>2, <1>7, <2>1
  <2>2. CASE j = e
    <3>1. j > n - beg
      BY <1>1, <2>2
    <3> QED BY <1>2, <1>7, <2>2, <3>1
  <2>3. CASE j # beg /\ j # e
    <3>1. (j <= b \/ j > n - b) <=> (j <= beg \/ j > n - beg)
      BY <1>1, <2>3
    <3> QED BY <1>3, <1>7, <2>3, <3>1
  <2> QED BY <2>1, <2>2, <2>3
<1>9. u = [j \in 1 .. n |->
             IF j <= beg \/ j > n - beg THEN s[n + 1 - j] ELSE s[j]]
  <2>1. u = [j \in 1 .. n |-> u[j]]
    BY <1>6, <1>7
  <2> QED BY <1>8, <2>1
<1> QED BY <1>1, <1>5, <1>6, <1>9, Zenon DEF Turned

\* strrev reverses.
LEMMA SwappedIsReverse ==
  ASSUME NEW T, NEW s \in Seq(T)
  PROVE  Swapped(s) = [j \in 1 .. Len(s) |-> s[Len(s) + 1 - j]]
<1>1. PICK n \in Nat, half \in Nat :
        n = Len(s) /\ half = n \div 2 /\ 2 * half <= n /\ n <= 2 * half + 1
  OBVIOUS
<1>2. PICK swap : swap = Swaps(s)
  OBVIOUS
<1>3. swap = [beg \in 0 .. n |->
                IF beg = 0 THEN s ELSE Exchanged(swap[beg - 1], n, beg)]
  BY <1>1, <1>2, SwapsExists
<1> DEFINE S == {k \in Nat : swap[k] = Turned(s, n, k)}
<1>4. 0 \in S
  <2>1. s = [j \in 1 .. n |-> s[j]]
    BY <1>1
  <2>2. \A j \in 1 .. n : ~(j <= 0 \/ j > n - 0)
    OBVIOUS
  <2>3. Turned(s, n, 0) = s
    BY <2>1, <2>2 DEF Turned
  <2>4. swap[0] = s
    BY <1>3, 0 \in 0 .. n
  <2> QED BY <2>3, <2>4
<1>5. ASSUME NEW k \in 0 .. half - 1, k \in S PROVE k + 1 \in S
  <2>1. PICK beg \in Nat \ {0} : beg = k + 1
    OBVIOUS
  <2>2. beg \in 0 .. n /\ 2 * beg <= n /\ beg - 1 = k
    BY <1>1, <2>1
  <2>3. swap[beg] = Exchanged(swap[k], n, beg)
    BY <1>3, <2>2
  <2>4. swap[beg] = Turned(s, n, beg)
    BY <1>5, <2>2, <2>3, ExchangedTurned
  <2> QED BY <2>1, <2>4
<1>6. half \in S
  <2> HIDE DEF S
  <2> QED BY <1>4, <1>5, half \in 0 .. half, UpTo
<1>7. Swapped(s) = Turned(s, n, half)
  BY <1>1, <1>2, <1>6, SwappedUnfolds
<1>8. ASSUME NEW j \in 1 .. n
      PROVE  (IF j <= half \/ j > n - half THEN s[n + 1 - j] ELSE s[j])
               = s[n + 1 - j]
  <2>1. CASE j <= half \/ j > n - half
    BY <2>1
  <2>2. CASE ~(j <= half \/ j > n - half)
    <3>1. n + 1 - j = j
      BY <1>1, <2>2
    <3> QED BY <2>2, <3>1
  <2> QED BY <2>1, <2>2
<1> QED BY <1>1, <1>7, <1>8 DEF Turned

-----------------------------------------------------------------------------
(* Numerals. *)

Reads(s, radix) ==
  CHOOSE read : read = [k \in 0 .. Len(s) |->
    IF k = 0 THEN 0 ELSE read[k - 1] * radix + DigitOf(s[k])]

LEMMA NumberOfUnfolds ==
  ASSUME NEW s, NEW radix
  PROVE  NumberOf(s, radix) = Reads(s, radix)[Len(s)]
  BY Zenon DEF NumberOf, Reads

LEMMA ReadsExists ==
  ASSUME NEW s, Len(s) \in Nat, NEW radix
  PROVE  Reads(s, radix) = [k \in 0 .. Len(s) |->
           IF k = 0 THEN 0
           ELSE Reads(s, radix)[k - 1] * radix + DigitOf(s[k])]
<1>1. PICK len \in Nat : len = Len(s)
  OBVIOUS
<1> DEFINE Step(x, k) == x * radix + DigitOf(s[k])
           Is(f, n) == f = [k \in 0 .. n |->
                              IF k = 0 THEN 0 ELSE Step(f[k - 1], k)]
           S == {n \in Nat : \E f : Is(f, n)}
<1> HIDE DEF Step
<1>2. 0 \in S
  <2> DEFINE f == [k \in 0 .. 0 |-> 0]
  <2>1. f = [k \in 0 .. 0 |-> IF k = 0 THEN 0 ELSE Step(f[k - 1], k)]
    BY \A k \in 0 .. 0 : k = 0
  <2> QED BY <2>1
<1>3. ASSUME NEW n \in Nat, n \in S PROVE n + 1 \in S
  <2>1. PICK f : Is(f, n)
    BY <1>3
  <2> DEFINE g == [k \in 0 .. n + 1 |->
                     IF k <= n THEN f[k] ELSE Step(f[n], n + 1)]
  <2>2. \A k \in 0 .. n : g[k] = f[k]
    OBVIOUS
  <2>3. g[n + 1] = Step(f[n], n + 1)
    OBVIOUS
  <2>4. ASSUME NEW k \in 0 .. n + 1
        PROVE  g[k] = IF k = 0 THEN 0 ELSE Step(g[k - 1], k)
    <3> HIDE DEF g
    <3>1. CASE k = 0
      <4>1. f[0] = 0
        BY <2>1
      <4> QED BY <2>2, <3>1, <4>1
    <3>2. CASE k \in 1 .. n
      <4>1. k \in 0 .. n /\ k - 1 \in 0 .. n /\ k # 0
        BY <3>2
      <4>2. f[k] = Step(f[k - 1], k)
        BY <2>1, <4>1
      <4> QED BY <2>2, <4>1, <4>2
    <3>3. CASE k = n + 1
      <4>1. k # 0 /\ k - 1 = n /\ n \in 0 .. n
        BY <3>3
      <4> QED BY <2>2, <2>3, <3>3, <4>1
    <3> QED BY <3>1, <3>2, <3>3
  <2>5. Is(g, n + 1)
    BY <2>4
  <2> HIDE DEF Is, g
  <2> QED BY <2>5
<1>4. len \in S
  <2> HIDE DEF S
  <2>1. \A k \in 0 .. len - 1 : k \in S => k + 1 \in S
    BY <1>3
  <2>2. \A k \in 0 .. len : k \in S
    BY <1>2, <2>1, UpTo
  <2>3. len \in 0 .. len
    OBVIOUS
  <2> QED BY <2>2, <2>3
<1>5. \E f : f = [k \in 0 .. len |-> IF k = 0 THEN 0 ELSE Step(f[k - 1], k)]
  BY <1>4
<1> QED BY <1>1, <1>5, Zenon DEF Reads, Step

LEMMA ReadsAt ==
  ASSUME NEW s, NEW n \in Nat, Len(s) = n, NEW radix,
         NEW read, read = Reads(s, radix)
  PROVE  /\ read[0] = 0
         /\ \A k \in 1 .. n : read[k] = read[k - 1] * radix + DigitOf(s[k])
<1>1. read = [k \in 0 .. n |->
                IF k = 0 THEN 0 ELSE read[k - 1] * radix + DigitOf(s[k])]
  <2>1. Len(s) \in Nat
    OBVIOUS
  <2>2. Reads(s, radix) = [k \in 0 .. Len(s) |->
          IF k = 0 THEN 0
          ELSE Reads(s, radix)[k - 1] * radix + DigitOf(s[k])]
    BY <2>1, ReadsExists, Zenon
  <2> QED BY <2>2, Zenon
<1>2. \A k \in 0 .. n :
        read[k] = IF k = 0 THEN 0 ELSE read[k - 1] * radix + DigitOf(s[k])
  BY <1>1, Zenon
<1>3. 0 \in 0 .. n /\ \A k \in 1 .. n : k \in 0 .. n /\ k # 0
  OBVIOUS
<1> QED BY <1>2, <1>3, Zenon

\* t is s with one digit more at the end.
OneMore(s, t, n) ==
  Len(s) = n /\ Len(t) = n + 1 /\ \A k \in 1 .. n : t[k] = s[k]

LEMMA NumberOfNext ==
  ASSUME NEW s, NEW t, NEW n \in Nat, NEW radix, OneMore(s, t, n)
  PROVE  NumberOf(t, radix) = NumberOf(s, radix) * radix + DigitOf(t[n + 1])
<1>0. Len(s) = n /\ Len(t) = n + 1 /\ \A k \in 1 .. n : t[k] = s[k]
  BY DEF OneMore
<1>1. PICK a, b : a = Reads(s, radix) /\ b = Reads(t, radix)
  OBVIOUS
<1>2. PICK m \in Nat : m = n + 1 /\ m - 1 = n /\ m \in 1 .. m
  OBVIOUS
<1>3. /\ a[0] = 0
      /\ \A k \in 1 .. n : a[k] = a[k - 1] * radix + DigitOf(s[k])
  BY <1>0, <1>1, ReadsAt
<1>4. /\ b[0] = 0
      /\ \A k \in 1 .. m : b[k] = b[k - 1] * radix + DigitOf(t[k])
  BY <1>0, <1>1, <1>2, ReadsAt
<1> DEFINE S == {k \in Nat : a[k] = b[k]}
<1>5. 0 \in S
  BY <1>3, <1>4
<1>6. ASSUME NEW k \in 0 .. n - 1, k \in S PROVE k + 1 \in S
  <2>1. PICK j \in 1 .. n : j = k + 1 /\ j - 1 = k /\ j \in 1 .. m
    BY <1>2
  <2>2. a[j] = a[k] * radix + DigitOf(s[j])
    BY <1>3, <2>1
  <2>3. b[j] = b[k] * radix + DigitOf(t[j])
    BY <1>4, <2>1
  <2>4. a[k] = b[k] /\ s[j] = t[j]
    BY <1>0, <1>6
  <2>5. a[j] = b[j]
    BY <2>2, <2>3, <2>4, Zenon
  <2> QED BY <2>1, <2>5
<1>7. a[n] = b[n]
  <2>1. \A k \in 0 .. n : k \in S
    <3> HIDE DEF S
    <3> QED BY <1>5, <1>6, UpTo
  <2> QED BY <2>1, n \in 0 .. n
<1>8. b[m] = b[n] * radix + DigitOf(t[m])
  BY <1>2, <1>4
<1>9. NumberOf(t, radix) = b[m] /\ NumberOf(s, radix) = a[n]
  BY <1>0, <1>1, <1>2, NumberOfUnfolds, Zenon
<1> QED BY <1>2, <1>7, <1>8, <1>9, Zenon

LEMMA NumberOfNone ==
  ASSUME NEW s, Len(s) = 0, NEW radix
  PROVE  NumberOf(s, radix) = 0
<1>0. PICK n \in Nat : n = 0 /\ Len(s) = n
  OBVIOUS
<1>1. PICK read : n = 0 /\ Len(s) = n /\ read = Reads(s, radix)
  BY <1>0
<1>2. read[0] = 0
  BY <1>1, ReadsAt
<1> QED BY <1>1, <1>2, NumberOfUnfolds

LEMMA LookupDigits ==
  ASSUME NEW d \in 0 .. 35
  PROVE  /\ DigitOf(Lookup(d)) = d /\ Lookup(d) \in Nat \ {0}
         /\ Lookup(d) = Lookup(0) => d = 0
  BY DEF DigitOf, Lookup

-----------------------------------------------------------------------------
(* itoa. *)

\* A turn of the loop of itoa, over what the turns after it give.
LowStep(rests, v, radix) ==
  IF v = 0 THEN <<>> ELSE <<Lookup(v % radix)>> \o rests[v \div radix]

Low(radix) ==
  CHOOSE low : low = [v \in Number |-> LowStep(low, v, radix)]

LEMMA DigitsUnfolds ==
  ASSUME NEW v, NEW radix
  PROVE  Digits(v, radix) =
           IF v = 0 THEN <<Lookup(0)>> ELSE Swapped(Low(radix)[v])
  BY Zenon DEF Digits, Low, LowStep

LEMMA Quotient ==
  ASSUME NEW v \in Nat \ {0}, NEW r \in 2 .. 36
  PROVE  /\ v \div r \in Nat /\ v \div r < v /\ v % r \in 0 .. r - 1
         /\ v % r \in Nat /\ v = (v \div r) * r + (v % r)
  OBVIOUS

\* The loop is defined: it goes on with a smaller value.
LEMMA LowExists ==
  ASSUME NEW radix \in 2 .. 36
  PROVE  Low(radix) = [v \in Number |-> LowStep(Low(radix), v, radix)]
<1> DEFINE It(f, v) == LowStep(f, v, radix)
           Is(f, m) == f = [v \in 0 .. m - 1 |-> It(f, v)]
           S == {m \in Nat : \E f : Is(f, m)}
<1>1. ASSUME NEW v \in Nat, NEW f, NEW g, \A w \in 0 .. v - 1 : f[w] = g[w]
      PROVE  It(f, v) = It(g, v)
  <2>1. CASE v = 0
    BY <2>1 DEF LowStep
  <2>2. CASE v # 0
    <3>1. PICK q : q = v \div radix
      OBVIOUS
    <3>2. q \in 0 .. v - 1
      BY <2>2, <3>1, Quotient
    <3>3. f[q] = g[q]
      BY <1>1, <3>2
    <3> QED BY <2>2, <3>1, <3>3, Zenon DEF LowStep
  <2> QED BY <2>1, <2>2
<1> HIDE DEF It
<1>2. 0 \in S
  <2> DEFINE f == [v \in 0 .. 0 - 1 |-> It(<<>>, v)]
  <2>1. \A v \in 0 .. 0 - 1 : FALSE
    OBVIOUS
  <2>2. f = [v \in 0 .. 0 - 1 |-> It(f, v)]
    BY <2>1
  <2> HIDE DEF f
  <2> QED BY <2>2
<1>3. ASSUME NEW m \in Nat, m \in S PROVE m + 1 \in S
  <2>1. PICK f : Is(f, m)
    BY <1>3
  <2> DEFINE g == [v \in 0 .. m |-> IF v <= m - 1 THEN f[v] ELSE It(f, m)]
  <2>2. /\ \A v \in 0 .. m - 1 : g[v] = f[v]
        /\ g[m] = It(f, m) /\ DOMAIN g = 0 .. m /\ g = [v \in 0 .. m |-> g[v]]
    OBVIOUS
  <2> HIDE DEF g
  <2>3. ASSUME NEW v \in 0 .. m PROVE g[v] = It(g, v)
    <3>0. \A w \in 0 .. v - 1 : w \in 0 .. m - 1
      OBVIOUS
    <3>1. \A w \in 0 .. v - 1 : f[w] = g[w]
      BY <2>2, <3>0, Zenon
    <3>2. It(f, v) = It(g, v)
      BY <1>1, <3>1
    <3>3. CASE v = m
      BY <2>2, <3>2, <3>3
    <3>4. CASE v # m
      <4>1. v \in 0 .. m - 1
        BY <3>4
      <4>2. f[v] = It(f, v)
        BY <2>1, <4>1
      <4> QED BY <2>2, <3>2, <4>1, <4>2
    <3> QED BY <3>3, <3>4
  <2>4. (m + 1) - 1 = m /\ m + 1 \in Nat
    OBVIOUS
  <2>5. Is(g, m + 1)
    BY <2>2, <2>3, <2>4
  <2> HIDE DEF Is
  <2> QED BY <2>4, <2>5
<1>4. WORD \in Nat
  BY LibraryAssumption
<1>5. PICK top \in Nat : top = WORD
  BY <1>4
<1>6. top \in S
  <2> HIDE DEF S
  <2>1. \A k \in 0 .. top - 1 : k \in S => k + 1 \in S
    BY <1>3
  <2>2. \A k \in 0 .. top : k \in S
    BY <1>2, <2>1, UpTo
  <2>3. top \in 0 .. top
    OBVIOUS
  <2> QED BY <2>2, <2>3
<1>7. \E f : f = [v \in Number |-> It(f, v)]
  BY <1>5, <1>6 DEF Number
<1> QED BY <1>7, Zenon DEF Low, It

\* A digit in front.
LEMMA ConsSeq ==
  ASSUME NEW c \in Nat, NEW t \in Seq(Nat), NEW s, s = <<c>> \o t
  PROVE  /\ s \in Seq(Nat) /\ Len(s) = Len(t) + 1 /\ s[1] = c
         /\ \A k \in 1 .. Len(t) : s[k + 1] = t[k]
  OBVIOUS

Backwards(t, s) ==
  Len(t) = Len(s) /\ \A k \in 1 .. Len(s) : t[k] = s[Len(s) + 1 - k]

OfDigits(s, radix) ==
  \A k \in 1 .. Len(s) : \E d \in 0 .. radix - 1 : s[k] = Lookup(d)

\* What the loop gives for v: its digits, the lowest first and the highest not
\* zero.
LowRight(s, v, radix) ==
  /\ s \in Seq(Nat) /\ OfDigits(s, radix)
  /\ v = 0 => s = <<>>
  /\ v # 0 => s # <<>> /\ s[Len(s)] # Lookup(0)
  /\ \A t \in Seq(Nat) : Backwards(t, s) => NumberOf(t, radix) = v

\* One digit more.
LEMMA LowRightNext ==
  ASSUME NEW radix \in 2 .. 36, NEW v \in Nat \ {0}, NEW q, NEW d,
         q = v \div radix, d = v % radix,
         NEW rest, LowRight(rest, q, radix),
         NEW s, s = <<Lookup(d)>> \o rest
  PROVE  LowRight(s, v, radix)
<1>1. /\ q \in Nat /\ q < v /\ d \in 0 .. radix - 1
      /\ v = q * radix + d /\ d \in 0 .. 35
  BY Quotient
<1>2. PICK c : c = Lookup(d)
  OBVIOUS
<1>3. DigitOf(c) = d /\ c \in Nat /\ (c = Lookup(0) => d = 0)
  BY <1>1, <1>2, LookupDigits
<1>4. rest \in Seq(Nat)
  BY DEF LowRight
<1>5. PICK n \in Nat : n = Len(rest)
  BY <1>4
<1>6. /\ s \in Seq(Nat) /\ Len(s) = n + 1 /\ s[1] = c
      /\ \A k \in 1 .. n : s[k + 1] = rest[k]
  BY <1>2, <1>3, <1>4, <1>5, ConsSeq
<1>7. OfDigits(s, radix)
  <2> SUFFICES ASSUME NEW k \in 1 .. n + 1
               PROVE  \E e \in 0 .. radix - 1 : s[k] = Lookup(e)
    BY <1>6 DEF OfDigits
  <2>1. CASE k = 1
    BY <1>1, <1>2, <1>6, <2>1
  <2>2. CASE k # 1
    <3>1. PICK j \in 1 .. n : k = j + 1
      <4>1. k - 1 \in 1 .. n /\ k = (k - 1) + 1
        BY <2>2
      <4> QED BY <4>1
    <3>2. \E e \in 0 .. radix - 1 : rest[j] = Lookup(e)
      BY <1>5 DEF LowRight, OfDigits
    <3> QED BY <1>6, <3>1, <3>2
  <2> QED BY <2>1, <2>2
<1>8. s # <<>> /\ s[Len(s)] # Lookup(0)
  <2>1. s # <<>>
    BY <1>6
  <2>2. CASE q = 0
    <3>1. rest = <<>>
      BY <2>2 DEF LowRight
    <3>2. n = 0
      BY <1>5, <3>1
    <3>3. d # 0
      BY <1>1, <2>2
    <3>4. s[Len(s)] = c
      BY <1>6, <3>2
    <3> QED BY <1>3, <2>1, <3>3, <3>4
  <2>3. CASE q # 0
    <3>1. rest # <<>> /\ rest[n] # Lookup(0)
      BY <1>5, <2>3 DEF LowRight
    <3>2. n \in 1 .. n
      BY <1>4, <1>5, <3>1
    <3> QED BY <1>6, <2>1, <3>1, <3>2
  <2> QED BY <2>2, <2>3
<1>9. ASSUME NEW t \in Seq(Nat), Backwards(t, s)
      PROVE  NumberOf(t, radix) = v
  <2>1. Len(t) = n + 1 /\ \A k \in 1 .. n + 1 : t[k] = s[(n + 1) + 1 - k]
    BY <1>6, <1>9 DEF Backwards
  <2>2. PICK u : u = [k \in 1 .. n |-> t[k]]
    OBVIOUS
  <2>3. \A k \in 1 .. n : t[k] \in Nat
    BY <2>1
  <2>4. u \in Seq(Nat) /\ Len(u) = n /\ \A k \in 1 .. n : t[k] = u[k]
    BY <2>2, <2>3
  <2>5. ASSUME NEW k \in 1 .. n PROVE u[k] = rest[n + 1 - k]
    <3>1. PICK j \in 1 .. n : j = n + 1 - k
      OBVIOUS
    <3>2. (n + 1) + 1 - k = j + 1 /\ k \in 1 .. n + 1
      BY <3>1
    <3>3. t[k] = s[j + 1]
      BY <2>1, <3>2, Zenon
    <3>4. s[j + 1] = rest[j] /\ t[k] = u[k]
      BY <1>6, <2>4, Zenon
    <3> QED BY <3>1, <3>3, <3>4, Zenon
  <2>6. Backwards(u, rest)
    BY <1>5, <2>4, <2>5 DEF Backwards
  <2>7. NumberOf(u, radix) = q
    BY <2>4, <2>6 DEF LowRight
  <2>8. t[n + 1] = c
    <3>1. n + 1 \in 1 .. n + 1 /\ (n + 1) + 1 - (n + 1) = 1
      OBVIOUS
    <3> QED BY <1>6, <2>1, <3>1
  <2>9. NumberOf(t, radix) = NumberOf(u, radix) * radix + DigitOf(t[n + 1])
    <3>1. OneMore(u, t, n)
      BY <2>1, <2>4, Zenon DEF OneMore
    <3> QED BY <3>1, NumberOfNext
  <2> QED BY <1>1, <1>3, <2>7, <2>8, <2>9
<1>10. v # 0
  OBVIOUS
<1> QED BY <1>6, <1>7, <1>8, <1>9, <1>10, Zenon DEF LowRight

LEMMA LowIsRight ==
  ASSUME NEW radix \in 2 .. 36, NEW v \in Number
  PROVE  LowRight(Low(radix)[v], v, radix)
<1>1. PICK low : low = Low(radix)
  OBVIOUS
<1>2. \A w \in Number : low[w] = LowStep(low, w, radix)
  BY <1>1, LowExists, Zenon
<1>3. WORD \in Nat /\ \A w : w \in Number <=> w \in Nat /\ w < WORD
  BY LibraryAssumption DEF Number
<1> DEFINE bad == {w \in Number : ~LowRight(low[w], w, radix)}
<1>4. bad = {}
  <2> SUFFICES ASSUME bad # {} PROVE FALSE
    OBVIOUS
  <2>1. PICK w \in bad : \A x \in bad : w <= x
    <3>1. bad \in SUBSET Nat
      BY <1>3
    <3> HIDE DEF bad
    <3> QED BY <3>1, LeastNumber
  <2>2. w \in Number /\ ~LowRight(low[w], w, radix) /\ w \in Nat /\ w < WORD
    BY <1>3
  <2>3. CASE w = 0
    <3>1. low[w] = <<>>
      BY <1>2, <2>2, <2>3 DEF LowStep
    <3>2. PICK s : s = low[w]
      OBVIOUS
    <3>3. s \in Seq(Nat) /\ Len(s) = 0 /\ s = <<>>
      BY <3>1, <3>2
    <3>4. OfDigits(s, radix)
      BY <3>3 DEF OfDigits
    <3>5. \A t \in Seq(Nat) : Backwards(t, s) => NumberOf(t, radix) = 0
      BY <3>3, NumberOfNone DEF Backwards
    <3>6. LowRight(s, w, radix)
      BY <2>3, <3>3, <3>4, <3>5, Zenon DEF LowRight
    <3> QED BY <2>2, <3>2, <3>6
  <2>4. CASE w # 0
    <3>1. PICK q, d : q = w \div radix /\ d = w % radix
      OBVIOUS
    <3>2. q \in Nat /\ q < w /\ w \in Nat \ {0}
      BY <2>2, <2>4, <3>1, Quotient
    <3>3. q \in Number /\ q \notin bad
      BY <1>3, <2>1, <2>2, <3>2
    <3>4. PICK rest, s : rest = low[q] /\ s = low[w]
      OBVIOUS
    <3>5. LowRight(rest, q, radix)
      BY <3>3, <3>4
    <3>6. s = <<Lookup(d)>> \o rest
      BY <1>2, <2>2, <2>4, <3>1, <3>4, Zenon DEF LowStep
    <3>7. LowRight(s, w, radix)
      BY <3>1, <3>2, <3>5, <3>6, LowRightNext, Zenon
    <3> QED BY <2>2, <3>4, <3>7
  <2> QED BY <2>3, <2>4
<1> QED BY <1>1, <1>4

\* A numeral: what ItoaRight says of the string, and no byte of it is '\0'.
IsNumeral(s, v, radix) ==
  /\ s \in Seq(Nat) /\ \A k \in 1 .. Len(s) : s[k] # 0
  /\ NumberOf(s, radix) = v
  /\ s # <<>> /\ (s[1] = Lookup(0) => Len(s) = 1)
  /\ OfDigits(s, radix)

LEMMA DigitsNotZero ==
  ASSUME NEW radix \in 2 .. 36, NEW s, OfDigits(s, radix)
  PROVE  \A k \in 1 .. Len(s) : s[k] # 0
<1> SUFFICES ASSUME NEW k \in 1 .. Len(s) PROVE s[k] # 0
  OBVIOUS
<1>1. PICK d \in 0 .. radix - 1 : s[k] = Lookup(d)
  BY DEF OfDigits
<1>2. d \in 0 .. 35
  OBVIOUS
<1> QED BY <1>1, <1>2, LookupDigits

\* The string that itoa makes is the numeral of the value.
LEMMA DigitsRight ==
  ASSUME NEW radix \in 2 .. 36, NEW v \in Number
  PROVE  IsNumeral(Digits(v, radix), v, radix)
<1>1. PICK s : s = Digits(v, radix)
  OBVIOUS
<1>2. CASE v = 0
  <2>1. PICK c \in Nat : c = Lookup(0) /\ DigitOf(c) = 0
    <3>1. 0 \in 0 .. 35
      OBVIOUS
    <3> QED BY <3>1, LookupDigits
  <2>2. s = <<c>>
    BY <1>1, <1>2, <2>1, DigitsUnfolds
  <2>3. s \in Seq(Nat) /\ Len(s) = 1 /\ s[1] = c /\ s # <<>>
    BY <2>2
  <2>4. NumberOf(s, radix) = 0
    <3>0. PICK e : e = <<>>
      OBVIOUS
    <3>1. PICK n \in Nat : n = 0 /\ Len(e) = n
      BY <3>0
    <3>2. OneMore(e, s, n) /\ n + 1 = 1
      BY <2>3, <3>1 DEF OneMore
    <3>3. NumberOf(s, radix) = NumberOf(e, radix) * radix + DigitOf(s[n + 1])
      <4>1. OneMore(e, s, n)
        BY <3>2
      <4> QED BY <4>1, NumberOfNext, Zenon
    <3>4. NumberOf(e, radix) = 0
      BY <3>1, NumberOfNone
    <3>5. s[n + 1] = c
      BY <2>3, <3>2
    <3> QED BY <2>1, <3>3, <3>4, <3>5
  <2>5. OfDigits(s, radix)
    <3>1. 0 \in 0 .. radix - 1
      OBVIOUS
    <3>2. \A k \in 1 .. Len(s) : s[k] = Lookup(0)
      BY <2>1, <2>3
    <3> QED BY <3>1, <3>2, Zenon DEF OfDigits
  <2> QED BY <1>1, <1>2, <2>3, <2>4, <2>5, DigitsNotZero, Zenon DEF IsNumeral
<1>3. CASE v # 0
  <2>1. PICK low : low = Low(radix)[v]
    OBVIOUS
  <2>2. LowRight(low, v, radix)
    BY <2>1, LowIsRight
  <2>3. low \in Seq(Nat) /\ low # <<>> /\ OfDigits(low, radix)
    BY <1>3, <2>2, Zenon DEF LowRight
  <2>4. low[Len(low)] # Lookup(0)
    BY <1>3, <2>2, Zenon DEF LowRight
  <2>5. PICK n \in Nat \ {0} : n = Len(low)
    BY <2>3
  <2>6. s = [j \in 1 .. n |-> low[n + 1 - j]]
    <3>1. s = Swapped(low)
      BY <1>1, <1>3, <2>1, DigitsUnfolds, Zenon
    <3>2. Swapped(low) = [j \in 1 .. Len(low) |-> low[Len(low) + 1 - j]]
      BY <2>3, SwappedIsReverse, Zenon
    <3> QED BY <2>5, <3>1, <3>2, Zenon
  <2>7. \A j \in 1 .. n : n + 1 - j \in 1 .. n
    OBVIOUS
  <2>8. \A j \in 1 .. n : low[j] \in Nat
    BY <2>3, <2>5
  <2>9. \A j \in 1 .. n : low[n + 1 - j] \in Nat
    BY <2>7, <2>8, Zenon
  <2>10. s \in Seq(Nat) /\ Len(s) = n
    BY <2>6, <2>9
  <2>11. \A j \in 1 .. n : s[j] = low[n + 1 - j]
    BY <2>6, Zenon
  <2>12. NumberOf(s, radix) = v
    <3>1. Backwards(s, low)
      BY <2>5, <2>10, <2>11, Zenon DEF Backwards
    <3> QED BY <2>2, <2>10, <3>1, Zenon DEF LowRight
  <2>13. s[1] # Lookup(0) /\ s # <<>>
    <3>1. 1 \in 1 .. n /\ n + 1 - 1 = n
      OBVIOUS
    <3>2. s[1] = low[n]
      BY <2>11, <3>1
    <3>3. s # <<>>
      BY <2>10
    <3> QED BY <2>4, <2>5, <3>2, <3>3, Zenon
  <2>14. OfDigits(s, radix)
    BY <2>3, <2>5, <2>7, <2>10, <2>11, Zenon DEF OfDigits
  <2> QED BY <1>1, <2>10, <2>12, <2>13, <2>14, DigitsNotZero, Zenon
             DEF IsNumeral
<1> QED BY <1>2, <1>3

LEMMA itoa_right ==
  ASSUME NEW v \in Number, NEW radix \in Radix, itoa(v, 0, radix),
         Len(Digits(v, radix)) < MEMSIZE
  PROVE  ItoaRight'
<1> USE LibraryAssumption
<1>1. radix \in 2 .. 36
  OBVIOUS
<1>2. PICK s, m : s = Digits(v, radix) /\ m = mem
  OBVIOUS
<1>3. IsNumeral(s, v, radix)
  BY <1>1, <1>2, DigitsRight
<1>4. PICK n \in Nat : n = Len(s) /\ n < MEMSIZE
  <2>1. s \in Seq(Nat)
    BY <1>3 DEF IsNumeral
  <2> QED BY <1>2, <2>1
<1>5. PICK z : z = Append(s, 0)
  OBVIOUS
<1>6. Len(z) = n + 1 /\ z[n + 1] = 0 /\ \A k \in 1 .. n : z[k] = s[k]
  <2>1. s \in Seq(Nat)
    BY <1>3 DEF IsNumeral
  <2> QED BY <1>4, <1>5, <2>1
<1>7. PICK w : w = Put(m, 0, z)
  OBVIOUS
<1>8. \A a \in 0 .. n : w[a] = z[a + 1]
  <2> SUFFICES ASSUME NEW a \in 0 .. n PROVE w[a] = z[a + 1]
    OBVIOUS
  <2>1. a \in Addr /\ a - 0 \in 0 .. Len(z) - 1 /\ a - 0 + 1 = a + 1
    BY <1>4, <1>6 DEF Addr
  <2> QED BY <1>7, <2>1 DEF Put
<1>9. \A k \in 1 .. n : w[k - 1] = s[k]
  <2> SUFFICES ASSUME NEW k \in 1 .. n PROVE w[k - 1] = s[k]
    OBVIOUS
  <2>1. k - 1 \in 0 .. n /\ (k - 1) + 1 = k
    OBVIOUS
  <2> QED BY <1>6, <1>8, <2>1
<1>10. Ends(w, 0, n)
  <2>1. n \in Addr /\ n >= 0
    BY <1>4 DEF Addr
  <2>2. n \in 0 .. n
    OBVIOUS
  <2>3. w[n] = 0
    BY <1>6, <1>8, <2>2
  <2>4. ASSUME NEW a \in 0 .. n - 1 PROVE w[a] # 0
    <3>1. PICK k \in 1 .. n : k = a + 1 /\ k - 1 = a
      OBVIOUS
    <3>2. s[k] # 0
      BY <1>3, <1>4 DEF IsNumeral
    <3> QED BY <1>9, <3>1, <3>2
  <2> QED BY <2>1, <2>3, <2>4 DEF Ends
<1>11. StringAt(w, 0) = s
  <2>1. EndOf(w, 0) = n
    BY <1>10, EndUnique
  <2>2. s = [k \in 1 .. n |-> s[k]]
    BY <1>3, <1>4 DEF IsNumeral
  <2>3. \A k \in 1 .. n : w[0 + k - 1] = s[k]
    BY <1>9
  <2>4. n - 0 = n
    OBVIOUS
  <2> QED BY <2>1, <2>2, <2>3, <2>4 DEF StringAt
<1>12. /\ mem' = w
       /\ call' = [fn |-> "itoa", s |-> 0, v |-> v, r |-> radix]
  BY <1>2, <1>5, <1>7, Zenon DEF itoa, CalledLast
<1>13. call'.s = 0 /\ call'.v = v /\ call'.r = radix
  BY <1>12
<1>14. DOMAIN s = 1 .. Len(s)
  BY <1>3 DEF IsNumeral
<1> QED BY <1>3, <1>11, <1>12, <1>13, <1>14, Zenon
        DEF ItoaRight, IsNumeral, OfDigits

LEMMA ItoaNext ==
  ASSUME ItoaRight, [Next]_vars
  PROVE  ItoaRight'
<1>1. CASE MemoryCall \/ StringCall
  <2>1. call'.fn # "itoa"
    <3>1. /\ \A s, c, n : memset(s, c, n) =>
             call' = [fn |-> "memset", s |-> s, c |-> c, n |-> n]
          /\ \A s, c, n : memset_word(s, c, n) =>
             call' = [fn |-> "memset_word", s |-> s, c |-> c, n |-> n]
          /\ \A s, c, n : memset_dword(s, c, n) =>
             call' = [fn |-> "memset_dword", s |-> s, c |-> c, n |-> n]
      BY Zenon DEF memset, memset_word, memset_dword, Called
    <3>2. /\ \A d, s, n : memcpy(d, s, n) =>
             call' = [fn |-> "memcpy", s |-> s, d |-> d, n |-> n]
          /\ \A d, s, n : memmove(d, s, n) =>
             call' = [fn |-> "memmove", s |-> s, d |-> d, n |-> n]
      BY Zenon DEF memcpy, memmove, Called
    <3>3. /\ \A s : strlen(s) => call'.fn # "itoa"
          /\ \A d, s, n : strncmp(d, s, n) => call'.fn # "itoa"
      BY DEF strlen, strncmp, Called
    <3>4. /\ \A d, s : strcpy(d, s) => call'.fn # "itoa"
          /\ \A d, s, n : strncpy(d, s, n) => call'.fn # "itoa"
      BY DEF strcpy, strncpy, Called
    <3>5. /\ \A s, c, n : memset(s, c, n) => call'.fn # "itoa"
          /\ \A s, c, n : memset_word(s, c, n) => call'.fn # "itoa"
          /\ \A s, c, n : memset_dword(s, c, n) => call'.fn # "itoa"
          /\ \A d, s, n : memcpy(d, s, n) => call'.fn # "itoa"
          /\ \A d, s, n : memmove(d, s, n) => call'.fn # "itoa"
      BY <3>1, <3>2
    <3>6. MemoryCall => call'.fn # "itoa"
      BY <3>5, Zenon DEF MemoryCall
    <3>7. StringCall => call'.fn # "itoa"
      BY <3>3, <3>4, Zenon DEF StringCall
    <3> QED BY <1>1, <3>6, <3>7
  <2> QED BY <2>1 DEF ItoaRight
<1>2. ASSUME NEW v \in Number, NEW r \in Radix,
             Len(Digits(v, r)) < MEMSIZE, itoa(v, 0, r)
      PROVE  ItoaRight'
  BY <1>2, itoa_right
<1>3. ASSUME NEW dirs, printf(dirs) PROVE ItoaRight'
  <2>1. call'.fn = "printf"
    BY <1>3 DEF printf, CalledLast
  <2> QED BY <2>1 DEF ItoaRight
<1>4. CASE UNCHANGED vars
  <2>1. mem' = mem /\ call' = call
    BY <1>4 DEF vars
  <2> QED BY <2>1, Zenon DEF ItoaRight
<1>5. Conversion => ItoaRight'
  <2> HIDE DEF ItoaRight
  <2> QED BY <1>2, <1>3, Zenon DEF Conversion
<1> QED BY <1>1, <1>4, <1>5 DEF Next

\* itoa (and the strrev it calls) writes the numeral of the value: every word
\* that the machine has, in every radix that the table of digits allows, with
\* no leading zero but for zero itself, and a '\0' behind it.
THEOREM ItoaIsRight == Spec => []ItoaRight
<1>1. Init => ItoaRight
  BY DEF Init, ItoaRight
<1>2. ItoaRight /\ [Next]_vars => ItoaRight'
  BY ItoaNext
<1> QED BY <1>1, <1>2, PTL DEF Spec
=============================================================================
