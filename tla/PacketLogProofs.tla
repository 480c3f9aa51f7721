--------------------------- MODULE PacketLogProofs ---------------------------
(***************************************************************************)
(* The flash log is the log of PacketLog, for every geometry, packet size  *)
(* and number of packets: what a reader finds grows at its end, packet by  *)
(* packet, and gives up its oldest ones only while enough of them remain.  *)
(* After a power failure between two boundaries, LOG_IDLE_STATE finds it.  *)
(***************************************************************************)
EXTENDS MCLogMachine, LogMachineProofs, FiniteSetTheorems

-----------------------------------------------------------------------------
(* Packets in order.                                                       *)

\* L has the packets of S, the older before the newer and each once.
IsRead(L, S) ==
    /\ L \in Seq(Packets)
    /\ \A j, k \in 1 .. Len(L) : j < k => L[j] < L[k]
    /\ \A k \in 1 .. Len(L) : L[k] \in S
    /\ \A p \in S : \E k \in 1 .. Len(L) : L[k] = p

LEMMA ReadNumbers ==
  ASSUME NEW S, NEW L, IsRead(L, S)
  PROVE  /\ Len(L) \in Nat /\ S \subseteq Packets
         /\ \A k \in 1 .. Len(L) : L[k] \in Nat /\ L[k] \in Packets
  <1>1. L \in Seq(Packets) /\ Len(L) \in Nat
    BY DEF IsRead
  <1>2. \A k \in 1 .. Len(L) : L[k] \in Packets
    BY <1>1
  <1>3. S \subseteq Packets
    BY <1>2, Zenon DEF IsRead
  <1>. QED  BY <1>1, <1>2, <1>3, PacketNumbers

\* There is one such sequence: the first place where two of them differ would
\* hold a packet that one of the two has no place for.
LEMMA NoDifference ==
  ASSUME NEW S, NEW L, NEW M, IsRead(L, S), IsRead(M, S)
  PROVE  \A k \in 1 .. Len(L) : k <= Len(M) /\ L[k] = M[k]
  <1>. DEFINE Out == {k \in 1 .. Len(L) : ~(k <= Len(M) /\ L[k] = M[k])}
  <1>1. SUFFICES ASSUME Out # {} PROVE FALSE
    BY Zenon
  <1>2. /\ Len(L) \in Nat /\ Len(M) \in Nat
        /\ \A k \in 1 .. Len(L) : L[k] \in Nat
        /\ \A k \in 1 .. Len(M) : M[k] \in Nat
    BY ReadNumbers
  <1>3. Out \subseteq Nat
    BY <1>2
  <1>4. PICK m : m = Min(Out)
    OBVIOUS
  <1>5. m \in Out /\ \A y \in Out : m <= y
    <2>. HIDE DEF Out
    <2>. QED  BY <1>1, <1>3, <1>4, LeastOf
  <1>6. m \in 1 .. Len(L) /\ ~(m <= Len(M) /\ L[m] = M[m])
    BY <1>5
  <1>7. ASSUME NEW i \in 1 .. Len(L), i < m PROVE i <= Len(M) /\ L[i] = M[i]
    <2>1. ~(m <= i)
      BY <1>2, <1>6, <1>7
    <2>. QED  BY <1>5, <1>7, <2>1
  <1>. HIDE DEF Out
  <1>8. PICK j \in 1 .. Len(M) : M[j] = L[m]
    BY <1>6, Zenon DEF IsRead
  <1>9. m < j
    <2>1. CASE j < m
      <3>1. j \in 1 .. Len(L) /\ L[j] = M[j]
        BY <1>2, <1>6, <1>7, <2>1
      <3>2. L[j] < L[m]
        BY <1>6, <2>1, <3>1, Zenon DEF IsRead
      <3>. QED  BY <1>2, <1>6, <1>8, <3>1, <3>2
    <2>2. CASE j = m
      BY <1>2, <1>6, <1>8, <2>2
    <2>. QED  BY <1>2, <1>6, <2>1, <2>2
  <1>10. m \in 1 .. Len(M) /\ M[m] < M[j]
    <2>1. m \in 1 .. Len(M)
      BY <1>2, <1>6, <1>9
    <2>. QED  BY <1>9, <2>1, Zenon DEF IsRead
  <1>11. PICK i \in 1 .. Len(L) : L[i] = M[m]
    BY <1>10, Zenon DEF IsRead
  <1>12. CASE i < m
    <2>1. i \in 1 .. Len(M) /\ M[i] = L[i]
      BY <1>2, <1>7, <1>12
    <2>2. M[i] < M[m]
      BY <1>10, <1>12, <2>1, Zenon DEF IsRead
    <2>. QED  BY <1>2, <1>10, <1>11, <2>1, <2>2
  <1>13. CASE i = m
    BY <1>2, <1>6, <1>10, <1>11, <1>13
  <1>14. CASE m < i
    <2>1. L[m] < L[i]
      BY <1>6, <1>14, Zenon DEF IsRead
    <2>. QED  BY <1>2, <1>6, <1>8, <1>10, <1>11, <2>1
  <1>. QED  BY <1>2, <1>6, <1>12, <1>13, <1>14

LEMMA SameRead ==
  ASSUME NEW S, NEW L, NEW M, IsRead(L, S), IsRead(M, S)
  PROVE  L = M
  <1>1. /\ \A k \in 1 .. Len(L) : k <= Len(M) /\ L[k] = M[k]
        /\ \A k \in 1 .. Len(M) : k <= Len(L) /\ M[k] = L[k]
    <2>1. \A k \in 1 .. Len(L) : k <= Len(M) /\ L[k] = M[k]
      BY NoDifference
    <2>2. \A k \in 1 .. Len(M) : k <= Len(L) /\ M[k] = L[k]
      BY NoDifference
    <2>. QED  BY <2>1, <2>2
  <1>2. L \in Seq(Packets) /\ M \in Seq(Packets) /\ Len(L) \in Nat /\ Len(M) \in Nat
    BY ReadNumbers, Zenon DEF IsRead
  <1>3. Len(L) = Len(M)
    <2>1. Len(L) <= Len(M)
      BY <1>1, <1>2
    <2>2. Len(M) <= Len(L)
      BY <1>1, <1>2
    <2>. QED  BY <1>2, <2>1, <2>2
  <1>. QED  BY <1>1, <1>2, <1>3

\* A packet newer than all goes to the end.
LEMMA ReadOn ==
  ASSUME NEW S, NEW L, IsRead(L, S), NEW p \in Packets, \A x \in S : x < p
  PROVE  IsRead(Append(L, p), S \cup {p})
  <1>. DEFINE M == Append(L, p)
  <1>1. /\ L \in Seq(Packets) /\ Len(L) \in Nat /\ p \in Nat
        /\ \A k \in 1 .. Len(L) : L[k] \in Nat /\ L[k] < p
    BY ReadNumbers, PacketNumbers, Zenon DEF IsRead
  <1>2. /\ M \in Seq(Packets) /\ Len(M) = Len(L) + 1 /\ M[Len(L) + 1] = p
        /\ \A k \in 1 .. Len(L) : M[k] = L[k]
    BY <1>1
  <1>. HIDE DEF M
  <1>3. ASSUME NEW j \in 1 .. Len(M), NEW k \in 1 .. Len(M), j < k PROVE M[j] < M[k]
    <2>1. j \in 1 .. Len(L) /\ M[j] = L[j]
      BY <1>1, <1>2, <1>3
    <2>2. CASE k \in 1 .. Len(L)
      <3>1. L[j] < L[k]
        BY <1>3, <2>1, <2>2, Zenon DEF IsRead
      <3>. QED  BY <1>2, <2>1, <2>2, <3>1
    <2>3. CASE k = Len(L) + 1
      BY <1>1, <1>2, <2>1, <2>3
    <2>. QED  BY <1>1, <1>2, <2>2, <2>3
  <1>4. ASSUME NEW k \in 1 .. Len(M) PROVE M[k] \in S \cup {p}
    <2>1. CASE k \in 1 .. Len(L)
      BY <1>2, <2>1 DEF IsRead
    <2>2. CASE k = Len(L) + 1
      BY <1>2, <2>2
    <2>. QED  BY <1>1, <1>2, <2>1, <2>2
  <1>5. ASSUME NEW x \in S \cup {p} PROVE \E k \in 1 .. Len(M) : M[k] = x
    <2>1. CASE x = p
      <3>1. Len(L) + 1 \in 1 .. Len(M)
        BY <1>1, <1>2
      <3>. QED  BY <1>2, <2>1, <3>1
    <2>2. CASE x \in S
      <3>1. PICK k \in 1 .. Len(L) : L[k] = x
        BY <2>2, Zenon DEF IsRead
      <3>2. k \in 1 .. Len(M)
        BY <1>1, <1>2
      <3>. QED  BY <1>2, <3>1, <3>2
    <2>. QED  BY <2>1, <2>2
  <1>. QED  BY <1>2, <1>3, <1>4, <1>5 DEF IsRead, M

\* When the oldest packets go, they are the first ones of the sequence.
LEMMA ReadLess ==
  ASSUME NEW S, NEW L, IsRead(L, S), NEW T, T \subseteq S,
         \A x \in S \ T : \A p \in T : x < p
  PROVE  \E n \in 0 .. Len(L) :
           /\ IsRead(SubSeq(L, n + 1, Len(L)), T)
           /\ \A k \in 1 .. n : L[k] \in S \ T
  <1>1. /\ L \in Seq(Packets) /\ Len(L) \in Nat /\ S \subseteq Packets
        /\ \A k \in 1 .. Len(L) : L[k] \in Nat /\ L[k] \in S
    BY ReadNumbers, Zenon DEF IsRead
  <1>. DEFINE Gone == {0} \cup {k \in 1 .. Len(L) : L[k] \notin T}
  <1>2. PICK n : n = Max(Gone)
    OBVIOUS
  <1>3. n \in Gone /\ \A y \in Gone : y <= n
    <2>1. Gone \subseteq 0 .. Len(L) /\ Gone # {}
      BY <1>1
    <2>. HIDE DEF Gone
    <2>. QED  BY <1>1, <1>2, <2>1, GreatestOf
  <1>4. n \in 0 .. Len(L) /\ n \in Nat /\ (n # 0 => n \in 1 .. Len(L) /\ L[n] \notin T)
    BY <1>1, <1>3
  <1>5. ASSUME NEW k \in 1 .. Len(L), n < k PROVE L[k] \in T
    <2>1. ~(k <= n)
      BY <1>1, <1>4, <1>5
    <2>. QED  BY <1>3, <2>1
  <1>. HIDE DEF Gone
  <1>6. ASSUME NEW k \in 1 .. n PROVE k \in 1 .. Len(L) /\ L[k] \in S \ T
    <2>1. k \in 1 .. Len(L) /\ n # 0
      BY <1>1, <1>4
    <2>2. CASE k = n
      BY <1>1, <1>4, <2>1, <2>2
    <2>3. CASE k # n
      <3>1. k < n
        BY <1>4, <2>3
      <3>2. L[k] < L[n]
        BY <1>4, <2>1, <3>1, Zenon DEF IsRead
      <3>3. ASSUME L[k] \in T PROVE FALSE
        <4>1. L[n] \in S \ T /\ L[n] < L[k]
          BY <1>1, <1>4, <2>1, <3>3
        <4>. QED  BY <1>1, <1>4, <2>1, <3>2, <4>1
      <3>. QED  BY <1>1, <2>1, <3>3
    <2>. QED  BY <2>2, <2>3
  <1>7. PICK M : M = SubSeq(L, n + 1, Len(L))
    OBVIOUS
  <1>8. /\ M \in Seq(Packets) /\ Len(M) = Len(L) - n
        /\ \A k \in 1 .. Len(L) - n : M[k] = L[k + n]
    <2>1. n + 1 \in 1 .. Len(L) + 1
      BY <1>1, <1>4
    <2>2. Len(M) = Len(L) - n
      BY <1>1, <1>4, <1>7
    <2>3. M \in Seq(Packets)
      BY <1>1, <1>4, <1>7
    <2>4. \A k \in 1 .. Len(L) - n : M[k] = L[k + n]
      BY <1>1, <1>4, <1>7
    <2>. QED  BY <2>2, <2>3, <2>4
  <1>9. ASSUME NEW j \in 1 .. Len(M), NEW k \in 1 .. Len(M), j < k PROVE M[j] < M[k]
    <2>1. PICK x \in 1 .. Len(L), y \in 1 .. Len(L) : x = j + n /\ y = k + n /\ x < y
      <3>1. j + n \in 1 .. Len(L) /\ k + n \in 1 .. Len(L) /\ j + n < k + n
        BY <1>1, <1>4, <1>8, <1>9
      <3>. QED  BY <3>1
    <2>2. L[x] < L[y]
      BY <2>1, Zenon DEF IsRead
    <2>. QED  BY <1>8, <2>1, <2>2
  <1>10. ASSUME NEW k \in 1 .. Len(M) PROVE M[k] \in T
    <2>1. k + n \in 1 .. Len(L) /\ n < k + n /\ M[k] = L[k + n]
      BY <1>1, <1>4, <1>8
    <2>. QED  BY <1>5, <2>1
  <1>11. ASSUME NEW p \in T PROVE \E k \in 1 .. Len(M) : M[k] = p
    <2>1. PICK k \in 1 .. Len(L) : L[k] = p
      BY <1>11, Zenon DEF IsRead
    <2>2. ~(k \in 1 .. n)
      BY <1>6, <2>1
    <2>3. k - n \in 1 .. Len(L) - n /\ (k - n) + n = k
      BY <1>1, <1>4, <2>2
    <2>. QED  BY <1>8, <2>1, <2>3
  <1>12. IsRead(M, T)
    BY <1>8, <1>9, <1>10, <1>11, Zenon DEF IsRead
  <1>. QED  BY <1>4, <1>6, <1>7, <1>12

-----------------------------------------------------------------------------
(* What a reader meets who follows the addresses.                          *)

IsMet(f, order, n) ==
    f = [k \in 0 .. n |->
            IF k = 0 THEN <<>>
            ELSE IF Begins(order, k) THEN Append(f[k - 1], flash[order[k]])
                 ELSE f[k - 1]]

LEMMA OneCellMore ==
  ASSUME NEW order, NEW n \in Nat, NEW f, IsMet(f, order, n)
  PROVE  \E g : IsMet(g, order, n + 1)
  <1>. DEFINE More(k, q) == IF Begins(order, k) THEN Append(q, flash[order[k]]) ELSE q
              g == [k \in 0 .. n + 1 |-> IF k = n + 1 THEN More(k, f[n]) ELSE f[k]]
  <1>1. ASSUME NEW k \in 0 .. n
        PROVE  f[k] = IF k = 0 THEN <<>> ELSE More(k, f[k - 1])
    BY Zenon DEF IsMet
  <1>2. ASSUME NEW k \in 0 .. n + 1
        PROVE  g[k] = IF k = 0 THEN <<>> ELSE More(k, g[k - 1])
    <2>. HIDE DEF More
    <2>1. CASE k = n + 1
      <3>1. g[k] = More(k, f[n]) /\ k # 0 /\ k - 1 = n /\ n \in 0 .. n + 1 /\ n # n + 1
        BY <2>1
      <3>2. g[n] = f[n]
        BY <3>1
      <3>. QED  BY <3>1, <3>2
    <2>2. CASE k # n + 1
      <3>1. k \in 0 .. n /\ g[k] = f[k]
        BY <2>2
      <3>2. f[k] = IF k = 0 THEN <<>> ELSE More(k, f[k - 1])
        BY <1>1, <3>1
      <3>3. k # 0 => k - 1 \in 0 .. n + 1 /\ k - 1 # n + 1
        BY <2>2
      <3>4. k # 0 => g[k - 1] = f[k - 1]
        BY <3>3
      <3>. QED  BY <3>1, <3>2, <3>4
    <2>. QED  BY <2>1, <2>2
  <1>3. g = [k \in 0 .. n + 1 |-> g[k]]
    OBVIOUS
  <1>. HIDE DEF g
  <1>4. g = [k \in 0 .. n + 1 |-> IF k = 0 THEN <<>> ELSE More(k, g[k - 1])]
    <2>. HIDE DEF More
    <2>. QED  BY <1>2, <1>3
  <1>5. IsMet(g, order, n + 1)
    BY <1>4, Zenon DEF IsMet
  <1>. QED  BY <1>5

\* The recursive function is what its definition says.
LEMMA MetSteps ==
  ASSUME NEW order, Len(order) \in Nat
  PROVE  /\ Met(order)[0] = <<>>
         /\ \A n \in Nat : n < Len(order) =>
               Met(order)[n + 1] = IF Begins(order, n + 1)
                                   THEN Append(Met(order)[n], flash[order[n + 1]])
                                   ELSE Met(order)[n]
  <1>. DEFINE S == {n \in Nat : \E f : IsMet(f, order, n)}
  <1>1. 0 \in S
    <2>1. PICK f : f = [k \in 0 .. 0 |-> <<>>]
      OBVIOUS
    <2>2. IsMet(f, order, 0)
      BY <2>1 DEF IsMet
    <2>. QED  BY <2>2
  <1>2. \A n \in S : n < Len(order) => n + 1 \in S
    <2>1. SUFFICES ASSUME NEW n \in S PROVE n + 1 \in S
      OBVIOUS
    <2>2. n \in Nat /\ \E f : IsMet(f, order, n)
      BY <2>1
    <2>3. \E g : IsMet(g, order, n + 1)
      BY <2>2, OneCellMore
    <2>4. n + 1 \in Nat
      BY <2>2
    <2>. QED  BY <2>3, <2>4
  <1>3. \E f : IsMet(f, order, Len(order))
    <2>. HIDE DEF S
    <2>1. \A n \in 0 .. Len(order) : n \in S
      BY <1>1, <1>2, CountUp, Zenon
    <2>2. Len(order) \in S
      BY <2>1
    <2>. QED  BY <2>2 DEF S
  <1>4. IsMet(Met(order), order, Len(order))
    BY <1>3, Zenon DEF IsMet, Met
  <1>5. \A k \in 0 .. Len(order) :
           Met(order)[k] = IF k = 0 THEN <<>>
                           ELSE IF Begins(order, k)
                                THEN Append(Met(order)[k - 1], flash[order[k]])
                                ELSE Met(order)[k - 1]
    BY <1>4, Zenon DEF IsMet
  <1>6. Met(order)[0] = <<>>
    <2>1. 0 \in 0 .. Len(order)
      OBVIOUS
    <2>. QED  BY <1>5, <2>1, Zenon
  <1>7. ASSUME NEW n \in Nat, n < Len(order)
        PROVE  Met(order)[n + 1] = IF Begins(order, n + 1)
                                   THEN Append(Met(order)[n], flash[order[n + 1]])
                                   ELSE Met(order)[n]
    <2>1. PICK k \in 0 .. Len(order) : k = n + 1 /\ k # 0 /\ k - 1 = n
      BY <1>7
    <2>2. Met(order)[k] = IF Begins(order, k)
                          THEN Append(Met(order)[k - 1], flash[order[k]])
                          ELSE Met(order)[k - 1]
      BY <1>5, <2>1, Zenon
    <2>. QED  BY <2>1, <2>2
  <1>. QED  BY <1>6, <1>7

\* An order in which no cell of a block is left out before another of it.
FollowsLog(order, w) ==
    /\ order \in Seq(Cells)
    /\ \A i, j \in 1 .. Len(order) : i < j => Earlier(w, order[i], order[j])
    /\ \A n \in 1 .. Len(order) :
          \/ \E b \in LogBlocks : order[n] = b * BLOCK
          \/ n > 1 /\ order[n - 1] = order[n] - 1

\* The wrap address is the end of a block, so no block lies on both its sides.
LEMMA SameSide ==
  ASSUME LogIInv, NEW c \in Cells, NEW d \in Cells, BlockOf(c) = BlockOf(d)
  PROVE  Behind(wrapAddr, c) <=> Behind(wrapAddr, d)
  <1>1. CASE wrapAddr = 0
    BY <1>1 DEF Behind
  <1>2. CASE wrapAddr # 0
    <2>1. wrapAddr \in {b * BLOCK : b \in 1 .. LAST_BLOCK + 1}
      BY <1>2 DEF LogIInv, TypeOK
    <2>2. PICK w \in 1 .. LAST_BLOCK + 1 : wrapAddr = w * BLOCK
      BY <2>1
    <2>3. LAST_BLOCK \in Nat /\ w \in Nat /\ wrapAddr \in Nat
      BY <2>2, WrapNumbers, LogMachineAssumption
    <2>4. \A x \in Cells : /\ x \in Nat /\ BlockOf(x) \in Nat
                           /\ BlockOf(x) < w => x < wrapAddr
                           /\ w <= BlockOf(x) => wrapAddr <= x
      <3>1. ASSUME NEW x \in Cells
            PROVE  /\ x \in Nat /\ BlockOf(x) \in Nat
                   /\ BlockOf(x) < w => x < w * BLOCK
                   /\ w <= BlockOf(x) => w * BLOCK <= x
        <4>1. x \in Nat /\ BlockOf(x) \in Nat
          BY CellFacts, BlockSums
        <4>2. /\ BlockOf(x) < w => x < w * BLOCK
              /\ w <= BlockOf(x) => w * BLOCK <= x
          BY <2>3, BlockOrder
        <4>. QED  BY <4>1, <4>2
      <3>. QED  BY <2>2, <3>1
    <2>5. CASE BlockOf(c) < w
      BY <2>3, <2>4, <2>5 DEF Behind
    <2>6. CASE w <= BlockOf(c)
      BY <1>2, <2>3, <2>4, <2>6 DEF Behind
    <2>. QED  BY <2>3, <2>4, <2>5, <2>6
  <1>. QED  BY <1>1, <1>2

\* The packets in the first n cells of an order.
ShownIn(order, n) ==
    {flash[order[k]] : k \in {j \in 1 .. n : Shows(flash, bad, order[j])}}

\* A packet begins where it is newer than all that has been met, as it is met
\* in one piece and from its first cell on.
LEMMA NewWhereBegins ==
  ASSUME LogIInv, OrderIInv, NEW order, FollowsLog(order, wrapAddr),
         NEW n \in Nat, n < Len(order), Begins(order, n + 1),
         NEW k \in 1 .. n, Shows(flash, bad, order[k])
  PROVE  flash[order[k]] < flash[order[n + 1]]
  <1>1. /\ order \in Seq(Cells) /\ Len(order) \in Nat
        /\ n + 1 \in 1 .. Len(order) /\ k \in 1 .. Len(order) /\ k < n + 1
    BY DEF FollowsLog
  <1>2. PICK c \in Cells, d \in Cells : c = order[k] /\ d = order[n + 1]
    BY <1>1
  <1>3. /\ Shows(flash, bad, c) /\ Shows(flash, bad, d) /\ Earlier(wrapAddr, c, d)
    BY <1>1, <1>2, Zenon DEF FollowsLog, Begins, Shows
  <1>4. /\ c \in Nat /\ d \in Nat /\ wrapAddr \in Nat
        /\ flash[c] \in Packets /\ flash[d] \in Packets
        /\ flash[c] \in Nat /\ flash[d] \in Nat
    BY <1>3, WrapNumbers, CellFacts, PacketNumbers, Zenon DEF Shows
  <1>5. flash[c] <= flash[d]
    BY <1>3, Zenon DEF OrderIInv, FlashIsSound, InOrder
  <1>6. ASSUME flash[c] = flash[d] PROVE FALSE
    <2>1. PICK b \in LogBlocks, a \in Nat :
            InBlock(a, b, recorder) /\ IsAt(flash, bad, flash[d], a, recorder)
      BY <1>3, Zenon DEF OrderIInv, FlashIsSound, Whole
    <2>2. c \in a .. a + recorder - 1 /\ d \in a .. a + recorder - 1
      BY <1>3, <1>6, <2>1, Zenon DEF IsAt
    <2>3. recorder \in 1 .. PAGE /\ recorder \in Nat
      BY IInvParts, LogMachineAssumption DEF FlashTypes
    <2>4. \A x \in a .. a + recorder - 1 : x \in Cells /\ BlockOf(x) = b
      BY <2>1, <2>3, PlaceCells, Zenon
    <2>5. c < d
      <3>1. Behind(wrapAddr, c) <=> Behind(wrapAddr, d)
        BY <2>2, <2>4, SameSide, Zenon
      <3>. QED  BY <1>3, <3>1, Zenon DEF Earlier
    <2>6. d - 1 \in a .. a + recorder - 1 /\ d - 1 < d /\ n # 0 /\ n + 1 > 1
      BY <1>4, <2>2, <2>3, <2>5
    <2>7. order[n] = d - 1
      <3>1. \/ \E g \in LogBlocks : order[n + 1] = g * BLOCK
            \/ order[n + 1 - 1] = order[n + 1] - 1
        <4>1. PICK z \in 1 .. Len(order) : z = n + 1 /\ z - 1 = n + 1 - 1
          BY <1>1
        <4>2. \/ \E g \in LogBlocks : order[z] = g * BLOCK
              \/ order[z - 1] = order[z] - 1
          BY Zenon DEF FollowsLog
        <4>. QED  BY <4>1, <4>2
      <3>2. CASE \E g \in LogBlocks : order[n + 1] = g * BLOCK
        <4>1. PICK g \in LogBlocks : d = g * BLOCK
          BY <1>2, <3>2
        <4>2. g \in Nat /\ g * BLOCK \in Nat /\ BLOCK \in Nat \ {0}
              /\ (g + 1) * BLOCK = g * BLOCK + BLOCK
          BY BlockSums, WrapNumbers
        <4>3. BlockOf(d) = g
          BY <1>4, <4>1, <4>2, CellOfBlock
        <4>4. b = g /\ BlockOf(d - 1) = b /\ d - 1 \in Cells
          BY <2>2, <2>4, <2>6, <4>3
        <4>5. g * BLOCK <= d - 1
          BY <4>2, <4>4, BlockOrder
        <4>. QED  BY <1>4, <4>1, <4>5
      <3>3. n + 1 - 1 = n
        OBVIOUS
      <3>. QED  BY <1>2, <3>1, <3>2, <3>3
    <2>8. flash[d - 1] = flash[d] /\ BlockOf(d - 1) \notin bad
      <3>1. d - 1 \in Cells /\ BlockOf(d - 1) = BlockOf(d)
        BY <2>2, <2>4, <2>6
      <3>2. Shows(flash, bad, d - 1) /\ flash[d - 1] = flash[d]
        BY <2>1, <2>6, <3>1, Zenon DEF IsAt
      <3>. QED  BY <3>2, Zenon DEF Shows
    <2>9. PICK z : z = n + 1 /\ z > 1 /\ z - 1 = n
      BY <2>6
    <2>10. flash[order[z]] # flash[order[z - 1]] \/ BlockOf(order[z - 1]) \in bad
      <3>1. Begins(order, z)
        BY <2>9
      <3>. QED  BY <2>9, <3>1, Zenon DEF Begins
    <2>. QED  BY <1>2, <2>7, <2>8, <2>9, <2>10
  <1>. QED  BY <1>2, <1>4, <1>5, <1>6

LEMMA ScanStep ==
  ASSUME LogIInv, OrderIInv, NEW order, FollowsLog(order, wrapAddr),
         NEW n \in Nat, n < Len(order), NEW L, IsRead(L, ShownIn(order, n))
  PROVE  IsRead(IF Begins(order, n + 1) THEN Append(L, flash[order[n + 1]]) ELSE L,
                ShownIn(order, n + 1))
  <1>1. order \in Seq(Cells) /\ Len(order) \in Nat /\ n + 1 \in 1 .. Len(order)
    BY DEF FollowsLog
  <1>2. PICK d \in Cells : d = order[n + 1]
    BY <1>1
  <1>3. ShownIn(order, n + 1) =
          ShownIn(order, n) \cup (IF Shows(flash, bad, d) THEN {flash[d]} ELSE {})
    <2>1. 1 .. n + 1 = (1 .. n) \cup {n + 1}
      OBVIOUS
    <2>. QED  BY <1>2, <2>1 DEF ShownIn
  <1>4. CASE Begins(order, n + 1)
    <2>1. Shows(flash, bad, d) /\ flash[d] \in Packets
      BY <1>2, <1>4, Zenon DEF Begins, Shows
    <2>2. ASSUME NEW x \in ShownIn(order, n) PROVE x < flash[d]
      <3>1. PICK k \in 1 .. n : Shows(flash, bad, order[k]) /\ x = flash[order[k]]
        BY <2>2, Zenon DEF ShownIn
      <3>. QED  BY <1>2, <1>4, <3>1, NewWhereBegins
    <2>3. IsRead(Append(L, flash[d]), ShownIn(order, n) \cup {flash[d]})
      BY <2>1, <2>2, ReadOn
    <2>. QED  BY <1>2, <1>3, <1>4, <2>1, <2>3
  <1>5. CASE ~Begins(order, n + 1)
    <2>1. ASSUME Shows(flash, bad, d) PROVE flash[d] \in ShownIn(order, n)
      <3>1. n + 1 > 1 /\ flash[d] = flash[order[n + 1 - 1]]
                      /\ BlockOf(order[n + 1 - 1]) \notin bad
        <4>1. flash[order[n + 1]] \in Packets /\ BlockOf(order[n + 1]) \notin bad
          BY <1>2, <2>1, Zenon DEF Shows
        <4>. QED  BY <1>2, <1>5, <4>1 DEF Begins
      <3>2. n \in 1 .. n /\ n + 1 - 1 = n
        BY <3>1
      <3>3. Shows(flash, bad, order[n]) /\ flash[order[n]] = flash[d]
        BY <2>1, <3>1, <3>2 DEF Shows
      <3>. QED  BY <3>2, <3>3, Zenon DEF ShownIn
    <2>2. ShownIn(order, n + 1) = ShownIn(order, n)
      BY <1>3, <2>1
    <2>. QED  BY <1>5, <2>2
  <1>. QED  BY <1>4, <1>5

\* All that is met in the order.
LEMMA ScanIs ==
  ASSUME LogIInv, OrderIInv, NEW order, FollowsLog(order, wrapAddr)
  PROVE  IsRead(PacketsRead(order), ShownIn(order, Len(order)))
  <1>1. Len(order) \in Nat
    BY DEF FollowsLog
  <1>. DEFINE S == {n \in Nat : IsRead(Met(order)[n], ShownIn(order, n))}
  <1>2. 0 \in S
    <2>1. ShownIn(order, 0) = {}
      BY DEF ShownIn
    <2>2. IsRead(<<>>, {})
      BY DEF IsRead
    <2>3. Met(order)[0] = <<>>
      BY <1>1, MetSteps
    <2>. QED  BY <2>1, <2>2, <2>3
  <1>3. \A n \in S : n < Len(order) => n + 1 \in S
    <2>1. SUFFICES ASSUME NEW n \in S, n < Len(order) PROVE n + 1 \in S
      OBVIOUS
    <2>2. n \in Nat /\ IsRead(Met(order)[n], ShownIn(order, n)) /\ n + 1 \in Nat
      BY <2>1
    <2>3. Met(order)[n + 1] = IF Begins(order, n + 1)
                              THEN Append(Met(order)[n], flash[order[n + 1]])
                              ELSE Met(order)[n]
      BY <1>1, <2>1, <2>2, MetSteps, Zenon
    <2>4. IsRead(Met(order)[n + 1], ShownIn(order, n + 1))
      BY <2>1, <2>2, <2>3, ScanStep
    <2>. QED  BY <2>2, <2>4
  <1>. HIDE DEF S
  <1>4. \A n \in 0 .. Len(order) : n \in S
    BY <1>1, <1>2, <1>3, CountUp, Zenon
  <1>5. Len(order) \in S
    BY <1>1, <1>4
  <1>. QED  BY <1>5 DEF S, PacketsRead

\* The numbers from x on.
LEMMA Stretch ==
  ASSUME NEW x \in Nat, NEW y \in Nat
  PROVE  \E m \in Nat : \E s \in Seq(Nat) :
            /\ s = [k \in 1 .. y - x |-> x + k - 1]
            /\ Len(s) = m /\ m = (IF x <= y THEN y - x ELSE 0)
            /\ \A k \in 1 .. m : s[k] = x + k - 1
  <1>1. PICK m \in Nat : m = (IF x <= y THEN y - x ELSE 0)
    <2>1. (IF x <= y THEN y - x ELSE 0) \in Nat
      OBVIOUS
    <2>. QED  BY <2>1
  <1>2. 1 .. y - x = 1 .. m
    BY <1>1
  <1>3. PICK s : s = [k \in 1 .. m |-> x + k - 1]
    OBVIOUS
  <1>4. s \in Seq(Nat) /\ Len(s) = m /\ \A k \in 1 .. m : s[k] = x + k - 1
    BY <1>3
  <1>5. s = [k \in 1 .. y - x |-> x + k - 1]
    BY <1>2, <1>3
  <1>. QED  BY <1>1, <1>4, <1>5

AreJoined(q, s, t) ==
    /\ q \in Seq(Nat) /\ Len(q) = Len(s) + Len(t)
    /\ \A k \in 1 .. Len(s) : q[k] = s[k]
    /\ \A k \in Len(s) + 1 .. Len(s) + Len(t) : q[k] = t[k - Len(s)]

LEMMA Joined ==
  ASSUME NEW s \in Seq(Nat), NEW t \in Seq(Nat)
  PROVE  AreJoined(s \o t, s, t)
  <1>1. PICK m \in Nat, n \in Nat : m = Len(s) /\ n = Len(t)
    OBVIOUS
  <1>2. PICK q : q = s \o t
    OBVIOUS
  <1>3. /\ q \in Seq(Nat) /\ Len(q) = m + n
        /\ \A k \in 1 .. m + n : q[k] = IF k <= m THEN s[k] ELSE t[k - m]
    BY <1>1, <1>2, ConcatProperties
  <1>4. /\ \A k \in 1 .. m : q[k] = s[k]
        /\ \A k \in m + 1 .. m + n : q[k] = t[k - m]
    <2>1. /\ \A k \in 1 .. m : k \in 1 .. m + n /\ k <= m
          /\ \A k \in m + 1 .. m + n : k \in 1 .. m + n /\ ~(k <= m)
      OBVIOUS
    <2>2. \A k \in 1 .. m + n : q[k] = IF k <= m THEN s[k] ELSE t[k - m]
      BY <1>3
    <2>. QED  BY <2>1, <2>2, Zenon
  <1>. QED  BY <1>1, <1>2, <1>3, <1>4, Zenon DEF AreJoined

\* The cells between the start of the log and the address, or from the wrap
\* address to the end of the device, and from there.
LEMMA ReadsAll ==
  ASSUME LogIInv, NEW a \in BLOCK .. DEVICE, NEW info, info.address = a,
         info.wrapAddr = wrapAddr, wrapAddr # 0 => a <= wrapAddr,
         NEW order, order = ReadingOrder(info)
  PROVE  /\ FollowsLog(order, wrapAddr)
         /\ \A k \in 1 .. Len(order) : order[k] < a \/ Behind(wrapAddr, order[k])
         /\ \A c \in Cells :
               c < a \/ (Behind(wrapAddr, c) /\ c < RDU_LOG_ADDR_END)
                 => \E k \in 1 .. Len(order) : order[k] = c
  <1>1. /\ BLOCK \in Nat \ {0} /\ DEVICE \in Nat /\ a \in Nat /\ BLOCK <= a /\ a <= DEVICE
        /\ RDU_LOG_ADDR_END \in Nat /\ RDU_LOG_ADDR_END <= DEVICE /\ wrapAddr \in Nat
        /\ RDU_LOG_ADDR_START = BLOCK /\ RDU_LOG_ADDR_END < DEVICE
    <2>1. BLOCK \in Nat \ {0} /\ DEVICE \in Nat /\ PAGE \in Nat \ {0} /\ wrapAddr \in Nat
      BY BlockSums, WrapNumbers, LogMachineAssumption
    <2>. QED  BY <2>1, EndOfDevice DEF RDU_LOG_ADDR_END, RDU_LOG_ADDR_START
  <1>2. \A c : c \in Cells <=> c \in Nat /\ BLOCK <= c /\ c < DEVICE
    BY <1>1 DEF Cells
  <1>3. 1 \in LogBlocks /\ 1 * BLOCK = BLOCK
    BY <1>1, LogMachineAssumption DEF LogBlocks
  <1>4. PICK n \in Nat, t \in Seq(Nat) :
          /\ t = [k \in 1 .. a - RDU_LOG_ADDR_START |-> RDU_LOG_ADDR_START + k - 1]
          /\ Len(t) = n /\ n = a - BLOCK
          /\ \A k \in 1 .. n : t[k] = BLOCK + k - 1
    <2>1. \E n \in Nat : \E t \in Seq(Nat) :
             /\ t = [k \in 1 .. a - BLOCK |-> BLOCK + k - 1]
             /\ Len(t) = n /\ n = (IF BLOCK <= a THEN a - BLOCK ELSE 0)
             /\ \A k \in 1 .. n : t[k] = BLOCK + k - 1
      BY <1>1, Stretch
    <2>. QED  BY <1>1, <2>1
  <1>7. /\ t \in Seq(Nat) /\ Len(t) = n /\ n \in Nat /\ n = a - BLOCK
        /\ \A k \in 1 .. n : t[k] = BLOCK + k - 1
    BY <1>4
  <1>5. CASE wrapAddr = 0
    <2>1. order = t
      BY <1>1, <1>4, <1>5 DEF ReadingOrder
    <2>2. order \in Seq(Cells) /\ Len(order) = n /\ \A k \in 1 .. n : order[k] = BLOCK + k - 1
      <3>1. \A k \in 1 .. n : t[k] \in Cells
        <4>1. ASSUME NEW k \in 1 .. n PROVE t[k] \in Cells
          <5>1. t[k] \in Nat /\ BLOCK <= t[k] /\ t[k] < DEVICE
            BY <1>1, <1>7
          <5>. QED  BY <1>2, <5>1
        <4>. QED  BY <4>1
      <3>. QED  BY <1>7, <2>1, <3>1
    <2>3. \A i, j \in 1 .. n : i < j => Earlier(wrapAddr, order[i], order[j])
      BY <1>1, <1>5, <2>2 DEF Earlier, Behind
    <2>4. ASSUME NEW k \in 1 .. n
          PROVE  \/ \E b \in LogBlocks : order[k] = b * BLOCK
                 \/ k > 1 /\ order[k - 1] = order[k] - 1
      <3>1. CASE k = 1
        BY <1>1, <1>3, <2>2, <3>1
      <3>2. CASE k # 1
        BY <1>1, <2>2, <3>2
      <3>. QED  BY <3>1, <3>2
    <2>5. \A k \in 1 .. n : order[k] < a
      BY <1>1, <1>7, <2>2
    <2>6. ASSUME NEW c \in Cells, c < a PROVE \E k \in 1 .. n : order[k] = c
      <3>1. PICK k \in 1 .. n : c = BLOCK + k - 1
        <4>1. c \in Nat /\ BLOCK <= c
          BY CellFacts
        <4>2. c - BLOCK + 1 \in 1 .. n /\ c = BLOCK + (c - BLOCK + 1) - 1
          BY <1>1, <1>7, <2>6, <4>1
        <4>. QED  BY <4>2
      <3>. QED  BY <2>2, <3>1
    <2>7. \A c \in Cells : ~Behind(wrapAddr, c)
      BY <1>5 DEF Behind
    <2>. QED  BY <2>2, <2>3, <2>4, <2>5, <2>6, <2>7 DEF FollowsLog
  <1>6. CASE wrapAddr # 0
    <2>1. PICK m \in Nat, s \in Seq(Nat) :
            /\ s = [k \in 1 .. RDU_LOG_ADDR_END - wrapAddr |-> wrapAddr + k - 1]
            /\ Len(s) = m
            /\ m = (IF wrapAddr <= RDU_LOG_ADDR_END THEN RDU_LOG_ADDR_END - wrapAddr ELSE 0)
            /\ \A k \in 1 .. m : s[k] = wrapAddr + k - 1
      <3>1. \E m \in Nat : \E s \in Seq(Nat) :
               /\ s = [k \in 1 .. RDU_LOG_ADDR_END - wrapAddr |-> wrapAddr + k - 1]
               /\ Len(s) = m
               /\ m = (IF wrapAddr <= RDU_LOG_ADDR_END
                       THEN RDU_LOG_ADDR_END - wrapAddr ELSE 0)
               /\ \A k \in 1 .. m : s[k] = wrapAddr + k - 1
        <4>1. PICK x \in Nat, y \in Nat : x = wrapAddr /\ y = RDU_LOG_ADDR_END
          BY <1>1
        <4>2. \E m \in Nat : \E s \in Seq(Nat) :
                 /\ s = [k \in 1 .. y - x |-> x + k - 1]
                 /\ Len(s) = m /\ m = (IF x <= y THEN y - x ELSE 0)
                 /\ \A k \in 1 .. m : s[k] = x + k - 1
          BY Stretch
        <4>. QED  BY <4>1, <4>2
      <3>. QED  BY <3>1
    <2>2. order = s \o t
      <3>1. ~(wrapAddr < a)
        BY <1>1, <1>6
      <3>. QED  BY <1>1, <1>4, <1>6, <2>1, <3>1 DEF ReadingOrder
    <2>14. /\ s \in Seq(Nat) /\ m \in Nat /\ Len(s) = m
           /\ wrapAddr <= RDU_LOG_ADDR_END => m = RDU_LOG_ADDR_END - wrapAddr
           /\ ~(wrapAddr <= RDU_LOG_ADDR_END) => m = 0
           /\ \A k \in 1 .. m : s[k] = wrapAddr + k - 1
      BY <2>1
    <2>3. PICK b \in LogBlocks : wrapAddr = (b + 1) * BLOCK
      <3>1. OnGrid(Position) /\ ErasedToWrap(Position)
        BY <1>6, IInvParts, Zenon DEF PlaceIsGood
      <3>. QED  BY <3>1 DEF ErasedToWrap
    <2>4. BLOCK <= wrapAddr /\ (m # 0 => b + 1 \in LogBlocks)
      <3>1. /\ b * BLOCK \in Nat /\ (b + 1) * BLOCK = b * BLOCK + BLOCK
            /\ b = LAST_BLOCK \/ b + 1 \in LogBlocks
            /\ (LAST_BLOCK + 1) * BLOCK = DEVICE
        BY BlockSums
      <3>2. b # LAST_BLOCK => b + 1 \in LogBlocks
        BY <3>1
      <3>3. b = LAST_BLOCK => wrapAddr = DEVICE
        BY <2>3, <3>1
      <3>4. b = LAST_BLOCK => m = 0
        BY <1>1, <2>14, <3>3
      <3>. QED  BY <1>1, <2>3, <3>1, <3>2, <3>4
    <2>5. /\ Len(order) = m + n /\ order \in Seq(Nat)
          /\ \A k \in 1 .. m : order[k] = s[k]
          /\ \A k \in m + 1 .. m + n : order[k] = t[k - m]
      <3>1. AreJoined(order, s, t)
        BY <2>2, Joined
      <3>2. Len(s) = m /\ Len(t) = n
        BY <1>7, <2>14
      <3>. QED  BY <3>1, <3>2, Zenon DEF AreJoined
    <2>6. /\ \A k \in 1 .. m : order[k] = wrapAddr + k - 1
          /\ \A k \in m + 1 .. m + n : order[k] = BLOCK + (k - m) - 1
      <3>2. ASSUME NEW k \in m + 1 .. m + n PROVE order[k] = BLOCK + (k - m) - 1
        <4>1. k - m \in 1 .. n
          BY <1>7, <2>14
        <4>2. t[k - m] = BLOCK + (k - m) - 1
          BY <1>7, <4>1
        <4>. QED  BY <2>5, <4>2
      <3>. QED  BY <2>5, <2>14, <3>2
    <2>7. ASSUME NEW k \in 1 .. m + n
          PROVE  \/ /\ k <= m /\ order[k] = wrapAddr + k - 1
                    /\ wrapAddr <= order[k] /\ order[k] < RDU_LOG_ADDR_END
                 \/ /\ k > m /\ order[k] = BLOCK + (k - m) - 1
                    /\ order[k] < a /\ BLOCK <= order[k] /\ order[k] < wrapAddr
      <3>1. CASE k <= m
        <4>1. k \in 1 .. m
          BY <3>1
        <4>. QED  BY <1>1, <2>14, <2>6, <4>1
      <3>2. CASE ~(k <= m)
        <4>1. k \in m + 1 .. m + n
          BY <3>2
        <4>. QED  BY <1>1, <1>7, <1>6, <2>6, <4>1
      <3>. QED  BY <3>1, <3>2
    <2>8. order \in Seq(Cells)
      <3>1. \A k \in 1 .. m + n : order[k] \in Cells
        <4>1. ASSUME NEW k \in 1 .. m + n PROVE order[k] \in Cells
          <5>1. order[k] \in Nat
            BY <2>5
          <5>. QED  BY <1>1, <1>2, <2>4, <2>7, <5>1
        <4>. QED  BY <4>1
      <3>. QED  BY <2>5, <3>1
    <2>9. ASSUME NEW i \in 1 .. m + n, NEW j \in 1 .. m + n, i < j
          PROVE  Earlier(wrapAddr, order[i], order[j])
      BY <1>1, <1>6, <2>7, <2>9 DEF Earlier, Behind
    <2>10. ASSUME NEW k \in 1 .. m + n
           PROVE  \/ \E g \in LogBlocks : order[k] = g * BLOCK
                  \/ k > 1 /\ order[k - 1] = order[k] - 1
      <3>1. CASE k = 1 /\ m # 0
        <4>1. order[k] = wrapAddr
          BY <1>1, <2>6, <3>1
        <4>. QED  BY <2>3, <2>4, <3>1, <4>1
      <3>2. CASE k = m + 1
        <4>1. order[k] = BLOCK
          BY <1>1, <2>6, <3>2
        <4>. QED  BY <1>3, <4>1
      <3>3. CASE k > 1 /\ k <= m
        <4>1. k - 1 \in 1 .. m /\ k \in 1 .. m
          BY <3>3
        <4>. QED  BY <1>1, <2>6, <3>3, <4>1
      <3>4. CASE k > m + 1
        <4>1. k - 1 \in m + 1 .. m + n /\ k \in m + 1 .. m + n /\ k > 1
          BY <3>4
        <4>2. order[k - 1] = BLOCK + (k - 1 - m) - 1 /\ order[k] = BLOCK + (k - m) - 1
          BY <2>6, <4>1
        <4>. QED  BY <1>1, <4>1, <4>2
      <3>. QED  BY <3>1, <3>2, <3>3, <3>4
    <2>11. ASSUME NEW c \in Cells, c < a PROVE \E k \in 1 .. m + n : order[k] = c
      <3>1. PICK k \in m + 1 .. m + n : c = BLOCK + (k - m) - 1
        <4>1. c \in Nat /\ BLOCK <= c
          BY CellFacts
        <4>2. /\ c - BLOCK + 1 + m \in m + 1 .. m + n
              /\ c = BLOCK + ((c - BLOCK + 1 + m) - m) - 1
          BY <1>1, <1>7, <2>11, <4>1
        <4>. QED  BY <4>2
      <3>2. k \in 1 .. m + n
        OBVIOUS
      <3>. QED  BY <2>6, <3>1, <3>2
    <2>12. ASSUME NEW c \in Cells, Behind(wrapAddr, c), c < RDU_LOG_ADDR_END
           PROVE  \E k \in 1 .. m + n : order[k] = c
      <3>1. PICK k \in 1 .. m : c = wrapAddr + k - 1
        <4>1. c \in Nat /\ wrapAddr <= c
          BY <1>1, <2>12, CellFacts DEF Behind
        <4>2. c - wrapAddr + 1 \in 1 .. m /\ c = wrapAddr + (c - wrapAddr + 1) - 1
          BY <1>1, <2>12, <2>14, <4>1
        <4>. QED  BY <4>2
      <3>2. k \in 1 .. m + n
        OBVIOUS
      <3>. QED  BY <2>6, <3>1, <3>2
    <2>13. \A k \in 1 .. m + n : order[k] < a \/ Behind(wrapAddr, order[k])
      BY <1>1, <1>6, <2>7 DEF Behind
    <2>. QED  BY <2>5, <2>8, <2>9, <2>10, <2>11, <2>12, <2>13 DEF FollowsLog
  <1>. QED  BY <1>5, <1>6

-----------------------------------------------------------------------------
(* What a reader finds is what the flash shows, but for a packet that is    *)
(* still to be confirmed.                                                  *)

AllShown == {flash[c] : c \in {d \in Cells : Shows(flash, bad, d)}}

LogSet == IF machState = "CONFIRM" THEN AllShown \ {TempDataBuf} ELSE AllShown

\* The packet LOG_CONFIRM_STATE reads back is the newest, and it is at the
\* address.
WrittenLast ==
    machState = "CONFIRM" =>
        /\ TempDataBuf \in Packets
        /\ IsAt(flash, bad, TempDataBuf, address, recorder)
        /\ \A c \in Cells : Shows(flash, bad, c) => flash[c] <= TempDataBuf

ReaderIInv ==
    LogIInv /\ OrderIInv /\ PlaceIsTaken /\ NoneAtEnd /\ WrittenLast

\* After an erase, and at the start, there is nothing and a block to start in.
LEMMA IdleIsEmpty ==
  ASSUME LogIInv, machState = "IDLE"
  PROVE  /\ wrapAddr = 0 /\ address = BLOCK
         /\ \A c \in Cells : ~Shows(flash, bad, c)
         /\ \A b \in LogBlocks \ bad : b \in OpenBlocks /\ IsErased(b * BLOCK)
         /\ OpenBlocks # {}
  <1>1. /\ wrapAddr = 0 /\ address = BLOCK /\ LAST_BLOCK \notin bad
        /\ ErasedFrom(BLOCK)
    <2>1. wrapAddr = 0 /\ address = BLOCK /\ LAST_BLOCK \notin bad
      BY IInvParts DEF FlagsAgree
    <2>2. Position = BLOCK
      BY <2>1 DEF Position
    <2>. QED  BY <2>1, <2>2, IInvParts DEF PlaceIsGood
  <1>2. ASSUME NEW c \in Cells, BlockOf(c) \notin bad PROVE flash[c] = ERASED
    <2>1. c \in Nat /\ BLOCK <= c /\ BLOCK \in Nat
      BY CellFacts, WrapNumbers
    <2>. QED  BY <1>1, <1>2, <2>1 DEF ErasedFrom
  <1>3. ASSUME NEW b \in LogBlocks \ bad PROVE b \in OpenBlocks /\ IsErased(b * BLOCK)
    <2>1. /\ b \in Nat /\ b * BLOCK \in Nat /\ (b + 1) * BLOCK = b * BLOCK + BLOCK
          /\ BLOCK \in Nat /\ ERASED_BYTES \in Nat /\ ERASED_BYTES <= BLOCK
      <3>1. PAGE < BLOCK /\ PAGE \in Nat /\ BLOCK \in Nat /\ SHORT_PACKET \in 1 .. PAGE
            /\ ERASED_BYTES \in 1 .. SHORT_PACKET
        BY LogMachineAssumption
      <3>. QED  BY <3>1, BlockSums
    <2>2. ASSUME NEW c \in b * BLOCK .. b * BLOCK + ERASED_BYTES - 1, c \in Cells
          PROVE  flash[c] = ERASED
      <3>1. c \in Nat /\ b * BLOCK <= c /\ c < (b + 1) * BLOCK
        BY <2>1
      <3>2. BlockOf(c) = b
        BY <2>1, <3>1, CellOfBlock
      <3>. QED  BY <1>2, <2>2, <3>2
    <2>3. IsErased(b * BLOCK)
      BY <2>2 DEF IsErased
    <2>. QED  BY <2>3 DEF OpenBlocks
  <1>4. LAST_BLOCK \in LogBlocks
    BY LogMachineAssumption DEF LogBlocks
  <1>5. \A c \in Cells : ~Shows(flash, bad, c)
    BY <1>2, PacketNumbers DEF Shows
  <1>. QED  BY <1>1, <1>3, <1>4, <1>5

\* Where the reader stops.
LEMMA InfoIs ==
  ASSUME ReaderIInv
  PROVE  /\ LogInfo.address \in BLOCK .. DEVICE /\ LogInfo.wrapAddr = wrapAddr
         /\ wrapAddr # 0 => LogInfo.address <= wrapAddr
         /\ machState # "IDLE" => LogInfo.address = address
  <1>1. CASE machState = "IDLE"
    <2>1. LogIInv /\ wrapAddr = 0 /\ OpenBlocks # {}
      BY <1>1, IdleIsEmpty DEF ReaderIInv
    <2>2. PICK b \in LogBlocks : LogInfo = [address |-> b * BLOCK, wrapAddr |-> wrapAddr,
                                            at |-> b * BLOCK]
      BY <1>1, <2>1, IdleFinds DEF LogInfo
    <2>3. b * BLOCK \in BLOCK .. DEVICE
      <3>1. /\ b * BLOCK \in Nat /\ BLOCK <= b * BLOCK /\ BLOCK \in Nat
            /\ (b + 1) * BLOCK = b * BLOCK + BLOCK /\ (b + 1) * BLOCK <= DEVICE
            /\ DEVICE \in Nat
        BY <2>1, WrapNumbers, BlockSums
      <3>. QED  BY <3>1
    <2>. QED  BY <1>1, <2>1, <2>2, <2>3
  <1>2. CASE machState # "IDLE"
    <2>1. LogInfo = [address |-> address, wrapAddr |-> wrapAddr]
      BY <1>2 DEF LogInfo
    <2>2. address \in BLOCK .. DEVICE
      BY IInvParts DEF ReaderIInv, LogTypes
    <2>3. ASSUME wrapAddr # 0 PROVE address <= wrapAddr
      <3>1. ErasedToWrap(Position)
        BY <2>3, IInvParts DEF ReaderIInv, PlaceIsGood
      <3>2. Position <= wrapAddr
        BY <3>1 DEF ErasedToWrap
      <3>3. address <= Position /\ address \in Nat /\ Position \in Int /\ wrapAddr \in Nat
        BY PlaceGrows, WrapNumbers DEF ReaderIInv
      <3>. QED  BY <3>2, <3>3
    <2>. QED  BY <2>1, <2>2, <2>3
  <1>. QED  BY <1>1, <1>2

\* Of what the flash shows, the reader leaves out the packet at the address.
LEMMA AheadIsWritten ==
  ASSUME ReaderIInv, machState # "IDLE",
         NEW c \in Cells, Shows(flash, bad, c), address <= c, ~Behind(wrapAddr, c)
  PROVE  machState = "CONFIRM" /\ flash[c] = TempDataBuf
  <1>1. /\ LogIInv /\ PlaceIsGood /\ InOrder(flash, bad, wrapAddr)
        /\ wrapAddr \in Nat /\ address \in Nat /\ c \in Nat
        /\ flash[c] # ERASED /\ BlockOf(c) \notin bad
    <2>1. LogIInv /\ PlaceIsGood /\ InOrder(flash, bad, wrapAddr)
      BY IInvParts DEF ReaderIInv, OrderIInv, FlashIsSound
    <2>2. flash[c] # ERASED /\ BlockOf(c) \notin bad
      BY PacketNumbers DEF Shows
    <2>. QED  BY <2>1, <2>2, WrapNumbers, CellFacts
  <1>2. wrapAddr = 0 \/ c < wrapAddr
    BY <1>1 DEF Behind
  <1>3. machState = "CONFIRM"
    <2>1. SUFFICES ASSUME machState # "CONFIRM" PROVE flash[c] = ERASED
      BY <1>1
    <2>2. Position = address
      BY <2>1 DEF Position
    <2>3. CASE wrapAddr = 0
      <3>1. ErasedFrom(address)
        BY <1>1, <2>2, <2>3, Zenon DEF PlaceIsGood
      <3>. QED  BY <1>1, <3>1 DEF ErasedFrom
    <2>4. CASE wrapAddr # 0
      <3>1. ErasedToWrap(address)
        BY <1>1, <2>2, <2>4, Zenon DEF PlaceIsGood
      <3>. QED  BY <1>1, <1>2, <2>4, <3>1 DEF ErasedToWrap
    <2>. QED  BY <2>3, <2>4
  <1>4. /\ IsAt(flash, bad, TempDataBuf, address, recorder)
        /\ flash[c] <= TempDataBuf /\ TempDataBuf \in Packets
    BY <1>3, Zenon DEF ReaderIInv, WrittenLast
  <1>5. recorder \in 1 .. PAGE
    BY IInvParts, LogMachineAssumption DEF ReaderIInv, FlashTypes
  <1>6. PICK b \in LogBlocks : InBlock(address, b, recorder)
    BY <1>3 DEF ReaderIInv, PlaceIsTaken
  <1>7. address \in address .. address + recorder - 1
    BY <1>1, <1>5
  <1>8. /\ address \in Cells /\ Shows(flash, bad, address)
        /\ flash[address] = TempDataBuf
    <2>1. address \in Cells
      BY <1>5, <1>6, <1>7, PlaceCells
    <2>. QED  BY <1>4, <1>7, <2>1, Zenon DEF IsAt
  <1>9. CASE c = address
    BY <1>3, <1>8, <1>9
  <1>10. CASE c # address
    <2>1. ~Behind(wrapAddr, address) /\ address < c
      BY <1>1, <1>10 DEF Behind
    <2>2. flash[address] <= flash[c]
      BY <1>1, <1>8, <2>1, Zenon DEF InOrder, Earlier
    <2>3. flash[c] \in Nat /\ TempDataBuf \in Nat
      BY <1>4, PacketNumbers DEF Shows
    <2>. QED  BY <1>3, <1>4, <1>8, <2>2, <2>3
  <1>. QED  BY <1>9, <1>10

\* And it does leave it out.
LEMMA WrittenIsAhead ==
  ASSUME ReaderIInv, machState = "CONFIRM",
         NEW c \in Cells, Shows(flash, bad, c), flash[c] = TempDataBuf
  PROVE  address <= c /\ ~Behind(wrapAddr, c)
  <1>1. IsAt(flash, bad, TempDataBuf, address, recorder)
    BY Zenon DEF ReaderIInv, WrittenLast
  <1>2. PICK b \in LogBlocks : /\ InBlock(address, b, recorder)
                               /\ wrapAddr # 0 => wrapAddr = (b + 1) * BLOCK
    BY DEF ReaderIInv, PlaceIsTaken
  <1>3. recorder \in 1 .. PAGE
    BY IInvParts, LogMachineAssumption DEF ReaderIInv, FlashTypes
  <1>4. c \in address .. address + recorder - 1
    BY <1>1, Zenon DEF IsAt
  <1>5. c \in Nat /\ wrapAddr \in Nat /\ address \in Nat /\ b \in Nat
    BY WrapNumbers, CellFacts, BlockSums DEF ReaderIInv
  <1>6. BlockOf(c) = b
    BY <1>2, <1>3, <1>4, PlaceCells
  <1>7. c < (b + 1) * BLOCK
    BY <1>5, <1>6, BlockOfCell
  <1>. QED  BY <1>2, <1>4, <1>5, <1>7 DEF Behind

LEMMA ReaderFinds ==
  ASSUME ReaderIInv
  PROVE  \A info : \A order : info = LogInfo /\ order = ReadingOrder(info)
                                => IsRead(PacketsRead(order), LogSet)
  <1>1. SUFFICES ASSUME NEW info, NEW order, info = LogInfo, order = ReadingOrder(info)
                 PROVE  IsRead(PacketsRead(order), LogSet)
    OBVIOUS
  <1>2. LogIInv /\ OrderIInv /\ NoneAtEnd
    BY DEF ReaderIInv
  <1>3. PICK a \in BLOCK .. DEVICE :
          /\ info.address = a /\ info.wrapAddr = wrapAddr
          /\ wrapAddr # 0 => a <= wrapAddr
          /\ machState # "IDLE" => a = address
    BY <1>1, InfoIs
  <1>4. /\ FollowsLog(order, wrapAddr)
        /\ \A k \in 1 .. Len(order) : order[k] < a \/ Behind(wrapAddr, order[k])
        /\ \A c \in Cells :
              c < a \/ (Behind(wrapAddr, c) /\ c < RDU_LOG_ADDR_END)
                => \E k \in 1 .. Len(order) : order[k] = c
    BY <1>1, <1>2, <1>3, ReadsAll
  <1>5. IsRead(PacketsRead(order), ShownIn(order, Len(order)))
    BY <1>2, <1>4, ScanIs
  <1>6. \A k \in 1 .. Len(order) : order[k] \in Cells
    BY <1>4 DEF FollowsLog
  <1>7. BLOCK \in Nat /\ a \in Nat
    <2>1. BLOCK \in Nat /\ DEVICE \in Nat
      BY <1>2, WrapNumbers, BlockSums
    <2>. QED  BY <2>1
  <1>8. ASSUME NEW x \in ShownIn(order, Len(order)) PROVE x \in LogSet
    <2>1. PICK k \in 1 .. Len(order) : Shows(flash, bad, order[k]) /\ x = flash[order[k]]
      BY <1>8, Zenon DEF ShownIn
    <2>2. PICK c \in Cells : /\ c = order[k] /\ Shows(flash, bad, c) /\ x = flash[c]
                             /\ c < a \/ Behind(wrapAddr, c)
      BY <1>4, <1>6, <2>1
    <2>3. x \in AllShown
      BY <2>2, Zenon DEF AllShown
    <2>4. ASSUME machState = "CONFIRM", x = TempDataBuf PROVE FALSE
      <3>1. address <= c /\ ~Behind(wrapAddr, c)
        BY <2>2, <2>4, WrittenIsAhead
      <3>2. a = address /\ c \in Nat
        BY <1>3, <2>4, CellFacts
      <3>. QED  BY <1>7, <2>2, <3>1, <3>2
    <2>. QED  BY <2>3, <2>4 DEF LogSet
  <1>9. ASSUME NEW x \in LogSet PROVE x \in ShownIn(order, Len(order))
    <2>1. x \in AllShown /\ (machState = "CONFIRM" => x # TempDataBuf)
      BY <1>9 DEF LogSet
    <2>2. PICK c \in Cells : Shows(flash, bad, c) /\ x = flash[c]
      BY <2>1, Zenon DEF AllShown
    <2>3. machState # "IDLE"
      BY <1>2, <2>2, IdleIsEmpty
    <2>4. c < a \/ Behind(wrapAddr, c)
      <3>1. SUFFICES ASSUME ~(c < a), ~Behind(wrapAddr, c) PROVE FALSE
        OBVIOUS
      <3>2. address <= c
        BY <1>3, <1>7, <2>3, <3>1, CellFacts
      <3>. QED  BY <2>1, <2>2, <2>3, <3>1, <3>2, AheadIsWritten
    <2>5. c < RDU_LOG_ADDR_END
      BY <1>2, <2>2 DEF NoneAtEnd
    <2>6. PICK k \in 1 .. Len(order) : order[k] = c
      BY <1>4, <2>4, <2>5, Zenon
    <2>. QED  BY <2>2, <2>6, Zenon DEF ShownIn
  <1>10. ShownIn(order, Len(order)) = LogSet
    BY <1>8, <1>9
  <1>. QED  BY <1>5, <1>10

-----------------------------------------------------------------------------
(* The places of the device, counted.                                      *)

PerPage(size) == PAGE \div size

PerBlock(size) == (BLOCK \div PAGE) * PerPage(size)

\* How many places there are before a.
Rank(size, a) == (a \div PAGE) * PerPage(size) + (a % PAGE) \div size

LEMMA PageNumbers ==
  ASSUME NEW size \in 1 .. PAGE
  PROVE  /\ PAGE \in Nat \ {0} /\ size \in Nat \ {0} /\ PerPage(size) \in Nat \ {0}
         /\ PerPage(size) * size <= PAGE /\ PAGE < (PerPage(size) + 1) * size
  <1>1. PAGE \in Nat \ {0} /\ size \in Nat \ {0} /\ size <= PAGE
    BY LogMachineAssumption
  <1>2. PICK p \in Nat : p = PerPage(size)
    BY <1>1, Division DEF PerPage
  <1>3. PICK r \in 0 .. size - 1 : PAGE = p * size + r
    BY <1>1, <1>2, Division DEF PerPage
  <1>4. p * size \in Nat /\ (p + 1) * size = p * size + size
    BY <1>1
  <1>5. p # 0
    <2>1. 0 * size = 0
      BY <1>1
    <2>. QED  BY <1>1, <1>3, <2>1
  <1>6. PICK z \in Nat : z = p * size
    BY <1>4
  <1>. QED  BY <1>1, <1>2, <1>3, <1>4, <1>5, <1>6

LEMMA RankIs ==
  ASSUME NEW size \in 1 .. PAGE, NEW q \in Nat, NEW k \in Nat, (k + 1) * size <= PAGE
  PROVE  /\ Rank(size, q * PAGE + k * size) = q * PerPage(size) + k
         /\ k < PerPage(size)
  <1>1. /\ PAGE \in Nat \ {0} /\ size \in Nat \ {0} /\ PerPage(size) \in Nat \ {0}
        /\ PAGE < (PerPage(size) + 1) * size
    BY PageNumbers
  <1>2. PICK y \in Nat : y = k * size
    BY <1>1
  <1>3. (k + 1) * size = y + size
    BY <1>1, <1>2
  <1>4. y \in 0 .. PAGE - 1
    BY <1>1, <1>3
  <1>5. (q * PAGE + y) \div PAGE = q /\ (q * PAGE + y) % PAGE = y
    BY <1>1, <1>4, Quotient
  <1>6. y \div size = k
    <2>1. 0 \in 0 .. size - 1
      BY <1>1
    <2>2. (k * size + 0) \div size = k
      BY <1>1, <2>1, Quotient
    <2>. QED  BY <1>2, <2>2
  <1>7. k < PerPage(size)
    <2>1. PICK p \in Nat : p = PerPage(size) + 1
      BY <1>1
    <2>2. (k + 1) * size < p * size
      <3>1. p * size \in Nat /\ (k + 1) * size \in Nat
        BY <1>1
      <3>. QED  BY <1>1, <2>1, <3>1
    <2>3. k + 1 < p
      <3>1. k + 1 \in Nat
        OBVIOUS
      <3>. QED  BY <1>1, <2>2, <3>1, Cancel
    <2>. QED  BY <1>1, <2>1, <2>3
  <1>. QED  BY <1>2, <1>5, <1>6, <1>7 DEF Rank

LEMMA RankGrows ==
  ASSUME NEW size \in 1 .. PAGE, NEW a, NEW d, IsPlace(a, size), IsPlace(d, size)
  PROVE  /\ a \in Nat /\ d \in Nat /\ Rank(size, a) \in Nat /\ Rank(size, d) \in Nat
         /\ a < d => Rank(size, a) < Rank(size, d)
         /\ a <= d => Rank(size, a) <= Rank(size, d)
  <1>1. PICK q \in Nat, k \in Nat : (k + 1) * size <= PAGE /\ a = q * PAGE + k * size
    BY Zenon DEF IsPlace
  <1>2. PICK s \in Nat, j \in Nat : (j + 1) * size <= PAGE /\ d = s * PAGE + j * size
    BY Zenon DEF IsPlace
  <1>3. PICK p \in Nat \ {0} : p = PerPage(size)
    BY PageNumbers
  <1>4. /\ Rank(size, a) = q * p + k /\ k < p
        /\ Rank(size, d) = s * p + j /\ j < p
    BY <1>1, <1>2, <1>3, RankIs
  <1>5. PAGE \in Nat \ {0} /\ size \in Nat \ {0}
    BY PageNumbers
  <1>6. a \in Nat /\ d \in Nat /\ Rank(size, a) \in Nat /\ Rank(size, d) \in Nat
    <2>1. /\ q * PAGE \in Nat /\ k * size \in Nat /\ s * PAGE \in Nat /\ j * size \in Nat
          /\ q * p \in Nat /\ s * p \in Nat
      BY <1>5
    <2>. QED  BY <1>1, <1>2, <1>4, <2>1
  <1>7. ASSUME a < d PROVE Rank(size, a) < Rank(size, d)
    <2>1. CASE s < q
      <3>1. (s + 1) * PAGE <= q * PAGE /\ (s + 1) * PAGE = s * PAGE + PAGE
        <4>1. s + 1 \in Nat /\ s + 1 <= q
          BY <2>1
        <4>2. (s + 1) * PAGE <= q * PAGE
          BY <1>5, <4>1, Times
        <4>. QED  BY <1>5, <4>2
      <3>2. (j + 1) * size = j * size + size
        BY <1>5
      <3>3. PICK u \in Nat, v \in Nat, x \in Nat, y \in Nat :
              u = q * PAGE /\ v = s * PAGE /\ x = k * size /\ y = j * size
        BY <1>5
      <3>. QED  BY <1>1, <1>2, <1>5, <1>7, <3>1, <3>2, <3>3
    <2>2. CASE s = q
      <3>1. k * size < j * size
        <4>1. PICK u \in Nat, x \in Nat, y \in Nat :
                u = q * PAGE /\ x = k * size /\ y = j * size
          BY <1>5
        <4>. QED  BY <1>1, <1>2, <1>7, <2>2, <4>1
      <3>2. k < j
        BY <1>5, <3>1, Cancel
      <3>3. q * p \in Nat
        OBVIOUS
      <3>. QED  BY <1>4, <2>2, <3>2, <3>3
    <2>3. CASE q < s
      <3>1. (q + 1) * p <= s * p /\ (q + 1) * p = q * p + p
        <4>1. q + 1 \in Nat /\ q + 1 <= s
          BY <2>3
        <4>2. (q + 1) * p <= s * p
          BY <4>1, Times
        <4>. QED  BY <4>2
      <3>2. PICK u \in Nat, v \in Nat : u = q * p /\ v = s * p
        OBVIOUS
      <3>. QED  BY <1>4, <3>1, <3>2
    <2>. QED  BY <2>1, <2>2, <2>3
  <1>8. ASSUME a <= d PROVE Rank(size, a) <= Rank(size, d)
    <2>1. CASE a = d
      BY <1>6, <2>1
    <2>2. CASE a # d
      <3>1. a < d
        BY <1>6, <1>8, <2>2
      <3>. QED  BY <1>6, <1>7, <3>1
    <2>. QED  BY <2>1, <2>2
  <1>. QED  BY <1>6, <1>7, <1>8

\* The start of a page is a place.
LEMMA RankOfPage ==
  ASSUME NEW size \in 1 .. PAGE, NEW q \in Nat
  PROVE  IsPlace(q * PAGE, size) /\ Rank(size, q * PAGE) = q * PerPage(size)
  <1>1. PAGE \in Nat \ {0} /\ size \in Nat \ {0} /\ PerPage(size) \in Nat
    BY PageNumbers
  <1>2. (0 + 1) * size <= PAGE /\ q * PAGE + 0 * size = q * PAGE /\ 0 \in Nat
    BY <1>1
  <1>3. Rank(size, q * PAGE + 0 * size) = q * PerPage(size) + 0
    BY <1>2, RankIs
  <1>4. q * PerPage(size) + 0 = q * PerPage(size)
    BY <1>1
  <1>5. IsPlace(q * PAGE + 0 * size, size)
    BY <1>2, Zenon DEF IsPlace
  <1>. QED  BY <1>2, <1>3, <1>4, <1>5

LEMMA RankOfBlock ==
  ASSUME NEW size \in 1 .. PAGE, NEW b \in Nat
  PROVE  /\ IsPlace(b * BLOCK, size)
         /\ Rank(size, b * BLOCK) = b * PerBlock(size)
         /\ PerBlock(size) \in Nat /\ PerPage(size) <= PerBlock(size)
  <1>1. PICK n \in Nat \ {0} : BLOCK = n * PAGE
    BY Geometry
  <1>2. PICK p \in Nat \ {0} : p = PerPage(size)
    BY PageNumbers
  <1>3. PAGE \in Nat \ {0}
    BY PageNumbers
  <1>4. PerBlock(size) = n * p
    <2>1. (n * PAGE + 0) \div PAGE = n
      BY <1>3, Quotient
    <2>2. n * PAGE + 0 = BLOCK
      BY <1>1, <1>3
    <2>. QED  BY <1>2, <2>1, <2>2 DEF PerBlock
  <1>5. PICK q \in Nat : q = b * n
    OBVIOUS
  <1>6. q * PAGE = b * BLOCK
    <2>1. (b * n) * PAGE = b * (n * PAGE)
      BY <1>3
    <2>. QED  BY <1>1, <1>5, <2>1
  <1>7. IsPlace(q * PAGE, size) /\ Rank(size, q * PAGE) = q * p
    BY <1>2, RankOfPage
  <1>8. q * p = b * (n * p)
    <2>1. (b * n) * p = b * (n * p)
      OBVIOUS
    <2>. QED  BY <1>5, <2>1
  <1>9. n * p \in Nat /\ p <= n * p
    <2>1. 1 * p <= n * p /\ 1 * p = p
      <3>1. 1 \in Nat /\ 1 <= n
        OBVIOUS
      <3>2. 1 * p <= n * p
        BY <3>1, Times
      <3>. QED  BY <3>2
    <2>. QED  BY <2>1
  <1>. QED  BY <1>2, <1>4, <1>6, <1>7, <1>8, <1>9

\* The last page is as long as the others.
LEMMA RankOfEnd ==
  ASSUME NEW size \in 1 .. PAGE
  PROVE  /\ IsPlace(RDU_LOG_ADDR_END, size)
         /\ Rank(size, RDU_LOG_ADDR_END) + PerPage(size) = (LAST_BLOCK + 1) * PerBlock(size)
  <1>1. /\ PAGE \in Nat \ {0} /\ LAST_BLOCK \in Nat
        /\ RDU_LOG_ADDR_END \in Nat /\ RDU_LOG_ADDR_END = DEVICE - PAGE
        /\ DEVICE = (LAST_BLOCK + 1) * BLOCK /\ DEVICE \in Nat
    BY LogMachineAssumption, EndOfDevice, BlockSums DEF RDU_LOG_ADDR_END
  <1>2. PICK p \in Nat \ {0} : p = PerPage(size)
    BY PageNumbers
  <1>3. PICK e \in Nat : RDU_LOG_ADDR_END = e * PAGE
    BY EndOfDevice
  <1>4. (e + 1) * PAGE = DEVICE
    <2>1. (e + 1) * PAGE = e * PAGE + PAGE
      BY <1>1
    <2>. QED  BY <1>1, <1>3, <2>1
  <1>5. IsPlace(e * PAGE, size) /\ Rank(size, e * PAGE) = e * p
    BY <1>2, RankOfPage
  <1>6. Rank(size, (e + 1) * PAGE) = (e + 1) * p /\ (e + 1) * p = e * p + p
    <2>1. e + 1 \in Nat /\ (e + 1) * p = e * p + p
      OBVIOUS
    <2>. QED  BY <1>2, <2>1, RankOfPage
  <1>7. Rank(size, DEVICE) = (LAST_BLOCK + 1) * PerBlock(size)
    <2>1. LAST_BLOCK + 1 \in Nat
      BY <1>1
    <2>. QED  BY <1>1, <2>1, RankOfBlock
  <1>. QED  BY <1>2, <1>3, <1>4, <1>5, <1>6, <1>7

\* LogIncrementAddress goes on by one place.
LEMMA RankNext ==
  ASSUME packetSize \in {SHORT_PACKET, LONG_PACKET}, NEW b \in Nat, NEW a,
         InBlock(a, b, packetSize)
  PROVE  /\ IsPlace(LogIncrementAddress(a), packetSize)
         /\ Rank(packetSize, LogIncrementAddress(a)) = Rank(packetSize, a) + 1
  <1>1. packetSize \in 1 .. PAGE /\ packetSize \in Nat \ {0}
    BY LogMachineAssumption
  <1>2. PICK p \in Nat \ {0} :
           p = PerPage(packetSize) /\ p * packetSize <= PAGE /\ PAGE < (p + 1) * packetSize
    BY <1>1, PageNumbers
  <1>3. PICK q \in Nat, k \in Nat : (k + 1) * packetSize <= PAGE
                                   /\ a = q * PAGE + k * packetSize
    <2>1. IsPlace(a, packetSize)
      BY <1>1, PlaceOfPage
    <2>. QED  BY <2>1, Zenon DEF IsPlace
  <1>4. Rank(packetSize, a) = q * p + k /\ k < p
    BY <1>1, <1>2, <1>3, RankIs
  <1>5. LogIncrementAddress(a) =
          IF (k + 2) * packetSize <= PAGE THEN q * PAGE + (k + 1) * packetSize
                                          ELSE (q + 1) * PAGE
    BY <1>3, NextInPage
  <1>6. CASE (k + 2) * packetSize <= PAGE
    <2>1. k + 1 \in Nat /\ ((k + 1) + 1) * packetSize <= PAGE
      <3>1. (k + 1) + 1 = k + 2
        OBVIOUS
      <3>. QED  BY <1>6, <3>1
    <2>2. Rank(packetSize, q * PAGE + (k + 1) * packetSize) = q * p + (k + 1)
      BY <1>1, <1>2, <2>1, RankIs
    <2>3. IsPlace(q * PAGE + (k + 1) * packetSize, packetSize)
      BY <2>1, Zenon DEF IsPlace
    <2>4. q * p \in Nat
      OBVIOUS
    <2>. QED  BY <1>4, <1>5, <1>6, <2>2, <2>3, <2>4
  <1>7. CASE ~((k + 2) * packetSize <= PAGE)
    <2>1. q + 1 \in Nat
      OBVIOUS
    <2>2. IsPlace((q + 1) * PAGE, packetSize)
          /\ Rank(packetSize, (q + 1) * PAGE) = (q + 1) * p
      BY <1>1, <1>2, <2>1, RankOfPage
    <2>3. (q + 1) * p = q * p + p /\ q * p \in Nat
      OBVIOUS
    <2>4. p = k + 1
      <3>1. p * packetSize < (k + 2) * packetSize
        <4>1. PAGE \in Nat /\ p * packetSize \in Nat /\ (k + 2) * packetSize \in Nat
          BY <1>1, PageNumbers
        <4>. QED  BY <1>2, <1>7, <4>1
      <3>2. p < k + 2
        <4>1. k + 2 \in Nat
          OBVIOUS
        <4>. QED  BY <1>1, <3>1, <4>1, Cancel
      <3>. QED  BY <1>4, <3>2
    <2>. QED  BY <1>4, <1>5, <1>7, <2>2, <2>3, <2>4
  <1>. QED  BY <1>6, <1>7

-----------------------------------------------------------------------------
(* How many packets there are, and how many an erase can cost.             *)

\* Numbers that grow between two bounds are no more than the bounds are apart.
LEMMA GrowingNumbers ==
  ASSUME NEW n \in Nat, n # 0, NEW lo \in Nat, NEW hi \in Nat, NEW f,
         \A k \in 1 .. n : f[k] \in Nat /\ lo <= f[k] /\ f[k] < hi,
         \A j, k \in 1 .. n : j < k => f[j] < f[k]
  PROVE  lo + n <= hi
  <1>. DEFINE S == {k \in Nat : k < n => lo + k <= f[k + 1]}
  <1>1. 0 \in S
    <2>1. 1 \in 1 .. n
      OBVIOUS
    <2>. QED  BY <2>1
  <1>2. \A k \in S : k < n => k + 1 \in S
    <2>1. SUFFICES ASSUME NEW k \in S, k + 1 < n PROVE lo + (k + 1) <= f[(k + 1) + 1]
      OBVIOUS
    <2>2. k + 1 \in 1 .. n /\ (k + 1) + 1 \in 1 .. n /\ k + 1 < (k + 1) + 1 /\ k \in Nat
      BY <2>1
    <2>3. f[k + 1] < f[(k + 1) + 1] /\ f[k + 1] \in Nat /\ f[(k + 1) + 1] \in Nat
      BY <2>2, Zenon
    <2>4. lo + k <= f[k + 1]
      BY <2>1, <2>2
    <2>. QED  BY <2>2, <2>3, <2>4
  <1>. HIDE DEF S
  <1>3. \A k \in 0 .. n : k \in S
    BY <1>1, <1>2, CountUp, Zenon
  <1>4. n - 1 \in 0 .. n /\ n - 1 < n /\ (n - 1) + 1 = n /\ n \in 1 .. n
    OBVIOUS
  <1>5. n - 1 \in S
    BY <1>3, <1>4
  <1>6. lo + (n - 1) <= f[n]
    BY <1>4, <1>5 DEF S
  <1>7. f[n] \in Nat /\ f[n] < hi
    BY <1>4
  <1>. QED  BY <1>6, <1>7

\* Where packet p begins.
PlaceOfPacket(p) ==
    CHOOSE a \in Nat : \E b \in LogBlocks :
        InBlock(a, b, recorder) /\ IsAt(flash, bad, p, a, recorder)

LEMMA PacketHasPlace ==
  ASSUME ReaderIInv, NEW c \in Cells, Shows(flash, bad, c),
         NEW a, a = PlaceOfPacket(flash[c])
  PROVE  /\ a \in Cells /\ a \in Nat /\ Shows(flash, bad, a) /\ flash[a] = flash[c]
         /\ BlockOf(a) = BlockOf(c) /\ a <= c /\ IsPlace(a, recorder)
  <1>1. recorder \in 1 .. PAGE /\ recorder \in Nat
    BY IInvParts, LogMachineAssumption DEF ReaderIInv, FlashTypes
  <1>2. a \in Nat /\ \E b \in LogBlocks :
          InBlock(a, b, recorder) /\ IsAt(flash, bad, flash[c], a, recorder)
    BY Zenon DEF ReaderIInv, OrderIInv, FlashIsSound, Whole, PlaceOfPacket
  <1>3. PICK b \in LogBlocks :
          InBlock(a, b, recorder) /\ IsAt(flash, bad, flash[c], a, recorder)
    BY <1>2
  <1>4. c \in a .. a + recorder - 1 /\ a \in a .. a + recorder - 1 /\ a <= c
    <2>1. c \in a .. a + recorder - 1
      BY <1>3, Zenon DEF IsAt
    <2>. QED  BY <1>1, <1>2, <2>1
  <1>5. \A x \in a .. a + recorder - 1 : x \in Cells /\ BlockOf(x) = b
    BY <1>1, <1>3, PlaceCells, Zenon
  <1>6. a \in Cells /\ BlockOf(a) = b /\ BlockOf(c) = b
    BY <1>4, <1>5
  <1>7. Shows(flash, bad, a) /\ flash[a] = flash[c]
    BY <1>3, <1>4, <1>6, Zenon DEF IsAt
  <1>8. IsPlace(a, recorder)
    BY <1>1, <1>3, BlockSums, PlaceOfPage
  <1>. QED  BY <1>2, <1>4, <1>6, <1>7, <1>8

\* So packets in a stretch of the log are no more than it has places.
LEMMA PacketsFit ==
  ASSUME ReaderIInv, NEW n \in Nat, n # 0, NEW L,
         \A j, k \in 1 .. n : j < k => L[j] < L[k],
         NEW from \in Nat, NEW top, IsPlace(top, recorder),
         \A c, d \in {x \in Cells : from <= BlockOf(x) /\ x < top} :
            Behind(wrapAddr, c) <=> Behind(wrapAddr, d),
         \A k \in 1 .. n : \E c \in Cells :
            Shows(flash, bad, c) /\ flash[c] = L[k] /\ from <= BlockOf(c) /\ c < top
  PROVE  from * PerBlock(recorder) + n <= Rank(recorder, top)
  <1>1. recorder \in 1 .. PAGE
    BY IInvParts, LogMachineAssumption DEF ReaderIInv, FlashTypes
  <1>2. /\ IsPlace(from * BLOCK, recorder)
        /\ Rank(recorder, from * BLOCK) = from * PerBlock(recorder)
    BY <1>1, RankOfBlock
  <1>3. /\ Rank(recorder, from * BLOCK) \in Nat /\ Rank(recorder, top) \in Nat
        /\ top \in Nat
    BY <1>1, <1>2, RankGrows
  <1>4. ASSUME NEW k \in 1 .. n, NEW a, a = PlaceOfPacket(L[k])
        PROVE  /\ a \in Cells /\ a \in Nat /\ Shows(flash, bad, a) /\ flash[a] = L[k]
               /\ from <= BlockOf(a) /\ a < top /\ from * BLOCK <= a
               /\ IsPlace(a, recorder)
    <2>1. PICK c \in Cells :
             Shows(flash, bad, c) /\ flash[c] = L[k] /\ from <= BlockOf(c) /\ c < top
      BY <1>4
    <2>2. /\ a \in Cells /\ a \in Nat /\ Shows(flash, bad, a) /\ flash[a] = flash[c]
          /\ BlockOf(a) = BlockOf(c) /\ a <= c /\ IsPlace(a, recorder)
      BY <1>4, <2>1, PacketHasPlace
    <2>3. from * BLOCK <= a
      BY <2>1, <2>2, BlockOrder
    <2>4. a < top
      BY <1>3, <2>1, <2>2, CellFacts
    <2>. QED  BY <2>1, <2>2, <2>3, <2>4
  <1>. DEFINE f == [k \in 1 .. n |-> Rank(recorder, PlaceOfPacket(L[k]))]
  <1>5. ASSUME NEW k \in 1 .. n
        PROVE  f[k] \in Nat /\ Rank(recorder, from * BLOCK) <= f[k]
                            /\ f[k] < Rank(recorder, top)
    <2>1. PICK a : a = PlaceOfPacket(L[k])
      OBVIOUS
    <2>2. a < top /\ from * BLOCK <= a /\ IsPlace(a, recorder)
      BY <1>4, <2>1
    <2>3. /\ Rank(recorder, a) \in Nat /\ Rank(recorder, a) < Rank(recorder, top)
          /\ Rank(recorder, from * BLOCK) <= Rank(recorder, a)
      BY <1>1, <1>2, <2>2, RankGrows
    <2>. QED  BY <2>1, <2>3
  <1>6. ASSUME NEW j \in 1 .. n, NEW k \in 1 .. n, j < k PROVE f[j] < f[k]
    <2>1. PICK a : a = PlaceOfPacket(L[j])
      OBVIOUS
    <2>2. PICK d : d = PlaceOfPacket(L[k])
      OBVIOUS
    <2>3. /\ a \in Cells /\ a \in Nat /\ Shows(flash, bad, a) /\ flash[a] = L[j]
          /\ from <= BlockOf(a) /\ a < top /\ IsPlace(a, recorder)
      BY <1>4, <2>1
    <2>4. /\ d \in Cells /\ d \in Nat /\ Shows(flash, bad, d) /\ flash[d] = L[k]
          /\ from <= BlockOf(d) /\ d < top /\ IsPlace(d, recorder)
      BY <1>4, <2>2
    <2>5. L[j] < L[k]
      BY <1>6
    <2>6. L[j] \in Nat /\ L[k] \in Nat
      BY <2>3, <2>4, PacketNumbers DEF Shows
    <2>7. Behind(wrapAddr, a) <=> Behind(wrapAddr, d)
      BY <2>3, <2>4
    <2>8. ASSUME d < a PROVE FALSE
      <3>1. Earlier(wrapAddr, d, a)
        BY <2>7, <2>8, Zenon DEF Earlier
      <3>2. flash[d] <= flash[a]
        BY <2>3, <2>4, <3>1, Zenon DEF ReaderIInv, OrderIInv, FlashIsSound, InOrder
      <3>. QED  BY <2>3, <2>4, <2>5, <2>6, <3>2
    <2>9. a # d
      BY <2>3, <2>4, <2>5, <2>6
    <2>10. a < d
      BY <2>3, <2>4, <2>8, <2>9
    <2>11. Rank(recorder, a) < Rank(recorder, d)
      BY <1>1, <2>3, <2>4, <2>10, RankGrows
    <2>. QED  BY <2>1, <2>2, <2>11
  <1>. HIDE DEF f
  <1>7. Rank(recorder, from * BLOCK) + n <= Rank(recorder, top)
    BY <1>3, <1>5, <1>6, GrowingNumbers, Zenon
  <1>. QED  BY <1>2, <1>7

-----------------------------------------------------------------------------
(* The invariant of the log a reader finds.                                *)

\* One block turns bad, at most.
BadOnce ==
    /\ MAX_BAD <= 1
    /\ bad = {} \/ \E g \in LogBlocks : bad = {g}

\* What has been cleared is older than all there is.
Above ==
    /\ cleared \in 0 .. sent
    /\ \A k \in 1 .. Len(queue) : queue[k] \in Packets => queue[k] > cleared
    /\ \A c \in Cells : Shows(flash, bad, c) => flash[c] > cleared

\* The places a bad block costs.
Lost(blocks) == IF blocks = {} THEN 0 ELSE PerBlock(recorder)

\* The log has a packet in all the places up to the address, and from the wrap
\* address on, but for those in bad blocks and in the last page of the device.
Enough(m, w, at, table) ==
    IF w = 0
    THEN Rank(recorder, at)
           <= m + PerBlock(recorder) + Lost({g \in table : (g + 1) * BLOCK <= at})
    ELSE \A b \in LogBlocks : w = (b + 1) * BLOCK =>
           LAST_BLOCK * PerBlock(recorder) + Rank(recorder, at)
             <= m + PerBlock(recorder) + (IF b = LAST_BLOCK THEN 0 ELSE PerPage(recorder))
                  + Lost(table) + b * PerBlock(recorder)

LongEnough == machState # "IDLE" => Enough(Len(log), wrapAddr, address, bad)

PackIInv == ReaderIInv /\ BadOnce /\ Above /\ IsRead(log, LogSet) /\ LongEnough

\* So the block an erase finds bad is the first one.
LEMMA FirstBad ==
  ASSUME BadOnce, NEW failing \in FailingErases, failing # {}
  PROVE  bad = {} /\ \E f \in LogBlocks : failing = {f}
  <1>1. PICK all : all = bad \cup failing
    OBVIOUS
  <1>2. failing \subseteq LogBlocks \ bad /\ Cardinality(all) <= MAX_BAD
    BY <1>1, Zenon DEF FailingErases
  <1>3. MAX_BAD \in Nat /\ MAX_BAD <= 1 /\ bad \subseteq LogBlocks /\ LAST_BLOCK \in Nat
    BY LogMachineAssumption DEF BadOnce
  <1>4. IsFiniteSet(all)
    <2>1. IsFiniteSet(LogBlocks)
      BY <1>3, FS_Interval DEF LogBlocks
    <2>2. all \in SUBSET LogBlocks
      BY <1>1, <1>2, <1>3
    <2>. QED  BY <2>1, <2>2, FS_Subset
  <1>5. PICK f \in LogBlocks : f \in failing
    BY <1>2
  <1>6. all = {f}
    <2>1. {f} \in SUBSET all /\ Cardinality({f}) = 1
      BY <1>1, <1>5, FS_Singleton
    <2>2. Cardinality({f}) <= Cardinality(all) /\ Cardinality(all) \in Nat
          /\ (Cardinality(all) = Cardinality({f}) => all = {f})
      BY <1>4, <2>1, FS_Subset, FS_CardinalityType
    <2>. QED  BY <1>2, <1>3, <2>1, <2>2
  <1>. QED  BY <1>1, <1>2, <1>5, <1>6

LEMMA RunBad ==
  ASSUME BadOnce, Run
  PROVE  BadOnce'
  <1>1. PICK failing \in FailingErases : bad' = bad \cup failing
    BY Zenon DEF Run
  <1>2. CASE failing = {}
    <2>1. bad' = bad
      BY <1>1, <1>2
    <2>. QED  BY <2>1, Zenon DEF BadOnce, LogBlocks
  <1>3. CASE failing # {}
    <2>1. bad = {} /\ \E f \in LogBlocks : failing = {f}
      BY <1>3, FirstBad, Zenon
    <2>2. \E f \in LogBlocks : bad' = {f}
      BY <1>1, <2>1
    <2>. QED  BY <2>2, Zenon DEF BadOnce, LogBlocks
  <1>. QED  BY <1>2, <1>3

\* LOG_RUN_STATE: what is shown afterwards was shown before, but for the packet
\* at the address.
LEMMA RunShows ==
  ASSUME LogIInv, OrderIInv, Run, UNCHANGED <<recorder, sent>>, faults' \subseteq Harmless
  PROVE  /\ PlaceIsTaken' /\ WrittenLast' /\ machState' \in {"RUN", "CONFIRM"}
         /\ queue' = queue \/ (queue # <<>> /\ queue' = Tail(queue))
         /\ machState' = "CONFIRM" => queue # <<>> /\ TempDataBuf' = Head(queue)
         /\ \E failing \in FailingErases :
              LET m     == LogManageAddresses(failing)
                  table == bad \cup failing
                  cells == Wiped(flash, m.erases)
              IN  /\ failing \subseteq m.tried
                  /\ bad' = table /\ wrapAddr' = m.wrapAddr
                  /\ address' = HandleBadBlock(m.address, table)
                  /\ LogSet' = {cells[c] : c \in {d \in Cells : Shows(cells, table, d)}}
  <1>1. FlashTypes /\ LogTypes /\ FlagsAgree
    BY IInvParts
  <1>2. /\ machState = "RUN" /\ packetSize = recorder
        /\ faults \subseteq faults'
    BY <1>1, RunParts, RunOutcome, Zenon DEF FlagsAgree
  <1>3. PICK failing \in FailingErases, b \in LogBlocks :
          LET m     == LogManageAddresses(failing)
              table == bad \cup failing
              cells == Wiped(flash, m.erases)
              a     == HandleBadBlock(m.address, table)
          IN  /\ failing \subseteq m.tried
              /\ LAST_BLOCK \notin table /\ table \subseteq LogBlocks /\ b \notin table
              /\ InBlock(a, b, packetSize) /\ CanWrite(cells, a)
              /\ \/ m.wrapAddr = 0
                 \/ m.wrapAddr = (b + 1) * BLOCK
              /\ bad' = table /\ wrapAddr' = m.wrapAddr
              /\ Stored(cells, a)
    BY RunOutcome, Zenon
  <1>4. PICK m : m = LogManageAddresses(failing)
    OBVIOUS
  <1>5. PICK cells : cells = Wiped(flash, m.erases)
    OBVIOUS
  <1>6. PICK table : table = bad \cup failing
    OBVIOUS
  <1>7. PICK a : a = HandleBadBlock(m.address, table)
    OBVIOUS
  <1>8. PICK w : w = m.wrapAddr
    OBVIOUS
  <1>9. /\ b \notin table /\ InBlock(a, b, recorder) /\ CanWrite(cells, a)
        /\ failing \subseteq LogManageAddresses(failing).tried
        /\ bad' = table /\ wrapAddr' = w /\ Stored(cells, a)
        /\ w = 0 \/ w = (b + 1) * BLOCK
    BY <1>2, <1>3, <1>4, <1>5, <1>6, <1>7, <1>8, Zenon
  <1>10. \A c \in a .. a + recorder - 1 : cells[c] = ERASED
    BY <1>2, <1>9, Zenon DEF CanWrite
  <1>11. \A c \in a .. a + recorder - 1 : c \in Cells /\ BlockOf(c) = b
    <2>1. recorder \in 1 .. PAGE
      BY <1>1, LogMachineAssumption DEF FlashTypes
    <2>. QED  BY <1>9, <2>1, PlaceCells
  <1>12. \A c \in Cells : Shows(cells, table, c) => Shows(flash, bad, c) /\ cells[c] = flash[c]
    BY <1>2, <1>4, <1>5, <1>6, <1>9, RunCells, Zenon
  <1>13. /\ address' = a /\ recorder' = recorder
         /\ machState' = "CONFIRM" =>
              /\ flash' = Written(cells, a, recorder, Head(queue))
              /\ queue # <<>> /\ Head(queue) # GARBAGE
              /\ TempDataBuf' = Head(queue)
         /\ machState' # "CONFIRM" => flash' = cells
         /\ machState' = "RUN" \/ machState' = "CONFIRM"
         /\ queue' = queue \/ (queue # <<>> /\ queue' = Tail(queue))
    <2>1. \/ /\ flash' = cells /\ address' = a /\ machState' = "RUN"
             /\ queue' = queue \/ (queue # <<>> /\ queue' = Tail(queue))
          \/ /\ flash' = Written(cells, a, recorder, Head(queue)) /\ address' = a
             /\ queue # <<>> /\ Head(queue) # GARBAGE /\ machState' = "CONFIRM"
             /\ queue' = Tail(queue) /\ TempDataBuf' = Head(queue)
      BY <1>2, <1>9, Zenon DEF Stored
    <2>2. recorder' = recorder
      BY Zenon
    <2>3. "RUN" # "CONFIRM"
      OBVIOUS
    <2>. QED  BY <2>1, <2>2, <2>3, Zenon
  <1>14. PlaceIsTaken'
    BY <1>9, <1>13, Zenon DEF PlaceIsTaken, LogBlocks, InBlock
  <1>. DEFINE T == {cells[c] : c \in {d \in Cells : Shows(cells, table, d)}}
  <1>15. CASE machState' # "CONFIRM"
    <2>1. AllShown' = T
      BY <1>9, <1>13, <1>15, Zenon DEF AllShown, Shows, BlockOf, Cells, Packets
    <2>2. LogSet' = T
      BY <1>15, <2>1, Zenon DEF LogSet
    <2>3. WrittenLast'
      BY <1>15, Zenon DEF WrittenLast
    <2>. QED  BY <1>4, <1>5, <1>6, <1>7, <1>8, <1>9, <1>13, <1>14, <2>2, <2>3, Zenon
  <1>16. CASE machState' = "CONFIRM"
    <2>1. PICK p : p = Head(queue)
      OBVIOUS
    <2>2. p \in Packets /\ 1 \in 1 .. Len(queue) /\ queue[1] = p /\ p \in Nat
      <3>1. queue \in Seq(QueueValues) /\ queue # <<>> /\ p # GARBAGE
        BY <1>1, <1>13, <1>16, <2>1 DEF LogTypes
      <3>2. p \in QueueValues /\ Len(queue) \in Nat \ {0} /\ p = queue[1]
        BY <2>1, <3>1, TailPackets, HeadTailProperties
      <3>3. p \in Packets
        BY <3>1, <3>2, Zenon DEF QueueValues
      <3>. QED  BY <3>2, <3>3, PacketNumbers
    <2>3. OlderThan(flash, bad, p)
      BY <2>2, Zenon DEF OrderIInv, QueueIsSound
    <2>4. \A c \in Cells : Shows(cells, table, c) => cells[c] < p /\ cells[c] # p /\ cells[c] \in Nat
      BY <1>12, <2>2, <2>3, PacketNumbers DEF OlderThan, Shows
    <2>5. \A c \in Cells : flash'[c] = IF c \in a .. a + recorder - 1 THEN p ELSE cells[c]
      BY <1>13, <1>16, <2>1, Zenon DEF Written
    <2>6. \A c \in Cells : c \in a .. a + recorder - 1 =>
             ~Shows(cells, table, c) /\ Shows(flash', table, c) /\ flash'[c] = p
      BY <1>9, <1>10, <1>11, <2>2, <2>5, PacketNumbers, Zenon DEF Shows
    <2>7. \A c \in Cells : c \notin a .. a + recorder - 1 =>
             (Shows(flash', table, c) <=> Shows(cells, table, c)) /\ flash'[c] = cells[c]
      BY <2>5, Zenon DEF Shows
    <2>8. IsAt(flash', table, p, a, recorder)
      BY <1>11, <2>4, <2>6, <2>7, Zenon DEF IsAt
    <2>9. \A c \in Cells : Shows(flash', table, c) => flash'[c] <= p
      BY <2>2, <2>4, <2>6, <2>7
    <2>10. TempDataBuf' = p
      BY <1>13, <1>16, <2>1
    <2>11. WrittenLast'
      <3>1. Packets' = Packets /\ Cells' = Cells /\ address' = a /\ recorder' = recorder
        BY <1>13, Zenon DEF Packets, Cells
      <3>. QED  BY <1>9, <2>2, <2>8, <2>9, <2>10, <3>1 DEF WrittenLast, IsAt, Shows, BlockOf
    <2>12. LogSet' = T
      <3>1. LogSet' = {flash'[c] : c \in {d \in Cells : Shows(flash', table, d)}} \ {p}
        BY <1>9, <1>16, <2>10, Zenon DEF LogSet, AllShown, Shows, BlockOf, Cells, Packets
      <3>2. ASSUME NEW x \in LogSet' PROVE x \in T
        BY <2>6, <2>7, <3>1, <3>2
      <3>3. ASSUME NEW x \in T PROVE x \in LogSet'
        <4>1. PICK c \in Cells : Shows(cells, table, c) /\ x = cells[c]
          BY <3>3
        <4>2. Shows(flash', table, c) /\ flash'[c] = x /\ x # p
          BY <2>4, <2>6, <2>7, <4>1
        <4>. QED  BY <3>1, <4>2
      <3>. QED  BY <3>2, <3>3
    <2>. QED  BY <1>4, <1>5, <1>6, <1>7, <1>8, <1>9, <1>13, <1>14, <2>11, <2>12, Zenon
  <1>. QED  BY <1>15, <1>16

\* Steps that leave the flash as it is.
LEMMA ReaderKept ==
  ASSUME PlaceIsTaken, NoneAtEnd, WrittenLast, UNCHANGED <<flash, bad>>,
         \/ machState' # "CONFIRM"
         \/ UNCHANGED <<machState, address, wrapAddr, recorder, TempDataBuf>>
  PROVE  PlaceIsTaken' /\ NoneAtEnd' /\ WrittenLast'
  <1>1. NoneAtEnd'
    BY Zenon DEF NoneAtEnd, Shows, BlockOf, Cells, Packets
  <1>2. CASE machState' # "CONFIRM"
    BY <1>1, <1>2, Zenon DEF PlaceIsTaken, WrittenLast
  <1>3. CASE UNCHANGED <<machState, address, wrapAddr, recorder, TempDataBuf>>
    <2>1. PlaceIsTaken'
      BY <1>3, Zenon DEF PlaceIsTaken, InBlock, LogBlocks
    <2>2. WrittenLast'
      BY <1>3, Zenon DEF WrittenLast, IsAt, Shows, BlockOf, Cells, Packets
    <2>. QED  BY <1>1, <2>1, <2>2
  <1>. QED  BY <1>2, <1>3

LEMMA ReaderStep ==
  ASSUME ReaderIInv, Next, faults' \subseteq Harmless
  PROVE  ReaderIInv'
  <1>1. LogIInv /\ OrderIInv /\ PlaceIsTaken /\ NoneAtEnd /\ WrittenLast
    BY Zenon DEF ReaderIInv
  <1>2. LogIInv' /\ OrderIInv'
    BY <1>1, LogStep, OrderStep, Zenon
  <1>3. faults \subseteq UNION Faults /\ FlagsAgree
    BY <1>1, IInvParts, Zenon DEF FlashTypes
  <1>. DEFINE Rest == PlaceIsTaken' /\ NoneAtEnd' /\ WrittenLast'
  <1>4. ASSUME LogMachine PROVE Rest
    <2>1. UNCHANGED <<recorder, sent>>
      BY <1>4, Zenon DEF LogMachine
    <2>2. ASSUME Run PROVE Rest
      BY <1>1, <2>1, <2>2, RunShows, RunBeforeEnd, Zenon
    <2>3. ASSUME Idle \/ RunErase \/ RunNothing \/ Confirm PROVE Rest
      <3>1. UNCHANGED <<flash, bad>> /\ machState' # "CONFIRM"
        BY <2>3, Zenon DEF Idle, RunErase, RunNothing, Confirm, infoVars
      <3>. QED  BY <1>1, <3>1, ReaderKept, Zenon
    <2>4. ASSUME Erase PROVE Rest
      <3>1. machState' = "IDLE"
        BY <2>4, Zenon DEF Erase, InitLog
      <3>2. (\A c \in Cells : ~Shows(flash, bad, c))'
        <4>1. (LogIInv /\ machState = "IDLE" => \A c \in Cells : ~Shows(flash, bad, c))'
          BY IdleIsEmpty, PTL
        <4>. QED  BY <1>2, <3>1, <4>1, Zenon
      <3>. QED  BY <3>1, <3>2, Zenon DEF PlaceIsTaken, NoneAtEnd, WrittenLast
    <2>. QED  BY <1>3, <1>4, <2>2, <2>3, <2>4, Zenon DEF LogMachine, WriteFail, FlagsAgree
  <1>5. ASSUME ReceivePacket \/ ReceiveGarbage \/ EraseFlash PROVE Rest
    <2>1. UNCHANGED <<flash, bad, machState, address, wrapAddr, recorder, TempDataBuf>>
      BY <1>5, Zenon DEF ReceivePacket, ReceiveGarbage, Receive, EraseFlash
    <2>. QED  BY <1>1, <2>1, ReaderKept, Zenon
  <1>6. ~(PowerFails \/ PowerFailsInside)
    BY <1>3, PowerHarms, Zenon
  <1>7. Rest
    BY <1>4, <1>5, <1>6, Zenon DEF Next
  <1>. QED  BY <1>2, <1>7, Zenon DEF ReaderIInv

LEMMA ReaderInit == ASSUME Init PROVE ReaderIInv
  <1>1. LogIInv /\ OrderIInv
    BY LogInit, OrderInit, Zenon
  <1>2. machState = "IDLE"
    BY Zenon DEF Init
  <1>3. \A c \in Cells : ~Shows(flash, bad, c)
    BY <1>1, <1>2, IdleIsEmpty, Zenon
  <1>. QED  BY <1>1, <1>2, <1>3, Zenon DEF ReaderIInv, PlaceIsTaken, NoneAtEnd, WrittenLast

-----------------------------------------------------------------------------
(* LOG_RUN_STATE: what making room costs.                                  *)

LEMMA LogNumbers ==
  ASSUME ReaderIInv
  PROVE  /\ recorder \in 1 .. PAGE /\ PerBlock(recorder) \in Nat
         /\ PerPage(recorder) \in Nat \ {0} /\ PerPage(recorder) <= PerBlock(recorder)
         /\ LAST_BLOCK \in Nat \ {0} /\ LAST_BLOCK * PerBlock(recorder) \in Nat
         /\ \A X : Lost(X) \in Nat /\ Lost(X) <= PerBlock(recorder)
         /\ \A X, Y : X \subseteq Y => Lost(X) <= Lost(Y)
  <1>1. recorder \in 1 .. PAGE
    BY IInvParts, LogMachineAssumption DEF ReaderIInv, FlashTypes
  <1>2. PICK B : B = PerBlock(recorder)
    OBVIOUS
  <1>3. B \in Nat /\ PerPage(recorder) <= B
    BY <1>1, <1>2, RankOfBlock
  <1>4. PerPage(recorder) \in Nat \ {0}
    BY <1>1, PageNumbers
  <1>5. LAST_BLOCK \in Nat \ {0} /\ LAST_BLOCK * B \in Nat
    BY <1>3, LogMachineAssumption
  <1>6. ASSUME NEW X, NEW Y PROVE /\ Lost(X) \in Nat /\ Lost(X) <= B
                                  /\ X \subseteq Y => Lost(X) <= Lost(Y)
    BY <1>2, <1>3 DEF Lost
  <1>. QED  BY <1>1, <1>2, <1>3, <1>4, <1>5, <1>6

\* The address is a place.
LEMMA AddressIsPlace ==
  ASSUME ReaderIInv, machState # "IDLE"
  PROVE  IsPlace(address, recorder)
  <1>1. recorder \in 1 .. PAGE
    BY LogNumbers
  <1>2. CASE machState = "CONFIRM"
    <2>1. PICK b \in LogBlocks : InBlock(address, b, recorder)
      BY <1>2, Zenon DEF ReaderIInv, PlaceIsTaken
    <2>. QED  BY <1>1, <2>1, BlockSums, PlaceOfPage
  <1>3. CASE machState # "CONFIRM"
    <2>1. OnGrid(address)
      BY <1>3 DEF ReaderIInv, LogIInv, Position
    <2>2. CASE address = DEVICE
      <3>1. address = (LAST_BLOCK + 1) * BLOCK /\ LAST_BLOCK + 1 \in Nat
        BY <2>2, BlockSums, LogMachineAssumption
      <3>. QED  BY <1>1, <3>1, RankOfBlock
    <2>3. CASE \E b \in LogBlocks : InBlock(address, b, recorder)
      BY <1>1, <2>3, BlockSums, PlaceOfPage
    <2>. QED  BY <2>1, <2>2, <2>3 DEF OnGrid
  <1>. QED  BY <1>2, <1>3

\* When a block is erased, the log has gone round the whole ring.
LEMMA FullBefore ==
  ASSUME PackIInv, machState = "RUN", NEW from \in LogBlocks,
         \/ RDU_LOG_ADDR_END <= address /\ \A c \in Cells : ~Behind(wrapAddr, c)
         \/ wrapAddr # 0 /\ wrapAddr = from * BLOCK /\ address = wrapAddr
  PROVE  LAST_BLOCK * PerBlock(recorder) <= Len(log) + PerPage(recorder) + Lost(bad)
  <1>1. /\ ReaderIInv /\ LogIInv /\ IsPlace(address, recorder)
        /\ Enough(Len(log), wrapAddr, address, bad) /\ IsRead(log, LogSet)
    BY AddressIsPlace DEF PackIInv, ReaderIInv, LongEnough
  <1>2. PICK B : B = PerBlock(recorder)
    OBVIOUS
  <1>3. PICK P : P = PerPage(recorder)
    OBVIOUS
  <1>4. /\ recorder \in 1 .. PAGE /\ B \in Nat /\ P \in Nat
        /\ LAST_BLOCK \in Nat \ {0} /\ LAST_BLOCK * B \in Nat
        /\ \A X : Lost(X) \in Nat
        /\ \A X, Y : X \subseteq Y => Lost(X) <= Lost(Y)
    BY <1>1, <1>2, <1>3, LogNumbers
  <1>5. PICK N \in Nat : N = Len(log)
    BY <1>1, ReadNumbers
  <1>6. PICK r \in Nat : r = Rank(recorder, address)
    BY <1>1, <1>4, RankGrows
  <1>7. PICK lost \in Nat : lost = Lost(bad)
    BY <1>4
  <1>8. ASSUME wrapAddr # 0
        PROVE  \E b \in LogBlocks : wrapAddr = (b + 1) * BLOCK
    BY <1>1, <1>8, Zenon DEF LogIInv, ErasedToWrap
  <1>9. ASSUME NEW b \in LogBlocks, wrapAddr = (b + 1) * BLOCK
        PROVE  LAST_BLOCK * B + r <= N + B + (IF b = LAST_BLOCK THEN 0 ELSE P) + lost + b * B
    <2>1. wrapAddr # 0
      BY <1>1, <1>9, WrapNumbers
    <2>. QED  BY <1>1, <1>2, <1>3, <1>5, <1>6, <1>7, <1>9, <2>1 DEF Enough
  <1>10. CASE RDU_LOG_ADDR_END <= address /\ \A c \in Cells : ~Behind(wrapAddr, c)
    <2>1. PICK e \in Nat : e = Rank(recorder, RDU_LOG_ADDR_END)
      BY <1>4, RankOfEnd, RankGrows
    <2>2. e + P = (LAST_BLOCK + 1) * B
      BY <1>2, <1>3, <1>4, <2>1, RankOfEnd
    <2>3. e <= r
      BY <1>1, <1>4, <1>6, <1>10, <2>1, RankOfEnd, RankGrows
    <2>4. e + P = LAST_BLOCK * B + B
      BY <1>4, <2>2
    <2>5. r <= N + B + lost
      <3>1. CASE wrapAddr = 0
        <4>1. PICK X : X = {g \in bad : (g + 1) * BLOCK <= address}
          OBVIOUS
        <4>2. r <= N + B + Lost(X)
          BY <1>1, <1>2, <1>5, <1>6, <3>1, <4>1, Zenon DEF Enough
        <4>3. Lost(X) <= lost /\ Lost(X) \in Nat
          BY <1>4, <1>7, <4>1
        <4>. QED  BY <1>4, <4>2, <4>3
      <3>2. CASE wrapAddr # 0
        <4>1. PICK b \in LogBlocks : wrapAddr = (b + 1) * BLOCK
          BY <1>8, <3>2
        <4>2. b = LAST_BLOCK
          <5>1. ASSUME b # LAST_BLOCK PROVE FALSE
            <6>1. b + 1 \in LogBlocks /\ b + 1 \in Nat
              BY <5>1, BlockSums
            <6>2. wrapAddr \in Cells
              <7>1. PICK g \in LogBlocks : g = b + 1
                BY <6>1
              <7>2. /\ BLOCK <= g * BLOCK /\ g * BLOCK \in Nat /\ DEVICE \in Nat
                    /\ (g + 1) * BLOCK = g * BLOCK + BLOCK /\ (g + 1) * BLOCK <= DEVICE
                    /\ BLOCK \in Nat \ {0}
                BY <1>1, BlockSums, WrapNumbers
              <7>. QED  BY <4>1, <7>1, <7>2 DEF Cells, RDU_LOG_ADDR_START
            <6>3. Behind(wrapAddr, wrapAddr)
              BY <1>1, <3>2, WrapNumbers DEF Behind
            <6>. QED  BY <1>10, <6>2, <6>3
          <5>. QED  BY <5>1
        <4>3. LAST_BLOCK * B + r <= N + B + 0 + lost + LAST_BLOCK * B
          BY <1>9, <4>1, <4>2
        <4>. QED  BY <1>4, <4>3
      <3>. QED  BY <3>1, <3>2
    <2>6. LAST_BLOCK * B <= N + P + lost
      BY <1>4, <2>3, <2>4, <2>5
    <2>. QED  BY <1>2, <1>3, <1>5, <1>7, <2>6
  <1>11. CASE wrapAddr # 0 /\ wrapAddr = from * BLOCK /\ address = wrapAddr
    <2>1. PICK b \in LogBlocks : wrapAddr = (b + 1) * BLOCK
      BY <1>8, <1>11
    <2>2. b \in Nat /\ from \in Nat /\ from <= LAST_BLOCK /\ BLOCK \in Nat \ {0}
      BY <1>1, <1>4, WrapNumbers DEF LogBlocks
    <2>3. from = b + 1
      <3>1. from <= b + 1 /\ b + 1 <= from
        <4>1. from * BLOCK <= (b + 1) * BLOCK /\ (b + 1) * BLOCK <= from * BLOCK
          <5>1. from * BLOCK = (b + 1) * BLOCK /\ from * BLOCK \in Nat
            BY <1>11, <2>1, <2>2
          <5>. QED  BY <5>1
        <4>. QED  BY <2>2, <4>1, Cancel
      <3>. QED  BY <2>2, <3>1
    <2>4. r = from * B
      BY <1>2, <1>4, <1>6, <1>11, <2>2, RankOfBlock
    <2>5. from * B = b * B + B /\ b * B \in Nat
      BY <1>4, <2>2, <2>3
    <2>6. LAST_BLOCK * B + r <= N + B + P + lost + b * B
      BY <1>9, <2>1, <2>2, <2>3, <1>4
    <2>7. LAST_BLOCK * B <= N + P + lost
      BY <1>4, <2>4, <2>5, <2>6
    <2>. QED  BY <1>2, <1>3, <1>5, <1>7, <2>7
  <1>. QED  BY <1>10, <1>11

\* The packets that go are those of the block that is erased, and those of the
\* block before it when it has just been found bad.
LEMMA DroppedFit ==
  ASSUME ReaderIInv, BadOnce, NEW failing \in FailingErases,
         NEW from \in LogBlocks, NEW to \in LogBlocks, from <= to,
         to \notin bad \cup failing, \A g \in from .. to - 1 : g \in bad \cup failing,
         failing \subseteq from .. to,
         (\A c \in Cells : ~Behind(wrapAddr, c)) \/ (wrapAddr # 0 /\ wrapAddr = from * BLOCK),
         NEW n \in Nat, NEW L, \A j, k \in 1 .. n : j < k => L[j] < L[k],
         \A k \in 1 .. n : \E c \in Cells :
            /\ Shows(flash, bad, c) /\ flash[c] = L[k]
            /\ BlockOf(c) = to \/ BlockOf(c) \in failing
  PROVE  n + (IF to = LAST_BLOCK THEN PerPage(recorder) ELSE 0)
           <= PerBlock(recorder) + Lost(failing)
  <1>1. PICK B : B = PerBlock(recorder)
    OBVIOUS
  <1>2. PICK P : P = PerPage(recorder)
    OBVIOUS
  <1>3. /\ recorder \in 1 .. PAGE /\ B \in Nat /\ P \in Nat /\ P <= B
        /\ LAST_BLOCK \in Nat \ {0} /\ Lost(failing) \in Nat
    BY <1>1, <1>2, LogNumbers
  <1>4. /\ from \in Nat /\ to \in Nat /\ from # 0 /\ to <= LAST_BLOCK
    BY <1>3 DEF LogBlocks
  \* The lowest of the blocks.
  <1>5. PICK lo \in Nat :
          /\ from <= lo /\ lo <= to
          /\ \A g \in failing : lo <= g
          /\ lo = to \/ (lo = to - 1 /\ Lost(failing) = B)
    <2>1. CASE failing = {}
      BY <1>4, <2>1
    <2>2. CASE failing # {}
      <3>1. PICK f \in LogBlocks : failing = {f}
        BY <2>2, FirstBad, Zenon
      <3>2. bad = {}
        BY <2>2, FirstBad, Zenon
      <3>3. failing = {f}
        BY <3>1, Zenon
      <3>4. f \in Nat /\ from <= f /\ f <= to /\ f # to
        BY <1>3, <1>4, <3>3 DEF LogBlocks
      <3>5. \A g \in from .. to - 1 : g = f
        BY <3>2, <3>3
      <3>6. from = f /\ to - 1 = f
        BY <1>4, <3>4, <3>5
      <3>7. Lost(failing) = B
        BY <1>1, <3>3 DEF Lost
      <3>. QED  BY <1>4, <3>3, <3>4, <3>6, <3>7
    <2>. QED  BY <2>1, <2>2
  <1>6. PICK top :
          /\ IsPlace(top, recorder) /\ top \in Nat /\ Rank(recorder, top) \in Nat
          /\ \A c \in Cells : Shows(flash, bad, c) /\ BlockOf(c) <= to => c < top
          /\ Rank(recorder, top) + (IF to = LAST_BLOCK THEN P ELSE 0) = (to + 1) * B
          /\ \A c \in Cells : c < top => c < DEVICE
    <2>1. CASE to = LAST_BLOCK
      <3>1. /\ IsPlace(RDU_LOG_ADDR_END, recorder)
            /\ Rank(recorder, RDU_LOG_ADDR_END) + P = (to + 1) * B
        BY <1>1, <1>2, <1>3, <2>1, RankOfEnd
      <3>2. RDU_LOG_ADDR_END \in Nat /\ Rank(recorder, RDU_LOG_ADDR_END) \in Nat
        BY <1>3, <3>1, RankGrows
      <3>3. \A c \in Cells : Shows(flash, bad, c) => c < RDU_LOG_ADDR_END
        BY Zenon DEF ReaderIInv, NoneAtEnd
      <3>4. \A c \in Cells : c < DEVICE
        BY CellFacts
      <3>. QED  BY <2>1, <3>1, <3>2, <3>3, <3>4
    <2>2. CASE to # LAST_BLOCK
      <3>1. PICK g \in Nat : g = to + 1
        BY <1>4
      <3>2. IsPlace(g * BLOCK, recorder) /\ Rank(recorder, g * BLOCK) = g * B
        BY <1>1, <1>3, RankOfBlock
      <3>3. PICK t : t = g * BLOCK
        OBVIOUS
      <3>4. PICK r : r = g * B
        OBVIOUS
      <3>5. t \in Nat /\ r \in Nat /\ IsPlace(t, recorder) /\ Rank(recorder, t) = r
        BY <1>3, <3>2, <3>3, <3>4, RankGrows
      <3>6. ASSUME NEW c \in Cells, BlockOf(c) <= to PROVE c < t
        <4>1. BlockOf(c) < g
          BY <1>4, <3>1, <3>6, CellFacts DEF LogBlocks
        <4>. QED  BY <3>3, <4>1, BlockOrder
      <3>7. r = (to + 1) * B
        BY <3>1, <3>4
      <3>8. \A c \in Cells : c < DEVICE
        BY CellFacts
      <3>. QED  BY <2>2, <3>5, <3>6, <3>7, <3>8
    <2>. QED  BY <2>1, <2>2
  <1>7. \A k \in 1 .. n : \E c \in Cells :
           Shows(flash, bad, c) /\ flash[c] = L[k] /\ lo <= BlockOf(c) /\ c < top
    <2>1. ASSUME NEW k \in 1 .. n
          PROVE  \E c \in Cells :
                   Shows(flash, bad, c) /\ flash[c] = L[k] /\ lo <= BlockOf(c) /\ c < top
      <3>1. PICK c \in Cells : /\ Shows(flash, bad, c) /\ flash[c] = L[k]
                               /\ BlockOf(c) = to \/ BlockOf(c) \in failing
        BY <2>1
      <3>2. lo <= BlockOf(c) /\ BlockOf(c) <= to
        <4>1. CASE BlockOf(c) = to
          BY <1>4, <1>5, <4>1
        <4>2. CASE BlockOf(c) \in failing
          <5>1. PICK g \in from .. to : g = BlockOf(c) /\ lo <= g
            BY <1>5, <4>2
          <5>. QED  BY <1>4, <5>1
        <4>. QED  BY <3>1, <4>1, <4>2
      <3>. QED  BY <1>6, <3>1, <3>2
    <2>. QED  BY <2>1
  <1>8. \A c, d \in {x \in Cells : lo <= BlockOf(x) /\ x < top} :
           Behind(wrapAddr, c) <=> Behind(wrapAddr, d)
    <2>1. CASE \A c \in Cells : ~Behind(wrapAddr, c)
      <3>1. ASSUME NEW c \in Cells, NEW d \in Cells
            PROVE  Behind(wrapAddr, c) <=> Behind(wrapAddr, d)
        BY <2>1, <3>1
      <3>. QED  BY <3>1
    <2>2. CASE wrapAddr # 0 /\ wrapAddr = from * BLOCK
      <3>1. ASSUME NEW c \in Cells, lo <= BlockOf(c) PROVE Behind(wrapAddr, c)
        <4>1. from <= BlockOf(c)
          BY <1>4, <1>5, <3>1, CellFacts DEF LogBlocks
        <4>2. from * BLOCK <= c /\ c \in Nat
          BY <1>4, <4>1, BlockOrder, CellFacts
        <4>3. wrapAddr \in Nat
          BY WrapNumbers DEF ReaderIInv
        <4>. QED  BY <2>2, <4>2, <4>3 DEF Behind
      <3>2. ASSUME NEW c \in Cells, NEW d \in Cells, lo <= BlockOf(c), lo <= BlockOf(d)
            PROVE  Behind(wrapAddr, c) <=> Behind(wrapAddr, d)
        BY <3>1, <3>2
      <3>. QED  BY <3>2
    <2>. QED  BY <2>1, <2>2
  <1>9. CASE n = 0
    BY <1>1, <1>2, <1>3, <1>9
  <1>10. CASE n # 0
    <2>1. lo * B + n <= Rank(recorder, top)
      BY <1>1, <1>6, <1>7, <1>8, <1>10, PacketsFit, Zenon
    <2>2. PICK r \in Nat : r = Rank(recorder, top)
      BY <1>6
    <2>3. PICK x \in Nat : x = lo * B
      BY <1>3
    <2>4. (to + 1) * B = IF lo = to THEN x + B ELSE x + B + B
      <3>1. CASE lo = to
        BY <1>3, <1>4, <2>3, <3>1
      <3>2. CASE lo # to
        <4>1. to + 1 = lo + 2
          BY <1>4, <1>5, <3>2
        <4>. QED  BY <1>3, <2>3, <3>2, <4>1
      <3>. QED  BY <3>1, <3>2
    <2>5. r + (IF to = LAST_BLOCK THEN P ELSE 0) = IF lo = to THEN x + B ELSE x + B + B
      BY <1>6, <2>2, <2>4
    <2>6. x + n <= r
      BY <2>1, <2>2, <2>3
    <2>7. lo # to => Lost(failing) = B
      BY <1>5
    <2>. QED  BY <1>1, <1>2, <1>3, <2>5, <2>6, <2>7
  <1>. QED  BY <1>9, <1>10

\* When no block is erased, the address goes over a bad block at most.
LEMMA SkipEnough ==
  ASSUME PackIInv, machState = "RUN", address < RDU_LOG_ADDR_END, address # wrapAddr,
         NEW at, at = HandleBadBlock(address, bad)
  PROVE  Enough(Len(log), wrapAddr, at, bad)
  <1>1. /\ ReaderIInv /\ LogIInv /\ IsPlace(address, recorder) /\ BadOnce
        /\ Enough(Len(log), wrapAddr, address, bad) /\ IsRead(log, LogSet)
    BY AddressIsPlace DEF PackIInv, ReaderIInv, LongEnough
  <1>2. CASE BlockOf(address) \notin bad
    BY <1>1, <1>2 DEF HandleBadBlock
  <1>3. CASE BlockOf(address) \in bad
    <2>1. address \in Nat /\ BLOCK \in Nat \ {0} /\ wrapAddr \in Nat
      BY <1>1, WrapNumbers
    <2>2. wrapAddr = 0
      <3>1. ASSUME wrapAddr # 0 PROVE FALSE
        <4>1. PICK b \in LogBlocks \ bad : /\ wrapAddr = (b + 1) * BLOCK
                                           /\ b * BLOCK <= address /\ address <= wrapAddr
          <5>1. ErasedToWrap(address)
            BY <1>1, <3>1 DEF LogIInv, Position
          <5>. QED  BY <5>1, Zenon DEF ErasedToWrap
        <4>2. address < (b + 1) * BLOCK /\ b \in Nat
          BY <2>1, <4>1 DEF LogBlocks
        <4>3. BlockOf(address) = b
          BY <2>1, <4>1, <4>2, CellOfBlock
        <4>. QED  BY <1>3, <4>1, <4>3
      <3>. QED  BY <3>1
    <2>3. PICK g \in LogBlocks : bad = {g}
      BY <1>1, <1>3, Zenon DEF BadOnce
    <2>4. BlockOf(address) = g /\ g \in Nat /\ g # LAST_BLOCK
      BY <1>1, <1>3, <2>3, BlockSums DEF LogIInv
    <2>5. g * BLOCK <= address /\ address < (g + 1) * BLOCK
      BY <2>1, <2>4, BlockOfCell
    <2>6. PICK z \in LogBlocks : z = g + 1 /\ z \in Nat /\ z \notin bad
      BY <2>3, <2>4, BlockSums
    <2>7. at = z * BLOCK
      <3>1. Min({b \in g .. LAST_BLOCK + 1 : b \notin bad}) = z
        <4>1. PICK Z : Z = {b \in g .. LAST_BLOCK + 1 : b \notin bad}
          OBVIOUS
        <4>2. z \in Z /\ Z \subseteq Nat /\ \A y \in Z : z <= y
          <5>1. LAST_BLOCK \in Nat /\ z <= LAST_BLOCK
            BY <2>6, LogMachineAssumption DEF LogBlocks
          <5>. QED  BY <2>3, <2>4, <2>6, <4>1, <5>1
        <4>3. PICK y : y = Min(Z)
          OBVIOUS
        <4>4. y \in Z /\ y <= z
          BY <4>2, <4>3, LeastOf
        <4>5. y \in Nat /\ z <= y
          BY <4>2, <4>4
        <4>6. Min(Z) = z
          BY <2>6, <4>3, <4>4, <4>5
        <4>. QED  BY <4>1, <4>6
      <3>2. at = BLOCK * z
        BY <1>3, <2>4, <3>1 DEF HandleBadBlock
      <3>. QED  BY <2>1, <2>6, <3>2
    <2>8. PICK B : B = PerBlock(recorder)
      OBVIOUS
    <2>9. PICK N \in Nat : N = Len(log)
      BY <1>1, ReadNumbers
    <2>10. B \in Nat /\ recorder \in 1 .. PAGE
      BY <1>1, <2>8, LogNumbers
    <2>11. {h \in bad : (h + 1) * BLOCK <= address} = {}
      <3>1. PICK e \in Nat : e = (g + 1) * BLOCK
        BY <2>1, <2>4
      <3>2. ~(e <= address)
        BY <2>1, <2>5, <3>1
      <3>. QED  BY <2>3, <3>1, <3>2
    <2>12. {h \in bad : (h + 1) * BLOCK <= at} = {g}
      <3>1. (g + 1) * BLOCK = at /\ at \in Nat
        BY <2>1, <2>6, <2>7
      <3>2. (g + 1) * BLOCK <= at
        BY <3>1
      <3>. QED  BY <2>3, <3>2
    <2>13. PICK r \in Nat : r = Rank(recorder, address)
      BY <1>1, <2>10, RankGrows
    <2>14. r <= N + B
      <3>1. r <= N + B + Lost({})
        BY <1>1, <2>2, <2>8, <2>9, <2>11, <2>13 DEF Enough
      <3>2. Lost({}) = 0
        BY DEF Lost
      <3>. QED  BY <2>10, <3>1, <3>2
    <2>15. g * B <= r /\ g * B \in Nat
      <3>1. IsPlace(g * BLOCK, recorder) /\ Rank(recorder, g * BLOCK) = g * B
        BY <2>4, <2>8, <2>10, RankOfBlock
      <3>. QED  BY <1>1, <2>5, <2>10, <2>13, <3>1, RankGrows, <2>4
    <2>16. Rank(recorder, at) = g * B + B
      <3>1. Rank(recorder, at) = z * B
        BY <2>6, <2>7, <2>8, <2>10, RankOfBlock
      <3>2. z * B = g * B + B
        BY <2>4, <2>6, <2>10
      <3>. QED  BY <3>1, <3>2
    <2>17. Lost({g}) = B
      BY <2>8 DEF Lost
    <2>18. Rank(recorder, at) <= N + B + Lost({g})
      BY <2>10, <2>14, <2>15, <2>16, <2>17
    <2>. QED  BY <2>2, <2>8, <2>9, <2>12, <2>18 DEF Enough
  <1>. QED  BY <1>2, <1>3

\* What LOG_RUN_STATE drops are the oldest packets, and enough of them stay.
LEMMA RunForgets ==
  ASSUME PackIInv, Run, UNCHANGED <<recorder, sent>>, faults' \subseteq Harmless
  PROVE  \E n \in 0 .. Len(log) :
           /\ IsRead(SubSeq(log, n + 1, Len(log)), LogSet')
           /\ Enough(Len(log) - n, wrapAddr', address', bad')
           /\ n # 0 => LAST_BLOCK * PerBlock(recorder)
                         <= Len(log) - n + 2 * PerBlock(recorder) + PerPage(recorder)
  <1>1. /\ ReaderIInv /\ LogIInv /\ OrderIInv /\ BadOnce /\ IsRead(log, LogSet)
        /\ InOrder(flash, bad, wrapAddr)
    BY Zenon DEF PackIInv, ReaderIInv, OrderIInv, FlashIsSound
  <1>2. machState = "RUN" /\ packetSize = recorder
    BY <1>1, IInvParts, RunParts, Zenon DEF FlagsAgree
  <1>3. PICK failing \in FailingErases :
          LET m     == LogManageAddresses(failing)
              table == bad \cup failing
              cells == Wiped(flash, m.erases)
          IN  /\ failing \subseteq m.tried
              /\ bad' = table /\ wrapAddr' = m.wrapAddr
              /\ address' = HandleBadBlock(m.address, table)
              /\ LogSet' = {cells[c] : c \in {d \in Cells : Shows(cells, table, d)}}
    BY <1>1, RunShows, Zenon
  <1>4. PICK m : m = LogManageAddresses(failing)
    OBVIOUS
  <1>5. PICK table : table = bad \cup failing
    OBVIOUS
  <1>6. PICK cells : cells = Wiped(flash, m.erases)
    OBVIOUS
  <1>7. PICK T : T = {cells[c] : c \in {d \in Cells : Shows(cells, table, d)}}
    OBVIOUS
  <1>8. /\ failing \subseteq LogManageAddresses(failing).tried
        /\ bad' = table /\ wrapAddr' = m.wrapAddr
        /\ address' = HandleBadBlock(m.address, table)
        /\ LogSet' = T
    BY <1>3, <1>4, <1>5, <1>6, <1>7, Zenon
  <1>9. /\ \A c \in Cells : Shows(cells, table, c) => Shows(flash, bad, c) /\ cells[c] = flash[c]
        /\ \A c, d \in Cells :
              Shows(flash, bad, c) /\ ~Shows(cells, table, c) /\ Shows(cells, table, d)
                => Earlier(wrapAddr, c, d)
    BY <1>1, <1>2, <1>4, <1>5, <1>6, <1>8, RunCells, Zenon
  <1>10. LogSet = AllShown
    BY <1>2, Zenon DEF LogSet
  <1>11. T \subseteq LogSet
    <2>1. ASSUME NEW x \in T PROVE x \in LogSet
      <3>1. PICK c \in Cells : Shows(cells, table, c) /\ x = cells[c]
        BY <1>7, <2>1
      <3>2. Shows(flash, bad, c) /\ x = flash[c]
        BY <1>9, <3>1
      <3>. QED  BY <1>10, <3>2, Zenon DEF AllShown
    <2>. QED  BY <2>1
  <1>12. ASSUME NEW x \in LogSet \ T
         PROVE  \E c \in Cells : /\ Shows(flash, bad, c) /\ flash[c] = x
                                 /\ ~Shows(cells, table, c)
    <2>1. PICK c \in Cells : Shows(flash, bad, c) /\ flash[c] = x
      <3>1. x \in AllShown
        BY <1>10, <1>12
      <3>. QED  BY <3>1, Zenon DEF AllShown
    <2>2. ASSUME Shows(cells, table, c) PROVE FALSE
      <3>1. cells[c] = x
        BY <1>9, <2>1, <2>2
      <3>2. x \in T
        BY <1>7, <2>2, <3>1, Zenon
      <3>. QED  BY <1>12, <3>2
    <2>. QED  BY <2>1, <2>2
  <1>13. \A x \in LogSet \ T : \A p \in T : x < p
    <2>1. ASSUME NEW x \in LogSet \ T, NEW p \in T PROVE x < p
      <3>1. PICK c \in Cells : /\ Shows(flash, bad, c) /\ flash[c] = x
                               /\ ~Shows(cells, table, c)
        BY <1>12, <2>1
      <3>2. PICK d \in Cells : Shows(cells, table, d) /\ p = cells[d]
        BY <1>7, <2>1
      <3>3. Earlier(wrapAddr, c, d) /\ Shows(flash, bad, d) /\ p = flash[d]
        BY <1>9, <3>1, <3>2
      <3>4. x <= p
        BY <1>1, <3>1, <3>3, Zenon DEF InOrder
      <3>5. x \in Nat /\ p \in Nat /\ x # p
        BY <2>1, <3>1, <3>3, PacketNumbers DEF Shows
      <3>. QED  BY <3>4, <3>5
    <2>. QED  BY <2>1
  <1>14. PICK n \in 0 .. Len(log) :
           /\ IsRead(SubSeq(log, n + 1, Len(log)), T)
           /\ \A k \in 1 .. n : log[k] \in LogSet \ T
    <2>1. PICK S : S = LogSet
      OBVIOUS
    <2>2. IsRead(log, S) /\ T \subseteq S /\ \A x \in S \ T : \A p \in T : x < p
      BY <1>1, <1>11, <1>13, <2>1
    <2>3. \E n \in 0 .. Len(log) :
             /\ IsRead(SubSeq(log, n + 1, Len(log)), T)
             /\ \A k \in 1 .. n : log[k] \in S \ T
      BY <2>2, ReadLess
    <2>. QED  BY <2>1, <2>3
  <1>15. PICK N \in Nat : N = Len(log)
    BY <1>1, ReadNumbers
  <1>16. PICK B : B = PerBlock(recorder)
    OBVIOUS
  <1>17. PICK P : P = PerPage(recorder)
    OBVIOUS
  <1>18. /\ recorder \in 1 .. PAGE /\ B \in Nat /\ P \in Nat /\ P <= B
         /\ LAST_BLOCK \in Nat \ {0} /\ LAST_BLOCK * B \in Nat
         /\ \A X : Lost(X) \in Nat /\ Lost(X) <= B
    BY <1>1, <1>16, <1>17, LogNumbers
  <1>. DEFINE Goal == /\ Enough(N - n, m.wrapAddr, HandleBadBlock(m.address, table), table)
                      /\ n # 0 => LAST_BLOCK * B <= N - n + 2 * B + P
  <1>19. ASSUME /\ m.erases = {} /\ failing = {} /\ m.wrapAddr = wrapAddr
                /\ m.address = address
                /\ address < RDU_LOG_ADDR_END /\ address # wrapAddr
         PROVE  Goal
    <2>1. cells = flash /\ table = bad
      BY <1>1, <1>5, <1>6, <1>19, IInvParts, WipedCells DEF FlashTypes, CellValues
    <2>2. n = 0
      <3>1. ASSUME n # 0 PROVE FALSE
        <4>1. 1 \in 1 .. n
          BY <1>15, <3>1
        <4>2. PICK c \in Cells : Shows(flash, bad, c) /\ ~Shows(cells, table, c)
          BY <1>12, <1>14, <4>1
        <4>. QED  BY <2>1, <4>2
      <3>. QED  BY <3>1
    <2>3. Enough(Len(log), wrapAddr, HandleBadBlock(address, bad), bad)
      BY <1>2, <1>19, SkipEnough
    <2>4. N - n = Len(log)
      BY <1>15, <2>2
    <2>. QED  BY <1>19, <2>1, <2>2, <2>3, <2>4
  <1>20. ASSUME NEW from \in LogBlocks, NEW to \in LogBlocks,
                /\ from <= to /\ to \notin table
                /\ \A g \in from .. to - 1 : g \in table
                /\ failing \subseteq from .. to
                /\ m.erases = {to} /\ m.wrapAddr = (to + 1) * BLOCK
                /\ m.address = to * BLOCK
                /\ \/ RDU_LOG_ADDR_END <= address /\ \A c \in Cells : ~Behind(wrapAddr, c)
                   \/ wrapAddr # 0 /\ wrapAddr = from * BLOCK /\ address = wrapAddr
         PROVE  Goal
    <2>1. PICK lb \in Nat : lb = Lost(bad)
      BY <1>18
    <2>2. PICK lf \in Nat : lf = Lost(failing)
      BY <1>18
    <2>3. PICK lt \in Nat : lt = Lost(table)
      BY <1>18
    <2>4. PICK A \in Nat : A = LAST_BLOCK * B
      BY <1>18
    <2>5. A <= N + P + lb
      BY <1>2, <1>15, <1>16, <1>17, <1>20, <2>1, <2>4, FullBefore
    <2>6. n + (IF to = LAST_BLOCK THEN P ELSE 0) <= B + lf
      <3>1. /\ n \in Nat
            /\ \A j, k \in 1 .. n : j < k => log[j] < log[k]
        <4>1. \A j, k \in 1 .. Len(log) : j < k => log[j] < log[k]
          BY <1>1 DEF IsRead
        <4>. QED  BY <1>15, <4>1
      <3>2. ASSUME NEW k \in 1 .. n
            PROVE  \E c \in Cells : /\ Shows(flash, bad, c) /\ flash[c] = log[k]
                                    /\ BlockOf(c) = to \/ BlockOf(c) \in failing
        <4>1. PICK c \in Cells : /\ Shows(flash, bad, c) /\ flash[c] = log[k]
                                 /\ ~Shows(cells, table, c)
          BY <1>12, <1>14, <3>2
        <4>2. ASSUME BlockOf(c) # to, BlockOf(c) \notin failing PROVE FALSE
          <5>1. BlockOf(c) \notin m.erases
            BY <1>20, <4>2
          <5>2. cells[c] = flash[c]
            BY <1>6, <5>1, Zenon DEF Wiped
          <5>3. BlockOf(c) \notin table
            BY <1>5, <4>1, <4>2 DEF Shows
          <5>. QED  BY <4>1, <5>2, <5>3, Zenon DEF Shows
        <4>. QED  BY <4>1, <4>2
      <3>3. (\A c \in Cells : ~Behind(wrapAddr, c)) \/ (wrapAddr # 0 /\ wrapAddr = from * BLOCK)
        BY <1>20, Zenon
      <3>4. /\ to \notin bad \cup failing /\ \A g \in from .. to - 1 : g \in bad \cup failing
            /\ failing \subseteq from .. to /\ from <= to
        BY <1>5, <1>20, Zenon
      <3>. QED  BY <1>1, <1>16, <1>17, <2>2, <3>1, <3>2, <3>3, <3>4, DroppedFit, Zenon
    <2>7. lt = lb + lf /\ lb + lf <= B
      <3>1. CASE failing = {}
        <4>1. table = bad
          BY <1>5, <3>1
        <4>2. lf = 0
          BY <2>2, <3>1 DEF Lost
        <4>. QED  BY <1>18, <2>1, <2>3, <4>1, <4>2
      <3>2. CASE failing # {}
        <4>1. bad = {}
          BY <1>1, <3>2, FirstBad, Zenon
        <4>2. table = failing
          BY <1>5, <4>1
        <4>3. lb = 0
          BY <2>1, <4>1 DEF Lost
        <4>. QED  BY <1>18, <2>2, <2>3, <4>2, <4>3
      <3>. QED  BY <3>1, <3>2
    <2>8. A <= N - n + 2 * B + P
      <3>1. CASE to = LAST_BLOCK
        BY <1>15, <1>18, <2>5, <2>6, <2>7, <3>1
      <3>2. CASE to # LAST_BLOCK
        BY <1>15, <1>18, <2>5, <2>6, <2>7, <3>2
      <3>. QED  BY <3>1, <3>2
    <2>9. to \in Nat /\ BLOCK \in Nat \ {0} /\ (to + 1) * BLOCK \in Nat /\ (to + 1) * BLOCK # 0
      BY <1>1, WrapNumbers DEF LogBlocks
    <2>10. HandleBadBlock(m.address, table) = to * BLOCK
      <3>1. BlockOf(to * BLOCK) = to
        <4>1. /\ to * BLOCK \in Nat /\ (to + 1) * BLOCK = to * BLOCK + BLOCK
          BY <2>9
        <4>2. to * BLOCK <= to * BLOCK /\ to * BLOCK < (to + 1) * BLOCK
          BY <2>9, <4>1
        <4>. QED  BY <2>9, <4>1, <4>2, CellOfBlock
      <3>. QED  BY <1>20, <3>1 DEF HandleBadBlock
    <2>11. PICK x \in Nat : x = to * B
      BY <1>18, <2>9
    <2>12. Rank(recorder, to * BLOCK) = x
      BY <1>16, <1>18, <2>9, <2>11, RankOfBlock
    <2>13. A + x <= N - n + B + (IF to = LAST_BLOCK THEN 0 ELSE P) + lt + x
      <3>1. CASE to = LAST_BLOCK
        BY <1>15, <1>18, <2>5, <2>6, <2>7, <3>1
      <3>2. CASE to # LAST_BLOCK
        BY <1>15, <1>18, <2>5, <2>6, <2>7, <3>2
      <3>. QED  BY <3>1, <3>2
    <2>14. ASSUME NEW b \in LogBlocks, (to + 1) * BLOCK = (b + 1) * BLOCK PROVE b = to
      <3>1. PICK u \in Nat : u = to + 1
        BY <2>9
      <3>2. PICK v \in Nat : v = b + 1
        BY <1>18 DEF LogBlocks
      <3>3. u * BLOCK <= v * BLOCK /\ v * BLOCK <= u * BLOCK
        <4>1. u * BLOCK = v * BLOCK /\ u * BLOCK \in Nat
          BY <2>9, <2>14, <3>1, <3>2
        <4>. QED  BY <4>1
      <3>4. u <= v /\ v <= u
        BY <2>9, <3>3, Cancel
      <3>. QED  BY <1>18, <2>9, <3>1, <3>2, <3>4 DEF LogBlocks
    <2>15. Enough(N - n, (to + 1) * BLOCK, to * BLOCK, table)
      <3>1. ASSUME NEW b \in LogBlocks, (to + 1) * BLOCK = (b + 1) * BLOCK
            PROVE  LAST_BLOCK * PerBlock(recorder) + Rank(recorder, to * BLOCK)
                     <= N - n + PerBlock(recorder)
                          + (IF b = LAST_BLOCK THEN 0 ELSE PerPage(recorder))
                          + Lost(table) + b * PerBlock(recorder)
        <4>1. b = to
          BY <2>14, <3>1
        <4>. QED  BY <1>16, <1>17, <2>3, <2>4, <2>11, <2>12, <2>13, <4>1
      <3>. QED  BY <2>9, <3>1, Zenon DEF Enough
    <2>. QED  BY <1>20, <2>4, <2>8, <2>10, <2>15
  <1>21. Goal
    <2>1. \/ \E from, to \in LogBlocks :
               /\ from <= to /\ to \notin table
               /\ \A g \in from .. to - 1 : g \in table
               /\ failing \subseteq from .. to
               /\ m.erases = {to} /\ m.wrapAddr = (to + 1) * BLOCK
               /\ m.address = to * BLOCK
               /\ \/ RDU_LOG_ADDR_END <= address /\ \A c \in Cells : ~Behind(wrapAddr, c)
                  \/ wrapAddr # 0 /\ wrapAddr = from * BLOCK /\ address = wrapAddr
          \/ /\ m.erases = {} /\ failing = {} /\ m.wrapAddr = wrapAddr
             /\ m.address = address
             /\ address < RDU_LOG_ADDR_END /\ address # wrapAddr
      BY <1>1, <1>2, <1>4, <1>5, <1>8, RunBlocks, Zenon
    <2>. QED  BY <1>19, <1>20, <2>1, Zenon
  <1>. QED  BY <1>8, <1>14, <1>15, <1>16, <1>17, <1>21, Zenon

-----------------------------------------------------------------------------
(* What is left is no less than KEEP.                                      *)

LEMMA BelowZero ==
  ASSUME NEW x \in Int, x < 0, NEW d \in Nat \ {0}
  PROVE  x \div d < 0
  <1>. DEFINE q == x \div d
              r == x % d
  <1>1. q \in Int /\ r \in 0 .. d - 1 /\ x = d * q + r
    OBVIOUS
  <1>. HIDE DEF q, r
  <1>2. ~(q >= 0)
    <2>1. q >= 0 => d * q >= 0
      BY <1>1
    <2>. QED  BY <1>1, <2>1
  <1>3. q < 0
    BY <1>1, <1>2
  <1>. QED  BY <1>3 DEF q

\* A long packet needs no less room than a short one.
LEMMA LongPerPage ==
  ASSUME NEW size \in {SHORT_PACKET, LONG_PACKET}
  PROVE  \E l \in Nat \ {0} : PAGE = l * LONG_PACKET /\ l <= PerPage(size)
  <1>1. PICK l \in Nat \ {0} : PAGE = l * LONG_PACKET
    BY Geometry
  <1>2. size \in 1 .. PAGE /\ LONG_PACKET \in 1 .. PAGE /\ size <= LONG_PACKET
    BY LogMachineAssumption, KeepAssumption
  <1>3. PICK p \in Nat : p = PerPage(size) /\ PAGE < (p + 1) * size
    BY <1>2, PageNumbers
  <1>4. size \in Nat \ {0} /\ LONG_PACKET \in Nat \ {0} /\ PAGE \in Nat
    BY <1>2, PageNumbers
  <1>5. l * size <= PAGE /\ l * size \in Nat /\ (p + 1) * size \in Nat
    <2>1. size * l <= LONG_PACKET * l
      BY <1>2, <1>4, Times
    <2>2. size * l = l * size /\ LONG_PACKET * l = l * LONG_PACKET
      BY <1>4
    <2>. QED  BY <1>1, <1>4, <2>1, <2>2
  <1>6. l * size < (p + 1) * size
    BY <1>3, <1>4, <1>5
  <1>7. l < p + 1
    BY <1>4, <1>6, Cancel
  <1>. QED  BY <1>1, <1>3, <1>7

LEMMA KeepIs ==
  ASSUME NEW size \in {SHORT_PACKET, LONG_PACKET}, NEW m \in Nat,
         LAST_BLOCK * PerBlock(size) <= m + 2 * PerBlock(size) + PerPage(size)
  PROVE  m >= KEEP
  <1>1. PICK l \in Nat \ {0} : PAGE = l * LONG_PACKET /\ l <= PerPage(size)
    BY LongPerPage
  <1>2. PICK n \in Nat \ {0} : BLOCK = n * PAGE
    BY Geometry
  <1>3. /\ PAGE \in Nat \ {0} /\ LONG_PACKET \in Nat \ {0} /\ LAST_BLOCK \in Nat
        /\ size \in 1 .. PAGE /\ BLOCK \in Nat \ {0}
    BY LogMachineAssumption
  <1>4. PICK p \in Nat \ {0} : p = PerPage(size)
    BY <1>3, PageNumbers
  <1>5. PerBlock(size) = n * p
    <2>1. (n * PAGE + 0) \div PAGE = n
      BY <1>3, Quotient
    <2>2. n * PAGE + 0 = BLOCK
      BY <1>2, <1>3
    <2>. QED  BY <1>4, <2>1, <2>2 DEF PerBlock
  <1>6. PICK x \in Int : x = (LAST_BLOCK - 2) * BLOCK - 2 * PAGE
    BY <1>3
  <1>7. KEEP = x \div LONG_PACKET
    BY <1>6 DEF KEEP
  <1>8. CASE x < 0
    BY <1>3, <1>7, <1>8, BelowZero
  <1>9. CASE x >= 0
    <2>1. ASSUME LAST_BLOCK <= 2 PROVE FALSE
      <3>1. (LAST_BLOCK - 2) * BLOCK <= 0
        BY <1>3, <2>1
      <3>. QED  BY <1>3, <1>6, <1>9, <3>1
    <2>2. PICK k \in Nat \ {0} : k = LAST_BLOCK - 2
      BY <1>3, <2>1
    <2>3. PICK B \in Nat : B = n * p
      OBVIOUS
    <2>4. PICK Q \in Nat : Q = n * l
      OBVIOUS
    <2>5. PICK z \in Int : z = k * Q - 2 * l
      OBVIOUS
    <2>6. x = z * LONG_PACKET
      <3>1. BLOCK = Q * LONG_PACKET
        <4>1. n * (l * LONG_PACKET) = (n * l) * LONG_PACKET
          BY <1>3
        <4>. QED  BY <1>1, <1>2, <2>4, <4>1
      <3>2. k * (Q * LONG_PACKET) = (k * Q) * LONG_PACKET
        BY <1>3
      <3>3. 2 * (l * LONG_PACKET) = (2 * l) * LONG_PACKET
        BY <1>3
      <3>4. x = (k * Q) * LONG_PACKET - (2 * l) * LONG_PACKET
        BY <1>1, <1>6, <2>2, <3>1, <3>2, <3>3
      <3>5. PICK u \in Nat : u = k * Q
        OBVIOUS
      <3>6. PICK v \in Nat : v = 2 * l
        OBVIOUS
      <3>7. u * LONG_PACKET - v * LONG_PACKET = (u - v) * LONG_PACKET
        BY <1>3
      <3>. QED  BY <2>5, <3>4, <3>5, <3>6, <3>7
    <2>7. z >= 0
      <3>1. z < 0 => z * LONG_PACKET < 0
        BY <1>3
      <3>. QED  BY <1>9, <2>5, <2>6, <3>1
    <2>8. KEEP = z
      <3>1. z \in Nat
        BY <2>5, <2>7
      <3>2. (z * LONG_PACKET + 0) \div LONG_PACKET = z
        BY <1>3, <3>1, Quotient
      <3>3. z * LONG_PACKET + 0 = x
        BY <1>3, <2>6, <3>1
      <3>. QED  BY <1>7, <3>2, <3>3
    <2>9. PICK d \in Nat : p = l + d
      BY <1>1, <1>4
    <2>10. B = Q + n * d /\ n * d \in Nat
      <3>1. n * (l + d) = n * l + n * d
        OBVIOUS
      <3>. QED  BY <2>3, <2>4, <2>9, <3>1
    <2>11. d <= n * d
      <3>1. 1 * d <= n * d /\ 1 * d = d
        BY Times
      <3>. QED  BY <3>1
    <2>12. PICK e \in Nat : e = n * d
      BY <2>10
    <2>13. k * B = k * Q + k * e /\ k * Q \in Nat /\ k * e \in Nat
      <3>1. k * (Q + e) = k * Q + k * e
        OBVIOUS
      <3>2. B = Q + e
        BY <2>10, <2>12
      <3>. QED  BY <3>1, <3>2
    <2>14. e <= k * e
      <3>1. 1 * e <= k * e /\ 1 * e = e
        BY Times
      <3>. QED  BY <3>1
    <2>15. LAST_BLOCK * B = k * B + 2 * B
      <3>1. LAST_BLOCK = k + 2
        BY <1>3, <2>2
      <3>2. (k + 2) * B = k * B + 2 * B
        OBVIOUS
      <3>. QED  BY <3>1, <3>2
    <2>16. k * B + 2 * B <= m + 2 * B + p
      BY <1>4, <1>5, <2>3, <2>15
    <2>17. k * B <= m + p
      <3>1. k * B \in Nat /\ 2 * B \in Nat
        OBVIOUS
      <3>. QED  BY <2>16, <3>1
    <2>18. PICK f \in Nat : f = k * Q
      BY <2>13
    <2>19. PICK g \in Nat : g = k * e
      BY <2>13
    <2>20. f + g <= m + p
      BY <2>13, <2>17, <2>18, <2>19
    <2>21. d <= g
      BY <2>11, <2>12, <2>14, <2>19
    <2>22. f - 2 * l <= m
      BY <2>9, <2>20, <2>21
    <2>. QED  BY <2>5, <2>8, <2>18, <2>22
  <1>. QED  BY <1>6, <1>8, <1>9

-----------------------------------------------------------------------------
(* The steps, as the log of PacketLog takes them.                          *)

LEMMA NoneForgotten ==
  ASSUME NEW L \in Seq(Packets)
  PROVE  SubSeq(L, 0 + 1, Len(L)) = L
  OBVIOUS

\* Nothing is shown, nothing is read.
LEMMA NothingRead ==
  ASSUME NEW L, IsRead(L, {})
  PROVE  L = <<>>
  <1>1. L \in Seq(Packets) /\ \A k \in 1 .. Len(L) : FALSE
    BY DEF IsRead
  <1>2. Len(L) = 0
    <2>1. ASSUME Len(L) # 0 PROVE FALSE
      <3>1. 1 \in 1 .. Len(L)
        BY <1>1, <2>1
      <3>. QED  BY <1>1, <3>1
    <2>. QED  BY <2>1
  <1>. QED  BY <1>1, <1>2

LEMMA PackRun ==
  ASSUME PackIInv, Run, UNCHANGED <<recorder, sent>>, faults' \subseteq Harmless,
         IsRead(log', LogSet'), cleared' = cleared
  PROVE  LongEnough' /\ Promise!Forget
  <1>1. IsRead(log, LogSet) /\ ReaderIInv
    BY DEF PackIInv
  <1>2. PICK n \in 0 .. Len(log) :
           /\ IsRead(SubSeq(log, n + 1, Len(log)), LogSet')
           /\ Enough(Len(log) - n, wrapAddr', address', bad')
           /\ n # 0 => LAST_BLOCK * PerBlock(recorder)
                         <= Len(log) - n + 2 * PerBlock(recorder) + PerPage(recorder)
    BY RunForgets, Zenon
  <1>3. log' = SubSeq(log, n + 1, Len(log))
    BY <1>2, SameRead, Zenon
  <1>4. PICK N \in Nat : N = Len(log)
    BY <1>1, ReadNumbers
  <1>5. Len(log') = Len(log) - n /\ N - n \in Nat
    <2>1. log \in Seq(Packets)
      BY <1>1 DEF IsRead
    <2>. QED  BY <1>3, <1>4, <2>1
  <1>6. ASSUME n # 0 PROVE Len(log) - n >= KEEP
    <2>1. recorder \in {SHORT_PACKET, LONG_PACKET}
      BY <1>1, IInvParts DEF ReaderIInv, FlashTypes
    <2>2. PICK m \in Nat : m = Len(log) - n
      BY <1>4, <1>5
    <2>3. LAST_BLOCK * PerBlock(recorder) <= m + 2 * PerBlock(recorder) + PerPage(recorder)
      BY <1>2, <1>6, <2>2, Zenon
    <2>4. m >= KEEP
      BY <2>1, <2>3, KeepIs
    <2>. QED  BY <2>2, <2>4
  <1>7. Promise!Forget
    <2>1. n = 0 \/ Len(log) - n >= KEEP
      BY <1>6
    <2>. QED  BY <1>3, <2>1, Zenon DEF Promise!Forget, Promise!MayForget, Promise!From
  <1>8. LongEnough'
    <2>1. recorder' = recorder
      BY Zenon
    <2>2. Enough(Len(log'), wrapAddr', address', bad')
      BY <1>2, <1>5, Zenon
    <2>. QED  BY <2>1, <2>2, Zenon DEF LongEnough, Enough, Lost, LogBlocks, PerBlock, PerPage, Rank
  <1>. QED  BY <1>7, <1>8

\* The packet to be confirmed is the newest.
LEMMA NewestWritten ==
  ASSUME ReaderIInv, machState = "CONFIRM"
  PROVE  /\ TempDataBuf \in Packets
         /\ AllShown = LogSet \cup {TempDataBuf}
         /\ \A x \in LogSet : x < TempDataBuf
  <1>1. PICK p : p = TempDataBuf
    OBVIOUS
  <1>2. /\ p \in Packets /\ IsAt(flash, bad, p, address, recorder)
        /\ \A c \in Cells : Shows(flash, bad, c) => flash[c] <= p
    BY <1>1 DEF ReaderIInv, WrittenLast
  <1>3. PICK b \in LogBlocks : InBlock(address, b, recorder)
    BY Zenon DEF ReaderIInv, PlaceIsTaken
  <1>4. recorder \in 1 .. PAGE
    BY IInvParts, LogMachineAssumption DEF ReaderIInv, FlashTypes
  <1>5. PICK a \in Cells : Shows(flash, bad, a) /\ flash[a] = p
    <2>1. address \in address .. address + recorder - 1
      BY <1>4, WrapNumbers DEF ReaderIInv
    <2>2. address \in Cells
      BY <1>3, <1>4, <2>1, PlaceCells
    <2>. QED  BY <1>2, <2>1, <2>2 DEF IsAt
  <1>6. p \in AllShown
    BY <1>5, Zenon DEF AllShown
  <1>7. LogSet = AllShown \ {p}
    BY <1>1 DEF LogSet
  <1>8. ASSUME NEW x \in LogSet PROVE x < p
    <2>1. x \in AllShown /\ x # p
      BY <1>7, <1>8
    <2>2. PICK c \in Cells : Shows(flash, bad, c) /\ x = flash[c]
      BY <2>1, Zenon DEF AllShown
    <2>3. x <= p /\ x \in Nat /\ p \in Nat
      BY <1>2, <2>2, PacketNumbers DEF Shows
    <2>. QED  BY <2>1, <2>3
  <1>. QED  BY <1>1, <1>2, <1>6, <1>7, <1>8

LEMMA PackConfirm ==
  ASSUME PackIInv, Confirm, UNCHANGED <<recorder, sent>>,
         IsRead(log', LogSet'), cleared' = cleared
  PROVE  LongEnough' /\ \E p \in Packets : Promise!Record(p)
  <1>1. /\ IsRead(log, LogSet) /\ ReaderIInv /\ LogIInv /\ Above
        /\ PlaceIsTaken /\ WrittenLast /\ FlagsAgree
    BY IInvParts DEF PackIInv, ReaderIInv
  <1>2. /\ machState = "CONFIRM" /\ machState' = "RUN"
        /\ UNCHANGED <<flash, bad, wrapAddr>>
        /\ address' = LogIncrementAddress(address)
    BY Zenon DEF Confirm
  <1>3. PICK p : p = TempDataBuf
    OBVIOUS
  <1>4. /\ p \in Packets /\ IsAt(flash, bad, p, address, recorder)
        /\ \A c \in Cells : Shows(flash, bad, c) => flash[c] <= p
    BY <1>1, <1>2, <1>3 DEF WrittenLast
  <1>5. PICK b \in LogBlocks :
          InBlock(address, b, recorder) /\ (wrapAddr # 0 => wrapAddr = (b + 1) * BLOCK)
    BY <1>1, <1>2, Zenon DEF PlaceIsTaken
  <1>6. recorder \in 1 .. PAGE
    BY <1>1, LogNumbers
  <1>7. PICK a \in Cells : a = address /\ Shows(flash, bad, a) /\ flash[a] = p
    <2>1. address \in address .. address + recorder - 1
      BY <1>1, <1>6, WrapNumbers, PageNumbers
    <2>2. address \in Cells
      BY <1>5, <1>6, <2>1, PlaceCells
    <2>. QED  BY <1>4, <2>1, <2>2 DEF IsAt
  <1>8. LogSet' = AllShown
    BY <1>2, Zenon DEF LogSet, AllShown, Shows, BlockOf, Cells, Packets
  <1>9. LogSet' = LogSet \cup {p}
    BY <1>1, <1>2, <1>3, <1>8, NewestWritten, Zenon
  <1>10. \A x \in LogSet : x < p
    BY <1>1, <1>2, <1>3, NewestWritten, Zenon
  <1>11. IsRead(Append(log, p), LogSet \cup {p})
    BY <1>1, <1>4, <1>10, ReadOn
  <1>12. log' = Append(log, p)
    BY <1>9, <1>11, SameRead, Zenon
  <1>13. log \in Seq(Packets) /\ \A k \in 1 .. Len(log) : log[k] \in LogSet
    BY <1>1 DEF IsRead
  <1>14. PICK N \in Nat : N = Len(log)
    BY <1>1, ReadNumbers
  <1>15. Len(log') = N + 1
    BY <1>12, <1>13, <1>14
  <1>16. Promise!Record(p)
    <2>1. p > cleared
      BY <1>1, <1>7 DEF Above
    <2>2. \A k \in 1 .. Len(log) : log[k] < p
      BY <1>10, <1>13
    <2>3. log' = Append(SubSeq(log, 0 + 1, Len(log)), p)
      BY <1>12, <1>13, NoneForgotten
    <2>4. 0 \in 0 .. Len(log)
      BY <1>14
    <2>5. \E n \in 0 .. Len(log) : Promise!MayForget(n) /\ log' = Append(Promise!From(n), p)
      BY <2>3, <2>4, Zenon DEF Promise!MayForget, Promise!From
    <2>. QED  BY <2>1, <2>2, <2>5, Zenon DEF Promise!Record
  <1>17. Enough(Len(log'), wrapAddr, address', bad)
    <2>1. logReady /\ packetSize = recorder
      BY <1>1, <1>2 DEF FlagsAgree
    <2>2. packetSize \in {SHORT_PACKET, LONG_PACKET}
      BY <1>1, <2>1, IInvParts DEF FlashTypes
    <2>3. /\ Rank(recorder, address') = Rank(recorder, address) + 1
          /\ address' \in Nat /\ address <= address'
      <3>1. b \in Nat
        BY BlockSums
      <3>2. /\ LogIncrementAddress(address) \in Nat
            /\ address + packetSize <= LogIncrementAddress(address)
        BY <1>5, <2>1, <2>2, <3>1, NextPlace
      <3>3. Rank(packetSize, LogIncrementAddress(address)) = Rank(packetSize, address) + 1
        BY <1>5, <2>1, <2>2, <3>1, RankNext
      <3>4. address \in Nat /\ recorder \in Nat
        BY <1>1, <1>6, WrapNumbers
      <3>. QED  BY <1>2, <2>1, <3>2, <3>3, <3>4
    <2>4. PICK r \in Nat : r = Rank(recorder, address)
      BY <1>1, <1>2, <1>6, AddressIsPlace, RankGrows
    <2>5. PICK B : B = PerBlock(recorder)
      OBVIOUS
    <2>6. PICK P : P = PerPage(recorder)
      OBVIOUS
    <2>7. /\ B \in Nat /\ P \in Nat /\ LAST_BLOCK * B \in Nat
          /\ \A X : Lost(X) \in Nat
          /\ \A X, Y : X \subseteq Y => Lost(X) <= Lost(Y)
      BY <1>1, <2>5, <2>6, LogNumbers
    <2>8. Enough(N, wrapAddr, address, bad)
      BY <1>2, <1>14, Zenon DEF PackIInv, LongEnough
    <2>9. CASE wrapAddr = 0
      <3>1. PICK X : X = {g \in bad : (g + 1) * BLOCK <= address}
        OBVIOUS
      <3>2. PICK Y : Y = {g \in bad : (g + 1) * BLOCK <= address'}
        OBVIOUS
      <3>3. X \subseteq Y
        <4>1. \A g \in bad : (g + 1) * BLOCK \in Nat
          BY <1>1, WrapNumbers, IInvParts DEF FlashTypes
        <4>2. address \in Nat
          BY <1>1, WrapNumbers
        <4>3. ASSUME NEW g \in bad, (g + 1) * BLOCK <= address PROVE (g + 1) * BLOCK <= address'
          <5>1. PICK e \in Nat : e = (g + 1) * BLOCK
            BY <4>1
          <5>. QED  BY <2>3, <4>2, <4>3, <5>1
        <4>. QED  BY <3>1, <3>2, <4>3
      <3>4. r <= N + B + Lost(X)
        BY <2>4, <2>5, <2>8, <2>9, <3>1, Zenon DEF Enough
      <3>5. Lost(X) <= Lost(Y) /\ Lost(X) \in Nat /\ Lost(Y) \in Nat
        BY <2>7, <3>3
      <3>6. r + 1 <= N + 1 + B + Lost(Y)
        BY <2>7, <3>4, <3>5
      <3>7. Rank(recorder, address') <= Len(log') + PerBlock(recorder) + Lost(Y)
        BY <1>15, <2>3, <2>4, <2>5, <3>6, Zenon
      <3>. QED  BY <2>9, <3>2, <3>7, Zenon DEF Enough
    <2>10. CASE wrapAddr # 0
      <3>1. ASSUME NEW g \in LogBlocks, wrapAddr = (g + 1) * BLOCK
            PROVE  LAST_BLOCK * PerBlock(recorder) + Rank(recorder, address')
                     <= Len(log') + PerBlock(recorder)
                          + (IF g = LAST_BLOCK THEN 0 ELSE PerPage(recorder))
                          + Lost(bad) + g * PerBlock(recorder)
        <4>1. LAST_BLOCK * B + r <= N + B + (IF g = LAST_BLOCK THEN 0 ELSE P) + Lost(bad) + g * B
          BY <2>4, <2>5, <2>6, <2>8, <2>10, <3>1, Zenon DEF Enough
        <4>2. PICK x \in Nat : x = g * B
          BY <2>7 DEF LogBlocks
        <4>3. PICK y \in Nat : y = LAST_BLOCK * B
          BY <2>7
        <4>4. PICK z \in Nat : z = (IF g = LAST_BLOCK THEN 0 ELSE P)
          BY <2>7
        <4>5. Lost(bad) \in Nat
          BY <2>7
        <4>6. y + (r + 1) <= (N + 1) + B + z + Lost(bad) + x
          BY <2>7, <4>1, <4>2, <4>3, <4>4, <4>5
        <4>7. Rank(recorder, address') = r + 1
          BY <2>3, <2>4
        <4>. QED  BY <1>15, <2>5, <2>6, <4>2, <4>3, <4>4, <4>6, <4>7
      <3>. QED  BY <2>10, <3>1, Zenon DEF Enough
    <2>. QED  BY <2>9, <2>10
  <1>18. LongEnough'
    <2>1. recorder' = recorder
      BY Zenon
    <2>. QED  BY <1>2, <1>17, <2>1, Zenon
              DEF LongEnough, Enough, Lost, LogBlocks, PerBlock, PerPage, Rank
  <1>. QED  BY <1>4, <1>16, <1>18

LEMMA PackIdle ==
  ASSUME PackIInv, Idle, UNCHANGED <<recorder, sent>>, IsRead(log', LogSet')
  PROVE  LongEnough' /\ log' = log
  <1>1. /\ IsRead(log, LogSet) /\ ReaderIInv /\ LogIInv /\ BadOnce
        /\ machState = "IDLE" /\ machState' = "RUN"
        /\ UNCHANGED <<flash, bad>>
    BY Zenon DEF PackIInv, ReaderIInv, Idle
  <1>2. /\ wrapAddr = 0
        /\ \A c \in Cells : ~Shows(flash, bad, c)
        /\ \A b \in LogBlocks \ bad : b \in OpenBlocks /\ IsErased(b * BLOCK)
        /\ OpenBlocks # {}
    BY <1>1, IdleIsEmpty
  <1>3. log = <<>> /\ log' = <<>>
    <2>1. AllShown = {}
      BY <1>2, Zenon DEF AllShown
    <2>2. LogSet = {} /\ LogSet' = {}
      BY <1>1, <2>1, Zenon DEF LogSet, AllShown, Shows, BlockOf, Cells, Packets
    <2>. QED  BY <1>1, <2>2, NothingRead, Zenon
  <1>4. PICK b : b = Min(OpenBlocks)
    OBVIOUS
  <1>5. LAST_BLOCK \in Nat \ {0} /\ LAST_BLOCK \in LogBlocks /\ LAST_BLOCK \notin bad
    BY <1>1, LogMachineAssumption DEF LogIInv, LogBlocks
  <1>6. b \in LogBlocks \ bad /\ b \in Nat /\ \A g \in LogBlocks \ bad : b <= g
    <2>1. OpenBlocks \subseteq Nat /\ OpenBlocks \subseteq LogBlocks \ bad
      BY DEF OpenBlocks, LogBlocks
    <2>2. b \in OpenBlocks /\ \A y \in OpenBlocks : b <= y
      BY <1>2, <1>4, <2>1, LeastOf
    <2>. QED  BY <1>2, <2>1, <2>2
  <1>7. address' = b * BLOCK /\ wrapAddr' = 0
    <2>1. IsErased(b * BLOCK)
      BY <1>2, <1>6
    <2>2. LogFindEndOfMemory = [address |-> b * BLOCK, wrapAddr |-> wrapAddr, at |-> b * BLOCK]
      BY <1>4, <2>1, Zenon DEF LogFindEndOfMemory
    <2>3. /\ address' = LogFindEndOfMemory.address
          /\ wrapAddr' = LogFindEndOfMemory.wrapAddr
      BY Zenon DEF Idle
    <2>. QED  BY <1>2, <2>2, <2>3
  <1>8. PICK B : B = PerBlock(recorder)
    OBVIOUS
  <1>9. B \in Nat /\ recorder \in 1 .. PAGE /\ \A X : Lost(X) \in Nat
    BY <1>1, <1>8, LogNumbers
  <1>10. Rank(recorder, b * BLOCK) = b * B
    BY <1>6, <1>8, <1>9, RankOfBlock
  <1>11. Rank(recorder, b * BLOCK)
           <= Len(log') + B + Lost({g \in bad : (g + 1) * BLOCK <= b * BLOCK})
    <2>1. Len(log') = 0
      BY <1>3
    <2>2. CASE b = 1
      BY <1>9, <1>10, <2>1, <2>2
    <2>3. CASE b # 1
      <3>1. 1 \in bad
        <4>1. ASSUME 1 \notin bad PROVE FALSE
          <5>1. 1 \in LogBlocks \ bad
            BY <1>5, <4>1 DEF LogBlocks
          <5>. QED  BY <1>6, <2>3, <5>1 DEF LogBlocks
        <4>. QED  BY <4>1
      <3>2. bad = {1}
        <4>1. PICK g \in LogBlocks : bad = {g}
          BY <1>1, <3>1, Zenon DEF BadOnce
        <4>. QED  BY <3>1, <4>1
      <3>3. b = 2
        <4>1. 2 \in LogBlocks \ bad
          BY <1>5, <3>2 DEF LogBlocks
        <4>. QED  BY <1>6, <2>3, <4>1 DEF LogBlocks
      <3>. DEFINE X == {g \in bad : (g + 1) * BLOCK <= b * BLOCK}
      <3>4. X = {1}
        <4>1. (1 + 1) * BLOCK <= 2 * BLOCK
          BY <1>1, WrapNumbers
        <4>. QED  BY <3>2, <3>3, <4>1
      <3>5. Lost({1}) = B
        BY <1>8 DEF Lost
      <3>6. b * B = B + B
        BY <1>9, <3>3
      <3>7. Rank(recorder, b * BLOCK) <= 0 + B + B
        BY <1>9, <1>10, <3>6
      <3>. HIDE DEF X
      <3>8. Rank(recorder, b * BLOCK) <= Len(log') + B + Lost(X)
        BY <2>1, <3>4, <3>5, <3>7, Zenon
      <3>. QED  BY <3>8 DEF X
    <2>. QED  BY <2>2, <2>3
  <1>12. LongEnough'
    <2>1. Enough(Len(log'), 0, b * BLOCK, bad)
      BY <1>8, <1>11, Zenon DEF Enough
    <2>2. recorder' = recorder
      BY Zenon
    <2>. QED  BY <1>1, <1>7, <2>1, <2>2, Zenon
              DEF LongEnough, Enough, Lost, LogBlocks, PerBlock, PerPage, Rank
  <1>. QED  BY <1>3, <1>12

LEMMA PackErase ==
  ASSUME PackIInv, Erase, UNCHANGED <<recorder, sent>>, ReaderIInv',
         IsRead(log', LogSet'), cleared' = sent
  PROVE  LongEnough' /\ Above' /\ Promise!Clear
  <1>1. /\ IsRead(log, LogSet) /\ ReaderIInv /\ LogIInv /\ Above
        /\ machState' = "IDLE" /\ queue' = <<>> /\ sent' = sent
        /\ FlashIsSound(flash, bad, wrapAddr, sent, recorder)
    BY Zenon DEF PackIInv, ReaderIInv, OrderIInv, Erase, InitLog
  <1>2. (\A c \in Cells : ~Shows(flash, bad, c))'
    <2>1. (LogIInv /\ machState = "IDLE" => \A c \in Cells : ~Shows(flash, bad, c))'
      BY IdleIsEmpty, PTL
    <2>. QED  BY <1>1, <2>1, Zenon DEF ReaderIInv
  <1>3. log' = <<>>
    <2>1. AllShown' = {}
      BY <1>2, Zenon DEF AllShown
    <2>2. LogSet' = {}
      BY <1>1, <2>1, Zenon DEF LogSet
    <2>. QED  BY <2>2, NothingRead, Zenon
  <1>4. sent \in 0 .. MAX_PACKETS
    BY <1>1, IInvParts, Zenon DEF FlashTypes
  <1>5. Above'
    <2>1. cleared' \in 0 .. sent'
      BY <1>1, <1>4
    <2>2. \A k \in 1 .. Len(queue') : FALSE
      BY <1>1
    <2>3. Packets' = Packets /\ Cells' = Cells
      BY Zenon DEF Packets, Cells
    <2>. QED  BY <1>2, <2>1, <2>2, Zenon DEF Above
  <1>6. LongEnough'
    BY <1>1, Zenon DEF LongEnough
  <1>7. Promise!Clear
    <2>1. sent \in Packets \cup {0} /\ sent >= cleared
      BY <1>1, <1>4, PacketNumbers DEF Above
    <2>2. ASSUME NEW k \in 1 .. Len(log) PROVE log[k] <= sent
      <3>1. log[k] \in LogSet
        BY <1>1, <2>2 DEF IsRead
      <3>2. log[k] \in AllShown
        BY <3>1 DEF LogSet
      <3>3. PICK c \in Cells : Shows(flash, bad, c) /\ log[k] = flash[c]
        BY <3>2, Zenon DEF AllShown
      <3>. QED  BY <1>1, <3>3, Zenon DEF FlashIsSound
    <2>. QED  BY <1>3, <2>1, <2>2, Zenon DEF Promise!Clear
  <1>. QED  BY <1>5, <1>6, <1>7

\* Steps that leave the flash and the addresses as they are.
LEMMA PackQuiet ==
  ASSUME PackIInv, UNCHANGED <<flash, bad, address, wrapAddr, recorder>>,
         IsRead(log', LogSet'),
         \/ machState # "CONFIRM" /\ machState' # "CONFIRM"
         \/ UNCHANGED <<machState, TempDataBuf>>,
         machState = "IDLE" => machState' = "IDLE"
  PROVE  LongEnough' /\ log' = log
  <1>1. LogSet' = LogSet
    <2>1. AllShown' = AllShown
      BY Zenon DEF AllShown, Shows, BlockOf, Cells, Packets
    <2>. QED  BY <2>1, Zenon DEF LogSet
  <1>2. log' = log
    BY <1>1, SameRead, Zenon DEF PackIInv
  <1>3. LongEnough'
    BY <1>2, Zenon DEF PackIInv, LongEnough, Enough, Lost, LogBlocks, PerBlock, PerPage, Rank
  <1>. QED  BY <1>2, <1>3

\* What is shown comes from what was shown or queued.
LEMMA AboveKept ==
  ASSUME Above, ReaderIInv, Next, ~Erase, faults' \subseteq Harmless, cleared' = cleared
  PROVE  Above'
  <1>1. LogIInv /\ OrderIInv /\ FlashTypes /\ LogTypes /\ FlagsAgree
    BY IInvParts DEF ReaderIInv
  <1>2. /\ cleared \in 0 .. sent /\ sent \in Nat
        /\ \A k \in 1 .. Len(queue) : queue[k] \in Packets => queue[k] > cleared
        /\ \A c \in Cells : Shows(flash, bad, c) => flash[c] > cleared
    BY <1>1, PacketNumbers DEF Above, FlashTypes
  <1>3. queue \in Seq(QueueValues)
    BY <1>1, Zenon DEF LogTypes
  <1>. DEFINE Goal == /\ cleared \in 0 .. sent'
                      /\ \A k \in 1 .. Len(queue') : queue'[k] \in Packets => queue'[k] > cleared
                      /\ \A c \in Cells : Shows(flash', bad', c) => flash'[c] > cleared
  <1>4. ASSUME LogMachine PROVE Goal
    <2>1. UNCHANGED <<recorder, sent>>
      BY <1>4, Zenon DEF LogMachine
    <2>2. sent' = sent
      BY <2>1, Zenon
    <2>3. ASSUME Run PROVE Goal
      <3>1. /\ WrittenLast' /\ machState' \in {"RUN", "CONFIRM"}
            /\ queue' = queue \/ (queue # <<>> /\ queue' = Tail(queue))
            /\ machState' = "CONFIRM" => queue # <<>> /\ TempDataBuf' = Head(queue)
        BY <1>1, <2>1, <2>3, RunShows, Zenon
      <3>2. PICK failing \in FailingErases :
              LET m     == LogManageAddresses(failing)
                  table == bad \cup failing
                  cells == Wiped(flash, m.erases)
              IN  /\ failing \subseteq m.tried
                  /\ LogSet' = {cells[c] : c \in {d \in Cells : Shows(cells, table, d)}}
        BY <1>1, <2>1, <2>3, RunShows, Zenon
      <3>3. machState = "RUN" /\ packetSize = recorder
        BY <1>1, <2>3, RunParts, Zenon DEF FlagsAgree
      <3>4. ASSUME NEW x \in LogSet' PROVE x > cleared
        <4>1. PICK table : table = bad \cup failing
          OBVIOUS
        <4>2. PICK cells : cells = Wiped(flash, LogManageAddresses(failing).erases)
          OBVIOUS
        <4>3. PICK c \in Cells : Shows(cells, table, c) /\ x = cells[c]
          BY <3>2, <3>4, <4>1, <4>2
        <4>4. \A d \in Cells : Shows(cells, table, d) => Shows(flash, bad, d) /\ cells[d] = flash[d]
          BY <1>1, <3>2, <3>3, <4>1, <4>2, RunCells, Zenon
        <4>. QED  BY <1>2, <4>3, <4>4
      <3>5. ASSUME NEW c \in Cells, Shows(flash', bad', c) PROVE flash'[c] > cleared
        <4>1. flash'[c] \in AllShown'
          BY <3>5, Zenon DEF AllShown, Shows, BlockOf, Cells, Packets
        <4>2. CASE flash'[c] \in LogSet'
          BY <3>4, <4>2
        <4>3. CASE flash'[c] \notin LogSet'
          <5>1. machState' = "CONFIRM" /\ flash'[c] = TempDataBuf'
            BY <4>1, <4>3, Zenon DEF LogSet
          <5>2. queue # <<>> /\ flash'[c] = Head(queue)
            BY <3>1, <5>1
          <5>3. flash'[c] \in Packets
            BY <3>5, Zenon DEF Shows
          <5>4. 1 \in 1 .. Len(queue) /\ Head(queue) = queue[1]
            BY <1>3, <5>2, TailPackets
          <5>. QED  BY <1>2, <5>2, <5>3, <5>4
        <4>. QED  BY <4>2, <4>3
      <3>6. ASSUME NEW k \in 1 .. Len(queue'), queue'[k] \in Packets
            PROVE  queue'[k] > cleared
        <4>1. CASE queue' = queue
          BY <1>2, <3>6, <4>1
        <4>2. CASE queue # <<>> /\ queue' = Tail(queue)
          <5>1. PICK q : q = Tail(queue)
            OBVIOUS
          <5>2. k + 1 \in 1 .. Len(queue) /\ q[k] = queue[k + 1]
            BY <1>3, <3>6, <4>2, <5>1, TailPackets
          <5>. QED  BY <1>2, <3>6, <4>2, <5>1, <5>2
        <4>. QED  BY <3>1, <4>1, <4>2
      <3>. QED  BY <1>2, <2>2, <3>5, <3>6
    <2>4. ASSUME Idle PROVE Goal
      <3>1. /\ Len(queue') = Len(queue) /\ UNCHANGED <<flash, bad>>
            /\ \A k \in 1 .. Len(queue') : queue'[k] \in Packets => queue'[k] = queue[k]
        BY <1>1, <2>4, IdleQueue, Zenon
      <3>2. flash' = flash /\ bad' = bad
        BY <3>1, Zenon
      <3>. QED  BY <1>2, <2>2, <3>1, <3>2
    <2>5. ASSUME RunErase \/ RunNothing \/ Confirm PROVE Goal
      <3>1. flash' = flash /\ bad' = bad /\ queue' = queue
        BY <2>5, Zenon DEF RunErase, RunNothing, Confirm
      <3>. QED  BY <1>2, <2>2, <3>1
    <2>. QED  BY <1>1, <1>4, <2>3, <2>4, <2>5, Zenon DEF LogMachine, WriteFail, FlagsAgree
  <1>5. ASSUME NEW p, NEW kinds, Receive(p, kinds), sent' \in Nat, sent <= sent',
               p \in Packets => p > cleared
        PROVE  Goal
    <2>1. flash' = flash /\ bad' = bad
      BY <1>5, Zenon DEF Receive
    <2>2. queue' = Append(queue, p) \/ queue' = <<>>
      BY <1>5, Zenon DEF Receive
    <2>3. ASSUME NEW k \in 1 .. Len(queue'), queue'[k] \in Packets
          PROVE  queue'[k] > cleared
      <3>1. queue' = Append(queue, p)
        BY <2>2, <2>3
      <3>2. CASE k \in 1 .. Len(queue)
        BY <1>2, <1>3, <2>3, <3>1, <3>2
      <3>3. CASE k \notin 1 .. Len(queue)
        <4>1. queue'[k] = p
          BY <1>3, <2>3, <3>1, <3>3
        <4>. QED  BY <1>5, <2>3, <4>1
      <3>. QED  BY <3>2, <3>3
    <2>. QED  BY <1>2, <1>5, <2>1, <2>3
  <1>6. ASSUME ReceivePacket PROVE Goal
    <2>1. sent' = sent + 1 /\ Receive(sent', {})
      BY <1>6 DEF ReceivePacket
    <2>2. PICK p : p = sent'
      OBVIOUS
    <2>3. /\ Receive(p, {}) /\ p > cleared /\ sent' \in Nat /\ sent <= sent'
      BY <1>2, <2>1, <2>2
    <2>. QED  BY <1>5, <2>3, Zenon
  <1>7. ASSUME ReceiveGarbage PROVE Goal
    <2>1. PICK p : p = GARBAGE
      OBVIOUS
    <2>2. PICK kinds : Receive(p, kinds) /\ sent' = sent
      BY <1>7, <2>1, Zenon DEF ReceiveGarbage
    <2>3. sent' \in Nat /\ sent <= sent' /\ p \notin Packets
      BY <1>2, <2>1, <2>2, PacketNumbers
    <2>. QED  BY <1>5, <2>2, <2>3, Zenon
  <1>8. ASSUME EraseFlash PROVE Goal
    <2>1. flash' = flash /\ bad' = bad /\ queue' = queue /\ sent' = sent
      BY <1>8, Zenon DEF EraseFlash
    <2>. QED  BY <1>2, <2>1
  <1>9. ~(PowerFails \/ PowerFailsInside)
    BY <1>1, PowerHarms, Zenon DEF FlashTypes
  <1>10. Goal
    BY <1>4, <1>6, <1>7, <1>8, <1>9, Zenon DEF Next
  <1>. QED  BY <1>10, Zenon DEF Above, Shows, BlockOf, Cells, Packets

\* What a reader finds, and what it rests on.
ReadIInv == ReaderIInv /\ IsRead(log, LogSet)

LEMMA ReadInit ==
  ASSUME MCInit
  PROVE  ReadIInv
  <1>1. Init /\ log = <<>> /\ cleared = 0
    BY Zenon DEF MCInit
  <1>2. ReaderIInv /\ machState = "IDLE" /\ queue = <<>> /\ sent = 0 /\ bad = {}
    BY <1>1, ReaderInit, Zenon DEF Init
  <1>3. \A c \in Cells : ~Shows(flash, bad, c)
    BY <1>2, IdleIsEmpty DEF ReaderIInv
  <1>4. LogSet = {}
    <2>1. AllShown = {}
      BY <1>3, Zenon DEF AllShown
    <2>. QED  BY <1>2, <2>1, Zenon DEF LogSet
  <1>5. IsRead(log, LogSet)
    <2>1. log \in Seq(Packets) /\ Len(log) = 0
      BY <1>1
    <2>. QED  BY <1>4, <2>1 DEF IsRead
  <1>. QED  BY <1>2, <1>5, Zenon DEF ReadIInv

LEMMA PackInit ==
  ASSUME MCInit, MAX_BAD <= 1
  PROVE  PackIInv /\ Promise!LogInit
  <1>1. Init /\ log = <<>> /\ cleared = 0
    BY Zenon DEF MCInit
  <1>2. machState = "IDLE" /\ queue = <<>> /\ sent = 0 /\ bad = {}
    BY <1>1, Zenon DEF Init
  <1>3. ReaderIInv /\ IsRead(log, LogSet)
    BY ReadInit, Zenon DEF ReadIInv
  <1>4. \A c \in Cells : ~Shows(flash, bad, c)
    BY <1>2, <1>3, IdleIsEmpty DEF ReaderIInv
  <1>5. Above
    <2>1. cleared \in 0 .. sent /\ \A k \in 1 .. Len(queue) : FALSE
      BY <1>1, <1>2
    <2>. QED  BY <1>4, <2>1, Zenon DEF Above
  <1>6. BadOnce /\ LongEnough
    BY <1>2, Zenon DEF BadOnce, LongEnough
  <1>. QED  BY <1>1, <1>3, <1>5, <1>6, Zenon DEF PackIInv, Promise!LogInit

\* What is read after a step is what the flash shows then.
LEMMA ReadAfter ==
  ASSUME ReaderIInv', MCNext
  PROVE  IsRead(log', LogSet')
  <1>1. (ReaderIInv => \A info : \A order : info = LogInfo /\ order = ReadingOrder(info)
                                  => IsRead(PacketsRead(order), LogSet))'
    BY ReaderFinds, PTL
  <1>2. \E info \in {LogInfo'} :
           \E order \in {ReadingOrder(info)'} : log' = PacketsRead(order)'
    BY Zenon DEF MCNext
  <1>3. PICK info : /\ info = LogInfo'
                    /\ \E order \in {ReadingOrder(info)'} : log' = PacketsRead(order)'
    BY <1>2
  <1>4. PICK order : order = ReadingOrder(info)' /\ log' = PacketsRead(order)'
    BY <1>3
  <1>5. IsRead(PacketsRead(order), LogSet)'
    BY <1>1, <1>3, <1>4, Zenon
  <1>. QED  BY <1>4, <1>5, Zenon DEF IsRead, Packets

\* A step of the machine is a step of the log, or none.
LEMMA PackStep ==
  ASSUME PackIInv, MCNext, faults' \subseteq Harmless
  PROVE  PackIInv' /\ (Promise!LogNext \/ UNCHANGED <<log, cleared>>)
  <1>1. /\ ReaderIInv /\ LogIInv /\ Above /\ BadOnce /\ FlagsAgree
        /\ faults \subseteq UNION Faults /\ Next
    BY IInvParts, Zenon DEF PackIInv, ReaderIInv, MCNext, FlashTypes
  <1>2. ReaderIInv'
    BY <1>1, ReaderStep, Zenon
  <1>3. IsRead(log', LogSet')
    BY <1>2, ReadAfter, Zenon
  <1>4. cleared' = IF machState = "ERASE" /\ machState' = "IDLE" /\ faults' = faults
                   THEN sent ELSE cleared
    BY Zenon DEF MCNext
  <1>5. faults \subseteq faults'
    BY <1>1, FaultsStay, Zenon
  <1>6. BadOnce'
    <2>1. CASE Run
      BY <1>1, <2>1, RunBad, Zenon
    <2>2. CASE bad' = bad
      BY <1>1, <1>5, <2>2, Zenon DEF BadOnce, LogBlocks
    <2>3. Run \/ bad' = bad
      BY <1>1, Zenon DEF Next, LogMachine, Idle, RunErase, RunNothing, Confirm, WriteFail,
         Erase, ReceivePacket, ReceiveGarbage, Receive, EraseFlash, PowerFails,
         PowerFailsInside, Restart
    <2>. QED  BY <2>1, <2>2, <2>3
  <1>. DEFINE Goal == /\ LongEnough' /\ Above'
                      /\ Promise!LogNext \/ UNCHANGED <<log, cleared>>
  <1>7. ASSUME ~Erase, machState # "ERASE" \/ machState' # "IDLE"
        PROVE  cleared' = cleared /\ Above'
    <2>1. cleared' = cleared
      BY <1>4, <1>7, Zenon
    <2>. QED  BY <1>1, <1>7, <2>1, AboveKept, Zenon
  <1>8. ASSUME LogMachine PROVE Goal
    <2>1. UNCHANGED <<recorder, sent>>
      BY <1>8, Zenon DEF LogMachine
    <2>2. ASSUME Run PROVE Goal
      <3>1. machState = "RUN"
        BY <2>2, Zenon DEF Run
      <3>2. ~Erase /\ machState # "ERASE"
        BY <3>1 DEF Erase
      <3>3. cleared' = cleared /\ Above'
        BY <1>7, <3>2
      <3>4. LongEnough' /\ Promise!Forget
        BY <1>3, <2>1, <2>2, <3>3, PackRun, Zenon
      <3>. QED  BY <3>3, <3>4, Zenon DEF Promise!LogNext
    <2>3. ASSUME Confirm PROVE Goal
      <3>1. machState = "CONFIRM"
        BY <2>3, Zenon DEF Confirm
      <3>2. ~Erase /\ machState # "ERASE"
        BY <3>1 DEF Erase
      <3>3. cleared' = cleared /\ Above'
        BY <1>7, <3>2
      <3>4. LongEnough' /\ \E p \in Packets : Promise!Record(p)
        BY <1>3, <2>1, <2>3, <3>3, PackConfirm, Zenon
      <3>. QED  BY <3>3, <3>4, Zenon DEF Promise!LogNext
    <2>4. ASSUME Idle PROVE Goal
      <3>1. machState = "IDLE"
        BY <2>4, Zenon DEF Idle
      <3>2. ~Erase /\ machState # "ERASE"
        BY <3>1 DEF Erase
      <3>3. cleared' = cleared /\ Above'
        BY <1>7, <3>2
      <3>4. LongEnough' /\ log' = log
        BY <1>3, <2>1, <2>4, PackIdle, Zenon
      <3>. QED  BY <3>3, <3>4, Zenon
    <2>5. ASSUME RunErase \/ RunNothing PROVE Goal
      <3>1. /\ machState = "RUN" /\ machState' # "IDLE" /\ machState' # "CONFIRM"
            /\ UNCHANGED <<flash, bad, address, wrapAddr>>
        BY <2>5, Zenon DEF RunErase, RunNothing, infoVars
      <3>2. ~Erase /\ machState # "ERASE" /\ machState # "CONFIRM" /\ machState # "IDLE"
        BY <3>1 DEF Erase
      <3>3. cleared' = cleared /\ Above'
        BY <1>7, <3>2
      <3>4. UNCHANGED <<flash, bad, address, wrapAddr, recorder>>
        BY <2>1, <3>1, Zenon
      <3>5. LongEnough' /\ log' = log
        BY <1>3, <3>1, <3>2, <3>4, PackQuiet, Zenon
      <3>. QED  BY <3>3, <3>5, Zenon
    <2>6. ASSUME Erase PROVE Goal
      <3>1. machState = "ERASE" /\ machState' = "IDLE" /\ faults' = faults
        BY <2>6, Zenon DEF Erase, InitLog
      <3>2. cleared' = sent
        BY <1>4, <3>1, Zenon
      <3>3. LongEnough' /\ Above' /\ Promise!Clear
        BY <1>2, <1>3, <2>1, <2>6, <3>2, PackErase, Zenon
      <3>. QED  BY <3>3, Zenon DEF Promise!LogNext
    <2>7. ~WriteFail
      BY <1>1, Zenon DEF WriteFail, FlagsAgree
    <2>. QED  BY <1>8, <2>2, <2>3, <2>4, <2>5, <2>6, <2>7, Zenon DEF LogMachine
  <1>9. ASSUME ReceivePacket \/ ReceiveGarbage \/ EraseFlash PROVE Goal
    <2>1. UNCHANGED <<flash, bad, machState, address, wrapAddr, recorder, TempDataBuf>>
      BY <1>9, Zenon DEF ReceivePacket, ReceiveGarbage, Receive, EraseFlash
    <2>2. machState' = machState
      BY <2>1, Zenon
    <2>3. ~Erase
      <3>1. ASSUME Erase PROVE FALSE
        <4>1. machState = "ERASE" /\ machState' = "IDLE"
          BY <3>1, Zenon DEF Erase, InitLog
        <4>. QED  BY <2>2, <4>1
      <3>. QED  BY <3>1
    <2>4. machState # "ERASE" \/ machState' # "IDLE"
      BY <2>2
    <2>5. cleared' = cleared /\ Above'
      BY <1>7, <2>3, <2>4
    <2>6. /\ UNCHANGED <<flash, bad, address, wrapAddr, recorder>>
          /\ UNCHANGED <<machState, TempDataBuf>>
          /\ machState = "IDLE" => machState' = "IDLE"
      BY <2>1, <2>2, Zenon
    <2>7. LongEnough' /\ log' = log
      BY <1>3, <2>6, PackQuiet, Zenon
    <2>. QED  BY <2>5, <2>7, Zenon
  <1>10. ~(PowerFails \/ PowerFailsInside)
    BY <1>1, PowerHarms, Zenon
  <1>11. Goal
    BY <1>1, <1>8, <1>9, <1>10, Zenon DEF Next
  <1>. QED  BY <1>2, <1>3, <1>6, <1>11, Zenon DEF PackIInv

LEMMA ReadStays ==
  ASSUME ReadIInv, UNCHANGED mcVars
  PROVE  ReadIInv'
  <1>1. /\ UNCHANGED vars /\ UNCHANGED <<log, cleared>>
        /\ UNCHANGED <<flash, bad, wrapAddr, queue, sent, recorder>>
        /\ UNCHANGED <<machState, address, wrapAddr, recorder, TempDataBuf>>
        /\ UNCHANGED <<flash, bad>>
        /\ faults' = faults /\ machState' = machState /\ logErase' = logErase
    BY Zenon DEF mcVars, vars
  <1>2. ReaderIInv'
    <2>1. LogIInv /\ OrderIInv /\ PlaceIsTaken /\ NoneAtEnd /\ WrittenLast
      BY Zenon DEF ReadIInv, ReaderIInv
    <2>2. LogIInv'
      BY <1>1, <2>1, LogKept, Zenon
    <2>3. OrderIInv'
      <3>1. faults \subseteq faults'
        BY <1>1, Zenon
      <3>. QED  BY <1>1, <2>1, <3>1, OrderKept, Zenon
    <2>4. PlaceIsTaken' /\ NoneAtEnd' /\ WrittenLast'
      BY <1>1, <2>1, ReaderKept, Zenon
    <2>. QED  BY <2>2, <2>3, <2>4, Zenon DEF ReaderIInv
  <1>3. IsRead(log, LogSet)'
    BY <1>1, Zenon DEF ReadIInv, IsRead, LogSet, AllShown, Shows, BlockOf, Cells, Packets
  <1>. QED  BY <1>2, <1>3, Zenon DEF ReadIInv

LEMMA PackStays ==
  ASSUME PackIInv, UNCHANGED mcVars
  PROVE  PackIInv' /\ UNCHANGED <<log, cleared>>
  <1>1. /\ UNCHANGED <<log, cleared>>
        /\ UNCHANGED <<flash, bad, wrapAddr, queue, sent, recorder>>
        /\ UNCHANGED <<machState, address, wrapAddr, recorder, TempDataBuf>>
    BY Zenon DEF mcVars
  <1>2. ReaderIInv' /\ IsRead(log, LogSet)'
    BY ReadStays, Zenon DEF PackIInv, ReadIInv
  <1>3. BadOnce'
    BY <1>1, Zenon DEF PackIInv, BadOnce, LogBlocks
  <1>4. Above'
    BY <1>1, Zenon DEF PackIInv, Above, Shows, BlockOf, Cells, Packets
  <1>5. LongEnough'
    BY <1>1, Zenon DEF PackIInv, LongEnough, Enough, Lost, LogBlocks, PerBlock, PerPage, Rank
  <1>. QED  BY <1>1, <1>2, <1>3, <1>4, <1>5, Zenon DEF PackIInv

\* In every behaviour up to the first fault that does harm, however many blocks
\* turn bad.
ReadInv ==
    /\ faults \subseteq UNION Faults
    /\ faults \subseteq Harmless => ReadIInv

LEMMA ReadInvHolds == MCSpec => []ReadInv
  <1>1. MCInit => ReadInv
    <2>1. MCInit => faults = {}
      BY DEF MCInit, Init
    <2>. QED  BY <2>1, ReadInit DEF ReadInv
  <1>2. ASSUME ReadInv, MCNext PROVE ReadInv'
    <2>1. faults \subseteq faults' /\ faults' \subseteq UNION Faults /\ Next
      BY <1>2, FaultsStay, Zenon DEF ReadInv, MCNext
    <2>2. ASSUME faults' \subseteq Harmless PROVE ReadIInv'
      <3>1. faults \subseteq Harmless
        BY <2>1, <2>2
      <3>2. ReaderIInv /\ faults \subseteq UNION Faults
        BY <1>2, <3>1, Zenon DEF ReadInv, ReadIInv
      <3>3. ReaderIInv'
        BY <2>1, <2>2, <3>2, ReaderStep, Zenon
      <3>. QED  BY <1>2, <3>3, ReadAfter, Zenon DEF ReadIInv
    <2>. QED  BY <2>1, <2>2, Zenon DEF ReadInv
  <1>3. ASSUME ReadInv, UNCHANGED mcVars PROVE ReadInv'
    <2>1. faults' = faults /\ faults \subseteq UNION Faults
      BY <1>3, Zenon DEF mcVars, ReadInv
    <2>2. faults' \subseteq Harmless => ReadIInv'
      BY <1>3, <2>1, ReadStays, Zenon DEF ReadInv
    <2>. QED  BY <2>1, <2>2, Zenon DEF ReadInv
  <1>4. ReadInv /\ [MCNext]_mcVars => ReadInv'
    BY <1>2, <1>3, Zenon
  <1>. QED  BY <1>1, <1>4, PTL DEF MCSpec

\* The same for how much of the log is left, where one block turns bad at most.
PackInv ==
    /\ faults \subseteq UNION Faults
    /\ faults \subseteq Harmless => PackIInv

\* Up to then every step is one of the log's.
IsLogStep == faults' \subseteq Harmless => Promise!LogNext \/ UNCHANGED <<log, cleared>>

LEMMA PackInvHolds == MAX_BAD <= 1 => (MCSpec => []PackInv /\ [][IsLogStep]_mcVars)
  <1>. SUFFICES ASSUME MAX_BAD <= 1
                PROVE  MCSpec => []PackInv /\ [][IsLogStep]_mcVars
    OBVIOUS
  <1>1. MCInit => PackInv
    <2>1. MCInit => faults = {}
      BY DEF MCInit, Init
    <2>. QED  BY <2>1, PackInit DEF PackInv
  <1>2. ASSUME PackInv, MCNext PROVE PackInv' /\ IsLogStep
    <2>1. faults \subseteq faults' /\ faults' \subseteq UNION Faults
      BY <1>2, FaultsStay, Zenon DEF PackInv, MCNext
    <2>2. faults' \subseteq Harmless => faults \subseteq Harmless
      BY <2>1
    <2>3. faults' \subseteq Harmless
            => PackIInv' /\ (Promise!LogNext \/ UNCHANGED <<log, cleared>>)
      BY <1>2, <2>2, PackStep, Zenon DEF PackInv
    <2>. QED  BY <2>1, <2>3, Zenon DEF PackInv, IsLogStep
  <1>3. ASSUME PackInv, UNCHANGED mcVars PROVE PackInv'
    <2>1. faults' = faults /\ faults \subseteq UNION Faults
      BY <1>3, Zenon DEF mcVars, PackInv
    <2>2. faults' \subseteq Harmless => PackIInv'
      BY <1>3, <2>1, PackStays, Zenon DEF PackInv
    <2>. QED  BY <2>1, <2>2, Zenon DEF PackInv
  <1>4. PackInv /\ [MCNext]_mcVars => PackInv' /\ [IsLogStep]_mcVars
    BY <1>2, <1>3, Zenon
  <1>. QED  BY <1>1, <1>4, PTL DEF MCSpec

\* Where one block turns bad at most, until power fails, a write is refused for
\* nothing or an erase comes into the traffic, a step of the recorder records the packet that
\* was confirmed, gives up oldest ones while KEEP remain, clears the log or
\* leaves it alone to its readers.
THEOREM PacketLogWhileHarmless == MAX_BAD <= 1 => (MCSpec => [][IsLogStep]_mcVars)
  BY PackInvHolds

\* Where only such faults come, with one bad block at most, the flash is the log
\* of PacketLog: what a reader finds are the packets in the order they came, each
\* once; a step adds the one that was confirmed or drops the oldest, never so
\* many that fewer than KEEP remain; and what an erase on command has cleared
\* does not come back.
THEOREM FlashIsPacketLog ==
  MAX_BAD <= 1 /\ UNION Faults \subseteq Harmless => (MCSpec => ImplementsPacketLog)
  <1>. SUFFICES ASSUME MAX_BAD <= 1, UNION Faults \subseteq Harmless
                PROVE  MCSpec => ImplementsPacketLog
    OBVIOUS
  <1>1. MCInit => Promise!LogInit
    BY PackInit
  <1>2. PackInv' /\ [IsLogStep]_mcVars => [Promise!LogNext]_(Promise!logVars)
    <2>1. ASSUME PackInv', IsLogStep PROVE Promise!LogNext \/ UNCHANGED <<log, cleared>>
      BY <2>1, Zenon DEF PackInv, IsLogStep
    <2>2. UNCHANGED mcVars => UNCHANGED <<log, cleared>>
      BY Zenon DEF mcVars
    <2>. QED  BY <2>1, <2>2, Zenon DEF Promise!logVars
  <1>. QED  BY <1>1, <1>2, PackInvHolds, PTL DEF MCSpec, ImplementsPacketLog, Promise!LogSpec

-----------------------------------------------------------------------------
(* What the search after a restart relies on.                              *)

\* The faults that leave no trace a search could take for another log: behind
\* an erase on command even an old bad block lies ahead of the address.
Calm == {"bad block", "bad packet", "overflow", "early packet"}

\* A block begins with a packet.
Starts(cells, g) ==
    \A c \in g * BLOCK .. g * BLOCK + SHORT_PACKET - 1 : cells[c] \in Packets

\* Bad blocks do, all behind the next place, and all a wrap has left standing.
AllBegun(cells, table, w, next) ==
    \A g \in LogBlocks :
        g \in table \/ g * BLOCK < next \/ Behind(w, g * BLOCK) => Starts(cells, g)

\* The good blocks before the next place end with a packet, as the search looks
\* at them.
AllEnded(cells, table, next) ==
    \A g \in LogBlocks \ table :
        (g + 1) * BLOCK <= next => cells[(g + 1) * BLOCK - SHORT_PACKET] \in Packets

SearchIInv ==
    /\ logErase # 1
    /\ wrapAddr = 0 => bad = {}
    /\ AllBegun(flash, bad, wrapAddr, Position)
    /\ AllEnded(flash, bad, Position)

LEMMA CalmIsHarmless ==
  /\ Calm \subseteq Harmless
  /\ "erase" \notin Calm /\ "erase with last block" \notin Calm
  /\ "power" \notin Calm /\ "power at boundary" \notin Calm /\ "power in erase" \notin Calm
  BY Zenon DEF Calm, Harmless

LEMMA SearchInit == ASSUME Init PROVE SearchIInv
  <1>1. /\ bad = {} /\ wrapAddr = 0 /\ logErase # 1 /\ Position = BLOCK
    BY DEF Init, Position, RDU_LOG_ADDR_START
  <1>2. BLOCK \in Nat \ {0}
    BY LogMachineAssumption
  <1>3. ASSUME NEW g \in LogBlocks
        PROVE  ~(g * BLOCK < BLOCK) /\ ~((g + 1) * BLOCK <= BLOCK)
    BY <1>2, BlockSums
  <1>. QED  BY <1>1, <1>3 DEF SearchIInv, AllBegun, AllEnded, Behind

\* A step that leaves the flash and the next place alone.
LEMMA SearchKept ==
  ASSUME SearchIInv, UNCHANGED <<flash, bad, wrapAddr, logErase>>, Position' = Position
  PROVE  SearchIInv'
  BY Zenon DEF SearchIInv, AllBegun, AllEnded, Starts, Behind, LogBlocks, Packets

\* LOG_IDLE_STATE finds the first block, as none is bad.
LEMMA SearchIdle ==
  ASSUME LogIInv, SearchIInv, Idle
  PROVE  SearchIInv'
  <1>1. /\ machState = "IDLE" /\ machState' = "RUN"
        /\ address' = LogFindEndOfMemory.address /\ wrapAddr' = LogFindEndOfMemory.wrapAddr
        /\ UNCHANGED <<flash, bad, logErase>>
    BY Zenon DEF Idle
  <1>2. /\ wrapAddr = 0 /\ address = BLOCK /\ bad = {} /\ OpenBlocks # {}
        /\ \A b \in LogBlocks \ bad : b \in OpenBlocks /\ IsErased(b * BLOCK)
    BY <1>1, IdleIsEmpty DEF SearchIInv
  <1>3. PICK b : b = Min(OpenBlocks)
    OBVIOUS
  <1>4. OpenBlocks = LogBlocks
    BY <1>2 DEF OpenBlocks
  <1>5. b = 1
    <2>1. LogBlocks \subseteq Nat /\ 1 \in LogBlocks /\ \A g \in LogBlocks : 1 <= g
      BY LogMachineAssumption DEF LogBlocks
    <2>2. b \in LogBlocks /\ \A g \in LogBlocks : b <= g
      BY <1>2, <1>3, <1>4, <2>1, LeastOf
    <2>. QED  BY <2>1, <2>2
  <1>6. LogFindEndOfMemory = [address |-> b * BLOCK, wrapAddr |-> wrapAddr, at |-> b * BLOCK]
    <2>1. IsErased(b * BLOCK)
      BY <1>2, <1>5, LogMachineAssumption DEF LogBlocks
    <2>. QED  BY <1>3, <2>1, Zenon DEF LogFindEndOfMemory
  <1>7. address' = BLOCK /\ wrapAddr' = wrapAddr
    <2>1. BLOCK \in Nat
      BY LogMachineAssumption
    <2>. QED  BY <1>1, <1>5, <1>6, <2>1
  <1>8. Position' = Position
    BY <1>1, <1>2, <1>7 DEF Position
  <1>. QED  BY <1>1, <1>7, <1>8, SearchKept, Zenon

-----------------------------------------------------------------------------
(* LOG_RUN_STATE.                                                          *)

\* Where the search looks for the last packet of a block.
LEMMA LastOfBlock ==
  ASSUME NEW g \in LogBlocks
  PROVE  /\ (g + 1) * BLOCK - SHORT_PACKET \in Cells
         /\ BlockOf((g + 1) * BLOCK - SHORT_PACKET) = g
         /\ g * BLOCK < (g + 1) * BLOCK - SHORT_PACKET
  <1>1. /\ PAGE \in Nat /\ BLOCK \in Nat \ {0} /\ PAGE < BLOCK /\ SHORT_PACKET \in 1 .. PAGE
        /\ g \in Nat /\ BLOCK <= g * BLOCK /\ g * BLOCK \in Nat
        /\ (g + 1) * BLOCK = g * BLOCK + BLOCK
        /\ (g + 1) * BLOCK <= DEVICE /\ DEVICE \in Nat
    BY BlockSums, LogMachineAssumption
  <1>2. PICK x \in Nat : x = g * BLOCK
    BY <1>1
  <1>3. PICK c \in Nat : c = (g + 1) * BLOCK - SHORT_PACKET
    BY <1>1, <1>2
  <1>4. x < c /\ c < x + BLOCK /\ c < DEVICE /\ BLOCK <= c
    BY <1>1, <1>2, <1>3
  <1>5. c \in Cells
    BY <1>1, <1>4 DEF Cells, RDU_LOG_ADDR_START
  <1>6. BlockOf(c) = g
    BY <1>1, <1>2, <1>4, CellOfBlock
  <1>. QED  BY <1>2, <1>3, <1>4, <1>5, <1>6

LEMMA StartCells ==
  ASSUME NEW g \in LogBlocks, NEW c \in g * BLOCK .. g * BLOCK + SHORT_PACKET - 1
  PROVE  c \in Cells /\ BlockOf(c) = g
  <1>1. SHORT_PACKET \in 1 .. PAGE /\ g \in Nat
    BY BlockSums, LogMachineAssumption
  <1>2. InBlock(g * BLOCK, g, SHORT_PACKET)
    BY <1>1, FirstPlace
  <1>. QED  BY <1>1, <1>2, PlaceCells

\* Behind the first wrap the address lies in a good block until that is full.
LEMMA GoodAddress ==
  ASSUME LogIInv, Position = address, wrapAddr # 0, address # wrapAddr
  PROVE  BlockOf(address) \notin bad
  <1>1. PICK b \in LogBlocks \ bad :
          wrapAddr = (b + 1) * BLOCK /\ b * BLOCK <= address /\ address <= wrapAddr
    BY IInvParts, Zenon DEF PlaceIsGood, ErasedToWrap
  <1>2. b \in Nat /\ address \in Nat /\ wrapAddr \in Nat
    BY WrapNumbers, BlockSums
  <1>3. address < (b + 1) * BLOCK
    BY <1>1, <1>2
  <1>4. BlockOf(address) = b
    BY <1>1, <1>2, <1>3, CellOfBlock
  <1>. QED  BY <1>1, <1>4

\* Room is made at the start of a block, or there was room.
RoomIsAt(a, cells, m) ==
    \/ \E to \in LogBlocks : a = to * BLOCK
    \/ m.erases = {} /\ cells = flash /\ a = address

\* Where room is made: at the start of block "to", with bad blocks before it
\* and packets in front of all that are left standing.
LEMMA SearchRoom ==
  ASSUME LogIInv, SearchIInv, machState = "RUN", packetSize = recorder,
         NEW failing \in FailingErases, failing \subseteq LogManageAddresses(failing).tried,
         NEW m, m = LogManageAddresses(failing), NEW table, table = bad \cup failing,
         NEW cells, cells = Wiped(flash, m.erases),
         NEW a, a = HandleBadBlock(m.address, table)
  PROVE  /\ AllBegun(cells, table, m.wrapAddr, a)
         /\ AllEnded(cells, table, a)
         /\ m.wrapAddr = 0 => table = {}
         /\ RoomIsAt(a, cells, m)
  <1>1. BLOCK \in Nat \ {0} /\ address \in Nat /\ wrapAddr \in Nat
        /\ RDU_LOG_ADDR_END \in Nat /\ Position = address
        /\ \A g \in LogBlocks : /\ g \in Nat /\ g * BLOCK \in Nat /\ g * BLOCK < RDU_LOG_ADDR_END
                                /\ (g + 1) * BLOCK = g * BLOCK + BLOCK
    BY WrapNumbers, EndOfDevice, BlockSums DEF Position
  <1>2. /\ AllBegun(flash, bad, wrapAddr, address) /\ AllEnded(flash, bad, address)
        /\ wrapAddr = 0 => bad = {}
    BY <1>1 DEF SearchIInv
  <1>3. \/ \E from, to \in LogBlocks :
             /\ from <= to /\ to \notin table
             /\ \A g \in from .. to - 1 : g \in table
             /\ failing \subseteq from .. to
             /\ m.erases = {to} /\ m.wrapAddr = (to + 1) * BLOCK
             /\ m.address = to * BLOCK
             /\ \/ from = 1 /\ RDU_LOG_ADDR_END <= address
                \/ wrapAddr # 0 /\ wrapAddr = from * BLOCK /\ address = wrapAddr
        \/ /\ m.erases = {} /\ failing = {} /\ m.wrapAddr = wrapAddr
           /\ m.address = address
           /\ address # wrapAddr
    <2>1. LET mm  == LogManageAddresses(failing)
              tb == bad \cup failing
          IN  \/ \E from, to \in LogBlocks :
                  /\ from <= to /\ to \notin tb
                  /\ \A g \in from .. to - 1 : g \in tb
                  /\ failing \subseteq from .. to
                  /\ mm.erases = {to} /\ mm.wrapAddr = (to + 1) * BLOCK
                  /\ mm.address = to * BLOCK
                  /\ \/ /\ from = 1 /\ RDU_LOG_ADDR_END <= address
                        /\ \A c \in Cells : ~Behind(wrapAddr, c)
                     \/ wrapAddr # 0 /\ wrapAddr = from * BLOCK /\ address = wrapAddr
              \/ /\ mm.erases = {} /\ failing = {} /\ mm.wrapAddr = wrapAddr
                 /\ mm.address = address
                 /\ address < RDU_LOG_ADDR_END /\ address # wrapAddr
      BY RunBlocks, Zenon
    <2>. QED  BY <2>1, Zenon
  <1>4. CASE \E from, to \in LogBlocks :
             /\ from <= to /\ to \notin table
             /\ \A g \in from .. to - 1 : g \in table
             /\ failing \subseteq from .. to
             /\ m.erases = {to} /\ m.wrapAddr = (to + 1) * BLOCK
             /\ m.address = to * BLOCK
             /\ \/ from = 1 /\ RDU_LOG_ADDR_END <= address
                \/ wrapAddr # 0 /\ wrapAddr = from * BLOCK /\ address = wrapAddr
    <2>1. PICK from \in LogBlocks, to \in LogBlocks :
             /\ from <= to /\ to \notin table
             /\ \A g \in from .. to - 1 : g \in table
             /\ failing \subseteq from .. to
             /\ m.erases = {to} /\ m.wrapAddr = (to + 1) * BLOCK
             /\ m.address = to * BLOCK
             /\ \/ from = 1 /\ RDU_LOG_ADDR_END <= address
                \/ wrapAddr # 0 /\ wrapAddr = from * BLOCK /\ address = wrapAddr
      BY <1>4
    <2>2. a = to * BLOCK
      <3>1. to * BLOCK <= to * BLOCK /\ to * BLOCK < (to + 1) * BLOCK
        BY <1>1
      <3>2. BlockOf(to * BLOCK) = to
        BY <1>1, <3>1, CellOfBlock
      <3>. QED  BY <2>1, <3>2 DEF HandleBadBlock
    \* Blocks on from the one given up begin with packets, and so do those before.
    <2>3. ASSUME NEW g \in LogBlocks, from <= g PROVE Starts(flash, g)
      <3>1. CASE RDU_LOG_ADDR_END <= address
        <4>1. g * BLOCK < address
          BY <1>1, <3>1
        <4>. QED  BY <1>2, <4>1 DEF AllBegun
      <3>2. CASE wrapAddr # 0 /\ wrapAddr = from * BLOCK
        <4>1. from * BLOCK <= g * BLOCK
          BY <1>1, <2>3, Times
        <4>2. Behind(wrapAddr, g * BLOCK)
          BY <3>2, <4>1 DEF Behind
        <4>. QED  BY <1>2, <4>2 DEF AllBegun
      <3>. QED  BY <2>1, <3>1, <3>2
    <2>4. ASSUME NEW g \in LogBlocks, g < from
          PROVE  g * BLOCK < address /\ (g + 1) * BLOCK <= address
      <3>1. from = 1 => FALSE
        BY <2>4 DEF LogBlocks
      <3>2. address = from * BLOCK
        BY <2>1, <3>1
      <3>3. (g + 1) * BLOCK <= from * BLOCK
        BY <1>1, <2>4, Times
      <3>. QED  BY <1>1, <3>2, <3>3
    <2>5. ASSUME NEW g \in LogBlocks, g # to, Starts(flash, g) PROVE Starts(cells, g)
      <3>1. ASSUME NEW c \in g * BLOCK .. g * BLOCK + SHORT_PACKET - 1
            PROVE  c \in Cells /\ BlockOf(c) = g
        BY <3>1, StartCells
      <3>2. ASSUME NEW c \in g * BLOCK .. g * BLOCK + SHORT_PACKET - 1
            PROVE  cells[c] \in Packets
        <4>1. cells[c] = flash[c]
          BY <2>1, <2>5, <3>1, <3>2 DEF Wiped
        <4>. QED  BY <2>5, <4>1 DEF Starts
      <3>. QED  BY <3>2 DEF Starts
    <2>6. AllBegun(cells, table, m.wrapAddr, a)
      <3>1. ASSUME NEW g \in LogBlocks,
                   g \in table \/ g * BLOCK < a \/ Behind(m.wrapAddr, g * BLOCK)
            PROVE  g # to
        <4>1. ~Behind(m.wrapAddr, to * BLOCK)
          BY <1>1, <2>1 DEF Behind
        <4>. QED  BY <1>1, <2>1, <2>2, <3>1, <4>1
      <3>2. ASSUME NEW g \in LogBlocks,
                   g \in table \/ g * BLOCK < a \/ Behind(m.wrapAddr, g * BLOCK)
            PROVE  Starts(flash, g)
        <4>1. CASE from <= g
          BY <2>3, <4>1
        <4>2. CASE g < from
          BY <1>2, <2>4, <4>2 DEF AllBegun
        <4>. QED  BY <1>1, <4>1, <4>2
      <3>. QED  BY <2>5, <3>1, <3>2 DEF AllBegun
    <2>7. AllEnded(cells, table, a)
      <3>1. ASSUME NEW g \in LogBlocks \ table, (g + 1) * BLOCK <= a
            PROVE  cells[(g + 1) * BLOCK - SHORT_PACKET] \in Packets
        <4>1. g < to
          <5>1. g >= to => to * BLOCK <= g * BLOCK
            BY <1>1, Times
          <5>. QED  BY <1>1, <2>2, <3>1, <5>1
        <4>2. g < from
          <5>1. g \in from .. to - 1 => g \in table
            BY <2>1
          <5>. QED  BY <1>1, <3>1, <4>1, <5>1
        <4>3. g \notin bad /\ (g + 1) * BLOCK <= address
          BY <2>4, <3>1, <4>2
        <4>4. flash[(g + 1) * BLOCK - SHORT_PACKET] \in Packets
          BY <1>2, <4>3 DEF AllEnded
        <4>5. PICK c \in Cells : c = (g + 1) * BLOCK - SHORT_PACKET /\ BlockOf(c) = g
          BY LastOfBlock
        <4>6. cells[c] = flash[c]
          BY <2>1, <4>1, <4>5, <1>1 DEF Wiped
        <4>. QED  BY <4>4, <4>5, <4>6
      <3>. QED  BY <3>1 DEF AllEnded
    <2>8. m.wrapAddr # 0
      BY <1>1, <2>1
    <2>. QED  BY <2>2, <2>6, <2>7, <2>8 DEF RoomIsAt
  <1>5. CASE m.erases = {} /\ failing = {} /\ m.wrapAddr = wrapAddr /\ m.address = address
             /\ address # wrapAddr
    <2>1. cells = flash /\ table = bad
      <3>1. flash \in [Cells -> Packets \cup {ERASED, GARBAGE}]
        BY IInvParts DEF FlashTypes, CellValues
      <3>. QED  BY <1>5, <3>1, WipedCells
    <2>2. a = address
      <3>1. SUFFICES BlockOf(address) \notin bad
        BY <1>5, <2>1, <3>1 DEF HandleBadBlock
      <3>2. CASE wrapAddr = 0
        BY <1>2, <3>2
      <3>3. CASE wrapAddr # 0
        BY <1>1, <1>5, <3>3, GoodAddress
      <3>. QED  BY <3>2, <3>3
    <2>. QED  BY <1>2, <1>5, <2>1, <2>2 DEF RoomIsAt
  <1>. QED  BY <1>3, <1>4, <1>5 DEF RoomIsAt

\* The last place of a block is where the search looks for it.
LEMMA LastPlace ==
  ASSUME packetSize \in {SHORT_PACKET, LONG_PACKET}, NEW b \in Nat, NEW a,
         InBlock(a, b, packetSize)
  PROVE  LogIncrementAddress(a) < a + packetSize + SHORT_PACKET
  <1>1. /\ PAGE \in Nat \ {0} /\ BLOCK \in Nat \ {0} /\ packetSize \in Nat \ {0}
        /\ SHORT_PACKET \in Nat \ {0} /\ packetSize \in 1 .. PAGE
    BY LogMachineAssumption
  <1>2. IsPlace(a, packetSize)
    BY <1>1, PlaceOfPage
  <1>3. PICK q \in Nat, k \in Nat :
          (k + 1) * packetSize <= PAGE /\ a = q * PAGE + k * packetSize
    BY <1>2, Zenon DEF IsPlace
  <1>4. LogIncrementAddress(a) =
          IF (k + 2) * packetSize <= PAGE THEN q * PAGE + (k + 1) * packetSize
                                          ELSE (q + 1) * PAGE
    BY <1>3, NextInPage
  <1>5. PICK x \in Nat, z \in Nat : x = q * PAGE /\ z = k * packetSize
    BY <1>1
  <1>6. /\ (k + 1) * packetSize = z + packetSize
        /\ (k + 2) * packetSize = z + packetSize + packetSize
        /\ (q + 1) * PAGE = x + PAGE /\ a = x + z
    BY <1>1, <1>3, <1>5
  <1>7. CASE (k + 2) * packetSize <= PAGE
    BY <1>1, <1>4, <1>5, <1>6, <1>7
  <1>8. CASE ~((k + 2) * packetSize <= PAGE) /\ packetSize = SHORT_PACKET
    BY <1>1, <1>4, <1>5, <1>6, <1>8
  <1>9. CASE ~((k + 2) * packetSize <= PAGE) /\ packetSize = LONG_PACKET
    <2>1. PICK n \in Nat \ {0} : PAGE = n * packetSize
      BY <1>9, Geometry
    <2>2. k + 1 <= n /\ ~(k + 2 <= n)
      <3>1. k + 1 <= n
        BY <1>1, <1>3, <2>1, Cancel
      <3>2. k + 2 <= n => (k + 2) * packetSize <= n * packetSize
        BY <1>1, <2>1, Times
      <3>. QED  BY <1>9, <2>1, <3>1, <3>2
    <2>3. k + 1 = n
      BY <2>2
    <2>4. PAGE = z + packetSize
      BY <1>6, <2>1, <2>3
    <2>. QED  BY <1>1, <1>4, <1>5, <1>6, <1>9, <2>4
  <1>. QED  BY <1>7, <1>8, <1>9

\* A packet is written behind them, at the start of a block or not, and in the
\* last place of it or not.
LEMMA SearchWritten ==
  ASSUME NEW size \in {SHORT_PACKET, LONG_PACKET}, NEW table, NEW w, NEW cells,
         NEW b \in LogBlocks, NEW a, InBlock(a, b, size), NEW p \in Packets,
         NEW next \in Nat, a + size <= next, next <= (b + 1) * BLOCK,
         next < a + size + SHORT_PACKET,
         NEW after, after = Written(cells, a, size, p),
         AllBegun(cells, table, w, a), AllEnded(cells, table, a)
  PROVE  AllBegun(after, table, w, next) /\ AllEnded(after, table, next)
  <1>1. /\ BLOCK \in Nat \ {0} /\ SHORT_PACKET \in Nat \ {0} /\ size \in 1 .. PAGE
        /\ SHORT_PACKET <= size /\ size \in Nat /\ b \in Nat
        /\ \A g \in LogBlocks : /\ g \in Nat /\ g * BLOCK \in Nat
                                /\ (g + 1) * BLOCK = g * BLOCK + BLOCK
    BY BlockSums, LogMachineAssumption, KeepAssumption
  <1>2. a \in Nat /\ b * BLOCK <= a /\ a + size <= (b + 1) * BLOCK
    BY <1>1, PlaceBounds
  <1>3. \A c \in Cells : after[c] = IF c \in a .. a + size - 1 THEN p ELSE cells[c]
    BY DEF Written
  <1>4. ASSUME NEW g \in LogBlocks, Starts(cells, g) PROVE Starts(after, g)
    <2>1. ASSUME NEW c \in g * BLOCK .. g * BLOCK + SHORT_PACKET - 1
          PROVE  after[c] \in Packets
      <3>1. c \in Cells
        BY <2>1, StartCells
      <3>2. cells[c] \in Packets
        BY <1>4, <2>1 DEF Starts
      <3>. QED  BY <1>3, <3>1, <3>2
    <2>. QED  BY <2>1 DEF Starts
  <1>5. ASSUME NEW g \in LogBlocks, ~(g <= b) PROVE (b + 1) * BLOCK <= g * BLOCK
    <2>1. b + 1 \in Nat /\ b + 1 <= g
      BY <1>1, <1>5
    <2>. QED  BY <1>1, <2>1, Times
  <1>6. ASSUME NEW g \in LogBlocks, g <= b, g # b PROVE (g + 1) * BLOCK <= b * BLOCK
    <2>1. g + 1 \in Nat /\ g + 1 <= b
      BY <1>1, <1>6
    <2>. QED  BY <1>1, <2>1, Times
  <1>7. AllBegun(after, table, w, next)
    <2>1. ASSUME NEW g \in LogBlocks, g \in table \/ g * BLOCK < next \/ Behind(w, g * BLOCK)
          PROVE  Starts(after, g)
      <3>1. CASE g \in table \/ g * BLOCK < a \/ Behind(w, g * BLOCK)
        BY <1>4, <3>1 DEF AllBegun
      <3>2. CASE g * BLOCK < next /\ ~(g * BLOCK < a)
        <4>1. g <= b
          <5>1. PICK x \in Nat, y \in Nat : x = (b + 1) * BLOCK /\ y = g * BLOCK
            BY <1>1
          <5>. QED  BY <1>5, <3>2, <5>1
        <4>2. g = b
          <5>1. SUFFICES ASSUME g # b PROVE FALSE
            OBVIOUS
          <5>2. PICK x \in Nat, y \in Nat : x = g * BLOCK /\ y = b * BLOCK
            BY <1>1
          <5>3. x + BLOCK <= y
            BY <1>1, <1>6, <4>1, <5>1, <5>2
          <5>. QED  BY <1>1, <1>2, <3>2, <5>2, <5>3
        <4>3. PICK x \in Nat : x = g * BLOCK /\ x = a
          BY <1>1, <1>2, <3>2, <4>2
        <4>4. ASSUME NEW c \in g * BLOCK .. g * BLOCK + SHORT_PACKET - 1
              PROVE  after[c] \in Packets
          <5>1. c \in Cells
            BY <4>4, StartCells
          <5>2. c \in a .. a + size - 1
            BY <1>1, <1>2, <4>3, <4>4
          <5>. QED  BY <1>3, <5>1, <5>2
        <4>. QED  BY <4>4 DEF Starts
      <3>. QED  BY <2>1, <3>1, <3>2
    <2>. QED  BY <2>1 DEF AllBegun
  <1>8. AllEnded(after, table, next)
    <2>1. ASSUME NEW g \in LogBlocks \ table, (g + 1) * BLOCK <= next
          PROVE  after[(g + 1) * BLOCK - SHORT_PACKET] \in Packets
      <3>1. PICK c \in Cells : c = (g + 1) * BLOCK - SHORT_PACKET
        BY LastOfBlock
      <3>2. CASE (g + 1) * BLOCK <= a
        <4>1. cells[c] \in Packets
          BY <3>1, <3>2 DEF AllEnded
        <4>. QED  BY <1>3, <3>1, <4>1
      <3>3. CASE ~((g + 1) * BLOCK <= a)
        <4>1. PICK x \in Nat, y \in Nat : x = g * BLOCK /\ y = b * BLOCK
          BY <1>1
        <4>2. (g + 1) * BLOCK = x + BLOCK /\ (b + 1) * BLOCK = y + BLOCK
          BY <1>1, <4>1
        <4>3. g <= b
          BY <1>1, <1>5, <2>1, <4>1, <4>2
        <4>4. g = b
          <5>1. SUFFICES ASSUME g # b PROVE FALSE
            OBVIOUS
          <5>2. x + BLOCK <= y
            BY <1>6, <4>1, <4>2, <4>3, <5>1
          <5>. QED  BY <1>1, <1>2, <3>3, <4>1, <4>2, <5>2
        <4>5. next = x + BLOCK
          BY <1>1, <2>1, <4>1, <4>2, <4>4
        <4>6. c = x + BLOCK - SHORT_PACKET
          BY <1>1, <3>1, <4>1, <4>2
        <4>7. c \in a .. a + size - 1
          <5>1. x = y /\ a + size <= y + BLOCK
            BY <1>2, <4>1, <4>2, <4>4
          <5>2. x + BLOCK < a + size + SHORT_PACKET
            BY <4>5
          <5>3. a <= c /\ c < a + size /\ c \in Int
            BY <1>1, <1>2, <4>6, <5>1, <5>2
          <5>. QED  BY <1>1, <1>2, <5>3
        <4>. QED  BY <1>3, <3>1, <4>7
      <3>. QED  BY <3>2, <3>3
    <2>. QED  BY <2>1 DEF AllEnded
  <1>. QED  BY <1>7, <1>8

LEMMA SearchRun ==
  ASSUME LogIInv, SearchIInv, Run, UNCHANGED <<recorder, sent>>, faults' \subseteq Harmless
  PROVE  SearchIInv'
  <1>1. /\ machState = "RUN" /\ packetSize = recorder
        /\ UNCHANGED <<logErase, packetSize>>
    BY IInvParts, RunParts, Zenon DEF FlagsAgree
  <1>2. PICK failing \in FailingErases, b \in LogBlocks :
          LET m     == LogManageAddresses(failing)
              table == bad \cup failing
              cells == Wiped(flash, m.erases)
              a     == HandleBadBlock(m.address, table)
          IN  /\ failing \subseteq m.tried
              /\ InBlock(a, b, packetSize)
              /\ bad' = table /\ wrapAddr' = m.wrapAddr
              /\ Stored(cells, a)
    BY RunOutcome, Zenon
  <1>3. PICK m : m = LogManageAddresses(failing)
    OBVIOUS
  <1>4. PICK table : table = bad \cup failing
    OBVIOUS
  <1>5. PICK cells : cells = Wiped(flash, m.erases)
    OBVIOUS
  <1>6. PICK a : a = HandleBadBlock(m.address, table)
    OBVIOUS
  <1>7. PICK w : w = m.wrapAddr
    OBVIOUS
  <1>8. /\ InBlock(a, b, packetSize) /\ bad' = table /\ wrapAddr' = w /\ Stored(cells, a)
        /\ failing \subseteq LogManageAddresses(failing).tried
    BY <1>2, <1>3, <1>4, <1>5, <1>6, <1>7, Zenon
  <1>9. /\ AllBegun(cells, table, w, a) /\ AllEnded(cells, table, a)
        /\ w = 0 => table = {}
    BY <1>1, <1>3, <1>4, <1>5, <1>6, <1>7, <1>8, SearchRoom, Zenon
  <1>10. SUFFICES AllBegun(flash', table, w, Position') /\ AllEnded(flash', table, Position')
    <2>1. (logErase # 1)'
      BY <1>1, Zenon DEF SearchIInv
    <2>. QED  BY <1>8, <1>9, <1>10, <2>1, Zenon DEF SearchIInv, AllBegun, AllEnded, Starts,
              Behind, LogBlocks, Packets
  <1>11. CASE flash' = cells /\ address' = a /\ machState' = "RUN"
    <2>1. Position' = a
      BY <1>11 DEF Position
    <2>. QED  BY <1>9, <1>11, <2>1, Zenon
  <1>12. CASE /\ flash' = Written(cells, a, packetSize, Head(queue)) /\ address' = a
              /\ machState' = "CONFIRM" /\ queue # <<>> /\ Head(queue) # GARBAGE
    <2>1. PICK next : next = LogIncrementAddress(a)
      OBVIOUS
    <2>2. Position' = next
      BY <1>1, <1>12, <2>1 DEF Position, LogIncrementAddress
    <2>3. packetSize \in {SHORT_PACKET, LONG_PACKET}
      BY <1>1, IInvParts DEF FlashTypes
    <2>4. /\ next \in Nat /\ a + packetSize <= next /\ next <= (b + 1) * BLOCK
          /\ next < a + packetSize + SHORT_PACKET
      <3>1. b \in Nat
        BY BlockSums
      <3>. QED  BY <1>8, <2>1, <2>3, <3>1, NextPlace, LastPlace
    <2>5. PICK p \in Packets : p = Head(queue)
      <3>1. queue \in Seq(QueueValues)
        BY IInvParts, Zenon DEF LogTypes
      <3>2. Head(queue) \in QueueValues
        BY <1>12, <3>1, HeadTailProperties
      <3>. QED  BY <1>12, <3>2, Zenon DEF QueueValues
    <2>6. PICK after : after = Written(cells, a, packetSize, p)
      OBVIOUS
    <2>7. AllBegun(after, table, w, next) /\ AllEnded(after, table, next)
      BY <1>8, <1>9, <2>3, <2>4, <2>6, SearchWritten
    <2>. QED  BY <1>12, <2>2, <2>5, <2>6, <2>7, Zenon
  <1>. QED  BY <1>8, <1>11, <1>12, Zenon DEF Stored

\* The machine and the command handler, as long as nothing is erased on command.
LEMMA SearchStep ==
  ASSUME LogIInv, SearchIInv, Next, faults' \subseteq Calm
  PROVE  SearchIInv'
  <1>1. FlashTypes /\ FlagsAgree /\ logErase # 1
    BY IInvParts DEF SearchIInv
  <1>2. faults \subseteq UNION Faults /\ faults' \subseteq Harmless
    BY <1>1, CalmIsHarmless, Zenon DEF FlashTypes
  <1>3. CASE LogMachine
    <2>1. UNCHANGED <<recorder, sent>>
      BY <1>3, Zenon DEF LogMachine
    <2>2. CASE Idle
      BY <2>2, SearchIdle, Zenon
    <2>3. CASE Run
      BY <1>2, <2>1, <2>3, SearchRun, Zenon
    <2>4. CASE RunErase \/ RunNothing
      <3>1. /\ UNCHANGED <<flash, bad, wrapAddr, logErase>>
            /\ UNCHANGED <<address, packetSize>>
            /\ machState = "RUN" /\ machState' # "CONFIRM"
        BY <2>4, Zenon DEF RunErase, RunNothing, infoVars
      <3>2. Position = address /\ Position' = address'
        BY <3>1, Zenon DEF Position
      <3>. QED  BY <3>1, <3>2, SearchKept, Zenon
    <2>5. CASE Confirm
      <3>1. /\ UNCHANGED <<flash, bad, wrapAddr, logErase>>
            /\ machState = "CONFIRM" /\ machState' = "RUN"
            /\ address' = LogIncrementAddress(address)
        BY <2>5, Zenon DEF Confirm
      <3>2. Position = LogIncrementAddress(address) /\ Position' = address'
        BY <3>1, Zenon DEF Position
      <3>. QED  BY <3>1, <3>2, SearchKept, Zenon
    <2>6. ~WriteFail /\ ~Erase
      BY <1>1, Zenon DEF WriteFail, Erase, FlagsAgree
    <2>. QED  BY <1>3, <2>2, <2>3, <2>4, <2>5, <2>6, Zenon DEF LogMachine
  <1>4. CASE ReceivePacket \/ ReceiveGarbage
    <2>1. /\ UNCHANGED <<flash, bad, wrapAddr, logErase>>
          /\ UNCHANGED <<machState, address>> /\ packetSize' = recorder
      BY <1>4, Zenon DEF ReceivePacket, ReceiveGarbage, Receive
    <2>2. machState = "CONFIRM" => packetSize' = packetSize
      BY <1>1, <2>1, Zenon DEF FlagsAgree
    <2>3. Position' = Position
      BY <2>1, <2>2, Zenon DEF Position, LogIncrementAddress
    <2>. QED  BY <2>1, <2>3, SearchKept, Zenon
  <1>5. ~EraseFlash
    <2>1. ASSUME EraseFlash PROVE FALSE
      <3>1. EraseFault \in faults'
        BY <2>1, Zenon DEF EraseFlash, Happen
      <3>2. EraseFault = "erase" \/ EraseFault = "erase with last block"
        BY Zenon DEF EraseFault
      <3>. QED  BY <3>1, <3>2, CalmIsHarmless, Zenon
    <2>. QED  BY <2>1
  <1>6. ~(PowerFails \/ PowerFailsInside)
    BY <1>2, PowerHarms, Zenon
  <1>. QED  BY <1>3, <1>4, <1>5, <1>6, Zenon DEF Next

-----------------------------------------------------------------------------
(* LOG_IDLE_STATE after a restart.                                         *)

\* The log before the power fails, in the old cells: n is the next place, in
\* the middle of block b, and w the wrap address.
CutOff(old, w, n, b) ==
    /\ n \in Nat /\ b * BLOCK < n /\ n + SHORT_PACKET <= (b + 1) * BLOCK
    /\ b \in LogBlocks \ bad /\ recorder \in {SHORT_PACKET, LONG_PACKET}
    /\ AllBegun(old, bad, w, n) /\ AllEnded(old, bad, n)
    /\ Whole(old, bad, recorder)
    /\ \A c \in Cells : n <= c /\ c < (b + 1) * BLOCK => old[c] = ERASED
    /\ \/ w = 0 /\ \A c \in Cells : (b + 1) * BLOCK <= c => old[c] = ERASED
       \/ w = (b + 1) * BLOCK

\* What is left of a packet that is cut off is in the block, and its last place
\* stays erased.
Torn(old, b) ==
    \A c \in Cells :
        \/ flash[c] = old[c]
        \/ /\ old[c] = ERASED /\ flash[c] = GARBAGE /\ BlockOf(c) = b
           /\ c < (b + 1) * BLOCK - SHORT_PACKET

\* The search finds the block.
LEMMA FindsBlock ==
  ASSUME NEW old, NEW w, NEW n, NEW b, CutOff(old, w, n, b), Torn(old, b),
         packetSize = SHORT_PACKET
  PROVE  /\ Min(OpenBlocks) = b /\ ~IsErased(b * BLOCK)
         /\ IsErased((b + 1) * BLOCK - SHORT_PACKET)
  <1>1. /\ BLOCK \in Nat \ {0} /\ SHORT_PACKET \in Nat \ {0}
        /\ ERASED_BYTES \in 1 .. SHORT_PACKET /\ DEVICE \in Nat
        /\ \A g \in LogBlocks : /\ g \in Nat /\ g * BLOCK \in Nat
                                /\ (g + 1) * BLOCK = g * BLOCK + BLOCK
                                /\ g * BLOCK < (g + 1) * BLOCK - SHORT_PACKET
    BY BlockSums, LastOfBlock, LogMachineAssumption
  <1>2. /\ b \in LogBlocks \ bad /\ b \in Nat /\ n \in Nat
        /\ b * BLOCK < n /\ n + SHORT_PACKET <= (b + 1) * BLOCK
    BY <1>1 DEF CutOff
  <1>3. ASSUME NEW c \in Cells, old[c] \in Packets PROVE flash[c] = old[c] /\ flash[c] # ERASED
    BY <1>3, PacketNumbers DEF Torn
  <1>4. ASSUME NEW g \in LogBlocks, Starts(old, g) PROVE ~IsErased(g * BLOCK)
    <2>1. PICK c \in Nat : c = g * BLOCK
      BY <1>1
    <2>2. c \in c .. c + SHORT_PACKET - 1 /\ c \in c .. c + ERASED_BYTES - 1
      BY <1>1
    <2>3. c \in Cells
      BY <2>1, <2>2, StartCells
    <2>4. old[c] \in Packets
      BY <1>4, <2>1, <2>2 DEF Starts
    <2>5. flash[c] # ERASED
      BY <1>3, <2>3, <2>4
    <2>. QED  BY <2>1, <2>2, <2>3, <2>5 DEF IsErased
  <1>5. ASSUME NEW g \in LogBlocks \ bad, g < b PROVE g \notin OpenBlocks
    <2>1. (g + 1) * BLOCK <= b * BLOCK
      <3>1. g + 1 \in Nat /\ g + 1 <= b
        BY <1>1, <1>2, <1>5
      <3>. QED  BY <1>1, <1>2, <3>1, Times
    <2>2. PICK x \in Nat, y \in Nat : x = g * BLOCK /\ y = b * BLOCK
      BY <1>1, <1>2
    <2>3. g * BLOCK < n /\ (g + 1) * BLOCK <= n
      BY <1>1, <1>2, <2>1, <2>2
    <2>4. Starts(old, g) /\ old[(g + 1) * BLOCK - SHORT_PACKET] \in Packets
      BY <2>3, Zenon DEF CutOff, AllBegun, AllEnded
    <2>5. PICK c \in Cells : c = (g + 1) * BLOCK - SHORT_PACKET
      BY LastOfBlock
    <2>6. c \in c .. c + ERASED_BYTES - 1
      BY <1>1, CellFacts
    <2>7. flash[c] # ERASED
      BY <1>3, <2>4, <2>5
    <2>8. ~IsErased(c)
      BY <2>6, <2>7 DEF IsErased
    <2>9. ~IsErased(g * BLOCK)
      BY <1>4, <2>4
    <2>. QED  BY <2>5, <2>8, <2>9 DEF OpenBlocks
  <1>6. ~IsErased(b * BLOCK)
    <2>1. Starts(old, b)
      BY <1>2, Zenon DEF CutOff, AllBegun
    <2>. QED  BY <1>2, <1>4, <2>1
  <1>7. IsErased((b + 1) * BLOCK - SHORT_PACKET)
    <2>1. PICK x \in Nat : x = (b + 1) * BLOCK
      BY <1>1, <1>2
    <2>2. PICK d \in Cells : d = (b + 1) * BLOCK - SHORT_PACKET /\ d \in Nat /\ d = x - SHORT_PACKET
      BY <1>2, <2>1, LastOfBlock, CellFacts
    <2>3. ASSUME NEW c \in d .. d + ERASED_BYTES - 1, c \in Cells PROVE flash[c] = ERASED
      <3>1. n <= c /\ c < x /\ d <= c /\ c \in Nat
        BY <1>1, <1>2, <2>1, <2>2, <2>3
      <3>2. old[c] = ERASED
        BY <2>1, <2>3, <3>1 DEF CutOff
      <3>3. ~(c < (b + 1) * BLOCK - SHORT_PACKET)
        BY <2>2, <3>1
      <3>. QED  BY <2>3, <3>2, <3>3 DEF Torn
    <2>4. IsErased(d)
      BY <2>3 DEF IsErased
    <2>. QED  BY <2>2, <2>4
  <1>8. Min(OpenBlocks) = b
    <2>1. b \in OpenBlocks
      BY <1>2, <1>7 DEF OpenBlocks
    <2>2. OpenBlocks \subseteq Nat /\ OpenBlocks \subseteq LogBlocks \ bad
      BY DEF OpenBlocks, LogBlocks
    <2>3. PICK m : m = Min(OpenBlocks)
      OBVIOUS
    <2>4. m \in OpenBlocks /\ m <= b
      BY <2>1, <2>2, <2>3, LeastOf
    <2>5. ~(m < b)
      BY <1>5, <2>2, <2>4
    <2>6. m \in Nat
      BY <2>2, <2>4
    <2>. QED  BY <1>2, <2>3, <2>4, <2>5, <2>6
  <1>. QED  BY <1>6, <1>7, <1>8

\* The places the search looks at, k packets before the end of block b.
Back(b, k) == (b + 1) * BLOCK - k * SHORT_PACKET

LEMMA BackNumbers ==
  ASSUME NEW b \in LogBlocks
  PROVE  /\ Back(b, 0) = (b + 1) * BLOCK
         /\ \A k \in Nat : Back(b, k) \in Int /\ Back(b, k) = Back(b, k + 1) + SHORT_PACKET
         /\ \A j, k \in Nat : j <= k => Back(b, k) <= Back(b, j)
         /\ \A j, k \in Nat : Back(b, k) < Back(b, j) => j < k
  <1>1. SHORT_PACKET \in Nat \ {0} /\ BLOCK \in Nat \ {0} /\ b \in Nat
        /\ (b + 1) * BLOCK = b * BLOCK + BLOCK /\ b * BLOCK \in Nat
    BY BlockSums, LogMachineAssumption
  <1>2. PICK z \in Nat : z = (b + 1) * BLOCK
    BY <1>1
  <1>3. Back(b, 0) = z
    BY <1>1, <1>2 DEF Back
  <1>4. ASSUME NEW k \in Nat
        PROVE  Back(b, k) \in Int /\ Back(b, k) = Back(b, k + 1) + SHORT_PACKET
    <2>1. PICK x \in Nat : x = k * SHORT_PACKET
      BY <1>1
    <2>2. (k + 1) * SHORT_PACKET = x + SHORT_PACKET
      BY <1>1, <2>1
    <2>3. Back(b, k) = z - x /\ Back(b, k + 1) = z - (x + SHORT_PACKET)
      BY <1>2, <2>1, <2>2 DEF Back
    <2>. QED  BY <1>1, <2>3
  <1>5. ASSUME NEW j \in Nat, NEW k \in Nat
        PROVE  /\ j <= k => Back(b, k) <= Back(b, j)
               /\ Back(b, k) < Back(b, j) => j < k
    <2>1. PICK x \in Nat, y \in Nat : x = j * SHORT_PACKET /\ y = k * SHORT_PACKET
      BY <1>1
    <2>2. Back(b, j) = z - x /\ Back(b, k) = z - y
      BY <1>2, <2>1 DEF Back
    <2>3. (j <= k => x <= y) /\ (x < y => j < k)
      <3>1. j <= k => j * SHORT_PACKET <= k * SHORT_PACKET
        BY <1>1, Times
      <3>2. j * SHORT_PACKET < k * SHORT_PACKET => j < k
        BY <1>1, Cancel
      <3>. QED  BY <2>1, <3>1, <3>2
    <2>. QED  BY <2>2, <2>3
  <1>. QED  BY <1>2, <1>3, <1>4, <1>5

\* The place the search stands on lies between two steps of it.
LEMMA BackOf ==
  ASSUME NEW b \in LogBlocks, NEW c \in Cells, BlockOf(c) = b
  PROVE  \E k \in Nat \ {0} : Back(b, k) <= c /\ c < Back(b, k) + SHORT_PACKET
  <1>1. SHORT_PACKET \in Nat \ {0} /\ BLOCK \in Nat \ {0} /\ b \in Nat /\ c \in Nat
        /\ (b + 1) * BLOCK \in Nat
    BY BlockSums, CellFacts, LogMachineAssumption
  <1>2. PICK z \in Nat : z = (b + 1) * BLOCK /\ c < z
    BY <1>1, BlockOfCell
  <1>3. PICK d \in Nat : d = z - 1 - c
    BY <1>1, <1>2
  <1>4. PICK q \in Nat, r \in 0 .. SHORT_PACKET - 1 : d = q * SHORT_PACKET + r
    <2>1. /\ d \div SHORT_PACKET \in Nat /\ d % SHORT_PACKET \in 0 .. SHORT_PACKET - 1
          /\ d = (d \div SHORT_PACKET) * SHORT_PACKET + (d % SHORT_PACKET)
      BY <1>1, Division
    <2>. QED  BY <2>1
  <1>5. PICK x \in Nat : x = q * SHORT_PACKET
    BY <1>1
  <1>6. (q + 1) * SHORT_PACKET = x + SHORT_PACKET
    BY <1>1, <1>5
  <1>7. Back(b, q + 1) = z - (x + SHORT_PACKET)
    BY <1>2, <1>6 DEF Back
  <1>8. q + 1 \in Nat \ {0} /\ Back(b, q + 1) <= c /\ c < Back(b, q + 1) + SHORT_PACKET
    BY <1>1, <1>2, <1>3, <1>4, <1>5, <1>7
  <1>. QED  BY <1>8

\* The first cells of a block hold one of them.
LEMMA BackToStart ==
  ASSUME NEW b \in LogBlocks
  PROVE  \E k \in 1 .. BLOCK :
            b * BLOCK <= Back(b, k) /\ Back(b, k) < b * BLOCK + SHORT_PACKET
  <1>1. /\ SHORT_PACKET \in Nat \ {0} /\ BLOCK \in Nat \ {0} /\ b \in Nat
        /\ SHORT_PACKET < BLOCK
        /\ b * BLOCK \in Nat /\ (b + 1) * BLOCK = b * BLOCK + BLOCK
    BY BlockSums, LogMachineAssumption
  <1>2. PICK x \in Nat : x = b * BLOCK
    BY <1>1
  <1>3. PICK q \in Nat, r \in 0 .. SHORT_PACKET - 1 : BLOCK = q * SHORT_PACKET + r
    <2>1. /\ BLOCK \div SHORT_PACKET \in Nat /\ BLOCK % SHORT_PACKET \in 0 .. SHORT_PACKET - 1
          /\ BLOCK = (BLOCK \div SHORT_PACKET) * SHORT_PACKET + (BLOCK % SHORT_PACKET)
      BY <1>1, Division
    <2>. QED  BY <2>1
  <1>4. PICK y \in Nat : y = q * SHORT_PACKET
    BY <1>1
  <1>5. q # 0
    <2>1. q = 0 => BLOCK = r
      BY <1>1, <1>3
    <2>. QED  BY <1>1, <1>3, <2>1
  <1>6. q <= BLOCK
    <2>1. q * 1 <= q * SHORT_PACKET
      <3>1. PICK s \in Nat : SHORT_PACKET = s + 1
        <4>1. SHORT_PACKET - 1 \in Nat /\ SHORT_PACKET = (SHORT_PACKET - 1) + 1
          BY <1>1
        <4>. QED  BY <4>1
      <3>2. q * (s + 1) = q * s + q /\ q * s \in Nat
        OBVIOUS
      <3>. QED  BY <3>1, <3>2
    <2>. QED  BY <1>1, <1>3, <1>4, <2>1
  <1>7. Back(b, q) = x + r
    <2>1. Back(b, q) = x + BLOCK - y
      BY <1>1, <1>2, <1>4 DEF Back
    <2>. QED  BY <1>1, <1>3, <1>4, <2>1
  <1>. QED  BY <1>1, <1>2, <1>3, <1>5, <1>6, <1>7

\* And the end of the packets in it, though not always the next place: a piece
\* of a packet may follow.
LEMMA FindsEnd ==
  ASSUME NEW old, NEW w, NEW n, NEW b, CutOff(old, w, n, b), Torn(old, b),
         packetSize = SHORT_PACKET, NEW e, e = EndOfPackets(b)
  PROVE  /\ e \in Nat /\ b * BLOCK < e /\ e < (b + 1) * BLOCK
         /\ \A c \in Cells : BlockOf(c) = b /\ old[c] \in Packets => c < e
  <1>1. /\ BLOCK \in Nat \ {0} /\ SHORT_PACKET \in Nat \ {0} /\ DEVICE \in Nat
        /\ ERASED_BYTES \in 1 .. SHORT_PACKET /\ BLOCK <= b * BLOCK
        /\ b \in LogBlocks /\ b \in Nat /\ b * BLOCK \in Nat
        /\ (b + 1) * BLOCK = b * BLOCK + BLOCK /\ (b + 1) * BLOCK <= DEVICE
        /\ b \notin bad
    BY BlockSums, LogMachineAssumption DEF CutOff
  <1>2. PICK x \in Nat, z \in Nat : x = b * BLOCK /\ z = (b + 1) * BLOCK /\ z = x + BLOCK
    BY <1>1
  <1>3. /\ \A k \in Nat : Back(b, k) \in Int /\ Back(b, k) = Back(b, k + 1) + SHORT_PACKET
        /\ \A j, k \in Nat : j <= k => Back(b, k) <= Back(b, j)
        /\ \A j, k \in Nat : Back(b, k) < Back(b, j) => j < k
        /\ Back(b, 0) = z
    BY <1>1, <1>2, BackNumbers
  <1>4. PICK used : used = {k \in 1 .. BLOCK : Back(b, k) \in Cells /\ ~IsErased(Back(b, k))}
    OBVIOUS
  <1>5. PICK m : m = Min(used)
    OBVIOUS
  <1>6. e = Back(b, m - 1)
    BY <1>4, <1>5, Zenon DEF EndOfPackets, Back
  <1>7. ASSUME NEW c \in Cells, old[c] \in Packets PROVE flash[c] # ERASED
    BY <1>7, PacketNumbers DEF Torn
  <1>8. ASSUME NEW c \in Cells, flash[c] # ERASED PROVE ~IsErased(c)
    <2>1. c \in c .. c + ERASED_BYTES - 1
      BY <1>1, CellFacts
    <2>. QED  BY <1>8, <2>1 DEF IsErased
  <1>9. PICK k0 \in 1 .. BLOCK : x <= Back(b, k0) /\ Back(b, k0) < x + SHORT_PACKET
    BY <1>1, <1>2, BackToStart
  <1>10. k0 \in used
    <2>1. Starts(old, b)
      BY <1>1, Zenon DEF CutOff, AllBegun
    <2>2. Back(b, k0) \in x .. x + SHORT_PACKET - 1
      BY <1>1, <1>3, <1>9
    <2>3. Back(b, k0) \in Cells
      BY <1>1, <1>2, <2>2, StartCells
    <2>4. old[Back(b, k0)] \in Packets
      BY <1>2, <2>1, <2>2, Zenon DEF Starts
    <2>. QED  BY <1>4, <1>7, <1>8, <2>3, <2>4
  <1>11. m \in used /\ \A k \in used : m <= k
    <2>1. used \subseteq Nat
      BY <1>4
    <2>. QED  BY <1>5, <1>10, <2>1, LeastOf
  <1>12. m \in 1 .. BLOCK /\ m <= k0
    BY <1>4, <1>10, <1>11
  <1>13. m # 1
    <2>1. IsErased(Back(b, 1))
      <3>1. Back(b, 1) = (b + 1) * BLOCK - SHORT_PACKET
        BY <1>1 DEF Back
      <3>. QED  BY <3>1, FindsBlock
    <2>. QED  BY <1>4, <1>11, <2>1
  <1>14. PICK l \in Nat \ {0} : l = m - 1 /\ m = l + 1
    <2>1. m - 1 \in Nat \ {0} /\ m = (m - 1) + 1
      BY <1>12, <1>13
    <2>. QED  BY <2>1
  <1>15. e \in Nat /\ x < e /\ e < z
    <2>1. e = Back(b, l)
      BY <1>6, <1>14
    <2>2. Back(b, l) = Back(b, l + 1) + SHORT_PACKET
      BY <1>3
    <2>3. Back(b, k0) <= Back(b, l + 1)
      BY <1>3, <1>12, <1>14
    <2>4. Back(b, l) <= Back(b, 1) /\ Back(b, 0) = Back(b, 0 + 1) + SHORT_PACKET
      BY <1>3, <1>14
    <2>5. Back(b, l) \in Int /\ Back(b, l + 1) \in Int /\ Back(b, 1) \in Int /\ Back(b, k0) \in Int
      BY <1>3, <1>12
    <2>. QED  BY <1>1, <1>3, <1>9, <2>1, <2>2, <2>3, <2>4, <2>5
  \* A packet at the end would reach a place the search has found erased.
  <1>16. ASSUME NEW c \in Cells, BlockOf(c) = b, old[c] \in Packets, ~(c < e) PROVE FALSE
    <2>1. PICK k \in Nat \ {0} : Back(b, k) <= c /\ c < Back(b, k) + SHORT_PACKET
      BY <1>1, <1>16, BackOf
    <2>2. PICK u \in Int : u = Back(b, k)
      BY <1>3
    <2>3. c \in Nat /\ e <= c
      BY <1>15, <1>16, CellFacts
    <2>4. PICK j \in Nat : k = j + 1 /\ Back(b, j) = u + SHORT_PACKET
      <3>1. k - 1 \in Nat /\ k = (k - 1) + 1
        OBVIOUS
      <3>2. Back(b, k - 1) = Back(b, (k - 1) + 1) + SHORT_PACKET
        BY <1>3, <3>1
      <3>. QED  BY <2>2, <3>1, <3>2
    <2>5. j < l
      <3>1. Back(b, l) < Back(b, j)
        BY <1>1, <1>6, <1>14, <1>15, <2>1, <2>2, <2>3, <2>4
      <3>. QED  BY <1>3, <3>1
    <2>6. k \in 1 .. BLOCK /\ k <= l /\ ~(m <= k)
      BY <1>1, <1>12, <1>14, <2>4, <2>5
    <2>7. e <= u
      BY <1>3, <1>6, <1>14, <2>2, <2>6
    <2>8. u \in Cells
      <3>1. BLOCK <= c /\ c < DEVICE
        BY <1>1, <1>16 DEF Cells, RDU_LOG_ADDR_START
      <3>2. BLOCK <= x
        BY <1>1, <1>2
      <3>3. u \in Nat /\ BLOCK <= u /\ u < DEVICE
        BY <1>1, <1>2, <1>15, <2>1, <2>2, <2>3, <2>7, <3>1, <3>2
      <3>. QED  BY <1>1, <3>3 DEF Cells, RDU_LOG_ADDR_START
    <2>9. IsErased(u)
      <3>1. k \notin used
        BY <1>11, <2>6
      <3>. QED  BY <1>4, <2>2, <2>6, <2>8, <3>1
    <2>10. PICK g \in LogBlocks, a \in Nat :
              InBlock(a, g, recorder) /\ IsAt(old, bad, old[c], a, recorder)
      <3>1. Shows(old, bad, c)
        BY <1>1, <1>16 DEF Shows
      <3>. QED  BY <3>1, Zenon DEF CutOff, Whole
    <2>11. recorder \in 1 .. PAGE /\ SHORT_PACKET <= recorder /\ recorder \in Nat
      BY LogMachineAssumption, KeepAssumption DEF CutOff
    <2>12. c \in a .. a + recorder - 1
      BY <1>1, <1>16, <2>10, Zenon DEF IsAt, Shows
    <2>13. g = b
      BY <1>16, <2>10, <2>11, <2>12, PlaceCells
    <2>14. a + recorder <= z
      BY <1>1, <1>2, <2>10, <2>11, <2>13, PlaceBounds
    <2>15. ASSUME NEW d \in a .. a + recorder - 1 PROVE d \in Cells /\ flash[d] # ERASED
      <3>1. d \in Cells
        BY <2>10, <2>11, <2>15, PlaceCells
      <3>2. old[d] \in Packets
        BY <1>16, <2>10, <2>15, <3>1, Zenon DEF IsAt
      <3>. QED  BY <1>7, <3>1, <3>2
    <2>16. ~(u \in a .. a + recorder - 1)
      <3>1. u \in a .. a + recorder - 1 => ~IsErased(u)
        BY <1>8, <2>15
      <3>. QED  BY <2>9, <3>1
    <2>17. u < a
      BY <2>1, <2>2, <2>11, <2>12, <2>16
    <2>18. u + SHORT_PACKET \in a .. a + recorder - 1
      BY <1>1, <2>1, <2>2, <2>11, <2>12, <2>17
    <2>19. j # 0
      BY <1>3, <2>4, <2>11, <2>14, <2>18
    <2>20. j \in used
      <3>1. Back(b, j) \in Cells /\ ~IsErased(Back(b, j))
        <4>1. PICK d : d = u + SHORT_PACKET
          OBVIOUS
        <4>2. d \in Cells /\ ~IsErased(d)
          BY <1>8, <2>15, <2>18, <4>1
        <4>. QED  BY <2>4, <4>1, <4>2
      <3>2. j \in 1 .. BLOCK
        BY <1>1, <2>4, <2>6, <2>19
      <3>. QED  BY <1>4, <3>1, <3>2
    <2>. QED  BY <1>11, <1>14, <2>5, <2>20
  <1>. QED  BY <1>2, <1>15, <1>16

\* With the start of the log, or the block behind it, for the wrap address, the
\* reader takes the same way.
FindsTheLog ==
    \A old, w, n, b :
       CutOff(old, w, n, b) /\ Torn(old, b) /\ packetSize = SHORT_PACKET =>
         \E e \in Nat :
            /\ b * BLOCK < e /\ e < (b + 1) * BLOCK
            /\ \A c \in Cells : BlockOf(c) = b /\ old[c] \in Packets => c < e
            /\ ReadingOrder(LogFindEndOfMemory) = ReadingOrder([address |-> e, wrapAddr |-> w])

LEMMA FindsLog == FindsTheLog
  <1>. SUFFICES ASSUME NEW old, NEW w, NEW n, NEW b, CutOff(old, w, n, b), Torn(old, b),
                       packetSize = SHORT_PACKET
                PROVE  \E e \in Nat :
                         /\ b * BLOCK < e /\ e < (b + 1) * BLOCK
                         /\ \A c \in Cells : BlockOf(c) = b /\ old[c] \in Packets => c < e
                         /\ ReadingOrder(LogFindEndOfMemory)
                              = ReadingOrder([address |-> e, wrapAddr |-> w])
    BY Zenon DEF FindsTheLog
  <1>1. /\ BLOCK \in Nat \ {0} /\ SHORT_PACKET \in Nat \ {0} /\ DEVICE \in Nat
        /\ ERASED_BYTES \in 1 .. SHORT_PACKET /\ LAST_BLOCK \in Nat
        /\ b \in LogBlocks /\ b \in Nat /\ b * BLOCK \in Nat /\ BLOCK <= b * BLOCK
        /\ (b + 1) * BLOCK = b * BLOCK + BLOCK
        /\ DEVICE = (LAST_BLOCK + 1) * BLOCK
        /\ b = LAST_BLOCK \/ b + 1 \in LogBlocks
    BY BlockSums, LogMachineAssumption DEF CutOff
  <1>2. PICK z \in Nat : z = (b + 1) * BLOCK /\ z # 0
    BY <1>1
  <1>3. PICK e : e = EndOfPackets(b)
    OBVIOUS
  <1>4. /\ e \in Nat /\ b * BLOCK < e /\ e < (b + 1) * BLOCK
        /\ \A c \in Cells : BlockOf(c) = b /\ old[c] \in Packets => c < e
    BY <1>3, FindsEnd
  <1>5. BlockOf(e) = b
    BY <1>1, <1>4, CellOfBlock
  <1>6. PICK v : v = IF IsErased(z) THEN BLOCK ELSE z
    OBVIOUS
  <1>7. PICK found : found = [address |-> e, at |-> z, wrapAddr |-> v]
    OBVIOUS
  <1>8. LogFindEndOfMemory = found
    <2>1. Min(OpenBlocks) = b /\ ~IsErased(b * BLOCK)
      BY FindsBlock
    <2>. QED  BY <1>2, <1>3, <1>5, <1>6, <1>7, <2>1, Zenon
              DEF LogFindEndOfMemory, RDU_LOG_ADDR_START
  <1>9. found.address = e /\ found.wrapAddr = v
    BY <1>7
  <1>10. PICK s : s = [k \in 1 .. e - BLOCK |-> BLOCK + k - 1]
    OBVIOUS
  <1>11. PICK info : info = [address |-> e, wrapAddr |-> w]
    OBVIOUS
  <1>12. info.address = e /\ info.wrapAddr = w
    BY <1>11
  <1>13. BLOCK < e /\ e < z
    BY <1>1, <1>2, <1>4
  <1>14. ASSUME v = BLOCK PROVE ReadingOrder(found) = s
    BY <1>9, <1>10, <1>13, <1>14 DEF ReadingOrder, RDU_LOG_ADDR_START
  <1>15. CASE w = 0 /\ \A c \in Cells : (b + 1) * BLOCK <= c => old[c] = ERASED
    <2>1. ASSUME NEW c \in z .. z + ERASED_BYTES - 1, c \in Cells PROVE flash[c] = ERASED
      <3>1. c \in Nat /\ z <= c
        BY <1>1, <1>2, <2>1
      <3>2. old[c] = ERASED
        BY <1>2, <1>15, <2>1, <3>1
      <3>3. ~(c < (b + 1) * BLOCK - SHORT_PACKET)
        <4>1. ~(c < z - SHORT_PACKET)
          BY <1>1, <3>1
        <4>. QED  BY <1>2, <4>1
      <3>. QED  BY <2>1, <3>2, <3>3 DEF Torn
    <2>2. IsErased(z)
      BY <2>1 DEF IsErased
    <2>3. ReadingOrder(found) = s
      BY <1>6, <1>14, <2>2
    <2>4. ReadingOrder(info) = s
      <3>1. info.wrapAddr < info.address
        BY <1>1, <1>4, <1>12, <1>13, <1>15
      <3>. QED  BY <1>10, <1>12, <3>1, Zenon DEF ReadingOrder, RDU_LOG_ADDR_START
    <2>. QED  BY <1>4, <1>8, <1>11, <2>3, <2>4
  <1>16. CASE w = z /\ b = LAST_BLOCK
    <2>1. z = DEVICE
      BY <1>1, <1>2, <1>16
    <2>2. ASSUME NEW c \in z .. z + ERASED_BYTES - 1 PROVE c \notin Cells
      BY <1>1, <2>1, <2>2 DEF Cells, RDU_LOG_ADDR_START
    <2>3. IsErased(z)
      BY <2>2 DEF IsErased
    <2>4. ReadingOrder(found) = s
      BY <1>6, <1>14, <2>3
    <2>5. PICK d \in Int : d = RDU_LOG_ADDR_END /\ d < z
      BY <2>1, <1>1, LogMachineAssumption DEF RDU_LOG_ADDR_END
    <2>6. PICK t : t = [k \in 1 .. d - z |-> z + k - 1]
      OBVIOUS
    <2>7. ReadingOrder(info) = t \o s
      <3>1. ~(info.wrapAddr < info.address)
        BY <1>1, <1>4, <1>12, <1>13, <1>16
      <3>. QED  BY <1>10, <1>12, <1>16, <2>5, <2>6, <3>1, Zenon
                DEF ReadingOrder, RDU_LOG_ADDR_START
    <2>8. t = <<>>
      <3>1. 1 .. d - z = {}
        BY <2>5
      <3>. QED  BY <2>6, <3>1
    <2>9. s \in Seq(Nat)
      <3>1. e - BLOCK \in Nat /\ \A k \in 1 .. e - BLOCK : BLOCK + k - 1 \in Nat
        BY <1>1, <1>4, <1>13
      <3>. QED  BY <1>10, <3>1
    <2>10. t \o s = s
      BY <2>8, <2>9
    <2>. QED  BY <1>4, <1>8, <1>11, <2>4, <2>7, <2>10
  <1>17. CASE w = z /\ b # LAST_BLOCK
    <2>1. b + 1 \in LogBlocks
      BY <1>1, <1>17
    <2>2. Starts(old, b + 1)
      <3>1. Behind(w, (b + 1) * BLOCK)
        BY <1>2, <1>17 DEF Behind
      <3>. QED  BY <2>1, <3>1, Zenon DEF CutOff, AllBegun
    <2>3. z \in z .. z + SHORT_PACKET - 1 /\ z \in z .. z + ERASED_BYTES - 1
      BY <1>1
    <2>4. z \in Cells
      BY <1>2, <2>1, <2>3, StartCells
    <2>5. old[z] \in Packets
      BY <1>2, <2>2, <2>3, Zenon DEF Starts
    <2>6. flash[z] # ERASED
      BY <2>4, <2>5, PacketNumbers DEF Torn
    <2>7. v = z
      BY <1>6, <2>3, <2>4, <2>6 DEF IsErased
    <2>8. ReadingOrder(found) = ReadingOrder(info)
      BY <1>9, <1>12, <1>17, <2>7, Zenon DEF ReadingOrder
    <2>. QED  BY <1>4, <1>8, <1>11, <2>8
  <1>18. \/ w = 0 /\ \A c \in Cells : (b + 1) * BLOCK <= c => old[c] = ERASED
         \/ w = z
    BY <1>2 DEF CutOff
  <1>. QED  BY <1>15, <1>16, <1>17, <1>18

-----------------------------------------------------------------------------
(* What a reader finds after a restart.                                    *)

MetGrows ==
    \A o : Len(o) \in Nat =>
       /\ Met(o)[0] = <<>>
       /\ \A n \in Nat : n < Len(o) =>
             Met(o)[n + 1] = IF Begins(o, n + 1)
                             THEN Append(Met(o)[n], flash[o[n + 1]])
                             ELSE Met(o)[n]

LEMMA MetAlways == MetGrows
  BY MetSteps DEF MetGrows

\* The cells keep what they hold, but for erased ones.
SpoilsErased ==
    \A c \in Cells : flash'[c] = flash[c] \/ (flash[c] = ERASED /\ flash'[c] = GARBAGE)

\* Reading is none the wiser.
LEMMA SameMet ==
  ASSUME SpoilsErased, bad' = bad, NEW order \in Seq(Cells)
  PROVE  PacketsRead(order)' = PacketsRead(order)
  <1>1. Len(order) \in Nat /\ \A n \in 1 .. Len(order) : order[n] \in Cells
    OBVIOUS
  <1>2. ERASED # GARBAGE /\ ERASED \notin Packets /\ GARBAGE \notin Packets
    BY PacketNumbers DEF ERASED, GARBAGE
  <1>3. ASSUME NEW n \in 1 .. Len(order)
        PROVE  /\ Begins(order, n)' <=> Begins(order, n)
               /\ Begins(order, n) => flash'[order[n]] = flash[order[n]]
    <2>1. PICK c \in Cells : c = order[n]
      BY <1>1
    <2>2. flash'[c] \in Packets <=> flash[c] \in Packets
      BY <1>2, Zenon DEF SpoilsErased
    <2>3. flash[c] \in Packets => flash'[c] = flash[c]
      BY <1>2, Zenon DEF SpoilsErased
    <2>4. ASSUME n > 1, flash[c] \in Packets
          PROVE  flash'[order[n - 1]] = flash'[c] <=> flash[order[n - 1]] = flash[c]
      <3>1. PICK d \in Cells : d = order[n - 1]
        <4>1. n - 1 \in 1 .. Len(order)
          BY <2>4
        <4>. QED  BY <1>1, <4>1
      <3>2. flash'[d] = flash[d] \/ (flash[d] = ERASED /\ flash'[d] = GARBAGE)
        BY Zenon DEF SpoilsErased
      <3>. QED  BY <1>2, <2>3, <2>4, <3>1, <3>2, Zenon
    <2>5. Begins(order, n)' <=>
             /\ flash'[order[n]] \in Packets /\ BlockOf(order[n]) \notin bad'
             /\ n > 1 => \/ flash'[order[n]] # flash'[order[n - 1]]
                         \/ BlockOf(order[n - 1]) \in bad'
      BY Zenon DEF Begins, Packets, BlockOf
    <2>. QED  BY <2>1, <2>2, <2>3, <2>4, <2>5, Zenon DEF Begins
  <1>4. /\ Met(order)[0] = <<>>
        /\ \A n \in Nat : n < Len(order) =>
              Met(order)[n + 1] = IF Begins(order, n + 1)
                                  THEN Append(Met(order)[n], flash[order[n + 1]])
                                  ELSE Met(order)[n]
    BY <1>1, MetAlways, Zenon DEF MetGrows
  <1>5. MetGrows'
    BY MetAlways, PTL
  <1>6. /\ (Met(order)')[0] = <<>>
        /\ \A n \in Nat : n < Len(order) =>
              (Met(order)')[n + 1] = IF Begins(order, n + 1)'
                                     THEN Append((Met(order)')[n], flash'[order[n + 1]])
                                     ELSE (Met(order)')[n]
    BY <1>1, <1>5, Zenon DEF MetGrows
  <1>. DEFINE S == {n \in Nat : (Met(order)')[n] = Met(order)[n]}
  <1>7. 0 \in S
    BY <1>4, <1>6
  <1>8. \A n \in S : n < Len(order) => n + 1 \in S
    <2>1. SUFFICES ASSUME NEW n \in S, n < Len(order) PROVE n + 1 \in S
      OBVIOUS
    <2>2. n \in Nat /\ (Met(order)')[n] = Met(order)[n]
      BY <2>1
    <2>3. n + 1 \in 1 .. Len(order) /\ n + 1 \in Nat
      BY <1>1, <2>1, <2>2
    <2>4. (Met(order)')[n + 1] = Met(order)[n + 1]
      BY <1>3, <1>4, <1>6, <2>1, <2>2, <2>3, Zenon
    <2>. QED  BY <2>3, <2>4
  <1>. HIDE DEF S
  <1>9. \A n \in 0 .. Len(order) : n \in S
    BY <1>1, <1>7, <1>8, CountUp, Zenon
  <1>10. Len(order) \in S
    BY <1>1, <1>9
  <1>11. (Met(order)')[Len(order)] = Met(order)[Len(order)]
    BY <1>10 DEF S
  <1>. QED  BY <1>11, Zenon DEF PacketsRead

\* In the middle of a block, what the search needs is there.
LEMMA CutOffHere ==
  ASSUME LogIInv, OrderIInv, SearchIInv, Position % BLOCK # 0
  PROVE  \E b \in LogBlocks : /\ CutOff(flash, wrapAddr, Position, b)
                              /\ InBlock(Position, b, recorder)
  <1>1. /\ BLOCK \in Nat \ {0} /\ SHORT_PACKET \in Nat \ {0} /\ LAST_BLOCK \in Nat
        /\ recorder \in {SHORT_PACKET, LONG_PACKET}
        /\ recorder \in 1 .. PAGE /\ SHORT_PACKET <= recorder /\ recorder \in Nat
        /\ PlaceIsGood /\ bad \subseteq LogBlocks
    BY IInvParts, LogMachineAssumption, KeepAssumption DEF FlashTypes
  <1>2. PICK n : n = Position
    OBVIOUS
  <1>3. ASSUME NEW g \in Nat PROVE n # g * BLOCK
    <2>1. (g * BLOCK + 0) % BLOCK = 0
      <3>1. 0 \in 0 .. BLOCK - 1
        BY <1>1
      <3>. QED  BY <1>1, <3>1, Quotient
    <2>2. g * BLOCK + 0 = g * BLOCK
      BY <1>1
    <2>. QED  BY <1>2, <2>1, <2>2
  <1>4. PICK b \in LogBlocks : InBlock(n, b, recorder)
    <2>1. n # DEVICE
      <3>1. LAST_BLOCK + 1 \in Nat
        BY <1>1
      <3>. QED  BY <1>3, <3>1 DEF DEVICE
    <2>. QED  BY <1>1, <1>2, <2>1 DEF PlaceIsGood, OnGrid
  <1>5. /\ b \in Nat /\ b * BLOCK \in Nat /\ (b + 1) * BLOCK = b * BLOCK + BLOCK
        /\ n \in Nat /\ b * BLOCK <= n /\ n + recorder <= (b + 1) * BLOCK
        /\ n # b * BLOCK /\ BlockOf(n) = b
    BY <1>1, <1>3, <1>4, BlockSums, PlaceBounds
  <1>6. PICK x \in Nat, z \in Nat : x = b * BLOCK /\ z = (b + 1) * BLOCK /\ z = x + BLOCK
    BY <1>1, <1>5
  <1>7. b * BLOCK < n /\ n + SHORT_PACKET <= (b + 1) * BLOCK
    BY <1>1, <1>5, <1>6
  <1>8. CASE wrapAddr = 0
    <2>1. ErasedFrom(n) /\ bad = {}
      BY <1>1, <1>2, <1>8, Zenon DEF PlaceIsGood, SearchIInv
    <2>2. \A c \in Cells : n <= c => flash[c] = ERASED
      <3>1. ASSUME NEW c \in Cells, n <= c PROVE flash[c] = ERASED
        <4>1. c >= n
          BY <1>5, <3>1, CellFacts
        <4>. QED  BY <2>1, <4>1 DEF ErasedFrom
      <3>. QED  BY <3>1
    <2>3. ASSUME NEW c \in Cells, (b + 1) * BLOCK <= c PROVE n <= c
      BY <1>1, <1>5, <1>6, <2>3, CellFacts
    <2>. QED  BY <1>1, <1>2, <1>4, <1>5, <1>7, <1>8, <2>1, <2>2, <2>3, Zenon
              DEF CutOff, SearchIInv, OrderIInv, FlashIsSound
  <1>9. CASE wrapAddr # 0
    <2>1. PICK g \in LogBlocks \ bad :
            /\ wrapAddr = (g + 1) * BLOCK /\ g * BLOCK <= n /\ n <= wrapAddr
            /\ \A c \in Cells : c >= n /\ c < wrapAddr => flash[c] = ERASED
      BY <1>1, <1>2, <1>9, Zenon DEF PlaceIsGood, ErasedToWrap
    <2>2. g \in Nat /\ (g + 1) * BLOCK \in Nat
      BY WrapNumbers, BlockSums
    <2>3. n # (g + 1) * BLOCK
      BY <1>3, <2>2
    <2>4. BlockOf(n) = g
      <3>1. n < (g + 1) * BLOCK
        BY <1>5, <2>1, <2>2, <2>3
      <3>. QED  BY <1>5, <2>1, <2>2, <3>1, CellOfBlock
    <2>5. g = b
      BY <1>5, <2>4
    <2>6. \A c \in Cells : n <= c /\ c < (b + 1) * BLOCK => flash[c] = ERASED
      <3>1. ASSUME NEW c \in Cells, n <= c, c < (b + 1) * BLOCK PROVE flash[c] = ERASED
        <4>1. c >= n
          BY <1>5, <3>1, CellFacts
        <4>. QED  BY <2>1, <2>5, <3>1, <4>1
      <3>. QED  BY <3>1
    <2>. QED  BY <1>1, <1>2, <1>4, <1>5, <1>7, <2>1, <2>5, <2>6, Zenon
              DEF CutOff, SearchIInv, OrderIInv, FlashIsSound
  <1>. QED  BY <1>8, <1>9

\* What a power failure in the middle of block b does to the cells.
TornAt(b) ==
    \A c \in Cells :
        \/ flash'[c] = flash[c]
        \/ /\ flash[c] = ERASED /\ flash'[c] = GARBAGE /\ BlockOf(c) = b
           /\ c < (b + 1) * BLOCK - SHORT_PACKET

\* A power failure that is not at a boundary: in the middle of a block, it
\* leaves the flash as it is or a piece of a packet.
LEMMA PowerTears ==
  ASSUME LogIInv, OrderIInv, SearchIInv, PowerFails \/ PowerFailsInside,
         faults' \subseteq Calm \cup {"power"}
  PROVE  \E b \in LogBlocks : CutOff(flash, wrapAddr, Position, b) /\ TornAt(b)
  <1>1. /\ FlashTypes /\ FlagsAgree /\ BLOCK \in Nat \ {0} /\ logErase # 1
        /\ faults \subseteq UNION Faults
    BY IInvParts, LogMachineAssumption, Zenon DEF SearchIInv, FlashTypes
  <1>2. ASSUME NEW kind, Happen({kind}) PROVE kind \in Calm \cup {"power"}
    <2>1. {kind} \subseteq faults'
      BY <1>1, <1>2, HappenFacts, Zenon
    <2>. QED  BY <2>1, Zenon
  <1>3. "power at boundary" \notin Calm \cup {"power"}
    BY CalmIsHarmless, Zenon
  <1>4. CASE PowerFails
    <2>1. PowerFault(Position) # "power at boundary"
      BY <1>2, <1>3, <1>4, Zenon DEF PowerFails
    <2>2. Position % BLOCK # 0
      BY <2>1 DEF PowerFault
    <2>3. flash' = flash
      BY <1>4, Zenon DEF PowerFails
    <2>4. PICK b \in LogBlocks : CutOff(flash, wrapAddr, Position, b)
      BY <2>2, CutOffHere
    <2>. QED  BY <2>3, <2>4, Zenon DEF TornAt
  <1>5. CASE PowerFailsInside
    <2>1. FailInRun
      <3>1. ~FailInErase
        BY <1>1, Zenon DEF FailInErase, FlagsAgree
      <3>. QED  BY <1>5, <3>1, Zenon DEF PowerFailsInside
    <2>2. machState = "RUN" /\ packetSize = recorder /\ Position = address
      BY <1>1, <2>1, Zenon DEF FailInRun, FlagsAgree, Position
    <2>3. PICK failing \in FailingErases : failing = {}
      <3>1. {} \in FailingErases
        BY Zenon DEF FailingErases
      <3>. QED  BY <3>1
    <2>4. PICK m : m = LogManageAddresses(failing)
      OBVIOUS
    <2>5. PICK table : table = bad \cup failing
      OBVIOUS
    <2>6. PICK cells : cells = Wiped(flash, m.erases)
      OBVIOUS
    <2>7. PICK a : a = HandleBadBlock(m.address, table)
      OBVIOUS
    <2>8. /\ a % BLOCK # 0 /\ LogIncrementAddress(a) % BLOCK # 0
          /\ \E k \in 1 .. packetSize - 1 : flash' = Written(cells, a, k, GARBAGE)
      <3>1. table = bad
        BY <2>3, <2>5
      <3>2. ~Happen({"power at boundary"})
        BY <1>2, <1>3, Zenon
      <3>. QED  BY <2>1, <2>3, <2>4, <2>6, <2>7, <3>1, <3>2, Zenon DEF FailInRun
    <2>9. cells = flash /\ a = address
      <3>1. failing \subseteq LogManageAddresses(failing).tried
        BY <2>3
      <3>2. (\E to \in LogBlocks : a = to * BLOCK) \/ (cells = flash /\ a = address)
        <4>1. machState = "RUN" /\ packetSize = recorder
          BY <2>2
        <4>2. RoomIsAt(a, cells, m)
          BY <2>4, <2>5, <2>6, <2>7, <3>1, <4>1, SearchRoom, Zenon
        <4>. QED  BY <4>2 DEF RoomIsAt
      <3>3. ASSUME NEW to \in LogBlocks PROVE (to * BLOCK) % BLOCK = 0
        <4>1. to \in Nat /\ 0 \in 0 .. BLOCK - 1
          BY <1>1, BlockSums
        <4>2. (to * BLOCK + 0) % BLOCK = 0
          BY <1>1, <4>1, Quotient
        <4>3. to * BLOCK + 0 = to * BLOCK
          BY <1>1, <4>1
        <4>. QED  BY <4>2, <4>3
      <3>. QED  BY <2>8, <3>2, <3>3
    <2>10. PICK b \in LogBlocks : /\ CutOff(flash, wrapAddr, Position, b)
                                  /\ InBlock(a, b, recorder)
      BY <2>2, <2>8, <2>9, CutOffHere
    <2>11. /\ recorder \in {SHORT_PACKET, LONG_PACKET} /\ recorder \in Nat
           /\ SHORT_PACKET <= recorder /\ recorder \in 1 .. PAGE /\ SHORT_PACKET \in Nat
      BY <1>1, LogMachineAssumption, KeepAssumption DEF FlashTypes
    <2>12. PICK next : next = LogIncrementAddress(a)
      OBVIOUS
    <2>13. /\ b \in Nat /\ next \in Nat /\ a + recorder <= next
           /\ next = (b + 1) * BLOCK \/ InBlock(next, b, recorder)
      <3>1. b \in Nat
        BY BlockSums
      <3>. QED  BY <2>2, <2>10, <2>11, <2>12, <3>1, NextPlace
    <2>14. next # (b + 1) * BLOCK
      <3>1. b + 1 \in Nat /\ 0 \in 0 .. BLOCK - 1
        BY <1>1, <2>13
      <3>2. ((b + 1) * BLOCK + 0) % BLOCK = 0
        BY <1>1, <3>1, Quotient
      <3>3. (b + 1) * BLOCK + 0 = (b + 1) * BLOCK
        BY <1>1, <3>1
      <3>. QED  BY <2>8, <2>12, <3>2, <3>3
    <2>15. PICK z \in Nat : z = (b + 1) * BLOCK
      BY <1>1, <2>13
    <2>16. next + recorder <= z /\ a \in Nat
      BY <2>10, <2>11, <2>13, <2>14, <2>15, PlaceBounds
    <2>17. PICK k \in 1 .. recorder - 1 : flash' = Written(flash, a, k, GARBAGE)
      BY <2>2, <2>8, <2>9
    <2>18. ASSUME NEW c \in Cells, flash'[c] # flash[c]
           PROVE  /\ flash[c] = ERASED /\ flash'[c] = GARBAGE /\ BlockOf(c) = b
                  /\ c < (b + 1) * BLOCK - SHORT_PACKET
      <3>1. c \in a .. a + k - 1 /\ flash'[c] = GARBAGE
        BY <2>17, <2>18 DEF Written
      <3>2. c \in a .. a + recorder - 1
        BY <2>11, <2>16, <3>1
      <3>3. BlockOf(c) = b
        BY <2>10, <2>11, <3>2, PlaceCells
      <3>4. a <= c /\ c < z /\ c < z - SHORT_PACKET
        BY <2>11, <2>13, <2>16, <3>1
      <3>5. flash[c] = ERASED
        BY <2>2, <2>9, <2>10, <2>15, <3>4 DEF CutOff
      <3>. QED  BY <2>15, <3>1, <3>3, <3>4, <3>5
    <2>. QED  BY <2>10, <2>18 DEF TornAt
  <1>. QED  BY <1>4, <1>5

\* The log that is read up to the end of the packets in block b is all the
\* flash shows.
LEMMA ReadsCutOff ==
  ASSUME ReaderIInv, NEW b, CutOff(flash, wrapAddr, Position, b),
         NEW e \in Nat, b * BLOCK < e, e < (b + 1) * BLOCK,
         \A c \in Cells : BlockOf(c) = b /\ flash[c] \in Packets => c < e,
         NEW order, order = ReadingOrder([address |-> e, wrapAddr |-> wrapAddr])
  PROVE  order \in Seq(Cells) /\ IsRead(PacketsRead(order), AllShown)
  <1>1. LogIInv /\ OrderIInv /\ NoneAtEnd
    BY Zenon DEF ReaderIInv
  <1>2. /\ BLOCK \in Nat \ {0} /\ DEVICE \in Nat /\ b \in LogBlocks /\ b \in Nat
        /\ b * BLOCK \in Nat /\ BLOCK <= b * BLOCK
        /\ (b + 1) * BLOCK = b * BLOCK + BLOCK /\ (b + 1) * BLOCK <= DEVICE
        /\ wrapAddr \in Nat
    BY <1>1, BlockSums, WrapNumbers DEF CutOff
  <1>3. /\ e \in BLOCK .. DEVICE
        /\ wrapAddr # 0 => wrapAddr = (b + 1) * BLOCK /\ e <= wrapAddr
    <2>1. PICK x \in Nat, z \in Nat : x = b * BLOCK /\ z = (b + 1) * BLOCK
      BY <1>2
    <2>2. wrapAddr = 0 \/ wrapAddr = z
      BY <2>1 DEF CutOff
    <2>. QED  BY <1>2, <2>1, <2>2
  <1>4. PICK info : info = [address |-> e, wrapAddr |-> wrapAddr]
    OBVIOUS
  <1>5. info.address = e /\ info.wrapAddr = wrapAddr /\ order = ReadingOrder(info)
    BY <1>4
  <1>6. /\ FollowsLog(order, wrapAddr)
        /\ \A k \in 1 .. Len(order) : order[k] < e \/ Behind(wrapAddr, order[k])
        /\ \A c \in Cells :
              c < e \/ (Behind(wrapAddr, c) /\ c < RDU_LOG_ADDR_END)
                => \E k \in 1 .. Len(order) : order[k] = c
    BY <1>1, <1>3, <1>5, ReadsAll
  <1>7. order \in Seq(Cells) /\ \A k \in 1 .. Len(order) : order[k] \in Cells
    BY <1>6 DEF FollowsLog
  <1>8. ShownIn(order, Len(order)) \subseteq AllShown
    BY <1>7 DEF ShownIn, AllShown
  <1>9. ASSUME NEW c \in Cells, Shows(flash, bad, c)
        PROVE  \E k \in 1 .. Len(order) : order[k] = c
    <2>1. BlockOf(c) \in Nat /\ c \in Nat /\ flash[c] \in Packets /\ flash[c] # ERASED
      BY <1>9, CellFacts, BlockOfCell, PacketNumbers DEF Shows
    <2>2. CASE BlockOf(c) = b
      BY <1>6, <2>1, <2>2
    <2>3. CASE BlockOf(c) < b
      <3>1. c < b * BLOCK
        BY <1>2, <2>3, BlockOrder
      <3>2. c < e
        BY <1>2, <2>1, <3>1
      <3>. QED  BY <1>6, <3>2
    <2>4. CASE b + 1 <= BlockOf(c)
      <3>1. (b + 1) * BLOCK <= c
        BY <1>2, <2>4, BlockOrder
      <3>2. wrapAddr # 0
        BY <2>1, <3>1 DEF CutOff
      <3>3. Behind(wrapAddr, c)
        BY <1>2, <1>3, <2>1, <3>1, <3>2 DEF Behind
      <3>4. c < RDU_LOG_ADDR_END
        BY <1>1, <1>9 DEF NoneAtEnd
      <3>. QED  BY <1>6, <3>3, <3>4
    <2>. QED  BY <1>2, <2>1, <2>2, <2>3, <2>4
  <1>10. ASSUME NEW x \in AllShown PROVE x \in ShownIn(order, Len(order))
    <2>1. PICK c \in Cells : Shows(flash, bad, c) /\ x = flash[c]
      BY <1>10, Zenon DEF AllShown
    <2>2. PICK k \in 1 .. Len(order) : order[k] = c
      BY <1>9, <2>1
    <2>. QED  BY <2>1, <2>2, Zenon DEF ShownIn
  <1>11. ShownIn(order, Len(order)) = AllShown
    BY <1>8, <1>10
  <1>. QED  BY <1>1, <1>6, <1>7, <1>11, ScanIs, Zenon

\* Reading after the search finds what was read before it, and the packet that
\* was written but not yet confirmed.
LEMMA RestartReads ==
  ASSUME ReadIInv, NEW b, CutOff(flash, wrapAddr, Position, b), TornAt(b),
         UNCHANGED bad, UNCHANGED recorder, packetSize' = SHORT_PACKET,
         machState' = "IDLE", MCNext
  PROVE  log' \in {log, Append(log, TempDataBuf)}
  <1>1. ReaderIInv /\ IsRead(log, LogSet) /\ LogIInv
    BY Zenon DEF ReadIInv, ReaderIInv
  <1>2. PICK old : old = flash
    OBVIOUS
  <1>3. PICK w : w = wrapAddr
    OBVIOUS
  <1>4. PICK n : n = Position
    OBVIOUS
  <1>5. CutOff(old, w, n, b)
    BY <1>2, <1>3, <1>4, Zenon
  <1>6. CutOff(old, w, n, b)'
    BY <1>5, Zenon DEF CutOff
  <1>7. Torn(old, b)'
    BY <1>2, Zenon DEF Torn, TornAt, Cells, BlockOf
  <1>8. PICK e \in Nat :
          /\ b * BLOCK < e /\ e < (b + 1) * BLOCK
          /\ \A c \in Cells : BlockOf(c) = b /\ old[c] \in Packets => c < e
          /\ ReadingOrder(LogFindEndOfMemory)'
               = ReadingOrder([address |-> e, wrapAddr |-> w])'
    <2>1. FindsTheLog'
      BY FindsLog, PTL
    <2>. QED  BY <1>6, <1>7, <2>1, Zenon DEF FindsTheLog, Cells, BlockOf, Packets
  <1>9. PICK order : order = ReadingOrder([address |-> e, wrapAddr |-> w])
    OBVIOUS
  <1>10. order \in Seq(Cells) /\ IsRead(PacketsRead(order), AllShown)
    <2>1. \A c \in Cells : BlockOf(c) = b /\ flash[c] \in Packets => c < e
      BY <1>2, <1>8, Zenon
    <2>2. order = ReadingOrder([address |-> e, wrapAddr |-> wrapAddr])
      BY <1>3, <1>9, Zenon
    <2>. QED  BY <1>1, <1>8, <2>1, <2>2, ReadsCutOff, Zenon
  <1>11. log' = PacketsRead(order)'
    <2>1. LogInfo' = LogFindEndOfMemory'
      BY Zenon DEF LogInfo
    <2>2. \E info \in {LogInfo'} : \E o \in {ReadingOrder(info)'} : log' = PacketsRead(o)'
      BY Zenon DEF MCNext
    <2>3. PICK info : info = LogInfo' /\ \E o \in {ReadingOrder(info)'} : log' = PacketsRead(o)'
      BY <2>2
    <2>4. PICK o : o = ReadingOrder(info)' /\ log' = PacketsRead(o)'
      BY <2>3
    <2>5. o = order
      BY <1>8, <1>9, <2>1, <2>3, <2>4, Zenon DEF ReadingOrder
    <2>. QED  BY <2>4, <2>5, Zenon
  <1>12. PacketsRead(order)' = PacketsRead(order)
    <2>1. SpoilsErased
      BY Zenon DEF TornAt, SpoilsErased
    <2>. QED  BY <1>10, <2>1, SameMet, Zenon
  <1>13. IsRead(log', AllShown)
    BY <1>10, <1>11, <1>12, Zenon
  <1>14. CASE machState # "CONFIRM"
    <2>1. LogSet = AllShown
      BY <1>14 DEF LogSet
    <2>2. log' = log
      BY <1>1, <1>13, <2>1, SameRead, Zenon
    <2>. QED  BY <2>2
  <1>15. CASE machState = "CONFIRM"
    <2>1. PICK p : p = TempDataBuf
      OBVIOUS
    <2>2. p \in Packets /\ AllShown = LogSet \cup {p} /\ \A x \in LogSet : x < p
      BY <1>1, <1>15, <2>1, NewestWritten, Zenon
    <2>3. IsRead(Append(log, p), LogSet \cup {p})
      BY <1>1, <2>2, ReadOn
    <2>4. log' = Append(log, p)
      BY <1>13, <2>2, <2>3, SameRead, Zenon
    <2>. QED  BY <2>1, <2>4
  <1>. QED  BY <1>14, <1>15

\* A step that starts the board again, of all that may happen.
LEMMA OnlyRestarts ==
  ASSUME machState # "ERASE", Next, machState # "IDLE", machState' = "IDLE"
  PROVE  /\ PowerFails \/ PowerFailsInside
         /\ Restart
         /\ \E kind : Happen({kind}) /\ kind \notin Calm
  <1>1. ~Idle /\ ~RunErase /\ ~RunNothing /\ ~Confirm /\ ~Erase
    BY Zenon DEF Idle, RunErase, RunNothing, Confirm, Erase, infoVars
  <1>2. ~Run /\ ~WriteFail
    <2>1. Run \/ WriteFail => machState' \in {"RUN", "CONFIRM", "WRITE_FAIL"}
      BY Zenon DEF Run, Store, WriteFail
    <2>. QED  BY <2>1
  <1>3. ~ReceivePacket /\ ~ReceiveGarbage /\ ~EraseFlash
    BY Zenon DEF ReceivePacket, ReceiveGarbage, Receive, EraseFlash
  <1>4. PowerFails \/ PowerFailsInside
    BY <1>1, <1>2, <1>3, Zenon DEF Next, LogMachine
  <1>5. \E kind : Happen({kind}) /\ kind \notin Calm
    <2>1. PowerFault(Position) \in {"power", "power at boundary"}
      BY Zenon DEF PowerFault
    <2>2. \/ Happen({PowerFault(Position)}) \/ Happen({"power at boundary"})
          \/ Happen({"power"}) \/ Happen({"power in erase"})
      BY <1>4, Zenon DEF PowerFails, PowerFailsInside, FailInRun, FailInErase
    <2>. QED  BY <2>1, <2>2, CalmIsHarmless, Zenon
  <1>. QED  BY <1>4, <1>5, Zenon DEF PowerFails, PowerFailsInside

\* What the search needs holds in every behaviour of calm faults.
SearchInv == ReadInv /\ (faults \subseteq Calm => SearchIInv)

LEMMA SearchInvHolds == MCSpec => []SearchInv
  <1>1. MCInit => SearchInv
    <2>1. MCInit => ReadInv
      <3>1. MCInit => faults = {}
        BY DEF MCInit, Init
      <3>. QED  BY <3>1, ReadInit DEF ReadInv
    <2>. QED  BY <2>1, SearchInit, Zenon DEF MCInit, SearchInv
  <1>2. ASSUME SearchInv, ReadInv', MCNext PROVE SearchInv'
    <2>1. Next /\ faults \subseteq UNION Faults
      BY <1>2, Zenon DEF MCNext, SearchInv, ReadInv
    <2>2. ASSUME faults' \subseteq Calm PROVE SearchIInv'
      <3>1. faults \subseteq Calm /\ faults \subseteq Harmless
        BY <2>1, <2>2, FaultsStay, CalmIsHarmless, Zenon
      <3>2. LogIInv /\ SearchIInv
        BY <1>2, <3>1, Zenon DEF SearchInv, ReadInv, ReadIInv, ReaderIInv
      <3>. QED  BY <2>1, <2>2, <3>2, SearchStep, Zenon
    <2>3. (faults \subseteq Calm => SearchIInv)'
      BY <2>2, Zenon DEF Calm
    <2>. QED  BY <1>2, <2>3, Zenon DEF SearchInv
  <1>3. ASSUME SearchInv, ReadInv', UNCHANGED mcVars PROVE SearchInv'
    <2>1. /\ faults' = faults /\ UNCHANGED <<flash, bad, wrapAddr, logErase>>
          /\ UNCHANGED <<machState, address, packetSize>>
      BY <1>3, Zenon DEF mcVars
    <2>2. Position' = Position
      BY <2>1, Zenon DEF Position, LogIncrementAddress
    <2>3. ASSUME faults' \subseteq Calm PROVE SearchIInv'
      BY <1>3, <2>1, <2>2, <2>3, SearchKept, Zenon DEF SearchInv
    <2>4. (faults \subseteq Calm => SearchIInv)'
      BY <2>3, Zenon DEF Calm
    <2>. QED  BY <1>3, <2>4, Zenon DEF SearchInv
  <1>4. SearchInv /\ ReadInv' /\ [MCNext]_mcVars => SearchInv'
    BY <1>2, <1>3, Zenon
  <1>. QED  BY <1>1, <1>4, ReadInvHolds, PTL DEF MCSpec

\* The power fails, for the first time and not at a boundary, and the log is
\* found again.
IsFirstRestart ==
    /\ faults \subseteq Calm /\ faults' \subseteq Calm \cup {"power"}
    /\ machState # "IDLE" /\ machState' = "IDLE"

FindsLogAgain == IsFirstRestart => log' \in {log, Append(log, TempDataBuf)}

LEMMA RestartStep ==
  ASSUME SearchInv, MCNext, IsFirstRestart
  PROVE  log' \in {log, Append(log, TempDataBuf)}
  <1>1. /\ faults \subseteq Calm /\ faults' \subseteq Calm \cup {"power"}
        /\ machState # "IDLE" /\ machState' = "IDLE" /\ Next
    BY Zenon DEF IsFirstRestart, MCNext
  <1>2. ReadIInv /\ SearchIInv
    <2>1. faults \subseteq Harmless
      BY <1>1, CalmIsHarmless, Zenon
    <2>. QED  BY <1>1, <2>1, Zenon DEF SearchInv, ReadInv
  <1>3. /\ LogIInv /\ OrderIInv /\ FlagsAgree /\ logErase # 1
    BY <1>2, IInvParts, Zenon DEF ReadIInv, ReaderIInv, SearchIInv
  <1>4. (PowerFails \/ PowerFailsInside) /\ Restart
    <2>1. machState # "ERASE"
      BY <1>3, Zenon DEF FlagsAgree
    <2>. QED  BY <1>1, <2>1, OnlyRestarts, Zenon
  <1>5. PICK b \in LogBlocks : CutOff(flash, wrapAddr, Position, b) /\ TornAt(b)
    BY <1>1, <1>2, <1>3, <1>4, PowerTears, Zenon
  <1>6. UNCHANGED bad /\ UNCHANGED recorder /\ packetSize' = SHORT_PACKET
    BY <1>4, Zenon DEF Restart, InitLog, RDU_LOG_PACKET_SIZE
  <1>. QED  BY <1>1, <1>2, <1>5, <1>6, RestartReads, Zenon

\* After the first power failure, but at a boundary, LOG_IDLE_STATE finds the
\* log that was there, and the packet that was written but not yet confirmed:
\* through wraps and any number of bad blocks, and behind a packet that was cut
\* off.
THEOREM FirstRestartFindsLog == MCSpec => [][FindsLogAgain]_mcVars
  <1>1. SearchInv /\ [MCNext]_mcVars => [FindsLogAgain]_mcVars
    BY RestartStep, Zenon DEF FindsLogAgain
  <1>. QED  BY <1>1, SearchInvHolds, PTL DEF MCSpec

\* Nothing is erased on command where no such fault comes.
NoErase == logErase # 1 /\ machState # "ERASE"

MayErase == "erase" \in UNION Faults \/ "erase with last block" \in UNION Faults

LEMMA NoEraseInit == ASSUME Init PROVE NoErase
  BY DEF Init, NoErase

LEMMA NoEraseStays ==
  ASSUME NoErase, Next, ~MayErase
  PROVE  NoErase'
  <1>1. ~EraseFlash
    <2>1. ASSUME EraseFlash PROVE FALSE
      <3>1. EraseFault \in faults' /\ \E together \in Faults : faults' \subseteq together
        BY <2>1, Zenon DEF EraseFlash, Happen
      <3>2. EraseFault = "erase" \/ EraseFault = "erase with last block"
        BY Zenon DEF EraseFault
      <3>. QED  BY <3>1, <3>2, Zenon DEF MayErase
    <2>. QED  BY <2>1
  <1>2. ~RunErase /\ ~Erase
    BY Zenon DEF NoErase, RunErase, Erase
  <1>3. CASE PowerFails \/ PowerFailsInside
    <2>1. logErase' = 3 /\ machState' = "IDLE"
      BY <1>3, Zenon DEF PowerFails, PowerFailsInside, Restart, InitLog
    <2>. QED  BY <2>1 DEF NoErase
  <1>4. CASE Run
    <2>1. logErase' = logErase
      BY <1>4, Zenon DEF Run
    <2>2. machState' \in {"RUN", "CONFIRM", "WRITE_FAIL"}
      BY <1>4, Zenon DEF Run, Store
    <2>. QED  BY <2>1, <2>2 DEF NoErase
  <1>5. CASE WriteFail
    <2>1. logErase' = logErase /\ machState' \in {"RUN", "CONFIRM", "WRITE_FAIL"}
      BY <1>5, Zenon DEF WriteFail
    <2>. QED  BY <2>1 DEF NoErase
  <1>6. CASE Idle \/ RunNothing \/ Confirm
    <2>1. logErase' = logErase /\ machState' = "RUN"
      BY <1>6, Zenon DEF Idle, RunNothing, Confirm, infoVars
    <2>. QED  BY <2>1 DEF NoErase
  <1>7. CASE ReceivePacket \/ ReceiveGarbage
    <2>1. logErase' = logErase /\ machState' = machState
      BY <1>7, Zenon DEF ReceivePacket, ReceiveGarbage, Receive
    <2>. QED  BY <2>1, Zenon DEF NoErase
  <1>. QED  BY <1>1, <1>2, <1>3, <1>4, <1>5, <1>6, <1>7, Zenon DEF Next, LogMachine

\* Where the power fails once and not at a boundary, and nothing is erased on
\* command, every restart finds the log.
THEOREM RestartFindsLog ==
  UNION Faults \subseteq Calm \cup {"power"} => (MCSpec => RestartFindsEnd)
  <1>. SUFFICES ASSUME UNION Faults \subseteq Calm \cup {"power"}
                PROVE  MCSpec => RestartFindsEnd
    OBVIOUS
  <1>1. ~MayErase
    <2>1. "erase" # "power" /\ "erase with last block" # "power"
      OBVIOUS
    <2>. QED  BY <2>1, CalmIsHarmless, Zenon DEF MayErase
  <1>2. MCInit => NoErase
    BY NoEraseInit, Zenon DEF MCInit
  <1>3. NoErase /\ [MCNext]_mcVars => NoErase'
    <2>1. NoErase /\ MCNext => NoErase'
      BY <1>1, NoEraseStays, Zenon DEF MCNext
    <2>2. NoErase /\ UNCHANGED mcVars => NoErase'
      BY Zenon DEF NoErase, mcVars
    <2>. QED  BY <2>1, <2>2
  <1>4. ASSUME SearchInv, NoErase, MCNext, machState # "IDLE", machState' = "IDLE"
        PROVE  log' \in {log, Append(log, TempDataBuf)}
    <2>1. Next /\ faults \subseteq UNION Faults
      BY <1>4, Zenon DEF MCNext, SearchInv, ReadInv
    <2>2. PICK kind : Happen({kind}) /\ kind \notin Calm
      BY <1>4, <2>1, OnlyRestarts, Zenon DEF NoErase
    <2>3. {kind} \cap faults = {} /\ faults' = faults \cup {kind}
      BY <2>2 DEF Happen
    <2>4. faults' \subseteq Calm \cup {"power"}
      BY <2>1, FaultsStay, Zenon
    <2>5. kind = "power"
      BY <2>2, <2>3, <2>4, Zenon
    <2>6. faults \subseteq Calm
      BY <2>3, <2>4, <2>5, Zenon
    <2>7. IsFirstRestart
      BY <1>4, <2>4, <2>6, Zenon DEF IsFirstRestart
    <2>. QED  BY <1>4, <2>7, RestartStep, Zenon
  <1>. QED  BY <1>2, <1>3, <1>4, SearchInvHolds, PTL DEF MCSpec, RestartFindsEnd

=============================================================================
