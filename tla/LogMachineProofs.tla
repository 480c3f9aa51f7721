-------------------------- MODULE LogMachineProofs ---------------------------
(***************************************************************************)
(* The log in flash, for every geometry of pages and blocks, every size of *)
(* packet the machine is built for, every queue and every recorder: until  *)
(* power fails, a write is refused or an erase cuts into the traffic, its  *)
(* addresses stay on the grid of their pages, it never meets flash that    *)
(* was not erased, and a reader finds in it the packets in their order     *)
(* round the ring, each in one piece, and none missing but the oldest.     *)
(***************************************************************************)
EXTENDS LogMachine, SequenceTheorems, WellFoundedInduction, TLAPS

\* The faults the machine copes with by its own arithmetic.
Harmless == {"bad block", "bad packet", "overflow", "early packet", "erase"}

\* A place of block b for a packet of this size: in a page, behind the packets
\* before it.
InBlock(a, b, size) ==
    \E j, k \in Nat :
        /\ (j + 1) * PAGE <= BLOCK
        /\ (k + 1) * size <= PAGE
        /\ a = b * BLOCK + j * PAGE + k * size

\* A place of the log, or the end of the device.
OnGrid(a) == a = DEVICE \/ \E b \in LogBlocks : InBlock(a, b, recorder)

\* Before the first wrap: all that lies ahead is erased, but for bad blocks.
ErasedFrom(a) ==
    \A c \in Cells : c >= a /\ BlockOf(c) \notin bad => flash[c] = ERASED

\* After it: the log is in the block before the wrap address, a good one, and
\* the rest of that block is erased.
ErasedToWrap(a) ==
    \E b \in LogBlocks \ bad :
        /\ wrapAddr = (b + 1) * BLOCK
        /\ b * BLOCK <= a /\ a <= wrapAddr
        /\ \A c \in Cells : c >= a /\ c < wrapAddr => flash[c] = ERASED

LastBlockErased == \A c \in Cells : BlockOf(c) = LAST_BLOCK => flash[c] = ERASED

Numbers ==
    /\ PAGE \in Nat \ {0} /\ BLOCK \in Nat \ {0} /\ LAST_BLOCK \in Nat \ {0}
    /\ SHORT_PACKET \in 1 .. PAGE /\ LONG_PACKET \in 1 .. PAGE
    /\ Slots \in Nat \ {0, 1} /\ MAX_PACKETS \in Nat

\* A packet is dequeued with the size it was queued with, the next place is on
\* the grid with erased flash before it, and nothing is left of the log when
\* the machine looks for its end.
LogIInv ==
    /\ TypeOK
    /\ machState # "WRITE_FAIL"
    /\ LAST_BLOCK \notin bad
    /\ logReady => packetSize = recorder
    /\ machState = "CONFIRM" => logReady
    /\ OnGrid(Position)
    /\ wrapAddr = 0 => ErasedFrom(Position)
    /\ wrapAddr # 0 => ErasedToWrap(Position)
    /\ machState = "IDLE" => wrapAddr = 0 /\ address = BLOCK
    /\ machState = "ERASE" => logErase = 1
    /\ logErase = 1 => /\ machState \in {"RUN", "ERASE"} /\ ~logReady
                       /\ LastBlockErased

-----------------------------------------------------------------------------
(* Pages, blocks and places.                                               *)

LEMMA Times ==
  ASSUME NEW x \in Nat, NEW y \in Nat, NEW d \in Nat, x <= y
  PROVE  x * d <= y * d /\ x * d \in Nat /\ y * d \in Nat
  OBVIOUS

LEMMA Quotient ==
  ASSUME NEW d \in Nat \ {0}, NEW q \in Nat, NEW r \in 0 .. d - 1
  PROVE  (q * d + r) \div d = q /\ (q * d + r) % d = r
  <1>. DEFINE x == q * d + r
              y == x \div d
              z == x % d
  <1>1. x \in Nat
    OBVIOUS
  <1>2. y \in Int /\ z \in 0 .. d - 1 /\ x = d * y + z
    BY <1>1
  <1>3. x = d * q + r
    OBVIOUS
  <1>. HIDE DEF x, y, z
  <1>4. y = q
    <2>1. CASE y > q
      <3>1. d * y >= d * q + d
        BY <1>2, <2>1
      <3>. QED  BY <1>2, <1>3, <3>1
    <2>2. CASE y < q
      <3>1. d * q >= d * y + d
        BY <1>2, <2>2
      <3>. QED  BY <1>2, <1>3, <3>1
    <2>. QED  BY <1>2, <2>1, <2>2
  <1>5. z = r
    BY <1>2, <1>3, <1>4
  <1>. QED  BY <1>4, <1>5 DEF x, y, z

\* A number is a multiple of d and a remainder.
LEMMA Division ==
  ASSUME NEW x \in Nat, NEW d \in Nat \ {0}
  PROVE  x \div d \in Nat /\ x % d \in 0 .. d - 1 /\ x = (x \div d) * d + (x % d)
  <1>. DEFINE q == x \div d
              r == x % d
  <1>1. q \in Int /\ r \in 0 .. d - 1 /\ x = d * q + r
    OBVIOUS
  <1>. HIDE DEF q, r
  <1>2. q >= 0
    <2>1. q < 0 => d * q <= -d
      BY <1>1
    <2>. QED  BY <1>1, <2>1
  <1>3. d * q = q * d
    BY <1>1
  <1>4. q \in Nat
    BY <1>1, <1>2
  <1>5. x = q * d + r
    BY <1>1, <1>3, Zenon
  <1>. QED  BY <1>1, <1>4, <1>5, Zenon DEF q, r

LEMMA Geometry ==
  /\ Numbers
  /\ \E n \in Nat \ {0} : BLOCK = n * PAGE
  /\ PAGE <= BLOCK
  /\ PAGE_USED = (PAGE \div SHORT_PACKET) * SHORT_PACKET
  /\ \E q \in Nat \ {0} : PAGE = q * LONG_PACKET
  /\ ERASED_BYTES \in 1 .. SHORT_PACKET
  <1>1. Numbers /\ PAGE_USED = (PAGE \div SHORT_PACKET) * SHORT_PACKET
        /\ ERASED_BYTES \in 1 .. SHORT_PACKET
    BY LogMachineAssumption DEF Numbers
  <1>2. BLOCK % PAGE = 0 /\ PAGE % LONG_PACKET = 0
    BY LogMachineAssumption
  <1>3. ASSUME NEW x \in Nat \ {0}, NEW d \in Nat \ {0}, x % d = 0
        PROVE  \E n \in Nat \ {0} : x = n * d /\ d <= x
    <2>1. x \div d \in Nat /\ x = (x \div d) * d
      BY <1>3, Division
    <2>2. x \div d # 0
      BY <2>1
    <2>3. 1 <= x \div d
      BY <2>1, <2>2
    <2>4. 1 * d <= (x \div d) * d
      BY <2>1, <2>3, Times
    <2>. QED  BY <2>1, <2>2, <2>4
  <1>4. \E n \in Nat \ {0} : BLOCK = n * PAGE /\ PAGE <= BLOCK
    BY <1>1, <1>2, <1>3 DEF Numbers
  <1>5. LONG_PACKET \in Nat \ {0}
    BY <1>1 DEF Numbers
  <1>6. \E q \in Nat \ {0} : PAGE = q * LONG_PACKET /\ LONG_PACKET <= PAGE
    BY <1>1, <1>2, <1>3, <1>5 DEF Numbers
  <1>. QED  BY <1>1, <1>4, <1>6

\* The cells of a block.
LEMMA CellOfBlock ==
  ASSUME NEW b \in Nat, NEW c \in Nat, b * BLOCK <= c, c < (b + 1) * BLOCK
  PROVE  BlockOf(c) = b
  <1>1. BLOCK \in Nat \ {0}
    BY Geometry DEF Numbers
  <1>2. (b + 1) * BLOCK = b * BLOCK + BLOCK /\ b * BLOCK \in Nat
    BY <1>1
  <1>. DEFINE r == c - b * BLOCK
  <1>3. r \in 0 .. BLOCK - 1 /\ c = b * BLOCK + r
    BY <1>1, <1>2
  <1>. HIDE DEF r
  <1>. QED  BY <1>1, <1>3, Quotient DEF BlockOf

LEMMA BlockOfCell ==
  ASSUME NEW c \in Nat
  PROVE  /\ BlockOf(c) \in Nat
         /\ BlockOf(c) * BLOCK <= c /\ c < (BlockOf(c) + 1) * BLOCK
  <1>1. BLOCK \in Nat \ {0}
    BY Geometry DEF Numbers
  <1>. DEFINE q == c \div BLOCK
  <1>2. q \in Nat /\ c % BLOCK \in 0 .. BLOCK - 1 /\ c = q * BLOCK + (c % BLOCK)
    BY <1>1, Division
  <1>. HIDE DEF q
  <1>3. (q + 1) * BLOCK = q * BLOCK + BLOCK /\ q * BLOCK \in Nat
    BY <1>1, <1>2
  <1>. DEFINE r == c % BLOCK
  <1>4. r \in 0 .. BLOCK - 1 /\ c = q * BLOCK + r
    BY <1>2, Zenon
  <1>. HIDE DEF r
  <1>5. q * BLOCK <= c /\ c < (q + 1) * BLOCK
    BY <1>1, <1>3, <1>4
  <1>. QED  BY <1>2, <1>5 DEF q, BlockOf
\* The least of some numbers.
LEMMA LeastOf ==
  ASSUME NEW S, S \subseteq Nat, S # {}
  PROVE  Min(S) \in S /\ \A y \in S : Min(S) <= y
  <1>1. IsWellFoundedOn({ss \in Nat \X Nat : ss[1] < ss[2]}, Nat)
    BY NatLessThanWellFounded, Zenon DEF OpToRel
  <1>2. PICK x \in S :
           \A y \in S : <<y, x>> \notin {ss \in Nat \X Nat : ss[1] < ss[2]}
    BY <1>1, WFMin, Zenon
  <1>3. \A y \in S : ~(y < x)
    BY <1>2
  <1>4. \A y \in S : x <= y
    BY <1>3
  <1>. QED  BY <1>4, Zenon DEF Min

\* The next good block at or behind block b: the last block is always good.
LEMMA NextGoodBlock ==
  ASSUME NEW b \in LogBlocks, NEW table, LAST_BLOCK \notin table
  PROVE  LET to == Min({g \in b .. LAST_BLOCK + 1 : g \notin table})
         IN  /\ to \in LogBlocks \ table /\ b <= to
             /\ b \in table => b + 1 <= to
  <1>. DEFINE S == {g \in b .. LAST_BLOCK + 1 : g \notin table}
              to == Min(S)
  <1>1. LAST_BLOCK \in Nat \ {0} /\ b \in 1 .. LAST_BLOCK
    BY Geometry DEF Numbers, LogBlocks
  <1>2. LAST_BLOCK \in S /\ S \subseteq Nat
    BY <1>1
  <1>3. to \in S /\ to <= LAST_BLOCK
    <2>. HIDE DEF S
    <2>. QED  BY <1>2, LeastOf
  <1>4. to \in b .. LAST_BLOCK + 1 /\ to \notin table
    BY <1>3
  <1>. HIDE DEF to
  <1>5. to \in LogBlocks \ table /\ b <= to /\ (b \in table => b + 1 <= to)
    BY <1>1, <1>3, <1>4 DEF LogBlocks
  <1>. QED  BY <1>5 DEF to

\* Where the cells of a place are.
LEMMA PlaceBounds ==
  ASSUME NEW a, NEW b \in Nat, NEW size \in 1 .. PAGE, InBlock(a, b, size)
  PROVE  /\ a \in Nat /\ b * BLOCK <= a /\ a + size <= (b + 1) * BLOCK
         /\ BlockOf(a) = b
  <1>1. PAGE \in Nat \ {0} /\ BLOCK \in Nat \ {0} /\ size \in Nat \ {0}
    BY Geometry DEF Numbers
  <1>2. PICK j \in Nat, k \in Nat :
          /\ (j + 1) * PAGE <= BLOCK
          /\ (k + 1) * size <= PAGE
          /\ a = b * BLOCK + j * PAGE + k * size
    BY DEF InBlock
  <1>3. PICK x \in Nat : x = b * BLOCK
    BY <1>1
  <1>4. PICK y \in Nat : y = j * PAGE
    BY <1>1
  <1>5. PICK z \in Nat : z = k * size
    BY <1>1
  <1>6. /\ (j + 1) * PAGE = y + PAGE /\ (k + 1) * size = z + size
        /\ (b + 1) * BLOCK = x + BLOCK
    BY <1>1, <1>3, <1>4, <1>5
  <1>7. a = x + y + z /\ y + PAGE <= BLOCK /\ z + size <= PAGE
    BY <1>2, <1>3, <1>4, <1>5, <1>6
  <1>8. a \in Nat /\ x <= a /\ a + size <= x + BLOCK /\ a < x + BLOCK
    BY <1>1, <1>7
  <1>9. BlockOf(a) = b
    BY <1>3, <1>6, <1>8, CellOfBlock
  <1>. QED  BY <1>3, <1>6, <1>8, <1>9

\* The first place of a block.
LEMMA FirstPlace ==
  ASSUME NEW b \in Nat, NEW size \in 1 .. PAGE
  PROVE  InBlock(b * BLOCK, b, size)
  <1>1. PAGE \in Nat \ {0} /\ BLOCK \in Nat \ {0} /\ PAGE <= BLOCK
    BY Geometry DEF Numbers
  <1>2. /\ (0 + 1) * PAGE <= BLOCK /\ (0 + 1) * size <= PAGE
        /\ b * BLOCK = b * BLOCK + 0 * PAGE + 0 * size
    BY <1>1
  <1>. QED  BY <1>2 DEF InBlock

LEMMA Cancel ==
  ASSUME NEW x \in Nat, NEW y \in Nat, NEW d \in Nat \ {0}
  PROVE  (x * d <= y * d => x <= y) /\ (x * d < y * d => x < y)
  <1>1. x > y => x * d >= y * d + d
    OBVIOUS
  <1>2. x >= y => x * d >= y * d
    OBVIOUS
  <1>3. x * d \in Nat /\ y * d \in Nat
    OBVIOUS
  <1>. QED  BY <1>1, <1>2, <1>3

\* LogIncrementAddress in a page: to the next place, or over its unused end
\* to the next page.
LEMMA NextInPage ==
  ASSUME packetSize \in {SHORT_PACKET, LONG_PACKET}, NEW p \in Nat, NEW k \in Nat,
         (k + 1) * packetSize <= PAGE
  PROVE  LogIncrementAddress(p * PAGE + k * packetSize) =
            IF (k + 2) * packetSize <= PAGE THEN p * PAGE + (k + 1) * packetSize
                                            ELSE (p + 1) * PAGE
  <1>. DEFINE a == p * PAGE + k * packetSize
              next == a + packetSize
  <1>1. /\ PAGE \in Nat \ {0} /\ packetSize \in Nat \ {0}
        /\ packetSize \in 1 .. PAGE
    BY Geometry DEF Numbers
  <1>2. PICK x \in Nat : x = p * PAGE
    BY <1>1
  <1>3. PICK z \in Nat : z = k * packetSize
    BY <1>1
  <1>4. /\ (k + 1) * packetSize = z + packetSize
        /\ (k + 2) * packetSize = z + packetSize + packetSize
        /\ (p + 1) * PAGE = x + PAGE
    BY <1>1, <1>2, <1>3
  <1>5. next = p * PAGE + (k + 1) * packetSize /\ next = x + (z + packetSize)
    BY <1>1, <1>2, <1>3, <1>4
  <1>6. LogIncrementAddress(a) =
          IF IF packetSize = SHORT_PACKET THEN next % PAGE = PAGE_USED
                                          ELSE next % packetSize # 0
          THEN (next \div PAGE + 1) * PAGE ELSE next
    BY DEF LogIncrementAddress
  <1>. HIDE DEF a, next
  <1>7. CASE packetSize = SHORT_PACKET
    <2>1. PICK q \in Nat : q = PAGE \div packetSize
      BY <1>1, Division
    <2>2. PICK r \in 0 .. packetSize - 1 : r = PAGE % packetSize
      BY <1>1, Division
    <2>3. PICK u \in Nat : u = q * packetSize
      BY <1>1
    <2>4. PAGE = u + r /\ PAGE_USED = u
      <3>1. PAGE = (PAGE \div packetSize) * packetSize + (PAGE % packetSize)
        BY <1>1, Division
      <3>. QED  BY <1>7, <2>1, <2>2, <2>3, <3>1, Geometry
    <2>5. k + 1 <= q /\ (k + 2 <= q => (k + 2) * packetSize <= u)
      <3>1. (k + 1) * packetSize < (q + 1) * packetSize
        <4>1. (q + 1) * packetSize = u + packetSize
          BY <1>1, <2>3
        <4>. QED  BY <1>1, <1>3, <1>4, <2>2, <2>3, <2>4, <4>1
      <3>2. k + 1 < q + 1
        BY <1>1, <3>1, Cancel
      <3>3. k + 2 <= q => (k + 2) * packetSize <= q * packetSize
        BY <1>1, Times
      <3>. QED  BY <2>3, <3>2, <3>3
    <2>6. CASE k + 2 <= q
      <3>1. z + packetSize < u /\ z + packetSize + packetSize <= PAGE
        BY <1>1, <1>4, <2>2, <2>3, <2>4, <2>5, <2>6
      <3>2. z + packetSize \in 0 .. PAGE - 1
        BY <1>1, <3>1
      <3>3. next % PAGE = z + packetSize
        <4>1. (p * PAGE + (z + packetSize)) % PAGE = z + packetSize
          BY <1>1, <3>2, Quotient
        <4>. QED  BY <1>2, <1>5, <4>1
      <3>4. LogIncrementAddress(a) = next
        BY <1>6, <1>7, <2>4, <3>1, <3>3
      <3>. QED  BY <1>4, <1>5, <3>1, <3>4 DEF a
    <2>7. CASE ~(k + 2 <= q)
      <3>1. k + 1 = q
        BY <2>1, <2>5, <2>7
      <3>2. z + packetSize = u
        BY <1>4, <2>3, <3>1
      <3>3. ~((k + 2) * packetSize <= PAGE)
        BY <1>1, <1>4, <2>2, <2>4, <3>2
      <3>4. LogIncrementAddress(a) = (p + 1) * PAGE
        <4>1. CASE u < PAGE
          <5>1. u \in 0 .. PAGE - 1
            BY <1>1, <2>3, <4>1
          <5>2. (p * PAGE + u) % PAGE = u /\ (p * PAGE + u) \div PAGE = p
            BY <1>1, <5>1, Quotient
          <5>3. next % PAGE = u /\ next \div PAGE = p
            BY <1>2, <1>5, <3>2, <5>2
          <5>. QED  BY <1>6, <1>7, <2>4, <5>3
        <4>2. CASE u = PAGE
          <5>1. next = (p + 1) * PAGE + 0
            BY <1>1, <1>4, <1>5, <3>2, <4>2
          <5>2. 0 \in 0 .. PAGE - 1 /\ p + 1 \in Nat
            BY <1>1
          <5>3. ((p + 1) * PAGE + 0) % PAGE = 0
            BY <1>1, <5>2, Quotient
          <5>4. next % PAGE = 0
            BY <5>1, <5>3
          <5>5. LogIncrementAddress(a) = next
            BY <1>1, <1>6, <1>7, <2>4, <4>2, <5>4
          <5>. QED  BY <1>1, <1>2, <1>4, <5>1, <5>5
        <4>. QED  BY <1>1, <2>2, <2>3, <2>4, <4>1, <4>2
      <3>. QED  BY <3>3, <3>4 DEF a
    <2>. QED  BY <2>6, <2>7
  <1>8. CASE packetSize # SHORT_PACKET
    <2>1. PICK q \in Nat : PAGE = q * packetSize
      BY <1>8, Geometry
    <2>2. PICK n \in Nat : n = p * q + (k + 1)
      OBVIOUS
    <2>3. next = n * packetSize + 0
      <3>1. n * packetSize = (p * q) * packetSize + (k + 1) * packetSize
        BY <1>1, <2>2
      <3>2. (p * q) * packetSize = p * (q * packetSize)
        BY <1>1
      <3>. QED  BY <1>1, <1>2, <1>3, <1>4, <1>5, <2>1, <3>1, <3>2
    <2>4. (n * packetSize + 0) % packetSize = 0
      <3>1. 0 \in 0 .. packetSize - 1
        BY <1>1
      <3>. QED  BY <1>1, <3>1, Quotient
    <2>5. LogIncrementAddress(a) = next
      BY <1>6, <1>8, <2>3, <2>4
    <2>6. k + 1 <= q /\ (k + 2 <= q => (k + 2) * packetSize <= PAGE)
      <3>1. (k + 1) * packetSize <= q * packetSize
        BY <2>1
      <3>. QED  BY <1>1, <2>1, <3>1, Cancel, Times
    <2>7. ~((k + 2) * packetSize <= PAGE) => (k + 1) * packetSize = PAGE
      <3>1. ~(k + 2 <= q) => k + 1 = q
        BY <2>6
      <3>. QED  BY <2>1, <2>6, <3>1
    <2>. QED  BY <1>1, <1>2, <1>4, <1>5, <2>5, <2>7 DEF a
  <1>. QED  BY <1>7, <1>8

\* So from a place of a block it leads to another, or to the end of the block.
LEMMA NextPlace ==
  ASSUME packetSize \in {SHORT_PACKET, LONG_PACKET}, NEW b \in Nat, NEW a,
         InBlock(a, b, packetSize)
  PROVE  LET next == LogIncrementAddress(a)
         IN  /\ next \in Nat /\ a + packetSize <= next /\ next <= (b + 1) * BLOCK
             /\ next = (b + 1) * BLOCK \/ InBlock(next, b, packetSize)
  <1>. DEFINE next == LogIncrementAddress(a)
  <1>1. /\ PAGE \in Nat \ {0} /\ BLOCK \in Nat \ {0} /\ packetSize \in Nat \ {0}
    BY Geometry DEF Numbers
  <1>2. PICK n \in Nat \ {0} : BLOCK = n * PAGE
    BY Geometry
  <1>3. PICK j \in Nat, k \in Nat :
          /\ (j + 1) * PAGE <= BLOCK
          /\ (k + 1) * packetSize <= PAGE
          /\ a = b * BLOCK + j * PAGE + k * packetSize
    BY DEF InBlock
  <1>4. PICK x \in Nat : x = b * BLOCK
    BY <1>1
  <1>5. PICK y \in Nat : y = j * PAGE
    BY <1>1
  <1>6. PICK z \in Nat : z = k * packetSize
    BY <1>1
  <1>7. /\ (b + 1) * BLOCK = x + BLOCK
        /\ (j + 1) * PAGE = y + PAGE /\ (j + 2) * PAGE = y + PAGE + PAGE
        /\ (k + 1) * packetSize = z + packetSize
        /\ (k + 2) * packetSize = z + packetSize + packetSize
    BY <1>1, <1>4, <1>5, <1>6
  <1>8. PICK p \in Nat : p = b * n + j
    BY <1>2
  <1>9. p * PAGE = x + y /\ (p + 1) * PAGE = x + y + PAGE
    <2>1. p * PAGE = (b * n) * PAGE + j * PAGE
      BY <1>1, <1>2, <1>8
    <2>2. (b * n) * PAGE = b * (n * PAGE)
      BY <1>1, <1>2
    <2>3. p * PAGE = x + y
      BY <1>2, <1>4, <1>5, <2>1, <2>2
    <2>4. (p + 1) * PAGE = p * PAGE + PAGE
      BY <1>1, <1>8
    <2>. QED  BY <2>3, <2>4
  <1>10. a = p * PAGE + k * packetSize
    BY <1>3, <1>4, <1>5, <1>9
  <1>11. next = IF (k + 2) * packetSize <= PAGE THEN p * PAGE + (k + 1) * packetSize
                                                ELSE (p + 1) * PAGE
    BY <1>3, <1>8, <1>10, NextInPage
  <1>. HIDE DEF next
  <1>12. a = x + y + z /\ y + PAGE <= BLOCK /\ z + packetSize <= PAGE
    BY <1>3, <1>4, <1>5, <1>6, <1>7
  <1>13. CASE (k + 2) * packetSize <= PAGE
    <2>1. next = x + y + (z + packetSize)
      BY <1>7, <1>9, <1>11, <1>13
    <2>2. InBlock(next, b, packetSize)
      <3>1. next = b * BLOCK + j * PAGE + (k + 1) * packetSize
        BY <1>4, <1>5, <1>7, <2>1
      <3>2. k + 1 \in Nat /\ ((k + 1) + 1) * packetSize <= PAGE
        BY <1>13
      <3>. QED  BY <1>3, <3>1, <3>2 DEF InBlock
    <2>3. next \in Nat /\ a + packetSize <= next /\ next <= x + BLOCK
      BY <1>1, <1>12, <2>1
    <2>. QED  BY <1>7, <2>2, <2>3 DEF next
  <1>14. CASE ~((k + 2) * packetSize <= PAGE)
    <2>1. next = x + y + PAGE
      BY <1>9, <1>11, <1>14
    <2>2. next \in Nat /\ a + packetSize <= next /\ next <= x + BLOCK
      BY <1>1, <1>12, <2>1
    <2>3. next = (b + 1) * BLOCK \/ InBlock(next, b, packetSize)
      <3>1. CASE j + 1 = n
        <4>1. y + PAGE = BLOCK
          BY <1>2, <1>7, <3>1
        <4>. QED  BY <1>1, <1>7, <2>1, <4>1
      <3>2. CASE j + 1 # n
        <4>1. j + 1 <= n
          BY <1>1, <1>2, <1>3, Cancel
        <4>2. (j + 2) * PAGE <= n * PAGE
          BY <1>1, <1>2, <3>2, <4>1, Times
        <4>3. j + 1 \in Nat /\ ((j + 1) + 1) * PAGE <= BLOCK
          BY <1>2, <4>2
        <4>4. 0 \in Nat /\ (0 + 1) * packetSize <= PAGE
          BY <1>1, <1>12
        <4>5. next = b * BLOCK + (j + 1) * PAGE + 0 * packetSize
          BY <1>1, <1>4, <1>7, <2>1
        <4>. QED  BY <4>3, <4>4, <4>5 DEF InBlock
      <3>. QED  BY <3>1, <3>2
    <2>. QED  BY <1>7, <2>2, <2>3 DEF next
  <1>. QED  BY <1>13, <1>14

-----------------------------------------------------------------------------
(* LOG_RUN_STATE: the place the next packet is written to.                 *)

LEMMA BlockSums ==
  /\ DEVICE = (LAST_BLOCK + 1) * BLOCK /\ DEVICE \in Nat
  /\ \A b \in LogBlocks :
        /\ b \in Nat /\ BLOCK <= b * BLOCK /\ b * BLOCK \in Nat
        /\ (b + 1) * BLOCK = b * BLOCK + BLOCK
        /\ (b + 1) * BLOCK <= DEVICE
        /\ b = LAST_BLOCK \/ b + 1 \in LogBlocks
  <1>1. BLOCK \in Nat \ {0} /\ LAST_BLOCK \in Nat \ {0}
    BY Geometry DEF Numbers
  <1>2. DEVICE = (LAST_BLOCK + 1) * BLOCK /\ DEVICE \in Nat
    BY <1>1 DEF DEVICE
  <1>3. ASSUME NEW b \in LogBlocks
        PROVE  /\ b \in Nat /\ BLOCK <= b * BLOCK /\ b * BLOCK \in Nat
               /\ (b + 1) * BLOCK = b * BLOCK + BLOCK
               /\ (b + 1) * BLOCK <= DEVICE
               /\ b = LAST_BLOCK \/ b + 1 \in LogBlocks
    <2>1. b \in Nat /\ 1 <= b /\ b + 1 <= LAST_BLOCK + 1
      BY <1>1 DEF LogBlocks
    <2>2. (b + 1) * BLOCK <= (LAST_BLOCK + 1) * BLOCK
      BY <1>1, <2>1, Times
    <2>3. 1 * BLOCK <= b * BLOCK
      BY <1>1, <2>1, Times
    <2>4. b = LAST_BLOCK \/ b + 1 \in LogBlocks
      BY <1>1, <2>1 DEF LogBlocks
    <2>. QED  BY <1>1, <1>2, <2>1, <2>2, <2>3, <2>4
  <1>. QED  BY <1>2, <1>3

\* Erasing wipes the blocks named and leaves the rest.
LEMMA WipedCells ==
  ASSUME NEW cells \in [Cells -> Packets \cup {ERASED, GARBAGE}], NEW blocks
  PROVE  /\ Wiped(cells, blocks) \in [Cells -> Packets \cup {ERASED, GARBAGE}]
         /\ \A c \in Cells : BlockOf(c) \in blocks => Wiped(cells, blocks)[c] = ERASED
         /\ \A c \in Cells : cells[c] = ERASED => Wiped(cells, blocks)[c] = ERASED
         /\ blocks = {} => Wiped(cells, blocks) = cells
  <1>1. Wiped(cells, {}) = cells
    BY DEF Wiped
  <1>. QED  BY <1>1 DEF Wiped

\* Where LogManageAddresses and HandleBadBlock lead to: a place of a good block
\* whose cells are erased from there on, as far as the wrap address.
LEMMA RunPlace ==
  ASSUME LogIInv, machState = "RUN", packetSize = recorder,
         NEW failing \in FailingErases, failing \subseteq LogManageAddresses(failing).tried
  PROVE  LET m     == LogManageAddresses(failing)
             table == bad \cup failing
             cells == Wiped(flash, m.erases)
             a     == HandleBadBlock(m.address, table)
         IN  /\ LAST_BLOCK \notin table /\ table \subseteq LogBlocks
             /\ cells \in [Cells -> Packets \cup {ERASED, GARBAGE}]
             /\ \A c \in Cells : flash[c] = ERASED => cells[c] = ERASED
             /\ \E b \in LogBlocks \ table :
                   /\ InBlock(a, b, packetSize)
                   /\ \/ /\ m.wrapAddr = 0
                         /\ \A c \in Cells : c >= a /\ BlockOf(c) \notin table
                                             => cells[c] = ERASED
                      \/ /\ m.wrapAddr = (b + 1) * BLOCK
                         /\ \A c \in Cells : c >= a /\ c < m.wrapAddr
                                             => cells[c] = ERASED
  <1>. DEFINE table == bad \cup failing
              atEnd  == address >= RDU_LOG_ADDR_END
              atWrap == address = wrapAddr
              a0     == IF atEnd THEN RDU_LOG_ADDR_START ELSE address
              w0     == IF atEnd THEN RDU_LOG_ADDR_START + BLOCK
                        ELSE IF atWrap THEN wrapAddr + BLOCK ELSE wrapAddr
              to     == Min({b \in BlockOf(a0) .. LAST_BLOCK + 1 : b \notin table})
              skip   == (to - BlockOf(a0)) * BLOCK
              m      == LogManageAddresses(failing)
              cells  == Wiped(flash, m.erases)
              a      == HandleBadBlock(m.address, table)
              Goal   == \E b \in LogBlocks \ table :
                           /\ InBlock(a, b, packetSize)
                           /\ \/ /\ m.wrapAddr = 0
                                 /\ \A c \in Cells : c >= a /\ BlockOf(c) \notin table
                                                     => cells[c] = ERASED
                              \/ /\ m.wrapAddr = (b + 1) * BLOCK
                                 /\ \A c \in Cells : c >= a /\ c < m.wrapAddr
                                                     => cells[c] = ERASED
  <1>1. /\ PAGE \in Nat \ {0} /\ BLOCK \in Nat \ {0} /\ LAST_BLOCK \in Nat \ {0}
        /\ SHORT_PACKET \in 1 .. PAGE /\ LONG_PACKET \in 1 .. PAGE /\ PAGE <= BLOCK
    BY Geometry DEF Numbers
  <1>2. /\ flash \in [Cells -> Packets \cup {ERASED, GARBAGE}]
        /\ bad \subseteq LogBlocks /\ LAST_BLOCK \notin bad
        /\ recorder \in {SHORT_PACKET, LONG_PACKET}
        /\ address \in RDU_LOG_ADDR_START .. DEVICE
        /\ packetSize \in 1 .. PAGE
    BY <1>1 DEF LogIInv, TypeOK
  <1>3. /\ OnGrid(address)
        /\ wrapAddr = 0 => ErasedFrom(address)
        /\ wrapAddr # 0 => ErasedToWrap(address)
    <2>1. Position = address
      BY DEF Position
    <2>. QED  BY <2>1 DEF LogIInv
  <1>4. LAST_BLOCK \notin table /\ table \subseteq LogBlocks
    <2>1. failing \subseteq LogBlocks \ (bad \cup {LAST_BLOCK})
      BY Zenon DEF FailingErases
    <2>2. LAST_BLOCK \notin failing /\ failing \subseteq LogBlocks
      BY <2>1
    <2>. QED  BY <1>2, <2>2
  <1>5. /\ cells \in [Cells -> Packets \cup {ERASED, GARBAGE}]
        /\ \A c \in Cells : BlockOf(c) \in m.erases => cells[c] = ERASED
        /\ \A c \in Cells : flash[c] = ERASED => cells[c] = ERASED
        /\ m.erases = {} => cells = flash
    BY <1>2, WipedCells
  <1>6. m = IF atEnd \/ atWrap
            THEN [address |-> a0 + skip, wrapAddr |-> w0 + skip, erases |-> {to},
                  tried |-> BlockOf(a0) .. to]
            ELSE [address |-> a0, wrapAddr |-> w0, erases |-> {}, tried |-> {}]
    BY DEF LogManageAddresses
  <1>7. address \in Nat /\ BLOCK <= address /\ address <= DEVICE /\ DEVICE \in Nat
    BY <1>1, <1>2, BlockSums DEF RDU_LOG_ADDR_START
  <1>8. ASSUME ~atEnd PROVE \E b \in LogBlocks : InBlock(address, b, packetSize)
    <2>1. address # DEVICE
      BY <1>1, <1>7, <1>8 DEF RDU_LOG_ADDR_END
    <2>. QED  BY <1>3, <2>1 DEF OnGrid
  <1>9. CASE atEnd \/ atWrap
    <2>1. PICK b \in LogBlocks : a0 = b * BLOCK /\ w0 = b * BLOCK + BLOCK
      <3>1. CASE atEnd
        <4>1. 1 \in LogBlocks /\ a0 = 1 * BLOCK /\ w0 = 1 * BLOCK + BLOCK
          BY <1>1, <3>1 DEF RDU_LOG_ADDR_START, LogBlocks
        <4>. QED  BY <4>1
      <3>2. CASE ~atEnd
        <4>1. atWrap /\ a0 = address /\ w0 = address + BLOCK
          BY <1>9, <3>2
        <4>2. wrapAddr # 0
          BY <1>1, <1>7, <4>1
        <4>3. PICK g \in LogBlocks : address = (g + 1) * BLOCK
          BY <1>3, <4>1, <4>2 DEF ErasedToWrap
        <4>4. g # LAST_BLOCK
          BY <1>1, <1>7, <3>2, <4>3, BlockSums DEF RDU_LOG_ADDR_END
        <4>. QED  BY <4>1, <4>3, <4>4, BlockSums
      <3>. QED  BY <3>1, <3>2
    <2>. HIDE DEF a0, w0
    <2>2. /\ b \in Nat /\ b * BLOCK \in Nat /\ (b + 1) * BLOCK = b * BLOCK + BLOCK
      BY BlockSums
    <2>3. BlockOf(a0) = b
      BY <1>1, <2>1, <2>2, CellOfBlock
    <2>4. to \in LogBlocks \ table /\ b <= to
      BY <1>4, <2>3, NextGoodBlock
    <2>. HIDE DEF to
    <2>5. /\ to \in Nat /\ to * BLOCK \in Nat /\ (to + 1) * BLOCK = to * BLOCK + BLOCK
      BY <2>4, BlockSums
    <2>6. a0 + skip = to * BLOCK /\ w0 + skip = (to + 1) * BLOCK
      <3>1. skip = to * BLOCK - b * BLOCK
        BY <1>1, <2>2, <2>3, <2>5
      <3>. HIDE DEF skip
      <3>. QED  BY <1>1, <2>1, <2>2, <2>5, <3>1
    <2>. HIDE DEF skip
    <2>7. m.address = to * BLOCK /\ m.wrapAddr = (to + 1) * BLOCK /\ m.erases = {to}
      BY <1>6, <1>9, <2>6
    <2>. HIDE DEF m
    <2>8. BlockOf(to * BLOCK) = to
      BY <1>1, <2>5, CellOfBlock
    <2>9. a = to * BLOCK
      BY <2>4, <2>7, <2>8 DEF HandleBadBlock
    <2>. HIDE DEF a, cells, table
    <2>10. InBlock(a, to, packetSize)
      BY <1>2, <2>5, <2>9, FirstPlace
    <2>11. ASSUME NEW c \in Cells, c >= a, c < m.wrapAddr PROVE cells[c] = ERASED
      <3>1. c \in Nat
        BY <1>1, BlockSums DEF Cells, RDU_LOG_ADDR_START
      <3>2. BlockOf(c) = to
        BY <2>5, <2>7, <2>9, <2>11, <3>1, CellOfBlock
      <3>. QED  BY <1>5, <2>7, <3>2
    <2>12. Goal
      BY <2>4, <2>7, <2>10, <2>11
    <2>. QED  BY <1>4, <1>5, <2>12 DEF a, cells, m, table
  <1>10. CASE ~(atEnd \/ atWrap)
    <2>1. m = [address |-> address, wrapAddr |-> wrapAddr, erases |-> {}, tried |-> {}]
      BY <1>6, <1>10
    <2>. HIDE DEF m
    <2>2. /\ m.address = address /\ m.wrapAddr = wrapAddr /\ m.erases = {}
          /\ m.tried = {}
      BY <2>1
    <2>3. table = bad
      <3>1. failing \subseteq m.tried
        BY DEF m
      <3>. QED  BY <2>2, <3>1
    <2>. HIDE DEF table
    <2>4. cells = flash
      BY <1>5, <2>2
    <2>5. PICK b \in LogBlocks : InBlock(address, b, packetSize)
      BY <1>8, <1>10
    <2>6. /\ b \in Nat /\ b * BLOCK \in Nat /\ (b + 1) * BLOCK = b * BLOCK + BLOCK
      BY BlockSums
    <2>7. /\ address \in Nat /\ b * BLOCK <= address
          /\ address + packetSize <= (b + 1) * BLOCK /\ BlockOf(address) = b
      BY <1>2, <2>5, <2>6, PlaceBounds
    <2>8. a = IF b \notin bad THEN address
              ELSE BLOCK * Min({g \in b .. LAST_BLOCK + 1 : g \notin bad})
      BY <2>2, <2>3, <2>7 DEF HandleBadBlock
    <2>. HIDE DEF a, cells
    <2>9. CASE wrapAddr = 0
      <3>1. \A c \in Cells : c >= address /\ BlockOf(c) \notin bad => flash[c] = ERASED
        BY <1>3, <2>9 DEF ErasedFrom
      <3>2. \E g \in LogBlocks \ bad : InBlock(a, g, packetSize) /\ a >= address
        <4>1. CASE b \notin bad
          BY <2>5, <2>7, <2>8, <4>1
        <4>2. CASE b \in bad
          <5>. DEFINE g == Min({x \in b .. LAST_BLOCK + 1 : x \notin bad})
          <5>1. g \in LogBlocks \ bad /\ b + 1 <= g
            BY <1>2, <4>2, NextGoodBlock
          <5>2. a = BLOCK * g
            BY <2>8, <4>2
          <5>. HIDE DEF g
          <5>3. g \in Nat /\ g * BLOCK \in Nat /\ BLOCK * g = g * BLOCK
            BY <1>1, <5>1, BlockSums
          <5>4. (b + 1) * BLOCK <= g * BLOCK
            BY <1>1, <2>6, <5>1, <5>3, Times
          <5>5. InBlock(a, g, packetSize)
            BY <1>2, <5>2, <5>3, FirstPlace
          <5>6. a >= address
            <6>1. PICK x \in Nat : x = (b + 1) * BLOCK
              BY <1>1, <2>6
            <6>2. PICK y \in Nat : y = g * BLOCK /\ a = y
              BY <5>2, <5>3
            <6>3. packetSize \in Nat /\ address + packetSize <= x /\ x <= y
              BY <1>1, <1>2, <2>7, <5>4, <6>1, <6>2
            <6>. QED  BY <2>7, <6>2, <6>3
          <5>. QED  BY <5>1, <5>5, <5>6
        <4>. QED  BY <4>1, <4>2
      <3>3. PICK g \in LogBlocks \ bad : InBlock(a, g, packetSize) /\ a >= address
        BY <3>2
      <3>4. ASSUME NEW c \in Cells, c >= a, BlockOf(c) \notin bad
            PROVE  flash[c] = ERASED
        <4>1. a \in Nat /\ c \in Int
          <5>1. g \in Nat
            BY BlockSums
          <5>2. a \in Nat
            BY <1>2, <3>3, <5>1, PlaceBounds
          <5>. QED  BY <1>1, <5>2, BlockSums DEF Cells, RDU_LOG_ADDR_START
        <4>2. c >= address
          BY <2>7, <3>3, <3>4, <4>1
        <4>. QED  BY <3>1, <3>4, <4>2
      <3>5. Goal
        BY <2>2, <2>3, <2>4, <2>9, <3>3, <3>4
      <3>. QED  BY <1>4, <1>5, <3>5 DEF a, cells, m, table
    <2>10. CASE wrapAddr # 0
      <3>1. PICK g \in LogBlocks \ bad :
               /\ wrapAddr = (g + 1) * BLOCK
               /\ g * BLOCK <= address /\ address <= wrapAddr
               /\ \A c \in Cells : c >= address /\ c < wrapAddr => flash[c] = ERASED
        BY <1>3, <2>10 DEF ErasedToWrap
      <3>2. g \in Nat /\ g * BLOCK \in Nat /\ (g + 1) * BLOCK = g * BLOCK + BLOCK
        BY BlockSums
      <3>3. address < (g + 1) * BLOCK
        BY <1>1, <1>10, <2>7, <3>1, <3>2
      <3>4. b = g
        BY <2>7, <3>1, <3>2, <3>3, CellOfBlock
      <3>5. a = address
        BY <2>8, <3>4
      <3>6. Goal
        BY <2>2, <2>3, <2>4, <2>5, <3>1, <3>4, <3>5
      <3>. QED  BY <1>4, <1>5, <3>6 DEF a, cells, m, table
    <2>. QED  BY <2>9, <2>10
  <1>. QED  BY <1>9, <1>10

-----------------------------------------------------------------------------
(* One lemma for each state of LogMachine, and for the command handler.    *)

CellValues == Packets \cup {ERASED, GARBAGE}
QueueValues == Packets \cup {GARBAGE}
WrapAddresses == {0} \cup {b * BLOCK : b \in 1 .. LAST_BLOCK + 1}
MachStates == {"IDLE", "RUN", "CONFIRM", "WRITE_FAIL", "ERASE"}

\* TypeOK, in two parts: the flash with the recorder, and LogData.
FlashTypes ==
    /\ flash \in [Cells -> CellValues]
    /\ bad \subseteq LogBlocks
    /\ recorder \in {SHORT_PACKET, LONG_PACKET}
    /\ sent \in 0 .. MAX_PACKETS
    /\ faults \subseteq UNION Faults

LogTypes ==
    /\ queue \in Seq(QueueValues) /\ Len(queue) < Slots
    /\ address \in BLOCK .. DEVICE
    /\ wrapAddr \in WrapAddresses
    /\ logReady \in BOOLEAN /\ logErase \in {1, 3}
    /\ packetSize \in {SHORT_PACKET, recorder}
    /\ machState \in MachStates
    /\ TempDataBuf \in QueueValues

LEMMA TypeParts == TypeOK <=> FlashTypes /\ LogTypes
  BY Zenon DEF TypeOK, FlashTypes, LogTypes, CellValues, QueueValues, WrapAddresses,
     MachStates, RDU_LOG_ADDR_START, RDU_LOG_PACKET_SIZE

LEMMA TypePartsNext == TypeOK' <=> FlashTypes' /\ LogTypes'
  BY Zenon DEF TypeOK, FlashTypes, LogTypes, CellValues, QueueValues, WrapAddresses,
     MachStates, RDU_LOG_ADDR_START, RDU_LOG_PACKET_SIZE

\* What the next place of the log is worth.
PlaceIsGood ==
    /\ OnGrid(Position)
    /\ wrapAddr = 0 => ErasedFrom(Position)
    /\ wrapAddr # 0 => ErasedToWrap(Position)

\* What the states of the machine say of its flags.
FlagsAgree ==
    /\ machState # "WRITE_FAIL"
    /\ LAST_BLOCK \notin bad
    /\ logReady => packetSize = recorder
    /\ machState = "CONFIRM" => logReady
    /\ machState = "IDLE" => wrapAddr = 0 /\ address = BLOCK
    /\ machState = "ERASE" => logErase = 1
    /\ logErase = 1 => /\ machState \in {"RUN", "ERASE"} /\ ~logReady
                       /\ LastBlockErased

LEMMA IInvParts ==
  /\ LogIInv <=> FlashTypes /\ LogTypes /\ PlaceIsGood /\ FlagsAgree
  /\ LogIInv' <=> FlashTypes' /\ LogTypes' /\ PlaceIsGood' /\ FlagsAgree'
  <1>1. LogIInv <=> TypeOK /\ PlaceIsGood /\ FlagsAgree
    BY Zenon DEF LogIInv, PlaceIsGood, FlagsAgree
  <1>2. LogIInv' <=> TypeOK' /\ PlaceIsGood' /\ FlagsAgree'
    BY Zenon DEF LogIInv, PlaceIsGood, FlagsAgree
  <1>. QED  BY <1>1, <1>2, TypeParts, TypePartsNext, Zenon

LEMMA CellFacts ==
  ASSUME NEW c \in Cells
  PROVE  c \in Nat /\ BLOCK <= c /\ c < DEVICE /\ BlockOf(c) \in LogBlocks
  <1>1. BLOCK \in Nat \ {0} /\ LAST_BLOCK \in Nat \ {0}
    BY Geometry DEF Numbers
  <1>2. c \in Nat /\ BLOCK <= c /\ c < DEVICE
    BY <1>1, BlockSums DEF Cells, RDU_LOG_ADDR_START
  <1>3. PICK g \in Nat : g = BlockOf(c)
    BY <1>2, BlockOfCell
  <1>4. g * BLOCK <= c /\ c < (g + 1) * BLOCK
    BY <1>2, <1>3, BlockOfCell
  <1>5. g # 0
    <2>1. (0 + 1) * BLOCK = BLOCK
      BY <1>1
    <2>. QED  BY <1>1, <1>2, <1>4, <2>1
  <1>6. g <= LAST_BLOCK
    <2>1. g * BLOCK < (LAST_BLOCK + 1) * BLOCK
      BY <1>1, <1>2, <1>3, <1>4, BlockSums
    <2>. QED  BY <1>1, <2>1, Cancel
  <1>. QED  BY <1>1, <1>2, <1>3, <1>5, <1>6 DEF LogBlocks

\* A place is in the log.
LEMMA PlaceInLog ==
  ASSUME NEW b \in LogBlocks, NEW a, NEW size \in 1 .. PAGE, InBlock(a, b, size)
  PROVE  a \in BLOCK .. DEVICE /\ a < DEVICE
  <1>1. /\ a \in Nat /\ b * BLOCK <= a /\ a + size <= (b + 1) * BLOCK /\ size \in Nat \ {0}
    <2>1. b \in Nat
      BY BlockSums
    <2>2. PAGE \in Nat \ {0}
      BY Geometry, Zenon DEF Numbers
    <2>3. size \in Nat \ {0}
      BY <2>2
    <2>. QED  BY <2>1, <2>3, PlaceBounds
  <1>2. /\ b * BLOCK \in Nat /\ BLOCK <= b * BLOCK /\ (b + 1) * BLOCK <= DEVICE
        /\ (b + 1) * BLOCK = b * BLOCK + BLOCK /\ DEVICE \in Nat /\ BLOCK \in Nat
    BY BlockSums, Geometry DEF Numbers
  <1>3. PICK x \in Nat : x = b * BLOCK
    BY <1>2
  <1>4. PICK y \in Nat : y = (b + 1) * BLOCK
    BY <1>2
  <1>5. x <= a /\ BLOCK <= x /\ a + size <= y /\ y <= DEVICE
    BY <1>1, <1>2, <1>3, <1>4
  <1>. QED  BY <1>1, <1>2, <1>5

LEMMA LogInit == ASSUME Init PROVE LogIInv
  <1>1. /\ BLOCK \in Nat \ {0} /\ LAST_BLOCK \in Nat \ {0} /\ Slots \in Nat \ {0, 1}
        /\ MAX_PACKETS \in Nat /\ SHORT_PACKET \in 1 .. PAGE /\ LONG_PACKET \in 1 .. PAGE
    BY Geometry DEF Numbers
  <1>2. FlashTypes
    BY <1>1 DEF Init, FlashTypes, CellValues
  <1>3. 1 \in LogBlocks /\ address = 1 * BLOCK /\ address \in BLOCK .. DEVICE
    <2>1. 1 \in LogBlocks /\ address = 1 * BLOCK /\ address = BLOCK
      BY <1>1 DEF Init, RDU_LOG_ADDR_START, LogBlocks
    <2>2. (1 + 1) * BLOCK <= DEVICE /\ (1 + 1) * BLOCK = BLOCK + BLOCK /\ DEVICE \in Nat
      BY <1>1, <2>1, BlockSums
    <2>. QED  BY <1>1, <2>1, <2>2
  <1>4. LogTypes
    <2>1. wrapAddr \in WrapAddresses /\ machState \in MachStates /\ TempDataBuf \in QueueValues
      BY DEF Init, WrapAddresses, MachStates, QueueValues
    <2>2. queue \in Seq(QueueValues) /\ Len(queue) < Slots
      BY <1>1 DEF Init
    <2>3. logReady \in BOOLEAN /\ logErase \in {1, 3} /\ packetSize \in {SHORT_PACKET, recorder}
      BY DEF Init, RDU_LOG_PACKET_SIZE
    <2>. QED  BY <1>3, <2>1, <2>2, <2>3 DEF LogTypes
  <1>5. PlaceIsGood
    <2>1. Position = address /\ wrapAddr = 0
      BY DEF Init, Position
    <2>2. OnGrid(address)
      <3>1. recorder \in 1 .. PAGE
        BY <1>1 DEF Init
      <3>2. InBlock(1 * BLOCK, 1, recorder)
        BY <3>1, FirstPlace
      <3>. QED  BY <1>3, <3>2 DEF OnGrid
    <2>3. ErasedFrom(address)
      BY DEF Init, ErasedFrom
    <2>. QED  BY <2>1, <2>2, <2>3 DEF PlaceIsGood
  <1>6. FlagsAgree
    BY DEF Init, FlagsAgree, RDU_LOG_ADDR_START
  <1>. QED  BY <1>2, <1>4, <1>5, <1>6, IInvParts

\* Steps that leave the flash and the addresses alone.
LEMMA SamePlace ==
  ASSUME PlaceIsGood, UNCHANGED <<flash, bad, recorder, wrapAddr>>, Position' = Position
  PROVE  PlaceIsGood'
  BY DEF PlaceIsGood, OnGrid, ErasedFrom, ErasedToWrap

LEMMA HappenFacts ==
  ASSUME NEW kinds, Happen(kinds), faults \subseteq UNION Faults
  PROVE  /\ faults \subseteq faults' /\ kinds \subseteq faults'
         /\ faults' \subseteq UNION Faults
         /\ kinds # {} => faults' # faults
  <1>1. /\ kinds \cap faults = {} /\ faults' = faults \cup kinds
        /\ kinds # {} => \E together \in Faults : faults' \subseteq together
    BY DEF Happen
  <1>2. faults' \subseteq UNION Faults
    BY <1>1
  <1>. QED  BY <1>1, <1>2

\* What the machine is not expected to cope with.
LEMMA Harms ==
  /\ "packet before erase" \notin Harmless /\ "erase with last block" \notin Harmless
  /\ "power" \notin Harmless /\ "power at boundary" \notin Harmless
  /\ "power in erase" \notin Harmless
  /\ "write" \notin Harmless /\ "write at boundary" \notin Harmless
  BY Zenon DEF Harmless

\* A packet arrives, and no erase waits.
LEMMA ReceiveStep ==
  ASSUME LogIInv, NEW q \in QueueValues, NEW kinds, Receive(q, kinds),
         sent' \in 0 .. MAX_PACKETS, faults' \subseteq Harmless
  PROVE  LogIInv'
  <1>1. FlashTypes /\ LogTypes /\ PlaceIsGood /\ FlagsAgree
    BY IInvParts
  <1>2. /\ queue' = IF Len(queue) < Slots - 1 THEN Append(queue, q) ELSE <<>>
        /\ packetSize' = recorder /\ logReady' = TRUE
        /\ UNCHANGED <<flash, bad, recorder, address, wrapAddr, logErase, machState,
                       TempDataBuf>>
    BY Zenon DEF Receive
  <1>3. /\ faults' \subseteq UNION Faults
        /\ logErase = 1 => "packet before erase" \in faults'
    <2>. DEFINE all == kinds \cup (IF machState = "IDLE" THEN {"early packet"} ELSE {})
                         \cup (IF logErase = 1 THEN {"packet before erase"} ELSE {})
                         \cup (IF Len(queue) = Slots - 1 THEN {"overflow"} ELSE {})
    <2>1. Happen(all)
      BY Zenon DEF Receive
    <2>2. logErase = 1 => "packet before erase" \in all
      OBVIOUS
    <2>. HIDE DEF all
    <2>3. faults \subseteq UNION Faults
      BY <1>1 DEF FlashTypes
    <2>4. faults' \subseteq UNION Faults /\ all \subseteq faults'
      BY <2>1, <2>3, HappenFacts
    <2>. QED  BY <2>2, <2>4, Zenon
  <1>4. logErase # 1
    BY <1>3, Harms, Zenon
  <1>5. FlashTypes'
    BY <1>1, <1>2, <1>3, Zenon DEF FlashTypes
  <1>6. LogTypes'
    <2>1. queue \in Seq(QueueValues) /\ Len(queue) < Slots /\ Slots \in Nat \ {0, 1}
      BY <1>1, Geometry, Zenon DEF LogTypes, Numbers
    <2>2. queue' \in Seq(QueueValues) /\ Len(queue') < Slots
      <3>1. /\ Append(queue, q) \in Seq(QueueValues)
            /\ Len(Append(queue, q)) = Len(queue) + 1 /\ Len(queue) \in Nat
        BY <2>1, AppendProperties, LenProperties
      <3>2. <<>> \in Seq(QueueValues) /\ Len(<<>>) = 0
        BY EmptySeq
      <3>. QED  BY <1>2, <2>1, <3>1, <3>2
    <2>. QED  BY <1>1, <1>2, <2>2, Zenon DEF LogTypes
  <1>7. PlaceIsGood'
    <2>1. machState = "CONFIRM" => packetSize' = packetSize
      BY <1>1, <1>2 DEF FlagsAgree
    <2>2. Position' = Position
      BY <1>2, <2>1 DEF Position, LogIncrementAddress
    <2>. QED  BY <1>1, <1>2, <2>2, SamePlace
  <1>8. FlagsAgree'
    BY <1>1, <1>2, <1>4 DEF FlagsAgree
  <1>. QED  BY <1>5, <1>6, <1>7, <1>8, IInvParts

\* An erase is commanded while the machine is at rest and the last block empty.
LEMMA EraseFlashStep ==
  ASSUME LogIInv, EraseFlash, faults' \subseteq Harmless
  PROVE  LogIInv'
  <1>1. FlashTypes /\ LogTypes /\ PlaceIsGood /\ FlagsAgree
    BY IInvParts
  <1>2. /\ Happen({EraseFault}) /\ logErase' = 1
        /\ UNCHANGED <<flash, bad, recorder, sent, queue, address, wrapAddr,
                       logReady, packetSize, machState, TempDataBuf>>
    BY DEF EraseFlash
  <1>3. faults' \subseteq UNION Faults /\ EraseFault \in faults'
    BY <1>1, <1>2, HappenFacts DEF FlashTypes
  <1>4. machState = "RUN" /\ ~logReady /\ LastBlockErased
    <2>1. EraseFault # "erase with last block"
      BY <1>3, Harms, Zenon
    <2>. QED  BY <2>1, Zenon DEF EraseFault, AtRest, LastBlockErased
  <1>5. FlashTypes' /\ LogTypes'
    <2>1. logErase' \in {1, 3}
      BY <1>2
    <2>. QED  BY <1>1, <1>2, <1>3, <2>1, Zenon DEF FlashTypes, LogTypes
  <1>6. PlaceIsGood'
    <2>1. Position' = Position
      BY <1>2 DEF Position, LogIncrementAddress
    <2>. QED  BY <1>1, <1>2, <2>1, SamePlace
  <1>7. FlagsAgree'
    BY <1>1, <1>2, <1>4 DEF FlagsAgree, LastBlockErased
  <1>. QED  BY <1>5, <1>6, <1>7, IInvParts

\* The states that only look at what there is to do, and the one that reads
\* the packet back: the place of the next packet stays.
LEMMA RestStep ==
  ASSUME LogIInv, RunErase \/ RunNothing \/ Confirm, UNCHANGED <<recorder, sent>>
  PROVE  LogIInv' /\ faults' = faults
  <1>1. FlashTypes /\ LogTypes /\ PlaceIsGood /\ FlagsAgree
    BY IInvParts
  <1>2. UNCHANGED <<flash, bad, queue, wrapAddr, logReady, logErase, packetSize, faults,
                    recorder, sent>>
    BY DEF RunErase, RunNothing, Confirm, infoVars
  <1>3. CASE RunErase \/ RunNothing
    <2>1. /\ machState = "RUN" /\ address' = address /\ TempDataBuf' = TempDataBuf
          /\ \/ machState' = "RUN"
             \/ machState' = "ERASE" /\ logErase = 1 /\ ~logReady
      BY <1>3 DEF RunErase, RunNothing, infoVars
    <2>2. machState' \in MachStates
      BY <2>1 DEF MachStates
    <2>3. FlashTypes' /\ LogTypes'
      BY <1>1, <1>2, <2>1, <2>2, Zenon DEF FlashTypes, LogTypes
    <2>4. Position' = Position
      BY <1>2, <2>1 DEF Position, LogIncrementAddress
    <2>5. PlaceIsGood'
      BY <1>1, <1>2, <2>4, SamePlace
    <2>6. FlagsAgree'
      BY <1>1, <1>2, <2>1 DEF FlagsAgree, LastBlockErased
    <2>. QED  BY <1>2, <2>3, <2>5, <2>6, IInvParts
  <1>4. CASE Confirm
    <2>1. /\ machState = "CONFIRM" /\ machState' = "RUN"
          /\ address' = LogIncrementAddress(address)
          /\ TempDataBuf' = Content(address, packetSize)
      BY <1>4 DEF Confirm
    <2>2. Position' = Position
      BY <2>1 DEF Position
    <2>3. PlaceIsGood'
      BY <1>1, <1>2, <2>2, SamePlace
    <2>4. TempDataBuf' \in QueueValues
      BY <2>1 DEF Content, QueueValues
    <2>5. address' \in BLOCK .. DEVICE
      <3>1. address' = Position
        BY <2>1 DEF Position
      <3>2. CASE Position = DEVICE
        <4>1. BLOCK <= DEVICE /\ BLOCK \in Nat /\ DEVICE \in Nat
          BY <1>1, Geometry, BlockSums DEF LogTypes, Numbers
        <4>. QED  BY <3>1, <3>2, <4>1
      <3>3. ASSUME NEW b \in LogBlocks, InBlock(Position, b, recorder)
            PROVE  Position \in BLOCK .. DEVICE
        <4>1. recorder \in 1 .. PAGE
          BY <1>1, Geometry DEF FlashTypes, Numbers
        <4>. QED  BY <3>3, <4>1, PlaceInLog
      <3>. QED  BY <1>1, <3>1, <3>2, <3>3 DEF PlaceIsGood, OnGrid
    <2>6. machState' \in MachStates
      BY <2>1 DEF MachStates
    <2>7. FlashTypes' /\ LogTypes'
      BY <1>1, <1>2, <2>4, <2>5, <2>6, Zenon DEF FlashTypes, LogTypes
    <2>8. FlagsAgree'
      BY <1>1, <1>2, <2>1 DEF FlagsAgree, LastBlockErased
    <2>. QED  BY <1>2, <2>3, <2>7, <2>8, IInvParts
  <1>. QED  BY <1>3, <1>4

\* LogFindEndOfMemory in a flash whose good blocks are all erased: it finds
\* the first of them.
LEMMA IdleFinds ==
  ASSUME LogIInv, machState = "IDLE", OpenBlocks # {}
  PROVE  /\ wrapAddr = 0 /\ address = BLOCK
         /\ \A c \in Cells : BlockOf(c) \notin bad => flash[c] = ERASED
         /\ \E b \in LogBlocks \ bad :
               LogFindEndOfMemory = [address |-> b * BLOCK, wrapAddr |-> wrapAddr,
                                     at |-> b * BLOCK]
  <1>. DEFINE found == LogFindEndOfMemory
              b     == Min(OpenBlocks)
  <1>1. FlashTypes /\ LogTypes /\ PlaceIsGood /\ FlagsAgree
    BY IInvParts
  <1>3. wrapAddr = 0 /\ address = BLOCK /\ Position = BLOCK
    BY <1>1 DEF FlagsAgree, Position
  <1>4. \A c \in Cells : BlockOf(c) \notin bad => flash[c] = ERASED
    <2>1. \A c \in Cells : c >= BLOCK
      BY CellFacts, Geometry DEF Numbers
    <2>. QED  BY <1>1, <1>3, <2>1 DEF PlaceIsGood, ErasedFrom
  <1>5. b \in LogBlocks \ bad
    <2>1. OpenBlocks \subseteq LogBlocks \ bad /\ OpenBlocks \subseteq Nat
      BY BlockSums DEF OpenBlocks
    <2>2. Min(OpenBlocks) \in OpenBlocks
      BY <2>1, LeastOf
    <2>. QED  BY <2>1, <2>2
  <1>. HIDE DEF b
  <1>6. /\ b \in Nat /\ b * BLOCK \in Nat /\ (b + 1) * BLOCK = b * BLOCK + BLOCK
    BY <1>5, BlockSums
  <1>7. IsErased(b * BLOCK)
    <2>1. ERASED_BYTES \in Nat /\ ERASED_BYTES <= BLOCK /\ BLOCK \in Nat
      <3>1. /\ ERASED_BYTES \in 1 .. SHORT_PACKET /\ SHORT_PACKET \in 1 .. PAGE
            /\ PAGE \in Nat /\ BLOCK \in Nat /\ PAGE <= BLOCK
        BY Geometry, Zenon DEF Numbers
      <3>. QED  BY <3>1
    <2>2. ASSUME NEW c \in b * BLOCK .. b * BLOCK + ERASED_BYTES - 1, c \in Cells
          PROVE  flash[c] = ERASED
      <3>1. PICK x \in Nat : x = b * BLOCK
        BY <1>6
      <3>2. c \in Nat /\ b * BLOCK <= c /\ c < (b + 1) * BLOCK
        BY <1>6, <2>1, <3>1
      <3>3. BlockOf(c) = b
        BY <1>6, <3>2, CellOfBlock
      <3>. QED  BY <1>4, <1>5, <2>2, <3>3
    <2>. QED  BY <2>2 DEF IsErased
  <1>8. found = [address |-> b * BLOCK, wrapAddr |-> wrapAddr, at |-> b * BLOCK]
    BY <1>7, Zenon DEF LogFindEndOfMemory, b
  <1>. QED  BY <1>3, <1>4, <1>5, <1>8 DEF found

\* So the log begins there.
LEMMA IdleStep ==
  ASSUME LogIInv, Idle, UNCHANGED <<recorder, sent>>
  PROVE  LogIInv' /\ faults' = faults
  <1>. DEFINE found == LogFindEndOfMemory
              lost  == Content(found.at, packetSize)
  <1>1. FlashTypes /\ LogTypes /\ PlaceIsGood /\ FlagsAgree
    BY IInvParts
  <1>2. /\ machState = "IDLE" /\ machState' = "RUN" /\ TempDataBuf' = GARBAGE
        /\ address' = found.address /\ wrapAddr' = found.wrapAddr
        /\ queue' = IF queue = <<>> THEN queue ELSE <<lost>> \o Tail(queue)
        /\ OpenBlocks # {}
        /\ UNCHANGED <<flash, bad, logReady, logErase, packetSize, faults>>
    BY DEF Idle
  <1>3. wrapAddr = 0 /\ address = BLOCK
    BY <1>2, IdleFinds, Zenon
  <1>4. \A c \in Cells : BlockOf(c) \notin bad => flash[c] = ERASED
    BY <1>2, IdleFinds, Zenon
  <1>5. PICK b \in LogBlocks \ bad :
          found = [address |-> b * BLOCK, wrapAddr |-> wrapAddr, at |-> b * BLOCK]
    BY <1>2, IdleFinds, Zenon
  <1>6. /\ b \in Nat /\ b * BLOCK \in Nat /\ (b + 1) * BLOCK = b * BLOCK + BLOCK
    BY <1>5, BlockSums
  <1>8. found = [address |-> b * BLOCK, wrapAddr |-> wrapAddr, at |-> b * BLOCK]
    BY <1>5
  <1>. HIDE DEF found
  <1>9. address' = b * BLOCK /\ wrapAddr' = 0 /\ Position' = b * BLOCK
    BY <1>2, <1>3, <1>8 DEF Position
  <1>10. FlashTypes'
    BY <1>1, <1>2, Zenon DEF FlashTypes
  <1>11. LogTypes'
    <2>1. lost \in QueueValues
      BY DEF Content, QueueValues
    <2>. HIDE DEF lost
    <2>2. queue \in Seq(QueueValues) /\ Len(queue) < Slots /\ Slots \in Nat
      BY <1>1, Geometry, Zenon DEF LogTypes, Numbers
    <2>3. queue' \in Seq(QueueValues) /\ Len(queue') < Slots
      <3>1. CASE queue = <<>>
        BY <1>2, <2>2, <3>1
      <3>2. CASE queue # <<>>
        <4>1. /\ Tail(queue) \in Seq(QueueValues) /\ Len(Tail(queue)) = Len(queue) - 1
              /\ Len(queue) \in Nat
          BY <2>2, <3>2, HeadTailProperties, LenProperties
        <4>2. <<lost>> \in Seq(QueueValues) /\ Len(<<lost>>) = 1
          BY <2>1
        <4>3. /\ <<lost>> \o Tail(queue) \in Seq(QueueValues)
              /\ Len(<<lost>> \o Tail(queue)) = 1 + (Len(queue) - 1)
          BY <4>1, <4>2, ConcatProperties
        <4>. QED  BY <1>2, <2>2, <3>2, <4>1, <4>3
      <3>. QED  BY <3>1, <3>2
    <2>4. address' \in BLOCK .. DEVICE
      <3>1. SHORT_PACKET \in 1 .. PAGE
        BY Geometry, Zenon DEF Numbers
      <3>2. InBlock(b * BLOCK, b, SHORT_PACKET)
        BY <1>6, <3>1, FirstPlace
      <3>. QED  BY <1>5, <1>9, <3>1, <3>2, PlaceInLog
    <2>5. wrapAddr' \in WrapAddresses
      BY <1>9 DEF WrapAddresses
    <2>6. machState' \in MachStates /\ TempDataBuf' \in QueueValues
      BY <1>2 DEF MachStates, QueueValues
    <2>. QED  BY <1>1, <1>2, <2>3, <2>4, <2>5, <2>6, Zenon DEF LogTypes
  <1>12. PlaceIsGood'
    <2>1. recorder' \in 1 .. PAGE
      BY <1>1, Geometry DEF FlashTypes, Numbers
    <2>2. InBlock(b * BLOCK, b, recorder')
      BY <1>6, <2>1, FirstPlace
    <2>3. OnGrid(Position)'
      BY <1>5, <1>9, <2>2 DEF OnGrid, InBlock
    <2>4. ErasedFrom(Position)'
      BY <1>2, <1>4 DEF ErasedFrom
    <2>. QED  BY <1>9, <2>3, <2>4 DEF PlaceIsGood
  <1>13. FlagsAgree'
    BY <1>1, <1>2 DEF FlagsAgree, LastBlockErased
  <1>. QED  BY <1>2, <1>10, <1>11, <1>12, <1>13, IInvParts

\* LOG_ERASE_STATE, entered with an empty last block: every good block is
\* erased when the log starts over.
LEMMA EraseStep ==
  ASSUME LogIInv, Erase, UNCHANGED <<recorder, sent>>
  PROVE  LogIInv' /\ faults' = faults
  <1>. DEFINE end    == BlockOf(RDU_LOG_ADDR_END) - 1
              blocks == {BlockOf(HandleBadBlock(b * BLOCK, bad)) :
                            b \in BlockOf(RDU_LOG_ADDR_START) .. end}
  <1>1. FlashTypes /\ LogTypes /\ PlaceIsGood /\ FlagsAgree
    BY IInvParts
  <1>2. /\ machState = "ERASE" /\ flash' = Wiped(flash, blocks)
        /\ queue' = <<>> /\ address' = BLOCK /\ wrapAddr' = 0
        /\ logReady' = FALSE /\ logErase' = 3 /\ packetSize' = SHORT_PACKET
        /\ machState' = "IDLE"
        /\ UNCHANGED <<bad, TempDataBuf, faults, recorder, sent>>
    BY DEF Erase, InitLog, RDU_LOG_ADDR_START, RDU_LOG_PACKET_SIZE
  <1>3. LastBlockErased
    BY <1>1, <1>2 DEF FlagsAgree
  <1>4. /\ PAGE \in Nat \ {0} /\ BLOCK \in Nat \ {0} /\ LAST_BLOCK \in Nat \ {0}
        /\ SHORT_PACKET \in 1 .. PAGE /\ LONG_PACKET \in 1 .. PAGE /\ PAGE <= BLOCK
        /\ Slots \in Nat \ {0, 1}
    BY Geometry, Zenon DEF Numbers
  <1>5. BlockOf(RDU_LOG_ADDR_START) = 1 /\ end = LAST_BLOCK - 1
    <2>1. RDU_LOG_ADDR_START = 1 * BLOCK /\ 1 \in LogBlocks /\ LAST_BLOCK \in LogBlocks
      BY <1>4 DEF RDU_LOG_ADDR_START, LogBlocks
    <2>2. (1 + 1) * BLOCK = 1 * BLOCK + BLOCK
      BY <1>4
    <2>3. BlockOf(RDU_LOG_ADDR_START) = 1
      BY <1>4, <2>1, <2>2, CellOfBlock
    <2>4. /\ DEVICE = (LAST_BLOCK + 1) * BLOCK /\ LAST_BLOCK * BLOCK \in Nat
          /\ (LAST_BLOCK + 1) * BLOCK = LAST_BLOCK * BLOCK + BLOCK
      BY <2>1, BlockSums
    <2>5. /\ RDU_LOG_ADDR_END \in Nat /\ LAST_BLOCK * BLOCK <= RDU_LOG_ADDR_END
          /\ RDU_LOG_ADDR_END < (LAST_BLOCK + 1) * BLOCK
      BY <1>4, <2>4 DEF RDU_LOG_ADDR_END
    <2>6. BlockOf(RDU_LOG_ADDR_END) = LAST_BLOCK
      BY <1>4, <2>5, CellOfBlock
    <2>. QED  BY <2>3, <2>6
  <1>6. ASSUME NEW g \in LogBlocks \ bad, g # LAST_BLOCK PROVE g \in blocks
    <2>1. g \in BlockOf(RDU_LOG_ADDR_START) .. end
      BY <1>4, <1>5, <1>6 DEF LogBlocks
    <2>2. g \in Nat /\ g * BLOCK \in Nat /\ (g + 1) * BLOCK = g * BLOCK + BLOCK
      BY BlockSums
    <2>3. BlockOf(g * BLOCK) = g
      BY <1>4, <2>2, CellOfBlock
    <2>4. HandleBadBlock(g * BLOCK, bad) = g * BLOCK
      BY <1>6, <2>3 DEF HandleBadBlock
    <2>. QED  BY <2>1, <2>3, <2>4
  <1>. HIDE DEF blocks, end
  <1>7. flash \in [Cells -> Packets \cup {ERASED, GARBAGE}]
    BY <1>1, Zenon DEF FlashTypes, CellValues
  <1>8. ASSUME NEW c \in Cells, BlockOf(c) \notin bad PROVE flash'[c] = ERASED
    <2>1. BlockOf(c) \in LogBlocks
      BY CellFacts
    <2>2. CASE BlockOf(c) = LAST_BLOCK
      <3>1. flash[c] = ERASED
        BY <1>3, <2>2 DEF LastBlockErased
      <3>. QED  BY <1>2, <1>7, <3>1, WipedCells
    <2>3. CASE BlockOf(c) # LAST_BLOCK
      BY <1>2, <1>6, <1>7, <1>8, <2>1, <2>3, WipedCells
    <2>. QED  BY <2>2, <2>3
  <1>9. FlashTypes'
    <2>1. flash' \in [Cells -> CellValues]
      BY <1>2, <1>7, WipedCells DEF CellValues
    <2>. QED  BY <1>1, <1>2, <2>1, Zenon DEF FlashTypes
  <1>10. InBlock(1 * BLOCK, 1, recorder) /\ 1 \in LogBlocks /\ 1 * BLOCK = BLOCK
    <2>1. recorder \in 1 .. PAGE
      BY <1>1, <1>4 DEF FlashTypes
    <2>. QED  BY <1>4, <2>1, FirstPlace DEF LogBlocks
  <1>11. LogTypes'
    <2>1. address' \in BLOCK .. DEVICE
      <3>1. recorder \in 1 .. PAGE
        BY <1>1, <1>4 DEF FlashTypes
      <3>. QED  BY <1>2, <1>10, <3>1, PlaceInLog
    <2>2. queue' \in Seq(QueueValues) /\ Len(queue') < Slots
      BY <1>2, <1>4
    <2>3. wrapAddr' \in WrapAddresses /\ machState' \in MachStates
      BY <1>2 DEF WrapAddresses, MachStates
    <2>4. logReady' \in BOOLEAN /\ logErase' \in {1, 3} /\ packetSize' \in {SHORT_PACKET, recorder'}
      BY <1>2
    <2>5. TempDataBuf' \in QueueValues
      BY <1>1, <1>2, Zenon DEF LogTypes
    <2>. QED  BY <2>1, <2>2, <2>3, <2>4, <2>5, Zenon DEF LogTypes
  <1>12. PlaceIsGood'
    <2>1. Position' = BLOCK
      BY <1>2 DEF Position
    <2>2. OnGrid(Position)'
      BY <1>2, <1>10, <2>1 DEF OnGrid, InBlock
    <2>3. ErasedFrom(Position)'
      BY <1>2, <1>8 DEF ErasedFrom
    <2>. QED  BY <1>2, <2>2, <2>3 DEF PlaceIsGood
  <1>13. FlagsAgree'
    BY <1>1, <1>2 DEF FlagsAgree
  <1>. QED  BY <1>2, <1>9, <1>11, <1>12, <1>13, IInvParts

\* The place behind the one LOG_RUN_STATE found, in the same block or at its end.
LEMMA PlaceAfterRun ==
  ASSUME NEW table, LAST_BLOCK \notin table, NEW b \in LogBlocks \ table,
         NEW next \in Nat, next = (b + 1) * BLOCK \/ InBlock(next, b, recorder),
         recorder \in 1 .. PAGE,
         bad' = table, recorder' = recorder, Position' = next,
         \/ /\ wrapAddr' = 0
            /\ \A c \in Cells : c >= next /\ BlockOf(c) \notin table => flash'[c] = ERASED
         \/ /\ wrapAddr' = (b + 1) * BLOCK
            /\ \A c \in Cells : c >= next /\ c < (b + 1) * BLOCK => flash'[c] = ERASED
  PROVE  PlaceIsGood'
  <1>1. /\ b \in Nat /\ BLOCK <= b * BLOCK /\ b * BLOCK \in Nat
        /\ (b + 1) * BLOCK = b * BLOCK + BLOCK
        /\ b = LAST_BLOCK \/ b + 1 \in LogBlocks
        /\ DEVICE = (LAST_BLOCK + 1) * BLOCK
        /\ BLOCK \in Nat \ {0}
    BY BlockSums, Geometry DEF Numbers
  <1>2. next = DEVICE \/ \E g \in LogBlocks : InBlock(next, g, recorder)
    <2>1. CASE InBlock(next, b, recorder)
      BY <2>1
    <2>2. CASE next = (b + 1) * BLOCK /\ b = LAST_BLOCK
      BY <1>1, <2>2
    <2>3. CASE next = (b + 1) * BLOCK /\ b + 1 \in LogBlocks
      <3>1. InBlock((b + 1) * BLOCK, b + 1, recorder)
        BY <1>1, FirstPlace
      <3>. QED  BY <2>3, <3>1
    <2>. QED  BY <1>1, <2>1, <2>2, <2>3
  <1>3. OnGrid(Position)'
    BY <1>2 DEF OnGrid, InBlock
  <1>4. b * BLOCK <= next /\ next <= (b + 1) * BLOCK
    <2>1. CASE InBlock(next, b, recorder)
      <3>1. b * BLOCK <= next /\ next + recorder <= (b + 1) * BLOCK
        BY <1>1, <2>1, PlaceBounds
      <3>2. recorder \in Nat
        OBVIOUS
      <3>3. PICK x \in Nat : x = (b + 1) * BLOCK
        BY <1>1
      <3>4. next <= x
        BY <3>1, <3>2, <3>3
      <3>. QED  BY <3>1, <3>3, <3>4
    <2>2. CASE next = (b + 1) * BLOCK
      BY <1>1, <2>2
    <2>. QED  BY <2>1, <2>2
  <1>5. CASE /\ wrapAddr' = 0
             /\ \A c \in Cells : c >= next /\ BlockOf(c) \notin table => flash'[c] = ERASED
    <2>1. ErasedFrom(Position)'
      BY <1>5 DEF ErasedFrom
    <2>. QED  BY <1>3, <1>5, <2>1 DEF PlaceIsGood
  <1>6. CASE /\ wrapAddr' = (b + 1) * BLOCK
             /\ \A c \in Cells : c >= next /\ c < (b + 1) * BLOCK => flash'[c] = ERASED
    <2>1. wrapAddr' # 0
      BY <1>1, <1>6
    <2>2. ErasedToWrap(Position)'
      BY <1>4, <1>6 DEF ErasedToWrap
    <2>. QED  BY <1>3, <2>1, <2>2 DEF PlaceIsGood
  <1>. QED  BY <1>5, <1>6

\* What LOG_RUN_STATE does, whatever the faults that happen in it are called.
LEMMA RunParts ==
  ASSUME Run
  PROVE  /\ machState = "RUN" /\ logReady /\ UNCHANGED <<logErase, packetSize>>
         /\ \E failing \in FailingErases : \E kinds :
              LET m     == LogManageAddresses(failing)
                  cells == Wiped(flash, m.erases)
                  a     == HandleBadBlock(m.address, bad \cup failing)
              IN  /\ failing \subseteq m.tried
                  /\ bad' = bad \cup failing
                  /\ wrapAddr' = m.wrapAddr
                  /\ queue # <<>> => Store(cells, a)
                  /\ queue = <<>> => /\ flash' = cells /\ address' = a
                                     /\ logReady' = FALSE
                                     /\ UNCHANGED <<queue, TempDataBuf, machState>>
                  /\ Happen(kinds)
                  /\ queue # <<>> /\ machState' = "WRITE_FAIL" /\ CanWrite(cells, a)
                     => WriteFault(a) \in kinds
  <1>1. machState = "RUN" /\ logReady /\ UNCHANGED <<logErase, packetSize>>
    BY Zenon DEF Run
  <1>2. PICK failing \in FailingErases :
          LET m     == LogManageAddresses(failing)
              cells == Wiped(flash, m.erases)
              a     == HandleBadBlock(m.address, bad \cup failing)
              fails == queue # <<>> /\ machState' = "WRITE_FAIL" /\ CanWrite(cells, a)
          IN  /\ failing \subseteq m.tried
              /\ bad' = bad \cup failing
              /\ wrapAddr' = m.wrapAddr
              /\ IF queue # <<>> THEN Store(cells, a)
                 ELSE /\ flash' = cells /\ address' = a
                      /\ logReady' = FALSE
                      /\ UNCHANGED <<queue, TempDataBuf, machState>>
              /\ Happen(({"bad block" : b \in failing} \ faults)
                        \cup IF fails THEN {WriteFault(a)} ELSE {})
    BY Zenon DEF Run
  <1>. DEFINE m     == LogManageAddresses(failing)
              cells == Wiped(flash, m.erases)
              a     == HandleBadBlock(m.address, bad \cup failing)
              fails == queue # <<>> /\ machState' = "WRITE_FAIL" /\ CanWrite(cells, a)
              kinds == ({"bad block" : b \in failing} \ faults) \cup IF fails THEN {WriteFault(a)} ELSE {}
  <1>3. /\ failing \subseteq m.tried
        /\ bad' = bad \cup failing
        /\ wrapAddr' = m.wrapAddr
        /\ queue # <<>> => Store(cells, a)
        /\ queue = <<>> => /\ flash' = cells /\ address' = a
                           /\ logReady' = FALSE
                           /\ UNCHANGED <<queue, TempDataBuf, machState>>
        /\ Happen(kinds)
    BY <1>2, Zenon
  <1>4. fails => WriteFault(a) \in kinds
    BY Zenon
  <1>. QED  BY <1>1, <1>3, <1>4, Zenon

\* LOG_RUN_STATE when no write is refused: it leaves the packet in the queue's
\* last buffer out, or writes it at place a of the cells it made room in.
Stored(cells, a) ==
    \/ /\ flash' = cells /\ address' = a /\ logReady' = FALSE /\ machState' = "RUN"
       /\ \/ queue = <<>> /\ queue' = queue /\ TempDataBuf' = TempDataBuf
          \/ /\ queue # <<>> /\ Head(queue) = GARBAGE
             /\ queue' = Tail(queue) /\ TempDataBuf' = Head(queue)
    \/ /\ flash' = Written(cells, a, packetSize, Head(queue)) /\ address' = a
       /\ machState' = "CONFIRM" /\ logReady' = TRUE
       /\ queue # <<>> /\ Head(queue) # GARBAGE
       /\ queue' = Tail(queue) /\ TempDataBuf' = Head(queue)

\* LOG_RUN_STATE: a write that is refused is a fault of its own, and without
\* such faults there is a place, in a good block, with erased flash before it.
LEMMA RunOutcome ==
  ASSUME LogIInv, Run, UNCHANGED <<recorder, sent>>
  PROVE  /\ faults \subseteq faults' /\ faults' \subseteq UNION Faults
         /\ machState' = "WRITE_FAIL" => faults' # faults
         /\ faults' \subseteq Harmless =>
              \E failing \in FailingErases : \E b \in LogBlocks :
                LET m     == LogManageAddresses(failing)
                    table == bad \cup failing
                    cells == Wiped(flash, m.erases)
                    a     == HandleBadBlock(m.address, table)
                IN  /\ failing \subseteq m.tried
                    /\ LAST_BLOCK \notin table /\ table \subseteq LogBlocks /\ b \notin table
                    /\ cells \in [Cells -> CellValues]
                    /\ InBlock(a, b, packetSize) /\ CanWrite(cells, a)
                    /\ \/ /\ m.wrapAddr = 0
                          /\ \A c \in Cells : c >= a /\ BlockOf(c) \notin table
                                              => cells[c] = ERASED
                       \/ /\ m.wrapAddr = (b + 1) * BLOCK
                          /\ \A c \in Cells : c >= a /\ c < m.wrapAddr
                                              => cells[c] = ERASED
                    /\ bad' = table /\ wrapAddr' = m.wrapAddr
                    /\ Stored(cells, a)
  <1>1. FlashTypes /\ LogTypes /\ PlaceIsGood /\ FlagsAgree
    BY IInvParts
  <1>2. /\ machState = "RUN" /\ logReady /\ packetSize = recorder /\ logErase # 1
        /\ UNCHANGED <<logErase, packetSize>>
    BY <1>1, RunParts, Zenon DEF FlagsAgree
  <1>3. UNCHANGED <<logErase, packetSize, recorder, sent>>
    BY <1>2, Zenon
  <1>4. PICK failing \in FailingErases : \E kinds :
          LET m     == LogManageAddresses(failing)
              cells == Wiped(flash, m.erases)
              a     == HandleBadBlock(m.address, bad \cup failing)
          IN  /\ failing \subseteq m.tried
              /\ bad' = bad \cup failing
              /\ wrapAddr' = m.wrapAddr
              /\ queue # <<>> => Store(cells, a)
              /\ queue = <<>> => /\ flash' = cells /\ address' = a
                                 /\ logReady' = FALSE
                                 /\ UNCHANGED <<queue, TempDataBuf, machState>>
              /\ Happen(kinds)
              /\ queue # <<>> /\ machState' = "WRITE_FAIL" /\ CanWrite(cells, a)
                 => WriteFault(a) \in kinds
    BY RunParts, Zenon
  <1>5. PICK m : m = LogManageAddresses(failing)
    OBVIOUS
  <1>6. PICK cells : cells = Wiped(flash, m.erases)
    OBVIOUS
  <1>7. PICK table : table = bad \cup failing
    OBVIOUS
  <1>8. PICK a : a = HandleBadBlock(m.address, table)
    OBVIOUS
  <1>9. /\ LAST_BLOCK \notin table /\ table \subseteq LogBlocks
        /\ cells \in [Cells -> CellValues]
        /\ \E b \in LogBlocks \ table :
              /\ InBlock(a, b, packetSize)
              /\ \/ /\ m.wrapAddr = 0
                    /\ \A c \in Cells : c >= a /\ BlockOf(c) \notin table
                                        => cells[c] = ERASED
                 \/ /\ m.wrapAddr = (b + 1) * BLOCK
                    /\ \A c \in Cells : c >= a /\ c < m.wrapAddr
                                        => cells[c] = ERASED
    <2>1. failing \subseteq LogManageAddresses(failing).tried
      BY <1>4, Zenon
    <2>. QED  BY <1>2, <1>5, <1>6, <1>7, <1>8, <2>1, RunPlace, Zenon DEF CellValues
  <1>10. PICK b \in LogBlocks \ table :
              /\ InBlock(a, b, packetSize)
              /\ \/ /\ m.wrapAddr = 0
                    /\ \A c \in Cells : c >= a /\ BlockOf(c) \notin table
                                        => cells[c] = ERASED
                 \/ /\ m.wrapAddr = (b + 1) * BLOCK
                    /\ \A c \in Cells : c >= a /\ c < m.wrapAddr
                                        => cells[c] = ERASED
    BY <1>9
  <1>11. PICK kinds :
         /\ bad' = table /\ wrapAddr' = m.wrapAddr /\ Happen(kinds)
         /\ queue # <<>> => Store(cells, a)
         /\ queue = <<>> => /\ flash' = cells /\ address' = a /\ logReady' = FALSE
                            /\ UNCHANGED <<queue, TempDataBuf, machState>>
         /\ queue # <<>> /\ machState' = "WRITE_FAIL" /\ CanWrite(cells, a)
            => WriteFault(a) \in kinds
    BY <1>4, <1>5, <1>6, <1>7, <1>8, Zenon
  <1>12. /\ PAGE \in Nat \ {0} /\ BLOCK \in Nat \ {0}
         /\ recorder \in 1 .. PAGE /\ packetSize \in 1 .. PAGE /\ packetSize \in Nat \ {0}
         /\ packetSize \in {SHORT_PACKET, LONG_PACKET}
    BY <1>1, <1>2, Geometry DEF FlashTypes, Numbers
  <1>13. /\ b \in Nat /\ b * BLOCK \in Nat /\ (b + 1) * BLOCK = b * BLOCK + BLOCK
         /\ BLOCK <= b * BLOCK /\ (b + 1) * BLOCK <= DEVICE /\ DEVICE \in Nat
    BY BlockSums
  <1>14. /\ a \in Nat /\ b * BLOCK <= a /\ a + packetSize <= (b + 1) * BLOCK
         /\ a \in BLOCK .. DEVICE
    <2>1. /\ a \in Nat /\ b * BLOCK <= a /\ a + packetSize <= (b + 1) * BLOCK
      BY <1>10, <1>12, <1>13, PlaceBounds
    <2>. QED  BY <1>10, <1>12, <2>1, PlaceInLog
  <1>15. CanWrite(cells, a)
    <2>1. ASSUME NEW c \in a .. a + packetSize - 1
          PROVE  c \in Cells /\ cells[c] = ERASED
      <3>1. PICK x \in Nat : x = b * BLOCK
        BY <1>13
      <3>2. PICK y \in Nat : y = (b + 1) * BLOCK
        BY <1>12, <1>13
      <3>3. /\ c \in Nat /\ c >= a /\ x <= c /\ c < y /\ y <= DEVICE /\ BLOCK <= x
        BY <1>12, <1>13, <1>14, <3>1, <3>2
      <3>4. c \in Cells
        BY <1>12, <1>13, <3>3 DEF Cells, RDU_LOG_ADDR_START
      <3>5. BlockOf(c) = b
        BY <1>13, <3>1, <3>2, <3>3, CellOfBlock
      <3>. QED  BY <1>10, <3>2, <3>3, <3>4, <3>5
    <2>. QED  BY <2>1 DEF CanWrite
  <1>16. /\ faults \subseteq faults' /\ faults' \subseteq UNION Faults
         /\ kinds \subseteq faults'
         /\ kinds # {} => faults' # faults
    <2>1. faults \subseteq UNION Faults
      BY <1>1 DEF FlashTypes
    <2>. QED  BY <1>11, <2>1, HappenFacts
  <1>17. machState' = "WRITE_FAIL" => WriteFault(a) \in kinds
    <2>1. machState' = "WRITE_FAIL" => queue # <<>>
      BY <1>2, <1>11
    <2>. QED  BY <1>11, <1>15, <2>1, Zenon
  <1>18. ASSUME faults' \subseteq Harmless PROVE machState' # "WRITE_FAIL"
    <2>1. WriteFault(a) \notin Harmless
      BY Harms, Zenon DEF WriteFault
    <2>. QED  BY <1>16, <1>17, <1>18, <2>1, Zenon
  <1>19. ASSUME faults' \subseteq Harmless
         PROVE  Stored(cells, a)
    <2>1. machState' # "WRITE_FAIL"
      BY <1>18, <1>19
    <2>2. CASE queue = <<>>
      BY <1>2, <1>11, <2>2 DEF Stored
    <2>3. CASE queue # <<>>
      <3>1. Store(cells, a)
        BY <1>11, <2>3
      <3>2. logReady = TRUE
        BY <1>1, <1>2 DEF LogTypes
      <3>. QED  BY <1>2, <2>1, <2>3, <3>1, <3>2 DEF Store, Stored
    <2>. QED  BY <2>2, <2>3
  <1>20. failing \subseteq m.tried
    BY <1>4, <1>5, Zenon
  <1>21. b \in LogBlocks /\ b \notin table
    OBVIOUS
  <1>22. ASSUME faults' \subseteq Harmless
         PROVE
           /\ failing \subseteq m.tried
           /\ LAST_BLOCK \notin table /\ table \subseteq LogBlocks /\ b \notin table
           /\ cells \in [Cells -> CellValues]
           /\ InBlock(a, b, packetSize) /\ CanWrite(cells, a)
           /\ \/ /\ m.wrapAddr = 0
                 /\ \A c \in Cells : c >= a /\ BlockOf(c) \notin table
                                      => cells[c] = ERASED
              \/ /\ m.wrapAddr = (b + 1) * BLOCK
                 /\ \A c \in Cells : c >= a /\ c < m.wrapAddr
                                      => cells[c] = ERASED
           /\ bad' = table /\ wrapAddr' = m.wrapAddr
           /\ Stored(cells, a)
    BY <1>9, <1>10, <1>11, <1>15, <1>19, <1>20, <1>21, <1>22, Zenon
  <1>23. faults \subseteq faults' /\ faults' \subseteq UNION Faults
         /\ (machState' = "WRITE_FAIL" => faults' # faults)
    BY <1>16, <1>17, Zenon
  <1>. QED  BY <1>5, <1>6, <1>7, <1>8, <1>21, <1>22, <1>23, Zenon

\* So the log goes on behind the packet.
LEMMA RunStep ==
  ASSUME LogIInv, Run, UNCHANGED <<recorder, sent>>, faults' \subseteq Harmless
  PROVE  LogIInv'
  <1>1. FlashTypes /\ LogTypes /\ PlaceIsGood /\ FlagsAgree
    BY IInvParts
  <1>2. /\ machState = "RUN" /\ logReady /\ packetSize = recorder /\ logErase # 1
        /\ UNCHANGED <<logErase, packetSize>>
    BY <1>1, RunParts, Zenon DEF FlagsAgree
  <1>3. UNCHANGED <<logErase, packetSize, recorder, sent>>
    BY <1>2, Zenon
  <1>4. PICK failing \in FailingErases, b \in LogBlocks :
          LET m     == LogManageAddresses(failing)
              table == bad \cup failing
              cells == Wiped(flash, m.erases)
              a     == HandleBadBlock(m.address, table)
          IN  /\ failing \subseteq m.tried
              /\ LAST_BLOCK \notin table /\ table \subseteq LogBlocks /\ b \notin table
              /\ cells \in [Cells -> CellValues]
              /\ InBlock(a, b, packetSize) /\ CanWrite(cells, a)
              /\ \/ /\ m.wrapAddr = 0
                    /\ \A c \in Cells : c >= a /\ BlockOf(c) \notin table
                                        => cells[c] = ERASED
                 \/ /\ m.wrapAddr = (b + 1) * BLOCK
                    /\ \A c \in Cells : c >= a /\ c < m.wrapAddr
                                        => cells[c] = ERASED
              /\ bad' = table /\ wrapAddr' = m.wrapAddr
              /\ Stored(cells, a)
    BY RunOutcome, Zenon
  <1>5. PICK m : m = LogManageAddresses(failing)
    OBVIOUS
  <1>6. PICK cells : cells = Wiped(flash, m.erases)
    OBVIOUS
  <1>7. PICK table : table = bad \cup failing
    OBVIOUS
  <1>8. PICK a : a = HandleBadBlock(m.address, table)
    OBVIOUS
  <1>9. /\ LAST_BLOCK \notin table /\ table \subseteq LogBlocks
        /\ cells \in [Cells -> CellValues]
    BY <1>4, <1>5, <1>6, <1>7, <1>8, Zenon
  <1>10. /\ InBlock(a, b, packetSize)
         /\ \/ /\ m.wrapAddr = 0
               /\ \A c \in Cells : c >= a /\ BlockOf(c) \notin table
                                   => cells[c] = ERASED
            \/ /\ m.wrapAddr = (b + 1) * BLOCK
               /\ \A c \in Cells : c >= a /\ c < m.wrapAddr
                                   => cells[c] = ERASED
    BY <1>4, <1>5, <1>6, <1>7, <1>8, Zenon
  <1>11. /\ bad' = table /\ wrapAddr' = m.wrapAddr /\ b \in LogBlocks \ table
         /\ Stored(cells, a)
    BY <1>4, <1>5, <1>6, <1>7, <1>8, Zenon
  <1>12. /\ PAGE \in Nat \ {0} /\ BLOCK \in Nat \ {0}
         /\ recorder \in 1 .. PAGE /\ packetSize \in 1 .. PAGE /\ packetSize \in Nat \ {0}
         /\ packetSize \in {SHORT_PACKET, LONG_PACKET}
    BY <1>1, <1>2, Geometry DEF FlashTypes, Numbers
  <1>13. /\ b \in Nat /\ b * BLOCK \in Nat /\ (b + 1) * BLOCK = b * BLOCK + BLOCK
         /\ BLOCK <= b * BLOCK /\ (b + 1) * BLOCK <= DEVICE /\ DEVICE \in Nat
    BY BlockSums
  <1>14. /\ a \in Nat /\ b * BLOCK <= a /\ a + packetSize <= (b + 1) * BLOCK
         /\ a \in BLOCK .. DEVICE
    <2>1. /\ a \in Nat /\ b * BLOCK <= a /\ a + packetSize <= (b + 1) * BLOCK
      BY <1>10, <1>12, <1>13, PlaceBounds
    <2>. QED  BY <1>10, <1>12, <2>1, PlaceInLog
  <1>15. PICK p : p = Head(queue)
    OBVIOUS
  <1>16. \/ /\ flash' = cells /\ address' = a /\ logReady' = FALSE /\ machState' = "RUN"
            /\ \/ queue' = queue /\ TempDataBuf' = TempDataBuf
               \/ queue # <<>> /\ queue' = Tail(queue) /\ TempDataBuf' = p
         \/ /\ flash' = Written(cells, a, packetSize, p) /\ address' = a
            /\ machState' = "CONFIRM" /\ logReady' = TRUE /\ p # GARBAGE
            /\ queue # <<>> /\ queue' = Tail(queue) /\ TempDataBuf' = p
    BY <1>11, <1>15 DEF Stored
  <1>17. queue \in Seq(QueueValues) /\ Len(queue) < Slots /\ Slots \in Nat
    BY <1>1, Geometry, Zenon DEF LogTypes, Numbers
  <1>18. /\ queue' \in Seq(QueueValues) /\ Len(queue') < Slots
         /\ TempDataBuf' \in QueueValues
         /\ machState' = "CONFIRM" => p \in Packets
    <2>1. queue # <<>> => /\ Tail(queue) \in Seq(QueueValues)
                          /\ Len(Tail(queue)) = Len(queue) - 1 /\ Len(queue) \in Nat
                          /\ p \in QueueValues
      BY <1>15, <1>17, HeadTailProperties, LenProperties
    <2>2. TempDataBuf \in QueueValues
      BY <1>1, Zenon DEF LogTypes
    <2>. QED  BY <1>16, <1>17, <2>1, <2>2 DEF QueueValues
  <1>19. flash' \in [Cells -> CellValues]
    <2>1. p \in Packets => Written(cells, a, packetSize, p) \in [Cells -> CellValues]
      BY <1>9 DEF Written, CellValues
    <2>. QED  BY <1>9, <1>16, <1>18, <2>1
  <1>20. FlashTypes'
    BY <1>1, <1>3, <1>9, <1>11, RunOutcome, <1>19, Zenon DEF FlashTypes
  <1>21. wrapAddr' \in WrapAddresses
    <2>1. b \in 1 .. LAST_BLOCK /\ LAST_BLOCK \in Nat /\ b + 1 \in 1 .. LAST_BLOCK + 1
      BY Geometry DEF Numbers, LogBlocks
    <2>. QED  BY <1>10, <1>11, <2>1 DEF WrapAddresses
  <1>22. LogTypes'
    <2>1. machState' \in MachStates /\ logReady' \in BOOLEAN /\ address' \in BLOCK .. DEVICE
      BY <1>14, <1>16 DEF MachStates
    <2>2. logErase' \in {1, 3} /\ packetSize' \in {SHORT_PACKET, recorder'}
      BY <1>1, <1>3, Zenon DEF LogTypes
    <2>. QED  BY <1>18, <1>21, <2>1, <2>2, Zenon DEF LogTypes
  <1>23. FlagsAgree'
    BY <1>2, <1>3, <1>9, <1>11, <1>16 DEF FlagsAgree
  <1>24. ASSUME machState' = "RUN" PROVE PlaceIsGood'
    <2>1. flash' = cells /\ Position' = a
      BY <1>16, <1>24 DEF Position
    <2>2. \/ /\ wrapAddr' = 0
             /\ \A c \in Cells : c >= a /\ BlockOf(c) \notin table => flash'[c] = ERASED
          \/ /\ wrapAddr' = (b + 1) * BLOCK
             /\ \A c \in Cells : c >= a /\ c < (b + 1) * BLOCK => flash'[c] = ERASED
      BY <1>10, <1>11, <2>1
    <2>3. /\ a \in Nat /\ InBlock(a, b, recorder) /\ recorder \in 1 .. PAGE
          /\ bad' = table /\ recorder' = recorder /\ LAST_BLOCK \notin table
      BY <1>2, <1>3, <1>9, <1>10, <1>11, <1>12, <1>14, Zenon
    <2>. QED  BY <1>11, <2>1, <2>2, <2>3, PlaceAfterRun, Zenon
  <1>25. ASSUME machState' = "CONFIRM" PROVE PlaceIsGood'
    <2>1. PICK next : next = LogIncrementAddress(a)
      OBVIOUS
    <2>2. /\ next \in Nat /\ a + packetSize <= next
          /\ next = (b + 1) * BLOCK \/ InBlock(next, b, packetSize)
      BY <1>10, <1>12, <1>13, <2>1, NextPlace
    <2>3. Position' = next
      BY <1>3, <1>16, <1>25, <2>1 DEF Position, LogIncrementAddress
    <2>4. ASSUME NEW c \in Cells, c >= next PROVE c >= a /\ flash'[c] = cells[c]
      <3>1. c \in Nat /\ c >= a /\ c \notin a .. a + packetSize - 1
        BY <1>12, <1>14, <2>2, <2>4, CellFacts
      <3>. QED  BY <1>16, <1>25, <3>1 DEF Written
    <2>5. \/ /\ wrapAddr' = 0
             /\ \A c \in Cells : c >= next /\ BlockOf(c) \notin table => flash'[c] = ERASED
          \/ /\ wrapAddr' = (b + 1) * BLOCK
             /\ \A c \in Cells : c >= next /\ c < (b + 1) * BLOCK => flash'[c] = ERASED
      BY <1>10, <1>11, <2>4
    <2>6. /\ next \in Nat
          /\ next = (b + 1) * BLOCK \/ InBlock(next, b, recorder)
          /\ recorder \in 1 .. PAGE
          /\ bad' = table /\ recorder' = recorder /\ LAST_BLOCK \notin table
      BY <1>2, <1>3, <1>9, <1>11, <1>12, <2>2, Zenon
    <2>. QED  BY <1>11, <2>3, <2>5, <2>6, PlaceAfterRun, Zenon
  <1>26. PlaceIsGood'
    BY <1>16, <1>24, <1>25, Zenon
  <1>. QED  BY <1>20, <1>22, <1>23, <1>26, IInvParts

-----------------------------------------------------------------------------
(* The whole machine.                                                      *)

\* Faults come one after the other and stay on record.
LEMMA FaultsStay ==
  ASSUME Next, faults \subseteq UNION Faults
  PROVE  faults \subseteq faults' /\ faults' \subseteq UNION Faults
  <1>1. CASE LogMachine
    <2>1. CASE Run
      <3>1. PICK kinds : Happen(kinds)
        BY <2>1, RunParts, Zenon
      <3>. QED  BY <3>1, HappenFacts
    <2>2. CASE Idle \/ RunErase \/ RunNothing \/ Confirm \/ WriteFail \/ Erase
      <3>1. faults' = faults
        BY <2>2, Zenon DEF Idle, RunErase, RunNothing, Confirm, WriteFail, Erase
      <3>. QED  BY <3>1
    <2>. QED  BY <1>1, <2>1, <2>2, Zenon DEF LogMachine
  <1>2. CASE ~LogMachine
    <2>1. PICK kinds : Happen(kinds)
      BY <1>2, Zenon DEF Next, ReceivePacket, ReceiveGarbage, Receive, EraseFlash,
         PowerFails, PowerFailsInside, FailInRun, FailInErase
    <2>. QED  BY <2>1, HappenFacts
  <1>. QED  BY <1>1, <1>2

\* A power failure is on record as one.
LEMMA PowerHarms ==
  ASSUME PowerFails \/ PowerFailsInside, faults \subseteq UNION Faults
  PROVE  ~(faults' \subseteq Harmless)
  <1>1. PICK kind : /\ Happen({kind})
                    /\ kind \in {"power", "power at boundary", "power in erase"}
    <2>1. PowerFault(Position) \in {"power", "power at boundary", "power in erase"}
      BY Zenon DEF PowerFault
    <2>2. \/ Happen({PowerFault(Position)}) \/ Happen({"power at boundary"})
          \/ Happen({"power"}) \/ Happen({"power in erase"})
      BY Zenon DEF PowerFails, PowerFailsInside, FailInRun, FailInErase
    <2>. QED  BY <2>1, <2>2, Zenon
  <1>2. kind \in faults'
    <2>1. {kind} \subseteq faults'
      BY <1>1, HappenFacts, Zenon
    <2>. QED  BY <2>1, Zenon
  <1>3. kind \notin Harmless
    BY <1>1, Harms, Zenon
  <1>. QED  BY <1>2, <1>3, Zenon

\* One step, from a state with harmless faults.
LEMMA LogStep ==
  ASSUME LogIInv, Next
  PROVE  /\ faults' \subseteq Harmless => LogIInv'
         /\ machState = "RUN" /\ machState' = "WRITE_FAIL" => faults' # faults
  <1>1. FlashTypes /\ LogTypes /\ PlaceIsGood /\ FlagsAgree
    BY IInvParts
  <1>2. faults \subseteq UNION Faults /\ sent \in 0 .. MAX_PACKETS /\ MAX_PACKETS \in Nat
    BY <1>1, Geometry, Zenon DEF FlashTypes, Numbers
  <1>. DEFINE Goal == /\ faults' \subseteq Harmless => LogIInv'
                      /\ machState = "RUN" /\ machState' = "WRITE_FAIL" => faults' # faults
  <1>3. ASSUME LogMachine PROVE Goal
    <2>1. UNCHANGED <<recorder, sent>>
      BY <1>3, Zenon DEF LogMachine
    <2>2. ASSUME Idle PROVE Goal
      <3>1. LogIInv'
        BY <2>1, <2>2, IdleStep, Zenon
      <3>. QED  BY <3>1, IInvParts, Zenon DEF FlagsAgree
    <2>3. ASSUME Run PROVE Goal
      BY <2>1, <2>3, RunOutcome, RunStep, Zenon
    <2>4. ASSUME RunErase \/ RunNothing \/ Confirm PROVE Goal
      <3>1. LogIInv'
        BY <2>1, <2>4, RestStep, Zenon
      <3>. QED  BY <3>1, IInvParts, Zenon DEF FlagsAgree
    <2>5. ASSUME WriteFail PROVE Goal
      BY <1>1, <2>5, Zenon DEF WriteFail, FlagsAgree
    <2>6. ASSUME Erase PROVE Goal
      <3>1. LogIInv'
        BY <2>1, <2>6, EraseStep, Zenon
      <3>. QED  BY <3>1, IInvParts, Zenon DEF FlagsAgree
    <2>. QED  BY <1>3, <2>2, <2>3, <2>4, <2>5, <2>6, Zenon DEF LogMachine
  <1>4. ASSUME ReceivePacket \/ ReceiveGarbage PROVE Goal
    <2>1. PICK q \in QueueValues :
            /\ \E kinds : Receive(q, kinds)
            /\ sent' \in 0 .. MAX_PACKETS
      <3>1. CASE ReceivePacket
        <4>1. sent < MAX_PACKETS /\ sent' = sent + 1 /\ Receive(sent', {})
          BY <3>1 DEF ReceivePacket
        <4>2. PICK p : p = sent'
          OBVIOUS
        <4>3. p \in Packets /\ sent' \in 0 .. MAX_PACKETS
          BY <1>2, <4>1, <4>2 DEF Packets
        <4>4. Receive(p, {})
          BY <4>1, <4>2
        <4>. QED  BY <4>3, <4>4, Zenon DEF QueueValues
      <3>2. CASE ReceiveGarbage
        <4>1. Receive(GARBAGE, {"bad packet"}) /\ sent' = sent
          BY <3>2, Zenon DEF ReceiveGarbage
        <4>. QED  BY <1>2, <4>1, Zenon DEF QueueValues
      <3>. QED  BY <1>4, <3>1, <3>2
    <2>2. PICK kinds : Receive(q, kinds)
      BY <2>1
    <2>3. faults' \subseteq Harmless => LogIInv'
      BY <2>1, <2>2, ReceiveStep, Zenon
    <2>4. machState' = machState
      BY <2>2, Zenon DEF Receive
    <2>. QED  BY <2>3, <2>4
  <1>5. ASSUME EraseFlash PROVE Goal
    <2>1. faults' \subseteq Harmless => LogIInv'
      BY <1>5, EraseFlashStep, Zenon
    <2>2. machState' = machState
      BY <1>5, Zenon DEF EraseFlash
    <2>. QED  BY <2>1, <2>2
  <1>6. ASSUME PowerFails \/ PowerFailsInside PROVE Goal
    <2>1. ~(faults' \subseteq Harmless)
      BY <1>2, <1>6, PowerHarms, Zenon
    <2>2. machState' = "IDLE"
      BY <1>6, Zenon DEF PowerFails, PowerFailsInside, Restart, InitLog
    <2>. QED  BY <2>1, <2>2
  <1>. QED  BY <1>3, <1>4, <1>5, <1>6, Zenon DEF Next

\* The invariant of every run, whatever its faults.
LogInv ==
    /\ faults \subseteq UNION Faults
    /\ faults \subseteq Harmless => LogIInv

LEMMA LogKept ==
  ASSUME LogIInv, UNCHANGED vars PROVE LogIInv'
  <1>1. UNCHANGED <<flash, bad, recorder, sent, faults, queue, address, wrapAddr,
                    logReady, logErase, packetSize, machState, TempDataBuf>>
    BY DEF vars
  <1>2. FlashTypes /\ LogTypes /\ PlaceIsGood /\ FlagsAgree
    BY IInvParts
  <1>3. FlashTypes' /\ LogTypes'
    BY <1>1, <1>2, Zenon DEF FlashTypes, LogTypes
  <1>4. Position' = Position
    BY <1>1 DEF Position, LogIncrementAddress
  <1>5. PlaceIsGood'
    BY <1>1, <1>2, <1>4, SamePlace
  <1>6. FlagsAgree'
    BY <1>1, <1>2 DEF FlagsAgree, LastBlockErased
  <1>. QED  BY <1>3, <1>5, <1>6, IInvParts

LEMMA LogInvHolds == Spec => []LogInv
  <1>1. Init => LogInv
    <2>1. Init => faults = {}
      BY DEF Init
    <2>. QED  BY <2>1, LogInit DEF LogInv
  <1>2. LogInv /\ [Next]_vars => LogInv'
    <2>1. ASSUME LogInv, Next PROVE LogInv'
      <3>1. faults \subseteq faults' /\ faults' \subseteq UNION Faults
        BY <2>1, FaultsStay, Zenon DEF LogInv
      <3>2. faults' \subseteq Harmless => faults \subseteq Harmless
        BY <3>1
      <3>3. faults' \subseteq Harmless => LogIInv'
        BY <2>1, <3>2, LogStep, Zenon DEF LogInv
      <3>. QED  BY <3>1, <3>3, Zenon DEF LogInv
    <2>2. ASSUME LogInv, UNCHANGED vars PROVE LogInv'
      <3>1. faults' = faults /\ faults \subseteq UNION Faults
        BY <2>2 DEF LogInv, vars
      <3>. QED  BY <2>2, <3>1, LogKept, Zenon DEF LogInv
    <2>. QED  BY <2>1, <2>2
  <1>. QED  BY <1>1, <1>2, PTL DEF Spec

\* As long as power does not fail, no write is refused for nothing and no erase
\* comes into the traffic, LogData stays what LogMachine takes it for: the
\* address is in the log, the wrap address is the end of a block or none.
THEOREM TypeCorrectWhileHarmless == Spec => [](faults \subseteq Harmless => TypeOK)
  <1>1. LogInv => (faults \subseteq Harmless => TypeOK)
    BY Zenon DEF LogInv, LogIInv
  <1>. QED  BY <1>1, LogInvHolds, PTL

\* And no write is refused: every step of LOG_RUN_STATE that leads to
\* LOG_WRITE_FAIL_STATE is one in which the driver failed.
THEOREM RunFindsErasedFlash ==
  Spec => [][faults \subseteq Harmless =>
             (machState = "RUN" /\ machState' = "WRITE_FAIL" => faults' # faults)]_vars
  <1>1. LogInv /\ [Next]_vars =>
          [faults \subseteq Harmless =>
             (machState = "RUN" /\ machState' = "WRITE_FAIL" => faults' # faults)]_vars
    BY LogStep, Zenon DEF LogInv
  <1>. QED  BY <1>1, LogInvHolds, PTL DEF Spec

\* Where only such faults come, TypeOK holds for good, for every size of the
\* device and every number of packets.
THEOREM TypeCorrect == UNION Faults \subseteq Harmless => (Spec => []TypeOK)
  <1>. SUFFICES ASSUME UNION Faults \subseteq Harmless PROVE Spec => []TypeOK
    OBVIOUS
  <1>1. LogInv => TypeOK
    <2>1. LogInv => faults \subseteq Harmless
      BY Zenon DEF LogInv
    <2>. QED  BY <2>1, Zenon DEF LogInv, LogIInv
  <1>. QED  BY <1>1, LogInvHolds, PTL

\* Where only such faults come, the machine never meets flash it has not erased.
THEOREM WritesFindErased ==
  UNION Faults \subseteq Harmless => (Spec => WritesFindErasedFlash)
  <1>. SUFFICES ASSUME UNION Faults \subseteq Harmless
                PROVE  Spec => WritesFindErasedFlash
    OBVIOUS
  <1>1. LogInv /\ [Next]_vars =>
          [machState = "RUN" /\ machState' = "WRITE_FAIL" => faults' # faults]_vars
    <2>1. LogInv => LogIInv
      BY Zenon DEF LogInv
    <2>. QED  BY <2>1, LogStep, Zenon
  <1>. QED  BY <1>1, LogInvHolds, PTL DEF Spec, WritesFindErasedFlash

-----------------------------------------------------------------------------
(* What a reader finds in the flash.                                       *)

\* LogInOrder and PacketsWhole for any cells, bad blocks and wrap address, so
\* that they can be followed from one half of LOG_RUN_STATE to the next.
Shows(cells, table, c) == BlockOf(c) \notin table /\ cells[c] \in Packets

Behind(w, c) == w # 0 /\ c >= w

Earlier(w, c, d) ==
    \/ Behind(w, c) /\ ~Behind(w, d)
    \/ (Behind(w, c) <=> Behind(w, d)) /\ c < d

InOrder(cells, table, w) ==
    \A c, d \in Cells :
        Shows(cells, table, c) /\ Shows(cells, table, d) /\ Earlier(w, c, d)
            => cells[c] <= cells[d]

\* Packet p is at a place, and nowhere else.
IsAt(cells, table, p, a, size) ==
    \A d \in Cells : Shows(cells, table, d) /\ cells[d] = p
                     <=> d \in a .. a + size - 1

Whole(cells, table, size) ==
    \A c \in Cells : Shows(cells, table, c) =>
        \E b \in LogBlocks : \E a \in Nat :
            InBlock(a, b, size) /\ IsAt(cells, table, cells[c], a, size)

\* All packets in the flash are older than p.
OlderThan(cells, table, p) ==
    \A c \in Cells : Shows(cells, table, c) => cells[c] < p

\* The log when n packets have been sent.
FlashIsSound(cells, table, w, n, size) ==
    /\ InOrder(cells, table, w)
    /\ Whole(cells, table, size)
    /\ \A c \in Cells : Shows(cells, table, c) => cells[c] <= n

\* The queue goes on where the log ends.
QueueIsSound(q, cells, table, n) ==
    /\ \A k \in 1 .. Len(q) :
          q[k] \in Packets => q[k] <= n /\ OlderThan(cells, table, q[k])
    /\ \A i, j \in 1 .. Len(q) :
          i < j /\ q[i] \in Packets /\ q[j] \in Packets => q[i] < q[j]

Waits(q, p) == \E k \in 1 .. Len(q) : q[k] = p

IsIn(cells, table, p) == \E c \in Cells : Shows(cells, table, c) /\ cells[c] = p

\* A packet that is nowhere was the oldest of all, and from one that waits on,
\* all wait.
NoneLost(q, cells, table, w, n, erased) ==
    /\ \A p \in 1 .. n :
          \/ Waits(q, p)
          \/ IsIn(cells, table, p)
          \/ /\ w # 0 \/ erased
             /\ \A c \in Cells : Shows(cells, table, c) => cells[c] > p
    /\ \A p \in 1 .. n : \A k \in 1 .. Len(q) :
          q[k] \in Packets /\ q[k] < p => Waits(q, p)

\* The faults that drop no packet.
Lossless == {"bad block", "bad packet", "erase"}

AllKept ==
    /\ NoneLost(queue, flash, bad, wrapAddr, sent, "erase" \in faults)
    /\ machState = "IDLE" => queue = <<>>
    /\ logErase = 1 => "erase" \in faults

\* The invariant of the order, to stand beside LogIInv.
OrderIInv ==
    /\ FlashIsSound(flash, bad, wrapAddr, sent, recorder)
    /\ QueueIsSound(queue, flash, bad, sent)
    /\ faults \subseteq Lossless => AllKept

-----------------------------------------------------------------------------
(* Cells and blocks.                                                       *)

LEMMA PacketNumbers ==
  /\ MAX_PACKETS \in Nat /\ Packets = 1 .. MAX_PACKETS
  /\ ERASED \notin Packets /\ GARBAGE \notin Packets
  /\ \A p \in Packets : p \in Nat \ {0}
  <1>1. MAX_PACKETS \in Nat
    BY Geometry DEF Numbers
  <1>. QED  BY <1>1 DEF Packets, ERASED, GARBAGE

\* A cell lies on the side of a block's start that its block does.
LEMMA BlockOrder ==
  ASSUME NEW g \in Nat, NEW c \in Cells
  PROVE  /\ BlockOf(c) < g => c < g * BLOCK
         /\ g <= BlockOf(c) => g * BLOCK <= c
  <1>1. BLOCK \in Nat \ {0}
    BY Geometry DEF Numbers
  <1>2. PICK q \in Nat : q = BlockOf(c)
    BY CellFacts, BlockOfCell
  <1>3. c \in Nat /\ q * BLOCK <= c /\ c < (q + 1) * BLOCK
    BY <1>2, CellFacts, BlockOfCell
  <1>4. PICK x \in Nat : x = g * BLOCK
    BY <1>1
  <1>5. PICK y \in Nat : y = q * BLOCK
    BY <1>1
  <1>6. PICK z \in Nat : z = (q + 1) * BLOCK
    BY <1>1
  <1>7. q < g => z <= x
    BY <1>1, <1>4, <1>6, Times
  <1>8. g <= q => x <= y
    BY <1>1, <1>4, <1>5, Times
  <1>. QED  BY <1>2, <1>3, <1>4, <1>5, <1>6, <1>7, <1>8

LEMMA PlaceCells ==
  ASSUME NEW b \in LogBlocks, NEW size \in 1 .. PAGE, NEW a, InBlock(a, b, size)
  PROVE  /\ a \in Nat
         /\ \A c \in a .. a + size - 1 : c \in Cells /\ BlockOf(c) = b
  <1>1. /\ PAGE \in Nat \ {0} /\ BLOCK \in Nat \ {0} /\ size \in Nat \ {0}
    <2>1. PAGE \in Nat \ {0} /\ BLOCK \in Nat \ {0}
      BY Geometry DEF Numbers
    <2>. QED  BY <2>1
  <1>2. /\ b \in Nat /\ b * BLOCK \in Nat /\ (b + 1) * BLOCK = b * BLOCK + BLOCK
        /\ BLOCK <= b * BLOCK /\ (b + 1) * BLOCK <= DEVICE /\ DEVICE \in Nat
    BY BlockSums
  <1>3. a \in Nat /\ b * BLOCK <= a /\ a + size <= (b + 1) * BLOCK
    BY <1>2, PlaceBounds
  <1>4. PICK x \in Nat : x = b * BLOCK
    BY <1>2
  <1>5. PICK y \in Nat : y = (b + 1) * BLOCK
    BY <1>1, <1>2
  <1>6. ASSUME NEW c \in a .. a + size - 1 PROVE c \in Cells /\ BlockOf(c) = b
    <2>1. c \in Nat /\ x <= c /\ c < y /\ y <= DEVICE /\ BLOCK <= x
      BY <1>1, <1>2, <1>3, <1>4, <1>5
    <2>2. c \in Cells
      BY <1>1, <1>2, <2>1 DEF Cells, RDU_LOG_ADDR_START
    <2>3. BlockOf(c) = b
      BY <1>2, <1>4, <1>5, <2>1, CellOfBlock
    <2>. QED  BY <2>2, <2>3
  <1>. QED  BY <1>3, <1>6

\* HandleBadBlock and LogManageAddresses skip nothing but bad blocks.
LEMMA SkippedAreBad ==
  ASSUME NEW b \in LogBlocks, NEW table, LAST_BLOCK \notin table
  PROVE  \A g \in b .. Min({x \in b .. LAST_BLOCK + 1 : x \notin table}) - 1 : g \in table
  <1>. DEFINE S == {x \in b .. LAST_BLOCK + 1 : x \notin table}
              to == Min(S)
  <1>1. LAST_BLOCK \in Nat \ {0} /\ b \in 1 .. LAST_BLOCK
    BY Geometry DEF Numbers, LogBlocks
  <1>2. LAST_BLOCK \in S /\ S \subseteq Nat
    BY <1>1
  <1>3. to \in S /\ \A y \in S : to <= y
    <2>. HIDE DEF S
    <2>. QED  BY <1>2, LeastOf
  <1>4. to \in Nat /\ to <= LAST_BLOCK
    BY <1>1, <1>2, <1>3
  <1>. HIDE DEF to
  <1>5. ASSUME NEW g \in b .. to - 1, g \notin table PROVE FALSE
    <2>1. g \in S
      BY <1>1, <1>4, <1>5
    <2>. QED  BY <1>1, <1>3, <1>4, <1>5, <2>1
  <1>. QED  BY <1>5 DEF to

-----------------------------------------------------------------------------
(* LOG_RUN_STATE, first half: room is made for the next packet.            *)

\* Either a block is erased, the one the ring goes on with behind the blocks
\* that are bad, at the start of the log or at the wrap address; or nothing
\* is, and the wrap address stays.
LEMMA RunBlocks ==
  ASSUME LogIInv, machState = "RUN", packetSize = recorder,
         NEW failing \in FailingErases, failing \subseteq LogManageAddresses(failing).tried
  PROVE  LET m     == LogManageAddresses(failing)
             table == bad \cup failing
         IN  \/ \E from, to \in LogBlocks :
                  /\ from <= to /\ to \notin table
                  /\ \A g \in from .. to - 1 : g \in table
                  /\ failing \subseteq from .. to
                  /\ m.erases = {to} /\ m.wrapAddr = (to + 1) * BLOCK
                  /\ m.address = to * BLOCK
                  /\ \/ /\ from = 1 /\ RDU_LOG_ADDR_END <= address
                        /\ \A c \in Cells : ~Behind(wrapAddr, c)
                     \/ wrapAddr # 0 /\ wrapAddr = from * BLOCK /\ address = wrapAddr
             \/ /\ m.erases = {} /\ failing = {} /\ m.wrapAddr = wrapAddr
                /\ m.address = address
                /\ address < RDU_LOG_ADDR_END /\ address # wrapAddr
  <1>. DEFINE table  == bad \cup failing
              atEnd  == address >= RDU_LOG_ADDR_END
              atWrap == address = wrapAddr
              a0     == IF atEnd THEN RDU_LOG_ADDR_START ELSE address
              w0     == IF atEnd THEN RDU_LOG_ADDR_START + BLOCK
                        ELSE IF atWrap THEN wrapAddr + BLOCK ELSE wrapAddr
              to     == Min({b \in BlockOf(a0) .. LAST_BLOCK + 1 : b \notin table})
              skip   == (to - BlockOf(a0)) * BLOCK
              m      == LogManageAddresses(failing)
  <1>1. /\ PAGE \in Nat \ {0} /\ BLOCK \in Nat \ {0} /\ LAST_BLOCK \in Nat \ {0}
        /\ PAGE < BLOCK
    BY LogMachineAssumption
  <1>2. /\ LAST_BLOCK \notin bad /\ address \in RDU_LOG_ADDR_START .. DEVICE
    BY DEF LogIInv, TypeOK
  <1>3. wrapAddr # 0 => ErasedToWrap(address)
    <2>1. Position = address
      BY DEF Position
    <2>. QED  BY <2>1 DEF LogIInv
  <1>4. LAST_BLOCK \notin table
    <2>1. failing \subseteq LogBlocks \ (bad \cup {LAST_BLOCK})
      BY Zenon DEF FailingErases
    <2>. QED  BY <1>2, <2>1
  <1>5. m = IF atEnd \/ atWrap
            THEN [address |-> a0 + skip, wrapAddr |-> w0 + skip, erases |-> {to},
                  tried |-> BlockOf(a0) .. to]
            ELSE [address |-> a0, wrapAddr |-> w0, erases |-> {}, tried |-> {}]
    BY DEF LogManageAddresses
  <1>6. address \in Nat /\ BLOCK <= address /\ address <= DEVICE /\ DEVICE \in Nat
    BY <1>1, <1>2, BlockSums DEF RDU_LOG_ADDR_START
  <1>7. failing \subseteq m.tried
    OBVIOUS
  <1>8. CASE atEnd \/ atWrap
    <2>1. PICK from \in LogBlocks :
             /\ a0 = from * BLOCK /\ w0 = from * BLOCK + BLOCK
             /\ \/ /\ from = 1 /\ RDU_LOG_ADDR_END <= address
                   /\ \A c \in Cells : ~Behind(wrapAddr, c)
                \/ wrapAddr # 0 /\ wrapAddr = from * BLOCK /\ address = wrapAddr
      <3>1. CASE atEnd
        <4>1. 1 \in LogBlocks /\ a0 = 1 * BLOCK /\ w0 = 1 * BLOCK + BLOCK
          BY <1>1, <3>1 DEF RDU_LOG_ADDR_START, LogBlocks
        <4>2. ASSUME NEW c \in Cells, wrapAddr # 0 PROVE c < wrapAddr
          <5>1. PICK g \in LogBlocks :
                  wrapAddr = (g + 1) * BLOCK /\ address <= wrapAddr
            BY <1>3, <4>2 DEF ErasedToWrap
          <5>2. g = LAST_BLOCK
            <6>1. CASE g + 1 \in LogBlocks
              <7>1. /\ (g + 1) * BLOCK \in Nat /\ ((g + 1) + 1) * BLOCK <= DEVICE
                    /\ ((g + 1) + 1) * BLOCK = (g + 1) * BLOCK + BLOCK
                BY <6>1, BlockSums
              <7>2. address + PAGE >= DEVICE
                BY <1>1, <1>6, <3>1 DEF RDU_LOG_ADDR_END
              <7>. QED  BY <1>1, <1>6, <5>1, <7>1, <7>2
            <6>. QED  BY <6>1, BlockSums
          <5>3. wrapAddr = DEVICE
            BY <5>1, <5>2, BlockSums
          <5>. QED  BY <5>3, CellFacts
        <4>3. \A c \in Cells : ~Behind(wrapAddr, c)
          <5>1. ASSUME NEW c \in Cells, wrapAddr # 0, c >= wrapAddr PROVE FALSE
            <6>1. PICK g \in LogBlocks : wrapAddr = (g + 1) * BLOCK
              BY <1>3, <5>1 DEF ErasedToWrap
            <6>2. wrapAddr \in Nat
              BY <1>1, <6>1, BlockSums
            <6>. QED  BY <4>2, <5>1, <6>2, CellFacts
          <5>. QED  BY <5>1 DEF Behind
        <4>4. RDU_LOG_ADDR_END <= address
          BY <1>1, <1>6, <3>1 DEF RDU_LOG_ADDR_END
        <4>. QED  BY <4>1, <4>3, <4>4
      <3>2. CASE ~atEnd
        <4>1. atWrap /\ a0 = address /\ w0 = address + BLOCK
          BY <1>8, <3>2
        <4>2. wrapAddr # 0
          BY <1>1, <1>6, <4>1
        <4>3. PICK g \in LogBlocks : address = (g + 1) * BLOCK
          BY <1>3, <4>1, <4>2 DEF ErasedToWrap
        <4>4. g # LAST_BLOCK
          BY <1>1, <1>6, <3>2, <4>3, BlockSums DEF RDU_LOG_ADDR_END
        <4>5. g + 1 \in LogBlocks
          BY <4>4, BlockSums
        <4>. QED  BY <4>1, <4>2, <4>3, <4>5
      <3>. QED  BY <3>1, <3>2
    <2>. HIDE DEF a0, w0
    <2>2. /\ from \in Nat /\ from * BLOCK \in Nat
          /\ (from + 1) * BLOCK = from * BLOCK + BLOCK
      BY BlockSums
    <2>3. BlockOf(a0) = from
      BY <1>1, <2>1, <2>2, CellOfBlock
    <2>4. to \in LogBlocks \ table /\ from <= to
      BY <1>4, <2>3, NextGoodBlock
    <2>5. \A g \in from .. to - 1 : g \in table
      BY <1>4, <2>3, SkippedAreBad
    <2>. HIDE DEF to
    <2>6. /\ to \in Nat /\ to * BLOCK \in Nat /\ (to + 1) * BLOCK = to * BLOCK + BLOCK
      BY <2>4, BlockSums
    <2>7. w0 + skip = (to + 1) * BLOCK /\ a0 + skip = to * BLOCK
      <3>1. skip = to * BLOCK - from * BLOCK
        BY <1>1, <2>2, <2>3, <2>6
      <3>. HIDE DEF skip
      <3>. QED  BY <1>1, <2>1, <2>2, <2>6, <3>1
    <2>. HIDE DEF skip
    <2>8. /\ m.wrapAddr = (to + 1) * BLOCK /\ m.erases = {to} /\ m.tried = from .. to
          /\ m.address = to * BLOCK
      BY <1>5, <1>8, <2>3, <2>7
    <2>. HIDE DEF m, table
    <2>9. /\ from <= to /\ to \notin table /\ to \in LogBlocks
          /\ failing \subseteq from .. to
      BY <1>7, <2>4, <2>8
    <2>. QED  BY <2>1, <2>5, <2>8, <2>9 DEF m, table
  <1>9. CASE ~(atEnd \/ atWrap)
    <2>1. /\ m.wrapAddr = wrapAddr /\ m.erases = {} /\ m.tried = {}
          /\ m.address = address
      BY <1>5, <1>9
    <2>. HIDE DEF m
    <2>2. failing = {}
      BY <1>7, <2>1
    <2>3. address < RDU_LOG_ADDR_END
      <3>1. RDU_LOG_ADDR_END \in Int
        BY <1>1, <1>6 DEF RDU_LOG_ADDR_END
      <3>. QED  BY <1>6, <1>9, <3>1
    <2>. QED  BY <1>9, <2>1, <2>2, <2>3 DEF m
  <1>. QED  BY <1>8, <1>9

\* Of the packets, those that are left keep their order, and those that are
\* lost were read before them.
LEMMA RunCells ==
  ASSUME LogIInv, machState = "RUN", packetSize = recorder,
         NEW failing \in FailingErases, failing \subseteq LogManageAddresses(failing).tried
  PROVE  LET m     == LogManageAddresses(failing)
             table == bad \cup failing
             cells == Wiped(flash, m.erases)
         IN  /\ \A c \in Cells : Shows(cells, table, c)
                                   => Shows(flash, bad, c) /\ cells[c] = flash[c]
             /\ \/ \A c \in Cells : Shows(cells, table, c)
                                      => (Behind(m.wrapAddr, c) <=> Behind(wrapAddr, c))
                \/ \A c \in Cells : Shows(cells, table, c)
                                      => Behind(m.wrapAddr, c) /\ ~Behind(wrapAddr, c)
             /\ \A c, d \in Cells :
                   Shows(flash, bad, c) /\ ~Shows(cells, table, c) /\ Shows(cells, table, d)
                     => Earlier(wrapAddr, c, d) /\ BlockOf(c) # BlockOf(d)
             /\ \A c \in Cells : Shows(flash, bad, c) /\ ~Shows(cells, table, c)
                                   => m.wrapAddr # 0
             /\ wrapAddr # 0 => m.wrapAddr # 0
  <1>1. PICK m : m = LogManageAddresses(failing)
    OBVIOUS
  <1>2. PICK table : table = bad \cup failing
    OBVIOUS
  <1>3. PICK cells : cells = Wiped(flash, m.erases)
    OBVIOUS
  <1>4. \/ \E from, to \in LogBlocks :
             /\ from <= to /\ to \notin table
             /\ \A g \in from .. to - 1 : g \in table
             /\ failing \subseteq from .. to
             /\ m.erases = {to} /\ m.wrapAddr = (to + 1) * BLOCK
             /\ \/ from = 1 /\ \A c \in Cells : ~Behind(wrapAddr, c)
                \/ wrapAddr # 0 /\ wrapAddr = from * BLOCK
        \/ m.erases = {} /\ failing = {} /\ m.wrapAddr = wrapAddr
    BY <1>1, <1>2, RunBlocks, Zenon
  <1>5. \A c \in Cells : cells[c] = IF BlockOf(c) \in m.erases THEN ERASED ELSE flash[c]
    BY <1>3 DEF Wiped
  <1>6. \A c \in Cells : Shows(cells, table, c) => Shows(flash, bad, c) /\ cells[c] = flash[c]
    BY <1>2, <1>5, PacketNumbers DEF Shows
  <1>7. CASE m.erases = {} /\ failing = {} /\ m.wrapAddr = wrapAddr
    <2>1. table = bad /\ \A c \in Cells : cells[c] = flash[c]
      BY <1>2, <1>5, <1>7
    <2>2. \A c \in Cells : Shows(cells, table, c) <=> Shows(flash, bad, c)
      BY <2>1 DEF Shows
    <2>. QED  BY <1>1, <1>2, <1>3, <1>6, <1>7, <2>2, Zenon
  <1>8. ASSUME NEW from \in LogBlocks, NEW to \in LogBlocks,
               from <= to, to \notin table, \A g \in from .. to - 1 : g \in table,
               failing \subseteq from .. to,
               m.erases = {to}, m.wrapAddr = (to + 1) * BLOCK,
               \/ from = 1 /\ \A c \in Cells : ~Behind(wrapAddr, c)
               \/ wrapAddr # 0 /\ wrapAddr = from * BLOCK
        PROVE  /\ \/ \A c \in Cells : Shows(cells, table, c)
                       => (Behind(m.wrapAddr, c) <=> Behind(wrapAddr, c))
                  \/ \A c \in Cells : Shows(cells, table, c)
                       => Behind(m.wrapAddr, c) /\ ~Behind(wrapAddr, c)
               /\ \A c, d \in Cells :
                     Shows(flash, bad, c) /\ ~Shows(cells, table, c) /\ Shows(cells, table, d)
                       => Earlier(wrapAddr, c, d) /\ BlockOf(c) # BlockOf(d)
               /\ m.wrapAddr # 0
    <2>1. /\ from \in Nat /\ to \in Nat /\ to + 1 \in Nat /\ 1 <= from
          /\ (to + 1) * BLOCK \in Nat /\ (to + 1) * BLOCK # 0
          /\ from * BLOCK \in Nat
      <3>1. BLOCK \in Nat \ {0} /\ LAST_BLOCK \in Nat
        BY Geometry DEF Numbers
      <3>2. to * BLOCK \in Nat /\ (to + 1) * BLOCK = to * BLOCK + BLOCK
        BY BlockSums
      <3>3. from \in Nat /\ to \in Nat /\ 1 <= from /\ from * BLOCK \in Nat
        BY <3>1, BlockSums DEF LogBlocks
      <3>4. (to + 1) * BLOCK \in Nat /\ (to + 1) * BLOCK # 0
        BY <3>1, <3>2
      <3>. QED  BY <3>3, <3>4
    <2>2. m.wrapAddr # 0 /\ m.wrapAddr \in Nat
      BY <1>8, <2>1
    \* What is left lies before the blocks skipped or behind the one erased.
    <2>3. ASSUME NEW c \in Cells, Shows(cells, table, c)
          PROVE  /\ BlockOf(c) < from \/ to + 1 <= BlockOf(c)
                 /\ BlockOf(c) < from => c < from * BLOCK /\ c < m.wrapAddr
                 /\ to + 1 <= BlockOf(c) => m.wrapAddr <= c
                 /\ BlockOf(c) \in Nat /\ 1 <= BlockOf(c) /\ c \in Nat
      <3>1. BlockOf(c) \in Nat /\ 1 <= BlockOf(c) /\ c \in Nat
        BY CellFacts, Geometry DEF LogBlocks, Numbers
      <3>2. BlockOf(c) \notin table /\ BlockOf(c) # to
        BY <1>5, <1>8, <2>3, PacketNumbers DEF Shows
      <3>3. BlockOf(c) < from \/ to + 1 <= BlockOf(c)
        BY <1>8, <2>1, <3>1, <3>2
      <3>4. BlockOf(c) < from => BlockOf(c) < to + 1
        BY <1>8, <2>1, <3>1
      <3>. QED  BY <1>8, <2>1, <3>1, <3>3, <3>4, BlockOrder
    \* What is lost lies in between.
    <2>4. ASSUME NEW c \in Cells, Shows(flash, bad, c), ~Shows(cells, table, c)
          PROVE  /\ from <= BlockOf(c) /\ BlockOf(c) < to + 1 /\ BlockOf(c) \in Nat
                 /\ from * BLOCK <= c /\ c < m.wrapAddr /\ c \in Nat
      <3>1. BlockOf(c) \in Nat /\ c \in Nat
        BY CellFacts, BlockOfCell
      <3>2. BlockOf(c) = to \/ BlockOf(c) \in failing
        BY <1>2, <1>5, <1>8, <2>4 DEF Shows
      <3>3. from <= BlockOf(c) /\ BlockOf(c) < to + 1
        BY <1>8, <2>1, <3>1, <3>2
      <3>. QED  BY <1>8, <2>1, <3>1, <3>3, BlockOrder
    <2>5. CASE from = 1 /\ \A c \in Cells : ~Behind(wrapAddr, c)
      <3>1. \A c \in Cells : Shows(cells, table, c) => to + 1 <= BlockOf(c)
        BY <2>3, <2>5
      <3>2. \A c \in Cells : Shows(cells, table, c) => Behind(m.wrapAddr, c) /\ ~Behind(wrapAddr, c)
        BY <2>2, <2>3, <2>5, <3>1 DEF Behind
      <3>3. ASSUME NEW c \in Cells, NEW d \in Cells,
                   Shows(flash, bad, c), ~Shows(cells, table, c), Shows(cells, table, d)
            PROVE  Earlier(wrapAddr, c, d) /\ BlockOf(c) # BlockOf(d)
        <4>1. to + 1 <= BlockOf(d) /\ BlockOf(d) \in Nat /\ m.wrapAddr <= d /\ d \in Nat
          BY <2>3, <3>1, <3>3
        <4>2. BlockOf(c) < to + 1 /\ BlockOf(c) \in Nat /\ c < m.wrapAddr /\ c \in Nat
          BY <2>4, <3>3
        <4>3. c < d /\ BlockOf(c) # BlockOf(d)
          BY <2>1, <2>2, <4>1, <4>2
        <4>. QED  BY <2>5, <4>3 DEF Earlier
      <3>. QED  BY <2>2, <3>2, <3>3, Zenon
    <2>6. CASE wrapAddr # 0 /\ wrapAddr = from * BLOCK
      <3>1. \A c \in Cells : Shows(cells, table, c) =>
               (Behind(m.wrapAddr, c) <=> Behind(wrapAddr, c))
        <4>1. ASSUME NEW c \in Cells, Shows(cells, table, c)
              PROVE  Behind(m.wrapAddr, c) <=> Behind(wrapAddr, c)
          <5>1. from * BLOCK <= m.wrapAddr
            <6>1. BLOCK \in Nat /\ from <= to + 1
              BY <1>8, <2>1, Geometry DEF Numbers
            <6>. QED  BY <1>8, <2>1, <6>1, Times
          <5>2. CASE BlockOf(c) < from
            BY <2>1, <2>2, <2>3, <2>6, <4>1, <5>2 DEF Behind
          <5>3. CASE to + 1 <= BlockOf(c)
            BY <2>1, <2>2, <2>3, <2>6, <4>1, <5>1, <5>3 DEF Behind
          <5>. QED  BY <2>3, <4>1, <5>2, <5>3
        <4>. QED  BY <4>1
      <3>2. ASSUME NEW c \in Cells, NEW d \in Cells,
                   Shows(flash, bad, c), ~Shows(cells, table, c), Shows(cells, table, d)
            PROVE  Earlier(wrapAddr, c, d) /\ BlockOf(c) # BlockOf(d)
        <4>1. /\ from <= BlockOf(c) /\ BlockOf(c) < to + 1 /\ BlockOf(c) \in Nat
              /\ from * BLOCK <= c /\ c < m.wrapAddr /\ c \in Nat
          BY <2>4, <3>2
        <4>2. Behind(wrapAddr, c)
          BY <2>6, <4>1 DEF Behind
        <4>3. CASE BlockOf(d) < from
          <5>1. d < from * BLOCK /\ BlockOf(d) \in Nat /\ d \in Nat
            BY <2>3, <3>2, <4>3
          <5>2. ~Behind(wrapAddr, d) /\ BlockOf(c) # BlockOf(d)
            BY <2>1, <2>6, <4>1, <4>3, <5>1 DEF Behind
          <5>. QED  BY <4>2, <5>2 DEF Earlier
        <4>4. CASE to + 1 <= BlockOf(d)
          <5>1. m.wrapAddr <= d /\ BlockOf(d) \in Nat /\ d \in Nat
            BY <2>3, <3>2, <4>4
          <5>2. c < d /\ d >= from * BLOCK /\ BlockOf(c) # BlockOf(d)
            BY <2>1, <2>2, <4>1, <4>4, <5>1
          <5>3. Behind(wrapAddr, d)
            BY <2>6, <5>2 DEF Behind
          <5>. QED  BY <4>2, <5>2, <5>3 DEF Earlier
        <4>. QED  BY <2>3, <3>2, <4>3, <4>4
      <3>. QED  BY <2>2, <3>1, <3>2, Zenon
    <2>. QED  BY <1>8, <2>5, <2>6
  <1>9. CASE \E from, to \in LogBlocks :
             /\ from <= to /\ to \notin table
             /\ \A g \in from .. to - 1 : g \in table
             /\ failing \subseteq from .. to
             /\ m.erases = {to} /\ m.wrapAddr = (to + 1) * BLOCK
             /\ \/ from = 1 /\ \A c \in Cells : ~Behind(wrapAddr, c)
                \/ wrapAddr # 0 /\ wrapAddr = from * BLOCK
    BY <1>1, <1>2, <1>3, <1>6, <1>8, <1>9, Zenon
  <1>. QED  BY <1>4, <1>7, <1>9, Zenon

\* Making room keeps the log sound, and drops the oldest packets only.
LEMMA RoomIsMade ==
  ASSUME LogIInv, machState = "RUN", packetSize = recorder,
         NEW failing \in FailingErases, failing \subseteq LogManageAddresses(failing).tried,
         NEW m, m = LogManageAddresses(failing), NEW table, table = bad \cup failing,
         NEW cells, cells = Wiped(flash, m.erases), NEW n \in Nat,
         FlashIsSound(flash, bad, wrapAddr, n, recorder),
         QueueIsSound(queue, flash, bad, n)
  PROVE  /\ FlashIsSound(cells, table, m.wrapAddr, n, recorder)
         /\ QueueIsSound(queue, cells, table, n)
         /\ \A erased : NoneLost(queue, flash, bad, wrapAddr, n, erased)
                          => NoneLost(queue, cells, table, m.wrapAddr, n, erased)
  <1>1. \A c \in Cells : Shows(cells, table, c) => Shows(flash, bad, c) /\ cells[c] = flash[c]
    BY RunCells, Zenon
  <1>2. \/ \A c \in Cells : Shows(cells, table, c)
              => (Behind(m.wrapAddr, c) <=> Behind(wrapAddr, c))
        \/ \A c \in Cells : Shows(cells, table, c)
              => Behind(m.wrapAddr, c) /\ ~Behind(wrapAddr, c)
    BY RunCells, Zenon
  <1>3. \A c, d \in Cells :
           Shows(flash, bad, c) /\ ~Shows(cells, table, c) /\ Shows(cells, table, d)
             => Earlier(wrapAddr, c, d) /\ BlockOf(c) # BlockOf(d)
    BY RunCells, Zenon
  <1>4. /\ \A c \in Cells : Shows(flash, bad, c) /\ ~Shows(cells, table, c) => m.wrapAddr # 0
        /\ wrapAddr # 0 => m.wrapAddr # 0
    BY RunCells, Zenon
  <1>5. \A c \in Cells : Shows(flash, bad, c) => flash[c] \in Nat /\ flash[c] \in Packets
    BY PacketNumbers DEF Shows
  <1>6. recorder \in 1 .. PAGE
    BY IInvParts, Geometry DEF FlashTypes, Numbers
  <1>7. InOrder(cells, table, m.wrapAddr)
    <2>1. ASSUME NEW c \in Cells, NEW d \in Cells, Shows(cells, table, c),
                 Shows(cells, table, d), Earlier(m.wrapAddr, c, d)
          PROVE  cells[c] <= cells[d]
      <3>1. Earlier(wrapAddr, c, d)
        BY <1>2, <2>1 DEF Earlier
      <3>2. flash[c] <= flash[d]
        BY <1>1, <2>1, <3>1 DEF FlashIsSound, InOrder
      <3>. QED  BY <1>1, <2>1, <3>2
    <2>. QED  BY <2>1 DEF InOrder
  <1>8. Whole(cells, table, recorder)
    <2>1. ASSUME NEW c \in Cells, Shows(cells, table, c)
          PROVE  \E b \in LogBlocks : \E a \in Nat :
                    InBlock(a, b, recorder) /\ IsAt(cells, table, cells[c], a, recorder)
      <3>1. Shows(flash, bad, c) /\ cells[c] = flash[c]
        BY <1>1, <2>1
      <3>2. PICK b \in LogBlocks, a \in Nat :
              InBlock(a, b, recorder) /\ IsAt(flash, bad, flash[c], a, recorder)
        BY <3>1, Zenon DEF FlashIsSound, Whole
      <3>3. c \in a .. a + recorder - 1
        BY <3>1, <3>2 DEF IsAt
      <3>4. \A d \in a .. a + recorder - 1 : d \in Cells /\ BlockOf(d) = b
        BY <1>6, <3>2, PlaceCells
      <3>5. ASSUME NEW d \in Cells, Shows(cells, table, d), cells[d] = flash[c]
            PROVE  d \in a .. a + recorder - 1
        <4>1. Shows(flash, bad, d) /\ flash[d] = flash[c]
          BY <1>1, <3>5
        <4>. QED  BY <3>2, <4>1 DEF IsAt
      <3>6. ASSUME NEW d \in Cells, d \in a .. a + recorder - 1
            PROVE  Shows(cells, table, d) /\ cells[d] = flash[c]
        <4>1. Shows(flash, bad, d) /\ flash[d] = flash[c]
          BY <3>2, <3>6 DEF IsAt
        <4>2. BlockOf(d) = BlockOf(c)
          BY <3>3, <3>4, <3>6
        <4>3. Shows(cells, table, d)
          BY <1>3, <2>1, <4>1, <4>2
        <4>. QED  BY <1>1, <4>1, <4>3
      <3>7. IsAt(cells, table, cells[c], a, recorder)
        BY <3>1, <3>5, <3>6 DEF IsAt
      <3>. QED  BY <3>2, <3>7
    <2>. QED  BY <2>1 DEF Whole
  <1>9. FlashIsSound(cells, table, m.wrapAddr, n, recorder)
    <2>1. \A c \in Cells : Shows(cells, table, c) => cells[c] <= n
      BY <1>1 DEF FlashIsSound
    <2>. QED  BY <1>7, <1>8, <2>1 DEF FlashIsSound
  <1>10. QueueIsSound(queue, cells, table, n)
    BY <1>1 DEF QueueIsSound, OlderThan
  <1>11. ASSUME NEW erased, NoneLost(queue, flash, bad, wrapAddr, n, erased)
         PROVE  NoneLost(queue, cells, table, m.wrapAddr, n, erased)
    <2>1. ASSUME NEW p \in 1 .. n, ~Waits(queue, p), ~IsIn(cells, table, p)
          PROVE  /\ m.wrapAddr # 0 \/ erased
                 /\ \A c \in Cells : Shows(cells, table, c) => cells[c] > p
      <3>1. CASE IsIn(flash, bad, p)
        <4>1. PICK c \in Cells : Shows(flash, bad, c) /\ flash[c] = p
          BY <3>1 DEF IsIn
        <4>2. ~Shows(cells, table, c)
          BY <1>1, <2>1, <4>1 DEF IsIn
        <4>3. ASSUME NEW d \in Cells, Shows(cells, table, d) PROVE cells[d] > p
          <5>1. flash[c] <= flash[d]
            BY <1>1, <1>3, <4>1, <4>2, <4>3 DEF FlashIsSound, InOrder
          <5>2. cells[d] # p
            BY <2>1, <4>3 DEF IsIn
          <5>3. cells[d] = flash[d] /\ flash[d] \in Nat /\ p \in Nat
            BY <1>1, <1>5, <4>1, <4>3
          <5>. QED  BY <4>1, <5>1, <5>2, <5>3
        <4>. QED  BY <1>4, <4>1, <4>2, <4>3
      <3>2. CASE ~IsIn(flash, bad, p)
        <4>1. /\ wrapAddr # 0 \/ erased
              /\ \A c \in Cells : Shows(flash, bad, c) => flash[c] > p
          BY <1>11, <2>1, <3>2 DEF NoneLost
        <4>. QED  BY <1>1, <1>4, <4>1
      <3>. QED  BY <3>1, <3>2
    <2>2. \A p \in 1 .. n : \A k \in 1 .. Len(queue) :
             queue[k] \in Packets /\ queue[k] < p => Waits(queue, p)
      BY <1>11 DEF NoneLost
    <2>. QED  BY <2>1, <2>2, Zenon DEF NoneLost
  <1>. QED  BY <1>9, <1>10, <1>11

-----------------------------------------------------------------------------
(* LOG_RUN_STATE, second half: a packet leaves the queue.                  *)

\* The packets behind the first one.
LEMMA TailPackets ==
  ASSUME NEW q \in Seq(QueueValues), q # <<>>
  PROVE  /\ Head(q) = q[1] /\ Len(q) \in Nat \ {0} /\ Len(Tail(q)) = Len(q) - 1
         /\ \A k \in 1 .. Len(Tail(q)) : k + 1 \in 1 .. Len(q) /\ Tail(q)[k] = q[k + 1]
         /\ \A k \in 1 .. Len(q) :
               k # 1 => k - 1 \in 1 .. Len(Tail(q)) /\ Tail(q)[k - 1] = q[k]
  <1>1. Head(q) = q[1] /\ Len(q) \in Nat /\ Len(q) # 0
    BY EmptySeq, LenProperties
  <1>2. /\ Len(Tail(q)) = Len(q) - 1
        /\ \A k \in 1 .. Len(Tail(q)) : Tail(q)[k] = q[k + 1]
    BY HeadTailProperties
  <1>. HIDE DEF QueueValues
  <1>3. \A k \in 1 .. Len(q) :
           k # 1 => k - 1 \in 1 .. Len(Tail(q)) /\ Tail(q)[k - 1] = q[k]
    <2>1. ASSUME NEW k \in 1 .. Len(q), k # 1
          PROVE  k - 1 \in 1 .. Len(Tail(q)) /\ Tail(q)[k - 1] = q[k]
      <3>1. k - 1 \in 1 .. Len(Tail(q)) /\ (k - 1) + 1 = k
        BY <1>1, <1>2, <2>1
      <3>. QED  BY <1>2, <3>1
    <2>. QED  BY <2>1
  <1>. QED  BY <1>1, <1>2, <1>3

\* A damaged one: the others are as they were.
LEMMA GarbageLeaves ==
  ASSUME NEW q \in Seq(QueueValues), q # <<>>, Head(q) \notin Packets,
         NEW cells, NEW table, NEW w, NEW n \in 0 .. MAX_PACKETS,
         QueueIsSound(q, cells, table, n)
  PROVE  /\ QueueIsSound(Tail(q), cells, table, n)
         /\ \A erased : NoneLost(q, cells, table, w, n, erased)
                          => NoneLost(Tail(q), cells, table, w, n, erased)
  <1>1. QueueIsSound(Tail(q), cells, table, n)
    <2>1. ASSUME NEW i \in 1 .. Len(Tail(q)), NEW j \in 1 .. Len(Tail(q)), i < j,
                 Tail(q)[i] \in Packets, Tail(q)[j] \in Packets
          PROVE  Tail(q)[i] < Tail(q)[j]
      <3>1. /\ i + 1 \in 1 .. Len(q) /\ Tail(q)[i] = q[i + 1]
            /\ j + 1 \in 1 .. Len(q) /\ Tail(q)[j] = q[j + 1] /\ i + 1 < j + 1
        BY <2>1, TailPackets
      <3>. QED  BY <2>1, <3>1 DEF QueueIsSound
    <2>2. ASSUME NEW k \in 1 .. Len(Tail(q)), Tail(q)[k] \in Packets
          PROVE  Tail(q)[k] <= n /\ OlderThan(cells, table, Tail(q)[k])
      <3>1. k + 1 \in 1 .. Len(q) /\ Tail(q)[k] = q[k + 1]
        BY <2>2, TailPackets
      <3>. QED  BY <2>2, <3>1 DEF QueueIsSound
    <2>. QED  BY <2>1, <2>2 DEF QueueIsSound
  <1>2. ASSUME NEW erased, NoneLost(q, cells, table, w, n, erased)
        PROVE  NoneLost(Tail(q), cells, table, w, n, erased)
    <2>1. \A p \in 1 .. n : p \in Packets
      BY PacketNumbers
    <2>2. ASSUME NEW p \in 1 .. n, Waits(q, p)
          PROVE  Waits(Tail(q), p)
      <3>1. PICK k \in 1 .. Len(q) : q[k] = p
        BY <2>2 DEF Waits
      <3>2. k # 1
        BY <2>1, <3>1, TailPackets
      <3>3. k - 1 \in 1 .. Len(Tail(q)) /\ Tail(q)[k - 1] = p
        BY <3>1, <3>2, TailPackets
      <3>. QED  BY <3>3 DEF Waits
    <2>3. ASSUME NEW p \in 1 .. n, NEW k \in 1 .. Len(Tail(q)),
                 Tail(q)[k] \in Packets, Tail(q)[k] < p
          PROVE  Waits(Tail(q), p)
      <3>1. k + 1 \in 1 .. Len(q) /\ Tail(q)[k] = q[k + 1]
        BY <2>3, TailPackets
      <3>2. Waits(q, p)
        BY <1>2, <2>3, <3>1 DEF NoneLost
      <3>. QED  BY <2>2, <3>2
    <2>4. ASSUME NEW p \in 1 .. n
          PROVE  \/ Waits(Tail(q), p)
                 \/ IsIn(cells, table, p)
                 \/ /\ w # 0 \/ erased
                    /\ \A c \in Cells : Shows(cells, table, c) => cells[c] > p
      BY <1>2, <2>2, Zenon DEF NoneLost
    <2>. QED  BY <2>3, <2>4, Zenon DEF NoneLost
  <1>. QED  BY <1>1, <1>2

\* A packet goes behind all the others, in one piece.
LEMMA PacketIsWritten ==
  ASSUME NEW q \in Seq(QueueValues), q # <<>>, Head(q) \in Packets,
         NEW cells, NEW table, NEW w, NEW n \in 0 .. MAX_PACKETS, NEW size \in 1 .. PAGE,
         FlashIsSound(cells, table, w, n, size), QueueIsSound(q, cells, table, n),
         NEW b \in LogBlocks, b \notin table, NEW a, InBlock(a, b, size),
         \A c \in a .. a + size - 1 : cells[c] = ERASED,
         \/ /\ w = 0
            /\ \A c \in Cells : c >= a /\ BlockOf(c) \notin table => cells[c] = ERASED
         \/ /\ w = (b + 1) * BLOCK
            /\ \A c \in Cells : c >= a /\ c < w => cells[c] = ERASED,
         NEW W, W = Written(cells, a, size, Head(q))
  PROVE  /\ FlashIsSound(W, table, w, n, size)
         /\ QueueIsSound(Tail(q), W, table, n)
         /\ \A erased : NoneLost(q, cells, table, w, n, erased)
                          => NoneLost(Tail(q), W, table, w, n, erased)
  <1>1. PICK p : p = Head(q)
    OBVIOUS
  <1>2. p \in Packets /\ p \in Nat /\ 1 \in 1 .. Len(q) /\ q[1] = p
    BY <1>1, TailPackets, PacketNumbers
  <1>3. p <= n /\ OlderThan(cells, table, p)
    BY <1>2 DEF QueueIsSound
  <1>4. a \in Nat /\ size \in Nat \ {0}
        /\ \A c \in a .. a + size - 1 : c \in Cells /\ BlockOf(c) = b
    <2>1. PAGE \in Nat
      BY Geometry DEF Numbers
    <2>. QED  BY <2>1, PlaceCells
  <1>5. \A c \in Cells : W[c] = IF c \in a .. a + size - 1 THEN p ELSE cells[c]
    BY <1>1 DEF Written
  \* What the flash shows now.
  <1>6. \A c \in Cells : c \in a .. a + size - 1 =>
           ~Shows(cells, table, c) /\ Shows(W, table, c) /\ W[c] = p
    BY <1>2, <1>4, <1>5, PacketNumbers DEF Shows
  <1>7. \A c \in Cells : c \notin a .. a + size - 1 =>
           (Shows(W, table, c) <=> Shows(cells, table, c)) /\ W[c] = cells[c]
    BY <1>5 DEF Shows
  <1>8. \A c \in Cells : Shows(cells, table, c) => cells[c] < p /\ cells[c] \in Nat
    BY <1>3, PacketNumbers DEF OlderThan, Shows
  <1>9. ASSUME NEW c \in Cells, NEW d \in Cells, c \in a .. a + size - 1,
               Shows(cells, table, d), Earlier(w, c, d)
        PROVE  FALSE
    <2>1. cells[d] # ERASED /\ BlockOf(d) \notin table
      BY <1>9, PacketNumbers DEF Shows
    <2>2. c \in Nat /\ d \in Nat /\ c >= a
      BY <1>4, <1>9, CellFacts
    <2>3. CASE w = 0 /\ \A e \in Cells : e >= a /\ BlockOf(e) \notin table => cells[e] = ERASED
      <3>1. c < d
        BY <1>9, <2>3 DEF Earlier, Behind
      <3>2. d >= a
        BY <1>4, <2>2, <3>1
      <3>. QED  BY <2>1, <2>3, <3>2
    <2>4. CASE w = (b + 1) * BLOCK /\ \A e \in Cells : e >= a /\ e < w => cells[e] = ERASED
      <3>1. w \in Nat
        BY <2>4, BlockSums, Geometry DEF Numbers
      <3>2. c < w
        <4>1. BlockOf(c) = b /\ b \in Nat /\ b + 1 \in Nat /\ b < b + 1
          BY <1>4, <1>9, BlockSums
        <4>. QED  BY <2>4, <4>1, BlockOrder
      <3>3. c < d /\ ~Behind(w, d) /\ w # 0
        BY <1>9, <2>2, <3>1, <3>2 DEF Earlier, Behind
      <3>4. d < w /\ d >= a
        BY <1>4, <2>2, <3>1, <3>3 DEF Behind
      <3>. QED  BY <2>1, <2>4, <3>4
    <2>. QED  BY <2>3, <2>4
  <1>10. InOrder(W, table, w)
    <2>1. ASSUME NEW c \in Cells, NEW d \in Cells, Shows(W, table, c), Shows(W, table, d),
                 Earlier(w, c, d)
          PROVE  W[c] <= W[d]
      <3>1. CASE c \in a .. a + size - 1
        <4>1. d \in a .. a + size - 1
          BY <1>7, <1>9, <2>1, <3>1
        <4>. QED  BY <1>2, <1>6, <3>1, <4>1
      <3>2. CASE c \notin a .. a + size - 1
        <4>1. Shows(cells, table, c) /\ W[c] = cells[c]
          BY <1>7, <2>1, <3>2
        <4>2. CASE d \in a .. a + size - 1
          BY <1>2, <1>6, <1>8, <4>1, <4>2
        <4>3. CASE d \notin a .. a + size - 1
          <5>1. Shows(cells, table, d) /\ W[d] = cells[d]
            BY <1>7, <2>1, <4>3
          <5>. QED  BY <2>1, <4>1, <5>1 DEF FlashIsSound, InOrder
        <4>. QED  BY <4>2, <4>3
      <3>. QED  BY <3>1, <3>2
    <2>. QED  BY <2>1 DEF InOrder
  <1>11. IsAt(W, table, p, a, size)
    BY <1>6, <1>7, <1>8, <1>2 DEF IsAt
  <1>12. Whole(W, table, size)
    <2>1. ASSUME NEW c \in Cells, Shows(W, table, c)
          PROVE  \E g \in LogBlocks : \E x \in Nat :
                    InBlock(x, g, size) /\ IsAt(W, table, W[c], x, size)
      <3>1. CASE c \in a .. a + size - 1
        <4>1. W[c] = p
          BY <1>6, <3>1
        <4>. QED  BY <1>4, <1>11, <4>1
      <3>2. CASE c \notin a .. a + size - 1
        <4>1. Shows(cells, table, c) /\ W[c] = cells[c]
          BY <1>7, <2>1, <3>2
        <4>2. PICK g \in LogBlocks, x \in Nat :
                InBlock(x, g, size) /\ IsAt(cells, table, cells[c], x, size)
          BY <4>1, Zenon DEF FlashIsSound, Whole
        <4>3. ASSUME NEW d \in Cells
              PROVE  Shows(W, table, d) /\ W[d] = W[c] <=> d \in x .. x + size - 1
          <5>1. CASE d \in a .. a + size - 1
            <6>1. ~Shows(cells, table, d) /\ W[d] = p /\ W[c] # p
              BY <1>2, <1>6, <1>8, <4>1, <5>1
            <6>2. d \notin x .. x + size - 1
              BY <4>2, <6>1 DEF IsAt
            <6>. QED  BY <6>1, <6>2
          <5>2. CASE d \notin a .. a + size - 1
            <6>1. (Shows(W, table, d) <=> Shows(cells, table, d)) /\ W[d] = cells[d]
              BY <1>7, <5>2
            <6>. QED  BY <4>1, <4>2, <6>1 DEF IsAt
          <5>. QED  BY <5>1, <5>2
        <4>4. IsAt(W, table, W[c], x, size)
          BY <4>3 DEF IsAt
        <4>. QED  BY <4>2, <4>4
      <3>. QED  BY <3>1, <3>2
    <2>. QED  BY <2>1 DEF Whole
  <1>13. FlashIsSound(W, table, w, n, size)
    <2>1. \A c \in Cells : Shows(W, table, c) => W[c] <= n
      BY <1>3, <1>6, <1>7 DEF FlashIsSound
    <2>. QED  BY <1>10, <1>12, <2>1 DEF FlashIsSound
  <1>14. QueueIsSound(Tail(q), W, table, n)
    <2>1. ASSUME NEW i \in 1 .. Len(Tail(q)), NEW j \in 1 .. Len(Tail(q)), i < j,
                 Tail(q)[i] \in Packets, Tail(q)[j] \in Packets
          PROVE  Tail(q)[i] < Tail(q)[j]
      <3>1. /\ i + 1 \in 1 .. Len(q) /\ Tail(q)[i] = q[i + 1]
            /\ j + 1 \in 1 .. Len(q) /\ Tail(q)[j] = q[j + 1] /\ i + 1 < j + 1
        BY <2>1, TailPackets
      <3>. QED  BY <2>1, <3>1 DEF QueueIsSound
    <2>2. ASSUME NEW k \in 1 .. Len(Tail(q)), Tail(q)[k] \in Packets
          PROVE  Tail(q)[k] <= n /\ OlderThan(W, table, Tail(q)[k])
      <3>1. k + 1 \in 1 .. Len(q) /\ Tail(q)[k] = q[k + 1] /\ 1 < k + 1
        BY <2>2, TailPackets
      <3>2. /\ Tail(q)[k] <= n /\ OlderThan(cells, table, Tail(q)[k])
            /\ p < Tail(q)[k]
        BY <1>2, <2>2, <3>1 DEF QueueIsSound
      <3>3. OlderThan(W, table, Tail(q)[k])
        BY <1>6, <1>7, <3>2 DEF OlderThan
      <3>. QED  BY <3>2, <3>3
    <2>. QED  BY <2>1, <2>2 DEF QueueIsSound
  <1>15. ASSUME NEW erased, NoneLost(q, cells, table, w, n, erased)
         PROVE  NoneLost(Tail(q), W, table, w, n, erased)
    <2>1. \A x \in 1 .. n : x \in Packets /\ x \in Nat
      BY PacketNumbers
    <2>2. ASSUME NEW x \in 1 .. n, Waits(q, x), x # p PROVE Waits(Tail(q), x)
      <3>1. PICK k \in 1 .. Len(q) : q[k] = x
        BY <2>2 DEF Waits
      <3>2. k # 1
        BY <1>2, <2>2, <3>1
      <3>3. k - 1 \in 1 .. Len(Tail(q)) /\ Tail(q)[k - 1] = x
        BY <3>1, <3>2, TailPackets
      <3>. QED  BY <3>3 DEF Waits
    <2>3. ASSUME NEW x \in 1 .. n, NEW k \in 1 .. Len(Tail(q)),
                 Tail(q)[k] \in Packets, Tail(q)[k] < x
          PROVE  Waits(Tail(q), x)
      <3>1. k + 1 \in 1 .. Len(q) /\ Tail(q)[k] = q[k + 1] /\ 1 < k + 1
        BY <2>3, TailPackets
      <3>2. Waits(q, x)
        BY <1>15, <2>3, <3>1 DEF NoneLost
      <3>3. p < Tail(q)[k]
        BY <1>2, <2>3, <3>1 DEF QueueIsSound
      <3>4. x # p
        BY <1>2, <2>1, <2>3, <3>3, PacketNumbers
      <3>. QED  BY <2>2, <3>2, <3>4
    <2>4. ASSUME NEW x \in 1 .. n, ~Waits(Tail(q), x), ~IsIn(W, table, x)
          PROVE  /\ w # 0 \/ erased
                 /\ \A c \in Cells : Shows(W, table, c) => W[c] > x
      <3>1. x # p
        <4>1. a \in a .. a + size - 1
          BY <1>4
        <4>2. a \in Cells
          BY <1>4, <4>1
        <4>3. Shows(W, table, a) /\ W[a] = p
          BY <1>6, <4>1, <4>2
        <4>. QED  BY <2>4, <4>2, <4>3 DEF IsIn
      <3>2. ~Waits(q, x)
        BY <2>2, <2>4, <3>1
      <3>3. ~IsIn(cells, table, x)
        <4>1. ASSUME NEW c \in Cells, Shows(cells, table, c), cells[c] = x PROVE FALSE
          <5>1. Shows(W, table, c) /\ W[c] = x
            BY <1>6, <1>7, <4>1
          <5>. QED  BY <2>4, <5>1 DEF IsIn
        <4>. QED  BY <4>1 DEF IsIn
      <3>4. /\ w # 0 \/ erased
            /\ \A c \in Cells : Shows(cells, table, c) => cells[c] > x
        BY <1>15, <3>2, <3>3 DEF NoneLost
      <3>5. x < p
        <4>1. ~(p < x)
          BY <1>2, <1>15, <3>2 DEF NoneLost
        <4>. QED  BY <1>2, <2>1, <3>1, <4>1
      <3>6. \A c \in Cells : Shows(W, table, c) => W[c] > x
        BY <1>2, <1>6, <1>7, <2>1, <3>4, <3>5
      <3>. QED  BY <3>4, <3>6
    <2>. QED  BY <2>3, <2>4, Zenon DEF NoneLost
  <1>. QED  BY <1>1, <1>13, <1>14, <1>15

-----------------------------------------------------------------------------
(* The steps.                                                              *)

LEMMA OrderNext ==
  ASSUME FlashIsSound(flash', bad', wrapAddr', sent', recorder'),
         QueueIsSound(queue', flash', bad', sent'),
         faults' \subseteq Lossless =>
            /\ NoneLost(queue', flash', bad', wrapAddr', sent', "erase" \in faults')
            /\ machState' = "IDLE" => queue' = <<>>
            /\ logErase' = 1 => "erase" \in faults'
  PROVE  OrderIInv'
  BY Zenon DEF OrderIInv, AllKept, FlashIsSound, InOrder, Whole, IsAt, InBlock, Shows,
     Earlier, Behind, QueueIsSound, OlderThan, NoneLost, Waits, IsIn, BlockOf

LEMMA Loses ==
  /\ Lossless \subseteq Harmless
  /\ "overflow" \notin Lossless /\ "early packet" \notin Lossless
  /\ "erase with last block" \notin Harmless
  BY Zenon DEF Lossless, Harmless

LEMMA OrderRun ==
  ASSUME LogIInv, OrderIInv, Run, UNCHANGED <<recorder, sent>>, faults' \subseteq Harmless
  PROVE  OrderIInv'
  <1>1. FlashTypes /\ LogTypes /\ FlagsAgree
    BY IInvParts
  <1>2. /\ machState = "RUN" /\ packetSize = recorder /\ logErase' = logErase
        /\ faults \subseteq faults'
    BY <1>1, RunParts, RunOutcome, Zenon DEF FlagsAgree
  <1>3. PICK failing \in FailingErases, b \in LogBlocks :
          LET m     == LogManageAddresses(failing)
              table == bad \cup failing
              cells == Wiped(flash, m.erases)
              a     == HandleBadBlock(m.address, table)
          IN  /\ failing \subseteq m.tried
              /\ LAST_BLOCK \notin table /\ table \subseteq LogBlocks /\ b \notin table
              /\ cells \in [Cells -> CellValues]
              /\ InBlock(a, b, packetSize) /\ CanWrite(cells, a)
              /\ \/ /\ m.wrapAddr = 0
                    /\ \A c \in Cells : c >= a /\ BlockOf(c) \notin table
                                        => cells[c] = ERASED
                 \/ /\ m.wrapAddr = (b + 1) * BLOCK
                    /\ \A c \in Cells : c >= a /\ c < m.wrapAddr
                                        => cells[c] = ERASED
              /\ bad' = table /\ wrapAddr' = m.wrapAddr
              /\ Stored(cells, a)
    BY RunOutcome, Zenon
  <1>4. PICK m : m = LogManageAddresses(failing)
    OBVIOUS
  <1>5. PICK cells : cells = Wiped(flash, m.erases)
    OBVIOUS
  <1>6. PICK table : table = bad \cup failing
    OBVIOUS
  <1>7. PICK a : a = HandleBadBlock(m.address, table)
    OBVIOUS
  <1>8. PICK w : w = m.wrapAddr
    OBVIOUS
  <1>9. /\ b \notin table /\ InBlock(a, b, packetSize) /\ CanWrite(cells, a)
        /\ failing \subseteq LogManageAddresses(failing).tried
        /\ bad' = table /\ wrapAddr' = w /\ Stored(cells, a)
    BY <1>3, <1>4, <1>5, <1>6, <1>7, <1>8, Zenon
  <1>10. \/ /\ w = 0
            /\ \A c \in Cells : c >= a /\ BlockOf(c) \notin table => cells[c] = ERASED
         \/ /\ w = (b + 1) * BLOCK
            /\ \A c \in Cells : c >= a /\ c < w => cells[c] = ERASED
    BY <1>3, <1>4, <1>5, <1>6, <1>7, <1>8, Zenon
  <1>11. \A c \in a .. a + recorder - 1 : cells[c] = ERASED
    BY <1>2, <1>9, Zenon DEF CanWrite
  <1>12. PICK n \in 0 .. MAX_PACKETS : n = sent
    BY <1>1, Zenon DEF FlashTypes
  <1>13. n \in Nat /\ recorder \in 1 .. PAGE /\ sent' = n /\ recorder' = recorder
    BY <1>1, <1>12, Geometry, PacketNumbers DEF FlashTypes, Numbers
  <1>14. /\ FlashIsSound(cells, table, w, n, recorder)
         /\ QueueIsSound(queue, cells, table, n)
         /\ \A erased : NoneLost(queue, flash, bad, wrapAddr, n, erased)
                          => NoneLost(queue, cells, table, w, n, erased)
    <2>1. FlashIsSound(flash, bad, wrapAddr, n, recorder) /\ QueueIsSound(queue, flash, bad, n)
      BY <1>12, Zenon DEF OrderIInv
    <2>. QED  BY <1>2, <1>4, <1>5, <1>6, <1>8, <1>9, <1>13, <2>1, RoomIsMade, Zenon
  \* What the second half leaves behind.
  <1>15. /\ FlashIsSound(flash', table, w, n, recorder)
         /\ QueueIsSound(queue', flash', table, n)
         /\ \A erased : NoneLost(queue, cells, table, w, n, erased)
                          => NoneLost(queue', flash', table, w, n, erased)
    <2>1. queue \in Seq(QueueValues)
      BY <1>1, Zenon DEF LogTypes
    <2>2. CASE flash' = cells /\ queue' = queue
      BY <1>14, <2>2, Zenon
    <2>3. CASE flash' = cells /\ queue # <<>> /\ Head(queue) = GARBAGE /\ queue' = Tail(queue)
      <3>1. Head(queue) \notin Packets
        BY <2>3, PacketNumbers, Zenon
      <3>. QED  BY <1>12, <1>14, <2>1, <2>3, <3>1, GarbageLeaves, Zenon
    <2>4. CASE /\ flash' = Written(cells, a, packetSize, Head(queue))
               /\ queue # <<>> /\ Head(queue) # GARBAGE /\ queue' = Tail(queue)
      <3>1. Head(queue) \in Packets
        <4>1. Head(queue) \in QueueValues
          BY <2>1, <2>4, HeadTailProperties
        <4>. QED  BY <2>4, <4>1, Zenon DEF QueueValues
      <3>2. InBlock(a, b, recorder) /\ flash' = Written(cells, a, recorder, Head(queue))
        BY <1>2, <1>9, <2>4, Zenon
      <3>. QED  BY <1>9, <1>10, <1>11, <1>12, <1>13, <1>14, <2>1, <2>4, <3>1, <3>2,
                   PacketIsWritten, Zenon
    <2>. QED  BY <1>9, <2>2, <2>3, <2>4, Zenon DEF Stored
  <1>16. ASSUME faults' \subseteq Lossless
         PROVE  /\ NoneLost(queue', flash', table, w, n, "erase" \in faults')
                /\ machState' = "IDLE" => queue' = <<>>
                /\ logErase' = 1 => "erase" \in faults'
    <2>1. AllKept
      BY <1>2, <1>16 DEF OrderIInv
    <2>2. NoneLost(queue', flash', table, w, n, "erase" \in faults)
      BY <1>12, <1>14, <1>15, <2>1, Zenon DEF AllKept
    <2>3. "erase" \in faults => "erase" \in faults'
      BY <1>2, Zenon
    <2>4. NoneLost(queue', flash', table, w, n, "erase" \in faults')
      BY <2>2, <2>3, Zenon DEF NoneLost
    <2>5. machState' # "IDLE"
      BY <1>9, Zenon DEF Stored
    <2>. QED  BY <1>2, <2>1, <2>3, <2>4, <2>5, Zenon DEF AllKept
  <1>. QED  BY <1>9, <1>13, <1>15, <1>16, OrderNext, Zenon

\* A step that touches neither the flash nor the queue.
LEMMA OrderKept ==
  ASSUME OrderIInv, UNCHANGED <<flash, bad, wrapAddr, queue, sent, recorder>>,
         faults \subseteq faults',
         machState' # "IDLE" \/ machState' = machState,
         faults' \subseteq Lossless => logErase' = logErase \/ "erase" \in faults'
  PROVE  OrderIInv'
  <1>1. /\ FlashIsSound(flash', bad', wrapAddr', sent', recorder')
        /\ QueueIsSound(queue', flash', bad', sent')
    BY Zenon DEF OrderIInv
  <1>2. ASSUME faults' \subseteq Lossless
        PROVE  /\ NoneLost(queue', flash', bad', wrapAddr', sent', "erase" \in faults')
               /\ machState' = "IDLE" => queue' = <<>>
               /\ logErase' = 1 => "erase" \in faults'
    <2>1. AllKept
      BY <1>2 DEF OrderIInv
    <2>2. "erase" \in faults => "erase" \in faults'
      OBVIOUS
    <2>3. NoneLost(queue', flash', bad', wrapAddr', sent', "erase" \in faults)
      BY <2>1, Zenon DEF AllKept
    <2>4. NoneLost(queue', flash', bad', wrapAddr', sent', "erase" \in faults')
      BY <2>2, <2>3, Zenon DEF NoneLost
    <2>. QED  BY <1>2, <2>1, <2>2, <2>4, Zenon DEF AllKept
  <1>. QED  BY <1>1, <1>2, OrderNext, Zenon

\* LOG_IDLE_STATE: what it reads into the queue is no packet.
LEMMA IdleQueue ==
  ASSUME LogIInv, Idle
  PROVE  /\ Len(queue') = Len(queue) /\ wrapAddr' = wrapAddr
         /\ UNCHANGED <<flash, bad, logErase, faults>>
         /\ \A c \in Cells : ~Shows(flash, bad, c)
         /\ \A k \in 1 .. Len(queue') :
               queue'[k] \in Packets => queue'[k] = queue[k]
  <1>. DEFINE lost == Content(LogFindEndOfMemory.at, packetSize)
  <1>1. FlashTypes /\ LogTypes
    BY IInvParts
  <1>2. /\ machState = "IDLE" /\ machState' = "RUN" /\ OpenBlocks # {}
        /\ wrapAddr' = LogFindEndOfMemory.wrapAddr
        /\ queue' = IF queue = <<>> THEN queue ELSE <<lost>> \o Tail(queue)
        /\ UNCHANGED <<flash, bad, logErase, faults>>
    BY DEF Idle
  <1>3. wrapAddr = 0 /\ \A c \in Cells : BlockOf(c) \notin bad => flash[c] = ERASED
    BY <1>2, IdleFinds, Zenon
  <1>4. \A c \in Cells : ~Shows(flash, bad, c)
    BY <1>3, PacketNumbers DEF Shows
  <1>5. PICK b \in LogBlocks \ bad :
          LogFindEndOfMemory = [address |-> b * BLOCK, wrapAddr |-> wrapAddr,
                                at |-> b * BLOCK]
    BY <1>2, IdleFinds, Zenon
  <1>6. wrapAddr' = wrapAddr /\ LogFindEndOfMemory.at = b * BLOCK
    BY <1>2, <1>5
  <1>7. lost = GARBAGE
    <2>1. /\ packetSize \in 1 .. PAGE /\ packetSize \in Nat \ {0}
      BY <1>1, Geometry DEF FlashTypes, LogTypes, Numbers
    <2>2. InBlock(b * BLOCK, b, packetSize)
      BY <2>1, BlockSums, FirstPlace
    <2>3. /\ b * BLOCK \in b * BLOCK .. b * BLOCK + packetSize - 1
          /\ b * BLOCK \in Cells /\ BlockOf(b * BLOCK) = b
      <3>1. PICK x \in Nat : x = b * BLOCK
        BY BlockSums
      <3>2. x \in x .. x + packetSize - 1
        BY <2>1
      <3>3. x \in Cells /\ BlockOf(x) = b
        BY <2>1, <2>2, <3>1, <3>2, PlaceCells
      <3>. QED  BY <3>1, <3>2, <3>3, Zenon
    <2>4. flash[b * BLOCK] = ERASED
      BY <1>3, <2>3
    <2>5. {p \in Packets : \A c \in b * BLOCK .. b * BLOCK + packetSize - 1 :
                              c \in Cells /\ flash[c] = p} = {}
      BY <2>3, <2>4, PacketNumbers, Zenon
    <2>. QED  BY <1>6, <2>5, Zenon DEF Content
  <1>. HIDE DEF lost
  \* The rest of the queue stays.
  <1>8. /\ Len(queue') = Len(queue)
        /\ \A k \in 1 .. Len(queue') : queue'[k] \in Packets => queue'[k] = queue[k]
    <2>1. CASE queue = <<>>
      BY <1>2, <2>1, Zenon
    <2>2. CASE queue # <<>>
      <3>1. queue \in Seq(QueueValues)
        BY <1>1, Zenon DEF LogTypes
      <3>2. /\ Len(queue') = Len(queue) /\ Len(queue) \in Nat \ {0}
            /\ queue'[1] = GARBAGE
            /\ \A k \in 2 .. Len(queue) : queue'[k] = queue[k]
        <4>1. PICK t \in Seq(QueueValues) : t = Tail(queue)
          BY <2>2, <3>1, HeadTailProperties
        <4>2. /\ <<GARBAGE>> \in Seq(QueueValues) /\ Len(<<GARBAGE>>) = 1
              /\ <<GARBAGE>>[1] = GARBAGE
          BY DEF QueueValues
        <4>3. queue' = <<GARBAGE>> \o t
          BY <1>2, <1>7, <2>2, <4>1
        <4>4. Len(t) = Len(queue) - 1 /\ Len(queue) \in Nat \ {0}
          BY <2>2, <3>1, <4>1, TailPackets
        <4>5. /\ Len(queue') = 1 + Len(t)
              /\ \A k \in 1 .. 1 + Len(t) :
                    queue'[k] = IF k <= 1 THEN <<GARBAGE>>[k] ELSE t[k - 1]
          BY <4>2, <4>3, <4>4, ConcatProperties
        <4>6. ASSUME NEW k \in 2 .. Len(queue) PROVE queue'[k] = queue[k]
          <5>1. k - 1 \in 1 .. Len(t) /\ t[k - 1] = queue[k] /\ k \in 1 .. 1 + Len(t) /\ ~(k <= 1)
            BY <2>2, <3>1, <4>1, <4>4, TailPackets
          <5>. QED  BY <4>5, <5>1
        <4>. QED  BY <4>2, <4>4, <4>5, <4>6
      <3>3. ASSUME NEW k \in 1 .. Len(queue'), queue'[k] \in Packets
            PROVE  k \in 1 .. Len(queue) /\ queue'[k] = queue[k]
        <4>1. k # 1
          BY <3>2, <3>3, PacketNumbers
        <4>. QED  BY <3>2, <4>1
      <3>. QED  BY <3>2, <3>3
    <2>. QED  BY <2>1, <2>2
  <1>. QED  BY <1>2, <1>4, <1>6, <1>8, Zenon

LEMMA OrderIdle ==
  ASSUME LogIInv, OrderIInv, Idle, UNCHANGED <<recorder, sent>>
  PROVE  OrderIInv'
  <1>1. machState = "IDLE"
    BY DEF Idle
  <1>2. /\ machState' = "RUN"
        /\ queue = <<>> => queue' = queue
        /\ UNCHANGED <<flash, bad, logErase, faults>>
    BY DEF Idle
  <1>3. /\ Len(queue') = Len(queue) /\ wrapAddr' = wrapAddr
        /\ \A k \in 1 .. Len(queue') : queue'[k] \in Packets => queue'[k] = queue[k]
    BY IdleQueue, Zenon
  <1>4. PICK n : n = sent
    OBVIOUS
  <1>5. QueueIsSound(queue, flash, bad, n)
    BY <1>4, Zenon DEF OrderIInv
  <1>6. QueueIsSound(queue', flash, bad, n)
    <2>1. ASSUME NEW k \in 1 .. Len(queue'), queue'[k] \in Packets
          PROVE  k \in 1 .. Len(queue) /\ queue'[k] = queue[k]
      BY <1>3, <2>1
    <2>. QED  BY <1>5, <2>1 DEF QueueIsSound
  <1>7. ASSUME faults' \subseteq Lossless
         PROVE  /\ NoneLost(queue', flash', bad', wrapAddr', sent', "erase" \in faults')
                /\ machState' = "IDLE" => queue' = <<>>
                /\ logErase' = 1 => "erase" \in faults'
    <2>1. AllKept
      BY <1>2, <1>7 DEF OrderIInv
    <2>2. queue' = queue
      BY <1>1, <1>2, <2>1, Zenon DEF AllKept
    <2>. QED  BY <1>2, <1>3, <2>1, <2>2, Zenon DEF AllKept
  <1>8. /\ FlashIsSound(flash', bad', wrapAddr', sent', recorder')
         /\ QueueIsSound(queue', flash', bad', sent')
    BY <1>2, <1>3, <1>4, <1>6, Zenon DEF OrderIInv
  <1>. QED  BY <1>7, <1>8, OrderNext, Zenon

\* LOG_ERASE_STATE leaves nothing.
LEMMA OrderErase ==
  ASSUME LogIInv, OrderIInv, Erase, UNCHANGED <<recorder, sent>>
  PROVE  OrderIInv'
  <1>1. FlashTypes /\ FlagsAgree
    BY IInvParts
  <1>2. LogIInv' /\ faults' = faults
    BY EraseStep, Zenon
  <1>3. /\ machState = "ERASE" /\ machState' = "IDLE" /\ logErase' = 3 /\ queue' = <<>>
        /\ bad' = bad
    BY DEF Erase, InitLog
  <1>4. \A c \in Cells : ~Shows(flash', bad', c)
    <2>1. PlaceIsGood' /\ FlagsAgree'
      BY <1>2, IInvParts
    <2>2. wrapAddr' = 0 /\ Position' = BLOCK
      BY <1>3, <2>1 DEF FlagsAgree, Position
    <2>3. \A c \in Cells : c >= BLOCK /\ BlockOf(c) \notin bad' => flash'[c] = ERASED
      BY <2>1, <2>2 DEF PlaceIsGood, ErasedFrom
    <2>4. \A c \in Cells : c >= BLOCK
      BY CellFacts, Geometry DEF Numbers
    <2>. QED  BY <2>3, <2>4, PacketNumbers DEF Shows
  <1>5. FlashIsSound(flash', bad', wrapAddr', sent', recorder')
    BY <1>4, Zenon DEF FlashIsSound, InOrder, Whole
  <1>6. QueueIsSound(queue', flash', bad', sent')
    BY <1>3 DEF QueueIsSound
  <1>7. ASSUME faults' \subseteq Lossless
        PROVE  /\ NoneLost(queue', flash', bad', wrapAddr', sent', "erase" \in faults')
               /\ machState' = "IDLE" => queue' = <<>>
               /\ logErase' = 1 => "erase" \in faults'
    <2>1. AllKept /\ logErase = 1
      BY <1>1, <1>2, <1>3, <1>7 DEF OrderIInv, FlagsAgree
    <2>2. "erase" \in faults'
      BY <1>2, <2>1, Zenon DEF AllKept
    <2>3. \A k \in 1 .. Len(queue') : FALSE
      BY <1>3
    <2>4. NoneLost(queue', flash', bad', wrapAddr', sent', "erase" \in faults')
      BY <1>4, <2>2, <2>3, Zenon DEF NoneLost
    <2>. QED  BY <1>3, <2>2, <2>4, Zenon
  <1>. QED  BY <1>5, <1>6, <1>7, OrderNext, Zenon

\* CMD_EVR_PACKET: the newest packet goes behind the others.
LEMMA OrderReceive ==
  ASSUME LogIInv, OrderIInv, ReceivePacket \/ ReceiveGarbage, faults \subseteq faults'
  PROVE  OrderIInv'
  <1>1. FlashTypes /\ LogTypes
    BY IInvParts
  <1>2. PICK n \in 0 .. MAX_PACKETS : n = sent
    BY <1>1, Zenon DEF FlashTypes
  <1>3. PICK q \in QueueValues, m \in 0 .. MAX_PACKETS :
          /\ \E kinds : Receive(q, kinds)
          /\ sent' = m
          /\ \/ q \in Packets /\ q = n + 1 /\ m = n + 1
             \/ q \notin Packets /\ m = n
    <2>1. CASE ReceivePacket
      <3>1. n < MAX_PACKETS /\ sent' = n + 1 /\ Receive(sent', {})
        BY <1>2, <2>1 DEF ReceivePacket
      <3>2. PICK m : m = n + 1
        OBVIOUS
      <3>3. m \in Packets /\ m \in 0 .. MAX_PACKETS
        BY <3>1, <3>2, PacketNumbers
      <3>4. Receive(m, {}) /\ sent' = m
        BY <3>1, <3>2
      <3>5. m \in QueueValues
        BY <3>3, Zenon DEF QueueValues
      <3>. QED  BY <3>2, <3>3, <3>4, <3>5, Zenon
    <2>2. CASE ReceiveGarbage
      <3>1. Receive(GARBAGE, {"bad packet"}) /\ sent' = n
        BY <1>2, <2>2, Zenon DEF ReceiveGarbage
      <3>2. GARBAGE \in QueueValues /\ GARBAGE \notin Packets
        BY PacketNumbers, Zenon DEF QueueValues
      <3>. QED  BY <3>1, <3>2, Zenon
    <2>. QED  BY <2>1, <2>2
  <1>4. /\ queue' = IF Len(queue) < Slots - 1 THEN Append(queue, q) ELSE <<>>
        /\ UNCHANGED <<flash, bad, wrapAddr, recorder, machState, logErase>>
    BY <1>3, Zenon DEF Receive
  <1>5. /\ machState = "IDLE" => ~(faults' \subseteq Lossless)
        /\ Len(queue) = Slots - 1 => ~(faults' \subseteq Lossless)
    <2>1. /\ machState = "IDLE" => "early packet" \in faults'
          /\ Len(queue) = Slots - 1 => "overflow" \in faults'
      BY <1>3, Zenon DEF Receive, Happen
    <2>. QED  BY <2>1, Loses, Zenon
  <1>6. queue \in Seq(QueueValues) /\ Len(queue) \in Nat /\ Len(queue) < Slots /\ Slots \in Nat
    <2>1. queue \in Seq(QueueValues) /\ Len(queue) < Slots
      BY <1>1, Zenon DEF LogTypes
    <2>. QED  BY <2>1, LenProperties, Geometry DEF Numbers
  <1>7. FlashIsSound(flash', bad', wrapAddr', sent', recorder')
    <2>1. /\ InOrder(flash, bad, wrapAddr) /\ Whole(flash, bad, recorder)
          /\ \A c \in Cells : Shows(flash, bad, c) => flash[c] <= n
      BY <1>2, Zenon DEF OrderIInv, FlashIsSound
    <2>2. \A c \in Cells : Shows(flash, bad, c) => flash[c] <= m
      BY <1>3, <2>1, PacketNumbers DEF Shows
    <2>. QED  BY <1>3, <1>4, <2>1, <2>2, Zenon DEF FlashIsSound
  <1>8. QueueIsSound(queue, flash, bad, n) /\ \A c \in Cells : Shows(flash, bad, c) => flash[c] <= n
    BY <1>2, Zenon DEF OrderIInv, FlashIsSound
  \* The queue with the packet behind it.
  <1>9. CASE Len(queue) < Slots - 1
    <2>1. /\ Len(queue') = Len(queue) + 1 /\ queue'[Len(queue) + 1] = q
          /\ \A k \in 1 .. Len(queue) : queue'[k] = queue[k]
      BY <1>4, <1>6, <1>9, AppendProperties
    <2>2. \A k \in 1 .. Len(queue') : k \in 1 .. Len(queue) \/ k = Len(queue) + 1
      BY <1>6, <2>1
    <2>3. \A k \in 1 .. Len(queue) : k \in 1 .. Len(queue') /\ k < Len(queue) + 1
      BY <1>6, <2>1
    <2>4. q \in Packets => /\ q <= m /\ OlderThan(flash, bad, q)
                           /\ \A k \in 1 .. Len(queue) :
                                 queue[k] \in Packets => queue[k] < q
      <3>1. ASSUME q \in Packets
            PROVE  /\ q <= m /\ OlderThan(flash, bad, q)
                   /\ \A k \in 1 .. Len(queue) : queue[k] \in Packets => queue[k] < q
        <4>1. q = n + 1 /\ m = n + 1
          BY <1>3, <3>1
        <4>. QED  BY <1>8, <4>1, PacketNumbers DEF OlderThan, Shows, QueueIsSound
      <3>. QED  BY <3>1
    <2>5. QueueIsSound(queue', flash, bad, m)
      <3>1. ASSUME NEW k \in 1 .. Len(queue'), queue'[k] \in Packets
            PROVE  queue'[k] <= m /\ OlderThan(flash, bad, queue'[k])
        <4>1. CASE k \in 1 .. Len(queue)
          <5>1. queue'[k] <= n /\ OlderThan(flash, bad, queue'[k])
            BY <1>8, <2>1, <3>1, <4>1 DEF QueueIsSound
          <5>. QED  BY <1>3, <3>1, <5>1, PacketNumbers
        <4>2. CASE k = Len(queue) + 1
          BY <2>1, <2>4, <3>1, <4>2
        <4>. QED  BY <2>2, <4>1, <4>2
      <3>2. ASSUME NEW i \in 1 .. Len(queue'), NEW j \in 1 .. Len(queue'), i < j,
                   queue'[i] \in Packets, queue'[j] \in Packets
            PROVE  queue'[i] < queue'[j]
        <4>1. i \in 1 .. Len(queue)
          BY <1>6, <2>1, <3>2
        <4>2. CASE j \in 1 .. Len(queue)
          BY <1>8, <2>1, <3>2, <4>1, <4>2 DEF QueueIsSound
        <4>3. CASE j = Len(queue) + 1
          BY <2>1, <2>4, <3>2, <4>1, <4>3
        <4>. QED  BY <2>2, <4>2, <4>3
      <3>. QED  BY <3>1, <3>2 DEF QueueIsSound
    <2>6. ASSUME faults' \subseteq Lossless
          PROVE  /\ NoneLost(queue', flash', bad', wrapAddr', sent', "erase" \in faults')
                 /\ machState' = "IDLE" => queue' = <<>>
                 /\ logErase' = 1 => "erase" \in faults'
      <3>1. AllKept
        BY <2>6 DEF OrderIInv
      <3>2. machState # "IDLE"
        BY <1>5, <2>6
      <3>3. NoneLost(queue, flash, bad, wrapAddr, n, "erase" \in faults)
        BY <1>2, <3>1, Zenon DEF AllKept
      <3>4. \A p : Waits(queue, p) => Waits(queue', p)
        BY <2>1, <2>3 DEF Waits
      <3>5. ASSUME NEW p \in 1 .. m, ~(p \in 1 .. n) PROVE Waits(queue', p)
        <4>1. p = q
          BY <1>3, <3>5
        <4>2. Len(queue) + 1 \in 1 .. Len(queue')
          BY <1>6, <2>1
        <4>. QED  BY <2>1, <4>1, <4>2 DEF Waits
      <3>6. ASSUME NEW p \in 1 .. m
            PROVE  \/ Waits(queue', p)
                   \/ IsIn(flash, bad, p)
                   \/ /\ wrapAddr # 0 \/ "erase" \in faults'
                      /\ \A c \in Cells : Shows(flash, bad, c) => flash[c] > p
        <4>1. "erase" \in faults => "erase" \in faults'
          OBVIOUS
        <4>. QED  BY <3>3, <3>4, <3>5, <4>1, Zenon DEF NoneLost
      <3>7. ASSUME NEW p \in 1 .. m, NEW k \in 1 .. Len(queue'),
                   queue'[k] \in Packets, queue'[k] < p
            PROVE  Waits(queue', p)
        <4>1. CASE p \in 1 .. n /\ k \in 1 .. Len(queue)
          <5>1. Waits(queue, p)
            BY <2>1, <3>3, <3>7, <4>1 DEF NoneLost
          <5>. QED  BY <3>4, <5>1
        <4>2. CASE k = Len(queue) + 1
          <5>1. p <= m /\ p \in Nat /\ q < p /\ q = m
            BY <1>3, <2>1, <3>7, <4>2
          <5>. QED  BY <5>1
        <4>. QED  BY <2>2, <3>5, <4>1, <4>2
      <3>. QED  BY <1>3, <1>4, <3>1, <3>2, <3>6, <3>7, <2>6, Zenon DEF NoneLost, AllKept
    <2>. QED  BY <1>3, <1>4, <1>7, <2>5, <2>6, OrderNext, Zenon
  \* The packet that would fill the queue empties it.
  <1>10. CASE ~(Len(queue) < Slots - 1)
    <2>1. Len(queue) = Slots - 1 /\ queue' = <<>>
      BY <1>4, <1>6, <1>10
    <2>2. ~(faults' \subseteq Lossless)
      BY <1>5, <2>1
    <2>3. QueueIsSound(queue', flash', bad', sent')
      BY <2>1 DEF QueueIsSound
    <2>. QED  BY <1>7, <2>2, <2>3, OrderNext, Zenon
  <1>. QED  BY <1>9, <1>10

-----------------------------------------------------------------------------
(* The whole machine.                                                      *)

LEMMA OrderInit == ASSUME Init PROVE OrderIInv
  <1>1. /\ \A c \in Cells : flash[c] = ERASED
        /\ sent = 0 /\ queue = <<>> /\ logErase = 3
    BY DEF Init
  <1>2. \A c \in Cells : ~Shows(flash, bad, c)
    BY <1>1, PacketNumbers DEF Shows
  <1>3. FlashIsSound(flash, bad, wrapAddr, sent, recorder)
    BY <1>2, Zenon DEF FlashIsSound, InOrder, Whole
  <1>4. QueueIsSound(queue, flash, bad, sent)
    BY <1>1 DEF QueueIsSound
  <1>5. AllKept
    <2>1. \A p \in 1 .. sent : FALSE
      BY <1>1
    <2>. QED  BY <1>1, <2>1 DEF AllKept, NoneLost
  <1>. QED  BY <1>3, <1>4, <1>5, Zenon DEF OrderIInv

LEMMA OrderStep ==
  ASSUME LogIInv, OrderIInv, Next, faults' \subseteq Harmless
  PROVE  OrderIInv'
  <1>1. FlashTypes /\ FlagsAgree
    BY IInvParts
  <1>2. faults \subseteq UNION Faults
    BY <1>1, Zenon DEF FlashTypes
  <1>3. faults \subseteq faults'
    BY <1>2, FaultsStay, Zenon
  <1>4. CASE LogMachine
    <2>1. UNCHANGED <<recorder, sent>>
      BY <1>4, Zenon DEF LogMachine
    <2>2. CASE Run
      BY <2>1, <2>2, OrderRun, Zenon
    <2>3. CASE Idle
      BY <2>1, <2>3, OrderIdle, Zenon
    <2>4. CASE Erase
      BY <2>1, <2>4, OrderErase, Zenon
    <2>5. CASE RunErase \/ RunNothing \/ Confirm
      <3>1. UNCHANGED <<flash, bad, wrapAddr, queue, sent, recorder, logErase>>
        BY <2>1, <2>5, Zenon DEF RunErase, RunNothing, Confirm, infoVars
      <3>2. machState' # "IDLE" \/ machState' = machState
        BY <2>5, Zenon DEF RunErase, RunNothing, Confirm, infoVars
      <3>. QED  BY <1>3, <3>1, <3>2, OrderKept, Zenon
    <2>6. CASE WriteFail
      BY <1>1, <2>6, Zenon DEF WriteFail, FlagsAgree
    <2>. QED  BY <1>4, <2>2, <2>3, <2>4, <2>5, <2>6, Zenon DEF LogMachine
  <1>5. CASE ReceivePacket \/ ReceiveGarbage
    BY <1>3, <1>5, OrderReceive, Zenon
  <1>6. CASE EraseFlash
    <2>1. UNCHANGED <<flash, bad, wrapAddr, queue, sent, recorder, machState>>
      BY <1>6, Zenon DEF EraseFlash
    <2>2. "erase" \in faults'
      <3>1. EraseFault \in faults'
        BY <1>6, Zenon DEF EraseFlash, Happen
      <3>2. EraseFault = "erase" \/ EraseFault = "erase with last block"
        BY Zenon DEF EraseFault
      <3>. QED  BY <3>1, <3>2, Loses, Zenon
    <2>. QED  BY <1>3, <2>1, <2>2, OrderKept, Zenon
  <1>7. CASE PowerFails \/ PowerFailsInside
    BY <1>2, <1>7, PowerHarms, Zenon
  <1>. QED  BY <1>4, <1>5, <1>6, <1>7, Zenon DEF Next

OrderInv == LogInv /\ (faults \subseteq Harmless => OrderIInv)

LEMMA OrderInvHolds == Spec => []OrderInv
  <1>1. Init => (faults \subseteq Harmless => OrderIInv)
    BY OrderInit
  <1>2. LogInv /\ (faults \subseteq Harmless => OrderIInv) /\ [Next]_vars
          => (faults \subseteq Harmless => OrderIInv)'
    <2>1. ASSUME LogInv, faults \subseteq Harmless => OrderIInv, Next,
                 faults' \subseteq Harmless
          PROVE  OrderIInv'
      <3>1. faults \subseteq faults'
        BY <2>1, FaultsStay, Zenon DEF LogInv
      <3>2. faults \subseteq Harmless
        BY <2>1, <3>1, Zenon
      <3>. QED  BY <2>1, <3>2, OrderStep, Zenon DEF LogInv
    <2>2. ASSUME faults \subseteq Harmless => OrderIInv, UNCHANGED vars,
                 faults' \subseteq Harmless
          PROVE  OrderIInv'
      <3>1. /\ UNCHANGED <<flash, bad, wrapAddr, queue, sent, recorder>>
            /\ faults' = faults /\ machState' = machState /\ logErase' = logErase
        BY <2>2 DEF vars
      <3>2. faults \subseteq faults' /\ faults \subseteq Harmless
        BY <2>2, <3>1, Zenon
      <3>. QED  BY <2>2, <3>1, <3>2, OrderKept, Zenon
    <2>. QED  BY <2>1, <2>2
  <1>. QED  BY <1>1, <1>2, LogInvHolds, PTL DEF Spec, OrderInv

\* The next place lies behind the last.
LEMMA PlaceGrows ==
  ASSUME LogIInv
  PROVE  address <= Position /\ address \in Nat /\ Position \in Int
  <1>1. /\ PAGE \in Nat \ {0} /\ BLOCK \in Nat \ {0} /\ DEVICE \in Nat
        /\ packetSize \in 1 .. PAGE /\ address \in BLOCK .. DEVICE
    BY IInvParts, Geometry, BlockSums DEF FlashTypes, LogTypes, Numbers
  <1>2. PICK next \in Nat : next = address + packetSize /\ address <= next
    BY <1>1
  <1>3. PICK q \in Nat : q = next \div PAGE
    BY <1>1, Division
  <1>4. next <= (q + 1) * PAGE /\ (q + 1) * PAGE \in Nat
    <2>1. PICK x \in Nat : x = q * PAGE
      BY <1>1
    <2>2. (q + 1) * PAGE = x + PAGE
      BY <1>1, <2>1
    <2>3. PICK r \in 0 .. PAGE - 1 : r = next % PAGE
      BY <1>1, Division
    <2>4. next = (next \div PAGE) * PAGE + (next % PAGE)
      BY <1>1, Division
    <2>5. next = x + r
      BY <1>3, <2>1, <2>3, <2>4
    <2>. QED  BY <1>1, <2>2, <2>3, <2>5
  <1>5. /\ LogIncrementAddress(address) = next
           \/ LogIncrementAddress(address) = (q + 1) * PAGE
    BY <1>2, <1>3, Zenon DEF LogIncrementAddress
  <1>. HIDE DEF LogIncrementAddress
  <1>6. address <= LogIncrementAddress(address) /\ LogIncrementAddress(address) \in Nat
    <2>1. PICK y \in Nat : y = (q + 1) * PAGE
      BY <1>4
    <2>. QED  BY <1>1, <1>2, <1>4, <1>5, <2>1
  <1>. QED  BY <1>1, <1>6 DEF Position

\* What the wrap has left standing is what lies behind the wrap address.
LEMMA LeftIsBehind ==
  ASSUME LogIInv, NEW c \in Cells
  PROVE  LeftByWrap(c) <=> Behind(wrapAddr, c)
  <1>1. address <= Position /\ address \in Nat /\ Position \in Int
    BY PlaceGrows
  <1>2. CASE wrapAddr = 0
    <2>1. address >= BLOCK /\ BLOCK \in Nat \ {0}
      BY IInvParts, Geometry, BlockSums DEF LogTypes, Numbers
    <2>. QED  BY <1>1, <1>2, <2>1 DEF LeftByWrap, Behind
  <1>3. CASE wrapAddr # 0
    <2>1. PICK b \in LogBlocks : wrapAddr = (b + 1) * BLOCK /\ Position <= wrapAddr
      BY <1>3, IInvParts DEF PlaceIsGood, ErasedToWrap
    <2>2. wrapAddr \in Nat
      BY <2>1, BlockSums, Geometry DEF Numbers
    <2>3. address <= wrapAddr
      BY <1>1, <2>1, <2>2
    <2>. QED  BY <1>3, <2>3 DEF LeftByWrap, Behind
  <1>. QED  BY <1>2, <1>3

LEMMA OrderFollows ==
  ASSUME LogIInv, OrderIInv
  PROVE  LogInOrder
  <1>1. InOrder(flash, bad, wrapAddr)
    BY Zenon DEF OrderIInv, FlashIsSound
  <1>2. ASSUME NEW c \in Readable, NEW d \in Readable, ReadBefore(c, d)
        PROVE  flash[c] <= flash[d]
    <2>1. /\ c \in Cells /\ d \in Cells
          /\ Shows(flash, bad, c) /\ Shows(flash, bad, d)
      BY DEF Readable, Shows
    <2>2. Earlier(wrapAddr, c, d)
      BY <1>2, <2>1, LeftIsBehind, Zenon DEF ReadBefore, Earlier
    <2>. QED  BY <1>1, <2>1, <2>2 DEF InOrder
  <1>3. \A c \in FirstIn(Readable) : c \in Readable
    BY DEF FirstIn
  <1>. QED  BY <1>2, <1>3 DEF LogInOrder

LEMMA WholeFollows ==
  ASSUME LogIInv, OrderIInv
  PROVE  PacketsWhole
  <1>1. Whole(flash, bad, recorder)
    BY Zenon DEF OrderIInv, FlashIsSound
  <1>2. recorder \in 1 .. PAGE /\ PAGE \in Nat
    BY IInvParts, Geometry DEF FlashTypes, Numbers
  <1>3. ASSUME NEW c \in FirstIn(Readable)
        PROVE  {d \in Readable : flash[d] = flash[c]} = c .. c + recorder - 1
    <2>1. /\ c \in Cells /\ Shows(flash, bad, c) /\ c \in Readable
          /\ c - 1 \in Readable => flash[c - 1] # flash[c]
      BY <1>3 DEF FirstIn, Readable, Shows
    <2>2. PICK b \in LogBlocks, a \in Nat :
            InBlock(a, b, recorder) /\ IsAt(flash, bad, flash[c], a, recorder)
      BY <1>1, <2>1, Zenon DEF Whole
    <2>3. \A d \in a .. a + recorder - 1 : d \in Cells
      BY <1>2, <2>2, PlaceCells
    <2>4. \A d : d \in {x \in Readable : flash[x] = flash[c]}
                 <=> d \in a .. a + recorder - 1
      BY <2>2, <2>3, Zenon DEF IsAt, Readable, Shows
    <2>5. {x \in Readable : flash[x] = flash[c]} = a .. a + recorder - 1
      BY <2>4
    <2>6. c = a
      <3>1. c \in a .. a + recorder - 1
        BY <2>1, <2>4
      <3>2. c - 1 \notin a .. a + recorder - 1
        BY <2>1, <2>4
      <3>. QED  BY <1>2, <3>1, <3>2
    <2>. QED  BY <2>5, <2>6
  <1>. QED  BY <1>3, Zenon DEF PacketsWhole

LEMMA KeptFollows ==
  ASSUME LogIInv, OrderIInv, faults \subseteq Lossless
  PROVE  PacketsKept
  <1>1. NoneLost(queue, flash, bad, wrapAddr, sent, "erase" \in faults)
    BY Zenon DEF OrderIInv, AllKept
  <1>2. \A c : c \in Readable <=> c \in Cells /\ Shows(flash, bad, c)
    BY Zenon DEF Readable, Shows
  <1>3. ASSUME NEW p \in 1 .. sent
        PROVE  \/ \E k \in 1 .. Len(queue) : queue[k] = p
               \/ \E c \in Readable : flash[c] = p
               \/ GivenUp(p)
    <2>1. \/ Waits(queue, p)
          \/ IsIn(flash, bad, p)
          \/ /\ wrapAddr # 0 \/ "erase" \in faults
             /\ \A c \in Cells : Shows(flash, bad, c) => flash[c] > p
      BY <1>1, Zenon DEF NoneLost
    <2>. QED  BY <1>2, <2>1, Zenon DEF Waits, IsIn, GivenUp
  <1>. QED  BY <1>3, Zenon DEF PacketsKept

-----------------------------------------------------------------------------
(* The queue is emptied before logReady goes down.                         *)

\* The faults that leave logReady to LOG_RUN_STATE.
Prompt == {"bad block", "erase"}

QueueMovesOn ==
    /\ \A k \in 1 .. Len(queue) : queue[k] # GARBAGE
    /\ ~logReady \/ machState = "IDLE" => queue = <<>>

QueueInv == faults \subseteq Prompt => QueueMovesOn

LEMMA QueueStep ==
  ASSUME LogIInv, QueueMovesOn, Next, faults' \subseteq Prompt
  PROVE  QueueMovesOn'
  <1>1. LogTypes /\ FlashTypes /\ FlagsAgree
    BY IInvParts
  <1>2. /\ faults' \subseteq Harmless /\ "early packet" \notin faults'
        /\ "bad packet" \notin faults' /\ faults \subseteq UNION Faults
    BY <1>1, Zenon DEF Prompt, Harmless, FlashTypes
  <1>3. queue \in Seq(QueueValues)
    BY <1>1, Zenon DEF LogTypes
  <1>4. CASE LogMachine
    <2>1. CASE Run
      <3>1. PICK cells, a : Stored(cells, a)
        BY <1>2, <1>4, <2>1, RunOutcome, Zenon DEF LogMachine
      <3>2. machState = "RUN" /\ (queue # <<>> => Head(queue) # GARBAGE)
        <4>1. queue # <<>> => Head(queue) = queue[1] /\ 1 \in 1 .. Len(queue)
          BY <1>3, TailPackets
        <4>. QED  BY <2>1, <4>1, Zenon DEF Run, QueueMovesOn
      <3>3. CASE queue' = queue /\ queue = <<>>
        BY <3>3 DEF QueueMovesOn
      <3>4. CASE queue # <<>> /\ queue' = Tail(queue) /\ logReady' = TRUE
                 /\ machState' = "CONFIRM"
        <4>1. ASSUME NEW k \in 1 .. Len(queue') PROVE queue'[k] # GARBAGE
          <5>1. k + 1 \in 1 .. Len(queue) /\ queue'[k] = queue[k + 1]
            BY <1>3, <3>4, TailPackets
          <5>. QED  BY <5>1 DEF QueueMovesOn
        <4>. QED  BY <3>4, <4>1 DEF QueueMovesOn
      <3>. QED  BY <3>1, <3>2, <3>3, <3>4, Zenon DEF Stored
    <2>2. CASE Idle
      <3>1. queue' = queue /\ queue = <<>>
        BY <2>2, Zenon DEF Idle, QueueMovesOn
      <3>. QED  BY <3>1 DEF QueueMovesOn
    <2>3. CASE RunErase \/ RunNothing \/ Confirm
      <3>1. queue' = queue /\ logReady' = logReady /\ machState' # "IDLE"
        BY <2>3 DEF RunErase, RunNothing, Confirm, infoVars
      <3>. QED  BY <3>1, Zenon DEF QueueMovesOn
    <2>4. CASE WriteFail
      BY <1>1, <2>4 DEF WriteFail, FlagsAgree
    <2>5. CASE Erase
      <3>1. queue' = <<>>
        BY <2>5 DEF Erase, InitLog
      <3>. QED  BY <3>1 DEF QueueMovesOn
    <2>. QED  BY <1>4, <2>1, <2>2, <2>3, <2>4, <2>5, Zenon DEF LogMachine
  <1>5. CASE ReceivePacket
    <2>1. PICK n \in Nat : sent' = n + 1 /\ Receive(n + 1, {})
      BY <1>1, <1>5, PacketNumbers DEF ReceivePacket, FlashTypes
    <2>2. logReady' = TRUE /\ machState' = machState /\ machState # "IDLE"
      BY <1>2, <2>1, Zenon DEF Receive, Happen
    <2>3. CASE queue' = Append(queue, n + 1)
      <3>1. /\ Len(queue') = Len(queue) + 1 /\ queue'[Len(queue) + 1] = n + 1
            /\ \A k \in 1 .. Len(queue) : queue'[k] = queue[k]
            /\ Len(queue) \in Nat
        BY <1>3, <2>3, AppendProperties, LenProperties
      <3>2. \A k \in 1 .. Len(queue') : queue'[k] # GARBAGE
        BY <3>1 DEF QueueMovesOn, GARBAGE
      <3>. QED  BY <2>2, <3>2 DEF QueueMovesOn
    <2>4. CASE queue' = <<>>
      BY <2>4 DEF QueueMovesOn
    <2>. QED  BY <2>1, <2>3, <2>4, Zenon DEF Receive
  <1>6. CASE ReceiveGarbage
    BY <1>2, <1>6, Zenon DEF ReceiveGarbage, Receive, Happen
  <1>7. CASE EraseFlash
    BY <1>7, Zenon DEF EraseFlash, QueueMovesOn
  <1>8. CASE PowerFails \/ PowerFailsInside
    BY <1>2, <1>8, PowerHarms, Zenon
  <1>. QED  BY <1>4, <1>5, <1>6, <1>7, <1>8, Zenon DEF Next

LEMMA QueueInvHolds == Spec => []QueueInv
  <1>1. Init => QueueInv
    BY DEF Init, QueueInv, QueueMovesOn
  <1>2. LogInv /\ QueueInv /\ [Next]_vars => QueueInv'
    <2>1. ASSUME LogInv, QueueInv, Next, faults' \subseteq Prompt
          PROVE  QueueMovesOn'
      <3>1. faults \subseteq faults'
        BY <2>1, FaultsStay, Zenon DEF LogInv
      <3>2. faults \subseteq Prompt /\ faults \subseteq Harmless
        BY <2>1, <3>1, Zenon DEF Prompt, Harmless
      <3>. QED  BY <2>1, <3>2, QueueStep, Zenon DEF LogInv, QueueInv
    <2>2. ASSUME QueueInv, UNCHANGED vars PROVE QueueInv'
      BY <2>2 DEF vars, QueueInv, QueueMovesOn
    <2>. QED  BY <2>1, <2>2, Zenon DEF QueueInv
  <1>. QED  BY <1>1, <1>2, LogInvHolds, PTL DEF Spec

-----------------------------------------------------------------------------
(* The addresses, and the end of the device.                               *)

\* A packet that is being written has its place.
PlaceIsTaken ==
    machState = "CONFIRM" =>
        \E b \in LogBlocks :
            InBlock(address, b, recorder) /\ (wrapAddr # 0 => wrapAddr = (b + 1) * BLOCK)

LEMMA WrapNumbers ==
  ASSUME LogIInv
  PROVE  /\ wrapAddr \in Nat /\ address \in Nat /\ BLOCK \in Nat \ {0} /\ BLOCK <= address
         /\ \A b \in LogBlocks : (b + 1) * BLOCK \in Nat /\ (b + 1) * BLOCK # 0
  <1>1. /\ address \in BLOCK .. DEVICE /\ BLOCK \in Nat \ {0} /\ DEVICE \in Nat
        /\ LAST_BLOCK \in Nat
        /\ wrapAddr \in {0} \cup {b * BLOCK : b \in 1 .. LAST_BLOCK + 1}
    BY IInvParts, Geometry, BlockSums DEF LogTypes, Numbers, WrapAddresses
  <1>2. wrapAddr \in Nat
    <2>1. CASE wrapAddr = 0
      BY <2>1
    <2>2. CASE wrapAddr # 0
      <3>1. PICK b \in 1 .. LAST_BLOCK + 1 : wrapAddr = b * BLOCK
        BY <1>1, <2>2, Zenon
      <3>2. b \in Nat
        BY <1>1
      <3>. QED  BY <1>1, <3>1, <3>2
    <2>. QED  BY <2>1, <2>2
  <1>3. ASSUME NEW b \in LogBlocks PROVE (b + 1) * BLOCK \in Nat /\ (b + 1) * BLOCK # 0
    <2>1. (b + 1) * BLOCK = b * BLOCK + BLOCK /\ b * BLOCK \in Nat
      BY BlockSums
    <2>. QED  BY <1>1, <2>1
  <1>. QED  BY <1>1, <1>2, <1>3

\* Induction, for a set of numbers.
LEMMA CountUp ==
  ASSUME NEW N \in Nat, NEW S, 0 \in S, \A n \in S : n < N => n + 1 \in S
  PROVE  \A n \in 0 .. N : n \in S
  <1>. DEFINE Out == {n \in 0 .. N : n \notin S}
  <1>1. SUFFICES ASSUME Out # {} PROVE FALSE
    BY Zenon
  <1>2. Out \subseteq Nat
    OBVIOUS
  <1>3. PICK m : m = Min(Out)
    OBVIOUS
  <1>4. m \in Out /\ \A y \in Out : m <= y
    <2>. HIDE DEF Out
    <2>. QED  BY <1>1, <1>2, <1>3, LeastOf
  <1>5. m \in 0 .. N /\ m \notin S /\ m # 0
    BY <1>4
  <1>6. m - 1 \in 0 .. N /\ m - 1 < N /\ m - 1 + 1 = m /\ ~(m <= m - 1)
    BY <1>5
  <1>7. m - 1 \in S
    BY <1>4, <1>6
  <1>. QED  BY <1>5, <1>6, <1>7

\* The last of some numbers that are bounded.
LEMMA GreatestOf ==
  ASSUME NEW N \in Nat, NEW S, S \subseteq 0 .. N, S # {}
  PROVE  Max(S) \in S /\ \A y \in S : y <= Max(S)
  <1>. DEFINE Rest == {N - y : y \in S}
  <1>1. PICK m : m = Min(Rest)
    OBVIOUS
  <1>2. Rest \subseteq Nat /\ Rest # {}
    OBVIOUS
  <1>3. m \in Rest /\ \A z \in Rest : m <= z
    <2>. HIDE DEF Rest
    <2>. QED  BY <1>1, <1>2, LeastOf
  <1>4. PICK x \in S : m = N - x
    BY <1>3
  <1>5. ASSUME NEW y \in S PROVE x >= y
    <2>1. N - y \in Rest
      OBVIOUS
    <2>2. N - x <= N - y
      BY <1>3, <1>4, <2>1, Zenon
    <2>3. x \in 0 .. N /\ y \in 0 .. N
      OBVIOUS
    <2>. QED  BY <2>2, <2>3
  <1>6. \E z \in S : \A y \in S : z >= y
    BY <1>5
  <1>7. Max(S) \in S /\ \A y \in S : Max(S) >= y
    BY <1>6, Zenon DEF Max
  <1>8. \A y \in S : y \in Nat
    OBVIOUS
  <1>. QED  BY <1>7, <1>8

\* HandleBadBlock goes forward to a good block, and over bad ones only.
LEMMA GoodPlace ==
  ASSUME LogIInv, NEW a \in Nat, NEW at, at = HandleBadBlock(a, bad)
  PROVE  /\ at \in Nat /\ a <= at /\ BlockOf(at) \notin bad
         /\ \A c \in Cells : BlockOf(c) \notin bad /\ a <= c => at <= c
         /\ BlockOf(a) \notin bad => at = a
         /\ at = a \/ \E g \in LogBlocks : at = g * BLOCK
  <1>1. /\ BLOCK \in Nat \ {0} /\ LAST_BLOCK \in Nat \ {0}
        /\ bad \subseteq LogBlocks /\ LAST_BLOCK \notin bad
    BY IInvParts, Geometry DEF FlashTypes, FlagsAgree, Numbers
  <1>2. CASE BlockOf(a) \notin bad
    BY <1>2 DEF HandleBadBlock
  <1>3. CASE BlockOf(a) \in bad
    <2>1. PICK b \in LogBlocks : b = BlockOf(a)
      BY <1>1, <1>3
    <2>2. PICK to : to = Min({g \in b .. LAST_BLOCK + 1 : g \notin bad})
      OBVIOUS
    <2>3. at = BLOCK * to
      BY <1>3, <2>1, <2>2 DEF HandleBadBlock
    <2>4. to \in LogBlocks \ bad /\ b + 1 <= to
      BY <1>1, <1>3, <2>1, <2>2, NextGoodBlock
    <2>5. \A g \in b .. to - 1 : g \in bad
      BY <1>1, <2>2, SkippedAreBad
    <2>6. /\ b \in Nat /\ to \in Nat /\ to * BLOCK \in Nat /\ (b + 1) * BLOCK \in Nat
          /\ (to + 1) * BLOCK = to * BLOCK + BLOCK
      BY <1>1, <2>4, BlockSums
    <2>7. at = to * BLOCK
      BY <1>1, <2>3, <2>6
    <2>8. a < (b + 1) * BLOCK
      BY <2>1, BlockOfCell
    <2>9. (b + 1) * BLOCK <= to * BLOCK
      BY <1>1, <2>4, <2>6, Times
    <2>10. BlockOf(at) = to
      <3>1. PICK z \in Nat : z = to * BLOCK
        BY <2>6
      <3>. QED  BY <1>1, <2>6, <2>7, <3>1, CellOfBlock
    <2>11. ASSUME NEW c \in Cells, BlockOf(c) \notin bad, a <= c PROVE at <= c
      <3>1. PICK g \in LogBlocks : g = BlockOf(c) /\ c \in Nat
        BY CellFacts
      <3>2. g \in Nat /\ c < (g + 1) * BLOCK /\ b * BLOCK <= a
        BY <2>1, <3>1, BlockOfCell, BlockSums
      <3>3. ~(g < b)
        <4>1. SUFFICES ASSUME g < b PROVE FALSE
          OBVIOUS
        <4>2. (g + 1) * BLOCK <= b * BLOCK
          BY <1>1, <2>6, <3>2, <4>1, Times
        <4>3. PICK u \in Nat, v \in Nat : u = (g + 1) * BLOCK /\ v = b * BLOCK
          BY <1>1, <2>6, <3>2
        <4>. QED  BY <2>11, <3>1, <3>2, <4>2, <4>3
      <3>4. to <= g
        BY <2>5, <2>6, <2>11, <3>1, <3>2, <3>3
      <3>5. to * BLOCK <= c
        BY <2>6, <3>1, <3>4, BlockOrder
      <3>. QED  BY <2>7, <3>5
    <2>12. a <= at
      <3>1. PICK u \in Nat, v \in Nat : u = (b + 1) * BLOCK /\ v = to * BLOCK
        BY <2>6
      <3>. QED  BY <2>7, <2>8, <2>9, <3>1
    <2>. QED  BY <1>3, <2>4, <2>6, <2>7, <2>10, <2>11, <2>12
  <1>. QED  BY <1>2, <1>3

\* The end of the device: a page in the last block.
LEMMA EndOfDevice ==
  /\ RDU_LOG_ADDR_END \in Nat
  /\ \E e \in Nat : RDU_LOG_ADDR_END = e * PAGE
  /\ \A b \in LogBlocks : b * BLOCK < RDU_LOG_ADDR_END
  <1>1. /\ PAGE \in Nat \ {0} /\ BLOCK \in Nat \ {0} /\ LAST_BLOCK \in Nat \ {0}
        /\ PAGE < BLOCK
    BY LogMachineAssumption
  <1>2. PICK n \in Nat \ {0} : BLOCK = n * PAGE
    BY Geometry
  <1>3. PICK w \in Nat : w = LAST_BLOCK * BLOCK
    BY <1>1
  <1>4. DEVICE = w + BLOCK
    <2>1. (LAST_BLOCK + 1) * BLOCK = LAST_BLOCK * BLOCK + BLOCK
      BY <1>1
    <2>. QED  BY <1>3, <2>1 DEF DEVICE
  <1>5. PICK e \in Nat : e = LAST_BLOCK * n + (n - 1)
    BY <1>1, <1>2
  <1>6. RDU_LOG_ADDR_END = e * PAGE
    <2>1. PICK u \in Nat : u = LAST_BLOCK * n
      BY <1>1, <1>2
    <2>2. PICK v \in Nat : n = v + 1
      <3>1. n - 1 \in Nat /\ n = (n - 1) + 1
        BY <1>2
      <3>. QED  BY <3>1
    <2>3. u * PAGE = w
      <3>1. (LAST_BLOCK * n) * PAGE = LAST_BLOCK * (n * PAGE)
        BY <1>1, <1>2
      <3>. QED  BY <1>2, <1>3, <2>1, <3>1
    <2>4. e = u + v
      BY <1>5, <2>1, <2>2
    <2>5. (u + v) * PAGE = u * PAGE + v * PAGE /\ (v + 1) * PAGE = v * PAGE + PAGE
      BY <1>1
    <2>6. v * PAGE \in Nat
      BY <1>1
    <2>7. PICK d \in Nat : d = DEVICE /\ RDU_LOG_ADDR_END = d - PAGE
      BY <1>1, <1>3, <1>4 DEF RDU_LOG_ADDR_END
    <2>8. BLOCK = v * PAGE + PAGE
      BY <1>2, <2>2, <2>5
    <2>. QED  BY <1>1, <1>3, <1>4, <2>3, <2>4, <2>5, <2>6, <2>7, <2>8
  <1>7. RDU_LOG_ADDR_END \in Nat /\ w < RDU_LOG_ADDR_END
    BY <1>1, <1>3, <1>4 DEF RDU_LOG_ADDR_END
  <1>8. ASSUME NEW b \in LogBlocks PROVE b * BLOCK < RDU_LOG_ADDR_END
    <2>1. b \in Nat /\ b <= LAST_BLOCK
      BY <1>1 DEF LogBlocks
    <2>2. b * BLOCK <= LAST_BLOCK * BLOCK /\ b * BLOCK \in Nat
      BY <1>1, <2>1, Times
    <2>. QED  BY <1>3, <1>7, <2>2
  <1>. QED  BY <1>6, <1>7, <1>8

\* A place of a page.
IsPlace(a, size) ==
    \E q, k \in Nat : (k + 1) * size <= PAGE /\ a = q * PAGE + k * size

LEMMA PlaceOfPage ==
  ASSUME NEW b \in Nat, NEW size \in Nat, NEW a, InBlock(a, b, size)
  PROVE  IsPlace(a, size)
  <1>1. PICK j \in Nat, k \in Nat : /\ (k + 1) * size <= PAGE
                                   /\ a = b * BLOCK + j * PAGE + k * size
    BY DEF InBlock
  <1>2. PICK n \in Nat \ {0} : BLOCK = n * PAGE
    BY Geometry
  <1>3. PAGE \in Nat \ {0}
    BY Geometry DEF Numbers
  <1>4. PICK q \in Nat : q = b * n + j
    BY <1>2
  <1>5. q * PAGE = b * BLOCK + j * PAGE
    <2>1. PICK u \in Nat : u = b * n
      BY <1>2
    <2>2. (u + j) * PAGE = u * PAGE + j * PAGE
      BY <1>3
    <2>3. (b * n) * PAGE = b * (n * PAGE)
      BY <1>2, <1>3
    <2>. QED  BY <1>2, <1>4, <2>1, <2>2, <2>3
  <1>. QED  BY <1>1, <1>4, <1>5 DEF IsPlace

\* A place before it ends before it.
LEMMA PlaceBeforeEnd ==
  ASSUME NEW b \in LogBlocks, NEW size \in 1 .. PAGE, NEW a, InBlock(a, b, size),
         a < RDU_LOG_ADDR_END
  PROVE  a \in Nat /\ a + size <= RDU_LOG_ADDR_END
  <1>1. PAGE \in Nat \ {0} /\ size \in Nat \ {0} /\ b \in Nat
    BY BlockSums, Geometry DEF Numbers
  <1>2. PICK q \in Nat, k \in Nat : (k + 1) * size <= PAGE /\ a = q * PAGE + k * size
    <2>1. IsPlace(a, size)
      BY <1>1, PlaceOfPage
    <2>. QED  BY <2>1, Zenon DEF IsPlace
  <1>3. PICK e \in Nat : RDU_LOG_ADDR_END = e * PAGE
    BY EndOfDevice
  <1>4. PICK x \in Nat, y \in Nat, z \in Nat :
           x = q * PAGE /\ y = k * size /\ z = e * PAGE
    BY <1>1
  <1>5. (k + 1) * size = k * size + size
    BY <1>1
  <1>6. q < e
    <2>1. q * PAGE < e * PAGE
      BY <1>2, <1>3, <1>4
    <2>. QED  BY <1>1, <2>1, Cancel
  <1>7. (q + 1) * PAGE <= e * PAGE /\ (q + 1) * PAGE = q * PAGE + PAGE
    <2>1. q + 1 \in Nat /\ q + 1 <= e /\ (q + 1) * PAGE = q * PAGE + PAGE
      BY <1>1, <1>6
    <2>. QED  BY <1>1, <2>1, Times
  <1>. QED  BY <1>1, <1>2, <1>3, <1>4, <1>5, <1>7

\* No packet is in the last page of the device, where a reader of a wrapped log
\* stops.
NoneAtEnd == \A c \in Cells : Shows(flash, bad, c) => c < RDU_LOG_ADDR_END

\* The next packet goes before the last page of the device.
LEMMA RoomBeforeEnd ==
  ASSUME LogIInv, machState = "RUN", packetSize = recorder,
         NEW failing \in FailingErases, failing \subseteq LogManageAddresses(failing).tried,
         NEW m, m = LogManageAddresses(failing), NEW table, table = bad \cup failing
  PROVE  HandleBadBlock(m.address, table) < RDU_LOG_ADDR_END
  <1>1. \/ \E from, to \in LogBlocks : to \notin table /\ m.address = to * BLOCK
        \/ failing = {} /\ m.address = address /\ address < RDU_LOG_ADDR_END
    BY RunBlocks, Zenon
  <1>2. CASE \E from, to \in LogBlocks : to \notin table /\ m.address = to * BLOCK
    <2>1. PICK to \in LogBlocks : to \notin table /\ m.address = to * BLOCK
      BY <1>2
    <2>2. BlockOf(to * BLOCK) = to
      <3>1. /\ to \in Nat /\ to * BLOCK \in Nat /\ BLOCK \in Nat \ {0}
            /\ (to + 1) * BLOCK = to * BLOCK + BLOCK
        BY BlockSums, WrapNumbers
      <3>2. to * BLOCK <= to * BLOCK /\ to * BLOCK < (to + 1) * BLOCK
        BY <3>1
      <3>. QED  BY <3>1, <3>2, CellOfBlock
    <2>3. HandleBadBlock(m.address, table) = to * BLOCK
      BY <2>1, <2>2 DEF HandleBadBlock
    <2>. QED  BY <2>3, EndOfDevice
  <1>3. CASE failing = {} /\ m.address = address /\ address < RDU_LOG_ADDR_END
    <2>1. table = bad /\ address \in Nat
      BY <1>3, WrapNumbers
    <2>2. PICK at : at = HandleBadBlock(address, bad)
      OBVIOUS
    <2>3. at = address \/ \E g \in LogBlocks : at = g * BLOCK
      BY <2>1, <2>2, GoodPlace
    <2>4. at < RDU_LOG_ADDR_END
      BY <1>3, <2>3, EndOfDevice
    <2>. QED  BY <1>3, <2>1, <2>2, <2>4
  <1>. QED  BY <1>1, <1>2, <1>3

\* So none is in it.
LEMMA RunBeforeEnd ==
  ASSUME LogIInv, NoneAtEnd, Run, UNCHANGED <<recorder, sent>>,
         faults' \subseteq Harmless
  PROVE  NoneAtEnd'
  <1>1. machState = "RUN" /\ packetSize = recorder
    BY IInvParts, RunParts, Zenon DEF FlagsAgree
  <1>2. PICK failing \in FailingErases, b \in LogBlocks :
          LET m     == LogManageAddresses(failing)
              table == bad \cup failing
              cells == Wiped(flash, m.erases)
              a     == HandleBadBlock(m.address, table)
          IN  /\ failing \subseteq m.tried
              /\ InBlock(a, b, packetSize)
              /\ bad' = table
              /\ Stored(cells, a)
    BY RunOutcome, Zenon
  <1>3. PICK m : m = LogManageAddresses(failing)
    OBVIOUS
  <1>4. PICK table : table = bad \cup failing
    OBVIOUS
  <1>5. PICK cells : cells = Wiped(flash, m.erases)
    OBVIOUS
  <1>6. PICK a : a = HandleBadBlock(m.address, table)
    OBVIOUS
  <1>7. /\ InBlock(a, b, recorder) /\ bad' = table /\ Stored(cells, a)
        /\ failing \subseteq LogManageAddresses(failing).tried
    BY <1>1, <1>2, <1>3, <1>4, <1>5, <1>6, Zenon
  <1>8. recorder \in 1 .. PAGE
    BY IInvParts, LogMachineAssumption DEF FlashTypes
  <1>9. a \in Nat /\ a + recorder <= RDU_LOG_ADDR_END
    <2>1. a < RDU_LOG_ADDR_END
      BY <1>1, <1>3, <1>4, <1>6, <1>7, RoomBeforeEnd
    <2>. QED  BY <1>7, <1>8, <2>1, PlaceBeforeEnd
  <1>10. \A c \in Cells : Shows(cells, table, c) => Shows(flash, bad, c)
    BY <1>1, <1>3, <1>4, <1>5, <1>7, RunCells, Zenon
  <1>11. ASSUME NEW c \in Cells, Shows(flash', bad', c) PROVE c < RDU_LOG_ADDR_END
    <2>1. CASE Shows(cells, table, c)
      BY <1>10, <2>1 DEF NoneAtEnd
    <2>2. CASE ~Shows(cells, table, c)
      <3>1. flash' # cells
        BY <1>7, <1>11, <2>2, Zenon
      <3>2. flash' = Written(cells, a, packetSize, Head(queue))
        BY <1>7, <3>1, Zenon DEF Stored
      <3>3. flash'[c] = IF c \in a .. a + recorder - 1 THEN Head(queue) ELSE cells[c]
        BY <1>1, <3>2, Zenon DEF Written
      <3>4. c \in a .. a + recorder - 1
        BY <1>7, <1>11, <2>2, <3>3, Zenon DEF Shows
      <3>5. recorder \in Nat /\ RDU_LOG_ADDR_END \in Nat
        BY <1>8, EndOfDevice
      <3>. QED  BY <1>9, <3>4, <3>5
    <2>. QED  BY <2>1, <2>2
  <1>. QED  BY <1>11, Zenon DEF NoneAtEnd, Cells, Shows, BlockOf

-----------------------------------------------------------------------------
(* The theorems.                                                           *)

\* As long as power does not fail, no write is refused for nothing and no erase
\* comes into the traffic, a reader who follows LogData round the ring meets
\* the packets in the order they were sent in, and each of them whole and once:
\* however often the log has wrapped, and whatever blocks before the last have
\* turned bad, one after the other or several in a call, on a device that had no
\* bad block at first.
THEOREM SoundWhileHarmless == Spec => [](faults \subseteq Harmless => LogIsSound)
  <1>1. OrderInv => (faults \subseteq Harmless => LogIsSound)
    BY OrderFollows, WholeFollows, Zenon DEF OrderInv, LogInv, LogIsSound
  <1>. QED  BY <1>1, OrderInvHolds, PTL

\* Where only such faults come, the log is sound for good.
THEOREM LogStaysSound == UNION Faults \subseteq Harmless => (Spec => []LogIsSound)
  <1>. SUFFICES ASSUME UNION Faults \subseteq Harmless PROVE Spec => []LogIsSound
    OBVIOUS
  <1>1. OrderInv => LogIsSound
    <2>1. OrderInv => faults \subseteq Harmless
      BY Zenon DEF OrderInv, LogInv
    <2>. QED  BY <2>1, OrderFollows, WholeFollows, Zenon DEF OrderInv, LogInv, LogIsSound
  <1>. QED  BY <1>1, OrderInvHolds, PTL

\* No packet is lost on its way to the flash, and once there only to a newer
\* one or to an erase, and none is left in the queue for another one to come.
THEOREM NothingGetsLost == UNION Faults \subseteq Harmless => (Spec => []NothingMissing)
  <1>. SUFFICES ASSUME UNION Faults \subseteq Harmless PROVE Spec => []NothingMissing
    OBVIOUS
  <1>1. OrderInv => PacketsKept
    <2>1. OrderInv => faults \subseteq Harmless
      BY Zenon DEF OrderInv, LogInv
    <2>2. faults \subseteq Harmless /\ faults \subseteq {"bad block", "bad packet", "erase", "write"}
            => faults \subseteq Lossless
      BY Harms, Zenon DEF Lossless
    <2>3. ~(faults \subseteq {"bad block", "bad packet", "erase", "write"}) => PacketsKept
      BY Zenon DEF PacketsKept
    <2>. QED  BY <2>1, <2>2, <2>3, KeptFollows, Zenon DEF OrderInv, LogInv
  <1>2. LogInv /\ QueueInv => NoneLeftWaiting
    BY Zenon DEF QueueInv, QueueMovesOn, Prompt, NoneLeftWaiting
  <1>. QED  BY <1>1, <1>2, OrderInvHolds, QueueInvHolds, PTL DEF NothingMissing, OrderInv

=============================================================================
