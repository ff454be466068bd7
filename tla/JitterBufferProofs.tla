------------------------- MODULE JitterBufferProofs -------------------------
(***************************************************************************)
(* Proofs about JitterBuffer, for any size of the window below half of the *)
(* sequence numbers and any arrivals: what is queued is at its place in    *)
(* the window and counted, no slot is lost, and playout never goes back.   *)
(***************************************************************************)
EXTENDS JitterBuffer, FiniteSetTheorems, TLAPS

-----------------------------------------------------------------------------
(* Arithmetic of sequence numbers *)

\* What % gives within one modulus of the range 0 .. n - 1.
LEMMA ModFacts ==
  ASSUME NEW n \in Nat \ {0}, NEW x \in Int
  PROVE  /\ x % n \in 0 .. n - 1
         /\ 0 <= x /\ x < n => x % n = x
         /\ -n <= x /\ x < 0 => x % n = x + n
         /\ n <= x /\ x < 2 * n => x % n = x - n
<1>1. x % n \in 0 .. n - 1
  OBVIOUS
<1>2. 0 <= x /\ x < n => x % n = x
  OBVIOUS
<1>3. -n <= x /\ x < 0 => x % n = x + n
  OBVIOUS
<1>4. n <= x /\ x < 2 * n => x % n = x - n
  OBVIOUS
<1> QED BY <1>1, <1>2, <1>3, <1>4

\* The constants are sized as the assumption says.
LEMMA SizeFacts ==
  /\ SeqMod \in Nat \ {0} /\ MaxPackets \in Nat \ {0} /\ DelayPackets \in Nat \ {0}
  /\ DelayPackets <= MaxPackets /\ 2 * MaxPackets < SeqMod
BY ConstantsAssumption

\* Which integers are sequence numbers.
LEMMA SeqFacts ==
  \A x : x \in Seqs <=> x \in Int /\ 0 <= x /\ x < SeqMod
BY SizeFacts DEF Seqs

\* A sequence number has a place in the window (position).
LEMMA PositionType ==
  ASSUME NEW q \in Seqs
  PROVE  Position(q) \in Positions
<1>1. q \in Int
  BY SeqFacts
<1>2. q % MaxPackets \in 0 .. MaxPackets - 1
  BY <1>1, SizeFacts, ModFacts, Zenon
<1> QED BY <1>2 DEF Position, Positions

\* The signed distance is below half the range, and differs from the difference by a
\* round or by none.
LEMMA DistanceFacts ==
  ASSUME NEW x \in Seqs, NEW y \in Seqs
  PROVE  /\ Distance(x, y) \in Int
         /\ 2 * Distance(x, y) < SeqMod /\ -SeqMod <= 2 * Distance(x, y)
         /\ Distance(x, y) \in {x - y, x - y + SeqMod, x - y - SeqMod}
<1> DEFINE e == x - y
           d == e % SeqMod
<1>1. e \in Int /\ -SeqMod <= e /\ e < SeqMod
  BY SeqFacts, SizeFacts
<1>2. Distance(x, y) = IF 2 * d < SeqMod THEN d ELSE d - SeqMod
  BY DEF Distance
<1> HIDE DEF e
<1>3. /\ d \in 0 .. SeqMod - 1
      /\ 0 <= e /\ e < SeqMod => d = e
      /\ -SeqMod <= e /\ e < 0 => d = e + SeqMod
  BY <1>1, SizeFacts, ModFacts, Zenon
<1> HIDE DEF d
<1>4. d \in Int /\ 0 <= d /\ d < SeqMod /\ (d = e \/ d = e + SeqMod)
  BY <1>1, <1>3, SizeFacts
<1>5. SeqMod \in Int
  BY SizeFacts
<1> USE DEF e
<1> QED BY <1>1, <1>2, <1>4, <1>5

\* Only one number in that range is a round or none away: with it the distance is known.
LEMMA DistanceIs ==
  ASSUME NEW x \in Seqs, NEW y \in Seqs, NEW d \in Int,
         2 * d < SeqMod, -SeqMod <= 2 * d, d \in {x - y, x - y + SeqMod, x - y - SeqMod}
  PROVE  Distance(x, y) = d
<1> DEFINE e == Distance(x, y)
<1>1. /\ e \in Int /\ 2 * e < SeqMod /\ -SeqMod <= 2 * e
      /\ e \in {x - y, x - y + SeqMod, x - y - SeqMod}
  BY DistanceFacts, Zenon
<1>2. x \in Int /\ y \in Int /\ SeqMod \in Int /\ SeqMod > 0
  BY SeqFacts, SizeFacts
<1> HIDE DEF e
<1>3. e = d
  BY <1>1, <1>2
<1> QED BY <1>3 DEF e

\* The same for the addition of less than one round.
LEMMA AddFacts ==
  ASSUME NEW x \in Seqs, NEW n \in Int, -SeqMod < n, n < SeqMod
  PROVE  Add(x, n) \in Seqs /\ Add(x, n) \in {x + n, x + n + SeqMod, x + n - SeqMod}
<1> DEFINE e == x + n
           z == e % SeqMod
<1>1. e \in Int /\ -SeqMod <= e /\ e < 2 * SeqMod
  BY SeqFacts, SizeFacts
<1> HIDE DEF e
<1>2. /\ z \in 0 .. SeqMod - 1
      /\ 0 <= e /\ e < SeqMod => z = e
      /\ -SeqMod <= e /\ e < 0 => z = e + SeqMod
      /\ SeqMod <= e /\ e < 2 * SeqMod => z = e - SeqMod
  BY <1>1, SizeFacts, ModFacts, Zenon
<1> HIDE DEF z
<1>3. z \in Seqs /\ (z = e \/ z = e + SeqMod \/ z = e - SeqMod)
  BY <1>1, <1>2, SizeFacts DEF Seqs
<1>4. z = Add(x, n) /\ e = x + n /\ x \in Int /\ SeqMod \in Int
  BY SeqFacts, SizeFacts DEF Add, z, e
<1> QED BY <1>1, <1>3, <1>4

\* Only the number itself is at distance 0.
LEMMA DistanceZero ==
  ASSUME NEW x \in Seqs, NEW y \in Seqs
  PROVE  Distance(x, x) = 0 /\ (Distance(x, y) = 0 => x = y)
<1>1. /\ x \in Int /\ y \in Int /\ SeqMod \in Int /\ SeqMod > 0
      /\ 0 <= x /\ x < SeqMod /\ 0 <= y /\ y < SeqMod
  BY SeqFacts, SizeFacts
<1>2. Distance(x, x) = 0
  BY <1>1, DistanceIs
<1>3. Distance(x, y) \in {x - y, x - y + SeqMod, x - y - SeqMod}
  BY DistanceFacts, Zenon
<1> QED BY <1>1, <1>2, <1>3

\* A step forward of the window brings what is ahead of it nearer.
LEMMA ShiftForward ==
  ASSUME NEW x \in Seqs, NEW y \in Seqs, NEW k \in Nat, k <= Distance(x, y)
  PROVE  /\ Add(y, k) \in Seqs
         /\ Distance(x, Add(y, k)) = Distance(x, y) - k
         /\ Distance(Add(y, k), y) = k
         /\ k = Distance(x, y) => Add(y, k) = x
<1> DEFINE d == Distance(x, y)
           z == Add(y, k)
           m == d - k
<1>1. /\ d \in Int /\ 2 * d < SeqMod /\ d \in {x - y, x - y + SeqMod, x - y - SeqMod}
  BY DistanceFacts, Zenon
<1>2. x \in Int /\ y \in Int /\ SeqMod \in Int /\ SeqMod > 0
  BY SeqFacts, SizeFacts
<1> HIDE DEF d
<1>3. k <= d
  BY DEF d
<1>4. k \in Int /\ -SeqMod < k /\ k < SeqMod /\ 2 * k < SeqMod /\ -SeqMod <= 2 * k
  BY <1>1, <1>2, <1>3
<1>5. z \in Seqs /\ z \in {y + k, y + k + SeqMod, y + k - SeqMod}
  BY <1>4, AddFacts, Zenon
<1> HIDE DEF z
<1>6. z \in Int /\ 0 <= z /\ z < SeqMod /\ 0 <= x /\ x < SeqMod
  BY <1>5, SeqFacts
<1>7. /\ m \in Int /\ 2 * m < SeqMod /\ -SeqMod <= 2 * m
      /\ m \in {x - z, x - z + SeqMod, x - z - SeqMod}
  BY <1>1, <1>2, <1>3, <1>4, <1>5, <1>6
<1>8. k \in {z - y, z - y + SeqMod, z - y - SeqMod}
  BY <1>1, <1>2, <1>3, <1>4, <1>5, <1>6
<1>9. k = d => z = x
  BY <1>1, <1>2, <1>3, <1>4, <1>5, <1>6
<1> HIDE DEF m
<1>10. Distance(x, z) = m
  BY <1>5, <1>7, DistanceIs, Zenon
<1>11. Distance(z, y) = k
  BY <1>5, <1>4, <1>8, DistanceIs, Zenon
<1> QED BY <1>5, <1>9, <1>10, <1>11 DEF d, z, m

\* The window that ends at x starts k before it, after its old start.
LEMMA ShiftBack ==
  ASSUME NEW x \in Seqs, NEW y \in Seqs, NEW k \in Nat, k <= Distance(x, y)
  PROVE  /\ Add(x, -k) \in Seqs
         /\ Distance(Add(x, -k), y) = Distance(x, y) - k
         /\ Distance(x, Add(x, -k)) = k
<1> DEFINE d == Distance(x, y)
           j == -k
           z == Add(x, j)
           m == d - k
<1>1. /\ d \in Int /\ 2 * d < SeqMod /\ d \in {x - y, x - y + SeqMod, x - y - SeqMod}
  BY DistanceFacts, Zenon
<1>2. x \in Int /\ y \in Int /\ SeqMod \in Int /\ SeqMod > 0
  BY SeqFacts, SizeFacts
<1> HIDE DEF d
<1>3. k <= d
  BY DEF d
<1>4. k \in Int /\ 2 * k < SeqMod /\ -SeqMod <= 2 * k
  BY <1>1, <1>2, <1>3
<1>5. j \in Int /\ -SeqMod < j /\ j < SeqMod /\ x + j = x - k
  BY <1>2, <1>4
<1> HIDE DEF j
<1>6. z \in Seqs /\ z \in {x + j, x + j + SeqMod, x + j - SeqMod}
  BY <1>5, AddFacts, Zenon
<1> HIDE DEF z
<1>7. /\ z \in Int /\ 0 <= z /\ z < SeqMod
      /\ 0 <= x /\ x < SeqMod /\ 0 <= y /\ y < SeqMod
  BY <1>6, SeqFacts
<1>8. /\ m \in Int /\ 2 * m < SeqMod /\ -SeqMod <= 2 * m
      /\ m \in {z - y, z - y + SeqMod, z - y - SeqMod}
  BY <1>1, <1>2, <1>3, <1>4, <1>5, <1>6, <1>7
<1>9. k \in {x - z, x - z + SeqMod, x - z - SeqMod}
  BY <1>1, <1>2, <1>3, <1>4, <1>5, <1>6, <1>7
<1> HIDE DEF m
<1>10. Distance(z, y) = m
  BY <1>6, <1>8, DistanceIs, Zenon
<1>11. Distance(x, z) = k
  BY <1>6, <1>4, <1>9, DistanceIs, Zenon
<1> QED BY <1>6, <1>10, <1>11 DEF d, z, m, j


-----------------------------------------------------------------------------
(* The window: f is the function b.seq, e is b.expected. *)

Seats == [Positions -> Seqs \cup {Absent}]
QueuedIn(f) == {f[p] : p \in Positions} \ {Absent}
InWindow(f, e) ==
  \A p \in Positions : f[p] # Absent =>
     Position(f[p]) = p /\ Distance(f[p], e) \in 0 .. MaxPackets - 1

\* Absent is no sequence number.
LEMMA AbsentFacts == Absent \notin Seqs
BY SeqFacts DEF Absent

\* What is queued is finite, and no more than the window has places.
LEMMA QueuedFinite ==
  ASSUME NEW f \in Seats
  PROVE  IsFiniteSet(QueuedIn(f)) /\ Cardinality(QueuedIn(f)) \in 0 .. MaxPackets
<1> DEFINE T == {f[p] : p \in Positions}
<1>1. IsFiniteSet(Positions) /\ Cardinality(Positions) = MaxPackets
  <2>1. 0 \in Int /\ MaxPackets - 1 \in Int
    BY SizeFacts
  <2> QED BY <2>1, FS_Interval, SizeFacts DEF Positions
<1>2. f \in Surjection(Positions, T)
  BY DEF Seats, Surjection
<1>3. IsFiniteSet(T) /\ Cardinality(T) <= MaxPackets
  BY <1>1, <1>2, FS_Surjection
<1>4. QueuedIn(f) \in SUBSET T
  BY DEF QueuedIn
<1> HIDE DEF T
<1>5. IsFiniteSet(QueuedIn(f)) /\ Cardinality(QueuedIn(f)) <= Cardinality(T)
  BY <1>3, <1>4, FS_Subset
<1>6. Cardinality(QueuedIn(f)) \in Nat /\ Cardinality(T) \in Nat
  BY <1>3, <1>5, FS_CardinalityType
<1> QED BY <1>3, <1>5, <1>6, SizeFacts

\* Filing a packet at its free place.
LEMMA FileQueued ==
  ASSUME NEW f \in Seats, NEW e \in Seqs, NEW q \in Seqs, f[Position(q)] = Absent,
         InWindow(f, e), Distance(q, e) \in 0 .. MaxPackets - 1
  PROVE  LET g == [f EXCEPT ![Position(q)] = q] IN
         /\ g \in Seats /\ InWindow(g, e)
         /\ Cardinality(QueuedIn(g)) = Cardinality(QueuedIn(f)) + 1
<1> DEFINE k == Position(q)
           g == [f EXCEPT ![k] = q]
<1>1. k \in Positions
  BY PositionType
<1>2. q \notin QueuedIn(f)
  BY AbsentFacts DEF InWindow, QueuedIn
<1> HIDE DEF k
<1>3. g \in Seats /\ g[k] = q /\ \A p \in Positions \ {k} : g[p] = f[p]
  BY <1>1 DEF Seats
<1>4. f[k] = Absent /\ k = Position(q)
  BY DEF k
<1> HIDE DEF g
<1>5. InWindow(g, e)
  BY <1>3, <1>4 DEF InWindow
<1>6. QueuedIn(g) = QueuedIn(f) \cup {q}
  BY <1>1, <1>3, <1>4, AbsentFacts, Zenon DEF QueuedIn
<1>7. Cardinality(QueuedIn(g)) = Cardinality(QueuedIn(f)) + 1
  BY <1>2, <1>6, QueuedFinite, FS_AddElement, Zenon
<1> QED BY <1>3, <1>5, <1>7 DEF g, k

\* Taking out a set of queued packets.
LEMMA TakeQueued ==
  ASSUME NEW f \in Seats, NEW stale \in SUBSET QueuedIn(f), NEW g \in Seats,
         \A p \in Positions : g[p] = IF f[p] \in stale THEN Absent ELSE f[p]
  PROVE  /\ QueuedIn(g) = QueuedIn(f) \ stale
         /\ IsFiniteSet(stale)
         /\ Cardinality(stale) \in Nat
         /\ Cardinality(QueuedIn(g)) = Cardinality(QueuedIn(f)) - Cardinality(stale)
<1>1. QueuedIn(g) = QueuedIn(f) \ stale
  BY Zenon DEF QueuedIn
<1>2. QueuedIn(f) \cap stale = stale
  OBVIOUS
<1>3. IsFiniteSet(QueuedIn(f))
  BY QueuedFinite
<1>4. IsFiniteSet(stale) /\ Cardinality(stale) \in Nat
  BY <1>3, FS_Subset, FS_CardinalityType
<1> QED BY <1>1, <1>2, <1>3, <1>4, FS_Difference, Zenon

\* Nothing at the start of the window that is not the packet expected there: every
\* other packet queued is further on.
LEMMA AheadOfExpected ==
  ASSUME NEW f \in Seats, NEW e \in Seqs, InWindow(f, e),
         NEW p \in Positions, f[p] # Absent, f[p] # e
  PROVE  f[p] \in Seqs /\ Distance(f[p], e) \in 1 .. MaxPackets - 1
<1>1. f[p] \in Seqs
  BY DEF Seats
<1>2. Distance(f[p], e) \in 0 .. MaxPackets - 1
  BY DEF InWindow
<1>3. Distance(f[p], e) # 0
  BY <1>1, DistanceZero
<1> QED BY <1>1, <1>2, <1>3, SizeFacts

\* The window moves on by k, over nothing queued.
LEMMA WindowMoves ==
  ASSUME NEW f \in Seats, NEW e \in Seqs, InWindow(f, e), NEW k \in Nat,
         k < SeqMod,
         \A p \in Positions : f[p] # Absent => k <= Distance(f[p], e)
  PROVE  Add(e, k) \in Seqs /\ InWindow(f, Add(e, k))
<1>1. Add(e, k) \in Seqs
  <2>1. k \in Int /\ -SeqMod < k
    BY SizeFacts
  <2> QED BY <2>1, AddFacts
<1>2. ASSUME NEW p \in Positions, f[p] # Absent
      PROVE  Position(f[p]) = p /\ Distance(f[p], Add(e, k)) \in 0 .. MaxPackets - 1
  <2>1. f[p] \in Seqs
    BY <1>2 DEF Seats
  <2>2. Position(f[p]) = p /\ Distance(f[p], e) \in 0 .. MaxPackets - 1 /\ k <= Distance(f[p], e)
    BY <1>2 DEF InWindow
  <2>3. Distance(f[p], Add(e, k)) = Distance(f[p], e) - k
    BY <2>1, <2>2, ShiftForward
  <2> QED BY <2>2, <2>3, SizeFacts
<1> QED BY <1>1, <1>2 DEF InWindow


\* A set of natural numbers that is not empty has a least element.
LEMMA LeastNatural ==
  ASSUME NEW T \in SUBSET Nat, T # {}
  PROVE  \E n \in T : \A m \in T : n <= m
<1>1. PICK n \in T : \A m \in T : ~(<<m, n>> \in OpToRel(<, Nat))
  BY NatLessThanWellFounded, WFMin, Zenon
<1>2. \A m \in T : ~(m < n)
  BY <1>1, Zenon DEF OpToRel
<1> QED BY <1>2

-----------------------------------------------------------------------------
(* The buffer under mu *)

\* A buffer whose window holds, with n slots free or queued.
BufOK(buf, n) ==
  /\ buf \in Buffer
  /\ buf.queued = Cardinality(QueuedIn(buf.seq))
  /\ InWindow(buf.seq, buf.expected)
  /\ buf.free + buf.queued = n

\* The fields of a buffer have their types.
LEMMA BufferFacts ==
  ASSUME NEW buf \in Buffer
  PROVE  /\ buf.seq \in Seats /\ buf.expected \in Seqs
         /\ buf.queued \in Nat /\ buf.queued <= MaxPackets
         /\ buf.free \in Nat /\ buf.free <= MaxPackets + 1
         /\ buf.playout \in BOOLEAN /\ buf.resync \in BOOLEAN /\ buf.release \in BOOLEAN
         /\ buf.startAt \in {"none", "set", "due"}
         /\ buf.ssrc \in Sources \cup {Nobody}
         /\ Queued(buf) = QueuedIn(buf.seq)
<1>1. /\ buf.seq \in Seats /\ buf.expected \in Seqs
      /\ buf.queued \in 0 .. MaxPackets /\ buf.free \in 0 .. MaxPackets + 1
      /\ buf.playout \in BOOLEAN /\ buf.resync \in BOOLEAN /\ buf.release \in BOOLEAN
      /\ buf.startAt \in {"none", "set", "due"}
      /\ buf.ssrc \in Sources \cup {Nobody}
  BY Zenon DEF Buffer, Seats
<1>2. Queued(buf) = QueuedIn(buf.seq)
  BY DEF Queued, QueuedIn
<1> QED BY <1>1, <1>2, SizeFacts

\* startPlayout passes over the places that are empty and over no packet.
LEMMA FirstOccupiedFacts ==
  ASSUME NEW buf \in Buffer, InWindow(buf.seq, buf.expected),
         buf.queued = Cardinality(QueuedIn(buf.seq)), buf.queued > 0
  PROVE  /\ FirstOccupied(buf) \in Nat /\ FirstOccupied(buf) < SeqMod
         /\ FirstOccupied(buf) < MaxPackets
         /\ \A p \in Positions : buf.seq[p] # Absent =>
               FirstOccupied(buf) <= Distance(buf.seq[p], buf.expected)
<1> DEFINE f == buf.seq
           e == buf.expected
           At(n) == f[Position(Add(e, n))]
           T == {n \in 0 .. SeqMod - 1 : At(n) # Absent}
<1>1. f \in Seats /\ e \in Seqs /\ buf.queued \in Nat
  BY BufferFacts
<1>2. QueuedIn(f) # {}
  BY <1>1, FS_EmptySet
<1>3. PICK k \in Positions : f[k] # Absent
  BY <1>2 DEF QueuedIn
<1>4. ASSUME NEW p \in Positions, f[p] # Absent
      PROVE  Distance(f[p], e) \in T /\ Distance(f[p], e) < MaxPackets
  <2> DEFINE d == Distance(f[p], e)
  <2>1. f[p] \in Seqs /\ Position(f[p]) = p /\ d \in 0 .. MaxPackets - 1
    BY <1>1, <1>4 DEF InWindow, Seats
  <2>2. d \in Nat /\ d <= d
    BY <2>1, SizeFacts
  <2>3. Add(e, d) = f[p]
    BY <1>1, <2>1, <2>2, ShiftForward
  <2>4. At(d) # Absent
    BY <1>4, <2>1, <2>3
  <2> HIDE DEF d
  <2>5. d \in 0 .. SeqMod - 1 /\ d < MaxPackets
    BY <2>1, SizeFacts
  <2> QED BY <2>4, <2>5 DEF d
<1>5. PICK n \in T : \A m \in T : n <= m
  <2>1. T \in SUBSET Nat /\ T # {}
    BY <1>3, <1>4, SizeFacts
  <2> HIDE DEF T
  <2> QED BY <2>1, LeastNatural
<1>6. n \in 0 .. SeqMod - 1 /\ At(n) # Absent /\ \A m \in 0 .. n - 1 : At(m) = Absent
  <2>1. n \in 0 .. SeqMod - 1 /\ At(n) # Absent
    BY <1>5
  <2>2. ASSUME NEW m \in 0 .. n - 1, At(m) # Absent PROVE FALSE
    <3>1. m \in T
      BY <2>1, <2>2, SizeFacts
    <3> QED BY <1>5, <2>1, <2>2, <3>1, SizeFacts
  <2> QED BY <2>1, <2>2
<1> DEFINE c == FirstOccupied(buf)
<1>7. c \in 0 .. SeqMod - 1 /\ At(c) # Absent /\ \A m \in 0 .. c - 1 : At(m) = Absent
  BY <1>6 DEF FirstOccupied
<1> HIDE DEF c
<1>8. ASSUME NEW p \in Positions, f[p] # Absent
      PROVE  c <= Distance(f[p], e) /\ c < MaxPackets
  <2>1. /\ Distance(f[p], e) \in 0 .. SeqMod - 1 /\ At(Distance(f[p], e)) # Absent
        /\ Distance(f[p], e) < MaxPackets
    BY <1>4, <1>8
  <2> DEFINE d == Distance(f[p], e)
  <2> HIDE DEF At, d
  <2> QED BY <1>7, <2>1, SizeFacts DEF d
<1>9. c < MaxPackets
  BY <1>3, <1>8
<1> QED BY <1>7, <1>8, <1>9, SizeFacts DEF c


\* The operations keep the source and the state of playout but where they say so.
SamePlayout(w, buf) == w.playout = buf.playout /\ w.resync = buf.resync

\* What BufOK says of the fields.
LEMMA BufFacts ==
  ASSUME NEW buf, NEW n, BufOK(buf, n)
  PROVE  /\ buf \in Buffer /\ buf.seq \in Seats /\ buf.expected \in Seqs
         /\ buf.queued \in Nat /\ buf.queued <= MaxPackets
         /\ buf.free \in Nat /\ buf.free <= MaxPackets + 1
         /\ buf.queued = Cardinality(QueuedIn(buf.seq))
         /\ InWindow(buf.seq, buf.expected)
         /\ buf.free + buf.queued = n
BY BufferFacts DEF BufOK

\* A slot is given back.
LEMMA FreeSlotOK ==
  ASSUME NEW buf, NEW n \in Nat, n <= MaxPackets, BufOK(buf, n)
  PROVE  BufOK(freeSlot(buf), n + 1) /\ SamePlayout(freeSlot(buf), buf)
         /\ freeSlot(buf).expected = buf.expected
<1> DEFINE r == buf.free + 1
           w == freeSlot(buf)
<1>1. r \in 0 .. MaxPackets + 1
  BY BufFacts, SizeFacts
<1>2. r + buf.queued = n + 1
  BY BufFacts
<1> HIDE DEF r
<1>3. buf \in Buffer /\ w = [buf EXCEPT !.free = r]
  BY BufFacts DEF freeSlot, r
<1> HIDE DEF w
<1>4. /\ w \in Buffer /\ w.free = r /\ w.queued = buf.queued /\ w.seq = buf.seq
      /\ w.expected = buf.expected /\ SamePlayout(w, buf)
  BY <1>3, <1>1, Zenon DEF Buffer, SamePlayout
<1>5. BufOK(w, n + 1)
  BY <1>2, <1>4, BufFacts DEF BufOK
<1> QED BY <1>4, <1>5 DEF w

\* resetStream empties the window and starts it at q.
LEMMA ResetOK ==
  ASSUME NEW buf, NEW n \in Nat, n <= MaxPackets + 1, BufOK(buf, n),
         NEW s \in Sources, NEW q \in Seqs
  PROVE  LET w == resetStream(buf, s, q) IN
         BufOK(w, n) /\ w.expected = q /\ w.playout = FALSE /\ w.resync = FALSE
<1> DEFINE r == buf.free + Cardinality(Queued(buf))
           f == [p \in Positions |-> Absent]
           c == 0
           w == resetStream(buf, s, q)
<1>1. r = n /\ r \in 0 .. MaxPackets + 1
  <2>1. Queued(buf) = QueuedIn(buf.seq)
    BY BufFacts, BufferFacts
  <2> QED BY <2>1, BufFacts
<1>2. f \in Seats /\ QueuedIn(f) = {} /\ InWindow(f, q)
  BY DEF Seats, QueuedIn, InWindow
<1>3. c \in 0 .. MaxPackets /\ c = Cardinality(QueuedIn(f)) /\ r + c = n
  <2>1. Cardinality(QueuedIn(f)) = 0
    BY <1>2, FS_EmptySet
  <2> QED BY <1>1, <2>1, SizeFacts
<1>4. buf \in Buffer
  BY BufFacts
<1>5. w = [buf EXCEPT !.seq = f, !.free = r, !.queued = c, !.ssrc = s, !.expected = q,
                      !.playout = FALSE, !.resync = FALSE, !.startAt = "set"]
  BY <1>4 DEF resetStream, clearSequence, Buffer
<1> HIDE DEF r, f, c, w
<1>6. /\ w \in Buffer /\ w.seq = f /\ w.free = r /\ w.queued = c /\ w.expected = q
      /\ w.playout = FALSE /\ w.resync = FALSE
  BY <1>1, <1>2, <1>3, <1>4, <1>5, Zenon DEF Buffer, Seats
<1>7. BufOK(w, n)
  BY <1>2, <1>3, <1>6 DEF BufOK
<1> QED BY <1>6, <1>7 DEF w

\* dropBefore drops exactly what the new window starts after.
LEMMA DropOK ==
  ASSUME NEW buf, NEW n \in Nat, n <= MaxPackets + 1, BufOK(buf, n),
         NEW next \in Seqs, Distance(next, buf.expected) >= 0
  PROVE  LET w == dropBefore(buf, next) IN
         BufOK(w, n) /\ w.expected = next /\ SamePlayout(w, buf)
<1> DEFINE f == buf.seq
           e == buf.expected
           k == Distance(next, e)
           stale == Passed(buf, next) \cap Queued(buf)
           g == [p \in Positions |-> IF f[p] \in stale THEN Absent ELSE f[p]]
           c == buf.queued - Cardinality(stale)
           r == buf.free + Cardinality(stale)
           w == dropBefore(buf, next)
<1>1. f \in Seats /\ e \in Seqs /\ InWindow(f, e) /\ Queued(buf) = QueuedIn(f)
  BY BufFacts, BufferFacts
<1>2. k \in Nat /\ Add(e, k) = next
  <2>1. k \in Int
    BY <1>1, DistanceFacts
  <2>2. k \in Nat /\ k <= k
    BY <2>1
  <2> QED BY <1>1, <2>2, ShiftForward
<1>3. stale \in SUBSET QueuedIn(f) /\ g \in Seats
  BY <1>1 DEF Seats
<1>4. \A p \in Positions : g[p] = IF f[p] \in stale THEN Absent ELSE f[p]
  OBVIOUS
<1>5. ASSUME NEW p \in Positions, g[p] # Absent
      PROVE  /\ f[p] \in Seqs /\ g[p] = f[p] /\ Position(f[p]) = p
             /\ Distance(f[p], e) \in 0 .. MaxPackets - 1 /\ k <= Distance(f[p], e)
  <2>1. g[p] = f[p] /\ f[p] # Absent /\ f[p] \notin stale
    BY <1>5
  <2>2. f[p] \in Seqs /\ f[p] \in QueuedIn(f)
    BY <1>1, <2>1 DEF Seats, QueuedIn
  <2>3. Position(f[p]) = p /\ Distance(f[p], e) \in 0 .. MaxPackets - 1
    BY <1>1, <2>1 DEF InWindow
  <2>4. f[p] \notin Passed(buf, next)
    BY <1>1, <2>1, <2>2
  <2>5. ~(Distance(f[p], e) < k)
    BY <2>2, <2>3, <2>4, SizeFacts DEF Passed
  <2> HIDE DEF k
  <2> QED BY <1>2, <2>1, <2>2, <2>3, <2>5, SizeFacts
<1> HIDE DEF stale, g, k
<1>6. InWindow(g, next)
  <2> SUFFICES ASSUME NEW p \in Positions, g[p] # Absent
               PROVE  Position(g[p]) = p /\ Distance(g[p], next) \in 0 .. MaxPackets - 1
    BY DEF InWindow
  <2>1. Distance(f[p], next) = Distance(f[p], e) - k
    BY <1>1, <1>2, <1>5, ShiftForward
  <2> QED BY <1>2, <1>5, <2>1, SizeFacts
<1>7. /\ Cardinality(stale) \in Nat
      /\ Cardinality(QueuedIn(g)) = Cardinality(QueuedIn(f)) - Cardinality(stale)
      /\ Cardinality(QueuedIn(g)) \in 0 .. MaxPackets
  BY <1>1, <1>3, <1>4, TakeQueued, QueuedFinite
<1>8. /\ c \in 0 .. MaxPackets /\ c = Cardinality(QueuedIn(g))
      /\ r \in 0 .. MaxPackets + 1 /\ r + c = n
  BY <1>7, BufFacts, SizeFacts
<1>9. buf \in Buffer /\ w = [buf EXCEPT !.seq = g, !.queued = c, !.free = r, !.expected = next]
  BY BufFacts DEF dropBefore, g, stale
<1> HIDE DEF c, r, w
<1>10. /\ w \in Buffer /\ w.seq = g /\ w.queued = c /\ w.free = r /\ w.expected = next
       /\ SamePlayout(w, buf)
  BY <1>3, <1>8, <1>9, Zenon DEF SamePlayout, Buffer, Seats
<1>11. BufOK(w, n)
  BY <1>6, <1>8, <1>10 DEF BufOK
<1> QED BY <1>10, <1>11 DEF w


\* Moved leaves a window that q fits in.  It moves back only in a buffer that has not
\* played yet, and otherwise never backward.
LEMMA MovedOK ==
  ASSUME NEW buf, NEW n \in Nat, n <= MaxPackets + 1, BufOK(buf, n), NEW q \in Seqs,
         ~Late(buf, q), ~BeforeWindow(buf, q)
  PROVE  LET w == Moved(buf, q) IN
         /\ BufOK(w, n) /\ SamePlayout(w, buf)
         /\ Distance(q, w.expected) \in 0 .. MaxPackets - 1
         /\ Playing(buf) => Distance(w.expected, buf.expected) >= 0
<1> DEFINE e == buf.expected
           d == Distance(q, e)
           w == Moved(buf, q)
<1>1. e \in Seqs /\ d \in Int
  BY BufFacts, DistanceFacts
<1>2. CASE d < 0
  <2>1. buf \in Buffer /\ w = [buf EXCEPT !.expected = q]
    <3>1. ~(d >= MaxPackets)
      BY <1>1, <1>2, SizeFacts
    <3> QED BY <1>2, <3>1, BufFacts DEF Moved
  <2>2. ~Playing(buf) /\ canMoveExpectedBack(buf, q)
    BY <1>2 DEF Late, BeforeWindow, Playing
  <2>3. Distance(q, q) = 0
    BY DistanceZero
  <2> HIDE DEF w
  <2>4. /\ w \in Buffer /\ w.seq = buf.seq /\ w.queued = buf.queued /\ w.free = buf.free
        /\ w.expected = q /\ SamePlayout(w, buf)
    BY <2>1, Zenon DEF Buffer, SamePlayout
  <2>5. InWindow(buf.seq, q)
    <3> SUFFICES ASSUME NEW p \in Positions, buf.seq[p] # Absent
                 PROVE  /\ Position(buf.seq[p]) = p
                        /\ Distance(buf.seq[p], q) \in 0 .. MaxPackets - 1
      BY DEF InWindow
    <3>1. buf.seq[p] \in Queued(buf)
      BY DEF Queued
    <3> QED BY <2>2, <3>1, BufFacts DEF canMoveExpectedBack, InWindow
  <2>6. BufOK(w, n)
    BY <2>4, <2>5, BufFacts DEF BufOK
  <2>7. Distance(q, w.expected) \in 0 .. MaxPackets - 1
    BY <2>3, <2>4, SizeFacts
  <2> QED BY <2>2, <2>4, <2>6, <2>7 DEF w
<1>3. CASE d >= MaxPackets
  <2> DEFINE k == DelayPackets - 1
             next == Add(q, -k)
  <2>1. k \in Nat /\ k < MaxPackets /\ k <= d
    BY <1>1, <1>3, SizeFacts
  <2>2. next \in Seqs /\ Distance(next, e) = d - k /\ Distance(q, next) = k
    <3> HIDE DEF k
    <3> QED BY <1>1, <2>1, ShiftBack
  <2>3. Distance(next, e) >= 0
    BY <1>1, <2>1, <2>2
  <2>4. ~(d < 0)
    BY <1>1, <1>3, SizeFacts
  <2>5. w = dropBefore(buf, next)
    BY <1>3, <2>4 DEF Moved
  <2> HIDE DEF next, w, k
  <2>6. BufOK(w, n) /\ w.expected = next /\ SamePlayout(w, buf)
    BY <2>2, <2>3, <2>5, DropOK
  <2>7. Distance(q, w.expected) \in 0 .. MaxPackets - 1
    BY <2>1, <2>2, <2>6, SizeFacts
  <2> QED BY <2>3, <2>6, <2>7 DEF w
<1>4. CASE ~(d < 0) /\ ~(d >= MaxPackets)
  <2>1. w = buf
    BY <1>4 DEF Moved
  <2>2. Distance(e, e) = 0
    BY <1>1, DistanceZero
  <2>3. d \in 0 .. MaxPackets - 1
    BY <1>1, <1>4, SizeFacts
  <2> QED BY <2>1, <2>2, <2>3 DEF SamePlayout
<1> QED BY <1>2, <1>3, <1>4

\* A packet that fits is filed, unless one is there already.  Its slot is queued or free.
LEMMA FiledOK ==
  ASSUME NEW buf, NEW n \in Nat, n <= MaxPackets, BufOK(buf, n), NEW q \in Seqs,
         Distance(q, buf.expected) \in 0 .. MaxPackets - 1
  PROVE  LET w == Filed(buf, q) IN
         BufOK(w, n + 1) /\ w.expected = buf.expected /\ SamePlayout(w, buf)
<1> DEFINE f == buf.seq
           w == Filed(buf, q)
<1>1. CASE f[Position(q)] # Absent
  <2>1. w = freeSlot(buf)
    BY <1>1 DEF Filed
  <2> QED BY <2>1, FreeSlotOK
<1>2. CASE f[Position(q)] = Absent
  <2> DEFINE g == [f EXCEPT ![Position(q)] = q]
             c == buf.queued + 1
             t == StartAt(buf)
  <2>1. buf \in Buffer /\ w = [buf EXCEPT !.seq = g, !.queued = c, !.startAt = t]
    BY <1>2, BufFacts DEF Filed
  <2>2. t \in {"none", "set", "due"}
    BY <2>1, BufferFacts DEF StartAt
  <2>3. /\ g \in Seats /\ InWindow(g, buf.expected)
        /\ Cardinality(QueuedIn(g)) = Cardinality(QueuedIn(f)) + 1
    BY <1>2, BufFacts, FileQueued, Zenon
  <2> HIDE DEF g
  <2>4. c = Cardinality(QueuedIn(g)) /\ c \in 0 .. MaxPackets /\ buf.free + c = n + 1
    BY <2>3, BufFacts, QueuedFinite
  <2> HIDE DEF c, t, w
  <2>5. /\ w \in Buffer /\ w.seq = g /\ w.queued = c /\ w.free = buf.free
        /\ w.expected = buf.expected /\ SamePlayout(w, buf)
    BY <2>1, <2>2, <2>3, <2>4, Zenon DEF Buffer, Seats, SamePlayout
  <2>6. BufOK(w, n + 1)
    BY <2>3, <2>4, <2>5 DEF BufOK
  <2> QED BY <2>5, <2>6 DEF w
<1> QED BY <1>1, <1>2

\* handleSlot: the slot read into is queued or given back, and the window holds.  From
\* one state of playout to another the window does not move back.
LEMMA HandleSlotOK ==
  ASSUME BufOK(b, MaxPackets), NEW s \in Sources, NEW q \in Seqs
  PROVE  LET w == handleSlot(s, q) IN
         /\ BufOK(w, MaxPackets + 1)
         /\ Playing(b) /\ Playing(w) => Distance(w.expected, b.expected) >= 0
<1> DEFINE o == Opened(b, s, q)
           m == Moved(o, q)
           w == handleSlot(s, q)
<1>1. MaxPackets \in Nat /\ MaxPackets <= MaxPackets /\ MaxPackets <= MaxPackets + 1
  BY SizeFacts
<1>2. BufOK(o, MaxPackets) /\ (Playing(o) => o = b)
  <2>1. CASE b.ssrc # s \/ Restarts(b, q)
    BY <1>1, <2>1, ResetOK, Zenon DEF Opened, Playing
  <2>2. CASE ~(b.ssrc # s \/ Restarts(b, q))
    BY <2>2 DEF Opened
  <2> QED BY <2>1, <2>2
<1>3. w = IF Late(o, q) \/ BeforeWindow(o, q) THEN freeSlot(o) ELSE Filed(m, q)
  BY DEF handleSlot
<1> HIDE DEF o
<1>4. CASE Late(o, q) \/ BeforeWindow(o, q)
  <2>1. w = freeSlot(o)
    BY <1>3, <1>4
  <2>2. BufOK(w, MaxPackets + 1) /\ SamePlayout(w, o) /\ w.expected = o.expected
    BY <1>1, <1>2, <2>1, FreeSlotOK
  <2>3. Distance(o.expected, o.expected) = 0
    BY <1>2, BufFacts, DistanceZero
  <2> HIDE DEF w
  <2> QED BY <1>2, <2>2, <2>3 DEF SamePlayout, Playing, w
<1>5. CASE ~(Late(o, q) \/ BeforeWindow(o, q))
  <2>1. w = Filed(m, q)
    BY <1>3, <1>5
  <2>2. /\ BufOK(m, MaxPackets) /\ SamePlayout(m, o)
        /\ Distance(q, m.expected) \in 0 .. MaxPackets - 1
        /\ Playing(o) => Distance(m.expected, o.expected) >= 0
    BY <1>1, <1>2, <1>5, MovedOK
  <2> HIDE DEF m
  <2>3. BufOK(w, MaxPackets + 1) /\ w.expected = m.expected /\ SamePlayout(w, m)
    BY <1>1, <2>1, <2>2, FiledOK
  <2> HIDE DEF w
  <2> QED BY <1>2, <2>2, <2>3 DEF SamePlayout, Playing, w
<1> QED BY <1>4, <1>5


\* The next number is one further on.
LEMMA OneFurther ==
  ASSUME NEW x \in Seqs, NEW y \in Seqs, Distance(x, y) >= 0,
         2 * (Distance(x, y) + 1) < SeqMod
  PROVE  Add(x, 1) \in Seqs /\ Distance(Add(x, 1), y) = Distance(x, y) + 1
<1> DEFINE d == Distance(x, y)
           z == Add(x, 1)
           m == d + 1
           j == 1
<1>1. d \in Int /\ d \in {x - y, x - y + SeqMod, x - y - SeqMod}
  BY DistanceFacts, Zenon
<1>2. /\ x \in Int /\ y \in Int /\ SeqMod \in Int /\ SeqMod > 2
      /\ 0 <= x /\ x < SeqMod /\ 0 <= y /\ y < SeqMod
  BY SeqFacts, SizeFacts
<1>3. z \in Seqs /\ z \in {x + j, x + j + SeqMod, x + j - SeqMod}
  <2>1. j \in Int /\ -SeqMod < j /\ j < SeqMod
    BY <1>2
  <2> QED BY <2>1, AddFacts
<1>4. z \in Int /\ 0 <= z /\ z < SeqMod
  BY <1>3, SeqFacts
<1>5. d >= 0 /\ 2 * (d + 1) < SeqMod
  OBVIOUS
<1> HIDE DEF d, z
<1>6. /\ m \in Int /\ 2 * m < SeqMod /\ -SeqMod <= 2 * m
      /\ m \in {z - y, z - y + SeqMod, z - y - SeqMod}
  BY <1>1, <1>2, <1>3, <1>4, <1>5
<1> HIDE DEF m
<1>7. Distance(z, y) = m
  BY <1>3, <1>6, DistanceIs, Zenon
<1> QED BY <1>3, <1>7 DEF d, m, z

\* startPlayout moves the window forward, to the first place that is occupied.
LEMMA StartOK ==
  ASSUME NEW buf, NEW n \in Nat, n <= MaxPackets + 1, BufOK(buf, n)
  PROVE  LET w == startPlayout(buf) IN
         BufOK(w, n) /\ Distance(w.expected, buf.expected) \in 0 .. MaxPackets - 1
<1> DEFINE e == buf.expected
           k == FirstOccupied(buf)
           z == IF buf.resync /\ buf.queued > 0 THEN Add(e, k) ELSE e
           w == startPlayout(buf)
<1>1. e \in Seqs /\ buf.seq \in Seats /\ InWindow(buf.seq, e) /\ buf \in Buffer
  BY BufFacts
<1>2. /\ z \in Seqs /\ InWindow(buf.seq, z) /\ Distance(z, e) \in 0 .. MaxPackets - 1
  <2>1. CASE buf.resync /\ buf.queued > 0
    <3>1. /\ k \in Nat /\ k < SeqMod /\ k < MaxPackets
          /\ \A p \in Positions : buf.seq[p] # Absent => k <= Distance(buf.seq[p], e)
      BY <1>1, <2>1, BufFacts, FirstOccupiedFacts
    <3>2. PICK p \in Positions : buf.seq[p] # Absent
      <4>1. QueuedIn(buf.seq) # {}
        BY <1>1, <2>1, BufFacts, FS_EmptySet
      <4> QED BY <4>1 DEF QueuedIn
    <3>3. buf.seq[p] \in Seqs
      BY <1>1, <3>2 DEF Seats
    <3> HIDE DEF k
    <3>4. Add(e, k) \in Seqs /\ InWindow(buf.seq, Add(e, k))
      BY <1>1, <3>1, WindowMoves
    <3>5. Distance(Add(e, k), e) = k
      BY <1>1, <3>1, <3>2, <3>3, ShiftForward
    <3> QED BY <2>1, <3>1, <3>4, <3>5, SizeFacts
  <2>2. CASE ~(buf.resync /\ buf.queued > 0)
    <3>1. Distance(e, e) = 0
      BY <1>1, DistanceZero
    <3> QED BY <1>1, <2>2, <3>1, SizeFacts
  <2> QED BY <2>1, <2>2
<1>3. w = [buf EXCEPT !.startAt = "none", !.resync = FALSE, !.playout = TRUE,
                      !.release = TRUE, !.expected = z]
  BY DEF startPlayout
<1> HIDE DEF z, w
<1>4. /\ w \in Buffer /\ w.seq = buf.seq /\ w.queued = buf.queued /\ w.free = buf.free
      /\ w.expected = z
  BY <1>1, <1>2, <1>3, Zenon DEF Buffer
<1>5. BufOK(w, n)
  BY <1>2, <1>4, BufFacts DEF BufOK
<1> QED BY <1>2, <1>4, <1>5 DEF w

\* Where the packet expected is not there, nothing queued is passed over.
LEMMA PassesOK ==
  ASSUME NEW buf, NEW n \in Nat, BufOK(buf, n), NEW due \in BOOLEAN,
         ~Holds(buf, buf.expected)
  PROVE  BufOK(Passes(buf, due), n) /\ Passes(buf, due).expected = Add(buf.expected, 1)
<1> DEFINE e == buf.expected
           f == buf.seq
           z == Add(e, 1)
           w == Passes(buf, due)
<1>1. e \in Seqs /\ f \in Seats /\ InWindow(f, e) /\ buf \in Buffer
  BY BufFacts
<1>2. ASSUME NEW p \in Positions, f[p] # Absent
      PROVE  1 <= Distance(f[p], e)
  <2>1. f[p] # e
    BY <1>1, <1>2 DEF Holds, InWindow
  <2> QED BY <1>1, <1>2, <2>1, AheadOfExpected, SizeFacts
<1>3. z \in Seqs /\ InWindow(f, z)
  BY <1>1, <1>2, WindowMoves, SizeFacts
<1>4. w = [buf EXCEPT !.expected = z, !.release = due]
  BY DEF Passes
<1> HIDE DEF z, w
<1>5. /\ w \in Buffer /\ w.seq = f /\ w.queued = buf.queued /\ w.free = buf.free
      /\ w.expected = z
  BY <1>1, <1>3, <1>4, Zenon DEF Buffer
<1>6. BufOK(w, n)
  BY <1>3, <1>5, BufFacts DEF BufOK
<1> QED BY <1>5, <1>6 DEF w, z

\* The packet expected is played, and its slot is free again.
LEMMA ReleaseOK ==
  ASSUME NEW buf, NEW n \in Nat, n <= MaxPackets + 1, BufOK(buf, n), NEW due \in BOOLEAN,
         Holds(buf, buf.expected)
  PROVE  BufOK(Release(buf, due), n) /\ Release(buf, due).expected = Add(buf.expected, 1)
<1> DEFINE e == buf.expected
           f == buf.seq
           i == Position(e)
           g == [f EXCEPT ![i] = Absent]
           z == Add(e, 1)
           c == buf.queued - 1
           r == buf.free + 1
           w == Release(buf, due)
<1>1. e \in Seqs /\ f \in Seats /\ InWindow(f, e) /\ buf \in Buffer
  BY BufFacts
<1>2. i \in Positions /\ f[i] = e /\ e # Absent
  BY <1>1, PositionType, AbsentFacts DEF Holds
<1>3. \A p \in Positions : f[p] = e => p = i
  BY <1>1, AbsentFacts DEF InWindow
<1> HIDE DEF i
<1>4. g \in Seats /\ \A p \in Positions : g[p] = IF f[p] \in {e} THEN Absent ELSE f[p]
  BY <1>1, <1>2, <1>3 DEF Seats
<1>5. {e} \in SUBSET QueuedIn(f)
  BY <1>2 DEF QueuedIn
<1> HIDE DEF g
<1>6. Cardinality(QueuedIn(g)) = Cardinality(QueuedIn(f)) - 1
  <2>1. Cardinality({e}) = 1
    BY FS_Singleton, Zenon
  <2>2. Cardinality(QueuedIn(g)) = Cardinality(QueuedIn(f)) - Cardinality({e})
    BY <1>1, <1>4, <1>5, TakeQueued, Zenon
  <2> QED BY <2>1, <2>2
<1>7. c = Cardinality(QueuedIn(g)) /\ c \in 0 .. MaxPackets
  BY <1>4, <1>6, BufFacts, QueuedFinite
<1>8. r \in 0 .. MaxPackets + 1 /\ r + c = n
  BY <1>7, BufFacts, SizeFacts
<1>9. InWindow(g, e) /\ \A p \in Positions : g[p] # Absent => 1 <= Distance(g[p], e)
  <2>1. ASSUME NEW p \in Positions, g[p] # Absent
        PROVE  g[p] = f[p] /\ f[p] # e /\ f[p] # Absent
    BY <1>4, <2>1
  <2>2. ASSUME NEW p \in Positions, g[p] # Absent
        PROVE  1 <= Distance(f[p], e)
    BY <1>1, <2>1, <2>2, AheadOfExpected, SizeFacts
  <2> QED BY <1>1, <2>1, <2>2 DEF InWindow
<1>10. z \in Seqs /\ InWindow(g, z)
  BY <1>1, <1>4, <1>9, WindowMoves, SizeFacts
<1>11. w = [buf EXCEPT !.expected = z, !.release = due, !.seq = g, !.queued = c, !.free = r]
  BY <1>1 DEF Release, Passes, g, i, Buffer
<1> HIDE DEF z, w, c, r
<1>12. /\ w \in Buffer /\ w.seq = g /\ w.queued = c /\ w.free = r /\ w.expected = z
  BY <1>1, <1>4, <1>7, <1>8, <1>10, <1>11, Zenon DEF Buffer, Seats
<1>13. BufOK(w, n)
  BY <1>7, <1>8, <1>10, <1>12 DEF BufOK
<1> QED BY <1>12, <1>13 DEF w, z


-----------------------------------------------------------------------------
(* The invariant *)

\* How many slots are free or queued: the read loop may have one.
Slots == IF loop = "reading" THEN MaxPackets ELSE MaxPackets + 1

\* The window holds, and the read loop has not started before startOnce is spent.
IInv ==
  /\ TypeOK
  /\ BufOK(b, Slots)
  /\ ~once => loop = "none"

\* One turn of ReadRTP keeps the window and never moves it back.
LEMMA ReadStep ==
  ASSUME NEW n \in Nat, n <= MaxPackets + 1, BufOK(b, n), NEW due \in BOOLEAN, ReadRTP(due)
  PROVE  BufOK(b', n) /\ Distance(b'.expected, b.expected) >= 0
<1> DEFINE e == b.expected
           p == IF MayStart(b) THEN startPlayout(b) ELSE b
           decides == p.playout /\ p.release
           hit == decides /\ Holds(p, p.expected)
           lost == decides /\ ~hit /\ p.queued > 0
           q == IF decides /\ ~hit /\ ~lost THEN stopPlayout(p) ELSE p
<1>1. e \in Seqs
  BY BufFacts
<1>2. BufOK(p, n) /\ Distance(p.expected, e) \in 0 .. MaxPackets - 1
  <2>1. CASE MayStart(b)
    BY <2>1, StartOK
  <2>2. CASE ~MayStart(b)
    <3>1. Distance(e, e) = 0
      BY <1>1, DistanceZero
    <3> QED BY <2>2, <3>1, SizeFacts
  <2> QED BY <2>1, <2>2
<1>3. \/ hit /\ b' = Release(p, due)
      \/ lost /\ b' = Passes(p, due)
      \/ b' = q
  BY Zenon DEF ReadRTP
<1> HIDE DEF p
<1>4. p.expected \in Seqs /\ p \in Buffer
  BY <1>2, BufFacts
<1>5. Add(p.expected, 1) \in Seqs /\ Distance(Add(p.expected, 1), e) >= 0
  <2>1. Distance(p.expected, e) >= 0 /\ 2 * (Distance(p.expected, e) + 1) < SeqMod
    BY <1>2, SizeFacts
  <2>2. /\ Add(p.expected, 1) \in Seqs
        /\ Distance(Add(p.expected, 1), e) = Distance(p.expected, e) + 1
    BY <1>1, <1>4, <2>1, OneFurther
  <2> QED BY <1>2, <2>2, SizeFacts
<1>6. CASE hit /\ b' = Release(p, due)
  BY <1>2, <1>5, <1>6, ReleaseOK
<1>7. CASE lost /\ b' = Passes(p, due)
  BY <1>2, <1>5, <1>7, PassesOK
<1>8. CASE b' = q
  <2>1. /\ q \in Buffer /\ q.seq = p.seq /\ q.queued = p.queued /\ q.free = p.free
        /\ q.expected = p.expected
    <3>1. CASE q = p
      BY <1>4, <3>1
    <3>2. CASE q = stopPlayout(p)
      <4> HIDE DEF q
      <4> QED BY <1>4, <3>2, Zenon DEF stopPlayout, Buffer
    <3> QED BY <3>1, <3>2
  <2> HIDE DEF q
  <2>2. BufOK(q, n)
    BY <1>2, <2>1, BufFacts DEF BufOK
  <2>3. Distance(q.expected, e) >= 0
    BY <1>2, <2>1, SizeFacts
  <2> QED BY <1>8, <2>1, <2>2, <2>3, Zenon
<1> QED BY <1>3, <1>6, <1>7, <1>8

\* The window holds at first.
LEMMA InitOK == Init => IInv
<1> SUFFICES ASSUME Init PROVE IInv
  OBVIOUS
<1> DEFINE f == [p \in Positions |-> Absent]
           c == 0
           r == MaxPackets + 1
<1>1. f \in Seats /\ QueuedIn(f) = {} /\ InWindow(f, 0)
  BY DEF Seats, QueuedIn, InWindow
<1>2. /\ c \in 0 .. MaxPackets /\ c = Cardinality(QueuedIn(f)) /\ r + c = MaxPackets + 1
      /\ r \in 0 .. MaxPackets + 1 /\ c \in Seqs
  <2>1. Cardinality(QueuedIn(f)) = 0
    BY <1>1, FS_EmptySet
  <2> QED BY <2>1, SizeFacts, SeqFacts
<1>3. b = [seq |-> f, queued |-> c, free |-> r, ssrc |-> Nobody, expected |-> c,
           playout |-> FALSE, resync |-> FALSE, startAt |-> "none", release |-> FALSE]
  BY DEF Init
<1>4. InWindow(f, c)
  BY <1>1
<1> HIDE DEF f, c, r
<1>5. b \in Buffer /\ b.seq = f /\ b.queued = c /\ b.free = r /\ b.expected = c
  BY <1>1, <1>2, <1>3, Zenon DEF Buffer, Seats
<1>6. BufOK(b, Slots)
  BY <1>2, <1>4, <1>5 DEF BufOK, Slots, Init
<1>7. TypeOK
  <2>1. /\ ended = FALSE /\ arrived = FALSE /\ armed = FALSE
        /\ closed = FALSE /\ once = FALSE /\ loopDone = FALSE
        /\ reader = 0 /\ rd = 0 /\ loop = "none" /\ cons = "out" /\ arrivals = Arrivals
    BY Zenon DEF Init
  <2>2. 0 \in 0 .. MaxUpdates /\ Arrivals \in 0 .. Arrivals
    BY ConstantsAssumption
  <2> QED BY <1>5, <2>1, <2>2, Zenon DEF TypeOK
<1> QED BY <1>6, <1>7 DEF IInv, Init

\* Every step keeps the invariant, and none but a restart of the stream moves the window
\* back while packets are played.
LEMMA StepOK ==
  ASSUME IInv, [Next]_vars
  PROVE  IInv' /\ (Playing(b) /\ Playing(b') => Distance(b'.expected, b.expected) >= 0)
<1> DEFINE Order == Playing(b) /\ Playing(b') => Distance(b'.expected, b.expected) >= 0
<1>1. BufOK(b, Slots) /\ Slots \in Nat /\ Slots <= MaxPackets + 1
  BY SizeFacts DEF IInv, Slots
<1>2. b.expected \in Seqs /\ Distance(b.expected, b.expected) = 0
  BY <1>1, BufFacts, DistanceZero
<1>3. ASSUME b' = b, loop' = "reading" <=> loop = "reading"
      PROVE  BufOK(b, Slots)' /\ Order
  <2>1. Slots' = Slots
    BY <1>3 DEF Slots
  <2>2. BufOK(b', Slots')
    BY <1>1, <1>3, <2>1
  <2> QED BY <1>2, <1>3, <2>2
<1>4. CASE Call
  <2>1. BufOK(b, Slots)' /\ Order
    BY <1>3, <1>4 DEF Call, IInv
  <2> QED BY <1>4, <2>1 DEF Call, IInv, TypeOK
<1>5. CASE ReadClosed
  <2>1. BufOK(b, Slots)' /\ Order
    BY <1>3, <1>5 DEF ReadClosed, readVars
  <2> QED BY <1>5, <2>1, Zenon DEF ReadClosed, readVars, IInv, TypeOK
<1>6. CASE Reads
  <2>1. PICK due \in BOOLEAN : ReadRTP(due)
    BY <1>6 DEF Reads
  <2>2. BufOK(b', Slots) /\ Distance(b'.expected, b.expected) >= 0
    BY <1>1, <2>1, ReadStep
  <2>3. /\ UNCHANGED <<readVars, arrived, closed, once, arrivals>>
        /\ cons' \in {"out", "top", "wait", "eof", "stopped"} /\ armed' \in BOOLEAN
    <3> USE DEF IInv, TypeOK, consVars
    <3> QED BY <2>1, Zenon DEF ReadRTP
  <2>4. Slots' = Slots
    BY <2>3 DEF Slots, readVars
  <2> QED BY <2>2, <2>3, <2>4 DEF IInv, TypeOK, readVars, BufOK
<1>7. CASE Wake
  <2>1. BufOK(b, Slots)' /\ Order
    BY <1>3, <1>7 DEF Wake, readVars
  <2> QED BY <1>7, <2>1, Zenon DEF Wake, readVars, IInv, TypeOK
<1>8. CASE ComesDue
  <2>1. b \in Buffer
    BY <1>1, BufFacts
  <2>2. /\ b' \in Buffer /\ b'.seq = b.seq /\ b'.queued = b.queued /\ b'.free = b.free
        /\ b'.expected = b.expected
    <3>1. CASE b' = [b EXCEPT !.startAt = "due"]
      BY <2>1, <3>1, Zenon DEF Buffer
    <3>2. CASE b' = [b EXCEPT !.release = TRUE]
      BY <2>1, <3>2, Zenon DEF Buffer
    <3> QED BY <1>8, <3>1, <3>2 DEF ComesDue
  <2>3. Slots' = Slots
    BY <1>8 DEF Slots, ComesDue, readVars
  <2>4. BufOK(b', Slots') /\ Order
    BY <1>1, <1>2, <2>2, <2>3, BufFacts DEF BufOK
  <2> QED BY <1>8, <2>4 DEF ComesDue, IInv, TypeOK, readVars, consVars, BufOK
<1>9. CASE LoopTop
  <2>1. CASE closed
    <3>1. BufOK(b, Slots)' /\ Order
      BY <1>3, <1>9, <2>1 DEF LoopTop
    <3> QED BY <1>9, <2>1, <3>1 DEF LoopTop, IInv, TypeOK, consVars
  <2>2. CASE ~closed
    <3> DEFINE r == b.free - 1
    <3>1. b \in Buffer /\ b' = [b EXCEPT !.free = r]
      BY <1>1, <1>9, <2>2, BufFacts DEF LoopTop
    <3>2. Slots = MaxPackets + 1 /\ Slots' = MaxPackets
      BY <1>9, <2>2 DEF LoopTop, Slots
    <3>3. r \in 0 .. MaxPackets + 1 /\ r + b.queued = MaxPackets
      BY <1>1, <3>2, BufFacts, SizeFacts
    <3> HIDE DEF r
    <3>4. /\ b' \in Buffer /\ b'.seq = b.seq /\ b'.queued = b.queued /\ b'.free = r
          /\ b'.expected = b.expected
      BY <3>1, <3>3, Zenon DEF Buffer
    <3>5. BufOK(b', Slots') /\ Order
      BY <1>1, <1>2, <3>2, <3>3, <3>4, BufFacts DEF BufOK
    <3> QED BY <1>9, <2>2, <3>5 DEF LoopTop, IInv, TypeOK, consVars, BufOK
  <2> QED BY <2>1, <2>2
<1>10. CASE Arrives
  <2>1. PICK s \in Sources, q \in Seqs : Packet(s, q)
    BY <1>10 DEF Arrives
  <2>2. Slots = MaxPackets /\ Slots' = MaxPackets + 1
    BY <2>1 DEF Packet, Slots
  <2>3. b' = handleSlot(s, q)
    BY <2>1 DEF Packet
  <2>4. BufOK(b', Slots') /\ Order
    BY <1>1, <2>2, <2>3, HandleSlotOK
  <2>5. arrivals' \in 0 .. Arrivals
    BY <2>1, ConstantsAssumption DEF Packet, IInv, TypeOK
  <2> QED BY <2>1, <2>4, <2>5 DEF Packet, IInv, TypeOK, consVars, BufOK
<1>11. CASE EmptyRead
  <2>1. Slots = MaxPackets /\ Slots' = MaxPackets + 1 /\ b' = freeSlot(b)
    BY <1>11 DEF EmptyRead, Slots
  <2>2. /\ BufOK(b', Slots') /\ b'.expected = b.expected
    BY <1>1, <2>1, FreeSlotOK, SizeFacts
  <2>3. arrivals' \in 0 .. Arrivals
    BY <1>11, ConstantsAssumption DEF EmptyRead, IInv, TypeOK
  <2> QED BY <1>2, <1>11, <2>2, <2>3 DEF EmptyRead, IInv, TypeOK, consVars, BufOK
<1>12. CASE readUpstreamFails
  <2>1. CASE Final
    <3>1. Slots = MaxPackets /\ Slots' = MaxPackets + 1 /\ b' = freeSlot(b)
      BY <1>12, <2>1 DEF readUpstreamFails, Slots
    <3>2. /\ BufOK(b', Slots') /\ b'.expected = b.expected
      BY <1>1, <3>1, FreeSlotOK, SizeFacts
    <3> QED BY <1>2, <1>12, <2>1, <3>2 DEF readUpstreamFails, IInv, TypeOK, consVars, BufOK
  <2>2. CASE ~Final
    <3>1. BufOK(b, Slots)' /\ Order
      BY <1>3, <1>12, <2>2 DEF readUpstreamFails
    <3> QED BY <1>12, <2>2, <3>1 DEF readUpstreamFails, IInv, TypeOK, consVars
  <2> QED BY <2>1, <2>2
<1>13. CASE Notify
  <2>1. BufOK(b, Slots)' /\ Order
    BY <1>3, <1>13 DEF Notify
  <2> QED BY <1>13, <2>1 DEF Notify, notify, IInv, TypeOK, consVars
<1>14. CASE UpdateRTPSession
  <2>1. BufOK(b, Slots)' /\ Order
    BY <1>3, <1>14 DEF UpdateRTPSession
  <2>2. reader' \in 0 .. MaxUpdates
    BY <1>14, ConstantsAssumption DEF UpdateRTPSession, IInv, TypeOK
  <2> QED BY <1>14, <2>1, <2>2 DEF UpdateRTPSession, IInv, TypeOK, consVars
<1>15. CASE Close
  <2>1. BufOK(b, Slots)' /\ Order
    BY <1>3, <1>15 DEF Close
  <2> QED BY <1>15, <2>1 DEF Close, CloseBars, IInv, TypeOK, consVars
<1>16. CASE UNCHANGED vars
  <2>1. BufOK(b, Slots)' /\ Order
    BY <1>3, <1>16 DEF vars, readVars
  <2> QED BY <1>16, <2>1 DEF vars, readVars, consVars, IInv, TypeOK
<1> QED
  BY <1>4, <1>5, <1>6, <1>7, <1>8, <1>9, <1>10, <1>11, <1>12, <1>13, <1>14, <1>15, <1>16
     DEF Next

\* The invariant of the jitter buffer: the types, the window, the count of what is queued
\* and the slots, under all its operations.
THEOREM JitterInvariant == Spec => []IInv
<1>1. IInv /\ [Next]_vars => IInv'
  BY StepOK
<1> QED BY <1>1, InitOK, PTL DEF Spec

\* Whatever arrives in whatever order, what is queued is at its place inside the window,
\* counted, and met by playout; and the read loop never lacks a slot.
THEOREM WindowAlwaysHolds == Spec => []WindowHolds
<1>1. IInv => WindowHolds
  <2> SUFFICES ASSUME IInv PROVE WindowHolds
    OBVIOUS
  <2>1. BufOK(b, Slots) /\ Queued(b) = QueuedIn(b.seq)
    BY BufFacts, BufferFacts DEF IInv
  <2>2. b.queued = Cardinality(Queued(b))
    BY <2>1, BufFacts
  <2>3. \A p \in Positions : b.seq[p] # Absent =>
          /\ Position(b.seq[p]) = p
          /\ Distance(b.seq[p], b.expected) \in 0 .. MaxPackets - 1
    BY <2>1, BufFacts DEF InWindow
  <2>4. b.free + b.queued + (IF loop = "reading" THEN 1 ELSE 0) = MaxPackets + 1
    BY <2>1, BufFacts, SizeFacts DEF Slots
  <2>5. loop = "top" => b.free > 0
    BY <2>1, BufFacts, SizeFacts DEF Slots
  <2> QED BY <2>2, <2>3, <2>4, <2>5 DEF WindowHolds
<1> QED BY <1>1, JitterInvariant, PTL

\* From the first packet played to the next restart of the stream, playout moves forward
\* only, over the wrap of the sequence numbers too.
THEOREM PlayoutAlwaysInOrder == Spec => PlayoutInOrder
<1>1. IInv /\ [Next]_vars =>
        [Playing(b) /\ Playing(b') => Distance(b'.expected, b.expected) >= 0]_vars
  BY StepOK
<1> QED BY <1>1, JitterInvariant, PTL DEF Spec, PlayoutInOrder

=============================================================================
