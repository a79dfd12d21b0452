---------------------------- MODULE BBQueueProofs ----------------------------
(***************************************************************************)
(* What a user of the queue may count on: read as the sequence of its      *)
(* contents, a commit appends, a release takes from the front, reading     *)
(* changes nothing, and neither side disturbs the grant of the other.      *)
(* The arithmetic of the three indices comes first, on plain numbers.      *)
(* What a lemma establishes has a name, so that it is cited as one fact.   *)
(***************************************************************************)
EXTENDS BBQueue, SequenceTheorems, TLAPS

(* With the read index r, the write index w and the end l of the readable region:
   how many cells are committed and not released, how many of them a read() grants,
   and where the k-th of them is. *)
UsedOf(r, w, l)     == IF w < r THEN l - r + w ELSE w - r
FrontOf(r, w, l)    == IF w < r THEN IF r = l THEN w ELSE l - r ELSE w - r
PlaceOf(r, w, l, k) == IF w < r /\ k > l - r THEN k - (l - r) - 1 ELSE r + k - 1

(* n cells from start on are the producer's, with the rest left to the consumer. *)
GrantedAt(size, r, w, start, n) ==
  \/ start = w /\ w + n <= size /\ (w < r => w + n < r)
  \/ start = 0 /\ n < r /\ r <= w

(* What LastAfter() makes of these. *)
LastOf(size, w, l, w2) == IF w2 < w /\ w # size THEN w
                          ELSE IF w2 > l THEN size ELSE l

Used(q)              == UsedOf(q.read, q.write, q.last)
Front(q)             == FrontOf(q.read, q.write, q.last)
Place(q, k)          == PlaceOf(q.read, q.write, q.last, k)
Granted(q, start, n) == GrantedAt(q.size, q.read, q.write, start, n)

(* read() would leave the read index where it is. *)
Settled(q) == ~(q.write < q.read /\ q.read = q.last)

(* A queue of size cells, whatever was done with it. *)
Indexed(q, size) == /\ size \in Nat /\ q.size = size
                    /\ q.read \in Nat /\ q.write \in Nat /\ q.last \in Nat
                    /\ q.read <= q.last /\ q.write <= q.last /\ q.last <= size

WellFormed(q, items, size) == /\ q \in QueueType(items, size)
                              /\ Indexed(q, size)

-----------------------------------------------------------------------------
(* The indices *)

Counted(q, size) ==
  /\ Used(q) \in Nat /\ Front(q) \in Nat /\ Front(q) <= Used(q)
  /\ Used(q) = 0 <=> Front(q) = 0
  /\ \A k \in 1 .. Used(q) : Place(q, k) \in 0 .. size - 1
  /\ Front(q) = IF Settled(q)
                THEN (IF q.write < q.read THEN q.last ELSE q.write) - q.read
                ELSE q.write

LEMMA Counts ==
  ASSUME NEW q, NEW size, Indexed(q, size)
  PROVE  Counted(q, size)
<1>1. PICK r \in Nat, w \in Nat, l \in Nat : r = q.read /\ w = q.write /\ l = q.last
  BY DEF Indexed
<1>2. r <= l /\ w <= l /\ l <= size /\ size \in Nat
  BY <1>1 DEF Indexed
<1>3. /\ Used(q) = UsedOf(r, w, l) /\ Front(q) = FrontOf(r, w, l)
      /\ \A k : Place(q, k) = PlaceOf(r, w, l, k)
      /\ Settled(q) <=> ~(w < r /\ r = l)
  BY <1>1 DEF Used, Front, Place, Settled
<1>4. /\ UsedOf(r, w, l) \in Nat /\ FrontOf(r, w, l) \in Nat
      /\ FrontOf(r, w, l) <= UsedOf(r, w, l)
      /\ UsedOf(r, w, l) = 0 <=> FrontOf(r, w, l) = 0
      /\ \A k \in 1 .. UsedOf(r, w, l) : PlaceOf(r, w, l, k) \in 0 .. size - 1
      /\ FrontOf(r, w, l) = IF ~(w < r /\ r = l) THEN (IF w < r THEN l ELSE w) - r ELSE w
  BY <1>2 DEF UsedOf, FrontOf, PlaceOf
<1>5. \A k \in 1 .. Used(q) : Place(q, k) \in 0 .. size - 1
  BY <1>3, <1>4
<1>6. Front(q) = IF Settled(q)
                 THEN (IF q.write < q.read THEN q.last ELSE q.write) - q.read
                 ELSE q.write
  BY <1>1, <1>3, <1>4
<1>7. QED
  BY <1>3, <1>4, <1>5, <1>6 DEF Counted

(* A commit of m of the n cells granted makes the contents longer by m, leaves what
   was there in its place, and cuts the read grant short only by a wrap. *)
CommitIndices(q, size, start, m, p) ==
  /\ p.size = size /\ p.read = q.read /\ p.write = start + m
  /\ p.last = LastOf(size, q.write, q.last, start + m)

Longer(q, size, start, m, p) ==
  /\ Indexed(p, size)
  /\ Used(p) = Used(q) + m
  /\ \A k \in 1 .. Used(q) : /\ Place(p, k) = Place(q, k)
                             /\ Place(q, k) \notin start .. start + m - 1
  /\ \A k \in 1 .. m : Place(p, Used(q) + k) = start + k - 1
  /\ Settled(q) /\ Front(q) # 0 => Settled(p) /\ Front(q) <= Front(p)
  /\ Front(p) < Used(p) => \/ Front(p) = Used(q)
                           \/ Front(p) = Front(q) /\ Front(q) < Used(q)

LEMMA CommitPlaces ==
  ASSUME NEW q, NEW size, Indexed(q, size),
         NEW start \in Nat, NEW n \in Nat, NEW m \in Nat, m <= n,
         Granted(q, start, n), NEW p, CommitIndices(q, size, start, m, p)
  PROVE  Longer(q, size, start, m, p)
<1>1. PICK r \in Nat, w \in Nat, l \in Nat : r = q.read /\ w = q.write /\ l = q.last
  BY DEF Indexed
<1>2. PICK l2 : l2 = LastOf(size, w, l, start + m)
  OBVIOUS
<1>3. /\ r <= l /\ w <= l /\ l <= size /\ size \in Nat
      /\ GrantedAt(size, r, w, start, n)
  BY <1>1 DEF Granted, Indexed
<1>4. /\ Used(q) = UsedOf(r, w, l) /\ Front(q) = FrontOf(r, w, l)
      /\ \A k : Place(q, k) = PlaceOf(r, w, l, k)
      /\ Settled(q) <=> ~(w < r /\ r = l)
  BY <1>1 DEF Used, Front, Place, Settled
<1>5. p.read = r /\ p.write = start + m /\ p.last = l2 /\ p.size = size
  BY <1>1, <1>2 DEF CommitIndices
<1>6. /\ Used(p) = UsedOf(r, start + m, l2) /\ Front(p) = FrontOf(r, start + m, l2)
      /\ \A k : Place(p, k) = PlaceOf(r, start + m, l2, k)
      /\ Settled(p) <=> ~(start + m < r /\ r = l2)
  BY <1>5 DEF Used, Front, Place, Settled
<1>7. /\ l2 \in Nat /\ r <= l2 /\ start + m <= l2 /\ l2 <= size
      /\ UsedOf(r, start + m, l2) = UsedOf(r, w, l) + m
      /\ \A k \in 1 .. UsedOf(r, w, l) :
           /\ PlaceOf(r, start + m, l2, k) = PlaceOf(r, w, l, k)
           /\ PlaceOf(r, w, l, k) \notin start .. start + m - 1
      /\ \A k \in 1 .. m : PlaceOf(r, start + m, l2, UsedOf(r, w, l) + k) = start + k - 1
      /\ ~(w < r /\ r = l) /\ FrontOf(r, w, l) # 0
           => /\ ~(start + m < r /\ r = l2)
              /\ FrontOf(r, w, l) <= FrontOf(r, start + m, l2)
      /\ FrontOf(r, start + m, l2) < UsedOf(r, start + m, l2)
           => \/ FrontOf(r, start + m, l2) = UsedOf(r, w, l)
              \/ /\ FrontOf(r, start + m, l2) = FrontOf(r, w, l)
                 /\ FrontOf(r, w, l) < UsedOf(r, w, l)
  BY <1>2, <1>3 DEF UsedOf, FrontOf, PlaceOf, GrantedAt, LastOf
<1>8. Used(p) = Used(q) + m
  BY <1>4, <1>6, <1>7
<1>9. \A k \in 1 .. Used(q) : /\ Place(p, k) = Place(q, k)
                              /\ Place(q, k) \notin start .. start + m - 1
  BY <1>4, <1>6, <1>7
<1>10. \A k \in 1 .. m : Place(p, Used(q) + k) = start + k - 1
  BY <1>4, <1>6, <1>7
<1>11. Settled(q) /\ Front(q) # 0 => Settled(p) /\ Front(q) <= Front(p)
  BY <1>4, <1>6, <1>7
<1>12. Front(p) < Used(p) => \/ Front(p) = Used(q)
                             \/ Front(p) = Front(q) /\ Front(q) < Used(q)
  BY <1>4, <1>6, <1>7
<1>13. Indexed(p, size)
  BY <1>3, <1>5, <1>7 DEF Indexed
<1>14. QED
  BY <1>8, <1>9, <1>10, <1>11, <1>12, <1>13, Zenon DEF Longer

(* A release of n cells makes the contents shorter by n, leaves the rest in its place
   and moves no wrap; it takes nothing from a write grant. *)
ReleaseIndices(q, n, p) ==
  p.size = q.size /\ p.read = q.read + n /\ p.write = q.write /\ p.last = q.last

Shorter(q, size, n, p) ==
  /\ Indexed(p, size)
  /\ Used(p) = Used(q) - n
  /\ \A k \in 1 .. Used(p) : /\ Place(p, k) = Place(q, k + n)
                             /\ Place(p, k) \notin q.read .. q.read + n - 1
  /\ Front(p) < Used(p) => Front(p) = Front(q) - n
  /\ n = Front(q) /\ Used(p) # 0 => ~Settled(p)
  /\ \A start \in Nat, m \in Nat : Granted(q, start, m) => Granted(p, start, m)

LEMMA ReleasePlaces ==
  ASSUME NEW q, NEW size, Indexed(q, size), Settled(q),
         NEW n \in Nat, n <= Front(q), NEW p, ReleaseIndices(q, n, p)
  PROVE  Shorter(q, size, n, p)
<1>1. PICK r \in Nat, w \in Nat, l \in Nat : r = q.read /\ w = q.write /\ l = q.last
  BY DEF Indexed
<1>2. /\ r <= l /\ w <= l /\ l <= size /\ size \in Nat /\ q.size = size
      /\ ~(w < r /\ r = l)
  BY <1>1 DEF Indexed, Settled
<1>3. /\ Used(q) = UsedOf(r, w, l) /\ Front(q) = FrontOf(r, w, l)
      /\ \A k : Place(q, k) = PlaceOf(r, w, l, k)
      /\ \A start, m : Granted(q, start, m) <=> GrantedAt(size, r, w, start, m)
  BY <1>1, <1>2 DEF Used, Front, Place, Granted
<1>4. p.read = r + n /\ p.write = w /\ p.last = l /\ p.size = size
  BY <1>1, <1>2 DEF ReleaseIndices
<1>5. /\ Used(p) = UsedOf(r + n, w, l) /\ Front(p) = FrontOf(r + n, w, l)
      /\ \A k : Place(p, k) = PlaceOf(r + n, w, l, k)
      /\ \A start, m : Granted(p, start, m) <=> GrantedAt(size, r + n, w, start, m)
      /\ Settled(p) <=> ~(w < r + n /\ r + n = l)
  BY <1>4 DEF Used, Front, Place, Granted, Settled
<1>6. n <= FrontOf(r, w, l)
  BY <1>3
<1>7. /\ r + n <= l
      /\ UsedOf(r + n, w, l) = UsedOf(r, w, l) - n
      /\ \A k \in 1 .. UsedOf(r + n, w, l) :
           /\ PlaceOf(r + n, w, l, k) = PlaceOf(r, w, l, k + n)
           /\ PlaceOf(r + n, w, l, k) \notin r .. r + n - 1
      /\ FrontOf(r + n, w, l) < UsedOf(r + n, w, l)
           => FrontOf(r + n, w, l) = FrontOf(r, w, l) - n
      /\ n = FrontOf(r, w, l) /\ UsedOf(r + n, w, l) # 0 => w < r + n /\ r + n = l
      /\ \A start \in Nat, m \in Nat :
           GrantedAt(size, r, w, start, m) => GrantedAt(size, r + n, w, start, m)
  BY <1>2, <1>6 DEF UsedOf, FrontOf, PlaceOf, GrantedAt
<1>8. Used(p) = Used(q) - n
  BY <1>3, <1>5, <1>7
<1>9. \A k \in 1 .. Used(p) : /\ Place(p, k) = Place(q, k + n)
                              /\ Place(p, k) \notin q.read .. q.read + n - 1
  BY <1>1, <1>3, <1>5, <1>7
<1>10. Front(p) < Used(p) => Front(p) = Front(q) - n
  BY <1>3, <1>5, <1>7
<1>11. n = Front(q) /\ Used(p) # 0 => ~Settled(p)
  BY <1>3, <1>5, <1>7
<1>12. \A start \in Nat, m \in Nat : Granted(q, start, m) => Granted(p, start, m)
  BY <1>3, <1>5, <1>7
<1>13. Indexed(p, size)
  BY <1>2, <1>4, <1>7 DEF Indexed
<1>14. QED
  BY <1>8, <1>9, <1>10, <1>11, <1>12, <1>13, Zenon DEF Shorter

-----------------------------------------------------------------------------
(* The cells *)

LEMMA Fields ==
  ASSUME NEW items, NEW size, NEW q
  PROVE  WellFormed(q, items, size) <=>
           /\ q = [size |-> size, cells |-> q.cells, read |-> q.read,
                   write |-> q.write, last |-> q.last]
           /\ q.cells \in [0 .. size - 1 -> items \union {Blank}]
           /\ Indexed(q, size)
BY DEF WellFormed, QueueType, Indexed

LEMMA Indices ==
  ASSUME NEW items, NEW size, NEW q, WellFormed(q, items, size)
  PROVE  Indexed(q, size) /\ Counted(q, size)
BY Counts DEF WellFormed

IsRead(q, r) == /\ r.write = q.write /\ r.last = q.last /\ r.cells = q.cells
                /\ r.size = q.size
                /\ r.read = IF Settled(q) THEN q.read ELSE 0

LEMMA ReadFields ==
  ASSUME NEW items, NEW size, NEW q, WellFormed(q, items, size)
  PROVE  /\ IsRead(q, Read(q))
         /\ Read(q) = q <=> Settled(q)
         /\ Read(Read(q)) = Read(q)
         /\ WellFormed(Read(q), items, size)
<1>0. PICK r : r = Read(q)
  OBVIOUS
<1>1. /\ q = [size |-> size, cells |-> q.cells, read |-> q.read,
              write |-> q.write, last |-> q.last]
      /\ q.cells \in [0 .. size - 1 -> items \union {Blank}]
      /\ Indexed(q, size)
  BY Fields
<1>2. CASE ~Settled(q)
  <2>1. r = [size |-> size, cells |-> q.cells, read |-> 0,
             write |-> q.write, last |-> q.last]
    BY <1>0, <1>1, <1>2 DEF Read, Settled
  <2>2. /\ r.write = q.write /\ r.last = q.last /\ r.cells = q.cells /\ r.size = size
        /\ r.read = 0
    BY <2>1
  <2>3. r # q
    BY <1>1, <1>2, <2>2 DEF Settled, Indexed
  <2>4. Read(r) = r
    BY <1>1, <2>2 DEF Read, Indexed
  <2>5. Indexed(r, size)
    BY <1>1, <2>2 DEF Indexed
  <2>6. WellFormed(r, items, size)
    BY <1>1, <2>1, <2>2, <2>5, Fields
  <2>7. IsRead(q, r)
    BY <1>1, <1>2, <2>2 DEF IsRead, Indexed
  <2>8. QED
    BY <1>0, <1>2, <2>3, <2>4, <2>6, <2>7
<1>3. CASE Settled(q)
  <2>1. r = q
    BY <1>0, <1>3 DEF Read, Settled
  <2>2. IsRead(q, q)
    BY <1>3 DEF IsRead
  <2>3. QED
    BY <1>0, <1>3, <2>1, <2>2
<1>4. QED
  BY <1>2, <1>3

(* c is the n cells of q from the front on. *)
ByPlace(c, n, q) == Len(c) = n /\ \A k \in 1 .. n : c[k] = q.cells[Place(q, k)]

(* What a read() grants, cell by cell. *)
LEMMA RegionIs ==
  ASSUME NEW items, NEW size, NEW q, WellFormed(q, items, size)
  PROVE  /\ Region(q) \in Seq(items \union {Blank})
         /\ ByPlace(Region(q), Front(q), q)
<1>1. PICK r : r = Read(q)
  OBVIOUS
<1>2. IsRead(q, r) /\ Indexed(q, size) /\ Counted(q, size)
  BY <1>1, ReadFields, Indices
<1>3. (IF r.write < r.read THEN r.last ELSE r.write) - r.read = Front(q)
  BY <1>2 DEF IsRead, Indexed, Counted, Settled
<1>4. Region(q) = [k \in 1 .. Front(q) |-> r.cells[r.read + k - 1]]
  BY <1>1, <1>3 DEF Region
<1>5. Front(q) \in Nat /\ Front(q) <= Used(q) /\ Used(q) \in Nat
  BY <1>2 DEF Counted
<1>6. ASSUME NEW k \in 1 .. Front(q)
      PROVE  /\ r.cells[r.read + k - 1] = q.cells[Place(q, k)]
             /\ q.cells[Place(q, k)] \in items \union {Blank}
  <2>1. r.read + k - 1 = Place(q, k)
    <3>1. CASE Settled(q)
      BY <1>2, <1>6, <3>1 DEF Place, PlaceOf, IsRead, Indexed, Counted, Settled
    <3>2. CASE ~Settled(q)
      BY <1>2, <1>6, <3>2 DEF Place, PlaceOf, IsRead, Indexed, Counted, Settled
    <3>3. QED
      BY <3>1, <3>2
  <2>2. k \in 1 .. Used(q)
    BY <1>5
  <2>3. Place(q, k) \in 0 .. size - 1
    BY <1>2, <2>2 DEF Counted
  <2>4. q.cells \in [0 .. size - 1 -> items \union {Blank}]
    BY Fields
  <2>5. r.cells = q.cells
    BY <1>2 DEF IsRead
  <2>6. QED
    BY <2>1, <2>3, <2>4, <2>5
<1>7. PICK g : g = Region(q)
  OBVIOUS
<1>8. g \in Seq(items \union {Blank})
  BY <1>4, <1>5, <1>6, <1>7
<1>9. Len(g) = Front(q) /\ \A k \in 1 .. Front(q) : g[k] = q.cells[Place(q, k)]
  BY <1>4, <1>5, <1>6, <1>7
<1>10. QED
  BY <1>7, <1>8, <1>9 DEF ByPlace

(* All that is committed and not released, cell by cell. *)
LEMMA ContentsIs ==
  ASSUME NEW items, NEW size, NEW q, WellFormed(q, items, size)
  PROVE  /\ Contents(q) \in Seq(items \union {Blank})
         /\ ByPlace(Contents(q), Used(q), q)
<1>1. PICK r : r = Read(q)
  OBVIOUS
<1>2. PICK g : g = Region(q)
  OBVIOUS
<1>3. IsRead(q, r) /\ Indexed(q, size) /\ Counted(q, size)
  BY <1>1, ReadFields, Indices
<1>4. g \in Seq(items \union {Blank}) /\ ByPlace(g, Front(q), q)
  BY <1>2, RegionIs
<1>5. Front(q) \in Nat /\ Used(q) \in Nat /\ q.write \in Nat
  BY <1>3 DEF Counted, Indexed
<1>6. CASE r.write < r.read
  <2>1. PICK t : t = [k \in 1 .. r.write |-> r.cells[k - 1]]
    OBVIOUS
  <2>2. Contents(q) = g \o t
    BY <1>1, <1>2, <1>6, <2>1 DEF Contents
  <2>3. q.write < q.read /\ Settled(q)
    BY <1>3, <1>6 DEF IsRead, Indexed
  <2>4. Front(q) = q.last - q.read /\ Used(q) = Front(q) + q.write /\ q.write <= size
    BY <1>3, <2>3 DEF Front, FrontOf, Used, UsedOf, Indexed, Settled
  <2>5. t = [k \in 1 .. q.write |-> q.cells[k - 1]]
    BY <1>3, <2>1 DEF IsRead
  <2>6. q.cells \in [0 .. size - 1 -> items \union {Blank}]
    BY Fields
  <2>7. \A k \in 1 .. q.write : q.cells[k - 1] \in items \union {Blank}
    BY <1>3, <2>4, <2>6 DEF Indexed
  <2>8. t \in Seq(items \union {Blank}) /\ Len(t) = q.write
    BY <1>5, <2>5, <2>7
  <2>9. Len(g) = Front(q)
    BY <1>4 DEF ByPlace
  <2>10. PICK c : c = Contents(q)
    OBVIOUS
  <2>11. /\ c \in Seq(items \union {Blank}) /\ Len(c) = Used(q)
         /\ \A k \in 1 .. Used(q) : c[k] = IF k <= Front(q) THEN g[k] ELSE t[k - Front(q)]
    BY <1>4, <2>2, <2>4, <2>8, <2>9, <2>10, ConcatProperties
  <2>12. ASSUME NEW k \in 1 .. Used(q) PROVE c[k] = q.cells[Place(q, k)]
    <3>1. CASE k <= Front(q)
      <4>1. k \in 1 .. Front(q)
        BY <1>5, <3>1
      <4>2. QED
        BY <3>1, <4>1, <1>4, <2>11 DEF ByPlace
    <3>2. CASE ~(k <= Front(q))
      <4>1. k - Front(q) \in 1 .. q.write
        BY <3>2, <1>5, <2>4
      <4>2. t[k - Front(q)] = q.cells[k - Front(q) - 1]
        BY <4>1, <2>5
      <4>3. Place(q, k) = k - Front(q) - 1
        BY <3>2, <1>3, <2>3, <2>4 DEF Place, PlaceOf, Indexed
      <4>4. QED
        BY <3>2, <4>2, <4>3, <2>11
    <3>3. QED
      BY <3>1, <3>2
  <2>13. QED
    BY <2>10, <2>11, <2>12 DEF ByPlace
<1>7. CASE ~(r.write < r.read)
  <2>1. Contents(q) = g
    BY <1>1, <1>2, <1>7 DEF Contents
  <2>2. Front(q) = Used(q)
    BY <1>3, <1>7 DEF IsRead, Indexed, Used, UsedOf, Front, FrontOf, Settled
  <2>3. QED
    BY <2>1, <2>2, <1>4
<1>8. QED
  BY <1>6, <1>7

-----------------------------------------------------------------------------
(* read() *)

LEMMA NewQueueIs ==
  ASSUME NEW items, NEW size \in Nat
  PROVE  WellFormed(NewQueue(size), items, size) /\ Contents(NewQueue(size)) = <<>>
BY DEF WellFormed, NewQueue, QueueType, Indexed, Contents, Region, Read

(* A read grant is the front of the contents, and empty only if they are. *)
IsFront(g, c) == /\ Len(g) <= Len(c)
                 /\ \A k \in 1 .. Len(g) : g[k] = c[k]
                 /\ Len(g) = 0 <=> Len(c) = 0

LEMMA RegionFront ==
  ASSUME NEW items, NEW size, NEW q, WellFormed(q, items, size)
  PROVE  IsFront(Region(q), Contents(q))
<1>1. ByPlace(Region(q), Front(q), q) /\ ByPlace(Contents(q), Used(q), q)
  BY RegionIs, ContentsIs
<1>2. /\ Used(q) \in Nat /\ Front(q) \in Nat /\ Front(q) <= Used(q)
      /\ Used(q) = 0 <=> Front(q) = 0
  BY Indices DEF Counted
<1>3. \A k \in 1 .. Front(q) : k \in 1 .. Used(q)
  BY <1>2
<1>4. QED
  BY <1>1, <1>2, <1>3 DEF ByPlace, IsFront

(* Reading moves an index and nothing else. *)
LEMMA ReadIs ==
  ASSUME NEW items, NEW size, NEW q, WellFormed(q, items, size)
  PROVE  /\ WellFormed(Read(q), items, size) /\ Read(Read(q)) = Read(q)
         /\ Contents(Read(q)) = Contents(q) /\ Region(Read(q)) = Region(q)
<1>1. WellFormed(Read(q), items, size) /\ Read(Read(q)) = Read(q)
  BY ReadFields
<1>2. Region(Read(q)) = Region(q)
  BY <1>1, Zenon DEF Region
<1>3. Contents(Read(q)) = Contents(q)
  BY <1>1, <1>2, Zenon DEF Contents
<1>4. QED
  BY <1>1, <1>2, <1>3

-----------------------------------------------------------------------------
(* grant_exact() and commit() *)

(* grant_exact() grants what is free. *)
LEMMA GrantIs ==
  ASSUME NEW items, NEW size, NEW q, WellFormed(q, items, size),
         NEW n \in Nat \ {0}, GrantExact(q, n) # Failed
  PROVE  /\ GrantExact(q, n) \in Nat /\ GrantExact(q, n) <= size
         /\ Granted(q, GrantExact(q, n), n)
BY DEF WellFormed, Indexed, GrantExact, Granted, GrantedAt, Failed

(* s, written into n granted cells, is committed. *)
ACommit(q, items, size, start, n, s, p) ==
  /\ WellFormed(q, items, size)
  /\ start \in Nat /\ n \in Nat /\ Granted(q, start, n)
  /\ s \in Seq(items) /\ Len(s) <= n
  /\ p = Commit(q, start, s)

Committed(q, size, start, s, p) ==
  /\ CommitIndices(q, size, start, Len(s), p)
  /\ \A c \in 0 .. size - 1 : p.cells[c] = IF c \in start .. start + Len(s) - 1
                                           THEN s[c - start + 1] ELSE q.cells[c]

LEMMA CommitFields ==
  ASSUME NEW items, NEW size, NEW q, NEW start, NEW n, NEW s, NEW p,
         ACommit(q, items, size, start, n, s, p)
  PROVE  /\ WellFormed(p, items, size)
         /\ Committed(q, size, start, s, p)
         /\ Longer(q, size, start, Len(s), p)
<1>1. /\ q = [size |-> size, cells |-> q.cells, read |-> q.read,
              write |-> q.write, last |-> q.last]
      /\ q.cells \in [0 .. size - 1 -> items \union {Blank}]
      /\ Indexed(q, size)
  BY Fields DEF ACommit
<1>2. /\ start \in Nat /\ n \in Nat /\ Granted(q, start, n)
      /\ s \in Seq(items) /\ Len(s) <= n /\ Len(s) \in Nat
      /\ \A j \in 1 .. Len(s) : s[j] \in items
  BY DEF ACommit
<1>3. PICK l2 : l2 = LastOf(size, q.write, q.last, start + Len(s))
  OBVIOUS
<1>4. PICK m : m = [c \in 0 .. size - 1 |-> IF c \in start .. start + Len(s) - 1
                                            THEN s[c - start + 1] ELSE q.cells[c]]
  OBVIOUS
<1>5. p = [q EXCEPT !.cells = m, !.last = l2, !.write = start + Len(s)]
  <2>1. DOMAIN q.cells = 0 .. size - 1 /\ q.size = size
    BY <1>1 DEF Indexed
  <2>2. l2 = LastAfter(q, start + Len(s))
    BY <1>3, <2>1 DEF LastOf, LastAfter
  <2>3. m = Overwritten(q.cells, start, s)
    BY <1>4, <2>1 DEF Overwritten
  <2>4. QED
    BY <2>2, <2>3, Zenon DEF Commit, ACommit
<1>6. p = [size |-> size, cells |-> m, read |-> q.read, write |-> start + Len(s),
           last |-> l2]
  <2>1. PICK z, w : z = start + Len(s) /\ w = q.cells
    OBVIOUS
  <2>2. PICK r, v, l : r = q.read /\ v = q.write /\ l = q.last
    OBVIOUS
  <2>3. q = [size |-> size, cells |-> w, read |-> r, write |-> v, last |-> l]
    BY <1>1, <2>1, <2>2
  <2>4. p = [size |-> size, cells |-> m, read |-> r, write |-> z, last |-> l2]
    <3>1. PICK a : a = [q EXCEPT !.cells = m]
      OBVIOUS
    <3>2. PICK b : b = [a EXCEPT !.last = l2]
      OBVIOUS
    <3>3. a = [size |-> size, cells |-> m, read |-> r, write |-> v, last |-> l]
      BY <2>3, <3>1
    <3>4. b = [size |-> size, cells |-> m, read |-> r, write |-> v, last |-> l2]
      BY <3>2, <3>3
    <3>5. p = [b EXCEPT !.write = z]
      BY <1>5, <2>1, <3>1, <3>2
    <3>6. QED
      BY <3>4, <3>5
  <2>5. QED
    BY <2>1, <2>2, <2>4
<1>7. p.size = size /\ p.cells = m /\ p.read = q.read /\ p.write = start + Len(s)
      /\ p.last = l2
  BY <1>6
<1>8. CommitIndices(q, size, start, Len(s), p)
  BY <1>3, <1>7 DEF CommitIndices
<1>9. Longer(q, size, start, Len(s), p)
  BY <1>1, <1>2, <1>8, CommitPlaces
<1>10. m \in [0 .. size - 1 -> items \union {Blank}]
  <2>1. SUFFICES ASSUME NEW c \in 0 .. size - 1
                 PROVE  (IF c \in start .. start + Len(s) - 1
                         THEN s[c - start + 1] ELSE q.cells[c]) \in items \union {Blank}
    BY <1>4
  <2>2. CASE c \in start .. start + Len(s) - 1
    <3>1. c - start + 1 \in 1 .. Len(s)
      BY <1>2, <2>2
    <3>2. QED
      BY <1>2, <2>2, <3>1
  <2>3. CASE c \notin start .. start + Len(s) - 1
    BY <1>1, <2>3
  <2>4. QED
    BY <2>2, <2>3
<1>11. WellFormed(p, items, size)
  <2>1. Indexed(p, size)
    BY <1>9 DEF Longer
  <2>2. p = [size |-> size, cells |-> p.cells, read |-> p.read, write |-> p.write,
             last |-> p.last]
    BY <1>6, <1>7
  <2>3. p.cells \in [0 .. size - 1 -> items \union {Blank}]
    BY <1>7, <1>10
  <2>4. QED
    BY <2>1, <2>2, <2>3, Fields
<1>12. Committed(q, size, start, s, p)
  BY <1>4, <1>7, <1>8 DEF Committed
<1>13. QED
  BY <1>9, <1>11, <1>12

LEMMA Concatenation ==
  ASSUME NEW S, NEW a \in Seq(S), NEW b \in Seq(S), NEW d \in Seq(S),
         Len(d) = Len(a) + Len(b),
         \A k \in 1 .. Len(a) : d[k] = a[k],
         \A k \in 1 .. Len(b) : d[Len(a) + k] = b[k]
  PROVE  d = a \o b
<1>1. Len(a) \in Nat /\ Len(b) \in Nat
  OBVIOUS
<1>2. ASSUME NEW k \in 1 .. Len(a) + Len(b)
      PROVE  d[k] = IF k <= Len(a) THEN a[k] ELSE b[k - Len(a)]
  <2>1. CASE k <= Len(a)
    BY <1>1, <2>1
  <2>2. CASE ~(k <= Len(a))
    <3>1. k - Len(a) \in 1 .. Len(b) /\ Len(a) + (k - Len(a)) = k
      BY <1>1, <2>2
    <3>2. QED
      BY <2>2, <3>1
  <2>3. QED
    BY <2>1, <2>2
<1>3. /\ a \o b \in Seq(S) /\ Len(a \o b) = Len(a) + Len(b)
      /\ \A k \in 1 .. Len(a) + Len(b) :
           (a \o b)[k] = IF k <= Len(a) THEN a[k] ELSE b[k - Len(a)]
  BY ConcatProperties
<1>4. PICK e : e = a \o b
  OBVIOUS
<1>5. e \in Seq(S) /\ Len(d) = Len(e) /\ \A k \in 1 .. Len(d) : d[k] = e[k]
  BY <1>2, <1>3, <1>4
<1>6. d = e
  BY <1>5, SeqEqual
<1>7. QED
  BY <1>4, <1>6

(* A commit appends what was written to the contents. *)
THEOREM CommitAppends ==
  ASSUME NEW items, NEW size, NEW q, NEW start, NEW n, NEW s, NEW p,
         ACommit(q, items, size, start, n, s, p)
  PROVE  WellFormed(p, items, size) /\ Contents(p) = Contents(q) \o s
<1>1. /\ WellFormed(p, items, size)
      /\ Committed(q, size, start, s, p)
      /\ Longer(q, size, start, Len(s), p)
  BY CommitFields
<1>2. /\ WellFormed(q, items, size) /\ start \in Nat
      /\ s \in Seq(items) /\ Len(s) \in Nat
  BY DEF ACommit
<1>3. Counted(q, size) /\ Counted(p, size)
  BY <1>1, <1>2, Indices
<1>4. PICK c : c = Contents(q)
  OBVIOUS
<1>5. PICK d : d = Contents(p)
  OBVIOUS
<1>6. c \in Seq(items \union {Blank}) /\ ByPlace(c, Used(q), q)
  BY <1>2, <1>4, ContentsIs
<1>7. d \in Seq(items \union {Blank}) /\ ByPlace(d, Used(p), p)
  BY <1>1, <1>5, ContentsIs
<1>8. Used(q) \in Nat /\ Used(p) \in Nat /\ Used(p) = Used(q) + Len(s)
  BY <1>1, <1>3 DEF Counted, Longer
<1>9. ASSUME NEW k \in 1 .. Used(q)
      PROVE  d[k] = c[k]
  <2>1. k \in 1 .. Used(p)
    BY <1>2, <1>8
  <2>2. /\ Place(p, k) = Place(q, k) /\ Place(q, k) \in 0 .. size - 1
        /\ Place(q, k) \notin start .. start + Len(s) - 1
    BY <1>1, <1>3 DEF Counted, Longer
  <2>3. p.cells[Place(p, k)] = q.cells[Place(q, k)]
    BY <1>1, <2>2 DEF Committed
  <2>4. QED
    BY <2>1, <2>3, <1>6, <1>7 DEF ByPlace
<1>10. ASSUME NEW k \in 1 .. Len(s)
       PROVE  d[Used(q) + k] = s[k]
  <2>1. Used(q) + k \in 1 .. Used(p)
    BY <1>2, <1>8
  <2>2. Place(p, Used(q) + k) = start + k - 1
    BY <1>1 DEF Longer
  <2>3. start + k - 1 \in 0 .. size - 1
    BY <1>3, <2>1, <2>2 DEF Counted
  <2>4. start + k - 1 \in start .. start + Len(s) - 1 /\ (start + k - 1) - start + 1 = k
    BY <1>2
  <2>5. p.cells[start + k - 1] = s[k]
    BY <1>1, <2>3, <2>4 DEF Committed
  <2>6. QED
    BY <2>1, <2>2, <2>5, <1>7 DEF ByPlace
<1>11. Len(c) = Used(q) /\ Len(d) = Len(c) + Len(s)
  BY <1>6, <1>7, <1>8 DEF ByPlace
<1>12. s \in Seq(items \union {Blank})
  BY <1>2
<1>13. d = c \o s
  <2>1. /\ \A k \in 1 .. Len(c) : d[k] = c[k]
        /\ \A k \in 1 .. Len(s) : d[Len(c) + k] = s[k]
    BY <1>9, <1>10, <1>11
  <2>2. QED
    BY <1>6, <1>7, <1>11, <1>12, <2>1, Concatenation
<1>14. QED
  BY <1>1, <1>4, <1>5, <1>13

(* A commit leaves the consumer's grant where it was. *)
LEMMA CommitKeepsRegion ==
  ASSUME NEW items, NEW size, NEW q, NEW start, NEW n, NEW s, NEW p,
         ACommit(q, items, size, start, n, s, p),
         Read(q) = q, Len(Region(q)) # 0
  PROVE  Read(p) = p /\ p.read = q.read /\ Len(Region(q)) <= Len(Region(p))
<1>1. /\ WellFormed(q, items, size) /\ WellFormed(p, items, size)
      /\ Committed(q, size, start, s, p)
      /\ Longer(q, size, start, Len(s), p)
  BY CommitFields DEF ACommit
<1>2. Settled(q)
  BY <1>1, ReadFields
<1>3. ByPlace(Region(p), Front(p), p) /\ ByPlace(Region(q), Front(q), q)
  BY <1>1, RegionIs
<1>4. Len(Region(p)) = Front(p) /\ Len(Region(q)) = Front(q)
  BY <1>3 DEF ByPlace
<1>5. Settled(p) /\ Front(q) <= Front(p)
  BY <1>1, <1>2, <1>4 DEF Longer
<1>6. Read(p) = p
  BY <1>1, <1>5, ReadFields
<1>7. p.read = q.read
  BY <1>1 DEF Committed, CommitIndices
<1>8. QED
  BY <1>4, <1>5, <1>6, <1>7

(* Only a wrap cuts the read grant short of the contents: it ends where they did
   before the commit, or where it did. *)
LEMMA CommitBoundary ==
  ASSUME NEW items, NEW size, NEW q, NEW start, NEW n, NEW s, NEW p,
         ACommit(q, items, size, start, n, s, p),
         Len(Region(p)) < Len(Contents(p))
  PROVE  \/ Len(Region(p)) = Len(Contents(q))
         \/ Len(Region(p)) = Len(Region(q)) /\ Len(Region(q)) < Len(Contents(q))
<1>1. /\ WellFormed(q, items, size) /\ WellFormed(p, items, size)
      /\ Longer(q, size, start, Len(s), p)
  BY CommitFields DEF ACommit
<1>2. /\ ByPlace(Region(p), Front(p), p) /\ ByPlace(Region(q), Front(q), q)
      /\ ByPlace(Contents(p), Used(p), p) /\ ByPlace(Contents(q), Used(q), q)
  BY <1>1, RegionIs, ContentsIs
<1>3. /\ Len(Region(p)) = Front(p) /\ Len(Region(q)) = Front(q)
      /\ Len(Contents(p)) = Used(p) /\ Len(Contents(q)) = Used(q)
  BY <1>2 DEF ByPlace
<1>4. Front(p) < Used(p) => \/ Front(p) = Used(q)
                            \/ Front(p) = Front(q) /\ Front(q) < Used(q)
  BY <1>1 DEF Longer
<1>5. QED
  BY <1>3, <1>4

-----------------------------------------------------------------------------
(* release() *)

(* n cells of a read grant are released. *)
ARelease(q, items, size, n, p) ==
  /\ WellFormed(q, items, size)
  /\ Read(q) = q /\ n \in Nat /\ n <= Len(Region(q))
  /\ p = Release(q, n)

Released(q, size, n, p) ==
  /\ ReleaseIndices(q, n, p)
  /\ \A c \in 0 .. size - 1 :
       p.cells[c] = IF c \in q.read .. q.read + n - 1 THEN Blank ELSE q.cells[c]

LEMMA ReleaseFields ==
  ASSUME NEW items, NEW size, NEW q, NEW n, NEW p, ARelease(q, items, size, n, p)
  PROVE  /\ n <= Front(q)
         /\ WellFormed(p, items, size)
         /\ Released(q, size, n, p)
         /\ Shorter(q, size, n, p)
<1>1. /\ q = [size |-> size, cells |-> q.cells, read |-> q.read,
              write |-> q.write, last |-> q.last]
      /\ q.cells \in [0 .. size - 1 -> items \union {Blank}]
      /\ Indexed(q, size)
  BY Fields DEF ARelease
<1>2. WellFormed(q, items, size) /\ n \in Nat
  BY DEF ARelease
<1>3. Settled(q)
  BY <1>2, ReadFields DEF ARelease
<1>4. n <= Front(q)
  <2>1. ByPlace(Region(q), Front(q), q)
    BY <1>2, RegionIs
  <2>2. QED
    BY <2>1 DEF ByPlace, ARelease
<1>5. PICK m : m = [c \in 0 .. size - 1 |->
                      IF c \in q.read .. q.read + n - 1 THEN Blank ELSE q.cells[c]]
  OBVIOUS
<1>6. p = [q EXCEPT !.read = q.read + n, !.cells = m]
  <2>1. DOMAIN q.cells = 0 .. size - 1
    BY <1>1
  <2>2. QED
    BY <1>5, <2>1 DEF Release, ARelease
<1>7. p = [size |-> size, cells |-> m, read |-> q.read + n, write |-> q.write,
           last |-> q.last]
  <2>1. PICK z, w : z = q.read + n /\ w = q.cells
    OBVIOUS
  <2>2. PICK r, v, l : r = q.read /\ v = q.write /\ l = q.last
    OBVIOUS
  <2>3. q = [size |-> size, cells |-> w, read |-> r, write |-> v, last |-> l]
    BY <1>1, <2>1, <2>2
  <2>4. p = [size |-> size, cells |-> m, read |-> z, write |-> v, last |-> l]
    <3>1. PICK a : a = [q EXCEPT !.read = z]
      OBVIOUS
    <3>2. a = [size |-> size, cells |-> w, read |-> z, write |-> v, last |-> l]
      BY <2>3, <3>1
    <3>3. p = [a EXCEPT !.cells = m]
      BY <1>6, <2>1, <3>1
    <3>4. QED
      BY <3>2, <3>3
  <2>5. QED
    BY <2>1, <2>2, <2>4
<1>8. /\ p.read = q.read + n /\ p.write = q.write /\ p.last = q.last /\ p.size = size
      /\ p.cells = m
  BY <1>7
<1>9. ReleaseIndices(q, n, p)
  BY <1>1, <1>8 DEF ReleaseIndices, Indexed
<1>10. Shorter(q, size, n, p)
  BY <1>1, <1>2, <1>3, <1>4, <1>9, ReleasePlaces
<1>11. m \in [0 .. size - 1 -> items \union {Blank}]
  BY <1>1, <1>5
<1>12. WellFormed(p, items, size)
  <2>1. Indexed(p, size)
    BY <1>10 DEF Shorter
  <2>2. p = [size |-> size, cells |-> p.cells, read |-> p.read, write |-> p.write,
             last |-> p.last]
    BY <1>7, <1>8
  <2>3. p.cells \in [0 .. size - 1 -> items \union {Blank}]
    BY <1>8, <1>11
  <2>4. QED
    BY <2>1, <2>2, <2>3, Fields
<1>13. Released(q, size, n, p)
  BY <1>5, <1>8, <1>9 DEF Released
<1>14. QED
  BY <1>4, <1>10, <1>12, <1>13

(* d is what is left of c without its first n elements. *)
Drops(c, n, d) == /\ n <= Len(c) /\ Len(d) = Len(c) - n
                  /\ \A k \in 1 .. Len(d) : d[k] = c[k + n]

(* A release of part of the read grant takes it from the front of the contents. *)
THEOREM ReleaseDrops ==
  ASSUME NEW items, NEW size, NEW q, NEW n, NEW p, ARelease(q, items, size, n, p)
  PROVE  WellFormed(p, items, size) /\ Drops(Contents(q), n, Contents(p))
<1>1. /\ n <= Front(q)
      /\ WellFormed(p, items, size)
      /\ Released(q, size, n, p)
      /\ Shorter(q, size, n, p)
  BY ReleaseFields
<1>2. WellFormed(q, items, size) /\ n \in Nat
  BY DEF ARelease
<1>3. Counted(q, size) /\ Counted(p, size)
  BY <1>1, <1>2, Indices
<1>4. PICK c : c = Contents(q)
  OBVIOUS
<1>5. PICK d : d = Contents(p)
  OBVIOUS
<1>6. ByPlace(c, Used(q), q) /\ ByPlace(d, Used(p), p)
  BY <1>1, <1>2, <1>4, <1>5, ContentsIs
<1>7. /\ Used(q) \in Nat /\ Used(p) \in Nat /\ Used(p) = Used(q) - n
      /\ Front(q) \in Nat /\ Front(q) <= Used(q)
  BY <1>1, <1>3 DEF Counted, Shorter
<1>8. ASSUME NEW k \in 1 .. Used(p)
      PROVE  d[k] = c[k + n]
  <2>1. k + n \in 1 .. Used(q)
    BY <1>2, <1>7
  <2>2. /\ Place(p, k) = Place(q, k + n) /\ Place(p, k) \in 0 .. size - 1
        /\ Place(p, k) \notin q.read .. q.read + n - 1
    BY <1>1, <1>3 DEF Counted, Shorter
  <2>3. p.cells[Place(p, k)] = q.cells[Place(q, k + n)]
    BY <1>1, <2>2 DEF Released
  <2>4. QED
    BY <2>1, <2>3, <1>6 DEF ByPlace
<1>9. Len(c) = Used(q) /\ Len(d) = Used(p)
  BY <1>6 DEF ByPlace
<1>10. Drops(c, n, d)
  BY <1>1, <1>2, <1>7, <1>8, <1>9 DEF Drops
<1>11. QED
  BY <1>1, <1>4, <1>5, <1>10

(* What is left behind a read grant that was released whole is only reached by
   wrapping. *)
LEMMA ReleaseAll ==
  ASSUME NEW items, NEW size, NEW q, NEW n, NEW p, ARelease(q, items, size, n, p),
         n = Len(Region(q)), Len(Contents(p)) # 0
  PROVE  Read(p) # p
<1>1. WellFormed(p, items, size) /\ Shorter(q, size, n, p)
  BY ReleaseFields
<1>2. WellFormed(q, items, size)
  BY DEF ARelease
<1>3. ByPlace(Contents(p), Used(p), p) /\ ByPlace(Region(q), Front(q), q)
  BY <1>1, <1>2, ContentsIs, RegionIs
<1>4. ~Settled(p)
  BY <1>1, <1>3 DEF ByPlace, Shorter
<1>5. QED
  BY <1>1, <1>4, ReadFields

(* The wrap stays where it is, or is passed. *)
LEMMA ReleaseBoundary ==
  ASSUME NEW items, NEW size, NEW q, NEW n, NEW p, ARelease(q, items, size, n, p),
         Len(Region(p)) < Len(Contents(p))
  PROVE  Len(Region(p)) = Len(Region(q)) - n
<1>1. WellFormed(p, items, size) /\ Shorter(q, size, n, p)
  BY ReleaseFields
<1>2. WellFormed(q, items, size)
  BY DEF ARelease
<1>3. /\ ByPlace(Region(p), Front(p), p) /\ ByPlace(Region(q), Front(q), q)
      /\ ByPlace(Contents(p), Used(p), p)
  BY <1>1, <1>2, RegionIs, ContentsIs
<1>4. Front(p) < Used(p) => Front(p) = Front(q) - n
  BY <1>1 DEF Shorter
<1>5. QED
  BY <1>3, <1>4 DEF ByPlace

(* The consumer leaves the producer's grant alone. *)
LEMMA ReadKeepsGrant ==
  ASSUME NEW items, NEW size, NEW q, WellFormed(q, items, size),
         NEW start \in Nat, NEW n \in Nat, Granted(q, start, n)
  PROVE  Granted(Read(q), start, n)
<1>1. PICK r : r = Read(q)
  OBVIOUS
<1>2. IsRead(q, r) /\ Indexed(q, size)
  BY <1>1, ReadFields, Indices
<1>3. CASE Settled(q)
  BY <1>3, ReadFields
<1>4. CASE ~Settled(q)
  <2>1. q.write < q.read /\ q.read = q.last
    BY <1>4 DEF Settled
  <2>2. r.read = 0 /\ r.write = q.write /\ r.size = size
    BY <1>2, <1>4 DEF IsRead, Indexed
  <2>3. PICK w \in Nat, l \in Nat : w = q.write /\ l = q.last
    BY <1>2 DEF Indexed
  <2>4. GrantedAt(size, l, w, start, n) /\ w < l /\ l <= size /\ size \in Nat
    BY <1>2, <2>1, <2>3 DEF Granted, Indexed
  <2>5. GrantedAt(size, 0, w, start, n)
    BY <2>4 DEF GrantedAt
  <2>6. QED
    BY <1>1, <2>2, <2>3, <2>5 DEF Granted
<1>5. QED
  BY <1>3, <1>4

LEMMA ReleaseKeepsGrant ==
  ASSUME NEW items, NEW size, NEW q, NEW m, NEW p, ARelease(q, items, size, m, p),
         NEW start \in Nat, NEW n \in Nat, Granted(q, start, n)
  PROVE  Granted(p, start, n)
<1>1. Shorter(q, size, m, p)
  BY ReleaseFields
<1>2. QED
  BY <1>1 DEF Shorter
=============================================================================
