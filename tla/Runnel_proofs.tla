--------------------------- MODULE Runnel_proofs ----------------------------
(***************************************************************************)
(* The ring of a Runnel implements a bounded byte stream, for any bytes,   *)
(* any capacity and any width of the cursors above it.                     *)
(***************************************************************************)
EXTENDS Runnel, SequenceTheorems, TLAPS

(* Cursors modulo a width.                                                 *)

LEMMA Division ==
  ASSUME NEW x \in Int, NEW d \in Nat \ {0}
  PROVE  /\ x \div d \in Int /\ x % d \in Int
         /\ x = d * (x \div d) + (x % d)
         /\ 0 <= x % d /\ x % d < d
BY SMT

LEMMA Remainder ==
  ASSUME NEW d \in Nat \ {0}, NEW q \in Int, NEW r \in Int, 0 <= r, r < d
  PROVE  (d * q + r) % d = r
<1> DEFINE x == d * q + r
           k == x \div d
           s == x % d
<1>1. x \in Int BY SMT
<1>2. k \in Int /\ s \in Int /\ x = d * k + s /\ 0 <= s /\ s < d BY <1>1, Division
<1>3. d * (q - k) = s - r BY <1>2, SMT
<1>4. q - k < 1 BY <1>2, <1>3, SMT
<1>5. q - k > -1 BY <1>2, <1>3, SMT
<1>. QED BY <1>2, <1>3, <1>4, <1>5, SMT

\* The distance of two cursors is that of the counts, as long as it is less than the width.
LEMMA Distance ==
  ASSUME NEW d \in Nat \ {0}, NEW a \in Nat, NEW b \in Nat, NEW n \in Nat, n < d,
         a - b = n \/ a - b = n - d
  PROVE  ((a % d) + d - (b % d)) % d = n
<1> DEFINE qa == a \div d
           qb == b \div d
           ra == a % d
           rb == b % d
           k  == IF a - b = n THEN 1 - qa + qb ELSE -qa + qb
<1>1. /\ qa \in Int /\ ra \in Int /\ a = d * qa + ra /\ 0 <= ra /\ ra < d
      /\ qb \in Int /\ rb \in Int /\ b = d * qb + rb /\ 0 <= rb /\ rb < d
  BY Division
<1> HIDE DEF qa, qb, ra, rb
<1>2. k \in Int /\ ra + d - rb = d * k + n BY <1>1, SMT
<1> HIDE DEF k
<1>3. (d * k + n) % d = n BY <1>2, Remainder
<1>. QED BY <1>2, <1>3 DEF ra, rb

\* Advancing a cursor is advancing the count.
LEMMA Advance ==
  ASSUME NEW d \in Nat \ {0}, NEW a \in Nat, NEW n \in Nat
  PROVE  ((a % d) + n) % d = (a + n) % d
<1> DEFINE qa == a \div d
           ra == a % d
           qs == (a + n) \div d
           rs == (a + n) % d
           k  == qs - qa
<1>1. /\ qa \in Int /\ ra \in Int /\ a = d * qa + ra
      /\ qs \in Int /\ rs \in Int /\ a + n = d * qs + rs /\ 0 <= rs /\ rs < d
  BY Division
<1> HIDE DEF qa, qs, ra, rs
<1>2. k \in Int /\ ra + n = d * k + rs BY <1>1, SMT
<1> HIDE DEF k
<1>3. (d * k + rs) % d = rs BY <1>1, <1>2, Remainder
<1>. QED BY <1>2, <1>3 DEF ra, rs

\* Counts with one cursor are equal when they are closer than the width.
LEMMA SameCursor ==
  ASSUME NEW d \in Nat \ {0}, NEW a \in Nat, NEW b \in Nat, b <= a, a - b < d, a % d = b % d
  PROVE  a = b
<1> DEFINE n == a - b
<1>0. n \in Nat /\ n < d /\ a - b = n OBVIOUS
<1> HIDE DEF n
<1>1. ((a % d) + d - (b % d)) % d = n BY <1>0, Distance
<1>2. a % d \in Int /\ d * 1 + 0 = (a % d) + d - (b % d) BY Division, SMT
<1>3. (d * 1 + 0) % d = 0 BY Remainder
<1>. QED BY <1>0, <1>1, <1>2, <1>3

-----------------------------------------------------------------------------
(* The inductive invariant.                                                *)

Memory == [head : Nat, tail : Nat, eof : BOOLEAN, ring : [0 .. Capacity - 1 -> Nat]]
ProducerPc == {"write", "publish", "notify", "ack", "wait", "close", "closed"}
ProducerState == [pc : ProducerPc, head : Nat, shadow : Nat, cursor : Nat, eof : BOOLEAN, n : Nat,
                  acked : BOOLEAN, terminal : {"none", "Closed"}]
ConsumerPc == {"attach", "eof", "read", "release", "notify", "ack", "wait", "end", "close", "closed"}
ConsumerState == [pc : ConsumerPc, tail : Nat, shadow : Nat, cursor : Nat, eofHead : BOOLEAN, final : Nat,
                  seen : BOOLEAN, n : Nat, acked : BOOLEAN, terminal : {"none", "Closed"}]
Signals == [dataP : BOOLEAN, dataC : BOOLEAN, closedP : BOOLEAN, closedC : BOOLEAN, hasty : BOOLEAN]

TypeInv ==
  mem \in Memory /\ p \in ProducerState /\ c \in ConsumerState /\ sig \in Signals
  /\ in \in Seq(Nat) /\ out \in Seq(Nat)

\* Bytes that were copied into the ring and not yet published.
Pending == IF p.pc = "publish" THEN p.n ELSE 0

\* Every cursor is a count of bytes modulo its width: t bytes were given back, the producer knows of ps
\* of them, and the consumer of cs that were published.
Cursors(t, ps, cs) ==
  /\ ps <= t /\ t <= Len(out) /\ Len(out) <= cs /\ cs <= Len(in) /\ Len(in) + Pending <= ps + Capacity
  /\ p.head = Len(in) % Width /\ mem.head = p.head /\ p.cursor = Len(in) % Capacity
  /\ c.tail = t % Width /\ mem.tail = c.tail /\ c.cursor = t % Capacity
  /\ p.shadow = ps % Width /\ c.shadow = cs % Width
  /\ c.pc = "release" => Len(out) = t + c.n
  /\ c.pc \notin {"release", "closed"} => Len(out) = t

\* What went in and what came out are beginnings of the bytes, and the ring holds what is between.
Contents(t) ==
  /\ Len(in) + Pending <= Len(Bytes)
  /\ \A k \in 1 .. Len(in) : in[k] = Bytes[k]
  /\ \A k \in 1 .. Len(out) : out[k] = Bytes[k]
  /\ \A k \in t + 1 .. Len(in) + Pending : mem.ring[(k - 1) % Capacity] = Bytes[k]

\* The end is published behind the last byte, and concluded from a head that was read behind the end.
Ends ==
  /\ mem.eof = p.eof
  /\ p.eof => Len(in) = Len(Bytes) /\ p.pc # "publish"
  /\ p.pc = "publish" => p.n # 0
  /\ c.seen \/ c.eofHead => p.eof
  /\ c.eofHead => c.final = Len(in) % Width
  /\ c.pc = "end" => c.eofHead /\ c.final = c.tail /\ Len(out) = Len(in)

Counts(t, ps, cs) == Cursors(t, ps, cs) /\ Contents(t) /\ Ends

IInv == TypeInv /\ \E t, ps, cs \in Nat : Counts(t, ps, cs)

\* What the sides compute from the cursors are the differences of the counts, so that no check fails.
LEMMA Differences ==
  ASSUME Sized, TypeInv, NEW t \in Nat, NEW ps \in Nat, NEW cs \in Nat, Cursors(t, ps, cs), Ends
  PROVE  /\ ~BrokenHead /\ ~BrokenTail(mem.tail)
         /\ writable(mem.tail) = Capacity - (Len(in) - t)
         /\ Sub(mem.head, c.tail) = Len(in) - t
         /\ ~(Sub(mem.head, c.shadow) > Room(c.shadow, c.tail))
         /\ c.eofHead => mem.head = c.final
<1> DEFINE I == Len(in)
<1>1. Width \in Nat \ {0} /\ Capacity \in Nat /\ Capacity < Width BY DEF Sized
<1>0. I \in Nat /\ Len(out) \in Nat /\ Pending \in Nat
  <2>1. I \in Nat /\ Len(out) \in Nat BY LenProperties DEF TypeInv
  <2>2. p.n \in Nat BY DEF TypeInv, ProducerState, ConsumerState, Memory
  <2>. QED BY <2>1, <2>2 DEF Pending
<1>2. ps <= t /\ t <= cs /\ cs <= I /\ I <= ps + Capacity BY <1>0, <1>1 DEF Cursors
<1> HIDE DEF I
<1>3. ASSUME NEW a \in Nat, NEW b \in Nat, b <= a, a - b <= Capacity
      PROVE  Sub(a % Width, b % Width) = a - b
  <2> DEFINE n == a - b
  <2>1. n \in Nat /\ n < Width /\ a - b = n BY <1>1, <1>3
  <2> HIDE DEF n
  <2>. QED BY <1>1, <2>1, Distance DEF Sub
<1>4. /\ Sub(I % Width, t % Width) = I - t /\ Sub(t % Width, ps % Width) = t - ps
      /\ Sub(I % Width, ps % Width) = I - ps /\ Sub(I % Width, cs % Width) = I - cs
      /\ Sub(cs % Width, t % Width) = cs - t
  <2>1. /\ t <= I /\ I - t <= Capacity /\ t - ps <= Capacity /\ ps <= I /\ I - ps <= Capacity
        /\ I - cs <= Capacity /\ cs - t <= Capacity
    BY <1>0, <1>1, <1>2
  <2>. QED BY <1>0, <1>2, <1>3, <2>1
<1>5. /\ p.head = I % Width /\ mem.head = I % Width /\ mem.tail = t % Width /\ c.tail = t % Width
      /\ p.shadow = ps % Width /\ c.shadow = cs % Width
  BY DEF Cursors, I
<1>6. ~BrokenHead BY DEF BrokenHead, Cursors, Ends
<1>7. ~BrokenTail(mem.tail) BY <1>0, <1>1, <1>2, <1>4, <1>5 DEF BrokenTail
<1>8. writable(mem.tail) = Capacity - (I - t) /\ Sub(mem.head, c.tail) = I - t
  BY <1>4, <1>5 DEF writable, Room
<1>9. ~(Sub(mem.head, c.shadow) > Room(c.shadow, c.tail)) BY <1>0, <1>1, <1>2, <1>4, <1>5 DEF Room
<1>10. c.eofHead => mem.head = c.final BY <1>5 DEF Ends, I
<1>. QED BY <1>6, <1>7, <1>8, <1>9, <1>10 DEF I

LEMMA Initially == ASSUME Sized, Init PROVE IInv
<1>1. TypeInv BY DEF Init, TypeInv, Sized, Memory, ProducerPc, ProducerState, ConsumerPc, ConsumerState, Signals
<1>2. 0 % Width = 0 /\ 0 % Capacity = 0 BY SMT DEF Sized
<1>3. Counts(0, 0, 0) BY <1>2, SMT DEF Init, Counts, Cursors, Contents, Ends, Pending, Sized
<1>. QED BY <1>1, <1>3 DEF IInv

-----------------------------------------------------------------------------
(* The steps of the producer.                                              *)

\* Facts about the types that the steps use again and again.
LEMMA Lengths ==
  ASSUME Sized, TypeInv
  PROVE  /\ Len(in) \in Nat /\ Len(out) \in Nat /\ Pending \in Nat /\ Len(Bytes) \in Nat
         /\ Width \in Nat \ {0} /\ Capacity \in Nat \ {0}
         /\ p.n \in Nat /\ p.head \in Nat /\ p.shadow \in Nat /\ p.cursor \in Nat
         /\ c.n \in Nat /\ c.tail \in Nat /\ c.shadow \in Nat /\ c.cursor \in Nat /\ c.final \in Nat
         /\ mem.head \in Nat /\ mem.tail \in Nat
<1>1. Len(in) \in Nat /\ Len(out) \in Nat /\ Len(Bytes) \in Nat BY LenProperties DEF TypeInv, Sized
<1>2. p.n \in Nat /\ p.head \in Nat /\ p.shadow \in Nat /\ p.cursor \in Nat BY DEF TypeInv, ProducerState
<1>3. c.n \in Nat /\ c.tail \in Nat /\ c.shadow \in Nat /\ c.cursor \in Nat /\ c.final \in Nat
  BY DEF TypeInv, ConsumerState
<1>4. Pending \in Nat BY <1>2 DEF Pending
<1>5. mem.head \in Nat /\ mem.tail \in Nat BY DEF TypeInv, Memory
<1>. QED BY <1>1, <1>2, <1>3, <1>4, <1>5 DEF Sized

\* A step that only moves the producer's position, and perhaps the tail it has seen.
LEMMA ProducerMoves ==
  ASSUME Sized, TypeInv, NEW t \in Nat, NEW ps \in Nat, NEW cs \in Nat, Counts(t, ps, cs),
         UNCHANGED <<mem, c, in, out>>, NEW qs \in Nat, ps <= qs, qs <= t,
         p'.head = p.head, p'.cursor = p.cursor, p'.eof = p.eof, p'.shadow = qs % Width,
         p'.pc # "publish"
  PROVE  Counts(t, qs, cs)'
<1>1. Pending' = 0 BY DEF Pending
<1>2. /\ Len(in) \in Nat /\ Len(out) \in Nat /\ Pending \in Nat /\ Capacity \in Nat
      /\ Len(in)' = Len(in) /\ Len(out)' = Len(out)
  BY Lengths
<1>3. Cursors(t, qs, cs)' BY <1>1, <1>2 DEF Counts, Cursors
<1>4. Contents(t)'
  <2>1. \A k \in t + 1 .. Len(in) : mem.ring[(k - 1) % Capacity] = Bytes[k] BY <1>2 DEF Counts, Contents
  <2>2. Len(in) <= Len(Bytes) BY <1>2, Lengths DEF Counts, Contents
  <2>. QED BY <1>1, <1>2, <2>1, <2>2 DEF Counts, Contents
<1>5. Ends' BY DEF Counts, Ends
<1>. QED BY <1>3, <1>4, <1>5 DEF Counts

LEMMA WriteStep ==
  ASSUME Sized, TypeInv, NEW t \in Nat, NEW ps \in Nat, NEW cs \in Nat, Counts(t, ps, cs), write
  PROVE  TypeInv' /\ Counts(t, t, cs)'
<1>0. /\ Len(in) \in Nat /\ Len(out) \in Nat /\ Pending \in Nat /\ Len(Bytes) \in Nat
      /\ Width \in Nat \ {0} /\ Capacity \in Nat \ {0} /\ p.cursor \in Nat /\ mem.tail \in Nat
  BY Lengths
<1>1. ~BrokenHead /\ ~BrokenTail(mem.tail) /\ writable(mem.tail) = Capacity - (Len(in) - t)
  BY Differences DEF Counts
<1>2. UNCHANGED <<c, sig, in, out>> /\ p.pc = "write" /\ Len(in) < Len(Bytes) BY DEF write
<1>3. mem.tail = t % Width /\ ps <= t /\ t <= Len(in) /\ p.cursor = Len(in) % Capacity
  BY <1>0 DEF Counts, Cursors
<1>4. CASE writable(mem.tail) = 0
  <2> DEFINE to == IF p.acked THEN "wait" ELSE "ack"
  <2>0. to \in ProducerPc \ {"publish"} BY DEF ProducerPc
  <2>1. mem' = mem /\ p' = [p EXCEPT !.shadow = mem.tail, !.pc = to] BY <1>1, <1>4 DEF write
  <2> HIDE DEF to
  <2>2. p' \in ProducerState BY <1>0, <2>0, <2>1 DEF TypeInv, ProducerState
  <2>3. TypeInv' BY <1>2, <2>1, <2>2 DEF TypeInv
  <2>4. /\ p'.head = p.head /\ p'.cursor = p.cursor /\ p'.eof = p.eof /\ p'.shadow = t % Width
        /\ p'.pc # "publish"
    BY <1>3, <2>0, <2>1 DEF TypeInv, ProducerState
  <2>5. UNCHANGED <<mem, c, in, out>> BY <1>2, <2>1
  <2>. QED BY <1>3, <2>3, <2>4, <2>5, ProducerMoves
<1>5. CASE writable(mem.tail) # 0
  <2> DEFINE k(i) == (i + Capacity - p.cursor) % Capacity
  <2>1. PICK n \in 1 .. Least(Capacity - (Len(in) - t), Len(Bytes) - Len(in)) :
          /\ p' = [p EXCEPT !.shadow = mem.tail, !.n = n, !.pc = "publish", !.acked = FALSE]
          /\ mem' = [mem EXCEPT !.ring = [i \in 0 .. Capacity - 1 |->
                        IF k(i) < n THEN Bytes[Len(in) + k(i) + 1] ELSE @[i]]]
    BY <1>1, <1>5 DEF write
  <2>2. n \in Nat /\ n # 0 /\ n <= Capacity - (Len(in) - t) /\ Len(in) + n <= Len(Bytes) /\ n <= Capacity
    BY <1>0, <1>3 DEF Least
  <2>3. /\ p'.head = p.head /\ p'.cursor = p.cursor /\ p'.eof = p.eof /\ p'.shadow = t % Width
        /\ p'.pc = "publish" /\ p'.n = n /\ p' \in ProducerState
    BY <1>0, <1>3, <2>1, <2>2 DEF TypeInv, ProducerState, ProducerPc
  <2>4. mem'.head = mem.head /\ mem'.tail = mem.tail /\ mem'.eof = mem.eof BY <2>1 DEF TypeInv, Memory
  <2>5. \A i \in 0 .. Capacity - 1 : k(i) \in Nat
    <3>1. ASSUME NEW i \in 0 .. Capacity - 1 PROVE k(i) \in Nat
      <4> DEFINE x == i + Capacity - p.cursor
      <4>1. x \in Int BY <1>0
      <4> HIDE DEF x
      <4>2. x % Capacity \in Int /\ 0 <= x % Capacity BY <1>0, <4>1, Division
      <4>. QED BY <4>2 DEF x
    <3>. QED BY <3>1
  <2> HIDE DEF k
  <2>6. ASSUME NEW i \in 0 .. Capacity - 1
        PROVE  mem'.ring[i] = IF k(i) < n THEN Bytes[Len(in) + k(i) + 1] ELSE mem.ring[i]
    BY <2>1 DEF TypeInv, Memory
  <2>7. mem' \in Memory
    <3>1. ASSUME NEW i \in 0 .. Capacity - 1, k(i) < n PROVE Bytes[Len(in) + k(i) + 1] \in Nat
      <4>1. k(i) \in Nat BY <2>5
      <4>2. \A x \in Nat : x < n => Len(in) + x + 1 \in 1 .. Len(Bytes) BY <1>0, <2>2
      <4>3. Len(in) + k(i) + 1 \in 1 .. Len(Bytes) BY <4>1, <4>2, <3>1
      <4>. QED BY <4>3, ElementOfSeq DEF Sized
    <3>2. \A i \in 0 .. Capacity - 1 : mem'.ring[i] \in Nat BY <2>6, <3>1 DEF TypeInv, Memory
    <3>3. mem'.ring = [i \in 0 .. Capacity - 1 |-> mem'.ring[i]] BY <2>1 DEF TypeInv, Memory
    <3>4. mem'.ring \in [0 .. Capacity - 1 -> Nat] BY <3>2, <3>3
    <3>. QED BY <2>1, <3>4 DEF TypeInv, Memory
  <2>8. TypeInv' BY <1>2, <2>3, <2>7 DEF TypeInv
  <2>9. Pending' = n BY <2>3 DEF Pending
  <2>10. Cursors(t, t, cs)'
    <3>1. t <= Len(out) /\ Len(out) <= cs /\ cs <= Len(in) /\ Len(in) + n <= t + Capacity
      BY <1>0, <2>2 DEF Counts, Cursors
    <3>2. /\ p.head = Len(in) % Width /\ mem.head = p.head
          /\ c.tail = t % Width /\ mem.tail = c.tail /\ c.cursor = t % Capacity /\ c.shadow = cs % Width
          /\ c.pc = "release" => Len(out) = t + c.n
          /\ c.pc \notin {"release", "closed"} => Len(out) = t
      BY DEF Counts, Cursors
    <3>. QED BY <1>2, <1>3, <2>3, <2>4, <2>9, <3>1, <3>2 DEF Cursors
  <2>11. ASSUME NEW j \in t + 1 .. Len(in) + n PROVE mem'.ring[(j - 1) % Capacity] = Bytes[j]
    <3> DEFINE a == j - 1
               b == Len(in)
               i == a % Capacity
    <3>1. a \in Nat /\ a \in Int /\ b \in Nat /\ j = a + 1 /\ t <= a /\ a < b + n BY <1>0
    <3>2. p.cursor = b % Capacity BY <1>3
    <3> HIDE DEF a, b
    <3>3. i \in 0 .. Capacity - 1
      <4>1. i \in Int /\ 0 <= i /\ i < Capacity BY <1>0, <3>1, Division
      <4>. QED BY <1>0, <4>1
    <3>4. ASSUME NEW m \in Nat, m < Capacity, a - b = m \/ a - b = m - Capacity
          PROVE  k(i) = m
      <4>1. ((a % Capacity) + Capacity - (b % Capacity)) % Capacity = m BY <1>0, <3>1, <3>4, Distance
      <4>. QED BY <3>2, <4>1 DEF k
    <3> HIDE DEF i
    <3>5. CASE b <= a
      <4> DEFINE m == a - b
      <4>1. m \in Nat /\ m < n /\ m < Capacity /\ a - b = m BY <1>0, <2>2, <3>1, <3>5
      <4>2. b + m + 1 = j BY <3>1
      <4> HIDE DEF m
      <4>3. k(i) = m BY <4>1, <3>4
      <4>4. mem'.ring[i] = Bytes[b + m + 1] BY <2>6, <3>3, <4>1, <4>3 DEF b
      <4>. QED BY <4>2, <4>4 DEF i, a
    <3>6. CASE a < b
      <4> DEFINE m == a - b + Capacity
      <4>1. m \in Nat /\ m < Capacity /\ ~(m < n) /\ a - b = m - Capacity
        BY <1>0, <2>2, <3>1, <3>6 DEF b
      <4> HIDE DEF m
      <4>2. k(i) = m BY <4>1, <3>4
      <4>3. mem.ring[(j - 1) % Capacity] = Bytes[j] BY <1>0, <3>1, <3>6 DEF Counts, Contents, b
      <4>4. mem'.ring[i] = mem.ring[i] BY <2>6, <3>3, <4>1, <4>2
      <4>. QED BY <4>3, <4>4 DEF i, a
    <3>. QED BY <3>1, <3>5, <3>6
  <2>12. Contents(t)' BY <1>2, <2>2, <2>9, <2>11 DEF Counts, Contents
  <2>13. Ends' BY <1>0, <1>2, <2>2, <2>3, <2>4 DEF Counts, Ends
  <2>. QED BY <2>8, <2>10, <2>12, <2>13 DEF Counts
<1>. QED BY <1>4, <1>5

LEMMA PublishStep ==
  ASSUME Sized, TypeInv, NEW t \in Nat, NEW ps \in Nat, NEW cs \in Nat, Counts(t, ps, cs), publish
  PROVE  TypeInv' /\ Counts(t, ps, cs)' /\ p.n # 0 /\ Len(in') = Len(in) + p.n
<1> DEFINE n == p.n
           I == Len(in)
           more == SubSeq(Bytes, I + 1, I + n)
<1>0. /\ I \in Nat /\ Len(out) \in Nat /\ Len(Bytes) \in Nat /\ n \in Nat
      /\ Width \in Nat \ {0} /\ Capacity \in Nat \ {0} /\ p.head \in Nat /\ p.cursor \in Nat
  BY Lengths
<1>1. /\ p.pc = "publish" /\ UNCHANGED <<c, sig, out>> /\ in' = in \o more
      /\ p' = [p EXCEPT !.cursor = (p.cursor + n) % Capacity, !.head = Add(p.head, n), !.pc = "notify"]
      /\ mem' = [mem EXCEPT !.head = Add(p.head, n)]
  BY DEF publish
<1>2. n # 0 /\ I + n <= Len(Bytes) /\ I + n <= ps + Capacity BY <1>1 DEF Counts, Cursors, Contents, Ends, Pending
<1>3. p.head = I % Width /\ p.cursor = I % Capacity BY DEF Counts, Cursors
<1> HIDE DEF n, I
<1>4. Add(p.head, n) = (I + n) % Width /\ (p.cursor + n) % Capacity = (I + n) % Capacity
  <2>1. ((I % Width) + n) % Width = (I + n) % Width BY <1>0, Advance
  <2>2. ((I % Capacity) + n) % Capacity = (I + n) % Capacity BY <1>0, Advance
  <2>. QED BY <1>3, <2>1, <2>2 DEF Add
<1>5. (I + n) % Width \in Nat /\ (I + n) % Capacity \in Nat
  <2>1. I + n \in Int BY <1>0
  <2>2. /\ (I + n) % Width \in Int /\ 0 <= (I + n) % Width
        /\ (I + n) % Capacity \in Int /\ 0 <= (I + n) % Capacity
    BY <1>0, <2>1, Division
  <2>. QED BY <2>2
<1>6. more \in Seq(Nat) /\ Len(more) = n /\ \A i \in 1 .. n : more[i] = Bytes[I + i]
  <2>1. \A i \in I + 1 .. I + n : Bytes[i] \in Nat
    <3>1. \A i \in 1 .. Len(Bytes) : Bytes[i] \in Nat BY ElementOfSeq DEF Sized
    <3>. QED BY <1>0, <1>2, <3>1
  <2>2. I + 1 \in Int /\ I + n \in Int /\ I + 1 <= I + n /\ (I + n) - (I + 1) + 1 = n BY <1>0, <1>2
  <2>3. /\ more \in Seq(Nat) /\ Len(more) = n
        /\ \A i \in 1 .. n : more[i] = Bytes[(I + 1) + i - 1]
    BY <2>1, <2>2, SubSeqProperties
  <2>4. \A i \in 1 .. n : (I + 1) + i - 1 = I + i BY <1>0
  <2>. QED BY <2>3, <2>4
<1> HIDE DEF more
<1>7. /\ in' \in Seq(Nat) /\ Len(in') = I + n
      /\ \A k \in 1 .. I + n : in'[k] = IF k <= I THEN in[k] ELSE more[k - I]
  BY <1>1, <1>6, ConcatProperties DEF TypeInv, I
<1>8. /\ p' \in ProducerState /\ p'.head = (I + n) % Width /\ p'.cursor = (I + n) % Capacity
      /\ p'.shadow = p.shadow /\ p'.eof = p.eof /\ p'.pc = "notify"
  BY <1>1, <1>4, <1>5 DEF TypeInv, ProducerState, ProducerPc
<1>9. /\ mem' \in Memory /\ mem'.head = (I + n) % Width /\ mem'.tail = mem.tail /\ mem'.eof = mem.eof
      /\ mem'.ring = mem.ring
  BY <1>1, <1>4, <1>5 DEF TypeInv, Memory
<1>10. TypeInv' BY <1>1, <1>7, <1>8, <1>9 DEF TypeInv
<1>11. Pending = n /\ Pending' = 0 BY <1>1, <1>8 DEF Pending, n
<1>12. Cursors(t, ps, cs)'
  <2>1. ps <= t /\ t <= Len(out) /\ Len(out) <= cs /\ cs <= I + n
    BY <1>0 DEF Counts, Cursors, I
  <2>2. /\ c.tail = t % Width /\ mem.tail = c.tail /\ c.cursor = t % Capacity /\ c.shadow = cs % Width
        /\ p.shadow = ps % Width
        /\ c.pc = "release" => Len(out) = t + c.n
        /\ c.pc \notin {"release", "closed"} => Len(out) = t
    BY DEF Counts, Cursors
  <2>3. I + n + 0 <= ps + Capacity BY <1>0, <1>2
  <2>. QED BY <1>1, <1>7, <1>8, <1>9, <1>11, <2>1, <2>2, <2>3 DEF Cursors
<1>13. Contents(t)'
  <2>1. \A k \in 1 .. I + n : in'[k] = Bytes[k]
    <3>1. ASSUME NEW k \in 1 .. I + n PROVE in'[k] = Bytes[k]
      <4>1. CASE k <= I
        <5>1. in[k] = Bytes[k] BY <1>0, <4>1 DEF Counts, Contents, I
        <5>. QED BY <1>7, <4>1, <5>1
      <4>2. CASE ~(k <= I)
        <5>1. k - I \in 1 .. n /\ I + (k - I) = k BY <1>0, <4>2
        <5>2. more[k - I] = Bytes[I + (k - I)] BY <1>6, <5>1
        <5>. QED BY <1>7, <4>2, <5>1, <5>2
      <4>. QED BY <4>1, <4>2
    <3>. QED BY <3>1
  <2>2. \A k \in t + 1 .. I + n : mem.ring[(k - 1) % Capacity] = Bytes[k] BY <1>11 DEF Counts, Contents, I
  <2>3. \A k \in 1 .. Len(out) : out[k] = Bytes[k] BY DEF Counts, Contents
  <2>4. I + n + 0 = I + n BY <1>0
  <2>. QED BY <1>1, <1>2, <1>7, <1>9, <1>11, <2>1, <2>2, <2>3, <2>4 DEF Contents
<1>14. Ends'
  <2>1. ~p.eof /\ mem.eof = p.eof BY <1>1 DEF Counts, Ends
  <2>2. ~c.seen /\ ~c.eofHead /\ c.pc # "end" BY <2>1 DEF Counts, Ends
  <2>. QED BY <1>1, <1>8, <1>9, <2>1, <2>2 DEF Ends
<1>. QED BY <1>2, <1>7, <1>10, <1>12, <1>13, <1>14 DEF Counts, n, I

LEMMA FinishStep ==
  ASSUME Sized, TypeInv, NEW t \in Nat, NEW ps \in Nat, NEW cs \in Nat, Counts(t, ps, cs), finish
  PROVE  TypeInv' /\ Counts(t, t, cs)'
<1>0. /\ Len(in) \in Nat /\ Len(out) \in Nat /\ Len(Bytes) \in Nat /\ mem.tail \in Nat
      /\ Width \in Nat \ {0} /\ Capacity \in Nat \ {0}
  BY Lengths
<1>1. ~BrokenHead /\ ~BrokenTail(mem.tail) BY Differences DEF Counts
<1>2. /\ UNCHANGED <<c, sig, in, out>> /\ p.pc = "write" /\ Len(in) = Len(Bytes)
      /\ p' = [p EXCEPT !.eof = TRUE, !.shadow = mem.tail, !.pc = "notify", !.acked = FALSE]
      /\ mem' = [mem EXCEPT !.eof = TRUE]
  BY <1>1 DEF finish
<1>3. /\ p' \in ProducerState /\ p'.head = p.head /\ p'.cursor = p.cursor /\ p'.eof = TRUE
      /\ p'.shadow = mem.tail /\ p'.pc = "notify"
  BY <1>0, <1>2 DEF TypeInv, ProducerState, ProducerPc
<1>4. /\ mem' \in Memory /\ mem'.head = mem.head /\ mem'.tail = mem.tail /\ mem'.eof = TRUE
      /\ mem'.ring = mem.ring
  BY <1>2 DEF TypeInv, Memory
<1>5. TypeInv' BY <1>2, <1>3, <1>4 DEF TypeInv
<1>6. Pending = 0 /\ Pending' = 0 BY <1>2, <1>3 DEF Pending
<1>7. Cursors(t, t, cs)'
  <2>1. /\ t <= Len(out) /\ Len(out) <= cs /\ cs <= Len(in) /\ Len(in) + 0 <= t + Capacity
    BY <1>0, <1>6 DEF Counts, Cursors
  <2>. QED BY <1>2, <1>3, <1>4, <1>6, <2>1 DEF Counts, Cursors
<1>8. Contents(t)' BY <1>2, <1>4, <1>6 DEF Counts, Contents
<1>9. Ends' BY <1>2, <1>3, <1>4 DEF Counts, Ends
<1>. QED BY <1>5, <1>7, <1>8, <1>9 DEF Counts

\* The other steps of the producer move its position and nothing else.
LEMMA ProducerRests ==
  ASSUME Sized, TypeInv, NEW t \in Nat, NEW ps \in Nat, NEW cs \in Nat, Counts(t, ps, cs),
         notify \/ acknowledge \/ drained \/ wait \/ close
  PROVE  TypeInv' /\ UNCHANGED <<mem, c, in, out>> /\ (Counts(t, ps, cs)' \/ Counts(t, t, cs)')
<1>1. ps <= t /\ p.shadow = ps % Width /\ mem.tail = t % Width /\ mem.tail \in Nat
  BY Lengths DEF Counts, Cursors
<1>2. UNCHANGED <<mem, c, in, out>> BY DEF notify, acknowledge, drained, wait, close
<1>3. /\ p' \in ProducerState /\ p'.head = p.head /\ p'.cursor = p.cursor /\ p'.eof = p.eof
      /\ (p'.shadow = p.shadow \/ p'.shadow = mem.tail) /\ p'.pc # "publish"
  <2>0. Fail(p, "Closed") \in ProducerState /\ Fail(p, "Closed").pc = "close"
        /\ Fail(p, "Closed").head = p.head /\ Fail(p, "Closed").cursor = p.cursor
        /\ Fail(p, "Closed").eof = p.eof /\ Fail(p, "Closed").shadow = p.shadow
    <3> DEFINE e == IF p.terminal = "none" THEN "Closed" ELSE p.terminal
    <3>1. e \in {"none", "Closed"} BY DEF TypeInv, ProducerState
    <3>2. Fail(p, "Closed") = [p EXCEPT !.terminal = e, !.pc = "close"] BY DEF TypeInv, ProducerState, Fail
    <3> HIDE DEF e
    <3>. QED BY <3>1, <3>2 DEF TypeInv, ProducerState, ProducerPc
  <2>1. CASE notify
    <3>1. p' = Fail(p, "Closed") \/ p' = [p EXCEPT !.pc = "write"] BY <2>1 DEF notify
    <3>. QED BY <2>0, <3>1 DEF TypeInv, ProducerState, ProducerPc
  <2>2. CASE acknowledge
    <3>1. p' = [p EXCEPT !.acked = TRUE, !.pc = "write"] BY <2>2 DEF acknowledge
    <3>. QED BY <3>1 DEF TypeInv, ProducerState, ProducerPc
  <2>3. CASE drained
    <3> DEFINE to == IF writable(mem.tail) = Capacity THEN "close" ELSE IF p.acked THEN "wait" ELSE "ack"
    <3>1. to \in ProducerPc \ {"publish"} BY DEF ProducerPc
    <3>2. ~BrokenHead /\ ~BrokenTail(mem.tail) BY Differences DEF Counts
    <3>3. p' = [p EXCEPT !.shadow = mem.tail, !.pc = to] BY <2>3, <3>2 DEF drained
    <3> HIDE DEF to
    <3>. QED BY <1>1, <3>1, <3>3 DEF TypeInv, ProducerState
  <2>4. CASE wait
    <3>1. p' = Fail(p, "Closed") \/ p' = [p EXCEPT !.acked = FALSE, !.pc = "write"] BY <2>4 DEF wait
    <3>. QED BY <2>0, <3>1 DEF TypeInv, ProducerState, ProducerPc
  <2>5. CASE close
    <3>1. p' = [p EXCEPT !.pc = "closed"] BY <2>5 DEF close
    <3>. QED BY <3>1 DEF TypeInv, ProducerState, ProducerPc
  <2>. QED BY <2>1, <2>2, <2>3, <2>4, <2>5
<1>4. sig' \in Signals
  <2>1. sig' = sig \/ sig' = [sig EXCEPT !.dataC = TRUE] \/ sig' = [sig EXCEPT !.dataP = FALSE]
        \/ sig' = [sig EXCEPT !.closedP = TRUE]
    BY DEF notify, acknowledge, drained, wait, close
  <2>. QED BY <2>1 DEF TypeInv, Signals
<1>5. TypeInv' BY <1>2, <1>3, <1>4 DEF TypeInv
<1>6. CASE p'.shadow = ps % Width
  <2>1. Counts(t, ps, cs)' BY <1>1, <1>2, <1>3, <1>6, ProducerMoves
  <2>. QED BY <1>2, <1>5, <2>1
<1>7. CASE p'.shadow = t % Width
  <2>1. Counts(t, t, cs)' BY <1>1, <1>2, <1>3, <1>7, ProducerMoves
  <2>. QED BY <1>2, <1>5, <2>1
<1>. QED BY <1>1, <1>3, <1>6, <1>7

-----------------------------------------------------------------------------
(* The steps of the consumer.                                              *)

\* A step that only moves the consumer's position, and perhaps the head it has seen.
LEMMA ConsumerMoves ==
  ASSUME Sized, TypeInv, NEW t \in Nat, NEW ps \in Nat, NEW cs \in Nat, Counts(t, ps, cs),
         UNCHANGED <<mem, p, in, out>>, NEW ds \in Nat, cs <= ds, ds <= Len(in),
         c'.tail = c.tail, c'.cursor = c.cursor, c'.shadow = ds % Width,
         c'.pc # "release", c'.pc = "closed" \/ Len(out) = t,
         c'.seen \/ c'.eofHead => p.eof,
         c'.eofHead => c'.final = Len(in) % Width,
         c'.pc = "end" => c'.eofHead /\ c'.final = c'.tail /\ Len(out) = Len(in)
  PROVE  Counts(t, ps, ds)'
<1>1. /\ Len(in) \in Nat /\ Len(out) \in Nat /\ Pending \in Nat /\ Capacity \in Nat
      /\ Len(in)' = Len(in) /\ Len(out)' = Len(out) /\ Pending' = Pending
  BY Lengths DEF Pending
<1>2. Len(out) <= ds BY <1>1 DEF Counts, Cursors
<1>3. Cursors(t, ps, ds)'
  <2>1. /\ p.head = Len(in) % Width /\ mem.head = p.head /\ p.cursor = Len(in) % Capacity
        /\ c.tail = t % Width /\ mem.tail = c.tail /\ c.cursor = t % Capacity /\ p.shadow = ps % Width
        /\ ps <= t /\ t <= Len(out) /\ Len(in) + Pending <= ps + Capacity
    BY DEF Counts, Cursors
  <2>. QED BY <1>1, <1>2, <2>1 DEF Cursors
<1>4. Contents(t)' BY <1>1 DEF Counts, Contents
<1>5. Ends' BY <1>1 DEF Counts, Ends
<1>. QED BY <1>3, <1>4, <1>5 DEF Counts

LEMMA ConsumerRests ==
  ASSUME Sized, TypeInv, NEW t \in Nat, NEW ps \in Nat, NEW cs \in Nat, Counts(t, ps, cs),
         attach \/ load_eof \/ notify_c \/ acknowledge_c \/ wait_c \/ close_c
  PROVE  /\ TypeInv' /\ UNCHANGED <<mem, p, in, out>> /\ c'.tail = c.tail
         /\ Counts(t, ps, cs)' \/ Counts(t, ps, Len(in))'
<1> DEFINE I == Len(in)
<1>0. I \in Nat /\ Len(out) \in Nat /\ mem.head \in Nat BY Lengths
<1>1. /\ cs <= I /\ c.shadow = cs % Width /\ mem.head = I % Width
      /\ c.pc \notin {"release", "closed"} => Len(out) = t
      /\ mem.eof = p.eof /\ (c.seen \/ c.eofHead => p.eof) /\ (c.eofHead => c.final = I % Width)
      /\ mem.eof \in BOOLEAN /\ p.eof \in BOOLEAN
  BY DEF Counts, Cursors, Ends, TypeInv, Memory, ProducerState
<1>2. UNCHANGED <<mem, p, in, out>> BY DEF attach, load_eof, notify_c, acknowledge_c, wait_c, close_c
<1> DEFINE Same(d) == /\ d \in ConsumerState /\ d.tail = c.tail /\ d.cursor = c.cursor
                      /\ d.shadow = c.shadow \/ d.shadow = mem.head
                      /\ d.pc \notin {"release", "end"} /\ (d.pc = "closed" \/ Len(out) = t)
                      /\ (d.seen \/ d.eofHead => p.eof)
                      /\ (d.eofHead => d.final = I % Width)
<1>3. Same(c')
  <2>0. c.pc \notin {"release", "closed"} => Same(Fail(c, "Closed"))
    <3> DEFINE e == IF c.terminal = "none" THEN "Closed" ELSE c.terminal
    <3>1. e \in {"none", "Closed"} BY DEF TypeInv, ConsumerState
    <3>2. Fail(c, "Closed") = [c EXCEPT !.terminal = e, !.pc = "close"] BY DEF TypeInv, ConsumerState, Fail
    <3> HIDE DEF e
    <3> DEFINE f == Fail(c, "Closed")
    <3>3. /\ f \in ConsumerState /\ f.tail = c.tail /\ f.cursor = c.cursor /\ f.shadow = c.shadow /\ f.pc = "close"
          /\ f.seen = c.seen /\ f.eofHead = c.eofHead /\ f.final = c.final
      BY <3>1, <3>2 DEF TypeInv, ConsumerState, ConsumerPc
    <3> HIDE DEF f
    <3>4. c.pc \notin {"release", "closed"} => Same(f) BY <1>1, <3>3
    <3>. QED BY <3>4 DEF f
  <2>1. CASE attach
    <3>1. /\ c.pc = "attach"
          /\ c' = [c EXCEPT !.pc = "eof", !.shadow = mem.head, !.eofHead = mem.eof, !.final = mem.head]
      BY <2>1 DEF attach
    <3>. QED BY <1>0, <1>1, <3>1 DEF TypeInv, ConsumerState, ConsumerPc
  <2>2. CASE load_eof
    <3>1. c.pc = "eof" /\ c' = [c EXCEPT !.seen = mem.eof, !.pc = "read"] BY <1>1, <2>2 DEF load_eof
    <3>. QED BY <1>1, <3>1 DEF TypeInv, ConsumerState, ConsumerPc
  <2>3. CASE notify_c
    <3>1. c.pc = "notify" /\ (c' = Fail(c, "Closed") \/ c' = [c EXCEPT !.pc = "eof"]) BY <2>3 DEF notify_c
    <3>2. CASE c' = [c EXCEPT !.pc = "eof"] BY <1>1, <3>1, <3>2 DEF TypeInv, ConsumerState, ConsumerPc
    <3>. QED BY <2>0, <3>1, <3>2
  <2>4. CASE acknowledge_c
    <3>1. c.pc = "ack" /\ c' = [c EXCEPT !.acked = TRUE, !.pc = "eof"] BY <2>4 DEF acknowledge_c
    <3>. QED BY <1>1, <3>1 DEF TypeInv, ConsumerState, ConsumerPc
  <2>5. CASE wait_c
    <3>1. c.pc = "wait" /\ (c' = Fail(c, "Closed") \/ c' = [c EXCEPT !.acked = FALSE, !.pc = "eof"])
      BY <2>5 DEF wait_c
    <3>2. CASE c' = [c EXCEPT !.acked = FALSE, !.pc = "eof"]
      BY <1>1, <3>1, <3>2 DEF TypeInv, ConsumerState, ConsumerPc
    <3>. QED BY <2>0, <3>1, <3>2
  <2>6. CASE close_c
    <3>1. c' = [c EXCEPT !.pc = "closed"] BY <2>6 DEF close_c
    <3>. QED BY <1>1, <3>1 DEF TypeInv, ConsumerState, ConsumerPc
  <2>. QED BY <2>1, <2>2, <2>3, <2>4, <2>5, <2>6
<1>4. sig' \in Signals
  <2>1. sig' = sig \/ sig' = [sig EXCEPT !.dataP = TRUE] \/ sig' = [sig EXCEPT !.dataC = FALSE]
        \/ sig' = [sig EXCEPT !.closedC = TRUE]
    BY DEF attach, load_eof, notify_c, acknowledge_c, wait_c, close_c
  <2>. QED BY <2>1 DEF TypeInv, Signals
<1>5. TypeInv' BY <1>2, <1>3, <1>4 DEF TypeInv
<1>6. CASE c'.shadow = cs % Width
  <2>1. Counts(t, ps, cs)' BY <1>0, <1>1, <1>2, <1>3, <1>6, ConsumerMoves
  <2>. QED BY <1>2, <1>3, <1>5, <2>1
<1>7. CASE c'.shadow = I % Width
  <2>1. Counts(t, ps, I)' BY <1>0, <1>1, <1>2, <1>3, <1>7, ConsumerMoves
  <2>. QED BY <1>2, <1>3, <1>5, <2>1
<1>. QED BY <1>1, <1>3, <1>6, <1>7

LEMMA ReleaseStep ==
  ASSUME Sized, TypeInv, NEW t \in Nat, NEW ps \in Nat, NEW cs \in Nat, Counts(t, ps, cs), release
  PROVE  TypeInv' /\ \E u \in Nat : Counts(u, ps, cs)'
<1> DEFINE n == c.n
<1>0. /\ Len(in) \in Nat /\ Len(out) \in Nat /\ n \in Nat /\ Pending \in Nat
      /\ Width \in Nat \ {0} /\ Capacity \in Nat \ {0} /\ c.tail \in Nat /\ c.cursor \in Nat
  BY Lengths
<1>1. /\ c.pc = "release" /\ UNCHANGED <<p, sig, in, out>>
      /\ c' = [c EXCEPT !.cursor = (c.cursor + n) % Capacity, !.tail = Add(c.tail, n), !.pc = "notify"]
      /\ mem' = [mem EXCEPT !.tail = Add(c.tail, n)]
  BY DEF release
<1>2. Len(out) = t + n /\ c.tail = t % Width /\ c.cursor = t % Capacity BY <1>1 DEF Counts, Cursors
<1> HIDE DEF n
<1>4. PICK u \in Nat : u = t + n /\ t <= u BY <1>0
<1>3. Add(c.tail, n) = u % Width /\ (c.cursor + n) % Capacity = u % Capacity
  <2>1. ((t % Width) + n) % Width = (t + n) % Width BY <1>0, Advance
  <2>2. ((t % Capacity) + n) % Capacity = (t + n) % Capacity BY <1>0, Advance
  <2>. QED BY <1>2, <1>4, <2>1, <2>2 DEF Add
<1>5. u % Width \in Nat /\ u % Capacity \in Nat
  <2>1. u \in Int BY <1>4
  <2>2. u % Width \in Int /\ 0 <= u % Width /\ u % Capacity \in Int /\ 0 <= u % Capacity
    BY <1>0, <2>1, Division
  <2>. QED BY <2>2
<1>6. /\ c' \in ConsumerState /\ c'.tail = u % Width /\ c'.cursor = u % Capacity /\ c'.pc = "notify"
      /\ c'.shadow = c.shadow /\ c'.seen = c.seen /\ c'.eofHead = c.eofHead /\ c'.final = c.final
  BY <1>1, <1>3, <1>5 DEF TypeInv, ConsumerState, ConsumerPc
<1>7. /\ mem' \in Memory /\ mem'.head = mem.head /\ mem'.tail = u % Width /\ mem'.eof = mem.eof
      /\ mem'.ring = mem.ring
  BY <1>1, <1>3, <1>5 DEF TypeInv, Memory
<1>8. TypeInv' BY <1>1, <1>6, <1>7 DEF TypeInv
<1>9. Pending' = Pending BY <1>1 DEF Pending
<1>10. Cursors(u, ps, cs)'
  <2>1. ps <= u /\ u <= Len(out) /\ Len(out) = u BY <1>0, <1>2, <1>4 DEF Counts, Cursors
  <2>2. /\ Len(out) <= cs /\ cs <= Len(in) /\ Len(in) + Pending <= ps + Capacity
        /\ p.head = Len(in) % Width /\ mem.head = p.head /\ p.cursor = Len(in) % Capacity
        /\ p.shadow = ps % Width /\ c.shadow = cs % Width
    BY DEF Counts, Cursors
  <2>. QED BY <1>1, <1>6, <1>7, <1>9, <2>1, <2>2 DEF Cursors
<1>11. Contents(u)'
  <2>1. \A k \in u + 1 .. Len(in) + Pending : mem.ring[(k - 1) % Capacity] = Bytes[k]
    <3>1. \A k \in u + 1 .. Len(in) + Pending : k \in t + 1 .. Len(in) + Pending BY <1>0, <1>4
    <3>. QED BY <3>1 DEF Counts, Contents
  <2>. QED BY <1>1, <1>7, <1>9, <2>1 DEF Counts, Contents
<1>12. Ends' BY <1>1, <1>6, <1>7 DEF Counts, Ends
<1>. QED BY <1>1, <1>2, <1>8, <1>10, <1>11, <1>12 DEF Counts

\* What is copied out of the ring are the next bytes of the stream.
LEMMA ReadStep ==
  ASSUME Sized, TypeInv, NEW t \in Nat, NEW ps \in Nat, NEW cs \in Nat, Counts(t, ps, cs), read
  PROVE  /\ TypeInv' /\ UNCHANGED <<mem, p, in>> /\ c'.tail = c.tail
         /\ Counts(t, ps, Len(in))'
         /\ out' = out \/ /\ c'.pc = "release" /\ c'.n \in 1 .. Capacity
                          /\ Len(out') = Len(out) + c'.n /\ Len(out') <= Len(in)
<1> DEFINE I == Len(in)
           seen == c.eofHead \/ c.seen
           last == IF c.seen THEN mem.head ELSE c.final
           d == [c EXCEPT !.shadow = mem.head, !.eofHead = seen, !.final = last]
<1>0. /\ I \in Nat /\ Len(out) \in Nat /\ Pending \in Nat /\ Len(Bytes) \in Nat /\ mem.head \in Nat
      /\ Width \in Nat \ {0} /\ Capacity \in Nat \ {0} /\ c.cursor \in Nat /\ c.final \in Nat
  BY Lengths
<1>1. /\ Sub(mem.head, c.tail) = I - t /\ ~(Sub(mem.head, c.shadow) > Room(c.shadow, c.tail))
      /\ c.eofHead => mem.head = c.final
  BY Differences DEF Counts
<1>2. /\ c.pc = "read" /\ UNCHANGED <<mem, p, sig, in>> BY DEF read
<1>3. /\ mem.tail = c.tail /\ mem.head = I % Width /\ Len(out) = t /\ t <= I /\ I <= ps + Capacity /\ ps <= t
      /\ cs <= I /\ I <= Len(Bytes) /\ c.cursor = t % Capacity /\ c.tail = t % Width
      /\ (c.seen \/ c.eofHead => p.eof) /\ (c.eofHead => c.final = I % Width)
  BY <1>0, <1>2 DEF Counts, Cursors, Contents, Ends
<1>4. seen \in BOOLEAN /\ last \in Nat /\ (seen => p.eof) /\ (seen => last = I % Width) /\ (c.seen => p.eof)
  BY <1>0, <1>3 DEF TypeInv, ConsumerState
<1>5. /\ d \in ConsumerState /\ d.tail = c.tail /\ d.cursor = c.cursor /\ d.shadow = mem.head
      /\ d.seen = c.seen /\ d.eofHead = seen /\ d.final = last
  <2> HIDE DEF seen, last
  <2>. QED BY <1>0, <1>4 DEF TypeInv, ConsumerState
<1>6. /\ ~(mem.tail # c.tail) /\ ~(Sub(mem.head, c.shadow) > Room(c.shadow, c.tail))
      /\ ~(Sub(mem.head, c.tail) > Capacity) /\ ~(c.eofHead /\ mem.head # c.final)
  <2>1. ~(I - t > Capacity) BY <1>0, <1>3
  <2>. QED BY <1>1, <1>3, <2>1
<1>7. CASE I - t = 0
  <2> DEFINE to == IF d.eofHead /\ d.final = c.tail THEN "end" ELSE IF c.acked THEN "wait" ELSE "ack"
  <2>1. to \in ConsumerPc /\ to # "release" /\ to # "closed" /\ (to = "end" => seen /\ last = c.tail)
    BY <1>5 DEF ConsumerPc
  <2>2. c' = [d EXCEPT !.pc = to] /\ out' = out BY <1>1, <1>6, <1>7 DEF read
  <2> HIDE DEF to, d, seen, last
  <2>3. /\ c' \in ConsumerState /\ c'.pc = to /\ c'.tail = c.tail /\ c'.cursor = c.cursor
        /\ c'.shadow = I % Width /\ c'.seen = c.seen /\ c'.eofHead = seen /\ c'.final = last
    BY <1>3, <1>5, <2>1, <2>2 DEF ConsumerState
  <2>4. TypeInv' BY <1>2, <2>2, <2>3 DEF TypeInv
  <2>5. UNCHANGED <<mem, p, in, out>> BY <1>2, <2>2
  <2>6. I <= I /\ Len(out) = I BY <1>0, <1>3, <1>7
  <2>7. Counts(t, ps, I)' BY <1>0, <1>3, <1>4, <2>1, <2>3, <2>5, <2>6, ConsumerMoves
  <2>. QED BY <2>2, <2>3, <2>4, <2>5, <2>7
<1>8. CASE I - t # 0
  <2>1. PICK n \in 1 .. I - t :
          /\ c' = [d EXCEPT !.n = n, !.pc = "release", !.acked = FALSE]
          /\ out' = out \o [k \in 1 .. n |-> mem.ring[(c.cursor + k - 1) % Capacity]]
    BY <1>1, <1>6, <1>8 DEF read
  <2> DEFINE piece == [k \in 1 .. n |-> mem.ring[(c.cursor + k - 1) % Capacity]]
  <2>2. n \in Nat /\ n # 0 /\ n <= I - t /\ n <= Capacity /\ t + n <= I /\ n \in 1 .. Capacity BY <1>0, <1>3
  <2>3. ASSUME NEW k \in 1 .. n PROVE mem.ring[(c.cursor + k - 1) % Capacity] = Bytes[t + k] /\ Bytes[t + k] \in Nat
    <3> DEFINE i == k - 1
               j == t + k
    <3>1. i \in Nat /\ c.cursor + k - 1 = c.cursor + i /\ t + i = j - 1 BY <1>0, <2>2
    <3>2. j \in t + 1 .. I + Pending /\ j \in 1 .. Len(Bytes) BY <1>0, <1>3, <2>2
    <3> HIDE DEF i, j
    <3>3. ((t % Capacity) + i) % Capacity = (t + i) % Capacity BY <1>0, <3>1, Advance
    <3>4. mem.ring[(j - 1) % Capacity] = Bytes[j] BY <3>2 DEF Counts, Contents
    <3>5. Bytes[j] \in Nat BY <3>2, ElementOfSeq DEF Sized
    <3>. QED BY <1>3, <3>1, <3>3, <3>4, <3>5 DEF j
  <2>4. piece \in Seq(Nat) /\ Len(piece) = n /\ \A k \in 1 .. n : piece[k] = Bytes[t + k]
    <3>1. piece = [k \in 1 .. n |-> Bytes[t + k]] BY <2>3
    <3>2. \A k \in 1 .. n : Bytes[t + k] \in Nat BY <2>3
    <3>3. piece \in [1 .. n -> Nat] BY <3>1, <3>2
    <3>4. piece \in Seq(Nat) BY <2>2, <3>3, SeqDef
    <3>5. Len(piece) \in Nat /\ 1 .. Len(piece) = 1 .. n BY <3>3, <3>4, LenProperties
    <3>6. Len(piece) = n BY <2>2, <3>5
    <3>. QED BY <3>1, <3>4, <3>6
  <2>13. out' = out \o piece BY <2>1
  <2> HIDE DEF piece, d, seen, last
  <2>5. /\ out' \in Seq(Nat) /\ Len(out') = t + n
        /\ \A k \in 1 .. t + n : out'[k] = IF k <= t THEN out[k] ELSE piece[k - t]
    <3>1. /\ out \o piece \in Seq(Nat) /\ Len(out \o piece) = Len(out) + Len(piece)
          /\ \A k \in 1 .. Len(out) + Len(piece) :
               (out \o piece)[k] = IF k <= Len(out) THEN out[k] ELSE piece[k - Len(out)]
      BY <2>4, ConcatProperties DEF TypeInv
    <3>. QED BY <1>3, <2>4, <2>13, <3>1
  <2>6. /\ c' \in ConsumerState /\ c'.pc = "release" /\ c'.n = n /\ c'.tail = c.tail /\ c'.cursor = c.cursor
        /\ c'.shadow = I % Width /\ c'.seen = c.seen /\ c'.eofHead = seen /\ c'.final = last
    BY <1>3, <1>5, <2>1, <2>2 DEF ConsumerState, ConsumerPc
  <2>7. TypeInv' BY <1>2, <2>5, <2>6 DEF TypeInv
  <2>8. Pending' = Pending BY <1>2 DEF Pending
  <2>9. Cursors(t, ps, I)'
    <3>1. t <= t + n /\ I <= I BY <1>0, <2>2
    <3>2. /\ p.head = I % Width /\ mem.head = p.head /\ p.cursor = I % Capacity
          /\ p.shadow = ps % Width /\ I + Pending <= ps + Capacity
      BY DEF Counts, Cursors
    <3>. QED BY <1>2, <1>3, <2>2, <2>5, <2>6, <2>8, <3>1, <3>2 DEF Cursors
  <2>10. Contents(t)'
    <3>1. ASSUME NEW k \in 1 .. t + n PROVE out'[k] = Bytes[k]
      <4>1. CASE k <= t
        <5>1. out[k] = Bytes[k] BY <1>3, <4>1 DEF Counts, Contents
        <5>. QED BY <2>5, <4>1, <5>1
      <4>2. CASE ~(k <= t)
        <5>1. k - t \in 1 .. n /\ t + (k - t) = k BY <2>2, <4>2
        <5>2. piece[k - t] = Bytes[t + (k - t)] BY <2>4, <5>1
        <5>. QED BY <2>5, <4>2, <5>1, <5>2
      <4>. QED BY <4>1, <4>2
    <3>. QED BY <1>2, <2>5, <2>8, <3>1 DEF Counts, Contents
  <2>11. Ends' BY <1>2, <1>4, <2>6 DEF Counts, Ends
  <2>12. Counts(t, ps, I)' BY <2>9, <2>10, <2>11 DEF Counts
  <2>. QED BY <1>2, <1>3, <2>2, <2>5, <2>6, <2>7, <2>12
<1>. QED BY <1>7, <1>8

-----------------------------------------------------------------------------
(* The theorems.                                                           *)

LEMMA Inductive == ASSUME Sized, IInv, [Next]_vars PROVE IInv'
<1>1. PICK t \in Nat, ps \in Nat, cs \in Nat : Counts(t, ps, cs) BY DEF IInv
<1>2. TypeInv BY DEF IInv
<1>3. Len(in) \in Nat BY <1>2, Lengths
<1>4. CASE write BY <1>1, <1>2, <1>4, WriteStep DEF IInv
<1>5. CASE publish BY <1>1, <1>2, <1>5, PublishStep DEF IInv
<1>6. CASE finish BY <1>1, <1>2, <1>6, FinishStep DEF IInv
<1>7. CASE notify \/ acknowledge \/ drained \/ wait \/ close BY <1>1, <1>2, <1>7, ProducerRests DEF IInv
<1>8. CASE attach \/ load_eof \/ notify_c \/ acknowledge_c \/ wait_c \/ close_c
  <2>1. PICK n \in Nat : n = Len(in) BY <1>3
  <2>2. TypeInv' /\ in' = in /\ (Counts(t, ps, cs)' \/ Counts(t, ps, Len(in))')
    BY <1>1, <1>2, <1>8, ConsumerRests
  <2>3. Counts(t, ps, cs)' \/ Counts(t, ps, n)' BY <2>1, <2>2
  <2>. QED BY <2>2, <2>3 DEF IInv
<1>9. CASE read
  <2>1. PICK n \in Nat : n = Len(in) BY <1>3
  <2>2. TypeInv' /\ in' = in /\ Counts(t, ps, Len(in))' BY <1>1, <1>2, <1>9, ReadStep
  <2>3. Counts(t, ps, n)' BY <2>1, <2>2
  <2>. QED BY <2>2, <2>3 DEF IInv
<1>10. CASE release BY <1>1, <1>2, <1>10, ReleaseStep DEF IInv
<1>11. CASE UNCHANGED vars
  <2>1. TypeInv' /\ Counts(t, ps, cs)'
    BY <1>1, <1>2, <1>11 DEF vars, TypeInv, Counts, Cursors, Contents, Ends, Pending
  <2>. QED BY <2>1 DEF IInv
<1>. QED BY <1>4, <1>5, <1>6, <1>7, <1>8, <1>9, <1>10, <1>11 DEF Next, Producer, Consumer

LEMMA Invariance == Sized => (Spec => []IInv)
<1> SUFFICES ASSUME Sized PROVE Spec => []IInv OBVIOUS
<1>1. Init => IInv BY Initially
<1>2. IInv /\ [Next]_vars => IInv' BY Inductive
<1>. QED BY <1>1, <1>2, PTL DEF Spec

\* Between sides that keep the protocol no check of the cursors ever fails (RNL2 Broken): the shadow of a
\* cursor is never ahead of it nor more than a ring behind, whatever the capacity and the width, across
\* every wrap of the cursors and at every interleaving of the loads and stores.
THEOREM NeverTakenForBroken == Sized => (Spec => []NeverBroken)
<1> SUFFICES ASSUME Sized PROVE Spec => []NeverBroken OBVIOUS
<1>1. Spec => []IInv BY Invariance
<1>2. IInv => NeverBroken BY DEF IInv, TypeInv, ProducerState, ConsumerState, NeverBroken
<1>. QED BY <1>1, <1>2, PTL

\* A sequence that agrees with another as far as it goes is a beginning of it.
LEMMA Beginning ==
  ASSUME NEW s \in Seq(Nat), NEW r \in Seq(Nat), Len(s) <= Len(r), \A k \in 1 .. Len(s) : s[k] = r[k]
  PROVE  s = SubSeq(r, 1, Len(s))
<1> DEFINE m == Len(s)
           u == SubSeq(r, 1, m)
<1>1. m \in Nat /\ Len(r) \in Nat BY LenProperties
<1>2. \A i \in 1 .. m : r[i] \in Nat
  <2>1. \A i \in 1 .. Len(r) : r[i] \in Nat BY ElementOfSeq
  <2>. QED BY <1>1, <2>1
<1> HIDE DEF m
<1>3. /\ u \in Seq(Nat) /\ Len(u) = IF 1 <= m THEN m - 1 + 1 ELSE 0
      /\ \A i \in 1 .. m - 1 + 1 : u[i] = r[1 + i - 1]
  BY <1>1, <1>2, SubSeqProperties
<1>4. Len(u) = m /\ m - 1 + 1 = m BY <1>1, <1>3
<1>5. \A i \in 1 .. m : u[i] = r[i]
  <2>1. \A i \in 1 .. m : 1 + i - 1 = i BY <1>1
  <2>. QED BY <1>3, <1>4, <2>1
<1> HIDE DEF u
<1>6. s = u BY <1>3, <1>4, <1>5, SeqEqual DEF m
<1>. QED BY <1>6 DEF u, m

-----------------------------------------------------------------------------
(* The refinement.                                                         *)

\* The end as the consumer knows it, the refinement mapping's value of ended.
Ended == c.pc = "end" \/ (c.pc = "closed" /\ c.eofHead /\ c.final = c.tail /\ out = in)

\* In every reachable state what came out begins what went in, which begins the bytes, and they are
\* equal when their lengths are.
LEMMA Beginnings ==
  ASSUME Sized, IInv
  PROVE  /\ in = SubSeq(Bytes, 1, Len(in)) /\ out = SubSeq(in, 1, Len(out))
         /\ Len(out) = Len(in) => out = in
         /\ Len(in) \in Nat /\ Len(out) \in Nat /\ Len(Bytes) \in Nat
         /\ Len(out) <= Len(in) /\ Len(in) <= Len(Bytes) /\ Len(in) - Len(out) <= Capacity
<1>1. PICK t \in Nat, ps \in Nat, cs \in Nat : Counts(t, ps, cs) BY DEF IInv
<1>2. TypeInv /\ in \in Seq(Nat) /\ out \in Seq(Nat) /\ Bytes \in Seq(Nat) BY DEF IInv, TypeInv, Sized
<1>3. Len(in) \in Nat /\ Len(out) \in Nat /\ Len(Bytes) \in Nat /\ Pending \in Nat /\ Capacity \in Nat
  BY <1>2, Lengths
<1>4. Len(out) <= Len(in) /\ Len(in) <= Len(Bytes) /\ Len(in) - Len(out) <= Capacity
  BY <1>1, <1>3 DEF Counts, Cursors, Contents
<1>5. /\ \A k \in 1 .. Len(in) : in[k] = Bytes[k]
      /\ \A k \in 1 .. Len(out) : out[k] = Bytes[k]
  BY <1>1 DEF Counts, Contents
<1>6. \A k \in 1 .. Len(out) : out[k] = in[k] BY <1>3, <1>4, <1>5
<1>7. in = SubSeq(Bytes, 1, Len(in)) BY <1>2, <1>4, <1>5, Beginning
<1>8. out = SubSeq(in, 1, Len(out)) BY <1>2, <1>4, <1>6, Beginning
<1>9. Len(out) = Len(in) => out = in BY <1>2, <1>6, SeqEqual
<1>. QED BY <1>3, <1>4, <1>7, <1>8, <1>9

LEMMA MapsInit == ASSUME Sized, Init PROVE Stream!Init
BY DEF Init, Stream!Init

LEMMA MapsStep == ASSUME Sized, IInv, IInv', [Next]_vars PROVE [Stream!Next]_(Stream!vars)
<1>0. PICK t \in Nat, ps \in Nat, cs \in Nat : Counts(t, ps, cs) BY DEF IInv
<1>1. TypeInv /\ TypeInv' BY DEF IInv
<1>2. /\ Len(in) \in Nat /\ Len(out) \in Nat /\ Len(Bytes) \in Nat /\ Capacity \in Nat \ {0} /\ p.n \in Nat
      /\ mem.eof \in BOOLEAN /\ p.eof \in BOOLEAN /\ mem.eof = p.eof
  <2>1. mem.eof \in BOOLEAN /\ p.eof \in BOOLEAN BY <1>1 DEF TypeInv, Memory, ProducerState
  <2>. QED BY <1>0, <1>1, <2>1, Lengths DEF Counts, Ends
<1>3. /\ in' = SubSeq(Bytes, 1, Len(in')) /\ out' = SubSeq(in', 1, Len(out')) /\ (Len(out') = Len(in') => out' = in')
      /\ Len(out') <= Len(in') /\ Len(in') <= Len(Bytes) /\ Len(in') - Len(out') <= Capacity
  <2>1. /\ (in = SubSeq(Bytes, 1, Len(in)))' /\ (out = SubSeq(in, 1, Len(out)))' /\ (Len(out) = Len(in) => out = in)'
        /\ (Len(out) <= Len(in))' /\ (Len(in) <= Len(Bytes))' /\ (Len(in) - Len(out) <= Capacity)'
    BY Beginnings, PTL
  <2>. QED BY <2>1
<1>4. /\ c.pc = "end" => c.eofHead /\ c.final = c.tail /\ Len(out) = Len(in)
      /\ c.seen \/ c.eofHead => p.eof
      /\ (c.pc = "end")' => c'.eofHead /\ Len(out') = Len(in')
      /\ c'.eofHead => p'.eof
      /\ mem'.eof = p'.eof
  <2>1. PICK t1 \in Nat, ps1 \in Nat, cs1 \in Nat : Counts(t1, ps1, cs1)' BY DEF IInv
  <2>. QED BY <1>0, <2>1 DEF Counts, Ends
<1>5. Len(out) = Len(in) => out = in BY Beginnings
<1>6. CASE publish
  <2>1. p.n # 0 /\ Len(in') = Len(in) + p.n BY <1>0, <1>1, <1>6, PublishStep
  <2>2. ~p.eof BY <1>0, <1>6 DEF Counts, Ends, publish
  <2>3. UNCHANGED <<c, out>> /\ mem'.eof = mem.eof BY <1>1, <1>6 DEF publish, TypeInv, Memory
  <2>4. ~Ended /\ ~Ended' BY <1>4, <2>2, <2>3 DEF Ended
  <2>5. /\ p.n \in 1 .. Capacity /\ Len(in) + p.n <= Len(Bytes) /\ Len(in) + p.n - Len(out) <= Capacity
        /\ in' = SubSeq(Bytes, 1, Len(in) + p.n)
    <3>1. Len(out) <= Len(in) BY Beginnings
    <3>. QED BY <1>2, <1>3, <2>1, <2>3, <3>1
  <2>6. Stream!Put
    <3>1. Ended' = Ended BY <2>4 DEF Ended
    <3>. QED BY <1>2, <2>2, <2>3, <2>5, <3>1 DEF Stream!Put, Ended
  <2>. QED BY <2>6 DEF Stream!Next
<1>7. CASE finish
  <2>1. ~BrokenHead /\ ~BrokenTail(mem.tail) BY <1>0, <1>1, Differences DEF Counts
  <2>2. UNCHANGED <<c, in, out>> /\ mem'.eof = TRUE BY <1>1, <1>7, <2>1 DEF finish, TypeInv, Memory
  <2>3. Stream!Finish BY <2>2 DEF Stream!Finish
  <2>. QED BY <2>3 DEF Stream!Next
<1>8. CASE write
  <2>1. UNCHANGED <<c, in, out>> /\ mem'.eof = mem.eof BY <1>1, <1>8 DEF write, TypeInv, Memory
  <2>. QED BY <2>1 DEF Stream!vars
<1>9. CASE notify \/ acknowledge \/ drained \/ wait \/ close
  <2>1. UNCHANGED <<mem, c, in, out>> BY <1>0, <1>1, <1>9, ProducerRests
  <2>. QED BY <2>1 DEF Stream!vars
<1>10. CASE release
  <2>1. UNCHANGED <<in, out>> /\ mem'.eof = mem.eof BY <1>1, <1>10 DEF release, TypeInv, Memory
  <2>2. c.pc = "release" /\ c'.pc = "notify" BY <1>1, <1>10 DEF release, TypeInv, ConsumerState
  <2>3. ~Ended /\ ~Ended' BY <2>2 DEF Ended
  <2>4. Ended' = Ended BY <2>3 DEF Ended
  <2>. QED BY <2>1, <2>4 DEF Stream!vars, Ended
<1>11. ASSUME UNCHANGED <<mem, p, in, out>>, Ended => Ended' PROVE [Stream!Next]_(Stream!vars)
  <2>1. CASE Ended
    <3>1. Ended' = Ended BY <1>11, <2>1 DEF Ended
    <3>. QED BY <1>11, <3>1 DEF Stream!vars, Ended
  <2>2. CASE ~Ended'
    <3>1. Ended' = Ended BY <1>11, <2>2 DEF Ended
    <3>. QED BY <1>11, <3>1 DEF Stream!vars, Ended
  <2>3. CASE ~Ended /\ Ended'
    <3>1. c'.eofHead /\ out' = in' BY <1>3, <1>4, <2>3 DEF Ended
    <3>2. mem.eof /\ out = in BY <1>2, <1>4, <1>11, <3>1
    <3>3. Ended' = TRUE BY <2>3 DEF Ended
    <3>4. Stream!End BY <1>11, <3>2, <3>3 DEF Stream!End, Ended
    <3>. QED BY <3>4 DEF Stream!Next
  <2>. QED BY <2>1, <2>2, <2>3
<1>12. CASE attach \/ load_eof \/ notify_c \/ acknowledge_c \/ wait_c \/ close_c
  <2>1. UNCHANGED <<mem, p, in, out>> BY <1>12 DEF attach, load_eof, notify_c, acknowledge_c, wait_c, close_c
  <2>2. Ended => c.pc = "end" /\ c' = [c EXCEPT !.pc = "closed"]
    BY <1>12 DEF Ended, attach, load_eof, notify_c, acknowledge_c, wait_c, close_c
  <2>3. Ended => Ended' BY <1>1, <1>4, <1>5, <2>1, <2>2 DEF Ended, TypeInv, ConsumerState
  <2>. QED BY <1>11, <2>1, <2>3
<1>13. CASE read
  <2>1. /\ UNCHANGED <<mem, p, in>>
        /\ out' = out \/ /\ c'.pc = "release" /\ c'.n \in 1 .. Capacity
                         /\ Len(out') = Len(out) + c'.n /\ Len(out') <= Len(in)
    BY <1>0, <1>1, <1>13, ReadStep
  <2>2. ~Ended BY <1>13 DEF read, Ended
  <2>3. CASE out' = out BY <1>11, <2>1, <2>2, <2>3
  <2>4. CASE out' # out
    <3>1. ~Ended' BY <2>1, <2>4 DEF Ended
    <3>2. Ended' = Ended BY <2>2, <3>1 DEF Ended
    <3>3. Stream!Take BY <1>2, <1>3, <2>1, <2>4, <3>2 DEF Stream!Take, Ended
    <3>. QED BY <3>3 DEF Stream!Next
  <2>. QED BY <2>3, <2>4
<1>14. CASE UNCHANGED vars BY <1>14 DEF vars, Stream!vars
<1>. QED BY <1>6, <1>7, <1>8, <1>9, <1>10, <1>12, <1>13, <1>14 DEF Next, Producer, Consumer

\* The ring of a Runnel is the bounded byte stream that ByteStream specifies, for any bytes, capacity and
\* cursor width: every byte that was written and published comes out once and in order, never more than a
\* ring of them is under way, and the consumer concludes the end only behind the last byte.
THEOREM RunnelImplementsByteStream == Sized => (Spec => ImplementsByteStream)
<1> SUFFICES ASSUME Sized PROVE Spec => ImplementsByteStream OBVIOUS
<1>1. Init => Stream!Init BY MapsInit
<1>2. IInv /\ IInv' /\ [Next]_vars => [Stream!Next]_(Stream!vars) BY MapsStep
<1>3. Spec => []IInv BY Invariance
<1>. QED BY <1>1, <1>2, <1>3, PTL DEF Spec, Stream!Spec, ImplementsByteStream
=============================================================================
