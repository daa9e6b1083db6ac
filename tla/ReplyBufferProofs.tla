------------------------- MODULE ReplyBufferProofs --------------------------
(***************************************************************************)
(* What add and delete keep, for every limit and every content: the size   *)
(* kept beside the items is what they take, it stays within the limit, and *)
(* an id is held once.                                                     *)
(***************************************************************************)
EXTENDS ReplyBuffer, NumberLemmas

-----------------------------------------------------------------------------
(* Sums.                                                                    *)

\* There is a function that adds up the items one by one.
LEMMA RunningExists ==
    ASSUME NEW items, Len(items) \in Nat
    PROVE  \E sum : sum = [n \in 0 .. Len(items) |->
                            IF n = 0 THEN 0 ELSE sum[n - 1] + items[n].bytes]
<1> DEFINE Sums(k, sum) ==
        sum = [n \in 0 .. k |-> IF n = 0 THEN 0 ELSE sum[n - 1] + items[n].bytes]
           Known == {k \in 0 .. Len(items) : \E sum : Sums(k, sum)}
<1>1. 0 \in Known
  <2> DEFINE none == [n \in 0 .. 0 |-> 0]
  <2>1. Sums(0, none)
      OBVIOUS
  <2> HIDE DEF Sums, none
  <2> QED BY <2>1
<1>2. ASSUME NEW k \in 0 .. Len(items) - 1, k \in Known PROVE k + 1 \in Known
  <2>1. PICK sum : Sums(k, sum)
      BY <1>2
  <2> DEFINE more == [n \in 0 .. k + 1 |->
                        IF n = k + 1 THEN sum[k] + items[n].bytes ELSE sum[n]]
  <2>2. \A n \in 0 .. k : sum[n] = IF n = 0 THEN 0 ELSE sum[n - 1] + items[n].bytes
    <3> HIDE DEF more
    <3> QED BY <2>1
  <2>3. more[k + 1] = sum[k] + items[k + 1].bytes /\ \A n \in 0 .. k : more[n] = sum[n]
      OBVIOUS
  <2>4. ASSUME NEW n \in 0 .. k + 1
        PROVE  more[n] = IF n = 0 THEN 0 ELSE more[n - 1] + items[n].bytes
    <3> HIDE DEF more, Sums
    <3>1. CASE n = k + 1
        BY <2>3, <3>1
    <3>2. CASE n \in 0 .. k
        BY <2>2, <2>3, <3>2
    <3> QED BY <3>1, <3>2
  <2>5. more = [n \in 0 .. k + 1 |-> more[n]]
      OBVIOUS
  <2>6. Sums(k + 1, more)
    <3> HIDE DEF more
    <3> QED BY <2>4, <2>5
  <2> HIDE DEF Sums, more
  <2> QED BY <2>6
<1>3. Len(items) \in Known
  <2> HIDE DEF Known
  <2> QED BY <1>1, <1>2, SetInduction
<1> QED BY <1>3

LEMMA RunningStep ==
    ASSUME NEW items, Len(items) \in Nat
    PROVE  /\ Running(items)[0] = 0
           /\ \A n \in 0 .. Len(items) - 1 :
                Running(items)[n + 1] = Running(items)[n] + items[n + 1].bytes
<1> DEFINE sum == Running(items)
<1>1. sum = [n \in 0 .. Len(items) |-> IF n = 0 THEN 0 ELSE sum[n - 1] + items[n].bytes]
    BY RunningExists DEF Running
<1> HIDE DEF sum
<1>2. \A n \in 0 .. Len(items) - 1 :
        n + 1 \in 0 .. Len(items) /\ n + 1 # 0 /\ (n + 1) - 1 = n
    OBVIOUS
<1>3. sum[0] = 0 /\ \A n \in 0 .. Len(items) - 1 : sum[n + 1] = sum[n] + items[n + 1].bytes
    BY <1>1, <1>2
<1> QED BY <1>3 DEF sum

LEMMA RunningNat ==
    ASSUME NEW D, \A d \in D : d.bytes \in Nat, NEW items \in Seq(D),
           NEW m \in 0 .. Len(items)
    PROVE  Running(items)[m] \in Nat
<1> DEFINE Known == {n \in 0 .. m : Running(items)[n] \in Nat}
<1>1. 0 \in Known
    BY RunningStep
<1>2. \A n \in 0 .. m - 1 : n \in Known => n + 1 \in Known
  <2> SUFFICES ASSUME NEW n \in 0 .. m - 1, n \in Known PROVE n + 1 \in Known
      OBVIOUS
  <2>1. Running(items)[n + 1] = Running(items)[n] + items[n + 1].bytes
      BY RunningStep
  <2>2. items[n + 1] \in D
      OBVIOUS
  <2> QED BY <2>1, <2>2
<1>3. m \in Known
  <2> HIDE DEF Known
  <2> QED BY <1>1, <1>2, SetInduction
<1> QED BY <1>3

\* Two contents that begin alike have the same running sums there.
LEMMA RunningPrefix ==
    ASSUME NEW a, NEW b, Len(a) \in Nat, Len(b) \in Nat,
           NEW m \in Nat, m <= Len(a), m <= Len(b), \A i \in 1 .. m : a[i] = b[i]
    PROVE  Running(a)[m] = Running(b)[m]
<1> DEFINE Known == {n \in 0 .. m : Running(a)[n] = Running(b)[n]}
<1>1. 0 \in Known
    BY RunningStep
<1>2. \A n \in 0 .. m - 1 : n \in Known => n + 1 \in Known
  <2> SUFFICES ASSUME NEW n \in 0 .. m - 1, n \in Known PROVE n + 1 \in Known
      OBVIOUS
  <2>1. /\ Running(a)[n + 1] = Running(a)[n] + a[n + 1].bytes
        /\ Running(b)[n + 1] = Running(b)[n] + b[n + 1].bytes
      BY RunningStep
  <2> QED BY <2>1
<1>3. m \in Known
  <2> HIDE DEF Known
  <2> QED BY <1>1, <1>2, SetInduction
<1> QED BY <1>3

LEMMA TotalNat ==
    ASSUME NEW D, \A d \in D : d.bytes \in Nat, NEW items \in Seq(D)
    PROVE  Total(items) \in Nat
BY RunningNat DEF Total

LEMMA TotalEmpty == Total(<< >>) = 0
BY RunningStep DEF Total

LEMMA TotalOne ==
    ASSUME NEW item, item.bytes \in Nat
    PROVE  Total(<<item>>) = item.bytes
<1>1. Len(<<item>>) = 1 /\ <<item>>[1] = item
    OBVIOUS
<1> QED BY <1>1, RunningStep DEF Total

LEMMA TotalConcat ==
    ASSUME NEW D, \A d \in D : d.bytes \in Nat, NEW a \in Seq(D), NEW b \in Seq(D)
    PROVE  Total(a \o b) = Total(a) + Total(b)
<1> DEFINE c == a \o b
           Known == {n \in 0 .. Len(b) :
                        Running(c)[Len(a) + n] = Running(a)[Len(a)] + Running(b)[n]}
<1>1. /\ c \in Seq(D) /\ Len(c) = Len(a) + Len(b)
      /\ \A i \in 1 .. Len(a) : c[i] = a[i]
      /\ \A i \in 1 .. Len(b) : c[Len(a) + i] = b[i]
    BY ConcatProperties
<1> HIDE DEF c
<1>2. 0 \in Known
  <2>1. Running(c)[Len(a)] = Running(a)[Len(a)]
    <3> DEFINE m == Len(a)
    <3>1. /\ m \in Nat /\ Len(a) \in Nat /\ Len(c) \in Nat /\ m <= Len(c) /\ m <= Len(a)
          /\ \A i \in 1 .. m : c[i] = a[i]
        BY <1>1
    <3> HIDE DEF m
    <3>2. Running(c)[m] = Running(a)[m]
        BY <3>1, RunningPrefix
    <3> QED BY <3>2 DEF m
  <2>2. Running(b)[0] = 0 /\ Running(a)[Len(a)] \in Nat
      BY RunningStep, RunningNat
  <2> QED BY <2>1, <2>2
<1>3. \A n \in 0 .. Len(b) - 1 : n \in Known => n + 1 \in Known
  <2> SUFFICES ASSUME NEW n \in 0 .. Len(b) - 1, n \in Known PROVE n + 1 \in Known
      OBVIOUS
  <2>1. Running(b)[n + 1] = Running(b)[n] + b[n + 1].bytes
    <3> HIDE DEF Known
    <3>1. Len(b) \in Nat
        OBVIOUS
    <3> QED BY <3>1, RunningStep
  <2>2. Running(c)[Len(a) + n + 1] = Running(c)[Len(a) + n] + c[Len(a) + n + 1].bytes
    <3> DEFINE k == Len(a) + n
    <3>1. k \in 0 .. Len(c) - 1 /\ Len(c) \in Nat /\ Len(a) + n + 1 = k + 1
        BY <1>1
    <3> HIDE DEF k
    <3>2. Running(c)[k + 1] = Running(c)[k] + c[k + 1].bytes
        BY <3>1, RunningStep
    <3> QED BY <3>1, <3>2 DEF k
  <2>3. c[Len(a) + n + 1] = b[n + 1] /\ b[n + 1] \in D
      BY <1>1
  <2>4. /\ Running(a)[Len(a)] \in Nat /\ Running(b)[n] \in Nat
        /\ b[n + 1].bytes \in Nat
      BY <2>3, RunningNat
  <2> QED BY <2>1, <2>2, <2>3, <2>4
<1>4. Len(b) \in Known
  <2> HIDE DEF Known
  <2> QED BY <1>2, <1>3, SetInduction
<1> QED BY <1>1, <1>4 DEF Total, c

-----------------------------------------------------------------------------
(* The operations. D is what the buffer keeps.                              *)

Sized(D) == \A d \in D : d.bytes \in Nat

\* An id is held once.
IdsOnce(items) == \A i, j \in DOMAIN items : items[i].id = items[j].id => i = j

Sound(buffer, D) ==
    /\ buffer \in [items : Seq(D), size : 0 .. MaxBytes]
    /\ buffer.size = Total(buffer.items)
    /\ IdsOnce(buffer.items)

LEMMA EmptySound == ASSUME NEW D PROVE Sound(EmptyBuffer, D)
BY TotalEmpty, MaxBytesAssumption DEF Sound, EmptyBuffer, IdsOnce

\* An item is taken out: the others stay in their order.
LEMMA RemoveAtParts ==
    ASSUME NEW D, Sized(D), NEW items \in Seq(D), NEW i \in DOMAIN items
    PROVE  /\ RemoveAt(items, i) \in Seq(D)
           /\ Len(RemoveAt(items, i)) = Len(items) - 1
           /\ \A j \in 1 .. Len(items) - 1 :
                RemoveAt(items, i)[j] = IF j < i THEN items[j] ELSE items[j + 1]
           /\ Total(items) = Total(RemoveAt(items, i)) + items[i].bytes
<1> DEFINE before == SubSeq(items, 1, i - 1)
           after == SubSeq(items, i + 1, Len(items))
           this == <<items[i]>>
<1>1. i \in 1 .. Len(items) /\ Len(items) \in Nat /\ items[i] \in D
    OBVIOUS
<1>2. /\ before \in Seq(D) /\ Len(before) = i - 1
      /\ \A j \in 1 .. i - 1 : before[j] = items[j]
  <2>1. \A j \in 1 .. i - 1 : items[j] \in D
      BY <1>1
  <2> QED BY <1>1, <2>1, SubSeqProperties
<1>3. /\ after \in Seq(D) /\ Len(after) = Len(items) - i
      /\ \A j \in 1 .. Len(items) - i : after[j] = items[i + j]
  <2>1. \A j \in i + 1 .. Len(items) : items[j] \in D
      BY <1>1
  <2>2. /\ after \in Seq(D) /\ Len(after) = Len(items) - i
        /\ \A j \in 1 .. Len(items) - (i + 1) + 1 : after[j] = items[(i + 1) + j - 1]
      BY <1>1, <2>1, SubSeqProperties
  <2> HIDE DEF after
  <2> QED BY <1>1, <2>2
<1>4. items = (before \o this) \o after
  <2>1. before \o this = SubSeq(items, 1, i)
      BY <1>1, SubSeqRecursiveSecond
  <2>2. SubSeq(items, 1, i) \o after = SubSeq(items, 1, Len(items))
    <3>1. /\ 1 \in 1 .. Len(items) + 1 /\ i \in 1 - 1 .. Len(items)
          /\ Len(items) \in i .. Len(items)
        BY <1>1
    <3> QED BY <1>1, <3>1, ConcatAdjacentSubSeq
  <2> QED BY <2>1, <2>2, SubSeqFull
<1>5. RemoveAt(items, i) = before \o after
    BY DEF RemoveAt
<1>6. this \in Seq(D) /\ Total(this) = items[i].bytes /\ items[i].bytes \in Nat
    BY <1>1, TotalOne DEF Sized
<1> HIDE DEF before, after, this
<1>7. /\ before \o this \in Seq(D) /\ before \o after \in Seq(D)
      /\ Len(before \o after) = Len(items) - 1
    BY <1>1, <1>2, <1>3, <1>6, ConcatProperties
<1>8. Total(items) = Total(before) + items[i].bytes + Total(after)
  <2>1. Total(before \o this) = Total(before) + items[i].bytes
      BY <1>2, <1>6, TotalConcat DEF Sized
  <2>2. Total(items) = Total(before \o this) + Total(after)
      BY <1>3, <1>4, <1>7, TotalConcat DEF Sized
  <2> QED BY <2>1, <2>2
<1>9. Total(before \o after) = Total(before) + Total(after)
    BY <1>2, <1>3, TotalConcat DEF Sized
<1>10. Total(before) \in Nat /\ Total(after) \in Nat
    BY <1>2, <1>3, TotalNat DEF Sized
<1>11. ASSUME NEW j \in 1 .. Len(items) - 1
       PROVE  (before \o after)[j] = IF j < i THEN items[j] ELSE items[j + 1]
  <2>1. (before \o after)[j] = IF j <= i - 1 THEN before[j] ELSE after[j - (i - 1)]
      BY <1>1, <1>2, <1>3, ConcatProperties
  <2>2. CASE j < i
      BY <1>1, <1>2, <2>1, <2>2
  <2>3. CASE ~(j < i)
    <3>1. j - (i - 1) \in 1 .. Len(items) - i /\ i + (j - (i - 1)) = j + 1
        BY <1>1, <2>3
    <3> QED BY <1>1, <1>3, <2>1, <2>3, <3>1
  <2> QED BY <2>2, <2>3
<1> QED BY <1>5, <1>6, <1>7, <1>8, <1>9, <1>10, <1>11

\* delete leaves exactly the replies to the other requests.
THEOREM DeleteKeeps ==
    ASSUME NEW D, Sized(D), NEW buffer, Sound(buffer, D), NEW id
    PROVE  /\ Sound(Delete(buffer, id), D)
           /\ ToSet(Delete(buffer, id).items) = {d \in ToSet(buffer.items) : d.id # id}
<1> DEFINE items == buffer.items
           i == Position(items, id)
<1>1. items \in Seq(D) /\ buffer \in [items : Seq(D), size : 0 .. MaxBytes]
    BY DEF Sound
<1>2. CASE ~Holds(buffer, id)
    BY <1>2 DEF Delete, Holds, ToSet
<1>3. CASE Holds(buffer, id)
  <2> DEFINE rest == RemoveAt(items, i)
  <2>1. i \in DOMAIN items /\ items[i].id = id
      BY <1>3 DEF Holds, Position
  <2>2. Delete(buffer, id) = [items |-> rest, size |-> buffer.size - items[i].bytes]
      BY <1>3 DEF Delete
  <2> HIDE DEF i
  <2>3. /\ rest \in Seq(D) /\ Len(rest) = Len(items) - 1
        /\ \A j \in 1 .. Len(items) - 1 :
                rest[j] = IF j < i THEN items[j] ELSE items[j + 1]
        /\ Total(items) = Total(rest) + items[i].bytes
      BY <1>1, <2>1, RemoveAtParts
  <2>4. Total(rest) \in Nat /\ items[i].bytes \in Nat
      BY <1>1, <2>1, <2>3, TotalNat DEF Sized
  <2> HIDE DEF rest
  <2>5. buffer.size - items[i].bytes = Total(rest) /\ Total(rest) \in 0 .. MaxBytes
      BY <2>3, <2>4, MaxBytesAssumption DEF Sound
  <2>6. \A j \in DOMAIN rest :
            LET k == IF j < i THEN j ELSE j + 1
            IN  k \in DOMAIN items /\ k # i /\ rest[j] = items[k]
      BY <1>1, <2>1, <2>3
  <2>7. \A k \in DOMAIN items : k # i =>
            LET j == IF k < i THEN k ELSE k - 1
            IN  j \in DOMAIN rest /\ rest[j] = items[k]
      BY <1>1, <2>1, <2>3, SMTT(30)
  <2>8. IdsOnce(items)
      BY DEF Sound
  <2>9. IdsOnce(rest)
    <3> SUFFICES ASSUME NEW j \in DOMAIN rest, NEW l \in DOMAIN rest, rest[j].id = rest[l].id
                 PROVE  j = l
        BY DEF IdsOnce
    <3>1. (IF j < i THEN j ELSE j + 1) = (IF l < i THEN l ELSE l + 1)
        BY <2>6, <2>8 DEF IdsOnce
    <3> QED BY <1>1, <2>1, <2>3, <3>1
  <2>10. ToSet(rest) = {d \in ToSet(items) : d.id # id}
    <3>1. \A d \in ToSet(rest) : d \in ToSet(items) /\ d.id # id
        BY <2>1, <2>6, <2>8 DEF ToSet, IdsOnce
    <3>2. \A d \in ToSet(items) : d.id # id => d \in ToSet(rest)
        BY <2>1, <2>7 DEF ToSet
    <3> QED BY <3>1, <3>2
  <2> QED BY <2>2, <2>3, <2>5, <2>9, <2>10 DEF Sound
<1> QED BY <1>2, <1>3

\* The n oldest are evicted.
LEMMA EvictedKeeps ==
    ASSUME NEW D, Sized(D), NEW buffer, Sound(buffer, D), NEW n \in 0 .. Len(buffer.items)
    PROVE  /\ Sound(Evicted(buffer, n), D)
           /\ ToSet(Evicted(buffer, n).items) \subseteq ToSet(buffer.items)
           /\ n = Len(buffer.items) => Evicted(buffer, n).size = 0
<1> DEFINE items == buffer.items
           out == SubSeq(items, 1, n)
           rest == SubSeq(items, n + 1, Len(items))
<1>1. items \in Seq(D) /\ Len(items) \in Nat
    BY DEF Sound
<1>2. out \in Seq(D) /\ rest \in Seq(D) /\ Len(rest) = Len(items) - n
      /\ \A j \in 1 .. Len(items) - n : rest[j] = items[n + j]
  <2>1. (\A j \in 1 .. n : items[j] \in D) /\ \A j \in n + 1 .. Len(items) : items[j] \in D
      BY <1>1
  <2>2. /\ rest \in Seq(D) /\ Len(rest) = Len(items) - n
        /\ \A j \in 1 .. Len(items) - (n + 1) + 1 : rest[j] = items[(n + 1) + j - 1]
      BY <1>1, <2>1, SubSeqProperties
  <2>3. out \in Seq(D)
      BY <1>1, <2>1, SubSeqProperties
  <2>4. n \in 0 .. Len(items)
      OBVIOUS
  <2> HIDE DEF rest, out, items
  <2>5. \A j \in 1 .. Len(items) - n :
            j \in 1 .. Len(items) - (n + 1) + 1 /\ (n + 1) + j - 1 = n + j
      BY <1>1, <2>4
  <2> QED BY <2>2, <2>3, <2>5
<1>3. items = out \o rest
  <2> HIDE DEF items
  <2>1. /\ 1 \in 1 .. Len(items) + 1 /\ n \in 1 - 1 .. Len(items)
        /\ Len(items) \in n .. Len(items)
      BY <1>1 DEF items
  <2> QED BY <1>1, <2>1, ConcatAdjacentSubSeq, SubSeqFull
<1>4. Evicted(buffer, n) = [items |-> rest, size |-> buffer.size - Total(out)]
    BY DEF Evicted
<1> HIDE DEF rest, out
<1>5. /\ Total(items) = Total(out) + Total(rest)
      /\ Total(out) \in Nat /\ Total(rest) \in Nat
    BY <1>2, <1>3, TotalConcat, TotalNat DEF Sized
<1>6. buffer.size - Total(out) = Total(rest) /\ Total(rest) \in 0 .. MaxBytes
    BY <1>5, MaxBytesAssumption DEF Sound
<1>7. IdsOnce(rest) /\ ToSet(rest) \subseteq ToSet(items)
  <2>1. \A j \in DOMAIN rest : n + j \in DOMAIN items /\ rest[j] = items[n + j]
      BY <1>1, <1>2
  <2>2. \A j, l \in DOMAIN rest : rest[j].id = rest[l].id => n + j = n + l
      BY <2>1 DEF Sound, IdsOnce
  <2> QED BY <1>2, <2>1, <2>2 DEF IdsOnce, ToSet
<1>8. n = Len(items) => Total(rest) = 0
  <2> SUFFICES ASSUME n = Len(items) PROVE rest = << >>
      BY TotalEmpty
  <2> QED BY <1>1, SubSeqEmpty DEF rest
<1> QED BY <1>2, <1>4, <1>6, <1>7, <1>8 DEF Sound

\* The eviction loop ends with enough room for any reply within the limit.
LEMMA MadeRoomKeeps ==
    ASSUME NEW D, Sized(D), NEW buffer, Sound(buffer, D), NEW bytes \in 0 .. MaxBytes
    PROVE  /\ Sound(MadeRoom(buffer, bytes), D)
           /\ ToSet(MadeRoom(buffer, bytes).items) \subseteq ToSet(buffer.items)
           /\ MadeRoom(buffer, bytes).size + bytes <= MaxBytes
<1> DEFINE last == Len(buffer.items)
           enough(n) == Evicted(buffer, n).size + bytes <= MaxBytes
           Fewest(k) == /\ enough(k) \/ k = last
                        /\ \A j \in 0 .. k - 1 : ~enough(j)
           n == CHOOSE k \in 0 .. last : Fewest(k)
           Ends == {k \in 0 .. last : enough(k) \/ k = last}
<1>1. last \in Nat
    BY DEF Sound
<1>2. \E k \in 0 .. last : Fewest(k)
  <2>1. last \in Ends
      BY <1>1
  <2>2. \E k \in 0 .. last : k \in Ends /\ \A j \in 0 .. k - 1 : j \notin Ends
    <3> HIDE DEF Ends, last
    <3> QED BY <1>1, <2>1, LeastMember
  <2> HIDE DEF last, enough
  <2> QED BY <1>1, <2>2
<1>3. n \in 0 .. last /\ (enough(n) \/ n = last)
  <2> HIDE DEF last, enough
  <2> QED BY <1>2
<1>4. MadeRoom(buffer, bytes) = Evicted(buffer, n)
    BY DEF MadeRoom
<1> HIDE DEF n
<1>5. /\ Sound(Evicted(buffer, n), D)
      /\ ToSet(Evicted(buffer, n).items) \subseteq ToSet(buffer.items)
      /\ n = last => Evicted(buffer, n).size = 0
    BY <1>3, EvictedKeeps
<1> QED BY <1>3, <1>4, <1>5, MaxBytesAssumption

\* add keeps the size right and within the limit; a reply within the limit is
\* then held, and nothing else is new.
THEOREM AddKeeps ==
    ASSUME NEW D, Sized(D), NEW buffer, Sound(buffer, D), NEW item \in D
    PROVE  /\ Sound(Add(buffer, item), D)
           /\ ToSet(Add(buffer, item).items) \subseteq ToSet(buffer.items) \cup {item}
           /\ item.bytes <= MaxBytes => item \in ToSet(Add(buffer, item).items)
<1>1. item.bytes \in Nat
    BY DEF Sized
<1>2. CASE item.bytes > MaxBytes
    BY <1>1, <1>2, MaxBytesAssumption DEF Add
<1>3. CASE ~(item.bytes > MaxBytes)
  <2> DEFINE others == Delete(buffer, item.id)
             room == MadeRoom(others, item.bytes)
             items == Append(room.items, item)
  <2>1. /\ Sound(others, D)
        /\ ToSet(others.items) = {d \in ToSet(buffer.items) : d.id # item.id}
      BY DeleteKeeps
  <2>2. Add(buffer, item) = [items |-> items, size |-> room.size + item.bytes]
      BY <1>3 DEF Add
  <2> HIDE DEF others
  <2>3. /\ Sound(room, D) /\ ToSet(room.items) \subseteq ToSet(others.items)
        /\ room.size + item.bytes <= MaxBytes
    <3>1. item.bytes \in 0 .. MaxBytes
        BY <1>1, <1>3, MaxBytesAssumption
    <3> QED BY <2>1, <3>1, MadeRoomKeeps
  <2> HIDE DEF room
  <2>4. room.items \in Seq(D) /\ room.size \in Nat /\ room.size = Total(room.items)
      BY <2>3 DEF Sound
  <2>5. /\ items \in Seq(D) /\ Len(items) = Len(room.items) + 1
        /\ \A i \in 1 .. Len(room.items) : items[i] = room.items[i]
        /\ items[Len(room.items) + 1] = item
      BY <2>4, AppendProperties
  <2>6. Total(items) = Total(room.items) + item.bytes
    <3>1. items = room.items \o <<item>> /\ <<item>> \in Seq(D)
        BY <2>4, AppendIsConcat
    <3>2. Total(<<item>>) = item.bytes
        BY <1>1, TotalOne
    <3> HIDE DEF items
    <3> QED BY <2>4, <3>1, <3>2, TotalConcat, ZenonT(30) DEF Sized
  <2> HIDE DEF items
  <2>7. ToSet(items) = ToSet(room.items) \cup {item}
      BY <2>4, <2>5 DEF ToSet
  <2>8. IdsOnce(items)
    <3>1. \A i \in 1 .. Len(room.items) : room.items[i].id # item.id
      <4>1. \A i \in 1 .. Len(room.items) : room.items[i] \in ToSet(room.items)
          BY <2>4 DEF ToSet
      <4> QED BY <2>1, <2>3, <4>1
    <3>2. IdsOnce(room.items)
        BY <2>3 DEF Sound
    <3> QED BY <2>4, <2>5, <3>1, <3>2, SMTT(30) DEF IdsOnce
  <2>9. room.size + item.bytes \in 0 .. MaxBytes
      BY <1>1, <2>3, <2>4, MaxBytesAssumption
  <2> QED BY <2>1, <2>2, <2>3, <2>4, <2>5, <2>6, <2>7, <2>8, <2>9 DEF Sound
<1> QED BY <1>2, <1>3
=============================================================================
