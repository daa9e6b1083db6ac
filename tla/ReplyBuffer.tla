---------------------------- MODULE ReplyBuffer ----------------------------
(***************************************************************************)
(* SizeConstrainedBuffer (connect/_internal/buffer.py): the replies that   *)
(* the Inngest server has not acknowledged, oldest first. A buffer is a    *)
(* record of its items and of the size it keeps beside them. An item names *)
(* the request (id) and the execution that made the reply (by).            *)
(***************************************************************************)
EXTENDS Naturals, Sequences, SequencesExt

CONSTANT MaxBytes   \* max_size_bytes

ASSUME MaxBytesAssumption == MaxBytes \in Nat \ {0}

Item(id, by, bytes) == [id |-> id, by |-> by, bytes |-> bytes]

EmptyBuffer == [items |-> << >>, size |-> 0]

\* What the first n items take together, for every n.
Running(items) ==
    LET sum[n \in 0 .. Len(items)] ==
            IF n = 0 THEN 0 ELSE sum[n - 1] + items[n].bytes
    IN  sum

Total(items) == Running(items)[Len(items)]

Holds(buffer, id) == \E i \in DOMAIN buffer.items : buffer.items[i].id = id

Executions(buffer) == {buffer.items[i].by : i \in DOMAIN buffer.items}

-----------------------------------------------------------------------------
\* Where the items keep the id.
Position(items, id) == CHOOSE i \in DOMAIN items : items[i].id = id

\* Mutant of Delete: the size is not reduced.
DeleteKeepsSize(buffer, id) ==
    IF ~Holds(buffer, id) THEN buffer
    ELSE [buffer EXCEPT !.items = RemoveAt(@, Position(@, id))]

\* delete: nothing when the id is unknown.
Delete(buffer, id) ==
    LET i == Position(buffer.items, id)
    IN  IF ~Holds(buffer, id) THEN buffer
        ELSE [items |-> RemoveAt(buffer.items, i),
              size |-> buffer.size - buffer.items[i].bytes]

\* Without its n oldest items.
Evicted(buffer, n) ==
    [items |-> SubSeq(buffer.items, n + 1, Len(buffer.items)),
     size |-> buffer.size - Total(SubSeq(buffer.items, 1, n))]

\* The eviction loop: the fewest oldest items go.
MadeRoom(buffer, bytes) ==
    LET enough(n) == Evicted(buffer, n).size + bytes <= MaxBytes
        n == CHOOSE k \in 0 .. Len(buffer.items) :
                /\ enough(k) \/ k = Len(buffer.items)
                /\ \A j \in 0 .. k - 1 : ~enough(j)
    IN  Evicted(buffer, n)

\* add: an item beyond the limit is rejected, an item of the same id replaced.
Add(buffer, item) ==
    IF item.bytes > MaxBytes THEN buffer
    ELSE LET room == MadeRoom(Delete(buffer, item.id), item.bytes)
         IN  [items |-> Append(room.items, item),
              size |-> room.size + item.bytes]

\* get_older_than(TTL): a copy of the replies inserted long enough ago, which
\* are the n oldest, for the n of that moment.
OlderThanTtl(buffer, n) == SubSeq(buffer.items, 1, n)
=============================================================================
