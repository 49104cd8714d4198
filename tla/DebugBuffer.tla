---------------------------- MODULE DebugBuffer ----------------------------
(***************************************************************************)
(* The ring of the last messages that the NATS client keeps for            *)
(* /debug/nats.  append and read run under a mutex, so that what the ring  *)
(* promises is a relation between two operators: it is a log of everything *)
(* appended, cut off and read from the newest.                             *)
(***************************************************************************)
EXTENDS Naturals, Sequences

\* debugBuffer, with room for n messages of M.
Buffer(n, M) == [cap : {n}, buf : [0..(n - 1) -> M], next : 0..(n - 1), full : BOOLEAN]

\* newDebugBuffer; make fills the ring with zero entries.
NewBuffer(n, zero) ==
    [cap |-> n, buf |-> [k \in 0..(n - 1) |-> zero], next |-> 0, full |-> FALSE]

\* append: the entry goes to the next place, and the ring is full from the moment
\* that the next place is the first one again.
Appended(b, e) ==
    LET place == (b.next + 1) % b.cap
    IN  [b EXCEPT !.buf = [@ EXCEPT ![b.next] = e],
                  !.next = place,
                  !.full = @ \/ place = 0]

\* read copies the entries from the oldest, and turns the copy round.
Start(b) == IF b.full THEN b.next ELSE 0
Count(b) == IF b.full THEN b.cap ELSE b.next
Copied(b) == [k \in 1..Count(b) |-> b.buf[(Start(b) + k - 1) % b.cap]]
Turned(s) == [k \in 1..Len(s) |-> s[Len(s) + 1 - k]]
Entries(b) == Turned(Copied(b))

-----------------------------------------------------------------------------

\* What the ring stands for: at most n entries of a log, newest first.
Shown(s, n) == IF Len(s) < n THEN Len(s) ELSE n
Latest(s, n) == [k \in 1..Shown(s, n) |-> s[Len(s) + 1 - k]]

\* The place of the k-th newest entry.
Place(b, k) == IF k <= b.next THEN b.next - k ELSE b.next - k + b.cap

\* A ring that has been given the entries of a log.
Holds(b, s) ==
    /\ b.full <=> Len(s) >= b.cap
    /\ ~b.full => b.next = Len(s)
    /\ \A k \in 1..Shown(s, b.cap) : b.buf[Place(b, k)] = s[Len(s) + 1 - k]
=============================================================================
