----------------------------- MODULE LocalSocket -----------------------------
(***************************************************************************)
(* A connected pair of AF_UNIX stream sockets (the kernel's part, as the   *)
(* code uses it) and the FileDescriptor and Socket methods called on it.   *)
(* queue[x] holds the bytes for x to read; shut[x] is what is shut down at *)
(* x, from whichever end.                                                  *)
(***************************************************************************)
EXTENDS Naturals, Sequences

Sides == {"owner", "thread"}
other(x) == IF x = "owner" THEN "thread" ELSE "owner"

new_pair(size) ==
    [queue |-> [x \in Sides |-> <<>>], shut |-> [x \in Sides |-> {}], size |-> size]

SHUT_WR == {"WR"}
SHUT_RDWR == {"RD", "WR"}

\* What one end does not send any more the other does not receive, and the other
\* way round.
shutdown(p, x, how) ==
    [p EXCEPT !.shut[x] = @ \cup how,
              !.shut[other(x)] = @ \cup (IF "WR" \in how THEN {"RD"} ELSE {})
                                   \cup (IF "RD" \in how THEN {"WR"} ELSE {})]

\* What poll reports.
revents(p, x) ==
    {e \in {"IN", "OUT", "HUP"} :
        \/ e = "IN" /\ (p.queue[x] # <<>> \/ "RD" \in p.shut[x])
        \/ e = "OUT" /\ Len(p.queue[other(x)]) < p.size
        \/ e = "HUP" /\ p.shut[x] = {"RD", "WR"}}

least(a, b) == IF a < b THEN a ELSE b

\* FileDescriptor::read: the bytes, what is left, and whether it is the end.
\* A non-blocking read of nothing fails.
read_bytes(p, x, limit) == SubSeq(p.queue[x], 1, least(limit, Len(p.queue[x])))
after_read(p, x, limit) ==
    [p EXCEPT !.queue[x] = SubSeq(@, least(limit, Len(@)) + 1, Len(@))]
read_fails(p, x) == p.queue[x] = <<>> /\ "RD" \notin p.shut[x]

\* FileDescriptor::write, which takes what there is room for.  A write to an end
\* that is shut down breaks the pipe: it ends the process.  Writing nothing never
\* fails.
write_count(p, x, data) == least(Len(data), p.size - Len(p.queue[other(x)]))
after_write(p, x, data) ==
    [p EXCEPT !.queue[other(x)] = @ \o SubSeq(data, 1, write_count(p, x, data))]
write_breaks(p, x, data) == data # <<>> /\ "WR" \in p.shut[x]
write_fails(p, x, data) == data # <<>> /\ write_count(p, x, data) = 0
=============================================================================
