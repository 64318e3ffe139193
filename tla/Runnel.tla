------------------------------- MODULE Runnel -------------------------------
(***************************************************************************)
(* RNL2, the one-way byte stream over a shared mapping (librunnel): a ring *)
(* between one producer and one consumer, each in its own process, with    *)
(* cursors that wrap, and a DATA hint on either side of the tunnel that    *)
(* Tunnel models.                                                          *)
(*                                                                         *)
(* mem is the control block and the ring, p and c are what each side keeps *)
(* to itself, sig the signals of the two endpoints (and whether the sides  *)
(* may close before the end).  Every access to mem that another side can   *)
(* tell apart is an action.                                                *)
(***************************************************************************)
EXTENDS Naturals, Sequences, FiniteSets

CONSTANTS
    Bytes,          \* the bytes to be sent, a sequence
    Capacity,       \* of the ring
    Width           \* the cursors count modulo this; 2^64 in the code

VARIABLES mem, p, c, sig, in, out

vars == <<mem, p, c, sig, in, out>>

\* What the code's constants satisfy: cursors tell a full ring from an empty one.
Sized == Capacity \in Nat \ {0} /\ Width \in Nat /\ Capacity < Width /\ Bytes \in Seq(Nat)

Sub(a, b) == (a + Width - b) % Width
Add(a, n) == (a + n) % Width

\* The producer has created the channel; the consumer has the invitation.
Init ==
    /\ mem = [head |-> 0, tail |-> 0, eof |-> FALSE, ring |-> [i \in 0 .. Capacity - 1 |-> 0]]
    /\ p = [pc |-> "write", head |-> 0, shadow |-> 0, cursor |-> 0, eof |-> FALSE, n |-> 0, acked |-> FALSE,
            terminal |-> "none"]
    /\ c = [pc |-> "attach", tail |-> 0, shadow |-> 0, cursor |-> 0, eofHead |-> FALSE, final |-> 0, seen |-> FALSE,
            n |-> 0, acked |-> FALSE, terminal |-> "none"]
    /\ \E hasty \in BOOLEAN : sig = [dataP |-> FALSE, dataC |-> FALSE, closedP |-> FALSE, closedC |-> FALSE, hasty |-> hasty]
    /\ in = <<>> /\ out = <<>>

Fail(side, error) == [side EXCEPT !.terminal = IF @ = "none" THEN error ELSE @, !.pc = "close"]

Room(h, t) == Capacity - Sub(h, t)

-----------------------------------------------------------------------------
(* The producer: write_all, finish and the wait for the consumer.          *)

Least(a, b) == IF a < b THEN a ELSE b

\* writable: the room, from the cursor the consumer has published.
writable(tail) == Room(p.head, tail)

BrokenTail(tail) == Sub(tail, p.shadow) > Sub(p.head, p.shadow) \/ Sub(p.head, tail) > Capacity
BrokenHead == mem.head # p.head \/ mem.eof # p.eof

\* write looks at the room, and copies into it.
write ==
    /\ p.pc = "write" /\ Len(in) < Len(Bytes)
    /\ IF BrokenHead \/ BrokenTail(mem.tail) THEN p' = Fail(p, "Broken") /\ UNCHANGED mem
       ELSE LET room == writable(mem.tail) IN
            IF room = 0
            THEN /\ p' = [p EXCEPT !.shadow = mem.tail, !.pc = IF p.acked THEN "wait" ELSE "ack"]
                 /\ UNCHANGED mem
            ELSE \E n \in 1 .. Least(room, Len(Bytes) - Len(in)) :
                 /\ p' = [p EXCEPT !.shadow = mem.tail, !.n = n, !.pc = "publish", !.acked = FALSE]
                 /\ mem' = [mem EXCEPT !.ring = [i \in 0 .. Capacity - 1 |->
                        LET k == (i + Capacity - p.cursor) % Capacity IN
                        IF k < n THEN Bytes[Len(in) + k + 1] ELSE @[i]]]
    /\ UNCHANGED <<c, sig, in, out>>

\* The store of the head makes the bytes visible.
publish ==
    /\ p.pc = "publish"
    /\ p' = [p EXCEPT !.cursor = (@ + p.n) % Capacity, !.head = Add(@, p.n), !.pc = "notify"]
    /\ mem' = [mem EXCEPT !.head = Add(p.head, p.n)]
    /\ in' = in \o SubSeq(Bytes, Len(in) + 1, Len(in) + p.n)
    /\ UNCHANGED <<c, sig, out>>

\* finish: the end is published behind the last byte.
finish ==
    /\ p.pc = "write" /\ Len(in) = Len(Bytes) /\ ~p.eof
    /\ IF BrokenHead \/ BrokenTail(mem.tail) THEN p' = Fail(p, "Broken") /\ UNCHANGED mem
       ELSE /\ p' = [p EXCEPT !.eof = TRUE, !.shadow = mem.tail, !.pc = "notify", !.acked = FALSE]
            /\ mem' = [mem EXCEPT !.eof = TRUE]
    /\ UNCHANGED <<c, sig, in, out>>

\* notify: a peer that has not attached needs no hint, a closed one ends the stream.
notify ==
    /\ p.pc = "notify"
    /\ IF sig.closedC THEN p' = Fail(p, "Closed") /\ UNCHANGED sig
       ELSE p' = [p EXCEPT !.pc = "write"] /\ sig' = IF c.pc = "attach" THEN sig ELSE [sig EXCEPT !.dataC = TRUE]
    /\ UNCHANGED <<mem, c, in, out>>

\* Nothing to do: the hint is taken back, and the ring looked at once more.
acknowledge ==
    /\ p.pc = "ack"
    /\ sig' = [sig EXCEPT !.dataP = FALSE]
    /\ p' = [p EXCEPT !.acked = TRUE, !.pc = "write"]
    /\ UNCHANGED <<mem, c, in, out>>

\* poll after the end: the consumer has taken everything.
drained ==
    /\ p.pc = "write" /\ p.eof
    /\ p' = IF BrokenHead \/ BrokenTail(mem.tail) THEN Fail(p, "Broken")
            ELSE [p EXCEPT !.shadow = mem.tail,
                           !.pc = IF writable(mem.tail) = Capacity THEN "close" ELSE IF p.acked THEN "wait" ELSE "ack"]
    /\ UNCHANGED <<mem, c, sig, in, out>>

wait ==
    /\ p.pc = "wait" /\ (sig.dataP \/ sig.closedC)
    /\ p' = IF sig.closedC THEN Fail(p, "Closed") ELSE [p EXCEPT !.acked = FALSE, !.pc = "write"]
    /\ UNCHANGED <<mem, c, sig, in, out>>

\* The end of the stream, or of patience.
close ==
    /\ p.pc = "close" \/ (sig.hasty /\ p.pc \notin {"close", "closed"})
    /\ p' = [p EXCEPT !.pc = "closed"] /\ sig' = [sig EXCEPT !.closedP = TRUE]
    /\ UNCHANGED <<mem, c, in, out>>

-----------------------------------------------------------------------------
(* The consumer: read_exact_or_eof.                                        *)

\* Attaching adopts what the producer has published so far.
attach ==
    /\ c.pc = "attach"
    /\ c' = [c EXCEPT !.pc = "eof", !.shadow = mem.head, !.eofHead = mem.eof, !.final = mem.head]
    /\ UNCHANGED <<mem, p, sig, in, out>>

\* refresh looks at the end first ...
load_eof ==
    /\ c.pc = "eof"
    /\ c' = IF c.eofHead /\ ~mem.eof THEN Fail(c, "Broken") ELSE [c EXCEPT !.seen = mem.eof, !.pc = "read"]
    /\ UNCHANGED <<mem, p, sig, in, out>>

\* ... and at the head behind it; then the bytes are copied out, in one or more pieces.
read ==
    /\ c.pc = "read"
    /\ LET head == mem.head
           broken == \/ mem.tail # c.tail
                     \/ Sub(head, c.shadow) > Room(c.shadow, c.tail) \/ Sub(head, c.tail) > Capacity
                     \/ c.eofHead /\ head # c.final
           d == [c EXCEPT !.shadow = head, !.eofHead = @ \/ c.seen, !.final = IF c.seen THEN head ELSE @]
       IN  IF broken THEN c' = Fail(c, "Broken") /\ UNCHANGED out
           ELSE IF Sub(head, c.tail) # 0
           THEN \E n \in 1 .. Sub(head, c.tail) :
                   /\ c' = [d EXCEPT !.n = n, !.pc = "release", !.acked = FALSE]
                   /\ out' = out \o [k \in 1 .. n |-> mem.ring[(c.cursor + k - 1) % Capacity]]
           ELSE /\ c' = [d EXCEPT !.pc = IF d.eofHead /\ d.final = c.tail THEN "end" ELSE IF c.acked THEN "wait" ELSE "ack"]
                /\ UNCHANGED out
    /\ UNCHANGED <<mem, p, sig, in>>

\* Mutant: everything that was seen is given back, not what was read.
release_Seen ==
    /\ c.pc = "release"
    /\ c' = [c EXCEPT !.cursor = (@ + Sub(c.shadow, c.tail)) % Capacity, !.tail = c.shadow, !.pc = "notify"]
    /\ mem' = [mem EXCEPT !.tail = c.shadow]
    /\ UNCHANGED <<p, sig, in, out>>

\* The store of the tail gives the room back.
release ==
    /\ c.pc = "release"
    /\ c' = [c EXCEPT !.cursor = (@ + c.n) % Capacity, !.tail = Add(@, c.n), !.pc = "notify"]
    /\ mem' = [mem EXCEPT !.tail = Add(c.tail, c.n)]
    /\ UNCHANGED <<p, sig, in, out>>

notify_c ==
    /\ c.pc = "notify"
    /\ IF sig.closedP THEN c' = Fail(c, "Closed") /\ UNCHANGED sig
       ELSE c' = [c EXCEPT !.pc = "eof"] /\ sig' = [sig EXCEPT !.dataP = TRUE]
    /\ UNCHANGED <<mem, p, in, out>>

acknowledge_c ==
    /\ c.pc = "ack"
    /\ sig' = [sig EXCEPT !.dataC = FALSE]
    /\ c' = [c EXCEPT !.acked = TRUE, !.pc = "eof"]
    /\ UNCHANGED <<mem, p, in, out>>

wait_c ==
    /\ c.pc = "wait" /\ (sig.dataC \/ sig.closedP)
    /\ c' = IF sig.closedP THEN Fail(c, "Closed") ELSE [c EXCEPT !.acked = FALSE, !.pc = "eof"]
    /\ UNCHANGED <<mem, p, sig, in, out>>

close_c ==
    /\ c.pc \in {"end", "close"} \/ (sig.hasty /\ c.pc \notin {"end", "close", "closed", "attach"})
    /\ c' = [c EXCEPT !.pc = "closed"] /\ sig' = [sig EXCEPT !.closedC = TRUE]
    /\ UNCHANGED <<mem, p, in, out>>

Producer == write \/ publish \/ finish \/ notify \/ acknowledge \/ drained \/ wait \/ close
Consumer == attach \/ load_eof \/ read \/ release \/ notify_c \/ acknowledge_c \/ wait_c \/ close_c

Next == Producer \/ Consumer

\* Both processes are scheduled.
Spec == Init /\ [][Next]_vars /\ WF_vars(Producer) /\ WF_vars(Consumer)

-----------------------------------------------------------------------------

\* The ring is a bounded byte stream: the bytes that were published, the bytes that were taken out,
\* and the end that the consumer concludes from the two cursors.
Stream == INSTANCE ByteStream WITH
    finished <- mem.eof,
    ended <- c.pc = "end" \/ (c.pc = "closed" /\ c.eofHead /\ c.final = c.tail /\ out = in)

ImplementsByteStream == Stream!Spec

\* Between sides that keep the protocol no cursor is ever taken for a broken one, across the wrap too.
NeverBroken == p.terminal # "Broken" /\ c.terminal # "Broken"

\* Both sides come to the end, with all bytes unless one of them gave up: no hint is lost between the
\* last look at the ring and the wait, and a closed side wakes the other.
Settled == p.pc = "closed" /\ c.pc = "closed" /\ (sig.hasty \/ out = Bytes)
StreamSettles == <>Settled

=============================================================================
