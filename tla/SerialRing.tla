----------------------------- MODULE SerialRing -----------------------------
(***************************************************************************)
(* The ring of characters of serial.c.  One place stays empty, so that the *)
(* indices differ whenever there is a character.  Every operation is one   *)
(* section with the interrupts off.                                        *)
(***************************************************************************)
EXTENDS Integers, Sequences

CONSTANTS RingSize,   \* SERIAL_RBUFFER_SIZE, a power of two
          NoChar      \* what a place holds before the first character

ASSUME RingAssumption == RingSize \in Nat \ {0, 1} /\ NoChar \notin Nat

\* serial_ringbuffer_init
serial_ringbuffer_init ==
    [buffer |-> [i \in 0..(RingSize - 1) |-> NoChar], put_index |-> 0, get_index |-> 0]

\* (i + 1) & (SERIAL_RBUFFER_SIZE - 1)
After(i) == (i + 1) % RingSize

IsEmpty(r) == r.get_index = r.put_index

IsFull(r) == After(r.put_index) = r.get_index

\* serial_ringbuffer_putchar of a ring that is not full.
serial_ringbuffer_putchar(r, ch) ==
    [r EXCEPT !.buffer[r.put_index] = ch, !.put_index = After(r.put_index)]

\* Mutant of serial_ringbuffer_putc: a full ring discards the new character.
serial_ringbuffer_putc_Refuses(r, ch) == IF IsFull(r) THEN r ELSE serial_ringbuffer_putchar(r, ch)

\* serial_ringbuffer_putc: the oldest character makes room.
serial_ringbuffer_putc(r, ch) ==
    [r EXCEPT !.buffer[r.put_index] = ch, !.put_index = After(r.put_index),
              !.get_index = IF IsFull(r) THEN After(r.get_index) ELSE r.get_index]

\* What serial_ringbuffer_getc returns, and the ring after it.
First(r) == r.buffer[r.get_index]

Rest(r) == [r EXCEPT !.get_index = After(r.get_index)]

\* serial_ringbuffer_size
serial_ringbuffer_size(r) == (r.put_index - r.get_index) % RingSize

\* The characters in the ring, oldest first.
Contents(r) ==
    [k \in 1..serial_ringbuffer_size(r) |-> r.buffer[(r.get_index + k - 1) % RingSize]]
=============================================================================
