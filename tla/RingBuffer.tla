----------------------------- MODULE RingBuffer -----------------------------
(***************************************************************************)
(* The arithmetic of the ring buffer (src/src/ringbuffer.rs): where a      *)
(* sequence lives, and how many slots a producer may still claim.  The     *)
(* code masks the sequence with Capacity - 1, which for the powers of two  *)
(* that RingBuffer::new accepts is the remainder modulo Capacity.          *)
(***************************************************************************)
EXTENDS Integers

CONSTANT Capacity       \* The number of slots of the ring.

ASSUME CapacityAssumption == Capacity \in Nat \ {0}

\* barrier.rs: no sequence has been claimed, published, read or requested.
NONE == -1

SlotIndices == 0 .. Capacity - 1

\* The slot that holds the event of a sequence; every slot is reused once
\* per round of Capacity sequences.
slot_index(s) == s % Capacity

\* Mutant: off by one: the ring one slot larger than it is.
wrap_point_mutant(s) == s - Capacity - 1

\* The sequence that `s` overwrites.
wrap_point(s) == s - Capacity

\* The number of sequences after `producer` that are free when the slowest
\* consumer has finished reading `highest_read_by_consumers`.
available_capacity(producer, highest_read_by_consumers) ==
  highest_read_by_consumers - wrap_point(producer)

\* The smaller of two loaded sequences (i64::min).
Least(a, b) == IF a <= b THEN a ELSE b
=============================================================================
