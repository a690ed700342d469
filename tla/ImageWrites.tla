----------------------------- MODULE ImageWrites -----------------------------
(***************************************************************************)
(* What the journal promises a plugin author (journal_buffer.h): writes to *)
(* the image are queued in the order they are made, applied whole and in   *)
(* that order, none twice and none left out, except that a forced slot     *)
(* keeps its value; a closed journal applies nothing.                      *)
(***************************************************************************)
EXTENDS Naturals, Sequences

CONSTANTS
  Cells,     \* the slots of the image tables
  Values,
  Off,       \* one of them: a slot after image_tables_zero_outputs
  Room       \* how many writes may wait, a number

VARIABLES open, queue, image, forced
vars == <<open, queue, image, forced>>

Writes == [cell : Cells, value : Values]
Blank  == [c \in Cells |-> Off]

\* A write to a forced slot is dropped when its turn comes.
After(img, held, w) == IF w.cell \in held THEN img ELSE [img EXCEPT ![w.cell] = w.value]

Init == open = FALSE /\ queue = <<>> /\ image = Blank /\ forced = {}

\* A new run of the program: a fresh image, nothing forced.
Open ==
  /\ ~open
  /\ open' = TRUE /\ queue' = <<>> /\ image' = Blank /\ forced' = {}

Write(w) ==
  /\ open /\ Len(queue) < Room
  /\ queue' = Append(queue, w)
  /\ UNCHANGED <<open, image, forced>>

Apply ==
  /\ open /\ queue # <<>>
  /\ image' = After(image, forced, Head(queue)) /\ queue' = Tail(queue)
  /\ UNCHANGED <<open, forced>>

Force(c, v) ==
  /\ open
  /\ forced' = forced \cup {c} /\ image' = [image EXCEPT ![c] = v]
  /\ UNCHANGED <<open, queue>>

Unforce(c) ==
  /\ open
  /\ forced' = forced \ {c}
  /\ UNCHANGED <<open, queue, image>>

Close ==
  /\ open
  /\ open' = FALSE /\ queue' = <<>> /\ image' = Blank /\ forced' = {}

Next ==
  \/ Open \/ Apply \/ Close
  \/ \E w \in Writes : Write(w)
  \/ \E c \in Cells : Unforce(c) \/ \E v \in Values : Force(c, v)

Spec == Init /\ [][Next]_vars

=============================================================================
