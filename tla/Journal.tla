------------------------------- MODULE Journal -------------------------------
(***************************************************************************)
(* The lock-free journal of plugin writes (journal_buffer.c): plugin and   *)
(* task threads claim a slot of the active bank with one fetch_add, fill   *)
(* it and publish it; whoever takes the image mutex flips the banks and    *)
(* applies the retired one.  Forces, the closing by plc_outputs_off and    *)
(* the opening by the next run happen around it.                           *)
(*                                                                         *)
(* An image slot (table, index, bit) is a cell, and a located variable     *)
(* forced by the debugger a cell in g_forced.  An entry is filled in two   *)
(* steps, its address and its value, so that a torn one can be seen.  The  *)
(* drainer is whichever thread holds the image mutex.                      *)
(***************************************************************************)
EXTENDS Naturals, Sequences, FiniteSets

CONSTANTS
  Producers,            \* threads that write through the journal
  Cells, Values,
  Off,                  \* what image_tables_zero_outputs writes
  JOURNAL_MAX_ENTRIES,  \* slots of a bank
  Stalls,               \* may a producer stall past JOURNAL_PUBLISH_SPIN_MAX?
  MaxWrites,            \* bound on writes
  MaxForces,            \* bound on forces
  MaxRuns               \* bound on journal_init calls

ASSUME CapacityAssumption == JOURNAL_MAX_ENTRIES \in Nat \ {0}
ASSUME ValueAssumption == Off \in Values /\ Cells # {} /\ Stalls \in BOOLEAN
ASSUME BoundAssumption == MaxWrites \in Nat /\ MaxForces \in Nat /\ MaxRuns \in Nat

Banks  == {0, 1}
Slots  == 0 .. JOURNAL_MAX_ENTRIES - 1
Writes == [cell : Cells, value : Values]
Blank  == [c \in Cells |-> Off]

VARIABLES
  g_initialized,
  g_control,            \* [bank, count] in one word
  entries, published,   \* per bank and slot
  image, g_forced,
  pc, write, claim,     \* per producer: where it is, what it writes, its slot
  drain,                \* where the holder of the image mutex is
  retired, count, i,    \* its locals: the bank it drains, how far
  intent,               \* history: the write a slot was claimed for
  since,                \* history: slots claimed since the mutex was taken
  writes, forces, runs  \* what the bounds count

producers == <<pc, write, claim>>
drainer   == <<drain, retired, count, i>>
banks     == <<entries, published, intent>>
counts    == <<writes, forces, runs>>
vars == <<g_initialized, g_control, banks, image, g_forced, producers, drainer,
          since, counts>>

Filling == {"address", "value", "publish"}

\* What is in the banks after journal_init.
SomeWrite == [cell |-> CHOOSE c \in Cells : TRUE, value |-> Off]
Cleared(x) == [b \in Banks |-> [s \in Slots |-> x]]

NoSlot == [bank |-> 0, slot |-> 0]

Goto(p, l) == pc' = [pc EXCEPT ![p] = l]
Done(p)    == Goto(p, "idle") /\ write' = [write EXCEPT ![p] = SomeWrite]
Smaller(a, b) == IF a < b THEN a ELSE b

Init ==
  /\ g_initialized = FALSE /\ g_control = [bank |-> 0, count |-> 0]
  /\ entries = Cleared(SomeWrite) /\ published = Cleared(FALSE)
  /\ intent = Cleared(SomeWrite)
  /\ image = Blank /\ g_forced = {}
  /\ pc = [p \in Producers |-> "idle"]
  /\ write = [p \in Producers |-> SomeWrite]
  /\ claim = [p \in Producers |-> NoSlot]
  /\ drain = "free" /\ retired = 0 /\ count = 0 /\ i = 0
  /\ since = 0 /\ writes = 0 /\ forces = 0 /\ runs = 0

Counted == IF drain = "free" THEN 0 ELSE since + 1

-----------------------------------------------------------------------------
(* journal_add *)

\* The journal is open: the write goes on.  A closed journal refuses it.
Begin(p, w) ==
  /\ pc[p] = "idle" /\ writes < MaxWrites
  /\ g_initialized
  /\ write' = [write EXCEPT ![p] = w] /\ writes' = writes + 1
  /\ Goto(p, "claim")
  /\ UNCHANGED <<g_initialized, g_control, banks, image, g_forced, claim, drainer,
                 since, forces, runs>>

\* One fetch_add claims a slot of the active bank.  Past the end the write is
\* dropped, and counted all the same.
Claim(p) ==
  /\ pc[p] = "claim"
  /\ g_control' = [g_control EXCEPT !.count = @ + 1] /\ since' = Counted
  /\ IF g_control.count >= JOURNAL_MAX_ENTRIES
     THEN Done(p) /\ UNCHANGED <<claim, intent>>
     ELSE /\ claim' = [claim EXCEPT ![p] = [bank |-> g_control.bank, slot |-> g_control.count]]
          /\ intent' = [intent EXCEPT ![g_control.bank][g_control.count] = write[p]]
          /\ Goto(p, "address") /\ UNCHANGED write
  /\ UNCHANGED <<g_initialized, entries, published, image, g_forced, drainer, counts>>

Fill(p) ==
  LET b == claim[p].bank
      s == claim[p].slot
  IN /\ \/ /\ pc[p] = "address" /\ Goto(p, "value")
           /\ entries' = [entries EXCEPT ![b][s].cell = write[p].cell]
        \/ /\ pc[p] = "value" /\ Goto(p, "publish")
           /\ entries' = [entries EXCEPT ![b][s].value = write[p].value]
     /\ UNCHANGED <<g_initialized, g_control, published, intent, image, g_forced, write,
                    claim, drainer, since, counts>>

\* The release store of the slot's flag.  The locals are dead after it.
Publish(p) ==
  /\ pc[p] = "publish"
  /\ published' = [published EXCEPT ![claim[p].bank][claim[p].slot] = TRUE]
  /\ Done(p) /\ claim' = [claim EXCEPT ![p] = NoSlot]
  /\ UNCHANGED <<g_initialized, g_control, entries, intent, image, g_forced, drainer,
                 since, counts>>

-----------------------------------------------------------------------------
(* image_lock: the mutex, then journal_apply_and_clear *)

\* Seeded fault: the fast path takes a single write for none.
LockLate ==
  /\ drain = "free"
  /\ drain' = IF g_initialized /\ g_control.count > 1 THEN "flip" ELSE "held"
  /\ since' = 0
  /\ UNCHANGED <<g_initialized, g_control, banks, image, g_forced, producers, retired,
                 count, i, counts>>

\* Nothing to do when the journal is closed or empty.
Lock ==
  /\ drain = "free"
  /\ drain' = IF g_initialized /\ g_control.count # 0 THEN "flip" ELSE "held"
  /\ since' = 0
  /\ UNCHANGED <<g_initialized, g_control, banks, image, g_forced, producers, retired,
                 count, i, counts>>

\* Seeded fault: the count is read before the flip, not from the exchange; what is
\* claimed in between is left behind in the retired bank.
FlipEarlyCount ==
  /\ drain = "flip"
  /\ retired' = g_control.bank
  /\ count' = Smaller(g_control.count - Smaller(since, g_control.count - 1), JOURNAL_MAX_ENTRIES)
  /\ g_control' = [bank |-> 1 - g_control.bank, count |-> 0]
  /\ i' = 0 /\ drain' = "slot"
  /\ UNCHANGED <<g_initialized, banks, image, g_forced, producers, since, counts>>

\* Seeded fault: the banks are not exchanged, only the count is reset.
FlipInPlace ==
  /\ drain = "flip"
  /\ retired' = g_control.bank
  /\ count' = Smaller(g_control.count, JOURNAL_MAX_ENTRIES)
  /\ g_control' = [g_control EXCEPT !.count = 0]
  /\ i' = 0 /\ drain' = "slot"
  /\ UNCHANGED <<g_initialized, banks, image, g_forced, producers, since, counts>>

\* Seeded fault: the count is not capped.
FlipUncapped ==
  /\ drain = "flip"
  /\ retired' = g_control.bank /\ count' = g_control.count
  /\ g_control' = [bank |-> 1 - g_control.bank, count |-> 0]
  /\ i' = 0 /\ drain' = "slot"
  /\ UNCHANGED <<g_initialized, banks, image, g_forced, producers, since, counts>>

\* One exchange makes the other bank the active one and takes the count.
Flip ==
  /\ drain = "flip"
  /\ retired' = g_control.bank
  /\ count' = Smaller(g_control.count, JOURNAL_MAX_ENTRIES)
  /\ g_control' = [bank |-> 1 - g_control.bank, count |-> 0]
  /\ i' = 0 /\ drain' = "slot"
  /\ UNCHANGED <<g_initialized, banks, image, g_forced, producers, since, counts>>

\* apply_entry: a write to a forced slot is dropped.
Applied(e) == IF e.cell \in g_forced THEN image ELSE [image EXCEPT ![e.cell] = e.value]

\* A published slot is applied.  One whose producer stalled for the whole spin is
\* skipped.
ApplySlot ==
  /\ drain = "slot"
  /\ \/ published[retired][i] /\ image' = Applied(entries[retired][i])
     \/ ~published[retired][i] /\ Stalls /\ UNCHANGED image
  /\ drain' = "clear"
  /\ UNCHANGED <<g_initialized, g_control, banks, g_forced, producers, retired, count, i,
                 since, counts>>

\* The next slot, or the end of the drain and of its locals.
NextSlot ==
  IF i + 1 < count
  THEN i' = i + 1 /\ drain' = "slot" /\ UNCHANGED <<retired, count>>
  ELSE i' = 0 /\ drain' = "held" /\ retired' = 0 /\ count' = 0

\* Seeded fault: the flag of a drained slot stays up.
ClearSlotKeepsFlag ==
  /\ drain = "clear" /\ NextSlot
  /\ intent' = [intent EXCEPT ![retired][i] = SomeWrite]
  /\ UNCHANGED <<g_initialized, g_control, entries, published, image, g_forced, producers,
                 since, counts>>

\* The flag is cleared for the bank's next turn.
ClearSlot ==
  /\ drain = "clear" /\ NextSlot
  /\ published' = [published EXCEPT ![retired][i] = FALSE]
  /\ intent' = [intent EXCEPT ![retired][i] = SomeWrite]
  /\ UNCHANGED <<g_initialized, g_control, entries, image, g_forced, producers, since, counts>>

Unlock ==
  /\ drain = "held" /\ drain' = "free"
  /\ UNCHANGED <<g_initialized, g_control, banks, image, g_forced, producers, retired,
                 count, i, since, counts>>

-----------------------------------------------------------------------------
(* Under the image mutex *)

\* journal_force_set and journal_force_clear, from the dispatcher's drain of external
\* writes.  The force seeds the slot.
ForceSet(c, v) ==
  /\ drain = "held" /\ g_initialized /\ forces < MaxForces
  /\ g_forced' = g_forced \cup {c} /\ image' = [image EXCEPT ![c] = v]
  /\ forces' = forces + 1
  /\ UNCHANGED <<g_initialized, g_control, banks, producers, drainer, since, writes, runs>>

ForceClear(c) ==
  /\ drain = "held" /\ c \in g_forced
  /\ g_forced' = g_forced \ {c}
  /\ UNCHANGED <<g_initialized, g_control, banks, image, producers, drainer, since, counts>>

\* plc_outputs_off: journal_cleanup clears the flag first ...
Shut ==
  /\ drain = "held" /\ g_initialized
  /\ g_initialized' = FALSE /\ drain' = "closing"
  /\ UNCHANGED <<g_control, banks, image, g_forced, producers, retired, count, i, since,
                 counts>>

\* ... then the control word and the forces; the outputs are zeroed.
Cleanup ==
  /\ drain = "closing" /\ drain' = "held"
  /\ g_control' = [bank |-> 0, count |-> 0] /\ since' = 0
  /\ g_forced' = {} /\ image' = Blank
  /\ UNCHANGED <<g_initialized, banks, producers, retired, count, i, counts>>

\* journal_init by the next cycle thread, over a new image.  The threads of the last
\* run have been joined, so no write is under way unless a stall outlived the run.
Reopen ==
  /\ ~g_initialized /\ drain = "free" /\ runs < MaxRuns
  /\ Stalls \/ \A p \in Producers : pc[p] = "idle"
  /\ g_initialized' = TRUE /\ g_control' = [bank |-> 0, count |-> 0]
  /\ entries' = Cleared(SomeWrite) /\ published' = Cleared(FALSE)
  /\ intent' = Cleared(SomeWrite)
  /\ image' = Blank /\ g_forced' = {} /\ runs' = runs + 1
  /\ UNCHANGED <<producers, drainer, since, writes, forces>>

-----------------------------------------------------------------------------
Produce(p) == Claim(p) \/ Fill(p) \/ Publish(p) \/ \E w \in Writes : Begin(p, w)

Drain == Lock \/ Flip \/ ApplySlot \/ ClearSlot \/ Unlock

UnderLock ==
  \/ \E c \in Cells : ForceClear(c) \/ \E v \in Values : ForceSet(c, v)
  \/ Shut \/ Cleanup

Next == (\E p \in Producers : Produce(p)) \/ Drain \/ UnderLock \/ Reopen

Spec == Init /\ [][Next]_vars

-----------------------------------------------------------------------------
(* Properties *)

\* The control word and the banks, the image, the producers, the drainer.
BankType ==
  /\ g_initialized \in BOOLEAN
  /\ g_control \in [bank : Banks, count : Nat]
  /\ entries \in [Banks -> [Slots -> Writes]] /\ intent \in [Banks -> [Slots -> Writes]]
  /\ published \in [Banks -> [Slots -> BOOLEAN]]

ImageType == image \in [Cells -> Values] /\ g_forced \in SUBSET Cells

ProducerType ==
  /\ pc \in [Producers -> {"idle", "claim"} \cup Filling]
  /\ write \in [Producers -> Writes] /\ claim \in [Producers -> [bank : Banks, slot : Slots]]

DrainType ==
  /\ drain \in {"free", "flip", "slot", "clear", "held", "closing"}
  /\ retired \in Banks /\ count \in 0 .. JOURNAL_MAX_ENTRIES /\ i \in 0 .. JOURNAL_MAX_ENTRIES
  /\ drain \in {"slot", "clear"} => i < count
  /\ drain = "flip" => g_control.count # 0

CountType == since \in Nat /\ writes \in Nat /\ forces \in Nat /\ runs \in Nat

\* Every variable has the type its declaration in the code gives it.
TypeOK == BankType /\ ImageType /\ ProducerType /\ DrainType /\ CountType

\* The slots that were claimed and not yet cleared: the rest of the retired bank and
\* the active one.
Retiring == {s \in Slots : drain \in {"slot", "clear"} /\ i <= s /\ s < count}
Active   == {s \in Slots : s < g_control.count}
Claimed(b, s) ==
  \/ b = g_control.bank /\ s \in Active
  \/ b = retired /\ b # g_control.bank /\ s \in Retiring

\* A producer fills a slot nobody else fills and the drainer is not about to read.
SlotsExclusive ==
  g_initialized =>
    /\ \A p, q \in Producers :
         pc[p] \in Filling /\ pc[q] \in Filling /\ claim[p] = claim[q] => p = q
    /\ \A p \in Producers :
         pc[p] \in Filling =>
           /\ Claimed(claim[p].bank, claim[p].slot)
           /\ ~published[claim[p].bank][claim[p].slot]

\* "so the full entry is visible before the flag is observed set": what the drainer
\* finds published is the entry its slot was claimed for, whole and of this turn.
WholeEntry ==
  drain = "slot" /\ published[retired][i] => entries[retired][i] = intent[retired][i]

\* Flush on lock: once image_lock has returned, no write that was in the journal when
\* the mutex was taken still waits there; what waits was claimed since.
FlushOnLock == drain = "held" /\ g_initialized => g_control.count <= since

\* The writes that wait, oldest first: what is left of the retired bank, then the
\* active one.
Left ==
  CASE drain = "slot"  -> count - i
    [] drain = "clear" -> count - i - 1
    [] OTHER -> 0
Waiting == Smaller(g_control.count, JOURNAL_MAX_ENTRIES)
Pending ==
  [k \in 1 .. Left + Waiting |->
     IF k <= Left THEN intent[retired][count - Left + k - 1]
                  ELSE intent[g_control.bank][k - Left - 1]]

StillOpen == g_initialized \/ drain = "closing"

IW == INSTANCE ImageWrites WITH
        open <- StillOpen, queue <- IF StillOpen THEN Pending ELSE <<>>,
        forced <- g_forced, Room <- 2 * JOURNAL_MAX_ENTRIES

\* The journal keeps the promise of ImageWrites: every write accepted is applied once,
\* whole, in the order of the claims, unless its slot is forced, and after the journal
\* is closed nothing drives the outputs again.
Ordered == IW!Spec

=============================================================================
