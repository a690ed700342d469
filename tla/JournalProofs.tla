---------------------------- MODULE JournalProofs ----------------------------
(***************************************************************************)
(* Proofs about Journal, for any number of producers, cells and slots: the *)
(* types, the flush on lock and, as long as no producer outlasts the spin  *)
(* of the drainer, the exclusive use of slots and the whole entries.       *)
(***************************************************************************)
EXTENDS Journal, SequenceTheorems, TLAPS

USE DEF vars, producers, drainer, banks, counts, Goto, Banks, Slots, Filling

-----------------------------------------------------------------------------
(* Types *)

\* The write that stands for the content of an unused slot is a write.
LEMMA SomeWriteType == SomeWrite \in Writes
<1>1. (CHOOSE c \in Cells : TRUE) \in Cells
  BY ValueAssumption
<1> QED
  BY <1>1, ValueAssumption DEF SomeWrite, Writes

\* Writing one slot of one bank keeps the type of the banks.
LEMMA SlotSet ==
  ASSUME NEW T, NEW f \in [Banks -> [Slots -> T]], NEW b \in Banks, NEW s \in Slots, NEW x \in T
  PROVE  [f EXCEPT ![b][s] = x] \in [Banks -> [Slots -> T]]
<1>1. [f[b] EXCEPT ![s] = x] \in [Slots -> T]
  OBVIOUS
<1> QED
  BY <1>1

\* It changes that slot and no other.
LEMMA SlotRead ==
  ASSUME NEW T, NEW f \in [Banks -> [Slots -> T]], NEW b \in Banks, NEW s \in Slots, NEW x,
         NEW c \in Banks, NEW r \in Slots
  PROVE  [f EXCEPT ![b][s] = x][c][r] = IF c = b /\ r = s THEN x ELSE f[c][r]
OBVIOUS

\* The same for the flags, as the propositions they are.
LEMMA FlagRead ==
  ASSUME NEW f \in [Banks -> [Slots -> BOOLEAN]], NEW b \in Banks, NEW s \in Slots,
         NEW x \in BOOLEAN, NEW c \in Banks, NEW r \in Slots
  PROVE  [f EXCEPT ![b][s] = x][c][r] <=> IF c = b /\ r = s THEN x ELSE f[c][r]
<1>1. CASE c = b /\ r = s
  BY <1>1
<1>2. CASE c = b /\ r # s
  BY <1>2
<1>3. CASE c # b
  BY <1>3
<1> QED
  BY <1>1, <1>2, <1>3

\* Writing half of an entry leaves a write.
LEMMA HalfEntry ==
  ASSUME NEW e \in Writes, NEW w \in Writes
  PROVE  /\ [e EXCEPT !.cell = w.cell] \in Writes
         /\ [e EXCEPT !.value = w.value] \in Writes
<1>1. PICK c \in Cells, v \in Values : e = [cell |-> c, value |-> v]
  BY DEF Writes
<1>2. /\ [e EXCEPT !.cell = w.cell] = [cell |-> w.cell, value |-> v]
      /\ [e EXCEPT !.value = w.value] = [cell |-> c, value |-> w.value]
  BY <1>1
<1> QED
  BY <1>2 DEF Writes

\* The image after an entry has been applied is an image.
LEMMA AppliedType ==
  ASSUME NEW e \in Writes, ImageType
  PROVE  Applied(e) \in [Cells -> Values]
BY DEF Applied, ImageType, Writes

\* The journal starts closed and well typed.
LEMMA TypeInit == Init => TypeOK
<1> SUFFICES ASSUME Init PROVE TypeOK
  OBVIOUS
<1>1. BankType
  BY SomeWriteType, CapacityAssumption DEF Init, BankType, Cleared
<1>2. ImageType
  BY ValueAssumption DEF Init, ImageType, Blank
<1>3. ProducerType
  BY SomeWriteType, CapacityAssumption DEF Init, ProducerType, NoSlot
<1>4. DrainType /\ CountType
  BY CapacityAssumption DEF Init, DrainType, CountType
<1> QED
  BY <1>1, <1>2, <1>3, <1>4 DEF TypeOK

\* Every step keeps the types; in particular the number of slots the drainer visits
\* never exceeds a bank, however many writes were counted.
LEMMA TypeNext == TypeOK /\ [Next]_vars => TypeOK'
<1> SUFFICES ASSUME TypeOK, [Next]_vars PROVE TypeOK'
  OBVIOUS
<1>t. BankType /\ ImageType /\ ProducerType /\ DrainType /\ CountType
  BY DEF TypeOK
<1>a. CASE UNCHANGED vars
  BY <1>a, <1>t DEF TypeOK, BankType, ImageType, ProducerType, DrainType, CountType
<1>b. ASSUME NEW p \in Producers, NEW w \in Writes, Begin(p, w) PROVE TypeOK'
  <2>1. ProducerType'
    BY <1>b, <1>t DEF Begin, ProducerType
  <2> QED
    BY <1>b, <1>t, <2>1 DEF Begin, TypeOK, BankType, ImageType, DrainType, CountType
<1>c. ASSUME NEW p \in Producers, Claim(p) PROVE TypeOK'
  <2>1. g_control.bank \in Banks /\ g_control.count \in Nat
    BY <1>t DEF BankType
  <2>2. write[p] \in Writes
    BY <1>t DEF ProducerType
  <2>3. ProducerType'
    <3>1. CASE g_control.count >= JOURNAL_MAX_ENTRIES
      BY <1>c, <1>t, <3>1, SomeWriteType DEF Claim, Done, ProducerType
    <3>2. CASE ~(g_control.count >= JOURNAL_MAX_ENTRIES)
      <4>1. [bank |-> g_control.bank, slot |-> g_control.count] \in [bank : Banks, slot : Slots]
        BY <2>1, <3>2, CapacityAssumption
      <4>2. /\ pc' = [pc EXCEPT ![p] = "address"] /\ write' = write
            /\ claim' = [claim EXCEPT ![p] = [bank |-> g_control.bank, slot |-> g_control.count]]
        BY <1>c, <3>2 DEF Claim, Goto
      <4> QED
        BY <1>t, <4>1, <4>2 DEF ProducerType, Filling
    <3> QED
      BY <3>1, <3>2
  <2>4. BankType'
    <3>1. g_control' \in [bank : Banks, count : Nat]
      BY <1>c, <1>t, <2>1 DEF Claim, BankType
    <3>2. intent' \in [Banks -> [Slots -> Writes]]
      <4>1. CASE g_control.count >= JOURNAL_MAX_ENTRIES
        BY <1>c, <1>t, <4>1 DEF Claim, BankType
      <4>2. CASE ~(g_control.count >= JOURNAL_MAX_ENTRIES)
        <5>1. g_control.count \in Slots
          BY <2>1, <4>2, CapacityAssumption
        <5>2. intent' = [intent EXCEPT ![g_control.bank][g_control.count] = write[p]]
          BY <1>c, <4>2 DEF Claim
        <5> HIDE DEF Banks, Slots
        <5> QED
          BY <1>t, <2>1, <2>2, <5>1, <5>2, SlotSet DEF BankType
      <4> QED
        BY <4>1, <4>2
    <3> QED
      BY <1>c, <1>t, <3>1, <3>2 DEF Claim, BankType
  <2>5. DrainType'
    BY <1>c, <1>t, <2>1 DEF Claim, DrainType, BankType
  <2> QED
    BY <1>c, <1>t, <2>3, <2>4, <2>5 DEF Claim, TypeOK, ImageType, CountType, Counted
<1>d. ASSUME NEW p \in Producers, Fill(p) PROVE TypeOK'
  <2>1. claim[p].bank \in Banks /\ claim[p].slot \in Slots /\ write[p] \in Writes
    BY <1>t DEF ProducerType
  <2>2. ProducerType'
    BY <1>d, <1>t DEF Fill, ProducerType
  <2>3. entries' \in [Banks -> [Slots -> Writes]]
    <3> DEFINE e == entries[claim[p].bank][claim[p].slot]
    <3>1. e \in Writes /\ [e EXCEPT !.cell = write[p].cell] \in Writes
                     /\ [e EXCEPT !.value = write[p].value] \in Writes
      BY <1>t, <2>1, HalfEntry DEF BankType
    <3>2. PICK x \in Writes :
            entries' = [entries EXCEPT ![claim[p].bank][claim[p].slot] = x]
      BY <1>d, <3>1 DEF Fill
    <3> QED
      BY <1>t, <2>1, <3>2, SlotSet DEF BankType
  <2>4. BankType'
    BY <1>d, <1>t, <2>3 DEF Fill, BankType
  <2> QED
    BY <1>d, <1>t, <2>2, <2>4 DEF Fill, TypeOK, ImageType, DrainType, CountType
<1>e. ASSUME NEW p \in Producers, Publish(p) PROVE TypeOK'
  <2>1. ProducerType'
    BY <1>e, <1>t, SomeWriteType, CapacityAssumption DEF Publish, Done, NoSlot, ProducerType
  <2>2. BankType'
    BY <1>e, <1>t DEF Publish, BankType
  <2> QED
    BY <1>e, <1>t, <2>1, <2>2 DEF Publish, TypeOK, ImageType, DrainType, CountType
<1>f. CASE Lock \/ Unlock
  BY <1>f, <1>t DEF Lock, Unlock, TypeOK, BankType, ImageType, ProducerType, DrainType, CountType
<1>g. CASE Flip
  <2>1. g_control.bank \in Banks /\ g_control.count \in Nat \ {0}
    BY <1>g, <1>t DEF Flip, BankType, DrainType
  <2>2. DrainType'
    BY <1>g, <1>t, <2>1, CapacityAssumption DEF Flip, DrainType, Smaller
  <2>3. BankType'
    BY <1>g, <1>t, <2>1 DEF Flip, BankType
  <2> QED
    BY <1>g, <1>t, <2>2, <2>3 DEF Flip, TypeOK, ImageType, ProducerType, CountType
<1>h. CASE ApplySlot
  <2>1. retired \in Banks /\ i \in Slots
    BY <1>h, <1>t, CapacityAssumption DEF ApplySlot, DrainType
  <2>2. entries[retired][i] \in Writes
    BY <1>t, <2>1 DEF BankType
  <2>3. ImageType'
    BY <1>h, <1>t, <2>2, AppliedType DEF ApplySlot, ImageType
  <2> QED
    BY <1>h, <1>t, <2>3 DEF ApplySlot, TypeOK, BankType, ProducerType, DrainType, CountType
<1>i. CASE ClearSlot
  <2>1. BankType'
    BY <1>i, <1>t, SomeWriteType DEF ClearSlot, BankType
  <2>2. DrainType'
    BY <1>i, <1>t, CapacityAssumption DEF ClearSlot, NextSlot, DrainType
  <2> QED
    BY <1>i, <1>t, <2>1, <2>2 DEF ClearSlot, TypeOK, ImageType, ProducerType, CountType
<1>j. ASSUME NEW c \in Cells, NEW v \in Values, ForceSet(c, v) PROVE TypeOK'
  <2>1. ImageType'
    BY <1>j, <1>t DEF ForceSet, ImageType
  <2> QED
    BY <1>j, <1>t, <2>1 DEF ForceSet, TypeOK, BankType, ProducerType, DrainType, CountType
<1>k. ASSUME NEW c \in Cells, ForceClear(c) PROVE TypeOK'
  BY <1>k, <1>t DEF ForceClear, TypeOK, BankType, ImageType, ProducerType, DrainType, CountType
<1>l. CASE Shut
  BY <1>l, <1>t DEF Shut, TypeOK, BankType, ImageType, ProducerType, DrainType, CountType
<1>m. CASE Cleanup
  BY <1>m, <1>t, ValueAssumption
     DEF Cleanup, Blank, TypeOK, BankType, ImageType, ProducerType, DrainType, CountType
<1>n. CASE Reopen
  <2>1. BankType'
    BY <1>n, <1>t, SomeWriteType DEF Reopen, Cleared, BankType
  <2> QED
    BY <1>n, <1>t, <2>1, ValueAssumption
       DEF Reopen, Blank, TypeOK, ImageType, ProducerType, DrainType, CountType
<1>o. CASE \E p \in Producers : Produce(p)
  BY <1>o, <1>b, <1>c, <1>d, <1>e DEF Produce
<1>p. CASE Drain
  BY <1>p, <1>f, <1>g, <1>h, <1>i DEF Drain
<1>q. CASE UnderLock
  BY <1>q, <1>j, <1>k, <1>l, <1>m DEF UnderLock
<1> QED
  BY <1>a, <1>n, <1>o, <1>p, <1>q DEF Next

\* Every reachable state of the journal is well typed.  The drainer's index and count
\* stay inside a bank whatever the number of writers.
THEOREM TypeCorrect == Spec => []TypeOK
BY TypeInit, TypeNext, PTL DEF Spec

-----------------------------------------------------------------------------
(* Flush on lock *)

\* Only claims made since the mutex was taken are in the active bank once the banks
\* have been flipped, or were found empty.
Fresh == drain \notin {"free", "flip"} /\ g_initialized => g_control.count <= since

\* No drainer is flipping or draining a closed journal.
OpenWhileDrained ==
  /\ drain \in {"flip", "slot", "clear"} => g_initialized
  /\ drain = "closing" => ~g_initialized

FlushInv == TypeOK /\ Fresh /\ OpenWhileDrained

\* Every step of the journal keeps the invariant of the flush, stalls included.
LEMMA FlushNext == FlushInv /\ [Next]_vars => FlushInv'
<1> SUFFICES ASSUME FlushInv, [Next]_vars PROVE Fresh' /\ OpenWhileDrained'
  BY TypeNext DEF FlushInv
<1>t. g_control \in [bank : Banks, count : Nat] /\ since \in Nat /\ Fresh /\ OpenWhileDrained
  BY DEF FlushInv, TypeOK, BankType, CountType
<1>1. ASSUME NEW p \in Producers, NEW w \in Writes,
             Begin(p, w) \/ Fill(p) \/ Publish(p)
      PROVE  Fresh' /\ OpenWhileDrained'
  <2>1. UNCHANGED <<g_initialized, g_control, drain, since>>
    BY <1>1 DEF Begin, Fill, Publish
  <2> QED
    BY <1>t, <2>1 DEF Fresh, OpenWhileDrained
<1>2. ASSUME NEW p \in Producers, Claim(p) PROVE Fresh' /\ OpenWhileDrained'
  BY <1>2, <1>t DEF Claim, Counted, Fresh, OpenWhileDrained
<1>3. CASE Drain
  BY <1>3, <1>t DEF Drain, Lock, Flip, ApplySlot, ClearSlot, NextSlot, Unlock, Fresh,
     OpenWhileDrained
<1>4. CASE UnderLock
  <2>1. ASSUME NEW c \in Cells, NEW v \in Values, ForceSet(c, v) \/ ForceClear(c)
        PROVE  Fresh' /\ OpenWhileDrained'
    BY <2>1, <1>t DEF ForceSet, ForceClear, Fresh, OpenWhileDrained
  <2>2. CASE Shut \/ Cleanup
    BY <2>2, <1>t DEF Shut, Cleanup, Fresh, OpenWhileDrained
  <2> QED
    BY <1>4, <2>1, <2>2, ValueAssumption DEF UnderLock
<1>5. CASE Reopen
  BY <1>5, <1>t DEF Reopen, Fresh, OpenWhileDrained
<1>6. CASE UNCHANGED vars
  BY <1>6, <1>t DEF Fresh, OpenWhileDrained
<1>7. CASE \E p \in Producers : Produce(p)
  <2> PICK p \in Producers : Produce(p)
    BY <1>7
  <2>1. CASE Claim(p)
    BY <2>1, <1>2
  <2>2. CASE Fill(p) \/ Publish(p)
    BY <2>2, <1>1, SomeWriteType
  <2>3. CASE \E w \in Writes : Begin(p, w)
    BY <2>3, <1>1
  <2> QED
    BY <2>1, <2>2, <2>3 DEF Produce
<1> QED
  BY <1>3, <1>4, <1>5, <1>6, <1>7 DEF Next

\* A journal that is drained is open.
LEMMA FlushHolds == Spec => []FlushInv
<1>1. Init => FlushInv
  BY TypeInit DEF Init, FlushInv, Fresh, OpenWhileDrained
<1> QED
  BY <1>1, FlushNext, PTL DEF Spec

\* Once image_lock has returned, every write that was in the journal when the mutex was
\* taken has left the journal; producers that stall past the spin included.
THEOREM FlushOnLockHolds == Spec => []FlushOnLock
<1>1. FlushInv => FlushOnLock
  BY DEF FlushInv, Fresh, FlushOnLock
<1> QED
  BY <1>1, FlushHolds, PTL

-----------------------------------------------------------------------------
(* Slots *)

\* The drainer works on the bank nobody claims from, and clears what it has read.
BanksApart ==
  /\ drain \in {"slot", "clear"} => retired # g_control.bank
  /\ drain = "clear" => published[retired][i]

\* A flag that is up stands for a claimed slot whose entry is complete.
FlagsTrue ==
  \A b \in Banks, s \in Slots :
    published[b][s] => Claimed(b, s) /\ entries[b][s] = intent[b][s]

\* A producer that fills a slot is the one it was claimed for, and what it has written
\* so far is in it.
Holds(p) ==
  LET b == claim[p].bank
      s == claim[p].slot
  IN /\ Claimed(b, s) /\ ~published[b][s] /\ intent[b][s] = write[p]
     /\ pc[p] = "value" => entries[b][s].cell = write[p].cell
     /\ pc[p] = "publish" => entries[b][s] = write[p]

FillersOnTrack == \A p \in Producers : pc[p] \in Filling => Holds(p)

\* No two producers fill the same slot.
FillersApart ==
  \A p, q \in Producers :
    pc[p] \in Filling /\ pc[q] \in Filling /\ claim[p] = claim[q] => p = q

\* The inductive form of SlotsExclusive and WholeEntry.
SlotInv ==
  /\ FlushInv
  /\ g_initialized => BanksApart /\ FlagsTrue /\ FillersOnTrack /\ FillersApart

\* What the steps below start from: an open journal in which the invariant holds.
OpenSlots ==
  /\ TypeOK /\ OpenWhileDrained /\ g_initialized /\ g_initialized' /\ ~Stalls
  /\ BanksApart /\ FlagsTrue /\ FillersOnTrack /\ FillersApart

SlotParts == BanksApart /\ FlagsTrue /\ FillersOnTrack /\ FillersApart

\* The types the steps below need, in one place.
LEMMA SlotTypes ==
  ASSUME TypeOK
  PROVE  /\ g_control.bank \in Banks /\ g_control.count \in Nat
         /\ retired \in Banks /\ count \in 0 .. JOURNAL_MAX_ENTRIES
         /\ i \in 0 .. JOURNAL_MAX_ENTRIES
         /\ \A p \in Producers :
              write[p] \in Writes /\ claim[p].bank \in Banks /\ claim[p].slot \in Slots
BY DEF TypeOK, BankType, DrainType, ProducerType

\* Taking and giving back the mutex changes nothing about the slots.
LEMMA SlotLock == OpenSlots /\ (Lock \/ Unlock) => SlotParts'
<1> SUFFICES ASSUME OpenSlots, Lock \/ Unlock PROVE SlotParts'
  OBVIOUS
<1>1. \A b, s : Claimed(b, s)' <=> Claimed(b, s)
  BY DEF Lock, Unlock, Claimed, Active, Retiring
<1>2. BanksApart'
  BY DEF Lock, Unlock, BanksApart
<1>3. FlagsTrue'
  BY <1>1 DEF OpenSlots, Lock, Unlock, FlagsTrue
<1>4. FillersOnTrack' /\ FillersApart'
  BY <1>1 DEF OpenSlots, Lock, Unlock, FillersOnTrack, FillersApart, Holds
<1> QED
  BY <1>2, <1>3, <1>4 DEF SlotParts

\* A write that is begun holds no slot yet.
LEMMA SlotBegin ==
  ASSUME NEW p \in Producers, NEW w \in Writes, OpenSlots, Begin(p, w)
  PROVE  SlotParts'
<1>1. \A b, s : Claimed(b, s)' <=> Claimed(b, s)
  BY DEF Begin, Claimed, Active, Retiring
<1>2. BanksApart' /\ FlagsTrue'
  BY <1>1 DEF OpenSlots, Begin, BanksApart, FlagsTrue
<1>3. \A q \in Producers : pc'[q] \in Filling =>
        q # p /\ pc[q] \in Filling /\ pc'[q] = pc[q] /\ write'[q] = write[q]
  BY DEF OpenSlots, TypeOK, ProducerType, Begin
<1>4. FillersOnTrack' /\ FillersApart'
  BY <1>1, <1>3 DEF OpenSlots, Begin, FillersOnTrack, FillersApart, Holds
<1> QED
  BY <1>2, <1>4 DEF SlotParts

\* A claim takes a slot that was not claimed: no flag is up in it, nobody fills it.
LEMMA SlotClaim ==
  ASSUME NEW p \in Producers, OpenSlots, Claim(p)
  PROVE  SlotParts'
<1>t. TypeOK
  BY DEF OpenSlots
<1>1. CASE g_control.count >= JOURNAL_MAX_ENTRIES
  <2>1. \A b \in Banks, s \in Slots : Claimed(b, s)' <=> Claimed(b, s)
    BY <1>1, <1>t, SlotTypes, CapacityAssumption
       DEF Claim, TypeOK, BankType, Claimed, Active, Retiring
  <2>2. BanksApart' /\ FlagsTrue'
    BY <1>1, <2>1 DEF OpenSlots, TypeOK, BankType, Claim, BanksApart, FlagsTrue
  <2>3. \A q \in Producers : pc'[q] \in Filling =>
          q # p /\ pc[q] \in Filling /\ pc'[q] = pc[q] /\ write'[q] = write[q]
    BY <1>1, <1>t DEF TypeOK, ProducerType, Claim, Done
  <2>4. FillersOnTrack' /\ FillersApart'
    BY <1>1, <1>t, <2>1, <2>3, SlotTypes
       DEF OpenSlots, Claim, FillersOnTrack, FillersApart, Holds
  <2> QED
    BY <2>2, <2>4 DEF SlotParts
<1>2. CASE ~(g_control.count >= JOURNAL_MAX_ENTRIES)
  <2> DEFINE B == g_control.bank
             S == g_control.count
  <2>1. B \in Banks /\ S \in Slots
    BY <1>2, <1>t, SlotTypes, CapacityAssumption
  <2>2. ~Claimed(B, S)
    BY <1>t, <2>1, SlotTypes DEF OpenSlots, BanksApart, Claimed, Active, Retiring
  <2>3. ~published[B][S] /\ \A q \in Producers : pc[q] \in Filling => claim[q] # [bank |-> B, slot |-> S]
    BY <2>1, <2>2 DEF OpenSlots, FlagsTrue, FillersOnTrack, Holds
  <2>4. \A b \in Banks, s \in Slots : Claimed(b, s)' <=> Claimed(b, s) \/ (b = B /\ s = S)
    BY <1>2, <1>t, <2>1, SlotTypes, CapacityAssumption
       DEF Claim, TypeOK, BankType, Claimed, Active, Retiring, OpenSlots, BanksApart
  <2>5. \A b \in Banks, s \in Slots :
          intent'[b][s] = IF b = B /\ s = S THEN write[p] ELSE intent[b][s]
    <3>1. intent' = [intent EXCEPT ![B][S] = write[p]]
      BY <1>2 DEF Claim
    <3>2. intent \in [Banks -> [Slots -> Writes]]
      BY <1>t DEF TypeOK, BankType
    <3> HIDE DEF Banks, Slots
    <3> QED
      BY <2>1, <3>1, <3>2, SlotRead
  <2>6. BanksApart'
    BY <1>2, <1>t DEF OpenSlots, TypeOK, BankType, Claim, BanksApart
  <2>7. FlagsTrue'
    BY <1>2, <2>3, <2>4, <2>5 DEF OpenSlots, Claim, FlagsTrue
  <2>8. /\ \A q \in Producers : pc'[q] \in Filling /\ q # p =>
             pc[q] \in Filling /\ pc'[q] = pc[q] /\ claim'[q] = claim[q]
        /\ pc'[p] = "address" /\ claim'[p] = [bank |-> B, slot |-> S]
        /\ UNCHANGED <<write, entries, published>>
    BY <1>2, <1>t DEF Claim, TypeOK, ProducerType
  <2>9. FillersOnTrack'
    <3>1. Holds(p)'
      BY <2>1, <2>3, <2>4, <2>5, <2>8 DEF Holds
    <3>2. ASSUME NEW q \in Producers, q # p, pc'[q] \in Filling PROVE Holds(q)'
      <4>1. Holds(q) /\ claim[q].bank \in Banks /\ claim[q].slot \in Slots
        BY <1>t, <2>8, <3>2, SlotTypes DEF OpenSlots, FillersOnTrack
      <4>2. ~(claim[q].bank = B /\ claim[q].slot = S)
        BY <2>2, <4>1 DEF Holds
      <4> QED
        BY <2>4, <2>5, <2>8, <3>2, <4>1, <4>2 DEF Holds
    <3> QED
      BY <3>1, <3>2 DEF FillersOnTrack
  <2>10. FillersApart'
    BY <2>3, <2>8 DEF OpenSlots, FillersApart
  <2> QED
    BY <2>6, <2>7, <2>9, <2>10 DEF SlotParts
<1> QED
  BY <1>1, <1>2

\* Filling writes a slot no one else fills and whose flag is down.
LEMMA SlotFill ==
  ASSUME NEW p \in Producers, OpenSlots, Fill(p)
  PROVE  SlotParts'
<1> DEFINE B == claim[p].bank
           S == claim[p].slot
<1>t. TypeOK /\ B \in Banks /\ S \in Slots /\ write[p] \in Writes
  BY SlotTypes DEF OpenSlots
<1>1. \A b, s : Claimed(b, s)' <=> Claimed(b, s)
  BY DEF Fill, Claimed, Active, Retiring
<1>2. pc[p] \in Filling /\ Holds(p)
  BY DEF OpenSlots, Fill, FillersOnTrack
<1>3. entries[B][S] \in Writes
  BY <1>t DEF TypeOK, BankType
<1>4. PICK x : /\ entries' = [entries EXCEPT ![B][S] = x]
               /\ \/ /\ pc[p] = "address" /\ pc'[p] = "value"
                     /\ x = [entries[B][S] EXCEPT !.cell = write[p].cell]
                  \/ /\ pc[p] = "value" /\ pc'[p] = "publish"
                     /\ x = [entries[B][S] EXCEPT !.value = write[p].value]
  BY <1>t DEF Fill, TypeOK, ProducerType
<1>5. \A b \in Banks, s \in Slots :
        entries'[b][s] = IF b = B /\ s = S THEN x ELSE entries[b][s]
  <2>1. entries \in [Banks -> [Slots -> Writes]]
    BY <1>t DEF TypeOK, BankType
  <2>2. B \in Banks /\ S \in Slots /\ entries' = [entries EXCEPT ![B][S] = x]
    BY <1>4, <1>t
  <2> HIDE DEF Banks, Slots, B, S
  <2> QED
    BY <2>1, <2>2, SlotRead
<1>6. BanksApart' /\ FlagsTrue'
  <2>1. ~published[B][S]
    BY <1>2 DEF Holds
  <2>2. UNCHANGED <<drain, retired, i, g_control, published, intent>>
    BY DEF Fill
  <2>3. BanksApart'
    BY <2>2 DEF OpenSlots, BanksApart
  <2>4. FlagsTrue
    BY DEF OpenSlots
  <2>5. FlagsTrue'
    BY <1>1, <1>5, <2>1, <2>2, <2>4 DEF FlagsTrue
  <2> QED
    BY <2>3, <2>5
<1>7. /\ \A q \in Producers : q # p => pc'[q] = pc[q]
      /\ UNCHANGED <<claim, write, published, intent>>
  BY <1>t DEF Fill, TypeOK, ProducerType
<1>8. Holds(p)'
  <2>1. CASE pc'[p] = "value"
    <3>1. x.cell = write[p].cell
      BY <1>3, <1>4, <2>1 DEF Writes
    <3> QED
      BY <1>1, <1>2, <1>5, <1>7, <1>t, <2>1, <3>1 DEF Holds
  <2>2. CASE pc'[p] = "publish"
    <3>1. entries[B][S].cell = write[p].cell /\ x = [entries[B][S] EXCEPT !.value = write[p].value]
      BY <1>2, <1>4, <2>2 DEF Holds
    <3>2. x = write[p]
      BY <1>3, <1>t, <3>1 DEF Writes
    <3> QED
      BY <1>1, <1>2, <1>5, <1>7, <1>t, <2>2, <3>2 DEF Holds
  <2> QED
    BY <1>4, <2>1, <2>2
<1>9. ASSUME NEW q \in Producers, q # p, pc'[q] \in Filling PROVE Holds(q)'
  <2>1. pc[q] \in Filling /\ Holds(q) /\ claim[q].bank \in Banks /\ claim[q].slot \in Slots
    BY <1>7, <1>9, <1>t, SlotTypes DEF OpenSlots, FillersOnTrack
  <2>2. ~(claim[q].bank = B /\ claim[q].slot = S)
    <3>1. claim[q] # claim[p]
      BY <1>2, <1>9, <2>1 DEF OpenSlots, FillersApart
    <3>2. claim[p] \in [bank : Banks, slot : Slots] /\ claim[q] \in [bank : Banks, slot : Slots]
      BY <1>t DEF TypeOK, ProducerType
    <3> QED
      BY <3>1, <3>2
  <2> QED
    BY <1>1, <1>5, <1>7, <1>9, <2>1, <2>2 DEF Holds
<1>10. FillersApart'
  BY <1>2, <1>7 DEF OpenSlots, FillersApart
<1> QED
  BY <1>6, <1>8, <1>9, <1>10 DEF FillersOnTrack, SlotParts

\* Publishing raises the flag over a complete entry.
LEMMA SlotPublish ==
  ASSUME NEW p \in Producers, OpenSlots, Publish(p)
  PROVE  SlotParts'
<1> DEFINE B == claim[p].bank
           S == claim[p].slot
<1>t. TypeOK /\ B \in Banks /\ S \in Slots
  BY SlotTypes DEF OpenSlots
<1>1. \A b, s : Claimed(b, s)' <=> Claimed(b, s)
  BY DEF Publish, Claimed, Active, Retiring
<1>2. Claimed(B, S) /\ entries[B][S] = intent[B][S]
  BY DEF OpenSlots, Publish, FillersOnTrack, Holds
<1>3. \A b \in Banks, s \in Slots :
        published'[b][s] <=> published[b][s] \/ (b = B /\ s = S)
  <2>1. published \in [Banks -> [Slots -> BOOLEAN]] /\ published' = [published EXCEPT ![B][S] = TRUE]
    BY <1>t DEF Publish, TypeOK, BankType
  <2>2. ASSUME NEW b \in Banks, NEW s \in Slots
        PROVE  [published EXCEPT ![B][S] = TRUE][b][s] <=> IF b = B /\ s = S THEN TRUE ELSE published[b][s]
    <3> HIDE DEF Banks, Slots, B, S
    <3> QED
      BY <1>t, <2>1, FlagRead, Zenon
  <2> HIDE DEF Banks, Slots, B, S
  <2> QED
    BY <2>1, <2>2
<1>4. BanksApart'
  <2>1. drain = "clear" => i \in Slots
    BY <1>t, CapacityAssumption DEF TypeOK, DrainType
  <2> QED
    BY <1>3, <1>t, <2>1, SlotTypes DEF OpenSlots, Publish, BanksApart
<1>5. FlagsTrue'
  BY <1>1, <1>2, <1>3 DEF OpenSlots, Publish, FlagsTrue
<1>6. \A q \in Producers : pc'[q] \in Filling =>
        /\ q # p /\ pc[q] \in Filling /\ pc'[q] = pc[q]
        /\ write'[q] = write[q] /\ claim'[q] = claim[q]
  BY <1>t DEF TypeOK, ProducerType, Publish, Done
<1>7. ASSUME NEW q \in Producers, pc'[q] \in Filling PROVE Holds(q)'
  <2>1. Holds(q) /\ claim[q].bank \in Banks /\ claim[q].slot \in Slots
    BY <1>6, <1>7, <1>t, SlotTypes DEF OpenSlots, FillersOnTrack
  <2>2. ~(claim[q].bank = B /\ claim[q].slot = S)
    <3>1. claim[q] # claim[p]
      BY <1>6, <1>7 DEF OpenSlots, FillersApart, Publish
    <3>2. claim[p] \in [bank : Banks, slot : Slots] /\ claim[q] \in [bank : Banks, slot : Slots]
      BY <1>t DEF TypeOK, ProducerType
    <3> QED
      BY <3>1, <3>2
  <2>3. UNCHANGED <<entries, intent>>
    BY DEF Publish
  <2> QED
    BY <1>1, <1>3, <1>6, <1>7, <2>1, <2>2, <2>3 DEF Holds
<1>8. FillersApart'
  BY <1>6 DEF OpenSlots, FillersApart
<1> QED
  BY <1>4, <1>5, <1>7, <1>8 DEF FillersOnTrack, SlotParts

\* The flip retires exactly the claimed slots and leaves the other bank empty.
LEMMA SlotFlip == OpenSlots /\ Flip => SlotParts'
<1> SUFFICES ASSUME OpenSlots, Flip PROVE SlotParts'
  OBVIOUS
<1>t. TypeOK
  BY DEF OpenSlots
<1>1. \A b \in Banks, s \in Slots : Claimed(b, s)' <=> Claimed(b, s)
  BY <1>t, SlotTypes, CapacityAssumption
     DEF Flip, TypeOK, BankType, Claimed, Active, Retiring, Smaller
<1>2. BanksApart'
  BY <1>t, SlotTypes DEF Flip, TypeOK, BankType, BanksApart
<1>3. FlagsTrue'
  BY <1>1 DEF OpenSlots, Flip, FlagsTrue
<1>4. FillersOnTrack' /\ FillersApart'
  BY <1>1, <1>t, SlotTypes DEF OpenSlots, Flip, FillersOnTrack, FillersApart, Holds
<1> QED
  BY <1>2, <1>3, <1>4 DEF SlotParts

\* Without stalls the drainer goes on only from a published slot.
LEMMA SlotApply == OpenSlots /\ ApplySlot => SlotParts'
<1> SUFFICES ASSUME OpenSlots, ApplySlot PROVE SlotParts'
  OBVIOUS
<1>1. \A b, s : Claimed(b, s)' <=> Claimed(b, s)
  BY DEF ApplySlot, Claimed, Active, Retiring
<1>2. BanksApart'
  BY DEF OpenSlots, ApplySlot, BanksApart
<1>3. FlagsTrue'
  BY <1>1 DEF OpenSlots, ApplySlot, FlagsTrue
<1>4. FillersOnTrack' /\ FillersApart'
  BY <1>1 DEF OpenSlots, ApplySlot, FillersOnTrack, FillersApart, Holds
<1> QED
  BY <1>2, <1>3, <1>4 DEF SlotParts

\* The slot that is cleared was published, so nobody is filling it.
LEMMA SlotClear == OpenSlots /\ ClearSlot => SlotParts'
<1> SUFFICES ASSUME OpenSlots, ClearSlot PROVE SlotParts'
  OBVIOUS
<1>t. TypeOK /\ retired \in Banks /\ i \in Slots /\ count \in Nat
  BY SlotTypes, CapacityAssumption DEF OpenSlots, ClearSlot, TypeOK, DrainType
<1>1. \A b \in Banks, s \in Slots :
        Claimed(b, s)' <=> Claimed(b, s) /\ ~(b = retired /\ s = i)
  BY <1>t, SlotTypes
     DEF OpenSlots, BanksApart, ClearSlot, NextSlot, Claimed, Active, Retiring
<1>2. \A b \in Banks, s \in Slots :
        published'[b][s] <=> published[b][s] /\ ~(b = retired /\ s = i)
  <2>1. published \in [Banks -> [Slots -> BOOLEAN]] /\ published' = [published EXCEPT ![retired][i] = FALSE]
    BY <1>t DEF ClearSlot, TypeOK, BankType
  <2>2. ASSUME NEW b \in Banks, NEW s \in Slots
        PROVE  [published EXCEPT ![retired][i] = FALSE][b][s]
                 <=> IF b = retired /\ s = i THEN FALSE ELSE published[b][s]
    <3> HIDE DEF Banks, Slots
    <3> QED
      BY <1>t, <2>1, FlagRead, Zenon
  <2> HIDE DEF Banks, Slots
  <2> QED
    BY <2>1, <2>2
<1>i. \A b \in Banks, s \in Slots :
        intent'[b][s] = IF b = retired /\ s = i THEN SomeWrite ELSE intent[b][s]
  <2>1. /\ intent \in [Banks -> [Slots -> Writes]]
        /\ intent' = [intent EXCEPT ![retired][i] = SomeWrite]
    BY <1>t DEF ClearSlot, TypeOK, BankType
  <2> HIDE DEF Banks, Slots
  <2> QED
    BY <1>t, <2>1, SlotRead
<1>3. BanksApart'
  BY <1>t DEF OpenSlots, BanksApart, ClearSlot, NextSlot
<1>4. FlagsTrue'
  BY <1>1, <1>2, <1>i DEF OpenSlots, ClearSlot, FlagsTrue
<1>5. ASSUME NEW q \in Producers, pc'[q] \in Filling PROVE Holds(q)'
  <2>1. Holds(q) /\ claim[q].bank \in Banks /\ claim[q].slot \in Slots
    BY <1>5, <1>t, SlotTypes DEF OpenSlots, ClearSlot, FillersOnTrack
  <2>2. ~(claim[q].bank = retired /\ claim[q].slot = i)
    BY <2>1 DEF OpenSlots, BanksApart, ClearSlot, Holds
  <2>3. UNCHANGED <<entries, pc, write, claim>>
    BY DEF ClearSlot
  <2> QED
    BY <1>1, <1>2, <1>i, <2>1, <2>2, <2>3 DEF Holds
<1>6. FillersApart'
  BY DEF OpenSlots, ClearSlot, FillersApart
<1> QED
  BY <1>3, <1>4, <1>5, <1>6 DEF FillersOnTrack, SlotParts

\* Forces and stuttering leave the banks alone.
LEMMA SlotForce ==
  ASSUME NEW c \in Cells, NEW v \in Values, OpenSlots,
         ForceSet(c, v) \/ ForceClear(c) \/ UNCHANGED vars
  PROVE  SlotParts'
<1>1. \A b, s : Claimed(b, s)' <=> Claimed(b, s)
  BY DEF ForceSet, ForceClear, Claimed, Active, Retiring
<1>2. BanksApart' /\ FlagsTrue'
  BY <1>1 DEF OpenSlots, ForceSet, ForceClear, BanksApart, FlagsTrue
<1>3. FillersOnTrack' /\ FillersApart'
  BY <1>1 DEF OpenSlots, ForceSet, ForceClear, FillersOnTrack, FillersApart, Holds
<1> QED
  BY <1>2, <1>3 DEF SlotParts

\* Opening finds every producer idle and puts every flag down.
LEMMA SlotReopen == TypeOK /\ ~Stalls /\ Reopen => SlotParts'
<1> SUFFICES ASSUME TypeOK, ~Stalls, Reopen PROVE SlotParts'
  OBVIOUS
<1>1. \A b \in Banks, s \in Slots : ~published'[b][s]
  BY DEF Reopen, Cleared
<1>2. BanksApart' /\ FlagsTrue'
  BY <1>1 DEF Reopen, BanksApart, FlagsTrue
<1>3. \A p \in Producers : pc'[p] = "idle"
  BY DEF Reopen
<1> QED
  BY <1>2, <1>3 DEF FillersOnTrack, FillersApart, SlotParts

\* The slot invariant is kept by every step as long as nobody outlasts the spin.
LEMMA SlotNext == ~Stalls /\ SlotInv /\ [Next]_vars => SlotInv'
<1> SUFFICES ASSUME ~Stalls, SlotInv, [Next]_vars, g_initialized' PROVE SlotParts'
  BY FlushNext DEF SlotInv, SlotParts
<1>1. CASE Reopen
  BY <1>1, SlotReopen DEF SlotInv, FlushInv
<1>2. CASE ~Reopen
  <2>1. g_initialized
    BY <1>2 DEF Next, Produce, Drain, UnderLock, Begin, Claim, Fill, Publish, Lock, Flip,
       ApplySlot, ClearSlot, Unlock, ForceSet, ForceClear, Shut, Cleanup
  <2>2. OpenSlots
    BY <2>1 DEF SlotInv, FlushInv, OpenSlots
  <2>3. ~Shut /\ ~Cleanup
    BY <2>2 DEF Shut, Cleanup, OpenSlots, OpenWhileDrained
  <2>4. PICK c \in Cells, v \in Values : TRUE
    BY ValueAssumption
  <2>5. CASE UNCHANGED vars
    BY <2>2, <2>4, <2>5, SlotForce
  <2>6. CASE \E p \in Producers : Produce(p)
    BY <2>2, <2>6, SlotBegin, SlotClaim, SlotFill, SlotPublish DEF Produce
  <2>7. CASE Drain
    BY <2>2, <2>7, SlotLock, SlotFlip, SlotApply, SlotClear DEF Drain
  <2>8. CASE UnderLock
    BY <2>2, <2>3, <2>4, <2>8, SlotForce DEF UnderLock
  <2> QED
    BY <1>2, <2>5, <2>6, <2>7, <2>8 DEF Next
<1> QED
  BY <1>1, <1>2

\* Without stalls the invariant about the life of a slot holds for ever.
LEMMA SlotHolds == ~Stalls => (Spec => []SlotInv)
<1> SUFFICES ASSUME ~Stalls PROVE Spec => []SlotInv
  OBVIOUS
<1>1. Init => SlotInv
  BY TypeInit DEF Init, SlotInv, FlushInv, Fresh, OpenWhileDrained
<1>2. SlotInv /\ [Next]_vars => SlotInv'
  BY SlotNext
<1> QED
  BY <1>1, <1>2, PTL DEF Spec

\* As long as no producer outlasts the spin of the drainer, a slot has one producer, who
\* fills it before its flag is up and before the drainer clears it.
THEOREM SlotsExclusiveHolds == ~Stalls => (Spec => []SlotsExclusive)
<1> SUFFICES ASSUME ~Stalls PROVE Spec => []SlotsExclusive
  OBVIOUS
<1>1. SlotInv => SlotsExclusive
  BY DEF SlotInv, FillersOnTrack, FillersApart, Holds, SlotsExclusive
<1> QED
  BY <1>1, SlotHolds, PTL

\* Under the same condition what is applied is the whole entry its slot was claimed for.
THEOREM WholeEntryHolds == ~Stalls => (Spec => []WholeEntry)
<1> SUFFICES ASSUME ~Stalls PROVE Spec => []WholeEntry
  OBVIOUS
<1>1. SlotInv => WholeEntry
  <2> SUFFICES ASSUME SlotInv, drain = "slot", published[retired][i]
               PROVE  entries[retired][i] = intent[retired][i]
    BY DEF WholeEntry
  <2>1. retired \in Banks /\ i \in Slots
    BY CapacityAssumption DEF SlotInv, FlushInv, TypeOK, DrainType
  <2> QED
    BY <2>1 DEF SlotInv, FlushInv, OpenWhileDrained, FlagsTrue
<1> QED
  BY <1>1, SlotHolds, PTL

-----------------------------------------------------------------------------
(* The queue *)

USE DEF StillOpen

QueueType ==
  /\ Left \in 0 .. JOURNAL_MAX_ENTRIES /\ Waiting \in 0 .. JOURNAL_MAX_ENTRIES
  /\ Pending \in Seq(Writes) /\ Len(Pending) = Left + Waiting

\* What waits in the banks is a sequence of writes, no longer than both banks.
LEMMA PendingType ==
  ASSUME TypeOK
  PROVE  /\ Left \in 0 .. JOURNAL_MAX_ENTRIES /\ Waiting \in 0 .. JOURNAL_MAX_ENTRIES
         /\ Left <= count
         /\ Pending \in Seq(Writes) /\ Len(Pending) = Left + Waiting
         /\ \A k \in 1 .. Left + Waiting :
              Pending[k] = IF k <= Left THEN intent[retired][count - Left + k - 1]
                                        ELSE intent[g_control.bank][k - Left - 1]
<1>1. /\ g_control.bank \in Banks /\ g_control.count \in Nat /\ retired \in Banks
      /\ count \in 0 .. JOURNAL_MAX_ENTRIES /\ i \in 0 .. JOURNAL_MAX_ENTRIES
      /\ drain \in {"slot", "clear"} => i < count
  BY SlotTypes DEF TypeOK, DrainType
<1>2. Left \in 0 .. JOURNAL_MAX_ENTRIES /\ Left <= count
  BY <1>1, CapacityAssumption DEF Left
<1>3. Waiting \in 0 .. JOURNAL_MAX_ENTRIES
  BY <1>1, CapacityAssumption DEF Waiting, Smaller
<1>4. \A k \in 1 .. Left + Waiting :
        (IF k <= Left THEN intent[retired][count - Left + k - 1]
                      ELSE intent[g_control.bank][k - Left - 1]) \in Writes
  <2> SUFFICES ASSUME NEW k \in 1 .. Left + Waiting
               PROVE (IF k <= Left THEN intent[retired][count - Left + k - 1]
                                   ELSE intent[g_control.bank][k - Left - 1]) \in Writes
    OBVIOUS
  <2>1. intent \in [Banks -> [Slots -> Writes]]
    BY DEF TypeOK, BankType
  <2>2. CASE k <= Left
    <3>1. count - Left + k - 1 \in Slots
      BY <1>1, <1>2, <2>2, CapacityAssumption
    <3> QED
      BY <1>1, <2>1, <2>2, <3>1
  <2>3. CASE ~(k <= Left)
    <3>1. k - Left - 1 \in Slots
      BY <1>2, <1>3, <2>3, CapacityAssumption
    <3> QED
      BY <1>1, <2>1, <2>3, <3>1
  <2> QED
    BY <2>2, <2>3
<1>5. Left + Waiting \in Nat
  BY <1>2, <1>3, CapacityAssumption
<1>6. Pending \in [1 .. Left + Waiting -> Writes]
  BY <1>4 DEF Pending
<1>7. Pending \in Seq(Writes) /\ Len(Pending) = Left + Waiting
  BY <1>5, <1>6
<1> QED
  BY <1>2, <1>3, <1>7 DEF Pending

\* What the mapping shows of a well-typed journal is a well-typed queue...
LEMMA QueueTyped == TypeOK => QueueType
BY PendingType DEF QueueType

\* ... and so is what it shows of the next state.
LEMMA QueueTypedNext == TypeOK' => QueueType'
BY QueueTyped, PTL

\* A closed journal holds nothing forced.
ClosedClean == ~g_initialized /\ drain # "closing" => g_forced = {}

RefInv == SlotInv /\ ClosedClean

\* Without stalls every step keeps what the refinement needs.
LEMMA RefNext == ~Stalls /\ RefInv /\ [Next]_vars => RefInv'
<1> SUFFICES ASSUME RefInv, [Next]_vars PROVE ClosedClean'
  BY SlotNext DEF RefInv
<1>t. ClosedClean /\ OpenWhileDrained
  BY DEF RefInv, SlotInv, FlushInv
<1>1. CASE \E p \in Producers : Produce(p)
  BY <1>1, <1>t DEF Produce, Begin, Claim, Fill, Publish, ClosedClean
<1>2. CASE Drain
  BY <1>2, <1>t DEF Drain, Lock, Flip, ApplySlot, ClearSlot, NextSlot, Unlock, ClosedClean,
     OpenWhileDrained
<1>3. CASE UnderLock
  BY <1>3, <1>t DEF UnderLock, ForceSet, ForceClear, Shut, Cleanup, ClosedClean
<1>4. CASE Reopen
  BY <1>4 DEF Reopen, ClosedClean
<1>5. CASE UNCHANGED vars
  BY <1>5, <1>t DEF ClosedClean
<1> QED
  BY <1>1, <1>2, <1>3, <1>4, <1>5 DEF Next

\* What the refinement of a step starts from.
RefStep == RefInv /\ TypeOK' /\ ~Stalls

\* A stutter of the queue.
Quiet == UNCHANGED <<StillOpen, Pending, image, g_forced>>

\* A step that changes nothing the mapping shows is a stutter of the queue.
LEMMA QuietStutters == Quiet => UNCHANGED IW!vars
BY DEF Quiet, IW!vars

\* Beginning, filling and publishing a write do not change the queue.
LEMMA QuietSteps ==
  ASSUME NEW p \in Producers, NEW w \in Writes, Begin(p, w) \/ Fill(p) \/ Publish(p)
  PROVE  Quiet
<1>1. UNCHANGED <<drain, count, i, retired, g_control, intent, g_initialized, image, g_forced>>
  BY DEF Begin, Fill, Publish
<1>2. Left' = Left /\ Waiting' = Waiting
  BY <1>1 DEF Left, Waiting
<1> QED
  BY <1>1, <1>2 DEF Quiet, Pending

\* Nor do taking and giving back the mutex, and the flag that closes the journal.
LEMMA LockStutters == RefStep /\ (Lock \/ Unlock \/ Shut) => UNCHANGED IW!vars
<1> SUFFICES ASSUME RefStep, Lock \/ Unlock \/ Shut PROVE Quiet
  BY QuietStutters
<1>t. OpenWhileDrained
  BY DEF RefStep, RefInv, SlotInv, FlushInv
<1>1. /\ UNCHANGED <<count, i, retired, g_control, intent, image, g_forced, StillOpen>>
      /\ drain \notin {"slot", "clear"} /\ drain' \notin {"slot", "clear"}
  BY <1>t DEF Lock, Unlock, Shut, OpenWhileDrained
<1>2. Left = 0 /\ Left' = 0 /\ Waiting' = Waiting
  BY <1>1 DEF Left, Waiting
<1> QED
  BY <1>1, <1>2 DEF Quiet, Pending

\* A claim inside the bank queues the write; past its end, or once the journal is
\* closed, nothing is queued.
LEMMA ClaimWrites ==
  ASSUME NEW p \in Producers, RefStep, Claim(p)
  PROVE  IW!Write(write[p]) \/ UNCHANGED IW!vars
<1>t. /\ TypeOK /\ TypeOK' /\ OpenWhileDrained /\ write[p] \in Writes
      /\ g_initialized => BanksApart
      /\ g_control.count \in Nat /\ g_control.bank \in Banks
  BY SlotTypes DEF RefStep, RefInv, SlotInv, FlushInv
<1>1. UNCHANGED <<drain, count, i, retired, g_initialized, image, g_forced>> /\ Left' = Left
  BY DEF Claim, Left
<1>2. g_control' = [g_control EXCEPT !.count = @ + 1] /\ g_control'.bank = g_control.bank
        /\ g_control'.count = g_control.count + 1
  BY <1>t DEF Claim, TypeOK, BankType
<1>3. CASE g_control.count >= JOURNAL_MAX_ENTRIES
  <2>1. UNCHANGED <<intent, Waiting>>
    BY <1>2, <1>3, <1>t, CapacityAssumption DEF Claim, Waiting, Smaller
  <2> QED
    BY <1>1, <1>2, <2>1, QuietStutters DEF Quiet, Pending
<1>4. CASE ~StillOpen
  BY <1>1, <1>4 DEF IW!vars
<1>5. CASE ~(g_control.count >= JOURNAL_MAX_ENTRIES) /\ StillOpen
  <2> DEFINE B == g_control.bank
             S == g_control.count
             n == Left + Waiting
  <2>1. S \in Slots /\ Waiting = S /\ Waiting' = S + 1
    BY <1>2, <1>5, <1>t, CapacityAssumption DEF Waiting, Smaller
  <2>2. \A b \in Banks, s \in Slots :
          intent'[b][s] = IF b = B /\ s = S THEN write[p] ELSE intent[b][s]
    <3>1. intent' = [intent EXCEPT ![B][S] = write[p]]
      BY <1>5 DEF Claim
    <3>2. intent \in [Banks -> [Slots -> Writes]]
      BY <1>t DEF TypeOK, BankType
    <3> HIDE DEF Banks, Slots, B, S
    <3> QED
      BY <1>t, <2>1, <3>1, <3>2, SlotRead DEF B
  <2>3. Left > 0 => retired # B
    BY <1>t, <1>5 DEF Left, BanksApart, OpenWhileDrained
  <2>4. /\ Left \in 0 .. JOURNAL_MAX_ENTRIES /\ Left <= count /\ n \in Nat
        /\ Pending \in Seq(Writes) /\ Len(Pending) = n
        /\ Pending' \in Seq(Writes) /\ Len(Pending') = n + 1
        /\ retired \in Banks /\ count \in 0 .. JOURNAL_MAX_ENTRIES
    <3>1. QueueType /\ QueueType' /\ Left <= count
      BY <1>t, PendingType, QueueTyped, QueueTypedNext
    <3>2. n \in Nat /\ Left' + Waiting' = n + 1
      <4>1. Left \in Nat /\ Left' = Left /\ Waiting \in Nat /\ Waiting' = Waiting + 1
        BY <1>1, <2>1, <3>1 DEF QueueType, Slots
      <4> QED
        BY <4>1
    <3> QED
      BY <1>t, <2>1, <3>1, <3>2, SlotTypes DEF QueueType, TypeOK, DrainType
  <2>5. ASSUME NEW k \in 1 .. n + 1 PROVE Pending'[k] = Append(Pending, write[p])[k]
    <3>1. Pending'[k] = IF k <= Left THEN intent'[retired][count - Left + k - 1]
                                     ELSE intent'[B][k - Left - 1]
      BY <1>1, <1>2, <2>1, <2>4 DEF Pending
    <3>2. CASE k <= Left
      <4>1. count - Left + k - 1 \in Slots /\ retired # B /\ k \in 1 .. n
        BY <2>1, <2>3, <2>4, <3>2, CapacityAssumption
      <4>2. Pending'[k] = intent[retired][count - Left + k - 1]
        BY <2>2, <2>4, <3>1, <3>2, <4>1
      <4> QED
        BY <1>t, <2>4, <3>2, <4>1, <4>2, PendingType, AppendProperties
    <3>3. CASE ~(k <= Left) /\ k <= n
      <4>1. k - Left - 1 \in Slots /\ k - Left - 1 # S /\ k \in 1 .. n
        BY <2>1, <2>4, <3>3, CapacityAssumption
      <4>2. Pending'[k] = intent[B][k - Left - 1]
        BY <1>t, <2>2, <3>1, <3>3, <4>1
      <4> QED
        BY <1>t, <2>4, <3>3, <4>1, <4>2, PendingType, AppendProperties
    <3>4. CASE k = n + 1
      <4>1. k - Left - 1 = S /\ ~(k <= Left)
        BY <2>1, <2>4, <3>4
      <4>2. Pending'[k] = write[p]
        BY <1>t, <2>1, <2>2, <3>1, <4>1
      <4> QED
        BY <1>t, <2>4, <3>4, <4>2, AppendProperties
    <3> QED
      BY <2>4, <3>2, <3>3, <3>4
  <2>6. Pending' = Append(Pending, write[p])
    <3>1. /\ Append(Pending, write[p]) \in Seq(Writes)
          /\ Len(Append(Pending, write[p])) = n + 1
      BY <1>t, <2>4, AppendProperties
    <3> QED
      BY <2>4, <2>5, <3>1, SeqEqual
  <2>7. Len(Pending) < 2 * JOURNAL_MAX_ENTRIES
    BY <2>1, <2>4, CapacityAssumption
  <2> QED
    BY <1>1, <1>5, <2>6, <2>7 DEF IW!Write
<1> QED
  BY <1>3, <1>4, <1>5

\* The flip moves nothing: what was active is what is left to drain.
LEMMA FlipStutters == RefStep /\ Flip => UNCHANGED IW!vars
<1> SUFFICES ASSUME RefStep, Flip PROVE Quiet
  BY QuietStutters
<1>t. TypeOK /\ OpenWhileDrained /\ g_control.count \in Nat /\ g_control.bank \in Banks
  BY SlotTypes DEF RefStep, RefInv, SlotInv, FlushInv
<1>1. Left = 0 /\ Left' = Waiting /\ count' = Waiting /\ retired' = g_control.bank
  BY <1>t, CapacityAssumption DEF Flip, Left, Waiting, Smaller
<1>2. Waiting' = 0 /\ Waiting \in Nat
  BY <1>t, CapacityAssumption DEF Flip, Waiting, Smaller
<1>3. Pending' = [k \in 1 .. Waiting |-> intent[g_control.bank][k - 1]]
  BY <1>1, <1>2 DEF Pending, Flip
<1>4. Pending = [k \in 1 .. Waiting |-> intent[g_control.bank][k - 1]]
  BY <1>1, <1>2 DEF Pending
<1> QED
  BY <1>3, <1>4 DEF Flip, Quiet

\* A published slot is the oldest write, and it is applied whole.
LEMMA ApplyApplies == RefStep /\ ApplySlot => IW!Apply
<1> SUFFICES ASSUME RefStep, ApplySlot PROVE IW!Apply
  OBVIOUS
<1>t. /\ TypeOK /\ TypeOK' /\ OpenWhileDrained /\ ~Stalls
      /\ g_initialized => FlagsTrue
      /\ retired \in Banks /\ count \in 0 .. JOURNAL_MAX_ENTRIES
      /\ i \in 0 .. JOURNAL_MAX_ENTRIES /\ i < count
  BY SlotTypes DEF RefStep, RefInv, SlotInv, FlushInv, TypeOK, DrainType, ApplySlot
<1> DEFINE n == Left + Waiting
<1>1. g_initialized /\ g_initialized' /\ published[retired][i] /\ image' = Applied(entries[retired][i])
  BY <1>t DEF ApplySlot, OpenWhileDrained
<1>2. Left = count - i /\ Left' = Left - 1 /\ Waiting' = Waiting
  BY <1>t DEF ApplySlot, Left, Waiting
<1>3. /\ Waiting \in 0 .. JOURNAL_MAX_ENTRIES /\ Pending \in Seq(Writes) /\ Len(Pending) = n
      /\ Pending' \in Seq(Writes) /\ Len(Pending') = n - 1 /\ n \in Nat \ {0}
  <2>1. QueueType /\ QueueType'
    BY <1>t, QueueTyped, QueueTypedNext
  <2>2. n \in Nat \ {0} /\ Left' + Waiting' = n - 1
    BY <1>t, <1>2, <2>1, CapacityAssumption DEF QueueType
  <2> QED
    BY <2>1, <2>2 DEF QueueType
<1>4. Pending # <<>> /\ Head(Pending) = intent[retired][i]
  <2>1. Head(Pending) = Pending[1] /\ Pending # <<>>
    BY <1>3
  <2>2. Pending[1] = intent[retired][count - Left + 1 - 1]
    <3>1. 1 \in 1 .. Left + Waiting /\ 1 <= Left
      BY <1>t, <1>2, <1>3
    <3> QED
      BY <1>t, <3>1, PendingType
  <2>3. count - Left + 1 - 1 = i
    BY <1>t, <1>2, CapacityAssumption
  <2> QED
    BY <2>1, <2>2, <2>3
<1>5. Pending' = Tail(Pending)
  <2>1. /\ Tail(Pending) \in Seq(Writes) /\ Len(Tail(Pending)) = n - 1
        /\ \A k \in 1 .. n - 1 : Tail(Pending)[k] = Pending[k + 1]
    BY <1>3, <1>4, HeadTailProperties
  <2>2. ASSUME NEW k \in 1 .. n - 1 PROVE Pending'[k] = Pending[k + 1]
    <3>1. Pending'[k] = IF k <= Left - 1 THEN intent[retired][count - (Left - 1) + k - 1]
                                         ELSE intent[g_control.bank][k - (Left - 1) - 1]
      BY <1>2, <1>3 DEF Pending, ApplySlot
    <3>2. Pending[k + 1] = IF k + 1 <= Left THEN intent[retired][count - Left + (k + 1) - 1]
                                            ELSE intent[g_control.bank][(k + 1) - Left - 1]
      <4>1. k + 1 \in 1 .. Left + Waiting
        BY <1>3
      <4> QED
        BY <1>t, <4>1, PendingType
    <3>3. /\ count - (Left - 1) + k - 1 = count - Left + (k + 1) - 1
          /\ k - (Left - 1) - 1 = (k + 1) - Left - 1
          /\ k <= Left - 1 <=> k + 1 <= Left
      BY <1>t, <1>2, <1>3, CapacityAssumption
    <3> QED
      BY <3>1, <3>2, <3>3
  <2> QED
    BY <1>3, <2>1, <2>2, SeqEqual
<1>6. entries[retired][i] = intent[retired][i]
  BY <1>t, <1>1, CapacityAssumption DEF FlagsTrue
<1>7. image' = IW!After(image, g_forced, Head(Pending)) /\ g_forced' = g_forced
  BY <1>1, <1>4, <1>6 DEF Applied, IW!After, ApplySlot
<1> QED
  BY <1>1, <1>4, <1>5, <1>7 DEF IW!Apply

\* Clearing a slot forgets a write that has been applied.
LEMMA ClearStutters == RefStep /\ ClearSlot => UNCHANGED IW!vars
<1> SUFFICES ASSUME RefStep, ClearSlot PROVE Quiet
  BY QuietStutters
<1>t. /\ TypeOK /\ TypeOK' /\ OpenWhileDrained /\ BanksApart
      /\ retired \in Banks /\ count \in 0 .. JOURNAL_MAX_ENTRIES
      /\ i \in 0 .. JOURNAL_MAX_ENTRIES /\ i < count
      /\ g_control.bank \in Banks
  BY SlotTypes DEF RefStep, RefInv, SlotInv, FlushInv, TypeOK, DrainType, ClearSlot, OpenWhileDrained
<1>1. Left = count - i - 1 /\ Left' = Left /\ Waiting' = Waiting
  BY <1>t, CapacityAssumption DEF ClearSlot, NextSlot, Left, Waiting
<1>2. Left > 0 => UNCHANGED <<count, retired>>
  BY <1>t, <1>1, CapacityAssumption DEF ClearSlot, NextSlot
<1>3. \A b \in Banks, s \in Slots :
        ~(b = retired /\ s = i) => intent'[b][s] = intent[b][s]
  <2>1. /\ intent \in [Banks -> [Slots -> Writes]] /\ i \in Slots
        /\ intent' = [intent EXCEPT ![retired][i] = SomeWrite]
    BY <1>t, CapacityAssumption DEF ClearSlot, TypeOK, BankType
  <2> HIDE DEF Banks, Slots
  <2> QED
    BY <1>t, <2>1, SlotRead
<1> DEFINE n == Left + Waiting
<1>4. /\ Waiting \in 0 .. JOURNAL_MAX_ENTRIES /\ Pending \in Seq(Writes) /\ Len(Pending) = n
      /\ Pending' \in Seq(Writes) /\ Len(Pending') = n /\ n \in Nat
  <2>1. QueueType /\ QueueType'
    BY <1>t, QueueTyped, QueueTypedNext
  <2>2. n \in Nat /\ Left' + Waiting' = n
    BY <1>1, <2>1, CapacityAssumption DEF QueueType
  <2> QED
    BY <2>1, <2>2 DEF QueueType
<1>5. ASSUME NEW k \in 1 .. n PROVE Pending'[k] = Pending[k]
  <2>1. Pending'[k] = IF k <= Left THEN intent'[retired'][count' - Left + k - 1]
                                   ELSE intent'[g_control.bank][k - Left - 1]
    BY <1>1, <1>4 DEF Pending, ClearSlot
  <2>2. Pending[k] = IF k <= Left THEN intent[retired][count - Left + k - 1]
                                  ELSE intent[g_control.bank][k - Left - 1]
    BY <1>t, <1>4, PendingType
  <2>3. CASE k <= Left
    <3>1. count - Left + k - 1 \in Slots /\ count - Left + k - 1 # i /\ Left > 0
      BY <1>t, <1>1, <1>4, <2>3, CapacityAssumption
    <3> QED
      BY <1>2, <1>3, <1>t, <2>1, <2>2, <2>3, <3>1
  <2>4. CASE ~(k <= Left)
    <3>1. k - Left - 1 \in Slots /\ g_control.bank # retired
      BY <1>t, <1>1, <1>4, <2>4, CapacityAssumption DEF BanksApart, ClearSlot
    <3> QED
      BY <1>3, <1>t, <2>1, <2>2, <2>4, <3>1
  <2> QED
    BY <2>3, <2>4
<1>6. Pending' = Pending
  BY <1>4, <1>5, SeqEqual
<1> QED
  BY <1>6, <1>t DEF Quiet, ClearSlot, NextSlot, OpenWhileDrained

\* Forcing and releasing a slot, closing and opening are what they are in the queue.
LEMMA ForceForces ==
  ASSUME NEW c \in Cells, NEW v \in Values, RefStep
  PROVE  /\ ForceSet(c, v) => IW!Force(c, v)
         /\ ForceClear(c) => IW!Unforce(c)
<1>1. ForceSet(c, v) \/ ForceClear(c) => UNCHANGED <<StillOpen, Pending>>
  <2> SUFFICES ASSUME ForceSet(c, v) \/ ForceClear(c) PROVE UNCHANGED <<StillOpen, Pending>>
    OBVIOUS
  <2>1. UNCHANGED <<drain, count, i, retired, g_control, intent, g_initialized>>
    BY DEF ForceSet, ForceClear
  <2>2. Left' = Left /\ Waiting' = Waiting
    BY <2>1 DEF Left, Waiting
  <2> QED
    BY <2>1, <2>2 DEF Pending
<1>2. ForceClear(c) => StillOpen
  BY DEF ForceClear, RefStep, RefInv, ClosedClean
<1> QED
  BY <1>1, <1>2 DEF ForceSet, ForceClear, IW!Force, IW!Unforce

\* journal_cleanup, after the outputs went off, is the abstract Close.
LEMMA CleanupCloses == RefStep /\ Cleanup => IW!Close
BY DEF RefStep, RefInv, SlotInv, FlushInv, OpenWhileDrained, Cleanup, Blank, IW!Close, IW!Blank

\* journal_init of the next run is the abstract Open.
LEMMA ReopenOpens == RefStep /\ Reopen => IW!Open
<1> SUFFICES ASSUME RefStep, Reopen PROVE IW!Open
  OBVIOUS
<1>1. Left' = 0 /\ Waiting' = 0
  BY CapacityAssumption DEF Reopen, Left, Waiting, Smaller
<1>2. Pending' = <<>>
  <2>1. 1 .. Left' + Waiting' = {}
    BY <1>1
  <2> QED
    BY <2>1 DEF Pending
<1> QED
  BY <1>2 DEF Reopen, Blank, IW!Open, IW!Blank

\* Every step of the journal is a step of the queue or a stutter.
LEMMA StepRefines == RefStep /\ [Next]_vars => [IW!Next]_IW!vars
<1> SUFFICES ASSUME RefStep, [Next]_vars PROVE IW!Next \/ UNCHANGED IW!vars
  OBVIOUS
<1>1. PICK c \in Cells, v \in Values : TRUE
  BY ValueAssumption
<1>2. SomeWrite \in Writes
  BY SomeWriteType
<1>3. ASSUME NEW p \in Producers, Produce(p) PROVE IW!Next \/ UNCHANGED IW!vars
  <2>1. write[p] \in IW!Writes
    BY DEF RefStep, RefInv, SlotInv, FlushInv, TypeOK, ProducerType, Writes, IW!Writes
  <2>2. CASE Claim(p)
    BY <2>1, <2>2, ClaimWrites DEF IW!Next
  <2>3. CASE Fill(p) \/ Publish(p)
    BY <1>2, <2>3, QuietSteps, QuietStutters
  <2>4. CASE \E w \in Writes : Begin(p, w)
    BY <2>4, QuietSteps, QuietStutters
  <2> QED
    BY <1>3, <2>2, <2>3, <2>4 DEF Produce
<1>4. CASE Drain
  <2>1. CASE Lock \/ Unlock
    BY <2>1, LockStutters
  <2> QED
    BY <1>4, <2>1, FlipStutters, ApplyApplies, ClearStutters DEF Drain, IW!Next
<1>5. CASE UnderLock
  BY <1>5, ForceForces, CleanupCloses, LockStutters DEF UnderLock, IW!Next
<1>6. CASE UNCHANGED vars
  BY <1>6 DEF vars, banks, producers, drainer, IW!vars, Pending, Left, Waiting
<1> QED
  BY <1>3, <1>4, <1>5, <1>6, ReopenOpens DEF Next, IW!Next

\* As long as no producer outlasts the spin of the drainer, the journal implements the
\* queue of ImageWrites: what the banks do with two flips and a flag per slot comes to one
\* write after the other, in the order of the claims, none lost and none applied twice.
THEOREM OrderedHolds == ~Stalls => (Spec => Ordered)
<1> SUFFICES ASSUME ~Stalls PROVE Spec => Ordered
  OBVIOUS
<1>1. Init => RefInv /\ IW!Init
  BY TypeInit DEF Init, RefInv, ClosedClean, SlotInv, FlushInv, Fresh, OpenWhileDrained,
     Blank, IW!Init, IW!Blank
<1>2. RefInv /\ [Next]_vars => RefInv'
  BY RefNext
<1>3. RefInv => TypeOK
  BY DEF RefInv, SlotInv, FlushInv
<1>4. RefInv /\ RefInv' /\ [Next]_vars => [IW!Next]_IW!vars
  <2>1. RefInv' => TypeOK'
    BY <1>3, PTL
  <2> QED
    BY <2>1, StepRefines DEF RefStep
<1> QED
  BY <1>1, <1>2, <1>4, PTL DEF Spec, Ordered, IW!Spec

=============================================================================
