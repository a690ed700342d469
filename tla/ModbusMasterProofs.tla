------------------------- MODULE ModbusMasterProofs -------------------------
(***************************************************************************)
(* Proofs about ModbusMaster, for any configuration of points, endpoints   *)
(* and buses and any number of starts, failures and joins that time out:   *)
(* what the reads leave in the image and what the writes send, also beside *)
(* threads that outlived a stop, and who may be such a thread.             *)
(***************************************************************************)
EXTENDS ModbusMaster, WellFoundedInduction, TLAPS

USE DEF vars, plugin, image, outside

-----------------------------------------------------------------------------
(* The inductive invariant *)

ThreadRec ==
  [pc : {"none", "connect", "read", "put", "gather", "fetch", "send", "sleep", "ended"},
   stop : BOOLEAN, k : 0 .. Len(Points), cyc : 0 .. Period - 1, flag : BOOLEAN,
   works : BOOLEAN, got : Seq(Reads \X Seq(Int)), n : Nat, raw : Seq(Writes \X Seq(Int))]

PluginTypes ==
  /\ drv \in {"out", "in", "running", "stopping", "stopped", "clearing"}
  /\ clean \in BOOLEAN /\ forgot \in BOOLEAN
  /\ gen \in 0 .. MaxGen /\ list \in SUBSET Ids /\ slow \in 0 .. MaxSlow

ImageTypes ==
  /\ img \in [Cells -> Int] /\ DOMAIN queue \subseteq Cells
  /\ \A c \in DOMAIN queue : queue[c] \in Int

OutsideTypes ==
  /\ mem \in [Blocks -> Seq(Int)] /\ down \in SUBSET Keys /\ faults \in 0 .. MaxFaults
  /\ last \in [Reads -> Seq(Int)]

\* The points whose block no other input disturbs on its way back from the device.
Mirror(j) ==
  /\ Points[j].at \notin Field
  /\ \A i \in DOMAIN Points : Points[i].at = Points[j].at => Sole(i)

\* What an output of the point's type can be.
Sendable(p) == {v \in ProgramValues : Fits(p, v)}

\* What the block of a point can hold, and a read of it give: bits that are equal if the
\* field changes them, and what the program sends if it alone does.
Plausible(j, data) ==
  /\ data \in Seq(Int) /\ Len(data) = Count(Points[j])
  /\ Points[j].at \in Field => \A a, b \in 1 .. Count(Points[j]) : data[a] = data[b]
  /\ Mirror(j) => \E raw \in [1 .. Points[j].length -> Sendable(Points[j])] :
                     data = ToModbus(Points[j], raw)

\* What a thread of the key has at its step: answers that wait for the end of the pass,
\* in the order of the points, the first of them partly written, or what it fetched from
\* one scan of the program.
Sane(key, r) ==
  /\ r.got # <<>> => r.pc \in {"read", "put"}
  /\ r.raw # <<>> => r.pc \in {"fetch", "send"}
  /\ r.pc = "read" => r.k = 0 \/ (r.k \in Reads /\ KeyAt(r.k) = key)
  /\ r.pc = "fetch" => r.k \in Writes
  /\ r.n > 0 => r.pc = "put" /\ r.got # <<>> /\ r.n < Points[r.got[1][1]].length

GotSane(key, r) ==
  /\ \A m \in DOMAIN r.got :
       /\ KeyAt(r.got[m][1]) = key /\ Known(Points[r.got[m][1]])
       /\ Plausible(r.got[m][1], r.got[m][2])
       /\ r.pc = "read" /\ r.k # 0 => r.got[m][1] < r.k
  /\ \A m, i \in DOMAIN r.got : m < i => r.got[m][1] < r.got[i][1]

RawSane(r) ==
  /\ \A m \in DOMAIN r.raw :
       /\ Len(r.raw[m][2]) = Points[r.raw[m][1]].length
       /\ Sole(r.raw[m][1]) =>
            \A i \in 1 .. Len(r.raw[m][2]) : r.raw[m][2][i] \in ProgramValues
  /\ \A m, i \in DOMAIN r.raw : Sole(r.raw[m][1]) /\ Sole(r.raw[i][1]) =>
       \A a \in 1 .. Len(r.raw[m][2]), b \in 1 .. Len(r.raw[i][2]) :
          r.raw[m][2][a] = r.raw[i][2][b]

ThreadsKept ==
  /\ th \in [Ids -> ThreadRec]
  /\ \A t \in Ids :
       Sane(KeyOf(t), th[t]) /\ GotSane(KeyOf(t), th[t]) /\ RawSane(th[t])

LockKept ==
  /\ lock \in Ids \cup {NoOne}
  /\ \A t \in Ids : lock = t <=> th[t].pc \in {"put", "fetch"}

\* Who is alive: a thread of this start, listed, unless a join timed out.
Apart ==
  /\ \A t \in Ids : t[1] > gen => th[t].pc = "none"
  /\ ~forgot => \A t \in Ids : Alive(t) => t \in list
  /\ slow = 0 => ~forgot
  /\ slow = 0 => \A t \in Ids : Alive(t) =>
                   t[1] = gen /\ drv \in {"running", "stopping", "clearing"}
  /\ drv = "stopped" /\ clean => forgot \/ \A t \in Ids : ~Alive(t)
  /\ drv = "in" => gen < MaxGen

BlocksKept ==
  /\ \A j \in DOMAIN Points : Plausible(j, mem[Points[j].at])
  /\ \A j \in Reads : Len(last[j]) = Count(Points[j])

\* The cells only the program writes, all in one scan.
Pure == UNION {CellsOf(Points[j]) : j \in {j \in Writes : Sole(j)}}

ScansKept ==
  /\ DOMAIN queue \cap Pure = {}
  /\ \A c \in Pure : img[c] \in ProgramValues
  /\ \A c, d \in Pure : img[c] = img[d]
  /\ \A t \in Ids : th[t].pc = "fetch" => \A m \in DOMAIN th[t].raw :
       Sole(th[t].raw[m][1]) =>
         \A i \in 1 .. Len(th[t].raw[m][2]), c \in Pure : th[t].raw[m][2][i] = img[c]

AtCell(j, i) == Drained[Cell(Points[j], i - 1)]
Elements(j) == 1 .. Points[j].length

\* Some thread has an answer for the point that it has not yet written, or not whole.
Awaited(j) == \E t \in Ids : \E m \in DOMAIN th[t].got : th[t].got[m][1] = j
Underway(j) == \E t \in Ids : th[t].n > 0 /\ th[t].got[1][1] = j

FieldWhole ==
  \A j \in Reads : Points[j].at \in Field /\ Sole(j) /\ ~Underway(j) =>
     \A a, b \in Elements(j) : AtCell(j, a) = AtCell(j, b)

Mirrored ==
  \A j \in Reads : Mirror(j) => \A a \in Elements(j) : AtCell(j, a) \in ProgramValues

Landed ==
  slow = 0 => \A j \in Reads : Sole(j) /\ Supported(Points[j]) /\ ~Awaited(j) =>
     \A a \in Elements(j) : AtCell(j, a) = Converted(Points[j], last[j])[a]

Latest ==
  slow = 0 => \A t \in Ids : \A m \in DOMAIN th[t].got :
     th[t].got[m][2] = last[th[t].got[m][1]]

\* What a thread has written of the first answer is in the image.
Underwritten ==
  \A t \in Ids : th[t].n > 0 =>
     LET j == th[t].got[1][1]
     IN  Sole(j) /\ Supported(Points[j]) => \A a \in 1 .. th[t].n :
           AtCell(j, a) = Converted(Points[j], th[t].got[1][2])[a]

ImageKept == FieldWhole /\ Mirrored /\ Landed /\ Latest /\ Underwritten

MasterInv ==
  /\ PluginTypes /\ ImageTypes /\ OutsideTypes
  /\ ThreadsKept /\ LockKept /\ Apart /\ BlocksKept /\ ScansKept /\ ImageKept

-----------------------------------------------------------------------------
(* Points, cells and conversions *)

\* The assumption on the configuration, in the forms the proofs use.
LEMMA Config ==
  /\ DOMAIN Points = 1 .. Len(Points) /\ Len(Points) \in Nat
  /\ \A j \in DOMAIN Points : WellFormed(Points[j])
  /\ DOMAIN Points \subseteq Nat \ {0}
  /\ Reads \subseteq DOMAIN Points /\ Writes \subseteq DOMAIN Points
  /\ Reads \cap Writes = {}
  /\ \A j \in DOMAIN Points : j \in Reads \/ j \in Writes
<1>1. Points \in Seq(ToSet(Points)) /\ \A j \in DOMAIN Points : WellFormed(Points[j])
  BY MasterAssumption
<1>2. DOMAIN Points = 1 .. Len(Points) /\ Len(Points) \in Nat
  BY <1>1
<1>3. \A j \in DOMAIN Points : Points[j].fc \in {"read", "write"}
  BY <1>1 DEF WellFormed
<1> QED
  BY <1>1, <1>2, <1>3 DEF Reads, Writes

\* A set of numbers that is not empty has a smallest one.
LEMMA Smallest ==
  ASSUME NEW S, S \subseteq Nat, S # {}
  PROVE  Min(S) \in S
<1>1. IsWellFoundedOn(OpToRel(<, Nat), Nat)
  BY NatLessThanWellFounded
<1>2. PICK x \in S : \A y \in S : ~(<<y, x>> \in OpToRel(<, Nat))
  BY <1>1, WFMin
<1>3. ASSUME NEW y \in S PROVE x <= y
  <2>1. ~(y < x)
    BY <1>2 DEF OpToRel
  <2> QED
    BY <2>1
<1> QED
  BY <1>3 DEF Min

\* The next point is one of the kind, of the thread's, and after the one before.
LEMMA NextIs ==
  ASSUME NEW key, NEW cyc, NEW kind \in SUBSET DOMAIN Points, NEW k \in Nat
  PROVE  LET next == NextDue(key, cyc, kind, k)
         IN  next = 0 \/ (next \in kind /\ KeyAt(next) = key /\ next > k)
<1> DEFINE later == {j \in kind : KeyAt(j) = key /\ j > k /\ Due(j, cyc)}
<1>1. later \subseteq Nat
  BY Config
<1>2. later # {} => Min(later) \in later
  <2> HIDE DEF later
  <2> QED
    BY <1>1, Smallest
<1>3. NextDue(key, cyc, kind, k) = IF later = {} THEN 0 ELSE Min(later)
  BY DEF NextDue
<1> HIDE DEF later
<1>4. later # {} => NextDue(key, cyc, kind, k) \in later
  BY <1>2, <1>3
<1> QED
  BY <1>3, <1>4 DEF later

\* Two elements of a point have two cells.
LEMMA CellsDiffer ==
  ASSUME NEW p, WellFormed(p), NEW a \in Nat, NEW b \in Nat, Cell(p, a) = Cell(p, b)
  PROVE  a = b
<1>0. p.byte \in Nat /\ p.bit \in 0 .. 7
  BY DEF WellFormed
<1>1. CASE IsBit(p)
  <2>1. /\ p.byte + ((p.bit + a) \div 8) = p.byte + ((p.bit + b) \div 8)
        /\ (p.bit + a) % 8 = (p.bit + b) % 8
    BY <1>1, SMT DEF Cell
  <2> QED
    BY <1>0, <2>1, SMT
<1>2. CASE ~IsBit(p)
  BY <1>0, <1>2, SMT DEF Cell
<1> QED
  BY <1>1, <1>2

\* Every element of a point has one of its cells.
LEMMA ElementCells ==
  ASSUME NEW j \in DOMAIN Points
  PROVE  /\ Points[j].length \in Nat \ {0}
         /\ \A a \in Elements(j) : a - 1 \in Nat /\ a - 1 \in 0 .. Points[j].length - 1
         /\ \A a \in Elements(j) : Cell(Points[j], a - 1) \in CellsOf(Points[j])
         /\ CellsOf(Points[j]) \subseteq Cells
<1>1. Points[j].length \in Nat \ {0}
  BY Config DEF WellFormed
<1> QED
  BY <1>1 DEF Elements, CellsOf, Cells

\* An element of another point has a cell of its own, if one of the two is read and one
\* has its cells to itself.
LEMMA OthersCells ==
  ASSUME NEW i \in DOMAIN Points, NEW j \in DOMAIN Points, i # j,
         i \in Reads \/ j \in Reads, Sole(j),
         NEW a \in Elements(i), NEW b \in Elements(j)
  PROVE  Cell(Points[i], a - 1) # Cell(Points[j], b - 1)
BY ElementCells DEF Sole, Private

\* What a point asks for.
LEMMA Counts ==
  ASSUME NEW p, WellFormed(p)
  PROVE  /\ Count(p) \in Nat \ {0} /\ Registers(p) \in {1, 2, 4}
         /\ Count(p) = IF IsBit(p) THEN p.length ELSE p.length * Registers(p)
         /\ Zeros(p) \in Seq(Int) /\ Len(Zeros(p)) = Count(p)
         /\ \A a \in 1 .. Count(p) : Zeros(p)[a] = 0
<1>1. Registers(p) \in {1, 2, 4} /\ p.length \in Nat \ {0}
  BY DEF WellFormed, Registers
<1>2. Count(p) \in Nat \ {0}
  BY <1>1 DEF Count
<1>3. Count(p) = IF IsBit(p) THEN p.length ELSE p.length * Registers(p)
  BY DEF Count
<1> HIDE DEF Count
<1> QED
  BY <1>1, <1>2, <1>3 DEF Zeros

\* Where the registers of an element are.
LEMMA Places ==
  ASSUME NEW p, WellFormed(p), ~IsBit(p), NEW i \in 1 .. p.length, NEW r \in 1 .. Registers(p)
  PROVE  LET c == (i - 1) * Registers(p) + r
         IN  /\ c \in 1 .. Count(p)
             /\ Element(p, c) = i /\ Part(p, c) = r
<1>1. Registers(p) \in {1, 2, 4} /\ p.length \in Nat \ {0}
  BY Counts, SMT DEF WellFormed
<1>2. Count(p) = p.length * Registers(p)
  BY Counts, SMT
<1>3. CASE Registers(p) = 1
  BY <1>1, <1>2, <1>3, SMT DEF Element, Part
<1>4. CASE Registers(p) = 2
  BY <1>1, <1>2, <1>4, SMT DEF Element, Part
<1>5. CASE Registers(p) = 4
  BY <1>1, <1>2, <1>5, SMT DEF Element, Part
<1> QED
  BY <1>1, <1>3, <1>4, <1>5, SMT

\* Which element a register belongs to.
LEMMA PlaceOf ==
  ASSUME NEW p, WellFormed(p), ~IsBit(p), NEW c \in 1 .. Count(p)
  PROVE  Element(p, c) \in 1 .. p.length
<1>1. Registers(p) \in {1, 2, 4} /\ p.length \in Nat \ {0}
  BY Counts, SMT DEF WellFormed
<1>2. Count(p) = p.length * Registers(p)
  BY Counts, SMT
<1>3. CASE Registers(p) = 1
  BY <1>1, <1>2, <1>3, SMT DEF Element
<1>4. CASE Registers(p) = 2
  BY <1>1, <1>2, <1>4, SMT DEF Element
<1>5. CASE Registers(p) = 4
  BY <1>1, <1>2, <1>5, SMT DEF Element
<1> QED
  BY <1>1, <1>3, <1>4, <1>5, SMT

\* Division takes a number apart.
LEMMA Divided ==
  ASSUME NEW v \in Nat
  PROVE  /\ v \div Base \in Nat /\ v % Base \in Nat /\ v % Base < Base
         /\ v = (v % Base) + Base * (v \div Base)
         /\ v < Base => v % Base = v
         /\ v < Octet => v % Octet = v
<1>1. Base \in Nat /\ Base > 1 /\ Octet \in Nat /\ Octet > 0
  BY MasterAssumption, SMT
<1> QED
  BY <1>1, SMT

\* The registers of an element give the element back: the order is the same both ways.
LEMMA RoundTrip ==
  ASSUME NEW p, WellFormed(p), ~IsBit(p), NEW v \in Nat, Fits(p, v)
  PROVE  FromRegisters(p, [r \in 1 .. Registers(p) |-> Register(p, v, r)]) = v
<1> DEFINE regs == [r \in 1 .. Registers(p) |-> Register(p, v, r)]
<1> DEFINE second == v \div Base
<1> DEFINE third == second \div Base
<1> DEFINE fourth == third \div Base
<1>0. second \in Nat /\ third \in Nat /\ fourth \in Nat
  <2>1. second \in Nat
    BY Divided, SMT
  <2>2. third \in Nat
    <3> HIDE DEF second
    <3> QED
      BY <2>1, Divided, SMT
  <2> QED
    <3> HIDE DEF third
    <3> QED
      BY <2>1, <2>2, Divided, SMT
<1>1. /\ v = (v % Base) + Base * second
      /\ second = (second % Base) + Base * third
      /\ third = (third % Base) + Base * fourth
  <2>1. v = (v % Base) + Base * second
    BY Divided, SMT
  <2>2. second = (second % Base) + Base * third
    <3> HIDE DEF second
    <3> QED
      BY <1>0, Divided, SMT
  <2>3. third = (third % Base) + Base * fourth
    <3> HIDE DEF third
    <3> QED
      BY <1>0, Divided, SMT
  <2> QED
    BY <2>1, <2>2, <2>3, SMT
<1>2. CASE p.size = "B"
  <2>1. Registers(p) = 1 /\ v < Octet
    BY <1>2, SMT DEF Registers, Fits, IsBit
  <2>2. v % Octet = v
    BY <2>1, Divided, SMT
  <2>3. regs[1] = v % Octet
    BY <1>2, <2>1, SMT DEF Register
  <2>4. FromRegisters(p, regs) = regs[1] % Octet
    BY <1>2, SMT DEF FromRegisters
  <2> QED
    BY <2>2, <2>3, <2>4, SMT
<1>3. CASE p.size = "W"
  <2>1. Registers(p) = 1 /\ v < Base
    BY <1>3, SMT DEF Registers, Fits, IsBit
  <2>2. v % Base = v
    BY <2>1, Divided, SMT
  <2>3. regs[1] = v % Base
    BY <1>3, <2>1, SMT DEF Register
  <2>4. FromRegisters(p, regs) = regs[1]
    BY <1>3, SMT DEF FromRegisters
  <2> QED
    BY <2>2, <2>3, <2>4, SMT
<1>4. CASE p.size = "D"
  <2>1. Registers(p) = 2 /\ second < Base
    BY <1>4, SMT DEF Registers, Fits, IsBit
  <2>2. second % Base = second
    <3> HIDE DEF second
    <3> QED
      BY <1>0, <2>1, Divided, SMT
  <2>3. regs[1] = v % Base /\ regs[2] = second % Base
    BY <1>4, <2>1, SMT DEF Register
  <2>4. FromRegisters(p, regs) = regs[1] + Base * regs[2]
    BY <1>4, SMT DEF FromRegisters
  <2> HIDE DEF regs, second, third, fourth
  <2>5. FromRegisters(p, regs) = (v % Base) + Base * second
    BY <2>2, <2>3, <2>4, Zenon
  <2>6. FromRegisters(p, regs) = v
    BY <1>1, <2>5, Zenon
  <2> QED
    BY <2>6 DEF regs
<1>5. CASE p.size = "L"
  <2>1. Registers(p) = 4 /\ fourth < Base
    BY <1>5, SMT DEF Registers, Fits, IsBit
  <2>2. fourth % Base = fourth
    <3> HIDE DEF fourth
    <3> QED
      BY <1>0, <2>1, Divided, SMT
  <2>3. /\ regs[1] = v % Base /\ regs[2] = second % Base
        /\ regs[3] = third % Base /\ regs[4] = fourth % Base
    BY <1>5, <2>1, SMT DEF Register
  <2>4. FromRegisters(p, regs) =
          regs[1] + Base * (regs[2] + Base * (regs[3] + Base * regs[4]))
    BY <1>5, SMT DEF FromRegisters
  <2> HIDE DEF regs, second, third, fourth
  <2>5. third = regs[3] + Base * regs[4]
    BY <1>1, <2>2, <2>3, Zenon
  <2>6. second = regs[2] + Base * (regs[3] + Base * regs[4])
    BY <1>1, <2>3, <2>5, Zenon
  <2>7. v = FromRegisters(p, regs)
    BY <1>1, <2>3, <2>4, <2>6, Zenon
  <2> QED
    BY <2>7, Zenon DEF regs
<1> QED
  BY <1>2, <1>3, <1>4, <1>5, SMT DEF WellFormed, IsBit

\* What is written to a device is read back as it was.
LEMMA ReadAsWritten ==
  ASSUME NEW p, WellFormed(p), NEW raw \in [1 .. p.length -> Nat],
         \A i \in 1 .. p.length : Fits(p, raw[i])
  PROVE  \A i \in 1 .. p.length : Converted(p, ToModbus(p, raw))[i] = raw[i]
<1>1. CASE IsBit(p)
  BY <1>1, SMT DEF Converted, ToModbus
<1>2. CASE ~IsBit(p)
  <2> DEFINE sent == ToModbus(p, raw)
  <2> TAKE i \in 1 .. p.length
  <2> DEFINE mine == [r \in 1 .. Registers(p) |-> sent[(i - 1) * Registers(p) + r]]
  <2> DEFINE regs == [r \in 1 .. Registers(p) |-> Register(p, raw[i], r)]
  <2>1. \A r \in 1 .. Registers(p) : sent[(i - 1) * Registers(p) + r] = Register(p, raw[i], r)
    <3> TAKE r \in 1 .. Registers(p)
    <3> DEFINE c == (i - 1) * Registers(p) + r
    <3>1. c \in 1 .. Count(p) /\ Element(p, c) = i /\ Part(p, c) = r
      BY <1>2, Places, SMT
    <3> HIDE DEF c
    <3>2. sent[c] = Register(p, raw[Element(p, c)], Part(p, c))
      BY <1>2, <3>1, Zenon DEF ToModbus
    <3> QED
      BY <3>1, <3>2, Zenon DEF c
  <2>2. mine = regs
    BY <2>1, SMT
  <2>3. Converted(p, sent)[i] = FromRegisters(p, mine)
    BY <1>2, SMT DEF Converted
  <2>4. FromRegisters(p, regs) = raw[i]
    <3>1. raw[i] \in Nat /\ Fits(p, raw[i])
      OBVIOUS
    <3> QED
      BY <1>2, <3>1, RoundTrip, SMT
  <2> HIDE DEF mine, regs, sent
  <2> QED
    BY <2>2, <2>3, <2>4, Zenon DEF sent
<1> QED
  BY <1>1, <1>2, Zenon

\* Zero is zero on both sides.
LEMMA ZeroData ==
  ASSUME NEW p, WellFormed(p)
  PROVE  /\ \A a \in 1 .. p.length : Converted(p, Zeros(p))[a] = 0
         /\ 0 \in Sendable(p)
         /\ Zeros(p) = ToModbus(p, [i \in 1 .. p.length |-> 0])
<1>0. Base \in Nat /\ Base > 1 /\ Octet \in Nat /\ Octet > 0 /\ 0 \in ProgramValues
  BY MasterAssumption, SMT
<1>1. 0 \div Base = 0 /\ 0 % Base = 0 /\ 0 % Octet = 0
  BY <1>0, SMT
<1>2. 0 \in Sendable(p)
  BY <1>0, <1>1, SMT DEF Sendable, Fits
<1>3. CASE IsBit(p)
  <2>1. Count(p) = p.length
    BY <1>3, Counts, SMT
  <2>2. \A a \in 1 .. p.length : Converted(p, Zeros(p))[a] = 0
    BY <1>3, <2>1, Counts, SMT DEF Converted
  <2>3. Zeros(p) = ToModbus(p, [i \in 1 .. p.length |-> 0])
    BY <1>3, <2>1, Zenon DEF Zeros, ToModbus
  <2> QED
    BY <1>2, <2>2, <2>3
<1>4. CASE ~IsBit(p)
  <2>1. \A a \in 1 .. p.length : Converted(p, Zeros(p))[a] = 0
    <3> TAKE a \in 1 .. p.length
    <3> DEFINE mine == [r \in 1 .. Registers(p) |-> Zeros(p)[(a - 1) * Registers(p) + r]]
    <3>1. \A r \in 1 .. Registers(p) : Zeros(p)[(a - 1) * Registers(p) + r] = 0
      BY <1>4, Places, Counts, SMT
    <3>2. \A r \in 1 .. Registers(p) : mine[r] = 0
      BY <3>1, SMT
    <3>3. Converted(p, Zeros(p))[a] = FromRegisters(p, mine)
      BY <1>4, SMT DEF Converted
    <3> HIDE DEF mine
    <3>4. FromRegisters(p, mine) = 0
      BY <1>0, <1>1, <3>2, <1>4, SMT DEF FromRegisters, Registers, WellFormed, IsBit
    <3> QED
      BY <3>3, <3>4
  <2>2. \A c \in 1 .. Count(p) :
          Register(p, [i \in 1 .. p.length |-> 0][Element(p, c)], Part(p, c)) = 0
    <3> TAKE c \in 1 .. Count(p)
    <3>1. [x \in 1 .. p.length |-> 0][Element(p, c)] = 0
      BY <1>4, PlaceOf, Zenon
    <3>2. \A r : Register(p, 0, r) = 0
      BY <1>1, SMT DEF Register
    <3> QED
      BY <3>1, <3>2, Zenon
  <2>3. Zeros(p) = ToModbus(p, [i \in 1 .. p.length |-> 0])
    BY <1>4, <2>2, Zenon DEF Zeros, ToModbus
  <2> QED
    BY <1>2, <2>1, <2>3
<1> QED
  BY <1>3, <1>4, Zenon

\* What is sent has the length of the block, and what is read that of the point.
LEMMA SentData ==
  ASSUME NEW p, WellFormed(p), NEW raw \in [1 .. p.length -> Int]
  PROVE  ToModbus(p, raw) \in Seq(Int) /\ Len(ToModbus(p, raw)) = Count(p)
<1>1. CASE IsBit(p)
  <2>1. ToModbus(p, raw) \in [1 .. Count(p) -> Int] /\ Count(p) \in Nat
    BY <1>1, Counts, SMT DEF ToModbus
  <2> HIDE DEF ToModbus, Count
  <2> QED
    BY <2>1
<1>2. CASE ~IsBit(p)
  <2>0. Base \in Nat /\ Base > 1 /\ Octet \in Nat /\ Octet > 0
    BY MasterAssumption, SMT
  <2>1. \A r : \A v \in Int : Register(p, v, r) \in Int
    BY <2>0, SMT DEF Register
  <2>2. \A c \in 1 .. Count(p) : raw[Element(p, c)] \in Int
    BY <1>2, PlaceOf, Zenon
  <2>3. ToModbus(p, raw) \in [1 .. Count(p) -> Int] /\ Count(p) \in Nat
    BY <1>2, <2>1, <2>2, Counts, Zenon DEF ToModbus
  <2> HIDE DEF ToModbus, Count
  <2> QED
    BY <2>3
<1> QED
  BY <1>1, <1>2

\* What an answer of a device is converted to is made of integers.
LEMMA ConvertedInt ==
  ASSUME NEW p, WellFormed(p), NEW data \in Seq(Int), Len(data) = Count(p),
         NEW a \in 1 .. p.length
  PROVE  Converted(p, data)[a] \in Int
<1>0. Base \in Nat /\ Base > 1 /\ Octet \in Nat /\ Octet > 0
  BY MasterAssumption, SMT
<1>1. CASE IsBit(p)
  BY <1>1, Counts, SMT DEF Converted
<1>2. CASE ~IsBit(p)
  <2> DEFINE mine == [r \in 1 .. Registers(p) |-> data[(a - 1) * Registers(p) + r]]
  <2>1. \A r \in 1 .. Registers(p) : data[(a - 1) * Registers(p) + r] \in Int
    BY <1>2, Places, Counts, SMT
  <2>2. \A r \in 1 .. Registers(p) : mine[r] \in Int
    BY <2>1, SMT
  <2>3. Converted(p, data)[a] = FromRegisters(p, mine)
    BY <1>2, SMT DEF Converted
  <2> HIDE DEF mine
  <2>4. /\ \A x, y \in Int : x + Base * y \in Int
        /\ \A x \in Int : x % Octet \in Int
    BY <1>0, SMT
  <2>5. CASE p.size = "L"
    <3>1. mine[1] \in Int /\ mine[2] \in Int /\ mine[3] \in Int /\ mine[4] \in Int
      BY <2>2, <2>5, SMT DEF Registers
    <3>2. mine[3] + Base * mine[4] \in Int
      BY <2>4, <3>1, Zenon
    <3>3. mine[2] + Base * (mine[3] + Base * mine[4]) \in Int
      BY <2>4, <3>1, <3>2, Zenon
    <3>4. mine[1] + Base * (mine[2] + Base * (mine[3] + Base * mine[4])) \in Int
      BY <2>4, <3>1, <3>3, Zenon
    <3>5. FromRegisters(p, mine) = mine[1] + Base * (mine[2] + Base * (mine[3] + Base * mine[4]))
      BY <2>5, SMT DEF FromRegisters
    <3> QED
      BY <2>3, <3>4, <3>5, Zenon
  <2>6. CASE p.size = "D"
    <3>1. mine[1] \in Int /\ mine[2] \in Int
      BY <2>2, <2>6, SMT DEF Registers
    <3>2. mine[1] + Base * mine[2] \in Int
      BY <2>4, <3>1, Zenon
    <3>3. FromRegisters(p, mine) = mine[1] + Base * mine[2]
      BY <2>6, SMT DEF FromRegisters
    <3> QED
      BY <2>3, <3>2, <3>3, Zenon
  <2>7. CASE p.size \in {"B", "W"}
    <3>1. mine[1] \in Int
      BY <2>2, <2>7, SMT DEF Registers
    <3>2. mine[1] % Octet \in Int
      BY <2>4, <3>1, Zenon
    <3>3. FromRegisters(p, mine) = mine[1] % Octet \/ FromRegisters(p, mine) = mine[1]
      BY <2>7, SMT DEF FromRegisters
    <3> QED
      BY <2>3, <3>1, <3>2, <3>3, Zenon
  <2>8. p.size \in {"B", "W", "D", "L"}
    BY <1>2 DEF WellFormed, IsBit
  <2> QED
    BY <2>5, <2>6, <2>7, <2>8, Zenon
<1> QED
  BY <1>1, <1>2

-----------------------------------------------------------------------------
(* What a block can hold *)

\* The zeros that a failed read is filled with could have come from the device.
LEMMA PlausibleZero ==
  ASSUME NEW j \in DOMAIN Points
  PROVE  Plausible(j, Zeros(Points[j]))
<1>1. WellFormed(Points[j])
  BY Config
<1> DEFINE none == [i \in 1 .. Points[j].length |-> 0]
<1>2. none \in [1 .. Points[j].length -> Sendable(Points[j])]
  BY <1>1, ZeroData
<1>3. Zeros(Points[j]) = ToModbus(Points[j], none)
  BY <1>1, ZeroData
<1> HIDE DEF none
<1>4. /\ Zeros(Points[j]) \in Seq(Int) /\ Len(Zeros(Points[j])) = Count(Points[j])
      /\ \A a \in 1 .. Count(Points[j]) : Zeros(Points[j])[a] = 0
  BY <1>1, Counts
<1> HIDE DEF Count, Zeros, ToModbus
<1> QED
  BY <1>2, <1>3, <1>4 DEF Plausible

\* Bits that the field changes together are read together.
LEMMA FieldData ==
  ASSUME NEW j \in DOMAIN Points, NEW data, Plausible(j, data), Points[j].at \in Field,
         NEW a \in Elements(j), NEW b \in Elements(j)
  PROVE  Converted(Points[j], data)[a] = Converted(Points[j], data)[b]
<1>1. IsBit(Points[j]) /\ WellFormed(Points[j])
  BY Config, MasterAssumption
<1>2. Count(Points[j]) = Points[j].length
  BY <1>1, Counts, SMT
<1>3. data[a] = data[b]
  BY <1>2 DEF Plausible, Elements
<1>4. Converted(Points[j], data)[a] = data[a] /\ Converted(Points[j], data)[b] = data[b]
  BY <1>1, Zenon DEF Converted, Elements
<1> QED
  BY <1>3, <1>4

\* What comes back from a device is what the program sent.
LEMMA MirrorData ==
  ASSUME NEW j \in DOMAIN Points, NEW data, Plausible(j, data), Mirror(j), NEW a \in Elements(j)
  PROVE  Converted(Points[j], data)[a] \in ProgramValues
<1>1. WellFormed(Points[j])
  BY Config
<1>2. PICK raw \in [1 .. Points[j].length -> Sendable(Points[j])] :
        data = ToModbus(Points[j], raw)
  BY DEF Plausible
<1>3. raw \in [1 .. Points[j].length -> Nat]
      /\ \A i \in 1 .. Points[j].length : Fits(Points[j], raw[i]) /\ raw[i] \in ProgramValues
  <2>1. Sendable(Points[j]) \subseteq Nat
    BY MasterAssumption DEF Sendable
  <2> QED
    BY <2>1 DEF Sendable
<1>4. \A i \in 1 .. Points[j].length :
        Converted(Points[j], ToModbus(Points[j], raw))[i] = raw[i]
  BY <1>1, <1>3, ReadAsWritten
<1> QED
  BY <1>2, <1>3, <1>4 DEF Elements

\* The points of a block agree on what it can hold.
LEMMA SameBlock ==
  ASSUME NEW i \in DOMAIN Points, NEW j \in DOMAIN Points, Points[i].at = Points[j].at,
         NEW data, Plausible(i, data)
  PROVE  Plausible(j, data)
<1>1. Points[i].size = Points[j].size /\ Points[i].length = Points[j].length
  BY MasterAssumption
<1>2. IsBit(Points[i]) <=> IsBit(Points[j])
  BY <1>1 DEF IsBit
<1>3. Registers(Points[i]) = Registers(Points[j])
  BY <1>1 DEF Registers
<1>4. Count(Points[i]) = Count(Points[j])
  BY <1>1, <1>2, <1>3 DEF Count
<1>5. \A v : Fits(Points[i], v) <=> Fits(Points[j], v)
  BY <1>1, <1>2, Zenon DEF Fits
<1>6. Sendable(Points[i]) = Sendable(Points[j])
  BY <1>5 DEF Sendable
<1>7. \A v, r : Register(Points[i], v, r) = Register(Points[j], v, r)
  BY <1>1, SMT DEF Register
<1>8. \A raw : ToModbus(Points[i], raw) = ToModbus(Points[j], raw)
  <2>1. \A c : Element(Points[i], c) = Element(Points[j], c)
    BY <1>3 DEF Element
  <2>2. \A c : Part(Points[i], c) = Part(Points[j], c)
    BY <1>3 DEF Part
  <2> QED
    BY <1>2, <1>4, <1>7, <2>1, <2>2, Zenon DEF ToModbus
<1>9. Mirror(i) <=> Mirror(j)
  BY Zenon DEF Mirror
<1> HIDE DEF Count, Mirror, ToModbus, Sendable
<1> QED
  BY <1>1, <1>4, <1>6, <1>8, <1>9, Zenon DEF Plausible

-----------------------------------------------------------------------------
(* What steps have in common *)

\* One thread changes.
LEMMA ThreadSteps ==
  ASSUME ThreadsKept, NEW t \in Ids, NEW r \in ThreadRec,
         Sane(KeyOf(t), r), GotSane(KeyOf(t), r), RawSane(r), th' = [th EXCEPT ![t] = r]
  PROVE  ThreadsKept'
BY DEF ThreadsKept

\* The holder of the lock is the thread that puts or fetches.
LEMMA Locks ==
  ASSUME ThreadsKept, LockKept, NEW t \in Ids, NEW r, th' = [th EXCEPT ![t] = r],
         \/ lock' = lock /\ (r.pc \in {"put", "fetch"} <=> th[t].pc \in {"put", "fetch"})
         \/ lock = NoOne /\ lock' = t /\ r.pc \in {"put", "fetch"}
         \/ th[t].pc \in {"put", "fetch"} /\ lock' = NoOne /\ r.pc \notin {"put", "fetch"}
  PROVE  LockKept'
<1>1. ASSUME NEW s \in Ids PROVE s # NoOne
  <2>1. s[1] \in 1 .. MaxGen
    BY DEF Ids
  <2>2. NoOne[1] = 0
    BY DEF NoOne
  <2> QED
    BY <2>1, <2>2
<1>2. \A s \in Ids : th'[s] = IF s = t THEN r ELSE th[s]
  BY DEF ThreadsKept
<1> QED
  BY <1>1, <1>2 DEF LockKept

\* No thread comes to life but in start_loop.
LEMMA Lives ==
  ASSUME ThreadsKept, Apart, NEW t \in Ids, NEW r, th' = [th EXCEPT ![t] = r],
         th[t].pc # "none", r.pc \notin {"none", "ended"} => Alive(t), UNCHANGED plugin
  PROVE  Apart'
<1>1. \A s \in Ids : th'[s] = IF s = t THEN r ELSE th[s]
  BY DEF ThreadsKept
<1>2. \A s \in Ids : Alive(s)' => Alive(s)
  BY <1>1 DEF Alive
<1> QED
  BY <1>1, <1>2 DEF Apart

\* Nothing that counts for the image changes.
LEMMA ImageStays ==
  ASSUME ImageKept, Drained' = Drained, last' = last, slow' = 0 => slow = 0,
         \A s \in Ids : th'[s].got = th[s].got /\ th'[s].n = th[s].n
  PROVE  ImageKept'
<1>1. \A j, i : AtCell(j, i)' = AtCell(j, i)
  BY DEF AtCell
<1>2. \A j : Awaited(j)' <=> Awaited(j)
  BY DEF Awaited
<1>3. \A j : Underway(j)' <=> Underway(j)
  BY DEF Underway
<1>4. FieldWhole'
  BY <1>1, <1>3 DEF FieldWhole, ImageKept
<1>5. Mirrored'
  BY <1>1 DEF Mirrored, ImageKept
<1>6. Landed'
  BY <1>1, <1>2 DEF Landed, ImageKept
<1>7. Latest'
  BY DEF Latest, ImageKept
<1>8. Underwritten'
  BY <1>1 DEF Underwritten, ImageKept
<1> QED
  BY <1>4, <1>5, <1>6, <1>7, <1>8 DEF ImageKept

\* Nothing that counts for the outputs changes.
LEMMA ScansStay ==
  ASSUME ScansKept, \A c \in Pure : img'[c] = img[c], DOMAIN queue' \cap Pure = {},
         \A s \in Ids : th'[s].pc = "fetch" =>
            (th[s].pc = "fetch" /\ th'[s].raw = th[s].raw) \/ th'[s].raw = <<>>
  PROVE  ScansKept'
<1>1. \A c \in Pure : img'[c] \in ProgramValues
  BY DEF ScansKept
<1>2. \A c, d \in Pure : img'[c] = img'[d]
  BY DEF ScansKept
<1>3. ASSUME NEW s \in Ids, th'[s].pc = "fetch", NEW m \in DOMAIN th'[s].raw,
             Sole(th'[s].raw[m][1])
      PROVE  \A i \in 1 .. Len(th'[s].raw[m][2]), c \in Pure : th'[s].raw[m][2][i] = img'[c]
  <2>1. th[s].pc = "fetch" /\ th'[s].raw = th[s].raw
    BY <1>3
  <2> QED
    BY <1>3, <2>1 DEF ScansKept
<1> QED
  BY <1>1, <1>2, <1>3 DEF ScansKept

\* image_lock drains the journal: what the image shows stays as it is.
LEMMA Taken ==
  ASSUME ImageTypes, ScansKept, img' = Drained, queue' = NoWrites
  PROVE  /\ ImageTypes' /\ Drained' = Drained
         /\ \A c \in Pure : img'[c] = img[c]
         /\ DOMAIN queue' \cap Pure = {}
<1>1. DOMAIN queue' = {}
  BY DEF NoWrites
<1>2. \A c \in Cells : Drained[c] \in Int
  BY DEF ImageTypes, Drained
<1>3. Drained \in [Cells -> Int]
  BY <1>2 DEF Drained
<1>4. Pure \subseteq Cells
  BY Config DEF Pure, Cells
<1> QED
  BY <1>1, <1>3, <1>4 DEF ImageTypes, ScansKept, Drained

\* The image is left alone.
LEMMA SameImage ==
  ASSUME ImageTypes, ScansKept, img' = img, queue' = queue
  PROVE  /\ ImageTypes' /\ Drained' = Drained
         /\ \A c \in Pure : img'[c] = img[c]
         /\ DOMAIN queue' \cap Pure = {}
BY DEF ImageTypes, ScansKept, Drained

\* The devices and what was read of them are left alone.
LEMMA SameBlocks ==
  ASSUME BlocksKept, OutsideTypes, mem' = mem, last' = last, down' \in SUBSET Keys,
         faults' \in 0 .. MaxFaults
  PROVE  BlocksKept' /\ OutsideTypes'
BY DEF BlocksKept, OutsideTypes

\* A thread with nothing read and nothing fetched.
LEMMA EmptyHands ==
  ASSUME NEW key, NEW r, r.got = <<>>, r.raw = <<>>
  PROVE  GotSane(key, r) /\ RawSane(r)
BY DEF GotSane, RawSane

\* A thread that keeps what it has read and fetched.
LEMMA SameHands ==
  ASSUME NEW key, NEW s, NEW r, r.got = s.got, r.raw = s.raw, GotSane(key, s), RawSane(s),
         r.pc # "read" \/ (s.pc = "read" /\ s.k = r.k)
  PROVE  GotSane(key, r) /\ RawSane(r)
<1>1. GotSane(key, r)
  BY DEF GotSane
<1>2. RawSane(r)
  BY DEF RawSane
<1> QED
  BY <1>1, <1>2

\* A step of one thread that leaves what the image shows, and the thread's reads, alone.
LEMMA Handled ==
  ASSUME MasterInv, NEW t \in Ids, NEW r \in ThreadRec,
         Sane(KeyOf(t), r), GotSane(KeyOf(t), r), RawSane(r), th' = [th EXCEPT ![t] = r],
         r.got = th[t].got, r.n = th[t].n, Alive(t),
         \/ lock' = lock /\ (r.pc \in {"put", "fetch"} <=> th[t].pc \in {"put", "fetch"})
         \/ lock = NoOne /\ lock' = t /\ r.pc \in {"put", "fetch"}
         \/ th[t].pc \in {"put", "fetch"} /\ lock' = NoOne /\ r.pc \notin {"put", "fetch"},
         ImageTypes', Drained' = Drained, ScansKept',
         OutsideTypes', BlocksKept', UNCHANGED <<plugin, last>>
  PROVE  MasterInv'
<1>0. \A s \in Ids : th'[s] = IF s = t THEN r ELSE th[s]
  BY DEF ThreadsKept, MasterInv
<1>1. ThreadsKept'
  BY ThreadSteps DEF MasterInv
<1>2. LockKept'
  BY Locks DEF MasterInv
<1>3. Apart'
  BY Lives DEF MasterInv, Alive
<1>4. ImageKept'
  BY <1>0, ImageStays DEF MasterInv
<1>5. PluginTypes'
  BY DEF MasterInv, PluginTypes
<1> QED
  BY <1>1, <1>2, <1>3, <1>4, <1>5 DEF MasterInv

\* A step of one thread that leaves the image, the devices and what it holds alone.
LEMMA Quiet ==
  ASSUME MasterInv, NEW t \in Ids, NEW r \in ThreadRec,
         Sane(KeyOf(t), r), GotSane(KeyOf(t), r), RawSane(r), th' = [th EXCEPT ![t] = r],
         r.got = th[t].got, r.n = th[t].n,
         r.pc # "fetch", r.pc = "put" <=> th[t].pc \in {"put", "fetch"},
         Alive(t), UNCHANGED <<plugin, outside, image, last>>
  PROVE  MasterInv'
<1>0. \A s \in Ids : th'[s] = IF s = t THEN r ELSE th[s]
  BY DEF ThreadsKept, MasterInv
<1>1. ImageTypes' /\ Drained' = Drained
      /\ (\A c \in Pure : img'[c] = img[c]) /\ DOMAIN queue' \cap Pure = {}
  BY SameImage DEF MasterInv
<1>2. ScansKept'
  BY <1>0, <1>1, ScansStay DEF MasterInv
<1>3. OutsideTypes' /\ BlocksKept'
  BY DEF MasterInv, OutsideTypes, BlocksKept
<1> QED
  BY <1>1, <1>2, <1>3, Handled

\* What a thread has in its hands at its step.
LEMMA Hands ==
  ASSUME MasterInv, NEW t \in Ids
  PROVE  /\ th[t] \in ThreadRec /\ KeyOf(t) \in Keys
         /\ Sane(KeyOf(t), th[t]) /\ GotSane(KeyOf(t), th[t]) /\ RawSane(th[t])
         /\ th[t].pc \notin {"read", "put"} => th[t].got = <<>>
         /\ th[t].pc # "put" => th[t].n = 0
         /\ th[t].pc \notin {"fetch", "send"} => th[t].raw = <<>>
<1>1. th[t] \in ThreadRec /\ Sane(KeyOf(t), th[t]) /\ GotSane(KeyOf(t), th[t]) /\ RawSane(th[t])
  BY DEF MasterInv, ThreadsKept
<1>2. KeyOf(t) \in Keys
  BY DEF Ids, KeyOf
<1> QED
  BY <1>1, <1>2 DEF ThreadRec, Sane

\* The next point of a pass.
LEMMA NextRead ==
  ASSUME NEW key, NEW cyc, NEW k \in 0 .. Len(Points)
  PROVE  LET next == NextDue(key, cyc, Reads, k)
         IN  /\ next \in 0 .. Len(Points)
             /\ next = 0 \/ (next \in Reads /\ KeyAt(next) = key /\ next > k)
<1>1. Reads \in SUBSET DOMAIN Points /\ k \in Nat
  BY Config
<1>2. LET next == NextDue(key, cyc, Reads, k)
      IN  next = 0 \/ (next \in Reads /\ KeyAt(next) = key /\ next > k)
  BY <1>1, NextIs
<1> QED
  BY <1>2, Config

\* The next output to send is one of the configured writes, or there is none.
LEMMA NextWrite ==
  ASSUME NEW key, NEW cyc, NEW k \in 0 .. Len(Points)
  PROVE  LET next == NextDue(key, cyc, Writes, k)
         IN  next \in 0 .. Len(Points) /\ (next = 0 \/ next \in Writes)
<1>1. Writes \in SUBSET DOMAIN Points /\ k \in Nat
  BY Config
<1>2. LET next == NextDue(key, cyc, Writes, k)
      IN  next = 0 \/ (next \in Writes /\ KeyAt(next) = key /\ next > k)
  BY <1>1, NextIs
<1> QED
  BY <1>2, Config

\* A pass of reads begins.
LEMMA PassBegins ==
  ASSUME MasterInv, NEW t \in Ids, th[t].pc \in {"connect", "sleep"}, NEW cyc \in 0 .. Period - 1
  PROVE  LET r == AtReads(t, cyc)
         IN  /\ r \in ThreadRec /\ Sane(KeyOf(t), r) /\ r.pc = "read"
             /\ r.got = <<>> /\ r.raw = <<>> /\ r.n = 0
<1> DEFINE k == NextDue(KeyOf(t), cyc, Reads, 0)
<1>1. th[t] \in ThreadRec /\ th[t].got = <<>> /\ th[t].raw = <<>> /\ th[t].n = 0
  BY Hands
<1>2. k \in 0 .. Len(Points) /\ (k = 0 \/ (k \in Reads /\ KeyAt(k) = KeyOf(t)))
  <2>1. 0 \in 0 .. Len(Points)
    BY Config
  <2> QED
    BY <2>1, NextRead
<1>3. AtReads(t, cyc) = [th[t] EXCEPT !.pc = "read", !.cyc = cyc, !.k = k]
  BY DEF AtReads
<1> HIDE DEF k
<1> DEFINE r == [th[t] EXCEPT !.pc = "read", !.cyc = cyc, !.k = k]
<1>4. /\ r \in ThreadRec /\ r.pc = "read" /\ r.k = k
      /\ r.got = <<>> /\ r.raw = <<>> /\ r.n = 0
  BY <1>1, <1>2 DEF ThreadRec
<1> HIDE DEF r
<1>5. Sane(KeyOf(t), r)
  BY <1>2, <1>4 DEF Sane
<1> QED
  BY <1>3, <1>4, <1>5 DEF r

\* A thread that is not there yet, begins or is over.
LEMMA BareSane ==
  ASSUME NEW pc \in {"none", "connect", "ended"}, NEW stop \in BOOLEAN, NEW cyc \in 0 .. Period - 1
  PROVE  LET r == Bare(pc, stop, cyc)
         IN  /\ r \in ThreadRec /\ r.pc = pc /\ r.got = <<>> /\ r.raw = <<>> /\ r.n = 0
             /\ \A key : Sane(key, r) /\ GotSane(key, r) /\ RawSane(r)
<1> DEFINE r == Bare(pc, stop, cyc)
<1>1. 0 \in 0 .. Len(Points) /\ 0 \in Nat /\ FALSE \in BOOLEAN
  BY Config
<1>2. <<>> \in Seq(Reads \X Seq(Int)) /\ <<>> \in Seq(Writes \X Seq(Int))
  OBVIOUS
<1>3. r \in ThreadRec
  BY <1>1, <1>2, Zenon DEF ThreadRec, Bare
<1>4. r.pc = pc /\ r.got = <<>> /\ r.raw = <<>> /\ r.n = 0
  BY DEF Bare
<1> HIDE DEF r
<1>5. \A key : Sane(key, r)
  BY <1>4 DEF Sane
<1>6. \A key : GotSane(key, r) /\ RawSane(r)
  BY <1>4, EmptyHands
<1> QED
  BY <1>3, <1>4, <1>5, <1>6 DEF r

-----------------------------------------------------------------------------
(* The steps of a thread *)

\* A thread that reaches its endpoint begins a pass of reads.
LEMMA ConnectStep == ASSUME MasterInv, NEW t \in Ids, Connect(t) PROVE MasterInv'
<1> DEFINE s == AtReads(t, th[t].cyc)
<1> DEFINE r == [s EXCEPT !.flag = TRUE, !.works = TRUE]
<1>1. /\ th[t].pc = "connect" /\ th' = [th EXCEPT ![t] = r]
      /\ UNCHANGED <<plugin, outside, image, last>>
  BY DEF Connect, Becomes
<1>2. th[t].cyc \in 0 .. Period - 1 /\ th[t].got = <<>> /\ th[t].n = 0
  BY <1>1, Hands DEF ThreadRec
<1>3. /\ s \in ThreadRec /\ Sane(KeyOf(t), s) /\ s.pc = "read"
      /\ s.got = <<>> /\ s.raw = <<>> /\ s.n = 0
  BY <1>1, <1>2, PassBegins
<1> HIDE DEF s
<1>4. /\ r \in ThreadRec /\ r.pc = s.pc /\ r.k = s.k
      /\ r.got = <<>> /\ r.raw = <<>> /\ r.n = 0
  BY <1>3 DEF ThreadRec
<1> HIDE DEF r
<1>5. Sane(KeyOf(t), r)
  BY <1>3, <1>4 DEF Sane
<1>6. GotSane(KeyOf(t), r) /\ RawSane(r)
  BY <1>4, EmptyHands
<1> QED
  BY <1>1, <1>2, <1>3, <1>4, <1>5, <1>6, Quiet DEF Alive

\* A thread that is stopped while it tries to connect ends.
LEMMA ConnectStoppedStep == ASSUME MasterInv, NEW t \in Ids, ConnectStopped(t) PROVE MasterInv'
<1> DEFINE r == Bare("ended", TRUE, 0)
<1>1. /\ th[t].pc = "connect" /\ th' = [th EXCEPT ![t] = r]
      /\ UNCHANGED <<plugin, outside, image, last>>
  BY DEF ConnectStopped, Becomes
<1>2. th[t].got = <<>> /\ th[t].n = 0
  BY <1>1, Hands
<1>4. 0 \in 0 .. Period - 1
  BY MasterAssumption
<1>5. /\ r \in ThreadRec /\ r.pc = "ended" /\ r.got = <<>> /\ r.raw = <<>> /\ r.n = 0
      /\ \A key : Sane(key, r) /\ GotSane(key, r) /\ RawSane(r)
  BY <1>4, BareSane
<1> HIDE DEF r
<1> QED
  BY <1>1, <1>2, <1>5, Quiet DEF Alive

\* A pass that read nothing goes on without the lock.
LEMMA NoBatchStep == ASSUME MasterInv, NEW t \in Ids, NoBatch(t) PROVE MasterInv'
<1> DEFINE r == [th[t] EXCEPT !.pc = "gather"]
<1>1. /\ th[t].pc = "read" /\ th[t].got = <<>> /\ th' = [th EXCEPT ![t] = r]
      /\ UNCHANGED <<plugin, outside, image, last>>
  BY DEF NoBatch, ReadsOver, Becomes
<1>2. th[t] \in ThreadRec /\ th[t].n = 0 /\ th[t].raw = <<>>
  BY <1>1, Hands
<1>3. r \in ThreadRec /\ r.pc = "gather" /\ r.got = <<>> /\ r.n = 0 /\ r.raw = <<>>
  BY <1>1, <1>2 DEF ThreadRec
<1> HIDE DEF r
<1>4. Sane(KeyOf(t), r)
  BY <1>3 DEF Sane
<1>5. GotSane(KeyOf(t), r) /\ RawSane(r)
  BY <1>3, EmptyHands
<1> QED
  BY <1>1, <1>2, <1>3, <1>4, <1>5, Quiet DEF Alive

\* A cycle in which no write is due is over.
LEMMA NothingToWriteStep == ASSUME MasterInv, NEW t \in Ids, NothingToWrite(t) PROVE MasterInv'
<1> DEFINE r == [th[t] EXCEPT !.pc = "sleep"]
<1>1. /\ th[t].pc = "gather" /\ th' = [th EXCEPT ![t] = r]
      /\ UNCHANGED <<plugin, outside, image, last>>
  BY DEF NothingToWrite, Becomes
<1>2. th[t] \in ThreadRec /\ th[t].n = 0 /\ th[t].got = <<>> /\ th[t].raw = <<>>
  BY <1>1, Hands
<1>3. r \in ThreadRec /\ r.pc = "sleep" /\ r.got = <<>> /\ r.n = 0 /\ r.raw = <<>>
  BY <1>1, <1>2 DEF ThreadRec
<1> HIDE DEF r
<1>4. Sane(KeyOf(t), r)
  BY <1>3 DEF Sane
<1>5. GotSane(KeyOf(t), r) /\ RawSane(r)
  BY <1>3, EmptyHands
<1> QED
  BY <1>1, <1>2, <1>3, <1>4, <1>5, Quiet DEF Alive

\* What is left to send after a stop is dropped.
LEMMA WritesOverStep == ASSUME MasterInv, NEW t \in Ids, WritesOver(t) PROVE MasterInv'
<1> DEFINE r == [th[t] EXCEPT !.pc = "sleep", !.raw = <<>>]
<1>1. /\ th[t].pc = "send" /\ th' = [th EXCEPT ![t] = r]
      /\ UNCHANGED <<plugin, outside, image, last>>
  BY DEF WritesOver, Becomes
<1>2. th[t] \in ThreadRec /\ th[t].n = 0 /\ th[t].got = <<>>
  BY <1>1, Hands
<1>3. r \in ThreadRec /\ r.pc = "sleep" /\ r.got = <<>> /\ r.n = 0 /\ r.raw = <<>>
  <2>1. <<>> \in Seq(Writes \X Seq(Int))
    OBVIOUS
  <2> QED
    BY <1>2, <2>1 DEF ThreadRec
<1> HIDE DEF r
<1>4. Sane(KeyOf(t), r)
  BY <1>3 DEF Sane
<1>5. GotSane(KeyOf(t), r) /\ RawSane(r)
  BY <1>3, EmptyHands
<1> QED
  BY <1>1, <1>2, <1>3, <1>4, <1>5, Quiet DEF Alive

\* The end of a cycle: the thread ends, goes on or connects again.
LEMMA SleepStep == ASSUME MasterInv, NEW t \in Ids, Sleep(t) PROVE MasterInv'
<1> DEFINE cyc == (th[t].cyc + 1) % Period
<1>1. th[t].pc = "sleep" /\ UNCHANGED <<plugin, outside, image, last>>
  BY DEF Sleep
<1>2. /\ th[t] \in ThreadRec /\ th[t].n = 0 /\ th[t].got = <<>> /\ th[t].raw = <<>>
      /\ th[t].cyc \in 0 .. Period - 1
  BY <1>1, Hands DEF ThreadRec
<1>3. cyc \in 0 .. Period - 1 /\ 0 \in 0 .. Period - 1
  <2>1. Period \in Nat \ {0}
    BY MasterAssumption
  <2> QED
    BY <1>2, <2>1, SMT
<1>4. \/ th' = [th EXCEPT ![t] = Bare("ended", TRUE, 0)]
      \/ th' = [th EXCEPT ![t] = AtReads(t, cyc)]
      \/ th' = [th EXCEPT ![t] = Bare("connect", FALSE, cyc)]
  BY Zenon DEF Sleep, Becomes
<1> HIDE DEF cyc
<1>5. ASSUME NEW r \in ThreadRec, r.pc \in {"ended", "read", "connect"}, r.got = <<>>,
             r.raw = <<>>, r.n = 0, Sane(KeyOf(t), r), th' = [th EXCEPT ![t] = r]
      PROVE  MasterInv'
  <2>1. GotSane(KeyOf(t), r) /\ RawSane(r)
    BY <1>5, EmptyHands
  <2> QED
    BY <1>1, <1>2, <1>5, <2>1, Quiet DEF Alive
<1>6. CASE th' = [th EXCEPT ![t] = Bare("ended", TRUE, 0)]
  <2> DEFINE r == Bare("ended", TRUE, 0)
  <2>2. /\ r \in ThreadRec /\ r.pc = "ended" /\ r.got = <<>> /\ r.raw = <<>> /\ r.n = 0
        /\ \A key : Sane(key, r)
    BY <1>3, BareSane
  <2> HIDE DEF r
  <2> QED
    BY <1>5, <1>6, <2>2 DEF r
<1>7. CASE th' = [th EXCEPT ![t] = AtReads(t, cyc)]
  <2> DEFINE r == AtReads(t, cyc)
  <2>1. /\ r \in ThreadRec /\ Sane(KeyOf(t), r) /\ r.pc = "read"
        /\ r.got = <<>> /\ r.raw = <<>> /\ r.n = 0
    BY <1>1, <1>3, PassBegins
  <2> HIDE DEF r
  <2> QED
    BY <1>5, <1>7, <2>1 DEF r
<1>8. CASE th' = [th EXCEPT ![t] = Bare("connect", FALSE, cyc)]
  <2> DEFINE r == Bare("connect", FALSE, cyc)
  <2>2. /\ r \in ThreadRec /\ r.pc = "connect" /\ r.got = <<>> /\ r.raw = <<>> /\ r.n = 0
        /\ \A key : Sane(key, r)
    BY <1>3, BareSane
  <2> HIDE DEF r
  <2> QED
    BY <1>5, <1>8, <2>2 DEF r
<1> QED
  BY <1>4, <1>6, <1>7, <1>8

\* Taking the image lock for a batch drains what was queued and keeps the invariant.
LEMMA StartBatchStep == ASSUME MasterInv, NEW t \in Ids, StartBatch(t) PROVE MasterInv'
<1> DEFINE r == [th[t] EXCEPT !.pc = "put"]
<1>1. /\ th[t].pc = "read" /\ th[t].got # <<>> /\ th' = [th EXCEPT ![t] = r]
      /\ UNCHANGED <<plugin, outside, last>>
      /\ lock = NoOne /\ lock' = t /\ img' = Drained /\ queue' = NoWrites
  BY DEF StartBatch, ReadsOver, TakeLock, HeldBy, Becomes
<1>2. th[t] \in ThreadRec /\ th[t].n = 0 /\ th[t].raw = <<>>
  BY <1>1, Hands
<1>3. /\ r \in ThreadRec /\ r.pc = "put" /\ r.got = th[t].got /\ r.n = th[t].n
      /\ r.raw = th[t].raw
  BY <1>2 DEF ThreadRec
<1> HIDE DEF r
<1>4. Sane(KeyOf(t), r)
  BY <1>1, <1>2, <1>3 DEF Sane
<1>5. GotSane(KeyOf(t), r) /\ RawSane(r)
  BY <1>3, Hands, SameHands
<1>6. \A s \in Ids : th'[s] = IF s = t THEN r ELSE th[s]
  BY <1>1 DEF ThreadsKept, MasterInv
<1>7. ImageTypes' /\ Drained' = Drained
      /\ (\A c \in Pure : img'[c] = img[c]) /\ DOMAIN queue' \cap Pure = {}
  BY <1>1, Taken DEF MasterInv
<1>8. ScansKept'
  BY <1>3, <1>6, <1>7, ScansStay DEF MasterInv
<1>9. OutsideTypes' /\ BlocksKept'
  BY <1>1 DEF MasterInv, OutsideTypes, BlocksKept
<1> QED
  BY <1>1, <1>3, <1>4, <1>5, <1>7, <1>8, <1>9, Handled DEF Alive

\* A thread gives the lock back when all its answers are in the journal.
LEMMA EndBatchStep == ASSUME MasterInv, NEW t \in Ids, EndBatch(t) PROVE MasterInv'
<1> DEFINE r == [th[t] EXCEPT !.pc = "gather"]
<1>1. /\ th[t].pc = "put" /\ th[t].got = <<>> /\ th' = [th EXCEPT ![t] = r]
      /\ UNCHANGED <<plugin, outside, last>>
      /\ lock' = NoOne /\ img' = img /\ queue' = queue
  BY DEF EndBatch, Becomes
<1>2. th[t] \in ThreadRec /\ th[t].n = 0 /\ th[t].raw = <<>>
  BY <1>1, Hands DEF Sane, ThreadRec
<1>3. r \in ThreadRec /\ r.pc = "gather" /\ r.got = <<>> /\ r.n = 0 /\ r.raw = <<>>
  BY <1>1, <1>2 DEF ThreadRec
<1> HIDE DEF r
<1>4. Sane(KeyOf(t), r)
  BY <1>3 DEF Sane
<1>5. GotSane(KeyOf(t), r) /\ RawSane(r)
  BY <1>3, EmptyHands
<1>6. \A s \in Ids : th'[s] = IF s = t THEN r ELSE th[s]
  BY <1>1 DEF ThreadsKept, MasterInv
<1>7. ImageTypes' /\ Drained' = Drained
      /\ (\A c \in Pure : img'[c] = img[c]) /\ DOMAIN queue' \cap Pure = {}
  BY <1>1, SameImage DEF MasterInv
<1>8. ScansKept'
  BY <1>3, <1>6, <1>7, ScansStay DEF MasterInv
<1>9. OutsideTypes' /\ BlocksKept'
  BY <1>1 DEF MasterInv, OutsideTypes, BlocksKept
<1> QED
  BY <1>1, <1>2, <1>3, <1>4, <1>5, <1>7, <1>8, <1>9, Handled DEF Alive

\* A thread takes the lock to fetch what it is to send.
LEMMA StartFetchStep == ASSUME MasterInv, NEW t \in Ids, StartFetch(t) PROVE MasterInv'
<1> DEFINE k == FirstWrite(t)
<1> DEFINE r == [th[t] EXCEPT !.pc = "fetch", !.k = k]
<1>1. /\ th[t].pc = "gather" /\ th' = [th EXCEPT ![t] = r] /\ k # 0
      /\ UNCHANGED <<plugin, outside, last>>
      /\ lock = NoOne /\ lock' = t /\ img' = Drained /\ queue' = NoWrites
  BY DEF StartFetch, TakeLock, HeldBy, Becomes
<1>2. th[t] \in ThreadRec /\ th[t].n = 0 /\ th[t].raw = <<>> /\ th[t].got = <<>>
  BY <1>1, Hands
<1>3. k \in 0 .. Len(Points) /\ k \in Writes
  <2>1. 0 \in 0 .. Len(Points)
    BY Config
  <2> QED
    BY <1>1, <2>1, NextWrite DEF FirstWrite
<1> HIDE DEF k
<1>4. /\ r \in ThreadRec /\ r.pc = "fetch" /\ r.got = <<>> /\ r.n = 0 /\ r.raw = <<>>
      /\ r.k = k
  BY <1>2, <1>3 DEF ThreadRec
<1> HIDE DEF r
<1>5. Sane(KeyOf(t), r)
  BY <1>3, <1>4 DEF Sane
<1>6. GotSane(KeyOf(t), r) /\ RawSane(r)
  BY <1>4, EmptyHands
<1>7. \A s \in Ids : th'[s] = IF s = t THEN r ELSE th[s]
  BY <1>1 DEF ThreadsKept, MasterInv
<1>8. ImageTypes' /\ Drained' = Drained
      /\ (\A c \in Pure : img'[c] = img[c]) /\ DOMAIN queue' \cap Pure = {}
  BY <1>1, Taken DEF MasterInv
<1>9. ScansKept'
  BY <1>4, <1>7, <1>8, ScansStay DEF MasterInv
<1>10. OutsideTypes' /\ BlocksKept'
  BY <1>1 DEF MasterInv, OutsideTypes, BlocksKept
<1> QED
  BY <1>1, <1>2, <1>4, <1>5, <1>6, <1>8, <1>9, <1>10, Handled DEF Alive

\* What a thread fetches of a point under the lock: values of the image, and of one scan
\* if nobody else writes to the point's cells.
LEMMA RawData ==
  ASSUME MasterInv, NEW k \in Writes
  PROVE  /\ RawValues(Points[k]) \in Seq(Int)
         /\ Len(RawValues(Points[k])) = Points[k].length /\ Points[k].length \in Nat \ {0}
         /\ Sole(k) => \A i \in 1 .. Points[k].length :
              /\ RawValues(Points[k])[i] \in ProgramValues
              /\ \A c \in Pure : RawValues(Points[k])[i] = img[c]
<1> DEFINE p == Points[k]
<1>0. k \in DOMAIN Points
  BY Config
<1>1. p.length \in Nat \ {0}
      /\ \A i \in 1 .. p.length : Cell(p, i - 1) \in CellsOf(p) /\ Cell(p, i - 1) \in Cells
  BY <1>0, ElementCells DEF Elements
<1>2. RawValues(p) = [i \in 1 .. p.length |-> img[Cell(p, i - 1)]]
  BY DEF RawValues
<1>3. \A i \in 1 .. p.length : img[Cell(p, i - 1)] \in Int
  BY <1>1 DEF MasterInv, ImageTypes
<1>4. RawValues(p) \in [1 .. p.length -> Int]
  BY <1>2, <1>3
<1>5. RawValues(p) \in Seq(Int) /\ Len(RawValues(p)) = p.length
  <2> HIDE DEF p
  <2> QED
    BY <1>1, <1>4
<1>6. ASSUME Sole(k), NEW i \in 1 .. p.length
      PROVE  RawValues(p)[i] \in ProgramValues /\ \A c \in Pure : RawValues(p)[i] = img[c]
  <2>1. Cell(p, i - 1) \in Pure
    BY <1>1, <1>6 DEF Pure
  <2>2. RawValues(p)[i] = img[Cell(p, i - 1)]
    BY <1>2
  <2> QED
    BY <2>1, <2>2 DEF MasterInv, ScansKept
<1> QED
  BY <1>1, <1>5, <1>6

\* The values of one more point are fetched under the lock.
LEMMA FetchStep == ASSUME MasterInv, NEW t \in Ids, Fetch(t) PROVE MasterInv'
<1> DEFINE p == Points[th[t].k]
<1> DEFINE next == NextDue(KeyOf(t), th[t].cyc, Writes, th[t].k)
<1> DEFINE found == IF p.parses /\ Supported(p) THEN <<<<th[t].k, RawValues(p)>>>> ELSE <<>>
<1> DEFINE raw == th[t].raw \o found
<1> DEFINE pc == IF next = 0 THEN "send" ELSE "fetch"
<1> DEFINE r == [th[t] EXCEPT !.k = next, !.raw = raw, !.pc = pc]
<1>0. /\ th[t].pc = "fetch" /\ th[t] \in ThreadRec /\ th[t].k \in Writes
      /\ th[t].k \in 0 .. Len(Points) /\ th[t].raw \in Seq(Writes \X Seq(Int))
      /\ th[t].got = <<>> /\ th[t].n = 0
  BY Hands DEF Fetch, Sane, ThreadRec
<1>1. /\ th' = [th EXCEPT ![t] = r] /\ UNCHANGED <<plugin, outside, img, queue, last>>
      /\ lock' = IF next = 0 THEN NoOne ELSE lock
  BY <1>0, Zenon DEF Fetch, Becomes, Point
<1>2. next \in 0 .. Len(Points) /\ (next = 0 \/ next \in Writes)
  BY <1>0, NextWrite
<1>3. /\ RawValues(p) \in Seq(Int) /\ Len(RawValues(p)) = p.length
      /\ Sole(th[t].k) => \A i \in 1 .. p.length :
           /\ RawValues(p)[i] \in ProgramValues
           /\ \A c \in Pure : RawValues(p)[i] = img[c]
  BY <1>0, RawData
<1> HIDE DEF next, p
<1> DEFINE mine == <<th[t].k, RawValues(p)>>
<1>4. mine \in Writes \X Seq(Int)
  BY <1>0, <1>3
<1>5. found = <<>> \/ found = <<mine>>
  OBVIOUS
<1> HIDE DEF mine, found
<1>6. /\ raw \in Seq(Writes \X Seq(Int))
      /\ \A m \in DOMAIN raw :
           \/ m \in DOMAIN th[t].raw /\ raw[m] = th[t].raw[m]
           \/ raw[m] = mine
  <2> DEFINE had == th[t].raw
  <2> HIDE DEF had
  <2>0. had \in Seq(Writes \X Seq(Int))
    BY <1>0 DEF had
  <2>1. CASE found = <<>>
    <3>1. had \o found = had
      BY <2>0, <2>1
    <3> QED
      BY <2>0, <3>1 DEF had
  <2>2. CASE found = <<mine>>
    <3>1. had \o found = Append(had, mine)
      BY <1>4, <2>0, <2>2
    <3>2. /\ Append(had, mine) \in Seq(Writes \X Seq(Int))
          /\ \A m \in DOMAIN Append(had, mine) :
               \/ m \in DOMAIN had /\ Append(had, mine)[m] = had[m]
               \/ Append(had, mine)[m] = mine
      BY <1>4, <2>0
    <3> QED
      BY <3>1, <3>2 DEF had
  <2> QED
    BY <1>5, <2>1, <2>2
<1>7. pc \in {"send", "fetch"}
  OBVIOUS
<1> HIDE DEF raw
<1>8. /\ r \in ThreadRec /\ r.k = next /\ r.raw = raw /\ r.pc = pc
      /\ r.got = <<>> /\ r.n = 0
  <2> HIDE DEF pc
  <2> QED
    BY <1>0, <1>2, <1>6, <1>7 DEF ThreadRec
<1> HIDE DEF r
<1>9. Sane(KeyOf(t), r)
  BY <1>2, <1>8 DEF Sane
<1>11. mine[1] = th[t].k /\ mine[2] = RawValues(p)
  BY DEF mine
<1>12. ASSUME NEW m \in DOMAIN raw PROVE Len(raw[m][2]) = Points[raw[m][1]].length
  <2>1. CASE m \in DOMAIN th[t].raw /\ raw[m] = th[t].raw[m]
    <3>1. RawSane(th[t])
      BY Hands
    <3> QED
      BY <2>1, <3>1 DEF RawSane
  <2>2. CASE raw[m] = mine
    BY <1>3, <1>11, <2>2 DEF p
  <2> QED
    BY <1>6, <2>1, <2>2
<1>13. \A m \in DOMAIN raw : Sole(raw[m][1]) =>
         \A i \in 1 .. Len(raw[m][2]) :
            raw[m][2][i] \in ProgramValues /\ \A c \in Pure : raw[m][2][i] = img[c]
  <2> SUFFICES ASSUME NEW m \in DOMAIN raw, Sole(raw[m][1]), NEW i \in 1 .. Len(raw[m][2])
               PROVE  raw[m][2][i] \in ProgramValues /\ \A c \in Pure : raw[m][2][i] = img[c]
    OBVIOUS
  <2>1. CASE m \in DOMAIN th[t].raw /\ raw[m] = th[t].raw[m]
    <3>1. RawSane(th[t]) /\ ScansKept
      BY Hands DEF MasterInv
    <3>2. raw[m][2][i] \in ProgramValues
      BY <2>1, <3>1 DEF RawSane
    <3>3. \A c \in Pure : raw[m][2][i] = img[c]
      BY <1>0, <2>1, <3>1 DEF ScansKept
    <3> QED
      BY <3>2, <3>3
  <2>2. CASE raw[m] = mine
    BY <1>3, <1>11, <2>2
  <2> QED
    BY <1>6, <2>1, <2>2
<1>14. \A m \in DOMAIN raw : Sole(raw[m][1]) => Pure # {}
  <2> SUFFICES ASSUME NEW m \in DOMAIN raw, Sole(raw[m][1]) PROVE Pure # {}
    OBVIOUS
  <2>1. raw[m][1] \in Writes /\ raw[m][1] \in DOMAIN Points
    BY <1>6, Config
  <2>2. CellsOf(Points[raw[m][1]]) \subseteq Pure
    BY <2>1 DEF Pure
  <2>3. 1 \in Elements(raw[m][1])
    BY <2>1, ElementCells DEF Elements
  <2> QED
    BY <2>1, <2>2, <2>3, ElementCells
<1>15. RawSane(r)
  <2>1. ASSUME NEW m \in DOMAIN raw, NEW i \in DOMAIN raw, Sole(raw[m][1]), Sole(raw[i][1]),
               NEW a \in 1 .. Len(raw[m][2]), NEW b \in 1 .. Len(raw[i][2])
        PROVE  raw[m][2][a] = raw[i][2][b]
    <3>1. PICK c \in Pure : TRUE
      BY <1>14, <2>1
    <3> QED
      BY <1>13, <2>1, <3>1
  <2> QED
    BY <1>8, <1>12, <1>13, <2>1 DEF RawSane
<1>16. GotSane(KeyOf(t), r)
  BY <1>8 DEF GotSane
<1>17. ImageTypes' /\ Drained' = Drained
       /\ (\A c \in Pure : img'[c] = img[c]) /\ DOMAIN queue' \cap Pure = {}
  BY <1>1, SameImage DEF MasterInv
<1>18. ScansKept'
  <2>1. \A s \in Ids : th'[s] = IF s = t THEN r ELSE th[s]
    BY <1>1 DEF ThreadsKept, MasterInv
  <2>2. ASSUME NEW s \in Ids, th'[s].pc = "fetch", NEW m \in DOMAIN th'[s].raw,
               Sole(th'[s].raw[m][1])
        PROVE  \A i \in 1 .. Len(th'[s].raw[m][2]), c \in Pure : th'[s].raw[m][2][i] = img[c]
    <3>1. CASE s = t
      BY <1>8, <1>13, <2>1, <2>2, <3>1
    <3>2. CASE s # t
      BY <2>1, <2>2, <3>2 DEF MasterInv, ScansKept
    <3> QED
      BY <3>1, <3>2
  <2> QED
    BY <1>1, <1>17, <2>2 DEF MasterInv, ScansKept
<1>19. OutsideTypes' /\ BlocksKept'
  BY <1>1 DEF MasterInv, OutsideTypes, BlocksKept
<1>20. \/ lock' = lock /\ r.pc \in {"put", "fetch"}
       \/ lock' = NoOne /\ r.pc \notin {"put", "fetch"}
  BY <1>1, <1>8
<1> QED
  BY <1>0, <1>1, <1>8, <1>9, <1>15, <1>16, <1>17, <1>18, <1>19, <1>20, Handled DEF Alive


\* What a write request carries is something its block can hold.
LEMMA SendData ==
  ASSUME MasterInv, NEW t \in Ids, th[t].raw # <<>>
  PROVE  LET j == Head(th[t].raw)[1]
         IN  j \in Writes /\ Plausible(j, ToModbus(Points[j], Head(th[t].raw)[2]))
<1> DEFINE j == th[t].raw[1][1]
<1> DEFINE values == th[t].raw[1][2]
<1>0. th[t].raw \in Seq(Writes \X Seq(Int)) /\ RawSane(th[t])
  BY Hands DEF ThreadRec
<1>1. Head(th[t].raw) = th[t].raw[1] /\ 1 \in DOMAIN th[t].raw
      /\ j \in Writes /\ values \in Seq(Int)
  BY <1>0
<1>2. /\ Len(values) = Points[j].length
      /\ Sole(j) => \A i \in 1 .. Len(values) : values[i] \in ProgramValues
  BY <1>0, <1>1 DEF RawSane
<1> HIDE DEF j, values
<1>3. j \in DOMAIN Points /\ j \notin Reads /\ WellFormed(Points[j])
  BY <1>1, Config
<1>4. values \in [1 .. Points[j].length -> Int] /\ Len(values) = Points[j].length
  <2>1. values \in [1 .. Len(values) -> Int]
    BY <1>1
  <2> DEFINE n == Points[j].length
  <2>2. Len(values) = n
    BY <1>2
  <2> HIDE DEF n
  <2>3. values \in [1 .. n -> Int]
    BY <2>1, <2>2
  <2> QED
    BY <2>2, <2>3 DEF n
<1> DEFINE data == ToModbus(Points[j], values)
<1>5. data \in Seq(Int) /\ Len(data) = Count(Points[j])
  BY <1>3, <1>4, SentData
<1>6. Points[j].at \notin Field
  BY <1>3, MasterAssumption
<1>7. ASSUME Mirror(j)
      PROVE  \E raw \in [1 .. Points[j].length -> Sendable(Points[j])] :
                data = ToModbus(Points[j], raw)
  <2>1. Sole(j)
    BY <1>3, <1>7 DEF Mirror
  <2>2. \A i \in 1 .. Points[j].length : values[i] \in ProgramValues
    BY <1>2, <1>4, <2>1, Zenon
  <2>3. \A v \in ProgramValues : Fits(Points[j], v)
    BY <1>1, MasterAssumption
  <2>4. values \in [1 .. Points[j].length -> Sendable(Points[j])]
    BY <1>4, <2>2, <2>3 DEF Sendable
  <2> QED
    BY <2>4
<1> HIDE DEF data
<1>8. Plausible(j, data)
  BY <1>5, <1>6, <1>7 DEF Plausible
<1> QED
  BY <1>1, <1>8 DEF data, j, values

\* A block takes what it can hold.
LEMMA Stored ==
  ASSUME BlocksKept, OutsideTypes, NEW j \in DOMAIN Points, NEW data, Plausible(j, data),
         mem' = [mem EXCEPT ![Points[j].at] = data], last' = last, down' = down,
         faults' \in 0 .. MaxFaults
  PROVE  BlocksKept' /\ OutsideTypes'
<1>1. data \in Seq(Int)
  BY DEF Plausible
<1>2. mem' \in [Blocks -> Seq(Int)]
  BY <1>1 DEF OutsideTypes
<1>3. ASSUME NEW i \in DOMAIN Points PROVE Plausible(i, mem'[Points[i].at])
  <2>1. Points[i].at \in Blocks
    BY DEF Blocks
  <2>2. CASE Points[i].at = Points[j].at
    <3>1. mem'[Points[i].at] = data
      BY <2>1, <2>2 DEF OutsideTypes
    <3> QED
      BY <2>2, <3>1, SameBlock
  <2>3. CASE Points[i].at # Points[j].at
    <3>1. mem'[Points[i].at] = mem[Points[i].at]
      BY <2>1, <2>3 DEF OutsideTypes
    <3> QED
      BY <3>1 DEF BlocksKept
  <2> QED
    BY <2>2, <2>3
<1> QED
  BY <1>2, <1>3 DEF BlocksKept, OutsideTypes

\* A thread that has sent the first of its writes, or failed to.
LEMMA SentStep ==
  ASSUME MasterInv, NEW t \in Ids, NEW r, th[t].pc = "send", th[t].raw # <<>>,
         r = PastSend(t) \/ r = MarkDisconnected(PastSend(t)),
         th' = [th EXCEPT ![t] = r], OutsideTypes', BlocksKept',
         UNCHANGED <<plugin, image, last>>
  PROVE  MasterInv'
<1> DEFINE raw == th[t].raw
<1>0. /\ th[t] \in ThreadRec /\ raw \in Seq(Writes \X Seq(Int)) /\ raw # <<>>
      /\ th[t].got = <<>> /\ th[t].n = 0 /\ RawSane(th[t])
  BY Hands DEF ThreadRec
<1>1. /\ Tail(raw) \in Seq(Writes \X Seq(Int))
      /\ \A m \in DOMAIN Tail(raw) : m + 1 \in DOMAIN raw /\ Tail(raw)[m] = raw[m + 1]
  <2> HIDE DEF raw
  <2> QED
    BY <1>0
<1>2. /\ r \in ThreadRec /\ r.pc = "send" /\ r.got = <<>> /\ r.n = 0 /\ r.raw = Tail(raw)
  <2> DEFINE s == PastSend(t)
  <2>1. s = [th[t] EXCEPT !.raw = Tail(raw)]
    BY DEF PastSend
  <2> HIDE DEF s, raw
  <2>2. s \in ThreadRec /\ s.pc = "send" /\ s.got = <<>> /\ s.n = 0 /\ s.raw = Tail(raw)
    BY <1>0, <1>1, <2>1 DEF ThreadRec
  <2>3. r = s \/ r = [s EXCEPT !.flag = FALSE]
    BY DEF s, MarkDisconnected
  <2> QED
    BY <2>2, <2>3 DEF ThreadRec
<1>3. Sane(KeyOf(t), r)
  BY <1>2 DEF Sane
<1>4. GotSane(KeyOf(t), r)
  BY <1>2 DEF GotSane
<1>5. RawSane(r)
  <2> DEFINE tail == Tail(raw)
  <2>1. \A m \in DOMAIN tail : \E i \in DOMAIN th[t].raw : tail[m] = th[t].raw[i]
    BY <1>1
  <2>2. r.raw = tail
    BY <1>2
  <2> HIDE DEF tail
  <2>3. \A m \in DOMAIN tail :
          /\ Len(tail[m][2]) = Points[tail[m][1]].length
          /\ Sole(tail[m][1]) =>
               \A i \in 1 .. Len(tail[m][2]) : tail[m][2][i] \in ProgramValues
    BY <1>0, <2>1 DEF RawSane
  <2>4. ASSUME NEW m \in DOMAIN tail, NEW i \in DOMAIN tail, Sole(tail[m][1]), Sole(tail[i][1])
        PROVE  \A a \in 1 .. Len(tail[m][2]), b \in 1 .. Len(tail[i][2]) :
                  tail[m][2][a] = tail[i][2][b]
    <3>1. PICK x \in DOMAIN th[t].raw : tail[m] = th[t].raw[x]
      BY <2>1
    <3>2. PICK y \in DOMAIN th[t].raw : tail[i] = th[t].raw[y]
      BY <2>1
    <3> QED
      BY <1>0, <2>4, <3>1, <3>2 DEF RawSane
  <2> QED
    BY <2>2, <2>3, <2>4 DEF RawSane
<1>6. \A s \in Ids : th'[s] = IF s = t THEN r ELSE th[s]
  BY DEF ThreadsKept, MasterInv
<1>7. ImageTypes' /\ Drained' = Drained
      /\ (\A c \in Pure : img'[c] = img[c]) /\ DOMAIN queue' \cap Pure = {}
  BY SameImage DEF MasterInv
<1>8. ScansKept'
  BY <1>2, <1>6, <1>7, ScansStay DEF MasterInv
<1> QED
  BY <1>0, <1>2, <1>3, <1>4, <1>5, <1>7, <1>8, Handled DEF Alive

\* A write request that the device answers keeps the invariant.
LEMMA SendStep == ASSUME MasterInv, NEW t \in Ids, Send(t) PROVE MasterInv'
<1> DEFINE j == Head(th[t].raw)[1]
<1> DEFINE data == ToModbus(Points[j], Head(th[t].raw)[2])
<1>1. /\ th[t].pc = "send" /\ th[t].raw # <<>> /\ th' = [th EXCEPT ![t] = PastSend(t)]
      /\ mem' = [mem EXCEPT ![Points[j].at] = data]
      /\ UNCHANGED <<plugin, down, faults, image, last>>
  BY DEF Send, Becomes
<1>2. j \in Writes /\ Plausible(j, data)
  BY <1>1, SendData
<1> HIDE DEF j, data
<1>3. j \in DOMAIN Points
  BY <1>2, Config
<1>4. BlocksKept /\ OutsideTypes /\ faults' \in 0 .. MaxFaults
  BY <1>1 DEF MasterInv, OutsideTypes
<1>5. BlocksKept' /\ OutsideTypes'
  BY <1>1, <1>2, <1>3, <1>4, Stored
<1> QED
  BY <1>1, <1>5, SentStep

\* A write request that fails, whether or not the device took it, keeps the invariant.
LEMMA SendFailsStep == ASSUME MasterInv, NEW t \in Ids, SendFails(t) PROVE MasterInv'
<1> DEFINE j == Head(th[t].raw)[1]
<1> DEFINE data == ToModbus(Points[j], Head(th[t].raw)[2])
<1>0. BlocksKept /\ OutsideTypes /\ faults \in 0 .. MaxFaults /\ MaxFaults \in Nat
  BY MasterAssumption DEF MasterInv, OutsideTypes
<1>1. /\ th[t].pc = "send" /\ th[t].raw # <<>>
      /\ th' = [th EXCEPT ![t] = MarkDisconnected(PastSend(t))]
      /\ mem' = mem \/ mem' = [mem EXCEPT ![Points[j].at] = data]
      /\ UNCHANGED <<plugin, down, image, last>>
  BY DEF SendFails, Becomes
<1>2. faults' \in 0 .. MaxFaults
  <2>1. faults' = faults \/ (faults < MaxFaults /\ faults' = faults + 1)
    BY Zenon DEF SendFails
  <2> QED
    BY <1>0, <2>1
<1>3. j \in Writes /\ Plausible(j, data)
  BY <1>1, SendData
<1> HIDE DEF j, data
<1>4. j \in DOMAIN Points
  BY <1>3, Config
<1>5. BlocksKept' /\ OutsideTypes'
  <2>1. CASE mem' = mem
    <3>1. down' \in SUBSET Keys
      BY <1>0, <1>1 DEF OutsideTypes
    <3> QED
      BY <1>0, <1>1, <1>2, <2>1, <3>1, SameBlocks
  <2>2. CASE mem' = [mem EXCEPT ![Points[j].at] = data]
    BY <1>0, <1>1, <1>2, <1>3, <1>4, <2>2, Stored
  <2> QED
    BY <1>1, <2>1, <2>2
<1> QED
  BY <1>1, <1>5, SentStep

\* A thread goes on to its next read with nothing new in its hands.
LEMMA PassedStep ==
  ASSUME MasterInv, NEW t \in Ids, NEW r, th[t].pc = "read", th[t].k # 0,
         r = PastRead(t, <<>>) \/ r = MarkDisconnected(PastRead(t, <<>>)),
         th' = [th EXCEPT ![t] = r], faults' \in 0 .. MaxFaults,
         UNCHANGED <<plugin, mem, down, image, last>>
  PROVE  MasterInv'
<1> DEFINE k == NextDue(KeyOf(t), th[t].cyc, Reads, th[t].k)
<1>0. th[t] \in ThreadRec /\ th[t].k \in 0 .. Len(Points) /\ th[t].got \in Seq(Reads \X Seq(Int))
  BY Hands DEF ThreadRec
<1>1. PastRead(t, <<>>) = [th[t] EXCEPT !.k = k]
  <2>1. Collected(t, <<>>) = <<>>
    BY DEF Collected
  <2>2. th[t].got \o <<>> = th[t].got
    BY <1>0
  <2> QED
    BY <1>0, <2>1, <2>2 DEF PastRead, ThreadRec
<1>3. k \in 0 .. Len(Points) /\ (k = 0 \/ (k \in Reads /\ KeyAt(k) = KeyOf(t) /\ k > th[t].k))
  BY <1>0, NextRead
<1> HIDE DEF k
<1>4. /\ r \in ThreadRec /\ r.pc = th[t].pc /\ r.got = th[t].got /\ r.n = th[t].n
      /\ r.raw = th[t].raw /\ r.k = k
  <2> DEFINE s == [th[t] EXCEPT !.k = k]
  <2>1. /\ s \in ThreadRec /\ s.pc = th[t].pc /\ s.got = th[t].got /\ s.n = th[t].n
        /\ s.raw = th[t].raw /\ s.k = k
    BY <1>0, <1>3 DEF ThreadRec
  <2>2. r = s \/ r = [s EXCEPT !.flag = FALSE]
    BY <1>1 DEF MarkDisconnected
  <2> HIDE DEF s
  <2> QED
    BY <2>1, <2>2 DEF ThreadRec
<1>5. Sane(KeyOf(t), r)
  BY <1>3, <1>4, Hands DEF Sane
<1>6. GotSane(KeyOf(t), r)
  <2>1. \A m \in DOMAIN th[t].got : th[t].got[m][1] < th[t].k /\ th[t].got[m][1] \in Nat
    BY <1>0, Hands, Config DEF GotSane
  <2>2. k # 0 => \A m \in DOMAIN th[t].got : th[t].got[m][1] < k
    <3>1. th[t].k \in Nat /\ k \in Nat /\ (k # 0 => k > th[t].k)
      BY <1>0, <1>3, Config
    <3> QED
      BY <2>1, <3>1
  <2> QED
    BY <1>4, <2>2, Hands DEF GotSane
<1>7. RawSane(r)
  BY <1>4, Hands DEF RawSane
<1>8. \A s \in Ids : th'[s] = IF s = t THEN r ELSE th[s]
  BY DEF ThreadsKept, MasterInv
<1>9. ImageTypes' /\ Drained' = Drained
      /\ (\A c \in Pure : img'[c] = img[c]) /\ DOMAIN queue' \cap Pure = {}
  BY SameImage DEF MasterInv
<1>10. ScansKept'
  BY <1>4, <1>8, <1>9, ScansStay DEF MasterInv
<1>11. OutsideTypes' /\ BlocksKept'
  BY DEF MasterInv, OutsideTypes, BlocksKept
<1> QED
  BY <1>4, <1>5, <1>6, <1>7, <1>9, <1>10, <1>11, Handled DEF Alive

\* A point that is skipped keeps the invariant.
LEMMA SkipPointStep == ASSUME MasterInv, NEW t \in Ids, SkipPoint(t) PROVE MasterInv'
<1>1. faults' \in 0 .. MaxFaults
  BY DEF SkipPoint, MasterInv, OutsideTypes
<1> QED
  BY <1>1, PassedStep DEF SkipPoint, Reading, Becomes

\* Unless a join timed out, one thread at most is alive for an endpoint or a bus.
LEMMA OneThread ==
  ASSUME MasterInv, slow = 0, NEW s \in Ids, NEW t \in Ids, KeyOf(s) = KeyOf(t),
         Alive(s), Alive(t)
  PROVE  s = t
<1>1. s[1] = gen /\ t[1] = gen
  BY DEF MasterInv, Apart
<1>2. s[2] = t[2]
  BY DEF KeyOf
<1> QED
  BY <1>1, <1>2 DEF Ids

\* A thread takes an answer, or the zeros of a failure, for what the point reads.
LEMMA AnsweredStep ==
  ASSUME MasterInv, NEW t \in Ids, NEW r, NEW data, th[t].pc = "read", th[t].k # 0,
         Plausible(th[t].k, data),
         r = PastRead(t, <<data>>) \/ r = MarkDisconnected(PastRead(t, <<data>>)),
         th' = [th EXCEPT ![t] = r], last' = [last EXCEPT ![th[t].k] = data],
         faults' \in 0 .. MaxFaults, UNCHANGED <<plugin, mem, down, image>>
  PROVE  MasterInv'
<1> DEFINE k == th[t].k
<1> DEFINE next == NextDue(KeyOf(t), th[t].cyc, Reads, k)
<1> DEFINE had == th[t].got
<1> DEFINE mine == <<k, data>>
<1>0. /\ th[t] \in ThreadRec /\ k \in 0 .. Len(Points) /\ had \in Seq(Reads \X Seq(Int))
      /\ k \in Reads /\ KeyAt(k) = KeyOf(t) /\ th[t].n = 0 /\ th[t].raw = <<>>
      /\ Sane(KeyOf(t), th[t]) /\ GotSane(KeyOf(t), th[t])
  <2>1. th[t] \in ThreadRec /\ Sane(KeyOf(t), th[t]) /\ GotSane(KeyOf(t), th[t])
        /\ th[t].n = 0 /\ th[t].raw = <<>>
    BY Hands
  <2> QED
    BY <2>1 DEF ThreadRec, Sane
<1>1. next \in 0 .. Len(Points)
      /\ (next = 0 \/ (next \in Reads /\ KeyAt(next) = KeyOf(t) /\ next > k))
  BY <1>0, NextRead
<1> HIDE DEF next
<1>2. data \in Seq(Int) /\ Len(data) = Count(Points[k]) /\ mine \in Reads \X Seq(Int)
      /\ mine[1] = k /\ mine[2] = data
  BY <1>0 DEF Plausible
<1> DEFINE got == had \o Collected(t, <<data>>)
<1>3. Collected(t, <<data>>) = IF Known(Points[k]) THEN <<mine>> ELSE <<>>
  <2>1. DOMAIN <<data>> = {1} /\ <<data>>[1] = data
    OBVIOUS
  <2>2. [n \in DOMAIN <<data>> |-> <<k, <<data>>[n]>>] = <<mine>>
    BY <2>1
  <2> QED
    BY <2>2 DEF Collected, Point
<1> HIDE DEF mine
<1>4. /\ got \in Seq(Reads \X Seq(Int))
      /\ \A m \in DOMAIN had : m \in DOMAIN got /\ got[m] = had[m]
      /\ \A m \in DOMAIN got :
           \/ m \in DOMAIN had /\ got[m] = had[m]
           \/ got[m] = mine /\ Known(Points[k]) /\ \A i \in DOMAIN got : i # m => i \in DOMAIN had /\ i < m
      /\ Known(Points[k]) => \E m \in DOMAIN got : got[m] = mine
  <2> DEFINE old == th[t].got
  <2>0. old \in Seq(Reads \X Seq(Int))
    BY <1>0
  <2> HIDE DEF old
  <2>1. CASE Known(Points[k])
    <3>1. got = Append(old, mine)
      <4>1. got = old \o <<mine>>
        BY <1>3, <2>1 DEF old
      <4> HIDE DEF got
      <4> QED
        BY <1>2, <2>0, <4>1
    <3>2. /\ Append(old, mine) \in Seq(Reads \X Seq(Int))
          /\ \A m \in DOMAIN old : m \in DOMAIN Append(old, mine) /\ Append(old, mine)[m] = old[m]
          /\ \A m \in DOMAIN Append(old, mine) :
               \/ m \in DOMAIN old /\ Append(old, mine)[m] = old[m]
               \/ /\ Append(old, mine)[m] = mine
                  /\ \A i \in DOMAIN Append(old, mine) : i # m => i \in DOMAIN old /\ i < m
          /\ \E m \in DOMAIN Append(old, mine) : Append(old, mine)[m] = mine
      <4> DEFINE new == Append(old, mine)
      <4>1. /\ new \in Seq(Reads \X Seq(Int)) /\ Len(new) = Len(old) + 1
            /\ \A m \in 1 .. Len(old) : new[m] = old[m]
            /\ new[Len(old) + 1] = mine
            /\ DOMAIN new = 1 .. Len(old) + 1 /\ DOMAIN old = 1 .. Len(old) /\ Len(old) \in Nat
        BY <1>2, <2>0
      <4> HIDE DEF new
      <4>2. \A m \in DOMAIN new : m \in DOMAIN old \/ m = Len(old) + 1
        BY <4>1
      <4>3. \A m \in DOMAIN old : m \in DOMAIN new /\ new[m] = old[m]
        BY <4>1
      <4>4. \A i \in DOMAIN new : i # Len(old) + 1 => i \in DOMAIN old /\ i < Len(old) + 1
        BY <4>1
      <4>5. Len(old) + 1 \in DOMAIN new
        BY <4>1
      <4> QED
        BY <4>1, <4>2, <4>3, <4>4, <4>5 DEF new
    <3> HIDE DEF got
    <3> QED
      BY <2>1, <3>1, <3>2 DEF old
  <2>2. CASE ~Known(Points[k])
    <3>1. got = old
      <4>1. got = old \o <<>>
        BY <1>3, <2>2 DEF old
      <4> HIDE DEF got
      <4> QED
        BY <2>0, <4>1
    <3> HIDE DEF got
    <3> QED
      BY <2>0, <2>2, <3>1 DEF old
  <2> QED
    BY <2>1, <2>2
<1>5. /\ r \in ThreadRec /\ r.pc = "read" /\ r.got = got /\ r.n = 0
      /\ r.raw = <<>> /\ r.k = next
  <2> HIDE DEF got
  <2> DEFINE s == [th[t] EXCEPT !.k = next, !.got = got]
  <2>1. PastRead(t, <<data>>) = s
    BY <1>0 DEF PastRead, ThreadRec, got, next
  <2>2. /\ s \in ThreadRec /\ s.pc = "read" /\ s.got = got /\ s.n = 0
        /\ s.raw = <<>> /\ s.k = next
    BY <1>0, <1>1, <1>4 DEF ThreadRec
  <2>3. r = s \/ r = [s EXCEPT !.flag = FALSE]
    BY <2>1 DEF MarkDisconnected
  <2> HIDE DEF s
  <2> QED
    BY <2>2, <2>3 DEF ThreadRec
<1> HIDE DEF got
<1>6. Sane(KeyOf(t), r)
  BY <1>1, <1>5 DEF Sane
<1>7. \A m \in DOMAIN had : had[m][1] < k /\ had[m][1] \in Nat
  BY <1>0, Config DEF GotSane
<1>8. GotSane(KeyOf(t), r)
  <2>1. \A m \in DOMAIN got :
          KeyAt(got[m][1]) = KeyOf(t) /\ Known(Points[got[m][1]]) /\ Plausible(got[m][1], got[m][2])
    BY <1>0, <1>2, <1>4 DEF GotSane
  <2>2. ASSUME NEW m \in DOMAIN got PROVE got[m][1] <= k /\ got[m][1] \in Nat
    <3>1. k \in Nat
      BY <1>0, Config
    <3>2. CASE m \in DOMAIN had /\ got[m] = had[m]
      BY <1>7, <3>1, <3>2
    <3>3. CASE got[m] = mine
      BY <1>2, <3>1, <3>3
    <3> QED
      BY <1>4, <3>2, <3>3
  <2>3. next # 0 => \A m \in DOMAIN got : got[m][1] < next
    <3>1. k \in Nat /\ next \in Nat
      BY <1>0, <1>1, Config
    <3> QED
      BY <1>1, <2>2, <3>1
  <2>4. ASSUME NEW m \in DOMAIN got, NEW i \in DOMAIN got, m < i PROVE got[m][1] < got[i][1]
    <3>0. m \in Nat /\ i \in Nat
      BY <1>4
    <3>1. CASE i \in DOMAIN had /\ got[i] = had[i]
      <4>1. m \in DOMAIN had /\ got[m] = had[m]
        <5>1. ~(i < m) /\ i # m
          BY <2>4, <3>0
        <5> QED
          BY <1>4, <5>1
      <4> QED
        BY <1>0, <2>4, <3>1, <4>1 DEF GotSane
    <3>2. CASE got[i] = mine /\ \A x \in DOMAIN got : x # i => x \in DOMAIN had /\ x < i
      <4>1. m \in DOMAIN had /\ got[m] = had[m]
        BY <1>4, <2>4, <3>0, <3>2
      <4> QED
        BY <1>2, <1>7, <3>2, <4>1
    <3> QED
      BY <1>4, <3>1, <3>2
  <2> QED
    BY <1>5, <2>1, <2>3, <2>4 DEF GotSane
<1>9. RawSane(r)
  BY <1>5 DEF RawSane
<1>10. \A s \in Ids : th'[s] = IF s = t THEN r ELSE th[s]
  BY DEF ThreadsKept, MasterInv
<1>11. ImageTypes' /\ Drained' = Drained
       /\ (\A c \in Pure : img'[c] = img[c]) /\ DOMAIN queue' \cap Pure = {}
  BY SameImage DEF MasterInv
<1>12. ScansKept'
  BY <1>5, <1>10, <1>11, ScansStay DEF MasterInv
<1>13. \A j \in Reads : last'[j] = IF j = k THEN data ELSE last[j]
  BY DEF MasterInv, OutsideTypes
<1>14. OutsideTypes' /\ BlocksKept'
  <2>1. last' \in [Reads -> Seq(Int)]
    BY <1>2 DEF MasterInv, OutsideTypes
  <2> QED
    BY <1>2, <1>13, <2>1 DEF MasterInv, OutsideTypes, BlocksKept
<1>15. ThreadsKept'
  BY <1>5, <1>6, <1>8, <1>9, ThreadSteps DEF MasterInv
<1>16. LockKept'
  <2>1. r.pc \in {"put", "fetch"} <=> th[t].pc \in {"put", "fetch"}
    BY <1>5
  <2> QED
    BY <2>1, Locks DEF MasterInv
<1>17. Apart' /\ PluginTypes'
  <2>1. Apart'
    BY <1>5, Lives DEF MasterInv, Alive
  <2> QED
    BY <2>1 DEF MasterInv, PluginTypes
<1>18. \A j, i : AtCell(j, i)' = AtCell(j, i)
  BY <1>11 DEF AtCell
<1>19. \A j : Underway(j)' <=> Underway(j)
  BY <1>0, <1>5, <1>10 DEF Underway
<1>20. FieldWhole' /\ Mirrored'
  <2>1. FieldWhole'
    BY <1>18, <1>19 DEF MasterInv, ImageKept, FieldWhole
  <2>2. Mirrored'
    <3>1. Mirrored
      BY Zenon DEF MasterInv, ImageKept
    <3> QED
      BY <1>18, <3>1 DEF Mirrored
  <2> QED
    BY <2>1, <2>2
<1>21. Underwritten'
  <2>1. ASSUME NEW s \in Ids, th'[s].n > 0 PROVE th'[s] = th[s]
    BY <1>5, <1>10, <2>1
  <2> QED
    BY <1>18, <2>1 DEF MasterInv, ImageKept, Underwritten
<1>22. Latest'
  <2> SUFFICES ASSUME slow = 0, NEW s \in Ids, NEW m \in DOMAIN th'[s].got
               PROVE  th'[s].got[m][2] = last'[th'[s].got[m][1]]
    BY DEF Latest
  <2>1. ASSUME m \in DOMAIN th[s].got, th'[s].got[m] = th[s].got[m], th[s].got[m][1] # k
        PROVE  th'[s].got[m][2] = last'[th'[s].got[m][1]]
    <3>1. th[s].got[m][1] \in Reads
      <4>1. th[s].got \in Seq(Reads \X Seq(Int))
        BY Hands DEF ThreadRec
      <4> QED
        BY <2>1, <4>1
    <3> QED
      BY <1>13, <2>1, <3>1 DEF MasterInv, ImageKept, Latest
  <2>2. CASE s = t
    <3>1. th'[s].got = got
      BY <1>5, <1>10, <2>2
    <3>2. CASE m \in DOMAIN had /\ got[m] = had[m]
      <4>1. had[m][1] # k
        BY <1>0, <1>7, <3>2, Config
      <4> QED
        BY <2>1, <2>2, <3>1, <3>2, <4>1
    <3>3. CASE got[m] = mine
      BY <1>0, <1>2, <1>13, <3>1, <3>3
    <3> QED
      BY <1>4, <3>1, <3>2, <3>3
  <2>3. CASE s # t
    <3>1. th'[s] = th[s]
      BY <1>10, <2>3
    <3>2. th[s].got[m][1] # k
      <4> SUFFICES ASSUME th[s].got[m][1] = k PROVE FALSE
        OBVIOUS
      <4>1. KeyOf(s) = KeyOf(t)
        BY <1>0, <3>1, Hands DEF GotSane
      <4>2. Alive(s) /\ Alive(t)
        <5>1. th[s].got # <<>>
          BY <3>1
        <5> QED
          BY <5>1, Hands DEF Alive, Sane
      <4> QED
        BY <2>3, <4>1, <4>2, OneThread
    <3> QED
      BY <2>1, <3>1, <3>2
  <2> QED
    BY <2>2, <2>3
<1>23. Landed'
  <2> SUFFICES ASSUME slow = 0, NEW j \in Reads, Sole(j), Supported(Points[j]), ~Awaited(j)',
                      NEW a \in Elements(j)
               PROVE  AtCell(j, a) = Converted(Points[j], last'[j])[a]
    BY <1>18 DEF Landed
  <2>1. j # k
    <3> SUFFICES ASSUME j = k PROVE FALSE
      OBVIOUS
    <3>1. PICK m \in DOMAIN got : got[m] = mine
      BY <1>4 DEF Supported
    <3> QED
      BY <1>2, <1>5, <1>10, <3>1 DEF Awaited
  <2>2. ~Awaited(j)
    <3> SUFFICES ASSUME Awaited(j) PROVE FALSE
      OBVIOUS
    <3>1. PICK s \in Ids : \E m \in DOMAIN th[s].got : th[s].got[m][1] = j
      BY DEF Awaited
    <3>2. PICK m \in DOMAIN th[s].got : th[s].got[m][1] = j
      BY <3>1
    <3>3. m \in DOMAIN th'[s].got /\ th'[s].got[m] = th[s].got[m]
      BY <1>4, <1>5, <1>10
    <3> QED
      BY <3>2, <3>3 DEF Awaited
  <2> QED
    BY <1>13, <2>1, <2>2 DEF MasterInv, ImageKept, Landed
<1>24. ImageKept'
  BY <1>20, <1>21, <1>22, <1>23 DEF ImageKept
<1> QED
  BY <1>11, <1>12, <1>14, <1>15, <1>16, <1>17, <1>24 DEF MasterInv

\* An answer to a read keeps the invariant.
LEMMA ReadPointStep == ASSUME MasterInv, NEW t \in Ids, ReadPoint(t) PROVE MasterInv'
<1> DEFINE data == mem[Point(t).at]
<1>1. /\ th[t].pc = "read" /\ th[t].k # 0 /\ th' = [th EXCEPT ![t] = PastRead(t, <<data>>)]
      /\ last' = [last EXCEPT ![th[t].k] = data]
      /\ UNCHANGED <<plugin, outside, image>>
  BY DEF ReadPoint, Reading, Becomes
<1>2. th[t].k \in DOMAIN Points
  BY <1>1, Hands, Config DEF Sane
<1>3. Plausible(th[t].k, data)
  BY <1>2 DEF MasterInv, BlocksKept, Point
<1>4. faults' \in 0 .. MaxFaults
  BY <1>1 DEF MasterInv, OutsideTypes
<1> HIDE DEF data
<1> QED
  BY <1>1, <1>3, <1>4, AnsweredStep

\* A read that fails keeps the invariant, with zeros for an answer or with none.
LEMMA ReadFailsStep == ASSUME MasterInv, NEW t \in Ids, ReadFails(t) PROVE MasterInv'
<1> DEFINE p == Points[th[t].k]
<1>1. /\ th[t].pc = "read" /\ th[t].k # 0
      /\ th' = [th EXCEPT ![t] = MarkDisconnected(PastRead(t, ZeroFill(p)))]
      /\ last' = [last EXCEPT ![th[t].k] = IF p.zero THEN Zeros(p) ELSE last[th[t].k]]
      /\ UNCHANGED <<plugin, mem, down, image>>
  BY DEF ReadFails, Reading, Becomes, Point
<1>2. faults' \in 0 .. MaxFaults
  <2>1. faults' = faults \/ (faults < MaxFaults /\ faults' = faults + 1)
    BY DEF ReadFails
  <2> QED
    BY <2>1, MasterAssumption DEF MasterInv, OutsideTypes
<1>3. th[t].k \in Reads /\ th[t].k \in DOMAIN Points
  BY <1>1, Hands, Config DEF Sane
<1>4. CASE p.zero
  <2>1. ZeroFill(p) = <<Zeros(p)>> /\ last' = [last EXCEPT ![th[t].k] = Zeros(p)]
    BY <1>1, <1>4 DEF ZeroFill
  <2>2. Plausible(th[t].k, Zeros(p))
    BY <1>3, PlausibleZero
  <2> HIDE DEF p
  <2> QED
    BY <1>1, <1>2, <2>1, <2>2, AnsweredStep
<1>5. CASE ~p.zero
  <2>1. ZeroFill(p) = <<>>
    BY <1>5 DEF ZeroFill
  <2>2. last' = last
    BY <1>1, <1>3, <1>5 DEF MasterInv, OutsideTypes
  <2> QED
    BY <1>1, <1>2, <2>1, <2>2, PassedStep
<1> QED
  BY <1>4, <1>5

\* An element that goes to the journal changes what the image shows in its cell alone,
\* and is no output's.
LEMMA Written ==
  ASSUME MasterInv, NEW j \in Reads, NEW n \in 0 .. Points[j].length - 1, NEW v \in Int,
         img' = img, queue' = Journalled(Cell(Points[j], n), v)
  PROVE  /\ ImageTypes' /\ DOMAIN queue' \cap Pure = {}
         /\ \A i \in DOMAIN Points : \A a \in Elements(i) :
              AtCell(i, a)' = IF Cell(Points[i], a - 1) = Cell(Points[j], n)
                              THEN v ELSE AtCell(i, a)
<1> DEFINE c == Cell(Points[j], n)
<1>0. j \in DOMAIN Points /\ Points[j].length \in Nat \ {0}
  BY Config, ElementCells
<1>1. n + 1 \in Elements(j) /\ n + 1 - 1 = n
  BY <1>0 DEF Elements
<1>2. c \in Cells
  <2>1. Cell(Points[j], n + 1 - 1) \in CellsOf(Points[j])
    BY <1>0, <1>1, ElementCells
  <2> QED
    BY <1>0, <1>1, <2>1, ElementCells
<1>3. c \notin Pure
  <2> SUFFICES ASSUME c \in Pure PROVE FALSE
    OBVIOUS
  <2>1. PICK i \in Writes : Sole(i) /\ c \in CellsOf(Points[i])
    BY DEF Pure
  <2>2. i \in DOMAIN Points /\ i # j
    BY <2>1, Config
  <2>3. c \in CellsOf(Points[j])
    BY <1>0, <1>1, ElementCells
  <2> QED
    BY <1>0, <2>1, <2>2, <2>3 DEF Sole, Private
<1> HIDE DEF c
<1>4. /\ DOMAIN queue' = DOMAIN queue \cup {c}
      /\ \A x \in DOMAIN queue' : queue'[x] = IF x = c THEN v ELSE queue[x]
  BY DEF Journalled, c
<1>5. ImageTypes'
  BY <1>2, <1>4 DEF MasterInv, ImageTypes
<1>6. DOMAIN queue' \cap Pure = {}
  BY <1>3, <1>4 DEF MasterInv, ScansKept
<1>7. ASSUME NEW x \in Cells PROVE Drained'[x] = IF x = c THEN v ELSE Drained[x]
  <2>1. Drained'[x] = IF x \in DOMAIN queue' THEN queue'[x] ELSE img'[x]
    BY DEF Drained
  <2>2. Drained[x] = IF x \in DOMAIN queue THEN queue[x] ELSE img[x]
    BY DEF Drained
  <2> QED
    BY <1>4, <2>1, <2>2
<1>8. ASSUME NEW i \in DOMAIN Points, NEW a \in Elements(i)
      PROVE  AtCell(i, a)' = IF Cell(Points[i], a - 1) = c THEN v ELSE AtCell(i, a)
  <2>1. Cell(Points[i], a - 1) \in Cells
    BY ElementCells
  <2>2. AtCell(i, a)' = Drained'[Cell(Points[i], a - 1)]
    BY DEF AtCell
  <2> QED
    BY <1>7, <2>1, <2>2 DEF AtCell
<1> QED
  BY <1>5, <1>6, <1>8 DEF c

\* One element of an answer goes to the journal: the invariant is kept.
LEMMA PutStep == ASSUME MasterInv, NEW t \in Ids, Put(t) PROVE MasterInv'
<1> DEFINE got == th[t].got
<1>0. /\ th[t] \in ThreadRec /\ got \in Seq(Reads \X Seq(Int)) /\ th[t].n \in Nat
      /\ Sane(KeyOf(t), th[t]) /\ GotSane(KeyOf(t), th[t]) /\ RawSane(th[t])
      /\ th[t].pc = "put" /\ got # <<>> /\ th[t].raw = <<>>
  BY Hands DEF ThreadRec, Put
<1>a. Head(got) = got[1] /\ 1 \in DOMAIN got /\ got[1] \in Reads \X Seq(Int)
  <2> HIDE DEF got
  <2> QED
    BY <1>0
<1>b. PICK j \in Reads, data \in Seq(Int) : got[1] = <<j, data>>
  BY <1>a
<1>c. PICK n \in Nat : th[t].n = n
  BY <1>0
<1>1. got[1][1] = j /\ got[1][2] = data
  BY <1>b
<1> DEFINE p == Points[j]
<1> DEFINE r == IF n + 1 = p.length THEN [th[t] EXCEPT !.n = 0, !.got = Tail(got)]
                                    ELSE [th[t] EXCEPT !.n = n + 1]
<1>2. /\ KeyAt(j) = KeyOf(t) /\ Known(p) /\ Plausible(j, data)
      /\ \A m, i \in DOMAIN got : m < i => got[m][1] < got[i][1]
  BY <1>0, <1>a, <1>1 DEF GotSane
<1>3. j \in DOMAIN Points /\ WellFormed(p) /\ p.length \in Nat \ {0} /\ j \in Nat
  BY Config, ElementCells
<1>4. n \in 0 .. p.length - 1 /\ n + 1 \in Elements(j) /\ n + 1 - 1 = n
  <2>1. n < p.length
    BY <1>0, <1>c, <1>1, <1>3 DEF Sane
  <2> QED
    BY <1>3, <2>1 DEF Elements
<1> DEFINE v == Converted(p, data)[n + 1]
<1>5. v \in Int
  BY <1>2, <1>3, <1>4, ConvertedInt DEF Plausible, Elements
<1>6. /\ queue' = IF Supported(p) THEN Journalled(Cell(p, n), v) ELSE queue
      /\ th' = [th EXCEPT ![t] = r] /\ UNCHANGED <<plugin, outside, img, lock, last>>
  BY <1>a, <1>c, <1>1, Zenon DEF Put, Becomes
<1> HIDE DEF v
<1>7. /\ ImageTypes' /\ DOMAIN queue' \cap Pure = {}
      /\ \A i \in DOMAIN Points : \A a \in Elements(i) :
           AtCell(i, a)' = IF Supported(p) /\ Cell(Points[i], a - 1) = Cell(p, n)
                           THEN v ELSE AtCell(i, a)
  <2>1. CASE Supported(p)
    BY <1>4, <1>5, <1>6, <2>1, Written
  <2>2. CASE ~Supported(p)
    <3>1. img' = img /\ queue' = queue
      BY <1>6, <2>2
    <3>2. ImageTypes' /\ Drained' = Drained /\ DOMAIN queue' \cap Pure = {}
      BY <3>1, SameImage DEF MasterInv
    <3>3. \A i, a : AtCell(i, a)' = AtCell(i, a)
      BY <3>2 DEF AtCell
    <3> QED
      BY <2>2, <3>2, <3>3
  <2> QED
    BY <2>1, <2>2
<1>8. /\ r \in ThreadRec /\ r.pc = "put" /\ r.raw = <<>>
      /\ \/ n + 1 = p.length /\ r.n = 0 /\ r.got = Tail(got)
         \/ n + 1 < p.length /\ r.n = n + 1 /\ r.got = got
  <2>1. Tail(got) \in Seq(Reads \X Seq(Int))
    <3> HIDE DEF got
    <3> QED
      BY <1>0
  <2> HIDE DEF got, p
  <2>2. n + 1 = p.length \/ n + 1 < p.length
    BY <1>3, <1>4
  <2>3. CASE n + 1 = p.length
    <3>1. r = [th[t] EXCEPT !.n = 0, !.got = Tail(got)]
      BY <2>3
    <3> HIDE DEF r
    <3> QED
      BY <1>0, <2>1, <2>3, <3>1 DEF ThreadRec
  <2>4. CASE n + 1 # p.length
    <3>1. r = [th[t] EXCEPT !.n = n + 1]
      BY <2>4
    <3>2. n + 1 \in Nat
      BY <1>0
    <3> HIDE DEF r
    <3> QED
      BY <1>0, <2>2, <2>4, <3>1, <3>2 DEF ThreadRec, got
  <2> QED
    BY <2>3, <2>4
<1> HIDE DEF r
<1>9. /\ \A m \in DOMAIN r.got : \E i \in DOMAIN got : r.got[m] = got[i]
      /\ \A i \in DOMAIN got : i # 1 => \E m \in DOMAIN r.got : r.got[m] = got[i]
      /\ \A m, i \in DOMAIN r.got : m < i => r.got[m][1] < r.got[i][1]
  <2> HIDE DEF got
  <2>1. CASE r.got = got
    BY <1>2, <2>1
  <2>2. CASE r.got = Tail(got)
    <3> DEFINE tail == Tail(got)
    <3>1. /\ \A m \in DOMAIN tail : m + 1 \in DOMAIN got /\ tail[m] = got[m + 1]
          /\ \A i \in DOMAIN got : i # 1 => i - 1 \in DOMAIN tail /\ tail[i - 1] = got[i]
          /\ DOMAIN tail \subseteq Nat
      <4>1. /\ Len(tail) = Len(got) - 1 /\ Len(got) \in Nat /\ DOMAIN got = 1 .. Len(got)
            /\ DOMAIN tail = 1 .. Len(tail)
            /\ \A m \in 1 .. Len(tail) : tail[m] = got[m + 1]
        BY <1>0
      <4> HIDE DEF tail
      <4>2. \A m \in DOMAIN tail : m + 1 \in DOMAIN got
        BY <4>1
      <4>3. \A i \in DOMAIN got : i # 1 => i - 1 \in DOMAIN tail /\ i - 1 + 1 = i
        BY <4>1
      <4> QED
        BY <4>1, <4>2, <4>3
    <3> HIDE DEF tail
    <3>2. \A m, i \in DOMAIN tail : m < i => tail[m][1] < tail[i][1]
      <4> SUFFICES ASSUME NEW m \in DOMAIN tail, NEW i \in DOMAIN tail, m < i
                   PROVE  tail[m][1] < tail[i][1]
        OBVIOUS
      <4>1. m + 1 < i + 1
        BY <3>1
      <4> QED
        BY <1>2, <3>1, <4>1
    <3> QED
      BY <2>2, <3>1, <3>2 DEF tail
  <2> QED
    BY <1>8, <2>1, <2>2
<1>10. Sane(KeyOf(t), r)
  <2>1. r.n > 0 => r.got # <<>> /\ r.n < Points[r.got[1][1]].length
    BY <1>0, <1>1, <1>8
  <2> QED
    BY <1>8, <2>1 DEF Sane
<1>11. GotSane(KeyOf(t), r)
  <2>1. \A m \in DOMAIN r.got :
          /\ KeyAt(r.got[m][1]) = KeyOf(t) /\ Known(Points[r.got[m][1]])
          /\ Plausible(r.got[m][1], r.got[m][2])
    BY <1>0, <1>9 DEF GotSane
  <2> QED
    BY <1>8, <1>9, <2>1 DEF GotSane
<1>12. RawSane(r)
  BY <1>8 DEF RawSane
<1>13. \A s \in Ids : th'[s] = IF s = t THEN r ELSE th[s]
  BY <1>6 DEF ThreadsKept, MasterInv
<1>14. ThreadsKept'
  BY <1>6, <1>8, <1>10, <1>11, <1>12, ThreadSteps DEF MasterInv
<1>15. LockKept'
  <2>1. r.pc \in {"put", "fetch"} <=> th[t].pc \in {"put", "fetch"}
    BY <1>0, <1>8
  <2> QED
    BY <1>6, <2>1, Locks DEF MasterInv
<1>16. Apart' /\ PluginTypes'
  <2>1. Apart'
    BY <1>0, <1>6, <1>8, Lives DEF MasterInv, Alive
  <2> QED
    BY <1>6, <2>1 DEF MasterInv, PluginTypes
<1>17. ScansKept'
  BY <1>6, <1>7, <1>8, <1>13, ScansStay DEF MasterInv
<1>18. OutsideTypes' /\ BlocksKept'
  BY <1>6 DEF MasterInv, OutsideTypes, BlocksKept
<1>19. ASSUME NEW s \in Ids, s # t PROVE th'[s] = th[s] /\ th[s].n = 0
  <2>1. th[s].pc # "put"
    BY <1>0, <1>19 DEF MasterInv, LockKept
  <2> QED
    BY <1>13, <1>19, <2>1, Hands
<1>20. ASSUME NEW i \in DOMAIN Points, i # j, Sole(i), i \in Reads, NEW a \in Elements(i)
       PROVE  AtCell(i, a)' = AtCell(i, a)
  <2>1. Cell(Points[i], a - 1) # Cell(p, n)
    BY <1>3, <1>4, <1>20, OthersCells
  <2> QED
    BY <1>7, <1>20, <2>1
<1>21. ASSUME Supported(p), Sole(j), NEW a \in 1 .. n + 1
       PROVE  AtCell(j, a)' = Converted(p, data)[a]
  <2>0. a \in Elements(j)
    BY <1>3, <1>4 DEF Elements
  <2>1. CASE a = n + 1
    BY <1>3, <1>4, <1>7, <1>21, <2>0, <2>1 DEF v
  <2>2. CASE a # n + 1
    <3>1. a \in 1 .. n /\ n > 0 /\ a - 1 \in Nat /\ a - 1 # n
      BY <1>0, <2>2
    <3>2. Cell(p, a - 1) # Cell(p, n)
      BY <1>0, <1>3, <3>1, CellsDiffer
    <3>3. AtCell(j, a) = Converted(p, data)[a]
      BY <1>c, <1>1, <1>21, <3>1 DEF MasterInv, ImageKept, Underwritten
    <3> QED
      BY <1>3, <1>7, <2>0, <3>2, <3>3
  <2> QED
    BY <2>1, <2>2
<1>22. r.got = got => r.n = n + 1 /\ Awaited(j)'
  <2>1. r.got = got => r.n = n + 1
    <3>1. Len(Tail(got)) # Len(got)
      <4> HIDE DEF got
      <4> QED
        BY <1>0
    <3> HIDE DEF got
    <3> QED
      BY <1>8, <3>1
  <2> QED
    BY <1>a, <1>1, <1>13, <2>1 DEF Awaited
<1>23. FieldWhole'
  <2> SUFFICES ASSUME NEW i \in Reads, Points[i].at \in Field, Sole(i), ~Underway(i)',
                      NEW a \in Elements(i), NEW b \in Elements(i)
               PROVE  AtCell(i, a)' = AtCell(i, b)'
    BY DEF FieldWhole
  <2>1. CASE i # j
    <3>1. ~Underway(i)
      BY <1>1, <1>19, <2>1 DEF Underway
    <3>2. AtCell(i, a) = AtCell(i, b)
      BY <3>1 DEF MasterInv, ImageKept, FieldWhole
    <3> QED
      BY <1>20, <2>1, <3>2, Config
  <2>2. CASE i = j
    <3>1. n + 1 = p.length
      <4> SUFFICES ASSUME n + 1 # p.length PROVE FALSE
        OBVIOUS
      <4>1. r.n > 0 /\ r.got = got
        BY <1>0, <1>8
      <4> QED
        BY <1>1, <1>13, <2>2, <4>1 DEF Underway
    <3>2. Supported(p)
      BY <1>2, <1>3, <2>2, MasterAssumption DEF Supported, Known, IsBit
    <3>3. AtCell(j, a)' = Converted(p, data)[a] /\ AtCell(j, b)' = Converted(p, data)[b]
      BY <1>21, <2>2, <3>1, <3>2 DEF Elements
    <3>4. Converted(p, data)[a] = Converted(p, data)[b]
      BY <1>2, <1>3, <2>2, FieldData
    <3> QED
      BY <2>2, <3>3, <3>4
  <2> QED
    BY <2>1, <2>2
<1>24. Mirrored'
  <2> SUFFICES ASSUME NEW i \in Reads, Mirror(i), NEW a \in Elements(i)
               PROVE  AtCell(i, a)' \in ProgramValues
    BY DEF Mirrored
  <2>0. Sole(i) /\ i \in DOMAIN Points /\ AtCell(i, a) \in ProgramValues
    BY Config DEF Mirror, MasterInv, ImageKept, Mirrored
  <2>1. CASE i # j
    BY <1>20, <2>0, <2>1
  <2>2. CASE i = j
    <3>1. v \in ProgramValues
      BY <1>2, <1>3, <1>4, <2>2, MirrorData DEF v
    <3> QED
      BY <1>7, <2>0, <3>1
  <2> QED
    BY <2>1, <2>2
<1>25. Latest'
  <2> SUFFICES ASSUME slow = 0, NEW s \in Ids, NEW m \in DOMAIN th'[s].got
               PROVE  th'[s].got[m][2] = last[th'[s].got[m][1]]
    BY <1>6 DEF Latest
  <2>1. CASE s = t
    <3>1. PICK i \in DOMAIN got : r.got[m] = got[i]
      BY <1>9, <1>13, <2>1
    <3>2. got[i][2] = last[got[i][1]]
      BY DEF MasterInv, ImageKept, Latest
    <3> QED
      BY <1>13, <2>1, <3>1, <3>2
  <2>2. CASE s # t
    BY <1>13, <2>2 DEF MasterInv, ImageKept, Latest
  <2> QED
    BY <2>1, <2>2
<1>26. Underwritten'
  <2> SUFFICES ASSUME NEW s \in Ids, th'[s].n > 0, Sole(th'[s].got[1][1]),
                      Supported(Points[th'[s].got[1][1]]), NEW a \in 1 .. th'[s].n
               PROVE  Drained'[Cell(Points[th'[s].got[1][1]], a - 1)] =
                        Converted(Points[th'[s].got[1][1]], th'[s].got[1][2])[a]
    BY DEF Underwritten, AtCell
  <2>1. s = t
    <3> SUFFICES ASSUME s # t PROVE FALSE
      OBVIOUS
    <3> QED
      BY <1>19
  <2>2. th'[s].n = n + 1 /\ th'[s].got[1][1] = j /\ th'[s].got[1][2] = data
    BY <1>1, <1>8, <1>13, <2>1
  <2>3. a \in 1 .. n + 1 /\ Supported(p) /\ Sole(j)
    BY <2>2
  <2>4. AtCell(j, a)' = Converted(p, data)[a]
    BY <1>21, <2>3
  <2> QED
    BY <2>2, <2>4 DEF AtCell
<1>27. Landed'
  <2> SUFFICES ASSUME slow = 0, NEW i \in Reads, Sole(i), Supported(Points[i]), ~Awaited(i)',
                      NEW a \in Elements(i)
               PROVE  AtCell(i, a)' = Converted(Points[i], last[i])[a]
    BY <1>6 DEF Landed
  <2>1. CASE i # j
    <3>1. ~Awaited(i)
      <4> SUFFICES ASSUME Awaited(i) PROVE FALSE
        OBVIOUS
      <4>1. PICK s \in Ids : \E m \in DOMAIN th[s].got : th[s].got[m][1] = i
        BY DEF Awaited
      <4>2. PICK m \in DOMAIN th[s].got : th[s].got[m][1] = i
        BY <4>1
      <4>3. \E x \in DOMAIN th'[s].got : th'[s].got[x][1] = i
        <5>1. CASE s = t
          BY <1>1, <1>9, <1>13, <2>1, <4>2, <5>1
        <5>2. CASE s # t
          BY <1>13, <4>2, <5>2
        <5> QED
          BY <5>1, <5>2
      <4> QED
        BY <4>3 DEF Awaited
    <3>2. AtCell(i, a) = Converted(Points[i], last[i])[a]
      BY <3>1 DEF MasterInv, ImageKept, Landed
    <3> QED
      BY <1>20, <2>1, <3>2, Config
  <2>2. CASE i = j
    <3>1. n + 1 = p.length
      BY <1>8, <1>22, <2>2
    <3>2. data = last[j]
      BY <1>a, <1>1 DEF MasterInv, ImageKept, Latest
    <3>3. AtCell(j, a)' = Converted(p, data)[a]
      BY <1>21, <2>2, <3>1 DEF Elements
    <3> QED
      BY <2>2, <3>2, <3>3
  <2> QED
    BY <2>1, <2>2
<1>28. ImageKept'
  BY <1>23, <1>24, <1>25, <1>26, <1>27 DEF ImageKept
<1> QED
  BY <1>7, <1>14, <1>15, <1>16, <1>17, <1>18, <1>28, Zenon DEF MasterInv

-----------------------------------------------------------------------------
(* The steps of the driver, of the devices and of the program *)

\* A step that leaves the image, and what the threads hold, alone: it may start threads,
\* and mark others.
LEMMA Around ==
  ASSUME MasterInv, th' \in [Ids -> ThreadRec],
         \A s \in Ids :
           /\ th'[s].got = th[s].got /\ th'[s].n = th[s].n /\ th'[s].raw = th[s].raw
           /\ \/ th'[s].pc = th[s].pc /\ th'[s].k = th[s].k
              \/ th[s].pc = "none" /\ th'[s].pc = "connect",
         UNCHANGED image, last' = last, slow' = 0 => slow = 0,
         PluginTypes', Apart', OutsideTypes', BlocksKept'
  PROVE  MasterInv'
<1>1. ASSUME NEW s \in Ids
      PROVE  Sane(KeyOf(s), th'[s]) /\ GotSane(KeyOf(s), th'[s]) /\ RawSane(th'[s])
  <2>1. Sane(KeyOf(s), th[s]) /\ GotSane(KeyOf(s), th[s]) /\ RawSane(th[s])
    BY Hands
  <2>2. CASE th'[s].pc = th[s].pc /\ th'[s].k = th[s].k
    <3>1. Sane(KeyOf(s), th'[s])
      BY <2>1, <2>2 DEF Sane
    <3>2. th'[s].got = th[s].got /\ th'[s].raw = th[s].raw
      OBVIOUS
    <3>3. GotSane(KeyOf(s), th'[s]) /\ RawSane(th'[s])
      BY <2>1, <2>2, <3>2, SameHands
    <3> QED
      BY <3>1, <3>3
  <2>3. CASE th[s].pc = "none" /\ th'[s].pc = "connect"
    <3>1. th[s].got = <<>> /\ th[s].raw = <<>> /\ th[s].n = 0
      BY <2>3, Hands
    <3>2. Sane(KeyOf(s), th'[s])
      BY <2>3, <3>1 DEF Sane
    <3> QED
      BY <3>1, <3>2, EmptyHands
  <2> QED
    BY <2>2, <2>3
<1>2. ThreadsKept'
  BY <1>1 DEF ThreadsKept
<1>3. LockKept'
  <2>1. \A s \in Ids : th'[s].pc \in {"put", "fetch"} <=> th[s].pc \in {"put", "fetch"}
    OBVIOUS
  <2>2. lock' = lock
    OBVIOUS
  <2> QED
    BY <2>1, <2>2 DEF MasterInv, LockKept
<1>4. ImageTypes' /\ Drained' = Drained
      /\ (\A c \in Pure : img'[c] = img[c]) /\ DOMAIN queue' \cap Pure = {}
  BY SameImage DEF MasterInv
<1>5. ScansKept'
  <2>1. \A s \in Ids : th'[s].pc = "fetch" => th[s].pc = "fetch" /\ th'[s].raw = th[s].raw
    OBVIOUS
  <2> QED
    BY <1>4, <2>1, ScansStay DEF MasterInv
<1>6. ImageKept'
  BY <1>4, ImageStays DEF MasterInv
<1> QED
  BY <1>2, <1>3, <1>4, <1>5, <1>6 DEF MasterInv

\* The threads that are told to stop keep what they hold.
LEMMA SignalledSame ==
  ASSUME MasterInv, th' = Signalled
  PROVE  /\ th' \in [Ids -> ThreadRec]
         /\ \A s \in Ids :
              /\ th'[s].got = th[s].got /\ th'[s].n = th[s].n /\ th'[s].raw = th[s].raw
              /\ th'[s].pc = th[s].pc /\ th'[s].k = th[s].k
<1>1. ASSUME NEW s \in Ids
      PROVE  /\ th'[s] \in ThreadRec
             /\ th'[s].got = th[s].got /\ th'[s].n = th[s].n /\ th'[s].raw = th[s].raw
             /\ th'[s].pc = th[s].pc /\ th'[s].k = th[s].k
  <2>1. th[s] \in ThreadRec
    BY Hands
  <2>2. th'[s] = th[s] \/ th'[s] = [th[s] EXCEPT !.stop = TRUE]
    BY DEF Signalled
  <2> QED
    BY <2>1, <2>2 DEF ThreadRec
<1>2. th' = [s \in Ids |-> th'[s]]
  BY DEF Signalled
<1>3. th' \in [Ids -> ThreadRec]
  BY <1>1, <1>2
<1> QED
  BY <1>1, <1>3

\* What the devices hold stays as it is.
LEMMA SameOutside ==
  ASSUME MasterInv, UNCHANGED <<outside, last>>
  PROVE  OutsideTypes' /\ BlocksKept'
BY DEF MasterInv, OutsideTypes, BlocksKept

\* stop_loop and cleanup tell the threads to stop: the invariant is kept.
LEMMA StopStep == ASSUME MasterInv, StopLoop \/ CleanUp PROVE MasterInv'
<1>1. /\ th' = Signalled /\ drv' \in {"stopping", "clearing"}
      /\ drv \in {"running", "in", "stopped"}
      /\ UNCHANGED <<clean, gen, list, slow, forgot, outside, image, last>>
  BY DEF StopLoop, CleanUp
<1>2. \A s \in Ids : Alive(s)' <=> Alive(s)
  BY <1>1, SignalledSame DEF Alive
<1>3. PluginTypes'
  BY <1>1 DEF MasterInv, PluginTypes
<1>4. Apart'
  <2>1. \A s \in Ids : th'[s].pc = th[s].pc
    BY <1>1, SignalledSame
  <2> QED
    BY <1>1, <1>2, <2>1 DEF MasterInv, Apart
<1>5. OutsideTypes' /\ BlocksKept'
  BY <1>1, SameOutside
<1> QED
  BY <1>1, <1>3, <1>4, <1>5, SignalledSame, Around

\* stop_loop and cleanup return, with every listed thread ended or after the deadline.
LEMMA ReturnedStep == ASSUME MasterInv, Joined \/ JoinExpires PROVE MasterInv'
<1>1. /\ drv \in {"stopping", "clearing"} /\ Returned
      /\ UNCHANGED <<gen, th, outside, image, last>>
      /\ \/ Survivors = {} /\ clean' = TRUE /\ slow' = slow
         \/ Survivors # {} /\ clean' = FALSE /\ slow' = slow + 1 /\ slow < MaxSlow
  BY DEF Joined, JoinExpires, MayReturn, StoppedClean
<1>2. \/ drv' = "stopped" /\ list' = list /\ forgot' = forgot
      \/ drv' = "out" /\ list' = {} /\ forgot' = (forgot \/ Survivors # {})
  BY <1>1 DEF Returned
<1>3. slow \in 0 .. MaxSlow /\ slow' \in 0 .. MaxSlow /\ (slow' = 0 => slow = 0 /\ slow' = slow)
  <2>1. slow \in 0 .. MaxSlow /\ MaxSlow \in Nat
    BY MasterAssumption DEF MasterInv, PluginTypes
  <2> QED
    BY <1>1, <2>1
<1>4. PluginTypes'
  <2>1. clean' \in BOOLEAN /\ forgot' \in BOOLEAN
    <3>1. forgot \in BOOLEAN
      BY DEF MasterInv, PluginTypes
    <3> QED
      BY <1>1, <1>2, <3>1
  <2>2. list' \in SUBSET Ids
    BY <1>2 DEF MasterInv, PluginTypes
  <2> QED
    BY <1>1, <1>2, <1>3, <2>1, <2>2 DEF MasterInv, PluginTypes
<1>5. \A s \in Ids : Alive(s)' <=> Alive(s)
  BY <1>1 DEF Alive
<1>6. ~forgot /\ Survivors = {} => \A s \in Ids : ~Alive(s)
  BY DEF MasterInv, Apart, Survivors
<1>7. Apart'
  <2>1. \A s \in Ids : s[1] > gen' => th'[s].pc = "none"
    BY <1>1 DEF MasterInv, Apart
  <2>2. ~forgot' => \A s \in Ids : Alive(s)' => s \in list'
    BY <1>2, <1>5, <1>6 DEF MasterInv, Apart
  <2>3. slow' = 0 => Survivors = {} /\ ~forgot
    <3>1. slow' = 0 => Survivors = {}
      <4>1. slow \in Nat
        BY <1>3, MasterAssumption
      <4> QED
        BY <1>1, <4>1
    <3> QED
      BY <1>3, <3>1 DEF MasterInv, Apart
  <2>4. slow' = 0 => ~forgot'
    BY <1>2, <2>3
  <2>5. slow' = 0 => \A s \in Ids : ~Alive(s)'
    BY <1>5, <1>6, <2>3
  <2>6. drv' = "stopped" /\ clean' => forgot' \/ \A s \in Ids : ~Alive(s)'
    BY <1>1, <1>2, <1>5, <1>6
  <2>7. drv' # "in"
    BY <1>2
  <2> QED
    BY <2>1, <2>2, <2>4, <2>5, <2>6, <2>7 DEF Apart
<1>8. OutsideTypes' /\ BlocksKept'
  BY <1>1, SameOutside
<1>9. th \in [Ids -> ThreadRec]
  BY DEF MasterInv, ThreadsKept
<1> QED
  BY <1>1, <1>3, <1>4, <1>7, <1>8, <1>9, Around

\* start_loop keeps the invariant: the threads it starts are of a start of their own.
LEMMA StartLoopStep == ASSUME MasterInv, StartLoop PROVE MasterInv'
<1>1. PICK started \in SUBSET Keys :
        LET new == {gen + 1} \X started
        IN  /\ th' = [t \in Ids |-> IF t \in new THEN Bare("connect", FALSE, 0) ELSE th[t]]
            /\ list' = list \cup new
  BY DEF StartLoop
<1> DEFINE new == {gen + 1} \X started
<1>2. /\ drv = "in" /\ drv' = "running" /\ gen' = gen + 1
      /\ UNCHANGED <<clean, slow, forgot, outside, image, last>>
      /\ th' = [t \in Ids |-> IF t \in new THEN Bare("connect", FALSE, 0) ELSE th[t]]
      /\ list' = list \cup new
  BY <1>1 DEF StartLoop
<1>3. gen \in Nat /\ gen + 1 \in 1 .. MaxGen /\ gen + 1 > gen
  <2>1. gen \in 0 .. MaxGen /\ gen < MaxGen /\ MaxGen \in Nat
    BY <1>2, MasterAssumption DEF MasterInv, PluginTypes, Apart
  <2> QED
    BY <2>1
<1>4. new \subseteq Ids /\ \A s \in new : s[1] = gen + 1
  BY <1>3 DEF Ids
<1> HIDE DEF new
<1>5. ASSUME NEW s \in new
      PROVE  /\ th[s].pc = "none" /\ th[s].got = <<>> /\ th[s].n = 0 /\ th[s].raw = <<>>
             /\ th'[s].pc = "connect" /\ th'[s].got = <<>> /\ th'[s].n = 0
             /\ th'[s].raw = <<>> /\ th'[s] \in ThreadRec
  <2>1. s \in Ids /\ th[s].pc = "none"
    BY <1>3, <1>4 DEF MasterInv, Apart
  <2>2. th'[s] = Bare("connect", FALSE, 0)
    BY <1>2, <2>1
  <2>3. 0 \in 0 .. Period - 1
    BY MasterAssumption
  <2> DEFINE r == Bare("connect", FALSE, 0)
  <2>4. r \in ThreadRec /\ r.pc = "connect" /\ r.got = <<>> /\ r.raw = <<>> /\ r.n = 0
    BY <2>3, BareSane
  <2>5. th[s].got = <<>> /\ th[s].n = 0 /\ th[s].raw = <<>>
    BY <2>1, Hands
  <2> HIDE DEF r
  <2> QED
    BY <2>1, <2>2, <2>4, <2>5 DEF r
<1>6. \A s \in Ids \ new : th'[s] = th[s]
  BY <1>2
<1>7. th' \in [Ids -> ThreadRec]
  <2>1. \A s \in Ids : th'[s] \in ThreadRec
    BY <1>5, <1>6, Hands
  <2> QED
    BY <1>2, <2>1
<1>8. PluginTypes'
  <2>1. list' \in SUBSET Ids /\ gen' \in 0 .. MaxGen
    BY <1>2, <1>3, <1>4 DEF MasterInv, PluginTypes
  <2> QED
    BY <1>2, <2>1 DEF MasterInv, PluginTypes
<1>9. Apart'
  <2>1. ASSUME NEW s \in Ids, s[1] > gen' PROVE th'[s].pc = "none"
    <3>1. s[1] \in Nat
      BY DEF Ids
    <3>2. s \notin new /\ s[1] > gen
      BY <1>2, <1>3, <1>4, <2>1, <3>1
    <3> QED
      BY <1>6, <3>2 DEF MasterInv, Apart
  <2>2. \A s \in Ids \ new : Alive(s)' <=> Alive(s)
    BY <1>6 DEF Alive
  <2>3. ~forgot' => \A s \in Ids : Alive(s)' => s \in list'
    BY <1>2, <2>2 DEF MasterInv, Apart
  <2>4. slow' = 0 => \A s \in Ids : Alive(s)' => s[1] = gen'
    BY <1>2, <1>4, <2>2 DEF MasterInv, Apart
  <2> QED
    BY <1>2, <2>1, <2>3, <2>4 DEF MasterInv, Apart
<1>10. OutsideTypes' /\ BlocksKept'
  BY <1>2, SameOutside
<1>11. \A s \in Ids :
         /\ th'[s].got = th[s].got /\ th'[s].n = th[s].n /\ th'[s].raw = th[s].raw
         /\ \/ th'[s].pc = th[s].pc /\ th'[s].k = th[s].k
            \/ th[s].pc = "none" /\ th'[s].pc = "connect"
  BY <1>5, <1>6
<1> QED
  BY <1>2, <1>7, <1>8, <1>9, <1>10, <1>11, Around

\* An endpoint that goes down, or comes back, keeps the invariant.
LEMMA DownStep == ASSUME MasterInv, NEW key \in Keys, Down(key) \/ Up(key) PROVE MasterInv'
<1>1. /\ UNCHANGED <<plugin, mem, image, last>> /\ down' \in SUBSET Keys
      /\ faults' \in 0 .. MaxFaults
  <2>1. faults \in 0 .. MaxFaults /\ MaxFaults \in Nat /\ down \in SUBSET Keys
    BY MasterAssumption DEF MasterInv, OutsideTypes
  <2>2. faults' = faults \/ (faults < MaxFaults /\ faults' = faults + 1)
    BY DEF Down, Up
  <2>3. faults' \in 0 .. MaxFaults
    BY <2>1, <2>2
  <2> QED
    BY <2>1, <2>3 DEF Down, Up
<1>2. th \in [Ids -> ThreadRec]
  BY DEF MasterInv, ThreadsKept
<1>3. \A s \in Ids : th'[s] = th[s] \/ th'[s] = [th[s] EXCEPT !.works = FALSE]
  BY <1>2 DEF Down, Up
<1>4. ASSUME NEW s \in Ids
      PROVE  /\ th'[s] \in ThreadRec
             /\ th'[s].got = th[s].got /\ th'[s].n = th[s].n /\ th'[s].raw = th[s].raw
             /\ th'[s].pc = th[s].pc /\ th'[s].k = th[s].k
  <2>1. th[s] \in ThreadRec
    BY Hands
  <2>2. CASE th'[s] = th[s]
    BY <2>1, <2>2, Zenon
  <2>3. CASE th'[s] = [th[s] EXCEPT !.works = FALSE]
    BY <2>1, <2>3 DEF ThreadRec
  <2> QED
    BY <1>3, <2>2, <2>3
<1>5. th' \in [Ids -> ThreadRec]
  <2>1. th' = [s \in Ids |-> th'[s]]
    BY <1>2 DEF Down, Up
  <2> QED
    BY <1>4, <2>1
<1>6. OutsideTypes' /\ BlocksKept'
  BY <1>1 DEF MasterInv, OutsideTypes, BlocksKept
<1>7. PluginTypes' /\ Apart'
  <2>1. \A s \in Ids : Alive(s)' <=> Alive(s)
    BY <1>4 DEF Alive
  <2>2. Apart'
    BY <1>1, <1>4, <2>1 DEF MasterInv, Apart
  <2> QED
    BY <1>1, <2>2 DEF MasterInv, PluginTypes
<1> QED
  BY <1>1, <1>4, <1>5, <1>6, <1>7, Around

\* The field changes all bits of a block at once: the invariant is kept.
LEMMA FieldStep == ASSUME MasterInv, NEW b \in Field, FieldChanges(b) PROVE MasterInv'
<1>1. /\ mem' = [mem EXCEPT ![b] = [i \in DOMAIN mem[b] |-> 1 - mem[b][i]]]
      /\ UNCHANGED <<plugin, th, down, faults, image, last>>
  BY DEF FieldChanges
<1>2. mem \in [Blocks -> Seq(Int)]
  BY DEF MasterInv, OutsideTypes
<1>3. ASSUME NEW block \in Seq(Int)
      PROVE  [i \in DOMAIN block |-> 1 - block[i]] \in Seq(Int)
             /\ Len([i \in DOMAIN block |-> 1 - block[i]]) = Len(block)
  <2>1. Len(block) \in Nat /\ DOMAIN block = 1 .. Len(block)
        /\ \A i \in 1 .. Len(block) : 1 - block[i] \in Int
    BY <1>3
  <2> DEFINE n == Len(block)
  <2> DEFINE new == [i \in 1 .. n |-> 1 - block[i]]
  <2>2. new \in [1 .. n -> Int]
    BY <2>1
  <2> HIDE DEF new, n
  <2>3. n \in Nat
    BY <2>1 DEF n
  <2>4. new \in Seq(Int) /\ Len(new) = n
    BY <2>2, <2>3
  <2> QED
    BY <2>1, <2>4 DEF new, n
<1>4. mem' \in [Blocks -> Seq(Int)]
  BY <1>1, <1>2, <1>3
<1>5. ASSUME NEW j \in DOMAIN Points PROVE Plausible(j, mem'[Points[j].at])
  <2>1. Points[j].at \in Blocks /\ Plausible(j, mem[Points[j].at])
    BY DEF Blocks, MasterInv, BlocksKept
  <2>2. CASE Points[j].at = b
    <3> DEFINE old == mem[b]
    <3> DEFINE new == [i \in DOMAIN old |-> 1 - old[i]]
    <3>1. mem'[Points[j].at] = new /\ old \in Seq(Int)
      BY <1>1, <1>2, <2>1, <2>2
    <3>2. Len(old) = Count(Points[j]) /\ \A x, y \in 1 .. Count(Points[j]) : old[x] = old[y]
      BY <2>1, <2>2 DEF Plausible
    <3> HIDE DEF old
    <3>3. new \in Seq(Int) /\ Len(new) = Count(Points[j])
      BY <1>3, <3>1, <3>2
    <3>4. \A x \in 1 .. Len(old) : new[x] = 1 - old[x]
      BY <3>1
    <3>5. \A x, y \in 1 .. Count(Points[j]) : new[x] = new[y]
      BY <3>2, <3>4
    <3>6. ~Mirror(j)
      BY <2>2 DEF Mirror
    <3> HIDE DEF new
    <3> QED
      BY <3>1, <3>3, <3>5, <3>6 DEF Plausible
  <2>3. CASE Points[j].at # b
    BY <1>1, <1>2, <2>1, <2>3
  <2> QED
    BY <2>2, <2>3
<1>6. OutsideTypes' /\ BlocksKept'
  BY <1>1, <1>4, <1>5 DEF MasterInv, OutsideTypes, BlocksKept
<1>7. PluginTypes' /\ Apart'
  <2>1. \A s \in Ids : Alive(s)' <=> Alive(s)
    BY <1>1 DEF Alive
  <2>2. Apart'
    BY <1>1, <2>1 DEF MasterInv, Apart
  <2> QED
    BY <1>1, <2>2 DEF MasterInv, PluginTypes
<1>8. th' \in [Ids -> ThreadRec]
  BY <1>1 DEF MasterInv, ThreadsKept
<1> QED
  BY <1>1, <1>6, <1>7, <1>8, Around

\* Nobody writes or fetches while the image lock is free.
LEMMA LockFree ==
  ASSUME MasterInv, lock = NoOne, NEW s \in Ids
  PROVE  th[s].pc \notin {"put", "fetch"} /\ th[s].n = 0
<1>1. s # NoOne
  <2>1. s[1] \in 1 .. MaxGen
    BY DEF Ids
  <2>2. NoOne[1] = 0
    BY DEF NoOne
  <2> QED
    BY <2>1, <2>2
<1>2. th[s].pc \notin {"put", "fetch"}
  BY <1>1 DEF MasterInv, LockKept
<1> QED
  BY <1>2, Hands

\* A scan keeps the invariant: no cell of an input that has its cells to itself is an
\* output's, and all outputs get values of the scan.
LEMMA ScanStep == ASSUME MasterInv, Scan PROVE MasterInv'
<1>1. PICK v \in ProgramValues :
        img' = [c \in Cells |-> IF c \in Outputs THEN v ELSE Drained[c]]
  BY DEF Scan
<1>2. /\ lock = NoOne /\ queue' = NoWrites /\ DOMAIN queue' = {}
      /\ UNCHANGED <<plugin, th, outside, lock, last>>
  BY DEF Scan, NoWrites
<1>3. \A c \in Cells : Drained[c] \in Int /\ Drained'[c] = img'[c]
  BY <1>2 DEF MasterInv, ImageTypes, Drained
<1>4. ImageTypes'
  <2>1. v \in Int
    BY MasterAssumption
  <2> QED
    BY <1>1, <1>2, <1>3, <2>1 DEF ImageTypes
<1>5. Pure \subseteq Outputs /\ Pure \subseteq Cells
  BY Config DEF Pure, Outputs, Cells
<1>6. ScansKept'
  <2>1. \A c \in Pure : img'[c] = v
    BY <1>1, <1>5
  <2>2. \A s \in Ids : th'[s].pc # "fetch"
    BY <1>2, LockFree
  <2> QED
    BY <1>2, <2>1, <2>2 DEF ScansKept
<1>7. ASSUME NEW j \in Reads, Sole(j), NEW a \in Elements(j) PROVE AtCell(j, a)' = AtCell(j, a)
  <2>1. j \in DOMAIN Points /\ Cell(Points[j], a - 1) \in CellsOf(Points[j])
        /\ Cell(Points[j], a - 1) \in Cells
    BY Config, ElementCells
  <2>2. Cell(Points[j], a - 1) \notin Outputs
    <3> SUFFICES ASSUME Cell(Points[j], a - 1) \in Outputs PROVE FALSE
      OBVIOUS
    <3>1. PICK i \in Writes : Cell(Points[j], a - 1) \in CellsOf(Points[i])
      BY DEF Outputs
    <3>2. i \in DOMAIN Points /\ i # j
      BY Config
    <3> QED
      BY <1>7, <2>1, <3>1, <3>2 DEF Sole, Private
  <2> QED
    BY <1>1, <1>3, <2>1, <2>2 DEF AtCell
<1>8. FieldWhole'
  <2>1. \A j : Underway(j)' <=> Underway(j)
    BY <1>2 DEF Underway
  <2> QED
    BY <1>7, <2>1 DEF MasterInv, ImageKept, FieldWhole
<1>9. Mirrored'
  <2>1. \A j \in Reads : Mirror(j) => Sole(j)
    BY Config DEF Mirror
  <2> QED
    BY <1>7, <2>1 DEF MasterInv, ImageKept, Mirrored
<1>10. Landed'
  <2>1. \A j : Awaited(j)' <=> Awaited(j)
    BY <1>2 DEF Awaited
  <2> QED
    BY <1>2, <1>7, <2>1 DEF MasterInv, ImageKept, Landed
<1>11. Latest'
  BY <1>2 DEF MasterInv, ImageKept, Latest
<1>12. Underwritten'
  BY <1>2, LockFree DEF Underwritten
<1>13. ImageKept'
  BY <1>8, <1>9, <1>10, <1>11, <1>12 DEF ImageKept
<1>14. ThreadsKept' /\ LockKept'
  BY <1>2 DEF MasterInv, ThreadsKept, LockKept
<1>15. PluginTypes' /\ Apart'
  <2>1. \A s \in Ids : Alive(s)' <=> Alive(s)
    BY <1>2 DEF Alive
  <2>2. Apart'
    BY <1>2, <2>1 DEF MasterInv, Apart
  <2> QED
    BY <1>2, <2>2 DEF MasterInv, PluginTypes
<1>16. OutsideTypes' /\ BlocksKept'
  BY <1>2, SameOutside
<1> QED
  BY <1>4, <1>6, <1>13, <1>14, <1>15, <1>16 DEF MasterInv

\* Fresh tables and zeros for what was read, with no thread that writes or fetches, nor,
\* unless a join timed out, one that has read anything.
FreshImage ==
  /\ img = Blank /\ queue = NoWrites /\ last = AllZero
  /\ \A s \in Ids : th[s].n = 0 /\ th[s].pc # "fetch"
  /\ slow = 0 => \A s \in Ids : th[s].got = <<>>

\* What fresh tables are good for.
FreshHolds ==
  /\ ImageTypes /\ ScansKept /\ ImageKept /\ last \in [Reads -> Seq(Int)]
  /\ \A j \in Reads : Len(last[j]) = Count(Points[j])

\* Fresh tables show what the reads gave.
LEMMA FreshTables == FreshImage => FreshHolds
<1> SUFFICES ASSUME FreshImage PROVE FreshHolds
  OBVIOUS
<1>0. /\ img = Blank /\ queue = NoWrites /\ last = AllZero
      /\ \A s \in Ids : th[s].n = 0 /\ th[s].pc # "fetch"
      /\ slow = 0 => \A s \in Ids : th[s].got = <<>>
  BY DEF FreshImage
<1>1. DOMAIN queue = {} /\ \A c \in Cells : img[c] = 0 /\ Drained[c] = 0
  BY <1>0 DEF NoWrites, Blank, Drained
<1>2. 0 \in ProgramValues
  BY MasterAssumption
<1>3. ImageTypes
  <2>1. Blank \in [Cells -> Int]
    BY DEF Blank
  <2> QED
    BY <1>0, <1>1, <2>1 DEF ImageTypes
<1>4. Pure \subseteq Cells
  BY Config DEF Pure, Cells
<1>5. ScansKept
  BY <1>0, <1>1, <1>2, <1>4 DEF ScansKept
<1>6. \A j \in DOMAIN Points : \A a \in Elements(j) : AtCell(j, a) = 0
  BY <1>1, ElementCells DEF AtCell
<1>7. \A j \in Reads : j \in DOMAIN Points /\ last[j] = Zeros(Points[j])
  BY <1>0, Config DEF AllZero
<1>8. \A j \in Reads : last[j] \in Seq(Int) /\ Len(last[j]) = Count(Points[j])
  BY <1>7, Config, Counts
<1>9. last \in [Reads -> Seq(Int)]
  BY <1>0, <1>8 DEF AllZero
<1>10. FieldWhole /\ Mirrored
  BY <1>2, <1>6, Config DEF FieldWhole, Mirrored
<1>11. Landed
  <2> SUFFICES ASSUME NEW j \in Reads, NEW a \in Elements(j)
               PROVE  AtCell(j, a) = Converted(Points[j], last[j])[a]
    BY DEF Landed
  <2>1. Converted(Points[j], Zeros(Points[j]))[a] = 0
    BY <1>7, Config, ZeroData DEF Elements
  <2> QED
    BY <1>6, <1>7, <2>1
<1>12. Latest
  BY <1>0 DEF Latest
<1>13. Underwritten
  BY <1>0 DEF Underwritten
<1> QED
  BY <1>3, <1>5, <1>8, <1>9, <1>10, <1>11, <1>12, <1>13 DEF ImageKept, FreshHolds

\* A program is loaded: fresh tables keep the invariant.
LEMMA LoadStep == ASSUME MasterInv, Load PROVE MasterInv'
<1>1. /\ drv = "out" /\ gen < MaxGen /\ lock = NoOne /\ drv' = "in"
      /\ img' = Blank /\ queue' = NoWrites /\ last' = AllZero
      /\ UNCHANGED <<clean, gen, list, slow, forgot, th, outside, lock>>
  BY DEF Load
<1>2. \A s \in Ids : th[s].pc \notin {"put", "fetch"} /\ th[s].n = 0
  BY <1>1, LockFree
<1>3. slow = 0 => \A s \in Ids : ~Alive(s)
  BY <1>1 DEF MasterInv, Apart
<1>4. slow = 0 => \A s \in Ids : th[s].got = <<>>
  <2> SUFFICES ASSUME slow = 0, NEW s \in Ids PROVE th[s].got = <<>>
    OBVIOUS
  <2>1. th[s].pc \in {"none", "ended"}
    BY <1>3 DEF Alive
  <2> QED
    BY <2>1, Hands
<1>5. FreshImage'
  BY <1>1, <1>2, <1>4 DEF FreshImage
<1>6. /\ ImageTypes' /\ ScansKept' /\ ImageKept' /\ last' \in [Reads -> Seq(Int)]
      /\ \A j \in Reads : Len(last'[j]) = Count(Points[j])
  <2>1. FreshHolds'
    BY <1>5, FreshTables, PTL
  <2> QED
    BY <2>1 DEF FreshHolds
<1>7. BlocksKept' /\ OutsideTypes'
  BY <1>1, <1>6 DEF MasterInv, BlocksKept, OutsideTypes
<1>8. ThreadsKept' /\ LockKept'
  BY <1>1 DEF MasterInv, ThreadsKept, LockKept
<1>9. PluginTypes' /\ Apart'
  <2>1. \A s \in Ids : Alive(s)' <=> Alive(s)
    BY <1>1 DEF Alive
  <2>2. Apart'
    BY <1>1, <1>3, <2>1 DEF MasterInv, Apart
  <2> QED
    BY <1>1, <2>2 DEF MasterInv, PluginTypes
<1> QED
  BY <1>6, <1>7, <1>8, <1>9 DEF MasterInv

-----------------------------------------------------------------------------
(* The theorems *)

\* Before the first program is loaded there is nothing to read or to send.
LEMMA MasterInit == Init => MasterInv
<1> SUFFICES ASSUME Init PROVE MasterInv
  OBVIOUS
<1> DEFINE none == Bare("none", FALSE, 0)
<1>1. /\ drv = "out" /\ clean = TRUE /\ gen = 0 /\ list = {} /\ slow = 0 /\ forgot = FALSE
      /\ th = [t \in Ids |-> none]
      /\ mem = [b \in Blocks |-> BlankBlock(b)] /\ down = {} /\ faults = 0
      /\ img = Blank /\ queue = NoWrites /\ lock = NoOne
      /\ last = AllZero
  BY DEF Init, NoThread
<1>2. /\ none \in ThreadRec /\ none.pc = "none" /\ none.got = <<>> /\ none.raw = <<>>
      /\ none.n = 0 /\ \A key : Sane(key, none) /\ GotSane(key, none) /\ RawSane(none)
  <2>1. 0 \in 0 .. Period - 1
    BY MasterAssumption
  <2> QED
    BY <2>1, BareSane
<1> HIDE DEF none
<1>3. \A t \in Ids : th[t] = none
  BY <1>1
<1>4. ThreadsKept
  BY <1>1, <1>2 DEF ThreadsKept
<1>5. LockKept
  <2>1. ASSUME NEW s \in Ids PROVE s # NoOne
    <3>1. s[1] \in 1 .. MaxGen
      BY DEF Ids
    <3>2. NoOne[1] = 0
      BY DEF NoOne
    <3> QED
      BY <3>1, <3>2
  <2> QED
    BY <1>1, <1>2, <1>3, <2>1 DEF LockKept
<1>6. Apart /\ PluginTypes
  <2>1. \A t \in Ids : ~Alive(t)
    BY <1>2, <1>3 DEF Alive
  <2>2. Apart
    BY <1>1, <1>2, <1>3, <2>1 DEF Apart
  <2>3. 0 \in 0 .. MaxGen /\ 0 \in 0 .. MaxSlow
    BY MasterAssumption
  <2> QED
    BY <1>1, <2>2, <2>3 DEF PluginTypes
<1>7. FreshImage
  BY <1>1, <1>2, <1>3 DEF FreshImage
<1>8. /\ ImageTypes /\ ScansKept /\ ImageKept /\ last \in [Reads -> Seq(Int)]
      /\ \A j \in Reads : Len(last[j]) = Count(Points[j])
  BY <1>7, FreshTables DEF FreshHolds
<1>9. ASSUME NEW j \in DOMAIN Points
      PROVE  Plausible(j, mem[Points[j].at]) /\ mem[Points[j].at] \in Seq(Int)
  <2> DEFINE b == Points[j].at
  <2> DEFINE i == CHOOSE i \in DOMAIN Points : Points[i].at = b
  <2>1. i \in DOMAIN Points /\ Points[i].at = b
    OBVIOUS
  <2>2. mem[b] = Zeros(Points[i])
    BY <1>1 DEF Blocks, BlankBlock
  <2> HIDE DEF i
  <2>3. Plausible(i, mem[b])
    BY <2>1, <2>2, PlausibleZero
  <2>4. Plausible(j, mem[b])
    BY <2>1, <2>3, SameBlock
  <2> QED
    BY <2>4 DEF Plausible
<1>10. mem \in [Blocks -> Seq(Int)]
  <2>1. \A b \in Blocks : mem[b] \in Seq(Int)
    BY <1>9 DEF Blocks
  <2> QED
    BY <1>1, <2>1
<1>11. OutsideTypes /\ BlocksKept
  <2>1. 0 \in 0 .. MaxFaults
    BY MasterAssumption
  <2> QED
    BY <1>1, <1>8, <1>9, <1>10, <2>1 DEF OutsideTypes, BlocksKept
<1> QED
  BY <1>4, <1>5, <1>6, <1>8, <1>11 DEF MasterInv

\* Every step keeps the invariant.
LEMMA MasterStep == MasterInv /\ [Next]_vars => MasterInv'
<1> SUFFICES ASSUME MasterInv, [Next]_vars PROVE MasterInv'
  OBVIOUS
<1>1. CASE Driver
  BY <1>1, LoadStep, StartLoopStep, StopStep, ReturnedStep DEF Driver
<1>2. CASE Scan
  BY <1>2, ScanStep
<1>3. ASSUME NEW t \in Ids, Thread(t) PROVE MasterInv'
  <2>1. CASE Connect(t) \/ ConnectStopped(t) \/ SkipPoint(t) \/ ReadPoint(t) \/ ReadFails(t)
    BY <2>1, ConnectStep, ConnectStoppedStep, SkipPointStep, ReadPointStep, ReadFailsStep
  <2>2. CASE StartBatch(t) \/ NoBatch(t) \/ Put(t) \/ EndBatch(t)
    BY <2>2, StartBatchStep, NoBatchStep, PutStep, EndBatchStep
  <2>3. CASE StartFetch(t) \/ NothingToWrite(t) \/ Fetch(t)
    BY <2>3, StartFetchStep, NothingToWriteStep, FetchStep
  <2>4. CASE Send(t) \/ SendFails(t) \/ WritesOver(t) \/ Sleep(t)
    BY <2>4, SendStep, SendFailsStep, WritesOverStep, SleepStep
  <2> QED
    BY <1>3, <2>1, <2>2, <2>3, <2>4, Zenon DEF Thread
<1>4. ASSUME NEW key \in Keys, Down(key) \/ Up(key) PROVE MasterInv'
  BY <1>4, DownStep
<1>5. ASSUME NEW b \in Field, FieldChanges(b) PROVE MasterInv'
  BY <1>5, FieldStep
<1>6. CASE UNCHANGED vars
  <2>1. UNCHANGED <<plugin, th, outside, image, last>>
    BY <1>6
  <2>2. th' \in [Ids -> ThreadRec]
    BY <2>1 DEF MasterInv, ThreadsKept
  <2>3. PluginTypes' /\ Apart'
    <3>1. \A s \in Ids : Alive(s)' <=> Alive(s)
      BY <2>1 DEF Alive
    <3>2. Apart'
      BY <2>1, <3>1 DEF MasterInv, Apart
    <3> QED
      BY <2>1, <3>2 DEF MasterInv, PluginTypes
  <2>4. OutsideTypes' /\ BlocksKept'
    BY <2>1, SameOutside
  <2> QED
    BY <2>1, <2>2, <2>3, <2>4, Around
<1> QED
  BY <1>1, <1>2, <1>3, <1>4, <1>5, <1>6 DEF Next

\* The invariant holds in every state the plugin, the devices and the program can reach.
THEOREM MasterInvHolds == Spec => []MasterInv
<1>1. Init => MasterInv
  BY MasterInit
<1>2. MasterInv /\ [Next]_vars => MasterInv'
  BY MasterStep
<1> QED
  BY <1>1, <1>2, PTL DEF Spec

\* The elements of a point in the image, seen as a sequence.
LEMMA ShownIs ==
  ASSUME NEW j \in DOMAIN Points
  PROVE  /\ DOMAIN Shown(j) = Elements(j) /\ \A a \in Elements(j) : Shown(j)[a] = AtCell(j, a)
         /\ ToSet(Shown(j)) = {AtCell(j, a) : a \in Elements(j)}
BY DEF Shown, AtCell, Elements, ToSet

\* The types that the run checks.
LEMMA TypesHold == MasterInv => TypeOK
<1> SUFFICES ASSUME MasterInv PROVE TypeOK
  OBVIOUS
<1>1. PluginTypes /\ ImageTypes /\ OutsideTypes /\ BlocksKept
  BY DEF MasterInv
<1>2. ASSUME NEW t \in Ids
      PROVE  /\ th[t].pc \in {"none", "connect", "read", "put", "gather", "fetch", "send",
                              "sleep", "ended"}
             /\ th[t].stop \in BOOLEAN /\ th[t].flag \in BOOLEAN /\ th[t].works \in BOOLEAN
             /\ th[t].k \in 0 .. Len(Points) /\ th[t].cyc \in 0 .. Period - 1
  <2>1. th[t] \in ThreadRec
    BY Hands
  <2> QED
    BY <2>1, Zenon DEF ThreadRec
<1>3. \A j \in DOMAIN Points : Len(mem[Points[j].at]) = Count(Points[j])
  BY <1>1 DEF BlocksKept, Plausible
<1>4. lock \in Ids \cup {NoOne}
  BY DEF MasterInv, LockKept
<1> QED
  BY <1>1, <1>2, <1>3, <1>4 DEF TypeOK, PluginTypes, ImageTypes, OutsideTypes

\* Outside a thread's reads the image holds what the last read of each point gave.
LEMMA ReadsLandFollows == MasterInv => ReadsLand
<1> SUFFICES ASSUME MasterInv, ~Lingering, NEW j \in Reads, Sole(j),
                    \A t \in Ids : KeyOf(t) = KeyAt(j) => ~Inside(t)
             PROVE  Shows(j, last[j])
  BY DEF ReadsLand
<1>1. slow = 0
  <2>1. slow \in Nat
    BY MasterAssumption DEF MasterInv, PluginTypes
  <2> QED
    BY <2>1 DEF Lingering
<1>2. ~Awaited(j)
  <2> SUFFICES ASSUME Awaited(j) PROVE FALSE
    OBVIOUS
  <2>1. PICK t \in Ids : \E m \in DOMAIN th[t].got : th[t].got[m][1] = j
    BY DEF Awaited
  <2>2. KeyOf(t) = KeyAt(j) /\ th[t].got # <<>>
    BY <2>1, Hands DEF GotSane
  <2> QED
    BY <2>2, Hands DEF Sane, Inside
<1>3. j \in DOMAIN Points
  BY Config
<1>4. ASSUME Supported(Points[j]) PROVE Shown(j) = Converted(Points[j], last[j])
  <2>1. \A a \in Elements(j) : AtCell(j, a) = Converted(Points[j], last[j])[a]
    BY <1>1, <1>2, <1>4 DEF MasterInv, ImageKept, Landed
  <2>2. \A a \in Elements(j) : Shown(j)[a] = Converted(Points[j], last[j])[a]
    BY <1>3, <2>1, ShownIs
  <2>3. Shown(j) = [a \in Elements(j) |-> Shown(j)[a]]
    BY DEF Shown, Elements
  <2>4. Converted(Points[j], last[j]) =
          [a \in Elements(j) |-> Converted(Points[j], last[j])[a]]
    BY DEF Converted, Elements
  <2> HIDE DEF Elements
  <2> QED
    BY <2>2, <2>3, <2>4, Zenon
<1> QED
  BY <1>4 DEF Shows

\* What comes back from a device that holds an output is a value the program wrote.
LEMMA ReadBackFollows == MasterInv => ReadBack
<1> SUFFICES ASSUME MasterInv, NEW j \in Reads, Mirror(j)
             PROVE  ToSet(Shown(j)) \subseteq ProgramValues
  BY DEF ReadBack, Mirror
<1>1. \A a \in Elements(j) : AtCell(j, a) \in ProgramValues
  BY DEF MasterInv, ImageKept, Mirrored
<1>2. ToSet(Shown(j)) = {AtCell(j, a) : a \in Elements(j)}
  BY Config, ShownIs
<1> QED
  BY <1>1, <1>2

\* The image shows the devices' values, in the right cells and the right registers.
THEOREM ImageTrueHolds == Spec => []ImageTrue
<1>1. MasterInv => ImageTrue
  BY TypesHold, ReadsLandFollows, ReadBackFollows DEF ImageTrue
<1> QED
  BY <1>1, MasterInvHolds, PTL

\* Bits the field changes together are not seen apart while the lock is free.
LEMMA BatchWholeFollows == MasterInv => BatchWhole
<1> SUFFICES ASSUME MasterInv, lock = NoOne, NEW j \in Reads, Points[j].at \in Field, Sole(j),
                    NEW a \in DOMAIN Shown(j)
             PROVE  Shown(j)[a] = Shown(j)[1]
  BY DEF BatchWhole
<1>1. j \in DOMAIN Points
  BY Config
<1>2. ~Underway(j)
  <2>1. \A s \in Ids : th[s].n = 0
    BY LockFree
  <2> QED
    BY <2>1 DEF Underway
<1>3. a \in Elements(j) /\ 1 \in Elements(j)
  BY <1>1, ShownIs, ElementCells, SMT DEF Elements
<1>4. AtCell(j, a) = AtCell(j, 1)
  BY <1>2, <1>3 DEF MasterInv, ImageKept, FieldWhole
<1> QED
  BY <1>1, <1>3, <1>4, ShownIs

\* What a thread sends in one cycle comes from one scan.
LEMMA OneScanFollows == MasterInv => OneScan
<1> SUFFICES ASSUME MasterInv, NEW t \in Ids, NEW m \in DOMAIN th[t].raw,
                    NEW i \in DOMAIN th[t].raw, Sole(th[t].raw[m][1]), Sole(th[t].raw[i][1])
             PROVE  ToSet(th[t].raw[m][2]) = ToSet(th[t].raw[i][2])
  BY DEF OneScan
<1> DEFINE x == th[t].raw[m][2]
<1> DEFINE y == th[t].raw[i][2]
<1>0. RawSane(th[t]) /\ th[t] \in ThreadRec
  BY Hands
<1>1. th[t].raw \in Seq(Writes \X Seq(Int))
  BY <1>0 DEF ThreadRec
<1>2. /\ x \in Seq(Int) /\ y \in Seq(Int)
      /\ th[t].raw[m][1] \in Writes /\ th[t].raw[i][1] \in Writes
  BY <1>1
<1>3. /\ Len(x) = Points[th[t].raw[m][1]].length /\ Len(y) = Points[th[t].raw[i][1]].length
      /\ \A a \in 1 .. Len(x), b \in 1 .. Len(y) : x[a] = y[b]
  BY <1>0 DEF RawSane
<1>4. Len(x) \in Nat \ {0} /\ Len(y) \in Nat \ {0}
  <2>1. \A j \in Writes : Points[j].length \in Nat \ {0}
    BY Config, ElementCells
  <2> QED
    BY <1>2, <1>3, <2>1
<1> HIDE DEF x, y
<1>5. 1 \in 1 .. Len(x) /\ 1 \in 1 .. Len(y)
  BY <1>4
<1>6. DOMAIN x = 1 .. Len(x) /\ DOMAIN y = 1 .. Len(y)
  BY <1>2
<1>7. ToSet(x) = {x[1]} /\ ToSet(y) = {x[1]}
  <2>1. \A a \in 1 .. Len(x) : x[a] = y[1]
    BY <1>3, <1>5
  <2>2. \A b \in 1 .. Len(y) : y[b] = x[1]
    BY <1>3, <1>5
  <2> QED
    BY <1>5, <1>6, <2>1, <2>2 DEF ToSet
<1> QED
  BY <1>7 DEF x, y

\* What a cycle reads or sends is not torn between two scans.
THEOREM TransfersWholeHolds == Spec => []TransfersWhole
<1>1. MasterInv => TransfersWhole
  BY BatchWholeFollows, OneScanFollows DEF TransfersWhole
<1> QED
  BY <1>1, MasterInvHolds, PTL

\* Threads do not outlive a stop unnoticed, nor share a bus with their successors.
THEOREM MastersApartHolds == Spec => []MastersApart
<1>1. MasterInv => MastersApart
  <2> SUFFICES ASSUME MasterInv PROVE MastersApart
    OBVIOUS
  <2>1. OneMaster
    <3> SUFFICES ASSUME NEW s \in Ids, NEW t \in Ids, s # t, KeyOf(s) = KeyOf(t),
                        Alive(s), Alive(t)
                 PROVE  Lingering
      BY DEF OneMaster
    <3>1. slow \in Nat /\ slow # 0
      BY OneThread, MasterAssumption DEF MasterInv, PluginTypes
    <3> QED
      BY <3>1 DEF Lingering
  <2>2. StopHonest
    BY DEF MasterInv, Apart, StopHonest
  <2> QED
    BY <2>1, <2>2 DEF MastersApart
<1> QED
  BY <1>1, MasterInvHolds, PTL
=============================================================================
