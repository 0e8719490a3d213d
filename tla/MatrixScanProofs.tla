------------------------- MODULE MatrixScanProofs -------------------------
(***************************************************************************)
(* When mt_poll_scan keeps samples of different iterations apart. The     *)
(* run poll_isolation shows that it does not on a 64-bit build, nor on a  *)
(* table whose mmap entries are fewer than mem_poll_wb. Here: on a 32-bit *)
(* build (sizeof(unsigned long) = sizeof(unsigned int) = 4) and for       *)
(* tables whose counts fit their write-back sizes, every sample of        *)
(* iteration i lies in a slot of its own, for every table and every       *)
(* number of records.                                                     *)
(***************************************************************************)
EXTENDS MatrixScan, TLAPS

(* A table whose counts fit the result regions that                    *)
(* mt_calculate_memory_requirements sizes: no more msr operations than    *)
(* msr_poll_wb (so no more READs), at least mem_poll_wb mmap entries (the *)
(* loop runs to mem_poll_wb) of at most one word each, and room for the  *)
(* two pci_ops words of a record (pci_ops_poll_wb >= 2). cfg_db needs no *)
(* bound: it is the last region an iteration writes, so its stride alone *)
(* keeps iterations apart. mt_initialize_memory checks none of this.      *)
WellFormed(t) ==
  /\ t.records \in Nat /\ t.msrWb \in Nat /\ t.memWb \in Nat
  /\ t.pciWb \in Nat /\ t.cfgLen \in Nat
  /\ t.msrOps \in Seq(STRING) /\ t.mmap \in Seq({0, 1})
  /\ Len(t.msrOps) <= t.msrWb
  /\ t.memWb <= Len(t.mmap)
  /\ 2 <= t.pciWb

(* A 32-bit build with well-formed tables.                                *)
Build32 ==
  /\ LongBytes = 4 /\ MsrBytes \in Nat
  /\ \A t \in Tables : WellFormed(t)

(* Per poll sub-region (msr, mem, pci_ops, cfg_db): where it starts and   *)
(* the bytes one iteration writes of it (its stride).                     *)
Start(t)  == <<MsrBase(t), MemBase(t), PciBase(t), CfgBase(t)>>
Stride(t) == <<MsrBytes * t.msrWb, LongBytes * t.memWb, LongBytes * 2,
               LongBytes * t.cfgLen>>

(* Write w lies in the slot of its iteration in a region at start with    *)
(* the given stride.                                                      *)
InSlot(w, start, stride) ==
  /\ start + stride * w.iter <= w.lo
  /\ w.lo <= w.hi
  /\ w.hi <= start + stride * (w.iter + 1)

ScanTypeOK ==
  /\ tbl \in Tables /\ live \in BOOLEAN
  /\ pc \in {"idle", "msr", "mem", "pci", "cfg"}
  /\ iter \in Nat /\ lutLoop \in Nat /\ msrLoop \in Nat /\ memLoop \in Nat

(* The loop counters of the running call.                                 *)
LoopShape ==
  /\ pc # "idle" => iter < tbl.records
  /\ pc = "msr" => lutLoop <= Len(tbl.msrOps) /\ msrLoop <= lutLoop /\ memLoop = 0
  /\ pc = "mem" => lutLoop <= tbl.memWb /\ memLoop <= lutLoop
  /\ pc = "cfg" => lutLoop <= tbl.cfgLen

(* Every write lies in the slot of its iteration in some sub-region.      *)
Slots ==
  \A w \in writes :
    /\ w.iter \in Nat /\ w.iter < tbl.records
    /\ w.lo \in Nat /\ w.hi \in Nat
    /\ \E k \in 1..4 : InSlot(w, Start(tbl)[k], Stride(tbl)[k])

IInv == ScanTypeOK /\ LoopShape /\ Slots

-----------------------------------------------------------------------------
LEMMA MulMono ==
  ASSUME NEW a \in Nat, NEW b \in Nat, NEW c \in Nat, b <= c
  PROVE  a * b <= a * c
  BY SMT

(* n elements of u bytes at index i * c + m, with m + n <= c, lie in slot *)
(* i of a region of stride u * c.                                         *)
LEMMA ElemInSlot ==
  ASSUME NEW base \in Nat, NEW u \in Nat, NEW c \in Nat, NEW i \in Nat,
         NEW m \in Nat, NEW n \in Nat, m + n <= c
  PROVE  LET w == Range(i, base, u, i * c + m, n)
         IN  /\ w.iter = i /\ w.lo \in Nat /\ w.hi \in Nat
             /\ InSlot(w, base, u * c)
<1>1. u * (i * c) <= u * (i * c + m)
  BY MulMono
<1>2. u * (i * c + m) <= u * (i * c + m + n)
  BY MulMono
<1>3. u * (i * c + m + n) <= u * (i * c + c)
  BY MulMono
<1>4. u * (i * c) = (u * c) * i /\ u * (i * c + c) = (u * c) * (i + 1)
  BY SMT
<1>5. QED BY <1>1, <1>2, <1>3, <1>4 DEF Range, InSlot

(* Slots of a chain of regions, each ending before the next begins, are *)
(* ordered: region by region, iteration by iteration.                     *)
LEMMA ChainOrder ==
  ASSUME NEW b \in [1..4 -> Nat], NEW s \in [1..4 -> Nat], NEW R \in Nat,
         \A k \in 1..3 : b[k] + s[k] * R <= b[k + 1],
         NEW k1 \in 1..4, NEW k2 \in 1..4, NEW i1 \in Nat, NEW i2 \in Nat,
         i1 < R, i2 < R,
         k1 < k2 \/ (k1 = k2 /\ i1 < i2)
  PROVE  b[k1] + s[k1] * (i1 + 1) <= b[k2] + s[k2] * i2
<1>1. s[k2] * i2 \in Nat
  OBVIOUS
<1>2. CASE k1 = k2 /\ i1 < i2
  <2>1. s[k1] * (i1 + 1) <= s[k1] * i2
    BY <1>2, MulMono
  <2>2. QED BY <1>2, <2>1
<1>3. CASE k1 < k2
  <2> DEFINE x == s[k1] * (i1 + 1)  y == s[k1] * R  z == s[k2] * i2
  <2>1. x <= y /\ x \in Nat /\ y \in Nat
    BY MulMono
  <2>2. b[k1] + y <= b[k2]
    <3>1. \A k \in 1..3 : b[k] <= b[k + 1]
      OBVIOUS
    <3>2. QED BY <1>3, <3>1
  <2>3. z \in Nat
    BY <1>1
  <2> HIDE DEF x, y, z
  <2>4. QED BY <2>1, <2>2, <2>3
<1>4. QED BY <1>2, <1>3

(* The poll sub-regions form such a chain on a 32-bit build: the stride   *)
(* of each is at most what mt_calculate_memory_requirements allocated.    *)
LEMMA RegionChain ==
  ASSUME NEW t, WellFormed(t), LongBytes = 4, MsrBytes \in Nat
  PROVE  /\ Start(t) \in [1..4 -> Nat] /\ Stride(t) \in [1..4 -> Nat]
         /\ \A k \in 1..3 : Start(t)[k] + Stride(t)[k] * t.records <= Start(t)[k + 1]
<1> DEFINE R == t.records
<1>0. /\ R \in Nat /\ t.msrWb \in Nat /\ t.memWb \in Nat /\ t.pciWb \in Nat
      /\ t.cfgLen \in Nat /\ 2 <= t.pciWb
  BY DEF WellFormed
<1>1. R * 2 <= R * t.pciWb
  BY <1>0, MulMono
<1>2. /\ Start(t) = <<0, MsrBytes * t.msrWb * R,
                      4 * t.memWb * R + MsrBytes * t.msrWb * R,
                      4 * t.pciWb * R + 4 * t.memWb * R + MsrBytes * t.msrWb * R>>
      /\ Stride(t) = <<MsrBytes * t.msrWb, 4 * t.memWb, 4 * 2, 4 * t.cfgLen>>
  BY DEF Start, Stride, MsrBase, MemBase, PciBase, CfgBase, MsrSize, MemSize, PciSize
<1>3. /\ Start(t) \in [1..4 -> Nat] /\ Stride(t) \in [1..4 -> Nat]
  <2>1. <<0, MsrBytes * t.msrWb * R,
          4 * t.memWb * R + MsrBytes * t.msrWb * R,
          4 * t.pciWb * R + 4 * t.memWb * R + MsrBytes * t.msrWb * R>> \in [1..4 -> Nat]
    BY <1>0
  <2>2. <<MsrBytes * t.msrWb, 4 * t.memWb, 4 * 2, 4 * t.cfgLen>> \in [1..4 -> Nat]
    BY <1>0
  <2>3. QED BY <1>2, <2>1, <2>2, Zenon
<1>4. \A k \in 1..3 : Start(t)[k] + Stride(t)[k] * R <= Start(t)[k + 1]
  BY <1>0, <1>1, <1>2
<1>5. QED BY <1>3, <1>4

(* Writes in slots of different iterations do not overlap.                *)
LEMMA SlotsApart ==
  ASSUME Build32, ScanTypeOK, Slots,
         NEW w1 \in writes, NEW w2 \in writes, w1.iter # w2.iter
  PROVE  w1.hi <= w2.lo \/ w2.hi <= w1.lo
<1>1. WellFormed(tbl)
  BY DEF Build32, ScanTypeOK
<1>2. PICK k1 \in 1..4 : InSlot(w1, Start(tbl)[k1], Stride(tbl)[k1])
  BY DEF Slots
<1>3. PICK k2 \in 1..4 : InSlot(w2, Start(tbl)[k2], Stride(tbl)[k2])
  BY DEF Slots
<1>4. /\ w1.iter \in Nat /\ w1.iter < tbl.records /\ w1.lo \in Nat /\ w1.hi \in Nat
      /\ w2.iter \in Nat /\ w2.iter < tbl.records /\ w2.lo \in Nat /\ w2.hi \in Nat
  BY DEF Slots
<1>5. /\ Start(tbl) \in [1..4 -> Nat] /\ Stride(tbl) \in [1..4 -> Nat]
      /\ \A k \in 1..3 : Start(tbl)[k] + Stride(tbl)[k] * tbl.records <= Start(tbl)[k + 1]
  BY <1>1, RegionChain DEF Build32
<1>6. /\ Start(tbl)[k1] \in Nat /\ Stride(tbl)[k1] \in Nat
      /\ Start(tbl)[k2] \in Nat /\ Stride(tbl)[k2] \in Nat
  BY <1>5
<1>7. CASE k1 < k2 \/ (k1 = k2 /\ w1.iter < w2.iter)
  <2>1. Start(tbl)[k1] + Stride(tbl)[k1] * (w1.iter + 1)
          <= Start(tbl)[k2] + Stride(tbl)[k2] * w2.iter
    <3> DEFINE bb == Start(tbl)  ss == Stride(tbl)  R == tbl.records
    <3>1. /\ bb \in [1..4 -> Nat] /\ ss \in [1..4 -> Nat] /\ R \in Nat
          /\ \A k \in 1..3 : bb[k] + ss[k] * R <= bb[k + 1]
          /\ w1.iter \in Nat /\ w2.iter \in Nat /\ w1.iter < R /\ w2.iter < R
          /\ k1 < k2 \/ (k1 = k2 /\ w1.iter < w2.iter)
      BY <1>4, <1>5, <1>7 DEF ScanTypeOK, Build32, WellFormed
    <3> HIDE DEF bb, ss, R
    <3>2. bb[k1] + ss[k1] * (w1.iter + 1) <= bb[k2] + ss[k2] * w2.iter
      BY <3>1, ChainOrder
    <3>3. QED BY <3>2 DEF bb, ss
  <2>2. QED BY <1>2, <1>3, <1>4, <1>6, <2>1 DEF InSlot
<1>8. CASE k2 < k1 \/ (k1 = k2 /\ w2.iter < w1.iter)
  <2>1. Start(tbl)[k2] + Stride(tbl)[k2] * (w2.iter + 1)
          <= Start(tbl)[k1] + Stride(tbl)[k1] * w1.iter
    <3> DEFINE bb == Start(tbl)  ss == Stride(tbl)  R == tbl.records
    <3>1. /\ bb \in [1..4 -> Nat] /\ ss \in [1..4 -> Nat] /\ R \in Nat
          /\ \A k \in 1..3 : bb[k] + ss[k] * R <= bb[k + 1]
          /\ w2.iter \in Nat /\ w1.iter \in Nat /\ w2.iter < R /\ w1.iter < R
          /\ k2 < k1 \/ (k2 = k1 /\ w2.iter < w1.iter)
      BY <1>4, <1>5, <1>8 DEF ScanTypeOK, Build32, WellFormed
    <3> HIDE DEF bb, ss, R
    <3>2. bb[k2] + ss[k2] * (w2.iter + 1) <= bb[k1] + ss[k1] * w1.iter
      BY <3>1, ChainOrder
    <3>3. QED BY <3>2 DEF bb, ss
  <2>2. QED BY <1>2, <1>3, <1>4, <1>6, <2>1 DEF InSlot
<1>9. QED BY <1>4, <1>7, <1>8

-----------------------------------------------------------------------------
(* Where each poll sub-region of a table starts and what one iteration    *)
(* writes of it, on a 32-bit build.                                       *)
LEMMA RegionFacts ==
  ASSUME NEW t, WellFormed(t), LongBytes = 4, MsrBytes \in Nat
  PROVE  /\ Start(t)[1] = MsrBase(t) /\ Start(t)[2] = MemBase(t)
         /\ Start(t)[3] = PciBase(t) /\ Start(t)[4] = CfgBase(t)
         /\ Stride(t)[1] = MsrBytes * t.msrWb /\ Stride(t)[2] = LongBytes * t.memWb
         /\ Stride(t)[3] = LongBytes * 2 /\ Stride(t)[4] = LongBytes * t.cfgLen
         /\ MsrBase(t) \in Nat /\ MemBase(t) \in Nat
         /\ PciBase(t) \in Nat /\ CfgBase(t) \in Nat
<1>1. t.records \in Nat /\ t.msrWb \in Nat /\ t.memWb \in Nat /\ t.pciWb \in Nat
  BY DEF WellFormed
<1>2. /\ Start(t)[1] = MsrBase(t) /\ Start(t)[2] = MemBase(t)
      /\ Start(t)[3] = PciBase(t) /\ Start(t)[4] = CfgBase(t)
  BY DEF Start
<1>3. /\ Stride(t)[1] = MsrBytes * t.msrWb /\ Stride(t)[2] = LongBytes * t.memWb
      /\ Stride(t)[3] = LongBytes * 2 /\ Stride(t)[4] = LongBytes * t.cfgLen
  BY DEF Stride
<1>4. /\ MsrBase(t) \in Nat /\ MemBase(t) \in Nat
      /\ PciBase(t) \in Nat /\ CfgBase(t) \in Nat
  <2>1. MsrBytes * t.msrWb * t.records \in Nat /\ 4 * t.memWb * t.records \in Nat
        /\ 4 * t.pciWb * t.records \in Nat
    BY <1>1
  <2>2. MsrSize(t) \in Nat /\ MemSize(t) \in Nat /\ PciSize(t) \in Nat
    BY <2>1 DEF MsrSize, MemSize, PciSize
  <2>3. QED BY <2>2 DEF MsrBase, MemBase, PciBase, CfgBase
<1>5. QED BY <1>2, <1>3, <1>4

(* Adding a write that lies in the slot of its iteration keeps Slots.     *)
LEMMA AddWrite ==
  ASSUME Slots, NEW w, w.iter \in Nat, w.iter < tbl.records,
         w.lo \in Nat, w.hi \in Nat,
         NEW k \in 1..4, InSlot(w, Start(tbl)[k], Stride(tbl)[k]),
         tbl' = tbl, writes' = writes \cup {w}
  PROVE  Slots'
BY DEF Slots

LEMMA InitIInv ==
  Init => IInv
BY DEF Init, IInv, ScanTypeOK, LoopShape, Slots

(* One step of mt_poll_scan keeps every write in the slot of its          *)
(* iteration, on a 32-bit build with a well-formed table.                 *)
LEMMA ScanStep ==
  ASSUME Build32, IInv, [Next]_vars
  PROVE  IInv'
<1>0. /\ ScanTypeOK /\ LoopShape /\ Slots
      /\ WellFormed(tbl) /\ LongBytes = 4 /\ MsrBytes \in Nat
  BY DEF IInv, Build32, ScanTypeOK
<1>1. /\ tbl.records \in Nat /\ tbl.msrWb \in Nat /\ tbl.memWb \in Nat
      /\ tbl.cfgLen \in Nat /\ tbl.mmap \in Seq({0, 1})
      /\ Len(tbl.msrOps) <= tbl.msrWb /\ tbl.memWb <= Len(tbl.mmap)
  BY <1>0 DEF WellFormed
<1>2. /\ Start(tbl)[1] = MsrBase(tbl) /\ Start(tbl)[2] = MemBase(tbl)
      /\ Start(tbl)[3] = PciBase(tbl) /\ Start(tbl)[4] = CfgBase(tbl)
      /\ Stride(tbl)[1] = MsrBytes * tbl.msrWb /\ Stride(tbl)[2] = LongBytes * tbl.memWb
      /\ Stride(tbl)[3] = LongBytes * 2 /\ Stride(tbl)[4] = LongBytes * tbl.cfgLen
      /\ MsrBase(tbl) \in Nat /\ MemBase(tbl) \in Nat
      /\ PciBase(tbl) \in Nat /\ CfgBase(tbl) \in Nat
  BY <1>0, RegionFacts
<1>3. pc # "idle" => iter < tbl.records
  BY <1>0 DEF LoopShape
<1>4. CASE \E i \in 0..(tbl.records - 1) : PollStart(i)
  <2>1. PICK i \in 0..(tbl.records - 1) : PollStart(i)
    BY <1>4
  <2>2. ScanTypeOK' /\ LoopShape'
    BY <1>0, <1>1, <2>1 DEF PollStart, ScanTypeOK, LoopShape
  <2>3. Slots'
    BY <1>0, <2>1 DEF PollStart, Slots
  <2>4. QED BY <2>2, <2>3 DEF IInv
<1>5. CASE PollNoSession
  BY <1>0, <1>5 DEF PollNoSession, IInv, ScanTypeOK, LoopShape, Slots
<1>6. CASE MsrStep
  <2> DEFINE op == tbl.msrOps[lutLoop + 1]
  <2>1. pc = "msr" /\ lutLoop < Len(tbl.msrOps)
    BY <1>6 DEF MsrStep
  <2>2. CASE op = "READ"
    <3> DEFINE w == Range(iter, MsrBase(tbl), MsrBytes, iter * tbl.msrWb + msrLoop, 1)
    <3>1. /\ writes' = writes \cup {w}
          /\ msrLoop' = msrLoop + 1 /\ lutLoop' = lutLoop + 1
          /\ UNCHANGED <<tbl, live, pc, iter, memLoop, ret>>
      BY <1>6, <2>2 DEF MsrStep
    <3>2. msrLoop + 1 <= tbl.msrWb /\ iter < tbl.records
      BY <1>0, <1>1, <1>3, <2>1 DEF LoopShape, ScanTypeOK
    <3>3. /\ w.iter = iter /\ w.lo \in Nat /\ w.hi \in Nat
          /\ InSlot(w, MsrBase(tbl), MsrBytes * tbl.msrWb)
      BY <1>0, <1>1, <1>2, <3>2, ElemInSlot DEF ScanTypeOK
    <3>4. Slots'
      BY <1>0, <1>2, <3>1, <3>2, <3>3, AddWrite DEF ScanTypeOK
    <3>5. ScanTypeOK' /\ LoopShape'
      BY <1>0, <2>1, <3>1 DEF ScanTypeOK, LoopShape
    <3>6. QED BY <3>4, <3>5 DEF IInv
  <2>3. CASE op = "WRITE"
    <3>1. /\ lutLoop' = lutLoop + 1
          /\ UNCHANGED <<tbl, live, pc, iter, msrLoop, memLoop, writes, ret>>
      BY <1>6, <2>3 DEF MsrStep
    <3>2. QED BY <1>0, <2>1, <3>1 DEF IInv, ScanTypeOK, LoopShape, Slots
  <2>4. CASE op \notin {"READ", "WRITE"}
    <3>1. /\ pc' = "idle" /\ live' = FALSE /\ ret' = "EFAULT"
          /\ UNCHANGED <<tbl, iter, lutLoop, msrLoop, memLoop, writes>>
      BY <1>6, <2>4 DEF MsrStep, Fail
    <3>2. QED BY <1>0, <3>1 DEF IInv, ScanTypeOK, LoopShape, Slots
  <2>5. QED BY <2>2, <2>3, <2>4
<1>7. CASE MsrDone
  BY <1>0, <1>1, <1>7 DEF MsrDone, IInv, ScanTypeOK, LoopShape, Slots
<1>8. CASE MemDone
  BY <1>0, <1>8 DEF MemDone, IInv, ScanTypeOK, LoopShape, Slots
<1>9. CASE CfgDone
  BY <1>0, <1>9 DEF CfgDone, IInv, ScanTypeOK, LoopShape, Slots
<1>10. CASE UNCHANGED vars
  BY <1>0, <1>10 DEF vars, IInv, ScanTypeOK, LoopShape, Slots
<1>11. CASE MemStep
  <2>1. pc = "mem" /\ lutLoop < tbl.memWb /\ memLoop <= lutLoop /\ iter < tbl.records
    BY <1>0, <1>3, <1>11 DEF MemStep, LoopShape
  <2>2. lutLoop < Len(tbl.mmap) /\ tbl.mmap[lutLoop + 1] \in {0, 1}
    BY <1>0, <1>1, <2>1 DEF ScanTypeOK
  <2>3. PICK sz \in {tbl.mmap[lutLoop + 1]} :
          \/ /\ sz = 0
             /\ lutLoop' = lutLoop + 1
             /\ UNCHANGED <<tbl, live, pc, iter, msrLoop, memLoop, writes, ret>>
          \/ /\ sz > 0
             /\ writes' = writes \cup
                  {Range(iter, MemBase(tbl), LongBytes, iter * tbl.memWb + memLoop, sz)}
             /\ memLoop' = memLoop + sz
             /\ IF memLoop + sz > tbl.memWb
                  THEN Fail /\ UNCHANGED <<lutLoop>>
                  ELSE lutLoop' = lutLoop + 1 /\ UNCHANGED <<live, pc, ret>>
             /\ UNCHANGED <<tbl, iter, msrLoop>>
    BY <1>11, <2>2 DEF MemStep
  <2>4. sz \in {0, 1}
    BY <2>2, <2>3
  <2>5. CASE sz = 0
    <3>1. /\ lutLoop' = lutLoop + 1
          /\ UNCHANGED <<tbl, live, pc, iter, msrLoop, memLoop, writes, ret>>
      BY <2>3, <2>5
    <3>2. ScanTypeOK'
      BY <1>0, <3>1 DEF ScanTypeOK
    <3>3. LoopShape'
      BY <1>0, <1>1, <2>1, <3>1 DEF ScanTypeOK, LoopShape
    <3>4. Slots'
      BY <1>0, <3>1 DEF Slots
    <3>5. QED BY <3>2, <3>3, <3>4 DEF IInv
  <2>6. CASE sz = 1
    <3> DEFINE w == Range(iter, MemBase(tbl), LongBytes, iter * tbl.memWb + memLoop, 1)
    <3> HIDE DEF w
    <3>1. memLoop + 1 <= tbl.memWb
      BY <1>0, <1>1, <2>1 DEF ScanTypeOK
    <3>2. /\ writes' = writes \cup {w}
          /\ memLoop' = memLoop + 1 /\ lutLoop' = lutLoop + 1
          /\ UNCHANGED <<tbl, live, pc, iter, msrLoop, ret>>
      <4>1. ~(memLoop + sz > tbl.memWb)
        BY <1>0, <1>1, <2>6, <3>1 DEF ScanTypeOK
      <4>2. QED BY <2>3, <2>6, <4>1 DEF w
    <3>3. /\ w.iter = iter /\ w.lo \in Nat /\ w.hi \in Nat
          /\ InSlot(w, MemBase(tbl), LongBytes * tbl.memWb)
      <4>1. /\ MemBase(tbl) \in Nat /\ LongBytes \in Nat /\ tbl.memWb \in Nat
            /\ iter \in Nat /\ memLoop \in Nat /\ memLoop + 1 <= tbl.memWb
        BY <1>0, <1>1, <1>2, <3>1 DEF ScanTypeOK
      <4>2. QED BY <4>1, ElemInSlot DEF w
    <3>4. Slots'
      BY <1>0, <1>2, <2>1, <3>2, <3>3, AddWrite DEF ScanTypeOK
    <3>5. ScanTypeOK'
      BY <1>0, <3>2 DEF ScanTypeOK
    <3>6. LoopShape'
      BY <1>0, <1>1, <2>1, <3>2 DEF ScanTypeOK, LoopShape
    <3>7. QED BY <3>4, <3>5, <3>6 DEF IInv
  <2>7. QED BY <2>4, <2>5, <2>6
<1>12. CASE PciStep
  <2> DEFINE w == Range(iter, PciBase(tbl), LongBytes, 2 * iter, 2)
  <2> HIDE DEF w
  <2>1. pc = "pci" /\ iter < tbl.records
    BY <1>3, <1>12 DEF PciStep
  <2>2. /\ writes' = writes \cup {w}
        /\ pc' = "cfg" /\ lutLoop' = 0
        /\ UNCHANGED <<tbl, live, iter, msrLoop, memLoop, ret>>
    BY <1>12 DEF PciStep, w
  <2>3. /\ w.iter = iter /\ w.lo \in Nat /\ w.hi \in Nat
        /\ InSlot(w, PciBase(tbl), LongBytes * 2)
    <3>1. PciBase(tbl) \in Nat /\ LongBytes = 4 /\ iter \in Nat
      BY <1>0, <1>2 DEF ScanTypeOK
    <3>2. QED BY <3>1 DEF w, Range, InSlot
  <2>4. Slots'
    BY <1>0, <1>2, <2>1, <2>2, <2>3, AddWrite DEF ScanTypeOK
  <2>5. ScanTypeOK'
    BY <1>0, <2>2 DEF ScanTypeOK
  <2>6. LoopShape'
    BY <1>0, <1>1, <2>1, <2>2 DEF ScanTypeOK, LoopShape
  <2>7. QED BY <2>4, <2>5, <2>6 DEF IInv
<1>13. CASE CfgStep
  <2> DEFINE w == Range(iter, CfgBase(tbl), LongBytes, iter * tbl.cfgLen + lutLoop, 1)
  <2> HIDE DEF w
  <2>1. pc = "cfg" /\ lutLoop < tbl.cfgLen /\ iter < tbl.records
    BY <1>3, <1>13 DEF CfgStep
  <2>2. /\ writes' = writes \cup {w}
        /\ lutLoop' = lutLoop + 1
        /\ UNCHANGED <<tbl, live, pc, iter, msrLoop, memLoop, ret>>
    BY <1>13 DEF CfgStep, w
  <2>3. /\ w.iter = iter /\ w.lo \in Nat /\ w.hi \in Nat
        /\ InSlot(w, CfgBase(tbl), LongBytes * tbl.cfgLen)
    <3>1. /\ CfgBase(tbl) \in Nat /\ LongBytes \in Nat /\ tbl.cfgLen \in Nat
          /\ iter \in Nat /\ lutLoop \in Nat /\ lutLoop + 1 <= tbl.cfgLen
      BY <1>0, <1>1, <1>2, <2>1 DEF ScanTypeOK
    <3>2. QED BY <3>1, ElemInSlot DEF w
  <2>4. Slots'
    BY <1>0, <1>2, <2>1, <2>2, <2>3, AddWrite DEF ScanTypeOK
  <2>5. ScanTypeOK'
    BY <1>0, <2>2 DEF ScanTypeOK
  <2>6. LoopShape'
    BY <1>0, <1>1, <2>1, <2>2 DEF ScanTypeOK, LoopShape
  <2>7. QED BY <2>4, <2>5, <2>6 DEF IInv
<1>20. QED BY <1>4, <1>5, <1>6, <1>7, <1>8, <1>9, <1>10, <1>11, <1>12, <1>13
           DEF Next

-----------------------------------------------------------------------------
(* Sampling isolation of mt_poll_scan: on a 32-bit build, for every      *)
(* well-formed table and every number of records, the bytes written for  *)
(* poll_loop = i never overlap those written for another poll_loop. The   *)
(* run poll_isolation shows it failing once either hypothesis is dropped. *)
THEOREM SamplingIsolationThm ==
  ASSUME Build32
  PROVE  Spec => []SamplingIsolation
<1>1. Init => IInv
  BY InitIInv
<1>2. IInv /\ [Next]_vars => IInv'
  BY ScanStep
<1>3. IInv => SamplingIsolation
  <2> SUFFICES ASSUME IInv, NEW w1 \in writes, NEW w2 \in writes, w1.iter # w2.iter
               PROVE  w1.hi <= w2.lo \/ w2.hi <= w1.lo
    BY DEF SamplingIsolation
  <2> QED BY SlotsApart DEF IInv
<1>4. QED BY <1>1, <1>2, <1>3, PTL DEF Spec
=============================================================================
