---------------------------- MODULE HeapFileInv -----------------------------
(***************************************************************************)
(* The inductive invariant of HeapFile, for Serial.                        *)
(***************************************************************************)
EXTENDS HeapFile

NextOffset(b) == b.offset + nvfsize(b)
EndOf(bs) == IF bs = <<>> THEN 0 ELSE NextOffset(bs[Len(bs)])

(***************************************************************************)
(* What a file holds                                                       *)
(***************************************************************************)

(* Blocks one behind the other in the file, and apart in memory.           *)
Row(bs) ==
  /\ bs \in Seq(BlockType)
  /\ \A i \in DOMAIN bs : bs[i].offset = IF i = 1 THEN 0 ELSE NextOffset(bs[i - 1])
  /\ \A i \in DOMAIN bs : PagesOf(bs[i]) \subseteq Addresses
  /\ \A i, j \in DOMAIN bs : i # j => PagesOf(bs[i]) \cap PagesOf(bs[j]) = {}

Headed(f, b) == f[b.offset + 1] = b.pgstart /\ f[b.offset + 2] = b.npages

Whole(f, b) ==
  /\ NextOffset(b) <= Len(f) /\ Headed(f, b)
  /\ \A p \in PagesOf(b) : f[pgoffset(b, p) + 1] \in Values

(* The cells behind a header at o are zero, as those of a dump that was    *)
(* cut short are: pages of a new block.                                    *)
Blank(f, o) == \A i \in DOMAIN f : i > o + Header => f[i] = 0

(* f has the blocks bs and, at its end, what may be left of one more that  *)
(* never got complete.                                                     *)
Has(f, bs) ==
  LET o == EndOf(bs) IN
  /\ f \in Seq(Nat) /\ Row(bs)
  /\ \A i \in DOMAIN bs : Whole(f, bs[i])
  /\ o <= Len(f) /\ Blank(f, o)
  /\ o + Header <= Len(f) => f[o + 2] = 0 \/ Len(f) < o + Header + f[o + 2]

(* f has the blocks bs, the header of b behind them and some of its pages. *)
Begun(f, bs, b) ==
  /\ f \in Seq(Nat) /\ Row(bs) /\ Row(Append(bs, b))
  /\ \A i \in DOMAIN bs : Whole(f, bs[i])
  /\ b.offset + Header <= Len(f) /\ Headed(f, b) /\ Blank(f, b.offset)

(***************************************************************************)
(* What a file holds and what is still to come: f and the writes w         *)
(***************************************************************************)

(* w are zero pages of b, up to its end, from where f ends or earlier.     *)
RestOf(f, w, b) ==
  \E q \in (b.offset + Header) .. Len(f) :
    /\ q + Len(w) = NextOffset(b)
    /\ \A i \in DOMAIN w : w[i] = <<q + i - 1, 0>>

(* Of the blocks bs, the end of the last one may still be to come.         *)
Settled(f, w, bs) ==
  \/ w = <<>> /\ Has(f, bs)
  \/ w # <<>> /\ bs # <<>> /\ Begun(f, Front(bs), Last(bs)) /\ RestOf(f, w, Last(bs))

(* The address of b is written behind bs, and then its number of pages.    *)
Addressed(f, w, bs, b) ==
  /\ Has(f, bs)
  /\ \/ w = <<>> /\ b.offset < Len(f) /\ f[b.offset + 1] = b.pgstart
     \/ w = <<<<b.offset, b.pgstart>>>>

Sized(f, w, bs, b) ==
  \/ w = <<>> /\ Begun(f, bs, b)
  \/ /\ w = <<<<b.offset + 1, b.npages>>>>
     /\ Has(f, bs) /\ b.offset < Len(f) /\ f[b.offset + 1] = b.pgstart

(* The page at p, in one of the blocks bs, is written as v.                *)
Paged(f, w, bs, p, v) ==
  /\ Has(f, bs)
  /\ \E i \in DOMAIN bs :
       /\ p \in PagesOf(bs[i])
       /\ \/ w = <<>> /\ f[pgoffset(bs[i], p) + 1] = v
          \/ w = <<<<pgoffset(bs[i], p), v>>>>

(***************************************************************************)
(* The invariant                                                           *)
(***************************************************************************)
Dumping ==
  LET b == main.block IN
  /\ mode # "boot" /\ worker = Asleep /\ main.part \in 1 .. 4
  /\ Row(Append(blocks, b)) /\ tmppage \notin PagesOf(b)
  /\ \A p \in PagesOf(b) : mem[p] = 0
  /\ main.sought => main.part <= 3 /\ pending = <<>> /\ pos = PartOffset(b, main.part)
  /\ main.part = 1 => Settled(file, pending, blocks)
  /\ main.part = 2 => Addressed(file, pending, blocks, b)
  /\ main.part = 3 => Sized(file, pending, blocks, b)
  /\ main.part = 4 => Settled(file, pending, Append(blocks, b))

Committing ==
  /\ mode = "run" /\ main = Idle
  /\ worker.step = "write" =>
       /\ pending = <<>> /\ Has(file, blocks)
       /\ \E i \in DOMAIN blocks :
            worker.page \in PagesOf(blocks[i]) /\ pos = pgoffset(blocks[i], worker.page)
  /\ worker.step = "flush" => Paged(file, pending, blocks, worker.page, mem[worker.page])

(* A start has found some of the blocks.                                   *)
Booting ==
  LET bs == Readable(file) IN
  /\ pending = <<>> /\ main = Idle /\ worker = Asleep
  /\ Has(file, bs) /\ blocks = SubSeq(bs, 1, Len(blocks)) /\ Len(blocks) <= Len(bs)
  /\ \A i \in DOMAIN blocks : \A p \in PagesOf(blocks[i]) : mem[p] = file[pgoffset(blocks[i], p) + 1]
  /\ blocks = <<>> => \A p \in Addresses : mem[p] = 0

(* The first run has one block, and its pages are zero.                    *)
FirstRunning ==
  /\ main # Idle => blocks = <<>>
  /\ \A p \in Addresses : mem[p] = 0
  /\ Blank(file, 0)

Inv ==
  /\ TypeOK
  /\ Row(blocks) /\ filesize = EndOf(blocks) /\ tmppage \notin Mapped
  /\ mode = "boot" => Booting
  /\ mode = "first" => FirstRunning
  /\ main # Idle => Dumping
  /\ worker # Asleep => worker.step \in {"write", "flush"} /\ Committing
  /\ mode # "boot" /\ main = Idle /\ worker = Asleep => Settled(file, pending, blocks)
=============================================================================
