---------------------------- MODULE AddrTableInv ----------------------------
(***************************************************************************)
(* The inductive invariant of AddrTable.                                   *)
(***************************************************************************)
EXTENDS AddrTable

Slots(c) == 0 .. (c - 1)
Entry(p, b) == [key |-> p, value |-> b]

(* What is in an array is a page of a stored block, or nothing.            *)
Sound == \A c \in DOMAIN arrays : \A h \in Slots(c) :
  \/ arrays[c][h] = Empty
  \/ \E b \in stored : \E p \in PagesOf(b) : arrays[c][h] = Entry(p, b)

(* A search for a page of the present array ends where the page is.        *)
At(c, p, k) == (p + ((k * k + k) \div 2)) % c
Reaches(A, c, p, h) == \E k \in Slots(c) :
  At(c, p, k) = h /\ \A j \in 0 .. (k - 1) : A[At(c, p, j)].key \notin {p, 0}

Probed == \A h \in Slots(cap) : entries[h].key # 0 => Reaches(entries, cap, entries[h].key, h)

(* The calls of the writer: blocks that are stored, and arrays that are    *)
(* there and shorter than the present one, the outer ones shorter still.   *)
Frames ==
  /\ \A k \in DOMAIN stack :
       /\ stack[k].op = "insert" => stack[k].block \in stored
       /\ stack[k].op = "expand" => stack[k].old \in DOMAIN arrays /\ stack[k].old < cap
  /\ \A j, k \in DOMAIN stack :
       j < k /\ stack[j].op = "expand" /\ stack[k].op = "expand" => stack[j].old < stack[k].old

(* A page of a stored block is in the array, or a call will put it there:  *)
(* one that inserts the block, or one that has its old entry before it.    *)
Brings(arrs, f, p, b) ==
  \/ f.op = "insert" /\ f.block = b /\ b.pgstart + f.pgidx <= p
  \/ f.op = "expand" /\ \E h \in Slots(f.old) : f.i <= h /\ arrs[f.old][h] = Entry(p, b)
Placed(p, b)  == \E h \in Slots(cap) : entries[h] = Entry(p, b)
Pending(p, b) == \E k \in DOMAIN stack : Brings(arrays, stack[k], p, b)

Complete == \A b \in stored : \A p \in PagesOf(b) : Placed(p, b) \/ Pending(p, b)

(* A call that has checked the load puts a page whatever the load is then: *)
(* each call deeper has doubled the array for it.  Growing was called for  *)
(* by insertions that the new array does not hold.                         *)
Checked == {k \in DOMAIN stack : stack[k].op = "insert" /\ stack[k].checked}

Counts ==
  /\ 4 * (Cardinality(Checked) + 1) <= cap
  /\ 20 * (nelem + Cardinality(Checked)) <= 19 * cap
  /\ Cardinality(Occupied) <= nelem
  /\ \/ cap = 2^Power /\ Checked = {} /\ 10 * (nelem - 1) <= 7 * cap
     \/ 20 * (nelem - Cardinality(Occupied)) > 7 * cap

(* Then triangular probing reaches every slot.                             *)
PowerOfTwo == \E n \in Nat : cap = 2^n

Inv ==
  /\ DOMAIN finder = Finders
  /\ TypeOK /\ Sound /\ Probed /\ Frames /\ Complete /\ Counts
=============================================================================
