-------------------------- MODULE CommitObjectsInv --------------------------
(***************************************************************************)
(* The inductive invariant of CommitObjects.                               *)
(***************************************************************************)
EXTENDS CommitObjects

(***************************************************************************)
(* Who does what, and what the workers and the shutdown wait for           *)
(***************************************************************************)
KillOnly == {"submit", "joins", "delkill", "sweep", "down"}
Stopped  == {"delkill", "dellist", "delobj", "sweep", "down"}
Killing  == Parts \cup {"submit", "joins"} \cup Stopped

Queued(x) == \E i \in DOMAIN crinput : crinput[i] = x

Flow ==
  /\ killfd => pc[Main] \in Killing /\ \A u \in Users \ {Main} : pc[u] = "idle"
  /\ ~killfd => \A u \in Users : pc[u] \notin KillOnly
  /\ killfd /\ pc[Main] \in Stopped => workers = {}
  /\ "uffd" \notin workers => killfd /\ logging = Null
  /\ "cr" \notin workers => killfd /\ pc[Main] \in Stopped \cup {"joins"} /\ ~Queued(Kill)
  /\ Queued(Kill) => pc[Main] = "joins"

(* A commit is in the queue, in service or answered, and its thread waits. *)
Waits(u) ==
  /\ finished[u] \in {0, 1}
  /\ pc[u] = "wait" <=> Queued(u) \/ serving = u \/ finished[u] = 1
  /\ Queued(u) => serving # u /\ finished[u] = 0
  /\ serving = u => finished[u] = 0

Sending ==
  /\ \A i, j \in DOMAIN crinput : crinput[i] = crinput[j] => i = j
  /\ \A i \in DOMAIN crinput : crinput[i] = Kill => i = Len(crinput)
  /\ \A u \in Users : Waits(u)
  /\ serving # Null => at <= Len(ckpt[serving].addrs) + 1

(***************************************************************************)
(* The list of an object and the region that is being added                *)
(***************************************************************************)
TouchedBy(R) == UNION {{PageAt(b) : b \in r.addr .. (r.addr + r.len - 1)} : r \in R}
EmptyIn(R)   == {PageAt(r.addr) : r \in {x \in R : x.len = 0}}
Ahead(t)     == {q \in Pages : t.iter <= q /\ q < t.high}

Covers(S, R) == TouchedBy(R) \subseteq S /\ S \subseteq TouchedBy(R) \cup EmptyIn(R)

Listing == \A u \in Users :
  /\ Len(ckpt[u].addrs) <= ckpt[u].cap
  /\ pc[u] \in Parts \cup {"idle"} => ckpt[u].addrs = <<>>
  /\ todo[u].iter % PageSize = 0
  /\ todo[u].iter .. (todo[u].high - 1) \subseteq Memory
  /\ pc[u] \notin {"adding", "growing"} => todo[u] = NoTodo
  /\ Covers(ToSet(ckpt[u].addrs) \cup Ahead(todo[u]), added[u])

(***************************************************************************)
(* Whose each block is.  Each place that a block's address is kept in is   *)
(* an owner; the old array of a call that moves it is nobody's.            *)
(***************************************************************************)
Holders == (Users \X Parts) \cup (Pages \X {"entry"}) \cup {<<Main, "tmppage">>}
Owners  == Holders \cup (Users \X {"flight"}) \cup {<<Main, "log">>}

Claim(o) ==
  IF o[2] \in Parts THEN IF o[2] = "arr" /\ pc[o[1]] = "growing" THEN Null ELSE ckpt[o[1]][o[2]]
  ELSE IF o[2] = "entry" THEN entry[o[1]]
  ELSE IF o[2] = "tmppage" THEN IF pc[Main] = "down" THEN Null ELSE TmpPage
  ELSE IF o[2] = "flight" THEN flight[o[1]]
  ELSE logblock

claim == [o \in Owners |-> Claim(o)]

Exclusive(c, g) ==
  /\ \A o \in Owners : c[o] # Null => c[o] \in g
  /\ \A o, p \in Owners : c[o] = c[p] /\ c[o] # Null => o = p

Shape(u) ==
  /\ ckpt[u].obj # Null <=> pc[u] \notin {"idle", "obj", "sweep", "down"}
  /\ ckpt[u].list # Null <=> pc[u] \notin {"idle", "obj", "list", "delobj", "sweep", "down"}
  /\ ckpt[u].arr # Null <=>
       pc[u] \notin {"idle", "obj", "list", "arr", "dellist", "delobj", "sweep", "down"}
  /\ pc[u] = "growing" => flight[u] # Null
  /\ flight[u] # Null => pc[u] \in Parts \cup {"growing"}

Shapes ==
  /\ \A u \in Users : Shape(u)
  /\ logging = Null <=> logblock = Null
  /\ logging # Null => entry[logging] = Null
  /\ pc[Main] = "down" => \A p \in Pages : entry[p] = Null

(***************************************************************************)
(* The table                                                               *)
(***************************************************************************)
Chained(tb) == \A h \in Hashes :
  /\ \A i \in DOMAIN tb.data[h] : Hash[tb.data[h][i]] = h
  /\ \A i, j \in DOMAIN tb.data[h] : tb.data[h][i] = tb.data[h][j] => i = j

In(tb) == {b \in Blocks : Registered(tb, b)}

Exact ==
  /\ Chained(Table)
  /\ nelem = Cardinality(InTable)
  /\ Held \subseteq InTable \cup struck
  /\ InTable \subseteq Held \cup Moving
  /\ aborted => struck # {}
  /\ pc[Main] = "down" => InTable = {}

Inv ==
  /\ TypeOK /\ Flow /\ Sending /\ Listing /\ Shapes /\ Exclusive(claim, given) /\ Exact
=============================================================================
