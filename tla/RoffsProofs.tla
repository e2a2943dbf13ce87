---------------------------- MODULE RoffsProofs -----------------------------
(***************************************************************************)
(* The flash file system, for every size of sectors, of the file system    *)
(* and of buffers, any number of connections, and whatever names and data. *)
(*                                                                         *)
(* The walk of Log is a recursive function, about which nothing can be     *)
(* proved by induction over the flash.  Instead a set L is the log of a    *)
(* flash when it holds the first header and, with each header of a         *)
(* complete file, the one that follows and none between (IsLog); what the  *)
(* walk finds is then L (LogIs), from a largest header at which it would   *)
(* go wrong.  The invariant says what L is at each stage of a handler:     *)
(* complete files, one name each (Unique), with those one reads (Reading), *)
(* and behind its end e the cells the handler has written, then fresh      *)
(* ones (Writing); what is left to do is the rest of the upload (Plan).    *)
(*                                                                         *)
(* RoffsStore is implemented one flash operation at a time.  What one sees *)
(* of the flash is a log (Shown), also when the terminator behind a file   *)
(* that was just published is still to be written; each operation then is  *)
(* a withdrawal, a publication, a format, or is not seen.                  *)
(***************************************************************************)
EXTENDS Roffs, NaturalsInduction, SequenceTheorems, FiniteSetTheorems,
        WellFoundedInduction, TLAPS

-----------------------------------------------------------------------------
(* Numbers. *)

Less == {ss \in Nat \X Nat : ss[1] < ss[2]}

\* A set of numbers has a smallest.
LEMMA Least ==
  ASSUME NEW T, T \subseteq Nat, T # {}
  PROVE  \E x \in T : \A y \in T : x <= y
<1>1. IsWellFoundedOn(Less, Nat)
  BY NatLessThanWellFounded DEF OpToRel, Less
<1>2. PICK x \in T : \A y \in T : ~(<<y, x>> \in Less)
  BY <1>1, WFMin
<1>3. ASSUME NEW y \in T PROVE x <= y
  <2>1. <<y, x>> \notin Less /\ x \in Nat /\ y \in Nat
    BY <1>2, <1>3
  <2>2. <<y, x>> \in Nat \X Nat
    BY <2>1
  <2>3. <<y, x>>[1] = y /\ <<y, x>>[2] = x
    OBVIOUS
  <2>4. ~(y < x)
    BY <2>1, <2>2, <2>3 DEF Less
  <2> QED
    BY <2>1, <2>4
<1> QED
  BY <1>3

\* And one below a bound has a largest.
LEMMA Largest ==
  ASSUME NEW n \in Nat, NEW T, T \subseteq 0..n, T # {}
  PROVE  \E x \in T : \A y \in T : y <= x
<1> DEFINE U == {k \in 0..n : n - k \in T}
<1>1. U \subseteq Nat
  OBVIOUS
<1>2. U # {}
  <2>1. PICK t \in T : TRUE
    OBVIOUS
  <2>2. t \in 0..n /\ n - t \in 0..n /\ n - (n - t) = t
    BY <2>1
  <2>3. n - t \in U
    BY <2>2
  <2> QED
    BY <2>3
<1> HIDE DEF U
<1>3. PICK x \in U : \A y \in U : x <= y
  BY <1>1, <1>2, Least
<1>4. x \in 0..n /\ n - x \in T
  BY <1>3 DEF U
<1>5. ASSUME NEW y \in T PROVE y <= n - x
  <2>1. y \in 0..n /\ n - y \in 0..n /\ n - (n - y) = y
    BY <1>5
  <2>2. n - y \in U
    BY <2>1 DEF U
  <2> QED
    BY <2>1, <2>2, <1>3, <1>4
<1> QED
  BY <1>4, <1>5

-----------------------------------------------------------------------------
(* The walk along the log. *)

Flashes == [Base..Top -> Cells]

\* Where a walk that has come to p can go.
Ahead(f, S) == \A q \in S : ~AtEnd(f, q) => Follower(f, q) \in S
Reach(f, p) == {q \in Nat : \A S \in SUBSET Nat : p \in S /\ Ahead(f, S) => q \in S}

\* The walk goes on only from a header in the file system.
LEMMA FollowerIs ==
  ASSUME NEW f \in Flashes, NEW p, ~AtEnd(f, p)
  PROVE  p \in Base..Top /\ f[p] \in Header /\ Follower(f, p) \in Nat
<1>1. p \in Base..Top /\ f[p] \in Header
  BY DEF AtEnd, Flashes
<1>2. f[p].nameLen \in {-1, 0, 1} /\ f[p].fileLen \in -1..Top /\ p \in Nat /\ p >= 1
  BY <1>1, RoffsAssumption DEF Header
<1> QED
  BY <1>1, <1>2, RoffsAssumption DEF Follower

\* The recursive function of Log exists: a header, and what follows from the next.
LEMMA WalkIs ==
  ASSUME NEW f \in Flashes
  PROVE  \E w : /\ Log(f) = w[Base]
                /\ \A p \in Nat : w[p] = IF AtEnd(f, p) THEN {p} ELSE {p} \cup w[Follower(f, p)]
<1> DEFINE Right(w) == w = [p \in Nat |-> IF AtEnd(f, p) THEN {p} ELSE {p} \cup w[Follower(f, p)]]
           g == [p \in Nat |-> Reach(f, p)]
<1>1. ASSUME NEW p \in Nat
      PROVE  Reach(f, p) = IF AtEnd(f, p) THEN {p} ELSE {p} \cup Reach(f, Follower(f, p))
  <2>1. CASE AtEnd(f, p)
    <3>1. Ahead(f, {p}) /\ {p} \in SUBSET Nat
      BY <2>1 DEF Ahead
    <3> QED
      BY <2>1, <3>1 DEF Reach
  <2>2. CASE ~AtEnd(f, p)
    <3> DEFINE n == Follower(f, p)
    <3>1. n \in Nat
      BY <2>2, FollowerIs
    <3>2. ASSUME NEW q \in Reach(f, n) PROVE q \in Reach(f, p)
      <4>1. ASSUME NEW S \in SUBSET Nat, p \in S, Ahead(f, S) PROVE q \in S
        <5>1. n \in S
          BY <2>2, <4>1 DEF Ahead
        <5> QED
          BY <3>2, <4>1, <5>1 DEF Reach
      <4> QED
        BY <3>2, <4>1 DEF Reach
    <3>3. p \in Reach(f, p)
      BY DEF Reach
    <3>4. ASSUME NEW q \in Reach(f, p), q # p PROVE q \in Reach(f, n)
      <4>1. ASSUME NEW S \in SUBSET Nat, n \in S, Ahead(f, S) PROVE q \in S
        <5>1. S \cup {p} \in SUBSET Nat /\ p \in S \cup {p}
          BY <4>1
        <5>2. Ahead(f, S \cup {p})
          BY <4>1 DEF Ahead
        <5>3. q \in S \cup {p}
          BY <3>4, <5>1, <5>2 DEF Reach
        <5> QED
          BY <3>4, <5>3
      <4> QED
        BY <3>4, <4>1 DEF Reach
    <3> QED
      BY <2>2, <3>2, <3>3, <3>4
  <2> QED
    BY <2>1, <2>2
<1>2. \A p \in Nat : Reach(f, p) \in SUBSET Nat
  BY DEF Reach
<1>3. Right(g)
  <2>1. ASSUME NEW p \in Nat
        PROVE  Reach(f, p) = IF AtEnd(f, p) THEN {p} ELSE {p} \cup g[Follower(f, p)]
    <3>1. ~AtEnd(f, p) => g[Follower(f, p)] = Reach(f, Follower(f, p))
      BY FollowerIs
    <3> QED
      BY <1>1, <3>1
  <2> QED
    BY <2>1
<1> DEFINE w == CHOOSE w : Right(w)
<1> HIDE DEF g
<1>4. Right(w)
  BY <1>3
<1>5. Log(f) = w[Base]
  BY DEF Log
<1> HIDE DEF w
<1>6. \A p \in Nat : w[p] = IF AtEnd(f, p) THEN {p} ELSE {p} \cup w[Follower(f, p)]
  BY <1>4
<1> QED
  BY <1>5, <1>6

-----------------------------------------------------------------------------
(* What the log is. *)

\* A file that is complete, or was replaced.
Closed == [flags : SUBSET {"ACTIVE"}, nameLen : {1}, fileLen : 0..Top]

\* L are the headers of complete files, one behind the other, and e, behind the last.
IsLog(f, L, e) ==
  /\ e \in Base..Top /\ Base \in L /\ e \in L /\ L \subseteq Base..e
  /\ \A p \in L \ {e} :
       /\ f[p] \in Closed /\ f[p + 1] \in Names /\ Follower(f, p) \in L
       /\ \A q \in L : q > p => q >= Follower(f, p)
       /\ \A i \in 1..f[p].fileLen : f[p + 1 + i] \in Values

\* How the walk passes a complete file.
LEMMA ClosedIs ==
  ASSUME NEW f \in Flashes, NEW p \in Base..Top, f[p] \in Closed
  PROVE  /\ f[p] \in Header /\ ~AtEnd(f, p) /\ f[p].fileLen \in 0..Top
         /\ Follower(f, p) = p + 2 + f[p].fileLen
         /\ HasFlag(f, p, "ACTIVE") <=> f[p].flags = {"ACTIVE"}
<1>1. f[p].flags \subseteq {"ACTIVE"} /\ f[p].nameLen = 1 /\ f[p].fileLen \in 0..Top
  BY DEF Closed
<1>2. f[p] \in Header
  <2>1. \A h \in Closed : h \in Header
    BY DEF Closed, Header, Flags
  <2> QED
    BY <2>1
<1>3. p \in DOMAIN f
  BY DEF Flashes
<1>4. Follower(f, p) = p + 2 + f[p].fileLen
  BY <1>1 DEF Follower
<1>5. ~AtEnd(f, p)
  BY <1>1, <1>2, <1>3 DEF AtEnd
<1> QED
  BY <1>1, <1>2, <1>3, <1>4, <1>5 DEF HasFlag

\* What lies in it: headers, and behind each a name and the data.
LEMMA InLog ==
  ASSUME NEW f \in Flashes, NEW L, NEW e, IsLog(f, L, e), NEW p \in L \ {e}
  PROVE  /\ p \in Base..Top /\ p >= 1 /\ p < e /\ f[p] \in Closed /\ f[p].fileLen \in 0..Top
         /\ p + 2 + f[p].fileLen <= e /\ p + 2 + f[p].fileLen \in L
         /\ Follower(f, p) = p + 2 + f[p].fileLen
         /\ f[p + 1] \in Names /\ \A i \in 1..f[p].fileLen : f[p + 1 + i] \in Values
         /\ \A q \in L : q <= p \/ q >= p + 2 + f[p].fileLen
<1>0. /\ e \in Base..Top /\ Base \in L /\ e \in L /\ L \subseteq Base..e
      /\ Base \in Nat /\ Top \in Nat /\ Base >= 1
  BY RoffsAssumption DEF IsLog
<1>1. /\ f[p] \in Closed /\ Follower(f, p) \in L
      /\ \A q \in L : q > p => q >= Follower(f, p)
      /\ f[p + 1] \in Names /\ \A i \in 1..f[p].fileLen : f[p + 1 + i] \in Values
  BY DEF IsLog
<1>2. p \in Base..Top /\ p < e
  BY <1>0
<1>3. Follower(f, p) = p + 2 + f[p].fileLen /\ f[p].fileLen \in 0..Top
  BY <1>1, <1>2, ClosedIs
<1> QED
  BY <1>0, <1>1, <1>2, <1>3

\* The walk from a header of the log meets those behind it.
LEMMA LogIs ==
  ASSUME NEW f \in Flashes, NEW L, NEW e, IsLog(f, L, e), AtEnd(f, e)
  PROVE  Log(f) = L /\ LogEnd(f) = e
<1> DEFINE From(p) == {q \in L : q >= p}
<1>0. /\ e \in Base..Top /\ Base \in L /\ e \in L /\ L \subseteq Base..e
      /\ Base \in Nat /\ Top \in Nat /\ L \subseteq 0..Top
  BY RoffsAssumption DEF IsLog
<1>1. PICK w : /\ Log(f) = w[Base]
               /\ \A p \in Nat : w[p] = IF AtEnd(f, p) THEN {p} ELSE {p} \cup w[Follower(f, p)]
  BY WalkIs
<1> DEFINE Wrong == {p \in L : w[p] # From(p)}
<1>2. ASSUME Wrong # {} PROVE FALSE
  <2>1. PICK p \in Wrong : \A q \in Wrong : q <= p
    BY <1>0, <1>2, Largest
  <2>2. p \in L /\ w[p] # From(p) /\ p \in Nat
    BY <1>0, <2>1
  <2>3. CASE p = e
    <3>1. From(p) = {p}
      <4>1. \A q \in L : q >= p => q = p
        BY <1>0, <2>2, <2>3
      <4>2. p >= p
        BY <2>2
      <4> QED
        BY <2>2, <4>1, <4>2
    <3> QED
      BY <1>1, <2>2, <2>3, <3>1
  <2>4. CASE p # e
    <3> DEFINE n == Follower(f, p)
    <3>1. /\ f[p] \in Closed /\ n \in L /\ p \in Base..Top
          /\ \A q \in L : q > p => q >= n
      <4>1. p \in L \ {e}
        BY <2>2, <2>4
      <4>2. \A q \in L : q > p => q >= p + 2 + f[p].fileLen
        BY <1>0, <4>1, InLog
      <4> QED
        BY <4>1, <4>2, InLog
    <3>2. ~AtEnd(f, p) /\ n = p + 2 + f[p].fileLen /\ f[p].fileLen \in 0..Top
      BY <3>1, ClosedIs
    <3>7. n \in Nat /\ n > p
      BY <1>0, <3>1, <3>2
    <3> HIDE DEF n, Wrong, From
    <3>3. n \notin Wrong
      BY <2>1, <2>2, <3>7
    <3>4. w[n] = From(n)
      BY <3>1, <3>3 DEF Wrong
    <3>5. w[p] = {p} \cup w[n]
      BY <1>1, <2>2, <3>2 DEF n
    <3>6. From(p) = {p} \cup From(n)
      <4>1. L \subseteq Nat
        BY <1>0
      <4>2. \A q \in L : q >= p <=> (q = p \/ q >= n)
        BY <2>2, <3>1, <3>7, <4>1
      <4> QED
        BY <2>2, <4>2 DEF From
    <3> QED
      BY <2>2, <3>4, <3>5, <3>6
  <2> QED
    BY <2>3, <2>4
<1>3. w[Base] = From(Base) /\ From(Base) = L
  BY <1>0, <1>2
<1>4. Log(f) = L
  BY <1>1, <1>3
<1>5. ASSUME NEW p \in L, AtEnd(f, p) PROVE p = e
  <2>1. CASE p # e
    <3>1. p \in Base..Top /\ f[p] \in Closed
      BY <1>0, <1>5, <2>1 DEF IsLog
    <3> QED
      BY <1>5, <3>1, ClosedIs
  <2> QED
    BY <2>1
<1>6. LogEnd(f) = e
  BY <1>0, <1>4, <1>5 DEF LogEnd
<1> QED
  BY <1>4, <1>6

\* The log is told by what stands in it.
LEMMA LogKept ==
  ASSUME NEW f \in Flashes, NEW g \in Flashes, NEW L, NEW e, IsLog(f, L, e),
         \A a \in Base .. e - 1 : g[a] = f[a]
  PROVE  IsLog(g, L, e)
<1>0. /\ e \in Base..Top /\ Base \in L /\ e \in L /\ L \subseteq Base..e
      /\ Base \in Nat /\ Top \in Nat
  BY RoffsAssumption DEF IsLog
<1>1. ASSUME NEW p \in L \ {e}
      PROVE  /\ g[p] \in Closed /\ g[p + 1] \in Names /\ Follower(g, p) \in L
             /\ \A q \in L : q > p => q >= Follower(g, p)
             /\ \A i \in 1..g[p].fileLen : g[p + 1 + i] \in Values
  <2>1. /\ f[p] \in Closed /\ f[p + 1] \in Names /\ Follower(f, p) \in L
        /\ \A q \in L : q > p => q >= Follower(f, p)
        /\ \A i \in 1..f[p].fileLen : f[p + 1 + i] \in Values
    BY DEF IsLog
  <2>2. /\ p \in Base .. e - 1 /\ p \in Base..Top
        /\ Follower(f, p) = p + 2 + f[p].fileLen /\ f[p].fileLen \in Nat
    BY <1>0, <2>1, ClosedIs
  <2>3. Follower(f, p) <= e
    BY <1>0, <2>1
  <2>4. g[p] = f[p] /\ Follower(g, p) = Follower(f, p)
    BY <2>2 DEF Follower
  <2>5. g[p + 1] = f[p + 1]
    BY <1>0, <2>2, <2>3
  <2>6. ASSUME NEW i \in 1..f[p].fileLen PROVE g[p + 1 + i] = f[p + 1 + i]
    BY <1>0, <2>2, <2>3
  <2> QED
    BY <2>1, <2>4, <2>5, <2>6
<1> QED
  BY <1>0, <1>1 DEF IsLog

\* A file that is closed lengthens it.
LEMMA LogGrows ==
  ASSUME NEW f \in Flashes, NEW L, NEW e, IsLog(f, L, e),
         f[e] \in Closed, f[e + 1] \in Names, \A i \in 1..f[e].fileLen : f[e + 1 + i] \in Values,
         Follower(f, e) <= Top
  PROVE  IsLog(f, L \cup {Follower(f, e)}, Follower(f, e))
<1> DEFINE n == Follower(f, e)
<1>0. /\ e \in Base..Top /\ Base \in L /\ e \in L /\ L \subseteq Base..e
      /\ Base \in Nat /\ Top \in Nat
  BY RoffsAssumption DEF IsLog
<1>1. n = e + 2 + f[e].fileLen /\ f[e].fileLen \in Nat
  BY <1>0, ClosedIs
<1>2. n \in Base..Top /\ n > e
  BY <1>0, <1>1
<1> HIDE DEF n
<1>3. ASSUME NEW p \in L
      PROVE  /\ f[p] \in Closed /\ f[p + 1] \in Names /\ Follower(f, p) \in L \cup {n}
             /\ \A q \in L \cup {n} : q > p => q >= Follower(f, p)
             /\ \A i \in 1..f[p].fileLen : f[p + 1 + i] \in Values
  <2>1. CASE p = e
    BY <1>0, <1>2, <2>1 DEF n
  <2>2. CASE p # e
    <3>1. p \in L \ {e}
      BY <2>2
    <3>2. Follower(f, p) \in L /\ \A q \in L : q > p => q >= Follower(f, p)
      BY <3>1 DEF IsLog
    <3>3. n >= Follower(f, p)
      <4>1. Follower(f, p) \in Base..e
        BY <1>0, <3>2
      <4> QED
        BY <1>0, <1>2, <4>1
    <3> QED
      BY <3>1, <3>2, <3>3, InLog
  <2> QED
    BY <2>1, <2>2
<1>4. L \cup {n} \subseteq Base..n
  BY <1>0, <1>2
<1> QED
  BY <1>0, <1>2, <1>3, <1>4 DEF IsLog, n

-----------------------------------------------------------------------------
(* Erasing and programming. *)

Boundary(a) == a % SecSize = 0

\* From a to the end of its sector, or to the end of the file system, nothing is written yet;
\* which does not matter where a begins a sector, since then it will be erased.
Fresh(f, a) == \A b \in a..Top : b \div SecSize = a \div SecSize => f[b] = Erased
Clean(f, a) == Boundary(a) \/ Fresh(f, a)

\* Which cells lie in one sector.
LEMMA NextSector ==
  ASSUME NEW n \in Nat \ {0}, NEW a \in Nat, NEW b \in Nat
  PROVE  /\ (a + 1) % n # 0 => (a + 1) \div n = a \div n
         /\ a % n = 0 /\ b < a => b \div n # a \div n
<1>0. \A x, y \in Nat : n * x \in Nat /\ (x < y => n * x + n <= n * y)
  OBVIOUS
<1>1. \A c \in Nat : /\ c \div n \in Nat /\ (c % n) \in 0 .. n - 1
                     /\ c = n * (c \div n) + (c % n)
  OBVIOUS
<1>2. PICK q \in Nat, s \in 0 .. n - 1 : q = a \div n /\ s = a % n /\ a = n * q + s
  BY <1>1
<1>3. PICK p \in Nat, t \in 0 .. n - 1 :
        p = (a + 1) \div n /\ t = (a + 1) % n /\ a + 1 = n * p + t
  BY <1>1, a + 1 \in Nat
<1>4. PICK d \in Nat, e \in 0 .. n - 1 : d = b \div n /\ e = b % n /\ b = n * d + e
  BY <1>1
<1>5. PICK nq \in Nat, np \in Nat, nd \in Nat : nq = n * q /\ np = n * p /\ nd = n * d
  BY <1>0
<1>6. /\ (p < q => np + n <= nq) /\ (q < p => nq + n <= np)
      /\ d = q => nd = nq
  BY <1>0, <1>5
<1>7. a = nq + s /\ a + 1 = np + t /\ b = nd + e
  BY <1>2, <1>3, <1>4, <1>5
<1>8. t # 0 => p = q
  BY <1>6, <1>7
<1>9. s = 0 /\ b < a => d # q
  BY <1>6, <1>7
<1> QED
  BY <1>2, <1>3, <1>4, <1>8, <1>9

\* An erase of the sector that begins at a leaves what is in front of a.
LEMMA Erasing ==
  ASSUME NEW f \in Flashes, NEW a \in Base..Top, Boundary(a)
  PROVE  /\ EraseSector(f, a) \in Flashes
         /\ Fresh(EraseSector(f, a), a)
         /\ EraseSector(f, a)[a] = Erased
         /\ \A b \in Base .. a - 1 : EraseSector(f, a)[b] = f[b]
         /\ \A b \in Base..Top : EraseSector(f, a)[b] \in {Erased, f[b]}
<1> DEFINE g == EraseSector(f, a)
<1>0. SecSize \in Nat \ {0} /\ a \in Nat /\ Base \in Nat /\ Top \in Nat
  BY RoffsAssumption
<1>1. DOMAIN f = Base..Top /\ \A b \in Base..Top : f[b] \in Cells
  BY DEF Flashes
<1>5. Erased \in Cells
  BY DEF Cells
<1>6. g = [b \in Base..Top |-> IF b \div SecSize = a \div SecSize THEN Erased ELSE f[b]]
  BY <1>1 DEF EraseSector
<1> HIDE DEF g
<1>2. /\ g \in [Base..Top -> Cells]
      /\ \A b \in Base..Top : g[b] = IF b \div SecSize = a \div SecSize THEN Erased ELSE f[b]
  <2>1. \A b \in Base..Top : (IF b \div SecSize = a \div SecSize THEN Erased ELSE f[b]) \in Cells
    BY <1>1, <1>5
  <2>2. \A b \in Base..Top : g[b] = IF b \div SecSize = a \div SecSize THEN Erased ELSE f[b]
    BY <1>6
  <2>3. g \in [Base..Top -> Cells]
    BY <1>6, <2>1, Zenon
  <2> QED
    BY <2>2, <2>3
<1>3. Fresh(g, a)
  <2>1. ASSUME NEW b \in a..Top, b \div SecSize = a \div SecSize PROVE g[b] = Erased
    <3>1. b \in Base..Top
      BY <1>0
    <3> QED
      BY <1>2, <2>1, <3>1, Zenon
  <2> QED
    BY <2>1 DEF Fresh
<1>4. ASSUME NEW b \in Base .. a - 1 PROVE g[b] = f[b]
  <2>1. b \div SecSize # a \div SecSize
    <3>1. b \in Nat /\ b < a /\ a % SecSize = 0
      BY <1>0 DEF Boundary
    <3> QED
      BY <1>0, <3>1, NextSector
  <2>2. b \in Base..Top
    BY <1>0
  <2> QED
    BY <1>2, <2>1, <2>2
<1> QED
  BY <1>2, <1>3, <1>4 DEF g, Flashes

\* Once a cell is written, the next may be.
LEMMA CleanBehind ==
  ASSUME NEW f, NEW g, NEW a \in Base..Top, Fresh(f, a), \A b \in a + 1 .. Top : g[b] = f[b]
  PROVE  Clean(g, a + 1)
<1>0. SecSize \in Nat \ {0} /\ a \in Nat /\ Base \in Nat /\ Top \in Nat
  BY RoffsAssumption
<1>1. ASSUME ~Boundary(a + 1), NEW b \in a + 1 .. Top, b \div SecSize = (a + 1) \div SecSize
      PROVE  g[b] = Erased
  <2>1. (a + 1) \div SecSize = a \div SecSize
    BY <1>0, <1>1, NextSector DEF Boundary
  <2>2. b \in a..Top
    BY <1>0
  <2>3. f[b] = Erased
    BY <1>1, <2>1, <2>2 DEF Fresh
  <2> QED
    BY <1>1, <2>3
<1> QED
  BY <1>1 DEF Clean, Fresh

\* Whether cells are fresh is told by the cells.
LEMMA CleanKept ==
  ASSUME NEW f, NEW g, NEW a, \A b \in a..Top : g[b] = f[b]
  PROVE  (Fresh(f, a) => Fresh(g, a)) /\ (Clean(f, a) => Clean(g, a))
  BY DEF Fresh, Clean

\* What the headers of the log are written over with.
LEMMA Clearing ==
  /\ \A new : Programmed(Erased, new) = new
  /\ Programmed(Terminator, NewHeader) = NewHeader
  /\ \A h \in Closed : h.flags = {"ACTIVE"} =>
       [h EXCEPT !.flags = @ \ {"ACTIVE"}] = [h EXCEPT !.flags = {}]
  /\ \A h \in Closed : Programmed(h, [h EXCEPT !.flags = {}]) = [h EXCEPT !.flags = {}]
  /\ \A n \in 0..Top : LET h == [flags |-> {"ACTIVE"}, nameLen |-> 1, fileLen |-> n]
                       IN  h \in Closed /\ Programmed(NewHeader, h) = h
<1>0. Top \in Nat
  BY RoffsAssumption
<1>1. Terminator \in Header /\ NewHeader \in Header
  BY <1>0 DEF Terminator, NewHeader, Header, Flags
<1>2. Programmed(Terminator, NewHeader) = NewHeader
  BY <1>1 DEF Programmed, Terminator, NewHeader, Flags, Clears
<1>3. ASSUME NEW h \in Closed
      PROVE  /\ h.flags = {"ACTIVE"} =>
                  [h EXCEPT !.flags = @ \ {"ACTIVE"}] = [h EXCEPT !.flags = {}]
             /\ Programmed(h, [h EXCEPT !.flags = {}]) = [h EXCEPT !.flags = {}]
  <2> DEFINE d == [h EXCEPT !.flags = {}]
  <2>1. h \in Header /\ d \in Header
    BY <1>0 DEF Closed, Header, Flags
  <2>2. d.flags = {} /\ d.nameLen = h.nameLen /\ d.fileLen = h.fileLen
    BY DEF Closed
  <2>3. Programmed(h, d) = d
    BY <2>1, <2>2 DEF Programmed, Clears
  <2>4. h.flags = {"ACTIVE"} => h.flags \ {"ACTIVE"} = {}
    OBVIOUS
  <2> QED
    BY <2>3, <2>4
<1>4. ASSUME NEW n \in 0..Top
      PROVE  LET h == [flags |-> {"ACTIVE"}, nameLen |-> 1, fileLen |-> n]
             IN  h \in Closed /\ Programmed(NewHeader, h) = h
  <2> DEFINE h == [flags |-> {"ACTIVE"}, nameLen |-> 1, fileLen |-> n]
  <2>1. h \in Closed /\ h \in Header
    BY <1>0 DEF Closed, Header, Flags
  <2>2. Programmed(NewHeader, h) = h
    BY <1>1, <2>1 DEF Programmed, NewHeader, Clears
  <2> QED
    BY <2>1, <2>2
<1> QED
  BY <1>2, <1>3, <1>4 DEF Programmed

-----------------------------------------------------------------------------
(* Names and downloads. *)

Shows(f, p, n) == f[p].flags = {"ACTIVE"} /\ f[p + 1] = n
Unique(f, L, e) == \A n \in Plain : \A p, q \in L \ {e} : Shows(f, p, n) /\ Shows(f, q, n) => p = q
Gone(f, L, e, n) == \A p \in L \ {e} : ~Shows(f, p, Strip[n])

\* What a download is given is a file of the log.
Reading(f, L, e, r) ==
  \E p \in L \ {e} :
    /\ r.start = p + 2 /\ r.size = f[p].fileLen /\ Len(r.version) = r.size
    /\ \A i \in 1..r.size : f[p + 1 + i] = r.version[i]

\* What is looked for has no '/' in front.
LEMMA StripPlain == \A n \in Names : Strip[n] \in Plain /\ Strip[Strip[n]] = Strip[n]
  BY NameAssumption DEF Plain

\* What is behind the log is no part of it.
LEMMA LogSame ==
  ASSUME NEW f \in Flashes, NEW g \in Flashes, NEW L, NEW e, IsLog(f, L, e),
         \A a \in Base .. e - 1 : g[a] = f[a]
  PROVE  /\ IsLog(g, L, e)
         /\ Unique(f, L, e) => Unique(g, L, e)
         /\ \A n : Gone(f, L, e, n) => Gone(g, L, e, n)
         /\ \A r : Reading(f, L, e, r) => Reading(g, L, e, r)
<1>1. ASSUME NEW p \in L \ {e}
      PROVE  g[p] = f[p] /\ g[p + 1] = f[p + 1] /\ \A i \in 1..f[p].fileLen : g[p + 1 + i] = f[p + 1 + i]
  <2>1. /\ p \in Base..Top /\ p >= 1 /\ f[p].fileLen \in 0..Top /\ e \in Base..Top
        /\ p + 2 + f[p].fileLen <= e /\ Base \in Nat /\ Top \in Nat
    BY InLog, RoffsAssumption DEF IsLog
  <2>2. p \in Base .. e - 1 /\ p + 1 \in Base .. e - 1
    BY <2>1
  <2>3. ASSUME NEW i \in 1..f[p].fileLen PROVE p + 1 + i \in Base .. e - 1
    BY <2>1
  <2> QED
    BY <2>2, <2>3
<1>2. IsLog(g, L, e)
  BY LogKept
<1>3. \A n : \A p \in L \ {e} : Shows(g, p, n) <=> Shows(f, p, n)
  BY <1>1 DEF Shows
<1>4. ASSUME NEW r, Reading(f, L, e, r) PROVE Reading(g, L, e, r)
  BY <1>1, <1>4 DEF Reading
<1> QED
  BY <1>2, <1>3, <1>4 DEF Unique, Gone

\* roffs_create deletes the old version.
LEMMA Retired ==
  ASSUME NEW f \in Flashes, NEW L, NEW e, IsLog(f, L, e), Unique(f, L, e),
         NEW p \in L \ {e}, NEW n \in Names, Shows(f, p, Strip[n]),
         NEW g \in Flashes, g[p] = [f[p] EXCEPT !.flags = {}],
         \A a \in Base..Top \ {p} : g[a] = f[a]
  PROVE  /\ IsLog(g, L, e) /\ Unique(g, L, e) /\ Gone(g, L, e, n)
         /\ \A r : Reading(f, L, e, r) => Reading(g, L, e, r)
<1> DEFINE d == [f[p] EXCEPT !.flags = {}]
<1>0. /\ e \in Base..Top /\ Base \in L /\ e \in L /\ L \subseteq Base..e
      /\ Base \in Nat /\ Top \in Nat
  BY RoffsAssumption DEF IsLog
<1>1. /\ p \in Base..Top /\ p >= 1 /\ f[p] \in Closed /\ f[p].fileLen \in 0..Top
  BY InLog
<1>2. /\ d \in Closed /\ d \in Cells /\ d.flags = {} /\ d.fileLen = f[p].fileLen
      /\ d.nameLen = f[p].nameLen
  <2>1. d \in Closed /\ d.flags = {} /\ d.fileLen = f[p].fileLen /\ d.nameLen = f[p].nameLen
    BY <1>1 DEF Closed
  <2>2. \A h \in Closed : h \in Header
    BY DEF Closed, Header, Flags
  <2> QED
    BY <2>1, <2>2 DEF Cells
<1> HIDE DEF d
<1>3. g[p] = d /\ \A a \in Base..Top \ {p} : g[a] = f[a]
  BY DEF d
<1>4. ASSUME NEW q \in L \ {e}
      PROVE  /\ g[q].fileLen = f[q].fileLen /\ g[q].nameLen = f[q].nameLen /\ g[q] \in Closed
             /\ q # p => g[q] = f[q]
             /\ g[q + 1] = f[q + 1]
             /\ \A i \in 1..f[q].fileLen : g[q + 1 + i] = f[q + 1 + i]
  <2>1. /\ q \in Base..Top /\ q >= 1 /\ f[q] \in Closed /\ f[q].fileLen \in 0..Top
        /\ q + 2 + f[q].fileLen <= e /\ (p <= q \/ p >= q + 2 + f[q].fileLen)
    BY InLog
  <2>2. g[q].fileLen = f[q].fileLen /\ g[q].nameLen = f[q].nameLen /\ g[q] \in Closed
    BY <1>2, <1>3, <2>1
  <2>3. g[q + 1] = f[q + 1]
    BY <1>0, <1>1, <1>3, <2>1
  <2>4. ASSUME NEW i \in 1..f[q].fileLen PROVE g[q + 1 + i] = f[q + 1 + i]
    BY <1>0, <1>1, <1>3, <2>1
  <2> QED
    BY <1>3, <2>1, <2>2, <2>3, <2>4
<1>5. IsLog(g, L, e)
  <2>1. ASSUME NEW q \in L \ {e} PROVE Follower(g, q) = Follower(f, q)
    BY <1>4 DEF Follower
  <2>2. ASSUME NEW q \in L \ {e}
        PROVE  /\ f[q + 1] \in Names /\ Follower(f, q) \in L
               /\ \A x \in L : x > q => x >= Follower(f, q)
               /\ \A i \in 1..f[q].fileLen : f[q + 1 + i] \in Values
    BY DEF IsLog
  <2>3. ASSUME NEW q \in L \ {e}
        PROVE  /\ g[q] \in Closed /\ g[q + 1] \in Names /\ Follower(g, q) \in L
               /\ \A x \in L : x > q => x >= Follower(g, q)
               /\ \A i \in 1..g[q].fileLen : g[q + 1 + i] \in Values
    BY <1>4, <2>1, <2>2
  <2> QED
    BY <1>0, <2>3 DEF IsLog
<1>6. ASSUME NEW q \in L \ {e}, NEW m, Shows(g, q, m) PROVE Shows(f, q, m) /\ q # p
  BY <1>2, <1>3, <1>4, <1>6 DEF Shows
<1>7. Unique(g, L, e)
  BY <1>6 DEF Unique
<1>8. Gone(g, L, e, n)
  <2>1. ASSUME NEW q \in L \ {e}, Shows(g, q, Strip[n]) PROVE FALSE
    <3>1. Shows(f, q, Strip[n]) /\ q # p
      BY <1>6, <2>1
    <3>2. q = p
      BY <3>1, StripPlain DEF Unique
    <3> QED
      BY <3>1, <3>2
  <2> QED
    BY <2>1 DEF Gone
<1>9. ASSUME NEW r, Reading(f, L, e, r) PROVE Reading(g, L, e, r)
  <2>1. PICK q \in L \ {e} :
          /\ r.start = q + 2 /\ r.size = f[q].fileLen /\ Len(r.version) = r.size
          /\ \A i \in 1..r.size : f[q + 1 + i] = r.version[i]
    BY <1>9 DEF Reading
  <2>2. g[q].fileLen = f[q].fileLen /\ \A i \in 1..f[q].fileLen : g[q + 1 + i] = f[q + 1 + i]
    BY <1>4
  <2>3. r.size = g[q].fileLen /\ \A i \in 1..r.size : g[q + 1 + i] = r.version[i]
    BY <2>1, <2>2
  <2> QED
    BY <2>1, <2>3 DEF Reading
<1> QED
  BY <1>2, <1>3, <1>5, <1>7, <1>8, <1>9

\* roffs_close makes a file of the upload at the end of the log.
LEMMA Published ==
  ASSUME NEW f \in Flashes, NEW L, NEW e, IsLog(f, L, e), Unique(f, L, e),
         f[e] \in Closed, f[e + 1] \in Names, Gone(f, L, e, f[e + 1]),
         \A i \in 1..f[e].fileLen : f[e + 1 + i] \in Values, e + 2 + f[e].fileLen <= Top
  PROVE  LET n == e + 2 + f[e].fileLen IN
         /\ IsLog(f, L \cup {n}, n) /\ Unique(f, L \cup {n}, n) /\ n \notin L
         /\ \A r : Reading(f, L, e, r) => Reading(f, L \cup {n}, n, r)
<1> DEFINE n == e + 2 + f[e].fileLen
<1>0. /\ e \in Base..Top /\ Base \in L /\ e \in L /\ L \subseteq Base..e
      /\ Base \in Nat /\ Top \in Nat
  BY RoffsAssumption DEF IsLog
<1>1. f[e].fileLen \in 0..Top /\ Follower(f, e) = n
  BY <1>0, ClosedIs
<1>2. n > e /\ n \notin L
  BY <1>0, <1>1
<1>3. IsLog(f, L \cup {n}, n)
  BY <1>1, LogGrows
<1> HIDE DEF n
<1>4. (L \cup {n}) \ {n} = L
  BY <1>2
<1>5. Unique(f, L \cup {n}, n)
  <2>1. ASSUME NEW m \in Plain, NEW p \in L, NEW q \in L, Shows(f, p, m), Shows(f, q, m)
        PROVE  p = q
    BY <2>1 DEF Unique, Gone, Shows, Plain
  <2> QED
    BY <1>4, <2>1 DEF Unique
<1>6. ASSUME NEW r, Reading(f, L, e, r) PROVE Reading(f, L \cup {n}, n, r)
  BY <1>4, <1>6 DEF Reading
<1> QED
  BY <1>2, <1>3, <1>5, <1>6 DEF n

-----------------------------------------------------------------------------
(* The invariant. *)

Ops == [at : Base..Top, cell : Cells, erase : BOOLEAN]

\* The cells an upload takes: its header, its name, its data.
Image(u, i) == IF i = 1 THEN NewHeader ELSE IF i = 2 THEN u.name ELSE u.data[i - 2]
Length(u) == Len(u.data)
EndOf(u) == u.header + 2 + Length(u)
ClosedBy(u) == [flags |-> {"ACTIVE"}, nameLen |-> 1, fileLen |-> Length(u)]

\* What there is to do for upload u from cell a on: the n cells of it that are left,
\* the header, when it is complete, and the new end of the log.
Many(u, n, ops) == Len(ops) = n + (IF u.stage = "whole" THEN 2 ELSE 0)

Pieces(u, a, n, ops) ==
  \A i \in 1..n : /\ ops[i].at = a + i - 1 /\ ops[i].cell = Image(u, a - u.header + i)
                  /\ i > 1 => ops[i].erase = Boundary(a + i - 1)

Closing(u, n, ops) ==
  u.stage = "whole" =>
    /\ ops[n + 1] = [at |-> u.header, cell |-> ClosedBy(u), erase |-> FALSE]
    /\ ops[n + 2] = [at |-> EndOf(u), cell |-> Terminator, erase |-> Boundary(EndOf(u))]

PlanOf(u, a, n, ops) == Many(u, n, ops) /\ Pieces(u, a, n, ops) /\ Closing(u, n, ops)
Plan(u, a, ops) == PlanOf(u, a, EndOf(u) - a, ops)

\* The cells before a are there.
Laid(f, u, a) == \A b \in Nat : u.header <= b /\ b < a => f[b] = Image(u, b - u.header + 1)

NoUploads == \A c \in Conns : uploads[c] = None
Only(c) == c \in Conns /\ \A d \in Conns \ {c} : uploads[d] = None

\* The log ends, in a terminator or an upload that was not closed, or was never begun.
Ends(L, e) ==
  \/ flash[e] = Terminator /\ Clean(flash, e + 1)
  \/ flash[e] = NewHeader
  \/ e = Base /\ flash[e] \notin Header

\* No handler is at work, and no file is being written.
Resting(L, e) == todo = <<>> /\ NoUploads /\ Ends(L, e)

\* The file system is about to be formatted.
Formatting(L, e) ==
  /\ NoUploads /\ (\A c \in Conns : readers[c] = None) /\ Ends(L, e)
  /\ \E b \in BOOLEAN : /\ todo = <<[at |-> Base, cell |-> Terminator, erase |-> b]>>
                        /\ ~b => Fresh(flash, Base)

\* c writes the file at the end of the log.
Has(L, e, c) ==
  /\ Only(c) /\ uploads[c] \in Uploads /\ uploads[c].header = e /\ EndOf(uploads[c]) <= Top

\* More of it is to come.
Receiving(L, e, c) ==
  /\ todo = <<>> /\ Has(L, e, c) /\ uploads[c].stage = "open"
  /\ Gone(flash, L, e, uploads[c].name)
  /\ Laid(flash, uploads[c], EndOf(uploads[c])) /\ Clean(flash, EndOf(uploads[c]))

\* The old version is about to be deleted.
Retiring(L, e, c) ==
  /\ todo # <<>> /\ busy = c /\ Has(L, e, c)
  /\ \E p \in L \ {e} :
       /\ Shows(flash, p, Strip[uploads[c].name])
       /\ todo[1] = [at |-> p, cell |-> [flash[p] EXCEPT !.flags = {}], erase |-> FALSE]
  /\ Plan(uploads[c], e, Tail(todo)) /\ Tail(todo)[1].erase = Boundary(e)
  /\ flash[e] = Terminator /\ Clean(flash, e + 1)

\* The cells from a on are about to be written.
Writing(L, e, c, a) ==
  /\ todo # <<>> /\ busy = c /\ Has(L, e, c)
  /\ Gone(flash, L, e, uploads[c].name)
  /\ a \in e .. EndOf(uploads[c])
  /\ Plan(uploads[c], a, todo) /\ Laid(flash, uploads[c], a)
  /\ a = e => flash[e] = Erased \/ (flash[e] = Terminator /\ Clean(flash, e + 1))
  /\ a = EndOf(uploads[c]) => Clean(flash, a)
  /\ a # EndOf(uploads[c]) =>
       IF todo[1].erase THEN Boundary(a)
                        ELSE Fresh(flash, a) \/ (a = e /\ flash[e] = Terminator)

\* The file is closed, and the new end of the log is about to be written.
Ending(L, e, c) ==
  /\ busy = c /\ Only(c) /\ uploads[c] \in Uploads /\ uploads[c].stage = "whole"
  /\ uploads[c].header \in L \ {e} /\ EndOf(uploads[c]) = e
  /\ \E b \in BOOLEAN : /\ todo = <<[at |-> e, cell |-> Terminator, erase |-> b]>>
                        /\ IF b THEN Boundary(e) ELSE Fresh(flash, e)

Undisturbed(L, e) == \A c \in Conns : readers[c] # None => Reading(flash, L, e, readers[c])

Stage(L, e) ==
  \/ Resting(L, e) \/ Formatting(L, e)
  \/ \E c \in Conns : Receiving(L, e, c) \/ Retiring(L, e, c) \/ Ending(L, e, c)
  \/ \E c \in Conns, a \in Base..Top : Writing(L, e, c, a)

Whole(L, e) == IsLog(flash, L, e) /\ Unique(flash, L, e) /\ Undisturbed(L, e)

RoffsInv == TypeOK /\ NothingGarbled /\ (~wild => \E L, e : Whole(L, e) /\ Stage(L, e))

-----------------------------------------------------------------------------
(* What an operation does. *)

\* An operation in front of others.
LEMMA InFront ==
  ASSUME NEW S, NEW x \in S, NEW t \in Seq(S)
  PROVE  /\ <<x>> \o t \in Seq(S) /\ Len(<<x>> \o t) = 1 + Len(t)
         /\ \A i \in 1 .. 1 + Len(t) : (<<x>> \o t)[i] = IF i = 1 THEN x ELSE t[i - 1]
<1>1. PICK s : s = <<x>>
  OBVIOUS
<1>2. s \in Seq(S) /\ Len(s) = 1 /\ s[1] = x
  BY <1>1
<1>3. /\ s \o t \in Seq(S) /\ Len(s \o t) = Len(s) + Len(t)
      /\ \A i \in 1 .. Len(s) + Len(t) : (s \o t)[i] = IF i <= Len(s) THEN s[i] ELSE t[i - Len(s)]
  BY <1>2, ConcatProperties
<1>4. PICK v : v = s \o t
  OBVIOUS
<1>5. Len(t) \in Nat
  BY LenProperties
<1>6. \A i \in 1 .. 1 + Len(t) : v[i] = IF i = 1 THEN x ELSE t[i - 1]
  BY <1>2, <1>3, <1>4, <1>5
<1> QED
  BY <1>1, <1>2, <1>3, <1>4, <1>6

\* The operation that is next, and those behind it.
LEMMA OpsTyped ==
  ASSUME TypeOK, todo # <<>>
  PROVE  /\ todo \in Seq(Ops) /\ Len(todo) \in Nat \ {0} /\ Head(todo) = todo[1]
         /\ todo[1] \in Ops /\ todo[1].at \in Base..Top /\ todo[1].cell \in Cells
         /\ todo[1].erase \in BOOLEAN
         /\ Tail(todo) \in Seq(Ops) /\ Len(Tail(todo)) = Len(todo) - 1
         /\ \A i \in 1 .. Len(todo) - 1 : Tail(todo)[i] = todo[i + 1]
         /\ Tail(todo) = <<>> <=> Len(todo) = 1
<1>1. todo \in Seq(Ops)
  BY DEF TypeOK, Ops
<1>2. /\ Head(todo) \in Ops /\ Tail(todo) \in Seq(Ops) /\ Len(Tail(todo)) = Len(todo) - 1
      /\ \A i \in 1 .. Len(Tail(todo)) : Tail(todo)[i] = todo[i + 1]
  BY <1>1, HeadTailProperties
<1>3. Len(todo) \in Nat \ {0} /\ Head(todo) = todo[1]
  BY <1>1, EmptySeq
<1>4. Tail(todo) = <<>> <=> Len(Tail(todo)) = 0
  BY <1>2, EmptySeq
<1>5. \A i \in 1 .. Len(todo) - 1 : Tail(todo)[i] = todo[i + 1]
  BY <1>2
<1>6. Tail(todo) = <<>> <=> Len(todo) = 1
  BY <1>2, <1>3, <1>4
<1>7. PICK x : x = todo[1]
  OBVIOUS
<1>8. x \in Ops
  BY <1>2, <1>3, <1>7
<1>9. x.at \in Base..Top /\ x.cell \in Cells /\ x.erase \in BOOLEAN
  BY <1>8 DEF Ops
<1> QED
  BY <1>1, <1>2, <1>3, <1>5, <1>6, <1>7, <1>8, <1>9

\* An erase leaves the plan, but for the erase.
LEMMA EraseTyped ==
  ASSUME TypeOK, NothingGarbled, Erase
  PROVE  /\ TypeOK' /\ NothingGarbled'
         /\ todo # <<>> /\ todo[1].erase /\ Len(todo') = Len(todo) /\ todo' # <<>>
         /\ todo'[1] = [at |-> todo[1].at, cell |-> todo[1].cell, erase |-> FALSE]
         /\ \A i \in 2..Len(todo) : todo'[i] = todo[i]
         /\ flash' = EraseSector(flash, todo[1].at)
<1>1. /\ todo # <<>> /\ Head(todo).erase /\ flash' = EraseSector(flash, Head(todo).at)
      /\ todo' = updateFlash(Head(todo).at, Head(todo).cell) \o Tail(todo)
      /\ UNCHANGED <<busy, uploads, readers, jump, wild>>
  BY DEF Erase
<1>2. /\ Len(todo) \in Nat \ {0} /\ Head(todo) = todo[1]
      /\ todo[1].at \in Base..Top /\ todo[1].cell \in Cells
      /\ Tail(todo) \in Seq(Ops) /\ Len(Tail(todo)) = Len(todo) - 1
      /\ \A i \in 1 .. Len(todo) - 1 : Tail(todo)[i] = todo[i + 1]
  BY <1>1, OpsTyped
<1> DEFINE op == [at |-> todo[1].at, cell |-> todo[1].cell, erase |-> FALSE]
<1>3. op \in Ops
  BY <1>2 DEF Ops
<1>4. todo' = <<op>> \o Tail(todo)
  BY <1>1, <1>2 DEF updateFlash
<1> HIDE DEF op
<1>5. /\ todo' \in Seq(Ops) /\ Len(todo') = Len(todo)
      /\ \A j \in 1 .. Len(todo) : todo'[j] = IF j = 1 THEN op ELSE todo[j]
  <2> DEFINE t == Tail(todo)
  <2>1. t \in Seq(Ops) /\ Len(t) = Len(todo) - 1 /\ \A i \in 1 .. Len(todo) - 1 : t[i] = todo[i + 1]
    BY <1>2
  <2> HIDE DEF t
  <2>2. /\ <<op>> \o t \in Seq(Ops) /\ Len(<<op>> \o t) = 1 + Len(t)
        /\ \A i \in 1 .. 1 + Len(t) : (<<op>> \o t)[i] = IF i = 1 THEN op ELSE t[i - 1]
    BY <1>3, <2>1, InFront
  <2>3. todo' = <<op>> \o t
    BY <1>4 DEF t
  <2>4. ASSUME NEW j \in 1 .. Len(todo), j # 1 PROVE t[j - 1] = todo[j]
    BY <1>2, <2>1, <2>4
  <2>5. 1 + Len(t) = Len(todo)
    BY <1>2, <2>1
  <2> QED
    BY <2>2, <2>3, <2>4, <2>5
<1>6. todo' # <<>>
  BY <1>2, <1>5, EmptySeq
<1>7. flash \in Flashes
  BY DEF TypeOK, Flashes
<1>8. DOMAIN flash = Base..Top /\ DOMAIN flash' = Base..Top
      /\ flash' \in [Base..Top -> Cells]
      /\ \A b \in Base..Top : flash'[b] \in {Erased, flash[b]}
  <2> DEFINE A == todo[1].at
  <2>1. DOMAIN flash = Base..Top
    BY <1>7 DEF Flashes
  <2>2. flash' = [b \in Base..Top |-> IF b \div SecSize = A \div SecSize THEN Erased ELSE flash[b]]
    BY <1>1, <1>2, <2>1 DEF EraseSector
  <2>3. \A b \in Base..Top : flash[b] \in Cells
    BY <1>7 DEF Flashes
  <2>4. Erased \in Cells
    BY DEF Cells
  <2> HIDE DEF A
  <2>5. \A b \in Base..Top : flash'[b] \in {Erased, flash[b]}
    BY <2>2, Zenon
  <2>6. \A b \in Base..Top : flash'[b] \in Cells
    BY <2>3, <2>4, <2>5
  <2> QED
    BY <2>1, <2>2, <2>5, <2>6, Zenon
<1>9. NothingGarbled'
  BY <1>8, CellAssumption DEF NothingGarbled
<1>10. TypeOK'
  <2>1. todo' \in Seq([at : Base..Top, cell : Cells, erase : BOOLEAN])
    BY <1>5 DEF Ops
  <2> QED
    BY <1>1, <1>8, <2>1 DEF TypeOK
<1>11. \A i \in 2..Len(todo) : todo'[i] = todo[i]
  BY <1>2, <1>5
<1>12. todo'[1] = op
  BY <1>2, <1>5
<1>13. todo[1].erase /\ flash' = EraseSector(flash, todo[1].at)
  BY <1>1, <1>2
<1> QED
  BY <1>1, <1>5, <1>6, <1>9, <1>10, <1>11, <1>12, <1>13 DEF op

\* A sector behind the log is erased.
LEMMA WholeErased ==
  ASSUME TypeOK, NEW L, NEW e, Whole(L, e), NEW a \in e..Top, Boundary(a),
         flash' = EraseSector(flash, a), readers' = readers
  PROVE  /\ Whole(L, e)' /\ flash \in Flashes /\ flash' \in Flashes
         /\ Fresh(flash, a)' /\ flash'[a] = Erased
         /\ \A b \in Base .. a - 1 : flash'[b] = flash[b]
         /\ \A n : Gone(flash, L, e, n) => Gone(flash, L, e, n)'
<1>0. /\ IsLog(flash, L, e) /\ e \in Base..Top /\ Base \in Nat /\ Top \in Nat
      /\ Unique(flash, L, e) /\ Undisturbed(L, e) /\ flash \in Flashes
  BY RoffsAssumption DEF Whole, IsLog, TypeOK, Flashes
<1>1. a \in Base..Top
  BY <1>0
<1>2. /\ flash' \in Flashes /\ Fresh(flash', a) /\ flash'[a] = Erased
      /\ \A b \in Base .. a - 1 : flash'[b] = flash[b]
  BY <1>0, <1>1, Erasing
<1>3. \A b \in Base .. e - 1 : flash'[b] = flash[b]
  BY <1>0, <1>2
<1>4. /\ IsLog(flash', L, e) /\ Unique(flash', L, e)
      /\ \A n : Gone(flash, L, e, n) => Gone(flash', L, e, n)
      /\ \A r : Reading(flash, L, e, r) => Reading(flash', L, e, r)
  BY <1>0, <1>2, <1>3, LogSame
<1>5. Undisturbed(L, e)'
  BY <1>0, <1>4 DEF Undisturbed
<1> QED
  BY <1>0, <1>2, <1>4, <1>5 DEF Whole

\* Where the log lies.
LEMMA LogEnds ==
  ASSUME NEW L, NEW e, Whole(L, e)
  PROVE  /\ IsLog(flash, L, e) /\ Unique(flash, L, e) /\ Undisturbed(L, e)
         /\ e \in Base..Top /\ Base \in Nat /\ Base >= 1 /\ Top \in Nat /\ L \subseteq Base..e
         /\ e \in L /\ Base \in L
  BY RoffsAssumption DEF Whole, IsLog

\* Where an upload lies.
LEMMA UploadIs ==
  ASSUME NEW u \in Uploads
  PROVE  /\ u.name \in Names /\ u.header \in Base..Top /\ u.data \in Seq(Values)
         /\ Length(u) = Len(u.data) /\ Length(u) \in Nat /\ u.stage \in {"open", "whole", "dropped"}
         /\ EndOf(u) = u.header + 2 + Length(u) /\ EndOf(u) \in Nat /\ u.header \in Nat
         /\ u.header + 2 <= EndOf(u)
         /\ \A i \in 3 .. Length(u) + 2 : u.data[i - 2] \in Values
<1>1. /\ u.name \in Names /\ u.header \in Base..Top /\ u.data \in Seq(Values)
      /\ u.stage \in {"open", "whole", "dropped"}
  BY DEF Uploads
<1>2. Len(u.data) \in Nat /\ \A i \in 1 .. Len(u.data) : u.data[i] \in Values
  BY <1>1, LenProperties, ElementOfSeq
<1>3. PICK h, d : h = u.header /\ d = u.data
  OBVIOUS
<1>4. h \in Nat /\ Len(d) \in Nat
  BY <1>1, <1>2, <1>3, RoffsAssumption
<1>5. h + 2 + Len(d) \in Nat /\ h + 2 <= h + 2 + Len(d)
  BY <1>4
<1>6. \A i \in 3 .. Len(d) + 2 : d[i - 2] \in Values
  <2>1. ASSUME NEW i \in 3 .. Len(d) + 2 PROVE i - 2 \in 1 .. Len(d)
    BY <1>4
  <2> QED
    BY <1>2, <1>3, <2>1
<1>7. Length(u) = Len(d) /\ EndOf(u) = h + 2 + Len(d)
  BY <1>3 DEF EndOf, Length
<1> QED
  BY <1>1, <1>3, <1>4, <1>5, <1>6, <1>7

\* A sector is only erased when nothing in it is in use.
LEMMA EraseKeeps ==
  ASSUME RoffsInv, Erase, NEW L, NEW e, Whole(L, e), Stage(L, e)
  PROVE  /\ RoffsInv'
         /\ Formatting(L, e) => Whole({Base}, Base)' /\ Stage({Base}, Base)' /\ NoUploads'
         /\ ~Formatting(L, e) => /\ Whole(L, e)' /\ Stage(L, e)'
                                 /\ \A b \in Base .. e - 1 : flash'[b] = flash[b]
<1>1. /\ TypeOK' /\ NothingGarbled' /\ todo # <<>> /\ todo[1].erase
      /\ Len(todo') = Len(todo) /\ todo' # <<>>
      /\ todo'[1] = [at |-> todo[1].at, cell |-> todo[1].cell, erase |-> FALSE]
      /\ \A i \in 2..Len(todo) : todo'[i] = todo[i]
      /\ flash' = EraseSector(flash, todo[1].at)
  BY EraseTyped DEF RoffsInv
<1>2. TypeOK /\ ~wild /\ UNCHANGED <<busy, uploads, readers, jump, wild>>
  BY DEF Erase, RoffsInv
<1>4. /\ IsLog(flash, L, e) /\ Unique(flash, L, e) /\ Undisturbed(L, e)
      /\ e \in Base..Top /\ Base \in Nat /\ Top \in Nat /\ L \subseteq Base..e
  BY LogEnds
<1>5. /\ Len(todo) \in Nat \ {0} /\ todo[1].at \in Base..Top
  BY <1>1, <1>2, OpsTyped
<1>6. ASSUME NEW M, NEW d, Whole(M, d)', Stage(M, d)' PROVE RoffsInv'
  BY <1>1, <1>2, <1>6 DEF RoffsInv
<1>7. ASSUME Formatting(L, e) PROVE Whole({Base}, Base)' /\ Stage({Base}, Base)' /\ NoUploads'
  <2>1. PICK b \in BOOLEAN : /\ todo = <<[at |-> Base, cell |-> Terminator, erase |-> b]>>
                             /\ ~b => Fresh(flash, Base)
    BY <1>7 DEF Formatting
  <2>2. Len(todo) = 1 /\ todo[1].at = Base /\ todo[1].cell = Terminator
    BY <2>1
  <2>3. flash \in Flashes /\ Boundary(Base) /\ Base \in Base..Top
    BY <1>2, RoffsAssumption DEF TypeOK, Flashes, Boundary
  <2>4. flash' \in Flashes /\ Fresh(flash', Base) /\ flash'[Base] = Erased
    BY <1>1, <2>2, <2>3, Erasing
  <2>5. todo' = <<[at |-> Base, cell |-> Terminator, erase |-> FALSE]>>
    <3>1. todo' \in Seq(Ops) /\ Len(todo') = 1
      BY <1>1, <2>2 DEF TypeOK, Ops
    <3> QED
      BY <1>1, <2>2, <3>1
  <2>6. \A c \in Conns : readers'[c] = None /\ uploads'[c] = None
    BY <1>2, <1>7 DEF Formatting, NoUploads
  <2>7. Whole({Base}, Base)'
    BY <1>4, <2>3, <2>6 DEF Whole, IsLog, Unique, Undisturbed
  <2>8. Ends({Base}, Base)'
    BY <2>4, CellAssumption DEF Ends
  <2>9. Formatting({Base}, Base)'
    BY <2>4, <2>5, <2>6, <2>8 DEF Formatting, NoUploads
  <2> QED
    BY <2>6, <2>7, <2>9 DEF Stage, NoUploads
<1>8. ASSUME NEW c \in Conns, Ending(L, e, c)
      PROVE  Whole(L, e)' /\ Stage(L, e)' /\ \A b \in Base .. e - 1 : flash'[b] = flash[b]
  <2>1. PICK b \in BOOLEAN : /\ todo = <<[at |-> e, cell |-> Terminator, erase |-> b]>>
                             /\ IF b THEN Boundary(e) ELSE Fresh(flash, e)
    BY <1>8 DEF Ending
  <2>2. Len(todo) = 1 /\ todo[1].at = e /\ todo[1].cell = Terminator /\ b
    BY <1>1, <2>1
  <2>3. Whole(L, e)' /\ Fresh(flash, e)' /\ \A x \in Base .. e - 1 : flash'[x] = flash[x]
    BY <1>1, <1>2, <1>4, <2>1, <2>2, WholeErased
  <2>4. todo' = <<[at |-> e, cell |-> Terminator, erase |-> FALSE]>>
    <3>1. todo' \in Seq(Ops) /\ Len(todo') = 1
      BY <1>1, <2>2 DEF TypeOK, Ops
    <3> QED
      BY <1>1, <2>2, <3>1
  <2>5. Ending(L, e, c)'
    BY <1>2, <1>8, <2>3, <2>4 DEF Ending, Only
  <2> QED
    BY <2>3, <2>5 DEF Stage
<1>9. ASSUME NEW c \in Conns, NEW a \in Base..Top, Writing(L, e, c, a)
      PROVE  Whole(L, e)' /\ Stage(L, e)' /\ \A b \in Base .. e - 1 : flash'[b] = flash[b]
  <2> DEFINE u == uploads[c]
  <2>1. /\ busy = c /\ Only(c) /\ u \in Uploads /\ u.header = e /\ EndOf(u) <= Top
        /\ Gone(flash, L, e, u.name) /\ a \in e .. EndOf(u)
        /\ Plan(u, a, todo) /\ Laid(flash, u, a)
        /\ a # EndOf(u) =>
             IF todo[1].erase THEN Boundary(a)
                              ELSE Fresh(flash, a) \/ (a = e /\ flash[e] = Terminator)
    BY <1>9 DEF Writing, Has
  <2> HIDE DEF u
  <2>2. EndOf(u) \in Nat /\ e \in Nat
    BY <1>4, <2>1, UploadIs
  <2>3. a # EndOf(u)
    <3>1. CASE a = EndOf(u)
      <4>1. EndOf(u) - a = 0
        BY <2>2, <3>1
      <4>2. u.stage = "whole" => ~todo[1].erase
        BY <2>1, <4>1 DEF Plan, PlanOf, Many, Pieces, Closing
      <4>3. u.stage # "whole" => Len(todo) = 0
        BY <2>1, <4>1 DEF Plan, PlanOf, Many, Pieces, Closing
      <4> QED
        BY <1>1, <1>5, <4>2, <4>3
    <3> QED
      BY <3>1
  <2> DEFINE n == EndOf(u) - a
  <2>4. n \in Nat \ {0} /\ 1 \in 1..n
    BY <2>1, <2>2, <2>3
  <2>5. todo[1].at = a /\ Boundary(a) /\ a \in e..Top
    <3>1. todo[1].at = a + 1 - 1
      BY <2>1, <2>4 DEF Plan, PlanOf, Many, Pieces, Closing
    <3> QED
      BY <1>1, <1>4, <2>1, <2>2, <2>3, <3>1
  <2>6. /\ Whole(L, e)' /\ Fresh(flash, a)' /\ flash'[a] = Erased
        /\ \A b \in Base .. a - 1 : flash'[b] = flash[b]
        /\ \A m : Gone(flash, L, e, m) => Gone(flash, L, e, m)'
    BY <1>1, <1>2, <2>5, WholeErased
  <2>7. Plan(u, a, todo')
    <3>1. \A i \in 1..n : /\ todo[i].at = a + i - 1 /\ todo[i].cell = Image(u, a - u.header + i)
                          /\ i > 1 => todo[i].erase = Boundary(a + i - 1)
      BY <2>1 DEF Plan, PlanOf, Many, Pieces, Closing
    <3>2. Len(todo) = n + (IF u.stage = "whole" THEN 2 ELSE 0)
      BY <2>1 DEF Plan, PlanOf, Many, Pieces, Closing
    <3>3. u.stage = "whole" =>
            /\ todo[n + 1] = [at |-> u.header, cell |-> ClosedBy(u), erase |-> FALSE]
            /\ todo[n + 2] = [at |-> EndOf(u), cell |-> Terminator, erase |-> Boundary(EndOf(u))]
      BY <2>1 DEF Plan, PlanOf, Many, Pieces, Closing
    <3> HIDE DEF n
    <3>4. ASSUME NEW i \in 1..n
          PROVE  /\ todo'[i].at = a + i - 1 /\ todo'[i].cell = Image(u, a - u.header + i)
                 /\ i > 1 => todo'[i].erase = Boundary(a + i - 1)
      <4>1. CASE i = 1
        BY <1>1, <2>4, <3>1, <4>1
      <4>2. CASE i # 1
        <5>1. i \in 2..Len(todo)
          BY <2>4, <3>2, <4>2
        <5>2. todo'[i] = todo[i]
          BY <1>1, <5>1
        <5> QED
          BY <3>1, <5>2
      <4> QED
        BY <4>1, <4>2
    <3>5. u.stage = "whole" => todo'[n + 1] = todo[n + 1] /\ todo'[n + 2] = todo[n + 2]
      <4>1. u.stage = "whole" => n + 1 \in 2..Len(todo) /\ n + 2 \in 2..Len(todo)
        BY <2>4, <3>2
      <4> QED
        BY <1>1, <4>1
    <3> QED
      BY <1>1, <3>2, <3>3, <3>4, <3>5 DEF Plan, PlanOf, Many, Pieces, Closing, n
  <2>8. Laid(flash', u, a)
    <3>1. ASSUME NEW b \in Nat, u.header <= b, b < a PROVE b \in Base .. a - 1
      BY <1>4, <2>1, <2>2, <3>1
    <3> QED
      BY <2>1, <2>6, <3>1 DEF Laid
  <2>9. /\ ~todo'[1].erase /\ (a = e => flash'[e] = Erased)
    BY <1>1, <2>6
  <2>10. uploads' = uploads /\ busy' = busy
    BY <1>2
  <2>11. Writing(L, e, c, a)'
    <3>1. u' = u
      BY <2>10 DEF u
    <3>2. Has(L, e, c)'
      BY <2>1, <2>10 DEF Has, Only, u
    <3> QED
      BY <1>1, <2>1, <2>3, <2>6, <2>7, <2>8, <2>9, <2>10, <3>1, <3>2 DEF Writing, u
  <2>12. \A b \in Base .. e - 1 : flash'[b] = flash[b]
    BY <1>4, <2>5, <2>6
  <2> QED
    BY <2>6, <2>11, <2>12 DEF Stage
<1>10. ~Resting(L, e) /\ \A c \in Conns : ~Receiving(L, e, c) /\ ~Retiring(L, e, c)
  <2>1. ASSUME NEW c \in Conns, Retiring(L, e, c) PROVE FALSE
    <3>1. PICK p \in L \ {e} :
            todo[1] = [at |-> p, cell |-> [flash[p] EXCEPT !.flags = {}], erase |-> FALSE]
      BY <2>1 DEF Retiring
    <3>2. ~todo[1].erase
      BY <3>1
    <3> QED
      BY <1>1, <3>2
  <2> QED
    BY <1>1, <2>1 DEF Resting, Receiving
<1>11. ASSUME ~Formatting(L, e)
       PROVE  Whole(L, e)' /\ Stage(L, e)' /\ \A b \in Base .. e - 1 : flash'[b] = flash[b]
  BY <1>8, <1>9, <1>10, <1>11 DEF Stage
<1> QED
  BY <1>6, <1>7, <1>11

\* So it keeps the invariant.
LEMMA EraseInv == ASSUME RoffsInv, Erase PROVE RoffsInv'
<1>1. PICK L, e : Whole(L, e) /\ Stage(L, e)
  BY DEF Erase, RoffsInv
<1> QED
  BY <1>1, EraseKeeps

\* What is written is something.
LEMMA NotGarbled ==
  /\ Terminator \in Cells /\ NewHeader \in Cells /\ Terminator # Garbled /\ NewHeader # Garbled
  /\ \A h \in Closed : h \in Cells /\ h # Garbled
  /\ \A v \in Names \cup Values : v \in Cells /\ v # Garbled
<1>1. Terminator \in Header /\ NewHeader \in Header
  BY RoffsAssumption DEF Terminator, NewHeader, Header, Flags
<1>2. \A h \in Closed : h \in Header
  BY DEF Closed, Header, Flags
<1>3. Garbled \notin Header /\ Garbled \notin Names \cup Values
  BY CellAssumption
<1> QED
  BY <1>1, <1>2, <1>3 DEF Cells

\* A write that does what was meant.
LEMMA ProgramTyped ==
  ASSUME TypeOK, NothingGarbled, Program, todo[1].cell # Garbled,
         Programmed(flash[todo[1].at], todo[1].cell) = todo[1].cell
  PROVE  /\ TypeOK' /\ NothingGarbled' /\ flash \in Flashes /\ flash' \in Flashes
         /\ todo[1].at \in Base..Top /\ flash'[todo[1].at] = todo[1].cell
         /\ flash' = [flash EXCEPT ![todo[1].at] = todo[1].cell]
         /\ \A a \in Base..Top \ {todo[1].at} : flash'[a] = flash[a]
         /\ Len(todo) \in Nat \ {0} /\ todo' = Tail(todo) /\ Len(todo') = Len(todo) - 1
         /\ \A i \in 1 .. Len(todo) - 1 : todo'[i] = todo[i + 1]
         /\ todo' = <<>> <=> Len(todo) = 1
         /\ \A c \in Conns : uploads'[c] =
              IF todo' = <<>> /\ uploads[c] # None /\ uploads[c].stage # "open" THEN None
              ELSE uploads[c]
<1>1. /\ todo # <<>> /\ todo' = Tail(todo) /\ uploads' = LetGo(uploads, Tail(todo))
      /\ flash' = [flash EXCEPT ![Head(todo).at] = Programmed(@, Head(todo).cell)]
      /\ UNCHANGED <<busy, readers, jump, wild>>
  BY DEF Program
<1>2. /\ Len(todo) \in Nat \ {0} /\ Head(todo) = todo[1]
      /\ todo[1].at \in Base..Top /\ todo[1].cell \in Cells
      /\ Tail(todo) \in Seq(Ops) /\ Len(Tail(todo)) = Len(todo) - 1
      /\ \A i \in 1 .. Len(todo) - 1 : Tail(todo)[i] = todo[i + 1]
      /\ Tail(todo) = <<>> <=> Len(todo) = 1
  BY <1>1, OpsTyped
<1>3. flash \in [Base..Top -> Cells]
  BY DEF TypeOK
<1>4. /\ flash' = [flash EXCEPT ![todo[1].at] = todo[1].cell]
      /\ flash' \in [Base..Top -> Cells] /\ flash'[todo[1].at] = todo[1].cell
      /\ \A a \in Base..Top \ {todo[1].at} : flash'[a] = flash[a]
  BY <1>1, <1>2, <1>3
<1>5. NothingGarbled'
  BY <1>2, <1>3, <1>4 DEF NothingGarbled
<1>6. /\ uploads' \in [Conns -> Uploads \cup {None}]
      /\ \A c \in Conns : uploads'[c] =
           IF todo' = <<>> /\ uploads[c] # None /\ uploads[c].stage # "open" THEN None
           ELSE uploads[c]
  BY <1>1 DEF TypeOK, LetGo
<1>7. TypeOK'
  <2>1. todo' \in Seq([at : Base..Top, cell : Cells, erase : BOOLEAN])
    BY <1>1, <1>2 DEF Ops
  <2> QED
    BY <1>1, <1>4, <1>6, <2>1 DEF TypeOK
<1> QED
  BY <1>1, <1>2, <1>3, <1>4, <1>5, <1>6, <1>7 DEF Flashes

\* A fresh cell is erased.
LEMMA FreshCell ==
  ASSUME NEW f, NEW a \in Base..Top, Fresh(f, a)
  PROVE  f[a] = Erased
<1>1. a \in a..Top
  BY RoffsAssumption
<1> QED
  BY <1>1 DEF Fresh

\* The terminator of a format makes an empty log.
LEMMA FormatProgrammed ==
  ASSUME RoffsInv, Program, NEW L, NEW e, Whole(L, e), Formatting(L, e)
  PROVE  RoffsInv' /\ Whole({Base}, Base)' /\ Stage({Base}, Base)' /\ NoUploads'
<1>1. PICK b \in BOOLEAN : /\ todo = <<[at |-> Base, cell |-> Terminator, erase |-> b]>>
                           /\ ~b => Fresh(flash, Base)
  BY DEF Formatting
<1>2. todo # <<>> /\ Head(todo) = [at |-> Base, cell |-> Terminator, erase |-> b] /\ Len(todo) = 1
  BY <1>1
<1>3. ~b
  <2>1. ~Head(todo).erase
    BY DEF Program
  <2> QED
    BY <1>2, <2>1
<1>4. todo[1].at = Base /\ todo[1].cell = Terminator /\ Base \in Base..Top
  BY <1>1, RoffsAssumption
<1>5. flash[Base] = Erased /\ Fresh(flash, Base)
  BY <1>1, <1>3, <1>4, FreshCell
<1>6. /\ TypeOK' /\ NothingGarbled' /\ flash' \in Flashes /\ flash'[Base] = Terminator
      /\ \A a \in Base..Top \ {Base} : flash'[a] = flash[a]
      /\ todo' = <<>>
      /\ \A c \in Conns : uploads'[c] \in {uploads[c], None}
  BY <1>2, <1>4, <1>5, NotGarbled, Clearing, ProgramTyped DEF RoffsInv
<1>7. readers' = readers /\ \A c \in Conns : readers[c] = None /\ uploads[c] = None
  BY DEF Program, Formatting, NoUploads
<1>8. Clean(flash', Base + 1)
  <2>1. \A a \in Base + 1 .. Top : flash'[a] = flash[a]
    BY <1>6, RoffsAssumption
  <2> QED
    BY <1>4, <1>5, <2>1, CleanBehind
<1>9. Whole({Base}, Base)'
  BY <1>4, <1>7, RoffsAssumption DEF Whole, IsLog, Unique, Undisturbed
<1>10. Resting({Base}, Base)'
  BY <1>6, <1>7, <1>8 DEF Resting, Ends, NoUploads
<1> QED
  BY <1>6, <1>9, <1>10 DEF RoffsInv, Stage, Resting

\* The log is untouched by a write at its end or behind it.
LEMMA WholeProgrammed ==
  ASSUME flash \in Flashes, flash' \in Flashes, NEW L, NEW e, Whole(L, e), readers' = readers,
         \A a \in Base .. e - 1 : flash'[a] = flash[a]
  PROVE  /\ Whole(L, e)'
         /\ \A n : Gone(flash, L, e, n) => Gone(flash, L, e, n)'
<1>1. /\ IsLog(flash, L, e) /\ Unique(flash, L, e) /\ Undisturbed(L, e)
  BY LogEnds
<1>2. /\ IsLog(flash', L, e) /\ Unique(flash', L, e)
      /\ \A n : Gone(flash, L, e, n) => Gone(flash', L, e, n)
      /\ \A r : Reading(flash, L, e, r) => Reading(flash', L, e, r)
  BY <1>1, LogSame
<1> QED
  BY <1>1, <1>2 DEF Whole, Undisturbed

\* The terminator behind a file that was closed is the new end of the log.
LEMMA EndProgrammed ==
  ASSUME RoffsInv, Program, NEW L, NEW e, Whole(L, e), NEW c \in Conns, Ending(L, e, c)
  PROVE  /\ RoffsInv' /\ Whole(L, e)' /\ Stage(L, e)'
         /\ \A a \in Base .. e - 1 : flash'[a] = flash[a]
<1>1. PICK b \in BOOLEAN : /\ todo = <<[at |-> e, cell |-> Terminator, erase |-> b]>>
                           /\ IF b THEN Boundary(e) ELSE Fresh(flash, e)
  BY DEF Ending
<1>2. todo # <<>> /\ Head(todo) = [at |-> e, cell |-> Terminator, erase |-> b] /\ Len(todo) = 1
  BY <1>1
<1>3. ~b
  <2>1. ~Head(todo).erase
    BY DEF Program
  <2> QED
    BY <1>2, <2>1
<1>4. /\ todo[1].at = e /\ todo[1].cell = Terminator /\ e \in Base..Top
      /\ Base \in Nat /\ Top \in Nat
  BY <1>1, LogEnds
<1>5. flash[e] = Erased /\ Fresh(flash, e)
  BY <1>1, <1>3, <1>4, FreshCell
<1>6. /\ TypeOK' /\ NothingGarbled' /\ flash \in Flashes /\ flash' \in Flashes
      /\ flash'[e] = Terminator /\ \A a \in Base..Top \ {e} : flash'[a] = flash[a]
      /\ todo' = <<>>
      /\ \A d \in Conns : uploads'[d] =
           IF uploads[d] # None /\ uploads[d].stage # "open" THEN None ELSE uploads[d]
  BY <1>2, <1>4, <1>5, NotGarbled, Clearing, ProgramTyped DEF RoffsInv
<1>7. Clean(flash', e + 1)
  <2>1. \A a \in e + 1 .. Top : flash'[a] = flash[a]
    BY <1>4, <1>6
  <2> QED
    BY <1>4, <1>5, <2>1, CleanBehind
<1>8. Whole(L, e)'
  <2>1. \A a \in Base .. e - 1 : flash'[a] = flash[a]
    BY <1>4, <1>6
  <2>2. readers' = readers
    BY DEF Program
  <2> QED
    BY <1>6, <2>1, <2>2, WholeProgrammed
<1>9. NoUploads'
  <2>1. uploads[c].stage = "whole" /\ Only(c)
    BY DEF Ending
  <2> QED
    BY <1>6, <2>1 DEF NoUploads, Only
<1>10. Resting(L, e)'
  BY <1>6, <1>7, <1>9 DEF Resting, Ends
<1> QED
  BY <1>4, <1>6, <1>8, <1>10 DEF RoffsInv, Stage

\* A step clears the header of the file n and nothing else before the end e.
Withdraws(L, e, n) ==
  \E p \in L \ {e} :
    /\ Shows(flash, p, n) /\ flash'[p] = [flash[p] EXCEPT !.flags = {}]
    /\ \A a \in Base .. e - 1 : a # p => flash'[a] = flash[a]

\* The old version goes; those who read it still find its data.
LEMMA RetireProgrammed ==
  ASSUME RoffsInv, Program, NEW L, NEW e, Whole(L, e), NEW c \in Conns, Retiring(L, e, c)
  PROVE  /\ RoffsInv' /\ Whole(L, e)' /\ Stage(L, e)' /\ Has(L, e, c)'
         /\ Gone(flash', L, e, uploads[c].name) /\ \A d \in Conns : uploads'[d] = uploads[d]
         /\ Withdraws(L, e, Strip[uploads[c].name])
<1> DEFINE u == uploads[c]
<1>1. /\ todo # <<>> /\ busy = c /\ Only(c) /\ u \in Uploads /\ u.header = e /\ EndOf(u) <= Top
      /\ Plan(u, e, Tail(todo)) /\ Tail(todo)[1].erase = Boundary(e)
      /\ flash[e] = Terminator /\ Clean(flash, e + 1)
  BY DEF Retiring, Has
<1>2. PICK p \in L \ {e} :
        /\ Shows(flash, p, Strip[u.name])
        /\ todo[1] = [at |-> p, cell |-> [flash[p] EXCEPT !.flags = {}], erase |-> FALSE]
  BY DEF Retiring
<1> HIDE DEF u
<1>3. /\ IsLog(flash, L, e) /\ Unique(flash, L, e) /\ Undisturbed(L, e)
      /\ e \in Base..Top /\ Base \in Nat /\ Top \in Nat
  BY LogEnds
<1>4. flash \in Flashes /\ u.name \in Names
  BY <1>1, UploadIs DEF RoffsInv, TypeOK, Flashes
<1>5. p \in Base..Top /\ p < e /\ flash[p] \in Closed
  BY <1>3, <1>4, InLog
<1> DEFINE d == [flash[p] EXCEPT !.flags = {}]
<1>6. todo[1].at = p /\ todo[1].cell = d
  BY <1>2
<1>7. Programmed(flash[p], d) = d /\ d # Garbled
  <2>1. Programmed(flash[p], d) = d
    BY <1>5, Clearing
  <2>2. d \in Closed
    BY <1>5 DEF Closed
  <2> QED
    BY <2>1, <2>2, NotGarbled
<1> HIDE DEF d
<1>8. /\ TypeOK' /\ NothingGarbled' /\ flash' \in Flashes
      /\ flash' = [flash EXCEPT ![p] = d]
      /\ \A a \in Base..Top \ {p} : flash'[a] = flash[a]
      /\ Len(todo) \in Nat \ {0} /\ todo' = Tail(todo) /\ Len(todo') = Len(todo) - 1
      /\ todo' = <<>> <=> Len(todo) = 1
      /\ \A x \in Conns : uploads'[x] =
           IF todo' = <<>> /\ uploads[x] # None /\ uploads[x].stage # "open" THEN None
           ELSE uploads[x]
  BY <1>6, <1>7, ProgramTyped DEF RoffsInv
<1>9. /\ IsLog(flash', L, e) /\ Unique(flash', L, e) /\ Gone(flash', L, e, u.name)
      /\ \A r : Reading(flash, L, e, r) => Reading(flash', L, e, r)
  <2>1. flash'[p] = [flash[p] EXCEPT !.flags = {}]
    BY <1>4, <1>5, <1>8 DEF d, Flashes
  <2>2. Shows(flash, p, Strip[u.name])
    BY <1>2
  <2>3. flash' \in Flashes /\ \A a \in Base..Top \ {p} : flash'[a] = flash[a]
    BY <1>8
  <2>4. IsLog(flash, L, e) /\ Unique(flash, L, e) /\ flash \in Flashes /\ u.name \in Names
    BY <1>3, <1>4
  <2> DEFINE n == u.name
  <2> HIDE DEF n
  <2>5. n \in Names /\ Shows(flash, p, Strip[n])
    BY <2>2, <2>4 DEF n
  <2>6. Gone(flash', L, e, n)
    BY <2>1, <2>3, <2>4, <2>5, Retired
  <2>7. IsLog(flash', L, e) /\ Unique(flash', L, e)
    BY <2>1, <2>3, <2>4, <2>5, Retired
  <2>8. \A r : Reading(flash, L, e, r) => Reading(flash', L, e, r)
    BY <2>1, <2>3, <2>4, <2>5, Retired
  <2> QED
    BY <2>6, <2>7, <2>8 DEF n
<1>10. Whole(L, e)'
  <2>1. readers' = readers
    BY DEF Program
  <2> QED
    BY <1>3, <1>9, <2>1 DEF Whole, Undisturbed
<1>11. /\ e \in e .. EndOf(u) /\ e # EndOf(u) /\ EndOf(u) - e \in Nat /\ EndOf(u) - e >= 2
  BY <1>1, <1>3, UploadIs
<1>12. todo' # <<>>
  <2>1. Len(todo') = (EndOf(u) - e) + (IF u.stage = "whole" THEN 2 ELSE 0)
    BY <1>1, <1>8 DEF Plan, PlanOf, Many, Pieces, Closing
  <2>2. Len(todo') >= 2
    BY <1>11, <2>1
  <2> QED
    BY <1>8, <2>2
<1>13. \A x \in Conns : uploads'[x] = uploads[x]
  BY <1>8, <1>12
<1>14. /\ flash'[e] = Terminator /\ Clean(flash', e + 1)
  <2>1. ASSUME NEW a \in e .. Top PROVE flash'[a] = flash[a]
    <3>1. a \in Base..Top \ {p}
      BY <1>3, <1>5
    <3> QED
      BY <1>8, <3>1
  <2>2. e \in e .. Top /\ \A a \in e + 1 .. Top : a \in e .. Top
    BY <1>3
  <2>3. Clean(flash', e + 1)
    <3>1. \A a \in e + 1 .. Top : flash'[a] = flash[a]
      BY <2>1, <2>2
    <3>2. Clean(flash, e + 1)
      BY <1>1
    <3> QED
      BY <3>1, <3>2, CleanKept
  <2> QED
    BY <1>1, <2>1, <2>2, <2>3
<1>15. Writing(L, e, c, e)' /\ Has(L, e, c)'
  <2>1. u' = u
    BY <1>13 DEF u
  <2>2. Has(L, e, c)'
    BY <1>1, <1>13 DEF Has, Only, u
  <2>3. Laid(flash', u, e)
    BY <1>1, <1>3 DEF Laid
  <2>4. busy' = busy
    BY DEF Program
  <2>5. todo'[1].erase => Boundary(e)
    BY <1>1, <1>8
  <2> QED
    BY <1>1, <1>8, <1>9, <1>11, <1>12, <1>14, <2>1, <2>2, <2>3, <2>4, <2>5 DEF Writing, u
<1>16. /\ Shows(flash, p, Strip[uploads[c].name]) /\ flash'[p] = [flash[p] EXCEPT !.flags = {}]
       /\ \A a \in Base .. e - 1 : a # p => flash'[a] = flash[a]
  <2>1. \A a \in Base .. e - 1 : a \in Base..Top
    BY <1>3
  <2>2. flash'[p] = d
    BY <1>4, <1>5, <1>8 DEF Flashes
  <2> QED
    BY <1>2, <1>8, <2>1, <2>2 DEF d, u
<1>17. Gone(flash', L, e, uploads[c].name)
  BY <1>9 DEF u
<1>18. RoffsInv' /\ Stage(L, e)'
  BY <1>3, <1>8, <1>10, <1>15 DEF RoffsInv, Stage
<1>19. Withdraws(L, e, Strip[uploads[c].name])
  BY <1>16 DEF Withdraws
<1> QED
  BY <1>10, <1>13, <1>15, <1>17, <1>18, <1>19

\* Which cells are headers.
LEMMA NotHeader ==
  /\ Terminator \in Header /\ NewHeader \in Header /\ Erased \notin Header
  /\ Terminator # Erased /\ NewHeader # Erased /\ Terminator # NewHeader
<1>1. Terminator \in Header /\ NewHeader \in Header /\ Terminator # NewHeader
  BY RoffsAssumption DEF Terminator, NewHeader, Header, Flags
<1> QED
  BY <1>1, CellAssumption

\* What writing the cells of an upload goes by.
LEMMA WritingIs ==
  ASSUME RoffsInv, NEW L, NEW e, Whole(L, e), NEW c \in Conns, NEW a, Writing(L, e, c, a),
         NEW u, u = uploads[c]
  PROVE  /\ todo # <<>> /\ busy = c /\ Only(c) /\ u \in Uploads /\ u # None
         /\ u.header = e /\ EndOf(u) <= Top /\ EndOf(u) = e + 2 + Length(u) /\ Length(u) \in Nat
         /\ EndOf(u) \in Nat /\ e + 2 <= EndOf(u)
         /\ Gone(flash, L, e, u.name) /\ a \in e .. EndOf(u) /\ a \in Base..Top
         /\ Plan(u, a, todo) /\ Laid(flash, u, a)
         /\ a = e => flash[e] = Erased \/ (flash[e] = Terminator /\ Clean(flash, e + 1))
         /\ a = EndOf(u) => Clean(flash, a)
         /\ a # EndOf(u) =>
              IF todo[1].erase THEN Boundary(a)
                               ELSE Fresh(flash, a) \/ (a = e /\ flash[e] = Terminator)
         /\ flash \in Flashes
<1>1. /\ todo # <<>> /\ busy = c /\ Only(c) /\ u \in Uploads /\ u.header = e /\ EndOf(u) <= Top
      /\ Gone(flash, L, e, u.name) /\ a \in e .. EndOf(u)
      /\ Plan(u, a, todo) /\ Laid(flash, u, a)
      /\ a = e => flash[e] = Erased \/ (flash[e] = Terminator /\ Clean(flash, e + 1))
      /\ a = EndOf(u) => Clean(flash, a)
      /\ a # EndOf(u) =>
           IF todo[1].erase THEN Boundary(a)
                            ELSE Fresh(flash, a) \/ (a = e /\ flash[e] = Terminator)
  BY DEF Writing, Has
<1>2. u # None
  BY <1>1, CellAssumption
<1>3. /\ EndOf(u) = e + 2 + Length(u) /\ Length(u) \in Nat /\ EndOf(u) \in Nat
      /\ e + 2 <= EndOf(u)
  BY <1>1, UploadIs
<1>4. a \in Base..Top
  BY <1>1, <1>3, LogEnds
<1>5. flash \in Flashes
  BY DEF RoffsInv, TypeOK, Flashes
<1> QED
  BY <1>1, <1>2, <1>3, <1>4, <1>5

\* The cell that is next.
LEMMA NextCell ==
  ASSUME RoffsInv, NEW L, NEW e, Whole(L, e), NEW c \in Conns, NEW a, Writing(L, e, c, a),
         NEW u, u = uploads[c], a # EndOf(u)
  PROVE  /\ todo[1].at = a /\ todo[1].cell = Image(u, a - e + 1) /\ todo[1].cell # Garbled
         /\ a = e => todo[1].cell = NewHeader
         /\ a # e => todo[1].cell \in Names \cup Values
<1>1. /\ u \in Uploads /\ u.header = e /\ EndOf(u) = e + 2 + Length(u) /\ Length(u) \in Nat
      /\ a \in e .. EndOf(u) /\ Plan(u, a, todo) /\ e \in Nat
  BY WritingIs, LogEnds
<1> DEFINE n == EndOf(u) - a
<1>2. n \in Nat \ {0} /\ 1 \in 1..n /\ a \in Nat
  BY <1>1
<1>3. todo[1].at = a + 1 - 1 /\ todo[1].cell = Image(u, a - u.header + 1)
  BY <1>1, <1>2 DEF Plan, PlanOf, Many, Pieces, Closing
<1>4. a - u.header + 1 = a - e + 1
  BY <1>1
<1>5. todo[1].at = a /\ todo[1].cell = Image(u, a - e + 1)
  BY <1>1, <1>2, <1>3
<1>6. a = e => Image(u, a - e + 1) = NewHeader
  BY <1>1 DEF Image
<1>7. ASSUME a # e PROVE Image(u, a - e + 1) \in Names \cup Values
  <2>1. CASE a = e + 1
    <3>1. a - e + 1 = 2
      BY <1>1, <2>1
    <3>2. u.name \in Names
      BY <1>1, UploadIs
    <3> QED
      BY <3>1, <3>2 DEF Image
  <2>2. CASE a # e + 1
    <3>3. a - e + 1 \in 3 .. Length(u) + 2 /\ a - e + 1 \in Int
      BY <1>1, <1>2, <1>7, <2>2
    <3>4. PICK i : i = a - e + 1
      OBVIOUS
    <3>5. i \in 3 .. Length(u) + 2 /\ i \in Int /\ i # 1 /\ i # 2
      BY <3>3, <3>4
    <3>6. u.data[i - 2] \in Values
      BY <1>1, <3>5, UploadIs
    <3>7. Image(u, i) = u.data[i - 2]
      BY <3>5 DEF Image
    <3> QED
      BY <3>4, <3>6, <3>7
  <2> QED
    BY <2>1, <2>2
<1>8. NewHeader # Garbled /\ \A v \in Names \cup Values : v # Garbled
  BY NotGarbled
<1> QED
  BY <1>5, <1>6, <1>7, <1>8

\* A cell of an upload is written.
LEMMA WriteProgrammed ==
  ASSUME RoffsInv, Program, NEW L, NEW e, Whole(L, e), NEW c \in Conns, NEW a,
         Writing(L, e, c, a), a # EndOf(uploads[c])
  PROVE  /\ RoffsInv' /\ Whole(L, e)' /\ Stage(L, e)' /\ (Has(L, e, c)' \/ NoUploads')
         /\ \A b \in Base .. e - 1 : flash'[b] = flash[b]
<1>3. PICK u : u = uploads[c] /\ a # EndOf(u)
  OBVIOUS
<1>1. /\ todo # <<>> /\ busy = c /\ Only(c) /\ u \in Uploads /\ u # None
      /\ u.header = e /\ EndOf(u) <= Top /\ EndOf(u) = e + 2 + Length(u) /\ Length(u) \in Nat
      /\ EndOf(u) \in Nat /\ e + 2 <= EndOf(u)
      /\ Gone(flash, L, e, u.name) /\ a \in e .. EndOf(u) /\ a \in Base..Top
      /\ Plan(u, a, todo) /\ Laid(flash, u, a)
      /\ a = e => flash[e] = Erased \/ (flash[e] = Terminator /\ Clean(flash, e + 1))
      /\ a = EndOf(u) => Clean(flash, a)
      /\ a # EndOf(u) =>
           IF todo[1].erase THEN Boundary(a)
                            ELSE Fresh(flash, a) \/ (a = e /\ flash[e] = Terminator)
      /\ flash \in Flashes
  BY <1>3, WritingIs
<1>2. /\ todo[1].at = a /\ todo[1].cell = Image(u, a - e + 1) /\ todo[1].cell # Garbled
      /\ a = e => todo[1].cell = NewHeader
  BY <1>3, NextCell
<1>4. e \in Base..Top /\ Base \in Nat /\ Top \in Nat
  BY LogEnds
<1>0. /\ e \in Nat /\ a \in Nat /\ EndOf(u) \in Nat /\ EndOf(u) <= Top /\ e <= a /\ a < EndOf(u)
      /\ e + 2 <= EndOf(u) /\ u.header = e /\ Base <= e /\ Base \in Nat /\ Top \in Nat /\ a \in Base..Top
  <2>1. a \in e .. EndOf(u) /\ EndOf(u) \in Nat /\ e + 2 <= EndOf(u) /\ u.header = e /\ EndOf(u) <= Top
    BY <1>1
  <2> QED
    BY <1>3, <1>4, <2>1
<1>5. ~todo[1].erase
  <2>1. Head(todo) = todo[1]
    BY <1>1, OpsTyped DEF RoffsInv
  <2> QED
    BY <2>1 DEF Program
<1>6. Fresh(flash, a) \/ (a = e /\ flash[e] = Terminator /\ Clean(flash, e + 1))
  <2>1. a = e /\ flash[e] = Terminator => Clean(flash, e + 1)
    BY <1>1, CellAssumption, NotHeader
  <2> QED
    BY <1>1, <1>3, <1>5, <2>1
<1>7. Programmed(flash[a], todo[1].cell) = todo[1].cell
  <2>1. CASE Fresh(flash, a)
    BY <1>1, <2>1, FreshCell, Clearing
  <2>2. CASE a = e /\ flash[e] = Terminator
    BY <1>2, <2>2, Clearing
  <2> QED
    BY <1>6, <2>1, <2>2
<1>8. /\ TypeOK' /\ NothingGarbled' /\ flash' \in Flashes
      /\ flash'[a] = Image(u, a - e + 1)
      /\ \A b \in Base..Top \ {a} : flash'[b] = flash[b]
      /\ Len(todo) \in Nat \ {0} /\ Len(todo') = Len(todo) - 1
      /\ \A i \in 1 .. Len(todo) - 1 : todo'[i] = todo[i + 1]
      /\ todo' = <<>> <=> Len(todo) = 1
      /\ \A d \in Conns : uploads'[d] =
           IF todo' = <<>> /\ uploads[d] # None /\ uploads[d].stage # "open" THEN None
           ELSE uploads[d]
  BY <1>2, <1>7, ProgramTyped DEF RoffsInv
<1>9. Clean(flash', a + 1)
  <2>1. \A b \in a + 1 .. Top : flash'[b] = flash[b]
    <3>1. \A b \in a + 1 .. Top : b \in Base..Top \ {a}
      BY <1>0
    <3> QED
      BY <1>8, <3>1
  <2> QED
    BY <1>1, <1>6, <2>1, CleanBehind, CleanKept
<1>10. readers' = readers /\ busy' = busy /\ wild' = wild
  BY DEF Program
<1>11. /\ Whole(L, e)' /\ Gone(flash', L, e, u.name)
       /\ \A b \in Base .. e - 1 : flash'[b] = flash[b]
  <2>1. \A b \in Base .. e - 1 : flash'[b] = flash[b]
    <3>1. \A b \in Base .. e - 1 : b \in Base..Top \ {a}
      BY <1>0
    <3> QED
      BY <1>8, <3>1
  <2>2. PICK m : m = u.name
    OBVIOUS
  <2>3. Gone(flash, L, e, m)
    BY <1>1, <2>2
  <2>4. Whole(L, e)' /\ Gone(flash', L, e, m)
    BY <1>1, <1>8, <1>10, <2>1, <2>3, WholeProgrammed
  <2> QED
    BY <2>1, <2>2, <2>4
<1>12. Laid(flash', u, a + 1)
  <2>1. ASSUME NEW b \in Nat, u.header <= b, b < a + 1 PROVE flash'[b] = Image(u, b - u.header + 1)
    <3>1. CASE b = a
      <4>1. b - u.header + 1 = a - e + 1
        BY <1>0, <3>1
      <4> QED
        BY <1>8, <3>1, <4>1
    <3>2. CASE b # a
      <4>1. b \in Nat /\ u.header <= b /\ b < a /\ b \in Base..Top \ {a}
        BY <1>0, <2>1, <3>2
      <4> QED
        BY <1>1, <1>8, <4>1 DEF Laid
    <3> QED
      BY <3>1, <3>2
  <2> QED
    BY <2>1 DEF Laid
<1> DEFINE n == EndOf(u) - a
<1>13. /\ n \in Nat \ {0}
       /\ Len(todo) = n + (IF u.stage = "whole" THEN 2 ELSE 0)
       /\ \A i \in 1..n : /\ todo[i].at = a + i - 1 /\ todo[i].cell = Image(u, a - u.header + i)
                          /\ i > 1 => todo[i].erase = Boundary(a + i - 1)
       /\ u.stage = "whole" =>
            /\ todo[n + 1] = [at |-> u.header, cell |-> ClosedBy(u), erase |-> FALSE]
            /\ todo[n + 2] = [at |-> EndOf(u), cell |-> Terminator, erase |-> Boundary(EndOf(u))]
  <2>1. n \in Nat \ {0}
    BY <1>0
  <2> QED
    BY <1>1, <2>1 DEF Plan, PlanOf, Many, Pieces, Closing
<1>14. CASE todo' # <<>>
  <2>1. \A d \in Conns : uploads'[d] = uploads[d]
    BY <1>8, <1>14
  <2>2. a + 1 \in e .. EndOf(u) /\ a + 1 \in Base..Top /\ a + 1 # e
    BY <1>0
  <2>3. Plan(u, a + 1, todo')
    <3>1. PICK m \in Nat, b \in Nat : m = EndOf(u) - (a + 1) /\ n = m + 1 /\ b = a + 1
      BY <1>0
    <3> HIDE DEF n
    <3>2. Len(todo') = m + (IF u.stage = "whole" THEN 2 ELSE 0)
      BY <1>8, <1>13, <3>1
    <3>3. ASSUME NEW i \in 1..m
          PROVE  /\ todo'[i].at = b + i - 1 /\ todo'[i].cell = Image(u, b - u.header + i)
                 /\ i > 1 => todo'[i].erase = Boundary(b + i - 1)
      <4>1. i \in 1 .. Len(todo) - 1 /\ i + 1 \in 1..n /\ i + 1 > 1
        BY <1>13, <3>1
      <4>2. todo'[i] = todo[i + 1]
        BY <1>8, <4>1
      <4>3. /\ todo[i + 1].at = a + (i + 1) - 1 /\ todo[i + 1].cell = Image(u, a - u.header + (i + 1))
            /\ todo[i + 1].erase = Boundary(a + (i + 1) - 1)
        BY <1>13, <4>1
      <4>4. /\ a + (i + 1) - 1 = b + i - 1
            /\ a - u.header + (i + 1) = b - u.header + i
        BY <1>0, <1>13, <3>1
      <4> QED
        BY <4>2, <4>3, <4>4
    <3>4. ASSUME u.stage = "whole"
          PROVE  todo'[m + 1] = todo[n + 1] /\ todo'[m + 2] = todo[n + 2]
      <4>1. m + 1 \in 1 .. Len(todo) - 1 /\ m + 2 \in 1 .. Len(todo) - 1
        BY <1>13, <3>1, <3>4
      <4>2. m + 1 + 1 = n + 1 /\ m + 2 + 1 = n + 2
        BY <1>13, <3>1
      <4> QED
        BY <1>8, <4>1, <4>2
    <3>5. PlanOf(u, a + 1, m, todo')
      <4>1. u.stage = "whole" =>
              /\ todo'[m + 1] = [at |-> u.header, cell |-> ClosedBy(u), erase |-> FALSE]
              /\ todo'[m + 2] = [at |-> EndOf(u), cell |-> Terminator, erase |-> Boundary(EndOf(u))]
        BY <1>13, <3>4
      <4>2. Many(u, m, todo')
        BY <3>2 DEF Many
      <4>3. Pieces(u, a + 1, m, todo')
        <5>1. Pieces(u, b, m, todo')
          BY <3>3 DEF Pieces
        <5> QED
          BY <3>1, <5>1
      <4>4. Closing(u, m, todo')
        BY <4>1, Zenon DEF Closing
      <4> QED
        BY <4>2, <4>3, <4>4 DEF PlanOf
    <3> QED
      BY <3>1, <3>5 DEF Plan
  <2>4. a + 1 # EndOf(u) => todo'[1].erase = Boundary(a + 1)
    <3>1. ASSUME a + 1 # EndOf(u) PROVE n >= 2
      BY <1>0, <3>1
    <3>2. ASSUME n >= 2 PROVE todo'[1].erase = Boundary(a + 1)
      <4>1. 1 \in 1 .. Len(todo) - 1 /\ 2 \in 1..n /\ a + 2 - 1 = a + 1
        BY <1>4, <1>13, <3>2
      <4> HIDE DEF n
      <4>2. todo'[1] = todo[2]
        BY <1>8, <4>1
      <4> QED
        BY <1>13, <4>1, <4>2
    <3> QED
      BY <3>1, <3>2
  <2>5. a + 1 # EndOf(u) => IF todo'[1].erase THEN Boundary(a + 1) ELSE Fresh(flash', a + 1)
    BY <1>9, <2>4 DEF Clean
  <2>6. Writing(L, e, c, a + 1)' /\ Has(L, e, c)'
    <3>1. uploads'[c] = u
      BY <1>3, <2>1
    <3>2. Has(L, e, c)'
      BY <1>1, <2>1, <3>1 DEF Has, Only
    <3>3. Gone(flash', L, e, uploads'[c].name)
      BY <1>11, <3>1
    <3> QED
      BY <1>1, <1>9, <1>10, <1>12, <1>14, <2>2, <2>3, <2>5, <3>1, <3>2, <3>3 DEF Writing
  <2> QED
    BY <1>8, <1>11, <2>2, <2>6 DEF RoffsInv, Stage
<1>15. CASE todo' = <<>>
  <2>1. n = 1 /\ u.stage # "whole"
    <3> HIDE DEF n
    <3> QED
      BY <1>8, <1>13, <1>15
  <2>2. a + 1 = EndOf(u)
    BY <1>0, <2>1
  <2>3. \A d \in Conns \ {c} : uploads'[d] = None
    BY <1>1, <1>8 DEF Only
  <2>4. CASE u.stage = "open"
    <3>1. uploads'[c] = u
      BY <1>3, <1>8, <2>4
    <3>2. Receiving(L, e, c)' /\ Has(L, e, c)'
      <4>1. Has(L, e, c)'
        BY <1>1, <2>3, <3>1 DEF Has, Only
      <4>2. Gone(flash', L, e, uploads'[c].name)
        BY <1>11, <3>1
      <4> QED
        BY <1>9, <1>12, <1>15, <2>2, <2>4, <3>1, <4>1, <4>2 DEF Receiving
    <3> QED
      BY <1>8, <1>11, <3>2 DEF RoffsInv, Stage
  <2>5. CASE u.stage # "open"
    <3>1. uploads'[c] = None
      BY <1>1, <1>3, <1>8, <1>15, <2>5
    <3>2. NoUploads'
      BY <2>3, <3>1 DEF NoUploads
    <3>3. flash'[e] = NewHeader
      <4>1. e \in Nat /\ u.header <= e /\ e < a + 1 /\ e - u.header + 1 = 1
        BY <1>0
      <4>2. flash'[e] = Image(u, e - u.header + 1)
        BY <1>12, <4>1 DEF Laid
      <4> QED
        BY <4>1, <4>2 DEF Image
    <3>4. Resting(L, e)'
      BY <1>15, <3>2, <3>3 DEF Resting, Ends
    <3> QED
      BY <1>8, <1>11, <3>2, <3>4 DEF RoffsInv, Stage
  <2> QED
    BY <2>4, <2>5
<1> QED
  BY <1>14, <1>15

\* An upload that is all there, up to its end.
LEMMA LaidIs ==
  ASSUME NEW u \in Uploads, NEW f, NEW e \in Nat, u.header = e, Laid(f, u, EndOf(u))
  PROVE  /\ f[e] = NewHeader /\ f[e + 1] = u.name
         /\ \A i \in 1..Length(u) : f[e + 1 + i] = u.data[i]
<1>1. EndOf(u) = e + 2 + Length(u) /\ Length(u) \in Nat /\ EndOf(u) \in Nat
  BY UploadIs
<1>2. \A b \in Nat : e <= b /\ b < EndOf(u) => f[b] = Image(u, b - e + 1)
  BY DEF Laid
<1>3. f[e] = Image(u, 1) /\ f[e + 1] = Image(u, 2)
  <2>1. e - e + 1 = 1 /\ e + 1 - e + 1 = 2 /\ e < EndOf(u) /\ e + 1 < EndOf(u)
    BY <1>1
  <2> QED
    BY <1>2, <2>1
<1>4. ASSUME NEW i \in 1..Length(u) PROVE f[e + 1 + i] = u.data[i]
  <2>1. /\ e + 1 + i \in Nat /\ e <= e + 1 + i /\ e + 1 + i < EndOf(u)
        /\ e + 1 + i - e + 1 = i + 2 /\ i + 2 # 1 /\ i + 2 # 2 /\ i + 2 - 2 = i
    BY <1>1
  <2>2. f[e + 1 + i] = Image(u, i + 2)
    BY <1>2, <2>1
  <2> QED
    BY <2>1, <2>2 DEF Image
<1> QED
  BY <1>3, <1>4 DEF Image

\* The header of an upload that is whole makes a file of it, behind which the log goes on.
LEMMA CloseProgrammed ==
  ASSUME RoffsInv, Program, NEW L, NEW e, Whole(L, e), NEW c \in Conns,
         Writing(L, e, c, EndOf(uploads[c]))
  PROVE  LET u == uploads[c]
             n == EndOf(u)
         IN  /\ RoffsInv' /\ Whole(L \cup {n}, n)' /\ Stage(L \cup {n}, n)'
             /\ u.stage = "whole" /\ \A d \in Conns : uploads'[d] = uploads[d]
             /\ Gone(flash, L, e, u.name) /\ flash[e] = NewHeader
             /\ n > e /\ n \notin L /\ u \in Uploads
             /\ \A a \in Base .. e - 1 : flash'[a] = flash[a]
             /\ flash'[e] = ClosedBy(u) /\ flash'[e + 1] = u.name
             /\ \A i \in 1..Length(u) : flash'[e + 1 + i] = u.data[i]
<1>1. PICK u : u = uploads[c]
  OBVIOUS
<1> DEFINE n == EndOf(u)
<1>2. /\ todo # <<>> /\ busy = c /\ Only(c) /\ u \in Uploads /\ u # None
      /\ u.header = e /\ n <= Top /\ n = e + 2 + Length(u) /\ Length(u) \in Nat
      /\ n \in Nat /\ e + 2 <= n
      /\ Gone(flash, L, e, u.name) /\ n \in Base..Top
      /\ Plan(u, n, todo) /\ Laid(flash, u, n) /\ Clean(flash, n) /\ flash \in Flashes
  BY <1>1, WritingIs
<1>3. /\ e \in Base..Top /\ Base \in Nat /\ Top \in Nat /\ e \in Nat /\ L \subseteq Base..e /\ e \in L
      /\ IsLog(flash, L, e) /\ Unique(flash, L, e) /\ Undisturbed(L, e)
  BY LogEnds
<1>4. flash[e] = NewHeader /\ flash[e + 1] = u.name /\ \A i \in 1..Length(u) : flash[e + 1 + i] = u.data[i]
  BY <1>2, <1>3, LaidIs
<1>5. n - n = 0
  BY <1>2
<1> HIDE DEF n
<1>6. Many(u, 0, todo) /\ Closing(u, 0, todo)
  BY <1>2, <1>5 DEF Plan, PlanOf, n
<1>7. Len(todo) \in Nat \ {0}
  BY <1>2, OpsTyped DEF RoffsInv
<1>8. /\ u.stage = "whole" /\ Len(todo) = 2
      /\ todo[1] = [at |-> e, cell |-> ClosedBy(u), erase |-> FALSE]
      /\ todo[2] = [at |-> n, cell |-> Terminator, erase |-> Boundary(n)]
  <2>1. u.stage = "whole" /\ Len(todo) = 2
    BY <1>6, <1>7 DEF Many
  <2>2. 0 + 1 = 1 /\ 0 + 2 = 2
    OBVIOUS
  <2> QED
    BY <1>2, <1>6, <2>1, <2>2 DEF Closing, n
<1>9. todo[1].at = e /\ todo[1].cell = ClosedBy(u)
  BY <1>8
<1>10. /\ ClosedBy(u) \in Closed /\ Programmed(NewHeader, ClosedBy(u)) = ClosedBy(u)
       /\ ClosedBy(u).fileLen = Length(u) /\ ClosedBy(u).flags = {"ACTIVE"}
       /\ ClosedBy(u) # Garbled
  <2>1. Length(u) \in 0..Top
    BY <1>2, <1>3
  <2>2. ClosedBy(u) \in Closed /\ Programmed(NewHeader, ClosedBy(u)) = ClosedBy(u)
    BY <2>1, Clearing DEF ClosedBy
  <2>3. ClosedBy(u).fileLen = Length(u) /\ ClosedBy(u).flags = {"ACTIVE"}
    BY DEF ClosedBy
  <2> QED
    BY <2>2, <2>3, NotGarbled
<1>11. /\ TypeOK' /\ NothingGarbled' /\ flash' \in Flashes
       /\ flash'[e] = ClosedBy(u)
       /\ \A b \in Base..Top \ {e} : flash'[b] = flash[b]
       /\ Len(todo') = 1 /\ todo'[1] = todo[2] /\ todo' # <<>>
       /\ \A d \in Conns : uploads'[d] = uploads[d]
  <2>1. /\ TypeOK' /\ NothingGarbled' /\ flash' \in Flashes
        /\ flash'[e] = ClosedBy(u)
        /\ \A b \in Base..Top \ {e} : flash'[b] = flash[b]
        /\ Len(todo') = Len(todo) - 1
        /\ \A i \in 1 .. Len(todo) - 1 : todo'[i] = todo[i + 1]
        /\ todo' = <<>> <=> Len(todo) = 1
        /\ \A d \in Conns : uploads'[d] =
             IF todo' = <<>> /\ uploads[d] # None /\ uploads[d].stage # "open" THEN None
             ELSE uploads[d]
    BY <1>4, <1>9, <1>10, ProgramTyped DEF RoffsInv
  <2>2. todo' # <<>> /\ Len(todo') = 1 /\ 1 \in 1 .. Len(todo) - 1
    BY <1>8, <2>1
  <2>3. todo'[1] = todo[2]
    <3>1. PICK i : i = 1
      OBVIOUS
    <3>2. i \in 1 .. Len(todo) - 1 /\ i + 1 = 2
      BY <2>2, <3>1
    <3>3. todo'[i] = todo[i + 1]
      BY <2>1, <3>2
    <3> QED
      BY <3>1, <3>2, <3>3, Zenon
  <2>4. \A d \in Conns : uploads'[d] = uploads[d]
    BY <2>1, <2>2
  <2> QED
    BY <2>1, <2>2, <2>3, <2>4, Zenon
<1>12. readers' = readers /\ busy' = busy /\ wild' = wild
  BY DEF Program
<1>13. Whole(L, e)' /\ Gone(flash', L, e, u.name)
  <2>1. \A b \in Base .. e - 1 : flash'[b] = flash[b]
    BY <1>3, <1>11
  <2> QED
    BY <1>2, <1>11, <1>12, <2>1, WholeProgrammed
<1>14. /\ IsLog(flash', L \cup {n}, n) /\ Unique(flash', L \cup {n}, n) /\ n \notin L
       /\ \A r : Reading(flash', L, e, r) => Reading(flash', L \cup {n}, n, r)
  <2>1. IsLog(flash', L, e) /\ Unique(flash', L, e)
    BY <1>13 DEF Whole
  <2>2. flash'[e + 1] = u.name /\ u.name \in Names
    <3>1. e + 1 \in Base..Top \ {e}
      BY <1>2, <1>3
    <3> QED
      BY <1>2, <1>4, <1>11, <3>1, UploadIs
  <2>3. ASSUME NEW i \in 1..Length(u) PROVE flash'[e + 1 + i] \in Values
    <3>1. e + 1 + i \in Base..Top \ {e}
      BY <1>2, <1>3
    <3>2. i + 2 \in 3 .. Length(u) + 2 /\ i + 2 - 2 = i
      BY <1>2
    <3>3. u.data[i + 2 - 2] \in Values
      BY <1>2, <3>2, UploadIs
    <3> QED
      BY <1>4, <1>11, <3>1, <3>2, <3>3
  <2>4. flash'[e] \in Closed /\ flash'[e].fileLen = Length(u) /\ e + 2 + flash'[e].fileLen = n
    BY <1>2, <1>10, <1>11
  <2>5. /\ Gone(flash', L, e, flash'[e + 1]) /\ flash'[e + 1] \in Names
        /\ \A i \in 1..flash'[e].fileLen : flash'[e + 1 + i] \in Values
        /\ e + 2 + flash'[e].fileLen <= Top
    BY <1>2, <1>13, <2>2, <2>3, <2>4
  <2>6. PICK f \in Flashes : f = flash'
    BY <1>11
  <2>7. /\ IsLog(f, L, e) /\ Unique(f, L, e) /\ f[e] \in Closed
        /\ Gone(f, L, e, f[e + 1]) /\ f[e + 1] \in Names
        /\ \A i \in 1..f[e].fileLen : f[e + 1 + i] \in Values
        /\ e + 2 + f[e].fileLen <= Top /\ e + 2 + f[e].fileLen = n
    BY <2>1, <2>4, <2>5, <2>6
  <2>8. /\ IsLog(f, L \cup {n}, n) /\ Unique(f, L \cup {n}, n) /\ n \notin L
        /\ \A r : Reading(f, L, e, r) => Reading(f, L \cup {n}, n, r)
    BY <2>7, Published
  <2> QED
    BY <2>6, <2>8
<1>15. Whole(L \cup {n}, n)'
  <2>1. \A d \in Conns : readers'[d] # None => Reading(flash', L, e, readers'[d])
    BY <1>13 DEF Whole, Undisturbed
  <2> QED
    BY <1>14, <2>1 DEF Whole, Undisturbed
<1>16. Ending(L \cup {n}, n, c)'
  <2>1. uploads'[c] = u /\ Only(c)'
    BY <1>1, <1>2, <1>11 DEF Only
  <2>2. e \in (L \cup {n}) \ {n}
    BY <1>3, <1>14
  <2>3. todo' = <<[at |-> n, cell |-> Terminator, erase |-> Boundary(n)]>>
    <3>1. todo' \in Seq(Ops)
      BY <1>11 DEF TypeOK, Ops
    <3> QED
      BY <1>8, <1>11, <3>1
  <2>4. IF Boundary(n) THEN Boundary(n) ELSE Fresh(flash', n)
    <3>1. \A b \in n..Top : flash'[b] = flash[b]
      <4>1. \A b \in n..Top : b \in Base..Top \ {e}
        BY <1>2, <1>3
      <4> QED
        BY <1>11, <4>1
    <3>2. Clean(flash', n)
      BY <1>2, <3>1, CleanKept
    <3> QED
      BY <3>2 DEF Clean
  <2>5. Boundary(n) \in BOOLEAN
    BY DEF Boundary
  <2>6. \E b \in BOOLEAN : /\ todo' = <<[at |-> n, cell |-> Terminator, erase |-> b]>>
                           /\ IF b THEN Boundary(n) ELSE Fresh(flash', n)
    <3>1. PICK b \in BOOLEAN : b = Boundary(n)
      BY <2>5
    <3> QED
      BY <2>3, <2>4, <3>1
  <2> QED
    BY <1>2, <1>8, <1>12, <2>1, <2>2, <2>6 DEF Ending, n
<1>17. /\ \A a \in Base .. e - 1 : flash'[a] = flash[a]
       /\ flash'[e + 1] = u.name /\ \A i \in 1..Length(u) : flash'[e + 1 + i] = u.data[i]
  <2>1. \A a \in Base .. e - 1 : a \in Base..Top \ {e}
    BY <1>3
  <2>2. /\ e + 1 \in Base..Top \ {e}
        /\ \A i \in 1..Length(u) : e + 1 + i \in Base..Top \ {e}
    BY <1>2, <1>3
  <2> QED
    BY <1>4, <1>11, <2>1, <2>2
<1>18. n > e
  BY <1>2, <1>3
<1>19. RoffsInv' /\ Stage(L \cup {n}, n)'
  BY <1>2, <1>11, <1>15, <1>16 DEF RoffsInv, Stage
<1> QED
  BY <1>1, <1>2, <1>4, <1>8, <1>11, <1>14, <1>15, <1>17, <1>18, <1>19 DEF n

\* Every write keeps the invariant.
LEMMA ProgramInv == ASSUME RoffsInv, Program PROVE RoffsInv'
<1>1. PICK L, e : Whole(L, e) /\ Stage(L, e)
  BY DEF Program, RoffsInv
<1>2. todo # <<>>
  BY DEF Program
<1>3. ~Resting(L, e) /\ \A c \in Conns : ~Receiving(L, e, c)
  BY <1>2 DEF Resting, Receiving
<1>4. ASSUME NEW c \in Conns, NEW a, Writing(L, e, c, a) PROVE RoffsInv'
  <2>1. CASE a # EndOf(uploads[c])
    BY <1>1, <1>4, <2>1, WriteProgrammed
  <2>2. CASE a = EndOf(uploads[c])
    BY <1>1, <1>4, <2>2, CloseProgrammed
  <2> QED
    BY <2>1, <2>2
<1> QED
  BY <1>1, <1>3, <1>4, FormatProgrammed, EndProgrammed, RetireProgrammed DEF Stage

\* A format is one operation, that erases the first sector.
LEMMA FormatIs ==
  /\ roffs_format = <<[at |-> Base, cell |-> Terminator, erase |-> TRUE]>>
  /\ roffs_format \in Seq(Ops) /\ roffs_format # <<>>
<1> DEFINE op == [at |-> Base, cell |-> Terminator, erase |-> TRUE]
<1>1. op \in Ops /\ Boundary(Base) /\ Base \in Nat
  BY RoffsAssumption, NotGarbled DEF Ops, Boundary
<1>2. roffs_format = [i \in 1..1 |-> [at |-> Base + i - 1, cell |-> <<Terminator>>[i],
                                      erase |-> (Base + i - 1) % SecSize = 0]]
  <2>1. Len(<<Terminator>>) = 1
    OBVIOUS
  <2> QED
    BY <2>1 DEF roffs_format, writeFlash
<1>3. Base + 1 - 1 = Base /\ <<Terminator>>[1] = Terminator
  BY <1>1
<1>4. (Base % SecSize = 0) = TRUE
  BY <1>1 DEF Boundary
<1>5. \A i \in 1..1 : [at |-> Base + i - 1, cell |-> <<Terminator>>[i],
                       erase |-> (Base + i - 1) % SecSize = 0] = op
  <2>1. [at |-> Base, cell |-> Terminator, erase |-> Base % SecSize = 0] = op
    BY <1>4, Zenon
  <2>2. \A i \in 1..1 : i = 1
    OBVIOUS
  <2> QED
    BY <1>3, <2>1, <2>2, Zenon
<1> HIDE DEF op
<1>6. roffs_format = [i \in 1..1 |-> op]
  BY <1>2, <1>5, Zenon
<1>7. [i \in 1..1 |-> op] = <<op>>
  OBVIOUS
<1>8. <<op>> \in Seq(Ops) /\ <<op>> # <<>>
  BY <1>1
<1> QED
  BY <1>6, <1>7, <1>8 DEF op

\* The next header is the first thing to be written.
LEMMA HeaderNext ==
  ASSUME TypeOK, todo # <<>>, todo[1].cell \in Header
  PROVE  NextHeader = {1}
<1>1. DOMAIN todo = 1..Len(todo) /\ Len(todo) \in Nat \ {0}
  BY OpsTyped, LenProperties
<1>2. 1 \in NextHeader
  BY <1>1 DEF NextHeader
<1>3. ASSUME NEW i \in NextHeader, i # 1 PROVE FALSE
  <2>1. i \in 1..Len(todo) /\ \A j \in 1 .. i - 1 : todo[j].cell \notin Header
    BY <1>1, <1>3 DEF NextHeader
  <2>2. 1 \in 1 .. i - 1
    BY <1>1, <1>3, <2>1
  <2> QED
    BY <2>1, <2>2
<1> QED
  BY <1>2, <1>3

\* Before the new end of the log is written there is none.
LEMMA EndingIs ==
  ASSUME TypeOK, NEW L, NEW e, Whole(L, e), NEW c \in Conns, Ending(L, e, c)
  PROVE  Endless /\ \A i \in NextHeader : todo[i].at # Base
<1>0. e \in Base..Top /\ e \in Nat /\ L \subseteq Base..e /\ Base \in Nat /\ Top \in Nat
  BY LogEnds
<1>1. PICK b \in BOOLEAN : todo = <<[at |-> e, cell |-> Terminator, erase |-> b]>>
  BY DEF Ending
<1>2. todo # <<>> /\ todo[1].at = e /\ todo[1].cell = Terminator
  BY <1>1
<1>3. NextHeader = {1}
  BY <1>2, HeaderNext, NotHeader
<1>4. e # Base
  <2>1. PICK h : h \in L \ {e}
    BY DEF Ending
  <2>2. h \in Base..e /\ h # e
    BY <1>0, <2>1
  <2> QED
    BY <1>0, <2>2
<1>5. Endless
  BY <1>2, <1>3, <1>4 DEF Endless
<1> QED
  BY <1>2, <1>3, <1>4, <1>5

\* Where a handler stops, the log still ends, but for what is next.
LEMMA StillEnds ==
  ASSUME RoffsInv, NEW L, NEW e, Whole(L, e), Stage(L, e),
         ~(Endless /\ \A i \in NextHeader : todo[i].at # Base)
  PROVE  Ends(L, e)
<1>0. TypeOK /\ flash \in Flashes
  BY DEF RoffsInv, TypeOK, Flashes
<1>1. e \in Base..Top /\ e \in Nat /\ L \subseteq Base..e /\ Base \in Nat /\ Top \in Nat
  BY LogEnds
<1>2. ASSUME NEW c \in Conns, Receiving(L, e, c) PROVE Ends(L, e)
  <2>1. /\ uploads[c] \in Uploads /\ uploads[c].header = e
        /\ Laid(flash, uploads[c], EndOf(uploads[c]))
    BY <1>2 DEF Receiving, Has
  <2> QED
    BY <1>1, <2>1, LaidIs DEF Ends
<1>3. ASSUME NEW c \in Conns, Ending(L, e, c) PROVE FALSE
  BY <1>0, <1>3, EndingIs
<1>4. ASSUME NEW c \in Conns, NEW a, Writing(L, e, c, a) PROVE Ends(L, e)
  <2>1. PICK u : u = uploads[c]
    OBVIOUS
  <2>2. /\ todo # <<>> /\ u \in Uploads /\ u.header = e /\ EndOf(u) \in Nat /\ e + 2 <= EndOf(u)
        /\ a \in e .. EndOf(u) /\ Laid(flash, u, a)
        /\ a = e => flash[e] = Erased \/ (flash[e] = Terminator /\ Clean(flash, e + 1))
    BY <1>4, <2>1, WritingIs
  <2>3. CASE a = e
    <3>1. a # EndOf(u)
      BY <1>1, <2>2, <2>3
    <3>2. todo[1].at = e /\ todo[1].cell = NewHeader
      BY <1>4, <2>1, <2>3, <3>1, NextCell
    <3>3. NextHeader = {1}
      BY <1>0, <2>2, <3>2, HeaderNext, NotHeader
    <3>4. CASE flash[e] = Erased
      <4>1. Endless
        BY <3>2, <3>3, <3>4 DEF Endless
      <4>2. e = Base
        BY <3>2, <3>3, <4>1
      <4> QED
        BY <3>4, <4>2, NotHeader DEF Ends
    <3> QED
      BY <2>2, <2>3, <3>4 DEF Ends
  <2>4. CASE a # e
    <3>1. e \in Nat /\ u.header <= e /\ e < a /\ e - u.header + 1 = 1
      BY <1>1, <2>2, <2>4
    <3>2. flash[e] = Image(u, e - u.header + 1)
      BY <2>2, <3>1 DEF Laid
    <3> QED
      BY <3>1, <3>2 DEF Image, Ends
  <2> QED
    BY <2>3, <2>4
<1>5. ASSUME NEW c \in Conns, Retiring(L, e, c) PROVE Ends(L, e)
  BY <1>5 DEF Retiring, Ends
<1>6. ASSUME Resting(L, e) \/ Formatting(L, e) PROVE Ends(L, e)
  BY <1>6 DEF Resting, Formatting
<1> QED
  BY <1>2, <1>3, <1>4, <1>5, <1>6 DEF Stage

\* What the invariant says of the flash.
LEMMA Unwritten ==
  ASSUME NEW L, NEW e, Whole(L, e), flash' = flash,
         readers' = readers \/ \A c \in Conns : readers'[c] = None
  PROVE  Whole(L, e)' /\ (Ends(L, e) => Ends(L, e)')
<1>1. IsLog(flash', L, e) /\ Unique(flash', L, e)
  BY LogEnds
<1>2. Undisturbed(L, e)'
  BY LogEnds DEF Undisturbed
<1>3. Ends(L, e) => Ends(L, e)'
  BY DEF Ends
<1> QED
  BY <1>1, <1>2, <1>3 DEF Whole

\* A handler that gives up leaves a log with an end, or the model ends.
LEMMA FlashErrorInv == ASSUME RoffsInv, FlashError PROVE RoffsInv'
<1>1. /\ todo # <<>> /\ ~wild /\ todo' = <<>> /\ wild' = Endless
      /\ uploads' = [c \in Conns |-> IF c = busy THEN None ELSE uploads[c]]
      /\ UNCHANGED <<flash, busy, readers, jump>>
  BY DEF FlashError
<1>2. TypeOK /\ NothingGarbled
  BY DEF RoffsInv
<1>3. TypeOK'
  <2>1. <<>> \in Seq([at : Base..Top, cell : Cells, erase : BOOLEAN])
    OBVIOUS
  <2>2. Endless \in BOOLEAN
    BY DEF Endless
  <2>3. uploads' \in [Conns -> Uploads \cup {None}]
    BY <1>1, <1>2 DEF TypeOK
  <2> QED
    BY <1>1, <1>2, <2>1, <2>2, <2>3 DEF TypeOK
<1>4. NothingGarbled'
  BY <1>1, <1>2 DEF NothingGarbled
<1>5. ASSUME ~Endless PROVE \E L, e : Whole(L, e)' /\ Stage(L, e)'
  <2>1. PICK L, e : Whole(L, e) /\ Stage(L, e)
    BY <1>1 DEF RoffsInv
  <2>2. Whole(L, e)' /\ Ends(L, e)'
    BY <1>1, <1>5, <2>1, StillEnds, Unwritten
  <2>3. ASSUME NEW d \in Conns, d # busy PROVE uploads[d] = None
    BY <1>1, <2>1, <2>3 DEF Stage, Resting, Formatting, NoUploads, Receiving, Retiring, Writing, Ending, Has, Only
  <2>4. NoUploads'
    BY <1>1, <2>3 DEF NoUploads
  <2> QED
    BY <1>1, <2>2, <2>4 DEF Stage, Resting
<1> QED
  BY <1>1, <1>3, <1>4, <1>5 DEF RoffsInv

\* The file system is about to be formatted.
LEMMA Formats ==
  ASSUME NEW L, NEW e, Ends(L, e)', todo' = roffs_format, NoUploads',
         \A c \in Conns : readers'[c] = None
  PROVE  Formatting(L, e)'
<1>1. \E b \in BOOLEAN : /\ todo' = <<[at |-> Base, cell |-> Terminator, erase |-> b]>>
                         /\ ~b => Fresh(flash', Base)
  BY FormatIs
<1> QED
  BY <1>1 DEF Formatting

\* So does a reset.
LEMMA ResetInv == ASSUME RoffsInv, Reset PROVE RoffsInv'
<1>1. /\ ~wild /\ todo' = (IF flash[Base] \in Header THEN <<>> ELSE roffs_format)
      /\ busy' = None /\ uploads' = [c \in Conns |-> None] /\ readers' = [c \in Conns |-> None]
      /\ wild' = (Endless /\ \A i \in NextHeader : todo[i].at # Base)
      /\ UNCHANGED <<flash, jump>>
  BY DEF Reset, Mount
<1>2. TypeOK /\ NothingGarbled
  BY DEF RoffsInv
<1>3. TypeOK'
  <2>1. todo' \in Seq([at : Base..Top, cell : Cells, erase : BOOLEAN])
    <3>1. <<>> \in Seq([at : Base..Top, cell : Cells, erase : BOOLEAN])
      OBVIOUS
    <3>2. roffs_format \in Seq([at : Base..Top, cell : Cells, erase : BOOLEAN])
      BY FormatIs DEF Ops
    <3>3. todo' = <<>> \/ todo' = roffs_format
      BY <1>1
    <3> QED
      BY <3>1, <3>2, <3>3
  <2>2. wild' \in BOOLEAN
    BY <1>1 DEF Endless
  <2> QED
    BY <1>1, <1>2, <2>1, <2>2 DEF TypeOK
<1>4. NothingGarbled'
  BY <1>1, <1>2 DEF NothingGarbled
<1>5. ASSUME ~wild' PROVE \E L, e : Whole(L, e)' /\ Stage(L, e)'
  <2>1. PICK L, e : Whole(L, e) /\ Stage(L, e)
    BY <1>1 DEF RoffsInv
  <2>2. Whole(L, e)' /\ Ends(L, e)'
    BY <1>1, <1>5, <2>1, StillEnds, Unwritten
  <2>3. NoUploads' /\ \A c \in Conns : readers'[c] = None
    BY <1>1 DEF NoUploads
  <2>4. CASE flash[Base] \in Header
    BY <1>1, <2>2, <2>3, <2>4 DEF Stage, Resting
  <2>5. CASE flash[Base] \notin Header
    BY <1>1, <2>2, <2>3, <2>5, Formats DEF Stage
  <2> QED
    BY <2>4, <2>5
<1> QED
  BY <1>3, <1>4, <1>5 DEF RoffsInv

\* Between handlers the log rests, or is being written to.
LEMMA IdleIs ==
  ASSUME RoffsInv, Idle
  PROVE  /\ TypeOK /\ NothingGarbled /\ flash \in Flashes /\ todo = <<>> /\ ~wild
         /\ \E L, e : Whole(L, e) /\ (Resting(L, e) \/ \E c \in Conns : Receiving(L, e, c))
<1>1. todo = <<>> /\ ~wild
  BY DEF Idle
<1>2. PICK L, e : Whole(L, e) /\ Stage(L, e)
  BY <1>1 DEF RoffsInv
<1>3. ~Formatting(L, e)
  <2>1. ASSUME NEW op, todo = <<op>> PROVE FALSE
    BY <1>1, <2>1
  <2> QED
    BY <2>1 DEF Formatting
<1>4. ASSUME NEW c \in Conns PROVE ~Ending(L, e, c)
  <2>1. ASSUME NEW op, todo = <<op>> PROVE FALSE
    BY <1>1, <2>1
  <2> QED
    BY <2>1 DEF Ending
<1>5. \A c \in Conns : \A a : ~Retiring(L, e, c) /\ ~Writing(L, e, c, a)
  BY <1>1 DEF Retiring, Writing
<1> QED
  BY <1>1, <1>2, <1>3, <1>4, <1>5 DEF Stage, RoffsInv, TypeOK, Flashes

\* A format keeps the files until its first operation.
LEMMA FormatInv == ASSUME RoffsInv, Format PROVE RoffsInv'
<1>1. /\ Idle /\ todo' = roffs_format /\ busy' = None
      /\ wild' = (\E c \in Conns : uploads[c] # None \/ readers[c] # None)
      /\ UNCHANGED <<flash, uploads, readers, jump>>
  BY DEF Format
<1>2. PICK L, e : Whole(L, e) /\ (Resting(L, e) \/ \E c \in Conns : Receiving(L, e, c))
  BY <1>1, IdleIs
<1>3. TypeOK /\ NothingGarbled /\ ~wild
  BY <1>1 DEF RoffsInv, Idle
<1>4. TypeOK'
  <2>1. todo' \in Seq([at : Base..Top, cell : Cells, erase : BOOLEAN])
    BY <1>1, FormatIs DEF Ops
  <2> QED
    BY <1>1, <1>3, <2>1 DEF TypeOK
<1>5. NothingGarbled'
  BY <1>1, <1>3 DEF NothingGarbled
<1>6. ASSUME ~wild' PROVE \E M, d : Whole(M, d)' /\ Stage(M, d)'
  <2>1. \A c \in Conns : uploads[c] = None /\ readers[c] = None
    BY <1>1, <1>6
  <2>2. Resting(L, e)
    BY <1>2, <2>1, CellAssumption DEF Receiving, Has
  <2>3. Whole(L, e)' /\ Ends(L, e)'
    BY <1>1, <1>2, <2>2, Unwritten DEF Resting
  <2>4. Formatting(L, e)'
    BY <1>1, <2>1, <2>3, Formats DEF NoUploads
  <2> QED
    BY <2>3, <2>4 DEF Stage
<1> QED
  BY <1>4, <1>5, <1>6 DEF RoffsInv

-----------------------------------------------------------------------------
(* What handlers plan. *)

\* What writeFlash plans: cell after cell, with an erase on each boundary.
LEMMA WriteFlashIs ==
  ASSUME NEW at \in Nat, NEW cells \in Seq(Cells), at >= Base, at + Len(cells) <= Top + 1
  PROVE  /\ writeFlash(at, cells) \in Seq(Ops) /\ Len(writeFlash(at, cells)) = Len(cells)
         /\ Len(cells) \in Nat
         /\ \A i \in 1..Len(cells) :
              writeFlash(at, cells)[i] =
                [at |-> at + i - 1, cell |-> cells[i], erase |-> Boundary(at + i - 1)]
<1>1. PICK n \in Nat : n = Len(cells)
  BY LenProperties
<1> DEFINE op(i) == [at |-> at + i - 1, cell |-> cells[i], erase |-> (at + i - 1) % SecSize = 0]
           w == [i \in 1..n |-> op(i)]
<1>2. writeFlash(at, cells) = w
  BY <1>1 DEF writeFlash
<1>3. ASSUME NEW i \in 1..n
      PROVE  /\ op(i) \in Ops
             /\ op(i) = [at |-> at + i - 1, cell |-> cells[i], erase |-> Boundary(at + i - 1)]
  <2>1. at + i - 1 \in Base..Top
    BY <1>1, RoffsAssumption
  <2>2. cells[i] \in Cells
    BY <1>1, ElementOfSeq
  <2>3. PICK b \in BOOLEAN : b = ((at + i - 1) % SecSize = 0)
    OBVIOUS
  <2>4. [at |-> at + i - 1, cell |-> cells[i], erase |-> b] \in Ops
    BY <2>1, <2>2 DEF Ops
  <2>5. op(i) = [at |-> at + i - 1, cell |-> cells[i], erase |-> b]
    BY <2>3, Zenon
  <2>6. b = Boundary(at + i - 1)
    BY <2>3 DEF Boundary
  <2> QED
    BY <2>4, <2>5, <2>6, Zenon
<1> HIDE DEF op
<1>4. w \in Seq(Ops)
  BY <1>3, IsASeq
<1>5. Len(w) = n /\ \A i \in 1..n : w[i] = op(i)
  <2>1. DOMAIN w = 1..n
    OBVIOUS
  <2>2. Len(w) \in Nat /\ DOMAIN w = 1..Len(w)
    BY <1>4, LenProperties
  <2> HIDE DEF w
  <2>3. Len(w) = n
    BY <2>1, <2>2
  <2> USE DEF w
  <2> QED
    BY <2>3
<1> HIDE DEF w
<1> QED
  BY <1>1, <1>2, <1>3, <1>4, <1>5, Zenon

\* A write of one cell.
LEMMA OneCell ==
  ASSUME NEW at \in Base..Top, NEW cell \in Cells
  PROVE  /\ writeFlash(at, <<cell>>) \in Seq(Ops) /\ Len(writeFlash(at, <<cell>>)) = 1
         /\ writeFlash(at, <<cell>>)[1] = [at |-> at, cell |-> cell, erase |-> Boundary(at)]
<1>1. PICK cells : cells = <<cell>>
  OBVIOUS
<1>2. cells \in Seq(Cells) /\ Len(cells) = 1 /\ cells[1] = cell
  BY <1>1
<1>3. at \in Nat /\ at >= Base /\ at + Len(cells) <= Top + 1 /\ at + 1 - 1 = at /\ 1 \in 1..Len(cells)
  BY <1>2, RoffsAssumption
<1>4. /\ writeFlash(at, cells) \in Seq(Ops) /\ Len(writeFlash(at, cells)) = 1
      /\ writeFlash(at, cells)[1] =
           [at |-> at + 1 - 1, cell |-> cells[1], erase |-> Boundary(at + 1 - 1)]
  BY <1>2, <1>3, WriteFlashIs
<1>5. writeFlash(at, cells)[1] = [at |-> at, cell |-> cell, erase |-> Boundary(at)]
  BY <1>2, <1>3, <1>4, Zenon
<1> QED
  BY <1>1, <1>4, <1>5, Zenon

\* One sequence behind the other.
LEMMA Behind ==
  ASSUME NEW S, NEW s \in Seq(S), NEW t \in Seq(S)
  PROVE  /\ s \o t \in Seq(S) /\ Len(s) \in Nat /\ Len(t) \in Nat
         /\ Len(s \o t) = Len(s) + Len(t)
         /\ \A i \in 1..Len(s) : (s \o t)[i] = s[i]
         /\ \A i \in 1..Len(t) : (s \o t)[Len(s) + i] = t[i]
<1>1. Len(s) \in Nat /\ Len(t) \in Nat
  BY LenProperties
<1>2. PICK v : v = s \o t
  OBVIOUS
<1>3. PICK m \in Nat, n \in Nat : m = Len(s) /\ n = Len(t)
  BY <1>1
<1>4. /\ v \in Seq(S) /\ Len(v) = m + n
      /\ \A i \in 1 .. m + n : v[i] = IF i <= m THEN s[i] ELSE t[i - m]
  BY <1>2, <1>3, ConcatProperties
<1>5. \A i \in 1..m : v[i] = s[i]
  BY <1>4
<1>6. ASSUME NEW i \in 1..n PROVE v[m + i] = t[i]
  <2>1. m + i \in 1 .. m + n /\ ~(m + i <= m) /\ m + i - m = i
    OBVIOUS
  <2> QED
    BY <1>4, <2>1
<1> QED
  BY <1>1, <1>2, <1>3, <1>4, <1>5, <1>6

\* What roffs_close plans.
LEMMA CloseIs ==
  ASSUME NEW u \in Uploads, EndOf(u) <= Top
  PROVE  /\ roffs_close(u) \in Seq(Ops) /\ Len(roffs_close(u)) = 2
         /\ roffs_close(u)[1] = [at |-> u.header, cell |-> ClosedBy(u), erase |-> FALSE]
         /\ roffs_close(u)[2] = [at |-> EndOf(u), cell |-> Terminator, erase |-> Boundary(EndOf(u))]
<1>1. /\ u.header \in Base..Top /\ EndOf(u) \in Nat /\ u.header + 2 <= EndOf(u)
      /\ EndOf(u) = u.header + 2 + Length(u) /\ Length(u) \in Nat
      /\ Start(u) + Length(u) = EndOf(u) /\ Length(u) = Len(u.data)
  BY UploadIs DEF Start
<1>2. EndOf(u) \in Base..Top
  BY <1>1, RoffsAssumption
<1> DEFINE h == [NewHeader EXCEPT !.flags = @ \ {"PENDING"}, !.fileLen = Len(u.data)]
<1>3. h = ClosedBy(u)
  <2>1. {"ACTIVE", "PENDING"} \ {"PENDING"} = {"ACTIVE"}
    OBVIOUS
  <2>2. PICK k : k = Length(u)
    OBVIOUS
  <2>3. k = Len(u.data)
    BY <1>1, <2>2
  <2>4. [NewHeader EXCEPT !.flags = @ \ {"PENDING"}, !.fileLen = k]
          = [flags |-> {"ACTIVE"}, nameLen |-> 1, fileLen |-> k]
    <3>1. NewHeader.flags \ {"PENDING"} = {"ACTIVE"}
      BY <2>1 DEF NewHeader
    <3>2. PICK F : F = NewHeader.flags \ {"PENDING"}
      OBVIOUS
    <3>3. [NewHeader EXCEPT !.flags = F, !.fileLen = k] = [flags |-> F, nameLen |-> 1, fileLen |-> k]
      <4>1. PICK G, N, M : NewHeader = [flags |-> G, nameLen |-> N, fileLen |-> M] /\ N = 1
        BY DEF NewHeader
      <4>2. [NewHeader EXCEPT !.flags = F, !.fileLen = k]
              = [[NewHeader EXCEPT !.flags = F] EXCEPT !.fileLen = k]
        BY <4>1
      <4>3. [NewHeader EXCEPT !.flags = F] = [flags |-> F, nameLen |-> N, fileLen |-> M]
        BY <4>1
      <4>4. [[flags |-> F, nameLen |-> N, fileLen |-> M] EXCEPT !.fileLen = k]
              = [flags |-> F, nameLen |-> N, fileLen |-> k]
        OBVIOUS
      <4> QED
        BY <4>1, <4>2, <4>3, <4>4
    <3> QED
      BY <3>1, <3>2, <3>3
  <2> QED
    BY <2>2, <2>3, <2>4 DEF ClosedBy
<1>4. ClosedBy(u) \in Cells
  <2>1. Length(u) \in 0..Top
    BY <1>1, RoffsAssumption
  <2> QED
    BY <2>1, Clearing, NotGarbled DEF ClosedBy
<1> DEFINE op == [at |-> u.header, cell |-> ClosedBy(u), erase |-> FALSE]
           w == writeFlash(EndOf(u), <<Terminator>>)
<1>5. op \in Ops
  BY <1>1, <1>4 DEF Ops
<1>6. roffs_close(u) = <<op>> \o w
  BY <1>1, <1>3, Zenon DEF roffs_close, updateFlash
<1>7. /\ w \in Seq(Ops) /\ Len(w) = 1
      /\ w[1] = [at |-> EndOf(u), cell |-> Terminator, erase |-> Boundary(EndOf(u))]
  BY <1>2, OneCell, NotGarbled
<1> HIDE DEF op, w
<1>8. /\ <<op>> \o w \in Seq(Ops) /\ Len(<<op>> \o w) = 2
      /\ (<<op>> \o w)[1] = op /\ (<<op>> \o w)[2] = w[1]
  <2>1. PICK x \in Ops, t \in Seq(Ops) : x = op /\ t = w /\ Len(t) = 1
    BY <1>5, <1>7
  <2>2. /\ <<x>> \o t \in Seq(Ops) /\ Len(<<x>> \o t) = 1 + Len(t)
        /\ \A i \in 1 .. 1 + Len(t) : (<<x>> \o t)[i] = IF i = 1 THEN x ELSE t[i - 1]
    BY InFront
  <2>3. /\ <<x>> \o t \in Seq(Ops) /\ Len(<<x>> \o t) = 2
        /\ (<<x>> \o t)[1] = x /\ (<<x>> \o t)[2] = t[1]
    <3>1. PICK v : v = <<x>> \o t
      OBVIOUS
    <3>2. \A i \in 1..2 : v[i] = IF i = 1 THEN x ELSE t[i - 1]
      BY <2>1, <2>2, <3>1
    <3>3. v[1] = x /\ v[2] = t[1]
      BY <3>2
    <3> QED
      BY <2>1, <2>2, <3>1, <3>3
  <2> QED
    BY <2>1, <2>3
<1> QED
  BY <1>6, <1>7, <1>8, Zenon DEF op

\* A buffer is a sequence of data.
LEMMA BodiesAre ==
  ASSUME NEW final \in BOOLEAN, NEW data \in Bodies(final)
  PROVE  data \in Seq(Values) /\ Len(data) \in Nat
<1>1. Chunk \in Nat
  BY RoffsAssumption
<1>2. PICK m \in Nat : data \in [1..m -> Values]
  BY <1>1 DEF Bodies, BoundedSeq, SeqOf
<1>3. data \in Seq(Values)
  BY <1>2, SeqDef
<1> QED
  BY <1>3, LenProperties

\* A buffer makes an upload longer.
LEMMA TakenIs ==
  ASSUME NEW u \in Uploads, u.stage = "open", NEW data \in Seq(Values), NEW final \in BOOLEAN,
         Fits(u, data), NEW v, v = Taken(u, data, final)
  PROVE  /\ v \in Uploads /\ v.header = u.header /\ v.name = u.name /\ v.data = u.data \o data
         /\ v.stage = (IF final THEN "whole" ELSE "open")
         /\ Length(v) = Length(u) + Len(data) /\ Len(data) \in Nat
         /\ EndOf(v) = EndOf(u) + Len(data) /\ EndOf(v) <= Top
         /\ \A i : i \in 1 .. Length(u) + 2 => Image(v, i) = Image(u, i)
         /\ \A i \in 1..Len(data) : Image(v, Length(u) + 2 + i) = data[i]
<1>1. v = [u EXCEPT !.data = @ \o data, !.stage = IF final THEN "whole" ELSE "open"]
  BY DEF Taken
<1>2. /\ u.name \in Names /\ u.header \in Base..Top /\ u.data \in Seq(Values)
      /\ Length(u) = Len(u.data) /\ Length(u) \in Nat /\ EndOf(u) = u.header + 2 + Length(u)
      /\ u.header \in Nat
  BY UploadIs
<1>3. PICK d : d = u.data \o data
  OBVIOUS
<1>4. PICK m \in Nat, n \in Nat : m = Length(u) /\ n = Len(data)
  BY <1>2, LenProperties
<1>5. /\ d \in Seq(Values) /\ Len(d) = m + n
      /\ \A i \in 1..m : d[i] = u.data[i]
      /\ \A i \in 1..n : d[m + i] = data[i]
  BY <1>2, <1>3, <1>4, Behind
<1>6. /\ v.header = u.header /\ v.name = u.name /\ v.data = d
      /\ v.stage = (IF final THEN "whole" ELSE "open")
  BY <1>1, <1>3 DEF Uploads
<1>7. v \in Uploads
  BY <1>1, <1>2, <1>3, <1>5 DEF Uploads
<1>8. Length(v) = m + n
  BY <1>5, <1>6 DEF Length
<1>9. EndOf(v) = u.header + 2 + (m + n)
  BY <1>6, <1>8 DEF EndOf
<1>10. EndOf(v) = EndOf(u) + n
  <2>1. EndOf(u) = u.header + 2 + m /\ u.header \in Nat
    BY <1>2, <1>4
  <2> QED
    BY <1>9, <2>1
<1>11. EndOf(v) <= Top
  <2>1. Start(u) + Len(u.data) = EndOf(u)
    BY <1>2 DEF Start
  <2> QED
    BY <1>4, <1>10, <2>1 DEF Fits
<1>12. ASSUME NEW i \in 1 .. m + 2 PROVE Image(v, i) = Image(u, i)
  <2>1. i # 1 /\ i # 2 => i - 2 \in 1..m
    OBVIOUS
  <2>2. i # 1 /\ i # 2 => v.data[i - 2] = u.data[i - 2]
    BY <1>5, <1>6, <2>1
  <2> QED
    BY <1>6, <2>2 DEF Image
<1>13. ASSUME NEW i \in 1..n PROVE Image(v, m + 2 + i) = data[i]
  <2>1. m + 2 + i # 1 /\ m + 2 + i # 2 /\ m + 2 + i - 2 = m + i
    OBVIOUS
  <2>2. Image(v, m + 2 + i) = v.data[m + 2 + i - 2]
    BY <2>1 DEF Image
  <2> QED
    BY <1>5, <1>6, <2>1, <2>2
<1> QED
  BY <1>3, <1>4, <1>6, <1>7, <1>8, <1>10, <1>11, <1>12, <1>13

\* What a handler does with a buffer that fits.
LEMMA BufferPlan ==
  ASSUME NEW u \in Uploads, u.stage = "open", NEW data \in Seq(Values), NEW final \in BOOLEAN,
         Fits(u, data), NEW v, v = Taken(u, data, final), NEW ops, ops = roffs_write(u, data, final)
  PROVE  /\ ops \in Seq(Ops) /\ PlanOf(v, EndOf(u), Len(data), ops)
         /\ data # <<>> => ops # <<>> /\ ops[1].erase = Boundary(EndOf(u))
<1>1. /\ v \in Uploads /\ v.header = u.header /\ v.data = u.data \o data
      /\ v.stage = (IF final THEN "whole" ELSE "open")
      /\ EndOf(v) = EndOf(u) + Len(data) /\ EndOf(v) <= Top
      /\ \A i \in 1..Len(data) : Image(v, Length(u) + 2 + i) = data[i]
  BY TakenIs
<1>2. /\ u.header \in Base..Top /\ Length(u) \in Nat /\ EndOf(u) = u.header + 2 + Length(u)
      /\ EndOf(u) \in Nat /\ u.header \in Nat
  BY UploadIs
<1>3. PICK m \in Nat, b \in Nat : m = Len(data) /\ b = EndOf(u)
  BY <1>2, LenProperties
<1> DEFINE w == writeFlash(b, data)
           d == [u EXCEPT !.data = @ \o data]
           k == IF final THEN roffs_close(d) ELSE <<>>
<1>4. ops = w \o k
  <2>1. Start(u) + Len(u.data) = EndOf(u)
    BY UploadIs DEF Start
  <2> QED
    BY <1>3, <2>1, Zenon DEF roffs_write
<1>5. data \in Seq(Cells)
  <2>1. Values \subseteq Cells
    BY DEF Cells
  <2> QED
    BY <2>1, SeqMonotonic
<1>6. /\ w \in Seq(Ops) /\ Len(w) = m
      /\ \A i \in 1..m : w[i] = [at |-> b + i - 1, cell |-> data[i], erase |-> Boundary(b + i - 1)]
  <2>1. PICK h, j : h = u.header /\ j = Length(u)
    OBVIOUS
  <2>2. h \in Base..Top /\ h \in Nat /\ j \in Nat /\ b = h + 2 + j
    BY <1>2, <1>3, <2>1
  <2>3. b >= Base
    BY <2>2, RoffsAssumption
  <2>4. b + m <= Top
    BY <1>1, <1>3
  <2>5. b + m <= Top + 1
    BY <1>3, <2>4, RoffsAssumption
  <2>6. b + Len(data) <= Top + 1
    BY <1>3, <2>5
  <2> QED
    BY <1>3, <1>5, <2>3, <2>6, WriteFlashIs
<1>13. PICK x, y : /\ x = [at |-> v.header, cell |-> ClosedBy(v), erase |-> FALSE]
                  /\ y = [at |-> EndOf(v), cell |-> Terminator, erase |-> Boundary(EndOf(v))]
  OBVIOUS
<1>7. /\ k \in Seq(Ops) /\ Len(k) = (IF v.stage = "whole" THEN 2 ELSE 0)
      /\ v.stage = "whole" => k[1] = x /\ k[2] = y
  <2>1. CASE final
    <3>1. d.data = v.data /\ d.header = v.header /\ d.name = u.name /\ d.stage = "open"
      BY <1>1 DEF Uploads
    <3>2. d \in Uploads
      <4>1. v.data \in Seq(Values)
        BY <1>1, UploadIs
      <4>2. u.data \o data \in Seq(Values)
        BY <1>1, <4>1
      <4> QED
        BY <4>2 DEF Uploads
    <3> HIDE DEF d
    <3>3. Length(d) = Length(v) /\ EndOf(d) = EndOf(v) /\ ClosedBy(d) = ClosedBy(v)
      BY <3>1 DEF Length, EndOf, ClosedBy
    <3>4. EndOf(d) <= Top
      BY <1>1, <3>3
    <3>5. v.stage = "whole"
      BY <1>1, <2>1
    <3>6. /\ roffs_close(d) \in Seq(Ops) /\ Len(roffs_close(d)) = 2
          /\ roffs_close(d)[1] = [at |-> d.header, cell |-> ClosedBy(d), erase |-> FALSE]
          /\ roffs_close(d)[2] = [at |-> EndOf(d), cell |-> Terminator, erase |-> Boundary(EndOf(d))]
      BY <3>2, <3>4, CloseIs
    <3>7. k = roffs_close(d)
      BY <2>1
    <3> HIDE DEF k
    <3>8. k[1] = x
      BY <1>13, <3>1, <3>3, <3>6, <3>7
    <3>9. k[2] = y
      BY <1>13, <3>3, <3>6, <3>7, Zenon
    <3>10. k \in Seq(Ops) /\ Len(k) = 2
      BY <3>6, <3>7
    <3>11. Len(k) = (IF v.stage = "whole" THEN 2 ELSE 0)
      BY <3>5, <3>10
    <3> QED
      BY <3>8, <3>9, <3>10, <3>11
  <2>2. CASE ~final
    <3>1. v.stage = "open"
      BY <1>1, <2>2
    <3>2. k = <<>>
      BY <2>2
    <3> HIDE DEF k
    <3>3. k \in Seq(Ops) /\ Len(k) = 0
      BY <3>2
    <3> QED
      BY <3>1, <3>3
  <2> QED
    BY <2>1, <2>2
<1> HIDE DEF w, k, d
<1>8. /\ ops \in Seq(Ops) /\ Len(ops) = m + Len(k) /\ Len(k) \in Nat
      /\ \A i \in 1..m : ops[i] = w[i]
      /\ \A i \in 1..Len(k) : ops[m + i] = k[i]
  <2>1. PICK s \in Seq(Ops), t \in Seq(Ops) : s = w /\ t = k
    BY <1>6, <1>7
  <2>2. /\ s \o t \in Seq(Ops) /\ Len(s) \in Nat /\ Len(t) \in Nat
        /\ Len(s \o t) = Len(s) + Len(t)
        /\ \A i \in 1..Len(s) : (s \o t)[i] = s[i]
        /\ \A i \in 1..Len(t) : (s \o t)[Len(s) + i] = t[i]
    BY Behind
  <2>3. ops = s \o t /\ Len(s) = m
    BY <1>4, <1>6, <2>1
  <2> QED
    BY <2>1, <2>2, <2>3, Zenon
<1>9. Many(v, m, ops)
  BY <1>7, <1>8 DEF Many
<1>10. Pieces(v, b, m, ops)
  <2>1. ASSUME NEW i \in 1..m
        PROVE  /\ ops[i].at = b + i - 1 /\ ops[i].cell = Image(v, b - v.header + i)
               /\ ops[i].erase = Boundary(b + i - 1)
    <3>1. ops[i] = [at |-> b + i - 1, cell |-> data[i], erase |-> Boundary(b + i - 1)]
      BY <1>6, <1>8
    <3>2. ops[i].at = b + i - 1 /\ ops[i].cell = data[i] /\ ops[i].erase = Boundary(b + i - 1)
      <4>1. PICK op : op = ops[i]
        OBVIOUS
      <4>2. op = [at |-> b + i - 1, cell |-> data[i], erase |-> Boundary(b + i - 1)]
        BY <3>1, <4>1
      <4>3. op.at = b + i - 1 /\ op.cell = data[i] /\ op.erase = Boundary(b + i - 1)
        BY <4>2
      <4> QED
        BY <4>1, <4>3
    <3>3. b - v.header + i = Length(u) + 2 + i
      BY <1>1, <1>2, <1>3
    <3>4. Image(v, b - v.header + i) = data[i]
      BY <1>1, <1>3, <3>3
    <3> QED
      BY <3>2, <3>4, Zenon
  <2> QED
    BY <2>1 DEF Pieces
<1>11. Closing(v, m, ops)
  <2>1. ASSUME v.stage = "whole" PROVE ops[m + 1] = k[1] /\ ops[m + 2] = k[2]
    <3>1. 1 \in 1..Len(k) /\ 2 \in 1..Len(k)
      BY <1>7, <2>1
    <3> QED
      BY <1>8, <3>1
  <2>2. v.stage = "whole" => ops[m + 1] = x /\ ops[m + 2] = y
    BY <1>7, <2>1
  <2> QED
    BY <1>13, <2>2, Zenon DEF Closing
<1>12. ASSUME data # <<>> PROVE ops # <<>> /\ ops[1].erase = Boundary(b)
  <2>1. m >= 1
    BY <1>3, <1>12, EmptySeq
  <2>2. Len(ops) # 0 /\ 1 \in 1..m /\ b + 1 - 1 = b
    BY <1>8, <2>1
  <2>3. ops[1] = [at |-> b + 1 - 1, cell |-> data[1], erase |-> Boundary(b + 1 - 1)]
    BY <1>6, <1>8, <2>2
  <2>4. ops[1].erase = Boundary(b + 1 - 1)
    <3>1. PICK op : op = ops[1]
      OBVIOUS
    <3>2. op.erase = Boundary(b + 1 - 1)
      BY <2>3, <3>1
    <3> QED
      BY <3>1, <3>2
  <2> QED
    BY <2>2, <2>4, EmptySeq
<1> QED
  BY <1>3, <1>8, <1>9, <1>10, <1>11, <1>12 DEF PlanOf

-----------------------------------------------------------------------------
(* What one can see. *)

\* What ends the log.
LEMMA AtTheEnd ==
  ASSUME NEW f \in Flashes, NEW e, f[e] \in {Terminator, NewHeader} \/ f[e] \notin Header
  PROVE  AtEnd(f, e)
  BY DEF AtEnd, Terminator, NewHeader, Flags

\* The files of the log are its headers with ACTIVE.
LEMMA ActiveIs ==
  ASSUME NEW f \in Flashes, NEW L, NEW e, IsLog(f, L, e), AtEnd(f, e)
  PROVE  /\ \A p : p \in Active(f) <=> p \in L \ {e} /\ f[p].flags = {"ACTIVE"}
         /\ \A p, n : p \in Versions(f, n) <=> p \in L \ {e} /\ Shows(f, p, n)
<1>1. Log(f) = L
  BY LogIs
<1>2. ASSUME NEW p \in L \ {e} PROVE ~AtEnd(f, p) /\ (HasFlag(f, p, "ACTIVE") <=> f[p].flags = {"ACTIVE"})
  BY InLog, ClosedIs
<1>3. \A p : p \in Active(f) <=> p \in L \ {e} /\ f[p].flags = {"ACTIVE"}
  BY <1>1, <1>2 DEF Active
<1> QED
  BY <1>3 DEF Versions, Shows

\* There is one version of a file, if any.
LEMMA VersionIs ==
  ASSUME NEW f \in Flashes, NEW L, NEW e, IsLog(f, L, e), AtEnd(f, e), Unique(f, L, e),
         NEW n \in Plain
  PROVE  /\ Versions(f, n) = {} <=> Gone(f, L, e, n)
         /\ Versions(f, n) # {} =>
              \E p \in L \ {e} : /\ Shows(f, p, n) /\ Versions(f, n) = {p}
                                 /\ Min(Versions(f, n)) = p /\ Max(Versions(f, n)) = p
<1>1. \A p : p \in Versions(f, n) <=> p \in L \ {e} /\ Shows(f, p, n)
  BY ActiveIs
<1>2. Versions(f, n) = {} <=> Gone(f, L, e, n)
  BY <1>1 DEF Gone, Plain
<1>3. ASSUME Versions(f, n) # {}
      PROVE  \E p \in L \ {e} : /\ Shows(f, p, n) /\ Versions(f, n) = {p}
                                /\ Min(Versions(f, n)) = p /\ Max(Versions(f, n)) = p
  <2>1. PICK p : p \in Versions(f, n)
    BY <1>3
  <2>2. p \in L \ {e} /\ Shows(f, p, n)
    BY <1>1, <2>1
  <2>3. \A q \in Versions(f, n) : q = p
    BY <1>1, <2>2 DEF Unique
  <2>4. Versions(f, n) = {p}
    BY <2>1, <2>3
  <2>5. p \in Int
    BY <2>2, InLog
  <2>6. Min({p}) = p /\ Max({p}) = p
    BY <2>5 DEF Min, Max
  <2> QED
    BY <2>2, <2>4, <2>6
<1> QED
  BY <1>2, <1>3

\* Between handlers the walk finds the end of the log.
LEMMA IdleEnds ==
  ASSUME TypeOK, NEW L, NEW e, Whole(L, e),
         Resting(L, e) \/ \E c \in Conns : Receiving(L, e, c)
  PROVE  /\ AtEnd(flash, e) /\ Log(flash) = L /\ LogEnd(flash) = e
         /\ flash \in Flashes /\ e \in Nat /\ e \in Base..Top
<1>1. flash \in Flashes /\ e \in Nat /\ IsLog(flash, L, e) /\ e \in Base..Top
  BY LogEnds DEF TypeOK, Flashes
<1>2. CASE Resting(L, e)
  <2>1. flash[e] \in {Terminator, NewHeader} \/ flash[e] \notin Header
    BY <1>2 DEF Resting, Ends
  <2> QED
    BY <1>1, <2>1, AtTheEnd, LogIs
<1>3. CASE \E c \in Conns : Receiving(L, e, c)
  <2>1. PICK c \in Conns : Receiving(L, e, c)
    BY <1>3
  <2>2. uploads[c] \in Uploads /\ uploads[c].header = e /\ Laid(flash, uploads[c], EndOf(uploads[c]))
    BY <2>1 DEF Receiving, Has
  <2>3. flash[e] = NewHeader
    BY <1>1, <2>2, LaidIs
  <2> QED
    BY <1>1, <2>3, AtTheEnd, LogIs
<1> QED
  BY <1>2, <1>3

-----------------------------------------------------------------------------
(* Downloads. *)

\* An action on downloads alone.
LEMMA ReadersOnly ==
  ASSUME RoffsInv, Idle, UNCHANGED <<flash, todo, busy, uploads, jump, wild>>,
         readers' \in [Conns -> Downloads \cup {None}],
         ASSUME NEW L, NEW e, Whole(L, e), Resting(L, e) \/ \E c \in Conns : Receiving(L, e, c)
         PROVE  Undisturbed(L, e)'
  PROVE  RoffsInv'
<1>1. TypeOK /\ NothingGarbled /\ ~wild
  BY DEF RoffsInv, Idle
<1>2. TypeOK'
  BY <1>1 DEF TypeOK
<1>3. NothingGarbled'
  BY <1>1 DEF NothingGarbled
<1>4. PICK L, e : Whole(L, e) /\ (Resting(L, e) \/ \E c \in Conns : Receiving(L, e, c))
  BY IdleIs
<1>5. Whole(L, e)'
  BY <1>4 DEF Whole
<1>6. Resting(L, e) => Resting(L, e)'
  BY DEF Resting, Ends, NoUploads
<1>7. \A c \in Conns : Receiving(L, e, c) => Receiving(L, e, c)'
  BY DEF Receiving, Has, Only
<1> QED
  BY <1>2, <1>3, <1>4, <1>5, <1>6, <1>7 DEF RoffsInv, Stage

\* A download may end at any time,
LEMMA ReleaseInv == ASSUME RoffsInv, NEW c \in Conns, Release(c) PROVE RoffsInv'
<1>1. /\ Idle /\ readers' = [readers EXCEPT ![c] = None]
      /\ UNCHANGED <<flash, todo, busy, uploads, jump, wild>>
  BY DEF Release
<1>2. readers \in [Conns -> Downloads \cup {None}]
  BY DEF RoffsInv, TypeOK
<1>3. ASSUME NEW L, NEW e, Whole(L, e) PROVE Undisturbed(L, e)'
  BY <1>1, <1>2, <1>3 DEF Whole, Undisturbed
<1> QED
  BY <1>1, <1>2, <1>3, ReadersOnly

\* or go on,
LEMMA ReadInv == ASSUME RoffsInv, NEW c \in Conns, Read(c) PROVE RoffsInv'
<1> DEFINE r == readers[c]
           s == [r EXCEPT !.offset = @ + Chunk]
<1>1. /\ Idle /\ r # None
      /\ readers' = [readers EXCEPT ![c] = IF r.size - r.offset >= Chunk THEN s ELSE None]
      /\ UNCHANGED <<flash, todo, busy, uploads, jump, wild>>
  BY DEF Read
<1>2. readers \in [Conns -> Downloads \cup {None}]
  BY DEF RoffsInv, TypeOK
<1>3. r \in Downloads /\ r.size \in 0..Top /\ r.offset \in 0..Top
  BY <1>1, <1>2 DEF Downloads
<1>4. ASSUME r.size - r.offset >= Chunk PROVE s \in Downloads
  <2>1. r.offset + Chunk \in 0..Top
    BY <1>3, <1>4, RoffsAssumption
  <2> QED
    BY <1>3, <2>1 DEF Downloads
<1>5. s.start = r.start /\ s.size = r.size /\ s.version = r.version
  BY <1>3 DEF Downloads
<1> HIDE DEF r, s
<1>6. readers' \in [Conns -> Downloads \cup {None}]
  BY <1>1, <1>2, <1>4
<1>7. readers'[c] \in {s, None} /\ \A d \in Conns \ {c} : readers'[d] = readers[d]
  BY <1>1, <1>2
<1>8. ASSUME NEW L, NEW e, Whole(L, e) PROVE Undisturbed(L, e)'
  <2>1. Undisturbed(L, e)
    BY <1>8 DEF Whole
  <2>2. Reading(flash, L, e, r)
    BY <1>1, <2>1 DEF Undisturbed, r
  <2>3. Reading(flash, L, e, s)
    BY <1>5, <2>2 DEF Reading
  <2> QED
    BY <1>1, <1>7, <2>1, <2>3 DEF Undisturbed
<1> QED
  BY <1>1, <1>6, <1>8, ReadersOnly

\* or begin, of a file of the log.
LEMMA DownloadInv == ASSUME RoffsInv, NEW c \in Conns, NEW n \in Names, Download(c, n) PROVE RoffsInv'
<1>0. PICK m \in Plain : m = Strip[n]
  BY StripPlain
<1> DEFINE p == Min(Versions(flash, m))
           r == [start |-> p + 1 + flash[p].nameLen, size |-> flash[p].fileLen, offset |-> 0,
                 version |-> File(flash, m)]
<1>1. /\ Idle /\ Versions(flash, m) # {} /\ readers' = [readers EXCEPT ![c] = r]
      /\ UNCHANGED <<flash, todo, busy, uploads, jump, wild>>
  BY <1>0 DEF Download
<1>2. readers \in [Conns -> Downloads \cup {None}]
  BY DEF RoffsInv, TypeOK
<1> HIDE DEF r
<1>3. readers'[c] = r /\ \A d \in Conns \ {c} : readers'[d] = readers[d]
  BY <1>1, <1>2
<1>4. ASSUME NEW L, NEW e, Whole(L, e), Resting(L, e) \/ \E d \in Conns : Receiving(L, e, d)
      PROVE  r \in Downloads /\ Reading(flash, L, e, r)
  <2>1. /\ AtEnd(flash, e) /\ flash \in Flashes /\ IsLog(flash, L, e) /\ Unique(flash, L, e)
        /\ e \in Base..Top
    BY <1>4, IdleEnds, LogEnds DEF RoffsInv
  <2>2. p \in L \ {e}
    BY <1>1, <2>1, VersionIs
  <2>3. /\ p \in Base..Top /\ p >= 1 /\ flash[p] \in Closed /\ flash[p].fileLen \in 0..Top
        /\ p + 2 + flash[p].fileLen <= e
        /\ \A i \in 1..flash[p].fileLen : flash[p + 1 + i] \in Values
    BY <2>1, <2>2, InLog
  <2>4. flash[p].nameLen = 1
    BY <2>3 DEF Closed
  <2>5. File(flash, m) = [i \in 1..flash[p].fileLen |-> flash[p + 1 + i]]
    BY <1>1, <2>4 DEF File, Content
  <2> HIDE DEF p
  <2>6. PICK k \in 0..Top : k = flash[p].fileLen
    BY <2>3
  <2>7. /\ File(flash, m) \in Seq(Values) /\ Len(File(flash, m)) = k
        /\ \A i \in 1..k : File(flash, m)[i] = flash[p + 1 + i]
    <3>1. PICK v : v = [i \in 1..k |-> flash[p + 1 + i]]
      OBVIOUS
    <3>2. v \in [1..k -> Values] /\ \A i \in 1..k : v[i] = flash[p + 1 + i]
      BY <2>3, <2>6, <3>1
    <3>3. k \in Nat
      BY RoffsAssumption
    <3>4. v \in Seq(Values) /\ Len(v) = k
      BY <3>2, <3>3
    <3> QED
      BY <2>5, <2>6, <3>1, <3>2, <3>4
  <2>8. /\ r.start = p + 2 /\ r.size = k /\ r.offset = 0 /\ r.version = File(flash, m)
        /\ r = [start |-> p + 2, size |-> k, offset |-> 0, version |-> File(flash, m)]
    <3>1. p + 1 + flash[p].nameLen = p + 2
      BY <2>3, <2>4
    <3> QED
      BY <2>6, <3>1 DEF r
  <2>9. p + 2 \in Base..Top /\ 0 \in 0..Top
    BY <2>1, <2>3, RoffsAssumption
  <2>10. r \in Downloads
    BY <2>7, <2>8, <2>9 DEF Downloads
  <2>11. Reading(flash, L, e, r)
    BY <2>2, <2>6, <2>7, <2>8 DEF Reading
  <2> QED
    BY <2>10, <2>11
<1>5. r \in Downloads
  BY <1>1, <1>4, IdleIs
<1>6. readers' \in [Conns -> Downloads \cup {None}]
  BY <1>1, <1>2, <1>5
<1>7. ASSUME NEW L, NEW e, Whole(L, e), Resting(L, e) \/ \E d \in Conns : Receiving(L, e, d)
      PROVE  Undisturbed(L, e)'
  <2>1. Undisturbed(L, e) /\ Reading(flash, L, e, r)
    BY <1>4, <1>7 DEF Whole
  <2> QED
    BY <1>1, <1>3, <2>1 DEF Undisturbed
<1> QED
  BY <1>1, <1>6, <1>7, ReadersOnly

\* The model ends where a leftover upload is found.
LEMMA RecoverInv == ASSUME RoffsInv, NEW c \in Conns, Recover(c) PROVE RoffsInv'
<1>1. TypeOK' /\ NothingGarbled' /\ wild'
  BY DEF Recover, RoffsInv, TypeOK, NothingGarbled
<1> QED
  BY <1>1 DEF RoffsInv

\* Who lets go of a file.
LEMMA LetGoIs ==
  ASSUME NEW ups \in [Conns -> Uploads \cup {None}], NEW ops
  PROVE  /\ LetGo(ups, ops) \in [Conns -> Uploads \cup {None}]
         /\ \A c \in Conns : LetGo(ups, ops)[c] =
              IF ops = <<>> /\ ups[c] # None /\ ups[c].stage # "open" THEN None ELSE ups[c]
  BY DEF LetGo

\* Whose upload it is.
LEMMA ReceivingIs ==
  ASSUME RoffsInv, Idle, NEW c \in Conns, uploads[c] # None
  PROVE  \E L, e : Whole(L, e) /\ Receiving(L, e, c)
<1>1. PICK L, e : Whole(L, e) /\ (Resting(L, e) \/ \E d \in Conns : Receiving(L, e, d))
  BY IdleIs
<1>2. ~Resting(L, e)
  BY DEF Resting, NoUploads
<1>3. PICK d \in Conns : Receiving(L, e, d)
  BY <1>1, <1>2
<1>4. d = c
  BY <1>3 DEF Receiving, Has, Only
<1> QED
  BY <1>1, <1>3, <1>4

\* A handler that sets to work on a file.
LEMMA Starts ==
  ASSUME RoffsInv, Idle, NEW L, NEW e, Whole(L, e), NEW c \in Conns,
         UNCHANGED <<flash, readers, jump, wild>>,
         todo' \in Seq(Ops), todo' # <<>>, busy' = c,
         \A d \in Conns \ {c} : uploads[d] = None,
         NEW v \in Uploads, v.header = e, EndOf(v) <= Top,
         NEW ups, ups \in [Conns -> Uploads \cup {None}], ups[c] = v,
         \A d \in Conns \ {c} : ups[d] = uploads[d],
         uploads' = LetGo(ups, todo')
  PROVE  /\ uploads'[c] = v /\ Whole(L, e)' /\ Has(L, e, c)' /\ wild' = wild
         /\ Stage(L, e)' => RoffsInv'
<1>1. TypeOK /\ NothingGarbled
  BY DEF RoffsInv
<1>2. /\ uploads' \in [Conns -> Uploads \cup {None}]
      /\ \A d \in Conns : uploads'[d] = ups[d]
  BY LetGoIs
<1>3. TypeOK'
  <2>1. todo' \in Seq([at : Base..Top, cell : Cells, erase : BOOLEAN])
    BY DEF Ops
  <2> QED
    BY <1>1, <1>2, <2>1 DEF TypeOK
<1>4. NothingGarbled'
  BY <1>1 DEF NothingGarbled
<1>5. Whole(L, e)'
  BY Unwritten
<1>6. Has(L, e, c)'
  BY <1>2 DEF Has, Only
<1> QED
  BY <1>2, <1>3, <1>4, <1>5, <1>6 DEF RoffsInv

\* The upload of a connection that is gone is closed with what it has.
LEMMA CleanupInv ==
  ASSUME RoffsInv, NEW c \in Conns, Cleanup(c)
  PROVE  /\ RoffsInv' /\ \E L, e : Whole(L, e)' /\ Stage(L, e)' /\ Has(L, e, c)'
         /\ Only(c) /\ uploads[c] \in Uploads /\ uploads[c].stage = "open"
         /\ uploads'[c] = [uploads[c] EXCEPT !.stage = "whole"]
<1>1. PICK u : u = uploads[c]
  OBVIOUS
<1> DEFINE v == [u EXCEPT !.stage = "whole"]
<1>2. /\ Idle /\ u # None /\ todo' = roffs_close(u) /\ busy' = c
      /\ uploads' = LetGo([uploads EXCEPT ![c].stage = "whole"], todo')
      /\ UNCHANGED <<flash, readers, jump, wild>>
  BY <1>1 DEF Cleanup, Run
<1>3. PICK L, e : Whole(L, e) /\ Receiving(L, e, c)
  BY <1>1, <1>2, ReceivingIs
<1>4. /\ Only(c) /\ u \in Uploads /\ u.header = e /\ EndOf(u) <= Top /\ u.stage = "open"
      /\ Gone(flash, L, e, u.name) /\ Laid(flash, u, EndOf(u)) /\ Clean(flash, EndOf(u))
  BY <1>1, <1>3 DEF Receiving, Has
<1>5. /\ v \in Uploads /\ v.header = e /\ v.name = u.name /\ v.data = u.data /\ v.stage = "whole"
  BY <1>4 DEF Uploads
<1>6. uploads \in [Conns -> Uploads \cup {None}]
  BY DEF RoffsInv, TypeOK
<1> DEFINE ups == [uploads EXCEPT ![c].stage = "whole"]
<1>7. /\ ups \in [Conns -> Uploads \cup {None}] /\ ups[c] = v
      /\ \A d \in Conns \ {c} : ups[d] = uploads[d]
  <2>1. ups = [uploads EXCEPT ![c] = v]
    BY <1>1, Zenon
  <2> HIDE DEF v, ups
  <2> QED
    BY <1>5, <1>6, <2>1
<1> HIDE DEF v, ups
<1>8. Length(v) = Length(u) /\ EndOf(v) = EndOf(u) /\ ClosedBy(v) = ClosedBy(u)
  BY <1>4, <1>5 DEF Length, EndOf, ClosedBy
<1>9. \A i : Image(v, i) = Image(u, i)
  BY <1>5 DEF Image
<1>10. /\ todo' \in Seq(Ops) /\ Len(todo') = 2
       /\ todo'[1] = [at |-> u.header, cell |-> ClosedBy(u), erase |-> FALSE]
       /\ todo'[2] = [at |-> EndOf(u), cell |-> Terminator, erase |-> Boundary(EndOf(u))]
  BY <1>2, <1>4, CloseIs
<1>11. todo' # <<>>
  <2>1. Len(todo') = 2
    BY <1>10
  <2> QED
    BY <2>1
<1>12. uploads'[c] = v /\ Whole(L, e)' /\ Has(L, e, c)' /\ (Stage(L, e)' => RoffsInv')
  <2>1. \A d \in Conns \ {c} : uploads[d] = None
    BY <1>4 DEF Only
  <2>2. EndOf(v) <= Top /\ uploads' = LetGo(ups, todo')
    BY <1>2, <1>4, <1>8 DEF ups
  <2>3. /\ Idle /\ Whole(L, e) /\ UNCHANGED <<flash, readers, jump, wild>>
        /\ todo' \in Seq(Ops) /\ todo' # <<>> /\ busy' = c
    BY <1>2, <1>3, <1>10, <1>11
  <2> QED
    BY <1>5, <1>7, <2>1, <2>2, <2>3, Starts
<1>13. /\ EndOf(u) \in Nat /\ EndOf(u) \in Base..Top /\ EndOf(u) \in e .. EndOf(u) /\ e # EndOf(u)
  <2>1. /\ u.header \in Base..Top /\ EndOf(u) \in Nat /\ u.header \in Nat /\ u.header + 2 <= EndOf(u)
    BY <1>4, UploadIs
  <2> QED
    BY <1>4, <2>1, RoffsAssumption
<1>14. Plan(v, EndOf(u), todo')
  <2>1. EndOf(v) - EndOf(u) = 0
    BY <1>8, <1>13
  <2>2. Many(v, 0, todo')
    BY <1>5, <1>10 DEF Many
  <2>3. Pieces(v, EndOf(u), 0, todo')
    BY DEF Pieces
  <2>4. Closing(v, 0, todo')
    <3>1. 0 + 1 = 1 /\ 0 + 2 = 2
      OBVIOUS
    <3> QED
      BY <1>4, <1>5, <1>8, <1>10, <3>1, Zenon DEF Closing
  <2> QED
    BY <2>1, <2>2, <2>3, <2>4 DEF Plan, PlanOf
<1>15. Laid(flash', v, EndOf(u))
  BY <1>2, <1>4, <1>5, <1>9 DEF Laid
<1>16. Writing(L, e, c, EndOf(u))'
  <2>1. Gone(flash', L, e, uploads'[c].name) /\ Clean(flash', EndOf(u))
    BY <1>2, <1>4, <1>5, <1>12
  <2> QED
    BY <1>2, <1>8, <1>11, <1>12, <1>13, <1>14, <1>15, <2>1 DEF Writing
<1>17. Stage(L, e)'
  BY <1>13, <1>16 DEF Stage
<1>18. uploads'[c] = [uploads[c] EXCEPT !.stage = "whole"]
  BY <1>1, <1>12 DEF v
<1> QED
  BY <1>1, <1>4, <1>12, <1>17, <1>18

\* A further buffer goes behind the data that is there.
LEMMA WriteInv ==
  ASSUME RoffsInv, NEW c \in Conns, NEW final \in BOOLEAN, NEW data \in Bodies(final),
         Write(c, data, final)
  PROVE  /\ RoffsInv' /\ Only(c) /\ uploads[c] \in Uploads /\ uploads[c].stage = "open"
         /\ \E L, e :
              /\ Whole(L, e)' /\ Stage(L, e)'
              /\ Fits(uploads[c], data) =>
                   Has(L, e, c)' /\ uploads'[c] = Taken(uploads[c], data, final)
              /\ ~Fits(uploads[c], data) => NoUploads'
<1>1. PICK u, v : u = uploads[c] /\ v = Taken(uploads[c], data, final)
  OBVIOUS
<1>2. /\ Idle /\ u # None /\ data # <<>> /\ todo' = roffs_write(u, data, final) /\ busy' = c
      /\ uploads' = LetGo([uploads EXCEPT ![c] = v], todo')
      /\ UNCHANGED <<flash, readers, jump, wild>>
  BY <1>1 DEF Write, Run
<1>3. PICK L, e : Whole(L, e) /\ Receiving(L, e, c)
  BY <1>1, <1>2, ReceivingIs
<1>4. /\ Only(c) /\ u \in Uploads /\ u.header = e /\ EndOf(u) <= Top /\ u.stage = "open"
      /\ Gone(flash, L, e, u.name) /\ Laid(flash, u, EndOf(u)) /\ Clean(flash, EndOf(u))
  BY <1>1, <1>3 DEF Receiving, Has
<1>5. data \in Seq(Values) /\ Len(data) \in Nat
  BY BodiesAre
<1>6. uploads \in [Conns -> Uploads \cup {None}]
  BY DEF RoffsInv, TypeOK
<1>7. PICK ups : ups = [uploads EXCEPT ![c] = v]
  OBVIOUS
<1>8. /\ EndOf(u) \in Nat /\ EndOf(u) \in Base..Top /\ e + 2 <= EndOf(u) /\ e \in Nat
      /\ EndOf(u) = e + 2 + Length(u) /\ Length(u) \in Nat
  <2>1. /\ u.header \in Base..Top /\ EndOf(u) \in Nat /\ u.header \in Nat /\ u.header + 2 <= EndOf(u)
        /\ EndOf(u) = u.header + 2 + Length(u) /\ Length(u) \in Nat
    BY <1>4, UploadIs
  <2> QED
    BY <1>4, <2>1, RoffsAssumption
<1>9. CASE Fits(u, data)
  <2>1. /\ v \in Uploads /\ v.header = e /\ v.name = u.name
        /\ EndOf(v) = EndOf(u) + Len(data) /\ EndOf(v) <= Top
        /\ \A i : i \in 1 .. Length(u) + 2 => Image(v, i) = Image(u, i)
    BY <1>1, <1>4, <1>5, <1>9, TakenIs
  <2>2. /\ todo' \in Seq(Ops) /\ PlanOf(v, EndOf(u), Len(data), todo')
        /\ todo' # <<>> /\ todo'[1].erase = Boundary(EndOf(u))
    BY <1>1, <1>2, <1>4, <1>5, <1>9, BufferPlan
  <2>3. uploads'[c] = v /\ Whole(L, e)' /\ Has(L, e, c)' /\ (Stage(L, e)' => RoffsInv')
    <3>1. \A d \in Conns \ {c} : uploads[d] = None
      BY <1>4 DEF Only
    <3>2. /\ ups \in [Conns -> Uploads \cup {None}] /\ ups[c] = v
          /\ \A d \in Conns \ {c} : ups[d] = uploads[d]
      BY <1>6, <1>7, <2>1
    <3>3. uploads' = LetGo(ups, todo')
      BY <1>2, <1>7
    <3>4. /\ Idle /\ Whole(L, e) /\ UNCHANGED <<flash, readers, jump, wild>>
          /\ todo' \in Seq(Ops) /\ todo' # <<>> /\ busy' = c
      BY <1>2, <1>3, <2>2
    <3>5. v \in Uploads /\ v.header = e /\ EndOf(v) <= Top
      BY <2>1
    <3> QED
      BY <3>1, <3>2, <3>3, <3>4, <3>5, Starts
  <2>4. Len(data) # 0
    BY <1>2, <1>5, EmptySeq
  <2>5. EndOf(u) # EndOf(v) /\ EndOf(u) \in e .. EndOf(v) /\ e # EndOf(u) /\ EndOf(v) - EndOf(u) = Len(data)
    <3>1. PICK m \in Nat : m = Len(data) /\ m # 0
      BY <1>5, <2>4
    <3>2. EndOf(v) = EndOf(u) + m
      BY <2>1, <3>1
    <3>3. EndOf(u) \in Nat /\ e + 2 <= EndOf(u) /\ e \in Nat
      BY <1>8
    <3>4. EndOf(v) - EndOf(u) = m
      BY <3>1, <3>2, <3>3
    <3> QED
      BY <3>1, <3>2, <3>3, <3>4
  <2>6. Plan(v, EndOf(u), todo')
    BY <2>2, <2>5 DEF Plan
  <2>7. Laid(flash', v, EndOf(u))
    <3>1. ASSUME NEW b \in Nat, e <= b, b < EndOf(u) PROVE flash[b] = Image(v, b - e + 1)
      <4>1. b - e + 1 \in 1 .. Length(u) + 2
        BY <1>8, <3>1
      <4>2. flash[b] = Image(u, b - e + 1)
        BY <1>4, <3>1 DEF Laid
      <4> QED
        BY <2>1, <4>1, <4>2
    <3> QED
      BY <1>2, <2>1, <3>1 DEF Laid
  <2>8. Gone(flash', L, e, v.name) /\ Clean(flash', EndOf(u))
    BY <1>2, <1>4, <2>1
  <2>9. IF todo'[1].erase THEN Boundary(EndOf(u)) ELSE Fresh(flash', EndOf(u))
    BY <2>2, <2>8 DEF Clean
  <2>10. Writing(L, e, c, EndOf(u))'
    BY <1>2, <2>2, <2>3, <2>5, <2>6, <2>7, <2>8, <2>9 DEF Writing
  <2>11. Stage(L, e)'
    BY <1>8, <2>10 DEF Stage
  <2> QED
    BY <1>1, <1>4, <1>9, <2>3, <2>11
<1>10. CASE ~Fits(u, data)
  <2>1. todo' = <<>> /\ v = [u EXCEPT !.stage = "dropped"]
    BY <1>1, <1>2, <1>10 DEF roffs_write, Taken
  <2>2. v \in Uploads /\ v.stage = "dropped" /\ v # None
    BY <1>4, <2>1, CellAssumption DEF Uploads
  <2>3. /\ ups \in [Conns -> Uploads \cup {None}] /\ ups[c] = v
        /\ \A d \in Conns \ {c} : ups[d] = uploads[d]
    BY <1>6, <1>7, <2>2
  <2>4. uploads' \in [Conns -> Uploads \cup {None}] /\ \A d \in Conns : uploads'[d] = None
    <3>1. \A d \in Conns \ {c} : ups[d] = None
      BY <1>4, <2>3 DEF Only
    <3>2. uploads' = LetGo(ups, <<>>)
      BY <1>2, <1>7, <2>1
    <3> QED
      BY <2>2, <2>3, <3>1, <3>2, LetGoIs
  <2>5. TypeOK' /\ NothingGarbled'
    <3>1. <<>> \in Seq([at : Base..Top, cell : Cells, erase : BOOLEAN])
      OBVIOUS
    <3> QED
      BY <1>2, <2>1, <2>4, <3>1 DEF RoffsInv, TypeOK, NothingGarbled
  <2>6. Whole(L, e)'
    BY <1>2, <1>3, Unwritten
  <2>7. flash'[e] = NewHeader
    BY <1>2, <1>4, <1>8, LaidIs
  <2>8. Resting(L, e)'
    BY <2>1, <2>4, <2>7 DEF Resting, NoUploads, Ends
  <2>9. RoffsInv' /\ Stage(L, e)' /\ NoUploads'
    BY <2>5, <2>6, <2>8 DEF RoffsInv, Stage, Resting
  <2> QED
    BY <1>1, <1>4, <1>10, <2>6, <2>9
<1> QED
  BY <1>9, <1>10

\* A sequence of one.
LEMMA Single ==
  ASSUME NEW S, NEW s \in Seq(S), Len(s) = 1, NEW x, s[1] = x
  PROVE  s = <<x>>
<1>1. \A i \in 1..1 : s[i] = <<x>>[i]
  OBVIOUS
<1>2. x \in S
  BY ElementOfSeq
<1>3. <<x>> \in Seq(S) /\ Len(<<x>>) = 1
  BY <1>2
<1> QED
  BY <1>1, <1>3, SeqEqual

Opens(ops, a) == ops # <<>> /\ ops[1].erase = Boundary(a)

\* The header and the name go in front of the data.
LEMMA OpenPlan ==
  ASSUME NEW v \in Uploads, NEW e \in Nat, v.header = e, e + 2 <= Top,
         NEW k \in Nat, NEW ops \in Seq(Ops), PlanOf(v, e + 2, k, ops),
         k # 0 => Opens(ops, e + 2),
         NEW all, all = writeFlash(e, <<NewHeader>>) \o (writeFlash(e + 1, <<v.name>>) \o ops)
  PROVE  /\ all \in Seq(Ops) /\ PlanOf(v, e, k + 2, all) /\ Opens(all, e)
<1>0. PICK t : t = all
  OBVIOUS
<1>1. /\ v.name \in Names /\ e \in Base..Top /\ e + 1 \in Base..Top
  <2>1. v.name \in Names /\ e \in Base..Top
    BY UploadIs
  <2>2. e + 1 \in Base..Top
    BY <2>1, RoffsAssumption
  <2> QED
    BY <2>1, <2>2
<1>2. PICK x, y : /\ x = [at |-> e, cell |-> NewHeader, erase |-> Boundary(e)]
                  /\ y = [at |-> e + 1, cell |-> v.name, erase |-> Boundary(e + 1)]
  OBVIOUS
<1>3. writeFlash(e, <<NewHeader>>) = <<x>> /\ x \in Ops
  <2>1. /\ writeFlash(e, <<NewHeader>>) \in Seq(Ops) /\ Len(writeFlash(e, <<NewHeader>>)) = 1
        /\ writeFlash(e, <<NewHeader>>)[1] = x
    BY <1>1, <1>2, NotGarbled, OneCell
  <2>2. x \in Ops
    BY <2>1, ElementOfSeq
  <2> QED
    BY <2>1, <2>2, Single
<1>4. writeFlash(e + 1, <<v.name>>) = <<y>> /\ y \in Ops
  <2>1. v.name \in Cells
    BY <1>1, NotGarbled
  <2>2. /\ writeFlash(e + 1, <<v.name>>) \in Seq(Ops) /\ Len(writeFlash(e + 1, <<v.name>>)) = 1
        /\ writeFlash(e + 1, <<v.name>>)[1] = y
    BY <1>1, <1>2, <2>1, OneCell
  <2>3. y \in Ops
    BY <2>2, ElementOfSeq
  <2> QED
    BY <2>2, <2>3, Single
<1>5. PICK s : s = <<y>> \o ops
  OBVIOUS
<1>6. PICK m \in Nat : m = Len(ops)
  BY LenProperties
<1>7. /\ s \in Seq(Ops) /\ Len(s) = 1 + m
      /\ \A i \in 1 .. 1 + m : s[i] = IF i = 1 THEN y ELSE ops[i - 1]
  BY <1>4, <1>5, <1>6, InFront
<1>8. /\ t \in Seq(Ops) /\ Len(t) = 2 + m
      /\ \A i \in 1 .. 2 + m : t[i] = IF i = 1 THEN x ELSE s[i - 1]
  <2>1. t = <<x>> \o s
    BY <1>0, <1>3, <1>4, <1>5
  <2>2. /\ <<x>> \o s \in Seq(Ops) /\ Len(<<x>> \o s) = 1 + Len(s)
        /\ \A i \in 1 .. 1 + Len(s) : (<<x>> \o s)[i] = IF i = 1 THEN x ELSE s[i - 1]
    BY <1>3, <1>7, InFront
  <2>3. 1 + Len(s) = 2 + m
    BY <1>7
  <2> QED
    BY <2>1, <2>2, <2>3
<1>9. t[1] = x /\ t[2] = y /\ \A i \in 3 .. m + 2 : t[i] = ops[i - 2]
  <2>1. t[1] = x /\ t[2] = y
    BY <1>7, <1>8
  <2>2. ASSUME NEW i \in 3 .. m + 2 PROVE t[i] = ops[i - 2]
    <3>1. PICK j \in 1 .. 1 + m : j = i - 1 /\ j # 1
      BY <2>2
    <3>2. i \in 1 .. 2 + m /\ i # 1 /\ j - 1 = i - 2
      BY <2>2, <3>1
    <3>3. t[i] = s[j]
      BY <1>8, <3>1, <3>2
    <3>4. s[j] = ops[j - 1]
      BY <1>7, <3>1
    <3> QED
      BY <3>2, <3>3, <3>4
  <2> QED
    BY <2>1, <2>2
<1>10. PICK z \in Nat : z = (IF v.stage = "whole" THEN 2 ELSE 0) /\ m = k + z
  BY <1>6 DEF PlanOf, Many
<1>11. Many(v, k + 2, t)
  BY <1>8, <1>10 DEF Many
<1>12. Pieces(v, e, k + 2, t)
  <2>1. ASSUME NEW i \in 1 .. k + 2
        PROVE  /\ t[i].at = e + i - 1 /\ t[i].cell = Image(v, e - e + i)
               /\ i > 1 => t[i].erase = Boundary(e + i - 1)
    <3>1. CASE i = 1
      <4>1. e + i - 1 = e /\ e - e + i = 1
        BY <3>1
      <4>2. Image(v, 1) = NewHeader
        BY DEF Image
      <4>3. t[i] = x
        BY <1>9, <3>1
      <4>4. x.at = e /\ x.cell = NewHeader /\ ~(i > 1)
        BY <1>2, <3>1
      <4> QED
        BY <4>1, <4>2, <4>3, <4>4, Zenon
    <3>2. CASE i = 2
      <4>1. e + i - 1 = e + 1 /\ e - e + i = 2
        BY <3>2
      <4>2. Image(v, 2) = v.name
        BY DEF Image
      <4>3. t[i] = y
        BY <1>9, <3>2
      <4>4. y.at = e + 1 /\ y.cell = v.name /\ y.erase = Boundary(e + 1)
        BY <1>2
      <4> QED
        BY <4>1, <4>2, <4>3, <4>4, Zenon
    <3>3. CASE i # 1 /\ i # 2
      <4>1. PICK j \in 1..k : j = i - 2
        BY <2>1, <3>3
      <4>2. i \in 3 .. m + 2
        BY <1>10, <2>1, <3>3
      <4>3. t[i] = ops[j]
        BY <1>9, <4>1, <4>2
      <4>4. /\ ops[j].at = (e + 2) + j - 1 /\ ops[j].cell = Image(v, (e + 2) - e + j)
            /\ j > 1 => ops[j].erase = Boundary((e + 2) + j - 1)
        BY DEF PlanOf, Pieces
      <4>5. (e + 2) + j - 1 = e + i - 1 /\ (e + 2) - e + j = e - e + i
        BY <2>1, <4>1
      <4>6. ops[j].erase = Boundary((e + 2) + j - 1)
        <5>1. CASE j = 1
          <6>1. k # 0 /\ (e + 2) + j - 1 = e + 2
            BY <5>1
          <6>2. ops[1].erase = Boundary(e + 2)
            BY <6>1 DEF Opens
          <6> QED
            BY <5>1, <6>1, <6>2, Zenon
        <5>2. CASE j # 1
          <6>1. j > 1
            BY <5>2
          <6> QED
            BY <4>4, <6>1, Zenon
        <5> QED
          BY <5>1, <5>2, Zenon
      <4> QED
        BY <4>3, <4>4, <4>5, <4>6, Zenon
    <3> QED
      BY <3>1, <3>2, <3>3, Zenon
  <2> QED
    BY <2>1 DEF Pieces
<1>13. Closing(v, k + 2, t)
  <2>1. ASSUME v.stage = "whole"
        PROVE  t[(k + 2) + 1] = ops[k + 1] /\ t[(k + 2) + 2] = ops[k + 2]
    <3>1. z = 2
      BY <1>10, <2>1
    <3>2. PICK i \in 3 .. m + 2, j \in 3 .. m + 2 : i = (k + 2) + 1 /\ j = (k + 2) + 2
      BY <1>10, <3>1
    <3>3. i - 2 = k + 1 /\ j - 2 = k + 2
      BY <3>2
    <3>4. t[i] = ops[k + 1] /\ t[j] = ops[k + 2]
      BY <1>9, <3>2, <3>3
    <3> QED
      BY <3>2, <3>4
  <2>2. ASSUME v.stage = "whole"
        PROVE  /\ ops[k + 1] = [at |-> v.header, cell |-> ClosedBy(v), erase |-> FALSE]
               /\ ops[k + 2] = [at |-> EndOf(v), cell |-> Terminator, erase |-> Boundary(EndOf(v))]
    BY <2>2, Zenon DEF Closing, PlanOf
  <2> QED
    BY <2>1, <2>2, Zenon DEF Closing
<1>14. t # <<>> /\ t[1].erase = Boundary(e)
  <2>1. Len(t) # 0
    BY <1>8
  <2> QED
    BY <1>2, <1>8, <1>9, <2>1, EmptySeq
<1> QED
  BY <1>0, <1>8, <1>11, <1>12, <1>13, <1>14 DEF PlanOf, Opens

\* The first buffer of an upload: what there is to write, and what will have been written.
Opened(n, e) == [name |-> n, header |-> e, data |-> <<>>, stage |-> "open"]
Opening(n, e, data, final) ==
  writeFlash(e, <<NewHeader>>)
  \o (writeFlash(e + 1, <<n>>) \o roffs_write(Opened(n, e), data, final))

\* A first buffer is planned behind the name, at the end of the log.
LEMMA OpeningIs ==
  ASSUME NEW n \in Names, NEW e \in Base..Top, e + 2 <= Top,
         NEW final \in BOOLEAN, NEW data \in Bodies(final)
  PROVE  LET v == Taken(Opened(n, e), data, final)
             t == Opening(n, e, data, final)
         IN  /\ v \in Uploads /\ v.header = e /\ v.name = n /\ EndOf(v) <= Top
             /\ t \in Seq(Ops) /\ Plan(v, e, t) /\ Opens(t, e)
<1>20. PICK u, v, t : u = Opened(n, e) /\ v = Taken(u, data, final) /\ t = Opening(n, e, data, final)
  OBVIOUS
<1>1. e \in Nat /\ Base \in Nat /\ Top \in Nat
  BY RoffsAssumption
<1>2. u \in Uploads /\ u.header = e /\ u.name = n /\ u.data = <<>> /\ u.stage = "open"
  BY <1>20 DEF Uploads, Opened
<1>3. EndOf(u) = e + 2 /\ Length(u) = 0
  <2>1. Len(u.data) = 0
    BY <1>2
  <2> QED
    BY <1>1, <1>2, <2>1 DEF EndOf, Length
<1>4. data \in Seq(Values) /\ Len(data) \in Nat
  BY BodiesAre
<1>5. PICK rw : rw = roffs_write(u, data, final)
  OBVIOUS
<1>6. PICK k \in Nat :
        /\ v \in Uploads /\ v.header = e /\ v.name = n /\ EndOf(v) = e + 2 + k /\ EndOf(v) <= Top
        /\ rw \in Seq(Ops) /\ PlanOf(v, e + 2, k, rw) /\ (k # 0 => Opens(rw, e + 2))
  <2>1. CASE Fits(u, data)
    <3>1. PICK k \in Nat : k = Len(data)
      BY <1>4
    <3>2. /\ v \in Uploads /\ v.header = u.header /\ v.name = u.name
          /\ EndOf(v) = EndOf(u) + Len(data) /\ EndOf(v) <= Top
      BY <1>2, <1>4, <1>20, <2>1, TakenIs
    <3>3. /\ rw \in Seq(Ops) /\ PlanOf(v, EndOf(u), Len(data), rw)
          /\ data # <<>> => rw # <<>> /\ rw[1].erase = Boundary(EndOf(u))
      BY <1>2, <1>4, <1>5, <1>20, <2>1, BufferPlan
    <3>4. k # 0 => data # <<>>
      BY <1>4, <3>1, EmptySeq
    <3>5. v.header = e /\ v.name = n /\ EndOf(v) = e + 2 + k
      BY <1>2, <1>3, <3>1, <3>2
    <3>6. PlanOf(v, e + 2, k, rw) /\ (k # 0 => Opens(rw, e + 2))
      BY <1>3, <3>1, <3>3, <3>4 DEF Opens
    <3> QED
      BY <3>2, <3>3, <3>5, <3>6
  <2>2. CASE ~Fits(u, data)
    <3>1. rw = <<>> /\ v = [u EXCEPT !.stage = "dropped"]
      BY <1>5, <1>20, <2>2 DEF roffs_write, Taken
    <3>2. v \in Uploads /\ v.header = e /\ v.name = n /\ v.data = <<>> /\ v.stage = "dropped"
      BY <1>2, <3>1 DEF Uploads
    <3>3. EndOf(v) = e + 2
      <4>1. Len(v.data) = 0
        BY <3>2
      <4> QED
        BY <1>1, <3>2, <4>1 DEF EndOf, Length
    <3>4. rw \in Seq(Ops) /\ Len(rw) = 0
      BY <3>1
    <3>5. PlanOf(v, e + 2, 0, rw)
      BY <3>2, <3>4 DEF PlanOf, Many, Pieces, Closing
    <3>6. PICK k \in Nat : k = 0 /\ e + 2 = e + 2 + k
      BY <1>1
    <3>7. EndOf(v) = e + 2 + k /\ EndOf(v) <= Top /\ PlanOf(v, e + 2, k, rw) /\ (k # 0 => Opens(rw, e + 2))
      BY <3>3, <3>5, <3>6
    <3> QED
      BY <3>2, <3>4, <3>7
  <2> QED
    BY <2>1, <2>2
<1>7. PICK all : all = t
  OBVIOUS
<1>8. /\ all \in Seq(Ops) /\ PlanOf(v, e, k + 2, all) /\ Opens(all, e)
  <2>1. all = writeFlash(e, <<NewHeader>>) \o (writeFlash(e + 1, <<v.name>>) \o rw)
    BY <1>5, <1>6, <1>7, <1>20 DEF Opening
  <2>2. /\ v \in Uploads /\ e \in Nat /\ v.header = e /\ e + 2 <= Top /\ rw \in Seq(Ops)
        /\ PlanOf(v, e + 2, k, rw) /\ (k # 0 => Opens(rw, e + 2))
    BY <1>1, <1>6
  <2> QED
    BY <2>1, <2>2, OpenPlan
<1>9. EndOf(v) - e = k + 2
  BY <1>1, <1>6
<1>10. Plan(v, e, all)
  BY <1>8, <1>9 DEF Plan
<1> QED
  BY <1>6, <1>7, <1>8, <1>10, <1>20

\* An upload begins at the end of the log, after the old version is deleted.
LEMMA CreateInv ==
  ASSUME RoffsInv, NEW c \in Conns, NEW n \in Names, NEW final \in BOOLEAN, NEW data \in Bodies(final),
         Create(c, n, data, final)
  PROVE  /\ RoffsInv' /\ NoUploads
         /\ \E L, e : Whole(L, e)' /\ Stage(L, e)' /\ Has(L, e, c)'
<1>1. /\ Idle /\ uploads[c] = None /\ HasFlag(flash, LogEnd(flash), "LAST")
      /\ LogEnd(flash) + 2 <= Top /\ UNCHANGED <<flash, readers, jump, wild>>
  BY DEF Create
<1>2. PICK L, e : Whole(L, e) /\ (Resting(L, e) \/ \E d \in Conns : Receiving(L, e, d))
  BY <1>1, IdleIs
<1>3. TypeOK /\ flash \in Flashes /\ todo = <<>>
  BY <1>1, IdleIs
<1>4. AtEnd(flash, e) /\ LogEnd(flash) = e /\ e \in Nat /\ e \in Base..Top
  BY <1>2, <1>3, IdleEnds
<1>5. e \in DOMAIN flash /\ flash[e] \in Header /\ "LAST" \in flash[e].flags /\ e + 2 <= Top
  BY <1>1, <1>4 DEF HasFlag
<1>6. flash[e] # NewHeader
  <2>1. "LAST" \notin NewHeader.flags
    BY DEF NewHeader
  <2> QED
    BY <1>5, <2>1
<1>7. NoUploads /\ flash[e] = Terminator /\ Clean(flash, e + 1)
  <2>1. ASSUME NEW d \in Conns, Receiving(L, e, d) PROVE FALSE
    <3>1. /\ uploads[d] \in Uploads /\ uploads[d].header = e
          /\ Laid(flash, uploads[d], EndOf(uploads[d]))
      BY <2>1 DEF Receiving, Has
    <3>2. flash[e] = NewHeader
      BY <1>4, <3>1, LaidIs
    <3> QED
      BY <1>6, <3>2
  <2>2. Resting(L, e)
    BY <1>2, <2>1
  <2> QED
    BY <1>5, <1>6, <2>2 DEF Resting, Ends
<1>8. PICK u, v, t :
        u = Opened(n, e) /\ v = Taken(u, data, final) /\ t = Opening(n, e, data, final)
  OBVIOUS
<1>9. /\ v \in Uploads /\ v.header = e /\ v.name = n /\ EndOf(v) <= Top
      /\ t \in Seq(Ops) /\ Plan(v, e, t) /\ Opens(t, e)
  BY <1>4, <1>5, <1>8, OpeningIs
<1>10. PICK ups : ups = [uploads EXCEPT ![c] = v]
  OBVIOUS
<1>11. /\ todo' = roffs_create(flash, n) \o roffs_write(u, data, final) /\ busy' = c
       /\ uploads' = LetGo(ups, todo')
  BY <1>4, <1>8, <1>10 DEF Create, Run, Opened
<1>12. /\ ups \in [Conns -> Uploads \cup {None}] /\ ups[c] = v
       /\ \A d \in Conns \ {c} : ups[d] = uploads[d]
  BY <1>3, <1>9, <1>10 DEF TypeOK
<1>13. \A d \in Conns \ {c} : uploads[d] = None
  BY <1>7 DEF NoUploads
<1>20. t # <<>> /\ t[1].erase = Boundary(e)
  BY <1>9 DEF Opens
<1>14. ASSUME todo' \in Seq(Ops), todo' # <<>>
       PROVE  uploads'[c] = v /\ Whole(L, e)' /\ Has(L, e, c)' /\ (Stage(L, e)' => RoffsInv')
  <2>1. /\ Idle /\ Whole(L, e) /\ UNCHANGED <<flash, readers, jump, wild>> /\ busy' = c
    BY <1>1, <1>2, <1>11
  <2>2. v \in Uploads /\ v.header = e /\ EndOf(v) <= Top
    BY <1>9
  <2>3. uploads' = LetGo(ups, todo')
    BY <1>11
  <2> QED
    BY <1>12, <1>13, <1>14, <2>1, <2>2, <2>3, Starts
<1>21. PICK m \in Plain : m = Strip[n]
  BY StripPlain
<1>15. IsLog(flash, L, e) /\ Unique(flash, L, e)
  BY <1>2 DEF Whole
<1>16. PICK h, w, rw : /\ h = writeFlash(e, <<NewHeader>>) /\ w = writeFlash(e + 1, <<n>>)
                       /\ rw = roffs_write(u, data, final) /\ t = h \o (w \o rw)
  BY <1>8 DEF Opening
<1>17. h \in Seq(Ops) /\ w \in Seq(Ops) /\ rw \in Seq(Ops)
  <2>1. e + 1 \in Base..Top /\ n \in Cells
    BY <1>4, <1>5, RoffsAssumption, NotGarbled
  <2>2. h \in Seq(Ops) /\ w \in Seq(Ops)
    BY <1>4, <1>16, <2>1, OneCell, NotGarbled
  <2>3. rw \in Seq(Ops)
    <3>1. CASE Fits(u, data)
      <4>1. u \in Uploads /\ u.stage = "open"
        BY <1>4, <1>8 DEF Uploads, Opened
      <4>2. data \in Seq(Values)
        BY BodiesAre
      <4> QED
        BY <1>8, <1>16, <3>1, <4>1, <4>2, BufferPlan
    <3>2. CASE ~Fits(u, data)
      BY <1>16, <3>2 DEF roffs_write
    <3> QED
      BY <3>1, <3>2
  <2> QED
    BY <2>2, <2>3
<1>18. CASE Versions(flash, m) = {}
  <2>1. todo' = t
    <3>1. todo' = ((<<>> \o h) \o w) \o rw
      BY <1>4, <1>11, <1>16, <1>18, <1>21 DEF roffs_create
    <3>2. <<>> \o h = h
      BY <1>17, ConcatEmptySeq
    <3>3. (h \o w) \o rw = h \o (w \o rw)
      BY <1>17, ConcatAssociative
    <3> QED
      BY <1>16, <3>1, <3>2, <3>3
  <2>2. uploads'[c] = v /\ Has(L, e, c)' /\ (Stage(L, e)' => RoffsInv')
    BY <1>9, <1>14, <1>20, <2>1
  <2>3. Gone(flash', L, e, v.name)
    <3>1. Gone(flash, L, e, m) /\ Strip[m] = m
      BY <1>3, <1>4, <1>15, <1>18, VersionIs DEF Plain
    <3>2. Gone(flash, L, e, n)
      BY <1>21, <3>1 DEF Gone
    <3> QED
      BY <1>1, <1>9, <3>2
  <2>4. Laid(flash', v, e)
    BY <1>4, <1>9 DEF Laid
  <2>5. e \in e .. EndOf(v) /\ e # EndOf(v)
    BY <1>4, <1>9, UploadIs
  <2>6. IF todo'[1].erase THEN Boundary(e) ELSE Fresh(flash', e) \/ (e = e /\ flash'[e] = Terminator)
    BY <1>1, <1>7, <1>20, <2>1
  <2>7. Writing(L, e, c, e)'
    BY <1>1, <1>7, <1>9, <1>11, <1>20, <2>1, <2>2, <2>3, <2>4, <2>5, <2>6 DEF Writing
  <2>8. Stage(L, e)' /\ Whole(L, e)'
    BY <1>4, <1>9, <1>14, <1>20, <2>1, <2>7 DEF Stage
  <2> QED
    BY <1>7, <2>2, <2>8
<1>19. CASE Versions(flash, m) # {}
  <2>1. PICK p \in L \ {e} : /\ Shows(flash, p, m) /\ Versions(flash, m) = {p}
                             /\ Max(Versions(flash, m)) = p
    BY <1>3, <1>4, <1>15, <1>19, VersionIs
  <2>2. PICK op : op = [at |-> p, cell |-> [flash[p] EXCEPT !.flags = {}], erase |-> FALSE]
    OBVIOUS
  <2>3. p \in Base..Top /\ flash[p] \in Closed /\ flash[p].flags = {"ACTIVE"}
    BY <1>3, <1>15, <2>1, InLog DEF Shows
  <2>4. updateFlash(p, [flash[p] EXCEPT !.flags = @ \ {"ACTIVE"}]) = <<op>>
    BY <2>2, <2>3, Clearing DEF updateFlash
  <2>5. op \in Ops
    <3>1. [flash[p] EXCEPT !.flags = {}] \in Closed
      BY <2>3 DEF Closed
    <3> QED
      BY <2>2, <2>3, <3>1, NotGarbled DEF Ops
  <2>6. todo' = <<op>> \o t
    <3>1. todo' = ((<<op>> \o h) \o w) \o rw
      BY <1>4, <1>11, <1>16, <1>19, <1>21, <2>1, <2>4 DEF roffs_create
    <3>2. <<op>> \in Seq(Ops)
      BY <2>5
    <3>3. PICK s : s = <<op>>
      OBVIOUS
    <3>4. (s \o h) \o w = s \o (h \o w)
      BY <1>17, <3>2, <3>3, ConcatAssociative
    <3>5. h \o w \in Seq(Ops)
      BY <1>17, ConcatProperties
    <3>6. (s \o (h \o w)) \o rw = s \o ((h \o w) \o rw)
      BY <1>17, <3>2, <3>3, <3>5, ConcatAssociative
    <3>7. (h \o w) \o rw = h \o (w \o rw)
      BY <1>17, ConcatAssociative
    <3> QED
      BY <1>16, <3>1, <3>3, <3>4, <3>6, <3>7
  <2>7. /\ todo' \in Seq(Ops) /\ todo' # <<>> /\ todo'[1] = op /\ Tail(todo') = t
    <3>1. /\ todo' \in Seq(Ops) /\ Len(todo') = 1 + Len(t)
          /\ \A i \in 1 .. 1 + Len(t) : todo'[i] = IF i = 1 THEN op ELSE t[i - 1]
      BY <1>9, <2>5, <2>6, InFront
    <3>2. PICK k \in Nat : k = Len(t)
      BY <1>9, LenProperties
    <3>3. todo' # <<>> /\ todo'[1] = op
      BY <3>1, <3>2, EmptySeq
    <3>4. PICK r : r = Tail(todo')
      OBVIOUS
    <3>5. /\ r \in Seq(Ops) /\ Len(r) = Len(todo') - 1
          /\ \A i \in 1 .. Len(r) : r[i] = todo'[i + 1]
      BY <3>1, <3>3, <3>4, HeadTailProperties
    <3>6. Len(r) = k
      BY <3>1, <3>2, <3>5
    <3>7. ASSUME NEW i \in 1..k PROVE r[i] = t[i]
      <4>1. PICK j \in 1 .. 1 + k : j = i + 1 /\ j # 1 /\ j - 1 = i
        OBVIOUS
      <4>2. todo'[j] = t[j - 1]
        BY <3>1, <3>2, <4>1
      <4>3. r[i] = todo'[j]
        BY <3>5, <3>6, <4>1
      <4> QED
        BY <4>1, <4>2, <4>3
    <3>8. r = t
      BY <1>9, <3>2, <3>5, <3>6, <3>7, SeqEqual
    <3> QED
      BY <3>1, <3>3, <3>4, <3>8
  <2>8. uploads'[c] = v /\ Has(L, e, c)' /\ (Stage(L, e)' => RoffsInv')
    BY <1>14, <2>7
  <2>9. /\ Shows(flash', p, Strip[uploads'[c].name])
        /\ todo'[1] = [at |-> p, cell |-> [flash'[p] EXCEPT !.flags = {}], erase |-> FALSE]
    BY <1>1, <1>9, <1>21, <2>1, <2>2, <2>7, <2>8
  <2>10. Plan(uploads'[c], e, Tail(todo')) /\ Tail(todo')[1].erase = Boundary(e)
    BY <1>9, <1>20, <2>7, <2>8
  <2>11. flash'[e] = Terminator /\ Clean(flash', e + 1)
    BY <1>1, <1>7
  <2>12. Retiring(L, e, c)'
    BY <1>11, <2>1, <2>7, <2>8, <2>9, <2>10, <2>11 DEF Retiring
  <2>13. Stage(L, e)' /\ Whole(L, e)'
    BY <1>14, <2>7, <2>12 DEF Stage
  <2> QED
    BY <1>7, <2>8, <2>13
<1> QED
  BY <1>18, <1>19

-----------------------------------------------------------------------------
(* The invariant holds. *)

\* The first format makes the log.
LEMMA InitInv == ASSUME Init PROVE RoffsInv
<1>1. /\ flash = [a \in Base..Top |-> Stale] /\ todo = roffs_format /\ busy = None
      /\ uploads = [c \in Conns |-> None] /\ readers = [c \in Conns |-> None]
      /\ jump = None /\ wild = FALSE
  BY DEF Init
<1>2. /\ Base \in Nat /\ Top \in Nat /\ Base \in Base..Top
      /\ Stale \in Cells /\ Stale # Garbled /\ Stale \notin Header
  BY RoffsAssumption, CellAssumption DEF Cells
<1>3. TypeOK
  <2>1. todo \in Seq([at : Base..Top, cell : Cells, erase : BOOLEAN])
    BY <1>1, FormatIs DEF Ops
  <2> QED
    BY <1>1, <1>2, <2>1 DEF TypeOK
<1>4. NothingGarbled
  BY <1>1, <1>2 DEF NothingGarbled
<1>5. IsLog(flash, {Base}, Base)
  BY <1>2 DEF IsLog
<1>6. Unique(flash, {Base}, Base)
  BY DEF Unique
<1>7. Undisturbed({Base}, Base)
  BY <1>1 DEF Undisturbed
<1>8. Ends({Base}, Base)
  BY <1>1, <1>2 DEF Ends
<1>9. \E b \in BOOLEAN : /\ todo = <<[at |-> Base, cell |-> Terminator, erase |-> b]>>
                         /\ ~b => Fresh(flash, Base)
  BY <1>1, FormatIs
<1>10. Formatting({Base}, Base)
  BY <1>1, <1>8, <1>9 DEF Formatting, NoUploads
<1> QED
  BY <1>3, <1>4, <1>5, <1>6, <1>7, <1>10 DEF RoffsInv, Whole, Stage

\* Every step keeps the invariant.
LEMMA NextInv == ASSUME RoffsInv, [Next]_vars PROVE RoffsInv'
<1>1. CASE UNCHANGED vars
  <2>1. UNCHANGED <<flash, todo, busy, uploads, readers, jump, wild>>
    BY <1>1 DEF vars
  <2>2. TypeOK' /\ NothingGarbled'
    BY <2>1 DEF RoffsInv, TypeOK, NothingGarbled
  <2>3. ASSUME NEW L, NEW e, Whole(L, e) PROVE Whole(L, e)'
    BY <2>1, <2>3 DEF Whole, Undisturbed
  <2>4. ASSUME NEW L, NEW e, Ends(L, e) PROVE Ends(L, e)'
    BY <2>1, <2>4 DEF Ends
  <2>5. ASSUME NEW L, NEW e, Resting(L, e) PROVE Resting(L, e)'
    BY <2>1, <2>4, <2>5 DEF Resting, NoUploads
  <2>6. ASSUME NEW L, NEW e, Formatting(L, e) PROVE Formatting(L, e)'
    BY <2>1, <2>4, <2>6 DEF Formatting, NoUploads
  <2>7. ASSUME NEW L, NEW e, NEW c \in Conns, Has(L, e, c) PROVE Has(L, e, c)'
    BY <2>1, <2>7 DEF Has, Only
  <2>8. ASSUME NEW L, NEW e, NEW c \in Conns, Receiving(L, e, c) PROVE Receiving(L, e, c)'
    BY <2>1, <2>7, <2>8 DEF Receiving
  <2>9. ASSUME NEW L, NEW e, NEW c \in Conns, Retiring(L, e, c) PROVE Retiring(L, e, c)'
    BY <2>1, <2>7, <2>9 DEF Retiring
  <2>10. ASSUME NEW L, NEW e, NEW c \in Conns, Ending(L, e, c) PROVE Ending(L, e, c)'
    BY <2>1, <2>10 DEF Ending, Only
  <2>11. ASSUME NEW L, NEW e, NEW c \in Conns, NEW a, Writing(L, e, c, a) PROVE Writing(L, e, c, a)'
    BY <2>1, <2>7, <2>11 DEF Writing
  <2>12. ASSUME NEW L, NEW e, Stage(L, e) PROVE Stage(L, e)'
    BY <2>5, <2>6, <2>8, <2>9, <2>10, <2>11, <2>12 DEF Stage
  <2> QED
    BY <2>1, <2>2, <2>3, <2>12 DEF RoffsInv
<1>2. ASSUME NEW c \in Conns, NEW final \in BOOLEAN, NEW data \in Bodies(final),
             Write(c, data, final) \/ \E n \in Names : Create(c, n, data, final)
      PROVE  RoffsInv'
  BY <1>2, CreateInv, WriteInv
<1>3. ASSUME NEW c \in Conns, Recover(c) \/ Cleanup(c) \/ Read(c) \/ Release(c) PROVE RoffsInv'
  BY <1>3, RecoverInv, CleanupInv, ReadInv, ReleaseInv
<1>4. ASSUME NEW c \in Conns, NEW n \in Names, Download(c, n) PROVE RoffsInv'
  BY <1>4, DownloadInv
<1>5. CASE Format \/ Erase \/ Program \/ FlashError \/ Reset
  BY <1>5, FormatInv, EraseInv, ProgramInv, FlashErrorInv, ResetInv
<1> QED
  BY <1>1, <1>2, <1>3, <1>4, <1>5 DEF Next

\* The invariant holds of every behaviour: after any flash operation, error or
\* reset the log is a chain of complete files with distinct names, and what is behind
\* its end is what the handler at work has written, or fresh.
THEOREM RoffsSound == Spec => []RoffsInv
<1>1. Init => RoffsInv
  BY InitInv
<1>2. RoffsInv /\ [Next]_vars => RoffsInv'
  BY NextInv
<1> QED
  BY <1>1, <1>2, PTL DEF Spec

\* writeFlash and updateFlash never write a cell over: a handler meets only cells
\* that were erased, and clears only bits of headers.
THEOREM NeverGarbled == Spec => []NothingGarbled
<1>1. RoffsInv => NothingGarbled
  BY DEF RoffsInv
<1> QED
  BY <1>1, RoffsSound, PTL

\* A download reads to its end what was there when it began, whatever handlers run
\* between its buffers (cgiRoffsHook, roffs_read).
THEOREM DownloadsUndisturbed == Spec => []ReadersUndisturbed
<1>1. RoffsInv => ReadersUndisturbed
  <2>1. ASSUME RoffsInv, ~wild, NEW c \in Conns, readers[c] # None,
               NEW i \in readers[c].offset + 1 .. readers[c].size
        PROVE  flash[readers[c].start + i - 1] = readers[c].version[i]
    <3>1. PICK r : r = readers[c]
      OBVIOUS
    <3>2. PICK L, e : Whole(L, e)
      BY <2>1 DEF RoffsInv
    <3>3. Reading(flash, L, e, r)
      BY <2>1, <3>1, <3>2 DEF Whole, Undisturbed
    <3>4. PICK p \in L \ {e} :
            /\ r.start = p + 2 /\ r.size = flash[p].fileLen
            /\ \A j \in 1..r.size : flash[p + 1 + j] = r.version[j]
      BY <3>3 DEF Reading
    <3>5. r \in Downloads
      BY <2>1, <3>1 DEF RoffsInv, TypeOK
    <3>6. r.offset \in Nat /\ r.size \in Nat /\ i \in Int /\ p \in Nat
      BY <2>1, <3>1, <3>2, <3>5, LogEnds, RoffsAssumption DEF Downloads
    <3>7. i \in 1..r.size /\ r.start + i - 1 = p + 1 + i
      BY <2>1, <3>1, <3>4, <3>6
    <3> QED
      BY <3>1, <3>4, <3>7
  <2> QED
    BY <2>1 DEF ReadersUndisturbed
<1> QED
  BY <1>1, RoffsSound, PTL

-----------------------------------------------------------------------------
(* The listing. *)

\* How many of the numbers in A are below p.
Below(A, p) == {q \in A : q < p}
Rank(A, p) == Cardinality(Below(A, p))

\* Numbers are told apart by how many are below them.
LEMMA RankIs ==
  ASSUME NEW A, A \subseteq Base..Top, NEW p \in A
  PROVE  /\ Cardinality(A) \in Nat /\ Rank(A, p) \in 0 .. Cardinality(A)
         /\ \A q \in A : Rank(A, q) = Rank(A, p) => q = p
<1>1. Base \in Nat /\ Top \in Nat /\ A \subseteq Nat
  BY RoffsAssumption
<1>2. IsFiniteSet(A)
  <2>1. IsFiniteSet(Base..Top)
    BY <1>1, FS_Interval
  <2> QED
    BY <2>1, FS_Subset
<1>3. ASSUME NEW q \in A
      PROVE  IsFiniteSet(Below(A, q)) /\ Rank(A, q) \in Nat /\ Rank(A, q) <= Cardinality(A)
  <2>1. Below(A, q) \in SUBSET A
    BY DEF Below
  <2>2. IsFiniteSet(Below(A, q)) /\ Cardinality(Below(A, q)) <= Cardinality(A)
    BY <1>2, <2>1, FS_Subset
  <2> QED
    BY <2>2, FS_CardinalityType DEF Rank
<1>4. Cardinality(A) \in Nat
  BY <1>2, FS_CardinalityType
<1>5. ASSUME NEW x \in A, NEW y \in A, x < y PROVE Rank(A, x) < Rank(A, y)
  <2>1. Below(A, x) \cup {x} \in SUBSET Below(A, y) /\ x \notin Below(A, x)
    <3>1. x \in Nat /\ y \in Nat /\ ~(x < x)
      BY <1>1
    <3>2. ASSUME NEW q \in A, q < x PROVE q < y
      <4>1. q \in Nat
        BY <1>1
      <4> QED
        BY <1>5, <3>1, <3>2, <4>1
    <3>3. \A q \in Below(A, x) \cup {x} : q \in Below(A, y)
      BY <1>5, <3>2 DEF Below
    <3>4. x \notin Below(A, x)
      BY <3>1 DEF Below
    <3> QED
      BY <3>3, <3>4
  <2>2. /\ IsFiniteSet(Below(A, x) \cup {x})
        /\ Cardinality(Below(A, x) \cup {x}) = Rank(A, x) + 1
    BY <1>3, <2>1, FS_AddElement DEF Rank
  <2>3. Cardinality(Below(A, x) \cup {x}) <= Rank(A, y)
    BY <1>3, <2>1, FS_Subset DEF Rank
  <2> QED
    BY <1>3, <2>2, <2>3
<1>6. ASSUME NEW q \in A, Rank(A, q) = Rank(A, p) PROVE q = p
  <2>1. ~(q < p) /\ ~(p < q)
    BY <1>3, <1>5, <1>6
  <2> QED
    BY <1>1, <2>1
<1> QED
  BY <1>3, <1>4, <1>6

\* FINFO, asked for the file that comes behind so many others, tells of it.
LEMMA ListedIs ==
  ASSUME NEW f, Active(f) \subseteq Base..Top, NEW i \in Nat
  PROVE  /\ \A p : p \in Listed(f, i) <=> p \in Active(f) /\ Rank(Active(f), p) = i
         /\ \A p \in Listed(f, i) : Listed(f, i) = {p}
<1>1. PICK A : A = Active(f)
  OBVIOUS
<1>2. Listed(f, i) = {p \in A : Cardinality({q \in A : q < p}) = i}
  BY <1>1 DEF Listed
<1>3. \A p : p \in Listed(f, i) <=> p \in A /\ Rank(A, p) = i
  BY <1>2 DEF Rank, Below
<1>4. ASSUME NEW p \in Listed(f, i), NEW q \in Listed(f, i) PROVE q = p
  <2>1. p \in A /\ q \in A /\ Rank(A, q) = Rank(A, p)
    BY <1>3, <1>4
  <2> QED
    BY <1>1, <2>1, RankIs
<1> QED
  BY <1>1, <1>3, <1>4

\* FINFO tells of the file that is listed there, or of none.
LEMMA InfoIs ==
  ASSUME NEW f, Active(f) \subseteq Base..Top, NEW i \in Nat,
         \A p \in Active(f) : f[p + 1] \in Names /\ f[p].fileLen \in Nat
  PROVE  /\ roffs_fileinfo(f, i) = None <=> Listed(f, i) = {}
         /\ \A p \in Listed(f, i) : roffs_fileinfo(f, i) = [name |-> f[p + 1], size |-> f[p].fileLen]
<1>1. ASSUME NEW p \in Listed(f, i)
      PROVE  /\ roffs_fileinfo(f, i) = [name |-> f[p + 1], size |-> f[p].fileLen]
             /\ roffs_fileinfo(f, i) # None
  <2>1. Listed(f, i) = {p} /\ p \in Active(f)
    BY ListedIs
  <2>2. (CHOOSE q \in Listed(f, i) : TRUE) = p
    BY <2>1
  <2>3. roffs_fileinfo(f, i) = [name |-> f[p + 1], size |-> f[p].fileLen]
    BY <2>1, <2>2 DEF roffs_fileinfo
  <2>4. [name |-> f[p + 1], size |-> f[p].fileLen] \in [name : Names, size : Nat]
    BY <2>1
  <2> QED
    BY <2>3, <2>4, CellAssumption
<1>2. Listed(f, i) = {} => roffs_fileinfo(f, i) = None
  BY DEF roffs_fileinfo
<1> QED
  BY <1>1, <1>2

\* What find_file_and_insertion_point and roffs_open find of a file.
LEMMA FileIs ==
  ASSUME NEW f \in Flashes, NEW L, NEW e, IsLog(f, L, e), AtEnd(f, e), Unique(f, L, e),
         NEW n \in Plain
  PROVE  /\ File(f, n) = None <=> Versions(f, n) = {}
         /\ \A p \in Versions(f, n) :
              /\ Versions(f, n) = {p} /\ f[p].fileLen \in Nat
              /\ Len(File(f, n)) = f[p].fileLen
<1>1. ASSUME NEW p \in Versions(f, n)
      PROVE  /\ Versions(f, n) = {p} /\ f[p].fileLen \in Nat
             /\ Len(File(f, n)) = f[p].fileLen /\ File(f, n) # None
  <2>1. Versions(f, n) = {p} /\ Min(Versions(f, n)) = p /\ p \in L \ {e}
    <3>1. PICK q \in L \ {e} : Versions(f, n) = {q} /\ Min(Versions(f, n)) = q
      BY <1>1, VersionIs
    <3> QED
      BY <1>1, <3>1
  <2>2. /\ f[p].fileLen \in 0..Top /\ f[p] \in Closed /\ p >= 1 /\ p \in Base..Top
        /\ \A i \in 1..f[p].fileLen : f[p + 1 + i] \in Values
    BY <2>1, InLog
  <2>3. f[p].nameLen = 1
    BY <2>2 DEF Closed
  <2>4. PICK k \in Nat : k = f[p].fileLen
    BY <2>2
  <2>5. File(f, n) = [i \in 1..k |-> f[p + 1 + i]]
    BY <2>1, <2>3, <2>4 DEF File, Content
  <2>6. File(f, n) \in Seq(Values) /\ Len(File(f, n)) = k
    <3>1. \A i \in 1..k : f[p + 1 + i] \in Values
      BY <2>2, <2>4
    <3>2. [i \in 1..k |-> f[p + 1 + i]] \in Seq(Values)
      BY <3>1, IsASeq
    <3> QED
      BY <2>5, <3>2, LenProperties
  <2> QED
    BY <2>1, <2>4, <2>6, CellAssumption
<1>2. Versions(f, n) = {} => File(f, n) = None
  BY DEF File
<1> QED
  BY <1>1, <1>2

\* The listing shows each file once, with its size, and counts them.
LEMMA ListingIs ==
  ASSUME NEW f \in Flashes, NEW L, NEW e, IsLog(f, L, e), AtEnd(f, e), Unique(f, L, e)
  PROVE  ListingIsTrue(f)
<1> DEFINE A == Active(f)
           N == Cardinality(A)
           info == [i \in 0..N |-> roffs_fileinfo(f, i)]
           with(n) == {i \in DOMAIN info : info[i] # None /\ info[i].name = n}
           told == {i \in DOMAIN info : info[i] # None}
<1>1. ASSUME NEW p \in A
      PROVE  /\ p \in L \ {e} /\ p \in Base..Top /\ f[p].flags = {"ACTIVE"}
             /\ f[p + 1] \in Names /\ f[p].fileLen \in Nat /\ p \in Versions(f, f[p + 1])
  <2>1. p \in L \ {e} /\ f[p].flags = {"ACTIVE"}
    BY ActiveIs
  <2>2. p \in Base..Top /\ f[p + 1] \in Names /\ f[p].fileLen \in 0..Top
    BY <2>1, InLog
  <2>3. f[p].fileLen \in Nat
    BY <2>2, RoffsAssumption
  <2> QED
    BY <2>1, <2>2, <2>3 DEF Versions
<1>2. A \subseteq Base..Top
  BY <1>1
<1>3. IsFiniteSet(A) /\ N \in Nat
  <2>1. IsFiniteSet(Base..Top)
    BY RoffsAssumption, FS_Interval
  <2> QED
    BY <1>2, <2>1, FS_Subset, FS_CardinalityType
<1>4. \A n \in Plain : Files(f)[n] = File(f, n)
  BY DEF Files
<1>5. ASSUME NEW i \in 0..N
      PROVE  /\ info[i] = None <=> Listed(f, i) = {}
             /\ \A p \in Listed(f, i) : info[i] = [name |-> f[p + 1], size |-> f[p].fileLen]
  <2>1. info[i] = roffs_fileinfo(f, i) /\ i \in Nat
    OBVIOUS
  <2>2. \A p \in Active(f) : f[p + 1] \in Names /\ f[p].fileLen \in Nat
    BY <1>1
  <2>3. Active(f) \subseteq Base..Top
    BY <1>2
  <2> QED
    BY <2>1, <2>2, <2>3, InfoIs
<1>6. ASSUME NEW n \in Plain, NEW i
      PROVE  i \in with(n) <=> i \in 0..N /\ \E p \in Versions(f, n) : Rank(A, p) = i
  <2>1. i \in with(n) <=> i \in 0..N /\ info[i] # None /\ info[i].name = n
    OBVIOUS
  <2>2. ASSUME NEW p PROVE p \in Versions(f, n) <=> p \in A /\ f[p + 1] = n
    BY DEF Versions
  <2>3. i \in 0..N => \A p : p \in Listed(f, i) <=> p \in A /\ Rank(A, p) = i
    BY <1>2, ListedIs
  <2>4. ASSUME i \in 0..N PROVE (info[i] # None /\ info[i].name = n) <=> \E p \in Listed(f, i) : f[p + 1] = n
    <3>1. ASSUME NEW p \in Listed(f, i) PROVE info[i] # None /\ info[i].name = f[p + 1]
      BY <1>5, <2>4, <3>1
    <3>2. ASSUME info[i] # None PROVE \E p \in Listed(f, i) : TRUE
      BY <1>5, <2>4, <3>2
    <3>3. ASSUME NEW p \in Listed(f, i), NEW q \in Listed(f, i) PROVE q = p
      BY <1>2, <2>4, <3>3, ListedIs
    <3> QED
      BY <3>1, <3>2, <3>3
  <2> HIDE DEF with, info
  <2> QED
    BY <2>1, <2>2, <2>3, <2>4
<1>7. ASSUME NEW n \in Plain
      PROVE  IF Files(f)[n] = None THEN with(n) = {}
             ELSE \E i \in with(n) : with(n) = {i} /\ info[i].size = Len(Files(f)[n])
  <2>1. CASE Files(f)[n] = None
    <3>1. Versions(f, n) = {}
      BY <1>4, <2>1, FileIs
    <3> HIDE DEF with
    <3> QED
      BY <1>6, <2>1, <3>1
  <2>2. CASE Files(f)[n] # None
    <3>1. PICK p : p \in Versions(f, n)
      BY <1>4, <2>2, FileIs
    <3>2. Versions(f, n) = {p} /\ Len(Files(f)[n]) = f[p].fileLen
      BY <1>4, <3>1, FileIs
    <3>3. p \in A
      BY <3>1 DEF Versions
    <3>4. PICK i : i = Rank(A, p)
      OBVIOUS
    <3>5. i \in 0..N
      BY <1>2, <3>3, <3>4, RankIs
    <3>6. with(n) = {i}
      <4> HIDE DEF with
      <4> QED
        BY <1>6, <3>2, <3>4, <3>5
    <3>7. p \in Listed(f, i)
      BY <1>2, <3>3, <3>4, <3>5, ListedIs
    <3>8. info[i].size = f[p].fileLen
      BY <1>5, <3>5, <3>7
    <3> HIDE DEF with, info
    <3> QED
      BY <2>2, <3>2, <3>6, <3>8
  <2> QED
    BY <2>1, <2>2
<1>8. N = Cardinality(told)
  <2> DEFINE g == [p \in A |-> Rank(A, p)]
  <2>1. ASSUME NEW p \in A PROVE g[p] \in told /\ g[p] = Rank(A, p)
    <3>1. PICK i : i = Rank(A, p)
      OBVIOUS
    <3>2. i \in 0..N
      BY <1>2, <3>1, RankIs
    <3>3. p \in Listed(f, i)
      BY <1>2, <3>1, <3>2, ListedIs
    <3>4. info[i] # None
      BY <1>5, <3>2, <3>3
    <3>5. i \in told
      BY <3>2, <3>4
    <3> QED
      BY <3>1, <3>5
  <2>2. ASSUME NEW p \in A, NEW q \in A, g[p] = g[q] PROVE p = q
    BY <1>2, <2>1, <2>2, RankIs
  <2>3. ASSUME NEW i \in told PROVE \E p \in A : g[p] = i
    <3>1. i \in 0..N /\ info[i] # None
      OBVIOUS
    <3>2. PICK p : p \in Listed(f, i)
      BY <1>5, <3>1
    <3>3. p \in A /\ Rank(A, p) = i
      BY <1>2, <3>1, <3>2, ListedIs
    <3> QED
      BY <2>1, <3>3
  <2>4. g \in [A -> told]
    BY <2>1
  <2> HIDE DEF g, told, A
  <2>5. g \in Bijection(A, told)
    BY <2>2, <2>3, <2>4 DEF Bijection, Injection, Surjection, IsInjective
  <2>6. ExistsBijection(A, told)
    BY <2>5 DEF ExistsBijection
  <2> QED
    BY <1>3, <2>6, FS_Bijection
<1>9. roffs_filecount(f) \in {None, N}
  BY DEF roffs_filecount
<1> QED
  BY <1>7, <1>8, <1>9 DEF ListingIsTrue

\* Between handlers the log is what the invariant says.
LEMMA Sound == RoffsInv => LogIsSound
<1>1. RoffsInv => TypeOK
  BY DEF RoffsInv
<1>2. ASSUME RoffsInv, Idle
      PROVE  /\ \/ LogEnd(flash) = Base
                \/ HasFlag(flash, LogEnd(flash), "LAST")
                \/ HasFlag(flash, LogEnd(flash), "PENDING")
             /\ \A c \in Conns : uploads[c] # None => uploads[c].header = LogEnd(flash)
             /\ ListingIsTrue(flash)
  <2>1. PICK L, e : Whole(L, e) /\ (Resting(L, e) \/ \E c \in Conns : Receiving(L, e, c))
    BY <1>2, IdleIs
  <2>2. /\ AtEnd(flash, e) /\ LogEnd(flash) = e /\ flash \in Flashes /\ e \in Base..Top
        /\ e \in Nat /\ e \in DOMAIN flash
    <3>1. TypeOK
      BY <1>2 DEF RoffsInv
    <3>2. /\ AtEnd(flash, e) /\ LogEnd(flash) = e /\ flash \in Flashes
          /\ e \in Nat /\ e \in Base..Top
      BY <2>1, <3>1, IdleEnds
    <3> QED
      BY <3>2 DEF Flashes
  <2>3. e = Base \/ HasFlag(flash, e, "LAST") \/ HasFlag(flash, e, "PENDING")
    <3>1. "LAST" \in Terminator.flags /\ "PENDING" \in NewHeader.flags
      BY DEF Terminator, NewHeader, Flags
    <3>2. flash[e] = Terminator => HasFlag(flash, e, "LAST")
      BY <2>2, <3>1, NotHeader DEF HasFlag
    <3>3. flash[e] = NewHeader => HasFlag(flash, e, "PENDING")
      BY <2>2, <3>1, NotHeader DEF HasFlag
    <3>4. CASE Resting(L, e)
      BY <3>2, <3>3, <3>4 DEF Resting, Ends
    <3>5. ASSUME NEW c \in Conns, Receiving(L, e, c) PROVE flash[e] = NewHeader
      <4>1. /\ uploads[c] \in Uploads /\ uploads[c].header = e
            /\ Laid(flash, uploads[c], EndOf(uploads[c]))
        BY <3>5 DEF Receiving, Has
      <4> QED
        BY <2>2, <4>1, LaidIs
    <3> QED
      BY <2>1, <3>3, <3>4, <3>5
  <2>4. ASSUME NEW c \in Conns, uploads[c] # None PROVE uploads[c].header = e
    <3>1. ~Resting(L, e)
      BY <2>4 DEF Resting, NoUploads
    <3>2. PICK d \in Conns : Receiving(L, e, d)
      BY <2>1, <3>1
    <3> QED
      BY <2>4, <3>2 DEF Receiving, Has, Only
  <2>5. IsLog(flash, L, e) /\ Unique(flash, L, e)
    BY <2>1 DEF Whole
  <2>6. ListingIsTrue(flash)
    BY <2>2, <2>5, ListingIs
  <2> QED
    BY <2>2, <2>3, <2>4, <2>6
<1> QED
  BY <1>1, <1>2 DEF LogIsSound

\* Between handlers the log has an end the next handler finds, an open upload lies
\* there, and the listing shows the files one can open, each once and with its size, besides
\* uploads whose names begin with a '/' (find_file_and_insertion_point, roffs_open,
\* fs_do_fcount, fs_do_finfo).
THEOREM LogSound == Spec => []LogIsSound
  BY Sound, RoffsSound, PTL

-----------------------------------------------------------------------------
(* The files one sees. *)

\* The flash without what is being written behind a file that is complete.
Sight ==
  IF Endless
    THEN [a \in DOMAIN flash |-> IF \E i \in NextHeader : a = todo[i].at THEN Erased ELSE flash[a]]
    ELSE flash

\* Where the new end of the log is still to come, it is seen as erased.
LEMMA Unseen ==
  ASSUME flash \in Flashes, NEW L, NEW e, Whole(L, e), Endless, NextHeader = {1}, todo[1].at = e
  PROVE  /\ Sight \in Flashes /\ AtEnd(Sight, e)
         /\ \A a \in Base .. e - 1 : Sight[a] = flash[a]
         /\ flash[e] = Erased => Sight = flash
<1>1. e \in Base..Top /\ Base \in Nat /\ Top \in Nat
  BY LogEnds
<1>2. DOMAIN flash = Base..Top /\ \A a \in Base..Top : flash[a] \in Cells
  BY DEF Flashes
<1>3. PICK g : g = [a \in Base..Top |-> IF a = e THEN Erased ELSE flash[a]]
  OBVIOUS
<1>4. Sight = g
  <2>1. \A a : (\E i \in NextHeader : a = todo[i].at) <=> a = e
    OBVIOUS
  <2> QED
    BY <1>2, <1>3, <2>1 DEF Sight
<1>5. g \in Flashes
  <2>1. Erased \in Cells
    BY DEF Cells
  <2> QED
    BY <1>2, <1>3, <2>1 DEF Flashes
<1>6. g[e] = Erased /\ \A a \in Base .. e - 1 : g[a] = flash[a]
  <2>1. \A a \in Base .. e - 1 : a \in Base..Top /\ a # e
    BY <1>1
  <2> QED
    BY <1>1, <1>3, <2>1
<1>7. AtEnd(g, e)
  BY <1>6, NotHeader DEF AtEnd
<1>8. flash[e] = Erased => g = flash
  <2>1. ASSUME flash[e] = Erased PROVE g = flash
    <3>1. \A a \in Base..Top : g[a] = flash[a]
      BY <1>3, <2>1
    <3>2. g = [a \in Base..Top |-> flash[a]] /\ flash = [a \in Base..Top |-> flash[a]]
      BY <1>3, <3>1 DEF Flashes
    <3> QED
      BY <3>2
  <2> QED
    BY <2>1, Zenon
<1> QED
  BY <1>4, <1>5, <1>6, <1>7, <1>8

\* In a handler that writes a file only its first operation can be without an end.
LEMMA EndlessWriting ==
  ASSUME RoffsInv, NEW L, NEW e, Whole(L, e), NEW c \in Conns, NEW a, Writing(L, e, c, a), Endless
  PROVE  NextHeader = {1} /\ todo[1].at = e /\ flash[e] = Erased
<1>0. TypeOK
  BY DEF RoffsInv
<1>1. PICK u : u = uploads[c]
  OBVIOUS
<1>2. /\ todo # <<>> /\ u \in Uploads /\ u.header = e /\ EndOf(u) \in Nat /\ e + 2 <= EndOf(u)
      /\ a \in e .. EndOf(u) /\ Plan(u, a, todo) /\ Laid(flash, u, a)
      /\ a = e => flash[e] = Erased \/ (flash[e] = Terminator /\ Clean(flash, e + 1))
      /\ EndOf(u) = e + 2 + Length(u) /\ Length(u) \in Nat /\ EndOf(u) <= Top
  BY <1>1, WritingIs
<1>3. e \in Base..Top /\ Base \in Nat /\ Top \in Nat /\ e \in Nat /\ a \in Nat
  BY <1>2, LogEnds
<1>4. CASE a = e
  <2>1. a # EndOf(u)
    BY <1>2, <1>3, <1>4
  <2>2. todo[1].at = e /\ todo[1].cell = NewHeader
    BY <1>1, <1>4, <2>1, NextCell
  <2>3. NextHeader = {1}
    BY <1>0, <1>2, <2>2, HeaderNext, NotHeader
  <2>4. flash[e] = Erased
    BY <2>2, <2>3, NotHeader DEF Endless
  <2> QED
    BY <2>2, <2>3, <2>4
<1>5. CASE a # e
  <2>1. flash[e] = NewHeader
    <3>1. u.header <= e /\ e < a /\ e - u.header + 1 = 1
      BY <1>2, <1>3, <1>5
    <3>2. flash[e] = Image(u, e - u.header + 1)
      BY <1>2, <1>3, <3>1 DEF Laid
    <3> QED
      BY <3>1, <3>2 DEF Image
  <2>2. PICK n \in Nat : n = EndOf(u) - a
    BY <1>2, <1>3
  <2>3. /\ Len(todo) = n + (IF u.stage = "whole" THEN 2 ELSE 0)
        /\ \A i \in 1..n : todo[i].cell = Image(u, a - u.header + i)
        /\ u.stage = "whole" => todo[n + 1] = [at |-> u.header, cell |-> ClosedBy(u), erase |-> FALSE]
    BY <1>2, <2>2 DEF Plan, PlanOf, Many, Pieces, Closing
  <2>4. ASSUME NEW i \in 1..n PROVE todo[i].cell \notin Header
    <3>1. /\ a - u.header + i \in Nat /\ a - u.header + i # 1
          /\ a - u.header + i # 2 => a - u.header + i \in 3 .. Length(u) + 2
      BY <1>2, <1>3, <1>5, <2>2
    <3>2. PICK j \in Nat : j = a - u.header + i /\ todo[i].cell = Image(u, j) /\ j # 1
                           /\ (j # 2 => j \in 3 .. Length(u) + 2)
      BY <2>3, <3>1
    <3>3. Image(u, j) \in Names \cup Values
      <4>1. u.name \in Names /\ \A k \in 3 .. Length(u) + 2 : u.data[k - 2] \in Values
        BY <1>2, UploadIs
      <4> QED
        BY <3>2, <4>1 DEF Image
    <3> QED
      BY <3>2, <3>3, CellAssumption
  <2>5. PICK i \in NextHeader :
          flash[todo[i].at] = Erased \/ (todo[i].cell = Terminator /\ todo[i].at # Base)
    BY DEF Endless
  <2>6. /\ i \in 1..Len(todo) /\ todo[i].cell \in Header
        /\ \A j \in 1 .. i - 1 : todo[j].cell \notin Header
    <3>1. DOMAIN todo = 1..Len(todo)
      BY <1>0, <1>2, OpsTyped, LenProperties
    <3> QED
      BY <3>1 DEF NextHeader
  <2>7. i \notin 1..n
    BY <2>4, <2>6
  <2>8. u.stage = "whole" /\ i > n /\ i \in Nat
    BY <2>2, <2>3, <2>6, <2>7
  <2>9. todo[n + 1].at = e /\ todo[n + 1].cell = ClosedBy(u)
    BY <1>2, <2>3, <2>8
  <2>10. ClosedBy(u) \in Header /\ ClosedBy(u) # Terminator
    <3>1. ClosedBy(u) \in Closed
      <4>1. Length(u) \in 0..Top
        BY <1>2, <1>3
      <4> QED
        BY <4>1 DEF ClosedBy, Closed
    <3>2. \A h \in Closed : h \in Header /\ h # Terminator
      BY DEF Closed, Header, Flags, Terminator
    <3> QED
      BY <3>1, <3>2
  <2>11. i = n + 1
    <3>1. ASSUME i # n + 1 PROVE FALSE
      <4>1. n + 1 \in 1 .. i - 1
        BY <2>2, <2>8, <3>1
      <4> QED
        BY <2>6, <2>9, <2>10, <4>1
    <3> QED
      BY <3>1
  <2> QED
    BY <2>1, <2>5, <2>9, <2>10, <2>11, NotHeader
<1> QED
  BY <1>4, <1>5

\* What one sees is the log of the invariant, and a log that ends.
LEMMA SightIs ==
  ASSUME RoffsInv, NEW L, NEW e, Whole(L, e), Stage(L, e)
  PROVE  /\ Sight \in Flashes /\ IsLog(Sight, L, e) /\ Unique(Sight, L, e) /\ AtEnd(Sight, e)
         /\ \A a \in Base .. e - 1 : Sight[a] = flash[a]
         /\ (\A c \in Conns : ~Ending(L, e, c)) => Sight = flash
<1>1. TypeOK /\ flash \in Flashes /\ IsLog(flash, L, e) /\ Unique(flash, L, e)
  BY LogEnds DEF RoffsInv, TypeOK, Flashes
<1>2. /\ e \in Base..Top /\ Base \in Nat /\ Top \in Nat /\ Base \in L /\ e \in L
      /\ L \subseteq Base..e
  BY LogEnds
<1>3. /\ Sight \in Flashes /\ AtEnd(Sight, e) /\ \A a \in Base .. e - 1 : Sight[a] = flash[a]
      /\ (\A c \in Conns : ~Ending(L, e, c)) => Sight = flash
  <2>1. CASE ~Endless
    <3>1. Sight = flash
      BY <2>1 DEF Sight
    <3>2. Ends(L, e)
      BY <2>1, StillEnds
    <3>3. flash[e] \in {Terminator, NewHeader} \/ flash[e] \notin Header
      BY <3>2 DEF Ends
    <3> QED
      BY <1>1, <3>1, <3>3, AtTheEnd
  <2>2. CASE Endless
    <3>1. todo # <<>>
      BY <2>2 DEF Endless, NextHeader
    <3>2. ~Resting(L, e) /\ \A c \in Conns : ~Receiving(L, e, c)
      BY <3>1 DEF Resting, Receiving
    <3>3. CASE Formatting(L, e)
      <4>1. todo[1].at = Base /\ todo[1].cell = Terminator
        BY <3>3 DEF Formatting
      <4>2. NextHeader = {1}
        BY <1>1, <3>1, <4>1, HeaderNext, NotHeader
      <4>3. flash[Base] = Erased
        BY <2>2, <4>1, <4>2 DEF Endless
      <4>4. e = Base
        <5>1. ASSUME e # Base PROVE FALSE
          <6>1. flash[Base] \in Closed /\ Base \in Base..Top
            BY <1>1, <1>2, <5>1, InLog
          <6> QED
            BY <1>1, <4>3, <6>1, ClosedIs, NotHeader
        <5> QED
          BY <5>1
      <4> QED
        BY <1>1, <2>2, <4>1, <4>2, <4>3, <4>4, Unseen
    <3>4. ASSUME NEW c \in Conns, Retiring(L, e, c) PROVE FALSE
      <4>1. PICK p \in L \ {e} :
              todo[1] = [at |-> p, cell |-> [flash[p] EXCEPT !.flags = {}], erase |-> FALSE]
        BY <3>4 DEF Retiring
      <4>2. flash[p] \in Closed /\ p \in Base..Top
        BY <1>1, InLog
      <4>3. [flash[p] EXCEPT !.flags = {}] \in Header /\ [flash[p] EXCEPT !.flags = {}] # Terminator
        <5>1. [flash[p] EXCEPT !.flags = {}] \in Closed
          BY <4>2 DEF Closed
        <5>2. \A h \in Closed : h \in Header /\ h # Terminator
          BY DEF Closed, Header, Flags, Terminator
        <5> QED
          BY <5>1, <5>2
      <4>4. /\ todo[1].at = p /\ todo[1].cell = [flash[p] EXCEPT !.flags = {}]
        BY <4>1
      <4>5. NextHeader = {1}
        BY <1>1, <3>1, <4>3, <4>4, HeaderNext
      <4>6. flash[p] = Erased
        BY <2>2, <4>3, <4>4, <4>5 DEF Endless
      <4> QED
        BY <1>1, <4>2, <4>6, ClosedIs, NotHeader
    <3>5. ASSUME NEW c \in Conns, Ending(L, e, c)
          PROVE  /\ Sight \in Flashes /\ AtEnd(Sight, e)
                 /\ \A a \in Base .. e - 1 : Sight[a] = flash[a]
      <4>1. todo[1].at = e /\ todo[1].cell = Terminator
        BY <3>5 DEF Ending
      <4>2. NextHeader = {1}
        BY <1>1, <3>1, <4>1, HeaderNext, NotHeader
      <4> QED
        BY <1>1, <2>2, <4>1, <4>2, Unseen
    <3>6. ASSUME NEW c \in Conns, NEW a, Writing(L, e, c, a)
          PROVE  /\ Sight \in Flashes /\ AtEnd(Sight, e)
                 /\ \A b \in Base .. e - 1 : Sight[b] = flash[b]
                 /\ Sight = flash
      <4>1. NextHeader = {1} /\ todo[1].at = e /\ flash[e] = Erased
        BY <2>2, <3>6, EndlessWriting
      <4> QED
        BY <1>1, <2>2, <4>1, Unseen
    <3>7. CASE \E c \in Conns : Ending(L, e, c)
      BY <3>5, <3>7
    <3>8. CASE \A c \in Conns : ~Ending(L, e, c)
      BY <3>2, <3>3, <3>4, <3>6, <3>8 DEF Stage
    <3> QED
      BY <3>7, <3>8
  <2> QED
    BY <2>1, <2>2
<1>4. IsLog(Sight, L, e) /\ Unique(Sight, L, e)
  BY <1>1, <1>3, LogSame
<1> QED
  BY <1>3, <1>4

\* What a name stands for.
LEMMA OneFile ==
  ASSUME NEW f \in Flashes, NEW L, NEW e, IsLog(f, L, e), AtEnd(f, e), Unique(f, L, e),
         NEW n \in Plain
  PROVE  /\ Gone(f, L, e, n) => File(f, n) = None
         /\ \A p \in L \ {e} : Shows(f, p, n) =>
              File(f, n) = [i \in 1 .. f[p].fileLen |-> f[p + 1 + i]]
<1>1. Gone(f, L, e, n) => File(f, n) = None
  BY VersionIs DEF File
<1>2. ASSUME NEW p \in L \ {e}, Shows(f, p, n)
      PROVE  File(f, n) = [i \in 1 .. f[p].fileLen |-> f[p + 1 + i]]
  <2>1. p \in Versions(f, n)
    BY <1>2, ActiveIs
  <2>2. PICK q \in L \ {e} : Versions(f, n) = {q} /\ Min(Versions(f, n)) = q
    BY <2>1, VersionIs
  <2>3. q = p /\ Versions(f, n) # {}
    BY <2>1, <2>2
  <2>4. f[p] \in Closed
    BY InLog
  <2>5. f[p].nameLen = 1
    BY <2>4 DEF Closed
  <2> QED
    BY <2>2, <2>3, <2>5 DEF File, Content
<1> QED
  BY <1>1, <1>2

\* The files are what is in front of the end.
LEMMA SameFiles ==
  ASSUME NEW f \in Flashes, NEW g \in Flashes, NEW L, NEW e, IsLog(f, L, e), Unique(f, L, e),
         AtEnd(f, e), AtEnd(g, e), \A a \in Base .. e - 1 : g[a] = f[a]
  PROVE  Files(g) = Files(f)
<1>1. /\ IsLog(g, L, e) /\ Unique(g, L, e)
      /\ \A n : Gone(f, L, e, n) => Gone(g, L, e, n)
  BY LogSame
<1>2. ASSUME NEW n \in Plain PROVE File(g, n) = File(f, n)
  <2>1. CASE Gone(f, L, e, n)
    BY <1>1, <2>1, OneFile
  <2>2. CASE ~Gone(f, L, e, n)
    <3>1. PICK p \in L \ {e} : Shows(f, p, n)
      BY <2>2 DEF Gone, Plain
    <3>2. /\ p \in Base..Top /\ p >= 1 /\ f[p].fileLen \in 0..Top /\ e \in Base..Top
          /\ p + 2 + f[p].fileLen <= e /\ Base \in Nat /\ Top \in Nat
      BY InLog, RoffsAssumption DEF IsLog
    <3>3. g[p] = f[p] /\ g[p + 1] = f[p + 1]
      <4>1. p \in Base .. e - 1 /\ p + 1 \in Base .. e - 1
        BY <3>2
      <4> QED
        BY <4>1
    <3>4. \A i \in 1 .. f[p].fileLen : g[p + 1 + i] = f[p + 1 + i]
      <4>1. \A i \in 1 .. f[p].fileLen : p + 1 + i \in Base .. e - 1
        BY <3>2
      <4> QED
        BY <4>1
    <3>5. Shows(g, p, n)
      BY <3>1, <3>3 DEF Shows
    <3>6. File(f, n) = [i \in 1 .. f[p].fileLen |-> f[p + 1 + i]]
      BY <3>1, OneFile
    <3>7. File(g, n) = [i \in 1 .. g[p].fileLen |-> g[p + 1 + i]]
      BY <1>1, <3>5, OneFile
    <3> QED
      BY <3>3, <3>4, <3>6, <3>7
  <2> QED
    BY <2>1, <2>2
<1> QED
  BY <1>2 DEF Files

\* The files of the log of the invariant.
LEMMA FilesAre ==
  ASSUME RoffsInv, NEW L, NEW e, Whole(L, e), Stage(L, e), NEW n \in Plain
  PROVE  /\ Visible = Files(Sight)
         /\ Gone(flash, L, e, n) => Visible[n] = None
<1>1. Visible = Files(Sight)
  BY DEF Visible, Sight
<1>2. /\ Sight \in Flashes /\ IsLog(Sight, L, e) /\ Unique(Sight, L, e) /\ AtEnd(Sight, e)
      /\ \A a \in Base .. e - 1 : Sight[a] = flash[a]
  BY SightIs
<1>3. ASSUME Gone(flash, L, e, n) PROVE Visible[n] = None
  <2>1. flash \in Flashes /\ IsLog(flash, L, e)
    BY LogEnds DEF RoffsInv, TypeOK, Flashes
  <2>2. Gone(Sight, L, e, n)
    BY <1>2, <1>3, <2>1, LogSame
  <2>3. File(Sight, n) = None
    BY <1>2, <2>2, OneFile
  <2> QED
    BY <1>1, <2>3 DEF Files
<1> QED
  BY <1>1, <1>3

\* The log without the version that was deleted.
LEMMA FilesRetired ==
  ASSUME NEW f \in Flashes, NEW L, NEW e, IsLog(f, L, e), Unique(f, L, e), AtEnd(f, e),
         NEW p \in L \ {e}, NEW n \in Plain, Shows(f, p, n),
         NEW g \in Flashes, g[p] = [f[p] EXCEPT !.flags = {}],
         \A a \in Base .. e - 1 : a # p => g[a] = f[a],
         IsLog(g, L, e), Unique(g, L, e), Gone(g, L, e, n), AtEnd(g, e)
  PROVE  Files(g) = [Files(f) EXCEPT ![n] = None]
<1>0. /\ p \in Base..Top /\ p >= 1 /\ f[p] \in Closed /\ e \in Base..Top
      /\ Base \in Nat /\ Top \in Nat
  BY InLog, RoffsAssumption DEF IsLog
<1>1. g[p].flags = {}
  BY <1>0 DEF Closed
<1>2. ASSUME NEW m \in Plain, m # n PROVE File(g, m) = File(f, m)
  <2>1. ASSUME NEW q \in L \ {e}, q # p
        PROVE  /\ g[q] = f[q] /\ g[q + 1] = f[q + 1]
               /\ \A i \in 1 .. f[q].fileLen : g[q + 1 + i] = f[q + 1 + i]
    <3>1. /\ q \in Base..Top /\ q >= 1 /\ f[q].fileLen \in 0..Top
          /\ q + 2 + f[q].fileLen <= e /\ (p <= q \/ p >= q + 2 + f[q].fileLen)
      BY InLog
    <3>2. q \in Base .. e - 1 /\ q + 1 \in Base .. e - 1 /\ q + 1 # p
      BY <1>0, <2>1, <3>1
    <3>3. \A i \in 1 .. f[q].fileLen : q + 1 + i \in Base .. e - 1 /\ q + 1 + i # p
      BY <1>0, <2>1, <3>1
    <3> QED
      BY <2>1, <3>2, <3>3
  <2>2. CASE Gone(f, L, e, m)
    <3>1. ASSUME NEW q \in L \ {e}, Shows(g, q, m) PROVE FALSE
      <4>1. q # p
        BY <1>1, <3>1 DEF Shows
      <4>2. Shows(f, q, m)
        BY <2>1, <3>1, <4>1 DEF Shows
      <4> QED
        BY <2>2, <4>2 DEF Gone, Plain
    <3>2. Gone(g, L, e, m)
      BY <3>1 DEF Gone, Plain
    <3> QED
      BY <2>2, <3>2, OneFile
  <2>3. CASE ~Gone(f, L, e, m)
    <3>1. PICK q \in L \ {e} : Shows(f, q, m)
      BY <2>3 DEF Gone, Plain
    <3>2. q # p
      BY <1>2, <3>1 DEF Shows
    <3>3. Shows(g, q, m) /\ g[q] = f[q]
      BY <2>1, <3>1, <3>2 DEF Shows
    <3>4. File(f, m) = [i \in 1 .. f[q].fileLen |-> f[q + 1 + i]]
      BY <3>1, OneFile
    <3>5. File(g, m) = [i \in 1 .. g[q].fileLen |-> g[q + 1 + i]]
      BY <3>3, OneFile
    <3> QED
      BY <2>1, <3>2, <3>3, <3>4, <3>5
  <2> QED
    BY <2>2, <2>3
<1>3. File(g, n) = None
  BY OneFile
<1> QED
  BY <1>2, <1>3 DEF Files

\* The log with the file that was closed.
LEMMA FilesPublished ==
  ASSUME NEW f \in Flashes, NEW L, NEW e, IsLog(f, L, e), Unique(f, L, e), AtEnd(f, e),
         NEW u \in Uploads, Gone(f, L, e, u.name),
         NEW g \in Flashes, NEW n, n > e, n \notin L,
         IsLog(g, L \cup {n}, n), Unique(g, L \cup {n}, n), AtEnd(g, n),
         \A a \in Base .. e - 1 : g[a] = f[a],
         g[e] = ClosedBy(u), g[e + 1] = u.name,
         \A i \in 1..Length(u) : g[e + 1 + i] = u.data[i]
  PROVE  /\ u.name \in Plain => Files(g) = [Files(f) EXCEPT ![u.name] = u.data]
         /\ u.name \notin Plain => Files(g) = Files(f)
<1>0. /\ e \in Base..Top /\ Base \in Nat /\ Top \in Nat /\ L \subseteq Base..e /\ e \in L
  BY RoffsAssumption DEF IsLog
<1>1. (L \cup {n}) \ {n} = L
  OBVIOUS
<1>2. u.name \in Names /\ u.data \in Seq(Values) /\ Length(u) = Len(u.data) /\ Length(u) \in Nat
  BY UploadIs
<1>3. g[e].flags = {"ACTIVE"} /\ g[e].fileLen = Length(u)
  BY DEF ClosedBy
<1>4. IsLog(g, L, e)
  BY LogSame
<1>5. ASSUME NEW m \in Plain, m # u.name PROVE File(g, m) = File(f, m)
  <2>1. ASSUME NEW q \in L \ {e}
        PROVE  /\ g[q] = f[q] /\ g[q + 1] = f[q + 1]
               /\ \A i \in 1 .. f[q].fileLen : g[q + 1 + i] = f[q + 1 + i]
    <3>1. /\ q \in Base..Top /\ q >= 1 /\ f[q].fileLen \in 0..Top
          /\ q + 2 + f[q].fileLen <= e
      BY InLog
    <3>2. q \in Base .. e - 1 /\ q + 1 \in Base .. e - 1
      BY <1>0, <3>1
    <3>3. \A i \in 1 .. f[q].fileLen : q + 1 + i \in Base .. e - 1
      BY <1>0, <3>1
    <3> QED
      BY <3>2, <3>3
  <2>2. CASE Gone(f, L, e, m)
    <3>1. ASSUME NEW q \in L, Shows(g, q, m) PROVE FALSE
      <4>1. q # e
        BY <1>5, <3>1 DEF Shows
      <4>2. Shows(f, q, m)
        BY <2>1, <3>1, <4>1 DEF Shows
      <4> QED
        BY <2>2, <4>1, <4>2 DEF Gone, Plain
    <3>2. Gone(g, L \cup {n}, n, m)
      BY <1>1, <3>1 DEF Gone, Plain
    <3> QED
      BY <2>2, <3>2, OneFile
  <2>3. CASE ~Gone(f, L, e, m)
    <3>1. PICK q \in L \ {e} : Shows(f, q, m)
      BY <2>3 DEF Gone, Plain
    <3>2. Shows(g, q, m) /\ g[q] = f[q] /\ q \in (L \cup {n}) \ {n}
      BY <1>1, <2>1, <3>1 DEF Shows
    <3>3. File(f, m) = [i \in 1 .. f[q].fileLen |-> f[q + 1 + i]]
      BY <3>1, OneFile
    <3>4. File(g, m) = [i \in 1 .. g[q].fileLen |-> g[q + 1 + i]]
      BY <3>2, OneFile
    <3> QED
      BY <2>1, <3>1, <3>2, <3>3, <3>4
  <2> QED
    BY <2>2, <2>3
<1>6. ASSUME u.name \in Plain PROVE File(g, u.name) = u.data
  <2>1. Shows(g, e, u.name) /\ e \in (L \cup {n}) \ {n}
    BY <1>0, <1>1, <1>3 DEF Shows
  <2>2. File(g, u.name) = [i \in 1 .. g[e].fileLen |-> g[e + 1 + i]]
    <3>1. PICK m, M : m = u.name /\ M = L \cup {n}
      OBVIOUS
    <3>2. /\ m \in Plain /\ IsLog(g, M, n) /\ Unique(g, M, n)
          /\ Shows(g, e, m) /\ e \in M \ {n}
      BY <1>6, <2>1, <3>1
    <3>3. File(g, m) = [i \in 1 .. g[e].fileLen |-> g[e + 1 + i]]
      BY <3>2, OneFile
    <3> QED
      BY <3>1, <3>3
  <2>3. File(g, u.name) = [i \in 1 .. Len(u.data) |-> u.data[i]]
    BY <1>2, <1>3, <2>2
  <2> QED
    BY <1>2, <2>3, LenProperties
<1>7. ASSUME u.name \notin Plain PROVE \A m \in Plain : m # u.name
  BY <1>7
<1> QED
  BY <1>5, <1>6, <1>7 DEF Files

-----------------------------------------------------------------------------
(* The file store. *)

\* What the flash shows is what the invariant says.
Shown(L, e) ==
  /\ Visible = Files(Sight) /\ Sight \in Flashes /\ AtEnd(Sight, e)
  /\ IsLog(Sight, L, e) /\ Unique(Sight, L, e)
  /\ \A a \in Base .. e - 1 : Sight[a] = flash[a]
  /\ (\A c \in Conns : ~Ending(L, e, c)) => Sight = flash

AllShown == \A L, e : Whole(L, e) /\ Stage(L, e) => Shown(L, e)

\* What is seen of the flash is a log without the end that is still to be written.
LEMMA Seen == RoffsInv => AllShown
<1>1. ASSUME RoffsInv, NEW L, NEW e, Whole(L, e), Stage(L, e) PROVE Shown(L, e)
  BY <1>1, SightIs DEF Shown, Visible, Sight
<1> QED
  BY <1>1 DEF AllShown

\* So it is after a step.
LEMMA SeenNext == RoffsInv' => AllShown'
  BY Seen, PTL

\* Who writes the end of the log has a file in front of it.
EndsApart ==
  \A L, e : \A c \in Conns : Has(L, e, c) \/ NoUploads => \A d \in Conns : ~Ending(L, e, d)

\* An upload that is going on is not one whose end is still to be written.
LEMMA Apart == EndsApart
<1>1. ASSUME NEW L, NEW e, NEW c \in Conns, Has(L, e, c) \/ NoUploads,
             NEW d \in Conns, Ending(L, e, d)
      PROVE  FALSE
  <2>1. uploads[d] \in Uploads /\ uploads[d].header \in L \ {e} /\ Only(d)
    BY <1>1 DEF Ending
  <2>2. uploads[d] # None
    BY <2>1, CellAssumption
  <2>3. Has(L, e, c)
    BY <1>1, <2>2 DEF NoUploads
  <2>4. d = c
    BY <2>2, <2>3 DEF Has, Only
  <2> QED
    BY <2>1, <2>3, <2>4 DEF Has
<1> QED
  BY <1>1 DEF EndsApart

\* So it is after a step.
LEMMA ApartNext == EndsApart'
  BY Apart, PTL

\* A handler that begins changes no file.
LEMMA NothingWritten ==
  ASSUME RoffsInv, RoffsInv', ~wild, flash' = flash, Sight = flash,
         NEW L, NEW e, Whole(L, e)', Stage(L, e)', \A d \in Conns : ~Ending(L, e, d)'
  PROVE  Visible' = Visible
<1>1. AllShown'
  BY SeenNext
<1>2. Shown(L, e)'
  BY <1>1 DEF AllShown
<1>3. Visible' = Files(Sight') /\ Sight' = flash'
  BY <1>2 DEF Shown
<1>4. Visible = Files(Sight)
  BY DEF Visible, Sight
<1> QED
  BY <1>3, <1>4

\* Between handlers nothing is still to be written.
LEMMA IdleSight == Idle => Sight = flash /\ ~Endless
<1>1. ASSUME Idle PROVE NextHeader = {}
  BY <1>1 DEF Idle, NextHeader
<1> QED
  BY <1>1 DEF Endless, Sight

\* What the file store is told of uploads.
LEMMA DraftsAre ==
  ASSUME TypeOK, NEW c \in Conns
  PROVE  /\ uploads[c] = None => Drafts[c] = None
         /\ uploads[c] # None => /\ Drafts[c] # None
                                 /\ Drafts[c].name = uploads[c].name
                                 /\ Drafts[c].data = uploads[c].data
                                 /\ Drafts[c].whole = (uploads[c].stage = "whole")
                                 /\ uploads[c] \in Uploads
<1>1. uploads[c] # None => uploads[c] \in Uploads
  BY DEF TypeOK
<1>2. ASSUME uploads[c] # None
      PROVE  Drafts[c] \in [name : Names, data : Seq(Values), whole : BOOLEAN]
  <2>1. uploads[c].name \in Names /\ uploads[c].data \in Seq(Values)
    BY <1>1, <1>2, UploadIs
  <2>2. (uploads[c].stage = "whole") \in BOOLEAN
    OBVIOUS
  <2> QED
    BY <1>2, <2>1, <2>2 DEF Drafts
<1>3. uploads[c] # None => Drafts[c] # None
  BY <1>2, CellAssumption
<1> QED
  BY <1>1, <1>3 DEF Drafts

\* What a connection brings after a step.
LEMMA DraftsNext ==
  ASSUME TypeOK', NEW c \in Conns
  PROVE  /\ uploads'[c] = None => Drafts'[c] = None
         /\ uploads'[c] # None => /\ Drafts'[c] # None
                                  /\ Drafts'[c].name = uploads'[c].name
                                  /\ Drafts'[c].data = uploads'[c].data
                                  /\ Drafts'[c].whole = (uploads'[c].stage = "whole")
                                  /\ uploads'[c] \in Uploads
<1>1. uploads'[c] # None => uploads'[c] \in Uploads
  BY DEF TypeOK
<1>2. ASSUME uploads'[c] # None
      PROVE  Drafts'[c] \in [name : Names, data : Seq(Values), whole : BOOLEAN]
  <2>1. uploads'[c].name \in Names /\ uploads'[c].data \in Seq(Values)
    BY <1>1, <1>2, UploadIs
  <2>2. (uploads'[c].stage = "whole") \in BOOLEAN
    OBVIOUS
  <2> QED
    BY <1>2, <2>1, <2>2 DEF Drafts
<1>3. uploads'[c] # None => Drafts'[c] # None
  BY <1>2, CellAssumption
<1> QED
  BY <1>1, <1>3 DEF Drafts

\* Uploads may end.
LEMMA Forgets ==
  ASSUME ~wild, ~wild', wild \in BOOLEAN, wild' \in BOOLEAN, Visible' = Visible,
         \A c \in Conns : uploads'[c] \in {uploads[c], None}
  PROVE  Store!Next
<1>1. \A c \in Conns : Drafts'[c] \in {Drafts[c], None}
  BY DEF Drafts
<1>2. wild' = wild
  OBVIOUS
<1> QED
  BY <1>1, <1>2 DEF Store!Next, Store!Forget

\* An upload may begin, or go on.
LEMMA Goes ==
  ASSUME TypeOK, TypeOK', ~wild, ~wild', Visible' = Visible, NEW c \in Conns,
         uploads'[c] # None, \A d \in Conns \ {c} : uploads'[d] = uploads[d],
         uploads[c] # None => /\ uploads[c].stage # "whole" /\ uploads'[c].name = uploads[c].name
                              /\ IsPrefix(uploads[c].data, uploads'[c].data)
  PROVE  Store!Next
<1>1. /\ Drafts'[c] # None /\ Drafts'[c].name = uploads'[c].name /\ Drafts'[c].data = uploads'[c].data
      /\ uploads'[c].name \in Names /\ uploads'[c].data \in Seq(Values)
  BY DraftsNext, UploadIs
<1>2. ASSUME Drafts[c] # None
      PROVE  /\ ~Drafts[c].whole /\ Drafts'[c].name = Drafts[c].name
             /\ IsPrefix(Drafts[c].data, Drafts'[c].data)
  <2>1. uploads[c] # None
    BY <1>2, DraftsAre
  <2>2. Drafts[c].name = uploads[c].name /\ Drafts[c].data = uploads[c].data
    BY <2>1, DraftsAre
  <2>3. ~Drafts[c].whole
    BY <2>1, DraftsAre
  <2>4. uploads'[c].name = uploads[c].name /\ IsPrefix(uploads[c].data, uploads'[c].data)
    BY <2>1
  <2> QED
    BY <1>1, <2>2, <2>3, <2>4, Zenon
<1>3. \A d \in Conns \ {c} : Drafts'[d] = Drafts[d]
  BY DEF Drafts
<1>4. wild' = wild
  BY DEF TypeOK
<1>5. \A s, t : Store!IsPrefix(s, t) <=> IsPrefix(s, t)
  BY DEF Store!IsPrefix, IsPrefix
<1>6. Store!Upload(c)
  BY <1>1, <1>2, <1>3, <1>4, <1>5, Zenon DEF Store!Upload
<1> QED
  BY <1>6 DEF Store!Next

\* A buffer extends the data of its upload.
LEMMA Extends ==
  ASSUME NEW s \in Seq(Values), NEW t \in Seq(Values)
  PROVE  IsPrefix(s, s) /\ IsPrefix(s, s \o t)
<1>1. PICK x : x = s \o t
  OBVIOUS
<1>2. /\ x \in Seq(Values) /\ Len(x) = Len(s) + Len(t) /\ Len(s) \in Nat /\ Len(t) \in Nat
  BY <1>1, ConcatProperties, LenProperties
<1>3. SubSeq(s, 1, Len(s)) = s
  BY SubSeqFull
<1>4. IsPrefix(s, s)
  BY <1>2 DEF IsPrefix
<1>5. SubSeq(x, 1, Len(s)) = SubSeq(s, 1, Len(s))
  <2>1. CASE Len(s) = 0
    <3>1. SubSeq(x, 1, 0) = <<>> /\ SubSeq(s, 1, 0) = <<>>
      BY SubSeqEmpty
    <3> QED
      BY <2>1, <3>1
  <2>2. CASE Len(s) # 0
    <3>1. 1 \in 1 .. Len(s) /\ Len(s) \in 1 .. Len(s)
      BY <1>2, <2>2
    <3> QED
      BY <1>1, <3>1, SubSeqOfConcat1
  <2> QED
    BY <2>1, <2>2
<1>6. IsPrefix(s, x)
  BY <1>2, <1>5 DEF IsPrefix
<1> QED
  BY <1>1, <1>4, <1>6

\* The first buffer of an upload is a draft.
LEMMA CreateStep ==
  ASSUME RoffsInv, NEW c \in Conns, NEW n \in Names, NEW final \in BOOLEAN, NEW data \in Bodies(final),
         Create(c, n, data, final)
  PROVE  Store!Next
<1>1. Idle /\ uploads[c] = None /\ flash' = flash /\ wild' = wild /\ ~wild
  BY DEF Create, Idle
<1>2. RoffsInv' /\ NoUploads
  BY CreateInv
<1>3. PICK L, e : Whole(L, e)' /\ Stage(L, e)' /\ Has(L, e, c)'
  BY CreateInv
<1>4. \A d \in Conns : ~Ending(L, e, d)'
  BY <1>3, ApartNext DEF EndsApart
<1>5. Visible' = Visible
  BY <1>1, <1>2, <1>3, <1>4, IdleSight, NothingWritten
<1>6. uploads'[c] # None
  BY <1>3, CellAssumption DEF Has
<1>7. \A d \in Conns \ {c} : uploads'[d] = uploads[d]
  BY <1>2, <1>3 DEF NoUploads, Has, Only
<1>8. TypeOK /\ TypeOK'
  BY <1>2 DEF RoffsInv
<1> QED
  BY <1>1, <1>5, <1>6, <1>7, <1>8, Goes

\* A further buffer goes behind the draft.
LEMMA WriteStep ==
  ASSUME RoffsInv, NEW c \in Conns, NEW final \in BOOLEAN, NEW data \in Bodies(final),
         Write(c, data, final)
  PROVE  Store!Next
<1>1. Idle /\ flash' = flash /\ wild' = wild /\ ~wild
  BY DEF Write, Idle
<1>2. RoffsInv' /\ Only(c) /\ uploads[c] \in Uploads /\ uploads[c].stage = "open"
  BY WriteInv
<1>3. PICK L, e : /\ Whole(L, e)' /\ Stage(L, e)'
                  /\ Fits(uploads[c], data) =>
                       Has(L, e, c)' /\ uploads'[c] = Taken(uploads[c], data, final)
                  /\ ~Fits(uploads[c], data) => NoUploads'
  BY WriteInv
<1>4. \A d \in Conns : ~Ending(L, e, d)'
  BY <1>3, ApartNext DEF EndsApart
<1>5. Visible' = Visible
  BY <1>1, <1>2, <1>3, <1>4, IdleSight, NothingWritten
<1>6. TypeOK /\ TypeOK'
  BY <1>2 DEF RoffsInv
<1>7. CASE Fits(uploads[c], data)
  <2>1. Has(L, e, c)' /\ uploads'[c] = Taken(uploads[c], data, final)
    BY <1>3, <1>7
  <2>2. uploads'[c] # None
    BY <2>1, CellAssumption DEF Has
  <2>3. \A d \in Conns \ {c} : uploads'[d] = uploads[d]
    BY <1>2, <2>1 DEF Has, Only
  <2>4. PICK u, s : u = uploads[c] /\ s = u.data
    OBVIOUS
  <2>5. u \in Uploads /\ s \in Seq(Values) /\ data \in Seq(Values)
    BY <1>2, <2>4, UploadIs, BodiesAre
  <2>6. Taken(u, data, final).name = u.name /\ Taken(u, data, final).data = s \o data
    BY <1>7, <2>4, <2>5 DEF Taken, Uploads
  <2>7. IsPrefix(s, s \o data)
    BY <2>5, Extends
  <2>8. /\ uploads[c].stage # "whole" /\ uploads'[c].name = uploads[c].name
        /\ IsPrefix(uploads[c].data, uploads'[c].data)
    <3>1. uploads'[c].name = u.name
      BY <2>1, <2>4, <2>6
    <3>2. uploads'[c].data = s \o data
      BY <2>1, <2>4, <2>6
    <3>3. IsPrefix(uploads[c].data, uploads'[c].data)
      BY <2>4, <2>7, <3>2
    <3> QED
      BY <1>2, <2>4, <3>1, <3>3
  <2> QED
    BY <1>1, <1>5, <1>6, <2>2, <2>3, <2>8, Goes
<1>8. CASE ~Fits(uploads[c], data)
  <2>1. \A d \in Conns : uploads'[d] = None
    BY <1>3, <1>8 DEF NoUploads
  <2>2. wild \in BOOLEAN /\ wild' \in BOOLEAN
    BY <1>6 DEF TypeOK
  <2> QED
    BY <1>1, <1>5, <2>1, <2>2, Forgets
<1> QED
  BY <1>7, <1>8

\* The draft of a connection that is gone stays what it is until it is published.
LEMMA CleanupStep ==
  ASSUME RoffsInv, NEW c \in Conns, Cleanup(c)
  PROVE  Store!Next
<1>1. Idle /\ flash' = flash /\ wild' = wild /\ ~wild
  BY DEF Cleanup, Idle
<1>2. /\ RoffsInv' /\ Only(c) /\ uploads[c] \in Uploads /\ uploads[c].stage = "open"
      /\ uploads'[c] = [uploads[c] EXCEPT !.stage = "whole"]
  BY CleanupInv
<1>3. PICK L, e : Whole(L, e)' /\ Stage(L, e)' /\ Has(L, e, c)'
  BY CleanupInv
<1>4. \A d \in Conns : ~Ending(L, e, d)'
  BY <1>3, ApartNext DEF EndsApart
<1>5. Visible' = Visible
  BY <1>1, <1>2, <1>3, <1>4, IdleSight, NothingWritten
<1>6. TypeOK /\ TypeOK'
  BY <1>2 DEF RoffsInv
<1>7. uploads'[c] # None
  BY <1>3, CellAssumption DEF Has
<1>8. \A d \in Conns \ {c} : uploads'[d] = uploads[d]
  BY <1>2, <1>3 DEF Has, Only
<1>9. uploads'[c].name = uploads[c].name /\ uploads'[c].data = uploads[c].data
  BY <1>2 DEF Uploads
<1>10. IsPrefix(uploads[c].data, uploads'[c].data)
  BY <1>2, <1>9, UploadIs, Extends
<1>11. uploads[c].stage # "whole"
  BY <1>2
<1> QED
  BY <1>1, <1>5, <1>6, <1>7, <1>8, <1>9, <1>10, <1>11, Goes

\* A handler stops, and the log is as it was.
LEMMA StopStep ==
  ASSUME RoffsInv, RoffsInv', ~wild, ~wild', flash' = flash, Sight = flash,
         \A c \in Conns : uploads'[c] \in {uploads[c], None},
         todo' = <<>> \/ NoUploads'
  PROVE  Store!Next
<1>1. PICK L, e : Whole(L, e)' /\ Stage(L, e)'
  BY DEF RoffsInv
<1>2. ASSUME NEW d \in Conns, Ending(L, e, d)' PROVE FALSE
  <2>1. CASE todo' = <<>>
    <3>1. ASSUME NEW op, todo' = <<op>> PROVE FALSE
      BY <2>1, <3>1
    <3> QED
      BY <1>2, <3>1 DEF Ending
  <2>2. CASE NoUploads'
    BY <1>2, <2>2, ApartNext DEF EndsApart
  <2> QED
    BY <2>1, <2>2
<1>3. Visible' = Visible
  BY <1>1, <1>2, NothingWritten
<1>4. wild \in BOOLEAN /\ wild' \in BOOLEAN
  BY DEF RoffsInv, TypeOK
<1> QED
  BY <1>3, <1>4, Forgets

\* A handler that gives up forgets its draft.
LEMMA FlashErrorStep ==
  ASSUME RoffsInv, FlashError, ~wild'
  PROVE  Store!Next
<1>1. /\ ~wild /\ todo' = <<>> /\ wild' = Endless /\ flash' = flash
      /\ uploads' = [c \in Conns |-> IF c = busy THEN None ELSE uploads[c]]
  BY DEF FlashError
<1>2. Sight = flash
  BY <1>1 DEF Sight
<1>3. \A c \in Conns : uploads'[c] \in {uploads[c], None}
  BY <1>1
<1> QED
  BY <1>1, <1>2, <1>3, FlashErrorInv, StopStep

\* A reset forgets the drafts.
LEMMA ResetStep ==
  ASSUME RoffsInv, Reset, ~wild'
  PROVE  Store!Next
<1>1. /\ ~wild /\ flash' = flash /\ uploads' = [c \in Conns |-> None]
      /\ wild' = (Endless /\ \A i \in NextHeader : todo[i].at # Base)
  BY DEF Reset
<1>2. PICK L, e : Whole(L, e) /\ Stage(L, e)
  BY <1>1 DEF RoffsInv
<1>3. \A c \in Conns : ~Ending(L, e, c)
  BY <1>1, <1>2, EndingIs DEF RoffsInv
<1>4. Sight = flash
  BY <1>2, <1>3, SightIs
<1>5. NoUploads' /\ \A c \in Conns : uploads'[c] \in {uploads[c], None}
  BY <1>1 DEF NoUploads
<1> QED
  BY <1>1, <1>4, <1>5, ResetInv, StopStep

\* A format that is planned changes no file.
LEMMA FormatStep ==
  ASSUME RoffsInv, Format, ~wild'
  PROVE  Store!Next
<1>1. /\ Idle /\ ~wild /\ flash' = flash /\ uploads' = uploads
      /\ wild' = (\E c \in Conns : uploads[c] # None \/ readers[c] # None)
  BY DEF Format, Idle
<1>2. NoUploads' /\ \A c \in Conns : uploads'[c] \in {uploads[c], None}
  BY <1>1 DEF NoUploads
<1> QED
  BY <1>1, <1>2, IdleSight, FormatInv, StopStep

\* Downloads do not matter.
LEMMA ReaderStep ==
  ASSUME UNCHANGED <<flash, todo, uploads, wild>>
  PROVE  UNCHANGED Store!vars
<1>1. NextHeader' = NextHeader
  BY DEF NextHeader
<1>2. Endless' = Endless
  BY <1>1 DEF Endless
<1>3. Visible' = Visible
  BY <1>1, <1>2 DEF Visible
<1>4. Drafts' = Drafts
  BY DEF Drafts
<1> QED
  BY <1>3, <1>4 DEF Store!vars

\* The file system was formatted.
LEMMA Emptied ==
  ASSUME RoffsInv', ~wild, wild' = wild, NoUploads, NoUploads',
         Whole({Base}, Base)', Stage({Base}, Base)'
  PROVE  Store!Next
<1>1. Shown({Base}, Base)'
  BY SeenNext DEF AllShown
<1>2. PICK g, L : g = Sight' /\ L = {Base}
  OBVIOUS
<1>3. /\ Visible' = Files(g) /\ g \in Flashes /\ AtEnd(g, Base) /\ IsLog(g, L, Base)
      /\ Unique(g, L, Base)
  BY <1>1, <1>2 DEF Shown
<1>4. ASSUME NEW n \in Plain PROVE File(g, n) = None
  <2>1. Gone(g, L, Base, n)
    BY <1>2 DEF Gone
  <2> QED
    BY <1>3, <2>1, OneFile
<1>5. Visible' = Store!NoFiles
  BY <1>3, <1>4 DEF Files, Store!NoFiles, Store!Plain, Plain
<1>6. Drafts' = Drafts
  BY DEF Drafts, NoUploads
<1>7. Store!Format
  BY <1>5, <1>6 DEF Store!Format
<1> QED
  BY <1>7 DEF Store!Next

\* What is written at the end of the log or behind it is not seen.
LEMMA Untouched ==
  ASSUME RoffsInv, RoffsInv', NEW L, NEW e, Whole(L, e), Stage(L, e), Whole(L, e)', Stage(L, e)',
         \A a \in Base .. e - 1 : flash'[a] = flash[a]
  PROVE  Visible' = Visible
<1>1. Shown(L, e) /\ Shown(L, e)'
  BY Seen, SeenNext DEF AllShown
<1>2. PICK f, g : f = Sight /\ g = Sight'
  OBVIOUS
<1>3. /\ Visible = Files(f) /\ f \in Flashes /\ IsLog(f, L, e) /\ Unique(f, L, e) /\ AtEnd(f, e)
      /\ \A a \in Base .. e - 1 : f[a] = flash[a]
  BY <1>1, <1>2 DEF Shown
<1>4. /\ Visible' = Files(g) /\ g \in Flashes /\ AtEnd(g, e)
      /\ \A a \in Base .. e - 1 : g[a] = flash'[a]
  BY <1>1, <1>2 DEF Shown
<1>5. \A a \in Base .. e - 1 : g[a] = f[a]
  BY <1>3, <1>4
<1>6. Files(g) = Files(f)
  BY <1>3, <1>4, <1>5, SameFiles
<1> QED
  BY <1>3, <1>4, <1>6

\* An erase is of all files, or of none.
LEMMA EraseStep ==
  ASSUME RoffsInv, Erase
  PROVE  Store!Next
<1>1. ~wild /\ uploads' = uploads /\ wild' = wild
  BY DEF Erase
<1>2. PICK L, e : Whole(L, e) /\ Stage(L, e)
  BY <1>1 DEF RoffsInv
<1>3. RoffsInv'
  BY <1>2, EraseKeeps
<1>4. CASE Formatting(L, e)
  <2>1. Whole({Base}, Base)' /\ Stage({Base}, Base)' /\ NoUploads'
    BY <1>2, <1>4, EraseKeeps
  <2>2. NoUploads
    BY <1>4 DEF Formatting
  <2> QED
    BY <1>1, <1>3, <2>1, <2>2, Emptied
<1>5. CASE ~Formatting(L, e)
  <2>1. /\ Whole(L, e)' /\ Stage(L, e)' /\ \A b \in Base .. e - 1 : flash'[b] = flash[b]
    BY <1>2, <1>5, EraseKeeps
  <2>2. Visible' = Visible
    BY <1>2, <1>3, <2>1, Untouched
  <2>3. wild \in BOOLEAN
    BY DEF RoffsInv, TypeOK
  <2> QED
    BY <1>1, <2>2, <2>3, Forgets
<1> QED
  BY <1>4, <1>5

\* The old version is withdrawn when its header is cleared.
LEMMA RetireStep ==
  ASSUME RoffsInv, Program, NEW L, NEW e, Whole(L, e), NEW c \in Conns, Retiring(L, e, c)
  PROVE  Store!Next
<1>1. ~wild /\ wild' = wild
  BY DEF Program
<1>2. PICK m, n : m = uploads[c].name /\ n = Strip[m]
  OBVIOUS
<1>3. /\ RoffsInv' /\ Whole(L, e)' /\ Stage(L, e)' /\ Has(L, e, c)'
      /\ Gone(flash', L, e, m) /\ \A d \in Conns : uploads'[d] = uploads[d]
  BY <1>2, RetireProgrammed
<1>4. PICK p \in L \ {e} :
        /\ Shows(flash, p, n) /\ flash'[p] = [flash[p] EXCEPT !.flags = {}]
        /\ \A a \in Base .. e - 1 : a # p => flash'[a] = flash[a]
  <2>1. Withdraws(L, e, n)
    BY <1>2, RetireProgrammed
  <2> QED
    BY <2>1 DEF Withdraws
<1>5. Stage(L, e) /\ Has(L, e, c)
  BY DEF Stage, Retiring
<1>6. m \in Names /\ n \in Plain /\ Strip[n] = n /\ uploads[c] # None
  <2>1. m \in Names /\ uploads[c] # None
    BY <1>2, <1>5, UploadIs, CellAssumption DEF Has
  <2> QED
    BY <1>2, <2>1, StripPlain
<1>7. Shown(L, e) /\ Shown(L, e)'
  BY <1>3, <1>5, Seen, SeenNext DEF AllShown
<1>8. Sight = flash /\ Sight' = flash'
  <2>1. \A d \in Conns : ~Ending(L, e, d) /\ ~Ending(L, e, d)'
    BY <1>3, <1>5, Apart, ApartNext DEF EndsApart
  <2> QED
    BY <1>7, <2>1 DEF Shown
<1>9. PICK f, g : f = flash /\ g = flash'
  OBVIOUS
<1>10. /\ Visible = Files(f) /\ f \in Flashes /\ IsLog(f, L, e) /\ Unique(f, L, e) /\ AtEnd(f, e)
       /\ Visible' = Files(g) /\ g \in Flashes /\ IsLog(g, L, e) /\ Unique(g, L, e) /\ AtEnd(g, e)
  BY <1>7, <1>8, <1>9 DEF Shown
<1>11. /\ Shows(f, p, n) /\ g[p] = [f[p] EXCEPT !.flags = {}] /\ Gone(g, L, e, n)
       /\ \A a \in Base .. e - 1 : a # p => g[a] = f[a]
  <2>1. Gone(flash', L, e, n)
    BY <1>2, <1>3, <1>6 DEF Gone
  <2> QED
    BY <1>4, <1>9, <2>1
<1>12. Files(g) = [Files(f) EXCEPT ![n] = None]
  BY <1>6, <1>10, <1>11, FilesRetired
<1>13. Drafts' = Drafts
  BY <1>3 DEF Drafts
<1>14. Drafts[c] # None /\ Drafts[c].name = m
  BY <1>2, <1>6, DraftsAre DEF RoffsInv
<1>15. Store!Withdraw(c)
  BY <1>1, <1>2, <1>10, <1>12, <1>13, <1>14 DEF Store!Withdraw
<1> QED
  BY <1>1, <1>15 DEF Store!Next

\* The new version is published when its header is.
LEMMA CloseStep ==
  ASSUME RoffsInv, Program, NEW L, NEW e, Whole(L, e), NEW c \in Conns,
         Writing(L, e, c, EndOf(uploads[c])), Stage(L, e)
  PROVE  Store!Next
<1>1. ~wild /\ wild' = wild
  BY DEF Program
<1>2. PICK u, n, M : u = uploads[c] /\ n = EndOf(u) /\ M = L \cup {n}
  OBVIOUS
<1>3. /\ RoffsInv' /\ Whole(M, n)' /\ Stage(M, n)'
      /\ u.stage = "whole" /\ \A d \in Conns : uploads'[d] = uploads[d]
      /\ Gone(flash, L, e, u.name) /\ n > e /\ n \notin L /\ u \in Uploads
      /\ \A a \in Base .. e - 1 : flash'[a] = flash[a]
      /\ flash'[e] = ClosedBy(u) /\ flash'[e + 1] = u.name
      /\ \A i \in 1..Length(u) : flash'[e + 1 + i] = u.data[i]
  <2>1. PICK v : v = uploads[c]
    OBVIOUS
  <2>2. /\ RoffsInv' /\ Whole(L \cup {EndOf(uploads[c])}, EndOf(uploads[c]))'
        /\ Stage(L \cup {EndOf(uploads[c])}, EndOf(uploads[c]))'
        /\ uploads[c].stage = "whole" /\ \A d \in Conns : uploads'[d] = uploads[d]
        /\ Gone(flash, L, e, uploads[c].name) /\ EndOf(uploads[c]) > e
        /\ EndOf(uploads[c]) \notin L /\ uploads[c] \in Uploads
        /\ \A a \in Base .. e - 1 : flash'[a] = flash[a]
        /\ flash'[e] = ClosedBy(uploads[c]) /\ flash'[e + 1] = uploads[c].name
        /\ \A i \in 1..Length(uploads[c]) : flash'[e + 1 + i] = uploads[c].data[i]
    BY CloseProgrammed
  <2> QED
    BY <1>2, <2>2, Zenon
<1>4. Has(L, e, c)
  BY DEF Writing
<1>5. /\ e \in Nat /\ n = e + 2 + Length(u) /\ Length(u) \in Nat /\ Base \in Nat /\ Base <= e
  <2>1. u.header = e /\ u \in Uploads
    BY <1>2, <1>4 DEF Has
  <2>2. e \in Base..Top /\ Base \in Nat /\ Top \in Nat
    BY LogEnds
  <2> QED
    BY <1>2, <2>1, <2>2, UploadIs
<1>6. Shown(L, e) /\ Shown(M, n)'
  BY <1>3, Seen, SeenNext DEF AllShown
<1>7. Sight = flash
  <2>1. \A d \in Conns : ~Ending(L, e, d)
    BY <1>4, Apart DEF EndsApart
  <2> QED
    BY <1>6, <2>1 DEF Shown
<1>8. PICK f, g : f = flash /\ g = Sight'
  OBVIOUS
<1>9. /\ Visible = Files(f) /\ f \in Flashes /\ IsLog(f, L, e) /\ Unique(f, L, e) /\ AtEnd(f, e)
      /\ Visible' = Files(g) /\ g \in Flashes /\ IsLog(g, M, n) /\ Unique(g, M, n) /\ AtEnd(g, n)
      /\ \A a \in Base .. n - 1 : g[a] = flash'[a]
  BY <1>6, <1>7, <1>8 DEF Shown
<1>10. /\ \A a \in Base .. e - 1 : g[a] = f[a]
       /\ g[e] = ClosedBy(u) /\ g[e + 1] = u.name
       /\ \A i \in 1..Length(u) : g[e + 1 + i] = u.data[i]
  <2>1. \A a \in Base .. e - 1 : a \in Base .. n - 1
    BY <1>5
  <2>2. e \in Base .. n - 1 /\ e + 1 \in Base .. n - 1
    BY <1>5
  <2>3. \A i \in 1..Length(u) : e + 1 + i \in Base .. n - 1
    BY <1>5
  <2> QED
    BY <1>3, <1>8, <1>9, <2>1, <2>2, <2>3
<1>11. /\ u.name \in Plain => Files(g) = [Files(f) EXCEPT ![u.name] = u.data]
       /\ u.name \notin Plain => Files(g) = Files(f)
  <2>1. /\ IsLog(g, L \cup {n}, n) /\ Unique(g, L \cup {n}, n) /\ Gone(f, L, e, u.name)
    BY <1>2, <1>3, <1>8, <1>9
  <2> QED
    BY <1>3, <1>9, <1>10, <2>1, FilesPublished
<1>12. ASSUME u.name \in Plain PROVE Visible[u.name] = None
  <2>1. PICK m : m = u.name
    OBVIOUS
  <2>2. m \in Plain /\ Gone(flash, L, e, m)
    BY <1>3, <1>12, <2>1
  <2>3. Visible[m] = None
    BY <2>2, FilesAre
  <2> QED
    BY <2>1, <2>3
<1>13. Drafts' = Drafts
  BY <1>3 DEF Drafts
<1>14. Drafts[c] # None /\ Drafts[c].name = u.name /\ Drafts[c].data = u.data /\ Drafts[c].whole
  <2>1. u # None
    BY <1>3, CellAssumption
  <2>2. /\ Drafts[c] # None /\ Drafts[c].name = u.name /\ Drafts[c].data = u.data
        /\ Drafts[c].whole = (u.stage = "whole")
    BY <1>2, <2>1, DraftsAre DEF RoffsInv
  <2> QED
    BY <1>3, <2>2
<1>15. ASSUME u.name \in Plain PROVE Store!Publish(c)
  <2>1. Visible' = [Visible EXCEPT ![u.name] = u.data]
    BY <1>9, <1>11, <1>15
  <2>2. Drafts[c].name \in Store!Plain
    BY <1>14, <1>15 DEF Store!Plain, Plain
  <2> QED
    BY <1>1, <1>12, <1>13, <1>14, <1>15, <2>1, <2>2, Zenon DEF Store!Publish
<1>16. ASSUME u.name \notin Plain PROVE Store!Next
  <2>1. Visible' = Visible
    BY <1>9, <1>11, <1>16
  <2>2. \A d \in Conns : uploads'[d] \in {uploads[d], None}
    BY <1>3
  <2>3. wild \in BOOLEAN
    BY DEF RoffsInv, TypeOK
  <2> QED
    BY <1>1, <2>1, <2>2, <2>3, Forgets
<1> QED
  BY <1>1, <1>15, <1>16 DEF Store!Next

\* A write withdraws a file, publishes one, or is not seen.
LEMMA ProgramStep ==
  ASSUME RoffsInv, Program
  PROVE  Store!Next
<1>1. /\ ~wild /\ wild' = wild /\ uploads' = LetGo(uploads, Tail(todo)) /\ todo # <<>>
  BY DEF Program
<1>2. PICK L, e : Whole(L, e) /\ Stage(L, e)
  BY <1>1 DEF RoffsInv
<1>3. ~Resting(L, e) /\ \A c \in Conns : ~Receiving(L, e, c)
  BY <1>1 DEF Resting, Receiving
<1>4. \A c \in Conns : uploads'[c] \in {uploads[c], None}
  BY <1>1 DEF LetGo
<1>5. wild \in BOOLEAN
  BY DEF RoffsInv, TypeOK
<1>6. ASSUME RoffsInv', Whole(L, e)', Stage(L, e)', \A a \in Base .. e - 1 : flash'[a] = flash[a]
      PROVE  Store!Next
  BY <1>1, <1>2, <1>4, <1>5, <1>6, Untouched, Forgets
<1>7. CASE Formatting(L, e)
  <2>1. NoUploads
    BY <1>7 DEF Formatting
  <2> QED
    BY <1>1, <1>2, <1>7, <2>1, FormatProgrammed, Emptied
<1>8. ASSUME NEW c \in Conns, Ending(L, e, c) PROVE Store!Next
  BY <1>2, <1>6, <1>8, EndProgrammed
<1>9. ASSUME NEW c \in Conns, Retiring(L, e, c) PROVE Store!Next
  BY <1>2, <1>9, RetireStep
<1>10. ASSUME NEW c \in Conns, NEW a, Writing(L, e, c, a) PROVE Store!Next
  <2>1. CASE a # EndOf(uploads[c])
    BY <1>2, <1>6, <1>10, <2>1, WriteProgrammed
  <2>2. CASE a = EndOf(uploads[c])
    BY <1>2, <1>10, <2>2, CloseStep
  <2> QED
    BY <2>1, <2>2
<1> QED
  BY <1>2, <1>3, <1>7, <1>8, <1>9, <1>10 DEF Stage

\* Nothing happens in a file system that is lost, and whatever may lose it.
LEMMA StoreStep ==
  ASSUME RoffsInv, [Next]_vars
  PROVE  [Store!Next]_(Store!vars)
<1>1. CASE UNCHANGED vars
  BY <1>1, ReaderStep DEF vars
<1>2. CASE wild'
  BY <1>2 DEF Store!Next
<1>3. ASSUME NEW c \in Conns, NEW final \in BOOLEAN, NEW data \in Bodies(final),
             Write(c, data, final) \/ \E n \in Names : Create(c, n, data, final)
      PROVE  Store!Next
  BY <1>3, CreateStep, WriteStep
<1>4. ASSUME NEW c \in Conns, Read(c) \/ Release(c) \/ \E n \in Names : Download(c, n)
      PROVE  UNCHANGED Store!vars
  BY <1>4, ReaderStep DEF Read, Release, Download
<1>5. ASSUME NEW c \in Conns, Cleanup(c) PROVE Store!Next
  BY <1>5, CleanupStep
<1>6. ASSUME NEW c \in Conns, Recover(c) PROVE wild'
  BY <1>6 DEF Recover
<1>7. CASE Erase \/ Program
  BY <1>7, EraseStep, ProgramStep
<1>8. CASE (Format \/ FlashError \/ Reset) /\ ~wild'
  BY <1>8, FormatStep, FlashErrorStep, ResetStep
<1> QED
  BY <1>1, <1>2, <1>3, <1>4, <1>5, <1>6, <1>7, <1>8 DEF Next

\* There is no file before the first format.
LEMMA StoreBegins == Init => Store!Init
<1>1. ASSUME Init PROVE Store!Init
  <2>1. /\ flash = [a \in Base..Top |-> Stale] /\ todo = roffs_format
        /\ uploads = [c \in Conns |-> None] /\ wild = FALSE
    BY <1>1 DEF Init
  <2>2. RoffsInv
    BY <1>1, InitInv
  <2>3. Base \in Base..Top /\ Stale \notin Header /\ Base \in Nat /\ Top \in Nat
    BY RoffsAssumption, CellAssumption
  <2>4. PICK L : L = {Base}
    OBVIOUS
  <2>5. flash \in Flashes /\ AtEnd(flash, Base) /\ IsLog(flash, L, Base) /\ Unique(flash, L, Base)
    BY <2>1, <2>2, <2>3, <2>4 DEF RoffsInv, TypeOK, Flashes, AtEnd, IsLog, Unique
  <2>6. PICK g : g = Sight
    OBVIOUS
  <2>7. g \in Flashes /\ AtEnd(g, Base)
    <3>1. CASE Endless
      <4>1. g = [a \in Base..Top |-> IF \E i \in NextHeader : a = todo[i].at THEN Erased ELSE flash[a]]
        BY <2>5, <2>6, <3>1 DEF Sight, Flashes
      <4>2. g[Base] \in {Erased, Stale} /\ \A a \in Base..Top : g[a] \in {Erased, Stale}
        BY <2>1, <2>3, <4>1
      <4>3. g \in Flashes
        BY <4>1, <4>2 DEF Flashes, Cells
      <4> QED
        BY <2>3, <4>2, <4>3, NotHeader DEF AtEnd
    <3>2. CASE ~Endless
      BY <2>5, <2>6, <3>2 DEF Sight
    <3> QED
      BY <3>1, <3>2
  <2>8. IsLog(g, L, Base) /\ Unique(g, L, Base)
    BY <2>3, <2>4 DEF IsLog, Unique
  <2>9. ASSUME NEW n \in Plain PROVE File(g, n) = None
    <3>1. Gone(g, L, Base, n)
      BY <2>4 DEF Gone
    <3> QED
      BY <2>7, <2>8, <3>1, OneFile
  <2>10. Visible = Store!NoFiles
    <3>1. Visible = Files(g)
      BY <2>6 DEF Visible, Sight
    <3> QED
      BY <2>9, <3>1 DEF Files, Store!NoFiles, Store!Plain, Plain
  <2>11. Drafts = [c \in Conns |-> None]
    BY <2>1 DEF Drafts
  <2> QED
    BY <2>1, <2>10, <2>11 DEF Store!Init
<1> QED
  BY <1>1

\* Whenever a reset or a flash error comes, a name stands for nothing, or for the whole of
\* what one upload under this name brought: the header of an upload that is complete is
\* published in one flash operation (roffs_create to roffs_close).
THEOREM WholeFiles == Spec => ImplementsRoffsStore
<1>1. Init => RoffsInv
  BY InitInv
<1>2. RoffsInv /\ [Next]_vars => RoffsInv'
  BY NextInv
<1>3. Init => Store!Init
  BY StoreBegins
<1>4. RoffsInv /\ [Next]_vars => [Store!Next]_(Store!vars)
  BY StoreStep
<1> QED
  BY <1>1, <1>2, <1>3, <1>4, PTL DEF Spec, ImplementsRoffsStore, Store!Spec
=============================================================================
