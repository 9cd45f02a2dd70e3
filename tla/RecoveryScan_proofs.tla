------------------------ MODULE RecoveryScan_proofs -------------------------
(***************************************************************************)
(* The recovery scan, for every set of deposits and spends, every chunk    *)
(* and every number of upgrades and faults: the types and the ownership of *)
(* records, that no note is spent twice, and that a stamped index is       *)
(* complete.                                                               *)
(*                                                                         *)
(* A message runs Visit Chunk times.  AdvanceKeeps is the induction over   *)
(* that run; ScanRel is what a visit, and so a chunk, keeps and how it     *)
(* relates the pool before to the pool after.  Inv says of a pool:         *)
(*   IndexInv    what is not settled is indexed or still to be indexed;    *)
(*   OwnInv      a call works on a record in a state of its own;           *)
(*   ReserveInv  a spend whose insertion may have run reserves its note,   *)
(*               unless the pool is closed and phase 2 has still to see it;*)
(*   SpendInv    one such spend per note, and the registry is its own;     *)
(*   GateInv     a closed pool has no call and a right remainder, an open  *)
(*               one at most one record left to normalise.                 *)
(***************************************************************************)
EXTENDS RecoveryScan, TLAPS, FiniteSetTheorems, WellFoundedInduction

(* A set of numbers has a least element. *)
LEMMA LeastIn ==
  ASSUME NEW T, T \subseteq Nat, T # {}
  PROVE  \E x \in T : \A y \in T : x <= y
<1>1. PICK x \in T : \A y \in T : ~ (<<y, x>> \in OpToRel(<, Nat))
  BY NatLessThanWellFounded, WFMin
<1>2. \A y \in T : ~ (y < x)
  BY <1>1 DEF OpToRel
<1>3. QED
  BY <1>2

(* The least element is what Min chooses.                                  *)
LEMMA MinIs ==
  ASSUME NEW T, T \subseteq Nat, T # {}
  PROVE  Min(T) \in T /\ \A y \in T : Min(T) <= y
<1>1. \E x \in T : \A y \in T : x =< y
  BY LeastIn
<1>2. QED
  BY <1>1 DEF Min

(* The equation of a chunk's recursive function, up to n visits. *)
RunAfter(f, p, i) == IF i = 0 THEN {p} ELSE {Visit(q) : q \in f[i - 1]}
Chunks(f, p, n) == f = [i \in 0..n |-> RunAfter(f, p, i)]

LEMMA RunStarts == ASSUME NEW f, NEW p PROVE RunAfter(f, p, 0) = {p}
BY Zenon DEF RunAfter

LEMMA RunGoesOn == ASSUME NEW f, NEW p, NEW i, i # 0
                 PROVE RunAfter(f, p, i) = {Visit(q) : q \in f[i - 1]}
BY Zenon DEF RunAfter

(* The recursive function of Advance exists, for a chunk of any size.      *)
LEMMA ChunksExist ==
  ASSUME NEW p
  PROVE  \A n \in Nat : \E f : Chunks(f, p, n)
<1>. DEFINE T == {n \in Nat : ~ \E f : Chunks(f, p, n)}
<1>. SUFFICES ASSUME T # {} PROVE FALSE
  OBVIOUS
<1>1. PICK n \in T : \A m \in T : n <= m
  <2>1. T \subseteq Nat
    OBVIOUS
  <2>2. QED
    BY <2>1, LeastIn
<1>2. CASE n = 0
  <2>. DEFINE F == [i \in 0..0 |-> {p}]
  <2>1. Chunks(F, p, 0)
    <3>1. \A i \in 0..0 : RunAfter(F, p, i) = {p}
      BY RunStarts
    <3>2. QED
      BY <3>1 DEF Chunks
  <2>2. QED
    BY <1>2, <2>1
<1>3. CASE n # 0
  <2>1. n - 1 \in Nat /\ n - 1 \notin T
    BY <1>1, <1>3
  <2>2. PICK g : Chunks(g, p, n - 1)
    BY <2>1
  <2>3. \A i \in 0..n - 1 : g[i] = RunAfter(g, p, i)
    BY <2>2 DEF Chunks
  <2>. DEFINE F == [i \in 0..n |-> IF i <= n - 1 THEN g[i] ELSE {Visit(q) : q \in g[n - 1]}]
  <2>a. (\A i \in 0..n - 1 : F[i] = g[i]) /\ F[n] = {Visit(q) : q \in g[n - 1]}
    BY <2>1
  <2>b. F = [i \in 0..n |-> F[i]]
    OBVIOUS
  <2>. HIDE DEF F
  <2>4. ASSUME NEW i \in 0..n
        PROVE  F[i] = RunAfter(F, p, i)
    <3>1. CASE i = 0
      <4>1. F[0] = g[0] /\ g[0] = {p}
        BY <2>1, <2>3, <2>a, RunStarts
      <4>2. QED
        BY <3>1, <4>1, RunStarts
    <3>2. CASE i # 0 /\ i # n
      <4>1. F[i] = g[i] /\ F[i - 1] = g[i - 1]
        BY <2>1, <2>a, <3>2
      <4>2. g[i] = {Visit(q) : q \in g[i - 1]}
        BY <2>1, <2>3, <3>2, RunGoesOn
      <4>3. QED
        BY <3>2, <4>1, <4>2, RunGoesOn
    <3>3. CASE i = n
      <4>1. F[n - 1] = g[n - 1]
        BY <2>1, <2>a
      <4>2. QED
        BY <1>3, <2>a, <3>3, <4>1, RunGoesOn
    <3>4. QED
      BY <3>1, <3>2, <3>3
  <2>6. F = [i \in 0..n |-> RunAfter(F, p, i)]
    BY <2>4, <2>b
  <2>7. QED
    BY <2>6, <1>1 DEF Chunks
<1>4. QED
  BY <1>2, <1>3

(* Advance, with the run of its visits named.                              *)
LEMMA AdvanceIs ==
  ASSUME NEW p
  PROVE  Advance(p) = {IF Complete(q) THEN [q EXCEPT !.stamped = TRUE] ELSE q :
            q \in {r \in (CHOOSE f : Chunks(f, p, Chunk))[Chunk] : Complete(r) => Buildable(r)}}
BY DEF Advance, Chunks, RunAfter

(* A chunk visits at least once, and what every visit preserves it         *)
(* preserves.                                                              *)
LEMMA AdvanceKeeps ==
  ASSUME NEW p, NEW S, Visit(p) \in S, \A q \in S : Visit(q) \in S,
         NEW r \in Advance(p)
  PROVE  \E q \in S : r = IF Complete(q) THEN [q EXCEPT !.stamped = TRUE] ELSE q
<1>. DEFINE f == CHOOSE f : Chunks(f, p, Chunk)
            T == {i \in 1..Chunk : ~ (f[i] \subseteq S)}
<1>1. Chunk \in Nat /\ Chunk >= 1
  BY ScanAssumption
<1>2. Chunks(f, p, Chunk)
  BY <1>1, ChunksExist
<1>. HIDE DEF f
<1>3. \A i \in 0..Chunk : f[i] = RunAfter(f, p, i)
  BY <1>2 DEF Chunks
<1>4. T = {}
  <2>. SUFFICES ASSUME T # {} PROVE FALSE
    OBVIOUS
  <2>1. PICK i \in T : \A j \in T : i <= j
    <3>1. T \subseteq Nat
      BY <1>1
    <3>2. QED
      BY <3>1, LeastIn
  <2>2. f[i] = {Visit(q) : q \in f[i - 1]}
    BY <1>1, <1>3, RunGoesOn
  <2>3. CASE i = 1
    <3>1. f[0] = {p}
      BY <1>1, <1>3, RunStarts
    <3>2. QED
      BY <2>2, <2>3, <3>1
  <2>4. CASE i # 1
    <3>1. f[i - 1] \subseteq S
      BY <1>1, <2>1, <2>4
    <3>2. QED
      BY <2>2, <3>1
  <2>5. QED
    BY <2>3, <2>4
<1>5. f[Chunk] \subseteq S
  BY <1>1, <1>4
<1>6. Advance(p) = {IF Complete(q) THEN [q EXCEPT !.stamped = TRUE] ELSE q :
            q \in {x \in f[Chunk] : Complete(x) => Buildable(x)}}
  BY AdvanceIs DEF f
<1>7. PICK q \in f[Chunk] : r = IF Complete(q) THEN [q EXCEPT !.stamped = TRUE] ELSE q
  BY <1>6, Zenon
<1>8. QED
  BY <1>5, <1>7

-----------------------------------------------------------------------------
Work(p, ph) == IF ph < p.cursor.phase THEN 0 ELSE Cardinality(Left(p, ph))
Late(p) == IF p.cursor.phase <= 2 THEN Left(p, 2) ELSE {}

(* What a phase has to read is a finite set of its keys.                   *)
LEMMA LeftTypes ==
  ASSUME NEW p \in Pools, NEW ph \in 0..5
  PROVE  /\ Left(p, ph) \subseteq (IF ph \in {0, 3, 4} THEN Deposits ELSE Spends)
         /\ Left(p, ph) \subseteq Nat \ {0}
         /\ IsFiniteSet(Left(p, ph))
<1>1. Left(p, ph) \subseteq (IF ph \in {0, 3, 4} THEN Deposits ELSE Spends)
  BY DEF Left, Recorded, Pools
<1>2. IsFiniteSet(Left(p, ph))
  BY <1>1, FS_Subset, ScanAssumption
<1>3. QED
  BY <1>1, <1>2, ScanAssumption

(* The phase that is found has work, and no phase before it has.           *)
LEMMA NextPhaseIs ==
  ASSUME NEW p \in Pools
  PROVE  /\ NextPhase(p) \in 0..Finished
         /\ \A ph \in p.cursor.phase..5 : ph < NextPhase(p) => Left(p, ph) = {}
         /\ NextPhase(p) # Finished =>
               NextPhase(p) \in p.cursor.phase..5 /\ Left(p, NextPhase(p)) # {}
<1>. DEFINE T == {Finished} \cup {ph \in p.cursor.phase..5 : Left(p, ph) # {}}
<1>1. p.cursor.phase \in 0..6
  BY DEF Pools, Cursors, Finished
<1>2. T \subseteq Nat /\ T # {} /\ NextPhase(p) = Min(T)
  BY <1>1 DEF Finished, NextPhase
<1>3. Min(T) \in T /\ \A y \in T : Min(T) <= y
  <2>. HIDE DEF T
  <2>1. QED
    BY <1>2, MinIs
<1>4. QED
  BY <1>1, <1>2, <1>3 DEF Finished

(* A visit of record k in phase ph, field by field.                        *)
VisitOf(p, q, ph, k) ==
    /\ q.deposit = p.deposit /\ q.stamped = p.stamped
    /\ q.cursor.phase = ph /\ q.cursor.last = k
    /\ q.cursor.total = p.cursor.total /\ q.cursor.scanned = p.cursor.scanned + 1
    /\ q.depositIndex = IF ph = 4 /\ p.deposit[k] \in OpenDeposit
                        THEN p.depositIndex \cup {k} ELSE p.depositIndex
    /\ ph # 2 => /\ q.spend = p.spend /\ q.inflight = p.inflight
                 /\ q.cursor.removed = p.cursor.removed
                 /\ q.spendIndex = IF ph = 5 /\ p.spend[k] \in OpenSpend
                                   THEN p.spendIndex \cup {k} ELSE p.spendIndex
    /\ ph = 2 => /\ q.spend = [p.spend EXCEPT ![k] = NormalStatus(@)]
                 /\ q.inflight = IF NormalStatus(p.spend[k]) \in Reserving
                                 THEN p.inflight \cup {Note[k]} ELSE p.inflight
                 /\ q.spendIndex = IF NormalStatus(p.spend[k]) = "none"
                                   THEN p.spendIndex \ {k} ELSE p.spendIndex
                 /\ q.cursor.removed = IF NormalStatus(p.spend[k]) = "none"
                                       THEN p.cursor.removed + 1 ELSE p.cursor.removed

(* What phase 2 does to a record: normalize_spend_record_for_upgrade.       *)
LEMMA VisitPhaseTwo ==
  ASSUME NEW p \in Pools, NEW k \in Spends
  PROVE  /\ NormalizedOne(p, k) \in Pools
         /\ NormalizedOne(p, k).deposit = p.deposit
         /\ NormalizedOne(p, k).depositIndex = p.depositIndex
         /\ NormalizedOne(p, k).stamped = p.stamped
         /\ NormalizedOne(p, k).spend = [p.spend EXCEPT ![k] = NormalStatus(@)]
         /\ NormalizedOne(p, k).inflight = IF NormalStatus(p.spend[k]) \in Reserving
                 THEN p.inflight \cup {Note[k]} ELSE p.inflight
         /\ NormalizedOne(p, k).spendIndex = IF NormalStatus(p.spend[k]) = "none"
                 THEN p.spendIndex \ {k} ELSE p.spendIndex
         /\ NormalizedOne(p, k).cursor = IF NormalStatus(p.spend[k]) = "none"
                 THEN [p.cursor EXCEPT !.removed = @ + 1] ELSE p.cursor
<1>. DEFINE after == [s \in Spends |-> IF s \in {k} THEN NormalStatus(p.spend[s]) ELSE p.spend[s]]
            idx == p.spendIndex \ {s \in {k} : after[s] = "none"}
            infl == p.inflight \cup {Note[s] : s \in {t \in {k} : after[t] \in Reserving}}
            one == Normalized(p, {k})
<1>1. one = [p EXCEPT !.spend = after, !.spendIndex = idx, !.inflight = infl]
  BY DEF Normalized
<1>2. after = [p.spend EXCEPT ![k] = NormalStatus(@)] /\ after[k] = NormalStatus(p.spend[k])
  BY DEF Pools
<1>3. after \in [Spends -> SpendStatus]
  BY DEF Pools, NormalStatus, SpendStatus
<1>4. infl = (IF NormalStatus(p.spend[k]) \in Reserving THEN p.inflight \cup {Note[k]} ELSE p.inflight)
  <2>1. {t \in {k} : after[t] \in Reserving} = IF after[k] \in Reserving THEN {k} ELSE {}
    OBVIOUS
  <2>. HIDE DEF after
  <2>2. CASE after[k] \in Reserving
    <3>1. {Note[s] : s \in {t \in {k} : after[t] \in Reserving}} = {Note[k]}
      BY <2>1, <2>2
    <3>2. QED
      BY <3>1, <2>2, <1>2
  <2>3. CASE after[k] \notin Reserving
    <3>1. {Note[s] : s \in {t \in {k} : after[t] \in Reserving}} = {}
      BY <2>1, <2>3
    <3>2. QED
      BY <3>1, <2>3, <1>2
  <2>4. QED
    BY <2>2, <2>3
<1>5. idx = (IF NormalStatus(p.spend[k]) = "none" THEN p.spendIndex \ {k} ELSE p.spendIndex)
  <2>1. {s \in {k} : after[s] = "none"} = IF after[k] = "none" THEN {k} ELSE {}
    OBVIOUS
  <2>. HIDE DEF after
  <2>2. QED
    BY <2>1, <1>2
<1>6. infl \in SUBSET Notes /\ idx \in SUBSET Spends
  <2>1. p.inflight \subseteq Notes /\ p.spendIndex \subseteq Spends /\ Note[k] \in Notes
    BY DEF Pools, Notes
  <2>. HIDE DEF infl, idx
  <2>2. QED
    BY <1>4, <1>5, <2>1
<1>. HIDE DEF after, idx, infl
<1>7. one \in Pools /\ one.spend = after /\ one.cursor = p.cursor /\ one.inflight = infl
      /\ one.spendIndex = idx /\ one.deposit = p.deposit /\ one.stamped = p.stamped
      /\ one.depositIndex = p.depositIndex
  BY <1>1, <1>3, <1>6 DEF Pools
<1>8. NormalizedOne(p, k) = IF one.spend[k] = "none" THEN [one EXCEPT !.cursor.removed = @ + 1] ELSE one
  BY DEF NormalizedOne
<1>. HIDE DEF one
<1>9. CASE NormalStatus(p.spend[k]) = "none"
  <2>1. NormalizedOne(p, k) = [one EXCEPT !.cursor.removed = @ + 1]
    BY <1>2, <1>7, <1>8, <1>9
  <2>2. QED
    BY <1>2, <1>4, <1>5, <1>7, <1>9, <2>1 DEF Pools, Cursors
<1>10. CASE NormalStatus(p.spend[k]) # "none"
  <2>1. NormalizedOne(p, k) = one
    BY <1>2, <1>7, <1>8, <1>10
  <2>2. QED
    BY <1>2, <1>4, <1>5, <1>7, <1>10, <2>1
<1>11. QED
  BY <1>9, <1>10

(* A phase with work visits its least key.                                 *)
LEMMA VisitedIs ==
  ASSUME NEW p \in Pools, NEW ph \in 0..5, Left(p, ph) # {}
  PROVE  \E k \in Left(p, ph) :
            /\ \A x \in Left(p, ph) : k <= x
            /\ Visited(p, ph) \in Pools /\ VisitOf(p, Visited(p, ph), ph, k)
<1>. DEFINE k == Min(Left(p, ph))
            q == [p EXCEPT !.cursor.phase = ph, !.cursor.last = k, !.cursor.scanned = @ + 1]
<1>1. k \in Left(p, ph) /\ \A x \in Left(p, ph) : k <= x
  BY LeftTypes, MinIs
<1>2. k \in Nat
  BY <1>1, LeftTypes
<1>3. (ph \in {0, 3, 4} => k \in Deposits) /\ (ph \notin {0, 3, 4} => k \in Spends)
  BY <1>1, LeftTypes
<1>. HIDE DEF k
<1>4. /\ q \in Pools /\ q.deposit = p.deposit /\ q.stamped = p.stamped /\ q.spend = p.spend
      /\ q.depositIndex = p.depositIndex /\ q.spendIndex = p.spendIndex
      /\ q.inflight = p.inflight
      /\ q.cursor \in Cursors /\ q.cursor.phase = ph /\ q.cursor.last = k
      /\ q.cursor.total = p.cursor.total /\ q.cursor.scanned = p.cursor.scanned + 1
      /\ q.cursor.removed = p.cursor.removed
  <2>. DEFINE c == [p.cursor EXCEPT !.phase = ph, !.last = k, !.scanned = @ + 1]
  <2>1. /\ c \in Cursors /\ c.phase = ph /\ c.last = k
        /\ c.total = p.cursor.total /\ c.scanned = p.cursor.scanned + 1
        /\ c.removed = p.cursor.removed
    <3>1. p.cursor \in Cursors /\ ph \in 0..Finished
      BY DEF Pools, Finished
    <3>2. p.cursor.scanned + 1 \in Nat
      BY <3>1 DEF Cursors
    <3>3. c = [[[p.cursor EXCEPT !.phase = ph] EXCEPT !.last = k]
                 EXCEPT !.scanned = p.cursor.scanned + 1]
      BY <3>1 DEF Cursors
    <3>. HIDE DEF c
    <3>4. [p.cursor EXCEPT !.phase = ph] \in Cursors
      BY <3>1 DEF Cursors
    <3>5. [[p.cursor EXCEPT !.phase = ph] EXCEPT !.last = k] \in Cursors
      BY <1>2, <3>4 DEF Cursors
    <3>6. c \in Cursors
      BY <3>2, <3>3, <3>5 DEF Cursors
    <3>7. QED
      BY <3>1, <3>3, <3>6 DEF Cursors
  <2>2. q = [p EXCEPT !.cursor = c]
    BY DEF Pools, Cursors
  <2>. HIDE DEF c
  <2>3. QED
    BY <2>1, <2>2 DEF Pools
<1>5. Visited(p, ph) = CASE ph = 2 -> NormalizedOne(q, k)
                         [] ph = 4 -> IndexedDeposit(q, k)
                         [] ph = 5 -> IndexedSpend(q, k)
                         [] OTHER -> q
  BY DEF Visited, k
<1>. HIDE DEF q
<1>6. CASE ph = 2
  <2>1. Visited(p, ph) = NormalizedOne(q, k)
    BY <1>5, <1>6
  <2>2. QED
    <3>1. k \in Spends /\ q \in Pools
      BY <1>3, <1>4, <1>6
    <3>. DEFINE r == NormalizedOne(q, k)
    <3>a. /\ r \in Pools /\ r.deposit = q.deposit /\ r.depositIndex = q.depositIndex
          /\ r.stamped = q.stamped
          /\ r.spend = [q.spend EXCEPT ![k] = NormalStatus(@)]
          /\ r.inflight = IF NormalStatus(q.spend[k]) \in Reserving
                 THEN q.inflight \cup {Note[k]} ELSE q.inflight
          /\ r.spendIndex = IF NormalStatus(q.spend[k]) = "none"
                 THEN q.spendIndex \ {k} ELSE q.spendIndex
          /\ r.cursor = IF NormalStatus(q.spend[k]) = "none"
                 THEN [q.cursor EXCEPT !.removed = @ + 1] ELSE q.cursor
      BY <3>1, VisitPhaseTwo
    <3>. HIDE DEF r
    <3>2. /\ r \in Pools /\ r.deposit = p.deposit /\ r.depositIndex = p.depositIndex
          /\ r.stamped = p.stamped
          /\ r.spend = [p.spend EXCEPT ![k] = NormalStatus(@)]
          /\ r.inflight = IF NormalStatus(p.spend[k]) \in Reserving
                 THEN p.inflight \cup {Note[k]} ELSE p.inflight
          /\ r.spendIndex = IF NormalStatus(p.spend[k]) = "none"
                 THEN p.spendIndex \ {k} ELSE p.spendIndex
          /\ r.cursor = IF NormalStatus(p.spend[k]) = "none"
                 THEN [q.cursor EXCEPT !.removed = @ + 1] ELSE q.cursor
      BY <1>4, <3>a
    <3>3. /\ r.cursor.phase = ph /\ r.cursor.last = k /\ r.cursor.total = p.cursor.total
          /\ r.cursor.scanned = p.cursor.scanned + 1
          /\ r.cursor.removed = IF NormalStatus(p.spend[k]) = "none"
                 THEN p.cursor.removed + 1 ELSE p.cursor.removed
      BY <1>4, <3>2 DEF Cursors
    <3>4. VisitOf(p, r, ph, k)
      BY <1>6, <3>2, <3>3 DEF VisitOf
    <3>5. QED
      BY <1>1, <2>1, <3>2, <3>4 DEF r
<1>7. CASE ph = 4
  <2>1. Visited(p, ph) = IF q.deposit[k] \in OpenDeposit
           THEN [q EXCEPT !.depositIndex = @ \cup {k}, !.cursor.expectedDeposits = @ + 1] ELSE q
    BY <1>5, <1>7 DEF IndexedDeposit
  <2>2. CASE q.deposit[k] \in OpenDeposit
    <3>. DEFINE c == [q.cursor EXCEPT !.expectedDeposits = @ + 1]
                r == [q EXCEPT !.depositIndex = @ \cup {k}, !.cursor = c]
    <3>1. /\ c \in Cursors /\ c.phase = ph /\ c.last = k
          /\ c.total = p.cursor.total /\ c.scanned = p.cursor.scanned + 1
          /\ c.removed = p.cursor.removed
      BY <1>4 DEF Cursors
    <3>2. Visited(p, ph) = r
      BY <1>4, <2>1, <2>2 DEF Pools
    <3>. HIDE DEF c
    <3>3. k \in Deposits /\ q.depositIndex \cup {k} \in SUBSET Deposits
      BY <1>3, <1>4, <1>7 DEF Pools
    <3>4. /\ r \in Pools /\ r.deposit = q.deposit /\ r.stamped = q.stamped /\ r.spend = q.spend
          /\ r.cursor = c /\ r.inflight = q.inflight /\ r.depositIndex = q.depositIndex \cup {k}
          /\ r.spendIndex = q.spendIndex
      BY <1>4, <3>1, <3>3 DEF Pools
    <3>. HIDE DEF r
    <3>5. VisitOf(p, r, ph, k)
      BY <1>4, <1>7, <2>2, <3>1, <3>4 DEF VisitOf
    <3>6. QED
      BY <1>1, <3>2, <3>4, <3>5
  <2>3. CASE q.deposit[k] \notin OpenDeposit
    BY <1>1, <1>3, <1>4, <1>7, <2>1, <2>3 DEF VisitOf
  <2>4. QED
    BY <2>2, <2>3
<1>8. CASE ph = 5
  <2>1. Visited(p, ph) = IF q.spend[k] \in OpenSpend
           THEN [q EXCEPT !.spendIndex = @ \cup {k}, !.cursor.expectedSpends = @ + 1] ELSE q
    BY <1>5, <1>8 DEF IndexedSpend
  <2>2. CASE q.spend[k] \in OpenSpend
    <3>. DEFINE c == [q.cursor EXCEPT !.expectedSpends = @ + 1]
                r == [q EXCEPT !.spendIndex = @ \cup {k}, !.cursor = c]
    <3>1. /\ c \in Cursors /\ c.phase = ph /\ c.last = k
          /\ c.total = p.cursor.total /\ c.scanned = p.cursor.scanned + 1
          /\ c.removed = p.cursor.removed
      BY <1>4 DEF Cursors
    <3>2. Visited(p, ph) = r
      BY <1>4, <2>1, <2>2 DEF Pools
    <3>. HIDE DEF c
    <3>3. k \in Spends /\ q.spendIndex \cup {k} \in SUBSET Spends
      BY <1>3, <1>4, <1>8 DEF Pools
    <3>4. /\ r \in Pools /\ r.deposit = q.deposit /\ r.stamped = q.stamped /\ r.spend = q.spend
          /\ r.cursor = c /\ r.inflight = q.inflight /\ r.spendIndex = q.spendIndex \cup {k}
          /\ r.depositIndex = q.depositIndex
      BY <1>4, <3>1, <3>3 DEF Pools
    <3>. HIDE DEF r
    <3>5. VisitOf(p, r, ph, k)
      BY <1>4, <1>8, <2>2, <3>1, <3>4 DEF VisitOf
    <3>6. QED
      BY <1>1, <3>2, <3>4, <3>5
  <2>3. CASE q.spend[k] \notin OpenSpend
    BY <1>1, <1>3, <1>4, <1>8, <2>1, <2>3 DEF VisitOf
  <2>4. QED
    BY <2>2, <2>3
<1>9. CASE ph \in {0, 1, 3}
  <2>1. Visited(p, ph) = q
    BY <1>5, <1>9
  <2>2. QED
    BY <1>1, <1>4, <1>9, <2>1 DEF VisitOf
<1>10. QED
  BY <1>6, <1>7, <1>8, <1>9

(* A visit completes the scan, or visits a record of the first phase with  *)
(* work.                                                                   *)
LEMMA VisitIs ==
  ASSUME NEW p \in Pools
  PROVE  /\ Visit(p) \in Pools
         /\ \/ /\ Visit(p) = [p EXCEPT !.cursor.phase = Finished]
               /\ \A ph \in p.cursor.phase..5 : Left(p, ph) = {}
            \/ \E ph \in p.cursor.phase..5 : \E k \in Left(p, ph) :
                  /\ \A x \in Left(p, ph) : k <= x
                  /\ \A h \in p.cursor.phase..5 : h < ph => Left(p, h) = {}
                  /\ VisitOf(p, Visit(p), ph, k)
<1>1. p.cursor.phase \in 0..6
  BY DEF Pools, Cursors, Finished
<1>2. CASE NextPhase(p) = Finished
  <2>1. Visit(p) = [p EXCEPT !.cursor.phase = Finished]
    BY <1>2 DEF Visit
  <2>2. Visit(p) \in Pools
    BY <2>1 DEF Pools, Cursors, Finished
  <2>3. \A ph \in p.cursor.phase..5 : Left(p, ph) = {}
    BY <1>1, <1>2, NextPhaseIs DEF Finished
  <2>4. QED
    BY <2>1, <2>2, <2>3
<1>3. CASE NextPhase(p) # Finished
  <2>. DEFINE ph == NextPhase(p)
  <2>1. Visit(p) = Visited(p, ph)
    BY <1>3 DEF Visit
  <2>2. ph \in p.cursor.phase..5 /\ ph \in 0..5 /\ Left(p, ph) # {}
        /\ \A h \in p.cursor.phase..5 : h < ph => Left(p, h) = {}
    BY <1>1, <1>3, NextPhaseIs
  <2>. HIDE DEF ph
  <2>3. PICK k \in Left(p, ph) : /\ \A x \in Left(p, ph) : k <= x
            /\ Visited(p, ph) \in Pools /\ VisitOf(p, Visited(p, ph), ph, k)
    BY <2>2, VisitedIs
  <2>4. QED
    BY <2>1, <2>2, <2>3
<1>4. QED
  BY <1>2, <1>3

-----------------------------------------------------------------------------
(* The visit removes its record, which then has no visit in phase 5.       *)
Gone(p, ph, k) == ph = 2 /\ NormalStatus(p.spend[k]) = "none"

(* What is left to read after a visit.                                     *)
LEMMA VisitLeft ==
  ASSUME NEW p \in Pools, NEW q \in Pools, NEW ph \in p.cursor.phase..5, ph \in 0..5,
         NEW k \in Left(p, ph), \A x \in Left(p, ph) : k <= x, VisitOf(p, q, ph, k)
  PROVE  /\ Left(q, ph) = Left(p, ph) \ {k}
         /\ \A h \in 0..5 : h > ph =>
               Left(q, h) = IF Gone(p, ph, k) /\ h = 5 THEN Left(p, h) \ {k} ELSE Left(p, h)
         /\ Gone(p, ph, k) => k \in Left(p, 5)
<1>. DEFINE D == Recorded(p.deposit)
            S == Recorded(p.spend)
            Keys(h) == IF h \in {0, 3, 4} THEN D ELSE S
            After(h) == IF h \notin {0, 3, 4} /\ Gone(p, ph, k) THEN S \ {k} ELSE Keys(h)
<1>0. p.cursor.phase \in 0..6 /\ p.cursor.last \in Nat /\ k \in Nat \ {0}
  BY LeftTypes DEF Pools, Cursors, Finished
<1>1. \A h \in 0..5 : Left(p, h) = {x \in Keys(h) : h = p.cursor.phase => x > p.cursor.last}
  BY DEF Left
<1>2. Recorded(q.deposit) = D
  BY DEF VisitOf
<1>3. Recorded(q.spend) = IF Gone(p, ph, k) THEN S \ {k} ELSE S
  <2>1. CASE ph = 2
    <3>1. q.spend = [p.spend EXCEPT ![k] = NormalStatus(@)] /\ k \in Spends
      BY <2>1, LeftTypes DEF VisitOf
    <3>2. p.spend[k] # "none"
      BY <1>1, <2>1 DEF Recorded
    <3>3. QED
      BY <2>1, <3>1, <3>2 DEF Recorded, Gone, Pools
  <2>2. CASE ph # 2
    BY <2>2 DEF VisitOf, Gone
  <2>3. QED
    BY <2>1, <2>2
<1>4. q.cursor.phase = ph /\ q.cursor.last = k
  BY DEF VisitOf
<1>5. \A h \in 0..5 : Left(q, h) = {x \in After(h) : h = ph => x > k}
  <2>. SUFFICES ASSUME NEW h \in 0..5 PROVE Left(q, h) = {x \in After(h) : h = ph => x > k}
    OBVIOUS
  <2>1. (IF h \in {0, 3, 4} THEN Recorded(q.deposit) ELSE Recorded(q.spend)) = After(h)
    BY <1>2, <1>3
  <2>2. Left(q, h) = {x \in (IF h \in {0, 3, 4} THEN Recorded(q.deposit) ELSE Recorded(q.spend)) :
                        h = ph => x > k}
    BY <1>4 DEF Left
  <2>. HIDE DEF After
  <2>3. QED
    BY <2>1, <2>2
<1>6. \A h \in 0..5 : Keys(h) \subseteq Nat
  BY ScanAssumption DEF Recorded, Pools
<1>7. Gone(p, ph, k) => ph = 2 /\ k \in S
  BY <1>1 DEF Gone
<1>8. k \in Keys(ph) /\ (ph = p.cursor.phase => k > p.cursor.last)
  BY <1>1
<1>. HIDE DEF D, S
<1>9. Left(q, ph) = Left(p, ph) \ {k}
  <2>1. \A x \in Left(q, ph) : x \in Left(p, ph) \ {k}
    BY <1>0, <1>1, <1>5, <1>6, <1>7, <1>8
  <2>2. \A x \in Left(p, ph) \ {k} : x \in Left(q, ph)
    <3>. SUFFICES ASSUME NEW x \in Left(p, ph) \ {k} PROVE x \in Left(q, ph)
      OBVIOUS
    <3>1. x \in Keys(ph) /\ x > k
      BY <1>0, <1>1, <1>6
    <3>2. x \in After(ph)
      BY <3>1, <1>7, <1>0
    <3>. HIDE DEF After
    <3>3. QED
      BY <1>5, <3>1, <3>2
  <2>3. QED
    BY <2>1, <2>2
<1>10. \A h \in 0..5 : h > ph =>
          Left(q, h) = IF Gone(p, ph, k) /\ h = 5 THEN Left(p, h) \ {k} ELSE Left(p, h)
  <2>. SUFFICES ASSUME NEW h \in 0..5, h > ph
                PROVE Left(q, h) = IF Gone(p, ph, k) /\ h = 5 THEN Left(p, h) \ {k} ELSE Left(p, h)
    OBVIOUS
  <2>1. Left(q, h) = After(h) /\ Left(p, h) = Keys(h)
    BY <1>0, <1>1, <1>5
  <2>2. QED
    BY <2>1, <1>7, <1>0
<1>11. Gone(p, ph, k) => k \in Left(p, 5)
  BY <1>0, <1>1, <1>7
<1>12. QED
  BY <1>9, <1>10, <1>11

-----------------------------------------------------------------------------
(* Every record that is not settled is indexed, or still to be indexed.    *)
IndexInv(p) ==
    /\ p.depositIndex \subseteq Having(p.deposit, OpenDeposit)
    /\ p.spendIndex \subseteq Having(p.spend, OpenSpend)
    /\ \A d \in Having(p.deposit, OpenDeposit) :
          d \in p.depositIndex \/ (p.cursor.phase <= 4 /\ d \in Left(p, 4))
    /\ \A s \in Having(p.spend, OpenSpend) :
          s \in p.spendIndex \/ (p.cursor.phase <= 5 /\ s \in Left(p, 5))
    /\ p.stamped => Complete(p)

(* The cursor's arithmetic is right until the pool opens.                  *)
Counted(p) ==
    p.cursor.total = p.cursor.scanned + p.cursor.removed
        + Work(p, 0) + Work(p, 1) + Work(p, 2) + Work(p, 3) + Work(p, 4) + Work(p, 5)

(* After a visit: a phase that was visited has a record.                   *)
Begun(p) ==
    /\ p.cursor.phase = 0 => Recorded(p.deposit) # {}
    /\ p.cursor.phase = 1 => Recorded(p.spend) # {}

(* How the scan relates a pool to a later one.                             *)
ScanRel(p, q) ==
    /\ q.deposit = p.deposit
    /\ \A s \in Spends : \/ q.spend[s] = p.spend[s]
                         \/ s \in Late(p) /\ q.spend[s] = NormalStatus(p.spend[s])
    /\ p.inflight \subseteq q.inflight
    /\ Late(q) \subseteq Late(p)
    /\ \A s \in Late(p) \ Late(q) : q.spend[s] \in Reserving => Note[s] \in q.inflight
    /\ Admits(p) => Admits(q)
    /\ Counted(p) => Counted(q)
    /\ IndexInv(p) => IndexInv(q)

(* The saturated subtraction of the remainder.                             *)
LEMMA MaxIs ==
  ASSUME NEW x \in Int
  PROVE  Max({0, x}) = IF x > 0 THEN x ELSE 0
<1>1. \E y \in {0, x} : \A z \in {0, x} : y >= z
  OBVIOUS
<1>2. Max({0, x}) \in {0, x} /\ \A z \in {0, x} : Max({0, x}) >= z
  BY <1>1 DEF Max
<1>3. QED
  BY <1>2

(* The gate is open when the scan is complete or the counts leave nothing. *)
LEMMA AdmitsIs ==
  ASSUME NEW p \in Pools
  PROVE  Admits(p) <=> (Complete(p) \/ p.cursor.total <= p.cursor.scanned + p.cursor.removed)
<1>1. p.cursor.total - p.cursor.scanned - p.cursor.removed \in Int
      /\ p.cursor.total \in Nat /\ p.cursor.scanned \in Nat /\ p.cursor.removed \in Nat
  BY DEF Pools, Cursors
<1>2. Remaining(p) = 0 <=> p.cursor.total - p.cursor.scanned - p.cursor.removed <= 0
  BY <1>1, MaxIs DEF Remaining
<1>3. QED
  BY <1>1, <1>2 DEF Admits

(* A phase's share of the remainder is zero when it has nothing to read.   *)
LEMMA WorkTypes ==
  ASSUME NEW p \in Pools, NEW h \in 0..5
  PROVE  /\ Work(p, h) \in Nat
         /\ h >= p.cursor.phase /\ Work(p, h) = 0 => Left(p, h) = {}
         /\ h >= p.cursor.phase /\ Left(p, h) = {} => Work(p, h) = 0
         /\ h < p.cursor.phase => Work(p, h) = 0
<1>1. p.cursor.phase \in Int
  BY DEF Pools, Cursors, Finished
<1>2. IsFiniteSet(Left(p, h))
  BY LeftTypes
<1>3. QED
  BY <1>1, <1>2, FS_CardinalityType, FS_EmptySet DEF Work

(* A pool whose arithmetic is right opens when there is nothing left.      *)
LEMMA NothingLeft ==
  ASSUME NEW p \in Pools, Counted(p), Admits(p)
  PROVE  \A h \in 0..5 : h >= p.cursor.phase => Left(p, h) = {}
<1>1. \A h \in 0..5 : Work(p, h) \in Nat
  BY WorkTypes
<1>2. CASE Complete(p)
  BY <1>2 DEF Complete, Finished
<1>3. CASE ~ Complete(p)
  <2>1. p.cursor.total <= p.cursor.scanned + p.cursor.removed
    BY <1>3, AdmitsIs
  <2>2. p.cursor.total \in Nat /\ p.cursor.scanned \in Nat /\ p.cursor.removed \in Nat
    BY DEF Pools, Cursors
  <2>3. /\ Work(p, 0) \in Nat /\ Work(p, 1) \in Nat /\ Work(p, 2) \in Nat
        /\ Work(p, 3) \in Nat /\ Work(p, 4) \in Nat /\ Work(p, 5) \in Nat
    BY <1>1
  <2>4. /\ Work(p, 0) = 0 /\ Work(p, 1) = 0 /\ Work(p, 2) = 0
        /\ Work(p, 3) = 0 /\ Work(p, 4) = 0 /\ Work(p, 5) = 0
    BY <2>1, <2>2, <2>3 DEF Counted
  <2>5. \A h \in 0..5 : Work(p, h) = 0
    BY <2>4
  <2>6. QED
    BY <2>5, WorkTypes
<1>4. QED
  BY <1>2, <1>3

(* Normalising twice is normalising once, and keeps what reserves a note.  *)
LEMMA NormalTwice ==
  ASSUME NEW st \in SpendStatus
  PROVE  /\ NormalStatus(NormalStatus(st)) = NormalStatus(st)
         /\ NormalStatus(st) \in SpendStatus
         /\ NormalStatus(st) \in Reserving <=> st \in Reserving
         /\ NormalStatus(st) # "none" => (NormalStatus(st) \in OpenSpend <=> st \in OpenSpend)
         /\ NormalStatus(st) = "none" => NormalStatus(st) \notin OpenSpend
BY DEF NormalStatus, SpendStatus, Reserving, OpenSpend

(* No visit.                                                               *)
LEMMA ScanRelReflexive ==
  ASSUME NEW p \in Pools
  PROVE  ScanRel(p, p)
BY DEF ScanRel

(* Two visits.                                                             *)
LEMMA ScanRelTransitive ==
  ASSUME NEW p \in Pools, NEW q \in Pools, NEW r \in Pools, ScanRel(p, q), ScanRel(q, r)
  PROVE  ScanRel(p, r)
<1>1. \A s \in Spends : \/ r.spend[s] = p.spend[s]
                        \/ s \in Late(p) /\ r.spend[s] = NormalStatus(p.spend[s])
  <2>. SUFFICES ASSUME NEW s \in Spends
                PROVE  \/ r.spend[s] = p.spend[s]
                       \/ s \in Late(p) /\ r.spend[s] = NormalStatus(p.spend[s])
    OBVIOUS
  <2>1. p.spend[s] \in SpendStatus
    BY DEF Pools
  <2>2. QED
    BY <2>1, NormalTwice DEF ScanRel
<1>2. \A s \in Late(p) \ Late(r) : r.spend[s] \in Reserving => Note[s] \in r.inflight
  <2>. SUFFICES ASSUME NEW s \in Late(p) \ Late(r), r.spend[s] \in Reserving
                PROVE  Note[s] \in r.inflight
    OBVIOUS
  <2>1. CASE s \in Late(q)
    BY <2>1 DEF ScanRel
  <2>2. CASE s \notin Late(q)
    <3>1. s \in Spends
      BY LeftTypes DEF Late
    <3>2. r.spend[s] = q.spend[s]
      BY <2>2, <3>1 DEF ScanRel
    <3>3. QED
      BY <2>2, <3>2 DEF ScanRel
  <2>3. QED
    BY <2>1, <2>2
<1>3. QED
  BY <1>1, <1>2 DEF ScanRel

(* A visit takes one from the work left and adds one to the scanned; a     *)
(* removed record takes its visit of phase 5 with it, which the removed    *)
(* count makes up for.                                                     *)
LEMMA CountedAfter ==
  ASSUME NEW p \in Pools, NEW q \in Pools, NEW ph \in p.cursor.phase..5, ph \in 0..5,
         NEW k \in Left(p, ph), \A x \in Left(p, ph) : k <= x,
         \A h \in p.cursor.phase..5 : h < ph => Left(p, h) = {},
         VisitOf(p, q, ph, k), Counted(p)
  PROVE  Counted(q)
<1>0. p.cursor.phase \in 0..6 /\ q.cursor.phase = ph
  BY DEF Pools, Cursors, Finished, VisitOf
<1>1. \A h \in 0..5 : Work(p, h) \in Nat /\ Work(q, h) \in Nat
  BY WorkTypes
<1>2. \A h \in 0..5 : h < ph => Work(p, h) = 0 /\ Work(q, h) = 0
  <2>. SUFFICES ASSUME NEW h \in 0..5, h < ph PROVE Work(p, h) = 0 /\ Work(q, h) = 0
    OBVIOUS
  <2>1. Work(q, h) = 0
    BY <1>0, WorkTypes
  <2>2. CASE h < p.cursor.phase
    BY <2>1, <2>2, WorkTypes
  <2>3. CASE h >= p.cursor.phase
    <3>1. Left(p, h) = {}
      BY <1>0, <2>3
    <3>2. QED
      BY <2>1, <2>3, <3>1, WorkTypes
  <2>4. QED
    BY <1>0, <2>2, <2>3
<1>3. Work(q, ph) = Work(p, ph) - 1
  <2>1. Left(q, ph) = Left(p, ph) \ {k}
    BY VisitLeft
  <2>2. IsFiniteSet(Left(p, ph))
    BY LeftTypes
  <2>3. Cardinality(Left(q, ph)) = Cardinality(Left(p, ph)) - 1
    BY <2>1, <2>2, FS_RemoveElement
  <2>4. QED
    BY <1>0, <2>3 DEF Work
<1>4. \A h \in 0..5 : h > ph /\ ~ (Gone(p, ph, k) /\ h = 5) => Work(q, h) = Work(p, h)
  <2>. SUFFICES ASSUME NEW h \in 0..5, h > ph, ~ (Gone(p, ph, k) /\ h = 5)
                PROVE  Work(q, h) = Work(p, h)
    OBVIOUS
  <2>1. Left(q, h) = Left(p, h)
    BY VisitLeft
  <2>2. QED
    BY <1>0, <2>1 DEF Work
<1>5. Gone(p, ph, k) => Work(q, 5) = Work(p, 5) - 1
  <2>. SUFFICES ASSUME Gone(p, ph, k) PROVE Work(q, 5) = Work(p, 5) - 1
    OBVIOUS
  <2>1. ph = 2
    BY DEF Gone
  <2>2. Left(q, 5) = Left(p, 5) \ {k} /\ k \in Left(p, 5)
    BY <2>1, VisitLeft
  <2>3. IsFiniteSet(Left(p, 5))
    BY LeftTypes
  <2>4. Cardinality(Left(q, 5)) = Cardinality(Left(p, 5)) - 1
    BY <2>2, <2>3, FS_RemoveElement
  <2>5. QED
    BY <1>0, <2>1, <2>4 DEF Work
<1>6. /\ q.cursor.total = p.cursor.total /\ q.cursor.scanned = p.cursor.scanned + 1
      /\ q.cursor.removed = IF Gone(p, ph, k) THEN p.cursor.removed + 1 ELSE p.cursor.removed
  BY DEF VisitOf, Gone
<1>7. p.cursor.total \in Nat /\ p.cursor.scanned \in Nat /\ p.cursor.removed \in Nat
  BY DEF Pools, Cursors
<1>8. Gone(p, ph, k) => ph = 2
  BY DEF Gone
<1>. DEFINE P(h) == Work(p, h)
            Q(h) == Work(q, h)
<1>9. /\ P(0) \in Nat /\ P(1) \in Nat /\ P(2) \in Nat /\ P(3) \in Nat /\ P(4) \in Nat /\ P(5) \in Nat
      /\ Q(0) \in Nat /\ Q(1) \in Nat /\ Q(2) \in Nat /\ Q(3) \in Nat /\ Q(4) \in Nat /\ Q(5) \in Nat
  BY <1>1
<1>10. Q(0) + Q(1) + Q(2) + Q(3) + Q(4) + Q(5) + 1
          + (IF Gone(p, ph, k) THEN 1 ELSE 0)
        = P(0) + P(1) + P(2) + P(3) + P(4) + P(5)
  <2>1. CASE ph = 0
    BY <1>2, <1>3, <1>4, <1>8, <1>9, <2>1
  <2>2. CASE ph = 1
    BY <1>2, <1>3, <1>4, <1>8, <1>9, <2>2
  <2>3. CASE ph = 2 /\ Gone(p, ph, k)
    BY <1>2, <1>3, <1>4, <1>5, <1>9, <2>3
  <2>4. CASE ph = 2 /\ ~ Gone(p, ph, k)
    BY <1>2, <1>3, <1>4, <1>9, <2>4
  <2>5. CASE ph = 3
    BY <1>2, <1>3, <1>4, <1>8, <1>9, <2>5
  <2>6. CASE ph = 4
    BY <1>2, <1>3, <1>4, <1>8, <1>9, <2>6
  <2>7. CASE ph = 5
    BY <1>2, <1>3, <1>4, <1>8, <1>9, <2>7
  <2>8. QED
    BY <2>1, <2>2, <2>3, <2>4, <2>5, <2>6, <2>7
<1>. HIDE DEF P, Q
<1>11. p.cursor.total = p.cursor.scanned + p.cursor.removed + P(0) + P(1) + P(2) + P(3) + P(4) + P(5)
  BY DEF Counted, P
<1>12. q.cursor.total = q.cursor.scanned + q.cursor.removed + Q(0) + Q(1) + Q(2) + Q(3) + Q(4) + Q(5)
  BY <1>6, <1>7, <1>9, <1>10, <1>11
<1>13. QED
  BY <1>12 DEF Counted, Q

(* A visit keeps what is not settled indexed or still to be indexed.       *)
LEMMA IndexAfter ==
  ASSUME NEW p \in Pools, NEW q \in Pools, NEW ph \in p.cursor.phase..5, ph \in 0..5,
         NEW k \in Left(p, ph), \A x \in Left(p, ph) : k <= x,
         \A h \in p.cursor.phase..5 : h < ph => Left(p, h) = {},
         VisitOf(p, q, ph, k), IndexInv(p)
  PROVE  IndexInv(q)
<1>0. p.cursor.phase \in 0..6 /\ q.cursor.phase = ph
  BY DEF Pools, Cursors, Finished, VisitOf
<1>1. (ph \in {0, 3, 4} => k \in Deposits) /\ (ph \notin {0, 3, 4} => k \in Spends)
  BY LeftTypes
<1>2. q.deposit = p.deposit /\ p.deposit \in [Deposits -> DepositStatus]
      /\ p.spend \in [Spends -> SpendStatus] /\ q.spend \in [Spends -> SpendStatus]
  BY DEF VisitOf, Pools
<1>3. q.depositIndex \subseteq Having(q.deposit, OpenDeposit)
  BY <1>1, <1>2 DEF VisitOf, IndexInv, Having
<1>4. \A d \in Having(q.deposit, OpenDeposit) :
         d \in q.depositIndex \/ (q.cursor.phase <= 4 /\ d \in Left(q, 4))
  <2>. SUFFICES ASSUME NEW d \in Having(p.deposit, OpenDeposit), d \notin q.depositIndex
                PROVE  ph <= 4 /\ d \in Left(q, 4)
    BY <1>0, <1>2
  <2>1. d \notin p.depositIndex
    BY DEF VisitOf
  <2>2. p.cursor.phase <= 4 /\ d \in Left(p, 4)
    BY <2>1 DEF IndexInv
  <2>3. ph <= 4
    BY <1>0, <2>2
  <2>4. CASE ph = 4
    <3>1. d # k
      BY <2>4 DEF VisitOf, Having
    <3>2. QED
      BY <2>2, <2>4, <3>1, VisitLeft
  <2>5. CASE ph < 4
    BY <2>2, <2>5, VisitLeft
  <2>6. QED
    BY <1>0, <2>3, <2>4, <2>5
<1>5. \A s \in Spends : q.spend[s] = p.spend[s] \/ (ph = 2 /\ s = k /\ q.spend[s] = NormalStatus(p.spend[s]))
  BY <1>1, <1>2 DEF VisitOf
<1>6. q.spendIndex \subseteq Having(q.spend, OpenSpend)
  <2>. SUFFICES ASSUME NEW s \in q.spendIndex PROVE s \in Spends /\ q.spend[s] \in OpenSpend
    BY <1>2 DEF Having
  <2>1. CASE s \in p.spendIndex
    <3>1. s \in Spends /\ p.spend[s] \in OpenSpend /\ p.spend[s] \in SpendStatus
      BY <1>2, <2>1 DEF IndexInv, Having
    <3>2. CASE q.spend[s] = p.spend[s]
      BY <3>1, <3>2
    <3>3. CASE ph = 2 /\ s = k /\ q.spend[s] = NormalStatus(p.spend[s])
      <4>1. NormalStatus(p.spend[k]) # "none"
        BY <3>3 DEF VisitOf
      <4>2. QED
        BY <3>1, <3>3, <4>1, NormalTwice
    <3>4. QED
      BY <1>5, <3>1, <3>2, <3>3
  <2>2. CASE s \notin p.spendIndex
    <3>1. ph = 5 /\ s = k /\ p.spend[k] \in OpenSpend /\ q.spend = p.spend
      BY <1>0, <2>2 DEF VisitOf
    <3>2. QED
      BY <1>1, <3>1
  <2>3. QED
    BY <2>1, <2>2
<1>7. \A s \in Having(q.spend, OpenSpend) :
         s \in q.spendIndex \/ (q.cursor.phase <= 5 /\ s \in Left(q, 5))
  <2>. SUFFICES ASSUME NEW s \in Spends, q.spend[s] \in OpenSpend, s \notin q.spendIndex
                PROVE  ph <= 5 /\ s \in Left(q, 5)
    BY <1>0, <1>2 DEF Having
  <2>1. p.spend[s] \in SpendStatus
    BY <1>2
  <2>2. p.spend[s] \in OpenSpend /\ ~ (Gone(p, ph, k) /\ s = k)
    BY <1>5, <1>2, <1>1, <2>1, NormalTwice DEF Gone, VisitOf, OpenSpend
  <2>3. s \notin p.spendIndex
    BY <2>2 DEF VisitOf, Gone
  <2>4. s \in Left(p, 5)
    BY <1>2, <2>2, <2>3 DEF IndexInv, Having
  <2>5. CASE ph = 5
    <3>1. s # k
      BY <2>2, <2>5 DEF VisitOf
    <3>2. QED
      BY <2>4, <2>5, <3>1, VisitLeft
  <2>6. CASE ph < 5
    BY <2>2, <2>4, <2>6, VisitLeft
  <2>7. QED
    BY <1>0, <2>5, <2>6
<1>8. q.stamped => Complete(q)
  <2>1. q.stamped = p.stamped
    BY DEF VisitOf
  <2>2. p.cursor.phase # 6
    BY <1>0
  <2>3. QED
    BY <2>1, <2>2 DEF IndexInv, Complete, Finished
<1>9. QED
  BY <1>3, <1>4, <1>6, <1>7, <1>8 DEF IndexInv

(* What one visit does.                                                    *)
LEMMA VisitKeeps ==
  ASSUME NEW p \in Pools
  PROVE  Visit(p) \in Pools /\ ScanRel(p, Visit(p)) /\ Begun(Visit(p))
<1>. DEFINE q == Visit(p)
<1>0. q \in Pools /\ p.cursor.phase \in 0..6
  BY VisitIs DEF Pools, Cursors, Finished
<1>1. CASE /\ q = [p EXCEPT !.cursor.phase = Finished]
           /\ \A ph \in p.cursor.phase..5 : Left(p, ph) = {}
  <2>1. /\ q.deposit = p.deposit /\ q.spend = p.spend /\ q.inflight = p.inflight
        /\ q.depositIndex = p.depositIndex /\ q.spendIndex = p.spendIndex
        /\ q.stamped = p.stamped /\ q.cursor.phase = 6 /\ q.cursor.total = p.cursor.total
        /\ q.cursor.scanned = p.cursor.scanned /\ q.cursor.removed = p.cursor.removed
    BY <1>1 DEF Pools, Cursors, Finished
  <2>. HIDE DEF q
  <2>2. Late(q) = {} /\ Late(p) = {}
    BY <1>0, <1>1, <2>1 DEF Late
  <2>3. Complete(q)
    BY <2>1 DEF Complete, Finished
  <2>4. \A h \in 0..5 : Work(p, h) = 0 /\ Work(q, h) = 0
    <3>. SUFFICES ASSUME NEW h \in 0..5 PROVE Work(p, h) = 0 /\ Work(q, h) = 0
      OBVIOUS
    <3>1. Work(q, h) = 0
      BY <1>0, <2>1, WorkTypes
    <3>2. h >= p.cursor.phase => Left(p, h) = {}
      BY <1>0, <1>1
    <3>3. QED
      BY <1>0, <3>1, <3>2, WorkTypes
  <2>5. Counted(p) => Counted(q)
    BY <2>1, <2>4 DEF Counted
  <2>6. IndexInv(p) => IndexInv(q)
    <3>. SUFFICES ASSUME IndexInv(p) PROVE IndexInv(q)
      OBVIOUS
    <3>1. p.cursor.phase <= 4 => Left(p, 4) = {}
      BY <1>0, <1>1
    <3>2. p.cursor.phase <= 5 => Left(p, 5) = {}
      BY <1>0, <1>1
    <3>3. QED
      BY <2>1, <2>3, <3>1, <3>2 DEF IndexInv
  <2>7. Begun(q)
    BY <2>1 DEF Begun
  <2>8. ScanRel(p, q)
    BY <2>1, <2>2, <2>3, <2>5, <2>6 DEF ScanRel, Admits
  <2>9. QED
    BY <1>0, <2>7, <2>8 DEF q
<1>2. ASSUME NEW ph \in p.cursor.phase..5, NEW k \in Left(p, ph),
             \A x \in Left(p, ph) : k <= x,
             \A h \in p.cursor.phase..5 : h < ph => Left(p, h) = {},
             VisitOf(p, q, ph, k)
      PROVE  ScanRel(p, q) /\ Begun(q)
  <2>. HIDE DEF q
  <2>0. ph \in 0..5 /\ q.cursor.phase = ph
    BY <1>0, <1>2 DEF VisitOf
  <2>1. Counted(p) => Counted(q)
    BY <1>0, <1>2, <2>0, CountedAfter
  <2>2. IndexInv(p) => IndexInv(q)
    BY <1>0, <1>2, <2>0, IndexAfter
  <2>3. Left(q, ph) = Left(p, ph) \ {k} /\ (ph < 2 => Left(q, 2) = Left(p, 2))
    BY <1>0, <1>2, <2>0, VisitLeft
  <2>4. Late(q) \subseteq Late(p) /\ (ph <= 1 => Late(q) = Late(p)) /\ (ph = 2 => Late(q) = Late(p) \ {k})
    BY <1>0, <2>0, <2>3 DEF Late
  <2>5. ph > 2 => Late(p) = {}
    BY <1>0, <1>2, <2>0 DEF Late
  <2>6. \A s \in Spends : \/ q.spend[s] = p.spend[s]
                          \/ s \in Late(p) /\ q.spend[s] = NormalStatus(p.spend[s])
    <3>1. CASE ph = 2
      <4>1. k \in Late(p)
        BY <1>0, <1>2, <3>1 DEF Late
      <4>2. q.spend = [p.spend EXCEPT ![k] = NormalStatus(@)]
        BY <1>2, <3>1 DEF VisitOf
      <4>3. QED
        BY <4>1, <4>2 DEF Pools
    <3>2. CASE ph # 2
      BY <1>2, <3>2 DEF VisitOf
    <3>3. QED
      BY <3>1, <3>2
  <2>7. p.inflight \subseteq q.inflight
    BY <1>2 DEF VisitOf
  <2>8. \A s \in Late(p) \ Late(q) : q.spend[s] \in Reserving => Note[s] \in q.inflight
    <3>. SUFFICES ASSUME NEW s \in Late(p) \ Late(q), q.spend[s] \in Reserving
                  PROVE  Note[s] \in q.inflight
      OBVIOUS
    <3>1. ph = 2 /\ s = k
      BY <2>0, <2>4, <2>5
    <3>2. k \in Spends
      BY <1>2, <3>1, LeftTypes
    <3>3. q.spend[k] = NormalStatus(p.spend[k])
      BY <1>2, <3>1, <3>2 DEF VisitOf, Pools
    <3>4. QED
      BY <1>2, <3>1, <3>3 DEF VisitOf
  <2>9. Admits(p) => Admits(q)
    <3>. SUFFICES ASSUME Admits(p) PROVE Admits(q)
      OBVIOUS
    <3>1. ~ Complete(p)
      BY <1>0, <1>2, <2>0 DEF Complete, Finished
    <3>2. p.cursor.total <= p.cursor.scanned + p.cursor.removed
      BY <3>1, AdmitsIs
    <3>3. /\ q.cursor.total = p.cursor.total /\ q.cursor.scanned = p.cursor.scanned + 1
          /\ q.cursor.removed \in {p.cursor.removed, p.cursor.removed + 1}
      BY <1>2, <2>0 DEF VisitOf
    <3>4. /\ p.cursor.total \in Nat /\ p.cursor.scanned \in Nat /\ p.cursor.removed \in Nat
      BY DEF Pools, Cursors
    <3>5. QED
      BY <1>0, <3>2, <3>3, <3>4, AdmitsIs
  <2>10. q.deposit = p.deposit
    BY <1>2 DEF VisitOf
  <2>11. ScanRel(p, q)
    BY <2>1, <2>2, <2>4, <2>6, <2>7, <2>8, <2>9, <2>10 DEF ScanRel
  <2>12. Begun(q)
    <3>1. CASE ph = 0
      BY <1>2, <2>0, <2>10, <3>1 DEF Begun, Left
    <3>2. CASE ph = 1
      <4>1. q.spend = p.spend
        BY <1>2, <3>2 DEF VisitOf
      <4>2. QED
        BY <1>2, <2>0, <3>2, <4>1 DEF Begun, Left
    <3>3. CASE ph \notin {0, 1}
      BY <2>0, <3>3 DEF Begun
    <3>4. QED
      BY <3>1, <3>2, <3>3
  <2>13. QED
    BY <2>11, <2>12
<1>3. QED
  BY <1>0, <1>1, <1>2, VisitIs

(* Stamping changes nothing else.                                          *)
LEMMA StampKeeps ==
  ASSUME NEW p \in Pools, Complete(p)
  PROVE  LET q == [p EXCEPT !.stamped = TRUE]
         IN  q \in Pools /\ ScanRel(p, q) /\ Begun(q) /\ Complete(q) /\ q.cursor = p.cursor
<1>. DEFINE q == [p EXCEPT !.stamped = TRUE]
<1>1. /\ q \in Pools /\ q.deposit = p.deposit /\ q.spend = p.spend /\ q.cursor = p.cursor
      /\ q.depositIndex = p.depositIndex /\ q.spendIndex = p.spendIndex /\ q.inflight = p.inflight
  BY DEF Pools
<1>. HIDE DEF q
<1>2. Complete(q)
  BY <1>1 DEF Complete
<1>3. \A h \in 0..5 : Left(q, h) = Left(p, h) /\ Work(q, h) = Work(p, h)
  BY <1>1 DEF Left, Work
<1>4. Late(q) = Late(p)
  BY <1>1, <1>3 DEF Late
<1>5. IndexInv(p) => IndexInv(q)
  BY <1>1, <1>2, <1>3 DEF IndexInv
<1>6. Counted(p) => Counted(q)
  BY <1>1, <1>3 DEF Counted
<1>7. Begun(q)
  BY <1>1, <1>2 DEF Begun, Complete, Finished
<1>8. ScanRel(p, q)
  BY <1>1, <1>2, <1>4, <1>5, <1>6 DEF ScanRel, Admits
<1>9. QED
  BY <1>1, <1>2, <1>7, <1>8 DEF q

(* What a chunk does.                                                      *)
LEMMA AdvanceRel ==
  ASSUME NEW p \in Pools, NEW r \in Advance(p)
  PROVE  r \in Pools /\ ScanRel(p, r) /\ Begun(r)
<1>. DEFINE S == {q \in Pools : ScanRel(p, q) /\ Begun(q)}
<1>1. Visit(p) \in S
  BY VisitKeeps
<1>2. \A q \in S : Visit(q) \in S
  BY VisitKeeps, ScanRelTransitive
<1>. HIDE DEF S
<1>3. PICK q \in S : r = IF Complete(q) THEN [q EXCEPT !.stamped = TRUE] ELSE q
  BY <1>1, <1>2, AdvanceKeeps
<1>4. q \in Pools /\ ScanRel(p, q) /\ Begun(q)
  BY DEF S
<1>5. CASE Complete(q)
  BY <1>3, <1>4, <1>5, StampKeeps, ScanRelTransitive
<1>6. CASE ~ Complete(q)
  BY <1>3, <1>4, <1>6
<1>7. QED
  BY <1>5, <1>6

-----------------------------------------------------------------------------
(* The invariant, of a pool p, the calls dc and sc at work, the requests   *)
(* sn under way, the registry b and the history st.                        *)

NoCalls(dc, sc) == dc = {} /\ \A s \in Spends : sc[s] = "none"

(* A call works on a record that is in a state of its own.                 *)
OwnInv(p, dc, sc) ==
    /\ \A d \in dc : p.deposit[d] \in {"none", "open"}
    /\ \A s \in Spends :
          /\ sc[s] = "early" => p.spend[s] = "none"
          /\ sc[s] = "operator" => p.spend[s] \in {"reconciling", "committed"}
          /\ sc[s] = "client" =>
                p.spend[s] \in {"none", "verifying", "staged", "unknown", "committed"}

(* A spend that reserves its note has it reserved, once the pool is open.  *)
ReserveInv(p) ==
    \A s \in Having(p.spend, Reserving) :
        Note[s] \in p.inflight \/ (~ Admits(p) /\ s \in Late(p))

(* Only one spend of a note reserves it, and only while nothing has become *)
(* of the note but by that spend.                                          *)
SpendInv(p, sn, b, st) ==
    /\ \A s, t \in Having(p.spend, Reserving) : Note[s] = Note[t] => s = t
    /\ \A s \in Having(p.spend, Reserving) : b[Note[s]] \in {Absent, s} /\ st[Note[s]] = 0
    /\ sn \subseteq Having(p.spend, Reserving)
    /\ \A n \in Notes : st[n] <= 1 /\ (st[n] # 0 => b[n] # Absent)

(* A pool that opened in phase 2 has at most one record to visit there.    *)
LateInv(p, sc) ==
    /\ Complete(p) \/ p.cursor.phase >= 2
    /\ \A s \in Late(p) : sc[s] # "operator" /\ \A t \in Spends : sc[t] # "early"
    /\ \A s, t \in Late(p) : s = t
    /\ p.cursor.phase = 2 => \A s, t \in Spends : sc[s] = "early" /\ sc[t] = "early" => s = t

(* Before the pool opens nothing works on it.                              *)
GateInv(p, dc, sc) ==
    IF Admits(p) THEN LateInv(p, sc) ELSE NoCalls(dc, sc) /\ Counted(p) /\ Begun(p)

PoolInv(p, dc, sc, sn, b, st) ==
    IndexInv(p) /\ OwnInv(p, dc, sc) /\ ReserveInv(p) /\ SpendInv(p, sn, b, st)
    /\ GateInv(p, dc, sc)

(* What a call that is let in finds.                                       *)
JustOpened(p, sc) ==
    /\ Late(p) = {} /\ (Complete(p) \/ p.cursor.phase >= 2)
    /\ p.cursor.phase = 2 => \A t \in Spends : sc[t] # "early"

(* Phases that have not begun have all their records left.                 *)
LEMMA PhaseLeft ==
  ASSUME NEW p \in Pools
  PROVE  /\ p.cursor.phase \in 0..6
         /\ p.cursor.phase > 2 => Late(p) = {}
         /\ p.cursor.phase < 3 => Left(p, 3) = Recorded(p.deposit)
         /\ p.cursor.phase < 2 => Left(p, 2) = Recorded(p.spend)
         /\ Late(p) \subseteq Spends
<1>1. p.cursor.phase \in 0..6
  BY DEF Pools, Cursors, Finished
<1>2. Late(p) \subseteq Spends
  BY LeftTypes DEF Late
<1>3. QED
  BY <1>1, <1>2 DEF Late, Left

(* A visit leaves phase 2 unless a record was left there.                  *)
LEMMA VisitLate ==
  ASSUME NEW p \in Pools, NEW sc, LateInv(p, sc)
  PROVE  JustOpened(Visit(p), sc)
<1>. DEFINE q == Visit(p)
<1>0. q \in Pools /\ p.cursor.phase \in 0..6
  BY VisitIs, PhaseLeft
<1>1. CASE q = [p EXCEPT !.cursor.phase = Finished]
  <2>1. q.cursor.phase = 6
    BY <1>1 DEF Pools, Cursors, Finished
  <2>. HIDE DEF q
  <2>2. JustOpened(q, sc)
    BY <1>0, <2>1, PhaseLeft DEF JustOpened, Complete, Finished
  <2>3. QED
    BY <2>2 DEF q
<1>2. ASSUME NEW ph \in p.cursor.phase..5, NEW k \in Left(p, ph),
             \A x \in Left(p, ph) : k <= x, VisitOf(p, q, ph, k)
      PROVE  JustOpened(q, sc)
  <2>. HIDE DEF q
  <2>0. ph \in 0..5 /\ q.cursor.phase = ph /\ ph >= 2
    BY <1>0, <1>2 DEF VisitOf, LateInv, Complete, Finished
  <2>1. CASE ph = 2
    <3>1. k \in Late(p) /\ Late(p) = Left(p, 2)
      BY <1>0, <1>2, <2>1 DEF Late
    <3>2. Left(q, 2) = Left(p, 2) \ {k}
      BY <1>0, <1>2, <2>0, <2>1, VisitLeft
    <3>3. Late(q) = {}
      BY <2>0, <2>1, <3>1, <3>2 DEF Late, LateInv
    <3>4. QED
      BY <2>0, <3>1, <3>3 DEF JustOpened, LateInv
  <2>2. CASE ph # 2
    BY <1>0, <2>0, <2>2, PhaseLeft DEF JustOpened
  <2>3. QED
    BY <2>1, <2>2
<1>3. QED
  BY <1>1, <1>2, VisitIs

(* So does a chunk.                                                        *)
LEMMA AdvanceLate ==
  ASSUME NEW p \in Pools, NEW r \in Advance(p), NEW sc, LateInv(p, sc)
  PROVE  JustOpened(r, sc)
<1>. DEFINE S == {q \in Pools : JustOpened(q, sc)}
<1>1. Visit(p) \in S
  BY VisitLate, VisitKeeps
<1>2. \A q \in S : Visit(q) \in S
  <2>. SUFFICES ASSUME NEW q \in Pools, JustOpened(q, sc) PROVE Visit(q) \in S
    OBVIOUS
  <2>1. Visit(q) \in Pools
    BY VisitKeeps
  <2>2. CASE q.cursor.phase = 2
    <3>1. LateInv(q, sc)
      BY <2>2 DEF JustOpened, LateInv
    <3>2. QED
      BY <2>1, <3>1, VisitLate
  <2>3. CASE q.cursor.phase # 2
    <3>1. LateInv(q, sc)
      BY <2>3 DEF JustOpened, LateInv
    <3>2. QED
      BY <2>1, <3>1, VisitLate
  <2>4. QED
    BY <2>2, <2>3
<1>. HIDE DEF S
<1>3. PICK q \in S : r = IF Complete(q) THEN [q EXCEPT !.stamped = TRUE] ELSE q
  BY <1>1, <1>2, AdvanceKeeps
<1>4. q \in Pools /\ JustOpened(q, sc)
  BY DEF S
<1>5. CASE Complete(q)
  <2>1. r \in Pools /\ Complete(r) /\ r.cursor.phase = 6
    BY <1>3, <1>4, <1>5, StampKeeps DEF Complete, Finished
  <2>2. QED
    BY <2>1, PhaseLeft DEF JustOpened
<1>6. CASE ~ Complete(q)
  BY <1>3, <1>4, <1>6
<1>7. QED
  BY <1>5, <1>6

(* A chunk keeps the invariant, of a pool that is open or starts anew.     *)
LEMMA AdvanceInv ==
  ASSUME NEW p \in Pools, NEW r \in Advance(p), NEW dc, NEW sc, NEW sn, NEW b, NEW st,
         IndexInv(p), OwnInv(p, dc, sc), ReserveInv(p), SpendInv(p, sn, b, st),
         \/ Admits(p) /\ LateInv(p, sc)
         \/ NoCalls(dc, sc) /\ Counted(p)
  PROVE  /\ r \in Pools /\ PoolInv(r, dc, sc, sn, b, st)
         /\ Admits(r) => JustOpened(r, sc)
<1>0. r \in Pools /\ ScanRel(p, r) /\ Begun(r)
  BY AdvanceRel
<1>1. Admits(r) => JustOpened(r, sc)
  <2>. SUFFICES ASSUME Admits(r) PROVE JustOpened(r, sc)
    OBVIOUS
  <2>1. CASE Admits(p) /\ LateInv(p, sc)
    BY <2>1, AdvanceLate
  <2>2. CASE NoCalls(dc, sc) /\ Counted(p)
    <3>1. \A h \in 0..5 : h >= r.cursor.phase => Left(r, h) = {}
      BY <1>0, <2>2, NothingLeft DEF ScanRel
    <3>2. r.cursor.phase >= 2
      BY <1>0, <3>1, PhaseLeft DEF Begun
    <3>3. Late(r) = {}
      BY <1>0, <3>1, PhaseLeft DEF Late
    <3>4. QED
      BY <2>2, <3>2, <3>3 DEF JustOpened, NoCalls
  <2>3. QED
    BY <2>1, <2>2
<1>2. GateInv(r, dc, sc)
  <2>1. CASE Admits(r)
    BY <1>1, <2>1 DEF GateInv, JustOpened, LateInv
  <2>2. CASE ~ Admits(r)
    BY <1>0, <2>2 DEF GateInv, ScanRel
  <2>3. QED
    BY <2>1, <2>2
<1>3. /\ p.spend \in [Spends -> SpendStatus] /\ r.spend \in [Spends -> SpendStatus]
      /\ Late(p) \subseteq Spends
  BY <1>0, PhaseLeft DEF Pools
<1>4. Having(r.spend, Reserving) = Having(p.spend, Reserving)
  BY <1>0, <1>3, NormalTwice DEF ScanRel, Having
<1>5. OwnInv(r, dc, sc)
  <2>1. CASE NoCalls(dc, sc)
    BY <2>1 DEF NoCalls, OwnInv
  <2>2. CASE LateInv(p, sc)
    <3>1. \A d \in dc : r.deposit[d] \in {"none", "open"}
      BY <1>0 DEF OwnInv, ScanRel
    <3>2. ASSUME NEW s \in Spends
          PROVE  /\ sc[s] = "early" => r.spend[s] = "none"
                 /\ sc[s] = "operator" => r.spend[s] \in {"reconciling", "committed"}
                 /\ sc[s] = "client" =>
                       r.spend[s] \in {"none", "verifying", "staged", "unknown", "committed"}
      <4>1. CASE r.spend[s] = p.spend[s]
        BY <4>1 DEF OwnInv
      <4>2. CASE s \in Late(p) /\ r.spend[s] = NormalStatus(p.spend[s])
        <5>1. sc[s] # "operator" /\ sc[s] # "early"
          BY <2>2, <4>2 DEF LateInv
        <5>2. QED
          BY <4>2, <5>1 DEF OwnInv, NormalStatus
      <4>3. QED
        BY <1>0, <4>1, <4>2 DEF ScanRel
    <3>3. QED
      BY <3>1, <3>2 DEF OwnInv
  <2>3. QED
    BY <2>1, <2>2
<1>6. ReserveInv(r)
  <2>. SUFFICES ASSUME NEW s \in Having(r.spend, Reserving)
                PROVE  Note[s] \in r.inflight \/ (~ Admits(r) /\ s \in Late(r))
    BY DEF ReserveInv
  <2>1. s \in Having(p.spend, Reserving) /\ r.spend[s] \in Reserving
    BY <1>4 DEF Having
  <2>2. CASE Note[s] \in p.inflight
    BY <1>0, <2>2 DEF ScanRel
  <2>3. CASE s \in Late(p)
    <3>1. Note[s] \in r.inflight \/ s \in Late(r)
      BY <1>0, <2>1, <2>3 DEF ScanRel
    <3>2. QED
      BY <1>1, <3>1 DEF JustOpened
  <2>4. QED
    BY <2>1, <2>2, <2>3 DEF ReserveInv
<1>7. SpendInv(r, sn, b, st)
  BY <1>4 DEF SpendInv
<1>8. IndexInv(r)
  BY <1>0 DEF ScanRel
<1>9. QED
  BY <1>0, <1>1, <1>2, <1>5, <1>6, <1>7, <1>8 DEF PoolInv

-----------------------------------------------------------------------------
(* Steps of the calls that were let in.                                    *)

(* q is p but for the record of spend s, which has status x now.           *)
SpendEdit(p, q, s, x) ==
    /\ q.deposit = p.deposit /\ q.depositIndex = p.depositIndex
    /\ q.stamped = p.stamped /\ q.cursor = p.cursor
    /\ q.spend = [p.spend EXCEPT ![s] = x]
    /\ q.spendIndex = IF x \notin OpenSpend THEN p.spendIndex \ {s}
                      ELSE IF p.spend[s] \in OpenSpend THEN p.spendIndex
                      ELSE p.spendIndex \cup {s}

DepositEdit(p, q, d, x) ==
    /\ q.spend = p.spend /\ q.spendIndex = p.spendIndex
    /\ q.stamped = p.stamped /\ q.cursor = p.cursor /\ q.inflight = p.inflight
    /\ q.deposit = [p.deposit EXCEPT ![d] = x]
    /\ q.depositIndex = IF x \in OpenDeposit THEN p.depositIndex \cup {d}
                        ELSE p.depositIndex \ {d}

(* The status of each spend after an edit.                                 *)
LEMMA SpendEditIs ==
  ASSUME NEW p \in Pools, NEW q \in Pools, NEW s \in Spends, NEW x \in SpendStatus,
         SpendEdit(p, q, s, x)
  PROVE  /\ Admits(q) <=> Admits(p)
         /\ \A t \in Spends : q.spend[t] = IF t = s THEN x ELSE p.spend[t]
<1>1. Admits(q) <=> Admits(p)
  BY DEF SpendEdit, Admits, Complete, Remaining
<1>2. p.spend \in [Spends -> SpendStatus]
  BY DEF Pools
<1>3. \A t \in Spends : q.spend[t] = IF t = s THEN x ELSE p.spend[t]
  BY <1>2 DEF SpendEdit
<1>4. QED
  BY <1>1, <1>3

(* Phase 5 misses no other record for an edit.                             *)
LEMMA SpendEditLeft ==
  ASSUME NEW p \in Pools, NEW q \in Pools, NEW s \in Spends, NEW x \in SpendStatus,
         SpendEdit(p, q, s, x), NEW t \in Left(p, 5), ~ (t = s /\ x = "none")
  PROVE  t \in Left(q, 5)
<1>0. p.spend \in [Spends -> SpendStatus] /\ q.spend \in [Spends -> SpendStatus]
  BY DEF Pools
<1>1. t \in Spends /\ p.spend[t] # "none" /\ (5 = p.cursor.phase => t > p.cursor.last)
  BY <1>0 DEF Left, Recorded
<1>2. q.spend[t] # "none"
  BY <1>1, SpendEditIs
<1>3. QED
  BY <1>0, <1>1, <1>2 DEF Left, Recorded, SpendEdit

(* Phase 2 gets a record more by an edit that creates it alone.            *)
LEMMA SpendEditLate ==
  ASSUME NEW p \in Pools, NEW q \in Pools, NEW s \in Spends, NEW x \in SpendStatus,
         SpendEdit(p, q, s, x), NEW t \in Late(q)
  PROVE  t \in Late(p) \/ (t = s /\ p.spend[s] = "none" /\ x # "none")
<1>0. p.spend \in [Spends -> SpendStatus] /\ q.spend \in [Spends -> SpendStatus]
  BY DEF Pools
<1>1. q.cursor = p.cursor /\ p.cursor.phase <= 2
  BY DEF Late, SpendEdit
<1>2. t \in Spends /\ q.spend[t] # "none" /\ (2 = p.cursor.phase => t > p.cursor.last)
  BY <1>0, <1>1 DEF Late, Left, Recorded
<1>3. CASE p.spend[t] # "none"
  BY <1>0, <1>1, <1>2, <1>3 DEF Late, Left, Recorded
<1>4. CASE p.spend[t] = "none"
  BY <1>2, <1>4, SpendEditIs
<1>5. QED
  BY <1>3, <1>4

(* An edit to a status that reserves nothing.                              *)
LEMMA EditFrees ==
  ASSUME NEW p \in Pools, NEW q \in Pools, NEW s \in Spends, NEW x \in SpendStatus,
         SpendEdit(p, q, s, x), x \notin Reserving
  PROVE  Having(q.spend, Reserving) = Having(p.spend, Reserving) \ {s}
<1>1. p.spend \in [Spends -> SpendStatus] /\ q.spend \in [Spends -> SpendStatus]
  BY DEF Pools
<1>2. QED
  BY <1>1, SpendEditIs DEF Having

(* An edit to a status that reserves the note.                             *)
LEMMA EditReserves ==
  ASSUME NEW p \in Pools, NEW q \in Pools, NEW s \in Spends, NEW x \in SpendStatus,
         SpendEdit(p, q, s, x), x \in Reserving
  PROVE  Having(q.spend, Reserving) = Having(p.spend, Reserving) \cup {s}
<1>1. p.spend \in [Spends -> SpendStatus] /\ q.spend \in [Spends -> SpendStatus]
  BY DEF Pools
<1>2. QED
  BY <1>1, SpendEditIs DEF Having

(* An edit that adds what it opens to the index and takes out what it      *)
(* settles keeps the index complete.                                       *)
LEMMA SpendEditIndex ==
  ASSUME NEW p \in Pools, NEW q \in Pools, NEW s \in Spends, NEW x \in SpendStatus,
         SpendEdit(p, q, s, x), IndexInv(p)
  PROVE  IndexInv(q)
<1>0. p.spend \in [Spends -> SpendStatus] /\ q.spend \in [Spends -> SpendStatus]
  BY DEF Pools
<1>1. \A t \in Spends : q.spend[t] = IF t = s THEN x ELSE p.spend[t]
  BY <1>0 DEF SpendEdit
<1>2. q.spendIndex \subseteq Having(q.spend, OpenSpend)
  BY <1>0, <1>1 DEF SpendEdit, IndexInv, Having
<1>3. \A t \in Having(q.spend, OpenSpend) :
         t \in q.spendIndex \/ (q.cursor.phase <= 5 /\ t \in Left(q, 5))
  <2>. SUFFICES ASSUME NEW t \in Having(q.spend, OpenSpend), t \notin q.spendIndex
                PROVE  q.cursor.phase <= 5 /\ t \in Left(q, 5)
    OBVIOUS
  <2>1. t \in Spends /\ q.spend[t] \in OpenSpend
    BY <1>0 DEF Having
  <2>2. p.spend[t] \in OpenSpend /\ t \notin p.spendIndex
    BY <1>1, <2>1 DEF SpendEdit
  <2>3. p.cursor.phase <= 5 /\ t \in Left(p, 5)
    BY <1>0, <2>1, <2>2 DEF IndexInv, Having
  <2>4. ~ (t = s /\ x = "none")
    BY <1>1, <2>1 DEF OpenSpend
  <2>6. t \in Left(q, 5)
    BY <2>3, <2>4, SpendEditLeft
  <2>7. QED
    BY <2>3, <2>6 DEF SpendEdit
<1>4. /\ q.depositIndex \subseteq Having(q.deposit, OpenDeposit)
      /\ \A d \in Having(q.deposit, OpenDeposit) :
            d \in q.depositIndex \/ (q.cursor.phase <= 4 /\ d \in Left(q, 4))
  <2>1. \A d \in Left(p, 4) : d \in Left(q, 4)
    BY DEF Left, SpendEdit
  <2>2. QED
    BY <2>1 DEF IndexInv, SpendEdit
<1>5. q.stamped => Complete(q)
  BY DEF IndexInv, SpendEdit, Complete
<1>6. QED
  BY <1>2, <1>3, <1>4, <1>5 DEF IndexInv

(* A step of a call on its record, with what it does to the reservation.   *)
LEMMA SpendEditKeeps ==
  ASSUME NEW p \in Pools, NEW q \in Pools, NEW s \in Spends, NEW x \in SpendStatus,
         NEW dc, NEW sc, NEW sc2, NEW sn, NEW b, NEW st, NEW sn2, NEW b2, NEW st2,
         Admits(p), PoolInv(p, dc, sc, sn, b, st), SpendEdit(p, q, s, x),
         SpendInv(q, sn2, b2, st2),
         p.inflight \ {Note[s]} \subseteq q.inflight,
         x \in Reserving => Note[s] \in q.inflight,
         x \notin Reserving /\ Note[s] \notin q.inflight =>
            p.spend[s] \in Reserving \/ Note[s] \notin p.inflight,
         \A t \in Spends : sc2[t] \in {sc[t], "none"} \/ (t = s /\ sc[s] = "early" /\ sc2[s] = "client"),
         sc2[s] = "early" => x = "none",
         sc2[s] = "operator" => x \in {"reconciling", "committed"},
         sc2[s] = "client" => x \in {"none", "verifying", "staged", "unknown", "committed"},
         p.spend[s] # "none" \/ x = "none" \/ (sc[s] = "early" /\ sc2[s] = "client")
  PROVE  Admits(q) /\ PoolInv(q, dc, sc2, sn2, b2, st2)
<1>0. p.spend \in [Spends -> SpendStatus] /\ q.spend \in [Spends -> SpendStatus]
  BY DEF Pools
<1>1. \A t \in Spends : q.spend[t] = IF t = s THEN x ELSE p.spend[t]
  BY <1>0 DEF SpendEdit
<1>2. Admits(q)
  BY SpendEditIs
<1>3. IndexInv(q)
  BY SpendEditIndex DEF PoolInv
<1>4. OwnInv(q, dc, sc2)
  <2>1. OwnInv(p, dc, sc)
    BY DEF PoolInv
  <2>2. \A d \in dc : q.deposit[d] \in {"none", "open"}
    BY <2>1 DEF OwnInv, SpendEdit
  <2>3. ASSUME NEW t \in Spends
        PROVE  /\ sc2[t] = "early" => q.spend[t] = "none"
               /\ sc2[t] = "operator" => q.spend[t] \in {"reconciling", "committed"}
               /\ sc2[t] = "client" =>
                     q.spend[t] \in {"none", "verifying", "staged", "unknown", "committed"}
    <3>1. CASE t = s
      BY <1>1, <3>1
    <3>2. CASE t # s
      BY <1>1, <2>1, <3>2 DEF OwnInv
    <3>3. QED
      BY <3>1, <3>2
  <2>4. QED
    BY <2>2, <2>3 DEF OwnInv
<1>5. ReserveInv(q)
  <2>. SUFFICES ASSUME NEW t \in Having(q.spend, Reserving) PROVE Note[t] \in q.inflight
    BY DEF ReserveInv
  <2>1. t \in Spends /\ q.spend[t] \in Reserving
    BY <1>0 DEF Having
  <2>2. CASE t = s
    BY <1>1, <2>1, <2>2
  <2>3. CASE t # s
    <3>1. t \in Having(p.spend, Reserving)
      BY <1>0, <1>1, <2>1, <2>3 DEF Having
    <3>2. Note[t] \in p.inflight
      BY <3>1 DEF PoolInv, ReserveInv
    <3>3. CASE Note[t] # Note[s]
      BY <3>2, <3>3
    <3>4. CASE Note[t] = Note[s] /\ x \in Reserving
      BY <3>4
    <3>5. CASE Note[t] = Note[s] /\ p.spend[s] \in Reserving
      <4>1. s \in Having(p.spend, Reserving)
        BY <1>0, <3>5 DEF Having
      <4>2. QED
        BY <2>3, <3>1, <3>5, <4>1 DEF PoolInv, SpendInv
    <3>6. CASE Note[t] = Note[s] /\ x \notin Reserving /\ p.spend[s] \notin Reserving
      BY <3>2, <3>6
    <3>7. QED
      BY <3>3, <3>4, <3>5, <3>6
  <2>4. QED
    BY <2>2, <2>3
<1>6. LateInv(p, sc)
  BY DEF PoolInv, GateInv
<1>7. LateInv(q, sc2)
  <2>1. q.cursor = p.cursor /\ (Complete(q) <=> Complete(p))
    BY DEF SpendEdit, Complete
  <2>2. CASE Late(q) \subseteq Late(p)
    <3>1. /\ \A t \in Late(p) : sc[t] # "operator" /\ \A u \in Spends : sc[u] # "early"
          /\ \A t, u \in Late(p) : t = u
          /\ Complete(p) \/ p.cursor.phase >= 2
          /\ p.cursor.phase = 2 => \A t, u \in Spends : sc[t] = "early" /\ sc[u] = "early" => t = u
      BY <1>6 DEF LateInv
    <3>2. \A t \in Late(q) : t \in Late(p) /\ t \in Spends
      BY <2>2, PhaseLeft
    <3>3. \A t \in Spends : /\ sc2[t] = "early" => sc[t] = "early"
                            /\ sc2[t] = "operator" => sc[t] = "operator"
      OBVIOUS
    <3>4. \A t \in Late(q) : sc2[t] # "operator" /\ \A u \in Spends : sc2[u] # "early"
      BY <3>1, <3>2, <3>3
    <3>5. \A t, u \in Late(q) : t = u
      BY <3>1, <3>2
    <3>6. p.cursor.phase = 2 => \A t, u \in Spends : sc2[t] = "early" /\ sc2[u] = "early" => t = u
      BY <3>1, <3>3
    <3>7. QED
      BY <2>1, <3>1, <3>4, <3>5, <3>6 DEF LateInv
  <2>3. CASE ~ (Late(q) \subseteq Late(p))
    <3>1. p.spend[s] = "none" /\ x # "none" /\ sc[s] = "early" /\ sc2[s] = "client"
      BY <2>3, SpendEditLate
    <3>2. Late(p) = {}
      BY <1>6, <3>1 DEF LateInv
    <3>3. Late(q) \subseteq {s}
      BY <3>2, SpendEditLate
    <3>4. p.cursor.phase \in 0..6 /\ p.cursor.phase <= 2
      BY <2>1, <2>3, PhaseLeft DEF Late
    <3>5. p.cursor.phase = 2
      BY <1>6, <3>4 DEF LateInv, Complete, Finished
    <3>6. \A t \in Spends : sc2[t] # "early"
      BY <1>6, <3>1, <3>5 DEF LateInv
    <3>7. QED
      BY <1>6, <2>1, <3>1, <3>3, <3>6 DEF LateInv
  <2>4. QED
    BY <2>2, <2>3
<1>8. QED
  BY <1>2, <1>3, <1>4, <1>5, <1>7 DEF PoolInv, GateInv

(* A step of a call on a deposit's record.                                 *)
LEMMA DepositEditKeeps ==
  ASSUME NEW p \in Pools, NEW q \in Pools, NEW d \in Deposits, NEW x \in DepositStatus,
         NEW dc, NEW dc2, NEW sc, NEW sn, NEW b, NEW st,
         Admits(p), PoolInv(p, dc, sc, sn, b, st), DepositEdit(p, q, d, x),
         dc2 \subseteq dc, d \in dc2 => x \in {"none", "open"}
  PROVE  PoolInv(q, dc2, sc, sn, b, st)
<1>0. /\ p.deposit \in [Deposits -> DepositStatus] /\ q.deposit \in [Deposits -> DepositStatus]
      /\ q.spend = p.spend /\ q.cursor = p.cursor /\ q.inflight = p.inflight
      /\ q.spendIndex = p.spendIndex /\ q.stamped = p.stamped
  BY DEF Pools, DepositEdit
<1>1. \A e \in Deposits : q.deposit[e] = IF e = d THEN x ELSE p.deposit[e]
  BY <1>0 DEF DepositEdit
<1>2. Left(q, 2) = Left(p, 2) /\ Left(q, 5) = Left(p, 5)
  BY <1>0 DEF Left
<1>3. /\ Admits(q) /\ Late(q) = Late(p) /\ (Complete(q) <=> Complete(p))
  BY <1>0, <1>2 DEF Admits, Complete, Remaining, Late
<1>4. IndexInv(q)
  <2>1. IndexInv(p)
    BY DEF PoolInv
  <2>2. q.depositIndex \subseteq Having(q.deposit, OpenDeposit)
    BY <1>0, <1>1, <2>1 DEF DepositEdit, IndexInv, Having
  <2>3. \A e \in Having(q.deposit, OpenDeposit) :
           e \in q.depositIndex \/ (q.cursor.phase <= 4 /\ e \in Left(q, 4))
    <3>. SUFFICES ASSUME NEW e \in Having(q.deposit, OpenDeposit), e \notin q.depositIndex
                  PROVE  q.cursor.phase <= 4 /\ e \in Left(q, 4)
      OBVIOUS
    <3>1. e \in Deposits /\ q.deposit[e] \in OpenDeposit
      BY <1>0 DEF Having
    <3>2. e # d
      BY <1>1, <3>1 DEF DepositEdit
    <3>3. p.deposit[e] \in OpenDeposit /\ e \notin p.depositIndex
      BY <1>1, <3>1, <3>2 DEF DepositEdit
    <3>4. p.cursor.phase <= 4 /\ e \in Left(p, 4)
      BY <1>0, <2>1, <3>1, <3>3 DEF IndexInv, Having
    <3>5. e \in Left(q, 4)
      BY <1>0, <1>1, <3>1, <3>2, <3>4 DEF Left, Recorded
    <3>6. QED
      BY <1>0, <3>4, <3>5
  <2>4. QED
    BY <1>0, <1>2, <1>3, <2>1, <2>2, <2>3 DEF IndexInv
<1>5. OwnInv(q, dc2, sc)
  <2>1. OwnInv(p, dc, sc)
    BY DEF PoolInv
  <2>2. \A e \in dc2 : q.deposit[e] \in {"none", "open"}
    <3>. SUFFICES ASSUME NEW e \in dc2 PROVE q.deposit[e] \in {"none", "open"}
      OBVIOUS
    <3>1. CASE e = d
      BY <1>1, <3>1
    <3>2. CASE e # d
      BY <1>0, <2>1, <3>2 DEF OwnInv, DepositEdit
    <3>3. QED
      BY <3>1, <3>2
  <2>3. QED
    BY <1>0, <2>1, <2>2 DEF OwnInv
<1>6. ReserveInv(q) /\ SpendInv(q, sn, b, st)
  BY <1>0, <1>3 DEF PoolInv, ReserveInv, SpendInv
<1>7. GateInv(q, dc2, sc)
  BY <1>0, <1>3 DEF PoolInv, GateInv, LateInv
<1>8. QED
  BY <1>4, <1>5, <1>6, <1>7 DEF PoolInv

(* A call begins on what it finds.                                         *)
LEMMA DepositCallStarts ==
  ASSUME NEW p \in Pools, NEW d \in Deposits, NEW dc, NEW sc, NEW sn, NEW b, NEW st,
         Admits(p), PoolInv(p, dc, sc, sn, b, st), p.deposit[d] \in {"none", "open"}
  PROVE  PoolInv(p, dc \cup {d}, sc, sn, b, st)
BY DEF PoolInv, GateInv, OwnInv

(* A call that was let in begins on a spend.                               *)
LEMMA SpendCallStarts ==
  ASSUME NEW p \in Pools, NEW s \in Spends, NEW c, NEW dc, NEW sn, NEW b, NEW st,
         NEW sc, DOMAIN sc = Spends, Admits(p), JustOpened(p, sc),
         PoolInv(p, dc, sc, sn, b, st),
         c \in {"early", "operator"}, c = "early" => p.spend[s] = "none",
         c = "operator" => p.spend[s] \in {"reconciling", "committed"}
  PROVE  PoolInv(p, dc, With(sc, s, c), sn, b, st)
<1>1. \A t \in Spends : With(sc, s, c)[t] = IF t = s THEN c ELSE sc[t]
  BY DEF With
<1>2. OwnInv(p, dc, With(sc, s, c))
  <2>1. OwnInv(p, dc, sc)
    BY DEF PoolInv
  <2>2. ASSUME NEW t \in Spends
        PROVE  LET c2 == With(sc, s, c)[t]
               IN  /\ c2 = "early" => p.spend[t] = "none"
                   /\ c2 = "operator" => p.spend[t] \in {"reconciling", "committed"}
                   /\ c2 = "client" =>
                         p.spend[t] \in {"none", "verifying", "staged", "unknown", "committed"}
    <3>1. CASE t = s
      BY <1>1, <3>1
    <3>2. CASE t # s
      BY <1>1, <2>1, <3>2 DEF OwnInv
    <3>3. QED
      BY <3>1, <3>2
  <2>3. QED
    BY <2>1, <2>2 DEF OwnInv
<1>3. LateInv(p, With(sc, s, c))
  BY <1>1 DEF JustOpened, LateInv
<1>4. QED
  BY <1>2, <1>3 DEF PoolInv, GateInv

(* Calls end.                                                              *)
LEMMA CallsEnd ==
  ASSUME NEW p \in Pools, NEW dc, NEW dc2, NEW sc, NEW sc2, NEW sn, NEW b, NEW st,
         PoolInv(p, dc, sc, sn, b, st), Admits(p),
         dc2 \subseteq dc, \A t \in Spends : sc2[t] \in {sc[t], "none"}
  PROVE  PoolInv(p, dc2, sc2, sn, b, st)
<1>1. OwnInv(p, dc2, sc2)
  <2>1. OwnInv(p, dc, sc)
    BY DEF PoolInv
  <2>2. ASSUME NEW t \in Spends
        PROVE  /\ sc2[t] = "early" => p.spend[t] = "none"
               /\ sc2[t] = "operator" => p.spend[t] \in {"reconciling", "committed"}
               /\ sc2[t] = "client" =>
                     p.spend[t] \in {"none", "verifying", "staged", "unknown", "committed"}
    BY <2>1 DEF OwnInv
  <2>3. QED
    BY <2>1, <2>2 DEF OwnInv
<1>2. LateInv(p, sc2)
  <2>1. LateInv(p, sc)
    BY DEF PoolInv, GateInv
  <2>2. \A t \in Late(p) : t \in Spends
    BY PhaseLeft
  <2>3. \A t \in Spends : /\ sc2[t] = "early" => sc[t] = "early"
                          /\ sc2[t] = "operator" => sc[t] = "operator"
    OBVIOUS
  <2>4. \A t \in Late(p) : sc2[t] # "operator" /\ \A u \in Spends : sc2[u] # "early"
    BY <2>1, <2>2, <2>3 DEF LateInv
  <2>5. p.cursor.phase = 2 => \A t, u \in Spends : sc2[t] = "early" /\ sc2[u] = "early" => t = u
    BY <2>1, <2>3 DEF LateInv
  <2>6. QED
    BY <2>1, <2>4, <2>5 DEF LateInv
<1>3. QED
  BY <1>1, <1>2 DEF PoolInv, GateInv

-----------------------------------------------------------------------------
Calls == {"none", "early", "client", "operator"}

Types ==
    /\ pool \in Pools
    /\ dcalls \subseteq Deposits /\ scalls \in [Spends -> Calls]
    /\ sent \subseteq Spends /\ burnt \in [Notes -> Spends \cup {Absent}]
    /\ settled \in [Notes -> Nat] /\ upgrades \in 0..MaxUpgrades /\ faults \in 0..MaxFaults

(* The inductive invariant. *)
Inv == Types /\ PoolInv(pool, dcalls, scalls, sent, burnt, settled)

(* While a call is at work the pool is open.                               *)
LEMMA CallsAdmitted ==
  ASSUME Inv, dcalls # {} \/ \E s \in Spends : scalls[s] # "none"
  PROVE  Admits(pool)
BY DEF Inv, PoolInv, GateInv, NoCalls

(* recovery_gate keeps the invariant, whether it lets the call in or not.  *)
LEMMA GateKeeps ==
  ASSUME Inv, NEW p \in AfterGate
  PROVE  /\ p \in Pools /\ PoolInv(p, dcalls, scalls, sent, burnt, settled)
         /\ Admits(p) => JustOpened(p, scalls)
<1>1. CASE Complete(pool)
  <2>1. p = pool /\ p \in Pools /\ p.cursor.phase = 6
    BY <1>1 DEF AfterGate, Inv, Types, Complete, Finished
  <2>2. JustOpened(p, scalls)
    BY <1>1, <2>1, PhaseLeft DEF JustOpened
  <2>3. QED
    BY <2>1, <2>2 DEF Inv
<1>2. CASE ~ Complete(pool)
  <2>1. pool \in Pools /\ p \in Advance(pool)
    BY <1>2 DEF AfterGate, Inv, Types
  <2>2. /\ IndexInv(pool) /\ OwnInv(pool, dcalls, scalls) /\ ReserveInv(pool)
        /\ SpendInv(pool, sent, burnt, settled)
        /\ \/ Admits(pool) /\ LateInv(pool, scalls)
           \/ NoCalls(dcalls, scalls) /\ Counted(pool)
    BY DEF Inv, PoolInv, GateInv
  <2>3. QED
    BY <2>1, <2>2, AdvanceInv
<1>3. QED
  BY <1>1, <1>2

(* What a call that is let in finds.                                       *)
LEMMA EnteredIs ==
  ASSUME Inv, NEW p \in Entered
  PROVE  /\ p \in Pools /\ PoolInv(p, dcalls, scalls, sent, burnt, settled)
         /\ Admits(p) /\ JustOpened(p, scalls)
BY GateKeeps DEF Entered

-----------------------------------------------------------------------------
(* Every action keeps the invariant.                                       *)

LEMMA KnockKeeps == ASSUME Inv, Knock PROVE Inv'
<1>1. pool' \in Pools /\ PoolInv(pool', dcalls, scalls, sent, burnt, settled)
  BY GateKeeps DEF Knock
<1>2. QED
  BY <1>1 DEF Inv, Types, Knock

LEMMA ShieldDepositKeeps ==
  ASSUME Inv, NEW d \in Deposits, ShieldDeposit(d) PROVE Inv'
<1>1. pool' \in Entered /\ pool'.deposit[d] = "none"
  BY DEF ShieldDeposit
<1>2. PoolInv(pool', dcalls', scalls, sent, burnt, settled)
  BY <1>1, EnteredIs, DepositCallStarts DEF ShieldDeposit
<1>3. QED
  BY <1>1, <1>2, EnteredIs DEF Inv, Types, ShieldDeposit

LEMMA ResumeDepositKeeps ==
  ASSUME Inv, NEW d \in Deposits, ResumeDeposit(d) PROVE Inv'
<1>1. pool' \in Entered /\ pool'.deposit[d] = "open"
  BY DEF ResumeDeposit
<1>2. PoolInv(pool', dcalls', scalls, sent, burnt, settled)
  BY <1>1, EnteredIs, DepositCallStarts DEF ResumeDeposit
<1>3. QED
  BY <1>1, <1>2, EnteredIs DEF Inv, Types, ResumeDeposit

LEMMA RecordDepositKeeps ==
  ASSUME Inv, NEW d \in Deposits, RecordDeposit(d) PROVE Inv'
<1>1. pool \in Pools /\ Admits(pool) /\ d \in dcalls
  BY CallsAdmitted DEF RecordDeposit, Inv, Types
<1>2. pool' = [pool EXCEPT !.deposit[d] = "open", !.depositIndex = @ \cup {d}]
  BY DEF RecordDeposit
<1>3. pool' \in Pools /\ DepositEdit(pool, pool', d, "open")
  BY <1>1, <1>2 DEF Pools, DepositEdit, OpenDeposit, DepositStatus
<1>4. PoolInv(pool', dcalls, scalls, sent, burnt, settled)
  BY <1>1, <1>3, DepositEditKeeps DEF Inv, DepositStatus
<1>5. QED
  BY <1>3, <1>4 DEF Inv, Types, RecordDeposit

LEMMA DepositEndsKeeps ==
  ASSUME Inv, NEW d \in Deposits, NEW st \in {"accepted", "none"}, DepositEnds(d, st)
  PROVE  Inv'
<1>1. pool \in Pools /\ Admits(pool) /\ d \in dcalls
  BY CallsAdmitted DEF DepositEnds, Inv, Types
<1>2. pool' = [pool EXCEPT !.deposit[d] = st, !.depositIndex = @ \ {d}]
  BY DEF DepositEnds
<1>3. pool' \in Pools /\ DepositEdit(pool, pool', d, st)
  BY <1>1, <1>2 DEF Pools, DepositEdit, OpenDeposit, DepositStatus
<1>4. PoolInv(pool', dcalls \ {d}, scalls, sent, burnt, settled)
  BY <1>1, <1>3, DepositEditKeeps DEF Inv, DepositStatus
<1>5. QED
  BY <1>3, <1>4 DEF Inv, Types, DepositEnds

LEMMA DepositErrorsKeeps ==
  ASSUME Inv, NEW d \in Deposits, DepositErrors(d) PROVE Inv'
<1>1. pool \in Pools /\ Admits(pool)
  BY CallsAdmitted DEF DepositErrors, Inv, Types
<1>2. PoolInv(pool, dcalls \ {d}, scalls, sent, burnt, settled)
  BY <1>1, CallsEnd DEF Inv
<1>3. faults' \in 0..MaxFaults
  BY ScanAssumption DEF DepositErrors, Inv, Types
<1>4. QED
  BY <1>2, <1>3 DEF Inv, Types, DepositErrors

LEMMA PruneKeeps == ASSUME Inv, Prune PROVE Inv'
<1>1. PICK p \in Entered :
         \/ \E d \in Having(p.deposit, {"accepted"}) :
               pool' = [p EXCEPT !.deposit[d] = "none"]
         \/ \E s \in Having(p.spend, {"final", "failed"}) :
               pool' = [p EXCEPT !.spend[s] = "none"]
  BY DEF Prune
<1>2. p \in Pools /\ PoolInv(p, dcalls, scalls, sent, burnt, settled) /\ Admits(p)
  BY EnteredIs
<1>3. pool' \in Pools /\ PoolInv(pool', dcalls, scalls, sent, burnt, settled)
  <2>1. ASSUME NEW d \in Having(p.deposit, {"accepted"}),
               pool' = [p EXCEPT !.deposit[d] = "none"]
        PROVE  pool' \in Pools /\ PoolInv(pool', dcalls, scalls, sent, burnt, settled)
    <3>1. d \in Deposits /\ p.deposit[d] = "accepted" /\ d \notin p.depositIndex
      BY <1>2, <2>1 DEF Having, Pools, PoolInv, IndexInv, OpenDeposit
    <3>2. pool' \in Pools /\ DepositEdit(p, pool', d, "none")
      BY <1>2, <2>1, <3>1 DEF Pools, DepositEdit, OpenDeposit, DepositStatus
    <3>3. QED
      BY <1>2, <3>1, <3>2, DepositEditKeeps DEF DepositStatus
  <2>2. ASSUME NEW s \in Having(p.spend, {"final", "failed"}),
               pool' = [p EXCEPT !.spend[s] = "none"]
        PROVE  pool' \in Pools /\ PoolInv(pool', dcalls, scalls, sent, burnt, settled)
    <3>1. /\ s \in Spends /\ p.spend[s] \in {"final", "failed"} /\ s \notin p.spendIndex
          /\ s \notin Having(p.spend, Reserving)
      BY <1>2, <2>2 DEF Having, Pools, PoolInv, IndexInv, OpenSpend, Reserving
    <3>2. /\ pool' \in Pools /\ SpendEdit(p, pool', s, "none") /\ pool'.inflight = p.inflight
          /\ "none" \in SpendStatus
      BY <1>2, <2>2, <3>1 DEF Pools, SpendEdit, OpenSpend, SpendStatus
    <3>3. Having(pool'.spend, Reserving) = Having(p.spend, Reserving)
      <4>1. "none" \notin Reserving
        BY DEF Reserving
      <4>2. Having(pool'.spend, Reserving) = Having(p.spend, Reserving) \ {s}
        <5>1. p \in Pools /\ pool' \in Pools /\ s \in Spends /\ "none" \in SpendStatus
              /\ SpendEdit(p, pool', s, "none")
          BY <1>2, <3>1, <3>2
        <5>2. QED
          BY <4>1, <5>1, EditFrees
      <4>3. QED
        BY <3>1, <4>2
    <3>4. SpendInv(pool', sent, burnt, settled)
      BY <1>2, <3>3 DEF PoolInv, SpendInv
    <3>5. scalls[s] = "none"
      BY <1>2, <3>1 DEF PoolInv, OwnInv, Inv, Types, Calls
    <3>6. Note[s] \notin pool'.inflight => Note[s] \notin p.inflight
      BY <3>2
    <3>7. "none" \notin Reserving
      BY DEF Reserving
    <3>8. \A t \in Spends : scalls[t] \in {scalls[t], "none"}
      OBVIOUS
    <3>9. p.inflight \ {Note[s]} \subseteq pool'.inflight
      BY <3>2
    <3>10. Admits(pool') /\ PoolInv(pool', dcalls, scalls, sent, burnt, settled)
      BY <1>2, <3>1, <3>2, <3>4, <3>5, <3>6, <3>7, <3>8, <3>9, SpendEditKeeps
    <3>11. QED
      BY <3>2, <3>10
  <2>3. QED
    BY <1>1, <2>1, <2>2
<1>4. QED
  BY <1>3 DEF Inv, Types, Prune

(* A spend that is not sent stops reserving its note, if it did.           *)
LEMMA SpendInvFrees ==
  ASSUME NEW p \in Pools, NEW q \in Pools, NEW s \in Spends, NEW x \in SpendStatus,
         NEW sn, NEW b, NEW st,
         SpendEdit(p, q, s, x), x \notin Reserving, s \notin sn, SpendInv(p, sn, b, st)
  PROVE  SpendInv(q, sn, b, st)
<1>1. Having(q.spend, Reserving) = Having(p.spend, Reserving) \ {s}
  BY EditFrees
<1>2. QED
  BY <1>1 DEF SpendInv

(* It goes on reserving it, and less may be sent.                          *)
LEMMA SpendInvHolds ==
  ASSUME NEW p \in Pools, NEW q \in Pools, NEW s \in Spends, NEW x \in SpendStatus,
         NEW sn, NEW sn2, NEW b, NEW st, p.spend[s] \in Reserving, x \in Reserving,
         SpendEdit(p, q, s, x), sn2 \subseteq sn, SpendInv(p, sn, b, st)
  PROVE  SpendInv(q, sn2, b, st)
<1>1. s \in Having(p.spend, Reserving)
  BY DEF Having, Pools
<1>2. Having(q.spend, Reserving) = Having(p.spend, Reserving)
  BY <1>1, EditReserves
<1>3. QED
  BY <1>2 DEF SpendInv

(* It is carried on.                                                       *)
LEMMA SpendInvCarried ==
  ASSUME NEW p \in Pools, NEW q \in Pools, NEW s \in Spends, NEW sn, NEW b,
         NEW st \in [Notes -> Nat], p.spend[s] \in Reserving, s \notin sn,
         SpendEdit(p, q, s, "committed"), b[Note[s]] # Absent, SpendInv(p, sn, b, st)
  PROVE  SpendInv(q, sn, b, [st EXCEPT ![Note[s]] = @ + 1])
<1>1. s \in Having(p.spend, Reserving) /\ Note[s] \in Notes
  BY DEF Having, Pools, Notes
<1>2. "committed" \notin Reserving /\ "committed" \in SpendStatus
  BY DEF Reserving, SpendStatus
<1>3. Having(q.spend, Reserving) = Having(p.spend, Reserving) \ {s}
  BY <1>2, EditFrees
<1>4. st[Note[s]] = 0 /\ \A t \in Having(p.spend, Reserving) : Note[t] = Note[s] => t = s
  BY <1>1 DEF SpendInv
<1>. DEFINE st2 == [st EXCEPT ![Note[s]] = @ + 1]
<1>5. st2[Note[s]] = 1 /\ \A n \in Notes : n # Note[s] => st2[n] = st[n]
  BY <1>1, <1>4
<1>6. \A t \in Having(p.spend, Reserving) : Note[t] \in Notes
  BY DEF Having, Pools, Notes
<1>. HIDE DEF st2
<1>7. /\ \A t, u \in Having(q.spend, Reserving) : Note[t] = Note[u] => t = u
      /\ \A t \in Having(q.spend, Reserving) : b[Note[t]] \in {Absent, t} /\ st2[Note[t]] = 0
      /\ sn \subseteq Having(q.spend, Reserving)
  BY <1>3, <1>4, <1>5, <1>6 DEF SpendInv
<1>8. \A n \in Notes : st2[n] <= 1 /\ (st2[n] # 0 => b[n] # Absent)
  BY <1>4, <1>5 DEF SpendInv
<1>9. QED
  BY <1>7, <1>8 DEF SpendInv, st2

-----------------------------------------------------------------------------
LEMMA PrivateSpendKeeps ==
  ASSUME Inv, NEW s \in Spends, PrivateSpend(s) PROVE Inv'
<1>1. pool' \in Entered /\ pool'.spend[s] = "none" /\ scalls' = With(scalls, s, "early")
  BY DEF PrivateSpend
<1>2. DOMAIN scalls = Spends /\ scalls' \in [Spends -> Calls]
  BY <1>1 DEF Inv, Types, With, Calls
<1>3. /\ pool' \in Pools /\ PoolInv(pool', dcalls, scalls, sent, burnt, settled)
      /\ Admits(pool') /\ JustOpened(pool', scalls)
  BY <1>1, EnteredIs
<1>4. PoolInv(pool', dcalls, scalls', sent, burnt, settled)
  <2>1. PoolInv(pool', dcalls, With(scalls, s, "early"), sent, burnt, settled)
    BY <1>1, <1>2, <1>3, SpendCallStarts
  <2>2. QED
    BY <1>1, <2>1
<1>5. QED
  BY <1>2, <1>3, <1>4 DEF Inv, Types, PrivateSpend

LEMMA ReconcileSpendKeeps ==
  ASSUME Inv, NEW s \in Spends, ReconcileSpend(s) PROVE Inv'
<1>1. pool' \in Entered /\ pool'.spend[s] = "committed" /\ scalls' = With(scalls, s, "operator")
  BY DEF ReconcileSpend
<1>2. DOMAIN scalls = Spends /\ scalls' \in [Spends -> Calls]
  BY <1>1 DEF Inv, Types, With, Calls
<1>3. /\ pool' \in Pools /\ PoolInv(pool', dcalls, scalls, sent, burnt, settled)
      /\ Admits(pool') /\ JustOpened(pool', scalls)
  BY <1>1, EnteredIs
<1>4. PoolInv(pool', dcalls, scalls', sent, burnt, settled)
  <2>1. PoolInv(pool', dcalls, With(scalls, s, "operator"), sent, burnt, settled)
    BY <1>1, <1>2, <1>3, SpendCallStarts
  <2>2. QED
    BY <1>1, <2>1
<1>5. QED
  BY <1>2, <1>3, <1>4 DEF Inv, Types, ReconcileSpend

LEMMA ReconcileInsertKeeps ==
  ASSUME Inv, NEW s \in Spends, ReconcileInsert(s) PROVE Inv'
<1>1. PICK p \in Entered :
         p.spend[s] = "unknown" /\ pool' = [p EXCEPT !.spend[s] = "reconciling"]
  BY DEF ReconcileInsert
<1>2. /\ p \in Pools /\ PoolInv(p, dcalls, scalls, sent, burnt, settled)
      /\ Admits(p) /\ JustOpened(p, scalls)
  BY EnteredIs
<1>3. scalls' = With(scalls, s, "operator") /\ scalls[s] = "none"
      /\ DOMAIN scalls = Spends /\ scalls' \in [Spends -> Calls]
  BY DEF ReconcileInsert, Inv, Types, With, Calls
<1>4. /\ pool' \in Pools /\ SpendEdit(p, pool', s, "reconciling") /\ pool'.inflight = p.inflight
      /\ "reconciling" \in SpendStatus
  BY <1>1, <1>2 DEF Pools, SpendEdit, OpenSpend, SpendStatus
<1>5. "unknown" \in Reserving /\ "reconciling" \in Reserving
  BY DEF Reserving
<1>6. SpendInv(pool', sent, burnt, settled)
  BY <1>1, <1>2, <1>4, <1>5, SpendInvHolds DEF PoolInv
<1>7. Note[s] \in p.inflight
  <2>1. s \in Having(p.spend, Reserving)
    BY <1>1, <1>2, <1>5 DEF Having, Pools
  <2>2. QED
    BY <1>2, <2>1 DEF PoolInv, ReserveInv
<1>8. Admits(pool') /\ PoolInv(pool', dcalls, scalls, sent, burnt, settled)
  <2>1. \A t \in Spends : scalls[t] \in {scalls[t], "none"}
    OBVIOUS
  <2>2. p.inflight \ {Note[s]} \subseteq pool'.inflight /\ Note[s] \in pool'.inflight
    BY <1>4, <1>7
  <2>3. p.spend[s] # "none"
    BY <1>1
  <2>4. QED
    BY <1>2, <1>3, <1>4, <1>6, <2>1, <2>2, <2>3, SpendEditKeeps
<1>9. JustOpened(pool', scalls)
  <2>1. Late(pool') \subseteq Late(p)
    BY <1>1, <1>2, <1>4, SpendEditLate
  <2>2. pool'.cursor = p.cursor
    BY <1>4 DEF SpendEdit
  <2>3. QED
    BY <1>2, <2>1, <2>2 DEF JustOpened, Complete
<1>10. pool'.spend[s] = "reconciling"
  BY <1>2, <1>4 DEF SpendEdit, Pools
<1>11. PoolInv(pool', dcalls, scalls', sent, burnt, settled)
  BY <1>3, <1>4, <1>8, <1>9, <1>10, SpendCallStarts
<1>12. QED
  BY <1>3, <1>4, <1>11 DEF Inv, Types, ReconcileInsert

(* The call of a spend ends.                                               *)
LEMMA SpendCallEnds ==
  ASSUME Inv, NEW s \in Spends, scalls[s] # "none", scalls' = With(scalls, s, "none")
  PROVE  scalls' \in [Spends -> Calls]
         /\ PoolInv(pool, dcalls, scalls', sent, burnt, settled)
<1>1. scalls \in [Spends -> Calls] /\ pool \in Pools /\ Admits(pool)
  BY CallsAdmitted DEF Inv, Types
<1>2. scalls' \in [Spends -> Calls] /\ \A t \in Spends : scalls'[t] \in {scalls[t], "none"}
  BY <1>1 DEF With, Calls
<1>3. QED
  BY <1>1, <1>2, CallsEnd DEF Inv

LEMMA RecheckErrorsKeeps ==
  ASSUME Inv, NEW s \in Spends, RecheckErrors(s) PROVE Inv'
<1>1. scalls[s] # "none" /\ scalls' = With(scalls, s, "none")
  BY DEF RecheckErrors
<1>2. faults' \in 0..MaxFaults
  BY ScanAssumption DEF RecheckErrors, Inv, Types
<1>3. QED
  BY <1>1, <1>2, SpendCallEnds DEF Inv, Types, RecheckErrors

LEMMA PromoteErrorsKeeps ==
  ASSUME Inv, NEW s \in Spends, PromoteErrors(s) PROVE Inv'
<1>1. scalls[s] # "none" /\ scalls' = With(scalls, s, "none")
  BY DEF PromoteErrors
<1>2. faults' \in 0..MaxFaults
  BY ScanAssumption DEF PromoteErrors, Inv, Types
<1>3. QED
  BY <1>1, <1>2, SpendCallEnds DEF Inv, Types, PromoteErrors

(* A call leaves its record in status x.                                   *)
LEMMA SpendLeavesIs ==
  ASSUME NEW s \in Spends, NEW x \in SpendStatus, NEW freed, Inv, SpendLeaves(s, x, freed),
         x \in OpenSpend => pool.spend[s] \in OpenSpend
  PROVE  /\ pool' \in Pools /\ SpendEdit(pool, pool', s, x)
         /\ pool'.inflight = pool.inflight \ freed
         /\ scalls' \in [Spends -> Calls] /\ scalls'[s] = "none"
         /\ \A t \in Spends : scalls'[t] \in {scalls[t], "none"}
<1>. DEFINE idx == IF x \in OpenSpend THEN pool.spendIndex ELSE pool.spendIndex \ {s}
<1>1. pool \in Pools /\ scalls \in [Spends -> Calls]
  BY DEF Inv, Types
<1>2. pool' = [pool EXCEPT !.spend[s] = x, !.spendIndex = idx, !.inflight = @ \ freed]
  BY DEF SpendLeaves
<1>3. idx \in SUBSET Spends /\ pool.inflight \ freed \in SUBSET Notes
  BY <1>1 DEF Pools
<1>4. idx = IF x \notin OpenSpend THEN pool.spendIndex \ {s}
            ELSE IF pool.spend[s] \in OpenSpend THEN pool.spendIndex
            ELSE pool.spendIndex \cup {s}
  OBVIOUS
<1>. HIDE DEF idx
<1>5. /\ pool' \in Pools /\ pool'.inflight = pool.inflight \ freed /\ pool'.spendIndex = idx
      /\ pool'.deposit = pool.deposit /\ pool'.depositIndex = pool.depositIndex
      /\ pool'.stamped = pool.stamped /\ pool'.cursor = pool.cursor
      /\ pool'.spend = [pool.spend EXCEPT ![s] = x]
  BY <1>1, <1>2, <1>3 DEF Pools
<1>6. SpendEdit(pool, pool', s, x)
  BY <1>4, <1>5 DEF SpendEdit
<1>7. scalls' = [scalls EXCEPT ![s] = "none"]
  BY DEF SpendLeaves, With
<1>8. /\ scalls' \in [Spends -> Calls] /\ scalls'[s] = "none"
      /\ \A t \in Spends : scalls'[t] \in {scalls[t], "none"}
  BY <1>1, <1>7 DEF Calls
<1>9. QED
  BY <1>5, <1>6, <1>8

(* It keeps the invariant.                                                 *)
LEMMA SpendLeavesKeeps ==
  ASSUME NEW s \in Spends, NEW x \in SpendStatus, NEW freed, NEW sn2, Inv,
         SpendLeaves(s, x, freed), scalls[s] # "none", sn2 \subseteq sent,
         x \in OpenSpend => pool.spend[s] \in OpenSpend,
         x \in Reserving => pool.spend[s] \in Reserving /\ freed = {},
         x \notin Reserving => sn2 = sent,
         x \notin Reserving /\ s \in sent => pool.spend[s] \notin Reserving,
         freed = {} \/ (freed = {Note[s]} /\ pool.spend[s] \in Reserving),
         pool.spend[s] # "none" \/ x = "none"
  PROVE  /\ pool' \in Pools /\ scalls' \in [Spends -> Calls]
         /\ PoolInv(pool', dcalls, scalls', sn2, burnt, settled)
<1>1. pool \in Pools /\ Admits(pool) /\ PoolInv(pool, dcalls, scalls, sent, burnt, settled)
  BY CallsAdmitted DEF Inv, Types
<1>2. /\ pool' \in Pools /\ SpendEdit(pool, pool', s, x)
      /\ pool'.inflight = pool.inflight \ freed
      /\ scalls' \in [Spends -> Calls] /\ scalls'[s] = "none"
      /\ \A t \in Spends : scalls'[t] \in {scalls[t], "none"}
  BY SpendLeavesIs
<1>3. pool.spend[s] \in Reserving => s \in Having(pool.spend, Reserving)
  BY <1>1 DEF Having, Pools
<1>4. SpendInv(pool, sent, burnt, settled)
  BY <1>1 DEF PoolInv
<1>5. SpendInv(pool', sn2, burnt, settled)
  <2>1. CASE x \in Reserving
    BY <1>1, <1>2, <1>4, <2>1, SpendInvHolds
  <2>2. CASE x \notin Reserving
    <3>1. s \notin sent
      <4>1. sent \subseteq Having(pool.spend, Reserving)
        BY <1>4 DEF SpendInv
      <4>2. s \in Having(pool.spend, Reserving) => pool.spend[s] \in Reserving
        BY DEF Having
      <4>3. QED
        BY <2>2, <4>1, <4>2
    <3>2. QED
      BY <1>1, <1>2, <1>4, <2>2, <3>1, SpendInvFrees
  <2>3. QED
    BY <2>1, <2>2
<1>6. pool.inflight \ {Note[s]} \subseteq pool'.inflight
  BY <1>2
<1>7. x \in Reserving => Note[s] \in pool'.inflight
  BY <1>1, <1>2, <1>3 DEF PoolInv, ReserveInv
<1>8. x \notin Reserving /\ Note[s] \notin pool'.inflight =>
         pool.spend[s] \in Reserving \/ Note[s] \notin pool.inflight
  BY <1>2
<1>9. PoolInv(pool', dcalls, scalls', sn2, burnt, settled)
  BY <1>1, <1>2, <1>5, <1>6, <1>7, <1>8, SpendEditKeeps
<1>10. QED
  BY <1>2, <1>9

LEMMA VerifyFailsKeeps ==
  ASSUME Inv, NEW s \in Spends, NEW st \in {"failed", "none"}, VerifyFails(s, st)
  PROVE  Inv'
<1>. DEFINE x == IF pool.spend[s] = "none" THEN "none" ELSE st
<1>1. /\ x \in SpendStatus /\ x \notin OpenSpend /\ x \notin Reserving
      /\ scalls[s] # "none" /\ SpendLeaves(s, x, {}) /\ pool.spend[s] \notin Reserving
      /\ (pool.spend[s] # "none" \/ x = "none")
  BY DEF VerifyFails, SpendStatus, OpenSpend, Reserving
<1>. HIDE DEF x
<1>2. /\ pool' \in Pools /\ scalls' \in [Spends -> Calls]
      /\ PoolInv(pool', dcalls, scalls', sent, burnt, settled)
  BY <1>1, SpendLeavesKeeps
<1>3. QED
  BY <1>2 DEF Inv, Types, VerifyFails

LEMMA PromoteKeeps ==
  ASSUME Inv, NEW s \in Spends, Promote(s) PROVE Inv'
<1>1. /\ "final" \in SpendStatus /\ "final" \notin OpenSpend /\ "final" \notin Reserving
      /\ scalls[s] # "none" /\ SpendLeaves(s, "final", {}) /\ pool.spend[s] \notin Reserving
      /\ pool.spend[s] # "none"
  BY DEF Promote, SpendStatus, OpenSpend, Reserving
<1>2. /\ pool' \in Pools /\ scalls' \in [Spends -> Calls]
      /\ PoolInv(pool', dcalls, scalls', sent, burnt, settled)
  BY <1>1, SpendLeavesKeeps
<1>3. QED
  BY <1>2 DEF Inv, Types, Promote

LEMMA ReconcileErrorsKeeps ==
  ASSUME Inv, NEW s \in Spends, ReconcileErrors(s) PROVE Inv'
<1>1. /\ "unknown" \in SpendStatus /\ "unknown" \in Reserving
      /\ scalls[s] # "none" /\ SpendLeaves(s, "unknown", {})
      /\ pool.spend[s] \in Reserving /\ pool.spend[s] \in OpenSpend /\ pool.spend[s] # "none"
  BY DEF ReconcileErrors, SpendStatus, OpenSpend, Reserving
<1>2. /\ pool' \in Pools /\ scalls' \in [Spends -> Calls]
      /\ PoolInv(pool', dcalls, scalls', sent, burnt, settled)
  BY <1>1, SpendLeavesKeeps
<1>3. faults' \in 0..MaxFaults
  BY ScanAssumption DEF ReconcileErrors, Inv, Types
<1>4. QED
  BY <1>2, <1>3 DEF Inv, Types, ReconcileErrors

LEMMA RecordSpendKeeps ==
  ASSUME Inv, NEW s \in Spends, RecordSpend(s) PROVE Inv'
<1>1. /\ pool \in Pools /\ Admits(pool) /\ PoolInv(pool, dcalls, scalls, sent, burnt, settled)
      /\ scalls[s] = "early" /\ scalls \in [Spends -> Calls]
  BY CallsAdmitted DEF Inv, Types, RecordSpend
<1>2. pool.spend[s] = "none"
  BY <1>1 DEF PoolInv, OwnInv
<1>3. CASE SpendLeaves(s, "none", {})
  <2>1. /\ "none" \in SpendStatus /\ "none" \notin OpenSpend /\ "none" \notin Reserving
    BY DEF SpendStatus, OpenSpend, Reserving
  <2>2. /\ pool' \in Pools /\ scalls' \in [Spends -> Calls]
        /\ PoolInv(pool', dcalls, scalls', sent, burnt, settled)
    BY <1>1, <1>2, <1>3, <2>1, SpendLeavesKeeps
  <2>3. QED
    BY <2>2 DEF Inv, Types, RecordSpend
<1>4. CASE /\ pool' = [pool EXCEPT !.spend[s] = "verifying", !.spendIndex = @ \cup {s}]
           /\ scalls' = With(scalls, s, "client")
  <2>1. /\ "verifying" \in SpendStatus /\ "verifying" \in OpenSpend /\ "verifying" \notin Reserving
        /\ pool.spend[s] \notin OpenSpend /\ pool.spend[s] \notin Reserving
    BY <1>2 DEF SpendStatus, OpenSpend, Reserving
  <2>2. /\ pool' \in Pools /\ SpendEdit(pool, pool', s, "verifying")
        /\ pool'.inflight = pool.inflight
    BY <1>1, <1>4, <2>1 DEF Pools, SpendEdit
  <2>3. scalls' \in [Spends -> Calls] /\ scalls'[s] = "client"
        /\ \A t \in Spends : t # s => scalls'[t] = scalls[t]
    BY <1>1, <1>4 DEF With, Calls
  <2>4. \A t \in Spends : scalls'[t] \in {scalls[t], "none"}
           \/ (t = s /\ scalls[s] = "early" /\ scalls'[s] = "client")
    BY <1>1, <2>3
  <2>5. SpendInv(pool', sent, burnt, settled)
    <3>1. s \notin Having(pool.spend, Reserving) /\ SpendInv(pool, sent, burnt, settled)
      BY <1>1, <2>1 DEF Having, PoolInv
    <3>2. s \notin sent
      BY <3>1 DEF SpendInv
    <3>3. QED
      BY <1>1, <2>1, <2>2, <3>1, <3>2, SpendInvFrees
  <2>6. /\ pool.inflight \ {Note[s]} \subseteq pool'.inflight
        /\ Note[s] \notin pool'.inflight => Note[s] \notin pool.inflight
    BY <2>2
  <2>7. PoolInv(pool', dcalls, scalls', sent, burnt, settled)
    BY <1>1, <2>1, <2>2, <2>3, <2>4, <2>5, <2>6, SpendEditKeeps
  <2>8. QED
    BY <2>2, <2>3, <2>7 DEF Inv, Types, RecordSpend
<1>5. QED
  BY <1>3, <1>4 DEF RecordSpend

LEMMA ReserveKeeps ==
  ASSUME Inv, NEW s \in Spends, Reserve(s) PROVE Inv'
<1>1. /\ pool \in Pools /\ Admits(pool) /\ PoolInv(pool, dcalls, scalls, sent, burnt, settled)
      /\ scalls[s] = "client" /\ pool.spend[s] = "verifying" /\ Note[s] \in Notes
      /\ scalls \in [Spends -> Calls]
  BY CallsAdmitted DEF Inv, Types, Reserve, Notes
<1>2. /\ "failed" \in SpendStatus /\ "failed" \notin OpenSpend /\ "failed" \notin Reserving
      /\ "staged" \in SpendStatus /\ "staged" \in OpenSpend /\ "staged" \in Reserving
      /\ pool.spend[s] \notin Reserving /\ pool.spend[s] \in OpenSpend /\ pool.spend[s] # "none"
  BY <1>1 DEF SpendStatus, OpenSpend, Reserving
<1>3. CASE SpendLeaves(s, "failed", {}) /\ UNCHANGED sent
  <2>1. /\ pool' \in Pools /\ scalls' \in [Spends -> Calls]
        /\ PoolInv(pool', dcalls, scalls', sent, burnt, settled)
    BY <1>1, <1>2, <1>3, SpendLeavesKeeps
  <2>2. QED
    BY <1>3, <2>1 DEF Inv, Types, Reserve
<1>4. CASE /\ pool' = [pool EXCEPT !.spend[s] = "staged", !.inflight = @ \cup {Note[s]}]
           /\ sent' = sent \cup {s} /\ UNCHANGED scalls
           /\ burnt[Note[s]] = Absent /\ Note[s] \notin pool.inflight
  <2>1. /\ pool' \in Pools /\ SpendEdit(pool, pool', s, "staged")
        /\ pool'.inflight = pool.inflight \cup {Note[s]}
    BY <1>1, <1>2, <1>4 DEF Pools, SpendEdit
  <2>2. SpendInv(pool', sent', burnt, settled)
    <3>1. SpendInv(pool, sent, burnt, settled)
      BY <1>1 DEF PoolInv
    <3>2. \A t \in Having(pool.spend, Reserving) : Note[t] # Note[s]
      BY <1>1, <1>4 DEF PoolInv, ReserveInv
    <3>3. Having(pool'.spend, Reserving) = Having(pool.spend, Reserving) \cup {s}
      BY <1>1, <1>2, <2>1, EditReserves
    <3>4. settled[Note[s]] = 0
      BY <1>1, <1>4, <3>1 DEF SpendInv
    <3>5. \A t, u \in Having(pool'.spend, Reserving) : Note[t] = Note[u] => t = u
      BY <3>1, <3>2, <3>3 DEF SpendInv
    <3>6. \A t \in Having(pool'.spend, Reserving) :
             burnt[Note[t]] \in {Absent, t} /\ settled[Note[t]] = 0
      BY <1>4, <3>1, <3>3, <3>4 DEF SpendInv
    <3>7. QED
      BY <1>4, <3>1, <3>3, <3>5, <3>6 DEF SpendInv
  <2>3. \A t \in Spends : scalls[t] \in {scalls[t], "none"}
    OBVIOUS
  <2>4. pool.inflight \ {Note[s]} \subseteq pool'.inflight /\ Note[s] \in pool'.inflight
    BY <2>1
  <2>5. PoolInv(pool', dcalls, scalls, sent', burnt, settled)
    BY <1>1, <1>2, <2>1, <2>2, <2>3, <2>4, SpendEditKeeps
  <2>6. QED
    BY <1>4, <2>1, <2>5 DEF Inv, Types, Reserve
<1>5. QED
  BY <1>3, <1>4 DEF Reserve

LEMMA InsertArrivesKeeps ==
  ASSUME Inv, NEW s \in Spends, InsertArrives(s) PROVE Inv'
<1>1. /\ pool \in Pools /\ PoolInv(pool, dcalls, scalls, sent, burnt, settled)
      /\ SpendInv(pool, sent, burnt, settled) /\ Note[s] \in Notes /\ s \in sent
      /\ burnt \in [Notes -> Spends \cup {Absent}]
  BY DEF Inv, Types, PoolInv, InsertArrives, Notes
<1>2. burnt' = IF burnt[Note[s]] = Absent THEN [burnt EXCEPT ![Note[s]] = s] ELSE burnt
  BY DEF InsertArrives, With
<1>3. burnt' \in [Notes -> Spends \cup {Absent}]
  BY <1>1, <1>2
<1>4. s \in Having(pool.spend, Reserving) /\ s # Absent
  BY <1>1, ScanAssumption DEF SpendInv, Absent
<1>5. \A n \in Notes : burnt'[n] = IF n = Note[s] /\ burnt[n] = Absent THEN s ELSE burnt[n]
  BY <1>1, <1>2
<1>6. \A t \in Having(pool.spend, Reserving) : Note[t] \in Notes
  BY <1>1 DEF Having, Pools, Notes
<1>7. SpendInv(pool, sent \ {s}, burnt', settled)
  <2>1. \A t \in Having(pool.spend, Reserving) : burnt'[Note[t]] \in {Absent, t}
    BY <1>1, <1>4, <1>5, <1>6 DEF SpendInv
  <2>2. \A n \in Notes : settled[n] # 0 => burnt'[n] # Absent
    BY <1>1, <1>4, <1>5 DEF SpendInv
  <2>3. QED
    BY <1>1, <2>1, <2>2 DEF SpendInv
<1>8. PoolInv(pool, dcalls, scalls, sent \ {s}, burnt', settled)
  BY <1>1, <1>7 DEF PoolInv
<1>9. QED
  BY <1>3, <1>8 DEF Inv, Types, InsertArrives

(* A spend that reserves its note is carried on when it is inserted.       *)
LEMMA CarriedOnKeeps ==
  ASSUME NEW s \in Spends, Inv, CarriedOn(s), scalls[s] \in {"client", "operator"},
         pool.spend[s] \in Reserving, s \notin sent, burnt[Note[s]] # Absent
  PROVE  /\ pool' \in Pools /\ scalls' \in [Spends -> Calls] /\ settled' \in [Notes -> Nat]
         /\ PoolInv(pool', dcalls, scalls', sent, burnt, settled')
<1>1. /\ pool \in Pools /\ Admits(pool) /\ PoolInv(pool, dcalls, scalls, sent, burnt, settled)
      /\ Note[s] \in Notes /\ settled \in [Notes -> Nat] /\ scalls \in [Spends -> Calls]
      /\ SpendInv(pool, sent, burnt, settled)
  BY CallsAdmitted DEF Inv, Types, Notes, PoolInv
<1>2. /\ "committed" \in SpendStatus /\ "committed" \in OpenSpend /\ "committed" \notin Reserving
      /\ pool.spend[s] \in OpenSpend /\ pool.spend[s] # "none"
  BY DEF SpendStatus, OpenSpend, Reserving
<1>3. /\ pool' = [pool EXCEPT !.spend[s] = "committed", !.inflight = @ \ {Note[s]}]
      /\ settled' = [settled EXCEPT ![Note[s]] = @ + 1] /\ scalls' = scalls
  BY DEF CarriedOn
<1>4. /\ pool' \in Pools /\ SpendEdit(pool, pool', s, "committed")
      /\ pool'.inflight = pool.inflight \ {Note[s]}
  BY <1>1, <1>2, <1>3 DEF Pools, SpendEdit
<1>5. settled' \in [Notes -> Nat]
  BY <1>1, <1>3
<1>6. SpendInv(pool', sent, burnt, settled')
  <2>1. SpendInv(pool', sent, burnt, [settled EXCEPT ![Note[s]] = @ + 1])
    BY <1>1, <1>4, SpendInvCarried
  <2>2. QED
    BY <1>3, <2>1
<1>7. \A t \in Spends : scalls[t] \in {scalls[t], "none"}
  OBVIOUS
<1>8. pool.inflight \ {Note[s]} \subseteq pool'.inflight
  BY <1>4
<1>9. PoolInv(pool', dcalls, scalls, sent, burnt, settled')
  BY <1>1, <1>2, <1>4, <1>6, <1>7, <1>8, SpendEditKeeps
<1>10. QED
  BY <1>1, <1>3, <1>4, <1>5, <1>9

LEMMA InsertReplyKeeps ==
  ASSUME Inv, NEW s \in Spends, InsertReply(s) PROVE Inv'
<1>1. /\ scalls[s] = "client" /\ s \notin sent
      /\ pool.spend[s] \in Reserving /\ pool.spend[s] # "none"
      /\ "failed" \in SpendStatus /\ "failed" \notin OpenSpend /\ "failed" \notin Reserving
  BY DEF InsertReply, AwaitsInsert, SpendStatus, OpenSpend, Reserving
<1>2. CASE burnt[Note[s]] = s /\ CarriedOn(s)
  <2>1. burnt[Note[s]] # Absent
    BY <1>2, ScanAssumption DEF Absent
  <2>2. /\ pool' \in Pools /\ scalls' \in [Spends -> Calls] /\ settled' \in [Notes -> Nat]
        /\ PoolInv(pool', dcalls, scalls', sent, burnt, settled')
    BY <1>1, <1>2, <2>1, CarriedOnKeeps
  <2>3. QED
    BY <2>2 DEF Inv, Types, InsertReply
<1>3. CASE SpendLeaves(s, "failed", {Note[s]}) /\ UNCHANGED settled
  <2>1. /\ pool' \in Pools /\ scalls' \in [Spends -> Calls]
        /\ PoolInv(pool', dcalls, scalls', sent, burnt, settled)
    BY <1>1, <1>3, SpendLeavesKeeps
  <2>2. QED
    BY <1>3, <2>1 DEF Inv, Types, InsertReply
<1>4. QED
  BY <1>2, <1>3 DEF InsertReply

LEMMA ReconcileReplyKeeps ==
  ASSUME Inv, NEW s \in Spends, ReconcileReply(s) PROVE Inv'
<1>1. /\ scalls[s] = "operator" /\ s \notin sent
      /\ pool.spend[s] \in Reserving /\ pool.spend[s] # "none"
      /\ "failed" \in SpendStatus /\ "failed" \notin OpenSpend /\ "failed" \notin Reserving
  BY DEF ReconcileReply, SpendStatus, OpenSpend, Reserving
<1>2. CASE burnt[Note[s]] # Absent /\ CarriedOn(s)
  <2>1. /\ pool' \in Pools /\ scalls' \in [Spends -> Calls] /\ settled' \in [Notes -> Nat]
        /\ PoolInv(pool', dcalls, scalls', sent, burnt, settled')
    BY <1>1, <1>2, CarriedOnKeeps
  <2>2. QED
    BY <2>1 DEF Inv, Types, ReconcileReply
<1>3. CASE SpendLeaves(s, "failed", {Note[s]}) /\ UNCHANGED settled
  <2>1. /\ pool' \in Pools /\ scalls' \in [Spends -> Calls]
        /\ PoolInv(pool', dcalls, scalls', sent, burnt, settled)
    BY <1>1, <1>3, SpendLeavesKeeps
  <2>2. QED
    BY <1>3, <2>1 DEF Inv, Types, ReconcileReply
<1>4. QED
  BY <1>2, <1>3 DEF ReconcileReply

LEMMA InsertUnknownKeeps ==
  ASSUME Inv, NEW s \in Spends, InsertUnknown(s) PROVE Inv'
<1>1. faults' \in 0..MaxFaults /\ sent' = sent \ {s} /\ sent \subseteq Spends
  BY ScanAssumption DEF InsertUnknown, Inv, Types
<1>2. CASE AwaitsInsert(s) /\ SpendLeaves(s, "unknown", {})
  <2>1. /\ "unknown" \in SpendStatus /\ "unknown" \in Reserving
        /\ pool.spend[s] \in Reserving /\ pool.spend[s] \in OpenSpend
        /\ pool.spend[s] # "none" /\ scalls[s] # "none"
    BY <1>2 DEF AwaitsInsert, SpendStatus, OpenSpend, Reserving
  <2>2. /\ pool' \in Pools /\ scalls' \in [Spends -> Calls]
        /\ PoolInv(pool', dcalls, scalls', sent', burnt, settled)
    BY <1>1, <1>2, <2>1, SpendLeavesKeeps
  <2>3. QED
    BY <1>1, <2>2 DEF Inv, Types, InsertUnknown
<1>3. CASE UNCHANGED <<pool, scalls>>
  <2>1. PoolInv(pool, dcalls, scalls, sent', burnt, settled)
    BY <1>1 DEF Inv, PoolInv, SpendInv
  <2>2. QED
    BY <1>1, <1>3, <2>1 DEF Inv, Types, InsertUnknown
<1>4. QED
  BY <1>2, <1>3 DEF InsertUnknown

-----------------------------------------------------------------------------
(* The upgrade, and the first state.                                       *)

(* A scan begins with the arithmetic right and everything still to visit.  *)
LEMMA StartedUnstamped ==
  ASSUME NEW p \in Pools, ~ p.stamped,
         p.depositIndex \subseteq Having(p.deposit, OpenDeposit),
         p.spendIndex \subseteq Having(p.spend, OpenSpend)
  PROVE  /\ Started(p) \in Pools /\ IndexInv(Started(p)) /\ Counted(Started(p))
         /\ ReserveInv(Started(p))
         /\ Started(p).deposit = p.deposit /\ Started(p).spend = p.spend
<1>. DEFINE q0 == [p EXCEPT !.inflight = {}]
            c == FirstCursor(q0)
            q == [q0 EXCEPT !.cursor = c]
            a == Cardinality(Recorded(p.deposit))
            b == Cardinality(Recorded(p.spend))
<1>1. Started(p) = q
  BY DEF Started
<1>2. /\ q0 \in Pools /\ q0.deposit = p.deposit /\ q0.spend = p.spend /\ q0.inflight = {}
      /\ q0.depositIndex = p.depositIndex /\ q0.spendIndex = p.spendIndex
      /\ q0.stamped = p.stamped
  BY DEF Pools
<1>3. /\ p.deposit \in [Deposits -> DepositStatus] /\ p.spend \in [Spends -> SpendStatus]
      /\ p.stamped = FALSE
  BY DEF Pools
<1>4. /\ Recorded(p.deposit) \subseteq Deposits /\ Recorded(p.spend) \subseteq Spends
  BY <1>3 DEF Recorded
<1>5. IsFiniteSet(Recorded(p.deposit)) /\ IsFiniteSet(Recorded(p.spend))
  BY <1>4, FS_Subset, ScanAssumption
<1>6. a \in Nat /\ b \in Nat
  BY <1>5, FS_CardinalityType
<1>. HIDE DEF q0
<1>7. /\ c \in Cursors /\ c.phase = 0 /\ c.last = 0 /\ c.total = 3 * (a + b)
      /\ c.scanned = 0 /\ c.removed = 0
  <2>1. c = [CompleteCursor EXCEPT !.phase = 0, !.total = 3 * (a + b)]
    BY <1>2 DEF FirstCursor
  <2>2. 3 * (a + b) \in Nat
    BY <1>6
  <2>. DEFINE n == 3 * (a + b)
  <2>. HIDE DEF c, n
  <2>3. n \in Nat /\ c = [CompleteCursor EXCEPT !.phase = 0, !.total = n]
    BY <2>1, <2>2 DEF n
  <2>4. c = [phase |-> 0, last |-> 0, total |-> n, scanned |-> 0, removed |-> 0,
             expectedDeposits |-> 0, expectedSpends |-> 0]
    BY <2>3 DEF CompleteCursor
  <2>5. c \in Cursors /\ c.phase = 0 /\ c.last = 0 /\ c.total = n /\ c.scanned = 0 /\ c.removed = 0
    <3>1. n \in Nat
      BY <2>3
    <3>2. 0 \in 0..6 /\ 0 \in Nat
      OBVIOUS
    <3>3. c.phase = 0 /\ c.last = 0 /\ c.total = n /\ c.scanned = 0 /\ c.removed = 0
      BY <2>4
    <3>4. c \in Cursors
      BY <2>4, <3>1, <3>2, Zenon DEF Cursors, Finished
    <3>5. QED
      BY <3>3, <3>4
  <2>6. QED
    BY <2>5 DEF n
<1>. HIDE DEF c
<1>8. /\ q \in Pools /\ q.cursor = c /\ q.deposit = p.deposit /\ q.spend = p.spend
      /\ q.inflight = {} /\ q.stamped = FALSE
      /\ q.depositIndex = p.depositIndex /\ q.spendIndex = p.spendIndex
  BY <1>2, <1>3, <1>7 DEF Pools
<1>. HIDE DEF q
<1>9. \A h \in 0..5 : Left(q, h) = Recorded(IF h \in {0, 3, 4} THEN p.deposit ELSE p.spend)
  <2>. SUFFICES ASSUME NEW h \in 0..5
                PROVE  Left(q, h) = Recorded(IF h \in {0, 3, 4} THEN p.deposit ELSE p.spend)
    OBVIOUS
  <2>. DEFINE R == Recorded(IF h \in {0, 3, 4} THEN p.deposit ELSE p.spend)
  <2>1. Left(q, h) = {k \in R : h = 0 => k > 0}
    BY <1>7, <1>8 DEF Left
  <2>2. R \subseteq Nat \ {0}
    BY <1>4, ScanAssumption
  <2>. HIDE DEF R
  <2>3. \A k \in R : k > 0
    BY <2>2
  <2>4. Left(q, h) = R
    BY <2>1, <2>3
  <2>5. QED
    BY <2>4 DEF R
<1>10. Counted(q)
  <2>1. \A h \in 0..5 : Work(q, h) = Cardinality(Left(q, h))
    BY <1>7, <1>8 DEF Work
  <2>2. /\ Left(q, 0) = Recorded(p.deposit) /\ Left(q, 3) = Recorded(p.deposit)
        /\ Left(q, 4) = Recorded(p.deposit)
        /\ Left(q, 1) = Recorded(p.spend) /\ Left(q, 2) = Recorded(p.spend)
        /\ Left(q, 5) = Recorded(p.spend)
    BY <1>9
  <2>3. /\ Work(q, 0) = a /\ Work(q, 3) = a /\ Work(q, 4) = a
        /\ Work(q, 1) = b /\ Work(q, 2) = b /\ Work(q, 5) = b
    BY <2>1, <2>2
  <2>. HIDE DEF a, b
  <2>4. 3 * (a + b) = 0 + 0 + a + b + b + a + a + b
    BY <1>6
  <2>5. q.cursor.total = 3 * (a + b) /\ q.cursor.scanned = 0 /\ q.cursor.removed = 0
    BY <1>7, <1>8
  <2>6. QED
    BY <2>3, <2>4, <2>5 DEF Counted
<1>11. IndexInv(q)
  <2>1. \A d \in Having(q.deposit, OpenDeposit) : d \in Left(q, 4)
    BY <1>3, <1>8, <1>9 DEF Having, Recorded, OpenDeposit
  <2>2. \A s \in Having(q.spend, OpenSpend) : s \in Left(q, 5)
    BY <1>3, <1>8, <1>9 DEF Having, Recorded, OpenSpend
  <2>3. QED
    BY <1>7, <1>8, <2>1, <2>2 DEF IndexInv
<1>12. ReserveInv(q)
  <2>. SUFFICES ASSUME NEW s \in Having(q.spend, Reserving) PROVE ~ Admits(q) /\ s \in Late(q)
    BY DEF ReserveInv
  <2>1. s \in Recorded(p.spend)
    BY <1>3, <1>8 DEF Having, Recorded, Reserving
  <2>2. s \in Late(q)
    BY <1>7, <1>8, <1>9, <2>1 DEF Late
  <2>3. ~ Complete(q)
    BY <1>7, <1>8 DEF Complete, Finished
  <2>4. CASE Admits(q)
    <3>1. \A h \in 0..5 : h >= q.cursor.phase => Left(q, h) = {}
      BY <1>8, <1>10, <2>4, NothingLeft
    <3>2. Left(q, 2) = {} /\ Left(q, 2) = Recorded(p.spend)
      BY <1>7, <1>8, <1>9, <3>1
    <3>3. QED
      BY <2>1, <3>2
  <2>5. QED
    BY <2>2, <2>4
<1>13. QED
  BY <1>1, <1>8, <1>10, <1>11, <1>12 DEF q

(* A stamped index names every record the upgrade has to look at.          *)
LEMMA StartedStamped ==
  ASSUME NEW p \in Pools, p.stamped, IndexInv(p), NEW dc, NEW sc, NEW sn, NEW b, NEW st,
         NoCalls(dc, sc), SpendInv(p, sn, b, st)
  PROVE  Started(p) \in Pools /\ PoolInv(Started(p), dc, sc, sn, b, st)
<1>. DEFINE I == p.spendIndex
            after == [s \in Spends |-> IF s \in I THEN NormalStatus(p.spend[s]) ELSE p.spend[s]]
            idx == p.spendIndex \ {s \in I : after[s] = "none"}
            infl == {Note[s] : s \in {t \in I : after[t] \in Reserving}}
            q0 == [p EXCEPT !.inflight = {}]
            q == [Normalized(q0, I) EXCEPT !.cursor = CompleteCursor]
<1>1. Complete(p) /\ p.cursor.phase = 6
  BY DEF IndexInv, Complete, Finished
<1>2. p.deposit \in [Deposits -> DepositStatus] /\ p.spend \in [Spends -> SpendStatus]
      /\ p.depositIndex \subseteq Deposits /\ I \subseteq Spends
  BY DEF Pools
<1>3. I = Having(p.spend, OpenSpend) /\ p.depositIndex = Having(p.deposit, OpenDeposit)
  <2>1. ~ (p.cursor.phase <= 4) /\ ~ (p.cursor.phase <= 5)
    BY <1>1
  <2>2. \A s \in Having(p.spend, OpenSpend) : s \in I
    BY <2>1 DEF IndexInv
  <2>3. \A d \in Having(p.deposit, OpenDeposit) : d \in p.depositIndex
    BY <2>1 DEF IndexInv
  <2>4. I \subseteq Having(p.spend, OpenSpend)
        /\ p.depositIndex \subseteq Having(p.deposit, OpenDeposit)
    BY DEF IndexInv
  <2>. HIDE DEF I
  <2>5. QED
    BY <2>2, <2>3, <2>4
<1>4. /\ q0 \in Pools /\ q0.deposit = p.deposit /\ q0.spend = p.spend /\ q0.inflight = {}
      /\ q0.depositIndex = p.depositIndex /\ q0.spendIndex = p.spendIndex
      /\ q0.stamped = p.stamped /\ q0.cursor = p.cursor
  BY DEF Pools
<1>5. Started(p) = q
  BY <1>4 DEF Started
<1>. HIDE DEF q0
<1>6. Normalized(q0, I) = [q0 EXCEPT !.spend = after, !.spendIndex = idx,
                                     !.inflight = infl]
  <2>1. Normalized(q0, I) = [q0 EXCEPT !.spend = after, !.spendIndex = idx,
                                       !.inflight = {} \cup infl]
    BY <1>4 DEF Normalized, Pools
  <2>2. {} \cup infl = infl
    OBVIOUS
  <2>. HIDE DEF infl
  <2>3. QED
    BY <2>1, <2>2
<1>7. after \in [Spends -> SpendStatus]
  BY <1>2, NormalTwice
<1>8. \A s \in Spends : after[s] = NormalStatus(p.spend[s])
  <2>. SUFFICES ASSUME NEW s \in Spends, s \notin I PROVE p.spend[s] = NormalStatus(p.spend[s])
    OBVIOUS
  <2>1. p.spend[s] \notin OpenSpend
    BY <1>2, <1>3 DEF Having
  <2>2. QED
    BY <2>1 DEF OpenSpend, NormalStatus
<1>. HIDE DEF I
<1>9. idx = Having(after, OpenSpend)
  <2>. HIDE DEF after
  <2>1. \A s \in Spends : s \in I <=> p.spend[s] \in OpenSpend
    BY <1>2, <1>3 DEF Having
  <2>2. p.spendIndex = I
    BY DEF I
  <2>3. \A s \in Spends : s \in idx <=> after[s] \in OpenSpend
    <3>. SUFFICES ASSUME NEW s \in Spends PROVE s \in idx <=> after[s] \in OpenSpend
      OBVIOUS
    <3>1. p.spend[s] \in SpendStatus /\ after[s] = NormalStatus(p.spend[s])
      BY <1>2, <1>8
    <3>2. after[s] \in OpenSpend <=> (p.spend[s] \in OpenSpend /\ after[s] # "none")
      BY <3>1 DEF NormalStatus, SpendStatus, OpenSpend
    <3>3. QED
      BY <2>1, <2>2, <3>2
  <2>4. DOMAIN after = Spends /\ idx \subseteq Spends
    BY <1>2, <1>7, <2>2
  <2>. HIDE DEF idx
  <2>5. QED
    BY <2>3, <2>4 DEF Having
<1>10. \A s \in Having(after, Reserving) : Note[s] \in infl
  <2>. SUFFICES ASSUME NEW s \in Having(after, Reserving) PROVE Note[s] \in infl
    OBVIOUS
  <2>1. s \in Spends /\ after[s] \in Reserving
    BY <1>7 DEF Having
  <2>2. p.spend[s] \in OpenSpend
    BY <1>2, <1>8, <2>1, NormalTwice DEF Reserving, OpenSpend
  <2>3. s \in I
    BY <1>2, <1>3, <2>1, <2>2 DEF Having
  <2>. HIDE DEF after
  <2>4. s \in {t \in I : after[t] \in Reserving}
    BY <2>1, <2>3
  <2>5. QED
    BY <2>4
<1>11. infl \in SUBSET Notes /\ idx \in SUBSET Spends
  <2>1. infl \subseteq {Note[s] : s \in Spends}
    <3>. HIDE DEF after
    <3>1. QED
      BY <1>2
  <2>2. QED
    BY <1>2, <2>1 DEF Notes, I
<1>. HIDE DEF after, idx, infl
<1>12. /\ Normalized(q0, I) \in Pools /\ Normalized(q0, I).deposit = p.deposit
       /\ Normalized(q0, I).spend = after /\ Normalized(q0, I).inflight = infl
       /\ Normalized(q0, I).depositIndex = p.depositIndex
       /\ Normalized(q0, I).spendIndex = idx
  BY <1>4, <1>6, <1>7, <1>11 DEF Pools
<1>13. CompleteCursor \in Cursors /\ CompleteCursor.phase = 6
  BY DEF CompleteCursor, Cursors, Finished
<1>14. /\ q \in Pools /\ q.deposit = p.deposit /\ q.spend = after /\ q.inflight = infl
       /\ q.depositIndex = p.depositIndex /\ q.spendIndex = idx /\ q.cursor.phase = 6
  BY <1>12, <1>13 DEF Pools
<1>. HIDE DEF q
<1>15. Complete(q) /\ Admits(q) /\ Late(q) = {}
  BY <1>14, PhaseLeft DEF Complete, Admits, Finished
<1>16. IndexInv(q)
  BY <1>3, <1>9, <1>14, <1>15 DEF IndexInv
<1>17. ReserveInv(q)
  BY <1>10, <1>14 DEF ReserveInv
<1>18. Having(after, Reserving) = Having(p.spend, Reserving)
  <2>1. \A s \in Spends : after[s] \in Reserving <=> p.spend[s] \in Reserving
    BY <1>2, <1>8, NormalTwice
  <2>2. QED
    BY <1>2, <1>7, <2>1 DEF Having
<1>19. SpendInv(q, sn, b, st)
  BY <1>14, <1>18 DEF SpendInv
<1>20. OwnInv(q, dc, sc)
  BY DEF OwnInv, NoCalls
<1>21. GateInv(q, dc, sc)
  <2>1. \A s \in Spends : sc[s] = "none"
    BY DEF NoCalls
  <2>2. QED
    BY <1>14, <1>15, <2>1 DEF GateInv, LateInv
<1>22. QED
  BY <1>5, <1>14, <1>16, <1>17, <1>19, <1>20, <1>21 DEF PoolInv, q

LEMMA UpgradeKeeps == ASSUME Inv, Upgrade PROVE Inv'
<1>1. /\ pool \in Pools /\ IndexInv(pool) /\ SpendInv(pool, sent, burnt, settled)
      /\ pool.stamped \in BOOLEAN
  BY DEF Inv, Types, PoolInv, Pools
<1>2. dcalls' = {} /\ scalls' = [s \in Spends |-> "none"] /\ NoCalls(dcalls', scalls')
  BY DEF Upgrade, NoCalls
<1>3. scalls' \in [Spends -> Calls] /\ upgrades' \in 0..MaxUpgrades
  BY <1>2, ScanAssumption DEF Calls, Upgrade, Inv, Types
<1>4. pool' \in Pools /\ PoolInv(pool', dcalls', scalls', sent, burnt, settled)
  <2>1. CASE pool.stamped
    <3>1. pool' = Started(pool)
      BY <2>1 DEF Upgrade
    <3>2. /\ Started(pool) \in Pools
          /\ PoolInv(Started(pool), dcalls', scalls', sent, burnt, settled)
      BY <1>1, <1>2, <2>1, StartedStamped
    <3>3. QED
      BY <3>1, <3>2
  <2>2. CASE ~ pool.stamped
    <3>. DEFINE p == Started(pool)
    <3>1. pool' \in Advance(p)
      BY <2>2 DEF Upgrade
    <3>2. /\ p \in Pools /\ IndexInv(p) /\ Counted(p) /\ ReserveInv(p)
          /\ p.spend = pool.spend
      BY <1>1, <2>2, StartedUnstamped DEF IndexInv
    <3>. HIDE DEF p
    <3>3. SpendInv(p, sent, burnt, settled) /\ OwnInv(p, dcalls', scalls')
      BY <1>1, <1>2, <3>2 DEF SpendInv, OwnInv, NoCalls
    <3>4. QED
      BY <1>2, <3>1, <3>2, <3>3, AdvanceInv
  <2>3. QED
    BY <1>1, <2>1, <2>2
<1>5. QED
  BY <1>2, <1>3, <1>4 DEF Inv, Types, Upgrade

(* Nobody's note was spent twice before the first state.                   *)
LEMMA LegalSpends ==
  ASSUME NEW p \in Pools, NEW sn, NEW b \in [Notes -> Spends \cup {Absent}], NEW st,
         Legal(p.spend, b, sn),
         st = [n \in Notes |->
                  Cardinality({s \in Having(p.spend, {"committed", "final"}) : Note[s] = n})]
  PROVE  SpendInv(p, sn, b, st) /\ st \in [Notes -> Nat]
<1>. DEFINE C(n) == {s \in Having(p.spend, {"committed", "final"}) : Note[s] = n}
            Taken == Having(p.spend, Reserving \cup {"committed", "final"})
<1>1. p.spend \in [Spends -> SpendStatus]
  BY DEF Pools
<1>2. /\ \A s, t \in Taken : Note[s] = Note[t] => s = t
      /\ \A s \in Having(p.spend, {"committed", "final"}) : b[Note[s]] = s
      /\ \A n \in Notes : b[n] # Absent => Note[b[n]] = n /\ p.spend[b[n]] \in Reserving \cup {"committed", "final"}
      /\ sn \subseteq {s \in Having(p.spend, Reserving) : b[Note[s]] = Absent}
  BY DEF Legal
<1>3. /\ \A s \in Having(p.spend, Reserving) : s \in Taken /\ s \in Spends /\ Note[s] \in Notes
      /\ \A s \in Having(p.spend, {"committed", "final"}) : s \in Taken /\ s \in Spends
      /\ \A s \in Spends : p.spend[s] \in Reserving \cup {"committed", "final"} => s \in Taken
      /\ Having(p.spend, Reserving) \cap Having(p.spend, {"committed", "final"}) = {}
  BY <1>1 DEF Having, Notes, Reserving
<1>. HIDE DEF Taken
<1>4. ASSUME NEW n \in Notes
      PROVE  /\ st[n] = Cardinality(C(n))
             /\ C(n) = {} \/ \E s : C(n) = {s} /\ s \in Taken /\ Note[s] = n /\ b[n] = s /\ s \in Spends
  <2>1. st[n] = Cardinality(C(n))
    OBVIOUS
  <2>2. CASE C(n) # {}
    <3>1. PICK s \in C(n) : TRUE
      BY <2>2
    <3>2. s \in Taken /\ Note[s] = n /\ b[n] = s /\ s \in Spends
      BY <1>2, <1>3, <3>1
    <3>3. \A t \in C(n) : t = s
      BY <1>2, <1>3, <3>2
    <3>4. C(n) = {s}
      BY <3>1, <3>3
    <3>5. QED
      BY <2>1, <3>2, <3>4
  <2>3. QED
    BY <2>1, <2>2
<1>5. \A n \in Notes : st[n] \in {0, 1} /\ (st[n] # 0 => b[n] # Absent)
  <2>. SUFFICES ASSUME NEW n \in Notes PROVE st[n] \in {0, 1} /\ (st[n] # 0 => b[n] # Absent)
    OBVIOUS
  <2>1. CASE C(n) = {}
    BY <1>4, <2>1, FS_EmptySet
  <2>2. ASSUME NEW s, C(n) = {s}, b[n] = s, s \in Spends
        PROVE  st[n] \in {0, 1} /\ (st[n] # 0 => b[n] # Absent)
    BY <1>4, <2>2, FS_Singleton, ScanAssumption DEF Absent
  <2>3. QED
    BY <1>4, <2>1, <2>2
<1>6. \A s, t \in Having(p.spend, Reserving) : Note[s] = Note[t] => s = t
  BY <1>2, <1>3
<1>7. ASSUME NEW s \in Having(p.spend, Reserving)
      PROVE  b[Note[s]] \in {Absent, s} /\ st[Note[s]] = 0
  <2>1. s \in Taken /\ s \in Spends /\ Note[s] \in Notes
    BY <1>3
  <2>2. b[Note[s]] \in {Absent, s}
    <3>1. CASE b[Note[s]] # Absent
      <4>1. b[Note[s]] \in Spends /\ Note[b[Note[s]]] = Note[s] /\ b[Note[s]] \in Taken
        BY <1>2, <1>3, <2>1, <3>1
      <4>2. QED
        BY <1>2, <2>1, <4>1
    <3>2. QED
      BY <3>1
  <2>3. C(Note[s]) = {}
    <3>. SUFFICES ASSUME NEW t \in C(Note[s]) PROVE FALSE
      OBVIOUS
    <3>1. t = s
      BY <1>2, <1>3, <2>1
    <3>2. QED
      BY <1>3, <3>1
  <2>4. st[Note[s]] = 0
    BY <1>4, <2>1, <2>3, FS_EmptySet
  <2>5. QED
    BY <2>2, <2>4
<1>8. sn \subseteq Having(p.spend, Reserving)
  BY <1>2
<1>9. st \in [Notes -> Nat]
  BY <1>5
<1>. HIDE DEF C
<1>10. \A n \in Notes : st[n] <= 1
  BY <1>5
<1>11. QED
  BY <1>5, <1>6, <1>7, <1>8, <1>9, <1>10 DEF SpendInv

(* The first state satisfies the invariant.                                *)
LEMMA InitInv == Init => Inv
<1>. SUFFICES ASSUME Init PROVE Inv
  OBVIOUS
<1>1. dcalls = {} /\ scalls = [s \in Spends |-> "none"] /\ NoCalls(dcalls, scalls)
  BY DEF Init, NoCalls
<1>2. /\ scalls \in [Spends -> Calls] /\ upgrades \in 0..MaxUpgrades /\ faults \in 0..MaxFaults
  <2>1. upgrades = 0 /\ faults = 0
    BY DEF Init
  <2>2. QED
    BY <1>1, <2>1, ScanAssumption DEF Calls
<1>3. settled = [n \in Notes |->
          Cardinality({s \in Having(pool.spend, {"committed", "final"}) : Note[s] = n})]
  BY DEF Init
<1>4. /\ Empty \in Pools /\ Empty.stamped = FALSE /\ Empty.depositIndex = {}
      /\ Empty.spendIndex = {} /\ Empty.cursor.phase = 6 /\ Empty.inflight = {}
      /\ Empty.deposit = [d \in Deposits |-> "none"] /\ Empty.spend = [s \in Spends |-> "none"]
  <2>1. CompleteCursor \in Cursors /\ CompleteCursor.phase = 6
    BY DEF CompleteCursor, Cursors, Finished
  <2>2. QED
    BY <2>1 DEF Empty, Pools, DepositStatus, SpendStatus
<1>5. CASE pool = Empty /\ sent = {} /\ burnt = [n \in Notes |-> Absent]
  <2>1. /\ \A S \in {OpenSpend, Reserving, {"committed", "final"}, Reserving \cup {"committed", "final"}} :
              Having(pool.spend, S) = {}
        /\ Having(pool.deposit, OpenDeposit) = {}
    BY <1>4, <1>5 DEF Having, OpenSpend, Reserving, OpenDeposit
  <2>2. burnt \in [Notes -> Spends \cup {Absent}] /\ \A n \in Notes : burnt[n] = Absent
    BY <1>5
  <2>3. Legal(pool.spend, burnt, sent)
    BY <1>5, <2>1, <2>2 DEF Legal
  <2>4. pool \in Pools
    BY <1>4, <1>5
  <2>5. SpendInv(pool, sent, burnt, settled) /\ settled \in [Notes -> Nat]
    BY <1>3, <2>2, <2>3, <2>4, LegalSpends
  <2>6. pool.cursor.phase = 6 /\ pool.stamped = FALSE /\ pool.depositIndex = {} /\ pool.spendIndex = {}
    BY <1>4, <1>5
  <2>7. Complete(pool) /\ Admits(pool) /\ Late(pool) = {}
    BY <2>4, <2>6, PhaseLeft DEF Complete, Admits, Finished
  <2>8. IndexInv(pool)
    BY <2>1, <2>6 DEF IndexInv
  <2>9. ReserveInv(pool)
    BY <2>1 DEF ReserveInv
  <2>10. OwnInv(pool, dcalls, scalls)
    BY <1>1 DEF OwnInv, NoCalls
  <2>11. GateInv(pool, dcalls, scalls)
    <3>1. \A s \in Spends : scalls[s] = "none"
      BY <1>1
    <3>2. QED
      BY <2>6, <2>7, <3>1 DEF GateInv, LateInv
  <2>12. QED
    BY <1>1, <1>2, <1>5, <2>2, <2>4, <2>5, <2>8, <2>9, <2>10, <2>11 DEF Inv, Types, PoolInv
<1>6. ASSUME NEW deposit \in [Deposits -> DepositStatus], NEW spend \in [Spends -> SpendStatus],
             sent \in SUBSET Spends, burnt \in [Notes -> Spends \cup {Absent}],
             Legal(spend, burnt, sent),
             pool \in Advance(Started([Empty EXCEPT !.deposit = deposit, !.spend = spend]))
      PROVE  Inv
  <2>. DEFINE e == [Empty EXCEPT !.deposit = deposit, !.spend = spend]
              p == Started(e)
              st == [n \in Notes |->
                       Cardinality({s \in Having(p.spend, {"committed", "final"}) : Note[s] = n})]
  <2>1. /\ e \in Pools /\ e.stamped = FALSE /\ e.depositIndex = {} /\ e.spendIndex = {}
        /\ e.spend = spend
    BY <1>4 DEF Pools
  <2>a. pool \in Advance(p)
    BY <1>6
  <2>. HIDE DEF e
  <2>2. /\ p \in Pools /\ IndexInv(p) /\ Counted(p) /\ ReserveInv(p) /\ p.spend = spend
    BY <2>1, StartedUnstamped
  <2>. HIDE DEF p
  <2>3. SpendInv(p, sent, burnt, st) /\ st \in [Notes -> Nat]
    BY <1>6, <2>2, LegalSpends
  <2>4. pool \in Pools /\ ScanRel(p, pool)
    BY <2>2, <2>a, AdvanceRel
  <2>5. Having(pool.spend, {"committed", "final"}) = Having(p.spend, {"committed", "final"})
    <3>1. /\ p.spend \in [Spends -> SpendStatus] /\ pool.spend \in [Spends -> SpendStatus]
      BY <2>2, <2>4 DEF Pools
    <3>2. \A s \in Spends : pool.spend[s] \in {p.spend[s], NormalStatus(p.spend[s])}
      BY <2>4 DEF ScanRel
    <3>3. \A x \in SpendStatus : NormalStatus(x) \in {"committed", "final"} <=> x \in {"committed", "final"}
      BY DEF SpendStatus, NormalStatus
    <3>4. \A s \in Spends : pool.spend[s] \in {"committed", "final"} <=> p.spend[s] \in {"committed", "final"}
      BY <3>1, <3>2, <3>3
    <3>5. QED
      BY <3>1, <3>4 DEF Having
  <2>6. settled = st
    BY <1>3, <2>5
  <2>7. OwnInv(p, dcalls, scalls)
    BY <1>1 DEF OwnInv, NoCalls
  <2>8. PoolInv(pool, dcalls, scalls, sent, burnt, settled)
    BY <1>1, <2>2, <2>3, <2>6, <2>7, <2>a, AdvanceInv
  <2>9. QED
    BY <1>1, <1>2, <1>6, <2>3, <2>4, <2>6, <2>8 DEF Inv, Types
<1>7. QED
  BY <1>5, <1>6 DEF Init

(* Every step keeps it.                                                    *)
LEMMA NextInv == Inv /\ [Next]_vars => Inv'
<1>. SUFFICES ASSUME Inv, [Next]_vars PROVE Inv'
  OBVIOUS
<1>1. CASE UNCHANGED vars
  BY <1>1 DEF vars, Inv, Types
<1>2. CASE Knock
  BY <1>2, KnockKeeps
<1>3. CASE Prune
  BY <1>3, PruneKeeps
<1>4. CASE Upgrade
  BY <1>4, UpgradeKeeps
<1>5. ASSUME NEW d \in Deposits,
             ShieldDeposit(d) \/ DepositStep(d) \/ DepositErrors(d) \/ ResumeDeposit(d)
      PROVE  Inv'
  BY <1>5, ShieldDepositKeeps, RecordDepositKeeps, DepositEndsKeeps, DepositErrorsKeeps,
     ResumeDepositKeeps DEF DepositStep
<1>6. ASSUME NEW s \in Spends, SpendStep(s) PROVE Inv'
  BY <1>6, RecordSpendKeeps, ReserveKeeps, InsertArrivesKeeps, InsertReplyKeeps,
     ReconcileReplyKeeps, PromoteKeeps, VerifyFailsKeeps DEF SpendStep
<1>7. ASSUME NEW s \in Spends,
             PrivateSpend(s) \/ RecheckErrors(s) \/ InsertUnknown(s) \/ ReconcileErrors(s)
                \/ PromoteErrors(s) \/ ReconcileInsert(s) \/ ReconcileSpend(s)
      PROVE  Inv'
  BY <1>7, PrivateSpendKeeps, RecheckErrorsKeeps, InsertUnknownKeeps, ReconcileErrorsKeeps,
     PromoteErrorsKeeps, ReconcileInsertKeeps, ReconcileSpendKeeps
<1>8. QED
  BY <1>1, <1>2, <1>3, <1>4, <1>5, <1>6, <1>7 DEF Next

(* The types, and what the calls own.                                      *)
LEMMA InvImpliesTypeOK == Inv => TypeOK
<1>. SUFFICES ASSUME Inv PROVE TypeOK
  OBVIOUS
<1>1. Types /\ OwnInv(pool, dcalls, scalls)
  BY DEF Inv, PoolInv
<1>2. \A d \in dcalls : pool.deposit[d] \in {"none", "open"}
  BY <1>1 DEF OwnInv
<1>3. ASSUME NEW s \in Spends, scalls[s] # "none"
      PROVE  pool.spend[s] \in CASE scalls[s] = "early" -> {"none"}
                              [] scalls[s] = "operator" -> {"reconciling", "committed"}
                              [] scalls[s] = "client" ->
                                    {"none", "verifying", "staged", "unknown", "committed"}
  <2>1. scalls[s] \in {"early", "client", "operator"}
    BY <1>1, <1>3 DEF Types, Calls
  <2>2. /\ scalls[s] = "early" => pool.spend[s] = "none"
        /\ scalls[s] = "operator" => pool.spend[s] \in {"reconciling", "committed"}
        /\ scalls[s] = "client" =>
              pool.spend[s] \in {"none", "verifying", "staged", "unknown", "committed"}
    BY <1>1 DEF OwnInv
  <2>3. CASE scalls[s] = "early"
    BY <2>2, <2>3
  <2>4. CASE scalls[s] = "operator"
    BY <2>2, <2>4
  <2>5. CASE scalls[s] = "client"
    BY <2>2, <2>5
  <2>6. QED
    BY <2>1, <2>3, <2>4, <2>5
<1>4. QED
  BY <1>1, <1>2, <1>3 DEF TypeOK, Types, Calls

(* Past phase 5 nothing is left to be indexed.                             *)
LEMMA InvImpliesIndex == Inv => StampedIndexComplete
<1>. SUFFICES ASSUME Inv, pool.stamped
              PROVE  /\ pool.depositIndex = Having(pool.deposit, OpenDeposit)
                     /\ pool.spendIndex = Having(pool.spend, OpenSpend)
  BY DEF StampedIndexComplete
<1>1. IndexInv(pool)
  BY DEF Inv, PoolInv
<1>2. ~ (pool.cursor.phase <= 4) /\ ~ (pool.cursor.phase <= 5)
  BY <1>1 DEF IndexInv, Complete, Finished
<1>3. QED
  BY <1>1, <1>2 DEF IndexInv

(* The inductive invariant of the scan, the gate and the calls.            *)
THEOREM InvAlways == Spec => []Inv
<1>1. Init => Inv
  BY InitInv
<1>2. Inv /\ [Next]_vars => Inv'
  BY NextInv
<1>3. QED
  BY <1>1, <1>2, PTL DEF Spec

(* The types, and that a call past the gate finds its record where it left *)
(* it: no chunk of a later message and no upgrade takes the record of a    *)
(* recovery away, and a private_spend loses at most one that committed to  *)
(* nothing.                                                                *)
THEOREM TypesAlways == Spec => []TypeOK
BY InvAlways, InvImpliesTypeOK, PTL

(* However many upgrades clear the reservations and however late a chunk   *)
(* restores them, a nullifier is carried on for one spend at most: the     *)
(* gate lets nobody in who could reserve a note that an open spend holds.  *)
THEOREM NoteSpentOnceAlways == Spec => []NoteSpentOnce
<1>1. Inv => NoteSpentOnce
  BY DEF Inv, PoolInv, SpendInv, NoteSpentOnce
<1>2. QED
  BY <1>1, InvAlways, PTL

(* finish_recovery_build stamps an index only when every deposit and spend *)
(* that is not settled is in it, and the segments that write and settle    *)
(* records keep it so: post_upgrade may go by the index alone.             *)
THEOREM StampedIndexCompleteAlways == Spec => []StampedIndexComplete
BY InvAlways, InvImpliesIndex, PTL
=============================================================================
