--------------------------- MODULE PlanStops_proofs ---------------------------
(* A plan's status under overlapping stops, for every finite set of plans and    *)
(* any number of stops: type correctness, that one stop keeps the way back, that *)
(* a plan reads parked exactly under a stop, and that only a write of its status *)
(* changes what it goes back to.                                                 *)
EXTENDS PlanStops, SequenceTheorems, FiniteSetTheorems, WellFoundedInduction, TLAPS

-----------------------------------------------------------------------------
(* The inductive invariant. *)

Txn == [plans : [Plans -> Plan], stops : Seq(Hold)]
Held(s, p) == Parking(s, p) # {}
WayBack(s, p) == Kept(s, Parking(s, p), p)
\* One of the stops that park a plan keeps its way back.
KeptOnce(s, p) == \A g, h \in Parking(s, p) :
    s.stops[g].way[p] # "none" /\ s.stops[h].way[p] # "none" => g = h
\* A stop on a plan keeps no other plan's way back.
OwnRecords(s) == \A h \in DOMAIN s.stops, p \in Plans :
    s.stops[h].way[p] # "none" => s.stops[h].on \in {p, Conv}

\* A plan, whether a stop parks it, and its way back, "none" for no record.
RowOK(row, held, way) ==
    /\ row.col = "none" => row = Unopened /\ way = "none"
    /\ way = "aside" => row.spec # "none"
    /\ held /\ row.col = "parked" => row.spec # "active"
    /\ ~held => way = "none"
\* The same of one that was neither parked before there were stops nor reopened under one.
ReadsOK(row, held, way) ==
    LET reads == IF held THEN "parked" ELSE "active" IN
    /\ row.col \in {"active", "parked"} => row.col = reads /\ row.spec \in {reads, "none"}
    /\ row.col = "done" => row.spec \in {"done", "none"}
    /\ held /\ row.col = "parked" => way # "none"
    /\ way # "aside"
PlanOK(s, strays, p) ==
    /\ RowOK(s.plans[p], Held(s, p), WayBack(s, p))
    /\ p \notin strays => ReadsOK(s.plans[p], Held(s, p), WayBack(s, p))

\* What holds before and after each write of a transaction.
Sound(s, strays) ==
    /\ s \in Txn /\ \A p \in Plans : KeptOnce(s, p)
    /\ home => OwnRecords(s) /\ \A p \in Plans : PlanOK(s, strays, p)

Inv == TypeOK /\ Sound(Before, astray)

\* What a plan would read had nothing stopped it, of one row and its way back.
Reads(row, way) ==
    IF row.col # "parked" THEN row.col
    ELSE IF row.spec = "active" THEN "aside"
    ELSE IF way # "none" THEN way ELSE "active"
\* It is the same after, or the plan was moved aside and is taken up.
Unmoved(was, is, row) == is = was \/ (was = "aside" /\ ~row.shut /\ is = "active")

-----------------------------------------------------------------------------
(* Stops, in the order they were made. *)

\* The newest of some.
LEMMA Newest ==
    ASSUME NEW n \in Nat, NEW S \in SUBSET (1..n), S # {}
    PROVE  Max(S) \in S
<1> DEFINE older == {n - h : h \in S}
           less == OpToRel(<, Nat)
<1>1. older \subseteq Nat /\ older # {}
  <2>1. \A h \in S : h \in 1..n /\ n - h \in Nat  OBVIOUS
  <2>2. PICK h \in S : TRUE  OBVIOUS
  <2>3. n - h \in older  BY <2>2
  <2> QED  BY <2>1, <2>3
<1>2. PICK x \in older : \A y \in older : ~ (<<y, x>> \in less)
  <2>1. IsWellFoundedOn(less, Nat)  BY NatLessThanWellFounded
  <2> HIDE DEF older, less
  <2> QED  BY <1>1, <2>1, WFMin
<1>3. ASSUME NEW y \in older PROVE x <= y
  <2>1. x \in Nat /\ y \in Nat  BY <1>1, <1>2, <1>3
  <2>2. ~ (y < x)  BY <1>2, <1>3, <2>1 DEF OpToRel
  <2> QED  BY <2>1, <2>2
<1>4. PICK h \in S : x = n - h  OBVIOUS
<1>5. \A g \in S : h >= g
  <2> TAKE g \in S
  <2>1. x <= n - g  BY <1>3
  <2> QED  BY <1>4, <2>1
<1> QED  BY <1>5 DEF Max

\* Some of them, numbered anew in their order: there is one for each number.
LEMMA InOrder ==
    ASSUME NEW n \in Nat, NEW K \in SUBSET (1..n)
    PROVE  /\ Cardinality(K) \in Nat /\ Cardinality(K) <= n
           /\ \A h \in K : Cardinality({g \in K : g <= h}) \in 1..Cardinality(K)
           /\ \A g, h \in K : Cardinality({i \in K : i <= g}) = Cardinality({i \in K : i <= h}) => g = h
           /\ \A k \in 1..Cardinality(K) : \E h \in K : Cardinality({g \in K : g <= h}) = k
<1> DEFINE upTo(h) == {g \in K : g <= h}
           rank == [h \in K |-> Cardinality(upTo(h))]
           c == Cardinality(K)
<1>1. IsFiniteSet(K) /\ c \in Nat /\ c <= n
  <2>1. IsFiniteSet(1..n) /\ Cardinality(1..n) = n  BY FS_Interval
  <2> QED  BY <2>1, FS_Subset, FS_CardinalityType
<1>2. ASSUME NEW h \in K
      PROVE  IsFiniteSet(upTo(h)) /\ Cardinality(upTo(h)) \in 1..c
  <2>1. upTo(h) \in SUBSET K  OBVIOUS
  <2>2. IsFiniteSet(upTo(h)) /\ Cardinality(upTo(h)) <= c  BY <1>1, <2>1, FS_Subset
  <2>3. Cardinality(upTo(h)) \in Nat  BY <2>2, FS_CardinalityType
  <2>4. h \in upTo(h)  OBVIOUS
  <2>5. Cardinality(upTo(h)) # 0  BY <2>2, <2>4, FS_EmptySet
  <2> HIDE DEF upTo, c
  <2> QED  BY <1>1, <2>2, <2>3, <2>5
<1>3. ASSUME NEW g \in K, NEW h \in K, Cardinality(upTo(g)) = Cardinality(upTo(h)), g < h
      PROVE  FALSE
  <2>1. upTo(g) \in SUBSET upTo(h)
    <3> \A i \in K : i <= g => i <= h  BY <1>3
    <3> QED  OBVIOUS
  <2>2. upTo(g) = upTo(h)  BY <1>2, <1>3, <2>1, FS_Subset
  <2>3. h \in upTo(h) /\ h \notin upTo(g)  BY <1>3
  <2> QED  BY <2>2, <2>3
<1>4. ASSUME NEW g \in K, NEW h \in K, Cardinality(upTo(g)) = Cardinality(upTo(h))
      PROVE  g = h
  <2>1. ~ (g < h) /\ ~ (h < g)  BY <1>3, <1>4
  <2> QED  BY <2>1
<1>5. rank \in Injection(K, 1..c)
  <2>1. rank \in [K -> 1..c]  BY <1>2
  <2>2. \A g, h \in DOMAIN rank : rank[g] = rank[h] => g = h  BY <1>4
  <2> HIDE DEF rank
  <2> QED  BY <2>1, <2>2 DEF Injection, IsInjective
<1>6. IsFiniteSet(1..c) /\ Cardinality(1..c) = c  BY <1>1, FS_Interval
<1>7. rank \in Surjection(K, 1..c)
  <2> HIDE DEF rank
  <2> QED  BY <1>5, <1>6, FS_Injection
<1>8. \A k \in 1..c : \E h \in K : rank[h] = k  BY <1>7 DEF Surjection
<1> QED  BY <1>1, <1>2, <1>4, <1>8

LEMMA ListOf ==
    ASSUME NEW S, NEW n \in Nat, NEW g \in [1..n -> S]
    PROVE  g \in Seq(S) /\ Len(g) = n /\ DOMAIN g = 1..n
<1>1. g \in Seq(S)  BY SeqDef
<1>2. Len(g) \in Nat /\ DOMAIN g = 1..Len(g)  BY <1>1, LenProperties
<1>3. 1..Len(g) = 1..n  BY <1>2
<1>4. Len(g) = n  BY <1>2, <1>3
<1> QED  BY <1>1, <1>4

LEMMA Stops ==
    ASSUME NEW s \in Txn
    PROVE  /\ Len(s.stops) \in Nat /\ DOMAIN s.stops = 1..Len(s.stops)
           /\ \A h \in DOMAIN s.stops : s.stops[h] \in Hold
           /\ \A p \in Plans : s.plans[p] \in Plan
           /\ \A p \in Plans : Parking(s, p) \subseteq DOMAIN s.stops
BY LenProperties, ElementOfSeq DEF Txn, Parking

\* What some stops keep of a plan: nothing, or what one of them has.
LEMMA KeptIs ==
    ASSUME NEW s \in Txn, NEW p \in Plans, NEW hs \in SUBSET DOMAIN s.stops
    PROVE  /\ Kept(s, hs, p) \in Way
           /\ Kept(s, hs, p) # "none" => \E h \in hs : s.stops[h].way[p] = Kept(s, hs, p)
           /\ (\A h \in hs : s.stops[h].way[p] = "none") => Kept(s, hs, p) = "none"
           /\ (\E h \in hs : s.stops[h].way[p] # "none") => Kept(s, hs, p) # "none"
<1> DEFINE keeping == {h \in hs : s.stops[h].way[p] # "none"}
<1>1. keeping \in SUBSET (1..Len(s.stops)) /\ Len(s.stops) \in Nat  BY Stops
<1>2. keeping # {} => Max(keeping) \in keeping  BY <1>1, Newest
<1>3. \A h \in hs : s.stops[h].way[p] \in Way  BY Stops DEF Hold
<1>4. Kept(s, hs, p) = IF keeping = {} THEN "none" ELSE s.stops[Max(keeping)].way[p]  BY DEF Kept
<1>5. CASE keeping = {}
  <2> QED  BY <1>4, <1>5 DEF Way
<1>6. CASE keeping # {}
  <2> DEFINE m == Max(keeping)
  <2>1. m \in hs /\ s.stops[m].way[p] # "none"  BY <1>2, <1>6
  <2>2. Kept(s, hs, p) = s.stops[m].way[p]  BY <1>4, <1>6
  <2> HIDE DEF m, keeping
  <2> QED  BY <1>3, <2>1, <2>2
<1> QED  BY <1>5, <1>6

\* What is left of the stops when some are lifted: the others, each once.
LEMMA Left ==
    ASSUME NEW s \in Txn, NEW hs \in SUBSET DOMAIN s.stops
    PROVE  LET t == Without(s, hs) IN
           /\ t \in Txn /\ t.plans = s.plans /\ Len(t.stops) <= Len(s.stops)
           /\ \E was \in [DOMAIN t.stops -> DOMAIN s.stops \ hs] :
                 /\ \A k \in DOMAIN t.stops : t.stops[k] = s.stops[was[k]]
                 /\ \A i, k \in DOMAIN t.stops : was[i] = was[k] => i = k
                 /\ \A h \in DOMAIN s.stops \ hs : \E k \in DOMAIN t.stops : was[k] = h
<1> DEFINE n == Len(s.stops)
           rest == DOMAIN s.stops \ hs
           upTo(h) == Cardinality({g \in rest : g <= h})
           c == Cardinality(rest)
           nth(k) == CHOOSE h \in rest : Cardinality({g \in rest : g <= h}) = k
           was == [k \in 1..c |-> nth(k)]
           left == [k \in 1..c |-> s.stops[nth(k)]]
           t == Without(s, hs)
<1>1. n \in Nat /\ DOMAIN s.stops = 1..n /\ \A h \in DOMAIN s.stops : s.stops[h] \in Hold  BY Stops
<1>2. rest \in SUBSET (1..n)  BY <1>1
<1>3. /\ c \in Nat /\ c <= n
      /\ \A h \in rest : upTo(h) \in 1..c
      /\ \A g, h \in rest : upTo(g) = upTo(h) => g = h
      /\ \A k \in 1..c : \E h \in rest : upTo(h) = k
  <2> HIDE DEF n, rest
  <2> QED  BY <1>1, <1>2, InOrder
<1>4. \A k \in 1..c : nth(k) \in rest /\ upTo(nth(k)) = k
  <2> HIDE DEF n, rest, c
  <2> QED  BY <1>3
<1> HIDE DEF nth
<1>5. was \in [1..c -> rest] /\ \A i, k \in 1..c : was[i] = was[k] => i = k
  <2>1. was \in [1..c -> rest]
    <3> HIDE DEF rest, upTo, c
    <3> QED  BY <1>4
  <2>2. \A k \in 1..c : upTo(was[k]) = k
    <3> HIDE DEF rest, upTo, c
    <3> QED  BY <1>4
  <2> HIDE DEF was, rest, upTo, c
  <2> QED  BY <2>1, <2>2
<1>6. \A h \in rest : \E k \in 1..c : was[k] = h
  <2> SUFFICES ASSUME NEW h \in rest PROVE was[upTo(h)] = h /\ upTo(h) \in 1..c  OBVIOUS
  <2> HIDE DEF rest, upTo, c
  <2> QED  BY <1>3, <1>4
<1>7. left \in Seq(Hold) /\ Len(left) = c /\ DOMAIN left = 1..c
  <2>1. left \in [1..c -> Hold]
    <3>1. \A k \in 1..c : s.stops[nth(k)] \in Hold  BY <1>1, <1>4
    <3> HIDE DEF c
    <3> QED  BY <3>1
  <2> HIDE DEF left, c
  <2> QED  BY <1>3, <2>1, ListOf
<1>8. t = [s EXCEPT !.stops = left]
  <2> USE DEF nth
  <2> QED  BY DEF Without
<1>9. t.stops = left /\ t.plans = s.plans /\ t \in Txn
  <2> HIDE DEF left, t
  <2> QED  BY <1>7, <1>8 DEF Txn
<1>10. \A k \in 1..c : left[k] = s.stops[was[k]]
  <2> HIDE DEF c
  <2> QED  OBVIOUS
<1>11. \E w \in [DOMAIN t.stops -> DOMAIN s.stops \ hs] :
          /\ \A k \in DOMAIN t.stops : t.stops[k] = s.stops[w[k]]
          /\ \A i, k \in DOMAIN t.stops : w[i] = w[k] => i = k
          /\ \A h \in DOMAIN s.stops \ hs : \E k \in DOMAIN t.stops : w[k] = h
  <2>1. was \in [DOMAIN t.stops -> DOMAIN s.stops \ hs]
    <3> HIDE DEF was, left, c, t
    <3> QED  BY <1>5, <1>7, <1>9
  <2> WITNESS was \in [DOMAIN t.stops -> DOMAIN s.stops \ hs]
  <2> HIDE DEF was, left, c, t
  <2> QED  BY <1>5, <1>6, <1>7, <1>9, <1>10
<1>12. t \in Txn /\ t.plans = s.plans /\ Len(t.stops) <= Len(s.stops)
  <2> HIDE DEF left, c, t
  <2> QED  BY <1>3, <1>7, <1>9
<1> HIDE DEF was, left, c
<1> QED  BY <1>11, <1>12
-----------------------------------------------------------------------------
(* What is remembered of parked plans. *)

\* The stop that keeps a plan's way back parks it, and is the one that has it, if one does.
LEMMA KeeperIs ==
    ASSUME NEW s \in Txn, NEW p \in Plans, Held(s, p)
    PROVE  /\ Keeper(s, p) \in Parking(s, p)
           /\ \A h \in Parking(s, p) : s.stops[h].way[p] # "none" =>
                 s.stops[Keeper(s, p)].way[p] # "none"
<1> DEFINE keeping == {h \in Parking(s, p) : s.stops[h].way[p] # "none"}
           of == IF keeping # {} THEN keeping ELSE Parking(s, p)
<1>1. of \in SUBSET (1..Len(s.stops)) /\ of # {} /\ Len(s.stops) \in Nat  BY Stops DEF Held
<1>2. Max(of) \in of
  <2> HIDE DEF of
  <2> QED  BY <1>1, Newest
<1>3. Keeper(s, p) = Max(of)  BY DEF Keeper
<1> QED  BY <1>2, <1>3

\* rememberParked writes at the keeper of each plan it is told a way back of, and nowhere else.
LEMMA Remembers ==
    ASSUME NEW s \in Txn, NEW ways \in [Plans -> Way], NEW t, t = RememberParked(s, ways)
    PROVE  /\ t \in Txn /\ t.plans = s.plans
           /\ Len(t.stops) = Len(s.stops) /\ DOMAIN t.stops = DOMAIN s.stops
           /\ \A h \in DOMAIN s.stops : t.stops[h].on = s.stops[h].on
           /\ \A h \in DOMAIN s.stops, p \in Plans : t.stops[h].way[p] =
                 IF ways[p] # "none" /\ Parking(s, p) # {} /\ h = Keeper(s, p)
                 THEN ways[p] ELSE s.stops[h].way[p]
           /\ \A p \in Plans : Parking(t, p) = Parking(s, p)
<1> DEFINE noted(h, p) == ways[p] # "none" /\ Parking(s, p) # {} /\ h = Keeper(s, p)
           way(h) == [p \in Plans |-> IF noted(h, p) THEN ways[p] ELSE s.stops[h].way[p]]
           list == [h \in DOMAIN s.stops |-> [s.stops[h] EXCEPT !.way = way(h)]]
<1>1. /\ Len(s.stops) \in Nat /\ DOMAIN s.stops = 1..Len(s.stops)
      /\ \A h \in DOMAIN s.stops : s.stops[h] \in Hold
  BY Stops
<1>2. t = [s EXCEPT !.stops = list]  BY DEF RememberParked
<1> HIDE DEF noted
<1>3. \A h \in DOMAIN s.stops : way(h) \in [Plans -> Way]  BY <1>1 DEF Hold
<1>4. \A h \in DOMAIN s.stops : list[h] = [on |-> s.stops[h].on, way |-> way(h)] /\ list[h] \in Hold
  <2> SUFFICES ASSUME NEW h \in DOMAIN s.stops
               PROVE  list[h] = [on |-> s.stops[h].on, way |-> way(h)] /\ list[h] \in Hold
      OBVIOUS
  <2>1. list[h] = [s.stops[h] EXCEPT !.way = way(h)]  OBVIOUS
  <2>2. way(h) \in [Plans -> Way]  BY <1>3
  <2> HIDE DEF list, way
  <2> QED  BY <1>1, <2>1, <2>2 DEF Hold
<1>5. list \in Seq(Hold) /\ Len(list) = Len(s.stops) /\ DOMAIN list = DOMAIN s.stops
  <2>1. list \in [DOMAIN s.stops -> Hold]  BY <1>4
  <2> HIDE DEF list
  <2> QED  BY <1>1, <2>1, ListOf
<1>6. t.stops = list /\ t.plans = s.plans /\ t \in Txn
  <2> HIDE DEF list
  <2> QED  BY <1>2, <1>5 DEF Txn
<1>7. \A h \in DOMAIN s.stops : t.stops[h].on = s.stops[h].on /\ t.stops[h].way = way(h)
  <2> SUFFICES ASSUME NEW h \in DOMAIN s.stops
               PROVE  t.stops[h].on = s.stops[h].on /\ t.stops[h].way = way(h)
      OBVIOUS
  <2>1. list[h] = [on |-> s.stops[h].on, way |-> way(h)]  BY <1>4
  <2> HIDE DEF list, way
  <2> QED  BY <1>6, <2>1
<1>8. \A h \in DOMAIN s.stops, p \in Plans :
         t.stops[h].way[p] = IF noted(h, p) THEN ways[p] ELSE s.stops[h].way[p]
  <2> HIDE DEF list
  <2> QED  BY <1>7
<1>9. \A p \in Plans : Parking(t, p) = Parking(s, p)
  <2> HIDE DEF list, way
  <2> QED  BY <1>5, <1>6, <1>7 DEF Parking
<1> HIDE DEF list
<1> QED  BY <1>5, <1>6, <1>7, <1>8, <1>9 DEF noted

\* Where one stop at most keeps each way back, the same holds after, and a stopped plan's is the new one.
LEMMA RemembersOne ==
    ASSUME NEW s \in Txn, NEW ways \in [Plans -> Way], NEW p \in Plans, KeptOnce(s, p),
           NEW t, t = RememberParked(s, ways)
    PROVE  /\ KeptOnce(t, p) /\ Held(t, p) = Held(s, p)
           /\ WayBack(t, p) = IF ways[p] # "none" /\ Held(s, p) THEN ways[p] ELSE WayBack(s, p)
<1> DEFINE over == Parking(s, p)
<1>1. /\ t \in Txn /\ DOMAIN t.stops = DOMAIN s.stops /\ Parking(t, p) = over
      /\ \A h \in DOMAIN s.stops : t.stops[h].way[p] =
            IF ways[p] # "none" /\ over # {} /\ h = Keeper(s, p) THEN ways[p] ELSE s.stops[h].way[p]
  BY Remembers
<1>2. over \in SUBSET DOMAIN s.stops  BY Stops
<1>3. Kept(s, over, p) \in Way /\ Kept(t, over, p) \in Way
  BY <1>1, <1>2, KeptIs
<1>4. CASE ways[p] # "none" /\ Held(s, p)
  <2>1. /\ Keeper(s, p) \in over
        /\ \A h \in over : s.stops[h].way[p] # "none" => s.stops[Keeper(s, p)].way[p] # "none"
    BY <1>4, KeeperIs
  <2>2. \A h \in over : t.stops[h].way[p] # "none" => h = Keeper(s, p)
    BY <1>1, <1>2, <1>4, <2>1 DEF KeptOnce, Held
  <2>3. t.stops[Keeper(s, p)].way[p] = ways[p]  BY <1>1, <1>2, <1>4, <2>1 DEF Held
  <2>4. Kept(t, over, p) = ways[p]  BY <1>1, <1>2, <1>4, <2>1, <2>2, <2>3, KeptIs
  <2> QED  BY <1>1, <1>4, <2>2, <2>4 DEF KeptOnce, Held, WayBack
<1>5. CASE ~ (ways[p] # "none" /\ Held(s, p))
  <2>1. \A h \in over : t.stops[h].way[p] = s.stops[h].way[p]  BY <1>1, <1>2, <1>5 DEF Held
  <2>2. CASE Kept(s, over, p) = "none"
    <3>1. \A h \in over : t.stops[h].way[p] = "none"  BY <1>2, <2>1, <2>2, KeptIs
    <3> QED  BY <1>1, <1>2, <1>5, <2>2, <3>1, KeptIs DEF KeptOnce, Held, WayBack
  <2>3. CASE Kept(s, over, p) # "none"
    <3>1. PICK h \in over : s.stops[h].way[p] = Kept(s, over, p)  BY <1>2, <2>3, KeptIs
    <3>2. Kept(t, over, p) # "none"  BY <1>1, <1>2, <2>1, <2>3, <3>1, KeptIs
    <3>3. PICK g \in over : t.stops[g].way[p] = Kept(t, over, p)  BY <1>1, <1>2, <3>2, KeptIs
    <3>4. g = h  BY <2>1, <2>3, <3>1, <3>2, <3>3 DEF KeptOnce
    <3> QED  BY <1>1, <1>5, <2>1, <3>1, <3>3, <3>4 DEF KeptOnce, Held, WayBack
  <2> QED  BY <2>2, <2>3
<1> QED  BY <1>4, <1>5

LEMMA RemembersOwn ==
    ASSUME NEW s \in Txn, NEW ways \in [Plans -> Way], OwnRecords(s),
           NEW t, t = RememberParked(s, ways)
    PROVE  OwnRecords(t)
<1>1. /\ DOMAIN t.stops = DOMAIN s.stops
      /\ \A h \in DOMAIN s.stops : t.stops[h].on = s.stops[h].on
      /\ \A h \in DOMAIN s.stops, p \in Plans : t.stops[h].way[p] =
            IF ways[p] # "none" /\ Parking(s, p) # {} /\ h = Keeper(s, p)
            THEN ways[p] ELSE s.stops[h].way[p]
  BY Remembers
<1>2. \A p \in Plans : Parking(s, p) # {} => s.stops[Keeper(s, p)].on \in {p, Conv}
  BY KeeperIs DEF Parking, Held
<1> QED  BY <1>1, <1>2 DEF OwnRecords
\* Which stops park a plan, and what they keep of it, is a matter of the stops alone.
LEMMA SameStops ==
    ASSUME NEW s, NEW t, t.stops = s.stops
    PROVE  /\ OwnRecords(t) = OwnRecords(s)
           /\ \A p \in Plans : /\ Parking(t, p) = Parking(s, p) /\ Held(t, p) = Held(s, p)
                               /\ KeptOnce(t, p) = KeptOnce(s, p) /\ WayBack(t, p) = WayBack(s, p)
<1>1. \A p \in Plans : Parking(t, p) = Parking(s, p)  BY DEF Parking
<1>2. \A hs, p : Kept(t, hs, p) = Kept(s, hs, p)  BY DEF Kept
<1>3. OwnRecords(t) = OwnRecords(s)  BY DEF OwnRecords
<1> QED  BY <1>1, <1>2, <1>3 DEF Held, KeptOnce, WayBack

\* What parkHeldPlans leaves of a plan, and notes of it.
LEMMA ParksHeld ==
    ASSUME NEW s \in Txn, NEW t, t = ParkHeldPlans(s)
    PROVE  LET found(p) == IF Parking(s, p) = {} THEN "none" ELSE Found(s.plans[p]) IN
           /\ t \in Txn /\ Len(t.stops) = Len(s.stops) /\ DOMAIN t.stops = DOMAIN s.stops
           /\ \A h \in DOMAIN s.stops : t.stops[h].on = s.stops[h].on
           /\ \A p \in Plans :
                 /\ t.plans[p] = IF found(p) = "none" THEN s.plans[p] ELSE Stilled(s.plans[p])
                 /\ Parking(t, p) = Parking(s, p) /\ Held(t, p) = Held(s, p)
                 /\ \A h \in DOMAIN s.stops : t.stops[h].way[p] =
                       IF found(p) # "none" /\ h = Keeper(s, p) THEN found(p) ELSE s.stops[h].way[p]
                 /\ KeptOnce(s, p) => /\ KeptOnce(t, p)
                                      /\ WayBack(t, p) = IF found(p) # "none" THEN found(p) ELSE WayBack(s, p)
           /\ OwnRecords(s) => OwnRecords(t)
<1> DEFINE f(p) == IF Parking(s, p) = {} THEN "none" ELSE Found(s.plans[p])
           found == [p \in Plans |-> f(p)]
           rows == [p \in Plans |-> IF found[p] = "none" THEN s.plans[p] ELSE Stilled(s.plans[p])]
           u == [s EXCEPT !.plans = rows]
<1>1. t = RememberParked(u, found)  BY DEF ParkHeldPlans
<1>2. \A p \in Plans : s.plans[p] \in Plan /\ f(p) \in Way
  BY Stops DEF Way, Found
<1>3. found \in [Plans -> Way]
  <2> HIDE DEF f
  <2> QED  BY <1>2
<1>4. \A p \in Plans : found[p] = f(p)  OBVIOUS
<1>5. \A p \in Plans : rows[p] = (IF f(p) = "none" THEN s.plans[p] ELSE Stilled(s.plans[p])) /\ rows[p] \in Plan
  <2> SUFFICES ASSUME NEW p \in Plans
               PROVE  rows[p] = (IF f(p) = "none" THEN s.plans[p] ELSE Stilled(s.plans[p])) /\ rows[p] \in Plan
      OBVIOUS
  <2>1. rows[p] = IF f(p) = "none" THEN s.plans[p] ELSE Stilled(s.plans[p])
    <3> HIDE DEF found, f
    <3> QED  BY <1>4
  <2>2. Stilled(s.plans[p]) \in Plan  BY <1>2 DEF Stilled, Plan, Status
  <2> HIDE DEF rows
  <2> QED  BY <1>2, <2>1, <2>2
<1>6. u \in Txn /\ u.plans = rows /\ u.stops = s.stops
  <2>1. rows \in [Plans -> Plan]  BY <1>5
  <2> HIDE DEF rows
  <2> QED  BY <2>1 DEF Txn
<1>7. /\ OwnRecords(u) = OwnRecords(s)
      /\ \A p \in Plans : /\ Parking(u, p) = Parking(s, p) /\ Held(u, p) = Held(s, p)
                          /\ KeptOnce(u, p) = KeptOnce(s, p) /\ WayBack(u, p) = WayBack(s, p)
                          /\ Keeper(u, p) = Keeper(s, p)
  <2> HIDE DEF u
  <2>1. \A p \in Plans : Parking(u, p) = Parking(s, p)  BY <1>6, SameStops
  <2>2. \A p \in Plans : Keeper(u, p) = Keeper(s, p)  BY <1>6, <2>1 DEF Keeper
  <2> QED  BY <1>6, <2>2, SameStops
<1>8. \A p \in Plans : f(p) # "none" => Parking(s, p) # {} /\ Held(s, p)  BY DEF Held
<1> HIDE DEF f, found, rows, u
<1>9. /\ t \in Txn /\ t.plans = u.plans
      /\ Len(t.stops) = Len(u.stops) /\ DOMAIN t.stops = DOMAIN u.stops
      /\ \A h \in DOMAIN u.stops : t.stops[h].on = u.stops[h].on
      /\ \A h \in DOMAIN u.stops, p \in Plans : t.stops[h].way[p] =
            IF found[p] # "none" /\ Parking(u, p) # {} /\ h = Keeper(u, p)
            THEN found[p] ELSE u.stops[h].way[p]
      /\ \A p \in Plans : Parking(t, p) = Parking(u, p)
  BY <1>1, <1>3, <1>6, Remembers
<1>10. ASSUME NEW p \in Plans
       PROVE  /\ t.plans[p] = IF f(p) = "none" THEN s.plans[p] ELSE Stilled(s.plans[p])
              /\ Parking(t, p) = Parking(s, p) /\ Held(t, p) = Held(s, p)
              /\ \A h \in DOMAIN s.stops : t.stops[h].way[p] =
                    IF f(p) # "none" /\ h = Keeper(s, p) THEN f(p) ELSE s.stops[h].way[p]
              /\ KeptOnce(s, p) => /\ KeptOnce(t, p)
                                   /\ WayBack(t, p) = IF f(p) # "none" THEN f(p) ELSE WayBack(s, p)
  <2>1. t.plans[p] = IF f(p) = "none" THEN s.plans[p] ELSE Stilled(s.plans[p])  BY <1>5, <1>6, <1>9
  <2>2. Parking(t, p) = Parking(s, p) /\ Held(t, p) = Held(s, p)  BY <1>7, <1>9 DEF Held
  <2>3. \A h \in DOMAIN s.stops : t.stops[h].way[p] =
           IF f(p) # "none" /\ h = Keeper(s, p) THEN f(p) ELSE s.stops[h].way[p]
    BY <1>4, <1>6, <1>7, <1>8, <1>9
  <2>4. ASSUME KeptOnce(s, p)
        PROVE  KeptOnce(t, p) /\ WayBack(t, p) = IF f(p) # "none" THEN f(p) ELSE WayBack(s, p)
    <3>1. KeptOnce(u, p)  BY <1>7, <2>4
    <3>2. /\ KeptOnce(t, p)
          /\ WayBack(t, p) = IF found[p] # "none" /\ Held(u, p) THEN found[p] ELSE WayBack(u, p)
      BY <1>1, <1>3, <1>6, <3>1, RemembersOne
    <3> QED  BY <1>4, <1>7, <1>8, <3>2
  <2> QED  BY <2>1, <2>2, <2>3, <2>4
<1>11. OwnRecords(s) => OwnRecords(t)  BY <1>1, <1>3, <1>6, <1>7, RemembersOwn
<1>12. Len(t.stops) = Len(s.stops) /\ DOMAIN t.stops = DOMAIN s.stops
       /\ \A h \in DOMAIN s.stops : t.stops[h].on = s.stops[h].on
  BY <1>6, <1>9
<1> QED  BY <1>9, <1>10, <1>11, <1>12 DEF f
-----------------------------------------------------------------------------
(* A write of a plan's status. *)

\* setTaskSpec writes one plan, in both places alike, and notes no other's way back.
LEMMA Sets ==
    ASSUME NEW s \in Txn, NEW p \in Plans, NEW status \in Status,
           NEW t, t = SetTaskSpec(s, p, status)
    PROVE  /\ t \in Txn /\ Len(t.stops) = Len(s.stops)
           /\ \A q \in Plans :
                 /\ Held(t, q) = Held(s, q)
                 /\ q # p => t.plans[q] = s.plans[q]
                 /\ KeptOnce(s, q) =>
                       /\ KeptOnce(t, q)
                       /\ WayBack(t, q) = IF q = p /\ status = "active" /\ Held(s, p)
                                          THEN "active" ELSE WayBack(s, q)
           /\ LET to == IF status # "done" /\ Held(s, p) THEN "parked" ELSE status
              IN t.plans[p].col = to /\ t.plans[p].spec = to
           /\ OwnRecords(s) => OwnRecords(t)
<1> DEFINE held == status # "done" /\ Parking(s, p) # {}
           ways == Just(p, "active")
           u == IF held /\ status = "active" THEN RememberParked(s, ways) ELSE s
           to == IF held THEN "parked" ELSE status
           row == [s.plans[p] EXCEPT !.col = to, !.spec = to]
           put == CASE status = "done" \/ (status = "parked" /\ ~held) -> [row EXCEPT !.shut = TRUE]
                    [] status = "active" /\ row.shut /\ home /\ ~SlotTaken(s, p, {}) -> BackInSlot(row)
                    [] OTHER -> row
<1>1. t = [u EXCEPT !.plans[p] = put]  BY DEF SetTaskSpec
<1>2. ways \in [Plans -> Way] /\ \A q \in Plans : ways[q] = IF q = p THEN "active" ELSE "none"
  BY DEF Just, NoRecord, Way
<1>3. /\ u \in Txn /\ u.plans = s.plans /\ Len(u.stops) = Len(s.stops)
      /\ \A q \in Plans : Held(u, q) = Held(s, q)
      /\ \A q \in Plans : KeptOnce(s, q) =>
            /\ KeptOnce(u, q)
            /\ WayBack(u, q) = IF q = p /\ status = "active" /\ Held(s, p) THEN "active" ELSE WayBack(s, q)
      /\ OwnRecords(s) => OwnRecords(u)
  <2> HIDE DEF ways
  <2>1. CASE held /\ status = "active"
    <3>1. u = RememberParked(s, ways)  BY <2>1
    <3> HIDE DEF u
    <3>2. /\ u \in Txn /\ u.plans = s.plans /\ Len(u.stops) = Len(s.stops)
          /\ \A q \in Plans : Parking(u, q) = Parking(s, q)
      BY <1>2, <3>1, Remembers
    <3>3. \A q \in Plans : KeptOnce(s, q) =>
             /\ KeptOnce(u, q)
             /\ WayBack(u, q) = IF ways[q] # "none" /\ Held(s, q) THEN ways[q] ELSE WayBack(s, q)
      BY <1>2, <3>1, RemembersOne
    <3>4. OwnRecords(s) => OwnRecords(u)  BY <1>2, <3>1, RemembersOwn
    <3> QED  BY <1>2, <2>1, <3>2, <3>3, <3>4 DEF Held
  <2>2. CASE ~ (held /\ status = "active")
    <3>1. u = s  BY <2>2
    <3>2. ~ (status = "active" /\ Held(s, p))  BY <2>2 DEF Held
    <3> HIDE DEF u, held
    <3> QED  BY <3>1, <3>2
  <2> QED  BY <2>1, <2>2
<1>4. s.plans[p] \in Plan  BY Stops
<1>5. row \in Plan /\ row.col = to /\ row.spec = to  BY <1>4 DEF Plan, Status
<1>6. put \in Plan /\ put.col = to /\ put.spec = to
  <2> HIDE DEF row, to, held
  <2>1. [row EXCEPT !.shut = TRUE] \in Plan /\ [row EXCEPT !.shut = TRUE].col = row.col
        /\ [row EXCEPT !.shut = TRUE].spec = row.spec
    BY <1>5 DEF Plan
  <2>2. BackInSlot(row) \in Plan /\ BackInSlot(row).col = row.col /\ BackInSlot(row).spec = row.spec
    BY <1>5 DEF Plan, BackInSlot
  <2>3. put \in {[row EXCEPT !.shut = TRUE], BackInSlot(row), row}  OBVIOUS
  <2> HIDE DEF put
  <2> QED  BY <1>5, <2>1, <2>2, <2>3
<1> HIDE DEF u, put, row
<1>7. /\ t \in Txn /\ t.stops = u.stops /\ t.plans[p] = put
      /\ \A q \in Plans : q # p => t.plans[q] = s.plans[q]
  BY <1>1, <1>3, <1>6 DEF Txn
<1>8. OwnRecords(t) = OwnRecords(u)
      /\ \A q \in Plans : /\ Held(t, q) = Held(u, q)
                          /\ KeptOnce(t, q) = KeptOnce(u, q) /\ WayBack(t, q) = WayBack(u, q)
  BY <1>7, SameStops
<1>9. to = IF status # "done" /\ Held(s, p) THEN "parked" ELSE status  BY DEF Held
<1> HIDE DEF to
<1>10. t.plans[p].col = to /\ t.plans[p].spec = to  BY <1>6, <1>7
<1>11. \A q \in Plans :
         /\ Held(t, q) = Held(s, q)
         /\ q # p => t.plans[q] = s.plans[q]
         /\ KeptOnce(s, q) => /\ KeptOnce(t, q)
                              /\ WayBack(t, q) = IF q = p /\ status = "active" /\ Held(s, p)
                                                 THEN "active" ELSE WayBack(s, q)
  BY <1>3, <1>7, <1>8
<1> QED  BY <1>3, <1>7, <1>8, <1>9, <1>10, <1>11

-----------------------------------------------------------------------------
(* Making stops. *)

Adding(s, made) == [s EXCEPT !.stops = @ \o made]
AddedTo(t, s, made) ==
    LET n == Len(s.stops) IN
    /\ t \in Txn /\ t.plans = s.plans /\ Len(t.stops) = n + Len(made)
    /\ DOMAIN s.stops = 1..n /\ DOMAIN made = 1..Len(made)
    /\ \A h : h \in DOMAIN t.stops <=> h \in DOMAIN s.stops \/ \E k \in DOMAIN made : h = n + k
    /\ \A h \in DOMAIN s.stops : t.stops[h] = s.stops[h]
    /\ \A k \in DOMAIN made : t.stops[n + k] = made[k]
    /\ \A p \in Plans : \A h : h \in Parking(t, p) <=>
          \/ h \in Parking(s, p)
          \/ \E k \in DOMAIN made : h = n + k /\ (made[k].on = p \/ (made[k].on = Conv /\ home))
\* Where stops are added, a plan is parked by those that parked it and by the new ones that do.
LEMMA Added ==
    ASSUME NEW s \in Txn, NEW made \in Seq(Hold)
    PROVE  AddedTo(Adding(s, made), s, made)
<1> DEFINE n == Len(s.stops)
           parks(k, p) == made[k].on = p \/ (made[k].on = Conv /\ home)
           t == Adding(s, made)
<1>1. n \in Nat /\ DOMAIN s.stops = 1..n /\ s.stops \in Seq(Hold)  BY Stops DEF Txn
<1>2. Len(made) \in Nat /\ DOMAIN made = 1..Len(made)  BY LenProperties
<1>3. t.stops = s.stops \o made /\ t.plans = s.plans /\ t \in Txn
  BY <1>1, ConcatProperties DEF Txn, Adding
<1> HIDE DEF t
<1>4. /\ Len(t.stops) = n + Len(made) /\ DOMAIN t.stops = 1..(n + Len(made))
      /\ \A h \in 1..(n + Len(made)) :
            t.stops[h] = IF h <= n THEN s.stops[h] ELSE made[h - n]
  <2>1. /\ s.stops \o made \in Seq(Hold) /\ Len(s.stops \o made) = n + Len(made)
        /\ \A h \in 1..(n + Len(made)) :
              (s.stops \o made)[h] = IF h <= n THEN s.stops[h] ELSE made[h - n]
    BY <1>1, ConcatProperties
  <2>2. DOMAIN (s.stops \o made) = 1..Len(s.stops \o made)  BY <2>1, LenProperties
  <2> QED  BY <1>3, <2>1, <2>2
<1> HIDE DEF n
<1>5. \A h \in DOMAIN s.stops : h \in 1..(n + Len(made)) /\ t.stops[h] = s.stops[h]
  BY <1>1, <1>2, <1>4
<1>6. \A k \in DOMAIN made : n + k \in 1..(n + Len(made)) /\ t.stops[n + k] = made[k]
  <2> SUFFICES ASSUME NEW k \in DOMAIN made
               PROVE  n + k \in 1..(n + Len(made)) /\ t.stops[n + k] = made[k]
      OBVIOUS
  <2>1. k \in 1..Len(made) /\ n + k \in 1..(n + Len(made)) /\ ~ (n + k <= n) /\ (n + k) - n = k
    BY <1>1, <1>2
  <2> QED  BY <1>4, <2>1
<1>7. \A h \in DOMAIN t.stops : h \in DOMAIN s.stops \/ \E k \in DOMAIN made : h = n + k
  <2> SUFFICES ASSUME NEW h \in DOMAIN t.stops, h \notin DOMAIN s.stops
               PROVE  \E k \in DOMAIN made : h = n + k
      OBVIOUS
  <2>1. h \in 1..(n + Len(made)) /\ ~ (h <= n)  BY <1>1, <1>2, <1>4
  <2>2. h - n \in DOMAIN made /\ h = n + (h - n)  BY <1>1, <1>2, <2>1
  <2> QED  BY <2>2
<1>8. \A h : h \in DOMAIN t.stops <=> h \in DOMAIN s.stops \/ \E k \in DOMAIN made : h = n + k
  BY <1>4, <1>5, <1>6, <1>7
<1>9. \A p \in Plans : \A h : h \in Parking(t, p) <=>
         h \in Parking(s, p) \/ \E k \in DOMAIN made : h = n + k /\ parks(k, p)
  <2> SUFFICES ASSUME NEW p \in Plans, NEW h
               PROVE  h \in Parking(t, p) <=>
                         h \in Parking(s, p) \/ \E k \in DOMAIN made : h = n + k /\ parks(k, p)
      OBVIOUS
  <2>1. h \in Parking(t, p) <=> h \in DOMAIN t.stops /\ (t.stops[h].on = p \/ (t.stops[h].on = Conv /\ home))
    BY DEF Parking
  <2>2. h \in Parking(s, p) <=> h \in DOMAIN s.stops /\ (s.stops[h].on = p \/ (s.stops[h].on = Conv /\ home))
    BY DEF Parking
  <2>3. CASE h \in DOMAIN s.stops
    <3>1. \A k \in DOMAIN made : h # n + k  BY <1>1, <1>2, <2>3
    <3> QED  BY <1>5, <1>8, <2>1, <2>2, <2>3, <3>1
  <2>4. CASE h \notin DOMAIN s.stops
    <3>1. ASSUME NEW k \in DOMAIN made, h = n + k
          PROVE  h \in DOMAIN t.stops /\ t.stops[h] = made[k]
      BY <1>6, <1>8, <3>1
    <3> QED  BY <1>8, <2>1, <2>2, <2>4, <3>1
  <2> QED  BY <2>3, <2>4
<1> QED  BY <1>1, <1>2, <1>3, <1>4, <1>5, <1>6, <1>8, <1>9 DEF n, t, AddedTo

\* A plan's row, and its way back, once what a stop finds of it is parked.
ParkedRow(row, held) == IF held /\ Found(row) # "none" THEN Stilled(row) ELSE row
ParkedWay(row, held, way) == IF held /\ Found(row) # "none" THEN Found(row) ELSE way

\* A new stop parks what it finds in progress or moved aside, of the plans it is on.
LEMMA CreatesHold ==
    ASSUME NEW s \in Txn, NEW on \in Plans \cup {Conv}, NEW t, t = CreateHold(s, on)
    PROVE  /\ t \in Txn /\ Len(t.stops) = Len(s.stops) + 1
           /\ OwnRecords(s) => OwnRecords(t)
           /\ \A p \in Plans :
                 /\ Held(t, p) = (Held(s, p) \/ on = p \/ (on = Conv /\ home))
                 /\ t.plans[p] = ParkedRow(s.plans[p], Held(t, p))
                 /\ KeptOnce(s, p) =>
                       /\ KeptOnce(t, p)
                       /\ WayBack(t, p) = ParkedWay(s.plans[p], Held(t, p), WayBack(s, p))
<1> DEFINE hold == [on |-> on, way |-> NoRecord]
           made == <<hold>>
           u == Adding(s, made)
           n == Len(s.stops)
<1>1. hold \in Hold  BY DEF Hold, NoRecord, Way
<1>2. made \in Seq(Hold) /\ Len(made) = 1 /\ made[1] = hold
  <2> HIDE DEF hold
  <2> QED  BY <1>1
<1>3. DOMAIN made = {1}  OBVIOUS
<1>4. t = ParkHeldPlans(u)  BY DEF CreateHold, CreateHolds, Adding
<1> HIDE DEF made, u
<1>5. /\ u \in Txn /\ u.plans = s.plans /\ Len(u.stops) = n + 1
      /\ DOMAIN s.stops = 1..n
      /\ DOMAIN u.stops = DOMAIN s.stops \cup {n + 1}
      /\ \A h \in DOMAIN s.stops : u.stops[h] = s.stops[h]
      /\ u.stops[n + 1] = hold
      /\ \A p \in Plans : Parking(u, p) = Parking(s, p) \cup (IF on = p \/ (on = Conv /\ home) THEN {n + 1} ELSE {})
  <2> HIDE DEF hold
  <2>1. hold.on = on  BY DEF hold
  <2>2. /\ u \in Txn /\ u.plans = s.plans /\ Len(u.stops) = n + Len(made)
        /\ DOMAIN s.stops = 1..n
        /\ \A h : h \in DOMAIN u.stops <=> h \in DOMAIN s.stops \/ \E k \in DOMAIN made : h = n + k
        /\ \A h \in DOMAIN s.stops : u.stops[h] = s.stops[h]
        /\ \A k \in DOMAIN made : u.stops[n + k] = made[k]
        /\ \A p \in Plans : \A h : h \in Parking(u, p) <=>
              \/ h \in Parking(s, p)
              \/ \E k \in DOMAIN made : h = n + k /\ (made[k].on = p \/ (made[k].on = Conv /\ home))
    <3>1. AddedTo(u, s, made)  BY <1>2, Added DEF u
    <3> QED  BY <3>1 DEF AddedTo
  <2>3. DOMAIN u.stops = DOMAIN s.stops \cup {n + 1}  BY <1>3, <2>2
  <2>4. \A p \in Plans : Parking(u, p) =
           Parking(s, p) \cup (IF on = p \/ (on = Conv /\ home) THEN {n + 1} ELSE {})
    BY <1>2, <1>3, <2>1, <2>2
  <2> QED  BY <1>2, <1>3, <2>2, <2>3, <2>4
<1>6. n \in Nat /\ n + 1 \notin DOMAIN s.stops  BY <1>5, Stops
<1>7. \A p \in Plans : Parking(s, p) \subseteq DOMAIN s.stops  BY Stops
<1>8. OwnRecords(s) => OwnRecords(u)  BY <1>5 DEF OwnRecords, NoRecord
<1>9. ASSUME NEW p \in Plans, KeptOnce(s, p)
      PROVE  KeptOnce(u, p) /\ WayBack(u, p) = WayBack(s, p)
  <2>1. u.stops[n + 1].way[p] = "none"  BY <1>5 DEF NoRecord
  <2>2. {h \in Parking(u, p) : u.stops[h].way[p] # "none"} = {h \in Parking(s, p) : s.stops[h].way[p] # "none"}
    BY <1>5, <1>6, <1>7, <2>1
  <2>3. KeptOnce(u, p)  BY <1>9, <2>2 DEF KeptOnce
  <2>4. CASE {h \in Parking(s, p) : s.stops[h].way[p] # "none"} = {}
    <3> QED  BY <2>2, <2>3, <2>4 DEF WayBack, Kept
  <2>5. CASE {h \in Parking(s, p) : s.stops[h].way[p] # "none"} # {}
    <3> DEFINE K == {h \in Parking(s, p) : s.stops[h].way[p] # "none"}
    <3>1. Max(K) \in K
      <4>1. K \in SUBSET (1..n)  BY <1>5, <1>7
      <4> HIDE DEF K
      <4> QED  BY <1>6, <2>5, <4>1, Newest DEF K
    <3>2. u.stops[Max(K)] = s.stops[Max(K)]  BY <1>5, <1>7, <3>1
    <3>3. WayBack(u, p) = u.stops[Max(K)].way[p]  BY <2>2, <2>5 DEF WayBack, Kept
    <3>4. WayBack(s, p) = s.stops[Max(K)].way[p]  BY <2>5 DEF WayBack, Kept
    <3> QED  BY <2>3, <3>2, <3>3, <3>4
  <2> QED  BY <2>3, <2>4, <2>5
<1>10. \A p \in Plans : Held(u, p) = (Held(s, p) \/ on = p \/ (on = Conv /\ home))  BY <1>5 DEF Held
<1>11. /\ t \in Txn /\ Len(t.stops) = Len(u.stops)
       /\ \A p \in Plans :
             LET found == IF Parking(u, p) = {} THEN "none" ELSE Found(u.plans[p]) IN
             /\ t.plans[p] = IF found = "none" THEN u.plans[p] ELSE Stilled(u.plans[p])
             /\ Held(t, p) = Held(u, p)
             /\ KeptOnce(u, p) => /\ KeptOnce(t, p)
                                  /\ WayBack(t, p) = IF found # "none" THEN found ELSE WayBack(u, p)
       /\ OwnRecords(u) => OwnRecords(t)
  BY <1>4, <1>5, ParksHeld
<1>12. ASSUME NEW p \in Plans
       PROVE  /\ Held(t, p) = Held(u, p)
              /\ t.plans[p] = ParkedRow(s.plans[p], Held(t, p))
              /\ KeptOnce(s, p) => /\ KeptOnce(t, p)
                                   /\ WayBack(t, p) = ParkedWay(s.plans[p], Held(t, p), WayBack(s, p))
  <2> DEFINE found == IF Parking(u, p) = {} THEN "none" ELSE Found(s.plans[p])
  <2>1. /\ t.plans[p] = IF found = "none" THEN s.plans[p] ELSE Stilled(s.plans[p])
        /\ Held(t, p) = Held(u, p)
        /\ KeptOnce(u, p) => /\ KeptOnce(t, p)
                             /\ WayBack(t, p) = IF found # "none" THEN found ELSE WayBack(u, p)
    BY <1>5, <1>11
  <2>2. found = IF Held(t, p) THEN Found(s.plans[p]) ELSE "none"  BY <2>1 DEF Held
  <2> HIDE DEF found
  <2> QED  BY <1>9, <2>1, <2>2 DEF ParkedRow, ParkedWay
<1> QED  BY <1>5, <1>8, <1>10, <1>11, <1>12
-----------------------------------------------------------------------------
(* Lifting stops. *)

\* The way back of a plan is the one that some stop over it keeps.
LEMMA KeptUnder ==
    ASSUME NEW s \in Txn, NEW p \in Plans, KeptOnce(s, p),
           NEW h \in Parking(s, p), s.stops[h].way[p] # "none"
    PROVE  WayBack(s, p) = s.stops[h].way[p]
<1>1. Parking(s, p) \in SUBSET DOMAIN s.stops  BY Stops
<1>2. WayBack(s, p) # "none"  BY <1>1, KeptIs DEF WayBack
<1>3. PICK g \in Parking(s, p) : s.stops[g].way[p] = WayBack(s, p)  BY <1>1, <1>2, KeptIs DEF WayBack
<1> QED  BY <1>2, <1>3 DEF KeptOnce

\* What parks a plan when some stops are lifted, and what is still kept of it.
LEMMA LeftParks ==
    ASSUME NEW s \in Txn, NEW hs \in SUBSET DOMAIN s.stops, NEW p \in Plans, KeptOnce(s, p),
           NEW t, t = Without(s, hs)
    PROVE  /\ Held(t, p) = (Parking(s, p) \ hs # {})
           /\ KeptOnce(t, p)
           /\ WayBack(t, p) = IF WayBack(s, p) # "none" /\ \E h \in Parking(s, p) \ hs : s.stops[h].way[p] # "none"
                              THEN WayBack(s, p) ELSE "none"
<1>1. /\ t \in Txn
      /\ \E was \in [DOMAIN t.stops -> DOMAIN s.stops \ hs] :
            /\ \A k \in DOMAIN t.stops : t.stops[k] = s.stops[was[k]]
            /\ \A i, k \in DOMAIN t.stops : was[i] = was[k] => i = k
            /\ \A h \in DOMAIN s.stops \ hs : \E k \in DOMAIN t.stops : was[k] = h
  BY Left
<1>2. PICK was \in [DOMAIN t.stops -> DOMAIN s.stops \ hs] :
         /\ \A k \in DOMAIN t.stops : t.stops[k] = s.stops[was[k]]
         /\ \A i, k \in DOMAIN t.stops : was[i] = was[k] => i = k
         /\ \A h \in DOMAIN s.stops \ hs : \E k \in DOMAIN t.stops : was[k] = h
  BY <1>1
<1>3. \A k \in DOMAIN t.stops : was[k] \in DOMAIN s.stops \ hs  BY <1>2
<1>4. \A k \in Parking(t, p) : k \in DOMAIN t.stops /\ was[k] \in Parking(s, p) \ hs
  BY <1>2, <1>3 DEF Parking
<1>5. \A h \in Parking(s, p) \ hs : \E k \in Parking(t, p) : was[k] = h
  <2> SUFFICES ASSUME NEW h \in Parking(s, p) \ hs PROVE \E k \in Parking(t, p) : was[k] = h  OBVIOUS
  <2>1. h \in DOMAIN s.stops \ hs /\ (s.stops[h].on = p \/ (s.stops[h].on = Conv /\ home))  BY DEF Parking
  <2>2. PICK k \in DOMAIN t.stops : was[k] = h  BY <1>2, <2>1
  <2>3. t.stops[k] = s.stops[h]  BY <1>2, <2>2
  <2>4. k \in Parking(t, p)  BY <2>1, <2>3 DEF Parking
  <2> QED  BY <2>2, <2>4
<1>6. Held(t, p) = (Parking(s, p) \ hs # {})  BY <1>4, <1>5 DEF Held
<1>7. KeptOnce(t, p)
  <2> SUFFICES ASSUME NEW i \in Parking(t, p), NEW k \in Parking(t, p),
                      t.stops[i].way[p] # "none", t.stops[k].way[p] # "none"
               PROVE  i = k
      BY DEF KeptOnce
  <2>1. was[i] = was[k]  BY <1>2, <1>4 DEF KeptOnce
  <2> QED  BY <1>2, <1>4, <2>1
<1>8. Parking(t, p) \in SUBSET DOMAIN t.stops  BY <1>1, Stops
<1>9. CASE \E h \in Parking(s, p) \ hs : s.stops[h].way[p] # "none"
  <2>1. PICK h \in Parking(s, p) \ hs : s.stops[h].way[p] # "none"  BY <1>9
  <2>2. WayBack(s, p) = s.stops[h].way[p]  BY <2>1, KeptUnder
  <2>3. PICK k \in Parking(t, p) : was[k] = h  BY <1>5, <2>1
  <2>4. t.stops[k] = s.stops[h]  BY <1>2, <1>4, <2>3
  <2>5. WayBack(t, p) = t.stops[k].way[p]  BY <1>1, <1>7, <2>1, <2>3, <2>4, KeptUnder
  <2> QED  BY <1>6, <1>7, <1>9, <2>1, <2>2, <2>4, <2>5
<1>10. CASE ~ \E h \in Parking(s, p) \ hs : s.stops[h].way[p] # "none"
  <2>1. \A k \in Parking(t, p) : t.stops[k].way[p] = "none"  BY <1>2, <1>4, <1>10
  <2>2. WayBack(t, p) = "none"  BY <1>1, <1>8, <2>1, KeptIs DEF WayBack
  <2> QED  BY <1>6, <1>7, <1>10, <2>2
<1> QED  BY <1>9, <1>10

LEMMA LeftOwn ==
    ASSUME NEW s \in Txn, NEW hs \in SUBSET DOMAIN s.stops, OwnRecords(s),
           NEW t, t = Without(s, hs)
    PROVE  OwnRecords(t)
<1>1. \E was \in [DOMAIN t.stops -> DOMAIN s.stops \ hs] :
         \A k \in DOMAIN t.stops : t.stops[k] = s.stops[was[k]]
  BY Left
<1>2. PICK was \in [DOMAIN t.stops -> DOMAIN s.stops \ hs] :
         \A k \in DOMAIN t.stops : t.stops[k] = s.stops[was[k]]
  BY <1>1
<1>3. \A k \in DOMAIN t.stops : was[k] \in DOMAIN s.stops  BY <1>2
<1> QED  BY <1>2, <1>3 DEF OwnRecords

\* A plan put back is a plan, in the status it goes back to.
LEMMA Restores ==
    ASSUME NEW row \in Plan, NEW to \in Status, NEW takes \in BOOLEAN
    PROVE  LET back == RestorePlanStatus(row, to, takes) IN
           /\ back \in Plan /\ back.col = to
           /\ back.spec = IF row.spec = "none" THEN "none" ELSE IF to = "parked" THEN "active" ELSE to
           /\ ~takes /\ to # "done" => back.shut = row.shut
<1> DEFINE spec == IF row.spec = "none" THEN "none" ELSE IF to = "parked" THEN "active" ELSE to
           put == [row EXCEPT !.col = to, !.spec = spec]
           back == RestorePlanStatus(row, to, takes)
<1>1. back = IF to = "done" THEN [put EXCEPT !.shut = TRUE] ELSE IF takes THEN BackInSlot(put) ELSE put
  BY DEF RestorePlanStatus, Plan
<1>2. put \in Plan /\ put.col = to /\ put.spec = spec /\ put.shut = row.shut  BY DEF Plan, Status
<1> HIDE DEF put, spec
<1>3. [put EXCEPT !.shut = TRUE] \in Plan /\ [put EXCEPT !.shut = TRUE].col = to
      /\ [put EXCEPT !.shut = TRUE].spec = spec
  BY <1>2 DEF Plan
<1>4. BackInSlot(put) \in Plan /\ BackInSlot(put).col = to /\ BackInSlot(put).spec = spec
  BY <1>2 DEF Plan, BackInSlot
<1> QED  BY <1>1, <1>2, <1>3, <1>4 DEF spec
\* A plan that a lift puts back, or hands on to a stop still over it, or leaves alone.
LiftedRow(row, held, way, takes) ==
    IF ~held /\ way # "none" /\ row.col = "parked"
    THEN RestorePlanStatus(row, GoesBackTo(row, way), takes) ELSE row

LiftedFrom(t, s, hs) ==
    /\ t \in Txn /\ Len(t.stops) <= Len(s.stops)
    /\ OwnRecords(s) => OwnRecords(t)
    /\ \A p \in Plans : KeptOnce(t, p) /\ Held(t, p) = (Parking(s, p) \ hs # {})
    /\ home /\ OwnRecords(s) => \A p \in Plans :
          /\ WayBack(t, p) = IF Held(t, p) THEN WayBack(s, p) ELSE "none"
          /\ \E takes \in BOOLEAN :
                t.plans[p] = LiftedRow(s.plans[p], Held(t, p), WayBack(s, p), takes)
\* liftHold: the way back goes to a stop that still parks the plan, or the plan goes that way.
LEMMA Lifts ==
    ASSUME NEW s \in Txn, NEW hs \in SUBSET DOMAIN s.stops, NEW order,
           \A p \in Plans : KeptOnce(s, p),
           NEW t, t = LiftHolds(s, hs, order)
    PROVE  LiftedFrom(t, s, hs)
<1> DEFINE kept == [p \in Plans |-> Kept(s, hs, p)]
           rest == Without(s, hs)
           back == GivenBack(rest, kept)
           to(p) == GoesBackTo(s.plans[p], kept[p])
           ended(p) == {q \in back : to(q) = "done" /\ order[q] < order[p]}
           asks(p) == /\ p \in back /\ to(p) = "active" /\ s.plans[p].shut
                      /\ home /\ ~SlotTaken(rest, p, ended(p))
           takes(p) == asks(p) /\ \A q \in Plans : order[q] < order[p] => ~asks(q)
           rows == [p \in Plans |-> IF p \in back THEN RestorePlanStatus(s.plans[p], to(p), takes(p))
                                    ELSE s.plans[p]]
           u == RememberParked(rest, kept)
<1>1. t = [u EXCEPT !.plans = rows]  BY DEF LiftHolds, HandedOn
<1>2. rest \in Txn /\ rest.plans = s.plans /\ Len(rest.stops) <= Len(s.stops)  BY Left
<1>3. \A p \in Plans : kept[p] = Kept(s, hs, p) /\ kept[p] \in Way  BY KeptIs
<1>4. kept \in [Plans -> Way]
  <2>1. \A p \in Plans : Kept(s, hs, p) \in Way  BY KeptIs
  <2> QED  BY <2>1
<1>5. \A p \in Plans : takes(p) \in BOOLEAN  OBVIOUS
<1> HIDE DEF kept, rest, takes
<1>6. \A p \in Plans : p \in back <=> kept[p] # "none" /\ ~Held(rest, p) /\ s.plans[p].col = "parked"
  BY <1>2 DEF GivenBack, Held
<1>7. \A p \in Plans : s.plans[p] \in Plan  BY Stops
<1>8. \A p \in back : to(p) \in Status /\ p \in Plans
  BY <1>3, <1>6, <1>7 DEF GivenBack, GoesBackTo, Way, Status
<1> HIDE DEF back, to
<1>9. \A p \in Plans : rows[p] = IF p \in back THEN RestorePlanStatus(s.plans[p], to(p), takes(p))
                                 ELSE s.plans[p]
  OBVIOUS
<1>10. rows \in [Plans -> Plan]
  <2>1. \A p \in Plans : rows[p] \in Plan
    <3> SUFFICES ASSUME NEW p \in Plans PROVE rows[p] \in Plan  OBVIOUS
    <3>1. CASE p \in back
      <4>1. RestorePlanStatus(s.plans[p], to(p), takes(p)) \in Plan  BY <1>5, <1>7, <1>8, <3>1, Restores
      <4> QED  BY <1>9, <3>1, <4>1
    <3>2. CASE p \notin back  BY <1>7, <1>9, <3>2
    <3> QED  BY <3>1, <3>2
  <2> QED  BY <2>1
<1> HIDE DEF rows
<1>11. /\ u \in Txn /\ Len(u.stops) = Len(rest.stops)
       /\ \A p \in Plans : Parking(u, p) = Parking(rest, p)
  BY <1>2, <1>4, Remembers
<1>12. \A p \in Plans :
         /\ Held(rest, p) = (Parking(s, p) \ hs # {}) /\ KeptOnce(rest, p)
         /\ WayBack(rest, p) = IF WayBack(s, p) # "none" /\ \E h \in Parking(s, p) \ hs : s.stops[h].way[p] # "none"
                               THEN WayBack(s, p) ELSE "none"
  BY LeftParks DEF rest
<1>13. \A p \in Plans :
         /\ KeptOnce(u, p) /\ Held(u, p) = Held(rest, p)
         /\ WayBack(u, p) = IF kept[p] # "none" /\ Held(rest, p) THEN kept[p] ELSE WayBack(rest, p)
  BY <1>2, <1>4, <1>12, RemembersOne
<1>14. OwnRecords(s) => OwnRecords(u)  BY <1>2, <1>4, LeftOwn, RemembersOwn DEF rest
<1> HIDE DEF u
<1>15. t \in Txn /\ t.stops = u.stops /\ t.plans = rows
  BY <1>1, <1>10, <1>11 DEF Txn
<1>16. /\ OwnRecords(t) = OwnRecords(u)
       /\ \A p \in Plans : /\ Held(t, p) = Held(u, p)
                           /\ KeptOnce(t, p) = KeptOnce(u, p) /\ WayBack(t, p) = WayBack(u, p)
  BY <1>15, SameStops
<1>17. \A p \in Plans : KeptOnce(t, p) /\ Held(t, p) = (Parking(s, p) \ hs # {})
  BY <1>12, <1>13, <1>16
<1>18. t \in Txn /\ Len(t.stops) <= Len(s.stops)
  <2>1. Len(s.stops) \in Nat /\ Len(rest.stops) \in Nat  BY <1>2, Stops
  <2> QED  BY <1>2, <1>11, <1>15, <2>1
<1>19. ASSUME home, OwnRecords(s), NEW p \in Plans
       PROVE  /\ WayBack(t, p) = IF Held(t, p) THEN WayBack(s, p) ELSE "none"
              /\ \E x \in BOOLEAN : t.plans[p] = LiftedRow(s.plans[p], Held(t, p), WayBack(s, p), x)
  <2>1. \A h \in DOMAIN s.stops : s.stops[h].way[p] # "none" => h \in Parking(s, p)
    BY <1>19 DEF OwnRecords, Parking
  <2>2. kept[p] # "none" => /\ kept[p] = WayBack(s, p)
                            /\ \E h \in Parking(s, p) \cap hs : s.stops[h].way[p] = kept[p]
    <3> SUFFICES ASSUME kept[p] # "none"
                 PROVE  /\ kept[p] = WayBack(s, p)
                        /\ \E h \in Parking(s, p) \cap hs : s.stops[h].way[p] = kept[p]
        OBVIOUS
    <3>1. PICK h \in hs : s.stops[h].way[p] = kept[p]  BY <1>3, KeptIs
    <3>2. h \in Parking(s, p)  BY <2>1, <3>1
    <3>3. WayBack(s, p) = kept[p]  BY <3>1, <3>2, KeptUnder
    <3> QED  BY <3>1, <3>2, <3>3
  <2>3. \A h \in hs : s.stops[h].way[p] # "none" => kept[p] # "none"  BY <1>3, KeptIs
  <2>4. Parking(s, p) \in SUBSET DOMAIN s.stops  BY Stops
  <2>5. WayBack(s, p) # "none" => \E h \in Parking(s, p) : s.stops[h].way[p] # "none"
    BY <2>4, KeptIs DEF WayBack
  <2>6. WayBack(t, p) = IF kept[p] # "none" /\ Held(t, p) THEN kept[p] ELSE WayBack(rest, p)
    BY <1>13, <1>16
  <2>7. Held(t, p) = (Parking(s, p) \ hs # {}) /\ Held(rest, p) = Held(t, p)  BY <1>12, <1>17
  <2>8. kept[p] # "none" => WayBack(s, p) # "none"  BY <2>2
  <2>9. ~Held(t, p) => (kept[p] # "none" <=> WayBack(s, p) # "none")
    BY <2>3, <2>5, <2>7, <2>8
  <2>10. WayBack(t, p) = IF Held(t, p) THEN WayBack(s, p) ELSE "none"
    <3>1. CASE ~Held(t, p)
      <4>1. WayBack(rest, p) = "none"  BY <1>12, <2>7, <3>1
      <4> QED  BY <2>6, <3>1, <4>1
    <3>2. CASE Held(t, p) /\ kept[p] # "none"  BY <2>2, <2>6, <3>2
    <3>3. CASE Held(t, p) /\ kept[p] = "none"
      <4>1. WayBack(t, p) = WayBack(rest, p)  BY <2>6, <3>3
      <4>2. WayBack(s, p) # "none" => \E h \in Parking(s, p) \ hs : s.stops[h].way[p] # "none"
        BY <2>3, <2>5, <3>3
      <4> QED  BY <1>12, <3>3, <4>1, <4>2
    <3> QED  BY <3>1, <3>2, <3>3
  <2>11. t.plans[p] = LiftedRow(s.plans[p], Held(t, p), WayBack(s, p), takes(p))
    <3>1. CASE p \in back
      <4>1. /\ kept[p] # "none" /\ kept[p] = WayBack(s, p)
            /\ ~Held(t, p) /\ s.plans[p].col = "parked"
        BY <1>6, <2>2, <2>7, <3>1
      <4>2. t.plans[p] = RestorePlanStatus(s.plans[p], GoesBackTo(s.plans[p], kept[p]), takes(p))
        BY <1>9, <1>15, <3>1 DEF to
      <4>3. t.plans[p] = RestorePlanStatus(s.plans[p], GoesBackTo(s.plans[p], WayBack(s, p)), takes(p))
        BY <4>1, <4>2
      <4> QED  BY <4>1, <4>3 DEF LiftedRow
    <3>2. CASE p \notin back
      <4>1. ~ (~Held(t, p) /\ WayBack(s, p) # "none" /\ s.plans[p].col = "parked")
        BY <1>6, <2>7, <2>9, <3>2
      <4>2. t.plans[p] = s.plans[p]  BY <1>9, <1>15, <3>2
      <4> QED  BY <4>1, <4>2 DEF LiftedRow
    <3> QED  BY <3>1, <3>2
  <2> QED  BY <1>5, <2>10, <2>11
<1>20. OwnRecords(s) => OwnRecords(t)  BY <1>14, <1>16
<1> HIDE DEF rest
<1> QED  BY <1>17, <1>18, <1>19, <1>20 DEF LiftedFrom
-----------------------------------------------------------------------------
(* Stops of their own for several plans. *)

\* The stop of its own that a plan gets, with its way back.
OwnStop(p, way) == [on |-> p, way |-> Just(p, way)]

\* One stop of its own for each of some plans, and for no other.
LEMMA OwnMade ==
    ASSUME NEW L \in SUBSET Plans, NEW order \in SetToSeqs(L), NEW ways \in [Plans -> Way],
           NEW made, made = OwnHolds(order, ways)
    PROVE  /\ made \in Seq(Hold) /\ DOMAIN made = DOMAIN order
           /\ \A k \in DOMAIN made : order[k] \in L /\ made[k] = OwnStop(order[k], ways[order[k]])
           /\ \A i, k \in DOMAIN made : order[i] = order[k] => i = k
           /\ \A p \in L : \E k \in DOMAIN made : order[k] = p
<1> DEFINE c == Cardinality(L)
<1>1. IsFiniteSet(L) /\ c \in Nat
  BY PlanStopsAssumption, FS_Subset, FS_CardinalityType
<1>2. order \in [1..c -> L] /\ \A i, k \in 1..c : i # k => order[i] # order[k]
  BY DEF SetToSeqs
<1> HIDE DEF c
<1>3. DOMAIN order = 1..c /\ \A k \in 1..c : order[k] \in L  BY <1>2
<1>4. made = [k \in 1..c |-> OwnStop(order[k], ways[order[k]])]  BY <1>3 DEF OwnHolds, OwnStop
<1>5. \A p \in Plans : OwnStop(p, ways[p]) \in Hold  BY DEF OwnStop, Just, NoRecord, Hold, Way
<1>6. made \in [1..c -> Hold]
  <2>1. \A k \in 1..c : OwnStop(order[k], ways[order[k]]) \in Hold  BY <1>3, <1>5
  <2> QED  BY <1>4, <2>1
<1>7. made \in Seq(Hold) /\ DOMAIN made = 1..c  BY <1>1, <1>6, ListOf
<1>8. order \in Surjection(1..c, L)
  <2>1. order \in Injection(1..c, L)  BY <1>2 DEF Injection, IsInjective
  <2>2. Cardinality(1..c) = c  BY <1>1, FS_Interval
  <2> QED  BY <1>1, <2>1, <2>2, FS_Injection DEF c
<1>9. \A p \in L : \E k \in 1..c : order[k] = p  BY <1>8 DEF Surjection
<1> QED  BY <1>2, <1>3, <1>4, <1>7, <1>9

\* They come after the stops there were; each parks its plan, and keeps what it was told of it.
LEMMA OwnAdded ==
    ASSUME NEW s \in Txn, NEW L \in SUBSET Plans, NEW order \in SetToSeqs(L), NEW ways \in [Plans -> Way],
           NEW u, u = Adding(s, OwnHolds(order, ways))
    PROVE  /\ u \in Txn /\ u.plans = s.plans
           /\ DOMAIN s.stops \subseteq DOMAIN u.stops
           /\ \A h \in DOMAIN s.stops : u.stops[h] = s.stops[h]
           /\ \A h \in DOMAIN u.stops \ DOMAIN s.stops : \E p \in L : u.stops[h] = OwnStop(p, ways[p])
           /\ \A p \in L : \E h \in DOMAIN u.stops \ DOMAIN s.stops :
                 /\ u.stops[h] = OwnStop(p, ways[p])
                 /\ \A g \in DOMAIN u.stops \ DOMAIN s.stops : u.stops[g].on = p => g = h
                 /\ Parking(u, p) = Parking(s, p) \cup {h}
           /\ \A p \in Plans \ L : Parking(u, p) = Parking(s, p)
           /\ OwnRecords(s) => OwnRecords(u)
<1> DEFINE made == OwnHolds(order, ways)
           n == Len(s.stops)
<1>1. /\ made \in Seq(Hold)
      /\ \A k \in DOMAIN made : order[k] \in L /\ made[k] = OwnStop(order[k], ways[order[k]])
      /\ \A i, k \in DOMAIN made : order[i] = order[k] => i = k
      /\ \A p \in L : \E k \in DOMAIN made : order[k] = p
  BY OwnMade
<1> HIDE DEF made
<1>2. AddedTo(u, s, made)  BY <1>1, Added DEF made
<1>3. /\ u \in Txn /\ u.plans = s.plans
      /\ DOMAIN s.stops = 1..n /\ DOMAIN made = 1..Len(made)
      /\ \A h : h \in DOMAIN u.stops <=> h \in DOMAIN s.stops \/ \E k \in DOMAIN made : h = n + k
      /\ \A h \in DOMAIN s.stops : u.stops[h] = s.stops[h]
      /\ \A k \in DOMAIN made : u.stops[n + k] = made[k]
      /\ \A p \in Plans : \A h : h \in Parking(u, p) <=>
            \/ h \in Parking(s, p)
            \/ \E k \in DOMAIN made : h = n + k /\ (made[k].on = p \/ (made[k].on = Conv /\ home))
  BY <1>2 DEF AddedTo
<1>4. n \in Nat /\ Len(made) \in Nat  BY <1>1, Stops, LenProperties
<1>5. \A k \in DOMAIN made : n + k \in DOMAIN u.stops /\ n + k \notin DOMAIN s.stops
  BY <1>3, <1>4
<1>6. \A h \in DOMAIN u.stops \ DOMAIN s.stops : \E k \in DOMAIN made : h = n + k  BY <1>3
<1>7. \A k \in DOMAIN made : made[k].on = order[k] /\ made[k].on # Conv
  BY <1>1, PlanStopsAssumption DEF OwnStop
<1>8. \A h \in DOMAIN u.stops \ DOMAIN s.stops : \E p \in L : u.stops[h] = OwnStop(p, ways[p])
  <2> SUFFICES ASSUME NEW h \in DOMAIN u.stops \ DOMAIN s.stops
               PROVE  \E p \in L : u.stops[h] = OwnStop(p, ways[p])
      OBVIOUS
  <2>1. PICK k \in DOMAIN made : h = n + k  BY <1>6
  <2>2. order[k] \in L /\ u.stops[h] = OwnStop(order[k], ways[order[k]])  BY <1>1, <1>3, <2>1
  <2> QED  BY <2>2
<1>9. ASSUME NEW p \in L
      PROVE  \E h \in DOMAIN u.stops \ DOMAIN s.stops :
                /\ u.stops[h] = OwnStop(p, ways[p])
                /\ \A g \in DOMAIN u.stops \ DOMAIN s.stops : u.stops[g].on = p => g = h
                /\ Parking(u, p) = Parking(s, p) \cup {h}
  <2>1. PICK k \in DOMAIN made : order[k] = p  BY <1>1
  <2>2. n + k \in DOMAIN u.stops \ DOMAIN s.stops  BY <1>5
  <2>3. u.stops[n + k] = OwnStop(p, ways[p])  BY <1>1, <1>3, <2>1
  <2>4. \A i \in DOMAIN made : made[i].on = p => i = k  BY <1>1, <1>7, <2>1
  <2>5. \A g \in DOMAIN u.stops \ DOMAIN s.stops : u.stops[g].on = p => g = n + k
    <3> SUFFICES ASSUME NEW g \in DOMAIN u.stops \ DOMAIN s.stops, u.stops[g].on = p PROVE g = n + k  OBVIOUS
    <3>1. PICK i \in DOMAIN made : g = n + i  BY <1>6
    <3>2. made[i].on = p  BY <1>3, <3>1
    <3> QED  BY <2>4, <3>1, <3>2
  <2>6. \A h : h \in Parking(u, p) <=> h \in Parking(s, p) \/ h = n + k
    <3>1. made[k].on = p  BY <1>7, <2>1
    <3>2. \A i \in DOMAIN made : (made[i].on = p \/ (made[i].on = Conv /\ home)) <=> i = k
      BY <1>7, <2>4, <3>1
    <3> QED  BY <1>3, <3>2
  <2>7. Parking(u, p) = Parking(s, p) \cup {n + k}  BY <2>6
  <2> QED  BY <2>2, <2>3, <2>5, <2>7
<1>10. ASSUME NEW p \in Plans \ L PROVE Parking(u, p) = Parking(s, p)
  <2>1. \A k \in DOMAIN made : made[k].on # p /\ made[k].on # Conv  BY <1>1, <1>7
  <2>2. \A h : h \in Parking(u, p) <=> h \in Parking(s, p)  BY <1>3, <2>1
  <2> QED  BY <2>2
<1>11. ASSUME OwnRecords(s) PROVE OwnRecords(u)
  <2> SUFFICES ASSUME NEW h \in DOMAIN u.stops, NEW p \in Plans, u.stops[h].way[p] # "none"
               PROVE  u.stops[h].on \in {p, Conv}
      BY DEF OwnRecords
  <2>1. CASE h \in DOMAIN s.stops  BY <1>3, <1>11, <2>1 DEF OwnRecords
  <2>2. CASE h \notin DOMAIN s.stops
    <3>1. PICK q \in L : u.stops[h] = OwnStop(q, ways[q])  BY <1>8, <2>2
    <3>2. q = p  BY <3>1 DEF OwnStop, Just, NoRecord
    <3> QED  BY <3>1, <3>2 DEF OwnStop
  <2> QED  BY <2>1, <2>2
<1>12. DOMAIN s.stops \subseteq DOMAIN u.stops  BY <1>3
<1> HIDE DEF n
<1> QED  BY <1>3, <1>8, <1>9, <1>10, <1>11, <1>12
-----------------------------------------------------------------------------
(* What each write makes of one plan. *)

LEMMA Parks ==
    ASSUME NEW row \in Plan, NEW was \in BOOLEAN, NEW held \in BOOLEAN, was => held, NEW way \in Way,
           RowOK(row, was, way),
           NEW to, to = ParkedRow(row, held), NEW back, back = ParkedWay(row, held, way)
    PROVE  /\ RowOK(to, held, back) /\ Reads(to, back) = Reads(row, way)
           /\ ReadsOK(row, was, way) => ReadsOK(to, held, back)
<1>1. Stilled(row) = [row EXCEPT !.col = "parked", !.spec = IF row.spec = "none" THEN "none" ELSE "parked"]
  BY DEF Stilled, Plan
<1>2. /\ Stilled(row).col = "parked"
      /\ Stilled(row).spec = IF row.spec = "none" THEN "none" ELSE "parked"
  BY <1>1 DEF Plan
<1>3. CASE held /\ row.col = "parked" /\ row.spec = "active"
  <2>1. Found(row) = "aside"  BY <1>3 DEF Found
  <2>2. to = Stilled(row) /\ back = "aside"  BY <1>3, <2>1 DEF ParkedRow, ParkedWay
  <2> QED  BY <1>2, <1>3, <2>2 DEF RowOK, ReadsOK, Reads
<1>4. CASE held /\ row.col = "active"
  <2>1. Found(row) = "active"  BY <1>4 DEF Found
  <2>2. to = Stilled(row) /\ back = "active"  BY <1>4, <2>1 DEF ParkedRow, ParkedWay
  <2>3. RowOK(to, held, back)  BY <1>2, <1>4, <2>2 DEF RowOK
  <2>4. Reads(to, back) = Reads(row, way)  BY <1>2, <1>4, <2>2 DEF Reads
  <2>5. ReadsOK(row, was, way) => ReadsOK(to, held, back)  BY <1>2, <1>4, <2>2 DEF ReadsOK
  <2> QED  BY <2>3, <2>4, <2>5
<1>5. CASE ~held \/ (row.col # "active" /\ ~(row.col = "parked" /\ row.spec = "active"))
  <2>1. held => Found(row) = "none"  BY <1>5 DEF Found
  <2>2. to = row /\ back = way  BY <2>1 DEF ParkedRow, ParkedWay
  <2>3. RowOK(row, held, way)  BY <1>5 DEF RowOK
  <2>4. ReadsOK(row, was, way) => ReadsOK(row, held, way)
    BY <1>5 DEF ReadsOK, Unopened, RowOK, Plan, Status
  <2> QED  BY <2>2, <2>3, <2>4
<1> QED  BY <1>3, <1>4, <1>5

LEMMA LiftsRow ==
    ASSUME NEW row \in Plan, NEW was \in BOOLEAN, NEW held \in BOOLEAN, held => was, NEW way \in Way,
           RowOK(row, was, way), NEW takes \in BOOLEAN,
           NEW to, to = LiftedRow(row, held, way, takes), NEW back, back = IF held THEN way ELSE "none"
    PROVE  /\ RowOK(to, held, back) /\ Unmoved(Reads(row, way), Reads(to, back), row)
           /\ ReadsOK(row, was, way) => ReadsOK(to, held, back)
<1>1. CASE ~held /\ way # "none" /\ row.col = "parked"
  <2> DEFINE st == GoesBackTo(row, way)
  <2>1. was /\ row.spec # "active"  BY <1>1 DEF RowOK
  <2>2. st = IF way = "aside" THEN IF row.shut THEN "parked" ELSE "active" ELSE way  BY DEF GoesBackTo
  <2>3. st \in Status  BY <1>1, <2>2 DEF Way, Status
  <2>4. to = RestorePlanStatus(row, st, takes)  BY <1>1 DEF LiftedRow
  <2> HIDE DEF st
  <2>5. to.col = st /\ to.spec = IF row.spec = "none" THEN "none" ELSE IF st = "parked" THEN "active" ELSE st
    BY <2>3, <2>4, Restores
  <2>6. back = "none"  BY <1>1
  <2>7. Reads(row, way) = way  BY <1>1, <2>1 DEF Reads
  <2>8. RowOK(to, held, back)  BY <1>1, <2>3, <2>5, <2>6 DEF RowOK, Status
  <2>9. Unmoved(way, Reads(to, back), row)
    <3>1. CASE way = "aside" /\ row.shut
      <4>1. row.spec # "none"  BY <3>1 DEF RowOK
      <4> QED  BY <2>2, <2>5, <3>1, <4>1 DEF Reads, Unmoved
    <3>2. CASE way = "aside" /\ ~row.shut  BY <2>2, <2>5, <3>2 DEF Reads, Unmoved
    <3>3. CASE way # "aside"
      <4>1. st = way /\ st \in {"active", "done"}  BY <1>1, <2>2, <3>3 DEF Way
      <4>2. Reads(to, back) = st  BY <2>5, <4>1 DEF Reads
      <4> QED  BY <4>1, <4>2 DEF Unmoved
    <3> QED  BY <3>1, <3>2, <3>3
  <2>10. ReadsOK(row, was, way) => ReadsOK(to, held, back)
    <3> SUFFICES ASSUME way # "aside" PROVE ReadsOK(to, held, back)  BY DEF ReadsOK
    <3>1. st \in {"active", "done"}  BY <1>1, <2>2 DEF Way
    <3> QED  BY <1>1, <2>5, <2>6, <3>1 DEF ReadsOK
  <2> QED  BY <2>7, <2>8, <2>9, <2>10
<1>2. CASE ~ (~held /\ way # "none" /\ row.col = "parked")
  <2>1. to = row  BY <1>2 DEF LiftedRow
  <2>2. CASE held
    <3>1. was = held /\ back = way  BY <2>2
    <3> QED  BY <2>1, <3>1 DEF Unmoved
  <2>3. CASE ~held
    <3>1. back = "none" /\ (way = "none" \/ row.col # "parked")  BY <1>2, <2>3
    <3>2. Reads(row, back) = Reads(row, way)  BY <3>1 DEF Reads
    <3>3. RowOK(row, held, back)  BY <2>3, <3>1 DEF RowOK
    <3>4. ReadsOK(row, was, way) => ReadsOK(row, held, back)
      BY <2>3, <3>1 DEF ReadsOK, RowOK
    <3> QED  BY <2>1, <3>2, <3>3, <3>4 DEF Unmoved
  <2> QED  BY <2>2, <2>3
<1> QED  BY <1>1, <1>2

LEMMA SetsRow ==
    ASSUME NEW row, NEW held \in BOOLEAN, NEW way \in Way, NEW status \in Status, ~held => way = "none",
           row.col = IF status # "done" /\ held THEN "parked" ELSE status, row.spec = row.col,
           NEW back, back = IF status = "active" /\ held THEN "active" ELSE way
    PROVE  /\ RowOK(row, held, back)
           /\ way # "aside" /\ (status = "parked" => held /\ way # "none") => ReadsOK(row, held, back)
BY DEF RowOK, ReadsOK, Status, Way
-----------------------------------------------------------------------------
(* What each write makes of all plans. *)

\* What a plan reads unstopped, among what was written so far.
ReadsIn(s, p) == Reads(s.plans[p], WayBack(s, p))

LEMMA Views ==
    ASSUME NEW s \in Txn
    PROVE  \A p \in Plans : /\ WayBack(s, p) \in Way /\ Held(s, p) \in BOOLEAN
                            /\ s.plans[p] \in Plan
                            /\ ~Held(s, p) => WayBack(s, p) = "none"
<1> SUFFICES ASSUME NEW p \in Plans
             PROVE  /\ WayBack(s, p) \in Way /\ Held(s, p) \in BOOLEAN
                    /\ s.plans[p] \in Plan
                    /\ ~Held(s, p) => WayBack(s, p) = "none"
    OBVIOUS
<1>1. Parking(s, p) \in SUBSET DOMAIN s.stops /\ s.plans[p] \in Plan  BY Stops
<1>2. WayBack(s, p) \in Way  BY <1>1, KeptIs DEF WayBack
<1>3. ~Held(s, p) => WayBack(s, p) = "none"  BY DEF Held, WayBack, Kept
<1> QED  BY <1>1, <1>2, <1>3 DEF Held

\* A new stop.
LEMMA SoundStop ==
    ASSUME NEW s, NEW strays, Sound(s, strays), NEW on \in Plans \cup {Conv},
           NEW t, t = CreateHold(s, on)
    PROVE  /\ Sound(t, strays) /\ Len(t.stops) = Len(s.stops) + 1
           /\ home => \A p \in Plans : ReadsIn(t, p) = ReadsIn(s, p)
<1>1. s \in Txn /\ \A p \in Plans : KeptOnce(s, p)  BY DEF Sound
<1>2. /\ t \in Txn /\ Len(t.stops) = Len(s.stops) + 1
      /\ OwnRecords(s) => OwnRecords(t)
      /\ \A p \in Plans :
            /\ Held(t, p) = (Held(s, p) \/ on = p \/ (on = Conv /\ home))
            /\ t.plans[p] = ParkedRow(s.plans[p], Held(t, p))
            /\ KeptOnce(t, p)
            /\ WayBack(t, p) = ParkedWay(s.plans[p], Held(t, p), WayBack(s, p))
  BY <1>1, CreatesHold
<1>3. ASSUME home, NEW p \in Plans
      PROVE  PlanOK(t, strays, p) /\ ReadsIn(t, p) = ReadsIn(s, p)
  <2>1. PlanOK(s, strays, p)  BY <1>3 DEF Sound
  <2>2. /\ s.plans[p] \in Plan /\ Held(s, p) \in BOOLEAN /\ Held(t, p) \in BOOLEAN
        /\ WayBack(s, p) \in Way
    BY <1>1, <1>2, Views
  <2>3. Held(s, p) => Held(t, p)  BY <1>2
  <2>4. RowOK(s.plans[p], Held(s, p), WayBack(s, p))  BY <2>1 DEF PlanOK
  <2>5. /\ RowOK(t.plans[p], Held(t, p), WayBack(t, p))
        /\ Reads(t.plans[p], WayBack(t, p)) = Reads(s.plans[p], WayBack(s, p))
        /\ ReadsOK(s.plans[p], Held(s, p), WayBack(s, p)) => ReadsOK(t.plans[p], Held(t, p), WayBack(t, p))
    BY <1>2, <2>2, <2>3, <2>4, Parks
  <2> QED  BY <2>1, <2>5 DEF PlanOK, ReadsIn
<1> QED  BY <1>2, <1>3 DEF Sound

\* The lift of some stops.
LEMMA SoundLift ==
    ASSUME NEW s, NEW strays, Sound(s, strays), NEW hs \in SUBSET DOMAIN s.stops, NEW order,
           NEW t, t = LiftHolds(s, hs, order)
    PROVE  /\ Sound(t, strays) /\ Len(t.stops) <= Len(s.stops)
           /\ home => \A p \in Plans : Unmoved(ReadsIn(s, p), ReadsIn(t, p), s.plans[p])
           /\ home => \A p \in Plans : Parking(s, p) \cap hs = {} => ReadsIn(t, p) = ReadsIn(s, p)
<1>1. s \in Txn /\ \A p \in Plans : KeptOnce(s, p)  BY DEF Sound
<1>2. /\ t \in Txn /\ Len(t.stops) <= Len(s.stops)
      /\ OwnRecords(s) => OwnRecords(t)
      /\ \A p \in Plans : KeptOnce(t, p) /\ Held(t, p) = (Parking(s, p) \ hs # {})
      /\ home /\ OwnRecords(s) => \A p \in Plans :
            /\ WayBack(t, p) = IF Held(t, p) THEN WayBack(s, p) ELSE "none"
            /\ \E takes \in BOOLEAN :
                  t.plans[p] = LiftedRow(s.plans[p], Held(t, p), WayBack(s, p), takes)
  <2>1. LiftedFrom(t, s, hs)  BY <1>1, Lifts
  <2> QED  BY <2>1 DEF LiftedFrom
<1>3. ASSUME home, NEW p \in Plans
      PROVE  /\ PlanOK(t, strays, p) /\ Unmoved(ReadsIn(s, p), ReadsIn(t, p), s.plans[p])
             /\ Parking(s, p) \cap hs = {} => ReadsIn(t, p) = ReadsIn(s, p)
  <2>1. PlanOK(s, strays, p) /\ OwnRecords(s)  BY <1>3 DEF Sound
  <2>2. /\ s.plans[p] \in Plan /\ Held(s, p) \in BOOLEAN /\ Held(t, p) \in BOOLEAN
        /\ WayBack(s, p) \in Way /\ (~Held(s, p) => WayBack(s, p) = "none")
    BY <1>1, <1>2, Views
  <2>3. Held(t, p) => Held(s, p)  BY <1>2 DEF Held
  <2>4. RowOK(s.plans[p], Held(s, p), WayBack(s, p))  BY <2>1 DEF PlanOK
  <2>5. WayBack(t, p) = IF Held(t, p) THEN WayBack(s, p) ELSE "none"  BY <1>2, <1>3, <2>1
  <2>6. PICK takes \in BOOLEAN : t.plans[p] = LiftedRow(s.plans[p], Held(t, p), WayBack(s, p), takes)
    BY <1>2, <1>3, <2>1
  <2>7. /\ RowOK(t.plans[p], Held(t, p), WayBack(t, p))
        /\ Unmoved(Reads(s.plans[p], WayBack(s, p)), Reads(t.plans[p], WayBack(t, p)), s.plans[p])
        /\ ReadsOK(s.plans[p], Held(s, p), WayBack(s, p)) => ReadsOK(t.plans[p], Held(t, p), WayBack(t, p))
    BY <2>2, <2>3, <2>4, <2>5, <2>6, LiftsRow
  <2>8. ASSUME Parking(s, p) \cap hs = {} PROVE ReadsIn(t, p) = ReadsIn(s, p)
    <3>1. Held(t, p) = Held(s, p)  BY <1>2, <2>8 DEF Held
    <3>2. WayBack(t, p) = WayBack(s, p)  BY <2>2, <2>5, <3>1
    <3>3. t.plans[p] = s.plans[p]  BY <2>2, <2>6, <3>1 DEF LiftedRow
    <3> QED  BY <3>2, <3>3 DEF ReadsIn
  <2> QED  BY <2>1, <2>7, <2>8 DEF PlanOK, ReadsIn
<1> QED  BY <1>2, <1>3 DEF Sound

\* A write of one plan's status moves no other.
LEMMA SetOthers ==
    ASSUME NEW s \in Txn, \A q \in Plans : KeptOnce(s, q), NEW p \in Plans, NEW status \in Status,
           NEW t, t = SetTaskSpec(s, p, status)
    PROVE  /\ Len(t.stops) = Len(s.stops)
           /\ \A q \in Plans : q # p => t.plans[q] = s.plans[q] /\ ReadsIn(t, q) = ReadsIn(s, q)
<1>1. /\ Len(t.stops) = Len(s.stops)
      /\ \A q \in Plans : q # p => t.plans[q] = s.plans[q] /\ WayBack(t, q) = WayBack(s, q)
  BY Sets
<1> QED  BY <1>1 DEF ReadsIn

\* A write of one plan's status: the settle's parked only where a stop keeps the way back.
LEMMA SoundSet ==
    ASSUME NEW s, NEW strays, Sound(s, strays), NEW p \in Plans, NEW status \in Status,
           home /\ p \notin strays /\ status = "parked" => Held(s, p) /\ WayBack(s, p) # "none",
           NEW t, t = SetTaskSpec(s, p, status)
    PROVE  /\ Sound(t, strays)
           /\ status # "parked" /\ (home => WayBack(s, p) # "aside") => Sound(t, strays \ {p})
<1>1. s \in Txn /\ \A q \in Plans : KeptOnce(s, q)  BY DEF Sound
<1> DEFINE to == IF status # "done" /\ Held(s, p) THEN "parked" ELSE status
<1>2. /\ t \in Txn /\ Len(t.stops) = Len(s.stops)
      /\ \A q \in Plans :
            /\ Held(t, q) = Held(s, q) /\ (q # p => t.plans[q] = s.plans[q])
            /\ KeptOnce(t, q)
            /\ WayBack(t, q) = IF q = p /\ status = "active" /\ Held(s, p)
                               THEN "active" ELSE WayBack(s, q)
      /\ t.plans[p].col = to /\ t.plans[p].spec = to
      /\ OwnRecords(s) => OwnRecords(t)
  BY <1>1, Sets
<1>3. ASSUME home
      PROVE  /\ \A q \in Plans : PlanOK(t, strays, q)
             /\ status # "parked" /\ WayBack(s, p) # "aside" => \A q \in Plans : PlanOK(t, strays \ {p}, q)
  <2>1. \A q \in Plans : PlanOK(s, strays, q)  BY <1>3 DEF Sound
  <2>2. \A q \in Plans : q # p => PlanOK(t, strays, q)  BY <1>2, <2>1 DEF PlanOK
  <2>3. /\ Held(s, p) \in BOOLEAN /\ WayBack(s, p) \in Way
        /\ (~Held(s, p) => WayBack(s, p) = "none")
    BY <1>1, Views
  <2>4. /\ Held(t, p) = Held(s, p)
        /\ WayBack(t, p) = IF status = "active" /\ Held(s, p) THEN "active" ELSE WayBack(s, p)
    BY <1>2
  <2>5. /\ RowOK(t.plans[p], Held(s, p), WayBack(t, p))
        /\ WayBack(s, p) # "aside" /\ (status = "parked" => Held(s, p) /\ WayBack(s, p) # "none")
              => ReadsOK(t.plans[p], Held(s, p), WayBack(t, p))
    BY <1>2, <2>3, <2>4, SetsRow
  <2>6. p \notin strays => WayBack(s, p) # "aside"  BY <2>1 DEF PlanOK, ReadsOK
  <2>7. PlanOK(t, strays, p)  BY <1>3, <2>4, <2>5, <2>6 DEF PlanOK
  <2>8. status # "parked" /\ WayBack(s, p) # "aside" => PlanOK(t, strays \ {p}, p)
    BY <2>4, <2>5 DEF PlanOK
  <2>9. \A q \in Plans : q # p => PlanOK(t, strays \ {p}, q)  BY <2>2 DEF PlanOK
  <2> QED  BY <2>2, <2>7, <2>8, <2>9
<1> QED  BY <1>2, <1>3 DEF Sound

\* The rows are written, and no status with them.
LEMMA SoundRows ==
    ASSUME NEW s, NEW strays, Sound(s, strays), NEW rows \in [Plans -> Plan],
           \A p \in Plans : /\ rows[p].col = s.plans[p].col /\ rows[p].spec = s.plans[p].spec
                            /\ s.plans[p] = Unopened => rows[p] = Unopened,
           NEW t, t = [s EXCEPT !.plans = rows]
    PROVE  /\ Sound(t, strays) /\ Len(t.stops) = Len(s.stops)
           /\ \A p \in Plans : /\ ReadsIn(t, p) = ReadsIn(s, p)
                               /\ Held(t, p) = Held(s, p) /\ WayBack(t, p) = WayBack(s, p)
<1>1. t \in Txn /\ t.plans = rows /\ t.stops = s.stops  BY DEF Txn, Sound
<1>2. /\ OwnRecords(t) = OwnRecords(s)
      /\ \A p \in Plans : /\ Held(t, p) = Held(s, p)
                          /\ KeptOnce(t, p) = KeptOnce(s, p) /\ WayBack(t, p) = WayBack(s, p)
  BY <1>1, SameStops
<1>3. \A p \in Plans : PlanOK(s, strays, p) => PlanOK(t, strays, p)
  BY <1>1, <1>2 DEF PlanOK, RowOK, ReadsOK
<1>4. \A p \in Plans : ReadsIn(t, p) = ReadsIn(s, p)  BY <1>1, <1>2 DEF ReadsIn, Reads
<1> QED  BY <1>1, <1>2, <1>3, <1>4 DEF Sound
LEMMA SoundMore ==
    ASSUME NEW s, NEW strays, Sound(s, strays), NEW more, strays \subseteq more
    PROVE  Sound(s, more)
BY DEF Sound, PlanOK

\* A plan done when it was stopped: the new stop keeps that.
LEMMA Notes ==
    ASSUME NEW s \in Txn, \A q \in Plans : KeptOnce(s, q), NEW p \in Plans, Held(s, p),
           NEW t, t = RememberParked(s, Just(p, "done"))
    PROVE  /\ t \in Txn /\ t.plans = s.plans /\ Len(t.stops) = Len(s.stops)
           /\ \A q \in Plans : KeptOnce(t, q) /\ Held(t, q) = Held(s, q)
           /\ WayBack(t, p) = "done"
           /\ \A q \in Plans : q # p => WayBack(t, q) = WayBack(s, q) /\ ReadsIn(t, q) = ReadsIn(s, q)
           /\ OwnRecords(s) => OwnRecords(t)
<1> DEFINE ways == Just(p, "done")
<1>1. ways \in [Plans -> Way] /\ \A q \in Plans : ways[q] = IF q = p THEN "done" ELSE "none"
  BY DEF Just, NoRecord, Way
<1>2. t = RememberParked(s, ways)  OBVIOUS
<1> HIDE DEF ways
<1>3. t \in Txn /\ t.plans = s.plans /\ Len(t.stops) = Len(s.stops)  BY <1>1, <1>2, Remembers
<1>4. \A q \in Plans :
         /\ KeptOnce(t, q) /\ Held(t, q) = Held(s, q)
         /\ WayBack(t, q) = IF ways[q] # "none" /\ Held(s, q) THEN ways[q] ELSE WayBack(s, q)
  BY <1>1, <1>2, RemembersOne
<1>5. OwnRecords(s) => OwnRecords(t)  BY <1>1, <1>2, RemembersOwn
<1>6. WayBack(t, p) = "done"  BY <1>1, <1>4
<1>7. \A q \in Plans : q # p => WayBack(t, q) = WayBack(s, q)  BY <1>1, <1>4
<1> QED  BY <1>3, <1>4, <1>5, <1>6, <1>7 DEF ReadsIn

LEMMA SoundNote ==
    ASSUME NEW s, NEW strays, Sound(s, strays), NEW p \in Plans, Held(s, p), s.plans[p].col = "done",
           NEW t, t = RememberParked(s, Just(p, "done"))
    PROVE  Sound(t, strays)
<1>1. s \in Txn /\ \A q \in Plans : KeptOnce(s, q)  BY DEF Sound
<1>2. /\ t \in Txn /\ t.plans = s.plans
      /\ \A q \in Plans : KeptOnce(t, q) /\ Held(t, q) = Held(s, q)
      /\ WayBack(t, p) = "done"
      /\ \A q \in Plans : q # p => WayBack(t, q) = WayBack(s, q)
      /\ OwnRecords(s) => OwnRecords(t)
  BY <1>1, Notes
<1>3. PlanOK(s, strays, p) => PlanOK(t, strays, p)  BY <1>2 DEF PlanOK, RowOK, ReadsOK
<1>4. \A q \in Plans : PlanOK(s, strays, q) => PlanOK(t, strays, q)  BY <1>2, <1>3 DEF PlanOK
<1> QED  BY <1>2, <1>4 DEF Sound

\* Your own edit stops the plan, or lifts the stops on it: no other plan is moved by it.
LEMMA SoundByUser ==
    ASSUME Sound(Before, astray), NEW p \in Plans, NEW status \in Status, Opened(p),
           NEW t, t = StatusByUser(p, status)
    PROVE  /\ Sound(t, astray)
           /\ home => \A q \in Plans : q # p => ReadsIn(t, q) = ReadsIn(Before, q)
           /\ home /\ p \notin astray /\ status = "parked" => Held(t, p) /\ WayBack(t, p) # "none"
<1> DEFINE same == status = (IF plans[p].spec # "none" THEN plans[p].spec ELSE plans[p].col)
<1>1. Before \in Txn /\ Before.plans = plans /\ Before.stops = stops  BY DEF Sound, Before
<1>2. plans[p] \in Plan /\ plans[p].col # "none"  BY <1>1, Stops DEF Opened
<1>3. CASE same
  <2>1. t = Before  BY <1>3 DEF StatusByUser
  <2>2. ASSUME home, p \notin astray, status = "parked" PROVE Held(Before, p) /\ WayBack(Before, p) # "none"
    <3>1. ReadsOK(plans[p], Held(Before, p), WayBack(Before, p))  BY <1>1, <2>2 DEF Sound, PlanOK
    <3>2. plans[p].col \in {"active", "parked", "done"}  BY <1>2 DEF Plan, Status
    <3> QED  BY <1>3, <2>2, <3>1, <3>2 DEF ReadsOK
  <2> QED  BY <2>1, <2>2
<1>4. CASE ~same /\ status # "parked"
  <2>1. t = LiftHolds(Before, OwnStops(Before, p), [q \in Plans |-> 0])  BY <1>4 DEF StatusByUser
  <2>2. OwnStops(Before, p) \in SUBSET DOMAIN Before.stops  BY DEF OwnStops
  <2>3. /\ Sound(t, astray)
        /\ home => \A q \in Plans : Parking(Before, q) \cap OwnStops(Before, p) = {} => ReadsIn(t, q) = ReadsIn(Before, q)
    BY <2>1, <2>2, SoundLift
  <2>4. \A q \in Plans : q # p => Parking(Before, q) \cap OwnStops(Before, p) = {}
    BY PlanStopsAssumption DEF Parking, OwnStops
  <2> QED  BY <1>4, <2>3, <2>4
<1>5. CASE ~same /\ status = "parked"
  <2> DEFINE made == CreateHold(Before, p)
  <2>1. t = IF plans[p].col = "done" THEN RememberParked(made, Just(p, "done")) ELSE made
    BY <1>5 DEF StatusByUser
  <2> HIDE DEF made
  <2>2. Sound(made, astray) /\ (home => \A q \in Plans : ReadsIn(made, q) = ReadsIn(Before, q))
    BY SoundStop DEF made
  <2>3. Held(made, p) /\ made.plans[p] = ParkedRow(plans[p], TRUE)
    <3>1. Held(made, p) /\ made.plans[p] = ParkedRow(Before.plans[p], Held(made, p))
      BY <1>1, CreatesHold DEF made
    <3>2. Held(made, p) = TRUE  BY <3>1 DEF Held
    <3> QED  BY <1>1, <3>1, <3>2
  <2>4. CASE plans[p].col = "done"
    <3>1. made.plans[p].col = "done"  BY <2>3, <2>4 DEF ParkedRow, Found
    <3>2. t = RememberParked(made, Just(p, "done"))  BY <2>1, <2>4
    <3>3. /\ Held(t, p) /\ WayBack(t, p) = "done"
          /\ \A q \in Plans : q # p => ReadsIn(t, q) = ReadsIn(made, q)
      <4>1. made \in Txn /\ \A q \in Plans : KeptOnce(made, q)  BY <2>2 DEF Sound
      <4> QED  BY <2>3, <3>2, <4>1, Notes
    <3>4. Sound(t, astray)  BY <2>2, <2>3, <3>1, <3>2, SoundNote
    <3>5. "done" # "none"  OBVIOUS
    <3> QED  BY <2>2, <3>3, <3>4, <3>5
  <2>5. CASE plans[p].col # "done"
    <3>1. t = made  BY <2>1, <2>5
    <3>2. ASSUME home, p \notin astray PROVE WayBack(made, p) # "none"
      <4>1. made.plans[p].col \in {"active", "parked"}
        <5>1. plans[p].col \in {"active", "parked"}  BY <1>2, <2>5 DEF Plan, Status
        <5>2. Stilled(plans[p]).col = "parked"  BY <1>2 DEF Stilled, Plan
        <5> QED  BY <2>3, <5>1, <5>2 DEF ParkedRow
      <4>2. ReadsOK(made.plans[p], Held(made, p), WayBack(made, p))  BY <2>2, <3>2 DEF Sound, PlanOK
      <4> QED  BY <2>3, <4>1, <4>2 DEF ReadsOK
    <3> QED  BY <2>2, <2>3, <3>1, <3>2
  <2> QED  BY <2>4, <2>5
<1> QED  BY <1>3, <1>4, <1>5

\* A plan reopened moves no other.
LEMMA ReopenOthers ==
    ASSUME NEW s \in Txn, \A q \in Plans : KeptOnce(s, q), NEW p \in Plans, NEW t, t = Reopened(s, p)
    PROVE  /\ Len(t.stops) = Len(s.stops)
           /\ \A q \in Plans : q # p => ReadsIn(t, q) = ReadsIn(s, q)
<1> DEFINE asked == IF s.plans[p].spec # "none" THEN SetTaskSpec(s, p, "active") ELSE s
           row == [BackInSlot(asked.plans[p]) EXCEPT !.stage = "active", !.col = "active"]
<1>1. t = [asked EXCEPT !.plans[p] = row]  BY DEF Reopened
<1>2. /\ asked \in Txn /\ Len(asked.stops) = Len(s.stops)
      /\ \A q \in Plans : q # p => ReadsIn(asked, q) = ReadsIn(s, q)
  <2>1. CASE s.plans[p].spec # "none"
    <3>1. asked = SetTaskSpec(s, p, "active") /\ "active" \in Status  BY <2>1 DEF Status
    <3> HIDE DEF asked
    <3>2. asked \in Txn  BY <3>1, Sets
    <3> QED  BY <3>1, <3>2, SetOthers
  <2>2. CASE s.plans[p].spec = "none"  BY <2>2
  <2> QED  BY <2>1, <2>2
<1> HIDE DEF asked, row
<1>3. t.stops = asked.stops /\ \A q \in Plans : q # p => t.plans[q] = asked.plans[q]  BY <1>1, <1>2 DEF Txn
<1>4. \A q \in Plans : WayBack(t, q) = WayBack(asked, q)  BY <1>3, SameStops
<1> QED  BY <1>2, <1>3, <1>4 DEF ReadsIn

\* Reopened, a plan reads in progress whether or not a stop is over it.
LEMMA SoundReopen ==
    ASSUME NEW s, NEW strays, Sound(s, strays), NEW p \in Plans, NEW t, t = Reopened(s, p)
    PROVE  /\ Sound(t, strays \cup {p})
           /\ ~Held(s, p) => Sound(t, strays)
           /\ home /\ p \notin strays => WayBack(t, p) # "aside"
<1> DEFINE asked == IF s.plans[p].spec # "none" THEN SetTaskSpec(s, p, "active") ELSE s
           row == [BackInSlot(asked.plans[p]) EXCEPT !.stage = "active", !.col = "active"]
<1>1. t = [asked EXCEPT !.plans[p] = row]  BY DEF Reopened
<1>2. s \in Txn /\ \A q \in Plans : KeptOnce(s, q)  BY DEF Sound
<1>3. "active" \in Status  BY DEF Status
<1>4. /\ Sound(asked, strays)
      /\ Held(asked, p) = Held(s, p)
      /\ ~Held(s, p) => asked.plans[p].spec \in {"active", "none"}
      /\ WayBack(asked, p) # "aside" \/ WayBack(asked, p) = WayBack(s, p)
  <2>1. CASE s.plans[p].spec # "none"
    <3>1. asked = SetTaskSpec(s, p, "active")  BY <2>1
    <3> HIDE DEF asked
    <3>2. Sound(asked, strays)
      <4>1. home /\ p \notin strays /\ "active" = "parked" => Held(s, p) /\ WayBack(s, p) # "none"  OBVIOUS
      <4> QED  BY <1>3, <3>1, <4>1, SoundSet
    <3>3. /\ Held(asked, p) = Held(s, p)
          /\ WayBack(asked, p) = IF Held(s, p) THEN "active" ELSE WayBack(s, p)
          /\ asked.plans[p].spec = IF Held(s, p) THEN "parked" ELSE "active"
      BY <1>2, <1>3, <3>1, Sets
    <3> QED  BY <3>2, <3>3
  <2>2. CASE s.plans[p].spec = "none"
    <3>1. asked = s  BY <2>2
    <3> HIDE DEF asked
    <3> QED  BY <2>2, <3>1
  <2> QED  BY <2>1, <2>2
<1> HIDE DEF asked
<1>5. asked \in Txn /\ \A q \in Plans : KeptOnce(asked, q)  BY <1>4 DEF Sound
<1>6. asked.plans[p] \in Plan  BY <1>5, Stops
<1>7. row \in Plan /\ row.col = "active" /\ row.spec = asked.plans[p].spec
  BY <1>6 DEF BackInSlot, Plan, Status
<1> HIDE DEF row
<1>8. /\ t \in Txn /\ t.stops = asked.stops /\ t.plans[p] = row
      /\ \A q \in Plans : q # p => t.plans[q] = asked.plans[q]
  BY <1>1, <1>5, <1>7 DEF Txn
<1>9. /\ OwnRecords(t) = OwnRecords(asked)
      /\ \A q \in Plans : /\ Held(t, q) = Held(asked, q)
                          /\ KeptOnce(t, q) = KeptOnce(asked, q) /\ WayBack(t, q) = WayBack(asked, q)
  BY <1>8, SameStops
<1>10. ASSUME home
       PROVE  /\ \A q \in Plans : PlanOK(t, strays \cup {p}, q)
              /\ ~Held(s, p) => PlanOK(t, strays, p)
  <2>1. \A q \in Plans : PlanOK(asked, strays, q)  BY <1>4, <1>10 DEF Sound
  <2>2. \A q \in Plans : q # p => PlanOK(t, strays \cup {p}, q)  BY <1>8, <1>9, <2>1 DEF PlanOK
  <2>3. ~Held(asked, p) => WayBack(asked, p) = "none"  BY <1>5, Views
  <2>4. RowOK(t.plans[p], Held(t, p), WayBack(t, p))
    <3>1. RowOK(asked.plans[p], Held(asked, p), WayBack(asked, p))  BY <2>1 DEF PlanOK
    <3> QED  BY <1>7, <1>8, <1>9, <2>3, <3>1 DEF RowOK
  <2>5. ~Held(s, p) => ReadsOK(t.plans[p], Held(t, p), WayBack(t, p))
    BY <1>4, <1>7, <1>8, <1>9, <2>3 DEF ReadsOK
  <2> QED  BY <2>2, <2>4, <2>5 DEF PlanOK
<1>11. ASSUME home, ~Held(s, p) PROVE \A q \in Plans : PlanOK(t, strays, q)
  BY <1>10, <1>11 DEF PlanOK
<1>12. OwnRecords(asked) => OwnRecords(t)  BY <1>9
<1>13. Sound(t, strays \cup {p}) /\ (~Held(s, p) => Sound(t, strays))
  BY <1>4, <1>5, <1>8, <1>9, <1>10, <1>11 DEF Sound
<1>14. ASSUME home, p \notin strays PROVE WayBack(t, p) # "aside"
  <2>1. WayBack(s, p) # "aside"  BY <1>14 DEF Sound, PlanOK, ReadsOK
  <2> QED  BY <1>4, <1>9, <2>1
<1> QED  BY <1>13, <1>14
LEMMA SameKept ==
    ASSUME NEW s \in Txn, NEW t \in Txn, NEW p \in Plans, KeptOnce(s, p),
           Parking(t, p) = Parking(s, p), \A h \in Parking(s, p) : t.stops[h] = s.stops[h]
    PROVE  KeptOnce(t, p) /\ WayBack(t, p) = WayBack(s, p) /\ Held(t, p) = Held(s, p)
<1>1. KeptOnce(t, p)  BY DEF KeptOnce
<1>2. Parking(s, p) \in SUBSET DOMAIN s.stops /\ Parking(t, p) \in SUBSET DOMAIN t.stops  BY Stops
<1>3. CASE \E h \in Parking(s, p) : s.stops[h].way[p] # "none"
  <2>1. PICK h \in Parking(s, p) : s.stops[h].way[p] # "none"  BY <1>3
  <2>2. WayBack(s, p) = s.stops[h].way[p]  BY <2>1, KeptUnder
  <2>3. WayBack(t, p) = t.stops[h].way[p]  BY <1>1, <2>1, KeptUnder
  <2> QED  BY <1>1, <2>2, <2>3 DEF Held
<1>4. CASE \A h \in Parking(s, p) : s.stops[h].way[p] = "none"
  <2>1. WayBack(s, p) = "none"  BY <1>2, <1>4, KeptIs DEF WayBack
  <2>2. WayBack(t, p) = "none"  BY <1>2, <1>4, KeptIs DEF WayBack
  <2> QED  BY <1>1, <2>1, <2>2 DEF Held
<1> QED  BY <1>3, <1>4

\* What the stops there are find of the plans.
LEMMA SoundPark ==
    ASSUME NEW s, NEW strays, Sound(s, strays), NEW t, t = ParkHeldPlans(s)
    PROVE  /\ Sound(t, strays)
           /\ home => \A p \in Plans : ReadsIn(t, p) = ReadsIn(s, p)
<1>1. s \in Txn /\ \A p \in Plans : KeptOnce(s, p)  BY DEF Sound
<1> DEFINE found(p) == IF Parking(s, p) = {} THEN "none" ELSE Found(s.plans[p])
<1>2. /\ t \in Txn
      /\ \A p \in Plans :
            /\ t.plans[p] = IF found(p) = "none" THEN s.plans[p] ELSE Stilled(s.plans[p])
            /\ Held(t, p) = Held(s, p)
            /\ KeptOnce(t, p)
            /\ WayBack(t, p) = IF found(p) # "none" THEN found(p) ELSE WayBack(s, p)
      /\ OwnRecords(s) => OwnRecords(t)
  BY <1>1, ParksHeld
<1>3. \A p \in Plans : /\ t.plans[p] = ParkedRow(s.plans[p], Held(s, p))
                       /\ WayBack(t, p) = ParkedWay(s.plans[p], Held(s, p), WayBack(s, p))
  BY <1>2 DEF Held, ParkedRow, ParkedWay
<1> HIDE DEF found
<1>4. ASSUME home, NEW p \in Plans
      PROVE  PlanOK(t, strays, p) /\ ReadsIn(t, p) = ReadsIn(s, p)
  <2>1. PlanOK(s, strays, p)  BY <1>4 DEF Sound
  <2>2. s.plans[p] \in Plan /\ Held(s, p) \in BOOLEAN /\ WayBack(s, p) \in Way  BY <1>1, Views
  <2>3. RowOK(s.plans[p], Held(s, p), WayBack(s, p))  BY <2>1 DEF PlanOK
  <2>4. /\ RowOK(t.plans[p], Held(s, p), WayBack(t, p))
        /\ Reads(t.plans[p], WayBack(t, p)) = Reads(s.plans[p], WayBack(s, p))
        /\ ReadsOK(s.plans[p], Held(s, p), WayBack(s, p)) => ReadsOK(t.plans[p], Held(s, p), WayBack(t, p))
    BY <1>3, <2>2, <2>3, Parks
  <2> QED  BY <1>2, <2>1, <2>4 DEF PlanOK, ReadsIn
<1> QED  BY <1>2, <1>4 DEF Sound

\* Plans stopped by their status get a stop of their own.
LEMMA SoundOwn ==
    ASSUME NEW s, NEW strays, Sound(s, strays), NEW L \in SUBSET Plans, NEW order \in SetToSeqs(L),
           NEW ways \in [Plans -> Way],
           \A p \in L : /\ s.plans[p].col = "parked" /\ s.plans[p].spec = "parked"
                        /\ ~Held(s, p) /\ ways[p] = "active" /\ (home => p \in strays),
           NEW t, t = CreateHolds(s, OwnHolds(order, ways))
    PROVE  /\ Sound(t, strays)
           /\ home => \A p \in Plans : ReadsIn(t, p) = ReadsIn(s, p)
<1> DEFINE u == Adding(s, OwnHolds(order, ways))
<1>1. t = ParkHeldPlans(u)  BY DEF CreateHolds, Adding
<1>2. s \in Txn /\ \A p \in Plans : KeptOnce(s, p)  BY DEF Sound
<1>3. /\ u \in Txn /\ u.plans = s.plans
      /\ \A h \in DOMAIN s.stops : u.stops[h] = s.stops[h]
      /\ \A p \in L : \E h \in DOMAIN u.stops \ DOMAIN s.stops :
            /\ u.stops[h] = OwnStop(p, ways[p])
            /\ Parking(u, p) = Parking(s, p) \cup {h}
      /\ \A p \in Plans \ L : Parking(u, p) = Parking(s, p)
      /\ OwnRecords(s) => OwnRecords(u)
  BY <1>2, OwnAdded
<1> HIDE DEF u
<1>4. ASSUME NEW p \in Plans \ L
      PROVE  KeptOnce(u, p) /\ WayBack(u, p) = WayBack(s, p) /\ Held(u, p) = Held(s, p)
  <2>1. Parking(s, p) \subseteq DOMAIN s.stops  BY <1>2, Stops
  <2> QED  BY <1>2, <1>3, <2>1, SameKept
<1>5. ASSUME NEW p \in L
      PROVE  KeptOnce(u, p) /\ WayBack(u, p) = "active" /\ Held(u, p)
  <2>1. PICK h \in DOMAIN u.stops \ DOMAIN s.stops :
           u.stops[h] = OwnStop(p, ways[p]) /\ Parking(u, p) = Parking(s, p) \cup {h}
    BY <1>3
  <2>2. Parking(u, p) = {h}  BY <2>1 DEF Held
  <2>3. u.stops[h].way[p] = "active"  BY <2>1 DEF OwnStop, Just, NoRecord
  <2>4. KeptOnce(u, p)  BY <2>2 DEF KeptOnce
  <2>5. WayBack(u, p) = u.stops[h].way[p]  BY <1>3, <2>2, <2>3, <2>4, KeptUnder
  <2> QED  BY <2>2, <2>3, <2>4, <2>5 DEF Held
<1>6. ASSUME home, NEW p \in Plans
      PROVE  PlanOK(u, strays, p) /\ ReadsIn(u, p) = ReadsIn(s, p)
  <2>1. PlanOK(s, strays, p)  BY <1>6 DEF Sound
  <2>2. CASE p \notin L  BY <1>3, <1>4, <2>1, <2>2 DEF PlanOK, ReadsIn
  <2>3. CASE p \in L
    <3>1. u.plans[p].col = "parked" /\ u.plans[p].spec = "parked" /\ p \in strays  BY <1>3, <1>6, <2>3
    <3>2. WayBack(s, p) = "none"  BY <1>2, <2>3, Views
    <3>3. RowOK(u.plans[p], Held(u, p), WayBack(u, p))  BY <1>5, <2>3, <3>1 DEF RowOK
    <3>4. Reads(u.plans[p], "active") = Reads(u.plans[p], "none")  BY <3>1 DEF Reads
    <3> QED  BY <1>3, <1>5, <2>3, <3>1, <3>2, <3>3, <3>4 DEF PlanOK, ReadsIn
  <2> QED  BY <2>2, <2>3
<1>7. Sound(u, strays)  BY <1>2, <1>3, <1>4, <1>5, <1>6 DEF Sound
<1>8. Sound(t, strays) /\ (home => \A p \in Plans : ReadsIn(t, p) = ReadsIn(u, p))
  BY <1>1, <1>7, SoundPark
<1> QED  BY <1>6, <1>8
-----------------------------------------------------------------------------
(* Each operation, but the deletion of the conversation. *)

\* A transaction ends with every plan as it must be, and only the one it writes moved.
Step ==
    /\ UNCHANGED home /\ astray' \subseteq Plans
    /\ \E s : /\ Commit(s) /\ Sound(s, astray') /\ Len(s.stops) <= MaxStops
              /\ home => \A p \in Plans : Written(p) \/ Unmoved(ReadsIn(Before, p), ReadsIn(s, p), plans[p])

LEMMA BeforeIs ==
    ASSUME Inv
    PROVE  /\ Sound(Before, astray) /\ Before.plans = plans /\ Before.stops = stops
           /\ Before \in Txn /\ \A p \in Plans : KeptOnce(Before, p)
           /\ Len(stops) \in Nat /\ Len(stops) <= MaxStops /\ MaxStops \in Nat
           /\ astray \subseteq Plans
           /\ \A p \in Plans : plans[p] \in Plan
<1>1. Sound(Before, astray) /\ Before \in Txn /\ \A p \in Plans : KeptOnce(Before, p)  BY DEF Inv, Sound
<1>2. Before.plans = plans /\ Before.stops = stops  BY DEF Before
<1>3. Len(stops) \in Nat  BY <1>1, <1>2, Stops
<1> QED  BY <1>1, <1>2, <1>3, PlanStopsAssumption DEF Inv, TypeOK

LEMMA StopStep ==
    ASSUME Inv, NEW on \in Plans \cup {Conv}, Stop(on)
    PROVE  Step
<1> DEFINE t == CreateHold(Before, on)
<1>1. Commit(t) /\ Room(1) /\ UNCHANGED <<home, astray>>  BY DEF Stop
<1> HIDE DEF t
<1>2. /\ Sound(t, astray) /\ Len(t.stops) = Len(stops) + 1
      /\ home => \A p \in Plans : ReadsIn(t, p) = ReadsIn(Before, p)
  <2>1. Sound(Before, astray) /\ Before.stops = stops  BY BeforeIs
  <2> QED  BY <2>1, SoundStop DEF t
<1> QED  BY <1>1, <1>2, BeforeIs DEF Step, Room, Unmoved

LEMMA LiftStep ==
    ASSUME Inv, NEW h \in DOMAIN stops, Lift(h)
    PROVE  Step
<1>1. PICK order \in Orders : Commit(LiftHolds(Before, {h}, order))  BY DEF Lift
<1> DEFINE t == LiftHolds(Before, {h}, order)
<1>2. Commit(t) /\ UNCHANGED <<home, astray>>  BY <1>1 DEF Lift
<1> HIDE DEF t
<1>3. Sound(Before, astray) /\ {h} \in SUBSET DOMAIN Before.stops  BY BeforeIs
<1>4. /\ Sound(t, astray) /\ Len(t.stops) <= Len(Before.stops)
      /\ home => \A p \in Plans : Unmoved(ReadsIn(Before, p), ReadsIn(t, p), Before.plans[p])
  BY <1>3, SoundLift DEF t
<1>5. Len(t.stops) <= MaxStops
  <2>1. t \in Txn  BY <1>4 DEF Sound
  <2>2. Len(t.stops) \in Nat  BY <2>1, Stops
  <2> QED  BY <1>4, <2>2, BeforeIs
<1> QED  BY <1>2, <1>4, <1>5, BeforeIs DEF Step

LEMMA EditPlanStep ==
    ASSUME Inv, NEW p \in Plans, NEW status \in Status, EditPlan(p, status)
    PROVE  Step
<1> DEFINE s == StatusByUser(p, status)
           rows == [s.plans EXCEPT ![p].asleep = FALSE]
           u == [s EXCEPT !.plans[p].asleep = FALSE]
           t == SetTaskSpec(u, p, status)
<1>1. /\ Opened(p) /\ Len(s.stops) <= MaxStops
      /\ Commit(t) /\ UNCHANGED <<home, astray>>
  BY DEF EditPlan
<1>2. Sound(Before, astray)  BY BeforeIs
<1>3. /\ Sound(s, astray)
      /\ home => \A q \in Plans : q # p => ReadsIn(s, q) = ReadsIn(Before, q)
      /\ home /\ p \notin astray /\ status = "parked" => Held(s, p) /\ WayBack(s, p) # "none"
  BY <1>1, <1>2, SoundByUser
<1>4. s \in Txn /\ \A q \in Plans : s.plans[q] \in Plan
  <2> HIDE DEF s
  <2>1. s \in Txn  BY <1>3 DEF Sound
  <2> QED  BY <2>1, Stops
<1>5. u = [s EXCEPT !.plans = rows]
  <2> HIDE DEF s
  <2> QED  BY <1>4 DEF Txn
<1>6. rows \in [Plans -> Plan]
      /\ \A q \in Plans : /\ rows[q].col = s.plans[q].col /\ rows[q].spec = s.plans[q].spec
                          /\ s.plans[q] = Unopened => rows[q] = Unopened
  <2> HIDE DEF s
  <2>1. rows = [q \in Plans |-> IF q = p THEN [s.plans[p] EXCEPT !.asleep = FALSE] ELSE s.plans[q]]
    BY <1>4 DEF Txn
  <2>2. /\ [s.plans[p] EXCEPT !.asleep = FALSE] \in Plan
        /\ [s.plans[p] EXCEPT !.asleep = FALSE].col = s.plans[p].col
        /\ [s.plans[p] EXCEPT !.asleep = FALSE].spec = s.plans[p].spec
    BY <1>4 DEF Plan
  <2>3. s.plans[p] = Unopened => [s.plans[p] EXCEPT !.asleep = FALSE] = Unopened
    <3>1. s.plans[p].asleep = FALSE => [s.plans[p] EXCEPT !.asleep = FALSE] = s.plans[p]
      BY <1>4 DEF Plan
    <3>2. s.plans[p] = Unopened => s.plans[p].asleep = FALSE  BY DEF Unopened
    <3> QED  BY <3>1, <3>2
  <2> HIDE DEF rows
  <2> QED  BY <1>4, <2>1, <2>2, <2>3
<1> HIDE DEF s, rows, u, t
<1>7. /\ Sound(u, astray) /\ Len(u.stops) = Len(s.stops)
      /\ \A q \in Plans : /\ ReadsIn(u, q) = ReadsIn(s, q)
                          /\ Held(u, q) = Held(s, q) /\ WayBack(u, q) = WayBack(s, q)
  BY <1>3, <1>5, <1>6, SoundRows
<1>8. Sound(t, astray)
  <2>1. home /\ p \notin astray /\ status = "parked" => Held(u, p) /\ WayBack(u, p) # "none"
    BY <1>3, <1>7
  <2> QED  BY <1>7, <2>1, SoundSet DEF t
<1>9. Len(t.stops) = Len(u.stops) /\ \A q \in Plans : q # p => ReadsIn(t, q) = ReadsIn(u, q)
  <2>1. u \in Txn /\ \A q \in Plans : KeptOnce(u, q)  BY <1>7 DEF Sound
  <2> QED  BY <2>1, SetOthers DEF t
<1>10. ASSUME home PROVE \A q \in Plans : Written(q) \/ Unmoved(ReadsIn(Before, q), ReadsIn(t, q), plans[q])
  <2>1. Written(p)  BY DEF Written
  <2>2. \A q \in Plans : q # p => ReadsIn(t, q) = ReadsIn(Before, q)  BY <1>3, <1>7, <1>9, <1>10
  <2> QED  BY <2>1, <2>2 DEF Unmoved
<1>11. astray' \subseteq Plans  BY <1>1, BeforeIs
<1> QED  BY <1>1, <1>7, <1>8, <1>9, <1>10, <1>11 DEF Step

LEMMA SettleStep ==
    ASSUME Inv, NEW p \in Plans, NEW says \in Status, Settle(p, says)
    PROVE  Step
<1>1. PICK ticketless \in BOOLEAN, keptOpen \in BOOLEAN :
         Commit(SetTaskSpec(Before, p, Filed(plans[p].col, says, ticketless, keptOpen)))
  BY DEF Settle
<1> DEFINE status == Filed(plans[p].col, says, ticketless, keptOpen)
           t == SetTaskSpec(Before, p, status)
<1>2. /\ Commit(t) /\ UNCHANGED <<home, astray>> /\ home /\ Opened(p)  BY <1>1 DEF Settle
<1>3. /\ Sound(Before, astray) /\ Before.plans = plans /\ plans[p] \in Plan
      /\ Before \in Txn /\ \A q \in Plans : KeptOnce(Before, q)
      /\ Before.stops = stops /\ Len(stops) <= MaxStops /\ astray \subseteq Plans
  BY BeforeIs
<1>4. plans[p].col \in Status  BY <1>2, <1>3 DEF Opened, Plan, Status
<1>5. status \in Status /\ (status = "parked" => plans[p].col = "parked")
  BY <1>4 DEF Filed, Status
<1> HIDE DEF status, t
<1>6. ASSUME p \notin astray, status = "parked" PROVE Held(Before, p) /\ WayBack(Before, p) # "none"
  <2>1. ReadsOK(plans[p], Held(Before, p), WayBack(Before, p))  BY <1>2, <1>3, <1>6 DEF Sound, PlanOK
  <2> QED  BY <1>5, <1>6, <2>1 DEF ReadsOK
<1>7. Sound(t, astray)  BY <1>3, <1>5, <1>6, SoundSet DEF t
<1>8. Len(t.stops) = Len(stops) /\ \A q \in Plans : q # p => ReadsIn(t, q) = ReadsIn(Before, q)
  BY <1>3, <1>5, SetOthers DEF t
<1>9. Written(p)  BY DEF Written
<1>10. \A q \in Plans : Written(q) \/ Unmoved(ReadsIn(Before, q), ReadsIn(t, q), plans[q])
  BY <1>8, <1>9 DEF Unmoved
<1> QED  BY <1>2, <1>3, <1>7, <1>8, <1>10 DEF Step
\* The rows are written, and no status with them: plans set aside, or taken up again.
LEMMA RowsStep ==
    ASSUME Inv, NEW rows \in [Plans -> Plan],
           \A p \in Plans : /\ rows[p].col = plans[p].col /\ rows[p].spec = plans[p].spec
                            /\ plans[p] = Unopened => rows[p] = Unopened,
           plans' = rows, UNCHANGED <<stops, home, astray>>
    PROVE  Step
<1> DEFINE t == [Before EXCEPT !.plans = rows]
<1>1. Sound(Before, astray) /\ Before.plans = plans /\ Before.stops = stops /\ Before \in Txn
      /\ Len(stops) <= MaxStops /\ astray \subseteq Plans
  BY BeforeIs
<1>2. t.plans = rows /\ t.stops = stops  BY <1>1 DEF Txn
<1> HIDE DEF t
<1>3. Sound(t, astray) /\ \A p \in Plans : ReadsIn(t, p) = ReadsIn(Before, p)
  BY <1>1, SoundRows DEF t
<1>4. Commit(t)  BY <1>2 DEF Commit
<1> QED  BY <1>1, <1>2, <1>3, <1>4 DEF Step, Unmoved

LEMMA SetAsideStep ==
    ASSUME Inv, NEW idle, SetAside(idle), UNCHANGED <<stops, home, astray>>
    PROVE  Step
<1> DEFINE rows == [p \in Plans |-> IF p \in idle /\ Opened(p) THEN [plans[p] EXCEPT !.asleep = TRUE, !.shut = TRUE]
                                    ELSE plans[p]]
<1>1. \A p \in Plans : plans[p] \in Plan  BY BeforeIs
<1>2. \A p \in Plans : /\ [plans[p] EXCEPT !.asleep = TRUE, !.shut = TRUE] \in Plan
                       /\ [plans[p] EXCEPT !.asleep = TRUE, !.shut = TRUE].col = plans[p].col
                       /\ [plans[p] EXCEPT !.asleep = TRUE, !.shut = TRUE].spec = plans[p].spec
  BY <1>1 DEF Plan
<1>3. \A p \in Plans : /\ rows[p].col = plans[p].col /\ rows[p].spec = plans[p].spec
                       /\ plans[p] = Unopened => rows[p] = Unopened
  <2> SUFFICES ASSUME NEW p \in Plans
               PROVE  /\ rows[p].col = plans[p].col /\ rows[p].spec = plans[p].spec
                      /\ plans[p] = Unopened => rows[p] = Unopened
      OBVIOUS
  <2>1. plans[p] = Unopened => ~Opened(p)  BY DEF Opened, Unopened
  <2>2. rows[p] = IF p \in idle /\ Opened(p) THEN [plans[p] EXCEPT !.asleep = TRUE, !.shut = TRUE] ELSE plans[p]
    OBVIOUS
  <2> HIDE DEF rows
  <2> QED  BY <1>2, <2>1, <2>2
<1>4. rows \in [Plans -> Plan]  BY <1>1, <1>2
<1>5. plans' = rows  BY DEF SetAside
<1> HIDE DEF rows
<1> QED  BY <1>3, <1>4, <1>5, RowsStep

LEMMA WakeStep ==
    ASSUME Inv, NEW p \in Plans, Wake(p)
    PROVE  Step
<1>1. /\ plans[p].asleep /\ UNCHANGED <<stops, home, astray>>
      /\ plans' = [plans EXCEPT ![p] = BackInSlot(@)] \/ plans' = [plans EXCEPT ![p].asleep = FALSE]
  BY DEF Wake
<1>2. plans \in [Plans -> Plan] /\ plans[p] \in Plan  BY DEF Inv, TypeOK
<1>3. plans[p] # Unopened  BY <1>1 DEF Unopened
<1>4. \E row \in Plan : /\ row.col = plans[p].col /\ row.spec = plans[p].spec
                        /\ plans' = [plans EXCEPT ![p] = row]
  <2>1. /\ BackInSlot(plans[p]) \in Plan
        /\ BackInSlot(plans[p]).col = plans[p].col /\ BackInSlot(plans[p]).spec = plans[p].spec
    BY <1>2 DEF BackInSlot, Plan
  <2>2. /\ [plans[p] EXCEPT !.asleep = FALSE] \in Plan
        /\ [plans[p] EXCEPT !.asleep = FALSE].col = plans[p].col
        /\ [plans[p] EXCEPT !.asleep = FALSE].spec = plans[p].spec
    BY <1>2 DEF Plan
  <2>3. CASE plans' = [plans EXCEPT ![p] = BackInSlot(@)]  BY <2>1, <2>3
  <2>4. CASE plans' = [plans EXCEPT ![p].asleep = FALSE]  BY <2>2, <2>4
  <2> QED  BY <1>1, <2>3, <2>4
<1>5. PICK row \in Plan : /\ row.col = plans[p].col /\ row.spec = plans[p].spec
                          /\ plans' = [plans EXCEPT ![p] = row]
  BY <1>4
<1> DEFINE rows == [plans EXCEPT ![p] = row]
<1>6. rows \in [Plans -> Plan]
      /\ \A q \in Plans : /\ rows[q].col = plans[q].col /\ rows[q].spec = plans[q].spec
                          /\ plans[q] = Unopened => rows[q] = Unopened
  BY <1>2, <1>3, <1>5
<1>7. plans' = rows  BY <1>5
<1> HIDE DEF rows
<1> QED  BY <1>1, <1>6, <1>7, RowsStep

LEMMA OpenStep ==
    ASSUME Inv, NEW p \in Plans, Open(p)
    PROVE  Step
<1> DEFINE fresh == [Unopened EXCEPT !.col = "active"]
           rowsOf(idle) == [q \in Plans |->
              CASE q = p -> [Unopened EXCEPT !.col = "active"]
                [] q \in idle -> [plans[q] EXCEPT !.asleep = TRUE, !.shut = TRUE]
                [] OTHER -> plans[q]]
<1>1. /\ home /\ ~Opened(p) /\ Parking(Before, p) = {} /\ UNCHANGED <<stops, home, astray>>
      /\ \E idle \in SUBSET {q \in Plans : Opened(q) /\ ~plans[q].asleep} : plans' = rowsOf(idle)
  BY DEF Open
<1>2. PICK idle \in SUBSET {q \in Plans : Opened(q) /\ ~plans[q].asleep} : plans' = rowsOf(idle)  BY <1>1
<1> DEFINE rows == rowsOf(idle)
           t == [Before EXCEPT !.plans = rows]
<1>3. /\ Sound(Before, astray) /\ Before.plans = plans /\ Before.stops = stops /\ Before \in Txn
      /\ Len(stops) <= MaxStops /\ astray \subseteq Plans /\ \A q \in Plans : plans[q] \in Plan
  BY BeforeIs
<1>4. fresh \in Plan /\ fresh.col = "active" /\ fresh.spec = "none"  BY DEF Unopened, Plan, Status
<1>5. p \notin idle  BY <1>1
<1>6. rows[p] = fresh  BY <1>5
<1>7. \A q \in Plans : q # p =>
         /\ rows[q] \in Plan
         /\ rows[q].col = plans[q].col /\ rows[q].spec = plans[q].spec
         /\ plans[q].col = "none" => rows[q] = plans[q]
  <2>1. \A q \in Plans : /\ [plans[q] EXCEPT !.asleep = TRUE, !.shut = TRUE] \in Plan
                         /\ [plans[q] EXCEPT !.asleep = TRUE, !.shut = TRUE].col = plans[q].col
                         /\ [plans[q] EXCEPT !.asleep = TRUE, !.shut = TRUE].spec = plans[q].spec
    BY <1>3 DEF Plan
  <2>2. \A q \in Plans : q # p => rows[q] = IF q \in idle THEN [plans[q] EXCEPT !.asleep = TRUE, !.shut = TRUE] ELSE plans[q]
    OBVIOUS
  <2>3. \A q \in idle : plans[q].col # "none"  BY DEF Opened
  <2> HIDE DEF rows
  <2> QED  BY <1>3, <2>1, <2>2, <2>3
<1>8. rows \in [Plans -> Plan]
  <2>1. \A q \in Plans : rows[q] \in Plan
    <3> HIDE DEF rows, fresh
    <3> QED  BY <1>4, <1>6, <1>7
  <2>2. rows = [q \in Plans |-> rows[q]]  OBVIOUS
  <2> HIDE DEF rows
  <2> QED  BY <2>1, <2>2
<1>9. plans' = rows  BY <1>2
<1> HIDE DEF rows, fresh
<1>10. t \in Txn /\ t.plans = rows /\ t.stops = stops  BY <1>3, <1>8 DEF Txn
<1> HIDE DEF t
<1>11. /\ OwnRecords(t) = OwnRecords(Before)
       /\ \A q \in Plans : /\ Held(t, q) = Held(Before, q)
                           /\ KeptOnce(t, q) = KeptOnce(Before, q) /\ WayBack(t, q) = WayBack(Before, q)
  BY <1>3, <1>10, SameStops
<1>12. PlanOK(t, astray, p)
  <2>1. ~Held(t, p)  BY <1>1, <1>11 DEF Held
  <2>2. WayBack(t, p) = "none"  BY <1>10, <2>1, Views
  <2> QED  BY <1>4, <1>6, <1>10, <2>1, <2>2 DEF PlanOK, RowOK, ReadsOK
<1>13. \A q \in Plans : q # p => PlanOK(t, astray, q) /\ ReadsIn(t, q) = ReadsIn(Before, q)
  <2> SUFFICES ASSUME NEW q \in Plans, q # p
               PROVE  PlanOK(t, astray, q) /\ ReadsIn(t, q) = ReadsIn(Before, q)
      OBVIOUS
  <2>1. /\ t.plans[q].col = plans[q].col /\ t.plans[q].spec = plans[q].spec
        /\ plans[q].col = "none" => t.plans[q] = plans[q]
    <3>1. t.plans[q] = rows[q]  BY <1>10
    <3> HIDE DEF rowsOf
    <3> QED  BY <1>7, <3>1
  <2>2. PlanOK(Before, astray, q)  BY <1>1, <1>3 DEF Sound
  <2>3. PlanOK(t, astray, q)  BY <1>3, <1>11, <2>1, <2>2 DEF PlanOK, RowOK, ReadsOK
  <2>4. ReadsIn(t, q) = ReadsIn(Before, q)  BY <1>3, <1>11, <2>1 DEF ReadsIn, Reads
  <2> QED  BY <2>3, <2>4
<1>14. Sound(t, astray)
  <2>1. OwnRecords(t) /\ \A q \in Plans : KeptOnce(t, q)  BY <1>1, <1>3, <1>11 DEF Sound
  <2> QED  BY <1>10, <1>12, <1>13, <2>1 DEF Sound
<1>15. Commit(t)  BY <1>1, <1>9, <1>10 DEF Commit
<1>16. Written(p)  BY DEF Written
<1> QED  BY <1>1, <1>3, <1>10, <1>13, <1>14, <1>15, <1>16 DEF Step, Unmoved

LEMMA DeliverStep ==
    ASSUME Inv, NEW p \in Plans, Deliver(p)
    PROVE  Step
<1> DEFINE s == SetTaskSpec(Before, p, "done")
           rows == [s.plans EXCEPT ![p] = [@ EXCEPT !.stage = "delivered"]]
           t == [s EXCEPT !.plans[p].stage = "delivered"]
<1>1. Commit(t) /\ UNCHANGED <<home, astray>>  BY DEF Deliver
<1>2. "done" \in Status /\ "done" # "parked"  BY DEF Status
<1>3. /\ Sound(Before, astray) /\ Before.plans = plans /\ Before.stops = stops /\ Before \in Txn
      /\ \A q \in Plans : KeptOnce(Before, q)
      /\ Len(stops) <= MaxStops /\ astray \subseteq Plans
  BY BeforeIs
<1>4. Sound(s, astray)
  <2>1. home /\ p \notin astray /\ "done" = "parked" => Held(Before, p) /\ WayBack(Before, p) # "none"
    BY <1>2
  <2> HIDE DEF s
  <2> QED  BY <1>2, <1>3, <2>1, SoundSet DEF s
<1>5. Len(s.stops) = Len(stops) /\ \A q \in Plans : q # p => ReadsIn(s, q) = ReadsIn(Before, q)
  BY <1>2, <1>3, SetOthers
<1>6. s \in Txn /\ s.plans[p].col = "done" /\ s.plans[p] \in Plan
  <2>1. s \in Txn /\ s.plans[p].col = "done"  BY <1>2, <1>3, Sets
  <2> HIDE DEF s
  <2> QED  BY <2>1, Stops
<1> HIDE DEF s
<1>7. t = [s EXCEPT !.plans = rows]  BY <1>6 DEF Txn
<1>8. /\ [s.plans[p] EXCEPT !.stage = "delivered"] \in Plan
      /\ [s.plans[p] EXCEPT !.stage = "delivered"].col = s.plans[p].col
      /\ [s.plans[p] EXCEPT !.stage = "delivered"].spec = s.plans[p].spec
  BY <1>6 DEF Plan
<1>9. s.plans[p] # Unopened  BY <1>6 DEF Unopened
<1>10. s.plans \in [Plans -> Plan]  BY <1>6 DEF Txn
<1>11. /\ rows \in [Plans -> Plan]
       /\ \A q \in Plans : /\ rows[q].col = s.plans[q].col /\ rows[q].spec = s.plans[q].spec
                           /\ s.plans[q] = Unopened => rows[q] = Unopened
  BY <1>8, <1>9, <1>10
<1> HIDE DEF rows, t
<1>12. Sound(t, astray)  BY <1>4, <1>7, <1>11, SoundRows
<1>13. Len(t.stops) = Len(s.stops) /\ \A q \in Plans : ReadsIn(t, q) = ReadsIn(s, q)
  BY <1>4, <1>7, <1>11, SoundRows
<1>14. Written(p)  BY DEF Written
<1> QED  BY <1>1, <1>3, <1>5, <1>12, <1>13, <1>14 DEF Step, Unmoved

LEMMA ReopenStep ==
    ASSUME Inv, NEW p \in Plans, Reopen(p)
    PROVE  Step
<1> DEFINE t == Reopened(Before, p)
<1>1. /\ Commit(t) /\ UNCHANGED home
      /\ astray' = IF Parking(Before, p) # {} THEN astray \cup {p} ELSE astray
  BY DEF Reopen
<1> HIDE DEF t
<1>2. /\ Sound(Before, astray) /\ Before.plans = plans /\ Before.stops = stops
      /\ Before \in Txn /\ \A q \in Plans : KeptOnce(Before, q)
      /\ Len(stops) <= MaxStops /\ astray \subseteq Plans
  BY BeforeIs
<1>3. Sound(t, astray \cup {p}) /\ (~Held(Before, p) => Sound(t, astray))
  BY <1>2, SoundReopen DEF t
<1>4. Len(t.stops) = Len(stops) /\ \A q \in Plans : q # p => ReadsIn(t, q) = ReadsIn(Before, q)
  BY <1>2, ReopenOthers DEF t
<1>5. astray' \subseteq Plans /\ Sound(t, astray')  BY <1>1, <1>2, <1>3 DEF Held
<1>6. Written(p)  BY DEF Written
<1> QED  BY <1>1, <1>2, <1>4, <1>5, <1>6 DEF Step, Unmoved

\* A complaint reopens the plan as its ticket's stage goes back, and then writes its status: under a
\* stop the second write parks again what the first put in progress.
LEMMA ComplainStep ==
    ASSUME Inv, NEW p \in Plans, Complain(p)
    PROVE  Step
<1> DEFINE u == Reopened(Before, p)
           t == SetTaskSpec(u, p, "active")
<1>1. Commit(t) /\ UNCHANGED <<home, astray>> /\ home  BY DEF Complain
<1>2. /\ Sound(Before, astray) /\ Before.plans = plans /\ Before.stops = stops
      /\ Before \in Txn /\ \A q \in Plans : KeptOnce(Before, q)
      /\ Len(stops) <= MaxStops /\ astray \subseteq Plans
  BY BeforeIs
<1>3. "active" \in Status /\ "active" # "parked"  BY DEF Status
<1> HIDE DEF u, t
<1>4. Sound(u, astray \cup {p}) /\ (home /\ p \notin astray => WayBack(u, p) # "aside")
  BY <1>2, SoundReopen DEF u
<1>5. p \notin astray => WayBack(u, p) # "aside"  BY <1>1, <1>4
<1>6. Len(u.stops) = Len(stops) /\ \A q \in Plans : q # p => ReadsIn(u, q) = ReadsIn(Before, q)
  BY <1>2, ReopenOthers DEF u
<1>7. u \in Txn /\ \A q \in Plans : KeptOnce(u, q)  BY <1>4 DEF Sound
<1>8. Len(t.stops) = Len(u.stops) /\ \A q \in Plans : q # p => ReadsIn(t, q) = ReadsIn(u, q)
  BY <1>3, <1>7, SetOthers DEF t
<1>9. /\ Sound(t, astray \cup {p})
      /\ WayBack(u, p) # "aside" => Sound(t, (astray \cup {p}) \ {p})
  BY <1>3, <1>4, SoundSet DEF t
<1>10. Sound(t, astray)
  <2>1. CASE p \in astray
    <3>1. astray \cup {p} = astray  BY <2>1
    <3> QED  BY <1>9, <3>1
  <2>2. CASE p \notin astray
    <3>1. (astray \cup {p}) \ {p} = astray  BY <2>2
    <3> QED  BY <1>5, <1>9, <2>2, <3>1
  <2> QED  BY <2>1, <2>2
<1>11. Written(p)  BY DEF Written
<1>12. \A q \in Plans : Written(q) \/ Unmoved(ReadsIn(Before, q), ReadsIn(t, q), plans[q])
  BY <1>6, <1>8, <1>11 DEF Unmoved
<1> QED  BY <1>1, <1>2, <1>6, <1>8, <1>10, <1>12 DEF Step

LEMMA SleepStep ==
    ASSUME Inv, NEW p \in Plans, Sleep(p)
    PROVE  Step
<1>1. SetAside({p}) /\ UNCHANGED <<stops, home, astray>>  BY DEF Sleep
<1> QED  BY <1>1, SetAsideStep

LEMMA ClearStep ==
    ASSUME Inv, Clear
    PROVE  Step
<1>1. SetAside({p \in Plans : ~plans[p].asleep}) /\ UNCHANGED <<stops, home, astray>>  BY DEF Clear
<1> QED  BY <1>1, SetAsideStep

\* The plans a start makes stops for were parked before there were any.
LEMMA BootStep ==
    ASSUME Inv, Boot
    PROVE  Step
<1> DEFINE ways == [p \in Plans |-> "active"]
<1>1. PICK order \in SetToSeqs(Legacy) :
         LET s == CreateHolds(Before, OwnHolds(order, [p \in Plans |-> "active"])) IN
         Len(s.stops) <= MaxStops /\ Commit(s)
  BY DEF Boot
<1> DEFINE t == CreateHolds(Before, OwnHolds(order, ways))
<1>2. Len(t.stops) <= MaxStops /\ Commit(t) /\ UNCHANGED <<home, astray>>  BY <1>1 DEF Boot
<1>3. ways \in [Plans -> Way] /\ \A p \in Plans : ways[p] = "active"  BY DEF Way
<1> HIDE DEF t, ways
<1>4. /\ Sound(Before, astray) /\ Before.plans = plans /\ Before.stops = stops
      /\ Before \in Txn /\ astray \subseteq Plans
  BY BeforeIs
<1>5. Legacy \in SUBSET Plans  BY DEF Legacy
<1>6. ASSUME NEW p \in Legacy
      PROVE  /\ Before.plans[p].col = "parked" /\ Before.plans[p].spec = "parked"
             /\ ~Held(Before, p) /\ ways[p] = "active" /\ (home => p \in astray)
  <2>1. /\ p \in Plans /\ plans[p].col = "parked" /\ plans[p].spec = "parked"
        /\ Parking(Before, p) = {}
    BY DEF Legacy
  <2>2. ASSUME home, p \notin astray PROVE FALSE
    <3>1. ReadsOK(plans[p], Held(Before, p), WayBack(Before, p))  BY <1>4, <2>1, <2>2 DEF Sound, PlanOK
    <3> QED  BY <2>1, <3>1 DEF ReadsOK, Held
  <2> QED  BY <1>3, <1>4, <2>1, <2>2 DEF Held
<1>7. Sound(t, astray) /\ (home => \A p \in Plans : ReadsIn(t, p) = ReadsIn(Before, p))
  BY <1>3, <1>4, <1>5, <1>6, SoundOwn DEF t
<1> QED  BY <1>2, <1>4, <1>7 DEF Step, Unmoved
-----------------------------------------------------------------------------
(* The deletion of the conversation. *)

\* What the stops on a plan keep of it, or if they keep nothing, any stop.
Standing(s, p) ==
    IF Kept(s, OwnStops(s, p), p) # "none" THEN Kept(s, OwnStops(s, p), p) ELSE Kept(s, DOMAIN s.stops, p)

\* While the conversation is, only the stops that park a plan keep anything of it.
LEMMA KeptAtAll ==
    ASSUME home, NEW s \in Txn, OwnRecords(s), NEW p \in Plans, KeptOnce(s, p)
    PROVE  /\ \A h \in DOMAIN s.stops : s.stops[h].way[p] # "none" => s.stops[h].way[p] = WayBack(s, p)
           /\ Kept(s, DOMAIN s.stops, p) = WayBack(s, p)
<1>1. \A h \in DOMAIN s.stops : s.stops[h].way[p] # "none" => h \in Parking(s, p)
  BY DEF OwnRecords, Parking
<1>2. \A h \in DOMAIN s.stops : s.stops[h].way[p] # "none" => s.stops[h].way[p] = WayBack(s, p)
  BY <1>1, KeptUnder
<1>3. DOMAIN s.stops \in SUBSET DOMAIN s.stops /\ Parking(s, p) \in SUBSET DOMAIN s.stops  BY Stops
<1>4. CASE Kept(s, DOMAIN s.stops, p) # "none"  BY <1>2, <1>3, <1>4, KeptIs
<1>5. CASE Kept(s, DOMAIN s.stops, p) = "none"
  <2>1. \A h \in DOMAIN s.stops : s.stops[h].way[p] = "none"  BY <1>3, <1>5, KeptIs
  <2> QED  BY <1>2, <1>3, <1>5, <2>1, KeptIs DEF WayBack
<1> QED  BY <1>2, <1>4, <1>5

LEMMA StandingIs ==
    ASSUME home, NEW s \in Txn, OwnRecords(s), NEW p \in Plans, KeptOnce(s, p)
    PROVE  Standing(s, p) = WayBack(s, p)
<1>1. OwnStops(s, p) \in SUBSET DOMAIN s.stops  BY DEF OwnStops
<1>2. Kept(s, OwnStops(s, p), p) # "none" => Kept(s, OwnStops(s, p), p) = WayBack(s, p)
  BY <1>1, KeptAtAll, KeptIs
<1> QED  BY <1>2, KeptAtAll DEF Standing

\* A plan that only the conversation's stops park takes its way back with it.
LEMMA LeavingIs ==
    ASSUME Inv, home, NEW p \in Leaving
    PROVE  /\ WayOut(p) \in Way /\ WayOut(p) # "none" /\ OwnStops(Before, p) = {}
           /\ Held(Before, p) /\ Found(plans[p]) = "none"
           /\ Reads(plans[p], WayOut(p)) = ReadsIn(Before, p)
<1>1. Sound(Before, astray) /\ Before.plans = plans /\ Before \in Txn  BY BeforeIs
<1>2. p \in Plans /\ WayOut(p) # "none"  BY DEF Leaving
<1>3. WayOut(p) = IF plans[p].col # "parked" \/ ~Held(Before, p) \/ OwnStops(Before, p) # {} THEN "none"
                  ELSE IF WayBack(Before, p) # "none" THEN WayBack(Before, p)
                  ELSE IF plans[p].spec = "parked" THEN "active" ELSE "none"
  BY DEF WayOut, Held, WayBack
<1>4. plans[p].col = "parked" /\ Held(Before, p) /\ OwnStops(Before, p) = {}  BY <1>2, <1>3
<1>5. plans[p].spec # "active"  BY <1>1, <1>2, <1>4 DEF Sound, PlanOK, RowOK
<1>6. WayBack(Before, p) \in Way  BY <1>1, <1>2, Views
<1>7. WayOut(p) \in Way  BY <1>3, <1>6 DEF Way
<1>8. Found(plans[p]) = "none"  BY <1>4, <1>5 DEF Found
<1>9. Reads(plans[p], WayOut(p)) = Reads(plans[p], WayBack(Before, p))
  BY <1>2, <1>3, <1>4, <1>5 DEF Reads
<1> QED  BY <1>1, <1>2, <1>4, <1>7, <1>8, <1>9 DEF ReadsIn

\* The stops made as it goes, and what becomes of each plan's way back once only those on it park it.
LEMMA Leaves ==
    ASSUME Inv, home, NEW order \in SetToSeqs(Leaving), NEW t,
           t = IF Leaving = {} THEN Before
               ELSE CreateHolds(Before, OwnHolds(order, [p \in Plans |-> WayOut(p)]))
    PROVE  /\ t \in Txn
           /\ \A p \in Plans :
                 /\ \A g, h \in OwnStops(t, p) :
                       t.stops[g].way[p] # "none" /\ t.stops[h].way[p] # "none" => g = h
                 /\ Reads(t.plans[p], Standing(t, p)) = ReadsIn(Before, p)
<1> DEFINE ways == [p \in Plans |-> WayOut(p)]
           u == Adding(Before, OwnHolds(order, ways))
<1>1. /\ Sound(Before, astray) /\ Before.plans = plans /\ Before \in Txn
      /\ \A p \in Plans : KeptOnce(Before, p)
  BY BeforeIs
<1>2. OwnRecords(Before) /\ \A p \in Plans : PlanOK(Before, astray, p)  BY <1>1 DEF Sound
<1>3. CASE Leaving = {}
  <2>1. t = Before  BY <1>3
  <2>2. \A p \in Plans : OwnStops(Before, p) \subseteq Parking(Before, p)  BY DEF OwnStops, Parking
  <2>3. \A p \in Plans : Standing(Before, p) = WayBack(Before, p)  BY <1>1, <1>2, StandingIs
  <2> QED  BY <1>1, <2>1, <2>2, <2>3 DEF KeptOnce, ReadsIn
<1>4. CASE Leaving # {}
  <2>1. t = ParkHeldPlans(u)  BY <1>4 DEF CreateHolds, Adding
  <2>2. ways \in [Plans -> Way] /\ \A p \in Plans : ways[p] = WayOut(p)
    <3>1. \A p \in Plans : WayOut(p) \in Way
      <4> SUFFICES ASSUME NEW p \in Plans PROVE WayOut(p) \in Way  OBVIOUS
      <4>1. CASE p \in Leaving  BY <4>1, LeavingIs
      <4>2. CASE p \notin Leaving  BY <4>2 DEF Leaving, Way
      <4> QED  BY <4>1, <4>2
    <3> QED  BY <3>1
  <2>3. Leaving \in SUBSET Plans  BY DEF Leaving
  <2> HIDE DEF ways
  <2>4. /\ u \in Txn /\ u.plans = plans
        /\ \A h \in DOMAIN Before.stops : u.stops[h] = Before.stops[h]
        /\ \A p \in Leaving : \E h \in DOMAIN u.stops \ DOMAIN Before.stops :
              /\ u.stops[h] = OwnStop(p, ways[p])
              /\ Parking(u, p) = Parking(Before, p) \cup {h}
        /\ \A p \in Plans \ Leaving : Parking(u, p) = Parking(Before, p)
        /\ OwnRecords(u)
    BY <1>1, <1>2, <2>2, <2>3, OwnAdded
  <2> HIDE DEF u
  <2> DEFINE found(p) == IF Parking(u, p) = {} THEN "none" ELSE Found(u.plans[p])
  <2>5. /\ t \in Txn /\ DOMAIN t.stops = DOMAIN u.stops /\ OwnRecords(t)
        /\ \A h \in DOMAIN u.stops : t.stops[h].on = u.stops[h].on
        /\ \A p \in Plans :
              /\ t.plans[p] = IF found(p) = "none" THEN u.plans[p] ELSE Stilled(u.plans[p])
              /\ Held(t, p) = Held(u, p)
              /\ \A h \in DOMAIN u.stops : t.stops[h].way[p] =
                    IF found(p) # "none" /\ h = Keeper(u, p) THEN found(p) ELSE u.stops[h].way[p]
              /\ KeptOnce(u, p) => /\ KeptOnce(t, p)
                                   /\ WayBack(t, p) = IF found(p) # "none" THEN found(p) ELSE WayBack(u, p)
    <3> HIDE DEF found
    <3>1. u \in Txn /\ OwnRecords(u)  BY <2>4
    <3> QED  BY <2>1, <3>1, ParksHeld DEF found
  <2>6. ASSUME NEW p \in Leaving
        PROVE  /\ \A g, h \in OwnStops(t, p) : g = h
               /\ Reads(t.plans[p], Standing(t, p)) = ReadsIn(Before, p)
    <3>1. /\ WayOut(p) # "none" /\ OwnStops(Before, p) = {} /\ Found(plans[p]) = "none"
          /\ Reads(plans[p], WayOut(p)) = ReadsIn(Before, p) /\ p \in Plans
      BY <2>3, LeavingIs
    <3>2. PICK k \in DOMAIN u.stops \ DOMAIN Before.stops :
             u.stops[k] = OwnStop(p, WayOut(p)) /\ Parking(u, p) = Parking(Before, p) \cup {k}
      BY <2>2, <2>4, <3>1
    <3>3. found(p) = "none"  BY <2>4, <3>1
    <3>4. OwnStops(t, p) = {k}
      <4>1. t.stops[k].on = p  BY <2>5, <3>2 DEF OwnStop
      <4>2. ASSUME NEW h \in DOMAIN u.stops, u.stops[h].on = p, h # k PROVE FALSE
        <5>1. h \in Parking(u, p)  BY <4>2 DEF Parking
        <5>2. h \in Parking(Before, p)  BY <3>2, <4>2, <5>1
        <5>3. h \in DOMAIN Before.stops  BY <5>2 DEF Parking
        <5> QED  BY <2>4, <3>1, <4>2, <5>3 DEF OwnStops
      <4> QED  BY <2>5, <3>2, <4>1, <4>2 DEF OwnStops
    <3>5. t.stops[k].way[p] = WayOut(p)
      BY <2>5, <3>1, <3>2, <3>3 DEF OwnStop, Just, NoRecord
    <3>6. Kept(t, OwnStops(t, p), p) = WayOut(p)
      <4>1. OwnStops(t, p) \in SUBSET DOMAIN t.stops  BY DEF OwnStops
      <4>2. p \in Plans /\ t \in Txn  BY <2>5, <3>1
      <4>3. Kept(t, OwnStops(t, p), p) # "none"  BY <3>1, <3>4, <3>5, <4>1, <4>2, KeptIs
      <4>4. PICK h \in OwnStops(t, p) : t.stops[h].way[p] = Kept(t, OwnStops(t, p), p)
        BY <4>1, <4>2, <4>3, KeptIs
      <4> QED  BY <3>4, <3>5, <4>4
    <3>7. Standing(t, p) = WayOut(p)  BY <3>1, <3>6 DEF Standing
    <3> QED  BY <2>4, <2>5, <3>1, <3>3, <3>4, <3>7
  <2>7. ASSUME NEW p \in Plans \ Leaving
        PROVE  /\ \A g, h \in OwnStops(t, p) :
                     t.stops[g].way[p] # "none" /\ t.stops[h].way[p] # "none" => g = h
               /\ Reads(t.plans[p], Standing(t, p)) = ReadsIn(Before, p)
    <3>1. KeptOnce(u, p) /\ WayBack(u, p) = WayBack(Before, p) /\ Held(u, p) = Held(Before, p)
      <4>1. Parking(Before, p) \subseteq DOMAIN Before.stops  BY <1>1, Stops
      <4> QED  BY <1>1, <2>4, <4>1, SameKept
    <3>2. /\ KeptOnce(t, p)
          /\ t.plans[p] = ParkedRow(plans[p], Held(Before, p))
          /\ WayBack(t, p) = ParkedWay(plans[p], Held(Before, p), WayBack(Before, p))
      BY <2>4, <2>5, <3>1 DEF Held, ParkedRow, ParkedWay
    <3>3. OwnStops(t, p) \subseteq Parking(t, p)  BY DEF OwnStops, Parking
    <3>4. Standing(t, p) = WayBack(t, p)  BY <2>5, <3>2, StandingIs
    <3>5. RowOK(plans[p], Held(Before, p), WayBack(Before, p))  BY <1>1, <1>2 DEF PlanOK
    <3>6. plans[p] \in Plan /\ Held(Before, p) \in BOOLEAN /\ WayBack(Before, p) \in Way  BY <1>1, Views
    <3>7. Reads(t.plans[p], WayBack(t, p)) = Reads(plans[p], WayBack(Before, p))
      BY <3>2, <3>5, <3>6, Parks
    <3> QED  BY <1>1, <3>2, <3>3, <3>4, <3>7 DEF KeptOnce, ReadsIn
  <2> QED  BY <2>5, <2>6, <2>7
<1> QED  BY <1>3, <1>4
-----------------------------------------------------------------------------
(* The invariant, and what a plan reads unstopped. *)

\* What a plan would read had nothing stopped it is its row's word and its way back's, or where no
\* stop that parks it has one, any stop's.
LEMMA UnstoppedBy ==
    Inv => \A p \in Plans :
              Unstopped(p) = Reads(plans[p], IF WayBack(Before, p) # "none" THEN WayBack(Before, p)
                                             ELSE Kept(Before, DOMAIN Before.stops, p))
<1> SUFFICES ASSUME Inv, NEW p \in Plans
             PROVE  Unstopped(p) = Reads(plans[p], IF WayBack(Before, p) # "none" THEN WayBack(Before, p)
                                                   ELSE Kept(Before, DOMAIN Before.stops, p))
    OBVIOUS
<1> DEFINE noted == {h \in Parking(Before, p) : stops[h].way[p] # "none"}
           kept == noted \cup {h \in DOMAIN stops : stops[h].way[p] # "none"}
<1>1. Before \in Txn /\ Before.stops = stops  BY BeforeIs
<1>2. Parking(Before, p) \in SUBSET DOMAIN stops  BY <1>1, Stops
<1>3. kept = {h \in DOMAIN stops : stops[h].way[p] # "none"}  BY <1>2
<1>4. WayBack(Before, p) = IF noted = {} THEN "none" ELSE stops[Max(noted)].way[p]
  BY <1>1 DEF WayBack, Kept
<1>5. noted # {} => WayBack(Before, p) # "none"
  BY <1>1, <1>2, KeptIs DEF WayBack
<1>6. Kept(Before, DOMAIN Before.stops, p) = IF kept = {} THEN "none" ELSE stops[Max(kept)].way[p]
  BY <1>1, <1>3 DEF Kept
<1>7. kept # {} => Kept(Before, DOMAIN Before.stops, p) # "none"
  BY <1>1, <1>3, KeptIs
<1>8. Unstopped(p) = IF plans[p].col # "parked" THEN plans[p].col
                     ELSE IF plans[p].spec = "active" THEN "aside"
                     ELSE IF noted # {} THEN stops[Max(noted)].way[p]
                     ELSE IF kept # {} THEN stops[Max(kept)].way[p] ELSE "active"
  BY DEF Unstopped
<1> HIDE DEF noted, kept
<1> QED  BY <1>4, <1>5, <1>6, <1>7, <1>8 DEF Reads

LEMMA UnstoppedIs ==
    Inv /\ home => \A p \in Plans : Unstopped(p) = ReadsIn(Before, p)
<1> SUFFICES ASSUME Inv, home, NEW p \in Plans PROVE Unstopped(p) = ReadsIn(Before, p)  OBVIOUS
<1>1. Before \in Txn /\ Before.plans = plans /\ KeptOnce(Before, p) /\ OwnRecords(Before)
  BY BeforeIs DEF Sound
<1>2. Kept(Before, DOMAIN Before.stops, p) = WayBack(Before, p)  BY <1>1, KeptAtAll
<1> QED  BY <1>1, <1>2, UnstoppedBy DEF ReadsIn

\* What a transaction writes is what there is after it.
LEMMA Onward ==
    ASSUME Inv, Step
    PROVE  /\ Inv'
           /\ home => \A p \in Plans : Written(p) \/ Unmoved(Unstopped(p), Unstopped(p)', plans[p])
<1>1. PICK s : /\ Commit(s) /\ Sound(s, astray') /\ Len(s.stops) <= MaxStops
               /\ home => \A p \in Plans : Written(p) \/ Unmoved(ReadsIn(Before, p), ReadsIn(s, p), plans[p])
  BY DEF Step
<1>2. home' = home /\ astray' \subseteq Plans  BY DEF Step
<1>3. s \in Txn  BY <1>1 DEF Sound
<1>4. plans' = s.plans /\ stops' = s.stops /\ s = [plans |-> plans', stops |-> stops']
  BY <1>1, <1>3 DEF Commit, Txn
<1>5. Before' = s  BY <1>4 DEF Before
<1>6. \A p \in Plans : Parking(Before, p)' = Parking(s, p)  BY <1>2, <1>5 DEF Parking
<1>7. \A p \in Plans : /\ Held(Before, p)' = Held(s, p) /\ WayBack(Before, p)' = WayBack(s, p)
                       /\ KeptOnce(Before, p)' = KeptOnce(s, p)
  BY <1>5, <1>6 DEF Held, WayBack, Kept, KeptOnce
<1>8. OwnRecords(Before)' = OwnRecords(s)  BY <1>5 DEF OwnRecords
<1>9. \A p \in Plans : PlanOK(Before, astray, p)' = PlanOK(s, astray', p)
  BY <1>5, <1>7 DEF PlanOK
<1>10. Sound(Before, astray)'  BY <1>1, <1>2, <1>5, <1>7, <1>8, <1>9 DEF Sound
<1>11. TypeOK'
  <2>1. plans' \in [Plans -> Plan] /\ stops' \in Seq(Hold)  BY <1>3, <1>4 DEF Txn
  <2> QED  BY <1>1, <1>2, <1>4, <2>1 DEF TypeOK, Inv
<1>12. Inv'  BY <1>10, <1>11 DEF Inv
<1>13. ASSUME home PROVE \A p \in Plans : Unstopped(p)' = ReadsIn(s, p) /\ Unstopped(p) = ReadsIn(Before, p)
  <2>1. (Inv /\ home => \A p \in Plans : Unstopped(p) = ReadsIn(Before, p))'  BY UnstoppedIs, PTL
  <2>2. \A p \in Plans : Unstopped(p)' = ReadsIn(Before, p)'  BY <1>2, <1>12, <1>13, <2>1
  <2>3. \A p \in Plans : ReadsIn(Before, p)' = ReadsIn(s, p)  BY <1>5, <1>7 DEF ReadsIn
  <2> QED  BY <1>13, <2>2, <2>3, UnstoppedIs
<1> QED  BY <1>1, <1>12, <1>13

\* Once the conversation is gone, its stops park nothing, and each plan reads as it did.
LEMMA DeleteStep ==
    ASSUME Inv, Delete
    PROVE  Inv' /\ \A p \in Plans : Unstopped(p)' = Unstopped(p)
<1>1. home /\ home' = FALSE /\ astray' = astray  BY DEF Delete
<1>2. PICK order \in SetToSeqs(Leaving) :
         LET s == IF Leaving = {} THEN Before ELSE CreateHolds(Before, OwnHolds(order, [p \in Plans |-> WayOut(p)])) IN
         /\ Len(s.stops) <= MaxStops
         /\ stops' = s.stops
         /\ plans' = [p \in Plans |-> IF s.plans[p].col = "none" THEN s.plans[p]
                                      ELSE [s.plans[p] EXCEPT !.asleep = TRUE, !.shut = TRUE]]
  BY DEF Delete
<1> DEFINE t == IF Leaving = {} THEN Before ELSE CreateHolds(Before, OwnHolds(order, [p \in Plans |-> WayOut(p)]))
<1>3. /\ Len(t.stops) <= MaxStops /\ stops' = t.stops
      /\ plans' = [p \in Plans |-> IF t.plans[p].col = "none" THEN t.plans[p]
                                   ELSE [t.plans[p] EXCEPT !.asleep = TRUE, !.shut = TRUE]]
  BY <1>2
<1>4. /\ t \in Txn
      /\ \A p \in Plans :
            /\ \A g, h \in OwnStops(t, p) :
                  t.stops[g].way[p] # "none" /\ t.stops[h].way[p] # "none" => g = h
            /\ Reads(t.plans[p], Standing(t, p)) = ReadsIn(Before, p)
  BY <1>1, Leaves
<1> HIDE DEF t
<1>5. \A p \in Plans : plans'[p] \in Plan /\ plans'[p].col = t.plans[p].col /\ plans'[p].spec = t.plans[p].spec
  <2> SUFFICES ASSUME NEW p \in Plans
               PROVE  plans'[p] \in Plan /\ plans'[p].col = t.plans[p].col /\ plans'[p].spec = t.plans[p].spec
      OBVIOUS
  <2>1. t.plans[p] \in Plan  BY <1>4, Stops
  <2>2. LET row == [t.plans[p] EXCEPT !.asleep = TRUE, !.shut = TRUE]
        IN row \in Plan /\ row.col = t.plans[p].col /\ row.spec = t.plans[p].spec
    BY <2>1 DEF Plan
  <2> QED  BY <1>3, <2>1, <2>2
<1>6. plans' \in [Plans -> Plan]  BY <1>3, <1>5
<1>7. TypeOK'
  <2>1. stops' \in Seq(Hold)  BY <1>3, <1>4 DEF Txn
  <2> QED  BY <1>1, <1>3, <1>6, <2>1 DEF TypeOK, Inv
<1>8. (Before.stops)' = t.stops /\ (Before.plans)' = plans' /\ (Before \in Txn)'
  BY <1>3, <1>7 DEF Before, Txn, TypeOK
<1>9. \A p \in Plans : Parking(Before, p)' = OwnStops(t, p)  BY <1>1, <1>8 DEF Parking, OwnStops
<1>10. \A p \in Plans : KeptOnce(Before, p)'  BY <1>4, <1>8, <1>9 DEF KeptOnce
<1>11. Inv'  BY <1>1, <1>7, <1>8, <1>10 DEF Inv, Sound
<1>12. (Inv => \A p \in Plans :
          Unstopped(p) = Reads(plans[p], IF WayBack(Before, p) # "none" THEN WayBack(Before, p)
                                         ELSE Kept(Before, DOMAIN Before.stops, p)))'
  BY UnstoppedBy, PTL
<1>13. ASSUME NEW p \in Plans PROVE Unstopped(p)' = ReadsIn(Before, p)
  <2>1. WayBack(Before, p)' = Kept(t, OwnStops(t, p), p)  BY <1>8, <1>9 DEF WayBack, Kept
  <2>2. Kept(Before, DOMAIN Before.stops, p)' = Kept(t, DOMAIN t.stops, p)  BY <1>8 DEF Kept
  <2>3. Unstopped(p)' = Reads(plans[p], IF WayBack(Before, p) # "none" THEN WayBack(Before, p)
                                        ELSE Kept(Before, DOMAIN Before.stops, p))'
    BY <1>11, <1>12
  <2>4. Unstopped(p)' = Reads(plans'[p], Standing(t, p))  BY <2>1, <2>2, <2>3 DEF Reads, Standing
  <2>5. Reads(plans'[p], Standing(t, p)) = Reads(t.plans[p], Standing(t, p))  BY <1>5 DEF Reads
  <2> QED  BY <1>4, <2>4, <2>5
<1> QED  BY <1>1, <1>11, <1>13, UnstoppedIs

\* The first state: there are no stops, and every plan parked is one from before there were.
LEMMA Begins ==
    ASSUME Init
    PROVE  Inv
<1>1. /\ plans \in [Plans -> {Unopened, MovedAside, StoppedThen}] /\ stops = <<>> /\ home = TRUE
      /\ astray = {p \in Plans : plans[p].col = "parked"}
  BY DEF Init
<1>2. {Unopened, MovedAside, StoppedThen} \subseteq Plan
  <2>1. Unopened \in Plan  BY DEF Unopened, Plan, Status
  <2>2. MovedAside \in Plan  BY <2>1 DEF MovedAside, Plan, Status
  <2>3. StoppedThen \in Plan  BY <2>1 DEF StoppedThen, Plan, Status
  <2> QED  BY <2>1, <2>2, <2>3
<1>3. /\ MovedAside.col = "parked" /\ StoppedThen.col = "parked"
      /\ Unopened.col = "none"
  BY DEF Unopened, MovedAside, StoppedThen
<1>4. stops \in Seq(Hold) /\ Len(stops) = 0 /\ DOMAIN stops = {}  BY <1>1
<1>5. TypeOK  BY <1>1, <1>2, <1>4, PlanStopsAssumption DEF TypeOK
<1>6. Before \in Txn /\ Before.plans = plans /\ Before.stops = stops  BY <1>5 DEF Before, Txn, TypeOK
<1>7. \A p \in Plans : ~Held(Before, p)  BY <1>4, <1>6 DEF Held, Parking
<1>8. \A p \in Plans : KeptOnce(Before, p) /\ WayBack(Before, p) = "none"
  BY <1>6, <1>7, Views DEF KeptOnce, Held
<1>9. OwnRecords(Before)  BY <1>4, <1>6 DEF OwnRecords
<1>10. ASSUME NEW p \in Plans PROVE PlanOK(Before, astray, p)
  <2>1. plans[p] \in {Unopened, MovedAside, StoppedThen}  BY <1>1
  <2>2. RowOK(plans[p], Held(Before, p), WayBack(Before, p))
    BY <1>3, <1>7, <1>8, <2>1 DEF RowOK
  <2>3. p \notin astray => plans[p].col = "none"  BY <1>1, <1>3, <2>1
  <2>4. p \notin astray => ReadsOK(plans[p], Held(Before, p), WayBack(Before, p))
    BY <1>8, <2>3 DEF ReadsOK
  <2> QED  BY <1>6, <2>2, <2>4 DEF PlanOK
<1> QED  BY <1>5, <1>6, <1>8, <1>9, <1>10 DEF Inv, Sound

\* Each operation keeps the invariant, and moves only the plan whose status it writes.
LEMMA Moves ==
    ASSUME Inv, Next
    PROVE  /\ Inv'
           /\ home => \A p \in Plans : Written(p) \/ Unmoved(Unstopped(p), Unstopped(p)', plans[p])
<1>1. Step \/ Delete
  <2>1. CASE \E on \in Plans \cup {Conv} : Stop(on)  BY <2>1, StopStep
  <2>2. CASE \E h \in DOMAIN stops : Lift(h)  BY <2>2, LiftStep
  <2>3. CASE \E p \in Plans, status \in Status : EditPlan(p, status)  BY <2>3, EditPlanStep
  <2>4. CASE \E p \in Plans, status \in Status : Settle(p, status)  BY <2>4, SettleStep
  <2>5. CASE \E p \in Plans : Open(p)  BY <2>5, OpenStep
  <2>6. CASE \E p \in Plans : Sleep(p)  BY <2>6, SleepStep
  <2>7. CASE \E p \in Plans : Wake(p)  BY <2>7, WakeStep
  <2>8. CASE \E p \in Plans : Deliver(p)  BY <2>8, DeliverStep
  <2>9. CASE \E p \in Plans : Reopen(p)  BY <2>9, ReopenStep
  <2>10. CASE \E p \in Plans : Complain(p)  BY <2>10, ComplainStep
  <2>11. CASE Clear  BY <2>11, ClearStep
  <2>12. CASE Boot  BY <2>12, BootStep
  <2> QED  BY <2>1, <2>2, <2>3, <2>4, <2>5, <2>6, <2>7, <2>8, <2>9, <2>10, <2>11, <2>12 DEF Next
<1>2. CASE Step  BY <1>2, Onward
<1>3. CASE Delete  BY <1>3, DeleteStep DEF Unmoved
<1> QED  BY <1>1, <1>2, <1>3

LEMMA Holds == Spec => []Inv
<1>1. Init => Inv  BY Begins
<1>2. Inv /\ [Next]_vars => Inv'
  <2> SUFFICES ASSUME Inv, [Next]_vars PROVE Inv'  OBVIOUS
  <2>1. CASE Next  BY <2>1, Moves
  <2>2. CASE UNCHANGED vars
    <3>1. UNCHANGED <<plans, stops, home, astray>>  BY <2>2 DEF vars
    <3>2. Commit(Before)  BY <3>1, BeforeIs DEF Commit
    <3>3. Step  BY <3>1, <3>2, BeforeIs DEF Step, Unmoved
    <3> QED  BY <3>3, Onward
  <2> QED  BY <2>1, <2>2
<1> QED  BY <1>1, <1>2, PTL DEF Spec

-----------------------------------------------------------------------------
(* What is proved. *)

\* Whatever stops overlap and whatever is written under them, the rows and the stops stay well
\* formed: no status is ever a way back's word (restorePlanStatus, planStatusUnderHolds).
THEOREM TypesHold == Spec => []TypeOK
<1>1. Inv => TypeOK  BY DEF Inv
<1> QED  BY <1>1, Holds, PTL

\* However many stops overlap, one that parks a plan at most keeps its way back: rememberParked, the
\* handing on in liftHold, and the stops made as a conversation goes agree on which.
THEOREM OneStopKeeps == Spec => []OneKeeps
<1>1. ASSUME Inv PROVE OneKeeps
  <2> SUFFICES ASSUME NEW p \in Plans
               PROVE  Cardinality({h \in Parking(Before, p) : stops[h].way[p] # "none"}) <= 1
      BY DEF OneKeeps
  <2> DEFINE keeping == {h \in Parking(Before, p) : stops[h].way[p] # "none"}
  <2>1. \A g, h \in keeping : g = h  BY <1>1, BeforeIs DEF KeptOnce
  <2>2. CASE keeping = {}
    <3>1. Cardinality(keeping) = 0  BY <2>2, FS_EmptySet
    <3> QED  BY <3>1
  <2>3. CASE keeping # {}
    <3>1. PICK h \in keeping : TRUE  BY <2>3
    <3> HIDE DEF keeping
    <3>2. keeping = {h}  BY <2>1, <3>1
    <3>3. Cardinality(keeping) = 1  BY <3>2, FS_Singleton
    <3> QED  BY <3>3 DEF keeping
  <2> QED  BY <2>2, <2>3
<1>2. Inv => OneKeeps  BY <1>1
<1> QED  BY <1>2, Holds, PTL

\* While the conversation is, a plan reads parked, in its column and in its spec, exactly while a stop
\* parks it; unless it was parked before there were stops, or reopened under one.
THEOREM ParkedAsStopped == Spec => []ParkedUnderAStop
<1>1. ASSUME Inv, home, NEW p \in Plans \ astray
      PROVE  LET row == plans[p] reads == IF Parking(Before, p) # {} THEN "parked" ELSE "active" IN
             row.col \in {"active", "parked"} => row.col = reads /\ row.spec \in {reads, "none"}
  <2>1. ReadsOK(plans[p], Held(Before, p), WayBack(Before, p))
    BY <1>1, BeforeIs DEF Sound, PlanOK
  <2> QED  BY <2>1 DEF ReadsOK, Held
<1>2. Inv => ParkedUnderAStop  BY <1>1 DEF ParkedUnderAStop
<1> QED  BY <1>2, Holds, PTL

\* Stops made, lifted, handed on, taken along as the conversation goes or made up at a start change
\* nothing of what a plan goes back to in the end: only a write of its own status does, and the lift
\* that finds a plan moved aside in the slot since (createHold, liftHold, holdPlansLeavingSession,
\* reconcileHolds).
THEOREM OnlyWritesMove == Spec => OnlyWritesMoveIt
<1> DEFINE Kind == home => \A p \in Plans :
              \/ Unstopped(p)' = Unstopped(p)
              \/ Written(p)
              \/ Unstopped(p) = "aside" /\ ~plans[p].shut /\ Unstopped(p)' = "active"
<1>1. Inv /\ [Next]_vars => [Kind]_vars
  <2> SUFFICES ASSUME Inv, Next PROVE Kind  OBVIOUS
  <2> QED  BY Moves DEF Unmoved
<1> QED  BY <1>1, Holds, PTL DEF Spec, OnlyWritesMoveIt

=============================================================================
