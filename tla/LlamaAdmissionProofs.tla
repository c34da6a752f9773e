------------------------ MODULE LlamaAdmissionProofs ------------------------
(***************************************************************************)
(* Theorems about LlamaAdmission, for every finite set of requests, every   *)
(* cost, budget and capacity, any number of parks and rounds: the books of  *)
(* the queue are what the requests hold (Consistent), nothing is left when  *)
(* everybody has gone (NothingLeft), nobody is overtaken (NoOvertaking) and *)
(* what is committed fits the cache (CommitFits).                           *)
(*                                                                          *)
(* The books are sums and counts over the requests.  An operation changes   *)
(* what one request holds, and each book by exactly that (Step, BooksMove); *)
(* the grants that follow move the head of the line (GrantKeeps).           *)
(***************************************************************************)
EXTENDS LlamaAdmission, FiniteSetTheorems, FunctionTheorems, SequenceTheorems, WellFoundedInduction, TLAPS

-----------------------------------------------------------------------------
(* A sum counted in units: <<c, i>> is the i-th unit of f[c].               *)
Units(f, S) == {u \in S \X Nat : 1 <= u[2] /\ u[2] <= f[u[1]]}
Amounts(f, S) == \A c \in S : f[c] \in Nat

(* The units of one member are as many as its amount.                       *)
LEMMA UnitsOfOne ==
    ASSUME NEW f, NEW c, f[c] \in Nat
    PROVE  IsFiniteSet(Units(f, {c})) /\ Cardinality(Units(f, {c})) = f[c]
<1>1. IsFiniteSet({c}) /\ Cardinality({c}) = 1
  BY FS_Singleton
<1>2. IsFiniteSet(1..f[c]) /\ Cardinality(1..f[c]) = f[c]
  BY FS_Interval
<1>3. Units(f, {c}) = {c} \X (1..f[c])
  BY DEF Units
<1>4. IsFiniteSet({c} \X (1..f[c])) /\ Cardinality({c} \X (1..f[c])) = Cardinality({c}) * Cardinality(1..f[c])
  BY <1>1, <1>2, FS_Product
<1>5. Cardinality({c}) * Cardinality(1..f[c]) = f[c]
  BY <1>1, <1>2
<1>6. QED
  BY <1>3, <1>4, <1>5

(* Units of two sets without a common member add up.                        *)
LEMMA UnitsAdd ==
    ASSUME NEW f, NEW S, NEW T, S \cap T = {},
           IsFiniteSet(Units(f, S)), IsFiniteSet(Units(f, T))
    PROVE  /\ IsFiniteSet(Units(f, S \cup T))
           /\ Cardinality(Units(f, S \cup T)) = Cardinality(Units(f, S)) + Cardinality(Units(f, T))
<1>1. Units(f, S \cup T) = Units(f, S) \cup Units(f, T) /\ Units(f, S) \cap Units(f, T) = {}
  BY DEF Units
<1>2. /\ IsFiniteSet(Units(f, S) \cup Units(f, T))
      /\ Cardinality(Units(f, S) \cup Units(f, T)) =
            Cardinality(Units(f, S)) + Cardinality(Units(f, T)) - Cardinality({})
  BY <1>1, FS_Union
<1>3. Cardinality({}) = 0 /\ Cardinality(Units(f, S)) \in Nat /\ Cardinality(Units(f, T)) \in Nat
  BY FS_EmptySet, FS_CardinalityType
<1>4. \A m, n \in Nat : m + n - 0 = m + n
  OBVIOUS
<1>5. Cardinality(Units(f, S)) + Cardinality(Units(f, T)) - Cardinality({})
        = Cardinality(Units(f, S)) + Cardinality(Units(f, T))
  BY <1>3, <1>4
<1>6. QED
  BY <1>1, <1>2, <1>5

(* The units of a finite set are finitely many.                             *)
LEMMA UnitsFinite ==
    ASSUME NEW S, IsFiniteSet(S), NEW f, Amounts(f, S), NEW T \in SUBSET S
    PROVE  IsFiniteSet(Units(f, T)) /\ Cardinality(Units(f, T)) \in Nat
<1> DEFINE F(c) == Units(f, {c})
<1> DEFINE all == {F(c) : c \in T}
<1>1. IsFiniteSet(T)
  BY FS_Subset
<1>2. \A c \in T : IsFiniteSet(F(c))
  BY UnitsOfOne DEF Amounts
<1>3. IsFiniteSet(all)
  <2> DEFINE h == [c \in T |-> F(c)]
  <2>1. h \in Surjection(T, all)
    BY DEF Surjection
  <2>2. QED
    BY <1>1, <2>1, FS_Surjection DEF ExistsSurjection
<1>4. Units(f, T) = UNION all
  BY DEF Units
<1>5. IsFiniteSet(UNION all)
  BY <1>2, <1>3, FS_UNION
<1>6. QED
  BY <1>4, <1>5, FS_CardinalityType

Count(f, S) == [s \in SUBSET S |-> Cardinality(Units(f, s))]
Unfolds(g, f, S) ==
    g = [s \in SUBSET S |-> IF s = {} THEN 0
                            ELSE f[CHOOSE x \in s : TRUE] + g[s \ {CHOOSE x \in s : TRUE}]]

(* What MapThenSumSet is: a function on the subsets, chosen to unfold.      *)
LEMMA SumUnfolds ==
    ASSUME NEW f, NEW S
    PROVE  SumOf(f, S) = (CHOOSE g : Unfolds(g, f, S))[S]
BY DEF SumOf, MapThenSumSet, MapThenFoldSet, Unfolds

(* The count of the units unfolds the way the fold does.                    *)
LEMMA CountUnfolds ==
    ASSUME NEW S, IsFiniteSet(S), NEW f, Amounts(f, S)
    PROVE  Unfolds(Count(f, S), f, S)
<1> DEFINE g == Count(f, S)
<1> DEFINE pick(s) == CHOOSE x \in s : TRUE
<1>1. Units(f, {}) = {} /\ Cardinality({}) = 0
  BY FS_EmptySet DEF Units
<1>2. ASSUME NEW s \in SUBSET S, s # {}
      PROVE  Cardinality(Units(f, s)) = f[pick(s)] + Cardinality(Units(f, s \ {pick(s)}))
  <2>1. pick(s) \in s
    BY <1>2
  <2> HIDE DEF pick
  <2>2. /\ IsFiniteSet(Units(f, {pick(s)})) /\ Cardinality(Units(f, {pick(s)})) = f[pick(s)]
    BY <2>1, UnitsOfOne DEF Amounts
  <2>3. IsFiniteSet(Units(f, s \ {pick(s)}))
    BY UnitsFinite
  <2>4. {pick(s)} \cap (s \ {pick(s)}) = {} /\ {pick(s)} \cup (s \ {pick(s)}) = s
    BY <2>1
  <2>5. Cardinality(Units(f, {pick(s)} \cup (s \ {pick(s)})))
          = Cardinality(Units(f, {pick(s)})) + Cardinality(Units(f, s \ {pick(s)}))
    BY <2>2, <2>3, <2>4, UnitsAdd
  <2>6. QED
    BY <2>2, <2>4, <2>5
<1>3. ASSUME NEW s \in SUBSET S, s # {}
      PROVE  g[s] = f[pick(s)] + g[s \ {pick(s)}]
  BY <1>2, <1>3 DEF Count
<1>4. QED
  BY <1>1, <1>3 DEF Unfolds, Count

(* A fold over a finite set can be unfolded in one way only.                *)
LEMMA UnfoldsOnce ==
    ASSUME NEW S, IsFiniteSet(S), NEW f, NEW g, NEW h, Unfolds(g, f, S), Unfolds(h, f, S)
    PROVE  g = h
<1> DEFINE T == {s \in SUBSET S : g[s] # h[s]}
<1> DEFINE pick(s) == CHOOSE x \in s : TRUE
<1>1. SUFFICES ASSUME T # {} PROVE FALSE
  BY <1>1 DEF Unfolds
<1>2. IsWellFoundedOn(StrictSubsetOrdering(S), SUBSET S)
  BY FS_StrictSubsetOrderingWellFounded, FS_FiniteSubsetsOfFinite
<1>3. T \subseteq SUBSET S
  OBVIOUS
<1>4. PICK s \in T : \A r \in T : ~(<<r, s>> \in StrictSubsetOrdering(S))
  <2> HIDE DEF T
  <2> QED BY <1>1, <1>2, <1>3, WFMin
<1>5. s # {}
  BY <1>4 DEF Unfolds
<1>6. pick(s) \in s
  BY <1>5
<1>7. g[s \ {pick(s)}] = h[s \ {pick(s)}]
  <2>1. s \ {pick(s)} \in SUBSET S /\ s \ {pick(s)} \subseteq s /\ s \ {pick(s)} # s
    BY <1>4, <1>6
  <2>2. <<s \ {pick(s)}, s>> \in StrictSubsetOrdering(S)
    BY <1>4, <2>1 DEF StrictSubsetOrdering
  <2>3. QED
    BY <1>4, <2>1, <2>2
<1>8. g[s] = f[pick(s)] + g[s \ {pick(s)}] /\ h[s] = f[pick(s)] + h[s \ {pick(s)}]
  BY <1>4, <1>5 DEF Unfolds
<1>9. QED
  BY <1>4, <1>7, <1>8

(* The sum of natural numbers over a finite set is the count of their units.*)
LEMMA SumIsCount ==
    ASSUME NEW S, IsFiniteSet(S), NEW f, Amounts(f, S)
    PROVE  SumOf(f, S) = Cardinality(Units(f, S))
<1>1. Unfolds(CHOOSE g : Unfolds(g, f, S), f, S)
  BY CountUnfolds
<1>2. (CHOOSE g : Unfolds(g, f, S)) = Count(f, S)
  BY <1>1, CountUnfolds, UnfoldsOnce
<1>3. QED
  BY <1>2, SumUnfolds DEF Count

-----------------------------------------------------------------------------
(* A sum of naturals is one.                                                *)
LEMMA SumIsNat ==
    ASSUME NEW S, IsFiniteSet(S), NEW f, Amounts(f, S)
    PROVE  SumOf(f, S) \in Nat
BY SumIsCount, UnitsFinite

(* The sum over one member.                                                 *)
LEMMA SumOfOne == ASSUME NEW f, NEW c, f[c] \in Nat PROVE SumOf(f, {c}) = f[c]
<1>1. IsFiniteSet({c}) /\ Amounts(f, {c})
  BY FS_Singleton DEF Amounts
<1>2. QED
  BY <1>1, UnitsOfOne, SumIsCount

(* Sums over two sets without a common member add up.                       *)
LEMMA SumAdds ==
    ASSUME NEW S, IsFiniteSet(S), NEW T, IsFiniteSet(T), S \cap T = {}, NEW f, Amounts(f, S), Amounts(f, T)
    PROVE  SumOf(f, S \cup T) = SumOf(f, S) + SumOf(f, T)
<1>1. IsFiniteSet(S \cup T) /\ Amounts(f, S \cup T)
  BY FS_Union DEF Amounts
<1>2. IsFiniteSet(Units(f, S)) /\ IsFiniteSet(Units(f, T))
  BY UnitsFinite
<1>3. QED
  BY <1>1, <1>2, UnitsAdd, SumIsCount

(* Equal amounts have equal sums.                                           *)
LEMMA SumSame ==
    ASSUME NEW S, IsFiniteSet(S), NEW f, NEW g, Amounts(f, S), \A c \in S : g[c] = f[c]
    PROVE  SumOf(g, S) = SumOf(f, S)
<1>1. Units(g, S) = Units(f, S) /\ Amounts(g, S)
  BY DEF Units, Amounts
<1>2. QED
  BY <1>1, SumIsCount

(* A sum and what some of its members contribute to it.                     *)
LEMMA SumParts ==
    ASSUME NEW S, IsFiniteSet(S), NEW T, T \subseteq S, NEW f, Amounts(f, S)
    PROVE  /\ SumOf(f, S) = SumOf(f, T) + SumOf(f, S \ T)
           /\ SumOf(f, S) \in Nat /\ SumOf(f, T) \in Nat /\ SumOf(f, S \ T) \in Nat
<1>1. IsFiniteSet(T) /\ IsFiniteSet(S \ T) /\ T \cap (S \ T) = {} /\ T \cup (S \ T) = S
  BY FS_Subset
<1>2. Amounts(f, T) /\ Amounts(f, S \ T)
  BY DEF Amounts
<1>3. SumOf(f, T \cup (S \ T)) = SumOf(f, T) + SumOf(f, S \ T)
  BY <1>1, <1>2, SumAdds
<1>4. QED
  BY <1>1, <1>2, <1>3, SumIsNat

(* One member changes: the sum changes with it.                             *)
LEMMA SumChanges ==
    ASSUME NEW S, IsFiniteSet(S), NEW f, Amounts(f, S), NEW g, NEW c \in S, g[c] \in Nat,
           \A d \in S \ {c} : g[d] = f[d]
    PROVE  /\ f[c] <= SumOf(f, S)
           /\ SumOf(g, S) = SumOf(f, S) - f[c] + g[c]
<1>1. Amounts(g, S)
  BY DEF Amounts
<1>2. f[c] \in Nat /\ Amounts(f, S \ {c}) /\ IsFiniteSet(S \ {c})
  BY FS_Subset DEF Amounts
<1>3. SumOf(f, {c}) = f[c] /\ SumOf(g, {c}) = g[c]
  BY <1>2, SumOfOne
<1>4. SumOf(g, S \ {c}) = SumOf(f, S \ {c})
  BY <1>2, SumSame
<1>5. /\ SumOf(f, S) = SumOf(f, {c}) + SumOf(f, S \ {c})
      /\ SumOf(g, S) = SumOf(g, {c}) + SumOf(g, S \ {c})
      /\ SumOf(f, S \ {c}) \in Nat
  BY <1>1, SumParts
<1>6. PICK m \in Nat : m = SumOf(f, S \ {c})
  BY <1>5
<1>7. SumOf(f, S) = f[c] + m /\ SumOf(g, S) = g[c] + m
  BY <1>3, <1>4, <1>5, <1>6
<1>8. QED
  BY <1>2, <1>7

(* Members that had nothing get something.                                  *)
LEMMA SumGrows ==
    ASSUME NEW S, IsFiniteSet(S), NEW f, Amounts(f, S), NEW g, NEW T, T \subseteq S, NEW h, Amounts(h, T),
           \A d \in S \ T : g[d] = f[d], \A d \in T : f[d] = 0 /\ g[d] = h[d]
    PROVE  SumOf(g, S) = SumOf(f, S) + SumOf(h, T)
<1>1. Amounts(g, S) /\ Amounts(f, S \ T) /\ Amounts(f, T) /\ IsFiniteSet(T) /\ IsFiniteSet(S \ T)
  BY FS_Subset DEF Amounts
<1>2. SumOf(f, T) = 0
  <2>1. Units(f, T) = {} /\ Cardinality({}) = 0
    BY FS_EmptySet DEF Units
  <2>2. QED
    BY <1>1, <2>1, SumIsCount
<1>3. SumOf(g, S \ T) = SumOf(f, S \ T) /\ SumOf(g, T) = SumOf(h, T)
  BY <1>1, SumSame
<1>4. /\ SumOf(f, S) = SumOf(f, T) + SumOf(f, S \ T)
      /\ SumOf(g, S) = SumOf(g, T) + SumOf(g, S \ T)
      /\ SumOf(f, S \ T) \in Nat /\ SumOf(g, T) \in Nat
  BY <1>1, SumParts
<1>5. QED
  BY <1>2, <1>3, <1>4

-----------------------------------------------------------------------------
(* What one request contributes to the books of the queue, from its lease   *)
(* l, its position x and its hand h.                                        *)
Hand == [slot : Slots \cup {None}, tokens : Nat, want : Nat]
HeldIn(l, h) == {l.slot, h.slot} \ {None}
TokensIn(l, x, h) ==
    l.tokens + CASE x = "yielding" -> h.tokens
                 [] x = "reclaimed" -> h.want
                 [] x = "took" /\ h.slot # None -> h.tokens
                 [] OTHER -> 0
ParkedIn(l) == l.parked \/ l.returning = "parked"
Reclaimable(l) == IF ParkedIn(l) THEN l.tokens ELSE 0
One(b) == IF b THEN 1 ELSE 0

Bare(l) == l.slot = None /\ l.tokens = 0 /\ ~l.parked /\ ~l.budgeted /\ l.returning = "no"

(* What a request has at which position.                                    *)
Fields(l, x, h) ==
    /\ x \in {"away", "queued"} => Bare(l) /\ ~l.released
    /\ x = "granted" => ~l.parked /\ ~l.released /\ ~l.budgeted /\ l.returning = "no"
    /\ x = "gone" /\ l.returning = "no" => Bare(l)
    /\ l.budgeted => l.parked /\ x \in {"parked", "erasing", "unwatched"}
    /\ l.parked => ~l.released /\ x \in {"parked", "erasing", "unwatched", "resuming", "took"}
    /\ l.returning # "no" => l.released
    /\ l.released => l.returning # "no" \/ Bare(l)
    /\ x \in {"parked", "erasing", "unwatched", "resuming", "took", "leaving"} => l.slot = None
    /\ x \in {"resuming", "took"} /\ ~l.released => l.parked
    /\ x \in {"yielding", "waiting", "reclaimed"} => l.tokens = 0
    /\ x # "took" => h.slot = None
    /\ l.returning = "parked" =>
            l.slot = None /\ x \in {"parked", "erasing", "unwatched", "resuming", "took", "gone"}

(* The books of the queue, for the leases l, positions p and hands h.       *)
SlotBook(free, inUse, capacity, l, h) ==
    /\ inUse = UNION {HeldIn(l[c], h[c]) : c \in Clients}
    /\ \A c, d \in Clients : c # d => HeldIn(l[c], h[c]) \cap HeldIn(l[d], h[d]) = {}
    /\ \A c \in Clients : l[c].slot # None => h[c].slot = None
    /\ free = (0..(capacity - 1)) \ inUse
AllTokens(l, p, h) == [c \in Clients |-> TokensIn(l[c], p[c], h[c])]
TokenBook(committed, l, p, h) == committed = SumOf(AllTokens(l, p, h), Clients)
ParkedOf(l) == {c \in Clients : ParkedIn(l[c])}
ParkBook(parked, reclaimable, l) ==
    /\ parked = Cardinality(ParkedOf(l))
    /\ reclaimable = [c \in Clients |-> Reclaimable(l[c])]
BudgetedOf(l) == {c \in Clients : l[c].budgeted}
ShareBook(k, l) == k = Cardinality(BudgetedOf(l))
WaitingOf(p) == {c \in Clients : p[c] = "waiting"}
RepairBook(reparking, p) == reparking = Cardinality(WaitingOf(p))

(* Every request at the position is in the line once, and nobody else is.   *)
InLineOnce(s, p, position) ==
    /\ \A i, j \in 1..Len(s) : s[i] = s[j] => i = j
    /\ \A c \in Clients : p[c] = position <=> \E i \in 1..Len(s) : s[i] = c
Lines(q, p) == InLineOnce(q.waiters, p, "queued") /\ InLineOnce(q.tickets, p, "resuming")

Balanced(q, k, l, p, h) ==
    /\ SlotBook(q.free, q.inUse, q.capacity, l, h)
    /\ TokenBook(q.committed, l, p, h)
    /\ ParkBook(q.parked, q.reclaimable, l)
    /\ ShareBook(k, l)
    /\ RepairBook(q.reparking, p)
Typed(q, l, p, h) ==
    /\ q \in Queue
    /\ l \in [Clients -> Lease]
    /\ p \in [Clients -> Positions]
    /\ h \in [Clients -> Hand]
Books(q, k, l, p, h) ==
    /\ Typed(q, l, p, h)
    /\ Balanced(q, k, l, p, h)
    /\ Lines(q, p)
    /\ \A c \in Clients : Fields(l[c], p[c], h[c])

-----------------------------------------------------------------------------
(* One request moves: each book changes by what the request has more or     *)
(* less of.                                                                 *)
LEMMA TokensNat ==
    ASSUME NEW l \in Lease, NEW x, NEW h \in Hand
    PROVE  TokensIn(l, x, h) \in Nat
BY DEF TokensIn, Lease, Hand

(* The committed tokens change by what one request has more or less of.     *)
LEMMA TokensMove ==
    ASSUME NEW n, NEW l, NEW p, NEW h, NEW l2, NEW p2, NEW h2,
           l \in [Clients -> Lease], l2 \in [Clients -> Lease],
           h \in [Clients -> Hand], h2 \in [Clients -> Hand],
           NEW c \in Clients, \A d \in Clients \ {c} : l2[d] = l[d] /\ p2[d] = p[d] /\ h2[d] = h[d],
           TokenBook(n, l, p, h)
    PROVE  /\ n \in Nat /\ TokensIn(l[c], p[c], h[c]) <= n
           /\ TokenBook(n - TokensIn(l[c], p[c], h[c]) + TokensIn(l2[c], p2[c], h2[c]), l2, p2, h2)
<1> DEFINE f == AllTokens(l, p, h)
           g == AllTokens(l2, p2, h2)
<1>1. Amounts(f, Clients) /\ g[c] \in Nat /\ \A d \in Clients \ {c} : g[d] = f[d]
  BY TokensNat DEF AllTokens, Amounts
<1>2. f[c] = TokensIn(l[c], p[c], h[c]) /\ g[c] = TokensIn(l2[c], p2[c], h2[c])
  BY DEF AllTokens
<1>3. n = SumOf(f, Clients)
  BY DEF TokenBook
<1> HIDE DEF f, g
<1>4. /\ f[c] <= SumOf(f, Clients)
      /\ SumOf(g, Clients) = SumOf(f, Clients) - f[c] + g[c]
  BY <1>1, ClientsAssumption, SumChanges
<1>5. SumOf(f, Clients) \in Nat
  BY <1>1, ClientsAssumption, SumIsNat
<1>6. SumOf(g, Clients) = n - TokensIn(l[c], p[c], h[c]) + TokensIn(l2[c], p2[c], h2[c])
  BY <1>2, <1>3, <1>4
<1>7. QED
  BY <1>2, <1>3, <1>4, <1>5, <1>6 DEF TokenBook, g

(* The members of a finite set are counted one by one.                      *)
LEMMA CountMoves ==
    ASSUME NEW S, IsFiniteSet(S), NEW T, NEW c, T \ {c} = S \ {c}
    PROVE  /\ Cardinality(T) = Cardinality(S) - One(c \in S) + One(c \in T)
           /\ Cardinality(S) \in Nat /\ One(c \in S) <= Cardinality(S)
<1>1. /\ IsFiniteSet(S \ {c})
      /\ Cardinality(S \ {c}) = IF c \in S THEN Cardinality(S) - 1 ELSE Cardinality(S)
  BY FS_RemoveElement
<1>2. Cardinality(S) \in Nat /\ Cardinality(S \ {c}) \in Nat
  BY <1>1, FS_CardinalityType
<1>3. Cardinality(S \ {c}) = Cardinality(S) - One(c \in S) /\ One(c \in S) <= Cardinality(S)
  BY <1>1, <1>2 DEF One
<1>4. Cardinality(T) = Cardinality(S \ {c}) + One(c \in T)
  <2>1. CASE c \in T
    <3>1. T = (S \ {c}) \cup {c}
      BY <2>1
    <3>2. Cardinality((S \ {c}) \cup {c}) = Cardinality(S \ {c}) + 1
      BY <1>1, FS_AddElement
    <3>3. QED
      BY <2>1, <3>1, <3>2 DEF One
  <2>2. CASE c \notin T
    <3>1. T = S \ {c} /\ One(c \in T) = 0
      BY <2>2 DEF One
    <3>2. QED
      BY <1>2, <3>1
  <2>3. QED
    BY <2>1, <2>2
<1>5. QED
  BY <1>2, <1>3, <1>4

(* A set in which c alone may change.                                       *)
LEMMA ClientsCounted ==
    ASSUME NEW S, S \subseteq Clients, NEW T, NEW c, T \ {c} = S \ {c}
    PROVE  /\ Cardinality(T) = Cardinality(S) - One(c \in S) + One(c \in T)
           /\ Cardinality(S) \in Nat /\ One(c \in S) <= Cardinality(S)
<1>1. IsFiniteSet(S)
  BY ClientsAssumption, FS_Subset
<1>2. QED
  BY <1>1, CountMoves

(* The slots in use change by what one request holds more or less of.       *)
LEMMA SlotsMove ==
    ASSUME NEW free, NEW inUse, NEW capacity, NEW free2, NEW inUse2, NEW capacity2,
           NEW l, NEW h, NEW l2, NEW h2, NEW c \in Clients,
           \A d \in Clients \ {c} : l2[d] = l[d] /\ h2[d] = h[d],
           SlotBook(free, inUse, capacity, l, h),
           inUse2 = (inUse \ HeldIn(l[c], h[c])) \cup HeldIn(l2[c], h2[c]),
           (HeldIn(l2[c], h2[c]) \ HeldIn(l[c], h[c])) \cap inUse = {},
           l2[c].slot # None => h2[c].slot = None,
           free2 = (0..(capacity2 - 1)) \ inUse2
    PROVE  SlotBook(free2, inUse2, capacity2, l2, h2)
<1> DEFINE H(d) == HeldIn(l[d], h[d])
           G(d) == HeldIn(l2[d], h2[d])
<1>1. /\ inUse = UNION {H(d) : d \in Clients}
      /\ \A d, e \in Clients : d # e => H(d) \cap H(e) = {}
  BY DEF SlotBook
<1>2. \A d \in Clients \ {c} : G(d) = H(d)
  OBVIOUS
<1>3. inUse2 = (inUse \ H(c)) \cup G(c) /\ (G(c) \ H(c)) \cap inUse = {}
  OBVIOUS
<1>4. \A d \in Clients : l2[d].slot # None => h2[d].slot = None
  BY DEF SlotBook
<1> HIDE DEF H, G
<1>5. inUse2 = UNION {G(d) : d \in Clients}
  <2>1. ASSUME NEW s PROVE s \in inUse2 <=> \E d \in Clients : s \in G(d)
    <3>1. s \in inUse <=> \E d \in Clients : s \in H(d)
      BY <1>1
    <3>2. QED
      BY <1>1, <1>2, <1>3, <3>1
  <2>2. QED
    BY <2>1
<1>6. ASSUME NEW d \in Clients, NEW e \in Clients, d # e
      PROVE  G(d) \cap G(e) = {}
  <2>1. \A x \in Clients : H(x) \subseteq inUse
    BY <1>1
  <2>2. CASE d = c
    BY <1>1, <1>2, <1>3, <1>6, <2>1, <2>2
  <2>3. CASE e = c
    BY <1>1, <1>2, <1>3, <1>6, <2>1, <2>3
  <2>4. CASE d # c /\ e # c
    BY <1>1, <1>2, <1>6, <2>4
  <2>5. QED
    BY <2>2, <2>3, <2>4
<1>7. QED
  BY <1>4, <1>5, <1>6 DEF SlotBook, G

(* Every book changes as the one request's contribution does.               *)
LEMMA Moves ==
    ASSUME NEW q, NEW k, NEW l, NEW p, NEW h, NEW q2, NEW k2, NEW l2, NEW p2, NEW h2,
           Typed(q, l, p, h), Typed(q2, l2, p2, h2),
           Balanced(q, k, l, p, h),
           NEW c \in Clients, \A d \in Clients \ {c} : l2[d] = l[d] /\ p2[d] = p[d] /\ h2[d] = h[d],
           q2.inUse = (q.inUse \ HeldIn(l[c], h[c])) \cup HeldIn(l2[c], h2[c]),
           (HeldIn(l2[c], h2[c]) \ HeldIn(l[c], h[c])) \cap q.inUse = {},
           l2[c].slot # None => h2[c].slot = None,
           q2.free = (0..(q2.capacity - 1)) \ q2.inUse,
           q2.committed = q.committed - TokensIn(l[c], p[c], h[c]) + TokensIn(l2[c], p2[c], h2[c]),
           q2.parked = q.parked - One(ParkedIn(l[c])) + One(ParkedIn(l2[c])),
           q2.reclaimable = [q.reclaimable EXCEPT ![c] = Reclaimable(l2[c])],
           k2 = k - One(l[c].budgeted) + One(l2[c].budgeted),
           q2.reparking = q.reparking - One(p[c] = "waiting") + One(p2[c] = "waiting")
    PROVE  Balanced(q2, k2, l2, p2, h2)
<1>1. SlotBook(q2.free, q2.inUse, q2.capacity, l2, h2)
  <2>1. SlotBook(q.free, q.inUse, q.capacity, l, h)
    BY DEF Balanced
  <2>2. \A d \in Clients \ {c} : l2[d] = l[d] /\ h2[d] = h[d]
    OBVIOUS
  <2>3. QED
    BY ONLY <2>1, <2>2, SlotsMove, c \in Clients,
       q2.inUse = (q.inUse \ HeldIn(l[c], h[c])) \cup HeldIn(l2[c], h2[c]),
       (HeldIn(l2[c], h2[c]) \ HeldIn(l[c], h[c])) \cap q.inUse = {},
       l2[c].slot # None => h2[c].slot = None,
       q2.free = (0..(q2.capacity - 1)) \ q2.inUse
<1>2. TokenBook(q2.committed, l2, p2, h2)
  <2>1. TokenBook(q.committed, l, p, h)
    BY DEF Balanced
  <2>2. QED
    <3>1. /\ l \in [Clients -> Lease] /\ l2 \in [Clients -> Lease]
          /\ h \in [Clients -> Hand] /\ h2 \in [Clients -> Hand]
      BY DEF Typed
    <3>2. TokenBook(q.committed - TokensIn(l[c], p[c], h[c]) + TokensIn(l2[c], p2[c], h2[c]), l2, p2, h2)
      BY <2>1, <3>1, TokensMove
    <3>3. QED
      BY <3>2
<1>3. ParkBook(q2.parked, q2.reclaimable, l2)
  <2>1. ParkedOf(l) \subseteq Clients /\ ParkedOf(l2) \ {c} = ParkedOf(l) \ {c}
    BY DEF ParkedOf
  <2>2. c \in ParkedOf(l) <=> ParkedIn(l[c])
    BY DEF ParkedOf
  <2>3. c \in ParkedOf(l2) <=> ParkedIn(l2[c])
    BY DEF ParkedOf
  <2>4. One(c \in ParkedOf(l)) = One(ParkedIn(l[c])) /\ One(c \in ParkedOf(l2)) = One(ParkedIn(l2[c]))
    BY <2>2, <2>3 DEF One
  <2>5. Cardinality(ParkedOf(l2)) = Cardinality(ParkedOf(l)) - One(c \in ParkedOf(l)) + One(c \in ParkedOf(l2))
    BY <2>1, ClientsCounted
  <2>6. q.parked = Cardinality(ParkedOf(l)) /\ q.reclaimable = [d \in Clients |-> Reclaimable(l[d])]
    BY DEF Balanced, ParkBook
  <2>7. q2.reclaimable = [d \in Clients |-> Reclaimable(l2[d])]
    BY <2>6
  <2>8. QED
    BY <2>4, <2>5, <2>6, <2>7 DEF ParkBook
<1>4. ShareBook(k2, l2)
  <2>1. BudgetedOf(l) \subseteq Clients /\ BudgetedOf(l2) \ {c} = BudgetedOf(l) \ {c}
    BY DEF BudgetedOf
  <2>2. c \in BudgetedOf(l) <=> l[c].budgeted
    BY DEF BudgetedOf
  <2>3. c \in BudgetedOf(l2) <=> l2[c].budgeted
    BY DEF BudgetedOf
  <2>4. One(c \in BudgetedOf(l)) = One(l[c].budgeted) /\ One(c \in BudgetedOf(l2)) = One(l2[c].budgeted)
    BY <2>2, <2>3 DEF One
  <2>5. Cardinality(BudgetedOf(l2)) = Cardinality(BudgetedOf(l)) - One(c \in BudgetedOf(l)) + One(c \in BudgetedOf(l2))
    BY <2>1, ClientsCounted
  <2>6. QED
    BY <2>4, <2>5 DEF Balanced, ShareBook
<1>5. RepairBook(q2.reparking, p2)
  <2>1. WaitingOf(p) \subseteq Clients /\ WaitingOf(p2) \ {c} = WaitingOf(p) \ {c}
    BY DEF WaitingOf
  <2>2. (c \in WaitingOf(p) <=> p[c] = "waiting") /\ (c \in WaitingOf(p2) <=> p2[c] = "waiting")
    BY DEF WaitingOf
  <2>4. One(c \in WaitingOf(p)) = One(p[c] = "waiting") /\ One(c \in WaitingOf(p2)) = One(p2[c] = "waiting")
    BY <2>2 DEF One
  <2>5. Cardinality(WaitingOf(p2)) = Cardinality(WaitingOf(p)) - One(c \in WaitingOf(p)) + One(c \in WaitingOf(p2))
    BY <2>1, ClientsCounted
  <2>6. QED
    BY <2>4, <2>5 DEF Balanced, RepairBook
<1>6. QED
  BY <1>1, <1>2, <1>3, <1>4, <1>5 DEF Balanced

-----------------------------------------------------------------------------
(* Lines.                                                                   *)
LEMMA RemoveAtProperties ==
    ASSUME NEW S, NEW s \in Seq(S), NEW i \in 1..Len(s)
    PROVE  /\ RemoveAt(s, i) \in Seq(S)
           /\ Len(RemoveAt(s, i)) = Len(s) - 1
           /\ \A j \in 1..(Len(s) - 1) : RemoveAt(s, i)[j] = IF j < i THEN s[j] ELSE s[j + 1]
<1> DEFINE a == SubSeq(s, 1, i - 1)
           b == SubSeq(s, i + 1, Len(s))
<1>1. Len(s) \in Nat /\ \A j \in 1..Len(s) : s[j] \in S
  BY LenProperties, ElementOfSeq
<1>2. a \in Seq(S) /\ Len(a) = i - 1 /\ \A j \in 1..(i - 1) : a[j] = s[j]
  <2>1. \A j \in 1..(i - 1) : s[j] \in S
    BY <1>1
  <2>2. /\ a \in Seq(S) /\ Len(a) = IF 1 <= i - 1 THEN i - 1 - 1 + 1 ELSE 0
        /\ \A j \in 1..(i - 1 - 1 + 1) : a[j] = s[1 + j - 1]
    BY <1>1, <2>1, SubSeqProperties
  <2> HIDE DEF a
  <2>3. QED
    BY <1>1, <2>2
<1>3. b \in Seq(S) /\ Len(b) = Len(s) - i /\ \A j \in 1..(Len(s) - i) : b[j] = s[i + j]
  <2>1. \A j \in (i + 1)..Len(s) : s[j] \in S
    BY <1>1
  <2>2. /\ b \in Seq(S) /\ Len(b) = IF i + 1 <= Len(s) THEN Len(s) - (i + 1) + 1 ELSE 0
        /\ \A j \in 1..(Len(s) - (i + 1) + 1) : b[j] = s[(i + 1) + j - 1]
    BY <1>1, <2>1, SubSeqProperties
  <2> HIDE DEF b
  <2>3. QED
    BY <1>1, <2>2
<1>4. RemoveAt(s, i) = a \o b
  BY DEF RemoveAt
<1> HIDE DEF a, b
<1>5. /\ a \o b \in Seq(S) /\ Len(a \o b) = Len(a) + Len(b)
      /\ \A j \in 1..(Len(a) + Len(b)) : (a \o b)[j] = IF j <= Len(a) THEN a[j] ELSE b[j - Len(a)]
  BY <1>2, <1>3, ConcatProperties
<1>6. Len(s) \in Nat /\ i \in Nat /\ 1 <= i /\ i <= Len(s)
  BY <1>1
<1>7. Len(a \o b) = Len(s) - 1 /\ Len(a) + Len(b) = Len(s) - 1
  BY ONLY <1>2, <1>3, <1>5, <1>6
<1>8. ASSUME NEW j \in 1..(Len(s) - 1) PROVE (a \o b)[j] = IF j < i THEN s[j] ELSE s[j + 1]
  <2>1. (a \o b)[j] = IF j <= Len(a) THEN a[j] ELSE b[j - Len(a)]
    BY <1>5, <1>7
  <2>2. CASE j < i
    BY <1>2, <1>6, <2>1, <2>2
  <2>3. CASE ~(j < i)
    <3>1. j - Len(a) \in 1..(Len(s) - i) /\ i + (j - Len(a)) = j + 1 /\ ~(j <= Len(a))
      BY <1>2, <1>6, <2>3
    <3>2. b[j - Len(a)] = s[i + (j - Len(a))]
      BY <1>3, <3>1
    <3>3. QED
      BY <2>1, <2>3, <3>1, <3>2
  <2>4. QED
    BY <2>2, <2>3
<1>9. QED
  BY <1>4, <1>5, <1>7, <1>8

(* A line stays in order when nobody comes to or leaves its position.       *)
LEMMA LineStays ==
    ASSUME NEW s, NEW p, NEW p2, NEW position, InLineOnce(s, p, position),
           \A d \in Clients : p2[d] = position <=> p[d] = position
    PROVE  InLineOnce(s, p2, position)
BY DEF InLineOnce

(* A line that is joined at its end.                                        *)
LEMMA LineGrows ==
    ASSUME NEW s \in Seq(Clients), NEW p, NEW p2, NEW position, InLineOnce(s, p, position),
           NEW c \in Clients, p[c] # position, p2[c] = position,
           \A d \in Clients \ {c} : p2[d] = p[d]
    PROVE  /\ Append(s, c) \in Seq(Clients)
           /\ InLineOnce(Append(s, c), p2, position)
<1> DEFINE t == Append(s, c)
<1>1. /\ t \in Seq(Clients) /\ Len(t) = Len(s) + 1 /\ Len(s) \in Nat
      /\ \A i \in 1..Len(s) : t[i] = s[i]
      /\ t[Len(s) + 1] = c
  BY AppendProperties, LenProperties
<1> HIDE DEF t
<1>2. \A i \in 1..Len(s) : s[i] # c
  BY DEF InLineOnce
<1>3. ASSUME NEW i \in 1..Len(t), NEW j \in 1..Len(t), t[i] = t[j] PROVE i = j
  <2>1. (i \in 1..Len(s) \/ i = Len(s) + 1) /\ (j \in 1..Len(s) \/ j = Len(s) + 1)
    BY <1>1
  <2>2. QED
    BY <1>1, <1>2, <1>3, <2>1 DEF InLineOnce
<1>4. ASSUME NEW d \in Clients PROVE p2[d] = position <=> \E i \in 1..Len(t) : t[i] = d
  <2>1. \A i : i \in 1..Len(t) <=> i \in 1..Len(s) \/ i = Len(s) + 1
    BY <1>1
  <2>2. (\E i \in 1..Len(t) : t[i] = d) <=> (\E i \in 1..Len(s) : s[i] = d) \/ d = c
    BY <1>1, <2>1
  <2>3. QED
    BY <2>2 DEF InLineOnce
<1>5. QED
  BY <1>1, <1>3, <1>4 DEF InLineOnce, t

(* A line that one leaves, wherever it stands.                              *)
LEMMA LineLeft ==
    ASSUME NEW s \in Seq(Clients), NEW p, NEW p2, NEW position, InLineOnce(s, p, position),
           NEW i \in 1..Len(s), p2[s[i]] # position,
           \A d \in Clients \ {s[i]} : p2[d] = p[d]
    PROVE  /\ RemoveAt(s, i) \in Seq(Clients)
           /\ InLineOnce(RemoveAt(s, i), p2, position)
<1> DEFINE t == RemoveAt(s, i)
           from(j) == IF j < i THEN j ELSE j + 1
<1>1. /\ t \in Seq(Clients) /\ Len(t) = Len(s) - 1 /\ Len(s) \in Nat
      /\ \A j \in 1..(Len(s) - 1) : t[j] = IF j < i THEN s[j] ELSE s[j + 1]
  BY RemoveAtProperties, LenProperties
<1> HIDE DEF t
<1>2. \A j \in 1..Len(t) : from(j) \in 1..Len(s) /\ from(j) # i /\ t[j] = s[from(j)]
  BY <1>1
<1>3. \A j, m \in 1..Len(t) : from(j) = from(m) => j = m
  BY <1>1
<1>4. \A m \in 1..Len(s) : m # i => \E j \in 1..Len(t) : from(j) = m
  <2>1. ASSUME NEW m \in 1..Len(s), m # i PROVE \E j \in 1..Len(t) : from(j) = m
    <3> DEFINE j == IF m < i THEN m ELSE m - 1
    <3>1. j \in 1..Len(t) /\ from(j) = m
      BY <1>1, <2>1
    <3>2. QED
      BY <3>1
  <2>2. QED
    BY <2>1
<1> HIDE DEF from
<1>5. ASSUME NEW j \in 1..Len(t), NEW m \in 1..Len(t), t[j] = t[m] PROVE j = m
  <2>1. from(j) \in 1..Len(s) /\ from(m) \in 1..Len(s) /\ s[from(j)] = s[from(m)]
    BY <1>2, <1>5
  <2>2. from(j) = from(m)
    BY <2>1 DEF InLineOnce
  <2>3. QED
    BY <1>3, <2>2
<1>6. ASSUME NEW d \in Clients PROVE p2[d] = position <=> \E j \in 1..Len(t) : t[j] = d
  <2>1. CASE d = s[i]
    BY <1>2, <2>1 DEF InLineOnce
  <2>2. CASE d # s[i]
    <3>1. p[d] = position <=> \E m \in 1..Len(s) : s[m] = d
      BY DEF InLineOnce
    <3>2. ASSUME NEW m \in 1..Len(s), s[m] = d PROVE \E j \in 1..Len(t) : t[j] = d
      <4>1. PICK j \in 1..Len(t) : from(j) = m
        BY <1>4, <2>2, <3>2
      <4>2. QED
        BY <1>2, <3>2, <4>1
    <3>3. ASSUME NEW j \in 1..Len(t), t[j] = d PROVE \E m \in 1..Len(s) : s[m] = d
      BY <1>2, <3>3
    <3>4. QED
      BY <2>2, <3>1, <3>2, <3>3
  <2>3. QED
    BY <2>1, <2>2
<1>7. QED
  BY <1>1, <1>5, <1>6 DEF InLineOnce, t

(* A line of which the first n leave.                                       *)
LEMMA LineServed ==
    ASSUME NEW s \in Seq(Clients), NEW p, NEW p2, NEW position, InLineOnce(s, p, position),
           NEW n \in 0..Len(s), \A i \in 1..n : p2[s[i]] # position,
           \A d \in Clients : d \notin {s[i] : i \in 1..n} => p2[d] = p[d]
    PROVE  /\ SubSeq(s, n + 1, Len(s)) \in Seq(Clients)
           /\ InLineOnce(SubSeq(s, n + 1, Len(s)), p2, position)
<1> DEFINE t == SubSeq(s, n + 1, Len(s))
<1>1. Len(s) \in Nat /\ \A j \in 1..Len(s) : s[j] \in Clients
  BY LenProperties, ElementOfSeq
<1>2. t \in Seq(Clients) /\ Len(t) = Len(s) - n /\ \A j \in 1..(Len(s) - n) : t[j] = s[n + j]
  <2>1. \A j \in (n + 1)..Len(s) : s[j] \in Clients
    BY <1>1
  <2>2. /\ t \in Seq(Clients) /\ Len(t) = IF n + 1 <= Len(s) THEN Len(s) - (n + 1) + 1 ELSE 0
        /\ \A j \in 1..(Len(s) - (n + 1) + 1) : t[j] = s[(n + 1) + j - 1]
    BY <1>1, <2>1, SubSeqProperties
  <2> HIDE DEF t
  <2>3. QED
    BY <1>1, <2>2
<1> HIDE DEF t
<1>3. ASSUME NEW j \in 1..Len(t), NEW m \in 1..Len(t), t[j] = t[m] PROVE j = m
  <2>1. n + j \in 1..Len(s) /\ n + m \in 1..Len(s) /\ s[n + j] = s[n + m]
    BY <1>1, <1>2, <1>3
  <2>2. n + j = n + m
    BY <2>1 DEF InLineOnce
  <2>3. QED
    BY <1>1, <1>2, <2>2
<1>4. ASSUME NEW d \in Clients PROVE p2[d] = position <=> \E j \in 1..Len(t) : t[j] = d
  <2>1. CASE d \in {s[i] : i \in 1..n}
    <3>1. PICK i \in 1..n : d = s[i]
      BY <2>1
    <3>2. ASSUME NEW j \in 1..Len(t), t[j] = d PROVE FALSE
      <4>1. n + j \in 1..Len(s) /\ i \in 1..Len(s) /\ s[n + j] = s[i] /\ n + j # i
        BY <1>1, <1>2, <3>1, <3>2
      <4>2. QED
        BY <4>1 DEF InLineOnce
    <3>3. QED
      BY <3>1, <3>2
  <2>2. CASE d \notin {s[i] : i \in 1..n}
    <3>1. p[d] = position <=> \E m \in 1..Len(s) : s[m] = d
      BY DEF InLineOnce
    <3>2. ASSUME NEW m \in 1..Len(s), s[m] = d PROVE \E j \in 1..Len(t) : t[j] = d
      <4>1. m \notin 1..n
        BY <2>2, <3>2
      <4>2. m - n \in 1..Len(t) /\ t[m - n] = s[n + (m - n)] /\ n + (m - n) = m
        BY <1>1, <1>2, <4>1
      <4>3. QED
        BY <3>2, <4>2
    <3>3. ASSUME NEW j \in 1..Len(t), t[j] = d PROVE \E m \in 1..Len(s) : s[m] = d
      <4>1. n + j \in 1..Len(s) /\ s[n + j] = d
        BY <1>1, <1>2, <3>3
      <4>2. QED
        BY <4>1
    <3>4. QED
      BY <2>2, <3>1, <3>2, <3>3
  <2>3. QED
    BY <2>1, <2>2
<1>5. QED
  BY <1>2, <1>3, <1>4 DEF InLineOnce, t

-----------------------------------------------------------------------------
(* _grant_waiters_locked                                                    *)
LEMMA FirstCounted ==
    ASSUME NEW q \in Queue, NEW p, InLineOnce(q.waiters, p, "queued"), NEW n \in 0..Len(q.waiters)
    PROVE  /\ First(q, n) \subseteq Clients /\ IsFiniteSet(First(q, n))
           /\ Cardinality(First(q, n)) = n
           /\ \A c \in First(q, n) : p[c] = "queued"
<1> DEFINE f == [i \in 1..n |-> q.waiters[i]]
<1>1. q.waiters \in Seq(Clients)
  BY DEF Queue
<1>2. Len(q.waiters) \in Nat /\ \A i \in 1..Len(q.waiters) : q.waiters[i] \in Clients
  BY <1>1, LenProperties, ElementOfSeq
<1>3. First(q, n) \subseteq Clients
  BY <1>2 DEF First
<1>4. IsFiniteSet(First(q, n))
  BY <1>3, ClientsAssumption, FS_Subset
<1>5. f \in Bijection(1..n, First(q, n))
  <2>1. f \in [1..n -> First(q, n)] /\ \A i, j \in 1..n : f[i] = f[j] => i = j
    BY <1>2 DEF First, InLineOnce
  <2>2. \A x \in First(q, n) : \E i \in 1..n : f[i] = x
    BY DEF First
  <2> HIDE DEF f
  <2>3. QED
    BY <2>1, <2>2, Fun_IsInj, Fun_IsSurj DEF Bijection
<1>6. Cardinality(First(q, n)) = n
  <2>1. ExistsBijection(1..n, First(q, n))
    BY <1>5 DEF ExistsBijection
  <2>2. QED
    BY <1>2, <2>1, FS_CountingElements
<1>7. \A c \in First(q, n) : p[c] = "queued"
  BY <1>2 DEF First, InLineOnce
<1>8. QED
  BY <1>3, <1>4, <1>6, <1>7

(* What a grant changes in a request: from nothing to a lease.              *)
GrantedLease(l, l2, p, p2, slots) ==
    /\ l2 = [c \in Clients |-> IF c \in DOMAIN slots THEN NewLease(slots[c], Cost[c]) ELSE l[c]]
    /\ p2 = [c \in Clients |-> IF c \in DOMAIN slots THEN "granted" ELSE p[c]]

(* What a lease is when it is granted.                                      *)
LEMMA NewLeaseFacts ==
    ASSUME NEW slot \in Slots, NEW tokens \in Nat
    PROVE  /\ NewLease(slot, tokens) \in Lease
           /\ NewLease(slot, tokens).slot = slot /\ NewLease(slot, tokens).tokens = tokens
           /\ ~NewLease(slot, tokens).parked /\ ~NewLease(slot, tokens).budgeted
           /\ ~NewLease(slot, tokens).released /\ NewLease(slot, tokens).returning = "no"
BY DEF NewLease, NoLease, Lease

(* A grant moves the first n of the line, each with a free slot of its own. *)
LEMMA GrantMoves ==
    ASSUME NEW q, NEW k, NEW l, NEW p, NEW h, NEW n, NEW slots, NEW l2, NEW p2,
           Books(q, k, l, p, h), n \in Grants(q), slots \in Injection(First(q, n), q.free),
           GrantedLease(l, l2, p, p2, slots)
    PROVE  /\ n \in 0..Len(q.waiters) /\ DOMAIN slots = First(q, n) /\ First(q, n) \subseteq Clients
           /\ q.free \subseteq Slots /\ None \notin q.free
           /\ \A c, d \in First(q, n) : slots[c] = slots[d] => c = d
           /\ \A c \in First(q, n) :
                /\ p[c] = "queued" /\ Bare(l[c]) /\ h[c].slot = None
                /\ slots[c] \in q.free /\ p2[c] = "granted"
                /\ l2[c] \in Lease /\ l2[c].slot = slots[c] /\ l2[c].tokens = Cost[c]
                /\ ~l2[c].parked /\ ~l2[c].budgeted /\ ~l2[c].released /\ l2[c].returning = "no"
           /\ \A c \in Clients \ First(q, n) : l2[c] = l[c] /\ p2[c] = p[c]
<1>1. q \in Queue /\ InLineOnce(q.waiters, p, "queued")
  BY DEF Books, Typed, Lines
<1>2. n \in 0..Len(q.waiters)
  BY DEF Grants
<1>3. First(q, n) \subseteq Clients /\ \A c \in First(q, n) : p[c] = "queued"
  BY <1>1, <1>2, FirstCounted
<1>4. slots \in [First(q, n) -> q.free] /\ DOMAIN slots = First(q, n)
      /\ \A c, d \in First(q, n) : slots[c] = slots[d] => c = d
  BY Fun_InjectionProperties
<1>5. q.free \subseteq Slots /\ None \notin q.free
  <2>1. q.free \subseteq Slots
    BY <1>1 DEF Queue
  <2>2. \A x \in Slots : x \in Nat
    BY DEF Slots
  <2>3. QED
    BY <2>1, <2>2, NoneAssumption
<1>6. \A c \in First(q, n) : Bare(l[c]) /\ h[c].slot = None
  BY <1>3 DEF Books, Fields
<1>7. \A c \in First(q, n) : slots[c] \in q.free /\ slots[c] \in Slots /\ Cost[c] \in Nat
  BY <1>3, <1>4, <1>5, TokensAssumption
<1>8. \A c \in First(q, n) : l2[c] = NewLease(slots[c], Cost[c]) /\ p2[c] = "granted"
  BY <1>3, <1>4 DEF GrantedLease
<1>9. \A c \in First(q, n) :
        /\ l2[c] \in Lease /\ l2[c].slot = slots[c] /\ l2[c].tokens = Cost[c]
        /\ ~l2[c].parked /\ ~l2[c].budgeted /\ ~l2[c].released /\ l2[c].returning = "no"
  BY <1>7, <1>8, NewLeaseFacts
<1>10. \A c \in Clients \ First(q, n) : l2[c] = l[c] /\ p2[c] = p[c]
  BY <1>4 DEF GrantedLease
<1>11. QED
  BY <1>2, <1>3, <1>4, <1>5, <1>6, <1>7, <1>8, <1>9, <1>10

(* A grant keeps the books.                                                 *)
LEMMA GrantKeepsSlots ==
    ASSUME NEW free, NEW inUse, NEW capacity, NEW l, NEW h, NEW l2, NEW D, D \subseteq Clients, NEW slots,
           SlotBook(free, inUse, capacity, l, h), None \notin free,
           \A c, d \in D : slots[c] = slots[d] => c = d,
           \A c \in D : /\ l[c].slot = None /\ h[c].slot = None
                        /\ slots[c] \in free /\ l2[c].slot = slots[c],
           \A c \in Clients \ D : l2[c] = l[c]
    PROVE  SlotBook(free \ {slots[c] : c \in D}, inUse \cup {slots[c] : c \in D}, capacity, l2, h)
<1> DEFINE H(d) == HeldIn(l[d], h[d])
           G(d) == HeldIn(l2[d], h[d])
<1>1. /\ inUse = UNION {H(d) : d \in Clients}
      /\ \A d, e \in Clients : d # e => H(d) \cap H(e) = {}
      /\ free = (0..(capacity - 1)) \ inUse
  BY DEF SlotBook
<1>2. \A d \in Clients \ D : G(d) = H(d)
  OBVIOUS
<1>3. \A d \in D : H(d) = {} /\ G(d) = {slots[d]} /\ slots[d] \notin inUse
  BY <1>1 DEF HeldIn
<1>4. \A d \in Clients : l2[d].slot # None => h[d].slot = None
  BY DEF SlotBook
<1> HIDE DEF H, G
<1>5. inUse \cup {slots[c] : c \in D} = UNION {G(d) : d \in Clients}
  <2>1. ASSUME NEW s PROVE s \in inUse \cup {slots[c] : c \in D} <=> \E d \in Clients : s \in G(d)
    <3>1. s \in inUse <=> \E d \in Clients \ D : s \in H(d)
      BY <1>1, <1>3
    <3>2. s \in {slots[c] : c \in D} <=> \E d \in D : s \in G(d)
      BY <1>3
    <3>3. QED
      BY <1>2, <3>1, <3>2
  <2>2. QED
    BY <2>1
<1>6. ASSUME NEW d \in Clients, NEW e \in Clients, d # e
      PROVE  G(d) \cap G(e) = {}
  <2>1. \A x \in Clients : H(x) \subseteq inUse
    BY <1>1
  <2>2. CASE d \in D /\ e \in D
    BY <1>3, <1>6, <2>2
  <2>3. CASE d \in D /\ e \notin D
    BY <1>2, <1>3, <2>1, <2>3
  <2>4. CASE d \notin D /\ e \in D
    BY <1>2, <1>3, <2>1, <2>4
  <2>5. CASE d \notin D /\ e \notin D
    BY <1>1, <1>2, <1>6, <2>5
  <2>6. QED
    BY <2>2, <2>3, <2>4, <2>5
<1>7. free \ {slots[c] : c \in D} = (0..(capacity - 1)) \ (inUse \cup {slots[c] : c \in D})
  BY <1>1
<1>8. QED
  BY <1>4, <1>5, <1>6, <1>7 DEF SlotBook, G

(* What the record of the queue holds after a grant.                        *)
LEMMA GrantedFields ==
    ASSUME NEW q \in Queue, NEW slots, NEW D, DOMAIN slots = D,
           {slots[c] : c \in D} \subseteq Slots, SumOf(Cost, D) \in Nat,
           SubSeq(q.waiters, Cardinality(D) + 1, Len(q.waiters)) \in Seq(Clients)
    PROVE  /\ Granted(q, slots) \in Queue
           /\ Granted(q, slots).free = q.free \ {slots[c] : c \in D}
           /\ Granted(q, slots).inUse = q.inUse \cup {slots[c] : c \in D}
           /\ Granted(q, slots).committed = q.committed + SumOf(Cost, D)
           /\ Granted(q, slots).waiters = SubSeq(q.waiters, Cardinality(D) + 1, Len(q.waiters))
           /\ Granted(q, slots).capacity = q.capacity
           /\ Granted(q, slots).tickets = q.tickets
           /\ Granted(q, slots).lapsed = q.lapsed
           /\ Granted(q, slots).parked = q.parked
           /\ Granted(q, slots).reclaimable = q.reclaimable
           /\ Granted(q, slots).reparking = q.reparking
<1> DEFINE F == q.free \ {slots[c] : c \in D}
           I == q.inUse \cup {slots[c] : c \in D}
           m == q.committed + SumOf(Cost, D)
           w == SubSeq(q.waiters, Cardinality(D) + 1, Len(q.waiters))
<1>1. Granted(q, slots) = [q EXCEPT !.free = F, !.inUse = I, !.committed = m, !.waiters = w]
  BY DEF Granted, Queue
<1>2. F \in SUBSET Slots /\ I \in SUBSET Slots /\ m \in Nat /\ w \in Seq(Clients)
  BY DEF Queue
<1> HIDE DEF F, I, m, w
<1>3. QED
  BY <1>1, <1>2 DEF Queue, F, I, m, w

(* Grants keep the books.                                                   *)
LEMMA GrantKeeps ==
    ASSUME NEW q, NEW k, NEW l, NEW p, NEW h, NEW n, NEW slots, NEW l2, NEW p2,
           Books(q, k, l, p, h), n \in Grants(q), slots \in Injection(First(q, n), q.free),
           GrantedLease(l, l2, p, p2, slots)
    PROVE  Books(Granted(q, slots), k, l2, p2, h)
<1> DEFINE D == First(q, n)
           r == Granted(q, slots)
<1>1. /\ n \in 0..Len(q.waiters) /\ DOMAIN slots = D /\ D \subseteq Clients
      /\ q.free \subseteq Slots /\ None \notin q.free
      /\ \A c, d \in D : slots[c] = slots[d] => c = d
      /\ \A c \in D :
            /\ p[c] = "queued" /\ Bare(l[c]) /\ h[c].slot = None
            /\ slots[c] \in q.free /\ p2[c] = "granted"
            /\ l2[c] \in Lease /\ l2[c].slot = slots[c] /\ l2[c].tokens = Cost[c]
            /\ ~l2[c].parked /\ ~l2[c].budgeted /\ ~l2[c].released /\ l2[c].returning = "no"
      /\ \A c \in Clients \ D : l2[c] = l[c] /\ p2[c] = p[c]
  BY GrantMoves
<1>2. /\ q \in Queue /\ l \in [Clients -> Lease] /\ p \in [Clients -> Positions] /\ h \in [Clients -> Hand]
      /\ q.waiters \in Seq(Clients)
  BY DEF Books, Typed, Queue
<1>3. /\ SlotBook(q.free, q.inUse, q.capacity, l, h)
      /\ TokenBook(q.committed, l, p, h)
      /\ ParkBook(q.parked, q.reclaimable, l)
      /\ ShareBook(k, l)
      /\ RepairBook(q.reparking, p)
      /\ InLineOnce(q.waiters, p, "queued") /\ InLineOnce(q.tickets, p, "resuming")
      /\ \A c \in Clients : Fields(l[c], p[c], h[c])
  BY DEF Books, Balanced, Lines
<1>4. IsFiniteSet(D) /\ Cardinality(D) = n
  BY <1>1, <1>2, <1>3, FirstCounted
<1>5. D = {q.waiters[i] : i \in 1..n}
  BY DEF First
<1>6. /\ l2 \in [Clients -> Lease] /\ p2 \in [Clients -> Positions]
  <2>1. DOMAIN l2 = Clients /\ DOMAIN p2 = Clients /\ "granted" \in Positions
    BY DEF GrantedLease, Positions
  <2>2. \A c \in Clients : l2[c] \in Lease /\ p2[c] \in Positions
    BY <1>1, <1>2, <2>1
  <2>3. l2 = [c \in Clients |-> l2[c]] /\ p2 = [c \in Clients |-> p2[c]]
    BY DEF GrantedLease
  <2>4. QED
    BY <2>2, <2>3
<1> HIDE DEF D
<1>7. Amounts(Cost, D) /\ SumOf(Cost, D) \in Nat
  BY <1>1, <1>4, TokensAssumption, SumIsNat DEF Amounts
<1>8. SubSeq(q.waiters, n + 1, Len(q.waiters)) \in Seq(Clients)
      /\ InLineOnce(SubSeq(q.waiters, n + 1, Len(q.waiters)), p2, "queued")
  <2>1. \A i \in 1..n : p2[q.waiters[i]] # "queued"
    BY <1>1, <1>5
  <2>2. \A d \in Clients : d \notin {q.waiters[i] : i \in 1..n} => p2[d] = p[d]
    BY <1>1, <1>5
  <2>3. n \in 0..Len(q.waiters) /\ q.waiters \in Seq(Clients) /\ InLineOnce(q.waiters, p, "queued")
    BY <1>1, <1>2, <1>3
  <2>4. QED
    BY ONLY <2>1, <2>2, <2>3, LineServed
<1>9. InLineOnce(q.tickets, p2, "resuming")
  <2>1. \A d \in Clients : p2[d] = "resuming" <=> p[d] = "resuming"
    BY <1>1
  <2>2. QED
    BY <1>3, <2>1, LineStays
<1>10. {slots[c] : c \in D} \subseteq Slots
  BY <1>1
<1>11. /\ r \in Queue
       /\ r.free = q.free \ {slots[c] : c \in D}
       /\ r.inUse = q.inUse \cup {slots[c] : c \in D}
       /\ r.committed = q.committed + SumOf(Cost, D)
       /\ r.waiters = SubSeq(q.waiters, n + 1, Len(q.waiters))
       /\ r.capacity = q.capacity /\ r.tickets = q.tickets
       /\ r.parked = q.parked /\ r.reclaimable = q.reclaimable /\ r.reparking = q.reparking
  <2>1. DOMAIN slots = D /\ q \in Queue /\ Cardinality(D) = n
    BY <1>1, <1>2, <1>4
  <2>2. SubSeq(q.waiters, Cardinality(D) + 1, Len(q.waiters)) \in Seq(Clients)
    BY <1>4, <1>8
  <2>3. QED
    BY <1>7, <1>10, <2>1, <2>2, GrantedFields
<1> HIDE DEF r
<1>12. SlotBook(r.free, r.inUse, r.capacity, l2, h)
  <2>1. \A c \in D : /\ l[c].slot = None /\ h[c].slot = None
                     /\ slots[c] \in q.free /\ l2[c].slot = slots[c]
    BY <1>1 DEF Bare
  <2>2. \A c \in Clients \ D : l2[c] = l[c]
    BY <1>1
  <2>3. SlotBook(q.free \ {slots[c] : c \in D}, q.inUse \cup {slots[c] : c \in D}, q.capacity, l2, h)
    BY <1>1, <1>3, <2>1, <2>2, GrantKeepsSlots
  <2>4. QED
    BY <1>11, <2>3
<1>13. TokenBook(r.committed, l2, p2, h)
  <2> DEFINE f == AllTokens(l, p, h)
             g == AllTokens(l2, p2, h)
  <2>1. Amounts(f, Clients)
    BY <1>2, TokensNat DEF AllTokens, Amounts
  <2>2. \A d \in Clients \ D : g[d] = f[d]
    BY <1>1 DEF AllTokens
  <2>3. \A d \in D : f[d] = 0 /\ g[d] = Cost[d]
    <3>1. ASSUME NEW d \in D PROVE f[d] = 0 /\ g[d] = Cost[d]
      <4>1. f[d] = TokensIn(l[d], p[d], h[d]) /\ g[d] = TokensIn(l2[d], p2[d], h[d])
        BY <1>1 DEF AllTokens
      <4>2. l[d].tokens = 0 /\ p[d] = "queued" /\ p2[d] = "granted" /\ l2[d].tokens = Cost[d] /\ Cost[d] \in Nat
        BY <1>1, <1>7 DEF Bare, Amounts
      <4>3. QED
        BY <4>1, <4>2 DEF TokensIn
    <3>2. QED
      BY <3>1
  <2>4. q.committed = SumOf(f, Clients)
    BY <1>3 DEF TokenBook
  <2> HIDE DEF f, g
  <2>5. SumOf(g, Clients) = SumOf(f, Clients) + SumOf(Cost, D)
    BY <1>1, <1>7, <2>1, <2>2, <2>3, ClientsAssumption, SumGrows
  <2>6. QED
    BY <1>11, <2>4, <2>5 DEF TokenBook, g
<1>14. ParkBook(r.parked, r.reclaimable, l2)
  <2>1. \A c \in Clients : (ParkedIn(l2[c]) <=> ParkedIn(l[c])) /\ Reclaimable(l2[c]) = Reclaimable(l[c])
    BY <1>1 DEF ParkedIn, Reclaimable, Bare
  <2>2. ParkedOf(l2) = ParkedOf(l)
    BY <2>1 DEF ParkedOf
  <2>3. QED
    BY <1>3, <1>11, <2>1, <2>2 DEF ParkBook
<1>15. ShareBook(k, l2)
  <2>1. BudgetedOf(l2) = BudgetedOf(l)
    BY <1>1 DEF BudgetedOf, Bare
  <2>2. QED
    BY <1>3, <2>1 DEF ShareBook
<1>16. RepairBook(r.reparking, p2)
  <2>1. WaitingOf(p2) = WaitingOf(p)
    BY <1>1 DEF WaitingOf
  <2>2. QED
    BY <1>3, <1>11, <2>1 DEF RepairBook
<1>17. \A c \in Clients : Fields(l2[c], p2[c], h[c])
  <2>1. ASSUME NEW c \in D PROVE Fields(l2[c], p2[c], h[c])
    BY <1>1 DEF Fields
  <2>2. ASSUME NEW c \in Clients \ D PROVE Fields(l2[c], p2[c], h[c])
    BY <1>1, <1>3
  <2>3. QED
    BY <2>1, <2>2
<1>18. QED
  BY <1>2, <1>6, <1>8, <1>9, <1>11, <1>12, <1>13, <1>14, <1>15, <1>16, <1>17
     DEF Books, Typed, Balanced, Lines, r

-----------------------------------------------------------------------------
(* One step of the request c, which had l, x, h and has l2, x2, h2 after it:*)
(* the queue's entry changes by exactly that.                               *)
Step(q, k, l, x, h, q2, k2, l2, x2, h2, c) ==
    /\ q2.inUse = (q.inUse \ HeldIn(l, h)) \cup HeldIn(l2, h2)
    /\ (HeldIn(l2, h2) \ HeldIn(l, h)) \cap q.inUse = {}
    /\ l2.slot # None => h2.slot = None
    /\ q2.free = (0..(q2.capacity - 1)) \ q2.inUse
    /\ q2.committed = q.committed - TokensIn(l, x, h) + TokensIn(l2, x2, h2)
    /\ q2.parked = q.parked - One(ParkedIn(l)) + One(ParkedIn(l2))
    /\ q2.reclaimable = [q.reclaimable EXCEPT ![c] = Reclaimable(l2)]
    /\ k2 = k - One(l.budgeted) + One(l2.budgeted)
    /\ q2.reparking = q.reparking - One(x = "waiting") + One(x2 = "waiting")
    /\ Fields(l2, x2, h2)

(* One step keeps the books of everybody.                                   *)
LEMMA BooksMove ==
    ASSUME NEW q, NEW k, NEW l, NEW p, NEW h, NEW q2, NEW k2, NEW l2, NEW p2, NEW h2,
           Books(q, k, l, p, h), Typed(q2, l2, p2, h2), Lines(q2, p2),
           NEW c \in Clients, \A d \in Clients \ {c} : l2[d] = l[d] /\ p2[d] = p[d] /\ h2[d] = h[d],
           Step(q, k, l[c], p[c], h[c], q2, k2, l2[c], p2[c], h2[c], c)
    PROVE  Books(q2, k2, l2, p2, h2)
<1>1. Typed(q, l, p, h) /\ Balanced(q, k, l, p, h) /\ \A d \in Clients : Fields(l[d], p[d], h[d])
  BY DEF Books
<1>2. /\ q2.inUse = (q.inUse \ HeldIn(l[c], h[c])) \cup HeldIn(l2[c], h2[c])
      /\ (HeldIn(l2[c], h2[c]) \ HeldIn(l[c], h[c])) \cap q.inUse = {}
      /\ (l2[c].slot # None => h2[c].slot = None)
      /\ q2.free = (0..(q2.capacity - 1)) \ q2.inUse
      /\ q2.committed = q.committed - TokensIn(l[c], p[c], h[c]) + TokensIn(l2[c], p2[c], h2[c])
      /\ q2.parked = q.parked - One(ParkedIn(l[c])) + One(ParkedIn(l2[c]))
      /\ q2.reclaimable = [q.reclaimable EXCEPT ![c] = Reclaimable(l2[c])]
      /\ k2 = k - One(l[c].budgeted) + One(l2[c].budgeted)
      /\ q2.reparking = q.reparking - One(p[c] = "waiting") + One(p2[c] = "waiting")
      /\ Fields(l2[c], p2[c], h2[c])
  BY DEF Step
<1>3. Balanced(q2, k2, l2, p2, h2)
  BY <1>1, <1>2, Moves
<1>4. \A d \in Clients : Fields(l2[d], p2[d], h2[d])
  BY <1>1, <1>2
<1>5. QED
  BY <1>3, <1>4 DEF Books

(* The lines stay when c is in neither before or after.                     *)
LEMMA LinesStay ==
    ASSUME NEW q, NEW p, NEW q2, NEW p2, Lines(q, p), q2.waiters = q.waiters, q2.tickets = q.tickets,
           NEW c, \A d \in Clients \ {c} : p2[d] = p[d],
           p[c] \notin {"queued", "resuming"}, p2[c] \notin {"queued", "resuming"}
    PROVE  Lines(q2, p2)
<1>1. \A d \in Clients : (p2[d] = "queued" <=> p[d] = "queued") /\ (p2[d] = "resuming" <=> p[d] = "resuming")
  OBVIOUS
<1>2. QED
  BY <1>1, LineStays DEF Lines

(* What the books say of one request.                                       *)
Entry(q, k, l, x, h, c) ==
    /\ q \in Queue /\ k \in Nat /\ l \in Lease /\ x \in Positions /\ h \in Hand
    /\ Fields(l, x, h)
    /\ HeldIn(l, h) \subseteq q.inUse
    /\ None \notin q.inUse
    /\ (l.slot # None => h.slot = None)
    /\ q.free = (0..(q.capacity - 1)) \ q.inUse
    /\ TokensIn(l, x, h) \in Nat /\ TokensIn(l, x, h) <= q.committed
    /\ One(ParkedIn(l)) <= q.parked
    /\ q.reclaimable[c] = Reclaimable(l)
    /\ One(l.budgeted) <= k
    /\ One(x = "waiting") <= q.reparking

(* The entry of a request follows from the books.                           *)
LEMMA OneRequest ==
    ASSUME NEW q, NEW k, NEW l, NEW p, NEW h, Books(q, k, l, p, h), NEW c \in Clients
    PROVE  Entry(q, k, l[c], p[c], h[c], c)
<1>1. /\ q \in Queue /\ l \in [Clients -> Lease] /\ p \in [Clients -> Positions] /\ h \in [Clients -> Hand]
  BY DEF Books, Typed
<1>2. l[c] \in Lease /\ p[c] \in Positions /\ h[c] \in Hand /\ Fields(l[c], p[c], h[c])
  BY <1>1 DEF Books
<1>3. /\ HeldIn(l[c], h[c]) \subseteq q.inUse
      /\ (l[c].slot # None => h[c].slot = None)
      /\ q.free = (0..(q.capacity - 1)) \ q.inUse
      /\ q.reclaimable[c] = Reclaimable(l[c])
  BY DEF Books, Balanced, SlotBook, ParkBook
<1>4. None \notin q.inUse
  BY <1>1, NoneAssumption DEF Queue, Slots
<1>5. TokensIn(l[c], p[c], h[c]) \in Nat /\ TokensIn(l[c], p[c], h[c]) <= q.committed
  <2>1. TokenBook(q.committed, l, p, h)
    BY DEF Books, Balanced
  <2>2. TokensIn(l[c], p[c], h[c]) <= q.committed
    BY <1>1, <2>1, TokensMove
  <2>3. QED
    BY <1>2, <2>2, TokensNat
<1>6. One(ParkedIn(l[c])) <= q.parked
  <2>1. ParkedOf(l) \subseteq Clients /\ (c \in ParkedOf(l) <=> ParkedIn(l[c]))
    BY DEF ParkedOf
  <2>2. One(c \in ParkedOf(l)) <= Cardinality(ParkedOf(l))
    BY <2>1, ClientsCounted
  <2>3. QED
    BY <2>1, <2>2 DEF Books, Balanced, ParkBook, One
<1>7. One(l[c].budgeted) <= k /\ k \in Nat
  <2>1. BudgetedOf(l) \subseteq Clients /\ (c \in BudgetedOf(l) <=> l[c].budgeted)
    BY DEF BudgetedOf
  <2>2. One(c \in BudgetedOf(l)) <= Cardinality(BudgetedOf(l)) /\ Cardinality(BudgetedOf(l)) \in Nat
    BY <2>1, ClientsCounted
  <2>3. QED
    BY <2>1, <2>2 DEF Books, Balanced, ShareBook, One
<1>8. One(p[c] = "waiting") <= q.reparking
  <2>1. WaitingOf(p) \subseteq Clients /\ (c \in WaitingOf(p) <=> p[c] = "waiting")
    BY DEF WaitingOf
  <2>2. One(c \in WaitingOf(p)) <= Cardinality(WaitingOf(p))
    BY <2>1, ClientsCounted
  <2>3. QED
    BY <2>1, <2>2 DEF Books, Balanced, RepairBook, One
<1>9. QED
  BY <1>1, <1>2, <1>3, <1>4, <1>5, <1>6, <1>7, <1>8 DEF Entry

-----------------------------------------------------------------------------
(* What an operation leaves of the queue: the lines are not its own.        *)
Leaves(q, q2) == q2 \in Queue /\ q2.waiters = q.waiters /\ q2.tickets = q.tickets

(* The queue after a slot was released.                                     *)
LEMMA SlotReleasedFields ==
    ASSUME NEW q \in Queue, NEW slot, slot = None \/ slot \in q.inUse, None \notin q.inUse,
           q.free = (0..(q.capacity - 1)) \ q.inUse
    PROVE  LET r == SlotReleased(q, slot) IN
           /\ Leaves(q, r)
           /\ r.inUse = q.inUse \ {slot} /\ r.free = (0..(q.capacity - 1)) \ r.inUse
           /\ r.capacity = q.capacity /\ r.committed = q.committed /\ r.lapsed = q.lapsed
           /\ r.parked = q.parked /\ r.reclaimable = q.reclaimable /\ r.reparking = q.reparking
<1> DEFINE F == IF slot \in q.inUse /\ slot < q.capacity THEN q.free \cup {slot} ELSE q.free
           I == q.inUse \ {slot}
<1>1. SlotReleased(q, slot) = [q EXCEPT !.free = F, !.inUse = I]
  BY DEF SlotReleased, Queue
<1>2. q.inUse \in SUBSET Slots /\ q.free \in SUBSET Slots /\ q.capacity \in Int /\ \A s \in Slots : s \in Nat
  <2>1. q.inUse \in SUBSET Slots /\ q.free \in SUBSET Slots /\ q.capacity \in {1} \cup Capacities
    BY DEF Queue
  <2>2. \A s \in Slots : s \in Nat
    BY DEF Slots
  <2>3. q.capacity \in Int
    <3>1. \A n : n \in Capacities => n \in Nat \ {0}
      BY CapacityAssumption
    <3>2. \A n : n \in {1} \cup Capacities => n \in Int
      BY <3>1
    <3>3. QED
      BY <2>1, <3>2
  <2>4. QED
    BY <2>1, <2>2, <2>3
<1>3. F \in SUBSET Slots /\ I \in SUBSET Slots
  BY <1>2
<1>4. F = (0..(q.capacity - 1)) \ I
  <2>1. CASE slot = None
    BY <2>1
  <2>2. CASE slot \in q.inUse
    BY <1>2, <2>2
  <2>3. QED
    BY <2>1, <2>2
<1> HIDE DEF F, I
<1>5. QED
  BY <1>1, <1>3, <1>4 DEF Leaves, Queue, I

(* The queue after tokens were given back.                                  *)
LEMMA TokensReturnedFields ==
    ASSUME NEW q \in Queue, NEW n \in Nat, n <= q.committed
    PROVE  LET r == TokensReturned(q, n) IN
           /\ Leaves(q, r)
           /\ r.committed = q.committed - n
           /\ r.inUse = q.inUse /\ r.free = q.free /\ r.capacity = q.capacity /\ r.lapsed = q.lapsed
           /\ r.parked = q.parked /\ r.reclaimable = q.reclaimable /\ r.reparking = q.reparking
<1>1. Minus(q.committed, n) = q.committed - n /\ q.committed - n \in Nat
  BY DEF Minus, Queue
<1>2. QED
  BY <1>1 DEF TokensReturned, Leaves, Queue

(* The queue after a request is parked no more.                             *)
LEMMA UnparkedFields ==
    ASSUME NEW q \in Queue, NEW c \in Clients, 1 <= q.parked
    PROVE  LET r == Unparked(q, c) IN
           /\ Leaves(q, r)
           /\ r.parked = q.parked - 1 /\ r.reclaimable = [q.reclaimable EXCEPT ![c] = 0]
           /\ r.inUse = q.inUse /\ r.free = q.free /\ r.capacity = q.capacity /\ r.lapsed = q.lapsed
           /\ r.committed = q.committed /\ r.reparking = q.reparking
<1>1. Minus(q.parked, 1) = q.parked - 1 /\ q.parked - 1 \in Nat
  BY DEF Minus, Queue
<1>2. [q.reclaimable EXCEPT ![c] = 0] \in [Clients -> Nat]
  BY DEF Queue
<1>3. QED
  BY <1>1, <1>2 DEF Unparked, Leaves, Queue

(* The queue after a repark has ended.                                      *)
LEMMA EndReparkFields ==
    ASSUME NEW q \in Queue, 1 <= q.reparking
    PROVE  LET r == EndRepark(q) IN
           /\ Leaves(q, r)
           /\ r.reparking = q.reparking - 1
           /\ r.inUse = q.inUse /\ r.free = q.free /\ r.capacity = q.capacity /\ r.lapsed = q.lapsed
           /\ r.committed = q.committed /\ r.parked = q.parked /\ r.reclaimable = q.reclaimable
<1>1. Minus(q.reparking, 1) = q.reparking - 1 /\ q.reparking - 1 \in Nat
  BY DEF Minus, Queue
<1>2. QED
  BY <1>1 DEF EndRepark, Leaves, Queue

(* park.                                                                    *)
LEMMA ParkStep ==
    ASSUME NEW q, NEW k, NEW l, NEW h, NEW c \in Clients, Entry(q, k, l, "holding", h, c), ~l.released,
           NEW x2 \in {"parked", "unwatched"}, NEW q2, NEW l2,
           q2 = [SlotReleased(q, l.slot) EXCEPT !.parked = @ + 1, !.reclaimable[c] = l.tokens],
           l2 = [l EXCEPT !.slot = None, !.parked = TRUE, !.budgeted = TRUE]
    PROVE  Leaves(q, q2) /\ l2 \in Lease /\ Step(q, k, l, "holding", h, q2, k + 1, l2, x2, h, c)
<1>1. /\ q \in Queue /\ l \in Lease /\ h \in Hand /\ k \in Nat
      /\ ~l.parked /\ ~l.budgeted /\ l.returning = "no" /\ h.slot = None
      /\ l.slot = None \/ l.slot \in q.inUse
  BY DEF Entry, Fields, HeldIn, Lease
<1> DEFINE r == SlotReleased(q, l.slot)
<1>2. /\ Leaves(q, r)
      /\ r.inUse = q.inUse \ {l.slot} /\ r.free = (0..(q.capacity - 1)) \ r.inUse
      /\ r.capacity = q.capacity /\ r.committed = q.committed /\ r.lapsed = q.lapsed
      /\ r.parked = q.parked /\ r.reclaimable = q.reclaimable /\ r.reparking = q.reparking
  BY <1>1, SlotReleasedFields DEF Entry
<1>3. /\ l2 \in Lease /\ l2.slot = None /\ l2.parked /\ l2.budgeted /\ l2.tokens = l.tokens /\ l2.tokens \in Nat
      /\ ~l2.released /\ l2.returning = "no"
  BY <1>1 DEF Lease
<1>4. Fields(l2, x2, h)
  BY <1>1, <1>3 DEF Fields, Bare
<1> HIDE DEF r
<1>5. /\ Leaves(r, q2)
      /\ q2.inUse = r.inUse /\ q2.free = r.free /\ q2.capacity = r.capacity
      /\ q2.committed = r.committed /\ q2.reparking = r.reparking
      /\ q2.parked = r.parked + 1 /\ q2.reclaimable = [r.reclaimable EXCEPT ![c] = l.tokens]
  <2>1. r \in Queue /\ r.parked + 1 \in Nat /\ [r.reclaimable EXCEPT ![c] = l.tokens] \in [Clients -> Nat]
    BY <1>2, <1>3 DEF Leaves, Queue
  <2>2. q2 = [r EXCEPT !.parked = r.parked + 1, !.reclaimable = [r.reclaimable EXCEPT ![c] = l.tokens]]
    BY <2>1 DEF r
  <2>3. QED
    BY <2>1, <2>2 DEF Leaves, Queue
<1>6. HeldIn(l, h) = {l.slot} \ {None} /\ HeldIn(l2, h) = {}
  BY <1>1, <1>3 DEF HeldIn
<1>7. TokensIn(l, "holding", h) = l.tokens /\ TokensIn(l2, x2, h) = l.tokens
  BY <1>1, <1>3 DEF TokensIn
<1>8. QED
  BY <1>1, <1>2, <1>3, <1>4, <1>5, <1>6, <1>7 DEF Entry, Step, Leaves, Queue, One, ParkedIn, Reclaimable

(* Only the position changes.                                               *)
LEMMA PlaceStep ==
    ASSUME NEW q, NEW k, NEW l, NEW x, NEW h, NEW c, Entry(q, k, l, x, h, c), NEW q2, NEW x2,
           q2.inUse = q.inUse, q2.free = (0..(q2.capacity - 1)) \ q.inUse, q2.committed = q.committed,
           q2.parked = q.parked, q2.reclaimable = q.reclaimable, q2.reparking = q.reparking,
           TokensIn(l, x2, h) = TokensIn(l, x, h), x # "waiting", x2 # "waiting", Fields(l, x2, h)
    PROVE  Step(q, k, l, x, h, q2, k, l, x2, h, c)
<1>1. /\ q \in Queue /\ k \in Nat /\ HeldIn(l, h) \subseteq q.inUse /\ TokensIn(l, x, h) \in Nat
      /\ q.reclaimable[c] = Reclaimable(l) /\ (l.slot # None => h.slot = None)
      /\ q.committed \in Nat /\ q.parked \in Nat /\ q.reparking \in Nat
  BY DEF Entry, Queue
<1>2. q2.inUse = (q.inUse \ HeldIn(l, h)) \cup HeldIn(l, h)
  BY <1>1
<1>3. q2.reclaimable = [q.reclaimable EXCEPT ![c] = Reclaimable(l)]
  BY <1>1 DEF Queue
<1>4. QED
  BY <1>1, <1>2, <1>3 DEF Step, One

Gone == [NoLease EXCEPT !.released = TRUE]
(* A lease that was given back holds nothing.                               *)
LEMMA GoneFields ==
    Gone \in Lease /\ Bare(Gone) /\ Gone.released /\ ~ParkedIn(Gone)
BY DEF Gone, NoLease, Lease, Bare, ParkedIn

(* _release_locked: the slot and the tokens of a lease go back, and what it *)
(* had parked.                                                              *)
LEMMA ReturnStep ==
    ASSUME NEW q, NEW k, NEW l, NEW x, NEW h, NEW c \in Clients, Entry(q, k, l, x, h, c),
           ~l.parked, x = "granted" \/ l.returning # "no", NEW q2, NEW x2 \in {x, "gone"},
           x \in {"granted", "holding", "parked", "erasing", "unwatched", "leaving"} => x2 = "gone",
           x \in {"resuming", "took", "yielding", "waiting", "reclaimed"} => x2 = x,
           q2 = TokensReturned(SlotReleased(IF l.returning = "parked" THEN Unparked(q, c) ELSE q, l.slot), l.tokens)
    PROVE  Leaves(q, q2) /\ Gone \in Lease /\ Step(q, k, l, x, h, q2, k, Gone, x2, h, c)
<1>1. /\ q \in Queue /\ l \in Lease /\ h \in Hand /\ k \in Nat
      /\ ~l.budgeted /\ (x = "granted" => l.returning = "no") /\ x \notin {"away", "queued"}
      /\ l.slot = None \/ l.slot \in q.inUse
      /\ l.tokens \in Nat /\ l.tokens <= q.committed
      /\ q.committed \in Nat /\ q.parked \in Nat /\ q.reparking \in Nat
  <2>1. l \in Lease /\ h \in Hand /\ TokensIn(l, x, h) \in Nat /\ TokensIn(l, x, h) <= q.committed
    BY DEF Entry
  <2>2. l.tokens \in Nat /\ TokensIn(l, x, h) >= l.tokens
    BY <2>1 DEF TokensIn, Lease, Hand
  <2>3. q \in Queue /\ q.committed \in Nat
    BY DEF Entry, Queue
  <2>4. l.tokens <= q.committed
    BY <2>1, <2>2, <2>3
  <2>5. QED
    BY <2>1, <2>2, <2>3, <2>4 DEF Entry, Fields, HeldIn, Bare, Queue
<1> DEFINE r == IF l.returning = "parked" THEN Unparked(q, c) ELSE q
           s == SlotReleased(r, l.slot)
<1>2. /\ r \in Queue /\ Leaves(q, r)
      /\ r.parked = q.parked - One(ParkedIn(l)) /\ r.reclaimable = [q.reclaimable EXCEPT ![c] = 0]
      /\ r.inUse = q.inUse /\ r.free = q.free /\ r.capacity = q.capacity
      /\ r.committed = q.committed /\ r.reparking = q.reparking
  <2>1. CASE l.returning = "parked"
    <3>1. ParkedIn(l) /\ One(ParkedIn(l)) = 1 /\ 1 <= q.parked
      BY <2>1 DEF ParkedIn, One, Entry
    <3>2. QED
      BY <1>1, <2>1, <3>1, UnparkedFields DEF Leaves
  <2>2. CASE l.returning # "parked"
    <3>1. ~ParkedIn(l) /\ One(ParkedIn(l)) = 0 /\ q.reclaimable[c] = 0
      BY <2>2 DEF ParkedIn, One, Entry, Reclaimable
    <3>2. q.reclaimable = [q.reclaimable EXCEPT ![c] = 0]
      BY <1>1, <3>1 DEF Queue
    <3>3. QED
      BY <1>1, <2>2, <3>1, <3>2 DEF Leaves
  <2>3. QED
    BY <2>1, <2>2
<1> HIDE DEF r
<1>3. /\ Leaves(r, s)
      /\ s.inUse = r.inUse \ {l.slot} /\ s.free = (0..(r.capacity - 1)) \ s.inUse
      /\ s.capacity = r.capacity /\ s.committed = r.committed
      /\ s.parked = r.parked /\ s.reclaimable = r.reclaimable /\ s.reparking = r.reparking
  <2>1. None \notin r.inUse /\ r.free = (0..(r.capacity - 1)) \ r.inUse /\ (l.slot = None \/ l.slot \in r.inUse)
    BY <1>1, <1>2 DEF Entry
  <2>2. QED
    BY <1>2, <2>1, SlotReleasedFields
<1> HIDE DEF s
<1>4. /\ Leaves(s, q2)
      /\ q2.committed = s.committed - l.tokens
      /\ q2.inUse = s.inUse /\ q2.free = s.free /\ q2.capacity = s.capacity
      /\ q2.parked = s.parked /\ q2.reclaimable = s.reclaimable /\ q2.reparking = s.reparking
  <2>1. s \in Queue /\ l.tokens <= s.committed /\ q2 = TokensReturned(s, l.tokens)
    BY <1>1, <1>2, <1>3 DEF Leaves, r, s
  <2>2. QED
    BY <1>1, <2>1, TokensReturnedFields
<1>5. HeldIn(l, h) = HeldIn(Gone, h) \cup ({l.slot} \ {None}) /\ l.slot \notin HeldIn(Gone, h)
  <2>1. Gone.slot = None /\ (l.slot # None => h.slot = None)
    BY GoneFields DEF Bare, Entry
  <2>2. QED
    BY <2>1 DEF HeldIn
<1>6. TokensIn(Gone, x2, h) = TokensIn(l, x, h) - l.tokens
  <2>1. Gone.tokens = 0
    BY GoneFields DEF Bare
  <2>2. x \in Positions
    BY DEF Entry
  <2>3. QED
    BY <1>1, <2>1, <2>2 DEF TokensIn, Hand, Positions
<1>7. /\ Gone.slot = None /\ ~Gone.budgeted /\ ~ParkedIn(Gone) /\ Reclaimable(Gone) = 0
  BY GoneFields DEF Bare, Reclaimable
<1>8. Fields(Gone, x2, h)
  BY <1>1, GoneFields DEF Fields, Entry, Bare
<1>9. x = "waiting" <=> x2 = "waiting"
  BY DEF Entry, Positions
<1>10. TokensIn(l, x, h) \in Nat
  BY DEF Entry
<1>11. /\ q2.inUse = (q.inUse \ HeldIn(l, h)) \cup HeldIn(Gone, h)
       /\ HeldIn(Gone, h) \subseteq HeldIn(l, h)
  BY <1>1, <1>2, <1>3, <1>4, <1>5 DEF Entry
<1>12. QED
  BY <1>1, <1>2, <1>3, <1>4, <1>6, <1>7, <1>8, <1>9, <1>10, <1>11, GoneFields DEF Step, One, Leaves

(* The cells of a parked request are erased: its tokens go back.            *)
LEMMA ErasedStep ==
    ASSUME NEW q, NEW k, NEW l, NEW h, NEW c \in Clients, Entry(q, k, l, "erasing", h, c), l.parked, NEW q2, NEW l2,
           q2 = [TokensReturned(q, l.tokens) EXCEPT !.reclaimable[c] = 0],
           l2 = [l EXCEPT !.tokens = 0, !.parkedTokens = @ + l.tokens]
    PROVE  Leaves(q, q2) /\ l2 \in Lease /\ Step(q, k, l, "erasing", h, q2, k, l2, "unwatched", h, c)
<1>1. /\ q \in Queue /\ l \in Lease /\ h \in Hand /\ k \in Nat /\ h.slot = None /\ l.slot = None
      /\ TokensIn(l, "erasing", h) = l.tokens /\ l.tokens \in Nat /\ l.tokens <= q.committed
      /\ q.committed \in Nat /\ q.parked \in Nat /\ q.reparking \in Nat /\ q.reclaimable \in [Clients -> Nat]
  <2>1. l \in Lease /\ l.tokens \in Nat /\ TokensIn(l, "erasing", h) = l.tokens
    BY DEF Entry, Lease, TokensIn
  <2>2. QED
    BY <2>1 DEF Entry, Fields, Queue
<1> DEFINE r == TokensReturned(q, l.tokens)
<1>2. /\ Leaves(q, r) /\ r.committed = q.committed - l.tokens
      /\ r.inUse = q.inUse /\ r.free = q.free /\ r.capacity = q.capacity
      /\ r.parked = q.parked /\ r.reclaimable = q.reclaimable /\ r.reparking = q.reparking
  BY <1>1, TokensReturnedFields
<1>3. /\ Leaves(r, q2)
      /\ q2.inUse = r.inUse /\ q2.free = r.free /\ q2.capacity = r.capacity
      /\ q2.committed = r.committed /\ q2.reparking = r.reparking
      /\ q2.parked = r.parked /\ q2.reclaimable = [r.reclaimable EXCEPT ![c] = 0]
  <2>1. r \in Queue /\ [r.reclaimable EXCEPT ![c] = 0] \in [Clients -> Nat]
    BY <1>1, <1>2 DEF Leaves
  <2>2. q2 = [r EXCEPT !.reclaimable = [r.reclaimable EXCEPT ![c] = 0]]
    BY <2>1 DEF r
  <2> HIDE DEF r
  <2>3. QED
    BY <2>1, <2>2 DEF Leaves, Queue
<1> HIDE DEF r
<1>4. /\ l2 \in Lease /\ l2.tokens = 0 /\ l2.slot = l.slot /\ l2.parked = l.parked /\ l2.budgeted = l.budgeted
      /\ l2.released = l.released /\ l2.returning = l.returning
  <2>1. PICK n \in Nat : n = l.parkedTokens + l.tokens
    BY <1>1 DEF Lease
  <2>2. l2 = [l EXCEPT !.tokens = 0, !.parkedTokens = n]
    BY <2>1
  <2>3. QED
    BY ONLY <1>1, <2>1, <2>2 DEF Lease
<1>5. Fields(l2, "unwatched", h)
  BY <1>4 DEF Fields, Entry, Bare
<1>6. HeldIn(l2, h) = HeldIn(l, h) /\ HeldIn(l, h) \subseteq q.inUse
  BY <1>4 DEF HeldIn, Entry
<1>7. TokensIn(l2, "unwatched", h) = 0
  BY <1>4 DEF TokensIn
<1>8. ParkedIn(l) /\ ParkedIn(l2) /\ Reclaimable(l2) = 0
  BY <1>4 DEF ParkedIn, Reclaimable
<1>9. q2.inUse = (q.inUse \ HeldIn(l, h)) \cup HeldIn(l2, h)
  BY <1>2, <1>3, <1>6
<1>10. q2.free = (0..(q2.capacity - 1)) \ q2.inUse
  BY <1>2, <1>3 DEF Entry
<1>11. QED
  BY <1>1, <1>2, <1>3, <1>4, <1>5, <1>6, <1>7, <1>8, <1>9, <1>10 DEF Step, One, Leaves

(* An approval came: the share of the executor goes back.                   *)
LEMMA ResumeStep ==
    ASSUME NEW q, NEW k, NEW l, NEW x, NEW h, NEW c \in Clients, Entry(q, k, l, x, h, c),
           x \in {"parked", "unwatched"}, l.parked, NEW q2, NEW l2, NEW h2,
           q2 = [q EXCEPT !.tickets = Append(@, c)],
           l2 = [l EXCEPT !.budgeted = FALSE], h2 = [Empty EXCEPT !.tokens = l.parkedTokens]
    PROVE  /\ q2 \in Queue /\ q2.waiters = q.waiters /\ q2.tickets = Append(q.tickets, c)
           /\ l2 \in Lease /\ h2 \in Hand
           /\ Step(q, k, l, x, h, q2, k - One(l.budgeted), l2, "resuming", h2, c)
<1>1. /\ q \in Queue /\ l \in Lease /\ k \in Nat /\ h.slot = None /\ l.slot = None /\ ~l.released
      /\ l.returning = "no" /\ l.parkedTokens \in Nat
      /\ q.committed \in Nat /\ q.parked \in Nat /\ q.reparking \in Nat /\ q.reclaimable \in [Clients -> Nat]
  BY DEF Entry, Fields, Lease, Queue
<1>2. /\ q2 \in Queue /\ q2.waiters = q.waiters /\ q2.tickets = Append(q.tickets, c)
      /\ q2.inUse = q.inUse /\ q2.free = q.free /\ q2.capacity = q.capacity /\ q2.committed = q.committed
      /\ q2.parked = q.parked /\ q2.reclaimable = q.reclaimable /\ q2.reparking = q.reparking
  <2>1. Append(q.tickets, c) \in Seq(Clients)
    BY <1>1, AppendProperties DEF Queue
  <2>2. QED
    BY <1>1, <2>1 DEF Queue
<1>3. /\ l2 \in Lease /\ l2.slot = None /\ l2.tokens = l.tokens /\ l2.parked /\ ~l2.budgeted /\ ~l2.released
      /\ l2.returning = "no"
  BY <1>1 DEF Lease
<1>4. h2 \in Hand /\ h2.slot = None
  BY <1>1 DEF Hand, Empty
<1>5. Fields(l2, "resuming", h2)
  BY <1>3, <1>4 DEF Fields
<1>6. HeldIn(l2, h2) = {} /\ HeldIn(l, h) = {}
  BY <1>1, <1>3, <1>4 DEF HeldIn
<1>7. TokensIn(l2, "resuming", h2) = TokensIn(l, x, h) /\ TokensIn(l, x, h) \in Nat
  BY <1>3 DEF TokensIn, Entry
<1>8. ParkedIn(l) /\ ParkedIn(l2) /\ Reclaimable(l2) = Reclaimable(l) /\ q.reclaimable[c] = Reclaimable(l)
  BY <1>3 DEF ParkedIn, Reclaimable, Entry
<1>9. q2.reclaimable = [q.reclaimable EXCEPT ![c] = Reclaimable(l2)]
  BY <1>1, <1>2, <1>8
<1>10. q2.free = (0..(q2.capacity - 1)) \ q2.inUse
  BY <1>2 DEF Entry
<1>11. /\ One(l2.budgeted) = 0 /\ One(l.budgeted) \in Nat
       /\ One(ParkedIn(l)) = 1 /\ One(ParkedIn(l2)) = 1 /\ One(x = "waiting") = 0 /\ One("resuming" = "waiting") = 0
  BY <1>3, <1>8 DEF One
<1>12. QED
  BY ONLY <1>1, <1>2, <1>3, <1>4, <1>5, <1>6, <1>7, <1>9, <1>10, <1>11 DEF Step

(* acquire_parked_slot: a free slot and the tokens of the park.             *)
LEMMA TakeSlotStep ==
    ASSUME NEW q, NEW k, NEW l, NEW h, NEW c \in Clients, Entry(q, k, l, "resuming", h, c),
           NEW slot \in q.free, NEW i \in 1..Len(q.tickets), NEW q2, NEW h2,
           q2 = WithoutTicket(SlotTaken(q, slot, h.tokens), i), h2 = [h EXCEPT !.slot = slot]
    PROVE  /\ q2 \in Queue /\ q2.waiters = q.waiters /\ q2.tickets = RemoveAt(q.tickets, i)
           /\ q2.committed = q.committed + h.tokens
           /\ h2 \in Hand
           /\ Step(q, k, l, "resuming", h, q2, k, l, "took", h2, c)
<1>1. /\ q \in Queue /\ l \in Lease /\ h \in Hand /\ k \in Nat /\ h.slot = None /\ l.slot = None /\ h.tokens \in Nat
      /\ q.committed \in Nat /\ q.parked \in Nat /\ q.reparking \in Nat /\ q.reclaimable \in [Clients -> Nat]
  BY DEF Entry, Fields, Hand, Queue
<1>2. slot \in Slots /\ slot # None /\ slot \notin q.inUse
  <2>1. \A s \in Slots : s \in Nat
    BY DEF Slots
  <2>2. slot \in Slots /\ slot \notin q.inUse
    BY DEF Entry, Queue
  <2>3. QED
    BY <2>1, <2>2, NoneAssumption
<1>3. RemoveAt(q.tickets, i) \in Seq(Clients)
  BY <1>1, RemoveAtProperties DEF Queue
<1>4. q2 = [q EXCEPT !.free = q.free \ {slot}, !.inUse = q.inUse \cup {slot}, !.committed = q.committed + h.tokens,
                     !.tickets = RemoveAt(q.tickets, i), !.lapsed = q.lapsed \ {q.tickets[i]}]
  BY <1>1 DEF WithoutTicket, SlotTaken, Queue
<1>5. /\ q2 \in Queue /\ q2.waiters = q.waiters /\ q2.tickets = RemoveAt(q.tickets, i)
      /\ q2.inUse = q.inUse \cup {slot} /\ q2.free = q.free \ {slot} /\ q2.capacity = q.capacity
      /\ q2.committed = q.committed + h.tokens
      /\ q2.parked = q.parked /\ q2.reclaimable = q.reclaimable /\ q2.reparking = q.reparking
  <2>1. /\ q.free \ {slot} \in SUBSET Slots /\ q.inUse \cup {slot} \in SUBSET Slots
        /\ q.committed + h.tokens \in Nat /\ q.lapsed \ {q.tickets[i]} \in SUBSET Clients
    BY <1>1, <1>2 DEF Queue
  <2>2. QED
    BY <1>1, <1>3, <1>4, <2>1 DEF Queue
<1>6. h2 \in Hand /\ h2.slot = slot /\ h2.tokens = h.tokens
  BY <1>1, <1>2 DEF Hand
<1>7. Fields(l, "took", h2)
  BY <1>1 DEF Fields, Entry
<1>8. HeldIn(l, h) = {} /\ HeldIn(l, h2) = {slot}
  BY <1>1, <1>2, <1>6 DEF HeldIn
<1>9. TokensIn(l, "resuming", h) = l.tokens /\ TokensIn(l, "took", h2) = l.tokens + h.tokens /\ l.tokens \in Nat
  BY <1>1, <1>2, <1>6 DEF TokensIn, Lease
<1>10. q2.reclaimable = [q.reclaimable EXCEPT ![c] = Reclaimable(l)]
  BY <1>1, <1>5 DEF Entry
<1>11. q2.free = (0..(q2.capacity - 1)) \ q2.inUse
  BY <1>5 DEF Entry
<1>12. /\ One(l.budgeted) \in Nat /\ One(l.budgeted) <= k /\ One(ParkedIn(l)) \in Nat
       /\ One("took" = "waiting") = 0 /\ One("resuming" = "waiting") = 0
  BY DEF One, Entry
<1>13. /\ q2.inUse = (q.inUse \ HeldIn(l, h)) \cup HeldIn(l, h2)
       /\ (HeldIn(l, h2) \ HeldIn(l, h)) \cap q.inUse = {}
  BY ONLY <1>2, <1>5, <1>8
<1>14. /\ q2.committed = q.committed - TokensIn(l, "resuming", h) + TokensIn(l, "took", h2)
       /\ q2.parked = q.parked - One(ParkedIn(l)) + One(ParkedIn(l))
       /\ k = k - One(l.budgeted) + One(l.budgeted)
       /\ q2.reparking = q.reparking - One("resuming" = "waiting") + One("took" = "waiting")
  <2>1. \A a, b \in Nat : a = a - b + b
    OBVIOUS
  <2>2. \A a, b, d \in Nat : a + d = a - b + (b + d)
    OBVIOUS
  <2>3. q2.committed = q.committed - l.tokens + (l.tokens + h.tokens)
    BY ONLY <1>1, <1>5, <1>9, <2>2
  <2>4. q2.parked = q.parked - One(ParkedIn(l)) + One(ParkedIn(l))
    BY ONLY <1>1, <1>5, <1>12, <2>1
  <2>5. k = k - One(l.budgeted) + One(l.budgeted)
    BY ONLY <1>1, <1>12, <2>1
  <2>6. q2.reparking = q.reparking - One("resuming" = "waiting") + One("took" = "waiting")
    BY ONLY <1>1, <1>5, <1>12, <2>1
  <2>7. QED
    BY ONLY <1>9, <2>3, <2>4, <2>5, <2>6
<1>15. QED
  BY ONLY <1>1, <1>5, <1>6, <1>7, <1>10, <1>11, <1>13, <1>14 DEF Step

(* Arithmetic of the counts.                                                *)
LEMMA Cancels == \A a, b \in Nat : a = a - b + b
OBVIOUS
LEMMA OneLess == \A a \in Nat : a - 1 = a - 1 + 0
OBVIOUS
LEMMA OneMore == \A a \in Nat : a + 1 = a - 0 + 1
OBVIOUS
LEMMA OneIsNat == One(TRUE) = 1 /\ One(FALSE) = 0 /\ \A b : One(b) \in Nat
BY DEF One

(* What the books say of a request and of the queue, as numbers and slots.  *)
EntryFields(q, k, l, x, h, c) ==
    /\ q \in Queue /\ l \in Lease /\ h \in Hand /\ k \in Nat /\ x \in Positions
    /\ q.committed \in Nat /\ q.parked \in Nat /\ q.reparking \in Nat /\ q.reclaimable \in [Clients -> Nat]
    /\ l.tokens \in Nat /\ h.tokens \in Nat /\ h.want \in Nat
    /\ l.slot \in Slots \cup {None} /\ h.slot \in Slots \cup {None}
    /\ (l.slot = None \/ l.slot \in q.inUse) /\ (h.slot = None \/ h.slot \in q.inUse)
    /\ None \notin q.inUse /\ q.free = (0..(q.capacity - 1)) \ q.inUse
    /\ (l.slot # None => h.slot = None)
    /\ q.reclaimable = [q.reclaimable EXCEPT ![c] = Reclaimable(l)]
    /\ TokensIn(l, x, h) \in Nat /\ TokensIn(l, x, h) <= q.committed /\ l.tokens <= q.committed

(* The types and ranges that follow from an entry.                          *)
LEMMA FieldsOfEntry ==
    ASSUME NEW q, NEW k, NEW l, NEW x, NEW h, NEW c, Entry(q, k, l, x, h, c)
    PROVE  EntryFields(q, k, l, x, h, c)
<1>1. /\ q \in Queue /\ l \in Lease /\ h \in Hand /\ k \in Nat /\ x \in Positions
      /\ TokensIn(l, x, h) \in Nat /\ TokensIn(l, x, h) <= q.committed
      /\ None \notin q.inUse /\ q.free = (0..(q.capacity - 1)) \ q.inUse
      /\ (l.slot # None => h.slot = None)
      /\ HeldIn(l, h) \subseteq q.inUse /\ q.reclaimable[c] = Reclaimable(l)
  BY DEF Entry
<1>2. /\ q.committed \in Nat /\ q.parked \in Nat /\ q.reparking \in Nat /\ q.reclaimable \in [Clients -> Nat]
      /\ l.tokens \in Nat /\ h.tokens \in Nat /\ h.want \in Nat
      /\ l.slot \in Slots \cup {None} /\ h.slot \in Slots \cup {None}
  BY <1>1 DEF Queue, Lease, Hand
<1>3. (l.slot = None \/ l.slot \in q.inUse) /\ (h.slot = None \/ h.slot \in q.inUse)
  BY <1>1 DEF HeldIn
<1>4. l.tokens <= q.committed
  <2>1. l.tokens <= TokensIn(l, x, h)
    BY <1>2 DEF TokensIn
  <2>2. QED
    BY <1>1, <1>2, <2>1
<1>5. q.reclaimable = [q.reclaimable EXCEPT ![c] = Reclaimable(l)]
  BY <1>1, <1>2
<1>6. QED
  BY <1>1, <1>2, <1>3, <1>4, <1>5 DEF EntryFields

(* The lease was released during the wait: what was taken goes back.        *)
LEMMA TakenBackStep ==
    ASSUME NEW q, NEW k, NEW l, NEW h, NEW c \in Clients, Entry(q, k, l, "took", h, c), l.released, NEW q2,
           q2 = IF h.slot = None THEN q ELSE TokensReturned(SlotReleased(q, h.slot), h.tokens)
    PROVE  Leaves(q, q2) /\ Empty \in Hand /\ Step(q, k, l, "took", h, q2, k, l, "gone", Empty, c)
<1>1. /\ q \in Queue /\ l \in Lease /\ h \in Hand /\ k \in Nat
      /\ q.committed \in Nat /\ q.parked \in Nat /\ q.reparking \in Nat
      /\ l.tokens \in Nat /\ h.tokens \in Nat
      /\ (h.slot = None \/ h.slot \in q.inUse) /\ None \notin q.inUse /\ q.free = (0..(q.capacity - 1)) \ q.inUse
      /\ q.reclaimable = [q.reclaimable EXCEPT ![c] = Reclaimable(l)]
      /\ TokensIn(l, "took", h) <= q.committed
  <2>1. EntryFields(q, k, l, "took", h, c)
    BY FieldsOfEntry
  <2>2. QED
    BY <2>1 DEF EntryFields
<1>2. l.slot = None /\ Fields(l, "gone", Empty)
  BY DEF Entry, Fields, Empty
<1>3. Empty \in Hand /\ Empty.slot = None
  BY DEF Hand, Empty
<1>4. HeldIn(l, h) = {h.slot} \ {None} /\ HeldIn(l, Empty) = {}
  BY <1>2, <1>3 DEF HeldIn
<1>5. /\ TokensIn(l, "took", h) = l.tokens + (IF h.slot = None THEN 0 ELSE h.tokens)
      /\ TokensIn(l, "gone", Empty) = l.tokens
  BY <1>1 DEF TokensIn
<1>6. /\ Leaves(q, q2)
      /\ q2.committed = q.committed - (IF h.slot = None THEN 0 ELSE h.tokens)
      /\ q2.inUse = q.inUse \ {h.slot} /\ q2.free = (0..(q2.capacity - 1)) \ q2.inUse
      /\ q2.parked = q.parked /\ q2.reclaimable = q.reclaimable /\ q2.reparking = q.reparking
  <2>1. CASE h.slot = None
    BY <1>1, <2>1 DEF Leaves
  <2>2. CASE h.slot # None
    <3> DEFINE s == SlotReleased(q, h.slot)
    <3>1. /\ Leaves(q, s)
          /\ s.inUse = q.inUse \ {h.slot} /\ s.free = (0..(q.capacity - 1)) \ s.inUse
          /\ s.capacity = q.capacity /\ s.committed = q.committed
          /\ s.parked = q.parked /\ s.reclaimable = q.reclaimable /\ s.reparking = q.reparking
      BY <1>1, SlotReleasedFields
    <3>2. q2 = TokensReturned(s, h.tokens)
      BY <2>2
    <3> HIDE DEF s
    <3>3. s \in Queue /\ h.tokens <= s.committed
      BY <1>1, <1>5, <2>2, <3>1 DEF Leaves
    <3>4. /\ Leaves(s, q2) /\ q2.committed = s.committed - h.tokens
          /\ q2.inUse = s.inUse /\ q2.free = s.free /\ q2.capacity = s.capacity
          /\ q2.parked = s.parked /\ q2.reclaimable = s.reclaimable /\ q2.reparking = s.reparking
      BY <1>1, <3>2, <3>3, TokensReturnedFields
    <3>5. QED
      BY <2>2, <3>1, <3>4 DEF Leaves
  <2>3. QED
    BY <2>1, <2>2
<1>7. /\ q2.inUse = (q.inUse \ HeldIn(l, h)) \cup HeldIn(l, Empty)
      /\ (HeldIn(l, Empty) \ HeldIn(l, h)) \cap q.inUse = {}
  BY <1>1, <1>4, <1>6
<1>8. q2.committed = q.committed - TokensIn(l, "took", h) + TokensIn(l, "gone", Empty)
  <2>1. \A a, b, d \in Nat : a - d = a - (b + d) + b
    OBVIOUS
  <2>2. (IF h.slot = None THEN 0 ELSE h.tokens) \in Nat
    BY <1>1
  <2>3. QED
    BY ONLY <1>1, <1>5, <1>6, <2>1, <2>2
<1>9. /\ q.parked = q.parked - One(ParkedIn(l)) + One(ParkedIn(l))
      /\ k = k - One(l.budgeted) + One(l.budgeted)
      /\ q.reparking = q.reparking - One("took" = "waiting") + One("gone" = "waiting")
  <2>1. One("took" = "waiting") = 0 /\ One("gone" = "waiting") = 0
    BY DEF One
  <2>2. QED
    BY ONLY <1>1, <2>1, OneIsNat, Cancels
<1>10. QED
  BY <1>1, <1>2, <1>3, <1>6, <1>7, <1>8, <1>9 DEF Step

(* The end of a park, with a slot or without one.                           *)
LEMMA UnparkStep ==
    ASSUME NEW q, NEW k, NEW l, NEW h, NEW c \in Clients, Entry(q, k, l, "took", h, c), ~l.released, NEW l2, NEW x2,
           l2 = IF h.slot = None
                THEN [l EXCEPT !.parked = FALSE]
                ELSE [l EXCEPT !.parked = FALSE, !.slot = h.slot,
                               !.tokens = @ + h.tokens, !.parkedTokens = 0],
           x2 = IF h.slot = None THEN "leaving" ELSE "holding"
    PROVE  /\ Leaves(q, Unparked(q, c)) /\ Empty \in Hand /\ l2 \in Lease
           /\ Step(q, k, l, "took", h, Unparked(q, c), k, l2, x2, Empty, c)
<1>1. /\ q \in Queue /\ l \in Lease /\ h \in Hand /\ k \in Nat
      /\ q.committed \in Nat /\ q.parked \in Nat /\ q.reparking \in Nat
      /\ l.tokens \in Nat /\ h.tokens \in Nat /\ h.slot \in Slots \cup {None}
      /\ HeldIn(l, h) \subseteq q.inUse /\ q.free = (0..(q.capacity - 1)) \ q.inUse
      /\ TokensIn(l, "took", h) \in Nat /\ TokensIn(l, "took", h) <= q.committed
  <2>1. EntryFields(q, k, l, "took", h, c) /\ HeldIn(l, h) \subseteq q.inUse
    BY FieldsOfEntry DEF Entry
  <2>2. QED
    BY <2>1 DEF EntryFields
<1>2. l.slot = None /\ l.parked /\ ~l.budgeted /\ l.returning = "no"
  BY DEF Entry, Fields
<1>3. Empty \in Hand /\ Empty.slot = None
  BY DEF Hand, Empty
<1>4. PICK n \in Nat : n = IF h.slot = None THEN l.tokens ELSE l.tokens + h.tokens
  BY <1>1
<1>5. /\ l2 \in Lease /\ l2.slot = h.slot /\ l2.tokens = n /\ ~l2.parked /\ ~l2.budgeted /\ ~l2.released
      /\ l2.returning = "no"
  <2>1. CASE h.slot = None
    BY <1>1, <1>2, <1>4, <2>1 DEF Lease
  <2>2. CASE h.slot # None
    <3>1. l2 = [l EXCEPT !.parked = FALSE, !.slot = h.slot, !.tokens = n, !.parkedTokens = 0]
      BY <1>4, <2>2
    <3>2. QED
      BY ONLY <1>1, <1>2, <3>1, ~l.released DEF Lease
  <2>3. QED
    BY <2>1, <2>2
<1>6. Fields(l2, x2, Empty)
  BY <1>3, <1>5 DEF Fields
<1>7. HeldIn(l2, Empty) = HeldIn(l, h)
  BY <1>2, <1>3, <1>5 DEF HeldIn
<1>8. TokensIn(l, "took", h) = n /\ TokensIn(l2, x2, Empty) = n
  BY <1>1, <1>4, <1>5 DEF TokensIn
<1>9. /\ ParkedIn(l) /\ ~ParkedIn(l2) /\ Reclaimable(l2) = 0 /\ 1 <= q.parked
      /\ One(ParkedIn(l)) = 1 /\ One(ParkedIn(l2)) = 0
  BY <1>2, <1>5 DEF ParkedIn, Reclaimable, One, Entry
<1> DEFINE r == Unparked(q, c)
<1>10. /\ Leaves(q, r)
       /\ r.parked = q.parked - 1 /\ r.reclaimable = [q.reclaimable EXCEPT ![c] = 0]
       /\ r.inUse = q.inUse /\ r.free = q.free /\ r.capacity = q.capacity
       /\ r.committed = q.committed /\ r.reparking = q.reparking
  BY <1>1, <1>9, UnparkedFields
<1> HIDE DEF r
<1>11. /\ r.inUse = (q.inUse \ HeldIn(l, h)) \cup HeldIn(l2, Empty)
       /\ (HeldIn(l2, Empty) \ HeldIn(l, h)) \cap q.inUse = {}
       /\ r.free = (0..(r.capacity - 1)) \ r.inUse
  BY <1>1, <1>7, <1>10
<1>12. r.committed = q.committed - TokensIn(l, "took", h) + TokensIn(l2, x2, Empty)
  BY ONLY <1>1, <1>4, <1>8, <1>10, Cancels
<1>13. /\ k = k - One(l.budgeted) + One(l2.budgeted)
       /\ q.reparking = q.reparking - One("took" = "waiting") + One(x2 = "waiting")
  <2>1. One(l.budgeted) = 0 /\ One(l2.budgeted) = 0 /\ One("took" = "waiting") = 0 /\ One(x2 = "waiting") = 0
    BY <1>2, <1>5 DEF One
  <2>2. QED
    BY ONLY <1>1, <2>1, OneIsNat, Cancels
<1>14. r.parked = q.parked - One(ParkedIn(l)) + One(ParkedIn(l2))
  BY ONLY <1>1, <1>9, <1>10, OneLess
<1>15. QED
  BY <1>3, <1>5, <1>6, <1>9, <1>10, <1>11, <1>12, <1>13, <1>14 DEF Step, r

(* A stream is torn down while its call is parked.                          *)
LEMMA TeardownStep ==
    ASSUME NEW q, NEW k, NEW l, NEW x, NEW h, NEW c \in Clients, Entry(q, k, l, x, h, c),
           x \in {"parked", "erasing", "unwatched"}, l.parked, NEW l2,
           l2 = [l EXCEPT !.parked = FALSE, !.budgeted = FALSE]
    PROVE  /\ Leaves(q, Unparked(q, c)) /\ l2 \in Lease
           /\ Step(q, k, l, x, h, Unparked(q, c), k - One(l.budgeted), l2, "leaving", h, c)
<1>1. /\ q \in Queue /\ l \in Lease /\ h \in Hand /\ k \in Nat
      /\ q.committed \in Nat /\ q.parked \in Nat /\ q.reparking \in Nat
      /\ q.free = (0..(q.capacity - 1)) \ q.inUse
      /\ TokensIn(l, x, h) \in Nat
  <2>1. EntryFields(q, k, l, x, h, c)
    BY FieldsOfEntry
  <2>2. QED
    BY <2>1 DEF EntryFields
<1>2. l.slot = None /\ h.slot = None /\ ~l.released /\ l.returning = "no"
  BY DEF Entry, Fields
<1>3. /\ l2 \in Lease /\ l2.slot = None /\ l2.tokens = l.tokens /\ ~l2.parked /\ ~l2.budgeted /\ ~l2.released
      /\ l2.returning = "no"
  BY <1>1, <1>2 DEF Lease
<1>4. Fields(l2, "leaving", h)
  BY <1>2, <1>3 DEF Fields
<1>5. HeldIn(l, h) = {} /\ HeldIn(l2, h) = {}
  BY <1>2, <1>3 DEF HeldIn
<1>6. TokensIn(l2, "leaving", h) = TokensIn(l, x, h)
  BY <1>3 DEF TokensIn
<1>7. /\ ParkedIn(l) /\ ~ParkedIn(l2) /\ Reclaimable(l2) = 0 /\ 1 <= q.parked
      /\ One(ParkedIn(l)) = 1 /\ One(ParkedIn(l2)) = 0 /\ One(l2.budgeted) = 0
      /\ One(l.budgeted) \in Nat /\ One(l.budgeted) <= k
      /\ One(x = "waiting") = 0 /\ One("leaving" = "waiting") = 0
  BY <1>2, <1>3 DEF ParkedIn, Reclaimable, One, Entry
<1> DEFINE r == Unparked(q, c)
<1>8. /\ Leaves(q, r)
      /\ r.parked = q.parked - 1 /\ r.reclaimable = [q.reclaimable EXCEPT ![c] = 0]
      /\ r.inUse = q.inUse /\ r.free = q.free /\ r.capacity = q.capacity
      /\ r.committed = q.committed /\ r.reparking = q.reparking
  BY <1>1, <1>7, UnparkedFields
<1> HIDE DEF r
<1>9. /\ r.inUse = (q.inUse \ HeldIn(l, h)) \cup HeldIn(l2, h)
      /\ (HeldIn(l2, h) \ HeldIn(l, h)) \cap q.inUse = {}
      /\ r.free = (0..(r.capacity - 1)) \ r.inUse
  BY <1>1, <1>5, <1>8
<1>10. r.committed = q.committed - TokensIn(l, x, h) + TokensIn(l2, "leaving", h)
  BY ONLY <1>1, <1>6, <1>8, Cancels
<1>11. r.parked = q.parked - One(ParkedIn(l)) + One(ParkedIn(l2))
  BY ONLY <1>1, <1>7, <1>8, OneLess
<1>12. r.reparking = q.reparking - One(x = "waiting") + One("leaving" = "waiting")
  BY ONLY <1>1, <1>7, <1>8, OneIsNat, Cancels
<1>13. k - One(l.budgeted) = k - One(l.budgeted) + One(l2.budgeted)
  BY ONLY <1>1, <1>7
<1>14. QED
  BY <1>3, <1>4, <1>7, <1>8, <1>9, <1>10, <1>11, <1>12, <1>13 DEF Step, r

(* release() marks the lease; what it holds stays on the books until the    *)
(* queue is told.                                                           *)
LEMMA ReleaseStep ==
    ASSUME NEW q, NEW k, NEW l, NEW x, NEW h, NEW c \in Clients, Entry(q, k, l, x, h, c),
           x \notin {"away", "queued", "granted", "gone"}, ~l.released, NEW l2,
           l2 = [l EXCEPT !.released = TRUE, !.parked = FALSE, !.budgeted = FALSE,
                          !.returning = IF l.parked THEN "parked" ELSE "lease"]
    PROVE  l2 \in Lease /\ Step(q, k, l, x, h, q, k - One(l.budgeted), l2, x, h, c)
<1>1. /\ q \in Queue /\ l \in Lease /\ h \in Hand /\ k \in Nat
      /\ q.committed \in Nat /\ q.parked \in Nat /\ q.reparking \in Nat
      /\ q.free = (0..(q.capacity - 1)) \ q.inUse
      /\ q.reclaimable = [q.reclaimable EXCEPT ![c] = Reclaimable(l)]
      /\ TokensIn(l, x, h) \in Nat /\ HeldIn(l, h) \subseteq q.inUse
      /\ (l.slot # None => h.slot = None)
  <2>1. EntryFields(q, k, l, x, h, c) /\ HeldIn(l, h) \subseteq q.inUse
    BY FieldsOfEntry DEF Entry
  <2>2. QED
    BY <2>1 DEF EntryFields
<1>2. l.returning = "no"
  BY DEF Entry, Fields
<1>3. /\ l2 \in Lease /\ l2.slot = l.slot /\ l2.tokens = l.tokens /\ ~l2.parked /\ ~l2.budgeted /\ l2.released
      /\ l2.returning = IF l.parked THEN "parked" ELSE "lease"
  BY <1>1 DEF Lease
<1>4. Fields(l2, x, h)
  BY <1>3 DEF Fields, Entry
<1>5. HeldIn(l2, h) = HeldIn(l, h)
  BY <1>3 DEF HeldIn
<1>6. TokensIn(l2, x, h) = TokensIn(l, x, h)
  BY <1>3 DEF TokensIn
<1>7. /\ ParkedIn(l2) <=> ParkedIn(l)
      /\ Reclaimable(l2) = Reclaimable(l)
      /\ One(ParkedIn(l2)) = One(ParkedIn(l)) /\ One(l2.budgeted) = 0
      /\ One(l.budgeted) \in Nat /\ One(ParkedIn(l)) \in Nat /\ One(x = "waiting") \in Nat
  BY <1>2, <1>3 DEF ParkedIn, Reclaimable, One
<1>8. /\ q.inUse = (q.inUse \ HeldIn(l, h)) \cup HeldIn(l2, h)
      /\ (HeldIn(l2, h) \ HeldIn(l, h)) \cap q.inUse = {}
  BY <1>1, <1>5
<1>9. /\ q.committed = q.committed - TokensIn(l, x, h) + TokensIn(l2, x, h)
      /\ q.parked = q.parked - One(ParkedIn(l)) + One(ParkedIn(l2))
      /\ q.reparking = q.reparking - One(x = "waiting") + One(x = "waiting")
  BY ONLY <1>1, <1>6, <1>7, Cancels
<1>10. k - One(l.budgeted) = k - One(l.budgeted) + One(l2.budgeted)
  BY ONLY <1>1, <1>7
<1>11. QED
  BY ONLY <1>1, <1>3, <1>4, <1>7, <1>8, <1>9, <1>10 DEF Step

(* The steps of a request that grows: it is not parked, and its slot stays. *)
LEMMA GrowthStep ==
    ASSUME NEW q, NEW k, NEW l, NEW x, NEW h, NEW c \in Clients, Entry(q, k, l, x, h, c),
           x \in {"holding", "yielding", "waiting", "reclaimed"},
           NEW q2, NEW l2, NEW x2, NEW h2,
           q2.inUse = q.inUse, q2.free = q.free, q2.capacity = q.capacity,
           q2.parked = q.parked, q2.reclaimable = q.reclaimable,
           q2.committed = q.committed - TokensIn(l, x, h) + TokensIn(l2, x2, h2),
           q2.reparking = q.reparking - One(x = "waiting") + One(x2 = "waiting"),
           l2.slot = l.slot, l2.parked = l.parked, l2.budgeted = l.budgeted, l2.returning = l.returning,
           h2.slot = None, Fields(l2, x2, h2)
    PROVE  Step(q, k, l, x, h, q2, k, l2, x2, h2, c)
<1>1. /\ k \in Nat /\ q.parked \in Nat
      /\ q.free = (0..(q.capacity - 1)) \ q.inUse
      /\ q.reclaimable = [q.reclaimable EXCEPT ![c] = Reclaimable(l)]
      /\ HeldIn(l, h) \subseteq q.inUse
  <2>1. EntryFields(q, k, l, x, h, c) /\ HeldIn(l, h) \subseteq q.inUse
    BY FieldsOfEntry DEF Entry
  <2>2. QED
    BY <2>1 DEF EntryFields
<1>2. ~ParkedIn(l) /\ ~ParkedIn(l2) /\ h.slot = None
  <2>1. ~l.parked /\ h.slot = None /\ l.returning # "parked"
    BY DEF Entry, Fields
  <2>2. QED
    BY <2>1 DEF ParkedIn
<1>3. Reclaimable(l) = 0 /\ Reclaimable(l2) = 0 /\ One(ParkedIn(l)) = 0 /\ One(ParkedIn(l2)) = 0
  BY <1>2 DEF Reclaimable, One
<1>4. HeldIn(l2, h2) = HeldIn(l, h)
  BY <1>2 DEF HeldIn
<1>5. /\ q2.inUse = (q.inUse \ HeldIn(l, h)) \cup HeldIn(l2, h2)
      /\ (HeldIn(l2, h2) \ HeldIn(l, h)) \cap q.inUse = {}
  BY <1>1, <1>4
<1>6. q2.parked = q.parked - One(ParkedIn(l)) + One(ParkedIn(l2))
  BY <1>1, <1>3
<1>7. k = k - One(l.budgeted) + One(l2.budgeted)
  BY <1>1, OneIsNat, Cancels
<1>8. q2.reclaimable = [q.reclaimable EXCEPT ![c] = Reclaimable(l2)] /\ q2.free = (0..(q2.capacity - 1)) \ q2.inUse
  BY <1>1, <1>3
<1>9. QED
  BY <1>5, <1>6, <1>7, <1>8 DEF Step

(* try_recost to less.                                                      *)
LEMMA ShrinkStep ==
    ASSUME NEW q, NEW k, NEW l, NEW h, NEW c \in Clients, Entry(q, k, l, "holding", h, c), ~l.released,
           NEW want \in Nat, want < l.tokens, NEW q2, NEW l2,
           q2 = TokensReturned(q, l.tokens - want), l2 = [l EXCEPT !.tokens = want]
    PROVE  Leaves(q, q2) /\ l2 \in Lease /\ Step(q, k, l, "holding", h, q2, k, l2, "holding", h, c)
<1>1. /\ q \in Queue /\ l \in Lease /\ q.committed \in Nat /\ q.reparking \in Nat
      /\ l.tokens \in Nat /\ l.tokens <= q.committed /\ h.slot = None
  <2>1. EntryFields(q, k, l, "holding", h, c) /\ h.slot = None
    BY FieldsOfEntry DEF Entry, Fields
  <2>2. QED
    BY <2>1 DEF EntryFields
<1>2. PICK n \in Nat : n = l.tokens - want
  BY <1>1
<1>3. n <= q.committed
  BY <1>1, <1>2
<1>4. /\ Leaves(q, q2) /\ q2.committed = q.committed - n
      /\ q2.inUse = q.inUse /\ q2.free = q.free /\ q2.capacity = q.capacity
      /\ q2.parked = q.parked /\ q2.reclaimable = q.reclaimable /\ q2.reparking = q.reparking
  <2>1. q2 = TokensReturned(q, n)
    BY <1>2
  <2>2. QED
    BY ONLY <1>1, <1>2, <1>3, <2>1, TokensReturnedFields
<1>5. /\ l2 \in Lease /\ l2.tokens = want /\ l2.slot = l.slot /\ l2.parked = l.parked /\ l2.budgeted = l.budgeted
      /\ l2.released = l.released /\ l2.returning = l.returning
  BY <1>1 DEF Lease
<1>6. TokensIn(l, "holding", h) = l.tokens /\ TokensIn(l2, "holding", h) = want
  BY <1>1, <1>5 DEF TokensIn
<1>7. Fields(l2, "holding", h)
  BY <1>5 DEF Fields, Entry
<1>8. q2.committed = q.committed - TokensIn(l, "holding", h) + TokensIn(l2, "holding", h)
  BY ONLY <1>1, <1>2, <1>4, <1>6, want \in Nat
<1>9. q2.reparking = q.reparking - One("holding" = "waiting") + One("holding" = "waiting")
  BY ONLY <1>1, <1>4, OneIsNat, Cancels
<1>10. Step(q, k, l, "holding", h, q2, k, l2, "holding", h, c)
  BY ONLY <1>1, <1>4, <1>5, <1>7, <1>8, <1>9, GrowthStep, c \in Clients, Entry(q, k, l, "holding", h, c)
<1>11. QED
  BY <1>4, <1>5, <1>10

(* try_recost to more, which fits.                                          *)
LEMMA GrowStep ==
    ASSUME NEW q, NEW k, NEW l, NEW h, NEW c \in Clients, Entry(q, k, l, "holding", h, c), ~l.released,
           NEW want \in Nat, want > l.tokens, NEW q2, NEW l2,
           q2 = [q EXCEPT !.committed = @ + want - l.tokens], l2 = [l EXCEPT !.tokens = want]
    PROVE  Leaves(q, q2) /\ l2 \in Lease /\ Step(q, k, l, "holding", h, q2, k, l2, "holding", h, c)
<1>1. /\ q \in Queue /\ l \in Lease /\ q.committed \in Nat /\ q.reparking \in Nat
      /\ l.tokens \in Nat /\ l.tokens <= q.committed /\ h.slot = None
  <2>1. EntryFields(q, k, l, "holding", h, c) /\ h.slot = None
    BY FieldsOfEntry DEF Entry, Fields
  <2>2. QED
    BY <2>1 DEF EntryFields
<1>2. PICK n \in Nat : n = q.committed + want - l.tokens
  BY <1>1
<1>4. /\ Leaves(q, q2) /\ q2.committed = n
      /\ q2.inUse = q.inUse /\ q2.free = q.free /\ q2.capacity = q.capacity
      /\ q2.parked = q.parked /\ q2.reclaimable = q.reclaimable /\ q2.reparking = q.reparking
  <2>1. q2 = [q EXCEPT !.committed = n]
    BY <1>2
  <2>2. QED
    BY ONLY <1>1, <1>2, <2>1 DEF Leaves, Queue
<1>5. /\ l2 \in Lease /\ l2.tokens = want /\ l2.slot = l.slot /\ l2.parked = l.parked /\ l2.budgeted = l.budgeted
      /\ l2.released = l.released /\ l2.returning = l.returning
  BY <1>1 DEF Lease
<1>6. TokensIn(l, "holding", h) = l.tokens /\ TokensIn(l2, "holding", h) = want
  BY <1>1, <1>5 DEF TokensIn
<1>7. Fields(l2, "holding", h)
  BY <1>5 DEF Fields, Entry
<1>8. q2.committed = q.committed - TokensIn(l, "holding", h) + TokensIn(l2, "holding", h)
  BY ONLY <1>1, <1>2, <1>4, <1>6, want \in Nat
<1>9. q2.reparking = q.reparking - One("holding" = "waiting") + One("holding" = "waiting")
  BY ONLY <1>1, <1>4, OneIsNat, Cancels
<1>10. Step(q, k, l, "holding", h, q2, k, l2, "holding", h, c)
  BY ONLY <1>1, <1>4, <1>5, <1>7, <1>8, <1>9, GrowthStep, c \in Clients, Entry(q, k, l, "holding", h, c)
<1>11. QED
  BY <1>4, <1>5, <1>10

(* recost_waiting gives up its commitment first, on its own books.          *)
LEMMA AskStep ==
    ASSUME NEW q, NEW k, NEW l, NEW h, NEW c \in Clients, Entry(q, k, l, "holding", h, c), ~l.released,
           NEW want \in Nat, NEW l2, NEW h2,
           l2 = [l EXCEPT !.tokens = 0], h2 = [Empty EXCEPT !.tokens = l.tokens, !.want = want]
    PROVE  l2 \in Lease /\ h2 \in Hand /\ Step(q, k, l, "holding", h, q, k, l2, "yielding", h2, c)
<1>1. /\ q \in Queue /\ l \in Lease /\ q.committed \in Nat /\ q.reparking \in Nat
      /\ l.tokens \in Nat /\ h.slot = None
  <2>1. EntryFields(q, k, l, "holding", h, c) /\ h.slot = None
    BY FieldsOfEntry DEF Entry, Fields
  <2>2. QED
    BY <2>1 DEF EntryFields
<1>2. /\ l2 \in Lease /\ l2.tokens = 0 /\ l2.slot = l.slot /\ l2.parked = l.parked /\ l2.budgeted = l.budgeted
      /\ l2.released = l.released /\ l2.returning = l.returning
  BY <1>1 DEF Lease
<1>3. h2 \in Hand /\ h2.slot = None /\ h2.tokens = l.tokens
  BY <1>1 DEF Hand, Empty
<1>4. TokensIn(l, "holding", h) = l.tokens /\ TokensIn(l2, "yielding", h2) = l.tokens
  BY <1>1, <1>2, <1>3 DEF TokensIn
<1>5. Fields(l2, "yielding", h2)
  BY <1>2, <1>3 DEF Fields, Entry
<1>6. /\ q.committed = q.committed - TokensIn(l, "holding", h) + TokensIn(l2, "yielding", h2)
      /\ q.reparking = q.reparking - One("holding" = "waiting") + One("yielding" = "waiting")
  <2>1. One("holding" = "waiting") = 0 /\ One("yielding" = "waiting") = 0
    BY DEF One
  <2>2. QED
    BY ONLY <1>1, <1>4, <2>1, Cancels
<1>7. Step(q, k, l, "holding", h, q, k, l2, "yielding", h2, c)
  BY ONLY <1>2, <1>3, <1>5, <1>6, GrowthStep, c \in Clients, Entry(q, k, l, "holding", h, c)
<1>8. QED
  BY <1>2, <1>3, <1>7

(* yield_commitment.                                                        *)
LEMMA YieldStep ==
    ASSUME NEW q, NEW k, NEW l, NEW h, NEW c \in Clients, Entry(q, k, l, "yielding", h, c), NEW q2,
           q2 = [TokensReturned(q, h.tokens) EXCEPT !.reparking = @ + 1]
    PROVE  Leaves(q, q2) /\ Step(q, k, l, "yielding", h, q2, k, l, "waiting", h, c)
<1>1. /\ q \in Queue /\ l \in Lease /\ q.committed \in Nat /\ q.reparking \in Nat
      /\ l.tokens = 0 /\ h.slot = None /\ h.tokens \in Nat
      /\ TokensIn(l, "yielding", h) \in Nat /\ TokensIn(l, "yielding", h) <= q.committed
  <2>1. EntryFields(q, k, l, "yielding", h, c) /\ h.slot = None /\ l.tokens = 0
    BY FieldsOfEntry DEF Entry, Fields
  <2>2. QED
    BY <2>1 DEF EntryFields
<1>2. TokensIn(l, "yielding", h) = h.tokens /\ TokensIn(l, "waiting", h) = 0
  BY <1>1 DEF TokensIn
<1> DEFINE r == TokensReturned(q, h.tokens)
<1>3. /\ Leaves(q, r) /\ r.committed = q.committed - h.tokens
      /\ r.inUse = q.inUse /\ r.free = q.free /\ r.capacity = q.capacity
      /\ r.parked = q.parked /\ r.reclaimable = q.reclaimable /\ r.reparking = q.reparking
  BY <1>1, <1>2, TokensReturnedFields
<1>4. PICK n \in Nat : n = r.reparking + 1
  BY <1>1, <1>3
<1>5. q2 = [r EXCEPT !.reparking = n]
  BY <1>4
<1> HIDE DEF r
<1>6. /\ Leaves(q, q2) /\ q2.committed = q.committed - h.tokens
      /\ q2.inUse = q.inUse /\ q2.free = q.free /\ q2.capacity = q.capacity
      /\ q2.parked = q.parked /\ q2.reclaimable = q.reclaimable /\ q2.reparking = q.reparking + 1
  BY ONLY <1>3, <1>4, <1>5 DEF Leaves, Queue
<1>7. Fields(l, "waiting", h)
  BY DEF Fields, Entry
<1>8. /\ q2.committed = q.committed - TokensIn(l, "yielding", h) + TokensIn(l, "waiting", h)
      /\ q2.reparking = q.reparking - One("yielding" = "waiting") + One("waiting" = "waiting")
  <2>1. One("yielding" = "waiting") = 0 /\ One("waiting" = "waiting") = 1
    BY DEF One
  <2>2. \A a, b \in Nat : a - b = a - b + 0
    OBVIOUS
  <2>3. QED
    BY ONLY <1>1, <1>2, <1>6, <2>1, <2>2, OneMore
<1>9. Step(q, k, l, "yielding", h, q2, k, l, "waiting", h, c)
  BY ONLY <1>1, <1>6, <1>7, <1>8, GrowthStep, c \in Clients, Entry(q, k, l, "yielding", h, c)
<1>10. QED
  BY <1>6, <1>9

(* The end of a repark: n tokens are committed again, for the lease or for  *)
(* the hand that will give them to it.                                      *)
LEMMA ReparkEnds ==
    ASSUME NEW q, NEW k, NEW l, NEW h, NEW c \in Clients, Entry(q, k, l, "waiting", h, c), NEW n \in Nat,
           NEW q2, NEW l2, NEW x2, NEW h2,
           q2 = EndRepark([q EXCEPT !.committed = @ + n]), x2 # "waiting",
           TokensIn(l2, x2, h2) = n, h2.slot = None,
           l2.slot = l.slot, l2.parked = l.parked, l2.budgeted = l.budgeted, l2.returning = l.returning,
           Fields(l2, x2, h2)
    PROVE  Leaves(q, q2) /\ q2.committed = q.committed + n /\ Step(q, k, l, "waiting", h, q2, k, l2, x2, h2, c)
<1>1. /\ q \in Queue /\ l \in Lease /\ q.committed \in Nat /\ q.reparking \in Nat
      /\ l.tokens = 0 /\ h.slot = None /\ 1 <= q.reparking
  <2>1. EntryFields(q, k, l, "waiting", h, c) /\ h.slot = None /\ l.tokens = 0 /\ 1 <= q.reparking
    BY FieldsOfEntry DEF Entry, Fields, One
  <2>2. QED
    BY <2>1 DEF EntryFields
<1>2. TokensIn(l, "waiting", h) = 0
  BY <1>1 DEF TokensIn
<1>3. PICK m \in Nat : m = q.committed + n
  BY <1>1
<1> DEFINE r == [q EXCEPT !.committed = m]
<1>4. r = [q EXCEPT !.committed = @ + n]
  BY <1>3
<1>5. /\ Leaves(q, r) /\ r.committed = m
      /\ r.inUse = q.inUse /\ r.free = q.free /\ r.capacity = q.capacity
      /\ r.parked = q.parked /\ r.reclaimable = q.reclaimable /\ r.reparking = q.reparking
  BY ONLY <1>1, <1>3 DEF Leaves, Queue
<1>6. q2 = EndRepark(r)
  BY <1>4
<1> HIDE DEF r
<1>7. /\ Leaves(r, q2) /\ q2.reparking = r.reparking - 1 /\ q2.committed = r.committed
      /\ q2.inUse = r.inUse /\ q2.free = r.free /\ q2.capacity = r.capacity
      /\ q2.parked = r.parked /\ q2.reclaimable = r.reclaimable
  <2>1. r \in Queue /\ 1 <= r.reparking
    BY <1>1, <1>5 DEF Leaves
  <2>2. QED
    BY ONLY <1>6, <2>1, EndReparkFields
<1>8. /\ q2.committed = q.committed - TokensIn(l, "waiting", h) + TokensIn(l2, x2, h2)
      /\ q2.reparking = q.reparking - One("waiting" = "waiting") + One(x2 = "waiting")
  <2>1. One("waiting" = "waiting") = 1 /\ One(x2 = "waiting") = 0
    BY DEF One
  <2>2. \A a, b \in Nat : a + b = a - 0 + b
    OBVIOUS
  <2>3. TokensIn(l2, x2, h2) = n
    OBVIOUS
  <2>4. QED
    BY ONLY <1>1, <1>2, <1>3, <1>5, <1>7, <2>1, <2>2, <2>3, OneLess
<1>9. Step(q, k, l, "waiting", h, q2, k, l2, x2, h2, c)
  <2>1. /\ q2.inUse = q.inUse /\ q2.free = q.free /\ q2.capacity = q.capacity
        /\ q2.parked = q.parked /\ q2.reclaimable = q.reclaimable
    BY <1>5, <1>7
  <2>2. QED
    BY <1>8, <2>1, GrowthStep
<1>10. QED
  BY <1>3, <1>5, <1>7, <1>9 DEF Leaves

(* try_reclaim_commitment, and the two ends of a wait that is given up.     *)
LEMMA ReclaimStep ==
    ASSUME NEW q, NEW k, NEW l, NEW h, NEW c \in Clients, Entry(q, k, l, "waiting", h, c), NEW q2,
           q2 = EndRepark([q EXCEPT !.committed = @ + h.want])
    PROVE  /\ Leaves(q, q2) /\ q2.committed = q.committed + h.want
           /\ Step(q, k, l, "waiting", h, q2, k, l, "reclaimed", h, c)
<1>1. h.want \in Nat /\ h.slot = None /\ l.tokens = 0 /\ Fields(l, "reclaimed", h)
  BY DEF Entry, Fields, Hand
<1>2. TokensIn(l, "reclaimed", h) = h.want
  BY <1>1 DEF TokensIn
<1>3. QED
  BY <1>1, <1>2, ReparkEnds

(* A repark that is given up.                                               *)
LEMMA GiveUpStep ==
    ASSUME NEW q, NEW k, NEW l, NEW h, NEW c \in Clients, Entry(q, k, l, "waiting", h, c), ~l.released,
           NEW q2, NEW l2,
           q2 = EndRepark([q EXCEPT !.committed = @ + h.tokens]), l2 = [l EXCEPT !.tokens = h.tokens]
    PROVE  /\ Leaves(q, q2) /\ l2 \in Lease /\ Empty \in Hand
           /\ Step(q, k, l, "waiting", h, q2, k, l2, "holding", Empty, c)
<1>1. h.tokens \in Nat /\ l \in Lease /\ Empty.slot = None /\ Empty \in Hand
  BY DEF Entry, Hand, Empty
<1>2. /\ l2 \in Lease /\ l2.tokens = h.tokens /\ l2.slot = l.slot /\ l2.parked = l.parked
      /\ l2.budgeted = l.budgeted /\ l2.released = l.released /\ l2.returning = l.returning
  BY <1>1 DEF Lease
<1>3. Fields(l2, "holding", Empty)
  BY <1>1, <1>2 DEF Fields, Entry
<1>4. TokensIn(l2, "holding", Empty) = h.tokens
  BY <1>1, <1>2 DEF TokensIn
<1>5. Leaves(q, q2) /\ Step(q, k, l, "waiting", h, q2, k, l2, "holding", Empty, c)
  BY ONLY <1>1, <1>2, <1>3, <1>4, ReparkEnds, c \in Clients, Entry(q, k, l, "waiting", h, c),
          q2 = EndRepark([q EXCEPT !.committed = @ + h.tokens])
<1>6. QED
  BY <1>1, <1>2, <1>5

(* A repark of a lease that was released.                                   *)
LEMMA LeaveRepark ==
    ASSUME NEW q, NEW k, NEW l, NEW h, NEW c \in Clients, Entry(q, k, l, "waiting", h, c), l.released
    PROVE  /\ Leaves(q, EndRepark(q)) /\ Empty \in Hand
           /\ Step(q, k, l, "waiting", h, EndRepark(q), k, l, "gone", Empty, c)
<1>1. l \in Lease /\ l.tokens = 0 /\ Empty.slot = None /\ Empty \in Hand /\ Fields(l, "gone", Empty)
  BY DEF Entry, Hand, Empty, Fields
<1>2. TokensIn(l, "gone", Empty) = 0
  BY <1>1 DEF TokensIn
<1>3. q = [q EXCEPT !.committed = @ + 0]
  <2>1. q \in Queue /\ q.committed + 0 = q.committed
    BY DEF Entry, Queue
  <2>2. q = [q EXCEPT !.committed = q.committed]
    BY <2>1 DEF Queue
  <2>3. QED
    BY <2>1, <2>2
<1>4. EndRepark(q) = EndRepark([q EXCEPT !.committed = @ + 0])
  BY <1>3
<1>5. QED
  BY <1>1, <1>2, <1>4, ReparkEnds

(* The end of recost_waiting.                                               *)
LEMMA GrownStep ==
    ASSUME NEW q, NEW k, NEW l, NEW h, NEW c \in Clients, Entry(q, k, l, "reclaimed", h, c), ~l.released, NEW l2,
           l2 = [l EXCEPT !.tokens = h.want]
    PROVE  l2 \in Lease /\ Empty \in Hand /\ Step(q, k, l, "reclaimed", h, q, k, l2, "holding", Empty, c)
<1>1. /\ q \in Queue /\ l \in Lease /\ q.committed \in Nat /\ q.reparking \in Nat
      /\ l.tokens = 0 /\ h.want \in Nat /\ Empty.slot = None /\ Empty \in Hand
  BY DEF Entry, Fields, Queue, Hand, Empty
<1>2. /\ l2 \in Lease /\ l2.tokens = h.want /\ l2.slot = l.slot /\ l2.parked = l.parked
      /\ l2.budgeted = l.budgeted /\ l2.released = l.released /\ l2.returning = l.returning
  BY <1>1 DEF Lease
<1>3. Fields(l2, "holding", Empty)
  BY <1>1, <1>2 DEF Fields, Entry
<1>4. TokensIn(l, "reclaimed", h) = h.want /\ TokensIn(l2, "holding", Empty) = h.want
  BY <1>1, <1>2 DEF TokensIn
<1>5. /\ q.committed = q.committed - TokensIn(l, "reclaimed", h) + TokensIn(l2, "holding", Empty)
      /\ q.reparking = q.reparking - One("reclaimed" = "waiting") + One("holding" = "waiting")
  <2>1. One("reclaimed" = "waiting") = 0 /\ One("holding" = "waiting") = 0
    BY DEF One
  <2>2. QED
    BY ONLY <1>1, <1>4, <2>1, Cancels
<1>6. Step(q, k, l, "reclaimed", h, q, k, l2, "holding", Empty, c)
  BY ONLY <1>1, <1>2, <1>3, <1>5, GrowthStep, c \in Clients, Entry(q, k, l, "reclaimed", h, c)
<1>7. QED
  BY <1>1, <1>2, <1>6

(* The lease was released meanwhile: its growth goes back.                  *)
LEMMA GrowthBackStep ==
    ASSUME NEW q, NEW k, NEW l, NEW h, NEW c \in Clients, Entry(q, k, l, "reclaimed", h, c), l.released, NEW q2,
           q2 = TokensReturned(q, h.want)
    PROVE  Leaves(q, q2) /\ Empty \in Hand /\ Step(q, k, l, "reclaimed", h, q2, k, l, "gone", Empty, c)
<1>1. /\ q \in Queue /\ l \in Lease /\ q.committed \in Nat /\ q.reparking \in Nat
      /\ l.tokens = 0 /\ h.want \in Nat /\ Empty.slot = None /\ Empty \in Hand
      /\ Fields(l, "gone", Empty) /\ TokensIn(l, "reclaimed", h) <= q.committed
  BY DEF Entry, Fields, Queue, Hand, Empty
<1>2. TokensIn(l, "reclaimed", h) = h.want /\ TokensIn(l, "gone", Empty) = 0
  BY <1>1 DEF TokensIn
<1>3. /\ Leaves(q, q2) /\ q2.committed = q.committed - h.want
      /\ q2.inUse = q.inUse /\ q2.free = q.free /\ q2.capacity = q.capacity
      /\ q2.parked = q.parked /\ q2.reclaimable = q.reclaimable /\ q2.reparking = q.reparking
  BY <1>1, <1>2, TokensReturnedFields
<1>4. /\ q2.committed = q.committed - TokensIn(l, "reclaimed", h) + TokensIn(l, "gone", Empty)
      /\ q2.reparking = q.reparking - One("reclaimed" = "waiting") + One("gone" = "waiting")
  <2>1. One("reclaimed" = "waiting") = 0 /\ One("gone" = "waiting") = 0
    BY DEF One
  <2>2. \A a, b \in Nat : a - b = a - b + 0
    OBVIOUS
  <2>3. QED
    BY ONLY <1>1, <1>2, <1>3, <2>1, <2>2, Cancels
<1>5. Step(q, k, l, "reclaimed", h, q2, k, l, "gone", Empty, c)
  BY ONLY <1>1, <1>3, <1>4, GrowthStep, c \in Clients, Entry(q, k, l, "reclaimed", h, c)
<1>6. QED
  BY <1>1, <1>3, <1>5

(* A finite set of integers has a greatest member: so has every subset      *)
(* that is minimal without one.                                             *)
LEMMA FiniteHasMax ==
    ASSUME NEW S, S \subseteq Int, IsFiniteSet(S), S # {}
    PROVE  \E m \in S : \A y \in S : m >= y
<1> DEFINE HasMax(s) == \E m \in s : \A y \in s : m >= y
           T == {s \in SUBSET S : s # {} /\ ~HasMax(s)}
<1>1. SUFFICES ASSUME T # {} PROVE FALSE
  OBVIOUS
<1>2. IsWellFoundedOn(StrictSubsetOrdering(S), SUBSET S)
  BY FS_StrictSubsetOrderingWellFounded, FS_FiniteSubsetsOfFinite
<1>3. PICK s \in T : \A r \in T : ~(<<r, s>> \in StrictSubsetOrdering(S))
  <2>1. T \subseteq SUBSET S
    OBVIOUS
  <2> HIDE DEF T
  <2>2. QED
    BY <1>1, <1>2, <2>1, WFMin
<1>4. PICK x \in s : TRUE
  OBVIOUS
<1> DEFINE r == s \ {x}
<1>5. s \subseteq Int /\ ~HasMax(s) /\ r \in SUBSET S /\ r # s /\ r \subseteq s
  BY <1>4
<1>6. <<r, s>> \in StrictSubsetOrdering(S)
  BY <1>5 DEF StrictSubsetOrdering
<1>7. r = {} \/ HasMax(r)
  BY <1>3, <1>5, <1>6
<1>8. CASE r = {}
  <2>1. s = {x}
    BY <1>4, <1>8
  <2>2. QED
    BY <1>4, <1>5, <2>1
<1>9. CASE HasMax(r)
  <2>1. PICK m \in r : \A y \in r : m >= y
    BY <1>9
  <2>2. CASE x >= m
    BY <1>4, <1>5, <2>1, <2>2
  <2>3. CASE m >= x
    BY <1>4, <1>5, <2>1, <2>3
  <2>4. QED
    BY <1>4, <1>5, <2>1, <2>2, <2>3
<1>10. QED
  BY <1>7, <1>8, <1>9

(* A sum of nothing but zeros.                                              *)
LEMMA SumOfZeros ==
    ASSUME NEW S, IsFiniteSet(S), NEW f, \A c \in S : f[c] = 0
    PROVE  SumOf(f, S) = 0
<1>1. Units(f, S) = {} /\ Amounts(f, S)
  BY DEF Units, Amounts
<1>2. QED
  BY <1>1, SumIsCount, FS_EmptySet

-----------------------------------------------------------------------------
(* The inductive invariant: the books are balanced.                         *)
IBooks == Books(queue, parks, lease, at, hand)
IBooksNext == Books(queue', parks', lease', at', hand')

(* _grant_waiters_locked keeps the books it is called with.                 *)
LEMMA GrantWaitersKeeps ==
    ASSUME NEW q, NEW l, NEW p, Books(q, parks', l, p, hand'), GrantWaiters(q, l, p)
    PROVE  IBooksNext
<1>1. PICK n \in Grants(q) : \E slots \in Injection(First(q, n), q.free) :
        /\ queue' = Granted(q, slots)
        /\ lease' = [c \in Clients |-> IF c \in DOMAIN slots THEN NewLease(slots[c], Cost[c]) ELSE l[c]]
        /\ at' = [c \in Clients |-> IF c \in DOMAIN slots THEN "granted" ELSE p[c]]
  BY DEF GrantWaiters
<1>2. PICK slots \in Injection(First(q, n), q.free) :
        /\ queue' = Granted(q, slots)
        /\ lease' = [c \in Clients |-> IF c \in DOMAIN slots THEN NewLease(slots[c], Cost[c]) ELSE l[c]]
        /\ at' = [c \in Clients |-> IF c \in DOMAIN slots THEN "granted" ELSE p[c]]
  BY <1>1
<1>3. GrantedLease(l, lease', p, at', slots)
  BY <1>2 DEF GrantedLease
<1>4. Books(Granted(q, slots), parks', lease', at', hand')
  BY <1>3, GrantKeeps
<1>5. QED
  BY <1>2, <1>4 DEF IBooksNext

(* The parts of the state that an operation may leave alone.                *)
LEMMA Parts ==
    ASSUME IBooks
    PROVE  /\ queue \in Queue /\ parks \in Nat /\ Lines(queue, at)
           /\ lease \in [Clients -> Lease] /\ at \in [Clients -> Positions] /\ hand \in [Clients -> Hand]
           /\ \A c \in Clients : Entry(queue, parks, lease[c], at[c], hand[c], c)
<1>1. \A c \in Clients : Entry(queue, parks, lease[c], at[c], hand[c], c)
  BY OneRequest DEF IBooks
<1>2. parks \in Nat
  <2>1. IsFiniteSet(BudgetedOf(lease))
    BY ClientsAssumption, FS_Subset DEF BudgetedOf
  <2>2. QED
    BY <2>1, FS_CardinalityType DEF IBooks, Books, Balanced, ShareBook
<1>3. QED
  BY <1>1, <1>2 DEF IBooks, Books, Typed

(* What is committed grows only as the budget allows: c has no more than   *)
(* before, or it fits, or it is alone, or it gives up a repark.             *)
Affordable(c, l, x, h) ==
    LET before == TokensIn(lease[c], at[c], hand[c])
        after == TokensIn(l, x, h)
    IN  \/ after <= before
        \/ queue.committed - before + after <= Budget
        \/ queue.committed = before
        \/ at[c] = "waiting" /\ x = "holding"
(* The line is the one there was, or c joins it at its end or leaves it.    *)
LineMoves(c, q, x) ==
    \/ q.waiters = queue.waiters
    \/ at[c] # "queued" /\ q.waiters = Append(queue.waiters, c)
    \/ \E i \in 1..Len(queue.waiters) : queue.waiters[i] = c /\ x # "queued" /\ q.waiters = RemoveAt(queue.waiters, i)

(* An operation is the request's step and the grants that follow it.        *)
Operates(c, q, l, p) ==
    /\ Typed(q, l, p, hand') /\ Lines(q, p)
    /\ \A d \in Clients \ {c} : l[d] = lease[d] /\ p[d] = at[d] /\ hand'[d] = hand[d]
    /\ Step(queue, parks, lease[c], at[c], hand[c], q, parks', l[c], p[c], hand'[c], c)
    /\ p[c] = "granted" => at[c] = "granted"
    /\ LineMoves(c, q, p[c])
    /\ Affordable(c, l[c], p[c], hand'[c])

(* The books between the step of an operation and the grants.               *)
LEMMA OperationKeeps ==
    ASSUME IBooks, NEW c \in Clients, NEW q, NEW l, NEW p, Operates(c, q, l, p)
    PROVE  Books(q, parks', l, p, hand')
BY BooksMove DEF Operates, IBooks

(* What every step owes: balanced books, nobody overtaken, and nothing that *)
(* is committed past the budget.                                            *)
ServedInOrder ==
    \A c, d \in Clients :
        /\ at[c] = "queued" /\ at'[c] = "queued"
        /\ at'[d] = "granted" /\ at[d] # "granted"
        => /\ at[d] = "queued"
           /\ \E i, j \in 1..Len(queue.waiters) :
                queue.waiters[i] = d /\ queue.waiters[j] = c /\ i < j
CommitsFit ==
    queue'.committed > queue.committed =>
        \/ queue'.committed <= Budget
        \/ Cardinality({c \in Clients : Tokens(c)' > 0}) <= 1
        \/ \E c \in Clients : GaveUp(c)
Sound == IBooksNext /\ ServedInOrder /\ CommitsFit

(* Grants serve the head of the line, and the line is as it was but for c.  *)
LEMMA GrantsServeInOrder ==
    ASSUME IBooks, NEW c \in Clients, NEW q, NEW l, NEW p, Operates(c, q, l, p), GrantWaiters(q, l, p)
    PROVE  ServedInOrder
<1>1. PICK n \in Grants(q) : \E slots \in Injection(First(q, n), q.free) :
        at' = [d \in Clients |-> IF d \in DOMAIN slots THEN "granted" ELSE p[d]]
  BY DEF GrantWaiters
<1>2. PICK slots \in Injection(First(q, n), q.free) :
        at' = [d \in Clients |-> IF d \in DOMAIN slots THEN "granted" ELSE p[d]]
  BY <1>1
<1>3. /\ n \in 0..Len(q.waiters) /\ DOMAIN slots = First(q, n) /\ q.waiters \in Seq(Clients)
      /\ queue.waiters \in Seq(Clients) /\ InLineOnce(queue.waiters, at, "queued")
  BY <1>1, <1>2, Parts DEF Grants, Injection, IsInjective, Operates, Typed, Queue, Lines
<1>4. SUFFICES ASSUME NEW d \in Clients, NEW e \in Clients,
                      at[d] = "queued", at'[d] = "queued", at'[e] = "granted", at[e] # "granted"
               PROVE  \E i, j \in 1..Len(queue.waiters) :
                        queue.waiters[i] = e /\ queue.waiters[j] = d /\ i < j
  <2>1. \A e \in Clients : (\E i \in 1..Len(queue.waiters) : queue.waiters[i] = e) => at[e] = "queued"
    BY <1>3 DEF InLineOnce
  <2>2. QED
    BY <2>1 DEF ServedInOrder
<1>5. PICK i \in 1..n : q.waiters[i] = e
  <2>1. p[e] # "granted"
    BY <1>4 DEF Operates
  <2>2. e \in First(q, n)
    BY <1>2, <1>3, <1>4, <2>1
  <2>3. QED
    BY <2>2 DEF First
<1>6. PICK j \in 1..Len(q.waiters) : q.waiters[j] = d /\ i < j
  <2>1. d \notin First(q, n) /\ p[d] = "queued"
    BY <1>2, <1>3, <1>4
  <2>2. PICK j \in 1..Len(q.waiters) : q.waiters[j] = d
    BY <2>1 DEF Operates, Lines, InLineOnce
  <2>3. j \notin 1..n
    BY <2>1, <2>2 DEF First
  <2>4. QED
    BY <1>3, <2>2, <2>3
<1>7. i \in 1..Len(q.waiters) /\ Len(queue.waiters) \in Nat
  BY <1>3
<1>8. CASE q.waiters = queue.waiters
  BY <1>5, <1>6, <1>7, <1>8
<1>9. CASE at[c] # "queued" /\ q.waiters = Append(queue.waiters, c)
  <2>1. d # c /\ Len(q.waiters) = Len(queue.waiters) + 1
    BY <1>3, <1>4, <1>9
  <2>2. \A m \in 1..Len(q.waiters) : q.waiters[m] = IF m <= Len(queue.waiters) THEN queue.waiters[m] ELSE c
    BY <1>3, <1>9
  <2>3. j <= Len(queue.waiters) /\ i <= Len(queue.waiters)
    BY <1>6, <1>7, <2>1, <2>2
  <2>4. QED
    BY <1>5, <1>6, <1>7, <2>2, <2>3
<1>10. CASE \E m \in 1..Len(queue.waiters) :
            queue.waiters[m] = c /\ p[c] # "queued" /\ q.waiters = RemoveAt(queue.waiters, m)
  <2>1. PICK m \in 1..Len(queue.waiters) : q.waiters = RemoveAt(queue.waiters, m)
    BY <1>10
  <2>2. /\ Len(q.waiters) = Len(queue.waiters) - 1
        /\ \A a \in 1..(Len(queue.waiters) - 1) :
             q.waiters[a] = IF a < m THEN queue.waiters[a] ELSE queue.waiters[a + 1]
    BY <1>3, <2>1, RemoveAtProperties
  <2> DEFINE old(a) == IF a < m THEN a ELSE a + 1
  <2>3. old(i) \in 1..Len(queue.waiters) /\ old(j) \in 1..Len(queue.waiters) /\ old(i) < old(j)
    BY <1>6, <1>7, <2>2
  <2>4. queue.waiters[old(i)] = e /\ queue.waiters[old(j)] = d
    BY <1>5, <1>6, <1>7, <2>2
  <2>5. QED
    BY <2>3, <2>4
<1>11. QED
  BY <1>8, <1>9, <1>10 DEF Operates, LineMoves

(* The last of those who are granted and ask for something fits beside the  *)
(* others, or has nobody beside it.                                         *)
LEMMA GrantFits ==
    ASSUME NEW q \in Queue, NEW p, InLineOnce(q.waiters, p, "queued"), NEW n \in Grants(q),
           ReservedTokens(q) \in Nat, SumOf(Cost, First(q, n)) # 0
    PROVE  \/ q.committed + SumOf(Cost, First(q, n)) <= Budget
           \/ \E c \in First(q, n) : q.committed + SumOf(Cost, First(q, n)) = Cost[c]
<1> DEFINE N == {i \in 1..n : Cost[q.waiters[i]] # 0}
<1>1. n \in 0..Len(q.waiters) /\ q.waiters \in Seq(Clients) /\ q.committed \in Nat
  BY DEF Grants, Queue
<1>2. \A i \in 1..n : q.waiters[i] \in Clients /\ Cost[q.waiters[i]] \in Nat
  BY <1>1, TokensAssumption
<1>3. /\ First(q, n) \subseteq Clients /\ IsFiniteSet(First(q, n))
      /\ Amounts(Cost, Clients) /\ Amounts(Cost, First(q, n))
  BY <1>1, FirstCounted, TokensAssumption DEF Amounts
<1>4. N # {}
  <2>1. SUFFICES ASSUME N = {} PROVE FALSE
    OBVIOUS
  <2>2. \A c \in First(q, n) : Cost[c] = 0
    BY <2>1 DEF First
  <2>3. QED
    BY <1>3, <2>2, SumOfZeros
<1>5. PICK m \in N : \A i \in N : m >= i
  <2>1. IsFiniteSet(1..n)
    BY <1>1, FS_Interval
  <2>2. N \subseteq 1..n /\ N \subseteq Int
    BY <1>1
  <2>3. IsFiniteSet(N)
    BY <2>1, <2>2, FS_Subset
  <2> HIDE DEF N
  <2>4. QED
    BY <1>4, <2>2, <2>3, FiniteHasMax
<1> DEFINE A == First(q, m - 1)
           w == q.waiters[m]
           R == First(q, n) \ (A \cup {w})
<1>6. m \in 1..n /\ Cost[w] # 0 /\ Cost[w] \in Nat /\ w \in First(q, n) /\ A \subseteq First(q, n)
  BY <1>1, <1>2, <1>5 DEF First
<1>7. w \notin A
  BY <1>1, <1>6 DEF First, InLineOnce
<1>8. \A c \in R : Cost[c] = 0
  <2>1. ASSUME NEW i \in 1..n, q.waiters[i] \in R PROVE Cost[q.waiters[i]] = 0
    <3>1. i # m /\ i \notin 1..(m - 1)
      BY <2>1 DEF First
    <3>2. i > m
      BY <1>1, <1>6, <3>1
    <3>3. i \notin N
      BY <1>1, <1>5, <1>6, <3>2
    <3>4. QED
      BY <3>3
  <2>2. QED
    BY <2>1 DEF First
<1>9. SumOf(Cost, First(q, n)) = SumOf(Cost, A) + Cost[w] /\ SumOf(Cost, A) \in Nat
  <2>1. IsFiniteSet(A \cup {w}) /\ IsFiniteSet(A) /\ IsFiniteSet(R) /\ IsFiniteSet({w})
    BY <1>3, <1>6, FS_Subset
  <2>2. Amounts(Cost, A) /\ Amounts(Cost, {w}) /\ A \cap {w} = {} /\ A \cup {w} \subseteq First(q, n)
    BY <1>3, <1>6, <1>7 DEF Amounts
  <2> HIDE DEF A, w
  <2>3. SumOf(Cost, A \cup {w}) = SumOf(Cost, A) + SumOf(Cost, {w})
    BY <2>1, <2>2, SumAdds
  <2>4. SumOf(Cost, {w}) = Cost[w]
    BY <1>6, SumOfOne
  <2>5. /\ SumOf(Cost, First(q, n)) = SumOf(Cost, A \cup {w}) + SumOf(Cost, R)
    BY <1>3, <2>2, SumParts
  <2>6. SumOf(Cost, R) = 0
    BY <1>8, <2>1, SumOfZeros
  <2>7. SumOf(Cost, A) \in Nat
    BY <2>1, <2>2, SumIsNat
  <2>8. QED
    BY <1>6, <2>3, <2>4, <2>5, <2>6, <2>7
<1>10. FitsAgainst(q.committed + SumOf(Cost, A) + ReservedTokens(q), Cost[w])
  <2>1. MayGrant(q, n)
    BY <1>1, <1>6 DEF Grants
  <2>2. QED
    BY <1>6, <2>1 DEF MayGrant
<1> HIDE DEF A, w
<1>11. CASE q.committed + SumOf(Cost, A) + ReservedTokens(q) = 0
  <2>1. q.committed + SumOf(Cost, First(q, n)) = Cost[w]
    BY <1>1, <1>6, <1>9, <1>11
  <2>2. QED
    BY <1>6, <2>1
<1>12. CASE q.committed + SumOf(Cost, A) + ReservedTokens(q) + Cost[w] <= Budget
  BY <1>1, <1>6, <1>9, <1>12, TokensAssumption
<1>13. QED
  BY <1>6, <1>10, <1>11, <1>12 DEF FitsAgainst

(* When one request has all that is committed, it is the only one.          *)
LEMMA OnlyOne ==
    ASSUME IBooksNext, NEW c \in Clients, queue'.committed <= TokensIn(lease'[c], at'[c], hand'[c])
    PROVE  Cardinality({d \in Clients : Tokens(d)' > 0}) <= 1
<1> DEFINE f == AllTokens(lease', at', hand')
           T == {d \in Clients : Tokens(d)' > 0}
<1>1. queue'.committed = SumOf(f, Clients) /\ Amounts(f, Clients) /\ f[c] = TokensIn(lease'[c], at'[c], hand'[c])
  <2>1. lease' \in [Clients -> Lease] /\ hand' \in [Clients -> Hand]
    BY DEF IBooksNext, Books, Typed
  <2>2. \A d \in Clients : lease'[d] \in Lease /\ hand'[d] \in Hand
    BY <2>1
  <2>3. Amounts(f, Clients)
    BY <2>2, TokensNat DEF AllTokens, Amounts
  <2>4. QED
    BY <2>3 DEF IBooksNext, Books, Balanced, TokenBook, AllTokens
<1>2. \A d \in Clients : f[d] = Tokens(d)'
  BY DEF AllTokens, TokensIn, Tokens
<1> HIDE DEF f
<1>3. T \subseteq {c}
  <2>1. SUFFICES ASSUME NEW d \in Clients, d # c, f[d] > 0 PROVE FALSE
    BY <1>2
  <2>2. {c, d} \subseteq Clients /\ {c} \cap {d} = {} /\ Amounts(f, {c}) /\ Amounts(f, {d})
    BY <1>1, <2>1 DEF Amounts
  <2>3. IsFiniteSet({c}) /\ IsFiniteSet({d})
    BY FS_Singleton
  <2>4. SumOf(f, {c} \cup {d}) = SumOf(f, {c}) + SumOf(f, {d})
    BY <2>2, <2>3, SumAdds
  <2>5. SumOf(f, {c}) = f[c] /\ SumOf(f, {d}) = f[d] /\ f[c] \in Nat /\ f[d] \in Nat
    BY <1>1, <2>1, SumOfOne DEF Amounts
  <2>6. /\ SumOf(f, Clients) = SumOf(f, {c, d}) + SumOf(f, Clients \ {c, d})
        /\ SumOf(f, Clients \ {c, d}) \in Nat
    BY <1>1, <2>2, ClientsAssumption, SumParts
  <2>7. SumOf(f, {c, d}) = f[c] + f[d]
    <3>1. {c} \cup {d} = {c, d}
      OBVIOUS
    <3>2. QED
      BY <2>4, <2>5, <3>1
  <2>8. QED
    BY ONLY <1>1, <2>1, <2>5, <2>6, <2>7, queue'.committed <= TokensIn(lease'[c], at'[c], hand'[c])
<1>4. IsFiniteSet({c}) /\ Cardinality({c}) = 1
  BY FS_Singleton
<1>5. Cardinality(T) <= 1
  BY <1>3, <1>4, FS_Subset
<1>6. QED
  BY <1>5

(* Grants and the step before them commit no more than the budget allows.   *)
LEMMA GrantsFit ==
    ASSUME IBooks, IBooksNext, NEW c \in Clients, NEW q, NEW l, NEW p, Operates(c, q, l, p), GrantWaiters(q, l, p)
    PROVE  CommitsFit
<1>1. PICK n \in Grants(q) : \E slots \in Injection(First(q, n), q.free) :
        /\ queue' = Granted(q, slots)
        /\ lease' = [d \in Clients |-> IF d \in DOMAIN slots THEN NewLease(slots[d], Cost[d]) ELSE l[d]]
        /\ at' = [d \in Clients |-> IF d \in DOMAIN slots THEN "granted" ELSE p[d]]
  BY DEF GrantWaiters
<1>2. PICK slots \in Injection(First(q, n), q.free) :
        /\ queue' = Granted(q, slots)
        /\ lease' = [d \in Clients |-> IF d \in DOMAIN slots THEN NewLease(slots[d], Cost[d]) ELSE l[d]]
        /\ at' = [d \in Clients |-> IF d \in DOMAIN slots THEN "granted" ELSE p[d]]
  BY <1>1
<1>3. /\ n \in 0..Len(q.waiters) /\ DOMAIN slots = First(q, n) /\ q \in Queue /\ q.committed \in Nat
      /\ InLineOnce(q.waiters, p, "queued")
  BY <1>1, <1>2 DEF Grants, Injection, IsInjective, Operates, Typed, Queue, Lines
<1>4. First(q, n) \subseteq Clients /\ IsFiniteSet(First(q, n)) /\ \A d \in First(q, n) : p[d] = "queued"
  BY <1>3, FirstCounted
<1> DEFINE S == SumOf(Cost, First(q, n))
<1>5. queue'.committed = q.committed + S
  BY <1>2, <1>3 DEF Granted, Queue
<1>6. Amounts(Cost, First(q, n)) /\ S \in Nat
  BY <1>4, TokensAssumption, SumIsNat DEF Amounts
<1>7. CASE S # 0
  <2>1. ReservedTokens(q) \in Nat
    <3> DEFINE f == [d \in Clients |-> TicketTokens(d)]
               T == ToSet(q.tickets) \ q.lapsed
    <3>1. \A d \in Clients : hand[d].tokens \in Nat
      BY Parts DEF Hand
    <3>2. T \subseteq Clients
      BY <1>3 DEF ToSet, Queue
    <3>3. Amounts(f, T)
      BY <3>1, <3>2 DEF Amounts, TicketTokens
    <3>4. IsFiniteSet(T)
      BY <3>2, ClientsAssumption, FS_Subset
    <3> HIDE DEF f, T
    <3>5. SumOf(f, T) \in Nat
      BY <3>3, <3>4, SumIsNat
    <3>6. QED
      BY <3>5 DEF ReservedTokens, f, T
  <2>2. \/ q.committed + S <= Budget
        \/ \E d \in First(q, n) : q.committed + S = Cost[d]
    BY <1>3, <1>7, <2>1, GrantFits
  <2>3. CASE \E d \in First(q, n) : q.committed + S = Cost[d]
    <3>1. PICK d \in First(q, n) : q.committed + S = Cost[d]
      BY <2>3
    <3>2. lease'[d] = NewLease(slots[d], Cost[d]) /\ at'[d] = "granted" /\ Cost[d] \in Nat
      BY <1>2, <1>3, <1>4, TokensAssumption
    <3>3. TokensIn(lease'[d], at'[d], hand'[d]) = Cost[d]
      BY <3>2 DEF TokensIn, NewLease, NoLease
    <3>4. queue'.committed <= TokensIn(lease'[d], at'[d], hand'[d])
      BY <1>3, <1>5, <1>6, <3>1, <3>2, <3>3
    <3>5. QED
      BY <1>4, <3>4, OnlyOne DEF CommitsFit
  <2>4. QED
    BY <1>5, <2>2, <2>3 DEF CommitsFit
<1>8. CASE S = 0
  <2> DEFINE before == TokensIn(lease[c], at[c], hand[c])
             after == TokensIn(l[c], p[c], hand'[c])
  <2>1. queue'.committed = queue.committed - before + after
    BY <1>3, <1>5, <1>8 DEF Operates, Step
  <2>2. /\ before \in Nat /\ queue.committed \in Nat /\ after \in Nat
    <3>1. before \in Nat /\ queue.committed \in Nat
      BY Parts DEF Entry, Queue
    <3>2. l[c] \in Lease /\ hand'[c] \in Hand
      BY DEF Operates, Typed
    <3>3. QED
      BY <3>1, <3>2, TokensNat
  <2>3. SUFFICES ASSUME queue'.committed > queue.committed
                 PROVE  \/ queue'.committed <= Budget
                        \/ Cardinality({d \in Clients : Tokens(d)' > 0}) <= 1
                        \/ \E d \in Clients : GaveUp(d)
    BY DEF CommitsFit
  <2>4. ~(after <= before)
    BY <2>1, <2>2, <2>3
  <2>5. c \notin First(q, n)
    <3>1. SUFFICES ASSUME p[c] = "queued" PROVE FALSE
      BY <1>4
    <3>2. l[c].tokens = 0
      BY <3>1 DEF Operates, Step, Fields, Bare
    <3>3. after = 0
      BY <3>1, <3>2 DEF TokensIn
    <3>4. QED
      BY <2>2, <2>4, <3>3
  <2>6. lease'[c] = l[c] /\ at'[c] = p[c]
    BY <1>2, <1>3, <2>5
  <2>7. \/ queue.committed - before + after <= Budget
        \/ queue.committed = before
        \/ at[c] = "waiting" /\ p[c] = "holding"
    BY <2>4 DEF Operates, Affordable
  <2>8. CASE queue.committed = before
    <3>1. queue'.committed = after
      BY <2>1, <2>2, <2>8
    <3>2. queue'.committed <= TokensIn(lease'[c], at'[c], hand'[c])
      BY <2>2, <2>6, <3>1
    <3>3. QED
      BY <3>2, OnlyOne
  <2>9. QED
    BY <2>1, <2>6, <2>7, <2>8 DEF GaveUp
<1>9. QED
  BY <1>7, <1>8

(* An operation that ends with _grant_waiters_locked.                       *)
LEMMA OperationAndGrants ==
    ASSUME IBooks, NEW c \in Clients, NEW q, NEW l, NEW p, Operates(c, q, l, p), GrantWaiters(q, l, p)
    PROVE  Sound
<1>1. IBooksNext
  BY OperationKeeps, GrantWaitersKeeps
<1>2. QED
  BY <1>1, GrantsServeInOrder, GrantsFit DEF Sound

(* An operation that grants nothing.                                        *)
LEMMA OperationAlone ==
    ASSUME IBooks, NEW c \in Clients, Operates(c, queue', lease', at')
    PROVE  Sound
<1>1. IBooksNext
  BY OperationKeeps DEF IBooksNext
<1>2. ServedInOrder
  BY DEF ServedInOrder, Operates
<1>3. CommitsFit
  <2> DEFINE before == TokensIn(lease[c], at[c], hand[c])
             after == TokensIn(lease'[c], at'[c], hand'[c])
  <2>1. queue'.committed = queue.committed - before + after
    BY DEF Operates, Step
  <2>2. /\ before \in Nat /\ queue.committed \in Nat /\ after \in Nat
    <3>1. before \in Nat /\ queue.committed \in Nat
      BY Parts DEF Entry, Queue
    <3>2. lease'[c] \in Lease /\ hand'[c] \in Hand
      BY DEF Operates, Typed
    <3>3. QED
      BY <3>1, <3>2, TokensNat
  <2>3. \/ after <= before
        \/ queue.committed - before + after <= Budget
        \/ queue.committed = before
        \/ at[c] = "waiting" /\ at'[c] = "holding"
    BY DEF Operates, Affordable
  <2>4. CASE queue.committed = before
    <3>1. queue'.committed <= after
      BY <2>1, <2>2, <2>4
    <3>2. QED
      BY <1>1, <3>1, OnlyOne DEF CommitsFit
  <2>5. CASE after <= before
    <3>1. ~(queue'.committed > queue.committed)
      BY <2>1, <2>2, <2>5
    <3>2. QED
      BY <3>1 DEF CommitsFit
  <2>6. QED
    BY <2>1, <2>3, <2>4, <2>5 DEF CommitsFit, GaveUp
<1>4. QED
  BY <1>1, <1>2, <1>3 DEF Sound

(* What the helpers of the module change, and what they leave alone.        *)
LEMMA MovedIs ==
    ASSUME IBooks, NEW c \in Clients, NEW x \in Positions
    PROVE  /\ Moved(c, x) \in [Clients -> Positions] /\ Moved(c, x)[c] = x
           /\ \A d \in Clients \ {c} : Moved(c, x)[d] = at[d]
BY Parts DEF Moved

LEMMA LeasesIs ==
    ASSUME IBooks, NEW c \in Clients, NEW l \in Lease
    PROVE  /\ Leases(c, l) \in [Clients -> Lease] /\ Leases(c, l)[c] = l
           /\ \A d \in Clients \ {c} : Leases(c, l)[d] = lease[d]
BY Parts DEF Leases

LEMMA Same ==
    ASSUME IBooks, NEW c \in Clients
    PROVE  Leases(c, lease[c]) = lease /\ Moved(c, at[c]) = at
BY Parts DEF Leases, Moved

(* What the request has in its hand after the step.                         *)
HandIs(c, h) ==
    hand' \in [Clients -> Hand] /\ hand'[c] = h /\ \A d \in Clients \ {c} : hand'[d] = hand[d]

LEMMA HoldsIs ==
    ASSUME IBooks, NEW c \in Clients, NEW h \in Hand, Holds(c, h)
    PROVE  HandIs(c, h)
BY Parts DEF Holds, HandIs

LEMMA HandKept ==
    ASSUME IBooks, NEW c \in Clients, hand' = hand
    PROVE  HandIs(c, hand[c])
BY Parts DEF HandIs

(* The lease, the position and the hand of one request change.              *)
LEMMA OperatesBy ==
    ASSUME IBooks, NEW c \in Clients, NEW q \in Queue, NEW l \in Lease, NEW x \in Positions, NEW h,
           HandIs(c, h), Lines(q, Moved(c, x)),
           Step(queue, parks, lease[c], at[c], hand[c], q, parks', l, x, h, c),
           x # "granted", LineMoves(c, q, x), Affordable(c, l, x, h)
    PROVE  Operates(c, q, Leases(c, l), Moved(c, x))
<1>1. /\ Moved(c, x) \in [Clients -> Positions] /\ Moved(c, x)[c] = x
      /\ \A d \in Clients \ {c} : Moved(c, x)[d] = at[d]
  BY MovedIs
<1>2. /\ Leases(c, l) \in [Clients -> Lease] /\ Leases(c, l)[c] = l
      /\ \A d \in Clients \ {c} : Leases(c, l)[d] = lease[d]
  BY LeasesIs
<1>3. /\ hand' \in [Clients -> Hand] /\ hand'[c] = h
      /\ \A d \in Clients \ {c} : hand'[d] = hand[d]
  BY DEF HandIs
<1>4. Typed(q, Leases(c, l), Moved(c, x), hand')
  BY <1>1, <1>2, <1>3 DEF Typed
<1>5. Step(queue, parks, lease[c], at[c], hand[c], q, parks', Leases(c, l)[c], Moved(c, x)[c], hand'[c], c)
  BY <1>1, <1>2, <1>3
<1>6. LineMoves(c, q, Moved(c, x)[c]) /\ Affordable(c, Leases(c, l)[c], Moved(c, x)[c], hand'[c])
  BY <1>1, <1>2, <1>3
<1>7. QED
  BY <1>1, <1>2, <1>3, <1>4, <1>5, <1>6 DEF Operates

(* The same of a request that stands in no line.                            *)
LEMMA OperatesOffLine ==
    ASSUME IBooks, NEW c \in Clients, NEW q, Leaves(queue, q), NEW l \in Lease, NEW x \in Positions, NEW h,
           HandIs(c, h), at[c] \notin {"queued", "resuming"}, x \notin {"queued", "resuming", "granted"},
           Step(queue, parks, lease[c], at[c], hand[c], q, parks', l, x, h, c), Affordable(c, l, x, h)
    PROVE  Operates(c, q, Leases(c, l), Moved(c, x))
<1>1. Moved(c, x)[c] = x /\ \A d \in Clients \ {c} : Moved(c, x)[d] = at[d]
  BY MovedIs
<1>2. Lines(queue, at) /\ q \in Queue /\ q.waiters = queue.waiters /\ q.tickets = queue.tickets
  BY Parts DEF Leaves
<1>3. Lines(q, Moved(c, x))
  BY <1>1, <1>2, LinesStay
<1>4. LineMoves(c, q, x)
  BY <1>2 DEF LineMoves
<1>5. QED
  BY <1>2, <1>3, <1>4, OperatesBy

-----------------------------------------------------------------------------
(* Each operation keeps the books balanced, the line in order and what is   *)
(* committed within the budget.                                             *)
LEMMA Numbers ==
    ASSUME IBooks, NEW c \in Clients
    PROVE  /\ lease[c] \in Lease /\ hand[c] \in Hand
           /\ lease[c].tokens \in Nat /\ hand[c].tokens \in Nat /\ hand[c].want \in Nat
BY Parts DEF Lease, Hand

LEMMA DeliverKeeps == ASSUME IBooks, NEW c \in Clients, Deliver(c) PROVE Sound
<1>1. /\ at[c] = "granted" /\ at' = Moved(c, "holding") /\ queue' = queue /\ parks' = parks
      /\ lease' = lease /\ hand' = hand
  BY DEF Deliver
<1>2. Entry(queue, parks, lease[c], "granted", hand[c], c)
  BY <1>1, Parts
<1>3. Step(queue, parks, lease[c], "granted", hand[c], queue, parks, lease[c], "holding", hand[c], c)
  <2>1. Fields(lease[c], "holding", hand[c])
    BY <1>2 DEF Entry, Fields
  <2>2. TokensIn(lease[c], "holding", hand[c]) = TokensIn(lease[c], "granted", hand[c])
    BY DEF TokensIn
  <2>3. queue.free = (0..(queue.capacity - 1)) \ queue.inUse
    BY <1>2 DEF Entry
  <2>4. QED
    BY <1>2, <2>1, <2>2, <2>3, PlaceStep
<1>4. /\ HandIs(c, hand[c]) /\ lease[c] \in Lease /\ "holding" \in Positions /\ Leaves(queue, queue)
      /\ Leases(c, lease[c]) = lease
  BY <1>1, HandKept, Parts, Same DEF Positions, Leaves
<1>5. Affordable(c, lease[c], "holding", hand[c])
  BY <1>1, Numbers DEF Affordable, TokensIn
<1>6. Operates(c, queue, Leases(c, lease[c]), Moved(c, "holding"))
  BY <1>1, <1>3, <1>4, <1>5, OperatesOffLine
<1>7. QED
  BY <1>1, <1>4, <1>6, OperationAlone

LEMMA ParkKeeps == ASSUME IBooks, NEW c \in Clients, Park(c) PROVE Sound
<1> DEFINE l2 == [lease[c] EXCEPT !.slot = None, !.parked = TRUE, !.budgeted = TRUE]
           q2 == [SlotReleased(queue, lease[c].slot) EXCEPT !.parked = @ + 1, !.reclaimable[c] = lease[c].tokens]
<1>1. /\ at[c] = "holding" /\ ~lease[c].released /\ parks' = parks + 1 /\ hand' = hand
  BY DEF Park, Live
<1>2. PICK x \in {"parked", "unwatched"} : GrantWaiters(q2, Leases(c, l2), Moved(c, x))
  BY DEF Park
<1>3. Entry(queue, parks, lease[c], "holding", hand[c], c)
  BY <1>1, Parts
<1>4. /\ Leaves(queue, q2) /\ l2 \in Lease
      /\ Step(queue, parks, lease[c], "holding", hand[c], q2, parks + 1, l2, x, hand[c], c)
  BY <1>1, <1>3, ParkStep
<1>5. HandIs(c, hand[c]) /\ x \in Positions
  BY <1>1, HandKept DEF Positions
<1> HIDE DEF l2, q2
<1>6. Affordable(c, l2, x, hand[c])
  BY <1>1, Numbers DEF Affordable, TokensIn, l2, Lease
<1>7. Operates(c, q2, Leases(c, l2), Moved(c, x))
  BY <1>1, <1>4, <1>5, <1>6, OperatesOffLine
<1>8. QED
  BY <1>2, <1>7, OperationAndGrants

LEMMA EraseKeeps ==
    ASSUME IBooks, NEW c \in Clients, NEW x \in {"parked", "erasing"}, at[c] = x,
           NEW x2 \in {"erasing", "unwatched"}, at' = Moved(c, x2),
           queue' = queue, parks' = parks, lease' = lease, hand' = hand
    PROVE  Sound
<1>1. Entry(queue, parks, lease[c], x, hand[c], c)
  BY Parts
<1>2. Step(queue, parks, lease[c], x, hand[c], queue, parks, lease[c], x2, hand[c], c)
  <2>1. Fields(lease[c], x2, hand[c])
    BY <1>1 DEF Entry, Fields
  <2>2. TokensIn(lease[c], x2, hand[c]) = TokensIn(lease[c], x, hand[c])
    BY DEF TokensIn
  <2>3. queue.free = (0..(queue.capacity - 1)) \ queue.inUse
    BY <1>1 DEF Entry
  <2>4. QED
    BY <1>1, <2>1, <2>2, <2>3, PlaceStep
<1>3. /\ HandIs(c, hand[c]) /\ lease[c] \in Lease /\ x2 \in Positions /\ Leaves(queue, queue)
      /\ Leases(c, lease[c]) = lease
  BY HandKept, Parts, Same DEF Positions, Leaves
<1>4. Affordable(c, lease[c], x2, hand[c])
  BY Numbers DEF Affordable, TokensIn
<1>5. Operates(c, queue, Leases(c, lease[c]), Moved(c, x2))
  BY <1>2, <1>3, <1>4, OperatesOffLine
<1>6. QED
  BY <1>3, <1>5, OperationAlone

LEMMA ErasedKeeps == ASSUME IBooks, NEW c \in Clients, Erased(c) PROVE Sound
<1> DEFINE l2 == [lease[c] EXCEPT !.tokens = 0, !.parkedTokens = @ + lease[c].tokens]
           q2 == [TokensReturned(queue, lease[c].tokens) EXCEPT !.reclaimable[c] = 0]
<1>1. at[c] = "erasing" /\ parks' = parks /\ hand' = hand
  BY DEF Erased
<1>2. CASE Live(c) /\ lease[c].parked
  <2>1. GrantWaiters(q2, Leases(c, l2), Moved(c, "unwatched"))
    BY <1>2 DEF Erased
  <2>2. Entry(queue, parks, lease[c], "erasing", hand[c], c)
    BY <1>1, Parts
  <2>3. /\ Leaves(queue, q2) /\ l2 \in Lease
        /\ Step(queue, parks, lease[c], "erasing", hand[c], q2, parks, l2, "unwatched", hand[c], c)
    BY <1>2, <2>2, ErasedStep
  <2>4. HandIs(c, hand[c]) /\ "unwatched" \in Positions
    BY <1>1, HandKept DEF Positions
  <2> HIDE DEF l2, q2
  <2>5. Affordable(c, l2, "unwatched", hand[c])
    BY <1>1, Numbers DEF Affordable, TokensIn, l2, Lease
  <2>6. Operates(c, q2, Leases(c, l2), Moved(c, "unwatched"))
    BY <1>1, <2>3, <2>4, <2>5, OperatesOffLine
  <2>7. QED
    BY <2>1, <2>6, OperationAndGrants
<1>3. CASE ~(Live(c) /\ lease[c].parked)
  <2>1. at' = Moved(c, "unwatched") /\ queue' = queue /\ lease' = lease
    BY <1>3 DEF Erased
  <2>2. QED
    BY <1>1, <2>1, EraseKeeps
<1>4. QED
  BY <1>2, <1>3

(* _drop_budget: the share goes back when there is one.                     *)
LEMMA ShareDropped ==
    ASSUME IBooks, NEW c \in Clients
    PROVE  ParksWithout(c) = parks - One(lease[c].budgeted)
<1>1. parks \in Nat /\ One(lease[c].budgeted) <= parks /\ lease[c].budgeted \in BOOLEAN
  BY Parts DEF Entry, Lease
<1>2. QED
  BY <1>1 DEF ParksWithout, Minus, One

LEMMA TeardownKeeps == ASSUME IBooks, NEW c \in Clients, Teardown(c) PROVE Sound
<1> DEFINE l2 == [lease[c] EXCEPT !.parked = FALSE, !.budgeted = FALSE]
           q2 == Unparked(queue, c)
<1>1. /\ at[c] \in {"parked", "erasing", "unwatched"} /\ lease[c].parked /\ hand' = hand
      /\ parks' = ParksWithout(c) /\ queue' = q2 /\ lease' = Leases(c, l2) /\ at' = Moved(c, "leaving")
  BY DEF Teardown
<1>2. Entry(queue, parks, lease[c], at[c], hand[c], c)
  BY Parts
<1>3. /\ Leaves(queue, q2) /\ l2 \in Lease
      /\ Step(queue, parks, lease[c], at[c], hand[c], q2, parks - One(lease[c].budgeted), l2, "leaving", hand[c], c)
  BY <1>1, <1>2, TeardownStep
<1>4. HandIs(c, hand[c]) /\ "leaving" \in Positions /\ parks' = parks - One(lease[c].budgeted)
  BY <1>1, HandKept, ShareDropped DEF Positions
<1> HIDE DEF l2, q2
<1>5. Affordable(c, l2, "leaving", hand[c])
  BY <1>1, Numbers DEF Affordable, TokensIn, l2, Lease
<1>6. Operates(c, q2, Leases(c, l2), Moved(c, "leaving"))
  BY <1>1, <1>3, <1>4, <1>5, OperatesOffLine
<1>7. QED
  BY <1>1, <1>6, OperationAlone

LEMMA ResumedKeeps == ASSUME IBooks, NEW c \in Clients, Resumed(c) PROVE Sound
<1>1. at[c] = "took" /\ Holds(c, Empty) /\ parks' = parks
  BY DEF Resumed
<1>2. Entry(queue, parks, lease[c], "took", hand[c], c)
  BY <1>1, Parts
<1>3. CASE lease[c].released
  <2> DEFINE q2 == TakenBack(c)
  <2>1. GrantWaiters(q2, lease, Moved(c, "gone"))
    BY <1>3 DEF Resumed
  <2>2. q2 = IF hand[c].slot = None THEN queue
             ELSE TokensReturned(SlotReleased(queue, hand[c].slot), hand[c].tokens)
    BY DEF TakenBack
  <2> HIDE DEF q2
  <2>3. /\ Leaves(queue, q2) /\ Empty \in Hand
        /\ Step(queue, parks, lease[c], "took", hand[c], q2, parks, lease[c], "gone", Empty, c)
    BY ONLY <1>2, <1>3, <2>2, c \in Clients, TakenBackStep
  <2>4. HandIs(c, Empty) /\ "gone" \in Positions /\ lease[c] \in Lease /\ Leases(c, lease[c]) = lease
    BY <1>1, <2>3, HoldsIs, Parts, Same DEF Positions
  <2>5. Affordable(c, lease[c], "gone", Empty)
    BY <1>1, Numbers DEF Affordable, TokensIn
  <2>6. Operates(c, q2, Leases(c, lease[c]), Moved(c, "gone"))
    BY <1>1, <2>3, <2>4, <2>5, OperatesOffLine
  <2>7. QED
    BY <2>1, <2>4, <2>6, OperationAndGrants
<1>4. CASE ~lease[c].released
  <2> DEFINE l2 == IF hand[c].slot = None
                   THEN [lease[c] EXCEPT !.parked = FALSE]
                   ELSE [lease[c] EXCEPT !.parked = FALSE, !.slot = hand[c].slot,
                                         !.tokens = @ + hand[c].tokens, !.parkedTokens = 0]
             x2 == IF hand[c].slot = None THEN "leaving" ELSE "holding"
  <2>1. queue' = Unparked(queue, c) /\ lease' = Leases(c, l2) /\ at' = Moved(c, x2)
    BY <1>4 DEF Resumed
  <2>2. /\ Leaves(queue, Unparked(queue, c)) /\ Empty \in Hand /\ l2 \in Lease
        /\ Step(queue, parks, lease[c], "took", hand[c], Unparked(queue, c), parks, l2, x2, Empty, c)
    BY <1>2, <1>4, UnparkStep
  <2>3. HandIs(c, Empty) /\ x2 \in Positions /\ x2 \notin {"queued", "resuming", "granted"}
    BY <1>1, <2>2, HoldsIs DEF Positions
  <2> HIDE DEF l2, x2
  <2>4. Affordable(c, l2, x2, Empty)
    BY <1>1, Numbers DEF Affordable, TokensIn, l2, x2, Lease
  <2>5. Operates(c, Unparked(queue, c), Leases(c, l2), Moved(c, x2))
    BY <1>1, <2>2, <2>3, <2>4, OperatesOffLine
  <2>6. QED
    BY <2>1, <2>5, OperationAlone
<1>5. QED
  BY <1>3, <1>4

LEMMA RecostKeeps == ASSUME IBooks, NEW c \in Clients, NEW want \in Wants, Recost(c, want) PROVE Sound
<1> DEFINE l2 == [lease[c] EXCEPT !.tokens = want]
<1>1. at[c] = "holding" /\ ~lease[c].released /\ parks' = parks /\ want \in Nat
  BY TokensAssumption DEF Recost, Live
<1>2. Entry(queue, parks, lease[c], "holding", hand[c], c)
  BY <1>1, Parts
<1>3. at = Moved(c, "holding") /\ "holding" \in Positions /\ "yielding" \in Positions
  BY <1>1, Same DEF Positions
<1>4. CASE want < lease[c].tokens /\ GrantWaiters(TokensReturned(queue, lease[c].tokens - want), Leases(c, l2), at)
           /\ hand' = hand
  <2> DEFINE q2 == TokensReturned(queue, lease[c].tokens - want)
  <2>1. /\ Leaves(queue, q2) /\ l2 \in Lease
        /\ Step(queue, parks, lease[c], "holding", hand[c], q2, parks, l2, "holding", hand[c], c)
    BY <1>1, <1>2, <1>4, ShrinkStep
  <2>2. HandIs(c, hand[c])
    BY <1>4, HandKept
  <2> HIDE DEF l2, q2
  <2>3. Affordable(c, l2, "holding", hand[c])
    BY <1>1, <1>4, Numbers DEF Affordable, TokensIn, l2, Lease
  <2>4. Operates(c, q2, Leases(c, l2), Moved(c, "holding"))
    BY <1>1, <1>3, <2>1, <2>2, <2>3, OperatesOffLine
  <2>5. GrantWaiters(q2, Leases(c, l2), Moved(c, "holding"))
    BY <1>3, <1>4 DEF q2, l2
  <2>6. QED
    BY <2>4, <2>5, OperationAndGrants
<1>5. CASE /\ want > lease[c].tokens /\ GrowthFits(c, want)
           /\ queue' = [queue EXCEPT !.committed = @ + want - lease[c].tokens]
           /\ lease' = Leases(c, l2) /\ at' = at /\ hand' = hand
  <2> DEFINE q2 == [queue EXCEPT !.committed = @ + want - lease[c].tokens]
  <2>1. /\ Leaves(queue, q2) /\ l2 \in Lease
        /\ Step(queue, parks, lease[c], "holding", hand[c], q2, parks, l2, "holding", hand[c], c)
    BY <1>1, <1>2, <1>5, GrowStep
  <2>2. HandIs(c, hand[c])
    BY <1>5, HandKept
  <2>3. queue' = q2 /\ lease' = Leases(c, l2) /\ at' = Moved(c, "holding")
    BY <1>3, <1>5
  <2> HIDE DEF l2, q2
  <2>4. Affordable(c, l2, "holding", hand[c])
    <3>1. TokensIn(lease[c], at[c], hand[c]) = lease[c].tokens /\ TokensIn(l2, "holding", hand[c]) = want
      BY <1>1, Numbers DEF TokensIn, l2, Lease
    <3>2. queue.committed \in Nat /\ lease[c].tokens <= queue.committed
      BY <1>1, <1>2, <3>1 DEF Entry, Queue
    <3>3. queue.committed <= lease[c].tokens \/ queue.committed + want - lease[c].tokens <= Budget
      BY <1>5 DEF GrowthFits, Alone
    <3>4. QED
      BY <1>1, <3>1, <3>2, <3>3, Numbers, TokensAssumption DEF Affordable
  <2>5. Operates(c, q2, Leases(c, l2), Moved(c, "holding"))
    BY <1>1, <1>3, <2>1, <2>2, <2>4, OperatesOffLine
  <2>6. QED
    BY <2>3, <2>5, OperationAlone
<1>6. CASE /\ Holds(c, [Empty EXCEPT !.tokens = lease[c].tokens, !.want = want])
           /\ lease' = Leases(c, [lease[c] EXCEPT !.tokens = 0])
           /\ at' = Moved(c, "yielding") /\ queue' = queue
  <2> DEFINE l3 == [lease[c] EXCEPT !.tokens = 0]
             h2 == [Empty EXCEPT !.tokens = lease[c].tokens, !.want = want]
  <2>1. /\ l3 \in Lease /\ h2 \in Hand
        /\ Step(queue, parks, lease[c], "holding", hand[c], queue, parks, l3, "yielding", h2, c)
    BY <1>1, <1>2, AskStep
  <2>2. Holds(c, h2) /\ lease' = Leases(c, l3)
    BY <1>6
  <2> HIDE DEF l3, h2
  <2>3. HandIs(c, h2) /\ Leaves(queue, queue)
    BY <2>1, <2>2, HoldsIs, Parts DEF Leaves
  <2>4. Affordable(c, l3, "yielding", h2)
    BY <1>1, Numbers DEF Affordable, TokensIn, l3, h2, Lease, Empty
  <2>5. Operates(c, queue, Leases(c, l3), Moved(c, "yielding"))
    BY <1>1, <1>3, <2>1, <2>3, <2>4, OperatesOffLine
  <2>6. QED
    BY <1>6, <2>2, <2>5, OperationAlone
<1>7. QED
  BY <1>4, <1>5, <1>6 DEF Recost

LEMMA YieldKeeps == ASSUME IBooks, NEW c \in Clients, Yield(c) PROVE Sound
<1> DEFINE q2 == [TokensReturned(queue, hand[c].tokens) EXCEPT !.reparking = @ + 1]
<1>1. at[c] = "yielding" /\ GrantWaiters(q2, lease, Moved(c, "waiting")) /\ parks' = parks /\ hand' = hand
  BY DEF Yield
<1>2. Entry(queue, parks, lease[c], "yielding", hand[c], c)
  BY <1>1, Parts
<1>3. Leaves(queue, q2) /\ Step(queue, parks, lease[c], "yielding", hand[c], q2, parks, lease[c], "waiting", hand[c], c)
  BY <1>2, YieldStep
<1>4. HandIs(c, hand[c]) /\ "waiting" \in Positions /\ lease[c] \in Lease /\ Leases(c, lease[c]) = lease
  BY <1>1, HandKept, Parts, Same DEF Positions
<1> HIDE DEF q2
<1>5. Affordable(c, lease[c], "waiting", hand[c])
  BY <1>1, Numbers DEF Affordable, TokensIn
<1>6. Operates(c, q2, Leases(c, lease[c]), Moved(c, "waiting"))
  BY <1>1, <1>3, <1>4, <1>5, OperatesOffLine
<1>7. QED
  BY <1>1, <1>4, <1>6, OperationAndGrants

LEMMA ReclaimKeeps == ASSUME IBooks, NEW c \in Clients, Reclaim(c) PROVE Sound
<1> DEFINE q2 == EndRepark([queue EXCEPT !.committed = @ + hand[c].want])
<1>1. at[c] = "waiting" /\ GrantWaiters(q2, lease, Moved(c, "reclaimed")) /\ parks' = parks /\ hand' = hand
  BY DEF Reclaim
<1>2. Entry(queue, parks, lease[c], "waiting", hand[c], c)
  BY <1>1, Parts
<1>3. /\ Leaves(queue, q2)
      /\ Step(queue, parks, lease[c], "waiting", hand[c], q2, parks, lease[c], "reclaimed", hand[c], c)
  BY <1>2, ReclaimStep
<1>4. HandIs(c, hand[c]) /\ "reclaimed" \in Positions /\ lease[c] \in Lease /\ Leases(c, lease[c]) = lease
  BY <1>1, HandKept, Parts, Same DEF Positions
<1> HIDE DEF q2
<1>5. Affordable(c, lease[c], "reclaimed", hand[c])
  <2>1. TokensIn(lease[c], at[c], hand[c]) = 0 /\ TokensIn(lease[c], "reclaimed", hand[c]) = hand[c].want
    BY <1>1, <1>2, Numbers DEF TokensIn, Entry, Fields
  <2>2. hand[c].want = 0 \/ queue.committed = 0 \/ queue.committed + hand[c].want <= Budget
    BY DEF Reclaim, WantFits, FitsAgainst
  <2>3. queue.committed \in Nat
    BY <1>2 DEF Entry, Queue
  <2>4. QED
    BY <2>1, <2>2, <2>3, Numbers, TokensAssumption DEF Affordable
<1>6. Operates(c, q2, Leases(c, lease[c]), Moved(c, "reclaimed"))
  BY <1>1, <1>3, <1>4, <1>5, OperatesOffLine
<1>7. QED
  BY <1>1, <1>4, <1>6, OperationAndGrants

LEMMA GrownKeeps == ASSUME IBooks, NEW c \in Clients, Grown(c) PROVE Sound
<1>1. at[c] = "reclaimed" /\ Holds(c, Empty) /\ parks' = parks
  BY DEF Grown
<1>2. Entry(queue, parks, lease[c], "reclaimed", hand[c], c)
  BY <1>1, Parts
<1>3. Empty \in Hand
  BY DEF Empty, Hand
<1>4. HandIs(c, Empty) /\ "gone" \in Positions /\ "holding" \in Positions
  BY <1>1, <1>3, HoldsIs DEF Positions
<1>5. CASE lease[c].released
  <2> DEFINE q2 == GrowthBack(c)
  <2>1. GrantWaiters(q2, lease, Moved(c, "gone")) /\ q2 = TokensReturned(queue, hand[c].want)
    BY <1>5 DEF Grown, GrowthBack
  <2> HIDE DEF q2
  <2>2. Leaves(queue, q2) /\ Step(queue, parks, lease[c], "reclaimed", hand[c], q2, parks, lease[c], "gone", Empty, c)
    BY <1>2, <1>5, <2>1, GrowthBackStep
  <2>3. lease[c] \in Lease /\ Leases(c, lease[c]) = lease
    BY Parts, Same
  <2>4. Affordable(c, lease[c], "gone", Empty)
    BY <1>1, Numbers DEF Affordable, TokensIn
  <2>5. Operates(c, q2, Leases(c, lease[c]), Moved(c, "gone"))
    BY <1>1, <1>4, <2>2, <2>3, <2>4, OperatesOffLine
  <2>6. QED
    BY <2>1, <2>3, <2>5, OperationAndGrants
<1>6. CASE ~lease[c].released
  <2> DEFINE l2 == [lease[c] EXCEPT !.tokens = hand[c].want]
  <2>1. lease' = Leases(c, l2) /\ at' = Moved(c, "holding") /\ queue' = queue
    BY <1>6 DEF Grown
  <2>2. l2 \in Lease /\ Step(queue, parks, lease[c], "reclaimed", hand[c], queue, parks, l2, "holding", Empty, c)
    BY <1>2, <1>6, GrownStep
  <2>3. Leaves(queue, queue)
    BY Parts DEF Leaves
  <2> HIDE DEF l2
  <2>4. Affordable(c, l2, "holding", Empty)
    BY <1>1, Numbers DEF Affordable, TokensIn, l2, Lease
  <2>5. Operates(c, queue, Leases(c, l2), Moved(c, "holding"))
    BY <1>1, <1>4, <2>2, <2>3, <2>4, OperatesOffLine
  <2>6. QED
    BY <2>1, <2>5, OperationAlone
<1>7. QED
  BY <1>5, <1>6

LEMMA GiveUpKeeps == ASSUME IBooks, NEW c \in Clients, GiveUp(c) PROVE Sound
<1>1. at[c] = "waiting" /\ Holds(c, Empty) /\ parks' = parks
  BY DEF GiveUp
<1>2. Entry(queue, parks, lease[c], "waiting", hand[c], c)
  BY <1>1, Parts
<1>3. Empty \in Hand
  BY DEF Empty, Hand
<1>4. HandIs(c, Empty) /\ "gone" \in Positions /\ "holding" \in Positions
  BY <1>1, <1>3, HoldsIs DEF Positions
<1>5. CASE lease[c].released
  <2>1. GrantWaiters(EndRepark(queue), lease, Moved(c, "gone"))
    BY <1>5 DEF GiveUp
  <2>2. /\ Leaves(queue, EndRepark(queue))
        /\ Step(queue, parks, lease[c], "waiting", hand[c], EndRepark(queue), parks, lease[c], "gone", Empty, c)
    BY <1>2, <1>5, LeaveRepark
  <2>3. lease[c] \in Lease /\ Leases(c, lease[c]) = lease
    BY Parts, Same
  <2>4. Affordable(c, lease[c], "gone", Empty)
    BY <1>1, Numbers DEF Affordable, TokensIn
  <2>5. Operates(c, EndRepark(queue), Leases(c, lease[c]), Moved(c, "gone"))
    BY <1>1, <1>4, <2>2, <2>3, <2>4, OperatesOffLine
  <2>6. QED
    BY <2>1, <2>3, <2>5, OperationAndGrants
<1>6. CASE ~lease[c].released
  <2> DEFINE l2 == [lease[c] EXCEPT !.tokens = hand[c].tokens]
             q2 == EndRepark([queue EXCEPT !.committed = @ + hand[c].tokens])
  <2>1. GrantWaiters(q2, Leases(c, l2), Moved(c, "holding"))
    BY <1>6 DEF GiveUp
  <2>2. /\ Leaves(queue, q2) /\ l2 \in Lease
        /\ Step(queue, parks, lease[c], "waiting", hand[c], q2, parks, l2, "holding", Empty, c)
    BY <1>2, <1>6, GiveUpStep
  <2> HIDE DEF l2, q2
  <2>3. Affordable(c, l2, "holding", Empty)
    BY <1>1 DEF Affordable
  <2>4. Operates(c, q2, Leases(c, l2), Moved(c, "holding"))
    BY <1>1, <1>4, <2>2, <2>3, OperatesOffLine
  <2>5. QED
    BY <2>1, <2>4, OperationAndGrants
<1>7. QED
  BY <1>5, <1>6

LEMMA ReleaseKeeps == ASSUME IBooks, NEW c \in Clients, Release(c) PROVE Sound
<1> DEFINE l2 == [lease[c] EXCEPT !.released = TRUE, !.parked = FALSE, !.budgeted = FALSE,
                                  !.returning = IF lease[c].parked THEN "parked" ELSE "lease"]
<1>1. /\ at[c] \notin {"away", "queued", "granted", "gone"} /\ ~lease[c].released
      /\ parks' = ParksWithout(c) /\ lease' = Leases(c, l2) /\ queue' = queue /\ at' = at /\ hand' = hand
  BY DEF Release, Live
<1>2. Entry(queue, parks, lease[c], at[c], hand[c], c)
  BY Parts
<1>3. /\ l2 \in Lease
      /\ Step(queue, parks, lease[c], at[c], hand[c], queue, parks - One(lease[c].budgeted), l2, at[c], hand[c], c)
  BY <1>1, <1>2, ReleaseStep
<1>4. /\ HandIs(c, hand[c]) /\ parks' = parks - One(lease[c].budgeted) /\ at[c] \in Positions
      /\ queue \in Queue /\ Moved(c, at[c]) = at /\ Lines(queue, at)
  BY <1>1, HandKept, ShareDropped, Parts, Same
<1> HIDE DEF l2
<1>5. Affordable(c, l2, at[c], hand[c]) /\ LineMoves(c, queue, at[c])
  BY Numbers DEF Affordable, TokensIn, l2, Lease, LineMoves
<1>6. Operates(c, queue, Leases(c, l2), Moved(c, at[c]))
  BY <1>1, <1>3, <1>4, <1>5, OperatesBy
<1>7. QED
  BY <1>1, <1>4, <1>6, OperationAlone

(* The lines stay when nobody moves.                                        *)
LEMMA LinesKept ==
    ASSUME IBooks, NEW q, Leaves(queue, q)
    PROVE  Lines(q, at)
<1>1. Lines(queue, at)
  BY Parts
<1>2. QED
  BY <1>1 DEF Leaves, Lines

LEMMA ReturnKeeps == ASSUME IBooks, NEW c \in Clients, Return(c) PROVE Sound
<1> DEFINE q2 == TokensReturned(SlotReleased(IF lease[c].returning = "parked" THEN Unparked(queue, c) ELSE queue,
                                             lease[c].slot), lease[c].tokens)
           Ends == at[c] \in {"holding", "parked", "erasing", "unwatched", "leaving"}
           x2 == IF Ends THEN "gone" ELSE at[c]
<1>1. lease[c].returning # "no" /\ parks' = parks /\ hand' = hand
  BY DEF Return
<1>2. GrantWaiters(q2, Leases(c, Gone), Finished(c))
  BY DEF Return, Gone
<1>3. Entry(queue, parks, lease[c], at[c], hand[c], c)
  BY Parts
<1>4. /\ lease[c].released /\ ~lease[c].parked /\ at[c] \notin {"away", "queued", "granted"} /\ at[c] \in Positions
  BY <1>1, <1>3 DEF Entry, Fields
<1>5. /\ Leaves(queue, q2) /\ Gone \in Lease
      /\ Step(queue, parks, lease[c], at[c], hand[c], q2, parks, Gone, x2, hand[c], c)
  <2>1. /\ x2 \in {at[c], "gone"}
        /\ at[c] \in {"granted", "holding", "parked", "erasing", "unwatched", "leaving"} => x2 = "gone"
        /\ at[c] \in {"resuming", "took", "yielding", "waiting", "reclaimed"} => x2 = at[c]
    BY <1>4
  <2> HIDE DEF x2
  <2>2. QED
    BY <1>1, <1>3, <1>4, <2>1, ReturnStep
<1>6. Finished(c) = Moved(c, x2)
  BY Same DEF Finished
<1>7. HandIs(c, hand[c]) /\ x2 \in Positions /\ q2 \in Queue
  BY <1>1, <1>4, <1>5, HandKept DEF Positions, Leaves
<1>8. Lines(q2, Moved(c, x2))
  <2> HIDE DEF q2
  <2>1. CASE Ends
    <3>1. Moved(c, x2)[c] = "gone" /\ \A d \in Clients \ {c} : Moved(c, x2)[d] = at[d]
      BY <1>7, <2>1, MovedIs
    <3>2. Lines(queue, at) /\ q2.waiters = queue.waiters /\ q2.tickets = queue.tickets
      BY <1>5, Parts DEF Leaves
    <3>3. QED
      BY <2>1, <3>1, <3>2, LinesStay
  <2>2. CASE ~Ends
    BY <1>5, <2>2, Same, LinesKept
  <2>3. QED
    BY <2>1, <2>2
<1> HIDE DEF q2, x2
<1>9. Affordable(c, Gone, x2, hand[c]) /\ LineMoves(c, q2, x2) /\ x2 # "granted"
  <2>1. LineMoves(c, q2, x2) /\ x2 # "granted"
    BY <1>4, <1>5 DEF LineMoves, Leaves, x2
  <2>2. TokensIn(Gone, x2, hand[c]) <= TokensIn(lease[c], at[c], hand[c])
    BY Numbers DEF TokensIn, Gone, NoLease, x2
  <2>3. QED
    BY <2>1, <2>2 DEF Affordable
<1>10. Operates(c, q2, Leases(c, Gone), Moved(c, x2))
  BY <1>1, <1>5, <1>7, <1>8, <1>9, OperatesBy
<1>11. QED
  BY <1>2, <1>6, <1>10, OperationAndGrants

LEMMA LapseKeeps == ASSUME IBooks, NEW c \in Clients, Lapse(c) PROVE Sound
<1> DEFINE q2 == [queue EXCEPT !.lapsed = @ \cup {c}]
<1>1. at[c] = "resuming" /\ GrantWaiters(q2, lease, at) /\ parks' = parks /\ hand' = hand
  BY DEF Lapse
<1>2. Entry(queue, parks, lease[c], "resuming", hand[c], c) /\ queue \in Queue /\ lease[c] \in Lease
  BY <1>1, Parts
<1>3. /\ q2 \in Queue /\ q2.waiters = queue.waiters /\ q2.tickets = queue.tickets
      /\ q2.inUse = queue.inUse /\ q2.free = queue.free /\ q2.capacity = queue.capacity
      /\ q2.committed = queue.committed /\ q2.parked = queue.parked
      /\ q2.reclaimable = queue.reclaimable /\ q2.reparking = queue.reparking
  BY <1>2 DEF Queue
<1> HIDE DEF q2
<1>4. Step(queue, parks, lease[c], "resuming", hand[c], q2, parks, lease[c], "resuming", hand[c], c)
  <2>1. Fields(lease[c], "resuming", hand[c]) /\ queue.free = (0..(queue.capacity - 1)) \ queue.inUse
    BY <1>2 DEF Entry
  <2>2. QED
    BY <1>2, <1>3, <2>1, PlaceStep
<1>5. HandIs(c, hand[c]) /\ Moved(c, "resuming") = at /\ Leases(c, lease[c]) = lease /\ "resuming" \in Positions
  BY <1>1, HandKept, Same DEF Positions
<1>6. Lines(q2, Moved(c, "resuming"))
  BY <1>3, <1>5, LinesKept DEF Leaves
<1>7. Affordable(c, lease[c], "resuming", hand[c]) /\ LineMoves(c, q2, "resuming")
  BY <1>1, <1>3, Numbers DEF Affordable, TokensIn, LineMoves
<1>8. Operates(c, q2, Leases(c, lease[c]), Moved(c, "resuming"))
  BY <1>1, <1>2, <1>3, <1>4, <1>5, <1>6, <1>7, OperatesBy
<1>9. QED
  BY <1>1, <1>5, <1>8, OperationAndGrants

LEMMA ResumeKeeps == ASSUME IBooks, NEW c \in Clients, Resume(c) PROVE Sound
<1> DEFINE q2 == [queue EXCEPT !.tickets = Append(@, c)]
           l2 == [lease[c] EXCEPT !.budgeted = FALSE]
           h2 == [Empty EXCEPT !.tokens = lease[c].parkedTokens]
<1>1. /\ at[c] \in {"parked", "unwatched"} /\ lease[c].parked /\ parks' = ParksWithout(c)
      /\ queue' = q2 /\ lease' = Leases(c, l2) /\ at' = Moved(c, "resuming") /\ Holds(c, h2)
  BY DEF Resume
<1>2. Entry(queue, parks, lease[c], at[c], hand[c], c)
  BY Parts
<1>3. /\ q2 \in Queue /\ q2.waiters = queue.waiters /\ q2.tickets = Append(queue.tickets, c)
      /\ l2 \in Lease /\ h2 \in Hand
      /\ Step(queue, parks, lease[c], at[c], hand[c], q2, parks - One(lease[c].budgeted), l2, "resuming", h2, c)
  BY <1>1, <1>2, ResumeStep
<1> HIDE DEF q2, l2, h2
<1>4. HandIs(c, h2) /\ parks' = parks - One(lease[c].budgeted) /\ "resuming" \in Positions
  BY <1>1, <1>3, HoldsIs, ShareDropped DEF Positions
<1>5. Moved(c, "resuming")[c] = "resuming" /\ \A d \in Clients \ {c} : Moved(c, "resuming")[d] = at[d]
  BY <1>4, MovedIs
<1>6. Lines(q2, Moved(c, "resuming"))
  <2>1. /\ InLineOnce(queue.waiters, at, "queued") /\ InLineOnce(queue.tickets, at, "resuming")
        /\ queue.tickets \in Seq(Clients)
    BY Parts DEF Lines, Queue
  <2>2. InLineOnce(Append(queue.tickets, c), Moved(c, "resuming"), "resuming")
    BY <1>1, <1>5, <2>1, LineGrows
  <2>3. InLineOnce(queue.waiters, Moved(c, "resuming"), "queued")
    <3>1. \A d \in Clients : Moved(c, "resuming")[d] = "queued" <=> at[d] = "queued"
      BY <1>1, <1>5
    <3>2. QED
      BY <2>1, <3>1, LineStays
  <2>4. QED
    BY <1>3, <2>2, <2>3 DEF Lines
<1>7. Affordable(c, l2, "resuming", h2) /\ LineMoves(c, q2, "resuming")
  BY <1>1, <1>3, Numbers DEF Affordable, TokensIn, LineMoves, l2, Lease
<1>8. Operates(c, q2, Leases(c, l2), Moved(c, "resuming"))
  BY <1>3, <1>4, <1>6, <1>7, OperatesBy
<1>9. QED
  BY <1>1, <1>8, OperationAlone

(* A request leaves the line of the tickets.                                *)
LEMMA TicketLeft ==
    ASSUME IBooks, NEW c \in Clients, NEW i \in 1..Len(queue.tickets), queue.tickets[i] = c, NEW q,
           q.waiters = queue.waiters, q.tickets = RemoveAt(queue.tickets, i)
    PROVE  at[c] = "resuming" /\ Lines(q, Moved(c, "took")) /\ RemoveAt(queue.tickets, i) \in Seq(Clients)
<1>1. /\ InLineOnce(queue.waiters, at, "queued") /\ InLineOnce(queue.tickets, at, "resuming")
      /\ queue.tickets \in Seq(Clients)
  BY Parts DEF Lines, Queue
<1>2. Moved(c, "took")[c] = "took" /\ \A d \in Clients \ {c} : Moved(c, "took")[d] = at[d]
  BY MovedIs DEF Positions
<1>3. at[c] = "resuming"
  BY <1>1 DEF InLineOnce
<1>4. /\ InLineOnce(RemoveAt(queue.tickets, i), Moved(c, "took"), "resuming")
      /\ RemoveAt(queue.tickets, i) \in Seq(Clients)
  BY <1>1, <1>2, LineLeft
<1>5. InLineOnce(queue.waiters, Moved(c, "took"), "queued")
  <2>1. \A d \in Clients : Moved(c, "took")[d] = "queued" <=> at[d] = "queued"
    BY <1>2, <1>3
  <2>2. QED
    BY <1>1, <2>1, LineStays
<1>6. QED
  BY <1>3, <1>4, <1>5 DEF Lines

(* The tickets before the i-th have a natural number of tokens.             *)
LEMMA AheadIsNat ==
    ASSUME IBooks, NEW i \in 1..Len(queue.tickets)
    PROVE  TokensAhead(queue, i) \in Nat
<1> DEFINE f == [d \in Clients |-> TicketTokens(d)]
           T == ToSet(SubSeq(queue.tickets, 1, i - 1)) \ queue.lapsed
<1>1. \A d \in Clients : hand[d].tokens \in Nat
  BY Numbers
<1>2. T \subseteq Clients
  <2>1. queue.tickets \in Seq(Clients)
    BY Parts DEF Queue
  <2>2. \A j \in 1..Len(SubSeq(queue.tickets, 1, i - 1)) : SubSeq(queue.tickets, 1, i - 1)[j] \in Clients
    BY <2>1
  <2>3. QED
    BY <2>1, <2>2 DEF ToSet
<1>3. Amounts(f, T)
  BY <1>1, <1>2 DEF Amounts, TicketTokens
<1>4. IsFiniteSet(T)
  BY <1>2, ClientsAssumption, FS_Subset
<1> HIDE DEF f, T
<1>5. SumOf(f, T) \in Nat
  BY <1>3, <1>4, SumIsNat
<1>6. QED
  BY <1>5 DEF TokensAhead, f, T

LEMMA TakeSlotKeeps == ASSUME IBooks, NEW c \in Clients, TakeSlot(c) PROVE Sound
<1>1. PICK i \in 1..Len(queue.tickets) :
        /\ queue.tickets[i] = c
        /\ CanAdmit(queue, Ahead(queue, i), TicketTokens(c), TokensAhead(queue, i))
        /\ \E slot \in queue.free :
            /\ GrantWaiters(WithoutTicket(SlotTaken(queue, slot, TicketTokens(c)), i), lease, Moved(c, "took"))
            /\ Holds(c, [hand[c] EXCEPT !.slot = slot])
  BY DEF TakeSlot
<1>2. PICK slot \in queue.free :
        /\ GrantWaiters(WithoutTicket(SlotTaken(queue, slot, TicketTokens(c)), i), lease, Moved(c, "took"))
        /\ Holds(c, [hand[c] EXCEPT !.slot = slot])
  BY <1>1
<1> DEFINE q2 == WithoutTicket(SlotTaken(queue, slot, hand[c].tokens), i)
           h2 == [hand[c] EXCEPT !.slot = slot]
<1>3. GrantWaiters(q2, lease, Moved(c, "took")) /\ Holds(c, h2) /\ parks' = parks
  BY <1>2 DEF TakeSlot, TicketTokens
<1>4. at[c] = "resuming"
  <2>1. InLineOnce(queue.tickets, at, "resuming")
    BY Parts DEF Lines
  <2>2. QED
    BY <1>1, <2>1 DEF InLineOnce
<1>5. Entry(queue, parks, lease[c], "resuming", hand[c], c)
  BY <1>4, Parts
<1>6. /\ q2 \in Queue /\ q2.waiters = queue.waiters /\ q2.tickets = RemoveAt(queue.tickets, i)
      /\ h2 \in Hand
      /\ Step(queue, parks, lease[c], "resuming", hand[c], q2, parks, lease[c], "took", h2, c)
  BY <1>5, TakeSlotStep
<1> HIDE DEF q2, h2
<1>7. HandIs(c, h2) /\ "took" \in Positions /\ lease[c] \in Lease /\ Leases(c, lease[c]) = lease
  BY <1>3, <1>6, HoldsIs, Parts, Same DEF Positions
<1>8. Lines(q2, Moved(c, "took"))
  BY <1>1, <1>6, TicketLeft
<1>9. Affordable(c, lease[c], "took", h2) /\ LineMoves(c, q2, "took")
  <2>1. LineMoves(c, q2, "took")
    BY <1>1, <1>6 DEF LineMoves
  <2>2. /\ TokensIn(lease[c], at[c], hand[c]) = lease[c].tokens
        /\ \/ TokensIn(lease[c], "took", h2) = lease[c].tokens
           \/ TokensIn(lease[c], "took", h2) = lease[c].tokens + hand[c].tokens
    BY <1>4, Numbers DEF TokensIn, h2, Hand
  <2>3. lease[c].tokens <= queue.committed /\ queue.committed \in Nat
    BY <1>4, <1>5, <2>2 DEF Entry, Queue
  <2>4. TokensAhead(queue, i) \in Nat
    BY <1>1, AheadIsNat
  <2>5. \/ hand[c].tokens = 0 \/ queue.committed + TokensAhead(queue, i) = 0
        \/ queue.committed + TokensAhead(queue, i) + hand[c].tokens <= Budget
    BY <1>1 DEF CanAdmit, FitsAgainst, TicketTokens
  <2>6. Affordable(c, lease[c], "took", h2)
    BY <2>2, <2>3, <2>4, <2>5, Numbers, TokensAssumption DEF Affordable
  <2>7. QED
    BY <2>1, <2>6
<1>10. Operates(c, q2, Leases(c, lease[c]), Moved(c, "took"))
  BY <1>3, <1>4, <1>6, <1>7, <1>8, <1>9, OperatesBy
<1>11. QED
  BY <1>3, <1>7, <1>10, OperationAndGrants

LEMMA LeaveLineKeeps == ASSUME IBooks, NEW c \in Clients, LeaveLine(c) PROVE Sound
<1>1. PICK i \in 1..Len(queue.tickets) :
        queue.tickets[i] = c /\ GrantWaiters(WithoutTicket(queue, i), lease, Moved(c, "took"))
  BY DEF LeaveLine
<1> DEFINE q2 == WithoutTicket(queue, i)
<1>2. parks' = parks /\ hand' = hand
  BY DEF LeaveLine
<1>3. at[c] = "resuming"
  <2>1. InLineOnce(queue.tickets, at, "resuming")
    BY Parts DEF Lines
  <2>2. QED
    BY <1>1, <2>1 DEF InLineOnce
<1>4. Entry(queue, parks, lease[c], "resuming", hand[c], c)
  BY <1>3, Parts
<1>5. RemoveAt(queue.tickets, i) \in Seq(Clients)
  <2>1. queue.tickets \in Seq(Clients)
    BY Parts DEF Queue
  <2>2. QED
    BY <2>1, RemoveAtProperties
<1>6. /\ q2 \in Queue /\ q2.waiters = queue.waiters /\ q2.tickets = RemoveAt(queue.tickets, i)
      /\ q2.inUse = queue.inUse /\ q2.free = queue.free /\ q2.capacity = queue.capacity
      /\ q2.committed = queue.committed /\ q2.parked = queue.parked
      /\ q2.reclaimable = queue.reclaimable /\ q2.reparking = queue.reparking
  <2> DEFINE T == RemoveAt(queue.tickets, i)
             L == queue.lapsed \ {queue.tickets[i]}
  <2>1. queue \in Queue
    BY Parts
  <2>2. q2 = [queue EXCEPT !.tickets = T, !.lapsed = L]
    BY <2>1 DEF WithoutTicket, Queue
  <2>3. T \in Seq(Clients) /\ L \in SUBSET Clients
    BY <1>5, <2>1 DEF Queue
  <2> HIDE DEF T, L, q2
  <2>4. QED
    BY <2>1, <2>2, <2>3 DEF Queue, T
<1> HIDE DEF q2
<1>7. Step(queue, parks, lease[c], "resuming", hand[c], q2, parks, lease[c], "took", hand[c], c)
  <2>1. /\ hand[c].slot = None /\ Fields(lease[c], "resuming", hand[c])
        /\ queue.free = (0..(queue.capacity - 1)) \ queue.inUse
    BY <1>4 DEF Entry, Fields
  <2>2. Fields(lease[c], "took", hand[c])
    BY <2>1 DEF Fields
  <2>3. TokensIn(lease[c], "took", hand[c]) = TokensIn(lease[c], "resuming", hand[c])
    BY <2>1 DEF TokensIn
  <2>4. QED
    BY <1>4, <1>6, <2>1, <2>2, <2>3, PlaceStep
<1>8. HandIs(c, hand[c]) /\ "took" \in Positions /\ lease[c] \in Lease /\ Leases(c, lease[c]) = lease
  BY <1>2, HandKept, Parts, Same DEF Positions
<1>9. Lines(q2, Moved(c, "took"))
  BY <1>1, <1>6, TicketLeft
<1>10. Affordable(c, lease[c], "took", hand[c]) /\ LineMoves(c, q2, "took")
  <2>1. hand[c].slot = None
    BY <1>4 DEF Entry, Fields
  <2>2. QED
    BY <1>3, <1>6, <2>1, Numbers DEF Affordable, TokensIn, LineMoves
<1>11. Operates(c, q2, Leases(c, lease[c]), Moved(c, "took"))
  BY <1>2, <1>3, <1>6, <1>7, <1>8, <1>9, <1>10, OperatesBy
<1>12. GrantWaiters(q2, lease, Moved(c, "took"))
  BY <1>1 DEF q2
<1>13. QED
  BY <1>8, <1>11, <1>12, OperationAndGrants

(* A capacity has its slots among all the slots.                            *)
LEMMA SlotsOfCapacity ==
    ASSUME NEW n \in {1} \cup Capacities
    PROVE  n \in Nat /\ n >= 1 /\ 0..(n - 1) \subseteq Slots
<1>1. \E m \in Capacities : \A y \in Capacities : m >= y
  <2>1. Capacities \subseteq Int /\ IsFiniteSet(Capacities) /\ Capacities # {}
    <3>1. ASSUME NEW m \in Capacities PROVE m \in Int
      BY <3>1, CapacityAssumption
    <3>2. QED
      BY <3>1, CapacityAssumption
  <2>2. QED
    BY <2>1, FiniteHasMax
<1>2. Max(Capacities) \in Capacities /\ \A y \in Capacities : Max(Capacities) >= y
  BY <1>1 DEF Max
<1>3. Max(Capacities) \in Nat \ {0} /\ n \in Nat \ {0}
  <2>1. \A m \in Capacities : m \in Nat \ {0}
    BY CapacityAssumption
  <2>2. CASE n = 1
    BY <1>2, <2>1, <2>2
  <2>3. CASE n \in Capacities
    BY <1>2, <2>1, <2>3
  <2>4. QED
    BY <2>2, <2>3
<1>4. Max(Capacities) >= n
  BY <1>2, <1>3
<1>5. 0..(n - 1) \subseteq 0..(Max(Capacities) - 1)
  BY <1>3, <1>4
<1>6. QED
  BY <1>3, <1>5 DEF Slots

(* The queue after _resize_pool_locked.                                     *)
LEMMA ResizedFields ==
    ASSUME NEW q \in Queue, NEW capacity \in Capacities, q.free = (0..(q.capacity - 1)) \ q.inUse
    PROVE  LET r == Resized(q, capacity) IN
           /\ Leaves(q, r)
           /\ r.capacity = capacity /\ r.free = (0..(capacity - 1)) \ q.inUse /\ r.inUse = q.inUse
           /\ r.committed = q.committed /\ r.lapsed = q.lapsed /\ r.parked = q.parked
           /\ r.reclaimable = q.reclaimable /\ r.reparking = q.reparking
<1> DEFINE F == (0..(capacity - 1)) \ q.inUse
<1>1. CASE capacity = q.capacity
  BY <1>1 DEF Resized, Leaves
<1>2. CASE capacity # q.capacity
  <2>1. Resized(q, capacity) = [q EXCEPT !.capacity = capacity, !.free = F]
    BY <1>2 DEF Resized
  <2>2. F \in SUBSET Slots /\ capacity \in {1} \cup Capacities
    BY SlotsOfCapacity
  <2> HIDE DEF F
  <2>3. QED
    BY <2>1, <2>2 DEF Queue, Leaves, F
<1>3. QED
  BY <1>1, <1>2

(* A request that arrives: those who wait, and it, in a line of which the   *)
(* head is served; or it is turned away.                                    *)
LEMMA ReserveKeeps == ASSUME IBooks, NEW c \in Clients, NEW capacity \in Capacities, Reserve(c, capacity) PROVE Sound
<1> DEFINE q == Resized(queue, capacity)
<1>1. /\ at[c] = "away" /\ parks' = parks /\ hand' = hand
      /\ \/ GrantWaiters(InLine(q, c), lease, Moved(c, "queued"))
         \/ GrantWaiters(q, lease, Moved(c, "gone"))
  BY DEF Reserve
<1>2. Entry(queue, parks, lease[c], "away", hand[c], c) /\ queue \in Queue
  BY <1>1, Parts
<1>3. /\ Leaves(queue, q)
      /\ q.capacity = capacity /\ q.free = (0..(capacity - 1)) \ queue.inUse /\ q.inUse = queue.inUse
      /\ q.committed = queue.committed /\ q.lapsed = queue.lapsed /\ q.parked = queue.parked
      /\ q.reclaimable = queue.reclaimable /\ q.reparking = queue.reparking
  BY <1>2, ResizedFields DEF Entry
<1>4. /\ HandIs(c, hand[c]) /\ lease[c] \in Lease /\ Leases(c, lease[c]) = lease
      /\ "queued" \in Positions /\ "gone" \in Positions
  BY <1>1, HandKept, Parts, Same DEF Positions
<1> HIDE DEF q
<1>5. /\ Fields(lease[c], "queued", hand[c])
      /\ TokensIn(lease[c], "queued", hand[c]) = TokensIn(lease[c], "away", hand[c])
      /\ Fields(lease[c], "gone", hand[c])
      /\ TokensIn(lease[c], "gone", hand[c]) = TokensIn(lease[c], "away", hand[c])
  BY <1>2 DEF Entry, Fields, Bare, TokensIn
<1>6. CASE GrantWaiters(q, lease, Moved(c, "gone"))
  <2>1. Step(queue, parks, lease[c], "away", hand[c], q, parks, lease[c], "gone", hand[c], c)
    BY <1>2, <1>3, <1>5, PlaceStep
  <2>2. Affordable(c, lease[c], "gone", hand[c])
    BY <1>1, <1>5, Numbers DEF Affordable, TokensIn
  <2>3. Operates(c, q, Leases(c, lease[c]), Moved(c, "gone"))
    BY <1>1, <1>3, <1>4, <2>1, <2>2, OperatesOffLine
  <2>4. QED
    BY <1>4, <1>6, <2>3, OperationAndGrants
<1>7. CASE GrantWaiters(InLine(q, c), lease, Moved(c, "queued"))
  <2> DEFINE r == InLine(q, c)
             W == Append(queue.waiters, c)
  <2>1. Moved(c, "queued")[c] = "queued" /\ \A d \in Clients \ {c} : Moved(c, "queued")[d] = at[d]
    BY <1>4, MovedIs
  <2>2. /\ InLineOnce(queue.waiters, at, "queued") /\ InLineOnce(queue.tickets, at, "resuming")
        /\ queue.waiters \in Seq(Clients)
    BY Parts DEF Lines, Queue
  <2>3. W \in Seq(Clients) /\ InLineOnce(W, Moved(c, "queued"), "queued")
    BY <1>1, <2>1, <2>2, LineGrows
  <2>4. r = [q EXCEPT !.waiters = W] /\ q \in Queue /\ q.tickets = queue.tickets
    BY <1>3 DEF InLine, Leaves
  <2> HIDE DEF W, r
  <2>5. /\ r \in Queue /\ r.waiters = W /\ r.tickets = queue.tickets
        /\ r.capacity = q.capacity /\ r.free = q.free /\ r.inUse = q.inUse
        /\ r.committed = q.committed /\ r.lapsed = q.lapsed /\ r.parked = q.parked
        /\ r.reclaimable = q.reclaimable /\ r.reparking = q.reparking
    BY <2>3, <2>4 DEF Queue
  <2>6. Step(queue, parks, lease[c], "away", hand[c], r, parks, lease[c], "queued", hand[c], c)
    BY <1>2, <1>3, <1>5, <2>5, PlaceStep
  <2>7. Lines(r, Moved(c, "queued"))
    <3>1. \A d \in Clients : Moved(c, "queued")[d] = "resuming" <=> at[d] = "resuming"
      BY <1>1, <2>1
    <3>2. QED
      BY <2>2, <2>3, <2>5, <3>1, LineStays DEF Lines
  <2>8. Affordable(c, lease[c], "queued", hand[c]) /\ LineMoves(c, r, "queued")
    BY <1>1, <2>5, Numbers DEF Affordable, TokensIn, LineMoves, W
  <2>9. Operates(c, r, Leases(c, lease[c]), Moved(c, "queued"))
    BY <1>1, <1>4, <2>5, <2>6, <2>7, <2>8, OperatesBy
  <2>10. QED
    BY <1>4, <1>7, <2>9, OperationAndGrants DEF r
<1>8. QED
  BY <1>1, <1>6, <1>7

(* cancel, of a request in the line and of one that has its lease.          *)
LEMMA CancelKeeps == ASSUME IBooks, NEW c \in Clients, Cancel(c) PROVE Sound
<1>1. parks' = parks /\ hand' = hand
  BY DEF Cancel
<1>2. HandIs(c, hand[c]) /\ "gone" \in Positions
  BY <1>1, HandKept DEF Positions
<1>3. Moved(c, "gone")[c] = "gone" /\ \A d \in Clients \ {c} : Moved(c, "gone")[d] = at[d]
  BY <1>2, MovedIs
<1>4. CASE \E i \in 1..Len(queue.waiters) :
            /\ queue.waiters[i] = c
            /\ GrantWaiters([queue EXCEPT !.waiters = RemoveAt(@, i)], lease, Moved(c, "gone"))
  <2>1. PICK i \in 1..Len(queue.waiters) :
            /\ queue.waiters[i] = c
            /\ GrantWaiters([queue EXCEPT !.waiters = RemoveAt(@, i)], lease, Moved(c, "gone"))
    BY <1>4
  <2> DEFINE W == RemoveAt(queue.waiters, i)
             r == [queue EXCEPT !.waiters = W]
  <2>2. /\ InLineOnce(queue.waiters, at, "queued") /\ InLineOnce(queue.tickets, at, "resuming")
        /\ queue.waiters \in Seq(Clients) /\ queue \in Queue
    BY Parts DEF Lines, Queue
  <2>3. at[c] = "queued"
    BY <2>1, <2>2 DEF InLineOnce
  <2>4. W \in Seq(Clients) /\ InLineOnce(W, Moved(c, "gone"), "queued")
    BY <1>3, <2>1, <2>2, LineLeft
  <2>5. GrantWaiters(r, lease, Moved(c, "gone"))
    BY <2>1
  <2> HIDE DEF W
  <2>6. /\ r \in Queue /\ r.waiters = W /\ r.tickets = queue.tickets
        /\ r.capacity = queue.capacity /\ r.free = queue.free /\ r.inUse = queue.inUse
        /\ r.committed = queue.committed /\ r.lapsed = queue.lapsed /\ r.parked = queue.parked
        /\ r.reclaimable = queue.reclaimable /\ r.reparking = queue.reparking
    BY <2>2, <2>4 DEF Queue
  <2> HIDE DEF r
  <2>7. Entry(queue, parks, lease[c], "queued", hand[c], c)
    BY <2>3, Parts
  <2>8. Step(queue, parks, lease[c], "queued", hand[c], r, parks, lease[c], "gone", hand[c], c)
    <3>1. /\ Fields(lease[c], "gone", hand[c])
          /\ TokensIn(lease[c], "gone", hand[c]) = TokensIn(lease[c], "queued", hand[c])
          /\ queue.free = (0..(queue.capacity - 1)) \ queue.inUse
      BY <2>7 DEF Entry, Fields, Bare, TokensIn
    <3>2. QED
      BY <2>6, <2>7, <3>1, PlaceStep
  <2>9. Lines(r, Moved(c, "gone"))
    <3>1. \A d \in Clients : Moved(c, "gone")[d] = "resuming" <=> at[d] = "resuming"
      BY <1>3, <2>3
    <3>2. QED
      BY <2>2, <2>4, <2>6, <3>1, LineStays DEF Lines
  <2>10. lease[c] \in Lease /\ Leases(c, lease[c]) = lease
    BY Parts, Same
  <2>11. Affordable(c, lease[c], "gone", hand[c]) /\ LineMoves(c, r, "gone")
    BY <2>1, <2>3, <2>6, Numbers DEF Affordable, TokensIn, LineMoves, W
  <2>12. Operates(c, r, Leases(c, lease[c]), Moved(c, "gone"))
    BY <1>1, <1>2, <2>3, <2>6, <2>8, <2>9, <2>10, <2>11, OperatesBy
  <2>13. QED
    BY <2>5, <2>10, <2>12, OperationAndGrants
<1>5. CASE /\ at[c] = "granted"
           /\ GrantWaiters(TokensReturned(SlotReleased(queue, lease[c].slot), lease[c].tokens),
                           Leases(c, Gone), Moved(c, "gone"))
  <2> DEFINE r == TokensReturned(SlotReleased(queue, lease[c].slot), lease[c].tokens)
  <2>1. Entry(queue, parks, lease[c], "granted", hand[c], c)
    BY <1>5, Parts
  <2>2. ~lease[c].parked /\ lease[c].returning # "parked"
    BY <2>1 DEF Entry, Fields
  <2>3. r = TokensReturned(SlotReleased(IF lease[c].returning = "parked" THEN Unparked(queue, c) ELSE queue,
                                        lease[c].slot), lease[c].tokens)
    BY <2>2
  <2> HIDE DEF r
  <2>4. /\ Leaves(queue, r) /\ Gone \in Lease
        /\ Step(queue, parks, lease[c], "granted", hand[c], r, parks, Gone, "gone", hand[c], c)
    BY <2>1, <2>2, <2>3, ReturnStep
  <2>5. Affordable(c, Gone, "gone", hand[c])
    BY <1>5, Numbers DEF Affordable, TokensIn, Gone, NoLease
  <2>6. Operates(c, r, Leases(c, Gone), Moved(c, "gone"))
    BY <1>1, <1>2, <1>5, <2>4, <2>5, OperatesOffLine
  <2>7. QED
    BY <1>5, <2>6, OperationAndGrants DEF r
<1>6. QED
  BY <1>4, <1>5 DEF Cancel, Gone

-----------------------------------------------------------------------------
IInv ==
    /\ IBooks
    /\ parks \in 0..MaxParked
    /\ rounds \in [Clients -> 0..MaxRounds]

(* The books of an empty queue are balanced.                                *)
LEMMA InitBalanced == ASSUME Init PROVE IInv
<1>1. /\ queue = [capacity |-> 1, free |-> {0}, inUse |-> {}, committed |-> 0,
                  waiters |-> <<>>, tickets |-> <<>>, lapsed |-> {},
                  parked |-> 0, reclaimable |-> [c \in Clients |-> 0], reparking |-> 0]
      /\ parks = 0 /\ lease = [c \in Clients |-> NoLease] /\ at = [c \in Clients |-> "away"]
      /\ hand = [c \in Clients |-> Empty] /\ rounds = [c \in Clients |-> 0]
  BY DEF Init
<1>2. 0 \in Slots
  BY SlotsOfCapacity
<1>3. Typed(queue, lease, at, hand)
  <2>1. queue \in Queue
    BY <1>1, <1>2 DEF Queue
  <2>2. NoLease \in Lease /\ Empty \in Hand /\ "away" \in Positions
    BY DEF NoLease, Lease, Empty, Hand, Positions
  <2>3. QED
    BY <1>1, <2>1, <2>2 DEF Typed
<1>4. \A c \in Clients :
        /\ HeldIn(lease[c], hand[c]) = {} /\ TokensIn(lease[c], at[c], hand[c]) = 0
        /\ ~ParkedIn(lease[c]) /\ Reclaimable(lease[c]) = 0 /\ ~lease[c].budgeted /\ at[c] = "away"
        /\ lease[c].slot = None /\ Fields(lease[c], at[c], hand[c])
  BY <1>1 DEF NoLease, Empty, HeldIn, TokensIn, ParkedIn, Reclaimable, Fields, Bare
<1>5. SlotBook(queue.free, queue.inUse, queue.capacity, lease, hand)
  <2>1. queue.free = {0} /\ queue.inUse = {} /\ queue.capacity = 1
    BY <1>1
  <2>2. {0} = (0..(1 - 1)) \ {}
    OBVIOUS
  <2>3. QED
    BY <1>4, <2>1, <2>2 DEF SlotBook
<1>6. TokenBook(queue.committed, lease, at, hand)
  <2>1. \A c \in Clients : AllTokens(lease, at, hand)[c] = 0
    BY <1>4 DEF AllTokens
  <2>2. SumOf(AllTokens(lease, at, hand), Clients) = 0
    BY <2>1, ClientsAssumption, SumOfZeros
  <2>3. QED
    BY <1>1, <2>2 DEF TokenBook
<1>7. ParkBook(queue.parked, queue.reclaimable, lease) /\ ShareBook(parks, lease) /\ RepairBook(queue.reparking, at)
  <2>1. ParkedOf(lease) = {} /\ BudgetedOf(lease) = {} /\ WaitingOf(at) = {}
    BY <1>4 DEF ParkedOf, BudgetedOf, WaitingOf
  <2>2. queue.reclaimable = [c \in Clients |-> Reclaimable(lease[c])]
    BY <1>1, <1>4
  <2>3. QED
    BY <1>1, <2>1, <2>2, FS_EmptySet DEF ParkBook, ShareBook, RepairBook
<1>8. Lines(queue, at)
  <2>1. queue.waiters = <<>> /\ queue.tickets = <<>> /\ 1..Len(<<>>) = {}
    BY <1>1
  <2>2. QED
    BY <1>4, <2>1 DEF Lines, InLineOnce
<1>9. IBooks
  BY <1>3, <1>4, <1>5, <1>6, <1>7, <1>8 DEF IBooks, Books, Balanced
<1>10. parks \in 0..MaxParked /\ rounds \in [Clients -> 0..MaxRounds]
  BY <1>1, BoundAssumption
<1>11. QED
  BY <1>9, <1>10 DEF IInv

(* Every step keeps the books, serves in order and commits what fits.       *)
LEMMA StepSound == ASSUME IBooks, [Next]_vars PROVE Sound
<1>1. CASE UNCHANGED vars
  <2>1. IBooksNext /\ ServedInOrder
    BY <1>1 DEF vars, IBooks, IBooksNext, ServedInOrder
  <2>2. queue.committed \in Nat /\ queue'.committed = queue.committed
    BY <1>1, Parts DEF vars, Queue
  <2>3. CommitsFit
    BY <2>2 DEF CommitsFit
  <2>4. QED
    BY <2>1, <2>3 DEF Sound
<1>2. CASE Next
  <2>1. PICK c \in Clients : Wait(c) \/ Approval(c) \/ Growth(c) \/ Release(c) \/ Return(c)
    BY <1>2 DEF Next
  <2>2. CASE Wait(c)
    BY <2>2, ReserveKeeps, DeliverKeeps, CancelKeeps DEF Wait
  <2>3. CASE Approval(c)
    <3>1. CASE Park(c) \/ Erased(c) \/ Resume(c) \/ TakeSlot(c) \/ LeaveLine(c) \/ Lapse(c) \/ Resumed(c) \/ Teardown(c)
      BY <3>1, ParkKeeps, ErasedKeeps, ResumeKeeps, TakeSlotKeeps, LeaveLineKeeps, LapseKeeps,
         ResumedKeeps, TeardownKeeps
    <3>2. CASE Erase(c)
      BY <3>2, EraseKeeps DEF Erase
    <3>3. CASE EraseFails(c)
      BY <3>3, EraseKeeps DEF EraseFails
    <3>4. QED
      BY <2>3, <3>1, <3>2, <3>3 DEF Approval
  <2>4. CASE Growth(c)
    BY <2>4, RecostKeeps, YieldKeeps, ReclaimKeeps, GrownKeeps, GiveUpKeeps DEF Growth
  <2>5. CASE Release(c) \/ Return(c)
    BY <2>5, ReleaseKeeps, ReturnKeeps
  <2>6. QED
    BY <2>1, <2>2, <2>3, <2>4, <2>5
<1>3. QED
  BY <1>1, <1>2

(* The shares and the rounds stay within their bounds.                      *)
LEMMA StepBounded ==
    ASSUME IInv, [Next]_vars
    PROVE  parks' \in 0..MaxParked /\ rounds' \in [Clients -> 0..MaxRounds]
<1>1. parks \in 0..MaxParked /\ rounds \in [Clients -> 0..MaxRounds] /\ IBooks
  BY DEF IInv
<1>2. CASE UNCHANGED vars
  BY <1>1, <1>2 DEF vars
<1>3. ASSUME NEW c \in Clients PROVE ParksWithout(c) \in 0..MaxParked
  BY <1>1, BoundAssumption DEF ParksWithout, Minus
<1>4. ASSUME NEW c \in Clients, Round(c) PROVE rounds' \in [Clients -> 0..MaxRounds]
  <2>1. rounds[c] < MaxRounds /\ rounds' = [rounds EXCEPT ![c] = rounds[c] + 1]
    BY <1>4 DEF Round
  <2>2. rounds[c] + 1 \in 0..MaxRounds
    BY <1>1, <2>1, BoundAssumption
  <2>3. QED
    BY <1>1, <2>1, <2>2
<1>5. CASE Next
  <2>1. PICK c \in Clients : Wait(c) \/ Approval(c) \/ Growth(c) \/ Release(c) \/ Return(c)
    BY <1>5 DEF Next
  <2>2. CASE Wait(c)
    BY <1>1, <2>2 DEF Wait, Reserve, Deliver, Cancel
  <2>3. CASE Approval(c)
    <3>1. CASE Park(c)
      <4>1. parks < MaxParked /\ parks' = parks + 1 /\ Round(c)
        BY <3>1 DEF Park
      <4>2. parks' \in 0..MaxParked
        BY <1>1, <4>1, BoundAssumption
      <4>3. QED
        BY <1>4, <4>1, <4>2
    <3>2. CASE Resume(c) \/ Teardown(c)
      BY <1>1, <1>3, <3>2 DEF Resume, Teardown
    <3>3. CASE Erase(c) \/ Erased(c) \/ EraseFails(c) \/ TakeSlot(c) \/ LeaveLine(c) \/ Lapse(c) \/ Resumed(c)
      BY <1>1, <3>3 DEF Erase, Erased, EraseFails, TakeSlot, LeaveLine, Lapse, Resumed
    <3>4. QED
      BY <2>3, <3>1, <3>2, <3>3 DEF Approval
  <2>4. CASE Growth(c)
    <3>1. CASE \E want \in Wants : Recost(c, want)
      BY <1>1, <1>4, <3>1 DEF Recost
    <3>2. CASE Yield(c) \/ Reclaim(c) \/ Grown(c) \/ GiveUp(c)
      BY <1>1, <3>2 DEF Yield, Reclaim, Grown, GiveUp
    <3>3. QED
      BY <2>4, <3>1, <3>2 DEF Growth
  <2>5. CASE Release(c) \/ Return(c)
    BY <1>1, <1>3, <2>5 DEF Release, Return
  <2>6. QED
    BY <2>1, <2>2, <2>3, <2>4, <2>5
<1>6. QED
  BY <1>2, <1>5

(* The inductive invariant.                                                 *)
LEMMA IInvIsInvariant == Spec => []IInv
<1>1. Init => IInv
  BY InitBalanced
<1>2. IInv /\ [Next]_vars => IInv'
  <2>1. ASSUME IInv, [Next]_vars PROVE IInv'
    <3>1. IBooksNext
      BY <2>1, StepSound DEF IInv, Sound
    <3>2. parks' \in 0..MaxParked /\ rounds' \in [Clients -> 0..MaxRounds]
      BY <2>1, StepBounded
    <3>3. QED
      BY <3>1, <3>2 DEF IInv, IBooks, IBooksNext
  <2>2. QED
    BY <2>1
<1>3. QED
  BY <1>1, <1>2, PTL DEF Spec

(* Consistent: the queue's books are what the requests hold, however many   *)
(* requests, slots and tokens there are.                                    *)
THEOREM ConsistentHolds == Spec => []Consistent
<1>1. ASSUME IInv PROVE Consistent
  <2>1. /\ Typed(queue, lease, at, hand) /\ Balanced(queue, parks, lease, at, hand)
        /\ parks \in 0..MaxParked /\ rounds \in [Clients -> 0..MaxRounds]
    BY <1>1 DEF IInv, IBooks, Books
  <2>2. TypeOK
    BY <2>1 DEF Typed, TypeOK, Hand
  <2>3. SlotsOwned
    <3>1. \A c \in Clients : Held(c) = HeldIn(lease[c], hand[c])
      BY DEF Held, HeldIn
    <3>2. SlotBook(queue.free, queue.inUse, queue.capacity, lease, hand)
      BY <2>1 DEF Balanced
    <3>3. UNION {Held(c) : c \in Clients} = UNION {HeldIn(lease[c], hand[c]) : c \in Clients}
      BY <3>1
    <3>4. QED
      BY <3>1, <3>2, <3>3 DEF SlotBook, SlotsOwned
  <2>4. CountsExact
    <3>1. queue.committed = SumOf([c \in Clients |-> Tokens(c)], Clients)
      <4>1. [c \in Clients |-> Tokens(c)] = AllTokens(lease, at, hand)
        BY DEF Tokens, AllTokens, TokensIn
      <4>2. QED
        BY <2>1, <4>1 DEF Balanced, TokenBook
    <3>2. ParkedOf(lease) = {c \in Clients : lease[c].parked \/ lease[c].returning = "parked"}
      BY DEF ParkedOf, ParkedIn
    <3>3. queue.reclaimable = [c \in Clients |-> IF c \in ParkedOf(lease) THEN lease[c].tokens ELSE 0]
      <4>1. \A c \in Clients : Reclaimable(lease[c]) = IF c \in ParkedOf(lease) THEN lease[c].tokens ELSE 0
        BY DEF Reclaimable, ParkedOf
      <4>2. queue.reclaimable = [c \in Clients |-> Reclaimable(lease[c])]
        BY <2>1 DEF Balanced, ParkBook
      <4>3. QED
        BY <4>1, <4>2
    <3>4. queue.parked = Cardinality(ParkedOf(lease)) /\ parks = Cardinality({c \in Clients : lease[c].budgeted})
          /\ queue.reparking = Cardinality({c \in Clients : at[c] = "waiting"})
      BY <2>1 DEF Balanced, ParkBook, ShareBook, BudgetedOf, RepairBook, WaitingOf
    <3>5. QED
      BY <3>1, <3>2, <3>3, <3>4 DEF CountsExact
  <2>5. QED
    BY <2>2, <2>3, <2>4 DEF Consistent
<1>2. QED
  BY <1>1, IInvIsInvariant, PTL

(* Once nobody is busy the queue is as new: every slot is free, no token is *)
(* committed, nobody counts as parked or reparking, no share is taken, and  *)
(* no line has anybody in it.                                               *)
NothingLeft ==
    (\A c \in Clients : ~Busy(c)) =>
        /\ queue.free = 0..(queue.capacity - 1) /\ queue.inUse = {}
        /\ queue.committed = 0 /\ queue.parked = 0 /\ queue.reparking = 0 /\ parks = 0
        /\ queue.waiters = <<>> /\ queue.tickets = <<>>

(* NothingLeft: when everybody has gone, nothing leaks.                     *)
THEOREM NothingLeftHolds == Spec => []NothingLeft
<1>1. ASSUME IInv, \A c \in Clients : ~Busy(c)
      PROVE  /\ queue.free = 0..(queue.capacity - 1) /\ queue.inUse = {}
             /\ queue.committed = 0 /\ queue.parked = 0 /\ queue.reparking = 0 /\ parks = 0
             /\ queue.waiters = <<>> /\ queue.tickets = <<>>
  <2>1. /\ Balanced(queue, parks, lease, at, hand) /\ Lines(queue, at)
        /\ \A c \in Clients : Fields(lease[c], at[c], hand[c])
    BY <1>1 DEF IInv, IBooks, Books
  <2>2. \A c \in Clients : at[c] \in {"away", "gone"} /\ Bare(lease[c]) /\ hand[c].slot = None
    BY <1>1, <2>1 DEF Busy, Fields
  <2>3. queue.inUse = {}
    <3>1. \A c \in Clients : HeldIn(lease[c], hand[c]) = {}
      BY <2>2 DEF HeldIn, Bare
    <3>2. queue.inUse = UNION {HeldIn(lease[c], hand[c]) : c \in Clients}
      BY <2>1 DEF Balanced, SlotBook
    <3>3. QED
      BY <3>1, <3>2
  <2>4. queue.free = 0..(queue.capacity - 1)
    BY <2>1, <2>3 DEF Balanced, SlotBook
  <2>5. queue.committed = 0
    <3>1. \A c \in Clients : AllTokens(lease, at, hand)[c] = 0
      BY <2>2 DEF AllTokens, TokensIn, Bare
    <3>2. SumOf(AllTokens(lease, at, hand), Clients) = 0
      BY <3>1, ClientsAssumption, SumOfZeros
    <3>3. QED
      BY <2>1, <3>2 DEF Balanced, TokenBook
  <2>6. queue.parked = 0 /\ queue.reparking = 0 /\ parks = 0
    <3>1. ParkedOf(lease) = {} /\ BudgetedOf(lease) = {} /\ WaitingOf(at) = {}
      BY <2>2 DEF ParkedOf, ParkedIn, Bare, BudgetedOf, WaitingOf
    <3>2. QED
      BY <2>1, <3>1, FS_EmptySet DEF Balanced, ParkBook, ShareBook, RepairBook
  <2>7. queue.waiters = <<>> /\ queue.tickets = <<>>
    <3>1. queue.waiters \in Seq(Clients) /\ queue.tickets \in Seq(Clients)
      BY <1>1 DEF IInv, IBooks, Books, Typed, Queue
    <3>2. \A i \in 1..Len(queue.waiters) : FALSE
      BY <2>1, <2>2, <3>1 DEF Lines, InLineOnce
    <3>3. \A i \in 1..Len(queue.tickets) : FALSE
      BY <2>1, <2>2, <3>1 DEF Lines, InLineOnce
    <3>4. Len(queue.waiters) = 0 /\ Len(queue.tickets) = 0
      BY <3>1, <3>2, <3>3
    <3>5. QED
      BY <3>1, <3>4
  <2>8. QED
    BY <2>3, <2>4, <2>5, <2>6, <2>7
<1>2. IInv => NothingLeft
  BY <1>1 DEF NothingLeft
<1>3. QED
  BY <1>2, IInvIsInvariant, PTL

(* CommitFits: what is committed passes the budget only for a request that  *)
(* has all of it, or when a repark that is given up takes back what it had. *)
THEOREM CommitFitsHolds == Spec => CommitFits
<1>1. ASSUME IInv, [Next]_vars PROVE CommitsFit
  BY <1>1, StepSound DEF IInv, Sound
<1>2. IInv /\ [Next]_vars => [CommitsFit]_vars
  BY <1>1
<1>3. QED
  BY <1>2, IInvIsInvariant, PTL DEF Spec, CommitFits, CommitsFit

(* NoOvertaking: a lease is granted to the one who came first.              *)
THEOREM NoOvertakingHolds == Spec => NoOvertaking
<1>1. ASSUME IInv, [Next]_vars PROVE ServedInOrder
  BY <1>1, StepSound DEF IInv, Sound
<1>2. IInv /\ [Next]_vars => [ServedInOrder]_vars
  BY <1>1
<1>3. QED
  BY <1>2, IInvIsInvariant, PTL DEF Spec, NoOvertaking, ServedInOrder
=============================================================================
