--------------------- MODULE ChatGenerationOutputProofs ---------------------
(***************************************************************************)
(* Theorems about what the log of a run holds and what its followers see,   *)
(* over the inductive invariant of ChatGenerationRunsProofs: Views adds     *)
(* what the streams know, Output what one producer at a time writes.        *)
(***************************************************************************)
EXTENDS ChatGenerationRunsProofs, FunctionTheorems

-----------------------------------------------------------------------------
(* Counting                                                                 *)

(* As many as there are numbers, when each has its own.                     *)
LEMMA Counted ==
    ASSUME NEW S, NEW n \in Nat, NEW lo \in Nat, NEW number \in Bijection(S, (lo + 1)..(lo + n))
    PROVE  IsFiniteSet(S) /\ Cardinality(S) = n
<1> DEFINE I == (lo + 1)..(lo + n)
<1>1. IsFiniteSet(I) /\ Cardinality(I) = n
    <2>1. lo + 1 \in Int /\ lo + n \in Int /\ (lo + 1 > lo + n <=> n = 0) /\ (lo + n) - (lo + 1) + 1 = n
        OBVIOUS
    <2> QED
        BY <2>1, FS_Interval
<1>2. ExistsBijection(I, S)
    BY Fun_ExistsBijSymmetric DEF ExistsBijection
<1> QED
    BY <1>1, <1>2, FS_Bijection

(* Events with the numbers after lo, n of them.                             *)
FollowOn(S, lo, n) ==
    /\ {e.seq : e \in S} = (lo + 1)..(lo + n)
    /\ \A d, e \in S : d.seq = e.seq => d = e

LEMMA CountedBySeq ==
    ASSUME NEW S, NEW n \in Nat, NEW lo \in Nat, FollowOn(S, lo, n)
    PROVE  IsFiniteSet(S) /\ Cardinality(S) = n
<1> DEFINE number == [e \in S |-> e.seq]
<1>1. number \in Bijection(S, (lo + 1)..(lo + n))
    BY DEF FollowOn, Bijection, Injection, Surjection, IsInjective
<1> QED
    BY <1>1, Counted

(* Events whose numbers follow on, in order.                                *)
LEMMA InOrderFacts ==
    ASSUME NEW S, NEW n \in Nat, NEW lo \in Nat, FollowOn(S, lo, n)
    PROVE  /\ InOrder(S) \in Seq(S) /\ Len(InOrder(S)) = n
           /\ \A i \in 1..n : InOrder(S)[i].seq = lo + i
<1>1. Cardinality(S) = n
    BY CountedBySeq
<1>2. ASSUME NEW e \in S
      PROVE  e.seq \in (lo + 1)..(lo + n) /\ Cardinality({d \in S : d.seq <= e.seq}) = e.seq - lo
    <2> DEFINE T == {d \in S : d.seq <= e.seq}
    <2>1. \A d \in S : d.seq \in (lo + 1)..(lo + n)
        BY DEF FollowOn
    <2>2. PICK m \in Nat : e.seq = lo + m /\ m <= n
        <3>1. PICK k \in (lo + 1)..(lo + n) : k = e.seq
            BY <2>1
        <3>2. k - lo \in Nat /\ k = lo + (k - lo) /\ k - lo <= n
            OBVIOUS
        <3> QED
            BY <3>1, <3>2
    <2>3. /\ \A d \in T : d \in S /\ d.seq <= lo + m
          /\ \A d \in S : d.seq <= lo + m => d \in T
        BY <2>2
    <2> HIDE DEF T
    <2>4. {d.seq : d \in T} = (lo + 1)..(lo + m)
        <3>1. ASSUME NEW d \in T PROVE d.seq \in (lo + 1)..(lo + m)
            <4>1. PICK k \in (lo + 1)..(lo + n) : k = d.seq /\ k <= lo + m
                BY <2>1, <2>3, <3>1
            <4> QED
                BY <2>2, <4>1
        <3>2. ASSUME NEW k \in (lo + 1)..(lo + m) PROVE \E d \in T : d.seq = k
            <4>1. k \in (lo + 1)..(lo + n) /\ k <= lo + m
                BY <2>2
            <4>2. PICK d \in S : d.seq = k
                BY <4>1 DEF FollowOn
            <4> QED
                BY <2>3, <4>1, <4>2
        <3> QED
            BY <3>1, <3>2
    <2>5. \A d, f \in T : d.seq = f.seq => d = f
        BY <2>3 DEF FollowOn
    <2>6. Cardinality(T) = m
        BY <2>4, <2>5, CountedBySeq DEF FollowOn
    <2>7. Cardinality(T) = e.seq - lo
        BY <2>2, <2>6
    <2> QED
        BY <2>1, <2>7 DEF T
<1> DEFINE Nth(i) == CHOOSE f \in S : Cardinality({d \in S : d.seq <= f.seq}) = i
<1>3. InOrder(S) = [i \in 1..n |-> Nth(i)]
    BY <1>1 DEF InOrder
<1>4. ASSUME NEW i \in 1..n PROVE InOrder(S)[i] = Nth(i)
    BY <1>3
<1>5. ASSUME NEW i \in 1..n
      PROVE  InOrder(S)[i] \in S /\ InOrder(S)[i].seq = lo + i
    <2>1. lo + i \in {e.seq : e \in S}
        BY DEF FollowOn
    <2>2. PICK e \in S : e.seq = lo + i
        BY <2>1
    <2>3. Cardinality({d \in S : d.seq <= e.seq}) = i
        BY <1>2, <2>2
    <2>4. Nth(i) \in S /\ Cardinality({d \in S : d.seq <= Nth(i).seq}) = i
        BY <2>3
    <2> HIDE DEF Nth
    <2>5. InOrder(S)[i] \in S /\ Cardinality({d \in S : d.seq <= InOrder(S)[i].seq}) = i
        BY <1>4, <2>4
    <2>6. InOrder(S)[i].seq \in (lo + 1)..(lo + n) /\ InOrder(S)[i].seq - lo = i
        BY <1>2, <2>5
    <2> QED
        BY <2>5, <2>6
<1>6. InOrder(S) \in Seq(S) /\ Len(InOrder(S)) = n
    <2>1. DOMAIN InOrder(S) = 1..n /\ InOrder(S) = [i \in 1..n |-> InOrder(S)[i]]
        BY <1>3
    <2> QED
        BY <1>5, <2>1
<1> QED
    BY <1>5, <1>6

-----------------------------------------------------------------------------
(* Followers                                                                *)

Ends(type) == type \in Store!TERMINAL_STATUSES
Phases == {"idle", "read", "state", "send", "ended", "lost"}
Log == Seq(Store!Event)
View == [pc : Phases, cursor : Nat, seen : Log, batch : Log, over : BOOLEAN, last : Nat]

(* Numbers that follow each other, of events of the run's log while it is   *)
(* there.                                                                   *)
LogFrom(r, s, before) ==
    \A i \in 1..Len(s) : s[i].seq = before + i /\ (Row(r) => s[i] \in events[r])

(* What a stream that was told that the run is over knows of its log.       *)
ToldOver(r, v) ==
    /\ v.pc = "send" /\ v.last >= 1 /\ Len(v.seen) + Len(v.batch) <= v.last
    /\ \A i \in 1..Len(v.seen) : v.seen[i].seq = v.last => Ends(v.seen[i].type)
    /\ \A i \in 1..Len(v.batch) : v.batch[i].seq = v.last => Ends(v.batch[i].type)
    /\ Row(r) => IsTerminal(r) /\ runs[r].last = v.last

Ended(r, v) ==
    /\ v.seen # <<>> /\ Ends(v.seen[Len(v.seen)].type)
    /\ Row(r) => IsTerminal(r) /\ runs[r].last = Len(v.seen)

Follower(r, v) ==
    /\ v \in View /\ Len(v.batch) <= ReadLimit
    /\ v.pc # "idle" \/ v.seen # <<>> => Known(r)
    /\ LogFrom(r, v.seen, 0) /\ LogFrom(r, v.batch, Len(v.seen))
    /\ v.batch # <<>> => v.pc \in {"state", "send"}
    /\ v.pc \in {"read", "state", "send"} => v.cursor = Len(v.seen)
    /\ v.over => ToldOver(r, v)
    /\ v.pc = "ended" => Ended(r, v)

Views ==
    /\ views = [c \in Clients |-> views[c]]
    /\ \A r \in Runs : SP!Begun(r)
    /\ \A c \in Clients : Follower(Follows[c], views[c])

(* What a stream reads, and what a log tells of its end.                    *)
LEMMA LogFacts ==
    ASSUME SP!Inv, NEW r \in Runs
    PROVE  /\ events[r] \subseteq Store!Event /\ runs[r].last \in Nat
           /\ {e.seq : e \in events[r]} = 1..runs[r].last
           /\ \A d, e \in events[r] : d.seq = e.seq => d = e
           /\ \A e \in events[r] : e.seq \in 1..runs[r].last
           /\ IsTerminal(r) => Row(r) /\ \A e \in events[r] : e.seq = runs[r].last => Ends(e.type)
<1>1. /\ SP!LogGapless /\ SP!LogEndsWithRun /\ events[r] \subseteq Store!Event /\ runs[r].last \in Nat
    BY SameType, RowFacts DEF SP!Inv, Store!TypeOK
<1>2. {e.seq : e \in events[r]} = 1..runs[r].last /\ \A d, e \in events[r] : d.seq = e.seq => d = e
    BY <1>1 DEF SP!LogGapless
<1>3. IsTerminal(r) => \A e \in events[r] : e.seq = runs[r].last => e.type = runs[r].status
    BY <1>1, SameRow DEF SP!LogEndsWithRun, IsTerminal
<1> QED
    BY <1>1, <1>2, <1>3 DEF IsTerminal, Store!IsTerminal, Row, Store!Row, Store!TERMINAL_STATUSES, Ends

LEMMA AfterFacts ==
    ASSUME SP!Inv, NEW r \in Runs, NEW cursor \in Nat
    PROVE  /\ EventsAfter(r, cursor) \in Seq(Store!Event) /\ Len(EventsAfter(r, cursor)) <= ReadLimit
           /\ LogFrom(r, EventsAfter(r, cursor), cursor)
<1> DEFINE S    == {e \in events[r] : e.seq > cursor}
           last == runs[r].last
           found == InOrder(S)
<1>1. last \in Nat /\ ReadLimit \in Nat /\ events[r] \subseteq Store!Event
    BY LogFacts, BoundAssumption
<1>2. PICK n \in Nat : (cursor + 1)..(cursor + n) = {k \in 1..last : k > cursor}
    <2>1. CASE cursor <= last
        <3>1. last - cursor \in Nat /\ (cursor + 1)..(cursor + (last - cursor)) = {k \in 1..last : k > cursor}
            BY <1>1, <2>1
        <3> QED
            BY <3>1
    <2>2. CASE ~(cursor <= last)
        <3>1. (cursor + 1)..(cursor + 0) = {k \in 1..last : k > cursor}
            BY <1>1, <2>2
        <3> QED
            BY <3>1
    <2> QED
        BY <2>1, <2>2
<1>3. {e.seq : e \in S} = (cursor + 1)..(cursor + n)
    <2>1. {e.seq : e \in S} = {k \in {e.seq : e \in events[r]} : k > cursor}
        OBVIOUS
    <2> QED
        BY <1>2, <2>1, LogFacts
<1>4. \A d, e \in S : d.seq = e.seq => d = e
    BY LogFacts
<1>5. S \subseteq events[r] /\ EventsAfter(r, cursor) = Limited(found)
    BY DEF EventsAfter
<1> HIDE DEF S
<1>6. /\ found \in Seq(S) /\ Len(found) = n /\ \A i \in 1..n : found[i].seq = cursor + i
    <2>1. FollowOn(S, cursor, n)
        BY <1>3, <1>4 DEF FollowOn
    <2> QED
        BY <1>2, <2>1, InOrderFacts
<1> HIDE DEF found
<1>7. \A i \in 1..n : found[i] \in events[r] /\ found[i] \in Store!Event
    BY <1>1, <1>5, <1>6, ElementOfSeq
<1>8. found \in Seq(Store!Event)
    BY <1>1, <1>5, <1>6, SeqMonotonic
<1>9. CASE n <= ReadLimit
    <2>1. Limited(found) = found
        BY <1>1, <1>6, <1>9 DEF Limited
    <2> QED
        BY <1>5, <1>6, <1>7, <1>8, <1>9, <2>1 DEF LogFrom
<1>10. CASE ~(n <= ReadLimit)
    <2>1. Limited(found) = SubSeq(found, 1, ReadLimit)
        BY <1>1, <1>6, <1>10 DEF Limited
    <2>2. \A i \in 1..ReadLimit : i \in 1..n /\ found[i] \in Store!Event /\ 1 + i - 1 = i
        BY <1>1, <1>7, <1>10
    <2>3. 1 \in Int /\ ReadLimit \in Int /\ ReadLimit - 1 + 1 = ReadLimit /\ 1 <= ReadLimit
        BY BoundAssumption
    <2>4. /\ SubSeq(found, 1, ReadLimit) \in Seq(Store!Event) /\ Len(SubSeq(found, 1, ReadLimit)) = ReadLimit
          /\ \A i \in 1..ReadLimit : SubSeq(found, 1, ReadLimit)[i] = found[1 + i - 1]
        BY <2>2, <2>3, SubSeqProperties
    <2>5. \A i \in 1..ReadLimit : SubSeq(found, 1, ReadLimit)[i] = found[i]
        BY <2>2, <2>4
    <2> QED
        BY <1>1, <1>5, <1>6, <1>7, <2>1, <2>2, <2>4, <2>5 DEF LogFrom
<1> QED
    BY <1>9, <1>10

(* What a transaction leaves of a run that its followers know.              *)
LEMMA KnownStays ==
    ASSUME SP!Inv, [Store!Next]_store, NEW r \in Runs
    PROVE  /\ Known(r) => Known(r)'
           /\ Known(r) /\ Row(r)' => /\ Row(r) /\ events[r] \subseteq events'[r]
                                     /\ IsTerminal(r) => IsTerminal(r)' /\ runs'[r].last = runs[r].last
<1>1. [SP!Next]_SP!store
    BY SameNext DEF store, SP!store
<1>2. SP!Inv'
    BY StoreStep
<1>3. (r \in tombstones => r \in tombstones') /\ (Row(r) => Row(r)' \/ r \in tombstones')
    BY <1>1, BatchesAssumption, SP!GoneStep, SameRow DEF Row, Store!Row, SP!Row, Store!NoRow, SP!NoRow
<1>4. r \in tombstones' => ~Row(r)'
    BY <1>2 DEF SP!Inv, SP!NeverReused, Row, Store!Row, SP!Row
<1>5. ASSUME Row(r), Row(r)'
      PROVE  events[r] \subseteq events'[r] /\ (IsTerminal(r) => runs'[r] = runs[r])
    <2>1. SP!Row(r) /\ SP!Row(r)'
        BY <1>5 DEF Row, Store!Row, SP!Row
    <2>2. IsTerminal(r) <=> SP!IsTerminal(r)
        BY SameRow DEF IsTerminal
    <2> QED
        BY <1>1, <2>1, <2>2, BatchesAssumption, SP!GrowStep
<1> QED
    BY <1>3, <1>4, <1>5 DEF Known, IsTerminal, Store!IsTerminal

(* It leaves a stream as right as it was.                                   *)
LEMMA FollowerStays ==
    ASSUME SP!Inv, [Store!Next]_store, NEW r \in Runs, NEW v, Follower(r, v)
    PROVE  Follower(r, v)'
<1>1. v.pc # "idle" \/ v.seen # <<>> => Known(r)
    BY DEF Follower
<1>2. CASE Known(r)
    <2>1. Known(r)'
        BY <1>2, KnownStays
    <2>2. LogFrom(r, v.seen, 0)' /\ LogFrom(r, v.batch, Len(v.seen))'
        BY <1>2, KnownStays DEF Follower, LogFrom
    <2>3. ToldOver(r, v) => ToldOver(r, v)'
        BY <1>2, KnownStays DEF ToldOver
    <2>4. Ended(r, v) => Ended(r, v)'
        BY <1>2, KnownStays DEF Ended
    <2> QED
        BY <2>1, <2>2, <2>3, <2>4 DEF Follower
<1>3. CASE v.pc = "idle" /\ v.seen = <<>>
    <2>1. v.batch = <<>> /\ ~ v.over
        BY <1>3 DEF Follower, ToldOver
    <2>2. LogFrom(r, v.seen, 0)' /\ LogFrom(r, v.batch, Len(v.seen))'
        BY <1>3, <2>1 DEF LogFrom
    <2> QED
        BY <1>3, <2>1, <2>2 DEF Follower
<1> QED
    BY <1>1, <1>2, <1>3

-----------------------------------------------------------------------------
(* The steps of a stream                                                    *)

LEMMA ViewFields ==
    ASSUME NEW v \in View
    PROVE  /\ v.pc \in Phases /\ v.cursor \in Nat /\ v.over \in BOOLEAN /\ v.last \in Nat
           /\ v.seen \in Log /\ v.seen \in Seq(Store!Event) /\ Len(v.seen) \in Nat
           /\ v.batch \in Log /\ v.batch \in Seq(Store!Event) /\ Len(v.batch) \in Nat
<1>1. v.seen \in Log /\ v.batch \in Log
    BY DEF View
<1>2. Len(v.seen) \in Nat /\ Len(v.batch) \in Nat
    BY <1>1, LenProperties DEF Log
<1> QED
    BY <1>1, <1>2 DEF View, Log

LEMMA CursorFacts ==
    ASSUME NEW r, NEW v, Follower(r, v)
    PROVE  LastSeen(v) = Len(v.seen)
<1>1. v.seen \in Seq(Store!Event) /\ Len(v.seen) \in Nat
    BY ViewFields DEF Follower
<1>2. CASE v.seen = <<>>
    BY <1>2, EmptySeq DEF LastSeen
<1>3. CASE v.seen # <<>>
    <2>1. Len(v.seen) \in 1..Len(v.seen)
        BY <1>1, <1>3, EmptySeq
    <2> QED
        BY <1>3, <2>1 DEF LastSeen, Last, Follower, LogFrom
<1> QED
    BY <1>2, <1>3

LEMMA ConnectStep ==
    ASSUME SP!Inv, NEW r \in Runs, SP!Begun(r), NEW v, Follower(r, v), v.pc = "idle",
           NEW w, LET u == [v EXCEPT !.cursor = LastSeen(v)]
                  IN  \/ /\ Row(r)
                         /\ w = [u EXCEPT !.pc = IF IsTerminal(r) /\ u.cursor >= runs[r].last
                                                 THEN "ended" ELSE "read"]
                      \/ r \in tombstones /\ w = [u EXCEPT !.pc = "lost"]
    PROVE  Follower(r, w)
<1>1. v \in View /\ LastSeen(v) = Len(v.seen) /\ Len(v.seen) \in Nat /\ v.seen \in Seq(Store!Event)
    BY CursorFacts, ViewFields DEF Follower
<1>2. v.batch = <<>> /\ ~v.over
    BY DEF Follower, ToldOver
<1>3. /\ w \in View /\ w.seen = v.seen /\ w.batch = v.batch /\ w.over = v.over
      /\ w.cursor = Len(v.seen) /\ w.pc \in {"read", "lost", "ended"}
      /\ w.pc = "ended" => Row(r) /\ IsTerminal(r) /\ Len(v.seen) >= runs[r].last
      /\ Known(r)
    BY <1>1 DEF View, Phases, Known
<1>4. ASSUME w.pc = "ended" PROVE Ended(r, v)
    <2>1. runs[r].last \in Nat /\ runs[r].last >= 1 /\ Len(v.seen) >= runs[r].last
        BY <1>3, <1>4, LogFacts, SameRow DEF SP!Begun, Row
    <2>2. Len(v.seen) \in 1..Len(v.seen) /\ v.seen # <<>>
        BY <1>1, <2>1, EmptySeq
    <2>3. v.seen[Len(v.seen)].seq = Len(v.seen) /\ v.seen[Len(v.seen)] \in events[r]
        BY <1>1, <1>3, <1>4, <2>2 DEF Follower, LogFrom
    <2>4. Len(v.seen) = runs[r].last
        <3>1. v.seen[Len(v.seen)].seq \in 1..runs[r].last
            BY <2>3, LogFacts
        <3> QED
            BY <1>1, <2>1, <2>3, <3>1
    <2>5. Ends(v.seen[Len(v.seen)].type)
        BY <1>3, <1>4, <2>3, <2>4, LogFacts
    <2> QED
        BY <1>3, <1>4, <2>2, <2>4, <2>5 DEF Ended
<1> QED
    BY <1>2, <1>3, <1>4 DEF Follower, Ended

LEMMA ReadEventsStep ==
    ASSUME SP!Inv, NEW r \in Runs, NEW v, Follower(r, v), v.pc = "read",
           NEW w, w = [v EXCEPT !.pc = "state", !.batch = EventsAfter(r, v.cursor)]
    PROVE  Follower(r, w)
<1>1. v \in View /\ v.cursor = Len(v.seen) /\ v.cursor \in Nat
    BY ViewFields DEF Follower
<1> DEFINE batch == EventsAfter(r, v.cursor)
<1>2. batch \in Seq(Store!Event) /\ Len(batch) <= ReadLimit /\ LogFrom(r, batch, v.cursor)
    BY <1>1, AfterFacts
<1> HIDE DEF batch
<1>3. batch \in Log
    BY <1>2 DEF Log
<1>4. /\ w \in View /\ w.seen = v.seen /\ w.batch = batch /\ w.over = v.over /\ w.cursor = v.cursor
      /\ w.pc = "state"
    BY <1>1, <1>2, <1>3 DEF View, Phases, batch
<1>5. ~v.over
    BY DEF Follower, ToldOver
<1> QED
    BY <1>1, <1>2, <1>4, <1>5 DEF Follower

LEMMA ReadStateStep ==
    ASSUME SP!Inv, NEW r \in Runs, SP!Begun(r), NEW v, Follower(r, v), v.pc = "state",
           NEW w, w = IF Row(r)
                      THEN [v EXCEPT !.pc = "send", !.over = IsTerminal(r), !.last = runs[r].last]
                      ELSE [v EXCEPT !.pc = "lost", !.batch = <<>>]
    PROVE  Follower(r, w)
<1>1. v \in View /\ Len(v.seen) \in Nat /\ Len(v.batch) \in Nat /\ ~v.over
    BY ViewFields DEF Follower, ToldOver
<1>2. CASE ~Row(r)
    <2>1. /\ w \in View /\ w.seen = v.seen /\ w.batch = <<>> /\ w.over = v.over /\ w.pc = "lost"
        <3>1. <<>> \in Log
            BY DEF Log
        <3> QED
            BY <1>1, <1>2, <3>1 DEF View, Phases
    <2>2. ReadLimit \in Nat
        BY BoundAssumption
    <2>3. LogFrom(r, <<>>, Len(v.seen))
        BY DEF LogFrom
    <2> QED
        BY <1>1, <2>1, <2>2, <2>3, EmptySeq DEF Follower
<1>3. CASE Row(r)
    <2> DEFINE last == runs[r].last
    <2>1. last \in Nat /\ last >= 1
        BY <1>3, LogFacts, SameRow DEF SP!Begun, Row
    <2>2. /\ w \in View /\ w.seen = v.seen /\ w.batch = v.batch /\ w.over = IsTerminal(r) /\ w.last = last
          /\ w.cursor = v.cursor /\ w.pc = "send"
        <3>1. IsTerminal(r) \in BOOLEAN
            BY DEF IsTerminal, Store!IsTerminal
        <3> QED
            BY <1>1, <1>3, <2>1, <3>1 DEF View, Phases
    <2>3. ASSUME IsTerminal(r) PROVE ToldOver(r, w)
        <3>1. /\ \A i \in 1..Len(v.seen) : v.seen[i].seq = last => Ends(v.seen[i].type)
              /\ \A i \in 1..Len(v.batch) : v.batch[i].seq = last => Ends(v.batch[i].type)
            BY <1>3, <2>3, LogFacts DEF Follower, LogFrom
        <3>2. Len(v.seen) <= last
            <4>1. CASE Len(v.seen) = 0
                BY <2>1, <4>1
            <4>2. CASE Len(v.seen) # 0
                <5>1. Len(v.seen) \in 1..Len(v.seen)
                    BY <1>1, <4>2
                <5>2. v.seen[Len(v.seen)].seq = Len(v.seen) /\ v.seen[Len(v.seen)].seq \in 1..last
                    BY <1>1, <1>3, <5>1, LogFacts DEF Follower, LogFrom
                <5> QED
                    BY <2>1, <5>2
            <4> QED
                BY <4>1, <4>2
        <3>3. Len(v.seen) + Len(v.batch) <= last
            <4>1. CASE Len(v.batch) = 0
                BY <1>1, <2>1, <3>2, <4>1
            <4>2. CASE Len(v.batch) # 0
                <5>1. Len(v.batch) \in 1..Len(v.batch)
                    BY <1>1, <4>2
                <5>2. /\ v.batch[Len(v.batch)].seq = Len(v.seen) + Len(v.batch)
                      /\ v.batch[Len(v.batch)].seq \in 1..last
                    BY <1>3, <5>1, LogFacts DEF Follower, LogFrom
                <5>3. \A k \in 1..last : k <= last
                    OBVIOUS
                <5> HIDE DEF last
                <5> QED
                    BY <5>2, <5>3
            <4> QED
                BY <4>1, <4>2
        <3> QED
            BY <1>1, <2>1, <2>2, <2>3, <3>1, <3>3 DEF ToldOver
    <2> QED
        BY <1>1, <1>3, <2>2, <2>3 DEF Follower, Known
<1> QED
    BY <1>2, <1>3

LEMMA SendStep ==
    ASSUME NEW r, NEW v, Follower(r, v), v.pc = "send", v.batch # <<>>,
           NEW w, w = [v EXCEPT !.cursor = Head(v.batch).seq, !.batch = Tail(@),
                                !.seen = Append(@, Head(v.batch))]
    PROVE  Follower(r, w)
<1> DEFINE n == Len(v.seen)
           m == Len(v.batch)
           head == Head(v.batch)
           tail == Tail(v.batch)
           seen == Append(v.seen, head)
<1>1. v \in View /\ n \in Nat /\ m \in Nat /\ v.seen \in Seq(Store!Event) /\ v.batch \in Seq(Store!Event)
    BY ViewFields DEF Follower
<1>2. /\ m >= 1 /\ head = v.batch[1] /\ head \in Store!Event
      /\ tail \in Seq(Store!Event) /\ Len(tail) = m - 1 /\ \A i \in 1..(m - 1) : tail[i] = v.batch[i + 1]
    <2>1. m # 0
        BY <1>1, EmptySeq
    <2>2. m >= 1 /\ 1 \in 1..m
        BY <1>1, <2>1
    <2>3. head = v.batch[1] /\ tail \in Seq(Store!Event) /\ Len(tail) = m - 1
          /\ \A i \in 1..Len(tail) : tail[i] = v.batch[i + 1]
        BY <1>1, HeadTailProperties
    <2> QED
        BY <1>1, <2>2, <2>3, ElementOfSeq
<1>3. /\ seen \in Seq(Store!Event) /\ Len(seen) = n + 1 /\ seen[n + 1] = head
      /\ \A i \in 1..n : seen[i] = v.seen[i]
    BY <1>1, <1>2, AppendProperties
<1>4. head.seq = n + 1 /\ (Row(r) => head \in events[r])
    BY <1>1, <1>2 DEF Follower, LogFrom
<1> HIDE DEF head, tail, seen
<1>5. /\ w \in View /\ w.seen = seen /\ w.batch = tail /\ w.cursor = n + 1 /\ w.over = v.over
      /\ w.last = v.last /\ w.pc = "send"
    <2>1. tail \in Log /\ seen \in Log /\ head.seq \in Nat /\ head.seq = n + 1
        BY <1>1, <1>2, <1>3, <1>4 DEF Log
    <2>2. w = [v EXCEPT !.cursor = head.seq, !.batch = tail, !.seen = seen]
        BY DEF head, tail, seen
    <2> HIDE DEF n
    <2> QED
        BY <1>1, <2>1, <2>2 DEF View
<1>6. LogFrom(r, seen, 0)
    <2>1. ASSUME NEW i \in 1..(n + 1)
          PROVE  seen[i].seq = i /\ (Row(r) => seen[i] \in events[r])
        <3>1. CASE i = n + 1
            BY <1>3, <1>4, <3>1
        <3>2. CASE i # n + 1
            BY <1>1, <1>3, <3>2 DEF Follower, LogFrom
        <3> QED
            BY <3>1, <3>2
    <2> QED
        BY <1>1, <1>3, <2>1 DEF LogFrom
<1>7. \A i \in 1..(m - 1) : i + 1 \in 1..m
    BY <1>1
<1>8. LogFrom(r, tail, Len(seen))
    <2>1. ASSUME NEW i \in 1..(m - 1)
          PROVE  tail[i].seq = (n + 1) + i /\ (Row(r) => tail[i] \in events[r])
        <3>1. tail[i] = v.batch[i + 1] /\ v.batch[i + 1].seq = n + (i + 1)
              /\ (Row(r) => v.batch[i + 1] \in events[r])
            BY <1>2, <1>7 DEF Follower, LogFrom
        <3>2. n + (i + 1) = (n + 1) + i
            BY <1>1
        <3> QED
            BY <3>1, <3>2
    <2> QED
        BY <1>2, <1>3, <2>1 DEF LogFrom
<1>9. ASSUME v.over PROVE ToldOver(r, w)
    <2>1. ToldOver(r, v)
        BY <1>9 DEF Follower
    <2>2. \A i \in 1..(n + 1) : seen[i].seq = v.last => Ends(seen[i].type)
        <3>1. ASSUME NEW i \in 1..(n + 1), seen[i].seq = v.last PROVE Ends(seen[i].type)
            <4>1. CASE i = n + 1
                <5>1. 1 \in 1..m
                    BY <1>1, <1>2
                <5> QED
                    BY <1>2, <1>3, <2>1, <3>1, <4>1, <5>1 DEF ToldOver
            <4>2. CASE i # n + 1
                BY <1>1, <1>3, <2>1, <3>1, <4>2 DEF ToldOver
            <4> QED
                BY <4>1, <4>2
        <3> QED
            BY <3>1
    <2>3. \A i \in 1..(m - 1) : tail[i].seq = v.last => Ends(tail[i].type)
        BY <1>2, <1>7, <2>1 DEF ToldOver
    <2>4. Len(seen) + Len(tail) <= v.last
        <3>1. n + m <= v.last
            BY <2>1 DEF ToldOver
        <3>2. \A a, b \in Nat : (a + 1) + (b - 1) = a + b
            OBVIOUS
        <3> QED
            BY <1>1, <1>2, <1>3, <3>1, <3>2
    <2> QED
        BY <1>2, <1>3, <1>5, <2>1, <2>2, <2>3, <2>4 DEF ToldOver
<1>10. Len(tail) <= ReadLimit /\ Known(r)
    BY <1>1, <1>2, BoundAssumption DEF Follower
<1> QED
    BY <1>3, <1>5, <1>6, <1>8, <1>9, <1>10 DEF Follower

LEMMA SentStep ==
    ASSUME NEW r, NEW v, Follower(r, v), v.pc = "send", v.batch = <<>>,
           NEW w, w = [v EXCEPT !.pc = IF Delivered(v) THEN "ended" ELSE "read",
                                !.over = FALSE, !.last = 0]
    PROVE  Follower(r, w)
<1>1. v \in View /\ Len(v.seen) \in Nat /\ v.seen \in Seq(Store!Event) /\ v.last \in Nat
    BY ViewFields DEF Follower
<1>2. /\ w \in View /\ w.seen = v.seen /\ w.batch = v.batch /\ w.cursor = v.cursor /\ ~w.over
      /\ w.pc = "ended" => Delivered(v)
      /\ w.pc \in {"ended", "read"}
    BY <1>1 DEF View, Phases
<1>3. ASSUME Delivered(v) PROVE Ended(r, v)
    <2>1. ToldOver(r, v) /\ v.cursor = Len(v.seen)
        BY <1>3 DEF Follower, Delivered
    <2>2. Len(v.seen) = v.last /\ v.last >= 1
        BY <1>1, <1>3, <2>1, EmptySeq DEF ToldOver, Delivered
    <2>3. Len(v.seen) \in 1..Len(v.seen) /\ v.seen # <<>>
        BY <1>1, <2>2, EmptySeq
    <2>4. v.seen[Len(v.seen)].seq = v.last
        BY <1>1, <2>2, <2>3 DEF Follower, LogFrom
    <2> QED
        BY <2>1, <2>2, <2>3, <2>4 DEF Ended, ToldOver
<1> QED
    BY <1>2, <1>3 DEF Follower, Ended

(* A stream that breaks keeps what the client has.                          *)
LEMMA BrokenStep ==
    ASSUME NEW r, NEW v, Follower(r, v),
           NEW w, w = [NoView EXCEPT !.seen = v.seen]
    PROVE  Follower(r, w)
<1>1. v \in View /\ v.seen \in Seq(Store!Event) /\ Len(v.seen) \in Nat
    BY ViewFields DEF Follower
<1>2. /\ w \in View /\ w.seen = v.seen /\ w.batch = <<>> /\ ~w.over /\ w.pc = "idle"
    <2>1. <<>> \in Log /\ v.seen \in Log
        BY <1>1 DEF Log
    <2> QED
        BY <2>1 DEF View, Phases, NoView
<1>3. LogFrom(r, <<>>, Len(v.seen)) /\ Len(<<>>) <= ReadLimit
    BY BoundAssumption DEF LogFrom
<1> QED
    BY <1>2, <1>3 DEF Follower

-----------------------------------------------------------------------------
(* Every step                                                               *)

LEMMA ViewsInit == Init => Views
<1> SUFFICES ASSUME Init PROVE Views
    OBVIOUS
<1>1. ASSUME NEW r \in Runs PROVE ~Row(r) /\ SP!Begun(r)
    BY <1>1 DEF Init, Store!Init, Store!NoRow, Row, Store!Row, SP!Begun, SP!Row
<1>2. NoView \in View
    <2>1. <<>> \in Log
        BY DEF Log
    <2> QED
        BY <2>1 DEF NoView, View, Phases
<1>3. ASSUME NEW r PROVE Follower(r, NoView)
    <2>1. NoView.seen = <<>> /\ NoView.batch = <<>> /\ ~NoView.over /\ NoView.pc = "idle"
        BY DEF NoView
    <2>2. Len(<<>>) <= ReadLimit /\ \A n : LogFrom(r, <<>>, n)
        BY BoundAssumption DEF LogFrom
    <2> QED
        BY <1>2, <2>1, <2>2 DEF Follower
<1>4. views = [c \in Clients |-> NoView]
    BY DEF Init
<1>5. \A c \in Clients : views[c] = NoView
    BY <1>4
<1> QED
    BY <1>1, <1>3, <1>4, <1>5 DEF Views

(* A step of a stream.                                                      *)
LEMMA StreamStep ==
    ASSUME SP!Inv, Views, NEW c \in Clients, Stream(c) \/ Disconnect(c)
    PROVE  \E w : Follower(Follows[c], w) /\ Follow(c, w)
<1>1. PICK v : v = views[c]
    OBVIOUS
<1> DEFINE r == Follows[c]
<1>2. r \in Runs /\ SP!Begun(r) /\ Follower(r, v)
    BY <1>1, BoundAssumption DEF Views
<1>3. CASE Connect(c)
    <2> DEFINE u == [v EXCEPT !.cursor = LastSeen(v)]
    <2>1. PICK w : /\ \/ /\ Row(r)
                         /\ w = [u EXCEPT !.pc = IF IsTerminal(r) /\ u.cursor >= runs[r].last
                                                 THEN "ended" ELSE "read"]
                      \/ r \in tombstones /\ w = [u EXCEPT !.pc = "lost"]
                   /\ Follow(c, w) /\ v.pc = "idle"
        BY <1>1, <1>3 DEF Connect
    <2>2. Follower(r, w)
        BY <1>2, <2>1, ConnectStep
    <2> QED
        BY <2>1, <2>2
<1>4. CASE ReadEvents(c)
    <2>1. PICK w : w = [v EXCEPT !.pc = "state", !.batch = EventsAfter(r, v.cursor)]
                   /\ Follow(c, w) /\ v.pc = "read"
        BY <1>1, <1>4 DEF ReadEvents
    <2> QED
        BY <1>2, <2>1, ReadEventsStep
<1>5. CASE ReadState(c)
    <2>1. PICK w : w = (IF Row(r)
                        THEN [v EXCEPT !.pc = "send", !.over = IsTerminal(r), !.last = runs[r].last]
                        ELSE [v EXCEPT !.pc = "lost", !.batch = <<>>])
                   /\ Follow(c, w) /\ v.pc = "state"
        BY <1>1, <1>5 DEF ReadState
    <2> QED
        BY <1>2, <2>1, ReadStateStep
<1>6. CASE Send(c) /\ v.batch # <<>>
    <2>1. PICK w : w = [v EXCEPT !.cursor = Head(v.batch).seq, !.batch = Tail(@),
                                 !.seen = Append(@, Head(v.batch))]
                   /\ Follow(c, w) /\ v.pc = "send"
        BY <1>1, <1>6 DEF Send
    <2> QED
        BY <1>2, <1>6, <2>1, SendStep
<1>7. CASE Send(c) /\ v.batch = <<>>
    <2>1. PICK w : w = [v EXCEPT !.pc = IF Delivered(v) THEN "ended" ELSE "read",
                                 !.over = FALSE, !.last = 0]
                   /\ Follow(c, w) /\ v.pc = "send"
        BY <1>1, <1>7 DEF Send
    <2> QED
        BY <1>2, <1>7, <2>1, SentStep
<1>8. CASE Disconnect(c)
    <2>1. PICK w : w = [NoView EXCEPT !.seen = v.seen] /\ Follow(c, w)
        BY <1>1, <1>8 DEF Disconnect
    <2> QED
        BY <1>2, <2>1, BrokenStep
<1> QED
    BY <1>3, <1>4, <1>5, <1>6, <1>7, <1>8 DEF Stream

LEMMA ViewsStep ==
    ASSUME Inv, Views, [Next]_vars
    PROVE  Views'
<1>1. SP!Inv /\ [Store!Next]_store
    BY EveryStepIsStore DEF Inv
<1>2. ASSUME NEW r \in Runs PROVE SP!Begun(r)'
    <2>1. [SP!Next]_SP!store
        BY <1>1, SameNext DEF store, SP!store
    <2> QED
        BY <1>1, <2>1, BatchesAssumption, SP!BegunStep DEF Views
<1>3. ASSUME NEW c \in Clients, NEW w, Follower(Follows[c], w)
      PROVE  Follower(Follows[c], w)'
    BY <1>1, <1>3, FollowerStays, BoundAssumption
<1>4. ASSUME NEW c \in Clients, views'[c] = views[c]
      PROVE  Follower(Follows[c], views[c])'
    <2>1. PICK v : v = views[c]
        OBVIOUS
    <2>2. Follower(Follows[c], v)'
        BY <1>3, <2>1 DEF Views
    <2> QED
        BY <1>4, <2>1, <2>2 DEF Follower, LogFrom, ToldOver, Ended
<1>5. CASE UNCHANGED views
    BY <1>2, <1>4, <1>5 DEF Views
<1>6. ASSUME NEW c \in Clients, Stream(c) \/ Disconnect(c) PROVE Views'
    <2>1. PICK w : Follower(Follows[c], w) /\ Follow(c, w)
        BY <1>1, <1>6, StreamStep
    <2>2. /\ views' = [d \in Clients |-> views'[d]] /\ views'[c] = w
          /\ \A d \in Clients : d # c => views'[d] = views[d]
        BY <2>1 DEF Follow, Views
    <2>3. Follower(Follows[c], views[c])'
        <3>1. Follower(Follows[c], w)'
            BY <1>3, <2>1
        <3> QED
            BY <2>2, <3>1 DEF Follower, LogFrom, ToldOver, Ended
    <2> QED
        BY <1>2, <1>4, <2>2, <2>3 DEF Views
<1>7. CASE Exit
    <2>1. /\ views' = [c \in Clients |-> views'[c]]
          /\ \A c \in Clients : views'[c] = IF views[c].pc \in {"ended", "lost"} THEN views[c]
                                            ELSE [NoView EXCEPT !.seen = views[c].seen]
        BY <1>7 DEF Exit
    <2>2. ASSUME NEW c \in Clients PROVE Follower(Follows[c], views[c])'
        <3>1. PICK v : v = views[c]
            OBVIOUS
        <3>2. PICK w : w = [NoView EXCEPT !.seen = v.seen]
            OBVIOUS
        <3>3. Follower(Follows[c], v) /\ Follower(Follows[c], w)
            BY <3>1, <3>2, BrokenStep DEF Views
        <3>4. Follower(Follows[c], w)'
            BY <1>3, <3>3
        <3>5. CASE views'[c] = views[c]
            BY <1>4, <3>5
        <3>6. CASE views'[c] = w
            BY <3>4, <3>6 DEF Follower, LogFrom, ToldOver, Ended
        <3> QED
            BY <2>1, <3>1, <3>2, <3>5, <3>6
    <2> QED
        BY <1>2, <2>1, <2>2 DEF Views
<1>8. UNCHANGED views \/ Exit \/ \E c \in Clients : Stream(c) \/ Disconnect(c)
    <2>1. ASSUME NEW r \in Runs, Produce(r) PROVE UNCHANGED views
        <3>1. CASE Begin(r) \/ Renew(r)
            BY <3>1 DEF Begin, GetToken, Gate, MarkRunning, Reread, Renew, At
        <3>2. CASE Engine(r)
            BY <3>2 DEF Engine, Open, EngineRaises, TakeChunk, EndStream, At
        <3>3. CASE Write(r) \/ End(r)
            BY <3>3 DEF Write, StartWrite, WriteLands, ObserveWrite, End, Drain, ReadStatus, Finish, Catch,
                        SettleCaught, At
        <3>4. CASE Unwind(r) \/ Orphan(r)
            BY <3>4 DEF Unwind, Orphan, At
        <3> QED
            BY <2>1, <3>1, <3>2, <3>3, <3>4 DEF Produce
    <2>2. ASSUME NEW r \in Runs, Create(r) \/ Start(r) \/ StopRun(r) \/ EditAnswer(r) \/ LeaseRunsOut(r)
          PROVE  UNCHANGED views
        BY <2>2 DEF Create, Start, StopRun, ForceCancel, Signal, LifecycleCancel, RequestCancel, EditAnswer,
                    LeaseRunsOut
    <2>3. CASE (\E T \in SUBSET Threads : DeleteChats(T)) \/ Sweep \/ Stop \/ Boot \/ UNCHANGED vars
        BY <2>3 DEF DeleteChats, Sweep, Stop, Boot, vars
    <2> QED
        BY <2>1, <2>2, <2>3 DEF Next
<1> QED
    BY <1>5, <1>6, <1>7, <1>8

LEMMA ViewsHold == Spec => [](Inv /\ Views)
<1>1. Inv /\ Views /\ [Next]_vars => (Inv /\ Views)'
    BY InvNext, ViewsStep
<1> QED
    BY <1>1, InvInit, ViewsInit, PTL DEF Spec

(* FollowerSeesLog: a tab that follows a run has its log from the first     *)
(* event on, in order, with nothing missing or repeated over any number of  *)
(* broken connections and restarts, and a stream that ends as complete has  *)
(* delivered all of it.                                                     *)
THEOREM FollowerSeesLogHolds == Spec => []FollowerSeesLog
<1>1. ASSUME Views, NEW c \in Clients
      PROVE  SeenInOrder(c) /\ (views[c].pc = "ended" => SawTheEnd(c))
    BY <1>1 DEF Views, Follower, LogFrom, Ended, Ends, SeenInOrder, SawTheEnd, Last
<1>2. Views => FollowerSeesLog
    BY <1>1 DEF FollowerSeesLog
<1> QED
    BY <1>2, ViewsHold, PTL

(* Consistent: the tables, the producers and the streams have their types,  *)
(* and a producer at work for a run that was cancelled, settled or deleted  *)
(* has been told to stop once the request that did it returned.             *)
THEOREM ConsistentHolds == Spec => []Consistent
<1>1. ASSUME Inv, Views PROVE TypeOK
    <2>1. Store!TypeOK
        BY <1>1, SameType DEF Inv, SP!Inv
    <2>2. job \in [Runs -> Job] /\ output \in [Runs -> 0..MaxChunks]
        BY <1>1 DEF Inv, Process, RunInv, RunTypes
    <2>3. ASSUME NEW c \in Clients
          PROVE  /\ views[c].pc \in {"idle", "read", "state", "send", "ended", "lost"}
                 /\ Len(views[c].batch) <= ReadLimit
        <3>1. views[c] \in View /\ Len(views[c].batch) <= ReadLimit
            BY <1>1 DEF Views, Follower
        <3> QED
            BY <3>1, ViewFields DEF Phases
    <2> QED
        BY <1>1, <2>1, <2>2, <2>3 DEF TypeOK, Inv, Process
<1>2. Inv => StoppedIsTold
    BY DEF Inv, RunInv, ToldOf, StoppedIsTold
<1>3. Inv /\ Views => Consistent
    BY <1>1, <1>2 DEF Consistent
<1> QED
    BY <1>3, ViewsHold, PTL

-----------------------------------------------------------------------------
(* The output of a run with one producer.                                   *)

(* A second producer may find the run running and write its output after    *)
(* the first one's, when a repeated create request was asked for before the *)
(* first began and the first left the run to the sweeper, for a call that   *)
(* failed.  One of the two does not happen.                                 *)
OneWriter == ~Retried \/ MaxFaults = 0

(* The chunks of a log, in the order of the log.                            *)
Ordered(C, k) ==
    /\ {e.n : e \in C} = 1..k
    /\ \A d, e \in C : d.n <= e.n <=> d.seq <= e.seq

(* What the producer of r has sent to the log.                              *)
Sends(j, out) == IF j.opened THEN Sent(j, out) ELSE 0

Output(r) ==
    /\ \E k \in Nat : Ordered(ChunkEvents(r), k)
    /\ ~Retried /\ starting = r => job[r].pc = "none"
    /\ IsActive(r) =>
          /\ Ordered(ChunkEvents(r), Chunked(r))
          /\ job[r].pc # "none" => Chunked(r) = Sends(job[r], output[r])
          /\ \A o \in orphans[r] : o.call = "finish" => Numbered(o.numbers, Chunked(r))
          /\ starting = r /\ job[r].pc = "none" /\ ~stopping => Chunked(r) = 0
          /\ MaxFaults = 0 /\ up /\ ~stopping /\ Chunked(r) # 0 => job[r].opened /\ job[r].pc # "unwind"

(* The n-th chunk is the n-th.                                              *)
LEMMA OrderedCount ==
    ASSUME NEW C, NEW k \in Nat, Ordered(C, k), \A d, e \in C : d.seq = e.seq => d = e,
           \A e \in C : e.seq \in Int
    PROVE  /\ Cardinality(C) = k
           /\ \A e \in C : e.n = Cardinality({d \in C : d.seq <= e.seq})
<1>1. /\ \A e \in C : e.n \in 1..k
      /\ \A m \in 1..k : \E e \in C : e.n = m
      /\ \A d, e \in C : d.seq <= e.seq <=> d.n <= e.n
    BY DEF Ordered
<1>2. \A d, e \in C : d.n = e.n => d = e
    <2>1. SUFFICES ASSUME NEW d \in C, NEW e \in C, d.n = e.n PROVE d.seq = e.seq
        OBVIOUS
    <2>2. d.seq <= e.seq /\ e.seq <= d.seq
        BY <1>1, <2>1
    <2> QED
        BY <2>2
<1>3. ASSUME NEW m \in 0..k
      PROVE  Cardinality({d \in C : d.n <= m}) = m
    <2> DEFINE T == {d \in C : d.n <= m}
               number == [d \in T |-> d.n]
    <2>1. \A d \in T : d.n \in 1..m /\ d.n \in (0 + 1)..(0 + m)
        BY <1>1
    <2>2. \A i \in (0 + 1)..(0 + m) : \E d \in T : d.n = i
        BY <1>1
    <2>3. \A d, e \in T : d.n = e.n => d = e
        BY <1>2
    <2> HIDE DEF T
    <2>4. number \in Bijection(T, (0 + 1)..(0 + m))
        BY <2>1, <2>2, <2>3 DEF Bijection, Injection, Surjection, IsInjective
    <2> HIDE DEF number
    <2>5. m \in Nat /\ 0 \in Nat
        OBVIOUS
    <2>6. Cardinality(T) = m
        BY <2>4, <2>5, Counted
    <2> QED
        BY <2>6 DEF T
<1>4. C = {d \in C : d.n <= k}
    BY <1>1
<1>5. ASSUME NEW e \in C PROVE e.n = Cardinality({d \in C : d.seq <= e.seq})
    <2>1. {d \in C : d.seq <= e.seq} = {d \in C : d.n <= e.n}
        BY <1>1
    <2>2. e.n \in 0..k
        BY <1>1
    <2> QED
        BY <1>3, <2>1, <2>2
<1>6. k \in 0..k
    OBVIOUS
<1> QED
    BY <1>3, <1>4, <1>5, <1>6

(* Chunks that follow on, with later numbers in the log.                    *)
Extended(C, k, last, D, m) ==
    /\ \A e \in C : e.seq \in 1..last /\ e \in D
    /\ \A i \in 1..m : \E e \in D : e.n = k + i
    /\ \A e \in D : e \in C \/ \E i \in 1..m : e.seq = last + i /\ e.n = k + i
LEMMA OrderedAppend ==
    ASSUME NEW C, NEW k \in Nat, Ordered(C, k), NEW last \in Nat, NEW m \in Nat,
           NEW D, Extended(C, k, last, D, m)
    PROVE  Ordered(D, k + m)
<1> USE DEF Extended
<1>1. /\ \A e \in C : e.n \in 1..k
      /\ \A i \in 1..k : \E e \in C : e.n = i
      /\ \A d, e \in C : d.n <= e.n <=> d.seq <= e.seq
    BY DEF Ordered
<1>2. {e.n : e \in D} = 1..(k + m)
    <2>1. ASSUME NEW e \in D PROVE e.n \in 1..(k + m)
        BY <1>1
    <2>2. ASSUME NEW i \in 1..(k + m) PROVE \E e \in D : e.n = i
        <3>1. CASE i <= k
            BY <1>1, <3>1
        <3>2. CASE ~(i <= k)
            <4>1. i - k \in 1..m /\ k + (i - k) = i
                BY <3>2
            <4> QED
                BY <4>1
        <3> QED
            BY <3>1, <3>2
    <2> QED
        BY <2>1, <2>2
<1>3. ASSUME NEW d \in D, NEW e \in D PROVE d.n <= e.n <=> d.seq <= e.seq
    <2>1. CASE d \in C /\ e \in C
        BY <1>1, <2>1
    <2>2. CASE d \in C /\ \E i \in 1..m : e.seq = last + i /\ e.n = k + i
        <3>1. PICK i \in 1..m : e.seq = last + i /\ e.n = k + i
            BY <2>2
        <3>2. PICK a \in 1..k, b \in 1..last : a = d.n /\ b = d.seq
            BY <1>1, <2>2
        <3>3. a <= k + i /\ b <= last + i
            OBVIOUS
        <3> QED
            BY <3>1, <3>2, <3>3
    <2>3. CASE e \in C /\ \E i \in 1..m : d.seq = last + i /\ d.n = k + i
        <3>1. PICK i \in 1..m : d.seq = last + i /\ d.n = k + i
            BY <2>3
        <3>2. PICK a \in 1..k, b \in 1..last : a = e.n /\ b = e.seq
            BY <1>1, <2>3
        <3>3. ~(k + i <= a) /\ ~(last + i <= b)
            OBVIOUS
        <3> QED
            BY <3>1, <3>2, <3>3
    <2>4. CASE /\ \E i \in 1..m : d.seq = last + i /\ d.n = k + i
               /\ \E i \in 1..m : e.seq = last + i /\ e.n = k + i
        <3>1. PICK i \in 1..m, j \in 1..m : d.seq = last + i /\ d.n = k + i /\ e.seq = last + j /\ e.n = k + j
            BY <2>4
        <3>2. k + i <= k + j <=> last + i <= last + j
            OBVIOUS
        <3> QED
            BY <3>1, <3>2
    <2> QED
        BY <2>1, <2>2, <2>3, <2>4
<1> QED
    BY <1>2, <1>3 DEF Ordered

LEMMA NothingOrdered == Ordered({}, 0)
    BY DEF Ordered

LEMMA ChunkFacts ==
    ASSUME SP!Inv, NEW r \in Runs
    PROVE  /\ \A e \in ChunkEvents(r) : e \in events[r] /\ e.seq \in 1..runs[r].last /\ e.seq \in Int
           /\ \A d, e \in ChunkEvents(r) : d.seq = e.seq => d = e
           /\ runs[r].last \in Nat
BY LogFacts DEF ChunkEvents

(* A batch of chunks that follow on is appended, with or without an event   *)
(* that is none after it.                                                   *)
LEMMA ChunksAppended ==
    ASSUME SP!Inv, NEW r \in Runs, NEW k \in Nat, Ordered(ChunkEvents(r), k),
           NEW numbers, Numbered(numbers, k), NEW m \in Nat, Len(numbers) = m,
           NEW batch, NEW n \in Nat, Len(batch) = n, m <= n,
           \A i \in 1..m : batch[i].type = "chunk" /\ batch[i].n = numbers[i],
           \A i \in 1..n : i > m => batch[i].type # "chunk",
           events'[r] = Store!Appended(r, batch)
    PROVE  Ordered(ChunkEvents(r)', k + m)
<1> DEFINE C    == ChunkEvents(r)
           last == runs[r].last
           Entry(i) == [seq |-> last + i, type |-> batch[i].type, n |-> batch[i].n]
<1>1. PICK D : D = ChunkEvents(r)'
    OBVIOUS
<1>2. events'[r] = events[r] \cup {Entry(i) : i \in 1..n}
    BY DEF Store!Appended
<1>3. \A i \in 1..m : i \in 1..n /\ batch[i].type = "chunk" /\ batch[i].n = k + i
    BY DEF Numbered
<1>4. \A e \in C : e \in D
    BY <1>1, <1>2 DEF ChunkEvents
<1>5. ASSUME NEW i \in 1..m PROVE \E e \in D : e.n = k + i
    <2>1. Entry(i) \in events'[r] /\ Entry(i).type = "chunk" /\ Entry(i).n = k + i
        BY <1>2, <1>3
    <2> QED
        BY <1>1, <2>1 DEF ChunkEvents
<1>6. ASSUME NEW e \in D PROVE e \in C \/ \E i \in 1..m : e.seq = last + i /\ e.n = k + i
    <2>1. e \in events'[r] /\ e.type = "chunk"
        BY <1>1 DEF ChunkEvents
    <2>2. CASE e \in events[r]
        BY <2>1, <2>2 DEF ChunkEvents
    <2>3. CASE \E i \in 1..n : e = Entry(i)
        <3>1. PICK i \in 1..n : e = Entry(i)
            BY <2>3
        <3>2. i \in 1..m
            BY <2>1, <3>1
        <3> QED
            BY <1>3, <3>1, <3>2
    <2> QED
        BY <1>2, <2>1, <2>2, <2>3
<1>7. \A e \in C : e.seq \in 1..last
    BY ChunkFacts
<1>8. last \in Nat
    BY ChunkFacts
<1>9. PICK E : E = C
    OBVIOUS
<1>10. PICK l \in Nat : l = last
    BY <1>8
<1>11. Extended(E, k, l, D, m)
    BY <1>4, <1>5, <1>6, <1>7, <1>9, <1>10 DEF Extended
<1>12. Ordered(D, k + m)
    BY <1>9, <1>11, OrderedAppend
<1> QED
    BY <1>1, <1>12

-----------------------------------------------------------------------------
(* What a transaction that brings no output does to the chunks of a run.    *)

SameChunks(r) == ChunkEvents(r)' = ChunkEvents(r)
NoOutput(r) ==
    /\ SameChunks(r) \/ ChunkEvents(r)' = {}
    /\ IsActive(r)' => IsActive(r) /\ Chunked(r)' = Chunked(r) /\ SameChunks(r)

LEMMA MovesChunked ==
    ASSUME SP!Inv, NEW r \in Runs, RowStays(r) \/ RowAdvances(r) \/ RowEnds(r) \/ RowGoes(r)
    PROVE  IsActive(r)' => IsActive(r) /\ Chunked(r)' = Chunked(r)
BY RowFacts DEF RowStays, RowAdvances, RowEnds, RowGoes, Chunked, Base, IsActive, Store!IsActive,
                Store!ACTIVE_STATUSES, IsTerminal, Store!IsTerminal, Store!TERMINAL_STATUSES

(* An event that is no chunk.                                               *)
LEMMA MarkAppended ==
    ASSUME SP!Inv, NEW r \in Runs, NEW batch, NEW n \in Nat, Len(batch) = n,
           \A i \in 1..n : batch[i].type # "chunk",
           events'[r] = Store!Appended(r, batch)
    PROVE  SameChunks(r)
BY DEF SameChunks, ChunkEvents, Store!Appended

LEMMA AdvanceChunks ==
    ASSUME SP!Inv, NEW r \in Runs, NEW status, status # "chunk", NEW cancel, NEW stale,
           Store!Advance(r, status, cancel, stale)
    PROVE  \A q \in Runs : SameChunks(q)
<1>1. events \in [Runs -> SUBSET Store!Event]
    BY SameType DEF SP!Inv, Store!TypeOK
<1> DEFINE batch == <<Store!Mark(status)>>
<1>2. events' = [events EXCEPT ![r] = Store!Appended(r, batch)]
    BY DEF Store!Advance
<1>3. 1 \in Nat /\ Len(batch) = 1 /\ \A i \in 1..1 : batch[i].type # "chunk"
    BY DEF Store!Mark
<1> HIDE DEF batch
<1>4. SameChunks(r)
    BY <1>1, <1>2, <1>3, MarkAppended
<1> QED
    BY <1>1, <1>2, <1>4 DEF SameChunks, ChunkEvents

LEMMA SettleChunks ==
    ASSUME SP!Inv, NEW S \in SUBSET Runs, NEW outcome, NEW cancel,
           \A r \in S : outcome[r] \in Store!TERMINAL_STATUSES,
           Store!Settle(S, outcome, cancel, <<>>)
    PROVE  \A q \in Runs : SameChunks(q)
<1>1. SUFFICES ASSUME NEW q \in Runs PROVE SameChunks(q)
    OBVIOUS
<1>2. CASE q \in S
    <2> DEFINE batch == Append(<<>>, Store!Mark(outcome[q]))
    <2>1. events'[q] = Store!Appended(q, batch)
        BY <1>2 DEF Store!Settle
    <2>2. 1 \in Nat /\ Len(batch) = 1 /\ \A i \in 1..1 : batch[i].type # "chunk"
        BY <1>2 DEF Store!Mark, Store!TERMINAL_STATUSES
    <2> HIDE DEF batch
    <2> QED
        BY <2>1, <2>2, MarkAppended
<1>3. CASE q \notin S
    BY <1>3 DEF Store!Settle, SameChunks, ChunkEvents
<1> QED
    BY <1>2, <1>3

LEMMA SameStore ==
    ASSUME UNCHANGED store
    PROVE  \A q \in Runs : NoOutput(q)
BY DEF store, NoOutput, SameChunks, ChunkEvents, Chunked, IsActive, Store!IsActive

LEMMA LeaseOutput ==
    ASSUME SP!Inv, NEW r \in Runs, Store!TouchProgress(r) \/ Store!LeaseRunsOut(r)
    PROVE  \A q \in Runs : NoOutput(q)
<1>1. \A q \in Runs : SameChunks(q) /\ RowStays(q)
    BY LeaseMoves DEF Store!TouchProgress, Store!LeaseRunsOut, SameChunks, ChunkEvents
<1> QED
    BY <1>1, MovesChunked DEF NoOutput

LEMMA MarkOutput ==
    ASSUME SP!Inv, NEW r \in Runs, Store!MarkRunning(r)
    PROVE  \A q \in Runs : NoOutput(q)
<1>1. \A q \in Runs : SameChunks(q)
    BY AdvanceChunks DEF Store!MarkRunning
<1> QED
    BY <1>1, MarkMoves, MovesChunked DEF NoOutput, OthersStay

LEMMA CancelOutput ==
    ASSUME SP!Inv, NEW r \in Runs, Store!RequestCancel(r)
    PROVE  \A q \in Runs : NoOutput(q)
<1>1. \A q \in Runs : SameChunks(q)
    <2> DEFINE outcome == [s \in {r} |-> "cancelled"]
               cancel  == [s \in {r} |-> TRUE]
    <2>1. CASE Store!Settle({r}, outcome, cancel, <<>>)
        <3>1. \A s \in {r} : outcome[s] \in Store!TERMINAL_STATUSES
            BY DEF Store!TERMINAL_STATUSES
        <3> HIDE DEF outcome, cancel
        <3> QED
            BY <2>1, <3>1, SettleChunks
    <2>2. CASE Store!Advance(r, "cancelling", TRUE, runs[r].stale)
        BY <2>2, AdvanceChunks
    <2> QED
        BY <2>1, <2>2 DEF Store!RequestCancel
<1> QED
    BY <1>1, CancelMoves, MovesChunked DEF NoOutput, OthersStay

LEMMA ReconcileOutput ==
    ASSUME SP!Inv, NEW S \in SUBSET Runs, Store!ReconcileRuns(S)
    PROVE  \A q \in Runs : NoOutput(q)
<1> DEFINE outcome == [r \in S |-> Store!ReconciledAs(r)]
           cancel  == [r \in S |-> runs[r].cancel]
<1>1. Store!Settle(S, outcome, cancel, <<>>)
    BY DEF Store!ReconcileRuns
<1>2. \A r \in S : outcome[r] \in Store!TERMINAL_STATUSES
    BY DEF Store!ReconciledAs, Store!TERMINAL_STATUSES
<1> HIDE DEF outcome, cancel
<1>3. \A q \in Runs : SameChunks(q)
    BY <1>1, <1>2, SettleChunks
<1> QED
    BY <1>3, ReconcileMoves, MovesChunked DEF NoOutput

LEMMA DropOutput ==
    ASSUME SP!Inv, NEW S \in SUBSET Runs, Store!Drop(S)
    PROVE  \A q \in Runs : NoOutput(q)
<1>1. \A q \in Runs : IF q \in S THEN ChunkEvents(q)' = {} ELSE SameChunks(q)
    BY DEF Store!Drop, ChunkEvents, SameChunks
<1>2. \A q \in Runs : IF q \in S THEN RowGoes(q) ELSE RowStays(q)
    BY DropMoves
<1>3. \A q \in S : ~IsActive(q)'
    BY <1>2 DEF RowGoes, IsActive, Store!IsActive, Store!ACTIVE_STATUSES
<1> QED
    BY <1>1, <1>2, <1>3, MovesChunked DEF NoOutput

LEMMA CreateOutput ==
    ASSUME SP!Inv, NEW r \in Runs, Store!CreateRun(r)
    PROVE  /\ ChunkEvents(r)' = {} /\ Chunked(r)' = 0
           /\ \A q \in Runs : q # r => NoOutput(q)
<1>1. events \in [Runs -> SUBSET Store!Event]
    BY SameType DEF SP!Inv, Store!TypeOK
<1>2. ChunkEvents(r)' = {} /\ \A q \in Runs : q # r => SameChunks(q)
    BY <1>1 DEF Store!CreateRun, ChunkEvents, SameChunks
<1>3. RowAppears(r) /\ OthersStay(r)
    BY CreateMoves
<1>4. Chunked(r)' = 0
    BY <1>3 DEF RowAppears, Chunked, Base
<1> QED
    BY <1>2, <1>3, <1>4, MovesChunked DEF NoOutput, OthersStay

(* What a transaction that brings output does.                              *)
LEMMA AppendOutput ==
    ASSUME SP!Inv, NEW r \in Runs, NEW numbers \in Numbers, Store!AppendEvents(r, Chunks(numbers)),
           Ordered(ChunkEvents(r), Chunked(r)), Chunked(r) \in Nat, Numbered(numbers, Chunked(r))
    PROVE  /\ Chunked(r)' = Chunked(r) + Len(numbers) /\ Ordered(ChunkEvents(r)', Chunked(r)')
           /\ \A q \in Runs : q # r => NoOutput(q)
<1> DEFINE batch == Chunks(numbers)
<1>1. Len(numbers) \in Nat /\ Len(batch) = Len(numbers)
      /\ \A i \in 1..Len(numbers) : batch[i].type = "chunk" /\ batch[i].n = numbers[i]
    BY LenProperties DEF Numbers, Chunks, Store!Chunk
<1>2. events \in [Runs -> SUBSET Store!Event]
    BY SameType DEF SP!Inv, Store!TypeOK
<1> HIDE DEF batch
<1>3. events' = [events EXCEPT ![r] = Store!Appended(r, batch)] /\ Store!AppendEvents(r, batch)
    BY DEF Store!AppendEvents, batch
<1>4. \A q \in Runs : q # r => SameChunks(q)
    BY <1>2, <1>3 DEF SameChunks, ChunkEvents
<1>5. /\ IsActive(r) /\ runs'[r].status = runs[r].status
      /\ runs'[r].last = runs[r].last + Len(batch) /\ OthersStay(r)
    BY <1>3, AppendMoves
<1>6. Chunked(r)' = Chunked(r) + Len(numbers)
    BY <1>1, <1>5, RowFacts DEF Chunked, Base
<1>7. PICK k \in Nat, m \in Nat : k = Chunked(r) /\ m = Len(numbers)
    BY <1>1
<1>8. Ordered(ChunkEvents(r)', k + m)
    <2>1. m <= m /\ \A i \in 1..m : i > m => batch[i].type # "chunk"
        OBVIOUS
    <2>2. /\ Len(batch) = m /\ Len(numbers) = m
          /\ \A i \in 1..m : batch[i].type = "chunk" /\ batch[i].n = numbers[i]
        BY <1>1, <1>7
    <2>3. events'[r] = Store!Appended(r, batch)
        BY <1>2, <1>3
    <2> QED
        BY <1>7, <2>1, <2>2, <2>3, ChunksAppended
<1> QED
    BY <1>4, <1>5, <1>6, <1>7, <1>8, MovesChunked DEF NoOutput, OthersStay

LEMMA FinishOutput ==
    ASSUME SP!Inv, NEW r \in Runs, NEW status \in Plans, NEW numbers \in Numbers, IsActive(r),
           CallFinish(r, status, numbers),
           Ordered(ChunkEvents(r), Chunked(r)), Chunked(r) \in Nat, Numbered(numbers, Chunked(r))
    PROVE  /\ ~IsActive(r)' /\ Ordered(ChunkEvents(r)', Chunked(r) + Len(numbers))
           /\ \A q \in Runs : q # r => NoOutput(q)
<1> DEFINE outcome == [s \in {r} |-> Store!Outcome(r, status)]
           cancel  == [s \in {r} |-> runs[r].cancel]
           batch   == Append(Chunks(numbers), Store!Mark(outcome[r]))
<1>1. Store!Settle({r}, outcome, cancel, Chunks(numbers))
    BY DEF CallFinish, Store!FinishRun
<1>2. outcome[r] \in Store!TERMINAL_STATUSES
    BY DEF Store!Outcome, Store!TERMINAL_STATUSES, Plans
<1>3. events'[r] = Store!Appended(r, batch) /\ \A q \in Runs : q # r => SameChunks(q)
    BY <1>1 DEF Store!Settle, SameChunks, ChunkEvents
<1>4. PICK m \in Nat : m = Len(numbers)
    BY LenProperties DEF Numbers
<1>5. Chunks(numbers) \in Seq({Store!Chunk(n) : n \in 1..MaxChunks}) /\ Len(Chunks(numbers)) = m
      /\ \A i \in 1..m : Chunks(numbers)[i] = Store!Chunk(numbers[i])
    <2>1. \A i \in 1..m : numbers[i] \in 1..MaxChunks
        BY <1>4, ElementOfSeq DEF Numbers
    <2> QED
        BY <1>4, <2>1 DEF Chunks
<1>6. /\ Len(batch) = m + 1
      /\ \A i \in 1..m : batch[i].type = "chunk" /\ batch[i].n = numbers[i]
      /\ batch[m + 1].type # "chunk"
    <2>1. PICK mark : mark = Store!Mark(outcome[r])
        OBVIOUS
    <2>2. mark.type # "chunk"
        BY <1>2, <2>1 DEF Store!Mark, Store!TERMINAL_STATUSES
    <2> HIDE DEF outcome
    <2>3. Len(batch) = m + 1 /\ batch[m + 1] = mark /\ \A i \in 1..m : batch[i] = Chunks(numbers)[i]
        BY <1>5, <2>1, AppendProperties
    <2> QED
        BY <1>5, <2>2, <2>3 DEF Store!Chunk
<1> HIDE DEF batch, outcome, cancel
<1>7. PICK k \in Nat : k = Chunked(r)
    OBVIOUS
<1>8. Ordered(ChunkEvents(r)', k + m)
    <2>1. m + 1 \in Nat /\ m <= m + 1 /\ \A i \in 1..(m + 1) : i > m => i = m + 1
        OBVIOUS
    <2>2. \A i \in 1..(m + 1) : i > m => batch[i].type # "chunk"
        BY <1>6, <2>1
    <2> QED
        BY <1>3, <1>4, <1>6, <1>7, <2>1, <2>2, ChunksAppended
<1>9. RowEnds(r) /\ OthersStay(r)
    BY FinishMoves DEF Plans
<1>10. ~IsActive(r)'
    BY <1>9 DEF RowEnds, IsTerminal, Store!IsTerminal, Store!TERMINAL_STATUSES, IsActive, Store!IsActive,
                Store!ACTIVE_STATUSES
<1> QED
    BY <1>3, <1>4, <1>7, <1>8, <1>9, <1>10, MovesChunked DEF NoOutput, OthersStay

-----------------------------------------------------------------------------
(* The steps that send nothing to the log.                                  *)

Quiet(r) ==
    /\ job'[r].pc = "none" <=> job[r].pc = "none"
    /\ job'[r].opened = job[r].opened
    /\ Sends(job'[r], output'[r]) = Sends(job[r], output[r])
    /\ job'[r].pc = "unwind" =>
            job[r].pc = "unwind" \/ ~job[r].opened \/ stopping' \/ ~IsActive(r)' \/ MaxFaults # 0
    /\ orphans'[r] \subseteq orphans[r]
    /\ starting' = r <=> starting = r
    /\ stopping => stopping'
    /\ up' = up

LEMMA QuietStep ==
    ASSUME NEW r \in Runs, Output(r), NoOutput(r), Quiet(r)
    PROVE  Output(r)'
<1>1. \E k \in Nat : Ordered(ChunkEvents(r)', k)
    BY NothingOrdered DEF Output, NoOutput, SameChunks
<1>2. ASSUME IsActive(r)'
      PROVE  IsActive(r) /\ Chunked(r)' = Chunked(r) /\ ChunkEvents(r)' = ChunkEvents(r)
    BY <1>2 DEF NoOutput, SameChunks
<1>3. ASSUME IsActive(r)'
      PROVE  Ordered(ChunkEvents(r)', Chunked(r)')
    BY <1>2, <1>3 DEF Output
<1>4. ASSUME IsActive(r)'
      PROVE  /\ job'[r].pc # "none" => Chunked(r)' = Sends(job'[r], output'[r])
             /\ \A o \in orphans'[r] : o.call = "finish" => Numbered(o.numbers, Chunked(r)')
             /\ starting' = r /\ job'[r].pc = "none" /\ ~stopping' => Chunked(r)' = 0
             /\ MaxFaults = 0 /\ up' /\ ~stopping' /\ Chunked(r)' # 0 => job'[r].opened /\ job'[r].pc # "unwind"
    BY <1>2, <1>4 DEF Output, Quiet
<1> QED
    BY <1>1, <1>3, <1>4 DEF Output, Quiet

(* A step of one run leaves the others alone.                               *)
LEMMA QuietElsewhere ==
    ASSUME Inv, \A q \in Runs : Output(q), NEW r \in Runs, Output(r)',
           \A q \in Runs : q # r => /\ NoOutput(q) /\ job'[q] = job[q] /\ output'[q] = output[q]
                                    /\ orphans'[q] = orphans[q] /\ (starting' = q <=> starting = q),
           UNCHANGED <<stopping, up>>
    PROVE  \A q \in Runs : Output(q)'
BY QuietStep DEF Quiet

(* A step of the producer that sends nothing.                               *)
LEMMA QuietJob ==
    ASSUME Inv, \A q \in Runs : Output(q), NEW r \in Runs, NEW k, Becomes(r, k),
           job[r].pc # "none", k.pc # "none", k.opened = job[r].opened,
           Sends(k, output'[r]) = Sends(job[r], output[r]),
           k.pc = "unwind" => job[r].pc = "unwind" \/ ~job[r].opened \/ ~IsActive(r)' \/ MaxFaults # 0,
           UNCHANGED <<orphans, requests, process>>, \A q \in Runs : q # r => output'[q] = output[q],
           \A q \in Runs : NoOutput(q)
    PROVE  \A q \in Runs : Output(q)'
<1>1. job'[r] = k /\ \A q \in Runs : q # r => job'[q] = job[q]
    BY OnlyJob
<1>2. UNCHANGED <<starting, stopping, up>>
    BY DEF requests, process
<1>3. Quiet(r)
    BY <1>1, <1>2 DEF Quiet
<1>4. Output(r)'
    BY <1>3, QuietStep
<1> QED
    BY <1>1, <1>2, <1>4, QuietElsewhere

LEMMA KeptSends ==
    ASSUME NEW j, NEW k, NEW out, Keeps(k, j)
    PROVE  Sends(k, out) = Sends(j, out) /\ k.opened = j.opened
BY DEF Keeps, Sends, Sent

LEMMA QuietTo ==
    ASSUME Inv, \A q \in Runs : Output(q), NEW r \in Runs, At(r, job[r].pc), job[r].pc # "none",
           NEW pc \in Pcs, pc # "none", To(r, pc) \/ (pc = "finish" /\ \E plan \in Plans : ToFinish(r, plan)),
           pc = "unwind" => job[r].pc = "unwind" \/ ~job[r].opened \/ ~IsActive(r)' \/ MaxFaults # 0,
           \A q \in Runs : NoOutput(q)
    PROVE  \A q \in Runs : Output(q)'
<1>1. job[r] \in Job
    BY AtFacts
<1>2. PICK k : Becomes(r, k) /\ Edited(k, job[r], pc, job[r].stop)
    <2>1. CASE To(r, pc)
        BY <1>1, <2>1, EditPc DEF To
    <2>2. CASE pc = "finish" /\ \E plan \in Plans : ToFinish(r, plan)
        <3>1. PICK plan \in Plans : Becomes(r, [job[r] EXCEPT !.pc = "finish", !.plan = plan])
            BY <2>2 DEF ToFinish
        <3>2. Edited([job[r] EXCEPT !.pc = "finish", !.plan = plan], job[r], pc, job[r].stop)
            BY <1>1, <2>2, EditPlan
        <3> QED
            BY <3>1, <3>2
    <2> QED
        BY <2>1, <2>2
<1>3. Sends(k, output[r]) = Sends(job[r], output[r]) /\ k.opened = job[r].opened /\ k.pc = pc
    BY <1>2, KeptSends DEF Edited
<1>4. UNCHANGED <<output, orphans, requests, process>>
    BY DEF At
<1> QED
    BY <1>2, <1>3, <1>4, QuietJob

LEMMA BeginQuiet ==
    ASSUME Inv, \A q \in Runs : Output(q), NEW r \in Runs, Begin(r)
    PROVE  \A q \in Runs : Output(q)'
<1>1. job[r].pc \in Preparing /\ At(r, job[r].pc) /\ ~job[r].opened /\ SP!Inv /\ job[r].pc # "none"
    BY AtFacts DEF Begin, GetToken, Gate, MarkRunning, Reread, At, Preparing
<1>2. \A q \in Runs : NoOutput(q)
    <2>1. CASE UNCHANGED store
        BY <2>1, SameStore
    <2>2. CASE Store!MarkRunning(r)
        BY <1>1, <2>2, MarkOutput
    <2> QED
        BY <2>1, <2>2 DEF Begin, GetToken, Gate, MarkRunning, Marked, Reread, NoCall, Fault
<1>3. ASSUME NEW pc \in {"finish", "unwind", "gate", "mark", "caught", "reread", "open"},
             To(r, pc) \/ (pc = "finish" /\ \E plan \in Plans : ToFinish(r, plan))
      PROVE  \A q \in Runs : Output(q)'
    BY <1>1, <1>2, <1>3, QuietTo DEF Pcs
<1>4. CASE GetToken(r)
    BY <1>3, <1>4, StatusesArePlans DEF GetToken
<1>5. CASE Gate(r)
    BY <1>3, <1>5, StatusesArePlans DEF Gate
<1>6. CASE MarkRunning(r)
    BY <1>3, <1>6 DEF MarkRunning
<1>7. CASE Reread(r)
    BY <1>3, <1>7, StatusesArePlans DEF Reread
<1> QED
    BY <1>4, <1>5, <1>6, <1>7 DEF Begin

LEMMA EndQuiet ==
    ASSUME Inv, \A q \in Runs : Output(q), NEW r \in Runs,
           EngineRaises(r) \/ (\E done \in BOOLEAN : EndStream(r, done)) \/ ReadStatus(r)
    PROVE  \A q \in Runs : Output(q)'
<1>1. /\ job[r].pc \in {"stream", "status"} /\ At(r, job[r].pc) /\ job[r] \in Job /\ UNCHANGED store
    BY AtFacts DEF EngineRaises, EndStream, ReadStatus, At, NoCall, Fault
<1>2. (\A q \in Runs : NoOutput(q)) /\ (IsActive(r)' <=> IsActive(r))
    BY <1>1, SameStore, SamePredicates
<1>3. CASE EngineRaises(r)
    BY <1>1, <1>2, <1>3, QuietTo DEF EngineRaises, Pcs
<1>4. CASE \E done \in BOOLEAN : EndStream(r, done)
    <2>1. PICK done \in BOOLEAN : EndStream(r, done)
        BY <1>4
    <2>2. PICK fin \in BOOLEAN : fin = (job[r].fin \/ done)
        BY <1>1, JobFields
    <2>3. Becomes(r, [job[r] EXCEPT !.pc = "drain", !.fin = fin])
        BY <1>1, <2>1, <2>2 DEF EndStream
    <2>4. "drain" \in Pcs
        BY DEF Pcs
    <2>5. PICK k : Becomes(r, k) /\ Edited(k, job[r], "drain", job[r].stop)
        BY <1>1, <2>3, <2>4, EditFin
    <2>6. Sends(k, output[r]) = Sends(job[r], output[r]) /\ k.opened = job[r].opened /\ k.pc = "drain"
        BY <2>5, KeptSends DEF Edited
    <2>7. UNCHANGED <<output, orphans, requests, process>>
        BY <1>1 DEF At
    <2> QED
        BY <1>1, <1>2, <2>5, <2>6, <2>7, QuietJob
<1>5. CASE ReadStatus(r)
    <2>1. CASE ToFinish(r, EndStatus(r))
        <3>1. \E plan \in Plans : ToFinish(r, plan)
            BY <2>1, StatusesArePlans
        <3> QED
            BY <1>1, <1>2, <3>1, QuietTo DEF Pcs
    <2>2. CASE To(r, "unwind") /\ ~Row(r)
        <3>1. ~IsActive(r)'
            BY <1>2, <2>2, RowFacts DEF Inv
        <3> QED
            BY <1>1, <1>2, <2>2, <3>1, QuietTo DEF Pcs
    <2>3. CASE To(r, "caught")
        BY <1>1, <1>2, <2>3, QuietTo DEF Pcs
    <2> QED
        BY <1>5, <2>1, <2>2, <2>3 DEF ReadStatus
<1> QED
    BY <1>3, <1>4, <1>5

-----------------------------------------------------------------------------
(* The steps that move chunks between the engine, the producer and the log. *)

(* What a producer has in hand follows on what the log has.                 *)
LEMMA HandFollows ==
    ASSUME Inv, NEW r \in Runs, Output(r), IsActive(r), job[r].pc # "none"
    PROVE  /\ Chunked(r) \in Nat /\ Ordered(ChunkEvents(r), Chunked(r))
           /\ job[r].pending \in Numbers /\ job[r].writing \in Numbers
           /\ job[r].wtask = "running" => job[r].opened /\ Numbered(job[r].writing, Chunked(r))
           /\ job[r].wtask = "none" => /\ Numbered(job[r].pending, Chunked(r))
                                       /\ job[r].opened => Chunked(r) + Len(job[r].pending) = output[r]
<1> DEFINE j == job[r]
<1>1. /\ j \in Job /\ output[r] \in 0..MaxChunks /\ Flow(j, output[r]) /\ MaxChunks \in Nat
      /\ Chunked(r) \in Nat /\ Chunked(r) = Sends(j, output[r]) /\ Ordered(ChunkEvents(r), Chunked(r))
    BY AtFacts, BoundAssumption DEF RunInv, RunTypes, LogFits, Output
<1>2. j.pending \in Numbers /\ j.writing \in Numbers /\ j.wtask \in WriteStates
    BY <1>1, JobFields
<1>3. PICK p \in Nat, w \in Nat, o \in Nat : p = Len(j.pending) /\ w = Len(j.writing) /\ o = output[r]
    BY <1>1, JobFields
<1>4. Before(j, o) = o - p - w
    BY <1>3 DEF Before
<1>5. CASE j.opened
    <2>1. Numbered(j.writing, o - p - w) /\ Numbered(j.pending, o - p - w + w)
        BY <1>1, <1>3, <1>4, <1>5 DEF Flow
    <2>2. Chunked(r) = o - p - (IF j.wtask = "done" THEN 0 ELSE w)
        BY <1>1, <1>3, <1>5 DEF Sends, Sent
    <2>3. CASE j.wtask = "none"
        <3>1. w = 0
            BY <1>1, <1>3, <2>3 DEF Flow
        <3>2. o - p - w + w = o - p /\ o - p - w = o - p /\ o - p + p = o
            BY <3>1
        <3> QED
            BY <1>1, <1>2, <1>3, <2>1, <2>2, <2>3, <3>2
    <2>4. CASE j.wtask # "none"
        <3>1. j.wtask = "running" => Chunked(r) = o - p - w
            BY <2>2
        <3> QED
            BY <1>1, <1>2, <1>5, <2>1, <2>4, <3>1
    <2> QED
        BY <2>3, <2>4
<1>6. CASE ~j.opened
    <2>1. j.pending = <<>> /\ j.wtask = "none"
        BY <1>1, <1>6 DEF Flow
    <2> QED
        BY <1>1, <1>2, <1>6, <2>1, NothingNumbered
<1> QED
    BY <1>5, <1>6, <1>1, JobFields

(* A run that has ended, or is gone.                                        *)
LEMMA EndedOutput ==
    ASSUME NEW r \in Runs, Output(r), ~IsActive(r)', NEW k \in Nat, Ordered(ChunkEvents(r)', k),
           starting' = starting, job[r].pc # "none" \/ job'[r].pc = "none"
    PROVE  Output(r)'
BY DEF Output

LEMMA OpenOutput ==
    ASSUME Inv, \A q \in Runs : Output(q), NEW r \in Runs, Open(r)
    PROVE  \A q \in Runs : Output(q)'
<1> DEFINE j == job[r]
<1>1. /\ SP!Inv /\ j \in Job /\ RunInv(r) /\ j.pc = "open" /\ ~j.opened /\ j.wtask = "none"
      /\ j.pending = <<>> /\ j.writing = <<>> /\ UNCHANGED <<store, orphans, requests, process, views>>
    BY AtFacts DEF RunInv, Open, NoCall, Preparing, Flow
<1>2. (\A q \in Runs : NoOutput(q)) /\ (IsActive(r)' <=> IsActive(r)) /\ Chunked(r)' = Chunked(r)
      /\ ChunkEvents(r)' = ChunkEvents(r)
    BY <1>1, SameStore, SamePredicates DEF store, ChunkEvents
<1>3. CASE To(r, "caught") /\ UNCHANGED output
    <2>1. At(r, j.pc)
        BY <1>1, <1>3 DEF At
    <2> QED
        BY <1>1, <1>2, <1>3, <2>1, QuietTo DEF Pcs
<1>4. CASE /\ Becomes(r, [j EXCEPT !.pc = "stream", !.opened = TRUE])
           /\ output' = [output EXCEPT ![r] = 0]
    <2> DEFINE k == [j EXCEPT !.pc = "stream", !.opened = TRUE]
    <2>1. /\ k.pc = "stream" /\ k.opened /\ k.wtask = "none" /\ k.pending = <<>> /\ k.writing = <<>>
        BY <1>1, JobSet
    <2>2. job'[r] = k /\ \A q \in Runs : q # r => job'[q] = job[q]
        BY <1>4, OnlyJob
    <2> HIDE DEF k
    <2>3. output'[r] = 0 /\ \A q \in Runs : q # r => output'[q] = output[q]
        BY <1>4 DEF Inv, Process
    <2>4. Sends(k, 0) = 0
        <3>1. Len(k.pending) = 0 /\ Len(k.writing) = 0
            BY <2>1
        <3> QED
            BY <2>1, <3>1 DEF Sends, Sent
    <2>5. IsActive(r) => Chunked(r) = 0
        BY <1>1 DEF Output, Sends
    <2>6. Output(r)'
        BY <1>1, <1>2, <2>1, <2>2, <2>3, <2>4, <2>5 DEF Output, requests, process
    <2>7. UNCHANGED <<starting, orphans, stopping, up>>
        BY <1>1 DEF requests, process
    <2> QED
        BY <1>2, <2>2, <2>3, <2>6, <2>7, QuietElsewhere
<1> QED
    BY <1>3, <1>4 DEF Open

LEMMA RenewOutput ==
    ASSUME Inv, \A q \in Runs : Output(q), NEW r \in Runs, Renew(r)
    PROVE  \A q \in Runs : Output(q)'
<1>1. /\ SP!Inv /\ job[r] \in Job /\ At(r, job[r].pc) /\ job[r].beats \in Beats
      /\ job[r].pc \in {"gate", "mark", "reread", "open", "stream"}
    BY AtFacts, JobFields DEF Renew
<1>2. \A q \in Runs : NoOutput(q)
    BY <1>1, LeaseOutput DEF Renew
<1>3. PICK beats \in Beats : beats = job[r].beats + 1
    BY <1>1, BoundAssumption DEF Renew, Beats
<1>4. Becomes(r, [job[r] EXCEPT !.beats = beats])
    BY <1>3 DEF Renew
<1>5. PICK k : Becomes(r, k) /\ Edited(k, job[r], job[r].pc, job[r].stop)
    BY <1>1, <1>4, EditBeats
<1>6. Sends(k, output[r]) = Sends(job[r], output[r]) /\ k.opened = job[r].opened /\ k.pc = job[r].pc
    BY <1>5, KeptSends DEF Edited
<1>7. UNCHANGED <<output, orphans, requests, process>>
    BY <1>1 DEF At
<1> QED
    BY <1>1, <1>2, <1>5, <1>6, <1>7, QuietJob

LEMMA TakeOutput ==
    ASSUME Inv, \A q \in Runs : Output(q), NEW r \in Runs, NEW kind, TakeChunk(r, kind)
    PROVE  \A q \in Runs : Output(q)'
<1> DEFINE j   == job[r]
           out == output[r]
<1>1. /\ SP!Inv /\ j \in Job /\ out \in 0..MaxChunks /\ j.opened /\ j.pc = "stream" /\ MaxChunks \in Nat
      /\ out + 1 \in 1..MaxChunks /\ j.pending \in Seq(1..MaxChunks)
      /\ UNCHANGED <<store, orphans, requests, process>>
    BY AtFacts, JobFields, BoundAssumption DEF RunInv, RunTypes, TakeChunk, Reading, NoCall, Numbers
<1>2. PICK fin \in BOOLEAN, err \in BOOLEAN, e \in 1..MaxChunks :
         e = out + 1 /\ Becomes(r, [j EXCEPT !.pending = Append(j.pending, e), !.fin = fin, !.err = err])
    BY <1>1, JobFields DEF TakeChunk
<1> DEFINE pending == Append(j.pending, e)
           k == [j EXCEPT !.pending = pending, !.fin = fin, !.err = err]
<1>3. pending \in Numbers /\ Len(pending) = Len(j.pending) + 1
    BY <1>1, AppendProperties DEF Numbers
<1>4. Becomes(r, k)
    BY <1>2
<1> HIDE DEF pending
<1>5. k.pc = j.pc /\ k.opened = j.opened /\ k.wtask = j.wtask /\ k.writing = j.writing /\ k.pending = pending
    BY <1>1, <1>3, JobSet
<1> HIDE DEF k
<1>6. Sends(k, e) = Sends(j, out)
    <2>1. out \in Int /\ Len(j.pending) \in Int /\ Len(j.writing) \in Int
        BY <1>1, JobFields
    <2>2. PICK o \in Int, p \in Int, w \in Int : o = out /\ p = Len(j.pending) /\ w = Len(j.writing) /\ e = o + 1
        BY <1>2, <2>1
    <2>3. PICK z \in Int : z = IF j.wtask = "done" THEN 0 ELSE w
        OBVIOUS
    <2>4. Len(k.pending) = p + 1 /\ Len(k.writing) = w /\ e = o + 1
        BY <1>3, <1>5, <2>2
    <2>5. Sent(k, e) = (o + 1) - (p + 1) - z /\ Sent(j, out) = o - p - z
        BY <1>5, <2>2, <2>3, <2>4 DEF Sent
    <2>6. (o + 1) - (p + 1) - z = o - p - z
        OBVIOUS
    <2> QED
        BY <1>5, <2>5, <2>6 DEF Sends
<1>7. output'[r] = e /\ \A q \in Runs : q # r => output'[q] = output[q]
    BY <1>2 DEF TakeChunk, Inv, Process
<1>8. \A q \in Runs : NoOutput(q)
    BY <1>1, SameStore
<1> QED
    BY <1>1, <1>4, <1>5, <1>6, <1>7, <1>8, QuietJob

LEMMA SettleOutput ==
    ASSUME Inv, \A q \in Runs : Output(q), NEW r \in Runs, ObserveWrite(r) \/ Drain(r) \/ Catch(r)
    PROVE  \A q \in Runs : Output(q)'
<1> DEFINE j == job[r]
           w == WriteSettled(j)
<1>1. /\ j \in Job /\ output[r] \in 0..MaxChunks /\ Flow(j, output[r])
      /\ j.wtask # "running" /\ j.pc \in {"stream", "drain", "caught"}
    BY AtFacts DEF RunInv, RunTypes, ObserveWrite, Drain, Catch, Waited, At
<1>2. w \in Job /\ w.opened = j.opened /\ w.pc = j.pc /\ Sent(w, output[r]) = Sent(j, output[r])
    BY <1>1, WriteSettledFlow
<1>3. PICK pc \in {"stream", "caught", "status", "settle"}, plan \in Plans :
         Becomes(r, [w EXCEPT !.pc = pc]) \/ Becomes(r, [w EXCEPT !.pc = pc, !.plan = plan])
    <2>1. CASE ObserveWrite(r)
        <3>1. /\ Becomes(r, [w EXCEPT !.pc = IF j.wtask = "failed" THEN "caught" ELSE w.pc])
              /\ w.pc = "stream"
            BY <1>2, <2>1 DEF ObserveWrite, At
        <3>2. CASE j.wtask = "failed"
            BY <3>1, <3>2, StatusesArePlans
        <3>3. CASE j.wtask # "failed"
            BY <3>1, <3>3, StatusesArePlans
        <3> QED
            BY <3>2, <3>3
    <2>2. CASE Drain(r)
        <3>1. Becomes(r, [w EXCEPT !.pc = "caught"]) \/ Becomes(r, [w EXCEPT !.pc = "status"])
            BY <2>2 DEF Drain
        <3> QED
            BY <3>1, StatusesArePlans
    <2>3. CASE Catch(r)
        BY <2>3, StatusesArePlans DEF Catch
    <2> QED
        BY <2>1, <2>2, <2>3
<1> HIDE DEF w
<1>4. pc \in Pcs
    BY DEF Pcs
<1>5. PICK k : Becomes(r, k) /\ Edited(k, w, pc, w.stop)
    BY <1>2, <1>3, <1>4, EditPc, EditPlan
<1>6. Sends(k, output[r]) = Sends(j, output[r]) /\ k.opened = j.opened /\ k.pc = pc
    BY <1>2, <1>5, KeptSends DEF Edited, Sends
<1>7. UNCHANGED <<store, output, orphans, requests, process>>
    BY DEF ObserveWrite, Drain, Catch, NoCall, At
<1>8. \A q \in Runs : NoOutput(q)
    BY <1>7, SameStore
<1> QED
    BY <1>1, <1>3, <1>5, <1>6, <1>7, <1>8, QuietJob

LEMMA StartWriteOutput ==
    ASSUME Inv, \A q \in Runs : Output(q), NEW r \in Runs, StartWrite(r)
    PROVE  \A q \in Runs : Output(q)'
<1> DEFINE j == job[r]
           k == [j EXCEPT !.writing = j.pending, !.pending = <<>>, !.wtask = "running"]
<1>1. /\ j \in Job /\ j.pc = "stream" /\ j.wtask = "none" /\ Flow(j, output[r]) /\ Becomes(r, k)
      /\ UNCHANGED <<store, output, orphans, requests, process>> /\ output[r] \in 0..MaxChunks
      /\ MaxChunks \in Nat
    BY AtFacts, BoundAssumption DEF RunInv, RunTypes, StartWrite, NoCall, At
<1>2. k.pc = j.pc /\ k.opened = j.opened /\ k.wtask = "running" /\ k.writing = j.pending /\ k.pending = <<>>
    BY <1>1, JobSet
<1> HIDE DEF k
<1>3. Len(j.writing) = 0 /\ Len(k.pending) = 0 /\ Len(k.writing) = Len(j.pending) /\ Len(j.pending) \in Nat
    BY <1>1, <1>2, JobFields DEF Flow
<1>4. Sent(k, output[r]) = Sent(j, output[r])
    BY <1>1, <1>2, <1>3 DEF Sent
<1>5. Sends(k, output[r]) = Sends(j, output[r])
    BY <1>2, <1>4 DEF Sends
<1>6. \A q \in Runs : NoOutput(q)
    BY <1>1, SameStore
<1> QED
    BY <1>1, <1>2, <1>5, <1>6, QuietJob

LEMMA WriteOutput ==
    ASSUME Inv, \A q \in Runs : Output(q), NEW r \in Runs, WriteLands(r)
    PROVE  \A q \in Runs : Output(q)'
<1> DEFINE j == job[r]
<1>1. /\ SP!Inv /\ j \in Job /\ j.wtask = "running" /\ j.pc # "none" /\ output[r] \in 0..MaxChunks
      /\ UNCHANGED <<output, orphans, requests, process>>
    BY AtFacts DEF RunInv, RunTypes, WriteLands
<1>2. PICK wtask \in {"done", "failed"} :
         /\ Becomes(r, [j EXCEPT !.wtask = wtask])
         /\ \/ UNCHANGED store /\ (wtask = "done" => ~IsActive(r))
            \/ wtask = "done" /\ IsActive(r) /\ Store!AppendEvents(r, Chunks(j.writing))
    BY DEF WriteLands, NoCall, Fault
<1> DEFINE k == [j EXCEPT !.wtask = wtask]
<1>3. k.pc = j.pc /\ k.opened = j.opened /\ k.wtask = wtask /\ k.writing = j.writing /\ k.pending = j.pending
    BY <1>1, JobSet
<1>4. job'[r] = k /\ \A q \in Runs : q # r => job'[q] = job[q]
    BY <1>2, OnlyJob
<1>5. Becomes(r, k)
    BY <1>2
<1> HIDE DEF k
<1>6. CASE wtask = "failed"
    <2>1. Sends(k, output[r]) = Sends(j, output[r])
        BY <1>1, <1>3, <1>6 DEF Sends, Sent
    <2>2. \A q \in Runs : NoOutput(q)
        BY <1>2, <1>6, SameStore
    <2> QED
        BY <1>1, <1>3, <1>5, <2>1, <2>2, QuietJob
<1>7. CASE wtask = "done" /\ ~IsActive(r)
    <2>1. UNCHANGED store
        BY <1>2, <1>7
    <2>2. (\A q \in Runs : NoOutput(q)) /\ ~IsActive(r)' /\ ChunkEvents(r)' = ChunkEvents(r)
        BY <1>7, <2>1, SameStore, SamePredicates DEF store, ChunkEvents
    <2>3. PICK n \in Nat : Ordered(ChunkEvents(r)', n)
        BY <2>2 DEF Output
    <2>4. UNCHANGED <<starting, orphans, output, stopping, up>>
        BY <1>1 DEF requests, process
    <2>5. Output(r)'
        BY <1>1, <2>2, <2>3, <2>4, EndedOutput
    <2> QED
        BY <1>4, <2>2, <2>4, <2>5, QuietElsewhere
<1>8. CASE wtask = "done" /\ IsActive(r) /\ Store!AppendEvents(r, Chunks(j.writing))
    <2>1. /\ Chunked(r) \in Nat /\ Ordered(ChunkEvents(r), Chunked(r)) /\ j.writing \in Numbers
          /\ j.opened /\ Numbered(j.writing, Chunked(r)) /\ Chunked(r) = Sends(j, output[r])
        BY <1>1, <1>8, HandFollows DEF Output
    <2>2. /\ Chunked(r)' = Chunked(r) + Len(j.writing) /\ Ordered(ChunkEvents(r)', Chunked(r)')
          /\ \A q \in Runs : q # r => NoOutput(q)
        BY <1>1, <1>8, <2>1, AppendOutput
    <2>3. Chunked(r)' = Sends(k, output[r])
        <3>1. PICK o \in Int, p \in Int, w \in Int : o = output[r] /\ p = Len(j.pending) /\ w = Len(j.writing)
            <4>1. output[r] \in Int /\ Len(j.pending) \in Int /\ Len(j.writing) \in Int
                BY <1>1, JobFields, BoundAssumption
            <4> QED
                BY <4>1
        <3>2. Sends(j, output[r]) = o - p - w
            BY <1>1, <2>1, <3>1 DEF Sends, Sent
        <3>3. Sends(k, output[r]) = o - p - 0
            BY <1>3, <1>8, <2>1, <3>1 DEF Sends, Sent
        <3>4. o - p - w + w = o - p - 0
            OBVIOUS
        <3> QED
            BY <2>1, <2>2, <3>1, <3>2, <3>3, <3>4
    <2>4. UNCHANGED <<starting, orphans, output, stopping, up>>
        BY <1>1 DEF requests, process
    <2>5. Chunked(r)' \in Nat
        BY <2>1, <2>2, LenProperties DEF Numbers
    <2>6. ASSUME NEW o \in orphans'[r], o.call = "finish" PROVE FALSE
        BY <1>1, <1>8, <2>4, <2>6, AtFacts DEF RunInv, LeftToItself
    <2>7. MaxFaults = 0 /\ up' /\ ~stopping' /\ Chunked(r)' # 0 => k.opened /\ k.pc # "unwind"
        BY <1>1, <1>3, <2>1, AtFacts
    <2>8. Output(r)'
        BY <1>1, <1>3, <1>4, <2>2, <2>3, <2>4, <2>5, <2>6, <2>7 DEF Output
    <2> QED
        BY <1>4, <2>2, <2>4, <2>8, QuietElsewhere
<1> QED
    BY <1>2, <1>6, <1>7, <1>8

(* finish_run flushes what the producer has in hand.                        *)
LEMMA FlushedOutput ==
    ASSUME Inv, NEW r \in Runs, Output(r), IsActive(r),
           At(r, "finish") \/ At(r, "settle"), CallFinish(r, job[r].plan, job[r].pending)
    PROVE  /\ ~IsActive(r)' /\ \A q \in Runs : q # r => NoOutput(q)
           /\ \E k \in Nat : Ordered(ChunkEvents(r)', k) /\ (job[r].opened => k = output[r])
<1>1. SP!Inv /\ job[r].pc # "none" /\ job[r].wtask = "none" /\ job[r].plan \in Plans
    BY AtFacts DEF At
<1>2. /\ Chunked(r) \in Nat /\ Ordered(ChunkEvents(r), Chunked(r)) /\ job[r].pending \in Numbers
      /\ Numbered(job[r].pending, Chunked(r))
      /\ job[r].opened => Chunked(r) + Len(job[r].pending) = output[r]
    BY <1>1, HandFollows
<1>3. Len(job[r].pending) \in Nat
    BY <1>2, LenProperties DEF Numbers
<1>4. /\ ~IsActive(r)' /\ Ordered(ChunkEvents(r)', Chunked(r) + Len(job[r].pending))
      /\ \A q \in Runs : q # r => NoOutput(q)
    BY <1>1, <1>2, FinishOutput
<1>5. PICK k \in Nat : k = Chunked(r) + Len(job[r].pending)
    BY <1>2, <1>3
<1> QED
    BY <1>2, <1>4, <1>5

LEMMA FinishSteps ==
    ASSUME Inv, \A q \in Runs : Output(q), NEW r \in Runs, Finish(r) \/ SettleCaught(r)
    PROVE  \A q \in Runs : Output(q)'
<1>1. /\ SP!Inv /\ job[r] \in Job /\ At(r, job[r].pc) /\ job[r].pc \in {"finish", "settle"}
      /\ UNCHANGED <<output, orphans, starting, stopping, up>>
    BY AtFacts DEF Finish, SettleCaught, At, requests, process
<1>2. CASE Fault /\ \E pc \in {"caught", "unwind"} : To(r, pc)
    <2>1. MaxFaults # 0 /\ \A q \in Runs : NoOutput(q)
        BY <1>2, SameStore, BoundAssumption DEF Fault, Inv, Process
    <2> QED
        BY <1>1, <1>2, <2>1, QuietTo DEF Pcs
<1>3. CASE CallFinish(r, job[r].plan, job[r].pending) /\ To(r, "unwind") /\ IsActive(r)
    <2>1. /\ ~IsActive(r)' /\ \A q \in Runs : q # r => NoOutput(q)
          /\ \E k \in Nat : Ordered(ChunkEvents(r)', k)
        BY <1>1, <1>3, FlushedOutput
    <2>2. Output(r)'
        BY <1>1, <2>1, EndedOutput
    <2>3. \A q \in Runs : q # r => job'[q] = job[q]
        BY <1>3, OnlyJob DEF To
    <2> QED
        BY <1>1, <2>1, <2>2, <2>3, QuietElsewhere
<1>4. CASE CallFinish(r, job[r].plan, job[r].pending) /\ To(r, "unwind") /\ ~IsActive(r)
    <2>1. UNCHANGED store
        BY <1>4 DEF CallFinish
    <2>2. (\A q \in Runs : NoOutput(q)) /\ ~IsActive(r)'
        BY <1>4, <2>1, SameStore, SamePredicates
    <2> QED
        BY <1>1, <1>4, <2>2, QuietTo DEF Pcs
<1> QED
    BY <1>2, <1>3, <1>4 DEF Finish, SettleCaught

-----------------------------------------------------------------------------
(* Producers that go, and the calls they leave to themselves.               *)

LEMMA UnwindOutput ==
    ASSUME Inv, OneWriter, \A q \in Runs : Output(q), NEW r \in Runs, Unwind(r)
    PROVE  \A q \in Runs : Output(q)'
<1>1. /\ job[r].pc = "unwind" /\ Becomes(r, NoJob) /\ up /\ SP!Inv
      /\ UNCHANGED <<output, orphans, starting, stopping, up, store>>
    BY DEF Unwind, At, NoCall, requests, process, Inv, Process, RunInv, Registry
<1>2. job'[r] = NoJob /\ (\A q \in Runs : q # r => job'[q] = job[q]) /\ NoJob.pc = "none"
    BY <1>1, OnlyJob DEF NoJob
<1> HIDE DEF NoJob
<1>3. \A q \in Runs : NoOutput(q)
    BY <1>1, SameStore
<1>4. /\ IsActive(r)' <=> IsActive(r)
      /\ Chunked(r)' = Chunked(r) /\ ChunkEvents(r)' = ChunkEvents(r)
    BY <1>1, SamePredicates DEF store, ChunkEvents
<1>5. ~stopping /\ IsActive(r) => starting # r \/ Chunked(r) = 0
    BY <1>1 DEF OneWriter, Output
<1>6. MaxFaults = 0 /\ ~stopping /\ IsActive(r) => Chunked(r) = 0
    BY <1>1 DEF Output
<1>7. Output(r)'
    BY <1>1, <1>2, <1>4, <1>5, <1>6 DEF Output
<1> QED
    BY <1>1, <1>2, <1>3, <1>7, QuietElsewhere

(* A step that leaves the producers alone.                                  *)
LEMMA AroundOutput ==
    ASSUME Inv, \A q \in Runs : Output(q), UNCHANGED <<job, output, starting, stopping, up>>,
           NEW q \in Runs, orphans'[q] \subseteq orphans[q], NoOutput(q)
    PROVE  Output(q)'
<1>1. Quiet(q)
    <2>1. job'[q] = job[q] /\ output'[q] = output[q]
        OBVIOUS
    <2> QED
        BY <2>1 DEF Quiet
<1> QED
    BY <1>1, QuietStep

LEMMA OrphanOutput ==
    ASSUME Inv, \A q \in Runs : Output(q), NEW r \in Runs, Orphan(r)
    PROVE  \A q \in Runs : Output(q)'
<1>1. PICK o \in orphans[r] :
        /\ orphans' = [orphans EXCEPT ![r] = @ \ {o}]
        /\ IF o.call = "finish" THEN CallFinish(r, o.status, o.numbers)
           ELSE Store!MarkRunning(r) \/ UNCHANGED store
    BY DEF Orphan
<1>2. UNCHANGED <<job, output, starting, stopping, up>> /\ SP!Inv
    BY DEF Orphan, requests, process, Inv
<1>3. orphans'[r] \subseteq orphans[r] /\ \A q \in Runs : q # r => orphans'[q] = orphans[q]
    BY <1>1 DEF Inv, Process
<1>4. CASE o.call = "finish" /\ IsActive(r)
    <2>1. /\ o.status \in Plans /\ o.numbers \in Numbers /\ Numbered(o.numbers, Chunked(r))
          /\ Chunked(r) \in Nat /\ Ordered(ChunkEvents(r), Chunked(r))
        BY <1>4, AtFacts DEF RunInv, RunTypes, LeftToItself, LogFits, Plans, Output, Call, Numbers
    <2>2. CallFinish(r, o.status, o.numbers)
        BY <1>1, <1>4
    <2>3. /\ ~IsActive(r)' /\ Ordered(ChunkEvents(r)', Chunked(r) + Len(o.numbers))
          /\ \A q \in Runs : q # r => NoOutput(q)
        BY <1>2, <1>4, <2>1, <2>2, FinishOutput
    <2>4. Len(o.numbers) \in Nat
        BY <2>1, LenProperties DEF Numbers
    <2>5. PICK k \in Nat : k = Chunked(r) + Len(o.numbers)
        BY <2>1, <2>4
    <2>6. Output(r)'
        BY <1>2, <2>3, <2>5 DEF Output
    <2> QED
        BY <1>2, <1>3, <2>3, <2>6, AroundOutput
<1>5. CASE Store!MarkRunning(r)
    BY <1>2, <1>3, <1>5, MarkOutput, AroundOutput
<1>6. CASE UNCHANGED store
    BY <1>2, <1>3, <1>6, SameStore, AroundOutput
<1> QED
    BY <1>1, <1>4, <1>5, <1>6 DEF CallFinish

LEMMA ForceOutput ==
    ASSUME Inv, \A q \in Runs : Output(q), NEW r \in Runs, ForceCancel(r)
    PROVE  \A q \in Runs : Output(q)'
<1>1. /\ SP!Inv /\ job[r] \in Job /\ (stopping \/ ~IsActive(r))
      /\ UNCHANGED <<store, output, starting, stopping, up>>
    BY AtFacts, RowFacts DEF ForceCancel, process, RunInv, Registry, Over
<1>2. (\A q \in Runs : NoOutput(q)) /\ (IsActive(r)' <=> IsActive(r)) /\ Chunked(r)' = Chunked(r)
      /\ ChunkEvents(r)' = ChunkEvents(r)
    BY <1>1, SameStore, SamePredicates DEF store, ChunkEvents
<1>3. CASE job[r].pc = "none" /\ UNCHANGED <<job, orphans>>
    BY <1>1, <1>2, <1>3, AroundOutput
<1>4. CASE /\ job[r].pc # "none" /\ Becomes(r, Interrupted(job[r]))
           /\ orphans' = [orphans EXCEPT ![r] = @ \cup Left(r)]
    <2> DEFINE j == job[r]
               k == Interrupted(j)
    <2>1. job'[r] = k /\ \A q \in Runs : q # r => job'[q] = job[q]
        BY <1>4, OnlyJob
    <2>2. orphans'[r] = orphans[r] \cup Left(r) /\ \A q \in Runs : q # r => orphans'[q] = orphans[q]
        BY <1>4 DEF Inv, Process
    <2>3. Keeps(k, j) /\ k.pc # "none"
        BY <1>1, <1>4, InterruptedEdits
    <2> HIDE DEF k
    <2>4. Sends(k, output[r]) = Sends(j, output[r])
        BY <2>3, KeptSends
    <2>5. ASSUME IsActive(r), NEW o \in Left(r), o.call = "finish"
          PROVE  Numbered(o.numbers, Chunked(r))
        <3>1. j.pc \in {"finish", "settle"} /\ o.numbers = j.pending
            BY <2>5 DEF Left
        <3>2. j.wtask = "none"
            BY <3>1, AtFacts
        <3> QED
            BY <1>4, <2>5, <3>1, <3>2, HandFollows
    <2>6. Output(r)'
        BY <1>1, <1>2, <1>4, <2>1, <2>2, <2>3, <2>4, <2>5 DEF Output
    <2> QED
        BY <1>1, <1>2, <2>1, <2>2, <2>6, QuietElsewhere
<1> QED
    BY <1>3, <1>4 DEF ForceCancel

(* Being told to stop changes nothing of what a producer has in hand.       *)
LEMMA ToldKeeps ==
    ASSUME Inv, NEW q \in Runs
    PROVE  Told(q) \in Job /\ Keeps(Told(q), job[q]) /\ Told(q).pc = job[q].pc
<1>1. CASE job[q].pc = "none"
    BY <1>1, AtFacts DEF Told, Keeps
<1>2. CASE job[q].pc # "none"
    <2>1. Told(q) = [job[q] EXCEPT !.stop = TRUE]
        BY <1>2 DEF Told
    <2> QED
        BY <2>1, AtFacts, EditStop DEF Edited
<1> QED
    BY <1>1, <1>2

LEMMA ToldOutput ==
    ASSUME Inv, \A q \in Runs : Output(q), NEW r \in Runs, Signal(r) \/ LifecycleCancel(r)
    PROVE  \A q \in Runs : Output(q)'
<1>1. /\ UNCHANGED <<store, output, orphans, starting, stopping, up>> /\ job'[r] = Told(r)
      /\ \A q \in Runs : q # r => job'[q] = job[q]
    BY OnlyJob DEF Signal, LifecycleCancel, requests, process
<1>2. \A q \in Runs : NoOutput(q)
    BY <1>1, SameStore
<1>3. /\ Told(r).pc = job[r].pc /\ Told(r).opened = job[r].opened
      /\ Sends(Told(r), output[r]) = Sends(job[r], output[r])
    BY ToldKeeps, KeptSends
<1>4. Quiet(r)
    BY <1>1, <1>3 DEF Quiet
<1>5. Output(r)'
    BY <1>2, <1>4, QuietStep
<1> QED
    BY <1>1, <1>2, <1>5, QuietElsewhere

LEMMA OutsideOutput ==
    ASSUME Inv, \A q \in Runs : Output(q), NEW r \in Runs,
           RequestCancel(r) \/ EditAnswer(r) \/ LeaseRunsOut(r)
    PROVE  \A q \in Runs : Output(q)'
<1>1. UNCHANGED <<job, output, orphans, starting, stopping, up>> /\ SP!Inv
    BY DEF RequestCancel, EditAnswer, LeaseRunsOut, requests, process, Inv
<1>2. CASE RequestCancel(r)
    BY <1>1, <1>2, CancelOutput, SameStore, AroundOutput DEF RequestCancel
<1>3. CASE EditAnswer(r)
    BY <1>1, <1>3, DropOutput, AroundOutput DEF EditAnswer, Store!DetachMessage
<1>4. CASE LeaseRunsOut(r)
    BY <1>1, <1>4, LeaseOutput, AroundOutput DEF LeaseRunsOut
<1> QED
    BY <1>2, <1>3, <1>4

-----------------------------------------------------------------------------
(* Requests, the sweeper and the process.                                   *)

LEMMA StartOutput ==
    ASSUME Inv, \A q \in Runs : Output(q), NEW r \in Runs, Start(r)
    PROVE  \A q \in Runs : Output(q)'
<1>1. /\ starting = r /\ starting' = None /\ None \notin Runs
      /\ UNCHANGED <<store, output, orphans, stopping, up>>
    BY StoreAssumption DEF Start, process
<1>2. (\A q \in Runs : NoOutput(q)) /\ (IsActive(r)' <=> IsActive(r)) /\ Chunked(r)' = Chunked(r)
      /\ ChunkEvents(r)' = ChunkEvents(r)
    BY <1>1, SameStore, SamePredicates DEF store, ChunkEvents
<1>3. CASE UNCHANGED job
    <2>1. Output(r)'
        BY <1>1, <1>2, <1>3 DEF Output
    <2> QED
        BY <1>1, <1>2, <1>3, <2>1, QuietElsewhere
<1>4. CASE ~stopping /\ job[r].pc = "none" /\ Becomes(r, [NoJob EXCEPT !.pc = "token"])
    <2> DEFINE k == [NoJob EXCEPT !.pc = "token"]
    <2>1. job'[r] = k /\ \A q \in Runs : q # r => job'[q] = job[q]
        BY <1>4, OnlyJob
    <2>2. k.pc = "token" /\ ~k.opened
        BY DEF NoJob
    <2> HIDE DEF k
    <2>3. IsActive(r) => Chunked(r) = 0 /\ Sends(k, output[r]) = 0
        BY <1>1, <1>4, <2>2 DEF Output, Sends
    <2>4. Output(r)'
        BY <1>1, <1>2, <1>4, <2>1, <2>2, <2>3 DEF Output
    <2> QED
        BY <1>1, <1>2, <2>1, <2>4, QuietElsewhere
<1> QED
    BY <1>3, <1>4 DEF Start, Registered

LEMMA CreatedOutput ==
    ASSUME Inv, \A q \in Runs : Output(q), NEW r \in Runs, Create(r)
    PROVE  \A q \in Runs : Output(q)'
<1>1. /\ starting = None /\ starting' = r /\ None \notin Runs /\ SP!Inv
      /\ UNCHANGED <<job, output, orphans, stopping, up>>
    BY StoreAssumption DEF Create, process, Inv
<1>2. CASE Store!CreateRun(r)
    <2>1. /\ ChunkEvents(r)' = {} /\ Chunked(r)' = 0
          /\ \A q \in Runs : q # r => NoOutput(q)
        BY <1>1, <1>2, CreateOutput
    <2>2. job[r].pc = "none" /\ orphans[r] = {}
        BY <1>1, <1>2, CreateMoves, AtFacts DEF RowAppears, RunInv, Registry
    <2>3. 0 \in Nat /\ Ordered(ChunkEvents(r)', 0)
        BY <2>1, NothingOrdered
    <2>4. Output(r)'
        BY <1>1, <2>1, <2>2, <2>3 DEF Output
    <2> QED
        BY <1>1, <2>1, <2>4, QuietElsewhere
<1>3. CASE Retried /\ runs[r].status = "queued" /\ UNCHANGED store
    <2>1. /\ (\A q \in Runs : NoOutput(q)) /\ (IsActive(r)' <=> IsActive(r)) /\ Chunked(r)' = Chunked(r)
          /\ ChunkEvents(r)' = ChunkEvents(r)
        BY <1>3, SameStore, SamePredicates DEF store, ChunkEvents
    <2>2. Chunked(r) = 0
        BY <1>3, AtFacts DEF RunInv, Unwritten, Chunked, Base
    <2>3. Output(r)'
        BY <1>1, <1>3, <2>1, <2>2 DEF Output
    <2> QED
        BY <1>1, <2>1, <2>3, QuietElsewhere
<1> QED
    BY <1>2, <1>3 DEF Create

LEMMA SweptOutput ==
    ASSUME Inv, \A q \in Runs : Output(q), Sweep \/ \E T \in SUBSET Threads : DeleteChats(T)
    PROVE  \A q \in Runs : Output(q)'
<1>1. UNCHANGED <<job, output, orphans, starting, stopping, up>> /\ SP!Inv
    BY DEF Sweep, DeleteChats, process, Inv
<1>2. CASE Sweep
    <2>1. Stale \in SUBSET Runs
        BY DEF Stale
    <2>2. \A q \in Runs : NoOutput(q)
        BY <1>1, <1>2, <2>1, ReconcileOutput, SameStore DEF Sweep, Fault
    <2> QED
        BY <1>1, <2>2, AroundOutput
<1>3. ASSUME NEW T \in SUBSET Threads, DeleteChats(T) PROVE \A q \in Runs : Output(q)'
    <2>1. PICK gone \in SUBSET Runs : Store!Drop(gone)
        BY <1>3 DEF DeleteChats, Store!DeleteThreads
    <2> QED
        BY <1>1, <2>1, DropOutput, AroundOutput
<1> QED
    BY <1>2, <1>3

LEMMA StopOutput ==
    ASSUME Inv, \A q \in Runs : Output(q), Stop, NEW q \in Runs
    PROVE  Output(q)'
<1> DEFINE j == job[q]
           k == job'[q]
<1>1. UNCHANGED <<store, output, orphans, starting, up>> /\ stopping' /\ NoOutput(q)
    BY SameStore DEF Stop
<1>2. Keeps(k, j) /\ k.pc = j.pc
    <2>1. k = IF j.pc # "none" THEN [Told(q) EXCEPT !.shut = TRUE] ELSE j
        BY DEF Stop, Live
    <2>2. CASE j.pc = "none"
        BY <2>1, <2>2 DEF Keeps
    <2>3. CASE j.pc # "none"
        <3>1. Edited(k, Told(q), Told(q).pc, Told(q).stop)
            BY <2>1, <2>3, ToldKeeps, EditShut
        <3> QED
            BY <3>1, ToldKeeps DEF Edited, Keeps
    <2> QED
        BY <2>2, <2>3
<1> HIDE DEF k
<1>3. Sends(k, output[q]) = Sends(j, output[q]) /\ k.opened = j.opened
    BY <1>2, KeptSends
<1>4. Quiet(q)
    BY <1>1, <1>2, <1>3 DEF Quiet, k
<1> QED
    BY <1>1, <1>4, QuietStep

LEMMA ProcessOutput ==
    ASSUME Inv, \A q \in Runs : Output(q), Exit \/ Boot, NEW q \in Runs
    PROVE  Output(q)'
<1>1. SP!Inv /\ None \notin Runs /\ Output(q) /\ Registry(q)
    BY StoreAssumption DEF Inv, RunInv
<1>2. /\ job'[q].pc = "none" /\ orphans'[q] = {} /\ starting' # q
    <2>1. CASE Exit
        BY <1>1, <2>1 DEF Exit, NoJob
    <2>2. CASE Boot
        BY <1>1, <2>2 DEF Boot, Registry, requests
    <2> QED
        BY <2>1, <2>2
<1>3. NoOutput(q) /\ (up' => MaxFaults # 0 \/ ~IsActive(q)')
    <2>1. CASE Exit
        BY <2>1, SameStore DEF Exit
    <2>2. CASE Boot /\ Fault
        BY <2>2, SameStore, BoundAssumption DEF Fault, Inv, Process
    <2>3. CASE Boot /\ ~Fault
        <3> DEFINE left == {r \in Runs : IsActive(r)}
        <3>1. IF left = {} THEN UNCHANGED store ELSE Store!ReconcileRuns(left)
            BY <2>3 DEF Boot
        <3>2. CASE left = {}
            <4>1. UNCHANGED store /\ ~IsActive(q)
                BY <3>1, <3>2
            <4> QED
                BY <4>1, SameStore, SamePredicates
        <3>3. CASE left # {}
            <4>1. left \in SUBSET Runs /\ Store!ReconcileRuns(left)
                BY <3>1, <3>3
            <4>2. q \in left <=> IsActive(q)
                OBVIOUS
            <4> HIDE DEF left
            <4>3. NoOutput(q) /\ IF q \in left THEN RowEnds(q) ELSE RowStays(q)
                BY <1>1, <4>1, ReconcileOutput, ReconcileMoves
            <4>4. ~IsActive(q)'
                BY <4>2, <4>3 DEF RowEnds, RowStays, IsTerminal, Store!IsTerminal, Store!TERMINAL_STATUSES,
                    IsActive, Store!IsActive, Store!ACTIVE_STATUSES
            <4> QED
                BY <4>3, <4>4
        <3> QED
            BY <3>2, <3>3
    <2> QED
        BY <2>1, <2>2, <2>3
<1>4. \E k \in Nat : Ordered(ChunkEvents(q)', k)
    BY <1>1, <1>3, NothingOrdered DEF Output, NoOutput, SameChunks
<1>5. IsActive(q)' => Ordered(ChunkEvents(q)', Chunked(q)')
    BY <1>1, <1>3 DEF Output, NoOutput, SameChunks
<1> QED
    BY <1>2, <1>3, <1>4, <1>5 DEF Output

-----------------------------------------------------------------------------
(* What the log of a run with one producer holds.                           *)

LEMMA OutputInit == Init => \A q \in Runs : Output(q)
<1> SUFFICES ASSUME Init, NEW q \in Runs PROVE Output(q)
    OBVIOUS
<1>1. ChunkEvents(q) = {} /\ ~IsActive(q) /\ job[q].pc = "none"
    BY DEF Init, Store!Init, ChunkEvents, IsActive, Store!IsActive, Store!ACTIVE_STATUSES, Store!NoRow, NoJob
<1>2. 0 \in Nat /\ Ordered({}, 0)
    BY NothingOrdered
<1> QED
    BY <1>1, <1>2 DEF Output

LEMMA OutputStep ==
    ASSUME OneWriter, Inv, \A q \in Runs : Output(q), [Next]_vars
    PROVE  \A q \in Runs : Output(q)'
<1>1. ASSUME NEW r \in Runs, Produce(r)
      PROVE  \A q \in Runs : Output(q)'
    <2>1. CASE Begin(r)
        BY <2>1, BeginQuiet
    <2>2. CASE Engine(r)
        BY <2>2, OpenOutput, EndQuiet, TakeOutput DEF Engine
    <2>3. CASE Renew(r)
        BY <2>3, RenewOutput
    <2>4. CASE Write(r)
        BY <2>4, StartWriteOutput, WriteOutput, SettleOutput DEF Write
    <2>5. CASE End(r)
        BY <2>5, SettleOutput, EndQuiet, FinishSteps DEF End
    <2>6. CASE Unwind(r)
        BY <2>6, UnwindOutput
    <2>7. CASE Orphan(r)
        BY <2>7, OrphanOutput
    <2> QED
        BY <1>1, <2>1, <2>2, <2>3, <2>4, <2>5, <2>6, <2>7 DEF Produce
<1>2. ASSUME NEW r \in Runs, Create(r) \/ Start(r) \/ StopRun(r) \/ EditAnswer(r) \/ LeaseRunsOut(r)
      PROVE  \A q \in Runs : Output(q)'
    BY <1>2, CreatedOutput, StartOutput, ForceOutput, ToldOutput, OutsideOutput DEF StopRun
<1>3. ASSUME (\E T \in SUBSET Threads : DeleteChats(T)) \/ Sweep \/ Stop \/ Exit \/ Boot
      PROVE  \A q \in Runs : Output(q)'
    BY <1>3, SweptOutput, StopOutput, ProcessOutput
<1>4. ASSUME (\E c \in Clients : Stream(c) \/ Disconnect(c)) \/ UNCHANGED vars
      PROVE  \A q \in Runs : Output(q)'
    <2>1. UNCHANGED <<store, job, output, orphans, starting, stopping, up>>
        BY <1>4 DEF Stream, Connect, ReadEvents, ReadState, Send, Disconnect, Follow, vars, requests, process
    <2> QED
        BY <2>1, SameStore, AroundOutput
<1> QED
    BY <1>1, <1>2, <1>3, <1>4 DEF Next

LEMMA OutputHolds ==
    ASSUME OneWriter
    PROVE  Spec => [](\A q \in Runs : Output(q))
<1>1. Init => \A q \in Runs : Output(q)
    BY OutputInit
<1>2. Inv /\ (\A q \in Runs : Output(q)) /\ [Next]_vars => (\A q \in Runs : Output(q))'
    BY OutputStep
<1> QED
    BY <1>1, <1>2, InvHolds, PTL DEF Spec

(* A producer that ends its run itself does it with finish_run.             *)
LEMMA EndsByFinish ==
    ASSUME Inv, [Next]_vars, NEW r \in Runs, job[r].pc # "unwind", job'[r].pc = "unwind",
           IsActive(r), ~IsActive(r)'
    PROVE  (At(r, "finish") \/ At(r, "settle")) /\ CallFinish(r, job[r].plan, job[r].pending)
<1>1. ~UNCHANGED store /\ job[r] \in Job
    BY SamePredicates, AtFacts
<1>2. job' # job
    OBVIOUS
<1>3. ASSUME NEW q \in Runs, Produce(q), q # r PROVE FALSE
    <2>1. job' = job \/ \E k : Becomes(q, k)
        BY <1>3 DEF Produce, Begin, Engine, Write, End, GetToken, Gate, MarkRunning, Reread, Open, EngineRaises,
            TakeChunk, EndStream, Renew, StartWrite, WriteLands, ObserveWrite, Drain, ReadStatus, Finish, Catch,
            SettleCaught, Unwind, Orphan, To, ToFinish
    <2> QED
        BY <1>2, <1>3, <2>1, OnlyJob
<1>4. ASSUME Begin(r) PROVE FALSE
    <2>1. CASE Store!MarkRunning(r) /\ To(r, "reread")
        <3>1. Edited([job[r] EXCEPT !.pc = "reread"], job[r], "reread", job[r].stop)
            BY <1>1, EditPc DEF Pcs
        <3> QED
            BY <2>1, <3>1, OnlyJob DEF To, Edited
    <2> QED
        BY <1>1, <1>4, <2>1 DEF Begin, GetToken, Gate, MarkRunning, Marked, Reread, NoCall, Fault
<1>5. ASSUME Engine(r) PROVE FALSE
    BY <1>1, <1>5 DEF Engine, Open, EngineRaises, TakeChunk, EndStream, NoCall
<1>6. ASSUME Renew(r) \/ WriteLands(r) PROVE FALSE
    <2>1. CASE Renew(r)
        <3>1. Becomes(r, [job[r] EXCEPT !.beats = job[r].beats + 1])
            BY <2>1 DEF Renew
        <3>2. [job[r] EXCEPT !.beats = job[r].beats + 1].pc = job[r].pc
            BY <1>1, JobSet
        <3> QED
            BY <3>1, <3>2, OnlyJob
    <2>2. CASE WriteLands(r)
        <3>1. PICK wtask : Becomes(r, [job[r] EXCEPT !.wtask = wtask])
            BY <2>2 DEF WriteLands
        <3>2. [job[r] EXCEPT !.wtask = wtask].pc = job[r].pc
            BY <1>1, JobSet
        <3> QED
            BY <3>1, <3>2, OnlyJob
    <2> QED
        BY <1>6, <2>1, <2>2
<1>7. ASSUME StartWrite(r) \/ ObserveWrite(r) \/ Drain(r) \/ ReadStatus(r) \/ Catch(r) \/ Unwind(r) \/ Orphan(r)
      PROVE  FALSE
    BY <1>1, <1>2, <1>7 DEF StartWrite, ObserveWrite, Drain, ReadStatus, Catch, Unwind, Orphan, NoCall, Fault
<1>8. ASSUME Finish(r) \/ SettleCaught(r)
      PROVE  (At(r, "finish") \/ At(r, "settle")) /\ CallFinish(r, job[r].plan, job[r].pending)
    BY <1>1, <1>8 DEF Finish, SettleCaught, Fault
<1>9. ASSUME NEW q \in Runs, Create(q) \/ Start(q) \/ StopRun(q) \/ EditAnswer(q) \/ LeaseRunsOut(q)
      PROVE  FALSE
    BY <1>1, <1>2, <1>9 DEF Create, Start, StopRun, ForceCancel, Signal, LifecycleCancel, RequestCancel, EditAnswer,
        LeaseRunsOut
<1>10. ASSUME (\E T \in SUBSET Threads : DeleteChats(T)) \/ Sweep \/ Stop \/ Exit \/ Boot
       PROVE  FALSE
    BY <1>1, <1>2, <1>10 DEF DeleteChats, Sweep, Stop, Exit, Boot
<1>11. ASSUME (\E c \in Clients : Stream(c) \/ Disconnect(c)) \/ UNCHANGED vars
       PROVE  FALSE
    BY <1>2, <1>11 DEF Stream, Connect, ReadEvents, ReadState, Send, Disconnect, Follow, vars
<1> QED
    BY <1>3, <1>4, <1>5, <1>6, <1>7, <1>8, <1>9, <1>10, <1>11 DEF Next, Produce, Write, End

(* OutputInOrder: the chunks in a run's log are the engine's, from the      *)
(* first on, none lost in between and none twice, for any output and after  *)
(* any appends that fail, land late, are cancelled or are overtaken by the  *)
(* end of the run, unless two producers write for one run.                  *)
THEOREM OutputInOrderHolds ==
    ASSUME OneWriter
    PROVE  Spec => []OutputInOrder
<1>1. Inv /\ (\A q \in Runs : Output(q)) => OutputInOrder
    <2> SUFFICES ASSUME Inv, \A q \in Runs : Output(q), NEW r \in Runs
                 PROVE  \A e \in ChunkEvents(r) : e.n = Cardinality({d \in ChunkEvents(r) : d.seq <= e.seq})
        BY DEF OutputInOrder
    <2>1. PICK k \in Nat : Ordered(ChunkEvents(r), k)
        BY DEF Output
    <2>2. /\ \A d, e \in ChunkEvents(r) : d.seq = e.seq => d = e
          /\ \A e \in ChunkEvents(r) : e.seq \in Int
        BY ChunkFacts DEF Inv
    <2> QED
        BY <2>1, <2>2, OrderedCount
<1> QED
    BY <1>1, OutputHolds, InvHolds, PTL

(* NothingLeftBehind: a producer that ends its run itself has put in the    *)
(* log all it took from the engine, also when it was cancelled in the       *)
(* middle of an append or an append failed.                                 *)
THEOREM NothingLeftBehindHolds ==
    ASSUME OneWriter
    PROVE  Spec => NothingLeftBehind
<1> DEFINE Flushed(r) ==
        job[r].opened /\ job[r].pc # "unwind" /\ IsActive(r) /\ IsTerminal(r)' /\ job'[r].pc = "unwind"
        => Cardinality(ChunkEvents(r)') = output[r]
<1>1. Inv /\ (\A q \in Runs : Output(q)) /\ [Next]_vars => \A r \in Runs : Flushed(r)
    <2> SUFFICES ASSUME Inv, \A q \in Runs : Output(q), [Next]_vars, NEW r \in Runs,
                        job[r].opened, job[r].pc # "unwind", IsActive(r), IsTerminal(r)', job'[r].pc = "unwind"
                 PROVE  Cardinality(ChunkEvents(r)') = output[r]
        OBVIOUS
    <2>1. ~IsActive(r)'
        BY DEF IsActive, Store!IsActive, Store!ACTIVE_STATUSES, IsTerminal, Store!IsTerminal, Store!TERMINAL_STATUSES
    <2>2. (At(r, "finish") \/ At(r, "settle")) /\ CallFinish(r, job[r].plan, job[r].pending)
        BY <2>1, EndsByFinish
    <2>3. PICK k \in Nat : Ordered(ChunkEvents(r)', k) /\ k = output[r]
        BY <2>2, FlushedOutput
    <2>4. PICK C : C = ChunkEvents(r)'
        OBVIOUS
    <2>5. SP!Inv'
        BY InvNext DEF Inv
    <2>6. (\A d, e \in C : d.seq = e.seq => d = e) /\ \A e \in C : e.seq \in Int
        <3>1. \A d, e \in events'[r] : d.seq = e.seq => d = e
            BY <2>5 DEF SP!Inv, SP!LogGapless
        <3>2. events'[r] \subseteq SP!Event
            BY <2>5 DEF SP!Inv, SP!TypeOK
        <3> QED
            BY <2>4, <3>1, <3>2 DEF ChunkEvents, SP!Event
    <2> QED
        BY <2>3, <2>4, <2>6, OrderedCount
<1> QED
    BY <1>1, OutputHolds, InvHolds, PTL DEF Spec, NothingLeftBehind
=============================================================================
