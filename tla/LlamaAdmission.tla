--------------------------- MODULE LlamaAdmission ---------------------------
(***************************************************************************)
(* LlamaAdmissionQueue and LlamaAdmissionLease                              *)
(* (core/inference/llama_admission.py): who may use the slots and the cache *)
(* of one llama-server, with the requests of routes/inference.py that wait  *)
(* for a slot, give it up while a tool call waits for approval (park), take *)
(* another one when it is answered, and grow from round to round (recost).  *)
(*                                                                          *)
(* A request makes one reservation and has one lease.  "at" is where its    *)
(* coroutine, or the thread that runs its rounds, is.  A step is what runs  *)
(* under the lock of the lease or of the queue; where the code holds the    *)
(* first one and takes the second, the step is both.  release() may be      *)
(* called while another thread of the request is anywhere.                  *)
(***************************************************************************)
EXTENDS Integers, Sequences, FiniteSets, SequencesExt

CONSTANTS
    Clients,        \* requests
    Capacities,     \* effective_parallel_slots a reservation may be made with
    Budget,         \* tokens of the cache
    Cost,           \* the estimate a request is reserved with
    Wants,          \* what a round may ask for (recost)
    MaxParked,      \* _max_parked
    QueuePerSlot,   \* queue_per_slot: the line is this times the slots
    MaxRounds,      \* bound: times a request parks or grows
    None

Slots == 0..(Max(Capacities) - 1)

ASSUME CapacityAssumption == Capacities \subseteq Nat \ {0} /\ IsFiniteSet(Capacities) /\ Capacities # {}
ASSUME TokensAssumption ==
    Budget \in Nat \ {0} /\ Cost \in [Clients -> Nat] /\ Wants \subseteq Nat
ASSUME BoundAssumption == MaxParked \in Nat /\ QueuePerSlot \in Nat \ {0} /\ MaxRounds \in Nat
ASSUME NoneAssumption == None \notin Nat
ASSUME ClientsAssumption == IsFiniteSet(Clients)

VARIABLES
    queue,  \* the LlamaAdmissionQueue
    parks,  \* _parked_total of the process
    lease,  \* the LlamaAdmissionLease of each request
    at,     \* where each request is
    hand,   \* what a thread of the request has between two locks
    rounds  \* times a request parked or grew

vars == <<queue, parks, lease, at, hand, rounds>>

Positions ==
    {"away", "queued", "granted", "holding",    \* a granted lease is not delivered yet
     "parked", "erasing", "unwatched",          \* waiting for an approval
     "resuming", "took",                        \* unpark_async
     "yielding", "waiting", "reclaimed",        \* recost_waiting
     "leaving", "gone"}

NoLease == [slot |-> None, tokens |-> 0, parkedTokens |-> 0, parked |-> FALSE, budgeted |-> FALSE,
            released |-> FALSE,
            returning |-> "no"]     \* release(): what the queue is still to be told
NewLease(slot, tokens) == [NoLease EXCEPT !.slot = slot, !.tokens = tokens]
Empty == [slot |-> None, tokens |-> 0, want |-> 0]

Init ==
    /\ queue = [capacity |-> 1, free |-> {0}, inUse |-> {}, committed |-> 0,
                waiters |-> <<>>, tickets |-> <<>>, lapsed |-> {},
                parked |-> 0, reclaimable |-> [c \in Clients |-> 0], reparking |-> 0]
    /\ parks = 0
    /\ lease = [c \in Clients |-> NoLease]
    /\ at = [c \in Clients |-> "away"]
    /\ hand = [c \in Clients |-> Empty]
    /\ rounds = [c \in Clients |-> 0]

Minus(m, n) == IF m > n THEN m - n ELSE 0
SumOf(f, S) == MapThenSumSet(LAMBDA c : f[c], S)

-----------------------------------------------------------------------------
(* The queue, under its lock                                                *)

(* A request fits an empty cache whatever it asks for.  Variant: without    *)
(* the tokens that are asked for.                                           *)
FitsSoFar(committed, tokens) == tokens = 0 \/ committed = 0 \/ committed <= Budget
FitsAgainst(committed, tokens) ==
    tokens = 0 \/ committed = 0 \/ committed + tokens <= Budget

(* A resume that has waited too long keeps no tokens from others.           *)
TicketTokens(c) == hand[c].tokens
ReservedTokens(q) == SumOf([c \in Clients |-> TicketTokens(c)], ToSet(q.tickets) \ q.lapsed)

HasSlot(q, reserved) == q.free # {} /\ Cardinality(q.inUse) + reserved < q.capacity
CanAdmit(q, reserved, tokens, reservedTokens) ==
    HasSlot(q, reserved) /\ FitsAgainst(q.committed + reservedTokens, tokens)

SlotTaken(q, slot, tokens) ==
    [q EXCEPT !.free = @ \ {slot}, !.inUse = @ \cup {slot}, !.committed = @ + tokens]
(* A slot past a shrunk capacity retires.                                   *)
SlotReleased(q, slot) ==
    [q EXCEPT !.free = IF slot \in q.inUse /\ slot < q.capacity THEN @ \cup {slot} ELSE @,
              !.inUse = @ \ {slot}]
TokensReturned(q, tokens) == [q EXCEPT !.committed = Minus(@, tokens)]
(* _resize_pool_locked                                                      *)
Resized(q, capacity) ==
    IF capacity = q.capacity THEN q
    ELSE [q EXCEPT !.capacity = capacity, !.free = (0..(capacity - 1)) \ q.inUse]

(* _grant_waiters_locked: from the head of the line, for as long as the     *)
(* next one fits beside those before it and those whose approval came.      *)
First(q, k) == {q.waiters[i] : i \in 1..k}
MayGrant(q, k) ==
    \A i \in 1..k :
        /\ i <= Cardinality(q.free)
        /\ Cardinality(q.inUse) + i - 1 + Len(q.tickets) < q.capacity
        /\ FitsAgainst(q.committed + SumOf(Cost, First(q, i - 1)) + ReservedTokens(q), Cost[q.waiters[i]])
(* A pending repark closes the line.                                        *)
Grants(q) ==
    {k \in 0..Len(q.waiters) :
        IF q.reparking > 0 THEN k = 0
        ELSE MayGrant(q, k) /\ (k < Len(q.waiters) => ~MayGrant(q, k + 1))}
Granted(q, slots) ==
    LET served == DOMAIN slots
    IN  [q EXCEPT !.free = @ \ {slots[c] : c \in served}, !.inUse = @ \cup {slots[c] : c \in served},
                  !.committed = @ + SumOf(Cost, served),
                  !.waiters = SubSeq(@, Cardinality(served) + 1, Len(@))]

(* Every operation of the queue ends with it: the queue q, the leases l and *)
(* the positions p it left, and whoever can be served now.                  *)
GrantWaiters(q, l, p) ==
    \E k \in Grants(q) : \E slots \in Injection(First(q, k), q.free) :
        /\ queue' = Granted(q, slots)
        /\ lease' = [c \in Clients |-> IF c \in DOMAIN slots THEN NewLease(slots[c], Cost[c]) ELSE l[c]]
        /\ at' = [c \in Clients |-> IF c \in DOMAIN slots THEN "granted" ELSE p[c]]

(* _ticket_position_locked: the tickets before the i-th keep their tokens   *)
(* from it, and a slot if they can afford them.                             *)
TokensAhead(q, i) == SumOf([c \in Clients |-> TicketTokens(c)], ToSet(SubSeq(q.tickets, 1, i - 1)) \ q.lapsed)
(* Variant: a bare count of the others.                                     *)
OtherTickets(q, i) == Len(q.tickets) - 1
Ahead(q, i) ==
    Cardinality({j \in 1..(i - 1) :
        FitsAgainst(q.committed + TokensAhead(q, j), TicketTokens(q.tickets[j]))})

(* _claimants_locked: who could use what a parked request holds.            *)
Claimants(q) ==
    {[tokens |-> TicketTokens(q.tickets[i]), ahead |-> Ahead(q, i), reserved |-> TokensAhead(q, i)] :
        i \in 1..Len(q.tickets)}
    \cup {[tokens |-> Cost[q.waiters[i]], ahead |-> Len(q.tickets), reserved |-> ReservedTokens(q)] :
        i \in 1..Len(q.waiters) \cap {1}}
ReclaimWouldAdmit(q) ==
    /\ q.reparking = 0
    /\ \E w \in Claimants(q) :
        /\ HasSlot(q, w.ahead)
        /\ ~CanAdmit(q, w.ahead, w.tokens, w.reserved)
        /\ FitsAgainst(Minus(q.committed, SumOf(q.reclaimable, Clients)) + w.reserved, w.tokens)

Moved(c, position) == [at EXCEPT ![c] = position]
Leases(c, l) == [lease EXCEPT ![c] = l]
Holds(c, h) == hand' = [hand EXCEPT ![c] = h]
Live(c) == ~lease[c].released
Round(c) == rounds[c] < MaxRounds /\ rounds' = [rounds EXCEPT ![c] = @ + 1]

-----------------------------------------------------------------------------
(* Waiting for a lease                                                      *)

(* Variant: the newcomer goes to the head.                                  *)
AtTheHead(q, c) == [q EXCEPT !.waiters = <<c>> \o @]
InLine(q, c) == [q EXCEPT !.waiters = Append(@, c)]
(* reserve: those who wait are served first, then the newcomer when nobody  *)
(* waits any more, which is to stand last in the line.                      *)
Reserve(c, capacity) ==
    LET q == Resized(queue, capacity)
    IN  /\ at[c] = "away"
        /\ \E k \in Grants(q) :
            IF Len(q.waiters) - k < QueuePerSlot * capacity
            THEN GrantWaiters(InLine(q, c), lease, Moved(c, "queued"))
            ELSE GrantWaiters(q, lease, Moved(c, "gone"))
        /\ UNCHANGED <<parks, hand, rounds>>

(* _deliver_lease                                                           *)
Deliver(c) ==
    /\ at[c] = "granted"
    /\ at' = Moved(c, "holding")
    /\ UNCHANGED <<queue, parks, lease, hand, rounds>>

(* cancel, by Stop, a disconnect or the queue's timeout.                    *)
Cancel(c) ==
    /\ \/ \E i \in 1..Len(queue.waiters) :
            /\ queue.waiters[i] = c
            /\ GrantWaiters([queue EXCEPT !.waiters = RemoveAt(@, i)], lease, Moved(c, "gone"))
       \/ /\ at[c] = "granted"
          /\ GrantWaiters(TokensReturned(SlotReleased(queue, lease[c].slot), lease[c].tokens),
                          Leases(c, [NoLease EXCEPT !.released = TRUE]), Moved(c, "gone"))
    /\ UNCHANGED <<parks, hand, rounds>>

-----------------------------------------------------------------------------
(* Parking                                                                  *)

(* park: the slot goes, the tokens stay; refused, the slot is kept.  The    *)
(* cache of a park is watched when its slot at llama-server is known.       *)
Park(c) ==
    /\ at[c] = "holding" /\ Live(c)
    /\ Round(c)
    /\ parks < MaxParked
    /\ parks' = parks + 1
    /\ \E watch \in {"parked", "unwatched"} :
        GrantWaiters([SlotReleased(queue, lease[c].slot) EXCEPT
                        !.parked = @ + 1, !.reclaimable[c] = lease[c].tokens],
                     Leases(c, [lease[c] EXCEPT !.slot = None, !.parked = TRUE, !.budgeted = TRUE]),
                     Moved(c, watch))
    /\ UNCHANGED hand

(* _reclaim_approval_cache: the cells are erased at llama-server when that  *)
(* would let somebody in.                                                   *)
Erase(c) ==
    /\ at[c] = "parked"
    /\ Live(c) /\ lease[c].parked /\ lease[c].tokens > 0
    /\ ReclaimWouldAdmit(queue)
    /\ at' = Moved(c, "erasing")
    /\ UNCHANGED <<queue, parks, lease, hand, rounds>>
(* release_parked_cache, when llama-server confirmed.                       *)
Erased(c) ==
    /\ at[c] = "erasing"
    /\ IF Live(c) /\ lease[c].parked
       THEN GrantWaiters([TokensReturned(queue, lease[c].tokens) EXCEPT !.reclaimable[c] = 0],
                         Leases(c, [lease[c] EXCEPT !.tokens = 0, !.parkedTokens = @ + lease[c].tokens]),
                         Moved(c, "unwatched"))
       ELSE at' = Moved(c, "unwatched") /\ UNCHANGED <<queue, lease>>
    /\ UNCHANGED <<parks, hand, rounds>>
EraseFails(c) ==
    /\ at[c] = "erasing"
    /\ at' = Moved(c, "unwatched")
    /\ UNCHANGED <<queue, parks, lease, hand, rounds>>

(* _drop_budget                                                             *)
ParksWithout(c) == IF lease[c].budgeted THEN Minus(parks, 1) ELSE parks
Unparked(q, c) == [q EXCEPT !.parked = Minus(@, 1), !.reclaimable[c] = 0]

(* The answer came: unpark_async takes a ticket.  It waits for an erasure   *)
(* that is being sent (_settle_reclaim_watch).                              *)
Resume(c) ==
    /\ at[c] \in {"parked", "unwatched"}
    /\ Live(c) /\ lease[c].parked
    /\ parks' = ParksWithout(c)
    /\ lease' = Leases(c, [lease[c] EXCEPT !.budgeted = FALSE])
    /\ queue' = [queue EXCEPT !.tickets = Append(@, c)]
    /\ Holds(c, [Empty EXCEPT !.tokens = lease[c].parkedTokens])
    /\ at' = Moved(c, "resuming")
    /\ UNCHANGED rounds

WithoutTicket(q, i) ==
    [q EXCEPT !.tickets = RemoveAt(@, i), !.lapsed = @ \ {q.tickets[i]}]
(* acquire_parked_slot: the slot and, right after it, the ticket.           *)
TakeSlot(c) ==
    /\ \E i \in 1..Len(queue.tickets) :
        /\ queue.tickets[i] = c
        /\ CanAdmit(queue, Ahead(queue, i), TicketTokens(c), TokensAhead(queue, i))
        /\ \E slot \in queue.free :
            /\ GrantWaiters(WithoutTicket(SlotTaken(queue, slot, TicketTokens(c)), i), lease, Moved(c, "took"))
            /\ Holds(c, [hand[c] EXCEPT !.slot = slot])
    /\ UNCHANGED <<parks, rounds>>
(* Stop was pressed, or the lease was released.                             *)
LeaveLine(c) ==
    /\ \E i \in 1..Len(queue.tickets) :
        /\ queue.tickets[i] = c
        /\ ~CanAdmit(queue, Ahead(queue, i), TicketTokens(c), TokensAhead(queue, i))
        /\ GrantWaiters(WithoutTicket(queue, i), lease, Moved(c, "took"))
    /\ UNCHANGED <<parks, hand, rounds>>
(* Its deadline passes: it keeps no tokens from others any more.            *)
Lapse(c) ==
    /\ at[c] = "resuming" /\ c \notin queue.lapsed
    /\ GrantWaiters([queue EXCEPT !.lapsed = @ \cup {c}], lease, at)
    /\ UNCHANGED <<parks, hand, rounds>>

TakenBack(c) ==
    IF hand[c].slot = None THEN queue
    ELSE TokensReturned(SlotReleased(queue, hand[c].slot), hand[c].tokens)
(* The end of unpark_async: release() may have run during the wait, and     *)
(* then what was taken goes back.  Without a slot the run is being stopped. *)
Resumed(c) ==
    /\ at[c] = "took"
    /\ Holds(c, Empty)
    /\ IF lease[c].released
       THEN GrantWaiters(TakenBack(c), lease, Moved(c, "gone"))
       ELSE /\ queue' = Unparked(queue, c)
            /\ lease' = Leases(c, IF hand[c].slot = None
                                  THEN [lease[c] EXCEPT !.parked = FALSE]
                                  ELSE [lease[c] EXCEPT !.parked = FALSE, !.slot = hand[c].slot,
                                                        !.tokens = @ + hand[c].tokens, !.parkedTokens = 0])
            /\ at' = Moved(c, IF hand[c].slot = None THEN "leaving" ELSE "holding")
    /\ UNCHANGED <<parks, rounds>>

(* unpark, of a stream that is torn down while its call is parked.          *)
Teardown(c) ==
    /\ at[c] \in {"parked", "erasing", "unwatched"}
    /\ lease[c].parked
    /\ parks' = ParksWithout(c)
    /\ lease' = Leases(c, [lease[c] EXCEPT !.parked = FALSE, !.budgeted = FALSE])
    /\ queue' = Unparked(queue, c)
    /\ at' = Moved(c, "leaving")
    /\ UNCHANGED <<hand, rounds>>

-----------------------------------------------------------------------------
(* Growing                                                                  *)

(* try_recost; a request that is alone may go past the budget.              *)
Alone(c) == queue.committed <= lease[c].tokens
GrowthFits(c, want) == Alone(c) \/ queue.committed + want - lease[c].tokens <= Budget
Recost(c, want) ==
    /\ at[c] = "holding" /\ Live(c) /\ want # lease[c].tokens
    /\ Round(c)
    /\ LET recosted == Leases(c, [lease[c] EXCEPT !.tokens = want])
       IN  \/ /\ want < lease[c].tokens
              /\ GrantWaiters(TokensReturned(queue, lease[c].tokens - want), recosted, at)
              /\ UNCHANGED hand
           \/ /\ want > lease[c].tokens /\ GrowthFits(c, want)
              /\ queue' = [queue EXCEPT !.committed = @ + want - lease[c].tokens]
              /\ lease' = recosted
              /\ UNCHANGED <<at, hand>>
           \/ /\ want > lease[c].tokens /\ ~GrowthFits(c, want)
              /\ Holds(c, [Empty EXCEPT !.tokens = lease[c].tokens, !.want = want])
              /\ lease' = Leases(c, [lease[c] EXCEPT !.tokens = 0])
              /\ at' = Moved(c, "yielding")
              /\ UNCHANGED queue
    /\ UNCHANGED parks

(* yield_commitment                                                         *)
Yield(c) ==
    /\ at[c] = "yielding"
    /\ GrantWaiters([TokensReturned(queue, hand[c].tokens) EXCEPT !.reparking = @ + 1],
                    lease, Moved(c, "waiting"))
    /\ UNCHANGED <<parks, hand, rounds>>

WantFits(c) == FitsAgainst(queue.committed, hand[c].want)
EndRepark(q) == [q EXCEPT !.reparking = Minus(@, 1)]
(* try_reclaim_commitment                                                   *)
Reclaim(c) ==
    /\ at[c] = "waiting" /\ WantFits(c)
    /\ GrantWaiters(EndRepark([queue EXCEPT !.committed = @ + hand[c].want]), lease, Moved(c, "reclaimed"))
    /\ UNCHANGED <<parks, hand, rounds>>
(* Variant: a released lease's growth stays committed.                      *)
GrowthStays(c) == queue
GrowthBack(c) == TokensReturned(queue, hand[c].want)
(* The end of recost_waiting: release() gave back nothing of it.            *)
Grown(c) ==
    /\ at[c] = "reclaimed"
    /\ Holds(c, Empty)
    /\ IF lease[c].released
       THEN GrantWaiters(GrowthBack(c), lease, Moved(c, "gone"))
       ELSE /\ lease' = Leases(c, [lease[c] EXCEPT !.tokens = hand[c].want])
            /\ at' = Moved(c, "holding")
            /\ UNCHANGED queue
    /\ UNCHANGED <<parks, rounds>>
(* The lease was released; or, by Stop or the timeout, _give_up_repark      *)
(* takes back what it held, whether it fits or not.                         *)
GiveUp(c) ==
    /\ at[c] = "waiting" /\ ~WantFits(c)
    /\ Holds(c, Empty)
    /\ IF lease[c].released
       THEN GrantWaiters(EndRepark(queue), lease, Moved(c, "gone"))
       ELSE GrantWaiters(EndRepark([queue EXCEPT !.committed = @ + hand[c].tokens]),
                         Leases(c, [lease[c] EXCEPT !.tokens = hand[c].tokens]), Moved(c, "holding"))
    /\ UNCHANGED <<parks, rounds>>

-----------------------------------------------------------------------------
(* release: the lease is marked under its own lock; the queue is told after *)
(* it.  A thread that is between two locks finds out by itself.             *)

Release(c) ==
    /\ at[c] \notin {"away", "queued", "granted", "gone"} /\ Live(c)
    /\ parks' = ParksWithout(c)
    /\ lease' = Leases(c, [lease[c] EXCEPT !.released = TRUE, !.parked = FALSE, !.budgeted = FALSE,
                                           !.returning = IF lease[c].parked THEN "parked" ELSE "lease"])
    /\ UNCHANGED <<queue, at, hand, rounds>>

Finished(c) ==
    IF at[c] \in {"holding", "parked", "erasing", "unwatched", "leaving"} THEN Moved(c, "gone") ELSE at
Return(c) ==
    /\ lease[c].returning # "no"
    /\ LET q == IF lease[c].returning = "parked" THEN Unparked(queue, c) ELSE queue
       IN  GrantWaiters(TokensReturned(SlotReleased(q, lease[c].slot), lease[c].tokens),
                        Leases(c, [NoLease EXCEPT !.released = TRUE]), Finished(c))
    /\ UNCHANGED <<parks, hand, rounds>>

-----------------------------------------------------------------------------
Wait(c) == (\E capacity \in Capacities : Reserve(c, capacity)) \/ Deliver(c) \/ Cancel(c)
Approval(c) ==
    Park(c) \/ Erase(c) \/ Erased(c) \/ EraseFails(c) \/ Resume(c) \/ TakeSlot(c) \/ LeaveLine(c)
    \/ Lapse(c) \/ Resumed(c) \/ Teardown(c)
Growth(c) == (\E want \in Wants : Recost(c, want)) \/ Yield(c) \/ Reclaim(c) \/ Grown(c) \/ GiveUp(c)

Next == \E c \in Clients : Wait(c) \/ Approval(c) \/ Growth(c) \/ Release(c) \/ Return(c)

Spec == Init /\ [][Next]_vars

-----------------------------------------------------------------------------
Queue ==
    [capacity : {1} \cup Capacities, free : SUBSET Slots, inUse : SUBSET Slots, committed : Nat,
     waiters : Seq(Clients), tickets : Seq(Clients), lapsed : SUBSET Clients,
     parked : Nat, reclaimable : [Clients -> Nat], reparking : Nat]
Lease ==
    [slot : Slots \cup {None}, tokens : Nat, parkedTokens : Nat, parked : BOOLEAN, budgeted : BOOLEAN,
     released : BOOLEAN, returning : {"no", "lease", "parked"}]

(* Type invariant.                                                          *)
TypeOK ==
    /\ queue \in Queue
    /\ parks \in 0..MaxParked
    /\ lease \in [Clients -> Lease]
    /\ at \in [Clients -> Positions]
    /\ hand \in [Clients -> [slot : Slots \cup {None}, tokens : Nat, want : Nat]]
    /\ rounds \in [Clients -> 0..MaxRounds]

(* A slot is in use by exactly one request, which has it in its lease or in *)
(* the hand of the thread that is resuming it, and the free ones are the    *)
(* others, whatever is released, cancelled, parked or resized when.         *)
Held(c) == {lease[c].slot, hand[c].slot} \ {None}
SlotsOwned ==
    /\ queue.inUse = UNION {Held(c) : c \in Clients}
    /\ \A c, d \in Clients : c # d => Held(c) \cap Held(d) = {}
    /\ \A c \in Clients : lease[c].slot # None => hand[c].slot = None
    /\ queue.free = (0..(queue.capacity - 1)) \ queue.inUse

(* What is committed is what the requests hold, including what a thread of  *)
(* theirs is giving back or has just been given; the parked, their share of *)
(* the executor, their reclaimable tokens and the reparking are counted as  *)
(* often as they are there.  So nothing is left when everybody has gone.    *)
Tokens(c) ==
    lease[c].tokens + CASE at[c] = "yielding" -> hand[c].tokens
                        [] at[c] = "reclaimed" -> hand[c].want
                        [] at[c] = "took" /\ hand[c].slot # None -> hand[c].tokens
                        [] OTHER -> 0
CountsExact ==
    LET parked == {c \in Clients : lease[c].parked \/ lease[c].returning = "parked"}
    IN  /\ queue.committed = SumOf([c \in Clients |-> Tokens(c)], Clients)
        /\ queue.parked = Cardinality(parked)
        /\ queue.reclaimable = [c \in Clients |-> IF c \in parked THEN lease[c].tokens ELSE 0]
        /\ parks = Cardinality({c \in Clients : lease[c].budgeted})
        /\ queue.reparking = Cardinality({c \in Clients : at[c] = "waiting"})

(* The queue's books agree with what the requests hold.                     *)
Consistent == TypeOK /\ SlotsOwned /\ CountsExact

(* "The claim never admits over budget": what is committed grows past the   *)
(* cache only for a request that has all of it to itself, or when a repark  *)
(* that is given up takes back what it held.                                *)
GaveUp(c) == at[c] = "waiting" /\ at'[c] = "holding"
CommitFits ==
    [][queue'.committed > queue.committed =>
            \/ queue'.committed <= Budget
            \/ Cardinality({c \in Clients : Tokens(c)' > 0}) <= 1
            \/ \E c \in Clients : GaveUp(c)]_vars

(* Nobody is overtaken: a lease is granted only when those who came before  *)
(* have theirs or have gone, also to a newcomer who finds a slot free.      *)
NoOvertaking ==
    [][\A c, d \in Clients :
            /\ at[c] = "queued" /\ at'[c] = "queued"
            /\ at'[d] = "granted" /\ at[d] # "granted"
            => /\ at[d] = "queued"
               /\ \E i, j \in 1..Len(queue.waiters) :
                    queue.waiters[i] = d /\ queue.waiters[j] = c /\ i < j]_vars

-----------------------------------------------------------------------------
(* Liveness: a round ends, a user answers or the approval expires, a poll   *)
(* comes back, a repark is given up at its deadline, callbacks run.         *)
Polls(c) == TakeSlot(c) \/ Lapse(c) \/ (lease[c].released /\ LeaveLine(c))
Fairness ==
    \A c \in Clients :
        /\ WF_vars(Deliver(c)) /\ WF_vars(Erased(c) \/ EraseFails(c)) /\ WF_vars(Resume(c) \/ Teardown(c))
        /\ WF_vars(Polls(c)) /\ WF_vars(Resumed(c))
        /\ WF_vars(Yield(c)) /\ WF_vars(Reclaim(c) \/ GiveUp(c)) /\ WF_vars(Grown(c))
        /\ WF_vars(at[c] \in {"holding", "leaving"} /\ Release(c)) /\ WF_vars(Return(c))
FairSpec == Spec /\ Fairness

(* Everybody is served and leaves: parked, growing and arriving requests    *)
(* never wait on each other forever ("the queue drains").                   *)
Busy(c) == at[c] \notin {"away", "gone"} \/ lease[c].returning # "no"
Drains == []<>(\A c \in Clients : ~Busy(c))
=============================================================================
