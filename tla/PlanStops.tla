------------------------------ MODULE PlanStops -------------------------------
(* What a stop on a plan, or on the conversation a plan belongs to, does to the *)
(* plan's status: the plan reads as parked, in its column and in its spec, and  *)
(* one stop in force keeps how to put it back.  Stops overlap and are lifted in *)
(* any order, while you, the settle, hand-overs and complaints go on writing    *)
(* the status.  One conversation, its plans, at the engine's top level.         *)
EXTENDS Naturals, Sequences, FiniteSets, FiniteSetsExt, SequencesExt

CONSTANTS
    Plans,     \* the plans of the conversation,
    Conv,      \* the conversation, as what a stop is on
    MaxStops   \* bound: stops in force at once

ASSUME PlanStopsAssumption == IsFiniteSet(Plans) /\ Conv \notin Plans /\ MaxStops \in Nat

VARIABLES
    plans,   \* tasks
    stops,   \* the holds in force, in the order they were made
    home,    \* whether the conversation still is
    astray   \* the plans parked before there were stops, or reopened under one (history)

vars == <<plans, stops, home, astray>>

Status == {"active", "parked", "done"}
Plan == [col : Status \cup {"none"},    \* tasks.status; none: not opened
         spec : Status \cup {"none"},   \* its spec's status; none: no spec yet
         shut : BOOLEAN,                \* closed_at: out of the conversation's slot
         asleep : BOOLEAN,              \* dormant_since
         stage : {"none", "active", "delivered"}]
\* parked_plans of a stop's effect: what its lift puts back, "none" for no record.
Way == {"none", "active", "aside", "done"}
Hold == [on : Plans \cup {Conv}, way : [Plans -> Way]]

NoRecord == [p \in Plans |-> "none"]
Unopened == [col |-> "none", spec |-> "none", shut |-> FALSE, asleep |-> FALSE, stage |-> "none"]
\* Left by the levels before: moved aside for a newer plan, and stopped by its status.
MovedAside == [Unopened EXCEPT !.col = "parked", !.spec = "active", !.shut = TRUE]
StoppedThen == [Unopened EXCEPT !.col = "parked", !.spec = "parked", !.shut = TRUE]

Init ==
    /\ plans \in [Plans -> {Unopened, MovedAside, StoppedThen}]
    /\ stops = <<>> /\ home = TRUE
    /\ astray = {p \in Plans : plans[p].col = "parked"}

-----------------------------------------------------------------------------
\* A transaction is a chain of writes: each helper takes what was written so far.
Before == [plans |-> plans, stops |-> stops]
Commit(s) == plans' = s.plans /\ stops' = s.stops

\* parkingHolds: a stop on the plan itself, or on the conversation it belongs to.
Parking(s, p) ==
    {h \in DOMAIN s.stops : s.stops[h].on = p \/ (s.stops[h].on = Conv /\ home)}

\* Mutant: the newest stop keeps the way back, whichever has it already.
NewestKeeps(s, p) == Max(Parking(s, p))
\* The one stop that keeps a plan's way back: the one that has it, else the newest.
Keeper(s, p) ==
    LET keeping == {h \in Parking(s, p) : s.stops[h].way[p] # "none"}
    IN Max(IF keeping # {} THEN keeping ELSE Parking(s, p))

Just(p, prior) == [NoRecord EXCEPT ![p] = prior]
\* rememberParked, for all the plans that have a way back in ways.
RememberParked(s, ways) ==
    LET noted(h, p) == ways[p] # "none" /\ Parking(s, p) # {} /\ h = Keeper(s, p)
    IN [s EXCEPT !.stops = [h \in DOMAIN s.stops |->
           [s.stops[h] EXCEPT !.way = [p \in Plans |-> IF noted(h, p) THEN ways[p] ELSE s.stops[h].way[p]]]]]

\* What parkHeldPlans finds a covered plan to be, "none" when it leaves it alone.
Found(row) ==
    CASE row.col = "parked" /\ row.spec = "active" -> "aside"
      [] row.col = "active" -> "active"
      [] OTHER -> "none"
Stilled(row) == [row EXCEPT !.col = "parked", !.spec = IF @ = "none" THEN @ ELSE "parked"]
ParkHeldPlans(s) ==
    LET found == [p \in Plans |-> IF Parking(s, p) = {} THEN "none" ELSE Found(s.plans[p])]
        rows == [p \in Plans |-> IF found[p] = "none" THEN s.plans[p] ELSE Stilled(s.plans[p])]
    IN RememberParked([s EXCEPT !.plans = rows], found)

\* createHold, for one stop or for several made in a row.
CreateHolds(s, made) == ParkHeldPlans([s EXCEPT !.stops = @ \o made])
CreateHold(s, on) == CreateHolds(s, <<[on |-> on, way |-> NoRecord]>>)

\* Another plan has the conversation's slot, those in out apart.
SlotTaken(s, p, out) ==
    \E q \in Plans \ ({p} \cup out) : s.plans[q].col # "none" /\ ~s.plans[q].shut
\* A plan put back in the slot is no longer set aside (the trigger tasks_dormant_ends).
BackInSlot(row) == [row EXCEPT !.shut = FALSE, !.asleep = FALSE]

\* Mutant: what was moved aside goes back as it was written down.
AsWritten(row, prior) == prior
\* The status a plan goes back to: one moved aside is in progress if it is in the slot since.
GoesBackTo(row, prior) == IF prior = "aside" THEN IF row.shut THEN "parked" ELSE "active" ELSE prior
RestorePlanStatus(row, to, takesSlot) ==
    LET put == [row EXCEPT !.col = to,
                           !.spec = IF @ = "none" THEN @ ELSE IF to = "parked" THEN "active" ELSE to]
    IN IF to = "done" THEN [put EXCEPT !.shut = TRUE]
       ELSE IF takesSlot THEN BackInSlot(put) ELSE put

\* What some stops keep of a plan, the newest's if they do not agree.
Kept(s, hs, p) ==
    LET keeping == {h \in hs : s.stops[h].way[p] # "none"}
    IN IF keeping = {} THEN "none" ELSE s.stops[Max(keeping)].way[p]
\* The stops in force without some, the others in their order; a lifted row is read no more.
Without(s, hs) ==
    LET rest == DOMAIN s.stops \ hs
        nth(k) == CHOOSE h \in rest : Cardinality({g \in rest : g <= h}) = k
    IN [s EXCEPT !.stops = [k \in 1..Cardinality(rest) |-> s.stops[nth(k)]]]
\* Mutant: the lift of one stop leaves a plan another still parks, and its record goes with it.
HandedOnNowhere(s, kept) == s
\* What the lift does with a plan another stop still parks.
HandedOn(s, kept) == RememberParked(s, kept)
\* Mutant: the lift puts back what it parked, whether or not another stop parks it too.
GivenBackAtOnce(s, kept) == {p \in Plans : kept[p] # "none" /\ s.plans[p].col = "parked"}
\* The plans it puts back: nothing parks them any more, and nothing moved them on meanwhile.
GivenBack(s, kept) ==
    {p \in Plans : kept[p] # "none" /\ Parking(s, p) = {} /\ s.plans[p].col = "parked"}
\* liftHold, for one stop or for several lifted in a row.  The records are gone through in the order
\* they were written: of the plans that go back to work, the first to find the slot free takes it.
LiftHolds(s, hs, order) ==
    LET kept == [p \in Plans |-> Kept(s, hs, p)]
        rest == Without(s, hs)
        back == GivenBack(rest, kept)
        to(p) == GoesBackTo(s.plans[p], kept[p])
        ended(p) == {q \in back : to(q) = "done" /\ order[q] < order[p]}
        asks(p) == /\ p \in back /\ to(p) = "active" /\ s.plans[p].shut
                   /\ home /\ ~SlotTaken(rest, p, ended(p))
        takes(p) == asks(p) /\ \A q \in Plans : order[q] < order[p] => ~asks(q)
        rows == [p \in Plans |-> IF p \in back THEN RestorePlanStatus(s.plans[p], to(p), takes(p))
                                 ELSE s.plans[p]]
    IN [HandedOn(rest, kept) EXCEPT !.plans = rows]
Orders == Injection(Plans, 1..Cardinality(Plans))

\* setTaskSpec, with planStatusUnderHolds: under a stop only done goes through.
SetTaskSpec(s, p, status) ==
    LET held == status # "done" /\ Parking(s, p) # {}
        noted == IF held /\ status = "active" THEN RememberParked(s, Just(p, "active")) ELSE s
        to == IF held THEN "parked" ELSE status
        row == [s.plans[p] EXCEPT !.col = to, !.spec = to]
    IN [noted EXCEPT !.plans[p] =
            CASE status = "done" \/ (status = "parked" /\ ~held) -> [row EXCEPT !.shut = TRUE]
              [] status = "active" /\ row.shut /\ home /\ ~SlotTaken(s, p, {}) -> BackInSlot(row)
              [] OTHER -> row]

Delivered(row) == row.stage = "delivered" \/ (row.stage = "none" /\ row.col = "done")
Opened(p) == plans[p].col # "none"
Room(n) == Len(stops) + n <= MaxStops

-----------------------------------------------------------------------------
\* You stop a plan or the conversation, by a line or a button.
Stop(on) ==
    /\ Room(1) /\ IF on = Conv THEN home ELSE Opened(on)
    /\ Commit(CreateHold(Before, on)) /\ UNCHANGED <<home, astray>>

\* You lift a stop, by a line, a button, or your next word about the work.
Lift(h) ==
    /\ \E order \in Orders : Commit(LiftHolds(Before, {h}, order))
    /\ UNCHANGED <<home, astray>>

\* The stops on a plan itself.
OwnStops(s, p) == {h \in DOMAIN s.stops : s.stops[h].on = p}
\* setPlanStatusByUser: a status other than the spec's own is you stopping it, or moving it on.  The
\* stops on it keep no other plan's way back, so that no order is asked for.
StatusByUser(p, status) ==
    IF status = (IF plans[p].spec # "none" THEN plans[p].spec ELSE plans[p].col) THEN Before
    ELSE IF status # "parked" THEN LiftHolds(Before, OwnStops(Before, p), [q \in Plans |-> 0])
    ELSE LET made == CreateHold(Before, p)
         IN IF plans[p].col = "done" THEN RememberParked(made, Just(p, "done")) ELSE made
\* Your edit of the plan on the board, which takes up one set aside (setPlanSpecByUser).
EditPlan(p, status) ==
    LET s == StatusByUser(p, status) IN
    /\ Opened(p) /\ Len(s.stops) <= MaxStops
    /\ Commit(SetTaskSpec([s EXCEPT !.plans[p].asleep = FALSE], p, status))
    /\ UNCHANGED <<home, astray>>

\* filedSpec and applyOrganizerResult: what a settle's answer makes of the status.  It parks
\* nothing, reopens nothing, ends only a plan with no tickets, and what keeps one open may reopen it.
Filed(standing, says, ticketless, keptOpen) ==
    LET answered == IF (standing = "done" /\ says = "active") \/ (says = "parked" /\ standing # "parked")
                    THEN standing ELSE says
        filed == IF ~ticketless /\ answered = "done" THEN standing ELSE answered
    IN IF filed = "done" /\ keptOpen THEN "active" ELSE filed
\* After a turn of the plan the organizer files what was handed over.
Settle(p, says) ==
    /\ home /\ Opened(p) /\ ~plans[p].asleep
    /\ \E ticketless, keptOpen \in BOOLEAN :
          Commit(SetTaskSpec(Before, p, Filed(plans[p].col, says, ticketless, keptOpen)))
    /\ UNCHANGED <<home, astray>>

\* work_on opens a plan, which no stop on the conversation lets it, and older ones may be set aside.
Open(p) ==
    /\ home /\ ~Opened(p) /\ Parking(Before, p) = {}
    /\ \E idle \in SUBSET {q \in Plans : Opened(q) /\ ~plans[q].asleep} :
          plans' = [q \in Plans |->
              CASE q = p -> [Unopened EXCEPT !.col = "active"]
                [] q \in idle -> [plans[q] EXCEPT !.asleep = TRUE, !.shut = TRUE]
                [] OTHER -> plans[q]]
    /\ UNCHANGED <<stops, home, astray>>

\* Plans are set aside by age, or with the history you cleared; Continue takes one up, and a line of
\* yours filed under it does, which leaves it out of the slot.
SetAside(idle) ==
    plans' = [p \in Plans |-> IF p \in idle /\ Opened(p) THEN [plans[p] EXCEPT !.asleep = TRUE, !.shut = TRUE]
                              ELSE plans[p]]
Sleep(p) ==
    /\ Opened(p) /\ Delivered(plans[p]) /\ ~plans[p].asleep
    /\ SetAside({p}) /\ UNCHANGED <<stops, home, astray>>
Clear ==
    /\ home /\ \E p \in Plans : Opened(p) /\ ~plans[p].asleep
    /\ SetAside({p \in Plans : ~plans[p].asleep}) /\ UNCHANGED <<stops, home, astray>>
Wake(p) ==
    /\ plans[p].asleep
    /\ plans' = [plans EXCEPT ![p] = BackInSlot(@)] \/ plans' = [plans EXCEPT ![p].asleep = FALSE]
    /\ UNCHANGED <<stops, home, astray>>

\* settlePlanStage: the last of its tickets is approved.
Deliver(p) ==
    /\ Opened(p) /\ ~Delivered(plans[p])
    /\ LET s == SetTaskSpec(Before, p, "done") IN Commit([s EXCEPT !.plans[p].stage = "delivered"])
    /\ UNCHANGED <<home, astray>>

\* reopenDeliveredPlan: an approved ticket takes new work.
Reopened(s, p) ==
    LET asked == IF s.plans[p].spec # "none" THEN SetTaskSpec(s, p, "active") ELSE s
    IN [asked EXCEPT !.plans[p] = [BackInSlot(@) EXCEPT !.stage = "active", !.col = "active"]]
\* A hand-over's checks end, after the stop that ended its turn or before it.
Reopen(p) ==
    /\ Delivered(plans[p])
    /\ Commit(Reopened(Before, p))
    /\ astray' = IF Parking(Before, p) # {} THEN astray \cup {p} ELSE astray
    /\ UNCHANGED home
\* Your complaint: the ticket's stage first, then the plan (sendBack, reopenPlan).
Complain(p) ==
    /\ home /\ Delivered(plans[p])
    /\ Commit(SetTaskSpec(Reopened(Before, p), p, "active"))
    /\ UNCHANGED <<home, astray>>

\* A stop of its own for each of some plans, that keeps the plan's way back.
OwnHolds(order, ways) == [k \in DOMAIN order |-> [on |-> order[k], way |-> Just(order[k], ways[order[k]])]]

\* holdPlansLeavingSession: the way back a plan takes with it, if only the conversation's stops park it.
WayOut(p) ==
    LET over == Parking(Before, p) IN
    IF plans[p].col # "parked" \/ over = {} \/ OwnStops(Before, p) # {} THEN "none"
    ELSE IF Kept(Before, over, p) # "none" THEN Kept(Before, over, p)
    ELSE IF plans[p].spec = "parked" THEN "active" ELSE "none"
Leaving == {p \in Plans : WayOut(p) # "none"}
\* You delete the conversation; its plans live on.
Delete ==
    /\ home
    /\ \E order \in SetToSeqs(Leaving) :
          LET s == IF Leaving = {} THEN Before ELSE CreateHolds(Before, OwnHolds(order, [p \in Plans |-> WayOut(p)])) IN
          /\ Len(s.stops) <= MaxStops
          /\ stops' = s.stops
          /\ plans' = [p \in Plans |-> IF s.plans[p].col = "none" THEN s.plans[p]
                                       ELSE [s.plans[p] EXCEPT !.asleep = TRUE, !.shut = TRUE]]
    /\ home' = FALSE /\ UNCHANGED astray

\* reconcileHolds: a plan stopped by its status is stopped by you from here on.
Legacy ==
    {p \in Plans : plans[p].col = "parked" /\ plans[p].spec = "parked" /\ Parking(Before, p) = {}}
Boot ==
    /\ \E order \in SetToSeqs(Legacy) :
          LET s == CreateHolds(Before, OwnHolds(order, [p \in Plans |-> "active"])) IN
          Len(s.stops) <= MaxStops /\ Commit(s)
    /\ UNCHANGED <<home, astray>>

Next ==
    \/ \E on \in Plans \cup {Conv} : Stop(on)
    \/ \E h \in DOMAIN stops : Lift(h)
    \/ \E p \in Plans, status \in Status : EditPlan(p, status) \/ Settle(p, status)
    \/ \E p \in Plans : Open(p) \/ Sleep(p) \/ Wake(p) \/ Deliver(p) \/ Reopen(p) \/ Complain(p)
    \/ Clear \/ Delete \/ Boot

Spec == Init /\ [][Next]_vars

-----------------------------------------------------------------------------
\* Every row is well formed: no plan's column or spec takes a way back's word for a status.
TypeOK ==
    /\ plans \in [Plans -> Plan]
    /\ stops \in Seq(Hold) /\ Len(stops) <= MaxStops
    /\ home \in BOOLEAN /\ astray \subseteq Plans

\* However stops overlap, and in whatever order they are lifted, one stop that parks a plan keeps
\* its way back: rememberParked, the handing on in liftHold, and the stops made as a conversation
\* goes agree on which.  With two, the later lift would put back what the plan was at another time.
OneKeeps ==
    \A p \in Plans : Cardinality({h \in Parking(Before, p) : stops[h].way[p] # "none"}) <= 1

\* While the conversation is, a plan reads parked exactly while a stop parks it, in the column the
\* daemon reads and in the spec the board sends back alike; unless it was parked before there were
\* stops, or reopened under one (see StaysParked).
ParkedUnderAStop ==
    home => \A p \in Plans \ astray :
        LET row == plans[p] reads == IF Parking(Before, p) # {} THEN "parked" ELSE "active" IN
        row.col \in {"active", "parked"} => row.col = reads /\ row.spec \in {reads, "none"}

\* What a plan would read had nothing stopped it.
Unstopped(p) ==
    LET noted == {h \in Parking(Before, p) : stops[h].way[p] # "none"}
        kept == noted \cup {h \in DOMAIN stops : stops[h].way[p] # "none"}
    IN IF plans[p].col # "parked" THEN plans[p].col
       ELSE IF plans[p].spec = "active" THEN "aside"
       ELSE IF noted # {} THEN stops[Max(noted)].way[p]
       ELSE IF kept # {} THEN stops[Max(kept)].way[p] ELSE "active"
Written(p) ==
    \/ \E status \in Status : EditPlan(p, status) \/ Settle(p, status)
    \/ Open(p) \/ Deliver(p) \/ Reopen(p) \/ Complain(p)
\* Stopping, lifting, booting, setting aside and deleting the conversation are about whether work
\* goes on, and change nothing of what the plan goes back to in the end; only a write of its status
\* does.  A plan moved aside that you took up meanwhile goes back to work with the lift.
OnlyWritesMoveIt ==
    [][home => \A p \in Plans :
          \/ Unstopped(p)' = Unstopped(p)
          \/ Written(p)
          \/ Unstopped(p) = "aside" /\ ~plans[p].shut /\ Unstopped(p)' = "active"]_vars

\* "Whatever later asks to put a held plan back in progress (the organizer, a resume) leaves it
\* parked and only notes that lifting the hold should" (store/holds.ts:18-19).
StaysParked ==
    \A p \in Plans : Parking(Before, p) # {} /\ plans[p].col = "active" => plans[p].spec = "none"
=============================================================================
