----------------------------- MODULE Delegations -----------------------------
(* Bots that ask one another for work on one plan: a request is mail for the   *)
(* Bot asked and, unless the asker carries on, a wait of the asker's; an       *)
(* answer ends the wait and is mail for the asker.  One item of Items is the   *)
(* work on the plan of one Bot; "asks" are the delegations, each with its      *)
(* request, its wait and its answer.  Whether a row of mail reads held follows *)
(* from the stop here: module WorkKernel has the mark itself.                  *)
EXTENDS Naturals, Sequences, FiniteSets

CONSTANTS
    Items,      \* one Bot's work on the plan each
    MaxAsks,    \* bounds: requests made,
    MaxStops,   \* stops made,
    MaxLines,   \* lines of yours and call-backs
    MaxArchived \* and Bots archived

ASSUME DelegationsAssumption ==
    {MaxAsks, MaxStops, MaxLines, MaxArchived} \subseteq Nat

VARIABLES
    state,     \* work_items.state
    wait,      \* the request work_items.waiting_on names, or NoAsk
    seg,       \* the Bot's segment on the plan
    asks,      \* delegations, in the order they were made
    wake,      \* whether a line of yours or the app's is unread in the item's queue
    hold,      \* the items a stop covers: none, or those of the one stop
    stopped,   \* the items whose segment it ended, to go on at the lift
    archived,  \* Bots archived
    used       \* how many stops, and how many lines and call-backs, there were

vars == <<state, wait, seg, asks, wake, hold, stopped, archived, used>>

NoAsk == 0
States == {"queued", "running", "waiting", "idle", "blocked", "needs_attention", "closed"}
\* No segment; one at work; one a tool has ended whose turn is not over yet; one
\* that went on to one of the Bot's own tickets, so this item is not its work.
Segments == {"none", "works", "over", "away"}
Mail == {"none", "queued", "read", "superseded"}
Ask == [from : Items, to : Items, expects : {"answer", "deliverable"},
        status : {"open", "replied", "cancelled"},
        request : Mail, result : Mail, wakes : BOOLEAN,
        \* its row of check_backs, if the asker waits
        row : {"none", "open", "set_aside", "void"},
        \* the mail addressed to a segment now open (inbox_items.turn_id)
        here : SUBSET {"request", "result"},
        \* whether the segment that asked is still open
        asking : BOOLEAN,
        \* the ends whose item has been closed since
        gone : SUBSET {"from", "to"}]

Init ==
    /\ state = [i \in Items |-> "closed"]
    /\ wait = [i \in Items |-> NoAsk]
    /\ seg = [i \in Items |-> "none"]
    /\ asks = <<>>
    /\ wake = [i \in Items |-> FALSE]
    /\ hold = {} /\ stopped = {} /\ archived = {}
    /\ used = [stops |-> 0, lines |-> 0]

-----------------------------------------------------------------------------
(* What the rows say. *)

Open(k) == asks[k].status = "open"
Sent(i) == {k \in DOMAIN asks : asks[k].from = i /\ "from" \notin asks[k].gone}
Got(i) == {k \in DOMAIN asks : asks[k].to = i /\ "to" \notin asks[k].gone}

Live(i) == seg[i] \in {"works", "over"}

\* Mail in line on the item, and the mail in line that wakes its Bot.
InLine(i) == \/ wake[i]
             \/ \E k \in Got(i) : asks[k].request = "queued"
             \/ \E k \in Sent(i) : asks[k].result = "queued"
\* Mutant: an answer wakes nobody.
WakesOnRequest(i) == wake[i] \/ \E k \in Got(i) : asks[k].request = "queued"
Wakes(i) == \/ wake[i]
            \/ \E k \in Got(i) : asks[k].request = "queued"
            \/ \E k \in Sent(i) : asks[k].result = "queued" /\ asks[k].wakes

\* Mutant: work that was closed is waited on.
OpenWaitWhoever(i) ==
    wait[i] \in Sent(i) /\ Open(wait[i]) /\ asks[wait[i]].row \in {"open", "set_aside"}
\* openWait: what the item waits on still stands.
OpenWait(i) ==
    /\ wait[i] \in Sent(i)
    /\ Open(wait[i]) /\ asks[wait[i]].row \in {"open", "set_aside"}
    /\ "to" \notin asks[wait[i]].gone

\* delegationDescendants: those a stop on this Bot's work reaches, along the open
\* requests to work that is open; an older item of the Bot's is a root as well.
Asked(i) == {asks[k].to : k \in {k \in Sent(i) : Open(k) /\ "to" \notin asks[k].gone}}
AskedEver(i) == {asks[k].to : k \in {k \in DOMAIN asks :
                    asks[k].from = i /\ Open(k) /\ "to" \notin asks[k].gone}}
Reach(root) ==
    LET within[n \in 0..Cardinality(Items)] ==
            IF n = 0 THEN {root} \cup AskedEver(root)
            ELSE within[n - 1] \cup UNION {Asked(i) : i \in within[n - 1]}
    IN  within[Cardinality(Items)]

-----------------------------------------------------------------------------
(* Writes several handlers share. *)

\* Mutant: only a wait that is pending is voided.
VoidedIfPending(row) == IF row = "open" THEN "void" ELSE row
Voided(row) == IF row = "none" THEN row ELSE "void"

\* resolve, for each of ks: the answer is queued for the asker, in the line of the
\* segment at work on the item that asked or else of the segment that asked; the
\* request is taken out of the line and the wait's row is void, set aside or not.
\* wakers are the askers the answer wakes.
Answered(ks, status, wakers) ==
    [k \in DOMAIN asks |-> IF k \notin ks THEN asks[k] ELSE
        [asks[k] EXCEPT !.status = status, !.result = "queued", !.wakes = asks[k].from \in wakers,
                        !.here = IF asks[k].asking \/ (k \in Sent(asks[k].from) /\ Live(asks[k].from))
                                 THEN {"result"} ELSE {},
                        !.request = IF @ = "queued" THEN "superseded" ELSE @,
                        !.row = Voided(@)]]
\* The item of an asker: one that waits on the request goes on, and one that is
\* idle takes the answer up.
AnsweredState(ks, wakers) ==
    [i \in Items |->
        IF state[i] = "waiting" /\ wait[i] \in ks THEN IF i \in wakers THEN "queued" ELSE "idle"
        ELSE IF /\ state[i] = "idle" /\ ~Live(i) /\ i \in wakers
                /\ \E k \in ks : k \in Sent(i)
             THEN "queued" ELSE state[i]]
AnsweredWait(ks) ==
    [i \in Items |-> IF state[i] = "waiting" /\ wait[i] \in ks THEN NoAsk ELSE wait[i]]

\* Mail as <<ask, part>>: what is in line on the item, and what is addressed to
\* the Bot's open segment, on whichever item.
End == [request |-> "to", result |-> "from"]
OnItem(i) == (Got(i) \X {"request"}) \cup (Sent(i) \X {"result"})
ToSegment(i) == {m \in (DOMAIN asks) \X {"request", "result"} :
                    m[2] \in asks[m[1]].here /\ asks[m[1]][End[m[2]]] = i}
Read(mail) ==
    [k \in DOMAIN asks |->
        [asks[k] EXCEPT !.request = IF @ = "queued" /\ <<k, "request">> \in mail THEN "read" ELSE @,
                        !.result = IF @ = "queued" /\ <<k, "result">> \in mail THEN "read" ELSE @]]

\* The Bot's segment is no more: no mail is addressed to it.
NoSegment(i) ==
    [k \in DOMAIN asks |->
        [asks[k] EXCEPT !.here = {part \in @ : asks[k][End[part]] # i},
                        !.asking = @ /\ asks[k].from # i]]

\* The item is closed: what points to it points to no work any more.
Closing(as, i) ==
    [k \in DOMAIN as |->
        [as[k] EXCEPT !.gone = @ \cup {end \in {"from", "to"} : as[k][end] = i}]]

\* Mutant: work that was closed is left so.
MarkedOnly(i, mark) == IF mark THEN "running" ELSE state[i]
Marked(i, mark) == IF state[i] = "closed" \/ mark THEN "running" ELSE state[i]
\* A segment opens on the item, takes up the mail in line there and reads it.
Opens(i, mark) ==
    /\ seg[i] = "none" /\ i \notin hold \cup archived
    /\ seg' = [seg EXCEPT ![i] = "works"]
    /\ state' = [state EXCEPT ![i] = Marked(i, mark)]
    /\ asks' = Read(OnItem(i))
    /\ wake' = [wake EXCEPT ![i] = FALSE]

-----------------------------------------------------------------------------
(* A segment's own steps. *)

\* delegateWork, and the segment it ends unless it says "continue": no call runs
\* after it, but until the Bot's program has stopped the turn is still live.
AskFor(i, j, expects, continue) ==
    /\ seg[i] = "works" /\ i \notin hold /\ i # j /\ j \notin archived
    /\ Len(asks) < MaxAsks
    /\ asks' = Append(asks, [from |-> i, to |-> j, expects |-> expects, status |-> "open",
                             request |-> "queued", result |-> "none", wakes |-> FALSE,
                             row |-> IF continue THEN "none" ELSE "open",
                             here |-> IF Live(j) THEN {"request"} ELSE {},
                             asking |-> TRUE, gone |-> {}])
    /\ LET asked == [state EXCEPT ![j] = IF Live(j) THEN @ ELSE "queued"]
       IN  IF continue THEN state' = asked /\ UNCHANGED <<wait, seg>>
           ELSE /\ state' = [asked EXCEPT ![i] = "waiting"]
                /\ wait' = [wait EXCEPT ![i] = Len(asks) + 1]
                /\ seg' = [seg EXCEPT ![i] = "over"]
    /\ UNCHANGED <<wake, hold, stopped, archived, used>>

\* The next step of the segment reads what came for it meanwhile.
ReadOn(i) ==
    /\ seg[i] \in {"works", "away"} /\ i \notin hold
    /\ asks' = Read(ToSegment(i))
    /\ asks' # asks
    /\ UNCHANGED <<state, wait, seg, wake, hold, stopped, archived, used>>

\* answerableRequests: those a reply in words answers, read or not.
\* Mutant: also one that has its answer.
AnyInWords(i) == {k \in Got(i) : asks[k].expects = "answer"}
InWords(i) == {k \in Got(i) : Open(k) /\ asks[k].expects = "answer"}
\* validWaiting: the row has to be in force, not only set aside.
StillWaiting(i) ==
    /\ state[i] = "waiting" /\ wait[i] \in Sent(i)
    /\ Open(wait[i]) /\ asks[wait[i]].row = "open"
\* finishWork: what it replies, then where the work stands.  Its ticket is not
\* through, so the work does not close.
EndTurn(i, replies, outcome) ==
    LET ks == IF replies THEN InWords(i) ELSE {}
        stands == IF outcome # "ends" THEN outcome
                  ELSE IF StillWaiting(i) THEN "waiting"
                  ELSE IF Wakes(i) THEN "queued" ELSE "idle"
    IN  /\ seg[i] = "works" /\ i \notin hold
        /\ replies => ks # {} /\ outcome = "ends"
        /\ asks' = Answered(ks, "replied", Items)
        /\ state' = [AnsweredState(ks, Items) EXCEPT ![i] = stands]
        /\ wait' = [AnsweredWait(ks) EXCEPT ![i] = IF stands = "waiting" THEN @ ELSE NoAsk]
        /\ seg' = [seg EXCEPT ![i] = "over"]
        /\ UNCHANGED <<wake, hold, stopped, archived, used>>

\* The turn is over: releaseTurnInbox, for what it had not read.
Unsettled == {"queued", "running", "idle"}
Released(i) == IF Wakes(i) /\ state[i] \in Unsettled THEN "queued" ELSE state[i]
TurnOver(i) ==
    /\ seg[i] \in {"over", "away"} /\ i \notin hold
    /\ seg' = [seg EXCEPT ![i] = "none"]
    /\ state' = [state EXCEPT ![i] = Released(i)]
    /\ asks' = NoSegment(i)
    /\ UNCHANGED <<wait, wake, hold, stopped, archived, used>>

\* The turn is interrupted or fails: markSegmentCutOff.
CutOff(i) ==
    /\ Live(i) /\ i \notin hold
    /\ seg' = [seg EXCEPT ![i] = "none"]
    /\ state' = [state EXCEPT ![i] = IF @ \in Unsettled THEN "needs_attention" ELSE @]
    /\ asks' = NoSegment(i)
    /\ UNCHANGED <<wait, wake, hold, stopped, archived, used>>

\* workOn or a write takes the segment to a ticket of its own; closeWorkItemIfIdle
\* closes what it leaves, unless mail is in line there.
MayClose(i) == ~InLine(i)
GoToTicket(i) ==
    /\ seg[i] = "works" /\ i \notin hold
    /\ seg' = [seg EXCEPT ![i] = "away"]
    /\ \/ /\ ~MayClose(i)
          /\ state' = [state EXCEPT ![i] = IF @ = "running" THEN "idle" ELSE @]
          /\ UNCHANGED <<wait, asks>>
       \/ /\ MayClose(i)
          /\ state' = [state EXCEPT ![i] = "closed"]
          /\ wait' = [wait EXCEPT ![i] = NoAsk]
          /\ asks' = Closing(asks, i)
    /\ UNCHANGED <<wake, hold, stopped, archived, used>>

-----------------------------------------------------------------------------
(* What comes to an item from outside it. *)

\* deliverDelegations: the hand-over of the Bot's is approved, which answers what
\* was asked of it to hand in, whatever state its work is in.
Approved(i) ==
    LET ks == {k \in Got(i) : Open(k) /\ asks[k].expects = "deliverable"}
    IN  /\ ks # {} /\ \A k \in ks : asks[k].request # "queued"
        /\ asks' = Answered(ks, "replied", Items)
        /\ state' = AnsweredState(ks, Items)
        /\ wait' = AnsweredWait(ks)
        /\ UNCHANGED <<seg, wake, hold, stopped, archived, used>>

\* archiveBot, cancelDelegationsForBot: every request from or to the Bot is
\* cancelled first, and wakes an asker that goes on; then its work is closed.
Archive(i) ==
    LET ks == {k \in DOMAIN asks : Open(k) /\ i \in {asks[k].from, asks[k].to}}
        wakers == {j \in Items \ ({i} \cup archived) : state[j] # "closed"}
        as == Answered(ks, "cancelled", wakers)
    IN  /\ i \notin archived /\ Cardinality(archived) < MaxArchived
        /\ archived' = archived \cup {i}
        /\ asks' = Closing([k \in DOMAIN as |->
                       [as[k] EXCEPT !.here = {part \in @ : as[k][End[part]] # i},
                                     !.asking = @ /\ as[k].from # i]], i)
        /\ state' = [AnsweredState(ks, wakers) EXCEPT ![i] = "closed"]
        /\ wait' = [AnsweredWait(ks) EXCEPT ![i] = NoAsk]
        /\ seg' = [seg EXCEPT ![i] = "none"]
        /\ wake' = [wake EXCEPT ![i] = FALSE]
        /\ stopped' = stopped \ {i}
        /\ UNCHANGED <<hold, used>>

\* A line of yours opens a segment on the work as it stands.
YourLine(i) ==
    /\ used.lines < MaxLines
    /\ Opens(i, FALSE)
    /\ used' = [used EXCEPT !.lines = @ + 1]
    /\ UNCHANGED <<wait, hold, stopped, archived>>

\* dispatchQueued: the queued work its oldest waking mail opens.
Dispatch(i) ==
    /\ state[i] = "queued" /\ Wakes(i)
    /\ Opens(i, TRUE)
    /\ UNCHANGED <<wait, hold, stopped, archived, used>>

-----------------------------------------------------------------------------
(* The supervisor, on a plan that is running. *)

\* repairWaits: what waits on nothing that stands needs attention.
RepairWait(i) ==
    /\ state[i] = "waiting" /\ i \notin hold /\ ~OpenWait(i)
    /\ state' = [state EXCEPT ![i] = "needs_attention"]
    /\ wait' = [wait EXCEPT ![i] = NoAsk]
    /\ UNCHANGED <<seg, asks, wake, hold, stopped, archived, used>>

\* requeueMailInLine.
Requeue(i) ==
    /\ state[i] = "idle" /\ ~Live(i) /\ i \notin hold /\ Wakes(i)
    /\ state' = [state EXCEPT ![i] = "queued"]
    /\ UNCHANGED <<wait, seg, asks, wake, hold, stopped, archived, used>>

\* pickUpAttention: by a queued wake, or on from the line where it was cut off.
PickUp(i) ==
    /\ state[i] = "needs_attention" /\ seg[i] = "none" /\ i \notin hold \cup archived
    /\ \/ /\ state' = [state EXCEPT ![i] = "queued"]
          /\ wake' = [wake EXCEPT ![i] = TRUE]
          /\ UNCHANGED <<seg, asks>>
       \/ Opens(i, FALSE)
    /\ UNCHANGED <<wait, hold, stopped, archived, used>>

\* callBackOrphans: idle work with nothing in line and no wait pending.
CallBack(i) ==
    /\ used.lines < MaxLines
    /\ state[i] = "idle" /\ seg[i] = "none" /\ i \notin hold \cup archived /\ ~InLine(i)
    /\ \A k \in Sent(i) : asks[k].row \notin {"open", "set_aside"}
    /\ state' = [state EXCEPT ![i] = "queued"]
    /\ wake' = [wake EXCEPT ![i] = TRUE]
    /\ used' = [used EXCEPT !.lines = @ + 1]
    /\ UNCHANGED <<wait, seg, asks, hold, stopped, archived>>

-----------------------------------------------------------------------------
(* A stop of yours, and going on. *)

\* endCovered over the hold's targets, and suspendHeldCheckBacks.
Stop(root) ==
    LET covered == {i \in Items \ archived : i \in Reach(root)}
        ended == {i \in covered : seg[i] # "none"}
    IN  /\ hold = {} /\ used.stops < MaxStops /\ root \notin archived
        /\ hold' = covered
        /\ stopped' = {i \in covered : Live(i)}
        /\ seg' = [i \in Items |-> IF i \in ended THEN "none" ELSE seg[i]]
        /\ state' = [i \in Items |-> IF i \in stopped' /\ state[i] = "running" THEN "idle" ELSE state[i]]
        /\ asks' = [k \in DOMAIN asks |->
                [asks[k] EXCEPT !.row = IF @ = "open" /\ asks[k].from \in covered THEN "set_aside" ELSE @,
                                !.here = {part \in @ : asks[k][End[part]] \notin ended},
                                !.asking = @ /\ asks[k].from \notin ended]]
        /\ used' = [used EXCEPT !.stops = @ + 1]
        /\ UNCHANGED <<wait, wake, archived>>

\* Mutant: waits a stop set aside stay so.
LeftAside(row) == row
BroughtBack(row) == IF row = "set_aside" THEN "open" ELSE row
\* resumeUnheldCheckBacks, refreshHeldInbox, and resumeLifted for those it ended,
\* which go on on their work as it stands.
Lift(again) ==
    LET reopened == {i \in stopped : again /\ state[i] # "closed" /\ seg[i] = "none"}
        restored == [k \in DOMAIN asks |-> [asks[k] EXCEPT !.row = BroughtBack(@)]]
    IN  /\ hold # {}
        /\ hold' = {} /\ stopped' = {}
        /\ state' = [i \in Items |-> IF i \in hold /\ Wakes(i) /\ ~Live(i) /\ state[i] \in Unsettled
                                     THEN "queued" ELSE state[i]]
        /\ seg' = [i \in Items |-> IF i \in reopened THEN "works" ELSE seg[i]]
        /\ asks' = [k \in DOMAIN asks |->
                LET readBy(part) == /\ asks[k][part] = "queued"
                                    /\ \E i \in reopened : <<k, part>> \in OnItem(i)
                IN  [restored[k] EXCEPT !.request = IF readBy("request") THEN "read" ELSE @,
                                        !.result = IF readBy("result") THEN "read" ELSE @]]
        /\ wake' = [i \in Items |-> wake[i] /\ i \notin reopened]
        /\ UNCHANGED <<wait, archived, used>>

-----------------------------------------------------------------------------
Next ==
    \/ \E i \in Items :
        \/ \E j \in Items, expects \in {"answer", "deliverable"}, continue \in BOOLEAN :
              AskFor(i, j, expects, continue)
        \/ ReadOn(i)
        \/ \E replies \in BOOLEAN, outcome \in {"ends", "blocked", "needs_attention"} :
              EndTurn(i, replies, outcome)
        \/ TurnOver(i) \/ CutOff(i) \/ GoToTicket(i)
        \/ Approved(i) \/ Archive(i) \/ YourLine(i) \/ Dispatch(i)
        \/ RepairWait(i) \/ Requeue(i) \/ PickUp(i) \/ CallBack(i)
        \/ Stop(i)
    \/ \E again \in BOOLEAN : Lift(again)

\* What the process does by itself: a turn comes to an end and is released, the
\* queue is dispatched, and the supervisor ticks.  Nothing of yours is fair.
Fairness ==
    \A i \in Items :
        /\ WF_vars(\/ \E replies \in BOOLEAN, outcome \in {"ends", "blocked", "needs_attention"} :
                         EndTurn(i, replies, outcome)
                   \/ CutOff(i))
        /\ WF_vars(TurnOver(i)) /\ WF_vars(Dispatch(i))
        /\ WF_vars(RepairWait(i)) /\ WF_vars(Requeue(i)) /\ WF_vars(PickUp(i))

Spec == Init /\ [][Next]_vars /\ Fairness

-----------------------------------------------------------------------------
(* Properties. *)

\* The variables have their types, and a segment at work is on work that is open.
TypeOK ==
    /\ state \in [Items -> States]
    /\ wait \in [Items -> NoAsk..MaxAsks]
    /\ seg \in [Items -> Segments]
    /\ asks \in Seq(Ask) /\ Len(asks) <= MaxAsks
    /\ wake \in [Items -> BOOLEAN]
    /\ \A i \in Items : Live(i) => state[i] # "closed"
    /\ hold \subseteq Items /\ stopped \subseteq hold /\ archived \subseteq Items
    /\ used \in [stops : 0..MaxStops, lines : 0..MaxLines]

\* A request and what it stands on are settled in one go, whichever of the ways it
\* is settled by, and whether a stop has set its wait aside: one that is open has
\* no answer; one that is not has its answer sent, asks nobody for anything any
\* more, and has no wait left to bring back.
SettledTogether ==
    \A k \in DOMAIN asks :
        /\ Open(k) <=> asks[k].result = "none"
        /\ ~Open(k) => asks[k].request # "queued" /\ asks[k].row \in {"none", "void"}
        /\ asks[k].row = "set_aside" => asks[k].from \in hold
        /\ asks[k].row = "open" => asks[k].from \notin hold

\* I6: work that waits, waits on a request of its own that nobody has settled and
\* whose wait is in force, or set aside by the stop that holds the work.
WaitingHasItsWait ==
    \A i \in Items : state[i] = "waiting" =>
        /\ wait[i] \in Sent(i) /\ Open(wait[i])
        /\ asks[wait[i]].row = IF i \in hold THEN "set_aside" ELSE "open"

\* A request is answered once: no second answer, cancellation or lift sends the
\* asker another, or puts one it has read in line again.
AnsweredOnce ==
    [][\A k \in DOMAIN asks : ~Open(k) =>
          /\ asks'[k].status = asks[k].status
          /\ asks[k].result = "read" => asks'[k].result = "read"]_vars

\* Mail in line that wakes: an open request, or an answer that may wake the Bot
\* that asked; its reader is in business and neither stopped, nor waiting on
\* something else, nor blocked on you, and the work is not closed.
WakingMail(k, part) ==
    /\ k \in DOMAIN asks /\ asks[k][part] = "queued" /\ (part = "result" => asks[k].wakes)
    /\ End[part] \notin asks[k].gone
    /\ LET i == asks[k][End[part]]
       IN  i \notin hold \cup archived /\ state[i] \notin {"waiting", "blocked"}
\* In the end such mail is read, whenever it came: while its reader was at work, as
\* its segment ended, after it, while it was on its own ticket, or under a stop
\* that has been lifted.
MailIsRead ==
    \A k \in 1..MaxAsks : \A part \in {"request", "result"} : WakingMail(k, part) ~> ~WakingMail(k, part)

\* Work that waits on work that was closed under it does not wait for good.
BrokenWait(i) ==
    /\ state[i] = "waiting" /\ i \notin hold
    /\ wait[i] \in DOMAIN asks /\ "to" \in asks[wait[i]].gone
BrokenWaitIsLeft == \A i \in Items : BrokenWait(i) ~> ~BrokenWait(i)

\* store/inbox.ts:249, "Make that authoritative unread work dispatchable once its
\* last segment is terminal": two Bots never wait on each other, no segment open
\* on either, each with the other's request unread in its line.
NoMutualWait ==
    \A i, j \in Items :
        ~ /\ i # j /\ {i, j} \cap hold = {}
          /\ \A a \in {i, j} : seg[a] = "none" /\ state[a] = "waiting" /\ wait[a] # NoAsk
          /\ asks[wait[i]].to = j /\ asks[wait[i]].request = "queued"
          /\ asks[wait[j]].to = i /\ asks[wait[j]].request = "queued"
=============================================================================
