----------------------------- MODULE Submissions -----------------------------
(* A plan's tickets and the work handed over on them: a Bot submits, the app   *)
(* runs the checks, a reviewer or your next line or the supervisor's tick      *)
(* decides; a complaint of yours sends work back and can be taken back.        *)
(* Handlers run one at a time, so between two awaits nothing interleaves; what *)
(* waits at an await (checks running, a line of yours being read) is memory    *)
(* and is lost with the process, the rows are not.                             *)
EXTENDS Naturals, Sequences, FiniteSets

CONSTANTS
    Tickets,        \* the plan's tickets
    MaxSubs,        \* bounds: hand-overs made,
    MaxComplaints,  \* complaints that sent work back,
    MaxEdits        \* your edits of a status on the board

ASSUME SubmissionsAssumption ==
    {MaxSubs, MaxComplaints, MaxEdits} \subseteq Nat

VARIABLES
    \* the database
    stage,       \* tickets.stage; none until the ticket is made, voided once its lead dropped it
    gate,        \* the ticket's gate, and its last run since the newest hand-over
    card,        \* the ceiling card that is open on it, if any
    delivered,   \* whether the plan's stage is delivered, not active
    subs,        \* submissions, in the order they were made
    complaints,  \* work_events complaint.rework, what each one replaced
    unattended,  \* whether nobody waits on you: a routine's plan, or wait_word switched off
    aside,       \* whether the tick passes the plan by: dormant, under a stop, or not run
    \* the process
    settling,    \* hand-overs whose checks settle() waits on
    line,        \* a line of yours being read: how many hand-overs there were
    edits        \* how many edits of yours there were

vars == <<stage, gate, card, delivered, subs, complaints, unattended, aside,
          settling, line, edits>>

Gone == {"none", "dropped", "voided"}            \* no ticket yet, or none any more
Stages == {"todo", "doing", "submitted", "in_review", "rework", "approved"} \cup Gone
Handed == {"submitted", "in_review"}             \* stages, and states, to decide on
Reworkable == Handed \cup {"approved"}
OpenStates == {"checking"} \cup Handed
SubStates == OpenStates \cup {"checks_failed", "approved", "rejected", "superseded"}
NeedsUser == {"answer", "organizer"}             \* ORIGIN_NEEDS_USER
Results == {"not_run", "pass", "fail"}
Gates == Results \cup {"none"}
\* What a hand-over waits on: nothing, your word, your word for required items
\* nothing backs, or a gate before your word that let it through counts.
Awaitings == {"no", "word", "items", "pending"}

NoCard == 0
FailureCard == MaxComplaints + 1
Cards == 0..FailureCard          \* by the complaint that put it up, or a failed hand-over
NoLine == MaxSubs + 1

Submission == [ticket : Tickets, state : SubStates, origin : {"file"} \cup NeedsUser,
               awaiting : Awaitings, rev : {"off", "waiting", "ran"}]
Complaint == [ticket : Tickets, stage : Stages, was : [1..MaxSubs -> SubStates],
              delivered : BOOLEAN, at : 0..MaxSubs, undone : BOOLEAN]

TypeOK ==
    /\ stage \in [Tickets -> Stages]
    /\ gate \in [Tickets -> Gates]
    /\ card \in [Tickets -> Cards]
    /\ delivered \in BOOLEAN
    /\ subs \in Seq(Submission) /\ Len(subs) <= MaxSubs
    /\ complaints \in Seq(Complaint) /\ Len(complaints) <= MaxComplaints
    /\ unattended \in BOOLEAN /\ aside \in BOOLEAN
    /\ settling \subseteq DOMAIN subs
    /\ line \in 0..NoLine
    /\ edits \in 0..MaxEdits

Init ==
    /\ stage = [t \in Tickets |-> "none"]
    /\ gate = [t \in Tickets |-> "none"]
    /\ card = [t \in Tickets |-> NoCard]
    /\ delivered = FALSE /\ subs = <<>> /\ complaints = <<>>
    /\ unattended \in BOOLEAN /\ aside = FALSE
    /\ settling = {} /\ line = NoLine
    /\ edits = 0

-----------------------------------------------------------------------------
(* The rows. *)

SubsOf(t) == {s \in DOMAIN subs : subs[s].ticket = t}
Newest(s) == \A r \in SubsOf(subs[s].ticket) : r <= s

\* boundCheckIds and checkResults: the gate's last run since the hand-over was
\* made; with no gate, nothing holds it back.  Only of the newest are they read.
Result(s) == IF gate[subs[s].ticket] = "none" THEN "pass" ELSE gate[subs[s].ticket]
\* A gate has no run yet that counts for what is made now.
Unrun(t) == [gate EXCEPT ![t] = IF @ = "none" THEN @ ELSE "not_run"]

\* Ready to be decided: the row and its ticket both still say so.
Decidable(s) == subs[s].state \in Handed /\ stage[subs[s].ticket] \in Handed

\* Mutant: a hand-over with its reviewer is left as it is.
SupButReviews(f, t) ==
    [s \in DOMAIN f |-> IF f[s].ticket = t /\ f[s].state \in OpenStates \ {"in_review"}
                        THEN [f[s] EXCEPT !.state = "superseded", !.awaiting = "no"] ELSE f[s]]

Sup(f, t) ==  \* supersedeOpen
    [s \in DOMAIN f |-> IF f[s].ticket = t /\ f[s].state \in OpenStates
                        THEN [f[s] EXCEPT !.state = "superseded", !.awaiting = "no"] ELSE f[s]]

Decide(s, state) == [subs EXCEPT ![s].state = state, ![s].awaiting = "no", ![s].rev = "off"]

\* setTicketStage, and the delivered plan it may reopen.
Moved(t, to) == [stage EXCEPT ![t] = to]
\* Mutant: only work sent back reopens a delivered plan.
StillDeliveredButRework(t, to) == delivered /\ ~(stage[t] = "approved" /\ to = "rework")
StillDelivered(t, to) == delivered /\ ~(stage[t] = "approved" /\ to \notin {"approved", "dropped"})
SetTicketStage(t, to) == stage' = Moved(t, to) /\ delivered' = StillDelivered(t, to)

\* A line of yours or an edit wakes a dormant plan; what a stop covers stays so.
Woken == aside' \in {aside, FALSE}
\* Reopening a delivered plan wakes it too.
WokenIfReopened == IF delivered /\ ~delivered' THEN Woken ELSE UNCHANGED aside

\* settlePlanStage: every ticket there is and not dropped is approved; the plan's own
\* gates may still hold it back.
MayDeliver(f) ==
    LET left == {t \in Tickets : f[t] \notin Gone}
    IN  left # {} /\ \A t \in left : f[t] = "approved"
SettlePlanStage(f, before) ==
    \/ delivered' = before
    \/ MayDeliver(f) /\ delivered' = TRUE

\* checkCeiling: a failure may put up a card, once while one waits.
CheckCeiling(t, which) ==
    card' \in {card} \cup (IF card[t] = NoCard THEN {[card EXCEPT ![t] = which]} ELSE {})
CloseCard(t) == card' = [card EXCEPT ![t] = NoCard]

\* failOnGates: the hand-over failed; a ticket handed over or approved goes back.
FailOnGates(s) ==
    LET t == subs[s].ticket
        back == IF stage[t] \in Reworkable THEN "rework" ELSE IF stage[t] = "todo" THEN "doing" ELSE stage[t]
    IN  /\ subs' = Decide(s, "checks_failed")
        /\ SetTicketStage(t, back)
        /\ CheckCeiling(t, FailureCard)

\* approve: the whole ticket, or parts of it while others are still open.
Approve(s) ==
    LET t == subs[s].ticket
    IN  /\ subs' = Decide(s, "approved")
        /\ \E whole \in BOOLEAN :
              LET to == IF whole THEN "approved" ELSE "doing"
              IN  /\ stage' = Moved(t, to)
                  /\ IF whole THEN CloseCard(t) ELSE UNCHANGED card
                  /\ SettlePlanStage(Moved(t, to), StillDelivered(t, to))

ResolveApproval(s) == IF Result(s) = "pass" THEN Approve(s) ELSE FailOnGates(s)

AwaitYourWord(s, kind) == subs' = [subs EXCEPT ![s].awaiting = kind]

-----------------------------------------------------------------------------
(* Handing over. *)

\* What settle() is told to wait on; its mutant is off by one.
SettlingNext == {Len(subs) + 2}
SettlingNew == {Len(subs) + 1}

\* The row prepareSubmission writes: what was open gives way, a todo ticket reads
\* doing.  Files or words that are not new are refused; these are always new.  An
\* ending's sweep (implicit) reads the stage before it awaits the hashes, so it
\* may land on any stage, as a submit may.
NewSubmission(t, origin) ==
    /\ stage[t] \notin {"none", "voided"}
    /\ card[t] = NoCard
    /\ Len(subs) < MaxSubs
    /\ subs' = Append(Sup(subs, t),
                      [ticket |-> t, state |-> "checking", origin |-> origin, awaiting |-> "no", rev |-> "off"])
    /\ gate' = Unrun(t)
    /\ settling' = settling \cup SettlingNew
    /\ SetTicketStage(t, IF stage[t] = "todo" THEN "doing" ELSE stage[t])
    /\ WokenIfReopened
    /\ UNCHANGED <<card, complaints, unattended, line, edits>>

Submit(t) == NewSubmission(t, "file")

\* answer: words, on a ticket no file was ever handed over on.
Answer(t) ==
    /\ \A s \in SubsOf(t) : subs[s].origin # "file"
    /\ NewSubmission(t, "answer")

\* organizerSaysDone: on a ticket nothing was ever handed over on.
OrganizerSaysDone(t) ==
    /\ stage[t] \notin {"approved"} \cup Gone \cup Handed
    /\ SubsOf(t) = {} /\ card[t] = NoCard /\ Len(subs) < MaxSubs
    /\ subs' = Append(subs, [ticket |-> t, state |-> "submitted", origin |-> "organizer",
                             awaiting |-> "no", rev |-> "off"])
    /\ gate' = Unrun(t)
    /\ SetTicketStage(t, "submitted")
    /\ WokenIfReopened
    /\ UNCHANGED <<card, complaints, unattended, settling, line, edits>>

\* A run of the ticket's gate ends; a review that waits for it sees it too.
RunGate(t, outcome) ==
    /\ gate[t] # "none"
    /\ gate' = [gate EXCEPT ![t] = outcome]
    /\ subs' = [s \in DOMAIN subs |-> IF subs[s].ticket = t /\ subs[s].rev # "off"
                                     THEN [subs[s] EXCEPT !.rev = "ran"] ELSE subs[s]]
    /\ UNCHANGED <<stage, card, delivered, complaints, unattended, aside, settling,
                   line, edits>>

\* Superseded while its checks ran, it is left alone; the mutant settles any.
AnyChecking(s) == TRUE
StillChecking(s) == subs[s].state = "checking"

\* settle and settleSubmissionChecks.  The wait gives up after CHECK_ROUNDS, so a
\* gate may not have run; a step of your own may fail as a gate does.
Settle(s) ==
    LET t == subs[s].ticket
    IN  /\ s \in settling
        /\ settling' = settling \ {s}
        /\ IF ~StillChecking(s)
           THEN UNCHANGED <<stage, card, delivered, subs>>
           ELSE \/ FailOnGates(s)  \* the gate failed or did not run, or a step of your own did
                \/ /\ Result(s) = "pass"
                   /\ \E to \in Handed :  \* in_review when ticketReviewer names a Bot
                         SetTicketStage(t, to) /\ subs' = [subs EXCEPT ![s].state = to]
                   /\ UNCHANGED card
        /\ WokenIfReopened
        /\ UNCHANGED <<gate, complaints, unattended, line, edits>>

-----------------------------------------------------------------------------
(* A review. *)

\* review: an approval first has the checks run again, from now on.
BeginReview(s) ==
    /\ subs[s].state \in Handed /\ gate[subs[s].ticket] # "none" /\ subs[s].rev = "off"
    /\ subs' = [subs EXCEPT ![s].rev = "waiting"]
    /\ UNCHANGED <<stage, gate, card, delivered, complaints, unattended, aside,
                   settling, line, edits>>

\* reviewSubmission with approve: by the rerun's result, then refused for
\* evidence, left to your word, or approved; on an unattended plan approved.
ReviewApprove(s) ==
    LET rerun == IF subs[s].rev = "waiting" THEN "not_run" ELSE Result(s)
        over == [subs EXCEPT ![s].rev = "off"]
    IN  /\ gate[subs[s].ticket] = "none" \/ subs[s].rev # "off"
        /\ \/ /\ subs[s].rev # "off"  \* moved on meanwhile, or refused
              /\ subs' = over
              /\ UNCHANGED <<stage, card, delivered>>
           \/ /\ Decidable(s) /\ subs[s].awaiting = "no" /\ rerun = "pass"
              /\ \/ /\ ~unattended
                    /\ \E kind \in IF subs[s].origin \in NeedsUser THEN {"word"} ELSE {"word", "items"} :
                          subs' = [over EXCEPT ![s].awaiting = kind]
                    /\ UNCHANGED <<stage, card, delivered>>
                 \/ /\ unattended \/ subs[s].origin \notin NeedsUser
                    /\ Approve(s)
        /\ WokenIfReopened
        /\ UNCHANGED <<gate, complaints, unattended, settling, line, edits>>

\* reviewSubmission with reject: it always records.
ReviewReject(s) ==
    LET t == subs[s].ticket
    IN  /\ Decidable(s) /\ subs[s].awaiting = "no"
        /\ subs' = Decide(s, "rejected")
        /\ SetTicketStage(t, "rework")
        /\ CheckCeiling(t, FailureCard)
        /\ WokenIfReopened
        /\ UNCHANGED <<gate, complaints, unattended, settling, line, edits>>

-----------------------------------------------------------------------------
(* The supervisor's tick. *)

\* Approved with nobody asked: done in one go, or a gate of yours backs it.  The
\* mutant asks nobody for words either.
InOneGoWhatever(s) == TRUE
InOneGo(s) == subs[s].origin = "file"

\* takeUpAwaiting: against what is true now; on an unattended plan whatever waits
\* is approved, an answer or an organizer's reading too.
TakeUpAwaiting(s) ==
    \/ Result(s) = "fail" /\ FailOnGates(s)
    \/ unattended /\ Result(s) = "pass" /\ Approve(s)
    \/ /\ ~unattended /\ Result(s) = "pass"
       /\ \/ subs[s].awaiting = "pending" /\ ResolveApproval(s)
          \/ /\ subs[s].awaiting = "no"
             /\ \/ InOneGo(s) /\ Approve(s)
                \/ /\ \E kind \in IF subs[s].origin \in NeedsUser THEN {"word"} ELSE {"word", "items"} :
                        AwaitYourWord(s, kind)
                   /\ UNCHANGED <<stage, card, delivered>>
          \/ subs[s].awaiting = "items" /\ Approve(s)            \* nothing it waited for is left

\* The rows the tick looks at; the mutant forgets those that wait in review.
WaitingSubmitted(s) == subs[s].state = "submitted"
Waiting(s) == subs[s].state = "submitted" \/ subs[s].awaiting # "no"

\* superviseSubmissions on one row, of a plan it does not pass by; a gate not run
\* yet is run for it (RunGate).
Tick(s) ==
    /\ ~aside
    /\ Decidable(s)
    /\ Waiting(s)
    /\ \/ /\ subs[s].awaiting = "no"  \* ticketReviewer names a Bot by now
          /\ subs' = [subs EXCEPT ![s].state = "in_review"]
          /\ SetTicketStage(subs[s].ticket, "in_review")
          /\ UNCHANGED card
       \/ TakeUpAwaiting(s)
    /\ UNCHANGED <<gate, complaints, unattended, aside, settling, line, edits>>

-----------------------------------------------------------------------------
(* Your words. *)

\* A line of yours about the plan goes to the reader, a model call.
Say ==
    /\ line = NoLine
    /\ line' = Len(subs)
    /\ Woken
    /\ UNCHANGED <<stage, gate, card, delivered, subs, complaints, unattended, settling, edits>>

\* The reader found nothing in it to do.
ReadNothing ==
    /\ line # NoLine
    /\ line' = NoLine
    /\ UNCHANGED <<stage, gate, card, delivered, subs, complaints, unattended, aside,
                   settling, edits>>

\* passByYourWord: handed over before the line and still waiting, as of now.
PassByYourWord(s) ==
    /\ line # NoLine /\ s <= line
    /\ Decidable(s)
    /\ ~(subs[s].state = "in_review" /\ subs[s].awaiting = "no")
    /\ subs[s].awaiting # "pending"
    /\ line' = NoLine
    /\ IF Result(s) = "not_run"
       THEN /\ AwaitYourWord(s, "pending")
            /\ UNCHANGED <<stage, card, delivered>>
       ELSE ResolveApproval(s)
    /\ WokenIfReopened
    /\ UNCHANGED <<gate, complaints, unattended, settling, edits>>

\* takeUpPendingApproval: the gate your word waited for has had its runs.
TakeUpPendingApproval(s) ==
    /\ subs[s].state \in Handed /\ subs[s].awaiting = "pending"
    /\ Result(s) # "not_run"
    /\ ResolveApproval(s)
    /\ WokenIfReopened
    /\ UNCHANGED <<gate, complaints, unattended, settling, line, edits>>

\* noteComplaint and sendBack: whatever is handed over or approved now goes back.
NoteComplaint(t) ==
    /\ line # NoLine
    /\ stage[t] \in Reworkable
    /\ Len(complaints) < MaxComplaints
    /\ line' = NoLine
    /\ complaints' = Append(complaints,
          [ticket |-> t, stage |-> stage[t], delivered |-> delivered, at |-> Len(subs), undone |-> FALSE,
           was |-> [s \in 1..MaxSubs |-> IF s \in SubsOf(t) /\ subs[s].state \in OpenStates THEN subs[s].state ELSE "superseded"]])
    /\ subs' = Sup(subs, t)
    /\ stage' = Moved(t, "rework") /\ delivered' = FALSE
    /\ IF \E s \in SubsOf(t) : subs[s].state \in OpenStates \cup {"approved"}
       THEN CheckCeiling(t, Len(complaints) + 1)
       ELSE UNCHANGED card  \* nothing of it to count as sent back
    /\ WokenIfReopened
    /\ UNCHANGED <<gate, unattended, settling, edits>>

\* Nothing of a complaint taken back is read again.
Undone(complaint) ==
    [complaint EXCEPT !.undone = TRUE, !.stage = "rework", !.delivered = FALSE,
                      !.was = [s \in 1..MaxSubs |-> "superseded"]]

\* Handed over again since; the mutant does not look.
NeverMovedOn(c) == FALSE
MovedOn(c) == \E s \in SubsOf(complaints[c].ticket) : s > complaints[c].at

\* undoRework: refused once the work has moved on.
UndoRework(c) ==
    LET t == complaints[c].ticket
        back == {s \in SubsOf(t) : complaints[c].was[s] \in OpenStates}
        open == {s \in back : subs[s].state = "superseded"}
    IN  /\ ~complaints[c].undone
        /\ stage[t] = "rework"
        /\ ~MovedOn(c)
        /\ subs' = [s \in DOMAIN subs |-> IF s \in open THEN [subs[s] EXCEPT !.state = complaints[c].was[s]] ELSE subs[s]]
        /\ stage' = Moved(t, complaints[c].stage)
        /\ IF complaints[c].delivered THEN SettlePlanStage(stage', delivered) ELSE UNCHANGED delivered
        /\ IF card[t] = c THEN CloseCard(t) ELSE UNCHANGED card
        /\ complaints' = [complaints EXCEPT ![c] = Undone(@)]
        /\ UNCHANGED <<gate, unattended, aside, settling, line, edits>>

\* patchTicketByUser: the trigger brings the stage along, noteBoardStatus the rest.
BoardEdit(t, to) ==
    LET statusOf == [x \in Stages |-> CASE x \in Handed -> "submitted" [] x = "rework" -> "doing"
                                           [] x = "voided" -> "dropped" [] OTHER -> x]
    IN  /\ stage[t] # "none"
        /\ to # statusOf[stage[t]] /\ edits < MaxEdits
        /\ edits' = edits + 1
        /\ stage' = Moved(t, to)
        /\ subs' = Sup(subs, t)
        /\ CloseCard(t)
        /\ Woken
        /\ UNCHANGED <<gate, delivered, complaints, unattended, settling, line>>

\* answerCeilingCard: accepted as it is, or gone on with some other way.
AnswerCeilingCard(t) ==
    /\ card[t] # NoCard
    /\ CloseCard(t)
    /\ \/ UNCHANGED <<stage, delivered>>
       \/ stage' = Moved(t, "approved") /\ SettlePlanStage(stage', delivered)
    /\ UNCHANGED <<gate, subs, complaints, unattended, aside, settling, line, edits>>

\* A gate is bound to the ticket, with no run yet.
AddGate(t) ==
    /\ stage[t] # "none" /\ gate[t] = "none"
    /\ gate' = [gate EXCEPT ![t] = "not_run"]
    /\ UNCHANGED <<stage, card, delivered, subs, complaints, unattended, aside, settling,
                   line, edits>>

\* The process dies: what waited at an await is gone, nothing takes it up again at boot.
Crash ==
    /\ settling' = {} /\ line' = NoLine
    /\ subs' = [s \in DOMAIN subs |-> [subs[s] EXCEPT !.rev = "off"]]
    /\ UNCHANGED <<stage, gate, card, delivered, complaints, unattended, aside, edits>>

-----------------------------------------------------------------------------
(* The tickets, and the plan around them. *)

\* createTicket: for a layout, a segment taking the plan up, also a delivered one,
\* or a routine's firing; the plan's stage is left as it is.
NewTicket(t) ==
    /\ stage[t] = "none"
    /\ \E to \in IF unattended THEN {"todo", "doing"} ELSE {"todo"} : stage' = Moved(t, to)
    /\ UNCHANGED <<gate, card, delivered, subs, complaints, unattended, aside, settling,
                   line, edits>>

\* Nothing handed over on it is still to be decided; the mutant does not look.
WhateverIsOpen(t) == TRUE
NothingOpen(t) == \A s \in SubsOf(t) : subs[s].state \notin OpenStates

\* dropTicket: the lead of an active plan takes out a ticket with nothing of it open.
Drop(t) ==
    /\ ~delivered
    /\ stage[t] \in {"todo", "doing", "rework"}
    /\ NothingOpen(t)
    /\ stage' = Moved(t, "voided")
    /\ UNCHANGED <<gate, card, delivered, subs, complaints, unattended, aside, settling,
                   line, edits>>

\* A stop over the plan, its going dormant, or its engine running no jobs; and back.
PassBy(now) ==
    /\ aside # now
    /\ aside' = now
    /\ UNCHANGED <<stage, gate, card, delivered, subs, complaints, unattended, settling,
                   line, edits>>

\* You switch waiting on your word off, or on again, for the plan's engine.
SwitchWaitWord ==
    /\ unattended' = ~unattended
    /\ UNCHANGED <<stage, gate, card, delivered, subs, complaints, aside, settling, line,
                   edits>>

-----------------------------------------------------------------------------
Next ==
    \/ \E t \in Tickets : \/ Submit(t) \/ Answer(t) \/ OrganizerSaysDone(t)
                          \/ \E o \in {"pass", "fail"} : RunGate(t, o)
                          \/ NoteComplaint(t) \/ AnswerCeilingCard(t) \/ AddGate(t)
                          \/ NewTicket(t) \/ Drop(t)
                          \/ \E to \in {"todo", "doing", "submitted", "approved", "dropped"} : BoardEdit(t, to)
    \/ \E s \in DOMAIN subs : \/ Settle(s) \/ BeginReview(s) \/ ReviewApprove(s) \/ ReviewReject(s)
                              \/ Tick(s) \/ PassByYourWord(s) \/ TakeUpPendingApproval(s)
    \/ \E c \in DOMAIN complaints : UndoRework(c)
    \/ \E now \in BOOLEAN : PassBy(now)
    \/ Say \/ ReadNothing \/ SwitchWaitWord \/ Crash

\* A ticket whose gate your word is waiting for: each tick that does not pass the
\* plan by asks for its run.
RunPending(t) ==
    /\ ~aside
    /\ \E s \in SubsOf(t) : Decidable(s) /\ subs[s].awaiting = "pending" /\ Result(s) = "not_run"
    /\ \E o \in {"pass", "fail"} : RunGate(t, o)

\* The tick comes round and a check asked for ends, within RUN_BUDGET_MS.
Fairness ==
    /\ \A t \in Tickets : WF_vars(RunPending(t))
    /\ \A s \in 1..MaxSubs : WF_vars(s \in DOMAIN subs /\ subs[s].awaiting = "pending" /\ Tick(s))

Spec == Init /\ [][Next]_vars /\ Fairness

-----------------------------------------------------------------------------
(* Properties. *)

\* What a hand-over comes to, whatever decides it.
Fate(state) ==
    CASE state \in OpenStates -> "open"
      [] state = "approved" -> "accepted"
      [] state = "superseded" -> "withdrawn"
      [] OTHER -> "refused"
Abstract == INSTANCE HandOver WITH
    offers <- [s \in DOMAIN subs |-> [ticket |-> subs[s].ticket, fate |-> Fate(subs[s].state)]]

\* The detailed protocol implements the abstract one: of a ticket's hand-overs
\* only the newest is ever decided, once, whatever races to decide it.
ImplementsHandOver == Abstract!Spec

\* A hand-over waiting to be decided is one its ticket waits on: the reviewer, the
\* tick and your word all turn away from one whose ticket says otherwise, and
\* nothing else would ever move it (superviseSubmissions, reviewSubmission).  With
\* two complaints, taking back the first after the second was made leaves the
\* second's ceiling card over the hand-over put back: that case is left out.
TakenUp ==
    Len(complaints) < 2 => \A s \in DOMAIN subs : subs[s].state \in Handed => stage[subs[s].ticket] \in Handed

\* Words, and an organizer's reading, that nobody made are approved only by a word
\* of yours (ORIGIN_NEEDS_USER): no review, tick or clean gate does it alone, except
\* on a plan that is unattended then (takenUnattended), as you set it up.
WordsWaitOnYou ==
    [][\A s \in DOMAIN subs :
          subs[s].origin \in NeedsUser /\ subs[s].state # "approved" /\ subs'[s].state = "approved"
          => unattended \/ subs[s].awaiting = "pending" \/ (line # NoLine /\ line' = NoLine)]_vars

\* Every ticket there is and not dropped is approved, and there is one.
Through(f) ==
    /\ \A t \in Tickets : f[t] \in {"approved"} \cup Gone
    /\ \E t \in Tickets : f[t] = "approved"

\* A plan becomes delivered only with every ticket approved (settlePlanStage), and
\* while it stays delivered no ticket leaves approved except by your edit on the
\* board: handed in again, judged again or sent back, it reopens the plan first
\* (reopenDeliveredPlan), also by a check or a review that comes late.
DeliveredIsKept ==
    [][delivered' => IF delivered
                     THEN \A t \in Tickets : stage[t] = "approved" => stage'[t] = "approved" \/ edits' # edits
                     ELSE Through(stage')]_vars

\* A ticket its lead dropped stays dropped (dropTicket, droppedWhy): nothing handed
\* over on it before, still being checked or judged, brings it back.  Only you do,
\* on the board or by accepting the work its ceiling card is about.
DroppedStays ==
    [][\A t \in Tickets :
          stage[t] = "voided" => \/ stage'[t] = "voided" /\ SubsOf(t)' = SubsOf(t)
                                 \/ edits' # edits
                                 \/ card[t] # NoCard /\ card'[t] = NoCard]_vars

\* Work sent back stays sent back until it is handed over again, or you say
\* otherwise: no review, tick or late settling brings an old hand-over back.
StaysSentBack ==
    [][\A t \in Tickets :
          stage[t] = "rework" /\ stage'[t] \in Reworkable
          => \/ \E s \in SubsOf(t) : Newest(s) /\ subs[s].state = "checking"
             \/ SubsOf(t) = {} \* an organizer's reading of a ticket you sent back
             \/ edits' # edits
             \/ card[t] # NoCard /\ card'[t] = NoCard
             \/ complaints' # complaints]_vars

\* Your word that let a hand-over through while its gate had not run is acted on
\* in the end, through crashes: approved, sent back, or overtaken.  Unless the plan
\* is dormant or under a stop time and again: the tick passes it by meanwhile.
WordPending(s) == s \in DOMAIN subs /\ subs[s].awaiting = "pending"
YourWordCounts == <>[]~aside => \A s \in 1..MaxSubs : WordPending(s) ~> ~WordPending(s)
=============================================================================
