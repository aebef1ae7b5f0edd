------------------------- MODULE Submissions_proofs --------------------------
(* The tables of hand-overs keep what HandOver promises, for every number of   *)
(* tickets, hand-overs, complaints and edits: type correctness, the invariant  *)
(* that an open hand-over is its ticket's newest, the refinement, and what     *)
(* stays so of tickets delivered, dropped, sent back or waiting on your word.  *)
EXTENDS Submissions, SequenceTheorems, TLAPS

-----------------------------------------------------------------------------
(* Rows and the writes the handlers share. *)

LEMMA Rows ==
    ASSUME TypeOK
    PROVE  /\ Len(subs) \in Nat /\ DOMAIN subs = 1..Len(subs)
           /\ \A s \in DOMAIN subs : subs[s] \in Submission
BY LenProperties, ElementOfSeq DEF TypeOK

LEMMA SeqOfRows ==
    ASSUME NEW S, NEW n \in Nat, NEW g \in [1..n -> S]
    PROVE  g \in Seq(S) /\ Len(g) = n /\ DOMAIN g = 1..n
<1>1. g \in Seq(S)  BY SeqDef
<1>2. Len(g) \in Nat /\ DOMAIN g = 1..Len(g)  BY <1>1, LenProperties
<1>3. 1..Len(g) = 1..n  BY <1>2
<1>4. Len(g) = n  BY <1>2, <1>3
<1> QED  BY <1>1, <1>4

\* Rewriting every row keeps a sequence of rows.
LEMMA Rewritten ==
    ASSUME NEW S, NEW f \in Seq(S), NEW g, g = [r \in DOMAIN f |-> g[r]],
           \A r \in DOMAIN f : g[r] \in S
    PROVE  g \in Seq(S) /\ Len(g) = Len(f) /\ DOMAIN g = DOMAIN f
<1>1. Len(f) \in Nat /\ DOMAIN f = 1..Len(f)  BY LenProperties
<1>2. g \in [1..Len(f) -> S]  BY <1>1
<1> QED  BY <1>1, <1>2, SeqOfRows

LEMMA Added ==
    ASSUME NEW S, NEW f \in Seq(S), NEW e \in S
    PROVE  /\ Append(f, e) \in Seq(S) /\ Len(Append(f, e)) = Len(f) + 1
           /\ DOMAIN Append(f, e) = DOMAIN f \cup {Len(f) + 1}
           /\ \A r \in DOMAIN f : Append(f, e)[r] = f[r]
           /\ Append(f, e)[Len(f) + 1] = e
BY AppendProperties, LenProperties

LEMMA SupRows ==
    ASSUME TypeOK, NEW t
    PROVE  /\ Sup(subs, t) \in Seq(Submission) /\ Len(Sup(subs, t)) = Len(subs)
           /\ DOMAIN Sup(subs, t) = DOMAIN subs
           /\ \A s \in DOMAIN subs :
                /\ Sup(subs, t)[s].ticket = subs[s].ticket
                /\ Sup(subs, t)[s].state = IF subs[s].ticket = t /\ subs[s].state \in OpenStates
                                           THEN "superseded" ELSE subs[s].state
<1> DEFINE g == Sup(subs, t)
<1>1. subs \in Seq(Submission) /\ g = [r \in DOMAIN subs |-> g[r]]  BY DEF TypeOK, Sup
<1>2. \A s \in DOMAIN subs : g[s] \in Submission
  <2> TAKE s \in DOMAIN subs
  <2>1. subs[s] \in Submission  BY Rows
  <2> QED  BY <2>1 DEF Sup, Submission, SubStates, OpenStates, Handed, Awaitings
<1>3. \A s \in DOMAIN subs :
        /\ g[s].ticket = subs[s].ticket
        /\ g[s].state = IF subs[s].ticket = t /\ subs[s].state \in OpenStates
                        THEN "superseded" ELSE subs[s].state
  <2> TAKE s \in DOMAIN subs
  <2>1. subs[s] \in Submission  BY Rows
  <2> QED  BY <2>1 DEF Sup, Submission
<1> QED  BY <1>1, <1>2, <1>3, Rewritten

\* One row is replaced by another of its ticket.
LEMMA OneRow ==
    ASSUME TypeOK, NEW s \in DOMAIN subs, NEW row \in Submission, row.ticket = subs[s].ticket
    PROVE  LET g == [subs EXCEPT ![s] = row] IN
           /\ g \in Seq(Submission) /\ Len(g) = Len(subs) /\ DOMAIN g = DOMAIN subs
           /\ \A r \in DOMAIN subs : g[r].ticket = subs[r].ticket
           /\ g[s] = row /\ \A r \in DOMAIN subs : r # s => g[r] = subs[r]
<1>1. subs \in Seq(Submission) /\ s \in 1..Len(subs)  BY Rows DEF TypeOK
<1> QED  BY <1>1, ExceptSeq, Rows

LEMMA DecideRows ==
    ASSUME TypeOK, NEW s \in DOMAIN subs, NEW state \in SubStates
    PROVE  /\ Decide(s, state) \in Seq(Submission) /\ Len(Decide(s, state)) = Len(subs)
           /\ DOMAIN Decide(s, state) = DOMAIN subs
           /\ \A r \in DOMAIN subs : Decide(s, state)[r].ticket = subs[r].ticket
           /\ Decide(s, state)[s].state = state
           /\ \A r \in DOMAIN subs : r # s => Decide(s, state)[r] = subs[r]
<1> DEFINE row == [subs[s] EXCEPT !.state = state, !.awaiting = "no", !.rev = "off"]
<1>1. subs[s] \in Submission  BY Rows
<1>2. row \in Submission /\ row.ticket = subs[s].ticket /\ row.state = state
  BY <1>1 DEF Submission, Awaitings
<1>3. Decide(s, state) = [subs EXCEPT ![s] = row]  BY DEF Decide
<1> HIDE DEF row
<1> QED  BY <1>2, <1>3, OneRow

-----------------------------------------------------------------------------
(* The rows a handler leaves behind. *)

RowsWritten ==
    /\ stage' \in [Tickets -> Stages] /\ card' \in [Tickets -> Cards] /\ delivered' \in BOOLEAN
    /\ subs' \in Seq(Submission) /\ Len(subs') = Len(subs)

LEMMA StageType ==
    ASSUME TypeOK, NEW t \in Tickets, NEW to \in Stages
    PROVE  Moved(t, to) \in [Tickets -> Stages] /\ StillDelivered(t, to) \in BOOLEAN
BY DEF TypeOK, Moved, StillDelivered

LEMMA CardTypes ==
    ASSUME TypeOK, NEW t \in Tickets
    PROVE  /\ \A which \in Cards : CheckCeiling(t, which) => card' \in [Tickets -> Cards]
           /\ CloseCard(t) => card' \in [Tickets -> Cards]
           /\ FailureCard \in Cards /\ NoCard \in Cards /\ Len(complaints) + 1 \in 1..(Len(complaints) + 1)
<1>1. MaxComplaints \in Nat /\ card \in [Tickets -> Cards]  BY SubmissionsAssumption DEF TypeOK
<1>2. FailureCard \in Cards /\ NoCard \in Cards  BY <1>1 DEF FailureCard, Cards, NoCard
<1>3. Len(complaints) \in Nat  BY LenProperties DEF TypeOK
<1> QED  BY <1>1, <1>2, <1>3 DEF CheckCeiling, CloseCard

-----------------------------------------------------------------------------
(* What a step does to the states of hand-overs. *)

TicketsStay == DOMAIN subs' = DOMAIN subs /\ \A r \in DOMAIN subs : subs'[r].ticket = subs[r].ticket
Becomes(s, states) ==
    /\ TicketsStay /\ subs'[s].state \in states
    /\ \A r \in DOMAIN subs : r # s => subs'[r].state = subs[r].state
StatesStay == TicketsStay /\ \A r \in DOMAIN subs : subs'[r].state = subs[r].state
GivenWay(t) ==
    \A r \in DOMAIN subs :
        /\ subs'[r].ticket = subs[r].ticket
        /\ subs'[r].state = IF subs[r].ticket = t /\ subs[r].state \in OpenStates
                            THEN "superseded" ELSE subs[r].state
Decisions == {"approved", "checks_failed", "rejected"}

LEMMA FailType ==
    ASSUME TypeOK, NEW s \in DOMAIN subs, FailOnGates(s)
    PROVE  RowsWritten /\ Becomes(s, Decisions)
<1> DEFINE t == subs[s].ticket
           back == IF stage[t] \in Reworkable THEN "rework" ELSE IF stage[t] = "todo" THEN "doing" ELSE stage[t]
<1>1. t \in Tickets  BY Rows DEF Submission
<1>2. back \in Stages  BY <1>1 DEF TypeOK, Stages
<1>3. subs' = Decide(s, "checks_failed") /\ SetTicketStage(t, back) /\ CheckCeiling(t, FailureCard)
  BY DEF FailOnGates
<1>4. "checks_failed" \in SubStates  BY DEF SubStates
<1> HIDE DEF t, back
<1>5. stage' \in [Tickets -> Stages] /\ delivered' \in BOOLEAN
  BY <1>1, <1>2, <1>3, StageType DEF SetTicketStage
<1>6. card' \in [Tickets -> Cards]  BY <1>1, <1>3, CardTypes
<1> QED  BY <1>3, <1>4, <1>5, <1>6, DecideRows DEF RowsWritten, Becomes, TicketsStay, Decisions

LEMMA ApproveType ==
    ASSUME TypeOK, NEW s \in DOMAIN subs, Approve(s)
    PROVE  RowsWritten /\ Becomes(s, Decisions)
<1> DEFINE t == subs[s].ticket
<1>1. t \in Tickets  BY Rows DEF Submission
<1>2. subs' = Decide(s, "approved") /\ "approved" \in SubStates  BY DEF Approve, SubStates
<1>3. PICK whole \in BOOLEAN :
        LET to == IF whole THEN "approved" ELSE "doing"
        IN  /\ stage' = Moved(t, to)
            /\ IF whole THEN CloseCard(t) ELSE UNCHANGED card
            /\ SettlePlanStage(Moved(t, to), StillDelivered(t, to))
  BY DEF Approve
<1> DEFINE to == IF whole THEN "approved" ELSE "doing"
<1>4. to \in Stages  BY DEF Stages
<1>5. stage' = Moved(t, to) /\ SettlePlanStage(Moved(t, to), StillDelivered(t, to))  BY <1>3
<1>6. card' \in [Tickets -> Cards]  BY <1>1, <1>3, CardTypes DEF TypeOK
<1> HIDE DEF t, to
<1>7. stage' \in [Tickets -> Stages] /\ delivered' \in BOOLEAN
  BY <1>1, <1>4, <1>5, StageType DEF SettlePlanStage
<1> QED  BY <1>2, <1>6, <1>7, DecideRows DEF RowsWritten, Becomes, TicketsStay, Decisions

LEMMA ResolveType ==
    ASSUME TypeOK, NEW s \in DOMAIN subs, ResolveApproval(s)
    PROVE  RowsWritten /\ Becomes(s, Decisions)
BY FailType, ApproveType DEF ResolveApproval

\* One row's wait or review changes, and nothing else of the rows.
LEMMA AwaitType ==
    ASSUME TypeOK, NEW s \in DOMAIN subs,
           \/ \E kind \in Awaitings : AwaitYourWord(s, kind)
           \/ \E rev \in {"off", "waiting", "ran"} : subs' = [subs EXCEPT ![s].rev = rev]
           \/ \E kind \in Awaitings : subs' = [[subs EXCEPT ![s].rev = "off"] EXCEPT ![s].awaiting = kind]
    PROVE  subs' \in Seq(Submission) /\ Len(subs') = Len(subs) /\ StatesStay
<1>1. subs[s] \in Submission  BY Rows
<1>2. PICK row \in Submission :
        /\ row.ticket = subs[s].ticket /\ row.state = subs[s].state
        /\ subs' = [subs EXCEPT ![s] = row]
  <2>1. CASE \E kind \in Awaitings : AwaitYourWord(s, kind)
    <3>1. PICK kind \in Awaitings : subs' = [subs EXCEPT ![s].awaiting = kind]  BY <2>1 DEF AwaitYourWord
    <3>2. [subs[s] EXCEPT !.awaiting = kind] \in Submission  BY <1>1 DEF Submission
    <3> QED  BY <1>1, <3>1, <3>2 DEF Submission
  <2>2. CASE \E rev \in {"off", "waiting", "ran"} : subs' = [subs EXCEPT ![s].rev = rev]
    <3>1. PICK rev \in {"off", "waiting", "ran"} : subs' = [subs EXCEPT ![s].rev = rev]  BY <2>2
    <3>2. [subs[s] EXCEPT !.rev = rev] \in Submission  BY <1>1 DEF Submission
    <3> QED  BY <1>1, <3>1, <3>2 DEF Submission
  <2>3. CASE \E kind \in Awaitings : subs' = [[subs EXCEPT ![s].rev = "off"] EXCEPT ![s].awaiting = kind]
    <3>1. PICK kind \in Awaitings : subs' = [[subs EXCEPT ![s].rev = "off"] EXCEPT ![s].awaiting = kind]  BY <2>3
    <3>2. subs' = [subs EXCEPT ![s] = [subs[s] EXCEPT !.rev = "off", !.awaiting = kind]]  BY <3>1
    <3>3. [subs[s] EXCEPT !.rev = "off", !.awaiting = kind] \in Submission  BY <1>1 DEF Submission
    <3> QED  BY <1>1, <3>2, <3>3 DEF Submission
  <2> QED  BY <2>1, <2>2, <2>3
<1> QED  BY <1>2, OneRow DEF StatesStay, TicketsStay

-----------------------------------------------------------------------------
(* What every step is, of the hand-overs and of the complaints. *)

HandedOver(t) ==
    /\ GivenWay(t) /\ DOMAIN subs' = DOMAIN subs \cup {Len(subs) + 1} /\ Len(subs') = Len(subs) + 1
    /\ subs'[Len(subs) + 1].ticket = t /\ subs'[Len(subs) + 1].state \in OpenStates
Complained(t) ==
    /\ GivenWay(t) /\ DOMAIN subs' = DOMAIN subs
    /\ \E c \in Complaint :
          /\ complaints' = Append(complaints, c)
          /\ c.ticket = t /\ c.at = Len(subs)
          /\ \A s \in 1..MaxSubs : c.was[s] \in OpenStates => s \in SubsOf(t) /\ subs[s].state \in OpenStates
PutBackBy(c) ==
    /\ TicketsStay /\ ~MovedOn(c)
    /\ \A s \in DOMAIN subs :
          subs'[s].state = IF /\ s \in SubsOf(complaints[c].ticket) /\ complaints[c].was[s] \in OpenStates
                              /\ subs[s].state = "superseded"
                           THEN complaints[c].was[s] ELSE subs[s].state
    /\ complaints' = [complaints EXCEPT ![c] = Undone(@)]

SubsStep ==
    \/ StatesStay /\ complaints' = complaints
    \/ /\ \E s \in DOMAIN subs : subs[s].state \in OpenStates /\ Becomes(s, OpenStates \cup Decisions)
       /\ complaints' = complaints
    \/ \E t \in Tickets : GivenWay(t) /\ DOMAIN subs' = DOMAIN subs /\ complaints' = complaints
    \/ \E t \in Tickets : HandedOver(t) /\ complaints' = complaints
    \/ \E t \in Tickets : Complained(t)
    \/ \E c \in DOMAIN complaints : PutBackBy(c)

\* TypeOK but for what is known of the plan.
TablesOK ==
    /\ stage \in [Tickets -> Stages]
    /\ gate \in [Tickets -> Gates]
    /\ card \in [Tickets -> Cards]
    /\ delivered \in BOOLEAN
    /\ subs \in Seq(Submission) /\ Len(subs) <= MaxSubs
    /\ complaints \in Seq(Complaint) /\ Len(complaints) <= MaxComplaints
    /\ settling \subseteq DOMAIN subs
    /\ line \in 0..NoLine
    /\ edits \in 0..MaxEdits

LEMMA Typed ==
    ASSUME TypeOK, RowsWritten, gate' \in [Tickets -> Gates], complaints' = complaints,
           settling' \subseteq DOMAIN subs, line' \in 0..NoLine, edits' \in 0..MaxEdits
    PROVE  TablesOK'
<1>1. DOMAIN subs' = 1..Len(subs') /\ DOMAIN subs = 1..Len(subs)  BY LenProperties DEF RowsWritten, TypeOK
<1> QED  BY <1>1 DEF TypeOK, TablesOK, RowsWritten

\* A step whose rows are written by one of the lemmas above, and nothing else but your line.
LEMMA Decided ==
    ASSUME TypeOK, NEW s \in DOMAIN subs, subs[s].state \in OpenStates,
           RowsWritten, Becomes(s, OpenStates \cup Decisions), UNCHANGED <<gate, complaints, edits>>,
           settling' \subseteq settling, line' \in {line, NoLine}
    PROVE  TablesOK' /\ SubsStep
<1>1. line' \in 0..NoLine
  <2>1. MaxSubs \in Nat  BY SubmissionsAssumption
  <2> QED  BY <2>1 DEF TypeOK, NoLine
<1>2. gate' \in [Tickets -> Gates] /\ settling' \subseteq DOMAIN subs /\ edits' \in 0..MaxEdits  BY DEF TypeOK
<1> QED  BY <1>1, <1>2, Typed DEF SubsStep

LEMMA Stayed ==
    ASSUME TypeOK, StatesStay, RowsWritten, UNCHANGED <<complaints, edits>>,
           gate' \in [Tickets -> Gates], settling' \subseteq settling, line' \in 0..NoLine
    PROVE  TablesOK' /\ SubsStep
<1>1. settling' \subseteq DOMAIN subs /\ edits' \in 0..MaxEdits  BY DEF TypeOK
<1> QED  BY <1>1, Typed DEF SubsStep

-----------------------------------------------------------------------------
(* The actions. *)

LEMMA NewRows ==
    ASSUME TypeOK, NEW t \in Tickets, NEW row \in Submission, row.ticket = t, row.state \in OpenStates,
           Len(subs) < MaxSubs, subs' = Append(Sup(subs, t), row)
    PROVE  subs' \in Seq(Submission) /\ Len(subs') <= MaxSubs /\ HandedOver(t)
<1> DEFINE f == Sup(subs, t)
<1>1. /\ f \in Seq(Submission) /\ Len(f) = Len(subs) /\ DOMAIN f = DOMAIN subs
      /\ \A s \in DOMAIN subs :
           /\ f[s].ticket = subs[s].ticket
           /\ f[s].state = IF subs[s].ticket = t /\ subs[s].state \in OpenStates
                           THEN "superseded" ELSE subs[s].state
  BY SupRows
<1>2. subs' = Append(f, row)  OBVIOUS
<1> HIDE DEF f
<1>3. /\ subs' \in Seq(Submission) /\ Len(subs') = Len(f) + 1
      /\ DOMAIN subs' = DOMAIN f \cup {Len(f) + 1}
      /\ \A r \in DOMAIN f : subs'[r] = f[r]
      /\ subs'[Len(f) + 1] = row
  BY <1>1, <1>2, Added
<1>4. MaxSubs \in Nat /\ Len(subs) \in Nat  BY SubmissionsAssumption, Rows
<1> QED  BY <1>1, <1>3, <1>4 DEF HandedOver, GivenWay

\* The part a new hand-over leaves typed beside its row.
LEMMA HandedOverType ==
    ASSUME TypeOK, NEW t \in Tickets, HandedOver(t), subs' \in Seq(Submission), Len(subs') <= MaxSubs,
           gate' = Unrun(t), settling' \subseteq settling \cup {Len(subs) + 1},
           stage' \in [Tickets -> Stages], delivered' \in BOOLEAN,
           UNCHANGED <<card, complaints, line, edits>>
    PROVE  TablesOK' /\ SubsStep
<1>1. gate' \in [Tickets -> Gates]  BY DEF TypeOK, Unrun, Gates, Results
<1>2. settling' \subseteq DOMAIN subs'  BY DEF TypeOK, HandedOver
<1> QED  BY <1>1, <1>2 DEF TypeOK, TablesOK, SubsStep

LEMMA NewSubmissionStep ==
    ASSUME TypeOK, NEW t \in Tickets, NEW origin \in {"file"} \cup NeedsUser, NewSubmission(t, origin)
    PROVE  TablesOK' /\ SubsStep
<1> DEFINE row == [ticket |-> t, state |-> "checking", origin |-> origin, awaiting |-> "no", rev |-> "off"]
           to == IF stage[t] = "todo" THEN "doing" ELSE stage[t]
<1>1. row \in Submission /\ row.ticket = t /\ row.state \in OpenStates
  BY DEF Submission, SubStates, OpenStates, Awaitings, Handed
<1>2. subs' = Append(Sup(subs, t), row) /\ Len(subs) < MaxSubs  BY DEF NewSubmission
<1>3. to \in Stages /\ SetTicketStage(t, to)  BY DEF NewSubmission, TypeOK, Stages
<1>4. settling' = settling \cup {Len(subs) + 1} /\ gate' = Unrun(t)
      /\ UNCHANGED <<card, complaints, line, edits>>
  BY DEF NewSubmission, SettlingNew
<1> HIDE DEF row, to
<1>5. stage' \in [Tickets -> Stages] /\ delivered' \in BOOLEAN  BY <1>3, StageType DEF SetTicketStage
<1>6. subs' \in Seq(Submission) /\ Len(subs') <= MaxSubs /\ HandedOver(t)  BY <1>1, <1>2, NewRows
<1> QED  BY <1>4, <1>5, <1>6, HandedOverType

LEMMA OrganizerSaysDoneStep ==
    ASSUME TypeOK, NEW t \in Tickets, OrganizerSaysDone(t)
    PROVE  TablesOK' /\ SubsStep
<1> DEFINE row == [ticket |-> t, state |-> "submitted", origin |-> "organizer", awaiting |-> "no", rev |-> "off"]
<1>1. row \in Submission /\ row.ticket = t /\ row.state \in OpenStates
  BY DEF Submission, SubStates, OpenStates, Awaitings, Handed, NeedsUser
<1>2. subs' = Append(Sup(subs, t), row) /\ Len(subs) < MaxSubs
  <2>1. \A s \in DOMAIN subs : subs[s].ticket # t  BY DEF OrganizerSaysDone, SubsOf
  <2>2. subs = [s \in DOMAIN subs |-> subs[s]]  BY Rows, LenProperties DEF TypeOK
  <2>3. Sup(subs, t) = subs  BY <2>1, <2>2 DEF Sup
  <2> QED  BY <2>3 DEF OrganizerSaysDone
<1>3. SetTicketStage(t, "submitted") /\ "submitted" \in Stages  BY DEF OrganizerSaysDone, Stages
<1>4. gate' = Unrun(t) /\ UNCHANGED <<card, complaints, settling, line, edits>>  BY DEF OrganizerSaysDone
<1> HIDE DEF row
<1>5. stage' \in [Tickets -> Stages] /\ delivered' \in BOOLEAN  BY <1>3, StageType DEF SetTicketStage
<1>6. subs' \in Seq(Submission) /\ Len(subs') <= MaxSubs /\ HandedOver(t)  BY <1>1, <1>2, NewRows
<1> QED  BY <1>4, <1>5, <1>6, HandedOverType

LEMMA RunGateStep ==
    ASSUME TypeOK, NEW t \in Tickets, NEW o \in {"pass", "fail"}, RunGate(t, o)
    PROVE  TablesOK' /\ SubsStep
<1> DEFINE g == subs'
<1>1. g = [s \in DOMAIN subs |-> IF subs[s].ticket = t /\ subs[s].rev # "off"
                                 THEN [subs[s] EXCEPT !.rev = "ran"] ELSE subs[s]]
  BY DEF RunGate
<1>2. \A s \in DOMAIN subs : g[s] \in Submission /\ g[s].ticket = subs[s].ticket /\ g[s].state = subs[s].state
  <2> TAKE s \in DOMAIN subs
  <2>1. subs[s] \in Submission  BY Rows
  <2> QED  BY <1>1, <2>1 DEF Submission
<1>3. subs \in Seq(Submission) /\ g = [r \in DOMAIN subs |-> g[r]]  BY <1>1 DEF TypeOK
<1> HIDE DEF g
<1>4. g \in Seq(Submission) /\ Len(g) = Len(subs) /\ DOMAIN g = DOMAIN subs  BY <1>2, <1>3, Rewritten
<1>5. RowsWritten /\ StatesStay  BY <1>2, <1>4 DEF g, RowsWritten, StatesStay, TicketsStay, RunGate, TypeOK
<1>6. gate' \in [Tickets -> Gates]  BY DEF RunGate, TypeOK, Gates, Results
<1> QED  BY <1>5, <1>6, Stayed DEF RunGate, TypeOK

LEMMA SettleStep ==
    ASSUME TypeOK, NEW s \in DOMAIN subs, Settle(s)
    PROVE  TablesOK' /\ SubsStep
<1>1. UNCHANGED <<gate, complaints, line, edits>> /\ settling' \subseteq settling  BY DEF Settle
<1>2. CASE ~StillChecking(s)
  <2>1. UNCHANGED <<stage, card, delivered, subs>>  BY <1>2 DEF Settle
  <2> QED  BY <1>1, <2>1, Stayed DEF RowsWritten, StatesStay, TicketsStay, TypeOK
<1>3. CASE StillChecking(s) /\ FailOnGates(s)
  <2>1. subs[s].state \in OpenStates  BY <1>3 DEF StillChecking, OpenStates
  <2>2. RowsWritten /\ Becomes(s, OpenStates \cup Decisions)  BY <1>3, FailType DEF Becomes
  <2> QED  BY <1>1, <2>1, <2>2, Decided
<1>4. CASE /\ StillChecking(s)
           /\ \E to \in Handed : SetTicketStage(subs[s].ticket, to) /\ subs' = [subs EXCEPT ![s].state = to]
           /\ UNCHANGED card
  <2>1. PICK to \in Handed : SetTicketStage(subs[s].ticket, to) /\ subs' = [subs EXCEPT ![s].state = to]
    BY <1>4
  <2>2. subs[s] \in Submission  BY Rows
  <2> DEFINE row == [subs[s] EXCEPT !.state = to]
  <2>3. row \in Submission /\ row.ticket = subs[s].ticket /\ row.state \in OpenStates
    BY <2>2 DEF Submission, SubStates, OpenStates, Handed
  <2>4. subs' = [subs EXCEPT ![s] = row]  BY <2>1
  <2> HIDE DEF row
  <2>5. /\ subs' \in Seq(Submission) /\ Len(subs') = Len(subs)
        /\ Becomes(s, OpenStates \cup Decisions)
    BY <2>3, <2>4, OneRow DEF Becomes, TicketsStay
  <2>6. to \in Stages /\ subs[s].ticket \in Tickets  BY <2>2 DEF Handed, Stages, Submission
  <2>7. RowsWritten  BY <1>4, <2>1, <2>5, <2>6, StageType DEF RowsWritten, SetTicketStage, TypeOK
  <2>8. subs[s].state \in OpenStates  BY <1>4 DEF StillChecking, OpenStates
  <2> QED  BY <1>1, <2>5, <2>7, <2>8, Decided
<1> QED  BY <1>2, <1>3, <1>4 DEF Settle

LEMMA BeginReviewStep ==
    ASSUME TypeOK, NEW s \in DOMAIN subs, BeginReview(s)
    PROVE  TablesOK' /\ SubsStep
<1>1. \E rev \in {"off", "waiting", "ran"} : subs' = [subs EXCEPT ![s].rev = rev]  BY DEF BeginReview
<1>2. subs' \in Seq(Submission) /\ Len(subs') = Len(subs) /\ StatesStay  BY <1>1, AwaitType
<1> QED  BY <1>2, Stayed DEF BeginReview, RowsWritten, TypeOK

LEMMA ReviewApproveStep ==
    ASSUME TypeOK, NEW s \in DOMAIN subs, ReviewApprove(s)
    PROVE  TablesOK' /\ SubsStep
<1>1. UNCHANGED <<gate, complaints, settling, line, edits>>  BY DEF ReviewApprove
<1>2. CASE subs' = [subs EXCEPT ![s].rev = "off"] /\ UNCHANGED <<stage, card, delivered>>
  <2>1. \E rev \in {"off", "waiting", "ran"} : subs' = [subs EXCEPT ![s].rev = rev]  BY <1>2
  <2>2. subs' \in Seq(Submission) /\ Len(subs') = Len(subs) /\ StatesStay  BY <2>1, AwaitType
  <2> QED  BY <1>1, <1>2, <2>2, Stayed DEF RowsWritten, TypeOK
<1>3. CASE /\ \E kind \in Awaitings : subs' = [[subs EXCEPT ![s].rev = "off"] EXCEPT ![s].awaiting = kind]
           /\ UNCHANGED <<stage, card, delivered>>
  <2>1. subs' \in Seq(Submission) /\ Len(subs') = Len(subs) /\ StatesStay  BY <1>3, AwaitType
  <2> QED  BY <1>1, <1>3, <2>1, Stayed DEF RowsWritten, TypeOK
<1>4. CASE Decidable(s) /\ Approve(s)
  <2>1. subs[s].state \in OpenStates  BY <1>4 DEF Decidable, OpenStates
  <2>2. RowsWritten /\ Becomes(s, OpenStates \cup Decisions)  BY <1>4, ApproveType DEF Becomes
  <2> QED  BY <1>1, <2>1, <2>2, Decided
<1> QED  BY <1>2, <1>3, <1>4 DEF ReviewApprove, Awaitings

LEMMA ReviewRejectStep ==
    ASSUME TypeOK, NEW s \in DOMAIN subs, ReviewReject(s)
    PROVE  TablesOK' /\ SubsStep
<1> DEFINE t == subs[s].ticket
<1>1. UNCHANGED <<gate, complaints, settling, line, edits>> /\ subs[s].state \in OpenStates
  BY DEF ReviewReject, Decidable, OpenStates
<1>2. subs' = Decide(s, "rejected") /\ "rejected" \in SubStates  BY DEF ReviewReject, SubStates
<1>3. SetTicketStage(t, "rework") /\ CheckCeiling(t, FailureCard) /\ "rework" \in Stages /\ t \in Tickets
  BY Rows DEF ReviewReject, Stages, Submission
<1> HIDE DEF t
<1>4. RowsWritten /\ Becomes(s, OpenStates \cup Decisions)
  <2>1. stage' \in [Tickets -> Stages] /\ delivered' \in BOOLEAN  BY <1>3, StageType DEF SetTicketStage
  <2>2. card' \in [Tickets -> Cards]  BY <1>3, CardTypes
  <2> QED  BY <1>2, <2>1, <2>2, DecideRows DEF RowsWritten, Becomes, TicketsStay, Decisions
<1> QED  BY <1>1, <1>4, Decided

LEMMA TakeUpAwaitingType ==
    ASSUME TypeOK, NEW s \in DOMAIN subs, TakeUpAwaiting(s)
    PROVE  RowsWritten /\ (StatesStay \/ Becomes(s, Decisions))
<1>1. CASE FailOnGates(s) \/ ResolveApproval(s) \/ Approve(s)  BY <1>1, FailType, ResolveType, ApproveType
<1>2. CASE (\E kind \in Awaitings : AwaitYourWord(s, kind)) /\ UNCHANGED <<stage, card, delivered>>
  <2>1. subs' \in Seq(Submission) /\ Len(subs') = Len(subs) /\ StatesStay  BY <1>2, AwaitType
  <2> QED  BY <1>2, <2>1 DEF RowsWritten, TypeOK
<1> QED  BY <1>1, <1>2 DEF TakeUpAwaiting, Awaitings

LEMMA TickStep ==
    ASSUME TypeOK, NEW s \in DOMAIN subs, Tick(s)
    PROVE  TablesOK' /\ SubsStep
<1>1. UNCHANGED <<gate, complaints, settling, line, edits>> /\ subs[s].state \in OpenStates
  BY DEF Tick, Decidable, OpenStates
<1>2. CASE TakeUpAwaiting(s)
  <2>1. RowsWritten /\ (StatesStay \/ Becomes(s, OpenStates \cup Decisions))
    BY <1>2, TakeUpAwaitingType DEF Becomes
  <2>2. gate \in [Tickets -> Gates] /\ line \in 0..NoLine  BY DEF TypeOK
  <2> QED  BY <1>1, <2>1, <2>2, Decided, Stayed
<1>3. CASE /\ subs' = [subs EXCEPT ![s].state = "in_review"]
           /\ SetTicketStage(subs[s].ticket, "in_review")
           /\ UNCHANGED card
  <2> DEFINE row == [subs[s] EXCEPT !.state = "in_review"]
  <2>1. subs[s] \in Submission  BY Rows
  <2>2. row \in Submission /\ row.ticket = subs[s].ticket /\ row.state \in OpenStates
    BY <2>1 DEF Submission, SubStates, OpenStates, Handed
  <2>3. subs' = [subs EXCEPT ![s] = row]  BY <1>3
  <2> HIDE DEF row
  <2>4. /\ subs' \in Seq(Submission) /\ Len(subs') = Len(subs)
        /\ Becomes(s, OpenStates \cup Decisions)
    BY <2>2, <2>3, OneRow DEF Becomes, TicketsStay
  <2>5. "in_review" \in Stages /\ subs[s].ticket \in Tickets  BY <2>1 DEF Stages, Submission
  <2>6. RowsWritten  BY <1>3, <2>4, <2>5, StageType DEF RowsWritten, SetTicketStage, TypeOK
  <2> QED  BY <1>1, <2>4, <2>6, Decided
<1> QED  BY <1>2, <1>3 DEF Tick

LEMMA PassByYourWordStep ==
    ASSUME TypeOK, NEW s \in DOMAIN subs, PassByYourWord(s)
    PROVE  TablesOK' /\ SubsStep
<1>1. /\ UNCHANGED <<gate, complaints, settling, edits>> /\ line' = NoLine
      /\ subs[s].state \in OpenStates
  BY DEF PassByYourWord, Decidable, OpenStates
<1>2. gate \in [Tickets -> Gates] /\ NoLine \in 0..NoLine  BY SubmissionsAssumption DEF TypeOK, NoLine
<1>3. CASE AwaitYourWord(s, "pending") /\ UNCHANGED <<stage, card, delivered>>
  <2>1. \E kind \in Awaitings : AwaitYourWord(s, kind)  BY <1>3 DEF Awaitings
  <2>2. subs' \in Seq(Submission) /\ Len(subs') = Len(subs) /\ StatesStay  BY <2>1, AwaitType
  <2>3. RowsWritten  BY <1>3, <2>2 DEF RowsWritten, TypeOK
  <2> QED  BY <1>1, <1>2, <2>2, <2>3, Stayed
<1>4. CASE ResolveApproval(s)
  <2>1. RowsWritten /\ Becomes(s, OpenStates \cup Decisions)  BY <1>4, ResolveType DEF Becomes
  <2> QED  BY <1>1, <2>1, Decided
<1> QED  BY <1>3, <1>4 DEF PassByYourWord

LEMMA TakeUpPendingApprovalStep ==
    ASSUME TypeOK, NEW s \in DOMAIN subs, TakeUpPendingApproval(s)
    PROVE  TablesOK' /\ SubsStep
<1>1. UNCHANGED <<gate, complaints, settling, line, edits>> /\ subs[s].state \in OpenStates
  BY DEF TakeUpPendingApproval, OpenStates
<1>2. RowsWritten /\ Becomes(s, OpenStates \cup Decisions)
  BY ResolveType DEF Becomes, TakeUpPendingApproval
<1> QED  BY <1>1, <1>2, Decided

\* Those that touch no row of a hand-over.
LEMMA SideStep ==
    ASSUME TypeOK,
           \/ Say \/ ReadNothing \/ Crash
           \/ \E t \in Tickets : AnswerCeilingCard(t) \/ AddGate(t)
    PROVE  TablesOK' /\ SubsStep
<1>1. Len(subs) \in 0..MaxSubs /\ NoLine \in 0..NoLine /\ 0..MaxSubs \subseteq 0..NoLine
  BY Rows, SubmissionsAssumption DEF TypeOK, NoLine
<1>2. CASE Say \/ ReadNothing
  <2>1. line' \in 0..NoLine /\ UNCHANGED <<stage, gate, card, delivered, subs, complaints, settling, edits>>
    BY <1>1, <1>2 DEF Say, ReadNothing
  <2>2. gate' \in [Tickets -> Gates] /\ settling' \subseteq settling  BY <2>1 DEF TypeOK
  <2> QED  BY <2>1, <2>2, Stayed DEF RowsWritten, StatesStay, TicketsStay, TypeOK
<1>3. CASE Crash
  <2> DEFINE g == subs'
  <2>1. g = [s \in DOMAIN subs |-> [subs[s] EXCEPT !.rev = "off"]]  BY <1>3 DEF Crash
  <2>2. \A s \in DOMAIN subs : g[s] \in Submission /\ g[s].ticket = subs[s].ticket /\ g[s].state = subs[s].state
    <3> TAKE s \in DOMAIN subs
    <3>1. subs[s] \in Submission  BY Rows
    <3> QED  BY <2>1, <3>1 DEF Submission
  <2>3. subs \in Seq(Submission) /\ g = [r \in DOMAIN subs |-> g[r]]  BY <2>1 DEF TypeOK
  <2> HIDE DEF g
  <2>4. g \in Seq(Submission) /\ Len(g) = Len(subs) /\ DOMAIN g = DOMAIN subs  BY <2>2, <2>3, Rewritten
  <2>5. RowsWritten /\ StatesStay  BY <1>3, <2>2, <2>4 DEF g, RowsWritten, StatesStay, TicketsStay, Crash, TypeOK
  <2>6. gate' \in [Tickets -> Gates] /\ settling' \subseteq settling /\ line' \in 0..NoLine
        /\ UNCHANGED <<complaints, edits>>
    BY <1>1, <1>3 DEF Crash, TypeOK
  <2> QED  BY <2>5, <2>6, Stayed
<1>4. ASSUME NEW t \in Tickets, AnswerCeilingCard(t) \/ AddGate(t)
      PROVE  TablesOK' /\ SubsStep
  <2>1. UNCHANGED <<subs, complaints, settling, line, edits>>  BY <1>4 DEF AnswerCeilingCard, AddGate
  <2>2. gate' \in [Tickets -> Gates]  BY <1>4 DEF AnswerCeilingCard, AddGate, TypeOK, Gates, Results
  <2>3. stage' \in [Tickets -> Stages] /\ card' \in [Tickets -> Cards] /\ delivered' \in BOOLEAN
    <3>1. CASE AddGate(t)  BY <3>1 DEF AddGate, TypeOK
    <3>2. CASE AnswerCeilingCard(t)
      <4>1. card' \in [Tickets -> Cards]  BY <3>2, CardTypes DEF AnswerCeilingCard
      <4>2. CASE UNCHANGED <<stage, delivered>>  BY <4>1, <4>2 DEF TypeOK
      <4>3. CASE stage' = Moved(t, "approved") /\ SettlePlanStage(stage', delivered)
        <5>1. "approved" \in Stages  BY DEF Stages
        <5>2. stage' \in [Tickets -> Stages]  BY <4>3, <5>1, StageType
        <5>3. delivered' \in BOOLEAN  BY <4>3 DEF SettlePlanStage, TypeOK
        <5> QED  BY <4>1, <5>2, <5>3
      <4> QED  BY <3>2, <4>2, <4>3 DEF AnswerCeilingCard
    <3> QED  BY <1>4, <3>1, <3>2
  <2>4. RowsWritten /\ StatesStay  BY <2>1, <2>3 DEF RowsWritten, StatesStay, TicketsStay, TypeOK
  <2>5. settling' \subseteq settling /\ line' \in 0..NoLine  BY <2>1 DEF TypeOK
  <2> QED  BY <2>1, <2>2, <2>4, <2>5, Stayed
<1> QED  BY <1>2, <1>3, <1>4

LEMMA BoardEditStep ==
    ASSUME TypeOK, NEW t \in Tickets, NEW to \in {"todo", "doing", "submitted", "approved", "dropped"},
           BoardEdit(t, to)
    PROVE  TablesOK' /\ SubsStep
<1>1. /\ edits' \in 0..MaxEdits
      /\ UNCHANGED <<gate, delivered, complaints, settling, line>>
  BY SubmissionsAssumption DEF BoardEdit, TypeOK
<1>2. stage' = Moved(t, to) /\ to \in Stages /\ CloseCard(t) /\ subs' = Sup(subs, t)
  BY DEF BoardEdit, Stages, Gone
<1>3. stage' \in [Tickets -> Stages] /\ card' \in [Tickets -> Cards]  BY <1>2, StageType, CardTypes
<1>4. RowsWritten /\ GivenWay(t) /\ DOMAIN subs' = DOMAIN subs
  BY <1>1, <1>2, <1>3, SupRows DEF RowsWritten, GivenWay, TypeOK
<1>5. gate' \in [Tickets -> Gates] /\ settling' \subseteq DOMAIN subs /\ line' \in 0..NoLine
  BY <1>1 DEF TypeOK
<1>6. TablesOK'  BY <1>1, <1>4, <1>5, Typed
<1> QED  BY <1>1, <1>4, <1>6 DEF SubsStep

LEMMA NoteComplaintStep ==
    ASSUME TypeOK, NEW t \in Tickets, NoteComplaint(t)
    PROVE  TablesOK' /\ SubsStep
<1> DEFINE was == [s \in 1..MaxSubs |-> IF s \in SubsOf(t) /\ subs[s].state \in OpenStates
                                        THEN subs[s].state ELSE "superseded"]
           c == [ticket |-> t, stage |-> stage[t], delivered |-> delivered, at |-> Len(subs), undone |-> FALSE,
                 was |-> was]
<1>1. /\ complaints' = Append(complaints, c) /\ Len(complaints) < MaxComplaints
      /\ line' = NoLine /\ subs' = Sup(subs, t) /\ stage' = Moved(t, "rework") /\ delivered' = FALSE
      /\ UNCHANGED <<gate, settling, edits>>
  BY DEF NoteComplaint
<1>2. was \in [1..MaxSubs -> SubStates]
  <2>1. \A s \in SubsOf(t) : subs[s].state \in SubStates  BY Rows DEF SubsOf, Submission
  <2>2. "superseded" \in SubStates  BY DEF SubStates
  <2> QED  BY <2>1, <2>2
<1>3. \A s \in 1..MaxSubs : was[s] \in OpenStates => s \in SubsOf(t) /\ subs[s].state \in OpenStates
  BY DEF OpenStates, Handed
<1>4. Len(subs) \in 0..MaxSubs /\ stage[t] \in Stages /\ delivered \in BOOLEAN
  BY Rows, SubmissionsAssumption DEF TypeOK
<1> HIDE DEF was
<1>5. c \in Complaint /\ c.ticket = t /\ c.at = Len(subs) /\ c.was = was  BY <1>2, <1>4 DEF Complaint
<1> HIDE DEF c
<1>6. complaints \in Seq(Complaint) /\ MaxComplaints \in Nat /\ Len(complaints) \in Nat
  BY LenProperties, SubmissionsAssumption DEF TypeOK
<1>7. complaints' \in Seq(Complaint) /\ Len(complaints') <= MaxComplaints  BY <1>1, <1>5, <1>6, Added
<1>8. card' \in [Tickets -> Cards]
  <2>1. Len(complaints) + 1 \in Cards  BY <1>1, <1>6 DEF Cards, FailureCard
  <2>2. card' = card \/ CheckCeiling(t, Len(complaints) + 1)  BY DEF NoteComplaint
  <2> QED  BY <2>1, <2>2, CardTypes DEF TypeOK
<1>9. stage' \in [Tickets -> Stages]  BY <1>1, StageType DEF Stages
<1>10. /\ subs' \in Seq(Submission) /\ Len(subs') = Len(subs) /\ DOMAIN subs' = DOMAIN subs
       /\ GivenWay(t)
  BY <1>1, SupRows DEF GivenWay
<1>11. NoLine \in 0..NoLine  BY SubmissionsAssumption DEF NoLine
<1>12. TablesOK'
  BY <1>1, <1>7, <1>8, <1>9, <1>10, <1>11 DEF TypeOK, TablesOK
<1>13. Complained(t)  BY <1>1, <1>3, <1>5, <1>10 DEF Complained
<1> QED  BY <1>12, <1>13 DEF SubsStep

LEMMA UndoReworkStep ==
    ASSUME TypeOK, NEW c \in DOMAIN complaints, UndoRework(c)
    PROVE  TablesOK' /\ PutBackBy(c)
<1> DEFINE t == complaints[c].ticket
           was == complaints[c].was
           back(s) == s \in SubsOf(t) /\ was[s] \in OpenStates /\ subs[s].state = "superseded"
<1>1. complaints \in Seq(Complaint) /\ c \in 1..Len(complaints) /\ complaints[c] \in Complaint
  BY LenProperties, ElementOfSeq DEF TypeOK
<1>2. t \in Tickets /\ was \in [1..MaxSubs -> SubStates] /\ complaints[c].stage \in Stages
  BY <1>1 DEF Complaint
<1>3. /\ ~MovedOn(c)
      /\ subs' = [s \in DOMAIN subs |-> IF back(s) THEN [subs[s] EXCEPT !.state = was[s]] ELSE subs[s]]
      /\ stage' = Moved(t, complaints[c].stage)
      /\ complaints' = [complaints EXCEPT ![c] = Undone(complaints[c])]
      /\ UNCHANGED <<gate, settling, line, edits>>
  BY DEF UndoRework
<1>4. delivered' \in BOOLEAN  BY DEF UndoRework, SettlePlanStage, TypeOK
<1>5. card' \in [Tickets -> Cards]  BY <1>2, CardTypes DEF UndoRework, TypeOK
<1>6. stage' \in [Tickets -> Stages]  BY <1>2, <1>3, StageType
<1>7. \A s \in DOMAIN subs : was[s] \in SubStates
  <2>1. DOMAIN subs \subseteq 1..MaxSubs  BY Rows, SubmissionsAssumption DEF TypeOK
  <2> HIDE DEF was
  <2> QED  BY <1>2, <2>1
<1> DEFINE g == subs'
<1>8. \A s \in DOMAIN subs :
        /\ g[s] \in Submission /\ g[s].ticket = subs[s].ticket
        /\ g[s].state = IF back(s) THEN was[s] ELSE subs[s].state
  <2> TAKE s \in DOMAIN subs
  <2>1. subs[s] \in Submission /\ was[s] \in SubStates  BY Rows, <1>7
  <2>2. g[s] = IF back(s) THEN [subs[s] EXCEPT !.state = was[s]] ELSE subs[s]  BY <1>3
  <2> HIDE DEF back, was
  <2> QED  BY <2>1, <2>2 DEF Submission
<1>9. subs \in Seq(Submission) /\ g = [r \in DOMAIN subs |-> g[r]]  BY <1>3 DEF TypeOK
<1> HIDE DEF g
<1>10. g \in Seq(Submission) /\ Len(g) = Len(subs) /\ DOMAIN g = DOMAIN subs  BY <1>8, <1>9, Rewritten
<1>11. Undone(complaints[c]) \in Complaint
  BY <1>1 DEF Undone, Complaint, Stages, SubStates
<1>12. complaints' \in Seq(Complaint) /\ Len(complaints') = Len(complaints)
  BY <1>1, <1>3, <1>11, ExceptSeq
<1>13. TablesOK'  BY <1>3, <1>4, <1>5, <1>6, <1>10, <1>12 DEF g, TypeOK, TablesOK
<1>14. PutBackBy(c)  BY <1>3, <1>8, <1>10 DEF g, PutBackBy, TicketsStay
<1> QED  BY <1>13, <1>14

\* A ticket made or dropped by the lead, and what the tick knows of the plan.
LEMMA LayoutStep ==
    ASSUME TypeOK,
           \/ SwitchWaitWord \/ \E now \in BOOLEAN : PassBy(now)
           \/ \E t \in Tickets : NewTicket(t) \/ Drop(t)
    PROVE  TablesOK' /\ SubsStep
<1>1. UNCHANGED <<gate, card, delivered, subs, complaints, settling, line, edits>>
  BY DEF SwitchWaitWord, PassBy, NewTicket, Drop
<1>2. stage' \in [Tickets -> Stages]
  <2>1. CASE stage' = stage  BY <2>1 DEF TypeOK
  <2>2. ASSUME NEW t \in Tickets, NEW to \in {"todo", "doing", "voided"}, stage' = Moved(t, to)
        PROVE  stage' \in [Tickets -> Stages]
    <3>1. to \in Stages  BY DEF Stages, Gone
    <3> QED  BY <2>2, <3>1, StageType
  <2> QED  BY <2>1, <2>2 DEF SwitchWaitWord, PassBy, NewTicket, Drop
<1>3. RowsWritten /\ StatesStay  BY <1>1, <1>2 DEF RowsWritten, StatesStay, TicketsStay, TypeOK
<1>4. gate' \in [Tickets -> Gates] /\ settling' \subseteq settling /\ line' \in 0..NoLine
  BY <1>1 DEF TypeOK
<1> QED  BY <1>1, <1>3, <1>4, Stayed

LEMMA PlanTyped ==
    ASSUME TypeOK, [Next]_vars
    PROVE  unattended' \in BOOLEAN /\ aside' \in BOOLEAN
<1>1. unattended \in BOOLEAN /\ aside \in BOOLEAN  BY DEF TypeOK
<1>2. CASE UNCHANGED vars  BY <1>1, <1>2 DEF vars
<1>3. ASSUME NEW t \in Tickets,
             \/ Submit(t) \/ Answer(t) \/ OrganizerSaysDone(t) \/ NoteComplaint(t)
             \/ \E to \in {"todo", "doing", "submitted", "approved", "dropped"} : BoardEdit(t, to)
      PROVE  unattended' = unattended /\ aside' \in {aside, FALSE}
  BY <1>3 DEF Submit, Answer, NewSubmission, OrganizerSaysDone, NoteComplaint, BoardEdit, WokenIfReopened, Woken
<1>4. ASSUME NEW t \in Tickets,
             \/ AnswerCeilingCard(t) \/ AddGate(t) \/ NewTicket(t) \/ Drop(t)
             \/ \E o \in {"pass", "fail"} : RunGate(t, o)
      PROVE  unattended' = unattended /\ aside' = aside
  BY <1>4 DEF AnswerCeilingCard, AddGate, NewTicket, Drop, RunGate
<1>5. ASSUME NEW s \in DOMAIN subs,
             Settle(s) \/ ReviewApprove(s) \/ ReviewReject(s) \/ PassByYourWord(s) \/ TakeUpPendingApproval(s)
      PROVE  unattended' = unattended /\ aside' \in {aside, FALSE}
  BY <1>5 DEF Settle, ReviewApprove, ReviewReject, PassByYourWord, TakeUpPendingApproval, WokenIfReopened, Woken
<1>6. ASSUME NEW s \in DOMAIN subs, BeginReview(s) \/ Tick(s)
      PROVE  unattended' = unattended /\ aside' = aside
  BY <1>6 DEF BeginReview, Tick
<1>7. CASE (\E c \in DOMAIN complaints : UndoRework(c)) \/ ReadNothing \/ Crash
  BY <1>1, <1>7 DEF UndoRework, ReadNothing, Crash
<1>8. CASE Say \/ SwitchWaitWord \/ \E now \in BOOLEAN : PassBy(now)
  BY <1>1, <1>8 DEF Say, SwitchWaitWord, PassBy, Woken
<1> QED  BY <1>1, <1>2, <1>3, <1>4, <1>5, <1>6, <1>7, <1>8 DEF Next

LEMMA StepKind ==
    ASSUME TypeOK, [Next]_vars
    PROVE  TypeOK' /\ SubsStep
<1>1. TablesOK' /\ SubsStep
  <2>1. CASE UNCHANGED vars
    BY <2>1 DEF vars, TypeOK, TablesOK, SubsStep, StatesStay, TicketsStay
  <2>2. ASSUME NEW t \in Tickets,
               Submit(t) \/ Answer(t) \/ OrganizerSaysDone(t) \/ NoteComplaint(t)
        PROVE  TablesOK' /\ SubsStep
    BY <2>2, NewSubmissionStep, OrganizerSaysDoneStep, NoteComplaintStep DEF Submit, Answer, NeedsUser
  <2>3. ASSUME NEW s \in DOMAIN subs,
               \/ Settle(s) \/ BeginReview(s) \/ ReviewApprove(s) \/ ReviewReject(s)
               \/ Tick(s) \/ PassByYourWord(s) \/ TakeUpPendingApproval(s)
        PROVE  TablesOK' /\ SubsStep
    BY <2>3, SettleStep, BeginReviewStep, ReviewApproveStep, ReviewRejectStep, TickStep,
       PassByYourWordStep, TakeUpPendingApprovalStep
  <2>4. CASE \E t \in Tickets : \E o \in {"pass", "fail"} : RunGate(t, o)  BY <2>4, RunGateStep
  <2>5. CASE \E t \in Tickets : \E to \in {"todo", "doing", "submitted", "approved", "dropped"} : BoardEdit(t, to)
    BY <2>5, BoardEditStep
  <2>6. CASE \E c \in DOMAIN complaints : UndoRework(c)  BY <2>6, UndoReworkStep DEF SubsStep
  <2>7. CASE \/ Say \/ ReadNothing \/ Crash
             \/ \E t \in Tickets : AnswerCeilingCard(t) \/ AddGate(t)
    BY <2>7, SideStep
  <2>8. CASE \/ SwitchWaitWord \/ \E now \in BOOLEAN : PassBy(now)
             \/ \E t \in Tickets : NewTicket(t) \/ Drop(t)
    BY <2>8, LayoutStep
  <2> QED  BY <2>1, <2>2, <2>3, <2>4, <2>5, <2>6, <2>7, <2>8 DEF Next
<1>2. TypeOK'  BY <1>1, PlanTyped DEF TypeOK, TablesOK
<1> QED  BY <1>1, <1>2

LEMMA InitTyped == ASSUME Init PROVE TypeOK
<1>1. /\ {MaxSubs, MaxComplaints, MaxEdits} \subseteq Nat
      /\ NoCard \in Cards /\ NoLine \in 0..NoLine
  BY SubmissionsAssumption DEF NoCard, Cards, FailureCard, NoLine
<1>2. subs \in Seq(Submission) /\ Len(subs) = 0 /\ complaints \in Seq(Complaint) /\ Len(complaints) = 0
  BY EmptySeq DEF Init
<1>3. /\ stage \in [Tickets -> Stages] /\ gate \in [Tickets -> Gates] /\ card \in [Tickets -> Cards]
      /\ delivered \in BOOLEAN
  BY <1>1 DEF Init, Stages, Gone, Gates, Results
<1>4. /\ settling \subseteq DOMAIN subs /\ line \in 0..NoLine /\ edits \in 0..MaxEdits
  BY <1>1 DEF Init
<1>5. Len(subs) <= MaxSubs /\ Len(complaints) <= MaxComplaints  BY <1>1, <1>2
<1>6. unattended \in BOOLEAN /\ aside \in BOOLEAN  BY DEF Init
<1> QED  BY <1>2, <1>3, <1>4, <1>5, <1>6 DEF TypeOK

\* The tables are well formed, whatever hands over, decides, complains, undoes or dies.
THEOREM TypeCorrect == Spec => []TypeOK
<1>1. TypeOK /\ [Next]_vars => TypeOK'  BY StepKind
<1> QED  BY <1>1, InitTyped, PTL DEF Spec

-----------------------------------------------------------------------------
(* Why only the newest is decided. *)

\* A hand-over gives way to the next one, so an open one is its ticket's newest.
OpenIsNewest == \A s \in DOMAIN subs : subs[s].state \in OpenStates => Newest(s)

\* What a complaint can put back was the newest when it was made.
NewestThen(c, s) ==
    /\ s \in SubsOf(complaints[c].ticket) /\ s <= complaints[c].at
    /\ \A r \in SubsOf(complaints[c].ticket) : r <= complaints[c].at => r <= s
ComplaintsKnow ==
    \A c \in DOMAIN complaints :
        /\ complaints[c].at <= Len(subs)
        /\ \A s \in 1..MaxSubs : complaints[c].was[s] \in OpenStates => NewestThen(c, s)

NewestInv == OpenIsNewest /\ ComplaintsKnow

LEMMA ComplaintRows ==
    ASSUME TypeOK
    PROVE  /\ Len(complaints) \in Nat /\ DOMAIN complaints = 1..Len(complaints)
           /\ \A c \in DOMAIN complaints : complaints[c] \in Complaint
           /\ DOMAIN subs \subseteq 1..MaxSubs
BY LenProperties, ElementOfSeq, Rows, SubmissionsAssumption DEF TypeOK

LEMMA InitNewest == ASSUME Init PROVE NewestInv
<1>1. DOMAIN subs = {} /\ DOMAIN complaints = {}  BY DEF Init
<1> QED  BY <1>1 DEF NewestInv, OpenIsNewest, ComplaintsKnow

\* No ticket of a row changes, so neither does which is the newest of it.
LEMMA SameTickets ==
    ASSUME TicketsStay
    PROVE  /\ \A t : SubsOf(t)' = SubsOf(t)
           /\ \A s \in DOMAIN subs : Newest(s)' <=> Newest(s)
<1>1. \A t : SubsOf(t)' = SubsOf(t)  BY DEF TicketsStay, SubsOf
<1> QED  BY <1>1 DEF Newest, TicketsStay

LEMMA ComplaintsStay ==
    ASSUME TypeOK, TypeOK', ComplaintsKnow, TicketsStay, complaints' = complaints
    PROVE  ComplaintsKnow'
<1>1. Len(subs') = Len(subs)
  <2>1. 1..Len(subs') = 1..Len(subs) /\ Len(subs) \in Nat /\ Len(subs') \in Nat
    BY LenProperties DEF TicketsStay, TypeOK
  <2> QED  BY <2>1
<1> QED  BY <1>1, SameTickets DEF ComplaintsKnow, NewestThen

\* No row opens, and none is added.
LEMMA NoneOpens ==
    ASSUME TypeOK, TypeOK', NewestInv, TicketsStay, complaints' = complaints,
           \A s \in DOMAIN subs : subs'[s].state \in OpenStates => subs[s].state \in OpenStates
    PROVE  NewestInv'
<1>1. OpenIsNewest'  BY SameTickets DEF NewestInv, OpenIsNewest, TicketsStay
<1> QED  BY <1>1, ComplaintsStay DEF NewestInv

LEMMA HandedOverNewest ==
    ASSUME TypeOK, TypeOK', NewestInv, NEW t \in Tickets, HandedOver(t), complaints' = complaints
    PROVE  NewestInv'
<1> DEFINE n == Len(subs) + 1
<1>1. n \in Nat /\ DOMAIN subs = 1..Len(subs) /\ Len(subs) \in Nat  BY Rows
<1>2. /\ DOMAIN subs' = DOMAIN subs \cup {n} /\ Len(subs') = n /\ n \notin DOMAIN subs
      /\ subs'[n].ticket = t
      /\ \A r \in DOMAIN subs : r < n /\ subs'[r].ticket = subs[r].ticket
  BY <1>1 DEF HandedOver, GivenWay
<1>3. \A x : SubsOf(x) \subseteq SubsOf(x)' /\ SubsOf(x)' \subseteq SubsOf(x) \cup {n}
  BY <1>2 DEF SubsOf
<1>4. OpenIsNewest'
  <2> SUFFICES ASSUME NEW s \in DOMAIN subs', subs'[s].state \in OpenStates,
                      NEW r \in DOMAIN subs', subs'[r].ticket = subs'[s].ticket
               PROVE  r <= s
    BY DEF OpenIsNewest, Newest, SubsOf
  <2>1. CASE s = n  BY <1>1, <1>2, <2>1
  <2>2. CASE s # n
    <3>1. s \in DOMAIN subs  BY <1>2, <2>2
    <3>2. subs[s].ticket # t /\ subs[s].state \in OpenStates
      BY <3>1 DEF HandedOver, GivenWay, OpenStates, Handed
    <3>3. r \in SubsOf(subs[s].ticket)  BY <1>2, <3>1, <3>2 DEF SubsOf
    <3> QED  BY <3>1, <3>2, <3>3 DEF NewestInv, OpenIsNewest, Newest
  <2> QED  BY <2>1, <2>2
<1>5. ComplaintsKnow'
  <2> SUFFICES ASSUME NEW c \in DOMAIN complaints
               PROVE  /\ complaints[c].at <= Len(subs')
                      /\ \A s \in 1..MaxSubs : complaints[c].was[s] \in OpenStates => NewestThen(c, s)'
    BY DEF ComplaintsKnow
  <2>1. complaints[c].at \in Nat /\ complaints[c].at <= Len(subs)
    BY ComplaintRows, SubmissionsAssumption DEF Complaint, NewestInv, ComplaintsKnow
  <2>2. complaints[c].at < n  BY <1>1, <2>1
  <2>3. ASSUME NEW s \in 1..MaxSubs, complaints[c].was[s] \in OpenStates  PROVE NewestThen(c, s)'
    <3>1. NewestThen(c, s)  BY <2>3 DEF NewestInv, ComplaintsKnow
    <3>2. \A r \in SubsOf(complaints[c].ticket)' : r <= complaints[c].at => r \in SubsOf(complaints[c].ticket)
      BY <1>1, <1>3, <2>1, <2>2
    <3> QED  BY <1>3, <3>1, <3>2 DEF NewestThen
  <2> QED  BY <1>1, <1>2, <2>1, <2>3
<1> QED  BY <1>4, <1>5 DEF NewestInv

LEMMA ComplainedNewest ==
    ASSUME TypeOK, TypeOK', NewestInv, NEW t \in Tickets, Complained(t)
    PROVE  NewestInv'
<1>1. TicketsStay  BY DEF Complained, GivenWay, TicketsStay
<1>2. \A s \in DOMAIN subs : subs'[s].state \in OpenStates => subs[s].state \in OpenStates
  BY DEF Complained, GivenWay, OpenStates, Handed
<1>3. OpenIsNewest'  BY <1>1, <1>2, SameTickets DEF NewestInv, OpenIsNewest, TicketsStay
<1>4. Len(subs') = Len(subs) /\ Len(subs) \in Nat
  <2>1. 1..Len(subs') = 1..Len(subs) /\ Len(subs) \in Nat /\ Len(subs') \in Nat
    BY LenProperties DEF Complained, TypeOK
  <2> QED  BY <2>1
<1>5. PICK c \in Complaint :
        /\ complaints' = Append(complaints, c) /\ c.ticket = t /\ c.at = Len(subs)
        /\ \A s \in 1..MaxSubs : c.was[s] \in OpenStates => s \in SubsOf(t) /\ subs[s].state \in OpenStates
  BY DEF Complained
<1> PICK n : n = Len(complaints) + 1  OBVIOUS
<1>6. /\ DOMAIN complaints' = DOMAIN complaints \cup {n} /\ complaints'[n] = c
      /\ \A d \in DOMAIN complaints : complaints'[d] = complaints[d]
  BY <1>5, Added DEF TypeOK
<1>7. ASSUME NEW d \in DOMAIN complaints
      PROVE  /\ complaints'[d].at <= Len(subs')
             /\ \A s \in 1..MaxSubs : complaints'[d].was[s] \in OpenStates => NewestThen(d, s)'
  BY <1>1, <1>4, <1>6, <1>7, SameTickets DEF NewestInv, ComplaintsKnow, NewestThen
<1>8. /\ complaints'[n].at <= Len(subs')
      /\ \A s \in 1..MaxSubs : complaints'[n].was[s] \in OpenStates => NewestThen(n, s)'
  <2>1. complaints'[n].at <= Len(subs')  BY <1>4, <1>5, <1>6
  <2> SUFFICES ASSUME NEW s \in 1..MaxSubs, c.was[s] \in OpenStates  PROVE NewestThen(n, s)'
    BY <1>6, <2>1
  <2>2. s \in SubsOf(t) /\ subs[s].state \in OpenStates  BY <1>5
  <2>3. s \in DOMAIN subs /\ subs[s].ticket = t  BY <2>2 DEF SubsOf
  <2>4. \A r \in SubsOf(t) : r <= s  BY <2>2, <2>3 DEF NewestInv, OpenIsNewest, Newest
  <2>5. s <= Len(subs)  BY <2>3, Rows
  <2> QED  BY <1>1, <1>5, <1>6, <2>2, <2>4, <2>5, SameTickets DEF NewestThen
<1>9. ComplaintsKnow'  BY <1>6, <1>7, <1>8 DEF ComplaintsKnow
<1> QED  BY <1>3, <1>9 DEF NewestInv

\* What a complaint puts back is the newest still, and there is one of it.
LEMMA PutsBackNewest ==
    ASSUME TypeOK, NewestInv, NEW c \in DOMAIN complaints, PutBackBy(c),
           NEW s \in SubsOf(complaints[c].ticket), complaints[c].was[s] \in OpenStates
    PROVE  Newest(s) /\ \A r \in SubsOf(complaints[c].ticket) : complaints[c].was[r] \in OpenStates => r = s
<1> DEFINE t == complaints[c].ticket
           at == complaints[c].at
<1>1. SubsOf(t) \subseteq DOMAIN subs /\ DOMAIN subs \subseteq 1..MaxSubs /\ DOMAIN subs \subseteq Nat
  BY ComplaintRows, Rows DEF SubsOf
<1>2. at \in Nat /\ \A r \in SubsOf(t) : r <= at
  <2>1. at \in Nat  BY ComplaintRows, SubmissionsAssumption DEF Complaint
  <2> QED  BY <1>1, <2>1 DEF PutBackBy, MovedOn
<1>3. \A x \in SubsOf(t) : complaints[c].was[x] \in OpenStates => \A r \in SubsOf(t) : r <= x
  BY <1>1, <1>2 DEF NewestInv, ComplaintsKnow, NewestThen
<1>4. Newest(s)  BY <1>3 DEF Newest, SubsOf
<1> QED  BY <1>1, <1>3, <1>4

LEMMA PutBackNewest ==
    ASSUME TypeOK, TypeOK', NewestInv, NEW c \in DOMAIN complaints, PutBackBy(c)
    PROVE  NewestInv'
<1>1. TicketsStay /\ complaints' = [complaints EXCEPT ![c] = Undone(complaints[c])]  BY DEF PutBackBy
<1>2. OpenIsNewest'
  <2> SUFFICES ASSUME NEW s \in DOMAIN subs, subs'[s].state \in OpenStates  PROVE Newest(s)
    BY <1>1, SameTickets DEF OpenIsNewest, TicketsStay
  <2>1. CASE subs[s].state \in OpenStates  BY <2>1 DEF NewestInv, OpenIsNewest
  <2>2. CASE subs[s].state \notin OpenStates
    <3>1. s \in SubsOf(complaints[c].ticket) /\ complaints[c].was[s] \in OpenStates
      BY <2>2 DEF PutBackBy
    <3> QED  BY <3>1, PutsBackNewest
  <2> QED  BY <2>1, <2>2
<1>3. Len(subs') = Len(subs)
  <2>1. 1..Len(subs') = 1..Len(subs) /\ Len(subs) \in Nat /\ Len(subs') \in Nat
    BY <1>1, LenProperties DEF TicketsStay, TypeOK
  <2> QED  BY <2>1
<1>4. /\ DOMAIN complaints' = DOMAIN complaints /\ complaints'[c] = Undone(complaints[c])
      /\ \A d \in DOMAIN complaints : d # c => complaints'[d] = complaints[d]
  BY <1>1
<1>5. /\ complaints'[c].at = complaints[c].at
      /\ \A s \in 1..MaxSubs : complaints'[c].was[s] \notin OpenStates
  <2>1. complaints[c] \in Complaint  BY ComplaintRows
  <2> QED  BY <1>4, <2>1 DEF Undone, Complaint, OpenStates, Handed
<1>6. ComplaintsKnow'
  BY <1>1, <1>3, <1>4, <1>5, SameTickets DEF NewestInv, ComplaintsKnow, NewestThen
<1> QED  BY <1>2, <1>6 DEF NewestInv

LEMMA NewestKept ==
    ASSUME TypeOK, TypeOK', NewestInv, SubsStep
    PROVE  NewestInv'
<1>1. CASE StatesStay /\ complaints' = complaints  BY <1>1, NoneOpens DEF StatesStay, TicketsStay
<1>2. CASE /\ \E s \in DOMAIN subs : subs[s].state \in OpenStates /\ Becomes(s, OpenStates \cup Decisions)
           /\ complaints' = complaints
  BY <1>2, NoneOpens DEF Becomes, TicketsStay
<1>3. CASE \E t \in Tickets : GivenWay(t) /\ DOMAIN subs' = DOMAIN subs /\ complaints' = complaints
  <2>1. TicketsStay  BY <1>3 DEF GivenWay, TicketsStay
  <2>2. \A s \in DOMAIN subs : subs'[s].state \in OpenStates => subs[s].state \in OpenStates
    BY <1>3 DEF GivenWay, OpenStates, Handed
  <2> QED  BY <1>3, <2>1, <2>2, NoneOpens
<1>4. CASE \E t \in Tickets : HandedOver(t) /\ complaints' = complaints  BY <1>4, HandedOverNewest
<1>5. CASE \E t \in Tickets : Complained(t)  BY <1>5, ComplainedNewest
<1>6. CASE \E c \in DOMAIN complaints : PutBackBy(c)  BY <1>6, PutBackNewest
<1> QED  BY <1>1, <1>2, <1>3, <1>4, <1>5, <1>6 DEF SubsStep

-----------------------------------------------------------------------------
(* The refinement: every step of the tables is one of HandOver's, or none. *)

Offers == [s \in DOMAIN subs |-> [ticket |-> subs[s].ticket, fate |-> Fate(subs[s].state)]]

LEMMA FateIs ==
    /\ \A x \in OpenStates : Fate(x) = "open"
    /\ \A x : x \notin OpenStates => Fate(x) # "open"
    /\ Fate("superseded") = "withdrawn"
    /\ \A x \in Decisions : Fate(x) \in {"accepted", "refused"}
BY DEF Fate, OpenStates, Handed, Decisions

LEMMA OfferRows ==
    /\ DOMAIN Offers = DOMAIN subs
    /\ \A s \in DOMAIN subs : /\ Offers[s] = [ticket |-> subs[s].ticket, fate |-> Fate(subs[s].state)]
                              /\ Offers[s].ticket = subs[s].ticket /\ Offers[s].fate = Fate(subs[s].state)
    /\ \A s \in DOMAIN subs : Abstract!Newest(s) <=> Newest(s)
BY DEF Offers, Abstract!Newest, Newest, SubsOf

\* The fate of one hand-over changes, or of none.
LEMMA OneFate ==
    ASSUME NEW s \in DOMAIN subs, TicketsStay,
           \A r \in DOMAIN subs : r # s => Fate(subs'[r].state) = Fate(subs[r].state)
    PROVE  /\ \A fate : fate = Fate(subs'[s].state) => Abstract!Becomes(s, fate)
           /\ Fate(subs'[s].state) = Fate(subs[s].state) => Offers' = Offers
<1> PICK fate : fate = Fate(subs'[s].state)  OBVIOUS
<1> DEFINE f == [r \in DOMAIN subs |-> [ticket |-> subs[r].ticket,
                                        fate |-> IF r = s THEN fate ELSE Fate(subs[r].state)]]
<1>1. Offers' = f  BY DEF Offers, TicketsStay
<1>2. [Offers EXCEPT ![s].fate = fate] = f
  <2>1. [Offers EXCEPT ![s].fate = fate]
        = [r \in DOMAIN subs |-> IF r = s THEN [Offers[s] EXCEPT !.fate = fate] ELSE Offers[r]]
    BY OfferRows DEF Offers
  <2>2. [Offers[s] EXCEPT !.fate = fate] = [ticket |-> subs[s].ticket, fate |-> fate]  BY OfferRows
  <2> QED  BY <2>1, <2>2, OfferRows
<1>3. \A x : x = fate => Abstract!Becomes(s, x)  BY <1>1, <1>2 DEF Abstract!Becomes, Offers
<1>4. fate = Fate(subs[s].state) => f = Offers  BY DEF Offers
<1> QED  BY <1>1, <1>3, <1>4

LEMMA StaysAbstract ==
    ASSUME StatesStay
    PROVE  Offers' = Offers
BY DEF Offers, StatesStay, TicketsStay

\* A decision is of an open hand-over, and that is the newest.
LEMMA DecidedAbstract ==
    ASSUME NewestInv, NEW s \in DOMAIN subs, subs[s].state \in OpenStates, Becomes(s, OpenStates \cup Decisions)
    PROVE  Abstract!Next \/ Offers' = Offers
<1>1. Offers[s].fate = "open" /\ Abstract!Newest(s)
  BY OfferRows, FateIs DEF NewestInv, OpenIsNewest
<1>2. /\ \A fate : fate = Fate(subs'[s].state) => Abstract!Becomes(s, fate)
      /\ (Fate(subs'[s].state) = Fate(subs[s].state) => Offers' = Offers)
  BY OneFate DEF Becomes
<1>3. CASE subs'[s].state \in OpenStates  BY <1>2, <1>3, FateIs
<1>4. CASE subs'[s].state \in Decisions
  <2>1. Fate(subs'[s].state) \in {"accepted", "refused"}  BY <1>4, FateIs
  <2>2. Abstract!Accept(s) \/ Abstract!Refuse(s)
    BY <1>1, <1>2, <2>1 DEF Abstract!Accept, Abstract!Refuse, Offers
  <2> QED  BY <2>2, OfferRows DEF Abstract!Next, Offers
<1> QED  BY <1>3, <1>4 DEF Becomes

\* What gives way is the one hand-over of its ticket that was open, if any.
LEMMA GivenWayAbstract ==
    ASSUME TypeOK, NewestInv, NEW t \in Tickets, GivenWay(t), DOMAIN subs' = DOMAIN subs
    PROVE  Abstract!Next \/ Offers' = Offers
<1> DEFINE Gives(s) == s \in SubsOf(t) /\ subs[s].state \in OpenStates
<1>1. TicketsStay /\ \A r \in DOMAIN subs :
        subs'[r].state = IF Gives(r) THEN "superseded" ELSE subs[r].state
  BY DEF GivenWay, TicketsStay, SubsOf
<1>2. CASE \A s \in DOMAIN subs : ~Gives(s)  BY <1>1, <1>2, StaysAbstract DEF StatesStay
<1>3. ASSUME NEW s \in DOMAIN subs, Gives(s)  PROVE Abstract!Next
  <2>1. \A r \in DOMAIN subs : Gives(r) => r = s
    <3> SUFFICES ASSUME NEW r \in DOMAIN subs, Gives(r)  PROVE r = s  OBVIOUS
    <3>1. r <= s /\ s <= r /\ r \in Nat /\ s \in Nat
      BY <1>3, Rows DEF NewestInv, OpenIsNewest, Newest, SubsOf
    <3> QED  BY <3>1
  <2>2. subs'[s].state = "superseded" /\ \A r \in DOMAIN subs : r # s => subs'[r].state = subs[r].state
    BY <1>1, <1>3, <2>1
  <2>3. Abstract!Becomes(s, "withdrawn")
    <3>1. Fate(subs'[s].state) = "withdrawn"  BY <2>2, FateIs
    <3> QED  BY <1>1, <2>2, <3>1, OneFate
  <2>4. Offers[s].fate = "open"  BY <1>3, OfferRows, FateIs
  <2>5. Abstract!Withdraw(s)  BY <2>3, <2>4 DEF Abstract!Withdraw, Offers
  <2> QED  BY <2>5, OfferRows DEF Abstract!Next, Offers
<1> QED  BY <1>2, <1>3

LEMMA HandedOverAbstract ==
    ASSUME TypeOK, NEW t \in Tickets, HandedOver(t)
    PROVE  Abstract!Next
<1> DEFINE n == Len(subs) + 1
           S == [ticket : Tickets, fate : {"open", "accepted", "refused", "withdrawn"}]
           f == [o \in DOMAIN Offers |-> IF Offers[o].ticket = t /\ Offers[o].fate = "open"
                                         THEN [Offers[o] EXCEPT !.fate = "withdrawn"] ELSE Offers[o]]
           e == [ticket |-> t, fate |-> "open"]
<1>1. Len(subs) \in Nat /\ DOMAIN subs = 1..Len(subs)  BY Rows
<1>2. /\ DOMAIN subs' = DOMAIN subs \cup {n} /\ n \notin DOMAIN subs
      /\ subs'[n].ticket = t /\ subs'[n].state \in OpenStates
  BY <1>1 DEF HandedOver
<1>3. \A o \in DOMAIN subs : f[o] = [ticket |-> subs'[o].ticket, fate |-> Fate(subs'[o].state)]
  <2> TAKE o \in DOMAIN subs
  <2>1. /\ subs'[o].ticket = subs[o].ticket
        /\ subs'[o].state = IF subs[o].ticket = t /\ subs[o].state \in OpenStates
                            THEN "superseded" ELSE subs[o].state
    BY DEF HandedOver, GivenWay
  <2>2. Offers[o] = [ticket |-> subs[o].ticket, fate |-> Fate(subs[o].state)]
        /\ (Offers[o].fate = "open" <=> subs[o].state \in OpenStates) /\ Offers[o].ticket = subs[o].ticket
    BY OfferRows, FateIs
  <2>3. CASE subs[o].ticket = t /\ subs[o].state \in OpenStates
    BY <2>1, <2>2, <2>3, FateIs, OfferRows
  <2>4. CASE ~(subs[o].ticket = t /\ subs[o].state \in OpenStates)
    BY <2>1, <2>2, <2>4, OfferRows
  <2> QED  BY <2>3, <2>4
<1>4. f \in Seq(S) /\ Len(f) = Len(subs) /\ DOMAIN f = DOMAIN subs
  <2>1. \A o \in DOMAIN subs : f[o] \in S
    <3> TAKE o \in DOMAIN subs
    <3>1. subs[o].ticket \in Tickets /\ subs'[o].ticket = subs[o].ticket
      BY Rows DEF Submission, HandedOver, GivenWay
    <3>2. Fate(subs'[o].state) \in {"open", "accepted", "refused", "withdrawn"}  BY DEF Fate
    <3>3. f[o] = [ticket |-> subs'[o].ticket, fate |-> Fate(subs'[o].state)]  BY <1>3
    <3> HIDE DEF f
    <3> QED  BY <3>1, <3>2, <3>3
  <2>2. f \in [1..Len(subs) -> S]  BY <1>1, <2>1, OfferRows
  <2> HIDE DEF f, S
  <2> QED  BY <1>1, <2>2, SeqOfRows
<1>5. e \in S  OBVIOUS
<1> HIDE DEF f, e, S
<1>6. /\ Append(f, e) \in Seq(S) /\ DOMAIN Append(f, e) = DOMAIN subs \cup {n}
      /\ \A o \in DOMAIN subs : Append(f, e)[o] = f[o]
      /\ Append(f, e)[n] = e
  BY <1>4, <1>5, Added
<1>7. Append(f, e) = [o \in DOMAIN Append(f, e) |-> Append(f, e)[o]]
  BY <1>6, LenProperties
<1>8. Offers' = [o \in DOMAIN subs \cup {n} |-> [ticket |-> subs'[o].ticket, fate |-> Fate(subs'[o].state)]]
  BY <1>2 DEF Offers
<1>9. [ticket |-> subs'[n].ticket, fate |-> Fate(subs'[n].state)] = e  BY <1>2, FateIs DEF e
<1>10. Offers' = Append(f, e)  BY <1>3, <1>6, <1>7, <1>8, <1>9
<1>11. Abstract!Offer(t)  BY <1>10 DEF f, e, Abstract!Offer, Offers
<1> QED  BY <1>11 DEF Abstract!Next

LEMMA PutBackAbstract ==
    ASSUME TypeOK, NewestInv, NEW c \in DOMAIN complaints, PutBackBy(c)
    PROVE  Abstract!Next \/ Offers' = Offers
<1> DEFINE Back(s) == /\ s \in SubsOf(complaints[c].ticket) /\ complaints[c].was[s] \in OpenStates
                      /\ subs[s].state = "superseded"
<1>1. TicketsStay /\ \A s \in DOMAIN subs :
        subs'[s].state = IF Back(s) THEN complaints[c].was[s] ELSE subs[s].state
  BY DEF PutBackBy
<1>2. CASE \A s \in DOMAIN subs : ~Back(s)  BY <1>1, <1>2, StaysAbstract DEF StatesStay
<1>3. ASSUME NEW s \in DOMAIN subs, Back(s)  PROVE Abstract!Next
  <2>1. Newest(s) /\ \A r \in DOMAIN subs : Back(r) => r = s  BY <1>3, PutsBackNewest
  <2>2. subs'[s].state \in OpenStates /\ \A r \in DOMAIN subs : r # s => subs'[r].state = subs[r].state
    BY <1>1, <1>3, <2>1
  <2>3. Abstract!Becomes(s, "open")
    <3>1. Fate(subs'[s].state) = "open"  BY <2>2, FateIs
    <3> QED  BY <1>1, <2>2, <3>1, OneFate
  <2>4. Offers[s].fate = "withdrawn" /\ Abstract!Newest(s)  BY <1>3, <2>1, OfferRows, FateIs
  <2>5. Abstract!PutBack(s)  BY <2>3, <2>4 DEF Abstract!PutBack, Offers
  <2> QED  BY <2>5, OfferRows DEF Abstract!Next, Offers
<1> QED  BY <1>2, <1>3

LEMMA StepAbstract ==
    ASSUME TypeOK, NewestInv, SubsStep
    PROVE  Abstract!Next \/ Offers' = Offers
<1>1. CASE StatesStay  BY <1>1, StaysAbstract
<1>2. CASE \E s \in DOMAIN subs : subs[s].state \in OpenStates /\ Becomes(s, OpenStates \cup Decisions)
  BY <1>2, DecidedAbstract
<1>3. CASE \E t \in Tickets : GivenWay(t) /\ DOMAIN subs' = DOMAIN subs  BY <1>3, GivenWayAbstract
<1>4. CASE \E t \in Tickets : HandedOver(t)  BY <1>4, HandedOverAbstract
<1>5. CASE \E t \in Tickets : Complained(t)  BY <1>5, GivenWayAbstract DEF Complained
<1>6. CASE \E c \in DOMAIN complaints : PutBackBy(c)  BY <1>6, PutBackAbstract
<1> QED  BY <1>1, <1>2, <1>3, <1>4, <1>5, <1>6 DEF SubsStep

LEMMA InitAbstract == ASSUME Init PROVE Abstract!Init
<1>1. subs = << >> /\ Len(subs) = 0  BY EmptySeq DEF Init
<1>2. DOMAIN subs = {}  BY <1>1
<1>3. Offers \in [1..0 -> Submission] /\ Offers \in Seq(Submission) /\ Len(Offers) = 0
  <2>1. Offers \in [1..0 -> Submission]  BY <1>2 DEF Offers
  <2>2. Offers \in Seq(Submission)  BY <2>1, SeqDef
  <2>3. DOMAIN Offers = 1..Len(Offers) /\ Len(Offers) \in Nat  BY <2>2, LenProperties
  <2> QED  BY <2>1, <2>2, <2>3
<1>4. Offers = << >>  BY <1>3, EmptySeq
<1> QED  BY <1>4 DEF Offers, Abstract!Init

\* An open hand-over is its ticket's newest, and a complaint puts back only the newest.
THEOREM NewestIsOpen == Spec => []NewestInv
<1>1. TypeOK /\ NewestInv /\ [Next]_vars => NewestInv'  BY StepKind, NewestKept
<1> QED  BY <1>1, InitNewest, TypeCorrect, PTL DEF Spec

\* Submissions, reviews, your word, the tick, complaints and what is taken back
\* keep what handing over promises: only the newest hand-over of a ticket is
\* decided, once, and only while nothing newer was made is one put back.
THEOREM Implements == Spec => ImplementsHandOver
<1>1. TypeOK /\ NewestInv /\ [Next]_vars => [Abstract!Next]_Offers  BY StepKind, StepAbstract
<1>2. Init => Abstract!Init  BY InitAbstract
<1> QED  BY <1>1, <1>2, TypeCorrect, NewestIsOpen, PTL DEF Spec, ImplementsHandOver, Abstract!Spec, Offers

-----------------------------------------------------------------------------
(* Tickets and their hand-overs: what stage a ticket has, what card is open on   *)
(* it, and what a complaint may put back.                                        *)

Stands(c) == ~complaints[c].undone /\ ~MovedOn(c)

HandedIsReworkable ==
    \A s \in DOMAIN subs : subs[s].state \in Handed => stage[subs[s].ticket] \in Reworkable
ComplaintsHold ==
    \A c \in DOMAIN complaints : ~complaints[c].undone => complaints[c].stage \in Reworkable

\* While there is no second complaint: a card stands over no open hand-over, and a
\* complaint that can be taken back finds the ticket as it left it.
CardOverNone == \A t \in Tickets : card[t] # NoCard => NothingOpen(t)
Returns(c) ==
    /\ (\E s \in 1..MaxSubs : complaints[c].was[s] \in Handed) => complaints[c].stage \in Handed
    /\ Stands(c) => NothingOpen(complaints[c].ticket)
    /\ Stands(c) /\ (\E s \in 1..MaxSubs : complaints[c].was[s] \in OpenStates)
       => card[complaints[c].ticket] \in {NoCard, c}
OneComplaint ==
    Len(complaints) < 2 => TakenUp /\ CardOverNone /\ \A c \in DOMAIN complaints : Returns(c)

TicketsInv == HandedIsReworkable /\ ComplaintsHold /\ OneComplaint

-----------------------------------------------------------------------------
(* What every step is, of the tickets. *)

MovesTo(t, to) ==
    /\ to \in Stages /\ (to \notin Gone \/ to = stage[t]) /\ stage' = Moved(t, to)
    /\ delivered' => StillDelivered(t, to) \/ MayDeliver(stage')
ElsewhereCards(t) == \A u \in Tickets : u # t => card'[u] = card[u]

Quiet == StatesStay /\ UNCHANGED <<stage, card, delivered, complaints, edits>>
DecidedOn(s) ==
    /\ subs[s].state \in OpenStates /\ Becomes(s, Decisions)
    /\ (\E to \in Stages : MovesTo(subs[s].ticket, to)) /\ ElsewhereCards(subs[s].ticket)
    /\ UNCHANGED <<complaints, edits>>
ReadyOn(s) ==
    /\ subs[s].state \in OpenStates /\ Becomes(s, Handed)
    /\ \E to \in Handed : MovesTo(subs[s].ticket, to)
    /\ UNCHANGED <<card, complaints, edits>>
NewOn(t) ==
    /\ HandedOver(t) /\ card[t] = NoCard /\ stage[t] # "voided"
    /\ \/ /\ subs'[Len(subs) + 1].state = "checking"
          /\ \E to \in {stage[t], "doing"} : MovesTo(t, to)
       \/ SubsOf(t) = {} /\ MovesTo(t, "submitted")
    /\ UNCHANGED <<card, complaints, edits>>
EditedOn(t) ==
    /\ GivenWay(t) /\ DOMAIN subs' = DOMAIN subs
    /\ (\E to \in Stages \ {"voided"} : stage' = Moved(t, to)) /\ CloseCard(t)
    /\ edits' = edits + 1 /\ complaints' = complaints /\ delivered' = delivered
ComplainedOn(t) ==
    /\ GivenWay(t) /\ DOMAIN subs' = DOMAIN subs /\ stage[t] \in Reworkable
    /\ \E c \in Complaint :
          /\ complaints' = Append(complaints, c)
          /\ c.ticket = t /\ c.at = Len(subs) /\ c.stage = stage[t] /\ ~c.undone
          /\ \A s \in 1..MaxSubs : c.was[s] \in OpenStates => s \in SubsOf(t) /\ subs[s].state = c.was[s]
    /\ stage' = Moved(t, "rework") /\ ~delivered'
    /\ ElsewhereCards(t) /\ (card[t] = NoCard => card'[t] \in {NoCard, Len(complaints) + 1})
    /\ edits' = edits
ReturnedBy(c) ==
    LET t == complaints[c].ticket
    IN  /\ PutBackBy(c) /\ ~complaints[c].undone /\ stage[t] = "rework"
        /\ MovesTo(t, complaints[c].stage)
        /\ ElsewhereCards(t) /\ card'[t] = IF card[t] = c THEN NoCard ELSE card[t]
        /\ edits' = edits
AnsweredOn(t) ==
    /\ StatesStay /\ card[t] # NoCard /\ CloseCard(t)
    /\ UNCHANGED <<stage, delivered>> \/ MovesTo(t, "approved")
    /\ UNCHANGED <<complaints, edits>>

LaidOutOn(t) ==
    /\ StatesStay /\ stage[t] \notin Reworkable \cup {"voided"}
    /\ \/ \E to \in {"todo", "doing"} : stage' = Moved(t, to)
       \/ NothingOpen(t) /\ stage' = Moved(t, "voided")
    /\ UNCHANGED <<card, delivered, complaints, edits>>

TicketStep ==
    \/ Quiet
    \/ \E s \in DOMAIN subs : DecidedOn(s) \/ ReadyOn(s)
    \/ \E t \in Tickets : NewOn(t) \/ EditedOn(t) \/ ComplainedOn(t) \/ AnsweredOn(t) \/ LaidOutOn(t)
    \/ \E c \in DOMAIN complaints : ReturnedBy(c)

LEMMA SetMoves ==
    ASSUME NEW t \in Tickets, NEW to \in Stages, to \notin Gone \/ to = stage[t], SetTicketStage(t, to)
    PROVE  MovesTo(t, to)
BY DEF SetTicketStage, MovesTo

LEMMA CeilingElsewhere ==
    ASSUME TypeOK, NEW t \in Tickets, NEW which, CheckCeiling(t, which) \/ CloseCard(t) \/ UNCHANGED card
    PROVE  ElsewhereCards(t)
BY DEF TypeOK, CheckCeiling, CloseCard, ElsewhereCards

LEMMA FailOnTicket ==
    ASSUME TypeOK, NEW s \in DOMAIN subs, subs[s].state \in OpenStates, FailOnGates(s), UNCHANGED <<complaints, edits>>
    PROVE  DecidedOn(s)
<1> DEFINE t == subs[s].ticket
           back == IF stage[t] \in Reworkable THEN "rework" ELSE IF stage[t] = "todo" THEN "doing" ELSE stage[t]
<1>1. t \in Tickets  BY Rows DEF Submission
<1>2. back \in Stages /\ (back \notin Gone \/ back = stage[t])  BY <1>1 DEF TypeOK, Stages, Gone
<1>3. SetTicketStage(t, back) /\ CheckCeiling(t, FailureCard)  BY DEF FailOnGates
<1>4. Becomes(s, Decisions)  BY FailType
<1> HIDE DEF back
<1>5. MovesTo(t, back) /\ ElsewhereCards(t)  BY <1>1, <1>2, <1>3, SetMoves, CeilingElsewhere
<1> QED  BY <1>2, <1>4, <1>5 DEF DecidedOn

LEMMA ApproveOnTicket ==
    ASSUME TypeOK, NEW s \in DOMAIN subs, subs[s].state \in OpenStates, Approve(s), UNCHANGED <<complaints, edits>>
    PROVE  DecidedOn(s)
<1> DEFINE t == subs[s].ticket
<1>1. t \in Tickets  BY Rows DEF Submission
<1>2. PICK whole \in BOOLEAN :
        LET to == IF whole THEN "approved" ELSE "doing"
        IN  /\ stage' = Moved(t, to)
            /\ IF whole THEN CloseCard(t) ELSE UNCHANGED card
            /\ SettlePlanStage(Moved(t, to), StillDelivered(t, to))
  BY DEF Approve
<1> DEFINE to == IF whole THEN "approved" ELSE "doing"
<1>3. to \in Stages /\ to \notin Gone  BY DEF Stages, Gone
<1>4. stage' = Moved(t, to) /\ SettlePlanStage(Moved(t, to), StillDelivered(t, to))  BY <1>2
<1>5. ElsewhereCards(t)  BY <1>1, <1>2, CeilingElsewhere
<1>6. Becomes(s, Decisions)  BY ApproveType
<1> HIDE DEF to
<1>7. MovesTo(t, to)  BY <1>3, <1>4 DEF MovesTo, SettlePlanStage
<1> QED  BY <1>3, <1>5, <1>6, <1>7 DEF DecidedOn

LEMMA ResolveOnTicket ==
    ASSUME TypeOK, NEW s \in DOMAIN subs, subs[s].state \in OpenStates, ResolveApproval(s), UNCHANGED <<complaints, edits>>
    PROVE  DecidedOn(s)
BY FailOnTicket, ApproveOnTicket DEF ResolveApproval

\* A wait or a review of a row, and nothing of its ticket.
LEMMA AwaitOnTicket ==
    ASSUME TypeOK, NEW s \in DOMAIN subs,
           \/ \E kind \in Awaitings : AwaitYourWord(s, kind)
           \/ \E rev \in {"off", "waiting", "ran"} : subs' = [subs EXCEPT ![s].rev = rev]
           \/ \E kind \in Awaitings : subs' = [[subs EXCEPT ![s].rev = "off"] EXCEPT ![s].awaiting = kind],
           UNCHANGED <<stage, card, delivered, complaints, edits>>
    PROVE  Quiet
BY AwaitType DEF Quiet

LEMMA NewOnTicket ==
    ASSUME TypeOK, NEW t \in Tickets,
           (\E origin \in {"file"} \cup NeedsUser : NewSubmission(t, origin)) \/ OrganizerSaysDone(t)
    PROVE  NewOn(t)
<1>1. ASSUME NEW origin \in {"file"} \cup NeedsUser, NewSubmission(t, origin)  PROVE NewOn(t)
  <2> DEFINE row == [ticket |-> t, state |-> "checking", origin |-> origin, awaiting |-> "no", rev |-> "off"]
             to == IF stage[t] = "todo" THEN "doing" ELSE stage[t]
  <2>1. row \in Submission /\ row.ticket = t /\ row.state = "checking" /\ row.state \in OpenStates
    BY DEF Submission, SubStates, OpenStates, Awaitings, Handed
  <2>2. subs' = Append(Sup(subs, t), row) /\ Len(subs) < MaxSubs  BY <1>1 DEF NewSubmission
  <2>3. to \in Stages /\ SetTicketStage(t, to) /\ to \in {stage[t], "doing"}
    BY <1>1 DEF NewSubmission, TypeOK, Stages
  <2>4. card[t] = NoCard /\ stage[t] # "voided" /\ UNCHANGED <<card, complaints, edits>>
    BY <1>1 DEF NewSubmission
  <2> HIDE DEF row, to
  <2>5. subs' \in Seq(Submission) /\ HandedOver(t)  BY <2>1, <2>2, NewRows
  <2>6. subs'[Len(subs) + 1] = row  BY <2>1, <2>2, SupRows, Added
  <2>7. MovesTo(t, to)  BY <2>3, SetMoves DEF Gone
  <2> QED  BY <2>1, <2>3, <2>4, <2>5, <2>6, <2>7 DEF NewOn
<1>2. CASE OrganizerSaysDone(t)
  <2> DEFINE row == [ticket |-> t, state |-> "submitted", origin |-> "organizer", awaiting |-> "no", rev |-> "off"]
  <2>1. row \in Submission /\ row.ticket = t /\ row.state \in OpenStates
    BY DEF Submission, SubStates, OpenStates, Awaitings, Handed, NeedsUser
  <2>2. subs' = Append(Sup(subs, t), row) /\ Len(subs) < MaxSubs
    <3>1. \A s \in DOMAIN subs : subs[s].ticket # t  BY <1>2 DEF OrganizerSaysDone, SubsOf
    <3>2. subs = [s \in DOMAIN subs |-> subs[s]]  BY Rows, LenProperties DEF TypeOK
    <3>3. Sup(subs, t) = subs  BY <3>1, <3>2 DEF Sup
    <3> QED  BY <1>2, <3>3 DEF OrganizerSaysDone
  <2> HIDE DEF row
  <2>3. HandedOver(t)  BY <2>1, <2>2, NewRows
  <2>4. SetTicketStage(t, "submitted") /\ "submitted" \in Stages  BY <1>2 DEF OrganizerSaysDone, Stages
  <2>5. MovesTo(t, "submitted")  BY <2>4, SetMoves DEF Gone
  <2>6. card[t] = NoCard /\ stage[t] # "voided" /\ SubsOf(t) = {} /\ UNCHANGED <<card, complaints, edits>>
    BY <1>2 DEF OrganizerSaysDone, Gone
  <2> QED  BY <2>3, <2>5, <2>6 DEF NewOn
<1> QED  BY <1>1, <1>2

LEMMA SettleOnTicket ==
    ASSUME TypeOK, NEW s \in DOMAIN subs, Settle(s)
    PROVE  Quiet \/ DecidedOn(s) \/ (subs[s].state = "checking" /\ ReadyOn(s))
<1>1. UNCHANGED <<complaints, edits>>  BY DEF Settle
<1>2. CASE ~StillChecking(s)
  <2>1. UNCHANGED <<stage, card, delivered, subs>>  BY <1>2 DEF Settle
  <2> QED  BY <1>1, <2>1 DEF Quiet, StatesStay, TicketsStay
<1>3. CASE StillChecking(s) /\ FailOnGates(s)
  <2>1. subs[s].state \in OpenStates  BY <1>3 DEF StillChecking, OpenStates
  <2> QED  BY <1>1, <1>3, <2>1, FailOnTicket
<1>4. CASE /\ StillChecking(s)
           /\ \E to \in Handed : SetTicketStage(subs[s].ticket, to) /\ subs' = [subs EXCEPT ![s].state = to]
           /\ UNCHANGED card
  <2>1. PICK to \in Handed : SetTicketStage(subs[s].ticket, to) /\ subs' = [subs EXCEPT ![s].state = to]
    BY <1>4
  <2>2. subs[s] \in Submission  BY Rows
  <2> DEFINE row == [subs[s] EXCEPT !.state = to]
  <2>3. row \in Submission /\ row.ticket = subs[s].ticket /\ row.state = to
    BY <2>2 DEF Submission, SubStates, OpenStates, Handed
  <2>4. subs' = [subs EXCEPT ![s] = row]  BY <2>1
  <2> HIDE DEF row
  <2>5. Becomes(s, Handed)  BY <2>3, <2>4, OneRow DEF Becomes, TicketsStay
  <2>6. to \in Stages /\ to \notin Gone /\ subs[s].ticket \in Tickets  BY <2>2 DEF Handed, Stages, Gone, Submission
  <2>7. MovesTo(subs[s].ticket, to)  BY <2>1, <2>6, SetMoves
  <2> QED  BY <1>1, <1>4, <2>5, <2>7 DEF ReadyOn, StillChecking, OpenStates
<1> QED  BY <1>2, <1>3, <1>4 DEF Settle

LEMMA ReviewOnTicket ==
    ASSUME TypeOK, NEW s \in DOMAIN subs, BeginReview(s) \/ ReviewApprove(s) \/ ReviewReject(s)
    PROVE  Quiet \/ (subs[s].state \in Handed /\ DecidedOn(s))
<1>1. UNCHANGED <<complaints, edits>>  BY DEF BeginReview, ReviewApprove, ReviewReject
<1>2. CASE BeginReview(s)  BY <1>2, AwaitOnTicket DEF BeginReview
<1>3. CASE ReviewApprove(s)
  <2>1. CASE subs' = [subs EXCEPT ![s].rev = "off"] /\ UNCHANGED <<stage, card, delivered>>
    <3>1. \E rev \in {"off", "waiting", "ran"} : subs' = [subs EXCEPT ![s].rev = rev]  BY <2>1
    <3> QED  BY <1>1, <2>1, <3>1, AwaitOnTicket
  <2>2. CASE /\ \E kind \in Awaitings : subs' = [[subs EXCEPT ![s].rev = "off"] EXCEPT ![s].awaiting = kind]
             /\ UNCHANGED <<stage, card, delivered>>
    BY <1>1, <2>2, AwaitOnTicket
  <2>3. CASE Decidable(s) /\ Approve(s)
    <3>1. subs[s].state \in Handed /\ subs[s].state \in OpenStates  BY <2>3 DEF Decidable, OpenStates
    <3> QED  BY <1>1, <2>3, <3>1, ApproveOnTicket
  <2> QED  BY <1>3, <2>1, <2>2, <2>3 DEF ReviewApprove, Awaitings
<1>4. CASE ReviewReject(s)
  <2> DEFINE t == subs[s].ticket
  <2>1. subs[s].state \in Handed /\ subs[s].state \in OpenStates  BY <1>4 DEF ReviewReject, Decidable, OpenStates
  <2>2. subs' = Decide(s, "rejected") /\ "rejected" \in SubStates  BY <1>4 DEF ReviewReject, SubStates
  <2>3. SetTicketStage(t, "rework") /\ CheckCeiling(t, FailureCard) /\ "rework" \in Stages /\ t \in Tickets
    BY <1>4, Rows DEF ReviewReject, Stages, Submission
  <2>4. Becomes(s, Decisions)  BY <2>2, DecideRows DEF Becomes, TicketsStay, Decisions
  <2>5. MovesTo(t, "rework") /\ ElsewhereCards(t)  BY <2>3, SetMoves, CeilingElsewhere DEF Gone
  <2> QED  BY <1>1, <2>1, <2>3, <2>4, <2>5 DEF DecidedOn
<1> QED  BY <1>2, <1>3, <1>4

LEMMA TickOnTicket ==
    ASSUME TypeOK, NEW s \in DOMAIN subs, Tick(s)
    PROVE  Quiet \/ (subs[s].state \in Handed /\ (DecidedOn(s) \/ ReadyOn(s)))
<1>1. UNCHANGED <<complaints, edits>> /\ subs[s].state \in Handed /\ subs[s].state \in OpenStates
  BY DEF Tick, Decidable, OpenStates
<1>2. CASE TakeUpAwaiting(s)
  <2>1. CASE FailOnGates(s) \/ ResolveApproval(s) \/ Approve(s)
    BY <1>1, <2>1, FailOnTicket, ResolveOnTicket, ApproveOnTicket
  <2>2. CASE (\E kind \in Awaitings : AwaitYourWord(s, kind)) /\ UNCHANGED <<stage, card, delivered>>
    BY <1>1, <2>2, AwaitOnTicket
  <2> QED  BY <1>2, <2>1, <2>2 DEF TakeUpAwaiting, Awaitings
<1>3. CASE /\ subs' = [subs EXCEPT ![s].state = "in_review"]
           /\ SetTicketStage(subs[s].ticket, "in_review")
           /\ UNCHANGED card
  <2> DEFINE row == [subs[s] EXCEPT !.state = "in_review"]
  <2>1. subs[s] \in Submission  BY Rows
  <2>2. row \in Submission /\ row.ticket = subs[s].ticket /\ row.state \in Handed
    BY <2>1 DEF Submission, SubStates, OpenStates, Handed
  <2>3. subs' = [subs EXCEPT ![s] = row]  BY <1>3
  <2> HIDE DEF row
  <2>4. Becomes(s, Handed)  BY <2>2, <2>3, OneRow DEF Becomes, TicketsStay
  <2>5. "in_review" \in Stages /\ "in_review" \in Handed /\ subs[s].ticket \in Tickets
    BY <2>1 DEF Stages, Handed, Submission
  <2>6. MovesTo(subs[s].ticket, "in_review")  BY <1>3, <2>5, SetMoves DEF Gone
  <2> QED  BY <1>1, <1>3, <2>4, <2>5, <2>6 DEF ReadyOn
<1> QED  BY <1>2, <1>3 DEF Tick

LEMMA WordOnTicket ==
    ASSUME TypeOK, NEW s \in DOMAIN subs, PassByYourWord(s) \/ TakeUpPendingApproval(s)
    PROVE  Quiet \/ (subs[s].state \in Handed /\ DecidedOn(s))
<1>1. UNCHANGED <<complaints, edits>> /\ subs[s].state \in Handed /\ subs[s].state \in OpenStates
  BY DEF PassByYourWord, TakeUpPendingApproval, Decidable, OpenStates
<1>2. CASE AwaitYourWord(s, "pending") /\ UNCHANGED <<stage, card, delivered>>
  <2>1. \E kind \in Awaitings : AwaitYourWord(s, kind)  BY <1>2 DEF Awaitings
  <2> QED  BY <1>1, <1>2, <2>1, AwaitOnTicket
<1>3. CASE ResolveApproval(s)  BY <1>1, <1>3, ResolveOnTicket
<1> QED  BY <1>2, <1>3 DEF PassByYourWord, TakeUpPendingApproval

LEMMA SideOnTicket ==
    ASSUME TypeOK,
           \/ Say \/ ReadNothing \/ Crash \/ SwitchWaitWord \/ \E now \in BOOLEAN : PassBy(now)
           \/ \E t \in Tickets : AddGate(t) \/ \E o \in {"pass", "fail"} : RunGate(t, o)
    PROVE  Quiet
<1>1. CASE \/ Say \/ ReadNothing \/ SwitchWaitWord \/ \E now \in BOOLEAN : PassBy(now)
           \/ \E t \in Tickets : AddGate(t)
  BY <1>1 DEF Say, ReadNothing, SwitchWaitWord, PassBy, AddGate, Quiet, StatesStay, TicketsStay
<1>2. CASE Crash
  <2> DEFINE g == subs'
  <2>1. g = [s \in DOMAIN subs |-> [subs[s] EXCEPT !.rev = "off"]]  BY <1>2 DEF Crash
  <2>2. \A s \in DOMAIN subs : g[s].ticket = subs[s].ticket /\ g[s].state = subs[s].state
    <3> TAKE s \in DOMAIN subs
    <3>1. subs[s] \in Submission  BY Rows
    <3> QED  BY <2>1, <3>1 DEF Submission
  <2>3. DOMAIN g = DOMAIN subs  BY <2>1
  <2> QED  BY <1>2, <2>2, <2>3 DEF Crash, Quiet, StatesStay, TicketsStay
<1>3. ASSUME NEW t \in Tickets, NEW o \in {"pass", "fail"}, RunGate(t, o)  PROVE Quiet
  <2> DEFINE g == subs'
  <2>1. g = [s \in DOMAIN subs |-> IF subs[s].ticket = t /\ subs[s].rev # "off"
                                   THEN [subs[s] EXCEPT !.rev = "ran"] ELSE subs[s]]
    BY <1>3 DEF RunGate
  <2>2. \A s \in DOMAIN subs : g[s].ticket = subs[s].ticket /\ g[s].state = subs[s].state
    <3> TAKE s \in DOMAIN subs
    <3>1. subs[s] \in Submission  BY Rows
    <3> QED  BY <2>1, <3>1 DEF Submission
  <2>3. DOMAIN g = DOMAIN subs  BY <2>1
  <2> QED  BY <1>3, <2>2, <2>3 DEF RunGate, Quiet, StatesStay, TicketsStay
<1> QED  BY <1>1, <1>2, <1>3

LEMMA LayoutOnTicket ==
    ASSUME TypeOK, NEW t \in Tickets, NewTicket(t) \/ Drop(t)
    PROVE  LaidOutOn(t)
<1>1. StatesStay /\ UNCHANGED <<card, delivered, complaints, edits>>
  BY DEF NewTicket, Drop, StatesStay, TicketsStay
<1>2. stage[t] \in {"none", "todo", "doing", "rework"}  BY DEF NewTicket, Drop
<1>3. \/ \E to \in {"todo", "doing"} : stage' = Moved(t, to)
      \/ NothingOpen(t) /\ stage' = Moved(t, "voided")
  BY DEF NewTicket, Drop, NothingOpen
<1> QED  BY <1>1, <1>2, <1>3 DEF LaidOutOn, Reworkable, Handed

LEMMA AnswerOnTicket ==
    ASSUME TypeOK, NEW t \in Tickets, AnswerCeilingCard(t)
    PROVE  AnsweredOn(t)
<1>1. StatesStay /\ card[t] # NoCard /\ CloseCard(t) /\ UNCHANGED <<complaints, edits>>
  BY DEF AnswerCeilingCard, StatesStay, TicketsStay
<1>2. UNCHANGED <<stage, delivered>> \/ MovesTo(t, "approved")
  BY DEF AnswerCeilingCard, SettlePlanStage, MovesTo, StillDelivered, Stages, Gone
<1> QED  BY <1>1, <1>2 DEF AnsweredOn

LEMMA EditOnTicket ==
    ASSUME TypeOK, NEW t \in Tickets, NEW to \in {"todo", "doing", "submitted", "approved", "dropped"},
           BoardEdit(t, to)
    PROVE  EditedOn(t)
<1>1. stage' = Moved(t, to) /\ to \in Stages \ {"voided"} /\ CloseCard(t) /\ subs' = Sup(subs, t)
      /\ edits' = edits + 1 /\ complaints' = complaints /\ delivered' = delivered
  BY DEF BoardEdit, Stages, Gone
<1>2. GivenWay(t) /\ DOMAIN subs' = DOMAIN subs  BY <1>1, SupRows DEF GivenWay
<1> QED  BY <1>1, <1>2 DEF EditedOn

LEMMA ComplaintOnTicket ==
    ASSUME TypeOK, NEW t \in Tickets, NoteComplaint(t)
    PROVE  ComplainedOn(t)
<1> DEFINE was == [s \in 1..MaxSubs |-> IF s \in SubsOf(t) /\ subs[s].state \in OpenStates
                                        THEN subs[s].state ELSE "superseded"]
           c == [ticket |-> t, stage |-> stage[t], delivered |-> delivered, at |-> Len(subs), undone |-> FALSE,
                 was |-> was]
<1>1. /\ complaints' = Append(complaints, c) /\ stage[t] \in Reworkable
      /\ subs' = Sup(subs, t) /\ stage' = Moved(t, "rework") /\ delivered' = FALSE /\ edits' = edits
  BY DEF NoteComplaint
<1>2. was \in [1..MaxSubs -> SubStates]
  <2>1. \A s \in SubsOf(t) : subs[s].state \in SubStates  BY Rows DEF SubsOf, Submission
  <2>2. "superseded" \in SubStates  BY DEF SubStates
  <2> QED  BY <2>1, <2>2
<1>3. \A s \in 1..MaxSubs : was[s] \in OpenStates => s \in SubsOf(t) /\ subs[s].state = was[s]
  BY DEF OpenStates, Handed
<1>4. Len(subs) \in 0..MaxSubs /\ stage[t] \in Stages /\ delivered \in BOOLEAN
  BY Rows, SubmissionsAssumption DEF TypeOK
<1> HIDE DEF was
<1>5. c \in Complaint /\ c.ticket = t /\ c.at = Len(subs) /\ c.was = was /\ c.stage = stage[t] /\ ~c.undone
  BY <1>2, <1>4 DEF Complaint
<1> HIDE DEF c
<1>6. GivenWay(t) /\ DOMAIN subs' = DOMAIN subs  BY <1>1, SupRows DEF GivenWay
<1>7. CheckCeiling(t, Len(complaints) + 1) \/ UNCHANGED card  BY DEF NoteComplaint
<1>8. ElsewhereCards(t)  BY <1>7, CeilingElsewhere
<1>9. card[t] = NoCard => card'[t] \in {NoCard, Len(complaints) + 1}
  BY <1>7 DEF CheckCeiling, TypeOK
<1> QED  BY <1>1, <1>3, <1>5, <1>6, <1>8, <1>9 DEF ComplainedOn

LEMMA UndoOnTicket ==
    ASSUME TypeOK, ComplaintsHold, NEW c \in DOMAIN complaints, UndoRework(c)
    PROVE  ReturnedBy(c)
<1> DEFINE t == complaints[c].ticket
           to == complaints[c].stage
<1>1. t \in Tickets /\ to \in Stages
  <2>1. complaints[c] \in Complaint  BY ComplaintRows
  <2> QED  BY <2>1 DEF Complaint
<1>2. /\ ~complaints[c].undone /\ stage[t] = "rework" /\ stage' = Moved(t, to) /\ edits' = edits
      /\ IF complaints[c].delivered THEN SettlePlanStage(stage', delivered) ELSE UNCHANGED delivered
      /\ IF card[t] = c THEN CloseCard(t) ELSE UNCHANGED card
  BY DEF UndoRework
<1>3. ElsewhereCards(t) /\ card'[t] = IF card[t] = c THEN NoCard ELSE card[t]
  BY <1>1, <1>2, CeilingElsewhere DEF CloseCard, TypeOK
<1>4. delivered' => StillDelivered(t, to) \/ MayDeliver(stage')
  BY <1>2 DEF SettlePlanStage, StillDelivered
<1>5. to \notin Gone  BY <1>2 DEF ComplaintsHold, Reworkable, Handed, Gone
<1>6. PutBackBy(c)  BY UndoReworkStep
<1> QED  BY <1>1, <1>2, <1>3, <1>4, <1>5, <1>6 DEF ReturnedBy, MovesTo

LEMMA StepOnTicket ==
    ASSUME TypeOK, ComplaintsHold, [Next]_vars
    PROVE  TicketStep
<1>1. CASE UNCHANGED vars
  BY <1>1 DEF vars, TicketStep, Quiet, StatesStay, TicketsStay
<1>2. ASSUME NEW t \in Tickets,
             \/ Submit(t) \/ Answer(t) \/ OrganizerSaysDone(t) \/ NoteComplaint(t) \/ AnswerCeilingCard(t)
             \/ NewTicket(t) \/ Drop(t)
             \/ \E to \in {"todo", "doing", "submitted", "approved", "dropped"} : BoardEdit(t, to)
      PROVE  TicketStep
  <2>1. NewOn(t) \/ EditedOn(t) \/ ComplainedOn(t) \/ AnsweredOn(t) \/ LaidOutOn(t)
    BY <1>2, NewOnTicket, ComplaintOnTicket, AnswerOnTicket, EditOnTicket, LayoutOnTicket
    DEF Submit, Answer, NeedsUser
  <2> QED  BY <2>1 DEF TicketStep
<1>3. ASSUME NEW s \in DOMAIN subs,
             \/ Settle(s) \/ BeginReview(s) \/ ReviewApprove(s) \/ ReviewReject(s)
             \/ Tick(s) \/ PassByYourWord(s) \/ TakeUpPendingApproval(s)
      PROVE  TicketStep
  <2>1. Quiet \/ DecidedOn(s) \/ ReadyOn(s)
    BY <1>3, SettleOnTicket, ReviewOnTicket, TickOnTicket, WordOnTicket
  <2> QED  BY <2>1 DEF TicketStep
<1>4. CASE \/ Say \/ ReadNothing \/ Crash \/ SwitchWaitWord \/ \E now \in BOOLEAN : PassBy(now)
           \/ \E t \in Tickets : AddGate(t) \/ \E o \in {"pass", "fail"} : RunGate(t, o)
  BY <1>4, SideOnTicket DEF TicketStep
<1>5. ASSUME NEW c \in DOMAIN complaints, UndoRework(c)  PROVE TicketStep
  BY <1>5, UndoOnTicket DEF TicketStep
<1> QED  BY <1>1, <1>2, <1>3, <1>4, <1>5 DEF Next

-----------------------------------------------------------------------------
(* The invariant of tickets is kept. *)

LEMMA MovedStage ==
    ASSUME TypeOK, NEW t \in Tickets, NEW to, stage' = Moved(t, to)
    PROVE  \A u \in Tickets : stage'[u] = IF u = t THEN to ELSE stage[u]
BY DEF TypeOK, Moved

LEMMA RowTicket == ASSUME TypeOK, NEW s \in DOMAIN subs PROVE subs[s].ticket \in Tickets
BY Rows DEF Submission

\* A ticket has one open hand-over.
LEMMA SoleOpen ==
    ASSUME TypeOK, OpenIsNewest, NEW s \in DOMAIN subs, NEW r \in DOMAIN subs,
           subs[s].ticket = subs[r].ticket, subs[s].state \in OpenStates, subs[r].state \in OpenStates
    PROVE  s = r
<1>1. r <= s /\ s <= r /\ r \in Nat /\ s \in Nat  BY Rows DEF OpenIsNewest, Newest, SubsOf
<1> QED  BY <1>1

\* A step in which no row opens and no complaint is made or taken back.
LEMMA NoneOpensOnTickets ==
    ASSUME TypeOK, OneComplaint, TicketsStay, complaints' = complaints,
           \A s \in DOMAIN subs : subs'[s].state \in OpenStates => subs[s].state \in OpenStates,
           \A t \in Tickets :
               \/ card'[t] \in {card[t], NoCard}
               \/ /\ \E s \in DOMAIN subs : subs[s].ticket = t /\ subs[s].state \in OpenStates
                  /\ \A s \in DOMAIN subs : subs[s].ticket = t => subs'[s].state \notin OpenStates,
           Len(complaints) < 2 =>
               \A s \in DOMAIN subs : subs'[s].state \in Handed => stage'[subs[s].ticket] \in Handed
    PROVE  OneComplaint'
<1> SUFFICES ASSUME Len(complaints) < 2
             PROVE  TakenUp' /\ CardOverNone' /\ \A c \in DOMAIN complaints : Returns(c)'
  BY DEF OneComplaint
<1>1. CardOverNone /\ \A c \in DOMAIN complaints : Returns(c)  BY DEF OneComplaint
<1>2. TakenUp'  BY DEF TakenUp, TicketsStay
<1>3. CardOverNone'  BY <1>1 DEF CardOverNone, NothingOpen, SubsOf, TicketsStay
<1>4. ASSUME NEW c \in DOMAIN complaints  PROVE Returns(c)'
  <2> DEFINE t == complaints[c].ticket
  <2>1. Returns(c) /\ t \in Tickets  BY <1>1, ComplaintRows DEF Complaint
  <2>2. Stands(c)' => Stands(c)  BY SameTickets DEF Stands, MovedOn
  <2>3. Stands(c) => NothingOpen(t)  BY <2>1 DEF Returns
  <2>4. Stands(c) => card'[t] \in {card[t], NoCard}  BY <2>1, <2>3 DEF NothingOpen, SubsOf
  <2>5. NothingOpen(t) => \A s \in DOMAIN subs' : subs'[s].ticket = t => subs'[s].state \notin OpenStates
    BY DEF NothingOpen, SubsOf, TicketsStay
  <2>6. Stands(c)' => \A s \in DOMAIN subs' : subs'[s].ticket = t => subs'[s].state \notin OpenStates
    BY <2>2, <2>3, <2>5
  <2>7. Stands(c)' => NothingOpen(complaints[c].ticket)'  BY <2>6 DEF NothingOpen, SubsOf
  <2>8. (\E s \in 1..MaxSubs : complaints[c].was[s] \in Handed) => complaints[c].stage \in Handed
    BY <2>1 DEF Returns
  <2>9. Stands(c)' /\ (\E s \in 1..MaxSubs : complaints[c].was[s] \in OpenStates) => card'[t] \in {NoCard, c}
    BY <2>1, <2>2, <2>4 DEF Returns
  <2> QED  BY <2>7, <2>8, <2>9 DEF Returns
<1> QED  BY <1>2, <1>3, <1>4

LEMMA QuietKeeps == ASSUME TypeOK, TicketsInv, Quiet PROVE TicketsInv'
<1>1. TicketsStay /\ \A s \in DOMAIN subs : subs'[s].state = subs[s].state  BY DEF Quiet, StatesStay
<1>2. UNCHANGED <<stage, card, delivered, complaints, edits>>  BY DEF Quiet
<1>3. HandedIsReworkable'  BY <1>1, <1>2 DEF TicketsInv, HandedIsReworkable, TicketsStay
<1>4. ComplaintsHold'  BY <1>2 DEF TicketsInv, ComplaintsHold
<1>5. OneComplaint'
  <2>1. OneComplaint  BY DEF TicketsInv
  <2>2. Len(complaints) < 2 =>
            \A s \in DOMAIN subs : subs'[s].state \in Handed => stage'[subs[s].ticket] \in Handed
    BY <1>1, <1>2, <2>1 DEF OneComplaint, TakenUp
  <2> QED  BY <1>1, <1>2, <2>1, <2>2, NoneOpensOnTickets
<1> QED  BY <1>3, <1>4, <1>5 DEF TicketsInv

LEMMA DecidedKeeps ==
    ASSUME TypeOK, TicketsInv, OpenIsNewest, NEW s \in DOMAIN subs, DecidedOn(s)
    PROVE  TicketsInv'
<1> DEFINE t == subs[s].ticket
<1>1. t \in Tickets  BY RowTicket
<1>2. /\ subs[s].state \in OpenStates /\ TicketsStay /\ subs'[s].state \notin OpenStates
      /\ \A r \in DOMAIN subs : r # s => subs'[r].state = subs[r].state
      /\ ElsewhereCards(t) /\ UNCHANGED <<complaints, edits>>
  BY DEF DecidedOn, Becomes, Decisions, OpenStates, Handed
<1>3. PICK to \in Stages : MovesTo(t, to)  BY DEF DecidedOn
<1>4. \A u \in Tickets : u # t => stage'[u] = stage[u]  BY <1>1, <1>3, MovedStage DEF MovesTo
<1>5. ASSUME NEW r \in DOMAIN subs, subs'[r].state \in OpenStates
      PROVE  subs[r].ticket # t /\ subs'[r].state = subs[r].state /\ stage'[subs[r].ticket] = stage[subs[r].ticket]
  <2>1. r # s /\ subs'[r].state = subs[r].state  BY <1>2, <1>5
  <2>2. subs[r].ticket # t  BY <1>2, <1>5, <2>1, SoleOpen
  <2> QED  BY <1>4, <2>1, <2>2, RowTicket
<1>6. HandedIsReworkable'
  BY <1>2, <1>5 DEF TicketsInv, HandedIsReworkable, TicketsStay, OpenStates
<1>7. ComplaintsHold'  BY <1>2 DEF TicketsInv, ComplaintsHold
<1>8. OneComplaint'
  <2>1. OneComplaint  BY DEF TicketsInv
  <2>2. Len(complaints) < 2 =>
            \A r \in DOMAIN subs : subs'[r].state \in Handed => stage'[subs[r].ticket] \in Handed
    BY <1>5, <2>1 DEF OneComplaint, TakenUp, OpenStates
  <2>3. \A r \in DOMAIN subs : subs'[r].state \in OpenStates => subs[r].state \in OpenStates  BY <1>5
  <2>4. ASSUME NEW u \in Tickets
        PROVE  \/ card'[u] \in {card[u], NoCard}
               \/ /\ \E r \in DOMAIN subs : subs[r].ticket = u /\ subs[r].state \in OpenStates
                  /\ \A r \in DOMAIN subs : subs[r].ticket = u => subs'[r].state \notin OpenStates
    <3>1. CASE u = t  BY <1>2, <1>5, <3>1
    <3>2. CASE u # t  BY <1>2, <3>2 DEF ElsewhereCards
    <3> QED  BY <3>1, <3>2
  <2> QED  BY <1>2, <2>1, <2>2, <2>3, <2>4, NoneOpensOnTickets
<1> QED  BY <1>6, <1>7, <1>8 DEF TicketsInv

LEMMA ReadyKeeps ==
    ASSUME TypeOK, TicketsInv, NEW s \in DOMAIN subs, ReadyOn(s)
    PROVE  TicketsInv'
<1> DEFINE t == subs[s].ticket
<1>1. t \in Tickets  BY RowTicket
<1>2. /\ subs[s].state \in OpenStates /\ TicketsStay
      /\ \A r \in DOMAIN subs : r # s => subs'[r].state = subs[r].state
      /\ UNCHANGED <<card, complaints, edits>>
  BY DEF ReadyOn, Becomes
<1>3. PICK to \in Handed : MovesTo(t, to)  BY DEF ReadyOn
<1>4. \A u \in Tickets : stage'[u] = IF u = t THEN to ELSE stage[u]  BY <1>1, <1>3, MovedStage DEF MovesTo
<1>5. HandedIsReworkable'
  <2> SUFFICES ASSUME NEW r \in DOMAIN subs, subs'[r].state \in Handed
               PROVE  stage'[subs[r].ticket] \in Reworkable
    BY <1>2 DEF HandedIsReworkable, TicketsStay
  <2>1. CASE subs[r].ticket = t  BY <1>1, <1>4, <2>1 DEF Reworkable
  <2>2. CASE subs[r].ticket # t
    <3>1. r # s /\ subs[r].state \in Handed  BY <1>2, <2>2
    <3> QED  BY <1>4, <2>2, <3>1, RowTicket DEF TicketsInv, HandedIsReworkable
  <2> QED  BY <2>1, <2>2
<1>6. ComplaintsHold'  BY <1>2 DEF TicketsInv, ComplaintsHold
<1>7. OneComplaint'
  <2>1. OneComplaint  BY DEF TicketsInv
  <2>2. ASSUME Len(complaints) < 2, NEW r \in DOMAIN subs, subs'[r].state \in Handed
        PROVE  stage'[subs[r].ticket] \in Handed
    <3>1. CASE subs[r].ticket = t  BY <1>1, <1>4, <3>1
    <3>2. CASE subs[r].ticket # t
      <4>1. r # s /\ subs[r].state \in Handed  BY <1>2, <2>2, <3>2
      <4> QED  BY <1>4, <2>1, <2>2, <3>2, <4>1, RowTicket DEF OneComplaint, TakenUp
    <3> QED  BY <3>1, <3>2
  <2>3. \A r \in DOMAIN subs : subs'[r].state \in OpenStates => subs[r].state \in OpenStates  BY <1>2
  <2> QED  BY <1>2, <2>1, <2>2, <2>3, NoneOpensOnTickets
<1> QED  BY <1>5, <1>6, <1>7 DEF TicketsInv

LEMMA NewKeeps ==
    ASSUME TypeOK, TicketsInv, ComplaintsKnow, NEW t \in Tickets, NewOn(t)
    PROVE  TicketsInv'
<1> DEFINE n == Len(subs) + 1
<1>1. /\ n \notin DOMAIN subs /\ DOMAIN subs' = DOMAIN subs \cup {n} /\ n \in Nat
      /\ subs'[n].ticket = t
      /\ \A r \in DOMAIN subs :
           /\ subs'[r].ticket = subs[r].ticket
           /\ subs'[r].state = IF subs[r].ticket = t /\ subs[r].state \in OpenStates
                               THEN "superseded" ELSE subs[r].state
  BY Rows DEF NewOn, HandedOver, GivenWay
<1>2. card[t] = NoCard /\ UNCHANGED <<card, complaints, edits>>  BY DEF NewOn
<1>3. PICK to \in Stages : MovesTo(t, to) /\ (subs'[n].state = "checking" \/ to = "submitted")
  BY DEF NewOn, MovesTo
<1>4. \A u \in Tickets : stage'[u] = IF u = t THEN to ELSE stage[u]  BY <1>3, MovedStage DEF MovesTo
<1> HIDE DEF n
<1>5. ASSUME NEW r \in DOMAIN subs', subs'[r].state \in Handed
      PROVE  \/ r = n /\ stage'[subs'[r].ticket] = "submitted"
             \/ /\ r \in DOMAIN subs /\ subs[r].state \in Handed /\ subs'[r].ticket = subs[r].ticket
                /\ stage'[subs'[r].ticket] = stage[subs[r].ticket]
  <2>1. CASE r = n
    <3>1. subs'[n].state # "checking"  BY <1>5, <2>1 DEF Handed
    <3> QED  BY <1>1, <1>3, <1>4, <2>1, <3>1
  <2>2. CASE r # n
    <3>1. r \in DOMAIN subs  BY <1>1, <2>2
    <3>2. subs[r].ticket # t /\ subs[r].state \in Handed  BY <1>1, <1>5, <3>1 DEF OpenStates, Handed
    <3> QED  BY <1>1, <1>4, <3>1, <3>2, RowTicket
  <2> QED  BY <2>1, <2>2
<1>6. HandedIsReworkable'
  BY <1>5 DEF TicketsInv, HandedIsReworkable, Reworkable, Handed
<1>7. ComplaintsHold'  BY <1>2 DEF TicketsInv, ComplaintsHold
<1>8. OneComplaint'
  <2> SUFFICES ASSUME Len(complaints) < 2
               PROVE  TakenUp' /\ CardOverNone' /\ \A c \in DOMAIN complaints : Returns(c)'
    BY <1>2 DEF OneComplaint
  <2>1. TakenUp /\ CardOverNone /\ \A c \in DOMAIN complaints : Returns(c)  BY DEF TicketsInv, OneComplaint
  <2>2. TakenUp'  BY <1>5, <2>1 DEF TakenUp, Handed
  <2>3. ASSUME NEW u, u # t, NothingOpen(u)  PROVE NothingOpen(u)'
    BY <1>1, <2>3 DEF NothingOpen, SubsOf
  <2>4. CardOverNone'  BY <1>2, <2>1, <2>3 DEF CardOverNone
  <2>5. ASSUME NEW c \in DOMAIN complaints  PROVE Returns(c)'
    <3> DEFINE u == complaints[c].ticket
    <3>1. Returns(c) /\ complaints[c].at <= Len(subs) /\ complaints[c].at \in Nat
      <4>1. complaints[c].at \in Nat  BY ComplaintRows, SubmissionsAssumption DEF Complaint
      <4> QED  BY <2>1, <4>1 DEF ComplaintsKnow
    <3>2. Stands(c)' => u # t
      <4>1. n > complaints[c].at  BY <3>1, Rows DEF n
      <4> QED  BY <1>1, <1>2, <4>1 DEF Stands, MovedOn, SubsOf
    <3>3. Stands(c)' => Stands(c)  BY <1>1, <1>2 DEF Stands, MovedOn, SubsOf
    <3>4. Stands(c)' => NothingOpen(complaints[c].ticket)'
      <4>1. Stands(c) => NothingOpen(u)  BY <3>1 DEF Returns
      <4>2. u # t /\ NothingOpen(u)
            => \A r \in DOMAIN subs' : subs'[r].ticket = u => subs'[r].state \notin OpenStates
        BY <1>1 DEF NothingOpen, SubsOf
      <4> QED  BY <1>2, <3>2, <3>3, <4>1, <4>2 DEF NothingOpen, SubsOf
    <3> QED  BY <1>2, <3>1, <3>3, <3>4 DEF Returns
  <2> QED  BY <1>2, <2>2, <2>4, <2>5
<1> QED  BY <1>6, <1>7, <1>8 DEF TicketsInv

LEMMA EditedKeeps ==
    ASSUME TypeOK, TicketsInv, NEW t \in Tickets, EditedOn(t)
    PROVE  TicketsInv'
<1>1. /\ TicketsStay
      /\ \A r \in DOMAIN subs : subs'[r].state = IF subs[r].ticket = t /\ subs[r].state \in OpenStates
                                                 THEN "superseded" ELSE subs[r].state
      /\ complaints' = complaints /\ card' = [card EXCEPT ![t] = NoCard]
  BY DEF EditedOn, GivenWay, TicketsStay, CloseCard
<1>2. \A u \in Tickets : u # t => stage'[u] = stage[u]  BY MovedStage DEF EditedOn
<1>4. ASSUME NEW r \in DOMAIN subs, subs'[r].state \in OpenStates
      PROVE  /\ subs'[r].state = subs[r].state /\ stage'[subs[r].ticket] = stage[subs[r].ticket]
  <2>1. subs'[r].state = subs[r].state /\ subs[r].ticket # t  BY <1>1, <1>4 DEF OpenStates, Handed
  <2> QED  BY <1>2, <2>1, RowTicket
<1>5. HandedIsReworkable'
  BY <1>1, <1>4 DEF TicketsInv, HandedIsReworkable, TicketsStay, OpenStates
<1>6. ComplaintsHold'  BY <1>1 DEF TicketsInv, ComplaintsHold
<1>7. OneComplaint'
  <2>1. OneComplaint  BY DEF TicketsInv
  <2>2. Len(complaints) < 2 =>
            \A r \in DOMAIN subs : subs'[r].state \in Handed => stage'[subs[r].ticket] \in Handed
    BY <1>4, <2>1 DEF OneComplaint, TakenUp, OpenStates
  <2>3. \A r \in DOMAIN subs : subs'[r].state \in OpenStates => subs[r].state \in OpenStates  BY <1>4
  <2>4. \A u \in Tickets : card'[u] \in {card[u], NoCard}  BY <1>1 DEF TypeOK
  <2> QED  BY <1>1, <2>1, <2>2, <2>3, <2>4, NoneOpensOnTickets
<1> QED  BY <1>5, <1>6, <1>7 DEF TicketsInv

LEMMA AnsweredKeeps ==
    ASSUME TypeOK, TicketsInv, NEW t \in Tickets, AnsweredOn(t)
    PROVE  TicketsInv'
<1>1. /\ TicketsStay /\ \A r \in DOMAIN subs : subs'[r].state = subs[r].state
      /\ UNCHANGED <<complaints, edits>>
      /\ card[t] # NoCard /\ card' = [card EXCEPT ![t] = NoCard]
  BY DEF AnsweredOn, StatesStay, CloseCard
<1>2. UNCHANGED <<stage, delivered>> \/ MovesTo(t, "approved")  BY DEF AnsweredOn
<1>3. \A u \in Tickets : stage'[u] = stage[u] \/ (u = t /\ stage'[u] = "approved")
  BY <1>2, MovedStage DEF MovesTo
<1>4. HandedIsReworkable'
  BY <1>1, <1>3, RowTicket DEF TicketsInv, HandedIsReworkable, TicketsStay, Reworkable
<1>5. ComplaintsHold'  BY <1>1 DEF TicketsInv, ComplaintsHold
<1>6. OneComplaint'
  <2>1. OneComplaint  BY DEF TicketsInv
  <2>2. ASSUME Len(complaints) < 2, NEW r \in DOMAIN subs, subs'[r].state \in Handed
        PROVE  stage'[subs[r].ticket] \in Handed
    <3>1. NothingOpen(t) /\ TakenUp  BY <1>1, <2>1, <2>2 DEF OneComplaint, CardOverNone
    <3>2. subs[r].ticket # t /\ stage[subs[r].ticket] \in Handed
      BY <1>1, <2>2, <3>1 DEF NothingOpen, SubsOf, OpenStates, TakenUp
    <3> QED  BY <1>3, <3>2, RowTicket
  <2>3. \A u \in Tickets : card'[u] \in {card[u], NoCard}  BY <1>1 DEF TypeOK
  <2> QED  BY <1>1, <2>1, <2>2, <2>3, NoneOpensOnTickets
<1> QED  BY <1>4, <1>5, <1>6 DEF TicketsInv

LEMMA ComplainedKeeps ==
    ASSUME TypeOK, TicketsInv, NEW t \in Tickets, ComplainedOn(t)
    PROVE  TicketsInv'
<1> DEFINE n == Len(complaints) + 1
<1>1. PICK x \in Complaint :
        /\ complaints' = Append(complaints, x)
        /\ x.ticket = t /\ x.stage = stage[t]
        /\ \A s \in 1..MaxSubs : x.was[s] \in OpenStates => s \in SubsOf(t) /\ subs[s].state = x.was[s]
  BY DEF ComplainedOn
<1>2. /\ TicketsStay /\ stage[t] \in Reworkable /\ ~delivered' /\ edits' = edits
      /\ \A r \in DOMAIN subs : subs'[r].state = IF subs[r].ticket = t /\ subs[r].state \in OpenStates
                                                 THEN "superseded" ELSE subs[r].state
      /\ ElsewhereCards(t) /\ (card[t] = NoCard => card'[t] \in {NoCard, n})
  BY DEF ComplainedOn, GivenWay, TicketsStay
<1>3. \A u \in Tickets : stage'[u] = IF u = t THEN "rework" ELSE stage[u]
  BY MovedStage DEF ComplainedOn
<1>4. /\ DOMAIN complaints' = DOMAIN complaints \cup {n} /\ Len(complaints') = n
      /\ \A c \in DOMAIN complaints : complaints'[c] = complaints[c]
      /\ complaints'[n] = x /\ Len(complaints) \in Nat /\ DOMAIN complaints = 1..Len(complaints)
  BY <1>1, Added, ComplaintRows DEF TypeOK
<1>5. ASSUME NEW r \in DOMAIN subs, subs'[r].state \in OpenStates
      PROVE  /\ subs'[r].state = subs[r].state /\ subs[r].ticket # t
             /\ stage'[subs[r].ticket] = stage[subs[r].ticket]
  <2>1. subs'[r].state = subs[r].state /\ subs[r].ticket # t  BY <1>2, <1>5 DEF OpenStates, Handed
  <2> QED  BY <1>3, <2>1, RowTicket
<1>6. HandedIsReworkable'
  BY <1>2, <1>5 DEF TicketsInv, HandedIsReworkable, TicketsStay, OpenStates
<1>7. ComplaintsHold'  BY <1>1, <1>2, <1>4 DEF TicketsInv, ComplaintsHold
<1>8. OneComplaint'
  <2> SUFFICES ASSUME n < 2
               PROVE  TakenUp' /\ CardOverNone' /\ \A c \in DOMAIN complaints' : Returns(c)'
    BY <1>4 DEF OneComplaint
  <2>1. Len(complaints) < 2 /\ n = 1 /\ DOMAIN complaints' = {n}  BY <1>4
  <2>2. TakenUp /\ CardOverNone  BY <2>1 DEF TicketsInv, OneComplaint
  <2>3. TakenUp'  BY <1>2, <1>5, <2>1, <2>2 DEF TakenUp, TicketsStay, OpenStates
  <2>4. CardOverNone'
    <3> SUFFICES ASSUME NEW r \in DOMAIN subs, subs'[r].state \in OpenStates
                 PROVE  card'[subs[r].ticket] = NoCard
      BY <1>2 DEF CardOverNone, NothingOpen, SubsOf, TicketsStay
    <3>1. card[subs[r].ticket] = NoCard  BY <1>5, <2>2, RowTicket DEF CardOverNone, NothingOpen, SubsOf
    <3> QED  BY <1>2, <1>5, <3>1, RowTicket DEF ElsewhereCards
  <2>5. \A r \in DOMAIN subs' : subs'[r].ticket = t => subs'[r].state \notin OpenStates
    BY <1>2, <1>5 DEF TicketsStay
  <2>6. (\E s \in 1..MaxSubs : x.was[s] \in Handed) => x.stage \in Handed
    BY <1>1, <2>1, <2>2 DEF TakenUp, SubsOf, OpenStates
  <2>7. (\E s \in 1..MaxSubs : x.was[s] \in OpenStates) => card'[t] \in {NoCard, n}
    BY <1>1, <1>2, <2>2 DEF CardOverNone, NothingOpen
  <2>8. complaints'[1] = x  BY <1>4, <2>1
  <2>9. Returns(1)'
    BY <1>1, <2>1, <2>5, <2>6, <2>7, <2>8 DEF Returns, NothingOpen, SubsOf
  <2> QED  BY <2>1, <2>3, <2>4, <2>9
<1> QED  BY <1>6, <1>7, <1>8 DEF TicketsInv

LEMMA ReturnedKeeps ==
    ASSUME TypeOK, TicketsInv, NEW c \in DOMAIN complaints, ReturnedBy(c)
    PROVE  TicketsInv'
<1> DEFINE q == complaints[c]
           t == q.ticket
<1>1. q \in Complaint /\ t \in Tickets  BY ComplaintRows DEF Complaint
<1>2. /\ TicketsStay /\ ~MovedOn(c) /\ ~q.undone /\ stage[t] = "rework" /\ MovesTo(t, q.stage)
      /\ \A r \in DOMAIN subs :
           subs'[r].state = IF r \in SubsOf(t) /\ q.was[r] \in OpenStates /\ subs[r].state = "superseded"
                            THEN q.was[r] ELSE subs[r].state
      /\ complaints' = [complaints EXCEPT ![c] = Undone(q)]
      /\ ElsewhereCards(t) /\ card'[t] = (IF card[t] = c THEN NoCard ELSE card[t]) /\ edits' = edits
  BY DEF ReturnedBy, PutBackBy
<1>3. \A u \in Tickets : stage'[u] = IF u = t THEN q.stage ELSE stage[u]
  BY <1>1, <1>2, MovedStage DEF MovesTo
<1>4. /\ DOMAIN complaints' = DOMAIN complaints /\ Len(complaints') = Len(complaints)
      /\ \A d \in DOMAIN complaints : d # c => complaints'[d] = complaints[d]
      /\ complaints'[c] = Undone(q) /\ DOMAIN complaints = 1..Len(complaints) /\ Len(complaints) \in Nat
  <2> DEFINE x == Undone(q)
  <2>1. x \in Complaint
    <3>1. "superseded" \in SubStates /\ "rework" \in Stages  BY DEF SubStates, Stages
    <3> QED  BY <1>1, <3>1 DEF Undone, Complaint
  <2>2. complaints \in Seq(Complaint) /\ complaints' = [complaints EXCEPT ![c] = x] /\ c \in 1..Len(complaints)
    BY <1>2, ComplaintRows DEF TypeOK
  <2> HIDE DEF x
  <2>3. /\ complaints' \in Seq(Complaint) /\ Len(complaints') = Len(complaints) /\ complaints'[c] = x
        /\ \A d \in DOMAIN complaints : d # c => complaints'[d] = complaints[d]
    BY <2>1, <2>2, ExceptSeq, ComplaintRows
  <2>4. DOMAIN complaints' = 1..Len(complaints')  BY <2>3, LenProperties
  <2> QED  BY <2>3, <2>4, ComplaintRows DEF x
<1>5. Undone(q).undone /\ \A s \in 1..MaxSubs : Undone(q).was[s] = "superseded"
  BY <1>1 DEF Undone, Complaint
<1>6. q.stage \in Reworkable  BY <1>2 DEF TicketsInv, ComplaintsHold
<1>7. ASSUME NEW r \in DOMAIN subs, subs'[r].state \in Handed
      PROVE  \/ subs[r].ticket = t /\ r \in 1..MaxSubs /\ q.was[r] \in Handed
             \/ subs[r].ticket # t /\ subs[r].state \in Handed /\ stage'[subs[r].ticket] = stage[subs[r].ticket]
  <2>1. CASE r \in SubsOf(t) /\ q.was[r] \in OpenStates /\ subs[r].state = "superseded"
    BY <1>2, <1>7, <2>1, ComplaintRows DEF SubsOf
  <2>2. CASE subs'[r].state = subs[r].state
    <3>1. stage[subs[r].ticket] \in Reworkable  BY <1>7, <2>2 DEF TicketsInv, HandedIsReworkable
    <3>2. subs[r].ticket # t  BY <1>2, <3>1 DEF Reworkable, Handed
    <3> QED  BY <1>3, <1>7, <2>2, <3>2, RowTicket
  <2> QED  BY <1>2, <2>1, <2>2
<1>8. HandedIsReworkable'
  BY <1>1, <1>2, <1>3, <1>6, <1>7 DEF TicketsInv, HandedIsReworkable, TicketsStay
<1>9. ComplaintsHold'  BY <1>4, <1>5 DEF TicketsInv, ComplaintsHold
<1>10. OneComplaint'
  <2> SUFFICES ASSUME Len(complaints) < 2
               PROVE  TakenUp' /\ CardOverNone' /\ \A d \in DOMAIN complaints : Returns(d)'
    BY <1>4 DEF OneComplaint
  <2>1. TakenUp /\ CardOverNone /\ Returns(c) /\ DOMAIN complaints = {c}
    BY <1>4 DEF TicketsInv, OneComplaint
  <2>2. NothingOpen(t) /\ ((\E s \in 1..MaxSubs : q.was[s] \in OpenStates) => card[t] \in {NoCard, c})
    BY <1>2, <2>1 DEF Returns, Stands
  <2>3. TakenUp'
    <3> SUFFICES ASSUME NEW r \in DOMAIN subs, subs'[r].state \in Handed
                 PROVE  stage'[subs[r].ticket] \in Handed
      BY <1>2 DEF TakenUp, TicketsStay
    <3> QED  BY <1>1, <1>3, <1>4, <1>7, <2>1 DEF TakenUp, Returns
  <2>4. CardOverNone'
    <3> SUFFICES ASSUME NEW r \in DOMAIN subs, subs'[r].state \in OpenStates
                 PROVE  card'[subs[r].ticket] = NoCard
      BY <1>2 DEF CardOverNone, NothingOpen, SubsOf, TicketsStay
    <3>1. CASE subs[r].ticket = t
      <4>1. r \in 1..MaxSubs /\ q.was[r] \in OpenStates
        BY <1>2, <2>2, <3>1, ComplaintRows DEF NothingOpen, SubsOf
      <4> QED  BY <1>2, <2>2, <3>1, <4>1
    <3>2. CASE subs[r].ticket # t
      <4>1. subs[r].state \in OpenStates  BY <1>2, <3>2 DEF SubsOf
      <4> QED  BY <1>2, <2>1, <3>2, <4>1, RowTicket DEF CardOverNone, NothingOpen, SubsOf, ElsewhereCards
    <3> QED  BY <3>1, <3>2
  <2>5. Returns(c)'  BY <1>4, <1>5 DEF Returns, Stands, Handed, OpenStates
  <2> QED  BY <2>1, <2>3, <2>4, <2>5
<1> QED  BY <1>8, <1>9, <1>10 DEF TicketsInv

LEMMA LaidOutKeeps ==
    ASSUME TypeOK, TicketsInv, NEW t \in Tickets, LaidOutOn(t)
    PROVE  TicketsInv'
<1>1. /\ TicketsStay /\ \A s \in DOMAIN subs : subs'[s].state = subs[s].state
      /\ UNCHANGED <<card, complaints>> /\ stage[t] \notin Reworkable
  BY DEF LaidOutOn, StatesStay
<1>2. \A u \in Tickets : u # t => stage'[u] = stage[u]  BY MovedStage DEF LaidOutOn
<1>3. ASSUME NEW r \in DOMAIN subs, subs[r].state \in Handed
      PROVE  stage'[subs[r].ticket] = stage[subs[r].ticket]
  <2>1. stage[subs[r].ticket] \in Reworkable  BY <1>3 DEF TicketsInv, HandedIsReworkable
  <2> QED  BY <1>1, <1>2, <2>1, RowTicket
<1>4. HandedIsReworkable'  BY <1>1, <1>3 DEF TicketsInv, HandedIsReworkable, TicketsStay
<1>5. ComplaintsHold'  BY <1>1 DEF TicketsInv, ComplaintsHold
<1>6. OneComplaint'
  <2>1. OneComplaint  BY DEF TicketsInv
  <2>2. Len(complaints) < 2 =>
            \A s \in DOMAIN subs : subs'[s].state \in Handed => stage'[subs[s].ticket] \in Handed
    BY <1>1, <1>3, <2>1 DEF OneComplaint, TakenUp
  <2> QED  BY <1>1, <2>1, <2>2, NoneOpensOnTickets
<1> QED  BY <1>4, <1>5, <1>6 DEF TicketsInv

LEMMA InitTickets == ASSUME Init PROVE TicketsInv
<1>1. DOMAIN subs = {} /\ DOMAIN complaints = {}  BY DEF Init
<1>2. \A t \in Tickets : card[t] = NoCard  BY DEF Init
<1>3. HandedIsReworkable /\ ComplaintsHold  BY <1>1 DEF HandedIsReworkable, ComplaintsHold
<1>4. OneComplaint  BY <1>1, <1>2 DEF OneComplaint, TakenUp, CardOverNone
<1> QED  BY <1>3, <1>4 DEF TicketsInv

LEMMA TicketsKept == ASSUME TypeOK, NewestInv, TicketsInv, [Next]_vars PROVE TicketsInv'
<1>1. TicketStep  BY StepOnTicket DEF TicketsInv
<1>2. CASE Quiet  BY <1>2, QuietKeeps
<1>3. ASSUME NEW s \in DOMAIN subs, DecidedOn(s) \/ ReadyOn(s)  PROVE TicketsInv'
  BY <1>3, DecidedKeeps, ReadyKeeps DEF NewestInv
<1>4. ASSUME NEW t \in Tickets, NewOn(t) \/ EditedOn(t) \/ ComplainedOn(t) \/ AnsweredOn(t) \/ LaidOutOn(t)
      PROVE  TicketsInv'
  BY <1>4, NewKeeps, EditedKeeps, ComplainedKeeps, AnsweredKeeps, LaidOutKeeps DEF NewestInv
<1>5. ASSUME NEW c \in DOMAIN complaints, ReturnedBy(c)  PROVE TicketsInv'
  BY <1>5, ReturnedKeeps
<1> QED  BY <1>1, <1>2, <1>3, <1>4, <1>5 DEF TicketStep

\* The invariant the theorems below rest on.
THEOREM TicketsAgree == Spec => []TicketsInv
<1>1. TypeOK /\ NewestInv /\ TicketsInv /\ [Next]_vars => TicketsInv'  BY TicketsKept
<1> QED  BY <1>1, InitTickets, TypeCorrect, NewestIsOpen, PTL DEF Spec

\* A hand-over waiting to be decided is one its ticket waits on: nothing leaves a
\* row behind that the reviewer, the tick and your word all turn away from.
THEOREM NoneIsLeftWaiting == Spec => []TakenUp
<1>1. TicketsInv => TakenUp  BY DEF TicketsInv, OneComplaint, TakenUp
<1> QED  BY <1>1, TicketsAgree, PTL

\* What a step does to a delivered plan.
DeliveredHolds ==
    delivered' => IF delivered
                  THEN \A t \in Tickets : stage[t] = "approved" => stage'[t] = "approved" \/ edits' # edits
                  ELSE Through(stage')

LEMMA DeliveredMoves ==
    ASSUME TypeOK, NEW t \in Tickets, NEW to, MovesTo(t, to)
    PROVE  DeliveredHolds
<1>1. /\ \A u \in Tickets : stage'[u] = IF u = t THEN to ELSE stage[u]
      /\ to \notin Gone \/ to = stage[t]
      /\ delivered' => StillDelivered(t, to) \/ MayDeliver(stage')
  BY MovedStage DEF MovesTo
<1>2. MayDeliver(stage') => Through(stage')  BY DEF MayDeliver, Through
<1>3. ASSUME delivered', delivered, NEW u \in Tickets, stage[u] = "approved"  PROVE stage'[u] = "approved"
  <2>1. CASE u # t  BY <1>1, <1>3, <2>1
  <2>2. CASE u = t
    <3>1. to \notin Gone  BY <1>1, <1>3, <2>2 DEF Gone
    <3>2. CASE StillDelivered(t, to)
      <4>1. to \in {"approved", "dropped"}  BY <1>3, <2>2, <3>2 DEF StillDelivered
      <4> QED  BY <1>1, <2>2, <3>1, <4>1 DEF Gone
    <3>3. CASE MayDeliver(stage')
      <4>1. stage'[t] = to  BY <1>1
      <4> QED  BY <2>2, <3>1, <3>3, <4>1 DEF MayDeliver
    <3> QED  BY <1>1, <1>3, <3>2, <3>3
  <2> QED  BY <2>1, <2>2
<1>4. ~delivered => ~StillDelivered(t, to)  BY DEF StillDelivered
<1> QED  BY <1>1, <1>2, <1>3, <1>4 DEF DeliveredHolds

LEMMA DeliveredStep ==
    ASSUME TypeOK, TicketsInv, [Next]_vars
    PROVE  DeliveredHolds
<1>1. TicketStep  BY StepOnTicket DEF TicketsInv
<1>2. CASE UNCHANGED <<stage, delivered>>  BY <1>2 DEF DeliveredHolds
<1>3. ASSUME NEW s \in DOMAIN subs, DecidedOn(s) \/ ReadyOn(s)  PROVE DeliveredHolds
  <2>1. \E to : MovesTo(subs[s].ticket, to)  BY <1>3 DEF DecidedOn, ReadyOn
  <2> QED  BY <2>1, DeliveredMoves, RowTicket
<1>4. ASSUME NEW t \in Tickets, NewOn(t) \/ AnsweredOn(t)  PROVE DeliveredHolds
  <2>1. UNCHANGED <<stage, delivered>> \/ \E to : MovesTo(t, to)  BY <1>4 DEF NewOn, AnsweredOn
  <2> QED  BY <1>2, <2>1, DeliveredMoves
<1>5. ASSUME NEW t \in Tickets, EditedOn(t)  PROVE DeliveredHolds
  <2>1. edits \in Nat /\ edits' = edits + 1 /\ delivered' = delivered
    BY <1>5, SubmissionsAssumption DEF EditedOn, TypeOK
  <2> QED  BY <2>1 DEF DeliveredHolds
<1>6. ASSUME NEW t \in Tickets, ComplainedOn(t)  PROVE DeliveredHolds
  BY <1>6 DEF ComplainedOn, DeliveredHolds
<1>7. ASSUME NEW t \in Tickets, LaidOutOn(t)  PROVE DeliveredHolds
  <2>1. stage[t] # "approved" /\ delivered' = delivered  BY <1>7 DEF LaidOutOn, Reworkable
  <2>2. \A u \in Tickets : u # t => stage'[u] = stage[u]  BY <1>7, MovedStage DEF LaidOutOn
  <2> QED  BY <2>1, <2>2 DEF DeliveredHolds
<1>8. ASSUME NEW c \in DOMAIN complaints, ReturnedBy(c)  PROVE DeliveredHolds
  <2>1. complaints[c].ticket \in Tickets  BY ComplaintRows DEF Complaint
  <2>2. \E to : MovesTo(complaints[c].ticket, to)  BY <1>8 DEF ReturnedBy
  <2> QED  BY <2>1, <2>2, DeliveredMoves
<1> QED  BY <1>1, <1>2, <1>3, <1>4, <1>5, <1>6, <1>7, <1>8 DEF TicketStep, Quiet

\* A plan is delivered only with every ticket approved, and while it stays so none
\* leaves approved but by your edit, whatever tickets are made or dropped meanwhile.
THEOREM DeliveredPlanIsKept == Spec => DeliveredIsKept
<1>1. TypeOK /\ TicketsInv /\ [Next]_vars => DeliveredHolds  BY DeliveredStep
<1> QED  BY <1>1, TypeCorrect, TicketsAgree, PTL DEF Spec, DeliveredIsKept, DeliveredHolds

-----------------------------------------------------------------------------
(* What the lead dropped. *)

\* Nothing is open on a ticket its lead dropped.
VoidedIsQuiet == \A t \in Tickets : stage[t] = "voided" => NothingOpen(t)

DroppedHolds ==
    \A t \in Tickets :
          stage[t] = "voided" => \/ stage'[t] = "voided" /\ SubsOf(t)' = SubsOf(t)
                                 \/ edits' # edits
                                 \/ card[t] # NoCard /\ card'[t] = NoCard

\* A ticket nothing is open on that a step leaves with what it had.
LEMMA StaysQuiet ==
    ASSUME NEW t \in Tickets, NothingOpen(t), TicketsStay,
           \A r \in DOMAIN subs : subs[r].ticket = t /\ subs'[r].state \in OpenStates
                                  => subs[r].state \in OpenStates
    PROVE  NothingOpen(t)'
BY DEF NothingOpen, SubsOf, TicketsStay

LEMMA DroppedStep ==
    ASSUME TypeOK, NewestInv, TicketsInv, VoidedIsQuiet, [Next]_vars
    PROVE  VoidedIsQuiet' /\ DroppedHolds
<1>1. TicketStep  BY StepOnTicket DEF TicketsInv
<1>2. CASE Quiet
  <2>1. TicketsStay /\ stage' = stage /\ \A r \in DOMAIN subs : subs'[r].state = subs[r].state
    BY <1>2 DEF Quiet, StatesStay
  <2>2. VoidedIsQuiet'  BY <2>1, StaysQuiet DEF VoidedIsQuiet
  <2> QED  BY <2>1, <2>2, SameTickets DEF DroppedHolds
<1>3. ASSUME NEW s \in DOMAIN subs, DecidedOn(s) \/ ReadyOn(s)  PROVE VoidedIsQuiet' /\ DroppedHolds
  <2> DEFINE t == subs[s].ticket
  <2>1. /\ subs[s].state \in OpenStates /\ TicketsStay /\ t \in Tickets
        /\ \A r \in DOMAIN subs : r # s => subs'[r].state = subs[r].state
        /\ \E to : MovesTo(t, to)
    BY <1>3, RowTicket DEF DecidedOn, ReadyOn, Becomes
  <2>2. stage[t] # "voided" /\ s \in SubsOf(t)  BY <2>1 DEF VoidedIsQuiet, NothingOpen, SubsOf
  <2>3. \A u \in Tickets : stage'[u] = "voided" => u # t /\ stage[u] = "voided"
    BY <2>1, <2>2, MovedStage DEF MovesTo, Gone
  <2>4. \A u \in Tickets : stage[u] = "voided" => stage'[u] = "voided"
    BY <2>1, <2>2, MovedStage DEF MovesTo
  <2>5. ASSUME NEW u \in Tickets, stage'[u] = "voided"  PROVE NothingOpen(u)'
    <3>1. NothingOpen(u) /\ u # t  BY <2>3, <2>5 DEF VoidedIsQuiet
    <3>2. \A r \in DOMAIN subs : subs[r].ticket = u /\ subs'[r].state \in OpenStates
                                  => subs[r].state \in OpenStates
      BY <2>1, <3>1
    <3> QED  BY <2>1, <3>1, <3>2, StaysQuiet
  <2>6. VoidedIsQuiet'  BY <2>5 DEF VoidedIsQuiet
  <2>7. DroppedHolds  BY <2>1, <2>4, SameTickets DEF DroppedHolds
  <2> QED  BY <2>6, <2>7
<1>4. ASSUME NEW t \in Tickets, NewOn(t)  PROVE VoidedIsQuiet' /\ DroppedHolds
  <2> DEFINE n == Len(subs) + 1
  <2>1. /\ n \notin DOMAIN subs /\ DOMAIN subs' = DOMAIN subs \cup {n} /\ subs'[n].ticket = t
        /\ \A r \in DOMAIN subs :
             /\ subs'[r].ticket = subs[r].ticket
             /\ subs'[r].state = IF subs[r].ticket = t /\ subs[r].state \in OpenStates
                                 THEN "superseded" ELSE subs[r].state
    BY <1>4, Rows DEF NewOn, HandedOver, GivenWay
  <2>2. PICK to \in {stage[t], "doing", "submitted"} : MovesTo(t, to) /\ stage[t] # "voided"
    BY <1>4 DEF NewOn
  <2>3. \A u \in Tickets : stage'[u] = IF u = t THEN to ELSE stage[u]  BY <2>2, MovedStage DEF MovesTo
  <2> HIDE DEF n
  <2>4. ASSUME NEW u \in Tickets, u # t, NothingOpen(u)  PROVE NothingOpen(u)'
    BY <2>1, <2>4 DEF NothingOpen, SubsOf
  <2>5. \A u \in Tickets : u # t => SubsOf(u)' = SubsOf(u)  BY <2>1 DEF SubsOf
  <2>6. VoidedIsQuiet'  BY <2>2, <2>3, <2>4 DEF VoidedIsQuiet
  <2>7. DroppedHolds  BY <2>2, <2>3, <2>5 DEF DroppedHolds
  <2> QED  BY <2>6, <2>7
<1>5. ASSUME NEW t \in Tickets, EditedOn(t)  PROVE VoidedIsQuiet' /\ DroppedHolds
  <2>1. /\ TicketsStay /\ edits' = edits + 1 /\ edits \in Nat
        /\ \A r \in DOMAIN subs : subs'[r].state \in OpenStates => subs[r].state \in OpenStates
    BY <1>5, SubmissionsAssumption DEF EditedOn, GivenWay, TicketsStay, OpenStates, Handed, TypeOK
  <2>2. PICK to \in Stages \ {"voided"} : stage' = Moved(t, to)  BY <1>5 DEF EditedOn
  <2>3. \A u \in Tickets : stage'[u] = "voided" => stage[u] = "voided"  BY <2>2, MovedStage
  <2>4. VoidedIsQuiet'  BY <2>1, <2>3, StaysQuiet DEF VoidedIsQuiet
  <2>5. edits' # edits  BY <2>1
  <2> QED  BY <2>4, <2>5 DEF DroppedHolds
<1>6. ASSUME NEW t \in Tickets, ComplainedOn(t)  PROVE VoidedIsQuiet' /\ DroppedHolds
  <2>1. /\ TicketsStay /\ stage[t] \in Reworkable
        /\ \A r \in DOMAIN subs : subs'[r].state \in OpenStates => subs[r].state \in OpenStates
    BY <1>6 DEF ComplainedOn, GivenWay, TicketsStay, OpenStates, Handed
  <2>2. \A u \in Tickets : stage'[u] = IF u = t THEN "rework" ELSE stage[u]
    BY <1>6, MovedStage DEF ComplainedOn
  <2>3. VoidedIsQuiet'  BY <2>1, <2>2, StaysQuiet DEF VoidedIsQuiet
  <2>4. DroppedHolds  BY <2>1, <2>2, SameTickets DEF DroppedHolds, Reworkable, Handed
  <2> QED  BY <2>3, <2>4
<1>7. ASSUME NEW t \in Tickets, AnsweredOn(t)  PROVE VoidedIsQuiet' /\ DroppedHolds
  <2>1. /\ TicketsStay /\ \A r \in DOMAIN subs : subs'[r].state = subs[r].state
        /\ card[t] # NoCard /\ card'[t] = NoCard
    BY <1>7 DEF AnsweredOn, StatesStay, CloseCard, TypeOK
  <2>2. \A u \in Tickets : stage'[u] = stage[u] \/ (u = t /\ stage'[u] = "approved")
    BY <1>7, MovedStage DEF AnsweredOn, MovesTo
  <2>3. VoidedIsQuiet'  BY <2>1, <2>2, StaysQuiet DEF VoidedIsQuiet
  <2>4. DroppedHolds  BY <2>1, <2>2, SameTickets DEF DroppedHolds
  <2> QED  BY <2>3, <2>4
<1>8. ASSUME NEW t \in Tickets, LaidOutOn(t)  PROVE VoidedIsQuiet' /\ DroppedHolds
  <2>1. /\ TicketsStay /\ \A r \in DOMAIN subs : subs'[r].state = subs[r].state
        /\ stage[t] # "voided"
    BY <1>8 DEF LaidOutOn, StatesStay
  <2>2. \A u \in Tickets : /\ u # t => stage'[u] = stage[u]
                           /\ stage'[t] = "voided" => NothingOpen(t)
    BY <1>8, MovedStage DEF LaidOutOn
  <2>3. VoidedIsQuiet'  BY <2>1, <2>2, StaysQuiet DEF VoidedIsQuiet
  <2>4. DroppedHolds  BY <2>1, <2>2, SameTickets DEF DroppedHolds
  <2> QED  BY <2>3, <2>4
<1>9. ASSUME NEW c \in DOMAIN complaints, ReturnedBy(c)  PROVE VoidedIsQuiet' /\ DroppedHolds
  <2> DEFINE t == complaints[c].ticket
             to == complaints[c].stage
  <2>1. t \in Tickets /\ to \in Reworkable /\ stage[t] = "rework" /\ MovesTo(t, to)
    <3>1. complaints[c] \in Complaint /\ ~complaints[c].undone  BY <1>9, ComplaintRows DEF ReturnedBy
    <3>2. to \in Reworkable  BY <3>1 DEF TicketsInv, ComplaintsHold
    <3> QED  BY <1>9, <3>1, <3>2 DEF ReturnedBy, Complaint
  <2>2. /\ TicketsStay
        /\ \A r \in DOMAIN subs : subs[r].ticket # t => subs'[r].state = subs[r].state
    BY <1>9 DEF ReturnedBy, PutBackBy, SubsOf
  <2>3. \A u \in Tickets : stage'[u] = IF u = t THEN to ELSE stage[u]  BY <2>1, MovedStage DEF MovesTo
  <2> HIDE DEF t, to
  <2>4. \A u \in Tickets : stage'[u] = "voided" => u # t /\ stage[u] = "voided"
    BY <2>1, <2>3 DEF Reworkable, Handed
  <2>5. VoidedIsQuiet'  BY <2>2, <2>4, StaysQuiet DEF VoidedIsQuiet
  <2>6. DroppedHolds  BY <2>1, <2>2, <2>3, SameTickets DEF DroppedHolds
  <2> QED  BY <2>5, <2>6
<1> QED  BY <1>1, <1>2, <1>3, <1>4, <1>5, <1>6, <1>7, <1>8, <1>9 DEF TicketStep

\* Nothing handed over before brings back a ticket its lead dropped, and nothing
\* more is handed over on it, until you edit it or accept what its card is about.
THEOREM DroppedIsDropped == Spec => DroppedStays
<1>1. Init => VoidedIsQuiet  BY DEF Init, VoidedIsQuiet
<1>2. TypeOK /\ NewestInv /\ TicketsInv /\ VoidedIsQuiet /\ [Next]_vars => VoidedIsQuiet' /\ DroppedHolds
  BY DroppedStep
<1> QED  BY <1>1, <1>2, TypeCorrect, NewestIsOpen, TicketsAgree, PTL
         DEF Spec, DroppedStays, DroppedHolds

-----------------------------------------------------------------------------
(* Work sent back, and words nobody made. *)

SentBackHolds ==
    \A t \in Tickets :
          stage[t] = "rework" /\ stage'[t] \in Reworkable
          => \/ \E s \in SubsOf(t) : Newest(s) /\ subs[s].state = "checking"
             \/ SubsOf(t) = {}
             \/ edits' # edits
             \/ card[t] # NoCard /\ card'[t] = NoCard
             \/ complaints' # complaints

LEMMA SentBackStep ==
    ASSUME TypeOK, NewestInv, TicketsInv, [Next]_vars
    PROVE  SentBackHolds
<1> SUFFICES ASSUME NEW u \in Tickets, stage[u] = "rework", stage'[u] \in Reworkable
             PROVE  \/ \E s \in SubsOf(u) : Newest(s) /\ subs[s].state = "checking"
                    \/ SubsOf(u) = {}
                    \/ edits' # edits
                    \/ card[u] # NoCard /\ card'[u] = NoCard
                    \/ complaints' # complaints
  BY DEF SentBackHolds
<1>1. TicketStep  BY StepOnTicket DEF TicketsInv
<1>2. stage'[u] # stage[u]  BY DEF Reworkable, Handed
<1>3. \A t \in Tickets : (\E to : MovesTo(t, to)) => u = t  BY <1>2, MovedStage DEF MovesTo
<1>4. CASE Quiet  BY <1>2, <1>4 DEF Quiet
<1>5. ASSUME NEW s \in DOMAIN subs, DecidedOn(s) \/ ReadyOn(s)
      PROVE  \E r \in SubsOf(u) : Newest(r) /\ subs[r].state = "checking"
  <2>1. subs[s].state \in OpenStates /\ \E to : MovesTo(subs[s].ticket, to)
    BY <1>5 DEF DecidedOn, ReadyOn
  <2>2. subs[s].ticket = u  BY <1>3, <2>1, RowTicket
  <2>3. subs[s].state \notin Handed  BY <2>2 DEF TicketsInv, HandedIsReworkable, Reworkable, Handed
  <2>4. Newest(s) /\ subs[s].state = "checking"  BY <2>1, <2>3 DEF NewestInv, OpenIsNewest, OpenStates
  <2> QED  BY <2>2, <2>4 DEF SubsOf
<1>6. ASSUME NEW t \in Tickets, NewOn(t)  PROVE SubsOf(u) = {}
  <2>1. CASE SubsOf(t) = {} /\ MovesTo(t, "submitted")  BY <1>3, <2>1
  <2>2. CASE \E to \in {stage[t], "doing"} : MovesTo(t, to)
    <3>1. PICK to \in {stage[t], "doing"} : MovesTo(t, to)  BY <2>2
    <3>2. u = t /\ stage'[u] = to  BY <1>3, <3>1, MovedStage DEF MovesTo
    <3> QED  BY <1>2, <3>1, <3>2 DEF Reworkable, Handed
  <2> QED  BY <1>6, <2>1, <2>2 DEF NewOn
<1>7. ASSUME NEW t \in Tickets, EditedOn(t)  PROVE edits' # edits
  <2>1. edits \in Nat  BY SubmissionsAssumption DEF TypeOK
  <2> QED  BY <1>7, <2>1 DEF EditedOn
<1>8. ASSUME NEW t \in Tickets, ComplainedOn(t)  PROVE complaints' # complaints
  <2>1. Len(complaints') = Len(complaints) + 1 /\ Len(complaints) \in Nat
    BY <1>8, Added, ComplaintRows DEF ComplainedOn, TypeOK
  <2> QED  BY <2>1
<1>9. ASSUME NEW t \in Tickets, AnsweredOn(t)  PROVE card[u] # NoCard /\ card'[u] = NoCard
  <2>1. u = t  BY <1>2, <1>3, <1>9 DEF AnsweredOn
  <2> QED  BY <1>9, <2>1 DEF AnsweredOn, CloseCard, TypeOK
<1>10. ASSUME NEW c \in DOMAIN complaints, ReturnedBy(c)  PROVE complaints' # complaints
  <2>1. ~complaints[c].undone /\ complaints' = [complaints EXCEPT ![c] = Undone(complaints[c])]
    BY <1>10 DEF ReturnedBy, PutBackBy
  <2>2. complaints'[c] = Undone(complaints[c]) /\ complaints[c] \in Complaint  BY <2>1, ComplaintRows
  <2>3. Undone(complaints[c]).undone  BY <2>2 DEF Undone, Complaint
  <2> QED  BY <2>1, <2>2, <2>3
<1>11. ASSUME NEW t \in Tickets, LaidOutOn(t)  PROVE FALSE
  <2>1. PICK to \in {"todo", "doing", "voided"} : stage' = Moved(t, to)  BY <1>11 DEF LaidOutOn
  <2> QED  BY <1>2, <2>1, MovedStage DEF Reworkable, Handed
<1> QED  BY <1>1, <1>4, <1>5, <1>6, <1>7, <1>8, <1>9, <1>10, <1>11 DEF TicketStep

\* No review, tick, late settling or word brings work sent back to where it can
\* be decided: only a hand-over made since, you, or a card you answered.
THEOREM SentBackIsKept == Spec => StaysSentBack
<1>1. TypeOK /\ NewestInv /\ TicketsInv /\ [Next]_vars => SentBackHolds  BY SentBackStep
<1> QED  BY <1>1, TypeCorrect, NewestIsOpen, TicketsAgree, PTL DEF Spec, StaysSentBack, SentBackHolds

\* Nothing of what words and an organizer's reading claim waits for required items.
ItemsFile == \A s \in DOMAIN subs : subs[s].awaiting = "items" => subs[s].origin \notin NeedsUser

MayApprove(s) ==
    subs[s].origin \in NeedsUser
    => unattended \/ subs[s].awaiting = "pending" \/ (line # NoLine /\ line' = NoLine)
WordsHold ==
    \A s \in DOMAIN subs :
          subs[s].origin \in NeedsUser /\ subs[s].state # "approved" /\ subs'[s].state = "approved"
          => unattended \/ subs[s].awaiting = "pending" \/ (line # NoLine /\ line' = NoLine)
WordStep == WordsHold /\ ItemsFile'

\* Every row is written anew, none of them approved by it and none left waiting for more.
LEMMA MapWords ==
    ASSUME ItemsFile, DOMAIN subs' = DOMAIN subs,
           \A r \in DOMAIN subs :
               /\ subs'[r].origin = subs[r].origin /\ subs'[r].awaiting \in {subs[r].awaiting, "no"}
               /\ subs'[r].state = "approved" => subs[r].state = "approved"
    PROVE  WordStep
BY DEF WordStep, WordsHold, ItemsFile

LEMMA OneRowWords ==
    ASSUME TypeOK, ItemsFile, NEW s \in DOMAIN subs, NEW row \in Submission,
           row.ticket = subs[s].ticket, row.origin = subs[s].origin, subs' = [subs EXCEPT ![s] = row],
           row.awaiting = "items" => subs[s].awaiting = "items" \/ subs[s].origin \notin NeedsUser,
           row.state = "approved" => subs[s].state = "approved" \/ MayApprove(s)
    PROVE  WordStep
<1>1. DOMAIN subs' = DOMAIN subs /\ subs'[s] = row /\ \A r \in DOMAIN subs : r # s => subs'[r] = subs[r]
  BY OneRow
<1>2. WordsHold  BY <1>1 DEF WordsHold, MayApprove
<1>3. ItemsFile'  BY <1>1 DEF ItemsFile
<1> QED  BY <1>2, <1>3 DEF WordStep

LEMMA DecideWords ==
    ASSUME TypeOK, ItemsFile, NEW s \in DOMAIN subs, NEW state \in SubStates, subs' = Decide(s, state),
           state = "approved" => MayApprove(s)
    PROVE  WordStep
<1> DEFINE row == [subs[s] EXCEPT !.state = state, !.awaiting = "no", !.rev = "off"]
<1>1. subs[s] \in Submission  BY Rows
<1>2. /\ row \in Submission /\ row.ticket = subs[s].ticket /\ row.origin = subs[s].origin
      /\ row.state = state /\ row.awaiting = "no"
  BY <1>1 DEF Submission, Awaitings
<1>3. subs' = [subs EXCEPT ![s] = row]  BY DEF Decide
<1> HIDE DEF row
<1> QED  BY <1>2, <1>3, OneRowWords

LEMMA FailWords ==
    ASSUME TypeOK, ItemsFile, NEW s \in DOMAIN subs, FailOnGates(s)
    PROVE  WordStep
<1>1. subs' = Decide(s, "checks_failed") /\ "checks_failed" \in SubStates  BY DEF FailOnGates, SubStates
<1> QED  BY <1>1, DecideWords

LEMMA ApproveWords ==
    ASSUME TypeOK, ItemsFile, NEW s \in DOMAIN subs, Approve(s), MayApprove(s)
    PROVE  WordStep
<1>1. subs' = Decide(s, "approved") /\ "approved" \in SubStates  BY DEF Approve, SubStates
<1> QED  BY <1>1, DecideWords

LEMMA ResolveWords ==
    ASSUME TypeOK, ItemsFile, NEW s \in DOMAIN subs, ResolveApproval(s), MayApprove(s)
    PROVE  WordStep
BY FailWords, ApproveWords DEF ResolveApproval

\* A row waits for something else, or its review does.
LEMMA AwaitWords ==
    ASSUME TypeOK, ItemsFile, NEW s \in DOMAIN subs,
           \/ \E rev \in {"off", "waiting", "ran"} : subs' = [subs EXCEPT ![s].rev = rev]
           \/ \E kind \in IF subs[s].origin \in NeedsUser THEN {"word", "pending"} ELSE Awaitings :
                 AwaitYourWord(s, kind) \/ subs' = [[subs EXCEPT ![s].rev = "off"] EXCEPT ![s].awaiting = kind]
    PROVE  WordStep
<1>1. subs[s] \in Submission /\ subs \in Seq(Submission)  BY Rows DEF TypeOK
<1>2. ASSUME NEW rev \in {"off", "waiting", "ran"}, NEW kind \in Awaitings,
             kind = "items" => subs[s].awaiting = "items" \/ subs[s].origin \notin NeedsUser,
             subs' = [subs EXCEPT ![s] = [subs[s] EXCEPT !.rev = rev, !.awaiting = kind]]
      PROVE  WordStep
  <2> DEFINE row == [subs[s] EXCEPT !.rev = rev, !.awaiting = kind]
  <2>1. /\ row \in Submission /\ row.ticket = subs[s].ticket /\ row.origin = subs[s].origin
        /\ row.awaiting = kind /\ row.state = subs[s].state
    BY <1>1 DEF Submission
  <2>2. subs' = [subs EXCEPT ![s] = row]  BY <1>2
  <2> HIDE DEF row
  <2>3. row.awaiting = "items" => subs[s].awaiting = "items" \/ subs[s].origin \notin NeedsUser  BY <1>2, <2>1
  <2>4. row.state = "approved" => subs[s].state = "approved" \/ MayApprove(s)  BY <2>1
  <2> QED  BY <2>1, <2>2, <2>3, <2>4, OneRowWords
<1>3. ASSUME NEW rev \in {"off", "waiting", "ran"}, subs' = [subs EXCEPT ![s].rev = rev]  PROVE WordStep
  <2>1. [subs[s] EXCEPT !.rev = rev] = [subs[s] EXCEPT !.rev = rev, !.awaiting = subs[s].awaiting]
    BY <1>1 DEF Submission
  <2>2. subs' = [subs EXCEPT ![s] = [subs[s] EXCEPT !.rev = rev, !.awaiting = subs[s].awaiting]]
    BY <1>3, <2>1
  <2>3. subs[s].awaiting \in Awaitings  BY <1>1 DEF Submission
  <2> QED  BY <1>2, <2>2, <2>3
<1>4. ASSUME NEW kind \in IF subs[s].origin \in NeedsUser THEN {"word", "pending"} ELSE Awaitings,
             AwaitYourWord(s, kind) \/ subs' = [[subs EXCEPT ![s].rev = "off"] EXCEPT ![s].awaiting = kind]
      PROVE  WordStep
  <2>1. kind \in Awaitings /\ (kind = "items" => subs[s].origin \notin NeedsUser)  BY DEF Awaitings
  <2>2. CASE AwaitYourWord(s, kind)
    <3>1. [subs[s] EXCEPT !.awaiting = kind] = [subs[s] EXCEPT !.rev = subs[s].rev, !.awaiting = kind]
      BY <1>1 DEF Submission
    <3>2. subs' = [subs EXCEPT ![s] = [subs[s] EXCEPT !.rev = subs[s].rev, !.awaiting = kind]]
      BY <2>2, <3>1 DEF AwaitYourWord
    <3>3. subs[s].rev \in {"off", "waiting", "ran"}  BY <1>1 DEF Submission
    <3> QED  BY <1>2, <2>1, <3>2, <3>3
  <2>3. CASE subs' = [[subs EXCEPT ![s].rev = "off"] EXCEPT ![s].awaiting = kind]
    <3>1. subs' = [subs EXCEPT ![s] = [subs[s] EXCEPT !.rev = "off", !.awaiting = kind]]
      BY <1>1, <2>3
    <3> QED  BY <1>2, <2>1, <3>1
  <2> QED  BY <1>4, <2>2, <2>3
<1> QED  BY <1>3, <1>4

LEMMA SupWords ==
    ASSUME TypeOK, ItemsFile, NEW t, subs' = Sup(subs, t)
    PROVE  WordStep
<1>1. DOMAIN subs' = DOMAIN subs  BY SupRows
<1>2. ASSUME NEW r \in DOMAIN subs
      PROVE  /\ subs'[r].origin = subs[r].origin /\ subs'[r].awaiting \in {subs[r].awaiting, "no"}
             /\ subs'[r].state = "approved" => subs[r].state = "approved"
  <2>1. subs[r] \in Submission  BY Rows
  <2>2. subs'[r] = IF subs[r].ticket = t /\ subs[r].state \in OpenStates
                   THEN [subs[r] EXCEPT !.state = "superseded", !.awaiting = "no"] ELSE subs[r]
    BY DEF Sup
  <2> QED  BY <2>1, <2>2 DEF Submission
<1> QED  BY <1>1, <1>2, MapWords

\* A new row waits on nothing.
LEMMA NewWords ==
    ASSUME TypeOK, ItemsFile, NEW f \in Seq(Submission), DOMAIN f = DOMAIN subs, Len(f) = Len(subs),
           \A r \in DOMAIN subs :
               /\ f[r].origin = subs[r].origin /\ f[r].awaiting \in {subs[r].awaiting, "no"}
               /\ f[r].state = "approved" => subs[r].state = "approved",
           NEW row \in Submission, row.awaiting = "no", subs' = Append(f, row)
    PROVE  WordStep
<1>1. /\ DOMAIN subs' = DOMAIN subs \cup {Len(subs) + 1} /\ subs'[Len(subs) + 1].awaiting = "no"
      /\ \A r \in DOMAIN subs : subs'[r] = f[r]
  BY Added
<1>2. WordsHold  BY <1>1 DEF WordsHold
<1>3. ItemsFile'  BY <1>1 DEF ItemsFile
<1> QED  BY <1>2, <1>3 DEF WordStep

LEMMA HandOverWords ==
    ASSUME TypeOK, ItemsFile, NEW t \in Tickets,
           (\E origin \in {"file"} \cup NeedsUser : NewSubmission(t, origin)) \/ OrganizerSaysDone(t)
    PROVE  WordStep
<1>1. ASSUME NEW origin \in {"file"} \cup NeedsUser, NewSubmission(t, origin)  PROVE WordStep
  <2> DEFINE row == [ticket |-> t, state |-> "checking", origin |-> origin, awaiting |-> "no", rev |-> "off"]
             f == Sup(subs, t)
  <2>1. row \in Submission /\ row.awaiting = "no"
    BY DEF Submission, SubStates, OpenStates, Awaitings
  <2>2. subs' = Append(f, row)  BY <1>1 DEF NewSubmission
  <2>3. f \in Seq(Submission) /\ DOMAIN f = DOMAIN subs /\ Len(f) = Len(subs)  BY SupRows
  <2>4. \A r \in DOMAIN subs :
          /\ f[r].origin = subs[r].origin /\ f[r].awaiting \in {subs[r].awaiting, "no"}
          /\ f[r].state = "approved" => subs[r].state = "approved"
    <3> TAKE r \in DOMAIN subs
    <3>1. subs[r] \in Submission  BY Rows
    <3> QED  BY <3>1 DEF Sup, Submission
  <2> HIDE DEF row, f
  <2> QED  BY <2>1, <2>2, <2>3, <2>4, NewWords
<1>2. CASE OrganizerSaysDone(t)
  <2> DEFINE row == [ticket |-> t, state |-> "submitted", origin |-> "organizer", awaiting |-> "no", rev |-> "off"]
  <2>1. row \in Submission /\ row.awaiting = "no"
    BY DEF Submission, SubStates, OpenStates, Awaitings, Handed, NeedsUser
  <2>2. subs' = Append(subs, row) /\ subs \in Seq(Submission)  BY <1>2 DEF OrganizerSaysDone, TypeOK
  <2> HIDE DEF row
  <2> QED  BY <2>1, <2>2, NewWords
<1> QED  BY <1>1, <1>2

LEMMA SettleWords ==
    ASSUME TypeOK, ItemsFile, NEW s \in DOMAIN subs, Settle(s)
    PROVE  WordStep
<1>1. CASE subs' = subs  BY <1>1, MapWords
<1>2. CASE FailOnGates(s)  BY <1>2, FailWords
<1>3. ASSUME NEW to \in Handed, subs' = [subs EXCEPT ![s].state = to]  PROVE WordStep
  <2> DEFINE row == [subs[s] EXCEPT !.state = to]
  <2>1. subs[s] \in Submission  BY Rows
  <2>2. /\ row \in Submission /\ row.ticket = subs[s].ticket /\ row.origin = subs[s].origin
        /\ row.awaiting = subs[s].awaiting /\ row.state # "approved"
    BY <2>1 DEF Submission, SubStates, OpenStates, Handed
  <2>3. subs' = [subs EXCEPT ![s] = row]  BY <1>3
  <2> HIDE DEF row
  <2> QED  BY <2>2, <2>3, OneRowWords
<1> QED  BY <1>1, <1>2, <1>3 DEF Settle

LEMMA ReviewWords ==
    ASSUME TypeOK, ItemsFile, NEW s \in DOMAIN subs, BeginReview(s) \/ ReviewApprove(s) \/ ReviewReject(s)
    PROVE  WordStep
<1>1. CASE BeginReview(s)  BY <1>1, AwaitWords DEF BeginReview
<1>2. CASE ReviewReject(s)
  <2>1. subs' = Decide(s, "rejected") /\ "rejected" \in SubStates  BY <1>2 DEF ReviewReject, SubStates
  <2> QED  BY <2>1, DecideWords
<1>3. CASE ReviewApprove(s)
  <2>1. CASE subs' = [subs EXCEPT ![s].rev = "off"]  BY <2>1, AwaitWords
  <2>2. CASE \E kind \in IF subs[s].origin \in NeedsUser THEN {"word"} ELSE {"word", "items"} :
                subs' = [[subs EXCEPT ![s].rev = "off"] EXCEPT ![s].awaiting = kind]
    <3>1. \E kind \in IF subs[s].origin \in NeedsUser THEN {"word", "pending"} ELSE Awaitings :
             subs' = [[subs EXCEPT ![s].rev = "off"] EXCEPT ![s].awaiting = kind]
      BY <2>2 DEF Awaitings
    <3> QED  BY <3>1, AwaitWords
  <2>3. CASE (unattended \/ subs[s].origin \notin NeedsUser) /\ Approve(s)  BY <2>3, ApproveWords DEF MayApprove
  <2> QED  BY <1>3, <2>1, <2>2, <2>3 DEF ReviewApprove
<1> QED  BY <1>1, <1>2, <1>3

LEMMA TickWords ==
    ASSUME TypeOK, ItemsFile, NEW s \in DOMAIN subs, Tick(s)
    PROVE  WordStep
<1>1. CASE subs' = [subs EXCEPT ![s].state = "in_review"]
  <2> DEFINE row == [subs[s] EXCEPT !.state = "in_review"]
  <2>1. subs[s] \in Submission  BY Rows
  <2>2. /\ row \in Submission /\ row.ticket = subs[s].ticket /\ row.origin = subs[s].origin
        /\ row.awaiting = subs[s].awaiting /\ row.state # "approved"
    BY <2>1 DEF Submission, SubStates, OpenStates, Handed
  <2>3. subs' = [subs EXCEPT ![s] = row]  BY <1>1
  <2> HIDE DEF row
  <2> QED  BY <2>2, <2>3, OneRowWords
<1>2. CASE TakeUpAwaiting(s)
  <2>1. CASE FailOnGates(s)  BY <2>1, FailWords
  <2>2. CASE subs[s].awaiting = "pending" /\ ResolveApproval(s)  BY <2>2, ResolveWords DEF MayApprove
  <2>3. CASE InOneGo(s) /\ Approve(s)  BY <2>3, ApproveWords DEF MayApprove, InOneGo, NeedsUser
  <2>4. CASE subs[s].awaiting = "items" /\ Approve(s)  BY <2>4, ApproveWords DEF MayApprove, ItemsFile
  <2>5. CASE \E kind \in IF subs[s].origin \in NeedsUser THEN {"word"} ELSE {"word", "items"} :
                AwaitYourWord(s, kind)
    <3>1. \E kind \in IF subs[s].origin \in NeedsUser THEN {"word", "pending"} ELSE Awaitings :
             AwaitYourWord(s, kind)
      BY <2>5 DEF Awaitings
    <3> QED  BY <3>1, AwaitWords
  <2>6. CASE unattended /\ Approve(s)  BY <2>6, ApproveWords DEF MayApprove
  <2> QED  BY <1>2, <2>1, <2>2, <2>3, <2>4, <2>5, <2>6 DEF TakeUpAwaiting
<1> QED  BY <1>1, <1>2 DEF Tick

LEMMA YourWords ==
    ASSUME TypeOK, ItemsFile, NEW s \in DOMAIN subs, PassByYourWord(s) \/ TakeUpPendingApproval(s)
    PROVE  WordStep
<1>1. CASE AwaitYourWord(s, "pending")
  <2>1. "pending" \in IF subs[s].origin \in NeedsUser THEN {"word", "pending"} ELSE Awaitings  BY DEF Awaitings
  <2> QED  BY <1>1, <2>1, AwaitWords
<1>2. CASE ResolveApproval(s)
  <2>1. MayApprove(s)  BY DEF MayApprove, PassByYourWord, TakeUpPendingApproval
  <2> QED  BY <1>2, <2>1, ResolveWords
<1> QED  BY <1>1, <1>2 DEF PassByYourWord, TakeUpPendingApproval

LEMMA SideWords ==
    ASSUME TypeOK, ItemsFile,
           \/ Say \/ ReadNothing \/ Crash \/ SwitchWaitWord \/ \E now \in BOOLEAN : PassBy(now)
           \/ \E t \in Tickets : \/ NoteComplaint(t) \/ AnswerCeilingCard(t) \/ AddGate(t)
                                 \/ NewTicket(t) \/ Drop(t)
                                 \/ \E o \in {"pass", "fail"} : RunGate(t, o)
                                 \/ \E to \in {"todo", "doing", "submitted", "approved", "dropped"} : BoardEdit(t, to)
    PROVE  WordStep
<1>1. CASE subs' = subs  BY <1>1, MapWords
<1>2. ASSUME NEW t \in Tickets, subs' = Sup(subs, t)  PROVE WordStep  BY <1>2, SupWords
<1>3. CASE Crash
  <2>1. subs' = [s \in DOMAIN subs |-> [subs[s] EXCEPT !.rev = "off"]]  BY <1>3 DEF Crash
  <2>2. \A r \in DOMAIN subs :
          /\ subs'[r].origin = subs[r].origin /\ subs'[r].awaiting \in {subs[r].awaiting, "no"}
          /\ subs'[r].state = "approved" => subs[r].state = "approved"
    <3> TAKE r \in DOMAIN subs
    <3>1. subs[r] \in Submission  BY Rows
    <3> QED  BY <2>1, <3>1 DEF Submission
  <2>3. DOMAIN subs' = DOMAIN subs  BY <2>1
  <2> QED  BY <2>2, <2>3, MapWords
<1>4. ASSUME NEW t \in Tickets, NEW o \in {"pass", "fail"}, RunGate(t, o)  PROVE WordStep
  <2>1. subs' = [s \in DOMAIN subs |-> IF subs[s].ticket = t /\ subs[s].rev # "off"
                                      THEN [subs[s] EXCEPT !.rev = "ran"] ELSE subs[s]]
    BY <1>4 DEF RunGate
  <2>2. \A r \in DOMAIN subs :
          /\ subs'[r].origin = subs[r].origin /\ subs'[r].awaiting \in {subs[r].awaiting, "no"}
          /\ subs'[r].state = "approved" => subs[r].state = "approved"
    <3> TAKE r \in DOMAIN subs
    <3>1. subs[r] \in Submission  BY Rows
    <3> QED  BY <2>1, <3>1 DEF Submission
  <2>3. DOMAIN subs' = DOMAIN subs  BY <2>1
  <2> QED  BY <2>2, <2>3, MapWords
<1> QED
  BY <1>1, <1>2, <1>3, <1>4
  DEF Say, ReadNothing, SwitchWaitWord, PassBy, NoteComplaint, AnswerCeilingCard, AddGate, NewTicket, Drop, BoardEdit

LEMMA UndoWords ==
    ASSUME TypeOK, ItemsFile, NEW c \in DOMAIN complaints, UndoRework(c)
    PROVE  WordStep
<1> DEFINE was == complaints[c].was
<1>1. PICK open \in SUBSET {s \in DOMAIN subs : was[s] \in OpenStates} :
         subs' = [s \in DOMAIN subs |-> IF s \in open THEN [subs[s] EXCEPT !.state = was[s]] ELSE subs[s]]
  <2> DEFINE open == {s \in {s \in SubsOf(complaints[c].ticket) : was[s] \in OpenStates} : subs[s].state = "superseded"}
  <2>1. open \in SUBSET {s \in DOMAIN subs : was[s] \in OpenStates}  BY DEF SubsOf
  <2>2. subs' = [s \in DOMAIN subs |-> IF s \in open THEN [subs[s] EXCEPT !.state = was[s]] ELSE subs[s]]
    BY DEF UndoRework
  <2> QED  BY <2>1, <2>2
<1>2. \A r \in DOMAIN subs :
        /\ subs'[r].origin = subs[r].origin /\ subs'[r].awaiting \in {subs[r].awaiting, "no"}
        /\ subs'[r].state = "approved" => subs[r].state = "approved"
  <2> TAKE r \in DOMAIN subs
  <2>1. subs[r] \in Submission  BY Rows
  <2> QED  BY <1>1, <2>1 DEF Submission, OpenStates, Handed
<1>3. DOMAIN subs' = DOMAIN subs  BY <1>1
<1> QED  BY <1>2, <1>3, MapWords

LEMMA StepWords == ASSUME TypeOK, ItemsFile, [Next]_vars PROVE WordStep
<1>1. CASE UNCHANGED vars  BY <1>1, MapWords DEF vars
<1>2. ASSUME NEW t \in Tickets, Submit(t) \/ Answer(t) \/ OrganizerSaysDone(t)  PROVE WordStep
  BY <1>2, HandOverWords DEF Submit, Answer, NeedsUser
<1>3. ASSUME NEW s \in DOMAIN subs,
             \/ Settle(s) \/ BeginReview(s) \/ ReviewApprove(s) \/ ReviewReject(s)
             \/ Tick(s) \/ PassByYourWord(s) \/ TakeUpPendingApproval(s)
      PROVE  WordStep
  BY <1>3, SettleWords, ReviewWords, TickWords, YourWords
<1>4. ASSUME NEW c \in DOMAIN complaints, UndoRework(c)  PROVE WordStep  BY <1>4, UndoWords
<1> QED  BY <1>1, <1>2, <1>3, <1>4, SideWords DEF Next

LEMMA InitItems == ASSUME Init PROVE ItemsFile
BY DEF Init, ItemsFile

\* Words, and an organizer's reading, that nobody made are approved only by a word
\* of yours, whatever review, tick or clean gate comes first, unless the plan is
\* unattended when it comes.
THEOREM WordsAreYours == Spec => WordsWaitOnYou
<1>1. TypeOK /\ ItemsFile /\ [Next]_vars => ItemsFile' /\ WordsHold  BY StepWords DEF WordStep
<1>2. Init => ItemsFile  BY InitItems
<1> QED  BY <1>1, <1>2, TypeCorrect, PTL DEF Spec, WordsWaitOnYou, WordsHold
=============================================================================
