-------------------------- MODULE Delegations_proofs --------------------------
(* Requests between Bots settle in one go, for every set of work items, and any  *)
(* number of requests, stops, lines and Bots archived: type correctness, that a  *)
(* request, its wait and its asker's work agree, and that one answer is sent.    *)
EXTENDS Delegations, SequenceTheorems, TLAPS

-----------------------------------------------------------------------------
(* Rows. *)

LEMMA SeqOfRows ==
    ASSUME NEW S, NEW n \in Nat, NEW g \in [1..n -> S]
    PROVE  g \in Seq(S) /\ Len(g) = n /\ DOMAIN g = 1..n
<1>1. g \in Seq(S)  BY SeqDef
<1>2. Len(g) \in Nat /\ DOMAIN g = 1..Len(g)  BY <1>1, LenProperties
<1>3. 1..Len(g) = 1..n  BY <1>2
<1>4. Len(g) = n  BY <1>2, <1>3
<1> QED  BY <1>1, <1>4

LEMMA Rows ==
    ASSUME TypeOK
    PROVE  /\ Len(asks) \in Nat /\ DOMAIN asks = 1..Len(asks) /\ Len(asks) <= MaxAsks /\ MaxAsks \in Nat
           /\ \A k \in DOMAIN asks : asks[k] \in Ask
BY LenProperties, ElementOfSeq, DelegationsAssumption DEF TypeOK

\* Rewriting every row keeps the table.
LEMMA Rewritten ==
    ASSUME TypeOK, NEW g, g = [k \in DOMAIN asks |-> g[k]], \A k \in DOMAIN asks : g[k] \in Ask
    PROVE  g \in Seq(Ask) /\ Len(g) = Len(asks) /\ DOMAIN g = DOMAIN asks
<1>1. Len(asks) \in Nat /\ DOMAIN asks = 1..Len(asks)  BY Rows
<1>2. g \in [1..Len(asks) -> Ask]  BY <1>1
<1> QED  BY <1>1, <1>2, SeqOfRows

-----------------------------------------------------------------------------
(* What a step does to the requests. *)

\* Of one row: those of ks are settled, of the others mail is read at most; the
\* items of C are closed.
AskStep(k, ks, C) ==
    /\ asks'[k].from = asks[k].from /\ asks'[k].to = asks[k].to
    /\ "from" \in asks'[k].gone <=> "from" \in asks[k].gone \/ asks[k].from \in C
    /\ k \in ks =>
          /\ asks'[k].status # "open" /\ asks'[k].result = "queued"
          /\ asks'[k].request # "queued" /\ asks'[k].row \in {"none", "void"}
    /\ k \notin ks =>
          /\ asks'[k].status = asks[k].status /\ asks'[k].row = asks[k].row
          /\ asks'[k].result # asks[k].result => asks[k].result = "queued" /\ asks'[k].result = "read"
          /\ asks'[k].request # asks[k].request => asks[k].request = "queued" /\ asks'[k].request = "read"
AsksStep(ks, C) ==
    /\ asks' \in Seq(Ask) /\ Len(asks') = Len(asks) /\ DOMAIN asks' = DOMAIN asks
    /\ \A k \in DOMAIN asks : AskStep(k, ks, C)

LEMMA SameAsks ==
    ASSUME TypeOK, asks' = asks
    PROVE  AsksStep({}, {})
BY Rows DEF TypeOK, AsksStep, AskStep

LEMMA ReadAsks ==
    ASSUME TypeOK, NEW mail, asks' = Read(mail)
    PROVE  AsksStep({}, {})
<1> DEFINE g == asks'
<1>1. g = [k \in DOMAIN asks |-> g[k]]  BY DEF Read
<1>2. \A k \in DOMAIN asks : g[k] \in Ask /\ AskStep(k, {}, {})
  <2> TAKE k \in DOMAIN asks
  <2>1. asks[k] \in Ask  BY Rows
  <2>2. g[k] = [asks[k] EXCEPT !.request = IF @ = "queued" /\ <<k, "request">> \in mail THEN "read" ELSE @,
                               !.result = IF @ = "queued" /\ <<k, "result">> \in mail THEN "read" ELSE @]
    BY DEF Read
  <2> QED  BY <2>1, <2>2 DEF Ask, Mail, AskStep
<1> HIDE DEF g
<1>3. g \in Seq(Ask) /\ Len(g) = Len(asks) /\ DOMAIN g = DOMAIN asks  BY <1>1, <1>2, Rewritten
<1> QED  BY <1>2, <1>3 DEF g, AsksStep

LEMMA NoSegmentAsks ==
    ASSUME TypeOK, NEW i, asks' = NoSegment(i)
    PROVE  AsksStep({}, {})
<1> DEFINE g == asks'
<1>1. g = [k \in DOMAIN asks |-> g[k]]  BY DEF NoSegment
<1>2. \A k \in DOMAIN asks : g[k] \in Ask /\ AskStep(k, {}, {})
  <2> TAKE k \in DOMAIN asks
  <2>1. asks[k] \in Ask  BY Rows
  <2> DEFINE here == {part \in asks[k].here : asks[k][End[part]] # i}
             asking == asks[k].asking /\ asks[k].from # i
  <2>2. g[k] = [asks[k] EXCEPT !.here = here, !.asking = asking]  BY DEF NoSegment
  <2>3. here \in SUBSET {"request", "result"} /\ asking \in BOOLEAN  BY <2>1 DEF Ask
  <2> HIDE DEF here, asking
  <2> QED  BY <2>1, <2>2, <2>3 DEF Ask, AskStep
<1> HIDE DEF g
<1>3. g \in Seq(Ask) /\ Len(g) = Len(asks) /\ DOMAIN g = DOMAIN asks  BY <1>1, <1>2, Rewritten
<1> QED  BY <1>2, <1>3 DEF g, AsksStep

LEMMA ClosingAsks ==
    ASSUME TypeOK, NEW i, asks' = Closing(asks, i)
    PROVE  AsksStep({}, {i})
<1> DEFINE g == asks'
<1>1. g = [k \in DOMAIN asks |-> g[k]]  BY DEF Closing
<1>2. \A k \in DOMAIN asks : g[k] \in Ask /\ AskStep(k, {}, {i})
  <2> TAKE k \in DOMAIN asks
  <2>1. asks[k] \in Ask  BY Rows
  <2> DEFINE gone == asks[k].gone \cup {end \in {"from", "to"} : asks[k][end] = i}
  <2>2. g[k] = [asks[k] EXCEPT !.gone = gone]  BY DEF Closing
  <2>3. gone \in SUBSET {"from", "to"} /\ ("from" \in gone <=> "from" \in asks[k].gone \/ asks[k].from = i)
    BY <2>1 DEF Ask
  <2> HIDE DEF gone
  <2> QED  BY <2>1, <2>2, <2>3 DEF Ask, AskStep
<1> HIDE DEF g
<1>3. g \in Seq(Ask) /\ Len(g) = Len(asks) /\ DOMAIN g = DOMAIN asks  BY <1>1, <1>2, Rewritten
<1> QED  BY <1>2, <1>3 DEF g, AsksStep

\* One row settled.
LEMMA AnsweredRow ==
    ASSUME TypeOK, NEW ks, NEW status \in {"replied", "cancelled"}, NEW wakers, NEW k \in DOMAIN asks
    PROVE  LET as == Answered(ks, status, wakers) IN
           /\ as[k] \in Ask /\ as[k].from = asks[k].from /\ as[k].to = asks[k].to
           /\ as[k].gone = asks[k].gone
           /\ k \notin ks => as[k] = asks[k]
           /\ k \in ks => /\ as[k].status = status /\ as[k].result = "queued"
                          /\ as[k].request # "queued" /\ as[k].row \in {"none", "void"}
<1> DEFINE here == IF asks[k].asking \/ (k \in Sent(asks[k].from) /\ Live(asks[k].from))
                   THEN {"result"} ELSE {}
           request == IF asks[k].request = "queued" THEN "superseded" ELSE asks[k].request
           row == Voided(asks[k].row)
           wakes == asks[k].from \in wakers
           as == Answered(ks, status, wakers)
<1>1. asks[k] \in Ask  BY Rows
<1>2. CASE k \notin ks
  <2>1. as[k] = asks[k]  BY <1>2 DEF Answered
  <2> QED  BY <1>1, <1>2, <2>1
<1>3. CASE k \in ks
  <2>1. as[k] = [asks[k] EXCEPT !.status = status, !.result = "queued", !.wakes = wakes, !.here = here,
                                !.request = request, !.row = row]
    BY <1>3 DEF Answered
  <2>2. /\ here \in SUBSET {"request", "result"} /\ wakes \in BOOLEAN
        /\ request \in Mail /\ request # "queued" /\ row \in {"none", "void"}
    BY <1>1 DEF Ask, Mail, Voided
  <2> HIDE DEF here, request, row, wakes, as
  <2>3. as[k] \in Ask
    <3> PICK row0 \in {"none", "void"}, request0 \in Mail, here0 \in SUBSET {"request", "result"},
             wakes0 \in BOOLEAN :
          as[k] = [asks[k] EXCEPT !.status = status, !.result = "queued", !.wakes = wakes0, !.here = here0,
                                  !.request = request0, !.row = row0]
      BY <2>1, <2>2
    <3> DEFINE settled == [asks[k] EXCEPT !.status = status, !.result = "queued", !.wakes = wakes0]
    <3>1. "queued" \in Mail  BY DEF Mail
    <3>2. settled \in Ask  BY <1>1, <3>1 DEF Ask
    <3>3. as[k] = [settled EXCEPT !.here = here0, !.request = request0, !.row = row0]  BY <1>1 DEF Ask
    <3> HIDE DEF settled
    <3> PICK s \in Ask : s = settled  BY <3>2
    <3>4. [s EXCEPT !.here = here0, !.request = request0, !.row = row0] \in Ask  BY DEF Ask
    <3> QED  BY <3>3, <3>4
  <2>4. /\ as[k].from = asks[k].from /\ as[k].to = asks[k].to /\ as[k].gone = asks[k].gone
        /\ as[k].status = status /\ as[k].result = "queued"
        /\ as[k].request = request /\ as[k].row = row
    BY <1>1, <2>1 DEF Ask
  <2> QED  BY <1>3, <2>2, <2>3, <2>4 DEF as
<1> QED  BY <1>2, <1>3

LEMMA AnsweredAsks ==
    ASSUME TypeOK, NEW ks, NEW status \in {"replied", "cancelled"}, NEW wakers,
           asks' = Answered(ks, status, wakers)
    PROVE  AsksStep(ks, {})
<1> DEFINE g == asks'
<1>1. g = [k \in DOMAIN asks |-> g[k]]  BY DEF Answered
<1>2. \A k \in DOMAIN asks : g[k] \in Ask /\ AskStep(k, ks, {})
  BY AnsweredRow DEF AskStep
<1> HIDE DEF g
<1>3. g \in Seq(Ask) /\ Len(g) = Len(asks) /\ DOMAIN g = DOMAIN asks  BY <1>1, <1>2, Rewritten
<1> QED  BY <1>2, <1>3 DEF g, AsksStep

-----------------------------------------------------------------------------
(* What a step leaves standing. *)

NoneAsksItself == \A k \in DOMAIN asks : asks[k].from # asks[k].to
WaitInv == SettledTogether /\ WaitingHasItsWait /\ NoneAsksItself

\* The step of AnsweredOnce.
AnswersStay ==
    \A k \in DOMAIN asks : ~Open(k) =>
        /\ asks'[k].status = asks[k].status
        /\ asks[k].result = "read" => asks'[k].result = "read"

\* Work that still waits waited before, on what was not settled.
StillWaits(ks, C) ==
    \A i \in Items : state'[i] = "waiting" =>
        state[i] = "waiting" /\ wait'[i] = wait[i] /\ wait[i] \notin ks /\ i \notin C

LEMMA Keeps ==
    ASSUME TypeOK, WaitInv, NEW ks, NEW C, AsksStep(ks, C), hold' = hold, StillWaits(ks, C),
           \A k \in DOMAIN asks : k \in ks => Open(k)
    PROVE  WaitInv' /\ AnswersStay
<1>1. DOMAIN asks' = DOMAIN asks /\ \A k \in DOMAIN asks : AskStep(k, ks, C)  BY DEF AsksStep
<1>2. SettledTogether'
  <2> SUFFICES ASSUME NEW k \in DOMAIN asks
               PROVE  /\ asks'[k].status = "open" <=> asks'[k].result = "none"
                      /\ asks'[k].status # "open" => asks'[k].request # "queued" /\ asks'[k].row \in {"none", "void"}
                      /\ asks'[k].row = "set_aside" => asks'[k].from \in hold
                      /\ asks'[k].row = "open" => asks'[k].from \notin hold
    BY <1>1 DEF SettledTogether, Open
  <2>1. /\ asks[k].status = "open" <=> asks[k].result = "none"
        /\ asks[k].status # "open" => asks[k].request # "queued" /\ asks[k].row \in {"none", "void"}
        /\ asks[k].row = "set_aside" => asks[k].from \in hold
        /\ asks[k].row = "open" => asks[k].from \notin hold
    BY DEF WaitInv, SettledTogether, Open
  <2> QED  BY <1>1, <2>1 DEF AskStep
<1>3. WaitingHasItsWait'
  <2> SUFFICES ASSUME NEW i \in Items, state'[i] = "waiting"
               PROVE  /\ wait'[i] \in DOMAIN asks /\ asks'[wait'[i]].from = i /\ "from" \notin asks'[wait'[i]].gone
                      /\ asks'[wait'[i]].status = "open"
                      /\ asks'[wait'[i]].row = IF i \in hold THEN "set_aside" ELSE "open"
    BY <1>1 DEF WaitingHasItsWait, Sent, Open
  <2>1. state[i] = "waiting" /\ wait'[i] = wait[i] /\ wait[i] \notin ks /\ i \notin C  BY DEF StillWaits
  <2>2. /\ wait[i] \in DOMAIN asks /\ asks[wait[i]].from = i /\ "from" \notin asks[wait[i]].gone
        /\ asks[wait[i]].status = "open"
        /\ asks[wait[i]].row = IF i \in hold THEN "set_aside" ELSE "open"
    BY <2>1 DEF WaitInv, WaitingHasItsWait, Sent, Open
  <2> QED  BY <1>1, <2>1, <2>2 DEF AskStep
<1>4. NoneAsksItself'  BY <1>1 DEF WaitInv, NoneAsksItself, AskStep
<1>5. AnswersStay  BY <1>1 DEF AnswersStay, AskStep
<1> QED  BY <1>2, <1>3, <1>4, <1>5 DEF WaitInv

\* A step that settles nothing and closes nothing.
LEMMA KeepsAll ==
    ASSUME TypeOK, WaitInv, AsksStep({}, {}), hold' = hold,
           \A i \in Items : state'[i] = "waiting" => state[i] = "waiting" /\ wait'[i] = wait[i]
    PROVE  WaitInv' /\ AnswersStay
BY Keeps DEF StillWaits

Good == TypeOK' /\ WaitInv' /\ AnswersStay

\* The table after a step of AsksStep is typed; the rest is each action's.
LEMMA Typed ==
    ASSUME TypeOK, NEW ks, NEW C, AsksStep(ks, C),
           state' \in [Items -> States], wait' \in [Items -> NoAsk..MaxAsks],
           seg' \in [Items -> Segments], wake' \in [Items -> BOOLEAN],
           \A i \in Items : Live(i)' => state'[i] # "closed",
           hold' \subseteq Items, stopped' \subseteq hold', archived' \subseteq Items,
           used' \in [stops : 0..MaxStops, lines : 0..MaxLines]
    PROVE  TypeOK'
BY DEF TypeOK, AsksStep

-----------------------------------------------------------------------------
(* A segment's own steps. *)

LEMMA ReadOnStep ==
    ASSUME TypeOK, WaitInv, NEW i \in Items, ReadOn(i)
    PROVE  Good
<1>1. AsksStep({}, {})  BY ReadAsks DEF ReadOn
<1>2. TypeOK'  BY <1>1, Typed DEF ReadOn, TypeOK, Live
<1>3. WaitInv' /\ AnswersStay  BY <1>1, KeepsAll DEF ReadOn
<1> QED  BY <1>2, <1>3 DEF Good

LEMMA TurnOverStep ==
    ASSUME TypeOK, WaitInv, NEW i \in Items, TurnOver(i)
    PROVE  Good
<1>1. AsksStep({}, {})  BY NoSegmentAsks DEF TurnOver
<1>2. /\ seg' = [seg EXCEPT ![i] = "none"] /\ state' = [state EXCEPT ![i] = Released(i)]
      /\ Released(i) \in {state[i], "queued"}
      /\ UNCHANGED <<wait, wake, hold, stopped, archived, used>>
  BY DEF TurnOver, Released
<1> HIDE DEF Released
<1>3. TypeOK'
  <2>1. state' \in [Items -> States] /\ seg' \in [Items -> Segments]  BY <1>2 DEF TypeOK, States, Segments
  <2>2. \A j \in Items : Live(j)' => state'[j] # "closed"  BY <1>2 DEF TypeOK, Live
  <2> QED  BY <1>1, <1>2, <2>1, <2>2, Typed DEF TypeOK
<1>4. WaitInv' /\ AnswersStay  BY <1>1, <1>2, KeepsAll DEF TypeOK
<1> QED  BY <1>3, <1>4 DEF Good

LEMMA CutOffStep ==
    ASSUME TypeOK, WaitInv, NEW i \in Items, CutOff(i)
    PROVE  Good
<1>1. AsksStep({}, {})  BY NoSegmentAsks DEF CutOff
<1> DEFINE after == IF state[i] \in Unsettled THEN "needs_attention" ELSE state[i]
<1>2. /\ seg' = [seg EXCEPT ![i] = "none"] /\ state' = [state EXCEPT ![i] = after]
      /\ after \in {state[i], "needs_attention"}
      /\ UNCHANGED <<wait, wake, hold, stopped, archived, used>>
  BY DEF CutOff
<1> HIDE DEF after
<1>3. TypeOK'
  <2>1. state' \in [Items -> States] /\ seg' \in [Items -> Segments]  BY <1>2 DEF TypeOK, States, Segments
  <2>2. \A j \in Items : Live(j)' => state'[j] # "closed"  BY <1>2 DEF TypeOK, Live
  <2> QED  BY <1>1, <1>2, <2>1, <2>2, Typed DEF TypeOK
<1>4. WaitInv' /\ AnswersStay  BY <1>1, <1>2, KeepsAll DEF TypeOK
<1> QED  BY <1>3, <1>4 DEF Good

LEMMA GoToTicketStep ==
    ASSUME TypeOK, WaitInv, NEW i \in Items, GoToTicket(i)
    PROVE  Good
<1>1. /\ seg' = [seg EXCEPT ![i] = "away"] /\ UNCHANGED <<wake, hold, stopped, archived, used>>
  BY DEF GoToTicket
<1>2. CASE /\ state' = [state EXCEPT ![i] = IF @ = "running" THEN "idle" ELSE @]
           /\ UNCHANGED <<wait, asks>>
  <2>1. AsksStep({}, {})  BY <1>2, SameAsks
  <2>2. TypeOK'
    <3>1. state' \in [Items -> States] /\ seg' \in [Items -> Segments]
      BY <1>1, <1>2 DEF TypeOK, States, Segments
    <3>2. \A j \in Items : Live(j)' => state'[j] # "closed"  BY <1>1, <1>2 DEF TypeOK, Live
    <3> QED  BY <1>1, <1>2, <2>1, <3>1, <3>2, Typed DEF TypeOK
  <2>3. WaitInv' /\ AnswersStay  BY <1>1, <1>2, <2>1, KeepsAll DEF TypeOK
  <2> QED  BY <2>2, <2>3 DEF Good
<1>3. CASE /\ state' = [state EXCEPT ![i] = "closed"]
           /\ wait' = [wait EXCEPT ![i] = NoAsk]
           /\ asks' = Closing(asks, i)
  <2>1. AsksStep({}, {i})  BY <1>3, ClosingAsks
  <2>2. TypeOK'
    <3>1. /\ state' \in [Items -> States] /\ seg' \in [Items -> Segments]
          /\ wait' \in [Items -> NoAsk..MaxAsks]
      BY <1>1, <1>3, Rows DEF TypeOK, States, Segments, NoAsk
    <3>2. \A j \in Items : Live(j)' => state'[j] # "closed"  BY <1>1, <1>3 DEF TypeOK, Live
    <3> QED  BY <1>1, <2>1, <3>1, <3>2, Typed DEF TypeOK
  <2>3. StillWaits({}, {i})  BY <1>3 DEF TypeOK, StillWaits
  <2>4. WaitInv' /\ AnswersStay  BY <1>1, <2>1, <2>3, Keeps
  <2> QED  BY <2>2, <2>4 DEF Good
<1> QED  BY <1>2, <1>3 DEF GoToTicket

\* What an answer does to the asker's work.
LEMMA AnsweredWork ==
    ASSUME TypeOK, NEW ks, NEW wakers
    PROVE  /\ AnsweredState(ks, wakers) \in [Items -> States]
           /\ AnsweredWait(ks) \in [Items -> NoAsk..MaxAsks]
           /\ \A i \in Items :
                /\ AnsweredState(ks, wakers)[i] = "waiting" =>
                      state[i] = "waiting" /\ wait[i] \notin ks /\ AnsweredWait(ks)[i] = wait[i]
                /\ AnsweredState(ks, wakers)[i] = "closed" => state[i] = "closed"
BY Rows DEF AnsweredState, AnsweredWait, TypeOK, States, NoAsk

LEMMA EndTurnStep ==
    ASSUME TypeOK, WaitInv, NEW i \in Items, NEW replies \in BOOLEAN,
           NEW outcome \in {"ends", "blocked", "needs_attention"}, EndTurn(i, replies, outcome)
    PROVE  Good
<1> PICK ks : ks = IF replies THEN InWords(i) ELSE {}  OBVIOUS
<1> DEFINE stands == IF outcome # "ends" THEN outcome
                     ELSE IF StillWaiting(i) THEN "waiting"
                     ELSE IF Wakes(i) THEN "queued" ELSE "idle"
<1>1. /\ asks' = Answered(ks, "replied", Items)
      /\ state' = [AnsweredState(ks, Items) EXCEPT ![i] = stands]
      /\ wait' = [AnsweredWait(ks) EXCEPT ![i] = IF stands = "waiting" THEN @ ELSE NoAsk]
      /\ seg' = [seg EXCEPT ![i] = "over"]
      /\ UNCHANGED <<wake, hold, stopped, archived, used>>
  BY DEF EndTurn
<1>2. stands \in {"blocked", "needs_attention", "waiting", "queued", "idle"}
      /\ (stands = "waiting" => StillWaiting(i))
  OBVIOUS
<1> HIDE DEF stands
<1>3. AsksStep(ks, {})  BY <1>1, AnsweredAsks
<1>4. TypeOK'
  <2>1. state' \in [Items -> States] /\ seg' \in [Items -> Segments] /\ wait' \in [Items -> NoAsk..MaxAsks]
    BY <1>1, <1>2, AnsweredWork, Rows DEF TypeOK, States, Segments, NoAsk
  <2>2. \A j \in Items : Live(j)' => state'[j] # "closed"
    BY <1>1, <1>2, AnsweredWork DEF TypeOK, Live
  <2> QED  BY <1>1, <1>3, <2>1, <2>2, Typed DEF TypeOK
<1>5. \A k \in DOMAIN asks : k \in ks => Open(k) /\ asks[k].to = i  BY DEF InWords, Got
<1>6. stands = "waiting" => state[i] = "waiting" /\ wait[i] \notin ks /\ wait'[i] = wait[i]
  <2> SUFFICES ASSUME stands = "waiting"
               PROVE  state[i] = "waiting" /\ wait[i] \notin ks /\ wait'[i] = wait[i]
    OBVIOUS
  <2>1. state[i] = "waiting" /\ wait[i] \in DOMAIN asks /\ asks[wait[i]].from = i
    BY <1>2 DEF StillWaiting, Sent
  <2>2. wait[i] \notin ks  BY <1>5, <2>1 DEF WaitInv, NoneAsksItself
  <2>3. wait'[i] = AnsweredWait(ks)[i]  BY <1>1, AnsweredWork
  <2> QED  BY <2>1, <2>2, <2>3 DEF AnsweredWait
<1>7. StillWaits(ks, {})
  <2> SUFFICES ASSUME NEW j \in Items, state'[j] = "waiting"
               PROVE  state[j] = "waiting" /\ wait'[j] = wait[j] /\ wait[j] \notin ks
    BY DEF StillWaits
  <2>1. CASE j = i  BY <1>1, <1>6, <2>1, AnsweredWork
  <2>2. CASE j # i  BY <1>1, <2>2, AnsweredWork
  <2> QED  BY <2>1, <2>2
<1>8. WaitInv' /\ AnswersStay  BY <1>1, <1>3, <1>5, <1>7, Keeps
<1> QED  BY <1>4, <1>8 DEF Good

LEMMA Added ==
    ASSUME NEW S, NEW f \in Seq(S), NEW e \in S
    PROVE  /\ Append(f, e) \in Seq(S) /\ Len(Append(f, e)) = Len(f) + 1
           /\ DOMAIN Append(f, e) = DOMAIN f \cup {Len(f) + 1}
           /\ \A r \in DOMAIN f : Append(f, e)[r] = f[r]
           /\ Append(f, e)[Len(f) + 1] = e
BY AppendProperties, LenProperties

LEMMA AskForStep ==
    ASSUME TypeOK, WaitInv, NEW i \in Items, NEW j \in Items, NEW expects \in {"answer", "deliverable"},
           NEW continue \in BOOLEAN, AskFor(i, j, expects, continue)
    PROVE  Good
<1> PICK n : n = Len(asks) + 1  OBVIOUS
<1> DEFINE row == IF continue THEN "none" ELSE "open"
           here == IF Live(j) THEN {"request"} ELSE {}
           ask == [from |-> i, to |-> j, expects |-> expects, status |-> "open",
                   request |-> "queued", result |-> "none", wakes |-> FALSE, row |-> row,
                   here |-> here, asking |-> TRUE, gone |-> {}]
           asked == [state EXCEPT ![j] = IF Live(j) THEN @ ELSE "queued"]
<1>1. /\ seg[i] = "works" /\ i \notin hold /\ i # j /\ Len(asks) < MaxAsks
      /\ asks' = Append(asks, ask)
      /\ IF continue THEN state' = asked /\ UNCHANGED <<wait, seg>>
         ELSE /\ state' = [asked EXCEPT ![i] = "waiting"]
              /\ wait' = [wait EXCEPT ![i] = n]
              /\ seg' = [seg EXCEPT ![i] = "over"]
      /\ UNCHANGED <<wake, hold, stopped, archived, used>>
  BY DEF AskFor
<1>2. row \in {"none", "open"} /\ here \in SUBSET {"request", "result"}  OBVIOUS
<1>3. row = IF continue THEN "none" ELSE "open"  OBVIOUS
<1> HIDE DEF row, here
<1>4. ask \in Ask  BY <1>2 DEF Ask, Mail
<1>5. /\ ask.from = i /\ ask.to = j /\ ask.status = "open" /\ ask.result = "none"
      /\ ask.row = row /\ ask.gone = {}
  OBVIOUS
<1> HIDE DEF ask
<1>6. /\ asks' \in Seq(Ask) /\ Len(asks') = n /\ DOMAIN asks' = DOMAIN asks \cup {n} /\ asks'[n] = ask
      /\ \A k \in DOMAIN asks : asks'[k] = asks[k]
  BY <1>1, <1>4, Added DEF TypeOK
<1>7. n \in 1..MaxAsks /\ n \notin DOMAIN asks  BY <1>1, Rows
<1>8. /\ asked \in [Items -> States]
      /\ \A x \in Items : /\ asked[x] = "waiting" => state[x] = "waiting"
                          /\ asked[x] = "closed" => state[x] = "closed"
  BY DEF TypeOK, States
<1> HIDE DEF asked
<1>9. TypeOK'
  <2>1. state' \in [Items -> States] /\ seg' \in [Items -> Segments]  BY <1>1, <1>8 DEF TypeOK, States, Segments
  <2>2. wait' \in [Items -> NoAsk..MaxAsks]
    <3>1. wait \in [Items -> NoAsk..MaxAsks] /\ n \in NoAsk..MaxAsks  BY <1>7, Rows DEF TypeOK, NoAsk
    <3>2. wait' = wait \/ wait' = [wait EXCEPT ![i] = n]  BY <1>1
    <3> QED  BY <3>1, <3>2
  <2>3. \A x \in Items : Live(x)' => state'[x] # "closed"
    <3> SUFFICES ASSUME NEW x \in Items, Live(x)'  PROVE state'[x] # "closed"  OBVIOUS
    <3>1. CASE continue  BY <1>1, <1>8, <3>1 DEF TypeOK, Live
    <3>2. CASE ~continue /\ x = i  BY <1>1, <1>8, <3>2 DEF TypeOK, Live
    <3>3. CASE ~continue /\ x # i  BY <1>1, <1>8, <3>3 DEF TypeOK, Live
    <3> QED  BY <3>1, <3>2, <3>3
  <2>4. Len(asks') <= MaxAsks  BY <1>6, <1>7
  <2> QED  BY <1>1, <1>6, <2>1, <2>2, <2>3, <2>4 DEF TypeOK
<1>10. SettledTogether'
  <2> SUFFICES ASSUME NEW k \in DOMAIN asks'
               PROVE  /\ asks'[k].status = "open" <=> asks'[k].result = "none"
                      /\ asks'[k].status # "open" => asks'[k].request # "queued" /\ asks'[k].row \in {"none", "void"}
                      /\ asks'[k].row = "set_aside" => asks'[k].from \in hold
                      /\ asks'[k].row = "open" => asks'[k].from \notin hold
    BY <1>1 DEF SettledTogether, Open
  <2>1. CASE k = n  BY <1>1, <1>2, <1>5, <1>6, <2>1
  <2>2. CASE k \in DOMAIN asks  BY <1>6, <2>2 DEF WaitInv, SettledTogether, Open
  <2> QED  BY <1>6, <2>1, <2>2
<1>11. WaitingHasItsWait'
  <2> SUFFICES ASSUME NEW x \in Items, state'[x] = "waiting"
               PROVE  /\ wait'[x] \in DOMAIN asks' /\ asks'[wait'[x]].from = x /\ "from" \notin asks'[wait'[x]].gone
                      /\ asks'[wait'[x]].status = "open"
                      /\ asks'[wait'[x]].row = IF x \in hold THEN "set_aside" ELSE "open"
    BY <1>1 DEF WaitingHasItsWait, Sent, Open
  <2>1. CASE ~continue /\ x = i
    <3>1. wait'[x] = n  BY <1>1, <2>1 DEF TypeOK
    <3> QED  BY <1>1, <1>3, <1>5, <1>6, <2>1, <3>1
  <2>2. CASE continue \/ x # i
    <3>1. state[x] = "waiting" /\ wait'[x] = wait[x]  BY <1>1, <1>8, <2>2 DEF TypeOK
    <3>2. /\ wait[x] \in DOMAIN asks /\ asks[wait[x]].from = x /\ "from" \notin asks[wait[x]].gone
          /\ asks[wait[x]].status = "open"
          /\ asks[wait[x]].row = IF x \in hold THEN "set_aside" ELSE "open"
      BY <3>1 DEF WaitInv, WaitingHasItsWait, Sent, Open
    <3> QED  BY <1>6, <3>1, <3>2
  <2> QED  BY <2>1, <2>2
<1>12. NoneAsksItself'  BY <1>1, <1>5, <1>6 DEF WaitInv, NoneAsksItself
<1>13. AnswersStay  BY <1>6 DEF AnswersStay
<1> QED  BY <1>9, <1>10, <1>11, <1>12, <1>13 DEF Good, WaitInv

-----------------------------------------------------------------------------
(* What comes to an item from outside it. *)

LEMMA ApprovedStep ==
    ASSUME TypeOK, WaitInv, NEW i \in Items, Approved(i)
    PROVE  Good
<1> PICK ks : ks = {k \in Got(i) : Open(k) /\ asks[k].expects = "deliverable"}  OBVIOUS
<1>1. /\ asks' = Answered(ks, "replied", Items)
      /\ state' = AnsweredState(ks, Items) /\ wait' = AnsweredWait(ks)
      /\ UNCHANGED <<seg, wake, hold, stopped, archived, used>>
  BY DEF Approved
<1>2. AsksStep(ks, {})  BY <1>1, AnsweredAsks
<1>3. TypeOK'
  <2>1. \A j \in Items : Live(j)' => state'[j] # "closed"  BY <1>1, AnsweredWork DEF TypeOK, Live
  <2> QED  BY <1>1, <1>2, <2>1, AnsweredWork, Typed DEF TypeOK
<1>4. StillWaits(ks, {})  BY <1>1, AnsweredWork DEF StillWaits
<1>5. \A k \in DOMAIN asks : k \in ks => Open(k)  OBVIOUS
<1>6. WaitInv' /\ AnswersStay  BY <1>1, <1>2, <1>4, <1>5, Keeps
<1> QED  BY <1>3, <1>6 DEF Good

LEMMA ArchiveStep ==
    ASSUME TypeOK, WaitInv, NEW i \in Items, Archive(i)
    PROVE  Good
<1> PICK ks : ks = {k \in DOMAIN asks : Open(k) /\ i \in {asks[k].from, asks[k].to}}  OBVIOUS
<1> PICK wakers : wakers = {j \in Items \ ({i} \cup archived) : state[j] # "closed"}  OBVIOUS
<1> DEFINE as == Answered(ks, "cancelled", wakers)
           bs == [k \in DOMAIN as |->
                     [as[k] EXCEPT !.here = {part \in @ : as[k][End[part]] # i},
                                   !.asking = @ /\ as[k].from # i]]
<1>1. /\ asks' = Closing(bs, i) /\ archived' = archived \cup {i}
      /\ state' = [AnsweredState(ks, wakers) EXCEPT ![i] = "closed"]
      /\ wait' = [AnsweredWait(ks) EXCEPT ![i] = NoAsk]
      /\ seg' = [seg EXCEPT ![i] = "none"] /\ wake' = [wake EXCEPT ![i] = FALSE]
      /\ stopped' = stopped \ {i}
      /\ UNCHANGED <<hold, used>>
  BY DEF Archive
<1>2. AsksStep(ks, {i})
  <2> DEFINE g == asks'
  <2>1. DOMAIN as = DOMAIN asks /\ DOMAIN bs = DOMAIN asks  BY DEF Answered
  <2>2. g = [k \in DOMAIN asks |-> g[k]]
    <3>1. g = Closing(bs, i)  BY <1>1
    <3> HIDE DEF as, bs, g
    <3> QED  BY <2>1, <3>1 DEF Closing
  <2>3. \A k \in DOMAIN asks : g[k] \in Ask /\ AskStep(k, ks, {i})
    <3> TAKE k \in DOMAIN asks
    <3>1. /\ as[k] \in Ask /\ as[k].from = asks[k].from /\ as[k].to = asks[k].to
          /\ as[k].gone = asks[k].gone
          /\ k \notin ks => as[k] = asks[k]
          /\ k \in ks => /\ as[k].status = "cancelled" /\ as[k].result = "queued"
                         /\ as[k].request # "queued" /\ as[k].row \in {"none", "void"}
      BY AnsweredRow
    <3> DEFINE here == {part \in as[k].here : as[k][End[part]] # i}
               asking == as[k].asking /\ as[k].from # i
               b == [as[k] EXCEPT !.here = here, !.asking = asking]
               gone == b.gone \cup {end \in {"from", "to"} : b[end] = i}
    <3>2. bs[k] = b  BY <2>1
    <3>3. g[k] = [b EXCEPT !.gone = gone]  BY <1>1, <2>1, <3>2 DEF Closing
    <3>4. here \in SUBSET {"request", "result"} /\ asking \in BOOLEAN  BY <3>1 DEF Ask
    <3> HIDE DEF as, here, asking, bs
    <3>5. /\ b \in Ask /\ b.from = as[k].from /\ b.to = as[k].to /\ b.gone = as[k].gone
          /\ b.status = as[k].status /\ b.result = as[k].result /\ b.request = as[k].request /\ b.row = as[k].row
      BY <3>1, <3>4 DEF Ask
    <3>6. gone \in SUBSET {"from", "to"} /\ ("from" \in gone <=> "from" \in b.gone \/ b.from = i)
      BY <3>5 DEF Ask
    <3> HIDE DEF b, gone
    <3>7. /\ g[k] \in Ask /\ g[k].from = b.from /\ g[k].to = b.to /\ g[k].gone = gone
          /\ g[k].status = b.status /\ g[k].result = b.result /\ g[k].request = b.request /\ g[k].row = b.row
      BY <3>3, <3>5, <3>6 DEF Ask
    <3> QED  BY <3>1, <3>5, <3>6, <3>7 DEF AskStep
  <2> HIDE DEF g
  <2>4. g \in Seq(Ask) /\ Len(g) = Len(asks) /\ DOMAIN g = DOMAIN asks  BY <2>2, <2>3, Rewritten
  <2> QED  BY <2>3, <2>4 DEF g, AsksStep
<1> HIDE DEF as, bs
<1>3. TypeOK'
  <2>1. /\ state' \in [Items -> States] /\ seg' \in [Items -> Segments] /\ wait' \in [Items -> NoAsk..MaxAsks]
        /\ wake' \in [Items -> BOOLEAN]
    <3>1. "closed" \in States /\ "none" \in Segments /\ NoAsk \in NoAsk..MaxAsks
      BY Rows DEF States, Segments, NoAsk
    <3>2. state' \in [Items -> States]  BY <1>1, <3>1, AnsweredWork
    <3>3. wait' \in [Items -> NoAsk..MaxAsks]  BY <1>1, <3>1, AnsweredWork
    <3>4. seg' \in [Items -> Segments] /\ wake' \in [Items -> BOOLEAN]  BY <1>1, <3>1 DEF TypeOK
    <3> QED  BY <3>2, <3>3, <3>4
  <2>2. \A j \in Items : Live(j)' => state'[j] # "closed"
    <3> SUFFICES ASSUME NEW j \in Items, Live(j)'  PROVE state'[j] # "closed"  OBVIOUS
    <3>1. j # i /\ Live(j)  BY <1>1 DEF TypeOK, Live
    <3>2. state'[j] = AnsweredState(ks, wakers)[j]  BY <1>1, <3>1, AnsweredWork
    <3> QED  BY <3>1, <3>2, AnsweredWork DEF TypeOK
  <2>3. stopped' \subseteq hold' /\ archived' \subseteq Items  BY <1>1 DEF TypeOK
  <2> QED  BY <1>1, <1>2, <2>1, <2>2, <2>3, Typed DEF TypeOK
<1>4. StillWaits(ks, {i})
  <2> SUFFICES ASSUME NEW j \in Items, state'[j] = "waiting"
               PROVE  state[j] = "waiting" /\ wait'[j] = wait[j] /\ wait[j] \notin ks /\ j # i
    BY DEF StillWaits
  <2>1. j # i  BY <1>1, AnsweredWork
  <2>2. state'[j] = AnsweredState(ks, wakers)[j] /\ wait'[j] = AnsweredWait(ks)[j]
    BY <1>1, <2>1, AnsweredWork
  <2> QED  BY <2>1, <2>2, AnsweredWork
<1>5. \A k \in DOMAIN asks : k \in ks => Open(k)  OBVIOUS
<1>6. WaitInv' /\ AnswersStay  BY <1>1, <1>2, <1>4, <1>5, Keeps
<1> QED  BY <1>3, <1>6 DEF Good

\* One more line or stop, within its bound.
LEMMA Counted ==
    ASSUME NEW m \in Nat, NEW n \in Nat, NEW u \in [stops : 0..m, lines : 0..n]
    PROVE  /\ u.stops < m => [u EXCEPT !.stops = @ + 1] \in [stops : 0..m, lines : 0..n]
           /\ u.lines < n => [u EXCEPT !.lines = @ + 1] \in [stops : 0..m, lines : 0..n]
<1>1. u.stops < m => u.stops + 1 \in 0..m  OBVIOUS
<1>2. u.lines < n => u.lines + 1 \in 0..n  OBVIOUS
<1> QED  BY <1>1, <1>2

\* A segment opens: on work that is not closed from then on.
LEMMA OpensAsks ==
    ASSUME TypeOK, WaitInv, NEW i \in Items, NEW mark \in BOOLEAN, Opens(i, mark), wait' = wait,
           hold' = hold, stopped' = stopped, archived' = archived,
           used' \in [stops : 0..MaxStops, lines : 0..MaxLines]
    PROVE  Good
<1>1. AsksStep({}, {})  BY ReadAsks DEF Opens
<1> PICK m : m = Marked(i, mark)  OBVIOUS
<1>2. m \in {state[i], "running"} /\ m # "closed" /\ m \in States  BY DEF Marked, TypeOK, States
<1>3. /\ seg' = [seg EXCEPT ![i] = "works"] /\ state' = [state EXCEPT ![i] = m]
      /\ wake' = [wake EXCEPT ![i] = FALSE]
  BY DEF Opens
<1>4. TypeOK'
  <2>1. state' \in [Items -> States] /\ wake' \in [Items -> BOOLEAN]  BY <1>2, <1>3 DEF TypeOK
  <2>2. seg' \in [Items -> Segments]  BY <1>3 DEF TypeOK, Segments
  <2>3. \A j \in Items : Live(j)' => state'[j] # "closed"  BY <1>2, <1>3 DEF TypeOK, Live
  <2> QED  BY <1>1, <2>1, <2>2, <2>3, Typed DEF TypeOK
<1>5. \A j \in Items : state'[j] = "waiting" => state[j] = "waiting"  BY <1>2, <1>3 DEF TypeOK
<1>6. WaitInv' /\ AnswersStay  BY <1>1, <1>5, KeepsAll
<1> QED  BY <1>4, <1>6 DEF Good

LEMMA YourLineStep ==
    ASSUME TypeOK, WaitInv, NEW i \in Items, YourLine(i)
    PROVE  Good
<1>1. used' \in [stops : 0..MaxStops, lines : 0..MaxLines]
  BY DelegationsAssumption, Counted DEF YourLine, TypeOK
<1> QED  BY <1>1, OpensAsks DEF YourLine

LEMMA DispatchStep ==
    ASSUME TypeOK, WaitInv, NEW i \in Items, Dispatch(i)
    PROVE  Good
BY OpensAsks DEF Dispatch, TypeOK

-----------------------------------------------------------------------------
(* The supervisor. *)

\* Work is put in another state than waiting, and nothing is said to anybody.
LEMMA PutStep ==
    ASSUME TypeOK, WaitInv, NEW i \in Items, NEW to \in States \ {"waiting", "closed"},
           state' = [state EXCEPT ![i] = to], wait' \in {wait, [wait EXCEPT ![i] = NoAsk]},
           asks' = asks, seg' = seg, wake' \in [Items -> BOOLEAN], hold' = hold, stopped' = stopped,
           archived' = archived, used' \in [stops : 0..MaxStops, lines : 0..MaxLines]
    PROVE  Good
<1>1. AsksStep({}, {})  BY SameAsks
<1>2. TypeOK'
  <2>1. state' \in [Items -> States]  BY DEF TypeOK
  <2>2. NoAsk \in NoAsk..MaxAsks  BY Rows DEF NoAsk
  <2>3. wait' \in [Items -> NoAsk..MaxAsks]  BY <2>2 DEF TypeOK
  <2>4. \A j \in Items : Live(j)' => state'[j] # "closed"  BY DEF TypeOK, Live
  <2> QED  BY <1>1, <2>1, <2>3, <2>4, Typed DEF TypeOK
<1>3. \A j \in Items : state'[j] = "waiting" => state[j] = "waiting" /\ wait'[j] = wait[j]  BY DEF TypeOK
<1>4. WaitInv' /\ AnswersStay  BY <1>1, <1>3, KeepsAll
<1> QED  BY <1>2, <1>4 DEF Good

LEMMA RepairWaitStep ==
    ASSUME TypeOK, WaitInv, NEW i \in Items, RepairWait(i)
    PROVE  Good
BY PutStep DEF RepairWait, TypeOK, States

LEMMA RequeueStep ==
    ASSUME TypeOK, WaitInv, NEW i \in Items, Requeue(i)
    PROVE  Good
BY PutStep DEF Requeue, TypeOK, States

LEMMA PickUpStep ==
    ASSUME TypeOK, WaitInv, NEW i \in Items, PickUp(i)
    PROVE  Good
<1>1. UNCHANGED <<wait, hold, stopped, archived, used>>  BY DEF PickUp
<1>2. CASE Opens(i, FALSE)  BY <1>1, <1>2, OpensAsks DEF TypeOK
<1>3. CASE state' = [state EXCEPT ![i] = "queued"] /\ wake' = [wake EXCEPT ![i] = TRUE]
           /\ UNCHANGED <<seg, asks>>
  <2>1. wake' \in [Items -> BOOLEAN]  BY <1>3 DEF TypeOK
  <2> QED  BY <1>1, <1>3, <2>1, PutStep DEF TypeOK, States
<1> QED  BY <1>2, <1>3 DEF PickUp

LEMMA CallBackStep ==
    ASSUME TypeOK, WaitInv, NEW i \in Items, CallBack(i)
    PROVE  Good
<1>1. used' \in [stops : 0..MaxStops, lines : 0..MaxLines]
  BY DelegationsAssumption, Counted DEF CallBack, TypeOK
<1>2. wake' \in [Items -> BOOLEAN]  BY DEF CallBack, TypeOK
<1>3. "queued" \in States \ {"waiting", "closed"}  BY DEF States
<1>4. /\ state' = [state EXCEPT ![i] = "queued"] /\ wait' \in {wait, [wait EXCEPT ![i] = NoAsk]}
      /\ UNCHANGED <<seg, asks, hold, stopped, archived>>
  BY DEF CallBack
<1> QED  BY <1>1, <1>2, <1>3, <1>4, PutStep

-----------------------------------------------------------------------------
(* A stop, and going on. *)

\* The first stop on a plan: no wait was set aside before it.
LEMMA StopStep ==
    ASSUME TypeOK, WaitInv, NEW root \in Items, Stop(root)
    PROVE  Good
<1> PICK covered : covered = {i \in Items \ archived : i \in Reach(root)}  OBVIOUS
<1> PICK ended : ended = {i \in covered : seg[i] # "none"}  OBVIOUS
<1> DEFINE row(k) == IF asks[k].row = "open" /\ asks[k].from \in covered THEN "set_aside" ELSE asks[k].row
           here(k) == {part \in asks[k].here : asks[k][End[part]] \notin ended}
           asking(k) == asks[k].asking /\ asks[k].from \notin ended
           g == [k \in DOMAIN asks |->
                    [asks[k] EXCEPT !.row = row(k), !.here = here(k), !.asking = asking(k)]]
<1>1. /\ hold = {} /\ used.stops < MaxStops /\ hold' = covered /\ stopped' = {i \in covered : Live(i)}
      /\ seg' = [i \in Items |-> IF i \in ended THEN "none" ELSE seg[i]]
      /\ state' = [i \in Items |-> IF i \in stopped' /\ state[i] = "running" THEN "idle" ELSE state[i]]
      /\ asks' = g
      /\ used' = [used EXCEPT !.stops = @ + 1]
      /\ UNCHANGED <<wait, wake, archived>>
  BY DEF Stop
<1>2. \A k \in DOMAIN asks :
         /\ g[k] \in Ask /\ g[k].from = asks[k].from /\ g[k].to = asks[k].to /\ g[k].gone = asks[k].gone
         /\ g[k].status = asks[k].status /\ g[k].request = asks[k].request /\ g[k].result = asks[k].result
         /\ g[k].row = row(k)
  <2> TAKE k \in DOMAIN asks
  <2>1. asks[k] \in Ask  BY Rows
  <2>2. g[k] = [asks[k] EXCEPT !.row = row(k), !.here = here(k), !.asking = asking(k)]  OBVIOUS
  <2>3. /\ row(k) \in {"none", "open", "set_aside", "void"} /\ here(k) \in SUBSET {"request", "result"}
        /\ asking(k) \in BOOLEAN
    BY <2>1 DEF Ask
  <2> HIDE DEF g, row, here, asking
  <2>4. g[k] \in Ask
    <3> PICK a \in Ask, r \in {"none", "open", "set_aside", "void"}, h \in SUBSET {"request", "result"},
             w \in BOOLEAN : a = asks[k] /\ r = row(k) /\ h = here(k) /\ w = asking(k)
      BY <2>1, <2>3
    <3>1. [a EXCEPT !.row = r, !.here = h, !.asking = w] \in Ask  BY DEF Ask
    <3> QED  BY <2>2, <3>1
  <2>5. /\ g[k].from = asks[k].from /\ g[k].to = asks[k].to /\ g[k].gone = asks[k].gone
        /\ g[k].status = asks[k].status /\ g[k].request = asks[k].request
        /\ g[k].result = asks[k].result /\ g[k].row = row(k)
    BY <2>1, <2>2 DEF Ask
  <2> QED  BY <2>4, <2>5
<1>3. g = [k \in DOMAIN asks |-> g[k]]  OBVIOUS
<1>4. \A k \in DOMAIN asks : row(k) = IF asks[k].row = "open" /\ asks[k].from \in covered
                                      THEN "set_aside" ELSE asks[k].row
  OBVIOUS
<1> HIDE DEF g, row, here, asking
<1>5. g \in Seq(Ask) /\ Len(g) = Len(asks) /\ DOMAIN g = DOMAIN asks  BY <1>2, <1>3, Rewritten
<1>6. TypeOK'
  <2>1. state' \in [Items -> States]  BY <1>1 DEF TypeOK, States
  <2>2. seg' \in [Items -> Segments]  BY <1>1 DEF TypeOK, Segments
  <2>3. \A i \in Items : Live(i)' => state'[i] # "closed"
    <3> SUFFICES ASSUME NEW i \in Items, Live(i)'  PROVE state'[i] # "closed"  OBVIOUS
    <3>1. Live(i)  BY <1>1 DEF Live
    <3> QED  BY <1>1, <3>1 DEF TypeOK
  <2>4. used' \in [stops : 0..MaxStops, lines : 0..MaxLines]  BY <1>1, DelegationsAssumption, Counted DEF TypeOK
  <2>5. hold' \subseteq Items /\ stopped' \subseteq hold'  BY <1>1
  <2> QED  BY <1>1, <1>5, <2>1, <2>2, <2>3, <2>4, <2>5 DEF TypeOK
<1>7. SettledTogether'
  <2> SUFFICES ASSUME NEW k \in DOMAIN asks
               PROVE  /\ g[k].status = "open" <=> g[k].result = "none"
                      /\ g[k].status # "open" => g[k].request # "queued" /\ g[k].row \in {"none", "void"}
                      /\ g[k].row = "set_aside" => g[k].from \in covered
                      /\ g[k].row = "open" => g[k].from \notin covered
    BY <1>1, <1>5 DEF SettledTogether, Open
  <2> QED  BY <1>1, <1>2, <1>4 DEF WaitInv, SettledTogether, Open
<1>8. WaitingHasItsWait'
  <2> SUFFICES ASSUME NEW i \in Items, state'[i] = "waiting"
               PROVE  /\ wait[i] \in DOMAIN asks /\ g[wait[i]].from = i /\ "from" \notin g[wait[i]].gone
                      /\ g[wait[i]].status = "open"
                      /\ g[wait[i]].row = IF i \in covered THEN "set_aside" ELSE "open"
    BY <1>1, <1>5 DEF WaitingHasItsWait, Sent, Open
  <2>1. state[i] = "waiting"  BY <1>1
  <2>2. /\ wait[i] \in DOMAIN asks /\ asks[wait[i]].from = i /\ "from" \notin asks[wait[i]].gone
        /\ asks[wait[i]].status = "open" /\ asks[wait[i]].row = "open"
    BY <1>1, <2>1 DEF WaitInv, WaitingHasItsWait, Sent, Open
  <2> QED  BY <1>2, <1>4, <2>2
<1>9. NoneAsksItself'  BY <1>1, <1>2, <1>5 DEF WaitInv, NoneAsksItself
<1>10. AnswersStay  BY <1>1, <1>2 DEF AnswersStay
<1> QED  BY <1>6, <1>7, <1>8, <1>9, <1>10 DEF Good, WaitInv

\* Nothing is held after it: every wait a stop set aside is in force again.
LEMMA LiftStep ==
    ASSUME TypeOK, WaitInv, NEW again \in BOOLEAN, Lift(again)
    PROVE  Good
<1> PICK reopened : reopened = {i \in stopped : again /\ state[i] # "closed" /\ seg[i] = "none"}  OBVIOUS
<1> DEFINE restored == [k \in DOMAIN asks |-> [asks[k] EXCEPT !.row = BroughtBack(@)]]
           readBy(k, part) == /\ asks[k][part] = "queued"
                              /\ \E i \in reopened : <<k, part>> \in OnItem(i)
           request(k) == IF readBy(k, "request") THEN "read" ELSE restored[k].request
           result(k) == IF readBy(k, "result") THEN "read" ELSE restored[k].result
           g == [k \in DOMAIN asks |-> [restored[k] EXCEPT !.request = request(k), !.result = result(k)]]
<1>1. /\ hold' = {} /\ stopped' = {}
      /\ seg' = [i \in Items |-> IF i \in reopened THEN "works" ELSE seg[i]]
      /\ asks' = g
      /\ wake' = [i \in Items |-> wake[i] /\ i \notin reopened]
      /\ UNCHANGED <<wait, archived, used>>
  BY DEF Lift
<1>2. /\ state' \in [Items -> States]
      /\ \A i \in Items : state'[i] # state[i] => state'[i] = "queued"
  BY DEF Lift, TypeOK, States
<1>3. \A k \in DOMAIN asks :
         /\ g[k] \in Ask /\ g[k].from = asks[k].from /\ g[k].to = asks[k].to /\ g[k].gone = asks[k].gone
         /\ g[k].status = asks[k].status /\ g[k].row = BroughtBack(asks[k].row)
         /\ g[k].request # asks[k].request => asks[k].request = "queued" /\ g[k].request = "read"
         /\ g[k].result # asks[k].result => asks[k].result = "queued" /\ g[k].result = "read"
  <2> TAKE k \in DOMAIN asks
  <2>1. asks[k] \in Ask  BY Rows
  <2> PICK row : row = BroughtBack(asks[k].row)  OBVIOUS
  <2>2. row \in {"none", "open", "set_aside", "void"}  BY <2>1 DEF BroughtBack, Ask
  <2>3. restored[k] = [asks[k] EXCEPT !.row = row]  OBVIOUS
  <2>4. /\ restored[k] \in Ask /\ restored[k].from = asks[k].from /\ restored[k].to = asks[k].to
        /\ restored[k].gone = asks[k].gone /\ restored[k].status = asks[k].status
        /\ restored[k].row = row /\ restored[k].request = asks[k].request
        /\ restored[k].result = asks[k].result
    <3> HIDE DEF restored
    <3> QED  BY <2>1, <2>2, <2>3 DEF Ask
  <2>5. readBy(k, "request") => asks[k].request = "queued"  OBVIOUS
  <2>6. readBy(k, "result") => asks[k].result = "queued"  OBVIOUS
  <2> HIDE DEF readBy, restored
  <2>7. /\ request(k) \in Mail /\ (request(k) # asks[k].request => asks[k].request = "queued" /\ request(k) = "read")
        /\ result(k) \in Mail /\ (result(k) # asks[k].result => asks[k].result = "queued" /\ result(k) = "read")
    BY <2>1, <2>4, <2>5, <2>6 DEF Ask, Mail
  <2>8. g[k] = [restored[k] EXCEPT !.request = request(k), !.result = result(k)]  OBVIOUS
  <2> HIDE DEF g, request, result
  <2> PICK r \in Ask : r = restored[k]  BY <2>4
  <2>9. /\ g[k] \in Ask /\ g[k].from = restored[k].from /\ g[k].to = restored[k].to
        /\ g[k].gone = restored[k].gone /\ g[k].status = restored[k].status /\ g[k].row = restored[k].row
        /\ g[k].request = request(k) /\ g[k].result = result(k)
    <3> PICK q \in Mail, w \in Mail : q = request(k) /\ w = result(k)  BY <2>7
    <3>1. g[k] = [r EXCEPT !.request = q, !.result = w]  BY <2>8
    <3> QED  BY <3>1 DEF Ask
  <2>10. g[k].from = asks[k].from /\ g[k].to = asks[k].to /\ g[k].gone = asks[k].gone
         /\ g[k].status = asks[k].status /\ g[k].row = row
    BY <2>4, <2>9
  <2> HIDE DEF BroughtBack
  <2> QED  BY <2>7, <2>9, <2>10
<1>4. g = [k \in DOMAIN asks |-> g[k]]  OBVIOUS
<1> HIDE DEF g, request, result, readBy, restored
<1>5. g \in Seq(Ask) /\ Len(g) = Len(asks) /\ DOMAIN g = DOMAIN asks  BY <1>3, <1>4, Rewritten
<1>6. \A k \in DOMAIN asks : g[k].row = IF asks[k].row = "set_aside" THEN "open" ELSE asks[k].row
  BY <1>3 DEF BroughtBack
<1>7. TypeOK'
  <2>1. seg' \in [Items -> Segments]  BY <1>1 DEF TypeOK, Segments
  <2>2. \A i \in Items : Live(i)' => state'[i] # "closed"  BY <1>1, <1>2 DEF TypeOK, Live
  <2>3. wake' \in [Items -> BOOLEAN]  BY <1>1 DEF TypeOK
  <2>4. hold' \subseteq Items /\ stopped' \subseteq hold'  BY <1>1
  <2> QED  BY <1>1, <1>2, <1>5, <2>1, <2>2, <2>3, <2>4 DEF TypeOK
<1>8. SettledTogether'
  <2> SUFFICES ASSUME NEW k \in DOMAIN asks
               PROVE  /\ g[k].status = "open" <=> g[k].result = "none"
                      /\ g[k].status # "open" => g[k].request # "queued" /\ g[k].row \in {"none", "void"}
                      /\ g[k].row # "set_aside"
    BY <1>1, <1>5 DEF SettledTogether, Open
  <2>1. /\ asks[k].status = "open" <=> asks[k].result = "none"
        /\ asks[k].status # "open" => asks[k].request # "queued" /\ asks[k].row \in {"none", "void"}
    BY DEF WaitInv, SettledTogether, Open
  <2> QED  BY <1>3, <1>6, <2>1
<1>9. WaitingHasItsWait'
  <2> SUFFICES ASSUME NEW i \in Items, state'[i] = "waiting"
               PROVE  /\ wait[i] \in DOMAIN asks /\ g[wait[i]].from = i /\ "from" \notin g[wait[i]].gone
                      /\ g[wait[i]].status = "open" /\ g[wait[i]].row = "open"
    BY <1>1, <1>5 DEF WaitingHasItsWait, Sent, Open
  <2>1. state[i] = "waiting"  BY <1>2
  <2>2. /\ wait[i] \in DOMAIN asks /\ asks[wait[i]].from = i /\ "from" \notin asks[wait[i]].gone
        /\ asks[wait[i]].status = "open" /\ asks[wait[i]].row \in {"open", "set_aside"}
    BY <2>1 DEF WaitInv, WaitingHasItsWait, Sent, Open
  <2> QED  BY <1>3, <1>6, <2>2
<1>10. NoneAsksItself'  BY <1>1, <1>3, <1>5 DEF WaitInv, NoneAsksItself
<1>11. AnswersStay  BY <1>1, <1>3 DEF AnswersStay
<1> QED  BY <1>7, <1>8, <1>9, <1>10, <1>11 DEF Good, WaitInv

-----------------------------------------------------------------------------
LEMMA InitGood ==
    Init => TypeOK /\ WaitInv
<1> SUFFICES ASSUME Init PROVE TypeOK /\ WaitInv  OBVIOUS
<1>1. asks \in Seq(Ask) /\ Len(asks) = 0 /\ DOMAIN asks = {}  BY DEF Init
<1>2. TypeOK
  <2>1. NoAsk \in NoAsk..MaxAsks /\ MaxAsks \in Nat  BY DelegationsAssumption DEF NoAsk
  <2>2. state \in [Items -> States] /\ seg \in [Items -> Segments]  BY DEF Init, States, Segments
  <2>3. wait \in [Items -> NoAsk..MaxAsks] /\ wake \in [Items -> BOOLEAN]  BY <2>1 DEF Init
  <2>4. \A i \in Items : ~Live(i)  BY DEF Init, Live
  <2>5. used \in [stops : 0..MaxStops, lines : 0..MaxLines]  BY DelegationsAssumption DEF Init
  <2>6. Len(asks) <= MaxAsks  BY <1>1, <2>1
  <2>7. hold \subseteq Items /\ stopped \subseteq hold /\ archived \subseteq Items  BY DEF Init
  <2> QED  BY <1>1, <2>2, <2>3, <2>4, <2>5, <2>6, <2>7 DEF TypeOK
<1>3. SettledTogether /\ NoneAsksItself  BY <1>1 DEF SettledTogether, NoneAsksItself
<1>4. WaitingHasItsWait  BY DEF Init, WaitingHasItsWait
<1> QED  BY <1>2, <1>3, <1>4 DEF WaitInv

LEMMA StepGood ==
    TypeOK /\ WaitInv /\ [Next]_vars => Good
<1> SUFFICES ASSUME TypeOK, WaitInv, [Next]_vars PROVE Good  OBVIOUS
<1>1. ASSUME NEW i \in Items, NEW j \in Items, NEW expects \in {"answer", "deliverable"},
             NEW continue \in BOOLEAN, AskFor(i, j, expects, continue)
      PROVE  Good
  BY <1>1, AskForStep
<1>2. ASSUME NEW i \in Items, NEW replies \in BOOLEAN,
             NEW outcome \in {"ends", "blocked", "needs_attention"}, EndTurn(i, replies, outcome)
      PROVE  Good
  BY <1>2, EndTurnStep
<1>3. ASSUME NEW i \in Items, ReadOn(i) \/ TurnOver(i) \/ CutOff(i) \/ GoToTicket(i)
      PROVE  Good
  BY <1>3, ReadOnStep, TurnOverStep, CutOffStep, GoToTicketStep
<1>4. ASSUME NEW i \in Items, Approved(i) \/ Archive(i) \/ YourLine(i) \/ Dispatch(i)
      PROVE  Good
  BY <1>4, ApprovedStep, ArchiveStep, YourLineStep, DispatchStep
<1>5. ASSUME NEW i \in Items, RepairWait(i) \/ Requeue(i) \/ PickUp(i) \/ CallBack(i)
      PROVE  Good
  BY <1>5, RepairWaitStep, RequeueStep, PickUpStep, CallBackStep
<1>6. ASSUME NEW i \in Items, Stop(i)  PROVE Good  BY <1>6, StopStep
<1>7. ASSUME NEW again \in BOOLEAN, Lift(again)  PROVE Good  BY <1>7, LiftStep
<1>8. CASE UNCHANGED vars
  <2>1. UNCHANGED <<state, wait, seg, asks, wake, hold, stopped, archived, used>>  BY <1>8 DEF vars
  <2>2. AsksStep({}, {})  BY <2>1, SameAsks
  <2>3. WaitInv' /\ AnswersStay  BY <2>1, <2>2, KeepsAll
  <2>4. TypeOK'  BY <2>1 DEF TypeOK, Live
  <2> QED  BY <2>3, <2>4 DEF Good
<1> QED  BY <1>1, <1>2, <1>3, <1>4, <1>5, <1>6, <1>7, <1>8 DEF Next

\* The variables keep their types: a segment at work is never on work that was
\* closed, and a stop covers work there is.
THEOREM TypeCorrect == Spec => []TypeOK
<1>1. Init => TypeOK /\ WaitInv  BY InitGood
<1>2. (TypeOK /\ WaitInv) /\ [Next]_vars => (TypeOK /\ WaitInv)'  BY StepGood DEF Good
<1> QED  BY <1>1, <1>2, PTL DEF Spec

\* A request is settled together with what stands on it: its answer is sent, its
\* mail is out of the line and its wait is void, whether it is a reply, an approval
\* or an archived Bot that settles it, and whether or not a stop set its wait aside.
THEOREM Settled == Spec => []SettledTogether
<1>1. Init => TypeOK /\ WaitInv  BY InitGood
<1>2. (TypeOK /\ WaitInv) /\ [Next]_vars => (TypeOK /\ WaitInv)'  BY StepGood DEF Good
<1>3. WaitInv => SettledTogether  BY DEF WaitInv
<1> QED  BY <1>1, <1>2, <1>3, PTL DEF Spec

\* Work that waits has its wait: an open request of its own, in force, or set aside
\* by the stop that holds the work.
THEOREM WaitsStand == Spec => []WaitingHasItsWait
<1>1. Init => TypeOK /\ WaitInv  BY InitGood
<1>2. (TypeOK /\ WaitInv) /\ [Next]_vars => (TypeOK /\ WaitInv)'  BY StepGood DEF Good
<1>3. WaitInv => WaitingHasItsWait  BY DEF WaitInv
<1> QED  BY <1>1, <1>2, <1>3, PTL DEF Spec

\* A request has one answer: what settled it stands, and an answer that was read is
\* never in line again, by a second reply, a cancellation or a lift.
THEOREM OneAnswer == Spec => AnsweredOnce
<1>1. Init => TypeOK /\ WaitInv  BY InitGood
<1>2. (TypeOK /\ WaitInv) /\ [Next]_vars => (TypeOK /\ WaitInv)'  BY StepGood DEF Good
<1>3. (TypeOK /\ WaitInv) /\ [Next]_vars =>
          [\A k \in DOMAIN asks : ~Open(k) =>
              /\ asks'[k].status = asks[k].status
              /\ asks[k].result = "read" => asks'[k].result = "read"]_vars
  BY StepGood DEF Good, AnswersStay
<1> QED  BY <1>1, <1>2, <1>3, PTL DEF Spec, AnsweredOnce
=============================================================================
