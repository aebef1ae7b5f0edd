------------------------ MODULE WorkKernelStops_proofs ------------------------
(* A stop stops what it covers: no segment that can work is live under one.     *)
(* A stop is asked of a turn through the line that woke it and, when it stops   *)
(* one turn, through that turn; so the argument needs that what a row names has *)
(* been written, and is not written again.                                      *)
EXTENDS WorkKernel_proofs

\* Lines that a turn, an inbox row, a stop or the rest of a handler names have been said.
TurnsKnown == \A t \in Turns : turns[t].status # "none" => turns[t].trigger <= said
MailKnown == \A m \in Mails : mail[m].state # "none" => mail[m].line <= said
KeptKnown == \A h \in Scopes : \A l \in answered[h] : l <= said
TodoKnown == todo.route <= said /\ \A l \in todo.takeup : l <= said
\* A stop on one turn names a turn that was there to stop.
HoldsKnown == \A h \in holds : h.kind = "turn" => turns[h.turn].status # "none"

StopsInv ==
    TurnsKnown /\ MailKnown /\ KeptKnown /\ TodoKnown /\ HoldsKnown /\ StopsHold

-------------------------------------------------------------------------------
(* What a step does to the rows that name lines, and to the segments at work. *)

\* A segment that goes on: on the same job, or on one no stop covers.
Stays(t) ==
    /\ Live(t) /\ turns[t].mode # "readonly"
    /\ turns'[t].bot = turns[t].bot /\ turns'[t].trigger = turns[t].trigger
    /\ \/ turns'[t].job = turns[t].job
       \/ Covering(turns[t].bot, turns'[t].job, {t, lines[turns[t].trigger].of}) = {}
\* One that opens where no stop covers its line.
Opens(t) ==
    /\ turns[t].status = "none"
    /\ Covering(turns'[t].bot, turns'[t].job, {lines'[turns'[t].trigger].of}) = {}

TurnsGoOn(L) == \A t \in Turns :
    /\ turns[t].status # "none" => turns'[t].status # "none"
    /\ turns'[t].status # "none" =>
          \/ turns[t].status # "none" /\ turns'[t].trigger = turns[t].trigger
          \/ turns'[t].trigger \in L
    /\ Live(t)' => Live(t) \/ turns[t].status = "none"
    /\ Live(t)' /\ turns'[t].mode # "readonly" => Stays(t) \/ Opens(t)
MailGoesOn(L) == \A m \in Mails : mail'[m].state # "none" =>
    \/ mail[m].state # "none" /\ mail'[m].line = mail[m].line
    \/ mail'[m].line \in L
KeptGoesOn(L) == \A h \in Scopes : \A l \in answered'[h] : l \in answered[h] \/ l \in L
\* What was said stays said, and by whom.
LinesStay == said <= said' /\ \A l \in Lines : l <= said => lines'[l].of = lines[l].of

GoesOn(L) == TurnsGoOn(L) /\ MailGoesOn(L) /\ KeptGoesOn(L)
StopsStep == LinesStay /\ TodoKnown' /\ \E L \in SUBSET (1..said') : GoesOn(L)

\* Under the stops that were there, or fewer, such a step keeps the invariant.
LEMMA StopsKept ==
    ASSUME TypeOK, TypeOK', StopsInv, StopsStep, holds' \subseteq holds
    PROVE  StopsInv'
<1> PICK L \in SUBSET (1..said') : GoesOn(L)  BY DEF StopsStep
<1>0. /\ said \in Nat /\ said' \in Nat /\ said <= said'
      /\ \A l \in L : l \in Nat /\ l <= said'
      /\ \A t \in Turns : turns[t].trigger \in Lines /\ turns'[t].trigger \in Lines
      /\ \A m \in Mails : mail[m].line \in Lines
      /\ \A h \in Scopes : answered[h] \subseteq Lines
      /\ Lines \subseteq Nat
      /\ holds \subseteq Scopes
    BY DEF TypeOK, StopsStep, LinesStay, TurnRow, MailRow, Lines
<1> DEFINE known(l) == l \in Nat /\ l <= said
<1>a. \A l : known(l) \/ l \in L => l <= said'
    <2>1. said \in Nat /\ said' \in Nat /\ said <= said'  BY <1>0
    <2>2. \A l : l \in Nat /\ l <= said => l <= said'  BY <2>1
    <2>3. \A l \in L : l <= said'  BY <1>0
    <2> QED BY <2>2, <2>3
<1> HIDE DEF known
<1>1. TurnsKnown'
    <2> SUFFICES ASSUME NEW t \in Turns, turns'[t].status # "none"
                 PROVE  turns'[t].trigger <= said'
        BY DEF TurnsKnown
    <2>1. turns[t].status # "none" => known(turns[t].trigger)
        BY <1>0 DEF known, StopsInv, TurnsKnown
    <2>2. \/ turns[t].status # "none" /\ turns'[t].trigger = turns[t].trigger
          \/ turns'[t].trigger \in L
        BY DEF GoesOn, TurnsGoOn
    <2> QED BY <1>a, <2>1, <2>2
<1>2. MailKnown'
    <2> SUFFICES ASSUME NEW m \in Mails, mail'[m].state # "none"
                 PROVE  mail'[m].line <= said'
        BY DEF MailKnown
    <2>1. mail[m].state # "none" => known(mail[m].line)
        BY <1>0 DEF known, StopsInv, MailKnown
    <2>2. \/ mail[m].state # "none" /\ mail'[m].line = mail[m].line
          \/ mail'[m].line \in L
        BY DEF GoesOn, MailGoesOn
    <2> QED BY <1>a, <2>1, <2>2
<1>3. KeptKnown'
    <2> SUFFICES ASSUME NEW h \in Scopes, NEW l \in answered'[h]
                 PROVE  l <= said'
        BY DEF KeptKnown
    <2>1. l \in answered[h] => known(l)
        BY <1>0 DEF known, StopsInv, KeptKnown
    <2>2. l \in answered[h] \/ l \in L  BY DEF GoesOn, KeptGoesOn
    <2> QED BY <1>a, <2>1, <2>2
<1>4. HoldsKnown'
    <2> SUFFICES ASSUME NEW h \in holds, h.kind = "turn"
                 PROVE  turns'[h.turn].status # "none"
        BY DEF HoldsKnown
    <2>1. h.turn \in Turns  BY <1>0, KernelAssumption DEF Scope
    <2> QED BY <2>1 DEF StopsInv, HoldsKnown, GoesOn, TurnsGoOn
<1>5. StopsHold'
    <2> SUFFICES ASSUME NEW t \in Turns, Live(t)', turns'[t].mode # "readonly", NEW h \in holds
                 PROVE  ~Covers(h, turns'[t].bot, turns'[t].job,
                                {t, lines'[turns'[t].trigger].of})
        BY DEF StopsHold, TurnHeld, Covering, Covers
    <2>0. Stays(t) \/ Opens(t)  BY DEF GoesOn, TurnsGoOn
    <2>1. CASE Stays(t)
        <3>1. lines'[turns'[t].trigger].of = lines[turns[t].trigger].of
            BY <1>0, <2>1 DEF Stays, StopsStep, LinesStay, StopsInv, TurnsKnown, Live
        <3>2. Covering(turns[t].bot, turns[t].job, {t, lines[turns[t].trigger].of}) = {}
            BY <2>1 DEF Stays, StopsInv, StopsHold, TurnHeld
        <3> QED BY <2>1, <3>1, <3>2 DEF Stays, Covering
    <2>2. CASE Opens(t)
        <3>1. h.kind = "turn" => h.turn # t
            BY <2>2 DEF Opens, StopsInv, HoldsKnown
        <3> QED BY <2>2, <3>1 DEF Opens, Covering, Covers
    <2> QED BY <2>0, <2>1, <2>2
<1> QED BY <1>1, <1>2, <1>3, <1>4, <1>5 DEF StopsInv, StopsStep

-------------------------------------------------------------------------------
(* The writes that several handlers share. *)

LEMMA SameTurnsGoOn ==
    ASSUME UNCHANGED turns, NEW L
    PROVE  TurnsGoOn(L)
BY DEF TurnsGoOn, Stays, Live

LEMMA SameMailGoesOn ==
    ASSUME UNCHANGED mail, NEW L
    PROVE  MailGoesOn(L)
BY DEF MailGoesOn

LEMMA SameKeptGoesOn ==
    ASSUME UNCHANGED answered, NEW L
    PROVE  KeptGoesOn(L)
BY DEF KeptGoesOn

LEMMA SameLinesStay ==
    ASSUME TypeOK, UNCHANGED <<lines, said>>
    PROVE  LinesStay
BY DEF LinesStay, TypeOK

LEMMA SayStays ==
    ASSUME TypeOK, NEW b, NEW j, NEW yours, NEW of, Say(b, j, yours, of)
    PROVE  /\ LinesStay /\ said + 1 \in 1..said' /\ said + 1 \in Lines
           /\ lines'[said + 1].of = of
<1>1. said \in 0..MaxLines /\ MaxLines \in Nat /\ said + 1 <= MaxLines
    BY KernelAssumption DEF TypeOK, Say, Room
<1>2. said + 1 \in Lines /\ said' = said + 1  BY <1>1 DEF Lines, Say
<1>3. \A l \in Lines : l <= said => l # said + 1  BY <1>1 DEF Lines
<1> QED BY <1>1, <1>2, <1>3 DEF TypeOK, Say, LinesStay

\* Inbox rows change state, item and turn, and keep their line.
RowsKept(ms, ns) == \A m \in Mails :
    ns[m].state # "none" => ms[m].state # "none" /\ ns[m].line = ms[m].line

LEMMA RefreshKeepsRows ==
    ASSUME NEW ms \in [Mails -> MailRow], NEW ts, NEW hs, NEW bs
    PROVE  RowsKept(ms, RefreshMail(ts, ms, hs, bs))
BY DEF RowsKept, RefreshMail, MailRow

LEMMA AdoptedKeepsRows ==
    ASSUME NEW ms \in [Mails -> MailRow], NEW ts, NEW t
    PROVE  RowsKept(ms, Adopted(ts, ms, t))
BY DEF RowsKept, Adopted, MailRow

LEMMA LiftedGoesOn ==
    ASSUME TypeOK, NEW hs, NEW L, Lifted(hs)
    PROVE  MailGoesOn(L) /\ KeptGoesOn(L) /\ holds' \subseteq holds
<1>1. RowsKept(mail, mail')  BY RefreshKeepsRows DEF TypeOK, Lifted
<1>2. KeptGoesOn(L)  BY DEF KeptGoesOn, Lifted
<1> QED BY <1>1, <1>2 DEF RowsKept, MailGoesOn, Lifted

\* createTurn writes a turn no stop turns away, and takes over mail that was there.
LEMMA OpenGoesOn ==
    ASSUME TypeOK, NEW b \in Bots, NEW j \in Places, NEW l \in Lines, NEW mark,
           NEW from \in [Turns -> TurnRow],
           \A u \in Turns : \E n \in BOOLEAN : from[u] = [turns[u] EXCEPT !.note = n],
           OpenTurn(from, b, j, l, mark), Covering(b, j, {lines'[l].of}) = {}
    PROVE  TurnsGoOn({l}) /\ MailGoesOn({l})
<1> DEFINE Row(i) == [status |-> "running", bot |-> b, job |-> j, item |-> i, trigger |-> l,
                      mode |-> IF j = Desk THEN "desk" ELSE "work",
                      ended |-> FALSE, note |-> FALSE]
           Rows(t, i) == [from EXCEPT ![t] = Row(i)]
<1> PICK t \in Turns, i \in Items :
        /\ IsNewTurn(t)
        /\ turns' = Rows(t, i)
        /\ mail' = Adopted(Rows(t, i), RefreshMail(Rows(t, i), mail, holds, {b}), t)
    BY DEF OpenTurn
<1>0. turns \in [Turns -> TurnRow] /\ mail \in [Mails -> MailRow] /\ items \in [Items -> ItemRow]
    BY DEF TypeOK
<1>1. TurnsGoOn({l})
    <2>1. turns[t].status = "none"  BY DEF IsNewTurn, Least
    <2>2. turns'[t] = Row(i)  OBVIOUS
    <2>3. Opens(t)  BY <2>1, <2>2 DEF Opens
    <2>4. \A u \in Turns \ {t} :
             /\ turns'[u].status = turns[u].status /\ turns'[u].trigger = turns[u].trigger
             /\ turns'[u].bot = turns[u].bot /\ turns'[u].job = turns[u].job
             /\ turns'[u].mode = turns[u].mode
        BY <1>0 DEF TurnRow
    <2>5. turns'[t].trigger = l /\ turns'[t].status = "running"  BY <2>2
    <2> QED BY <2>1, <2>3, <2>4, <2>5 DEF TurnsGoOn, Stays, Live
<1>2. MailGoesOn({l})
    <2> DEFINE ms == RefreshMail(Rows(t, i), mail, holds, {b})
               ts == Rows(t, i)
    <2>0. mail' = Adopted(ts, ms, t)  OBVIOUS
    <2>1. RowsKept(mail, ms) /\ ms \in [Mails -> MailRow]
        BY <1>0, RefreshKeepsRows, RefreshTyped
    <2> HIDE DEF ms, ts
    <2>2. RowsKept(ms, Adopted(ts, ms, t))  BY <2>1, AdoptedKeepsRows
    <2> QED BY <2>0, <2>1, <2>2 DEF RowsKept, MailGoesOn
<1> QED BY <1>1, <1>2

LEMMA ReadOnlyGoesOn ==
    ASSUME TypeOK, NEW b \in Bots, NEW l \in Lines, NEW from \in [Turns -> TurnRow],
           \A u \in Turns : \E n \in BOOLEAN : from[u] = [turns[u] EXCEPT !.note = n],
           OpenReadOnly(from, b, l)
    PROVE  TurnsGoOn({l}) /\ MailGoesOn({l})
<1> PICK t \in Turns :
        /\ IsNewTurn(t)
        /\ turns' = [from EXCEPT ![t] =
            [status |-> "running", bot |-> b, job |-> Desk, item |-> 0, trigger |-> l,
             mode |-> "readonly", ended |-> FALSE, note |-> FALSE]]
    BY DEF OpenReadOnly
<1>1. \A u \in Turns \ {t} :
         /\ turns'[u].status = turns[u].status /\ turns'[u].trigger = turns[u].trigger
         /\ turns'[u].bot = turns[u].bot /\ turns'[u].job = turns[u].job
         /\ turns'[u].mode = turns[u].mode
    BY DEF TypeOK, TurnRow
<1>2. /\ turns'[t].trigger = l /\ turns'[t].status = "running" /\ turns'[t].mode = "readonly"
      /\ turns[t].status = "none"
    BY DEF IsNewTurn, Least
<1>3. TurnsGoOn({l})  BY <1>1, <1>2 DEF TurnsGoOn, Stays, Live
<1> QED BY <1>3, SameMailGoesOn DEF OpenReadOnly

LEMMA PutGoesOn ==
    ASSUME TypeOK, NEW m, NEW row, NEW l, row.line = l, PutMail(m, row)
    PROVE  MailGoesOn({l})
BY DEF PutMail, MailGoesOn, TypeOK

LEMMA HearGoesOn ==
    ASSUME TypeOK, NEW t, NEW l, HearIn(t, l)
    PROVE  MailGoesOn({l})
<1> DEFINE row == [state |-> "queued", bot |-> turns[t].bot, item |-> 0, line |-> l, turn |-> t,
                   job |-> IF lines[l].job = Desk THEN turns[t].job ELSE lines[l].job]
<1> PICK m \in Mails : PutMail(m, row)  BY DEF HearIn
<1>1. row.line = l  OBVIOUS
<1> QED BY <1>1, PutGoesOn

LEMMA QueueGoesOn ==
    ASSUME TypeOK, NEW b, NEW j, NEW l, QueueWork(b, j, l)
    PROVE  MailGoesOn({l})
<1>1. \/ UNCHANGED mail
      \/ \E m \in Mails, i \in Items :
             PutMail(m, [state |-> "queued", bot |-> b, job |-> j,
                         turn |-> 0, item |-> i, line |-> l])
    BY DEF QueueWork
<1>2. CASE \E m \in Mails, i \in Items :
             PutMail(m, [state |-> "queued", bot |-> b, job |-> j,
                         turn |-> 0, item |-> i, line |-> l])
    <2> PICK m \in Mails, i \in Items :
             PutMail(m, [state |-> "queued", bot |-> b, job |-> j,
                         turn |-> 0, item |-> i, line |-> l])
        BY <1>2
    <2> DEFINE row == [state |-> "queued", bot |-> b, job |-> j, turn |-> 0, item |-> i, line |-> l]
    <2>1. row.line = l  OBVIOUS
    <2> QED BY <2>1, PutGoesOn
<1> QED BY <1>1, <1>2, SameMailGoesOn

LEMMA NothingGoesOn ==
    ASSUME NothingOpens, NEW L
    PROVE  GoesOn(L)
BY SameTurnsGoOn, SameMailGoesOn, SameKeptGoesOn DEF NothingOpens, NoTurnOpens, GoesOn

LEMMA StartGoesOn ==
    ASSUME TypeOK, NEW b \in Bots, NEW j \in Places, NEW l \in Lines, NEW yourLine,
           StartTurn(b, j, l, yourLine),
           LineHeld(b, j, l) = {} => Covering(b, j, {lines'[l].of}) = {}
    PROVE  GoesOn({l})
<1>0. /\ turns \in [Turns -> TurnRow]
      /\ \A u \in Turns : \E n \in BOOLEAN : turns[u] = [turns[u] EXCEPT !.note = n]
    <2>1. turns \in [Turns -> TurnRow]  BY DEF TypeOK
    <2>2. \A u \in Turns : turns[u] = [turns[u] EXCEPT !.note = turns[u].note]
        BY <2>1 DEF TurnRow
    <2> QED BY <2>1, <2>2 DEF TurnRow
<1>1. CASE OpenReadOnly(turns, b, l) /\ \E hs :
              answered' = [h \in Scopes |-> IF h \in hs THEN answered[h] \cup {l} ELSE answered[h]]
    <2>1. KeptGoesOn({l})  BY <1>1 DEF KeptGoesOn
    <2> QED BY <1>0, <1>1, <2>1, ReadOnlyGoesOn DEF GoesOn
<1>2. CASE NothingOpens  BY <1>2, NothingGoesOn
<1>3. CASE /\ \E t \in HearersAt(b, j) : HearIn(t, l)
           /\ NoTurnOpens /\ UNCHANGED answered
    BY <1>3, HearGoesOn, SameTurnsGoOn, SameKeptGoesOn DEF NoTurnOpens, GoesOn
<1>4. CASE QueueWork(b, j, l) /\ NoTurnOpens /\ UNCHANGED answered
    BY <1>4, QueueGoesOn, SameTurnsGoOn, SameKeptGoesOn DEF NoTurnOpens, GoesOn
<1>5. CASE LineHeld(b, j, l) = {} /\ OpenTurn(turns, b, j, l, FALSE) /\ UNCHANGED answered
    BY <1>0, <1>5, OpenGoesOn, SameKeptGoesOn DEF GoesOn
<1> QED BY <1>1, <1>2, <1>3, <1>4, <1>5 DEF StartTurn

LEMMA HearOrStartGoesOn ==
    ASSUME TypeOK, NEW b \in Bots, NEW j \in Places, NEW l \in Lines, NEW yourLine,
           HearOrStart(b, j, l, yourLine), UNCHANGED lines
    PROVE  GoesOn({l})
<1>1. CASE NothingOpens  BY <1>1, NothingGoesOn
<1>2. CASE /\ \E t \in Listening(b, j) : HearIn(t, l)
           /\ NoTurnOpens /\ UNCHANGED answered
    BY <1>2, HearGoesOn, SameTurnsGoOn, SameKeptGoesOn DEF NoTurnOpens, GoesOn
<1>3. CASE StartTurn(b, j, l, yourLine)  BY <1>3, StartGoesOn DEF LineHeld
<1> QED BY <1>1, <1>2, <1>3 DEF HearOrStart

LEMMA ClaimGoesOn ==
    ASSUME TypeOK, NEW t \in Turns, Claim(t)
    PROVE  LinesStay /\ \E L \in SUBSET (1..said') : GoesOn(L)
<1> DEFINE b == turns[t].bot
           j == turns[t].job
           l == said + 1
           claimed == [turns EXCEPT ![t].note = FALSE]
<1>0. turns \in [Turns -> TurnRow] /\ turns[t] \in TurnRow /\ b \in Bots /\ j \in Places
    BY DEF TypeOK, TurnRow
<1>1. /\ claimed \in [Turns -> TurnRow]
      /\ \A u \in Turns : \E n \in BOOLEAN : claimed[u] = [turns[u] EXCEPT !.note = n]
    <2>1. \A u \in Turns : turns[u] = [turns[u] EXCEPT !.note = turns[u].note]
        BY <1>0 DEF TurnRow
    <2>2. \A u \in Turns : \/ claimed[u] = turns[u]
                           \/ claimed[u] = [turns[u] EXCEPT !.note = FALSE]
        BY <1>0
    <2> QED BY <1>0, <2>1, <2>2 DEF TurnRow
<1>2. CASE NothingOpens /\ UNCHANGED <<lines, said>>
    <2>1. GoesOn({})  BY <1>2, NothingGoesOn
    <2> QED BY <1>2, <2>1, SameLinesStay
<1>3. CASE ~(NothingOpens /\ UNCHANGED <<lines, said>>)
    <2>1. Covering(b, j, {t}) = {} /\ Say(b, j, FALSE, t) /\ UNCHANGED answered
        BY <1>3 DEF Claim
    <2>2. LinesStay /\ l \in 1..said' /\ l \in Lines /\ Covering(b, j, {lines'[l].of}) = {}
        BY <2>1, SayStays
    <2>3. KeptGoesOn({l})  BY <2>1, SameKeptGoesOn
    <2>4. CASE OpenReadOnly(claimed, b, l)
        <3> HIDE DEF claimed, l
        <3> QED BY <1>0, <1>1, <2>2, <2>3, <2>4, ReadOnlyGoesOn DEF GoesOn
    <2>5. CASE OpenTurn(claimed, b, j, l, FALSE)
        <3> HIDE DEF claimed, l
        <3> QED BY <1>0, <1>1, <2>2, <2>3, <2>5, OpenGoesOn DEF GoesOn
    <2>6. CASE /\ QueueWork(b, j, l)
               /\ \E u \in Turns, i \in Items :
                     /\ IsNewTurn(u)
                     /\ turns' = [claimed EXCEPT ![u] =
                               [turns[t] EXCEPT !.status = "completed", !.item = i,
                                                !.trigger = l, !.note = FALSE]]
        <3> PICK u \in Turns, i \in Items :
                     /\ IsNewTurn(u)
                     /\ turns' = [claimed EXCEPT ![u] =
                               [turns[t] EXCEPT !.status = "completed", !.item = i,
                                                !.trigger = l, !.note = FALSE]]
            BY <2>6
        <3>1. /\ turns'[u].status = "completed" /\ turns'[u].trigger = l
              /\ turns[u].status = "none"
            BY <1>0, <1>1 DEF TurnRow, IsNewTurn, Least
        <3>2. \A v \in Turns \ {u} : turns'[v] = claimed[v]  BY <1>1
        <3>3. \A v \in Turns \ {u} :
             /\ turns'[v].status = turns[v].status /\ turns'[v].trigger = turns[v].trigger
             /\ turns'[v].bot = turns[v].bot /\ turns'[v].job = turns[v].job
             /\ turns'[v].mode = turns[v].mode
            <4> HIDE DEF claimed
            <4> QED BY <1>0, <1>1, <3>2 DEF TurnRow
        <3>4. TurnsGoOn({l})
            <4> HIDE DEF l
            <4> QED BY <3>1, <3>3 DEF TurnsGoOn, Stays, Live
        <3>5. MailGoesOn({l})  BY <2>6, QueueGoesOn
        <3> QED BY <2>2, <2>3, <3>4, <3>5 DEF GoesOn
    <2> QED BY <1>3, <2>4, <2>5, <2>6 DEF Claim
<1> QED BY <1>2, <1>3

-------------------------------------------------------------------------------
(* The actions, one by one. *)

\* Turns that only end, or are marked, go on.
LEMMA EndingsGoOn ==
    ASSUME TypeOK, NEW L,
           \A t \in Turns : \/ turns'[t] = turns[t]
                            \/ turns'[t] = [turns[t] EXCEPT !.ended = TRUE]
                            \/ /\ turns'[t].status \notin {"none", "running"}
                               /\ turns[t].status # "none"
                               /\ turns'[t].trigger = turns[t].trigger
    PROVE  TurnsGoOn(L)
<1> SUFFICES ASSUME NEW t \in Turns
             PROVE  /\ turns[t].status # "none" => turns'[t].status # "none"
                    /\ turns'[t].status # "none" =>
                          turns[t].status # "none" /\ turns'[t].trigger = turns[t].trigger
                    /\ Live(t)' => Live(t)
                    /\ Live(t)' /\ turns'[t].mode # "readonly" => Stays(t)
    BY DEF TurnsGoOn
<1>1. turns[t] \in TurnRow  BY DEF TypeOK
<1>2. CASE turns'[t] = turns[t]  BY <1>2 DEF Stays, Live
<1>3. CASE turns'[t] = [turns[t] EXCEPT !.ended = TRUE]
    <2>1. /\ turns'[t].status = turns[t].status /\ turns'[t].trigger = turns[t].trigger
          /\ turns'[t].bot = turns[t].bot /\ turns'[t].job = turns[t].job
          /\ turns'[t].mode = turns[t].mode
        BY <1>1, <1>3 DEF TurnRow
    <2> QED BY <2>1 DEF Stays, Live
<1>4. CASE /\ turns'[t].status \notin {"none", "running"} /\ turns[t].status # "none"
           /\ turns'[t].trigger = turns[t].trigger
    BY <1>4 DEF Stays, Live
<1> QED BY <1>2, <1>3, <1>4

\* Handlers whose rest neither routes nor takes up a line.
LEMMA RestKnown ==
    ASSUME said' \in Nat, todo'.route = 0, todo'.takeup = {}
    PROVE  TodoKnown'
BY DEF TodoKnown

LEMMA UserLineStops ==
    ASSUME TypeOK, NEW b \in Bots, NEW j \in Places, NEW asks \in BOOLEAN, UserLine(b, j, asks)
    PROVE  StopsStep /\ holds' \subseteq holds
<1>1. LinesStay  BY SayStays DEF UserLine
<1>2. GoesOn({}) /\ holds' \subseteq holds
    BY SameTurnsGoOn, LiftedGoesOn DEF UserLine, GoesOn
<1>3. TodoKnown'
    <2>1. todo'.route = said + 1 /\ todo'.takeup = {}  BY DEF UserLine, Nothing
    <2>2. said' = said + 1 /\ said \in Nat  BY DEF UserLine, Say, TypeOK
    <2> QED BY <2>1, <2>2 DEF TodoKnown
<1> QED BY <1>1, <1>2, <1>3 DEF StopsStep

LEMMA RouteStops ==
    ASSUME TypeOK, StopsInv, Route
    PROVE  StopsStep /\ holds' \subseteq holds
<1> DEFINE l == todo.route
<1>1. l \in Lines /\ l \in 1..said'
    BY DEF TypeOK, Todo, Lines, Route, StopsInv, TodoKnown
<1>2. lines[l].bot \in Bots /\ lines[l].job \in Places  BY <1>1 DEF TypeOK, LineRow
<1>3. GoesOn({l})
    BY <1>1, <1>2, StartGoesOn, HearOrStartGoesOn DEF Route, LineHeld
<1>4. LinesStay /\ TodoKnown'
    <2>1. said' \in Nat /\ todo'.route = 0 /\ todo'.takeup = {}
        BY DEF Route, Nothing, TypeOK
    <2> QED BY <2>1, SameLinesStay, RestKnown DEF Route
<1> QED BY <1>1, <1>3, <1>4 DEF StopsStep, Route

LEMMA LiftStops ==
    ASSUME TypeOK, StopsInv, NEW h \in Scopes, Lift(h)
    PROVE  StopsStep /\ holds' \subseteq holds
<1>1. GoesOn({}) /\ holds' \subseteq holds
    BY SameTurnsGoOn, LiftedGoesOn DEF Lift, GoesOn
<1>2. LinesStay  BY SameLinesStay DEF Lift
<1>3. TodoKnown'
    <2>1. todo'.route = 0 /\ todo'.takeup \subseteq answered[h]
        BY DEF Lift, Nothing
    <2> QED BY <2>1 DEF TodoKnown, StopsInv, KeptKnown, Lift, TypeOK
<1> QED BY <1>1, <1>2, <1>3 DEF StopsStep

LEMMA ContinueStops ==
    ASSUME TypeOK, NEW t \in Turns, Continue(t)
    PROVE  StopsStep /\ holds' \subseteq holds
<1>1. GoesOn({}) /\ holds' \subseteq holds
    BY SameTurnsGoOn, LiftedGoesOn DEF Continue, GoesOn
<1>2. LinesStay  BY SameLinesStay DEF Continue
<1>3. TodoKnown'
    <2>1. said' \in Nat /\ todo'.route = 0 /\ todo'.takeup = {}
        BY DEF Continue, Nothing, TypeOK
    <2> QED BY <2>1, RestKnown
<1> QED BY <1>1, <1>2, <1>3 DEF StopsStep

LEMMA ResumeStops ==
    ASSUME TypeOK, StopsInv, Resume
    PROVE  StopsStep /\ holds' \subseteq holds
<1> PICK t \in todo.resume :
        /\ \/ /\ NothingOpens /\ UNCHANGED <<lines, said>>
              /\ todo' = [todo EXCEPT !.resume = @ \ {t}]
           \/ /\ Covering(turns[t].bot, turns[t].job, {t}) = {}
              /\ Say(turns[t].bot, turns[t].job, FALSE, t)
              /\ StartTurn(turns[t].bot, turns[t].job, said + 1, FALSE)
              /\ todo' \in {[todo EXCEPT !.resume = @ \ {t}],
                            [todo EXCEPT !.resume = @ \ {t},
                                         !.takeup = {l \in @ : lines[l].bot # turns[t].bot}]}
        /\ UNCHANGED holds
    BY DEF Resume
<1>1. t \in Turns /\ turns[t].bot \in Bots /\ turns[t].job \in Places
    BY DEF TypeOK, Todo, TurnRow
<1>2. todo'.route = todo.route /\ todo'.takeup \subseteq todo.takeup  BY DEF TypeOK, Todo
<1>3. TodoKnown /\ todo.route \in Nat /\ todo.takeup \subseteq Nat /\ said \in Nat
    BY DEF StopsInv, TypeOK, Todo, Lines
<1>4. CASE NothingOpens /\ UNCHANGED <<lines, said>>
    <2>1. TodoKnown'  BY <1>2, <1>3, <1>4 DEF TodoKnown
    <2>2. GoesOn({}) /\ LinesStay  BY <1>4, NothingGoesOn, SameLinesStay
    <2> QED BY <2>1, <2>2 DEF StopsStep
<1>5. CASE /\ Covering(turns[t].bot, turns[t].job, {t}) = {}
           /\ Say(turns[t].bot, turns[t].job, FALSE, t)
           /\ StartTurn(turns[t].bot, turns[t].job, said + 1, FALSE)
    <2>1. LinesStay /\ said + 1 \in 1..said' /\ said + 1 \in Lines /\ lines'[said + 1].of = t
        BY <1>5, SayStays
    <2>2. GoesOn({said + 1})  BY <1>1, <1>5, <2>1, StartGoesOn
    <2>3. TodoKnown'
        <3>1. said' = said + 1  BY <1>5 DEF Say
        <3> QED BY <1>2, <1>3, <3>1 DEF TodoKnown
    <2> QED BY <2>1, <2>2, <2>3 DEF StopsStep
<1> QED BY <1>4, <1>5

LEMMA TakeUpStops ==
    ASSUME TypeOK, StopsInv, TakeUp
    PROVE  StopsStep /\ holds' \subseteq holds
<1> PICK l \in todo.takeup :
        /\ \/ /\ \E heir : answered' = [answered EXCEPT ![heir] = @ \cup {l}]
              /\ NoTurnOpens /\ UNCHANGED mail
           \/ StartTurn(lines[l].bot, lines[l].job, l, TRUE)
        /\ todo' = [todo EXCEPT !.takeup = @ \ {l}]
        /\ UNCHANGED <<lines, said, holds>>
    BY DEF TakeUp
<1>1. l \in Lines /\ lines[l].bot \in Bots /\ lines[l].job \in Places
    BY DEF TypeOK, Todo, LineRow
<1>2. l \in 1..said'  BY <1>1 DEF StopsInv, TodoKnown, TypeOK, Lines
<1>3. GoesOn({l})
    <2>1. CASE /\ \E heir : answered' = [answered EXCEPT ![heir] = @ \cup {l}]
               /\ NoTurnOpens /\ UNCHANGED mail
        <3>1. KeptGoesOn({l})  BY <2>1 DEF KeptGoesOn, TypeOK
        <3> QED BY <2>1, <3>1, SameTurnsGoOn, SameMailGoesOn DEF GoesOn, NoTurnOpens
    <2>2. CASE StartTurn(lines[l].bot, lines[l].job, l, TRUE)
        BY <1>1, <2>2, StartGoesOn DEF LineHeld
    <2> QED BY <2>1, <2>2
<1>4. TodoKnown'
    <2>1. todo'.route = todo.route /\ todo'.takeup \subseteq todo.takeup  BY DEF TypeOK, Todo
    <2> QED BY <2>1 DEF StopsInv, TodoKnown
<1> QED BY <1>2, <1>3, <1>4, SameLinesStay DEF StopsStep

LEMMA ClaimContinueStops ==
    ASSUME TypeOK, ClaimContinue
    PROVE  StopsStep /\ holds' \subseteq holds
<1>1. todo.claim \in Turns  BY DEF TypeOK, Todo, ClaimContinue
<1>2. TodoKnown'
    <2>1. todo'.route = 0 /\ todo'.takeup = {}  BY DEF ClaimContinue, Nothing
    <2>2. said \in Nat  BY DEF TypeOK
    <2>3. said' = said \/ said' = said + 1
        BY Zenon DEF ClaimContinue, Claim, Say
    <2>4. said' \in Nat  BY <2>2, <2>3
    <2> QED BY <2>1, <2>4, RestKnown
<1> QED BY <1>1, <1>2, ClaimGoesOn DEF StopsStep, ClaimContinue

LEMMA ReadInboxStops ==
    ASSUME TypeOK, StopsInv, NEW t \in Turns, ReadInbox(t)
    PROVE  StopsStep /\ holds' \subseteq holds
<1>1. MailGoesOn({})  BY DEF ReadInbox, MailGoesOn, TypeOK, MailRow
<1>2. TodoKnown'  BY DEF StopsInv, TodoKnown, ReadInbox
<1> QED BY <1>1, <1>2, SameTurnsGoOn, SameKeptGoesOn, SameLinesStay
       DEF ReadInbox, GoesOn, StopsStep

LEMMA WorkOnStops ==
    ASSUME TypeOK, StopsInv, NEW t \in Turns, NEW j \in Jobs, WorkOn(t, j)
    PROVE  StopsStep /\ holds' \subseteq holds
<1> DEFINE b == turns[t].bot
           at == turns[t].job
           l == turns[t].trigger
<1>0. /\ turns \in [Turns -> TurnRow] /\ turns[t] \in TurnRow /\ l \in Lines
      /\ Live(t) /\ turns[t].mode # "readonly" /\ said \in Nat
    <2>1. turns \in [Turns -> TurnRow] /\ said \in Nat  BY DEF TypeOK
    <2>2. turns[t] \in TurnRow /\ l \in Lines  BY <2>1 DEF TurnRow
    <2>3. Live(t) /\ turns[t].mode # "readonly"  BY DEF WorkOn, Active
    <2> QED BY <2>1, <2>2, <2>3
<1>1. l \in 1..said'
    <2>1. l <= said  BY <1>0 DEF StopsInv, TurnsKnown, Live
    <2>2. UNCHANGED said  BY DEF WorkOn
    <2>3. l \in Nat /\ 1 <= l  BY <1>0 DEF Lines
    <2> HIDE DEF l
    <2> QED BY <1>0, <2>1, <2>2, <2>3
<1>2. MailGoesOn({l})
    <2>1. CASE UNCHANGED mail  BY <2>1, SameMailGoesOn
    <2>2. CASE QueueWork(b, j, l)  BY <2>2, QueueGoesOn
    <2>3. CASE \E u \in LiveOn(b, j), m \in Mails :
                  PutMail(m, [state |-> "queued", bot |-> b, job |-> j,
                              turn |-> u, item |-> 0, line |-> l])
        <3> PICK u \in LiveOn(b, j), m \in Mails :
                  PutMail(m, [state |-> "queued", bot |-> b, job |-> j,
                              turn |-> u, item |-> 0, line |-> l])
            BY <2>3
        <3> DEFINE row == [state |-> "queued", bot |-> b, job |-> j,
                           turn |-> u, item |-> 0, line |-> l]
        <3>1. row.line = l  OBVIOUS
        <3> QED BY <3>1, PutGoesOn
    <2> QED BY <2>1, <2>2, <2>3 DEF WorkOn
<1>3. TurnsGoOn({l})
    <2>1. CASE turns' = [turns EXCEPT ![t].ended = TRUE]
        BY <1>0, <2>1, EndingsGoOn
    <2>2. CASE \E i \in Items :
                  turns' = [turns EXCEPT ![t].job = j, ![t].item = i, ![t].mode = "work"]
        <3>1. Covering(b, j, {t, lines[l].of}) = {}  BY DEF WorkOn, MayTakeUp
        <3>2. Stays(t)
            <4>1. turns'[t].bot = b /\ turns'[t].trigger = l /\ turns'[t].job = j
                BY <1>0, <2>2 DEF TurnRow
            <4> QED BY <1>0, <3>1, <4>1 DEF Stays
        <3>3. turns'[t].status = "running" /\ turns'[t].trigger = l
            BY <1>0, <2>2 DEF TurnRow, Live
        <3>4. \A u \in Turns \ {t} : turns'[u] = turns[u]  BY <1>0, <2>2
        <3> QED BY <1>0, <3>2, <3>3, <3>4 DEF TurnsGoOn, Stays, Live
    <2> QED BY <2>1, <2>2 DEF WorkOn
<1>4. LinesStay
    <2>1. UNCHANGED said /\ (UNCHANGED lines \/ lines' = [lines EXCEPT ![l].job = j])
        BY DEF WorkOn
    <2>2. lines \in [Lines -> LineRow]  BY DEF TypeOK
    <2>3. \A k \in Lines : lines'[k].of = lines[k].of
        <3> HIDE DEF l
        <3> QED BY <1>0, <2>1, <2>2 DEF LineRow
    <2> QED BY <1>0, <2>1, <2>3 DEF LinesStay
<1>5. TodoKnown'  BY DEF StopsInv, TodoKnown, WorkOn
<1>6. GoesOn({l})  BY <1>2, <1>3, SameKeptGoesOn DEF WorkOn, GoesOn
<1> QED BY <1>1, <1>4, <1>5, <1>6 DEF StopsStep, WorkOn

LEMMA EndTurnStops ==
    ASSUME TypeOK, StopsInv, NEW t \in Turns, NEW how, EndTurn(t, how)
    PROVE  StopsStep /\ holds' \subseteq holds
<1>1. TurnsGoOn({})
    <2>1. turns' = [turns EXCEPT ![t].ended = TRUE] /\ turns \in [Turns -> TurnRow]
        BY DEF EndTurn, TypeOK
    <2> QED BY <2>1, EndingsGoOn
<1>2. MailGoesOn({})  BY DEF EndTurn, MailGoesOn, TypeOK, MailRow
<1>3. TodoKnown'  BY DEF StopsInv, TodoKnown, EndTurn, process
<1>4. UNCHANGED <<lines, said, holds, answered>>  BY DEF EndTurn
<1> QED BY <1>1, <1>2, <1>3, <1>4, SameKeptGoesOn, SameLinesStay DEF GoesOn, StopsStep

LEMMA CompleteStops ==
    ASSUME TypeOK, StopsInv, NEW t \in Turns, Complete(t)
    PROVE  StopsStep /\ holds' \subseteq holds
<1>1. TurnsGoOn({})
    <2>1. turns' = [turns EXCEPT ![t].status = "completed"] /\ turns \in [Turns -> TurnRow]
          /\ Live(t)
        BY DEF Complete, TypeOK, Active
    <2>2. \A u \in Turns : \/ turns'[u] = turns[u]
                           \/ /\ turns'[u].status = "completed"
                              /\ turns[u].status # "none"
                              /\ turns'[u].trigger = turns[u].trigger
        BY <2>1 DEF TurnRow, Live
    <2> QED BY <2>2, EndingsGoOn
<1>2. TodoKnown'  BY DEF StopsInv, TodoKnown, Complete
<1>3. UNCHANGED <<mail, lines, said, holds, answered>>  BY DEF Complete
<1> QED BY <1>1, <1>2, <1>3, SameMailGoesOn, SameKeptGoesOn, SameLinesStay DEF GoesOn, StopsStep

LEMMA FailStops ==
    ASSUME TypeOK, NEW t \in Turns, NEW yoursToFix, Fail(t, yoursToFix)
    PROVE  StopsStep /\ holds' \subseteq holds
<1>1. TurnsGoOn({})
    <2>1. turns' = [turns EXCEPT ![t].status = "completed", ![t].note = TRUE]
          /\ turns \in [Turns -> TurnRow] /\ Live(t)
        BY DEF Fail, TypeOK, Active
    <2>2. \A u \in Turns : \/ turns'[u] = turns[u]
                           \/ /\ turns'[u].status = "completed"
                              /\ turns[u].status # "none"
                              /\ turns'[u].trigger = turns[u].trigger
        BY <2>1 DEF TurnRow, Live
    <2> QED BY <2>2, EndingsGoOn
<1>2. TodoKnown'
    <2>1. said' \in Nat /\ todo'.route = 0 /\ todo'.takeup = {}
        BY DEF Fail, Nothing, TypeOK
    <2> QED BY <2>1, RestKnown
<1>3. UNCHANGED <<mail, lines, said, holds, answered>>  BY DEF Fail
<1> QED BY <1>1, <1>2, <1>3, SameMailGoesOn, SameKeptGoesOn, SameLinesStay DEF GoesOn, StopsStep

LEMMA SweepStops ==
    ASSUME TypeOK, NEW t \in Turns, Sweep(t)
    PROVE  StopsStep /\ holds' \subseteq holds
<1>1. UNCHANGED <<turns, mail, lines, said, holds, answered>>  BY DEF Sweep, tables
<1>2. TodoKnown'
    <2>1. said' \in Nat /\ todo'.route = 0 /\ todo'.takeup = {}
        BY DEF Sweep, Nothing, TypeOK, tables
    <2> QED BY <2>1, RestKnown
<1>3. GoesOn({})  BY <1>1, SameTurnsGoOn, SameMailGoesOn, SameKeptGoesOn DEF GoesOn
<1> QED BY <1>1, <1>2, <1>3, SameLinesStay DEF StopsStep

LEMMA UnwindStops ==
    ASSUME TypeOK, NEW t \in Turns, Unwind(t)
    PROVE  StopsStep /\ holds' \subseteq holds
<1>0. turns \in [Turns -> TurnRow] /\ mail \in [Mails -> MailRow]  BY DEF TypeOK
<1>1. TurnsGoOn({})
    <2>1. \/ turns' = turns
          \/ Live(t) /\ turns' = [turns EXCEPT ![t].status = "interrupted", ![t].note = TRUE]
        BY DEF Unwind
    <2>2. \A u \in Turns : \/ turns'[u] = turns[u]
                           \/ /\ turns'[u].status = "interrupted"
                              /\ turns[u].status # "none"
                              /\ turns'[u].trigger = turns[u].trigger
        BY <1>0, <2>1 DEF TurnRow, Live
    <2> QED BY <2>2, EndingsGoOn
<1>2. MailGoesOn({})
    <2> DEFINE i == turns[t].item
    <2>1. \A m \in Mails :
            \/ mail'[m] = mail[m]
            \/ mail[m].state = "delivered" /\ mail'[m] = [mail[m] EXCEPT !.state = "unacked"]
            \/ /\ Unread(m)
               /\ mail'[m] = [mail[m] EXCEPT !.item = IF @ = 0 THEN i ELSE @,
                                    !.state = IF MailCovered(holds, mail, m) THEN "held" ELSE @]
        BY DEF Unwind
    <2>2. \A m \in Mails : mail'[m].line = mail[m].line /\
                           (mail'[m].state # "none" => mail[m].state # "none")
        <3> TAKE m \in Mails
        <3>1. mail[m] \in MailRow  BY <1>0
        <3> HIDE DEF i
        <3> QED BY <2>1, <3>1 DEF MailRow, Unread
    <2> QED BY <2>2 DEF MailGoesOn
<1>3. UNCHANGED <<lines, said, holds, answered>>  BY DEF Unwind
<1>4. TodoKnown'
    <2>1. said' \in Nat  BY <1>3 DEF TypeOK
    <2>2. \E x, y : todo' = [Nothing EXCEPT !.reopen = x, !.unheard = y, !.dispatch = TRUE]
        BY DEF Unwind
    <2> QED BY <2>1, <2>2, RestKnown DEF Nothing
<1> QED BY <1>1, <1>2, <1>3, <1>4, SameKeptGoesOn, SameLinesStay DEF GoesOn, StopsStep

LEMMA ReopenStops ==
    ASSUME TypeOK, StopsInv, Reopen
    PROVE  StopsStep /\ holds' \subseteq holds
<1>0. UNCHANGED <<lines, said, holds>>  BY DEF Reopen
<1>1. TodoKnown'
    <2>1. todo'.route = todo.route /\ todo'.takeup = todo.takeup  BY DEF Reopen, TypeOK, Todo
    <2> QED BY <1>0, <2>1 DEF StopsInv, TodoKnown
<1>2. CASE NothingOpens
    <2>1. GoesOn({})  BY <1>2, NothingGoesOn
    <2> QED BY <1>0, <1>1, <2>1, SameLinesStay DEF StopsStep
<1>3. CASE \E m \in todo.unheard :
             /\ Unread(m)
             /\ HearOrStart(turns[todo.reopen].bot, lines[mail[m].line].job, mail[m].line, FALSE)
    <2> PICK m \in todo.unheard :
             /\ Unread(m)
             /\ HearOrStart(turns[todo.reopen].bot, lines[mail[m].line].job, mail[m].line, FALSE)
        BY <1>3
    <2>1. /\ turns[todo.reopen].bot \in Bots /\ m \in Mails
          /\ mail[m].line \in Lines /\ lines[mail[m].line].job \in Places
        BY DEF TypeOK, Todo, TurnRow, Reopen, MailRow, LineRow
    <2>2. mail[m].line <= said  BY <2>1 DEF Unread, StopsInv, MailKnown
    <2>3. mail[m].line \in 1..said'  BY <1>0, <2>1, <2>2 DEF Lines, TypeOK
    <2>4. GoesOn({mail[m].line})  BY <1>0, <2>1, HearOrStartGoesOn
    <2> QED BY <1>0, <1>1, <2>3, <2>4, SameLinesStay DEF StopsStep
<1> QED BY <1>2, <1>3 DEF Reopen

LEMMA AppWorkStops ==
    ASSUME TypeOK, NEW b \in Bots, NEW j \in Jobs, AppWork(b, j)
    PROVE  StopsStep /\ holds' \subseteq holds
<1>1. LinesStay /\ said + 1 \in 1..said'  BY SayStays DEF AppWork
<1>2. MailGoesOn({said + 1})  BY QueueGoesOn DEF AppWork
<1>3. GoesOn({said + 1})
    BY <1>2, SameTurnsGoOn, SameKeptGoesOn DEF AppWork, GoesOn
<1>4. TodoKnown'
    <2>1. said' \in Nat /\ todo'.route = 0 /\ todo'.takeup = {}
        BY DEF AppWork, Say, Nothing, TypeOK
    <2> QED BY <2>1, RestKnown
<1> QED BY <1>1, <1>3, <1>4 DEF StopsStep, AppWork

\* Dispatch and Supervise: rows of items and the rest of the handler alone.
LEMMA QuietStops ==
    ASSUME TypeOK, UNCHANGED <<turns, mail, lines, said, holds, answered>>,
           todo'.route = 0, todo'.takeup = {}
    PROVE  StopsStep /\ holds' \subseteq holds
<1>1. TodoKnown'
    <2>1. said' \in Nat  BY DEF TypeOK
    <2> QED BY <2>1, RestKnown
<1>2. GoesOn({})  BY SameTurnsGoOn, SameMailGoesOn, SameKeptGoesOn DEF GoesOn
<1> QED BY <1>1, <1>2, SameLinesStay DEF StopsStep

LEMMA AdmitStops ==
    ASSUME TypeOK, StopsInv, Admit
    PROVE  StopsStep /\ holds' \subseteq holds
<1> PICK i \in todo.admit :
        /\ \/ /\ Waking(i) # {}
              /\ LineHeld(items[i].bot, items[i].job, mail[Front(i)].line) = {}
              /\ OpenTurn(turns, items[i].bot, items[i].job, mail[Front(i)].line, TRUE)
              /\ UNCHANGED answered
           \/ NothingOpens
        /\ todo' = [todo EXCEPT !.admit = @ \ {i}]
        /\ UNCHANGED <<lines, said, holds>>
    BY DEF Admit, Dispatchable
<1>0. /\ turns \in [Turns -> TurnRow] /\ mail \in [Mails -> MailRow]
      /\ items[i].bot \in Bots /\ items[i].job \in Places
    BY DEF TypeOK, Todo, ItemRow
<1>1. TodoKnown'
    <2>1. todo'.route = todo.route /\ todo'.takeup = todo.takeup  BY DEF TypeOK, Todo
    <2> QED BY <2>1 DEF StopsInv, TodoKnown
<1>2. CASE NothingOpens
    <2>1. GoesOn({})  BY <1>2, NothingGoesOn
    <2> QED BY <1>1, <2>1, SameLinesStay DEF StopsStep
<1>3. CASE /\ Waking(i) # {}
           /\ LineHeld(items[i].bot, items[i].job, mail[Front(i)].line) = {}
           /\ OpenTurn(turns, items[i].bot, items[i].job, mail[Front(i)].line, TRUE)
           /\ UNCHANGED answered
    <2> DEFINE l == mail[Front(i)].line
    <2>1. Front(i) \in Mails /\ mail[Front(i)].state = "queued"
        BY <1>3, FrontIsMail DEF Waking
    <2>2. l \in Lines  BY <1>0, <2>1 DEF MailRow
    <2>3. l <= said  BY <2>1 DEF StopsInv, MailKnown
    <2>4. said' \in Nat /\ said' = said /\ l \in Nat /\ 1 <= l  BY <2>2 DEF Lines, TypeOK
    <2>5. \A u \in Turns : \E n \in BOOLEAN : turns[u] = [turns[u] EXCEPT !.note = n]
        <3>1. \A u \in Turns : turns[u] = [turns[u] EXCEPT !.note = turns[u].note]
            BY <1>0 DEF TurnRow
        <3> QED BY <1>0, <3>1 DEF TurnRow
    <2>6. Covering(items[i].bot, items[i].job, {lines'[l].of}) = {}  BY <1>3 DEF LineHeld
    <2> HIDE DEF l
    <2>7. TurnsGoOn({l}) /\ MailGoesOn({l})
        <3>1. OpenTurn(turns, items[i].bot, items[i].job, l, TRUE)  BY <1>3 DEF l
        <3> QED BY <1>0, <2>2, <2>5, <2>6, <3>1, OpenGoesOn
    <2>8. GoesOn({l})  BY <1>3, <2>7, SameKeptGoesOn DEF GoesOn
    <2>9. l \in 1..said'  BY <2>3, <2>4
    <2> QED BY <1>1, <2>8, <2>9, SameLinesStay DEF StopsStep
<1> QED BY <1>2, <1>3

LEMMA PickUpStops ==
    ASSUME TypeOK, TypeOK', StopsInv, PickUp
    PROVE  StopsStep /\ holds' \subseteq holds
<1> PICK i \in todo.pick :
        /\ \/ \E t \in Segments(i) : Claim(t)
           \/ /\ Say(items[i].bot, items[i].job, FALSE, 0)
              /\ QueueWork(items[i].bot, items[i].job, said + 1)
              /\ NoTurnOpens /\ UNCHANGED answered
        /\ todo' = [todo EXCEPT !.pick = @ \ {i}]
        /\ UNCHANGED holds
    BY DEF PickUp
<1>1. LinesStay /\ \E L \in SUBSET (1..said') : GoesOn(L)
    <2>1. CASE \E t \in Segments(i) : Claim(t)
        BY <2>1, ClaimGoesOn DEF Segments
    <2>2. CASE /\ Say(items[i].bot, items[i].job, FALSE, 0)
               /\ QueueWork(items[i].bot, items[i].job, said + 1)
               /\ NoTurnOpens /\ UNCHANGED answered
        <3>1. LinesStay /\ said + 1 \in 1..said'  BY <2>2, SayStays
        <3>2. MailGoesOn({said + 1})  BY <2>2, QueueGoesOn
        <3>3. GoesOn({said + 1})
            BY <2>2, <3>2, SameTurnsGoOn, SameKeptGoesOn DEF NoTurnOpens, GoesOn
        <3> QED BY <3>1, <3>3
    <2> QED BY <2>1, <2>2
<1>2. TodoKnown'
    <2>1. todo'.route = todo.route /\ todo'.takeup = todo.takeup  BY DEF TypeOK, Todo
    <2>2. said <= said'  BY <1>1 DEF LinesStay
    <2>3. said \in Nat /\ said' \in Nat /\ todo.route \in Nat /\ todo.takeup \subseteq Nat
        BY DEF TypeOK, Todo, Lines
    <2> QED BY <2>1, <2>2, <2>3 DEF StopsInv, TodoKnown
<1> QED BY <1>1, <1>2 DEF StopsStep

LEMMA CrashStops ==
    ASSUME TypeOK, Crash
    PROVE  StopsStep /\ holds' \subseteq holds
<1>0. turns \in [Turns -> TurnRow] /\ mail \in [Mails -> MailRow]  BY DEF TypeOK
<1> DEFINE cut == {t \in Turns : Live(t)}
           ts == [t \in Turns |-> IF t \in cut
                   THEN [turns[t] EXCEPT !.status = "interrupted", !.note = TRUE] ELSE turns[t]]
           ms == [m \in Mails |-> IF mail[m].state = "delivered" /\ lines[mail[m].line].yours
                   THEN [mail[m] EXCEPT !.state = "unacked"] ELSE mail[m]]
<1>1. TurnsGoOn({})
    <2>1. turns' = ts  BY DEF Crash
    <2>2. \A u \in Turns : \/ turns'[u] = turns[u]
                           \/ /\ turns'[u].status = "interrupted"
                              /\ turns[u].status # "none"
                              /\ turns'[u].trigger = turns[u].trigger
        BY <1>0, <2>1 DEF TurnRow, Live
    <2> QED BY <2>2, EndingsGoOn
<1>2. MailGoesOn({})
    <2>1. mail' = RefreshMail(ts, ms, holds, Bots)  BY DEF Crash
    <2>2. ms \in [Mails -> MailRow] /\ RowsKept(mail, ms)  BY <1>0 DEF MailRow, RowsKept
    <2> HIDE DEF ms, ts
    <2>3. RowsKept(ms, mail')  BY <2>1, <2>2, RefreshKeepsRows
    <2> QED BY <2>2, <2>3 DEF RowsKept, MailGoesOn
<1>3. UNCHANGED <<lines, said, holds, answered>>  BY DEF Crash
<1>4. TodoKnown'
    <2>1. said' \in Nat  BY <1>3 DEF TypeOK
    <2>2. todo' = Nothing
        BY DEF Crash
    <2> QED BY <2>1, <2>2, RestKnown DEF Nothing
<1> QED BY <1>1, <1>2, <1>3, <1>4, SameKeptGoesOn, SameLinesStay DEF GoesOn, StopsStep

\* A stop is made: what it covers ends in the same write, and the rest it leaves alone.
LEMMA HoldStops ==
    ASSUME TypeOK, TypeOK', StopsInv, NEW h \in Scopes, Hold(h)
    PROVE  StopsInv'
<1>0. /\ turns \in [Turns -> TurnRow] /\ mail \in [Mails -> MailRow]
      /\ UNCHANGED <<lines, said, answered, todo>>
      /\ holds' = holds \cup {h}
    BY DEF TypeOK, Hold
<1>1. \A t \in Turns :
         /\ turns'[t].status # "none" => turns[t].status # "none"
         /\ turns[t].status # "none" => turns'[t].status # "none"
         /\ turns'[t].trigger = turns[t].trigger /\ turns'[t].bot = turns[t].bot
         /\ turns'[t].job = turns[t].job /\ turns'[t].mode = turns[t].mode
         /\ Live(t)' => Live(t) /\ t \notin EndedBy(h)
    <2>1. turns' = [t \in Turns |-> IF t \in EndedBy(h) THEN [turns[t] EXCEPT !.status = "stopped"]
                                    ELSE turns[t]]
        BY DEF Hold
    <2>2. \A t \in EndedBy(h) : turns[t].status # "none"  BY DEF EndedBy, Live
    <2> QED BY <1>0, <2>1, <2>2 DEF TurnRow, Live
<1>2. TurnsKnown'  BY <1>0, <1>1 DEF StopsInv, TurnsKnown
<1>3. MailKnown'
    <2>1. RowsKept(mail, mail')  BY <1>0, RefreshKeepsRows DEF Hold
    <2> QED BY <1>0, <2>1 DEF RowsKept, StopsInv, MailKnown
<1>4. KeptKnown' /\ TodoKnown'  BY <1>0 DEF StopsInv, KeptKnown, TodoKnown
<1>5. HoldsKnown'
    <2>1. h.kind = "turn" => h.turn \in Turns /\ turns[h.turn].status # "none"
        BY KernelAssumption DEF Hold, Live, Scope
    <2>2. \A g \in holds : g.kind = "turn" => g.turn \in Turns /\ turns[g.turn].status # "none"
        BY KernelAssumption DEF StopsInv, HoldsKnown, Scope, TypeOK
    <2> QED BY <1>0, <1>1, <2>1, <2>2 DEF HoldsKnown
<1>6. StopsHold'
    <2> SUFFICES ASSUME NEW t \in Turns, Live(t)', turns'[t].mode # "readonly",
                        NEW g \in holds \cup {h}
                 PROVE  ~Covers(g, turns[t].bot, turns[t].job,
                                {t, lines[turns[t].trigger].of})
        BY <1>0, <1>1 DEF StopsHold, TurnHeld, Covering, Covers
    <2>1. Live(t) /\ turns[t].mode # "readonly" /\ t \notin EndedBy(h)  BY <1>1
    <2>2. CASE g \in holds
        BY <2>1, <2>2 DEF StopsInv, StopsHold, TurnHeld, Covering
    <2>3. CASE g = h
        BY <2>1, <2>3 DEF EndedBy
    <2> QED BY <2>2, <2>3
<1> QED BY <1>2, <1>3, <1>4, <1>5, <1>6 DEF StopsInv

-------------------------------------------------------------------------------

LEMMA StopsInvInit == Init => StopsInv
BY DEF Init, StopsInv, TurnsKnown, MailKnown, KeptKnown, TodoKnown, HoldsKnown, StopsHold,
       Live, Nothing

\* Every step but the making of a stop is such a step, under the stops that were there or fewer.
LEMMA StepGoesOn ==
    ASSUME TypeOK, TypeOK', StopsInv, [Next]_vars
    PROVE  (StopsStep /\ holds' \subseteq holds) \/ \E h \in Scopes : Hold(h)
<1>1. CASE You
    BY <1>1, UserLineStops, LiftStops, ContinueStops DEF You
<1>2. CASE Stop
    BY <1>2 DEF Stop
<1>3. CASE \E t \in Turns : Bot(t)
    BY <1>3, ReadInboxStops, WorkOnStops, EndTurnStops, CompleteStops, FailStops, UnwindStops
       DEF Bot
<1>4. CASE App
    <2>1. CASE Supervise
        <3>1. /\ UNCHANGED <<turns, mail, lines, said, holds, answered>>
              /\ todo'.route = 0 /\ todo'.takeup = {}
            BY <2>1 DEF Supervise, Nothing
        <3> QED BY <3>1, QuietStops
    <2> QED BY <1>4, <2>1, AppWorkStops, SweepStops DEF App
<1>5. CASE Rest
    <2>1. CASE Dispatch
        <3>1. /\ UNCHANGED <<turns, mail, lines, said, holds, answered>>
              /\ todo'.route = 0 /\ todo'.takeup = {}
            BY <2>1 DEF Dispatch, Nothing, tables
        <3> QED BY <3>1, QuietStops
    <2> QED BY <1>5, <2>1, RouteStops, ReopenStops, ResumeStops, TakeUpStops,
               ClaimContinueStops, PickUpStops, AdmitStops DEF Rest
<1>6. CASE Crash
    BY <1>6, CrashStops
<1>7. CASE UNCHANGED vars
    <2>1. UNCHANGED <<turns, mail, lines, said, holds, answered, todo>>
        BY <1>7 DEF vars, tables, process
    <2>2. GoesOn({})  BY <2>1, SameTurnsGoOn, SameMailGoesOn, SameKeptGoesOn DEF GoesOn
    <2>3. TodoKnown'  BY <2>1 DEF StopsInv, TodoKnown
    <2> QED BY <2>1, <2>2, <2>3, SameLinesStay DEF StopsStep
<1> QED BY <1>1, <1>2, <1>3, <1>4, <1>5, <1>6, <1>7 DEF Next

LEMMA StopsInvStep == TypeOK /\ TypeOK' /\ StopsInv /\ [Next]_vars => StopsInv'
BY StepGoesOn, StopsKept, HoldStops

\* What the next theorems rest on.
THEOREM StopsInvHolds == Spec => []StopsInv
<1> QED BY StopsInvInit, StopsInvStep, TypeCorrect, PTL DEF Spec

\* No segment that can work is live under a stop that covers it: whoever made the stop, whatever
\* opened or moved the segment, and wherever the process died (engine/lifecycle.ts, stops.ts,
\* store/holds.ts; the triggers turns_held_insert and turns_held_move).
THEOREM StopsAreKept == Spec => []StopsHold
<1>1. StopsInv => StopsHold  BY DEF StopsInv
<1> QED BY <1>1, StopsInvHolds, PTL

-------------------------------------------------------------------------------
(* What a stop ended comes back by one way: it is owed by one stop, or is being *)
(* opened again by a lift, and not both.                                        *)

Ended(t) == turns[t].status \notin {"none", "running"}

\* What a stop owes is a turn that has ended; a live one, or one never opened, cannot be owed.
OwedEnded == \A h \in Scopes : \A t \in owed[h] : Ended(t)
\* What a lift is about to open again no stop owes.
LeftToOpen == \A t \in todo.resume : Ended(t) /\ \A h \in Scopes : t \notin owed[h]

WayBackInv == OneWayBack /\ OwedEnded /\ LeftToOpen

-------------------------------------------------------------------------------
(* A turn that has ended is not opened again: what goes on is a turn of its own. *)

EndedStays == \A t \in Turns : Ended(t) => Ended(t)'

LEMMA EndedStay ==
    ASSUME TypeOK, TypeOK', StopsInv, [Next]_vars
    PROVE  EndedStays
<1>1. CASE StopsStep
    BY <1>1 DEF StopsStep, GoesOn, TurnsGoOn, EndedStays, Ended, Live
<1>2. CASE \E h \in Scopes : Hold(h)
    <2> PICK h \in Scopes : Hold(h)  BY <1>2
    <2>1. \A t \in Turns : turns'[t] = IF t \in EndedBy(h)
                                       THEN [turns[t] EXCEPT !.status = "stopped"] ELSE turns[t]
        BY DEF Hold
    <2>2. turns \in [Turns -> TurnRow]  BY DEF TypeOK
    <2> QED BY <2>1, <2>2 DEF EndedStays, Ended, TurnRow
<1> QED BY <1>1, <1>2, StepGoesOn

-------------------------------------------------------------------------------

\* Where no stop comes to owe more and no more is left to open, nothing is owed twice.
Shrinks ==
    /\ \A h \in Scopes : owed'[h] \subseteq owed[h]
    /\ todo'.resume \subseteq todo.resume

LEMMA WayBackKept ==
    ASSUME TypeOK, WayBackInv, EndedStays, Shrinks
    PROVE  WayBackInv'
<1>1. /\ \A h \in Scopes : owed[h] \subseteq Turns
      /\ todo.resume \subseteq Turns
    BY DEF TypeOK, Todo
<1>2. OneWayBack'  BY DEF WayBackInv, OneWayBack, Shrinks
<1>3. OwedEnded'  BY <1>1 DEF WayBackInv, OwedEnded, EndedStays, Shrinks
<1>4. LeftToOpen'  BY <1>1 DEF WayBackInv, LeftToOpen, EndedStays, Shrinks
<1> QED BY <1>2, <1>3, <1>4 DEF WayBackInv

LEMMA LiftedShrinks ==
    ASSUME NEW hs, Lifted(hs)
    PROVE  \A h \in Scopes : owed'[h] \subseteq owed[h]
BY DEF Lifted

LEMMA YouShrink ==
    ASSUME TypeOK,
           \/ \E b \in Bots, j \in Places, asks \in BOOLEAN : UserLine(b, j, asks)
           \/ \E t \in Turns : Continue(t)
    PROVE  Shrinks
<1>1. CASE \E b \in Bots, j \in Places, asks \in BOOLEAN : UserLine(b, j, asks)
    <2>1. todo'.resume = {}  BY <1>1 DEF UserLine, Nothing
    <2> QED BY <1>1, <2>1, LiftedShrinks DEF UserLine, Shrinks
<1>2. CASE \E t \in Turns : Continue(t)
    <2>1. todo'.resume = {}  BY <1>2 DEF Continue, Nothing
    <2> QED BY <1>2, <2>1, LiftedShrinks DEF Continue, Shrinks
<1> QED BY <1>1, <1>2

\* A lift hands over what its stop owed, and no other stop owed it.
LEMMA LiftWayBack ==
    ASSUME TypeOK, WayBackInv, EndedStays, NEW h \in Scopes, Lift(h)
    PROVE  WayBackInv'
<1>1. \A g \in Scopes : owed'[g] = IF g = h THEN {} ELSE owed[g]
    BY DEF Lift, Lifted
<1>2. todo'.resume \subseteq owed[h]  BY DEF Lift, Nothing
<1>3. \A g \in Scopes : owed[g] \subseteq Turns  BY DEF TypeOK
<1>4. OneWayBack'  BY <1>1 DEF WayBackInv, OneWayBack
<1>5. OwedEnded'  BY <1>1, <1>3 DEF WayBackInv, OwedEnded, EndedStays
<1>6. LeftToOpen'
    <2> SUFFICES ASSUME NEW t \in todo'.resume
                 PROVE  Ended(t)' /\ \A g \in Scopes : t \notin owed'[g]
        BY DEF LeftToOpen
    <2>1. t \in owed[h] /\ t \in Turns  BY <1>2, <1>3
    <2>2. Ended(t)'  BY <2>1 DEF WayBackInv, OwedEnded, EndedStays
    <2>3. \A g \in Scopes : g # h => t \notin owed[g]
        BY <2>1 DEF WayBackInv, OneWayBack
    <2> QED BY <1>1, <2>2, <2>3
<1> QED BY <1>4, <1>5, <1>6 DEF WayBackInv

\* A stop owes the turns it ended, which were live and so owed by none.
LEMMA HoldWayBack ==
    ASSUME TypeOK, WayBackInv, EndedStays, NEW h \in Scopes, Hold(h)
    PROVE  WayBackInv'
<1>1. \A g \in Scopes : owed'[g] = IF g = h THEN EndedBy(h) ELSE owed[g]
    BY DEF Hold, TypeOK
<1>2. \A t \in EndedBy(h) : t \in Turns /\ Live(t) /\ Ended(t)'
    <2>1. \A t \in EndedBy(h) : t \in Turns /\ Live(t)  BY DEF EndedBy
    <2>2. \A t \in EndedBy(h) : turns'[t].status = "stopped"
        BY <2>1 DEF Hold, TypeOK, TurnRow
    <2> QED BY <2>1, <2>2 DEF Ended
<1>3. \A g \in Scopes : owed[g] \subseteq Turns /\ owed[g] \cap EndedBy(h) = {}
    <2>1. \A t \in EndedBy(h) : ~Ended(t)  BY <1>2 DEF Ended, Live
    <2> QED BY <2>1 DEF WayBackInv, OwedEnded, TypeOK
<1>4. todo'.resume = {}
    <2>1. Hold(h) => Free /\ UNCHANGED todo  BY DEF Hold
    <2>2. todo' = Nothing  BY <2>1 DEF Free
    <2> QED BY <2>2 DEF Nothing
<1>5. OneWayBack'  BY <1>1, <1>3 DEF WayBackInv, OneWayBack
<1>6. OwedEnded'  BY <1>1, <1>2, <1>3 DEF WayBackInv, OwedEnded, EndedStays
<1>7. LeftToOpen'  BY <1>4 DEF LeftToOpen
<1> QED BY <1>5, <1>6, <1>7 DEF WayBackInv

\* What a lift opens is owed no more; what another stop still covers waits on that one alone.
LEMMA ResumeWayBack ==
    ASSUME TypeOK, WayBackInv, EndedStays, Resume
    PROVE  WayBackInv'
<1> PICK t \in todo.resume :
        /\ \/ UNCHANGED owed
           \/ \E heir \in Scopes : owed' = [owed EXCEPT ![heir] = @ \cup {t}]
        /\ todo'.resume = todo.resume \ {t}
    BY DEF Resume, Heirs, Covering, TypeOK, Todo
<1>1. CASE UNCHANGED owed
    BY <1>1, WayBackKept DEF Shrinks
<1>2. CASE \E heir \in Scopes : owed' = [owed EXCEPT ![heir] = @ \cup {t}]
    <2> PICK heir \in Scopes : owed' = [owed EXCEPT ![heir] = @ \cup {t}]
        BY <1>2
    <2>1. \A g \in Scopes : owed'[g] = IF g = heir THEN owed[g] \cup {t} ELSE owed[g]
        BY DEF TypeOK
    <2>2. /\ \A g \in Scopes : owed[g] \subseteq Turns /\ t \notin owed[g]
          /\ todo.resume \subseteq Turns /\ Ended(t)
        BY DEF TypeOK, Todo, WayBackInv, LeftToOpen
    <2>3. OneWayBack'  BY <2>1, <2>2 DEF WayBackInv, OneWayBack
    <2>4. OwedEnded'  BY <2>1, <2>2 DEF WayBackInv, OwedEnded, EndedStays
    <2>5. LeftToOpen'  BY <2>1, <2>2 DEF WayBackInv, LeftToOpen, EndedStays
    <2> QED BY <2>3, <2>4, <2>5 DEF WayBackInv
<1> QED BY <1>1, <1>2

\* No other handler touches what is owed.
LEMMA OthersShrink ==
    ASSUME TypeOK,
           \/ \E t \in Turns : Bot(t)
           \/ App
           \/ Route \/ Reopen \/ TakeUp \/ ClaimContinue \/ PickUp \/ Dispatch \/ Admit
           \/ Crash
    PROVE  Shrinks
<1>1. CASE \E t \in Turns : Bot(t)
    <2> PICK t \in Turns : Bot(t)  BY <1>1
    <2>1. CASE ReadInbox(t)  BY <2>1 DEF ReadInbox, Shrinks
    <2>2. CASE \E j \in Jobs : WorkOn(t, j)  BY <2>2 DEF WorkOn, Shrinks
    <2>3. CASE \E how \in {"done", "blocked", "needs_attention"} : EndTurn(t, how)
        BY <2>3 DEF EndTurn, Shrinks, process
    <2>4. CASE Complete(t)  BY <2>4 DEF Complete, Shrinks
    <2>5. CASE \E yoursToFix \in BOOLEAN : Fail(t, yoursToFix)
        BY <2>5 DEF Fail, Shrinks, Nothing
    <2>6. CASE Unwind(t)
        <3>1. UNCHANGED owed  BY <2>6 DEF Unwind
        <3>2. \E x, y : todo' = [Nothing EXCEPT !.reopen = x, !.unheard = y, !.dispatch = TRUE]
            BY <2>6 DEF Unwind
        <3> QED BY <3>1, <3>2 DEF Shrinks, Nothing
    <2> QED BY <2>1, <2>2, <2>3, <2>4, <2>5, <2>6 DEF Bot
<1>2. CASE App
    <2>1. UNCHANGED owed  BY <1>2 DEF App, AppWork, Sweep, Supervise, tables
    <2>2. todo'.resume = {}  BY <1>2 DEF App, AppWork, Sweep, Supervise, Nothing
    <2> QED BY <2>1, <2>2 DEF Shrinks
<1>3. CASE Route \/ ClaimContinue \/ Dispatch
    <2>1. UNCHANGED owed  BY <1>3 DEF Route, ClaimContinue, Dispatch, tables
    <2>2. todo'.resume = {}
        <3>1. Route => todo' = Nothing  BY DEF Route
        <3>2. ClaimContinue => todo' = Nothing  BY DEF ClaimContinue
        <3>3. Dispatch => \E x : todo' = [Nothing EXCEPT !.admit = x]  BY DEF Dispatch
        <3> QED BY <1>3, <3>1, <3>2, <3>3 DEF Nothing
    <2> QED BY <2>1, <2>2 DEF Shrinks
<1>4. CASE Reopen \/ TakeUp \/ PickUp \/ Admit
    <2>1. UNCHANGED owed
        <3>1. Reopen => UNCHANGED owed  BY DEF Reopen
        <3>2. TakeUp => UNCHANGED owed  BY DEF TakeUp
        <3>3. PickUp => UNCHANGED owed  BY DEF PickUp
        <3>4. Admit => UNCHANGED owed  BY DEF Admit
        <3> QED BY <1>4, <3>1, <3>2, <3>3, <3>4
    <2>2. todo'.resume = todo.resume
        BY <1>4 DEF Reopen, TakeUp, PickUp, Admit, TypeOK, Todo
    <2> QED BY <2>1, <2>2 DEF Shrinks
<1>5. CASE Crash
    <2>1. UNCHANGED owed /\ todo' = Nothing  BY <1>5 DEF Crash
    <2> QED BY <2>1 DEF Shrinks, Nothing
<1> QED BY <1>1, <1>2, <1>3, <1>4, <1>5

-------------------------------------------------------------------------------

LEMMA WayBackInit == Init => WayBackInv
BY DEF Init, WayBackInv, OneWayBack, OwedEnded, LeftToOpen, Nothing

LEMMA WayBackStep == TypeOK /\ TypeOK' /\ StopsInv /\ WayBackInv /\ [Next]_vars => WayBackInv'
<1> SUFFICES ASSUME TypeOK, TypeOK', StopsInv, WayBackInv, [Next]_vars PROVE WayBackInv'
    OBVIOUS
<1>0. EndedStays  BY EndedStay
<1>1. CASE You
    BY <1>0, <1>1, YouShrink, LiftWayBack, WayBackKept DEF You
<1>2. CASE Stop
    BY <1>0, <1>2, HoldWayBack DEF Stop
<1>3. CASE (\E t \in Turns : Bot(t)) \/ App \/ Crash
    BY <1>0, <1>3, OthersShrink, WayBackKept
<1>4. CASE Rest
    BY <1>0, <1>4, OthersShrink, WayBackKept, ResumeWayBack DEF Rest
<1>5. CASE UNCHANGED vars
    <2>1. Shrinks  BY <1>5 DEF Shrinks, vars, tables, process
    <2> QED BY <1>0, <2>1, WayBackKept
<1> QED BY <1>1, <1>2, <1>3, <1>4, <1>5 DEF Next

\* A turn a stop ended is owed by one stop only, whichever stops overlap it and in whatever order
\* they are made and lifted (engine/stop/carry-out.ts, engine/stop/go-on.ts resumeLifted).
THEOREM OneWayBackHolds == Spec => []OneWayBack
<1>1. WayBackInv => OneWayBack  BY DEF WayBackInv
<1> QED BY <1>1, WayBackInit, WayBackStep, StopsInvHolds, TypeCorrect, PTL DEF Spec

=============================================================================
