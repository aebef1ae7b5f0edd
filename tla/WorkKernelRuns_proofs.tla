------------------------- MODULE WorkKernelRuns_proofs -------------------------
(* The process and its tables agree: a row that says running is run, a desk     *)
(* that says running has a segment on it, a line under which you read "held" is *)
(* held by a stop, and a line of yours, once routed, has somewhere to go.       *)
EXTENDS WorkKernelStops_proofs

\* A live row is one this process runs, and a loop is on a row that was written.
LiveIsRun == \A t \in Turns :
    /\ Live(t) => t \in lives /\ t \in loops
    /\ t \in loops => turns[t].status # "none"
\* A desk's item that says running has a loop on it.
DesksAreRun == \A i \in Items : items[i].state = "running" /\ items[i].job = Desk =>
    \E t \in loops : turns[t].item = i
\* Mail that names a turn names one that was written and can work.
Works(t) == turns[t].status # "none" /\ turns[t].mode # "readonly"
MailTurnWorks == \A m \in Mails :
    mail[m].state # "none" /\ mail[m].turn # 0 => Works(mail[m].turn)
\* Your line is all that is left of the handler that is to route it.
RoutesAlone == todo.route # 0 => todo.claim = 0 /\ todo.over = 0

RunsInv == LiveIsRun /\ DesksAreRun /\ MailTurnWorks /\ HeldMeansCovered /\ RoutesAlone

-------------------------------------------------------------------------------
(* What a step does to the rows of turns, to desks and to mail. *)

RowsRun == \A t \in Turns :
    /\ turns[t].status # "none" => turns'[t].status # "none"
    /\ turns[t].status # "none" /\ turns[t].mode # "readonly" => turns'[t].mode # "readonly"
    /\ turns'[t].status = "running" =>
          \/ t \in lives' /\ t \in loops'
          \/ /\ Live(t)
             /\ (t \in lives => t \in lives') /\ (t \in loops => t \in loops')
    /\ t \in loops' => t \in loops \/ turns'[t].status # "none"
DesksRun == \A i \in Items : items'[i].state = "running" /\ items'[i].job = Desk =>
    \/ \E t \in loops' : turns'[t].item = i
    \/ /\ items[i].state = "running" /\ items[i].job = Desk
       /\ \A t \in Turns : t \in loops /\ turns[t].status # "none" /\ turns[t].item = i =>
             t \in loops' /\ turns'[t].item = i

SameRow(ms, ns, m) ==
    ns[m].bot = ms[m].bot /\ ns[m].job = ms[m].job /\ ns[m].turn = ms[m].turn
TurnNamed(m) == mail'[m].state # "none" /\ mail'[m].turn # 0 =>
    \/ mail[m].state # "none" /\ mail'[m].turn = mail[m].turn
    \/ turns'[mail'[m].turn].status # "none" /\ turns'[mail'[m].turn].mode # "readonly"
StaysCovered(m) == mail'[m].state = "held" =>
    \/ MailCovered(holds', mail', m)
    \/ holds \subseteq holds' /\ mail[m].state = "held" /\ SameRow(mail, mail', m)
MailRuns == \A m \in Mails : TurnNamed(m) /\ StaysCovered(m)

RunStep == RowsRun /\ DesksRun /\ MailRuns

LEMMA CoveredSame ==
    ASSUME NEW gs, NEW hs, gs \subseteq hs, NEW ms, NEW ns, NEW m, SameRow(ms, ns, m), MailCovered(gs, ms, m)
    PROVE  MailCovered(hs, ns, m)
BY DEF SameRow, MailCovered

LEMMA RunsKept ==
    ASSUME TypeOK, TypeOK', RunsInv, RunStep, RoutesAlone'
    PROVE  RunsInv'
<1>0. loops \subseteq Turns /\ \A m \in Mails : mail[m].turn \in Turns \cup {0}
    BY DEF TypeOK, MailRow
<1>1. LiveIsRun'
    BY DEF RunsInv, LiveIsRun, RunStep, RowsRun, Live
<1>2. DesksAreRun'
    <2> SUFFICES ASSUME NEW i \in Items, items'[i].state = "running", items'[i].job = Desk
                 PROVE  \E t \in loops' : turns'[t].item = i
        BY DEF DesksAreRun
    <2>1. CASE /\ items[i].state = "running" /\ items[i].job = Desk
               /\ \A t \in Turns : t \in loops /\ turns[t].status # "none" /\ turns[t].item = i =>
                     t \in loops' /\ turns'[t].item = i
        BY <1>0, <2>1 DEF RunsInv, DesksAreRun, LiveIsRun
    <2> QED BY <2>1 DEF RunStep, DesksRun
<1>3. MailTurnWorks'
    <2> SUFFICES ASSUME NEW m \in Mails, mail'[m].state # "none", mail'[m].turn # 0
                 PROVE  turns'[mail'[m].turn].status # "none" /\ turns'[mail'[m].turn].mode # "readonly"
        BY DEF MailTurnWorks, Works
    <2>1. CASE mail[m].state # "none" /\ mail'[m].turn = mail[m].turn
        <3>1. mail[m].turn \in Turns /\ Works(mail[m].turn)
            BY <1>0, <2>1 DEF RunsInv, MailTurnWorks
        <3> QED BY <2>1, <3>1 DEF Works, RunStep, RowsRun
    <2> QED BY <2>1 DEF RunStep, MailRuns, TurnNamed
<1>4. HeldMeansCovered'
    <2> SUFFICES ASSUME NEW m \in Mails, mail'[m].state = "held"
                 PROVE  MailCovered(holds', mail', m)
        BY DEF HeldMeansCovered
    <2>1. CASE holds \subseteq holds' /\ mail[m].state = "held" /\ SameRow(mail, mail', m)
        <3>1. MailCovered(holds, mail, m)  BY <2>1 DEF RunsInv, HeldMeansCovered
        <3> QED BY <2>1, <3>1, CoveredSame
    <2> QED BY <2>1 DEF RunStep, MailRuns, StaysCovered
<1> QED BY <1>1, <1>2, <1>3, <1>4 DEF RunsInv

-------------------------------------------------------------------------------
(* The writes that several handlers share. *)

\* No item comes to say running.
NoneRuns(is, js) == \A i \in Items :
    js[i].state = "running" => is[i].state = "running" /\ js[i].job = is[i].job

LEMMA RefreshNoneRuns ==
    ASSUME NEW ts, NEW is \in [Items -> ItemRow], NEW ms, NEW hs, NEW bs
    PROVE  NoneRuns(is, RefreshItems(ts, is, ms, hs, bs))
BY DEF NoneRuns, RefreshItems, Requeued, ItemRow

LEMMA RequeueNoneRuns ==
    ASSUME NEW ts, NEW is \in [Items -> ItemRow], NEW ids
    PROVE  NoneRuns(is, Requeued(ts, is, ids))
BY DEF NoneRuns, Requeued, ItemRow

LEMMA CutOffNoneRuns ==
    ASSUME NEW ts, NEW is \in [Items -> ItemRow], NEW cut
    PROVE  NoneRuns(is, CutOff(ts, is, cut))
BY DEF NoneRuns, CutOff, ItemRow

\* Where none does, and loops stay where they are, desks are run as before.
LoopsStay == \A t \in Turns : t \in loops /\ turns[t].status # "none" =>
    t \in loops' /\ turns'[t].item = turns[t].item
LEMMA DesksStay ==
    ASSUME NoneRuns(items, items'), LoopsStay
    PROVE  DesksRun
BY DEF NoneRuns, LoopsStay, DesksRun

LEMMA RowsStay ==
    ASSUME UNCHANGED <<turns, lives, loops>>
    PROVE  RowsRun /\ LoopsStay
BY DEF RowsRun, LoopsStay, Live

LEMMA MailStays ==
    ASSUME UNCHANGED mail, holds \subseteq holds'
    PROVE  MailRuns
BY DEF MailRuns, TurnNamed, StaysCovered, SameRow

LEMMA NothingRuns ==
    ASSUME UNCHANGED <<turns, lives, loops, items, mail, holds>>
    PROVE  RunStep
BY RowsStay, DesksStay, MailStays DEF RunStep, NoneRuns

\* What is held after a refresh is covered, at the Bots it is for.
LEMMA RefreshCovers ==
    ASSUME NEW ts, NEW ms \in [Mails -> MailRow], NEW hs, NEW bs, NEW m \in Mails,
           NEW ns, ns = RefreshMail(ts, ms, hs, bs)
    PROVE  /\ SameRow(ms, ns, m) /\ (ns[m].state # "none" => ms[m].state # "none")
           /\ ns[m].state = "held" =>
                \/ MailCovered(hs, ms, m)
                \/ ms[m].state = "held" /\ ms[m].bot \notin bs
BY DEF RefreshMail, SameRow, MailRow

\* A row put in the inbox is queued, for a turn that can work or for none.
LEMMA PutRuns ==
    ASSUME TypeOK, NEW m \in Mails, NEW row, PutMail(m, row), row.state = "queued",
           row.turn # 0 => turns'[row.turn].status # "none" /\ turns'[row.turn].mode # "readonly",
           UNCHANGED holds
    PROVE  MailRuns
<1>1. mail \in [Mails -> MailRow]  BY DEF TypeOK
<1>2. CASE UNCHANGED mail  BY <1>2, MailStays
<1>3. CASE mail' = [mail EXCEPT ![m] = row]
    <2>1. mail'[m] = row /\ \A n \in Mails \ {m} : mail'[n] = mail[n]  BY <1>1, <1>3
    <2> QED BY <2>1 DEF MailRuns, TurnNamed, StaysCovered, SameRow
<1> QED BY <1>2, <1>3 DEF PutMail
\* The item a turn opens on runs, and no other comes to.
LEMMA FoundNoneRuns ==
    ASSUME TypeOK, NEW b \in Bots, NEW j \in Places, NEW i \in Items, IsItemFor(i, b, j),
           NEW k \in Items \ {i}
    PROVE  WithItem(i, b, j)[k] = items[k]
BY DEF WithItem, TypeOK

\* The table a turn opens on: as it is, or with a note taken.
Noted(from) == \A u \in Turns :
    /\ from[u].status = turns[u].status /\ from[u].mode = turns[u].mode
    /\ from[u].item = turns[u].item

\* A turn that begins is run, by this process.
LEMMA BeginsRun ==
    ASSUME TypeOK, NEW from \in [Turns -> TurnRow], Noted(from), NEW t \in Turns, NEW row,
           turns[t].status = "none", turns' = [from EXCEPT ![t] = row], row.status = "running",
           Attached(t)
    PROVE  /\ RowsRun /\ LoopsStay
           /\ t \in loops' /\ turns'[t] = row
<1>1. turns'[t] = row /\ \A u \in Turns \ {t} : turns'[u] = from[u]  OBVIOUS
<1>2. t \in lives' /\ t \in loops' /\ lives \subseteq lives' /\ loops \subseteq loops'
      /\ \A u \in loops' : u \in loops \/ u = t
    BY DEF Attached
<1>3. RowsRun  BY <1>1, <1>2 DEF RowsRun, Noted, Live
<1>4. LoopsStay  BY <1>1, <1>2 DEF LoopsStay, Noted
<1> QED BY <1>1, <1>2, <1>3, <1>4

LEMMA OpensRun ==
    ASSUME TypeOK, NEW b \in Bots, NEW j \in Places, NEW l, NEW mark \in BOOLEAN,
           NEW from \in [Turns -> TurnRow], Noted(from),
           OpenTurn(from, b, j, l, mark), UNCHANGED holds
    PROVE  RunStep
<1> DEFINE Row(i) == [status |-> "running", bot |-> b, job |-> j, item |-> i, trigger |-> l,
                      mode |-> IF j = Desk THEN "desk" ELSE "work",
                      ended |-> FALSE, note |-> FALSE]
           Rows(t, i) == [from EXCEPT ![t] = Row(i)]
           Its(t, i) == RefreshItems(Rows(t, i), WithItem(i, b, j), mail, holds, {b})
<1> PICK t \in Turns, i \in Items :
        /\ IsNewTurn(t) /\ IsItemFor(i, b, j) /\ turns' = Rows(t, i)
        /\ items' = IF mark /\ Its(t, i)[i].state = "queued"
                    THEN [Its(t, i) EXCEPT ![i].state = "running"] ELSE Its(t, i)
        /\ mail' = Adopted(Rows(t, i), RefreshMail(Rows(t, i), mail, holds, {b}), t)
        /\ Attached(t)
    BY DEF OpenTurn
<1> DEFINE ts == Rows(t, i)
           is == Its(t, i)
           ms == RefreshMail(ts, mail, holds, {b})
<1>0. mail \in [Mails -> MailRow]  BY DEF TypeOK
<1>1. turns[t].status = "none"  BY DEF IsNewTurn, Least
<1>2. RowsRun /\ LoopsStay /\ t \in loops' /\ turns'[t] = Row(i)
    <2> DEFINE row == Row(i)
    <2>1. row.status = "running" /\ turns' = [from EXCEPT ![t] = row]  OBVIOUS
    <2> HIDE DEF row
    <2>2. RowsRun /\ LoopsStay /\ t \in loops' /\ turns'[t] = row  BY <1>1, <2>1, BeginsRun
    <2> QED BY <2>2 DEF row
<1>3. turns'[t].item = i /\ turns'[t].status # "none" /\ turns'[t].mode # "readonly"  BY <1>2
<1>4. WithItem(i, b, j) \in [Items -> ItemRow]  BY WithItemTyped
<1>5. NoneRuns(WithItem(i, b, j), is)  BY <1>4, RefreshNoneRuns
<1>6. is \in [Items -> ItemRow]  BY <1>0, <1>4, RefreshTyped
<1>7. items' = IF mark /\ is[i].state = "queued" THEN [is EXCEPT ![i].state = "running"] ELSE is
    OBVIOUS
<1>8. mail' = Adopted(ts, ms, t)  OBVIOUS
<1> HIDE DEF is, Its
<1>9. DesksRun
    <2>1. ASSUME NEW k \in Items \ {i}
          PROVE  items'[k].state = "running" =>
                    items[k].state = "running" /\ items'[k].job = items[k].job
        <3>1. items'[k] = is[k]  BY <1>6, <1>7
        <3>2. WithItem(i, b, j)[k] = items[k]  BY FoundNoneRuns
        <3> QED BY <1>5, <3>1, <3>2 DEF NoneRuns
    <2> QED BY <1>2, <1>3, <2>1 DEF DesksRun, LoopsStay
<1>10. ms \in [Mails -> MailRow]  BY <1>0, <1>4, RefreshTyped
<1>11. \A m \in Mails :
          /\ SameRow(mail, ms, m) /\ (ms[m].state # "none" => mail[m].state # "none")
          /\ ms[m].state = "held" => MailCovered(holds, mail, m) \/ mail[m].state = "held"
    BY <1>0, RefreshCovers
<1> HIDE DEF ts, ms, Rows, Row
<1>12. \A m \in Mails :
          \/ mail'[m] = ms[m]
          \/ mail'[m].turn = t /\ mail'[m].state # "held" /\ ms[m].state = "queued"
          \/ mail'[m].turn = ms[m].turn /\ mail'[m].state # "held" /\ ms[m].state = "queued"
    <2> SUFFICES ASSUME NEW m \in Mails
                 PROVE  \/ mail'[m] = ms[m]
                        \/ mail'[m].turn = t /\ mail'[m].state # "held" /\ ms[m].state = "queued"
                        \/ mail'[m].turn = ms[m].turn /\ mail'[m].state # "held" /\ ms[m].state = "queued"
        OBVIOUS
    <2> DEFINE row == ms[m]
    <2>1. row \in MailRow  BY <1>10
    <2>2. \/ mail'[m] = row
          \/ row.state = "queued" /\ mail'[m] = [row EXCEPT !.turn = t, !.item = ts[t].item]
          \/ row.state = "queued" /\ mail'[m] = [row EXCEPT !.state = "superseded"]
        BY <1>8 DEF Adopted
    <2> HIDE DEF row
    <2>3. \/ mail'[m] = row
          \/ mail'[m].turn = t /\ mail'[m].state # "held" /\ row.state = "queued"
          \/ mail'[m].turn = row.turn /\ mail'[m].state # "held" /\ row.state = "queued"
        BY <2>1, <2>2 DEF MailRow
    <2> QED BY <2>3 DEF row
<1>13. MailRuns
    <2> SUFFICES ASSUME NEW m \in Mails  PROVE TurnNamed(m) /\ StaysCovered(m)
        BY DEF MailRuns
    <2>1. TurnNamed(m)  BY <1>3, <1>11, <1>12 DEF TurnNamed, SameRow
    <2>2. StaysCovered(m)
        <3> SUFFICES ASSUME mail'[m].state = "held"
                     PROVE  MailCovered(holds', mail', m) \/ (mail[m].state = "held" /\ SameRow(mail, mail', m))
            BY DEF StaysCovered
        <3>1. mail'[m] = ms[m]  BY <1>12
        <3>2. SameRow(mail, mail', m)  BY <1>11, <3>1 DEF SameRow
        <3>3. MailCovered(holds, mail, m) \/ mail[m].state = "held"  BY <1>11, <3>1
        <3> QED BY <3>2, <3>3, CoveredSame
    <2> QED BY <2>1, <2>2
<1> QED BY <1>2, <1>9, <1>13 DEF RunStep

LEMMA ReadOnlyRuns ==
    ASSUME TypeOK, NEW b \in Bots, NEW l, NEW from \in [Turns -> TurnRow], Noted(from),
           OpenReadOnly(from, b, l), UNCHANGED holds
    PROVE  RunStep
<1> DEFINE row == [status |-> "running", bot |-> b, job |-> Desk, item |-> 0, trigger |-> l,
                   mode |-> "readonly", ended |-> FALSE, note |-> FALSE]
<1> PICK t \in Turns : IsNewTurn(t) /\ turns' = [from EXCEPT ![t] = row] /\ Attached(t)
    BY DEF OpenReadOnly
<1>1. row.status = "running" /\ turns[t].status = "none"  BY DEF IsNewTurn, Least
<1> HIDE DEF row
<1>2. RowsRun /\ LoopsStay  BY <1>1, BeginsRun
<1>3. DesksRun  BY <1>2, DesksStay DEF NoneRuns, OpenReadOnly
<1>4. MailRuns  BY MailStays DEF OpenReadOnly
<1> QED BY <1>2, <1>3, <1>4 DEF RunStep

LEMMA HearRuns ==
    ASSUME TypeOK, NEW t \in Turns, turns[t].status # "none", turns[t].mode # "readonly",
           NEW l, HearIn(t, l), UNCHANGED <<turns, lives, loops, items, holds>>
    PROVE  RunStep
<1> DEFINE row == [state |-> "queued", bot |-> turns[t].bot, item |-> 0, line |-> l, turn |-> t,
                   job |-> IF lines[l].job = Desk THEN turns[t].job ELSE lines[l].job]
<1> PICK m \in Mails : PutMail(m, row)  BY DEF HearIn
<1>1. row.state = "queued" /\ row.turn = t  OBVIOUS
<1> HIDE DEF row
<1>2. MailRuns  BY <1>1, PutRuns
<1> QED BY <1>2, RowsStay, DesksStay DEF RunStep, NoneRuns

\* Work put in line does not say running.
LEMMA QueueRuns ==
    ASSUME TypeOK, NEW b \in Bots, NEW j \in Places, NEW l, QueueWork(b, j, l), UNCHANGED holds
    PROVE  NoneRuns(items, items') /\ MailRuns
<1>1. CASE UNCHANGED <<items, mail>>  BY <1>1, MailStays DEF NoneRuns
<1>2. ASSUME NEW i \in Items, IsItemFor(i, b, j), items' = [WithItem(i, b, j) EXCEPT ![i].state = "queued"]
      PROVE  NoneRuns(items, items')
    <2>1. WithItem(i, b, j) \in [Items -> ItemRow]  BY WithItemTyped
    <2>2. items'[i].state = "queued" /\ \A k \in Items \ {i} : items'[k] = WithItem(i, b, j)[k]
        BY <1>2, <2>1 DEF ItemRow
    <2>3. \A k \in Items \ {i} : WithItem(i, b, j)[k] = items[k]  BY <1>2, FoundNoneRuns
    <2> QED BY <2>2, <2>3 DEF NoneRuns
<1>3. ASSUME NEW i \in Items, NEW m \in Mails,
             PutMail(m, [state |-> "queued", bot |-> b, job |-> j, turn |-> 0, item |-> i, line |-> l])
      PROVE  MailRuns
    <2> DEFINE row == [state |-> "queued", bot |-> b, job |-> j, turn |-> 0, item |-> i, line |-> l]
    <2>1. PutMail(m, row) /\ row.state = "queued" /\ row.turn = 0  BY <1>3
    <2> HIDE DEF row
    <2> QED BY <2>1, PutRuns
<1> QED BY <1>1, <1>2, <1>3 DEF QueueWork
LEMMA NothingOpensRuns ==
    ASSUME NothingOpens, UNCHANGED holds
    PROVE  RunStep
BY NothingRuns DEF NothingOpens, NoTurnOpens

LEMMA StartRuns ==
    ASSUME TypeOK, NEW b \in Bots, NEW j \in Places, NEW l, NEW yourLine,
           StartTurn(b, j, l, yourLine), UNCHANGED holds
    PROVE  RunStep
<1>0. turns \in [Turns -> TurnRow] /\ Noted(turns)  BY DEF TypeOK, Noted
<1>1. CASE NothingOpens  BY <1>1, NothingOpensRuns
<1>2. CASE OpenReadOnly(turns, b, l)  BY <1>0, <1>2, ReadOnlyRuns
<1>3. CASE OpenTurn(turns, b, j, l, FALSE)  BY <1>0, <1>3, OpensRun
<1>4. CASE QueueWork(b, j, l) /\ UNCHANGED <<turns, lives, loops>>
    BY <1>4, QueueRuns, RowsStay, DesksStay DEF RunStep
<1>5. CASE /\ UNCHANGED <<turns, lives, loops, items>>
           /\ \E t \in HearersAt(b, j) : HearIn(t, l)
    <2> PICK t \in HearersAt(b, j) : HearIn(t, l)  BY <1>5
    <2>1. t \in Turns /\ turns[t].status # "none" /\ turns[t].mode # "readonly"
        BY DEF HearersAt, Listening, LiveOn, LiveOf, Live
    <2> QED BY <1>5, <2>1, HearRuns
<1> QED BY <1>1, <1>2, <1>3, <1>4, <1>5 DEF StartTurn, NoTurnOpens

LEMMA HearOrStartRuns ==
    ASSUME TypeOK, NEW b \in Bots, NEW j \in Places, NEW l, NEW yourLine,
           HearOrStart(b, j, l, yourLine), UNCHANGED holds
    PROVE  RunStep
<1>1. CASE NothingOpens  BY <1>1, NothingOpensRuns
<1>2. CASE /\ UNCHANGED <<turns, lives, loops, items>>
           /\ \E t \in Listening(b, j) : HearIn(t, l)
    <2> PICK t \in Listening(b, j) : HearIn(t, l)  BY <1>2
    <2>1. t \in Turns /\ turns[t].status # "none" /\ turns[t].mode # "readonly"
        BY DEF Listening, LiveOn, LiveOf, Live
    <2> QED BY <1>2, <2>1, HearRuns
<1>3. CASE StartTurn(b, j, l, yourLine)  BY <1>3, StartRuns
<1> QED BY <1>1, <1>2, <1>3 DEF HearOrStart, NoTurnOpens

LEMMA ClaimRuns ==
    ASSUME TypeOK, NEW t \in Turns, Claim(t), UNCHANGED holds
    PROVE  RunStep
<1> DEFINE b == turns[t].bot
           j == turns[t].job
           claimed == [turns EXCEPT ![t].note = FALSE]
<1>0. turns \in [Turns -> TurnRow] /\ turns[t] \in TurnRow /\ b \in Bots /\ j \in Places
    BY DEF TypeOK, TurnRow
<1>1. claimed \in [Turns -> TurnRow] /\ Noted(claimed)
    BY <1>0 DEF TurnRow, Noted
<1>2. CASE NothingOpens  BY <1>2, NothingOpensRuns
<1>3. CASE OpenReadOnly(claimed, b, said + 1)
    <2> HIDE DEF claimed
    <2> QED BY <1>0, <1>1, <1>3, ReadOnlyRuns
<1>4. CASE OpenTurn(claimed, b, j, said + 1, FALSE)
    <2> HIDE DEF claimed
    <2> QED BY <1>0, <1>1, <1>4, OpensRun
<1>5. CASE /\ QueueWork(b, j, said + 1)
           /\ \E u \in Turns, i \in Items :
                 /\ IsNewTurn(u)
                 /\ turns' = [claimed EXCEPT ![u] =
                       [turns[t] EXCEPT !.status = "completed", !.item = i,
                                        !.trigger = said + 1, !.note = FALSE]]
           /\ UNCHANGED <<lives, loops>>
    <2> PICK u \in Turns, i \in Items :
                 /\ IsNewTurn(u)
                 /\ turns' = [claimed EXCEPT ![u] =
                       [turns[t] EXCEPT !.status = "completed", !.item = i,
                                        !.trigger = said + 1, !.note = FALSE]]
        BY <1>5
    <2>1. turns'[u].status = "completed" /\ turns[u].status = "none"
        BY <1>0, <1>1 DEF TurnRow, IsNewTurn, Least
    <2>2. \A v \in Turns \ {u} : turns'[v] = claimed[v]  BY <1>1
    <2> HIDE DEF claimed
    <2>3. RowsRun  BY <1>1, <1>5, <2>1, <2>2 DEF RowsRun, Noted, Live
    <2>4. LoopsStay  BY <1>1, <1>5, <2>1, <2>2 DEF LoopsStay, Noted
    <2> QED BY <1>0, <1>5, <2>3, <2>4, QueueRuns, DesksStay DEF RunStep
<1> QED BY <1>2, <1>3, <1>4, <1>5 DEF Claim

\* What is left of a handler.
LEMMA RestRuns ==
    ASSUME TypeOK, Rest
    PROVE  RunStep
<1>1. CASE Route
    <2>1. todo.route \in Lines  BY <1>1 DEF TypeOK, Todo, Route
    <2>2. lines[todo.route].bot \in Bots /\ lines[todo.route].job \in Places
        BY <2>1 DEF TypeOK, LineRow
    <2> QED BY <1>1, <2>2, StartRuns, HearOrStartRuns DEF Route
<1>2. CASE Reopen
    <2>0. UNCHANGED holds  BY <1>2 DEF Reopen
    <2>1. CASE NothingOpens  BY <2>0, <2>1, NothingOpensRuns
    <2>2. CASE \E m \in todo.unheard :
                 HearOrStart(turns[todo.reopen].bot, lines[mail[m].line].job, mail[m].line, FALSE)
        <3> PICK m \in todo.unheard :
                 HearOrStart(turns[todo.reopen].bot, lines[mail[m].line].job, mail[m].line, FALSE)
            BY <2>2
        <3>1. turns[todo.reopen].bot \in Bots  BY <1>2 DEF TypeOK, Todo, TurnRow, Reopen
        <3>2. lines[mail[m].line].job \in Places  BY DEF TypeOK, Todo, MailRow, LineRow
        <3> QED BY <2>0, <3>1, <3>2, HearOrStartRuns
    <2> QED BY <1>2, <2>1, <2>2 DEF Reopen
<1>3. CASE Resume
    <2>0. UNCHANGED holds  BY <1>3 DEF Resume
    <2> PICK t \in todo.resume :
            \/ NothingOpens
            \/ StartTurn(turns[t].bot, turns[t].job, said + 1, FALSE)
        BY <1>3 DEF Resume
    <2>1. turns[t].bot \in Bots /\ turns[t].job \in Places  BY DEF TypeOK, Todo, TurnRow
    <2> QED BY <2>0, <2>1, NothingOpensRuns, StartRuns
<1>4. CASE TakeUp
    <2>0. UNCHANGED holds  BY <1>4 DEF TakeUp
    <2> PICK l \in todo.takeup :
            (NoTurnOpens /\ UNCHANGED <<items, mail>>) \/ StartTurn(lines[l].bot, lines[l].job, l, TRUE)
        BY <1>4 DEF TakeUp
    <2>1. lines[l].bot \in Bots /\ lines[l].job \in Places  BY DEF TypeOK, Todo, LineRow
    <2> QED BY <2>0, <2>1, NothingRuns, StartRuns DEF NoTurnOpens
<1>5. CASE ClaimContinue
    <2>1. todo.claim \in Turns  BY <1>5 DEF TypeOK, Todo, ClaimContinue
    <2> QED BY <1>5, <2>1, ClaimRuns DEF ClaimContinue
<1>6. CASE PickUp
    <2>0. UNCHANGED holds  BY <1>6 DEF PickUp
    <2>1. PICK i \in todo.pick : \/ \E t \in Turns : Claim(t)
                                 \/ NoTurnOpens /\ QueueWork(items[i].bot, items[i].job, said + 1)
        BY <1>6 DEF PickUp, Segments
    <2>2. items[i].bot \in Bots /\ items[i].job \in Places  BY DEF TypeOK, Todo, ItemRow
    <2>3. CASE NoTurnOpens /\ QueueWork(items[i].bot, items[i].job, said + 1)
        BY <2>0, <2>2, <2>3, QueueRuns, RowsStay, DesksStay DEF RunStep, NoTurnOpens
    <2> QED BY <2>0, <2>1, <2>3, ClaimRuns
<1>7. CASE Dispatch  BY <1>7, NothingRuns DEF Dispatch, tables
<1>8. CASE Admit
    <2>0. UNCHANGED holds  BY <1>8 DEF Admit
    <2> PICK i \in todo.admit :
            \/ OpenTurn(turns, items[i].bot, items[i].job, mail[Front(i)].line, TRUE)
            \/ NothingOpens
        BY <1>8 DEF Admit
    <2>1. /\ turns \in [Turns -> TurnRow] /\ Noted(turns)
          /\ items[i].bot \in Bots /\ items[i].job \in Places
        BY DEF TypeOK, Todo, ItemRow, Noted
    <2> QED BY <2>0, <2>1, NothingOpensRuns, OpensRun
<1> QED BY <1>1, <1>2, <1>3, <1>4, <1>5, <1>6, <1>7, <1>8 DEF Rest
-------------------------------------------------------------------------------
(* You and the app. *)

\* A refresh of every Bot's inbox leaves nothing held that no stop covers.
LEMMA RefreshRuns ==
    ASSUME TypeOK, NEW ts, NEW ms \in [Mails -> MailRow], mail' = RefreshMail(ts, ms, holds', Bots),
           \A m \in Mails : SameRow(mail, ms, m) /\ (ms[m].state # "none" => mail[m].state # "none")
    PROVE  MailRuns
<1> SUFFICES ASSUME NEW m \in Mails  PROVE TurnNamed(m) /\ StaysCovered(m)
    BY DEF MailRuns
<1> DEFINE hs == holds'
           ns == mail'
<1>1. ns = RefreshMail(ts, ms, hs, Bots)  OBVIOUS
<1>2. ms[m].bot \in Bots  BY DEF MailRow
<1> HIDE DEF hs, ns
<1>3. /\ SameRow(ms, ns, m) /\ (ns[m].state # "none" => ms[m].state # "none")
      /\ ns[m].state = "held" => MailCovered(hs, ms, m)
    BY <1>1, <1>2, RefreshCovers
<1>4. ns[m].state = "held" => MailCovered(hs, ns, m)  BY <1>3, CoveredSame
<1> QED BY <1>3, <1>4 DEF TurnNamed, StaysCovered, SameRow, hs, ns

LEMMA YouRun ==
    ASSUME TypeOK, You
    PROVE  RunStep
<1>0. items \in [Items -> ItemRow] /\ mail \in [Mails -> MailRow]  BY DEF TypeOK
<1>1. UNCHANGED <<turns, lives, loops>>  BY DEF You, UserLine, Lift, Continue
<1>2. \E hs : Lifted(hs)
    <2>1. ASSUME NEW b \in Bots, NEW j \in Places, NEW asks \in BOOLEAN, UserLine(b, j, asks)
          PROVE  \E hs : Lifted(hs)
        BY <2>1 DEF UserLine
    <2>2. ASSUME NEW h \in Scopes, Lift(h)  PROVE \E hs : Lifted(hs)
        BY <2>2 DEF Lift
    <2>3. ASSUME NEW t \in Turns, Continue(t)  PROVE \E hs : Lifted(hs)
        BY <2>3 DEF Continue
    <2> QED BY <2>1, <2>2, <2>3 DEF You
<1> PICK hs : Lifted(hs)  BY <1>2
<1>3. /\ mail' = RefreshMail(turns, mail, holds', Bots)
      /\ items' = RefreshItems(turns, items, mail, holds \ hs, Bots)
    BY DEF Lifted
<1>4. MailRuns
    <2>1. \A m \in Mails : SameRow(mail, mail, m)  BY DEF SameRow
    <2> QED BY <1>0, <1>3, <2>1, RefreshRuns
<1>5. NoneRuns(items, items')  BY <1>0, <1>3, RefreshNoneRuns
<1> QED BY <1>1, <1>4, <1>5, RowsStay, DesksStay DEF RunStep

LEMMA HoldRuns ==
    ASSUME TypeOK, NEW h \in Scopes, Hold(h)
    PROVE  RunStep
<1>0. items \in [Items -> ItemRow] /\ mail \in [Mails -> MailRow] /\ turns \in [Turns -> TurnRow]
    BY DEF TypeOK
<1>1. MailRuns
    <2>1. \A m \in Mails : SameRow(mail, mail, m)  BY DEF SameRow
    <2>2. mail' = RefreshMail(turns, mail, holds', Bots)  BY DEF Hold
    <2> QED BY <1>0, <2>1, <2>2, RefreshRuns
<1>2. NoneRuns(items, items')
    <2>1. items' = RefreshItems(turns, items, mail, holds', Bots)  BY DEF Hold
    <2> QED BY <1>0, <2>1, RefreshNoneRuns
<1>3. \A t \in Turns : turns'[t] = IF t \in EndedBy(h) THEN [turns[t] EXCEPT !.status = "stopped"]
                                                       ELSE turns[t]
    BY DEF Hold
<1>4. \A t \in Turns :
        /\ turns'[t].item = turns[t].item /\ turns'[t].mode = turns[t].mode
        /\ turns'[t].status = turns[t].status \/ turns'[t].status = "stopped"
    BY <1>0, <1>3 DEF TurnRow
<1>5. UNCHANGED <<lives, loops>>  BY DEF Hold
<1>6. RowsRun /\ LoopsStay  BY <1>4, <1>5 DEF RowsRun, LoopsStay, Live
<1> QED BY <1>1, <1>2, <1>6, DesksStay DEF RunStep

LEMMA AppRuns ==
    ASSUME TypeOK, App
    PROVE  RunStep
<1>1. ASSUME NEW b \in Bots, NEW j \in Jobs, AppWork(b, j)  PROVE RunStep
    <2>1. j \in Places  BY DEF Places
    <2>2. UNCHANGED <<turns, lives, loops, holds>> /\ QueueWork(b, j, said + 1)
        BY <1>1 DEF AppWork
    <2> QED BY <2>1, <2>2, QueueRuns, RowsStay, DesksStay DEF RunStep
<1>2. ASSUME NEW t \in Turns, Sweep(t)  PROVE RunStep
    BY <1>2, NothingRuns DEF Sweep, tables
<1>3. CASE Supervise
    <2>1. items' = [i \in Items |-> Repaired(i)] /\ UNCHANGED <<turns, mail, holds, lives, loops>>
        BY <1>3 DEF Supervise
    <2>2. ASSUME NEW i \in Items, Repaired(i).state = "running"
          PROVE  items[i].state = "running" /\ Repaired(i).job = items[i].job
        <3>1. items[i] \in ItemRow  BY DEF TypeOK
        <3>2. LostRepaired(i) = items[i].state \/ items[i].state = "running"
            BY DEF LostRepaired
        <3>3. MailInLine(i, LostRepaired(i)) \in {LostRepaired(i), "queued"}
            BY DEF MailInLine
        <3>4. /\ Repaired(i).state = MailInLine(i, LostRepaired(i))
              /\ Repaired(i).job = items[i].job
            BY <3>1 DEF Repaired, ItemRow
        <3> QED BY <2>2, <3>2, <3>3, <3>4
    <2>3. NoneRuns(items, items')  BY <2>1, <2>2 DEF NoneRuns
    <2> QED BY <2>1, <2>3, RowsStay, DesksStay, MailStays DEF RunStep
<1> QED BY <1>1, <1>2, <1>3 DEF App

-------------------------------------------------------------------------------
(* The Bot. *)

\* What a turn reads under no stop of its own is held only when a stop covers it.
LEMMA ReadInboxRuns ==
    ASSUME TypeOK, RunsInv, StopsHold, NEW t \in Turns, ReadInbox(t)
    PROVE  RunStep
<1>0. mail \in [Mails -> MailRow]  BY DEF TypeOK
<1>1. UNCHANGED <<turns, items, holds, lives, loops>>  BY DEF ReadInbox
<1>2. Live(t)  BY DEF ReadInbox, Active
<1>3. \A m \in Mails :
        \/ mail'[m] = mail[m]
        \/ /\ mail[m].state = "queued" /\ mail[m].turn = t /\ SameRow(mail, mail', m)
           /\ mail'[m].state = "held" => TurnHeld(t) \/ MailCovered(holds, mail, m)
    <2> DEFINE next(m) == IF TurnHeld(t) \/ MailCovered(holds, mail, m) THEN "held" ELSE "delivered"
    <2>1. \A m \in Mails : mail'[m] = IF mail[m].state = "queued" /\ mail[m].turn = t
                                      THEN [mail[m] EXCEPT !.state = next(m)] ELSE mail[m]
        BY DEF ReadInbox
    <2>2. \A m \in Mails : next(m) = "held" => TurnHeld(t) \/ MailCovered(holds, mail, m)
        OBVIOUS
    <2> HIDE DEF next
    <2> QED BY <1>0, <2>1, <2>2 DEF MailRow, SameRow
<1>4. \A m \in Mails : TurnNamed(m)  BY <1>3 DEF TurnNamed, SameRow
<1>5. ASSUME NEW m \in Mails  PROVE StaysCovered(m)
    <2> SUFFICES ASSUME mail'[m].state = "held"
                 PROVE  MailCovered(holds', mail', m) \/ (mail[m].state = "held" /\ SameRow(mail, mail', m))
        BY <1>1 DEF StaysCovered
    <2>1. CASE mail'[m] = mail[m]  BY <2>1 DEF SameRow
    <2>2. CASE /\ mail[m].state = "queued" /\ mail[m].turn = t /\ SameRow(mail, mail', m)
               /\ TurnHeld(t) \/ MailCovered(holds, mail, m)
        <3>1. Works(t)
            <4>1. t # 0  BY DEF Turns
            <4> QED BY <2>2, <4>1 DEF RunsInv, MailTurnWorks
        <3>2. ~TurnHeld(t)  BY <1>2, <3>1 DEF StopsHold, Works
        <3> QED BY <1>1, <2>2, <3>2, CoveredSame
    <2> QED BY <1>3, <2>1, <2>2
<1>6. MailRuns  BY <1>4, <1>5 DEF MailRuns
<1> QED BY <1>1, <1>6, RowsStay, DesksStay DEF RunStep, NoneRuns

LEMMA EndTurnRuns ==
    ASSUME TypeOK, NEW t \in Turns, NEW how \in {"done", "blocked", "needs_attention"}, EndTurn(t, how)
    PROVE  RunStep
<1>0. items \in [Items -> ItemRow] /\ mail \in [Mails -> MailRow] /\ turns \in [Turns -> TurnRow]
    BY DEF TypeOK
<1>1. UNCHANGED <<holds, lives, loops>>  BY DEF EndTurn, process
<1>2. turns' = [turns EXCEPT ![t].ended = TRUE]  BY DEF EndTurn
<1>3. \A u \in Turns : /\ turns'[u].status = turns[u].status /\ turns'[u].mode = turns[u].mode
                       /\ turns'[u].item = turns[u].item
    BY <1>0, <1>2 DEF TurnRow
<1>4. RowsRun /\ LoopsStay  BY <1>1, <1>3 DEF RowsRun, LoopsStay, Live
<1>5. NoneRuns(items, items')
    <2>1. items' = items \/ \E next \in {how, "closed", "queued", "idle"} :
                               items' = [items EXCEPT ![turns[t].item].state = next]
        BY DEF EndTurn
    <2> QED BY <1>0, <2>1 DEF NoneRuns, ItemRow
<1>6. \A m \in Mails :
        \/ mail'[m] = mail[m]
        \/ mail'[m] = [mail[m] EXCEPT !.state = "answered"] /\ mail[m].state = "delivered"
    BY DEF EndTurn
<1>7. MailRuns  BY <1>0, <1>1, <1>6 DEF MailRuns, TurnNamed, StaysCovered, SameRow, MailRow
<1> QED BY <1>4, <1>5, <1>7, DesksStay DEF RunStep

LEMMA EndsRun ==
    ASSUME TypeOK, NEW t \in Turns,
           Complete(t) \/ \E yoursToFix \in BOOLEAN : Fail(t, yoursToFix)
    PROVE  RunStep
<1>0. items \in [Items -> ItemRow] /\ turns \in [Turns -> TurnRow]  BY DEF TypeOK
<1>1. \A u \in Turns :
        /\ turns'[u].mode = turns[u].mode /\ turns'[u].item = turns[u].item
        /\ \/ u # t /\ turns'[u].status = turns[u].status
           \/ u = t /\ turns'[u].status = "completed"
    BY <1>0 DEF Complete, Fail, TurnRow
<1>2. UNCHANGED <<mail, holds, loops>> /\ lives \subseteq lives' \cup {t}
    BY DEF Complete, Fail
<1>3. RowsRun /\ LoopsStay  BY <1>1, <1>2 DEF RowsRun, LoopsStay, Live
<1>4. items' = items \/ \E ts, cut : items' = CutOff(ts, items, cut)
    BY DEF Complete, Fail
<1>5. NoneRuns(items, items')
    <2>1. CASE items' = items  BY <2>1 DEF NoneRuns
    <2>2. CASE \E ts, cut : items' = CutOff(ts, items, cut)  BY <1>0, <2>2, CutOffNoneRuns
    <2> QED BY <1>4, <2>1, <2>2
<1> QED BY <1>2, <1>3, <1>5, DesksStay, MailStays DEF RunStep
\* What a turn left unread names it still, and is held only when a stop covers it; its desk stops
\* saying running, unless another live turn is on it.
LEMMA UnwindRuns ==
    ASSUME TypeOK, RunsInv, NEW t \in Turns, Unwind(t)
    PROVE  RunStep
<1> DEFINE i == turns[t].item
<1>0. items \in [Items -> ItemRow] /\ turns \in [Turns -> TurnRow] /\ mail \in [Mails -> MailRow]
    BY DEF TypeOK
<1>1. PICK ts, is, cut, ids :
        /\ turns' = ts
        /\ is = Requeued(ts, CutOff(ts, items, cut), ids)
        /\ \/ items' = is /\ (i = 0 \/ is[i].state # "running" \/ LiveItem(ts, i))
           \/ \E next \in {"closed", "idle"} : i # 0 /\ items' = [is EXCEPT ![i].state = next]
    BY DEF Unwind
<1>2. NoneRuns(items, is) /\ is \in [Items -> ItemRow]
    <2>1. CutOff(ts, items, cut) \in [Items -> ItemRow]  BY <1>0, CutOffTyped
    <2>2. NoneRuns(items, CutOff(ts, items, cut))  BY <1>0, CutOffNoneRuns
    <2>3. NoneRuns(CutOff(ts, items, cut), is)  BY <1>1, <2>1, RequeueNoneRuns
    <2>4. is \in [Items -> ItemRow]  BY <1>1, <2>1, RequeuedTyped
    <2> QED BY <2>2, <2>3, <2>4 DEF NoneRuns
<1>3. /\ lives' = lives \ {t} /\ loops' = loops \ {t} /\ UNCHANGED holds
    BY DEF Unwind, Detached
<1>4. /\ \A u \in Turns \ {t} : turns'[u] = turns[u]
      /\ turns'[t].status # "running" /\ turns'[t].mode = turns[t].mode /\ turns'[t].item = i
      /\ turns[t].status # "none" => turns'[t].status # "none"
    <2>1. turns' = IF Live(t) THEN [turns EXCEPT ![t].status = "interrupted", ![t].note = TRUE]
                              ELSE turns
        BY DEF Unwind
    <2> QED BY <1>0, <2>1 DEF TurnRow, Live
<1>5. RowsRun  BY <1>3, <1>4 DEF RowsRun, Live
<1>6. DesksRun
    <2> SUFFICES ASSUME NEW k \in Items, items'[k].state = "running", items'[k].job = Desk
                 PROVE  \/ \E u \in loops' : turns'[u].item = k
                        \/ /\ items[k].state = "running" /\ items[k].job = Desk
                           /\ \A u \in Turns : u \in loops /\ turns[u].status # "none" /\ turns[u].item = k =>
                                 u \in loops' /\ turns'[u].item = k
        BY DEF DesksRun
    <2>1. is[k].state = "running" /\ items'[k].job = is[k].job
          /\ (k = i => items' = is /\ LiveItem(ts, i))
        <3>1. i \in Items \cup {0} /\ 0 \notin Items  BY <1>0 DEF TurnRow, Items
        <3>2. CASE items' = is /\ (i = 0 \/ is[i].state # "running" \/ LiveItem(ts, i))
            BY <3>1, <3>2
        <3>3. ASSUME NEW next \in {"closed", "idle"}, items' = [is EXCEPT ![i].state = next]
              PROVE  /\ is[k].state = "running" /\ items'[k].job = is[k].job
                     /\ k # i
            BY <1>2, <3>3 DEF ItemRow
        <3> QED BY <1>1, <3>2, <3>3
    <2>2. items[k].state = "running" /\ items[k].job = Desk  BY <1>2, <2>1 DEF NoneRuns
    <2>3. CASE k = i
        <3>1. PICK u \in Turns : turns'[u].status = "running" /\ turns'[u].item = k
            BY <1>1, <2>1, <2>3 DEF LiveItem
        <3>2. u # t /\ Live(u)  BY <1>4, <3>1 DEF Live
        <3>3. u \in loops'  BY <1>3, <3>2 DEF RunsInv, LiveIsRun
        <3> QED BY <3>1, <3>3
    <2>4. CASE k # i  BY <1>3, <1>4, <2>2, <2>4
    <2> QED BY <2>3, <2>4
<1>7. MailRuns
    <2> SUFFICES ASSUME NEW m \in Mails  PROVE TurnNamed(m) /\ StaysCovered(m)
        BY DEF MailRuns
    <2> DEFINE it == IF mail[m].item = 0 THEN i ELSE mail[m].item
    <2>1. \/ mail'[m] = mail[m]
          \/ mail'[m] = [mail[m] EXCEPT !.state = "unacked"] /\ mail[m].state = "delivered"
          \/ /\ Unread(m)
             /\ mail'[m] = [mail[m] EXCEPT !.item = it,
                               !.state = IF MailCovered(holds, mail, m) THEN "held" ELSE mail[m].state]
        BY <1>0 DEF Unwind, MailRow
    <2>2. mail[m] \in MailRow  BY <1>0
    <2> HIDE DEF it
    <2>3. /\ SameRow(mail, mail', m) /\ (mail'[m].state # "none" => mail[m].state # "none")
          /\ mail'[m].state = "held" => MailCovered(holds, mail, m) \/ mail[m].state = "held"
        BY <2>1, <2>2 DEF SameRow, MailRow, Unread
    <2>4. TurnNamed(m)  BY <2>3 DEF TurnNamed, SameRow
    <2>5. StaysCovered(m)
        <3>1. CASE MailCovered(holds, mail, m)
            BY <1>3, <2>3, <3>1, CoveredSame DEF StaysCovered
        <3>2. CASE ~MailCovered(holds, mail, m)
            BY <1>3, <2>3, <3>2 DEF StaysCovered
        <3> QED BY <3>1, <3>2
    <2> QED BY <2>4, <2>5
<1> QED BY <1>5, <1>6, <1>7 DEF RunStep

\* No row is live after the process has died, and no desk says running.
LEMMA CrashRuns ==
    ASSUME TypeOK, TypeOK', Crash
    PROVE  RunStep
<1>0. mail \in [Mails -> MailRow] /\ turns \in [Turns -> TurnRow] /\ items \in [Items -> ItemRow]
    BY DEF TypeOK
<1>1. turns' = [u \in Turns |-> IF u \in {v \in Turns : Live(v)}
                   THEN [turns[u] EXCEPT !.status = "interrupted", !.note = TRUE] ELSE turns[u]]
    BY DEF Crash
<1>2. \A u \in Turns : /\ turns[u].status # "none" => turns'[u].status # "none"
                       /\ turns'[u].status # "running" /\ turns'[u].mode = turns[u].mode
    BY <1>0, <1>1 DEF Live, TurnRow
<1>3. loops' = {} /\ UNCHANGED holds  BY DEF Crash
<1>4. RowsRun  BY <1>2, <1>3 DEF RowsRun
<1>5. DesksRun
    <2>1. PICK is : items' = DesksClosed(is)  BY DEF Crash
    <2>2. ASSUME NEW k \in Items, items'[k].state = "running"  PROVE items'[k].job # Desk
        <3>1. items'[k] = IF is[k].job = Desk /\ is[k].state = "running"
                          THEN [is[k] EXCEPT !.state = "closed"] ELSE is[k]
            BY <2>1 DEF DesksClosed
        <3>2. items'[k] \in ItemRow  BY DEF TypeOK
        <3>3. CASE is[k].job = Desk /\ is[k].state = "running"
            <4>1. items'[k] = [is[k] EXCEPT !.state = "closed"]  BY <3>1, <3>3
            <4>2. "state" \in DOMAIN items'[k]  BY <3>2 DEF ItemRow
            <4>3. items'[k].state = "closed"  BY <4>1, <4>2
            <4> QED BY <2>2, <4>3
        <3>4. CASE ~(is[k].job = Desk /\ is[k].state = "running")
            BY <2>2, <3>1, <3>4
        <3> QED BY <3>3, <3>4
    <2> QED BY <2>2 DEF DesksRun
<1>6. MailRuns
    <2> DEFINE ms == [m \in Mails |-> IF mail[m].state = "delivered" /\ lines[mail[m].line].yours
                   THEN [mail[m] EXCEPT !.state = "unacked"] ELSE mail[m]]
               ts == [t \in Turns |-> IF t \in {u \in Turns : Live(u)}
                   THEN [turns[t] EXCEPT !.status = "interrupted", !.note = TRUE] ELSE turns[t]]
    <2>1. mail' = RefreshMail(ts, ms, holds, Bots)  BY DEF Crash
    <2>2. ms \in [Mails -> MailRow]  BY <1>0 DEF MailRow
    <2>3. \A m \in Mails : SameRow(mail, ms, m) /\ (ms[m].state # "none" => mail[m].state # "none")
        BY <1>0 DEF SameRow, MailRow
    <2> HIDE DEF ms, ts
    <2>4. mail' = RefreshMail(ts, ms, holds', Bots)  BY <1>3, <2>1
    <2> QED BY <2>2, <2>3, <2>4, RefreshRuns
<1> QED BY <1>4, <1>5, <1>6 DEF RunStep
\* A segment that takes up a job runs its item, and leaves the desk it was at closed or idle, unless
\* another live segment is on that.
LEMMA WorkOnRuns ==
    ASSUME TypeOK, RunsInv, NEW t \in Turns, NEW j \in Jobs, WorkOn(t, j)
    PROVE  RunStep
<1> DEFINE b == turns[t].bot
           l == turns[t].trigger
           was == turns[t].item
<1>0. /\ items \in [Items -> ItemRow] /\ turns \in [Turns -> TurnRow] /\ b \in Bots /\ j \in Places
    BY DEF TypeOK, TurnRow, Places
<1>1. /\ Live(t) /\ turns[t].mode # "readonly" /\ t \in loops
      /\ UNCHANGED <<holds, lives, loops>>
    BY DEF WorkOn, Active, RunsInv, LiveIsRun
<1>2. CASE /\ turns' = [turns EXCEPT ![t].ended = TRUE]
           /\ \/ UNCHANGED items /\ \E u \in LiveOn(b, j) \ {t}, m \in Mails :
                    PutMail(m, [state |-> "queued", bot |-> b, job |-> j, turn |-> u, item |-> 0, line |-> l])
              \/ QueueWork(b, j, l)
    <2>1. \A u \in Turns : /\ turns'[u].status = turns[u].status /\ turns'[u].mode = turns[u].mode
                           /\ turns'[u].item = turns[u].item
        BY <1>0, <1>2 DEF TurnRow
    <2>2. RowsRun /\ LoopsStay  BY <1>1, <2>1 DEF RowsRun, LoopsStay, Live
    <2>3. CASE QueueWork(b, j, l)
        <3>1. NoneRuns(items, items') /\ MailRuns  BY <1>0, <1>1, <2>3, QueueRuns
        <3> QED BY <2>2, <3>1, DesksStay DEF RunStep
    <2>4. ASSUME NEW u \in LiveOn(b, j) \ {t}, NEW m \in Mails, UNCHANGED items,
                 PutMail(m, [state |-> "queued", bot |-> b, job |-> j, turn |-> u, item |-> 0, line |-> l])
          PROVE  RunStep
        <3> DEFINE row == [state |-> "queued", bot |-> b, job |-> j, turn |-> u, item |-> 0, line |-> l]
        <3>1. u \in Turns /\ turns[u].status # "none" /\ turns[u].mode # "readonly"
            BY DEF LiveOn, LiveOf, Live
        <3>2. PutMail(m, row) /\ row.state = "queued" /\ row.turn = u  BY <2>4
        <3> HIDE DEF row
        <3>3. MailRuns  BY <1>1, <2>1, <3>1, <3>2, PutRuns
        <3>4. NoneRuns(items, items')  BY <2>4 DEF NoneRuns
        <3> QED BY <2>2, <3>3, <3>4, DesksStay DEF RunStep
    <2> QED BY <1>2, <2>3, <2>4
<1>3. ASSUME NEW i \in Items, Moved(t, i, j), UNCHANGED mail  PROVE RunStep
    <2> DEFINE ts == [turns EXCEPT ![t].job = j, ![t].item = i, ![t].mode = "work"]
               is == WithItem(i, b, j)
    <2>1. /\ IsItemFor(i, b, j) /\ turns' = ts
          /\ items' = IF LiveItem(ts, was) \/ is[was].state = "closed" THEN is
                      ELSE IF \E m \in Mails : Unread(m) /\ mail[m].item = was
                      THEN IF is[was].state = "running" THEN [is EXCEPT ![was].state = "idle"] ELSE is
                      ELSE [is EXCEPT ![was].state = "closed"]
        BY <1>3 DEF Moved
    <2>2. is \in [Items -> ItemRow]  BY <1>0, WithItemTyped
    <2>3. \A k \in Items \ {i} : is[k] = items[k]  BY <1>0, <2>1, FoundNoneRuns
    <2>4. /\ turns'[t].status = "running" /\ turns'[t].item = i /\ turns'[t].mode = "work"
          /\ \A u \in Turns \ {t} : turns'[u] = turns[u]
        BY <1>0, <1>1, <2>1 DEF Live, TurnRow
    <2> HIDE DEF is
    <2>5. \A k \in Items : items'[k].state = "running" =>
              items'[k] = is[k] /\ (k = was => LiveItem(ts, was))
        BY <2>1, <2>2 DEF ItemRow
    <2>6. RowsRun  BY <1>1, <2>4 DEF RowsRun, Live
    <2>7. MailRuns  BY <1>1, <1>3, MailStays
    <2>8. DesksRun
        <3> SUFFICES ASSUME NEW k \in Items, items'[k].state = "running", items'[k].job = Desk
                     PROVE  \/ \E u \in loops' : turns'[u].item = k
                            \/ /\ items[k].state = "running" /\ items[k].job = Desk
                               /\ \A u \in Turns : u \in loops /\ turns[u].status # "none" /\ turns[u].item = k =>
                                     u \in loops' /\ turns'[u].item = k
            BY DEF DesksRun
        <3>1. CASE k = i  BY <1>1, <2>4, <3>1
        <3>2. CASE k # i /\ k # was  BY <1>1, <2>3, <2>4, <2>5, <3>2
        <3>3. CASE k # i /\ k = was
            <4>1. PICK u \in Turns : turns'[u].status = "running" /\ turns'[u].item = k
                BY <2>1, <2>5, <3>3 DEF LiveItem
            <4>2. u # t /\ Live(u)  BY <2>4, <3>3, <4>1 DEF Live
            <4>3. u \in loops'  BY <1>1, <4>2 DEF RunsInv, LiveIsRun
            <4> QED BY <4>1, <4>3
        <3> QED BY <3>1, <3>2, <3>3
    <2> QED BY <2>6, <2>7, <2>8 DEF RunStep
<1> QED BY <1>1, <1>2, <1>3 DEF WorkOn, Moved

-------------------------------------------------------------------------------

LEMMA StepRuns == TypeOK /\ TypeOK' /\ RunsInv /\ StopsHold /\ [Next]_vars => RunStep
<1> SUFFICES ASSUME TypeOK, TypeOK', RunsInv, StopsHold, [Next]_vars PROVE RunStep
    OBVIOUS
<1>1. CASE You  BY <1>1, YouRun
<1>2. CASE Stop  BY <1>2, HoldRuns DEF Stop
<1>3. ASSUME NEW t \in Turns, Bot(t)  PROVE RunStep
    BY <1>3, ReadInboxRuns, WorkOnRuns, EndTurnRuns, EndsRun, UnwindRuns DEF Bot
<1>4. CASE App  BY <1>4, AppRuns
<1>5. CASE Rest  BY <1>5, RestRuns
<1>6. CASE Crash  BY <1>6, CrashRuns
<1>7. CASE UNCHANGED vars  BY <1>7, NothingRuns DEF vars, tables, process
<1> QED BY <1>1, <1>2, <1>3, <1>4, <1>5, <1>6, <1>7 DEF Next

\* Nothing else of a handler is left beside a line that is to be routed.
LEMMA StepAlone == TypeOK /\ RoutesAlone /\ [Next]_vars => RoutesAlone'
<1> SUFFICES ASSUME TypeOK, RoutesAlone, [Next]_vars PROVE RoutesAlone'
    OBVIOUS
<1>0. todo \in Todo  BY DEF TypeOK
<1>1. CASE You  BY <1>1 DEF You, UserLine, Lift, Continue, RoutesAlone, Nothing
<1>2. CASE Stop  BY <1>2 DEF Stop, Hold, RoutesAlone
<1>3. ASSUME NEW t \in Turns, Bot(t)  PROVE RoutesAlone'
    <2>1. \/ UNCHANGED todo
          \/ todo' = [Nothing EXCEPT !.over = t]
          \/ todo' = [Nothing EXCEPT !.reopen = t, !.unheard = cache[t], !.dispatch = TRUE]
        BY <1>3 DEF Bot, ReadInbox, WorkOn, EndTurn, Complete, Fail, Unwind, process
    <2> QED BY <2>1 DEF RoutesAlone, Nothing
<1>4. CASE App  BY <1>4 DEF App, AppWork, Sweep, Supervise, RoutesAlone, Nothing
<1>5. CASE Rest
    <2>1. CASE Route \/ ClaimContinue \/ Dispatch
        <3>1. todo' = Nothing \/ \E is : todo' = [Nothing EXCEPT !.admit = is]
            BY <2>1 DEF Route, ClaimContinue, Dispatch
        <3>2. todo'.route = 0  BY <3>1 DEF Nothing
        <3> QED BY <3>2 DEF RoutesAlone
    <2>2. CASE Reopen  BY <1>0, <2>2 DEF Reopen, RoutesAlone, Todo
    <2>3. CASE Resume
        <3>1. PICK t \in todo.resume :
                LET rest == [todo EXCEPT !.resume = @ \ {t}]
                IN todo' = rest \/ todo' = [rest EXCEPT !.takeup = {l \in @ : lines[l].bot # turns[t].bot}]
            BY <2>3 DEF Resume
        <3> QED BY <1>0, <3>1 DEF RoutesAlone, Todo
    <2>4. CASE TakeUp
        <3>1. \E l \in todo.takeup : todo' = [todo EXCEPT !.takeup = @ \ {l}]
            BY <2>4 DEF TakeUp
        <3> QED BY <1>0, <3>1 DEF RoutesAlone, Todo
    <2>5. CASE PickUp
        <3>1. \E i \in todo.pick : todo' = [todo EXCEPT !.pick = @ \ {i}]
            BY <2>5 DEF PickUp
        <3> QED BY <1>0, <3>1 DEF RoutesAlone, Todo
    <2>6. CASE Admit
        <3>1. \E i \in todo.admit : todo' = [todo EXCEPT !.admit = @ \ {i}]
            BY <2>6 DEF Admit
        <3> QED BY <1>0, <3>1 DEF RoutesAlone, Todo
    <2> QED BY <1>5, <2>1, <2>2, <2>3, <2>4, <2>5, <2>6 DEF Rest
<1>6. CASE Crash  BY <1>6 DEF Crash, RoutesAlone, Nothing
<1>7. CASE UNCHANGED vars  BY <1>7 DEF vars, process, RoutesAlone
<1> QED BY <1>1, <1>2, <1>3, <1>4, <1>5, <1>6, <1>7 DEF Next

\* What the next theorems rest on: a live row is run, a desk that says running has a loop on it, mail
\* names turns that can work, and a line to be routed is alone in its handler.
THEOREM RunsInvHolds == Spec => []RunsInv
<1>1. Init => RunsInv
    BY DEF Init, RunsInv, LiveIsRun, Live, DesksAreRun, MailTurnWorks, HeldMeansCovered, RoutesAlone, Nothing
<1>2. TypeOK /\ TypeOK' /\ RunsInv /\ StopsHold /\ [Next]_vars => RunsInv'
    <2>1. RunsInv => RoutesAlone  BY DEF RunsInv
    <2> QED BY <2>1, StepRuns, StepAlone, RunsKept
<1> QED BY <1>1, <1>2, TypeCorrect, StopsAreKept, PTL DEF Spec

\* A line under which you read "held" has a stop in force that covers it: a lift, a crash, a turn
\* that reads it under its own stop and one that ends without reading it leave none behind
\* (store/inbox.ts refreshHeldInbox, releaseTurnInbox; engine/hops.ts).
THEOREM HeldIsCovered == Spec => []HeldMeansCovered
<1>1. RunsInv => HeldMeansCovered  BY DEF RunsInv
<1> QED BY <1>1, RunsInvHolds, PTL

\* A desk that says running has a segment on it, live or not yet unwound: whichever segment leaves
\* it, by its end, for a job or with the process, closes it or leaves it to another
\* (store/work-items.ts settleEndedSegment, closeWorkItemIfIdle, settleRunningWork).
THEOREM RunningDesksAreRun == Spec => []RunningIsRun
<1>1. TypeOK /\ RunsInv => RunningIsRun
    <2> SUFFICES ASSUME TypeOK, RunsInv, NEW i \in Items, items[i].state = "running", items[i].job = Desk
                 PROVE  \E t \in Segments(i) : Live(t) \/ t \in loops
        BY DEF RunningIsRun
    <2> PICK t \in loops : turns[t].item = i  BY DEF RunsInv, DesksAreRun
    <2>1. t \in Turns  BY DEF TypeOK
    <2>2. t \in Segments(i)  BY <2>1 DEF RunsInv, LiveIsRun, Segments
    <2> QED BY <2>2
<1> QED BY <1>1, RunsInvHolds, TypeCorrect, PTL
-------------------------------------------------------------------------------
(* A routed line. *)

Lands(l) ==
    \/ \E t \in Turns : turns'[t].status = "running" /\ turns'[t].trigger = l
    \/ \E m \in Mails : mail'[m].line = l /\ mail'[m].state \in Heard

LEMMA PutLands ==
    ASSUME TypeOK, NEW m \in Mails, NEW row, NEW l, PutMail(m, row), row.line = l, row.state = "queued",
           DOMAIN row = {"state", "bot", "job", "turn", "item", "line"}
    PROVE  Lands(l)
<1>0. mail \in [Mails -> MailRow]  BY DEF TypeOK
<1>1. CASE m \in SameMail(row) /\ UNCHANGED mail
    <2>1. mail[m].state \in Heard /\ [mail[m] EXCEPT !.state = row.state, !.item = row.item] = row
        BY <1>1 DEF SameMail
    <2>2. mail[m].line = l  BY <1>0, <2>1 DEF MailRow
    <2> QED BY <1>1, <2>1, <2>2 DEF Lands
<1>2. CASE mail' = [mail EXCEPT ![m] = row]
    <2>1. mail'[m] = row  BY <1>0, <1>2
    <2> QED BY <2>1 DEF Lands, Heard
<1> QED BY <1>1, <1>2 DEF PutMail, Least

LEMMA HearLands ==
    ASSUME TypeOK, NEW t \in Turns, NEW l, HearIn(t, l)
    PROVE  Lands(l)
<1> DEFINE row == [state |-> "queued", bot |-> turns[t].bot, item |-> 0, line |-> l, turn |-> t,
                   job |-> IF lines[l].job = Desk THEN turns[t].job ELSE lines[l].job]
<1> PICK m \in Mails : PutMail(m, row)  BY DEF HearIn
<1>1. /\ row.state = "queued" /\ row.line = l
      /\ DOMAIN row = {"state", "bot", "job", "turn", "item", "line"}
    OBVIOUS
<1> HIDE DEF row
<1> QED BY <1>1, PutLands

LEMMA QueueLands ==
    ASSUME TypeOK, NEW b \in Bots, NEW j \in Places, NEW l, QueueWork(b, j, l)
    PROVE  Lands(l)
<1>1. CASE UNCHANGED mail /\ \E m \in Mails : mail[m].line = l /\ mail[m].state \in Heard
    BY <1>1 DEF Lands
<1>2. ASSUME NEW i \in Items, NEW m \in Mails,
             PutMail(m, [state |-> "queued", bot |-> b, job |-> j, turn |-> 0, item |-> i, line |-> l])
      PROVE  Lands(l)
    <2> DEFINE row == [state |-> "queued", bot |-> b, job |-> j, turn |-> 0, item |-> i, line |-> l]
    <2>1. /\ PutMail(m, row) /\ row.state = "queued" /\ row.line = l
          /\ DOMAIN row = {"state", "bot", "job", "turn", "item", "line"}
        BY <1>2
    <2> HIDE DEF row
    <2> QED BY <2>1, PutLands
<1> QED BY <1>1, <1>2 DEF QueueWork

\* Where no stop turns the line away and no turn cut off is still on the plan, the database does
\* not refuse the turn that opens: what is live there would have heard it.
LEMMA NotRefused ==
    ASSUME TypeOK, LiveIsRun, LeaseInv, StopsHold, NEW b \in Bots, NEW j \in Places, NEW l,
           LineHeld(b, j, l) = {}, j = Desk \/ LiveOn(b, j) \cap aborted = {}, HearersAt(b, j) = {}
    PROVE  ~Refused(b, j, l)
<1>1. LiveOn(b, j) = {}
    <2>1. CASE j = Desk  BY <2>1 DEF HearersAt
    <2>2. CASE j # Desk
        <3> SUFFICES ASSUME NEW t \in LiveOn(b, j)  PROVE FALSE
            OBVIOUS
        <3>1. t \in Turns /\ Live(t) /\ turns[t].mode # "readonly"  BY DEF LiveOn, LiveOf
        <3>2. t \in lives \ aborted /\ ~TurnHeld(t)
            BY <2>2, <3>1 DEF LiveIsRun, StopsHold
        <3> QED BY <2>2, <3>2 DEF HearersAt, Listening
    <2> QED BY <2>1, <2>2
<1>2. ASSUME NEW i \in OpenItems(b, j), NEW u \in Turns, turns[u].status = "running", turns[u].item = i
      PROVE  FALSE
    <2>1. i # 0 /\ items[i].bot = b /\ items[i].job = j  BY DEF OpenItems, Items
    <2>2. turns[u].mode # "readonly" /\ turns[u].bot = b /\ turns[u].job = j
        BY <1>2, <2>1 DEF LeaseInv, Filed, Live
    <2>3. u \in LiveOn(b, j)  BY <1>2, <2>2 DEF LiveOn, LiveOf, Live
    <2> QED BY <1>1, <2>3
<1> QED BY <1>1, <1>2 DEF Refused, LiveItem

LEMMA StartLands ==
    ASSUME TypeOK, LiveIsRun, LeaseInv, StopsHold, NEW b \in Bots, NEW j \in Places, NEW l, NEW yourLine,
           LineHeld(b, j, l) = {}, j = Desk \/ LiveOn(b, j) \cap aborted = {},
           StartTurn(b, j, l, yourLine)
    PROVE  Lands(l)
<1>1. CASE \E t \in HearersAt(b, j) : HearIn(t, l)
    BY <1>1, HearLands DEF HearersAt, Listening, LiveOn, LiveOf
<1>2. CASE QueueWork(b, j, l)  BY <1>2, QueueLands
<1>3. CASE HearersAt(b, j) = {} /\ ~Refused(b, j, l) /\ OpenTurn(turns, b, j, l, FALSE)
    <2> PICK t \in Turns, i \in Items :
            turns' = [turns EXCEPT ![t] =
                [status |-> "running", bot |-> b, job |-> j, item |-> i, trigger |-> l,
                 mode |-> IF j = Desk THEN "desk" ELSE "work", ended |-> FALSE, note |-> FALSE]]
        BY <1>3 DEF OpenTurn
    <2>1. turns'[t].status = "running" /\ turns'[t].trigger = l  BY DEF TypeOK
    <2> QED BY <2>1 DEF Lands
<1>4. CASE HearersAt(b, j) = {} /\ Refused(b, j, l)  BY <1>4, NotRefused
<1> QED BY <1>1, <1>2, <1>3, <1>4 DEF StartTurn

LEMMA RouteLands ==
    ASSUME TypeOK, LiveIsRun, LeaseInv, StopsHold, Route,
           LineHeld(lines[todo.route].bot, lines[todo.route].job, todo.route) = {},
           \/ lines[todo.route].job = Desk
           \/ LiveOn(lines[todo.route].bot, lines[todo.route].job) \cap aborted = {}
    PROVE  Lands(todo.route)
<1> DEFINE l == todo.route
           b == lines[l].bot
           j == lines[l].job
<1>1. l \in Lines  BY DEF TypeOK, Todo, Route
<1>2. b \in Bots /\ j \in Places  BY <1>1 DEF TypeOK, LineRow
<1>3. CASE StartTurn(b, j, l, TRUE)
    <2>1. LineHeld(b, j, l) = {} /\ (j = Desk \/ LiveOn(b, j) \cap aborted = {})  OBVIOUS
    <2> HIDE DEF l, b, j
    <2>2. Lands(l)  BY <1>2, <1>3, <2>1, StartLands
    <2> QED BY <2>2 DEF l
<1>4. CASE \E t \in Listening(b, j) : HearIn(t, l)
    BY <1>4, HearLands DEF Listening, LiveOn, LiveOf
<1>5. HearOrStart(b, j, l, TRUE) \/ StartTurn(b, j, l, TRUE)  BY DEF Route
<1> QED BY <1>3, <1>4, <1>5 DEF HearOrStart

\* Only Route takes a line that is to be routed, unless the process dies.
LEMMA OnlyRouteRoutes ==
    ASSUME TypeOK, RoutesAlone, [Next]_vars, todo.route # 0, todo'.route = 0, crashes' = crashes
    PROVE  Route
<1>0. todo \in Todo /\ ~Free
    BY DEF TypeOK, Free, Nothing
<1>1. ~You  BY <1>0 DEF You, UserLine, Lift, Continue
<1>2. ~Stop  BY <1>0 DEF Stop, Hold
<1>3. ASSUME NEW t \in Turns  PROVE ~Bot(t)
    <2>1. t # 0  BY DEF Turns
    <2> QED BY <1>0, <2>1 DEF Bot, ReadInbox, WorkOn, EndTurn, Complete, Fail, Unwind, RoutesAlone
<1>4. ~App  BY <1>0 DEF App, AppWork, Sweep, Supervise
<1>5. CASE Rest
    <2>1. CASE Reopen  BY <1>0, <2>1 DEF Reopen, Todo
    <2>2. CASE Resume
        <3>1. PICK t \in todo.resume :
                LET rest == [todo EXCEPT !.resume = @ \ {t}]
                IN todo' = rest \/ todo' = [rest EXCEPT !.takeup = {l \in @ : lines[l].bot # turns[t].bot}]
            BY <2>2 DEF Resume
        <3> QED BY <1>0, <3>1 DEF Todo
    <2>3. CASE TakeUp
        <3>1. \E l \in todo.takeup : todo' = [todo EXCEPT !.takeup = @ \ {l}]
            BY <2>3 DEF TakeUp
        <3> QED BY <1>0, <3>1 DEF Todo
    <2>4. CASE PickUp
        <3>1. \E i \in todo.pick : todo' = [todo EXCEPT !.pick = @ \ {i}]
            BY <2>4 DEF PickUp
        <3> QED BY <1>0, <3>1 DEF Todo
    <2>5. CASE Admit
        <3>1. \E i \in todo.admit : todo' = [todo EXCEPT !.admit = @ \ {i}]
            BY <2>5 DEF Admit
        <3> QED BY <1>0, <3>1 DEF Todo
    <2>6. ~ClaimContinue  BY DEF ClaimContinue, RoutesAlone
    <2>7. ~Dispatch
        <3>1. [Nothing EXCEPT !.dispatch = TRUE].route = 0  BY DEF Nothing
        <3> QED BY <3>1 DEF Dispatch
    <2> QED BY <1>5, <2>1, <2>2, <2>3, <2>4, <2>5, <2>6, <2>7 DEF Rest
<1>6. ~Crash
    <2>1. crashes \in Int  BY DEF TypeOK
    <2>2. crashes' # crashes + 1  BY <2>1
    <2> QED BY <2>2 DEF Crash
<1>7. ~UNCHANGED vars  BY DEF vars, process
<1> QED BY <1>1, <1>2, <1>3, <1>4, <1>5, <1>6, <1>7 DEF Next

\* A step of RoutedLineLands.
RouteHolds ==
    LET l == todo.route
        b == lines[l].bot
        j == lines[l].job
    IN l # 0 /\ todo'.route = 0 /\ LineHeld(b, j, l) = {}
       /\ (j = Desk \/ LiveOn(b, j) \cap aborted = {})
       /\ crashes' = crashes
       => \/ \E t \in Turns : Live(t)' /\ turns'[t].trigger = l
          \/ \E m \in Mails : mail'[m].line = l /\ mail'[m].state \in Heard

\* Your line, once routed, is a turn's to answer, waits in an inbox or has been read, whatever its
\* Bot was doing: no line is lost to a turn refused (engine/participation.ts, lifecycle.ts).
THEOREM RoutedLinesLand == Spec => RoutedLineLands
<1>1. TypeOK /\ RunsInv /\ LeaseInv /\ StopsHold /\ [Next]_vars => RouteHolds
    BY OnlyRouteRoutes, RouteLands DEF RouteHolds, RunsInv, Lands, Live
<1> QED BY <1>1, TypeCorrect, RunsInvHolds, LeaseInvHolds, StopsAreKept, PTL
    DEF Spec, RoutedLineLands, RouteHolds


=============================================================================
