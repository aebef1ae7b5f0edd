-------------------------- MODULE WorkKernel_proofs --------------------------
(* What holds of WorkKernel for every set of Bots, plans, jobs and stops, every *)
(* limit and every bound.                                                       *)
EXTENDS WorkKernel, WellFoundedInduction, FiniteSetTheorems, TLAPS

-------------------------------------------------------------------------------
(* Type correctness.  The writes that several handlers share come first. *)

\* What a handler may write of the rows, of answered and of the process, typed.
WritesTyped ==
    /\ turns' \in [Turns -> TurnRow]
    /\ items' \in [Items -> ItemRow]
    /\ mail' \in [Mails -> MailRow]
    /\ cache' \in [Turns -> SUBSET Mails]
    /\ lives' \subseteq Turns /\ lives \subseteq lives'
    /\ loops' \subseteq Turns

LEMMA WithItemTyped ==
    ASSUME TypeOK, NEW b \in Bots, NEW j \in Places, NEW i \in Items
    PROVE  WithItem(i, b, j) \in [Items -> ItemRow]
BY DEF TypeOK, WithItem, ItemRow

LEMMA RequeuedTyped ==
    ASSUME NEW ts, NEW is \in [Items -> ItemRow], NEW ids
    PROVE  Requeued(ts, is, ids) \in [Items -> ItemRow]
BY DEF Requeued, ItemRow

LEMMA RefreshTyped ==
    ASSUME NEW ts, NEW is \in [Items -> ItemRow], NEW ms \in [Mails -> MailRow], NEW hs, NEW bs
    PROVE  /\ RefreshMail(ts, ms, hs, bs) \in [Mails -> MailRow]
           /\ RefreshItems(ts, is, ms, hs, bs) \in [Items -> ItemRow]
<1>1. RefreshMail(ts, ms, hs, bs) \in [Mails -> MailRow]
    BY DEF RefreshMail, MailRow
<1>2. RefreshItems(ts, is, ms, hs, bs) \in [Items -> ItemRow]
    BY RequeuedTyped DEF RefreshItems
<1> QED BY <1>1, <1>2

LEMMA AdoptedTyped ==
    ASSUME NEW ts \in [Turns -> TurnRow], NEW ms \in [Mails -> MailRow], NEW t \in Turns
    PROVE  Adopted(ts, ms, t) \in [Mails -> MailRow]
<1>1. ts[t].item \in Items \cup {0}  BY DEF TurnRow
<1>2. /\ Adopted(ts, ms, t) = [m \in Mails |-> Adopted(ts, ms, t)[m]]
      /\ \A m \in Mails : \/ Adopted(ts, ms, t)[m] = ms[m]
                         \/ Adopted(ts, ms, t)[m] = [ms[m] EXCEPT !.turn = t, !.item = ts[t].item]
                         \/ Adopted(ts, ms, t)[m] = [ms[m] EXCEPT !.state = "superseded"]
    BY DEF Adopted
<1>3. \A m \in Mails : Adopted(ts, ms, t)[m] \in MailRow
    <2> PICK i \in Items \cup {0} : i = ts[t].item  BY <1>1
    <2> TAKE m \in Mails
    <2>1. ms[m] \in MailRow  OBVIOUS
    <2>2. [ms[m] EXCEPT !.turn = t, !.item = i] \in MailRow  BY <2>1 DEF MailRow
    <2>3. [ms[m] EXCEPT !.state = "superseded"] \in MailRow  BY <2>1 DEF MailRow
    <2> QED BY <1>2, <2>1, <2>2, <2>3
<1> QED BY <1>2, <1>3

LEMMA OpenTurnTyped ==
    ASSUME TypeOK, NEW from \in [Turns -> TurnRow], NEW b \in Bots, NEW j \in Places,
           NEW l \in Lines, NEW mark \in BOOLEAN, OpenTurn(from, b, j, l, mark)
    PROVE  WritesTyped
<1> DEFINE Row(i) == [status |-> "running", bot |-> b, job |-> j, item |-> i, trigger |-> l,
                      mode |-> IF j = Desk THEN "desk" ELSE "work",
                      ended |-> FALSE, note |-> FALSE]
           Rows(t, i) == [from EXCEPT ![t] = Row(i)]
           Its(t, i) == RefreshItems(Rows(t, i), WithItem(i, b, j), mail, holds, {b})
<1> PICK t \in Turns, i \in Items :
        /\ turns' = Rows(t, i)
        /\ items' = IF mark /\ Its(t, i)[i].state = "queued"
                    THEN [Its(t, i) EXCEPT ![i].state = "running"] ELSE Its(t, i)
        /\ mail' = Adopted(Rows(t, i), RefreshMail(Rows(t, i), mail, holds, {b}), t)
        /\ Attached(t)
    BY DEF OpenTurn
<1> DEFINE ts == Rows(t, i)
           is == Its(t, i)
<1>1. ts \in [Turns -> TurnRow]
    <2>1. Row(i) \in TurnRow  BY DEF TurnRow
    <2> QED BY <2>1
<1>2. mail \in [Mails -> MailRow]  BY DEF TypeOK
<1>3. is \in [Items -> ItemRow]  BY <1>2, WithItemTyped, RefreshTyped
<1>4. turns' \in [Turns -> TurnRow]  BY <1>1
<1>5. items' \in [Items -> ItemRow]
    <2>1. items' = IF mark /\ is[i].state = "queued"
                   THEN [is EXCEPT ![i].state = "running"] ELSE is
        OBVIOUS
    <2> HIDE DEF is
    <2> QED BY <1>3, <2>1 DEF ItemRow
<1>6. mail' \in [Mails -> MailRow]
    <2>1. RefreshMail(ts, mail, holds, {b}) \in [Mails -> MailRow]
        BY <1>2, <1>3, RefreshTyped
    <2> QED BY <1>1, <2>1, AdoptedTyped
<1>7. /\ cache' \in [Turns -> SUBSET Mails]
      /\ lives' \subseteq Turns /\ lives \subseteq lives' /\ loops' \subseteq Turns
    BY DEF Attached, TypeOK
<1> QED BY <1>4, <1>5, <1>6, <1>7 DEF WritesTyped

LEMMA OpenReadOnlyTyped ==
    ASSUME TypeOK, NEW from \in [Turns -> TurnRow], NEW b \in Bots, NEW l \in Lines,
           OpenReadOnly(from, b, l)
    PROVE  WritesTyped
<1> PICK t \in Turns :
        /\ turns' = [from EXCEPT ![t] =
               [status |-> "running", bot |-> b, job |-> Desk, item |-> 0, trigger |-> l,
                mode |-> "readonly", ended |-> FALSE, note |-> FALSE]]
        /\ Attached(t)
        /\ UNCHANGED <<items, mail>>
    BY DEF OpenReadOnly
<1>1. turns' \in [Turns -> TurnRow]  BY DEF TurnRow, Places
<1> QED BY <1>1 DEF WritesTyped, Attached, TypeOK

LEMMA PutMailTyped ==
    ASSUME TypeOK, NEW m \in Mails, NEW row \in MailRow, PutMail(m, row)
    PROVE  mail' \in [Mails -> MailRow]
BY DEF PutMail, TypeOK

LEMMA HearInTyped ==
    ASSUME TypeOK, NEW t \in Turns, NEW l \in Lines, HearIn(t, l)
    PROVE  /\ mail' \in [Mails -> MailRow]
           /\ cache' \in [Turns -> SUBSET Mails]
<1> DEFINE row == [state |-> "queued", bot |-> turns[t].bot, item |-> 0, line |-> l, turn |-> t,
                   job |-> IF lines[l].job = Desk THEN turns[t].job ELSE lines[l].job]
<1> PICK m \in Mails :
        /\ PutMail(m, row)
        /\ cache' = IF t \in lives \ aborted THEN [cache EXCEPT ![t] = @ \cup {m}] ELSE cache
    BY DEF HearIn
<1>1. row \in MailRow  BY DEF TypeOK, MailRow, TurnRow, LineRow
<1>2. mail' \in [Mails -> MailRow]  BY <1>1, PutMailTyped
<1> QED BY <1>2 DEF TypeOK

LEMMA QueueWorkTyped ==
    ASSUME TypeOK, NEW b \in Bots, NEW j \in Places, NEW l \in Lines, QueueWork(b, j, l)
    PROVE  /\ items' \in [Items -> ItemRow]
           /\ mail' \in [Mails -> MailRow]
<1> PICK i \in Items :
        \/ UNCHANGED <<items, mail>>
        \/ /\ items' = [WithItem(i, b, j) EXCEPT ![i].state = "queued"]
           /\ \E m \in Mails : PutMail(m, [state |-> "queued", bot |-> b, job |-> j,
                                          turn |-> 0, item |-> i, line |-> l])
    BY DEF QueueWork
<1>1. CASE UNCHANGED <<items, mail>>  BY <1>1 DEF TypeOK
<1>2. CASE /\ items' = [WithItem(i, b, j) EXCEPT ![i].state = "queued"]
           /\ \E m \in Mails : PutMail(m, [state |-> "queued", bot |-> b, job |-> j,
                                          turn |-> 0, item |-> i, line |-> l])
    <2> DEFINE is == WithItem(i, b, j)
    <2>0. is \in [Items -> ItemRow] /\ items' = [is EXCEPT ![i].state = "queued"]
        BY <1>2, WithItemTyped
    <2>1. items' \in [Items -> ItemRow]
        <3> HIDE DEF is
        <3> QED BY <2>0 DEF ItemRow
    <2>2. [state |-> "queued", bot |-> b, job |-> j, turn |-> 0, item |-> i, line |-> l] \in MailRow
        BY DEF MailRow
    <2> QED BY <1>2, <2>1, <2>2, PutMailTyped
<1> QED BY <1>1, <1>2

LEMMA NothingOpensTyped ==
    ASSUME TypeOK, NoTurnOpens, UNCHANGED <<items, mail, cache>>
    PROVE  WritesTyped
BY DEF TypeOK, NoTurnOpens, WritesTyped

LEMMA StartTurnTyped ==
    ASSUME TypeOK, NEW b \in Bots, NEW j \in Places, NEW l \in Lines,
           NEW yourLine \in BOOLEAN, StartTurn(b, j, l, yourLine)
    PROVE  WritesTyped /\ answered' \in [Scopes -> SUBSET Lines]
<1> DEFINE hs == LineHeld(b, j, l)
           hearers == HearersAt(b, j)
<1>0. turns \in [Turns -> TurnRow] /\ answered \in [Scopes -> SUBSET Lines]
    BY DEF TypeOK
<1>1. CASE /\ OpenReadOnly(turns, b, l)
           /\ answered' = [h \in Scopes |-> IF h \in hs THEN answered[h] \cup {l} ELSE answered[h]]
    <2>1. answered' \in [Scopes -> SUBSET Lines]
        <3> HIDE DEF hs
        <3> QED BY <1>0, <1>1
    <2> QED BY <1>0, <1>1, <2>1, OpenReadOnlyTyped
<1>2. CASE NothingOpens
    BY <1>0, <1>2, NothingOpensTyped DEF NothingOpens
<1>3. CASE /\ \E t \in hearers : HearIn(t, l)
           /\ NoTurnOpens /\ UNCHANGED <<items, answered>>
    <2> PICK t \in hearers : HearIn(t, l)  BY <1>3
    <2>1. t \in Turns  BY DEF HearersAt, Listening, LiveOn, LiveOf
    <2> QED BY <1>0, <1>3, <2>1, HearInTyped DEF WritesTyped, NoTurnOpens, TypeOK
<1>4. CASE /\ QueueWork(b, j, l)
           /\ NoTurnOpens /\ UNCHANGED <<cache, answered>>
    BY <1>0, <1>4, QueueWorkTyped DEF WritesTyped, NoTurnOpens, TypeOK
<1>5. CASE OpenTurn(turns, b, j, l, FALSE) /\ UNCHANGED answered
    BY <1>0, <1>5, OpenTurnTyped
<1> QED BY <1>1, <1>2, <1>3, <1>4, <1>5 DEF StartTurn

LEMMA HearOrStartTyped ==
    ASSUME TypeOK, NEW b \in Bots, NEW j \in Places, NEW l \in Lines,
           NEW yourLine \in BOOLEAN, HearOrStart(b, j, l, yourLine)
    PROVE  WritesTyped /\ answered' \in [Scopes -> SUBSET Lines]
<1>0. answered \in [Scopes -> SUBSET Lines]  BY DEF TypeOK
<1>1. CASE NothingOpens
    BY <1>0, <1>1, NothingOpensTyped DEF NothingOpens
<1>2. CASE /\ \E t \in Listening(b, j) : HearIn(t, l)
           /\ NoTurnOpens /\ UNCHANGED <<items, answered>>
    <2> PICK t \in Listening(b, j) : HearIn(t, l)  BY <1>2
    <2>1. t \in Turns  BY DEF Listening, LiveOn, LiveOf
    <2> QED BY <1>0, <1>2, <2>1, HearInTyped DEF WritesTyped, NoTurnOpens, TypeOK
<1>3. CASE StartTurn(b, j, l, yourLine)  BY <1>3, StartTurnTyped
<1> QED BY <1>1, <1>2, <1>3 DEF HearOrStart

LEMMA SayTyped ==
    ASSUME TypeOK, NEW b \in Bots, NEW j \in Places, NEW yours \in BOOLEAN,
           NEW of \in Turns \cup {0}, Say(b, j, yours, of)
    PROVE  /\ said + 1 \in Lines
           /\ said' \in 0..MaxLines
           /\ lines' \in [Lines -> LineRow]
<1>1. said \in 0..MaxLines /\ MaxLines \in Nat /\ said + 1 <= MaxLines
    BY KernelAssumption DEF TypeOK, Say, Room
<1>2. said + 1 \in Lines  BY <1>1 DEF Lines
<1>3. [bot |-> b, job |-> j, yours |-> yours, of |-> of] \in LineRow  BY DEF LineRow
<1> QED BY <1>1, <1>2, <1>3 DEF TypeOK, Say

LEMMA LiftedTyped ==
    ASSUME TypeOK, NEW hs, Lifted(hs)
    PROVE  /\ holds' \subseteq Scopes
           /\ mail' \in [Mails -> MailRow]
           /\ items' \in [Items -> ItemRow]
           /\ owed' \in [Scopes -> SUBSET Turns]
           /\ answered' \in [Scopes -> SUBSET Lines]
<1>1. /\ mail' \in [Mails -> MailRow]
      /\ items' \in [Items -> ItemRow]
    BY RefreshTyped DEF Lifted, TypeOK
<1> QED BY <1>1 DEF Lifted, TypeOK

LEMMA ClaimTyped ==
    ASSUME TypeOK, NEW t \in Turns, Claim(t)
    PROVE  /\ WritesTyped
           /\ answered' \in [Scopes -> SUBSET Lines]
           /\ lines' \in [Lines -> LineRow]
           /\ said' \in 0..MaxLines
<1> DEFINE b == turns[t].bot
           j == turns[t].job
           claimed == [turns EXCEPT ![t].note = FALSE]
<1>0. /\ turns \in [Turns -> TurnRow] /\ turns[t] \in TurnRow
      /\ b \in Bots /\ j \in Places
      /\ answered \in [Scopes -> SUBSET Lines]
    BY DEF TypeOK, TurnRow
<1>1. claimed \in [Turns -> TurnRow]
    BY <1>0 DEF TurnRow
<1>2. CASE NothingOpens /\ UNCHANGED <<lines, said>>
    BY <1>0, <1>2, NothingOpensTyped DEF NothingOpens, TypeOK
<1>3. CASE ~(NothingOpens /\ UNCHANGED <<lines, said>>)
    <2>1. Say(b, j, FALSE, t) /\ UNCHANGED answered
        BY <1>3 DEF Claim
    <2>2. /\ said + 1 \in Lines
          /\ said' \in 0..MaxLines /\ lines' \in [Lines -> LineRow]
        BY <1>0, <2>1, SayTyped
    <2>3. CASE OpenReadOnly(claimed, b, said + 1)
        <3> HIDE DEF claimed
        <3> QED BY <1>0, <1>1, <2>1, <2>2, <2>3, OpenReadOnlyTyped
    <2>4. CASE OpenTurn(claimed, b, j, said + 1, FALSE)
        <3> HIDE DEF claimed
        <3> QED BY <1>0, <1>1, <2>1, <2>2, <2>4, OpenTurnTyped
    <2>5. CASE /\ QueueWork(b, j, said + 1)
               /\ \E u \in Turns, i \in Items :
                     turns' = [claimed EXCEPT ![u] =
                               [turns[t] EXCEPT !.status = "completed", !.item = i,
                                                !.trigger = said + 1, !.note = FALSE]]
               /\ UNCHANGED <<lives, loops, cache>>
        <3>1. items' \in [Items -> ItemRow] /\ mail' \in [Mails -> MailRow]
            BY <1>0, <2>2, <2>5, QueueWorkTyped
        <3> PICK u \in Turns, i \in Items :
                     turns' = [claimed EXCEPT ![u] =
                               [turns[t] EXCEPT !.status = "completed", !.item = i,
                                                !.trigger = said + 1, !.note = FALSE]]
            BY <2>5
        <3>2. [turns[t] EXCEPT !.status = "completed", !.item = i,
                               !.trigger = said + 1, !.note = FALSE] \in TurnRow
            BY <1>0, <2>2 DEF TurnRow
        <3>3. turns' \in [Turns -> TurnRow]
            <4> HIDE DEF claimed
            <4> QED BY <1>1, <3>2
        <3> QED BY <1>0, <2>1, <2>2, <2>5, <3>1, <3>3 DEF WritesTyped, TypeOK
    <2> QED BY <1>3, <2>3, <2>4, <2>5 DEF Claim
<1> QED BY <1>2, <1>3

-------------------------------------------------------------------------------
(* The actions, one by one. *)

\* What a handler does that opens, hears or queues, put together again.
LEMMA Together ==
    ASSUME TypeOK, WritesTyped, answered' \in [Scopes -> SUBSET Lines],
           lines' \in [Lines -> LineRow], said' \in 0..MaxLines,
           owed' \in [Scopes -> SUBSET Turns], todo' \in Todo,
           UNCHANGED <<holds, aborted, made, crashes>>
    PROVE  TypeOK'
BY DEF TypeOK, WritesTyped

LEMMA NothingIsTodo == Nothing \in Todo
BY DEF Nothing, Todo

LEMMA UserLineTyped ==
    ASSUME TypeOK, NEW b \in Bots, NEW j \in Places, NEW asks \in BOOLEAN,
           UserLine(b, j, asks), UNCHANGED bounds
    PROVE  TypeOK'
<1>1. /\ said + 1 \in Lines
      /\ said' \in 0..MaxLines /\ lines' \in [Lines -> LineRow]
    BY SayTyped DEF UserLine
<1>2. /\ holds' \subseteq Scopes
      /\ mail' \in [Mails -> MailRow] /\ items' \in [Items -> ItemRow]
      /\ owed' \in [Scopes -> SUBSET Turns] /\ answered' \in [Scopes -> SUBSET Lines]
    BY LiftedTyped DEF UserLine
<1>3. todo' \in Todo  BY <1>1, NothingIsTodo DEF UserLine, Todo
<1>4. UNCHANGED <<turns, lives, aborted, cache, loops, made, crashes>>
    BY DEF UserLine, bounds
<1> QED BY <1>1, <1>2, <1>3, <1>4 DEF TypeOK

LEMMA RouteTyped ==
    ASSUME TypeOK, Route, UNCHANGED bounds
    PROVE  TypeOK'
<1> DEFINE l == todo.route
<1>1. l \in Lines  BY DEF TypeOK, Todo, Route
<1>2. lines[l].bot \in Bots /\ lines[l].job \in Places  BY <1>1 DEF TypeOK, LineRow
<1>3. WritesTyped /\ answered' \in [Scopes -> SUBSET Lines]
    BY <1>1, <1>2, HearOrStartTyped, StartTurnTyped DEF Route
<1> QED BY <1>3, NothingIsTodo, Together DEF TypeOK, Route, bounds

LEMMA HoldTyped ==
    ASSUME TypeOK, NEW h \in Scopes, Hold(h), UNCHANGED crashes
    PROVE  TypeOK'
<1>1. holds' \subseteq Scopes  BY DEF TypeOK, Hold
<1>2. mail' \in [Mails -> MailRow] /\ items' \in [Items -> ItemRow]
    BY RefreshTyped DEF TypeOK, Hold
<1>3. turns' \in [Turns -> TurnRow]  BY DEF TypeOK, Hold, TurnRow
<1>4. EndedBy(h) \subseteq Turns  BY DEF EndedBy
<1>5. owed' \in [Scopes -> SUBSET Turns]  BY <1>4 DEF TypeOK, Hold
<1>6. aborted' \subseteq lives'  BY DEF TypeOK, Hold
<1>7. made' \in 0..MaxHolds  BY KernelAssumption DEF TypeOK, Hold
<1> QED BY <1>1, <1>2, <1>3, <1>5, <1>6, <1>7 DEF TypeOK, Hold

LEMMA LiftTyped ==
    ASSUME TypeOK, NEW h \in Scopes, Lift(h), UNCHANGED bounds
    PROVE  TypeOK'
<1>1. /\ holds' \subseteq Scopes
      /\ mail' \in [Mails -> MailRow] /\ items' \in [Items -> ItemRow]
      /\ owed' \in [Scopes -> SUBSET Turns] /\ answered' \in [Scopes -> SUBSET Lines]
    BY LiftedTyped DEF Lift
<1>2. owed[h] \subseteq Turns /\ answered[h] \subseteq Lines  BY DEF TypeOK
<1>3. PICK R \in SUBSET Turns, K \in SUBSET Lines :
        todo' = [Nothing EXCEPT !.resume = R, !.takeup = K, !.dispatch = TRUE]
    BY <1>2 DEF Lift
<1>4. todo' \in Todo  BY <1>3, NothingIsTodo DEF Todo
<1> QED BY <1>1, <1>4 DEF TypeOK, Lift, bounds

LEMMA ContinueTyped ==
    ASSUME TypeOK, NEW t \in Turns, Continue(t), UNCHANGED bounds
    PROVE  TypeOK'
<1>1. /\ holds' \subseteq Scopes
      /\ mail' \in [Mails -> MailRow] /\ items' \in [Items -> ItemRow]
      /\ owed' \in [Scopes -> SUBSET Turns] /\ answered' \in [Scopes -> SUBSET Lines]
    BY LiftedTyped DEF Continue
<1>2. todo' \in Todo  BY NothingIsTodo DEF Continue, Todo
<1> QED BY <1>1, <1>2 DEF TypeOK, Continue, bounds

LEMMA ClaimContinueTyped ==
    ASSUME TypeOK, ClaimContinue, UNCHANGED bounds
    PROVE  TypeOK'
<1>1. todo.claim \in Turns  BY DEF TypeOK, Todo, ClaimContinue
<1>2. /\ WritesTyped /\ answered' \in [Scopes -> SUBSET Lines]
      /\ lines' \in [Lines -> LineRow] /\ said' \in 0..MaxLines
    BY <1>1, ClaimTyped DEF ClaimContinue
<1> QED BY <1>2, NothingIsTodo, Together DEF TypeOK, ClaimContinue, bounds

LEMMA ResumeTyped ==
    ASSUME TypeOK, Resume, UNCHANGED bounds
    PROVE  TypeOK'
<1> PICK t \in todo.resume :
        LET b == turns[t].bot
            j == turns[t].job
            still == Covering(b, j, {t})
            rest == [todo EXCEPT !.resume = @ \ {t}]
        IN \/ /\ \E heir \in Heirs(still) : owed' = [owed EXCEPT ![heir] = @ \cup {t}]
              /\ NothingOpens /\ UNCHANGED <<lines, said>>
              /\ todo' = rest
           \/ /\ NothingOpens /\ UNCHANGED <<lines, said, owed>>
              /\ todo' = rest
           \/ /\ Say(b, j, FALSE, t)
              /\ StartTurn(b, j, said + 1, FALSE)
              /\ UNCHANGED owed
              /\ todo' = IF InLine(b, j) THEN rest
                         ELSE [rest EXCEPT !.takeup = {l \in @ : lines[l].bot # b}]
    BY DEF Resume
<1> DEFINE b == turns[t].bot
           j == turns[t].job
           still == Covering(b, j, {t})
           rest == [todo EXCEPT !.resume = @ \ {t}]
<1>0. /\ t \in Turns /\ b \in Bots /\ j \in Places
      /\ todo \in Todo
      /\ owed \in [Scopes -> SUBSET Turns] /\ answered \in [Scopes -> SUBSET Lines]
      /\ lines \in [Lines -> LineRow] /\ said \in 0..MaxLines
    BY DEF TypeOK, Todo, TurnRow
<1>1. UNCHANGED <<holds, aborted, made, crashes>>  BY DEF Resume, bounds
<1>2. rest \in Todo  BY <1>0 DEF Todo
<1>3. CASE NothingOpens /\ UNCHANGED <<lines, said>> /\ todo' = rest
           /\ (\/ UNCHANGED owed
               \/ \E heir \in Heirs(still) : owed' = [owed EXCEPT ![heir] = @ \cup {t}])
    <2>1. WritesTyped /\ UNCHANGED answered  BY <1>3, NothingOpensTyped DEF NothingOpens
    <2>2. Heirs(still) \subseteq Scopes  BY DEF Heirs, Covering, TypeOK
    <2>3. owed' \in [Scopes -> SUBSET Turns]  BY <1>0, <1>3, <2>2
    <2> QED BY <1>0, <1>1, <1>2, <1>3, <2>1, <2>3, Together
<1>4. CASE /\ Say(b, j, FALSE, t)
           /\ StartTurn(b, j, said + 1, FALSE)
           /\ UNCHANGED owed
           /\ todo' = IF InLine(b, j) THEN rest
                      ELSE [rest EXCEPT !.takeup = {l \in @ : lines[l].bot # b}]
    <2>1. /\ said + 1 \in Lines
          /\ said' \in 0..MaxLines /\ lines' \in [Lines -> LineRow]
        BY <1>0, <1>4, SayTyped
    <2>2. WritesTyped /\ answered' \in [Scopes -> SUBSET Lines]
        BY <1>0, <1>4, <2>1, StartTurnTyped
    <2>3. todo' \in Todo
        <3>1. todo' = rest \/ \E K \in SUBSET rest.takeup : todo' = [rest EXCEPT !.takeup = K]
            BY <1>4
        <3> HIDE DEF rest
        <3> QED BY <1>2, <3>1 DEF Todo
    <2> QED BY <1>0, <1>1, <1>4, <2>1, <2>2, <2>3, Together
<1> QED BY <1>3, <1>4

LEMMA TakeUpTyped ==
    ASSUME TypeOK, TakeUp, UNCHANGED bounds
    PROVE  TypeOK'
<1> PICK l \in todo.takeup :
        /\ \/ /\ \E heir \in Heirs(Covering(lines[l].bot, lines[l].job, {})) :
                    answered' = [answered EXCEPT ![heir] = @ \cup {l}]
              /\ NoTurnOpens /\ UNCHANGED <<items, mail, cache>>
           \/ StartTurn(lines[l].bot, lines[l].job, l, TRUE)
        /\ todo' = [todo EXCEPT !.takeup = @ \ {l}]
        /\ UNCHANGED <<lines, said, holds, owed, aborted>>
    BY DEF TakeUp
<1>1. /\ l \in Lines /\ lines[l].bot \in Bots /\ lines[l].job \in Places
      /\ answered \in [Scopes -> SUBSET Lines]
    BY DEF TypeOK, Todo, LineRow
<1>2. todo' \in Todo  BY DEF TypeOK, Todo
<1>3. WritesTyped /\ answered' \in [Scopes -> SUBSET Lines]
    <2>1. CASE /\ \E heir \in Heirs(Covering(lines[l].bot, lines[l].job, {})) :
                      answered' = [answered EXCEPT ![heir] = @ \cup {l}]
               /\ NoTurnOpens /\ UNCHANGED <<items, mail, cache>>
        <3>1. Heirs(Covering(lines[l].bot, lines[l].job, {})) \subseteq Scopes
            BY DEF Heirs, Covering, TypeOK
        <3> QED BY <1>1, <2>1, <3>1, NothingOpensTyped
    <2>2. CASE StartTurn(lines[l].bot, lines[l].job, l, TRUE)
        BY <1>1, <2>2, StartTurnTyped
    <2> QED BY <2>1, <2>2
<1> QED BY <1>2, <1>3, Together DEF TypeOK, bounds

LEMMA ReadInboxTyped ==
    ASSUME TypeOK, NEW t \in Turns, ReadInbox(t), UNCHANGED bounds
    PROVE  TypeOK'
<1>1. mail' \in [Mails -> MailRow]  BY DEF TypeOK, ReadInbox, MailRow
<1>2. cache' \in [Turns -> SUBSET Mails]  BY DEF TypeOK, ReadInbox
<1> QED BY <1>1, <1>2 DEF TypeOK, ReadInbox, bounds

LEMMA WorkOnTyped ==
    ASSUME TypeOK, NEW t \in Turns, NEW j \in Jobs, WorkOn(t, j), UNCHANGED bounds
    PROVE  TypeOK'
<1> DEFINE b == turns[t].bot
           at == turns[t].job
           l == turns[t].trigger
           ending == [turns EXCEPT ![t].ended = TRUE]
<1>0. /\ turns \in [Turns -> TurnRow] /\ turns[t] \in TurnRow /\ lines \in [Lines -> LineRow]
      /\ b \in Bots /\ l \in Lines /\ j \in Places
    BY DEF TypeOK, TurnRow, Places
<1>1. lines' \in [Lines -> LineRow]
    <2>1. lines' = lines \/ lines' = [lines EXCEPT ![l].job = j]  BY DEF WorkOn
    <2> QED BY <1>0, <2>1 DEF LineRow
<1>2. ending \in [Turns -> TurnRow]  BY <1>0 DEF TurnRow
<1>3. /\ turns' \in [Turns -> TurnRow] /\ items' \in [Items -> ItemRow]
      /\ mail' \in [Mails -> MailRow]
    <2>1. CASE /\ \E u \in LiveOn(b, j) \ {t}, m \in Mails :
                     PutMail(m, [state |-> "queued", bot |-> b, job |-> j,
                                 turn |-> u, item |-> 0, line |-> l])
               /\ turns' = ending
               /\ UNCHANGED items
        <3> PICK u \in LiveOn(b, j) \ {t}, m \in Mails :
                     PutMail(m, [state |-> "queued", bot |-> b, job |-> j,
                                 turn |-> u, item |-> 0, line |-> l])
            BY <2>1
        <3>1. [state |-> "queued", bot |-> b, job |-> j, turn |-> u, item |-> 0, line |-> l] \in MailRow
            BY <1>0 DEF MailRow, LiveOn, LiveOf
        <3> QED BY <1>2, <2>1, <3>1, PutMailTyped DEF TypeOK
    <2>2. CASE QueueWork(b, j, l) /\ turns' = ending
        BY <1>0, <1>2, <2>2, QueueWorkTyped
    <2>3. CASE /\ \E i \in Items :
                    LET was == turns[t].item
                        is == WithItem(i, b, j)
                    IN /\ turns' = [turns EXCEPT ![t].job = j, ![t].item = i, ![t].mode = "work"]
                       /\ \/ items' = is
                          \/ items' = [is EXCEPT ![was].state = "idle"]
                          \/ items' = [is EXCEPT ![was].state = "closed"]
               /\ UNCHANGED mail
        <3> PICK i \in Items :
                /\ turns' = [turns EXCEPT ![t].job = j, ![t].item = i, ![t].mode = "work"]
                /\ \/ items' = WithItem(i, b, j)
                   \/ items' = [WithItem(i, b, j) EXCEPT ![turns[t].item].state = "idle"]
                   \/ items' = [WithItem(i, b, j) EXCEPT ![turns[t].item].state = "closed"]
            BY <2>3
        <3>1. turns' \in [Turns -> TurnRow]  BY <1>0 DEF TurnRow
        <3> DEFINE is == WithItem(i, b, j)
        <3>2. /\ is \in [Items -> ItemRow]
              /\ \/ items' = is
                 \/ items' = [is EXCEPT ![turns[t].item].state = "idle"]
                 \/ items' = [is EXCEPT ![turns[t].item].state = "closed"]
            BY <1>0, WithItemTyped
        <3>3. items' \in [Items -> ItemRow]
            <4> HIDE DEF is
            <4> QED BY <3>2 DEF ItemRow
        <3> QED BY <2>3, <3>1, <3>3 DEF TypeOK
    <2>4. \/ /\ \E u \in LiveOn(b, j) \ {t} : \E m \in Mails :
                     PutMail(m, [state |-> "queued", bot |-> b, job |-> j,
                                 turn |-> u, item |-> 0, line |-> l])
             /\ turns' = ending
             /\ UNCHANGED items
          \/ QueueWork(b, j, l) /\ turns' = ending
          \/ /\ \E i \in Items :
                   LET was == turns[t].item
                       is == WithItem(i, b, j)
                   IN /\ turns' = [turns EXCEPT ![t].job = j, ![t].item = i, ![t].mode = "work"]
                      /\ \/ items' = is
                         \/ items' = [is EXCEPT ![was].state = "idle"]
                         \/ items' = [is EXCEPT ![was].state = "closed"]
             /\ UNCHANGED mail
        BY DEF WorkOn
    <2> QED BY <2>1, <2>2, <2>3, <2>4
<1> QED BY <1>1, <1>3 DEF TypeOK, WorkOn, bounds

\* One item put in another state.
LEMMA PutTyped ==
    ASSUME NEW is \in [Items -> ItemRow], NEW i \in Items, NEW next,
           next \in {"none", "running", "queued", "idle", "blocked", "needs_attention", "closed"}
    PROVE  [is EXCEPT ![i].state = next] \in [Items -> ItemRow]
BY DEF ItemRow

LEMMA EndTurnTyped ==
    ASSUME TypeOK, NEW t \in Turns, NEW how \in {"done", "blocked", "needs_attention"},
           EndTurn(t, how), UNCHANGED bounds
    PROVE  TypeOK'
<1>1. turns' \in [Turns -> TurnRow]
    <2>1. turns' = [turns EXCEPT ![t].ended = TRUE]  BY DEF EndTurn
    <2>2. turns \in [Turns -> TurnRow]  BY DEF TypeOK
    <2>3. [turns[t] EXCEPT !.ended = TRUE] \in TurnRow  BY <2>2 DEF TurnRow
    <2> QED BY <2>1, <2>2, <2>3
<1>2. items' \in [Items -> ItemRow]
    <2> DEFINE next == IF how # "done" THEN how
                       ELSE IF turns[t].job = Desk THEN "closed"
                       ELSE IF Waking(turns[t].item) # {} THEN "queued" ELSE "idle"
    <2>0. next \in {"blocked", "needs_attention", "closed", "queued", "idle"}  OBVIOUS
    <2>1. items' = IF turns[t].item = 0 THEN items ELSE [items EXCEPT ![turns[t].item].state = next]
        BY DEF EndTurn
    <2> HIDE DEF next
    <2>2. items \in [Items -> ItemRow] /\ turns[t].item \in Items \cup {0}  BY DEF TypeOK, TurnRow
    <2>3. CASE turns[t].item = 0  BY <2>1, <2>2, <2>3
    <2>4. CASE turns[t].item \in Items \ {0}  BY <2>0, <2>1, <2>2, <2>4, PutTyped
    <2> QED BY <2>2, <2>3, <2>4
<1>3. mail' \in [Mails -> MailRow]
    <2>1. /\ mail' = [m \in Mails |-> mail'[m]]
          /\ \A m \in Mails : mail'[m] = mail[m] \/ mail'[m] = [mail[m] EXCEPT !.state = "answered"]
        BY DEF EndTurn
    <2>2. \A m \in Mails : mail'[m] \in MailRow
        <3> TAKE m \in Mails
        <3>1. mail[m] \in MailRow  BY DEF TypeOK
        <3> QED BY <2>1, <3>1 DEF MailRow
    <2> QED BY <2>1, <2>2
<1>4. UNCHANGED <<lines, said, holds, owed, answered, process, bounds>>  BY DEF EndTurn
<1> QED BY <1>1, <1>2, <1>3, <1>4 DEF TypeOK, process, bounds

LEMMA CompleteTyped ==
    ASSUME TypeOK, NEW t \in Turns, Complete(t), UNCHANGED bounds
    PROVE  TypeOK'
<1>1. turns' \in [Turns -> TurnRow]
    <2>1. turns' = [turns EXCEPT ![t].status = "completed"]  BY DEF Complete
    <2>2. turns \in [Turns -> TurnRow]  BY DEF TypeOK
    <2>3. [turns[t] EXCEPT !.status = "completed"] \in TurnRow  BY <2>2 DEF TurnRow
    <2> QED BY <2>1, <2>2, <2>3
<1>2. aborted' \subseteq lives' /\ lives' \subseteq Turns  BY DEF TypeOK, Complete, Active
<1> QED BY <1>1, <1>2 DEF TypeOK, Complete, bounds

LEMMA CutOffTyped ==
    ASSUME NEW ts, NEW is \in [Items -> ItemRow], NEW cut
    PROVE  CutOff(ts, is, cut) \in [Items -> ItemRow]
BY DEF CutOff, ItemRow

LEMMA FailTyped ==
    ASSUME TypeOK, NEW t \in Turns, NEW yoursToFix \in BOOLEAN, Fail(t, yoursToFix), UNCHANGED bounds
    PROVE  TypeOK'
<1>1. turns' \in [Turns -> TurnRow]  BY DEF TypeOK, Fail, TurnRow
<1>2. items' \in [Items -> ItemRow]  BY CutOffTyped DEF TypeOK, Fail
<1>3. todo' \in Todo  BY NothingIsTodo DEF Fail, Todo
<1> QED BY <1>1, <1>2, <1>3 DEF TypeOK, Fail, bounds

LEMMA SweepTyped ==
    ASSUME TypeOK, NEW t \in Turns, Sweep(t), UNCHANGED bounds
    PROVE  TypeOK'
<1>1. todo' \in Todo  BY NothingIsTodo DEF Sweep, Todo
<1>2. aborted' \subseteq lives'  BY DEF TypeOK, Sweep, Active
<1> QED BY <1>1, <1>2 DEF TypeOK, Sweep, tables, bounds

LEMMA UnwindTyped ==
    ASSUME TypeOK, NEW t \in Turns, Unwind(t), UNCHANGED bounds
    PROVE  TypeOK'
<1> DEFINE cut == IF Live(t) THEN {t} ELSE {}
           i == turns[t].item
           ts == IF Live(t) THEN [turns EXCEPT ![t].status = "interrupted", ![t].note = TRUE]
                            ELSE turns
<1>0. /\ turns \in [Turns -> TurnRow] /\ mail \in [Mails -> MailRow] /\ items \in [Items -> ItemRow]
      /\ i \in Items \cup {0}
    BY DEF TypeOK, TurnRow
<1>1. turns' \in [Turns -> TurnRow]
    <2>1. \/ turns' = turns
          \/ turns' = [turns EXCEPT ![t].status = "interrupted", ![t].note = TRUE]
        BY DEF Unwind
    <2> QED BY <1>0, <2>1 DEF TurnRow
<1>2. mail' \in [Mails -> MailRow]
    <2>1. \A m \in Mails :
            \/ mail'[m] = mail[m]
            \/ mail'[m] = [mail[m] EXCEPT !.state = "unacked"]
            \/ mail'[m] = [mail[m] EXCEPT !.item = IF @ = 0 THEN i ELSE @,
                                          !.state = IF MailCovered(holds, mail, m) THEN "held" ELSE @]
        BY DEF Unwind
    <2>2. mail' = [m \in Mails |-> mail'[m]]  BY DEF Unwind
    <2>3. \A m \in Mails : mail'[m] \in MailRow
        <3> TAKE m \in Mails
        <3> HIDE DEF i
        <3>1. mail[m] \in MailRow  BY <1>0
        <3>2. PICK it \in Items \cup {0}, st \in {"held", "unacked", mail[m].state} :
                 mail'[m] = [mail[m] EXCEPT !.item = it, !.state = st]
            <4>1. mail[m].item \in Items \cup {0}  BY <3>1 DEF MailRow
            <4>2. CASE mail'[m] = mail[m]
                <5>1. mail[m] = [mail[m] EXCEPT !.item = mail[m].item, !.state = mail[m].state]
                    BY <3>1 DEF MailRow
                <5> QED BY <4>1, <4>2, <5>1
            <4>3. CASE mail'[m] = [mail[m] EXCEPT !.state = "unacked"]
                <5>1. [mail[m] EXCEPT !.state = "unacked"]
                         = [mail[m] EXCEPT !.item = mail[m].item, !.state = "unacked"]
                    BY <3>1 DEF MailRow
                <5> QED BY <4>1, <4>3, <5>1
            <4>4. CASE mail'[m] = [mail[m] EXCEPT !.item = IF @ = 0 THEN i ELSE @,
                                          !.state = IF MailCovered(holds, mail, m) THEN "held" ELSE @]
                <5> DEFINE it == IF mail[m].item = 0 THEN i ELSE mail[m].item
                           st == IF MailCovered(holds, mail, m) THEN "held" ELSE mail[m].state
                <5>1. it \in Items \cup {0} /\ st \in {"held", "unacked", mail[m].state}
                    BY <1>0, <4>1
                <5>2. mail'[m] = [mail[m] EXCEPT !.item = it, !.state = st]  BY <4>4
                <5> QED BY <5>1, <5>2
            <4> QED BY <2>1, <4>2, <4>3, <4>4
        <3> QED BY <3>1, <3>2 DEF MailRow
    <2> QED BY <2>2, <2>3
<1>3. items' \in [Items -> ItemRow]
    <2> DEFINE released(m) ==
                 IF mail[m].turn = t /\ mail[m].state = "delivered" /\ lines[mail[m].line].yours
                 THEN [mail[m] EXCEPT !.state = "unacked"]
                 ELSE IF mail[m].turn = t /\ Unread(m)
                 THEN [mail[m] EXCEPT !.item = IF @ = 0 THEN i ELSE @,
                                      !.state = IF MailCovered(holds, mail, m) THEN "held" ELSE @]
                 ELSE mail[m]
               ids == {released(m).item :
                         m \in {n \in Mails : mail[n].turn = t /\ released(n).state = "queued"}}
               is == Requeued(ts, CutOff(ts, items, cut), ids)
    <2>1. items' = IF i # 0 /\ is[i].state = "running" /\ ~LiveItem(ts, i)
                   THEN [is EXCEPT ![i].state = IF is[i].job = Desk THEN "closed" ELSE "idle"]
                   ELSE is
        BY DEF Unwind
    <2> HIDE DEF ids
    <2>2. is \in [Items -> ItemRow]  BY <1>0, CutOffTyped, RequeuedTyped
    <2>3. \/ items' = is
          \/ items' = [is EXCEPT ![i].state = "closed"]
          \/ items' = [is EXCEPT ![i].state = "idle"]
        BY <2>1
    <2> HIDE DEF is
    <2> QED BY <2>2, <2>3 DEF ItemRow
<1>4. todo' \in Todo  BY NothingIsTodo DEF TypeOK, Unwind, Todo
<1>5. /\ lives' \subseteq Turns /\ aborted' \subseteq lives' /\ loops' \subseteq Turns
      /\ cache' \in [Turns -> SUBSET Mails]
    BY DEF TypeOK, Unwind, Detached
<1> QED BY <1>1, <1>2, <1>3, <1>4, <1>5 DEF TypeOK, Unwind, bounds

LEMMA ReopenTyped ==
    ASSUME TypeOK, Reopen, UNCHANGED bounds
    PROVE  TypeOK'
<1>0. /\ todo.reopen \in Turns /\ turns[todo.reopen].bot \in Bots
      /\ answered \in [Scopes -> SUBSET Lines]
    BY DEF TypeOK, Todo, TurnRow, Reopen
<1>1. WritesTyped /\ answered' \in [Scopes -> SUBSET Lines]
    <2>1. CASE NothingOpens  BY <1>0, <2>1, NothingOpensTyped DEF NothingOpens
    <2>2. CASE \E m \in todo.unheard :
                 HearOrStart(turns[todo.reopen].bot, lines[mail[m].line].job, mail[m].line, FALSE)
        <3> PICK m \in todo.unheard :
                 HearOrStart(turns[todo.reopen].bot, lines[mail[m].line].job, mail[m].line, FALSE)
            BY <2>2
        <3>1. mail[m].line \in Lines /\ lines[mail[m].line].job \in Places
            BY DEF TypeOK, Todo, MailRow, LineRow
        <3> QED BY <1>0, <3>1, HearOrStartTyped
    <2> QED BY <2>1, <2>2 DEF Reopen
<1>2. todo' \in Todo  BY DEF TypeOK, Reopen, Todo
<1> QED BY <1>1, <1>2, Together DEF TypeOK, Reopen, bounds

LEMMA AppWorkTyped ==
    ASSUME TypeOK, NEW b \in Bots, NEW j \in Jobs, AppWork(b, j), UNCHANGED bounds
    PROVE  TypeOK'
<1>0. j \in Places  BY DEF Places
<1>1. /\ said + 1 \in Lines
      /\ said' \in 0..MaxLines /\ lines' \in [Lines -> LineRow]
    BY <1>0, SayTyped DEF AppWork
<1>2. items' \in [Items -> ItemRow] /\ mail' \in [Mails -> MailRow]
    BY <1>0, <1>1, QueueWorkTyped DEF AppWork
<1>3. todo' \in Todo  BY NothingIsTodo DEF AppWork, Todo
<1> QED BY <1>1, <1>2, <1>3 DEF TypeOK, AppWork, bounds

LEMMA DispatchTyped ==
    ASSUME TypeOK, Dispatch, UNCHANGED bounds
    PROVE  TypeOK'
<1>1. todo' \in Todo  BY NothingIsTodo DEF Dispatch, Todo
<1> QED BY <1>1 DEF TypeOK, Dispatch, tables, bounds

\* The line at the front of an item is one that waits there.
LEMMA FrontIsMail ==
    ASSUME NEW i, Waking(i) # {}
    PROVE  Front(i) \in Waking(i)
<1>1. Waking(i) \subseteq Nat  BY DEF Waking, Mails
<1>2. PICK m \in Waking(i) : \A n \in Waking(i) : ~ (<<n, m>> \in OpToRel(<, Nat))
    BY <1>1, WFMin, NatLessThanWellFounded
<1>3. \A n \in Waking(i) : ~ (n < m)
    <2>1. \A n \in Waking(i) : n \in Nat /\ m \in Nat  BY <1>1
    <2>2. \A n \in Waking(i) : n < m => <<n, m>> \in OpToRel(<, Nat)
        BY <2>1, Zenon DEF OpToRel
    <2> QED BY <1>2, <2>2, Zenon
<1>4. \A n \in Waking(i) : m <= n  BY <1>1, <1>3
<1> QED BY <1>4 DEF Front

LEMMA AdmitTyped ==
    ASSUME TypeOK, Admit, UNCHANGED bounds
    PROVE  TypeOK'
<1> PICK i \in todo.admit :
        /\ \/ /\ Waking(i) # {}
              /\ OpenTurn(turns, items[i].bot, items[i].job, mail[Front(i)].line, TRUE)
              /\ UNCHANGED answered
           \/ NothingOpens
        /\ todo' = [todo EXCEPT !.admit = @ \ {i}]
        /\ UNCHANGED <<lines, said, holds, owed, aborted>>
    BY DEF Admit, Dispatchable
<1>1. /\ turns \in [Turns -> TurnRow] /\ answered \in [Scopes -> SUBSET Lines]
      /\ i \in Items /\ items[i].bot \in Bots /\ items[i].job \in Places
    BY DEF TypeOK, Todo, ItemRow
<1>2. WritesTyped /\ answered' \in [Scopes -> SUBSET Lines]
    <2>1. CASE NothingOpens  BY <1>1, <2>1, NothingOpensTyped DEF NothingOpens
    <2>2. CASE /\ Waking(i) # {}
               /\ OpenTurn(turns, items[i].bot, items[i].job, mail[Front(i)].line, TRUE)
               /\ UNCHANGED answered
        <3>1. Front(i) \in Mails  BY <2>2, FrontIsMail DEF Waking
        <3>2. mail[Front(i)].line \in Lines  BY <3>1 DEF TypeOK, MailRow
        <3> QED BY <1>1, <2>2, <3>2, OpenTurnTyped
    <2> QED BY <2>1, <2>2
<1>3. todo' \in Todo  BY DEF TypeOK, Todo
<1> QED BY <1>2, <1>3, Together DEF TypeOK, bounds

LEMMA SuperviseTyped ==
    ASSUME TypeOK, Supervise, UNCHANGED bounds
    PROVE  TypeOK'
<1>1. items' \in [Items -> ItemRow]
    <2>1. \A i \in Items : MailInLine(i, LostRepaired(i)) \in
             {items[i].state, "needs_attention", "running", "idle", "queued"}
        BY DEF MailInLine, LostRepaired
    <2> HIDE DEF KernelAssumption
    <2>2. \A i \in Items : Repaired(i) \in ItemRow
        <3> TAKE i \in Items
        <3> DEFINE st == MailInLine(i, LostRepaired(i))
        <3>1. items[i] \in ItemRow  BY DEF TypeOK
        <3>2. st \in {items[i].state, "needs_attention", "running", "idle", "queued"}
            BY <2>1
        <3>3. Repaired(i) = [items[i] EXCEPT !.state = st]  BY DEF Repaired
        <3> HIDE DEF st
        <3> QED BY <3>1, <3>2, <3>3 DEF ItemRow
    <2> QED BY <2>2 DEF Supervise
<1>2. todo' \in Todo
    <2>1. PICK P \in SUBSET Items : todo' = [Nothing EXCEPT !.dispatch = TRUE, !.pick = P]
        BY DEF Supervise
    <2> QED BY <2>1, NothingIsTodo DEF Todo
<1> QED BY <1>1, <1>2 DEF TypeOK, Supervise, bounds

LEMMA PickUpTyped ==
    ASSUME TypeOK, PickUp, UNCHANGED bounds
    PROVE  TypeOK'
<1> PICK i \in todo.pick :
        /\ \/ \E t \in Segments(i) : Claim(t)
           \/ /\ Say(items[i].bot, items[i].job, FALSE, 0)
              /\ QueueWork(items[i].bot, items[i].job, said + 1)
              /\ NoTurnOpens /\ UNCHANGED <<cache, answered>>
        /\ todo' = [todo EXCEPT !.pick = @ \ {i}]
        /\ UNCHANGED <<holds, owed, aborted>>
    BY DEF PickUp
<1>1. /\ i \in Items /\ items[i].bot \in Bots /\ items[i].job \in Places
      /\ answered \in [Scopes -> SUBSET Lines]
    BY DEF TypeOK, Todo, ItemRow
<1>2. /\ WritesTyped /\ answered' \in [Scopes -> SUBSET Lines]
      /\ lines' \in [Lines -> LineRow] /\ said' \in 0..MaxLines
    <2>1. CASE \E t \in Segments(i) : Claim(t)
        <3> PICK t \in Segments(i) : Claim(t)  BY <2>1
        <3>1. t \in Turns  BY DEF Segments
        <3> QED BY <3>1, ClaimTyped
    <2>2. CASE /\ Say(items[i].bot, items[i].job, FALSE, 0)
               /\ QueueWork(items[i].bot, items[i].job, said + 1)
               /\ NoTurnOpens /\ UNCHANGED <<cache, answered>>
        <3>1. /\ said + 1 \in Lines
              /\ said' \in 0..MaxLines /\ lines' \in [Lines -> LineRow]
            BY <1>1, <2>2, SayTyped
        <3>2. items' \in [Items -> ItemRow] /\ mail' \in [Mails -> MailRow]
            BY <1>1, <2>2, <3>1, QueueWorkTyped
        <3> QED BY <1>1, <2>2, <3>1, <3>2 DEF WritesTyped, NoTurnOpens, TypeOK
    <2> QED BY <2>1, <2>2
<1>3. todo' \in Todo  BY DEF TypeOK, Todo
<1> QED BY <1>2, <1>3, Together DEF TypeOK, bounds

LEMMA CrashTyped ==
    ASSUME TypeOK, Crash, UNCHANGED made
    PROVE  TypeOK'
<1> DEFINE cut == {t \in Turns : Live(t)}
           ts == [t \in Turns |-> IF t \in cut
                   THEN [turns[t] EXCEPT !.status = "interrupted", !.note = TRUE] ELSE turns[t]]
           ms == [m \in Mails |-> IF mail[m].state = "delivered" /\ lines[mail[m].line].yours
                   THEN [mail[m] EXCEPT !.state = "unacked"] ELSE mail[m]]
           is == RefreshItems(ts, CutOff(ts, items, cut), ms, holds, Bots)
<1>1. /\ turns \in [Turns -> TurnRow] /\ mail \in [Mails -> MailRow]
      /\ items \in [Items -> ItemRow]
    BY DEF TypeOK
<1>2. ts \in [Turns -> TurnRow]  BY <1>1 DEF TurnRow
<1>3. ms \in [Mails -> MailRow]  BY <1>1 DEF MailRow
<1>4. is \in [Items -> ItemRow]
    <2>1. CutOff(ts, items, cut) \in [Items -> ItemRow]  BY <1>1, CutOffTyped
    <2> HIDE DEF ms, ts, cut
    <2> QED BY <1>3, <2>1, RefreshTyped
<1>5. turns' \in [Turns -> TurnRow]  BY <1>2 DEF Crash
<1>6. mail' \in [Mails -> MailRow]
    <2>1. mail' = RefreshMail(ts, ms, holds, Bots)  BY DEF Crash
    <2> HIDE DEF ms, ts
    <2> QED BY <1>1, <1>3, <2>1, RefreshTyped
<1>7. items' \in [Items -> ItemRow]
    <2>1. items' = DesksClosed(is)  BY DEF Crash
    <2> HIDE DEF is
    <2> QED BY <1>4, <2>1 DEF DesksClosed, ItemRow
<1>8. crashes' \in 0..MaxCrashes
    <2>1. crashes < MaxCrashes /\ crashes' = crashes + 1  BY DEF Crash
    <2>2. crashes \in 0..MaxCrashes /\ MaxCrashes \in Nat  BY KernelAssumption DEF TypeOK
    <2> QED BY <2>1, <2>2
<1> QED BY <1>5, <1>6, <1>7, <1>8, NothingIsTodo DEF TypeOK, Crash

LEMMA InitTyped == Init => TypeOK
<1> SUFFICES ASSUME Init PROVE TypeOK
    OBVIOUS
<1> DEFINE someBot == CHOOSE b \in Bots : TRUE
<1>1. someBot \in Bots  BY KernelAssumption
<1>2. 1 \in Lines /\ Desk \in Places  BY KernelAssumption DEF Lines, Places
<1>3. said \in 0..MaxLines /\ made \in 0..MaxHolds /\ crashes \in 0..MaxCrashes
    BY KernelAssumption DEF Init
<1> HIDE DEF someBot
<1>4. turns \in [Turns -> TurnRow]
    BY <1>1, <1>2 DEF Init, TurnRow, someBot
<1>5. items \in [Items -> ItemRow]
    BY <1>1, <1>2 DEF Init, ItemRow, someBot
<1>6. mail \in [Mails -> MailRow]
    BY <1>1, <1>2 DEF Init, MailRow, someBot
<1>7. lines \in [Lines -> LineRow]
    BY <1>1, <1>2 DEF Init, LineRow, someBot
<1> QED BY <1>3, <1>4, <1>5, <1>6, <1>7, NothingIsTodo DEF Init, TypeOK

\* Every step keeps the types.
LEMMA TypeStep == TypeOK /\ [Next]_vars => TypeOK'
<1> SUFFICES ASSUME TypeOK, [Next]_vars PROVE TypeOK'
    OBVIOUS
<1>1. CASE You /\ UNCHANGED bounds
    BY <1>1, UserLineTyped, LiftTyped, ContinueTyped DEF You
<1>2. CASE Stop /\ UNCHANGED crashes
    BY <1>2, HoldTyped DEF Stop
<1>3. CASE (\E t \in Turns : Bot(t)) /\ UNCHANGED bounds
    BY <1>3, ReadInboxTyped, WorkOnTyped, EndTurnTyped, CompleteTyped, FailTyped, UnwindTyped
       DEF Bot
<1>4. CASE App /\ UNCHANGED bounds
    BY <1>4, AppWorkTyped, SweepTyped, SuperviseTyped DEF App
<1>5. CASE Rest /\ UNCHANGED bounds
    BY <1>5, RouteTyped, ReopenTyped, ResumeTyped, TakeUpTyped, ClaimContinueTyped,
       PickUpTyped, DispatchTyped, AdmitTyped DEF Rest
<1>6. CASE Crash /\ UNCHANGED made
    BY <1>6, CrashTyped
<1>7. CASE UNCHANGED vars
    BY <1>7 DEF TypeOK, vars, tables, process, bounds
<1> QED BY <1>1, <1>2, <1>3, <1>4, <1>5, <1>6, <1>7 DEF Next

\* Every table keeps its shape: each row's columns hold what their CHECK and foreign keys allow
\* (schema.ts, store/migrate.ts), and what the process aborts it also runs.
THEOREM TypeCorrect == Spec => []TypeOK
<1> QED BY InitTyped, TypeStep, PTL DEF Spec
-------------------------------------------------------------------------------
(* A Bot has one live segment on a plan, and one at its desk; it works at most  *)
(* as many jobs as its limit says; and each segment is on an open item of its   *)
(* own.  First, what a step does to the segments that can work: none begins, or *)
(* one does where none was. *)

\* A segment at its desk is on no job, one at work is on one.
ModeIsPlace ==
    \A t \in Turns : Live(t) /\ turns[t].mode # "readonly" =>
        turns[t].mode = IF turns[t].job = Desk THEN "desk" ELSE "work"

\* Live after the step, this row was live before it, at the same place of the same Bot.
Kept(t) ==
    Live(t)' /\ turns'[t].mode # "readonly" =>
        /\ Live(t)
        /\ turns'[t].bot = turns[t].bot /\ turns'[t].job = turns[t].job
        /\ turns'[t].mode = turns[t].mode
NoneBegins == \A t \in Turns : Kept(t)
BeginsAlone(t, b, j) ==
    /\ \A u \in Turns \ {t} : Kept(u)
    /\ turns'[t].bot = b /\ turns'[t].job = j
    /\ turns'[t].mode = IF j = Desk THEN "desk" ELSE "work"
    /\ LiveOn(b, j) \subseteq {t}
    /\ j = Desk \/ t \in WorkingOf(b) \/ ~(Cardinality(WorkingOf(b)) >= Limit)
AtMostOneBegins ==
    \/ NoneBegins
    \/ \E t \in Turns, b \in Bots, j \in Places : BeginsAlone(t, b, j)

\* Such a step leaves a Bot one segment on each plan.
LEMMA AloneKept ==
    ASSUME OneLivePerPlan, AtMostOneBegins
    PROVE  OneLivePerPlan'
<1>1. CASE NoneBegins
    BY <1>1 DEF NoneBegins, Kept, OneLivePerPlan, Live
<1>2. CASE \E t \in Turns, b \in Bots, j \in Places : BeginsAlone(t, b, j)
    <2> PICK t \in Turns, b \in Bots, j \in Places : BeginsAlone(t, b, j)
        BY <1>2
    <2>1. ASSUME NEW u \in Turns \ {t}, Live(u)', turns'[u].mode # "readonly",
                 turns'[u].bot = b, Plan(turns'[u].job) = Plan(j)
          PROVE  FALSE
        <3>1. u \in LiveOn(b, j)
            BY <2>1 DEF BeginsAlone, Kept, LiveOn, LiveOf, Live
        <3> QED BY <3>1 DEF BeginsAlone
    <2>2. ASSUME NEW u \in Turns \ {t}, NEW v \in Turns \ {t}, Live(u)', Live(v)',
                 turns'[u].bot = turns'[v].bot,
                 turns'[u].mode # "readonly", turns'[v].mode # "readonly",
                 Plan(turns'[u].job) = Plan(turns'[v].job)
          PROVE  u = v
        BY <2>2 DEF BeginsAlone, Kept, OneLivePerPlan, Live
    <2> QED BY <2>1, <2>2 DEF BeginsAlone, OneLivePerPlan, Live
<1> QED BY <1>1, <1>2 DEF AtMostOneBegins

LEMMA SameTurns ==
    ASSUME UNCHANGED turns
    PROVE  AtMostOneBegins
BY DEF AtMostOneBegins, NoneBegins, Kept, Live

\* A turn opened where none of its Bot was on that plan begins alone.
LEMMA OpensAlone ==
    ASSUME TypeOK, NEW b \in Bots, NEW j \in Places, NEW l, NEW mark,
           NEW from \in [Turns -> TurnRow],
           \A u \in Turns : /\ from[u].status = turns[u].status /\ from[u].bot = turns[u].bot
                            /\ from[u].job = turns[u].job /\ from[u].mode = turns[u].mode,
           OpenTurn(from, b, j, l, mark), LiveOn(b, j) = {}, ~InLine(b, j)
    PROVE  AtMostOneBegins
<1> PICK t \in Turns, i \in Items :
        turns' = [from EXCEPT ![t] =
            [status |-> "running", bot |-> b, job |-> j, item |-> i, trigger |-> l,
             mode |-> IF j = Desk THEN "desk" ELSE "work", ended |-> FALSE, note |-> FALSE]]
    BY DEF OpenTurn
<1>1. BeginsAlone(t, b, j)  BY DEF BeginsAlone, Kept, Live, InLine
<1> QED BY <1>1 DEF AtMostOneBegins

\* A read-only turn is not one of them.
LEMMA ReadOnlyBeginsNone ==
    ASSUME TypeOK, NEW b \in Bots, NEW l, NEW from \in [Turns -> TurnRow],
           \A u \in Turns : /\ from[u].status = turns[u].status /\ from[u].bot = turns[u].bot
                            /\ from[u].job = turns[u].job /\ from[u].mode = turns[u].mode,
           OpenReadOnly(from, b, l)
    PROVE  AtMostOneBegins
<1> PICK t \in Turns :
        turns' = [from EXCEPT ![t] =
            [status |-> "running", bot |-> b, job |-> Desk, item |-> 0, trigger |-> l,
             mode |-> "readonly", ended |-> FALSE, note |-> FALSE]]
    BY DEF OpenReadOnly
<1>1. NoneBegins  BY DEF NoneBegins, Kept, Live
<1> QED BY <1>1 DEF AtMostOneBegins

LEMMA StartsAlone ==
    ASSUME TypeOK, NEW b \in Bots, NEW j \in Places, NEW l, NEW yourLine,
           StartTurn(b, j, l, yourLine)
    PROVE  AtMostOneBegins
<1>0. turns \in [Turns -> TurnRow]  BY DEF TypeOK
<1>1. CASE UNCHANGED turns  BY <1>1, SameTurns
<1>2. CASE OpenReadOnly(turns, b, l)  BY <1>0, <1>2, ReadOnlyBeginsNone
<1>3. CASE HearersAt(b, j) = {} /\ ~InLine(b, j) /\ ~Refused(b, j, l) /\ OpenTurn(turns, b, j, l, FALSE)
    <2>1. LiveOn(b, j) = {}  BY <1>3 DEF HearersAt, Refused
    <2> QED BY <1>0, <1>3, <2>1, OpensAlone
<1> QED BY <1>1, <1>2, <1>3 DEF StartTurn, NothingOpens, NoTurnOpens

LEMMA HearsOrStartsAlone ==
    ASSUME TypeOK, NEW b \in Bots, NEW j \in Places, NEW l, NEW yourLine,
           HearOrStart(b, j, l, yourLine)
    PROVE  AtMostOneBegins
BY SameTurns, StartsAlone DEF HearOrStart, NothingOpens, NoTurnOpens

LEMMA ClaimsAlone ==
    ASSUME TypeOK, NEW t \in Turns, Claim(t)
    PROVE  AtMostOneBegins
<1> DEFINE b == turns[t].bot
           j == turns[t].job
           claimed == [turns EXCEPT ![t].note = FALSE]
<1>0. turns \in [Turns -> TurnRow] /\ turns[t] \in TurnRow /\ b \in Bots /\ j \in Places
    BY DEF TypeOK, TurnRow
<1>1. /\ claimed \in [Turns -> TurnRow]
      /\ \A u \in Turns : /\ claimed[u].status = turns[u].status /\ claimed[u].bot = turns[u].bot
                          /\ claimed[u].job = turns[u].job /\ claimed[u].mode = turns[u].mode
    BY <1>0 DEF TurnRow
<1>2. CASE UNCHANGED turns  BY <1>2, SameTurns
<1>3. CASE OpenReadOnly(claimed, b, said + 1)
    <2> HIDE DEF claimed
    <2> QED BY <1>0, <1>1, <1>3, ReadOnlyBeginsNone
<1>4. CASE LiveOn(b, j) = {} /\ ~InLine(b, j) /\ OpenTurn(claimed, b, j, said + 1, FALSE)
    <2> HIDE DEF claimed
    <2> QED BY <1>0, <1>1, <1>4, OpensAlone
<1>5. CASE \E u \in Turns, i \in Items :
              turns' = [claimed EXCEPT ![u] =
                           [turns[t] EXCEPT !.status = "completed", !.item = i,
                                            !.trigger = said + 1, !.note = FALSE]]
    <2> PICK u \in Turns, i \in Items :
              turns' = [claimed EXCEPT ![u] =
                           [turns[t] EXCEPT !.status = "completed", !.item = i,
                                            !.trigger = said + 1, !.note = FALSE]]
        BY <1>5
    <2>1. turns'[u].status = "completed"  BY <1>0, <1>1 DEF TurnRow
    <2>2. \A v \in Turns \ {u} : turns'[v] = claimed[v]  BY <1>1
    <2> HIDE DEF claimed
    <2>3. NoneBegins  BY <1>1, <2>1, <2>2 DEF NoneBegins, Kept, Live
    <2> QED BY <2>3 DEF AtMostOneBegins
<1> QED BY <1>2, <1>3, <1>4, <1>5 DEF Claim, NothingOpens, NoTurnOpens

-------------------------------------------------------------------------------
(* The actions that write a turn's row. *)

LEMMA RouteAlone ==
    ASSUME TypeOK, Route
    PROVE  AtMostOneBegins
<1>1. todo.route \in Lines  BY DEF TypeOK, Todo, Route
<1>2. lines[todo.route].bot \in Bots /\ lines[todo.route].job \in Places
    BY <1>1 DEF TypeOK, LineRow
<1> QED BY <1>2, StartsAlone, HearsOrStartsAlone DEF Route

LEMMA ReopenAlone ==
    ASSUME TypeOK, Reopen
    PROVE  AtMostOneBegins
<1>1. CASE NothingOpens  BY <1>1, SameTurns DEF NothingOpens, NoTurnOpens
<1>2. CASE \E m \in todo.unheard :
             HearOrStart(turns[todo.reopen].bot, lines[mail[m].line].job, mail[m].line, FALSE)
    <2> PICK m \in todo.unheard :
             HearOrStart(turns[todo.reopen].bot, lines[mail[m].line].job, mail[m].line, FALSE)
        BY <1>2
    <2>1. turns[todo.reopen].bot \in Bots  BY DEF TypeOK, Todo, TurnRow, Reopen
    <2>2. lines[mail[m].line].job \in Places  BY DEF TypeOK, Todo, MailRow, LineRow
    <2> QED BY <2>1, <2>2, HearsOrStartsAlone
<1> QED BY <1>1, <1>2 DEF Reopen

LEMMA ResumeAlone ==
    ASSUME TypeOK, Resume
    PROVE  AtMostOneBegins
<1> PICK t \in todo.resume :
        \/ NothingOpens
        \/ StartTurn(turns[t].bot, turns[t].job, said + 1, FALSE)
    BY DEF Resume
<1>1. turns[t].bot \in Bots /\ turns[t].job \in Places  BY DEF TypeOK, Todo, TurnRow
<1> QED BY <1>1, SameTurns, StartsAlone DEF NothingOpens, NoTurnOpens

LEMMA TakeUpAlone ==
    ASSUME TypeOK, TakeUp
    PROVE  AtMostOneBegins
<1> PICK l \in todo.takeup : NoTurnOpens \/ StartTurn(lines[l].bot, lines[l].job, l, TRUE)
    BY DEF TakeUp
<1>1. lines[l].bot \in Bots /\ lines[l].job \in Places  BY DEF TypeOK, Todo, LineRow
<1> QED BY <1>1, SameTurns, StartsAlone DEF NoTurnOpens

LEMMA ClaimContinueAlone ==
    ASSUME TypeOK, ClaimContinue
    PROVE  AtMostOneBegins
<1>1. todo.claim \in Turns  BY DEF TypeOK, Todo, ClaimContinue
<1> QED BY <1>1, ClaimsAlone DEF ClaimContinue

LEMMA PickUpAlone ==
    ASSUME TypeOK, PickUp
    PROVE  AtMostOneBegins
<1>1. (\E t \in Turns : Claim(t)) \/ NoTurnOpens  BY DEF PickUp, Segments
<1> QED BY <1>1, ClaimsAlone, SameTurns DEF NoTurnOpens

LEMMA AdmitAlone ==
    ASSUME TypeOK, Admit
    PROVE  AtMostOneBegins
<1> PICK i \in todo.admit :
        \/ /\ LiveOn(items[i].bot, items[i].job) = {} /\ ~InLine(items[i].bot, items[i].job)
           /\ OpenTurn(turns, items[i].bot, items[i].job, mail[Front(i)].line, TRUE)
        \/ NothingOpens
    BY DEF Admit, Dispatchable
<1>1. turns \in [Turns -> TurnRow] /\ items[i].bot \in Bots /\ items[i].job \in Places
    BY DEF TypeOK, Todo, ItemRow
<1> QED BY <1>1, SameTurns, OpensAlone DEF NothingOpens, NoTurnOpens

LEMMA WorkOnAlone ==
    ASSUME TypeOK, ModeIsPlace, NEW t \in Turns, NEW j \in Jobs, WorkOn(t, j)
    PROVE  AtMostOneBegins
<1>0. turns \in [Turns -> TurnRow] /\ turns[t] \in TurnRow /\ turns[t].bot \in Bots /\ j \in Places
    BY DEF TypeOK, TurnRow, Places
<1>1. CASE turns' = [turns EXCEPT ![t].ended = TRUE]
    <2>1. NoneBegins  BY <1>0, <1>1 DEF NoneBegins, Kept, Live, TurnRow
    <2> QED BY <2>1 DEF AtMostOneBegins
<1>2. CASE /\ LiveOn(turns[t].bot, j) \ {t} = {} /\ ~InLine(turns[t].bot, j)
           /\ \E i \in Items :
                 turns' = [turns EXCEPT ![t].job = j, ![t].item = i, ![t].mode = "work"]
    <2>1. j # Desk  BY KernelAssumption
    <2>2. t \in WorkingOf(turns[t].bot) \/ ~(Cardinality(WorkingOf(turns[t].bot)) >= Limit)
        <3>1. CASE LiveOn(turns[t].bot, j) = {}  BY <1>2, <2>1, <3>1 DEF InLine
        <3>2. CASE t \in LiveOn(turns[t].bot, j)
            <4>1. Live(t) /\ turns[t].mode # "readonly" /\ Plan(turns[t].job) = PlanOf[j] /\ PlanOf[j] # Desk
                BY <2>1, <3>2, KernelAssumption DEF LiveOn, LiveOf, Plan
            <4>2. turns[t].job # Desk  BY <4>1 DEF Plan
            <4> QED BY <3>2, <4>1, <4>2 DEF ModeIsPlace, WorkingOf, LiveOn
        <3> QED BY <1>2, <3>1, <3>2
    <2>3. \E i \in Items : turns' = [turns EXCEPT ![t] = [turns[t] EXCEPT !.job = j, !.item = i, !.mode = "work"]]
        BY <1>0, <1>2
    <2>4. /\ turns'[t].bot = turns[t].bot /\ turns'[t].job = j /\ turns'[t].mode = "work"
          /\ \A u \in Turns \ {t} : turns'[u] = turns[u]
        BY <1>0, <2>3 DEF TurnRow
    <2>5. BeginsAlone(t, turns[t].bot, j)
        BY <1>2, <2>1, <2>2, <2>4 DEF BeginsAlone, Kept, Live
    <2> QED BY <1>0, <2>5 DEF AtMostOneBegins
<1> QED BY <1>1, <1>2 DEF WorkOn

\* The ones that end a turn, or mark its row.
LEMMA OthersBeginNone ==
    ASSUME TypeOK, NEW t \in Turns,
           \/ \E h \in Scopes : Hold(h)
           \/ \E how \in {"done", "blocked", "needs_attention"} : EndTurn(t, how)
           \/ Complete(t)
           \/ \E yoursToFix \in BOOLEAN : Fail(t, yoursToFix)
           \/ Unwind(t)
           \/ Crash
    PROVE  AtMostOneBegins
<1>0. turns \in [Turns -> TurnRow]  BY DEF TypeOK
<1>1. \A u \in Turns : \/ turns'[u] = turns[u]
                       \/ turns'[u] = [turns[u] EXCEPT !.ended = TRUE]
                       \/ turns'[u].status # "running"
    <2>1. CASE \E h \in Scopes : Hold(h)  BY <1>0, <2>1 DEF Hold, TurnRow
    <2>2. CASE \E how \in {"done", "blocked", "needs_attention"} : EndTurn(t, how)
        <3>1. turns' = [turns EXCEPT ![t].ended = TRUE]  BY <2>2 DEF EndTurn
        <3> QED BY <1>0, <3>1
    <2>3. CASE Complete(t)  BY <1>0, <2>3 DEF Complete, TurnRow
    <2>4. CASE \E yoursToFix \in BOOLEAN : Fail(t, yoursToFix)
        BY <1>0, <2>4 DEF Fail, TurnRow
    <2>5. CASE Unwind(t)
        <3>1. \/ turns' = turns
              \/ turns' = [turns EXCEPT ![t].status = "interrupted", ![t].note = TRUE]
            BY <2>5 DEF Unwind
        <3> QED BY <1>0, <3>1 DEF TurnRow
    <2>6. CASE Crash
        <3>1. turns' = [u \in Turns |-> IF u \in {v \in Turns : Live(v)}
                   THEN [turns[u] EXCEPT !.status = "interrupted", !.note = TRUE] ELSE turns[u]]
            BY <2>6 DEF Crash
        <3> QED BY <1>0, <3>1 DEF TurnRow
    <2> QED BY <2>1, <2>2, <2>3, <2>4, <2>5, <2>6
<1>2. NoneBegins  BY <1>0, <1>1 DEF NoneBegins, Kept, Live, TurnRow
<1> QED BY <1>2 DEF AtMostOneBegins

-------------------------------------------------------------------------------

\* At most one segment begins in a step, where none of its Bot was.
LEMMA OneBegins == TypeOK /\ ModeIsPlace /\ [Next]_vars => AtMostOneBegins
<1> SUFFICES ASSUME TypeOK, ModeIsPlace, [Next]_vars PROVE AtMostOneBegins
    OBVIOUS
<1>1. CASE You
    BY <1>1, SameTurns DEF You, UserLine, Lift, Continue
<1>2. CASE Stop
    <2>1. CASE Turns = {}  BY <2>1 DEF AtMostOneBegins, NoneBegins
    <2>2. CASE Turns # {}  BY <1>2, <2>2, OthersBeginNone DEF Stop
    <2> QED BY <2>1, <2>2
<1>3. CASE \E t \in Turns : Bot(t)
    BY <1>3, SameTurns, WorkOnAlone, OthersBeginNone DEF Bot, ReadInbox
<1>4. CASE App
    BY <1>4, SameTurns DEF App, AppWork, Sweep, Supervise, tables
<1>5. CASE Rest
    BY <1>5, RouteAlone, ReopenAlone, ResumeAlone, TakeUpAlone, ClaimContinueAlone, PickUpAlone,
       AdmitAlone, SameTurns DEF Rest, Dispatch, tables
<1>6. CASE Crash
    <2>1. CASE Turns = {}  BY <2>1 DEF AtMostOneBegins, NoneBegins
    <2>2. CASE Turns # {}  BY <1>6, <2>2, OthersBeginNone
    <2> QED BY <2>1, <2>2
<1>7. CASE UNCHANGED vars
    BY <1>7, SameTurns DEF vars, tables
<1> QED BY <1>1, <1>2, <1>3, <1>4, <1>5, <1>6, <1>7 DEF Next

\* Where one begins it is placed as its mode says, and a place is free.
LEMMA PlacesKept ==
    ASSUME ModeIsPlace, AtMostOneBegins
    PROVE  ModeIsPlace'
BY DEF ModeIsPlace, AtMostOneBegins, NoneBegins, BeginsAlone, Kept, Live

LEMMA WorkingFinite ==
    ASSUME NEW b
    PROVE  IsFiniteSet(WorkingOf(b)) /\ Cardinality(WorkingOf(b)) \in Nat
<1>1. WorkingOf(b) \in SUBSET Turns  BY DEF WorkingOf, LiveOf
<1>2. IsFiniteSet(Turns)
    <2>1. MaxTurns \in Int /\ 1 \in Int  BY KernelAssumption
    <2> QED BY <2>1, FS_Interval DEF Turns
<1>3. IsFiniteSet(WorkingOf(b))  BY <1>1, <1>2, FS_Subset
<1> QED BY <1>3, FS_CardinalityType

LEMMA LimitKept ==
    ASSUME WithinLimit, AtMostOneBegins
    PROVE  WithinLimit'
<1> SUFFICES ASSUME NEW b \in Bots  PROVE Cardinality(WorkingOf(b)') <= Limit
    BY DEF WithinLimit
<1> DEFINE W == WorkingOf(b)
           N == WorkingOf(b)'
<1>1. IsFiniteSet(W) /\ Cardinality(W) \in Nat /\ Cardinality(W) <= Limit /\ Limit \in Nat
    BY WorkingFinite, KernelAssumption DEF WithinLimit
<1>2. N = {t \in Turns : /\ turns'[t].status = "running" /\ turns'[t].bot = b
                         /\ turns'[t].mode # "readonly" /\ turns'[t].mode = "work"}
    BY DEF WorkingOf, LiveOf, Live
<1>3. W = {t \in Turns : /\ turns[t].status = "running" /\ turns[t].bot = b
                         /\ turns[t].mode # "readonly" /\ turns[t].mode = "work"}
    BY DEF WorkingOf, LiveOf, Live
<1>4. CASE N \subseteq W
    <2>1. N \in SUBSET W  BY <1>4
    <2>2. IsFiniteSet(N) /\ Cardinality(N) <= Cardinality(W)  BY <1>1, <2>1, FS_Subset
    <2>3. Cardinality(N) \in Nat  BY <2>2, FS_CardinalityType
    <2> HIDE DEF N, W
    <2>4. Cardinality(N) <= Limit  BY <1>1, <2>2, <2>3
    <2> QED BY <2>4 DEF N
<1>5. CASE \E t \in Turns : N \subseteq W \cup {t} /\ ~(Cardinality(W) >= Limit)
    <2> PICK t \in Turns : N \subseteq W \cup {t} /\ ~(Cardinality(W) >= Limit)  BY <1>5
    <2> DEFINE A == W \cup {t}
    <2>1. IsFiniteSet(A) /\ Cardinality(A) = IF t \in W THEN Cardinality(W) ELSE Cardinality(W) + 1
        BY <1>1, FS_AddElement
    <2>2. N \in SUBSET A  OBVIOUS
    <2>3. IsFiniteSet(N) /\ Cardinality(N) <= Cardinality(A)  BY <2>1, <2>2, FS_Subset
    <2>4. Cardinality(N) \in Nat  BY <2>3, FS_CardinalityType
    <2>5. ~(Cardinality(W) >= Limit)  OBVIOUS
    <2> HIDE DEF N, W, A
    <2>6. Cardinality(N) <= Limit  BY <1>1, <2>1, <2>3, <2>4, <2>5
    <2> QED BY <2>6 DEF N
<1>6. CASE NoneBegins
    <2>1. N \subseteq W  BY <1>2, <1>3, <1>6 DEF NoneBegins, Kept, Live
    <2> QED BY <1>4, <2>1
<1>7. ASSUME NEW t \in Turns, NEW c \in Bots, NEW j \in Places, BeginsAlone(t, c, j)
      PROVE  Cardinality(WorkingOf(b)') <= Limit
    <2>1. N \subseteq W \cup {t}  BY <1>2, <1>3, <1>7 DEF BeginsAlone, Kept, Live
    <2>2. CASE t \in N
        <3>1. c = b /\ j # Desk  BY <1>2, <1>7, <2>2 DEF BeginsAlone
        <3>2. t \in W \/ ~(Cardinality(W) >= Limit)  BY <1>7, <3>1 DEF BeginsAlone
        <3> QED BY <1>4, <1>5, <2>1, <3>2
    <2>3. CASE t \notin N  BY <1>4, <2>1, <2>3
    <2> QED BY <2>2, <2>3
<1> QED BY <1>6, <1>7 DEF AtMostOneBegins

-------------------------------------------------------------------------------

\* A segment that can work is in the mode of its place (turns.mode, set where a turn opens and
\* where work_on takes up a job).
THEOREM PlacedByMode == Spec => []ModeIsPlace
<1>1. Init => ModeIsPlace
    BY DEF Init, ModeIsPlace, Live
<1>2. TypeOK /\ ModeIsPlace /\ [Next]_vars => ModeIsPlace'
    BY OneBegins, PlacesKept
<1> QED BY <1>1, <1>2, TypeCorrect, PTL DEF Spec

\* A Bot has one live segment on a plan, whichever ticket of it that is on, and one at its desk:
\* however its lines are routed, its jobs taken up, continued, reopened, dispatched and lifted, and
\* wherever the process dies (engine/lifecycle.ts, engine/scheduler.ts, the indexes on turns).
THEOREM OneLive == Spec => []OneLivePerPlan
<1>1. Init => OneLivePerPlan
    BY DEF Init, OneLivePerPlan, Live
<1>2. TypeOK /\ ModeIsPlace /\ OneLivePerPlan /\ [Next]_vars => OneLivePerPlan'
    BY OneBegins, AloneKept
<1> QED BY <1>1, <1>2, TypeCorrect, PlacedByMode, PTL DEF Spec

\* A Bot works at most as many jobs at once as its limit says: wherever work starts, by a line, the
\* queue, Continue or a desk that takes up a job, a place is free (queuePlace), and nowhere else
\* does a segment come to be at work.
THEOREM LimitHolds == Spec => []WithinLimit
<1>1. Init => WithinLimit
    <2> SUFFICES ASSUME Init, NEW b \in Bots  PROVE Cardinality(WorkingOf(b)) <= Limit
        BY DEF WithinLimit
    <2>1. WorkingOf(b) = {}  BY DEF Init, WorkingOf, LiveOf, Live
    <2>2. Cardinality(WorkingOf(b)) = 0  BY <2>1, FS_EmptySet
    <2>3. 0 <= Limit  BY KernelAssumption
    <2> QED BY <2>2, <2>3
<1>2. TypeOK /\ ModeIsPlace /\ WithinLimit /\ [Next]_vars => WithinLimit'
    BY OneBegins, LimitKept
<1> QED BY <1>1, <1>2, TypeCorrect, PlacedByMode, PTL DEF Spec

-------------------------------------------------------------------------------
(* A segment's lease: the work item it is on.  An item keeps its Bot and place   *)
(* for good, and none is closed beside a segment that has not ended.             *)

Filed(t) ==
    /\ turns[t].item # 0 /\ items[turns[t].item].state # "none"
    /\ items[turns[t].item].bot = turns[t].bot /\ items[turns[t].item].job = turns[t].job
LeaseInv == \A t \in Turns : Live(t) =>
    IF turns[t].mode = "readonly" THEN turns[t].item = 0
    ELSE Filed(t) /\ (~turns[t].ended => items[turns[t].item].state # "closed")

\* Items that are there stay there, and none that is open is closed.
Stands(is, js) == \A i \in Items :
    /\ js[i].bot = is[i].bot /\ js[i].job = is[i].job
    /\ is[i].state # "none" => js[i].state # "none"
    /\ js[i].state = "closed" => is[i].state = "closed"

ItemsStay == \A i \in Items : items[i].state # "none" =>
    items'[i].bot = items[i].bot /\ items'[i].job = items[i].job /\ items'[i].state # "none"
NoneOpenCloses == \A i \in Items : items'[i].state = "closed" =>
    \/ items[i].state = "closed"
    \/ ~\E t \in Turns : Live(t)' /\ turns'[t].mode # "readonly" /\ ~turns'[t].ended /\ turns'[t].item = i
OnOpenItem(t) ==
    /\ turns'[t].item \in Items /\ items'[turns'[t].item].state \notin {"none", "closed"}
    /\ items'[turns'[t].item].bot = turns'[t].bot /\ items'[turns'[t].item].job = turns'[t].job
GoesOnWith(t) ==
    /\ Live(t) /\ (turns[t].mode = "readonly" <=> turns'[t].mode = "readonly")
    /\ turns'[t].bot = turns[t].bot /\ turns'[t].job = turns[t].job /\ turns'[t].item = turns[t].item
    /\ turns[t].ended => turns'[t].ended
Leased(t) == Live(t)' =>
    \/ GoesOnWith(t)
    \/ turns'[t].mode = "readonly" /\ turns'[t].item = 0
    \/ turns'[t].mode # "readonly" /\ OnOpenItem(t)
LeaseStep == ItemsStay /\ NoneOpenCloses /\ \A t \in Turns : Leased(t)

LEMMA LeaseKept ==
    ASSUME TypeOK, LeaseInv, LeaseStep
    PROVE  LeaseInv'
<1> SUFFICES ASSUME NEW t \in Turns, Live(t)'
             PROVE  IF turns'[t].mode = "readonly" THEN turns'[t].item = 0
                    ELSE /\ turns'[t].item # 0 /\ items'[turns'[t].item].state # "none"
                         /\ items'[turns'[t].item].bot = turns'[t].bot
                         /\ items'[turns'[t].item].job = turns'[t].job
                         /\ ~turns'[t].ended => items'[turns'[t].item].state # "closed"
    BY DEF LeaseInv, Filed, Live
<1>0. 0 \notin Items  BY DEF Items
<1>1. CASE turns'[t].mode = "readonly" /\ turns'[t].item = 0  BY <1>1
<1>2. CASE turns'[t].mode # "readonly" /\ OnOpenItem(t)  BY <1>0, <1>2 DEF OnOpenItem
<1>3. CASE GoesOnWith(t) /\ turns'[t].mode = "readonly"  BY <1>3 DEF GoesOnWith, LeaseInv
<1>4. CASE GoesOnWith(t) /\ turns'[t].mode # "readonly"
    <2>1. Filed(t) /\ (~turns[t].ended => items[turns[t].item].state # "closed")
        BY <1>4 DEF GoesOnWith, LeaseInv
    <2>2. turns[t].item \in Items  BY <2>1 DEF Filed, TypeOK, TurnRow
    <2>3. /\ items'[turns[t].item].state # "none" /\ items'[turns[t].item].bot = turns[t].bot
          /\ items'[turns[t].item].job = turns[t].job
        BY <2>1, <2>2 DEF Filed, LeaseStep, ItemsStay
    <2>4. ~turns'[t].ended => items'[turns[t].item].state # "closed"
        BY <1>4, <2>1, <2>2 DEF LeaseStep, NoneOpenCloses, GoesOnWith
    <2> QED BY <1>0, <1>4, <2>2, <2>3, <2>4 DEF GoesOnWith
<1> QED BY <1>1, <1>2, <1>3, <1>4 DEF LeaseStep, Leased

\* A step that opens nothing and closes nothing.
LEMMA StandsIsLease ==
    ASSUME Stands(items, items'), \A t \in Turns : Live(t)' => GoesOnWith(t)
    PROVE  LeaseStep
BY DEF Stands, LeaseStep, ItemsStay, NoneOpenCloses, Leased

LEMMA SameTurnsGoOnWith ==
    ASSUME UNCHANGED turns
    PROVE  \A t \in Turns : Live(t)' => GoesOnWith(t)
BY DEF GoesOnWith, Live

LEMMA Requeues ==
    ASSUME NEW ts, NEW is \in [Items -> ItemRow], NEW ids
    PROVE  Stands(is, Requeued(ts, is, ids))
BY DEF Stands, Requeued, ItemRow

LEMMA Refreshes ==
    ASSUME NEW ts, NEW is \in [Items -> ItemRow], NEW ms, NEW hs, NEW bs
    PROVE  Stands(is, RefreshItems(ts, is, ms, hs, bs))
BY Requeues DEF RefreshItems

LEMMA CutsOff ==
    ASSUME NEW ts, NEW is \in [Items -> ItemRow], NEW cut
    PROVE  Stands(is, CutOff(ts, is, cut)) /\ CutOff(ts, is, cut) \in [Items -> ItemRow]
BY DEF Stands, CutOff, ItemRow

LEMMA StandsTwice ==
    ASSUME NEW is, NEW js, NEW ks, Stands(is, js), Stands(js, ks)
    PROVE  Stands(is, ks)
BY DEF Stands

\* The item found or made for a Bot's job is open there, and the others are as they were.
LEMMA ItemFound ==
    ASSUME TypeOK, NEW b \in Bots, NEW j \in Places, NEW i \in Items, IsItemFor(i, b, j),
           NEW js, Stands(WithItem(i, b, j), js)
    PROVE  /\ js[i].state \notin {"none", "closed"} /\ js[i].bot = b /\ js[i].job = j
           /\ \A k \in Items : items[k].state # "none" =>
                 js[k].bot = items[k].bot /\ js[k].job = items[k].job /\ js[k].state # "none"
           /\ \A k \in Items : js[k].state = "closed" => items[k].state = "closed"
<1> DEFINE is == WithItem(i, b, j)
<1>1. items \in [Items -> ItemRow]  BY DEF TypeOK
<1>2. /\ is[i].state \notin {"none", "closed"} /\ is[i].bot = b /\ is[i].job = j
      /\ \A k \in Items : is[k] = items[k] \/ (k = i /\ items[k].state = "none")
    <2>1. CASE OpenItems(b, j) # {}
        <3>1. i \in OpenItems(b, j) /\ is = items  BY <2>1 DEF IsItemFor, Least, WithItem
        <3> QED BY <3>1 DEF OpenItems
    <2>2. CASE OpenItems(b, j) = {}
        <3>1. items[i].state = "none" /\ is = [items EXCEPT ![i] = [state |-> "running", bot |-> b, job |-> j]]
            BY <2>2 DEF IsItemFor, Least, WithItem
        <3> QED BY <1>1, <3>1
    <2> QED BY <2>1, <2>2
<1> HIDE DEF is
<1>3. \A k \in Items : /\ js[k].bot = is[k].bot /\ js[k].job = is[k].job
                       /\ is[k].state # "none" => js[k].state # "none"
                       /\ js[k].state = "closed" => is[k].state = "closed"
    BY DEF Stands, is
<1> QED BY <1>2, <1>3

LEMMA ItemOpen ==
    ASSUME TypeOK, NEW b \in Bots, NEW j \in Places, NEW i \in Items, IsItemFor(i, b, j),
           Stands(WithItem(i, b, j), items')
    PROVE  /\ items'[i].state \notin {"none", "closed"} /\ items'[i].bot = b /\ items'[i].job = j
           /\ ItemsStay /\ NoneOpenCloses
<1> DEFINE js == items'
<1>1. Stands(WithItem(i, b, j), js)  OBVIOUS
<1> HIDE DEF js
<1>2. /\ js[i].state \notin {"none", "closed"} /\ js[i].bot = b /\ js[i].job = j
      /\ \A k \in Items : items[k].state # "none" =>
            js[k].bot = items[k].bot /\ js[k].job = items[k].job /\ js[k].state # "none"
      /\ \A k \in Items : js[k].state = "closed" => items[k].state = "closed"
    BY <1>1, ItemFound
<1> QED BY <1>2 DEF js, ItemsStay, NoneOpenCloses

LEMMA OpensLeased ==
    ASSUME TypeOK, NEW b \in Bots, NEW j \in Places, NEW l, NEW mark \in BOOLEAN,
           NEW from \in [Turns -> TurnRow],
           \A u \in Turns : \/ from[u] = turns[u]
                            \/ /\ from[u].status = turns[u].status /\ from[u].bot = turns[u].bot
                               /\ from[u].job = turns[u].job /\ from[u].mode = turns[u].mode
                               /\ from[u].item = turns[u].item /\ from[u].ended = turns[u].ended,
           OpenTurn(from, b, j, l, mark)
    PROVE  LeaseStep
<1> DEFINE Row(i) == [status |-> "running", bot |-> b, job |-> j, item |-> i, trigger |-> l,
                      mode |-> IF j = Desk THEN "desk" ELSE "work",
                      ended |-> FALSE, note |-> FALSE]
           Rows(t, i) == [from EXCEPT ![t] = Row(i)]
           Its(t, i) == RefreshItems(Rows(t, i), WithItem(i, b, j), mail, holds, {b})
<1> PICK t \in Turns, i \in Items :
        /\ turns' = Rows(t, i) /\ IsItemFor(i, b, j)
        /\ items' = IF mark /\ Its(t, i)[i].state = "queued"
                    THEN [Its(t, i) EXCEPT ![i].state = "running"] ELSE Its(t, i)
    BY DEF OpenTurn
<1> DEFINE is == Its(t, i)
<1>1. WithItem(i, b, j) \in [Items -> ItemRow]  BY WithItemTyped
<1>2. Stands(WithItem(i, b, j), is)  BY <1>1, Refreshes
<1>3. is \in [Items -> ItemRow]
    <2>1. mail \in [Mails -> MailRow]  BY DEF TypeOK
    <2> QED BY <1>1, <2>1, RefreshTyped
<1>4. items' = IF mark /\ is[i].state = "queued" THEN [is EXCEPT ![i].state = "running"] ELSE is
    OBVIOUS
<1> HIDE DEF is, Its
<1>5. Stands(is, items')  BY <1>3, <1>4 DEF Stands, ItemRow
<1>6. Stands(WithItem(i, b, j), items')  BY <1>2, <1>5, StandsTwice
<1>7. /\ items'[i].state \notin {"none", "closed"} /\ items'[i].bot = b /\ items'[i].job = j
      /\ ItemsStay /\ NoneOpenCloses
    BY <1>6, ItemOpen
<1>8. turns'[t] = Row(i) /\ \A u \in Turns \ {t} : turns'[u] = from[u]  OBVIOUS
<1>9. ASSUME NEW u \in Turns  PROVE Leased(u)
    <2>1. CASE u = t
        <3>1. /\ turns'[u].item = i /\ turns'[u].bot = b /\ turns'[u].job = j /\ turns'[u].mode # "readonly"
            BY <1>8, <2>1
        <3> QED BY <1>7, <3>1 DEF Leased, OnOpenItem
    <2>2. CASE u # t  BY <1>8, <2>2 DEF Leased, GoesOnWith, Live
    <2> QED BY <2>1, <2>2
<1> QED BY <1>7, <1>9 DEF LeaseStep

LEMMA ReadOnlyLeased ==
    ASSUME TypeOK, NEW b \in Bots, NEW l, NEW from \in [Turns -> TurnRow],
           \A u \in Turns : \/ from[u] = turns[u]
                            \/ /\ from[u].status = turns[u].status /\ from[u].bot = turns[u].bot
                               /\ from[u].job = turns[u].job /\ from[u].mode = turns[u].mode
                               /\ from[u].item = turns[u].item /\ from[u].ended = turns[u].ended,
           OpenReadOnly(from, b, l)
    PROVE  LeaseStep
<1> PICK t \in Turns :
        /\ turns' = [from EXCEPT ![t] =
               [status |-> "running", bot |-> b, job |-> Desk, item |-> 0, trigger |-> l,
                mode |-> "readonly", ended |-> FALSE, note |-> FALSE]]
        /\ UNCHANGED items
    BY DEF OpenReadOnly
<1>1. \A u \in Turns : Leased(u)  BY DEF Leased, GoesOnWith, Live
<1>2. ItemsStay /\ NoneOpenCloses  BY DEF ItemsStay, NoneOpenCloses
<1> QED BY <1>1, <1>2 DEF LeaseStep

LEMMA SameLeased ==
    ASSUME UNCHANGED <<turns, items>>
    PROVE  LeaseStep
BY SameTurnsGoOnWith, StandsIsLease DEF Stands

\* Work put in line: its item is found or made, and says queued.
LEMMA QueuesStand ==
    ASSUME TypeOK, NEW b \in Bots, NEW j \in Places, NEW l, QueueWork(b, j, l)
    PROVE  ItemsStay /\ NoneOpenCloses
<1>1. CASE UNCHANGED items  BY <1>1 DEF ItemsStay, NoneOpenCloses
<1>2. ASSUME NEW i \in Items, IsItemFor(i, b, j), items' = [WithItem(i, b, j) EXCEPT ![i].state = "queued"]
      PROVE  ItemsStay /\ NoneOpenCloses
    <2> DEFINE is == WithItem(i, b, j)
    <2>1. is \in [Items -> ItemRow]  BY WithItemTyped
    <2>2. items' = [is EXCEPT ![i].state = "queued"]  BY <1>2
    <2> HIDE DEF is
    <2>3. Stands(is, items')  BY <2>1, <2>2 DEF Stands, ItemRow
    <2>4. Stands(WithItem(i, b, j), items')  BY <2>3 DEF is
    <2> QED BY <1>2, <2>4, ItemOpen
<1> QED BY <1>1, <1>2 DEF QueueWork

LEMMA QueuesLeased ==
    ASSUME TypeOK, NEW b \in Bots, NEW j \in Places, NEW l, QueueWork(b, j, l), UNCHANGED turns
    PROVE  LeaseStep
BY QueuesStand, SameTurnsGoOnWith DEF LeaseStep, Leased

LEMMA StartsLeased ==
    ASSUME TypeOK, NEW b \in Bots, NEW j \in Places, NEW l, NEW yourLine,
           StartTurn(b, j, l, yourLine)
    PROVE  LeaseStep
<1>0. turns \in [Turns -> TurnRow]  BY DEF TypeOK
<1>1. CASE UNCHANGED <<turns, items>>  BY <1>1, SameLeased
<1>2. CASE OpenReadOnly(turns, b, l)  BY <1>0, <1>2, ReadOnlyLeased
<1>3. CASE OpenTurn(turns, b, j, l, FALSE)  BY <1>0, <1>3, OpensLeased
<1>4. CASE QueueWork(b, j, l) /\ UNCHANGED turns  BY <1>4, QueuesLeased
<1> QED BY <1>1, <1>2, <1>3, <1>4 DEF StartTurn, NothingOpens, NoTurnOpens

LEMMA HearsOrStartsLeased ==
    ASSUME TypeOK, NEW b \in Bots, NEW j \in Places, NEW l, NEW yourLine,
           HearOrStart(b, j, l, yourLine)
    PROVE  LeaseStep
BY SameLeased, StartsLeased DEF HearOrStart, NothingOpens, NoTurnOpens

LEMMA ClaimsLeased ==
    ASSUME TypeOK, NEW t \in Turns, Claim(t)
    PROVE  LeaseStep
<1> DEFINE b == turns[t].bot
           j == turns[t].job
           claimed == [turns EXCEPT ![t].note = FALSE]
<1>0. turns \in [Turns -> TurnRow] /\ turns[t] \in TurnRow /\ b \in Bots /\ j \in Places
    BY DEF TypeOK, TurnRow
<1>1. /\ claimed \in [Turns -> TurnRow]
      /\ \A u \in Turns : /\ claimed[u].status = turns[u].status /\ claimed[u].bot = turns[u].bot
                          /\ claimed[u].job = turns[u].job /\ claimed[u].mode = turns[u].mode
                          /\ claimed[u].item = turns[u].item /\ claimed[u].ended = turns[u].ended
    BY <1>0 DEF TurnRow
<1>2. CASE UNCHANGED <<turns, items>>  BY <1>2, SameLeased
<1>3. CASE OpenReadOnly(claimed, b, said + 1)
    <2> HIDE DEF claimed
    <2> QED BY <1>0, <1>1, <1>3, ReadOnlyLeased
<1>4. CASE OpenTurn(claimed, b, j, said + 1, FALSE)
    <2> HIDE DEF claimed
    <2> QED BY <1>0, <1>1, <1>4, OpensLeased
<1>5. CASE /\ QueueWork(b, j, said + 1)
           /\ \E u \in Turns, i \in Items :
              turns' = [claimed EXCEPT ![u] =
                           [turns[t] EXCEPT !.status = "completed", !.item = i,
                                            !.trigger = said + 1, !.note = FALSE]]
    <2> PICK u \in Turns, i \in Items :
              turns' = [claimed EXCEPT ![u] =
                           [turns[t] EXCEPT !.status = "completed", !.item = i,
                                            !.trigger = said + 1, !.note = FALSE]]
        BY <1>5
    <2>1. turns'[u].status = "completed"  BY <1>0, <1>1 DEF TurnRow
    <2>2. \A v \in Turns \ {u} : turns'[v] = claimed[v]  BY <1>1
    <2> HIDE DEF claimed
    <2>3. \A v \in Turns : Leased(v)  BY <1>1, <2>1, <2>2 DEF Leased, GoesOnWith, Live
    <2>4. ItemsStay /\ NoneOpenCloses  BY <1>0, <1>5, QueuesStand
    <2> QED BY <2>3, <2>4 DEF LeaseStep
<1> QED BY <1>2, <1>3, <1>4, <1>5 DEF Claim, NothingOpens, NoTurnOpens

-------------------------------------------------------------------------------

LEMMA RestLeased ==
    ASSUME TypeOK, Rest
    PROVE  LeaseStep
<1>1. CASE Route
    <2>1. todo.route \in Lines  BY <1>1 DEF TypeOK, Todo, Route
    <2>2. lines[todo.route].bot \in Bots /\ lines[todo.route].job \in Places
        BY <2>1 DEF TypeOK, LineRow
    <2> QED BY <1>1, <2>2, StartsLeased, HearsOrStartsLeased DEF Route
<1>2. CASE Reopen
    <2>1. CASE NothingOpens  BY <2>1, SameLeased DEF NothingOpens, NoTurnOpens
    <2>2. CASE \E m \in todo.unheard :
                 HearOrStart(turns[todo.reopen].bot, lines[mail[m].line].job, mail[m].line, FALSE)
        <3> PICK m \in todo.unheard :
                 HearOrStart(turns[todo.reopen].bot, lines[mail[m].line].job, mail[m].line, FALSE)
            BY <2>2
        <3>1. turns[todo.reopen].bot \in Bots  BY <1>2 DEF TypeOK, Todo, TurnRow, Reopen
        <3>2. lines[mail[m].line].job \in Places  BY DEF TypeOK, Todo, MailRow, LineRow
        <3> QED BY <3>1, <3>2, HearsOrStartsLeased
    <2> QED BY <1>2, <2>1, <2>2 DEF Reopen
<1>3. CASE Resume
    <2> PICK t \in todo.resume :
            \/ NothingOpens
            \/ StartTurn(turns[t].bot, turns[t].job, said + 1, FALSE)
        BY <1>3 DEF Resume
    <2>1. turns[t].bot \in Bots /\ turns[t].job \in Places  BY DEF TypeOK, Todo, TurnRow
    <2> QED BY <2>1, SameLeased, StartsLeased DEF NothingOpens, NoTurnOpens
<1>4. CASE TakeUp
    <2> PICK l \in todo.takeup :
            (NoTurnOpens /\ UNCHANGED items) \/ StartTurn(lines[l].bot, lines[l].job, l, TRUE)
        BY <1>4 DEF TakeUp
    <2>1. lines[l].bot \in Bots /\ lines[l].job \in Places  BY DEF TypeOK, Todo, LineRow
    <2> QED BY <2>1, SameLeased, StartsLeased DEF NoTurnOpens
<1>5. CASE ClaimContinue
    <2>1. todo.claim \in Turns  BY <1>5 DEF TypeOK, Todo, ClaimContinue
    <2> QED BY <1>5, <2>1, ClaimsLeased DEF ClaimContinue
<1>6. CASE PickUp
    <2>1. PICK i \in todo.pick : \/ \E t \in Turns : Claim(t)
                                 \/ NoTurnOpens /\ QueueWork(items[i].bot, items[i].job, said + 1)
        BY <1>6 DEF PickUp, Segments
    <2>2. items[i].bot \in Bots /\ items[i].job \in Places  BY DEF TypeOK, Todo, ItemRow
    <2> QED BY <2>1, <2>2, ClaimsLeased, QueuesLeased DEF NoTurnOpens
<1>7. CASE Dispatch  BY <1>7, SameLeased DEF Dispatch, tables
<1>8. CASE Admit
    <2> PICK i \in todo.admit :
            \/ OpenTurn(turns, items[i].bot, items[i].job, mail[Front(i)].line, TRUE)
            \/ NothingOpens
        BY <1>8 DEF Admit
    <2>1. turns \in [Turns -> TurnRow] /\ items[i].bot \in Bots /\ items[i].job \in Places
        BY DEF TypeOK, Todo, ItemRow
    <2> QED BY <2>1, SameLeased, OpensLeased DEF NothingOpens, NoTurnOpens
<1> QED BY <1>1, <1>2, <1>3, <1>4, <1>5, <1>6, <1>7, <1>8 DEF Rest
\* The handlers of yours refresh the inbox, and put what is handed back in line.
LEMMA RefreshLeased ==
    ASSUME TypeOK, NEW hs, UNCHANGED turns, items' = RefreshItems(turns, items, mail, hs, Bots)
    PROVE  LeaseStep
<1>1. items \in [Items -> ItemRow]  BY DEF TypeOK
<1>2. Stands(items, items')  BY <1>1, Refreshes
<1> QED BY <1>2, SameTurnsGoOnWith, StandsIsLease

LEMMA YouLeased ==
    ASSUME TypeOK, You
    PROVE  LeaseStep
<1>1. UNCHANGED turns  BY DEF You, UserLine, Lift, Continue
<1>2. \E hs : items' = RefreshItems(turns, items, mail, hs, Bots)
    <2>1. ASSUME NEW b \in Bots, NEW j \in Places, NEW asks \in BOOLEAN, UserLine(b, j, asks)
          PROVE  \E hs : items' = RefreshItems(turns, items, mail, hs, Bots)
        BY <2>1 DEF UserLine, Lifted
    <2>2. ASSUME NEW h \in Scopes, Lift(h)
          PROVE  \E hs : items' = RefreshItems(turns, items, mail, hs, Bots)
        BY <2>2 DEF Lift, Lifted
    <2>3. ASSUME NEW t \in Turns, Continue(t)
          PROVE  \E hs : items' = RefreshItems(turns, items, mail, hs, Bots)
        BY <2>3 DEF Continue, Lifted
    <2> QED BY <2>1, <2>2, <2>3 DEF You
<1> QED BY <1>1, <1>2, RefreshLeased

LEMMA HoldLeased ==
    ASSUME TypeOK, NEW h \in Scopes, Hold(h)
    PROVE  LeaseStep
<1>0. items \in [Items -> ItemRow] /\ turns \in [Turns -> TurnRow]  BY DEF TypeOK
<1>1. items' = RefreshItems(turns, items, mail, holds', Bots)  BY DEF Hold
<1>2. Stands(items, items')  BY <1>0, <1>1, Refreshes
<1>3. \A t \in Turns : turns'[t] = turns[t] \/ turns'[t].status = "stopped"
    <2>1. turns' = [t \in Turns |-> IF t \in EndedBy(h) THEN [turns[t] EXCEPT !.status = "stopped"]
                                    ELSE turns[t]]
        BY DEF Hold
    <2> QED BY <1>0, <2>1 DEF TurnRow
<1>4. \A t \in Turns : Live(t)' => GoesOnWith(t)  BY <1>3 DEF GoesOnWith, Live
<1> QED BY <1>2, <1>4, StandsIsLease

LEMMA AppLeased ==
    ASSUME TypeOK, App
    PROVE  LeaseStep
<1>1. ASSUME NEW b \in Bots, NEW j \in Jobs, AppWork(b, j)  PROVE LeaseStep
    <2>1. j \in Places  BY DEF Places
    <2> QED BY <1>1, <2>1, QueuesLeased DEF AppWork
<1>2. ASSUME NEW t \in Turns, Sweep(t)  PROVE LeaseStep
    BY <1>2, SameLeased DEF Sweep, tables
<1>3. CASE Supervise
    <2>1. items' = [i \in Items |-> Repaired(i)] /\ UNCHANGED turns  BY <1>3 DEF Supervise
    <2>2. ASSUME NEW i \in Items
          PROVE  /\ Repaired(i).bot = items[i].bot /\ Repaired(i).job = items[i].job
                 /\ items[i].state # "none" => Repaired(i).state # "none"
                 /\ Repaired(i).state = "closed" => items[i].state = "closed"
        <3>1. items[i] \in ItemRow  BY DEF TypeOK
        <3>2. LostRepaired(i) = items[i].state \/ LostRepaired(i) \in {"needs_attention", "running", "idle"}
            BY DEF LostRepaired
        <3>3. MailInLine(i, LostRepaired(i)) \in {LostRepaired(i), "queued"}
            BY DEF MailInLine
        <3> QED BY <3>1, <3>2, <3>3 DEF Repaired, ItemRow
    <2>3. Stands(items, items')  BY <2>1, <2>2 DEF Stands
    <2> QED BY <2>1, <2>3, SameTurnsGoOnWith, StandsIsLease
<1> QED BY <1>1, <1>2, <1>3 DEF App

\* A turn that ends keeps the others on their items.
LEMMA EndsLeased ==
    ASSUME TypeOK, NEW t \in Turns,
           Complete(t) \/ \E yoursToFix \in BOOLEAN : Fail(t, yoursToFix)
    PROVE  LeaseStep
<1>0. items \in [Items -> ItemRow] /\ turns \in [Turns -> TurnRow]  BY DEF TypeOK
<1>1. \A u \in Turns : turns'[u] = turns[u] \/ turns'[u].status = "completed"
    BY <1>0 DEF Complete, Fail, TurnRow
<1>2. \A u \in Turns : Live(u)' => GoesOnWith(u)  BY <1>1 DEF GoesOnWith, Live
<1>3. items' = items \/ \E ts, cut : items' = CutOff(ts, items, cut)
    BY DEF Complete, Fail
<1>4. Stands(items, items')
    <2>1. CASE items' = items  BY <2>1 DEF Stands
    <2>2. CASE \E ts, cut : items' = CutOff(ts, items, cut)  BY <1>0, <2>2, CutsOff
    <2> QED BY <1>3, <2>1, <2>2
<1> QED BY <1>2, <1>4, StandsIsLease

\* The item of a turn unwound stops saying running when no live turn is on it.
LEMMA UnwindLeased ==
    ASSUME TypeOK, NEW t \in Turns, Unwind(t)
    PROVE  LeaseStep
<1>0. items \in [Items -> ItemRow] /\ turns \in [Turns -> TurnRow]  BY DEF TypeOK
<1>1. PICK ts, is, cut, ids :
        /\ turns' = ts
        /\ is = Requeued(ts, CutOff(ts, items, cut), ids)
        /\ \/ items' = is
           \/ ~LiveItem(ts, turns[t].item) /\ \E next \in {"closed", "idle"} :
                 items' = [is EXCEPT ![turns[t].item].state = next]
    BY DEF Unwind
<1>2. Stands(items, is) /\ is \in [Items -> ItemRow]
    <2>1. Stands(items, CutOff(ts, items, cut)) /\ CutOff(ts, items, cut) \in [Items -> ItemRow]
        BY <1>0, CutsOff
    <2>2. Stands(CutOff(ts, items, cut), is)  BY <1>1, <2>1, Requeues
    <2>3. is \in [Items -> ItemRow]  BY <1>1, <2>1, RequeuedTyped
    <2> QED BY <2>1, <2>2, <2>3, StandsTwice
<1>3. \A u \in Turns : Live(u)' => GoesOnWith(u)
    <2>1. turns' = turns \/ turns' = [turns EXCEPT ![t].status = "interrupted", ![t].note = TRUE]
        BY DEF Unwind
    <2>2. \A u \in Turns : turns'[u] = turns[u] \/ turns'[u].status = "interrupted"
        BY <1>0, <2>1 DEF TurnRow
    <2> QED BY <2>2 DEF GoesOnWith, Live
<1>4. CASE items' = is
    <2>1. Stands(items, items')  BY <1>2, <1>4
    <2> QED BY <1>3, <2>1, StandsIsLease
<1>5. CASE ~LiveItem(ts, turns[t].item) /\ \E next \in {"closed", "idle"} :
              items' = [is EXCEPT ![turns[t].item].state = next]
    <2> PICK next \in {"closed", "idle"} : items' = [is EXCEPT ![turns[t].item].state = next]
        BY <1>5
    <2>1. \A k \in Items : /\ items'[k].bot = is[k].bot /\ items'[k].job = is[k].job
                           /\ is[k].state # "none" => items'[k].state # "none"
                           /\ items'[k].state = "closed" => is[k].state = "closed" \/ k = turns[t].item
        BY <1>2 DEF ItemRow
    <2>2. ItemsStay  BY <1>2, <2>1 DEF ItemsStay, Stands
    <2>3. ~\E u \in Turns : Live(u)' /\ turns'[u].item = turns[t].item
        BY <1>1, <1>5 DEF LiveItem, Live
    <2>4. NoneOpenCloses  BY <1>2, <2>1, <2>3 DEF NoneOpenCloses, Stands
    <2> QED BY <1>3, <2>2, <2>4 DEF LeaseStep, Leased
<1> QED BY <1>1, <1>4, <1>5

\* No segment is live after the process has died.
LEMMA CrashLeased ==
    ASSUME TypeOK, Crash
    PROVE  LeaseStep
<1>0. items \in [Items -> ItemRow] /\ turns \in [Turns -> TurnRow]  BY DEF TypeOK
<1>1. PICK ts, cut, ms : items' = DesksClosed(RefreshItems(ts, CutOff(ts, items, cut), ms, holds, Bots))
    BY DEF Crash
<1>2. \A t \in Turns : ~Live(t)'
    <2>1. turns' = [u \in Turns |-> IF u \in {v \in Turns : Live(v)}
                   THEN [turns[u] EXCEPT !.status = "interrupted", !.note = TRUE] ELSE turns[u]]
        BY DEF Crash
    <2> QED BY <1>0, <2>1 DEF Live, TurnRow
<1> DEFINE is == RefreshItems(ts, CutOff(ts, items, cut), ms, holds, Bots)
<1>3. Stands(items, is)
    <2>1. Stands(items, CutOff(ts, items, cut)) /\ CutOff(ts, items, cut) \in [Items -> ItemRow]
        BY <1>0, CutsOff
    <2>2. Stands(CutOff(ts, items, cut), is)  BY <2>1, Refreshes
    <2> QED BY <2>1, <2>2, StandsTwice
<1>4. is \in [Items -> ItemRow]
    <2>1. CutOff(ts, items, cut) \in [Items -> ItemRow]  BY <1>0, CutsOff
    <2> DEFINE ids == {ms[m].item : m \in {n \in Mails :
                 /\ ms[n].bot \in Bots /\ ms[n].state = "held" /\ ms[n].item # 0
                 /\ Apart(ts, ms, n) /\ ~MailCovered(holds, ms, n)}}
    <2>2. is = Requeued(ts, CutOff(ts, items, cut), ids)  BY DEF RefreshItems
    <2> HIDE DEF ids, is
    <2> QED BY <2>1, <2>2, RequeuedTyped
<1>5. items' = DesksClosed(is)  BY <1>1
<1> HIDE DEF is
<1>6. ItemsStay
    <2>1. \A i \in Items : items'[i] = is[i] \/ items'[i] = [is[i] EXCEPT !.state = "closed"]
        BY <1>5 DEF DesksClosed
    <2>2. ASSUME NEW i \in Items
          PROVE  /\ items'[i].bot = is[i].bot /\ items'[i].job = is[i].job
                 /\ is[i].state # "none" => items'[i].state # "none"
        <3>1. is[i] \in ItemRow  BY <1>4
        <3> QED BY <2>1, <3>1 DEF ItemRow
    <2> QED BY <1>3, <2>2 DEF ItemsStay, Stands
<1> QED BY <1>2, <1>6 DEF LeaseStep, NoneOpenCloses, Leased

\* The item that a turn's end closes is no other live segment's: that one would be the same Bot's
\* at the same place.
LEMMA EndTurnLeased ==
    ASSUME TypeOK, LeaseInv, OneLivePerPlan,
           NEW t \in Turns, NEW how \in {"done", "blocked", "needs_attention"}, EndTurn(t, how)
    PROVE  LeaseStep
<1> DEFINE i == turns[t].item
<1>0. items \in [Items -> ItemRow] /\ turns \in [Turns -> TurnRow]  BY DEF TypeOK
<1>1. turns' = [turns EXCEPT ![t].ended = TRUE] /\ Live(t)  BY DEF EndTurn, Active
<1>2. /\ turns'[t] = [turns[t] EXCEPT !.ended = TRUE]
      /\ \A u \in Turns \ {t} : turns'[u] = turns[u]
    BY <1>0, <1>1
<1>3. \A u \in Turns : Live(u)' => GoesOnWith(u)
    BY <1>0, <1>2 DEF GoesOnWith, Live, TurnRow
<1>4. CASE i = 0
    <2>1. UNCHANGED items  BY <1>4 DEF EndTurn
    <2> QED BY <1>3, <2>1, StandsIsLease DEF Stands
<1>5. CASE i # 0
    <2>1. PICK next \in {how, "closed", "queued", "idle"} : items' = [items EXCEPT ![i].state = next]
        BY <1>5 DEF EndTurn
    <2>2. \A k \in Items : /\ items'[k].bot = items[k].bot /\ items'[k].job = items[k].job
                           /\ items[k].state # "none" => items'[k].state # "none"
                           /\ items'[k].state = "closed" => items[k].state = "closed" \/ k = i
        BY <1>0, <2>1 DEF ItemRow
    <2>3. ASSUME NEW u \in Turns, Live(u)', turns'[u].mode # "readonly", ~turns'[u].ended, turns'[u].item = i
          PROVE  FALSE
        <3>1. u # t  BY <1>0, <1>2, <2>3 DEF TurnRow
        <3>2. Live(u) /\ turns[u].mode # "readonly" /\ turns[u].item = i  BY <1>2, <2>3, <3>1 DEF Live
        <3>3. turns[t].mode # "readonly"  BY <1>1, <1>5 DEF LeaseInv
        <3>4. Filed(u) /\ Filed(t)  BY <1>1, <3>2, <3>3 DEF LeaseInv
        <3>5. turns[u].bot = turns[t].bot /\ turns[u].job = turns[t].job  BY <3>2, <3>4 DEF Filed
        <3> QED BY <1>1, <3>1, <3>2, <3>3, <3>5 DEF OneLivePerPlan
    <2>4. ItemsStay  BY <2>2 DEF ItemsStay
    <2>5. NoneOpenCloses  BY <2>2, <2>3 DEF NoneOpenCloses
    <2> QED BY <1>3, <2>4, <2>5 DEF LeaseStep, Leased
<1> QED BY <1>4, <1>5
\* work_on's last way: the segment t goes over to the item i of the job j.
Moved(t, i, j) ==
    LET was == turns[t].item
        ts == [turns EXCEPT ![t].job = j, ![t].item = i, ![t].mode = "work"]
        is == WithItem(i, turns[t].bot, j)
    IN /\ IsItemFor(i, turns[t].bot, j)
       /\ turns' = ts
       /\ items' = IF LiveItem(ts, was) \/ is[was].state = "closed" THEN is
                   ELSE IF \E m \in Mails : Unread(m) /\ mail[m].item = was
                   THEN IF is[was].state = "running"
                        THEN [is EXCEPT ![was].state = "idle"] ELSE is
                   ELSE [is EXCEPT ![was].state = "closed"]

\* A segment that takes up a job is on the item found or made for it, and the one it leaves is
\* closed only when no live segment is on it.
LEMMA WorkOnLeased ==
    ASSUME TypeOK, LeaseInv, NEW t \in Turns, NEW j \in Jobs, WorkOn(t, j)
    PROVE  LeaseStep
<1> DEFINE b == turns[t].bot
           was == turns[t].item
<1>0. /\ items \in [Items -> ItemRow] /\ turns \in [Turns -> TurnRow]
      /\ turns[t] \in TurnRow /\ b \in Bots /\ j \in Places
    BY DEF TypeOK, TurnRow, Places
<1>1. Live(t) /\ turns[t].mode # "readonly" /\ ~turns[t].ended  BY DEF WorkOn, Active
<1>2. was \in Items  BY <1>0, <1>1 DEF LeaseInv, Filed, TurnRow
<1>3. CASE turns' = [turns EXCEPT ![t].ended = TRUE] /\ (UNCHANGED items \/ QueueWork(b, j, turns[t].trigger))
    <2>1. /\ turns'[t] = [turns[t] EXCEPT !.ended = TRUE]
          /\ \A u \in Turns \ {t} : turns'[u] = turns[u]
        BY <1>0, <1>3
    <2>2. \A u \in Turns : Live(u)' => GoesOnWith(u)
        BY <1>0, <2>1 DEF GoesOnWith, Live, TurnRow
    <2>3. CASE UNCHANGED items  BY <2>2, <2>3, StandsIsLease DEF Stands
    <2>4. CASE QueueWork(b, j, turns[t].trigger)
        <3>1. ItemsStay /\ NoneOpenCloses  BY <1>0, <2>4, QueuesStand
        <3> QED BY <2>2, <3>1 DEF LeaseStep, Leased
    <2> QED BY <1>3, <2>3, <2>4
<1>4. ASSUME NEW i \in Items, IsItemFor(i, b, j),
             NEW ts, ts = [turns EXCEPT ![t].job = j, ![t].item = i, ![t].mode = "work"],
             NEW is, is = WithItem(i, b, j), turns' = ts,
             items' = IF LiveItem(ts, was) \/ is[was].state = "closed" THEN is
                      ELSE IF \E m \in Mails : Unread(m) /\ mail[m].item = was
                      THEN IF is[was].state = "running" THEN [is EXCEPT ![was].state = "idle"] ELSE is
                      ELSE [is EXCEPT ![was].state = "closed"]
      PROVE  LeaseStep
    <2>1. is \in [Items -> ItemRow]  BY <1>0, <1>4, WithItemTyped
    <2>2. /\ is[i].state \notin {"none", "closed"} /\ is[i].bot = b /\ is[i].job = j
          /\ \A k \in Items : items[k].state # "none" =>
                is[k].bot = items[k].bot /\ is[k].job = items[k].job /\ is[k].state # "none"
          /\ \A k \in Items : is[k].state = "closed" => items[k].state = "closed"
        <3>1. Stands(WithItem(i, b, j), is)  BY <1>4 DEF Stands
        <3> QED BY <1>0, <1>4, <3>1, ItemFound
    <2>3. /\ turns'[t].status = "running" /\ turns'[t].item = i /\ turns'[t].bot = b /\ turns'[t].job = j
          /\ turns'[t].mode = "work"
          /\ \A u \in Turns \ {t} : turns'[u] = turns[u]
        BY <1>0, <1>1, <1>4 DEF Live, TurnRow
    <2>4. LiveItem(ts, i)  BY <1>4, <2>3 DEF LiveItem
    <2>5. \A k \in Items :
            \/ items'[k] = is[k]
            \/ /\ k = was /\ ~LiveItem(ts, was)
               /\ items'[k].bot = is[k].bot /\ items'[k].job = is[k].job /\ items'[k].state \in {"idle", "closed"}
        <3>1. \/ items' = is
              \/ /\ ~LiveItem(ts, was)
                 /\ \E next \in {"idle", "closed"} : items' = [is EXCEPT ![was].state = next]
            BY <1>4
        <3>2. ASSUME NEW k \in Items, NEW next \in {"idle", "closed"}, items' = [is EXCEPT ![was].state = next]
              PROVE  \/ items'[k] = is[k]
                     \/ /\ k = was /\ items'[k].bot = is[k].bot /\ items'[k].job = is[k].job
                        /\ items'[k].state = next
            <4>1. is[k] \in ItemRow  BY <2>1
            <4>2. items'[k] = IF k = was THEN [is[k] EXCEPT !.state = next] ELSE is[k]
                BY <2>1, <3>2
            <4> QED BY <4>1, <4>2 DEF ItemRow
        <3> QED BY <3>1, <3>2
    <2>6. items'[i] = is[i]  BY <2>4, <2>5
    <2>7. ItemsStay  BY <2>2, <2>5 DEF ItemsStay
    <2>8. NoneOpenCloses
        <3>1. ASSUME NEW k \in Items, items'[k].state = "closed", items[k].state # "closed",
                     NEW u \in Turns, Live(u)', turns'[u].item = k
              PROVE  FALSE
            <4>1. LiveItem(ts, k)  BY <1>4, <3>1 DEF LiveItem, Live
            <4> QED BY <2>2, <2>5, <3>1, <4>1
        <3> QED BY <3>1 DEF NoneOpenCloses
    <2>9. OnOpenItem(t)  BY <2>2, <2>3, <2>6 DEF OnOpenItem
    <2>10. \A u \in Turns : Leased(u)  BY <2>3, <2>9 DEF Leased, GoesOnWith, Live
    <2> QED BY <2>7, <2>8, <2>10 DEF LeaseStep
<1>5. ASSUME NEW i \in Items, Moved(t, i, j)  PROVE LeaseStep
    <2> DEFINE ts == [turns EXCEPT ![t].job = j, ![t].item = i, ![t].mode = "work"]
               is == WithItem(i, b, j)
    <2>1. /\ IsItemFor(i, b, j) /\ turns' = ts
          /\ items' = IF LiveItem(ts, was) \/ is[was].state = "closed" THEN is
                      ELSE IF \E m \in Mails : Unread(m) /\ mail[m].item = was
                      THEN IF is[was].state = "running" THEN [is EXCEPT ![was].state = "idle"] ELSE is
                      ELSE [is EXCEPT ![was].state = "closed"]
        BY <1>5 DEF Moved
    <2>2. ts = [turns EXCEPT ![t].job = j, ![t].item = i, ![t].mode = "work"] /\ is = WithItem(i, b, j)
        OBVIOUS
    <2> HIDE DEF ts, is
    <2> QED BY <1>4, <2>1, <2>2
<1> QED BY <1>3, <1>5 DEF WorkOn, Moved

LEMMA LeaseSteps == TypeOK /\ LeaseInv /\ OneLivePerPlan /\ [Next]_vars => LeaseStep
<1> SUFFICES ASSUME TypeOK, LeaseInv, OneLivePerPlan, [Next]_vars PROVE LeaseStep
    OBVIOUS
<1>1. CASE You  BY <1>1, YouLeased
<1>2. CASE Stop  BY <1>2, HoldLeased DEF Stop
<1>3. ASSUME NEW t \in Turns, Bot(t)  PROVE LeaseStep
    <2>1. CASE ReadInbox(t)  BY <2>1, SameLeased DEF ReadInbox
    <2> QED BY <1>3, <2>1, WorkOnLeased, EndTurnLeased, EndsLeased, UnwindLeased DEF Bot
<1>4. CASE App  BY <1>4, AppLeased
<1>5. CASE Rest  BY <1>5, RestLeased
<1>6. CASE Crash  BY <1>6, CrashLeased
<1>7. CASE UNCHANGED vars  BY <1>7, SameLeased DEF vars, tables
<1> QED BY <1>1, <1>2, <1>3, <1>4, <1>5, <1>6, <1>7 DEF Next

\* What the lease rests on: a live segment, ended or not, is filed under an item of its own Bot and
\* place, and a read-only one under none.
THEOREM LeaseInvHolds == Spec => []LeaseInv
<1>1. Init => LeaseInv
    BY DEF Init, LeaseInv, Live
<1>2. TypeOK /\ LeaseInv /\ OneLivePerPlan /\ [Next]_vars => LeaseInv'
    BY LeaseSteps, LeaseKept
<1> QED BY <1>1, <1>2, TypeCorrect, OneLive, PTL DEF Spec

\* A segment that has not ended owns an open work item of its own Bot and place: boot, the end of
\* another segment, a segment that leaves its desk for a job, and the way a turn unwinds close the
\* items beside it and never its own (store/work-items.ts hasWorkAuthority).
THEOREM LeaseIsHeld == Spec => []LeaseHeld
<1>1. LeaseInv => LeaseHeld
    BY DEF LeaseInv, LeaseHeld, Filed
<1> QED BY <1>1, LeaseInvHolds, PTL
=============================================================================
