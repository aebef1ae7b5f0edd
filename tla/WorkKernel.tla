------------------------------ MODULE WorkKernel ------------------------------
(* One Bot's day at the daemon's core: the turns (segments) it runs, the work  *)
(* items that say what it is on, the inbox rows that wait to be read, and the  *)
(* stops (holds) that keep it from working.  The tables live in SQLite and     *)
(* survive a crash; the table of live turns and the synchronous code that is   *)
(* under way do not.                                                           *)
(*                                                                             *)
(* JavaScript runs one handler at a time: between two awaits nothing           *)
(* interleaves.  Where one handler makes several transactions the rest of it   *)
(* waits in "todo", every other handler is shut out until it is done, and a    *)
(* crash may fall between two of them.                                         *)
EXTENDS Integers, FiniteSets

CONSTANTS
    Bots,       \* the Bots, each with one conversation: its direct with you
    Plans,      \* the plans (a "task" row each)
    Jobs,       \* what a segment can be on: a plan as a whole, or one ticket of it
    PlanOf,     \* the plan a job belongs to
    Desk,       \* no job at all: the Bot's desk
    Limit,      \* bots.parallel_limit, or PARALLEL_LIMIT
    Scopes,     \* the stops that can be made
    MaxTurns, MaxItems, MaxMail, MaxLines,  \* bounds on the rows a run may write,
    MaxHolds, MaxCrashes                    \* on the stops made and on the crashes

Turns == 1..MaxTurns
Items == 1..MaxItems
Mails == 1..MaxMail
Lines == 1..MaxLines
Places == Jobs \cup {Desk}
Kinds == {"global", "bot", "plan", "bot_plan", "turn"}

\* A stop: what it covers, and whether only its own Lift ends it ("firm": the
\* app's own stops and a job's drop), or your next word does as well.
Scope == [kind : Kinds, bot : Bots, plan : Plans, turn : Turns, firm : BOOLEAN]

ASSUME KernelAssumption ==
    /\ Desk \notin Jobs /\ Desk \notin Plans
    /\ PlanOf \in [Jobs -> Plans]
    /\ Limit \in Nat \ {0}
    /\ Scopes \subseteq Scope
    /\ {MaxTurns, MaxItems, MaxMail, MaxLines, MaxHolds, MaxCrashes} \subseteq Nat
    /\ MaxLines > 0
    /\ Bots # {}

VARIABLES
    \* the database
    turns,      \* turns
    items,      \* work_items
    mail,       \* inbox_items, in seq order
    lines,      \* messages that wake someone, in the order they were said
    said,       \* how many lines there are
    holds,      \* holds in force
    owed,       \* hold.effect stopped_turns and held_over: what a lift opens again
    answered,   \* hold.effect answered_lines: what it hands back
    \* the process
    lives,      \* lives: the turns this process runs
    aborted,    \* those whose AbortController has fired
    cache,      \* Live.inbox of each
    loops,      \* run() of attachLive not yet through its finally
    todo,       \* what is left of the handler that is running
    \* counted for the bounds alone
    made,       \* stops made
    crashes     \* crashes

tables == <<turns, items, mail, lines, said, holds, owed, answered>>
process == <<lives, aborted, cache, loops, todo>>
bounds == <<made, crashes>>
vars == <<tables, process, bounds>>

TurnRow == [status : {"none", "running", "completed", "stopped", "interrupted"},
            bot : Bots, job : Places, mode : {"work", "desk", "readonly"},
            item : Items \cup {0}, trigger : Lines, ended : BOOLEAN,
            note : BOOLEAN]       \* a continuable line not continued from yet
ItemRow == [state : {"none", "running", "queued", "idle", "blocked",
                     "needs_attention", "closed"},
            bot : Bots, job : Places]
MailRow == [state : {"none", "queued", "held", "delivered", "answered",
                     "unacked", "superseded"},
            bot : Bots, job : Places, turn : Turns \cup {0},
            item : Items \cup {0}, line : Lines]
LineRow == [bot : Bots, job : Places, yours : BOOLEAN, of : Turns \cup {0}]
Todo == [route : Lines \cup {0}, claim : Turns \cup {0}, reopen : Turns \cup {0},
         unheard : SUBSET Mails, resume : SUBSET Turns, takeup : SUBSET Lines,
         pick : SUBSET Items, dispatch : BOOLEAN, admit : SUBSET Items,
         over : Turns \cup {0}]

TypeOK ==
    /\ turns \in [Turns -> TurnRow]
    /\ items \in [Items -> ItemRow]
    /\ mail \in [Mails -> MailRow]
    /\ lines \in [Lines -> LineRow]
    /\ said \in 0..MaxLines
    /\ holds \subseteq Scopes
    /\ owed \in [Scopes -> SUBSET Turns]
    /\ answered \in [Scopes -> SUBSET Lines]
    /\ lives \subseteq Turns
    /\ aborted \subseteq lives
    /\ cache \in [Turns -> SUBSET Mails]
    /\ loops \subseteq Turns
    /\ todo \in Todo
    /\ made \in 0..MaxHolds /\ crashes \in 0..MaxCrashes

Nothing == [route |-> 0, claim |-> 0, reopen |-> 0, unheard |-> {}, resume |-> {},
            takeup |-> {}, pick |-> {}, dispatch |-> FALSE, admit |-> {}, over |-> 0]
Free == todo = Nothing

-------------------------------------------------------------------------------
(* Reading the tables. *)

Plan(j) == IF j = Desk THEN Desk ELSE PlanOf[j]
Least(x, S) == x \in S /\ \A y \in S : x <= y
Greatest(x, S) == x \in S /\ \A y \in S : y <= x

Live(t) == turns[t].status = "running"
LiveOf(b) == {t \in Turns : Live(t) /\ turns[t].bot = b /\ turns[t].mode # "readonly"}
\* Slip: the tickets of a plan counted apart.
LiveOnTicket(b, j) == {t \in LiveOf(b) : turns[t].job = j}
LiveOn(b, j) == {t \in LiveOf(b) : Plan(turns[t].job) = Plan(j)}
WorkingOf(b) == {t \in LiveOf(b) : turns[t].mode = "work"}
\* engine/core.ts active: what a running loop asks after every await.
Active(t) == Live(t) /\ t \in lives \ aborted

\* A stop h covers this Bot at this place, or one of these turns.
Covers(h, b, j, ts) ==
    \/ h.kind = "global"
    \/ h.kind = "bot" /\ h.bot = b
    \/ h.kind = "plan" /\ h.plan = Plan(j)
    \/ h.kind = "bot_plan" /\ h.bot = b /\ h.plan = Plan(j)
    \/ h.kind = "turn" /\ h.turn \in ts
Covering(b, j, ts) == {h \in holds : Covers(h, b, j, ts)}
\* turnHeldBy: the turn itself, and the turn whose line woke it.
TurnHeld(t) == Covering(turns[t].bot, turns[t].job, {t, lines[turns[t].trigger].of}) # {}
LineHeld(b, j, l) == Covering(b, j, {lines[l].of})
MailCovered(hs, ms, m) == \E h \in hs : Covers(h, ms[m].bot, ms[m].job, {ms[m].turn})

\* Work that more mail does not put back in line.
Settled == {"closed", "blocked", "needs_attention"}
\* Slip: closed work taken for open.
OpenItemsOfAnyState(b, j) ==
    {i \in Items : items[i].state # "none" /\ items[i].bot = b /\ items[i].job = j}
OpenItems(b, j) == {i \in Items : /\ items[i].state \notin {"none", "closed"}
                                  /\ items[i].bot = b /\ items[i].job = j}
Waking(i) == {m \in Mails : mail[m].state = "queued" /\ mail[m].item = i}
Unread(m) == mail[m].state \in {"queued", "held"}

\* queuePlace is not null: as many jobs in hand as it works at once, none of them this plan.
\* Slip: one job more than the limit.
InLinePastLimit(b, j) == /\ j # Desk
                         /\ LiveOn(b, j) = {}
                         /\ Cardinality(WorkingOf(b)) > Limit
InLine(b, j) == /\ j # Desk
                /\ LiveOn(b, j) = {}
                /\ Cardinality(WorkingOf(b)) >= Limit

-------------------------------------------------------------------------------
(* The writes several handlers share, each from tables to tables. *)

LiveItem(ts, i) == \E t \in Turns : ts[t].status = "running" /\ ts[t].item = i
Apart(ts, ms, m) == ms[m].turn = 0 \/ ts[ms[m].turn].status # "running"

\* findOrCreateWorkItem: the oldest open item there, as it is, or a new running one.
IsItemFor(i, b, j) ==
    IF OpenItems(b, j) # {} THEN Least(i, OpenItems(b, j))
                            ELSE Least(i, {k \in Items : items[k].state = "none"})
WithItem(i, b, j) ==
    IF OpenItems(b, j) # {} THEN items
    ELSE [items EXCEPT ![i] = [state |-> "running", bot |-> b, job |-> j]]

Requeued(ts, is, ids) ==
    [i \in Items |-> IF i \in ids /\ is[i].state \notin Settled /\ ~LiveItem(ts, i)
                     THEN [is[i] EXCEPT !.state = "queued"] ELSE is[i]]

\* refreshHeldInbox, for these Bots.
RefreshMail(ts, ms, hs, bs) ==
    [m \in Mails |->
        IF ms[m].bot \notin bs THEN ms[m]
        ELSE IF ms[m].state = "queued" /\ Apart(ts, ms, m) /\ MailCovered(hs, ms, m)
             THEN [ms[m] EXCEPT !.state = "held"]
        ELSE IF ms[m].state = "held" /\ ~MailCovered(hs, ms, m)
             THEN [ms[m] EXCEPT !.state = "queued"]
        ELSE ms[m]]
RefreshItems(ts, is, ms, hs, bs) ==
    Requeued(ts, is, {ms[m].item : m \in {n \in Mails :
        /\ ms[n].bot \in bs /\ ms[n].state = "held" /\ ms[n].item # 0
        /\ Apart(ts, ms, n) /\ ~MailCovered(hs, ms, n)}})

\* adoptWaitingInbox, after its refresh: turn t takes over what waited for its work.
Adopted(ts, ms, t) ==
    LET waits(m) == ms[m].bot = ts[t].bot /\ ms[m].state = "queued"
                    /\ ms[m].turn # t /\ Apart(ts, ms, m)
        takes(m) == \/ ms[m].item = ts[t].item
                    \/ ms[m].item = 0 /\ Plan(ms[m].job) = Plan(ts[t].job)
    IN [m \in Mails |->
            IF waits(m) /\ takes(m) THEN [ms[m] EXCEPT !.turn = t, !.item = ts[t].item]
            ELSE IF waits(m) /\ ms[m].line = ts[t].trigger
                 THEN [ms[m] EXCEPT !.state = "superseded"]
            ELSE ms[m]]

\* createTurn's unique indexes (one live turn per item, one per Bot and plan) or the trigger
\* turns_held_insert refuse the row.
Refused(b, j, l) ==
    \/ j # Desk /\ LiveOn(b, j) # {}
    \/ \E i \in OpenItems(b, j) : LiveItem(turns, i)
    \/ LineHeld(b, j, l) # {}

IsNewTurn(t) == Least(t, {u \in Turns : turns[u].status = "none"})
Attached(t) == /\ lives' = lives \cup {t}
               /\ loops' = loops \cup {t}
               /\ cache' = [cache EXCEPT ![t] = {}]

\* Slip: the abort outlives the turn it was for.
DetachedStillAborted(t) == /\ lives' = lives \ {t} /\ UNCHANGED aborted
                           /\ loops' = loops \ {t}
                           /\ cache' = [cache EXCEPT ![t] = {}]
Detached(t) == /\ lives' = lives \ {t} /\ aborted' = aborted \ {t}
               /\ loops' = loops \ {t}
               /\ cache' = [cache EXCEPT ![t] = {}]

\* createTurn and attachLive, on the table "from". "mark": the item then says running
\* (markWorkRunning).
OpenTurn(from, b, j, l, mark) ==
    \E t \in Turns, i \in Items :
        LET row == [status |-> "running", bot |-> b, job |-> j, item |-> i, trigger |-> l,
                    mode |-> IF j = Desk THEN "desk" ELSE "work",
                    ended |-> FALSE, note |-> FALSE]
            ts == [from EXCEPT ![t] = row]
            is == RefreshItems(ts, WithItem(i, b, j), mail, holds, {b})
        IN /\ IsNewTurn(t) /\ IsItemFor(i, b, j)
           /\ turns' = ts
           /\ items' = IF mark /\ is[i].state = "queued"
                       THEN [is EXCEPT ![i].state = "running"] ELSE is
           /\ mail' = Adopted(ts, RefreshMail(ts, mail, holds, {b}), t)
           /\ Attached(t)

OpenReadOnly(from, b, l) ==
    \E t \in Turns :
        /\ IsNewTurn(t)
        /\ turns' = [from EXCEPT ![t] =
               [status |-> "running", bot |-> b, job |-> Desk, item |-> 0, trigger |-> l,
                mode |-> "readonly", ended |-> FALSE, note |-> FALSE]]
        /\ Attached(t)
        /\ UNCHANGED <<items, mail>>

\* queueInboxItem: m is the row already there for that line, turn and job, or a new one.
Heard == {"queued", "held", "delivered"}
SameMail(row) == {m \in Mails : /\ mail[m].state \in Heard
                                /\ [mail[m] EXCEPT !.state = row.state, !.item = row.item] = row}
PutMail(m, row) ==
    IF SameMail(row) # {} THEN Least(m, SameMail(row)) /\ UNCHANGED mail
    ELSE /\ Least(m, {n \in Mails : mail[n].state = "none"})
         /\ mail' = [mail EXCEPT ![m] = row]

\* hearIn: a live turn's inbox gets the line, and its cache when this process runs it.
HearIn(t, l) ==
    \E m \in Mails :
        /\ PutMail(m, [state |-> "queued", bot |-> turns[t].bot, item |-> 0, line |-> l, turn |-> t,
                       job |-> IF lines[l].job = Desk THEN turns[t].job ELSE lines[l].job])
        /\ cache' = IF t \in lives \ aborted THEN [cache EXCEPT ![t] = @ \cup {m}] ELSE cache

\* queueWork: the item in line and its wake, once for a line.
QueueWork(b, j, l) ==
    \E i \in Items :
        LET there == \E m \in Mails : mail[m].item = i /\ mail[m].line = l /\ mail[m].state \in Heard
        IN /\ IsItemFor(i, b, j)
           /\ \/ there /\ UNCHANGED <<items, mail>>
              \/ /\ ~there
                 /\ items' = [WithItem(i, b, j) EXCEPT ![i].state = "queued"]
                 /\ \E m \in Mails : PutMail(m, [state |-> "queued", bot |-> b, job |-> j,
                                                turn |-> 0, item |-> i, line |-> l])

NoTurnOpens == UNCHANGED <<turns, lives, loops>>
NothingOpens == NoTurnOpens /\ UNCHANGED <<items, mail, cache, answered>>

\* The turns at work there that hear a line: of this process, not being cut off, under no stop.
Listening(b, j) == {t \in LiveOn(b, j) : t \in lives \ aborted /\ ~TurnHeld(t)}

\* startTurn, forked: the line l wakes Bot b at place j. A desk hears it even while it is cut off.
\* Slip: a desk that is being cut off hears nothing either.
HearersListening(b, j) == Listening(b, j)
HearersAt(b, j) == IF j = Desk THEN LiveOn(b, Desk) ELSE Listening(b, j)
StartTurn(b, j, l, yourLine) ==
    LET hs == LineHeld(b, j, l)
        hearers == HearersAt(b, j)
    IN \/ /\ hs # {} /\ yourLine
          \* answered read-only, and each stop keeps the line
          /\ OpenReadOnly(turns, b, l)
          /\ answered' = [h \in Scopes |-> IF h \in hs THEN answered[h] \cup {l} ELSE answered[h]]
       \/ hs # {} /\ ~yourLine /\ NothingOpens
       \/ /\ hs = {}
          /\ \E t \in hearers : HearIn(t, l)
          /\ NoTurnOpens /\ UNCHANGED <<items, answered>>
       \/ /\ hs = {} /\ hearers = {} /\ InLine(b, j)
          /\ QueueWork(b, j, l)
          /\ NoTurnOpens /\ UNCHANGED <<cache, answered>>
       \/ /\ hs = {} /\ hearers = {} /\ ~InLine(b, j)
          /\ IF Refused(b, j, l) THEN NothingOpens
             ELSE OpenTurn(turns, b, j, l, FALSE) /\ UNCHANGED answered

\* hearOrStart: a turn of this process that no stop covers hears it, else startTurn. A wake a stop
\* turns away is not heard either, and opens no read-only turn.
HearOrStart(b, j, l, yourLine) ==
    \/ LineHeld(b, j, l) # {} /\ NothingOpens
    \/ /\ LineHeld(b, j, l) = {}
       /\ \E t \in Listening(b, j) : HearIn(t, l)
       /\ NoTurnOpens /\ UNCHANGED <<items, answered>>
    \/ /\ LineHeld(b, j, l) = {} /\ Listening(b, j) = {}
       /\ StartTurn(b, j, l, yourLine)

\* Bound: no handler begins that could want more lines than are left.
Room(n) == said + n <= MaxLines

\* A line that wakes somebody is written.
Say(b, j, yours, of) ==
    /\ Room(1)
    /\ said' = said + 1
    /\ lines' = [lines EXCEPT ![said + 1] = [bot |-> b, job |-> j, yours |-> yours, of |-> of]]

\* Slip: the inbox follows a lift at its Bot's next turn.
LiftedLazily(hs) ==
    /\ holds' = holds \ hs
    /\ owed' = [h \in Scopes |-> IF h \in hs THEN {} ELSE owed[h]]
    /\ answered' = [h \in Scopes |-> IF h \in hs THEN {} ELSE answered[h]]
    /\ UNCHANGED <<mail, items>>

\* liftHold, for each of hs: the inbox follows in the same write.
Lifted(hs) ==
    /\ holds' = holds \ hs
    /\ mail' = RefreshMail(turns, mail, holds \ hs, Bots)
    /\ items' = RefreshItems(turns, items, mail, holds \ hs, Bots)
    /\ owed' = [h \in Scopes |-> IF h \in hs THEN {} ELSE owed[h]]
    /\ answered' = [h \in Scopes |-> IF h \in hs THEN {} ELSE answered[h]]

-------------------------------------------------------------------------------
(* You. *)

\* handleUserMessage, in the Bot's direct: your line ends the stops it is about (liftOnYourLine),
\* unless it only asks where the work stands; then it is routed.
UserLine(b, j, asks) ==
    /\ Free
    /\ Say(b, j, TRUE, 0)
    /\ Lifted(IF asks THEN {}
              ELSE {h \in holds : ~h.firm /\ Covers(h, b, j, {t \in Turns : turns[t].bot = b})})
    /\ todo' = [Nothing EXCEPT !.route = said + 1]
    /\ UNCHANGED <<turns, lives, aborted, cache, loops>>

\* handleParticipation, in a direct with you: heard by the Bot at work there, else a turn opens.
Route ==
    LET l == todo.route
        b == lines[l].bot
    IN /\ l # 0
       /\ IF LiveOf(b) # {} THEN HearOrStart(b, lines[l].job, l, TRUE)
                            ELSE StartTurn(b, lines[l].job, l, TRUE)
       /\ todo' = Nothing
       /\ UNCHANGED <<lines, said, holds, owed, aborted>>

\* Slip: what another stop ended already is taken for ended by this one.
EndedByAgain(h) == {t \in Turns :
    /\ Live(t) \/ turns[t].status = "stopped"
    /\ IF turns[t].mode = "readonly" THEN h.kind = "turn" /\ h.turn = t
       ELSE Covers(h, turns[t].bot, turns[t].job, {t, lines[turns[t].trigger].of})}

\* stopByButton, hold, holdForSpendCap: the stop is made and the turns it covers end in one write
\* (createHold, endCovered); a read-only turn only when it is the one the button is on.
EndedBy(h) == {t \in Turns :
    /\ Live(t)
    /\ IF turns[t].mode = "readonly" THEN h.kind = "turn" /\ h.turn = t
       ELSE Covers(h, turns[t].bot, turns[t].job, {t, lines[turns[t].trigger].of})}
Hold(h) ==
    LET stopped == EndedBy(h)
    IN /\ Free /\ h \in Scopes \ holds
       /\ made < MaxHolds /\ made' = made + 1
       /\ h.kind = "turn" => Live(h.turn) /\ turns[h.turn].job = Desk
       /\ holds' = holds \cup {h}
       /\ mail' = RefreshMail(turns, mail, holds', Bots)
       /\ items' = RefreshItems(turns, items, mail, holds', Bots)
       /\ turns' = [t \in Turns |-> IF t \in stopped THEN [turns[t] EXCEPT !.status = "stopped"]
                                    ELSE turns[t]]
       /\ owed' = [owed EXCEPT ![h] = stopped]
       /\ aborted' = aborted \cup (stopped \cap lives)
       /\ UNCHANGED <<lines, said, answered, lives, cache, loops, todo>>

\* stops.lift (the Lift button): what it stopped opens again and the lines it kept go back to
\* their Bots (resumeLifted), per Bot and plan the first stopped turn and the last line.
Lift(h) ==
    LET samePlan(a, b) == a.bot = b.bot /\ Plan(a.job) = Plan(b.job)
    IN /\ Free /\ h \in holds /\ Room(Cardinality(owed[h]))
       /\ Lifted({h})
       /\ todo' = [Nothing EXCEPT
              !.resume = {t \in owed[h] : \A u \in owed[h] :
                              samePlan(turns[t], turns[u]) => t <= u},
              !.takeup = {l \in answered[h] : \A k \in answered[h] :
                              samePlan(lines[l], lines[k]) => k <= l},
              !.dispatch = TRUE]
       /\ UNCHANGED <<turns, lines, said, lives, aborted, cache, loops>>

\* What another stop still covers waits on that one, rather on one no line of yours lifts.
Heirs(hs) == IF \E h \in hs : h.firm THEN {h \in hs : h.firm} ELSE hs

Resume ==
    \E t \in todo.resume :
        LET b == turns[t].bot
            j == turns[t].job
            still == Covering(b, j, {t})
            rest == [todo EXCEPT !.resume = @ \ {t}]
        IN /\ \A u \in todo.resume : t <= u
           /\ \/ /\ still # {}
                 /\ \E heir \in Heirs(still) : owed' = [owed EXCEPT ![heir] = @ \cup {t}]
                 /\ NothingOpens /\ UNCHANGED <<lines, said>>
                 /\ todo' = rest
              \/ /\ still = {} /\ LiveOn(b, j) # {}     \* the work went on some other way
                 /\ NothingOpens /\ UNCHANGED <<lines, said, owed>>
                 /\ todo' = rest
              \/ /\ still = {} /\ LiveOn(b, j) = {}
                 /\ Say(b, j, FALSE, t)
                 /\ StartTurn(b, j, said + 1, FALSE)
                 /\ UNCHANGED owed
                 \* a Bot back at work here reads its lines there
                 /\ todo' = IF InLine(b, j) THEN rest
                            ELSE [rest EXCEPT !.takeup = {l \in @ : lines[l].bot # b}]
           /\ UNCHANGED <<holds, aborted>>

\* takeUpLine. One the database refuses takes the whole lift back with it: no such lift happens.
TakeUp ==
    \E l \in todo.takeup :
        LET b == lines[l].bot
            j == lines[l].job
            still == Covering(b, j, {})
        IN /\ todo.resume = {} /\ \A k \in todo.takeup : l <= k
           /\ \/ /\ still # {}
                 /\ \E heir \in Heirs(still) : answered' = [answered EXCEPT ![heir] = @ \cup {l}]
                 /\ NoTurnOpens /\ UNCHANGED <<items, mail, cache>>
              \/ /\ still = {}
                 /\ LiveOn(b, j) \subseteq lives \ aborted
                 /\ StartTurn(b, j, l, TRUE)
           /\ todo' = [todo EXCEPT !.takeup = @ \ {l}]
           /\ UNCHANGED <<lines, said, holds, owed, aborted>>

\* Continue on a line that says a turn was interrupted or failed: your word to the Bot, past your
\* own stops over that work (goOnForYourWord).
Continue(t) ==
    /\ Free /\ turns[t].note /\ ~Live(t) /\ Room(1)
    /\ Lifted({h \in Covering(turns[t].bot, turns[t].job, {t}) : ~h.firm})
    /\ todo' = [Nothing EXCEPT !.claim = t]
    /\ UNCHANGED <<turns, lines, said, lives, aborted, cache, loops>>

\* continueFromInterrupt past its lift, and claimInterruptContinue: refused when a stop still covers
\* the work or the Bot is at it already; in line when its Bot is at its limit.
Claim(t) ==
    LET b == turns[t].bot
        j == turns[t].job
        claimed == [turns EXCEPT ![t].note = FALSE]
    IN IF Covering(b, j, {t}) # {} \/ LiveOn(b, j) # {}
       THEN NothingOpens /\ UNCHANGED <<lines, said>>
       ELSE /\ Say(b, j, FALSE, t)
            /\ \/ /\ turns[t].mode = "readonly"
                  /\ OpenReadOnly(claimed, b, said + 1)
               \/ /\ turns[t].mode # "readonly" /\ ~InLine(b, j)
                  /\ OpenTurn(claimed, b, j, said + 1, FALSE)
               \/ /\ turns[t].mode # "readonly" /\ InLine(b, j)
                  /\ QueueWork(b, j, said + 1)
                  /\ \E u \in Turns, i \in Items :
                        /\ IsNewTurn(u) /\ IsItemFor(i, b, j)
                        /\ turns' = [claimed EXCEPT ![u] =
                               [turns[t] EXCEPT !.status = "completed", !.item = i,
                                                !.trigger = said + 1, !.note = FALSE]]
                  /\ UNCHANGED <<lives, loops, cache>>
            /\ UNCHANGED answered

ClaimContinue ==
    /\ todo.claim # 0
    /\ Claim(todo.claim)
    /\ todo' = Nothing
    /\ UNCHANGED <<holds, owed, aborted>>

-------------------------------------------------------------------------------
(* The Bot: the hop loop of a live turn. *)

\* readInbox at the top of a hop: what is queued for the turn is read, or held by a stop.
ReadInbox(t) ==
    LET mine == {m \in Mails : mail[m].state = "queued" /\ mail[m].turn = t}
        stopped(m) == TurnHeld(t) \/ MailCovered(holds, mail, m)
    IN /\ Free /\ Active(t) /\ ~turns[t].ended /\ mine # {}
       /\ mail' = [m \in Mails |-> IF m \in mine
                       THEN [mail[m] EXCEPT !.state = IF stopped(m) THEN "held" ELSE "delivered"]
                       ELSE mail[m]]
       /\ cache' = [cache EXCEPT ![t] = {}]
       /\ UNCHANGED <<turns, items, lines, said, holds, owed, answered, lives, aborted, loops, todo>>

\* Slip: the stops are asked of the place the segment leaves.
MayLeave(t, j) ==
    Covering(turns[t].bot, turns[t].job, {t, lines[turns[t].trigger].of}) = {}

\* workOn and bindToOwnTicket: a segment takes up a job, or goes from its job to one of its tickets.
\* A segment of the Bot already on that plan gets the line instead, and at the limit the job waits:
\* in both the segment is over.
MayTakeUp(t, j) == Covering(turns[t].bot, j, {t, lines[turns[t].trigger].of}) = {}
WorkOn(t, j) ==
    LET b == turns[t].bot
        at == turns[t].job
        l == turns[t].trigger
        busy == LiveOn(b, j) \ {t}
        ending == [turns EXCEPT ![t].ended = TRUE]
        filed == IF at = Desk THEN [lines EXCEPT ![l].job = j] ELSE lines
    IN /\ Free /\ Active(t) /\ ~turns[t].ended /\ turns[t].mode # "readonly"
       /\ j # at /\ (at = Desk \/ Plan(at) = Plan(j))
       /\ MayTakeUp(t, j)
       /\ lines' = filed
       /\ \/ \E u \in busy :
                /\ \E m \in Mails : PutMail(m, [state |-> "queued", bot |-> b, job |-> j,
                                               turn |-> u, item |-> 0, line |-> l])
                /\ turns' = ending
                /\ UNCHANGED items
          \/ /\ busy = {} /\ InLine(b, j)
             /\ QueueWork(b, j, l)
             /\ turns' = ending
          \/ /\ busy = {} /\ ~InLine(b, j)
             /\ \E i \in Items :
                   LET was == turns[t].item
                       ts == [turns EXCEPT ![t].job = j, ![t].item = i, ![t].mode = "work"]
                       is == WithItem(i, b, j)
                   IN /\ IsItemFor(i, b, j)
                      /\ turns' = ts
                      \* closeWorkItemIfIdle(was)
                      /\ items' = IF LiveItem(ts, was) \/ is[was].state = "closed" THEN is
                                  ELSE IF \E m \in Mails : Unread(m) /\ mail[m].item = was
                                  THEN IF is[was].state = "running"
                                       THEN [is EXCEPT ![was].state = "idle"] ELSE is
                                  ELSE [is EXCEPT ![was].state = "closed"]
             /\ UNCHANGED mail
       /\ UNCHANGED <<said, holds, owed, answered, lives, aborted, cache, loops, todo>>

\* finishWork with end_turn: the lines it read are answered for, and its item leaves the segment:
\* blocked on you, past its bounces ("needs_attention"), closed at a desk, idle on a job, or in line
\* again for mail on it the segment did not read.
EndTurn(t, how) ==
    LET i == turns[t].item
        next == IF how # "done" THEN how
                ELSE IF turns[t].job = Desk THEN "closed"
                ELSE IF Waking(i) # {} THEN "queued" ELSE "idle"
        disposed(m) == /\ mail[m].state = "delivered" /\ mail[m].turn = t
                       /\ lines[mail[m].line].yours /\ how # "needs_attention"
    IN /\ Free /\ Active(t) /\ ~turns[t].ended
       /\ turns' = [turns EXCEPT ![t].ended = TRUE]
       /\ items' = IF i = 0 THEN items ELSE [items EXCEPT ![i].state = next]
       /\ mail' = [m \in Mails |-> IF disposed(m) THEN [mail[m] EXCEPT !.state = "answered"]
                                   ELSE mail[m]]
       /\ UNCHANGED <<lines, said, holds, owed, answered, process>>

\* completeSilent, or settleClosingReply's last write: the row says completed.
Complete(t) ==
    /\ Free /\ Active(t) /\ turns[t].ended
    /\ turns' = [turns EXCEPT ![t].status = "completed"]
    /\ lives' = lives \ {t}
    /\ UNCHANGED <<items, mail, lines, said, holds, owed, answered, aborted, cache, loops, todo>>

\* markSegmentCutOff.
CutOff(ts, is, cut) ==
    [i \in Items |-> IF /\ \E t \in cut : ts[t].item = i /\ ts[t].job # Desk
                        /\ is[i].state \in {"running", "queued", "idle"}
                        /\ ~LiveItem(ts, i)
                     THEN [is[i] EXCEPT !.state = "needs_attention"] ELSE is[i]]

\* failTurn: an endpoint, a crash of the loop, an answer that failed twice. What only you can fix
\* leaves the item as it is.
Fail(t, yoursToFix) ==
    LET ts == [turns EXCEPT ![t].status = "completed", ![t].note = TRUE]
    IN /\ Free /\ Active(t)
       /\ turns' = ts
       /\ items' = IF yoursToFix THEN items ELSE CutOff(ts, items, {t})
       /\ todo' = [Nothing EXCEPT !.over = t]      \* the loop returns at once
       /\ UNCHANGED <<mail, lines, said, holds, owed, answered, lives, aborted, cache, loops>>

\* sweepStalledTurns: the turn is aborted, and failTurn, which then asks whether it was aborted,
\* leaves the row to the loop.
Sweep(t) ==
    /\ Free /\ Active(t)
    /\ aborted' = aborted \cup {t}
    /\ todo' = [Nothing EXCEPT !.dispatch = TRUE]
    /\ UNCHANGED <<tables, lives, cache, loops>>

\* The finally of run(): a row still live is interrupted; what the turn did not read waits
\* (releaseTurnInbox), its item stops saying running (settleEndedSegment), and the rest of the
\* handler opens a turn on its unread lines and dispatches.
Unwind(t) ==
    LET cut == IF Live(t) THEN {t} ELSE {}
        i == turns[t].item
        ts == IF Live(t) THEN [turns EXCEPT ![t].status = "interrupted", ![t].note = TRUE] ELSE turns
        own(m) == mail[m].turn = t
        released(m) ==
            IF own(m) /\ mail[m].state = "delivered" /\ lines[mail[m].line].yours
            THEN [mail[m] EXCEPT !.state = "unacked"]
            ELSE IF own(m) /\ Unread(m)
            THEN [mail[m] EXCEPT !.item = IF @ = 0 THEN i ELSE @,
                                 !.state = IF MailCovered(holds, mail, m) THEN "held" ELSE @]
            ELSE mail[m]
        waking == {released(m).item : m \in {n \in Mails : own(n) /\ released(n).state = "queued"}}
        is == Requeued(ts, CutOff(ts, items, cut), waking)
    IN /\ Free \/ todo.over = t
       /\ t \in loops /\ ~Active(t)
       /\ turns' = ts
       /\ mail' = [m \in Mails |-> released(m)]
       /\ items' = IF i # 0 /\ is[i].state = "running" /\ ~LiveItem(ts, i)
                   THEN [is EXCEPT ![i].state = IF is[i].job = Desk THEN "closed" ELSE "idle"]
                   ELSE is
       /\ Detached(t)
       /\ todo' = [Nothing EXCEPT !.reopen = t, !.unheard = cache[t], !.dispatch = TRUE]
       /\ UNCHANGED <<lines, said, holds, owed, answered>>

\* reopenForUnheard: after a turn that completed, one more on the newest line it heard and did not
\* read, and that no stop turns away.
Reopen ==
    LET t == todo.reopen
        b == turns[t].bot
        unheld == {m \in todo.unheard : /\ Unread(m)
                       /\ LineHeld(b, lines[mail[m].line].job, mail[m].line) = {}}
    IN /\ t # 0
       /\ IF turns[t].status # "completed" \/ unheld = {} THEN NothingOpens
          ELSE \E m \in unheld : /\ Greatest(m, unheld)
                                 /\ HearOrStart(b, lines[mail[m].line].job, mail[m].line, FALSE)
       /\ todo' = [todo EXCEPT !.reopen = 0, !.unheard = {}]
       /\ UNCHANGED <<lines, said, holds, owed, aborted>>

-------------------------------------------------------------------------------
(* The app: work put in line, the queue, the supervisor, the process's end. *)

\* A request, a review, a result or a rework queued for a Bot by a domain writer (queueWork).
AppWork(b, j) ==
    /\ Free
    /\ Say(b, j, FALSE, 0)
    /\ QueueWork(b, j, said + 1)
    /\ todo' = [Nothing EXCEPT !.dispatch = TRUE]
    /\ UNCHANGED <<turns, holds, owed, answered, lives, aborted, cache, loops>>

\* dispatchableWork: queued work with waking mail, nothing of its Bot live on its plan, no stop
\* over it, and a place free.
Front(i) == CHOOSE m \in Waking(i) : \A n \in Waking(i) : m <= n
Dispatchable(i) ==
    /\ items[i].state = "queued" /\ Waking(i) # {}
    /\ LiveOn(items[i].bot, items[i].job) = {}
    /\ Covering(items[i].bot, items[i].job, {mail[Front(i)].turn}) = {}
    /\ ~InLine(items[i].bot, items[i].job)

\* dispatchQueued: a snapshot first, then each in order of priority (yours first) and arrival, asked
\* again and admitted in a transaction of its own.
Dispatch ==
    /\ todo.dispatch
    /\ todo = [Nothing EXCEPT !.dispatch = TRUE]
    /\ todo' = [Nothing EXCEPT !.admit = {i \in Items : Dispatchable(i)}]
    /\ UNCHANGED <<tables, lives, aborted, cache, loops>>

Ahead(i, k) ==
    /\ Waking(i) # {} /\ Waking(k) # {}
    /\ LET yours(n) == lines[mail[Front(n)].line].yours
       IN \/ yours(i) /\ ~yours(k)
          \/ yours(i) = yours(k) /\ Front(i) < Front(k)

Admit ==
    \E i \in todo.admit :
        /\ \A k \in todo.admit : ~Ahead(k, i)
        /\ LET l == mail[Front(i)].line
           IN IF /\ Dispatchable(i)
                 /\ LineHeld(items[i].bot, items[i].job, l) = {}
                 /\ ~Refused(items[i].bot, items[i].job, l)
              THEN OpenTurn(turns, items[i].bot, items[i].job, l, TRUE) /\ UNCHANGED answered
              ELSE NothingOpens
        /\ todo' = [todo EXCEPT !.admit = @ \ {i}]
        /\ UNCHANGED <<lines, said, holds, owed, aborted>>

Segments(i) == {t \in Turns : turns[t].status # "none" /\ turns[t].item = i}
LeftAlone(i) == items[i].job # Desk /\ ~LiveItem(turns, i)
LastCutOff(i) == \E t \in Segments(i) : Greatest(t, Segments(i)) /\ turns[t].note

\* repairLostSegments: work that says running with nothing on it was cut off, or is over.
LostRepaired(i) ==
    IF ~LeftAlone(i) \/ items[i].state # "running" \/ Segments(i) = {} THEN items[i].state
    ELSE IF LastCutOff(i) THEN "needs_attention"
    ELSE IF Covering(items[i].bot, items[i].job, {}) # {} THEN "running" ELSE "idle"
\* Slip: idle work waits for your next line.
LeftIdle(i, state) == state
\* requeueMailInLine: idle work with mail to read is in line again.
MailInLine(i, state) ==
    IF LeftAlone(i) /\ state = "idle" /\ Waking(i) # {} THEN "queued" ELSE state
Repaired(i) == [items[i] EXCEPT !.state = MailInLine(i, LostRepaired(i))]

\* supervisorTick and supervise.
Supervise ==
    /\ Free
    /\ items' = [i \in Items |-> Repaired(i)]
    /\ todo' = [Nothing EXCEPT !.dispatch = TRUE, !.pick = {i \in Items :
           /\ items'[i].state = "needs_attention" /\ items[i].job # Desk
           /\ Covering(items[i].bot, items[i].job, {}) = {}
           /\ LiveOn(items[i].bot, items[i].job) = {}
           /\ ~\E m \in Mails : mail[m].state = "held" /\ mail[m].item = i
           /\ Room(Cardinality(Items))}]
    /\ UNCHANGED <<turns, mail, lines, said, holds, owed, answered, lives, aborted, cache, loops>>

\* pickUpAttention: continued from the line its last segment left, else a wake in line.
PickUp ==
    \E i \in todo.pick :
        /\ \A k \in todo.pick : i <= k
        /\ \/ LastCutOff(i) /\ \E t \in Segments(i) : Greatest(t, Segments(i)) /\ Claim(t)
           \/ /\ ~LastCutOff(i)
              /\ Say(items[i].bot, items[i].job, FALSE, 0)
              /\ QueueWork(items[i].bot, items[i].job, said + 1)
              /\ NoTurnOpens /\ UNCHANGED <<cache, answered>>
        /\ todo' = [todo EXCEPT !.pick = @ \ {i}]
        /\ UNCHANGED <<holds, owed, aborted>>

\* Slip: desks are left to the supervisor, as jobs are.
DesksLeft(is) == is
\* settleRunningWork, with no turn live.
DesksClosed(is) == [i \in Items |-> IF is[i].job = Desk /\ is[i].state = "running"
                                    THEN [is[i] EXCEPT !.state = "closed"] ELSE is[i]]

\* The process dies between two transactions and boots again (recoverInterruptedTurns): every live
\* turn is interrupted, what it read is unacked, the inbox is put in line with the stops
\* (releaseEndedInbox), and desks nothing runs are closed (settleRunningWork).
Crash ==
    LET cut == {t \in Turns : Live(t)}
        ts == [t \in Turns |-> IF t \in cut
                   THEN [turns[t] EXCEPT !.status = "interrupted", !.note = TRUE] ELSE turns[t]]
        ms == [m \in Mails |-> IF mail[m].state = "delivered" /\ lines[mail[m].line].yours
                   THEN [mail[m] EXCEPT !.state = "unacked"] ELSE mail[m]]
        is == RefreshItems(ts, CutOff(ts, items, cut), ms, holds, Bots)
    IN /\ todo.resume = {} /\ todo.takeup = {}
       /\ crashes < MaxCrashes /\ crashes' = crashes + 1
       /\ loops # {} \/ ~Free
       /\ turns' = ts
       /\ mail' = RefreshMail(ts, ms, holds, Bots)
       /\ items' = DesksClosed(is)
       /\ lives' = {} /\ aborted' = {} /\ loops' = {}
       /\ cache' = [t \in Turns |-> {}]
       /\ todo' = Nothing
       /\ UNCHANGED <<lines, said, holds, owed, answered>>

-------------------------------------------------------------------------------
Init ==
    LET someBot == CHOOSE b \in Bots : TRUE
    IN /\ turns = [t \in Turns |-> [status |-> "none", bot |-> someBot, job |-> Desk,
              mode |-> "desk", item |-> 0, trigger |-> 1, ended |-> FALSE, note |-> FALSE]]
       /\ items = [i \in Items |-> [state |-> "none", bot |-> someBot, job |-> Desk]]
       /\ mail = [m \in Mails |-> [state |-> "none", bot |-> someBot, job |-> Desk,
              turn |-> 0, item |-> 0, line |-> 1]]
       /\ lines = [l \in Lines |-> [bot |-> someBot, job |-> Desk, yours |-> FALSE, of |-> 0]]
       /\ said = 0
       /\ holds = {}
       /\ owed = [h \in Scopes |-> {}]
       /\ answered = [h \in Scopes |-> {}]
       /\ lives = {} /\ aborted = {} /\ loops = {}
       /\ cache = [t \in Turns |-> {}]
       /\ todo = Nothing
       /\ made = 0 /\ crashes = 0

You == \/ \E b \in Bots, j \in Places, asks \in BOOLEAN : UserLine(b, j, asks)
       \/ \E h \in Scopes : Lift(h)
       \/ \E t \in Turns : Continue(t)
Stop == \E h \in Scopes : Hold(h)

Bot(t) == \/ ReadInbox(t)
          \/ \E j \in Jobs : WorkOn(t, j)
          \/ \E how \in {"done", "blocked", "needs_attention"} : EndTurn(t, how)
          \/ Complete(t)
          \/ \E yoursToFix \in BOOLEAN : Fail(t, yoursToFix)
          \/ Unwind(t)

App == \/ \E b \in Bots, j \in Jobs : AppWork(b, j)
       \/ \E t \in Turns : Sweep(t)
       \/ Supervise

\* What is left of a handler that has begun.
Rest == Route \/ Reopen \/ Resume \/ TakeUp \/ ClaimContinue \/ PickUp \/ Dispatch \/ Admit

Next == \/ You /\ UNCHANGED bounds
        \/ Stop /\ UNCHANGED crashes
        \/ (\E t \in Turns : Bot(t)) /\ UNCHANGED bounds
        \/ App /\ UNCHANGED bounds
        \/ Rest /\ UNCHANGED bounds
        \/ Crash /\ UNCHANGED made

Spec == Init /\ [][Next]_vars

\* The event loop runs every handler that is ready whenever it is idle; a turn comes to an end (its
\* hops, its time and its retries are bounded), and the supervisor's timer fires again and again.
Ends(t) == \/ \E how \in {"done", "blocked", "needs_attention"} : EndTurn(t, how)
           \/ Complete(t)
           \/ \E yoursToFix \in BOOLEAN : Fail(t, yoursToFix)
           \/ Unwind(t)
\* NoRowsLeft is the bound's, not the code's: the behaviours go as far as the rows do.
NoRowsLeft == \/ \A t \in Turns : turns[t].status # "none"
              \/ \A i \in Items : items[i].state # "none"
              \/ \A m \in Mails : mail[m].state # "none"
Within(A) == A /\ ~NoRowsLeft
EventLoop == /\ WF_vars(Within(Rest /\ UNCHANGED bounds))
             /\ \A t \in Turns : SF_vars(Within(Ends(t) /\ UNCHANGED bounds))
             /\ SF_vars(Within(Supervise /\ UNCHANGED bounds))
FairSpec == Init /\ [][Within(Next)]_vars /\ EventLoop

-------------------------------------------------------------------------------
(* What must hold. *)

\* I1 and I1b: a Bot has one live segment on a plan, whichever ticket of it that is on, and one at
\* its desk; a segment is moved to a job (work_on), continued, reopened, dispatched and woken by
\* five handlers, and the desk is kept single by none of the database's indexes.
OneLivePerPlan ==
    \A t, u \in Turns :
        /\ Live(t) /\ Live(u) /\ turns[t].bot = turns[u].bot
        /\ turns[t].mode # "readonly" /\ turns[u].mode # "readonly"
        /\ Plan(turns[t].job) = Plan(turns[u].job)
        => t = u

\* A Bot works at most as many jobs at once as its limit says (PARALLEL_LIMIT), though the limit is
\* asked only where work starts: by a line, the queue, Continue, and a desk that takes up a job.
WithinLimit == \A b \in Bots : Cardinality(WorkingOf(b)) <= Limit

\* I2: no segment that can work is live under a stop that covers it, wherever the stop was made,
\* whichever job the segment has moved to since, and whoever opened it.
StopsHold == \A t \in Turns : Live(t) /\ turns[t].mode # "readonly" => ~TurnHeld(t)

\* I3's lease (hasWorkAuthority): a segment that has not ended owns an open work item of its own Bot
\* and place. Boot, the end of another segment and work_on close items beside it.
LeaseHeld ==
    \A t \in Turns :
        LET row == turns[t] IN
        Live(t) /\ row.mode # "readonly" /\ ~row.ended =>
            /\ row.item # 0 /\ items[row.item].state # "closed"
            /\ items[row.item].bot = row.bot /\ items[row.item].job = row.job

\* A line under which you read "held" has a stop in force that covers it: the lift of the last one
\* puts it back in line in the same write (refreshHeldInbox), whatever turn it has been given to.
HeldMeansCovered ==
    \A m \in Mails : mail[m].state = "held" => MailCovered(holds, mail, m)

\* A turn a stop ended is owed by one stop only: two would open it twice.
OneWayBack == \A g, h \in Scopes : g # h => owed[g] \cap owed[h] = {}

\* Mail that waits on a job is taken: a turn that can read it opens, or the job stands where it asks
\* for you. It may have come while its Bot was at another job, or at another ticket of this one, or
\* have been left by a turn that ended without reading it.
Waits(m) == /\ mail[m].state = "queued" /\ mail[m].item # 0 /\ Apart(turns, mail, m)
            /\ items[mail[m].item].job # Desk
            /\ items[mail[m].item].state \notin Settled
WaitingMailIsTaken == \A m \in Mails : Waits(m) ~> (~Waits(m) \/ NoRowsLeft)

\* A desk that says running has a segment on it, live or not yet unwound, or nothing would ever
\* close it: dormancy reads it as work still going on (settleEndedSegment, settleRunningWork). A job
\* may say so until the supervisor's next tick.
RunningIsRun ==
    \A i \in Items : items[i].state = "running" /\ items[i].job = Desk =>
        \E t \in Segments(i) : Live(t) \/ t \in loops

\* Your line, once routed, is a turn's to answer, waits in an inbox or has been read, whatever the
\* Bot was doing, unless a stop turns it away or a turn cut off by the sweep is still on that plan
\* (createTurn then refuses the line, and says so).
RoutedLineLands ==
    [][LET l == todo.route
           b == lines[l].bot
           j == lines[l].job
       IN l # 0 /\ todo'.route = 0 /\ LineHeld(b, j, l) = {}
          /\ (j = Desk \/ LiveOn(b, j) \cap aborted = {})
          /\ crashes' = crashes
          => \/ \E t \in Turns : Live(t)' /\ turns'[t].trigger = l
             \/ \E m \in Mails : mail'[m].line = l /\ mail'[m].state \in Heard]_vars

-------------------------------------------------------------------------------
(* What the comments and the docs say, and the code does otherwise (README, "Findings"). *)

\* "A turn that ends first leaves it waiting for the Bot's next turn in the same conversation, which
\* takes it over when it opens" (store/inbox.ts).  A desk's item is closed with it.
UnreadIsTakenOver ==
    \A m \in Mails : \A t \in Turns :
        /\ mail[m].state = "queued" /\ mail[m].turn # 0 /\ ~Live(mail[m].turn)
        /\ mail[m].turn \notin loops
        /\ Live(t) /\ turns[t].mode = "desk" /\ turns[t].bot = mail[m].bot /\ t > mail[m].turn
        => mail[m].job # Desk

=============================================================================
