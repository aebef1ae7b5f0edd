------------------------------- MODULE Restart -------------------------------
(* Quiescing, stopping, dying and starting again: the turns a run's end cuts     *)
(* off, the record of them the next boot takes, what it tells you of them, and   *)
(* how they go on.  One plan, with a job of each Bot on it, and desks.  A run is *)
(* one opening of the database; every run swaps the id the last one left, so the *)
(* run before is always one less.  A turn's place in "turns" is its time.        *)
EXTENDS Naturals, Sequences, FiniteSets

CONSTANTS
    Jobs,      \* the work items: a Bot's work on the plan, or at its desk
    Desks,     \* those on no plan
    MaxTurns,  \* bounds: turns opened
    MaxRuns    \* and runs of the daemon

ASSUME RestartAssumption == Desks \subseteq Jobs /\ MaxTurns \in Nat /\ MaxRuns \in Nat \ {0}

VARIABLES
    turns,      \* the turns, in the order they were opened
    attention,  \* the jobs whose work item needs attention
    record,     \* settings._cut_by_shutdown
    notices,    \* the restart notices, in the order they were posted
    run,        \* the run the database was last opened by (settings._last_run)
    stage,      \* how far that run is
    loops,      \* the turns whose task has not settled (core.turnTasks)
    drain,      \* the phase of Quiesce, the turns it waits for, whether it was forced
    pending,    \* what announce has taken from the record and not told yet
    late        \* history: of this run and the one before, those that opened a turn as they closed

vars == <<turns, attention, record, notices, run, stage, loops, drain, pending, late>>

OnPlan == Jobs \ Desks
Times == 0..MaxTurns
Stages == {"down", "opened", "recovered", "telling", "up", "quitting", "closing"}
Turn == [job : Jobs,
         status : {"live", "completed", "interrupted"},
         from : Times,               \* the turn whose line it continues
         unsure : BOOLEAN,           \* cut off, its last step has no known outcome
         endOf : 0..MaxRuns,         \* history: the run whose end found it live,
         told : 0..MaxRuns]          \* and the boot that accounted for it
Notice == [turns : SUBSET Times, acted : {"no", "resume", "leave"}]

NoRecord == [run |-> 0, at |-> 0, turns |-> {}]
Running == [phase |-> "running", turns |-> {}, forced |-> FALSE]

Init ==
    /\ turns = <<>> /\ attention = {} /\ record = NoRecord /\ notices = <<>>
    /\ run = 1 /\ stage = "up" /\ loops = {} /\ drain = Running
    /\ pending = {} /\ late = {}

-----------------------------------------------------------------------------
Live == {t \in DOMAIN turns : turns[t].status = "live"}
LiveOn(j) == \E t \in Live : turns[t].job = j
Continued(t) == \E s \in DOMAIN turns : turns[s].from = t
Latest(t) == \A s \in DOMAIN turns : turns[s].job = turns[t].job => s <= t
CanContinue(t) == turns[t].status = "interrupted" /\ ~Continued(t)

\* Mutant: whose end the record tells of is not asked.
StillCurrent(rec, r) == Len(turns) = rec.at
\* cutRecordIsOf: of that run's end, with no turn opened since.
IsOf(rec, r) == rec.run = r /\ Len(turns) = rec.at

\* Mutant: what the same end had noted before is written over.
NotedAlone(r) == IF Live = {} THEN record ELSE [run |-> r, at |-> Len(turns), turns |-> Live]
\* noteTurnsCutByShutdown.
Noted(r) ==
    IF Live = {} THEN record
    ELSE [run |-> r, at |-> Len(turns),
          turns |-> Live \cup (IF IsOf(record, r) THEN record.turns ELSE {})]

\* The turns with those of "cut" interrupted; r is the run whose end did it.
Ended(cut, r) ==
    [t \in DOMAIN turns |-> IF t \notin cut THEN turns[t]
        ELSE [turns[t] EXCEPT !.status = "interrupted", !.endOf = r]]
\* Mutant: a desk's too.
OfDesksToo(cut) == attention \cup {turns[t].job : t \in cut}
\* Mutant: the job is left as it was.
AttentionKept(cut) == attention
\* markSegmentCutOff: a job on a plan whose segment was cut off needs attention.
AttentionAfter(cut) == attention \cup ({turns[t].job : t \in cut} \cap OnPlan)

\* A turn the end of run r finds live and does not end yet.
FoundLive(r) ==
    [t \in DOMAIN turns |-> IF t \in Live THEN [turns[t] EXCEPT !.endOf = r] ELSE turns[t]]

\* New turns, one for each of "cut" in the order of their time, that continue them.
GoOn(cut) ==
    LET opened(t) == [job |-> turns[t].job, status |-> "live", from |-> t,
                      unsure |-> turns[t].unsure, endOf |-> 0, told |-> 0]
        many == Cardinality(cut)
    IN  /\ Len(turns) + many <= MaxTurns
        /\ \E order \in [1..many -> cut] :
            /\ \A a, b \in 1..many : a < b => order[a] < order[b]
            /\ turns' = turns \o [i \in 1..many |-> opened(order[i])]
        /\ loops' = loops \cup (Len(turns) + 1)..(Len(turns) + many)
        /\ attention' = attention \ {turns[t].job : t \in cut}

-----------------------------------------------------------------------------
(* Turns.  Admission is paused by a drain only, not by the daemon closing.        *)

\* startTurn: a line, a wake, or the dispatch of what is in line.
Start(j) ==
    /\ stage \in {"up", "quitting", "closing"} /\ drain.phase = "running"
    /\ Len(turns) < MaxTurns /\ ~LiveOn(j)
    /\ \E unsure \in IF j \in OnPlan THEN BOOLEAN ELSE {FALSE} :
        turns' = Append(turns, [job |-> j, status |-> "live", from |-> 0,
                                unsure |-> unsure, endOf |-> 0, told |-> 0])
    /\ loops' = loops \cup {Len(turns) + 1}
    /\ attention' = attention \ {j}
    /\ late' = IF stage = "up" THEN late ELSE late \cup {run}
    /\ UNCHANGED <<record, notices, run, stage, drain, pending>>

\* The row of a turn says completed; its task has yet to settle.
Complete(t) ==
    /\ stage \in {"up", "quitting", "closing"} /\ t \in Live
    /\ turns' = [turns EXCEPT ![t].status = "completed"]
    /\ UNCHANGED <<attention, record, notices, run, stage, loops, drain, pending, late>>

\* interruptTurn: the loop of an aborted turn returns.  The sweep of stalled turns
\* aborts one, and the engine's closing all of them.
CutOff(t) ==
    /\ stage \in {"up", "quitting", "closing"} /\ t \in Live
    /\ turns' = [turns EXCEPT ![t].status = "interrupted"]
    /\ attention' = AttentionAfter({t})
    /\ UNCHANGED <<record, notices, run, stage, loops, drain, pending, late>>

Settle(t) ==
    /\ t \in loops \ Live
    /\ loops' = loops \ {t}
    /\ UNCHANGED <<turns, attention, record, notices, run, stage, drain, pending, late>>

-----------------------------------------------------------------------------
(* Quiesce.  Requests to drain that arrive as the daemon closes are left out.    *)

\* Mutant: the rows are asked and the tasks are not.
RowsOnly(ts) == {t \in DOMAIN ts : ts[t].status = "live"}
\* What a drain waits for: the live rows and the tasks that have not settled.
Unsettled(ts) == {t \in DOMAIN ts : ts[t].status = "live"} \cup loops

\* A drain over the turns it found first, as the timer sees it.
Checked(d, ts) ==
    IF d.phase = "draining" /\ d.turns \cap Unsettled(ts) = {}
    THEN [d EXCEPT !.phase = "drained"] ELSE d
Begun == IF drain.phase = "running" THEN [Running EXCEPT !.phase = "draining", !.turns = Unsettled(turns)]
         ELSE drain

Begin ==
    /\ stage = "up" /\ drain.phase = "running"
    /\ drain' = Checked(Begun, turns)
    /\ UNCHANGED <<turns, attention, record, notices, run, stage, loops, pending, late>>

Check ==
    /\ stage = "up" /\ Checked(drain, turns) # drain
    /\ drain' = Checked(drain, turns)
    /\ UNCHANGED <<turns, attention, record, notices, run, stage, loops, pending, late>>

\* The turns are noted, aborted and interrupted; their tasks settle later.
ForceDrain ==
    /\ stage = "up"
    /\ record' = Noted(run)
    /\ turns' = Ended(Live, run)
    /\ attention' = AttentionAfter(Live)
    /\ drain' = Checked([Begun EXCEPT !.forced = TRUE], turns')
    /\ UNCHANGED <<notices, run, stage, loops, pending, late>>

\* forgetTurnsCutByShutdown, of a drain that was forced.
Forgotten == IF drain.forced THEN NoRecord ELSE record
Cancel ==
    /\ stage = "up" /\ drain.phase # "running"
    /\ record' = Forgotten
    /\ turns' = [t \in DOMAIN turns |->
                   IF turns[t].endOf = run THEN [turns[t] EXCEPT !.endOf = 0] ELSE turns[t]]
    /\ drain' = Running
    /\ UNCHANGED <<attention, notices, run, stage, loops, pending, late>>

-----------------------------------------------------------------------------
(* The end of a run. *)

\* POST /v1/runtime/quit; the stop follows in a callback of its own.
Quit ==
    /\ stage = "up"
    /\ record' = Noted(run)
    /\ turns' = Ended(Live, run)
    /\ attention' = AttentionAfter(Live)
    /\ stage' = "quitting"
    /\ UNCHANGED <<notices, run, loops, drain, pending, late>>

\* stop, as far as its first await: the live turns are noted and told to abort.
StopBegin ==
    /\ stage \in {"up", "quitting"}
    /\ record' = Noted(run)
    /\ turns' = FoundLive(run)
    /\ stage' = "closing"
    /\ UNCHANGED <<attention, notices, run, loops, drain, pending, late>>

\* drainLives is through, and what it did not run is interrupted.
StopEnd ==
    /\ stage = "closing" /\ loops = {}
    /\ turns' = Ended(Live, run)
    /\ attention' = AttentionAfter(Live)
    /\ stage' = "down" /\ drain' = Running
    /\ UNCHANGED <<record, notices, run, loops, pending, late>>

\* The process goes, at any point of its run.
Crash ==
    /\ stage # "down"
    /\ turns' = FoundLive(run)
    /\ stage' = "down" /\ loops' = {} /\ drain' = Running /\ pending' = {}
    /\ UNCHANGED <<attention, record, notices, run, late>>

-----------------------------------------------------------------------------
(* The next boot. *)

\* swapLastRun.
Boot ==
    /\ stage = "down" /\ run < MaxRuns
    /\ run' = run + 1 /\ stage' = "opened"
    /\ late' = late \cap {run}
    /\ UNCHANGED <<turns, attention, record, notices, loops, drain, pending>>

\* recoverInterruptedTurns, under the id of the run before.
Recover ==
    /\ stage = "opened"
    /\ record' = Noted(run - 1)
    /\ turns' = Ended(Live, run - 1)
    /\ attention' = AttentionAfter(Live)
    /\ stage' = "recovered"
    /\ UNCHANGED <<notices, run, loops, drain, pending, late>>

\* takeTurnsCutByRestart: the record goes, told of or not.
Take ==
    /\ stage = "recovered"
    /\ pending' = IF IsOf(record, run - 1) THEN {t \in record.turns : CanContinue(t)} ELSE {}
    /\ record' = NoRecord
    /\ stage' = "telling"
    /\ UNCHANGED <<turns, attention, notices, run, loops, drain, late>>

\* The plan's turns are told together, a desk's by itself.
Groups == {OnPlan} \cup {{j} : j \in Desks}
\* The supervisor takes it up with nothing from you.
GoesOnByItself(t) == turns[t].job \in OnPlan /\ Latest(t) /\ ~turns[t].unsure

\* announce, one group: a notice, unless every turn of it goes on by itself.
Tell(g) ==
    LET those == {t \in pending : turns[t].job \in g}
    IN  /\ stage = "telling" /\ those # {}
        /\ pending' = pending \ those
        /\ turns' = [t \in DOMAIN turns |->
                       IF t \in those THEN [turns[t] EXCEPT !.told = run] ELSE turns[t]]
        /\ notices' = IF \A t \in those : GoesOnByItself(t) THEN notices
                      ELSE Append(notices, [turns |-> those, acted |-> "no"])
        /\ UNCHANGED <<attention, record, run, stage, loops, drain, late>>

Up ==
    /\ stage = "telling" /\ pending = {}
    /\ stage' = "up"
    /\ UNCHANGED <<turns, attention, record, notices, run, loops, drain, pending, late>>

-----------------------------------------------------------------------------
(* How a turn that was cut off goes on. *)

Admits == stage = "up" /\ drain.phase = "running"

\* Mutant: a line that has been continued is continued once more.
AnyInterrupted(t) == turns[t].status = "interrupted" /\ ~LiveOn(turns[t].job)
\* claimInterruptContinue.
MayGoOn(t) == CanContinue(t) /\ ~LiveOn(turns[t].job)

\* Continue on its own line.
ContinueTurn(t) ==
    /\ Admits /\ MayGoOn(t)
    /\ GoOn({t})
    /\ UNCHANGED <<record, notices, run, stage, drain, pending, late>>

\* act: Continue on a notice.  Every turn that may goes on; one whose Bot works there
\* already fails the press, which leaves the notice unanswered.
Resume(n) ==
    LET those == {t \in notices[n].turns : MayGoOn(t)}
        refused == \E t \in notices[n].turns : ~Continued(t) /\ LiveOn(turns[t].job)
    IN  /\ Admits /\ notices[n].acted = "no"
        /\ GoOn(those)
        /\ notices' = [notices EXCEPT ![n].acted = IF refused THEN "no" ELSE "resume"]
        /\ UNCHANGED <<record, run, stage, drain, pending, late>>

\* act: Not now on a notice.
Leave(n) ==
    /\ stage = "up" /\ notices[n].acted = "no"
    /\ notices' = [notices EXCEPT ![n].acted = "leave"]
    /\ UNCHANGED <<turns, attention, record, run, stage, loops, drain, pending, late>>

LeftByYou(t) == \E n \in DOMAIN notices : t \in notices[n].turns /\ notices[n].acted = "leave"
\* pickUpAttention, with settleRestartNotices after it: a notice with nothing left to
\* continue is answered.
Supervise(j) ==
    LET settled(n) == \A t \in n.turns : \E s \in DOMAIN turns' : turns'[s].from = t
        changed(n, t) == n.acted = "no" /\ t \in n.turns /\ settled(n)
    IN  /\ Admits /\ j \in attention /\ ~LiveOn(j)
        /\ \E t \in DOMAIN turns :
            /\ turns[t].job = j /\ Latest(t) /\ MayGoOn(t)
            /\ ~turns[t].unsure /\ ~LeftByYou(t)
            /\ GoOn({t})
            /\ notices' = [i \in DOMAIN notices |->
                    IF changed(notices[i], t) THEN [notices[i] EXCEPT !.acted = "resume"] ELSE notices[i]]
        /\ UNCHANGED <<record, run, stage, drain, pending, late>>

-----------------------------------------------------------------------------
Next ==
    \/ \E j \in Jobs : Start(j) \/ Supervise(j)
    \/ \E t \in DOMAIN turns : Complete(t) \/ CutOff(t) \/ Settle(t) \/ ContinueTurn(t)
    \/ Begin \/ Check \/ ForceDrain \/ Cancel
    \/ Quit \/ StopBegin \/ StopEnd \/ Crash
    \/ Boot \/ Recover \/ Take \/ Up
    \/ \E g \in Groups : Tell(g)
    \/ \E n \in DOMAIN notices : Resume(n) \/ Leave(n)

\* A boot runs to its end, an aborted turn's loop returns, a stop goes through, and
\* the supervisor ticks.
Fairness ==
    /\ WF_vars(Boot) /\ WF_vars(Recover) /\ WF_vars(Take) /\ WF_vars(Up)
    /\ WF_vars(\E g \in Groups : Tell(g))
    /\ WF_vars(stage = "closing" /\ \E t \in Live : CutOff(t))
    /\ WF_vars(\E t \in loops : Settle(t))
    /\ WF_vars(stage = "quitting" /\ StopBegin) /\ WF_vars(StopEnd)
    /\ WF_vars(\E j \in OnPlan : Supervise(j))

Spec == Init /\ [][Next]_vars /\ Fairness

-----------------------------------------------------------------------------
(* Properties. *)

\* The variables have their types; the record and the notices are of turns there are,
\* and nothing runs in a process that is not up.
TypeOK ==
    /\ turns \in Seq(Turn) /\ Len(turns) <= MaxTurns
    /\ attention \subseteq OnPlan
    /\ record \in [run : 0..MaxRuns, at : Times, turns : SUBSET DOMAIN turns]
    /\ notices \in Seq(Notice)
    /\ run \in 1..MaxRuns /\ stage \in Stages /\ late \subseteq 1..run
    /\ loops \subseteq DOMAIN turns /\ Live \subseteq loops \cup (IF stage \in {"down", "opened"} THEN Live ELSE {})
    /\ drain \in [phase : {"running", "draining", "drained"}, turns : SUBSET Times, forced : BOOLEAN]
    /\ pending \subseteq DOMAIN turns /\ (pending # {} => stage = "telling")

\* A turn that was cut off is continued once, from its own line, from a notice or by
\* the supervisor, before and after a restart; and a job has one live turn.
GoesOnOnce ==
    /\ \A s, t \in DOMAIN turns : turns[s].from # 0 /\ turns[s].from = turns[t].from => s = t
    /\ \A s, t \in Live : turns[s].job = turns[t].job => s = t

\* What a boot tells you of, the end of the run just before it cut off: not an older
\* one, and not a drain you called off.
ToldOfItsOwnEnd ==
    \A t \in DOMAIN turns : turns[t].told # 0 => turns[t].endOf = turns[t].told - 1

\* Once a boot is up it has accounted for every turn the run before it found live as it
\* ended, or died, and that is cut off still: a first note and a later one, a crash in
\* the middle of the stop and the boot's own recovery add up.  Not so when a turn was
\* opened as that run closed, which makes its record stale.
CutIsTold ==
    stage \in {"up", "quitting", "closing"} /\ run - 1 \notin late =>
        \A t \in DOMAIN turns :
            turns[t].endOf = run - 1 /\ run > 1 /\ CanContinue(t) => turns[t].told = run

\* A drain that says drained is so: no row is live and no task runs, though one may
\* outlive its row.
DrainedIsQuiet == drain.phase = "drained" => Live = {} /\ loops = {}

\* A turn on the plan that was cut off is taken up again, through a crash, a stop or a
\* boot that dies in its turn, unless you said not now, its last step's outcome is not
\* known or the daemon is kept draining.
CutOffLast(t) ==
    /\ t \in DOMAIN turns /\ turns[t].job \in OnPlan /\ Latest(t) /\ CanContinue(t)
    /\ ~turns[t].unsure
Excused(t) ==
    \/ LeftByYou(t) \/ drain.phase # "running" \/ Len(turns) = MaxTurns
    \/ stage = "down" /\ run = MaxRuns
CutGoesOn == \A t \in 1..(MaxTurns - 1) : CutOffLast(t) ~> (~CutOffLast(t) \/ Excused(t))
=============================================================================
