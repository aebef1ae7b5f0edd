------------------------------ MODULE CheckBacks ------------------------------
(* The appointments one Bot makes with itself, on its jobs: booked by a segment, *)
(* set aside by a stop, fired by the scheduler's tick, heard by the segment at   *)
(* work on the job or opening one, and given back when nobody read them.  The    *)
(* reminder a fired one lands is mail on its job.  Time is left out: an          *)
(* appointment that is pending may be due, a segment may be found stalled.       *)
EXTENDS Naturals, Sequences, FiniteSets, FiniteSetsExt

CONSTANTS
    Jobs,       \* the jobs of the Bot: its work on a plan each
    Limit,      \* how many it works at a time
    MaxRows,    \* bounds: appointments booked,
    MaxStops,   \* stops made,
    MaxLines,   \* lines of yours,
    MaxLeaves,  \* removals of the Bot from a conversation
    MaxCrashes  \* and crashes

ASSUME CheckBacksAssumption ==
    {Limit, MaxRows, MaxStops, MaxLines, MaxLeaves, MaxCrashes} \subseteq Nat

VARIABLES
    rows,    \* check_backs, in the order they were booked, each with its reminder's mail
    seg,     \* the jobs with a live segment of the Bot
    cut,     \* those whose segment was found stalled: aborted, its row still live
    away,    \* the jobs whose conversation the Bot was removed from
    ending,  \* the jobs with a segment that completed and has not unwound
    left,    \* for each, what it heard and had not read (Live.inbox)
    stops,   \* the stops in force
    used     \* how much of the bounds is used

vars == <<rows, seg, cut, away, ending, left, stops, used>>

\* A stop on one job, or on everything, as the set of jobs it covers.
Scopes == {{j} : j \in Jobs} \cup {Jobs}
\* The mail of a reminder: none; in the line of the segment at work, and of what
\* that process has in hand to read (heard), or only of the row; held; read.
Mail == {"none", "heard", "queued", "held", "read"}
Row == [job : Jobs,
        at : {"pending", "aside", "fired", "void"},
        mail : Mail,
        here : BOOLEAN,     \* whether the segment at work now read it
        given : BOOLEAN,    \* whether it was ever given back
        reads : 0..2]       \* by how many segments it was read, at most two counted

Init ==
    /\ rows = <<>> /\ seg = {} /\ cut = {} /\ away = {} /\ ending = {} /\ stops = {}
    /\ left = [j \in Jobs |-> {}]
    /\ used = [stops |-> 0, lines |-> 0, leaves |-> 0, crashes |-> 0]

-----------------------------------------------------------------------------
Covered(j) == \E s \in stops : j \in s
Of(j) == {r \in DOMAIN rows : rows[r].job = j}
Standing(r) == rows[r].at \in {"pending", "aside"}

\* A segment that hears and acts: not one that is being cut off.
Hears(j) == j \in seg \ cut

\* queuePlace: no place for one more job.
Full == Cardinality(seg) >= Limit

\* What a segment reads: once, however often it is told.
ReadRow(row) ==
    IF row.here THEN row
    ELSE [row EXCEPT !.mail = "read", !.here = TRUE, !.reads = IF @ = 2 THEN 2 ELSE @ + 1]

\* Mutant: what a segment heard stays with the segment that is over.
KeptByTheSegment(row) == [row EXCEPT !.here = FALSE]
\* releaseTurnInbox: mail the segment had not read is in line again.
Released(row) == [row EXCEPT !.mail = IF @ = "heard" THEN "queued" ELSE @, !.here = FALSE]

\* Mutant: whether another one stands is not asked.
GivenBackAnyhow(rs, r) ==
    IF rs[r].at = "fired"
    THEN [rs EXCEPT ![r].at = IF Covered(rs[r].job) THEN "aside" ELSE "pending", ![r].given = TRUE]
    ELSE rs
\* returnUnreadCheckBack: unless the Bot has booked another for the job since.
GivenBack(rs, r) ==
    IF rs[r].at = "fired" /\ ~ \E o \in Of(rs[r].job) \ {r} : Standing(o)
    THEN [rs EXCEPT ![r].at = IF Covered(rs[r].job) THEN "aside" ELSE "pending", ![r].given = TRUE]
    ELSE rs

\* A segment opens on job j, on the reminder r; those of "riding" it has in hand.
OpensOn(j, r, riding) ==
    /\ seg' = seg \cup {j}
    /\ rows' = [q \in DOMAIN rows |-> CASE q = r -> ReadRow(rows[q])
                                        [] q \in riding \ {r} -> [rows[q] EXCEPT !.mail = "heard"]
                                        [] OTHER -> rows[q]]

-----------------------------------------------------------------------------
(* Segments. *)

\* A line of yours opens a segment on the job.
YourLine(j) ==
    /\ used.lines < MaxLines
    /\ j \notin seg /\ ~Full /\ ~Covered(j)
    /\ seg' = seg \cup {j}
    /\ used' = [used EXCEPT !.lines = @ + 1]
    /\ UNCHANGED <<rows, cut, away, ending, left, stops>>

\* What a newer booking of the job voids.
Voided(row) == [row EXCEPT !.at = IF @ \in {"pending", "aside"} THEN "void" ELSE @]
\* insertCheckBack, by the segment at work on the job.
Book(j) ==
    /\ Hears(j) /\ Len(rows) < MaxRows
    /\ rows' = Append([r \in DOMAIN rows |-> IF r \in Of(j) THEN Voided(rows[r]) ELSE rows[r]],
                      [job |-> j, at |-> "pending", mail |-> "none",
                       here |-> FALSE, given |-> FALSE, reads |-> 0])
    /\ UNCHANGED <<seg, cut, away, ending, left, stops, used>>

\* readInbox, at the next step.
Read(j) ==
    LET inLine == {r \in Of(j) : rows[r].mail \in {"heard", "queued"}}
    IN  /\ Hears(j) /\ inLine # {}
        /\ rows' = [r \in DOMAIN rows |-> IF r \in inLine THEN ReadRow(rows[r]) ELSE rows[r]]
        /\ UNCHANGED <<seg, cut, away, ending, left, stops, used>>

\* end_turn is accepted; the process has yet to clean up after the turn.  One such
\* turn on a job at a time is a bound.
Completes(j) ==
    /\ Hears(j) /\ j \notin ending
    /\ seg' = seg \ {j} /\ ending' = ending \cup {j}
    /\ left' = [left EXCEPT ![j] = {r \in Of(j) : rows[r].mail = "heard"}]
    /\ rows' = [r \in DOMAIN rows |-> IF r \in Of(j) THEN Released(rows[r]) ELSE rows[r]]
    /\ UNCHANGED <<cut, away, stops, used>>

\* sweepStalledTurns, in the scheduler's tick before the appointments: the segment is
\* aborted and failTurn leaves its row alone, live until its process unwinds.
Sweep(j) ==
    /\ Hears(j)
    /\ cut' = cut \cup {j}
    /\ UNCHANGED <<rows, seg, away, ending, left, stops, used>>

\* It unwinds: interruptTurn and releaseTurnInbox; nothing is reopened for it.
CutOff(j) ==
    /\ j \in cut
    /\ seg' = seg \ {j} /\ cut' = cut \ {j}
    /\ rows' = [r \in DOMAIN rows |-> IF r \in Of(j) THEN Released(rows[r]) ELSE rows[r]]
    /\ UNCHANGED <<away, ending, left, stops, used>>

\* Mutant: what was in hand, read by another segment meanwhile or not.
InHand(j) == left[j]
Unheard(j) == {r \in left[j] : rows[r].mail \in {"heard", "queued", "held"}}
\* reopenForUnheard: one more segment on the newest of what it did not read, unless
\* one is at work there; what a stop or a full Bot turns away is given back.
Unwind(j) ==
    LET unheard == Unheard(j)
        newest == Max(unheard)
    IN  /\ j \in ending
        /\ ending' = ending \ {j}
        /\ left' = [left EXCEPT ![j] = {}]
        /\ \/ /\ unheard = {}
              /\ UNCHANGED <<rows, seg>>
           \/ /\ unheard # {} /\ (Covered(j) \/ (Full /\ j \notin seg))
              /\ rows' = GivenBack(rows, newest)
              /\ UNCHANGED seg
           \/ /\ unheard # {} /\ j \in cut  \* turned away by the live row, and left in line
              /\ UNCHANGED <<rows, seg>>
           \/ /\ unheard # {} /\ Hears(j)
              /\ rows' = [r \in DOMAIN rows |->
                            IF r \in unheard THEN [rows[r] EXCEPT !.mail = "heard"] ELSE rows[r]]
              /\ UNCHANGED seg
           \/ /\ unheard # {} /\ ~Covered(j) /\ j \notin seg /\ ~Full
              /\ OpensOn(j, newest, unheard)
        /\ UNCHANGED <<cut, away, stops, used>>

-----------------------------------------------------------------------------
(* The scheduler and the queue. *)

\* The row's line is in the inbox of the segment at work, put there once.
HeardBySegment(row) ==
    [row EXCEPT !.at = "fired", !.mail = IF row.here THEN @ ELSE "heard"]
\* Mutant: a Bot at its limit gets nothing.
NothingQueued(row) == {[row EXCEPT !.at = "fired"]}
\* queueWork, for a Bot at its limit: a line that is mail already is not put in line
\* again, and one that was read is if the Bot has said what it did with it.
QueuedFor(row) ==
    {[row EXCEPT !.at = "fired", !.mail = mail] :
        mail \in CASE row.mail = "none" -> {"queued"}
                   [] row.mail = "read" -> {"read", "queued"}
                   [] OTHER -> {row.mail}}

\* Spent with nobody told: the Bot is gone from the conversation, or its segment on
\* the job is being cut off, which neither hears it nor lets another open.
SpentOnNobody(j) == j \in away \cup cut

\* fireCheckBack: the claim and the line in one write, then who hears it.
Fire(r) ==
    LET j == rows[r].job
    IN  /\ rows[r].at = "pending" /\ ~Covered(j)
        /\ \/ /\ SpentOnNobody(j)
              /\ rows' = [rows EXCEPT ![r].at = "fired"]
              /\ UNCHANGED seg
           \/ /\ ~SpentOnNobody(j) /\ j \in seg
              /\ rows' = [rows EXCEPT ![r] = HeardBySegment(@)]
              /\ UNCHANGED seg
           \/ /\ ~SpentOnNobody(j) /\ j \notin seg /\ Full
              /\ \E row \in QueuedFor(rows[r]) : rows' = [rows EXCEPT ![r] = row]
              /\ UNCHANGED seg
           \/ /\ ~SpentOnNobody(j) /\ j \notin seg /\ ~Full
              /\ seg' = seg \cup {j}
              /\ rows' = [rows EXCEPT ![r] = [ReadRow(@) EXCEPT !.at = "fired"]]
        /\ UNCHANGED <<cut, away, ending, left, stops, used>>

\* voidWaitingOnYou: its ticket waits for you, whose next word wakes the Bot.
WaitsOnYou(r) ==
    /\ rows[r].at = "pending"
    /\ rows' = [rows EXCEPT ![r].at = "void"]
    /\ UNCHANGED <<seg, cut, away, ending, left, stops, used>>

\* dispatchQueued: the oldest mail in line on a job opens its segment.
Dispatch(r) ==
    LET j == rows[r].job
    IN  /\ rows[r].mail = "queued" /\ \A q \in Of(j) : rows[q].mail = "queued" => r <= q
        /\ j \notin seg /\ ~Full /\ ~Covered(j)
        /\ OpensOn(j, r, {})
        /\ UNCHANGED <<cut, away, ending, left, stops, used>>

-----------------------------------------------------------------------------
(* Stops, and the process going down. *)

\* createHold with suspendHeldCheckBacks, and endCovered.
Stop(s) ==
    /\ used.stops < MaxStops /\ s \notin stops
    /\ stops' = stops \cup {s}
    /\ seg' = seg \ s /\ cut' = cut \ s
    /\ rows' = [r \in DOMAIN rows |-> IF rows[r].job \notin s THEN rows[r] ELSE
            [rows[r] EXCEPT !.at = IF @ = "pending" THEN "aside" ELSE @,
                            !.mail = IF @ \in {"heard", "queued"} THEN "held" ELSE @,
                            !.here = FALSE]]
    /\ used' = [used EXCEPT !.stops = @ + 1]
    /\ UNCHANGED <<away, ending, left>>

\* Mutant: all that the stop covered comes back, under another stop or not.
AllOf(s) == s
FreedBy(s) == {j \in s : \A other \in stops \ {s} : j \notin other}
\* liftHold with resumeUnheldCheckBacks and refreshHeldInbox.
Lift(s) ==
    LET standsBeside(r) == \E o \in Of(rows[r].job) \ {r} : rows[o].at = "pending"
    IN  /\ s \in stops
        /\ stops' = stops \ {s}
        /\ rows' = [r \in DOMAIN rows |-> IF rows[r].job \notin FreedBy(s) THEN rows[r] ELSE
                [rows[r] EXCEPT
                    !.at = IF @ # "aside" THEN @ ELSE IF standsBeside(r) THEN "void" ELSE "pending",
                    !.mail = IF @ = "held" THEN "queued" ELSE @]]
        /\ UNCHANGED <<seg, cut, away, ending, left, used>>

\* The process goes, and the next boot releases what its segments had not read; a
\* reminder of "claimed" was claimed with its line and nobody has been told of it.
Dies(claimed) ==
    /\ used.crashes < MaxCrashes
    /\ used' = [used EXCEPT !.crashes = @ + 1]
    /\ seg' = {} /\ cut' = {} /\ ending' = {} /\ left' = [j \in Jobs |-> {}]
    /\ rows' = [r \in DOMAIN rows |->
            IF r \in claimed THEN [Released(rows[r]) EXCEPT !.at = "fired"] ELSE Released(rows[r])]
    /\ UNCHANGED <<away, stops>>
Crash == Dies({})
CrashInFire(r) == rows[r].at = "pending" /\ Dies({r})

\* removeMember and addMember: what it runs there goes on, its appointments stand.
Leave(j) ==
    /\ used.leaves < MaxLeaves /\ j \notin away
    /\ away' = away \cup {j}
    /\ used' = [used EXCEPT !.leaves = @ + 1]
    /\ UNCHANGED <<rows, seg, cut, ending, left, stops>>
Rejoin(j) ==
    /\ j \in away
    /\ away' = away \ {j}
    /\ UNCHANGED <<rows, seg, cut, ending, left, stops, used>>

-----------------------------------------------------------------------------
Next ==
    \/ \E j \in Jobs : YourLine(j) \/ Book(j) \/ Read(j) \/ Completes(j) \/ Unwind(j)
                       \/ Sweep(j) \/ CutOff(j) \/ Leave(j) \/ Rejoin(j)
    \/ \E r \in DOMAIN rows : Fire(r) \/ WaitsOnYou(r) \/ Dispatch(r) \/ CrashInFire(r)
    \/ \E s \in Scopes : Stop(s) \/ Lift(s)
    \/ Crash

\* Turns come to an end and are cleaned up after, the scheduler ticks, and what is
\* in line is dispatched or picked up by the supervisor.
Fairness ==
    /\ \A j \in Jobs : WF_vars(Completes(j)) /\ WF_vars(CutOff(j)) /\ WF_vars(Unwind(j))
    /\ \A r \in 1..MaxRows : WF_vars(r \in DOMAIN rows /\ Fire(r)) /\ WF_vars(r \in DOMAIN rows /\ Dispatch(r))

Spec == Init /\ [][Next]_vars /\ Fairness

-----------------------------------------------------------------------------
(* Properties. *)

\* The variables have their types; what is in a segment's hand is in its line, and
\* a segment at work is under no stop.
TypeOK ==
    /\ rows \in Seq(Row) /\ Len(rows) <= MaxRows
    /\ seg \subseteq Jobs /\ Cardinality(seg) <= Limit /\ \A j \in seg : ~Covered(j)
    /\ cut \subseteq seg /\ away \subseteq Jobs /\ ending \subseteq Jobs
    /\ left \in [Jobs -> SUBSET (1..MaxRows)]
    /\ \A r \in DOMAIN rows : rows[r].mail = "heard" \/ rows[r].here => rows[r].job \in seg
    /\ stops \subseteq Scopes
    /\ used \in [stops : 0..MaxStops, lines : 0..MaxLines, leaves : 0..MaxLeaves, crashes : 0..MaxCrashes]

\* A Bot has one appointment on a job, pending or set aside, though one that has
\* fired may be given back beside a newer one and a lift brings back what it finds.
OneStands ==
    \A j \in Jobs : \A q, r \in Of(j) : Standing(q) /\ Standing(r) => q = r

\* Set aside means under a stop, pending means under none, and mail held means under
\* a stop: so of two stops over a job the lift of one brings back nothing, and what
\* is given back under a stop that came meanwhile waits for its lift.
AsideUnderAStop ==
    \A r \in DOMAIN rows :
        /\ rows[r].at = "aside" \/ rows[r].mail = "held" => Covered(rows[r].job)
        /\ rows[r].at = "pending" \/ rows[r].mail \in {"heard", "queued"} => ~Covered(rows[r].job)

\* A reminder is read by one segment only, unless it was given back: neither the
\* copy a segment that is over had in hand nor its mail rings it again.
AgainOnlyIfGivenBack == \A r \in DOMAIN rows : rows[r].reads > 1 => rows[r].given

\* One that is spent is told to somebody, read or mail in some line, and stays so:
\* whoever is at work, ending or at its limit as it fires, and whatever stops, lifts
\* and endings come after.  Only three things spend it on nobody: the process dies as
\* it fires, the Bot is gone, its segment on the job is being cut off.
Lost(row) == row.at = "fired" /\ row.mail = "none"
SpentIsTold ==
    [][\A r \in DOMAIN rows :
          Lost(rows'[r]) => \/ Lost(rows[r]) \/ used'.crashes # used.crashes
                            \/ rows[r].job \in away \cup cut]_vars

\* In the end one that is due, or whose reminder is in line, is read, unless it is
\* voided, a stop covers it or it was spent on nobody (as SpentIsTold bounds): whoever
\* is at work, at its limit, just ending or being cut off.
Waits(r) ==
    /\ r \in DOMAIN rows /\ ~Covered(rows[r].job)
    /\ rows[r].at = "pending" \/ rows[r].mail \in {"heard", "queued"}
Comes(r) ==
    \/ rows[r].mail = "read" \/ rows[r].at = "void" \/ Covered(rows[r].job)
    \/ Lost(rows[r])
=============================================================================
