---------------------------- MODULE Restart_proofs ----------------------------
(* The ends of runs and what boots tell of them, for every set of jobs and any   *)
(* number of turns and runs: type correctness, that a turn goes on once, that a  *)
(* boot tells of the end before it, of nothing else and of all of it, and that a *)
(* drain that says drained is so.                                                *)
EXTENDS Restart, SequenceTheorems, FiniteSetTheorems, TLAPS

-----------------------------------------------------------------------------
(* The inductive invariant. *)

\* Turns of a job each.
OneEach(ts) == \A s, t \in ts : turns[s].job = turns[t].job => s = t

\* What a turn keeps of the ends it saw, at each stage of the run.
TurnOK(t) ==
    /\ turns[t].endOf <= run /\ turns[t].told <= run
    /\ turns[t].told # 0 => turns[t].status = "interrupted" /\ turns[t].endOf = turns[t].told - 1
    /\ stage \in {"opened", "recovered", "telling"} => turns[t].endOf < run
    /\ stage = "up" /\ drain.phase = "running" => turns[t].endOf < run
    /\ turns[t].status = "live" =>
         /\ stage \notin {"recovered", "telling"}
         /\ stage \in {"up", "quitting"} => turns[t].endOf = 0
         /\ stage = "closing" => turns[t].endOf \in {0, run}
TurnsOK == \A t \in DOMAIN turns : TurnOK(t)

\* A drain waits for all that is live or runs, and lets nothing in.
DrainOK ==
    /\ drain.phase = "running" => drain = Running
    /\ drain.phase # "running" => Live \cup loops \subseteq drain.turns
    /\ drain.phase = "drained" => Live \cup loops = {}
    /\ drain.forced => Live = {}
    /\ stage \in {"down", "opened", "recovered", "telling"} => drain = Running

\* The record is of turns of a job each, that its run's end cut off or completed
\* since; while it is current, of every live one; and between a boot's telling and the
\* end of its run there is one only of a forced drain.
RecordOK ==
    /\ record.at <= Len(turns)
    /\ OneEach(record.turns)
    /\ Len(turns) = record.at => Live \subseteq record.turns
    /\ \A t \in record.turns :
         /\ turns[t].status = "interrupted" => turns[t].endOf = record.run
         /\ turns[t].status = "live" /\ stage \notin {"down", "opened"} => turns[t].endOf = record.run
    /\ stage \in {"up", "telling"} /\ ~drain.forced => record = NoRecord

CutBy(t, r) == turns[t].endOf = r /\ CanContinue(t)
\* What an end cut off is in the record of that end, and then among what the boot has
\* to tell, until it is told.
Accounted ==
    /\ run \notin late => \A t \in DOMAIN turns : CutBy(t, run) => t \in record.turns /\ IsOf(record, run)
    /\ stage = "closing" /\ run \notin late /\ Live # {} => IsOf(record, run)
    /\ stage \in {"opened", "recovered"} /\ run - 1 \notin late /\ run > 1 =>
         \A t \in DOMAIN turns : CutBy(t, run - 1) => t \in record.turns /\ IsOf(record, run - 1)
    /\ stage = "telling" /\ run - 1 \notin late /\ run > 1 =>
         \A t \in DOMAIN turns : CutBy(t, run - 1) => t \in pending \/ turns[t].told = run
    /\ CutIsTold

PendingOK ==
    /\ \A t \in pending : turns[t].status = "interrupted" /\ turns[t].endOf = run - 1
    /\ OneEach(pending)
NoticesOK == \A n \in DOMAIN notices : notices[n].turns \subseteq DOMAIN turns /\ OneEach(notices[n].turns)

Inv ==
    /\ TypeOK /\ GoesOnOnce /\ TurnsOK /\ DrainOK /\ RecordOK /\ Accounted
    /\ PendingOK /\ NoticesOK

-----------------------------------------------------------------------------
(* Tables of turns. *)

LEMMA SeqOfRows ==
    ASSUME NEW S, NEW n \in Nat, NEW g \in [1..n -> S]
    PROVE  g \in Seq(S) /\ Len(g) = n /\ DOMAIN g = 1..n
<1>1. g \in Seq(S)  BY SeqDef
<1>2. Len(g) \in Nat /\ DOMAIN g = 1..Len(g)  BY <1>1, LenProperties
<1>3. 1..Len(g) = 1..n  BY <1>2
<1>4. Len(g) = n  BY <1>2, <1>3
<1> QED  BY <1>1, <1>4

LEMMA Turns ==
    ASSUME TypeOK
    PROVE  /\ Len(turns) \in Nat /\ DOMAIN turns = 1..Len(turns) /\ MaxTurns \in Nat /\ Len(turns) <= MaxTurns
           /\ DOMAIN turns \subseteq Times /\ Live \subseteq DOMAIN turns
           /\ turns = [t \in DOMAIN turns |-> turns[t]]
           /\ \A t \in DOMAIN turns : turns[t] \in Turn
<1>1. /\ Len(turns) \in Nat /\ DOMAIN turns = 1..Len(turns) /\ MaxTurns \in Nat /\ Len(turns) <= MaxTurns
      /\ turns \in [1..Len(turns) -> Turn]
  BY LenProperties, RestartAssumption DEF TypeOK
<1>2. DOMAIN turns \subseteq Times  BY <1>1 DEF Times
<1> QED  BY <1>1, <1>2 DEF Live

LEMMA Runs ==
    ASSUME TypeOK
    PROVE  /\ run \in Nat /\ run >= 1 /\ run \in 0..MaxRuns /\ run - 1 \in 0..MaxRuns /\ run - 1 < run
           /\ MaxRuns \in Nat
BY RestartAssumption DEF TypeOK

\* A row with its fields.
LEMMA ATurn ==
    ASSUME NEW turn \in Turn
    PROVE  /\ turn.job \in Jobs /\ turn.status \in {"live", "completed", "interrupted"}
           /\ turn.endOf \in Nat /\ turn.told \in Nat /\ turn.from \in Times
BY RestartAssumption DEF Turn

\* A step that rewrites rows: no job and no origin changes, and only what was live
\* gets another status.
Rewrites ==
    /\ turns' = [t \in DOMAIN turns |-> turns'[t]]
    /\ \A t \in DOMAIN turns :
         /\ turns'[t] \in Turn /\ turns'[t].job = turns[t].job /\ turns'[t].from = turns[t].from
         /\ \/ turns'[t].status = turns[t].status
            \/ turns[t].status = "live" /\ turns'[t].status # "live"

LEMMA Rewritten ==
    ASSUME TypeOK, Rewrites
    PROVE  /\ turns' \in Seq(Turn) /\ Len(turns') = Len(turns) /\ DOMAIN turns' = DOMAIN turns
           /\ Live' \subseteq Live
<1>1. Len(turns) \in Nat /\ DOMAIN turns = 1..Len(turns)  BY Turns
<1>2. turns' \in [1..Len(turns) -> Turn]  BY <1>1 DEF Rewrites
<1>3. turns' \in Seq(Turn) /\ Len(turns') = Len(turns) /\ DOMAIN turns' = DOMAIN turns
  BY <1>1, <1>2, SeqOfRows
<1>4. Live' \subseteq Live  BY <1>3 DEF Live, Rewrites
<1> QED  BY <1>3, <1>4

LEMMA RewrittenGoesOnOnce ==
    ASSUME TypeOK, GoesOnOnce, Rewrites
    PROVE  GoesOnOnce'
<1>1. DOMAIN turns' = DOMAIN turns /\ Live' \subseteq Live /\ Live \subseteq DOMAIN turns  BY Rewritten, Turns
<1> QED  BY <1>1 DEF GoesOnOnce, Rewrites

LEMMA RewrittenNotices ==
    ASSUME TypeOK, NoticesOK, Rewrites, notices' = notices
    PROVE  NoticesOK'
<1>1. DOMAIN turns' = DOMAIN turns  BY Rewritten
<1> QED  BY <1>1 DEF NoticesOK, OneEach, Rewrites

\* Rows cut off.
LEMMA EndedTurns ==
    ASSUME TypeOK, NEW r \in 0..MaxRuns, turns' = Ended(Live, r)
    PROVE  /\ Rewrites /\ Live' = {}
           /\ \A t \in DOMAIN turns :
                /\ t \notin Live => turns'[t] = turns[t]
                /\ t \in Live => /\ turns'[t].status = "interrupted" /\ turns'[t].endOf = r
                                 /\ turns'[t].told = turns[t].told
<1>1. turns' = [t \in DOMAIN turns |-> turns'[t]]  BY DEF Ended
<1>2. ASSUME NEW t \in DOMAIN turns, t \in Live
      PROVE  /\ turns'[t] \in Turn /\ turns'[t].job = turns[t].job /\ turns'[t].from = turns[t].from
             /\ turns'[t].status = "interrupted" /\ turns'[t].endOf = r /\ turns'[t].told = turns[t].told
  <2>1. turns'[t] = [turns[t] EXCEPT !.status = "interrupted", !.endOf = r] /\ turns[t] \in Turn
    BY <1>2, Turns DEF Ended
  <2> QED  BY <2>1 DEF Turn
<1>3. ASSUME NEW t \in DOMAIN turns, t \notin Live PROVE turns'[t] = turns[t] /\ turns[t] \in Turn
  BY <1>3, Turns DEF Ended
<1>4. Rewrites  BY <1>1, <1>2, <1>3 DEF Rewrites, Live
<1>5. Live' = {}
  <2>1. DOMAIN turns' = DOMAIN turns  BY <1>4, Rewritten
  <2> QED  BY <1>2, <1>3, <2>1 DEF Live
<1> QED  BY <1>2, <1>3, <1>4, <1>5

\* Rows found live, and not ended yet.
LEMMA FoundTurns ==
    ASSUME TypeOK, turns' = FoundLive(run)
    PROVE  /\ Rewrites /\ Live' = Live
           /\ \A t \in DOMAIN turns :
                /\ t \notin Live => turns'[t] = turns[t]
                /\ t \in Live => /\ turns'[t].status = "live" /\ turns'[t].endOf = run
                                 /\ turns'[t].told = turns[t].told
<1>1. turns' = [t \in DOMAIN turns |-> turns'[t]]  BY DEF FoundLive
<1>2. ASSUME NEW t \in DOMAIN turns, t \in Live
      PROVE  /\ turns'[t] \in Turn /\ turns'[t].job = turns[t].job /\ turns'[t].from = turns[t].from
             /\ turns'[t].status = "live" /\ turns'[t].endOf = run /\ turns'[t].told = turns[t].told
  <2>1. /\ turns'[t] = [turns[t] EXCEPT !.endOf = run] /\ turns[t] \in Turn /\ turns[t].status = "live"
        /\ run \in 0..MaxRuns
    BY <1>2, Turns, Runs DEF FoundLive, Live
  <2> QED  BY <2>1 DEF Turn
<1>3. ASSUME NEW t \in DOMAIN turns, t \notin Live PROVE turns'[t] = turns[t] /\ turns[t] \in Turn
  BY <1>3, Turns DEF FoundLive
<1>4. Rewrites  BY <1>1, <1>2, <1>3 DEF Rewrites, Live
<1>5. Live' = Live
  <2>1. DOMAIN turns' = DOMAIN turns  BY <1>4, Rewritten
  <2> QED  BY <1>2, <1>3, <2>1 DEF Live
<1> QED  BY <1>2, <1>3, <1>4, <1>5

\* The live turns are noted, beside those the same end had noted.
LEMMA NotedRecord ==
    ASSUME TypeOK, GoesOnOnce, RecordOK, NEW r \in 0..MaxRuns, NEW rec, rec = Noted(r)
    PROVE  /\ rec \in [run : 0..MaxRuns, at : Times, turns : SUBSET DOMAIN turns]
           /\ rec.at <= Len(turns) /\ OneEach(rec.turns) /\ (Len(turns) = rec.at => Live \subseteq rec.turns)
           /\ Live = {} => rec = record
           /\ Live # {} => /\ rec.run = r /\ rec.at = Len(turns) /\ Live \subseteq rec.turns
                           /\ \A t \in rec.turns : t \in Live \/ (t \in record.turns /\ record.run = r)
           /\ IsOf(record, r) => record.turns \subseteq rec.turns
<1>1. Len(turns) \in Times /\ Live \subseteq DOMAIN turns /\ Len(turns) \in Nat  BY Turns DEF Times
<1>2. CASE Live = {}
  <2>1. rec = record  BY <1>2 DEF Noted
  <2> QED  BY <1>2, <2>1 DEF TypeOK, RecordOK
<1>3. CASE Live # {}
  <2> DEFINE those == Live \cup (IF IsOf(record, r) THEN record.turns ELSE {})
  <2>1. rec = [run |-> r, at |-> Len(turns), turns |-> those]  BY <1>3 DEF Noted
  <2>2. those \subseteq DOMAIN turns  BY <1>1 DEF TypeOK
  <2>3. OneEach(those)
    <3>1. CASE IsOf(record, r)
      <4>1. those = record.turns  BY <3>1 DEF IsOf, RecordOK
      <4> QED  BY <4>1 DEF RecordOK
    <3>2. CASE ~IsOf(record, r)
      <4>1. those = Live  BY <3>2
      <4> QED  BY <4>1 DEF GoesOnOnce, OneEach
    <3> QED  BY <3>1, <3>2
  <2>4. /\ Live \subseteq those /\ \A t \in those : t \in Live \/ (t \in record.turns /\ record.run = r)
        /\ IsOf(record, r) => record.turns \subseteq those
    BY DEF IsOf
  <2> HIDE DEF those
  <2>5. rec.run = r /\ rec.at = Len(turns) /\ rec.turns = those  BY <2>1
  <2>6. rec \in [run : 0..MaxRuns, at : Times, turns : SUBSET DOMAIN turns]  BY <1>1, <2>1, <2>2
  <2> QED  BY <1>1, <1>3, <2>3, <2>4, <2>5, <2>6
<1> QED  BY <1>2, <1>3

-----------------------------------------------------------------------------
(* New turns. *)

New == DOMAIN turns' \ DOMAIN turns
\* A step that opens turns, one on each of some jobs with none live, of which each
\* continues nothing or what nothing continues.
Grows ==
    /\ turns' \in Seq(Turn) /\ Len(turns') <= MaxTurns /\ Len(turns) <= Len(turns')
    /\ \A t \in DOMAIN turns : turns'[t] = turns[t]
    /\ \A t \in New :
         /\ turns'[t].status = "live" /\ turns'[t].endOf = 0 /\ turns'[t].told = 0
         /\ ~LiveOn(turns'[t].job) /\ (turns'[t].from # 0 => ~Continued(turns'[t].from))
    /\ \A s, t \in New : turns'[s].job = turns'[t].job => s = t
    /\ \A s, t \in New : turns'[s].from # 0 /\ turns'[s].from = turns'[t].from => s = t
    /\ loops' = loops \cup New
\* What goes with it.
Admitting ==
    /\ stage \in {"up", "quitting", "closing"} /\ drain.phase = "running"
    /\ UNCHANGED <<record, run, stage, drain, pending>>
    /\ attention' \subseteq attention
    /\ late \subseteq late' /\ late' \subseteq late \cup {run} /\ (stage # "up" => run \in late')
    /\ notices' \in Seq(Notice)
    /\ \A n \in DOMAIN notices' : n \in DOMAIN notices /\ notices'[n].turns = notices[n].turns

LEMMA GrownTurns ==
    ASSUME TypeOK, Grows
    PROVE  /\ DOMAIN turns' = DOMAIN turns \cup New /\ DOMAIN turns \subseteq DOMAIN turns'
           /\ Len(turns') = Len(turns) => New = {}
           /\ Live' = Live \cup New /\ Len(turns') \in Nat
           /\ \A t \in New : t \notin DOMAIN turns /\ t \in DOMAIN turns'
<1>1. /\ Len(turns) \in Nat /\ DOMAIN turns = 1..Len(turns) /\ Len(turns') \in Nat
      /\ DOMAIN turns' = 1..Len(turns') /\ Len(turns) <= Len(turns')
  BY Turns, LenProperties DEF Grows
<1>2. DOMAIN turns \subseteq DOMAIN turns' /\ (Len(turns') = Len(turns) => DOMAIN turns' = DOMAIN turns)
  <2>1. ASSUME NEW a \in Nat, NEW b \in Nat, a <= b PROVE 1..a \subseteq 1..b
    BY <2>1
  <2> QED  BY <1>1, <2>1
<1>3. Live' = Live \cup New  BY <1>2 DEF Live, New, Grows
<1> QED  BY <1>1, <1>2, <1>3 DEF New

LEMMA GrownInv ==
    ASSUME Inv, Grows, Admitting
    PROVE  Inv'
<1> USE DEF Inv
<1>1. /\ DOMAIN turns' = DOMAIN turns \cup New /\ DOMAIN turns \subseteq DOMAIN turns'
      /\ Len(turns') = Len(turns) => New = {}
      /\ Live' = Live \cup New /\ Live \subseteq DOMAIN turns /\ Len(turns') \in Nat
      /\ \A t \in New : t \notin DOMAIN turns /\ t \in DOMAIN turns'
  BY GrownTurns, Turns
<1>2. stage' = stage /\ stage \in {"up", "quitting", "closing"} /\ run' = run /\ record' = record
      /\ drain' = drain /\ drain.phase = "running" /\ pending' = pending /\ loops' = loops \cup New
  BY DEF Admitting, Grows
<1>3. TypeOK'
  <2>1. record' \in [run : 0..MaxRuns, at : Times, turns : SUBSET DOMAIN turns']
        /\ pending' \subseteq DOMAIN turns'
    BY <1>1, <1>2 DEF TypeOK
  <2>2. Live \subseteq loops /\ loops \subseteq DOMAIN turns  BY <1>2 DEF TypeOK
  <2>3. Live' \subseteq loops' /\ loops' \subseteq DOMAIN turns'  BY <1>1, <1>2, <2>2
  <2>4. late' \subseteq 1..run' /\ run' \in 1..MaxRuns
    <3>1. run \in 1..run  BY Runs
    <3> QED  BY <1>2, <3>1 DEF Admitting, TypeOK
  <2>5. attention' \subseteq OnPlan  BY DEF Admitting, TypeOK
  <2> QED  BY <1>1, <1>2, <2>1, <2>3, <2>4, <2>5 DEF TypeOK, Grows, Admitting
<1>4. GoesOnOnce'
  <2>1. ASSUME NEW s \in DOMAIN turns', NEW t \in DOMAIN turns', turns'[s].from # 0,
               turns'[s].from = turns'[t].from
        PROVE  s = t
    <3>1. CASE s \in DOMAIN turns /\ t \in DOMAIN turns  BY <2>1, <3>1 DEF GoesOnOnce, Grows
    <3>2. CASE s \in New /\ t \in New  BY <2>1, <3>2 DEF Grows
    <3>3. CASE s \in DOMAIN turns /\ t \in New  BY <2>1, <3>3 DEF Grows, Continued
    <3>4. CASE s \in New /\ t \in DOMAIN turns  BY <2>1, <3>4 DEF Grows, Continued
    <3> QED  BY <1>1, <3>1, <3>2, <3>3, <3>4
  <2>2. ASSUME NEW s \in Live', NEW t \in Live', turns'[s].job = turns'[t].job PROVE s = t
    <3>1. CASE s \in Live /\ t \in Live  BY <1>1, <2>2, <3>1 DEF GoesOnOnce, Grows
    <3>2. CASE s \in New /\ t \in New  BY <2>2, <3>2 DEF Grows
    <3>3. CASE s \in Live /\ t \in New  BY <1>1, <2>2, <3>3 DEF Grows, LiveOn
    <3>4. CASE s \in New /\ t \in Live  BY <1>1, <2>2, <3>4 DEF Grows, LiveOn
    <3> QED  BY <1>1, <3>1, <3>2, <3>3, <3>4
  <2> QED  BY <2>1, <2>2 DEF GoesOnOnce
<1>5. TurnsOK'
  <2> SUFFICES ASSUME NEW t \in DOMAIN turns' PROVE TurnOK(t)'
    BY DEF TurnsOK
  <2>1. CASE t \in DOMAIN turns
    <3>1. turns'[t] = turns[t] /\ TurnOK(t)  BY <2>1 DEF Grows, TurnsOK
    <3> QED  BY <1>2, <3>1 DEF TurnOK
  <2>2. CASE t \in New
    <3>1. turns'[t].status = "live" /\ turns'[t].endOf = 0 /\ turns'[t].told = 0  BY <2>2 DEF Grows
    <3> QED  BY <1>2, <3>1, Runs DEF TurnOK
  <2> QED  BY <1>1, <2>1, <2>2
<1>6. DrainOK'
  <2>1. drain = Running /\ ~drain.forced  BY <1>2 DEF DrainOK, Running
  <2> QED  BY <1>2, <2>1 DEF DrainOK, Running
<1>7. RecordOK'
  <2>1. record.turns \subseteq DOMAIN turns  BY DEF TypeOK
  <2>2. OneEach(record.turns)'  BY <1>2, <2>1 DEF RecordOK, OneEach, Grows
  <2>3. record.at <= Len(turns') /\ (Len(turns') = record.at => Len(turns') = Len(turns))
    <3>1. record.at \in Nat /\ Len(turns) \in Nat  BY Turns DEF TypeOK, Times
    <3>2. record.at <= Len(turns) /\ Len(turns) <= Len(turns') /\ Len(turns') \in Nat
      BY <1>1 DEF RecordOK, Grows
    <3> HIDE DEF Inv
    <3> QED  BY <3>1, <3>2
  <2>4. Len(turns') = record.at => Live' \subseteq record.turns  BY <1>1, <2>3 DEF RecordOK
  <2> QED  BY <1>2, <2>1, <2>2, <2>3, <2>4 DEF RecordOK, Grows
<1>8. Accounted'
  <2>1. ASSUME NEW t \in DOMAIN turns', turns'[t].status = "interrupted" PROVE t \in DOMAIN turns
    BY <1>1, <2>1 DEF Grows
  <2>2. CASE stage = "up"
    <3>1. \A t \in DOMAIN turns : turns[t].endOf # run
      <4>1. ASSUME NEW t \in DOMAIN turns PROVE turns[t].endOf # run
        <5>1. turns[t].endOf \in Nat /\ turns[t].endOf < run /\ run \in Nat
          BY <1>2, <2>2, Turns, ATurn, Runs DEF TurnsOK, TurnOK
        <5> QED  BY <5>1
      <4> QED  BY <4>1
    <3>2. CutIsTold'
      <4> SUFFICES ASSUME run - 1 \notin late', NEW t \in DOMAIN turns', turns'[t].endOf = run - 1,
                          run > 1, CanContinue(t)'
                   PROVE  turns'[t].told = run
        BY <1>2 DEF CutIsTold
      <4>1. t \in DOMAIN turns /\ turns'[t] = turns[t]  BY <2>1 DEF CanContinue, Grows
      <4>2. CanContinue(t)  BY <1>1, <4>1 DEF CanContinue, Continued, Grows
      <4> QED  BY <1>2, <4>1, <4>2 DEF Accounted, CutIsTold, Admitting
    <3> QED  BY <1>2, <2>1, <2>2, <3>1, <3>2 DEF Accounted, CutBy, CanContinue, Grows
  <2>3. CASE stage # "up"
    <3>1. run \in late'  BY <2>3 DEF Admitting
    <3>2. CutIsTold'
      <4> SUFFICES ASSUME run - 1 \notin late', NEW t \in DOMAIN turns', turns'[t].endOf = run - 1,
                          run > 1, CanContinue(t)'
                   PROVE  turns'[t].told = run
        BY <1>2 DEF CutIsTold
      <4>1. t \in DOMAIN turns /\ turns'[t] = turns[t]  BY <2>1 DEF CanContinue, Grows
      <4>2. CanContinue(t)  BY <1>1, <4>1 DEF CanContinue, Continued, Grows
      <4> QED  BY <1>2, <4>1, <4>2 DEF Accounted, CutIsTold, Admitting
    <3> QED  BY <1>2, <3>1, <3>2 DEF Accounted
  <2> QED  BY <2>2, <2>3
<1>9. PendingOK' /\ NoticesOK'
  <2>1. pending \subseteq DOMAIN turns  BY DEF TypeOK
  <2>2. PendingOK'  BY <1>2, <2>1 DEF PendingOK, OneEach, Grows
  <2>3. NoticesOK'
    <3> SUFFICES ASSUME NEW n \in DOMAIN notices'
                 PROVE  /\ notices'[n].turns \subseteq DOMAIN turns'
                        /\ \A s, t \in notices'[n].turns : turns'[s].job = turns'[t].job => s = t
      BY DEF NoticesOK, OneEach
    <3>1. /\ notices'[n].turns = notices[n].turns /\ notices[n].turns \subseteq DOMAIN turns
          /\ \A s, t \in notices[n].turns : turns[s].job = turns[t].job => s = t
      BY DEF Admitting, NoticesOK, OneEach
    <3>2. \A t \in notices[n].turns : turns'[t] = turns[t]  BY <3>1 DEF Grows
    <3> HIDE DEF Inv
    <3> QED  BY <1>1, <3>1, <3>2
  <2> QED  BY <2>2, <2>3
<1> QED  BY <1>3, <1>4, <1>5, <1>6, <1>7, <1>8, <1>9

LEMMA StartKeeps == ASSUME Inv, NEW j \in Jobs, Start(j) PROVE Inv'
<1> DEFINE n == Len(turns)
<1>1. n \in Nat /\ DOMAIN turns = 1..n /\ n < MaxTurns /\ MaxTurns \in Nat /\ turns \in Seq(Turn)
  BY Turns DEF Inv, Start, TypeOK
<1>2. PICK unsure \in BOOLEAN :
        turns' = Append(turns, [job |-> j, status |-> "live", from |-> 0,
                                unsure |-> unsure, endOf |-> 0, told |-> 0])
  BY DEF Start
<1> DEFINE new == [job |-> j, status |-> "live", from |-> 0, unsure |-> unsure, endOf |-> 0, told |-> 0]
<1>3. new \in Turn /\ new.job = j /\ new.status = "live" /\ new.from = 0 /\ new.endOf = 0 /\ new.told = 0
  BY RestartAssumption DEF Turn, Times
<1> HIDE DEF new
<1>4. /\ turns' \in Seq(Turn) /\ Len(turns') = n + 1
      /\ \A t \in 1..n : turns'[t] = turns[t]
      /\ turns'[n + 1] = new
  BY <1>1, <1>2, <1>3, AppendProperties DEF new
<1>5. New = {n + 1}
  <2>1. DOMAIN turns' = 1..(n + 1)  BY <1>4, LenProperties
  <2>2. (1..(n + 1)) \ (1..n) = {n + 1}  BY <1>1
  <2> QED  BY <1>1, <2>1, <2>2 DEF New
<1>6. ~LiveOn(j) /\ loops' = loops \cup {n + 1}  BY DEF Start
<1>7. Grows
  <2>1. Len(turns') <= MaxTurns /\ Len(turns) <= Len(turns')  BY <1>1, <1>4
  <2> HIDE DEF n
  <2> QED  BY <1>1, <1>3, <1>4, <1>5, <1>6, <2>1 DEF Grows
<1>8. Admitting  BY DEF Start, Admitting, Inv, TypeOK
<1> QED  BY <1>7, <1>8, GrownInv

\* Of turns that may go on, on a job each.
LEMMA GoOnGrows ==
    ASSUME Inv, NEW cut \in SUBSET DOMAIN turns, \A t \in cut : MayGoOn(t), OneEach(cut), GoOn(cut)
    PROVE  Grows /\ attention' \subseteq attention
<1> DEFINE n == Len(turns)
           many == Cardinality(cut)
           opened(t) == [job |-> turns[t].job, status |-> "live", from |-> t,
                         unsure |-> turns[t].unsure, endOf |-> 0, told |-> 0]
<1>1. n \in Nat /\ DOMAIN turns = 1..n /\ MaxTurns \in Nat /\ turns \in Seq(Turn)
  BY Turns DEF Inv, TypeOK
<1>2. many \in Nat
  <2>1. IsFiniteSet(1..n)  BY <1>1, FS_Interval
  <2> QED  BY <1>1, <2>1, FS_Subset, FS_CardinalityType
<1>3. /\ n + many <= MaxTurns
      /\ loops' = loops \cup (n + 1)..(n + many)
      /\ attention' \subseteq attention
  BY DEF GoOn
<1>4. PICK order \in [1..many -> cut] :
        /\ \A a, b \in 1..many : a < b => order[a] < order[b]
        /\ turns' = turns \o [i \in 1..many |-> opened(order[i])]
  BY DEF GoOn
<1>5. \A a, b \in 1..many : order[a] = order[b] => a = b
  <2> SUFFICES ASSUME NEW a \in 1..many, NEW b \in 1..many, order[a] = order[b], a # b
               PROVE  FALSE
    OBVIOUS
  <2>1. order[a] \in Nat /\ order[b] \in Nat  BY <1>1, <1>4
  <2>2. a < b \/ b < a  BY <1>2
  <2> QED  BY <1>4, <2>1, <2>2
<1> DEFINE new == [i \in 1..many |-> opened(order[i])]
<1>6. ASSUME NEW i \in 1..many
      PROVE  /\ order[i] \in cut /\ new[i] \in Turn /\ new[i].job = turns[order[i]].job
             /\ new[i].status = "live" /\ new[i].from = order[i] /\ new[i].endOf = 0 /\ new[i].told = 0
  <2>1. order[i] \in cut  BY <1>4
  <2>2. turns[order[i]] \in Turn /\ order[i] \in Times  BY <2>1, Turns DEF Inv
  <2>3. new[i] = opened(order[i])  OBVIOUS
  <2> HIDE DEF new
  <2>4. new[i] \in Turn  BY <2>2, <2>3, RestartAssumption DEF Turn
  <2> QED  BY <2>1, <2>3, <2>4
<1>7. new \in Seq(Turn) /\ Len(new) = many
  <2>1. new \in [1..many -> Turn]  BY <1>6
  <2> HIDE DEF new
  <2> QED  BY <1>2, <2>1, SeqOfRows
<1>8. turns' = turns \o new  BY <1>4
<1> HIDE DEF new, opened, many
<1>9. /\ turns' \in Seq(Turn) /\ Len(turns') = n + many
      /\ \A t \in 1..(n + many) : turns'[t] = IF t <= n THEN turns[t] ELSE new[t - n]
  BY <1>1, <1>7, <1>8, ConcatProperties
<1>10. New = (n + 1)..(n + many)
  <2>1. DOMAIN turns' = 1..(n + many)  BY <1>9, LenProperties
  <2>2. (1..(n + many)) \ (1..n) = (n + 1)..(n + many)  BY <1>1, <1>2
  <2> QED  BY <1>1, <2>1, <2>2 DEF New
<1>11. ASSUME NEW t \in New PROVE t - n \in 1..many /\ turns'[t] = new[t - n] /\ t \in Nat
  <2>1. t \in (n + 1)..(n + many)  BY <1>10
  <2>2. t \in 1..(n + many) /\ ~(t <= n) /\ t - n \in 1..many /\ t \in Nat  BY <1>1, <1>2, <2>1
  <2> QED  BY <1>9, <2>2
<1>12. \A t \in DOMAIN turns : turns'[t] = turns[t]
  <2> SUFFICES ASSUME NEW t \in 1..n PROVE turns'[t] = turns[t]
    BY <1>1
  <2>1. t \in 1..(n + many) /\ t <= n  BY <1>1, <1>2
  <2> QED  BY <1>9, <2>1
<1>13. ASSUME NEW t \in New
       PROVE  /\ turns'[t].status = "live" /\ turns'[t].endOf = 0 /\ turns'[t].told = 0
              /\ ~LiveOn(turns'[t].job) /\ (turns'[t].from # 0 => ~Continued(turns'[t].from))
  <2>1. order[t - n] \in cut  BY <1>6, <1>11
  <2>2. MayGoOn(order[t - n])  BY <2>1
  <2> QED  BY <1>6, <1>11, <2>2 DEF MayGoOn, CanContinue
<1>14. ASSUME NEW s \in New, NEW t \in New,
              turns'[s].job = turns'[t].job \/ turns'[s].from = turns'[t].from
       PROVE  s = t
  <2>1. order[s - n] \in cut /\ order[t - n] \in cut  BY <1>6, <1>11
  <2>2. order[s - n] = order[t - n]
    BY <1>6, <1>11, <1>14, <2>1 DEF OneEach
  <2>3. s - n = t - n  BY <1>5, <1>11, <2>2
  <2> QED  BY <1>1, <1>11, <2>3
<1>15. Len(turns') <= MaxTurns /\ Len(turns) <= Len(turns')  BY <1>1, <1>2, <1>3, <1>9
<1> HIDE DEF n
<1> QED  BY <1>3, <1>9, <1>10, <1>12, <1>13, <1>14, <1>15 DEF Grows

LEMMA ContinueTurnKeeps == ASSUME Inv, NEW t \in DOMAIN turns, ContinueTurn(t) PROVE Inv'
<1>1. Grows /\ attention' \subseteq attention  BY GoOnGrows DEF ContinueTurn, OneEach
<1>2. Admitting  BY <1>1 DEF ContinueTurn, Admits, Admitting, Inv, TypeOK
<1> QED  BY <1>1, <1>2, GrownInv

LEMMA ANotice ==
    ASSUME Inv, NEW n \in DOMAIN notices
    PROVE  /\ Len(notices) \in Nat /\ DOMAIN notices = 1..Len(notices) /\ notices \in Seq(Notice)
           /\ notices[n] \in Notice /\ notices[n].turns \subseteq DOMAIN turns /\ OneEach(notices[n].turns)
<1>1. notices \in Seq(Notice)  BY DEF Inv, TypeOK
<1>2. Len(notices) \in Nat /\ DOMAIN notices = 1..Len(notices) /\ notices[n] \in Notice
  BY <1>1, LenProperties, ElementOfSeq
<1> QED  BY <1>1, <1>2 DEF Inv, NoticesOK

\* A notice answered, or a few.
LEMMA AnsweredNotices ==
    ASSUME Inv, notices' = [n \in DOMAIN notices |-> notices'[n]],
           \A n \in DOMAIN notices : \/ notices'[n] = notices[n]
                                     \/ \E acted \in {"no", "resume", "leave"} :
                                          notices'[n] = [notices[n] EXCEPT !.acted = acted]
    PROVE  /\ notices' \in Seq(Notice)
           /\ \A n \in DOMAIN notices' : n \in DOMAIN notices /\ notices'[n].turns = notices[n].turns
<1>1. ASSUME NEW n \in DOMAIN notices PROVE notices'[n] \in Notice /\ notices'[n].turns = notices[n].turns
  <2>1. notices[n] \in Notice  BY ANotice
  <2> QED  BY <2>1 DEF Notice
<1>2. Len(notices) \in Nat /\ DOMAIN notices = 1..Len(notices)  BY LenProperties DEF Inv, TypeOK
<1>3. notices' \in [1..Len(notices) -> Notice]  BY <1>1, <1>2
<1>4. notices' \in Seq(Notice) /\ DOMAIN notices' = DOMAIN notices  BY <1>2, <1>3, SeqOfRows
<1> QED  BY <1>1, <1>4

LEMMA ResumeKeeps == ASSUME Inv, NEW n \in DOMAIN notices, Resume(n) PROVE Inv'
<1> DEFINE those == {t \in notices[n].turns : MayGoOn(t)}
<1>1. those \in SUBSET DOMAIN turns /\ OneEach(those) /\ \A t \in those : MayGoOn(t)
  BY ANotice DEF OneEach
<1>2. GoOn(those)  BY DEF Resume
<1>3. Grows /\ attention' \subseteq attention
  <2> HIDE DEF those
  <2> QED  BY <1>1, <1>2, GoOnGrows
<1>4. PICK acted \in {"no", "resume", "leave"} : notices' = [notices EXCEPT ![n].acted = acted]
  BY DEF Resume
<1>5. /\ notices' \in Seq(Notice)
      /\ \A m \in DOMAIN notices' : m \in DOMAIN notices /\ notices'[m].turns = notices[m].turns
  <2>1. notices' = [m \in DOMAIN notices |-> notices'[m]]  BY <1>4
  <2>2. ASSUME NEW m \in DOMAIN notices
        PROVE  notices'[m] = notices[m] \/ notices'[m] = [notices[m] EXCEPT !.acted = acted]
    BY <1>4
  <2> QED  BY <2>1, <2>2, AnsweredNotices
<1>6. Admitting  BY <1>3, <1>5 DEF Resume, Admits, Admitting
<1> QED  BY <1>3, <1>6, GrownInv

LEMMA SuperviseKeeps == ASSUME Inv, NEW j \in Jobs, Supervise(j) PROVE Inv'
<1> DEFINE settled(n) == \A t \in n.turns : \E s \in DOMAIN turns' : turns'[s].from = t
           changed(n, t) == n.acted = "no" /\ t \in n.turns /\ settled(n)
<1>1. PICK t \in DOMAIN turns :
        /\ MayGoOn(t) /\ GoOn({t})
        /\ notices' = [i \in DOMAIN notices |->
                IF changed(notices[i], t) THEN [notices[i] EXCEPT !.acted = "resume"] ELSE notices[i]]
  BY DEF Supervise
<1> HIDE DEF changed
<1>2. Grows /\ attention' \subseteq attention  BY <1>1, GoOnGrows DEF OneEach
<1>3. /\ notices' \in Seq(Notice)
      /\ \A m \in DOMAIN notices' : m \in DOMAIN notices /\ notices'[m].turns = notices[m].turns
  <2>1. notices' = [m \in DOMAIN notices |-> notices'[m]]  BY <1>1
  <2>2. ASSUME NEW m \in DOMAIN notices
        PROVE  notices'[m] = notices[m] \/ notices'[m] = [notices[m] EXCEPT !.acted = "resume"]
    BY <1>1
  <2> QED  BY <2>1, <2>2, AnsweredNotices
<1>4. Admitting  BY <1>2, <1>3 DEF Supervise, Admits, Admitting
<1> QED  BY <1>2, <1>4, GrownInv

-----------------------------------------------------------------------------
(* Steps that rewrite rows, or none. *)

LEMMA SameTurns == ASSUME TypeOK, turns' = turns PROVE Rewrites /\ Live' = Live
BY Turns DEF Rewrites, Live

\* What Accounted asks of one turn that is cut off and not continued.
LEMMA AccountedTurn ==
    ASSUME Accounted, NEW t \in DOMAIN turns, turns[t].status = "interrupted", ~Continued(t)
    PROVE  /\ run \notin late /\ turns[t].endOf = run =>
                t \in record.turns /\ record.run = run /\ Len(turns) = record.at
           /\ stage \in {"opened", "recovered"} /\ run - 1 \notin late /\ run > 1 /\ turns[t].endOf = run - 1 =>
                t \in record.turns /\ record.run = run - 1 /\ Len(turns) = record.at
           /\ stage = "telling" /\ run - 1 \notin late /\ run > 1 /\ turns[t].endOf = run - 1 =>
                t \in pending \/ turns[t].told = run
           /\ stage \in {"up", "quitting", "closing"} /\ run - 1 \notin late /\ run > 1 /\ turns[t].endOf = run - 1 =>
                turns[t].told = run
BY DEF Accounted, CutIsTold, CutBy, CanContinue, IsOf

LEMMA AccountedNext ==
    ASSUME TypeOK, Rewrites,
           stage' = "closing" /\ run' \notin late' /\ Live' # {} => record'.run = run' /\ Len(turns) = record'.at,
           ASSUME NEW t \in DOMAIN turns, turns'[t].status = "interrupted", ~Continued(t)
           PROVE  /\ run' \notin late' /\ turns'[t].endOf = run' =>
                       t \in record'.turns /\ record'.run = run' /\ Len(turns) = record'.at
                  /\ stage' \in {"opened", "recovered"} /\ run' - 1 \notin late' /\ run' > 1
                     /\ turns'[t].endOf = run' - 1 =>
                       t \in record'.turns /\ record'.run = run' - 1 /\ Len(turns) = record'.at
                  /\ stage' = "telling" /\ run' - 1 \notin late' /\ run' > 1 /\ turns'[t].endOf = run' - 1 =>
                       t \in pending' \/ turns'[t].told = run'
                  /\ stage' \in {"up", "quitting", "closing"} /\ run' - 1 \notin late' /\ run' > 1
                     /\ turns'[t].endOf = run' - 1 =>
                       turns'[t].told = run'
    PROVE  Accounted'
<1>1. Len(turns') = Len(turns) /\ DOMAIN turns' = DOMAIN turns  BY Rewritten
<1>2. ASSUME NEW t \in DOMAIN turns', CanContinue(t)'
      PROVE  t \in DOMAIN turns /\ turns'[t].status = "interrupted" /\ ~Continued(t)
  BY <1>1, <1>2 DEF CanContinue, Continued, Rewrites
<1>3. CutIsTold'
  <2> SUFFICES ASSUME stage' \in {"up", "quitting", "closing"}, run' - 1 \notin late', NEW t \in DOMAIN turns',
                      turns'[t].endOf = run' - 1, run' > 1, CanContinue(t)'
               PROVE  turns'[t].told = run'
    BY DEF CutIsTold
  <2> QED  BY <1>2
<1>4. ASSUME NEW t \in DOMAIN turns', NEW r, turns'[t].endOf = r, CanContinue(t)'
      PROVE  /\ run' \notin late' /\ r = run' => t \in record'.turns /\ record'.run = run' /\ Len(turns) = record'.at
             /\ stage' \in {"opened", "recovered"} /\ run' - 1 \notin late' /\ run' > 1 /\ r = run' - 1 =>
                       t \in record'.turns /\ record'.run = run' - 1 /\ Len(turns) = record'.at
             /\ stage' = "telling" /\ run' - 1 \notin late' /\ run' > 1 /\ r = run' - 1 =>
                       t \in pending' \/ turns'[t].told = run'
  BY <1>2, <1>4
<1> QED  BY <1>1, <1>3, <1>4 DEF Accounted, CutBy, CanContinue, IsOf

\* The parts about turns that rewriting keeps.
LEMMA RewrittenParts ==
    ASSUME Inv, Rewrites
    PROVE  /\ GoesOnOnce'
           /\ turns' \in Seq(Turn) /\ Len(turns') = Len(turns) /\ DOMAIN turns' = DOMAIN turns
           /\ Len(turns') <= MaxTurns
           /\ Live' \subseteq Live /\ Live \subseteq DOMAIN turns
           /\ notices' = notices => NoticesOK'
           /\ \A ts \in SUBSET DOMAIN turns :
                OneEach(ts) => \A s, t \in ts : turns'[s].job = turns'[t].job => s = t
<1>1. TypeOK /\ GoesOnOnce /\ NoticesOK  BY DEF Inv
<1>2. /\ turns' \in Seq(Turn) /\ Len(turns') = Len(turns) /\ DOMAIN turns' = DOMAIN turns
      /\ Live' \subseteq Live /\ Live \subseteq DOMAIN turns /\ Len(turns') <= MaxTurns
  BY <1>1, Rewritten, Turns
<1>3. \A ts \in SUBSET DOMAIN turns :
                OneEach(ts) => \A s, t \in ts : turns'[s].job = turns'[t].job => s = t
  BY DEF OneEach, Rewrites
<1>4. GoesOnOnce'  BY <1>1, RewrittenGoesOnOnce
<1>5. notices' = notices => NoticesOK'  BY <1>1, RewrittenNotices
<1> QED  BY <1>2, <1>3, <1>4, <1>5

\* No boot has anything to tell but one that is telling.
LEMMA NonePending ==
    ASSUME TypeOK, stage # "telling"
    PROVE  pending = {}
BY DEF TypeOK

\* The status of one live row changes.
LEMMA OneRow ==
    ASSUME TypeOK, NEW t \in Live, NEW s \in {"completed", "interrupted"},
           turns' = [turns EXCEPT ![t].status = s]
    PROVE  /\ Rewrites
           /\ turns'[t].status = s /\ turns'[t].endOf = turns[t].endOf /\ turns'[t].told = turns[t].told
           /\ turns[t].status = "live" /\ t \in DOMAIN turns
           /\ \A u \in DOMAIN turns : u # t => turns'[u] = turns[u]
<1>1. t \in DOMAIN turns /\ turns[t] \in Turn /\ turns[t].status = "live"  BY Turns DEF Live
<1>2. turns'[t] = [turns[t] EXCEPT !.status = s] /\ turns' = [u \in DOMAIN turns |-> turns'[u]]  BY <1>1
<1>3. \A u \in DOMAIN turns : u # t => turns'[u] = turns[u]  OBVIOUS
<1>4. /\ turns'[t] \in Turn /\ turns'[t].job = turns[t].job /\ turns'[t].from = turns[t].from
      /\ turns'[t].status = s /\ turns'[t].endOf = turns[t].endOf /\ turns'[t].told = turns[t].told
  BY <1>1, <1>2 DEF Turn
<1>5. Rewrites  BY <1>1, <1>2, <1>3, <1>4, Turns DEF Rewrites
<1> QED  BY <1>1, <1>3, <1>4, <1>5

LEMMA CompleteKeeps == ASSUME Inv, NEW t \in DOMAIN turns, Complete(t) PROVE Inv'
<1> DEFINE Same == UNCHANGED <<attention, record, notices, run, stage, loops, drain, pending, late>>
<1>1. /\ TypeOK /\ stage \in {"up", "quitting", "closing"} /\ t \in Live
      /\ turns' = [turns EXCEPT ![t].status = "completed"] /\ Same
  BY DEF Complete, Inv
<1>2. /\ Rewrites /\ turns'[t].status = "completed" /\ turns'[t].endOf = turns[t].endOf
      /\ turns'[t].told = turns[t].told /\ turns[t].status = "live"
      /\ \A u \in DOMAIN turns : u # t => turns'[u] = turns[u]
  BY <1>1, OneRow
<1>3. /\ GoesOnOnce' /\ NoticesOK' /\ turns' \in Seq(Turn) /\ Len(turns') = Len(turns)
      /\ DOMAIN turns' = DOMAIN turns /\ Len(turns') <= MaxTurns /\ Live' \subseteq Live
      /\ \A ts \in SUBSET DOMAIN turns :
            OneEach(ts) => \A s, u \in ts : turns'[s].job = turns'[u].job => s = u
  BY <1>1, <1>2, RewrittenParts
<1>4. TypeOK'  BY <1>1, <1>3 DEF TypeOK
<1>5. TurnsOK'
  <2> SUFFICES ASSUME NEW u \in DOMAIN turns PROVE TurnOK(u)'
    BY <1>3 DEF TurnsOK
  <2>1. TurnOK(u)  BY DEF Inv, TurnsOK
  <2>2. CASE u = t  BY <1>1, <1>2, <2>1, <2>2 DEF TurnOK
  <2>3. CASE u # t  BY <1>1, <1>2, <2>1, <2>3 DEF TurnOK
  <2> QED  BY <2>2, <2>3
<1>6. DrainOK'  BY <1>1, <1>3 DEF Inv, DrainOK, Running
<1>7. RecordOK'
  <2>1. record.turns \in SUBSET DOMAIN turns  BY <1>1 DEF TypeOK
  <2>2. OneEach(record.turns)'  BY <1>1, <1>3, <2>1 DEF Inv, RecordOK, OneEach
  <2>3. \A u \in record.turns : u \in DOMAIN turns /\ (u # t => turns'[u] = turns[u])  BY <1>2, <2>1
  <2> QED  BY <1>1, <1>2, <1>3, <2>2, <2>3 DEF Inv, RecordOK
<1>8. Accounted'
  <2>1. Live # {} /\ Accounted  BY <1>1 DEF Inv
  <2>2. ASSUME NEW u \in DOMAIN turns, turns'[u].status = "interrupted" PROVE turns'[u] = turns[u]
    BY <1>2, <2>2
  <2>3. stage = "closing" /\ run \notin late => record.run = run /\ Len(turns) = record.at
    BY <2>1 DEF Accounted, IsOf
  <2> QED  BY <1>1, <1>2, <2>1, <2>2, <2>3, AccountedTurn, AccountedNext
<1>9. PendingOK'  BY <1>1, NonePending DEF PendingOK, OneEach
<1> QED  BY <1>3, <1>4, <1>5, <1>6, <1>7, <1>8, <1>9 DEF Inv

LEMMA CutOffKeeps == ASSUME Inv, NEW t \in DOMAIN turns, CutOff(t) PROVE Inv'
<1> DEFINE Same == UNCHANGED <<record, notices, run, stage, loops, drain, pending, late>>
<1>1. /\ TypeOK /\ stage \in {"up", "quitting", "closing"} /\ t \in Live
      /\ turns' = [turns EXCEPT ![t].status = "interrupted"] /\ Same
      /\ attention' = AttentionAfter({t})
  BY DEF CutOff, Inv
<1>2. /\ Rewrites /\ turns'[t].status = "interrupted" /\ turns'[t].endOf = turns[t].endOf
      /\ turns'[t].told = turns[t].told /\ turns[t].status = "live"
      /\ \A u \in DOMAIN turns : u # t => turns'[u] = turns[u]
  BY <1>1, OneRow
<1>3. /\ GoesOnOnce' /\ NoticesOK' /\ turns' \in Seq(Turn) /\ Len(turns') = Len(turns)
      /\ DOMAIN turns' = DOMAIN turns /\ Len(turns') <= MaxTurns /\ Live' \subseteq Live
      /\ \A ts \in SUBSET DOMAIN turns :
            OneEach(ts) => \A s, u \in ts : turns'[s].job = turns'[u].job => s = u
  BY <1>1, <1>2, RewrittenParts
<1>4. TypeOK'
  <2>1. attention' \subseteq OnPlan  BY <1>1 DEF TypeOK, AttentionAfter
  <2> QED  BY <1>1, <1>3, <2>1 DEF TypeOK
<1>5. TurnsOK'
  <2> SUFFICES ASSUME NEW u \in DOMAIN turns PROVE TurnOK(u)'
    BY <1>3 DEF TurnsOK
  <2>1. TurnOK(u)  BY DEF Inv, TurnsOK
  <2>2. CASE u = t  BY <1>1, <1>2, <2>1, <2>2 DEF TurnOK
  <2>3. CASE u # t  BY <1>1, <1>2, <2>1, <2>3 DEF TurnOK
  <2> QED  BY <2>2, <2>3
<1>6. DrainOK'  BY <1>1, <1>3 DEF Inv, DrainOK, Running
<1>7. RecordOK'
  <2>1. record.turns \in SUBSET DOMAIN turns  BY <1>1 DEF TypeOK
  <2>2. OneEach(record.turns)'  BY <1>1, <1>3, <2>1 DEF Inv, RecordOK, OneEach
  <2>3. \A u \in record.turns : u \in DOMAIN turns /\ (u # t => turns'[u] = turns[u])  BY <1>2, <2>1
  <2>4. t \in record.turns => turns[t].endOf = record.run  BY <1>1, <1>2 DEF Inv, RecordOK
  <2> QED  BY <1>1, <1>2, <1>3, <2>2, <2>3, <2>4 DEF Inv, RecordOK
<1>8. Accounted'
  <2>1. Live # {} /\ Accounted  BY <1>1 DEF Inv
  <2>2. stage = "closing" /\ run \notin late => record.run = run /\ Len(turns) = record.at
    BY <2>1 DEF Accounted, IsOf
  <2>3. stage = "closing" /\ run \notin late => t \in record.turns
    BY <1>1, <2>2 DEF Inv, RecordOK
  <2>4. /\ stage \in {"up", "quitting"} => turns[t].endOf = 0
        /\ stage = "closing" => turns[t].endOf \in {0, run}
    BY <1>2 DEF Inv, TurnsOK, TurnOK
  <2>5. run \in Nat /\ run >= 1  BY <1>1, Runs
  <2>6. turns[t].endOf = run => stage = "closing"  BY <1>1, <2>4, <2>5
  <2>7. ~(run > 1 /\ turns[t].endOf = run - 1)
    <3>1. turns[t].endOf = 0 \/ turns[t].endOf = run  BY <1>1, <2>4
    <3> QED  BY <2>5, <3>1
  <2>8. ASSUME NEW u \in DOMAIN turns, turns'[u].status = "interrupted", ~Continued(u)
        PROVE  /\ run \notin late /\ turns'[u].endOf = run =>
                    u \in record.turns /\ record.run = run /\ Len(turns) = record.at
               /\ run - 1 \notin late /\ run > 1 /\ turns'[u].endOf = run - 1 => turns'[u].told = run
    <3>1. CASE u = t  BY <1>2, <2>2, <2>3, <2>6, <2>7, <3>1
    <3>2. CASE u # t
      <4>1. turns'[u] = turns[u]  BY <1>2, <3>2
      <4> QED  BY <1>1, <2>1, <2>8, <4>1, AccountedTurn
    <3> QED  BY <3>1, <3>2
  <2> QED  BY <1>1, <1>2, <2>2, <2>8, AccountedNext
<1>9. PendingOK'  BY <1>1, NonePending DEF PendingOK, OneEach
<1> QED  BY <1>3, <1>4, <1>5, <1>6, <1>7, <1>8, <1>9 DEF Inv

-----------------------------------------------------------------------------
(* Draining. *)

Drains == [phase : {"running", "draining", "drained"}, turns : SUBSET Times, forced : BOOLEAN]

\* The timer's look at a drain that waits for all that is left.
LEMMA CheckedDrain ==
    ASSUME NEW d \in Drains, NEW ts, NEW e, e = Checked(d, ts), d.phase # "running",
           Unsettled(ts) \subseteq d.turns, d.phase = "drained" => Unsettled(ts) = {}
    PROVE  /\ e \in Drains /\ e.phase # "running" /\ e.turns = d.turns /\ (e.forced <=> d.forced)
           /\ e.phase = "drained" => Unsettled(ts) = {}
<1>1. CASE d.phase = "draining" /\ d.turns \cap Unsettled(ts) = {}
  <2>1. e = [d EXCEPT !.phase = "drained"]  BY <1>1 DEF Checked
  <2>2. Unsettled(ts) = {}  BY <1>1
  <2> QED  BY <2>1, <2>2 DEF Drains
<1>2. CASE ~(d.phase = "draining" /\ d.turns \cap Unsettled(ts) = {})
  <2>1. e = d  BY <1>2 DEF Checked
  <2> QED  BY <2>1
<1> QED  BY <1>1, <1>2

LEMMA Begins ==
    ASSUME Inv, stage = "up"
    PROVE  /\ Begun \in Drains /\ Begun.phase # "running" /\ Unsettled(turns) \subseteq Begun.turns
           /\ Begun.phase = "drained" => Unsettled(turns) = {}
           /\ Unsettled(turns) = Live \cup loops /\ Unsettled(turns) \subseteq Times
           /\ drain.phase = "running" => ~Begun.forced
<1>1. TypeOK /\ DrainOK /\ drain \in Drains  BY DEF Inv, TypeOK, Drains
<1>2. Unsettled(turns) = Live \cup loops  BY DEF Unsettled, Live
<1>3. Unsettled(turns) \subseteq Times
  <2>1. loops \subseteq DOMAIN turns  BY <1>1 DEF TypeOK
  <2> QED  BY <1>1, <1>2, <2>1, Turns
<1>4. CASE drain.phase = "running"
  <2>1. Begun = [Running EXCEPT !.phase = "draining", !.turns = Unsettled(turns)]  BY <1>4 DEF Begun
  <2>2. Begun = [phase |-> "draining", turns |-> Unsettled(turns), forced |-> FALSE]
    BY <2>1 DEF Running
  <2>3. Begun \in Drains  BY <1>3, <2>2 DEF Drains
  <2>4. Begun.phase = "draining" /\ Begun.turns = Unsettled(turns) /\ ~Begun.forced  BY <2>2
  <2> QED  BY <1>2, <1>3, <2>3, <2>4
<1>5. CASE drain.phase # "running"
  <2>1. Begun = drain  BY <1>5 DEF Begun
  <2> QED  BY <1>1, <1>2, <1>3, <1>5, <2>1 DEF DrainOK
<1> QED  BY <1>4, <1>5

\* Steps of the drain, and tasks that settle.
LEMMA QuietInv ==
    ASSUME Inv, UNCHANGED <<turns, attention, record, notices, run, stage, pending, late>>,
           loops' \subseteq loops, stage \notin {"down", "opened"} => Live \subseteq loops',
           drain' \in Drains, DrainOK', drain.forced => drain'.forced,
           drain'.phase = "running" => drain.phase = "running"
    PROVE  Inv'
<1>1. TypeOK /\ Rewrites /\ Live' = Live  BY SameTurns DEF Inv
<1>2. GoesOnOnce' /\ NoticesOK'  BY <1>1, RewrittenParts
<1>3. TypeOK'  BY <1>1 DEF TypeOK, Drains
<1>4. TurnsOK'  BY DEF Inv, TurnsOK, TurnOK
<1>5. RecordOK'  BY <1>1 DEF Inv, RecordOK, OneEach
<1>6. Accounted'
  <2>1. Accounted  BY DEF Inv
  <2>2. stage = "closing" /\ run \notin late /\ Live # {} => record.run = run /\ Len(turns) = record.at
    BY <2>1 DEF Accounted, IsOf
  <2> QED  BY <1>1, <2>1, <2>2, AccountedTurn, AccountedNext
<1>7. PendingOK'  BY DEF Inv, PendingOK, OneEach
<1> QED  BY <1>2, <1>3, <1>4, <1>5, <1>6, <1>7 DEF Inv

LEMMA SettleKeeps == ASSUME Inv, NEW t \in DOMAIN turns, Settle(t) PROVE Inv'
<1>1. TypeOK /\ DrainOK /\ Live' = Live  BY SameTurns DEF Inv, Settle
<1>2. loops' \subseteq loops /\ drain' = drain /\ stage' = stage  BY DEF Settle
<1>3. stage \notin {"down", "opened"} => Live \subseteq loops'
  BY <1>1 DEF Settle, TypeOK
<1>4. DrainOK'  BY <1>1, <1>2 DEF DrainOK, Running
<1>5. drain' \in Drains  BY <1>1, <1>2 DEF TypeOK, Drains
<1> QED  BY <1>2, <1>3, <1>4, <1>5, QuietInv DEF Settle

\* A drain begun or looked at again.
LEMMA DrainingInv ==
    ASSUME Inv, stage = "up", drain' = Checked(Begun, turns),
           UNCHANGED <<turns, attention, record, notices, run, stage, loops, pending, late>>
    PROVE  Inv'
<1>1. TypeOK /\ DrainOK /\ Live' = Live  BY SameTurns DEF Inv
<1>2. /\ Begun \in Drains /\ Begun.phase # "running" /\ Unsettled(turns) \subseteq Begun.turns
      /\ Begun.phase = "drained" => Unsettled(turns) = {}
      /\ Unsettled(turns) = Live \cup loops
  BY Begins
<1>3. /\ drain' \in Drains /\ drain'.phase # "running" /\ drain'.turns = Begun.turns
      /\ drain'.forced <=> Begun.forced
      /\ drain'.phase = "drained" => Unsettled(turns) = {}
  BY <1>2, CheckedDrain
<1>4. Begun.forced <=> drain.forced  BY <1>1, Begins DEF Begun, DrainOK, Running
<1>5. DrainOK'
  <2>1. drain.forced => Live = {}  BY <1>1 DEF DrainOK
  <2> QED  BY <1>1, <1>2, <1>3, <1>4, <2>1 DEF DrainOK
<1>6. stage \notin {"down", "opened"} => Live \subseteq loops'  BY <1>1 DEF TypeOK
<1> QED  BY <1>3, <1>4, <1>5, <1>6, QuietInv

LEMMA BeginKeeps == ASSUME Inv, Begin PROVE Inv'
BY DrainingInv DEF Begin

LEMMA CheckKeeps == ASSUME Inv, Check PROVE Inv'
<1>1. drain.phase = "draining"  BY DEF Check, Checked
<1>2. Begun = drain  BY <1>1 DEF Begun
<1> QED  BY <1>2, DrainingInv DEF Check

-----------------------------------------------------------------------------
(* Ends, and what they note. *)

\* What a step that notes the live turns, as those the end of run r finds, gives.
LEMMA NotingParts ==
    ASSUME Inv, NEW r \in 0..MaxRuns, record' = Noted(r), Rewrites,
           \A t \in DOMAIN turns : /\ t \notin Live => turns'[t] = turns[t]
                                   /\ t \in Live => turns'[t].endOf = r
    PROVE  /\ record' \in [run : 0..MaxRuns, at : Times, turns : SUBSET DOMAIN turns']
           /\ record'.at <= Len(turns') /\ OneEach(record.turns)
           /\ \A s, t \in record'.turns : turns'[s].job = turns'[t].job => s = t
           /\ Len(turns') = record'.at => Live' \subseteq record'.turns
           /\ \A t \in record'.turns : turns'[t].status \in {"live", "interrupted"} => turns'[t].endOf = record'.run
           /\ \A t \in DOMAIN turns :
                t \in Live \/ (t \in record.turns /\ record.run = r /\ Len(turns) = record.at) =>
                  t \in record'.turns /\ record'.run = r /\ Len(turns) = record'.at
           /\ Live = {} => record' = record
<1> DEFINE rec == record'
<1>1. TypeOK /\ GoesOnOnce /\ RecordOK  BY DEF Inv
<1>2. rec = Noted(r)  OBVIOUS
<1>3. /\ DOMAIN turns' = DOMAIN turns /\ Len(turns') = Len(turns) /\ Live' \subseteq Live
      /\ \A ts \in SUBSET DOMAIN turns :
            OneEach(ts) => \A s, t \in ts : turns'[s].job = turns'[t].job => s = t
  BY RewrittenParts
<1> HIDE DEF rec
<1>4. /\ rec \in [run : 0..MaxRuns, at : Times, turns : SUBSET DOMAIN turns]
      /\ rec.at <= Len(turns) /\ OneEach(rec.turns) /\ (Len(turns) = rec.at => Live \subseteq rec.turns)
      /\ Live = {} => rec = record
      /\ Live # {} => /\ rec.run = r /\ rec.at = Len(turns) /\ Live \subseteq rec.turns
                      /\ \A t \in rec.turns : t \in Live \/ (t \in record.turns /\ record.run = r)
      /\ IsOf(record, r) => record.turns \subseteq rec.turns
  BY <1>1, <1>2, NotedRecord
<1>5. ASSUME NEW t \in rec.turns, turns'[t].status \in {"live", "interrupted"}
      PROVE  turns'[t].endOf = rec.run
  <2>1. t \in DOMAIN turns  BY <1>4
  <2>2. CASE t \in Live  BY <1>4, <2>1, <2>2
  <2>3. CASE t \notin Live
    <3>1. t \in record.turns /\ rec.run = record.run  BY <1>4, <2>3
    <3>2. turns'[t] = turns[t] /\ turns[t].status = "interrupted"  BY <1>5, <2>1, <2>3 DEF Live
    <3> QED  BY <1>1, <3>1, <3>2 DEF RecordOK
  <2> QED  BY <2>2, <2>3
<1>6. ASSUME NEW t \in DOMAIN turns,
             t \in Live \/ (t \in record.turns /\ record.run = r /\ Len(turns) = record.at)
      PROVE  t \in rec.turns /\ rec.run = r /\ Len(turns) = rec.at
  <2>1. CASE Live = {}
    <3>1. rec = record /\ t \notin Live  BY <1>4, <2>1
    <3> QED  BY <1>6, <3>1
  <2>2. CASE Live # {}
    <3>1. t \notin Live => IsOf(record, r)  BY <1>6 DEF IsOf
    <3> QED  BY <1>4, <1>6, <2>2, <3>1
  <2> QED  BY <2>1, <2>2
<1>7. rec.turns \in SUBSET DOMAIN turns  BY <1>4
<1>8. \A s, t \in rec.turns : turns'[s].job = turns'[t].job => s = t  BY <1>3, <1>4, <1>7
<1>9. OneEach(record.turns)  BY <1>1 DEF RecordOK
<1>10. Len(turns') = rec.at => Live' \subseteq rec.turns  BY <1>3, <1>4
<1> USE DEF rec
<1> QED  BY <1>3, <1>4, <1>5, <1>6, <1>8, <1>9, <1>10

\* The live turns noted and cut off, by a drain that is forced or by a quit.
LEMMA NotedAndEnded ==
    ASSUME Inv, stage = "up", record' = Noted(run), turns' = Ended(Live, run),
           attention' = AttentionAfter(Live), UNCHANGED <<notices, run, loops, pending, late>>,
           stage' \in {"up", "quitting"}, stage' = "up" => drain'.phase # "running" /\ drain'.forced,
           drain' \in Drains, Live' = {} => DrainOK'
    PROVE  Inv'
<1>1. TypeOK /\ TurnsOK /\ Accounted /\ run \in 0..MaxRuns  BY Runs DEF Inv
<1>2. /\ Rewrites /\ Live' = {}
      /\ \A t \in DOMAIN turns :
           /\ t \notin Live => turns'[t] = turns[t]
           /\ t \in Live => /\ turns'[t].status = "interrupted" /\ turns'[t].endOf = run
                            /\ turns'[t].told = turns[t].told
  BY <1>1, EndedTurns
<1>3. /\ GoesOnOnce' /\ NoticesOK' /\ turns' \in Seq(Turn) /\ Len(turns') = Len(turns)
      /\ DOMAIN turns' = DOMAIN turns /\ Len(turns') <= MaxTurns
  BY <1>1, <1>2, RewrittenParts
<1>4. /\ record' \in [run : 0..MaxRuns, at : Times, turns : SUBSET DOMAIN turns']
      /\ record'.at <= Len(turns')
      /\ \A s, t \in record'.turns : turns'[s].job = turns'[t].job => s = t
      /\ Len(turns') = record'.at => Live' \subseteq record'.turns
      /\ \A t \in record'.turns : turns'[t].status \in {"live", "interrupted"} => turns'[t].endOf = record'.run
      /\ \A t \in DOMAIN turns :
           t \in Live \/ (t \in record.turns /\ record.run = run /\ Len(turns) = record.at) =>
             t \in record'.turns /\ record'.run = run /\ Len(turns) = record'.at
  BY <1>1, <1>2, NotingParts
<1>5. DrainOK'  BY <1>2
<1>6. TypeOK'
  <2>1. attention' \subseteq OnPlan  BY <1>1 DEF TypeOK, AttentionAfter
  <2> QED  BY <1>1, <1>2, <1>3, <1>4, <2>1 DEF TypeOK, Drains, Stages
<1>7. TurnsOK'
  <2> SUFFICES ASSUME NEW t \in DOMAIN turns PROVE TurnOK(t)'
    BY <1>3 DEF TurnsOK
  <2>1. TurnOK(t) /\ run \in Nat  BY <1>1, Runs DEF TurnsOK
  <2>2. CASE t \in Live
    <3>1. turns[t].status = "live"  BY <2>2 DEF Live
    <3> QED  BY <1>1, <1>2, <2>1, <2>2, <3>1 DEF TurnOK
  <2>3. CASE t \notin Live
    <3>1. turns'[t] = turns[t] /\ turns[t].status # "live"  BY <1>2, <2>3 DEF Live
    <3> QED  BY <2>1, <3>1 DEF TurnOK
  <2> QED  BY <2>2, <2>3
<1>8. RecordOK'  BY <1>2, <1>4 DEF RecordOK, OneEach
<1>9. Accounted'
  <2>1. run \in Nat /\ run - 1 # run  BY <1>1, Runs
  <2>2. ASSUME NEW t \in DOMAIN turns, turns'[t].status = "interrupted", ~Continued(t)
        PROVE  /\ run \notin late /\ turns'[t].endOf = run =>
                    t \in record'.turns /\ record'.run = run /\ Len(turns) = record'.at
               /\ run - 1 \notin late /\ run > 1 /\ turns'[t].endOf = run - 1 => turns'[t].told = run
    <3>1. CASE t \in Live  BY <1>2, <1>4, <2>1, <3>1
    <3>2. CASE t \notin Live
      <4>1. turns'[t] = turns[t]  BY <1>2, <3>2
      <4> QED  BY <1>1, <1>4, <2>2, <4>1, AccountedTurn
    <3> QED  BY <3>1, <3>2
  <2> QED  BY <1>1, <1>2, <2>2, AccountedNext
<1>10. PendingOK'  BY <1>1, NonePending DEF PendingOK, OneEach
<1> QED  BY <1>3, <1>5, <1>6, <1>7, <1>8, <1>9, <1>10 DEF Inv

LEMMA ForceDrainKeeps == ASSUME Inv, ForceDrain PROVE Inv'
<1> DEFINE d == [Begun EXCEPT !.forced = TRUE]
<1>1. /\ stage = "up" /\ turns' = Ended(Live, run) /\ TypeOK /\ run \in 0..MaxRuns
      /\ UNCHANGED <<stage, loops>> /\ drain' = Checked(d, turns')
  BY Runs DEF Inv, ForceDrain
<1>2. /\ Begun \in Drains /\ Begun.phase # "running" /\ Unsettled(turns) \subseteq Begun.turns
      /\ Begun.phase = "drained" => Unsettled(turns) = {}
      /\ Unsettled(turns) = Live \cup loops
  BY <1>1, Begins
<1>3. d \in Drains /\ d.phase = Begun.phase /\ d.turns = Begun.turns /\ d.forced
  BY <1>2 DEF Drains
<1> HIDE DEF d
<1>4. Live' = {}  BY <1>1, EndedTurns
<1>5. Unsettled(turns') = loops
  <2>1. {t \in DOMAIN turns' : turns'[t].status = "live"} = {}  BY <1>4 DEF Live
  <2> QED  BY <2>1 DEF Unsettled
<1>6. /\ drain' \in Drains /\ drain'.phase # "running" /\ drain'.turns = d.turns
      /\ drain'.forced <=> d.forced
      /\ drain'.phase = "drained" => Unsettled(turns') = {}
  BY <1>1, <1>2, <1>3, <1>5, CheckedDrain
<1>7. Live' \cup loops' \subseteq drain'.turns /\ (drain'.phase = "drained" => Live' \cup loops' = {})
  BY <1>1, <1>2, <1>3, <1>4, <1>5, <1>6
<1>8. DrainOK'  BY <1>1, <1>4, <1>6, <1>7 DEF DrainOK
<1> QED  BY <1>1, <1>3, <1>6, <1>8, NotedAndEnded DEF ForceDrain

LEMMA QuitKeeps == ASSUME Inv, Quit PROVE Inv'
<1>1. DrainOK /\ drain \in Drains  BY DEF Inv, TypeOK, Drains
<1>2. Live' = {} => DrainOK'  BY <1>1 DEF Quit, DrainOK, Running
<1> QED  BY <1>1, <1>2, NotedAndEnded DEF Quit

\* What a stop or a crash finds live, it leaves so.
LEMMA FoundParts ==
    ASSUME Inv, turns' = FoundLive(run), run' = run, stage' \in {"closing", "down"}
    PROVE  TurnsOK'
<1>1. TypeOK /\ TurnsOK  BY DEF Inv
<1>2. /\ Rewrites
      /\ \A t \in DOMAIN turns :
           /\ t \notin Live => turns'[t] = turns[t]
           /\ t \in Live => /\ turns'[t].status = "live" /\ turns'[t].endOf = run
                            /\ turns'[t].told = turns[t].told
  BY <1>1, FoundTurns
<1>3. DOMAIN turns' = DOMAIN turns  BY <1>1, <1>2, Rewritten
<1> SUFFICES ASSUME NEW t \in DOMAIN turns PROVE TurnOK(t)'
  BY <1>3 DEF TurnsOK
<1>4. TurnOK(t) /\ run \in Nat  BY <1>1, Runs DEF TurnsOK
<1>5. CASE t \in Live
  <2>1. turns[t].status = "live"  BY <1>5 DEF Live
  <2> QED  BY <1>2, <1>4, <1>5, <2>1 DEF TurnOK
<1>6. CASE t \notin Live
  <2>1. turns[t].status # "live"  BY <1>6 DEF Live
  <2> QED  BY <1>2, <1>4, <1>6, <2>1 DEF TurnOK
<1> QED  BY <1>5, <1>6

LEMMA StopBeginKeeps == ASSUME Inv, StopBegin PROVE Inv'
<1>1. /\ TypeOK /\ DrainOK /\ Accounted /\ stage \in {"up", "quitting"} /\ run \in 0..MaxRuns
      /\ record' = Noted(run) /\ turns' = FoundLive(run) /\ stage' = "closing"
      /\ UNCHANGED <<attention, notices, run, loops, drain, pending, late>>
  BY Runs DEF Inv, StopBegin
<1>2. /\ Rewrites /\ Live' = Live
      /\ \A t \in DOMAIN turns :
           /\ t \notin Live => turns'[t] = turns[t]
           /\ t \in Live => /\ turns'[t].status = "live" /\ turns'[t].endOf = run
                            /\ turns'[t].told = turns[t].told
  BY <1>1, FoundTurns
<1>3. /\ GoesOnOnce' /\ NoticesOK' /\ turns' \in Seq(Turn) /\ Len(turns') = Len(turns)
      /\ DOMAIN turns' = DOMAIN turns /\ Len(turns') <= MaxTurns /\ Live \subseteq DOMAIN turns
  BY <1>1, <1>2, RewrittenParts
<1>4. /\ record' \in [run : 0..MaxRuns, at : Times, turns : SUBSET DOMAIN turns']
      /\ record'.at <= Len(turns')
      /\ \A s, t \in record'.turns : turns'[s].job = turns'[t].job => s = t
      /\ Len(turns') = record'.at => Live' \subseteq record'.turns
      /\ \A t \in record'.turns : turns'[t].status \in {"live", "interrupted"} => turns'[t].endOf = record'.run
      /\ \A t \in DOMAIN turns :
           t \in Live \/ (t \in record.turns /\ record.run = run /\ Len(turns) = record.at) =>
             t \in record'.turns /\ record'.run = run /\ Len(turns) = record'.at
  BY <1>1, <1>2, NotingParts
<1>5. DrainOK'  BY <1>1, <1>2 DEF DrainOK, Running
<1>6. TypeOK'  BY <1>1, <1>2, <1>3, <1>4 DEF TypeOK, Stages
<1>7. TurnsOK'  BY <1>1, FoundParts
<1>8. RecordOK'  BY <1>1, <1>2, <1>4 DEF RecordOK, OneEach
<1>9. Accounted'
  <2>1. ASSUME NEW t \in DOMAIN turns, turns'[t].status = "interrupted", ~Continued(t)
        PROVE  /\ run \notin late /\ turns'[t].endOf = run =>
                    t \in record'.turns /\ record'.run = run /\ Len(turns) = record'.at
               /\ run - 1 \notin late /\ run > 1 /\ turns'[t].endOf = run - 1 => turns'[t].told = run
    <3>1. turns'[t] = turns[t]  BY <1>2, <2>1
    <3> QED  BY <1>1, <1>4, <2>1, <3>1, AccountedTurn
  <2>2. Live' # {} => record'.run = run' /\ Len(turns) = record'.at  BY <1>1, <1>2, <1>3, <1>4
  <2> QED  BY <1>1, <1>2, <2>1, <2>2, AccountedNext
<1>10. PendingOK'  BY <1>1, NonePending DEF PendingOK, OneEach
<1> QED  BY <1>3, <1>5, <1>6, <1>7, <1>8, <1>9, <1>10 DEF Inv

\* A stop ends with no task left, so with nothing live: what it noted stands.
LEMMA StopEndKeeps == ASSUME Inv, StopEnd PROVE Inv'
<1>1. /\ TypeOK /\ TurnsOK /\ RecordOK /\ Accounted /\ stage = "closing" /\ loops = {}
      /\ turns' = Ended(Live, run) /\ stage' = "down" /\ drain' = Running
      /\ attention' = AttentionAfter(Live) /\ UNCHANGED <<record, notices, run, loops, pending, late>>
  BY DEF Inv, StopEnd
<1>2. Live = {}  BY <1>1 DEF TypeOK
<1>3. turns' = turns
  <2>1. turns' = [t \in DOMAIN turns |-> turns[t]]  BY <1>1, <1>2 DEF Ended
  <2> QED  BY <1>1, <2>1, Turns
<1>4. Rewrites /\ Live' = {}  BY <1>1, <1>2, <1>3, SameTurns
<1>5. GoesOnOnce' /\ NoticesOK'  BY <1>1, <1>4, RewrittenParts
<1>6. TypeOK'
  <2>1. attention' \subseteq OnPlan  BY <1>1 DEF TypeOK, AttentionAfter
  <2>2. drain' \in Drains  BY <1>1 DEF Drains, Running
  <2> QED  BY <1>1, <1>3, <1>4, <2>1, <2>2 DEF TypeOK, Stages, Drains
<1>7. TurnsOK'  BY <1>1, <1>3 DEF TurnsOK, TurnOK
<1>8. DrainOK'  BY <1>1, <1>4 DEF DrainOK, Running
<1>9. RecordOK'  BY <1>1, <1>3, <1>4 DEF RecordOK, OneEach
<1>10. Accounted'  BY <1>1, <1>3, <1>4, AccountedTurn, AccountedNext
<1>11. PendingOK'  BY <1>1, NonePending DEF PendingOK, OneEach
<1> QED  BY <1>5, <1>6, <1>7, <1>8, <1>9, <1>10, <1>11 DEF Inv

LEMMA CrashKeeps == ASSUME Inv, Crash PROVE Inv'
<1>1. /\ TypeOK /\ TurnsOK /\ RecordOK /\ Accounted /\ stage # "down"
      /\ turns' = FoundLive(run) /\ stage' = "down" /\ loops' = {} /\ drain' = Running /\ pending' = {}
      /\ UNCHANGED <<attention, record, notices, run, late>>
  BY DEF Inv, Crash
<1>2. /\ Rewrites /\ Live' = Live
      /\ \A t \in DOMAIN turns :
           /\ t \notin Live => turns'[t] = turns[t]
           /\ t \in Live => /\ turns'[t].status = "live" /\ turns'[t].endOf = run
                            /\ turns'[t].told = turns[t].told
  BY <1>1, FoundTurns
<1>3. /\ GoesOnOnce' /\ NoticesOK' /\ turns' \in Seq(Turn) /\ Len(turns') = Len(turns)
      /\ DOMAIN turns' = DOMAIN turns /\ Len(turns') <= MaxTurns /\ Live \subseteq DOMAIN turns
      /\ \A ts \in SUBSET DOMAIN turns :
            OneEach(ts) => \A s, t \in ts : turns'[s].job = turns'[t].job => s = t
  BY <1>1, <1>2, RewrittenParts
<1>4. TypeOK'
  <2>1. drain' \in Drains  BY <1>1 DEF Drains, Running
  <2> QED  BY <1>1, <1>2, <1>3, <2>1 DEF TypeOK, Stages, Drains
<1>5. TurnsOK'  BY <1>1, FoundParts
<1>6. DrainOK'
  <2>1. drain' = Running /\ Running.phase = "running" /\ ~Running.forced  BY <1>1 DEF Running
  <2> QED  BY <2>1 DEF DrainOK
<1>7. RecordOK'
  <2>1. record.turns \in SUBSET DOMAIN turns  BY <1>1 DEF TypeOK
  <2>2. OneEach(record.turns)'  BY <1>1, <1>3, <2>1 DEF RecordOK, OneEach
  <2>3. \A t \in record.turns : turns'[t].status = "interrupted" => turns'[t] = turns[t]  BY <1>2, <2>1
  <2> QED  BY <1>1, <1>2, <1>3, <2>2, <2>3 DEF RecordOK
<1>8. Accounted'
  <2>1. ASSUME NEW t \in DOMAIN turns, turns'[t].status = "interrupted" PROVE turns'[t] = turns[t]
    BY <1>2, <2>1
  <2> QED  BY <1>1, <1>2, <2>1, AccountedTurn, AccountedNext
<1>9. PendingOK'  BY <1>1 DEF PendingOK, OneEach
<1> QED  BY <1>3, <1>4, <1>5, <1>6, <1>7, <1>8, <1>9 DEF Inv

-----------------------------------------------------------------------------
(* The next boot. *)

LEMMA NoRecordOK ==
    ASSUME TypeOK
    PROVE  /\ NoRecord \in [run : 0..MaxRuns, at : Times, turns : SUBSET DOMAIN turns]
           /\ NoRecord.at <= Len(turns) /\ NoRecord.turns = {} /\ (Len(turns) = NoRecord.at => Live = {})
<1>1. /\ Len(turns) \in Nat /\ MaxTurns \in Nat /\ MaxRuns \in Nat
      /\ DOMAIN turns = 1..Len(turns) /\ Live \subseteq DOMAIN turns
  BY Turns, Runs
<1>2. NoRecord.run = 0 /\ NoRecord.at = 0 /\ NoRecord.turns = {}  BY DEF NoRecord
<1>3. NoRecord \in [run : 0..MaxRuns, at : Times, turns : SUBSET DOMAIN turns]
  BY <1>1 DEF NoRecord, Times
<1> QED  BY <1>1, <1>2, <1>3

LEMMA BootKeeps == ASSUME Inv, Boot PROVE Inv'
<1>1. /\ TypeOK /\ TurnsOK /\ DrainOK /\ RecordOK /\ Accounted /\ stage = "down" /\ run < MaxRuns
      /\ run' = run + 1 /\ stage' = "opened" /\ late' = late \cap {run}
      /\ UNCHANGED <<turns, attention, record, notices, loops, drain, pending>>
  BY DEF Inv, Boot
<1>2. Rewrites /\ Live' = Live  BY <1>1, SameTurns
<1>3. GoesOnOnce' /\ NoticesOK'  BY <1>1, <1>2, RewrittenParts
<1>4. run \in Nat /\ run >= 1 /\ MaxRuns \in Nat  BY <1>1, Runs
<1>5. run' \in 1..MaxRuns /\ late' \subseteq 1..run' /\ run' - 1 = run /\ run' > 1  BY <1>1, <1>4
<1>6. TypeOK'  BY <1>1, <1>2, <1>5 DEF TypeOK, Stages
<1>7. \A t \in DOMAIN turns : turns[t].endOf \in Nat /\ turns[t].told \in Nat  BY <1>1, Turns, ATurn
<1>8. TurnsOK'
  <2> SUFFICES ASSUME NEW t \in DOMAIN turns PROVE TurnOK(t)'
    BY <1>1 DEF TurnsOK
  <2>1. TurnOK(t) /\ turns[t].endOf \in Nat /\ turns[t].told \in Nat  BY <1>1, <1>7 DEF TurnsOK
  <2>2. turns[t].endOf <= run /\ turns[t].told <= run  BY <2>1 DEF TurnOK
  <2>3. turns[t].endOf < run' /\ turns[t].endOf <= run' /\ turns[t].told <= run'  BY <1>1, <1>4, <2>1, <2>2
  <2> QED  BY <1>1, <2>1, <2>3 DEF TurnOK
<1>9. DrainOK'  BY <1>1, <1>2 DEF DrainOK, Running
<1>10. RecordOK'  BY <1>1, <1>2 DEF RecordOK, OneEach
<1>11. Accounted'
  <2>1. ASSUME NEW t \in DOMAIN turns, turns[t].status = "interrupted", ~Continued(t)
        PROVE  /\ turns[t].endOf # run'
               /\ run \notin late' /\ turns[t].endOf = run =>
                    t \in record.turns /\ record.run = run /\ Len(turns) = record.at
    <3>1. turns[t].endOf <= run  BY <1>1 DEF TurnsOK, TurnOK
    <3>2. turns[t].endOf # run'  BY <1>1, <1>4, <1>7, <3>1
    <3>3. run \notin late' => run \notin late  BY <1>1
    <3> QED  BY <1>1, <2>1, <3>2, <3>3, AccountedTurn
  <2> QED  BY <1>1, <1>2, <1>5, <2>1, AccountedNext
<1>12. PendingOK'  BY <1>1, NonePending DEF PendingOK, OneEach
<1> QED  BY <1>3, <1>6, <1>8, <1>9, <1>10, <1>11, <1>12 DEF Inv

LEMMA RecoverKeeps == ASSUME Inv, Recover PROVE Inv'
<1>1. /\ TypeOK /\ TurnsOK /\ DrainOK /\ Accounted /\ stage = "opened" /\ run - 1 \in 0..MaxRuns
      /\ record' = Noted(run - 1) /\ turns' = Ended(Live, run - 1) /\ stage' = "recovered"
      /\ attention' = AttentionAfter(Live) /\ UNCHANGED <<notices, run, loops, drain, pending, late>>
  BY Runs DEF Inv, Recover
<1>2. /\ Rewrites /\ Live' = {}
      /\ \A t \in DOMAIN turns :
           /\ t \notin Live => turns'[t] = turns[t]
           /\ t \in Live => /\ turns'[t].status = "interrupted" /\ turns'[t].endOf = run - 1
                            /\ turns'[t].told = turns[t].told
  BY <1>1, EndedTurns
<1>3. /\ GoesOnOnce' /\ NoticesOK' /\ turns' \in Seq(Turn) /\ Len(turns') = Len(turns)
      /\ DOMAIN turns' = DOMAIN turns /\ Len(turns') <= MaxTurns
  BY <1>1, <1>2, RewrittenParts
<1>4. /\ record' \in [run : 0..MaxRuns, at : Times, turns : SUBSET DOMAIN turns']
      /\ record'.at <= Len(turns')
      /\ \A s, t \in record'.turns : turns'[s].job = turns'[t].job => s = t
      /\ Len(turns') = record'.at => Live' \subseteq record'.turns
      /\ \A t \in record'.turns : turns'[t].status \in {"live", "interrupted"} => turns'[t].endOf = record'.run
      /\ \A t \in DOMAIN turns :
           t \in Live \/ (t \in record.turns /\ record.run = run - 1 /\ Len(turns) = record.at) =>
             t \in record'.turns /\ record'.run = run - 1 /\ Len(turns) = record'.at
  BY <1>1, <1>2, NotingParts
<1>5. DrainOK'  BY <1>1, <1>2 DEF DrainOK, Running
<1>6. TypeOK'
  <2>1. attention' \subseteq OnPlan  BY <1>1 DEF TypeOK, AttentionAfter
  <2> QED  BY <1>1, <1>2, <1>3, <1>4, <2>1 DEF TypeOK, Stages
<1>7. run \in Nat /\ run - 1 < run /\ run - 1 <= run  BY <1>1, Runs
<1>8. TurnsOK'
  <2> SUFFICES ASSUME NEW t \in DOMAIN turns PROVE TurnOK(t)'
    BY <1>3 DEF TurnsOK
  <2>1. TurnOK(t)  BY <1>1 DEF TurnsOK
  <2>2. CASE t \in Live
    <3>1. turns[t].status = "live"  BY <2>2 DEF Live
    <3> QED  BY <1>1, <1>2, <1>7, <2>1, <2>2, <3>1 DEF TurnOK
  <2>3. CASE t \notin Live
    <3>1. turns'[t] = turns[t] /\ turns[t].status # "live"  BY <1>2, <2>3 DEF Live
    <3> QED  BY <1>1, <2>1, <3>1 DEF TurnOK
  <2> QED  BY <2>2, <2>3
<1>9. RecordOK'  BY <1>1, <1>2, <1>4 DEF RecordOK, OneEach
<1>10. Accounted'
  <2>1. ASSUME NEW t \in DOMAIN turns, turns'[t].status = "interrupted", ~Continued(t)
        PROVE  /\ turns'[t].endOf # run
               /\ run - 1 \notin late /\ run > 1 /\ turns'[t].endOf = run - 1 =>
                    t \in record'.turns /\ record'.run = run - 1 /\ Len(turns) = record'.at
    <3>1. CASE t \in Live  BY <1>2, <1>4, <1>7, <3>1
    <3>2. CASE t \notin Live
      <4>1. turns'[t] = turns[t]  BY <1>2, <3>2
      <4>2. turns[t].endOf < run  BY <1>1 DEF TurnsOK, TurnOK
      <4>3. turns[t].endOf # run  BY <1>1, <1>7, <4>2, Turns, ATurn
      <4> QED  BY <1>1, <1>4, <2>1, <4>1, <4>3, AccountedTurn
    <3> QED  BY <3>1, <3>2
  <2> QED  BY <1>1, <1>2, <2>1, AccountedNext
<1>11. PendingOK'  BY <1>1, NonePending DEF PendingOK, OneEach
<1> QED  BY <1>3, <1>5, <1>6, <1>8, <1>9, <1>10, <1>11 DEF Inv

\* A boot that has not come up yet is not the end of any turn.
LEMMA EndedBefore ==
    ASSUME Inv, NEW t \in DOMAIN turns, stage \in {"opened", "recovered", "telling"}
    PROVE  turns[t].endOf # run
<1>1. turns[t].endOf < run /\ run \in Nat /\ turns[t].endOf \in Nat
  BY Runs, Turns, ATurn DEF Inv, TurnsOK, TurnOK
<1> QED  BY <1>1

LEMMA TakeKeeps == ASSUME Inv, Take PROVE Inv'
<1>1. /\ TypeOK /\ TurnsOK /\ DrainOK /\ RecordOK /\ Accounted /\ stage = "recovered"
      /\ pending' = IF IsOf(record, run - 1) THEN {t \in record.turns : CanContinue(t)} ELSE {}
      /\ record' = NoRecord /\ stage' = "telling"
      /\ UNCHANGED <<turns, attention, notices, run, loops, drain, late>>
  BY DEF Inv, Take
<1>2. Rewrites /\ Live' = Live  BY <1>1, SameTurns
<1>3. GoesOnOnce' /\ NoticesOK'  BY <1>1, <1>2, RewrittenParts
<1>4. /\ record' \in [run : 0..MaxRuns, at : Times, turns : SUBSET DOMAIN turns]
      /\ record'.at <= Len(turns) /\ record'.turns = {} /\ (Len(turns) = record'.at => Live = {})
  BY <1>1, NoRecordOK
<1>5. \A t \in pending' : t \in record.turns /\ record.run = run - 1 /\ turns[t].status = "interrupted"
  BY <1>1 DEF IsOf, CanContinue
<1>6. TypeOK'
  <2>1. pending' \subseteq DOMAIN turns  BY <1>1, <1>5 DEF TypeOK
  <2> QED  BY <1>1, <1>2, <1>4, <2>1 DEF TypeOK, Stages
<1>7. TurnsOK'  BY <1>1 DEF TurnsOK, TurnOK
<1>8. DrainOK'  BY <1>1, <1>2 DEF DrainOK, Running
<1>9. RecordOK'  BY <1>1, <1>2, <1>4 DEF RecordOK, OneEach
<1>10. Accounted'
  <2>1. ASSUME NEW t \in DOMAIN turns, turns[t].status = "interrupted", ~Continued(t)
        PROVE  /\ turns[t].endOf # run
               /\ run - 1 \notin late /\ run > 1 /\ turns[t].endOf = run - 1 => t \in pending'
    <3>1. turns[t].endOf # run  BY <1>1, EndedBefore
    <3>2. run - 1 \notin late /\ run > 1 /\ turns[t].endOf = run - 1 => t \in record.turns /\ IsOf(record, run - 1)
      BY <1>1, <2>1, AccountedTurn DEF IsOf
    <3> QED  BY <1>1, <2>1, <3>1, <3>2 DEF CanContinue
  <2> QED  BY <1>1, <1>2, <2>1, AccountedNext
<1>11. PendingOK'  BY <1>1, <1>5 DEF PendingOK, OneEach, RecordOK
<1> QED  BY <1>3, <1>6, <1>7, <1>8, <1>9, <1>10, <1>11 DEF Inv

LEMMA TellKeeps == ASSUME Inv, NEW g \in Groups, Tell(g) PROVE Inv'
<1> DEFINE those == {t \in pending : turns[t].job \in g}
<1>1. /\ TypeOK /\ TurnsOK /\ DrainOK /\ RecordOK /\ Accounted /\ PendingOK /\ NoticesOK
      /\ stage = "telling" /\ pending' = pending \ those
      /\ turns' = [t \in DOMAIN turns |->
                     IF t \in those THEN [turns[t] EXCEPT !.told = run] ELSE turns[t]]
      /\ notices' = notices \/ notices' = Append(notices, [turns |-> those, acted |-> "no"])
      /\ UNCHANGED <<attention, record, run, stage, loops, drain, late>>
  BY DEF Inv, Tell
<1>2. those \subseteq pending /\ those \subseteq DOMAIN turns  BY <1>1 DEF TypeOK
<1> HIDE DEF those
<1>3. run \in Nat /\ run >= 1 /\ run \in 0..MaxRuns  BY <1>1, Runs
<1>4. ASSUME NEW t \in DOMAIN turns
      PROVE  /\ turns'[t] \in Turn /\ turns'[t].job = turns[t].job /\ turns'[t].from = turns[t].from
             /\ turns'[t].status = turns[t].status /\ turns'[t].endOf = turns[t].endOf
             /\ turns'[t].told = IF t \in those THEN run ELSE turns[t].told
  <2>1. turns[t] \in Turn  BY <1>1, Turns
  <2>2. turns'[t] = IF t \in those THEN [turns[t] EXCEPT !.told = run] ELSE turns[t]  BY <1>1
  <2> QED  BY <1>3, <2>1, <2>2 DEF Turn
<1>5. Rewrites
  <2>1. turns' = [t \in DOMAIN turns |-> turns'[t]]  BY <1>1
  <2> QED  BY <1>4, <2>1 DEF Rewrites
<1>6. /\ GoesOnOnce' /\ turns' \in Seq(Turn) /\ Len(turns') = Len(turns)
      /\ DOMAIN turns' = DOMAIN turns /\ Len(turns') <= MaxTurns
      /\ Live' \subseteq Live
      /\ \A ts \in SUBSET DOMAIN turns :
            OneEach(ts) => \A s, t \in ts : turns'[s].job = turns'[t].job => s = t
  BY <1>1, <1>5, RewrittenParts
<1>7. notices' \in Seq(Notice) /\ NoticesOK'
  <2>1. NoticesOK' \/ notices' # notices  BY <1>5, RewrittenParts
  <2>2. CASE notices' = notices  BY <1>1, <2>1, <2>2 DEF TypeOK
  <2>3. CASE notices' = Append(notices, [turns |-> those, acted |-> "no"])
    <3> DEFINE new == [turns |-> those, acted |-> "no"]
    <3>1. new \in Notice /\ new.turns = those
      <4>1. those \subseteq Times  BY <1>1, <1>2, Turns
      <4> QED  BY <4>1 DEF Notice
    <3>2. notices \in Seq(Notice)  BY <1>1 DEF TypeOK
    <3> HIDE DEF new
    <3>3. notices' = Append(notices, new)  BY <2>3 DEF new
    <3>4. /\ notices' \in Seq(Notice) /\ Len(notices') = Len(notices) + 1 /\ Len(notices) \in Nat
          /\ \A n \in 1..Len(notices) : notices'[n] = notices[n]
          /\ notices'[Len(notices) + 1] = new
          /\ DOMAIN notices = 1..Len(notices) /\ DOMAIN notices' = 1..(Len(notices) + 1)
      BY <3>1, <3>2, <3>3, AppendProperties, LenProperties
    <3>5. OneEach(those)  BY <1>1, <1>2 DEF PendingOK, OneEach
    <3>6. ASSUME NEW n \in DOMAIN notices'
          PROVE  notices'[n].turns \in SUBSET DOMAIN turns /\ OneEach(notices'[n].turns)
                 => /\ notices'[n].turns \subseteq DOMAIN turns'
                    /\ \A s, t \in notices'[n].turns : turns'[s].job = turns'[t].job => s = t
      BY <1>6
    <3>7. ASSUME NEW n \in DOMAIN notices'
          PROVE  notices'[n].turns \in SUBSET DOMAIN turns /\ \A s, t \in notices'[n].turns : turns[s].job = turns[t].job => s = t
      <4>1. CASE n = Len(notices) + 1  BY <1>2, <3>1, <3>4, <3>5, <4>1 DEF OneEach
      <4>2. CASE n # Len(notices) + 1
        <5>1. n \in 1..Len(notices)  BY <3>4, <4>2
        <5> QED  BY <1>1, <3>4, <5>1 DEF NoticesOK, OneEach
      <4> QED  BY <4>1, <4>2
    <3>8. NoticesOK'  BY <3>6, <3>7 DEF NoticesOK, OneEach
    <3> QED  BY <3>4, <3>8
  <2> QED  BY <1>1, <2>2, <2>3
<1>8. TypeOK'  BY <1>1, <1>6, <1>7 DEF TypeOK
<1>9. TurnsOK'
  <2> SUFFICES ASSUME NEW t \in DOMAIN turns PROVE TurnOK(t)'
    BY <1>6 DEF TurnsOK
  <2>1. TurnOK(t)  BY <1>1 DEF TurnsOK
  <2>2. CASE t \in those
    <3>1. turns[t].status = "interrupted" /\ turns[t].endOf = run - 1  BY <1>1, <1>2, <2>2 DEF PendingOK
    <3>2. turns'[t].status = "interrupted" /\ turns'[t].endOf = run - 1 /\ turns'[t].told = run
      BY <1>4, <2>2, <3>1
    <3>3. run - 1 <= run /\ run <= run /\ run - 1 < run  BY <1>3
    <3> QED  BY <1>1, <3>2, <3>3 DEF TurnOK
  <2>3. CASE t \notin those  BY <1>1, <1>4, <2>1, <2>3 DEF TurnOK
  <2> QED  BY <2>2, <2>3
<1>10. DrainOK'  BY <1>1, <1>6 DEF DrainOK, Running
<1>11. RecordOK'
  <2>1. record = NoRecord  BY <1>1 DEF RecordOK, DrainOK, Running
  <2>2. record.at <= Len(turns) /\ record.turns = {} /\ (Len(turns) = record.at => Live = {})
    BY <1>1, <2>1, NoRecordOK
  <2> QED  BY <1>1, <1>6, <2>1, <2>2 DEF RecordOK, OneEach
<1>12. Accounted'
  <2>1. ASSUME NEW t \in DOMAIN turns, turns'[t].status = "interrupted", ~Continued(t)
        PROVE  /\ turns'[t].endOf # run
               /\ run - 1 \notin late /\ run > 1 /\ turns'[t].endOf = run - 1 =>
                    t \in pending' \/ turns'[t].told = run
    <3>1. turns'[t].endOf # run  BY <1>1, <1>4, EndedBefore
    <3>2. run - 1 \notin late /\ run > 1 /\ turns[t].endOf = run - 1 => t \in pending \/ turns[t].told = run
      BY <1>1, <1>4, <2>1, AccountedTurn
    <3> QED  BY <1>1, <1>4, <3>1, <3>2
  <2> QED  BY <1>1, <1>5, <2>1, AccountedNext
<1>13. PendingOK'
  <2>1. pending' \subseteq pending /\ pending \subseteq DOMAIN turns  BY <1>1 DEF TypeOK
  <2> QED  BY <1>1, <1>4, <2>1 DEF PendingOK, OneEach
<1> QED  BY <1>6, <1>7, <1>8, <1>9, <1>10, <1>11, <1>12, <1>13 DEF Inv

LEMMA UpKeeps == ASSUME Inv, Up PROVE Inv'
<1>1. /\ TypeOK /\ TurnsOK /\ DrainOK /\ RecordOK /\ Accounted /\ stage = "telling" /\ pending = {}
      /\ stage' = "up"
      /\ UNCHANGED <<turns, attention, record, notices, run, loops, drain, pending, late>>
  BY DEF Inv, Up
<1>2. Rewrites /\ Live' = Live  BY <1>1, SameTurns
<1>3. GoesOnOnce' /\ NoticesOK'  BY <1>1, <1>2, RewrittenParts
<1>4. TypeOK'  BY <1>1, <1>2 DEF TypeOK, Stages
<1>5. TurnsOK'  BY <1>1 DEF TurnsOK, TurnOK
<1>6. DrainOK'  BY <1>1, <1>2 DEF DrainOK, Running
<1>7. RecordOK'  BY <1>1, <1>2 DEF RecordOK, OneEach
<1>8. Accounted'
  <2>1. ASSUME NEW t \in DOMAIN turns, turns[t].status = "interrupted", ~Continued(t)
        PROVE  /\ turns[t].endOf # run
               /\ run - 1 \notin late /\ run > 1 /\ turns[t].endOf = run - 1 => turns[t].told = run
    BY <1>1, <2>1, AccountedTurn, EndedBefore
  <2> QED  BY <1>1, <1>2, <2>1, AccountedNext
<1>9. PendingOK'  BY <1>1 DEF PendingOK, OneEach
<1> QED  BY <1>3, <1>4, <1>5, <1>6, <1>7, <1>8, <1>9 DEF Inv

LEMMA CancelKeeps == ASSUME Inv, Cancel PROVE Inv'
<1>1. /\ TypeOK /\ TurnsOK /\ DrainOK /\ RecordOK /\ Accounted /\ stage = "up" /\ drain.phase # "running"
      /\ record' = Forgotten /\ drain' = Running
      /\ turns' = [t \in DOMAIN turns |->
                     IF turns[t].endOf = run THEN [turns[t] EXCEPT !.endOf = 0] ELSE turns[t]]
      /\ UNCHANGED <<attention, notices, run, stage, loops, pending, late>>
  BY DEF Inv, Cancel
<1>2. run \in Nat /\ run >= 1 /\ MaxRuns \in Nat  BY <1>1, Runs
<1>3. ASSUME NEW t \in DOMAIN turns
      PROVE  /\ turns'[t] \in Turn /\ turns'[t].job = turns[t].job /\ turns'[t].from = turns[t].from
             /\ turns'[t].status = turns[t].status /\ turns'[t].told = turns[t].told
             /\ turns'[t].endOf = IF turns[t].endOf = run THEN 0 ELSE turns[t].endOf
  <2>1. turns[t] \in Turn  BY <1>1, Turns
  <2>2. turns'[t] = IF turns[t].endOf = run THEN [turns[t] EXCEPT !.endOf = 0] ELSE turns[t]  BY <1>1
  <2>3. 0 \in 0..MaxRuns  BY <1>2
  <2> QED  BY <2>1, <2>2, <2>3 DEF Turn
<1>4. Rewrites
  <2>1. turns' = [t \in DOMAIN turns |-> turns'[t]]  BY <1>1
  <2> QED  BY <1>3, <2>1 DEF Rewrites
<1>5. /\ GoesOnOnce' /\ NoticesOK' /\ turns' \in Seq(Turn) /\ Len(turns') = Len(turns)
      /\ DOMAIN turns' = DOMAIN turns /\ Len(turns') <= MaxTurns /\ Live' \subseteq Live
  BY <1>1, <1>4, RewrittenParts
<1>6. /\ record' \in [run : 0..MaxRuns, at : Times, turns : SUBSET DOMAIN turns]
      /\ record'.at <= Len(turns) /\ record'.turns = {} /\ (Len(turns) = record'.at => Live = {})
      /\ record' = NoRecord
  <2>1. record' = NoRecord  BY <1>1 DEF Forgotten, RecordOK
  <2> QED  BY <1>1, <2>1, NoRecordOK
<1>7. TypeOK'
  <2>1. drain' \in Drains  BY <1>1 DEF Drains, Running
  <2> QED  BY <1>1, <1>5, <1>6, <2>1 DEF TypeOK, Drains
<1>8. ASSUME NEW t \in DOMAIN turns
      PROVE  turns'[t].endOf < run /\ turns'[t].endOf <= run /\ turns'[t].endOf \in Nat
  <2>1. turns[t].endOf \in Nat /\ turns[t].endOf <= run  BY <1>1, Turns, ATurn DEF TurnsOK, TurnOK
  <2> QED  BY <1>2, <1>3, <2>1
<1>9. TurnsOK'
  <2> SUFFICES ASSUME NEW t \in DOMAIN turns PROVE TurnOK(t)'
    BY <1>5 DEF TurnsOK
  <2>1. TurnOK(t)  BY <1>1 DEF TurnsOK
  <2>2. turns[t].told # 0 => turns'[t].endOf = turns[t].told - 1
    <3>1. turns[t].told \in Nat /\ turns[t].endOf \in Nat  BY <1>1, Turns, ATurn
    <3>2. turns[t].told # 0 => turns[t].endOf = turns[t].told - 1 /\ turns[t].told <= run  BY <2>1 DEF TurnOK
    <3> QED  BY <1>2, <1>3, <3>1, <3>2
  <2>3. turns[t].status = "live" => turns'[t].endOf = 0  BY <1>1, <1>3, <2>1 DEF TurnOK
  <2> QED  BY <1>1, <1>3, <1>8, <2>1, <2>2, <2>3 DEF TurnOK
<1>10. DrainOK'
  <2>1. drain' = Running /\ Running.phase = "running" /\ ~Running.forced  BY <1>1 DEF Running
  <2> QED  BY <2>1 DEF DrainOK
<1>11. RecordOK'  BY <1>5, <1>6 DEF RecordOK, OneEach
<1>12. Accounted'
  <2>1. ASSUME NEW t \in DOMAIN turns, turns'[t].status = "interrupted", ~Continued(t)
        PROVE  /\ turns'[t].endOf # run
               /\ run - 1 \notin late /\ run > 1 /\ turns'[t].endOf = run - 1 => turns'[t].told = run
    <3>1. turns'[t].endOf # run  BY <1>2, <1>8
    <3>2. run > 1 /\ turns'[t].endOf = run - 1 => turns[t].endOf = run - 1  BY <1>2, <1>3
    <3> QED  BY <1>1, <1>3, <2>1, <3>1, <3>2, AccountedTurn
  <2> QED  BY <1>1, <1>4, <2>1, AccountedNext
<1>13. PendingOK'  BY <1>1, NonePending DEF PendingOK, OneEach
<1> QED  BY <1>5, <1>7, <1>9, <1>10, <1>11, <1>12, <1>13 DEF Inv

LEMMA LeaveKeeps == ASSUME Inv, NEW n \in DOMAIN notices, Leave(n) PROVE Inv'
<1>1. /\ TypeOK /\ Accounted /\ NoticesOK /\ notices' = [notices EXCEPT ![n].acted = "leave"]
      /\ UNCHANGED <<turns, attention, record, run, stage, loops, drain, pending, late>>
  BY DEF Inv, Leave
<1>2. Rewrites /\ Live' = Live  BY <1>1, SameTurns
<1>3. GoesOnOnce'  BY <1>2, RewrittenParts
<1>4. /\ notices' \in Seq(Notice)
      /\ \A m \in DOMAIN notices' : m \in DOMAIN notices /\ notices'[m].turns = notices[m].turns
  <2>1. notices' = [m \in DOMAIN notices |-> notices'[m]]  BY <1>1
  <2>2. ASSUME NEW m \in DOMAIN notices
        PROVE  notices'[m] = notices[m] \/ notices'[m] = [notices[m] EXCEPT !.acted = "leave"]
    BY <1>1
  <2> QED  BY <2>1, <2>2, AnsweredNotices
<1>5. TypeOK' /\ NoticesOK'
  <2>1. TypeOK'  BY <1>1, <1>2, <1>4 DEF TypeOK
  <2>2. NoticesOK'  BY <1>1, <1>4 DEF NoticesOK, OneEach
  <2> QED  BY <2>1, <2>2
<1>6. TurnsOK'  BY <1>1 DEF Inv, TurnsOK, TurnOK
<1>7. DrainOK'  BY <1>1, <1>2 DEF Inv, DrainOK, Running
<1>8. RecordOK'  BY <1>1, <1>2 DEF Inv, RecordOK, OneEach
<1>9. Accounted'
  <2>1. stage = "closing" /\ run \notin late /\ Live # {} => record.run = run /\ Len(turns) = record.at
    BY <1>1 DEF Accounted, IsOf
  <2> QED  BY <1>1, <1>2, <2>1, AccountedTurn, AccountedNext
<1>10. PendingOK'  BY <1>1 DEF Inv, PendingOK, OneEach
<1> QED  BY <1>3, <1>5, <1>6, <1>7, <1>8, <1>9, <1>10 DEF Inv

-----------------------------------------------------------------------------
(* The theorems. *)

LEMMA InitInv == ASSUME Init PROVE Inv
<1>1. /\ turns = <<>> /\ attention = {} /\ record = NoRecord /\ notices = <<>>
      /\ run = 1 /\ stage = "up" /\ loops = {} /\ drain = Running /\ pending = {} /\ late = {}
  BY DEF Init
<1>2. /\ turns \in Seq(Turn) /\ Len(turns) = 0 /\ DOMAIN turns = {} /\ Live = {}
      /\ notices \in Seq(Notice) /\ DOMAIN notices = {}
  BY <1>1 DEF Live
<1>3. record.run = 0 /\ record.at = 0 /\ record.turns = {}  BY <1>1 DEF NoRecord
<1>4. drain.phase = "running" /\ drain.turns = {} /\ ~drain.forced  BY <1>1 DEF Running
<1>5. MaxTurns \in Nat /\ MaxRuns \in Nat \ {0}  BY RestartAssumption
<1>6. TypeOK
  <2>1. record \in [run : 0..MaxRuns, at : Times, turns : SUBSET DOMAIN turns]
    BY <1>1, <1>2, <1>5 DEF NoRecord, Times
  <2>2. drain \in [phase : {"running", "draining", "drained"}, turns : SUBSET Times, forced : BOOLEAN]
    BY <1>1 DEF Running
  <2> QED  BY <1>1, <1>2, <1>5, <2>1, <2>2 DEF TypeOK, Stages
<1>7. GoesOnOnce /\ TurnsOK /\ NoticesOK /\ PendingOK /\ Accounted
  BY <1>1, <1>2 DEF GoesOnOnce, TurnsOK, NoticesOK, PendingOK, OneEach, Accounted, CutIsTold
<1>8. DrainOK /\ RecordOK  BY <1>1, <1>2, <1>3, <1>4 DEF DrainOK, RecordOK, OneEach
<1> QED  BY <1>6, <1>7, <1>8 DEF Inv

LEMMA UnchangedInv == ASSUME Inv, UNCHANGED vars PROVE Inv'
BY DEF vars, Inv, TypeOK, GoesOnOnce, TurnsOK, TurnOK, DrainOK, RecordOK, Accounted, CutIsTold,
       PendingOK, NoticesOK, OneEach, CutBy, CanContinue, Continued, IsOf, Live

LEMMA NextInv == ASSUME Inv, [Next]_vars PROVE Inv'
<1>1. ASSUME NEW j \in Jobs, Start(j) \/ Supervise(j) PROVE Inv'
  BY <1>1, StartKeeps, SuperviseKeeps
<1>2. ASSUME NEW t \in DOMAIN turns, Complete(t) \/ CutOff(t) \/ Settle(t) \/ ContinueTurn(t) PROVE Inv'
  BY <1>2, CompleteKeeps, CutOffKeeps, SettleKeeps, ContinueTurnKeeps
<1>3. ASSUME Begin \/ Check \/ ForceDrain \/ Cancel PROVE Inv'
  BY <1>3, BeginKeeps, CheckKeeps, ForceDrainKeeps, CancelKeeps
<1>4. ASSUME Quit \/ StopBegin \/ StopEnd \/ Crash PROVE Inv'
  BY <1>4, QuitKeeps, StopBeginKeeps, StopEndKeeps, CrashKeeps
<1>5. ASSUME Boot \/ Recover \/ Take \/ Up PROVE Inv'
  BY <1>5, BootKeeps, RecoverKeeps, TakeKeeps, UpKeeps
<1>6. ASSUME NEW g \in Groups, Tell(g) PROVE Inv'
  BY <1>6, TellKeeps
<1>7. ASSUME NEW n \in DOMAIN notices, Resume(n) \/ Leave(n) PROVE Inv'
  BY <1>7, ResumeKeeps, LeaveKeeps
<1> QED  BY <1>1, <1>2, <1>3, <1>4, <1>5, <1>6, <1>7, UnchangedInv DEF Next

LEMMA InvHolds == Spec => []Inv
<1>1. Init => Inv  BY InitInv
<1>2. Inv /\ [Next]_vars => Inv'  BY NextInv
<1> QED  BY <1>1, <1>2, PTL DEF Spec

\* Every table, the record and what a boot has to tell keep their types: no step of a
\* drain, a stop, a crash or a boot leaves the record of turns there are not, or a row
\* live in a process that is gone.
THEOREM TypesHold == Spec => []TypeOK
<1>1. Inv => TypeOK  BY DEF Inv
<1> QED  BY <1>1, InvHolds, PTL

\* A turn that was cut off is continued once, whoever is quicker: you on its own line
\* (claimInterruptContinue), you on a notice, or the supervisor; and a job has one live
\* turn.
THEOREM ATurnGoesOnOnce == Spec => []GoesOnOnce
<1>1. Inv => GoesOnOnce  BY DEF Inv
<1> QED  BY <1>1, InvHolds, PTL

\* What a boot tells you of (takeTurnsCutByRestart), the end just before it cut off: no
\* older end, and no drain that was forced and then called off.
THEOREM ABootTellsOfTheEndBeforeIt == Spec => []ToldOfItsOwnEnd
<1>1. Inv => ToldOfItsOwnEnd  BY DEF Inv, TurnsOK, TurnOK, ToldOfItsOwnEnd
<1> QED  BY <1>1, InvHolds, PTL

\* A boot that is up has told of every turn the end before it cut off and nothing has
\* continued, whatever that end was made of: a forced drain, a quit, a stop that a crash
\* broke off, and boots that died in their turn (noteTurnsCutByShutdown,
\* recoverInterruptedTurns).  Unless a turn was opened as that run closed.
THEOREM NoneIsLost == Spec => []CutIsTold
<1>1. Inv => CutIsTold  BY DEF Inv, Accounted
<1> QED  BY <1>1, InvHolds, PTL

\* A drain says drained (Quiesce) only of a daemon with no live turn and no task of one
\* that has not settled, and nothing is let in after.
THEOREM DrainedMeansQuiet == Spec => []DrainedIsQuiet
<1>1. Inv => DrainedIsQuiet  BY DEF Inv, DrainOK, DrainedIsQuiet
<1> QED  BY <1>1, InvHolds, PTL
=============================================================================
