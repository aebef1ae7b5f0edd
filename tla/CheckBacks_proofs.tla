--------------------------- MODULE CheckBacks_proofs ---------------------------
(* A Bot's appointments with itself, for every set of jobs, every limit and any  *)
(* number of bookings, stops, lines, removals and crashes: type correctness, that *)
(* one stands on a job, that stops and rows agree, that no reminder rings twice,  *)
(* and the three ways in which one may be spent on nobody.                        *)
EXTENDS CheckBacks, SequenceTheorems, FiniteSetTheorems, WellFoundedInduction, TLAPS

-----------------------------------------------------------------------------
(* The inductive invariant. *)

\* What its stop, its segment and its history say of one row: cov, a stop covers its
\*job; works, a segment works it.
RowOK(row, cov, works) ==
    /\ row.mail = "heard" \/ row.here => works
    /\ row.here => row.mail = "read"
    /\ row.at = "aside" \/ row.mail = "held" => cov
    /\ row.at = "pending" \/ row.mail \in {"heard", "queued"} => ~cov
    /\ ~row.given => /\ row.reads <= 1
                     /\ row.reads = 1 => row.mail = "read"
                     /\ row.at \in {"pending", "aside"} => row.mail = "none"
RowsInv == \A r \in DOMAIN rows : RowOK(rows[r], Covered(rows[r].job), rows[r].job \in seg)
LeftIsItsJobs == \A j \in Jobs : left[j] \subseteq Of(j)

Inv == TypeOK /\ OneStands /\ RowsInv /\ LeftIsItsJobs /\ IsFiniteSet(seg)

-----------------------------------------------------------------------------
(* Rows. *)

\* The newest of some rows.
LEMMA Newest ==
    ASSUME NEW n \in Nat, NEW S \in SUBSET (1..n), S # {}
    PROVE  Max(S) \in S
<1> DEFINE below == {n - s : s \in S}
           less == OpToRel(<, Nat)
<1>1. below \subseteq Nat /\ below # {}
  <2>1. \A s \in S : s \in 1..n /\ n - s \in Nat  OBVIOUS
  <2>2. PICK s \in S : TRUE  OBVIOUS
  <2>3. n - s \in below  BY <2>2
  <2> QED  BY <2>1, <2>3
<1>2. PICK x \in below : \A y \in below : ~ (<<y, x>> \in less)
  <2>1. IsWellFoundedOn(less, Nat)  BY NatLessThanWellFounded
  <2> HIDE DEF below, less
  <2> QED  BY <1>1, <2>1, WFMin
<1>3. ASSUME NEW y \in below PROVE x <= y
  <2>1. x \in Nat /\ y \in Nat  BY <1>1, <1>2, <1>3
  <2>2. ~ (y < x)  BY <1>2, <1>3, <2>1 DEF OpToRel
  <2> QED  BY <2>1, <2>2
<1>4. PICK s \in S : x = n - s  OBVIOUS
<1>5. \A u \in S : s >= u
  <2> TAKE u \in S
  <2>1. x <= n - u  BY <1>3
  <2> QED  BY <1>4, <2>1
<1> QED  BY <1>5 DEF Max

LEMMA SeqOfRows ==
    ASSUME NEW S, NEW n \in Nat, NEW g \in [1..n -> S]
    PROVE  g \in Seq(S) /\ Len(g) = n /\ DOMAIN g = 1..n
<1>1. g \in Seq(S)  BY SeqDef
<1>2. Len(g) \in Nat /\ DOMAIN g = 1..Len(g)  BY <1>1, LenProperties
<1>3. 1..Len(g) = 1..n  BY <1>2
<1>4. Len(g) = n  BY <1>2, <1>3
<1> QED  BY <1>1, <1>4

LEMMA Rows ==
    ASSUME TypeOK
    PROVE  /\ Len(rows) \in Nat /\ DOMAIN rows = 1..Len(rows) /\ Len(rows) <= MaxRows /\ MaxRows \in Nat
           /\ \A r \in DOMAIN rows : rows[r] \in Row
BY LenProperties, ElementOfSeq, CheckBacksAssumption DEF TypeOK

\* What a step may do to a row that stays a row of its job.
RowStep(r) ==
    /\ rows'[r] \in Row /\ rows'[r].job = rows[r].job
    /\ RowOK(rows'[r], \E s \in stops' : rows[r].job \in s, rows[r].job \in seg')
RowsStep ==
    /\ rows' = [r \in DOMAIN rows |-> rows'[r]]
    /\ \A r \in DOMAIN rows : RowStep(r)
\* No row stands that did not.
StandsAsBefore ==
    \A r \in DOMAIN rows : rows'[r].at \in {"pending", "aside"} => rows[r].at \in {"pending", "aside"}

LEMMA RowsKept ==
    ASSUME TypeOK, RowsStep
    PROVE  /\ rows' \in Seq(Row) /\ Len(rows') = Len(rows) /\ DOMAIN rows' = DOMAIN rows
           /\ RowsInv' /\ \A r \in DOMAIN rows : rows'[r].job = rows[r].job
<1>1. Len(rows) \in Nat /\ DOMAIN rows = 1..Len(rows)  BY Rows
<1>2. rows' \in [1..Len(rows) -> Row]  BY <1>1 DEF RowsStep, RowStep
<1>3. rows' \in Seq(Row) /\ Len(rows') = Len(rows) /\ DOMAIN rows' = DOMAIN rows
  BY <1>1, <1>2, SeqOfRows
<1>4. RowsInv'  BY <1>3 DEF RowsInv, Covered, RowsStep, RowStep
<1> QED  BY <1>3, <1>4 DEF RowsStep, RowStep

LEMMA StillOneStands ==
    ASSUME TypeOK, OneStands, RowsStep, StandsAsBefore
    PROVE  OneStands'
<1>1. DOMAIN rows' = DOMAIN rows /\ \A r \in DOMAIN rows : rows'[r].job = rows[r].job  BY RowsKept
<1> SUFFICES ASSUME NEW j \in Jobs, NEW q \in DOMAIN rows', NEW r \in DOMAIN rows',
                    rows'[q].job = j, rows'[r].job = j,
                    rows'[q].at \in {"pending", "aside"}, rows'[r].at \in {"pending", "aside"}
             PROVE  q = r
  BY DEF OneStands, Of, Standing
<1> QED  BY <1>1 DEF OneStands, Of, Standing, StandsAsBefore

\* What is left to show of a step that rewrites rows.
SegOK ==
    /\ seg' \subseteq Jobs /\ IsFiniteSet(seg') /\ Cardinality(seg') <= Limit
    /\ \A j \in seg' : ~ \E s \in stops' : j \in s
OthersOK ==
    /\ cut' \subseteq seg' /\ away' \subseteq Jobs /\ ending' \subseteq Jobs /\ stops' \subseteq Scopes
    /\ used' \in [stops : 0..MaxStops, lines : 0..MaxLines, leaves : 0..MaxLeaves, crashes : 0..MaxCrashes]
    /\ left' \in [Jobs -> SUBSET (1..MaxRows)]
    /\ \A j \in Jobs : \A r \in left'[j] : r \in DOMAIN rows /\ rows[r].job = j

LEMMA InvKept ==
    ASSUME Inv, RowsStep, OneStands', SegOK, OthersOK
    PROVE  Inv'
<1>1. /\ rows' \in Seq(Row) /\ Len(rows') = Len(rows) /\ DOMAIN rows' = DOMAIN rows
      /\ RowsInv' /\ \A r \in DOMAIN rows : rows'[r].job = rows[r].job
  BY RowsKept DEF Inv
<1>2. TypeOK'
  <2>1. \A r \in DOMAIN rows' : rows'[r].mail = "heard" \/ rows'[r].here => rows'[r].job \in seg'
    BY <1>1 DEF RowsInv, RowOK
  <2>2. Len(rows') <= MaxRows  BY <1>1 DEF Inv, TypeOK
  <2> QED  BY <1>1, <2>1, <2>2 DEF TypeOK, SegOK, OthersOK, Covered
<1>3. LeftIsItsJobs'  BY <1>1 DEF LeftIsItsJobs, Of, OthersOK
<1> QED  BY <1>1, <1>2, <1>3 DEF Inv, SegOK

\* A row of the table, with what the invariant says of it.
LEMMA ARow ==
    ASSUME Inv, NEW r \in DOMAIN rows
    PROVE  /\ rows[r] \in Row /\ rows[r].job \in Jobs
           /\ \E cov, works \in BOOLEAN :
                /\ cov <=> \E s \in stops : rows[r].job \in s
                /\ works <=> rows[r].job \in seg
                /\ RowOK(rows[r], cov, works)
<1>1. rows[r] \in Row /\ rows[r].job \in Jobs  BY Rows DEF Inv, Row
<1>2. PICK cov, works \in BOOLEAN :
        /\ cov <=> \E s \in stops : rows[r].job \in s
        /\ works <=> rows[r].job \in seg
  OBVIOUS
<1>3. RowOK(rows[r], cov, works)  BY <1>2 DEF Inv, RowsInv, RowOK, Covered
<1> QED  BY <1>1, <1>2, <1>3

LEMMA OthersSame ==
    ASSUME Inv, UNCHANGED <<cut, away, ending, left, stops, used>>, seg \subseteq seg'
    PROVE  OthersOK
BY DEF Inv, TypeOK, LeftIsItsJobs, Of, OthersOK

LEMMA SegSame ==
    ASSUME Inv, UNCHANGED <<seg, stops>>
    PROVE  SegOK
BY DEF Inv, TypeOK, SegOK, Covered

LEMMA SegOneMore ==
    ASSUME Inv, NEW j \in Jobs, ~Full, ~Covered(j), seg' = seg \cup {j}, stops' = stops
    PROVE  SegOK
<1>1. IsFiniteSet(seg) /\ Cardinality(seg) \in Nat  BY FS_CardinalityType DEF Inv
<1>2. /\ IsFiniteSet(seg') /\ Cardinality(seg) < Limit /\ Limit \in Nat
      /\ Cardinality(seg') = (IF j \in seg THEN Cardinality(seg) ELSE Cardinality(seg) + 1)
  BY <1>1, FS_AddElement, CheckBacksAssumption DEF Full
<1>3. Cardinality(seg') <= Limit  BY <1>1, <1>2
<1> QED  BY <1>2, <1>3 DEF Inv, TypeOK, SegOK, Covered

LEMMA SegFewer ==
    ASSUME Inv, seg' \subseteq seg, \A j \in seg' : ~ \E s \in stops' : j \in s
    PROVE  SegOK
<1>1. IsFiniteSet(seg') /\ Cardinality(seg') <= Cardinality(seg)
  BY FS_Subset DEF Inv
<1>2. Cardinality(seg') \in Nat /\ Cardinality(seg) \in Nat /\ Limit \in Nat
  BY <1>1, FS_CardinalityType, CheckBacksAssumption DEF Inv
<1>3. Cardinality(seg') <= Limit  BY <1>1, <1>2 DEF Inv, TypeOK
<1> QED  BY <1>1, <1>3 DEF Inv, TypeOK, SegOK

-----------------------------------------------------------------------------
(* One row, read, released, heard and fired. *)

LEMMA ReadRowIs ==
    ASSUME NEW row \in Row, ~row.here
    PROVE  LET read == ReadRow(row)
           IN  /\ read \in Row /\ read.job = row.job /\ read.at = row.at /\ read.given = row.given
               /\ read.mail = "read" /\ read.here /\ (row.reads = 0 => read.reads = 1)
<1>1. PICK reads \in 0..2 : reads = (IF row.reads = 2 THEN 2 ELSE row.reads + 1)
  BY DEF Row
<1>2. ReadRow(row) = [row EXCEPT !.mail = "read", !.here = TRUE, !.reads = reads]
  BY <1>1 DEF ReadRow
<1>3. row.reads = 0 => reads = 1  BY <1>1
<1> QED  BY <1>2, <1>3 DEF Row, Mail

LEMMA ReadRowOK ==
    ASSUME NEW row \in Row, NEW cov \in BOOLEAN, NEW works \in BOOLEAN,
           RowOK(row, cov, works), ~cov, row.mail \in {"heard", "queued", "held"}
    PROVE  /\ ReadRow(row) \in Row /\ ReadRow(row).job = row.job /\ ReadRow(row).at = row.at
           /\ RowOK(ReadRow(row), cov, TRUE)
<1>1. ~row.here  BY DEF RowOK
<1> DEFINE read == ReadRow(row)
<1>2. /\ read \in Row /\ read.job = row.job /\ read.at = row.at /\ read.given = row.given
      /\ read.mail = "read" /\ read.here /\ (row.reads = 0 => read.reads = 1)
  BY <1>1, ReadRowIs
<1>3. row.reads \in 0..2  BY DEF Row
<1>4. ~row.given => row.reads = 0  BY <1>3 DEF RowOK
<1> HIDE DEF read
<1>5. RowOK(read, cov, TRUE)  BY <1>2, <1>4 DEF RowOK
<1> QED  BY <1>2, <1>5 DEF read

\* Fired, it opens a segment that reads it.
LEMMA FiredRowOK ==
    ASSUME NEW row \in Row, NEW cov \in BOOLEAN,
           RowOK(row, cov, FALSE), ~cov, row.at = "pending"
    PROVE  LET fired == [ReadRow(row) EXCEPT !.at = "fired"]
           IN  /\ fired \in Row /\ fired.job = row.job /\ fired.at = "fired"
               /\ RowOK(fired, cov, TRUE)
<1>1. ~row.here  BY DEF RowOK
<1> DEFINE read == ReadRow(row)
           fired == [read EXCEPT !.at = "fired"]
<1>2. /\ read \in Row /\ read.job = row.job /\ read.given = row.given
      /\ read.mail = "read" /\ read.here /\ (row.reads = 0 => read.reads = 1)
  BY <1>1, ReadRowIs
<1>3. row.reads \in 0..2  BY DEF Row
<1>4. ~row.given => row.reads = 0  BY <1>3 DEF RowOK
<1> HIDE DEF read
<1>5. /\ fired \in Row /\ fired.job = row.job /\ fired.given = row.given /\ fired.at = "fired"
      /\ fired.mail = "read" /\ fired.here /\ fired.reads = read.reads
  BY <1>2 DEF Row
<1> HIDE DEF fired
<1>6. RowOK(fired, cov, TRUE)  BY <1>2, <1>4, <1>5 DEF RowOK
<1> QED  BY <1>5, <1>6 DEF fired, read

\* In the inbox of the segment at work.
LEMMA HeardRowOK ==
    ASSUME NEW row \in Row, NEW cov \in BOOLEAN,
           RowOK(row, cov, TRUE), ~cov, row.at = "pending"
    PROVE  LET heard == HeardBySegment(row)
           IN  /\ heard \in Row /\ heard.job = row.job /\ heard.at = "fired"
               /\ RowOK(heard, cov, TRUE)
<1> DEFINE mail == IF row.here THEN row.mail ELSE "heard"
           heard == HeardBySegment(row)
<1>1. mail \in Mail /\ mail # "none" /\ (row.here => mail = "read") /\ mail \in {"heard", "read"}
  BY DEF Row, RowOK, Mail
<1>2. heard = [row EXCEPT !.at = "fired", !.mail = mail]  BY DEF HeardBySegment
<1> HIDE DEF mail, heard
<1>3. /\ heard \in Row /\ heard.job = row.job /\ heard.given = row.given /\ heard.at = "fired"
      /\ heard.mail = mail /\ heard.here = row.here /\ heard.reads = row.reads
  BY <1>1, <1>2 DEF Row
<1>4. ~row.given => row.mail = "none" /\ row.reads # 1 /\ row.reads <= 1  BY DEF RowOK
<1>5. RowOK(heard, cov, TRUE)  BY <1>1, <1>3, <1>4 DEF RowOK
<1> QED  BY <1>3, <1>5 DEF heard

\* In line, when the Bot is at its limit.
LEMMA QueuedRowOK ==
    ASSUME NEW row \in Row, NEW cov \in BOOLEAN, RowOK(row, cov, FALSE), ~cov,
           row.at = "pending", NEW queued, queued \in QueuedFor(row)
    PROVE  /\ queued \in Row /\ queued.job = row.job /\ queued.at = "fired"
           /\ RowOK(queued, cov, FALSE)
<1>1. row.mail \in Mail  BY DEF Row
<1>2. PICK mail \in Mail : /\ queued = [row EXCEPT !.at = "fired", !.mail = mail]
                           /\ row.mail = "none" => mail = "queued"
                           /\ row.mail # "none" => mail # "none"
                           /\ mail # row.mail => mail = "queued"
  BY <1>1 DEF QueuedFor, Mail
<1>3. queued \in Row  BY <1>2 DEF Row
<1>4. ~row.here /\ (~row.given => row.mail = "none" /\ row.reads = 0)  BY DEF RowOK, Row
<1> QED  BY <1>2, <1>3, <1>4 DEF RowOK, Row

\* Its segment is over; the stops and the deaths of the process may be more.
LEMMA ReleasedRowOK ==
    ASSUME NEW row \in Row, NEW cov \in BOOLEAN, NEW works \in BOOLEAN,
           RowOK(row, cov, works)
    PROVE  /\ Released(row) \in Row /\ Released(row).job = row.job /\ Released(row).at = row.at
           /\ RowOK(Released(row), cov, FALSE)
<1>1. PICK mail \in Mail : /\ mail = (IF row.mail = "heard" THEN "queued" ELSE row.mail)
                           /\ Released(row) = [row EXCEPT !.mail = mail, !.here = FALSE]
  BY DEF Released, Row, Mail
<1>2. Released(row) \in Row  BY <1>1 DEF Row
<1> QED  BY <1>1, <1>2 DEF RowOK, Row

\* The row itself, where what its job is at has not changed for it.
LEMMA SameRow ==
    ASSUME Inv, NEW r \in DOMAIN rows, rows'[r] = rows[r], stops' = stops,
           rows[r].job \in seg => rows[r].job \in seg'
    PROVE  RowStep(r) /\ rows'[r].at = rows[r].at
<1>1. PICK cov, works \in BOOLEAN :
        /\ cov <=> \E s \in stops : rows[r].job \in s
        /\ works <=> rows[r].job \in seg
        /\ RowOK(rows[r], cov, works)
  BY ARow
<1>2. rows[r] \in Row  BY ARow
<1> QED  BY <1>1, <1>2 DEF RowStep, RowOK

-----------------------------------------------------------------------------
(* Segments. *)

LEMMA YourLineKeeps == ASSUME Inv, NEW j \in Jobs, YourLine(j) PROVE Inv'
<1>1. SegOK  BY SegOneMore DEF YourLine
<1>2. OthersOK
  <2>1. used.lines + 1 \in 0..MaxLines
    <3>1. used.lines < MaxLines  BY DEF YourLine
    <3>2. used.lines \in 0..MaxLines /\ MaxLines \in Nat  BY CheckBacksAssumption DEF Inv, TypeOK
    <3> QED  BY <3>1, <3>2
  <2> QED  BY <2>1 DEF YourLine, OthersOK, Inv, TypeOK, LeftIsItsJobs, Of
<1>3. \A r \in DOMAIN rows : RowStep(r) /\ rows'[r].at = rows[r].at
  BY SameRow DEF YourLine, Inv, TypeOK
<1>4. RowsStep /\ StandsAsBefore
  <2>1. rows = [r \in DOMAIN rows |-> rows[r]]  BY Rows, LenProperties DEF Inv, TypeOK
  <2> QED  BY <1>3, <2>1 DEF YourLine, RowsStep, StandsAsBefore
<1>5. OneStands'  BY <1>4, StillOneStands DEF Inv
<1> QED  BY <1>1, <1>2, <1>4, <1>5, InvKept

LEMMA ReadKeeps == ASSUME Inv, NEW j \in Jobs, Read(j) PROVE Inv'
<1> DEFINE inLine == {r \in Of(j) : rows[r].mail \in {"heard", "queued"}}
<1>1. SegOK /\ OthersOK  BY SegSame, OthersSame DEF Read
<1>2. rows' = [r \in DOMAIN rows |-> IF r \in inLine THEN ReadRow(rows[r]) ELSE rows[r]]
  BY DEF Read
<1>3. ASSUME NEW r \in DOMAIN rows PROVE RowStep(r) /\ rows'[r].at = rows[r].at
  <2>1. CASE r \notin inLine  BY <1>2, <2>1, SameRow DEF Read
  <2>2. CASE r \in inLine
    <3>1. rows'[r] = ReadRow(rows[r]) /\ rows[r].job = j /\ rows[r].mail \in {"heard", "queued"}
      BY <1>2, <2>2 DEF Of
    <3>2. j \in seg /\ ~ \E s \in stops : j \in s  BY DEF Read, Hears, Inv, TypeOK, Covered
    <3>3. PICK cov, works \in BOOLEAN :
            /\ cov <=> \E s \in stops : rows[r].job \in s
            /\ works <=> rows[r].job \in seg
            /\ RowOK(rows[r], cov, works)
      BY ARow
    <3>4. rows'[r] \in Row /\ rows'[r].job = rows[r].job /\ rows'[r].at = rows[r].at
          /\ RowOK(rows'[r], cov, TRUE)
      <4> DEFINE row == rows[r]
      <4>1. row \in Row /\ ~cov /\ row.mail \in {"heard", "queued", "held"} /\ RowOK(row, cov, works)
        BY <3>1, <3>2, <3>3, ARow
      <4> HIDE DEF row
      <4>2. /\ ReadRow(row) \in Row /\ ReadRow(row).job = row.job /\ ReadRow(row).at = row.at
            /\ RowOK(ReadRow(row), cov, TRUE)
        BY <4>1, ReadRowOK
      <4> QED  BY <3>1, <4>2 DEF row
    <3> QED  BY <3>1, <3>2, <3>3, <3>4 DEF Read, RowStep, RowOK
  <2> QED  BY <2>1, <2>2
<1>4. RowsStep /\ StandsAsBefore  BY <1>2, <1>3 DEF RowsStep, StandsAsBefore
<1>5. OneStands'  BY <1>4, StillOneStands DEF Inv
<1> QED  BY <1>1, <1>4, <1>5, InvKept

\* A segment's row is over, and what it had not read is in line.
LEMMA ReleasedOf ==
    ASSUME Inv, NEW j \in Jobs, seg' = seg \ {j}, stops' = stops,
           rows' = [r \in DOMAIN rows |-> IF r \in Of(j) THEN Released(rows[r]) ELSE rows[r]]
    PROVE  RowsStep /\ OneStands' /\ SegOK
<1>1. SegOK  BY SegFewer DEF Inv, TypeOK, Covered
<1>2. ASSUME NEW r \in DOMAIN rows PROVE RowStep(r) /\ rows'[r].at = rows[r].at
  <2>1. CASE rows[r].job # j  BY <2>1, SameRow DEF Of
  <2>2. CASE rows[r].job = j
    <3>1. rows'[r] = Released(rows[r])  BY <2>2 DEF Of
    <3>2. PICK cov, works \in BOOLEAN :
            /\ cov <=> \E s \in stops : rows[r].job \in s
            /\ works <=> rows[r].job \in seg
            /\ RowOK(rows[r], cov, works)
      BY ARow
    <3>3. rows'[r] \in Row /\ rows'[r].job = rows[r].job /\ rows'[r].at = rows[r].at
          /\ RowOK(rows'[r], cov, FALSE)
      <4>1. rows[r] \in Row  BY ARow
      <4>2. /\ Released(rows[r]) \in Row /\ Released(rows[r]).job = rows[r].job
            /\ Released(rows[r]).at = rows[r].at /\ RowOK(Released(rows[r]), cov, FALSE)
        BY <3>2, <4>1, ReleasedRowOK
      <4> QED  BY <3>1, <4>2
    <3> QED  BY <2>2, <3>2, <3>3 DEF RowStep, RowOK
  <2> QED  BY <2>1, <2>2
<1>3. RowsStep /\ StandsAsBefore  BY <1>2 DEF RowsStep, StandsAsBefore
<1>4. OneStands'  BY <1>3, StillOneStands DEF Inv
<1> QED  BY <1>1, <1>3, <1>4

LEMMA CompletesKeeps == ASSUME Inv, NEW j \in Jobs, Completes(j) PROVE Inv'
<1>1. OthersOK
  <2>1. \A r \in Of(j) : r \in DOMAIN rows /\ rows[r].job = j /\ r \in 1..MaxRows
    BY Rows DEF Of, Inv
  <2>2. left' \in [Jobs -> SUBSET (1..MaxRows)]  BY <2>1 DEF Completes, Inv, TypeOK
  <2>3. \A k \in Jobs : \A r \in left'[k] : r \in DOMAIN rows /\ rows[r].job = k
    BY <2>1 DEF Completes, Inv, TypeOK, LeftIsItsJobs, Of
  <2>4. cut' \subseteq seg'  BY DEF Completes, Hears, Inv, TypeOK
  <2> QED  BY <2>2, <2>3, <2>4 DEF Completes, OthersOK, Inv, TypeOK
<1>2. RowsStep /\ OneStands' /\ SegOK  BY ReleasedOf DEF Completes
<1> QED  BY <1>1, <1>2, InvKept

LEMMA CutOffKeeps == ASSUME Inv, NEW j \in Jobs, CutOff(j) PROVE Inv'
<1>1. OthersOK  BY DEF CutOff, OthersOK, Inv, TypeOK, LeftIsItsJobs, Of
<1>2. RowsStep /\ OneStands' /\ SegOK  BY ReleasedOf DEF CutOff
<1> QED  BY <1>1, <1>2, InvKept

\* Neither the rows nor the segments nor the stops.
LEMMA RowsSame ==
    ASSUME Inv, UNCHANGED <<rows, seg, stops>>
    PROVE  RowsStep /\ OneStands' /\ SegOK
<1>1. \A r \in DOMAIN rows : RowStep(r) /\ rows'[r].at = rows[r].at  BY SameRow
<1>2. rows = [r \in DOMAIN rows |-> rows[r]]  BY LenProperties DEF Inv, TypeOK
<1>3. RowsStep /\ StandsAsBefore  BY <1>1, <1>2 DEF RowsStep, StandsAsBefore
<1> QED  BY <1>3, StillOneStands, SegSame DEF Inv

LEMMA SweepKeeps == ASSUME Inv, NEW j \in Jobs, Sweep(j) PROVE Inv'
<1>1. OthersOK  BY DEF Sweep, Hears, OthersOK, Inv, TypeOK, LeftIsItsJobs, Of
<1>2. RowsStep /\ OneStands' /\ SegOK  BY RowsSame DEF Sweep
<1> QED  BY <1>1, <1>2, InvKept

LEMMA LeaveKeeps == ASSUME Inv, NEW j \in Jobs, Leave(j) PROVE Inv'
<1>1. used.leaves + 1 \in 0..MaxLeaves
  <2>1. used.leaves < MaxLeaves  BY DEF Leave
  <2>2. used.leaves \in 0..MaxLeaves /\ MaxLeaves \in Nat  BY CheckBacksAssumption DEF Inv, TypeOK
  <2> QED  BY <2>1, <2>2
<1>2. OthersOK  BY <1>1 DEF Leave, OthersOK, Inv, TypeOK, LeftIsItsJobs, Of
<1>3. RowsStep /\ OneStands' /\ SegOK  BY RowsSame DEF Leave
<1> QED  BY <1>2, <1>3, InvKept

LEMMA RejoinKeeps == ASSUME Inv, NEW j \in Jobs, Rejoin(j) PROVE Inv'
<1>1. OthersOK  BY DEF Rejoin, OthersOK, Inv, TypeOK, LeftIsItsJobs, Of
<1>2. RowsStep /\ OneStands' /\ SegOK  BY RowsSame DEF Rejoin
<1> QED  BY <1>1, <1>2, InvKept

-----------------------------------------------------------------------------
(* The scheduler, the queue, and the process going down. *)

LEMMA FireKeeps == ASSUME Inv, NEW r \in DOMAIN rows, Fire(r) PROVE Inv'
<1> DEFINE j == rows[r].job
<1>1. PICK cov, works \in BOOLEAN :
        /\ cov <=> \E s \in stops : rows[r].job \in s
        /\ works <=> rows[r].job \in seg
        /\ RowOK(rows[r], cov, works)
  BY ARow
<1>2. rows[r] \in Row /\ j \in Jobs /\ rows[r].at = "pending" /\ ~cov  BY <1>1, ARow DEF Fire, Covered
<1>3. SegOK
  <2>1. CASE seg' = seg  BY <2>1, SegSame DEF Fire
  <2>2. CASE ~Full /\ seg' = seg \cup {j}  BY <1>2, <2>2, SegOneMore DEF Fire
  <2> QED  BY <2>1, <2>2 DEF Fire
<1>4. OthersOK  BY OthersSame DEF Fire
<1>5. /\ rows' = [rows EXCEPT ![r] = rows'[r]]
      /\ rows'[r] \in Row /\ rows'[r].job = j /\ rows'[r].at = "fired"
      /\ \E now \in BOOLEAN : (now <=> j \in seg') /\ RowOK(rows'[r], cov, now)
  <2>0. CASE rows' = [rows EXCEPT ![r].at = "fired"] /\ UNCHANGED seg
    <3>1. rows' = [rows EXCEPT ![r] = rows'[r]] /\ rows'[r] = [rows[r] EXCEPT !.at = "fired"]
      BY <2>0
    <3>2. /\ rows'[r] \in Row /\ rows'[r].job = rows[r].job /\ rows'[r].at = "fired"
          /\ RowOK(rows'[r], cov, works)
      BY <1>1, <1>2, <3>1 DEF Row, RowOK
    <3> QED  BY <1>1, <2>0, <3>1, <3>2
  <2>1. CASE j \in seg /\ rows' = [rows EXCEPT ![r] = HeardBySegment(@)] /\ UNCHANGED seg
    <3>1. rows'[r] = HeardBySegment(rows[r])  BY <2>1
    <3>2. works = TRUE  BY <1>1, <2>1
    <3>3. /\ rows'[r] \in Row /\ rows'[r].job = j /\ rows'[r].at = "fired"
          /\ RowOK(rows'[r], cov, TRUE)
      BY <1>1, <1>2, <3>1, <3>2, HeardRowOK
    <3> QED  BY <2>1, <3>1, <3>3
  <2>2. CASE /\ j \notin seg /\ UNCHANGED seg
             /\ \E row \in QueuedFor(rows[r]) : rows' = [rows EXCEPT ![r] = row]
    <3>1. PICK queued \in QueuedFor(rows[r]) : rows' = [rows EXCEPT ![r] = queued]  BY <2>2
    <3>2. RowOK(rows[r], cov, FALSE)
      <4>1. works = FALSE  BY <1>1, <2>2
      <4> QED  BY <1>1, <4>1
    <3>3. /\ queued \in Row /\ queued.job = j /\ queued.at = "fired"
          /\ RowOK(queued, cov, FALSE)
      <4> DEFINE row == rows[r]
      <4>1. row \in Row /\ row.at = "pending" /\ RowOK(row, cov, FALSE) /\ queued \in QueuedFor(row)
        BY <1>2, <3>1, <3>2
      <4> HIDE DEF row
      <4>2. queued \in Row /\ queued.job = row.job /\ queued.at = "fired" /\ RowOK(queued, cov, FALSE)
        <5>1. ~cov  BY <1>2
        <5> QED  BY <4>1, <5>1, QueuedRowOK
      <4> QED  BY <4>2 DEF row
    <3>4. (FALSE <=> j \in seg') /\ FALSE \in BOOLEAN  BY <2>2
    <3>5. rows'[r] = queued  BY <3>1
    <3> HIDE DEF j
    <3> QED  BY <3>1, <3>3, <3>4, <3>5
  <2>3. CASE /\ j \notin seg /\ seg' = seg \cup {j}
             /\ rows' = [rows EXCEPT ![r] = [ReadRow(@) EXCEPT !.at = "fired"]]
    <3>1. rows'[r] = [ReadRow(rows[r]) EXCEPT !.at = "fired"] /\ rows' = [rows EXCEPT ![r] = rows'[r]]
      BY <2>3
    <3>2. works = FALSE  BY <1>1, <2>3
    <3>3. /\ rows'[r] \in Row /\ rows'[r].job = j /\ rows'[r].at = "fired"
          /\ RowOK(rows'[r], cov, TRUE)
      BY <1>1, <1>2, <3>1, <3>2, FiredRowOK
    <3> QED  BY <2>3, <3>1, <3>3
  <2> QED  BY <2>0, <2>1, <2>2, <2>3 DEF Fire
<1>6. seg \subseteq seg' /\ stops' = stops /\ used' = used  BY DEF Fire
<1>7. ASSUME NEW q \in DOMAIN rows, q # r PROVE RowStep(q) /\ rows'[q].at = rows[q].at
  BY <1>5, <1>6, <1>7, SameRow
<1>8. RowStep(r)  BY <1>1, <1>5, <1>6 DEF RowStep, RowOK
<1>9. RowsStep /\ StandsAsBefore
  <2>1. rows' = [q \in DOMAIN rows |-> rows'[q]]  BY <1>5
  <2> QED  BY <1>2, <1>5, <1>7, <1>8, <2>1 DEF RowsStep, StandsAsBefore
<1>10. OneStands'  BY <1>9, StillOneStands DEF Inv
<1> QED  BY <1>3, <1>4, <1>9, <1>10, InvKept

LEMMA WaitsOnYouKeeps == ASSUME Inv, NEW r \in DOMAIN rows, WaitsOnYou(r) PROVE Inv'
<1>1. SegOK /\ OthersOK  BY SegSame, OthersSame DEF WaitsOnYou
<1>2. rows' = [rows EXCEPT ![r] = rows'[r]] /\ rows'[r] = [rows[r] EXCEPT !.at = "void"]
  BY DEF WaitsOnYou
<1>3. ASSUME NEW q \in DOMAIN rows, q # r PROVE RowStep(q) /\ rows'[q].at = rows[q].at
  BY <1>2, <1>3, SameRow DEF WaitsOnYou
<1>4. RowStep(r) /\ rows'[r].at = "void"
  <2>1. PICK cov, works \in BOOLEAN :
          /\ cov <=> \E s \in stops : rows[r].job \in s
          /\ works <=> rows[r].job \in seg
          /\ RowOK(rows[r], cov, works)
    BY ARow
  <2>2. /\ rows'[r] \in Row /\ rows'[r].job = rows[r].job /\ rows'[r].at = "void"
        /\ RowOK(rows'[r], cov, works)
    BY <1>2, <2>1, ARow DEF Row, RowOK
  <2> QED  BY <2>1, <2>2 DEF WaitsOnYou, RowStep, RowOK
<1>5. RowsStep /\ StandsAsBefore
  <2>1. rows' = [q \in DOMAIN rows |-> rows'[q]]  BY <1>2
  <2> QED  BY <1>3, <1>4, <2>1 DEF RowsStep, StandsAsBefore
<1>6. OneStands'  BY <1>5, StillOneStands DEF Inv
<1> QED  BY <1>1, <1>5, <1>6, InvKept

\* A segment opens on the mail of one row; of the others some are in its hand.
LEMMA OpensOnKeeps ==
    ASSUME Inv, NEW j \in Jobs, NEW r \in Of(j), NEW riding \in SUBSET Of(j),
           ~Full, ~Covered(j), OpensOn(j, r, riding), UNCHANGED <<stops, used>>,
           \A q \in riding \cup {r} : rows[q].mail \in {"heard", "queued", "held"}
    PROVE  SegOK /\ RowsStep /\ StandsAsBefore
<1>1. SegOK  BY SegOneMore DEF OpensOn
<1>2. rows' = [q \in DOMAIN rows |-> CASE q = r -> ReadRow(rows[q])
                                       [] q \in riding \ {r} -> [rows[q] EXCEPT !.mail = "heard"]
                                       [] OTHER -> rows[q]]
      /\ seg' = seg \cup {j}
  BY DEF OpensOn
<1>3. ASSUME NEW q \in DOMAIN rows PROVE RowStep(q) /\ rows'[q].at = rows[q].at
  <2>1. CASE q \notin riding \cup {r}
    <3>1. rows'[q] = rows[q]  BY <1>2, <2>1
    <3> QED  BY <1>2, <3>1, SameRow
  <2>2. CASE q \in riding \cup {r}
    <3>1. PICK cov, works \in BOOLEAN :
            /\ cov <=> \E s \in stops : rows[q].job \in s
            /\ works <=> rows[q].job \in seg
            /\ RowOK(rows[q], cov, works)
      BY ARow
    <3>2. rows[q] \in Row /\ rows[q].job = j /\ ~cov /\ rows[q].mail \in {"heard", "queued", "held"}
      BY <2>2, <3>1, ARow DEF Of, Covered
    <3>3. CASE q = r
      <4>1. rows'[q] = ReadRow(rows[q])  BY <1>2, <3>3
      <4>2. rows'[q] \in Row /\ rows'[q].job = rows[q].job /\ rows'[q].at = rows[q].at
            /\ RowOK(rows'[q], cov, TRUE)
        BY <3>1, <3>2, <4>1, ReadRowOK
      <4> QED  BY <1>2, <3>1, <3>2, <4>2 DEF RowStep, RowOK
    <3>4. CASE q # r
      <4>1. rows'[q] = [rows[q] EXCEPT !.mail = "heard"]  BY <1>2, <2>2, <3>4
      <4>2. rows'[q] \in Row /\ rows'[q].job = rows[q].job /\ rows'[q].at = rows[q].at
            /\ RowOK(rows'[q], cov, TRUE)
        BY <3>1, <3>2, <4>1 DEF Row, Mail, RowOK
      <4> QED  BY <1>2, <3>1, <3>2, <4>2 DEF RowStep, RowOK
    <3> QED  BY <3>3, <3>4
  <2> QED  BY <2>1, <2>2
<1>4. rows' = [q \in DOMAIN rows |-> rows'[q]]  BY <1>2
<1> QED  BY <1>1, <1>3, <1>4 DEF RowsStep, StandsAsBefore

LEMMA DispatchKeeps == ASSUME Inv, NEW r \in DOMAIN rows, Dispatch(r) PROVE Inv'
<1> DEFINE j == rows[r].job
<1>1. j \in Jobs /\ r \in Of(j) /\ ~Full /\ ~Covered(j) /\ OpensOn(j, r, {})
      /\ \A q \in {} \cup {r} : rows[q].mail \in {"heard", "queued", "held"}
  BY ARow DEF Dispatch, Of
<1>2. SegOK /\ RowsStep /\ StandsAsBefore
  <2> HIDE DEF j
  <2> QED  BY <1>1, OpensOnKeeps DEF Dispatch
<1>3. OneStands' /\ OthersOK
  <2>1. seg \subseteq seg'  BY DEF Dispatch, OpensOn
  <2> QED  BY <1>2, <2>1, StillOneStands, OthersSame DEF Inv, Dispatch
<1> QED  BY <1>2, <1>3, InvKept

LEMMA DiesKeeps ==
    ASSUME Inv, NEW claimed \in SUBSET (DOMAIN rows), Dies(claimed),
           \A r \in claimed : rows[r].at = "pending"
    PROVE  Inv'
<1>1. SegOK  BY FS_EmptySet, SegFewer DEF Dies
<1>2. OthersOK
  <2>1. used.crashes + 1 \in 0..MaxCrashes
    <3>1. used.crashes < MaxCrashes  BY DEF Dies
    <3>2. used.crashes \in 0..MaxCrashes /\ MaxCrashes \in Nat  BY CheckBacksAssumption DEF Inv, TypeOK
    <3> QED  BY <3>1, <3>2
  <2> QED  BY <2>1 DEF Dies, OthersOK, Inv, TypeOK
<1>3. rows' = [r \in DOMAIN rows |->
                IF r \in claimed THEN [Released(rows[r]) EXCEPT !.at = "fired"] ELSE Released(rows[r])]
      /\ stops' = stops /\ seg' = {}
  BY DEF Dies
<1>4. ASSUME NEW r \in DOMAIN rows
      PROVE  RowStep(r) /\ (rows'[r].at \in {"pending", "aside"} => rows'[r].at = rows[r].at)
  <2>1. PICK cov, works \in BOOLEAN :
          /\ cov <=> \E s \in stops : rows[r].job \in s
          /\ works <=> rows[r].job \in seg
          /\ RowOK(rows[r], cov, works)
    BY ARow
  <2> DEFINE row == Released(rows[r])
  <2>2. row \in Row /\ row.job = rows[r].job /\ row.at = rows[r].at /\ RowOK(row, cov, FALSE)
    <3>1. rows[r] \in Row  BY ARow
    <3> QED  BY <2>1, <3>1, ReleasedRowOK
  <2> HIDE DEF row
  <2>3. CASE r \notin claimed
    <3>1. rows'[r] = row  BY <1>3, <2>3 DEF row
    <3> QED  BY <1>3, <2>1, <2>2, <3>1 DEF RowStep, RowOK
  <2>4. CASE r \in claimed
    <3>1. rows'[r] = [row EXCEPT !.at = "fired"]  BY <1>3, <2>4 DEF row
    <3>2. /\ rows'[r] \in Row /\ rows'[r].job = rows[r].job /\ rows'[r].at = "fired"
          /\ RowOK(rows'[r], cov, FALSE)
      BY <2>2, <3>1 DEF Row, RowOK
    <3> QED  BY <1>3, <2>1, <3>2 DEF RowStep, RowOK
  <2> QED  BY <2>3, <2>4
<1>5. RowsStep /\ StandsAsBefore  BY <1>3, <1>4 DEF RowsStep, StandsAsBefore
<1>6. OneStands'  BY <1>5, StillOneStands DEF Inv
<1> QED  BY <1>1, <1>2, <1>5, <1>6, InvKept

-----------------------------------------------------------------------------
(* Bookings, stops and what comes back. *)

LEMMA BookKeeps == ASSUME Inv, NEW j \in Jobs, Book(j) PROVE Inv'
<1> DEFINE n == Len(rows)
           old == [r \in DOMAIN rows |-> IF r \in Of(j) THEN Voided(rows[r]) ELSE rows[r]]
           new == [job |-> j, at |-> "pending", mail |-> "none",
                   here |-> FALSE, given |-> FALSE, reads |-> 0]
<1>1. n \in Nat /\ DOMAIN rows = 1..n /\ n + 1 <= MaxRows
  BY Rows DEF Book, Inv
<1>2. rows' = Append(old, new) /\ UNCHANGED <<seg, cut, away, ending, left, stops, used>>
  BY DEF Book
<1>3. new \in Row /\ new.job = j /\ new.at = "pending"  BY DEF Row, Mail
<1>4. j \in seg /\ ~ \E s \in stops : j \in s  BY DEF Book, Hears, Inv, TypeOK, Covered
<1>5. ASSUME NEW r \in DOMAIN rows
      PROVE  /\ old[r] \in Row /\ old[r].job = rows[r].job
             /\ RowOK(old[r], \E s \in stops : rows[r].job \in s, rows[r].job \in seg)
             /\ old[r].job = j => old[r].at \notin {"pending", "aside"}
             /\ old[r].job # j => old[r] = rows[r]
  <2>1. PICK cov, works \in BOOLEAN :
          /\ cov <=> \E s \in stops : rows[r].job \in s
          /\ works <=> rows[r].job \in seg
          /\ RowOK(rows[r], cov, works)
    BY ARow
  <2>2. CASE rows[r].job # j
    <3>1. old[r] = rows[r]  BY <2>2 DEF Of
    <3> HIDE DEF old
    <3> QED  BY <2>1, <2>2, <3>1, ARow DEF RowOK
  <2>3. CASE rows[r].job = j
    <3> DEFINE at == IF rows[r].at \in {"pending", "aside"} THEN "void" ELSE rows[r].at
    <3>1. old[r] = [rows[r] EXCEPT !.at = at]  BY <2>3 DEF Of, Voided
    <3>2. at \in {"fired", "void"} /\ (at = "fired" => rows[r].at = "fired")  BY ARow DEF Row
    <3> HIDE DEF old, at
    <3>3. /\ old[r] \in Row /\ old[r].job = rows[r].job /\ old[r].at = at
          /\ RowOK(old[r], cov, works)
      BY <2>1, <3>1, <3>2, ARow DEF Row, RowOK
    <3> QED  BY <2>1, <2>3, <3>2, <3>3 DEF RowOK
  <2> QED  BY <2>2, <2>3
<1>6. old \in Seq(Row) /\ Len(old) = n /\ DOMAIN old = 1..n
  <2>1. old \in [1..n -> Row]  BY <1>1, <1>5
  <2> HIDE DEF old
  <2> QED  BY <1>1, <2>1, SeqOfRows
<1> HIDE DEF old, new, n
<1>7. /\ rows' \in Seq(Row) /\ Len(rows') = n + 1 /\ DOMAIN rows' = 1..(n + 1)
      /\ \A r \in 1..n : rows'[r] = old[r]
      /\ rows'[n + 1] = new
  BY <1>1, <1>2, <1>3, <1>6, AppendProperties, LenProperties
<1>8. \A r \in 1..(n + 1) : r \in DOMAIN rows \/ r = n + 1  BY <1>1
<1>9. TypeOK' /\ RowsInv'
  <2>1. ASSUME NEW r \in DOMAIN rows'
        PROVE  RowOK(rows'[r], \E s \in stops : rows'[r].job \in s, rows'[r].job \in seg)
    <3>1. CASE r \in DOMAIN rows  BY <1>1, <1>5, <1>7, <3>1
    <3>2. CASE r = n + 1  BY <1>4, <1>7, <3>2 DEF new, RowOK
    <3> QED  BY <1>7, <1>8, <2>1, <3>1, <3>2
  <2>2. RowsInv'  BY <1>2, <2>1 DEF RowsInv, Covered
  <2>3. \A r \in DOMAIN rows' : rows'[r].mail = "heard" \/ rows'[r].here => rows'[r].job \in seg
    BY <2>1 DEF RowOK
  <2> QED  BY <1>1, <1>2, <1>7, <2>2, <2>3 DEF Inv, TypeOK, Covered
<1>10. OneStands'
  <2> SUFFICES ASSUME NEW k \in Jobs, NEW q \in DOMAIN rows', NEW r \in DOMAIN rows',
                      rows'[q].job = k, rows'[r].job = k,
                      rows'[q].at \in {"pending", "aside"}, rows'[r].at \in {"pending", "aside"}
               PROVE  q = r
    BY DEF OneStands, Of, Standing
  <2>1. CASE k = j
    <3>1. q \notin DOMAIN rows /\ r \notin DOMAIN rows  BY <1>1, <1>5, <1>7, <2>1
    <3> QED  BY <1>7, <1>8, <3>1
  <2>2. CASE k # j
    <3>1. q \in DOMAIN rows /\ r \in DOMAIN rows  BY <1>3, <1>7, <1>8, <2>2
    <3>2. rows'[q] = rows[q] /\ rows'[r] = rows[r]  BY <1>1, <1>5, <1>7, <2>2, <3>1
    <3> QED  BY <3>1, <3>2 DEF Inv, OneStands, Of, Standing
  <2> QED  BY <2>1, <2>2
<1>11. LeftIsItsJobs'
  <2>1. 1..n \subseteq 1..(n + 1)  BY <1>1
  <2>2. ASSUME NEW r \in DOMAIN rows PROVE r \in DOMAIN rows' /\ rows'[r].job = rows[r].job
    BY <1>1, <1>5, <1>7, <2>1
  <2> QED  BY <1>2, <2>2 DEF Inv, LeftIsItsJobs, Of
<1> QED  BY <1>2, <1>9, <1>10, <1>11 DEF Inv

LEMMA StopKeeps == ASSUME Inv, NEW s \in Scopes, Stop(s) PROVE Inv'
<1>1. SegOK  BY SegFewer DEF Stop, Inv, TypeOK, Covered
<1>2. OthersOK
  <2>1. used.stops + 1 \in 0..MaxStops
    <3>1. used.stops < MaxStops  BY DEF Stop
    <3>2. used.stops \in 0..MaxStops /\ MaxStops \in Nat  BY CheckBacksAssumption DEF Inv, TypeOK
    <3> QED  BY <3>1, <3>2
  <2> QED  BY <2>1 DEF Stop, OthersOK, Inv, TypeOK, LeftIsItsJobs, Of
<1>3. rows' = [r \in DOMAIN rows |-> IF rows[r].job \notin s THEN rows[r] ELSE
                [rows[r] EXCEPT !.at = IF @ = "pending" THEN "aside" ELSE @,
                                !.mail = IF @ \in {"heard", "queued"} THEN "held" ELSE @,
                                !.here = FALSE]]
      /\ stops' = stops \cup {s} /\ seg' = seg \ s
  BY DEF Stop
<1>4. ASSUME NEW r \in DOMAIN rows
      PROVE  RowStep(r) /\ (rows'[r].at \in {"pending", "aside"} => rows[r].at \in {"pending", "aside"})
  <2>1. PICK cov, works \in BOOLEAN :
          /\ cov <=> \E c \in stops : rows[r].job \in c
          /\ works <=> rows[r].job \in seg
          /\ RowOK(rows[r], cov, works)
    BY ARow
  <2>2. CASE rows[r].job \notin s
    <3>1. rows'[r] = rows[r]  BY <1>3, <2>2
    <3>2. (\E c \in stops' : rows[r].job \in c) <=> cov  BY <1>3, <2>1, <2>2
    <3>3. rows[r].job \in seg' <=> works  BY <1>3, <2>1, <2>2
    <3> QED  BY <1>3, <2>1, <3>1, <3>2, <3>3, ARow DEF RowStep, RowOK
  <2>3. CASE rows[r].job \in s
    <3> DEFINE at == IF rows[r].at = "pending" THEN "aside" ELSE rows[r].at
               mail == IF rows[r].mail \in {"heard", "queued"} THEN "held" ELSE rows[r].mail
    <3>1. rows'[r] = [rows[r] EXCEPT !.at = at, !.mail = mail, !.here = FALSE]  BY <1>3, <2>3
    <3>2. /\ at \in {"aside", "fired", "void"} /\ mail \in {"none", "held", "read"}
          /\ (at = "aside" => rows[r].at \in {"pending", "aside"}) /\ (at = "fired" => rows[r].at = "fired")
          /\ (mail = "none" <=> rows[r].mail = "none") /\ (mail = "read" <=> rows[r].mail = "read")
      BY ARow DEF Row, Mail
    <3> HIDE DEF at, mail
    <3>3. /\ rows'[r] \in Row /\ rows'[r].job = rows[r].job /\ rows'[r].at = at /\ rows'[r].mail = mail
          /\ ~rows'[r].here /\ rows'[r].given = rows[r].given /\ rows'[r].reads = rows[r].reads
      BY <3>1, <3>2, ARow DEF Row, Mail
    <3>4. (\E c \in stops' : rows[r].job \in c)  BY <1>3, <2>3
    <3>5. RowOK(rows'[r], TRUE, FALSE)  BY <2>1, <3>2, <3>3 DEF RowOK
    <3> QED  BY <1>3, <2>1, <3>2, <3>3, <3>4, <3>5 DEF RowStep, RowOK
  <2> QED  BY <2>2, <2>3
<1>5. RowsStep /\ StandsAsBefore
  <2>1. rows' = [r \in DOMAIN rows |-> rows'[r]]  BY <1>3
  <2> QED  BY <1>4, <2>1 DEF RowsStep, StandsAsBefore
<1>6. OneStands'  BY <1>5, StillOneStands DEF Inv
<1> QED  BY <1>1, <1>2, <1>5, <1>6, InvKept

LEMMA LiftKeeps == ASSUME Inv, NEW s \in Scopes, Lift(s) PROVE Inv'
<1> DEFINE standsBeside(r) == \E o \in Of(rows[r].job) \ {r} : rows[o].at = "pending"
<1>1. SegOK  BY SegFewer DEF Lift, Inv, TypeOK, Covered
<1>2. OthersOK  BY DEF Lift, OthersOK, Inv, TypeOK, LeftIsItsJobs, Of
<1>3. rows' = [r \in DOMAIN rows |-> IF rows[r].job \notin FreedBy(s) THEN rows[r] ELSE
                [rows[r] EXCEPT
                    !.at = IF @ # "aside" THEN @ ELSE IF standsBeside(r) THEN "void" ELSE "pending",
                    !.mail = IF @ = "held" THEN "queued" ELSE @]]
      /\ stops' = stops \ {s} /\ seg' = seg /\ used' = used /\ s \in stops
  BY DEF Lift
<1>4. ASSUME NEW r \in DOMAIN rows
      PROVE  RowStep(r) /\ (rows'[r].at \in {"pending", "aside"} => rows[r].at \in {"pending", "aside"})
  <2>1. PICK cov, works \in BOOLEAN :
          /\ cov <=> \E c \in stops : rows[r].job \in c
          /\ works <=> rows[r].job \in seg
          /\ RowOK(rows[r], cov, works)
    BY ARow
  <2>2. CASE rows[r].job \notin FreedBy(s)
    <3>1. rows'[r] = rows[r]  BY <1>3, <2>2
    <3>2. (\E c \in stops' : rows[r].job \in c) <=> cov
      BY <1>3, <2>1, <2>2 DEF FreedBy
    <3> QED  BY <1>3, <2>1, <3>1, <3>2, ARow DEF RowStep, RowOK
  <2>3. CASE rows[r].job \in FreedBy(s)
    <3> DEFINE at == IF rows[r].at # "aside" THEN rows[r].at
                     ELSE IF standsBeside(r) THEN "void" ELSE "pending"
               mail == IF rows[r].mail = "held" THEN "queued" ELSE rows[r].mail
    <3>1. rows'[r] = [rows[r] EXCEPT !.at = at, !.mail = mail]  BY <1>3, <2>3
    <3>2. cov /\ ~works /\ ~ \E c \in stops' : rows[r].job \in c
      BY <1>3, <2>1, <2>3 DEF FreedBy, Inv, TypeOK, Covered
    <3>3. /\ at \in {"pending", "fired", "void"}
          /\ (at = "pending" => rows[r].at \in {"pending", "aside"}) /\ (at = "fired" => rows[r].at = "fired")
          /\ mail \in {"none", "queued", "read"}
          /\ (mail = "none" <=> rows[r].mail = "none") /\ (mail = "read" <=> rows[r].mail = "read")
      BY <2>1, <3>2, ARow DEF Row, Mail, RowOK
    <3> HIDE DEF at, mail
    <3>4. /\ rows'[r] \in Row /\ rows'[r].job = rows[r].job /\ rows'[r].at = at /\ rows'[r].mail = mail
          /\ rows'[r].here = rows[r].here /\ rows'[r].given = rows[r].given /\ rows'[r].reads = rows[r].reads
      BY <3>1, <3>3, ARow DEF Row, Mail
    <3>5. RowOK(rows'[r], FALSE, FALSE)  BY <2>1, <3>2, <3>3, <3>4 DEF RowOK
    <3> QED  BY <1>3, <2>1, <3>2, <3>3, <3>4, <3>5 DEF RowStep, RowOK
  <2> QED  BY <2>2, <2>3
<1>5. RowsStep /\ StandsAsBefore
  <2>1. rows' = [r \in DOMAIN rows |-> rows'[r]]  BY <1>3
  <2> QED  BY <1>4, <2>1 DEF RowsStep, StandsAsBefore
<1>6. OneStands'  BY <1>5, StillOneStands DEF Inv
<1> QED  BY <1>1, <1>2, <1>5, <1>6, InvKept

-----------------------------------------------------------------------------
(* A segment that is over, and what it had not read. *)

LEMMA UnheardRows ==
    ASSUME Inv, NEW j \in Jobs
    PROVE  /\ Unheard(j) \subseteq Of(j) /\ Unheard(j) \subseteq 1..MaxRows
           /\ \A r \in Unheard(j) : rows[r].mail \in {"heard", "queued", "held"}
           /\ Unheard(j) # {} => Max(Unheard(j)) \in Unheard(j)
<1>1. Unheard(j) \subseteq Of(j)  BY DEF Unheard, Inv, LeftIsItsJobs
<1>2. Unheard(j) \in SUBSET (1..MaxRows) /\ MaxRows \in Nat
  BY CheckBacksAssumption DEF Unheard, Inv, TypeOK
<1>3. \A r \in Unheard(j) : rows[r].mail \in {"heard", "queued", "held"}  BY DEF Unheard
<1>4. Unheard(j) # {} => Max(Unheard(j)) \in Unheard(j)  BY <1>2, Newest
<1> QED  BY <1>1, <1>2, <1>3, <1>4

\* Given back, unless another one stands: so one stands.
LEMMA GivenBackKeeps ==
    ASSUME Inv, NEW r \in DOMAIN rows, rows[r].mail \in {"heard", "queued", "held"},
           rows' = GivenBack(rows, r), UNCHANGED <<seg, stops, used>>
    PROVE  RowsStep /\ OneStands'
<1>1. rows = [q \in DOMAIN rows |-> rows[q]]  BY LenProperties DEF Inv, TypeOK
<1>2. CASE ~ (rows[r].at = "fired" /\ ~ \E o \in Of(rows[r].job) \ {r} : Standing(o))
  <2>1. rows' = rows  BY <1>2 DEF GivenBack
  <2>2. \A q \in DOMAIN rows : RowStep(q) /\ rows'[q].at = rows[q].at  BY <2>1, SameRow
  <2>3. RowsStep /\ StandsAsBefore  BY <1>1, <2>1, <2>2 DEF RowsStep, StandsAsBefore
  <2> QED  BY <2>3, StillOneStands DEF Inv
<1>3. CASE rows[r].at = "fired" /\ ~ \E o \in Of(rows[r].job) \ {r} : Standing(o)
  <2>1. PICK cov, works \in BOOLEAN :
          /\ cov <=> \E c \in stops : rows[r].job \in c
          /\ works <=> rows[r].job \in seg
          /\ RowOK(rows[r], cov, works)
    BY ARow
  <2> DEFINE at == IF cov THEN "aside" ELSE "pending"
  <2>2. rows' = [rows EXCEPT ![r] = [rows[r] EXCEPT !.at = at, !.given = TRUE]]
    BY <1>3, <2>1 DEF GivenBack, Covered
  <2>3. rows'[r] = [rows[r] EXCEPT !.at = at, !.given = TRUE] /\ at \in {"aside", "pending"}
        /\ (at = "aside" <=> cov)
    BY <2>2
  <2> HIDE DEF at
  <2>4. RowStep(r)
    <3>1. /\ rows'[r] \in Row /\ rows'[r].job = rows[r].job /\ rows'[r].at = at /\ rows'[r].given
          /\ rows'[r].mail = rows[r].mail /\ rows'[r].here = rows[r].here
      BY <2>3, ARow DEF Row
    <3>2. RowOK(rows'[r], cov, works)  BY <2>1, <2>3, <3>1 DEF RowOK
    <3> QED  BY <2>1, <3>1, <3>2 DEF RowStep, RowOK
  <2>5. ASSUME NEW q \in DOMAIN rows, q # r PROVE RowStep(q) /\ rows'[q] = rows[q]
    BY <2>2, <2>5, SameRow
  <2>6. RowsStep
    <3>1. rows' = [q \in DOMAIN rows |-> rows'[q]]  BY <2>2
    <3> QED  BY <2>4, <2>5, <3>1 DEF RowsStep
  <2>7. DOMAIN rows' = DOMAIN rows /\ \A q \in DOMAIN rows : rows'[q].job = rows[q].job
    BY <2>6, RowsKept DEF Inv
  <2>8. OneStands'
    <3> SUFFICES ASSUME NEW k \in Jobs, NEW q \in DOMAIN rows', NEW p \in DOMAIN rows',
                        rows'[q].job = k, rows'[p].job = k,
                        rows'[q].at \in {"pending", "aside"}, rows'[p].at \in {"pending", "aside"}
                 PROVE  q = p
      BY DEF OneStands, Of, Standing
    <3>1. q \in Of(k) /\ p \in Of(k)  BY <2>7 DEF Of
    <3>2. CASE k = rows[r].job
      <4>1. ASSUME NEW o \in Of(k), o # r PROVE rows'[o].at \notin {"pending", "aside"}
        BY <1>3, <2>5, <3>2, <4>1 DEF Of, Standing
      <4> QED  BY <3>1, <4>1
    <3>3. CASE k # rows[r].job
      <4>1. q # r /\ p # r  BY <2>7, <3>3
      <4>2. Standing(q) /\ Standing(p)  BY <2>5, <2>7, <4>1 DEF Standing
      <4> QED  BY <3>1, <4>2 DEF Inv, OneStands
    <3> QED  BY <3>2, <3>3
  <2> QED  BY <2>6, <2>8
<1> QED  BY <1>2, <1>3

\* Put in the inbox of the segment that is at work there meanwhile.
LEMMA HeardAgainKeeps ==
    ASSUME Inv, NEW j \in Jobs, NEW unheard \in SUBSET Of(j), j \in seg, UNCHANGED <<seg, stops, used>>,
           \A r \in unheard : rows[r].mail \in {"heard", "queued", "held"},
           rows' = [r \in DOMAIN rows |->
                      IF r \in unheard THEN [rows[r] EXCEPT !.mail = "heard"] ELSE rows[r]]
    PROVE  RowsStep /\ StandsAsBefore
<1>1. ASSUME NEW r \in DOMAIN rows PROVE RowStep(r) /\ rows'[r].at = rows[r].at
  <2>1. CASE r \notin unheard  BY <2>1, SameRow
  <2>2. CASE r \in unheard
    <3>1. PICK cov, works \in BOOLEAN :
            /\ cov <=> \E s \in stops : rows[r].job \in s
            /\ works <=> rows[r].job \in seg
            /\ RowOK(rows[r], cov, works)
      BY ARow
    <3>2. rows'[r] = [rows[r] EXCEPT !.mail = "heard"] /\ rows[r].mail \in {"heard", "queued", "held"}
      BY <2>2
    <3>3. works /\ ~cov  BY <2>2, <3>1 DEF Inv, TypeOK, Covered, Of
    <3>4. rows'[r] \in Row /\ rows'[r].job = rows[r].job /\ rows'[r].at = rows[r].at
          /\ RowOK(rows'[r], cov, works)
      BY <3>1, <3>2, <3>3, ARow DEF Row, Mail, RowOK
    <3> QED  BY <3>1, <3>4 DEF RowStep, RowOK
  <2> QED  BY <2>1, <2>2
<1>2. rows' = [r \in DOMAIN rows |-> rows'[r]]  OBVIOUS
<1> QED  BY <1>1, <1>2 DEF RowsStep, StandsAsBefore

LEMMA UnwindKeeps == ASSUME Inv, NEW j \in Jobs, Unwind(j) PROVE Inv'
<1> DEFINE unheard == Unheard(j)
           newest == Max(unheard)
<1>1. /\ unheard \subseteq Of(j) /\ \A r \in unheard : rows[r].mail \in {"heard", "queued", "held"}
      /\ unheard # {} => newest \in unheard
  BY UnheardRows
<1>2. OthersOK
  <2>1. seg \subseteq seg'  BY DEF Unwind, OpensOn
  <2> QED  BY <2>1 DEF Unwind, OthersOK, Inv, TypeOK, LeftIsItsJobs, Of
<1>3. stops' = stops /\ used' = used  BY DEF Unwind
<1>4. \/ UNCHANGED <<rows, seg>>
      \/ unheard # {} /\ rows' = GivenBack(rows, newest) /\ UNCHANGED seg
      \/ /\ j \in seg /\ UNCHANGED seg
         /\ rows' = [r \in DOMAIN rows |->
                       IF r \in unheard THEN [rows[r] EXCEPT !.mail = "heard"] ELSE rows[r]]
      \/ unheard # {} /\ ~Covered(j) /\ ~Full /\ OpensOn(j, newest, unheard)
  BY DEF Unwind, Hears
<1> HIDE DEF unheard, newest
<1>5. CASE UNCHANGED <<rows, seg>>
  <2>1. RowsStep /\ OneStands' /\ SegOK  BY <1>3, <1>5, RowsSame
  <2> QED  BY <1>2, <2>1, InvKept
<1>6. CASE unheard # {} /\ rows' = GivenBack(rows, newest) /\ UNCHANGED seg
  <2>1. newest \in DOMAIN rows /\ rows[newest].mail \in {"heard", "queued", "held"}
    BY <1>1, <1>6 DEF Of
  <2>2. RowsStep /\ OneStands' /\ SegOK  BY <1>3, <1>6, <2>1, GivenBackKeeps, SegSame
  <2> QED  BY <1>2, <2>2, InvKept
<1>7. CASE /\ j \in seg /\ UNCHANGED seg
           /\ rows' = [r \in DOMAIN rows |->
                         IF r \in unheard THEN [rows[r] EXCEPT !.mail = "heard"] ELSE rows[r]]
  <2>1. RowsStep /\ StandsAsBefore  BY <1>1, <1>3, <1>7, HeardAgainKeeps
  <2>2. OneStands' /\ SegOK  BY <1>3, <1>7, <2>1, StillOneStands, SegSame DEF Inv
  <2> QED  BY <1>2, <2>1, <2>2, InvKept
<1>8. CASE unheard # {} /\ ~Covered(j) /\ ~Full /\ OpensOn(j, newest, unheard)
  <2>1. newest \in Of(j) /\ unheard \in SUBSET Of(j)
        /\ \A q \in unheard \cup {newest} : rows[q].mail \in {"heard", "queued", "held"}
    BY <1>1, <1>8
  <2>2. SegOK /\ RowsStep /\ StandsAsBefore  BY <1>3, <1>8, <2>1, OpensOnKeeps
  <2>3. OneStands'  BY <2>2, StillOneStands DEF Inv
  <2> QED  BY <1>2, <2>2, <2>3, InvKept
<1> QED  BY <1>4, <1>5, <1>6, <1>7, <1>8

-----------------------------------------------------------------------------
(* The invariant is inductive, and what follows from it. *)

LEMMA InitInv == ASSUME Init PROVE Inv
<1>1. rows \in Seq(Row) /\ Len(rows) = 0 /\ DOMAIN rows = {}
  <2>1. rows \in Seq(Row) /\ Len(rows) = 0  BY EmptySeq DEF Init
  <2> QED  BY <2>1, LenProperties
<1>2. IsFiniteSet(seg) /\ Cardinality(seg) = 0  BY FS_EmptySet DEF Init
<1>3. Limit \in Nat /\ MaxRows \in Nat /\ MaxStops \in Nat /\ MaxLines \in Nat
      /\ MaxLeaves \in Nat /\ MaxCrashes \in Nat
  BY CheckBacksAssumption
<1>4. TypeOK  BY <1>1, <1>2, <1>3 DEF Init, TypeOK
<1> QED  BY <1>1, <1>2, <1>4 DEF Inv, OneStands, RowsInv, LeftIsItsJobs, Of, Init

LEMMA NextInv == ASSUME Inv, [Next]_vars PROVE Inv'
<1>1. ASSUME NEW j \in Jobs, YourLine(j) \/ Book(j) \/ Read(j) \/ Completes(j) \/ Unwind(j)
                              \/ Sweep(j) \/ CutOff(j) \/ Leave(j) \/ Rejoin(j)
      PROVE  Inv'
  BY <1>1, YourLineKeeps, BookKeeps, ReadKeeps, CompletesKeeps, UnwindKeeps,
     SweepKeeps, CutOffKeeps, LeaveKeeps, RejoinKeeps
<1>2. ASSUME NEW r \in DOMAIN rows, Fire(r) \/ WaitsOnYou(r) \/ Dispatch(r)
      PROVE  Inv'
  BY <1>2, FireKeeps, WaitsOnYouKeeps, DispatchKeeps
<1>3. ASSUME NEW r \in DOMAIN rows, CrashInFire(r) PROVE Inv'
  <2>1. {r} \in SUBSET (DOMAIN rows) /\ Dies({r}) /\ \A q \in {r} : rows[q].at = "pending"
    BY <1>3 DEF CrashInFire
  <2> QED  BY <2>1, DiesKeeps
<1>4. ASSUME Crash PROVE Inv'
  <2>1. {} \in SUBSET (DOMAIN rows) /\ Dies({}) /\ \A q \in {} : rows[q].at = "pending"
    BY <1>4 DEF Crash
  <2> QED  BY <2>1, DiesKeeps
<1>5. ASSUME NEW s \in Scopes, Stop(s) \/ Lift(s) PROVE Inv'
  BY <1>5, StopKeeps, LiftKeeps
<1>6. CASE UNCHANGED vars
  BY <1>6 DEF vars, Inv, TypeOK, OneStands, RowsInv, LeftIsItsJobs, Of, Standing, Covered
<1> QED  BY <1>1, <1>2, <1>3, <1>4, <1>5, <1>6 DEF Next

LEMMA InvHolds == Spec => []Inv
<1>1. Init => Inv  BY InitInv
<1>2. Inv /\ [Next]_vars => Inv'  BY NextInv
<1> QED  BY <1>1, <1>2, PTL DEF Spec

\* The tables of rows and stops, the segments and what they have in hand keep their
\* types: insertCheckBack, fireCheckBack, suspendHeldCheckBacks and their callers.
THEOREM TypesHold == Spec => []TypeOK
<1>1. Inv => TypeOK  BY DEF Inv
<1> QED  BY <1>1, InvHolds, PTL

\* A Bot has one appointment on a job, pending or set aside: insertCheckBack voids
\* the one that stood, returnUnreadCheckBack gives none back beside another, and a
\* lift brings back the one the stop set aside.
THEOREM OneAppointmentStands == Spec => []OneStands
<1>1. Inv => OneStands  BY DEF Inv
<1> QED  BY <1>1, InvHolds, PTL

\* Set aside and held mean under a stop, pending and in line mean under none, through
\* stops that overlap, lifts, deaths of the process and what is given back.
THEOREM StopsAndRowsAgree == Spec => []AsideUnderAStop
<1>1. Inv => AsideUnderAStop  BY DEF Inv, RowsInv, RowOK, AsideUnderAStop
<1> QED  BY <1>1, InvHolds, PTL

\* No reminder is read by a second segment unless returnUnreadCheckBack gave it back.
THEOREM NoneRingsTwice == Spec => []AgainOnlyIfGivenBack
<1>1. ASSUME Inv PROVE AgainOnlyIfGivenBack
  <2>1. \A r \in DOMAIN rows : rows[r].reads \in 0..2  BY <1>1, Rows DEF Inv, Row
  <2> QED  BY <1>1, <2>1 DEF Inv, RowsInv, RowOK, AgainOnlyIfGivenBack
<1> QED  BY <1>1, InvHolds, PTL

-----------------------------------------------------------------------------
(* Spent on somebody. *)

\* What a step that rewrites rows may lose: nothing.
NoneLost == \A r \in DOMAIN rows : Lost(rows'[r]) => Lost(rows[r])

LEMMA ReadLosesNone == ASSUME NEW row, Lost(ReadRow(row)), row \in Row PROVE Lost(row)
BY DEF ReadRow, Lost, Row, Mail

LEMMA ReleasedLosesNone == ASSUME NEW row \in Row, Lost(Released(row)) PROVE Lost(row)
BY DEF Released, Lost, Row, Mail

\* A segment's own steps.
LEMMA WorkLosesNone ==
    ASSUME Inv, NEW j \in Jobs, Book(j) \/ Read(j) \/ Completes(j) \/ CutOff(j)
    PROVE  NoneLost
<1> SUFFICES ASSUME NEW r \in DOMAIN rows, Lost(rows'[r]) PROVE Lost(rows[r])
  BY DEF NoneLost
<1>1. rows[r] \in Row  BY ARow
<1>2. CASE Book(j)
  <2> DEFINE old == [q \in DOMAIN rows |-> IF q \in Of(j) THEN Voided(rows[q]) ELSE rows[q]]
             new == [job |-> j, at |-> "pending", mail |-> "none",
                     here |-> FALSE, given |-> FALSE, reads |-> 0]
  <2>1. DOMAIN rows = 1..Len(rows) /\ Len(rows) \in Nat  BY Rows DEF Inv
  <2>2. rows' = Append(old, new)  BY <1>2 DEF Book
  <2>3. \A q \in DOMAIN rows : Voided(rows[q]) \in Row
    BY ARow DEF Voided, Row
  <2>4. old \in [1..Len(rows) -> Row] /\ new \in Row
    <3>1. \A q \in DOMAIN rows : rows[q] \in Row  BY ARow
    <3> QED  BY <2>1, <2>3, <3>1 DEF Row, Mail
  <2>5. old[r] = IF r \in Of(j) THEN Voided(rows[r]) ELSE rows[r]  OBVIOUS
  <2> HIDE DEF old, new
  <2>6. old \in Seq(Row) /\ Len(old) = Len(rows)  BY <2>1, <2>4, SeqOfRows
  <2>7. rows'[r] = old[r]  BY <2>1, <2>2, <2>4, <2>6, AppendProperties
  <2> QED  BY <1>1, <2>5, <2>7 DEF Voided, Lost, Row
<1>3. CASE Read(j)
  <2>1. rows'[r] \in {rows[r], ReadRow(rows[r])}  BY <1>3 DEF Read
  <2> QED  BY <1>1, <2>1, ReadLosesNone
<1>4. CASE Completes(j) \/ CutOff(j)
  <2>1. rows'[r] \in {rows[r], Released(rows[r])}  BY <1>4 DEF Completes, CutOff
  <2> QED  BY <1>1, <2>1, ReleasedLosesNone
<1> QED  BY <1>2, <1>3, <1>4

\* A segment opens.
LEMMA OpeningLosesNone ==
    ASSUME Inv, NEW j, NEW r, NEW riding, OpensOn(j, r, riding)
    PROVE  NoneLost
<1> SUFFICES ASSUME NEW q \in DOMAIN rows, Lost(rows'[q]) PROVE Lost(rows[q])
  BY DEF NoneLost
<1>1. rows[q] \in Row  BY ARow
<1>2. rows'[q] \in {rows[q], ReadRow(rows[q]), [rows[q] EXCEPT !.mail = "heard"]}
  BY DEF OpensOn
<1>3. ~Lost([rows[q] EXCEPT !.mail = "heard"])  BY <1>1 DEF Lost, Row
<1> QED  BY <1>1, <1>2, <1>3, ReadLosesNone

LEMMA UnwindLosesNone ==
    ASSUME Inv, NEW j \in Jobs, Unwind(j)
    PROVE  NoneLost
<1>1. CASE UNCHANGED rows  BY <1>1 DEF NoneLost
<1>2. CASE rows' = GivenBack(rows, Max(Unheard(j)))
  <2> SUFFICES ASSUME NEW q \in DOMAIN rows, Lost(rows'[q]) PROVE Lost(rows[q])
    BY DEF NoneLost
  <2> DEFINE n == Max(Unheard(j))
             at == IF Covered(rows[n].job) THEN "aside" ELSE "pending"
  <2>1. rows[q] \in Row  BY ARow
  <2>2. rows'[q] \in {rows[q], [rows[q] EXCEPT !.at = at, !.given = TRUE]}
    BY <1>2 DEF GivenBack
  <2>3. at # "fired"  OBVIOUS
  <2> HIDE DEF n, at
  <2> QED  BY <2>1, <2>2, <2>3 DEF Lost, Row
<1>3. CASE rows' = [r \in DOMAIN rows |->
                      IF r \in Unheard(j) THEN [rows[r] EXCEPT !.mail = "heard"] ELSE rows[r]]
  <2>1. \A r \in DOMAIN rows : ~Lost([rows[r] EXCEPT !.mail = "heard"])  BY ARow DEF Lost, Row
  <2> QED  BY <1>3, <2>1 DEF NoneLost
<1>4. CASE OpensOn(j, Max(Unheard(j)), Unheard(j))  BY <1>4, OpeningLosesNone
<1> QED  BY <1>1, <1>2, <1>3, <1>4 DEF Unwind

\* Stops and lifts.
LEMMA StopsLoseNone ==
    ASSUME Inv, NEW s \in Scopes, Stop(s) \/ Lift(s)
    PROVE  NoneLost
<1> SUFFICES ASSUME NEW r \in DOMAIN rows, Lost(rows'[r]) PROVE Lost(rows[r])
  BY DEF NoneLost
<1>1. rows[r] \in Row  BY ARow
<1>2. CASE Stop(s)
  <2> DEFINE at == IF rows[r].at = "pending" THEN "aside" ELSE rows[r].at
             mail == IF rows[r].mail \in {"heard", "queued"} THEN "held" ELSE rows[r].mail
  <2>1. rows'[r] \in {rows[r], [rows[r] EXCEPT !.at = at, !.mail = mail, !.here = FALSE]}
    BY <1>2 DEF Stop
  <2>2. (at = "fired" => rows[r].at = "fired") /\ (mail = "none" => rows[r].mail = "none")  OBVIOUS
  <2> HIDE DEF at, mail
  <2> QED  BY <1>1, <2>1, <2>2 DEF Lost, Row
<1>3. CASE Lift(s)
  <2> DEFINE beside == \E o \in Of(rows[r].job) \ {r} : rows[o].at = "pending"
             at == IF rows[r].at # "aside" THEN rows[r].at ELSE IF beside THEN "void" ELSE "pending"
             mail == IF rows[r].mail = "held" THEN "queued" ELSE rows[r].mail
  <2>1. rows'[r] \in {rows[r], [rows[r] EXCEPT !.at = at, !.mail = mail]}
    BY <1>3 DEF Lift
  <2>2. (at = "fired" => rows[r].at = "fired") /\ (mail = "none" => rows[r].mail = "none")  OBVIOUS
  <2> HIDE DEF at, mail
  <2> QED  BY <1>1, <2>1, <2>2 DEF Lost, Row
<1> QED  BY <1>2, <1>3

\* The scheduler fires one: lost only where the Bot is gone or being cut off.
LEMMA FireIsTold ==
    ASSUME Inv, NEW r \in DOMAIN rows, Fire(r), ~SpentOnNobody(rows[r].job)
    PROVE  NoneLost
<1>1. rows[r] \in Row /\ rows[r].at = "pending" /\ ~Covered(rows[r].job)  BY ARow DEF Fire
<1>2. \E row : rows' = [rows EXCEPT ![r] = row] /\ ~Lost(row)
  <2>1. CASE rows' = [rows EXCEPT ![r] = HeardBySegment(@)]
    <3>1. rows[r].here => rows[r].mail = "read"  BY DEF Inv, RowsInv, RowOK
    <3>2. ~Lost(HeardBySegment(rows[r]))  BY <1>1, <3>1 DEF HeardBySegment, Lost, Row, Mail
    <3> QED  BY <2>1, <3>2
  <2>2. CASE \E row \in QueuedFor(rows[r]) : rows' = [rows EXCEPT ![r] = row]
    <3>1. ASSUME NEW row \in QueuedFor(rows[r]) PROVE row.mail # "none"
      <4>1. rows[r].mail \in Mail  BY <1>1 DEF Row
      <4>2. PICK mail \in Mail : mail # "none" /\ row = [rows[r] EXCEPT !.at = "fired", !.mail = mail]
        BY <4>1 DEF QueuedFor, Mail
      <4> QED  BY <1>1, <4>2 DEF Row
    <3> QED  BY <2>2, <3>1 DEF Lost
  <2>3. CASE rows' = [rows EXCEPT ![r] = [ReadRow(@) EXCEPT !.at = "fired"]]
    <3>1. rows[r].here => rows[r].mail = "read"  BY DEF Inv, RowsInv, RowOK
    <3>2. ~Lost([ReadRow(rows[r]) EXCEPT !.at = "fired"])
      BY <1>1, <3>1 DEF ReadRow, Lost, Row, Mail
    <3> QED  BY <2>3, <3>2
  <2> QED  BY <2>1, <2>2, <2>3 DEF Fire
<1>3. PICK row : rows' = [rows EXCEPT ![r] = row] /\ ~Lost(row)  BY <1>2
<1> QED  BY <1>3 DEF NoneLost

\* A step loses a reminder only by a crash, or of a job the Bot is gone from or whose
\* segment is being cut off.
LEMMA NextTells ==
    ASSUME Inv, [Next]_vars
    PROVE  \A r \in DOMAIN rows :
             Lost(rows'[r]) => \/ Lost(rows[r]) \/ used'.crashes # used.crashes
                               \/ rows[r].job \in away \cup cut
<1>1. ASSUME NEW j \in Jobs, Book(j) \/ Read(j) \/ Completes(j) \/ CutOff(j) PROVE NoneLost
  BY <1>1, WorkLosesNone
<1>2. ASSUME NEW j \in Jobs, Unwind(j) PROVE NoneLost  BY <1>2, UnwindLosesNone
<1>3. ASSUME NEW j \in Jobs, YourLine(j) \/ Sweep(j) \/ Leave(j) \/ Rejoin(j) PROVE NoneLost
  BY <1>3 DEF YourLine, Sweep, Leave, Rejoin, NoneLost
<1>4. ASSUME NEW s \in Scopes, Stop(s) \/ Lift(s) PROVE NoneLost  BY <1>4, StopsLoseNone
<1>5. ASSUME NEW r \in DOMAIN rows, Dispatch(r) PROVE NoneLost  BY <1>5, OpeningLosesNone DEF Dispatch
<1>6. ASSUME NEW r \in DOMAIN rows, WaitsOnYou(r) PROVE NoneLost
  <2>1. rows[r] \in Row /\ rows' = [rows EXCEPT ![r] = [rows[r] EXCEPT !.at = "void"]]
    BY <1>6, ARow DEF WaitsOnYou
  <2>2. ~Lost([rows[r] EXCEPT !.at = "void"])  BY <2>1 DEF Lost, Row
  <2> QED  BY <2>1, <2>2 DEF NoneLost
<1>7. ASSUME NEW r \in DOMAIN rows, Fire(r)
      PROVE  NoneLost \/ \A q \in DOMAIN rows : Lost(rows'[q]) => Lost(rows[q]) \/ rows[q].job \in away \cup cut
  <2>1. CASE ~SpentOnNobody(rows[r].job)  BY <1>7, <2>1, FireIsTold
  <2>2. CASE SpentOnNobody(rows[r].job)
    <3>1. \A q \in DOMAIN rows : q = r \/ rows'[q] = rows[q]  BY <1>7 DEF Fire
    <3> QED  BY <2>2, <3>1 DEF SpentOnNobody
  <2> QED  BY <2>1, <2>2
<1>8. ASSUME NEW claimed, Dies(claimed) PROVE used'.crashes # used.crashes
  <2>1. used.crashes \in Nat  BY CheckBacksAssumption DEF Inv, TypeOK
  <2>2. used'.crashes = used.crashes + 1  BY <1>8 DEF Dies, Inv, TypeOK
  <2> QED  BY <2>1, <2>2
<1>9. CASE UNCHANGED vars  BY <1>9 DEF vars
<1> QED  BY <1>1, <1>2, <1>3, <1>4, <1>5, <1>6, <1>7, <1>8, <1>9 DEF Next, NoneLost, Crash, CrashInFire

\* A fired reminder is mail or was read: fireCheckBack tells it to the segment at work,
\* queues it or opens a segment on it, and no later step takes it back, unless the
\* process dies between the claim and the telling, the Bot is gone from the
\* conversation, or the job's segment is aborted and has not unwound.
THEOREM SpentOnSomebody == Spec => SpentIsTold
<1> DEFINE Told == \A r \in DOMAIN rows :
                     Lost(rows'[r]) => \/ Lost(rows[r]) \/ used'.crashes # used.crashes
                                       \/ rows[r].job \in away \cup cut
<1>1. Inv /\ [Next]_vars => [Told]_vars  BY NextTells
<1>2. []Inv /\ [][Next]_vars => [][Told]_vars  BY <1>1, PTL
<1>3. [][Told]_vars <=> SpentIsTold  BY DEF SpentIsTold
<1> QED  BY <1>2, <1>3, InvHolds, PTL DEF Spec
=============================================================================
