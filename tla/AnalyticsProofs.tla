--------------------------- MODULE AnalyticsProofs --------------------------
(***************************************************************************)
(* Theorems about the events of a creator's page and the job that deletes  *)
(* them: for any number of visits, any queue, batches and windows.         *)
(***************************************************************************)
EXTENDS Analytics, SumLemmas

-----------------------------------------------------------------------------
(* Days come in the order of their ticks.                                  *)
LEMMA DaysAreOrdered ==
    ASSUME NEW s \in Int, NEW t \in Int, s <= t
    PROVE  Day(s) <= Day(t) /\ Day(s) \in Int /\ Day(t) \in Int /\ (s \in Nat => Day(s) \in Nat)
<1>1. DayLength \in Nat \ {0}
    BY AnalyticsAssumption
<1>2. PICK a \in Int, b \in Int : a = s \div DayLength /\ b = t \div DayLength
    BY <1>1
<1>3. a * DayLength + (s % DayLength) = s /\ s % DayLength \in 0..(DayLength - 1)
    BY <1>1, <1>2
<1>4. b * DayLength + (t % DayLength) = t /\ t % DayLength \in 0..(DayLength - 1)
    BY <1>1, <1>2
<1>5. a <= b
    <2> SUFFICES ASSUME a >= b + 1 PROVE FALSE
        OBVIOUS
    <2>1. a * DayLength >= (b + 1) * DayLength
        BY <1>1
    <2> QED BY <1>1, <1>3, <1>4, <2>1
<1>6. s \in Nat => a \in Nat
    BY <1>1, <1>3
<1> QED BY <1>2, <1>5, <1>6 DEF Day

EventRow == [step : {"unseen", "hashed", "queued", "known", "stored", "gone"},
             kind : Kinds \cup {None}, browser : Browsers \cup {None},
             at : Nat \cup {None}, occurred : Nat \cup {None}, row : VisitorRows \cup {None}]

LEMMA CutoffIsInt ==
    ASSUME AnalyticsTypeOK
    PROVE  now \in Nat /\ Cutoff \in Int /\ Day(Cutoff) \in Int
<1>1. RetentionDays * DayLength \in Nat
    BY AnalyticsAssumption
<1>2. now \in Nat /\ Cutoff \in Int
    BY <1>1, AnalyticsAssumption DEF AnalyticsTypeOK, Cutoff
<1> QED BY <1>2, DaysAreOrdered

(* What the invariant says of one visit.                                   *)
VisitIsSound(v) ==
    /\ VisitIsTimed(v)
    /\ visit[v].step \in {"known", "stored"} /\ visit[v].occurred >= Cutoff =>
          visit[v].row \in visitors /\ visit[v].row.seenOn = Day(visit[v].occurred)

LEMMA InvByVisit ==
    /\ AnalyticsInv <=> AnalyticsTypeOK /\ \A v \in Visits : VisitIsSound(v)
    /\ AnalyticsInv' <=> AnalyticsTypeOK' /\ \A v \in Visits : VisitIsSound(v)'
BY DEF AnalyticsInv, EventsKnowTheirVisitor, VisitIsSound, At

LEMMA AnalyticsStarts == AnalyticsInit => AnalyticsInv
<1> SUFFICES ASSUME AnalyticsInit PROVE AnalyticsInv
    OBVIOUS
<1>1. Unseen \in EventRow /\ Unseen.step = "unseen"
    BY DEF Unseen, EventRow
<1>2. 0 \in 0..(MaxBatches - 1) /\ 0 \in 0..Horizon /\ 0 \in 0..MaxFailures
    BY AnalyticsAssumption
<1>3. AnalyticsTypeOK
    BY <1>1, <1>2 DEF AnalyticsInit, AnalyticsTypeOK, EventRow
<1> QED BY <1>1, <1>3, InvByVisit DEF AnalyticsInit, VisitIsSound, VisitIsTimed

(* One visit gets another row; the visitors stay, or one joins them.       *)
LEMMA OneVisit ==
    ASSUME AnalyticsInv, NEW v \in Visits, NEW new \in EventRow,
           visit' = [visit EXCEPT ![v] = new],
           visitors \subseteq visitors', visitors' \subseteq VisitorRows,
           UNCHANGED <<now, linkDeleted, sweep, failures>>,
           VisitIsSound(v)'
    PROVE  AnalyticsInv'
<1>1. AnalyticsTypeOK /\ \A u \in Visits : VisitIsSound(u)
    BY InvByVisit
<1>2. visit' \in [Visits -> EventRow] /\ \A u \in Visits \ {v} : visit'[u] = visit[u]
    BY <1>1 DEF AnalyticsTypeOK, EventRow
<1>3. AnalyticsTypeOK'
    BY <1>1, <1>2 DEF AnalyticsTypeOK, EventRow
<1>4. ASSUME NEW u \in Visits PROVE VisitIsSound(u)'
    BY <1>1, <1>2 DEF VisitIsSound, VisitIsTimed, Cutoff
<1> QED BY <1>3, <1>4, InvByVisit

LEMMA VisitSteps ==
    ASSUME AnalyticsInv, NEW v \in Visits,
           \/ \E b \in Browsers, kind \in Kinds : Visit(v, b, kind)
           \/ Record(v) \/ UpsertVisitor(v) \/ InsertEvent(v) \/ LoseEvent(v)
    PROVE  AnalyticsInv'
<1>1. /\ AnalyticsTypeOK /\ VisitIsSound(v) /\ VisitIsTimed(v) /\ visit[v] \in EventRow
      /\ visit \in [Visits -> EventRow] /\ visitors \subseteq VisitorRows /\ now \in Nat
    BY InvByVisit, CutoffIsInt DEF VisitIsSound, AnalyticsTypeOK, EventRow
<1>2. Gone \in EventRow /\ Gone.step = "gone"
    BY DEF Gone, Unseen, EventRow
<1>3. CASE \E b \in Browsers, kind \in Kinds : Visit(v, b, kind)
    <2>1. PICK b \in Browsers, kind \in Kinds : Visit(v, b, kind)
        BY <1>3
    <2>2. PICK new : new = [visit[v] EXCEPT !.step = "hashed", !.kind = kind, !.browser = b,
                                            !.at = now]
        OBVIOUS
    <2>3. new \in EventRow /\ new.step = "hashed" /\ new.browser = b /\ new.at = now
        BY <1>1, <2>2 DEF EventRow
    <2>4. visit' = [visit EXCEPT ![v] = new] /\ UNCHANGED <<now, visitors, linkDeleted, sweep, failures>>
        BY <2>1, <2>2 DEF Visit
    <2>5. VisitIsSound(v)'
        BY <1>1, <2>3, <2>4 DEF VisitIsSound, VisitIsTimed
    <2> QED BY <1>1, <2>3, <2>4, <2>5, OneVisit
<1>4. ASSUME visit' = [visit EXCEPT ![v] = Gone],
             UNCHANGED <<now, visitors, linkDeleted, sweep, failures>>
      PROVE  AnalyticsInv'
    <2>1. VisitIsSound(v)'
        BY <1>1, <1>2, <1>4 DEF VisitIsSound, VisitIsTimed
    <2> QED BY <1>1, <1>2, <1>4, <2>1, OneVisit
<1>5. CASE Record(v)
    <2>1. CASE Cardinality(At("queued")) < QueueSize
        <3>1. PICK new : new = [visit[v] EXCEPT !.step = "queued", !.occurred = now]
            OBVIOUS
        <3>2. /\ new \in EventRow /\ new.step = "queued" /\ new.occurred = now
              /\ new.browser = visit[v].browser /\ new.at = visit[v].at
            BY <1>1, <3>1 DEF EventRow
        <3>3. /\ visit[v].step = "hashed" /\ visit' = [visit EXCEPT ![v] = new]
              /\ UNCHANGED <<now, visitors, linkDeleted, sweep, failures>>
            BY <1>1, <1>5, <2>1, <3>1 DEF Record
        <3>4. VisitIsSound(v)'
            BY <1>1, <3>2, <3>3 DEF VisitIsSound, VisitIsTimed
        <3> QED BY <1>1, <3>2, <3>3, <3>4, OneVisit
    <2>2. CASE ~(Cardinality(At("queued")) < QueueSize)
        BY <1>4, <1>5, <2>2 DEF Record
    <2> QED BY <2>1, <2>2
<1>6. CASE UpsertVisitor(v)
    <2>1. PICK row, new : row = VisitorRow(v) /\ new = [visit[v] EXCEPT !.step = "known", !.row = row]
        OBVIOUS
    <2>2. /\ visit[v].step = "queued" /\ visit' = [visit EXCEPT ![v] = new]
          /\ visitors' = visitors \cup {row}
          /\ UNCHANGED <<now, linkDeleted, sweep, failures>>
        BY <1>1, <1>6, <2>1 DEF UpsertVisitor
    <2>3. row \in VisitorRows /\ row.seenOn = Day(visit[v].occurred)
        <3>1. /\ visit[v].browser \in Browsers /\ visit[v].at \in Nat
              /\ visit[v].occurred \in Nat
            BY <1>1, <2>2 DEF VisitIsTimed
        <3>2. Day(visit[v].at) \in Nat /\ Day(visit[v].occurred) \in Nat
            BY <3>1, DaysAreOrdered
        <3> QED BY <2>1, <3>1, <3>2 DEF VisitorRow, VisitorRows
    <2>4. /\ new \in EventRow /\ new.step = "known" /\ new.row = row
          /\ new.browser = visit[v].browser /\ new.at = visit[v].at
          /\ new.occurred = visit[v].occurred
        BY <1>1, <2>1, <2>3 DEF EventRow
    <2>5. VisitIsSound(v)'
        BY <1>1, <2>2, <2>3, <2>4 DEF VisitIsSound, VisitIsTimed
    <2> QED BY <1>1, <2>2, <2>3, <2>4, <2>5, OneVisit
<1>7. CASE InsertEvent(v)
    <2>1. PICK new : new = [visit[v] EXCEPT !.step = "stored"]
        OBVIOUS
    <2>2. /\ visit[v].step = "known" /\ visit' = [visit EXCEPT ![v] = new]
          /\ UNCHANGED <<now, visitors, linkDeleted, sweep, failures>>
        BY <1>1, <1>7, <2>1 DEF InsertEvent
    <2>3. /\ new \in EventRow /\ new.step = "stored" /\ new.row = visit[v].row
          /\ new.browser = visit[v].browser /\ new.at = visit[v].at
          /\ new.occurred = visit[v].occurred
        BY <1>1, <2>1 DEF EventRow
    <2>4. VisitIsSound(v)'
        BY <1>1, <2>2, <2>3 DEF VisitIsSound, VisitIsTimed, Cutoff
    <2> QED BY <1>1, <2>2, <2>3, <2>4, OneVisit
<1>8. CASE LoseEvent(v)
    BY <1>4, <1>8 DEF LoseEvent
<1> QED BY <1>3, <1>5, <1>6, <1>7, <1>8

(* Rows of events go: a deleted link, or a batch of the job.               *)
LEMMA EventsGo ==
    ASSUME AnalyticsInv, NEW lost,
           visit' = [v \in Visits |-> IF v \in lost THEN Gone ELSE visit[v]],
           UNCHANGED <<now, visitors, failures>>,
           linkDeleted' \in BOOLEAN,
           sweep' \in [step : {"idle", "events", "visitors"}, batches : 0..(MaxBatches - 1)]
    PROVE  AnalyticsInv'
<1>1. AnalyticsTypeOK /\ \A v \in Visits : VisitIsSound(v)
    BY InvByVisit
<1>2. Gone \in EventRow /\ Gone.step = "gone"
    BY DEF Gone, Unseen, EventRow
<1>3. visit' \in [Visits -> EventRow]
    BY <1>1, <1>2 DEF AnalyticsTypeOK, EventRow
<1>4. AnalyticsTypeOK'
    BY <1>1, <1>3 DEF AnalyticsTypeOK, EventRow
<1>5. ASSUME NEW v \in Visits PROVE VisitIsSound(v)'
    <2>1. CASE v \in lost
        BY <1>2, <2>1 DEF VisitIsSound, VisitIsTimed
    <2>2. CASE v \notin lost
        BY <1>1, <2>2 DEF VisitIsSound, VisitIsTimed, Cutoff
    <2> QED BY <2>1, <2>2
<1> QED BY <1>4, <1>5, InvByVisit

LEMMA BatchTypes ==
    ASSUME AnalyticsTypeOK, NEW n, NEW after \in {"idle", "visitors"}, NextBatch(n, after)
    PROVE  sweep' \in [step : {"idle", "events", "visitors"}, batches : 0..(MaxBatches - 1)]
<1>1. MaxBatches \in Nat \ {0} /\ sweep.batches \in 0..(MaxBatches - 1)
      /\ sweep.step \in {"idle", "events", "visitors"}
    BY AnalyticsAssumption DEF AnalyticsTypeOK
<1>2. CASE sweep' = [step |-> after, batches |-> 0]
    BY <1>1, <1>2
<1>3. CASE sweep' = [sweep EXCEPT !.batches = @ + 1] /\ sweep.batches + 1 # MaxBatches
    BY <1>1, <1>3 DEF AnalyticsTypeOK
<1> QED BY <1>2, <1>3 DEF NextBatch

(* The job deletes visitors of days before the one its window begins in,   *)
(* and with them no visitor of an event that is inside the window.         *)
LEMMA VisitorsGo ==
    ASSUME AnalyticsInv, DeleteVisitors
    PROVE  AnalyticsInv'
<1>1. AnalyticsTypeOK /\ \A v \in Visits : VisitIsSound(v)
    BY InvByVisit
<1>2. PICK batch \in SUBSET ExpiredVisitors :
         /\ visitors' = visitors \ batch
         /\ visit' = [v \in Visits |-> IF v \in At("stored") /\ visit[v].row \in batch
                                       THEN [visit[v] EXCEPT !.row = None] ELSE visit[v]]
         /\ NextBatch(Cardinality(batch), "idle")
         /\ UNCHANGED <<now, linkDeleted, failures>>
    BY DEF DeleteVisitors, Oldest
<1>3. sweep' \in [step : {"idle", "events", "visitors"}, batches : 0..(MaxBatches - 1)]
    BY <1>1, <1>2, BatchTypes
<1>4. ASSUME NEW v \in Visits
      PROVE  /\ visit'[v] \in EventRow /\ visit'[v].step = visit[v].step
             /\ visit'[v].browser = visit[v].browser /\ visit'[v].at = visit[v].at
             /\ visit'[v].occurred = visit[v].occurred
             /\ visit[v].row \notin batch => visit'[v] = visit[v]
    <2>1. visit[v] \in EventRow
        BY <1>1 DEF AnalyticsTypeOK, EventRow
    <2>2. CASE v \in At("stored") /\ visit[v].row \in batch
        BY <1>2, <2>1, <2>2 DEF EventRow
    <2>3. CASE ~(v \in At("stored") /\ visit[v].row \in batch)
        BY <1>2, <2>1, <2>3
    <2> QED BY <2>2, <2>3
<1>5. visit' \in [Visits -> EventRow]
    BY <1>2, <1>4
<1>6. AnalyticsTypeOK'
    BY <1>1, <1>2, <1>3, <1>5 DEF AnalyticsTypeOK, EventRow
<1>7. ASSUME NEW v \in Visits PROVE VisitIsSound(v)'
    <2>1. VisitIsTimed(v)'
        BY <1>1, <1>4 DEF VisitIsSound, VisitIsTimed
    <2>2. ASSUME visit[v].step \in {"known", "stored"}, visit[v].occurred >= Cutoff
          PROVE  visit[v].row \in visitors \ batch /\ visit[v].row.seenOn = Day(visit[v].occurred)
        <3>1. visit[v].row \in visitors /\ visit[v].row.seenOn = Day(visit[v].occurred)
            BY <1>1, <2>2 DEF VisitIsSound
        <3>2. visit[v].occurred \in Nat
            BY <1>1, <2>2 DEF VisitIsSound, VisitIsTimed
        <3>3. Day(Cutoff) <= Day(visit[v].occurred) /\ Day(Cutoff) \in Int /\ Day(visit[v].occurred) \in Int
            BY <1>1, <2>2, <3>2, CutoffIsInt, DaysAreOrdered
        <3>4. visit[v].row \notin batch
            BY <1>2, <3>1, <3>3 DEF ExpiredVisitors
        <3> QED BY <3>1, <3>4
    <2>3. Cutoff' = Cutoff
        BY <1>2 DEF Cutoff
    <2> QED BY <1>2, <1>4, <2>1, <2>2, <2>3 DEF VisitIsSound
<1> QED BY <1>6, <1>7, InvByVisit

LEMMA TickKeeps ==
    ASSUME AnalyticsInv, Tick
    PROVE  AnalyticsInv'
<1>1. AnalyticsTypeOK /\ \A v \in Visits : VisitIsSound(v)
    BY InvByVisit
<1>2. AnalyticsTypeOK'
    BY <1>1, AnalyticsAssumption DEF Tick, AnalyticsTypeOK
<1>3. Cutoff' = Cutoff + 1 /\ Cutoff \in Int
    <2>1. RetentionDays * DayLength \in Nat
        BY AnalyticsAssumption
    <2>2. now' = now + 1 /\ now \in Nat
        BY <1>1, CutoffIsInt DEF Tick
    <2> QED BY <2>1, <2>2 DEF Cutoff
<1>4. ASSUME NEW v \in Visits PROVE VisitIsSound(v)'
    BY <1>1, <1>3 DEF Tick, VisitIsSound, VisitIsTimed
<1> QED BY <1>2, <1>4, InvByVisit

LEMMA AnalyticsStep ==
    ASSUME AnalyticsInv, [AnalyticsNext]_analyticsVars
    PROVE  AnalyticsInv'
<1>1. AnalyticsTypeOK
    BY InvByVisit
<1>2. ASSUME UNCHANGED countVars, failures' \in 0..MaxFailures,
             sweep' \in [step : {"idle", "events", "visitors"}, batches : 0..(MaxBatches - 1)]
      PROVE  AnalyticsInv'
    BY <1>1, <1>2 DEF countVars, AnalyticsInv, EventsKnowTheirVisitor, AnalyticsTypeOK, VisitIsTimed,
       At, Cutoff
<1>3. CASE StartSweep \/ FailSweep
    <2>1. 0 \in 0..(MaxBatches - 1)
        BY AnalyticsAssumption
    <2>2. failures' \in 0..MaxFailures
        BY <1>1, <1>3, AnalyticsAssumption DEF StartSweep, FailSweep, AnalyticsTypeOK
    <2> QED BY <1>2, <1>3, <2>1, <2>2 DEF StartSweep, FailSweep
<1>4. CASE DeleteEvents
    <2>1. PICK batch : /\ visit' = [v \in Visits |-> IF v \in batch THEN Gone ELSE visit[v]]
                       /\ NextBatch(Cardinality(batch), "visitors")
                       /\ UNCHANGED <<now, visitors, linkDeleted, failures>>
        BY <1>4 DEF DeleteEvents
    <2> QED BY <1>1, <2>1, BatchTypes, EventsGo DEF AnalyticsTypeOK
<1>5. CASE DeleteLink
    <2>1. PICK clicks : /\ visit' = [v \in Visits |-> IF v \in clicks THEN Gone ELSE visit[v]]
                        /\ linkDeleted' = TRUE
                        /\ UNCHANGED <<now, visitors, sweep, failures>>
        BY <1>5 DEF DeleteLink
    <2> QED BY <1>1, <2>1, EventsGo DEF AnalyticsTypeOK
<1>6. CASE \/ \E range \in Ranges : EventTotals(range)
           \/ VisitorDays \/ DailySeries \/ TopLinks \/ UNCHANGED analyticsVars
    <2>1. UNCHANGED <<countVars, sweep, failures>>
        BY <1>6 DEF EventTotals, VisitorDays, DailySeries, TopLinks, analyticsVars, countVars
    <2> QED BY <1>1, <1>2, <2>1 DEF AnalyticsTypeOK
<1>7. ASSUME NEW v \in Visits,
             \/ \E b \in Browsers, kind \in Kinds : Visit(v, b, kind)
             \/ Record(v) \/ UpsertVisitor(v) \/ InsertEvent(v) \/ LoseEvent(v)
      PROVE  AnalyticsInv'
    BY <1>7, VisitSteps
<1> QED BY <1>3, <1>4, <1>5, <1>6, <1>7, VisitorsGo, TickKeeps DEF AnalyticsNext, SweepStep

(* The invariant of the events: what each request has been given by the    *)
(* clock, and the visitor of each event inside the window.                 *)
THEOREM AnalyticsInvariance == AnalyticsSpec => []AnalyticsInv
BY AnalyticsStarts, AnalyticsStep, PTL DEF AnalyticsSpec

(* Whatever the job deletes between the two statements of the writer, an   *)
(* event keeps the visitor of its own day as long as it is in the window.  *)
THEOREM VisitorsOutliveEvents == AnalyticsSpec => []EventsKnowTheirVisitor
<1>1. AnalyticsInv => EventsKnowTheirVisitor
    BY DEF AnalyticsInv
<1> QED BY <1>1, AnalyticsInvariance, PTL

-----------------------------------------------------------------------------
(* Reports.                                                                *)

(* What a query counts is finite.                                          *)
LEMMA CountsAreFinite ==
    ASSUME IsFiniteSet(Touched), IsFiniteSet(visitors), NEW range, NEW kind, NEW days
    PROVE  /\ IsFiniteSet(Counted(range, kind)) /\ Cardinality(Counted(range, kind)) \in Nat
           /\ IsFiniteSet({r \in visitors : r.seenOn \in days}) /\ VisitorsOn(days) \in Nat
<1>1. Counted(range, kind) \in SUBSET Touched
    BY DEF Counted, At, Touched
<1>2. IsFiniteSet(Counted(range, kind)) /\ IsFiniteSet({r \in visitors : r.seenOn \in days})
    BY <1>1, FS_Subset
<1> QED BY <1>2, FS_CardinalityType DEF VisitorsOn

(* Events that are in the table stay there as they are.                    *)
RowsStay ==
    \A v \in Visits : visit[v].step = "stored" =>
        /\ visit'[v].step = "stored"
        /\ visit'[v].kind = visit[v].kind /\ visit'[v].occurred = visit[v].occurred

(* When nothing goes, no count of a later snapshot is less.                *)
LEMMA CountsGrow ==
    ASSUME IsFiniteSet(Touched), IsFiniteSet(visitors),
           IsFiniteSet(Touched'), IsFiniteSet(visitors'),
           RowsStay, visitors \subseteq visitors', NEW range, NEW kind, NEW days
    PROVE  /\ Cardinality(Counted(range, kind)) \in Nat /\ Cardinality(Counted(range, kind)') \in Nat
           /\ Cardinality(Counted(range, kind)) <= Cardinality(Counted(range, kind)')
           /\ VisitorsOn(days) \in Nat /\ VisitorsOn(days)' \in Nat
           /\ VisitorsOn(days) <= VisitorsOn(days)'
<1>1. Counted(range, kind) \subseteq Counted(range, kind)'
    BY DEF RowsStay, Counted, At, InRange, Day
<1>2. Counted(range, kind)' \in SUBSET (Touched')
    BY DEF Counted, At, Touched
<1>3. IsFiniteSet(Counted(range, kind)')
    BY <1>2, FS_Subset
<1>4. Cardinality(Counted(range, kind)) <= Cardinality(Counted(range, kind)')
    BY <1>1, <1>3, FS_Subset
<1> DEFINE Seen == {r \in visitors : r.seenOn \in days}
           SeenThen == {r \in visitors' : r.seenOn \in days}
<1>5. Seen \subseteq SeenThen /\ IsFiniteSet(SeenThen)
    BY FS_Subset
<1>6. Cardinality(Seen) <= Cardinality(SeenThen) /\ Cardinality(SeenThen) \in Nat
    <2> HIDE DEF Seen, SeenThen
    <2> QED BY <1>5, FS_Subset, FS_CardinalityType
<1>7. VisitorsOn(days) = Cardinality(Seen) /\ VisitorsOn(days)' = Cardinality(SeenThen)
    BY DEF VisitorsOn
<1> QED BY <1>3, <1>4, <1>6, <1>7, CountsAreFinite, FS_CardinalityType

(* The report is left alone, and nothing goes.                             *)
LEMMA ReportWaits ==
    ASSUME ReportInv, report' = report, IsFiniteSet(Touched'), IsFiniteSet(visitors'),
           RowsStay, visitors \subseteq visitors'
    PROVE  ReportInv'
<1>1. IsFiniteSet(Touched) /\ IsFiniteSet(visitors)
    BY DEF ReportInv
<1>2. PICK range : range = report.range
    OBVIOUS
<1>3. ReportShape' /\ ReportAddsUp'
    BY DEF ReportInv, ReportShape, ReportAddsUp, Days
<1>4. ASSUME report.step \in {"totals", "visitors"}, ~report.shrunk, NEW k \in Kinds
      PROVE  report'.totals[k] <= Cardinality(Counted(report.range, k)')
    <2>1. report.totals[k] <= Cardinality(Counted(range, k)) /\ report.totals[k] \in Nat
        BY <1>2, <1>4 DEF ReportInv, ReportShape
    <2>2. /\ Cardinality(Counted(range, k)) <= Cardinality(Counted(range, k)')
          /\ Cardinality(Counted(range, k)) \in Nat /\ Cardinality(Counted(range, k)') \in Nat
        BY <1>1, CountsGrow
    <2>3. Counted(range, k)' = Counted(report.range, k)'
        BY <1>2 DEF Counted, At, InRange, Day
    <2> QED BY <2>1, <2>2, <2>3
<1>5. ASSUME report.step = "visitors", ~report.shrunk
      PROVE  report'.visitors <= VisitorsOn(Days(report.range))'
    <2>1. PICK days : days = Days(range)
        OBVIOUS
    <2>2. report.visitors <= VisitorsOn(days) /\ report.visitors \in Nat
        BY <1>2, <1>5, <2>1 DEF ReportInv, ReportShape
    <2>3. VisitorsOn(days) <= VisitorsOn(days)' /\ VisitorsOn(days) \in Nat /\ VisitorsOn(days)' \in Nat
        BY <1>1, CountsGrow
    <2>4. VisitorsOn(days)' = VisitorsOn(Days(report.range))'
        BY <1>2, <2>1 DEF VisitorsOn, Days
    <2> QED BY <2>2, <2>3, <2>4
<1> QED BY <1>3, <1>4, <1>5 DEF ReportInv

(* Rows go: the report is marked, if there is one.                         *)
LEMMA ReportNotes ==
    ASSUME ReportInv, NEW lost, Note(lost), IsFiniteSet(Touched'), IsFiniteSet(visitors'),
           ~lost => RowsStay /\ visitors \subseteq visitors'
    PROVE  ReportInv'
<1>1. ReportShape
    BY DEF ReportInv
<1> PICK mark : /\ mark = (report.shrunk \/ (report.step # "idle" /\ lost))
                /\ report' = [report EXCEPT !.shrunk = mark]
    BY DEF Note
<1>2. CASE ~lost
    <2>1. mark = report.shrunk
        BY <1>1, <1>2 DEF ReportShape
    <2>2. report' = report
        BY <1>1, <2>1 DEF ReportShape
    <2> QED BY <1>2, <2>2, ReportWaits
<1>3. CASE lost /\ report.step = "idle"
    <2>1. mark = report.shrunk
        BY <1>1, <1>3 DEF ReportShape
    <2>2. report' = report
        BY <1>1, <2>1 DEF ReportShape
    <2> QED BY <1>1, <1>3, <2>2 DEF ReportInv, ReportShape, ReportAddsUp
<1>4. CASE lost /\ report.step # "idle"
    <2>1. mark = TRUE
        BY <1>4
    <2>2. /\ report' = [step |-> report.step, range |-> report.range, totals |-> report.totals,
                        visitors |-> report.visitors, days |-> report.days, shrunk |-> TRUE]
        BY <1>1, <2>1 DEF ReportShape
    <2>3. ReportShape' /\ report'.shrunk
        BY <1>1, <2>2 DEF ReportShape
    <2> QED BY <2>3 DEF ReportInv, ReportAddsUp
<1> QED BY <1>2, <1>3, <1>4

(* The queries of the totals and of the visitors.                          *)
LEMMA ReportStarts ==
    ASSUME ReportInv, NEW range \in Ranges, EventTotals(range)
    PROVE  ReportInv'
<1> PICK totals : /\ totals = [k \in Kinds |-> Cardinality(Counted(range, k))]
                  /\ report' = [NoReport EXCEPT !.step = "totals", !.range = range, !.totals = totals]
    BY DEF EventTotals
<1>1. IsFiniteSet(Touched) /\ IsFiniteSet(visitors)
    BY DEF ReportInv
<1>2. UNCHANGED countVars
    BY DEF EventTotals
<1>3. report' = [step |-> "totals", range |-> range, totals |-> totals,
                 visitors |-> None, days |-> None, shrunk |-> FALSE]
    BY DEF NoReport
<1>4. /\ totals \in [Kinds -> Nat]
      /\ \A k \in Kinds : totals[k] = Cardinality(Counted(range, k))
    BY <1>1, CountsAreFinite
<1>5. ReportShape' /\ report'.step = "totals" /\ report'.totals = totals
    <2>1. /\ report'.step = "totals" /\ report'.range = range /\ report'.totals = totals
          /\ report'.visitors = None /\ report'.days = None /\ report'.shrunk = FALSE
        BY ONLY <1>3
    <2>2. report' = [step |-> report'.step, range |-> report'.range, totals |-> report'.totals,
                     visitors |-> report'.visitors, days |-> report'.days, shrunk |-> report'.shrunk]
        BY ONLY <1>3
    <2>3. totals \in [Kinds -> Nat]
        BY <1>4
    <2> QED BY ONLY <2>1, <2>2, <2>3, range \in Ranges DEF ReportShape
<1>6. ASSUME NEW k \in Kinds PROVE Cardinality(Counted(report.range, k)') = totals[k]
    <2>1. Counted(report.range, k)' = Counted(range, k)
        BY <1>2, <1>3 DEF Counted, At, InRange, Day, countVars
    <2> QED BY <1>4, <2>1
<1>7. IsFiniteSet(Touched') /\ IsFiniteSet(visitors')
    BY <1>1, <1>2 DEF Touched, countVars
<1>8. \A k \in Kinds : report'.totals[k] <= Cardinality(Counted(report.range, k)')
    BY <1>4, <1>5, <1>6
<1> QED BY <1>5, <1>7, <1>8 DEF ReportInv, ReportAddsUp

(* VisitorDays: the second query of a report.                              *)
LEMMA ReportGoesOn ==
    ASSUME ReportInv, VisitorDays
    PROVE  ReportInv'
<1> PICK seen : seen = VisitorsOn(Days(report.range))
    OBVIOUS
<1>1. /\ IsFiniteSet(Touched) /\ IsFiniteSet(visitors) /\ ReportShape
      /\ report.step = "totals" /\ UNCHANGED countVars
    BY DEF ReportInv, VisitorDays
<1>2. report' = [step |-> "visitors", range |-> report.range, totals |-> report.totals,
                 visitors |-> seen, days |-> report.days, shrunk |-> report.shrunk]
    <2>1. report' = [report EXCEPT !.step = "visitors", !.visitors = seen]
        BY DEF VisitorDays
    <2> QED BY <1>1, <2>1 DEF ReportShape
<1>3. seen \in Nat
    BY <1>1, CountsAreFinite
<1>4. ReportShape'
    BY <1>1, <1>2, <1>3 DEF ReportShape
<1>5. IsFiniteSet(Touched') /\ IsFiniteSet(visitors')
    BY <1>1 DEF Touched, countVars
<1>6. VisitorsOn(Days(report.range))' = seen
    BY <1>1, <1>2 DEF VisitorsOn, Days, countVars
<1>7. ASSUME NEW k \in Kinds, ~report.shrunk
      PROVE  report'.totals[k] <= Cardinality(Counted(report.range, k)')
    <2>1. Counted(report.range, k)' = Counted(report.range, k)
        BY <1>1, <1>2 DEF Counted, At, InRange, Day, countVars
    <2>2. report.totals[k] <= Cardinality(Counted(report.range, k))
        BY <1>1, <1>7 DEF ReportInv
    <2> QED BY <1>2, <2>1, <2>2
<1> QED BY <1>2, <1>3, <1>4, <1>5, <1>6, <1>7 DEF ReportInv, ReportAddsUp

(* A range has finitely many days.                                         *)
LEMMA DaysAreFinite ==
    ASSUME NEW range \in Ranges
    PROVE  IsFiniteSet(Days(range))
<1>1. PICK a \in Int, b \in Int : a = range.from /\ b = range.to - 1
    BY AnalyticsAssumption
<1>2. IsFiniteSet(a..b)
    BY FS_Interval
<1> QED BY <1>1, <1>2 DEF Days

(* Each event of the range is in the row of one day of the calendar.       *)
LEMMA SeriesAddsUp ==
    ASSUME AnalyticsInv, IsFiniteSet(Touched), IsFiniteSet(visitors),
           NEW range \in Ranges, NEW kind
    PROVE  SumFunction([d \in Days(range) |->
                          Cardinality({v \in Counted(range, kind) : SeriesDay(visit[v].occurred) = d})])
           = Cardinality(Counted(range, kind))
<1> DEFINE A == Counted(range, kind)
           D == Days(range)
           class == [v \in A |-> SeriesDay(visit[v].occurred)]
           f == [d \in D |-> Cardinality({v \in A : SeriesDay(visit[v].occurred) = d})]
<1>1. IsFiniteSet(A) /\ IsFiniteSet(D)
    BY CountsAreFinite, DaysAreFinite
<1>2. \A v \in A : class[v] \in D
    <2> SUFFICES ASSUME NEW v \in A PROVE Day(visit[v].occurred) \in D
        BY DEF SeriesDay
    <2>1. v \in Visits /\ visit[v].step = "stored" /\ InRange(visit[v].occurred, range)
        BY DEF Counted, At
    <2>2. visit[v].occurred \in Nat
        BY <2>1 DEF AnalyticsInv, VisitIsTimed
    <2>3. Day(visit[v].occurred) \in Nat
        BY <2>2, DaysAreOrdered
    <2>4. range.from \in Nat /\ range.to \in Nat
        BY AnalyticsAssumption
    <2> QED BY <2>1, <2>3, <2>4 DEF InRange, Days
<1>3. ASSUME NEW d \in D PROVE f[d] = Cardinality(ClassOf(d, class, A))
    <2>1. ClassOf(d, class, A) = {v \in A : SeriesDay(visit[v].occurred) = d}
        BY DEF ClassOf
    <2> QED BY <2>1
<1>4. SumFunction(f) = SumFunctionOnSet(f, D)
    BY DEF SumFunction
<1> HIDE DEF A, D, class, f
<1>5. SumFunctionOnSet(f, D) = Cardinality(A)
    BY <1>1, <1>2, <1>3, SumOfClasses
<1>6. SumFunction(f) = Cardinality(A)
    BY <1>4, <1>5
<1> QED BY <1>6 DEF f, A, D

(* So is each visitor.                                                     *)
LEMMA VisitorSeriesAddsUp ==
    ASSUME IsFiniteSet(visitors), NEW range \in Ranges
    PROVE  SumFunction([d \in Days(range) |-> VisitorsOn({d})]) = VisitorsOn(Days(range))
<1> DEFINE D == Days(range)
           A == {r \in visitors : r.seenOn \in D}
           class == [r \in A |-> r.seenOn]
           f == [d \in D |-> VisitorsOn({d})]
<1>1. IsFiniteSet(A) /\ IsFiniteSet(D)
    BY FS_Subset, DaysAreFinite
<1>2. \A r \in A : class[r] \in D
    OBVIOUS
<1>3. ASSUME NEW d \in D PROVE f[d] = Cardinality(ClassOf(d, class, A))
    <2>1. ClassOf(d, class, A) = {r \in visitors : r.seenOn \in {d}}
        BY DEF ClassOf
    <2> QED BY <2>1 DEF VisitorsOn
<1>4. SumFunction(f) = SumFunctionOnSet(f, D)
    BY DEF SumFunction
<1>5. VisitorsOn(D) = Cardinality(A)
    BY DEF VisitorsOn
<1> HIDE DEF A, D, class, f
<1>6. SumFunctionOnSet(f, D) = Cardinality(A)
    BY <1>1, <1>2, <1>3, SumOfClasses
<1>7. SumFunction(f) = VisitorsOn(D)
    BY <1>4, <1>5, <1>6
<1> QED BY <1>7 DEF f, D

(* DailySeries: the chart adds up to the totals read before it.            *)
LEMMA ReportIsCharted ==
    ASSUME ReportInv, AnalyticsInv, DailySeries
    PROVE  ReportInv'
<1> DEFINE D == Days(report.range)
           Views(d) == Cardinality({v \in Counted(report.range, "profile_view") :
                                      SeriesDay(visit[v].occurred) = d})
           Clicks(d) == Cardinality({v \in Counted(report.range, "link_click") :
                                       SeriesDay(visit[v].occurred) = d})
           charted == [d \in D |-> [views |-> Views(d), clicks |-> Clicks(d),
                                    visitors |-> VisitorsOn({d})]]
<1>1. /\ IsFiniteSet(Touched) /\ IsFiniteSet(visitors) /\ ReportShape
      /\ report.step = "visitors" /\ report.range \in Ranges /\ UNCHANGED countVars
    BY DEF ReportInv, ReportShape, DailySeries
<1>2. report' = [report EXCEPT !.step = "days", !.days = charted]
    BY DEF DailySeries
<1>3. /\ SumFunction([d \in D |-> charted[d].views]) = Cardinality(Counted(report.range, "profile_view"))
      /\ SumFunction([d \in D |-> charted[d].clicks]) = Cardinality(Counted(report.range, "link_click"))
      /\ SumFunction([d \in D |-> charted[d].visitors]) = VisitorsOn(D)
    <2>1. /\ [d \in D |-> charted[d].views] = [d \in D |-> Views(d)]
          /\ [d \in D |-> charted[d].clicks] = [d \in D |-> Clicks(d)]
          /\ [d \in D |-> charted[d].visitors] = [d \in D |-> VisitorsOn({d})]
        <3> HIDE DEF Views, Clicks, D
        <3> QED OBVIOUS
    <2>2. SumFunction([d \in D |-> Views(d)]) = Cardinality(Counted(report.range, "profile_view"))
        BY <1>1, SeriesAddsUp
    <2>3. SumFunction([d \in D |-> Clicks(d)]) = Cardinality(Counted(report.range, "link_click"))
        BY <1>1, SeriesAddsUp
    <2>4. SumFunction([d \in D |-> VisitorsOn({d})]) = VisitorsOn(D)
        BY <1>1, VisitorSeriesAddsUp
    <2> HIDE DEF Views, Clicks, D, charted
    <2> QED BY <2>1, <2>2, <2>3, <2>4
<1> HIDE DEF charted
<1>4. report' = [step |-> "days", range |-> report.range, totals |-> report.totals,
                 visitors |-> report.visitors, days |-> charted, shrunk |-> report.shrunk]
    BY ONLY <1>1, <1>2 DEF ReportShape
<1>5. ReportShape' /\ report'.step = "days" /\ report'.days = charted /\ report'.range = report.range
      /\ report'.totals = report.totals /\ report'.visitors = report.visitors
      /\ report'.shrunk = report.shrunk
    BY ONLY <1>1, <1>4 DEF ReportShape
<1>6. IsFiniteSet(Touched') /\ IsFiniteSet(visitors')
    BY <1>1 DEF Touched, countVars
<1>7. ~report.shrunk =>
         /\ report.totals["profile_view"] <= SumFunction([d \in D |-> charted[d].views])
         /\ report.totals["link_click"] <= SumFunction([d \in D |-> charted[d].clicks])
         /\ report.visitors <= SumFunction([d \in D |-> charted[d].visitors])
    BY <1>1, <1>3 DEF ReportInv, Kinds
<1>8. ReportAddsUp'
    BY <1>5, <1>7 DEF ReportAddsUp, Days
<1> QED BY <1>5, <1>6, <1>8 DEF ReportInv

(* Writers add rows, one at a time.                                        *)
LEMMA WritersOnlyAdd ==
    ASSUME ReportInv, AnalyticsInv, NEW v \in Visits,
           \/ \E b \in Browsers, kind \in Kinds : Visit(v, b, kind)
           \/ Record(v) \/ UpsertVisitor(v) \/ InsertEvent(v) \/ LoseEvent(v)
    PROVE  ReportInv'
<1>1. /\ IsFiniteSet(Touched) /\ IsFiniteSet(visitors)
      /\ visit \in [Visits -> EventRow]
    BY DEF ReportInv, AnalyticsInv, EventsKnowTheirVisitor, AnalyticsTypeOK, EventRow
<1>2. /\ visit[v].step # "stored" /\ report' = report
      /\ \A u \in Visits \ {v} : visit'[u] = visit[u]
    BY <1>1 DEF Visit, Record, UpsertVisitor, InsertEvent, LoseEvent, UnderWay, At
<1>3. RowsStay
    BY <1>2 DEF RowsStay
<1>4. IsFiniteSet(Touched')
    <2>1. Touched' \in SUBSET (Touched \cup {v})
        BY <1>2 DEF Touched
    <2>2. IsFiniteSet(Touched \cup {v})
        BY <1>1, FS_AddElement
    <2> QED BY <2>1, <2>2, FS_Subset
<1>5. visitors \subseteq visitors' /\ IsFiniteSet(visitors')
    <2>1. visitors' = visitors \/ \E row : visitors' = visitors \cup {row}
        BY DEF Visit, Record, UpsertVisitor, InsertEvent, LoseEvent
    <2> QED BY <1>1, <2>1, FS_AddElement
<1> QED BY <1>2, <1>3, <1>4, <1>5, ReportWaits

(* A deletion that finds no row takes none.                                *)
LEMMA DeletionsAreNoted ==
    ASSUME ReportInv, AnalyticsInv, NEW rows \in SUBSET At("stored"),
           visit' = [v \in Visits |-> IF v \in rows THEN Gone ELSE visit[v]],
           Note(rows # {}), visitors' = visitors
    PROVE  ReportInv'
<1>1. IsFiniteSet(Touched) /\ IsFiniteSet(visitors)
    BY DEF ReportInv
<1>2. Touched' \in SUBSET Touched
    BY DEF Touched, At
<1>3. IsFiniteSet(Touched')
    BY <1>1, <1>2, FS_Subset
<1>4. ~(rows # {}) => RowsStay
    BY DEF RowsStay
<1> QED BY <1>1, <1>3, <1>4, ReportNotes

(* DeleteVisitors: a report notices that rows have gone.                   *)
LEMMA VisitorsAreNoted ==
    ASSUME ReportInv, AnalyticsInv, DeleteVisitors
    PROVE  ReportInv'
<1>1. PICK batch \in SUBSET ExpiredVisitors :
         /\ visitors' = visitors \ batch
         /\ visit' = [v \in Visits |-> IF v \in At("stored") /\ visit[v].row \in batch
                                       THEN [visit[v] EXCEPT !.row = None] ELSE visit[v]]
         /\ Note(batch # {})
    BY DEF DeleteVisitors, Oldest
<1>2. visit \in [Visits -> EventRow]
    BY DEF AnalyticsInv, EventsKnowTheirVisitor, AnalyticsTypeOK, EventRow
<1>3. ASSUME NEW v \in Visits
      PROVE  /\ visit'[v].step = visit[v].step /\ visit'[v].kind = visit[v].kind
             /\ visit'[v].occurred = visit[v].occurred
    <2>1. visit[v] \in EventRow
        BY <1>2
    <2>2. CASE v \in At("stored") /\ visit[v].row \in batch
        BY <1>1, <2>1, <2>2 DEF EventRow
    <2>3. CASE ~(v \in At("stored") /\ visit[v].row \in batch)
        BY <1>1, <2>3
    <2> QED BY <2>2, <2>3
<1>4. RowsStay /\ Touched' = Touched
    BY <1>3 DEF RowsStay, Touched
<1>5. IsFiniteSet(Touched') /\ IsFiniteSet(visitors')
    <2>1. IsFiniteSet(Touched) /\ IsFiniteSet(visitors) /\ visitors' \in SUBSET visitors
        BY <1>1 DEF ReportInv
    <2> QED BY <1>4, <2>1, FS_Subset
<1>6. ~(batch # {}) => visitors \subseteq visitors'
    BY <1>1
<1> QED BY <1>1, <1>4, <1>5, <1>6, ReportNotes

(* Every step keeps what a report has read.                                *)
LEMMA ReportStep ==
    ASSUME ReportInv, AnalyticsInv, [AnalyticsNext]_analyticsVars
    PROVE  ReportInv'
<1>1. IsFiniteSet(Touched) /\ IsFiniteSet(visitors) /\ ReportShape
    BY DEF ReportInv
<1>2. ASSUME UNCHANGED <<visit, visitors, report>>
      PROVE  ReportInv'
    <2>1. RowsStay /\ visitors \subseteq visitors' /\ IsFiniteSet(Touched') /\ IsFiniteSet(visitors')
        BY <1>1, <1>2 DEF RowsStay, Touched
    <2> QED BY <1>2, <2>1, ReportWaits
<1>3. CASE StartSweep \/ FailSweep \/ Tick \/ UNCHANGED analyticsVars
    BY <1>2, <1>3 DEF StartSweep, FailSweep, Tick, countVars, analyticsVars
<1>4. CASE DeleteLink
    <2>1. PICK clicks \in SUBSET At("stored") :
             /\ visit' = [v \in Visits |-> IF v \in clicks THEN Gone ELSE visit[v]]
             /\ Note(clicks # {})
        BY <1>4 DEF DeleteLink
    <2> QED BY <1>4, <2>1, DeletionsAreNoted DEF DeleteLink
<1>5. CASE DeleteEvents
    <2>1. PICK batch \in SUBSET ExpiredEvents :
             /\ visit' = [v \in Visits |-> IF v \in batch THEN Gone ELSE visit[v]]
             /\ Note(batch # {})
        BY <1>5 DEF DeleteEvents, Oldest
    <2>2. batch \in SUBSET At("stored") /\ visitors' = visitors
        BY <1>5 DEF DeleteEvents, ExpiredEvents
    <2> QED BY <2>1, <2>2, DeletionsAreNoted
<1>6. CASE TopLinks
    <2>1. report' = NoReport /\ UNCHANGED <<visit, visitors>>
        BY <1>6 DEF TopLinks, countVars
    <2>2. report'.step = "idle" /\ ReportShape'
        BY <2>1 DEF NoReport, ReportShape
    <2>3. IsFiniteSet(Touched') /\ IsFiniteSet(visitors')
        BY <1>1, <2>1 DEF Touched
    <2> QED BY <2>2, <2>3 DEF ReportInv, ReportAddsUp
<1> QED BY <1>3, <1>4, <1>5, <1>6, WritersOnlyAdd, VisitorsAreNoted, ReportStarts, ReportGoesOn,
           ReportIsCharted DEF AnalyticsNext, SweepStep

LEMMA NothingReported == AnalyticsInit => ReportInv
<1> SUFFICES ASSUME AnalyticsInit PROVE ReportInv
    OBVIOUS
<1>1. report = NoReport /\ visitors = {} /\ visit = [v \in Visits |-> Unseen]
    BY DEF AnalyticsInit
<1>2. report.step = "idle" /\ ReportShape
    BY <1>1 DEF NoReport, ReportShape
<1>3. Touched = {}
    BY <1>1 DEF Touched, Unseen
<1> QED BY <1>1, <1>2, <1>3, FS_EmptySet DEF ReportInv, ReportAddsUp

(* The days of a report's chart add up to at least the totals above it,    *)
(* kind by kind, and so do the visitors, although each query reads a later *)
(* snapshot: as long as no row goes in between, for any range, any number  *)
(* of writers and whatever they do meanwhile (report.go:109-111, 161-168). *)
THEOREM ReportsAddUp == AnalyticsSpec => []ReportAddsUp
<1>1. AnalyticsInit => ReportInv
    BY NothingReported
<1>2. AnalyticsInv /\ ReportInv /\ [AnalyticsNext]_analyticsVars => ReportInv'
    BY ReportStep
<1>3. ReportInv => ReportAddsUp
    BY DEF ReportInv
<1> QED BY <1>1, <1>2, <1>3, AnalyticsInvariance, PTL DEF AnalyticsSpec
=============================================================================
