----------------------------- MODULE Analytics ------------------------------
(***************************************************************************)
(* The views and clicks of one creator's page: counted by storefront and   *)
(* analytics, reported by analytics.Overview, and deleted after the        *)
(* retention window by jobs.DeleteExpiredAnalytics.                        *)
(*                                                                         *)
(* Time is counted in ticks, DayLength of them to a UTC day.  The hash of  *)
(* a visitor is its browser and the day it was computed on.  The visitor   *)
(* row and the event are two statements; so are the two deletions of the   *)
(* job and the queries of a report, each on its own snapshot.  The clock   *)
(* of the database's session is UTC too, as in the image that is deployed. *)
(***************************************************************************)
EXTENDS Integers, FiniteSets, Functions

CONSTANTS
    Visits,          \* requests for the page, numbered as they come
    Browsers,
    DayLength,
    RetentionDays,
    QueueSize,       \* of the queues of all replicas together
    Lag,             \* ticks between a request and its row, at most
    BatchSize, MaxBatches,
    Ranges,          \* the ranges of days that are asked for
    MaxRangeDays,
    MaxFailures,     \* bound: batches of the job that fail
    Horizon,         \* bound: the last tick
    None

VARIABLES
    now,
    visit,           \* each request, then its event, then its row of events
    visitors,        \* rows of visitors
    linkDeleted,     \* the creator has deleted the page's link
    sweep,           \* DeleteExpiredAnalytics: its statement and batches
    failures,
    report           \* Overview: what it has read

countVars == <<now, visit, visitors, linkDeleted>>
analyticsVars == <<now, visit, visitors, linkDeleted, sweep, failures, report>>

ASSUME AnalyticsAssumption ==
    /\ DayLength \in Nat \ {0} /\ RetentionDays \in Nat \ {0}
    /\ Visits \subseteq Nat /\ Lag \in Nat /\ Lag < RetentionDays * DayLength
    /\ BatchSize \in Nat \ {0} /\ MaxBatches \in Nat \ {0}
    /\ \A range \in Ranges : range.from \in Nat /\ range.to \in Nat
    /\ MaxFailures \in Nat /\ Horizon \in Nat

Kinds == {"profile_view", "link_click"}
Day(t) == t \div DayLength

Unseen == [step |-> "unseen", kind |-> None, browser |-> None,
           at |-> None, occurred |-> None, row |-> None]
Gone == [Unseen EXCEPT !.step = "gone"]
NoReport == [step |-> "idle", range |-> None, totals |-> None, visitors |-> None,
             days |-> None, shrunk |-> FALSE]

AnalyticsInit ==
    /\ now = 0
    /\ visit = [v \in Visits |-> Unseen]
    /\ visitors = {} /\ linkDeleted = FALSE
    /\ sweep = [step |-> "idle", batches |-> 0]
    /\ failures = 0
    /\ report = NoReport

At(step) == {v \in Visits : visit[v].step = step}
UnderWay == At("hashed") \cup At("queued") \cup At("known")

-----------------------------------------------------------------------------
(* Page and LinkClick: the page or the link was found, and the visitor     *)
(* gets today's pseudonym.                                                 *)
Visit(v, b, kind) ==
    /\ visit[v].step = "unseen" /\ \A u \in At("unseen") : v <= u
    /\ kind = "link_click" => ~linkDeleted
    /\ visit' = [visit EXCEPT ![v] =
                   [@ EXCEPT !.step = "hashed", !.kind = kind, !.browser = b, !.at = now]]
    /\ UNCHANGED <<now, visitors, linkDeleted, sweep, failures, report>>

(* Record: the event gets its own time, and a place in the queue or none.  *)
Record(v) ==
    /\ visit[v].step = "hashed"
    /\ IF Cardinality(At("queued")) < QueueSize
       THEN visit' = [visit EXCEPT ![v].step = "queued", ![v].occurred = now]
       ELSE visit' = [visit EXCEPT ![v] = Gone]
    /\ UNCHANGED <<now, visitors, linkDeleted, sweep, failures, report>>

VisitorRow(v) ==
    [browser |-> visit[v].browser, hashed |-> Day(visit[v].at),
     seenOn |-> Day(visit[v].occurred)]

(* The worker of some replica takes an event.  INSERT ... ON CONFLICT DO   *)
(* UPDATE: one row for each hash and day.                                  *)
UpsertVisitor(v) ==
    /\ visit[v].step = "queued"
    /\ visitors' = visitors \cup {VisitorRow(v)}
    /\ visit' = [visit EXCEPT ![v].step = "known", ![v].row = VisitorRow(v)]
    /\ UNCHANGED <<now, linkDeleted, sweep, failures, report>>

(* Both references of the row are foreign keys.                            *)
InsertEvent(v) ==
    /\ visit[v].step = "known"
    /\ visit[v].row \in visitors
    /\ visit[v].kind = "link_click" => ~linkDeleted
    /\ visit' = [visit EXCEPT ![v].step = "stored"]
    /\ UNCHANGED <<now, visitors, linkDeleted, sweep, failures, report>>

(* A statement fails, a process dies, or a reference has gone.             *)
LoseEvent(v) ==
    /\ v \in UnderWay
    /\ visit' = [visit EXCEPT ![v] = Gone]
    /\ UNCHANGED <<now, visitors, linkDeleted, sweep, failures, report>>

-----------------------------------------------------------------------------
InRange(t, range) == range.from <= Day(t) /\ Day(t) < range.to
Counted(range, kind) ==
    {v \in At("stored") : visit[v].kind = kind /\ InRange(visit[v].occurred, range)}
Days(range) == range.from .. (range.to - 1)

(* Rows that go while a report is being put together.                      *)
Note(lost) ==
    report' = [report EXCEPT !.shrunk =
                 @ \/ (report.step # "idle" /\ lost)]

(* profiles.DeleteLink: ON DELETE CASCADE takes the clicks with it.        *)
DeleteLink ==
    /\ ~linkDeleted
    /\ linkDeleted' = TRUE
    /\ LET clicks == {v \in At("stored") : visit[v].kind = "link_click"}
       IN  /\ visit' = [v \in Visits |-> IF v \in clicks THEN Gone ELSE visit[v]]
           /\ Note(clicks # {})
    /\ UNCHANGED <<now, visitors, sweep, failures>>

-----------------------------------------------------------------------------
(* DeleteExpiredAnalytics.                                                 *)
Cutoff == now - RetentionDays * DayLength
ExpiredEvents == {v \in At("stored") : visit[v].occurred < Cutoff}
(* Mutant: the day that the window begins in is thought to be over.        *)
ExpiredVisitorsToday == {r \in visitors : r.seenOn <= Day(Cutoff)}

ExpiredVisitors == {r \in visitors : r.seenOn < Day(Cutoff)}

StartSweep ==
    /\ sweep.step = "idle"
    /\ sweep' = [step |-> "events", batches |-> 0]
    /\ UNCHANGED <<countVars, failures, report>>

(* batched: a short batch is the last, and so is the one at the cap.       *)
NextBatch(n, after) ==
    sweep' = IF n < BatchSize \/ sweep.batches + 1 = MaxBatches
             THEN [step |-> after, batches |-> 0]
             ELSE [sweep EXCEPT !.batches = @ + 1]

(* ORDER BY age LIMIT BatchSize.                                           *)
Oldest(rows, age) ==
    {batch \in SUBSET rows :
        /\ Cardinality(batch) = BatchSize \/ (batch = rows /\ Cardinality(rows) < BatchSize)
        /\ \A kept \in rows \ batch, r \in batch : age[r] <= age[kept]}

(* Mutant: a run that has deleted its events is done.                      *)
DeleteEventsOnly ==
    /\ sweep.step = "events"
    /\ LET occurred == [v \in ExpiredEvents |-> visit[v].occurred]
       IN  \E batch \in Oldest(ExpiredEvents, occurred) :
              /\ visit' = [v \in Visits |-> IF v \in batch THEN Gone ELSE visit[v]]
              /\ Note(batch # {})
              /\ NextBatch(Cardinality(batch), "idle")
    /\ UNCHANGED <<now, visitors, linkDeleted, failures>>

DeleteEvents ==
    /\ sweep.step = "events"
    /\ LET occurred == [v \in ExpiredEvents |-> visit[v].occurred]
       IN  \E batch \in Oldest(ExpiredEvents, occurred) :
              /\ visit' = [v \in Visits |-> IF v \in batch THEN Gone ELSE visit[v]]
              /\ Note(batch # {})
              /\ NextBatch(Cardinality(batch), "visitors")
    /\ UNCHANGED <<now, visitors, linkDeleted, failures>>

(* ON DELETE SET NULL: events that still refer to the row lose it.         *)
DeleteVisitors ==
    /\ sweep.step = "visitors"
    /\ LET seenOn == [r \in ExpiredVisitors |-> r.seenOn]
       IN  \E batch \in Oldest(ExpiredVisitors, seenOn) :
              /\ visitors' = visitors \ batch
              /\ visit' = [v \in Visits |->
                             IF v \in At("stored") /\ visit[v].row \in batch
                             THEN [visit[v] EXCEPT !.row = None] ELSE visit[v]]
              /\ Note(batch # {})
              /\ NextBatch(Cardinality(batch), "idle")
    /\ UNCHANGED <<now, linkDeleted, failures>>

(* A batch fails, or the run is stopped between two.                       *)
FailSweep ==
    /\ sweep.step # "idle" /\ failures < MaxFailures
    /\ failures' = failures + 1
    /\ sweep' = [step |-> "idle", batches |-> 0]
    /\ UNCHANGED <<countVars, report>>

-----------------------------------------------------------------------------
(* Overview.  Its revenue is read from orders, which nothing here writes.  *)
GoodRange(range) == range.from < range.to /\ range.to - range.from <= MaxRangeDays

VisitorsOn(days) == Cardinality({r \in visitors : r.seenOn \in days})

EventTotals(range) ==
    /\ report.step = "idle" /\ GoodRange(range)
    /\ report' = [NoReport EXCEPT !.step = "totals", !.range = range,
                    !.totals = [k \in Kinds |-> Cardinality(Counted(range, k))]]
    /\ UNCHANGED <<countVars, sweep, failures>>

VisitorDays ==
    /\ report.step = "totals"
    /\ report' = [report EXCEPT !.step = "visitors",
                    !.visitors = VisitorsOn(Days(report.range))]
    /\ UNCHANGED <<countVars, sweep, failures>>

(* Mutant: the day of a server that is ahead of UTC.                       *)
SeriesDayOfServer(t) == Day(t + 1)

(* (occurred_at AT TIME ZONE 'UTC')::date                                  *)
SeriesDay(t) == Day(t)

(* One row for each day of the calendar; rows of other days are not in it. *)
DailySeries ==
    /\ report.step = "visitors"
    /\ report' = [report EXCEPT !.step = "days",
         !.days = [d \in Days(report.range) |->
                     [views |-> Cardinality({v \in Counted(report.range, "profile_view") :
                                               SeriesDay(visit[v].occurred) = d}),
                      clicks |-> Cardinality({v \in Counted(report.range, "link_click") :
                                                SeriesDay(visit[v].occurred) = d}),
                      visitors |-> VisitorsOn({d})]]]
    /\ UNCHANGED <<countVars, sweep, failures>>

(* The answer is sent; TopLinks is the last of what it is made of.         *)
TopLinks ==
    /\ report.step = "days"
    /\ report' = NoReport
    /\ UNCHANGED <<countVars, sweep, failures>>

-----------------------------------------------------------------------------
(* Nothing waits in the queue, or at the database, as long as the events   *)
(* are kept.                                                               *)
Tick ==
    /\ now < Horizon
    /\ \A v \in UnderWay : now - visit[v].at < Lag
    /\ now' = now + 1
    /\ UNCHANGED <<visit, visitors, linkDeleted, sweep, failures, report>>

SweepStep == StartSweep \/ DeleteEvents \/ DeleteVisitors

AnalyticsNext ==
    \/ \E v \in Visits :
          \/ \E b \in Browsers, kind \in Kinds : Visit(v, b, kind)
          \/ Record(v) \/ UpsertVisitor(v) \/ InsertEvent(v) \/ LoseEvent(v)
    \/ DeleteLink
    \/ SweepStep \/ FailSweep
    \/ \E range \in Ranges : EventTotals(range)
    \/ VisitorDays \/ DailySeries \/ TopLinks
    \/ Tick

(* The runner starts the job again and again, and a run ends.              *)
AnalyticsSpec ==
    AnalyticsInit /\ [][AnalyticsNext]_analyticsVars /\ WF_analyticsVars(SweepStep)

-----------------------------------------------------------------------------
VisitorRows == [browser : Browsers, hashed : Nat, seenOn : Nat]

AnalyticsTypeOK ==
    /\ now \in 0..Horizon
    /\ visit \in [Visits -> [step : {"unseen", "hashed", "queued", "known", "stored", "gone"},
                             kind : Kinds \cup {None}, browser : Browsers \cup {None},
                             at : Nat \cup {None}, occurred : Nat \cup {None},
                             row : VisitorRows \cup {None}]]
    /\ visitors \subseteq VisitorRows
    /\ linkDeleted \in BOOLEAN
    /\ sweep \in [step : {"idle", "events", "visitors"}, batches : 0..(MaxBatches - 1)]
    /\ failures \in 0..MaxFailures

(* Inside the retention window an event keeps the visitor it was recorded  *)
(* with, a row of the event's own UTC day: whatever the job does between   *)
(* the two statements of the writer, at its batch cap, or when midnight    *)
(* passes between the hash, the event and the row.  (Outside the window it *)
(* may lose it: a run at its cap goes on to the visitors, cleanup.go:187.) *)
EventsKnowTheirVisitor ==
    /\ AnalyticsTypeOK
    /\ \A v \in At("known") \cup At("stored") :
          visit[v].occurred >= Cutoff =>
             /\ visit[v].row \in visitors
             /\ visit[v].row.seenOn = Day(visit[v].occurred)

(* The queries of a report see later and later tables, of which only the   *)
(* retention job and a deleted link take rows: unless they did, the days   *)
(* of the chart add up to at least the totals above it, kind by kind, and  *)
(* no event or visitor of the range falls outside the calendar             *)
(* (report.go:109-111, 161-168).                                           *)
ReportAddsUp ==
    report.step = "days" /\ ~report.shrunk =>
       LET sum(f(_)) == SumFunction([d \in Days(report.range) |-> f(d)])
           views(d) == report.days[d].views
           clicks(d) == report.days[d].clicks
           seen(d) == report.days[d].visitors
       IN  /\ report.totals["profile_view"] <= sum(views)
           /\ report.totals["link_click"] <= sum(clicks)
           /\ report.visitors <= sum(seen)

(* The promise of migration 000008: what the window has passed is deleted  *)
(* in the end, events and pseudonyms, although a run stops at its cap and  *)
(* batches fail.                                                           *)
ExpiredRowsGo == []<>(ExpiredEvents = {} /\ ExpiredVisitors = {})

(* A request is hashed when it comes, and recorded after that.             *)
VisitIsTimed(v) ==
    /\ visit[v].step \in {"hashed", "queued", "known", "stored"} =>
          visit[v].browser \in Browsers /\ visit[v].at \in Nat
    /\ visit[v].step \in {"queued", "known", "stored"} => visit[v].occurred \in Nat

(* The visitor of an event in the window is there, as the writer leaves it *)
(* and the retention job takes it, for a visit that is somewhere between   *)
(* its request and its row.                                                *)
AnalyticsInv == EventsKnowTheirVisitor /\ \A v \in Visits : VisitIsTimed(v)

(* Requests that have come: all that can have left rows.                   *)
Touched == {v \in Visits : visit[v].step # "unseen"}

ReportShape ==
    /\ report = [step |-> report.step, range |-> report.range, totals |-> report.totals,
                 visitors |-> report.visitors, days |-> report.days, shrunk |-> report.shrunk]
    /\ report.step \in {"idle", "totals", "visitors", "days"} /\ report.shrunk \in BOOLEAN
    /\ report.step # "idle" => report.range \in Ranges /\ report.totals \in [Kinds -> Nat]
    /\ report.step \in {"visitors", "days"} => report.visitors \in Nat

(* What a report has read is still there, unless rows went: the tables are *)
(* finite, and they have grown if anything.                                *)
ReportInv ==
    /\ IsFiniteSet(Touched) /\ IsFiniteSet(visitors)
    /\ ReportShape
    /\ report.step \in {"totals", "visitors"} /\ ~report.shrunk =>
          \A k \in Kinds : report.totals[k] <= Cardinality(Counted(report.range, k))
    /\ report.step = "visitors" /\ ~report.shrunk =>
          report.visitors <= VisitorsOn(Days(report.range))
    /\ ReportAddsUp
=============================================================================
