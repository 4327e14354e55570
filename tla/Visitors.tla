------------------------------- MODULE Visitors --------------------------------
(***************************************************************************)
(* What is recorded of visitors: their consent, the events it covers, and  *)
(* the daily figures a job of the worker draws from the events.            *)
(*                                                                         *)
(*   consent.Service    RecordConsent appends; the latest answer counts    *)
(*   analytics.Service  Record: the consent is read, the event stamped and *)
(*                      inserted; RollupDaily: three statements that each  *)
(*                      set the figure of a day                            *)
(*   worker             analytics:rollup, nightly: "yesterday" is resolved *)
(*                      when the job runs                                  *)
(*                                                                         *)
(* A visitor is an address; a day is the day of UTC.                       *)
(*                                                                         *)
(* A definition whose comment begins with "Mutant" is no part of the model *)
(* (see OrderPayment).                                                     *)
(***************************************************************************)
EXTENDS Naturals, FiniteSets

CONSTANTS People,        \* visitors
          Hits,          \* requests that record an event, each done once
          Crunchers,     \* worker goroutines
          Days,          \* bound on the days
          MaxAnswers,    \* bound on the answers of a visitor
          VisMaxFaults   \* bound on crashes, failed statements and jobs not queued

ASSUME DaysAssumption == Days \in Nat \ {0}
ASSUME MaxAnswersAssumption == MaxAnswers \in Nat /\ VisMaxFaults \in Nat

VARIABLES consent,   \* the latest answer on analytics cookies
          answers,   \* how many there were
          hit,       \* the requests
          events,    \* analytics_events
          today,
          rollups,   \* analytics:rollup jobs in the queue
          cruncher,  \* jobs that run
          daily,     \* analytics_daily
          begun,     \* days a statement of a rollup has counted
          missed,    \* days with events after that, or whose job was lost or delayed
          visFaults  \* faults so far

visVars == <<consent, answers, hit, events, today, rollups, cruncher, daily, begun, missed, visFaults>>

Metrics == {"pageviews", "events", "visitors"}
Answers == {"granted", "withdrawn"}
Event == [hit : Hits, by : People, kind : {"pageview", "event"}, day : 1..Days]

\* `passed`: the visitor has answered anew since the request read the consent.
NotYet == [at |-> "new"]
Over == [at |-> "over"]
HitStates ==
    {NotYet, Over} \cup [at : {"stamp"}, by : People, passed : BOOLEAN]
                   \cup [at : {"insert"}, by : People, passed : BOOLEAN, day : 1..Days]
FreeCruncher == [at |-> "idle", day |-> 0]
Runs == [at : Metrics, day : 1..Days]

VisTypeOK ==
    /\ consent \in [People -> Answers \cup {"none"}]
    /\ answers \in [People -> 0..MaxAnswers]
    /\ hit \in [Hits -> HitStates]
    /\ events \subseteq Event /\ IsFiniteSet(events)
    /\ today \in 1..Days
    /\ rollups \in Nat
    /\ cruncher \in [Crunchers -> Runs \cup {FreeCruncher}]
    /\ daily \in [1..Days -> [Metrics -> Nat]]
    /\ begun \subseteq 1..Days /\ missed \subseteq 0..Days
    /\ visFaults \in 0..VisMaxFaults

VisInit ==
    /\ consent = [v \in People |-> "none"]
    /\ answers = [v \in People |-> 0]
    /\ hit = [h \in Hits |-> NotYet]
    /\ events = {}
    /\ today = 1
    /\ rollups = 0
    /\ cruncher = [w \in Crunchers |-> FreeCruncher]
    /\ daily = [d \in 1..Days |-> [m \in Metrics |-> 0]]
    /\ begun = {} /\ missed = {}
    /\ visFaults = 0

VisFault == visFaults < VisMaxFaults /\ visFaults' = visFaults + 1
rollupVars == <<today, rollups, cruncher, daily, begun>>

-------------------------------------------------------------------------------
(* Consent and events *)

\* A row is appended; requests that have read an earlier one act on what has passed.
RecordConsent(v, a) ==
    /\ answers[v] < MaxAnswers
    /\ answers' = [answers EXCEPT ![v] = @ + 1]
    /\ consent' = [consent EXCEPT ![v] = a]
    /\ hit' = [h \in Hits |-> IF hit[h] \notin {NotYet, Over} /\ hit[h].by = v
                              THEN [hit[h] EXCEPT !.passed = TRUE] ELSE hit[h]]
    /\ UNCHANGED <<events, rollupVars, missed, visFaults>>

\* Without consent the event is dropped and the request answered as if it were not.
CheckConsent(h, v) ==
    /\ hit[h] = NotYet
    /\ hit' = [hit EXCEPT ![h] = IF consent[v] = "granted" THEN [at |-> "stamp", by |-> v, passed |-> FALSE]
                                 ELSE Over]
    /\ UNCHANGED <<consent, answers, events, rollupVars, missed, visFaults>>

Stamp(h) ==
    /\ hit[h].at = "stamp"
    /\ hit' = [hit EXCEPT ![h] = [at |-> "insert", by |-> hit[h].by, passed |-> hit[h].passed, day |-> today]]
    /\ UNCHANGED <<consent, answers, events, rollupVars, missed, visFaults>>

\* An error is a 500 and the event is lost.
Insert(h, kind) ==
    LET r == hit[h] IN
    /\ r.at = "insert"
    /\ hit' = [hit EXCEPT ![h] = Over]
    /\ \/ /\ events' = events \cup {[hit |-> h, by |-> r.by, kind |-> kind, day |-> r.day]}
          /\ missed' = IF r.day \in begun THEN missed \cup {r.day} ELSE missed
          /\ UNCHANGED visFaults
       \/ VisFault /\ UNCHANGED <<events, missed>>
    /\ UNCHANGED <<consent, answers, rollupVars>>

-------------------------------------------------------------------------------
(* The rollup *)

\* Midnight, and the cron entry shortly after it.  A job that still waits then will
\* count another day than the one it was queued for; a scheduler that is down queues
\* nothing.
NextDay ==
    /\ today < Days
    /\ today' = today + 1
    /\ \/ /\ rollups' = rollups + 1
          /\ missed' = IF rollups > 0 THEN missed \cup {today - 1} ELSE missed
          /\ UNCHANGED visFaults
       \/ VisFault /\ missed' = missed \cup {today, today - 1} /\ UNCHANGED rollups
    /\ UNCHANGED <<consent, answers, hit, events, cruncher, daily, begun>>

\* Mutant: the job counts the day it runs on.
RollupToday(w) ==
    /\ cruncher[w] = FreeCruncher /\ rollups > 0
    /\ rollups' = rollups - 1
    /\ cruncher' = [cruncher EXCEPT ![w] = [at |-> "pageviews", day |-> today]]
    /\ UNCHANGED <<consent, answers, hit, events, today, daily, begun, missed, visFaults>>

\* "Yesterday" is the day before the one the job runs on.
RollupDaily(w) ==
    /\ cruncher[w] = FreeCruncher /\ rollups > 0
    /\ rollups' = rollups - 1
    /\ cruncher' = [cruncher EXCEPT ![w] = [at |-> "pageviews", day |-> today - 1]]
    /\ UNCHANGED <<consent, answers, hit, events, today, daily, begun, missed, visFaults>>

Of(d, kind) == {e \in events : e.day = d /\ e.kind = kind}
Count(d, m) ==
    CASE m = "pageviews" -> Cardinality(Of(d, "pageview"))
      [] m = "events" -> Cardinality(Of(d, "event"))
      [] m = "visitors" -> Cardinality({e.by : e \in {x \in events : x.day = d}})
After(m) == IF m = "pageviews" THEN "events" ELSE IF m = "events" THEN "visitors" ELSE "idle"

\* INSERT ... ON CONFLICT DO UPDATE SET value: the figure becomes what is counted.
rollup(w) ==
    LET r == cruncher[w] IN
    /\ r.at # "idle"
    /\ daily' = [daily EXCEPT ![r.day][r.at] = Count(r.day, r.at)]
    /\ cruncher' = [cruncher EXCEPT ![w] = IF r.at = "visitors" THEN FreeCruncher
                                           ELSE [r EXCEPT !.at = After(r.at)]]
    /\ begun' = begun \cup {r.day}
    /\ UNCHANGED <<consent, answers, hit, events, today, rollups, missed, visFaults>>

\* A statement fails or the worker stops: the job starts over, maybe on a later day,
\* or its retries are used up.
RollupFails(w) ==
    LET r == cruncher[w] IN
    /\ r.at # "idle"
    /\ cruncher' = [cruncher EXCEPT ![w] = FreeCruncher]
    /\ \/ /\ rollups' = rollups + 1
          /\ missed' = IF r.day = today - 1 THEN missed ELSE missed \cup {r.day}
       \/ missed' = missed \cup {r.day} /\ UNCHANGED rollups
    /\ VisFault
    /\ UNCHANGED <<consent, answers, hit, events, today, daily, begun>>

-------------------------------------------------------------------------------
VisNext ==
    \/ \E v \in People, a \in Answers : RecordConsent(v, a)
    \/ \E h \in Hits, v \in People : CheckConsent(h, v)
    \/ \E h \in Hits : Stamp(h) \/ \E kind \in {"pageview", "event"} : Insert(h, kind)
    \/ NextDay
    \/ \E w \in Crunchers : RollupDaily(w) \/ rollup(w) \/ RollupFails(w)

VisSpec == VisInit /\ [][VisNext]_visVars

-------------------------------------------------------------------------------
(* Properties *)

\* With no rollup waiting or running every day that is over has its figures, unless
\* its job was lost or ran late, or an event of it came after it was counted.
PastDaysAreCounted ==
    rollups = 0 /\ (\A w \in Crunchers : cruncher[w].at = "idle") =>
        \A d \in 1..(today - 1) : d \in missed \/ \A m \in Metrics : daily[d][m] = Count(d, m)

\* An event is recorded only of a visitor who consents, or who answered anew while
\* the request ran.
RecordedWithConsent ==
    [][\A e \in events' \ events : consent[e.by] = "granted" \/ hit[e.hit].passed]_visVars
===============================================================================
