----------------------------- MODULE TimeSeries -----------------------------
(***************************************************************************)
(* The time series of node counts (services/TimeSeriesService.ts).  Every  *)
(* round of the node monitor hands it a sample and does not wait for the   *)
(* call to finish, so calls overlap when the database is slow.  The        *)
(* samples of a day are kept in memory and in the day collection; the      *)
(* first sample of a later day rolls the series over: the average of the   *)
(* samples in memory goes to the main collection and the day is cleared.   *)
(*                                                                         *)
(* Of a sample only its identity and its day matter; an aggregate is the   *)
(* set of samples it averages, under the date it carries.                  *)
(***************************************************************************)
EXTENDS Naturals, Sequences, SequencesExt

CONSTANTS
    MaxSamples,   \* bound on the calls of setData
    MaxDay,       \* bound on the calendar
    MaxInFlight,  \* bound on the calls that overlap
    MaxFaults     \* bound on failed database calls and process crashes

ASSUME BoundsAssumption ==
    /\ MaxSamples \in Nat /\ MaxDay \in Nat
    /\ MaxInFlight \in Nat /\ MaxFaults \in Nat

VARIABLES
    ready,      \* isInitialized, once the process has read the day collection
    mem,        \* this.dayCollection
    dayDocs,    \* the day collection, in insertion order
    mainDocs,   \* the main collection, in insertion order
    now,        \* the current day
    taken,      \* how many samples were handed over so far
    day,        \* the date of each sample
    pc,         \* where the call of setData with each sample stands
    doc,        \* mainDocument, the local of a call that rolls over
    stored,     \* history: samples that made it into the day collection
    unsaved,    \* history: samples of an aggregate that could not be saved
    overlapped, \* history: samples whose call met another one's rollover, or another day
    retaken,    \* history: samples averaged again, or kept past their aggregate
    faults

vars == <<ready, mem, dayDocs, mainDocs, now, taken, day, pc, doc,
          stored, unsaved, overlapped, retaken, faults>>

Samples == 1 .. MaxSamples
Days == 0 .. MaxDay
Rollover == {"main", "clear", "cleared"}
Pending == Rollover \cup {"day", "push"}
Aggregates == [date : Days, parts : SUBSET Samples]
NoDoc == [date |-> 0, parts |-> {}]

InFlight == {s \in Samples : pc[s] \in Pending}

\* The variables have their types: memory and day collection hold samples, the main
\* collection aggregates of samples.
TypeOK ==
    /\ ready \in BOOLEAN
    /\ mem \in Seq(Samples) /\ dayDocs \in Seq(Samples)
    /\ mainDocs \in Seq(Aggregates)
    /\ now \in Days /\ taken \in 0 .. MaxSamples
    /\ day \in [Samples -> Days]
    /\ pc \in [Samples -> {"idle", "done", "lost"} \cup Pending]
    /\ doc \in [Samples -> Aggregates]
    /\ stored \subseteq Samples /\ unsaved \subseteq Samples
    /\ overlapped \subseteq Samples /\ retaken \subseteq Samples
    /\ faults \in 0 .. MaxFaults

Init ==
    /\ ready = FALSE /\ mem = <<>> /\ dayDocs = <<>> /\ mainDocs = <<>>
    /\ now = 0 /\ taken = 0
    /\ day = [s \in Samples |-> 0]
    /\ pc = [s \in Samples |-> "idle"]
    /\ doc = [s \in Samples |-> NoDoc]
    /\ stored = {} /\ unsaved = {} /\ overlapped = {} /\ retaken = {} /\ faults = 0

\* What may be left of a sequence from which elements are removed.
SubSequences(seq) ==
    {[i \in DOMAIN at |-> seq[at[i]]] :
        at \in {at \in UNION {[1 .. n -> DOMAIN seq] : n \in 0 .. Len(seq)} :
                  \A i, j \in DOMAIN at : i < j => at[i] < at[j]}}

Fault == faults < MaxFaults /\ faults' = faults + 1

-----------------------------------------------------------------------------
\* Mutation: the process starts with an empty day.
Load_Forgets ==
    /\ ~ready
    /\ ready' = TRUE
    /\ UNCHANGED <<mem, dayDocs, mainDocs, now, taken, day, pc, doc,
                   stored, unsaved, overlapped, retaken, faults>>

\* Mutation: the process reads the main collection instead.
Load_WrongModel ==
    /\ ~ready
    /\ ready' = TRUE
    /\ mem' = [i \in DOMAIN mainDocs |-> mainDocs[i].date]
    /\ UNCHANGED <<dayDocs, mainDocs, now, taken, day, pc, doc,
                   stored, unsaved, overlapped, retaken, faults>>

\* init() and getDayCollection(); a failed read is tried again after 5 seconds.
Load ==
    /\ ~ready
    /\ ready' = TRUE
    /\ mem' = dayDocs
    /\ UNCHANGED <<dayDocs, mainDocs, now, taken, day, pc, doc,
                   stored, unsaved, overlapped, retaken, faults>>

LoadFails ==
    /\ ~ready
    /\ Fault
    /\ UNCHANGED <<ready, mem, dayDocs, mainDocs, now, taken, day, pc, doc,
                   stored, unsaved, overlapped, retaken>>

-----------------------------------------------------------------------------
\* setData

\* Mutation: a day is over with its first sample.
isDayEnded_Early(currentDate, date) == date >= currentDate

isDayEnded(currentDate, date) == date > currentDate

shouldMainCollectionBeUpdated(date) ==
    mem # <<>> /\ isDayEnded(day[mem[1]], date)

\* The aggregate of what is in memory at that moment, computed before the first await.
Averaged == [date |-> day[Last(mem)], parts |-> ToSet(mem)]

\* The call runs up to its first await: it decides on the rollover and computes the
\* aggregate.  Earlier calls that it meets (met: it rolls over or is of another day;
\* rolling: they roll over) overlap with it.
SetData ==
    /\ ready
    /\ taken < MaxSamples /\ Cardinality(InFlight) < MaxInFlight
    /\ LET s == taken + 1
           rolls == shouldMainCollectionBeUpdated(now)
           met == {t \in InFlight : rolls \/ day[t] # now}
           rolling == {t \in InFlight : pc[t] \in Rollover}
       IN
        /\ taken' = s
        /\ day' = [day EXCEPT ![s] = now]
        /\ pc' = [pc EXCEPT ![s] = IF rolls THEN "main" ELSE "day"]
        /\ doc' = [doc EXCEPT ![s] = IF rolls THEN Averaged ELSE NoDoc]
        /\ overlapped' = overlapped \cup met \cup {x \in {s} : met \cup rolling # {}}
        /\ retaken' = retaken \cup {x \in ToSet(mem) : rolls /\ rolling # {}}
    /\ UNCHANGED <<ready, mem, dayDocs, mainDocs, now, stored, unsaved, faults>>

\* insertToMainCollection
SaveMain(s) ==
    /\ pc[s] = "main"
    /\ mainDocs' = Append(mainDocs, doc[s])
    /\ pc' = [pc EXCEPT ![s] = "clear"]
    /\ doc' = [doc EXCEPT ![s] = NoDoc]
    /\ UNCHANGED <<ready, mem, dayDocs, now, taken, day,
                   stored, unsaved, overlapped, retaken, faults>>

\* A failed save is only logged: the day is cleared all the same.
SaveMainFails(s) ==
    /\ pc[s] = "main"
    /\ Fault
    /\ unsaved' = unsaved \cup doc[s].parts
    /\ pc' = [pc EXCEPT ![s] = "clear"]
    /\ doc' = [doc EXCEPT ![s] = NoDoc]
    /\ UNCHANGED <<ready, mem, dayDocs, mainDocs, now, taken, day, stored, overlapped, retaken>>

\* Mutation: clearing a day without documents never resolves.
ClearDay_NonEmpty(s) ==
    /\ pc[s] = "clear" /\ dayDocs # <<>>
    /\ dayDocs' = <<>>
    /\ pc' = [pc EXCEPT ![s] = "cleared"]
    /\ UNCHANGED <<ready, mem, mainDocs, now, taken, day, doc,
                   stored, unsaved, overlapped, retaken, faults>>

\* clearDayCollection: deleteMany takes effect, then the memory is cleared and
\* the insert of the sample starts.
ClearDay(s) ==
    /\ pc[s] = "clear"
    /\ dayDocs' = <<>>
    /\ pc' = [pc EXCEPT ![s] = "cleared"]
    /\ UNCHANGED <<ready, mem, mainDocs, now, taken, day, doc,
                   stored, unsaved, overlapped, retaken, faults>>

\* Mutation: a failed deleteMany is only logged.
ClearDayFails_GivesUp(s) ==
    /\ pc[s] = "clear"
    /\ Fault
    /\ pc' = [pc EXCEPT ![s] = "day"]
    /\ UNCHANGED <<ready, mem, dayDocs, mainDocs, now, taken, day, doc,
                   stored, unsaved, overlapped, retaken>>

\* A failed deleteMany, which may have removed some, is repeated after 5 seconds.
ClearDayFails(s) ==
    /\ pc[s] = "clear"
    /\ Fault
    /\ \E kept \in SubSequences(dayDocs) : dayDocs' = kept
    /\ UNCHANGED <<ready, mem, mainDocs, now, taken, day, pc, doc,
                   stored, unsaved, overlapped, retaken>>

\* Mutation: the memory is not cleared with the collection.
ClearMemory_Kept(s) ==
    /\ pc[s] = "cleared"
    /\ pc' = [pc EXCEPT ![s] = "day"]
    /\ UNCHANGED <<ready, mem, dayDocs, mainDocs, now, taken, day, doc,
                   stored, unsaved, overlapped, retaken, faults>>

ClearMemory(s) ==
    /\ pc[s] = "cleared"
    /\ mem' = <<>>
    /\ pc' = [pc EXCEPT ![s] = "day"]
    /\ UNCHANGED <<ready, dayDocs, mainDocs, now, taken, day, doc,
                   stored, unsaved, overlapped, retaken, faults>>

\* insertToDayCollection
SaveDay(s) ==
    /\ pc[s] = "day"
    /\ dayDocs' = Append(dayDocs, s)
    /\ stored' = stored \cup {s}
    /\ pc' = [pc EXCEPT ![s] = "push"]
    /\ UNCHANGED <<ready, mem, mainDocs, now, taken, day, doc,
                   unsaved, overlapped, retaken, faults>>

\* A failed save is only logged: the sample still counts in memory.
SaveDayFails(s) ==
    /\ pc[s] = "day"
    /\ Fault
    /\ pc' = [pc EXCEPT ![s] = "push"]
    /\ UNCHANGED <<ready, mem, dayDocs, mainDocs, now, taken, day, doc,
                   stored, unsaved, overlapped, retaken>>

Push(s) ==
    /\ pc[s] = "push"
    /\ mem' = Append(mem, s)
    /\ pc' = [pc EXCEPT ![s] = "done"]
    /\ UNCHANGED <<ready, dayDocs, mainDocs, now, taken, day, doc,
                   stored, unsaved, overlapped, retaken, faults>>

-----------------------------------------------------------------------------
\* The environment

\* The process dies, with its memory and the calls under way, and is restarted.
Crash ==
    /\ Fault
    /\ ready' = FALSE
    /\ mem' = <<>>
    /\ pc' = [s \in Samples |-> IF s \in InFlight THEN "lost" ELSE pc[s]]
    /\ doc' = [s \in Samples |-> NoDoc]
    /\ retaken' = retaken \cup {x \in ToSet(dayDocs) : \E s \in Samples : pc[s] = "clear"}
    /\ UNCHANGED <<dayDocs, mainDocs, now, taken, day, stored, unsaved, overlapped>>

Midnight ==
    /\ now < MaxDay
    /\ now' = now + 1
    /\ UNCHANGED <<ready, mem, dayDocs, mainDocs, taken, day, pc, doc,
                   stored, unsaved, overlapped, retaken, faults>>

-----------------------------------------------------------------------------
Proceed(s) ==
    SaveMain(s) \/ ClearDay(s) \/ ClearMemory(s) \/ SaveDay(s) \/ Push(s)

Fails(s) == SaveMainFails(s) \/ ClearDayFails(s) \/ SaveDayFails(s)

Next ==
    \/ Load \/ LoadFails \/ SetData \/ Crash \/ Midnight
    \/ \E s \in Samples : Proceed(s) \/ Fails(s)

Spec == Init /\ [][Next]_vars

\* Every database call is answered in the end, and a failed one is retried.
Fairness == WF_vars(Load) /\ \A s \in Samples : WF_vars(Proceed(s))
FairSpec == Spec /\ Fairness

-----------------------------------------------------------------------------
\* Properties

Aggregated == UNION {mainDocs[i].parts : i \in DOMAIN mainDocs}

\* setData is not awaited (NodeMonitor.ts), so a slow call meets the next one.  The
\* properties below speak of every sample but the overlapped ones: those whose call
\* was under way together with the rollover of another call, or with a call of another
\* day.  The code does lose, double and misdate those (a rollover clears what they have
\* just stored), and nothing is said of them.

\* What is being collected, in memory and in the database, is of one day, overlapped
\* samples left aside, whatever overlaps, fails or dies.
CollectsOneDay ==
    \A s, t \in (ToSet(mem) \cup ToSet(dayDocs)) \ overlapped : day[s] = day[t]

\* A sample that was stored, and whose call was not overlapped, is not lost: it stays in
\* the day collection until it is in an aggregate, unless saving that aggregate failed.
StoredSamplesSurvive ==
    stored \ overlapped \subseteq ToSet(dayDocs) \cup Aggregated \cup unsaved

\* No sample enters two aggregates but the retaken ones: those in memory when a call
\* rolled over while another rollover was under way, and those still in the day
\* collection when a crash fell between saving an aggregate and clearing the day.
NoSampleCountedTwice ==
    \A i, j \in DOMAIN mainDocs :
        i # j => mainDocs[i].parts \cap mainDocs[j].parts \subseteq retaken

\* Every aggregate carries the date of all its samples but the overlapped ones, and an
\* aggregate without overlapped samples is of a day that is over.
AggregatesAreDated ==
    \A i \in DOMAIN mainDocs :
        /\ \A s \in mainDocs[i].parts \ overlapped : day[s] = mainDocs[i].date
        /\ mainDocs[i].parts \cap overlapped = {} => mainDocs[i].date < now

\* What the properties rest on.  Only samples that were handed over are anywhere, and none
\* is dated after today; a process that is not ready holds nothing.
KnownOnly ==
    /\ \A s \in Samples : day[s] <= now /\ (s > taken => pc[s] = "idle")
    /\ ToSet(mem) \cup ToSet(dayDocs) \cup Aggregated \cup stored \cup unsaved \subseteq 1 .. taken
    /\ \A s \in Samples : doc[s].parts \subseteq 1 .. taken
    /\ ~ready => mem = <<>> /\ InFlight = {}

\* Calls that meet: those of different days are overlapped, and so is whatever is under way
\* beside a rollover; a call that is not overlapped is of the latest day there is.
Meetings ==
    /\ \A s, t \in InFlight : day[s] # day[t] => s \in overlapped
    /\ \A s, t \in InFlight : s # t /\ pc[t] \in Rollover => s \in overlapped
    /\ \A s \in InFlight \ overlapped : \A t \in 1 .. taken : day[t] <= day[s]

\* A sequence keeps to the day of its first sample that is not overlapped, and has no
\* later day before such a sample.
InOrder(seq) ==
    \A i, j \in DOMAIN seq : i < j =>
        /\ seq[j] \notin overlapped => day[seq[i]] <= day[seq[j]]
        /\ seq[i] \notin overlapped => day[seq[j]] = day[seq[i]]

\* Of the samples that are not overlapped: memory has what the database has, and what is on
\* its way to both is of the day that is collected.
Collected == (ToSet(mem) \cup ToSet(dayDocs)) \ overlapped

OneDay ==
    /\ InOrder(mem) /\ InOrder(dayDocs)
    /\ CollectsOneDay
    /\ \A s \in InFlight : pc[s] \in {"day", "push"} => \A t \in Collected : day[t] = day[s]
    /\ ready => ToSet(dayDocs) \ overlapped \subseteq ToSet(mem) \cup InFlight

\* The aggregate of a rollover holds the day in the database until that is cleared.
RolloverHolds ==
    \A s \in Samples :
        /\ pc[s] = "main" =>
              /\ ToSet(dayDocs) \ overlapped \subseteq doc[s].parts
              /\ \A t \in doc[s].parts \ overlapped : day[t] = doc[s].date
              /\ doc[s].parts \cap overlapped = {} => doc[s].date < now
        /\ pc[s] = "clear" => ToSet(dayDocs) \ overlapped \subseteq Aggregated \cup unsaved
        /\ pc[s] = "cleared" => ToSet(dayDocs) \subseteq overlapped

\* What is collected is in no aggregate yet, unless one was saved a moment ago; what two
\* rollovers average together is retaken.
NotAggregated ==
    /\ InFlight \cap (ToSet(mem) \cup Aggregated) = {}
    /\ \A s \in Samples : InFlight \cap doc[s].parts = {}
    /\ (\A s \in Samples : pc[s] # "clear") => ToSet(dayDocs) \cap Aggregated \subseteq retaken
    /\ (\A s \in Samples : pc[s] \notin {"clear", "cleared"})
           => ToSet(mem) \cap Aggregated \subseteq retaken
    /\ \A s \in Samples : pc[s] = "main" => doc[s].parts \cap Aggregated \subseteq retaken
    /\ \A s, t \in Samples : s # t /\ pc[s] = "main" /\ pc[t] = "main"
           => doc[s].parts \cap doc[t].parts \subseteq retaken

\* It is inductive.
Inv ==
    /\ TypeOK /\ KnownOnly /\ Meetings /\ OneDay /\ RolloverHolds /\ NotAggregated
    /\ StoredSamplesSurvive /\ NoSampleCountedTwice /\ AggregatesAreDated

\* A call of setData finishes, however often its steps fail, unless the process
\* dies under it.
SetDataFinishes ==
    \A s \in Samples : pc[s] \in Pending ~> pc[s] \in {"done", "lost"}
=============================================================================
