--------------------------- MODULE TimeSeriesProofs ---------------------------
(***************************************************************************)
(* Proofs about the time series of node counts, for any number of samples, *)
(* days, overlapping calls, failures and crashes.                          *)
(***************************************************************************)
EXTENDS TimeSeries, TLAPS

-----------------------------------------------------------------------------
(* Sequences as sets *)

LEMMA EmptyToSet == ToSet(<<>>) = {}
  BY DEF ToSet

LEMMA AppendToSet ==
  ASSUME NEW S, NEW seq \in Seq(S), NEW x \in S
  PROVE  ToSet(Append(seq, x)) = ToSet(seq) \cup {x}
<1>1. DOMAIN Append(seq, x) = 1 .. Len(seq) + 1 /\ DOMAIN seq = 1 .. Len(seq) /\ Len(seq) \in Nat
  OBVIOUS
<1>2. \A i \in 1 .. Len(seq) : Append(seq, x)[i] = seq[i]
  OBVIOUS
<1>3. Append(seq, x)[Len(seq) + 1] = x
  OBVIOUS
<1>4. ToSet(Append(seq, x)) = {Append(seq, x)[i] : i \in 1 .. Len(seq) + 1}
  BY <1>1 DEF ToSet
<1>5. ToSet(seq) = {seq[i] : i \in 1 .. Len(seq)}
  BY <1>1 DEF ToSet
<1> QED
  BY <1>1, <1>2, <1>3, <1>4, <1>5

LEMMA ToSetType == ASSUME NEW S, NEW seq \in Seq(S) PROVE ToSet(seq) \subseteq S
  BY DEF ToSet

\* What is left of a sequence is part of it.
LEMMA SubSequencesType ==
  ASSUME NEW S, NEW seq \in Seq(S), NEW kept \in SubSequences(seq)
  PROVE  kept \in Seq(S) /\ ToSet(kept) \subseteq ToSet(seq)
<1>1. PICK n \in 0 .. Len(seq) : \E at \in [1 .. n -> DOMAIN seq] : kept = [i \in DOMAIN at |-> seq[at[i]]]
  BY DEF SubSequences
<1>2. PICK at \in [1 .. n -> DOMAIN seq] : kept = [i \in 1 .. n |-> seq[at[i]]]
  BY <1>1
<1>3. \A i \in 1 .. n : at[i] \in DOMAIN seq /\ seq[at[i]] \in S
  OBVIOUS
<1>4. n \in Nat
  OBVIOUS
<1>5. kept \in [1 .. n -> S]
  BY <1>2, <1>3
<1>6. kept \in Seq(S)
  BY <1>4, <1>5
<1>7. ToSet(kept) \subseteq ToSet(seq)
  BY <1>2, <1>3 DEF ToSet
<1> QED
  BY <1>6, <1>7

\* An aggregate that is saved adds its samples to those aggregated.
LEMMA AggregatedAppend ==
  ASSUME mainDocs \in Seq(Aggregates), NEW aggregate \in Aggregates,
         mainDocs' = Append(mainDocs, aggregate)
  PROVE  /\ Aggregated' = Aggregated \cup aggregate.parts
         /\ DOMAIN mainDocs' = DOMAIN mainDocs \cup {Len(mainDocs) + 1}
         /\ \A i \in DOMAIN mainDocs : mainDocs'[i] = mainDocs[i] /\ i # Len(mainDocs) + 1
         /\ mainDocs'[Len(mainDocs) + 1] = aggregate
<1>1. DOMAIN mainDocs' = DOMAIN mainDocs \cup {Len(mainDocs) + 1}
  OBVIOUS
<1>2. \A i \in DOMAIN mainDocs : mainDocs'[i] = mainDocs[i] /\ i # Len(mainDocs) + 1
  OBVIOUS
<1>3. mainDocs'[Len(mainDocs) + 1] = aggregate
  OBVIOUS
<1>4. Aggregated' = Aggregated \cup aggregate.parts
  BY <1>1, <1>2, <1>3 DEF Aggregated
<1> QED
  BY <1>1, <1>2, <1>3, <1>4

-----------------------------------------------------------------------------
(* Types *)

LEMMA NoDocType == NoDoc \in Aggregates
  BY BoundsAssumption DEF NoDoc, Aggregates, Days

LEMMA TypeInit == Init => TypeOK
<1> SUFFICES ASSUME Init PROVE TypeOK
  OBVIOUS
<1>1. mem \in Seq(Samples) /\ dayDocs \in Seq(Samples) /\ mainDocs \in Seq(Aggregates)
  BY DEF Init
<1>2. doc \in [Samples -> Aggregates]
  BY NoDocType DEF Init
<1>3. now \in Days /\ taken \in 0 .. MaxSamples /\ faults \in 0 .. MaxFaults
      /\ day \in [Samples -> Days]
  BY BoundsAssumption DEF Init, Days
<1>4. pc \in [Samples -> {"idle", "done", "lost"} \cup Pending]
  BY DEF Init
<1> QED
  BY <1>1, <1>2, <1>3, <1>4 DEF Init, TypeOK

\* The first and the last sample in memory are samples.
LEMMA InMemory ==
  ASSUME TypeOK, mem # <<>>
  PROVE  /\ mem[1] \in ToSet(mem) /\ Last(mem) \in ToSet(mem)
         /\ ToSet(mem) \subseteq Samples
BY DEF TypeOK, ToSet, Last

LEMMA TypeStep == TypeOK /\ [Next]_vars => TypeOK'
<1> SUFFICES ASSUME TypeOK, [Next]_vars PROVE TypeOK'
  OBVIOUS
<1> USE DEF Pending, Rollover
<1>1. CASE Load
  BY <1>1 DEF Load, TypeOK
<1>2. CASE LoadFails
  BY <1>2, BoundsAssumption DEF LoadFails, Fault, TypeOK
<1>3. CASE SetData
  <2>1. taken + 1 \in Samples /\ taken' \in 0 .. MaxSamples
    BY <1>3, BoundsAssumption DEF SetData, TypeOK, Samples
  <2>2. day' \in [Samples -> Days]
    BY <1>3, <2>1 DEF SetData, TypeOK
  <2>3. overlapped' \subseteq Samples /\ retaken' \subseteq Samples
    <3>1. InFlight \subseteq Samples /\ ToSet(mem) \subseteq Samples
      BY ToSetType DEF InFlight, TypeOK
    <3> QED
      BY <1>3, <2>1, <3>1 DEF SetData, TypeOK
  <2>4. pc' \in [Samples -> {"idle", "done", "lost"} \cup Pending]
    BY <1>3, <2>1 DEF SetData, TypeOK
  <2>5. doc' \in [Samples -> Aggregates]
    <3>1. shouldMainCollectionBeUpdated(now) => Averaged \in Aggregates
      BY InMemory DEF shouldMainCollectionBeUpdated, Averaged, Aggregates, TypeOK
    <3> QED
      BY <1>3, <3>1, NoDocType DEF SetData, TypeOK
  <2> QED
    BY <1>3, <2>1, <2>2, <2>3, <2>4, <2>5 DEF SetData, TypeOK
<1>4. CASE Crash
  <2>1. retaken' \subseteq Samples
    BY <1>4, ToSetType DEF Crash, TypeOK
  <2>2. mem' \in Seq(Samples) /\ doc' \in [Samples -> Aggregates]
    BY <1>4, NoDocType DEF Crash
  <2>3. pc' \in [Samples -> {"idle", "done", "lost"} \cup Pending]
    BY <1>4 DEF Crash, TypeOK
  <2>4. faults' \in 0 .. MaxFaults
    BY <1>4, BoundsAssumption DEF Crash, Fault, TypeOK
  <2> QED
    BY <1>4, <2>1, <2>2, <2>3, <2>4 DEF Crash, TypeOK
<1>5. CASE Midnight
  BY <1>5, BoundsAssumption DEF Midnight, TypeOK, Days
<1>6. ASSUME NEW s \in Samples, Proceed(s) PROVE TypeOK'
  <2>1. CASE SaveMain(s)
    <3>1. mainDocs' \in Seq(Aggregates)
      BY <2>1 DEF SaveMain, TypeOK
    <3> QED
      BY <2>1, <3>1, BoundsAssumption DEF SaveMain, TypeOK, NoDoc, Aggregates, Days
  <2>2. CASE ClearDay(s)
    BY <2>2 DEF ClearDay, TypeOK
  <2>3. CASE ClearMemory(s)
    BY <2>3 DEF ClearMemory, TypeOK
  <2>4. CASE SaveDay(s)
    BY <2>4 DEF SaveDay, TypeOK
  <2>5. CASE Push(s)
    BY <2>5 DEF Push, TypeOK
  <2> QED
    BY <1>6, <2>1, <2>2, <2>3, <2>4, <2>5 DEF Proceed
<1>7. ASSUME NEW s \in Samples, Fails(s) PROVE TypeOK'
  <2>1. CASE SaveMainFails(s)
    BY <2>1, BoundsAssumption DEF SaveMainFails, Fault, TypeOK, NoDoc, Aggregates, Days
  <2>2. CASE ClearDayFails(s)
    BY <2>2, BoundsAssumption, SubSequencesType DEF ClearDayFails, Fault, TypeOK
  <2>3. CASE SaveDayFails(s)
    BY <2>3, BoundsAssumption DEF SaveDayFails, Fault, TypeOK
  <2> QED
    BY <1>7, <2>1, <2>2, <2>3 DEF Fails
<1>8. CASE UNCHANGED vars
  BY <1>8 DEF vars, TypeOK
<1> QED
  BY <1>1, <1>2, <1>3, <1>4, <1>5, <1>6, <1>7, <1>8 DEF Next

-----------------------------------------------------------------------------
(* The inductive invariant *)

LEMMA InvInit == Init => Inv
<1> SUFFICES ASSUME Init PROVE Inv
  OBVIOUS
<1> USE DEF Init
<1>1. Aggregated = {} /\ ToSet(mem) = {} /\ ToSet(dayDocs) = {} /\ InFlight = {}
  BY EmptyToSet DEF Aggregated, InFlight, Pending, Rollover
<1>2. KnownOnly
  BY <1>1, BoundsAssumption DEF KnownOnly, Samples, NoDoc
<1>3. Meetings /\ OneDay /\ RolloverHolds /\ NotAggregated
  BY <1>1 DEF Meetings, OneDay, InOrder, Collected, CollectsOneDay, RolloverHolds, NotAggregated
<1>4. StoredSamplesSurvive /\ NoSampleCountedTwice /\ AggregatesAreDated
  BY <1>1 DEF StoredSamplesSurvive, NoSampleCountedTwice, AggregatesAreDated
<1> QED
  BY <1>2, <1>3, <1>4, TypeInit DEF Inv

\* The sample that is handed over was nowhere before.
LEMMA NewSample ==
  ASSUME Inv, SetData
  PROVE  /\ taken + 1 \in Samples /\ pc[taken + 1] = "idle"
         /\ taken + 1 \notin ToSet(mem) \cup ToSet(dayDocs) \cup Aggregated \cup stored \cup unsaved
         /\ \A s \in Samples : taken + 1 \notin doc[s].parts
         /\ taken' = taken + 1 /\ taken \in Nat
         /\ day' = [day EXCEPT ![taken + 1] = now]
         /\ Aggregated' = Aggregated
         /\ UNCHANGED <<ready, mem, dayDocs, mainDocs, now, stored, unsaved, faults>>
         /\ pc'[taken + 1] = IF shouldMainCollectionBeUpdated(now) THEN "main" ELSE "day"
         /\ \A s \in Samples : s # taken + 1 => pc'[s] = pc[s] /\ doc'[s] = doc[s] /\ day'[s] = day[s]
         /\ shouldMainCollectionBeUpdated(now) => doc'[taken + 1] = Averaged
<1>1. taken + 1 \in Samples /\ taken \in Nat
  BY BoundsAssumption DEF SetData, Inv, TypeOK, Samples
<1>2. \A n \in 1 .. taken : n # taken + 1
  BY <1>1
<1>3. pc[taken + 1] = "idle"
  BY <1>1 DEF Inv, KnownOnly
<1>4. /\ taken + 1 \notin ToSet(mem) \cup ToSet(dayDocs) \cup Aggregated \cup stored \cup unsaved
      /\ \A s \in Samples : taken + 1 \notin doc[s].parts
  BY <1>1, <1>2 DEF Inv, KnownOnly
<1>5. /\ pc' = [pc EXCEPT ![taken + 1] =
                    IF shouldMainCollectionBeUpdated(now) THEN "main" ELSE "day"]
      /\ doc' = [doc EXCEPT ![taken + 1] =
                     IF shouldMainCollectionBeUpdated(now) THEN Averaged ELSE NoDoc]
      /\ day' = [day EXCEPT ![taken + 1] = now] /\ taken' = taken + 1
      /\ UNCHANGED <<ready, mem, dayDocs, mainDocs, now, stored, unsaved, faults>>
  BY DEF SetData
<1> QED
  BY <1>1, <1>3, <1>4, <1>5 DEF Inv, TypeOK, Aggregated

\* A call that has begun is of a sample that was handed over.
LEMMA Begun ==
  ASSUME Inv, NEW s \in Samples, pc[s] # "idle"
  PROVE  s \in 1 .. taken
<1>1. ~(s > taken) /\ taken \in Nat /\ s \in Nat /\ s >= 1
  BY BoundsAssumption DEF Inv, KnownOnly, TypeOK, Samples
<1> QED
  BY <1>1

LEMMA KnownStep == Inv /\ [Next]_vars => KnownOnly'
<1> SUFFICES ASSUME Inv, [Next]_vars PROVE KnownOnly'
  OBVIOUS
<1>t. TypeOK /\ KnownOnly /\ taken \in Nat /\ now \in Nat
  BY BoundsAssumption DEF Inv, TypeOK, Days
<1> USE DEF KnownOnly, InFlight, Pending, Rollover
<1>1. CASE Load
  BY <1>1, <1>t DEF Load, Aggregated
<1>2. CASE LoadFails
  BY <1>2, <1>t DEF LoadFails, Aggregated
<1>3. CASE SetData
  <2>1. 1 .. taken \subseteq 1 .. taken + 1
    BY <1>t
  <2>2. ready
    BY <1>3 DEF SetData
  <2>3. \A s \in Samples : day'[s] <= now'
    <3>1. day' = [day EXCEPT ![taken + 1] = now] /\ now' = now
      BY <1>3, NewSample
    <3>2. \A s \in Samples : day'[s] = day[s] \/ day'[s] = now
      BY <1>t, <3>1 DEF TypeOK
    <3> QED
      BY <1>t, <3>1, <3>2
  <2>5. ASSUME NEW s \in Samples, s > taken' PROVE pc'[s] = "idle"
    <3>1. s # taken + 1 /\ s > taken
      BY <1>3, <1>t, <2>5, NewSample, BoundsAssumption DEF Samples
    <3>2. pc[s] = "idle"
      BY <1>t, <3>1
    <3> QED
      BY <1>3, <3>1, <3>2, NewSample
  <2>4. \A s \in Samples : doc'[s].parts \subseteq 1 .. taken'
    <3>1. doc' = [doc EXCEPT ![taken + 1] =
                      IF shouldMainCollectionBeUpdated(now) THEN Averaged ELSE NoDoc]
      BY <1>3 DEF SetData
    <3>2. ToSet(mem) \subseteq 1 .. taken /\ taken' = taken + 1
      BY <1>3, <1>t, NewSample
    <3>3. \A s \in Samples : \/ doc'[s].parts = doc[s].parts
                             \/ doc'[s].parts = ToSet(mem)
                             \/ doc'[s].parts = {}
      BY <1>t, <3>1 DEF TypeOK, Averaged, NoDoc
    <3> QED
      BY <1>t, <2>1, <3>2, <3>3
  <2>6. taken' = taken + 1 /\ Aggregated' = Aggregated
        /\ UNCHANGED <<ready, mem, dayDocs, stored, unsaved>>
    BY <1>3, NewSample
  <2> QED
    BY <1>t, <2>1, <2>2, <2>3, <2>4, <2>5, <2>6
<1>4. CASE Crash
  BY <1>4, <1>t, EmptyToSet DEF Crash, TypeOK, Aggregated, NoDoc
<1>5. CASE Midnight
  BY <1>5, <1>t DEF Midnight, TypeOK, Days, Aggregated
<1>6. ASSUME NEW s \in Samples, Proceed(s) PROVE KnownOnly'
  <2>1. CASE SaveMain(s)
    <3>1. Aggregated' = Aggregated \cup doc[s].parts
      BY <2>1, <1>t, AggregatedAppend DEF SaveMain, TypeOK
    <3> QED
      BY <2>1, <3>1, <1>t DEF SaveMain, TypeOK, NoDoc
  <2>2. CASE ClearDay(s)
    BY <2>2, <1>t, EmptyToSet DEF ClearDay, TypeOK, Aggregated
  <2>3. CASE ClearMemory(s)
    BY <2>3, <1>t, EmptyToSet DEF ClearMemory, TypeOK, Aggregated
  <2>4. CASE SaveDay(s)
    <3>1. ToSet(dayDocs') = ToSet(dayDocs) \cup {s}
      BY <2>4, <1>t, AppendToSet DEF SaveDay, TypeOK
    <3>2. s \in 1 .. taken
      BY <2>4, Begun DEF SaveDay
    <3> QED
      BY <2>4, <3>1, <3>2, <1>t DEF SaveDay, TypeOK, Aggregated
  <2>5. CASE Push(s)
    <3>1. ToSet(mem') = ToSet(mem) \cup {s}
      BY <2>5, <1>t, AppendToSet DEF Push, TypeOK
    <3>2. s \in 1 .. taken
      BY <2>5, Begun DEF Push
    <3> QED
      BY <2>5, <3>1, <3>2, <1>t DEF Push, TypeOK, Aggregated
  <2> QED
    BY <1>6, <2>1, <2>2, <2>3, <2>4, <2>5 DEF Proceed
<1>7. ASSUME NEW s \in Samples, Fails(s) PROVE KnownOnly'
  <2>1. CASE SaveMainFails(s)
    BY <2>1, <1>t DEF SaveMainFails, TypeOK, NoDoc, Aggregated
  <2>2. CASE ClearDayFails(s)
    <3>1. ToSet(dayDocs') \subseteq ToSet(dayDocs)
      BY <2>2, <1>t, SubSequencesType DEF ClearDayFails, TypeOK
    <3> QED
      BY <2>2, <3>1, <1>t DEF ClearDayFails, TypeOK, Aggregated
  <2>3. CASE SaveDayFails(s)
    BY <2>3, <1>t DEF SaveDayFails, TypeOK, Aggregated
  <2> QED
    BY <1>7, <2>1, <2>2, <2>3 DEF Fails
<1>8. CASE UNCHANGED vars
  BY <1>8, <1>t DEF vars, Aggregated
<1> QED
  BY <1>1, <1>2, <1>3, <1>4, <1>5, <1>6, <1>7, <1>8 DEF Next

\* What a call does up to its first await: which calls it meets, and what becomes of them.
LEMMA CallsMeet ==
  ASSUME Inv, SetData
  PROVE  /\ overlapped \subseteq overlapped' /\ retaken \subseteq retaken'
         /\ InFlight' = InFlight \cup {taken + 1} /\ taken + 1 \notin InFlight
         /\ overlapped' \subseteq overlapped \cup InFlight \cup {taken + 1}
         /\ \A t \in InFlight \ overlapped' : day[t] = now /\ ~shouldMainCollectionBeUpdated(now)
         /\ \A t \in InFlight : (\/ pc[t] \in Rollover \/ day[t] # now
                                 \/ shouldMainCollectionBeUpdated(now))
                                => taken + 1 \in overlapped'
         /\ shouldMainCollectionBeUpdated(now) /\ (\E t \in InFlight : pc[t] \in Rollover)
                => ToSet(mem) \subseteq retaken'
<1>1. /\ taken + 1 \in Samples /\ pc[taken + 1] = "idle"
      /\ pc'[taken + 1] \in {"main", "day"}
      /\ \A s \in Samples : s # taken + 1 => pc'[s] = pc[s]
  BY NewSample
<1>2. InFlight' = InFlight \cup {taken + 1} /\ taken + 1 \notin InFlight
  BY <1>1 DEF InFlight, Pending, Rollover
<1> DEFINE met == {t \in InFlight : shouldMainCollectionBeUpdated(now) \/ day[t] # now}
           rolling == {t \in InFlight : pc[t] \in Rollover}
<1>3. overlapped' = overlapped \cup met \cup {x \in {taken + 1} : met \cup rolling # {}}
  BY DEF SetData
<1>4. retaken' = retaken \cup {x \in ToSet(mem) :
                              shouldMainCollectionBeUpdated(now) /\ rolling # {}}
  BY DEF SetData
<1> QED
  BY <1>2, <1>3, <1>4

\* No other step begins a call, a rollover or an overlap.
LEMMA CallsGoOn ==
  ASSUME TypeOK, [Next]_vars, ~SetData
  PROVE  /\ UNCHANGED <<overlapped, day, taken>>
         /\ InFlight' \subseteq InFlight /\ retaken \subseteq retaken'
         /\ \A t \in Samples : pc'[t] \in Rollover => pc[t] \in Rollover
         /\ now \in Nat /\ now' \in Nat /\ now' >= now
<1> USE DEF InFlight, Pending, Rollover
<1>t. now \in Nat
  BY BoundsAssumption DEF TypeOK, Days
<1>1. CASE Load
  BY <1>1, <1>t DEF Load
<1>2. CASE LoadFails
  BY <1>2, <1>t DEF LoadFails
<1>4. CASE Crash
  BY <1>4, <1>t DEF Crash, TypeOK
<1>5. CASE Midnight
  BY <1>5, <1>t DEF Midnight
<1>6. ASSUME NEW s \in Samples, Proceed(s)
      PROVE  /\ UNCHANGED <<overlapped, day, taken>>
             /\ InFlight' \subseteq InFlight /\ retaken \subseteq retaken'
             /\ \A t \in Samples : pc'[t] \in Rollover => pc[t] \in Rollover
             /\ now' = now
  BY <1>6 DEF Proceed, SaveMain, ClearDay, ClearMemory, SaveDay, Push, TypeOK
<1>7. ASSUME NEW s \in Samples, Fails(s)
      PROVE  /\ UNCHANGED <<overlapped, day, taken>>
             /\ InFlight' \subseteq InFlight /\ retaken \subseteq retaken'
             /\ \A t \in Samples : pc'[t] \in Rollover => pc[t] \in Rollover
             /\ now' = now
  BY <1>7 DEF Fails, SaveMainFails, ClearDayFails, SaveDayFails, TypeOK
<1>8. CASE UNCHANGED vars
  BY <1>8, <1>t DEF vars
<1> QED
  BY <1>t, <1>1, <1>2, <1>4, <1>5, <1>6, <1>7, <1>8 DEF Next

\* Calls that meet go on being known as overlapped.
LEMMA MeetingsStep == Inv /\ [Next]_vars => Meetings'
<1> SUFFICES ASSUME Inv, [Next]_vars PROVE Meetings'
  OBVIOUS
<1>t. TypeOK /\ KnownOnly /\ Meetings
  BY DEF Inv
<1>1. CASE SetData
  <2> DEFINE n == taken + 1
  <2>1. /\ n \in Samples /\ n \notin InFlight /\ InFlight' = InFlight \cup {n}
        /\ overlapped \subseteq overlapped'
        /\ \A s \in Samples : s # n => pc'[s] = pc[s] /\ day'[s] = day[s]
        /\ day'[n] = now /\ InFlight \subseteq Samples /\ taken' = n /\ taken \in Nat
        /\ pc'[n] = IF shouldMainCollectionBeUpdated(now) THEN "main" ELSE "day"
    BY <1>1, <1>t, NewSample, CallsMeet DEF InFlight, TypeOK
  <2>2. \A s, t \in InFlight' : day'[s] # day'[t] => s \in overlapped'
    BY <1>1, <1>t, <2>1, CallsMeet DEF Meetings
  <2>3. \A s, t \in InFlight' : s # t /\ pc'[t] \in Rollover => s \in overlapped'
    BY <1>1, <1>t, <2>1, CallsMeet DEF Meetings, Rollover
  <2>4. ASSUME NEW s \in InFlight' \ overlapped', NEW t \in 1 .. taken'
        PROVE  day'[t] <= day'[s]
    <3>1. day'[s] = now
      BY <1>1, <1>t, <2>1, <2>4, CallsMeet
    <3>2. t \in 1 .. taken \/ t = n
      BY <2>1, <2>4
    <3>3. t \in Samples /\ now \in Nat
      BY <1>t, <2>1, <2>4, <3>2, BoundsAssumption DEF TypeOK, Samples, Days
    <3> QED
      BY <1>t, <2>1, <3>1, <3>2, <3>3 DEF KnownOnly
  <2> QED
    BY <2>2, <2>3, <2>4 DEF Meetings
<1>2. CASE ~SetData
  <2>1. InFlight \subseteq Samples
    BY DEF InFlight
  <2> QED
    BY <1>2, <1>t, <2>1, CallsGoOn DEF Meetings
<1> QED
  BY <1>1, <1>2

-----------------------------------------------------------------------------
(* The order of what is collected *)

\* A sequence stays in order when a sample of its day is added at its end.
LEMMA OrderAppend ==
  ASSUME TypeOK, NEW seq \in Seq(Samples), InOrder(seq), NEW s \in Samples,
         \A t \in ToSet(seq) : /\ s \notin overlapped => day[t] <= day[s]
                               /\ t \notin overlapped => day[s] = day[t]
  PROVE  InOrder(Append(seq, s))
<1>1. /\ DOMAIN Append(seq, s) = 1 .. Len(seq) + 1 /\ DOMAIN seq = 1 .. Len(seq)
      /\ Len(seq) \in Nat
      /\ \A i \in 1 .. Len(seq) : Append(seq, s)[i] = seq[i]
      /\ Append(seq, s)[Len(seq) + 1] = s
  OBVIOUS
<1>2. \A i \in 1 .. Len(seq) : seq[i] \in ToSet(seq)
  BY <1>1 DEF ToSet
<1> SUFFICES ASSUME NEW i \in 1 .. Len(seq) + 1, NEW j \in 1 .. Len(seq) + 1, i < j
             PROVE  LET new == Append(seq, s) IN
                    /\ new[j] \notin overlapped => day[new[i]] <= day[new[j]]
                    /\ new[i] \notin overlapped => day[new[j]] = day[new[i]]
  BY <1>1 DEF InOrder
<1>3. i \in 1 .. Len(seq) /\ (j \in 1 .. Len(seq) \/ j = Len(seq) + 1)
  BY <1>1
<1>4. CASE j \in 1 .. Len(seq)
  BY <1>1, <1>3, <1>4 DEF InOrder
<1>5. CASE j = Len(seq) + 1
  BY <1>1, <1>2, <1>3, <1>5
<1> QED
  BY <1>3, <1>4, <1>5

\* What is left of a sequence in order is in order.
LEMMA OrderKept ==
  ASSUME NEW seq \in Seq(Samples), InOrder(seq), NEW kept \in SubSequences(seq)
  PROVE  InOrder(kept)
<1>1. PICK n \in 0 .. Len(seq) : \E at \in [1 .. n -> DOMAIN seq] :
         /\ \A i, j \in DOMAIN at : i < j => at[i] < at[j]
         /\ kept = [i \in DOMAIN at |-> seq[at[i]]]
  BY DEF SubSequences
<1>2. PICK at \in [1 .. n -> DOMAIN seq] :
         /\ \A i, j \in 1 .. n : i < j => at[i] < at[j]
         /\ kept = [i \in 1 .. n |-> seq[at[i]]]
  BY <1>1
<1>3. DOMAIN kept = 1 .. n /\ \A i \in 1 .. n : kept[i] = seq[at[i]] /\ at[i] \in DOMAIN seq
  BY <1>2
<1> QED
  BY <1>2, <1>3 DEF InOrder

\* A sequence stays in order when more samples are overlapped.
LEMMA OrderStays ==
  ASSUME NEW seq, InOrder(seq), overlapped \subseteq overlapped',
         \A t \in ToSet(seq) : day'[t] = day[t]
  PROVE  \A i, j \in DOMAIN seq : i < j =>
            /\ seq[j] \notin overlapped' => day'[seq[i]] <= day'[seq[j]]
            /\ seq[i] \notin overlapped' => day'[seq[j]] = day'[seq[i]]
<1>1. \A i \in DOMAIN seq : seq[i] \in ToSet(seq)
  BY DEF ToSet
<1> QED
  BY <1>1 DEF InOrder

\* What the order of the memory says of its first and last sample.
LEMMA FirstAndLast ==
  ASSUME TypeOK, InOrder(mem), mem # <<>>
  PROVE  /\ \A t \in ToSet(mem) \ overlapped : day[mem[1]] <= day[t] /\ day[t] = day[Last(mem)]
         /\ mem[1] \notin overlapped => day[mem[1]] = day[Last(mem)]
<1>1. /\ Len(mem) \in Nat \ {0} /\ DOMAIN mem = 1 .. Len(mem) /\ Last(mem) = mem[Len(mem)]
      /\ \A i \in DOMAIN mem : mem[i] \in Samples
  BY DEF TypeOK, Last
<1>2. ASSUME NEW i \in DOMAIN mem, mem[i] \notin overlapped
      PROVE  day[mem[1]] <= day[mem[i]] /\ day[mem[i]] = day[Last(mem)]
  <2>1. day[mem[i]] \in Nat
    BY <1>1, BoundsAssumption DEF TypeOK, Days
  <2>2. i = 1 \/ 1 < i
    BY <1>1
  <2>3. i = Len(mem) \/ i < Len(mem)
    BY <1>1
  <2>4. 1 \in DOMAIN mem /\ Len(mem) \in DOMAIN mem
    BY <1>1
  <2>5. day[mem[1]] <= day[mem[i]]
    BY <1>2, <2>1, <2>2, <2>4 DEF InOrder
  <2>6. day[mem[i]] = day[Last(mem)]
    BY <1>1, <1>2, <2>3, <2>4 DEF InOrder
  <2> QED
    BY <2>5, <2>6
<1>3. 1 \in DOMAIN mem
  BY <1>1
<1>4. \A t \in ToSet(mem) : \E i \in DOMAIN mem : t = mem[i]
  BY DEF ToSet
<1> QED
  BY <1>2, <1>3, <1>4

-----------------------------------------------------------------------------
\* What is collected, and what is on its way there, stays of one day.
LEMMA OneDayStep == Inv /\ [Next]_vars => OneDay'
<1> SUFFICES ASSUME Inv, [Next]_vars PROVE OneDay'
  OBVIOUS
<1>t. TypeOK /\ KnownOnly /\ Meetings /\ OneDay /\ RolloverHolds
  BY DEF Inv
<1>s. /\ ToSet(mem) \subseteq 1 .. taken /\ ToSet(dayDocs) \subseteq 1 .. taken
      /\ ToSet(mem) \subseteq Samples /\ ToSet(dayDocs) \subseteq Samples
      /\ InFlight \subseteq Samples /\ Collected \subseteq Samples
  BY <1>t, ToSetType DEF KnownOnly, TypeOK, InFlight, Collected
<1>1. CASE SetData
  <2> DEFINE n == taken + 1
  <2>1. /\ n \in Samples /\ n \notin InFlight /\ InFlight' = InFlight \cup {n}
        /\ n \notin ToSet(mem) \cup ToSet(dayDocs)
        /\ overlapped \subseteq overlapped'
        /\ \A s \in Samples : s # n => pc'[s] = pc[s] /\ day'[s] = day[s]
        /\ pc'[n] = IF shouldMainCollectionBeUpdated(now) THEN "main" ELSE "day"
        /\ day'[n] = now /\ ready /\ UNCHANGED <<ready, mem, dayDocs>>
    <3>1. /\ n \in Samples
          /\ n \notin ToSet(mem) \cup ToSet(dayDocs)
          /\ \A s \in Samples : s # n => pc'[s] = pc[s] /\ day'[s] = day[s]
          /\ pc'[n] = IF shouldMainCollectionBeUpdated(now) THEN "main" ELSE "day"
          /\ day' = [day EXCEPT ![n] = now]
          /\ UNCHANGED <<ready, mem, dayDocs>>
      BY <1>1, NewSample
    <3>2. /\ n \notin InFlight /\ InFlight' = InFlight \cup {n}
          /\ overlapped \subseteq overlapped'
      BY <1>1, CallsMeet
    <3>3. ready
      BY <1>1 DEF SetData
    <3>4. day'[n] = now
      BY <1>t, <3>1 DEF TypeOK
    <3> QED
      BY <3>1, <3>2, <3>3, <3>4
  <2>2. \A t \in InFlight \ overlapped' : day[t] = now
    BY <1>1, CallsMeet
  <2>3. InOrder(mem)' /\ InOrder(dayDocs)'
    <3>1. /\ \A t \in ToSet(mem) : day'[t] = day[t]
          /\ \A t \in ToSet(dayDocs) : day'[t] = day[t]
      BY <1>s, <2>1
    <3>2. InOrder(mem)'
      BY <1>t, <2>1, <3>1, OrderStays DEF OneDay, InOrder
    <3>3. InOrder(dayDocs)'
      BY <1>t, <2>1, <3>1, OrderStays DEF OneDay, InOrder
    <3> QED
      BY <3>2, <3>3
  <2>4. Collected' \subseteq Collected /\ \A t \in Collected : day'[t] = day[t]
    BY <1>s, <2>1 DEF Collected
  <2>5. CollectsOneDay'
    BY <1>t, <2>4 DEF OneDay, CollectsOneDay, Collected
  <2>6. ASSUME pc'[n] = "day", NEW t \in Collected' PROVE day[t] = now
    <3>1. t \in ToSet(mem) \/ t \in InFlight
      BY <1>t, <2>1, <2>6 DEF OneDay, Collected
    <3>2. t \notin overlapped /\ t \notin overlapped'
      BY <2>1, <2>6 DEF Collected
    <3>3. CASE t \in ToSet(mem)
      <4>1. mem # <<>>
        BY <3>3, EmptyToSet
      <4>2. day[mem[1]] <= day[t]
        BY <1>t, <3>2, <3>3, <4>1, FirstAndLast DEF OneDay
      <4>3. ~(now > day[mem[1]])
        BY <2>1, <2>6, <4>1 DEF shouldMainCollectionBeUpdated, isDayEnded
      <4>4. /\ now \in Nat /\ day[mem[1]] \in Nat /\ day[t] \in Nat /\ day[t] <= now
        BY <1>s, <1>t, <3>3, <4>1, InMemory, BoundsAssumption DEF TypeOK, KnownOnly, Days
      <4> QED
        BY <4>2, <4>3, <4>4
    <3>4. CASE t \in InFlight
      BY <2>2, <3>2, <3>4
    <3> QED
      BY <3>1, <3>3, <3>4
  <2>7. ASSUME NEW s \in InFlight', pc'[s] \in {"day", "push"}, NEW t \in Collected'
        PROVE  day'[t] = day'[s]
    <3>1. CASE s = n
      BY <2>1, <2>4, <2>6, <2>7, <3>1
    <3>2. CASE s # n
      BY <1>s, <1>t, <2>1, <2>4, <2>7, <3>2 DEF OneDay
    <3> QED
      BY <3>1, <3>2
  <2>8. ToSet(dayDocs') \ overlapped' \subseteq ToSet(mem') \cup InFlight'
    BY <1>t, <2>1 DEF OneDay
  <2> QED
    BY <2>3, <2>5, <2>7, <2>8 DEF OneDay
<1>2. CASE ~SetData
  <2>u. UNCHANGED <<overlapped, day>> /\ InFlight' \subseteq InFlight
    BY <1>2, <1>t, CallsGoOn
  <2>o. \A seq : InOrder(seq) => InOrder(seq)'
    BY <2>u DEF InOrder
  <2>1. ASSUME UNCHANGED <<ready, mem, dayDocs, overlapped, day>>, InFlight' = InFlight,
               \A s \in Samples : pc'[s] \in {"day", "push"} => pc[s] \in {"day", "push"}
        PROVE  OneDay'
    BY <1>s, <1>t, <2>1 DEF OneDay, InOrder, CollectsOneDay, Collected
  <2>2. CASE Load
    <3>1. mem' = dayDocs /\ dayDocs' = dayDocs /\ InFlight' = {} /\ ready'
      BY <1>t, <2>2, <2>u DEF Load, KnownOnly
    <3>2. Collected' \subseteq Collected
      BY <2>u, <3>1 DEF Collected
    <3> QED
      BY <1>t, <2>u, <2>o, <3>1, <3>2 DEF OneDay, CollectsOneDay, Collected
  <2>3. CASE Crash
    <3>1. /\ mem' = <<>> /\ dayDocs' = dayDocs /\ ~ready'
          /\ pc' = [s \in Samples |-> IF s \in InFlight THEN "lost" ELSE pc[s]]
      BY <2>3 DEF Crash
    <3>2. InFlight' = {}
      BY <3>1 DEF InFlight, Pending, Rollover
    <3>3. Collected' \subseteq Collected /\ InOrder(<<>>)
      BY <2>u, <3>1, EmptyToSet DEF Collected, InOrder
    <3> QED
      BY <1>t, <2>u, <2>o, <3>1, <3>2, <3>3 DEF OneDay, CollectsOneDay, Collected
  <2>4. CASE LoadFails \/ Midnight \/ UNCHANGED vars
    BY <2>1, <2>4, <2>u DEF LoadFails, Midnight, vars, InFlight
  <2>5. ASSUME NEW s \in Samples, SaveMain(s) \/ SaveMainFails(s) \/ SaveDayFails(s)
        PROVE  OneDay'
    <3>1. /\ UNCHANGED <<ready, mem, dayDocs>> /\ pc[s] \in {"main", "day"}
          /\ pc' = [pc EXCEPT ![s] = IF pc[s] = "main" THEN "clear" ELSE "push"]
      BY <2>5 DEF SaveMain, SaveMainFails, SaveDayFails
    <3>2. InFlight' = InFlight
      BY <1>t, <3>1 DEF TypeOK, InFlight, Pending, Rollover
    <3> QED
      BY <1>t, <2>1, <2>u, <3>1, <3>2 DEF TypeOK
  <2>6. ASSUME NEW s \in Samples, ClearDay(s) \/ ClearDayFails(s)
        PROVE  OneDay'
    <3>1. /\ UNCHANGED <<ready, mem>> /\ pc[s] = "clear"
          /\ pc' = [pc EXCEPT ![s] = "cleared"] \/ pc' = pc
      BY <2>6 DEF ClearDay, ClearDayFails
    <3>2. InFlight' = InFlight
      BY <1>t, <3>1 DEF TypeOK, InFlight, Pending, Rollover
    <3>3. InOrder(dayDocs') /\ ToSet(dayDocs') \subseteq ToSet(dayDocs)
      <4>1. CASE ClearDay(s)
        BY <4>1, EmptyToSet DEF ClearDay, InOrder
      <4>2. CASE ClearDayFails(s)
        BY <1>t, <4>2, OrderKept, SubSequencesType DEF ClearDayFails, TypeOK, OneDay
      <4> QED
        BY <2>6, <4>1, <4>2
    <3>4. InOrder(dayDocs)'
      BY <2>u, <3>3 DEF InOrder
    <3>5. Collected' \subseteq Collected
      BY <2>u, <3>1, <3>3 DEF Collected
    <3>6. \A t \in Samples : pc'[t] \in {"day", "push"} => pc[t] \in {"day", "push"}
      BY <1>t, <3>1 DEF TypeOK
    <3> QED
      BY <1>s, <1>t, <2>u, <2>o, <3>1, <3>2, <3>3, <3>4, <3>5, <3>6
      DEF OneDay, CollectsOneDay, Collected
  <2>7. ASSUME NEW s \in Samples, ClearMemory(s) PROVE OneDay'
    <3>1. /\ UNCHANGED <<ready, dayDocs>> /\ mem' = <<>> /\ pc[s] = "cleared"
          /\ pc' = [pc EXCEPT ![s] = "day"]
      BY <2>7 DEF ClearMemory
    <3>2. Collected' = {} /\ ToSet(dayDocs') \subseteq overlapped'
      BY <1>t, <2>u, <3>1, EmptyToSet DEF RolloverHolds, Collected
    <3>3. InOrder(mem)'
      BY <3>1 DEF InOrder
    <3> QED
      BY <1>t, <2>u, <2>o, <3>1, <3>2, <3>3 DEF OneDay, CollectsOneDay, Collected
  <2>8. ASSUME NEW s \in Samples, SaveDay(s) \/ Push(s) PROVE OneDay'
    <3>1. /\ ready' = ready /\ pc[s] \in {"day", "push"} /\ s \in InFlight
          /\ \/ dayDocs' = Append(dayDocs, s) /\ mem' = mem /\ pc' = [pc EXCEPT ![s] = "push"]
             \/ mem' = Append(mem, s) /\ dayDocs' = dayDocs /\ pc' = [pc EXCEPT ![s] = "done"]
      BY <2>8 DEF SaveDay, Push, InFlight, Pending
    <3>2. \A t \in ToSet(mem) \cup ToSet(dayDocs) :
             /\ s \notin overlapped => day[t] <= day[s]
             /\ t \notin overlapped => day[s] = day[t]
      BY <1>s, <1>t, <3>1 DEF OneDay, Meetings, Collected
    <3>3. InOrder(mem') /\ InOrder(dayDocs')
      BY <1>t, <3>1, <3>2, OrderAppend DEF OneDay, TypeOK
    <3>4. InOrder(mem)' /\ InOrder(dayDocs)'
      BY <2>u, <3>3 DEF InOrder
    <3>5. /\ ToSet(mem') \cup ToSet(dayDocs') = ToSet(mem) \cup ToSet(dayDocs) \cup {s}
          /\ s \in ToSet(dayDocs') \/ s \in ToSet(mem')
          /\ ToSet(mem) \subseteq ToSet(mem') /\ ToSet(dayDocs') \subseteq ToSet(dayDocs) \cup {s}
      <4>1. ASSUME NEW docs \in Seq(Samples) PROVE ToSet(Append(docs, s)) = ToSet(docs) \cup {s}
        BY <4>1, AppendToSet
      <4>2. mem \in Seq(Samples) /\ dayDocs \in Seq(Samples)
        BY <1>t DEF TypeOK
      <4>3. CASE dayDocs' = Append(dayDocs, s) /\ mem' = mem
        BY <4>1, <4>2, <4>3
      <4>4. CASE mem' = Append(mem, s) /\ dayDocs' = dayDocs
        BY <4>1, <4>2, <4>4
      <4> QED
        BY <3>1, <4>3, <4>4
    <3>6. Collected' \subseteq Collected \cup ({s} \ overlapped)
      BY <2>u, <3>5 DEF Collected
    <3>7. /\ \A t \in Samples : pc'[t] \in {"day", "push"} => pc[t] \in {"day", "push"}
          /\ \A t \in InFlight : t \in InFlight' \/ t \in ToSet(mem')
      <4>1. mem' = Append(mem, s) => s \in ToSet(mem')
        BY <1>t, AppendToSet DEF TypeOK
      <4> QED
        BY <1>t, <3>1, <4>1 DEF TypeOK, InFlight, Pending, Rollover
    <3>8. \A t, u \in Collected' : day'[t] = day'[u]
      BY <1>t, <2>u, <3>1, <3>6 DEF OneDay, CollectsOneDay, Collected
    <3>9. \A x \in InFlight' : pc'[x] \in {"day", "push"} => \A t \in Collected' : day'[t] = day'[x]
      BY <1>s, <1>t, <2>u, <3>1, <3>6, <3>7 DEF OneDay, Meetings
    <3>10. ready' => ToSet(dayDocs') \ overlapped' \subseteq ToSet(mem') \cup InFlight'
      BY <1>t, <2>u, <3>1, <3>5, <3>7 DEF OneDay
    <3> QED
      BY <3>4, <3>8, <3>9, <3>10 DEF OneDay, CollectsOneDay, Collected
  <2> QED
    BY <1>2, <2>2, <2>3, <2>4, <2>5, <2>6, <2>7, <2>8 DEF Next, Proceed, Fails
<1> QED
  BY <1>1, <1>2

\* The aggregate of a rollover goes on holding the day in the database.
LEMMA RolloverStep == Inv /\ [Next]_vars => RolloverHolds'
<1> SUFFICES ASSUME Inv, [Next]_vars PROVE RolloverHolds'
  OBVIOUS
<1>t. TypeOK /\ KnownOnly /\ Meetings /\ OneDay /\ RolloverHolds
  BY DEF Inv
<1>s. /\ ToSet(mem) \subseteq Samples /\ ToSet(dayDocs) \subseteq Samples
      /\ \A s \in Samples : doc[s].parts \subseteq Samples
      /\ now \in Nat /\ \A s \in Samples : doc[s].date \in Nat
  BY <1>t, ToSetType, BoundsAssumption DEF TypeOK, Aggregates, Days
<1>1. CASE SetData
  <2> DEFINE n == taken + 1
  <2>1. /\ n \in Samples
        /\ n \notin ToSet(mem) \cup ToSet(dayDocs)
        /\ \A s \in Samples : n \notin doc[s].parts
        /\ \A s \in Samples : s # n => pc'[s] = pc[s] /\ doc'[s] = doc[s] /\ day'[s] = day[s]
        /\ pc'[n] = IF shouldMainCollectionBeUpdated(now) THEN "main" ELSE "day"
        /\ shouldMainCollectionBeUpdated(now) => doc'[n] = Averaged
        /\ Aggregated' = Aggregated /\ UNCHANGED <<mem, dayDocs, now, unsaved>>
    BY <1>1, NewSample
  <2>2. overlapped \subseteq overlapped' /\ ready
    BY <1>1, CallsMeet DEF SetData
  <2>3. ASSUME NEW s \in Samples, s # n
        PROVE  /\ pc'[s] = "main" =>
                    /\ ToSet(dayDocs') \ overlapped' \subseteq doc'[s].parts
                    /\ \A t \in doc'[s].parts \ overlapped' : day'[t] = doc'[s].date
                    /\ doc'[s].parts \cap overlapped' = {} => doc'[s].date < now'
               /\ pc'[s] = "clear" => ToSet(dayDocs') \ overlapped' \subseteq Aggregated' \cup unsaved'
               /\ pc'[s] = "cleared" => ToSet(dayDocs') \subseteq overlapped'
    BY <1>s, <1>t, <2>1, <2>2, <2>3 DEF RolloverHolds
  <2>4. ASSUME pc'[n] = "main"
        PROVE  /\ ToSet(dayDocs') \ overlapped' \subseteq doc'[n].parts
               /\ \A t \in doc'[n].parts \ overlapped' : day'[t] = doc'[n].date
               /\ doc'[n].parts \cap overlapped' = {} => doc'[n].date < now'
    <3>1. shouldMainCollectionBeUpdated(now)
      BY <2>1, <2>4
    <3>2. doc'[n].parts = ToSet(mem) /\ doc'[n].date = day[Last(mem)]
      BY <2>1, <3>1 DEF Averaged
    <3>3. mem # <<>> /\ now > day[mem[1]]
      BY <3>1 DEF shouldMainCollectionBeUpdated, isDayEnded
    <3>4. InFlight \subseteq overlapped'
      BY <1>1, <3>1, CallsMeet
    <3>5. ToSet(dayDocs) \ overlapped' \subseteq ToSet(mem)
      BY <1>t, <2>2, <3>4 DEF OneDay
    <3>6. /\ \A t \in ToSet(mem) \ overlapped : day[t] = day[Last(mem)]
          /\ mem[1] \notin overlapped => day[mem[1]] = day[Last(mem)]
      BY <1>t, <3>3, FirstAndLast DEF OneDay
    <3>7. \A t \in ToSet(mem) : day'[t] = day[t]
      BY <1>s, <2>1
    <3>8. mem[1] \in ToSet(mem)
      BY <1>t, <3>3, InMemory
    <3> QED
      BY <2>1, <2>2, <3>2, <3>3, <3>5, <3>6, <3>7, <3>8
  <2>5. pc'[n] \notin {"clear", "cleared"}
    BY <2>1
  <2> QED
    BY <2>3, <2>4, <2>5 DEF RolloverHolds
<1>2. CASE ~SetData
  <2>u. /\ UNCHANGED <<overlapped, day>> /\ InFlight' \subseteq InFlight /\ now' >= now
        /\ now' \in Nat
    BY <1>2, <1>t, CallsGoOn
  <2>1. CASE UNCHANGED <<dayDocs, mainDocs, pc, doc, unsaved>>
    BY <1>s, <1>t, <2>1, <2>u DEF RolloverHolds, Aggregated
  <2>2. CASE Crash
    <3>1. \A s \in Samples : pc'[s] \notin Rollover
      BY <2>2 DEF Crash, InFlight, Pending, Rollover
    <3> QED
      BY <3>1 DEF RolloverHolds, Rollover
  <2>3. ASSUME NEW s \in Samples, SaveMain(s) \/ SaveMainFails(s)
        PROVE  RolloverHolds'
    <3>1. /\ pc[s] = "main" /\ UNCHANGED <<dayDocs, now>>
          /\ pc' = [pc EXCEPT ![s] = "clear"] /\ doc' = [doc EXCEPT ![s] = NoDoc]
      BY <2>3 DEF SaveMain, SaveMainFails
    <3>2. Aggregated' \cup unsaved' = Aggregated \cup unsaved \cup doc[s].parts
      <4>1. CASE SaveMain(s)
        <5>1. Aggregated' = Aggregated \cup doc[s].parts
          BY <1>t, <4>1, AggregatedAppend DEF SaveMain, TypeOK
        <5> QED
          BY <4>1, <5>1 DEF SaveMain
      <4>2. CASE SaveMainFails(s)
        BY <4>2 DEF SaveMainFails, Aggregated
      <4> QED
        BY <2>3, <4>1, <4>2
    <3> QED
      BY <1>t, <2>u, <3>1, <3>2 DEF RolloverHolds, TypeOK
  <2>4. ASSUME NEW s \in Samples, ClearDay(s) \/ ClearDayFails(s) PROVE RolloverHolds'
    <3>1. /\ pc[s] = "clear" /\ UNCHANGED <<mainDocs, now, doc, unsaved>>
          /\ \/ pc' = [pc EXCEPT ![s] = "cleared"] /\ dayDocs' = <<>>
             \/ pc' = pc
      BY <2>4 DEF ClearDay, ClearDayFails
    <3>2. ToSet(dayDocs') \subseteq ToSet(dayDocs)
      BY <1>t, <2>4, EmptyToSet, SubSequencesType DEF ClearDay, ClearDayFails, TypeOK
    <3>3. Aggregated' = Aggregated
      BY <3>1 DEF Aggregated
    <3> QED
      BY <1>t, <2>u, <3>1, <3>2, <3>3, EmptyToSet DEF RolloverHolds, TypeOK
  <2>5. ASSUME NEW s \in Samples,
               ClearMemory(s) \/ SaveDay(s) \/ SaveDayFails(s) \/ Push(s)
        PROVE  RolloverHolds'
    <3>1. /\ UNCHANGED <<mainDocs, now, doc, unsaved>>
          /\ s \in InFlight
          /\ pc' = [pc EXCEPT ![s] = pc'[s]] /\ pc'[s] \notin Rollover
      BY <1>t, <2>5
      DEF ClearMemory, SaveDay, SaveDayFails, Push, InFlight, Pending, Rollover, TypeOK
    <3>2. /\ ToSet(dayDocs') \subseteq ToSet(dayDocs) \cup {s}
          /\ Aggregated' = Aggregated
      <4>1. dayDocs' = dayDocs \/ dayDocs' = Append(dayDocs, s)
        BY <2>5 DEF ClearMemory, SaveDay, SaveDayFails, Push
      <4>2. ToSet(Append(dayDocs, s)) = ToSet(dayDocs) \cup {s}
        BY <1>t, AppendToSet DEF TypeOK
      <4> QED
        BY <3>1, <4>1, <4>2 DEF Aggregated
    <3>3. ASSUME NEW t \in Samples, pc'[t] \in Rollover
          PROVE  t # s /\ pc[t] = pc'[t] /\ s \in overlapped
      <4>1. t # s /\ pc[t] = pc'[t]
        BY <1>t, <3>1, <3>3 DEF TypeOK
      <4>2. t \in InFlight
        BY <3>3, <4>1 DEF InFlight, Pending
      <4> QED
        BY <1>t, <3>1, <3>3, <4>1, <4>2 DEF Meetings
    <3> QED
      BY <1>t, <2>u, <3>1, <3>2, <3>3 DEF RolloverHolds, Rollover
  <2> QED
    <3>1. CASE Load \/ LoadFails \/ Midnight \/ UNCHANGED vars
      BY <2>1, <3>1 DEF Load, LoadFails, Midnight, vars
    <3> QED
      BY <1>2, <2>2, <2>3, <2>4, <2>5, <3>1 DEF Next, Proceed, Fails
<1> QED
  BY <1>1, <1>2

-----------------------------------------------------------------------------
\* What is collected stays out of the aggregates until it is averaged, once, or is known
\* as retaken.
LEMMA NotAggregatedStep == Inv /\ [Next]_vars => NotAggregated'
<1> SUFFICES ASSUME Inv, [Next]_vars PROVE NotAggregated'
  OBVIOUS
<1>t. TypeOK /\ KnownOnly /\ NotAggregated
  BY DEF Inv
<1> USE DEF NotAggregated
<1>1. CASE SetData
  <2> DEFINE n == taken + 1
  <2>1. /\ n \in Samples
        /\ n \notin ToSet(mem) \cup ToSet(dayDocs) \cup Aggregated
        /\ \A s \in Samples : n \notin doc[s].parts
        /\ \A s \in Samples : s # n => pc'[s] = pc[s] /\ doc'[s] = doc[s]
        /\ pc[n] = "idle"
        /\ pc'[n] = IF shouldMainCollectionBeUpdated(now) THEN "main" ELSE "day"
        /\ shouldMainCollectionBeUpdated(now) => doc'[n] = Averaged
        /\ Aggregated' = Aggregated /\ UNCHANGED <<mem, dayDocs>>
    BY <1>1, NewSample
  <2>2. /\ InFlight' = InFlight \cup {n} /\ retaken \subseteq retaken'
        /\ shouldMainCollectionBeUpdated(now) /\ (\E t \in InFlight : pc[t] \in Rollover)
               => ToSet(mem) \subseteq retaken'
    BY <1>1, CallsMeet
  <2>3. pc'[n] = "main" => doc'[n].parts = ToSet(mem)
    BY <2>1 DEF Averaged
  <2>4. \A s \in Samples : pc[s] \in Rollover => s \in InFlight
    BY DEF InFlight, Pending
  <2>5. ~shouldMainCollectionBeUpdated(now) => doc'[n].parts = {}
    <3>1. doc' = [doc EXCEPT ![n] = IF shouldMainCollectionBeUpdated(now) THEN Averaged ELSE NoDoc]
      BY <1>1 DEF SetData
    <3> QED
      BY <1>t, <2>1, <3>1 DEF TypeOK, NoDoc
  <2>6. doc'[n].parts \subseteq ToSet(mem)
    BY <2>1, <2>3, <2>5
  <2>7. ASSUME NEW s \in Samples PROVE InFlight' \cap doc'[s].parts = {}
    BY <1>t, <2>1, <2>2, <2>6
  <2>8. pc'[n] = "main" => ToSet(mem) \subseteq retaken' \/ \A t \in Samples : pc[t] \notin Rollover
    BY <2>1, <2>2, <2>4
  <2>9. ASSUME NEW s \in Samples, pc'[s] = "main"
        PROVE  doc'[s].parts \cap Aggregated' \subseteq retaken'
    BY <1>t, <2>1, <2>2, <2>3, <2>8, <2>9 DEF Rollover
  <2>10. ASSUME NEW s \in Samples, NEW t \in Samples, s # t, pc'[s] = "main", pc'[t] = "main"
         PROVE  doc'[s].parts \cap doc'[t].parts \subseteq retaken'
    BY <1>t, <2>1, <2>2, <2>3, <2>8, <2>10 DEF Rollover
  <2>11. /\ (\A s \in Samples : pc'[s] # "clear") => \A s \in Samples : pc[s] # "clear"
         /\ (\A s \in Samples : pc'[s] \notin {"clear", "cleared"})
               => \A s \in Samples : pc[s] \notin {"clear", "cleared"}
    BY <2>1
  <2> QED
    BY <1>t, <2>1, <2>2, <2>7, <2>9, <2>10, <2>11
<1>2. CASE ~SetData
  <2>u. InFlight' \subseteq InFlight /\ retaken \subseteq retaken'
    BY <1>2, <1>t, CallsGoOn
  <2>1. CASE UNCHANGED <<mem, dayDocs, mainDocs, pc, doc>>
    BY <1>t, <2>1, <2>u DEF Aggregated
  <2>2. CASE Load
    <3>1. \A s \in Samples : pc[s] \notin Rollover
      BY <1>t, <2>2 DEF Load, KnownOnly, InFlight, Pending
    <3> QED
      BY <1>t, <2>2, <2>u, <3>1 DEF Load, KnownOnly, Aggregated, Rollover
  <2>3. CASE Crash
    <3>1. /\ mem' = <<>> /\ UNCHANGED <<dayDocs, mainDocs>>
          /\ pc' = [s \in Samples |-> IF s \in InFlight THEN "lost" ELSE pc[s]]
          /\ retaken' = retaken \cup {x \in ToSet(dayDocs) : \E s \in Samples : pc[s] = "clear"}
      BY <2>3 DEF Crash
    <3>2. InFlight' = {} /\ \A s \in Samples : pc'[s] \notin Rollover
      BY <3>1 DEF InFlight, Pending, Rollover
    <3>3. ToSet(dayDocs) \cap Aggregated \subseteq retaken'
      BY <1>t, <3>1
    <3> QED
      BY <3>1, <3>2, <3>3, EmptyToSet DEF Aggregated, Rollover
  <2>4. ASSUME NEW s \in Samples, SaveMain(s) PROVE NotAggregated'
    <3>1. /\ pc[s] = "main" /\ UNCHANGED <<mem, dayDocs, retaken>>
          /\ pc' = [pc EXCEPT ![s] = "clear"] /\ doc' = [doc EXCEPT ![s] = NoDoc]
      BY <2>4 DEF SaveMain
    <3>2. Aggregated' = Aggregated \cup doc[s].parts
      BY <1>t, <2>4, AggregatedAppend DEF SaveMain, TypeOK
    <3>3. /\ pc'[s] = "clear" /\ doc'[s].parts = {}
          /\ \A t \in Samples : t # s => pc'[t] = pc[t] /\ doc'[t] = doc[t]
      BY <1>t, <3>1 DEF TypeOK, NoDoc
    <3> QED
      BY <1>t, <2>u, <3>1, <3>2, <3>3
  <2>5. ASSUME NEW s \in Samples, SaveMainFails(s) PROVE NotAggregated'
    <3>1. /\ pc[s] = "main" /\ UNCHANGED <<mem, dayDocs, mainDocs>>
          /\ pc' = [pc EXCEPT ![s] = "clear"] /\ doc' = [doc EXCEPT ![s] = NoDoc]
      BY <2>5 DEF SaveMainFails
    <3>2. /\ pc'[s] = "clear" /\ doc'[s].parts = {}
          /\ \A t \in Samples : t # s => pc'[t] = pc[t] /\ doc'[t] = doc[t]
      BY <1>t, <3>1 DEF TypeOK, NoDoc
    <3> QED
      BY <1>t, <2>u, <3>1, <3>2 DEF Aggregated
  <2>6. ASSUME NEW s \in Samples, ClearDay(s) \/ ClearDayFails(s) PROVE NotAggregated'
    <3>1. /\ pc[s] = "clear" /\ UNCHANGED <<mem, mainDocs, doc>>
          /\ \/ pc' = [pc EXCEPT ![s] = "cleared"] /\ dayDocs' = <<>>
             \/ pc' = pc
      BY <2>6 DEF ClearDay, ClearDayFails
    <3>2. Aggregated' = Aggregated
      BY <3>1 DEF Aggregated
    <3> QED
      BY <1>t, <2>u, <3>1, <3>2, EmptyToSet DEF TypeOK
  <2>7. ASSUME NEW s \in Samples, ClearMemory(s) PROVE NotAggregated'
    <3>1. /\ pc[s] = "cleared" /\ UNCHANGED <<dayDocs, mainDocs, doc>> /\ mem' = <<>>
          /\ pc' = [pc EXCEPT ![s] = "day"]
      BY <2>7 DEF ClearMemory
    <3>2. Aggregated' = Aggregated
      BY <3>1 DEF Aggregated
    <3> QED
      BY <1>t, <2>u, <3>1, <3>2, EmptyToSet DEF TypeOK
  <2>8. ASSUME NEW s \in Samples, SaveDay(s) \/ SaveDayFails(s) \/ Push(s) PROVE NotAggregated'
    <3>1. /\ s \in InFlight /\ UNCHANGED <<mainDocs, doc>>
          /\ \A t \in Samples : /\ pc'[t] \in Rollover <=> pc[t] \in Rollover
                                /\ pc[t] \in Rollover => pc'[t] = pc[t]
      BY <1>t, <2>8 DEF SaveDay, SaveDayFails, Push, InFlight, Pending, Rollover, TypeOK
    <3>2. /\ ToSet(dayDocs') \subseteq ToSet(dayDocs) \cup {s}
          /\ Aggregated' = Aggregated
      <4>1. dayDocs' = dayDocs \/ dayDocs' = Append(dayDocs, s)
        BY <2>8 DEF SaveDay, SaveDayFails, Push
      <4>2. ToSet(Append(dayDocs, s)) = ToSet(dayDocs) \cup {s}
        BY <1>t, AppendToSet DEF TypeOK
      <4> QED
        BY <3>1, <4>1, <4>2 DEF Aggregated
    <3>3. /\ ToSet(mem') \subseteq ToSet(mem) \cup {s}
          /\ mem' = mem \/ s \notin InFlight'
      <4>1. CASE SaveDay(s) \/ SaveDayFails(s)
        BY <4>1 DEF SaveDay, SaveDayFails
      <4>2. ToSet(Append(mem, s)) = ToSet(mem) \cup {s}
        BY <1>t, AppendToSet DEF TypeOK
      <4>3. CASE Push(s)
        BY <1>t, <4>2, <4>3 DEF Push, TypeOK, InFlight, Pending, Rollover
      <4> QED
        BY <2>8, <4>1, <4>3
    <3>4. /\ (\A t \in Samples : pc'[t] # "clear") => \A t \in Samples : pc[t] # "clear"
          /\ (\A t \in Samples : pc'[t] \notin {"clear", "cleared"})
                => \A t \in Samples : pc[t] \notin {"clear", "cleared"}
          /\ \A t \in Samples : pc'[t] = "main" => pc[t] = "main"
      BY <3>1 DEF Rollover
    <3> QED
      BY <1>t, <2>u, <3>1, <3>2, <3>3, <3>4
  <2> QED
    <3>1. CASE LoadFails \/ Midnight \/ UNCHANGED vars
      BY <2>1, <3>1 DEF LoadFails, Midnight, vars
    <3> QED
      BY <1>2, <2>2, <2>3, <2>4, <2>5, <2>6, <2>7, <2>8, <3>1 DEF Next, Proceed, Fails
<1> QED
  BY <1>1, <1>2

LEMMA AggregateAt ==
  ASSUME TypeOK, NEW i \in DOMAIN mainDocs
  PROVE  mainDocs[i].date \in Nat /\ mainDocs[i].parts \subseteq Samples
<1>1. mainDocs \in Seq(Aggregates)
  BY DEF TypeOK
<1>2. mainDocs[i] \in Aggregates
  BY <1>1
<1> QED
  BY <1>2, BoundsAssumption DEF Aggregates, Days

\* Aggregates change when one is saved: what two have in common is retaken, and the date
\* is that of the rollover.
LEMMA AggregatesStep ==
  Inv /\ [Next]_vars => NoSampleCountedTwice' /\ AggregatesAreDated'
<1> SUFFICES ASSUME Inv, [Next]_vars PROVE NoSampleCountedTwice' /\ AggregatesAreDated'
  OBVIOUS
<1>t. TypeOK /\ KnownOnly /\ now \in Nat
  BY BoundsAssumption DEF Inv, TypeOK, Days
<1>a. \A i \in DOMAIN mainDocs : mainDocs[i].date \in Nat /\ mainDocs[i].parts \subseteq Samples
  BY <1>t, AggregateAt
<1> USE DEF NoSampleCountedTwice, AggregatesAreDated
<1>1. CASE SetData
  <2>1. /\ taken + 1 \notin Aggregated
        /\ \A s \in Samples : s # taken + 1 => day'[s] = day[s]
        /\ UNCHANGED <<mainDocs, now>>
    BY <1>1, NewSample
  <2>2. overlapped \subseteq overlapped' /\ retaken \subseteq retaken'
    BY <1>1, CallsMeet
  <2>3. \A i \in DOMAIN mainDocs : \A t \in mainDocs[i].parts : day'[t] = day[t]
    BY <1>a, <2>1 DEF Aggregated
  <2> QED
    BY <2>1, <2>2, <2>3 DEF Inv
<1>2. ASSUME ~SetData, UNCHANGED mainDocs
      PROVE  NoSampleCountedTwice' /\ AggregatesAreDated'
  <2>1. /\ UNCHANGED <<overlapped, day>> /\ retaken \subseteq retaken'
        /\ now' >= now /\ now' \in Nat
    BY <1>2, <1>t, CallsGoOn
  <2> QED
    BY <1>2, <1>a, <1>t, <2>1 DEF Inv
<1>3. ASSUME NEW s \in Samples, SaveMain(s)
      PROVE  NoSampleCountedTwice' /\ AggregatesAreDated'
  <2>1. doc[s] \in Aggregates /\ mainDocs \in Seq(Aggregates) /\ mainDocs' = Append(mainDocs, doc[s])
    BY <1>3, <1>t DEF SaveMain, TypeOK
  <2>2. /\ DOMAIN mainDocs' = DOMAIN mainDocs \cup {Len(mainDocs) + 1}
        /\ \A i \in DOMAIN mainDocs : mainDocs'[i] = mainDocs[i] /\ i # Len(mainDocs) + 1
        /\ mainDocs'[Len(mainDocs) + 1] = doc[s]
    BY <2>1, AggregatedAppend
  <2>3. pc[s] = "main" /\ UNCHANGED <<overlapped, retaken, day, now>>
    BY <1>3 DEF SaveMain
  <2>4. doc[s].parts \cap Aggregated \subseteq retaken
    BY <2>3 DEF Inv, NotAggregated
  <2>5. NoSampleCountedTwice'
    <3>1. \A i \in DOMAIN mainDocs : mainDocs[i].parts \subseteq Aggregated
      BY DEF Aggregated
    <3> QED
      BY <2>2, <2>3, <2>4, <3>1 DEF Inv
  <2>6. /\ \A t \in doc[s].parts \ overlapped : day[t] = doc[s].date
        /\ doc[s].parts \cap overlapped = {} => doc[s].date < now
    BY <2>3 DEF Inv, RolloverHolds
  <2>7. AggregatesAreDated'
    BY <2>2, <2>3, <2>6 DEF Inv
  <2> QED
    BY <2>5, <2>7
<1>4. ASSUME ~SetData, \A s \in Samples : ~SaveMain(s) PROVE UNCHANGED mainDocs
  <2>1. CASE Load \/ LoadFails \/ Crash \/ Midnight \/ UNCHANGED vars
    BY <2>1 DEF Load, LoadFails, Crash, Midnight, vars
  <2>2. CASE \E s \in Samples : Proceed(s)
    BY <1>4, <2>2 DEF Proceed, ClearDay, ClearMemory, SaveDay, Push
  <2>3. CASE \E s \in Samples : Fails(s)
    BY <2>3 DEF Fails, SaveMainFails, ClearDayFails, SaveDayFails
  <2> QED
    BY <1>4, <2>1, <2>2, <2>3 DEF Next
<1> QED
  BY <1>1, <1>2, <1>3, <1>4

\* A stored sample stays in the day collection until it is in an aggregate.
LEMMA SurvivalStep == Inv /\ [Next]_vars => StoredSamplesSurvive'
<1> SUFFICES ASSUME Inv, [Next]_vars PROVE StoredSamplesSurvive'
  OBVIOUS
<1>t. TypeOK /\ RolloverHolds /\ StoredSamplesSurvive
  BY DEF Inv
<1> USE DEF StoredSamplesSurvive
<1>1. CASE SetData
  <2>1. UNCHANGED <<stored, dayDocs, unsaved>> /\ Aggregated' = Aggregated
    BY <1>1, NewSample
  <2>2. overlapped \subseteq overlapped'
    BY <1>1, CallsMeet
  <2> QED
    BY <1>t, <2>1, <2>2
<1>2. CASE ~SetData
  <2>u. overlapped' = overlapped
    BY <1>2, <1>t, CallsGoOn
  <2>1. CASE UNCHANGED <<stored, dayDocs, mainDocs, unsaved>>
    BY <1>t, <2>1, <2>u DEF Aggregated
  <2>2. ASSUME NEW s \in Samples, SaveMain(s) PROVE StoredSamplesSurvive'
    <3>1. Aggregated' = Aggregated \cup doc[s].parts
      BY <2>2, <1>t, AggregatedAppend DEF SaveMain, TypeOK
    <3> QED
      BY <2>2, <1>t, <3>1 DEF SaveMain
  <2>3. ASSUME NEW s \in Samples, SaveMainFails(s) PROVE StoredSamplesSurvive'
    BY <2>3, <1>t DEF SaveMainFails, Aggregated
  <2>4. ASSUME NEW s \in Samples, ClearDay(s) \/ ClearDayFails(s) PROVE StoredSamplesSurvive'
    <3>1. pc[s] = "clear" /\ UNCHANGED <<stored, mainDocs, unsaved, overlapped>>
      BY <2>4 DEF ClearDay, ClearDayFails
    <3>2. ToSet(dayDocs) \ overlapped \subseteq Aggregated \cup unsaved
      BY <1>t, <3>1 DEF RolloverHolds
    <3> QED
      BY <1>t, <3>1, <3>2 DEF Aggregated
  <2>5. ASSUME NEW s \in Samples, SaveDay(s) PROVE StoredSamplesSurvive'
    <3>1. ToSet(dayDocs') = ToSet(dayDocs) \cup {s}
      BY <2>5, <1>t, AppendToSet DEF SaveDay, TypeOK
    <3> QED
      BY <2>5, <1>t, <3>1 DEF SaveDay, Aggregated
  <2> QED
    <3>1. CASE Load \/ LoadFails \/ Crash \/ Midnight \/ UNCHANGED vars
      BY <2>1, <3>1 DEF Load, LoadFails, Crash, Midnight, vars
    <3>2. ASSUME NEW s \in Samples, ClearMemory(s) \/ SaveDayFails(s) \/ Push(s)
          PROVE  StoredSamplesSurvive'
      BY <2>1, <3>2 DEF ClearMemory, SaveDayFails, Push
    <3> QED
      BY <1>2, <2>2, <2>3, <2>4, <2>5, <3>1, <3>2 DEF Next, Proceed, Fails
<1> QED
  BY <1>1, <1>2

-----------------------------------------------------------------------------
\* The invariant holds throughout, whatever overlaps, fails or dies.
THEOREM SeriesInvariant == Spec => []Inv
<1>1. Inv /\ [Next]_vars => Inv'
  BY TypeStep, KnownStep, MeetingsStep, OneDayStep, RolloverStep, NotAggregatedStep,
     AggregatesStep, SurvivalStep DEF Inv
<1> QED
  BY <1>1, InvInit, PTL DEF Spec

\* The day that is being collected, in memory and in the database, is a single one, the
\* samples of overlapped calls left aside.
THEOREM OneDayCollected == Spec => []CollectsOneDay
<1>1. Inv => CollectsOneDay
  BY DEF Inv, OneDay
<1> QED
  BY <1>1, SeriesInvariant, PTL

\* No stored sample is lost before it is in an aggregate, unless its call met a rollover
\* or a call of another day, or saving its aggregate failed.
THEOREM SamplesSurvive == Spec => []StoredSamplesSurvive
<1>1. Inv => StoredSamplesSurvive
  BY DEF Inv
<1> QED
  BY <1>1, SeriesInvariant, PTL

\* No sample enters two aggregates, unless two rollovers met over it, or a crash fell
\* between saving its aggregate and clearing the day.
THEOREM CountedOnlyOnce == Spec => []NoSampleCountedTwice
<1>1. Inv => NoSampleCountedTwice
  BY DEF Inv
<1> QED
  BY <1>1, SeriesInvariant, PTL

\* An aggregate carries the date of its samples, those of overlapped calls left aside,
\* and without such samples it is of a day that is over.
THEOREM AggregatesDated == Spec => []AggregatesAreDated
<1>1. Inv => AggregatesAreDated
  BY DEF Inv
<1> QED
  BY <1>1, SeriesInvariant, PTL
=============================================================================
