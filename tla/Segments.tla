------------------------------ MODULE Segments ------------------------------
(***************************************************************************)
(* Population segments (rust/src/segments.rs): what the samples of a game  *)
(* server and the manual overrides say of each moment of a window, and the *)
(* average over the moments that count.  A caller collects the overrides   *)
(* and the samples, in the order of their times, and calls                 *)
(* build_segment_intervals(); the other functions read what it returns.    *)
(*                                                                         *)
(* The priority of an interval determines its source, status,              *)
(* exclude_from_score and clears, so an interval is [priority, from, to]   *)
(* and a State is a priority, or Normal.  Times are whole numbers of the   *)
(* sampling period.                                                        *)
(***************************************************************************)
EXTENDS Integers, Sequences, FiniteSets, SequencesExt

CONSTANTS
    WindowStart, WindowEnd,
    StagnantMinOnline,      \* stagnant_min_online
    TriggerWindow,          \* SUSPECT_TRIGGER_WINDOW_SECS
    StagnantMinDuration,    \* SUSPECT_STAGNANT_MIN_DURATION_SECS
    NearFlatMinDuration,    \* SUSPECT_NEAR_FLAT_MIN_DURATION_SECS
    MaxGap,                 \* SUSPECT_STAGNANT_MAX_GAP_SECS, SUSPECT_NEAR_FLAT_MAX_GAP_SECS
    Readings,               \* what a sample may hold: [online, plugin, motd]
    Gaps,                   \* times between two samples
    Overrides,              \* rows of the database: [mode, from, to]
    MaxSamples, MaxInputs   \* bounds: samples, samples and overrides

ASSUME SegmentsAssumption == WindowStart \in Nat /\ WindowEnd \in Nat /\ WindowStart < WindowEnd

VARIABLES
    samples,     \* [ts, online, plugin, motd], ts never decreasing
    overrides,
    intervals,   \* what build_segment_intervals() returned
    built        \* it was called

segmentVars == <<samples, overrides, intervals, built>>

NoReading == -1   \* online is None
NoTime == -1
Normal == 0

Priorities == [force_normal |-> 100, force_suspect |-> 90, force_maintenance |-> 80,
               plugin |-> 70, motd |-> 60, auto |-> 50]
Clears == Priorities.force_normal

Clamp(from, to, priority) ==
    LET s == Max({from, WindowStart})  e == Min({to, WindowEnd})
    IN IF e <= s THEN <<>> ELSE <<[priority |-> priority, from |-> s, to |-> e]>>

-----------------------------------------------------------------------------
Before(a, b) ==
    \/ a.priority < b.priority
    \/ a.priority = b.priority /\ a.from < b.from
    \/ a.priority = b.priority /\ a.from = b.from /\ a.to < b.to

\* Mutant: the later interval decides where the merged one ends.
ExtendToLast(merged, iv) ==
    IF merged # <<>> /\ Last(merged).priority = iv.priority /\ iv.from <= Last(merged).to
    THEN [merged EXCEPT ![Len(merged)].to = iv.to]
    ELSE Append(merged, iv)

\* One step of the loop of merge_intervals().
Extend(merged, iv) ==
    IF merged # <<>> /\ Last(merged).priority = iv.priority /\ iv.from <= Last(merged).to
    THEN [merged EXCEPT ![Len(merged)].to = Max({@, iv.to})]
    ELSE Append(merged, iv)

MergeIntervals(ivs) == FoldLeft(Extend, <<>>, SortSeq(ivs, Before))

-----------------------------------------------------------------------------
(* The detectors. *)

\* Maintenance lasts from a sample with the flag to the next one without.
BuildStatefulIntervals(flag) ==
    LET Sees(acc, s) ==
            IF s[flag] = (acc.since # NoTime) THEN acc
            ELSE IF s[flag] THEN [acc EXCEPT !.since = Max({s.ts, WindowStart})]
            ELSE [since |-> NoTime, made |-> acc.made \o Clamp(acc.since, s.ts, Priorities[flag])]
        end == FoldLeft(Sees, [since |-> NoTime, made |-> <<>>], samples)
    IN MergeIntervals(end.made \o IF end.since = NoTime THEN <<>> ELSE Clamp(end.since, WindowEnd, Priorities[flag]))

IsSuspectTrigger(prev, curr) ==
    LET low == Min({prev.online, curr.online})  high == Max({prev.online, curr.online})
    IN /\ low # NoReading
       /\ curr.ts - prev.ts \in 1..TriggerWindow
       /\ high - low >= 40
       /\ (low <= 2 /\ high >= 30) \/ high - low >= 80

IsClosing(s) == s.online # NoReading /\ s.online <= 5

\* Two swings within the window open a suspicion, a nearly empty server ends it.
BuildAutoSuspectIntervals ==
    LET Sees(acc, k) ==
            LET now == samples[k].ts
                recent == SelectSeq(Append(acc.triggers, samples[k - 1].ts), LAMBDA t : now - t <= TriggerWindow)
            IN IF now < WindowStart THEN acc
               ELSE IF acc.since # NoTime /\ IsClosing(samples[k])
               THEN [since |-> NoTime, triggers |-> <<>>, made |-> acc.made \o Clamp(acc.since, now, Priorities.auto)]
               ELSE IF ~IsSuspectTrigger(samples[k - 1], samples[k]) THEN acc
               ELSE [acc EXCEPT !.triggers = recent,
                                !.since = IF @ = NoTime /\ Len(recent) >= 2 THEN Max({recent[1], WindowStart}) ELSE @]
        end == FoldLeft(Sees, [since |-> NoTime, triggers |-> <<>>, made |-> <<>>],
                        [i \in 1..(Len(samples) - 1) |-> i + 1])
    IN MergeIntervals(end.made \o IF end.since = NoTime THEN <<>> ELSE Clamp(end.since, WindowEnd, Priorities.auto))

PushStagnantRun(run, end) ==
    IF run.value = NoReading \/ end - run.since < StagnantMinDuration THEN <<>>
    ELSE Clamp(run.since, end, Priorities.auto)

\* The same number of players for too long.  The last run lasts until the end
\* of the window, however long ago its last sample was.
BuildStagnantIntervals ==
    LET Run(s, made) == [value |-> IF s.online >= StagnantMinOnline THEN s.online ELSE NoReading,
                         since |-> s.ts, made |-> made]
        Sees(run, k) ==
            LET late == samples[k].ts - samples[k - 1].ts > MaxGap
            IN IF run.value # NoReading /\ samples[k].online = run.value /\ ~late THEN run
               ELSE Run(samples[k],
                        run.made \o PushStagnantRun(run, samples[IF late THEN k - 1 ELSE k].ts))
        end == FoldLeft(Sees, Run(samples[1], <<>>), [i \in 1..(Len(samples) - 1) |-> i + 1])
    IN IF Len(samples) < 2 \/ StagnantMinOnline <= 0 THEN <<>>
       ELSE MergeIntervals(end.made \o PushStagnantRun(end, WindowEnd))

\* NearFlatRun: a run is the samples pushed to it.  The ratios are compared
\* as products of whole numbers; a run's mean is never 0.
Qualifies(run, end) ==
    LET n == Len(run)
        onlines == {run[i].online : i \in 1..n}
        sum == MapThenSumSet(LAMBDA i : run[i].online, 1..n)
        Delta(i) == Max({run[i].online - run[i + 1].online, run[i + 1].online - run[i].online})
    IN /\ end - run[1].ts >= NearFlatMinDuration
       /\ n >= 2
       /\ (Max(onlines) - Min(onlines)) * n * 100 <= 12 * sum
       /\ MapThenSumSet(Delta, 1..(n - 1)) * n * 1000 <= 15 * (n - 1) * sum
       /\ Cardinality({i \in 1..(n - 1) : Delta(i) <= 3}) * 100 >= 85 * (n - 1)

PushNearFlatRun(run, end) ==
    IF run = <<>> THEN <<>>
    ELSE IF Qualifies(run, end) THEN Clamp(run[1].ts, end, Priorities.auto) ELSE <<>>

\* Many players and hardly any movement for too long.
NearFlatMinOnline == Max({StagnantMinOnline, 100})
BuildNearFlatIntervals ==
    LET Sees(acc, s) ==
            IF s.online < NearFlatMinOnline
            THEN [run |-> <<>>, made |-> acc.made \o PushNearFlatRun(acc.run, s.ts)]
            ELSE IF acc.run = <<>> THEN [acc EXCEPT !.run = <<s>>]
            ELSE IF s.ts <= Last(acc.run).ts THEN acc
            ELSE IF s.ts - Last(acc.run).ts <= MaxGap THEN [acc EXCEPT !.run = Append(@, s)]
            ELSE [run |-> <<s>>, made |-> acc.made \o PushNearFlatRun(acc.run, Last(acc.run).ts)]
        end == FoldLeft(Sees, [run |-> <<>>, made |-> <<>>], samples)
        last == Last(end.run).ts
    IN IF Len(samples) < 2 \/ StagnantMinOnline <= 0 THEN <<>>
       ELSE MergeIntervals(end.made \o PushNearFlatRun(end.run,
                               IF WindowEnd - last > MaxGap THEN last ELSE WindowEnd))

-----------------------------------------------------------------------------
(* What callers ask. *)

Modes == {"force_normal", "force_suspect", "force_maintenance"}
ForOverride(o) ==
    IF o.mode \in Modes THEN Clamp(o.from, o.to, Priorities[o.mode]) ELSE <<>>

SegmentIntervals ==
    MergeIntervals(FlattenSeq([i \in DOMAIN overrides |-> ForOverride(overrides[i])])
                   \o BuildStatefulIntervals("plugin")
                   \o BuildStatefulIntervals("motd")
                   \o BuildAutoSuspectIntervals \o BuildStagnantIntervals \o BuildNearFlatIntervals)

StateOf(active) ==
    IF active = {} \/ Clears \in active THEN Normal ELSE Max(active)
ResolveStateAt(t) == StateOf({iv.priority : iv \in {i \in ToSet(intervals) : i.from <= t /\ t < i.to}})
ResolveStateForRange(from, to) ==
    StateOf({iv.priority : iv \in {i \in ToSet(intervals) : i.from < to /\ i.to > from}})
BuildBucketStateMap(times, seconds) ==
    [t \in IF seconds <= 0 THEN {} ELSE times |-> ResolveStateForRange(t, t + seconds)]

\* The sums behind the average and the coverage, over the stretches between
\* two boundaries; what was online changes with the samples at a boundary.
ComputeEffectiveAverageStats ==
    LET OnlineAfter(online, known) == IF known = {} THEN online ELSE samples[Max(known)].online
        boundaries == {WindowStart, WindowEnd}
            \cup {t \in {s.ts : s \in ToSet(samples)} : WindowStart < t /\ t <= WindowEnd}
            \cup {t \in {iv.from : iv \in ToSet(intervals)} : t > WindowStart}
            \cup {t \in {iv.to : iv \in ToSet(intervals)} : t < WindowEnd}
        ordered == SelectSeq([i \in 1..(WindowEnd + 1) |-> i - 1], LAMBDA t : t \in boundaries)
        Stretch(acc, i) ==
            LET counts == ResolveStateAt(ordered[i]) = Normal /\ acc.online # NoReading
                delta == IF counts THEN ordered[i + 1] - ordered[i] ELSE 0
            IN [total |-> acc.total + acc.online * delta, trusted |-> acc.trusted + delta,
                online |-> OnlineAfter(acc.online, {k \in DOMAIN samples : samples[k].ts = ordered[i + 1]})]
        first == OnlineAfter(NoReading, {k \in DOMAIN samples : samples[k].ts <= WindowStart})
        end == FoldLeft(Stretch, [total |-> 0, trusted |-> 0, online |-> first],
                        [i \in 1..(Len(ordered) - 1) |-> i])
    IN [total |-> end.total, trusted |-> end.trusted]

-----------------------------------------------------------------------------
SegmentsInit == samples = <<>> /\ overrides = <<>> /\ intervals = <<>> /\ built = FALSE

ReadOverride ==
    /\ ~built /\ samples = <<>> /\ Len(overrides) < MaxInputs
    /\ \E o \in Overrides : overrides' = Append(overrides, o)
    /\ UNCHANGED <<samples, intervals, built>>

ReadSample ==
    /\ ~built /\ Len(samples) < MaxSamples /\ Len(samples) + Len(overrides) < MaxInputs
    /\ \E r \in Readings, gap \in Gaps :
         samples' = Append(samples, [online |-> r.online, plugin |-> r.plugin, motd |-> r.motd,
                                     ts |-> IF samples = <<>> THEN 0 ELSE Last(samples).ts + gap])
    /\ UNCHANGED <<overrides, intervals, built>>

BuildSegmentIntervals ==
    /\ ~built /\ built' = TRUE
    /\ intervals' = SegmentIntervals
    /\ UNCHANGED <<samples, overrides>>

SegmentsNext == ReadOverride \/ ReadSample \/ BuildSegmentIntervals
SegmentsSpec == SegmentsInit /\ [][SegmentsNext]_segmentVars

-----------------------------------------------------------------------------
(* What the samples and overrides say of one moment t, without intervals.  *)

Moments == WindowStart..(WindowEnd - 1)
Indexes == DOMAIN samples
Latest(t) == Max({0} \cup {k \in Indexes : samples[k].ts <= t})
Late(k) == samples[k + 1].ts - samples[k].ts > MaxGap

\* Two swings close together began before t, and no sample since the second
\* one ends the suspicion; in the strict sense, none between them does either.
Swings(t, strict) ==
    LET Swing(k) == k > 1 /\ samples[k].ts >= WindowStart /\ IsSuspectTrigger(samples[k - 1], samples[k])
    IN \E a, b \in Indexes :
        /\ a < b /\ Swing(a) /\ Swing(b)
        /\ samples[b].ts - samples[a - 1].ts <= TriggerWindow
        /\ samples[a - 1].ts <= t
        /\ \A k \in Indexes : k > b /\ IsClosing(samples[k]) => samples[k].ts > t
        /\ strict => \A k \in a..b : ~IsClosing(samples[k])

Stagnates(t) ==
    /\ Len(samples) > 1
    /\ \E i \in Indexes : \E j \in i..Len(samples) :
        LET end == IF j = Len(samples) THEN WindowEnd ELSE samples[IF Late(j) THEN j ELSE j + 1].ts
        IN /\ \A k \in i..j : samples[k].online = samples[i].online
           /\ \A k \in i..(j - 1) : ~Late(k)
           /\ samples[i].online >= StagnantMinOnline
           /\ end - samples[i].ts >= StagnantMinDuration
           /\ samples[i].ts <= t /\ t < end

\* A longest run of crowded samples around t; of samples with the same time
\* only the first one counts.
IsFlat(t) ==
    LET Crowded(k) == k \in Indexes /\ samples[k].online >= NearFlatMinOnline
    IN /\ Len(samples) > 1
       /\ \E i \in Indexes : \E j \in i..Len(samples) :
            LET end == IF j < Len(samples) THEN samples[IF Crowded(j + 1) THEN j ELSE j + 1].ts
                       ELSE IF WindowEnd - samples[j].ts > MaxGap THEN samples[j].ts ELSE WindowEnd
                counted == SelectSeq([n \in 1..(j - i + 1) |-> i + n - 1],
                                     LAMBDA k : k = i \/ samples[k].ts > samples[k - 1].ts)
            IN /\ \A k \in i..j : Crowded(k)
               /\ \A k \in i..(j - 1) : ~Late(k)
               /\ Crowded(i - 1) => Late(i - 1)
               /\ Crowded(j + 1) => Late(j)
               /\ samples[i].ts <= t /\ t < end
               /\ Qualifies([n \in DOMAIN counted |-> samples[counted[n]]], end)

Forced(t) == {Priorities[o.mode] : o \in {p \in ToSet(overrides) : p.mode \in Modes /\ p.from <= t /\ t < p.to}}
Strongest(t, swings) ==
    LET Holds == [plugin |-> Latest(t) > 0 /\ samples[Latest(t)].plugin,
                  motd |-> Latest(t) > 0 /\ samples[Latest(t)].motd,
                  auto |-> swings \/ Stagnates(t) \/ IsFlat(t)]
    IN StateOf(Forced(t) \cup {Priorities[kind] : kind \in {k \in DOMAIN Holds : Holds[k]}})

StatesAreTheStrongest ==
    \A t \in Moments : ResolveStateAt(t) \in {Strongest(t, Swings(t, TRUE)), Strongest(t, Swings(t, FALSE))}

BucketsAreTheirMoments ==
    \A seconds \in 1..2 : LET states == BuildBucketStateMap(Moments, seconds) IN
        \A t \in Moments :
            LET bucket == (t..(t + seconds - 1)) \cap Moments
            IN states[t] = IF \E m \in bucket : Clears \in Forced(m) THEN Normal
                           ELSE Max({ResolveStateAt(m) : m \in bucket})

AverageIsOfTrustedMoments ==
    LET trusted == {t \in Moments : /\ ResolveStateAt(t) = Normal
                                    /\ Latest(t) > 0 /\ samples[Latest(t)].online # NoReading}
    IN ComputeEffectiveAverageStats =
         [total |-> MapThenSumSet(LAMBDA t : samples[Latest(t)].online, trusted), trusted |-> Cardinality(trusted)]

(* The intervals that are built, merged and searched by priority say of    *)
(* each moment of the window what the samples and overrides say of it: a   *)
(* manual clear, or the strongest of what was forced, flagged or detected. *)
(* (Of a swing between two swings that ends a suspicion only the bounds    *)
(* are stated.)  A bucket is cleared with any of its moments and is the    *)
(* strongest of them otherwise, and the average and coverage, computed     *)
(* from boundary to boundary, are those of the moments that count.         *)
SegmentsTellTheMoments ==
    built => StatesAreTheStrongest /\ BucketsAreTheirMoments /\ AverageIsOfTrustedMoments
=============================================================================
