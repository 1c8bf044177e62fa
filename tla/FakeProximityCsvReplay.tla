------------------------ MODULE FakeProximityCsvReplay ------------------------
(***************************************************************************)
(* fake_proximity_scenario_v2.py: recorded distances replayed by a timer,   *)
(* from the start, or from the first message on a trigger topic.  One of    *)
(* the twenty columns stands for all.  Times are timer periods.             *)
(***************************************************************************)
EXTENDS Integers, Sequences, SequencesExt, FiniteSetsExt

CONSTANTS
    InactiveRange,         \* inactive_range_m
    MinimumValid, MaximumValid

ASSUME ValidAssumption ==
    MinimumValid \in Nat \ {0} /\ MaximumValid \in Nat /\ MinimumValid < MaximumValid

NoTime == -1               \* a timestamp that is no number
NoReading == -1            \* an invalid distance

\* The parameters a replay is constructed with.
Recordings ==
    [rows : Seq([time : Nat \cup {NoTime}, range : Int]), offset : Nat, duration : Nat,
     delay : Nat, trigger : BOOLEAN, loop : BOOLEAN, interpolate : BOOLEAN, rate : Nat \ {0}]

VARIABLES
    replay,                \* "off", "constructed", or "failed": exit with 2
    source,                \* the file and the parameters:
                           \* [rows, offset, duration, delay, trigger, loop, interpolate, rate]
    triggered, startTime,  \* triggered, start_time
    sent                   \* the last messages: [active, range, at]

replayVars == <<replay, source, triggered, startTime, sent>>

ReplayTypeOK ==
    /\ replay \in {"off", "constructed", "failed"}
    /\ triggered \in BOOLEAN /\ startTime \in Nat
    /\ sent.active \in BOOLEAN /\ sent.at \in Nat
    /\ sent.range \in MinimumValid .. MaximumValid \cup {InactiveRange}

ReplayInit(given) ==
    /\ replay = "off" /\ source = given
    /\ triggered = FALSE /\ startTime = 0
    /\ sent = [active |-> FALSE, range |-> InactiveRange, at |-> 0]

-----------------------------------------------------------------------------
(* load_replay_csv *)

ReadingOf(row) == IF row.range \in MinimumValid .. MaximumValid THEN row.range ELSE NoReading
TimesOf(rows) == {row.time : row \in ToSet(rows)} \ {NoTime}
InOrder(times) ==
    CHOOSE order \in [1 .. Cardinality(times) -> times] :
        \A i, j \in 1 .. Cardinality(times) : i < j => order[i] < order[j]
LastAt(rows, time) == SelectLastInSeq(rows, LAMBDA row : row.time = time)

\* Sorted by time, from the first one on; of rows with one time the last counts.
LoadReplay(rows) ==
    LET times == InOrder(TimesOf(rows))
    IN [i \in 1 .. Cardinality(TimesOf(rows)) |->
          [time |-> times[i] - times[1], range |-> ReadingOf(rows[LastAt(rows, times[i])])]]

Loads(rows) ==
    /\ \E row \in ToSet(rows) : row.time # NoTime /\ ReadingOf(row) # NoReading
    /\ Cardinality(TimesOf(rows)) >= 2

WindowEnd(table) ==
    IF source.duration > 0 THEN Min({source.offset + source.duration, Last(table).time})
    ELSE Last(table).time

ReplayStarts(now) ==
    /\ replay = "off"
    /\ replay' = IF Loads(source.rows) /\ source.offset < Last(LoadReplay(source.rows)).time
                   THEN "constructed" ELSE "failed"
    /\ triggered' = ~source.trigger
    /\ startTime' = now
    /\ UNCHANGED <<source, sent>>

-----------------------------------------------------------------------------
(* The trigger and the timer *)

TriggerRestarts(now) ==
    /\ triggered' = TRUE /\ startTime' = now
    /\ UNCHANGED <<replay, source, sent>>

\* The first message only.
OnStartTrigger(now) ==
    /\ triggered' = TRUE
    /\ startTime' = IF triggered THEN startTime ELSE now
    /\ UNCHANGED <<replay, source, sent>>

\* Between two rows: on the line between two readings, or the reading there is.
Between(left, right, position) ==
    IF left.range = NoReading THEN right.range
    ELSE IF right.range = NoReading THEN left.range
    ELSE left.range + ((position - left.time) * (right.range - left.range))
                        \div (right.time - left.time)

RangeAt(table, position) ==
    LET i == Max({1} \cup {j \in DOMAIN table : table[j].time <= position})
    IN IF source.interpolate /\ i < Len(table) THEN Between(table[i], table[i + 1], position)
       ELSE table[i].range

Sent(active, reading, now) ==
    [active |-> active, at |-> now,
     range |-> IF active /\ reading # NoReading THEN reading ELSE InactiveRange]

Playback(now) == (now - startTime - source.delay) * source.rate

\* Inactive before the trigger and the delay, and after a window that is not repeated.
PublishReplay(now) ==
    /\ replay = "constructed"
    /\ sent' =
         LET table == LoadReplay(source.rows)
             window == WindowEnd(table) - source.offset
             position == IF source.loop THEN Playback(now) % window ELSE Playback(now)
         IN IF ~triggered \/ now - startTime < source.delay \/ (~source.loop /\ Playback(now) > window)
            THEN Sent(FALSE, NoReading, now)
            ELSE Sent(TRUE, RangeAt(table, source.offset + position), now)
    /\ UNCHANGED <<replay, source, triggered, startTime>>

================================================================================
