---------------------------- MODULE SessionFilter ----------------------------
(***************************************************************************)
(* When entries are blocked by the hour of the week                        *)
(* (core/strategies/session_filter.py).  A moment is the open time of the  *)
(* last candle in UTC, [day, minute]; a specification is the day's name,   *)
(* "" when there is none, and the minute of the day.                       *)
(***************************************************************************)
EXTENDS Integers

NoDay == -1                                \* None
NoSpec == [name |-> "none", minute |-> 0]  \* an empty string

Days == [monday |-> 0, tuesday |-> 1, wednesday |-> 2, thursday |-> 3,
         friday |-> 4, saturday |-> 5, sunday |-> 6]

Moments == [day : 0..6, minute : 0..1439]
Specs == [name : STRING, minute : 0..1439]
DeadZones == [start_utc : Specs, end_utc : Specs]

\* A day that _DAY_NAMES does not know is no day.
Weekday(spec) == IF spec.name \in DOMAIN Days THEN Days[spec.name] ELSE NoDay

\* (start_day, start_time) <= (end_day, end_time)
InOrder(d1, t1, d2, t2) == d1 < d2 \/ (d1 = d2 /\ t1 <= t2)

InNamedDayWindow(now, startDay, start, namedEnd, end) ==
    LET endDay == IF namedEnd = NoDay THEN startDay ELSE namedEnd
        early == now.day = startDay /\ now.minute >= start
        late == now.day = endDay /\ now.minute < end
    IN  IF InOrder(startDay, start, endDay, end)
        THEN IF startDay = endDay THEN early /\ late
             ELSE early \/ late \/ (startDay < now.day /\ now.day < endDay)
        ELSE early \/ late \/ now.day > startDay \/ now.day < endDay

\* Monday to Friday from start; past midnight on the day after each of them.
InWeeknightWindow(now, start, end) ==
    IF start > end
    THEN \/ now.day \in 0..4 /\ now.minute >= start
         \/ now.day \in 1..5 /\ now.minute < end
    ELSE now.day \in 0..4 /\ start <= now.minute /\ now.minute < end

InZone(now, zone) ==
    /\ zone.start_utc # NoSpec /\ zone.end_utc # NoSpec
    /\ IF Weekday(zone.start_utc) # NoDay
       THEN InNamedDayWindow(now, Weekday(zone.start_utc), zone.start_utc.minute,
                             Weekday(zone.end_utc), zone.end_utc.minute)
       ELSE InWeeknightWindow(now, zone.start_utc.minute, zone.end_utc.minute)

IsInDeadZone(now, zones) == \E zone \in zones : InZone(now, zone)

\* _check_session_filter
SessionPass(config, now) ==
    config.session_filter_enabled => ~IsInDeadZone(now, config.session_dead_zones)
=============================================================================
