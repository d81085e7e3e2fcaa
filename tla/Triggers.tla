------------------------------ MODULE Triggers ------------------------------
(***************************************************************************)
(* The triggers of flows: the registry that finds the triggers of an       *)
(* event, and the scheduler that fires triggers in time.  The scheduler    *)
(* checks all triggers at every tick and runs the handler of each one that *)
(* is due in a goroutine, which sets the next time when the handler has    *)
(* returned.  A trigger is named by the call that registers it.            *)
(***************************************************************************)
EXTENDS Handlers, SequencesExt

CONSTANTS
    FirstSchedules,     \* triggers of the start: a flow and an expression each
    EventTypes,         \* the types of events, as sequences of words
    Length,             \* the length of each interval, in ticks
    MaxTicksOfSchedule  \* bound: the ticks that are looked at

(* The intervals that an expression may stand for. *)
Intervals == {"minute", "5 minutes", "15 minutes", "hour", "day", "week"}

ASSUME LengthAssumption == Length \in [Intervals -> Nat]

VARIABLES
    listening,  \* the event triggers registered under each pattern, in order
    schedule,   \* the scheduled trigger of each flow
    due,        \* when each scheduled trigger runs next
    firings,    \* the runs of handlers: trigger, number, begin, and end
    ticks,      \* the ticks so far
    stopped     \* whether the scheduler has been stopped

triggerVars == <<listening, schedule, due, firings, ticks, stopped>>

ScheduleIds == Calls \cup DOMAIN FirstSchedules
FlowsOfSchedules == {FirstSchedules[x].flow : x \in DOMAIN FirstSchedules}

-----------------------------------------------------------------------------
(* Events: a pattern is a sequence of words, with or without a star at its end. *)

(* matchEventType *)
MatchEventType(pattern, type) ==
    IF pattern.star THEN IsPrefix(pattern.words, type) ELSE pattern.words = type

ShouldTrigger(t, type, zone) ==
    MatchEventType(t.pattern, type) /\ t.zone \in {"", zone}

Listeners(pattern) == IF pattern \in DOMAIN listening THEN listening[pattern] ELSE <<>>

(* Register: appended to the list of its pattern. *)
RegisterEvent(c) ==
    /\ Begins(c, "listen")
    /\ LET p == ask[c].trigger.pattern IN
       listening' = [q \in DOMAIN listening \cup {p} |->
                       IF q = p THEN Append(Listeners(p), ask[c].trigger) ELSE listening[q]]
    /\ Ok(c) /\ UNCHANGED <<schedule, due, firings, ticks, stopped>>

(* Unregister: every list without the triggers of the flow. *)
UnregisterEvent(c) ==
    /\ Begins(c, "unlisten")
    /\ listening' = [q \in DOMAIN listening |->
                       SelectSeq(listening[q], LAMBDA t : t.flow # ask[c].flow)]
    /\ Ok(c) /\ UNCHANGED <<schedule, due, firings, ticks, stopped>>

(* Match: the list of the type, then the lists of the patterns it matches, *)
(* in the order of the map.                                                *)
Match(type, zone) ==
    LET exact == [words |-> type, star |-> FALSE]
        wild == SetToSeq({p \in DOMAIN listening : p.star /\ MatchEventType(p, type)})
        Found(p) == SelectSeq(Listeners(p), LAMBDA t : ShouldTrigger(t, type, zone))
    IN  Found(exact) \o FlattenSeq([i \in 1 .. Len(wild) |-> Found(wild[i])])

-----------------------------------------------------------------------------
(* Schedules: an expression is a sequence of five fields. *)

(* parseCronToInterval *)
ParseCronToInterval(cron) ==
    CASE (\E n \in 1 .. 4 : cron[n] = "*/1") \/ cron = <<"*", "*", "*", "*", "*">> -> "minute"
      [] cron[1] = "*/5" -> "5 minutes"
      [] cron[1] = "*/15" -> "15 minutes"
      [] cron = <<"0", "*", "*", "*", "*">> -> "hour"
      [] cron \in {<<"0", "9", "*", "*", "*">>, <<"0", "0", "*", "*", "*">>} -> "day"
      [] SubSeq(cron, 3, 5) = <<"*", "*", "1">> -> "week"
      [] OTHER -> "hour"

Interval(x) ==
    Length[ParseCronToInterval(IF x \in Calls THEN ask[x].cron ELSE FirstSchedules[x].cron)]

TriggersInit ==
    /\ listening = <<>>
    /\ schedule = [f \in FlowsOfSchedules |->
                     CHOOSE x \in DOMAIN FirstSchedules : FirstSchedules[x].flow = f]
    /\ due = [x \in ScheduleIds |->
                IF x \in Calls THEN 0
                ELSE Length[ParseCronToInterval(FirstSchedules[x].cron)]]
    /\ firings = {}
    /\ ticks = 0
    /\ stopped = FALSE

(* NewScheduleTriggerFromCron and Register: it takes the place of the trigger the flow had. *)
RegisterSchedule(c) ==
    /\ Begins(c, "plan")
    /\ schedule' = [schedule EXCEPT ![ask[c].flow] = c]
    /\ due' = [due EXCEPT ![c] = ticks + Interval(c)]
    /\ Ok(c) /\ UNCHANGED <<listening, firings, ticks, stopped>>

UnregisterSchedule(c) ==
    /\ Begins(c, "unplan")
    /\ schedule' = [schedule EXCEPT ![ask[c].flow] = None]
    /\ Ok(c) /\ UNCHANGED <<listening, due, firings, ticks, stopped>>

(* Stop: handlers that run go on. *)
StopScheduler(c) ==
    /\ Begins(c, "stopplan")
    /\ stopped' = TRUE
    /\ Ok(c) /\ UNCHANGED <<listening, schedule, due, firings, ticks>>

Number(x) == Cardinality({f \in firings : f.trigger = x})

(* checkTriggers: every trigger that is due begins a run, whether or not   *)
(* an earlier one has ended.                                               *)
CheckTriggers ==
    /\ ~stopped /\ ticks < MaxTicksOfSchedule
    /\ ticks' = ticks + 1
    /\ firings' = firings \cup
         {[trigger |-> schedule[f], number |-> Number(schedule[f]) + 1, begin |-> ticks + 1, end |-> None] :
            f \in {g \in FlowsOfSchedules : schedule[g] # None /\ ticks + 1 >= due[schedule[g]]}}
    /\ UNCHANGED <<listening, schedule, due, stopped, callVars>>

(* Slip: the next time is an interval after the last one, however long the run took. *)
UpdateFromDue(x) == due' = [due EXCEPT ![x] = @ + Interval(x)]

(* UpdateAfterRun: an interval from now. *)
UpdateAfterRun(x) == due' = [due EXCEPT ![x] = ticks + Interval(x)]

(* The handler of a run returns.  An error is printed and makes no         *)
(* difference: the comment on UpdateAfterRun speaks of successful runs,    *)
(* but checkTriggers calls it after every run.                             *)
HandlerReturns ==
    /\ \E f \in firings :
         /\ f.end = None
         /\ firings' = (firings \ {f}) \cup {[f EXCEPT !.end = ticks]}
         /\ UpdateAfterRun(f.trigger)
    /\ UNCHANGED <<listening, schedule, ticks, stopped, callVars>>

ListenOps == {"listen", "unlisten"}
PlanOps == {"plan", "unplan", "stopplan"}

ListenNext ==
    \E c \in Calls :
        \/ ask[c].op \in ListenOps /\ Malformed(c) /\ UNCHANGED triggerVars
        \/ RegisterEvent(c) \/ UnregisterEvent(c)

PlanNext ==
    \/ \E c \in Calls :
         \/ ask[c].op \in PlanOps /\ Malformed(c) /\ UNCHANGED triggerVars
         \/ RegisterSchedule(c) \/ UnregisterSchedule(c) \/ StopScheduler(c)
    \/ CheckTriggers
    \/ HandlerReturns

-----------------------------------------------------------------------------

(* A run begins no sooner than an interval after the end of every run of   *)
(* its trigger that had ended, however many overlapped with it and in      *)
(* whatever order they returned: runs that come closer together are those  *)
(* that overlap.  It is so after failed runs too, which therefore wait a   *)
(* whole interval to be run again (checkTriggers, UpdateAfterRun).         *)
RunsKeepTheirDistance ==
    \A f, g \in firings :
        f.trigger = g.trigger /\ f.number # g.number /\ f.end # None /\ f.end < g.begin =>
            g.begin >= f.end + Interval(f.trigger)
=============================================================================
