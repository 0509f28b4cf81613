---------------------------- MODULE MCAlarmClock ----------------------------
(* A bedside speaker for AlarmClock: an alarm due on both of two days, that *)
(* an editor adds, deletes, switches off, skips and moves.                 *)
EXTENDS AlarmClock, TLC

CONSTANT a1

Daily == [on |-> TRUE, times |-> {1, 4}]
D(entry, zone, skip) == [entries |-> [a \in Alarms |-> entry], zone |-> zone, skip |-> skip]
Documents ==
  { D(NoAlarm, 0, {}), D(Daily, 0, {}), D([Daily EXCEPT !.on = FALSE], 0, {}),
    D(Daily, 0, {0}), D(Daily, 1, {}) }
=============================================================================
