----------------------------- MODULE TickContract -----------------------------
(***************************************************************************)
(* What a ZFSReplicationSchedule promises about its ticks: a tick gets at  *)
(* most one run, runs are started in the order of their ticks, and the     *)
(* schedule never goes back behind the tick it has recorded.  A tick may   *)
(* also be recorded without a run: skipped, or superseded by a later one.  *)
(***************************************************************************)
EXTENDS Naturals

CONSTANT Ticks   \* the instants at which the schedule is due

VARIABLES
    started,  \* how many runs have been started
    latest,   \* the tick of the last one, 0 before the first
    recorded  \* the last tick the schedule has dealt with, 0 before the first

vars == <<started, latest, recorded>>

Init == started = 0 /\ latest = 0 /\ recorded = 0

Start(t) ==
    /\ t > latest /\ t >= recorded
    /\ started' = started + 1
    /\ latest' = t
    /\ UNCHANGED recorded

Record(t) ==
    /\ t > recorded /\ t >= latest
    /\ recorded' = t
    /\ UNCHANGED <<started, latest>>

Next == \E t \in Ticks : Start(t) \/ Record(t)

Spec == Init /\ [][Next]_vars
=============================================================================
