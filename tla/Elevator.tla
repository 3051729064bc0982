------------------------------ MODULE Elevator ------------------------------
(***************************************************************************)
(* The elevator of src/actor-v3/elevator.py, which the Villa does not have *)
(* yet: the order of its stops.                                            *)
(*                                                                         *)
(* It never gets anywhere: call_later passes self twice, so `arrived' gets *)
(* an argument too many and raises in the event loop.  And `arrived' would *)
(* only end the direction: nothing removes a stop or sets the floor.       *)
(***************************************************************************)
EXTENDS Integers, SequencesExt

CONSTANT Floors

ASSUME FloorsAssumption == Floors \subseteq Int

VARIABLES
    stops, direction,
    moving              \* the timer of start is due

elevator == <<stops, direction, moving>>

floor == 0

Towards(f) == IF f > floor THEN "up" ELSE "down"

\* Mutant of Fits: the order within a direction is the wrong way round.
FitsBehind(to, f, stop) == \/ to = "up" /\ f > floor /\ f > stop
                           \/ to = "down" /\ f < floor /\ f < stop

\* Floor f is on the way to this stop.
Fits(to, f, stop) == \/ to = "up" /\ f > floor /\ f < stop
                     \/ to = "down" /\ f < floor /\ f > stop

\* The loop of call: at the first stop that is this floor nothing is added,
\* before the first it is on the way to it is inserted.
Stopping(f) ==
    LET to == IF direction = "none" THEN Towards(stops[1]) ELSE direction
        ends == {i \in DOMAIN stops : stops[i] = f \/ Fits(to, f, stops[i])}
    IN  IF ends = {} THEN Append(stops, f)
        ELSE IF stops[Min(ends)] = f THEN stops
        ELSE InsertAt(stops, Min(ends), f)

\* call and start.
Call(f) ==
    /\ stops' = Stopping(f)
    /\ direction' = IF direction = "none" THEN Towards(stops'[1]) ELSE direction
    /\ moving' = (moving \/ direction = "none")

\* The timer fires, and arrived is not reached.
TimerFires == moving /\ moving' = FALSE /\ UNCHANGED <<stops, direction>>

ElevatorInit == stops = <<>> /\ direction = "none" /\ moving = FALSE

ElevatorNext == (\E f \in Floors : Call(f)) \/ TimerFires

-----------------------------------------------------------------------------
(* Properties.                                                             *)

\* No floor is a stop twice, and the stops ahead of the elevator are in the
\* order in which it passes them.
StopsAreOrdered ==
    \A i, j \in DOMAIN stops :
        i < j => /\ stops[i] # stops[j]
                 /\ direction = "up" /\ stops[i] > floor /\ stops[j] > floor => stops[i] < stops[j]
                 /\ direction = "down" /\ stops[i] < floor /\ stops[j] < floor => stops[i] > stops[j]
=============================================================================
