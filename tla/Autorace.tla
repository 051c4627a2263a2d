------------------------------ MODULE Autorace ------------------------------
(***************************************************************************)
(* The referee of the autorace course, Webots/controllers: three infrared  *)
(* sensors, a traffic light, a gate and a turn sign, each a program of its *)
(* own.  A sensor repeats its number on the common radio channel in every  *)
(* step in which something is in its beam, and the other three hear every  *)
(* number one step later.  Webots steps all of them together.              *)
(***************************************************************************)
EXTENDS Integers

CONSTANTS
  Delays,       \* how many steps red and orange may last
  GameTime,     \* 15 s: a lap cannot be shorter
  GateTime      \* gate_close_duration

ASSUME CourseAssumption ==
  /\ Delays \subseteq Nat /\ Delays # {}
  /\ GameTime \in Nat /\ GateTime \in Nat

(* The course: 0 in front of the line, 1, 3 and 5 in the beams of the      *)
(* sensors 1, 2 and 3, the rest between them.                              *)
Place == 0 .. 5
Beam(c) == IF c % 2 = 1 THEN (c + 1) \div 2 ELSE 0

VARIABLES
  car,              \* where the car is
  heard,            \* the number on the radio, or 0
  status,           \* of the traffic light
  led_wait,         \* steps until led_next_time is over
  game,             \* steps since game_start_time, up to GameTime + 1
  gate, gate_age,   \* status of the gate, steps since gate_close_time
  sign,             \* status of the turn sign
  left, right,      \* its two panels
  laps,             \* history: times round since the start, up to 1
  early,            \* history: the line was crossed before green
  past,             \* history: the car was past the line, or round, in the
                    \* last step before the time of the game was over
  clear, shut       \* history: steps since sensor 3 was last heard, and
                    \* since the gate was last open

vars == <<car, heard, status, led_wait, game, gate, gate_age, sign, left, right,
          laps, early, past, clear, shut>>

Capped(n, cap) == IF n < cap THEN n + 1 ELSE cap

TypeOK ==
  /\ car \in Place
  /\ heard \in 0 .. 3
  /\ status \in {0, 1, 2, 3, 4, 5, 6}
  /\ led_wait \in Nat
  /\ game \in 0 .. GameTime + 1
  /\ gate \in {0, 1} /\ gate_age \in 0 .. GateTime + 1
  /\ sign \in {0, 1, 2}
  /\ left \in BOOLEAN /\ right \in BOOLEAN
  /\ laps \in {0, 1}
  /\ early \in BOOLEAN /\ past \in BOOLEAN
  /\ clear \in 0 .. GateTime + 2 /\ shut \in 0 .. GateTime + 2

Init ==
  /\ car = 0 /\ heard = 0
  /\ status = 0 /\ led_wait = 0 /\ game = 0
  /\ gate = 0 /\ gate_age = 0
  /\ sign = 0 /\ left = FALSE /\ right = FALSE
  /\ laps = 0
  /\ early = FALSE /\ past = FALSE
  /\ clear = GateTime + 2 /\ shut = 0

-----------------------------------------------------------------------------
(* The programs of the course, for the number h they hear. *)

(* sensor.c: the beam is cut, or not. *)
Sensors == heard' = Beam(car)

(* Mutant: the light goes from orange back to red. *)
SwitchBack(s, w, g) ==
  \/ status = 0 /\ s = 1 /\ w \in Delays /\ g = 0
  \/ status = 1 /\ led_wait = 0 /\ s = 2 /\ w \in Delays /\ g = 0
  \/ status = 2 /\ led_wait = 0 /\ s = 1 /\ w \in Delays /\ g = 0
  \/ status \in {1, 2} /\ led_wait > 0 /\ s = status /\ w = led_wait - 1 /\ g = 0
  \/ status \in 3 .. 6 /\ s = status /\ w = 0 /\ g = Capped(game, GameTime + 1)

(* The switch of trafficlight.c. *)
Switch(s, w, g) ==
  \/ status = 0 /\ s = 1 /\ w \in Delays /\ g = 0
  \/ status = 1 /\ led_wait = 0 /\ s = 2 /\ w \in Delays /\ g = 0
  \/ status = 2 /\ led_wait = 0 /\ s = 3 /\ w = 0 /\ g = 0
  \/ status \in {1, 2} /\ led_wait > 0 /\ s = status /\ w = led_wait - 1 /\ g = 0
  \/ status \in 3 .. 6 /\ s = status /\ w = 0 /\ g = Capped(game, GameTime + 1)

(* Mutant: a start on orange is not seen. *)
JudgeRedOnly(s, g) ==
  CASE s < 2 -> 5
    [] s = 3 -> 4
    [] s = 4 /\ g > GameTime -> 6
    [] OTHER -> s

(* Mutant: the time of the game is not looked at. *)
JudgeAnyTime(s, g) ==
  CASE s < 3 -> 5
    [] s = 3 -> 4
    [] s = 4 -> 6
    [] OTHER -> s

(* What a car on the line means to the light. *)
Judge(s, g) ==
  CASE s < 3 -> 5
    [] s = 3 -> 4
    [] s = 4 /\ g > GameTime -> 6
    [] OTHER -> s

TrafficLight(h) ==
  \E s \in 0 .. 6, w \in Delays \cup 0 .. led_wait, g \in 0 .. GameTime + 1 :
    /\ Switch(s, w, g)
    /\ led_wait' = w
    /\ game' = g
    /\ status' = IF h = 1 THEN Judge(s, g) ELSE s

(* Mutant: the gate counts from the last time it heard the sensor. *)
GateRestarts(h) ==
  LET closes == h = 3
      age == IF closes THEN 0 ELSE Capped(gate_age, GateTime + 1)
  IN /\ gate_age' = age
     /\ gate' = IF (closes \/ gate = 1) /\ age <= GateTime THEN 1 ELSE 0

(* gate.c: closed by sensor 3, open again when the time is over. *)
Gate(h) ==
  LET closes == h = 3 /\ gate = 0
      age == IF closes THEN 0 ELSE Capped(gate_age, GateTime + 1)
  IN /\ gate_age' = age
     /\ gate' = IF (closes \/ gate = 1) /\ age <= GateTime THEN 1 ELSE 0

(* Mutant: every message of sensor 2 draws a direction. *)
TurnSignAgain(h) ==
  \/ /\ h = 1 /\ sign > 0
     /\ sign' = 0 /\ left' = FALSE /\ right' = FALSE
  \/ /\ h = 2
     /\ \/ sign' = 1 /\ left' = TRUE /\ right' = right
        \/ sign' = 2 /\ right' = TRUE /\ left' = left
  \/ /\ ~(h = 1 /\ sign > 0) /\ h # 2
     /\ UNCHANGED <<sign, left, right>>

(* turnsign.c: a direction drawn at sensor 2, taken back at sensor 1. *)
TurnSign(h) ==
  \/ /\ h = 1 /\ sign > 0
     /\ sign' = 0 /\ left' = FALSE /\ right' = FALSE
  \/ /\ h = 2 /\ sign = 0
     /\ \/ sign' = 1 /\ left' = TRUE /\ right' = right
        \/ sign' = 2 /\ right' = TRUE /\ left' = left
  \/ /\ ~(h = 1 /\ sign > 0) /\ ~(h = 2 /\ sign = 0)
     /\ UNCHANGED <<sign, left, right>>

(* The car drives on, or stands; it is no part of the program. *)
Car == car' \in {car, (car + 1) % 6}

(* The light turns green in this very step, before it looks at the radio. *)
Green == status = 2 /\ led_wait = 0

Remember ==
  /\ laps' = IF car = 5 /\ car' = 0 /\ status = 4 THEN 1 ELSE laps
  /\ early' = (early \/ (heard = 1 /\ status < 3 /\ ~Green))
  /\ past' = IF game' <= GameTime THEN car \in 2 .. 5 \/ laps' = 1 ELSE past
  /\ clear' = IF heard = 3 THEN 0 ELSE Capped(clear, GateTime + 2)
  /\ shut' = IF gate' = 1 THEN Capped(shut, GateTime + 2) ELSE 0

(* One step of the simulation. *)
Step ==
  /\ Car
  /\ Sensors
  /\ TrafficLight(heard)
  /\ Gate(heard)
  /\ TurnSign(heard)
  /\ Remember

Next == Step

Spec == Init /\ [][Next]_vars

(* Webots steps the controllers for as long as it runs. *)
FairSpec == Spec /\ WF_vars(Next)

-----------------------------------------------------------------------------
(* Properties. *)

(***************************************************************************)
(* A car on the line before green is judged an illegal start, and that     *)
(* judgement is final: neither green nor a later crossing takes it back    *)
(* (trafficlight.c:91-97).                                                 *)
(***************************************************************************)
FalseStartSeen == early => status = 5

(***************************************************************************)
(* A car that was past the line when the time of the game was over         *)
(* finishes with a lap, however long it stands where: a sensor repeats its *)
(* number for as long as the car is in the beam, so one crossing may both  *)
(* start and end the game, but that needs a car in front of or on the line *)
(* at that time (trafficlight.c:100-107).                                  *)
(***************************************************************************)
FinishIsLap == status = 6 /\ past => laps = 1

(***************************************************************************)
(* At most one panel of the sign is up, the one that was drawn, however    *)
(* often the sensors repeat their numbers, and a car that comes to sensor 3*)
(* finds one up (turnsign.c:26-43).                                        *)
(***************************************************************************)
OneSign ==
  /\ left = (sign = 1) /\ right = (sign = 2)
  /\ car = 5 => sign # 0

(***************************************************************************)
(* The gate is open GateTime after the car left the beam at the latest,    *)
(* and a car that stands in the beam does not keep it closed beyond that:  *)
(* closing is never prolonged (gate.c:26-40).                              *)
(***************************************************************************)
GateOpens ==
  /\ clear > GateTime => gate = 0
  /\ shut <= GateTime + 1

(* The race begins: the light turns green, or the start was illegal. *)
RaceBegins == <>(status \in {3, 4, 5})
=============================================================================
