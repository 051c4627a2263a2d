--------------------------- MODULE AutoraceProofs ---------------------------
(***************************************************************************)
(* Proofs about the referee of the course, for any duration of red and     *)
(* orange, of a lap and of the closed gate.                                *)
(***************************************************************************)
EXTENDS Autorace, TLAPS

(* The number on the radio is at most one step old. *)
HeardOnCourse ==
  /\ heard = 1 => car \in {1, 2}
  /\ heard = 2 => car \in {3, 4}
  /\ heard = 3 => car \in {5, 0}

(* A car that has left the second beam is heard there, or was before. *)
SignDrawn == car = 4 => sign # 0 \/ heard = 2

(***************************************************************************)
(* A closed gate was heard to close gate_age steps ago, and its time is not*)
(* over.                                                                   *)
(***************************************************************************)
GateClock ==
  /\ gate = 1 => gate_age <= GateTime /\ clear <= gate_age /\ shut = gate_age + 1
  /\ gate = 0 => shut = 0

(* Until the start is seen nobody is past the line, or was just heard on it.*)
NotPast == status <= 3 => car \in {0, 1} \/ (car = 2 /\ heard = 1)

(* A car that was past the line in time stays there until it is round.     *)
StillPast ==
  /\ past /\ laps = 0 /\ status # 5 => car \in 2 .. 5 /\ heard # 1
  /\ status = 6 => game > GameTime

IInv ==
  /\ TypeOK
  /\ FalseStartSeen /\ FinishIsLap
  /\ NotPast /\ StillPast
  /\ HeardOnCourse /\ SignDrawn /\ OneSign
  /\ GateClock

-----------------------------------------------------------------------------
LEMMA Constants ==
  /\ Delays \subseteq Nat /\ GameTime \in Nat /\ GateTime \in Nat
  BY CourseAssumption

LEMMA CappedType ==
  ASSUME NEW cap \in Nat, NEW n \in 0 .. cap
  PROVE  /\ Capped(n, cap) \in 0 .. cap
         /\ Capped(n, cap) <= n + 1
         /\ n < cap => Capped(n, cap) = n + 1
  BY DEF Capped

LEMMA InitIInv == Init => IInv
<1> SUFFICES ASSUME Init PROVE IInv
  OBVIOUS
<1>1. TypeOK
  <2>1. left \in BOOLEAN /\ right \in BOOLEAN /\ early \in BOOLEAN /\ past \in BOOLEAN
    BY DEF Init
  <2>2. /\ led_wait = 0 /\ game = 0 /\ gate_age = 0 /\ clear = GateTime + 2 /\ shut = 0
        /\ car = 0 /\ heard = 0 /\ status = 0 /\ gate = 0 /\ sign = 0 /\ laps = 0
    BY DEF Init
  <2> QED
    BY <2>1, <2>2, Constants DEF TypeOK, Place
<1>2. FalseStartSeen /\ FinishIsLap /\ NotPast /\ StillPast
  BY DEF Init, FalseStartSeen, FinishIsLap, NotPast, StillPast
<1>3. HeardOnCourse /\ SignDrawn
  BY DEF Init, HeardOnCourse, SignDrawn
<1>4. OneSign
  <2>1. ~left /\ ~right /\ sign = 0 /\ car = 0
    BY DEF Init
  <2> QED
    BY <2>1, left \in BOOLEAN, right \in BOOLEAN, SMT DEF Init, OneSign
<1>5. GateClock
  BY DEF Init, GateClock
<1> QED
  BY <1>1, <1>2, <1>3, <1>4, <1>5 DEF IInv

(* What the light does in one step, without its two functions. *)
LEMMA LightStep ==
  ASSUME TypeOK, NEW h \in 0 .. 3, TrafficLight(h)
  PROVE  /\ status' \in {0, 1, 2, 3, 4, 5, 6}
         /\ led_wait' \in Nat
         /\ game' \in 0 .. GameTime + 1
         /\ status = 5 => status' = 5
         /\ h = 1 /\ status < 3 /\ ~Green => status' = 5
         /\ status' = 6 => status = 6 \/ (h = 1 /\ game' > GameTime)
         /\ status = 6 /\ game > GameTime => status' = 6 /\ game' > GameTime
         /\ status' <= 3 => status <= 3 /\ h # 1
<1>1. PICK s \in 0 .. 6, w \in Delays \cup 0 .. led_wait, g \in 0 .. GameTime + 1 :
        /\ Switch(s, w, g)
        /\ led_wait' = w
        /\ game' = g
        /\ status' = IF h = 1 THEN Judge(s, g) ELSE s
  BY DEF TrafficLight
<1>2. w \in Nat
  BY <1>1, Constants DEF TypeOK
<1>3. /\ status = 5 => s = 5
      /\ status < 3 /\ ~Green => s < 3
      /\ s = 6 => status = 6
      /\ status = 6 => s = 6
      /\ s <= 3 => status <= 3
  BY <1>1 DEF Switch, TypeOK, Green
<1>4. /\ Judge(s, g) \in 0 .. 6
      /\ s < 3 => Judge(s, g) = 5
      /\ s = 5 => Judge(s, g) = 5
      /\ Judge(s, g) = 6 => s = 6 \/ g > GameTime
      /\ s = 6 => Judge(s, g) = 6
      /\ Judge(s, g) > 3
  BY <1>1 DEF Judge
<1>5. status = 6 /\ game > GameTime => g > GameTime
  BY <1>1, Constants DEF Switch, TypeOK, Capped
<1> QED
  BY <1>1, <1>2, <1>3, <1>4, <1>5

LEMMA TypeStep == IInv /\ Next => TypeOK'
<1> SUFFICES ASSUME IInv, Step PROVE TypeOK'
  BY DEF Next
<1> USE Constants DEF IInv
<1>1. heard \in 0 .. 3
  BY DEF TypeOK
<1>2. TrafficLight(heard)
  BY DEF Step
<1>3. /\ status' \in {0, 1, 2, 3, 4, 5, 6} /\ led_wait' \in Nat
      /\ game' \in 0 .. GameTime + 1
  BY <1>1, <1>2, LightStep
<1>4. car' \in Place
  BY DEF Step, Car, Place, TypeOK
<1>5. heard' \in 0 .. 3
  BY DEF Step, Sensors, Beam, TypeOK, Place
<1>6. gate' \in {0, 1} /\ gate_age' \in 0 .. GateTime + 1
  BY CappedType DEF Step, Gate, TypeOK
<1>7. sign' \in {0, 1, 2} /\ left' \in BOOLEAN /\ right' \in BOOLEAN
  BY DEF Step, TurnSign, TypeOK
<1>8. laps' \in {0, 1} /\ early' \in BOOLEAN /\ past' \in BOOLEAN
  BY DEF Step, Remember, TypeOK
<1>9. clear' \in 0 .. GateTime + 2 /\ shut' \in 0 .. GateTime + 2
  <2>1. GateTime + 2 \in Nat
    OBVIOUS
  <2>2. clear \in 0 .. GateTime + 2 /\ shut \in 0 .. GateTime + 2
    BY DEF TypeOK
  <2>3. /\ Capped(clear, GateTime + 2) \in 0 .. GateTime + 2
        /\ Capped(shut, GateTime + 2) \in 0 .. GateTime + 2
    BY <2>1, <2>2, CappedType
  <2> QED
    BY <2>1, <2>3 DEF Step, Remember
<1> QED
  BY <1>3, <1>4, <1>5, <1>6, <1>7, <1>8, <1>9 DEF TypeOK

LEMMA JudgementStep ==
  IInv /\ Next => FalseStartSeen' /\ FinishIsLap' /\ NotPast' /\ StillPast'
<1> SUFFICES ASSUME IInv, Step
             PROVE  FalseStartSeen' /\ FinishIsLap' /\ NotPast' /\ StillPast'
  BY DEF Next
<1>1. /\ heard \in 0 .. 3 /\ laps \in {0, 1} /\ TypeOK /\ status \in 0 .. 6
      /\ car \in 0 .. 5 /\ game \in Int /\ GameTime \in Int
  BY Constants DEF IInv, TypeOK, Place
<1>2. TrafficLight(heard)
  BY DEF Step
<1>3. /\ status' \in 0 .. 6 /\ game' \in Int
      /\ status = 5 => status' = 5
      /\ heard = 1 /\ status < 3 /\ ~Green => status' = 5
      /\ status' = 6 => status = 6 \/ (heard = 1 /\ game' > GameTime)
      /\ status = 6 /\ game > GameTime => status' = 6 /\ game' > GameTime
      /\ status' <= 3 => status <= 3 /\ heard # 1
  BY <1>1, <1>2, LightStep
<1>4. /\ laps' = IF car = 5 /\ car' = 0 /\ status = 4 THEN 1 ELSE laps
      /\ early' = (early \/ (heard = 1 /\ status < 3 /\ ~Green))
  BY DEF Step, Remember
<1>4a. game' <= GameTime /\ past' /\ laps' # 1 => car \in 2 .. 5
  BY Zenon DEF Step, Remember
<1>4b. past' /\ ~(game' <= GameTime) => past
  BY Zenon DEF Step, Remember
<1>5. FalseStartSeen'
  BY <1>3, <1>4 DEF IInv, FalseStartSeen
<1>6. /\ car' \in {car, (car + 1) % 6}
      /\ heard' = IF car % 2 = 1 THEN (car + 1) \div 2 ELSE 0
  BY DEF Step, Car, Sensors, Beam
<1>7. NotPast'
  BY <1>1, <1>3, <1>6 DEF IInv, NotPast
<1>8. status = 6 => game > GameTime
  BY DEF IInv, StillPast
<1>9. ASSUME past', laps' = 0, status' # 5 PROVE status' # 6 /\ car \in 2 .. 5
  <2>1. laps = 0 /\ status # 5
    BY <1>1, <1>3, <1>4, <1>9
  <2>2. CASE game' <= GameTime
    <3>1. car \in 2 .. 5
      <4>1. laps' # 1
        BY <1>9
      <4>2. QED
        BY <1>4a, <1>9, <2>2, <4>1, Zenon
    <3>2. QED
      BY <1>1, <1>3, <1>8, <2>2, <3>1
  <2>3. CASE game' > GameTime
    <3>1. past
      <4>1. ~(game' <= GameTime)
        BY <1>1, <1>3, <2>3
      <4>2. QED
        BY <1>4b, <1>9, <4>1, Zenon
    <3>2. car \in 2 .. 5 /\ heard # 1 /\ status # 6
      BY <2>1, <3>1 DEF IInv, StillPast, FinishIsLap
    <3>3. QED
      BY <1>3, <3>2
  <2>4. QED
    BY <1>1, <1>3, <2>2, <2>3
<1>10. FinishIsLap'
  <2>1. laps' \in {0, 1} /\ (status' = 6 => status' # 5)
    BY <1>1, <1>4
  <2>2. QED
    BY <2>1, <1>9, Zenon DEF FinishIsLap
<1>11. ASSUME past', laps' = 0, status' # 5 PROVE car' \in 2 .. 5 /\ heard' # 1
  <2>1. car \in 2 .. 5 /\ status' # 6 /\ status # 5
    BY <1>3, <1>9, <1>11
  <2>2. status # 6
    BY <1>3, <1>8, <2>1
  <2>3. car = 5 => status = 4
    BY <1>1, <2>1, <2>2 DEF IInv, NotPast
  <2>4. ~(car = 5 /\ car' = 0)
    BY <1>4, <1>11, <2>3
  <2>5. QED
    BY <1>6, <2>1, <2>4
<1>12. status' = 6 => game' > GameTime
  BY <1>3, <1>8
<1> QED
  BY <1>5, <1>7, <1>10, <1>11, <1>12 DEF StillPast

LEMMA SignStep ==
  IInv /\ Next => HeardOnCourse' /\ SignDrawn' /\ OneSign'
<1> SUFFICES ASSUME IInv, Step PROVE HeardOnCourse' /\ SignDrawn' /\ OneSign'
  BY DEF Next
<1>1. /\ car \in 0 .. 5 /\ car' \in {car, (car + 1) % 6}
      /\ heard' = IF car % 2 = 1 THEN (car + 1) \div 2 ELSE 0
  BY DEF IInv, TypeOK, Place, Step, Car, Sensors, Beam
<1>2. HeardOnCourse'
  BY <1>1 DEF HeardOnCourse
<1>3. /\ left' = (sign' = 1) /\ right' = (sign' = 2)
      /\ heard = 2 => sign' # 0
      /\ heard # 1 => (sign # 0 => sign' # 0)
  <2>1. left = (sign = 1) /\ right = (sign = 2)
    BY DEF IInv, OneSign
  <2>2. sign \in {0, 1, 2}
    BY DEF IInv, TypeOK
  <2>3. CASE heard = 1 /\ sign > 0
    <3>1. sign' = 0 /\ left' = FALSE /\ right' = FALSE
      BY <2>3, SMT DEF Step, TurnSign
    <3>2. sign' # 1 /\ sign' # 2
      BY <3>1
    <3>3. heard # 2
      BY <2>3
    <3> QED
      BY <3>1, <3>2, <3>3, <2>3, Zenon
  <2>4. CASE heard = 2 /\ sign = 0
    <3>1. left = FALSE /\ right = FALSE
      <4>1. sign # 1 /\ sign # 2
        BY <2>4
      <4> QED
        BY <4>1, <2>1, Zenon
    <3>2. CASE sign' = 1 /\ left' = TRUE /\ right' = right
      <4>1. sign' # 2 /\ sign' # 0
        BY <3>2
      <4> QED
        BY <4>1, <3>1, <3>2, Zenon
    <3>3. CASE sign' = 2 /\ right' = TRUE /\ left' = left
      <4>1. sign' # 1 /\ sign' # 0
        BY <3>3
      <4> QED
        BY <4>1, <3>1, <3>3, Zenon
    <3>4. heard # 1
      BY <2>4
    <3>5. \/ sign' = 1 /\ left' = TRUE /\ right' = right
          \/ sign' = 2 /\ right' = TRUE /\ left' = left
      BY <3>4, <2>4, Zenon DEF Step, TurnSign
    <3> QED
      BY <3>2, <3>3, <3>5, Zenon
  <2>5. CASE ~(heard = 1 /\ sign > 0) /\ ~(heard = 2 /\ sign = 0)
    <3>1. UNCHANGED <<sign, left, right>>
      BY <2>5, Zenon DEF Step, TurnSign
    <3>2. left' = left /\ right' = right /\ sign' = sign
      BY <3>1
    <3>3. left' = (sign' = 1) /\ right' = (sign' = 2)
      <4>1. (sign' = 1) = (sign = 1) /\ (sign' = 2) = (sign = 2)
        BY <3>2, Zenon
      <4> QED
        BY <3>2, <4>1, <2>1
    <3>4. heard = 2 => sign' # 0
      BY <3>2, <2>5, Zenon
    <3>5. sign # 0 => sign' # 0
      BY <3>2, Zenon
    <3> QED
      BY <3>3, <3>4, <3>5, Zenon
  <2> QED
    BY <2>3, <2>4, <2>5
<1>4. /\ car' = 5 => heard # 1 /\ (sign # 0 \/ heard = 2)
      /\ car' = 4 => heard # 1 /\ (sign # 0 \/ heard = 2 \/ heard' = 2)
  BY <1>1 DEF IInv, HeardOnCourse, SignDrawn, OneSign
<1> QED
  BY <1>2, <1>3, <1>4 DEF SignDrawn, OneSign

LEMMA GateStep == IInv /\ Next => GateClock'
<1> SUFFICES ASSUME IInv, Step PROVE GateClock'
  BY DEF Next
<1> DEFINE closes == heard = 3 /\ gate = 0
<1>1. /\ gate_age' = IF closes THEN 0 ELSE Capped(gate_age, GateTime + 1)
      /\ gate' = IF (closes \/ gate = 1) /\ gate_age' <= GateTime THEN 1 ELSE 0
  BY DEF Step, Gate
<1>2. /\ clear' = IF heard = 3 THEN 0 ELSE Capped(clear, GateTime + 2)
      /\ shut' = IF gate' = 1 THEN Capped(shut, GateTime + 2) ELSE 0
  BY DEF Step, Remember
<1>3. /\ gate \in {0, 1} /\ gate_age \in 0 .. GateTime + 1
      /\ clear \in 0 .. GateTime + 2 /\ shut \in 0 .. GateTime + 2
      /\ GateTime \in Nat
  BY Constants DEF IInv, TypeOK
<1>4. CASE closes
  <2>1. shut' = 1 /\ clear' = 0 /\ gate_age' = 0 /\ gate' = 1
    BY <1>1, <1>2, <1>3, <1>4 DEF IInv, GateClock, Capped
  <2> QED
    BY <2>1, <1>3 DEF GateClock
<1>5. CASE gate = 1
  <2>1. gate_age <= GateTime /\ clear <= gate_age /\ shut = gate_age + 1
    BY <1>5 DEF IInv, GateClock
  <2>2. gate_age' = gate_age + 1 /\ clear' <= clear + 1
    BY <1>1, <1>2, <1>3, <1>5, <2>1 DEF Capped
  <2>3. gate' = 1 => shut' = gate_age' + 1
    BY <1>1, <1>2, <1>3, <2>1, <2>2 DEF Capped
  <2>4. clear' <= gate_age'
    BY <1>2, <1>3, <2>1, <2>2 DEF Capped
  <2> QED
    BY <1>1, <1>2, <2>2, <2>3, <2>4 DEF GateClock
<1>6. CASE gate = 0 /\ ~closes
  BY <1>1, <1>2, <1>6 DEF GateClock
<1> QED
  BY <1>3, <1>4, <1>5, <1>6

LEMMA StepIInv == IInv /\ [Next]_vars => IInv'
<1>1. IInv /\ Next => IInv'
  BY TypeStep, JudgementStep, SignStep, GateStep DEF IInv
<1>2. IInv /\ UNCHANGED vars => IInv'
  BY DEF IInv, vars, TypeOK, FalseStartSeen, FinishIsLap, NotPast, StillPast, HeardOnCourse,
         SignDrawn, OneSign, GateClock
<1> QED
  BY <1>1, <1>2

LEMMA Invariance == Spec => []IInv
  BY InitIInv, StepIInv, PTL DEF Spec

-----------------------------------------------------------------------------
(***************************************************************************)
(* The programs of Webots/controllers keep their variables in range.       *)
(***************************************************************************)
THEOREM TypeCorrect == Spec => []TypeOK
<1>1. IInv => TypeOK
  BY DEF IInv
<1> QED
  BY <1>1, Invariance, PTL

(***************************************************************************)
(* A start before green is judged illegal for good (trafficlight.c:91-97), *)
(* however long red and orange last.                                       *)
(***************************************************************************)
THEOREM FalseStartSeenCorrect == Spec => []FalseStartSeen
<1>1. IInv => FalseStartSeen
  BY DEF IInv
<1> QED
  BY <1>1, Invariance, PTL

(***************************************************************************)
(* A car that was past the line when the time was over finishes with a lap *)
(* (trafficlight.c:100-107), for every time of the game.                   *)
(***************************************************************************)
THEOREM FinishIsLapCorrect == Spec => []FinishIsLap
<1>1. IInv => FinishIsLap
  BY DEF IInv
<1> QED
  BY <1>1, Invariance, PTL

(***************************************************************************)
(* The sign shows at most one direction, and one to a car at sensor 3      *)
(* (turnsign.c:26-43).                                                     *)
(***************************************************************************)
THEOREM OneSignCorrect == Spec => []OneSign
<1>1. IInv => OneSign
  BY DEF IInv
<1> QED
  BY <1>1, Invariance, PTL

(***************************************************************************)
(* The gate opens in time and is never kept closed (gate.c:26-40), for     *)
(* every duration.                                                         *)
(***************************************************************************)
THEOREM GateOpensCorrect == Spec => []GateOpens
<1>1. IInv => GateOpens
  BY Constants DEF IInv, TypeOK, GateClock, GateOpens
<1> QED
  BY <1>1, Invariance, PTL
=============================================================================
