-------------------------- MODULE ThroughputProofs ---------------------------
(***************************************************************************)
(* The throughput controller for every gain, set point and range: mv_      *)
(* stays between its bounds, no time is lost between two seconds, and      *)
(* nothing has to be unwound once the average is on the other side of the  *)
(* set point.  The last needs to know how far iterm_ has come: Driven.     *)
(***************************************************************************)
EXTENDS Throughput, TLAPS

(* The time the reports of this second stand for. *)
Counted == carry + since_start - since_read

(* iterm_ has followed all that the gain asked for since the average crossed the
   set point, from the far end of its range if need be.                       *)
Driven ==
  /\ iterm = 0 => owed = 0
  /\ owed > 0 => iterm >= Low + owed
  /\ owed < 0 => iterm <= High + owed

Inv == TypeOK /\ Counted >= 0 /\ TimeAccounted /\ Driven

------------------------------------------------------------------------------
(* The range of the controller in its units. *)
LEMMA Units == Low \in Nat \ {0} /\ High \in Nat /\ Low < High
<1>1. /\ OUT_MIN \in Nat \ {0} /\ OUT_MAX \in Nat \ {0} /\ OUT_MIN < OUT_MAX
      /\ SCALE \in Nat \ {0}
  BY ThroughputAssumption
<1>2. \A a, b \in Nat \ {0} : a * b \in Nat \ {0}
  BY SMT
<1>3. \A a, b, c \in Nat \ {0} : a < b => a * c < b * c
  BY SMT
<1> QED
  BY <1>1, <1>2, <1>3 DEF Low, High

(* What a clamp returns. *)
LEMMA Clamped ==
  ASSUME NEW x \in Int, NEW low \in Int, NEW high \in Int, low <= high
  PROVE  /\ Clamp(x, low, high) \in low .. high
         /\ x <= low => Clamp(x, low, high) = low
         /\ x >= high => Clamp(x, low, high) = high
         /\ x \in low .. high => Clamp(x, low, high) = x
  BY DEF Clamp

(* A clamped output is between the two pauses. *)
LEMMA Frames ==
  ASSUME NEW x \in Low .. High
  PROVE  x \div SCALE \in OUT_MIN .. OUT_MAX
<1>1. \A a \in Nat, s \in Nat \ {0}, y \in Int :
        y >= a * s => y \div s >= a
  BY SMT
<1>2. \A a \in Nat, s \in Nat \ {0}, y \in Int :
        y <= a * s => y \div s <= a
  BY SMT
<1>3. /\ OUT_MIN \in Nat /\ OUT_MAX \in Nat /\ SCALE \in Nat \ {0}
      /\ Low \in Nat /\ High \in Nat /\ x \in Int /\ x \div SCALE \in Int
  <2>1. \A s \in Nat \ {0}, y \in Int : y \div s \in Int
    BY SMT
  <2> QED
    BY ThroughputAssumption, Units, <2>1
<1>4. x \div SCALE >= OUT_MIN /\ x \div SCALE <= OUT_MAX
  BY <1>1, <1>2, <1>3 DEF Low, High
<1> QED
  BY <1>3, <1>4

(* A larger output is a longer pause. *)
LEMMA Longer ==
  ASSUME NEW x \in Int, NEW y \in Int, x <= y
  PROVE  x \div SCALE <= y \div SCALE
<1>1. \A s \in Nat \ {0}, a, b \in Int : a <= b => a \div s <= b \div s
  BY SMT
<1> QED
  BY <1>1, ThroughputAssumption

(* A step of the integral's drive, for iterm_ and for what is owed, keeps what
   Driven says of them.                                                      *)
LEMMA Driving ==
  ASSUME NEW i \in Int, NEW o \in Low - High .. High - Low, NEW step \in Int,
         i = 0 \/ i \in Low .. High,
         i = 0 => o = 0,
         o > 0 => i >= Low + o,
         o < 0 => i <= High + o,
         NEW i2, i2 = Clamp(i + step, Low, High),
         NEW o2, o2 = IF i = 0 THEN 0
                      ELSE Clamp(IF (o > 0 /\ step < 0) \/ (o < 0 /\ step > 0)
                                 THEN step ELSE o + step, Low - High, High - Low)
  PROVE  /\ o2 \in Low - High .. High - Low
         /\ o2 > 0 => i2 >= Low + o2 /\ step >= 0
         /\ o2 < 0 => i2 <= High + o2 /\ step <= 0
         /\ i2 # 0
<1>1. CASE i = 0
  BY <1>1, Units DEF Clamp
<1>2. CASE i # 0 /\ ((o > 0 /\ step < 0) \/ (o < 0 /\ step > 0))
  BY <1>2, Units DEF Clamp
<1>3. CASE i # 0 /\ ~((o > 0 /\ step < 0) \/ (o < 0 /\ step > 0))
  BY <1>3, Units DEF Clamp
<1> QED
  BY <1>1, <1>2, <1>3

------------------------------------------------------------------------------
(* The controller starts with no reports and an iterm_ below its range. *)
LEMMA InitInv == Init => Inv
<1> SUFFICES ASSUME Init PROVE Inv
  OBVIOUS
<1> USE DEF Init
<1>1. 0 \in 0 .. SILENCE /\ 0 \in 0 .. LATE /\ 0 \in 0 .. QMAX
      /\ QMAX \in 0 .. QMAX
  BY ThroughputAssumption
<1>2. TypeOK
  <2>1. 0 \in Low - High .. High - Low
    BY Units
  <2> QED
    BY <1>1, <2>1 DEF TypeOK
<1>3. Counted >= 0 /\ TimeAccounted
  BY ThroughputAssumption DEF Counted, TimeAccounted
<1>4. Driven
  BY DEF Driven
<1> QED
  BY <1>2, <1>3, <1>4 DEF Inv

(* Time passes for the report and for the second alike. *)
LEMMA TickInv == Inv /\ Tick => Inv'
<1> SUFFICES ASSUME Inv, Tick PROVE Inv'
  OBVIOUS
<1> USE DEF Inv, Tick, controller, history
<1>1. TypeOK'
  BY ThroughputAssumption DEF TypeOK
<1>2. Counted' = Counted
  BY DEF Counted, TypeOK
<1>3. TimeAccounted'
  BY <1>2 DEF TimeAccounted, Counted
<1> QED
  BY <1>1, <1>2, <1>3 DEF Driven

(* A report is weighed with the time since the one before it. *)
LEMMA OnReadInv ==
  ASSUME NEW resp \in 0 .. QMAX
  PROVE  Inv /\ OnRead(resp) => Inv'
<1> SUFFICES ASSUME Inv, OnRead(resp) PROVE Inv'
  OBVIOUS
<1> USE DEF Inv, OnRead, controller
<1>1. /\ resp \in Nat /\ since_read \in Nat /\ Counted \in Nat /\ sum \in Nat
      /\ least \in 0 .. QMAX /\ most \in 0 .. QMAX /\ QMAX \in Nat
      /\ since_read' = 0 /\ sum' = sum + resp * since_read
  BY ThroughputAssumption DEF TypeOK, Counted
<1>2. /\ least' \in 0 .. QMAX /\ least' <= least /\ least' <= resp
      /\ most' \in 0 .. QMAX /\ most' >= most /\ most' >= resp
  BY <1>1 DEF Clamp
<1>3. Counted' = Counted + since_read
  BY <1>1 DEF Counted, TypeOK
<1>4. sum' \in Nat
  <2>1. \A a, b \in Nat : a * b \in Nat
    BY SMT
  <2> QED
    BY <1>1, <2>1
<1>5. TypeOK'
  <2>1. 0 \in 0 .. SILENCE
    BY <1>1, ThroughputAssumption
  <2>2. UNCHANGED <<since_start, iterm, last_input, mv, carry, owed>>
    BY DEF OnRead
  <2> QED
    BY <1>1, <1>2, <1>4, <2>1, <2>2 DEF TypeOK
<1>6. TimeAccounted'
  <2>1. least * Counted <= sum /\ sum <= most * Counted
    BY DEF TimeAccounted, Counted
  <2>2. \A a, b, c \in Nat : a <= b => a * c <= b * c
    BY SMT
  <2>3. \A a, c, d \in Nat : a * (c + d) = a * c + a * d
    BY SMT
  <2>4. \A a, b \in Nat : a * b \in Nat
    BY SMT
  <2>5. least' * Counted <= sum /\ least' * since_read <= resp * since_read
    <3>1. least' * Counted <= least * Counted
      BY <1>1, <1>2, <2>2
    <3>2. least' * since_read <= resp * since_read
      BY <1>1, <1>2, <2>2
    <3> QED
      BY <1>1, <1>2, <2>1, <2>4, <3>1, <3>2
  <2>6. sum <= most' * Counted /\ resp * since_read <= most' * since_read
    <3>1. most * Counted <= most' * Counted
      BY <1>1, <1>2, <2>2
    <3>2. resp * since_read <= most' * since_read
      BY <1>1, <1>2, <2>2
    <3> QED
      BY <1>1, <1>2, <2>1, <2>4, <3>1, <3>2
  <2>7. least' * Counted' <= sum' /\ sum' <= most' * Counted'
    <3>1. /\ least' * Counted' = least' * Counted + least' * since_read
          /\ most' * Counted' = most' * Counted + most' * since_read
      BY <1>1, <1>2, <1>3, <2>3
    <3>2. /\ least' * Counted \in Nat /\ least' * since_read \in Nat
          /\ most' * Counted \in Nat /\ most' * since_read \in Nat
          /\ resp * since_read \in Nat
      BY <1>1, <1>2, <2>4
    <3> QED
      BY <1>1, <2>5, <2>6, <3>1, <3>2
  <2> QED
    BY <2>7 DEF TimeAccounted, Counted
<1>7. Driven'
  BY DEF Driven
<1> QED
  BY <1>1, <1>3, <1>5, <1>6, <1>7

(* What compute makes of an average: its three results, what they owe, and that
   they are in range.                                                        *)
LEMMA Computed ==
  ASSUME Inv, OnPidTimer
  PROVE  \E avg \in Nat :
           /\ iterm' = ITerm(avg) /\ last_input' = avg /\ owed' = Owed(avg)
           /\ mv' = Output(avg) \div SCALE
           /\ ITerm(avg) \in Low .. High /\ Output(avg) \in Low .. High
           /\ Error(avg) \in Int /\ KI * Error(avg) \in Int
           /\ KP * Error(avg) \in Int /\ KD * (avg - last_input) \in Int
           /\ iterm \in Int /\ last_input \in Nat
<1> DEFINE avg == (sum * SCALE) \div since_start
<1>1. /\ KP \in Int /\ KI \in Int /\ KD \in Int /\ SP \in Nat
      /\ SCALE \in Nat \ {0} /\ SECOND \in Nat \ {0}
  BY ThroughputAssumption
<1>2. /\ sum \in Nat /\ since_start \in Nat \ {0} /\ iterm \in Int
      /\ last_input \in Nat
  BY <1>1, Units DEF Inv, TypeOK, OnPidTimer
<1>3. \A a, b \in Int : a * b \in Int
  BY SMT
<1>4. avg \in Nat
  <2>1. \A a \in Nat, b \in Nat \ {0} : a \div b \in Nat
    BY SMT
  <2>2. sum * SCALE \in Nat
    BY <1>1, <1>2, SMT
  <2> QED
    BY <1>2, <2>1, <2>2
<1>5. /\ iterm' = ITerm(avg) /\ last_input' = avg /\ owed' = Owed(avg)
      /\ mv' = Output(avg) \div SCALE
  BY DEF OnPidTimer
<1> HIDE DEF avg
<1>6. SP * SCALE \in Int
  BY <1>1, <1>3
<1>7. Error(avg) \in Int
  BY <1>4, <1>6 DEF Error
<1>8. /\ KI * Error(avg) \in Int /\ KP * Error(avg) \in Int
      /\ KD * (avg - last_input) \in Int
  BY <1>1, <1>2, <1>3, <1>4, <1>7
<1>9. ITerm(avg) \in Low .. High
  <2>1. ITerm(avg) = Clamp(iterm + KI * Error(avg), Low, High)
    BY DEF ITerm
  <2>2. iterm + KI * Error(avg) \in Int
    BY <1>2, <1>8
  <2> QED
    BY <2>1, <2>2, Clamped, Units
<1>10. Output(avg) \in Low .. High
  <2> DEFINE x == KP * Error(avg) + ITerm(avg) - KD * (avg - last_input)
  <2>1. Output(avg) = Clamp(x, Low, High)
    BY DEF Output
  <2>2. x \in Int
    BY <1>8, <1>9, Units
  <2> HIDE DEF x
  <2> QED
    BY <2>1, <2>2, Clamped, Units
<1> QED
  BY <1>2, <1>4, <1>5, <1>7, <1>8, <1>9, <1>10

(* The integral's drive and what is owed go together. *)
LEMMA Follows ==
  ASSUME Inv, NEW avg \in Nat, KI * Error(avg) \in Int
  PROVE  /\ Owed(avg) \in Low - High .. High - Low
         /\ Owed(avg) > 0 => ITerm(avg) >= Low + Owed(avg) /\ KI * Error(avg) >= 0
         /\ Owed(avg) < 0 => ITerm(avg) <= High + Owed(avg) /\ KI * Error(avg) <= 0
         /\ ITerm(avg) # 0
<1> DEFINE step == KI * Error(avg)
<1>1. step \in Int
  OBVIOUS
<1>2. /\ iterm \in Int /\ owed \in Low - High .. High - Low
      /\ iterm = 0 \/ iterm \in Low .. High
  BY Units DEF Inv, TypeOK
<1>3. /\ iterm = 0 => owed = 0
      /\ owed > 0 => iterm >= Low + owed
      /\ owed < 0 => iterm <= High + owed
  BY DEF Inv, Driven
<1>4. ITerm(avg) = Clamp(iterm + step, Low, High)
  BY DEF ITerm
<1>5. Owed(avg) = IF iterm = 0 THEN 0
                  ELSE Clamp(IF (owed > 0 /\ step < 0) \/ (owed < 0 /\ step > 0)
                             THEN step ELSE owed + step, Low - High, High - Low)
  BY DEF Owed
<1> HIDE DEF step
<1>6. /\ Owed(avg) \in Low - High .. High - Low
      /\ Owed(avg) > 0 => ITerm(avg) >= Low + Owed(avg) /\ step >= 0
      /\ Owed(avg) < 0 => ITerm(avg) <= High + Owed(avg) /\ step <= 0
      /\ ITerm(avg) # 0
  BY <1>1, <1>2, <1>3, <1>4, <1>5, Driving
<1> QED
  BY <1>6 DEF step

(* A second ends: compute drives iterm_ on, and the next second starts with the
   time since the last report on its account.                                *)
LEMMA OnPidTimerInv == Inv /\ OnPidTimer => Inv'
<1> SUFFICES ASSUME Inv, OnPidTimer PROVE Inv'
  OBVIOUS
<1>1. PICK avg \in Nat :
        /\ iterm' = ITerm(avg) /\ last_input' = avg /\ owed' = Owed(avg)
        /\ mv' = Output(avg) \div SCALE
        /\ ITerm(avg) \in Low .. High /\ Output(avg) \in Low .. High
        /\ KI * Error(avg) \in Int
  BY Computed
<1>2. /\ sum' = 0 /\ since_start' = 0 /\ since_read' = since_read
      /\ carry' = since_read /\ least' = QMAX /\ most' = 0
  BY DEF OnPidTimer, ReadAfterTimer
<1>3. TypeOK'
  <2>1. mv' \in OUT_MIN .. OUT_MAX
    BY <1>1, Frames
  <2>2. iterm' \in Low .. High /\ owed' \in Low - High .. High - Low
    BY <1>1, Follows
  <2>3. /\ since_read' \in 0 .. SILENCE /\ carry' \in 0 .. SILENCE
        /\ since_start' \in 0 .. LATE /\ sum' \in Nat /\ last_input' \in Nat
        /\ least' \in 0 .. QMAX /\ most' \in 0 .. QMAX
    BY <1>1, <1>2, ThroughputAssumption DEF Inv, TypeOK
  <2> QED
    BY <2>1, <2>2, <2>3, Zenon DEF TypeOK, Low, High
<1>4. Counted' = 0 /\ TimeAccounted'
  BY <1>2, ThroughputAssumption DEF Counted, TimeAccounted, Inv, TypeOK
<1>5. Driven'
  BY <1>1, Follows, Zenon DEF Driven, Low, High
<1> QED
  BY <1>3, <1>4, <1>5 DEF Inv

(* Every step of the client preserves the invariant. *)
LEMMA NextInv == Inv /\ [Next]_vars => Inv'
<1>1. Inv /\ UNCHANGED vars => Inv'
  BY DEF Inv, TypeOK, Counted, TimeAccounted, Driven, vars,
         reports, controller, history
<1> QED
  BY <1>1, TickInv, OnReadInv, OnPidTimerInv DEF Next

(* The invariant the theorems below rest on holds in every behaviour. *)
THEOREM Invariance == Spec => []Inv
  BY InitInv, NextInv, PTL DEF Spec

------------------------------------------------------------------------------
(* Whatever BlueZ reports and however late the timer fires, the pause before the
   next frame stays between its bounds.                                      *)
THEOREM TypeCorrect == Spec => []TypeOK
<1>1. Inv => TypeOK
  BY DEF Inv
<1> QED
  BY <1>1, Invariance, PTL

(* on_read_ and on_pid_timer_ weigh every report with its time, across the
   seconds: none is lost or counted twice.                                   *)
THEOREM NoTimeLost == Spec => []TimeAccounted
<1>1. Inv => TimeAccounted
  BY DEF Inv
<1> QED
  BY <1>1, Invariance, PTL

(* An error above the set point drives the other two terms up as well, and one
   below it down, as long as the average goes on in that direction.           *)
LEMMA OtherTerms ==
  ASSUME NEW error \in Int, NEW rise \in Int,
         KI * error \in Int, KP * error \in Int, KD * rise \in Int
  PROVE  /\ KI * error >= 0 => KP * error >= 0
         /\ KI * error <= 0 => KP * error <= 0
         /\ rise >= 0 => KD * rise <= 0
         /\ rise <= 0 => KD * rise >= 0
<1>1. \A gain, x \in Int :
        /\ gain < 0 /\ x >= 0 => gain * x <= 0
        /\ gain < 0 /\ x <= 0 => gain * x >= 0
        /\ gain < 0 /\ x > 0 => gain * x < 0
        /\ gain < 0 /\ x < 0 => gain * x > 0
  BY SMT
<1>2. /\ KI \in Int /\ KI < 0 /\ KP \in Int /\ KP < 0 /\ KD \in Int /\ KD < 0
  BY ThroughputAssumption
<1> QED
  BY <1>1, <1>2

(* compute's clamps leave nothing to unwind: mv_ follows the integral gain from
   the first second on the other side of the set point, whatever went before. *)
THEOREM NothingToUnwind == Spec => NoWindUp
<1> DEFINE Reacts ==
      /\ owed' > 0 /\ last_input' >= last_input => mv' >= (Low + owed') \div SCALE
      /\ owed' < 0 /\ last_input' <= last_input => mv' <= (High + owed') \div SCALE
<1>1. ASSUME Inv, OnPidTimer PROVE Reacts
  <2>1. PICK avg \in Nat :
          /\ last_input' = avg /\ owed' = Owed(avg)
          /\ mv' = Output(avg) \div SCALE
          /\ ITerm(avg) \in Low .. High /\ Output(avg) \in Low .. High
          /\ Error(avg) \in Int /\ KI * Error(avg) \in Int
          /\ KP * Error(avg) \in Int /\ KD * (avg - last_input) \in Int
          /\ last_input \in Nat
    BY <1>1, Computed
  <2> DEFINE p == KP * Error(avg)
             d == KD * (avg - last_input)
             out == Output(avg)
             due == Owed(avg)
             integral == ITerm(avg)
  <2>2. /\ due \in Low - High .. High - Low
        /\ due > 0 => integral >= Low + due /\ KI * Error(avg) >= 0
        /\ due < 0 => integral <= High + due /\ KI * Error(avg) <= 0
    BY <1>1, <2>1, Follows
  <2>3. /\ KI * Error(avg) >= 0 => p >= 0
        /\ KI * Error(avg) <= 0 => p <= 0
        /\ avg >= last_input => d <= 0
        /\ avg <= last_input => d >= 0
    BY <2>1, OtherTerms
  <2>4. out = Clamp(p + integral - d, Low, High)
    BY DEF Output
  <2>5. p \in Int /\ d \in Int /\ out \in Int /\ integral \in Int /\ mv' = out \div SCALE
        /\ last_input' = avg /\ owed' = due
    BY <2>1, Units
  <2> HIDE DEF p, d, out, due, integral
  <2>6. ASSUME due > 0, avg >= last_input PROVE Low + due <= out
    BY <2>2, <2>3, <2>4, <2>5, <2>6, Units DEF Clamp
  <2>7. ASSUME due < 0, avg <= last_input PROVE out <= High + due
    BY <2>2, <2>3, <2>4, <2>5, <2>7, Units DEF Clamp
  <2>8. Low + due \in Int /\ High + due \in Int
    BY <2>2, Units
  <2>9. ASSUME due > 0, avg >= last_input
        PROVE  (Low + due) \div SCALE <= out \div SCALE
    BY <2>5, <2>6, <2>8, <2>9, Longer
  <2>10. ASSUME due < 0, avg <= last_input
         PROVE  out \div SCALE <= (High + due) \div SCALE
    BY <2>5, <2>7, <2>8, <2>10, Longer
  <2> QED
    BY <2>5, <2>9, <2>10, Frames
<1>2. ASSUME Inv, [Next]_vars PROVE [Reacts]_<<controller, owed>>
  <2>1. CASE OnPidTimer
    BY <1>1, <1>2, <2>1
  <2>2. CASE Tick \/ (\E resp \in 0 .. QMAX : OnRead(resp)) \/ UNCHANGED vars
    <3>1. UNCHANGED <<controller, owed>>
      BY <2>2 DEF Tick, OnRead, vars, history
    <3> QED
      BY <3>1
  <2> QED
    BY <1>2, <2>1, <2>2 DEF Next
<1> QED
  BY <1>2, Invariance, PTL DEF Spec, NoWindUp
==============================================================================
