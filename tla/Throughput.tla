----------------------------- MODULE Throughput -----------------------------
(***************************************************************************)
(* The throughput controller: how the client chooses mv_, its pause        *)
(* between the last packet of a frame and the next frame                   *)
(* (client/transport.cpp, client/pid_controller.hpp).  BlueZ reports the   *)
(* length of its queue after each write (patches/bluez.patch); once a      *)
(* second, or later when the io_context is busy, the reports are averaged  *)
(* over time and a PID controller turns the average into mv_.              *)
(*                                                                         *)
(* Time is in ticks.  The floating point numbers are integers in units of  *)
(* 1/SCALE, which makes the averages exact; rounding is left out.          *)
(***************************************************************************)
EXTENDS Integers

CONSTANTS
  SP, KP, KI, KD,      \* client.py: set point, and the gains with their signs
  OUT_MIN, OUT_MAX,    \* the controller's range: a 35th and half of a second
  SCALE,
  SECOND,              \* ticks of the timer's second
  LATE,                \* bound: ticks after which the timer has surely fired
  SILENCE,             \* bound: ticks between two reports
  QMAX                 \* bound: the length reported

ASSUME ThroughputAssumption ==
  /\ {SP, OUT_MIN, OUT_MAX, SCALE, SECOND, LATE, SILENCE, QMAX} \subseteq Nat \ {0}
  /\ OUT_MIN < OUT_MAX /\ SECOND <= LATE
  /\ \A gain \in {KP, KI, KD} : gain \in Int /\ gain < 0
  /\ \A ticks \in SECOND .. LATE : SCALE % ticks = 0

VARIABLES
  since_read,          \* now - rlast_
  since_start,         \* now - rstart_
  sum,                 \* avg_ before it is divided
  iterm, last_input,   \* of the controller
  mv,
  carry, least, most,  \* history: since_read when the second began, and the
                       \* reports of the second
  owed                 \* history: see Owed

reports    == <<since_read, since_start, sum>>
controller == <<iterm, last_input, mv>>
history    == <<carry, least, most, owed>>
vars       == <<reports, controller, history>>

Clamp(x, low, high) == IF x < low THEN low ELSE IF x > high THEN high ELSE x

Low  == OUT_MIN * SCALE              \* out_min_ and out_max_ in the units of
High == OUT_MAX * SCALE              \* the averages

------------------------------------------------------------------------------
(* pid_controller_t::compute *)

Error(input) == SP * SCALE - input

ITerm_unclamped(input) == iterm + KI * Error(input)
ITerm(input) == Clamp(iterm + KI * Error(input), Low, High)

Output_unclamped(input) ==
  KP * Error(input) + ITerm(input) - KD * (input - last_input)
Output(input) ==
  Clamp(KP * Error(input) + ITerm(input) - KD * (input - last_input), Low, High)

(* History: what the integral gain has asked for since the average last went from
   one side of the set point to the other, up to the whole range.  The very first
   second does not count, it lifts iterm_ from 0 into the range.               *)
Owed(input) ==
  LET step   == KI * Error(input)
      turned == (owed > 0 /\ step < 0) \/ (owed < 0 /\ step > 0)
  IN  IF iterm = 0 THEN 0
      ELSE Clamp(IF turned THEN step ELSE owed + step, Low - High, High - Low)

------------------------------------------------------------------------------
(* The transport's handlers *)

Tick ==
  /\ since_read < SILENCE /\ since_start < LATE
  /\ since_read' = since_read + 1
  /\ since_start' = since_start + 1
  /\ UNCHANGED <<sum, controller, history>>

(* on_read_: a report counts for the time since the one before it. *)
OnRead(resp) ==
  /\ sum' = sum + resp * since_read
  /\ since_read' = 0
  /\ least' = Clamp(resp, 0, least)
  /\ most' = Clamp(resp, most, QMAX)
  /\ UNCHANGED <<since_start, controller, carry, owed>>

(* on_pid_timer_ starts a new second; the last report keeps its time. *)
ReadAfterTimer_restarted == 0
ReadAfterTimer == since_read

OnPidTimer ==
  /\ since_start >= SECOND
  /\ LET avg == (sum * SCALE) \div since_start IN
       /\ mv' = Output(avg) \div SCALE
       /\ iterm' = ITerm(avg)
       /\ last_input' = avg
       /\ owed' = Owed(avg)
  /\ sum' = 0
  /\ since_start' = 0
  /\ since_read' = ReadAfterTimer
  /\ carry' = since_read
  /\ least' = QMAX /\ most' = 0

Init ==                \* initial_fps is clamped to 2 .. 35
  /\ since_read = 0 /\ since_start = 0 /\ sum = 0
  /\ iterm = 0 /\ last_input = 0
  /\ mv \in OUT_MIN .. OUT_MAX
  /\ carry = 0 /\ least = QMAX /\ most = 0 /\ owed = 0

Next == Tick \/ OnPidTimer \/ \E resp \in 0 .. QMAX : OnRead(resp)

Spec == Init /\ [][Next]_vars

------------------------------------------------------------------------------
(* Properties *)

(* Every variable keeps its range; mv's is the point: whatever is reported, and
   however late, the client pauses a 35th to half of a second after a frame.  So
   it sends 35 frames a second at most; how few, the writes have a say in.    *)
TypeOK ==
  /\ since_read \in 0 .. SILENCE /\ since_start \in 0 .. LATE
  /\ sum \in Nat /\ last_input \in Nat
  /\ iterm = 0 \/ iterm \in Low .. High
  /\ mv \in OUT_MIN .. OUT_MAX
  /\ carry \in 0 .. SILENCE /\ owed \in Low - High .. High - Low
  /\ least \in 0 .. QMAX /\ most \in 0 .. QMAX

(* No time is lost between two seconds and none is counted twice: the sum is a
   mean of the reports of a second over the time from the last report before it
   to its own last one.  A silence of the radio is made up for by the report
   after it.                                                                  *)
TimeAccounted ==
  LET counted == carry + since_start - since_read
  IN  least * counted <= sum /\ sum <= most * counted

(* No wind-up: however long the queue has been empty before, and however fast the
   client has become, there is nothing to unwind.  From the first second above the
   set point every packet-second above it lengthens the pause: unless the queue is
   shrinking already, mv_ is at least the shortest pause and all that the integral
   gain has asked for since the average crossed the set point.  After a full queue
   the same holds of the seconds below the set point and the longest pause.      *)
NoWindUp ==
  [][ /\ owed' > 0 /\ last_input' >= last_input => mv' >= (Low + owed') \div SCALE
      /\ owed' < 0 /\ last_input' <= last_input => mv' <= (High + owed') \div SCALE
    ]_<<controller, owed>>
==============================================================================
