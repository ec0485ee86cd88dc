------------------------------- MODULE Watch --------------------------------
(***************************************************************************)
(* `netinspect --watch` (src/main.rs): frames drawn one after the other,   *)
(* what is carried from one to the next, the wait between them, and the    *)
(* interrupt, which a signal handler only leaves as a flag.  Time is       *)
(* counted in ticks; the program dates its answers in whole seconds.       *)
(***************************************************************************)
EXTENDS Integers

CONSTANTS
  Routes,     \* the routes out the machine can have
  Interval,   \* --watch SECS, in ticks
  Slice,      \* SLICE of `wait`, in ticks
  Second,     \* ticks to a second
  FrameTime,  \* bound: the longest it takes to collect and measure, in ticks
  Lag,        \* bound: how much a sleep overshoots, in ticks
  TTL,        \* TTL_SECONDS
  MaxAge      \* bound: ages are counted up to here

ASSUME WatchAssumption ==
  /\ Second \in Nat \ {0} /\ Slice \in Nat \ {0}
  /\ Interval \in Nat /\ Interval >= Second  \* cli.rs clamps SECS to 1..3600
  /\ FrameTime \in Nat /\ Lag \in Nat
  /\ TTL \in Nat \ {0} /\ MaxAge \in Nat /\ MaxAge > TTL
  /\ "none" \notin Routes

VARIABLES
  route,        \* the route out the machine has
  phase,        \* ticks into the current second
  file,         \* the route and the age of the answer in geo.json
  looks,        \* whether this watch measures, and may look itself up
  pc,           \* where the loop is
  ran,          \* ticks since the frame's collection began
  frame,        \* the frame being made
  carried,      \* Carried: what survives from one frame to the next
  left,         \* ticks to the deadline of `wait`
  nap,          \* ticks left to sleep
  interrupted,  \* the flag the handler sets
  waited,       \* history: ticks since it was set
  cursor,       \* the terminal's cursor
  screen,       \* the heading on screen
  stay          \* history: the lookups made since the route last looked new

loop == <<ran, frame, carried, left, nap>>
vars == <<route, phase, file, looks, pc, loop, interrupted, waited, cursor, screen, stay>>

\* An answer: the route it was asked for, and how long ago it was seen.
Answer == [route : Routes \cup {"none"}, seen : 0..MaxAge]
NoAnswer == [route |-> "none", seen |-> 0]

Known(answer) == answer.route # "none"

Least(a, b) == IF a < b THEN a ELSE b
Greatest(a, b) == IF a < b THEN b ELSE a

-----------------------------------------------------------------------------
Init ==
  /\ route \in Routes
  /\ phase \in 0..(Second - 1)
  /\ file \in {NoAnswer} \cup [route : Routes, seen : {0, TTL - 1, TTL}]
  /\ looks \in [probes : BOOLEAN, lookup : BOOLEAN]
  /\ pc = "start"
  /\ ran = 0
  /\ frame = [fingerprint |-> "none", source |-> "nowhere", answer |-> NoAnswer]
  /\ carried = [fingerprint |-> "none", public |-> NoAnswer, age |-> 0]
  /\ left = 0 /\ nap = 0
  /\ interrupted = FALSE /\ waited = 0
  /\ cursor = "visible"
  /\ screen = [fingerprint |-> "none", public |-> NoAnswer, age |-> 0]
  /\ stay = [fingerprint |-> "none", lookups |-> 0]

Goto(from, to) == pc = from /\ pc' = to

World == <<route, phase, file, looks>>
Signal == <<interrupted, waited>>
Terminal == <<cursor, screen>>

\* The handler is in place before anything is written.
Start ==
  /\ Goto("start", "collect")
  /\ UNCHANGED <<World, loop, Signal, Terminal, stay>>

-----------------------------------------------------------------------------
(* One frame.                                                              *)

\* platform.interfaces(): the fingerprint of the whole frame.
Collect ==
  /\ Goto("collect", "collected")
  /\ ran' = 0
  /\ frame' = [fingerprint |-> route, source |-> "nowhere", answer |-> NoAnswer]
  /\ stay' = IF stay.fingerprint = route THEN stay
               ELSE [fingerprint |-> route, lookups |-> 0]
  /\ UNCHANGED <<World, carried, left, nap, Signal, Terminal>>

RouteChanged == carried.fingerprint # frame.fingerprint

\* `measure` may look up only on a new route, and first tries the file.
Source ==
  IF ~looks.probes \/ ~looks.lookup \/ ~RouteChanged THEN "nowhere"
  ELSE IF file.route = frame.fingerprint /\ file.seen < TTL THEN "file"
  ELSE "provider"

Measure ==
  /\ Goto("collected", "measuring")
  /\ frame' = [frame EXCEPT !.source = Source,
                            !.answer = IF Source = "file" THEN file ELSE NoAnswer]
  /\ stay' = IF Source = "provider" THEN [stay EXCEPT !.lookups = @ + 1] ELSE stay
  /\ UNCHANGED <<World, ran, carried, left, nap, Signal, Terminal>>

\* The provider answers; the answer is kept for the route the frame found, and
\* dated in geo.json by the start of the measurement.
LookupAnswered ==
  /\ pc = "measuring" /\ frame.source = "provider" /\ ~Known(frame.answer)
  /\ frame' = [frame EXCEPT !.answer.route = frame.fingerprint]
  /\ UNCHANGED <<World, pc, ran, carried, left, nap, Signal, Terminal, stay>>

Carry_FingerprintWithAnswer(answer) ==
  carried' = IF Known(answer)
    THEN [fingerprint |-> frame.fingerprint, public |-> answer, age |-> 0]
    ELSE carried

\* An answer is dated by the frame that brought it; the route is taken over
\* with or without one.
Carry(answer) ==
  carried' = IF Known(answer)
    THEN [fingerprint |-> frame.fingerprint, public |-> answer, age |-> 0]
    ELSE [carried EXCEPT !.fingerprint = frame.fingerprint]

\* The ladder ends; a lookup is dropped when it does not say online.
FrameMade ==
  /\ Goto("measuring", "draw")
  /\ \E answer \in {NoAnswer, frame.answer} :
       /\ frame.source = "file" => answer = frame.answer
       /\ Carry(answer)
       /\ file' = IF Known(answer)
            THEN [route |-> frame.fingerprint, seen |-> Least(TTL, answer.seen)]
            ELSE file
  /\ UNCHANGED <<route, phase, looks, ran, frame, left, nap, Signal, Terminal, stay>>

\* "age" is 0 where the heading says none: an answer of this very second.
AgeShown_OffByOne == IF carried.age > 1 THEN carried.age ELSE 0

AgeShown == IF carried.age >= 1 THEN carried.age ELSE 0

\* The first flush also carries the sequence that hides the cursor.
Draw ==
  /\ Goto("draw", "check")
  /\ cursor' = "hidden"
  /\ screen' = [fingerprint |-> frame.fingerprint, public |-> carried.public,
                age |-> AgeShown]
  /\ left' = Interval
  /\ UNCHANGED <<World, ran, frame, carried, nap, Signal, stay>>

FrameFails_Returns ==
  /\ pc \in {"collect", "collected", "measuring", "draw"}
  /\ pc' = "gone"
  /\ UNCHANGED <<World, loop, Signal, Terminal, stay>>

\* Collecting, building the client or writing to the terminal fails.
FrameFails ==
  /\ pc \in {"collect", "collected", "measuring", "draw"}
  /\ pc' = "restore"
  /\ UNCHANGED <<World, loop, Signal, Terminal, stay>>

-----------------------------------------------------------------------------
(* `wait`, and the way out.                                                *)

Sleep ==
  /\ left > 0 /\ ~interrupted
  /\ Goto("check", "asleep")
  /\ nap' = Least(Slice, left)
  /\ UNCHANGED <<World, ran, frame, carried, left, Signal, Terminal, stay>>

Wake ==
  /\ nap <= 0
  /\ Goto("asleep", "check")
  /\ UNCHANGED <<World, loop, Signal, Terminal, stay>>

Again_NoLastLook ==
  /\ left <= 0
  /\ Goto("check", "collect")
  /\ UNCHANGED <<World, loop, Signal, Terminal, stay>>

Again_ExactDeadline ==
  /\ left = 0 /\ ~interrupted
  /\ Goto("check", "collect")
  /\ UNCHANGED <<World, loop, Signal, Terminal, stay>>

Again ==
  /\ left <= 0 /\ ~interrupted
  /\ Goto("check", "collect")
  /\ UNCHANGED <<World, loop, Signal, Terminal, stay>>

Stop ==
  /\ interrupted
  /\ Goto("check", "restore")
  /\ UNCHANGED <<World, loop, Signal, Terminal, stay>>

Restore ==
  /\ Goto("restore", "gone")
  /\ cursor' = "visible"
  /\ UNCHANGED <<World, loop, Signal, screen, stay>>

-----------------------------------------------------------------------------
(* The user, the machine and the clock.                                    *)

\* Before the handler is installed a signal simply ends the process.
Interrupt ==
  /\ pc # "gone" /\ ~interrupted
  /\ IF pc = "start" THEN pc' = "gone" /\ UNCHANGED interrupted
                     ELSE interrupted' = TRUE /\ UNCHANGED pc
  /\ UNCHANGED <<World, loop, waited, Terminal, stay>>

Roam ==
  /\ pc # "gone"
  /\ route' \in Routes \ {route}
  /\ UNCHANGED <<phase, file, looks, pc, loop, Signal, Terminal, stay>>

Older(age) == Least(MaxAge, age + 1)

Aged(answer) ==
  IF Known(answer) THEN [answer EXCEPT !.seen = Older(@)] ELSE answer

Tick ==
  /\ \/ pc \in {"collected", "measuring"} /\ ran < FrameTime
        /\ ran' = ran + 1 /\ UNCHANGED <<left, nap>>
     \/ pc = "asleep" /\ nap > -Lag
        /\ nap' = nap - 1 /\ left' = left - 1 /\ UNCHANGED ran
  /\ phase' = (phase + 1) % Second
  /\ waited' = IF interrupted THEN waited + 1 ELSE waited
  /\ IF phase' = 0
       THEN /\ file' = [file EXCEPT !.seen = Least(TTL, Aged(file).seen)]
            /\ frame' = IF frame.source = "nowhere" \/ pc = "asleep" THEN frame
                          ELSE [frame EXCEPT !.answer.seen = Older(@)]
            /\ carried' = IF Known(carried.public)
                 THEN [carried EXCEPT !.public.seen = Older(@), !.age = Older(@)]
                 ELSE carried
       ELSE UNCHANGED <<file, frame, carried>>
  /\ UNCHANGED <<route, looks, pc, interrupted, Terminal, stay>>

-----------------------------------------------------------------------------
Step ==
  \/ Start \/ Collect \/ Measure \/ FrameMade \/ Draw
  \/ Sleep \/ Wake \/ Again \/ Stop \/ Restore

Next == Step \/ FrameFails \/ LookupAnswered \/ Interrupt \/ Roam \/ Tick

\* The loop goes on, sleeps end and measurements are bounded; whether a lookup
\* is answered, or the user ever interrupts, is left open.
Spec == Init /\ [][Next]_vars /\ WF_vars(Step) /\ WF_vars(Tick)

-----------------------------------------------------------------------------
(* Properties.                                                             *)

TypeOK ==
  /\ route \in Routes /\ phase \in 0..(Second - 1)
  /\ file \in [route : Routes \cup {"none"}, seen : 0..TTL]
  /\ pc \in {"start", "collect", "collected", "measuring", "draw", "check",
             "asleep", "restore", "gone"}
  /\ ran \in 0..FrameTime
  /\ frame \in [fingerprint : Routes \cup {"none"},
                source : {"nowhere", "file", "provider"}, answer : Answer]
  /\ carried \in [fingerprint : Routes \cup {"none"}, public : Answer, age : 0..MaxAge]
  /\ left \in -Lag..Interval /\ nap \in -Lag..Slice
  /\ interrupted \in BOOLEAN /\ waited \in Nat
  /\ cursor \in {"visible", "hidden"}
  /\ screen \in [fingerprint : Routes \cup {"none"}, public : Answer, age : 0..MaxAge]

\* An interrupt is answered before the next frame is begun, after what is left
\* of the frame being made, or of the slice being slept.
InterruptAnswered ==
  pc # "gone" => waited <= Greatest(FrameTime, Slice + Lag)

\* However the loop ends, the cursor is given back.
CursorGivenBack == pc = "gone" => cursor = "visible"

\* A route that stays is asked about once, whatever became of the lookup: the
\* provider is not asked again with every frame.
OneLookupPerStay == stay.lookups <= 1

AgeNeverOverstated ==
  pc = "check" /\ left = Interval => screen.age <= carried.public.seen

StaleIsDated ==
  Known(screen.public) /\ screen.public.route # screen.fingerprint =>
    screen.age >= 1

\* The heading never makes an address older than it is, and never passes off
\* one that was asked for on another route as one of this frame: it dates it.
HeadingIsHonest == AgeNeverOverstated /\ StaleIsDated

\* A watch that is interrupted ends, and one that is not goes on drawing, even
\* if every sleep overshoots its deadline.
Responsive ==
  /\ interrupted ~> pc = "gone"
  /\ []<>(pc \in {"draw", "restore", "gone"})

=============================================================================
