---------------------------- MODULE ScreenProofs ----------------------------
(***************************************************************************)
(* What is on the screen: what a watch keeps true for every interval,      *)
(* slice and length of a frame whatever the routes, the lookups and the    *)
(* user do, how the two tables are laid out, whatever is in them and       *)
(* however wide the terminal is, and what a line of a report is.           *)
(***************************************************************************)
EXTENDS Watch, Pages, FiniteSetTheorems, SequenceTheorems, WellFoundedInduction, TLAPS

Bound == Greatest(FrameTime, Slice + Lag)

Types ==
  /\ TypeOK
  /\ stay \in [fingerprint : Routes \cup {"none"}, lookups : Nat]
  /\ pc = "asleep" => left >= nap

\* The flag is polled when a frame is over and when a slice is: what has passed
\* since it was set is at most what the frame, or the sleep, has taken so far.
Heeded ==
  /\ ~interrupted => waited = 0
  /\ pc = "start" => ~interrupted
  /\ pc \in {"start", "collect"} => waited = 0
  /\ pc \in {"collected", "measuring"} => waited <= ran
  /\ pc \in {"draw", "check", "restore"} => waited <= Bound
  /\ pc = "asleep" => waited <= Slice - nap

Visible == pc \in {"start", "gone"} => cursor = "visible"

\* A lookup is followed by carrying its route on, answered or not.
Asked ==
  /\ pc \in {"collected", "measuring"} => stay.fingerprint = frame.fingerprint
  /\ pc = "measuring" => stay.lookups <= 1
  /\ pc \in {"start", "collect", "collected", "draw", "check", "asleep"} =>
       stay.lookups = 0 \/ (stay.lookups = 1 /\ carried.fingerprint = stay.fingerprint)
  /\ pc \in {"restore", "gone"} => stay.lookups <= 1

\* An answer that is carried into another frame has been waited over, and a
\* wait is not over before the clock has got to another second.
Dated ==
  /\ carried.age <= carried.public.seen
  /\ Known(frame.answer) => frame.answer.route = frame.fingerprint
  /\ pc \in {"check", "asleep"} => screen.age <= carried.public.seen
  /\ pc \in {"check", "asleep"} /\ Known(carried.public) =>
       carried.age >= 1 \/ Interval - left <= phase
  /\ pc \in {"start", "collect", "collected", "measuring"} /\ Known(carried.public) =>
       carried.age >= 1
  /\ pc = "draw" /\ Known(carried.public) =>
       carried.age >= 1 \/ carried.public.route = frame.fingerprint
  /\ StaleIsDated

-----------------------------------------------------------------------------
\* One tick gets the clock one further, or to the next second.
LEMMA ClockMoves ==
  ASSUME NEW moment \in 0..(Second - 1)
  PROVE  /\ (moment + 1) % Second \in 0..(Second - 1)
         /\ (moment + 1) % Second # 0 => (moment + 1) % Second = moment + 1
<1>1. CASE moment + 1 < Second
  BY <1>1, WatchAssumption
<1>2. CASE moment + 1 = Second
  BY <1>2, WatchAssumption
<1> QED BY <1>1, <1>2, WatchAssumption

LEMMA BoundCovers == Bound \in Nat /\ FrameTime <= Bound /\ Slice + Lag <= Bound
BY WatchAssumption DEF Bound, Greatest

LEMMA OlderIsOlder ==
  ASSUME NEW age \in 0..MaxAge
  PROVE  Older(age) \in 0..MaxAge /\ Older(age) >= age /\ Older(age) >= 1
BY WatchAssumption DEF Older, Least

LEMMA OlderKeepsOrder ==
  ASSUME NEW a \in 0..MaxAge, NEW b \in 0..MaxAge, a <= b
  PROVE  Older(a) <= Older(b)
BY WatchAssumption DEF Older, Least

\* What a tick does to the answers it ages.
LEMMA TickAges ==
  ASSUME Types, Tick
  PROVE  /\ file' \in [route : Routes \cup {"none"}, seen : 0..TTL]
         /\ frame' \in [fingerprint : Routes \cup {"none"},
                        source : {"nowhere", "file", "provider"}, answer : Answer]
         /\ carried' \in [fingerprint : Routes \cup {"none"}, public : Answer,
                          age : 0..MaxAge]
         /\ frame'.fingerprint = frame.fingerprint
         /\ frame'.answer.route = frame.answer.route
         /\ carried'.fingerprint = carried.fingerprint
         /\ carried'.public.route = carried.public.route
         /\ carried'.public.seen >= carried.public.seen
         /\ carried'.age >= carried.age
         /\ carried.age <= carried.public.seen => carried'.age <= carried'.public.seen
         /\ phase' \in 0..(Second - 1)
         /\ \/ phase' = phase + 1
            \/ Known(carried.public) => carried'.age >= 1
<1> USE WatchAssumption DEF Types, TypeOK
<1>0. /\ phase' = (phase + 1) % Second /\ phase' \in 0..(Second - 1)
      /\ phase' # 0 => phase' = phase + 1
  BY ClockMoves DEF Tick
<1>1. CASE phase' # 0
  <2>1. UNCHANGED <<file, frame, carried>>
    BY <1>1 DEF Tick
  <2>2. carried.age \in 0..MaxAge /\ carried.public.seen \in 0..MaxAge
    BY DEF Answer
  <2> QED BY <1>0, <1>1, <2>1, <2>2
<1>2. CASE phase' = 0
  <2> HIDE DEF Types, TypeOK
  <2> DEFINE aged == Least(TTL, Aged(file).seen)
  <2>1. aged \in 0..TTL
    <3>1. file.seen \in 0..TTL
      BY DEF Types, TypeOK
    <3>2. Aged(file).seen = file.seen \/ Aged(file).seen = Older(file.seen)
      BY DEF Aged, Types, TypeOK
    <3>3. Older(file.seen) \in Nat
      BY <3>1, OlderIsOlder
    <3> QED BY <3>1, <3>2, <3>3 DEF Least
  <2>2. file' \in [route : Routes \cup {"none"}, seen : 0..TTL]
    <3>1. file' = [file EXCEPT !.seen = aged]
      BY <1>2 DEF Tick
    <3> HIDE DEF aged
    <3> QED BY <2>1, <3>1 DEF Types, TypeOK
  <2>3. /\ frame' \in [fingerprint : Routes \cup {"none"},
                       source : {"nowhere", "file", "provider"}, answer : Answer]
        /\ frame'.fingerprint = frame.fingerprint
        /\ frame'.answer.route = frame.answer.route
    <3>1. \/ frame' = frame
          \/ frame' = [frame EXCEPT !.answer.seen = Older(@)]
      BY <1>2 DEF Tick
    <3>2. frame.answer.seen \in 0..MaxAge
      BY DEF Types, TypeOK, Answer
    <3> QED BY <3>1, <3>2, OlderIsOlder DEF Types, TypeOK, Answer
  <2>4. CASE ~Known(carried.public)
    <3>1. carried' = carried
      BY <1>2, <2>4 DEF Tick
    <3> QED BY <1>0, <2>2, <2>3, <2>4, <3>1 DEF Types, TypeOK, Answer
  <2>5. CASE Known(carried.public)
    <3>1. carried' = [carried EXCEPT !.public.seen = Older(@), !.age = Older(@)]
      BY <1>2, <2>5 DEF Tick
    <3>2. carried.public.seen \in 0..MaxAge /\ carried.age \in 0..MaxAge
      BY DEF Types, TypeOK, Answer
    <3>3. /\ Older(carried.public.seen) \in 0..MaxAge /\ Older(carried.age) \in 0..MaxAge
          /\ Older(carried.public.seen) >= carried.public.seen
          /\ Older(carried.age) >= carried.age /\ Older(carried.age) >= 1
          /\ carried.age <= carried.public.seen =>
               Older(carried.age) <= Older(carried.public.seen)
      BY <3>2, OlderIsOlder, OlderKeepsOrder
    <3>4. /\ carried'.fingerprint = carried.fingerprint
          /\ carried'.public.route = carried.public.route
          /\ carried'.public.seen = Older(carried.public.seen)
          /\ carried'.age = Older(carried.age)
          /\ carried' \in [fingerprint : Routes \cup {"none"}, public : Answer,
                          age : 0..MaxAge]
      BY <3>1, <3>3 DEF Types, TypeOK, Answer
    <3> QED BY <1>0, <2>2, <2>3, <3>3, <3>4
  <2> QED BY <2>4, <2>5
<1> QED
  BY <1>1, <1>2

LEMMA TypesInit == Init => Types
<1> SUFFICES ASSUME Init PROVE Types
  OBVIOUS
<1> USE WatchAssumption
<1>1. NoAnswer \in Answer /\ NoAnswer \in [route : Routes \cup {"none"}, seen : 0..TTL]
  BY DEF NoAnswer, Answer
<1>2. file \in [route : Routes \cup {"none"}, seen : 0..TTL]
  BY <1>1 DEF Init
<1>3. /\ frame \in [fingerprint : Routes \cup {"none"},
                    source : {"nowhere", "file", "provider"}, answer : Answer]
      /\ carried \in [fingerprint : Routes \cup {"none"}, public : Answer, age : 0..MaxAge]
      /\ screen \in [fingerprint : Routes \cup {"none"}, public : Answer, age : 0..MaxAge]
  BY <1>1 DEF Init
<1>4. /\ phase \in 0..(Second - 1) /\ ran \in 0..FrameTime
      /\ left \in -Lag..Interval /\ nap \in -Lag..Slice /\ waited \in Nat
  BY DEF Init
<1>5. stay \in [fingerprint : Routes \cup {"none"}, lookups : Nat]
  BY DEF Init
<1>6. /\ route \in Routes /\ pc = "start" /\ interrupted \in BOOLEAN
      /\ cursor \in {"visible", "hidden"}
  BY DEF Init
<1> QED
  BY <1>2, <1>3, <1>4, <1>5, <1>6 DEF Types, TypeOK

LEMMA TypesNext == Types /\ [Next]_vars => Types'
<1> SUFFICES ASSUME Types, [Next]_vars PROVE Types'
  OBVIOUS
<1> USE WatchAssumption DEF World, loop, Signal, Terminal, Goto
<1>1. CASE UNCHANGED vars \/ Start \/ FrameFails \/ Wake \/ Again \/ Stop \/ Restore
  BY <1>1 DEF Types, TypeOK, vars, Start, FrameFails, Wake, Again, Stop, Restore
<1>2. CASE Collect
  BY <1>2 DEF Types, TypeOK, Collect, NoAnswer, Answer
<1>3. CASE Measure
  <2>1. Source \in {"nowhere", "file", "provider"}
    BY DEF Source
  <2>2. file \in Answer /\ NoAnswer \in Answer
    BY DEF Types, TypeOK, Answer, NoAnswer
  <2>3. frame' = [frame EXCEPT !.source = Source,
                               !.answer = IF Source = "file" THEN file ELSE NoAnswer]
    BY <1>3 DEF Measure
  <2>4. frame' \in [fingerprint : Routes \cup {"none"},
                    source : {"nowhere", "file", "provider"}, answer : Answer]
    BY <2>1, <2>2, <2>3 DEF Types, TypeOK
  <2>5. stay' = stay \/ stay' = [stay EXCEPT !.lookups = stay.lookups + 1]
    BY <1>3 DEF Measure
  <2>6. stay' \in [fingerprint : Routes \cup {"none"}, lookups : Nat]
    BY <2>5 DEF Types
  <2> QED BY <1>3, <2>4, <2>6 DEF Types, TypeOK, Measure
<1>4. CASE FrameMade
  <2> PICK answer \in {NoAnswer, frame.answer} :
        /\ Carry(answer)
        /\ file' = IF Known(answer)
             THEN [route |-> frame.fingerprint, seen |-> Least(TTL, answer.seen)]
             ELSE file
    BY <1>4 DEF FrameMade
  <2>1. answer \in Answer
    BY DEF Types, TypeOK, Answer, NoAnswer
  <2>2. carried' \in [fingerprint : Routes \cup {"none"}, public : Answer, age : 0..MaxAge]
    BY <2>1 DEF Types, TypeOK, Carry
  <2>3. Least(TTL, answer.seen) \in 0..TTL
    BY <2>1 DEF Least, Answer
  <2>4. file' \in [route : Routes \cup {"none"}, seen : 0..TTL]
    BY <2>3 DEF Types, TypeOK
  <2> QED BY <1>4, <2>2, <2>4 DEF Types, TypeOK, FrameMade
<1>5. CASE Draw
  <2>1. AgeShown \in 0..MaxAge
    BY DEF AgeShown, Types, TypeOK
  <2> QED BY <1>5, <2>1 DEF Types, TypeOK, Draw
<1>6. CASE Sleep
  <2>1. nap' \in -Lag..Slice /\ left >= nap'
    BY <1>6 DEF Types, TypeOK, Sleep, Least
  <2> QED BY <1>6, <2>1 DEF Types, TypeOK, Sleep
<1>7. CASE LookupAnswered
  BY <1>7 DEF Types, TypeOK, LookupAnswered, Answer
<1>8. CASE Interrupt
  <2>1. /\ UNCHANGED <<World, loop, waited, Terminal, stay>>
        /\ interrupted' \in BOOLEAN
        /\ pc' = pc \/ pc' = "gone"
    BY <1>8 DEF Types, TypeOK, Interrupt
  <2> QED BY <2>1 DEF Types, TypeOK
<1>9. CASE Roam
  BY <1>9 DEF Types, TypeOK, Roam
<1>10. CASE Tick
  <2>1. /\ ran' \in 0..FrameTime /\ left' \in -Lag..Interval /\ nap' \in -Lag..Slice
        /\ pc' = "asleep" => left' >= nap'
        /\ waited' \in Nat
    BY <1>10 DEF Types, TypeOK, Tick
  <2> QED BY <1>10, <2>1, TickAges DEF Types, TypeOK, Tick
<1> QED
  BY <1>1, <1>2, <1>3, <1>4, <1>5, <1>6, <1>7, <1>8, <1>9, <1>10 DEF Next, Step

\* The loop, what it carries and what is on screen keep their types.
THEOREM WatchTypeCorrect == Spec => []TypeOK
<1>1. Types => TypeOK
  BY DEF Types
<1> QED
  BY TypesInit, TypesNext, <1>1, PTL DEF Spec

-----------------------------------------------------------------------------
LEMMA HeededNext == Types /\ Types' /\ Heeded /\ [Next]_vars => Heeded'
<1> SUFFICES ASSUME Types, Types', Heeded, [Next]_vars PROVE Heeded'
  OBVIOUS
<1>0. /\ ran \in 0..FrameTime /\ waited \in Nat /\ nap \in -Lag..Slice
      /\ Bound \in Nat /\ FrameTime <= Bound /\ Slice + Lag <= Bound
  BY BoundCovers DEF Types, TypeOK
<1> USE <1>0, WatchAssumption DEF Heeded, World, loop, Signal, Terminal, Goto
<1>1. CASE UNCHANGED vars \/ Roam \/ LookupAnswered \/ Interrupt
  BY <1>1 DEF vars, Roam, LookupAnswered, Interrupt
<1>2. CASE Start \/ Collect \/ Measure \/ FrameMade \/ Draw
  BY <1>2 DEF Start, Collect, Measure, FrameMade, Draw
<1>3. CASE FrameFails
  BY <1>3 DEF FrameFails
<1>4. CASE Sleep
  BY <1>4 DEF Sleep, Types, TypeOK
<1>5. CASE Wake \/ Again \/ Stop \/ Restore
  BY <1>5 DEF Wake, Again, Stop, Restore
<1>6. CASE Tick
  BY <1>6 DEF Tick
<1> QED
  BY <1>1, <1>2, <1>3, <1>4, <1>5, <1>6 DEF Next, Step

\* For every interval, slice, frame and overshoot: an interrupt is answered when
\* the frame being made is over, or the slice being slept, whichever it was.
THEOREM InterruptsAreAnswered == Spec => []InterruptAnswered
<1>1. Init => Heeded
  BY DEF Init, Heeded
<1>2. Types /\ Heeded => InterruptAnswered
  BY BoundCovers, WatchAssumption
  DEF Types, TypeOK, Heeded, InterruptAnswered, Bound
<1> QED
  BY TypesInit, TypesNext, HeededNext, <1>1, <1>2, PTL DEF Spec

\* The cursor is given back however a watch ends: an interrupt at any moment, or
\* a frame that cannot be collected, measured or written.
THEOREM CursorIsGivenBack == Spec => []CursorGivenBack
<1>1. Init => Visible
  BY DEF Init, Visible
<1>2. Visible /\ [Next]_vars => Visible'
  BY DEF Visible, Next, Step, vars, Start, Collect, Measure, FrameMade, Draw, Sleep,
     Wake, Again, Stop, Restore, FrameFails, LookupAnswered, Interrupt, Roam, Tick,
     World, loop, Signal, Terminal, Goto
<1>3. Visible => CursorGivenBack
  BY DEF Visible, CursorGivenBack
<1> QED
  BY <1>1, <1>2, <1>3, PTL DEF Spec

LEMMA AskedNext == Types /\ Asked /\ [Next]_vars => Asked'
<1> SUFFICES ASSUME Types, Asked, [Next]_vars PROVE Asked'
  OBVIOUS
<1> USE DEF Asked, World, loop, Signal, Terminal, Goto
<1>1. CASE UNCHANGED vars \/ Roam \/ Interrupt
  BY <1>1 DEF vars, Roam, Interrupt
<1>2. CASE Start \/ Draw \/ Sleep \/ Wake \/ Again \/ Stop \/ Restore \/ FrameFails
  BY <1>2 DEF Start, Draw, Sleep, Wake, Again, Stop, Restore, FrameFails
<1>3. CASE Collect
  BY <1>3 DEF Collect, Types, TypeOK
<1>4. CASE Measure
  <2>1. frame'.fingerprint = frame.fingerprint
    BY <1>4 DEF Measure, Types, TypeOK
  <2>2. CASE Source = "provider"
    <3>1. stay.lookups = 0
      BY <1>4, <2>2 DEF Measure, Source, RouteChanged
    <3>2. stay' = [stay EXCEPT !.lookups = stay.lookups + 1]
      BY <1>4, <2>2 DEF Measure
    <3>3. stay'.lookups = 1 /\ stay'.fingerprint = stay.fingerprint
      BY <3>1, <3>2 DEF Types
    <3> QED BY <1>4, <2>1, <3>3 DEF Measure
  <2>3. CASE Source # "provider"
    BY <1>4, <2>1, <2>3 DEF Measure, Types
  <2> QED BY <2>2, <2>3
<1>5. CASE FrameMade
  <2>1. carried'.fingerprint = frame.fingerprint
    BY <1>5 DEF FrameMade, Carry, Types, TypeOK
  <2> QED BY <1>5, <2>1 DEF FrameMade, Types
<1>6. CASE LookupAnswered
  <2>1. frame'.fingerprint = frame.fingerprint
    BY <1>6 DEF LookupAnswered, Types, TypeOK
  <2> QED BY <1>6, <2>1 DEF LookupAnswered
<1>7. CASE Tick
  BY <1>7, TickAges DEF Tick
<1> QED
  BY <1>1, <1>2, <1>3, <1>4, <1>5, <1>6, <1>7 DEF Next, Step

\* However many frames are drawn on a route that stays, and whatever becomes of
\* its lookup, the provider is asked about it once.
THEOREM OneLookupIsMade == Spec => []OneLookupPerStay
<1>1. Init => Asked
  BY DEF Init, Asked
<1>2. Types /\ Asked => OneLookupPerStay
  BY DEF Types, TypeOK, Asked, OneLookupPerStay
<1> QED
  BY TypesInit, TypesNext, AskedNext, <1>1, <1>2, PTL DEF Spec

LEMMA DatedNext == Types /\ Types' /\ Dated /\ [Next]_vars => Dated'
<1> SUFFICES ASSUME Types, Types', Dated, [Next]_vars PROVE Dated'
  OBVIOUS
<1>0. /\ phase \in 0..(Second - 1) /\ left \in -Lag..Interval
      /\ carried.age \in 0..MaxAge /\ carried.public.seen \in 0..MaxAge
      /\ screen.age \in 0..MaxAge
  BY DEF Types, TypeOK, Answer
<1> USE <1>0, WatchAssumption DEF World, loop, Signal, Terminal, Goto
<1>1. CASE UNCHANGED vars \/ Roam \/ Interrupt \/ Start \/ Sleep \/ Wake \/ Stop
           \/ Restore \/ FrameFails
  BY <1>1 DEF Dated, StaleIsDated, vars, Roam, Interrupt, Start, Sleep, Wake, Stop,
     Restore, FrameFails
<1>2. CASE Again
  BY <1>2 DEF Dated, StaleIsDated, Again
<1>3. CASE Collect
  BY <1>3 DEF Dated, StaleIsDated, Collect, Known, NoAnswer
<1>4. CASE Measure
  <2>1. frame'.fingerprint = frame.fingerprint
    BY <1>4 DEF Measure, Types, TypeOK
  <2>2. \/ frame'.answer = NoAnswer
        \/ frame'.answer = file /\ file.route = frame.fingerprint
    BY <1>4 DEF Measure, Source, Types, TypeOK
  <2>3. Known(frame'.answer) => frame'.answer.route = frame'.fingerprint
    BY <2>1, <2>2 DEF Known, NoAnswer
  <2> QED BY <1>4, <2>3 DEF Dated, StaleIsDated, Measure
<1>5. CASE FrameMade
  <2> PICK answer \in {NoAnswer, frame.answer} : Carry(answer)
    BY <1>5 DEF FrameMade
  <2>1. CASE Known(answer)
    <3>1. answer = frame.answer /\ answer.route = frame.fingerprint
      BY <2>1 DEF Dated, Known, NoAnswer
    <3>2. carried'.age = 0 /\ carried'.public = answer /\ answer.seen \in 0..MaxAge
      BY <2>1, <3>1 DEF Carry, Types, TypeOK, Answer
    <3> QED BY <1>5, <3>1, <3>2 DEF Dated, StaleIsDated, FrameMade
  <2>2. CASE ~Known(answer)
    <3>1. carried'.age = carried.age /\ carried'.public = carried.public
      BY <2>2 DEF Carry, Types, TypeOK
    <3> QED BY <1>5, <3>1 DEF Dated, StaleIsDated, FrameMade
  <2> QED BY <2>1, <2>2
<1>6. CASE Draw
  <2>1. /\ screen'.age = carried.age /\ screen'.public = carried.public
        /\ screen'.fingerprint = frame.fingerprint
    BY <1>6 DEF Draw, AgeShown
  <2>2. /\ UNCHANGED <<carried, frame, phase>> /\ left' = Interval
        /\ pc = "draw" /\ pc' = "check"
    BY <1>6 DEF Draw
  <2> QED BY <2>1, <2>2 DEF Dated, StaleIsDated
<1>7. CASE LookupAnswered
  <2>1. /\ frame'.fingerprint = frame.fingerprint
        /\ frame'.answer.route = frame.fingerprint
    BY <1>7 DEF LookupAnswered, Types, TypeOK, Answer
  <2> QED BY <1>7, <2>1 DEF LookupAnswered, Dated, StaleIsDated
<1>8. CASE Tick
  <2>1. /\ frame'.fingerprint = frame.fingerprint
        /\ frame'.answer.route = frame.answer.route
        /\ carried'.public.route = carried.public.route
        /\ carried'.public.seen >= carried.public.seen
        /\ carried'.age >= carried.age
        /\ carried.age <= carried.public.seen => carried'.age <= carried'.public.seen
        /\ phase' \in 0..(Second - 1)
        /\ phase' = phase + 1 \/ (Known(carried.public) => carried'.age >= 1)
    BY <1>8, TickAges
  <2>2. /\ carried'.age \in 0..MaxAge /\ carried'.public.seen \in 0..MaxAge
    BY DEF Types, TypeOK, Answer
  <2>3. /\ UNCHANGED <<pc, screen>>
        /\ pc \in {"collected", "measuring"} \/ (pc = "asleep" /\ left' = left - 1)
    BY <1>8 DEF Tick
  <2> QED BY <2>1, <2>2, <2>3 DEF Dated, StaleIsDated, Known
<1> QED
  BY <1>1, <1>2, <1>3, <1>4, <1>5, <1>6, <1>7, <1>8 DEF Next, Step

\* For every interval of a second or more: the heading dates an address that was
\* asked for on another route, and dates none as older than it is.
THEOREM HeadingsAreHonest == Spec => []HeadingIsHonest
<1>1. Init => Dated
  BY WatchAssumption DEF Init, Dated, StaleIsDated, NoAnswer, Known
<1>2. Dated => HeadingIsHonest
  BY DEF Dated, HeadingIsHonest, AgeNeverOverstated
<1> QED
  BY TypesInit, TypesNext, DatedNext, <1>1, <1>2, PTL DEF Spec

-----------------------------------------------------------------------------
(* Numbers of columns.                                                     *)

\* The greater of two.
LEMMA MaxOfTwo ==
  ASSUME NEW a \in Int, NEW b \in Int
  PROVE  Max({a, b}) = IF a >= b THEN a ELSE b
<1> DEFINE m == IF a >= b THEN a ELSE b
<1>1. m \in {a, b} /\ \A y \in {a, b} : m >= y
  OBVIOUS
<1>2. \A x \in {a, b} : (\A y \in {a, b} : x >= y) => x = m
  OBVIOUS
<1> QED BY <1>1, <1>2 DEF Max

\* The lesser of two.
LEMMA MinOfTwo ==
  ASSUME NEW a \in Int, NEW b \in Int
  PROVE  Min({a, b}) = IF a <= b THEN a ELSE b
<1> DEFINE m == IF a <= b THEN a ELSE b
<1>1. m \in {a, b} /\ \A y \in {a, b} : m =< y
  OBVIOUS
<1>2. \A x \in {a, b} : (\A y \in {a, b} : x =< y) => x = m
  OBVIOUS
<1> QED BY <1>1, <1>2 DEF Min

\* Subtraction stops at zero, and stays exact above it.
LEMMA LessIs ==
  ASSUME NEW a \in Nat, NEW b \in Nat
  PROVE  Less(a, b) \in Nat /\ Less(a, b) = IF a >= b THEN a - b ELSE 0
BY MaxOfTwo, a - b \in Int DEF Less

\* A page is at least 62 and at most 96 columns wide, whatever the terminal.
LEMMA EdgeIs ==
  ASSUME terminal \in Nat
  PROVE  Edge \in 62 .. 96
<1>1. Less(terminal, MARGIN) \in Nat
  BY LessIs DEF MARGIN
<1>2. Max({Less(terminal, MARGIN), CONTENT_MIN}) \in Nat
      /\ Max({Less(terminal, MARGIN), CONTENT_MIN}) >= 62
  BY <1>1, MaxOfTwo DEF CONTENT_MIN
<1> DEFINE most == Max({Less(terminal, MARGIN), CONTENT_MIN})
<1>3. Edge = Min({most, 96})
  BY DEF Edge, ContentEdge, CONTENT_MAX
<1> HIDE DEF most
<1>4. most \in Int /\ 96 \in Int
  BY <1>2 DEF most
<1>5. Min({most, 96}) = IF most <= 96 THEN most ELSE 96
  BY <1>4, MinOfTwo
<1> QED BY <1>2, <1>3, <1>5 DEF most

\* Some number is the least of those that satisfy a condition.
LEMMA LeastExists ==
  ASSUME NEW K \in SUBSET Nat, K # {}
  PROVE  \E i \in K : \A k \in K : i <= k
<1> DEFINE less == {pair \in Nat \X Nat : pair[1] < pair[2]}
<1>1. IsWellFoundedOn(less, Nat)
  BY NatLessThanWellFounded DEF OpToRel
<1>2. \A i, k \in Nat : <<k, i>> \in less <=> k < i
  OBVIOUS
<1> HIDE DEF less
<1>3. \E i \in K : \A k \in K : ~(<<k, i>> \in less)
  BY <1>1, WFMin
<1>4. PICK i \in K : \A k \in K : ~(<<k, i>> \in less)
  BY <1>3
<1>5. \A k \in K : i <= k
  <2>1. TAKE k \in K
  <2>2. i \in Nat /\ k \in Nat /\ ~(k < i)
    BY <1>2, <1>4
  <2> QED BY <2>2
<1> QED BY <1>5

\* A smallest set without a greatest member would have one.
LEMMA GreatestExists ==
  ASSUME NEW S \in SUBSET Nat, IsFiniteSet(S), S # {}
  PROVE  \E x \in S : \A y \in S : x >= y
<1> DEFINE Bounded(T) == \E x \in T : \A y \in T : x >= y
           open == {T \in SUBSET S : T # {} /\ ~Bounded(T)}
           sizes == {n \in Nat : \E T \in open : Cardinality(T) = n}
<1>1. \A T \in open : IsFiniteSet(T) /\ Cardinality(T) \in Nat
  BY FS_Subset, FS_CardinalityType
<1>2. ASSUME open # {} PROVE FALSE
  <2>1. sizes # {} /\ sizes \in SUBSET Nat
    BY <1>1, <1>2
  <2> HIDE DEF sizes
  <2>2. PICK n \in sizes : \A k \in sizes : n <= k
    BY <2>1, LeastExists
  <2>3. PICK T \in open : Cardinality(T) = n
    BY <2>2 DEF sizes
  <2>4. PICK x \in T : TRUE
    BY <2>3
  <2>5. IsFiniteSet(T \ {x}) /\ Cardinality(T \ {x}) = Cardinality(T) - 1
    BY <1>1, <2>3, <2>4, FS_RemoveElement
  <2>6. Cardinality(T \ {x}) \in Nat /\ Cardinality(T) \in Nat
    BY <1>1, <2>3, <2>5, FS_CardinalityType
  <2>7. T \ {x} \notin open
    <3>1. SUFFICES ASSUME T \ {x} \in open PROVE FALSE
      OBVIOUS
    <3>2. Cardinality(T \ {x}) \in sizes
      BY <2>6, <3>1 DEF sizes
    <3> QED BY <2>2, <2>3, <2>5, <2>6, <3>2
  <2>8. CASE T \ {x} = {}
    <3>1. T = {x} /\ x \in Nat
      BY <2>3, <2>4, <2>8
    <3>2. Bounded(T)
      BY <3>1
    <3> QED BY <2>3, <3>2
  <2>9. CASE T \ {x} # {}
    <3>1. Bounded(T \ {x})
      BY <2>3, <2>7, <2>9
    <3>2. PICK m \in T \ {x} : \A y \in T \ {x} : m >= y
      BY <3>1
    <3>3. T \in SUBSET Nat
      BY <2>3
    <3>4. \E z \in T : \A y \in T : z >= y
      <4>1. CASE x >= m
        <5>1. \A y \in T : x >= y
          BY <2>4, <3>2, <3>3, <4>1
        <5> QED BY <2>4, <5>1
      <4>2. CASE ~(x >= m)
        <5>1. \A y \in T : m >= y
          BY <2>4, <3>2, <3>3, <4>2
        <5> QED BY <3>2, <5>1
      <4> QED BY <4>1, <4>2
    <3> QED BY <2>3, <3>4
  <2> QED BY <2>8, <2>9
<1> QED BY <1>2

\* The longest of the cells and their header is as long as each of them.
LEMMA LongestIs ==
  ASSUME NEW S, IsFiniteSet(S), NEW size \in [S -> Nat], NEW header \in Nat,
         NEW sizes, sizes = {size[x] : x \in S}
  PROVE  /\ Longest(sizes, header) \in Nat /\ Longest(sizes, header) >= header
         /\ \A x \in S : Longest(sizes, header) >= size[x]
<1> DEFINE all == {header} \cup sizes
<1>1. size \in [S -> sizes] /\ \A n \in sizes : \E x \in S : size[x] = n
  OBVIOUS
<1>2. size \in Surjection(S, sizes)
  BY <1>1, Zenon DEF Surjection
<1>3. IsFiniteSet(sizes)
  BY <1>2, FS_Surjection
<1>4. IsFiniteSet(all)
  BY <1>3, FS_AddElement, all = sizes \cup {header}
<1>5. all \in SUBSET Nat /\ all # {}
  OBVIOUS
<1> HIDE DEF all
<1>6. \E x \in all : \A y \in all : x >= y
  BY <1>4, <1>5, GreatestExists
<1>7. Max(all) \in all /\ \A y \in all : Max(all) >= y
  BY <1>6 DEF Max
<1>8. \A x \in S : size[x] \in all
  BY DEF all
<1>9. header \in all
  BY DEF all
<1> QED BY <1>5, <1>7, <1>8, <1>9 DEF Longest, all

-----------------------------------------------------------------------------
(* The columns of a table.                                                 *)

\* The page is a table of this kind.
InTable(kind) ==
  asked \in Tables /\ asked.kind = kind /\ terminal \in Terminals /\ glyphs \in Glyphs
InRoutes == InTable("routes")
InSockets == InTable("listen")

\* Where a row of the routing table ends, flags included.
RowEnd(w) == ROW_COL - 1 + w.destination + w.gateway + w.interface + 6

\* Every column is as wide as its widest cell and the gap, and the gateway's
\* takes what is spare when that is too much.
LEMMA RouteWidthsAre ==
  ASSUME InRoutes
  PROVE  LET w == RouteWidths IN
         /\ w.destination \in Nat /\ w.destination >= 13
         /\ w.gateway \in Nat /\ w.gateway >= 9
         /\ w.interface \in Nat /\ w.interface >= 7
         /\ \A r \in AllRows : /\ w.destination >= r.destination + 2
                               /\ w.interface >= r.interface + 2
                               /\ w.gateway < r.gateway + 2 => RowEnd(w) >= Edge
         /\ 20 + w.destination + w.interface <= Edge => RowEnd(w) <= Edge
<1> DEFINE d == Longest({r.destination : r \in AllRows}, 11)
           g == Longest({r.gateway : r \in AllRows}, 7)
           i == Longest({r.interface : r \in AllRows}, 5)
           wide == g + 2
           wanted == d + 2 + wide + (i + 2)
           spare == Less(Edge, 11)
           over == Less(wanted, spare)
           rest == Less(wide, over)
           kept == IF over = 0 THEN wide ELSE Max({rest, 9})
<1>1. /\ IsFiniteSet(AllRows)
      /\ \A r \in AllRows :
           {r.destination, r.gateway, r.interface, r.flags, r.expires} \subseteq Nat
  BY PagesAssumption DEF InRoutes, InTable, AllRows
<1>2. d \in Nat /\ d >= 11 /\ \A r \in AllRows : d >= r.destination
  <2> DEFINE size == [r \in AllRows |-> r.destination]
  <2>1. size \in [AllRows -> Nat] /\ {r.destination : r \in AllRows} = {size[x] : x \in AllRows}
    BY <1>1
  <2>2. \A r \in AllRows : size[r] = r.destination
    OBVIOUS
  <2> HIDE DEF size
  <2>3. d \in Nat /\ d >= 11 /\ \A r \in AllRows : d >= size[r]
    BY <1>1, <2>1, LongestIs
  <2> QED BY <2>2, <2>3
<1>3. g \in Nat /\ g >= 7 /\ \A r \in AllRows : g >= r.gateway
  <2> DEFINE size == [r \in AllRows |-> r.gateway]
  <2>1. size \in [AllRows -> Nat] /\ {r.gateway : r \in AllRows} = {size[x] : x \in AllRows}
    BY <1>1
  <2>2. \A r \in AllRows : size[r] = r.gateway
    OBVIOUS
  <2> HIDE DEF size
  <2>3. g \in Nat /\ g >= 7 /\ \A r \in AllRows : g >= size[r]
    BY <1>1, <2>1, LongestIs
  <2> QED BY <2>2, <2>3
<1>4. i \in Nat /\ i >= 5 /\ \A r \in AllRows : i >= r.interface
  <2> DEFINE size == [r \in AllRows |-> r.interface]
  <2>1. size \in [AllRows -> Nat] /\ {r.interface : r \in AllRows} = {size[x] : x \in AllRows}
    BY <1>1
  <2>2. \A r \in AllRows : size[r] = r.interface
    OBVIOUS
  <2> HIDE DEF size
  <2>3. i \in Nat /\ i >= 5 /\ \A r \in AllRows : i >= size[r]
    BY <1>1, <2>1, LongestIs
  <2> QED BY <2>2, <2>3
<1>5. Edge \in 62 .. 96
  BY EdgeIs, PagesAssumption DEF InRoutes, InTable
<1>6. RouteWidths = [destination |-> d + 2, interface |-> i + 2, gateway |-> kept]
  BY DEF RouteWidths, ROW_COL, GAP
<1> HIDE DEF d, g, i
<1>7. spare = Edge - 11 /\ spare \in Nat
  BY <1>5, LessIs
<1>8. wide = g + 2 /\ wanted = d + g + i + 6 /\ wanted \in Nat /\ wide \in Nat
  BY <1>2, <1>3, <1>4
<1> HIDE DEF wanted, spare, wide
<1>9. over \in Nat /\ over = IF wanted >= spare THEN wanted - spare ELSE 0
  BY <1>7, <1>8, LessIs
<1> HIDE DEF over
<1>10. rest \in Nat /\ rest = IF wide >= over THEN wide - over ELSE 0
  BY <1>8, <1>9, LessIs
<1> HIDE DEF rest
<1>11. rest \in Int /\ 9 \in Int
  BY <1>10
<1>12. Max({rest, 9}) = IF rest >= 9 THEN rest ELSE 9
  BY <1>11, MaxOfTwo
<1>13. /\ kept \in Nat /\ kept >= 9
       /\ kept < g + 2 => 5 + d + 2 + kept + (i + 2) + 6 >= Edge
       /\ 5 + d + 2 + 9 + (i + 2) + 6 <= Edge => 5 + d + 2 + kept + (i + 2) + 6 <= Edge
  BY <1>2, <1>3, <1>4, <1>5, <1>7, <1>8, <1>9, <1>10, <1>12
<1> HIDE DEF kept
<1>14. \A r \in AllRows : r.gateway \in Nat
  BY <1>1
<1> QED BY <1>1, <1>2, <1>3, <1>4, <1>5, <1>6, <1>13, <1>14 DEF RowEnd, ROW_COL

\* What a row of sockets needs at least.
Narrowest ==
  PROTO_WIDTH + Longest({AddressSize(s) : s \in AllRows}, 7) + GAP
  + Longest({MarkWidth + s.owner : s \in AllRows}, 5) + GAP
  + Longest({s.detail : s \in AllRows}, 0) + GAP
  + Longest({s.pid : s \in AllRows}, 3)

\* What a column is given beyond its widest cell is its share of what is spare.
LEMMA SocketWidthsAre ==
  ASSUME InSockets
  PROVE  LET w == SocketWidths IN
         /\ w.address \in Nat /\ w.address >= 9
         /\ w.owner \in Nat /\ w.owner >= 7
         /\ w.detail \in Nat /\ w.pid \in Nat /\ w.pid >= 3
         /\ MarkWidth \in Nat
         /\ \A s \in AllRows : /\ AddressSize(s) \in Nat /\ w.address >= AddressSize(s) + 2
                               /\ w.owner >= MarkWidth + s.owner + 2
                               /\ s.detail > 0 => w.detail >= s.detail + 2
                               /\ w.pid >= s.pid
         /\ PidEnd = 12 + w.address + w.owner + w.detail + w.pid
         /\ 5 + Narrowest <= Edge => PidEnd <= Edge
<1> DEFINE a == Longest({AddressSize(s) : s \in AllRows}, 7)
           o == Longest({MarkWidth + s.owner : s \in AllRows}, 5)
           c == Longest({s.detail : s \in AllRows}, 0)
           p == Longest({s.pid : s \in AllRows}, 3)
           d == IF c = 0 THEN 0 ELSE c + 2
           fixed == 12 + p
           room == Less(Edge, fixed)
           wanted == a + 2 + (o + 2) + d
           rest == Less(room, wanted)
           each == rest \div 3
           spread == Min({each, 8})
<1>1. /\ IsFiniteSet(AllRows)
      /\ \A s \in AllRows : /\ {s.address, s.service, s.owner, s.detail, s.pid} \subseteq Nat
                            /\ AddressSize(s) \in Nat
      /\ MarkWidth \in Nat
  BY PagesAssumption DEF InSockets, InTable, AllRows, AddressSize, MarkWidth
<1>2. a \in Nat /\ a >= 7 /\ \A s \in AllRows : a >= AddressSize(s)
  <2> DEFINE size == [s \in AllRows |-> AddressSize(s)]
           sizes == {AddressSize(s) : s \in AllRows}
  <2>1. size \in [AllRows -> Nat] /\ sizes = {size[x] : x \in AllRows}
        /\ \A s \in AllRows : size[s] = AddressSize(s)
    BY <1>1
  <2>2. a = Longest(sizes, 7)
    OBVIOUS
  <2> HIDE DEF size, sizes, a
  <2> QED BY <1>1, <2>1, <2>2, LongestIs
<1>3. o \in Nat /\ o >= 5 /\ \A s \in AllRows : o >= MarkWidth + s.owner
  <2> DEFINE size == [s \in AllRows |-> MarkWidth + s.owner]
           sizes == {MarkWidth + s.owner : s \in AllRows}
  <2>1. size \in [AllRows -> Nat] /\ sizes = {size[x] : x \in AllRows}
        /\ \A s \in AllRows : size[s] = MarkWidth + s.owner
    BY <1>1
  <2>2. o = Longest(sizes, 5)
    OBVIOUS
  <2> HIDE DEF size, sizes, o
  <2> QED BY <1>1, <2>1, <2>2, LongestIs
<1>4. c \in Nat /\ \A s \in AllRows : c >= s.detail
  <2> DEFINE size == [s \in AllRows |-> s.detail]
  <2>1. size \in [AllRows -> Nat] /\ {s.detail : s \in AllRows} = {size[x] : x \in AllRows}
    BY <1>1
  <2> QED BY <1>1, <2>1, LongestIs
<1>5. p \in Nat /\ p >= 3 /\ \A s \in AllRows : p >= s.pid
  <2> DEFINE size == [s \in AllRows |-> s.pid]
  <2>1. size \in [AllRows -> Nat] /\ {s.pid : s \in AllRows} = {size[x] : x \in AllRows}
    BY <1>1
  <2> QED BY <1>1, <2>1, LongestIs
<1>6. Edge \in 62 .. 96
  BY EdgeIs, PagesAssumption DEF InSockets, InTable
<1>7. SocketWidths = [address |-> a + 2 + spread, owner |-> o + 2 + spread,
                      detail |-> IF d = 0 THEN 0 ELSE d + spread, pid |-> p]
  BY DEF SocketWidths, ROW_COL, GAP, PROTO_WIDTH, SPREAD
<1>8. Narrowest = 7 + a + 2 + o + 2 + c + 2 + p
  BY DEF Narrowest, PROTO_WIDTH, GAP
<1> HIDE DEF a, o, c, p
<1>9. fixed = 12 + p /\ fixed \in Nat
  BY <1>5
<1>10. d \in Nat /\ (d = 0 <=> c = 0) /\ (c > 0 => d = c + 2)
  BY <1>4
<1> HIDE DEF d
<1>11. wanted = a + o + d + 4 /\ wanted \in Nat
  BY <1>2, <1>3, <1>10
<1> HIDE DEF fixed, wanted
<1>12. room \in Nat /\ room = IF Edge >= fixed THEN Edge - fixed ELSE 0
  <2>1. Edge \in Nat
    BY <1>6
  <2> QED BY <1>9, <2>1, LessIs
<1> HIDE DEF room
<1>13. rest \in Nat /\ rest = IF room >= wanted THEN room - wanted ELSE 0
  BY <1>11, <1>12, LessIs
<1> HIDE DEF rest
<1>14. each \in Nat /\ 3 * each <= rest
  BY <1>13
<1> HIDE DEF each
<1>15. each \in Int /\ 8 \in Int
  BY <1>14
<1>16. spread = IF each <= 8 THEN each ELSE 8
  BY <1>15, MinOfTwo
<1>17. spread \in Nat /\ 3 * spread <= rest
  BY <1>13, <1>14, <1>16
<1> HIDE DEF spread
<1>18. PidEnd = 12 + SocketWidths.address + SocketWidths.owner + SocketWidths.detail
                + SocketWidths.pid
  <2>1. SocketWidths.address \in Nat /\ SocketWidths.owner \in Nat
        /\ SocketWidths.detail \in Nat /\ SocketWidths.pid \in Nat
    BY <1>2, <1>3, <1>5, <1>7, <1>10, <1>17
  <2> QED BY <2>1 DEF PidEnd, ROW_COL, PROTO_WIDTH
<1>19. 5 + Narrowest <= Edge => PidEnd <= Edge
  <2>1. SUFFICES ASSUME 5 + Narrowest <= Edge PROVE PidEnd <= Edge
    OBVIOUS
  <2>2. wanted <= room /\ rest + wanted + fixed = Edge
    BY <1>2, <1>3, <1>4, <1>5, <1>6, <1>8, <1>9, <1>10, <1>11, <1>12, <1>13, <2>1
  <2>3. PidEnd <= 12 + (a + 2 + spread) + (o + 2 + spread) + (d + spread) + p
    BY <1>2, <1>3, <1>5, <1>7, <1>10, <1>17, <1>18
  <2> QED BY <1>2, <1>3, <1>5, <1>6, <1>9, <1>10, <1>11, <1>13, <1>17, <2>2, <2>3, <1>7, <1>18
<1>20. \A s \in AllRows : s.detail \in Nat /\ s.owner \in Nat /\ s.pid \in Nat
  BY <1>1
<1> QED BY <1>1, <1>2, <1>3, <1>4, <1>5, <1>7, <1>10, <1>17, <1>18, <1>19, <1>20

-----------------------------------------------------------------------------
(* A line of a table, as it is written.                                    *)

\* The pieces of a table's page that are not cells.
Marks == {[part |-> p] : p \in {"heading", "rule", "rail", "group", "count", "nothing", "summary"}}
RowIds == {"header"} \cup {r.id : r \in AllRows}
CellNames ==
  [block : {"routes", "listen"}, row : RowIds,
   part : {"destination", "gateway", "interface", "flags", "expires",
           "proto", "address", "owner", "detail", "pid"}]
Spans == [what : Marks \cup CellNames, from : Nat, to : Nat]
Lines == [spans : Seq(Spans), width : Nat]

RouteCellFine(span) ==
  LET w == RouteWidths IN
  /\ Part(span) \in {"destination", "gateway", "interface", "flags", "expires"}
  /\ Part(span) = "destination" => span.from = 6
  /\ Part(span) = "gateway" => span.from = 6 + w.destination
  /\ Part(span) = "interface" => span.from = 6 + w.destination + w.gateway
  /\ Part(span) = "flags" => span.from = 6 + w.destination + w.gateway + w.interface
  /\ 20 + w.destination + w.interface <= Edge =>
       \/ Part(span) = "expires" \/ (Part(span) = "flags" /\ Size(span) > 6)
       \/ span.to <= Edge
  /\ Part(span) = "gateway" =>
       \A r \in AllRows : span.what.row = r.id /\ Size(span) < r.gateway =>
                            RowEnd(w) >= Edge /\ Size(span) = w.gateway - 2

\* The room for the mark of an owner; the header of the column needs none.
Indent(row) == IF row = "header" THEN 0 ELSE MarkWidth

SocketCellFine(span) ==
  LET w == SocketWidths IN
  /\ Part(span) \in {"proto", "address", "owner", "detail", "pid"}
  /\ Part(span) = "address" => span.from = 13
  /\ Part(span) = "owner" => span.from = 13 + w.address + Indent(span.what.row)
  /\ Part(span) = "detail" => span.from = 13 + w.address + w.owner
  /\ Part(span) = "pid" => span.to = PidEnd
  /\ 5 + Narrowest <= Edge => span.to <= Edge

\* A cell in its place.
Fine(span) ==
  span.what \in CellNames =>
    /\ span.what.block = asked.kind
    /\ IF asked.kind = "routes" THEN RouteCellFine(span) ELSE SocketCellFine(span)

\* What is written ends by a column, and every cell leaves the gap before it.
Written(line, last) ==
  /\ line \in Lines /\ last \in Nat /\ last <= line.width
  /\ \A k \in 1 .. Len(line.spans) :
       /\ Fine(line.spans[k])
       /\ line.spans[k].from \in 1 .. line.spans[k].to /\ line.spans[k].to <= last
  /\ \A k \in 2 .. Len(line.spans) :
       /\ line.spans[k - 1].to < line.spans[k].from
       /\ line.spans[k].what \in CellNames /\ Part(line.spans[k]) # "expires" =>
            line.spans[k].from - line.spans[k - 1].to > 2

\* The lines of a table's page.
GridLines == {line \in Lines : Written(line, line.width)}

\* An empty line has no cells.
LEMMA NothingWritten == Written(NewLine, 0) /\ NewLine.width = 0
BY DEF Written, NewLine, Lines

\* What is not a cell may stand anywhere.
LEMMA MarksAreNotCells == \A what \in Marks : what \notin CellNames
<1>1. \A what \in Marks : "block" \notin DOMAIN what
  BY DEF Marks
<1>2. \A what \in CellNames : "block" \in DOMAIN what
  BY DEF CellNames
<1> QED BY <1>1, <1>2

\* Padding moves a line forward, and moves nothing that is on it.
LEMMA PadMoves ==
  ASSUME NEW line, NEW last, Written(line, last), NEW column \in Nat
  PROVE  LET padded == PadTo(line, column) IN
         /\ Written(padded, last)
         /\ padded.width = IF line.width >= column - 1 THEN line.width ELSE column - 1
<1>1. line.width \in Int /\ column - 1 \in Int /\ line \in Lines
  BY DEF Written, Lines
<1>2. Max({line.width, column - 1}) = IF line.width >= column - 1 THEN line.width ELSE column - 1
  BY <1>1, MaxOfTwo
<1> DEFINE far == IF line.width >= column - 1 THEN line.width ELSE column - 1
<1>3. PadTo(line, column) = [line EXCEPT !.width = far]
  BY <1>2 DEF PadTo
<1>4. far \in Nat /\ last <= far
  BY DEF Written, Lines
<1>5. /\ PadTo(line, column) \in Lines /\ PadTo(line, column).spans = line.spans
      /\ PadTo(line, column).width = far
  BY <1>1, <1>3, <1>4 DEF Lines
<1> HIDE DEF far
<1> QED BY <1>4, <1>5 DEF Written, far

\* Spaces move the end of a line and no cell.
LEMMA SpaceMoves ==
  ASSUME NEW line, NEW last, Written(line, last), NEW count \in Nat
  PROVE  LET spaced == Space(line, count) IN
         Written(spaced, last) /\ spaced.width = line.width + count
<1>1. line.width \in Nat /\ line \in Lines
  BY DEF Written, Lines
<1>2. /\ Space(line, count) \in Lines /\ Space(line, count).spans = line.spans
      /\ Space(line, count).width = line.width + count
  BY <1>1 DEF Space, Lines
<1> QED BY <1>1, <1>2 DEF Written

\* The pieces of a line of a table.
LEMMA SpansOfLine ==
  ASSUME NEW line \in Lines
  PROVE  /\ line.spans \in Seq(Spans) /\ Len(line.spans) \in Nat
         /\ \A k \in 1 .. Len(line.spans) :
              line.spans[k] \in Spans /\ line.spans[k].from \in Nat /\ line.spans[k].to \in Nat
<1>1. line.spans \in Seq(Spans)
  BY DEF Lines
<1>2. \A span \in Spans : span.from \in Nat /\ span.to \in Nat
  BY DEF Spans
<1>3. \A k \in 1 .. Len(line.spans) : line.spans[k] \in Spans
  BY <1>1, ElementOfSeq
<1> QED BY <1>1, <1>2, <1>3, LenProperties

\* A mark can be written anywhere, a cell only where the gap was left.
LEMMA PushWrites ==
  ASSUME NEW line, NEW last, Written(line, last), NEW what \in Marks \cup CellNames,
         NEW size \in Nat,
         what \in CellNames =>
           /\ what.part = "expires" \/ line.width >= last + 2
           /\ size > 0 => Fine([what |-> what, from |-> line.width + 1, to |-> line.width + size])
  PROVE  LET pushed == Push(line, what, size) IN
         Written(pushed, pushed.width) /\ pushed.width = line.width + size
<1>1. line \in Lines /\ line.width \in Nat /\ line.spans \in Seq(Spans)
      /\ last \in Nat /\ last <= line.width
  BY DEF Written, Lines
<1>2. CASE size = 0
  <2>1. Push(line, what, size) = line
    BY <1>2 DEF Push
  <2>2. \A k \in 1 .. Len(line.spans) : line.spans[k] \in Spans /\ line.spans[k].to \in Nat
    BY <1>1, SpansOfLine
  <2> QED BY <1>1, <1>2, <2>1, <2>2 DEF Written
<1>3. CASE size # 0
  <2> DEFINE span == [what |-> what, from |-> line.width + 1, to |-> line.width + size]
             spans == Append(line.spans, span)
             pushed == Push(line, what, size)
  <2>1. pushed = [spans |-> spans, width |-> line.width + size]
    BY <1>3 DEF Push
  <2>2. span \in Spans
    BY <1>1 DEF Spans
  <2>3. Fine(span)
    BY <1>3 DEF Fine
  <2>4. span.from = line.width + 1 /\ span.to = line.width + size /\ span.what = what
    OBVIOUS
  <2> HIDE DEF span
  <2>5. /\ spans \in Seq(Spans) /\ Len(spans) = Len(line.spans) + 1
        /\ \A k \in 1 .. Len(line.spans) : spans[k] = line.spans[k]
        /\ spans[Len(line.spans) + 1] = span /\ Len(line.spans) \in Nat
    BY <1>1, <2>2, AppendProperties, LenProperties
  <2> HIDE DEF spans, pushed
  <2>6. pushed \in Lines /\ pushed.spans = spans /\ pushed.width = line.width + size
    BY <1>1, <2>1, <2>5 DEF Lines
  <2> DEFINE n == Len(line.spans)
             old == line.spans
             from == line.width + 1
             to == line.width + size
  <2>7. /\ n \in Nat /\ Len(spans) = n + 1 /\ spans[n + 1] = span
        /\ \A k \in 1 .. n : spans[k] = old[k]
    BY <2>5
  <2>13. \A k \in 1 .. n : /\ Fine(old[k]) /\ old[k].from \in 1 .. old[k].to
                           /\ old[k].to <= last /\ old[k].to \in Nat
    BY <1>1, SpansOfLine DEF Written
  <2>14. \A k \in 2 .. n : old[k - 1].to < old[k].from
    BY DEF Written
  <2>15. \A k \in 2 .. n : old[k].what \in CellNames /\ Part(old[k]) # "expires" =>
                             old[k].from - old[k - 1].to > 2
    BY DEF Written
  <2>16. from \in Nat /\ to \in Nat /\ 1 <= from /\ from <= to /\ last < from /\ last <= to
    BY <1>1, <1>3
  <2>17. what \in CellNames /\ what.part # "expires" => from - last > 2
    BY <1>1
  <2>18. span.from = from /\ span.to = to /\ span.what = what
    BY <2>4
  <2> HIDE DEF n, old, from, to
  <2>8. ASSUME NEW k \in 1 .. n + 1
        PROVE  Fine(spans[k]) /\ spans[k].from \in 1 .. spans[k].to /\ spans[k].to <= to
    <3>1. CASE k = n + 1
      <4>1. spans[k] = span
        BY <2>7, <3>1
      <4>2. span.from \in 1 .. span.to /\ span.to <= to
        BY <2>16, <2>18
      <4> QED BY <2>3, <4>1, <4>2
    <3>2. CASE k # n + 1
      <4>1. k \in 1 .. n /\ spans[k] = old[k]
        BY <2>7, <3>2
      <4>2. Fine(old[k]) /\ old[k].from \in 1 .. old[k].to
        BY <2>13, <4>1
      <4>3. old[k].to <= to
        BY <1>1, <2>13, <2>16, <4>1
      <4> QED BY <4>1, <4>2, <4>3
    <3> QED BY <3>1, <3>2
  <2>19. ASSUME NEW k \in 2 .. n + 1, k = n + 1
         PROVE  spans[k - 1].to <= last /\ spans[k - 1].to \in Nat /\ spans[k] = span
    <3>1. n \in 1 .. n /\ k - 1 = n
      BY <2>7, <2>19
    <3> QED BY <2>7, <2>13, <2>19, <3>1
  <2>20. ASSUME NEW k \in 2 .. n + 1, k # n + 1
         PROVE  k \in 2 .. n /\ spans[k - 1] = old[k - 1] /\ spans[k] = old[k]
    <3>1. k \in 2 .. n /\ k \in 1 .. n /\ k - 1 \in 1 .. n
      BY <2>7, <2>20
    <3> QED BY <2>7, <3>1
  <2>9. ASSUME NEW k \in 2 .. n + 1, spans[k].what \in CellNames, Part(spans[k]) # "expires"
        PROVE  spans[k].from - spans[k - 1].to > 2
    <3>1. CASE k # n + 1
      BY <2>9, <2>15, <2>20, <3>1
    <3>2. CASE k = n + 1
      <4>1. spans[k - 1].to <= last /\ spans[k - 1].to \in Nat /\ spans[k] = span
        BY <2>19, <3>2
      <4>2. from - last > 2
        BY <2>9, <2>17, <2>18, <4>1 DEF Part
      <4>3. spans[k].from = from
        BY <2>18, <4>1
      <4> DEFINE end == spans[k - 1].to
      <4>4. end <= last /\ end \in Nat
        BY <4>1
      <4> HIDE DEF end
      <4>5. from - end > 2
        BY <1>1, <2>16, <4>2, <4>4
      <4> QED BY <4>3, <4>5 DEF end
    <3> QED BY <3>1, <3>2
  <2>10. ASSUME NEW k \in 2 .. n + 1 PROVE spans[k - 1].to < spans[k].from
    <3>1. CASE k # n + 1
      BY <2>14, <2>20, <3>1
    <3>2. CASE k = n + 1
      <4>1. spans[k - 1].to <= last /\ spans[k - 1].to \in Nat /\ spans[k] = span
        BY <2>19, <3>2
      <4> QED BY <1>1, <2>16, <2>18, <4>1
    <3> QED BY <3>1, <3>2
  <2>11. pushed.width = line.width + size /\ line.width + size \in Nat /\ pushed.spans = spans
    BY <1>1, <2>6
  <2>12. Written(pushed, pushed.width)
    <3>1. pushed.width \in Nat /\ Len(pushed.spans) = n + 1
      BY <2>7, <2>11
    <3>2. \A k \in 1 .. n + 1 :
            /\ Fine(pushed.spans[k]) /\ pushed.spans[k].from \in 1 .. pushed.spans[k].to
            /\ pushed.spans[k].to <= pushed.width
      BY <2>8, <2>11 DEF to
    <3>3. \A k \in 2 .. n + 1 :
            /\ pushed.spans[k - 1].to < pushed.spans[k].from
            /\ pushed.spans[k].what \in CellNames /\ Part(pushed.spans[k]) # "expires" =>
                 pushed.spans[k].from - pushed.spans[k - 1].to > 2
      BY <2>9, <2>10, <2>11
    <3>4. pushed.width <= pushed.width
      BY <3>1
    <3> QED BY <2>6, <3>1, <3>2, <3>3, <3>4 DEF Written
  <2> QED BY <2>11, <2>12 DEF pushed
<1> QED BY <1>2, <1>3

\* A cell begins in its column when what is before it ends early enough.
LEMMA CellWrites ==
  ASSUME NEW line, NEW last, Written(line, last), NEW what \in CellNames,
         NEW size \in Nat, NEW column \in Nat, line.width <= column - 1, last + 2 <= column - 1,
         size > 0 => Fine([what |-> what, from |-> column, to |-> column - 1 + size])
  PROVE  LET pushed == Push(PadTo(line, column), what, size) IN
         Written(pushed, pushed.width) /\ pushed.width = column - 1 + size
<1>1. last \in Nat /\ line.width \in Nat /\ column \in Nat \ {0}
  BY DEF Written, Lines
<1> DEFINE padded == PadTo(line, column)
<1>2. Written(padded, last) /\ padded.width = column - 1
  <2>1. /\ Written(padded, last)
        /\ padded.width = IF line.width >= column - 1 THEN line.width ELSE column - 1
    BY <1>1, PadMoves
  <2> HIDE DEF padded
  <2> QED BY <1>1, <2>1
<1> HIDE DEF padded
<1>3. /\ padded.width + 1 = column /\ padded.width + size = column - 1 + size
      /\ padded.width >= last + 2
  BY <1>1, <1>2
<1> QED BY <1>2, <1>3, PushWrites DEF padded

\* A cell is written in its column if the line leaves the gap before it.
LEMMA CellAfter ==
  ASSUME NEW line, Written(line, line.width), NEW what \in CellNames,
         NEW size \in Nat, NEW column \in Nat, line.width + 2 <= column - 1,
         size > 0 => Fine([what |-> what, from |-> column, to |-> column - 1 + size])
  PROVE  LET pushed == Push(PadTo(line, column), what, size) IN
         Written(pushed, pushed.width) /\ pushed.width = column - 1 + size
<1>1. line.width \in Nat /\ line.width <= column - 1
  BY DEF Written, Lines
<1> QED BY <1>1, CellWrites

\* A line that opens with a mark.
LEMMA MarkWritten ==
  ASSUME NEW mark \in Marks, NEW column \in Nat \ {0}, NEW size \in Nat
  PROVE  LET pushed == Push(PadTo(NewLine, column), mark, size) IN
         Written(pushed, pushed.width) /\ pushed.width = column - 1 + size
<1> DEFINE margin == PadTo(NewLine, column)
           pushed == Push(margin, mark, size)
<1>1. /\ Written(margin, 0)
      /\ margin.width = IF NewLine.width >= column - 1 THEN NewLine.width ELSE column - 1
  BY NothingWritten, PadMoves
<1>2. margin.width = column - 1
  BY <1>1, NothingWritten
<1> HIDE DEF margin
<1>3. Written(pushed, pushed.width) /\ pushed.width = margin.width + size
  BY <1>1, MarksAreNotCells, PushWrites
<1> HIDE DEF pushed
<1>4. Written(pushed, pushed.width) /\ pushed.width = column - 1 + size
  BY <1>2, <1>3
<1> QED BY <1>4 DEF pushed, margin

\* The rail before a row of a table.
LEMMA RailWritten ==
  LET rail == Push(PadTo(NewLine, RAIL_COL), [part |-> "rail"], 1)
  IN  Written(rail, rail.width) /\ rail.width = 3
<1> DEFINE size == 1
           rail == Push(PadTo(NewLine, RAIL_COL), [part |-> "rail"], size)
<1>1. [part |-> "rail"] \in Marks
  BY DEF Marks
<1>2. RAIL_COL \in Nat \ {0} /\ size \in Nat /\ RAIL_COL - 1 + size = 3
  BY DEF RAIL_COL
<1> HIDE DEF size
<1>3. Written(rail, rail.width) /\ rail.width = RAIL_COL - 1 + size
  BY <1>1, <1>2, MarkWritten
<1> HIDE DEF rail
<1>4. Written(rail, rail.width) /\ rail.width = 3
  BY <1>2, <1>3
<1> QED BY <1>4 DEF rail, size

-----------------------------------------------------------------------------
(* The rows.                                                               *)

\* A row of the routing table, whose cells are no wider than their columns.
LEMMA RouteCellsWritten ==
  ASSUME InRoutes, NEW id \in RowIds,
         NEW destination \in Nat, NEW gateway \in Nat, NEW interface \in Nat, NEW flags \in Nat,
         destination + 2 <= RouteWidths.destination, gateway + 2 <= RouteWidths.gateway,
         interface + 2 <= RouteWidths.interface,
         \A r \in AllRows : id = r.id /\ gateway < r.gateway =>
           RowEnd(RouteWidths) >= Edge /\ gateway = RouteWidths.gateway - 2
  PROVE  LET row == RouteCells(id, destination, gateway, interface, flags) IN
         Written(row, row.width)
<1> DEFINE w == RouteWidths
           start == 6
           a == 6 + w.destination
           b == 6 + w.destination + w.gateway
           c == 6 + w.destination + w.gateway + w.interface
           Named(part) == [block |-> asked.kind, row |-> id, part |-> part]
           first == Cell(NewLine, 6, id, "destination", destination)
           second == Cell(first, a, id, "gateway", gateway)
           third == Cell(second, b, id, "interface", interface)
           fourth == Cell(third, c, id, "flags", flags)
<1>1. RouteCells(id, destination, gateway, interface, flags) = fourth
  BY DEF RouteCells, ROW_COL
<1>2. /\ w.destination \in Nat /\ w.gateway \in Nat /\ w.interface \in Nat
      /\ 20 + w.destination + w.interface <= Edge => RowEnd(w) <= Edge
      /\ RowEnd(w) = 5 + w.destination + w.gateway + w.interface + 6
  BY RouteWidthsAre DEF RowEnd, ROW_COL
<1>3. Edge \in 62 .. 96
  BY EdgeIs, PagesAssumption DEF InRoutes, InTable
<1>4. asked.kind = "routes"
  BY DEF InRoutes, InTable
<1>5. \A part \in {"destination", "gateway", "interface", "flags"} :
        /\ Named(part) \in CellNames /\ Named(part).part = part /\ Named(part).row = id
        /\ Named(part).block = asked.kind
  BY <1>4 DEF CellNames, RowIds
<1> HIDE DEF w, Named
<1>6. destination > 0 =>
        Fine([what |-> Named("destination"), from |-> start, to |-> start - 1 + destination])
  BY <1>2, <1>3, <1>4, <1>5 DEF Fine, RouteCellFine, Part, w
<1>7. gateway > 0 => Fine([what |-> Named("gateway"), from |-> a, to |-> a - 1 + gateway])
  <2>1. a - 1 + gateway - a + 1 = gateway
    BY <1>2
  <2>2. a - 1 + gateway <= RowEnd(w)
    BY <1>2 DEF w
  <2> QED BY <1>2, <1>3, <1>4, <1>5, <2>1, <2>2 DEF Fine, RouteCellFine, Part, Size, w
<1>8. interface > 0 => Fine([what |-> Named("interface"), from |-> b, to |-> b - 1 + interface])
  <2>1. b - 1 + interface <= RowEnd(w)
    BY <1>2 DEF w
  <2> QED BY <1>2, <1>3, <1>4, <1>5, <2>1 DEF Fine, RouteCellFine, Part, w
<1>9. flags > 0 => Fine([what |-> Named("flags"), from |-> c, to |-> c - 1 + flags])
  <2>1. c - 1 + flags - c + 1 = flags
    BY <1>2
  <2>2. flags > 6 \/ c - 1 + flags <= RowEnd(w)
    BY <1>2 DEF w
  <2> QED BY <1>2, <1>3, <1>4, <1>5, <2>1, <2>2 DEF Fine, RouteCellFine, Part, Size, w
<1>10. Written(first, first.width) /\ first.width = start - 1 + destination
  <2>1. first = Push(PadTo(NewLine, start), Named("destination"), destination)
    BY DEF Cell, Named
  <2>2. Named("destination") \in CellNames /\ start \in Nat
    BY <1>5
  <2>3. Written(NewLine, NewLine.width) /\ NewLine.width + 2 <= start - 1
    BY NothingWritten
  <2> HIDE DEF first, start
  <2> QED BY <1>6, <2>1, <2>2, <2>3, CellAfter
<1> HIDE DEF first
<1>11. Written(second, second.width) /\ second.width = a - 1 + gateway
  <2>1. second = Push(PadTo(first, a), Named("gateway"), gateway)
    BY DEF Cell, Named
  <2>2. a \in Nat /\ first.width + 2 <= a - 1
    BY <1>2, <1>10 DEF w
  <2> HIDE DEF second, a
  <2>3. Named("gateway") \in CellNames
    BY <1>5
  <2> QED BY <1>7, <2>3, <1>10, <2>1, <2>2, CellAfter
<1> HIDE DEF second
<1>12. Written(third, third.width) /\ third.width = b - 1 + interface
  <2>1. third = Push(PadTo(second, b), Named("interface"), interface)
    BY DEF Cell, Named
  <2>2. b \in Nat /\ second.width + 2 <= b - 1
    BY <1>2, <1>11 DEF w
  <2> HIDE DEF third, b
  <2>3. Named("interface") \in CellNames
    BY <1>5
  <2> QED BY <1>8, <2>3, <1>11, <2>1, <2>2, CellAfter
<1> HIDE DEF third
<1>13. Written(fourth, fourth.width)
  <2>1. fourth = Push(PadTo(third, c), Named("flags"), flags)
    BY DEF Cell, Named
  <2>2. c \in Nat /\ third.width + 2 <= c - 1
    BY <1>2, <1>12 DEF w
  <2> HIDE DEF fourth, c
  <2>3. Named("flags") \in CellNames
    BY <1>5
  <2> QED BY <1>9, <2>3, <1>12, <2>1, <2>2, CellAfter
<1> HIDE DEF fourth
<1> QED BY <1>1, <1>13

\* What is cut fills the room it is cut to.
LEMMA TruncateFills ==
  ASSUME glyphs \in Glyphs, NEW size \in Nat, NEW room \in Nat, room >= 3
  PROVE  /\ Truncate(size, room) \in Nat /\ Truncate(size, room) <= room
         /\ Truncate(size, room) < size => Truncate(size, room) = room
<1>1. glyphs.ellipsis \in Nat /\ glyphs.ellipsis <= 3
  BY PagesAssumption
<1> DEFINE less == Less(room, glyphs.ellipsis)
<1>2. less = room - glyphs.ellipsis
  BY <1>1, LessIs
<1>3. Truncate(size, room) = IF size <= room \/ room = 0 THEN size ELSE less + glyphs.ellipsis
  BY DEF Truncate
<1> HIDE DEF less
<1> QED BY <1>1, <1>2, <1>3

\* The header of the routing table.
LEMMA RouteHeaderWritten ==
  ASSUME InRoutes
  PROVE  RouteCells("header", 11, 7, 5, 5) \in GridLines
<1>1. \A r \in AllRows : r.id # "header"
  BY PagesAssumption DEF InRoutes, InTable, AllRows
<1>2. 11 + 2 <= RouteWidths.destination /\ 7 + 2 <= RouteWidths.gateway
      /\ 5 + 2 <= RouteWidths.interface
  BY RouteWidthsAre
<1>3. "header" \in RowIds
  BY DEF RowIds
<1> DEFINE row == RouteCells("header", 11, 7, 5, 5)
<1>4. Written(row, row.width)
  BY <1>1, <1>2, <1>3, RouteCellsWritten
<1> QED BY <1>4 DEF GridLines, Written

\* The row of a route, wherever its columns begin.
LEMMA RouteRowWritten ==
  ASSUME InRoutes, NEW path \in AllRows
  PROVE  RouteRow(path) \in GridLines
<1> DEFINE w == RouteWidths
           room == Less(w.gateway, GAP)
           gateway == Truncate(path.gateway, room)
           cells == RouteCells(path.id, path.destination, gateway, path.interface, path.flags)
           spaced == Space(cells, 1)
           row == Push(spaced, Piece("routes", path.id, "expires"), path.expires)
<1>1. /\ path.destination \in Nat /\ path.gateway \in Nat /\ path.interface \in Nat
      /\ path.flags \in Nat /\ path.expires \in Nat
      /\ \A r \in AllRows : r.id = path.id => r = path
  BY PagesAssumption DEF InRoutes, InTable, AllRows
<1>2. /\ w.destination >= path.destination + 2 /\ w.interface >= path.interface + 2
      /\ w.gateway < path.gateway + 2 => RowEnd(w) >= Edge
      /\ w.gateway \in Nat /\ w.gateway >= 9
  BY RouteWidthsAre
<1>3. RouteRow(path) = IF path.expires = 0 THEN cells ELSE row
  BY DEF RouteRow
<1> HIDE DEF w
<1>4. room \in Nat /\ room = w.gateway - 2
  <2>1. GAP \in Nat /\ GAP = 2
    BY DEF GAP
  <2>2. room \in Nat /\ room = IF w.gateway >= GAP THEN w.gateway - GAP ELSE 0
    BY <1>2, <2>1, LessIs
  <2> QED BY <1>2, <2>1, <2>2
<1> HIDE DEF room
<1>5. /\ gateway \in Nat /\ gateway + 2 <= w.gateway
      /\ gateway < path.gateway => gateway = w.gateway - 2
  <2>1. room >= 3
    BY <1>2, <1>4
  <2> DEFINE size == path.gateway
  <2>2. size \in Nat
    BY <1>1
  <2> HIDE DEF size, gateway
  <2>3. gateway = Truncate(size, room)
    BY DEF gateway, size
  <2>4. /\ Truncate(size, room) \in Nat /\ Truncate(size, room) <= room
        /\ Truncate(size, room) < size => Truncate(size, room) = room
    BY <1>4, <2>1, <2>2, TruncateFills DEF InRoutes, InTable
  <2>5. gateway \in Nat /\ gateway <= room /\ (gateway < path.gateway => gateway = room)
    BY <2>3, <2>4 DEF size
  <2> QED BY <1>2, <1>4, <2>5
<1> HIDE DEF gateway
<1>6. \A r \in AllRows : path.id = r.id /\ gateway < r.gateway =>
        RowEnd(w) >= Edge /\ gateway = w.gateway - 2
  BY <1>1, <1>2, <1>5
<1>7. path.id \in RowIds
  BY DEF RowIds
<1>8. Written(cells, cells.width)
  <2>1. path.destination + 2 <= w.destination /\ path.interface + 2 <= w.interface
    BY <1>1, <1>2, RouteWidthsAre DEF w
  <2> HIDE DEF cells
  <2> QED BY <1>1, <1>5, <1>6, <1>7, <2>1, RouteCellsWritten DEF cells, w
<1> HIDE DEF cells
<1>9. Written(spaced, cells.width) /\ spaced.width \in Nat
  <2>1. cells.width \in Nat
    BY <1>8 DEF Written, Lines
  <2>2. Written(spaced, cells.width) /\ spaced.width = cells.width + 1
    BY <1>8, SpaceMoves
  <2> QED BY <2>1, <2>2
<1> HIDE DEF spaced
<1>10. Written(row, row.width)
  <2> DEFINE what == Piece("routes", path.id, "expires")
             span == [what |-> what, from |-> spaced.width + 1, to |-> spaced.width + path.expires]
  <2>1. what \in CellNames /\ what.part = "expires" /\ what.block = "routes"
    BY <1>7 DEF Piece, CellNames, RowIds
  <2> HIDE DEF what
  <2>2. span.what = what
    OBVIOUS
  <2>3. Fine(span)
    BY <2>1, <2>2 DEF Fine, RouteCellFine, Part, InRoutes, InTable
  <2>4. row = Push(spaced, what, path.expires)
    BY DEF what
  <2> HIDE DEF row
  <2> QED BY <1>1, <1>9, <2>1, <2>3, <2>4, PushWrites
<1> HIDE DEF row
<1> QED BY <1>3, <1>8, <1>10 DEF GridLines, Written

\* A line of a table that holds no cell.
LEMMA HeadingWritten ==
  ASSUME terminal \in Terminals, NEW size \in Nat
  PROVE  Heading(size) \in GridLines
<1> DEFINE margin == PadTo(NewLine, RAIL_COL)
           heading == Push(margin, [part |-> "heading"], size)
           named == Space(heading, 1)
           rest == Less(Edge, MARGIN + (named.width - MARGIN))
           line == Push(named, [part |-> "rule"], rest)
<1>1. \A part \in {"heading", "rule"} : [part |-> part] \in Marks
  BY DEF Marks
<1>2. Written(margin, 0)
  BY NothingWritten, PadMoves DEF RAIL_COL
<1> HIDE DEF margin
<1>3. Written(heading, heading.width)
  BY <1>1, <1>2, MarksAreNotCells, PushWrites
<1> HIDE DEF heading
<1>4. Written(named, heading.width) /\ named.width \in Nat
  <2>1. heading.width \in Nat
    BY <1>3 DEF Written, Lines
  <2>2. Written(named, heading.width) /\ named.width = heading.width + 1
    BY <1>3, SpaceMoves
  <2> QED BY <2>1, <2>2
<1>5. Edge \in Nat
  <2>1. Edge \in 62 .. 96
    BY EdgeIs, PagesAssumption
  <2> QED BY <2>1
<1>6. rest \in Nat
  <2>1. MARGIN + (named.width - MARGIN) = named.width
    BY <1>4 DEF MARGIN
  <2> QED BY <1>4, <1>5, <2>1, LessIs
<1> HIDE DEF named, rest
<1>7. Written(line, line.width)
  BY <1>1, <1>4, <1>6, MarksAreNotCells, PushWrites
<1> QED BY <1>7 DEF GridLines, Written, Heading, heading, margin, named, rest

\* A row of the socket table; its last cell ends where all pids end.
LEMMA SocketCellsWritten ==
  ASSUME InSockets, NEW id \in RowIds, NEW proto \in Nat, NEW address \in Nat, NEW mark \in Nat,
         NEW owner \in Nat, NEW detail \in Nat, NEW pid \in Nat, mark = Indent(id),
         proto <= 5, address + 2 <= SocketWidths.address, mark + owner + 2 <= SocketWidths.owner,
         detail > 0 => detail + 2 <= SocketWidths.detail, pid <= SocketWidths.pid
  PROVE  SocketCells(id, proto, address, mark, owner, detail, pid) \in GridLines
<1> DEFINE w == SocketWidths
           start == 6
           a == 13
           o == 13 + w.address
           d == 13 + w.address + w.owner
           spare == Less(PidEnd, pid)
           Named(part) == [block |-> asked.kind, row |-> id, part |-> part]
           margin == PadTo(NewLine, RAIL_COL)
           rail == Push(margin, [part |-> "rail"], 1)
           first == Cell(rail, start, id, "proto", proto)
           second == Cell(first, a, id, "address", address)
           padded == PadTo(second, o)
           spaced == Space(padded, mark)
           marked == PadTo(spaced, 0)
           third == Push(marked, Named("owner"), owner)
           told == Cell(third, d, id, "detail", detail)
           fourth == IF detail = 0 THEN third ELSE told
           row == Push(PadTo(fourth, spare + 1), Named("pid"), pid)
<1>1. asked.kind = "listen"
  BY DEF InSockets, InTable
<1>2. SocketCells(id, proto, address, mark, owner, detail, pid) = row
  BY <1>1 DEF SocketCells, ROW_COL, PROTO_WIDTH, PushRight, Cell, Piece
<1>3. \A part \in {"proto", "address", "owner", "detail", "pid"} :
        /\ Named(part) \in CellNames /\ Named(part).part = part
        /\ Named(part).block = asked.kind /\ Named(part).row = id
  BY <1>1 DEF CellNames, RowIds
<1>4. /\ w.address \in Nat /\ w.owner \in Nat /\ w.detail \in Nat /\ w.pid \in Nat
      /\ PidEnd = 12 + w.address + w.owner + w.detail + w.pid
      /\ 5 + Narrowest <= Edge => PidEnd <= Edge
  BY SocketWidthsAre
<1>5. Edge \in 62 .. 96
  BY EdgeIs, PagesAssumption DEF InSockets, InTable
<1> HIDE DEF Named
<1>6. spare \in Nat /\ spare + pid = PidEnd /\ spare >= 12 + w.address + w.owner + w.detail
  <2>1. PidEnd \in Nat /\ PidEnd >= pid
    BY <1>4
  <2>2. spare \in Nat /\ spare = IF PidEnd >= pid THEN PidEnd - pid ELSE 0
    BY <2>1, LessIs
  <2> HIDE DEF spare
  <2> QED BY <1>4, <2>1, <2>2
<1> HIDE DEF spare, w
\* Where a cell must stand.
<1>7. ASSUME NEW part \in {"proto", "address", "owner", "detail", "pid"},
             NEW from \in Nat, NEW to \in Nat,
             to <= PidEnd, part = "address" => from = a, part = "owner" => from = o + mark,
             part = "detail" => from = d, part = "pid" => to = PidEnd
      PROVE  Fine([what |-> Named(part), from |-> from, to |-> to])
  <2>1. PidEnd \in Nat
    BY <1>4
  <2> QED BY <1>1, <1>3, <1>4, <1>5, <1>7, <2>1 DEF Fine, SocketCellFine, Part, w
<1>8. Written(rail, rail.width) /\ rail.width = 3
  <2>1. rail = Push(PadTo(NewLine, RAIL_COL), [part |-> "rail"], 1)
    OBVIOUS
  <2> HIDE DEF rail
  <2> QED BY <2>1, RailWritten
<1> HIDE DEF rail
<1>9. Written(first, first.width) /\ first.width = start - 1 + proto
  <2>1. first = Push(PadTo(rail, start), Named("proto"), proto)
    BY DEF Cell, Named
  <2>2. start \in Nat /\ rail.width + 2 <= start - 1 /\ start - 1 + proto \in Nat
        /\ start - 1 + proto <= PidEnd
    BY <1>4, <1>8 DEF w
  <2>3. Named("proto") \in CellNames
    BY <1>3
  <2> HIDE DEF first, start
  <2>4. Fine([what |-> Named("proto"), from |-> start, to |-> start - 1 + proto])
    BY <1>7, <2>2
  <2> QED BY <1>8, <2>1, <2>2, <2>3, <2>4, CellAfter
<1> HIDE DEF first
<1>10. Written(second, second.width) /\ second.width = a - 1 + address
  <2>1. second = Push(PadTo(first, a), Named("address"), address)
    BY DEF Cell, Named
  <2>2. a \in Nat /\ first.width + 2 <= a - 1 /\ a - 1 + address \in Nat
        /\ a - 1 + address <= PidEnd
    BY <1>4, <1>9 DEF w
  <2>3. Named("address") \in CellNames
    BY <1>3
  <2> HIDE DEF second, a
  <2>4. Fine([what |-> Named("address"), from |-> a, to |-> a - 1 + address])
    BY <1>7, <2>2
  <2> QED BY <1>9, <2>1, <2>2, <2>3, <2>4, CellAfter
<1> HIDE DEF second
<1>11. Written(marked, second.width) /\ marked.width = o - 1 + mark
  <2>1. o \in Nat /\ o >= 1 /\ second.width <= o - 1 /\ second.width \in Nat
    BY <1>4, <1>10 DEF w
  <2> HIDE DEF o
  <2>2. /\ Written(padded, second.width)
        /\ padded.width = IF second.width >= o - 1 THEN second.width ELSE o - 1
    BY <1>10, <2>1, PadMoves
  <2>3. padded.width = o - 1
    BY <2>1, <2>2
  <2> HIDE DEF padded
  <2>4. Written(spaced, second.width) /\ spaced.width = padded.width + mark
    BY <2>2, SpaceMoves
  <2>5. spaced.width = o - 1 + mark /\ spaced.width \in Nat
    BY <2>1, <2>3, <2>4
  <2> HIDE DEF spaced
  <2>6. /\ Written(marked, second.width)
        /\ marked.width = IF spaced.width >= 0 - 1 THEN spaced.width ELSE 0 - 1
    BY <2>4, PadMoves
  <2> QED BY <2>5, <2>6
<1> HIDE DEF marked
<1>12. Written(third, third.width) /\ third.width = o - 1 + mark + owner
  <2> DEFINE from == marked.width + 1
             to == marked.width + owner
  <2>1. marked.width \in Nat /\ from \in Nat /\ to \in Nat /\ to = o - 1 + mark + owner
        /\ from = o + mark /\ marked.width >= second.width + 2 /\ to <= PidEnd
    BY <1>4, <1>10, <1>11 DEF w
  <2>2. Named("owner") \in CellNames
    BY <1>3
  <2> HIDE DEF from, to
  <2>3. Fine([what |-> Named("owner"), from |-> from, to |-> to])
    BY <1>7, <2>1
  <2> HIDE DEF third
  <2>4. Written(third, third.width) /\ third.width = marked.width + owner
    BY <1>11, <2>1, <2>2, <2>3, PushWrites DEF third, from, to
  <2> QED BY <2>1, <2>4 DEF to
<1> HIDE DEF third
<1>13. ASSUME detail > 0 PROVE Written(told, told.width) /\ told.width = d - 1 + detail
  <2>1. told = Push(PadTo(third, d), Named("detail"), detail)
    BY DEF Cell, Named
  <2>2. d \in Nat /\ third.width + 2 <= d - 1 /\ d - 1 + detail \in Nat
        /\ d - 1 + detail <= PidEnd
    BY <1>4, <1>12, <1>13 DEF w
  <2>3. Named("detail") \in CellNames
    BY <1>3
  <2> HIDE DEF told, d
  <2>4. Fine([what |-> Named("detail"), from |-> d, to |-> d - 1 + detail])
    BY <1>7, <2>2
  <2> QED BY <1>12, <2>1, <2>2, <2>3, <2>4, CellAfter
<1> HIDE DEF told
<1>14. Written(fourth, fourth.width) /\ fourth.width + 2 <= spare
  <2>1. CASE detail = 0
    <3>1. fourth = third
      BY <2>1
    <3>2. third.width + 2 <= spare
      BY <1>4, <1>6, <1>12, <2>1 DEF w
    <3> QED BY <1>12, <3>1, <3>2
  <2>2. CASE detail # 0
    <3>1. fourth = told /\ detail > 0
      BY <2>2
    <3> HIDE DEF fourth
    <3>2. Written(told, told.width) /\ told.width = d - 1 + detail
      BY <1>13, <3>1
    <3>3. d - 1 + detail + 2 <= spare
      BY <1>4, <1>6, <3>1 DEF w
    <3>4. d - 1 + detail \in Nat
      BY <1>4 DEF w
    <3> QED BY <3>1, <3>2, <3>3
  <2> QED BY <2>1, <2>2
<1> HIDE DEF fourth
<1>15. Written(row, row.width)
  <2> DEFINE column == spare + 1
  <2>1. column \in Nat /\ column - 1 + pid = PidEnd /\ fourth.width + 2 <= column - 1
        /\ PidEnd \in Nat
    BY <1>4, <1>6, <1>14
  <2>2. Named("pid") \in CellNames
    BY <1>3
  <2> HIDE DEF column
  <2>3. Fine([what |-> Named("pid"), from |-> column, to |-> column - 1 + pid])
    BY <1>7, <2>1
  <2> HIDE DEF row
  <2> QED BY <1>14, <2>1, <2>2, <2>3, CellAfter DEF row, column
<1> HIDE DEF row
<1> QED BY <1>2, <1>15 DEF GridLines, Written

\* The header of the list of sockets.
LEMMA SocketHeaderWritten ==
  ASSUME InSockets
  PROVE  SocketCells("header", 5, 7, 0, 5, 0, 3) \in GridLines
<1>1. "header" \in RowIds /\ Indent("header") = 0
  BY DEF RowIds, Indent
<1>2. /\ 7 + 2 <= SocketWidths.address /\ 0 + 5 + 2 <= SocketWidths.owner
      /\ 3 <= SocketWidths.pid /\ 5 <= 5 /\ (0 > 0 => 0 + 2 <= SocketWidths.detail)
  BY SocketWidthsAre
<1> QED BY <1>1, <1>2, SocketCellsWritten

\* The row of a socket.
LEMMA SocketRowWritten ==
  ASSUME InSockets, NEW socket \in AllRows
  PROVE  SocketRow(socket) \in GridLines
<1>1. socket.owner \in Nat /\ socket.detail \in Nat /\ socket.pid \in Nat
  BY PagesAssumption DEF InSockets, InTable, AllRows
<1>2. socket.id \in RowIds /\ Indent(socket.id) = MarkWidth
  <2>1. socket.id # "header"
    BY PagesAssumption DEF InSockets, InTable, AllRows
  <2> QED BY <2>1 DEF RowIds, Indent
<1> DEFINE address == AddressSize(socket)
           mark == MarkWidth
           proto == 3
<1>3. /\ address \in Nat /\ mark \in Nat /\ proto \in Nat /\ proto <= 5
      /\ SocketWidths.address \in Nat /\ SocketWidths.owner \in Nat
      /\ SocketWidths.detail \in Nat /\ SocketWidths.pid \in Nat
      /\ SocketWidths.address >= address + 2 /\ SocketWidths.owner >= mark + socket.owner + 2
      /\ socket.detail > 0 => SocketWidths.detail >= socket.detail + 2
      /\ SocketWidths.pid >= socket.pid
  BY SocketWidthsAre
<1>4. SocketRow(socket) =
        SocketCells(socket.id, proto, address, mark, socket.owner, socket.detail, socket.pid)
      /\ mark = Indent(socket.id)
  BY <1>2 DEF SocketRow
<1> HIDE DEF address, mark, proto
<1>5. /\ address + 2 <= SocketWidths.address /\ mark + socket.owner + 2 <= SocketWidths.owner
      /\ socket.detail > 0 => socket.detail + 2 <= SocketWidths.detail
      /\ socket.pid <= SocketWidths.pid
  BY <1>1, <1>3
<1>6. proto \in Nat /\ proto <= 5 /\ address \in Nat /\ mark \in Nat
  BY <1>3
<1>7. SocketCells(socket.id, proto, address, mark, socket.owner, socket.detail, socket.pid)
        \in GridLines
  BY <1>1, <1>2, <1>4, <1>5, <1>6, SocketCellsWritten
<1> QED BY <1>4, <1>7

\* The lines between the rows.
LEMMA NotesWritten ==
  ASSUME terminal \in Terminals
  PROVE  /\ NewLine \in GridLines
         /\ Rule(Edge) \in GridLines
         /\ \A part \in {"nothing", "summary"}, size \in Nat :
              Push(PadTo(NewLine, RAIL_COL), [part |-> part], size) \in GridLines
<1>1. Edge \in 62 .. 96
  BY EdgeIs, PagesAssumption
<1>2. NewLine \in GridLines
  BY NothingWritten DEF GridLines, Written
<1>3. RAIL_COL \in Nat \ {0} /\ MARGIN \in Nat
  BY DEF RAIL_COL, MARGIN
<1>4. Rule(Edge) \in GridLines
  <2> DEFINE mark == [part |-> "rule"]
             size == Less(Edge, MARGIN)
             line == Push(PadTo(NewLine, RAIL_COL), mark, size)
  <2>1. mark \in Marks
    BY DEF Marks
  <2>2. Edge \in Nat
    BY <1>1
  <2>3. size \in Nat
    BY <1>3, <2>2, LessIs
  <2> HIDE DEF mark, size
  <2>4. Written(line, line.width)
    BY <1>3, <2>1, <2>3, MarkWritten
  <2>5. Rule(Edge) = line
    BY DEF Rule, mark, size
  <2> HIDE DEF line
  <2> QED BY <2>4, <2>5 DEF GridLines, Written
<1>5. ASSUME NEW part \in {"nothing", "summary"}, NEW size \in Nat
      PROVE  Push(PadTo(NewLine, RAIL_COL), [part |-> part], size) \in GridLines
  <2> DEFINE mark == [part |-> part]
             line == Push(PadTo(NewLine, RAIL_COL), mark, size)
  <2>1. mark \in Marks
    BY DEF Marks
  <2> HIDE DEF mark
  <2>2. Written(line, line.width)
    BY <1>3, <2>1, MarkWritten
  <2> HIDE DEF line
  <2>3. line \in GridLines
    BY <2>2 DEF GridLines, Written
  <2> QED BY <2>3 DEF line, mark
<1> QED BY <1>2, <1>4, <1>5

\* The line over a group of sockets: its name, and at the edge how many.
LEMMA GroupTitleWritten ==
  ASSUME terminal \in Terminals
  PROVE  LET title == Space(Push(PadTo(NewLine, RAIL_COL), [part |-> "rail"], 1), 2) IN
         PushRight(Push(title, [part |-> "group"], 22), [part |-> "count"], 9, Edge) \in GridLines
<1> DEFINE rail == Push(PadTo(NewLine, RAIL_COL), [part |-> "rail"], 1)
           group == [part |-> "group"]
           count == [part |-> "count"]
           two == 2
           long == 22
           short == 9
           title == Space(rail, two)
           named == Push(title, group, long)
           column == Less(Edge, short) + 1
           padded == PadTo(named, column)
           line == Push(padded, count, short)
<1>1. Edge \in 62 .. 96
  BY EdgeIs, PagesAssumption
<1>2. group \in Marks /\ count \in Marks
  BY DEF Marks
<1>3. two \in Nat /\ long \in Nat /\ short \in Nat
  OBVIOUS
<1>4. PushRight(named, count, short, Edge) = line
  BY DEF PushRight
<1> HIDE DEF group, count, two, long, short
<1>5. Written(rail, rail.width)
  BY RailWritten
<1> HIDE DEF rail
<1>6. Written(title, rail.width)
  BY <1>3, <1>5, SpaceMoves
<1> HIDE DEF title
<1>7. Written(named, named.width)
  BY <1>2, <1>3, <1>6, MarksAreNotCells, PushWrites
<1> HIDE DEF named
<1>8. column \in Nat
  <2>1. Edge \in Nat
    BY <1>1
  <2> QED BY <1>3, <2>1, LessIs
<1> HIDE DEF column
<1>9. Written(padded, named.width)
  BY <1>7, <1>8, PadMoves
<1> HIDE DEF padded
<1>10. Written(line, line.width)
  BY <1>2, <1>3, <1>9, MarksAreNotCells, PushWrites
<1> HIDE DEF line
<1>11. line \in GridLines
  BY <1>10 DEF GridLines, Written
<1> QED BY <1>4, <1>11 DEF named, title, rail, group, count, two, long, short

\* A group as it is added to the page.
LEMMA GroupsWritten ==
  ASSUME asked \in Tables, terminal \in Terminals, glyphs \in Glyphs, NEW rows \in Seq(AllRows)
  PROVE  /\ asked.kind = "routes" => RouteGroup(rows) \in Seq(GridLines)
         /\ asked.kind # "routes" => SocketGroup(rows) \in Seq(GridLines)
<1>1. /\ DOMAIN rows = 1 .. Len(rows) /\ Len(rows) \in Nat
      /\ \A i \in 1 .. Len(rows) : rows[i] \in AllRows
  BY ElementOfSeq, LenProperties
<1>2. NewLine \in GridLines
  BY NotesWritten
<1>3. ASSUME asked.kind = "routes" PROVE RouteGroup(rows) \in Seq(GridLines)
  <2> DEFINE lines == [i \in DOMAIN rows |-> RouteRow(rows[i])]
             heading == Heading(4)
             header == RouteCells("header", 11, 7, 5, 5)
  <2>1. InRoutes
    BY <1>3 DEF InRoutes, InTable
  <2>2. \A i \in 1 .. Len(rows) : RouteRow(rows[i]) \in GridLines
    BY <1>1, <2>1, RouteRowWritten
  <2>3. lines \in Seq(GridLines)
    BY <1>1, <2>2
  <2>4. heading \in GridLines /\ header \in GridLines
    BY <2>1, HeadingWritten, RouteHeaderWritten
  <2>5. RouteGroup(rows) = (IF out = <<>> THEN <<>> ELSE <<NewLine>>)
                           \o <<heading, NewLine, header>> \o lines
    BY DEF RouteGroup
  <2> HIDE DEF lines, heading, header
  <2>6. (IF out = <<>> THEN <<>> ELSE <<NewLine>>) \in Seq(GridLines)
        /\ <<heading, NewLine, header>> \in Seq(GridLines)
    BY <1>2, <2>4
  <2> QED BY <2>3, <2>5, <2>6, ConcatProperties
<1>4. ASSUME asked.kind # "routes" PROVE SocketGroup(rows) \in Seq(GridLines)
  <2> DEFINE lines == [i \in DOMAIN rows |-> SocketRow(rows[i])]
             title == Space(Push(PadTo(NewLine, RAIL_COL), [part |-> "rail"], 1), 2)
             heading == PushRight(Push(title, [part |-> "group"], 22), [part |-> "count"], 9, Edge)
             header == SocketCells("header", 5, 7, 0, 5, 0, 3)
  <2>1. InSockets
    BY <1>4, PagesAssumption DEF InSockets, InTable
  <2>2. \A i \in 1 .. Len(rows) : SocketRow(rows[i]) \in GridLines
    BY <1>1, <2>1, SocketRowWritten
  <2>3. lines \in Seq(GridLines)
    BY <1>1, <2>2
  <2>4. heading \in GridLines /\ header \in GridLines
    BY <2>1, GroupTitleWritten, SocketHeaderWritten
  <2>5. SocketGroup(rows) = <<NewLine, heading, NewLine, header>> \o lines
    BY DEF SocketGroup
  <2> HIDE DEF lines, heading, header
  <2>6. <<NewLine, heading, NewLine, header>> \in Seq(GridLines)
    BY <1>2, <2>4
  <2> QED BY <2>3, <2>5, <2>6, ConcatProperties
<1> QED BY <1>3, <1>4

-----------------------------------------------------------------------------
(* A table, from its heading to its last line.                             *)

\* Whatever was shown of a table has its cells in their places.
GridInv ==
  /\ asked \in Reports \cup Tables /\ terminal \in Terminals /\ glyphs \in Glyphs
  /\ asked.kind # "report" =>
       /\ progress \in {"heading", "groups", "done"}
       /\ queue \in Seq(Seq(AllRows))
       /\ out \in Seq(GridLines)

\* What the lines must look like was settled when the columns were measured.
LEMMA GridStays ==
  ASSUME UNCHANGED given
  PROVE  AllRows' = AllRows /\ GridLines' = GridLines
<1>1. asked' = asked /\ terminal' = terminal /\ glyphs' = glyphs
  BY DEF given
<1>2. AllRows' = AllRows /\ Edge' = Edge /\ MarkWidth' = MarkWidth
  BY <1>1 DEF AllRows, Edge, MarkWidth
<1>3. RouteWidths' = RouteWidths
  BY <1>2 DEF RouteWidths
<1>4. {AddressSize(s) : s \in AllRows}' = {AddressSize(s) : s \in AllRows}
  BY <1>1, <1>2 DEF AddressSize
<1>5. {MarkWidth + s.owner : s \in AllRows}' = {MarkWidth + s.owner : s \in AllRows}
  BY <1>2
<1>6. SocketWidths' = SocketWidths
  BY <1>2, <1>4, <1>5 DEF SocketWidths
<1>7. PidEnd' = PidEnd
  BY <1>6 DEF PidEnd
<1>8. Narrowest' = Narrowest
  BY <1>2, <1>4, <1>5 DEF Narrowest
<1>9. CellNames' = CellNames /\ Spans' = Spans /\ Lines' = Lines
  BY <1>2 DEF CellNames, RowIds, Spans, Lines
<1>10. ASSUME NEW span PROVE Fine(span)' <=> Fine(span)
  <2>1. RouteCellFine(span)' <=> RouteCellFine(span)
    BY <1>2, <1>3 DEF RouteCellFine
  <2>2. SocketCellFine(span)' <=> SocketCellFine(span)
    BY <1>2, <1>6, <1>7, <1>8 DEF SocketCellFine, Indent
  <2> QED BY <1>1, <1>9, <2>1, <2>2 DEF Fine
<1>11. ASSUME NEW line PROVE Written(line, line.width)' <=> Written(line, line.width)
  BY <1>9, <1>10 DEF Written
<1> QED BY <1>2, <1>9, <1>11 DEF GridLines

\* Nothing was shown yet.
LEMMA GridInitInv == PageInit => GridInv
<1> SUFFICES ASSUME PageInit PROVE GridInv
  OBVIOUS
<1>1. CASE asked \in Reports
  BY <1>1, PagesAssumption DEF PageInit, GridInv
<1>2. CASE asked \in Tables
  BY <1>2, PagesAssumption DEF PageInit, GridInv, AllRows
<1> QED BY <1>1, <1>2 DEF PageInit

\* A step adds lines of the grid, or none.
LEMMA GridStep == GridInv /\ [PageNext]_pageVars => GridInv'
<1> SUFFICES ASSUME GridInv, [PageNext]_pageVars PROVE GridInv'
  OBVIOUS
<1>1. UNCHANGED given
  BY DEF PageNext, pageVars, GoOn, Header, ShowInterface, Sections, Footer,
         TableHeading, ShowGroup, TableFooter
<1>2. asked' = asked /\ terminal' = terminal /\ glyphs' = glyphs
  BY <1>1 DEF given
<1>3. CASE asked.kind = "report"
  BY <1>2, <1>3 DEF GridInv
<1>4. CASE asked.kind # "report"
  <2>1. asked \in Tables /\ terminal \in Terminals /\ glyphs \in Glyphs
    BY <1>4, PagesAssumption DEF GridInv
  <2>2. /\ progress \in {"heading", "groups", "done"} /\ queue \in Seq(Seq(AllRows))
        /\ out \in Seq(GridLines)
    BY <1>4 DEF GridInv
  <2>3. SUFFICES /\ progress' \in {"heading", "groups", "done"}
                 /\ queue' \in Seq(Seq(AllRows)) /\ out' \in Seq(GridLines)
    BY <1>1, <1>2, <1>4, <2>1, GridStays DEF GridInv
  <2>4. CASE TableHeading
    <3>1. Heading(9) \in GridLines
      BY <2>1, HeadingWritten
    <3>2. out' \in Seq(GridLines)
      BY <2>4, <3>1 DEF TableHeading
    <3> QED BY <2>2, <2>4, <3>2 DEF TableHeading, GoOn
  <2>5. CASE ShowGroup
    <3>1. queue # <<>> /\ Head(queue) \in Seq(AllRows) /\ queue' \in Seq(Seq(AllRows))
      BY <2>2, <2>5, HeadTailProperties DEF ShowGroup
    <3> DEFINE lines == IF Head(queue) = <<>> THEN <<>>
                        ELSE IF asked.kind = "routes" THEN RouteGroup(Head(queue))
                        ELSE SocketGroup(Head(queue))
    <3>2. lines \in Seq(GridLines)
      BY <2>1, <3>1, GroupsWritten
    <3>3. out' = out \o lines /\ progress' = progress
      BY <2>5 DEF ShowGroup
    <3> HIDE DEF lines
    <3>4. out' \in Seq(GridLines)
      BY <2>2, <3>2, <3>3, ConcatProperties
    <3> QED BY <2>2, <3>1, <3>3, <3>4
  <2>6. CASE TableFooter
    <3> DEFINE Note(part, size) == Push(PadTo(NewLine, RAIL_COL), [part |-> part], size)
               note == Note("nothing", 9)
               rule == Rule(Edge)
               summary == Note("summary", 20)
               nothing == IF AllRows # {} THEN <<>>
                          ELSE (IF out = <<>> THEN <<>> ELSE <<NewLine>>) \o <<note>>
    <3>1. NewLine \in GridLines /\ note \in GridLines /\ rule \in GridLines /\ summary \in GridLines
      BY <2>1, NotesWritten
    <3>2. out' = out \o nothing \o <<NewLine, rule, summary>>
      BY <2>6 DEF TableFooter
    <3> HIDE DEF note, rule, summary
    <3>3. nothing \in Seq(GridLines) /\ <<NewLine, rule, summary>> \in Seq(GridLines)
      BY <3>1, ConcatProperties
    <3> HIDE DEF nothing
    <3>4. out' \in Seq(GridLines)
      BY <2>2, <3>2, <3>3, ConcatProperties
    <3> QED BY <2>2, <2>6, <3>4 DEF TableFooter, GoOn
  <2>7. CASE UNCHANGED pageVars
    BY <2>2, <2>7 DEF pageVars
  <2>8. ~Header /\ ~ShowInterface /\ ~Sections /\ ~Footer
    BY <1>4, <2>2 DEF Header, ShowInterface, Sections, Footer, GoOn
  <2> QED BY <2>4, <2>5, <2>6, <2>7, <2>8 DEF PageNext
<1> QED BY <1>3, <1>4

\* What is to be seen on a page of lines like that.
LEMMA PiecesAreFine ==
  ASSUME GridInv, asked.kind # "report"
  PROVE  /\ \A p \in Pieces : /\ Fine(SpanAt(p)) /\ SpanAt(p).what \in CellNames
                              /\ SpanAt(p).from \in Nat /\ SpanAt(p).to \in Nat
         /\ \A p \in Pieces : <<p[1], p[2] + 1>> \in Pieces =>
              LET next == SpanAt(<<p[1], p[2] + 1>>) IN
                Part(next) # "expires" => next.from - SpanAt(p).to > 2
<1>1. out \in Seq(GridLines) /\ DOMAIN out = 1 .. Len(out)
  BY LenProperties DEF GridInv
<1>2. \A i \in DOMAIN out : out[i] \in Lines /\ Written(out[i], out[i].width)
  BY <1>1, ElementOfSeq DEF GridLines
<1>3. \A i \in DOMAIN out : /\ DOMAIN out[i].spans = 1 .. Len(out[i].spans)
                            /\ Len(out[i].spans) \in Nat
  BY <1>2, SpansOfLine, LenProperties
<1>4. \A span \in Spans : IsPiece(span) => span.what \in CellNames
  BY DEF Spans, Marks, CellNames, IsPiece
<1>5. ASSUME NEW p \in Pieces
      PROVE  /\ p[1] \in DOMAIN out /\ p[2] \in 1 .. Len(out[p[1]].spans)
             /\ Fine(SpanAt(p)) /\ SpanAt(p).what \in CellNames
             /\ SpanAt(p).from \in Nat /\ SpanAt(p).to \in Nat
  <2>1. PICK i \in DOMAIN out : \E k \in DOMAIN out[i].spans : p = <<i, k>>
    BY DEF Pieces, Places
  <2>2. PICK k \in DOMAIN out[i].spans : p = <<i, k>>
    BY <2>1
  <2>3. SpanAt(p) = out[i].spans[k] /\ p[1] = i /\ p[2] = k
    BY <2>2 DEF SpanAt
  <2>4. k \in 1 .. Len(out[i].spans)
    BY <1>3, <2>1, <2>2
  <2>5. /\ out[i].spans[k] \in Spans /\ out[i].spans[k].from \in Nat
        /\ out[i].spans[k].to \in Nat
    BY <1>2, <2>1, <2>4, SpansOfLine
  <2>6. Fine(out[i].spans[k])
    BY <1>2, <2>1, <2>4 DEF Written
  <2>7. IsPiece(SpanAt(p))
    BY DEF Pieces
  <2> QED BY <1>4, <2>1, <2>3, <2>4, <2>5, <2>6, <2>7
<1>6. ASSUME NEW p \in Pieces, <<p[1], p[2] + 1>> \in Pieces,
             Part(SpanAt(<<p[1], p[2] + 1>>)) # "expires"
      PROVE  SpanAt(<<p[1], p[2] + 1>>).from - SpanAt(p).to > 2
  <2> DEFINE next == <<p[1], p[2] + 1>>
             line == out[p[1]]
             k == p[2] + 1
  <2>1. /\ p[1] \in DOMAIN out /\ p[2] \in 1 .. Len(line.spans)
        /\ next[2] \in 1 .. Len(out[next[1]].spans) /\ SpanAt(next).what \in CellNames
    BY <1>5, <1>6
  <2>2. /\ SpanAt(next) = line.spans[k] /\ SpanAt(p) = line.spans[k - 1]
        /\ k \in 2 .. Len(line.spans)
    <3>1. next[1] = p[1] /\ next[2] = p[2] + 1
      OBVIOUS
    <3>2. Len(line.spans) \in Nat
      BY <1>3, <2>1
    <3>3. k - 1 = p[2]
      BY <2>1, <3>2
    <3> QED BY <2>1, <3>1, <3>2, <3>3 DEF SpanAt
  <2>3. Written(line, line.width)
    BY <1>2, <2>1
  <2>4. Part(line.spans[k]) # "expires" /\ line.spans[k].what \in CellNames
    BY <1>6, <2>1, <2>2
  <2> HIDE DEF line, k
  <2>5. line.spans[k].from - line.spans[k - 1].to > 2
    BY <2>2, <2>3, <2>4 DEF Written
  <2> QED BY <2>2, <2>5
<1> QED BY <1>5, <1>6

\* Cells in their places make a grid.
LEMMA GridsFollow == GridInv => TablesAreGrids
<1> SUFFICES ASSUME GridInv PROVE TablesAreGrids
  OBVIOUS
<1>1. CASE asked.kind = "report"
  BY <1>1 DEF TablesAreGrids, OneGrid, TableFits, GatewayGivesWay
<1>2. CASE asked.kind # "report"
  <2>1. asked \in Tables /\ terminal \in Terminals /\ glyphs \in Glyphs
    BY <1>2, PagesAssumption DEF GridInv
  <2>2. \A p \in Pieces : Fine(SpanAt(p)) /\ SpanAt(p).what \in CellNames
    BY <1>2, PiecesAreFine
  <2>3. \A p \in Pieces : asked.kind = "routes" => RouteCellFine(SpanAt(p))
    BY <2>2 DEF Fine
  <2>4. \A p \in Pieces : asked.kind # "routes" => SocketCellFine(SpanAt(p))
    BY <2>2 DEF Fine
  <2>5. OneGrid
    <3>1. ASSUME NEW part \in {"destination", "gateway", "interface", "flags", "address", "detail"},
                 NEW p \in Cells(part), NEW q \in Cells(part)
          PROVE  SpanAt(p).from = SpanAt(q).from
      <4>1. p \in Pieces /\ q \in Pieces /\ Part(SpanAt(p)) = part /\ Part(SpanAt(q)) = part
        BY DEF Cells
      <4>2. CASE asked.kind = "routes"
        BY <2>3, <4>1, <4>2 DEF RouteCellFine
      <4>3. CASE asked.kind # "routes"
        BY <2>4, <4>1, <4>3 DEF SocketCellFine
      <4> QED BY <4>2, <4>3
    <3>2. ASSUME NEW p \in Cells("pid"), NEW q \in Cells("pid")
          PROVE  SpanAt(p).to = SpanAt(q).to
      <4>1. p \in Pieces /\ q \in Pieces /\ Part(SpanAt(p)) = "pid" /\ Part(SpanAt(q)) = "pid"
        BY DEF Cells
      <4>2. CASE asked.kind = "routes"
        BY <2>3, <4>1, <4>2 DEF RouteCellFine
      <4>3. CASE asked.kind # "routes"
        BY <2>4, <4>1, <4>3 DEF SocketCellFine
      <4> QED BY <4>2, <4>3
    <3>3. ASSUME NEW p \in Cells("owner"), NEW q \in Cells("owner")
          PROVE  OwnerFrom(p) = OwnerFrom(q)
      <4>1. p \in Pieces /\ q \in Pieces /\ Part(SpanAt(p)) = "owner" /\ Part(SpanAt(q)) = "owner"
        BY DEF Cells
      <4>2. CASE asked.kind = "routes"
        BY <2>3, <4>1, <4>2 DEF RouteCellFine
      <4>3. CASE asked.kind # "routes"
        <5>1. InSockets
          BY <1>2, <2>1, <4>3, PagesAssumption DEF InSockets, InTable
        <5>2. SocketWidths.address \in Nat /\ MarkWidth \in Nat
          BY <5>1, SocketWidthsAre
        <5>3. \A c \in {p, q} :
                SpanAt(c).from = 13 + SocketWidths.address + Indent(SpanAt(c).what.row)
          BY <2>4, <4>1, <4>3 DEF SocketCellFine
        <5>4. \A c \in {p, q} : OwnerFrom(c) = 13 + SocketWidths.address
          BY <5>2, <5>3 DEF OwnerFrom, Indent
        <5> QED BY <5>4
      <4> QED BY <4>2, <4>3
    <3> QED BY <1>2, <3>1, <3>2, <3>3, PiecesAreFine DEF OneGrid, GAP
  <2>6. TableFits
    <3>1. CASE asked.kind = "routes"
      <4> DEFINE w == RouteWidths
      <4>1. w.destination \in Nat /\ w.interface \in Nat
        BY <2>1, <3>1, RouteWidthsAre DEF InRoutes, InTable
      <4>2. ROW_COL - 1 + (w.destination + 7 + GAP + w.interface + 6)
              = 20 + w.destination + w.interface
        BY <4>1 DEF ROW_COL, GAP
      <4> HIDE DEF w
      <4>3. 20 + w.destination + w.interface <= Edge =>
              \A p \in Pieces :
                \/ Part(SpanAt(p)) = "expires" \/ (Part(SpanAt(p)) = "flags" /\ Size(SpanAt(p)) > 6)
                \/ SpanAt(p).to <= Edge
        BY <2>3, <3>1 DEF RouteCellFine, w
      <4> QED BY <3>1, <4>2, <4>3 DEF TableFits, w
    <3>2. CASE asked.kind # "routes"
      <4>1. ROW_COL - 1 + Narrowest <= Edge =>
              \A p \in Pieces :
                \/ Part(SpanAt(p)) = "expires" \/ (Part(SpanAt(p)) = "flags" /\ Size(SpanAt(p)) > 6)
                \/ SpanAt(p).to <= Edge
        BY <2>4, <3>2 DEF SocketCellFine, ROW_COL
      <4> QED BY <3>2, <4>1 DEF TableFits, Narrowest
    <3> QED BY <3>1, <3>2
  <2>7. GatewayGivesWay
    <3>1. SUFFICES ASSUME asked.kind = "routes", NEW p \in Cells("gateway"), NEW r \in AllRows,
                          SpanAt(p).what.row = r.id, Size(SpanAt(p)) < r.gateway
                   PROVE  LET w == RouteWidths IN
                          ROW_COL - 1 + w.destination + w.gateway + w.interface + 6 >= Edge
                          /\ Size(SpanAt(p)) = w.gateway - GAP
      BY DEF GatewayGivesWay
    <3>2. p \in Pieces /\ Part(SpanAt(p)) = "gateway"
      BY DEF Cells
    <3>3. RowEnd(RouteWidths) >= Edge /\ Size(SpanAt(p)) = RouteWidths.gateway - 2
      BY <2>3, <3>1, <3>2 DEF RouteCellFine
    <3> QED BY <3>3 DEF RowEnd, GAP
  <2> QED BY <2>5, <2>6, <2>7 DEF TablesAreGrids
<1> QED BY <1>1, <1>2

\* The routing table and the list of sockets are grids, however many groups and
\* rows they have, however wide their cells are and however wide the terminal
\* is: what render/routes.rs and render/listen.rs lay out.
THEOREM TablesAreGridsHolds == PageSpec => []TablesAreGrids
<1>1. PageInit => GridInv
  BY GridInitInv
<1>2. GridInv /\ [PageNext]_pageVars => GridInv'
  BY GridStep
<1>3. GridInv => TablesAreGrids
  BY GridsFollow
<1> QED BY <1>1, <1>2, <1>3, PTL DEF PageSpec

-----------------------------------------------------------------------------
(***************************************************************************)
(* The lines of a report: what is written after each other on one ends in  *)
(* order and keeps its distance, what is below each other says what the    *)
(* pieces say, and a row of a section is a few lines that say its value.   *)
(***************************************************************************)

\* What holds of 0, and of every number whose predecessor it holds of, holds up to n.
LEMMA CountingUp ==
  ASSUME NEW n \in Nat, NEW P \in SUBSET (0 .. n), 0 \in P,
         \A i \in 1 .. n : i - 1 \in P => i \in P
  PROVE  P = 0 .. n
<1> DEFINE K == (0 .. n) \ P
<1> SUFFICES ASSUME K # {} PROVE FALSE
  OBVIOUS
<1>1. K \in SUBSET Nat
  OBVIOUS
<1>2. PICK i \in K : \A k \in K : i <= k
  BY <1>1, LeastExists
<1>3. i \in 1 .. n /\ i - 1 \in 0 .. n
  BY <1>2
<1>4. i - 1 \in P
  BY <1>2, <1>3
<1> QED BY <1>2, <1>3, <1>4

\* A function that is told its value at 0, and each value by the one before, exists.
Steps(S, n) == [1 .. n -> [S -> S]]

\* A function that is counted up from a first value by a step for each number.
Taken(f, S, first, n, step) ==
  f \in [0 .. n -> S] /\ f[0] = first /\ \A i \in 1 .. n : f[i] = step[i][f[i - 1]]

\* There is one for any first value and any steps.
LEMMA CountingExists ==
  ASSUME NEW S, NEW first \in S, NEW n \in Nat, NEW step \in Steps(S, n)
  PROVE  \E f : Taken(f, S, first, n, step)
<1> DEFINE Goes(f, i) == f[0] = first /\ \A k \in 1 .. i : f[k] = step[k][f[k - 1]]
           P == {i \in 0 .. n : \E f \in [0 .. i -> S] : Goes(f, i)}
<1>1. 0 \in P
  <2> DEFINE f == [k \in 0 .. 0 |-> first]
  <2>1. f \in [0 .. 0 -> S] /\ f[0] = first
    OBVIOUS
  <2> HIDE DEF f
  <2>2. Goes(f, 0)
    BY <2>1
  <2>3. 0 \in 0 .. n
    OBVIOUS
  <2> QED BY <2>1, <2>2, <2>3
<1>2. ASSUME NEW i \in 1 .. n, i - 1 \in P PROVE i \in P
  <2>1. PICK f \in [0 .. (i - 1) -> S] : Goes(f, i - 1)
    BY <1>2
  <2>2. f[i - 1] \in S /\ i - 1 \in 0 .. (i - 1)
    BY <2>1
  <2> DEFINE next == step[i][f[i - 1]]
             g == [k \in 0 .. i |-> IF k = i THEN next ELSE f[k]]
  <2>3. next \in S
    <3>1. step[i] \in [S -> S]
      BY DEF Steps
    <3> QED BY <2>2, <3>1
  <2>4. next = step[i][f[i - 1]]
    OBVIOUS
  <2> HIDE DEF next
  <2>5. \A k \in 0 .. i : k # i => k \in 0 .. (i - 1)
    OBVIOUS
  <2>6. g \in [0 .. i -> S] /\ g[i] = next /\ \A k \in 0 .. (i - 1) : g[k] = f[k]
    BY <2>3, <2>5
  <2> HIDE DEF g
  <2>7. g[0] = first
    BY <2>1, <2>6
  <2>8. ASSUME NEW k \in 1 .. i PROVE g[k] = step[k][g[k - 1]]
    <3>1. CASE k = i
      <4>1. g[i - 1] = f[i - 1]
        BY <2>2, <2>6
      <4> QED BY <2>4, <2>6, <3>1, <4>1
    <3>2. CASE k # i
      <4>1. k \in 1 .. (i - 1) /\ k \in 0 .. (i - 1) /\ k - 1 \in 0 .. (i - 1)
        BY <3>2
      <4>2. g[k] = f[k] /\ g[k - 1] = f[k - 1]
        BY <2>6, <4>1
      <4>3. f[k] = step[k][f[k - 1]]
        BY <2>1, <4>1
      <4> QED BY <4>2, <4>3
    <3> QED BY <3>1, <3>2
  <2>9. Goes(g, i)
    BY <2>7, <2>8
  <2>10. i \in 0 .. n
    BY <1>2
  <2> QED BY <2>6, <2>9, <2>10
<1>3. P = 0 .. n
  <2>1. P \in SUBSET (0 .. n) /\ n \in Nat
    OBVIOUS
  <2>2. \A i \in 1 .. n : i - 1 \in P => i \in P
    BY <1>2
  <2> HIDE DEF P
  <2> QED BY <1>1, <2>1, <2>2, CountingUp
<1>4. n \in P
  <2> HIDE DEF P
  <2>1. n \in 0 .. n
    OBVIOUS
  <2> QED BY <1>3, <2>1
<1> QED BY <1>4 DEF Taken

\* The blocks in a row are put together one by one.
Together(f, S, blocks, n) ==
  /\ f \in [0 .. n -> Seq(S)]
  /\ f[0] = <<>> /\ \A i \in 1 .. n : f[i] = f[i - 1] \o blocks[i]
  /\ FlattenSeq(blocks) = f[n]

\* Blocks are put together one by one.
LEMMA FlattenIs ==
  ASSUME NEW S, NEW blocks \in Seq(Seq(S)), NEW n \in Nat, n = Len(blocks)
  PROVE  \E f : Together(f, S, blocks, n)
<1>0. SUFFICES \E f \in [0 .. n -> Seq(S)] :
        /\ f[0] = <<>> /\ \A i \in 1 .. n : f[i] = f[i - 1] \o blocks[i]
        /\ FlattenSeq(blocks) = f[n]
  BY DEF Together
<1> DEFINE T == Seq(S)
           first == <<>>
           step == [i \in 1 .. n |-> [lines \in T |-> lines \o blocks[i]]]
<1>1. \A i \in 1 .. n : blocks[i] \in T
  BY ElementOfSeq
<1>2. first \in T /\ \A i \in 1 .. n : \A lines \in T : lines \o blocks[i] \in T
  BY <1>1, ConcatProperties
<1>3. \A lines \in T : <<>> \o lines = lines
  BY ConcatEmptySeq
<1> HIDE DEF T
<1>4. step \in [1 .. n -> [T -> T]]
  BY <1>2
<1>5. \A i \in 1 .. n : \A lines \in T : step[i][lines] = lines \o blocks[i]
  OBVIOUS
<1> HIDE DEF first, step
<1>6. PICK f \in [0 .. n -> T] : f[0] = first /\ \A i \in 1 .. n : f[i] = step[i][f[i - 1]]
  <2>1. step \in Steps(T, n)
    BY <1>4 DEF Steps
  <2>2. \E f : Taken(f, T, first, n, step)
    BY <1>2, <2>1, CountingExists
  <2> QED BY <2>2 DEF Taken
<1>7. ASSUME NEW i \in 1 .. n
      PROVE  i - 1 \in 0 .. n /\ f[i - 1] \in T /\ f[i] = f[i - 1] \o blocks[i]
  <2>1. i - 1 \in 0 .. n
    OBVIOUS
  <2>2. f[i - 1] \in T
    BY <1>6, <2>1
  <2>3. step[i][f[i - 1]] = f[i - 1] \o blocks[i]
    BY <1>5, <2>2
  <2> QED BY <1>6, <2>1, <2>2, <2>3
<1>8. CASE n = 0
  <2>1. blocks = <<>> /\ FlattenSeq(blocks) = <<>>
    BY <1>8, EmptySeq DEF FlattenSeq
  <2> QED BY <1>6, <1>7, <1>8, <2>1 DEF T, first
<1>9. CASE n # 0
  <2> DEFINE g == [i \in 1 .. n |-> f[i]]
             all == CHOOSE flatten : flatten = [i \in 1 .. n |-> IF i = 1 THEN blocks[i]
                                                                ELSE flatten[i - 1] \o blocks[i]]
  <2>1. f[0] = <<>> /\ 1 \in 1 .. n
    BY <1>6, <1>9 DEF first
  <2>2. f[1] = blocks[1]
    <3>1. f[1] = f[1 - 1] \o blocks[1]
      BY <1>7, <2>1
    <3>2. f[1] = <<>> \o blocks[1]
      BY <2>1, <3>1
    <3>3. blocks[1] \in T
      BY <1>1, <2>1
    <3> QED BY <1>3, <3>2, <3>3
  <2>3. ASSUME NEW i \in 1 .. n PROVE g[i] = IF i = 1 THEN blocks[i] ELSE g[i - 1] \o blocks[i]
    <3>1. CASE i = 1
      BY <2>2, <3>1
    <3>2. CASE i # 1
      <4>1. i - 1 \in 1 .. n
        BY <3>2
      <4>2. g[i] = f[i] /\ g[i - 1] = f[i - 1]
        BY <4>1
      <4>3. f[i] = f[i - 1] \o blocks[i]
        BY <1>7
      <4> HIDE DEF g
      <4> QED BY <3>2, <4>2, <4>3
    <3> QED BY <3>1, <3>2
  <2>4. g = [i \in 1 .. n |-> IF i = 1 THEN blocks[i] ELSE g[i - 1] \o blocks[i]]
    <3> DEFINE again == [i \in 1 .. n |-> IF i = 1 THEN blocks[i] ELSE g[i - 1] \o blocks[i]]
    <3>1. \A i \in 1 .. n : g[i] = again[i]
      BY <2>3
    <3> QED BY <3>1
  <2> HIDE DEF g
  <2>5. all = [i \in 1 .. n |-> IF i = 1 THEN blocks[i] ELSE all[i - 1] \o blocks[i]]
    BY <2>4
  <2>6. FlattenSeq(blocks) = all[n]
    BY <1>9 DEF FlattenSeq
  <2> HIDE DEF all
  <2> DEFINE P == {i \in 0 .. n : i > 0 => all[i] = f[i]}
  <2>7. ASSUME NEW i \in 1 .. n, i - 1 \in P PROVE i \in P
    <3>1. CASE i = 1
      BY <2>2, <2>5, <3>1
    <3>2. CASE i # 1
      <4>1. all[i] = all[i - 1] \o blocks[i]
        BY <2>5, <3>2
      <4>2. all[i - 1] = f[i - 1]
        BY <2>7, <3>2
      <4>3. f[i] = f[i - 1] \o blocks[i]
        BY <1>7
      <4>4. all[i] = f[i] /\ i \in 0 .. n
        BY <2>7, <4>1, <4>2, <4>3
      <4> QED BY <4>4
    <3> QED BY <3>1, <3>2
  <2>8. P = 0 .. n
    <3>1. 0 \in P /\ P \in SUBSET (0 .. n)
      OBVIOUS
    <3>2. \A i \in 1 .. n : i - 1 \in P => i \in P
      BY <2>7
    <3> HIDE DEF P
    <3> QED BY <3>1, <3>2, CountingUp
  <2>9. n \in P
    <3> HIDE DEF P
    <3>1. n \in 0 .. n
      OBVIOUS
    <3> QED BY <2>8, <3>1
  <2>10. all[n] = f[n]
    BY <1>9, <2>9
  <2> QED BY <1>6, <1>7, <2>1, <2>6, <2>10 DEF T
<1> QED BY <1>8, <1>9

\* What holds of no line, and goes on holding with each block, holds of all blocks in a row.
LEMMA Flattened ==
  ASSUME NEW S, NEW blocks \in Seq(Seq(S)), NEW good, <<0, <<>>>> \in good,
         NEW n \in Nat, n = Len(blocks),
         \A i \in 1 .. n, lines \in Seq(S) :
           <<i - 1, lines>> \in good => <<i, lines \o blocks[i]>> \in good
  PROVE  FlattenSeq(blocks) \in Seq(S) /\ <<n, FlattenSeq(blocks)>> \in good
<1>1. PICK f \in [0 .. n -> Seq(S)] :
        /\ f[0] = <<>> /\ \A i \in 1 .. n : f[i] = f[i - 1] \o blocks[i]
        /\ FlattenSeq(blocks) = f[n]
  <2>1. \E f : Together(f, S, blocks, n)
    BY FlattenIs
  <2> QED BY <2>1 DEF Together
<1> DEFINE Q == {i \in 0 .. n : <<i, f[i]>> \in good}
<1>2. 0 \in Q /\ Q \in SUBSET (0 .. n)
  <2>1. <<0, f[0]>> \in good
    BY <1>1
  <2>2. 0 \in 0 .. n
    OBVIOUS
  <2> QED BY <2>1, <2>2
<1>3. ASSUME NEW i \in 1 .. n, i - 1 \in Q PROVE i \in Q
  <2>1. i - 1 \in 0 .. n /\ f[i] = f[i - 1] \o blocks[i]
    BY <1>1, <1>3
  <2>2. f[i - 1] \in Seq(S) /\ <<i - 1, f[i - 1]>> \in good
    BY <1>1, <1>3, <2>1
  <2>3. <<i, f[i - 1] \o blocks[i]>> \in good
    BY <2>2
  <2>4. i \in 0 .. n /\ <<i, f[i]>> \in good
    BY <1>3, <2>1, <2>3
  <2> QED BY <2>4
<1>4. \A i \in 1 .. n : i - 1 \in Q => i \in Q
  BY <1>3
<1>5. Q = 0 .. n
  <2> HIDE DEF Q
  <2> QED BY <1>2, <1>4, CountingUp
<1>6. n \in Q /\ n \in 0 .. n
  BY <1>5
<1> QED BY <1>1, <1>6

-----------------------------------------------------------------------------
(* A line of a report, as it is written.                                   *)

\* The pieces of a report that belong to no row.
ReportMarks ==
  {[part |-> p] : p \in {"rule", "rail", "name", "version", "clock", "nobody",
                         "arrow", "available", "action"}}
BlockNames ==
  {"dns", "ladder", "public"} \cup {asked.interfaces[i].name : i \in DOMAIN asked.interfaces}
RowNames ==
  {"head", "none", "verdict", "sign in", "network", "protocol", "endpoint", "gateway", "hardware"}
  \cup {asked.dns[i].label : i \in DOMAIN asked.dns}
  \cup {asked.public[i].label : i \in DOMAIN asked.public}
  \cup {asked.reachability.rungs[i].name : i \in DOMAIN asked.reachability.rungs}
  \cup (UNION {{asked.interfaces[i].ipv4[k].id : k \in DOMAIN asked.interfaces[i].ipv4} :
                 i \in DOMAIN asked.interfaces})
  \cup (UNION {{asked.interfaces[i].ipv6[k].id : k \in DOMAIN asked.interfaces[i].ipv6} :
                 i \in DOMAIN asked.interfaces})
PartNames ==
  {"label", "value", "annotation", "continuation", "icon", "display", "device", "status",
   "title", "age", "stage", "mark", "connector", "timing"}
Names == [block : BlockNames, row : RowNames \cup {"title"}, part : PartNames]

\* A piece that belongs to a row.
IsName(what) == "block" \in DOMAIN what

\* What is told apart, and told once: every piece but the connectors.
Shown(what) == IsName(what) /\ what.part # "connector"
Told(span) == <<span.what, Size(span)>>
Saying(what, size) == IF size > 0 /\ Shown(what) THEN {<<what, size>>} ELSE {}

\* The pieces on a line on which these names may stand.
SpansOf(N) == [what : ReportMarks \cup N, from : Nat, to : Nat]
LinesOf(N) == [spans : Seq(SpansOf(N)), width : Nat]

\* A status for which the names before it leave no room.
Cramped(this, next) ==
  next.what.part = "status" /\ ~Narrow /\ this.to + Size(next) >= Edge

\* What is before a piece is far enough away.
Clear(this, next) ==
  /\ this.to < next.from
  /\ IsName(next.what) =>
       /\ next.what.part = "annotation" => next.from - this.to > 2
       /\ next.from - this.to > 1 \/ Cramped(this, next)

\* A line tells these things, each once, and nothing else.
LineTells(line, W) ==
  /\ \A k \in 1 .. Len(line.spans) : Shown(line.spans[k].what) => Told(line.spans[k]) \in W
  /\ \A w \in W : \E k \in 1 .. Len(line.spans) :
       Shown(line.spans[k].what) /\ Told(line.spans[k]) = w
  /\ \A k, m \in 1 .. Len(line.spans) :
       Shown(line.spans[k].what) /\ line.spans[k].what = line.spans[m].what => k = m

\* What is written ends by a column, is in order, and says W.
Neat(line, last, N, W) ==
  /\ line \in LinesOf(N) /\ last \in Nat /\ last <= line.width
  /\ \A k \in 1 .. Len(line.spans) :
       line.spans[k].from \in 1 .. line.spans[k].to /\ line.spans[k].to <= last
  /\ \A k \in 2 .. Len(line.spans) : Clear(line.spans[k - 1], line.spans[k])
  /\ LineTells(line, W)

\* Pieces belong to a row or are not told apart.
LEMMA NamesAre ==
  /\ \A what \in Names : IsName(what)
  /\ \A what \in ReportMarks : ~IsName(what) /\ ~Shown(what)
BY DEF Names, ReportMarks, IsName, Shown

\* An empty line tells nothing.
LEMMA NothingNeat == ASSUME NEW N PROVE Neat(NewLine, 0, N, {}) /\ NewLine.width = 0
<1>1. NewLine \in LinesOf(N) /\ NewLine.spans = <<>> /\ NewLine.width = 0 /\ Len(NewLine.spans) = 0
  BY DEF NewLine, LinesOf
<1> HIDE DEF NewLine
<1> QED BY <1>1 DEF Neat, LineTells

\* Padding moves the end of a line and no piece.
LEMMA PadNeat ==
  ASSUME NEW N, NEW W, NEW line, NEW last, Neat(line, last, N, W), NEW column \in Nat
  PROVE  LET padded == PadTo(line, column) IN
         /\ Neat(padded, last, N, W) /\ padded.spans = line.spans
         /\ padded.width = IF line.width >= column - 1 THEN line.width ELSE column - 1
<1>1. line.width \in Nat /\ column - 1 \in Int /\ line \in LinesOf(N) /\ last <= line.width
  BY DEF Neat, LinesOf
<1> DEFINE far == IF line.width >= column - 1 THEN line.width ELSE column - 1
<1>2. Max({line.width, column - 1}) = far
  <2>1. line.width \in Int
    BY <1>1
  <2> QED BY <1>1, <2>1, MaxOfTwo
<1>3. PadTo(line, column) = [line EXCEPT !.width = far]
  BY <1>2 DEF PadTo
<1>4. far \in Nat /\ last <= far
  BY <1>1 DEF Neat
<1>5. /\ PadTo(line, column) \in LinesOf(N) /\ PadTo(line, column).spans = line.spans
      /\ PadTo(line, column).width = far
  BY <1>1, <1>3, <1>4 DEF LinesOf
<1> HIDE DEF far
<1>6. Neat(PadTo(line, column), last, N, W)
  BY <1>4, <1>5 DEF Neat, LineTells
<1> QED BY <1>5, <1>6 DEF far

\* So do spaces.
LEMMA SpaceNeat ==
  ASSUME NEW N, NEW W, NEW line, NEW last, Neat(line, last, N, W), NEW count \in Nat
  PROVE  LET spaced == Space(line, count) IN
         /\ Neat(spaced, last, N, W) /\ spaced.spans = line.spans
         /\ spaced.width = line.width + count
<1>1. line.width \in Nat /\ line \in LinesOf(N) /\ last \in Nat /\ last <= line.width
  BY DEF Neat, LinesOf
<1>2. /\ Space(line, count) \in LinesOf(N) /\ Space(line, count).spans = line.spans
      /\ Space(line, count).width = line.width + count
  BY <1>1 DEF Space, LinesOf
<1>3. last <= line.width + count
  BY <1>1
<1>4. Neat(Space(line, count), last, N, W)
  BY <1>1, <1>2, <1>3 DEF Neat, LineTells
<1> QED BY <1>2, <1>4

\* The pieces of a line of a report.
LEMMA SpansOfNeat ==
  ASSUME NEW N, NEW line \in LinesOf(N)
  PROVE  /\ line.spans \in Seq(SpansOf(N)) /\ Len(line.spans) \in Nat /\ line.width \in Nat
         /\ DOMAIN line.spans = 1 .. Len(line.spans)
         /\ \A k \in 1 .. Len(line.spans) :
              /\ line.spans[k] \in SpansOf(N) /\ line.spans[k].what \in ReportMarks \cup N
              /\ line.spans[k].from \in Nat /\ line.spans[k].to \in Nat
<1>1. line.spans \in Seq(SpansOf(N)) /\ line.width \in Nat
  BY DEF LinesOf
<1>2. \A span \in SpansOf(N) : /\ span.what \in ReportMarks \cup N
                               /\ span.from \in Nat /\ span.to \in Nat
  BY DEF SpansOf
<1>3. \A k \in 1 .. Len(line.spans) : line.spans[k] \in SpansOf(N)
  BY <1>1, ElementOfSeq
<1> QED BY <1>1, <1>2, <1>3, LenProperties

\* What is pushed comes last, after what was there.
LEMMA PushIs ==
  ASSUME NEW N, NEW line \in LinesOf(N), NEW what \in ReportMarks \cup N, NEW size \in Nat \ {0}
  PROVE  LET pushed == Push(line, what, size)
             n == Len(line.spans)
         IN /\ pushed \in LinesOf(N) /\ pushed.width = line.width + size
            /\ Len(pushed.spans) = n + 1
            /\ \A k \in 1 .. n : pushed.spans[k] = line.spans[k]
            /\ pushed.spans[n + 1].what = what /\ Size(pushed.spans[n + 1]) = size
            /\ pushed.spans[n + 1].from = line.width + 1
            /\ pushed.spans[n + 1].to = line.width + size
<1>1. line.spans \in Seq(SpansOf(N)) /\ Len(line.spans) \in Nat /\ line.width \in Nat
  BY SpansOfNeat
<1> DEFINE span == [what |-> what, from |-> line.width + 1, to |-> line.width + size]
           spans == Append(line.spans, span)
           pushed == Push(line, what, size)
<1>2. pushed = [spans |-> spans, width |-> line.width + size]
  BY DEF Push
<1>3. span \in SpansOf(N)
  BY <1>1 DEF SpansOf
<1>4. /\ span.from = line.width + 1 /\ span.to = line.width + size /\ span.what = what
      /\ Size(span) = size
  BY <1>1 DEF Size
<1> HIDE DEF span
<1>5. /\ spans \in Seq(SpansOf(N)) /\ Len(spans) = Len(line.spans) + 1
      /\ \A k \in 1 .. Len(line.spans) : spans[k] = line.spans[k]
      /\ spans[Len(line.spans) + 1] = span
  BY <1>1, <1>3, AppendProperties
<1> HIDE DEF spans
<1>6. pushed \in LinesOf(N) /\ pushed.spans = spans /\ pushed.width = line.width + size
  BY <1>1, <1>2, <1>5 DEF LinesOf
<1> HIDE DEF pushed
<1>7. /\ pushed \in LinesOf(N) /\ pushed.width = line.width + size
      /\ Len(pushed.spans) = Len(line.spans) + 1
      /\ \A k \in 1 .. Len(line.spans) : pushed.spans[k] = line.spans[k]
      /\ pushed.spans[Len(line.spans) + 1] = span
  BY <1>5, <1>6
<1> QED BY <1>4, <1>7 DEF pushed

\* Whether a piece keeps its distance from what ends by a column; whether it is
\* yet to be said.
Room(line, last, what, size) ==
  IsName(what) =>
    /\ what.part = "annotation" => line.width >= last + 2
    /\ \/ line.width >= last + 1
       \/ /\ what.part = "status" /\ ~Narrow
          /\ \A k \in 1 .. Len(line.spans) :
               k = Len(line.spans) => line.spans[k].to + size >= Edge
Unsaid(what, W) == Shown(what) => \A w \in W : w[1] # what

\* A mark can be written anywhere, a piece only where its distance was kept and
\* when it was not said before.
LEMMA PushNeat ==
  ASSUME NEW N \in SUBSET Names, NEW W, NEW line, NEW last, Neat(line, last, N, W),
         NEW what \in ReportMarks \cup N, NEW size \in Nat,
         Room(line, last, what, size), Unsaid(what, W)
  PROVE  LET pushed == Push(line, what, size) IN
         /\ Neat(pushed, pushed.width, N, W \cup Saying(what, size))
         /\ pushed.width = line.width + size
<1> DEFINE pushed == Push(line, what, size)
           n == Len(line.spans)
           V == W \cup Saying(what, size)
<1>1. /\ line \in LinesOf(N) /\ n \in Nat /\ line.width \in Nat
      /\ last \in Nat /\ last <= line.width
      /\ \A k \in 1 .. n : line.spans[k].to \in Nat /\ line.spans[k].from \in Nat
  BY SpansOfNeat DEF Neat
<1>2. CASE size = 0
  <2>1. pushed = line /\ V = W
    BY <1>2 DEF Push, Saying
  <2>2. \A k \in 1 .. n : line.spans[k].to <= line.width
    BY <1>1 DEF Neat
  <2> HIDE DEF V, pushed
  <2>3. Neat(line, line.width, N, W)
    BY <1>1, <2>2 DEF Neat
  <2>4. Neat(pushed, pushed.width, N, V) /\ pushed.width = line.width + size
    BY <1>1, <1>2, <2>1, <2>3
  <2> QED BY <2>4 DEF V, pushed
<1>3. CASE size # 0
  <2>0. size \in Nat \ {0}
    BY <1>3
  <2>1. /\ pushed \in LinesOf(N) /\ pushed.width = line.width + size
        /\ Len(pushed.spans) = n + 1
        /\ \A k \in 1 .. n : pushed.spans[k] = line.spans[k]
        /\ pushed.spans[n + 1].what = what /\ Size(pushed.spans[n + 1]) = size
        /\ pushed.spans[n + 1].from = line.width + 1
        /\ pushed.spans[n + 1].to = line.width + size
    BY <1>1, <2>0, PushIs
  <2> HIDE DEF pushed
  <2>2. ASSUME NEW k \in 1 .. n + 1
        PROVE  /\ pushed.spans[k].from \in 1 .. pushed.spans[k].to
               /\ pushed.spans[k].to <= pushed.width
    <3>1. CASE k = n + 1
      BY <1>1, <2>0, <2>1, <3>1
    <3>2. CASE k # n + 1
      <4>1. k \in 1 .. n
        BY <1>1, <2>2, <3>2
      <4>2. /\ line.spans[k].from \in 1 .. line.spans[k].to /\ line.spans[k].to <= last
            /\ line.spans[k].to \in Nat
        BY <1>1, <4>1 DEF Neat
      <4>3. line.spans[k].to <= line.width + size
        <5> DEFINE to == line.spans[k].to
        <5>1. to \in Nat /\ to <= last /\ last <= line.width
          BY <1>1, <4>2
        <5>2. last \in Nat /\ line.width \in Nat /\ size \in Nat
          BY <1>1
        <5> HIDE DEF to
        <5>3. to <= line.width + size
          BY <5>1, <5>2
        <5> QED BY <5>3 DEF to
      <4>4. pushed.spans[k] = line.spans[k]
        BY <2>1, <4>1
      <4> QED BY <2>1, <4>2, <4>3, <4>4
    <3> QED BY <3>1, <3>2
  <2>3. ASSUME NEW k \in 2 .. n + 1
        PROVE  Clear(pushed.spans[k - 1], pushed.spans[k])
    <3>1. CASE k = n + 1
      <4>1. n \in 1 .. n /\ k - 1 = n
        BY <1>1, <2>3, <3>1
      <4>2. pushed.spans[k - 1] = line.spans[n] /\ line.spans[n].to <= last
            /\ line.spans[n].to \in Nat
        BY <1>1, <2>1, <4>1 DEF Neat
      <4> DEFINE next == pushed.spans[k]
                 this == pushed.spans[k - 1]
      <4>3. /\ next.what = what /\ next.from = line.width + 1
            /\ this.to <= last /\ this.to \in Nat
            /\ Size(next) = size /\ this.to = line.spans[n].to
        BY <2>1, <3>1, <4>2
      <4> HIDE DEF next, this
      <4>4. this.to < next.from
        BY <1>1, <4>3
      <4>5. ASSUME IsName(next.what)
            PROVE  /\ next.what.part = "annotation" => next.from - this.to > 2
                   /\ next.from - this.to > 1 \/ Cramped(this, next)
        <5>1. CASE line.width >= last + 1
          <6>1. next.from - this.to > 1
            BY <1>1, <4>3, <5>1
          <6>2. next.what.part = "annotation" => next.from - this.to > 2
            BY <1>1, <4>3, <4>5 DEF Room
          <6> QED BY <6>1, <6>2
        <5>2. CASE ~(line.width >= last + 1)
          <6>1. /\ what.part = "status" /\ ~Narrow
                /\ \A j \in 1 .. n : j = n => line.spans[j].to + size >= Edge
            BY <4>3, <4>5, <5>2 DEF Room
          <6>2. line.spans[n].to + size >= Edge
            BY <4>1, <6>1
          <6> QED BY <4>3, <6>1, <6>2 DEF Cramped
        <5> QED BY <5>1, <5>2
      <4>6. Clear(this, next)
        BY <4>4, <4>5 DEF Clear
      <4> QED BY <4>6 DEF this, next
    <3>2. CASE k # n + 1
      <4>1. k \in 2 .. n /\ k \in 1 .. n /\ k - 1 \in 1 .. n
        BY <1>1, <2>3, <3>2
      <4>2. pushed.spans[k] = line.spans[k] /\ pushed.spans[k - 1] = line.spans[k - 1]
        BY <2>1, <4>1
      <4> QED BY <4>1, <4>2 DEF Neat
    <3> QED BY <3>1, <3>2
  <2>4. \A k \in 1 .. n + 1 : k = n + 1 \/ k \in 1 .. n
    BY <1>1
  <2>5. \A k \in 1 .. n : Told(pushed.spans[k]) = Told(line.spans[k])
                          /\ pushed.spans[k].what = line.spans[k].what
    BY <2>1
  <2>6. Told(pushed.spans[n + 1]) = <<what, size>>
    BY <2>1 DEF Told
  <2>7. Shown(what) => V = W \cup {<<what, size>>}
    BY <2>0 DEF Saying
  <2>8. ~Shown(what) => V = W
    BY DEF Saying
  <2> HIDE DEF V
  <2>9. \A k \in 1 .. n + 1 : Shown(pushed.spans[k].what) => Told(pushed.spans[k]) \in V
    <3>1. \A w : w \in W => w \in V
      BY <2>7, <2>8
    <3>2. ASSUME NEW k \in 1 .. n, Shown(pushed.spans[k].what)
          PROVE  Told(pushed.spans[k]) \in V
      <4>1. Told(pushed.spans[k]) = Told(line.spans[k]) /\ Shown(line.spans[k].what)
        BY <2>5, <3>2
      <4>2. Told(line.spans[k]) \in W
        BY <4>1 DEF Neat, LineTells
      <4> QED BY <3>1, <4>1, <4>2
    <3>3. Shown(what) => Told(pushed.spans[n + 1]) \in V
      BY <2>6, <2>7
    <3>4. pushed.spans[n + 1].what = what
      BY <2>1
    <3> QED BY <2>4, <3>2, <3>3, <3>4
  <2>10. ASSUME NEW w \in V
         PROVE  \E k \in 1 .. n + 1 : Shown(pushed.spans[k].what) /\ Told(pushed.spans[k]) = w
    <3>1. CASE w \in W
      <4>1. PICK k \in 1 .. n : Shown(line.spans[k].what) /\ Told(line.spans[k]) = w
        BY <3>1 DEF Neat, LineTells
      <4>2. k \in 1 .. n + 1
        BY <1>1, <4>1
      <4> QED BY <2>5, <4>1, <4>2
    <3>2. CASE w \notin W
      <4>1. Shown(what) /\ w = <<what, size>> /\ n + 1 \in 1 .. n + 1
        BY <1>1, <2>7, <2>8, <2>10, <3>2
      <4> QED BY <2>1, <2>6, <4>1
    <3> QED BY <3>1, <3>2
  <2>11. ASSUME NEW k \in 1 .. n, Shown(line.spans[k].what) PROVE line.spans[k].what # what
    <3>1. Told(line.spans[k]) \in W /\ Told(line.spans[k])[1] = line.spans[k].what
      BY <2>11 DEF Neat, LineTells, Told
    <3> QED BY <2>11, <3>1 DEF Unsaid
  <2>12. ASSUME NEW k \in 1 .. n + 1, NEW m \in 1 .. n + 1, Shown(pushed.spans[k].what),
                pushed.spans[k].what = pushed.spans[m].what
         PROVE  k = m
    <3>1. CASE k \in 1 .. n /\ m \in 1 .. n
      BY <2>5, <2>12, <3>1 DEF Neat, LineTells
    <3>2. CASE k = n + 1 /\ m \in 1 .. n
      BY <2>1, <2>5, <2>11, <2>12, <3>2
    <3>3. CASE m = n + 1 /\ k \in 1 .. n
      BY <2>1, <2>5, <2>11, <2>12, <3>3
    <3> QED BY <2>4, <3>1, <3>2, <3>3
  <2>13. LineTells(pushed, V)
    BY <2>1, <2>9, <2>10, <2>12 DEF LineTells
  <2>14. Neat(pushed, pushed.width, N, V)
    <3> DEFINE end == pushed.width
               m == n + 1
    <3>1. pushed \in LinesOf(N) /\ end \in Nat /\ end <= pushed.width
      BY <1>1, <2>1
    <3>2. Len(pushed.spans) = m
      BY <2>1
    <3>3. /\ \A k \in 1 .. m : pushed.spans[k].from \in 1 .. pushed.spans[k].to
                              /\ pushed.spans[k].to <= end
          /\ \A k \in 2 .. m : Clear(pushed.spans[k - 1], pushed.spans[k])
      BY <2>2, <2>3
    <3> HIDE DEF end, m
    <3>4. Neat(pushed, end, N, V)
      BY <2>13, <3>1, <3>2, <3>3 DEF Neat
    <3> QED BY <3>4 DEF end
  <2> QED BY <2>1, <2>14 DEF V, pushed
<1> QED BY <1>2, <1>3

-----------------------------------------------------------------------------
(* Finished lines.                                                         *)

\* Two pieces that keep their distance.
Apart(this, next) ==
  IsName(this.what) /\ IsName(next.what) =>
    /\ next.what.part = "annotation" \/ this.what.block # next.what.block =>
         next.from - this.to > 2
    /\ next.from - this.to > 1 \/ Cramped(this, next)

\* A line whose pieces follow each other and keep their distance.
Clean(line) ==
  /\ line \in LinesOf(Names)
  /\ \A k \in 1 .. Len(line.spans) :
       line.spans[k].from \in 1 .. line.spans[k].to /\ line.spans[k].to <= line.width
  /\ \A k \in 2 .. Len(line.spans) :
       /\ line.spans[k - 1].to < line.spans[k].from
       /\ Apart(line.spans[k - 1], line.spans[k])

\* A line that is within the edge, but for one text that is too wide for the
\* room from its own column on, and for a heading.
Within(line) ==
  line.width > Edge =>
    \E k \in 1 .. Len(line.spans) :
      LET span == line.spans[k] IN
        IsName(span.what) /\ ((k = Len(line.spans) /\ span.from <= Home(span.what.part))
                              \/ span.what.row = "head")

\* Lines that are in order and within the edge.
Paper(lines) ==
  lines \in Seq(LinesOf(Names)) /\ \A i \in 1 .. Len(lines) : Clean(lines[i]) /\ Within(lines[i])

\* Lines none of which is blank.
Full(lines) == \A i \in 1 .. Len(lines) : ~IsBlank(lines[i])

\* Lines that tell these things, each once, and nothing else.
Tells(lines, W) ==
  /\ \A i \in 1 .. Len(lines) : \A k \in 1 .. Len(lines[i].spans) :
       Shown(lines[i].spans[k].what) => Told(lines[i].spans[k]) \in W
  /\ \A w \in W : \E i \in 1 .. Len(lines) : \E k \in 1 .. Len(lines[i].spans) :
       Shown(lines[i].spans[k].what) /\ Told(lines[i].spans[k]) = w
  /\ \A i, j \in 1 .. Len(lines) :
       \A k \in 1 .. Len(lines[i].spans), m \in 1 .. Len(lines[j].spans) :
         Shown(lines[i].spans[k].what) /\ lines[i].spans[k].what = lines[j].spans[m].what
           => i = j /\ k = m

\* No heading, and no time.
Calm(what) == IsName(what) => what.row # "title" /\ what.part # "timing"
Quiet(lines) ==
  \A i \in 1 .. Len(lines) : \A k \in 1 .. Len(lines[i].spans) : Calm(lines[i].spans[k].what)

\* A time stands under its stage.
Under(span, line) ==
  \E m \in 1 .. Len(line.spans) :
    /\ IsName(line.spans[m].what) /\ line.spans[m].what.part = "stage"
    /\ line.spans[m].what.row = span.what.row /\ line.spans[m].from = span.from
Timed(lines) ==
  \A i \in 1 .. Len(lines) : \A k \in 1 .. Len(lines[i].spans) :
    IsName(lines[i].spans[k].what) /\ lines[i].spans[k].what.part = "timing" =>
      i - 1 \in 1 .. Len(lines) /\ Under(lines[i].spans[k], lines[i - 1])

\* Lines that say W.
Text(lines, W) == Paper(lines) /\ Full(lines) /\ Tells(lines, W)

\* The lines of one after the lines of the other.
LEMMA Joined ==
  ASSUME NEW S, NEW a \in Seq(S), NEW b \in Seq(S)
  PROVE  /\ a \o b \in Seq(S) /\ Len(a \o b) = Len(a) + Len(b) /\ Len(a) \in Nat /\ Len(b) \in Nat
         /\ \A i \in 1 .. Len(a) : i \in 1 .. Len(a \o b) /\ (a \o b)[i] = a[i]
         /\ \A i \in 1 .. Len(b) : Len(a) + i \in 1 .. Len(a \o b) /\ (a \o b)[Len(a) + i] = b[i]
         /\ \A i \in 1 .. Len(a \o b) :
              \/ i \in 1 .. Len(a) /\ (a \o b)[i] = a[i]
              \/ /\ i \notin 1 .. Len(a) /\ i - Len(a) \in 1 .. Len(b)
                 /\ (a \o b)[i] = b[i - Len(a)]
<1>1. Len(a) \in Nat /\ Len(b) \in Nat
  BY LenProperties
<1>2. a \o b \in Seq(S) /\ Len(a \o b) = Len(a) + Len(b)
      /\ \A i \in 1 .. Len(a) + Len(b) :
           (a \o b)[i] = IF i <= Len(a) THEN a[i] ELSE b[i - Len(a)]
  BY ConcatProperties
<1>3. \A i \in 1 .. Len(a) : i \in 1 .. Len(a) + Len(b) /\ i <= Len(a)
  BY <1>1
<1>4. ASSUME NEW i \in 1 .. Len(b)
      PROVE  Len(a) + i \in 1 .. Len(a) + Len(b) /\ (a \o b)[Len(a) + i] = b[i]
  <2>1. Len(a) + i \in 1 .. Len(a) + Len(b) /\ ~(Len(a) + i <= Len(a)) /\ Len(a) + i - Len(a) = i
    BY <1>1
  <2> QED BY <1>2, <2>1
<1>5. ASSUME NEW i \in 1 .. Len(a) + Len(b)
      PROVE  \/ i \in 1 .. Len(a) /\ (a \o b)[i] = a[i]
             \/ /\ i \notin 1 .. Len(a) /\ i - Len(a) \in 1 .. Len(b)
                /\ (a \o b)[i] = b[i - Len(a)]
  <2>1. CASE i <= Len(a)
    <3>1. i \in 1 .. Len(a)
      BY <1>1, <2>1
    <3> QED BY <1>2, <1>5, <2>1, <3>1
  <2>2. CASE ~(i <= Len(a))
    <3>1. i \notin 1 .. Len(a) /\ i - Len(a) \in 1 .. Len(b)
      BY <1>1, <2>2
    <3> QED BY <1>2, <1>5, <2>2, <3>1
  <2> QED BY <2>1, <2>2
<1> QED BY <1>1, <1>2, <1>3, <1>4, <1>5

\* Lines below each other stay in order.
LEMMA PaperJoined ==
  ASSUME NEW a, NEW b, Paper(a), Paper(b)
  PROVE  Paper(a \o b)
<1> DEFINE c == a \o b
           S == LinesOf(Names)
<1>1. a \in Seq(S) /\ b \in Seq(S)
  BY DEF Paper
<1> HIDE DEF S
<1>2. c \in Seq(S) /\ \A i \in 1 .. Len(c) : \/ i \in 1 .. Len(a) /\ c[i] = a[i]
                                             \/ i - Len(a) \in 1 .. Len(b) /\ c[i] = b[i - Len(a)]
  BY <1>1, Joined
<1> HIDE DEF c
<1>3. \A i \in 1 .. Len(c) : Clean(c[i]) /\ Within(c[i])
  BY <1>2 DEF Paper
<1>4. Paper(c)
  BY <1>2, <1>3 DEF Paper, S
<1> QED BY <1>4 DEF c

\* None of them becomes blank.
LEMMA FullJoined ==
  ASSUME NEW S, NEW a \in Seq(S), NEW b \in Seq(S), Full(a), Full(b)
  PROVE  Full(a \o b)
<1> DEFINE c == a \o b
<1>2. \A i \in 1 .. Len(c) : \/ i \in 1 .. Len(a) /\ c[i] = a[i]
                             \/ i - Len(a) \in 1 .. Len(b) /\ c[i] = b[i - Len(a)]
  BY Joined
<1> HIDE DEF c
<1>3. Full(c)
  BY <1>2 DEF Full
<1> QED BY <1>3 DEF c

\* Nor do they get times.
LEMMA QuietJoined ==
  ASSUME NEW S, NEW a \in Seq(S), NEW b \in Seq(S), Quiet(a), Quiet(b)
  PROVE  Quiet(a \o b)
<1> DEFINE c == a \o b
<1>2. \A i \in 1 .. Len(c) : \/ i \in 1 .. Len(a) /\ c[i] = a[i]
                             \/ i - Len(a) \in 1 .. Len(b) /\ c[i] = b[i - Len(a)]
  BY Joined
<1> HIDE DEF c
<1>3. Quiet(c)
  BY <1>2 DEF Quiet
<1> QED BY <1>3 DEF c

\* No times are all under their stages.
LEMMA QuietIsTimed == ASSUME NEW a, Quiet(a) PROVE Timed(a)
BY DEF Quiet, Calm, Timed

\* Times stay under their stages when lines come before or follow.
LEMMA TimedJoined ==
  ASSUME NEW S, NEW a \in Seq(S), NEW b \in Seq(S), Timed(a), Timed(b)
  PROVE  Timed(a \o b)
<1> DEFINE c == a \o b
           n == Len(a)
<1>1. /\ Len(c) = n + Len(b) /\ n \in Nat /\ Len(b) \in Nat
      /\ \A i \in 1 .. n : i \in 1 .. Len(c) /\ c[i] = a[i]
      /\ \A i \in 1 .. Len(b) : n + i \in 1 .. Len(c) /\ c[n + i] = b[i]
      /\ \A i \in 1 .. Len(c) : \/ i \in 1 .. n /\ c[i] = a[i]
                                \/ /\ i \notin 1 .. n /\ i - n \in 1 .. Len(b)
                                   /\ c[i] = b[i - n]
  BY Joined
<1> HIDE DEF c, n
<1>2. ASSUME NEW i \in 1 .. Len(c), NEW k \in 1 .. Len(c[i].spans),
             IsName(c[i].spans[k].what), c[i].spans[k].what.part = "timing"
      PROVE  i - 1 \in 1 .. Len(c) /\ Under(c[i].spans[k], c[i - 1])
  <2>1. CASE i \in 1 .. n /\ c[i] = a[i]
    <3>1. i - 1 \in 1 .. Len(a) /\ Under(a[i].spans[k], a[i - 1])
      BY <1>2, <2>1 DEF Timed, n
    <3>2. i - 1 \in 1 .. n
      BY <3>1 DEF n
    <3>3. i - 1 \in 1 .. Len(c) /\ c[i - 1] = a[i - 1]
      BY <1>1, <3>2
    <3> QED BY <2>1, <3>1, <3>3
  <2>2. CASE i - n \in 1 .. Len(b) /\ c[i] = b[i - n]
    <3> DEFINE j == i - n
    <3>1. j - 1 \in 1 .. Len(b) /\ Under(b[j].spans[k], b[j - 1])
      BY <1>2, <2>2 DEF Timed
    <3>2. n + (j - 1) \in 1 .. Len(c) /\ c[n + (j - 1)] = b[j - 1]
      BY <1>1, <3>1
    <3>3. n + (j - 1) = i - 1
      BY <1>1, <1>2
    <3> QED BY <2>2, <3>1, <3>2, <3>3
  <2> QED BY <1>1, <1>2, <2>1, <2>2
<1>3. Timed(c)
  BY <1>2 DEF Timed
<1> QED BY <1>3 DEF c

\* Nothing of the one is told by the other.
Distinct(V, W) == \A v \in V, w \in W : v[1] # w[1]

\* Lines below each other tell what both tell.
LEMMA TellsJoined ==
  ASSUME NEW S, NEW a \in Seq(S), NEW b \in Seq(S), NEW V, NEW W,
         Tells(a, V), Tells(b, W), Distinct(V, W)
  PROVE  Tells(a \o b, V \cup W)
<1> DEFINE c == a \o b
           n == Len(a)
           U == V \cup W
<1>1. /\ n \in Nat
      /\ \A i \in 1 .. n : i \in 1 .. Len(c) /\ c[i] = a[i]
      /\ \A i \in 1 .. Len(b) : n + i \in 1 .. Len(c) /\ c[n + i] = b[i]
      /\ \A i \in 1 .. Len(c) : \/ i \in 1 .. n /\ c[i] = a[i]
                                \/ /\ i \notin 1 .. n /\ i - n \in 1 .. Len(b)
                                   /\ c[i] = b[i - n]
  BY Joined
<1>2. \A u : u \in U <=> u \in V \/ u \in W
  OBVIOUS
<1> HIDE DEF c, n, U
<1>3. ASSUME NEW i \in 1 .. n, NEW k \in 1 .. Len(a[i].spans), Shown(a[i].spans[k].what)
      PROVE  Told(a[i].spans[k]) \in V
  BY <1>3 DEF Tells, n
<1>4. ASSUME NEW i \in 1 .. Len(b), NEW k \in 1 .. Len(b[i].spans), Shown(b[i].spans[k].what)
      PROVE  Told(b[i].spans[k]) \in W
  BY <1>4 DEF Tells
<1>5. \A i \in 1 .. Len(c) : \A k \in 1 .. Len(c[i].spans) :
        Shown(c[i].spans[k].what) => Told(c[i].spans[k]) \in U
  BY <1>1, <1>2, <1>3, <1>4
<1>6. ASSUME NEW u \in U
      PROVE  \E i \in 1 .. Len(c) : \E k \in 1 .. Len(c[i].spans) :
               Shown(c[i].spans[k].what) /\ Told(c[i].spans[k]) = u
  <2>1. CASE u \in V
    <3>1. PICK i \in 1 .. n : \E k \in 1 .. Len(a[i].spans) :
                  Shown(a[i].spans[k].what) /\ Told(a[i].spans[k]) = u
      BY <2>1 DEF Tells, n
    <3>2. i \in 1 .. Len(c) /\ c[i] = a[i]
      BY <1>1, <3>1
    <3> QED BY <3>1, <3>2
  <2>2. CASE u \in W
    <3>1. PICK i \in 1 .. Len(b) : \E k \in 1 .. Len(b[i].spans) :
                  Shown(b[i].spans[k].what) /\ Told(b[i].spans[k]) = u
      BY <2>2 DEF Tells
    <3>2. n + i \in 1 .. Len(c) /\ c[n + i] = b[i]
      BY <1>1, <3>1
    <3> QED BY <3>1, <3>2
  <2> QED BY <1>2, <1>6, <2>1, <2>2
<1>7. \A span : Told(span)[1] = span.what
  BY DEF Told
<1>8. ASSUME NEW i \in 1 .. n, NEW j \in 1 .. Len(b), NEW k \in 1 .. Len(a[i].spans),
             NEW m \in 1 .. Len(b[j].spans), Shown(a[i].spans[k].what),
             a[i].spans[k].what = b[j].spans[m].what
      PROVE  FALSE
  <2>1. Told(a[i].spans[k]) \in V /\ Told(b[j].spans[m]) \in W
    BY <1>3, <1>4, <1>8
  <2>2. Told(a[i].spans[k])[1] # Told(b[j].spans[m])[1]
    BY <2>1 DEF Distinct
  <2> QED BY <1>7, <1>8, <2>2
<1>11. \A i, j \in 1 .. Len(a) : \A k \in 1 .. Len(a[i].spans), m \in 1 .. Len(a[j].spans) :
         Shown(a[i].spans[k].what) /\ a[i].spans[k].what = a[j].spans[m].what => i = j /\ k = m
  BY DEF Tells
<1>12. \A i, j \in 1 .. Len(b) : \A k \in 1 .. Len(b[i].spans), m \in 1 .. Len(b[j].spans) :
         Shown(b[i].spans[k].what) /\ b[i].spans[k].what = b[j].spans[m].what => i = j /\ k = m
  BY DEF Tells
<1>9. ASSUME NEW i \in 1 .. Len(c), NEW j \in 1 .. Len(c), NEW k \in 1 .. Len(c[i].spans),
             NEW m \in 1 .. Len(c[j].spans), Shown(c[i].spans[k].what),
             c[i].spans[k].what = c[j].spans[m].what
      PROVE  i = j /\ k = m
  <2>1. CASE (i \in 1 .. n /\ c[i] = a[i]) /\ (j \in 1 .. n /\ c[j] = a[j])
    <3>1. /\ i \in 1 .. Len(a) /\ j \in 1 .. Len(a)
          /\ k \in 1 .. Len(a[i].spans) /\ m \in 1 .. Len(a[j].spans)
          /\ Shown(a[i].spans[k].what) /\ a[i].spans[k].what = a[j].spans[m].what
      BY <1>9, <2>1 DEF n
    <3> QED BY <1>11, <3>1
  <2>2. CASE (i \in 1 .. n /\ c[i] = a[i]) /\ (j - n \in 1 .. Len(b) /\ c[j] = b[j - n])
    BY <1>8, <1>9, <2>2
  <2>3. CASE (j \in 1 .. n /\ c[j] = a[j]) /\ (i - n \in 1 .. Len(b) /\ c[i] = b[i - n])
    BY <1>8, <1>9, <2>3
  <2>4. CASE (i - n \in 1 .. Len(b) /\ c[i] = b[i - n])
             /\ (j - n \in 1 .. Len(b) /\ c[j] = b[j - n])
    <3> DEFINE p == i - n
               q == j - n
    <3>1. p \in 1 .. Len(b) /\ q \in 1 .. Len(b) /\ c[i] = b[p] /\ c[j] = b[q]
      BY <2>4
    <3> HIDE DEF p, q
    <3>2. p = q /\ k = m
      <4>1. /\ k \in 1 .. Len(b[p].spans) /\ m \in 1 .. Len(b[q].spans)
            /\ Shown(b[p].spans[k].what) /\ b[p].spans[k].what = b[q].spans[m].what
        BY <1>9, <3>1
      <4>2. p \in 1 .. Len(b) /\ q \in 1 .. Len(b)
        BY <3>1
      <4>3. \A g \in 1 .. Len(b[p].spans), h \in 1 .. Len(b[q].spans) :
              Shown(b[p].spans[g].what) /\ b[p].spans[g].what = b[q].spans[h].what => p = q /\ g = h
        BY <1>12, <4>2
      <4> QED BY <4>1, <4>3
    <3> QED BY <1>1, <1>9, <3>2 DEF p, q
  <2> QED BY <1>1, <1>9, <2>1, <2>2, <2>3, <2>4
<1>10. Tells(c, U)
  <2>1. \A u \in U : \E i \in 1 .. Len(c) : \E k \in 1 .. Len(c[i].spans) :
          Shown(c[i].spans[k].what) /\ Told(c[i].spans[k]) = u
    BY <1>6
  <2>2. \A i, j \in 1 .. Len(c) : \A k \in 1 .. Len(c[i].spans), m \in 1 .. Len(c[j].spans) :
          Shown(c[i].spans[k].what) /\ c[i].spans[k].what = c[j].spans[m].what => i = j /\ k = m
    BY <1>9
  <2> QED BY <1>5, <2>1, <2>2 DEF Tells
<1> QED BY <1>10 DEF c, U

\* Lines below each other are a text that says what both say.
LEMMA TextJoined ==
  ASSUME NEW a, NEW b, NEW V, NEW W, Text(a, V), Text(b, W), Distinct(V, W)
  PROVE  Text(a \o b, V \cup W)
<1> DEFINE S == LinesOf(Names)
<1>1. a \in Seq(S) /\ b \in Seq(S)
  BY DEF Text, Paper
<1> HIDE DEF S
<1>2. Paper(a \o b)
  BY PaperJoined DEF Text
<1>3. Full(a) /\ Full(b) /\ Tells(a, V) /\ Tells(b, W)
  BY DEF Text
<1>4. Full(a \o b)
  BY <1>1, <1>3, FullJoined
<1>5. Tells(a \o b, V \cup W)
  BY <1>1, <1>3, TellsJoined
<1> QED BY <1>2, <1>4, <1>5 DEF Text

\* No lines are a text that says nothing.
LEMMA NoText == Text(<<>>, {}) /\ Quiet(<<>>)
<1>1. <<>> \in Seq(LinesOf(Names)) /\ Len(<<>>) = 0
  OBVIOUS
<1> QED BY <1>1 DEF Text, Paper, Full, Tells, Quiet

-----------------------------------------------------------------------------
\* The names on a line are of one block.
OneBlock(N) == N \in SUBSET Names /\ \A m, n \in N : m.block = n.block

\* A line of one block keeps all distances.
LEMMA NeatIsClean ==
  ASSUME NEW N, OneBlock(N), NEW W, NEW line, NEW last, Neat(line, last, N, W)
  PROVE  Clean(line)
<1>1. N \in SUBSET Names /\ \A m, n \in N : m.block = n.block
  BY DEF OneBlock
<1>2. /\ line \in LinesOf(N) /\ Len(line.spans) \in Nat /\ line.width \in Nat
      /\ last \in Nat /\ last <= line.width
      /\ \A k \in 1 .. Len(line.spans) :
           /\ line.spans[k].what \in ReportMarks \cup N
           /\ line.spans[k].to \in Nat /\ line.spans[k].from \in Nat
  BY SpansOfNeat DEF Neat
<1>3. line \in LinesOf(Names)
  <2>1. SpansOf(N) \in SUBSET SpansOf(Names)
    BY <1>1 DEF SpansOf
  <2>2. \A s \in Seq(SpansOf(N)) : s \in Seq(SpansOf(Names))
    BY <2>1
  <2> QED BY <1>2, <2>2 DEF LinesOf
<1>4. \A k \in 1 .. Len(line.spans) :
        line.spans[k].from \in 1 .. line.spans[k].to /\ line.spans[k].to <= line.width
  BY <1>2 DEF Neat
<1>5. ASSUME NEW k \in 2 .. Len(line.spans)
      PROVE  /\ line.spans[k - 1].to < line.spans[k].from
             /\ Apart(line.spans[k - 1], line.spans[k])
  <2>1. k \in 1 .. Len(line.spans) /\ k - 1 \in 1 .. Len(line.spans)
    BY <1>2, <1>5
  <2> DEFINE this == line.spans[k - 1]
             next == line.spans[k]
  <2>2. Clear(this, next)
    BY DEF Neat
  <2>3. IsName(this.what) /\ IsName(next.what) => this.what.block = next.what.block
    <3>1. IsName(this.what) => this.what \in N
      BY <1>2, <2>1, NamesAre
    <3>2. IsName(next.what) => next.what \in N
      BY <1>2, <2>1, NamesAre
    <3> QED BY <1>1, <3>1, <3>2
  <2> HIDE DEF this, next
  <2>4. this.to < next.from /\ Apart(this, next)
    BY <2>2, <2>3 DEF Clear, Apart
  <2> QED BY <2>4 DEF this, next
<1> QED BY <1>3, <1>4, <1>5 DEF Clean

\* A finished line is a text.
LEMMA LineIsText ==
  ASSUME NEW N, OneBlock(N), NEW W, NEW line, NEW last, Neat(line, last, N, W),
         Within(line), ~IsBlank(line)
  PROVE  /\ Text(<<line>>, W)
         /\ (\A n \in N : Calm(n)) => Quiet(<<line>>)
<1> DEFINE lines == <<line>>
<1>1. Clean(line)
  BY NeatIsClean
<1>2. lines \in Seq(LinesOf(Names)) /\ Len(lines) = 1 /\ lines[1] = line
  BY <1>1 DEF Clean
<1> HIDE DEF lines
<1>3. \A i \in 1 .. Len(lines) : i = 1 /\ lines[i] = line
  BY <1>2
<1>4. Paper(lines) /\ Full(lines)
  BY <1>1, <1>2, <1>3 DEF Paper, Full
<1>5. 1 \in 1 .. Len(lines)
  BY <1>2
<1>6. LineTells(line, W)
  BY DEF Neat
<1>7. Tells(lines, W)
  <2>1. \A i \in 1 .. Len(lines) : \A k \in 1 .. Len(lines[i].spans) :
          Shown(lines[i].spans[k].what) => Told(lines[i].spans[k]) \in W
    BY <1>3, <1>6 DEF LineTells
  <2>2. \A w \in W : \E i \in 1 .. Len(lines) : \E k \in 1 .. Len(lines[i].spans) :
          Shown(lines[i].spans[k].what) /\ Told(lines[i].spans[k]) = w
    BY <1>2, <1>5, <1>6 DEF LineTells
  <2>3. \A i, j \in 1 .. Len(lines) :
          \A k \in 1 .. Len(lines[i].spans), m \in 1 .. Len(lines[j].spans) :
            Shown(lines[i].spans[k].what) /\ lines[i].spans[k].what = lines[j].spans[m].what
              => i = j /\ k = m
    BY <1>3, <1>6 DEF LineTells
  <2> QED BY <2>1, <2>2, <2>3 DEF Tells
<1>8. ASSUME \A n \in N : Calm(n) PROVE Quiet(lines)
  <2>1. \A k \in 1 .. Len(line.spans) : line.spans[k].what \in ReportMarks \cup N
    BY SpansOfNeat DEF Neat
  <2>2. \A k \in 1 .. Len(line.spans) : Calm(line.spans[k].what)
    BY <1>8, <2>1, NamesAre DEF Calm
  <2> QED BY <1>3, <2>2 DEF Quiet
<1> QED BY <1>4, <1>7, <1>8 DEF Text, lines

-----------------------------------------------------------------------------
(* A row of a report.                                                      *)

\* A row of a block as emit_row takes it.
RowFine(row) ==
  /\ row.label \in RowNames /\ row.label # "title" /\ row.size \in Nat
  /\ row.value \in Nat \ {0} /\ row.annotation \in Nat /\ row.continuation \in Nat

\* The pieces of a row.
NamesOfRow(block, label) ==
  [block : {block}, row : {label}, part : {"label", "value", "annotation", "continuation"}]

\* What a row says: label, value, annotation and what follows.
RowSays(block, row) ==
  Saying(Piece(block, row.label, "label"), row.size)
  \cup Saying(Piece(block, row.label, "value"), row.value)
  \cup Saying(Piece(block, row.label, "annotation"), row.annotation)
  \cup Saying(Piece(block, row.label, "continuation"), row.continuation)

\* The pieces of a row are told apart by their parts.
LEMMA RowNamesAre ==
  ASSUME NEW block \in BlockNames, NEW label \in RowNames, label # "title"
  PROVE  LET N == NamesOfRow(block, label) IN
         /\ OneBlock(N) /\ N \in SUBSET Names /\ \A n \in N : Calm(n)
         /\ \A part \in {"label", "value", "annotation", "continuation"} :
              LET what == Piece(block, label, part) IN
              /\ what \in N /\ IsName(what) /\ what.part = part /\ what.block = block
              /\ what.row = label /\ Shown(what)
<1> DEFINE N == NamesOfRow(block, label)
<1>1. N \in SUBSET Names
  BY DEF NamesOfRow, Names, PartNames
<1>2. \A m \in N : m.block = block /\ m.row = label
                   /\ m.part \in {"label", "value", "annotation", "continuation"}
  BY DEF NamesOfRow
<1>3. ASSUME NEW part \in {"label", "value", "annotation", "continuation"}
      PROVE  LET what == Piece(block, label, part) IN
             /\ what \in N /\ what.part = part /\ what.row = label
  BY DEF Piece, NamesOfRow
<1> HIDE DEF N
<1>4. OneBlock(N)
  BY <1>1, <1>2 DEF OneBlock
<1>5. \A n \in N : IsName(n)
  BY <1>1, NamesAre
<1>6. \A n \in N : Calm(n)
  BY <1>2 DEF Calm
<1>7. ASSUME NEW part \in {"label", "value", "annotation", "continuation"}
      PROVE  LET what == Piece(block, label, part) IN
             /\ what \in N /\ IsName(what) /\ what.part = part /\ what.block = block
             /\ what.row = label /\ Shown(what)
  <2> DEFINE what == Piece(block, label, part)
  <2>1. what \in N /\ what.part = part /\ what.row = label
    BY <1>3
  <2> HIDE DEF what
  <2>2. IsName(what) /\ what.block = block
    BY <1>2, <1>5, <2>1
  <2>3. Shown(what)
    BY <1>7, <2>1, <2>2 DEF Shown
  <2> QED BY <2>1, <2>2, <2>3 DEF what
<1> QED BY <1>1, <1>4, <1>6, <1>7 DEF N

\* A line may be padded before its end is looked at.
LEMMA NeatLater ==
  ASSUME NEW N, NEW W, NEW line, NEW last, Neat(line, last, N, W), NEW far \in Nat,
         last <= far, far <= line.width
  PROVE  Neat(line, far, N, W)
<1>1. /\ last \in Nat
      /\ \A k \in 1 .. Len(line.spans) : line.spans[k].to <= last /\ line.spans[k].to \in Nat
  BY SpansOfNeat DEF Neat
<1>2. \A k \in 1 .. Len(line.spans) : line.spans[k].to <= far
  BY <1>1
<1> QED BY <1>2 DEF Neat

\* The rail, or the room for it.
LEMMA RailNeat ==
  ASSUME terminal \in Terminals, NEW N \in SUBSET Names, NEW rail
  PROVE  Neat(PushRail(rail), 3, N, {}) /\ PushRail(rail).width = 4
<1> DEFINE what == [part |-> "rail"]
           size == 1
           margin == PadTo(NewLine, RAIL_COL)
           pushed == Push(margin, what, size)
           railed == PadTo(pushed, LABEL_COL)
           plain == PadTo(NewLine, LABEL_COL)
           label == LABEL_COL
           first == RAIL_COL
<1>1. what \in ReportMarks /\ size \in Nat
  BY DEF ReportMarks
<1>2. ~IsName(what) /\ ~Shown(what)
  BY <1>1, NamesAre
<1> HIDE DEF what
<1>3. label = 5 /\ first = 3
  BY DEF LABEL_COL, RAIL_COL
<1>0. LABEL_COL \in Nat /\ RAIL_COL \in Nat
  BY DEF LABEL_COL, RAIL_COL
<1>4. Neat(NewLine, 0, N, {}) /\ NewLine.width = 0
  BY NothingNeat
<1>5. Neat(margin, 0, N, {}) /\ margin.width = 2
  <2>1. /\ Neat(margin, 0, N, {})
        /\ margin.width = IF NewLine.width >= RAIL_COL - 1 THEN NewLine.width ELSE RAIL_COL - 1
    BY <1>0, <1>4, PadNeat
  <2> QED BY <1>3, <1>4, <2>1
<1> HIDE DEF margin
<1>6. Neat(pushed, pushed.width, N, {}) /\ pushed.width = 3
  <2> DEFINE W == {} \cup Saying(what, size)
  <2>1. Neat(pushed, pushed.width, N, W) /\ pushed.width = margin.width + size
    <3> HIDE DEF size
    <3>1. what \in ReportMarks \cup N
      BY <1>1
    <3> DEFINE V == {}
               last == 0
    <3>0. Room(margin, last, what, size) /\ Unsaid(what, V)
      BY <1>2 DEF Room, Unsaid
    <3>2. Neat(margin, last, N, V)
      BY <1>5
    <3>3. W = V \cup Saying(what, size)
      OBVIOUS
    <3> HIDE DEF V, last, W
    <3>4. Neat(pushed, pushed.width, N, V \cup Saying(what, size))
          /\ pushed.width = margin.width + size
      <4>1. N \in SUBSET Names
        BY <1>1
      <4>2. size \in Nat
        BY <1>1
      <4>3. Room(margin, last, what, size)
        BY <3>0
      <4>4. Unsaid(what, V)
        BY <3>0
      <4> QED BY <3>1, <3>2, <4>1, <4>2, <4>3, <4>4, PushNeat
    <3> QED BY <3>3, <3>4
  <2>2. W = {}
    BY <1>2 DEF Saying
  <2> HIDE DEF W
  <2> QED BY <1>5, <2>1, <2>2
<1> HIDE DEF pushed
<1>7. Neat(railed, 3, N, {}) /\ railed.width = 4
  <2>0. Neat(pushed, 3, N, {})
    BY <1>6
  <2> DEFINE last == 3
  <2> HIDE DEF last
  <2>1. /\ Neat(railed, last, N, {})
        /\ railed.width = IF pushed.width >= LABEL_COL - 1 THEN pushed.width ELSE LABEL_COL - 1
    BY <1>0, <2>0, PadNeat DEF last
  <2> QED BY <1>3, <1>6, <2>1 DEF last
<1>8. Neat(plain, 3, N, {}) /\ plain.width = 4
  <2>1. /\ Neat(plain, 0, N, {})
        /\ plain.width = IF NewLine.width >= LABEL_COL - 1 THEN NewLine.width ELSE LABEL_COL - 1
    BY <1>0, <1>4, PadNeat
  <2>2. plain.width = 4
    BY <1>3, <1>4, <2>1
  <2> DEFINE far == 3
             last == 0
  <2>3. far \in Nat /\ last <= far /\ far <= plain.width /\ Neat(plain, last, N, {})
    BY <2>1, <2>2
  <2> HIDE DEF far, last
  <2>4. Neat(plain, far, N, {})
    BY <2>3, NeatLater
  <2> QED BY <2>2, <2>4 DEF far
<1>9. PushRail(rail) = railed \/ PushRail(rail) = plain
  BY DEF PushRail, pushed, margin, what
<1> QED BY <1>7, <1>8, <1>9

\* A pushed line is not blank, and its last piece is what was pushed.
LEMMA PushedLast ==
  ASSUME terminal \in Terminals, NEW N, NEW line \in LinesOf(N),
         NEW what \in ReportMarks \cup N, NEW size \in Nat \ {0}
  PROVE  LET pushed == Push(line, what, size) IN
         /\ ~IsBlank(pushed)
         /\ IsName(what) /\ line.width + 1 <= Home(what.part) => Within(pushed)
         /\ pushed.width <= Edge => Within(pushed)
<1> DEFINE pushed == Push(line, what, size)
           n == Len(line.spans)
<1>1. /\ Len(pushed.spans) = n + 1 /\ n \in Nat
      /\ pushed.spans[n + 1].what = what /\ pushed.spans[n + 1].from = line.width + 1
      /\ pushed.width = line.width + size /\ line.width \in Nat
  <2>1. n \in Nat /\ line.width \in Nat
    BY SpansOfNeat
  <2>2. /\ Len(pushed.spans) = n + 1
        /\ pushed.spans[n + 1].what = what /\ pushed.spans[n + 1].from = line.width + 1
        /\ pushed.width = line.width + size
    BY PushIs
  <2> QED BY <2>1, <2>2
<1>0. pushed.width \in Nat
  BY <1>1
<1> HIDE DEF pushed, n
<1>2. ~IsBlank(pushed)
  <2>1. Len(<<>>) = 0
    OBVIOUS
  <2> QED BY <1>1, <2>1 DEF IsBlank
<1>3. n + 1 \in 1 .. Len(pushed.spans)
  BY <1>1
<1>4. ASSUME IsName(what), line.width + 1 <= Home(what.part) PROVE Within(pushed)
  BY <1>1, <1>3, <1>4 DEF Within
<1>5. ASSUME pushed.width <= Edge PROVE Within(pushed)
  <2>1. Edge \in 62 .. 96
    BY PagesAssumption, EdgeIs
  <2>2. ~(pushed.width > Edge)
    BY <1>0, <1>5, <2>1
  <2> QED BY <2>2 DEF Within
<1> QED BY <1>2, <1>4, <1>5 DEF pushed

\* The edge and the room for values of any terminal.
LEMMA RoomIs ==
  ASSUME terminal \in Terminals
  PROVE  Edge \in 62 .. 96 /\ ValueRoom = Edge - 16 /\ ValueRoom \in Nat
<1>1. Edge \in 62 .. 96
  BY EdgeIs, PagesAssumption
<1>2. VALUE_COL - 1 = 16
  BY DEF VALUE_COL, LABEL_COL, LABEL_WIDTH
<1> DEFINE a == Edge
           b == VALUE_COL - 1
<1>3. a \in Nat /\ b \in Nat
  BY <1>1, <1>2
<1> HIDE DEF a, b
<1>4. Less(a, b) = IF a >= b THEN a - b ELSE 0
  BY <1>3, LessIs
<1>5. ValueRoom = Less(a, b)
  BY DEF ValueRoom, a, b
<1> QED BY <1>1, <1>2, <1>4, <1>5 DEF a, b

\* What is written below a label, or beside one, on a line of its own.
LEMMA OwnText ==
  ASSUME terminal \in Terminals,
         NEW block \in BlockNames, NEW label \in RowNames, label # "title", NEW rail,
         NEW part \in {"value", "annotation", "continuation"}, NEW size \in Nat, size > 0,
         NEW column \in Nat, 9 <= column, column <= 17, column <= Home(part)
  PROVE  LET what == Piece(block, label, part)
             lines == <<Push(PadTo(PushRail(rail), column), what, size)>>
         IN Text(lines, Saying(what, size)) /\ Quiet(lines)
<1> DEFINE N == NamesOfRow(block, label)
           what == Piece(block, label, part)
           railed == PushRail(rail)
           padded == PadTo(railed, column)
           pushed == Push(padded, what, size)
           V == {}
           three == 3
<1>1. /\ OneBlock(N) /\ N \in SUBSET Names /\ \A n \in N : Calm(n)
      /\ what \in N /\ IsName(what) /\ what.part = part
  BY RowNamesAre
<1> HIDE DEF N, what
<1>2. Neat(railed, three, N, V)
  BY <1>1, RailNeat
<1>0. railed.width = 4
  BY <1>1, RailNeat
<1>3. column - 1 >= 8 /\ column - 1 <= 16
  OBVIOUS
<1> HIDE DEF railed, V, three
<1>4. /\ Neat(padded, three, N, V)
      /\ padded.width = IF railed.width >= column - 1 THEN railed.width ELSE column - 1
  BY <1>2, PadNeat
<1>5. padded.width = column - 1 /\ padded.width >= three + 2 /\ padded.width >= three + 1
  BY <1>0, <1>3, <1>4 DEF three
<1> HIDE DEF padded
<1>6. what \in ReportMarks \cup N
  BY <1>1
<1>7. Room(padded, three, what, size) /\ Unsaid(what, V)
  BY <1>5 DEF Room, Unsaid, V
<1>8. Neat(pushed, pushed.width, N, V \cup Saying(what, size)) /\ pushed.width = padded.width + size
  <2>1. N \in SUBSET Names
    BY <1>1
  <2>2. Neat(padded, three, N, V)
    BY <1>4
  <2>3. what \in ReportMarks \cup N
    BY <1>6
  <2>4. Room(padded, three, what, size)
    BY <1>7
  <2>5. Unsaid(what, V)
    BY <1>7
  <2>6. size \in Nat
    OBVIOUS
  <2>7. Neat(pushed, pushed.width, N, V \cup Saying(what, size))
    BY <2>1, <2>2, <2>3, <2>4, <2>5, <2>6, PushNeat
  <2>8. pushed.width = padded.width + size
    <3>1. padded \in LinesOf(N)
      BY <2>2 DEF Neat
    <3>2. size \in Nat \ {0}
      BY <2>6
    <3> QED BY <2>3, <3>1, <3>2, PushIs
  <2> QED BY <2>7, <2>8
<1>9. V \cup Saying(what, size) = Saying(what, size)
  BY DEF V
<1>10. padded \in LinesOf(N)
  BY <1>4 DEF Neat
<1>11. ~IsBlank(pushed) /\ Within(pushed)
  <2>0. size \in Nat \ {0}
    OBVIOUS
  <2>1. ~IsBlank(pushed) /\ (IsName(what) /\ padded.width + 1 <= Home(what.part) => Within(pushed))
    BY <1>6, <1>10, <2>0, PushedLast
  <2>2. padded.width + 1 <= Home(what.part)
    BY <1>1, <1>5
  <2> QED BY <1>1, <2>1, <2>2
<1> HIDE DEF pushed
<1>12. Text(<<pushed>>, Saying(what, size)) /\ Quiet(<<pushed>>)
  BY <1>1, <1>8, <1>9, <1>11, LineIsText
<1> QED BY <1>12 DEF pushed, padded, railed, what

\* The label, at the rail.
LEMMA LabelNeat ==
  ASSUME terminal \in Terminals,
         NEW block \in BlockNames, NEW label \in RowNames, label # "title", NEW rail,
         NEW size \in Nat
  PROVE  LET line == Push(PushRail(rail), Piece(block, label, "label"), size)
             N == NamesOfRow(block, label)
             W == Saying(Piece(block, label, "label"), size)
         IN /\ Neat(line, line.width, N, W) /\ line.width = 4 + size
            /\ size > 0 => Text(<<line>>, W) /\ Quiet(<<line>>)
<1> DEFINE N == NamesOfRow(block, label)
           what == Piece(block, label, "label")
           railed == PushRail(rail)
           pushed == Push(railed, what, size)
           V == {}
           three == 3
<1>1. /\ OneBlock(N) /\ N \in SUBSET Names /\ \A n \in N : Calm(n)
      /\ what \in N /\ IsName(what) /\ what.part = "label"
  BY RowNamesAre
<1> HIDE DEF N, what
<1>2. Neat(railed, three, N, V)
  BY <1>1, RailNeat
<1>0. railed.width = 4
  BY <1>1, RailNeat
<1> HIDE DEF railed, V, three
<1>3. /\ what \in ReportMarks \cup N /\ Room(railed, three, what, size) /\ Unsaid(what, V)
  BY <1>0, <1>1 DEF Room, Unsaid, V, three
<1>4. Neat(pushed, pushed.width, N, V \cup Saying(what, size)) /\ pushed.width = railed.width + size
  <2>1. N \in SUBSET Names
    BY <1>1
  <2>2. Neat(railed, three, N, V)
    BY <1>2
  <2>3. what \in ReportMarks \cup N
    BY <1>3
  <2>4. Room(railed, three, what, size)
    BY <1>3
  <2>5. Unsaid(what, V)
    BY <1>3
  <2>6. size \in Nat
    OBVIOUS
  <2> QED BY <2>1, <2>2, <2>3, <2>4, <2>5, <2>6, PushNeat
<1>5. V \cup Saying(what, size) = Saying(what, size)
  BY DEF V
<1>6. Neat(pushed, pushed.width, N, Saying(what, size)) /\ pushed.width = 4 + size
  BY <1>0, <1>4, <1>5
<1>7. ASSUME size > 0 PROVE Text(<<pushed>>, Saying(what, size)) /\ Quiet(<<pushed>>)
  <2>1. size \in Nat \ {0} /\ railed \in LinesOf(N)
    BY <1>2, <1>7 DEF Neat
  <2>2. ~IsBlank(pushed) /\ (IsName(what) /\ railed.width + 1 <= Home(what.part) => Within(pushed))
    BY <1>3, <2>1, PushedLast
  <2>3. railed.width + 1 <= Home(what.part)
    BY <1>0, <1>1 DEF Home, LABEL_COL
  <2> HIDE DEF pushed
  <2>4. Within(pushed) /\ ~IsBlank(pushed)
    BY <1>1, <2>2, <2>3
  <2> QED BY <1>1, <1>6, <2>4, LineIsText
<1> QED BY <1>6, <1>7 DEF pushed, railed, what, N

\* Different pieces say different things.
LEMMA SayingApart ==
  ASSUME NEW this, NEW that, this # that, NEW m, NEW n
  PROVE  Distinct(Saying(this, m), Saying(that, n))
BY DEF Distinct, Saying

\* A piece without width says nothing.
LEMMA SaidNothing ==
  \A what : Saying(what, 0) = {} /\ \A V : Distinct(V, {}) /\ Distinct({}, V)
BY DEF Saying, Distinct

\* What is told by neither of two is not told by both.
LEMMA DistinctUnion ==
  ASSUME NEW U, NEW V, NEW W
  PROVE  /\ Distinct(U, W) /\ Distinct(V, W) => Distinct(U \cup V, W)
         /\ Distinct(U, V) /\ Distinct(U, W) => Distinct(U, V \cup W)
BY DEF Distinct

\* Two texts without times or titles.
LEMMA BothJoined ==
  ASSUME NEW a, NEW b, NEW V, NEW W, Text(a, V), Quiet(a), Text(b, W), Quiet(b), Distinct(V, W)
  PROVE  Text(a \o b, V \cup W) /\ Quiet(a \o b)
<1>1. Text(a \o b, V \cup W)
  BY TextJoined
<1>2. a \in Seq(LinesOf(Names)) /\ b \in Seq(LinesOf(Names))
  BY DEF Text, Paper
<1>3. Quiet(a \o b)
  BY <1>2, QuietJoined
<1> QED BY <1>1, <1>3

\* Rows of a block: a text without times or titles.
Prose(lines, W) == Text(lines, W) /\ Quiet(lines)

\* Rows below rows.
LEMMA ProseJoined ==
  ASSUME NEW a, NEW b, NEW V, NEW W, Prose(a, V), Prose(b, W), Distinct(V, W)
  PROVE  Prose(a \o b, V \cup W)
BY BothJoined DEF Prose

\* No rows.
LEMMA NoProse == Prose(<<>>, {})
BY NoText DEF Prose

\* Rows below rows below rows.
LEMMA ThreeJoined ==
  ASSUME NEW a, NEW b, NEW c, NEW U, NEW V, NEW W, Prose(a, U), Prose(b, V), Prose(c, W),
         Distinct(U, V), Distinct(U, W), Distinct(V, W)
  PROVE  Prose(a \o b \o c, U \cup V \cup W)
<1>1. Prose(a \o b, U \cup V)
  BY ProseJoined
<1>2. Distinct(U \cup V, W)
  BY DistinctUnion
<1> QED BY <1>1, <1>2, ProseJoined

\* A part of a row on a line of its own says the part.
LEMMA OwnLines ==
  ASSUME terminal \in Terminals,
         NEW block \in BlockNames, NEW label \in RowNames, label # "title", NEW rail,
         NEW part \in {"value", "annotation", "continuation"}, NEW size \in Nat,
         NEW column \in Nat, 9 <= column, column <= 17, column <= Home(part)
  PROVE  LET what == Piece(block, label, part)
         IN Prose(IF size = 0 THEN <<>> ELSE <<Push(PadTo(PushRail(rail), column), what, size)>>,
                  Saying(what, size))
<1> DEFINE what == Piece(block, label, part)
<1>1. CASE size = 0
  BY <1>1, NoProse, SaidNothing
<1>2. CASE size # 0
  <2>1. size > 0
    BY <1>2
  <2> QED BY <1>2, <2>1, OwnText DEF Prose
<1> QED BY <1>1, <1>2

\* What a row says is said by pieces with names of their own.
LEMMA RowSaysApart ==
  ASSUME NEW block, NEW label, NEW k, NEW l, NEW m, NEW n
  PROVE  LET L == Saying(Piece(block, label, "label"), k)
             V == Saying(Piece(block, label, "value"), l)
             A == Saying(Piece(block, label, "annotation"), m)
             C == Saying(Piece(block, label, "continuation"), n)
         IN /\ Distinct(L, V) /\ Distinct(L, A) /\ Distinct(L, C)
            /\ Distinct(V, A) /\ Distinct(V, C) /\ Distinct(A, C)
<1> DEFINE h == Piece(block, label, "label")
           v == Piece(block, label, "value")
           a == Piece(block, label, "annotation")
           c == Piece(block, label, "continuation")
<1>1. /\ h.part = "label" /\ v.part = "value"
      /\ a.part = "annotation" /\ c.part = "continuation"
  BY DEF Piece
<1>2. h # v /\ h # a /\ h # c /\ v # a /\ v # c /\ a # c
  BY <1>1
<1> HIDE DEF h, v, a, c
<1>3. /\ Distinct(Saying(h, k), Saying(v, l)) /\ Distinct(Saying(h, k), Saying(a, m))
      /\ Distinct(Saying(h, k), Saying(c, n))
      /\ Distinct(Saying(v, l), Saying(a, m)) /\ Distinct(Saying(v, l), Saying(c, n))
      /\ Distinct(Saying(a, m), Saying(c, n))
  BY <1>2, SayingApart
<1> QED BY <1>3 DEF h, v, a, c

\* On a narrow terminal every part of a row has a line of its own.
LEMMA StackedText ==
  ASSUME terminal \in Terminals, NEW block \in BlockNames, NEW row, RowFine(row), NEW rail,
         Narrow
  PROVE  Prose(Stacked(block, row, rail), RowSays(block, row))
<1> DEFINE column == LABEL_COL + 4
           What(part) == Piece(block, row.label, part)
           Own(part, size) ==
             IF size = 0 THEN <<>>
             ELSE <<Push(PadTo(PushRail(rail), column), What(part), size)>>
           head == IF row.size = 0 THEN <<>>
                   ELSE <<Push(PushRail(rail), What("label"), row.size)>>
           value == Own("value", row.value)
           annotation == Own("annotation", row.annotation)
           continuation == Own("continuation", row.continuation)
           L == Saying(What("label"), row.size)
           V == Saying(What("value"), row.value)
           A == Saying(What("annotation"), row.annotation)
           C == Saying(What("continuation"), row.continuation)
<1>1. /\ row.label \in RowNames /\ row.label # "title" /\ row.size \in Nat
      /\ row.value \in Nat /\ row.annotation \in Nat /\ row.continuation \in Nat
      /\ row.value # 0
  BY DEF RowFine
<1>2. /\ column \in Nat /\ 9 <= column /\ column <= 17
      /\ \A part \in {"value", "annotation", "continuation"} : column <= Home(part)
  BY DEF LABEL_COL, Home
<1>3. Stacked(block, row, rail) = head \o value \o annotation \o continuation
  BY <1>1 DEF Stacked
<1> HIDE DEF column
<1>4. Prose(value, V) /\ Prose(annotation, A) /\ Prose(continuation, C)
  <2>1. ASSUME NEW part \in {"value", "annotation", "continuation"}, NEW size \in Nat
        PROVE  Prose(Own(part, size), Saying(What(part), size))
    BY <1>1, <1>2, OwnLines
  <2> HIDE DEF What, Own
  <2> QED BY <1>1, <2>1
<1>5. Prose(head, L)
  <2>1. row.size # 0 => row.size > 0
    BY <1>1
  <2>2. CASE row.size = 0
    BY <2>2, NoProse, SaidNothing
  <2>3. CASE row.size # 0
    BY <1>1, <2>1, <2>3, LabelNeat DEF Prose
  <2> QED BY <2>2, <2>3
<1>6. /\ Distinct(L, V) /\ Distinct(L, A) /\ Distinct(L, C)
      /\ Distinct(V, A) /\ Distinct(V, C) /\ Distinct(A, C)
  BY RowSaysApart
<1>7. RowSays(block, row) = L \cup V \cup A \cup C
  BY DEF RowSays
<1> HIDE DEF head, value, annotation, continuation, L, V, A, C
<1>8. Prose(head \o value, L \cup V)
  BY <1>4, <1>5, <1>6, ProseJoined
<1>9. Distinct(L \cup V, A) /\ Distinct(L \cup V, C)
  BY <1>6, DistinctUnion
<1> DEFINE LV == L \cup V
<1> HIDE DEF LV
<1>10. Prose(head \o value, LV) /\ Distinct(LV, A) /\ Distinct(LV, C)
  BY <1>8, <1>9 DEF LV
<1>11. Prose(head \o value \o annotation \o continuation, LV \cup A \cup C)
  BY <1>4, <1>6, <1>10, ThreeJoined
<1> QED BY <1>3, <1>7, <1>11 DEF LV

\* The value of an aligned row, whether or not its label stands beside it.
LEMMA ValuedNeat ==
  ASSUME terminal \in Terminals, NEW block \in BlockNames, NEW label \in RowNames,
         label # "title", ~Narrow, NEW start, NEW last \in Nat, NEW U,
         Neat(start, last, NamesOfRow(block, label), U), last <= 15, start.width <= 16,
         Unsaid(Piece(block, label, "value"), U), NEW size \in Nat, size > 0
  PROVE  LET what == Piece(block, label, "value")
             valued == Push(PadTo(start, VALUE_COL), what, size)
             N == NamesOfRow(block, label)
         IN /\ Neat(valued, valued.width, N, U \cup Saying(what, size)) /\ valued.width = 16 + size
            /\ Prose(<<valued>>, U \cup Saying(what, size))
<1> DEFINE what == Piece(block, label, "value")
           N == NamesOfRow(block, label)
           column == VALUE_COL
           padded == PadTo(start, column)
           valued == Push(padded, what, size)
           V == U
<1>1. /\ OneBlock(N) /\ N \in SUBSET Names /\ \A n \in N : Calm(n)
      /\ what \in N /\ IsName(what) /\ what.part = "value"
  BY RowNamesAre
<1>0. Unsaid(what, V)
  OBVIOUS
<1>2. Neat(start, last, N, V) /\ column \in Nat
  BY DEF VALUE_COL, LABEL_COL, LABEL_WIDTH
<1>3. column - 1 = 16 /\ start.width \in Nat
  BY DEF VALUE_COL, LABEL_COL, LABEL_WIDTH, Neat, LinesOf
<1> HIDE DEF what, column, V, N
<1>4. Neat(padded, last, N, V)
      /\ padded.width = IF start.width >= column - 1 THEN start.width ELSE column - 1
  BY <1>2, PadNeat
<1>5. padded.width = 16
  BY <1>3, <1>4
<1> HIDE DEF padded
<1>6. what \in ReportMarks \cup N /\ Room(padded, last, what, size) /\ Unsaid(what, V)
  BY <1>0, <1>1, <1>5 DEF Room
<1>7. Neat(valued, valued.width, N, V \cup Saying(what, size)) /\ valued.width = padded.width + size
  <2>1. N \in SUBSET Names
    BY <1>1
  <2>2. Neat(padded, last, N, V)
    BY <1>4
  <2>3. what \in ReportMarks \cup N
    BY <1>6
  <2>4. Room(padded, last, what, size)
    BY <1>6
  <2>5. Unsaid(what, V)
    BY <1>6
  <2>6. size \in Nat
    OBVIOUS
  <2>7. Neat(valued, valued.width, N, V \cup Saying(what, size))
    BY <2>1, <2>2, <2>3, <2>4, <2>5, <2>6, PushNeat
  <2>8. valued.width = padded.width + size
    <3>1. padded \in LinesOf(N)
      BY <2>2 DEF Neat
    <3>2. size \in Nat \ {0}
      BY <2>6
    <3> QED BY <2>3, <3>1, <3>2, PushIs
  <2> QED BY <2>7, <2>8
<1>8. V \cup Saying(what, size) = U \cup Saying(what, size)
  BY DEF V
<1> DEFINE W == U \cup Saying(what, size)
<1> HIDE DEF W
<1>9. Neat(valued, valued.width, N, W) /\ valued.width = 16 + size
  BY <1>5, <1>7, <1>8 DEF W
<1>10. ~IsBlank(valued) /\ Within(valued)
  <2>0. size \in Nat \ {0} /\ padded \in LinesOf(N)
    BY <1>4 DEF Neat
  <2>1. ~IsBlank(valued) /\ (IsName(what) /\ padded.width + 1 <= Home(what.part) => Within(valued))
    BY <1>6, <2>0, PushedLast
  <2>2. padded.width + 1 <= Home(what.part)
    BY <1>1, <1>5 DEF Home, VALUE_COL, LABEL_COL, LABEL_WIDTH
  <2> QED BY <1>1, <2>1, <2>2
<1> HIDE DEF valued
<1>11. Prose(<<valued>>, W)
  BY <1>1, <1>9, <1>10, LineIsText DEF Prose
<1> QED BY <1>9, <1>11 DEF valued, padded, column, what, N, W

\* An annotation that fits ends at the edge.
LEMMA AnnotatedText ==
  ASSUME terminal \in Terminals, NEW block \in BlockNames, NEW label \in RowNames,
         label # "title", NEW valued, NEW V,
         Neat(valued, valued.width, NamesOfRow(block, label), V),
         Unsaid(Piece(block, label, "annotation"), V),
         NEW size \in Nat, size > 0, FitsRight(valued, size, Edge)
  PROVE  LET what == Piece(block, label, "annotation") IN
         Prose(<<PushRight(valued, what, size, Edge)>>, V \cup Saying(what, size))
<1> DEFINE what == Piece(block, label, "annotation")
           column == Less(Edge, size) + 1
           padded == PadTo(valued, column)
           line == Push(padded, what, size)
           last == valued.width
           edge == Edge
           N == NamesOfRow(block, label)
<1>1. /\ OneBlock(N) /\ N \in SUBSET Names /\ \A n \in N : Calm(n)
      /\ what \in N /\ IsName(what) /\ what.part = "annotation"
  BY RowNamesAre
<1>2. Unsaid(what, V)
  OBVIOUS
<1>3. PushRight(valued, what, size, Edge) = line
  BY DEF PushRight
<1>4. edge \in Nat /\ edge >= size /\ edge - size >= last + 2 /\ last \in Nat
  <2>1. last \in Nat
    BY DEF Neat
  <2>2. edge \in Nat
    BY RoomIs
  <2>3. FitsRight(valued, size, edge)
    OBVIOUS
  <2> HIDE DEF last, edge
  <2>4. edge >= size /\ edge - size >= last + 2
    BY <2>1, <2>2, <2>3 DEF FitsRight, last
  <2> QED BY <2>1, <2>2, <2>4
<1>5. Neat(valued, last, N, V)
  OBVIOUS
<1> HIDE DEF edge
<1>6. Less(edge, size) \in Nat /\ Less(edge, size) = IF edge >= size THEN edge - size ELSE 0
  BY <1>4, LessIs
<1>7. column - 1 = edge - size /\ column \in Nat
  BY <1>4, <1>6 DEF edge
<1> HIDE DEF what, column, last, N
<1>8. Neat(padded, last, N, V)
      /\ padded.width = IF valued.width >= column - 1 THEN valued.width ELSE column - 1
  <2>1. column \in Nat
    BY <1>7
  <2> QED BY <1>5, <2>1, PadNeat
<1>9. padded.width = edge - size
  BY <1>4, <1>7, <1>8 DEF last
<1> HIDE DEF padded
<1>10. what \in ReportMarks \cup N /\ Room(padded, last, what, size)
  BY <1>1, <1>4, <1>9 DEF Room
<1>11. Neat(line, line.width, N, V \cup Saying(what, size)) /\ line.width = padded.width + size
  <2>1. N \in SUBSET Names
    BY <1>1
  <2>2. Neat(padded, last, N, V)
    BY <1>8
  <2>3. what \in ReportMarks \cup N
    BY <1>10
  <2>4. Room(padded, last, what, size)
    BY <1>10
  <2>5. Unsaid(what, V)
    BY <1>2
  <2>6. size \in Nat
    OBVIOUS
  <2>7. Neat(line, line.width, N, V \cup Saying(what, size))
    BY <2>1, <2>2, <2>3, <2>4, <2>5, <2>6, PushNeat
  <2>8. line.width = padded.width + size
    <3>1. padded \in LinesOf(N)
      BY <2>2 DEF Neat
    <3>2. size \in Nat \ {0}
      BY <2>6
    <3> QED BY <2>3, <3>1, <3>2, PushIs
  <2> QED BY <2>7, <2>8
<1>12. line.width <= edge
  BY <1>4, <1>9, <1>11
<1>13. ~IsBlank(line) /\ Within(line)
  <2>0. size \in Nat \ {0} /\ padded \in LinesOf(N)
    BY <1>8 DEF Neat
  <2> QED BY <1>10, <1>12, <2>0, PushedLast DEF edge
<1> HIDE DEF line
<1>14. Prose(<<line>>, V \cup Saying(what, size))
  BY <1>1, <1>11, <1>13, LineIsText DEF Prose
<1> QED BY <1>3, <1>14 DEF what

\* On any other the annotation stands beside the value, or on the next line.
LEMMA AlignedText ==
  ASSUME terminal \in Terminals, NEW block \in BlockNames, NEW row, RowFine(row), NEW rail,
         ~Narrow
  PROVE  Prose(Aligned(block, row, rail), RowSays(block, row))
<1> DEFINE What(part) == Piece(block, row.label, part)
           N == NamesOfRow(block, row.label)
           labelled == Push(PushRail(rail), What("label"), row.size)
           alone == labelled.width + 2 > VALUE_COL
           start == IF alone THEN PushRail(rail) ELSE labelled
           valued == Push(PadTo(start, VALUE_COL), What("value"), row.value)
           Own(part, size) ==
             IF size = 0 THEN <<>>
             ELSE <<Push(PadTo(PushRail(rail), VALUE_COL), What(part), size)>>
           annotated == PushRight(valued, What("annotation"), row.annotation, Edge)
           fits == row.annotation > 0 /\ FitsRight(valued, row.annotation, Edge)
           head == IF alone THEN <<labelled>> ELSE <<>>
           middle == IF fits THEN <<annotated>> ELSE <<valued>> \o Own("annotation", row.annotation)
           continuation == Own("continuation", row.continuation)
           L == Saying(What("label"), row.size)
           V == Saying(What("value"), row.value)
           A == Saying(What("annotation"), row.annotation)
           C == Saying(What("continuation"), row.continuation)
<1>1. /\ row.label \in RowNames /\ row.label # "title" /\ row.size \in Nat
      /\ row.value \in Nat /\ row.annotation \in Nat /\ row.continuation \in Nat
      /\ row.value > 0
  BY DEF RowFine
<1>2. Aligned(block, row, rail) = head \o middle \o continuation
  BY DEF Aligned
<1>3. RowSays(block, row) = L \cup V \cup A \cup C
  BY DEF RowSays
<1>4. /\ Distinct(L, V) /\ Distinct(L, A) /\ Distinct(L, C)
      /\ Distinct(V, A) /\ Distinct(V, C) /\ Distinct(A, C)
  BY RowSaysApart
<1>5. ASSUME NEW part \in {"annotation", "continuation"}, NEW size \in Nat
      PROVE  Prose(Own(part, size), Saying(What(part), size))
  <2>1. VALUE_COL \in Nat /\ 9 <= VALUE_COL /\ VALUE_COL <= 17 /\ VALUE_COL <= Home(part)
    BY DEF VALUE_COL, LABEL_COL, LABEL_WIDTH, Home
  <2> QED BY <1>1, <2>1, OwnLines
<1>6. /\ Neat(labelled, labelled.width, N, L) /\ labelled.width = 4 + row.size
      /\ row.size > 0 => Prose(<<labelled>>, L)
  BY <1>1, LabelNeat DEF Prose
<1>7. alone <=> row.size > 11
  <2>1. VALUE_COL = 17
    BY DEF VALUE_COL, LABEL_COL, LABEL_WIDTH
  <2> HIDE DEF labelled
  <2> QED BY <1>1, <1>6, <2>1
<1>8. Neat(PushRail(rail), 3, N, {}) /\ PushRail(rail).width = 4
  BY <1>1, RowNamesAre, RailNeat
<1> DEFINE H == IF alone THEN L ELSE {}
           U == IF alone THEN {} ELSE L
           what == What("value")
           note == What("annotation")
<1>17. /\ L = H \cup U /\ \A X : Distinct(L, X) => Distinct(H, X) /\ Distinct(U, X)
  BY DEF Distinct
<1>18. what # What("label") /\ note # What("label") /\ note # what
  BY DEF Piece
<1>19. Unsaid(what, U) /\ Unsaid(note, U \cup V) /\ Distinct(H, U \cup V \cup A)
  <2>1. Unsaid(what, U) /\ Unsaid(note, U \cup V)
    BY <1>18 DEF Unsaid, Saying
  <2>2. Distinct(H, U)
    BY DEF Distinct
  <2> HIDE DEF H, U, V, A, L
  <2>3. Distinct(H, U) /\ Distinct(H, V) /\ Distinct(H, A)
    BY <1>4, <1>17, <2>2
  <2>4. Distinct(H, U \cup V \cup A)
    BY <2>3 DEF Distinct
  <2> QED BY <2>1, <2>4 DEF U, V
<1> HIDE DEF labelled, alone, N
<1>9. Prose(head, H)
  <2>1. CASE alone
    BY <1>1, <1>6, <1>7, <2>1
  <2>2. CASE ~alone
    BY <2>2, NoProse
  <2> QED BY <2>1, <2>2
<1>10. /\ Neat(valued, valued.width, N, U \cup V) /\ Prose(<<valued>>, U \cup V)
  <2>1. PICK last \in Nat : Neat(start, last, N, U) /\ last <= 15 /\ start.width <= 16
    <3>1. CASE alone
      <4>1. 3 \in Nat /\ 3 <= 15 /\ 4 <= 16
        OBVIOUS
      <4> QED BY <1>8, <3>1, <4>1
    <3>2. CASE ~alone
      <4>1. labelled.width \in Nat /\ labelled.width <= 15 /\ labelled.width <= 16
        BY <1>1, <1>6, <1>7, <3>2
      <4> QED BY <1>6, <3>2, <4>1
    <3> QED BY <3>1, <3>2
  <2>2. Neat(start, last, NamesOfRow(block, row.label), U)
    BY <2>1 DEF N
  <2> DEFINE label == row.label
             size == row.value
             placed == Push(PadTo(start, VALUE_COL), Piece(block, label, "value"), size)
             M == NamesOfRow(block, label)
             X == U \cup Saying(Piece(block, label, "value"), size)
  <2>3. label \in RowNames /\ label # "title" /\ size \in Nat /\ size > 0
    BY <1>1
  <2>4. Neat(start, last, NamesOfRow(block, label), U) /\ Unsaid(Piece(block, label, "value"), U)
    BY <1>19, <2>2
  <2>6. valued = placed /\ N = M /\ U \cup V = X
    BY DEF N
  <2> HIDE DEF start, label, size, U, valued, V
  <2>5. Neat(placed, placed.width, M, X) /\ Prose(<<placed>>, X)
    BY <2>1, <2>3, <2>4, ValuedNeat
  <2> QED BY <2>5, <2>6
<1> HIDE DEF valued
<1>11. Prose(middle, U \cup V \cup A)
  <2>1. CASE fits
    <3>1. row.annotation > 0 /\ FitsRight(valued, row.annotation, Edge)
      BY <2>1
    <3> DEFINE UV == U \cup V
               label == row.label
               size == row.annotation
    <3>2. /\ Neat(valued, valued.width, NamesOfRow(block, label), UV)
          /\ Unsaid(Piece(block, label, "annotation"), UV)
      BY <1>10, <1>19 DEF N
    <3>3. /\ label \in RowNames /\ label # "title" /\ size \in Nat /\ size > 0
          /\ FitsRight(valued, size, Edge)
      BY <1>1, <3>1
    <3>4. annotated = PushRight(valued, Piece(block, label, "annotation"), size, Edge)
          /\ A = Saying(Piece(block, label, "annotation"), size)
      OBVIOUS
    <3> HIDE DEF UV, label, size, annotated, A
    <3>5. Prose(<<annotated>>, UV \cup A)
      BY <3>2, <3>3, <3>4, AnnotatedText
    <3> QED BY <2>1, <3>5 DEF UV
  <2>2. CASE ~fits
    <3>1. Prose(Own("annotation", row.annotation), A)
      BY <1>1, <1>5
    <3>3. Distinct(U \cup V, A)
      <4> HIDE DEF U, V, A, L
      <4> QED BY <1>4, <1>17, DistinctUnion
    <3> HIDE DEF Own, A, V, U
    <3>2. Prose(<<valued>> \o Own("annotation", row.annotation), U \cup V \cup A)
      BY <1>10, <3>1, <3>3, ProseJoined
    <3> HIDE DEF fits
    <3> QED BY <2>2, <3>2
  <2> QED BY <2>1, <2>2
<1>12. Prose(continuation, C)
  BY <1>1, <1>5
<1> HIDE DEF head, middle, continuation, L, V, A, C, U, H
<1>13. Prose(head \o middle, H \cup (U \cup V \cup A))
  BY <1>9, <1>11, <1>19, ProseJoined
<1>14. H \cup (U \cup V \cup A) = L \cup V \cup A
  BY <1>17
<1>15. Distinct(L \cup V \cup A, C)
  BY <1>4, DistinctUnion
<1>16. Prose(head \o middle \o continuation, L \cup V \cup A \cup C)
  BY <1>12, <1>13, <1>14, <1>15, ProseJoined
<1> QED BY <1>2, <1>3, <1>16

\* emit_row says value, annotation and continuation, whatever their widths.
LEMMA EmitRowText ==
  ASSUME terminal \in Terminals, NEW block \in BlockNames, NEW row, RowFine(row), NEW rail
  PROVE  /\ Prose(EmitRow(block, row, rail), RowSays(block, row))
         /\ EmitRow(block, row, rail) # <<>>
<1>1. Prose(EmitRow(block, row, rail), RowSays(block, row))
  BY StackedText, AlignedText DEF EmitRow
<1>2. <<Piece(block, row.label, "value"), row.value>> \in RowSays(block, row)
  <2>1. Shown(Piece(block, row.label, "value")) /\ row.value > 0
    BY RowNamesAre DEF RowFine
  <2> QED BY <2>1 DEF RowSays, Saying
<1> DEFINE lines == EmitRow(block, row, rail)
<1>3. Tells(lines, RowSays(block, row))
  BY <1>1 DEF Prose, Text
<1> HIDE DEF lines
<1>4. \E i \in 1 .. Len(lines) : TRUE
  BY <1>2, <1>3 DEF Tells
<1>5. Len(<<>>) = 0
  OBVIOUS
<1>6. lines # <<>>
  BY <1>4, <1>5
<1> QED BY <1>1, <1>6 DEF lines

\* The rows of a block, each with a label of its own.
RowsFine(rows) ==
  /\ (\E S : rows \in Seq(S)) /\ \A i \in 1 .. Len(rows) : RowFine(rows[i])
  /\ \A i, k \in 1 .. Len(rows) : rows[i].label = rows[k].label => i = k

\* What the rows of a block say.
RowsSay(block, rows) == UNION {RowSays(block, rows[i]) : i \in 1 .. Len(rows)}

\* What a row says is said in its name.
LEMMA RowSaysName ==
  ASSUME NEW block, NEW row, NEW w \in RowSays(block, row)
  PROVE  /\ w[1].row = row.label /\ w[1].block = block
         /\ w[1].part \in {"label", "value", "annotation", "continuation"}
<1>1. \A part : Piece(block, row.label, part).row = row.label
                /\ Piece(block, row.label, part).block = block
                /\ Piece(block, row.label, part).part = part
  BY DEF Piece
<1>2. \E part \in {"label", "value", "annotation", "continuation"} :
        w[1] = Piece(block, row.label, part)
  BY DEF RowSays, Saying
<1> QED BY <1>1, <1>2

\* The rows of a block say what each of them says.
LEMMA EmitRowsText ==
  ASSUME terminal \in Terminals, NEW block \in BlockNames, NEW rows, RowsFine(rows), NEW rail
  PROVE  Prose(EmitRows(block, rows, rail), RowsSay(block, rows))
<1> DEFINE S == LinesOf(Names)
           n == Len(rows)
           blocks == [i \in DOMAIN rows |-> EmitRow(block, rows[i], rail)]
           Before(i) == UNION {RowSays(block, rows[k]) : k \in 1 .. i}
           good == {pair \in Nat \X Seq(S) : pair[1] <= n => Prose(pair[2], Before(pair[1]))}
<1>1. n \in Nat /\ DOMAIN rows = 1 .. n
  BY LenProperties DEF RowsFine
<1>2. \A i \in 1 .. n : Prose(blocks[i], RowSays(block, rows[i])) /\ blocks[i] \in Seq(S)
  BY <1>1, EmitRowText DEF RowsFine, Prose, Text, Paper
<1>3. blocks \in Seq(Seq(S)) /\ Len(blocks) = n
  BY <1>1, <1>2, IsASeq
<1> HIDE DEF blocks, S
<1>4. <<0, <<>>>> \in good
  <2>1. Before(0) = {}
    BY SMT
  <2>2. <<>> \in Seq(S)
    OBVIOUS
  <2> HIDE DEF Before
  <2> QED BY <2>1, <2>2, NoProse
<1>5. ASSUME NEW i \in 1 .. n, NEW lines \in Seq(S), <<i - 1, lines>> \in good
      PROVE  <<i, lines \o blocks[i]>> \in good
  <2>1. i - 1 <= n /\ i - 1 \in Nat /\ i \in Nat /\ i <= n
    BY <1>1
  <2>2. Prose(lines, Before(i - 1))
    BY <1>5, <2>1
  <2>3. Before(i) = Before(i - 1) \cup RowSays(block, rows[i])
    <3>1. \A k : k \in 1 .. i <=> k \in 1 .. i - 1 \/ k = i
      BY <2>1
    <3> QED BY <3>1
  <2>4. Distinct(Before(i - 1), RowSays(block, rows[i]))
    <3>1. ASSUME NEW v \in Before(i - 1), NEW w \in RowSays(block, rows[i]) PROVE v[1] # w[1]
      <4>1. PICK k \in 1 .. i - 1 : v \in RowSays(block, rows[k])
        BY <3>1
      <4>2. v[1].row = rows[k].label /\ w[1].row = rows[i].label
        BY <3>1, <4>1, RowSaysName
      <4>3. k \in 1 .. n /\ k # i
        BY <1>1, <4>1
      <4>4. rows[k].label # rows[i].label
        BY <1>5, <4>3 DEF RowsFine
      <4> QED BY <4>2, <4>4
    <3> HIDE DEF Before
    <3> QED BY <3>1 DEF Distinct
  <2> HIDE DEF Before
  <2>5. Prose(lines \o blocks[i], Before(i))
    BY <1>2, <1>5, <2>2, <2>3, <2>4, ProseJoined
  <2>6. lines \o blocks[i] \in Seq(S)
    BY <2>5 DEF Prose, Text, Paper, S
  <2>7. <<i, lines \o blocks[i]>> \in Nat \X Seq(S)
    BY <2>1, <2>6
  <2> QED BY <2>5, <2>7
<1> HIDE DEF good
<1>6. <<n, FlattenSeq(blocks)>> \in good
  BY <1>1, <1>3, <1>4, <1>5, Flattened
<1>7. Prose(FlattenSeq(blocks), Before(n))
  <2>1. n <= n
    BY <1>1
  <2> HIDE DEF n, Before
  <2>2. \A pair \in good : pair[1] <= n => Prose(pair[2], Before(pair[1]))
    BY DEF good
  <2> QED BY <1>6, <2>1, <2>2
<1>8. EmitRows(block, rows, rail) = FlattenSeq(blocks)
  BY DEF EmitRows, blocks
<1> QED BY <1>7, <1>8 DEF RowsSay

=============================================================================
