------------------------ MODULE RadarPlaybackProofs ------------------------
(***************************************************************************)
(* Theorems about RadarPlayback, for any set of windows and any timeout.   *)
(***************************************************************************)
EXTENDS RadarPlayback, FiniteSetTheorems, WellFoundedInduction, TLAPS

(* Every nonempty set of naturals has a least element ... *)
LEMMA LeastExists ==
    ASSUME NEW S, S \subseteq Nat, S # {}
    PROVE  /\ Min(S) \in S
           /\ \A a \in S : Min(S) <= a
<1> DEFINE R == OpToRel(<, Nat)
<1>1. IsWellFoundedOn(R, Nat)
  BY NatLessThanWellFounded
<1>2. \A a, b \in Nat : <<b, a>> \in R <=> b < a
  BY DEF OpToRel
<1> HIDE DEF R
<1>3. PICK a \in S : \A b \in S : ~(<<b, a>> \in R)
  BY <1>1, WFMin
<1>4. \A b \in S : ~(b < a)
  BY <1>2, <1>3
<1>5. \A b \in S : a <= b
  BY <1>4
<1> QED
  BY <1>5 DEF Min

LEMMA ZeroIsLeast ==
    ASSUME NEW S, S \subseteq Nat, 0 \in S
    PROVE  Min(S) = 0
<1>1. Min(S) \in S /\ Min(S) <= 0
  BY LeastExists
<1>2. Min(S) \in Nat
  BY <1>1
<1> QED
  BY <1>1, <1>2

(* ... and every nonempty set of ages a greatest one. *)
LEMMA GreatestExists ==
    ASSUME NEW S, S \subseteq Ages, S # {}
    PROVE  /\ Max(S) \in S
           /\ \A a \in S : a <= Max(S)
<1> DEFINE T == {MaxAge - a : a \in S}
<1>0. MaxAge \in Nat /\ \A a \in S : a \in 0 .. MaxAge
  BY WindowsAssumption DEF Ages
<1>1. T \subseteq Nat /\ T # {}
  BY <1>0
<1>2. Min(T) \in T /\ \A b \in T : Min(T) <= b
  BY <1>1, LeastExists
<1>3. PICK g \in S : Min(T) = MaxAge - g
  BY <1>2
<1>4. \A a \in S : MaxAge - g <= MaxAge - a
  BY <1>2, <1>3
<1>5. \A a \in S : g >= a
  BY <1>0, <1>4
<1>6. Max(S) \in S /\ \A a \in S : Max(S) >= a
  BY <1>5 DEF Max
<1> QED
  BY <1>0, <1>6

(* The frames on display: those no older than the window, the newest first.*)
LEMMA WindowedFrames ==
    ASSUME NEW R, R \subseteq Ages, 0 \in R, NEW width \in Nat
    PROVE  /\ Windowed(R, width) = {a \in R : a <= width}
           /\ Windowed(R, width) \subseteq Ages
           /\ Windowed(R, width) # {}
           /\ Latest(Windowed(R, width)) = 0
           /\ Min(R) = 0
<1>1. R \subseteq Nat
  BY WindowsAssumption DEF Ages
<1>2. Min(R) = 0
  BY <1>1, ZeroIsLeast
<1>3. Windowed(R, width) = {a \in R : a <= width}
  BY <1>2 DEF Windowed
<1>4. 0 \in Windowed(R, width)
  BY <1>3
<1>5. Windowed(R, width) \subseteq Nat
  BY <1>1, <1>3
<1>6. Min(Windowed(R, width)) = 0
  BY <1>4, <1>5, ZeroIsLeast
<1> QED
  BY <1>1, <1>2, <1>3, <1>4, <1>6 DEF Latest

LEMMA NoFrames == \A width : Windowed({}, width) = {} /\ Latest({}) = None
BY DEF Windowed, Latest

LEMMA WindowType == TypeOK => window \in Nat /\ window <= MaxAge
BY WindowsAssumption DEF TypeOK

(* What the two effects start is well typed. *)
LEMMA StartTypes ==
    ASSUME NEW R, R \subseteq Ages, R # {} => 0 \in R, NEW width \in Nat,
           NEW p \in BOOLEAN, NEW f \in BOOLEAN, NEW r \in BOOLEAN
    PROVE  /\ StartInterval(p, Windowed(R, width), r) \in {None} \cup SUBSET Ages
           /\ StartTimer(p, Windowed(R, width), f)
                 \in [left : 1 .. KioskReset, frame : Ages] \cup {NoTimer}
<1>1. CASE R = {}
  BY <1>1, NoFrames DEF StartInterval, StartTimer
<1>2. CASE R # {}
  <2>1. /\ Windowed(R, width) \subseteq Ages
        /\ Latest(Windowed(R, width)) = 0
    BY <1>2, WindowedFrames
  <2>2. 0 \in Ages /\ KioskReset \in 1 .. KioskReset
    BY WindowsAssumption, KioskResetAssumption DEF Ages
  <2> QED
    BY <2>1, <2>2 DEF StartInterval, StartTimer
<1> QED
  BY <1>1, <1>2

LEMMA InitTyped == Init => TypeOK
BY WindowsAssumption DEF Init, TypeOK

LEMMA AgedType ==
    ASSUME NEW age \in Ages \cup {Gone, None}, NEW newer \in Nat
    PROVE  Aged(age, newer) \in Ages \cup {Gone, None}
BY WindowsAssumption, NoneAssumption DEF Aged, Ages, Gone

(* The interval steps to a frame of the list it captured. *)
LEMMA SteppedType ==
    ASSUME NEW cycle, cycle \subseteq Ages, cycle # {}, NEW current
    PROVE  Stepped(cycle, current) \in cycle
<1>1. CASE current \in cycle
  <2> DEFINE later == {a \in cycle : a < current}
  <2>1. later # {} => Max(later) \in cycle
    BY GreatestExists
  <2>2. Max(cycle) \in cycle
    BY GreatestExists
  <2>3. later # {} <=> \E a \in cycle : a < current
    OBVIOUS
  <2> HIDE DEF later
  <2> QED
    BY <1>1, <2>1, <2>2, <2>3 DEF Stepped, NextFrame, later
<1>2. CASE current \notin cycle
  BY <1>2, GreatestExists DEF Stepped
<1> QED
  BY <1>1, <1>2

(* A running interval has captured at least two frames. *)
Inv == TypeOK /\ IntervalIsCurrent /\ TimerIsCurrent

LEMMA WindowedNow ==
    ASSUME TypeOK
    PROVE  /\ windowed \subseteq Ages
           /\ frames = {} => windowed = {} /\ latest = None
           /\ frames # {} => /\ windowed # {} /\ latest = 0 /\ Min(frames) = 0
                             /\ windowed = {a \in frames : a <= window}
<1>1. window \in Nat /\ frames \subseteq Ages /\ (frames # {} => 0 \in frames)
  BY WindowType DEF TypeOK
<1>2. CASE frames = {}
  BY <1>2, NoFrames DEF windowed, latest
<1>3. CASE frames # {}
  BY <1>1, <1>3, WindowedFrames DEF windowed, latest
<1> QED
  BY <1>2, <1>3

(* Inv speaks only of these variables. *)
LEMMA Unaffected ==
    ASSUME Inv, UNCHANGED <<frames, mounted, window, playing, interval, timer,
                            fullscreen>>,
           selected' \in Ages \cup {Gone, None},
           hidden' \in BOOLEAN, reduced' \in BOOLEAN
    PROVE  Inv'
BY DEF Inv, TypeOK, IntervalIsCurrent, TimerIsCurrent, windowed

(* Stopping the player leaves nothing running. *)
LEMMA StopKeeps ==
    ASSUME Inv, Stop, window' \in Windows, mounted' \in BOOLEAN,
           frames' \in {frames, {}},
           selected' \in Ages \cup {Gone, None},
           UNCHANGED page
    PROVE  Inv'
<1>1. interval' = None /\ timer' = NoTimer /\ playing' = FALSE
  BY DEF Stop
<1>2. timer'.left = 0
  BY <1>1 DEF NoTimer
<1>3. TypeOK'
  BY <1>1 DEF Inv, TypeOK, page
<1> QED
  BY <1>1, <1>2, <1>3 DEF Inv, IntervalIsCurrent, TimerIsCurrent

LEMMA WindowedNext ==
    ASSUME TypeOK'
    PROVE  /\ frames' = {} => windowed' = {} /\ latest' = None
           /\ frames' # {} => windowed' # {} /\ latest' = 0 /\ Min(frames') = 0
<1>1. /\ window' \in Nat /\ frames' \subseteq Ages
      /\ (frames' # {} => 0 \in frames')
  BY WindowsAssumption DEF TypeOK
<1>2. windowed' = Windowed(frames', window') /\ latest' = Latest(windowed')
  BY DEF windowed, latest
<1>3. CASE frames' = {}
  BY <1>2, <1>3, NoFrames
<1>4. CASE frames' # {}
  BY <1>1, <1>2, <1>4, WindowedFrames
<1> QED
  BY <1>3, <1>4

(* A timeout that has just been started is the one TimerIsCurrent asks for.*)
LEMMA TimerStarted ==
    ASSUME TypeOK', timer' = StartTimer(playing', windowed', fullscreen')
    PROVE  TimerIsCurrent'
<1>1. CASE playing' /\ windowed' # {} /\ fullscreen'
  <2>1. timer' = [left |-> KioskReset, frame |-> latest']
    BY <1>1 DEF StartTimer, latest
  <2>2. timer'.left = KioskReset /\ timer'.frame = latest'
    BY <2>1
  <2>3. timer'.left > 0
    BY <2>2, KioskResetAssumption
  <2>4. frames' # {}
    BY <1>1, WindowedNext
  <2>5. latest' = Min(frames')
    BY <2>4, WindowedNext
  <2> QED
    BY <1>1, <2>2, <2>3, <2>4, <2>5 DEF TimerIsCurrent
<1>2. CASE ~(playing' /\ windowed' # {} /\ fullscreen')
  <2>1. timer'.left = 0
    BY <1>2 DEF StartTimer, NoTimer
  <2> QED
    BY <1>2, <2>1, WindowedNext DEF TimerIsCurrent
<1> QED
  BY <1>1, <1>2

LEMMA IntervalStarted ==
    ASSUME interval' = StartInterval(playing', windowed', reduced)
    PROVE  IntervalIsCurrent'
BY DEF StartInterval, IntervalIsCurrent

LEMMA AnswerKeeps ==
    ASSUME Inv, NEW newer \in Nat, Answer(newer)
    PROVE  Inv'
<1>1. /\ frames' \in SUBSET Ages /\ 0 \in frames'
      /\ UNCHANGED <<mounted, window, playing, fullscreen, hidden, reduced>>
  BY WindowsAssumption DEF Answer, Ages, page
<1>2. window \in Nat /\ playing \in BOOLEAN /\ fullscreen \in BOOLEAN
      /\ reduced \in BOOLEAN
  BY WindowType DEF Inv, TypeOK
<1>3. /\ windowed' = Windowed(frames', window)
      /\ interval' = StartInterval(playing', windowed', reduced)
  BY <1>1 DEF Answer, windowed, IntervalAfterAnswer
<1>4. interval' \in {None} \cup SUBSET Ages
  BY <1>1, <1>2, <1>3, StartTypes
<1>5. StartTimer(playing', windowed', fullscreen')
        \in [left : 1 .. KioskReset, frame : Ages] \cup {NoTimer}
  BY <1>1, <1>2, <1>3, StartTypes
<1>6. selected' \in Ages \cup {Gone, None}
  BY AgedType DEF Answer, Inv, TypeOK
<1>7. timer' = timer \/ timer' = StartTimer(playing', windowed', fullscreen')
  BY <1>1, <1>3 DEF Answer, TimerAfterAnswer
<1>8. TypeOK'
  BY <1>1, <1>4, <1>5, <1>6, <1>7 DEF Inv, TypeOK
<1>9. TimerIsCurrent'
  <2>1. CASE timer' = StartTimer(playing', windowed', fullscreen')
    BY <1>8, <2>1, TimerStarted
  <2>2. CASE timer' # StartTimer(playing', windowed', fullscreen')
    <3>1. newer = 0 /\ latest # None /\ timer' = timer
      BY <1>1, <1>3, <2>2 DEF Answer, TimerAfterAnswer
    <3>2. frames # {} /\ Min(frames) = 0
      BY <3>1, WindowedNow DEF Inv
    <3>3. frames' # {} /\ Min(frames') = 0
      BY <1>1, <1>8, WindowedNext
    <3> QED
      BY <1>1, <3>1, <3>2, <3>3 DEF Inv, TimerIsCurrent
  <2> QED
    BY <2>1, <2>2
<1> QED
  BY <1>3, <1>8, <1>9, IntervalStarted DEF Inv

LEMMA StepKeeps ==
    ASSUME Inv, Next
    PROVE  Inv'
<1>0. TypeOK /\ latest \in Ages \cup {None}
  BY WindowedNow, WindowsAssumption DEF Inv, Ages
<1>1. CASE NewFrame \/ SameFrame
  <2>1. \E newer \in Nat : Answer(newer)
    BY <1>1, WindowsAssumption DEF NewFrame, SameFrame, Gone
  <2> QED
    BY <2>1, AnswerKeeps
<1>2. CASE NoRecord
  <2>1. TypeOK'
    BY <1>0, <1>2 DEF NoRecord, TypeOK, page
  <2>2. timer'.left = 0 /\ frames' = {} /\ interval' = None
    BY <1>2 DEF NoRecord, NoTimer
  <2> QED
    BY <2>1, <2>2 DEF Inv, IntervalIsCurrent, TimerIsCurrent
<1>3. CASE TogglePlaying
  <2>1. /\ UNCHANGED <<frames, mounted, window, selected, fullscreen, hidden,
                        reduced>>
        /\ playing' \in BOOLEAN
        /\ windowed' = windowed
    BY <1>0, <1>3 DEF TogglePlaying, TypeOK, page, windowed
  <2>2. /\ interval' = StartInterval(playing', windowed', reduced)
        /\ timer' = StartTimer(playing', windowed', fullscreen')
    BY <1>3, <2>1 DEF TogglePlaying
  <2>3. /\ interval' \in {None} \cup SUBSET Ages
        /\ timer' \in [left : 1 .. KioskReset, frame : Ages] \cup {NoTimer}
    BY <1>0, <2>1, <2>2, StartTypes, WindowType DEF TypeOK, windowed
  <2>4. TypeOK'
    BY <1>0, <2>1, <2>3 DEF TypeOK
  <2> QED
    BY <2>2, <2>4, TimerStarted, IntervalStarted DEF Inv
<1>4. CASE SelectLatest \/ ChangeWindow \/ ChangeMode
  <2>1. /\ Stop /\ UNCHANGED page /\ frames' \in {frames, {}}
        /\ window' \in Windows /\ mounted' \in BOOLEAN
        /\ selected' \in Ages \cup {Gone, None}
    BY <1>0, <1>4, WindowsAssumption
    DEF SelectLatest, ChangeWindow, ChangeMode, TypeOK
  <2> QED
    BY <2>1, StopKeeps
<1>5. CASE ToggleFullscreen
  <2>1. /\ UNCHANGED <<frames, mounted, window, selected, playing,
                        interval, hidden, reduced>>
        /\ fullscreen' \in BOOLEAN /\ windowed' = windowed
    BY <1>0, <1>5 DEF ToggleFullscreen, TypeOK, windowed
  <2>2. timer' = StartTimer(playing', windowed', fullscreen')
    BY <1>5, <2>1 DEF ToggleFullscreen
  <2>3. timer' \in [left : 1 .. KioskReset, frame : Ages] \cup {NoTimer}
    BY <1>0, <2>1, <2>2, StartTypes, WindowType DEF TypeOK, windowed
  <2>4. TypeOK'
    BY <1>0, <2>1, <2>3 DEF TypeOK
  <2>5. IntervalIsCurrent'
    BY <2>1 DEF Inv, IntervalIsCurrent
  <2> QED
    BY <2>2, <2>4, <2>5, TimerStarted DEF Inv
<1>6. CASE ToggleHidden \/ ToggleReduced
  BY <1>0, <1>6, Unaffected DEF ToggleHidden, ToggleReduced, player, TypeOK
<1>7. CASE Step
  <2>1. interval # None /\ interval \subseteq Ages /\ interval # {}
    BY <1>0, <1>7, WindowedNow, FS_EmptySet
    DEF Step, Inv, TypeOK, IntervalIsCurrent
  <2>2. selected' \in Ages
    BY <1>7, <2>1, SteppedType DEF Step
  <2> QED
    BY <1>0, <1>7, <2>2, Unaffected DEF Step, page, TypeOK
<1>8. CASE Minute
  <2>1. timer \in [left : 1 .. KioskReset, frame : Ages]
    BY <1>0, <1>8 DEF Minute, TypeOK, NoTimer
  <2>2. /\ timer' \in [left : 1 .. KioskReset, frame : Ages]
        /\ timer'.left > 0 /\ timer.left > 0 /\ timer'.frame = timer.frame
    BY <1>8, <2>1, KioskResetAssumption DEF Minute
  <2>3. UNCHANGED <<frames, mounted, window, selected, playing, interval,
                    fullscreen, hidden, reduced>> /\ windowed' = windowed
    BY <1>8 DEF Minute, page, windowed
  <2>4. TypeOK'
    BY <1>0, <2>2, <2>3 DEF TypeOK
  <2> QED
    BY <2>2, <2>3, <2>4 DEF Inv, IntervalIsCurrent, TimerIsCurrent
<1>9. CASE KioskTimeout
  <2>1. timer.frame \in Ages
    BY <1>0, <1>9 DEF KioskTimeout, TypeOK, NoTimer
  <2> QED
    BY <1>0, <1>9, <2>1, StopKeeps DEF KioskTimeout, TypeOK
<1> QED
  BY <1>1, <1>2, <1>3, <1>4, <1>5, <1>6, <1>7, <1>8, <1>9 DEF Next

LEMMA InitHolds == Init => Inv
BY InitTyped DEF Init, Inv, IntervalIsCurrent, TimerIsCurrent, NoTimer

LEMMA Invariant == Spec => []Inv
<1>1. Inv /\ UNCHANGED vars => Inv'
  BY DEF Inv, TypeOK, IntervalIsCurrent, TimerIsCurrent, windowed, vars, player,
         page
<1> QED
  BY <1>1, InitHolds, StepKeeps, PTL DEF Spec

(* The interval callback of useRadarFrames steps through the very list of  *)
(* frames that is on display, for as long as it runs: no reload, window    *)
(* change or gap leaves it with an older list.                             *)
THEOREM IntervalStaysCurrent == Spec => []IntervalIsCurrent
<1>1. Inv => IntervalIsCurrent
  BY DEF Inv
<1> QED
  BY <1>1, Invariant, PTL

(* The kiosk timeout is running exactly while there is something to stop,  *)
(* and it will return to the newest frame reported.                        *)
THEOREM TimerStaysCurrent == Spec => []TimerIsCurrent
<1>1. Inv => TimerIsCurrent
  BY DEF Inv
<1> QED
  BY <1>1, Invariant, PTL

(* The player keeps its types; playback always has a frame to go to.       *)
THEOREM TypeCorrect == Spec => []TypeOK
<1>1. Inv => TypeOK
  BY DEF Inv
<1> QED
  BY <1>1, Invariant, PTL

(* Playback stays inside the chosen history, from any selection, and shows *)
(* the frame that was preloaded.                                           *)
THEOREM PlaybackStaysInWindow == Spec => StaysInWindow
<1>1. Inv /\ [Next]_vars =>
        [Step => /\ selected' \in 0 .. window
                 /\ selected \in windowed => selected' = Preloaded]_vars
  <2> SUFFICES ASSUME Inv, Step
               PROVE  /\ selected' \in 0 .. window
                      /\ selected \in windowed => selected' = Preloaded
    OBVIOUS
  <2>1. interval = windowed /\ frames # {} /\ playing /\ Cardinality(windowed) >= 2
    BY WindowedNow, FS_EmptySet DEF Step, Inv, IntervalIsCurrent
  <2>2. interval = {a \in frames : a <= window} /\ interval # {}
    BY <2>1, WindowedNow DEF Inv
  <2>3. interval \subseteq Ages
    BY <2>1, WindowedNow DEF Inv
  <2>4. selected' \in interval
    BY <2>2, <2>3, SteppedType DEF Step
  <2>5. selected' \in 0 .. window
    BY <2>2, <2>3, <2>4, WindowType, WindowsAssumption DEF Inv, Ages
  <2>6. Cardinality(windowed) \in Nat
    <3>1. IsFiniteSet(0 .. MaxAge)
      BY WindowsAssumption, FS_Interval
    <3>2. IsFiniteSet(windowed)
      BY <2>1, <2>3, <3>1, FS_Subset DEF Ages
    <3> QED
      BY <3>2, FS_CardinalityType
  <2>7. selected \in windowed => selected' = Preloaded
    BY <2>1, <2>6 DEF Step, Stepped, Preloaded
  <2> QED
    BY <2>5, <2>7
<1> QED
  BY <1>1, Invariant, PTL DEF Spec, StaysInWindow
=============================================================================
