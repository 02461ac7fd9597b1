--------------------------- MODULE RadarPlayback ---------------------------
(***************************************************************************)
(* The radar player of the operational map: RadarLayer and its controls    *)
(* (web/src/components/OperationalMap.tsx) over the frame list of          *)
(* web/src/components/map/radar.ts.                                        *)
(*                                                                         *)
(* Two React effects leave something running between renders: an interval  *)
(* that steps the animation and a timeout that ends it in a full-screen    *)
(* kiosk.  Both closures keep the frames of the render that started them,  *)
(* so both captured values are state here, and each action re-runs exactly *)
(* the effects whose dependencies it changes.                              *)
(*                                                                         *)
(* A frame is its age, counted in frame instants before the newest one the *)
(* service reports; when newer instants appear every age grows, and an age *)
(* past the longest window saturates.                                      *)
(***************************************************************************)
EXTENDS Integers, FiniteSets, FiniteSetsExt

CONSTANTS
    Windows,        \* the history windows of RadarControls, in instants
    MaxAge,         \* the longest of them
    DefaultWindow,  \* the one useState starts with
    KioskReset,     \* kioskResetMinutes, in ticks of Minute
    None            \* undefined

ASSUME WindowsAssumption ==
    /\ MaxAge \in Nat
    /\ Windows \subseteq 1 .. MaxAge
    /\ DefaultWindow \in Windows

ASSUME KioskResetAssumption == KioskReset \in Nat \ {0}

ASSUME NoneAssumption == None \notin Int

VARIABLES
    frames,     \* frame_times of the radar record, as ages; {} without one
    mounted,    \* the map is in radar mode
    window,     \* windowMinutes
    selected,   \* selectedFrame
    playing,    \* the Play button is pressed
    interval,   \* the windowedFrames the running interval captured, or None
    timer,      \* the kiosk timeout: minutes left and captured latestFrame
    fullscreen, \* document.fullscreenElement
    hidden,     \* document.hidden
    reduced     \* prefers-reduced-motion

player == <<window, selected, playing, interval, timer>>

page == <<fullscreen, hidden, reduced>>

vars == <<frames, mounted, player, page>>

-----------------------------------------------------------------------------
(* Frames *)

(* A frame older than every window. *)
Gone == MaxAge + 1

Ages == 0 .. MaxAge

Aged(age, newer) ==
    IF age = None THEN None
    ELSE IF age + newer > Gone THEN Gone ELSE age + newer

(* Seeded fault: the window is measured in frames, not in time. *)
YoungestFrames(reported, width) ==
    {a \in reported : Cardinality({b \in reported : b < a}) < width}

(* windowedRadarFrames: the reported frames no older than the newest one   *)
(* less the window.                                                        *)
Windowed(reported, width) ==
    LET newest == Min(reported) IN
    IF reported = {} THEN {} ELSE {a \in reported : a <= newest + width}

windowed == Windowed(frames, window)

(* windowedFrames.at(-1) *)
Latest(cycle) == IF cycle = {} THEN None ELSE Min(cycle)

latest == Latest(windowed)

(* The frame after current in ascending time; the newest wraps around.     *)
NextFrame(cycle, current) ==
    IF \E a \in cycle : a < current THEN Max({a \in cycle : a < current})
                                    ELSE Max(cycle)

(* Seeded fault: the animation stops moving at the newest frame. *)
SteppedToEnd(cycle, current) ==
    IF current = Min(cycle) THEN current
    ELSE IF current \in cycle THEN NextFrame(cycle, current) ELSE Max(cycle)

(* setSelectedFrame of the interval: a frame outside the list has index    *)
(* -1, so the list starts over with its oldest frame.                      *)
Stepped(cycle, current) ==
    IF current \in cycle THEN NextFrame(cycle, current) ELSE Max(cycle)

Displayed == IF selected = None THEN latest ELSE selected

(* nextFrame of the render: with index -1 taken for 0, it is the frame     *)
(* after the oldest one.                                                   *)
Preloaded ==
    IF ~playing \/ Cardinality(windowed) < 2 THEN None
    ELSE IF selected \in windowed THEN NextFrame(windowed, selected)
    ELSE NextFrame(windowed, Max(windowed))

-----------------------------------------------------------------------------
(* Effects *)

NoTimer == [left |-> 0, frame |-> None]

(* The animation effect, for [playing, windowedFrames]: the media query is *)
(* asked when the effect runs, not when the interval fires.                *)
StartInterval(isPlaying, cycle, isReduced) ==
    IF isPlaying /\ Cardinality(cycle) >= 2 /\ ~isReduced THEN cycle ELSE None

(* scheduleReset, for [latestFrame, playing] and on fullscreenchange. *)
StartTimer(isPlaying, cycle, isFullscreen) ==
    IF isPlaying /\ cycle # {} /\ isFullscreen
    THEN [left |-> KioskReset, frame |-> Latest(cycle)]
    ELSE NoTimer

(* Seeded fault: the interval keeps the list it started with. *)
IntervalKept(isPlaying, cycle, newer) ==
    IF interval = None THEN StartInterval(isPlaying, cycle, reduced)
                       ELSE {Aged(a, newer) : a \in interval}

(* A new record is a new frame list, so the interval starts again on it. *)
IntervalAfterAnswer(isPlaying, cycle, newer) ==
    StartInterval(isPlaying, cycle, reduced)

(* Seeded fault: latestFrame is missing from the dependency list. *)
TimerKept(isPlaying, cycle, newer) ==
    IF timer.left > 0 THEN [timer EXCEPT !.frame = Aged(@, newer)]
                      ELSE StartTimer(isPlaying, cycle, fullscreen)

(* Seeded fault: the timeout depends on the record, not on latestFrame. *)
TimerRestarted(isPlaying, cycle, newer) ==
    StartTimer(isPlaying, cycle, fullscreen)

(* The timeout starts again when its dependency latestFrame has changed.   *)
TimerAfterAnswer(isPlaying, cycle, newer) ==
    IF newer = 0 /\ latest # None /\ cycle # {} THEN timer
    ELSE StartTimer(isPlaying, cycle, fullscreen)

-----------------------------------------------------------------------------
(* The query *)

(* Another answer with frames, its newest one "newer" instants later than  *)
(* the newest of the last answer that had any.                             *)
Answer(newer) ==
    /\ mounted
    /\ \E older \in SUBSET (1 .. MaxAge) : frames' = older \cup {0}
    /\ LET cycle == Windowed(frames', window) IN
       /\ interval' = IntervalAfterAnswer(playing, cycle, newer)
       /\ timer' = TimerAfterAnswer(playing, cycle, newer)
    /\ selected' = Aged(selected, newer)
    /\ UNCHANGED <<mounted, window, playing, page>>

NewFrame == \E newer \in 1 .. Gone : Answer(newer)

SameFrame == Answer(0)

(* The API has no radar record left: frame_times is empty. *)
NoRecord ==
    /\ mounted
    /\ frames # {}
    /\ frames' = {}
    /\ interval' = None
    /\ timer' = NoTimer
    /\ UNCHANGED <<mounted, window, selected, playing, page>>

-----------------------------------------------------------------------------
(* The operator *)

TogglePlaying ==
    /\ mounted
    /\ ~reduced
    /\ playing' = ~playing
    /\ interval' = StartInterval(playing', windowed, reduced)
    /\ timer' = StartTimer(playing', windowed, fullscreen)
    /\ UNCHANGED <<frames, mounted, window, selected, page>>

Stop ==
    /\ playing' = FALSE
    /\ interval' = None
    /\ timer' = NoTimer

SelectLatest ==
    /\ mounted
    /\ Stop
    /\ selected' = latest
    /\ UNCHANGED <<frames, mounted, window, page>>

ChangeWindow ==
    /\ mounted
    /\ Stop
    /\ window' \in Windows
    /\ selected' = None
    /\ UNCHANGED <<frames, mounted, page>>

(* Another map mode unmounts the player: effects are cleaned up and the    *)
(* component state is gone; the query cache keeps the frames for a while.  *)
ChangeMode ==
    /\ mounted' = ~mounted
    /\ Stop
    /\ window' = DefaultWindow
    /\ selected' = None
    /\ frames' \in {frames, {}}
    /\ UNCHANGED page

ToggleFullscreen ==
    /\ fullscreen' = ~fullscreen
    /\ timer' = StartTimer(playing, windowed, fullscreen')
    /\ UNCHANGED <<frames, mounted, window, selected, playing,
                   interval, hidden, reduced>>

ToggleHidden ==
    /\ hidden' = ~hidden
    /\ UNCHANGED <<frames, mounted, player, fullscreen, reduced>>

ToggleReduced ==
    /\ reduced' = ~reduced
    /\ UNCHANGED <<frames, mounted, player, fullscreen, hidden>>

-----------------------------------------------------------------------------
(* The clock *)

(* The interval fires; a hidden document skips the step. *)
Step ==
    /\ interval # None
    /\ ~hidden
    /\ selected' = Stepped(interval, selected)
    /\ UNCHANGED <<frames, mounted, window, playing, interval, timer,
                   page>>

Minute ==
    /\ timer.left > 1
    /\ timer' = [timer EXCEPT !.left = @ - 1]
    /\ UNCHANGED <<frames, mounted, window, selected, playing,
                   interval, page>>

(* The timeout fires: setPlaying(false), setSelectedFrame(latestFrame). *)
KioskTimeout ==
    /\ timer.left = 1
    /\ Stop
    /\ selected' = timer.frame
    /\ UNCHANGED <<frames, mounted, window, page>>

-----------------------------------------------------------------------------
Init ==
    /\ frames = {}
    /\ mounted = FALSE
    /\ window = DefaultWindow
    /\ selected = None
    /\ playing = FALSE
    /\ interval = None
    /\ timer = NoTimer
    /\ fullscreen = FALSE
    /\ hidden = FALSE
    /\ reduced = FALSE

Next ==
    \/ NewFrame \/ SameFrame \/ NoRecord
    \/ TogglePlaying \/ SelectLatest \/ ChangeWindow \/ ChangeMode
    \/ ToggleFullscreen \/ ToggleHidden \/ ToggleReduced
    \/ Step \/ Minute \/ KioskTimeout

Spec == Init /\ [][Next]_vars

(* The browser fires timers that are due; nothing makes the feed, the      *)
(* operator or the document change.                                        *)
Fairness == WF_vars(Step) /\ WF_vars(Minute \/ KioskTimeout)

FairSpec == Spec /\ Fairness

-----------------------------------------------------------------------------
(* Properties *)

(* Frames are ages within the windows, selections may be older; a running  *)
(* interval has frames to step through, a running timeout one to return to.*)
TypeOK ==
    /\ frames \in SUBSET Ages /\ (frames # {} => 0 \in frames)
    /\ mounted \in BOOLEAN
    /\ window \in Windows
    /\ selected \in Ages \cup {Gone, None}
    /\ playing \in BOOLEAN
    /\ interval \in {None} \cup SUBSET Ages
    /\ timer \in [left : 1 .. KioskReset, frame : Ages] \cup {NoTimer}
    /\ fullscreen \in BOOLEAN /\ hidden \in BOOLEAN /\ reduced \in BOOLEAN

(* The interval runs only during playback, and the list in its closure is  *)
(* the list on display, although answers replace that list at any moment.  *)
IntervalIsCurrent ==
    interval # None =>
        /\ playing /\ Cardinality(windowed) >= 2
        /\ interval = windowed

(* The kiosk timeout runs exactly while radar plays in full screen with a  *)
(* frame to return to, and the frame in its closure is the newest reported:*)
(* it can neither be forgotten nor return the kiosk to an old frame.       *)
TimerIsCurrent ==
    /\ timer.left > 0 <=> playing /\ fullscreen /\ frames # {}
    /\ timer.left > 0 => timer.frame = Min(frames)

(* Playback never shows a frame from outside the history the operator chose*)
(* (radar.ts), whatever was selected before and however the feed moves;    *)
(* and from a frame of its list it moves to the one the preload layer has  *)
(* been loading.  (The first step of a playback from no selection differs: *)
(* nextFrame takes index -1 for 0 and preloads the second frame of the     *)
(* list while the interval shows the first.)                               *)
StaysInWindow ==
    [][Step => /\ selected' \in 0 .. window
               /\ selected \in windowed => selected' = Preloaded]_vars

(* With a feed that has come to rest, the animation comes around to every  *)
(* frame of its list for as long as it runs in a visible document.         *)
AnimationCycles ==
    <>[][~NewFrame /\ ~SameFrame /\ ~NoRecord]_vars =>
        \A a \in Ages :
            (interval # None /\ a \in windowed) ~>
                (Displayed = a \/ interval = None \/ hidden \/ a \notin windowed)

(* Radar animation in full screen stops and returns to the newest frame    *)
(* after its interval (docs/DEPLOYMENT.md:33), when no newer frame is      *)
(* reported meanwhile: answers that only repeat the newest frame do not    *)
(* hold the kiosk back.                                                    *)
KioskReturnsAtRest ==
    <>[][~NewFrame]_vars =>
        ((playing /\ fullscreen) ~> (~playing \/ ~fullscreen \/ frames = {}))
=============================================================================
