------------------------- MODULE EventWindowProofs -------------------------
(***************************************************************************)
(* Proofs about EventWindow, for every set of players, every detector,     *)
(* every window size and any number of frames.                             *)
(***************************************************************************)
EXTENDS EventWindow, FiniteSetTheorems, WellFoundedInduction, TLAPS

USE PlayersAssumption, WindowSizeAssumption, DetectionsAssumption
-----------------------------------------------------------------------------
(* One frame.                                                               *)

Less == {ss \in Nat \X Nat : ss[1] < ss[2]}

LEMMA LessIsWellFounded == IsWellFoundedOn(Less, Nat)
BY NatLessThanWellFounded, Zenon DEF OpToRel, Less

\* A set of naturals has a least element.
LEMMA LeastElement ==
  ASSUME NEW S, S \subseteq Nat, S # {}
  PROVE  \E b \in S : \A c \in S : b <= c
<1>1. PICK b \in S : \A c \in S : ~(<<c, b>> \in Less)
  BY LessIsWellFounded, WFMin, Zenon
<1>2. \A c \in S : ~(c < b)
  BY <1>1 DEF Less
<1> QED
  BY <1>2

\* Whoever has the ball is a player, or nobody.
LEMMA PossessionType ==
  ASSUME NEW balls \in Detections
  PROVE  determine_possession(balls) \in Possessor
<1> DEFINE held == {b \in DOMAIN balls : balls[b].near # <<>>}
           First(b) == b \in held /\ \A c \in held : b <= c
<1>1. balls \in Seq(Ball)
  BY DEF Frame
<1>2. CASE held = {}
  BY <1>2 DEF determine_possession, Possessor
<1>3. CASE held # {}
  <2>1. held \subseteq Nat
    BY <1>1
  <2>2. \E b \in held : \A c \in held : b <= c
    BY <1>3, <2>1, LeastElement
  <2> DEFINE first == CHOOSE b \in held : \A c \in held : b <= c
  <2>3. first \in held
    BY <2>2
  <2>4. balls[first] \in Ball /\ balls[first].near # <<>>
    BY <1>1, <2>3
  <2>5. balls[first].near \in Seq(Players)
    BY <2>4 DEF Ball
  <2>6. balls[first].near[1] \in Players
    BY <2>4, <2>5
  <2>7. determine_possession(balls) = balls[first].near[1]
    BY <1>3 DEF determine_possession
  <2> QED
    BY <2>6, <2>7 DEF Possessor
<1> QED
  BY <1>2, <1>3

LEMMA FrameStateType ==
  ASSUME NEW balls \in Detections
  PROVE  get_frame_state(balls) \in State
BY PossessionType DEF get_frame_state, State

LEMMA AggregateType ==
  ASSUME NEW states \in Seq(State), Len(states) > 0
  PROVE  aggregate_window_state(states) \in State
<1>1. states[Len(states)] \in State
  OBVIOUS
<1> QED
  BY <1>1 DEF aggregate_window_state, State
-----------------------------------------------------------------------------
(* Events and statistics.                                                   *)

\* An event whose statistic has a player to go to.
Credited(e) ==
  /\ e.type = "pass" => e.from \in Players /\ e.to \in Players
  /\ e.type = "turnover" => e.from \in Players
  /\ e.type = "steal" => e.to \in Players

LEMMA EventType ==
  ASSUME NEW p \in State, NEW c \in State, NEW i \in Nat,
         determine_event_change(p, c, i) # NoEvent
  PROVE  /\ determine_event_change(p, c, i) \in Event
         /\ determine_event_change(p, c, i).at = i
         /\ Credited(determine_event_change(p, c, i))
<1>1. p.possession \in Possessor /\ c.possession \in Possessor
  BY DEF State
<1>2. CASE ShotStarts(p, c)
  BY <1>1, <1>2 DEF determine_event_change, Event, Credited
<1>3. CASE ~ShotStarts(p, c) /\ p.possession # c.possession
  <2>1. determine_event_change(p, c, i) =
          [type |-> PossessionChange(p.possession, c.possession), at |-> i,
           from |-> p.possession, to |-> c.possession]
    BY <1>3 DEF determine_event_change
  <2> QED
    BY <1>1, <1>3, <2>1 DEF PossessionChange, Event, Credited, Possessor
<1>4. CASE ~ShotStarts(p, c) /\ p.possession = c.possession
  BY <1>1, <1>4 DEF determine_event_change, Event, Credited
<1> QED
  BY <1>2, <1>3, <1>4

StatsOK(s) == DOMAIN s \subseteq Players /\ \A p \in DOMAIN s : s[p] \in [Fields -> Nat]

LEMMA GainType ==
  ASSUME NEW s, StatsOK(s), NEW p \in Players, NEW f \in Fields, NEW n \in Nat
  PROVE  StatsOK(Gain(s, p, f, n)) /\ DOMAIN s \subseteq DOMAIN Gain(s, p, f, n)
<1> DEFINE old == get_or_create_player_stats(s, p)
           record == [old EXCEPT ![f] = @ + n]
<1>1. old \in [Fields -> Nat]
  BY DEF get_or_create_player_stats, NewStats, StatsOK
<1>2. record \in [Fields -> Nat]
  BY <1>1
<1>3. Gain(s, p, f, n) = Put(s, p, record)
  BY DEF Gain
<1> HIDE DEF record
<1> QED
  BY <1>2, <1>3 DEF Put, StatsOK

LEMMA UpdateType ==
  ASSUME NEW s, StatsOK(s), NEW e \in Event, Credited(e)
  PROVE  /\ StatsOK(update_player_stats(s, e))
         /\ DOMAIN s \subseteq DOMAIN update_player_stats(s, e)
<1> USE DEF Credited
<1>1. {"points", "assists", "turnovers", "steals"} = Fields
  BY DEF Fields
<1>2. CASE e.type = "shot" /\ e.from # NoPlayer
  <2>1. e.from \in Players
    BY <1>2 DEF Event, Possessor
  <2>2. update_player_stats(s, e) = Gain(s, e.from, "points", ShotPoints)
    BY <1>2 DEF update_player_stats
  <2> QED
    BY <1>1, <2>1, <2>2, GainType DEF ShotPoints
<1>3. CASE e.type = "shot" /\ e.from = NoPlayer
  BY <1>3 DEF update_player_stats
<1>4. CASE e.type = "pass"
  BY <1>1, <1>4, GainType DEF update_player_stats
<1>5. CASE e.type = "turnover"
  BY <1>1, <1>5, GainType DEF update_player_stats
<1>6. CASE e.type = "steal"
  BY <1>1, <1>6, GainType DEF update_player_stats
<1>7. CASE e.type = "dribble"
  BY <1>7 DEF update_player_stats
<1> QED
  BY <1>2, <1>3, <1>4, <1>5, <1>6, <1>7 DEF Event
-----------------------------------------------------------------------------
(* The window.                                                              *)

\* What a sequence is after a frame is added to it and, when the window is
\* full, the oldest one goes.
LEMMA AppendFacts ==
  ASSUME NEW S, NEW f \in Seq(S), NEW s \in S
  PROVE  /\ Append(f, s) \in Seq(S)
         /\ Len(Append(f, s)) = Len(f) + 1
         /\ \A i \in 1..Len(f) : Append(f, s)[i] = f[i]
         /\ Append(f, s)[Len(f) + 1] = s
OBVIOUS

LEMMA SlidFacts ==
  ASSUME NEW w \in Seq(State), Len(w) > 0, NEW s \in State
  PROVE  /\ Slid(w, s) \in Seq(State)
         /\ Len(Slid(w, s)) = Len(w)
         /\ \A i \in 1..(Len(w) - 1) : Slid(w, s)[i] = w[i + 1]
         /\ Slid(w, s)[Len(w)] = s
<1>1. /\ Tail(w) \in Seq(State)
      /\ Len(Tail(w)) = Len(w) - 1
      /\ \A i \in 1..(Len(w) - 1) : Tail(w)[i] = w[i + 1]
  OBVIOUS
<1> HIDE DEF Slid
<1> DEFINE t == Tail(w)
<1>2. Slid(w, s) = Append(t, s)
  BY DEF Slid
<1> HIDE DEF t
<1> QED
  BY <1>1, <1>2, AppendFacts DEF t

\* The types of the state.
LEMMA TypeInvariant == Spec => []TypeOK
<1>1. Init => TypeOK
  <2> SUFFICES ASSUME Init PROVE TypeOK
    OBVIOUS
  <2>1. DOMAIN stats = {} /\ base = stats
    BY DEF Init
  <2>2. NoState \in State
    BY DEF NoState, State, Possessor
  <2>3. /\ frames \in Seq(State) /\ window \in Seq(State) /\ events \in Seq(Event)
        /\ Len(window) = 0
    BY DEF Init
  <2>4. left \in 0..MaxFrames /\ reading \in BOOLEAN /\ prev \in State
    <3>1. left = MaxFrames /\ reading = FALSE /\ prev = NoState
      BY Zenon DEF Init
    <3>2. left \in 0..MaxFrames
      BY <3>1
    <3>3. reading \in BOOLEAN
      BY <3>1, Zenon
    <3>4. prev \in State
      BY <2>2, <3>1, Zenon
    <3> QED
      BY <3>2, <3>3, <3>4
  <2>5. Len(window) <= WindowSize
    BY <2>3
  <2> QED
    BY <2>1, <2>3, <2>4, <2>5 DEF TypeOK
<1>2. TypeOK /\ [Next]_vars => TypeOK'
  <2> SUFFICES ASSUME TypeOK, [Next]_vars PROVE TypeOK'
    OBVIOUS
  <2> USE DEF TypeOK
  <2>1. CASE StartVideo
    <3>1. NoState \in State
      BY DEF NoState, State, Possessor
    <3> QED
      BY <2>1, <3>1 DEF StartVideo
  <2>2. CASE EndVideo
    BY <2>2 DEF EndVideo
  <2>3. ASSUME NEW balls \in Detections, FillWindow(balls) PROVE TypeOK'
    <3> DEFINE s == get_frame_state(balls)
    <3>1. s \in State
      BY FrameStateType
    <3>2. frames' = Append(frames, s) /\ window' = Append(window, s) /\ Len(window) < WindowSize
      BY <2>3 DEF FillWindow
    <3> HIDE DEF s
    <3>3. frames' \in Seq(State) /\ window' \in Seq(State) /\ Len(window') = Len(window) + 1
      BY <3>1, <3>2
    <3>4. aggregate_window_state(window') \in State
      BY <3>3, AggregateType
    <3>5. prev' \in State
      BY <2>3, <3>4 DEF FillWindow
    <3>6. left' \in 0..MaxFrames /\ UNCHANGED <<reading, events, stats, base>>
      BY <2>3 DEF FillWindow
    <3> QED
      BY <3>2, <3>3, <3>5, <3>6
  <2>4. ASSUME NEW balls \in Detections, SlideWindow(balls) PROVE TypeOK'
    <3> DEFINE s == get_frame_state(balls)
               curr == aggregate_window_state(window')
               event == determine_event_change(prev, curr, Len(frames'))
    <3>1. s \in State
      BY FrameStateType
    <3>2. /\ frames' = Append(frames, s) /\ window' = Slid(window, s) /\ Len(window) = WindowSize
          /\ left' \in 0..MaxFrames /\ UNCHANGED <<reading, base>> /\ prev' = curr
      BY <2>4 DEF SlideWindow
    <3>3. /\ event # NoEvent /\ events' = Append(events, event)
             /\ stats' = update_player_stats(stats, event)
          \/ UNCHANGED <<events, stats>>
      BY <2>4 DEF SlideWindow
    <3> HIDE DEF s
    <3>4. frames' \in Seq(State) /\ Len(frames') \in Nat
      BY <3>1, <3>2
    <3>5. window' \in Seq(State) /\ Len(window') = WindowSize
      <4>1. window \in Seq(State) /\ Len(window) > 0
        BY <3>2
      <4>2. Slid(window, s) \in Seq(State) /\ Len(Slid(window, s)) = Len(window)
        BY <3>1, <4>1, SlidFacts
      <4> QED
        BY <3>2, <4>2
    <3>6. curr \in State
      BY <3>5, AggregateType
    <3> HIDE DEF curr
    <3>7. StatsOK(stats)
      BY DEF StatsOK
    <3>8. ASSUME event # NoEvent
          PROVE  /\ event \in Event
                 /\ StatsOK(update_player_stats(stats, event))
                 /\ DOMAIN stats \subseteq DOMAIN update_player_stats(stats, event)
      BY <3>4, <3>6, <3>7, <3>8, EventType, UpdateType
    <3> HIDE DEF event
    <3>9. events' \in Seq(Event)
      <4>1. CASE UNCHANGED events
        BY <4>1
      <4>2. CASE event # NoEvent /\ events' = Append(events, event)
        <5>1. event \in Event /\ events \in Seq(Event)
          BY <3>8, <4>2
        <5> QED
          BY <4>2, <5>1, AppendFacts
      <4> QED
        BY <3>3, <4>1, <4>2
    <3>10. StatsOK(stats') /\ DOMAIN stats \subseteq DOMAIN stats'
      <4>1. CASE UNCHANGED stats
        BY <3>7, <4>1 DEF StatsOK
      <4>2. CASE event # NoEvent /\ stats' = update_player_stats(stats, event)
        BY <3>8, <4>2 DEF StatsOK
      <4> QED
        BY <3>3, <4>1, <4>2
    <3> QED
      BY <3>2, <3>4, <3>5, <3>6, <3>9, <3>10 DEF StatsOK
  <2>5. CASE UNCHANGED vars
    BY <2>5 DEF vars
  <2> QED
    BY <2>1, <2>2, <2>3, <2>4, <2>5 DEF Next
<1> QED
  BY <1>1, <1>2, PTL DEF Spec

\* The types of the state, and that the window never outgrows its size.
THEOREM TypeCorrect == Spec => []TypeOK
BY TypeInvariant
-----------------------------------------------------------------------------
(* The inductive invariant: the window is the end of the video read so far, *)
(* prev_agg_state is the aggregate of those frames, and the events are      *)
(* dated by frames that came after the first window.                        *)

WindowIsTail ==
  /\ Len(window) <= Len(frames)
  /\ Len(window) < WindowSize => Len(frames) = Len(window)
  /\ \A j \in 1..Len(window) : window[j] = frames[Len(frames) - Len(window) + j]

PrevIsAggregate ==
  Len(window) = WindowSize =>
    /\ prev.possession = frames[Len(frames)].possession
    /\ prev.shot = \E i \in (Len(frames) - WindowSize + 1)..Len(frames) : frames[i].shot

EventsDated ==
  /\ Len(window) < WindowSize => events = <<>>
  /\ \A k \in 1..Len(events) : events[k].at \in (WindowSize + 1)..Len(frames)

WindowInv == WindowIsTail /\ PrevIsAggregate /\ EventsDated

\* The aggregate of a window that holds the last frames of a video.
LEMMA AggregateOfTail ==
  ASSUME NEW f \in Seq(State), NEW w \in Seq(State),
         Len(w) > 0, Len(w) <= Len(f),
         \A j \in 1..Len(w) : w[j] = f[Len(f) - Len(w) + j]
  PROVE  /\ aggregate_window_state(w).possession = f[Len(f)].possession
         /\ aggregate_window_state(w).shot
              = \E i \in (Len(f) - Len(w) + 1)..Len(f) : f[i].shot
<1>1. w[Len(w)] = f[Len(f)]
  OBVIOUS
<1>2. ASSUME NEW j \in 1..Len(w), w[j].shot
      PROVE  \E i \in (Len(f) - Len(w) + 1)..Len(f) : f[i].shot
  <2>1. Len(f) - Len(w) + j \in (Len(f) - Len(w) + 1)..Len(f)
    OBVIOUS
  <2>2. f[Len(f) - Len(w) + j].shot
    BY <1>2
  <2> QED
    BY <2>1, <2>2
<1>3. ASSUME NEW i \in (Len(f) - Len(w) + 1)..Len(f), f[i].shot
      PROVE  \E j \in 1..Len(w) : w[j].shot
  <2>1. i - (Len(f) - Len(w)) \in 1..Len(w)
    OBVIOUS
  <2>2. w[i - (Len(f) - Len(w))] = f[i]
    BY <2>1
  <2> QED
    BY <1>3, <2>1, <2>2
<1>4. DOMAIN w = 1..Len(w)
  OBVIOUS
<1>5. (\E j \in DOMAIN w : w[j].shot) = (\E i \in (Len(f) - Len(w) + 1)..Len(f) : f[i].shot)
  BY <1>2, <1>3, <1>4, Zenon
<1>6. /\ aggregate_window_state(w).possession = w[Len(w)].possession
      /\ aggregate_window_state(w).shot = \E j \in DOMAIN w : w[j].shot
  BY DEF aggregate_window_state
<1> QED
  BY <1>1, <1>5, <1>6, Zenon

\* A frame of the first window.
LEMMA FillStep ==
  ASSUME TypeOK, WindowInv, NEW balls \in Detections, FillWindow(balls)
  PROVE  /\ Len(frames) < WindowSize
         /\ Len(frames') = Len(frames) + 1
         /\ frames' \in Seq(State) /\ window' \in Seq(State)
         /\ Len(window') = Len(frames')
         /\ \A j \in 1..Len(window') : window'[j] = frames'[j]
         /\ events = <<>> /\ events' = <<>>
<1> DEFINE s == get_frame_state(balls)
<1>1. /\ s \in State /\ frames \in Seq(State) /\ window \in Seq(State)
      /\ Len(window) < WindowSize
      /\ frames' = Append(frames, s) /\ window' = Append(window, s)
      /\ UNCHANGED events
  BY FrameStateType DEF FillWindow, TypeOK
<1>2. /\ Len(frames) = Len(window) /\ events = <<>>
      /\ \A j \in 1..Len(window) : window[j] = frames[Len(frames) - Len(window) + j]
  BY <1>1 DEF WindowInv, WindowIsTail, EventsDated
<1>3. \A j \in 1..Len(window) : window[j] = frames[j]
  <2>1. ASSUME NEW j \in 1..Len(window) PROVE window[j] = frames[j]
    <3>1. Len(frames) - Len(window) + j = j
      BY <1>1, <1>2
    <3> QED
      BY <1>2, <3>1
  <2> QED
    BY <2>1
<1> HIDE DEF s
<1> QED
  BY <1>1, <1>2, <1>3

\* A frame after the first window: the window slides.
LEMMA SlideStep ==
  ASSUME TypeOK, WindowInv, NEW balls \in Detections, SlideWindow(balls)
  PROVE  /\ Len(frames) >= WindowSize
         /\ Len(frames') = Len(frames) + 1
         /\ frames' \in Seq(State) /\ window' \in Seq(State)
         /\ \A i \in 1..Len(frames) : frames'[i] = frames[i]
         /\ Len(window') = WindowSize
         /\ \A j \in 1..Len(window') : window'[j] = frames'[Len(frames') - Len(window') + j]
<1> DEFINE s == get_frame_state(balls)
<1>1. /\ s \in State /\ frames \in Seq(State) /\ window \in Seq(State)
      /\ Len(window) = WindowSize /\ Len(window) > 0
      /\ frames' = Append(frames, s) /\ window' = Slid(window, s)
  BY FrameStateType DEF SlideWindow, TypeOK
<1>2. /\ Len(window) <= Len(frames)
      /\ \A j \in 1..Len(window) : window[j] = frames[Len(frames) - Len(window) + j]
  BY DEF WindowInv, WindowIsTail
<1> HIDE DEF s
<1>3. /\ frames' \in Seq(State) /\ Len(frames') = Len(frames) + 1
      /\ \A i \in 1..Len(frames) : frames'[i] = frames[i]
      /\ frames'[Len(frames) + 1] = s
  BY <1>1, AppendFacts
<1>4. /\ window' \in Seq(State) /\ Len(window') = Len(window)
      /\ \A j \in 1..(Len(window) - 1) : window'[j] = window[j + 1]
      /\ window'[Len(window)] = s
  <2> DEFINE slid == Slid(window, s)
  <2>1. /\ slid \in Seq(State) /\ Len(slid) = Len(window)
        /\ \A j \in 1..(Len(window) - 1) : slid[j] = window[j + 1]
        /\ slid[Len(window)] = s
    <3>1. s \in State /\ window \in Seq(State) /\ Len(window) > 0
      BY <1>1
    <3> QED
      BY <3>1, SlidFacts, SMTT(30)
  <2>2. window' = slid
    BY <1>1
  <2> HIDE DEF slid
  <2> QED
    BY <2>1, <2>2
<1>5. ASSUME NEW j \in 1..Len(window')
      PROVE  window'[j] = frames'[Len(frames') - Len(window') + j]
  <2>1. CASE j = Len(window)
    <3>1. Len(frames') - Len(window') + j = Len(frames) + 1
      BY <1>1, <1>3, <1>4, <2>1
    <3> QED
      BY <1>3, <1>4, <2>1, <3>1
  <2>2. CASE j # Len(window)
    <3>1. j \in 1..(Len(window) - 1) /\ j + 1 \in 1..Len(window)
      BY <1>1, <1>4, <2>2
    <3>2. window'[j] = frames[Len(frames) - Len(window) + (j + 1)]
      BY <1>2, <1>4, <3>1
    <3>3. /\ Len(frames) - Len(window) + (j + 1) = Len(frames') - Len(window') + j
          /\ Len(frames) - Len(window) + (j + 1) \in 1..Len(frames)
      BY <1>1, <1>2, <1>3, <1>4, <3>1
    <3> QED
      BY <1>3, <3>2, <3>3
  <2> QED
    BY <2>1, <2>2
<1> QED
  BY <1>1, <1>2, <1>3, <1>4, <1>5

\* What a step of the window does to the events, in terms of the aggregates
\* before and after it.
LEMMA SlideEvents ==
  ASSUME TypeOK, WindowInv, NEW balls \in Detections, SlideWindow(balls)
  PROVE  \/ /\ UNCHANGED events
            /\ ~ShotStarts(prev, prev')
            /\ prev'.possession = prev.possession
         \/ \E e \in Event :
              /\ events' = Append(events, e)
              /\ e.at = Len(frames)'
              /\ e.type = "shot" <=> ShotStarts(prev, prev')
              /\ e.type # "shot" => e.from = prev.possession
              /\ e.to = prev'.possession
              /\ e.type = "dribble" =>
                   /\ prev.possession = prev'.possession
                   /\ prev.shot /\ ~prev'.shot
<1> DEFINE curr == aggregate_window_state(window')
           event == determine_event_change(prev, curr, Len(frames'))
<1>1. /\ prev' = curr
      /\ \/ Changed(prev, curr) /\ event # NoEvent /\ events' = Append(events, event)
         \/ ~(Changed(prev, curr) /\ event # NoEvent) /\ UNCHANGED events
  BY DEF SlideWindow
<1>2. prev \in State /\ curr \in State /\ Len(frames') \in Nat
  <2>1. curr \in State
    BY SlideStep, AggregateType
  <2>2. Len(frames') \in Nat
    BY SlideStep
  <2> QED
    BY <2>1, <2>2 DEF TypeOK
<1> HIDE DEF curr
<1>3. CASE ~(Changed(prev, curr) /\ event # NoEvent) /\ UNCHANGED events
  <2>1. CASE curr = prev
    BY <1>1, <1>3, <2>1 DEF ShotStarts
  <2>2. CASE event = NoEvent
    <3>1. ~ShotStarts(prev, curr)
      BY <2>2 DEF determine_event_change, NoEvent
    <3>2. ASSUME prev.possession # curr.possession PROVE FALSE
      <4>1. event.type = PossessionChange(prev.possession, curr.possession)
        BY <3>1, <3>2 DEF determine_event_change
      <4>2. event.type = "none"
        BY <2>2 DEF NoEvent
      <4> QED
        BY <4>1, <4>2 DEF PossessionChange
    <3> QED
      BY <1>1, <1>3, <3>1, <3>2
  <2> QED
    BY <1>3, <2>1, <2>2 DEF Changed
<1>4. CASE Changed(prev, curr) /\ event # NoEvent /\ events' = Append(events, event)
  <2>1. event \in Event /\ event.at = Len(frames')
    BY <1>2, <1>4, EventType
  <2>2. /\ event.type = "shot" <=> ShotStarts(prev, curr)
        /\ event.type # "shot" => event.from = prev.possession
        /\ event.to = curr.possession
        /\ event.type = "dribble" => prev.possession = curr.possession
    <3>1. CASE ShotStarts(prev, curr)
      BY <3>1 DEF determine_event_change
    <3>2. CASE ~ShotStarts(prev, curr) /\ prev.possession # curr.possession
      <4>1. event = [type |-> PossessionChange(prev.possession, curr.possession),
                     at |-> Len(frames'), from |-> prev.possession, to |-> curr.possession]
        BY <3>2 DEF determine_event_change
      <4>2. PossessionChange(prev.possession, curr.possession) \in {"turnover", "steal", "pass"}
        BY DEF PossessionChange
      <4> HIDE DEF event
      <4> QED
        BY <3>2, <4>1, <4>2
    <3>3. CASE ~ShotStarts(prev, curr) /\ prev.possession = curr.possession
      BY <1>4, <3>3 DEF determine_event_change
    <3> QED
      BY <3>1, <3>2, <3>3
  <2>3. event.type = "dribble" => prev.shot /\ ~curr.shot
    <3>1. ASSUME prev.possession = curr.possession, prev.shot = curr.shot PROVE FALSE
      BY <1>2, <1>4, <3>1 DEF Changed, State
    <3>2. prev.shot \in BOOLEAN /\ curr.shot \in BOOLEAN
      BY <1>2 DEF State
    <3> HIDE DEF event
    <3> QED
      BY <2>2, <3>1, <3>2 DEF ShotStarts
  <2> HIDE DEF event
  <2> QED
    BY <1>1, <1>4, <2>1, <2>2, <2>3
<1> QED
  BY <1>1, <1>3, <1>4

LEMMA WindowInvariant == Spec => []WindowInv
<1>1. Init => WindowInv
  <2> SUFFICES ASSUME Init PROVE WindowInv
    OBVIOUS
  <2>1. Len(window) = 0 /\ Len(frames) = 0 /\ Len(events) = 0 /\ events = <<>>
    BY DEF Init
  <2>2. WindowIsTail
    BY <2>1 DEF WindowIsTail
  <2>3. Len(window) # WindowSize
    BY <2>1
  <2>4. PrevIsAggregate
    BY <2>3, Zenon DEF PrevIsAggregate
  <2>5. EventsDated
    BY <2>1 DEF EventsDated
  <2> QED
    BY <2>2, <2>4, <2>5 DEF WindowInv
<1>2. TypeOK /\ WindowInv /\ [Next]_vars => WindowInv'
  <2> SUFFICES ASSUME TypeOK, WindowInv, [Next]_vars PROVE WindowInv'
    OBVIOUS
  <2>1. CASE StartVideo
    <3>1. Len(window') = 0 /\ Len(frames') = 0 /\ Len(events') = 0 /\ events' = <<>>
      BY <2>1 DEF StartVideo
    <3>2. WindowIsTail'
      BY <3>1 DEF WindowIsTail
    <3>3. Len(window') # WindowSize
      BY <3>1
    <3>4. PrevIsAggregate'
      BY <3>3, Zenon DEF PrevIsAggregate
    <3>5. EventsDated'
      BY <3>1 DEF EventsDated
    <3> QED
      BY <3>2, <3>4, <3>5 DEF WindowInv
  <2>2. CASE EndVideo
    BY <2>2 DEF EndVideo, WindowInv, WindowIsTail, PrevIsAggregate, EventsDated
  <2>3. ASSUME NEW balls \in Detections, FillWindow(balls) PROVE WindowInv'
    <3>1. /\ Len(frames) < WindowSize /\ Len(frames') = Len(frames) + 1
          /\ frames \in Seq(State) /\ frames' \in Seq(State) /\ window' \in Seq(State)
          /\ Len(window') = Len(frames')
          /\ \A j \in 1..Len(window') : window'[j] = frames'[j]
          /\ events = <<>> /\ events' = <<>>
      BY <2>3, FillStep DEF TypeOK
    <3>2. \A j \in 1..Len(window') : window'[j] = frames'[Len(frames') - Len(window') + j]
      <4>1. ASSUME NEW j \in 1..Len(window')
            PROVE  Len(frames') - Len(window') + j = j
        BY <3>1
      <4> QED
        BY <3>1, <4>1
    <3>3. WindowIsTail'
      BY <3>1, <3>2 DEF WindowIsTail
    <3>4. ASSUME Len(window') = WindowSize
          PROVE  /\ prev'.possession = frames'[Len(frames')].possession
                 /\ prev'.shot = \E i \in (Len(frames') - WindowSize + 1)..Len(frames') : frames'[i].shot
      <4>1. prev' = aggregate_window_state(window')
        BY <2>3, <3>4 DEF FillWindow
      <4>2. Len(window') > 0 /\ Len(window') <= Len(frames')
        BY <3>1, <3>4
      <4> QED
        BY <3>1, <3>2, <3>4, <4>1, <4>2, AggregateOfTail
    <3>5. PrevIsAggregate'
      BY <3>4 DEF PrevIsAggregate
    <3>6. EventsDated'
      BY <3>1 DEF EventsDated
    <3> QED
      BY <3>3, <3>5, <3>6 DEF WindowInv
  <2>4. ASSUME NEW balls \in Detections, SlideWindow(balls) PROVE WindowInv'
    <3>1. /\ Len(frames) >= WindowSize /\ Len(frames') = Len(frames) + 1
          /\ frames \in Seq(State) /\ frames' \in Seq(State) /\ window' \in Seq(State)
          /\ Len(window') = WindowSize
          /\ \A j \in 1..Len(window') : window'[j] = frames'[Len(frames') - Len(window') + j]
      BY <2>4, SlideStep DEF TypeOK
    <3>2. WindowIsTail'
      BY <3>1 DEF WindowIsTail
    <3>3. PrevIsAggregate'
      <4>1. prev' = aggregate_window_state(window')
        BY <2>4 DEF SlideWindow
      <4>2. Len(window') > 0 /\ Len(window') <= Len(frames')
        BY <3>1
      <4>3. /\ prev'.possession = frames'[Len(frames')].possession
            /\ prev'.shot = \E i \in (Len(frames') - WindowSize + 1)..Len(frames') : frames'[i].shot
        BY <3>1, <4>1, <4>2, AggregateOfTail
      <4> QED
        BY <4>3 DEF PrevIsAggregate
    <3>4. EventsDated'
      <4>1. \A k \in 1..Len(events) : events[k].at \in (WindowSize + 1)..Len(frames)
        BY DEF WindowInv, EventsDated
      <4>2. CASE UNCHANGED events
        BY <3>1, <4>1, <4>2 DEF EventsDated
      <4>3. ASSUME NEW e \in Event, events' = Append(events, e), e.at = Len(frames)'
            PROVE  EventsDated'
        <5>1. /\ Len(events') = Len(events) + 1 /\ Len(events) \in Nat
              /\ \A k \in 1..Len(events) : events'[k] = events[k]
              /\ events'[Len(events) + 1] = e
          BY <4>3 DEF TypeOK
        <5>2. e.at \in (WindowSize + 1)..Len(frames')
          BY <3>1, <4>3
        <5>3. ASSUME NEW k \in 1..Len(events')
              PROVE  events'[k].at \in (WindowSize + 1)..Len(frames')
          <6>1. k = Len(events) + 1 \/ k \in 1..Len(events)
            BY <5>1
          <6>2. ASSUME k \in 1..Len(events)
                PROVE  events'[k].at \in (WindowSize + 1)..Len(frames')
            <7>1. events'[k].at \in (WindowSize + 1)..Len(frames)
              BY <4>1, <5>1, <6>2
            <7>2. Len(frames) \in Nat /\ Len(frames') = Len(frames) + 1
              BY <3>1
            <7> QED
              BY <7>1, <7>2
          <6> QED
            BY <5>1, <5>2, <6>1, <6>2
        <5> QED
          BY <3>1, <5>3 DEF EventsDated
      <4> QED
        BY <2>4, <4>2, <4>3, SlideEvents
    <3> QED
      BY <3>2, <3>3, <3>4 DEF WindowInv
  <2>5. CASE UNCHANGED vars
    BY <2>5 DEF vars, WindowInv, WindowIsTail, PrevIsAggregate, EventsDated
  <2> QED
    BY <2>1, <2>2, <2>3, <2>4, <2>5 DEF Next
<1> QED
  BY <1>1, <1>2, TypeInvariant, PTL DEF Spec

\* A shot starts in the aggregate exactly when the new frame is an approach,
\* and ends in it exactly when the frame that left had the last one.
LEMMA SlideShots ==
  ASSUME TypeOK, WindowInv, WindowInv', NEW balls \in Detections, SlideWindow(balls)
  PROVE  LET n == Len(frames')
         IN  /\ ShotStarts(prev, prev') <=>
                  /\ frames'[n].shot
                  /\ \A j \in (n - WindowSize)..(n - 1) : ~frames'[j].shot
             /\ prev.shot /\ ~prev'.shot =>
                  /\ frames'[n - WindowSize].shot
                  /\ \A j \in (n - WindowSize + 1)..n : ~frames'[j].shot
<1> DEFINE n == Len(frames')
<1>1. /\ Len(frames) >= WindowSize /\ n = Len(frames) + 1
      /\ frames \in Seq(State) /\ frames' \in Seq(State)
      /\ \A i \in 1..Len(frames) : frames'[i] = frames[i]
      /\ Len(window) = WindowSize /\ Len(window') = WindowSize
  BY SlideStep DEF TypeOK, SlideWindow
<1> HIDE DEF n
<1>2. prev.shot = \E i \in (n - WindowSize)..(n - 1) : frames[i].shot
  <2>1. Len(frames) - WindowSize + 1 = n - WindowSize /\ Len(frames) = n - 1
    BY <1>1
  <2>2. prev.shot = \E i \in (Len(frames) - WindowSize + 1)..Len(frames) : frames[i].shot
    BY <1>1 DEF WindowInv, PrevIsAggregate
  <2> QED
    BY <2>1, <2>2
<1>3. prev.shot = \E i \in (n - WindowSize)..(n - 1) : frames'[i].shot
  <2>1. \A i \in (n - WindowSize)..(n - 1) : frames'[i] = frames[i]
    BY <1>1
  <2> QED
    BY <1>2, <2>1
<1>4. prev'.shot = \E i \in (n - WindowSize + 1)..n : frames'[i].shot
  BY <1>1 DEF WindowInv, PrevIsAggregate, n
<1>5. ShotStarts(prev, prev') <=>
        /\ frames'[n].shot
        /\ \A j \in (n - WindowSize)..(n - 1) : ~frames'[j].shot
  <2>1. n \in (n - WindowSize + 1)..n
    BY <1>1
  <2>2. \A i \in (n - WindowSize + 1)..n : i = n \/ i \in (n - WindowSize)..(n - 1)
    BY <1>1
  <2> QED
    BY <1>3, <1>4, <2>1, <2>2 DEF ShotStarts
<1>6. prev.shot /\ ~prev'.shot =>
        /\ frames'[n - WindowSize].shot
        /\ \A j \in (n - WindowSize + 1)..n : ~frames'[j].shot
  <2>1. \A i \in (n - WindowSize)..(n - 1) : i = n - WindowSize \/ i \in (n - WindowSize + 1)..n
    <3>1. n \in Nat /\ WindowSize \in Nat
      BY <1>1
    <3> QED
      BY <3>1
  <2> QED
    BY <1>3, <1>4, <2>1
<1> QED
  BY <1>5, <1>6 DEF n

\* What a step of the window adds to the events, read off the frames.
LEMMA SlideSummary ==
  ASSUME TypeOK, WindowInv, WindowInv', NEW balls \in Detections, SlideWindow(balls)
  PROVE  LET n == Len(frames)
         IN  /\ n \in Nat /\ n >= WindowSize /\ Len(frames') = n + 1
             /\ \A i \in 1..n : frames'[i] = frames[i]
             /\ prev.possession = frames'[n].possession
             /\ prev'.possession = frames'[n + 1].possession
             /\ Len(events) \in Nat
             /\ \A k \in 1..Len(events) :
                  events'[k] = events[k] /\ events[k].at \in (WindowSize + 1)..n
             /\ Len(events') \in {Len(events), Len(events) + 1}
<1> DEFINE n == Len(frames)
<1>1. /\ n \in Nat /\ n >= WindowSize /\ Len(frames') = n + 1
      /\ \A i \in 1..n : frames'[i] = frames[i]
      /\ Len(window) = WindowSize /\ Len(window') = WindowSize
  BY SlideStep DEF TypeOK, SlideWindow
<1>2. prev.possession = frames[n].possession /\ frames'[n] = frames[n]
  BY <1>1 DEF WindowInv, PrevIsAggregate
<1>3. prev'.possession = frames'[n + 1].possession
  <2>1. prev'.possession = frames'[Len(frames')].possession
    BY <1>1 DEF WindowInv, PrevIsAggregate
  <2> QED
    BY <1>1, <2>1
<1>4. Len(events) \in Nat /\ \A k \in 1..Len(events) : events[k].at \in (WindowSize + 1)..n
  BY DEF TypeOK, WindowInv, EventsDated
<1>5. /\ \A k \in 1..Len(events) : events'[k] = events[k]
      /\ Len(events') \in {Len(events), Len(events) + 1}
  <2>1. CASE UNCHANGED events
    BY <2>1
  <2>2. ASSUME NEW e \in Event, events' = Append(events, e)
        PROVE  /\ \A k \in 1..Len(events) : events'[k] = events[k]
               /\ Len(events') \in {Len(events), Len(events) + 1}
    BY <2>2 DEF TypeOK
  <2> QED
    BY <2>1, <2>2, SlideEvents
<1> QED
  BY <1>1, <1>2, <1>3, <1>4, <1>5
-----------------------------------------------------------------------------
\* Shots are reported exactly once per approach to the rim.
THEOREM Shots == Spec => []ShotsAreApproaches
<1>1. Init => ShotsAreApproaches
  <2> SUFFICES ASSUME Init PROVE ShotsAreApproaches
    OBVIOUS
  <2>1. Len(events) = 0 /\ Len(frames) = 0
    BY DEF Init
  <2> QED
    BY <2>1 DEF ShotsAreApproaches
<1>2. /\ TypeOK /\ WindowInv /\ WindowInv' /\ ShotsAreApproaches /\ [Next]_vars
      => ShotsAreApproaches'
  <2> SUFFICES ASSUME TypeOK, WindowInv, WindowInv', ShotsAreApproaches, [Next]_vars
               PROVE  ShotsAreApproaches'
    OBVIOUS
  <2>1. CASE StartVideo
    <3>1. Len(events') = 0 /\ Len(frames') = 0
      BY <2>1 DEF StartVideo
    <3> QED
      BY <3>1 DEF ShotsAreApproaches
  <2>2. CASE EndVideo
    BY <2>2 DEF EndVideo, ShotsAreApproaches, Approach
  <2>3. ASSUME NEW balls \in Detections, FillWindow(balls) PROVE ShotsAreApproaches'
    <3>1. /\ Len(frames) < WindowSize /\ Len(frames') = Len(frames) + 1
          /\ Len(frames) \in Nat /\ events' = <<>>
      BY <2>3, FillStep DEF TypeOK
    <3>2. Len(events') = 0 /\ Len(frames') < WindowSize + 1
      BY <3>1
    <3> QED
      BY <3>1, <3>2 DEF ShotsAreApproaches
  <2>4. ASSUME NEW balls \in Detections, SlideWindow(balls) PROVE ShotsAreApproaches'
    <3> DEFINE n == Len(frames)
               After(i) == frames'[i].shot /\ \A j \in (i - WindowSize)..(i - 1) : ~frames'[j].shot
    <3>1. /\ n \in Nat /\ n >= WindowSize /\ Len(frames') = n + 1
          /\ \A i \in 1..n : frames'[i] = frames[i]
          /\ Len(events) \in Nat
          /\ \A k \in 1..Len(events) : events'[k] = events[k] /\ events[k].at \in (WindowSize + 1)..n
          /\ Len(events') \in {Len(events), Len(events) + 1}
      BY <2>4, SlideSummary
    <3>2. ASSUME NEW i \in (WindowSize + 1)..n PROVE After(i) <=> Approach(i)
      <4>1. i \in 1..n /\ \A j \in (i - WindowSize)..(i - 1) : j \in 1..n
        BY <3>1
      <4> QED
        BY <3>1, <4>1 DEF Approach
    <3>3. ShotStarts(prev, prev') <=> After(n + 1)
      <4>1. LET m == Len(frames')
            IN  ShotStarts(prev, prev') <=>
                  /\ frames'[m].shot
                  /\ \A j \in (m - WindowSize)..(m - 1) : ~frames'[j].shot
        BY <2>4, SlideShots
      <4> QED
        BY <3>1, <4>1
    <3> HIDE DEF After
    <3>4. ASSUME NEW k \in 1..Len(events), events[k].type = "shot"
          PROVE  events'[k].at \in (WindowSize + 1)..Len(frames') /\ After(events'[k].at)
      <4>1. events[k].at \in (WindowSize + 1)..n /\ Approach(events[k].at)
        BY <3>4 DEF ShotsAreApproaches
      <4> QED
        BY <3>1, <3>2, <4>1
    <3>5. ASSUME NEW i \in (WindowSize + 1)..n, After(i)
          PROVE  \E k \in 1..Len(events') : events'[k].type = "shot" /\ events'[k].at = i
      <4>1. PICK k \in 1..Len(events) : events[k].type = "shot" /\ events[k].at = i
        BY <3>2, <3>5 DEF ShotsAreApproaches
      <4>2. k \in 1..Len(events') /\ events'[k] = events[k]
        BY <3>1
      <4> QED
        BY <4>1, <4>2
    <3>6. \A i \in (WindowSize + 1)..Len(frames') : i = n + 1 \/ i \in (WindowSize + 1)..n
      BY <3>1
    <3> DEFINE Increasing == \A k, l \in 1..Len(events') : k < l => events'[k].at < events'[l].at
    <3>7. \A k, l \in 1..Len(events) : k < l => events'[k].at < events'[l].at
      BY <3>1 DEF ShotsAreApproaches
    <3>8. CASE UNCHANGED events /\ ~ShotStarts(prev, prev')
      <4>1. \A k \in 1..Len(events') : events'[k].type = "shot" =>
              events'[k].at \in (WindowSize + 1)..Len(frames') /\ After(events'[k].at)
        BY <3>4, <3>8
      <4>2. \A i \in (WindowSize + 1)..Len(frames') : After(i) =>
              \E k \in 1..Len(events') : events'[k].type = "shot" /\ events'[k].at = i
        BY <3>3, <3>5, <3>6, <3>8
      <4>3. Increasing
        BY <3>8, <3>7
      <4> QED
        BY <4>1, <4>2, <4>3 DEF ShotsAreApproaches, Approach, After
    <3>9. ASSUME NEW e \in Event, events' = Append(events, e), e.at = Len(frames'),
                 e.type = "shot" <=> ShotStarts(prev, prev')
          PROVE  ShotsAreApproaches'
      <4>1. Len(events') = Len(events) + 1 /\ events'[Len(events) + 1] = e
        BY <3>9 DEF TypeOK
      <4>2. e.at = n + 1 /\ n + 1 \in (WindowSize + 1)..Len(frames')
        BY <3>1, <3>9
      <4>3. ASSUME NEW k \in 1..Len(events'), events'[k].type = "shot"
            PROVE  events'[k].at \in (WindowSize + 1)..Len(frames') /\ After(events'[k].at)
        <5>1. CASE k = Len(events) + 1
          BY <3>3, <3>9, <4>1, <4>2, <4>3, <5>1
        <5>2. CASE k \in 1..Len(events)
          BY <3>1, <3>4, <4>3, <5>2
        <5> QED
          BY <3>1, <4>1, <5>1, <5>2
      <4>4. ASSUME NEW i \in (WindowSize + 1)..Len(frames'), After(i)
            PROVE  \E k \in 1..Len(events') : events'[k].type = "shot" /\ events'[k].at = i
        <5>1. CASE i = n + 1
          <6>1. Len(events) + 1 \in 1..Len(events')
            BY <3>1, <4>1
          <6>2. e.type = "shot" /\ e.at = i
            BY <3>3, <3>9, <4>2, <4>4, <5>1
          <6> QED
            BY <4>1, <6>1, <6>2
        <5>2. CASE i \in (WindowSize + 1)..n
          BY <3>5, <4>4, <5>2
        <5> QED
          BY <3>6, <5>1, <5>2
      <4>5. ASSUME NEW k \in 1..Len(events'), NEW l \in 1..Len(events'), k < l
            PROVE  events'[k].at < events'[l].at
        <5>1. k \in 1..Len(events) /\ events'[k].at \in (WindowSize + 1)..n
          BY <3>1, <4>1, <4>5
        <5>2. CASE l = Len(events) + 1
          BY <3>1, <4>1, <4>2, <5>1, <5>2
        <5>3. CASE l \in 1..Len(events)
          BY <3>7, <4>5, <5>1, <5>3
        <5> QED
          BY <3>1, <4>1, <5>2, <5>3
      <4> QED
        BY <4>3, <4>4, <4>5 DEF ShotsAreApproaches, Approach, After
    <3> QED
      BY <2>4, <3>8, <3>9, SlideEvents
  <2>5. CASE UNCHANGED vars
    BY <2>5 DEF vars, ShotsAreApproaches, Approach
  <2> QED
    BY <2>1, <2>2, <2>3, <2>4, <2>5 DEF Next
<1> QED
  BY <1>1, <1>2, TypeInvariant, WindowInvariant, PTL DEF Spec

\* The events tell who has the ball, without a gap.
THEOREM Possession == Spec => []PossessionChain
<1>1. Init => PossessionChain
  <2> SUFFICES ASSUME Init PROVE PossessionChain
    OBVIOUS
  <2>1. Len(frames) = 0
    BY DEF Init
  <2> QED
    BY <2>1 DEF PossessionChain
<1>2. /\ TypeOK /\ WindowInv /\ WindowInv' /\ PossessionChain /\ [Next]_vars
      => PossessionChain'
  <2> SUFFICES ASSUME TypeOK, WindowInv, WindowInv', PossessionChain, [Next]_vars
               PROVE  PossessionChain'
    OBVIOUS
  <2>1. CASE StartVideo
    <3>1. Len(frames') = 0
      BY <2>1 DEF StartVideo
    <3> QED
      BY <3>1 DEF PossessionChain
  <2>2. CASE EndVideo
    BY <2>2 DEF EndVideo, PossessionChain, Holder
  <2>3. ASSUME NEW balls \in Detections, FillWindow(balls) PROVE PossessionChain'
    <3>1. /\ Len(frames) < WindowSize /\ Len(frames') = Len(frames) + 1
          /\ Len(frames) \in Nat /\ events' = <<>>
      BY <2>3, FillStep DEF TypeOK
    <3>2. Len(events') = 0 /\ (Len(frames') >= WindowSize => Len(frames') = WindowSize)
      BY <3>1
    <3> QED
      BY <3>2 DEF PossessionChain, Holder
  <2>4. ASSUME NEW balls \in Detections, SlideWindow(balls) PROVE PossessionChain'
    <3> DEFINE n == Len(frames)
               After(k) == IF k = 0 THEN frames'[WindowSize].possession ELSE events'[k].to
    <3>1. /\ n \in Nat /\ n >= WindowSize /\ Len(frames') = n + 1
          /\ \A i \in 1..n : frames'[i] = frames[i]
          /\ prev.possession = frames'[n].possession
          /\ prev'.possession = frames'[n + 1].possession
          /\ Len(events) \in Nat
          /\ \A k \in 1..Len(events) : events'[k] = events[k]
      BY <2>4, SlideSummary
    <3>2. ASSUME NEW k \in 0..Len(events) PROVE After(k) = Holder(k)
      <4>1. CASE k = 0
        BY <3>1, <4>1 DEF Holder
      <4>2. CASE k \in 1..Len(events)
        BY <3>1, <4>2 DEF Holder
      <4> QED
        BY <3>1, <4>1, <4>2
    <3>3. /\ \A k \in 1..Len(events) : events[k].type # "shot" => events[k].from = Holder(k - 1)
          /\ Holder(Len(events)) = frames[n].possession
      BY <3>1 DEF PossessionChain
    <3>4. After(Len(events)) = prev.possession
      BY <3>1, <3>2, <3>3
    <3>5. \A k \in 1..Len(events) : events'[k].type # "shot" => events'[k].from = After(k - 1)
      <4>1. ASSUME NEW k \in 1..Len(events), events'[k].type # "shot"
            PROVE  events'[k].from = After(k - 1)
        <5>1. k - 1 \in 0..Len(events)
          BY <3>1
        <5>2. events[k].type # "shot" /\ events'[k].from = events[k].from
          BY <3>1, <4>1
        <5> HIDE DEF After
        <5> QED
          BY <3>2, <3>3, <5>1, <5>2
      <4> QED
        BY <4>1
    <3> HIDE DEF After
    <3>6. CASE UNCHANGED events /\ prev'.possession = prev.possession
      <4>1. /\ \A k \in 1..Len(events') : events'[k].type # "shot" => events'[k].from = After(k - 1)
            /\ After(Len(events')) = frames'[Len(frames')].possession
        BY <3>1, <3>4, <3>5, <3>6
      <4> QED
        BY <4>1 DEF PossessionChain, Holder, After
    <3>7. ASSUME NEW e \in Event, events' = Append(events, e),
                 e.type # "shot" => e.from = prev.possession,
                 e.to = prev'.possession
          PROVE  PossessionChain'
      <4>1. /\ Len(events') = Len(events) + 1 /\ events'[Len(events) + 1] = e
        BY <3>7 DEF TypeOK
      <4>2. ASSUME NEW k \in 1..Len(events'), events'[k].type # "shot"
            PROVE  events'[k].from = After(k - 1)
        <5>1. CASE k = Len(events) + 1
          <6>1. k - 1 = Len(events)
            BY <3>1, <5>1
          <6> QED
            BY <3>4, <3>7, <4>1, <4>2, <5>1, <6>1
        <5>2. CASE k \in 1..Len(events)
          BY <3>5, <4>2, <5>2
        <5> QED
          BY <3>1, <4>1, <5>1, <5>2
      <4>3. After(Len(events')) = frames'[Len(frames')].possession
        <5>1. Len(events') # 0
          BY <3>1, <4>1
        <5>2. After(Len(events')) = e.to
          BY <4>1, <5>1 DEF After
        <5> QED
          BY <3>1, <3>7, <5>2
      <4> QED
        BY <4>2, <4>3 DEF PossessionChain, Holder, After
    <3> QED
      BY <2>4, <3>6, <3>7, SlideEvents
  <2>5. CASE UNCHANGED vars
    BY <2>5 DEF vars, PossessionChain, Holder
  <2> QED
    BY <2>1, <2>2, <2>3, <2>4, <2>5 DEF Next
<1> QED
  BY <1>1, <1>2, TypeInvariant, WindowInvariant, PTL DEF Spec

\* A dribble is reported only when a shot leaves the window.
THEOREM Dribbles == Spec => []DribbleIsExpiredShot
<1>1. Init => DribbleIsExpiredShot
  <2> SUFFICES ASSUME Init PROVE DribbleIsExpiredShot
    OBVIOUS
  <2>1. Len(events) = 0
    BY DEF Init
  <2> QED
    BY <2>1 DEF DribbleIsExpiredShot
<1>2. /\ TypeOK /\ WindowInv /\ WindowInv' /\ DribbleIsExpiredShot /\ [Next]_vars
      => DribbleIsExpiredShot'
  <2> SUFFICES ASSUME TypeOK, WindowInv, WindowInv', DribbleIsExpiredShot, [Next]_vars
               PROVE  DribbleIsExpiredShot'
    OBVIOUS
  <2>1. CASE StartVideo
    <3>1. Len(events') = 0
      BY <2>1 DEF StartVideo
    <3> QED
      BY <3>1 DEF DribbleIsExpiredShot
  <2>2. CASE EndVideo
    BY <2>2 DEF EndVideo, DribbleIsExpiredShot, ShotExpires
  <2>3. ASSUME NEW balls \in Detections, FillWindow(balls) PROVE DribbleIsExpiredShot'
    <3>1. Len(events') = 0
      BY <2>3, FillStep
    <3> QED
      BY <3>1 DEF DribbleIsExpiredShot
  <2>4. ASSUME NEW balls \in Detections, SlideWindow(balls) PROVE DribbleIsExpiredShot'
    <3> DEFINE n == Len(frames)
               Good(e) ==
                 /\ e.at \in (WindowSize + 1)..Len(frames')
                 /\ frames'[e.at - WindowSize].shot
                 /\ \A j \in (e.at - WindowSize + 1)..e.at : ~frames'[j].shot
                 /\ frames'[e.at].possession = frames'[e.at - 1].possession
                 /\ frames'[e.at].possession = e.to
    <3>1. /\ n \in Nat /\ n >= WindowSize /\ Len(frames') = n + 1
          /\ \A i \in 1..n : frames'[i] = frames[i]
          /\ prev.possession = frames'[n].possession
          /\ prev'.possession = frames'[n + 1].possession
          /\ Len(events) \in Nat
          /\ \A k \in 1..Len(events) : events'[k] = events[k]
      BY <2>4, SlideSummary
    <3>2. ASSUME NEW k \in 1..Len(events), events[k].type = "dribble"
          PROVE  Good(events[k])
      <4> DEFINE i == events[k].at
      <4>1. /\ i \in (WindowSize + 1)..n
            /\ frames[i - WindowSize].shot
            /\ \A j \in (i - WindowSize + 1)..i : ~frames[j].shot
            /\ frames[i].possession = frames[i - 1].possession
            /\ frames[i].possession = events[k].to
        BY <3>2 DEF DribbleIsExpiredShot, ShotExpires
      <4> HIDE DEF i
      <4>2. /\ i \in 1..n /\ i - 1 \in 1..n /\ i - WindowSize \in 1..n
            /\ \A j \in (i - WindowSize + 1)..i : j \in 1..n
            /\ i \in (WindowSize + 1)..Len(frames')
        BY <3>1, <4>1
      <4> QED
        BY <3>1, <4>1, <4>2 DEF i
    <3>3. ASSUME NEW e \in Event, e.at = Len(frames'), e.type = "dribble",
                 e.to = prev'.possession, prev.possession = prev'.possession,
                 prev.shot, ~prev'.shot
          PROVE  Good(e)
      <4>1. LET m == Len(frames')
            IN  /\ frames'[m - WindowSize].shot
                /\ \A j \in (m - WindowSize + 1)..m : ~frames'[j].shot
        BY <2>4, <3>3, SlideShots
      <4>2. e.at \in (WindowSize + 1)..Len(frames') /\ e.at - 1 = n
        BY <3>1, <3>3
      <4> QED
        BY <3>1, <3>3, <4>1, <4>2
    <3> HIDE DEF Good
    <3>4. CASE UNCHANGED events
      <4>1. \A k \in 1..Len(events') : events'[k].type = "dribble" => Good(events'[k])
        BY <3>2, <3>4
      <4> QED
        BY <4>1 DEF DribbleIsExpiredShot, ShotExpires, Good
    <3>5. ASSUME NEW e \in Event, events' = Append(events, e),
                 e.type = "dribble" => Good(e)
          PROVE  DribbleIsExpiredShot'
      <4>1. Len(events') = Len(events) + 1 /\ events'[Len(events) + 1] = e
        BY <3>5 DEF TypeOK
      <4>2. ASSUME NEW k \in 1..Len(events'), events'[k].type = "dribble"
            PROVE  Good(events'[k])
        <5>1. CASE k = Len(events) + 1
          BY <3>5, <4>1, <4>2, <5>1
        <5>2. CASE k \in 1..Len(events)
          BY <3>1, <3>2, <4>2, <5>2
        <5> QED
          BY <3>1, <4>1, <5>1, <5>2
      <4> QED
        BY <4>2 DEF DribbleIsExpiredShot, ShotExpires, Good
    <3> QED
      BY <2>4, <3>3, <3>4, <3>5, SlideEvents
  <2>5. CASE UNCHANGED vars
    BY <2>5 DEF vars, DribbleIsExpiredShot, ShotExpires
  <2> QED
    BY <2>1, <2>2, <2>3, <2>4, <2>5 DEF Next
<1> QED
  BY <1>1, <1>2, TypeInvariant, WindowInvariant, PTL DEF Spec
-----------------------------------------------------------------------------
(* The statistics.                                                          *)

\* The statistic an event counts for, and the positions of those in a list.
CountsFor(e, p, f) ==
  \/ f = "assists" /\ e.type = "pass" /\ e.from = p
  \/ f = "turnovers" /\ e.type = "turnover" /\ e.from = p
  \/ f = "steals" /\ e.type = "steal" /\ e.to = p

Counted(list, p, f) == {k \in 1..Len(list) : CountsFor(list[k], p, f)}

One(condition) == IF condition THEN 1 ELSE 0

\* An event counts once, and those before it keep their count.
LEMMA CountOneMore ==
  ASSUME NEW list \in Seq(Event), NEW e \in Event, NEW p, NEW f
  PROVE  /\ Cardinality(Counted(list, p, f)) \in Nat
         /\ Cardinality(Counted(Append(list, e), p, f)) =
              Cardinality(Counted(list, p, f)) + One(CountsFor(e, p, f))
<1> DEFINE n == Len(list)
           old == Counted(list, p, f)
           new == Counted(Append(list, e), p, f)
<1>1. /\ n \in Nat /\ Len(Append(list, e)) = n + 1
      /\ \A i \in 1..n : Append(list, e)[i] = list[i]
      /\ Append(list, e)[n + 1] = e
  BY AppendFacts
<1>2. IsFiniteSet(old) /\ old \subseteq 1..n /\ n + 1 \notin old
  <2>1. IsFiniteSet(1..n)
    BY <1>1, FS_Interval
  <2>2. old \in SUBSET (1..n) /\ n + 1 \notin 1..n
    BY <1>1 DEF Counted
  <2> HIDE DEF old, n
  <2> QED
    BY <2>1, <2>2, FS_Subset
<1>3. Cardinality(old) \in Nat
  BY <1>2, FS_CardinalityType
<1>4. new = IF CountsFor(e, p, f) THEN old \cup {n + 1} ELSE old
  <2>1. \A i \in 1..(n + 1) : i \in 1..n \/ i = n + 1
    BY <1>1
  <2>2. \A i \in 1..n : i \in 1..(n + 1)
    BY <1>1
  <2>3. n + 1 \in 1..(n + 1) /\ n + 1 \notin 1..n
    BY <1>1
  <2>4. ASSUME NEW i PROVE i \in new <=> (i \in old \/ (i = n + 1 /\ CountsFor(e, p, f)))
    <3> DEFINE a == Append(list, e)
    <3>1. i \in new <=> (i \in 1..(n + 1) /\ CountsFor(a[i], p, f))
      BY <1>1 DEF Counted
    <3>2. i \in old <=> (i \in 1..n /\ CountsFor(list[i], p, f))
      BY DEF Counted
    <3>3. i \in 1..n => a[i] = list[i]
      BY <1>1
    <3>4. a[n + 1] = e
      BY <1>1
    <3> HIDE DEF new, old, n, a
    <3> QED
      BY <2>1, <2>2, <2>3, <3>1, <3>2, <3>3, <3>4
  <2> HIDE DEF new, old, n
  <2> QED
    BY <2>4
<1> HIDE DEF new, old, n
<1>5. Cardinality(new) = Cardinality(old) + One(CountsFor(e, p, f))
  <2>1. CASE CountsFor(e, p, f)
    <3>1. Cardinality(old \cup {n + 1}) = Cardinality(old) + 1
      BY <1>2, FS_AddElement
    <3> QED
      BY <1>4, <2>1, <3>1 DEF One
  <2>2. CASE ~CountsFor(e, p, f)
    BY <1>3, <1>4, <2>2 DEF One
  <2> QED
    BY <2>1, <2>2
<1> QED
  BY <1>3, <1>5 DEF new, old

\* A gain changes one field of one player.
LEMMA GainAdds ==
  ASSUME NEW s, StatsOK(s), NEW q \in Players, NEW g \in Fields, NEW n \in Nat,
         NEW p \in Players, NEW f \in Fields
  PROVE  /\ get_or_create_player_stats(s, p)[f] \in Nat
         /\ get_or_create_player_stats(Gain(s, q, g, n), p)[f] =
              get_or_create_player_stats(s, p)[f] + IF p = q /\ f = g THEN n ELSE 0
<1> DEFINE old == get_or_create_player_stats(s, q)
           record == [old EXCEPT ![g] = @ + n]
           other == get_or_create_player_stats(s, p)
<1>1. old \in [Fields -> Nat] /\ other \in [Fields -> Nat]
  BY DEF get_or_create_player_stats, NewStats, StatsOK
<1>2. record[f] = old[f] + IF f = g THEN n ELSE 0
  BY <1>1
<1>3. Gain(s, q, g, n) = Put(s, q, record)
  BY DEF Gain
<1>4. p = q => other = old
  OBVIOUS
<1>5. get_or_create_player_stats(Put(s, q, record), p) = IF p = q THEN record ELSE other
  <2> HIDE DEF record
  <2> QED
    BY DEF Put, get_or_create_player_stats
<1> HIDE DEF record, old, other
<1>6. other[f] \in Nat
  BY <1>1
<1>7. CASE p = q
  BY <1>2, <1>3, <1>4, <1>5, <1>7, <1>6 DEF other
<1>8. CASE p # q
  BY <1>3, <1>5, <1>6, <1>8 DEF other
<1> QED
  BY <1>7, <1>8

\* An event adds to the statistics what it counts for, and nothing else.
LEMMA UpdateAdds ==
  ASSUME NEW s, StatsOK(s), NEW e \in Event, Credited(e),
         NEW p \in Players, NEW f \in Fields
  PROVE  /\ get_or_create_player_stats(s, p)[f] \in Nat
         /\ get_or_create_player_stats(update_player_stats(s, e), p)[f] =
              get_or_create_player_stats(s, p)[f] + One(CountsFor(e, p, f))
<1> DEFINE Gained(q, g, n) ==
             get_or_create_player_stats(Gain(s, q, g, n), p)[f] =
               get_or_create_player_stats(s, p)[f] + IF p = q /\ f = g THEN n ELSE 0
<1> USE DEF Credited, CountsFor, One
<1>1. {"points", "assists", "turnovers", "steals"} = Fields
  BY DEF Fields
<1>2. get_or_create_player_stats(s, p)[f] \in Nat
  BY GainAdds
<1>3. ASSUME NEW q \in Players, NEW g \in Fields, NEW n \in Nat PROVE Gained(q, g, n)
  BY GainAdds
<1>4. CASE e.type = "shot" /\ e.from # NoPlayer
  <2>1. e.from \in Players
    BY <1>4 DEF Event, Possessor
  <2>2. update_player_stats(s, e) = Gain(s, e.from, "points", 0)
    BY <1>4 DEF update_player_stats, ShotPoints
  <2>3. Gained(e.from, "points", 0)
    BY <1>1, <1>3, <2>1
  <2>4. ~CountsFor(e, p, f)
    BY <1>4
  <2> QED
    BY <1>2, <2>2, <2>3, <2>4
<1>5. CASE e.type = "shot" /\ e.from = NoPlayer
  <2>1. update_player_stats(s, e) = s
    BY <1>5 DEF update_player_stats
  <2> QED
    BY <1>2, <1>5, <2>1
<1>6. CASE e.type = "pass"
  <2>1. update_player_stats(s, e) = Gain(s, e.from, "assists", 1)
    BY <1>6 DEF update_player_stats
  <2>2. Gained(e.from, "assists", 1)
    BY <1>1, <1>3, <1>6
  <2>3. CountsFor(e, p, f) <=> (p = e.from /\ f = "assists")
    BY <1>6
  <2> QED
    BY <1>2, <2>1, <2>2, <2>3
<1>7. CASE e.type = "turnover"
  <2>1. update_player_stats(s, e) = Gain(s, e.from, "turnovers", 1)
    BY <1>7 DEF update_player_stats
  <2>2. Gained(e.from, "turnovers", 1)
    BY <1>1, <1>3, <1>7
  <2>3. CountsFor(e, p, f) <=> (p = e.from /\ f = "turnovers")
    BY <1>7
  <2> QED
    BY <1>2, <2>1, <2>2, <2>3
<1>8. CASE e.type = "steal"
  <2>1. update_player_stats(s, e) = Gain(s, e.to, "steals", 1)
    BY <1>8 DEF update_player_stats
  <2>2. Gained(e.to, "steals", 1)
    BY <1>1, <1>3, <1>8
  <2>3. CountsFor(e, p, f) <=> (p = e.to /\ f = "steals")
    BY <1>8
  <2> QED
    BY <1>2, <2>1, <2>2, <2>3
<1>9. CASE e.type = "dribble"
  <2>1. update_player_stats(s, e) = s
    BY <1>9 DEF update_player_stats
  <2> QED
    BY <1>2, <1>9, <2>1
<1> QED
  BY <1>4, <1>5, <1>6, <1>7, <1>8, <1>9 DEF Event

\* A step of the window appends an event and updates the statistics with it,
\* or leaves both.
LEMMA SlideStats ==
  ASSUME TypeOK, WindowInv, NEW balls \in Detections, SlideWindow(balls)
  PROVE  \/ UNCHANGED <<events, stats>>
         \/ \E e \in Event : /\ Credited(e)
                             /\ events' = Append(events, e)
                             /\ stats' = update_player_stats(stats, e)
<1> DEFINE curr == aggregate_window_state(window')
           event == determine_event_change(prev, curr, Len(frames'))
<1>1. \/ event # NoEvent /\ events' = Append(events, event)
                         /\ stats' = update_player_stats(stats, event)
      \/ UNCHANGED <<events, stats>>
  BY DEF SlideWindow
<1>2. prev \in State /\ curr \in State /\ Len(frames') \in Nat
  <2>1. curr \in State
    BY SlideStep, AggregateType
  <2>2. Len(frames') \in Nat
    BY SlideStep
  <2> QED
    BY <2>1, <2>2 DEF TypeOK
<1> HIDE DEF curr
<1>3. event # NoEvent => event \in Event /\ Credited(event)
  BY <1>2, EventType
<1> HIDE DEF event
<1> QED
  BY <1>1, <1>3

\* The statistics are those from before the video plus what its events count
\* for (predictions_logic.py: update_player_stats), however many videos,
\* frames and players there are: none is lost, counted twice or credited to
\* another player.
THEOREM Statistics == Spec => []StatsMatchEvents
<1> DEFINE Stat(s, p, f) == get_or_create_player_stats(s, p)[f]
           Matches ==
             \A p \in Players, f \in Fields :
               Stat(stats, p, f) = Stat(base, p, f) + Cardinality(Counted(events, p, f))
<1>1. Matches <=> StatsMatchEvents
  <2>1. ASSUME NEW p, NEW f PROVE Added(p, f) = Cardinality(Counted(events, p, f))
    BY DEF Added, Counted, CountsFor
  <2> QED
    BY <2>1 DEF StatsMatchEvents
<1>2. ASSUME NEW s, StatsOK(s)
      PROVE  \A p \in Players, f \in Fields :
               /\ Stat(s, p, f) \in Nat
               /\ Stat(s, p, f) = Stat(s, p, f) + Cardinality(Counted(<<>>, p, f))
  <2>1. ASSUME NEW p \in Players, NEW f \in Fields PROVE Stat(s, p, f) \in Nat
    BY <1>2, <2>1, GainAdds
  <2>2. ASSUME NEW p, NEW f PROVE Cardinality(Counted(<<>>, p, f)) = 0
    <3>1. Counted(<<>>, p, f) = {}
      BY DEF Counted
    <3> QED
      BY <3>1, FS_EmptySet
  <2> HIDE DEF Stat
  <2> QED
    BY <2>1, <2>2
<1>3. Init => Matches
  <2> SUFFICES ASSUME Init PROVE Matches
    OBVIOUS
  <2>1. StatsOK(stats) /\ base = stats /\ events = <<>>
    BY DEF Init, StatsOK
  <2> HIDE DEF Stat
  <2> QED
    BY <1>2, <2>1
<1>4. TypeOK /\ WindowInv /\ Matches /\ [Next]_vars => Matches'
  <2> SUFFICES ASSUME TypeOK, WindowInv, Matches, [Next]_vars PROVE Matches'
    OBVIOUS
  <2>1. StatsOK(stats)
    BY DEF TypeOK, StatsOK
  <2>2. CASE StartVideo
    <3>1. base' = stats /\ stats' = stats /\ events' = <<>>
      BY <2>2 DEF StartVideo
    <3> HIDE DEF Stat
    <3> QED
      BY <1>2, <2>1, <3>1
  <2>3. ASSUME UNCHANGED <<events, stats, base>> PROVE Matches'
    BY <2>3
  <2>4. CASE EndVideo
    BY <2>3, <2>4 DEF EndVideo
  <2>5. ASSUME NEW balls \in Detections, FillWindow(balls) PROVE Matches'
    BY <2>3, <2>5 DEF FillWindow
  <2>6. ASSUME NEW balls \in Detections, SlideWindow(balls) PROVE Matches'
    <3>1. base' = base
      BY <2>6 DEF SlideWindow
    <3>2. CASE UNCHANGED <<events, stats>>
      BY <2>3, <3>1, <3>2
    <3>3. ASSUME NEW e \in Event, Credited(e), events' = Append(events, e),
                 stats' = update_player_stats(stats, e)
          PROVE  Matches'
      <4> SUFFICES ASSUME NEW p \in Players, NEW f \in Fields
                   PROVE  Stat(stats', p, f) =
                            Stat(base, p, f) + Cardinality(Counted(events', p, f))
        BY <3>1
      <4>1. /\ Cardinality(Counted(events, p, f)) \in Nat
            /\ Cardinality(Counted(events', p, f)) =
                 Cardinality(Counted(events, p, f)) + One(CountsFor(e, p, f))
        BY <3>3, CountOneMore DEF TypeOK
      <4>2. /\ Stat(stats, p, f) \in Nat
            /\ Stat(stats', p, f) = Stat(stats, p, f) + One(CountsFor(e, p, f))
        BY <2>1, <3>3, UpdateAdds
      <4>3. Stat(base, p, f) \in Nat
        <5>1. StatsOK(base)
          BY DEF TypeOK, StatsOK
        <5> QED
          BY <1>2, <5>1
      <4>4. Stat(stats, p, f) = Stat(base, p, f) + Cardinality(Counted(events, p, f))
        OBVIOUS
      <4>5. One(CountsFor(e, p, f)) \in Nat
        BY DEF One
      <4> HIDE DEF Stat
      <4> QED
        BY <4>1, <4>2, <4>3, <4>4, <4>5
    <3> QED
      BY <2>6, <3>2, <3>3, SlideStats
  <2>7. CASE UNCHANGED vars
    BY <2>3, <2>7 DEF vars
  <2> QED
    BY <2>2, <2>4, <2>5, <2>6, <2>7 DEF Next
<1>5. Spec => []Matches
  BY <1>3, <1>4, TypeInvariant, WindowInvariant, PTL DEF Spec
<1> HIDE DEF Matches
<1> QED
  BY <1>1, <1>5, PTL
=============================================================================
