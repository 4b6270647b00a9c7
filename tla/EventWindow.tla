---------------------------- MODULE EventWindow ----------------------------
(***************************************************************************)
(* Game events from a video (predictions_logic.py): the detections of each *)
(* frame are reduced to who has the ball and whether it is at a rim, a     *)
(* window of the last WindowSize frames is aggregated, and a change of the *)
(* aggregate from one frame to the next becomes an event, which updates    *)
(* the players' statistics.  The statistics are a module-level dictionary: *)
(* they outlive the video and are never reset.                             *)
(*                                                                         *)
(* The geometry (is_near: two box centres less than 50 pixels apart) is    *)
(* abstracted to what the code asks of it: for every ball, which players   *)
(* are near it, in detection order, and whether it is near a rim.          *)
(***************************************************************************)
EXTENDS Naturals, Sequences, FiniteSets

CONSTANTS
  Players,       \* user ids
  NoPlayer,      \* nobody has the ball
  Detections,    \* the frames the detector can produce: sequences of balls
  WindowSize,    \* 10 in the code
  MaxFrames      \* bound: frames a server process sees, over all its videos

Ball == [near: Seq(Players), atRim: BOOLEAN]

\* What process_video returns for a frame of the video.
Frame == Seq(Ball)

ASSUME PlayersAssumption == NoPlayer \notin Players
ASSUME WindowSizeAssumption == WindowSize \in Nat \ {0} /\ MaxFrames \in Nat
ASSUME DetectionsAssumption == Detections \subseteq Frame

Possessor == Players \cup {NoPlayer}
State == [possession: Possessor, shot: BOOLEAN]

VARIABLES
  left,          \* frames the bound still allows
  reading,       \* a video is being processed
  frames,        \* history: the states of its frames so far
  window,        \* window_states
  prev,          \* prev_agg_state, once the first window is full
  events,        \* the events of this video
  stats,         \* player_stats
  base           \* history: player_stats when the video was started

vars == <<left, reading, frames, window, prev, events, stats, base>>
-----------------------------------------------------------------------------
(* One frame.                                                              *)

\* The first ball with a player near it decides, for its first such player.
determine_possession(balls) ==
  LET held == {b \in DOMAIN balls : balls[b].near # <<>>}
  IN  IF held = {}
        THEN NoPlayer
        ELSE balls[CHOOSE b \in held : \A c \in held : b <= c].near[1]

detect_shots(balls) == {b \in DOMAIN balls : balls[b].atRim}

get_frame_state(balls) ==
  [possession |-> determine_possession(balls), shot |-> detect_shots(balls) # {}]

\* Mutant: the oldest frame stays.
NotPopped(states, state) == Append(states, state)

Slid(states, state) == Append(Tail(states), state)

\* Mutant: the oldest frame's possession stands for the window.
aggregate_oldest(states) ==
  [possession |-> states[1].possession,
   shot |-> \E i \in DOMAIN states : states[i].shot]

aggregate_window_state(states) ==
  [possession |-> states[Len(states)].possession,
   shot |-> \E i \in DOMAIN states : states[i].shot]
-----------------------------------------------------------------------------
(* A change of the aggregated state.  Of an event the model keeps its type, *)
(* the frame it is dated by, and the player it takes the ball from and      *)
(* gives it to.                                                             *)

Event == [type: {"shot", "pass", "turnover", "steal", "dribble"},
          at: Nat, from: Possessor, to: Possessor]

NoEvent == [type |-> "none", at |-> 0, from |-> NoPlayer, to |-> NoPlayer]

PossessionChange(from, to) ==
  IF to = NoPlayer THEN "turnover" ELSE IF from = NoPlayer THEN "steal" ELSE "pass"

\* Mutant: an attempt is reported for every frame the ball is at the rim.
attempt_every_frame(p, c) == c.shot

\* The ball has come to the rim.
ShotStarts(p, c) == ~p.shot /\ c.shot

determine_event_change(p, c, i) ==
  CASE ShotStarts(p, c) ->
         [type |-> "shot", at |-> i, from |-> c.possession, to |-> c.possession]
    [] ~ShotStarts(p, c) /\ p.possession # c.possession ->
         [type |-> PossessionChange(p.possession, c.possession), at |-> i,
          from |-> p.possession, to |-> c.possession]
    [] ~ShotStarts(p, c) /\ p.possession = c.possession /\ c.possession # NoPlayer ->
         [type |-> "dribble", at |-> i, from |-> c.possession, to |-> c.possession]
    [] OTHER -> NoEvent

\* Mutant: the event is not guarded by a change of the aggregate.
always_compared(p, c) == TRUE

Changed(p, c) == c # p
-----------------------------------------------------------------------------
(* The statistics.                                                          *)

Fields == {"points", "assists", "turnovers", "steals"}

NewStats == [f \in Fields |-> 0]

get_or_create_player_stats(s, p) == IF p \in DOMAIN s THEN s[p] ELSE NewStats

Put(s, p, record) == [q \in DOMAIN s \cup {p} |-> IF q = p THEN record ELSE s[q]]

\* A shot is always "Undecided": the 2 points of a "Made" one are never given.
ShotPoints == 0

Gain(s, p, f, n) ==
  Put(s, p, [get_or_create_player_stats(s, p) EXCEPT ![f] = @ + n])

\* Mutant: a pass is credited to its receiver.
credit_receiver(s, e) ==
  CASE e.type = "shot" /\ e.from # NoPlayer -> Gain(s, e.from, "points", ShotPoints)
    [] e.type = "pass" -> Gain(s, e.to, "assists", 1)
    [] e.type = "turnover" -> Gain(s, e.from, "turnovers", 1)
    [] e.type = "steal" -> Gain(s, e.to, "steals", 1)
    [] OTHER -> s

update_player_stats(s, e) ==
  CASE e.type = "shot" /\ e.from # NoPlayer -> Gain(s, e.from, "points", ShotPoints)
    [] e.type = "pass" -> Gain(s, e.from, "assists", 1)
    [] e.type = "turnover" -> Gain(s, e.from, "turnovers", 1)
    [] e.type = "steal" -> Gain(s, e.to, "steals", 1)
    [] OTHER -> s
-----------------------------------------------------------------------------
TypeOK ==
  /\ left \in 0..MaxFrames
  /\ reading \in BOOLEAN
  /\ frames \in Seq(State)
  /\ window \in Seq(State)
  /\ Len(window) <= WindowSize
  /\ prev \in State
  /\ events \in Seq(Event)
  /\ DOMAIN stats \subseteq Players
  /\ \A p \in DOMAIN stats : stats[p] \in [Fields -> Nat]
  /\ DOMAIN base \subseteq DOMAIN stats
  /\ \A p \in DOMAIN base : base[p] \in [Fields -> Nat]

NoState == [possession |-> NoPlayer, shot |-> FALSE]

Init ==
  /\ left = MaxFrames
  /\ reading = FALSE
  /\ frames = <<>>
  /\ window = <<>>
  /\ prev = NoState
  /\ events = <<>>
  /\ stats = [p \in {} |-> NewStats]
  /\ base = stats

StartVideo ==
  /\ ~reading
  /\ left > 0
  /\ reading' = TRUE
  /\ frames' = <<>>
  /\ window' = <<>>
  /\ prev' = NoState
  /\ events' = <<>>
  /\ base' = stats
  /\ UNCHANGED <<left, stats>>

\* The first WindowSize frames fill the window; no event comes of them.
FillWindow(balls) ==
  /\ reading
  /\ left > 0
  /\ left' = left - 1
  /\ Len(window) < WindowSize
  /\ frames' = Append(frames, get_frame_state(balls))
  /\ window' = Append(window, get_frame_state(balls))
  /\ prev' = IF Len(window') = WindowSize THEN aggregate_window_state(window') ELSE prev
  /\ UNCHANGED <<reading, events, stats, base>>

SlideWindow(balls) ==
  /\ reading
  /\ left > 0
  /\ left' = left - 1
  /\ Len(window) = WindowSize
  /\ frames' = Append(frames, get_frame_state(balls))
  /\ window' = Slid(window, get_frame_state(balls))
  /\ LET curr  == aggregate_window_state(window')
         event == determine_event_change(prev, curr, Len(frames'))
     IN  /\ prev' = curr
         /\ \/ /\ Changed(prev, curr) /\ event # NoEvent
               /\ events' = Append(events, event)
               /\ stats' = update_player_stats(stats, event)
            \/ /\ ~(Changed(prev, curr) /\ event # NoEvent)
               /\ UNCHANGED <<events, stats>>
  /\ UNCHANGED <<reading, base>>

EndVideo ==
  /\ reading
  /\ reading' = FALSE
  /\ UNCHANGED <<left, frames, window, prev, events, stats, base>>

Next ==
  \/ StartVideo \/ EndVideo
  \/ \E balls \in Detections : FillWindow(balls) \/ SlideWindow(balls)

Spec == Init /\ [][Next]_vars
-----------------------------------------------------------------------------
\* Shots are reported exactly once per approach to the rim: at a frame with
\* the ball at the rim and none in the WindowSize frames before it, and at
\* every such frame; no frame is told of twice.
Approach(i) ==
  frames[i].shot /\ \A j \in (i - WindowSize)..(i - 1) : ~frames[j].shot

ShotsAreApproaches ==
  /\ \A k \in 1..Len(events) :
       events[k].type = "shot" =>
         (events[k].at \in (WindowSize + 1)..Len(frames) /\ Approach(events[k].at))
  /\ \A i \in (WindowSize + 1)..Len(frames) :
       Approach(i) => \E k \in 1..Len(events) : events[k].type = "shot" /\ events[k].at = i
  /\ \A k, l \in 1..Len(events) : k < l => events[k].at < events[l].at

\* The events tell who has the ball: each but a shot, which names the shooter
\* alone, takes it from the player the event before it left it with (the first,
\* from whoever had it when the window was full), and the last one left it with
\* whoever has it now.
Holder(k) == IF k = 0 THEN frames[WindowSize].possession ELSE events[k].to

PossessionChain ==
  Len(frames) >= WindowSize =>
    /\ \A k \in 1..Len(events) :
         events[k].type # "shot" => events[k].from = Holder(k - 1)
    /\ Holder(Len(events)) = frames[Len(frames)].possession

\* A dribble is reported when a shot leaves the window while one player keeps
\* the ball, and only then: holding the ball is otherwise no event.
ShotExpires(i) ==
  /\ frames[i - WindowSize].shot
  /\ \A j \in (i - WindowSize + 1)..i : ~frames[j].shot

DribbleIsExpiredShot ==
  \A k \in 1..Len(events) :
    events[k].type = "dribble" =>
      LET i == events[k].at
      IN  /\ i \in (WindowSize + 1)..Len(frames)
          /\ ShotExpires(i)
          /\ frames[i].possession = frames[i - 1].possession
          /\ frames[i].possession = events[k].to

\* The statistics are those the process had before this video plus what its
\* events add: one assist per pass to the passer, one turnover per ball lost,
\* one steal per ball gained, and no points.
Added(p, f) ==
  Cardinality({k \in 1..Len(events) :
    \/ f = "assists" /\ events[k].type = "pass" /\ events[k].from = p
    \/ f = "turnovers" /\ events[k].type = "turnover" /\ events[k].from = p
    \/ f = "steals" /\ events[k].type = "steal" /\ events[k].to = p})

StatsMatchEvents ==
  \A p \in Players, f \in Fields :
    get_or_create_player_stats(stats, p)[f] =
      get_or_create_player_stats(base, p)[f] + Added(p, f)
=============================================================================
