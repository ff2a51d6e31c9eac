------------------------------- MODULE KeyGesture -------------------------------
(***************************************************************************)
(* CommKey against what a gesture is: a sequence of at most MaxSamples     *)
(* levels, one unit of time apart, is fed to it and kept.                  *)
(***************************************************************************)
EXTENDS CommKey, Sequences, FiniteSets

CONSTANT MaxSamples   \* bound: the levels sampled in a behaviour

VARIABLE trace        \* history: the levels sampled so far, TRUE for pressed

Sample(pressed) ==
  /\ Touch(pressed, 1)
  /\ trace' = Append(trace, pressed)

GestureInit == KeyInit /\ trace = <<>>

GestureNext == Len(trace) < MaxSamples /\ \E pressed \in BOOLEAN : Sample(pressed)

GestureSpec == GestureInit /\ [][GestureNext]_<<keyVars, trace>>

--------------------------------------------------------------------------------
Now == Len(trace)

(* The samples that found the key down. *)
Down == { i \in 1 .. Now : trace[i] }

(* A press: the first and the last sample of a run of pressed ones, as long as
   possible, that is over.                                                  *)
Presses ==
  { p \in (1 .. Now) \X (1 .. Now - 1) :
      /\ p[1] <= p[2] /\ p[1] .. p[2] \subseteq Down
      /\ p[1] - 1 \notin Down /\ p[2] + 1 \notin Down }

Duration(p) == p[2] - p[1]

IsClick(p) == Duration(p) > WaitTime /\ Duration(p) <= HoldTime

(* A press and the next one. *)
Follows(p, q) ==
  p[2] < q[1] /\ ~\E r \in Presses : p[2] < r[1] /\ r[2] < q[1]

SeriesFrom(p) == { q \in Presses : q[1] >= p[1] }

(* Nothing but clicks and short pauses between them. *)
IsSeries(s) ==
  /\ \A p \in s : IsClick(p)
  /\ \A p, q \in s : Follows(p, q) => q[1] - p[2] - 2 <= MultiTime

(* The clicks that belong to one series with the last press. *)
InSeries == { p \in Presses : IsSeries(SeriesFrom(p)) }

Clicks == Cardinality(InSeries)

LastEnd == { p[2] : p \in { q \in Presses : \A r \in Presses : r[2] <= q[2] } }

(* A click count is due once the pause after the last press is too long to be
   one between clicks, a hold at once.                                      *)
CountDue == Clicks > 0 /\ LastEnd = {Now - MultiTime - 2} /\ Now \notin Down

HoldDue == \E p \in Presses : p[2] = Now - 1 /\ Duration(p) > HoldTime

(* What is reported at each turn is what the levels sampled so far say: the
   number of clicks in a series, when and only when it is over, and a hold when
   and only when the key is let go of one.  It takes for granted, as comm_key.h
   says of touch_time, that nobody clicks too often.                        *)
DecodesGestures ==
  Clicks <= HoldMark =>
    /\ (output = "hold") <=> HoldDue
    /\ (output = "times") <=> CountDue
    /\ CountDue => touch_time = Clicks
================================================================================
