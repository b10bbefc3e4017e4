------------------------------ MODULE Feedback ------------------------------
(***************************************************************************)
(* The widgets that answer the user: toasts, tooltips, the ripples of      *)
(* Waves, text fields with their labels, and the thumbs of range inputs.   *)
(* All of them work with timers that race the user's next move.            *)
(***************************************************************************)
EXTENDS Materialize

CONSTANTS Toasts,        \* toasts shown in one behaviour
          DisplayTicks,  \* a toast's displayLength, in ticks of its interval
          MaxTouches,    \* bound: TouchHandler.touches
          MaxFingers,    \* bound: fingers on the page at a time
          WindowWidth,   \* width of the window a tooltip is placed in
          TipWidth,      \* width of the tooltip
          TipShift       \* how far a tooltip beside its origin moves aside

ASSUME FeedbackAssumption ==
  /\ DisplayTicks \in Nat /\ MaxTouches \in Nat /\ MaxFingers \in Nat
  /\ WindowWidth \in Nat /\ TipWidth \in Nat /\ TipWidth + 4 <= WindowWidth
  /\ TipShift \in Nat

VARIABLES toast, tip, waves, field, range

feedbackVars == <<toast, tip, waves, field, range>>

-----------------------------------------------------------------------------
(* Toasts.  exits counts the animations that end in a removal, calls the   *)
(* times the callback ran; held: a finger is on the toast.                 *)

ToastInit ==
  toast = [t \in Toasts |->
    [used |-> FALSE, dom |-> FALSE, panning |-> FALSE, held |-> FALSE,
     time |-> DisplayTicks, ticking |-> FALSE, exits |-> 0, calls |-> 0]]

ToastVars == <<bodyLocked, tip, waves, field, range>>

\* Materialize.toast; without a message the toast never enters the document.
ShowToast(t, message) ==
  /\ On("toast")
  /\ ~toast[t].used
  /\ toast' = [toast EXCEPT ![t].used = TRUE, ![t].dom = message,
                            ![t].ticking = TRUE]
  /\ UNCHANGED ToastVars

ToastTick(t) ==
  /\ On("toast")
  /\ toast[t].ticking
  /\ LET left == IF toast[t].panning THEN toast[t].time ELSE toast[t].time - 1
     IN toast' = [toast EXCEPT
          ![t].time = left,
          ![t].ticking = toast[t].dom /\ left > 0,
          ![t].exits = IF left <= 0 THEN @ + 1 ELSE @]
  /\ UNCHANGED ToastVars

PanToast(t) ==
  /\ On("toast")
  /\ toast[t].dom
  /\ toast' = [toast EXCEPT ![t].panning = TRUE, ![t].held = TRUE]
  /\ UNCHANGED ToastVars

\* Mutant: the class panning stays when the toast slides back.
PanToastEndPanning(t, past) ==
  /\ On("toast")
  /\ toast[t].held
  /\ past => toast[t].exits < 2
  /\ toast' = [toast EXCEPT ![t].held = FALSE,
                            ![t].exits = IF past THEN @ + 1 ELSE @]
  /\ UNCHANGED ToastVars

\* The finger leaves the toast: past the activation distance it goes away.
PanToastEnd(t, past) ==
  /\ On("toast")
  /\ toast[t].held
  /\ past => toast[t].exits < 2
  /\ toast' = [toast EXCEPT ![t].held = FALSE, ![t].panning = past,
                            ![t].exits = IF past THEN @ + 1 ELSE @]
  /\ UNCHANGED ToastVars

\* The callback, then the removal, which throws when the toast is gone.
ToastGone(t) ==
  /\ On("toast")
  /\ toast[t].exits > 0
  /\ toast' = [toast EXCEPT ![t].exits = @ - 1, ![t].calls = @ + 1,
                            ![t].dom = FALSE, ![t].held = FALSE]
  /\ UNCHANGED ToastVars

-----------------------------------------------------------------------------
(* A tooltip.  timer is timeoutRef, hides the timers of mouseleave, fades  *)
(* the animations whose completion hides the tooltip; its left edge is at  *)
(* at, and margin from there.                                              *)

TipInit ==
  \E position \in IF "tooltip" \in page THEN {"left", "right", "above"} ELSE {"above"} :
    tip = [position |-> position, dom |-> TRUE, over |-> FALSE, timer |-> FALSE,
           started |-> FALSE, hides |-> 0, fades |-> 0, shown |-> FALSE,
           at |-> 0, margin |-> 0]

TipVars == <<bodyLocked, toast, waves, field, range>>

EnterTip ==
  /\ On("tooltip")
  /\ ~tip.over
  /\ tip' = [tip EXCEPT !.over = TRUE, !.timer = tip.dom]
  /\ UNCHANGED TipVars

\* The horizontal half: the vertical one compares with NaN and only ever
\* corrects the upper edge.
RepositionWithinScreen(x, width) ==
  IF x < 0 THEN 4
  ELSE IF x + width > WindowWidth THEN WindowWidth - width ELSE x

\* The delay is over: both animations stop, the tooltip is placed beside its
\* origin, wherever that is.
TipDelayOver ==
  /\ On("tooltip")
  /\ tip.timer
  /\ \E x \in {0 - TipWidth, 0, WindowWidth - TipWidth, WindowWidth} :
       tip' = [tip EXCEPT !.timer = FALSE, !.started = TRUE, !.fades = 0,
                          !.shown = TRUE,
                          !.at = RepositionWithinScreen(x, TipWidth)]
  /\ UNCHANGED TipVars

LeaveTip ==
  /\ On("tooltip")
  /\ tip.over /\ tip.hides < 2
  /\ tip' = IF ~tip.dom THEN [tip EXCEPT !.over = FALSE]
            ELSE [tip EXCEPT !.over = FALSE, !.started = FALSE, !.timer = FALSE,
                             !.hides = @ + 1]
  /\ UNCHANGED TipVars

TipHideTimer ==
  /\ On("tooltip")
  /\ tip.hides > 0 /\ tip.fades < 2
  /\ tip' = [tip EXCEPT !.hides = @ - 1,
                        !.fades = IF tip.started THEN @ ELSE @ + 1]
  /\ UNCHANGED TipVars

TipFaded ==
  /\ On("tooltip")
  /\ tip.fades > 0
  /\ tip' = [tip EXCEPT !.fades = @ - 1, !.shown = FALSE, !.started = FALSE]
  /\ UNCHANGED TipVars

\* The margins between which a tooltip is moved: aside as it appears, back as
\* it fades.
Margins(position) ==
  IF position = "left" THEN (0 - TipShift)..0
  ELSE IF position = "right" THEN 0..TipShift ELSE {0}

\* A frame of the animations that move the tooltip after it was placed.
TipMoves(margin) ==
  /\ On("tooltip")
  /\ tip.shown /\ margin # tip.margin
  /\ margin \in Margins(tip.position)
  /\ tip' = [tip EXCEPT !.margin = margin]
  /\ UNCHANGED TipVars

\* tooltip('remove'): the element and the handlers go, the timers stay.
RemoveTip ==
  /\ On("tooltip")
  /\ tip.dom
  /\ tip' = [tip EXCEPT !.dom = FALSE]
  /\ UNCHANGED TipVars

-----------------------------------------------------------------------------
(* Waves.  fingers counts the touches by where they are, pops the timers   *)
(* that take one from touches; ripples is the children of one element in   *)
(* order, TRUE for a ripple that fades; several remembers that two         *)
(* pointers pressed the element at a time.                                 *)

WavesInit ==
  waves = [touches |-> 0, on |-> 0, off |-> 0, pops |-> 0, button |-> FALSE,
           listens |-> FALSE, ripples |-> <<>>, mouseAt |-> {}, several |-> FALSE]

WavesVars == <<bodyLocked, toast, tip, field, range>>

\* showEffect on the element, for an allowed event.
Ripple(w) == [w EXCEPT !.ripples = Append(@, FALSE), !.listens = TRUE]

\* Mutant: the first ripple fades.
HideFirstRipple(w) ==
  IF w.listens /\ w.ripples # <<>> THEN [w EXCEPT !.ripples[1] = TRUE] ELSE w

\* Effect.hide fades the last of the ripples.
HideRipple(w) ==
  IF w.listens /\ w.ripples # <<>>
  THEN [w EXCEPT !.ripples[Len(w.ripples)] = TRUE] ELSE w

\* A finger comes down on the element or elsewhere: the body's listener
\* counts it wherever it is.
TouchStart(onElement) ==
  /\ On("waves")
  /\ waves.on + waves.off < MaxFingers /\ waves.touches < MaxTouches
  /\ Len(waves.ripples) < MaxTouches
  /\ LET counted == [waves EXCEPT !.touches = @ + 1]
     IN waves' = IF onElement
                 THEN [Ripple(counted) EXCEPT !.on = @ + 1,
                         !.several = @ \/ waves.on > 0 \/ waves.button]
                 ELSE [counted EXCEPT !.off = @ + 1]
  /\ UNCHANGED WavesVars

\* A finger leaves: only the element listens.
TouchEnd(onElement) ==
  /\ On("waves")
  /\ waves' = IF onElement
              THEN [HideRipple(waves) EXCEPT !.on = @ - 1, !.pops = @ + 1]
              ELSE [waves EXCEPT !.off = @ - 1]
  /\ IF onElement THEN waves.on > 0 ELSE waves.off > 0
  /\ UNCHANGED WavesVars

\* 500 ms after a touch of the element.
PopTouch ==
  /\ On("waves")
  /\ waves.pops > 0
  /\ waves' = [waves EXCEPT !.pops = @ - 1,
                            !.touches = IF @ > 0 THEN @ - 1 ELSE @]
  /\ UNCHANGED WavesVars

\* A button is pressed over the element; the right one shows no ripple.
\* mouseAt remembers the touch state of the presses that were accepted.
MouseDown(right) ==
  /\ On("waves")
  /\ ~waves.button /\ Len(waves.ripples) < MaxTouches
  /\ waves' = IF waves.touches > 0 THEN [waves EXCEPT !.button = TRUE]
              ELSE [(IF right THEN [waves EXCEPT !.listens = TRUE]
                     ELSE Ripple(waves)) EXCEPT
                      !.button = TRUE, !.several = @ \/ waves.on > 0,
                      !.mouseAt = {waves.on + waves.off + waves.pops > 0}]
  /\ UNCHANGED WavesVars

\* mouseup over the element or mouseleave.
MouseUp ==
  /\ On("waves")
  /\ waves.button
  /\ waves' = [HideRipple(waves) EXCEPT !.button = FALSE, !.mouseAt = {}]
  /\ UNCHANGED WavesVars

RippleGone(i) ==
  /\ On("waves")
  /\ i \in DOMAIN waves.ripples /\ waves.ripples[i]
  /\ waves' = [waves EXCEPT
       !.ripples = SubSeq(@, 1, i - 1) \o SubSeq(@, i + 1, Len(@))]
  /\ UNCHANGED WavesVars

-----------------------------------------------------------------------------
(* A text field with class validate.  value is "none", text that is valid  *)
(* or not, "long": valid text longer than the attribute length, or "bad":  *)
(* input the browser cannot read, whose length is 0.  old is the value the *)
(* next change event compares with; counted: the field has the attribute   *)
(* and its character counter, which shows the length of the text counter.  *)
(* attr is the attribute value, which a reset restores; restored remembers *)
(* that one put a text back into a field whose label was down.             *)

FieldValues == {"none", "valid", "invalid", "long", "bad"}
HasLength(value) == value \in {"valid", "invalid", "long"}

\* The text that the attribute gives the field.
TextOf(attr) == IF attr = "text" THEN "valid" ELSE "none"

\* The counter of a field that has the attribute.
AddCounter(f, counted) == [f EXCEPT !.counted = counted]

FieldInit ==
  \E placeholder \in IF "field" \in page THEN BOOLEAN ELSE {FALSE},
     counted \in IF "field" \in page THEN BOOLEAN ELSE {FALSE},
     attr \in IF "field" \in page THEN {"absent", "empty", "text"} ELSE {"empty"} :
    field = AddCounter([placeholder |-> placeholder, attr |-> attr,
                        value |-> TextOf(attr), old |-> "none", focus |-> FALSE,
                        label |-> placeholder \/ attr = "text", class |-> "none",
                        restored |-> FALSE, counted |-> FALSE,
                        counter |-> "hidden"], counted)

FieldVars == <<bodyLocked, toast, tip, waves, range>>

ValidateField(f) ==
  [f EXCEPT !.class = IF f.value = "none" THEN "none"
                      ELSE IF f.value = "valid" \/ (f.value = "long" /\ ~f.counted)
                      THEN "valid" ELSE "invalid"]

\* The counter's handler of input and focus: the class follows the length alone.
UpdateCounter(f) ==
  IF ~f.counted THEN f
  ELSE [f EXCEPT !.counter = f.value,
                 !.class = IF f.value = "long" THEN "invalid"
                           ELSE IF @ = "invalid" THEN "none" ELSE @]

FocusField ==
  /\ On("field")
  /\ ~field.focus
  /\ field' = UpdateCounter([field EXCEPT !.focus = TRUE, !.label = TRUE,
                                          !.restored = FALSE, !.old = field.value])
  /\ UNCHANGED FieldVars

TypeField(value) ==
  /\ On("field")
  /\ field.focus
  /\ field' = UpdateCounter([field EXCEPT !.value = value])
  /\ UNCHANGED FieldVars

\* The change event, if the value changed, then the blur event.
Changed(f) ==
  IF f.value = f.old THEN f
  ELSE ValidateField([f EXCEPT !.label = @ \/ HasLength(f.value) \/ f.placeholder])

\* Mutant: the label falls back on whatever the field holds.
BlurredBare(f) ==
  ValidateField([f EXCEPT !.focus = FALSE, !.counter = "hidden",
                          !.label = @ /\ f.placeholder])

Blurred(f) ==
  ValidateField([f EXCEPT !.focus = FALSE, !.counter = "hidden",
                          !.label = @ /\ (f.value # "none" \/ f.placeholder)])

BlurField ==
  /\ On("field")
  /\ field.focus
  /\ field' = Blurred(Changed(field))
  /\ UNCHANGED FieldVars

\* A click on the form's reset button, which takes the focus first: the label
\* of a field that gets its text back is left as it is.
ResetField ==
  /\ On("field")
  /\ LET left == IF field.focus THEN Blurred(Changed(field)) ELSE field
     IN field' = [left EXCEPT !.class = "none", !.value = TextOf(field.attr),
                              !.label = @ /\ field.attr # "empty",
                              !.restored = field.attr = "text" /\ ~left.label]
  /\ UNCHANGED FieldVars

\* The page sets the value, and calls updateTextFields.
SetField(value) ==
  /\ On("field")
  /\ ~field.focus
  /\ value # "bad"
  /\ field' = [field EXCEPT !.value = value, !.restored = FALSE,
                            !.label = value # "none" \/ field.placeholder]
  /\ UNCHANGED FieldVars

\* The field is the path of a file input, whose dialog chose files or none.
ChooseFiles(any) ==
  /\ On("field")
  /\ ~field.focus
  /\ LET value == IF any THEN "valid" ELSE "none"
     IN field' = ValidateField([field EXCEPT
          !.value = value, !.restored = FALSE,
          !.label = @ \/ any \/ field.placeholder])
  /\ UNCHANGED FieldVars

-----------------------------------------------------------------------------
(* Two range inputs, which share range_mousedown.  pressed: the button is  *)
(* down; over is where the pointer is (0: elsewhere), grown the ranges     *)
(* whose thumb is grown, active those whose thumb has class active.        *)
(* strayed remembers that the pointer moved with the button down, keyed    *)
(* that a key changed a range.                                             *)

Ranges == {1, 2}

RangeInit == range = [range_mousedown |-> FALSE, pressed |-> FALSE,
                      over |-> 0, grown |-> {}, active |-> {},
                      strayed |-> FALSE, keyed |-> FALSE]

RangeVars == <<bodyLocked, toast, tip, waves, field>>

\* The thumbs of ranges grow, which then have the class.
Grow(r, those) == [r EXCEPT !.grown = @ \cup those, !.active = @ \cup those]

\* The mouse leaves a range: its thumb shrinks if it has the class.
Shrink(r) == [r EXCEPT !.grown = @ \ ({r.over} \cap r.active),
                       !.active = @ \ {r.over}]

\* The mouse moves to a range, on it, or elsewhere: mouseout of the one it leaves,
\* then mousemove over the one it is on.
MoveOverRange(to) ==
  /\ On("range")
  /\ to # range.over \/ range.range_mousedown
  /\ LET left == IF range.range_mousedown THEN Grow(range, {to} \cap Ranges)
                 ELSE Shrink(range)
     IN range' = [left EXCEPT !.over = to,
                                   !.strayed = @ \/ (range.pressed /\ to # range.over)]
  /\ UNCHANGED RangeVars

PressRange ==
  /\ On("range")
  /\ ~range.pressed
  /\ range' = IF range.over = 0 THEN [range EXCEPT !.pressed = TRUE]
              ELSE [Grow(range, {range.over}) EXCEPT !.pressed = TRUE,
                                                     !.range_mousedown = TRUE]
  /\ UNCHANGED RangeVars

\* The same handler answers the event input that a key makes: no release of a
\* button follows, and the thumb grows without the class.
KeyRange(i) ==
  /\ On("range")
  /\ range' = [range EXCEPT !.range_mousedown = TRUE, !.grown = @ \cup {i},
                            !.keyed = TRUE]
  /\ UNCHANGED RangeVars

\* The button is released: nothing hears it outside the ranges.
ReleaseRange ==
  /\ On("range")
  /\ range.pressed
  /\ range' = [range EXCEPT !.pressed = FALSE,
                            !.range_mousedown = @ /\ range.over = 0]
  /\ UNCHANGED RangeVars

-----------------------------------------------------------------------------
FeedbackInit == ToastInit /\ TipInit /\ WavesInit /\ FieldInit /\ RangeInit

ToastNext ==
  \E t \in Toasts :
    \/ ToastTick(t) \/ PanToast(t) \/ ToastGone(t)
    \/ \E yes \in BOOLEAN : ShowToast(t, yes) \/ PanToastEnd(t, yes)

TipNext == \/ EnterTip \/ TipDelayOver \/ LeaveTip \/ TipHideTimer \/ TipFaded
           \/ RemoveTip \/ \E margin \in (0 - TipShift)..TipShift : TipMoves(margin)

WavesNext ==
  \/ \E yes \in BOOLEAN : TouchStart(yes) \/ TouchEnd(yes) \/ MouseDown(yes)
  \/ PopTouch \/ MouseUp
  \/ \E i \in 1..MaxTouches : RippleGone(i)

FieldNext ==
  \/ FocusField \/ BlurField \/ ResetField
  \/ \E value \in FieldValues : TypeField(value) \/ SetField(value)
  \/ \E any \in BOOLEAN : ChooseFiles(any)

RangeNext == \/ \E to \in Ranges \cup {0} : MoveOverRange(to)
             \/ PressRange \/ ReleaseRange \/ \E i \in Ranges : KeyRange(i)

FeedbackNext == ToastNext \/ TipNext \/ WavesNext \/ FieldNext \/ RangeNext

\* Timers fire and animations end.
FeedbackFairness ==
  LET v == <<pageVars, feedbackVars>> IN
  /\ \A t \in Toasts : WF_v(ToastTick(t)) /\ WF_v(ToastGone(t))
  /\ WF_v(TipDelayOver) /\ WF_v(TipHideTimer) /\ WF_v(TipFaded)

-----------------------------------------------------------------------------
(* Properties *)

\* Unless a finger holds it, a toast leaves the document and its interval is
\* cleared, whether it expires, is flung away or is dragged in between.
ToastLeaves ==
  \A t \in Toasts :
    []<>(toast[t].held \/ (~toast[t].dom /\ ~toast[t].ticking))

\* When the pointer stays on its origin, a tooltip ends up shown; when it stays
\* away, hidden: no timer or completion of an earlier visit has the last word.
TipFollowsPointer ==
  /\ <>[]tip.over => <>[](tip.shown \/ ~tip.dom)
  /\ <>[](~tip.over) => <>[](~tip.shown \/ ~tip.dom)

\* A tooltip lies between the left and the right edge of the window, wherever
\* its origin is, but that one beside its origin is moved aside after its place
\* was corrected, and may pass the edge on that side by as much.
TipOnScreen ==
  LET left == tip.at + tip.margin
  IN tip.shown =>
       /\ left >= IF tip.position = "left" THEN 0 - TipShift ELSE 0
       /\ left + TipWidth <= IF tip.position = "right" THEN WindowWidth + TipShift
                             ELSE WindowWidth

\* The mouse events a browser makes of a touch show no second ripple: while a
\* finger is on the page and for 500 ms after it left the element, no press of
\* the mouse is accepted.
TouchMutesMouse == TRUE \notin waves.mouseAt

\* When nothing presses the element, all of its ripples fade and none stays on
\* it, unless two pointers pressed it at a time: hide takes the last ripple,
\* which is not always that of the pointer that leaves.
RipplesFade ==
  (waves.on = 0 /\ ~waves.button /\ ~waves.several) =>
     \A i \in DOMAIN waves.ripples : waves.ripples[i]

\* The label of a field is out of the way of what the field holds, but for a
\* text that a form's reset put back while the label was down.
LabelClearOfText == field.value # "none" => field.label \/ field.restored

\* The counter shows the length of the text in the field, while it has the focus
\* and not longer, and text that is too long is marked while it is typed.
CounterOfText ==
  IF field.counted /\ field.focus
  THEN /\ field.counter = field.value
       /\ field.value = "long" => field.class = "invalid"
  ELSE field.counter = "hidden"

\* A thumb is grown only under the pointer, and shrinks again when the pointer
\* leaves, until the pointer moves with the button down, whose release may then
\* go unheard, or a key changes a range, which no release follows.
ThumbUnderPointer ==
  range.strayed \/ range.keyed \/ range.grown \subseteq {range.over}
=============================================================================
