----------------------------- MODULE Scrolling -----------------------------
(***************************************************************************)
(* The widgets that move by themselves or with the page: the slider, and   *)
(* what listens to the window's scrolling - the scroll spy with its        *)
(* throttle, the callbacks of scrollFire, the pushpin and the parallax     *)
(* image - and the items of a collection that a finger throws away.        *)
(***************************************************************************)
EXTENDS Materialize, SequencesExt, Ranks

CONSTANTS Slides,        \* number of slides
          Sections,      \* number of spied sections
          WindowHeight,  \* height of the window, in the units of positions
          Positions,     \* bound: scroll positions of the window
          ImageExcess    \* height of the parallax image beyond its container

ASSUME ScrollAssumption ==
  /\ Slides \in Nat \ {0} /\ Sections \in Nat /\ WindowHeight \in Nat \ {0}
  /\ Positions \subseteq Nat /\ ImageExcess \in Nat

VARIABLES slider, spy, fire, pin, parallax, items

scrollVars == <<slider, spy, fire, pin, parallax, items>>

-----------------------------------------------------------------------------
(* The slider.  fades counts the transitions and swipes the thrown slides  *)
(* whose completion is due, current is $curr_slide, shown the slides whose *)
(* opacity goes to 1.  hasty remembers a touch or a move that began while  *)
(* a thrown slide was still sliding out.                                   *)

SlideIds == 0..Slides - 1

SliderInit ==
  slider = [active |-> {0}, indicator |-> {0}, interval |-> TRUE,
            swipeLeft |-> FALSE, swipeRight |-> FALSE, touched |-> FALSE,
            current |-> 0, fades |-> 0, swipes |-> 0, shown |-> {0},
            hasty |-> FALSE]

SliderVars == <<bodyLocked, spy, fire, pin, parallax, items>>

\* The index of the first active slide, -1 when there is none.
ActiveIndex(s) == IF s.active = {} THEN -1 ELSE Min(s.active)

MoveToSlide(s, index) ==
  LET to == IF index >= Slides THEN 0 ELSE IF index < 0 THEN Slides - 1 ELSE index
      from == ActiveIndex(s)
  IN IF from = to THEN s
     ELSE [s EXCEPT !.active = (@ \ {from}) \cup {to},
                    !.indicator = (@ \ {from}) \cup {to},
                    !.fades = @ + 1, !.shown = @ \cup {to},
                    !.hasty = @ \/ s.swipes > 0]

SliderTick ==
  /\ On("slider")
  /\ slider.interval /\ slider.fades < 2
  /\ slider' = MoveToSlide(slider, ActiveIndex(slider) + 1)
  /\ UNCHANGED SliderVars

ClickIndicator(i) ==
  /\ On("slider")
  /\ slider.fades < 2
  /\ slider' = [MoveToSlide(slider, i) EXCEPT !.interval = TRUE]
  /\ UNCHANGED SliderVars

\* slider('next'), slider('prev').
StepSlider(step) ==
  /\ On("slider")
  /\ slider.fades < 2
  /\ slider' = MoveToSlide(slider, ActiveIndex(slider) + step)
  /\ UNCHANGED SliderVars

\* slider('pause'), slider('start').
RunSlider(on) ==
  /\ On("slider")
  /\ slider' = [slider EXCEPT !.interval = on]
  /\ UNCHANGED SliderVars

\* A touch drags the slide; a flag once raised stays until the touch ends.
PanSlider(flag) ==
  /\ On("slider")
  /\ LET at == ActiveIndex(slider)
         left == slider.swipeLeft \/ flag = "left"
         right == slider.swipeRight \/ flag = "right"
     IN slider' = [slider EXCEPT
          !.touched = TRUE, !.interval = FALSE, !.current = at,
          !.swipeLeft = left, !.swipeRight = right,
          !.hasty = @ \/ slider.swipes > 0,
          !.shown = @ \cup (IF left THEN {(at + 1) % Slides} ELSE {})
                      \cup (IF right THEN {(at + Slides - 1) % Slides} ELSE {})]
  /\ UNCHANGED SliderVars

\* Mutant: $curr_slide is read after the move.
PanSliderEndLate ==
  /\ On("slider")
  /\ slider.touched /\ slider.fades < 2 /\ slider.swipes < 2
  /\ LET at == ActiveIndex(slider)
         moves == (slider.swipeLeft \/ slider.swipeRight) /\ Slides > 1
         to == IF slider.swipeLeft THEN at + 1 ELSE at - 1
         s == [slider EXCEPT !.swipeLeft = FALSE, !.swipeRight = FALSE,
                             !.touched = FALSE, !.interval = TRUE]
         moved == [MoveToSlide(s, to) EXCEPT !.swipes = @ + 1]
     IN slider' = IF ~moves THEN s
                  ELSE [moved EXCEPT !.current = ActiveIndex(moved)]
  /\ UNCHANGED SliderVars

PanSliderEnd ==
  /\ On("slider")
  /\ slider.touched /\ slider.fades < 2 /\ slider.swipes < 2
  /\ LET at == ActiveIndex(slider)
         moves == (slider.swipeLeft \/ slider.swipeRight) /\ Slides > 1
         to == IF slider.swipeLeft THEN at + 1 ELSE at - 1
         s == [slider EXCEPT !.swipeLeft = FALSE, !.swipeRight = FALSE,
                             !.touched = FALSE, !.current = at,
                             !.interval = TRUE]
     IN slider' = IF ~moves THEN s
                  ELSE [MoveToSlide(s, to) EXCEPT !.swipes = @ + 1]
  /\ UNCHANGED SliderVars

\* The completion of a transition hides all slides but the active one, that of
\* a swipe whatever slide the script's global holds by then.
SliderFaded ==
  /\ On("slider")
  /\ slider.fades > 0
  /\ slider' = [slider EXCEPT !.fades = @ - 1, !.shown = @ \cap slider.active]
  /\ UNCHANGED SliderVars

SliderSwiped ==
  /\ On("slider")
  /\ slider.swipes > 0
  /\ slider' = [slider EXCEPT !.swipes = @ - 1,
                              !.shown = @ \ {slider.current}]
  /\ UNCHANGED SliderVars

-----------------------------------------------------------------------------
(* The scroll spy.  Two sections are in view at a time; seen is the        *)
(* position of the last scan, inView and visible are elementsInView and    *)
(* visible, lit the sections whose link is active.  cooling: less than     *)
(* wait has passed since the last scan; timer: a trailing scan is set.     *)

InView(position) == {position, position + 1} \cap 1..Sections

SpyInit == spy = [position |-> 1, seen |-> -1, inView |-> {}, visible |-> <<>>,
                  lit |-> {}, cooling |-> FALSE, timer |-> TRUE]

SpyVars == <<bodyLocked, slider, fire, pin, parallax, items>>

\* The handlers of scrollSpy:enter and scrollSpy:exit.
EnterView(s, e) ==
  LET first == s.visible[1]
      list == IF s.visible = <<>> THEN <<e>>
              ELSE IF e < first THEN <<e>> \o s.visible ELSE Append(s.visible, e)
      dark == IF s.visible = <<>> THEN s.lit ELSE s.lit \ {first}
  IN [s EXCEPT !.visible = list, !.lit = dark \cup {list[1]}]

ExitView(s, e) ==
  IF s.visible = <<>> THEN s
  ELSE LET list == ElementsAt(s.visible, {i \in DOMAIN s.visible : s.visible[i] # e})
       IN [s EXCEPT !.visible = list,
                    !.lit = (@ \ {s.visible[1]}) \cup
                            IF list = <<>> THEN {} ELSE {list[1]}]

\* onScroll: sections that entered, in document order, then those that left.
Scan(s) ==
  LET now == InView(s.position)
  IN \E entered \in {FoldLeft(EnterView, s, Ascending(now \ s.inView))} :
       spy' = [FoldLeft(ExitView, entered, Ascending(s.inView \ now)) EXCEPT
                 !.inView = now, !.seen = s.position, !.cooling = TRUE, !.timer = FALSE]

\* Mutant: the throttle has no trailing call.
ScrollSpiedDropped(position) ==
  /\ On("spy")
  /\ position # spy.position
  /\ LET moved == [spy EXCEPT !.position = position]
     IN IF spy.cooling THEN spy' = moved ELSE Scan(moved)
  /\ UNCHANGED SpyVars

\* The window scrolls or is resized; the throttle scans now or later.
ScrollSpied(position) ==
  /\ On("spy")
  /\ position # spy.position
  /\ LET moved == [spy EXCEPT !.position = position]
     IN IF spy.cooling THEN spy' = [moved EXCEPT !.timer = TRUE] ELSE Scan(moved)
  /\ UNCHANGED SpyVars

\* The first scan, set by setTimeout, or the trailing scan of the throttle.
LaterScan ==
  /\ On("spy")
  /\ spy.timer /\ ~spy.cooling
  /\ Scan(spy)
  /\ UNCHANGED SpyVars

WaitOver ==
  /\ On("spy")
  /\ spy.cooling
  /\ spy' = [spy EXCEPT !.cooling = FALSE]
  /\ UNCHANGED SpyVars

\* A click on the link of a section scrolls the page to it.
ClickSpyLink(e) ==
  /\ e # spy.position
  /\ ScrollSpied(e)

-----------------------------------------------------------------------------
(* scrollFire with one option per position: passed when the window's lower *)
(* edge is below it.  Callbacks may throw, which ends the interval's run.  *)

FireInit == fire = [didScroll |-> FALSE, position |-> 0, done |-> {},
                    calls |-> [p \in Positions |-> 0], threw |-> FALSE]

FireVars == <<bodyLocked, slider, spy, pin, parallax, items>>

ScrollFired(position) ==
  /\ On("fire")
  /\ fire' = [fire EXCEPT !.position = position, !.didScroll = TRUE]
  /\ UNCHANGED FireVars

\* The interval's run; thrown is the option whose callback throws (-1: none).
FireTick(thrown) ==
  /\ On("fire")
  /\ fire.didScroll
  /\ LET passed == {p \in Positions : p < fire.position + WindowHeight} \ fire.done
         run == IF thrown = -1 THEN passed ELSE {p \in passed : p <= thrown}
     IN /\ thrown # -1 => thrown \in passed /\ ~fire.threw
        /\ fire' = [fire EXCEPT
             !.didScroll = FALSE, !.done = @ \cup (run \ {thrown}),
             !.calls = [p \in Positions |-> IF p \in run THEN @[p] + 1 ELSE @[p]],
             !.threw = @ \/ thrown # -1]
  /\ UNCHANGED FireVars

-----------------------------------------------------------------------------
(* The pushpin: class is the one of pin-top, pinned and pin-bottom set, at *)
(* the css top that goes with it.  limits are options top, bottom, offset. *)

PinInit ==
  \E top, bottom \in IF "pin" \in page THEN Positions ELSE {0},
     offset \in IF "pin" \in page THEN {0, 1} ELSE {0},
     original \in IF "pin" \in page THEN Positions ELSE {0},
     start \in IF "pin" \in page THEN Positions ELSE {0} :
    /\ top <= bottom
    /\ pin = [top |-> top, bottom |-> bottom, offset |-> offset,
              original |-> original, scrolled |-> start,
              class |-> IF start < top THEN "pin-top"
                        ELSE IF start > bottom THEN "pin-bottom" ELSE "pinned",
              at |-> IF start < top THEN 0
                     ELSE IF start > bottom THEN bottom - original ELSE offset]

Pin(p, class, at) == [p EXCEPT !.class = class, !.at = at]

\* Three tests in turn, each of which may replace what the one before set.
UpdateElements(p) ==
  LET a == IF p.top <= p.scrolled /\ p.bottom >= p.scrolled /\ p.class # "pinned"
           THEN Pin(p, "pinned", p.offset) ELSE p
      b == IF p.scrolled < p.top /\ a.class # "pin-top"
           THEN Pin(a, "pin-top", 0) ELSE a
  IN IF p.scrolled > p.bottom /\ b.class # "pin-bottom"
     THEN Pin(b, "pin-bottom", p.bottom - p.original) ELSE b

ScrollPinned(position) ==
  /\ On("pin")
  /\ pin' = UpdateElements([pin EXCEPT !.scrolled = position + pin.offset])
  /\ UNCHANGED <<bodyLocked, slider, spy, fire, parallax, items>>

-----------------------------------------------------------------------------
(* The parallax image: top and height of its container, shift the vertical *)
(* translation of the image.                                               *)

ParallaxInit ==
  \E top \in IF "parallax" \in page THEN Positions ELSE {0},
     height \in IF "parallax" \in page THEN 1..WindowHeight ELSE {1} :
    parallax = [top |-> top, height |-> height, shown |-> FALSE, shift |-> 0,
                scrollTop |-> 0]

\* Math.round of a quotient that is not negative.
Round(a, b) == (2 * a + b) \div (2 * b)

\* updateParallax(initial) at a scroll position.
UpdateParallax(p, scrollTop, initial) ==
  LET within == p.top + p.height > scrollTop /\ p.top < scrollTop + WindowHeight
  IN [p EXCEPT
        !.scrollTop = scrollTop, !.shown = @ \/ initial,
        !.shift = IF within
                  THEN Round(ImageExcess * (scrollTop + WindowHeight - p.top),
                             p.height + WindowHeight)
                  ELSE @]

ScrollParallax(position) ==
  /\ On("parallax")
  /\ parallax' = UpdateParallax(parallax, position, FALSE)
  /\ UNCHANGED <<bodyLocked, slider, spy, fire, pin, items>>

ParallaxLoaded ==
  /\ On("parallax")
  /\ ~parallax.shown
  /\ parallax' = UpdateParallax(parallax, parallax.scrollTop, TRUE)
  /\ UNCHANGED <<bodyLocked, slider, spy, fire, pin, items>>

-----------------------------------------------------------------------------
(* Two dismissable items, which share the flags of the swipe.  fingers are *)
(* the items touched, far those dragged past their middle, thrown those    *)
(* whose drag raised a flag; taken remembers the items that left without.  *)

Items == {1, 2}

ItemsInit == items = [swipeLeft |-> FALSE, swipeRight |-> FALSE, fingers |-> {},
                      far |-> {}, leaving |-> {}, dom |-> Items,
                     together |-> FALSE, thrown |-> {}, taken |-> {}]

ItemsVars == <<bodyLocked, slider, spy, fire, pin, parallax>>

\* A drag; flag is raised by its direction with its length or its velocity,
\* past is whether the item is past its middle.
PanItem(i, flag, past) ==
  /\ On("items")
  /\ i \in items.dom
  /\ items' = [items EXCEPT
       !.fingers = @ \cup {i}, !.together = @ \/ items.fingers \ {i} # {},
       !.far = IF past THEN @ \cup {i} ELSE @ \ {i},
       !.thrown = IF flag = "none" THEN @ ELSE @ \cup {i},
       !.swipeLeft = @ \/ flag = "left", !.swipeRight = @ \/ flag = "right"]
  /\ UNCHANGED ItemsVars

\* An item that is not past its middle takes the flags back.
PanItemEnd(i) ==
  /\ On("items")
  /\ i \in items.fingers
  /\ LET goes == i \in items.far /\ (items.swipeLeft \/ items.swipeRight)
     IN items' = [items EXCEPT
          !.fingers = @ \ {i}, !.swipeLeft = FALSE, !.swipeRight = FALSE,
          !.far = @ \ {i}, !.thrown = @ \ {i},
          !.taken = IF goes /\ i \notin items.thrown THEN @ \cup {i} ELSE @,
          !.leaving = IF goes /\ i \in items.dom THEN @ \cup {i} ELSE @]
  /\ UNCHANGED ItemsVars

ItemGone(i) ==
  /\ On("items")
  /\ i \in items.leaving
  /\ items' = [items EXCEPT !.dom = @ \ {i}, !.leaving = @ \ {i}]
  /\ UNCHANGED ItemsVars

-----------------------------------------------------------------------------
ScrollingInit == /\ SliderInit /\ SpyInit /\ FireInit /\ PinInit
                 /\ ParallaxInit /\ ItemsInit

SliderNext ==
  \/ SliderTick \/ PanSliderEnd \/ SliderFaded \/ SliderSwiped
  \/ \E i \in SlideIds : ClickIndicator(i)
  \/ \E step \in {-1, 1} : StepSlider(step)
  \/ \E on \in BOOLEAN : RunSlider(on)
  \/ \E flag \in {"none", "left", "right"} : PanSlider(flag)

ScrollNext ==
  \/ \E p \in 1..Sections + 1 : ScrollSpied(p)
  \/ \E e \in 1..Sections : ClickSpyLink(e)
  \/ LaterScan \/ WaitOver
  \/ \E p \in Positions : ScrollFired(p) \/ ScrollPinned(p) \/ ScrollParallax(p)
  \/ \E p \in Positions \cup {-1} : FireTick(p)
  \/ ParallaxLoaded

ItemsNext ==
  \/ \E i \in Items, flag \in {"none", "left", "right"}, past \in BOOLEAN :
       PanItem(i, flag, past)
  \/ \E i \in Items : PanItemEnd(i) \/ ItemGone(i)

ScrollingNext == SliderNext \/ ScrollNext \/ ItemsNext

\* The timers of the throttle fire.
ScrollingFairness ==
  LET v == <<pageVars, scrollVars>> IN WF_v(LaterScan) /\ WF_v(WaitOver)

-----------------------------------------------------------------------------
(* Properties *)

\* However ticks, clicks, calls and swipes interleave, one slide is active and
\* the indicator lit is its own.
OneActiveSlide ==
  Cardinality(slider.active) = 1 /\ slider.indicator = slider.active

\* The active slide is never faded away by the completion of an earlier
\* transition or swipe, unless the user went on before the swipe's end.
ActiveSlideShown == slider.hasty \/ slider.active \subseteq slider.shown

\* The links lit are those of one section in view at the last scan, and of
\* none when no section was.
LitSectionInView ==
  /\ spy.lit \subseteq spy.inView
  /\ Cardinality(spy.lit) = IF spy.inView = {} THEN 0 ELSE 1

\* The throttle loses no scrolling: a timer is set for what the spy has not
\* seen yet, whatever the scrolling and the waits.
ScanOwed == spy.seen # spy.position => spy.timer

\* In the end the scroll spy sees where the window stops.
SpyCatchesUp == "spy" \in page => []<>(spy.seen = spy.position)

\* Unless a callback throws, each runs once at most, and all that the window
\* has passed have run once the interval has looked.
FiredOnce ==
  fire.threw \/
    /\ \A p \in Positions : fire.calls[p] <= 1
    /\ ~fire.didScroll /\ fire.position > 0 =>
         \A p \in Positions : p < fire.position + WindowHeight => fire.calls[p] = 1

\* Element pinned, above or below: class and css top agree with where the
\* window was scrolled, whatever the jump.
PinFollowsScroll ==
  /\ pin.class = "pinned" <=> pin.scrolled \in pin.top..pin.bottom
  /\ pin.class = "pin-bottom" => pin.at = pin.bottom - pin.original
  /\ pin.class = "pinned" => pin.at = pin.offset

\* The image covers its container: its shift stays within what it is higher.
ParallaxCovers == parallax.shift >= 0 /\ parallax.shift <= ImageExcess

\* With one finger at a time, only an item leaves that this very drag swiped,
\* although all items share the flags.
SwipedItemLeaves == items.together \/ items.taken = {}
=============================================================================
