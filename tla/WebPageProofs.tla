---------------------------- MODULE WebPageProofs ----------------------------
(***************************************************************************)
(* What WebPage promises of its widgets on every page, whatever menus,     *)
(* windows, boxes and limits it has.  A widget is disturbed by no other    *)
(* one's steps, so each has an invariant of its own; what they share is    *)
(* the page, the lock of its scroll and the Escape key.                    *)
(***************************************************************************)
EXTENDS WebPage, RankTheorems, SequenceTheorems

-----------------------------------------------------------------------------
(* Modal windows, the side navigation and the image box.                   *)

ModalFields == {"open", "shown", "overlay", "dom", "escape", "hooked", "lastID",
                "levels", "z", "closing"}

ModalTypeOK ==
  /\ DOMAIN modal = ModalFields
  /\ modal.open \subseteq Modals /\ modal.hooked \subseteq Modals
  /\ modal.overlay \in [Modals -> Nat] /\ modal.lastID \in Nat
  /\ modal.dom \subseteq Modals \X Nat /\ modal.escape \subseteq Modals \X Nat
  /\ modal.closing \in Seq(Modals \X Nat)

\* Every open window has an overlay of its own, and its handlers.
ModalInv ==
  /\ ModalTypeOK
  /\ \A m \in Modals : modal.overlay[m] <= modal.lastID
  /\ \A m, n \in modal.open : modal.overlay[m] = modal.overlay[n] => m = n
  /\ modal.hooked = modal.open
  /\ NoOrphanModalOverlay
  /\ EscapeIsOfOpenModals

\* Only a fixed menu is ever given its place back.
NavInv ==
  /\ DOMAIN nav = {"kind", "at", "menuOut", "overlays", "opening", "dragging",
                   "restoring", "pushed"}
  /\ nav.kind \in {"plain", "fixed", "missing"}
  /\ nav.restoring \in BOOLEAN
  /\ nav.restoring => "nav" \in page /\ nav.kind = "fixed"
  /\ bodyLocked \in BOOLEAN
  /\ BodyLockHasOwner

BoxTypeOK ==
  box \in [captioned: BOOLEAN, overlayActive: BOOLEAN, doneAnimating: BOOLEAN,
           active: BOOLEAN, overlay: BOOLEAN, caption: BOOLEAN, cut: BOOLEAN,
           anim: {"none", "grow", "back"}]

BoxInv == BoxTypeOK /\ BoxKnowsItsOverlay

-----------------------------------------------------------------------------
(* The date picker's lock.                                                 *)

PickerFields ==
  {"started", "open", "opened", "active", "focus", "locked", "pad", "tall", "resized",
   "listening", "toOpen", "timers", "bound", "buttons", "today", "value", "hidden",
   "moved", "kept", "stray", "hasty"}

PickerTyped(p) ==
  /\ DOMAIN p = PickerFields
  /\ p.started \in BOOLEAN /\ p.open \in BOOLEAN /\ p.toOpen \in BOOLEAN
  /\ p.tall \in BOOLEAN /\ p.resized \in BOOLEAN /\ p.pad \in Nat
  /\ p.timers \in Seq({"open", "close", "bind", "unbind"})

\* Only a picker that is started is open or may be opened by a timeout.
IdleUnlessStarted(p) ==
  ~p.started => /\ ~p.open /\ ~p.toOpen
                /\ \A i \in DOMAIN p.timers : p.timers[i] # "bind"

LockFollowsOpen(p) ==
  /\ p.locked = (p.open /\ DefaultTheme)
  /\ p.listening = p.open

PadFollowsOpen(p) ==
  ~p.resized => p.pad = IF p.open /\ DefaultTheme THEN ScrollbarWidth(p) ELSE 0

LockOf(p) ==
  PickerTyped(p) /\ IdleUnlessStarted(p) /\ LockFollowsOpen(p) /\ PadFollowsOpen(p)

LockInv == LockOf(picker)

-----------------------------------------------------------------------------
(* Menus and lists.                                                        *)

DropTypeOK ==
  /\ DOMAIN drop = {"active", "outside", "byEvent", "fading"}
  /\ drop.active \subseteq Menus /\ drop.byEvent \subseteq Menus
  /\ drop.outside \in [Menus -> Nat]

DropInv ==
  /\ DropTypeOK
  /\ \A d \in drop.active \ drop.byEvent :
       drop.outside[d] > 0 /\ \A e \in drop.active \ drop.byEvent : d = e

\* The other of the two boxes.
Other(b) == 3 - b

BoxTyped(r) ==
  /\ DOMAIN r = {"multiple", "shift", "ready", "active", "visible", "isFocused",
                 "focus", "over", "values", "chosen", "disabled", "marked", "cursor"}
  /\ r.active \in BOOLEAN /\ r.visible \in BOOLEAN /\ r.focus \in BOOLEAN
  /\ r.active => r.visible

\* A box has the focus, or its list is open, only when the other has neither.
Aside(r, s) ==
  /\ r.active => ~s.active
  /\ r.focus => ~s.active /\ ~s.focus

BoxesAside(f) ==
  /\ DOMAIN f = Boxes
  /\ \A b \in Boxes : BoxTyped(f[b]) /\ Aside(f[b], f[Other(b)])

SelectInv == BoxesAside(select)

-----------------------------------------------------------------------------
(* Pointers.                                                               *)

WavesFields == {"touches", "on", "off", "pops", "button", "listens", "ripples",
                "mouseAt", "several"}

\* A finger on the page, or one that left the element less than 500 ms ago, is
\* counted.
TouchesCounted(w) ==
  /\ w.touches \in Nat /\ w.on \in Nat /\ w.off \in Nat /\ w.pops \in Nat
  /\ w.touches >= w.on + w.off + w.pops

\* A ripple that does not fade is the last and that of the pointer that presses
\* the element.
OneRippleRuns(w) ==
  \A i \in 1..Len(w.ripples) :
    ~w.ripples[i] => i = Len(w.ripples) /\ (w.on > 0 \/ w.button)

RipplesAnswer(w) ==
  /\ w.ripples \in Seq(BOOLEAN)
  /\ w.several \in BOOLEAN /\ w.button \in BOOLEAN /\ w.listens \in BOOLEAN
  /\ Len(w.ripples) > 0 => w.listens
  /\ ~w.several => OneRippleRuns(w)

WavesInv ==
  /\ DOMAIN waves = WavesFields
  /\ TouchesCounted(waves) /\ RipplesAnswer(waves) /\ TouchMutesMouse

RangeInv ==
  /\ range \in [range_mousedown: BOOLEAN, pressed: BOOLEAN, over: Ranges \cup {0},
                grown: SUBSET Ranges, active: SUBSET Ranges,
                strayed: BOOLEAN, keyed: BOOLEAN]
  /\ ~range.strayed /\ ~range.keyed =>
       /\ range.grown \subseteq {range.over} /\ range.grown \subseteq range.active
       /\ range.range_mousedown => range.pressed /\ range.over # 0

ItemsInv ==
  /\ DOMAIN items = {"swipeLeft", "swipeRight", "fingers", "far", "leaving", "dom",
                     "together", "thrown", "taken"}
  /\ items.swipeLeft \in BOOLEAN /\ items.swipeRight \in BOOLEAN
  /\ items.together \in BOOLEAN
  /\ ~items.together =>
       /\ \A i, j \in items.fingers : i = j
       /\ items.swipeLeft \/ items.swipeRight =>
            items.fingers # {} /\ items.fingers \subseteq items.thrown
       /\ items.taken = {}

PointersInv == WavesInv /\ RangeInv /\ ItemsInv

-----------------------------------------------------------------------------
(* Texts.                                                                  *)

FieldTypeOK ==
  /\ DOMAIN field = {"placeholder", "attr", "value", "old", "focus", "label", "class",
                     "restored", "counted", "counter"}
  /\ field.placeholder \in BOOLEAN /\ field.focus \in BOOLEAN
  /\ field.label \in BOOLEAN /\ field.counted \in BOOLEAN
  /\ field.value \in FieldValues /\ field.old \in FieldValues

\* The label of a field that has the focus is out of the way already.
FieldInv ==
  /\ FieldTypeOK
  /\ field.focus => field.label
  /\ LabelClearOfText
  /\ CounterOfText

\* A tooltip is placed within the window, and moved no further than its margins.
TipInv ==
  /\ DOMAIN tip = {"position", "dom", "over", "timer", "started", "hides", "fades",
                   "shown", "at", "margin"}
  /\ tip.shown \in BOOLEAN /\ tip.at \in Int
  /\ tip.margin \in Margins(tip.position)
  /\ tip.shown => tip.at >= 0 /\ tip.at + TipWidth <= WindowWidth

(* What a step of the page changes: one widget, and the lock of its body.  *)

\* What a step of each group of widgets leaves alone.
LEMMA OverlaysFrame ==
  ASSUME OverlaysNext
  PROVE  /\ page' = page
         /\ UNCHANGED modal \/ ModalNext \/ PressEscape
         /\ \/ UNCHANGED <<nav, bodyLocked, modal>> \/ NavNext
            \/ UNCHANGED nav /\ (ModalNext \/ PressEscape)
         /\ UNCHANGED box \/ BoxNext \/ PressEscape
<1>1. ASSUME ModalNext PROVE page' = page /\ UNCHANGED <<nav, box>>
  BY <1>1 DEF ModalNext, OpenModal, ClickModalClose, ClickModalOverlay, ModalClosed, On
<1>2. ASSUME NavNext PROVE page' = page /\ UNCHANGED <<modal, box>>
  BY <1>2 DEF NavNext, ClickNavButton, NavOpened, ClickNavOverlay, ClickDragTarget,
              NavRestored, NavOverlayFaded, PanNav, PanNavEnd, ResizeNav, On
<1>3. ASSUME BoxNext PROVE page' = page /\ UNCHANGED <<bodyLocked, modal, nav>>
  BY <1>3 DEF BoxNext, ClickBox, BoxGrown, ScrollBox, ClickBoxOverlay, BoxBack, On
<1>4. ASSUME PressEscape PROVE page' = page /\ UNCHANGED nav
  BY <1>4 DEF PressEscape
<1> QED
  BY <1>1, <1>2, <1>3, <1>4 DEF OverlaysNext

\* Menus and lists leave the page and its lock alone, and one another.
LEMMA MenusFrame ==
  ASSUME MenusNext
  PROVE  /\ UNCHANGED pageVars
         /\ UNCHANGED drop \/ DropNext
         /\ UNCHANGED select \/ SelectNext
<1>1. ASSUME DropNext PROVE UNCHANGED <<page, bodyLocked, select>>
  BY <1>1 DEF DropNext, ClickDropdown, DropdownFaded, TriggerDropdown, ClickElsewhere,
              MovePointer, TriggerHover, On
<1>2. ASSUME SelectNext PROVE UNCHANGED <<page, bodyLocked, drop>>
  BY <1>2 DEF SelectNext, LeaveSelects, FocusSelect, ClickSelect, SelectFaded, EnterKey,
              ChooseOption, ClickHeading, SelectKey, LetterKey, HoverOptions,
              RebuildSelect, SelectVars, On
<1>3. ASSUME PanelNext PROVE UNCHANGED <<page, bodyLocked, drop, select>>
  BY <1>3 DEF PanelNext, ClickHeader, PanelSlid, ClickTab, IndicatorMoved, ResizeTabs, On
<1>4. ASSUME OpenFAB \/ CloseFAB \/ FabAnimated \/ RevealCard \/ HideCard \/ CardHidden
      PROVE  UNCHANGED <<page, bodyLocked, drop, select>>
  BY <1>4 DEF OpenFAB, CloseFAB, FabAnimated, RevealCard, HideCard, CardHidden, On
<1> QED
  BY <1>1, <1>2, <1>3, <1>4 DEF MenusNext, pageVars

\* So do the widgets that answer the pointer and the keyboard,
LEMMA FeedbackFrame ==
  ASSUME FeedbackNext
  PROVE  /\ UNCHANGED pageVars
         /\ UNCHANGED waves \/ WavesNext
         /\ UNCHANGED range \/ RangeNext
         /\ UNCHANGED field \/ FieldNext
         /\ UNCHANGED tip \/ TipNext
<1>1. ASSUME ToastNext PROVE UNCHANGED <<page, bodyLocked, waves, range, field, tip>>
  BY <1>1 DEF ToastNext, ShowToast, ToastTick, PanToast, PanToastEnd, ToastGone, ToastVars, On
<1>2. ASSUME TipNext PROVE UNCHANGED <<page, bodyLocked, waves, range, field>>
  BY <1>2 DEF TipNext, EnterTip, TipDelayOver, TipMoves, LeaveTip, TipHideTimer, TipFaded,
              RemoveTip, TipVars, On
<1>3. ASSUME WavesNext PROVE UNCHANGED <<page, bodyLocked, range, field, tip>>
  BY <1>3 DEF WavesNext, TouchStart, TouchEnd, MouseDown, PopTouch, MouseUp,
              RippleGone, WavesVars, On
<1>4. ASSUME FieldNext PROVE UNCHANGED <<page, bodyLocked, waves, range, tip>>
  BY <1>4 DEF FieldNext, FocusField, BlurField, ResetField, TypeField, SetField,
              ChooseFiles, FieldVars, On
<1>5. ASSUME RangeNext PROVE UNCHANGED <<page, bodyLocked, waves, field, tip>>
  BY <1>5 DEF RangeNext, MoveOverRange, PressRange, ReleaseRange, KeyRange, RangeVars, On
<1> QED
  BY <1>1, <1>2, <1>3, <1>4, <1>5 DEF FeedbackNext, pageVars

\* those that answer the scrolling,
LEMMA ScrollingFrame ==
  ASSUME ScrollingNext
  PROVE  /\ UNCHANGED pageVars
         /\ UNCHANGED items \/ ItemsNext
<1>1. ASSUME SliderNext PROVE UNCHANGED <<page, bodyLocked, items>>
  BY <1>1 DEF SliderNext, SliderTick, PanSliderEnd, SliderFaded, SliderSwiped,
              ClickIndicator, StepSlider, RunSlider, PanSlider, SliderVars, On
<1>2. ASSUME ScrollNext PROVE UNCHANGED <<page, bodyLocked, items>>
  BY <1>2 DEF ScrollNext, ScrollSpied, ClickSpyLink, LaterScan, WaitOver, ScrollFired,
              ScrollPinned, ScrollParallax, FireTick, ParallaxLoaded, SpyVars, FireVars, On
<1>3. ASSUME ItemsNext PROVE UNCHANGED <<page, bodyLocked>>
  BY <1>3 DEF ItemsNext, PanItem, PanItemEnd, ItemGone, ItemsVars, On
<1> QED
  BY <1>1, <1>2, <1>3 DEF ScrollingNext, pageVars

\* the date picker, which has a lock of its own,
LEMMA PickerFrame ==
  ASSUME PickerNext PROVE UNCHANGED pageVars
BY DEF PickerNext, Timeout, StartPicker, StopPicker, ClickElement, LeavePicker, ClickHolder,
       ClickClear, ClickClose, ClickToday, Resize, EscapePicker, PressSpace, PressDelete,
       PressEnter, ClickDay, CallSetSelect, TypeDate, PressArrow, ClickNav, SelectMonth,
       CallOpen, CallClose, CallSetLimit, CallSetDisabled, CallClear, InUse, OnPicker,
       OnCalendar, On, pageVars

\* and the carousel.
LEMMA CarouselFrame ==
  ASSUME CarouselNext PROVE UNCHANGED pageVars
BY DEF CarouselNext, Tap, Drag, Release, CarouselSend, ClickImage, AutoScroll, OnCarousel,
       On, pageVars

\* What a step of the page is to each widget.
LEMMA PageSteps ==
  ASSUME [Next]_vars
  PROVE  /\ page' = page
         /\ UNCHANGED modal \/ ModalNext \/ PressEscape
         /\ \/ UNCHANGED <<nav, bodyLocked, modal>> \/ NavNext
            \/ UNCHANGED nav /\ (ModalNext \/ PressEscape)
         /\ UNCHANGED box \/ BoxNext \/ PressEscape
         /\ UNCHANGED drop \/ DropNext
         /\ UNCHANGED select \/ SelectNext
         /\ UNCHANGED waves \/ WavesNext
         /\ UNCHANGED range \/ RangeNext
         /\ UNCHANGED field \/ FieldNext
         /\ UNCHANGED tip \/ TipNext
         /\ UNCHANGED items \/ ItemsNext
         /\ UNCHANGED <<picker, cal>> \/ PickerNext
BY OverlaysFrame, MenusFrame, FeedbackFrame, ScrollingFrame, PickerFrame, CarouselFrame
   DEF Next, vars, pageVars, overlayVars, menuVars, feedbackVars, scrollVars, pickerVars

(* Windows in the order they were opened.                                  *)

\* The windows of current opened no later than p.
NoLater(current, p) == {q \in current : q[2] <= p[2]}

\* Overlays are numbered: a finite set of windows is listed whole and nothing
\* but it, once no two of them have one number (CloseModal).
LEMMA InOrderListsAll ==
  ASSUME NEW current, IsFiniteSet(current), \A p \in current : p[2] \in Nat,
         \A p, q \in current : p[2] = q[2] => p = q
  PROVE  /\ InOrder(current) \in Seq(current)
         /\ ToSet(InOrder(current)) = current
<1> DEFINE n == Cardinality(current)
           rank == [p \in current |-> Cardinality(NoLater(current, p))]
<1>0. n \in Nat /\ IsFiniteSet(1..n) /\ Cardinality(1..n) = n
  BY FS_CardinalityType, FS_Interval
<1>1. ASSUME NEW p \in current
      PROVE  /\ NoLater(current, p) \in SUBSET current /\ p \in NoLater(current, p)
             /\ IsFiniteSet(NoLater(current, p))
             /\ Cardinality(NoLater(current, p)) \in 1..n
  <2>1. NoLater(current, p) \in SUBSET current /\ p \in NoLater(current, p)
    BY DEF NoLater
  <2>2. /\ IsFiniteSet(NoLater(current, p))
        /\ Cardinality(NoLater(current, p)) <= n
    BY <2>1, FS_Subset
  <2>3. Cardinality(NoLater(current, p)) \in Nat /\ Cardinality(NoLater(current, p)) # 0
    BY <2>1, <2>2, FS_CardinalityType, FS_EmptySet
  <2> QED
    BY <1>0, <2>1, <2>2, <2>3
<1>2. ASSUME NEW p \in current, NEW q \in current,
             Cardinality(NoLater(current, p)) = Cardinality(NoLater(current, q))
      PROVE  p = q
  <2>1. ASSUME NEW a \in current, NEW b \in current, a[2] < b[2],
               Cardinality(NoLater(current, a)) = Cardinality(NoLater(current, b))
        PROVE  FALSE
    <3>1. NoLater(current, a) \in SUBSET NoLater(current, b)
      BY <2>1 DEF NoLater
    <3>2. NoLater(current, a) = NoLater(current, b)
      BY <1>1, <2>1, <3>1, FS_Subset
    <3>3. b \notin NoLater(current, a)
      BY <2>1 DEF NoLater
    <3> QED
      BY <1>1, <3>2, <3>3
  <2>2. ~(p[2] < q[2]) /\ ~(q[2] < p[2])
    BY <1>2, <2>1
  <2>3. p[2] = q[2]
    BY <2>2
  <2> QED
    BY <2>3
<1>3. rank \in Surjection(current, 1..n)
  <2>1. rank \in Injection(current, 1..n)
    BY <1>1, <1>2 DEF Injection, IsInjective
  <2> HIDE DEF rank, n
  <2> QED
    BY <1>0, <2>1, FS_Injection DEF n
<1>4. \A i \in 1..n : \E p \in current : Cardinality(NoLater(current, p)) = i
  BY <1>3 DEF Surjection
<1>5. \A i \in 1..n : /\ InOrder(current)[i] \in current
                      /\ Cardinality(NoLater(current, InOrder(current)[i])) = i
  BY <1>4 DEF InOrder, NoLater
<1>6. InOrder(current) \in [1..n -> current]
  BY <1>5 DEF InOrder
<1>7. DOMAIN InOrder(current) = 1..n
  BY DEF InOrder
<1> HIDE DEF n, rank
<1>8. InOrder(current) \in Seq(current)
  BY <1>0, <1>6, SeqDef
<1>9. ASSUME NEW p \in current PROVE \E i \in 1..n : InOrder(current)[i] = p
  BY <1>1, <1>2, <1>5
<1>10. ToSet(InOrder(current)) = {InOrder(current)[i] : i \in 1..n}
  BY <1>7, Zenon DEF ToSet
<1> QED
  BY <1>5, <1>8, <1>9, <1>10

\* What concatenation and Tail do to the elements of a sequence.
LEMMA ToSetOfConcat ==
  ASSUME NEW T, NEW s \in Seq(T), NEW t \in Seq(T)
  PROVE  s \o t \in Seq(T) /\ ToSet(s \o t) = ToSet(s) \cup ToSet(t)
<1>1. /\ s \o t \in Seq(T) /\ Len(s \o t) = Len(s) + Len(t)
      /\ \A i \in 1..Len(s) + Len(t) :
           (s \o t)[i] = IF i <= Len(s) THEN s[i] ELSE t[i - Len(s)]
  BY ConcatProperties
<1>2. \A j \in 1..Len(t) : j + Len(s) \in 1..Len(s) + Len(t) /\ (s \o t)[j + Len(s)] = t[j]
  BY <1>1
<1>3. ToSet(s \o t) = {(s \o t)[i] : i \in 1..Len(s) + Len(t)}
  BY <1>1 DEF ToSet
<1>4. ToSet(s) = {s[i] : i \in 1..Len(s)} /\ ToSet(t) = {t[i] : i \in 1..Len(t)}
  BY DEF ToSet
<1> DEFINE u == s \o t
<1>5. \A x \in ToSet(u) : x \in ToSet(s) \cup ToSet(t)
  BY <1>1, <1>3, <1>4
<1>6. \A x \in ToSet(s) \cup ToSet(t) : x \in ToSet(u)
  BY <1>1, <1>2, <1>3, <1>4
<1> QED
  BY <1>1, <1>5, <1>6

\* Tail removes the first.
LEMMA ToSetOfTail ==
  ASSUME NEW T, NEW s \in Seq(T), s # <<>>
  PROVE  /\ Tail(s) \in Seq(T) /\ Head(s) \in T
         /\ \A x \in ToSet(s) : x # Head(s) => x \in ToSet(Tail(s))
<1>1. /\ Tail(s) \in Seq(T) /\ Len(Tail(s)) = Len(s) - 1 /\ Head(s) = s[1]
      /\ \A i \in 1..Len(s) - 1 : Tail(s)[i] = s[i + 1]
      /\ Len(s) \in Nat \ {0}
  OBVIOUS
<1>2. DOMAIN s = 1..Len(s) /\ DOMAIN Tail(s) = 1..Len(s) - 1
  BY <1>1
<1>3. ASSUME NEW i \in 1..Len(s), s[i] # Head(s) PROVE s[i] \in ToSet(Tail(s))
  <2>1. i - 1 \in 1..Len(s) - 1 /\ Tail(s)[i - 1] = s[i]
    BY <1>1, <1>3
  <2> QED
    BY <1>2, <2>1 DEF ToSet
<1>4. ASSUME NEW x \in ToSet(s), x # Head(s) PROVE x \in ToSet(Tail(s))
  BY <1>2, <1>3, <1>4 DEF ToSet
<1> QED
  BY <1>1, <1>4

-----------------------------------------------------------------------------
(* Modal windows leave nothing behind.                                     *)

\* openModal: the number of the new overlay is no window's yet.
LEMMA OpenModalKeeps ==
  ASSUME ModalInv, NEW m \in Modals, OpenModal(m)
  PROVE  ModalInv'
<1>1. CASE UNCHANGED modal
  BY <1>1 DEF ModalInv, ModalTypeOK, NoOrphanModalOverlay, EscapeIsOfOpenModals
<1>2. CASE ~UNCHANGED modal
  <2> DEFINE id == modal.lastID + 1
  <2>1. /\ m \notin modal.open
        /\ modal' = [modal EXCEPT
             !.lastID = id, !.levels = @ + 1, !.z[m] = modal.levels + 1,
             !.overlay[m] = id, !.open = @ \cup {m}, !.shown = @ \cup {m},
             !.dom = @ \cup {<<m, id>>}, !.hooked = @ \cup {m},
             !.escape = IF m \in Dismissible THEN @ \cup {<<m, id>>} ELSE @]
    BY <1>2 DEF OpenModal
  <2>2. /\ DOMAIN modal' = DOMAIN modal
        /\ modal'.lastID = id /\ modal'.open = modal.open \cup {m}
        /\ modal'.overlay = [modal.overlay EXCEPT ![m] = id]
        /\ modal'.dom = modal.dom \cup {<<m, id>>}
        /\ modal'.hooked = modal.hooked \cup {m}
        /\ modal'.escape = IF m \in Dismissible THEN modal.escape \cup {<<m, id>>}
                           ELSE modal.escape
        /\ modal'.closing = modal.closing
    BY <2>1 DEF ModalInv, ModalTypeOK, ModalFields
  <2>3. id \in Nat /\ ModalTypeOK'
    BY <2>2 DEF ModalInv, ModalTypeOK
  <2>4. \A n \in Modals : modal.overlay[n] \in Nat /\ modal.overlay[n] < id
    BY DEF ModalInv, ModalTypeOK
  <2>5. \A n \in Modals : modal'.overlay[n] = IF n = m THEN id ELSE modal.overlay[n]
    BY <2>2 DEF ModalInv, ModalTypeOK
  <2> HIDE DEF id
  <2>6. \A n \in Modals : modal'.overlay[n] <= modal'.lastID
    BY <2>2, <2>3, <2>4, <2>5
  <2>7. \A n, o \in modal'.open : modal'.overlay[n] = modal'.overlay[o] => n = o
    BY <2>2, <2>3, <2>4, <2>5 DEF ModalInv, ModalTypeOK
  <2>8. m \notin modal.open /\ modal.open \subseteq Modals
    BY <2>1 DEF ModalInv, ModalTypeOK
  <2>9. NoOrphanModalOverlay'
    <3>1. \A p \in modal.dom : p[1] \in Modals
      BY DEF ModalInv, ModalTypeOK
    <3>2. \A p \in modal.dom : \/ p[1] \in modal.open /\ modal.overlay[p[1]] = p[2]
                               \/ p \in ToSet(modal.closing)
      BY DEF ModalInv, NoOrphanModalOverlay
    <3>3. ASSUME NEW p \in modal'.dom
          PROVE  \/ p[1] \in modal'.open /\ modal'.overlay[p[1]] = p[2]
                 \/ p \in ToSet(modal'.closing)
      BY <2>2, <2>5, <2>8, <3>1, <3>2
    <3> QED
      BY <3>3 DEF NoOrphanModalOverlay
  <2>10. EscapeIsOfOpenModals'
    <3>1. modal.escape = {<<n, modal.overlay[n]>> : n \in modal.open \cap Dismissible}
      BY DEF ModalInv, EscapeIsOfOpenModals
    <3>2. \A n \in modal.open : modal'.overlay[n] = modal.overlay[n]
      BY <2>5, <2>8
    <3>3. modal'.overlay[m] = id
      BY <2>5
    <3>4. modal'.escape = {<<n, modal'.overlay[n]>> : n \in modal'.open \cap Dismissible}
      BY <2>2, <3>1, <3>2, <3>3
    <3> QED
      BY <3>4 DEF EscapeIsOfOpenModals
  <2> QED
    BY <2>2, <2>3, <2>6, <2>7, <2>9, <2>10 DEF ModalInv
<1> QED
  BY <1>1, <1>2

\* closeModal of the windows of S: their overlays begin to fade, their Escape
\* handlers go at once.
LEMMA CloseModalKeeps ==
  ASSUME ModalInv, NEW S \in SUBSET Modals, CloseModal(S),
         \A m, n \in S : modal.overlay[m] = modal.overlay[n] => m = n
  PROVE  ModalInv'
<1> DEFINE current == {<<m, modal.overlay[m]>> : m \in S}
<1>1. /\ current \in SUBSET (Modals \X Nat)
      /\ \A p \in current : p[2] \in Nat
      /\ \A p, q \in current : p[2] = q[2] => p = q
  BY DEF ModalInv, ModalTypeOK
<1>2. IsFiniteSet(current)
  <2> DEFINE f == [m \in S |-> <<m, modal.overlay[m]>>]
  <2>1. f \in Surjection(S, current)
    BY DEF Surjection
  <2>2. IsFiniteSet(S)
    BY OverlayAssumption, FS_Subset
  <2> HIDE DEF f, current
  <2> QED
    BY <2>1, <2>2, FS_Surjection
<1>3. modal' = [modal EXCEPT !.open = @ \ S, !.hooked = @ \ S,
                             !.escape = @ \ current,
                             !.closing = @ \o InOrder(current)]
  BY DEF CloseModal
<1>4. \A m \in Modals : m \in S <=> <<m, modal.overlay[m]>> \in current
  OBVIOUS
<1> HIDE DEF current
<1>5. /\ InOrder(current) \in Seq(Modals \X Nat)
      /\ ToSet(InOrder(current)) = current
  BY <1>1, <1>2, InOrderListsAll, SeqMonotonic
<1>6. modal.closing \in Seq(Modals \X Nat)
  BY DEF ModalInv, ModalTypeOK
<1>7. /\ modal.closing \o InOrder(current) \in Seq(Modals \X Nat)
      /\ ToSet(modal.closing \o InOrder(current)) = ToSet(modal.closing) \cup current
  BY <1>5, <1>6, ToSetOfConcat
<1>8. /\ DOMAIN modal' = DOMAIN modal
      /\ modal'.open = modal.open \ S /\ modal'.hooked = modal.hooked \ S
      /\ modal'.escape = modal.escape \ current
      /\ modal'.closing = modal.closing \o InOrder(current)
      /\ modal'.overlay = modal.overlay /\ modal'.lastID = modal.lastID
      /\ modal'.dom = modal.dom
  BY <1>3 DEF ModalInv, ModalTypeOK, ModalFields
<1>9. ModalTypeOK'
  BY <1>7, <1>8 DEF ModalInv, ModalTypeOK
<1>10. NoOrphanModalOverlay'
  <2> SUFFICES ASSUME NEW p \in modal.dom
               PROVE  \/ p[1] \in modal'.open /\ modal'.overlay[p[1]] = p[2]
                      \/ p \in ToSet(modal'.closing)
    BY <1>8 DEF NoOrphanModalOverlay
  <2>1. \/ p[1] \in modal.open /\ modal.overlay[p[1]] = p[2]
        \/ p \in ToSet(modal.closing)
    BY DEF ModalInv, NoOrphanModalOverlay
  <2>2. p[1] \in Modals /\ p = <<p[1], p[2]>>
    BY DEF ModalInv, ModalTypeOK
  <2> QED
    BY <1>4, <1>7, <1>8, <2>1, <2>2
<1>11. EscapeIsOfOpenModals'
  <2>1. modal.open \subseteq Modals
    BY DEF ModalInv, ModalTypeOK
  <2> QED
    BY <1>4, <1>8, <2>1 DEF ModalInv, EscapeIsOfOpenModals
<1> QED
  BY <1>8, <1>9, <1>10, <1>11 DEF ModalInv

\* The first of the overlays that fade leaves the document.
LEMMA ModalClosedKeeps ==
  ASSUME ModalInv, ModalClosed
  PROVE  ModalInv'
<1>1. /\ modal.closing # <<>> /\ modal.closing \in Seq(Modals \X Nat)
      /\ modal' = [modal EXCEPT !.closing = Tail(@),
                                !.shown = @ \ {Head(modal.closing)[1]},
                                !.dom = @ \ {Head(modal.closing)},
                                !.levels = @ - 1]
  BY DEF ModalClosed, ModalInv, ModalTypeOK
<1>2. /\ Tail(modal.closing) \in Seq(Modals \X Nat)
      /\ \A p \in ToSet(modal.closing) :
           p # Head(modal.closing) => p \in ToSet(Tail(modal.closing))
  BY <1>1, ToSetOfTail
<1>3. /\ DOMAIN modal' = DOMAIN modal
      /\ modal'.closing = Tail(modal.closing)
      /\ modal'.dom = modal.dom \ {Head(modal.closing)}
      /\ modal'.open = modal.open /\ modal'.hooked = modal.hooked
      /\ modal'.escape = modal.escape /\ modal'.overlay = modal.overlay
      /\ modal'.lastID = modal.lastID
  BY <1>1 DEF ModalInv, ModalTypeOK, ModalFields
<1>4. ModalTypeOK'
  BY <1>2, <1>3 DEF ModalInv, ModalTypeOK
<1> QED
  BY <1>2, <1>3, <1>4 DEF ModalInv, NoOrphanModalOverlay, EscapeIsOfOpenModals

\* Every step of the windows.
LEMMA ModalStep ==
  ASSUME ModalInv, UNCHANGED modal \/ ModalNext \/ PressEscape
  PROVE  ModalInv'
<1>1. CASE UNCHANGED modal
  BY <1>1 DEF ModalInv, ModalTypeOK, NoOrphanModalOverlay, EscapeIsOfOpenModals
<1>2. ASSUME NEW m \in Modals, OpenModal(m) PROVE ModalInv'
  BY <1>2, OpenModalKeeps
<1>3. ASSUME NEW m \in Modals, CloseModal({m}) PROVE ModalInv'
  BY <1>3, CloseModalKeeps
<1>4. ASSUME NEW m \in Modals, ClickModalClose(m) PROVE ModalInv'
  BY <1>3, <1>4 DEF ClickModalClose
<1>5. ASSUME NEW m \in Modals, NEW o \in OverlayIds, ClickModalOverlay(m, o)
      PROVE  ModalInv'
  BY <1>3, <1>5 DEF ClickModalOverlay
<1>6. CASE ModalClosed
  BY <1>6, ModalClosedKeeps
<1>7. CASE PressEscape
  <2> DEFINE S == {p[1] : p \in modal.escape}
  <2>1. CloseModal(S)
    BY <1>7 DEF PressEscape
  <2>2. S \subseteq modal.open /\ modal.open \subseteq Modals
    BY DEF ModalInv, ModalTypeOK, EscapeIsOfOpenModals
  <2>3. \A m, n \in S : modal.overlay[m] = modal.overlay[n] => m = n
    BY <2>2 DEF ModalInv
  <2> HIDE DEF S
  <2> QED
    BY <2>1, <2>2, <2>3, CloseModalKeeps
<1> QED
  BY <1>1, <1>2, <1>4, <1>5, <1>6, <1>7 DEF ModalNext

\* Every step of the image box.
LEMMA BoxStep ==
  ASSUME BoxInv, UNCHANGED box \/ BoxNext \/ PressEscape
  PROVE  BoxInv'
<1> USE DEF BoxInv, BoxTypeOK, BoxKnowsItsOverlay
<1>1. CASE UNCHANGED box
  BY <1>1
<1>2. CASE box' = ReturnToOriginal
  BY <1>2 DEF ReturnToOriginal
<1>3. CASE ClickBox
  BY <1>2, <1>3 DEF ClickBox
<1>4. CASE BoxGrown
  BY <1>4 DEF BoxGrown
<1>5. CASE BoxBack
  BY <1>5 DEF BoxBack
<1> QED
  BY <1>1, <1>2, <1>3, <1>4, <1>5, Zenon DEF BoxNext, ScrollBox, ClickBoxOverlay, PressEscape

\* A window that opens owns the lock it sets, and one that closes releases it.
LEMMA NavStepOfModals ==
  ASSUME NavInv, DOMAIN modal = ModalFields, UNCHANGED nav, page' = page,
         ModalNext \/ PressEscape
  PROVE  NavInv'
<1>1. ASSUME NEW S, CloseModal(S)
      PROVE  bodyLocked' \in BOOLEAN /\ (bodyLocked' => bodyLocked /\ modal'.open = modal.open)
  <2>1. bodyLocked' = (bodyLocked /\ S = {}) /\ modal'.open = modal.open \ S
    BY <1>1 DEF CloseModal, ModalFields
  <2> QED
    BY <2>1 DEF NavInv
<1>2. ASSUME NEW m \in Modals, OpenModal(m)
      PROVE  bodyLocked' \in BOOLEAN /\ modal'.open # {}
  <2>1. bodyLocked' = TRUE /\ ((UNCHANGED modal /\ m \in modal.open) \/ m \notin modal.open)
    BY <1>2 DEF OpenModal
  <2>2. ASSUME m \notin modal.open PROVE modal'.open = modal.open \cup {m}
    BY <1>2, <2>2 DEF OpenModal, ModalFields
  <2> QED
    BY <2>1, <2>2
<1>3. ASSUME ModalClosed PROVE UNCHANGED bodyLocked /\ modal'.open = modal.open
  BY <1>3 DEF ModalClosed, ModalFields
<1>4. \/ bodyLocked' \in BOOLEAN /\ modal'.open # {}
      \/ bodyLocked' \in BOOLEAN /\ (bodyLocked' => bodyLocked /\ modal'.open = modal.open)
  <2>1. CASE PressEscape
    BY <1>1, <2>1 DEF PressEscape
  <2>2. ASSUME NEW m \in Modals, ClickModalClose(m) PROVE CloseModal({m})
    BY <2>2 DEF ClickModalClose
  <2>3. ASSUME NEW m \in Modals, NEW o \in OverlayIds, ClickModalOverlay(m, o)
        PROVE  CloseModal({m})
    BY <2>3 DEF ClickModalOverlay
  <2> QED
    BY <1>1, <1>2, <1>3, <2>1, <2>2, <2>3 DEF ModalNext, NavInv
<1> QED
  BY <1>4 DEF NavInv, BodyLockHasOwner

\* Every step of the side navigation, and of what shares its lock.
LEMMA NavStep ==
  ASSUME NavInv, page' = page, DOMAIN modal = ModalFields,
         \/ UNCHANGED <<nav, bodyLocked, modal>>
         \/ NavNext
         \/ UNCHANGED nav /\ (ModalNext \/ PressEscape)
  PROVE  NavInv'
<1>1. CASE UNCHANGED <<nav, bodyLocked, modal>>
  BY <1>1 DEF NavInv, BodyLockHasOwner
<1>2. CASE NavNext
  <2>1. ASSUME NEW overlays, NEW restore \in BOOLEAN, RemoveMenu(overlays, restore),
               restore => nav.kind = "fixed", "nav" \in page
        PROVE  NavInv'
    BY <2>1 DEF RemoveMenu, NavInv, BodyLockHasOwner
  <2>2. CASE ClickNavButton
    BY <2>1, <2>2 DEF ClickNavButton, On, Slide, NavInv, BodyLockHasOwner
  <2>3. CASE NavOpened
    BY <2>3 DEF NavOpened, On, NavInv, BodyLockHasOwner
  <2>4. CASE ClickNavOverlay \/ ClickDragTarget
    BY <2>1, <2>4 DEF ClickNavOverlay, ClickDragTarget, On
  <2>5. CASE NavRestored
    BY <2>5 DEF NavRestored, PushedTo, On, NavInv, BodyLockHasOwner
  <2>6. ASSUME NEW i \in 1..MaxNavOverlays, NavOverlayFaded(i) PROVE NavInv'
    BY <2>6 DEF NavOverlayFaded, On, NavInv, BodyLockHasOwner
  <2>7. ASSUME NEW past \in BOOLEAN, PanNav(past) PROVE NavInv'
    BY <2>7 DEF PanNav, On, Slide, NavInv, BodyLockHasOwner
  <2>8. ASSUME NEW velocity \in {"slow", "open", "closed"}, PanNavEnd(velocity) PROVE NavInv'
    BY <2>8 DEF PanNavEnd, On, Slide, NavInv, BodyLockHasOwner
  <2>9. ASSUME NEW wide \in BOOLEAN, ResizeNav(wide) PROVE NavInv'
    <3>1. CASE RemoveMenu(nav.overlays, TRUE)
      BY <2>1, <2>9, <3>1 DEF ResizeNav, On
    <3>2. CASE UNCHANGED bodyLocked /\ \E place \in {"in", "out", nav.at} :
                 nav' = [nav EXCEPT !.at = place, !.pushed = PushedTo(place)]
      <4>1. PICK place \in {"in", "out", nav.at} :
              nav' = [nav EXCEPT !.at = place, !.pushed = PushedTo(place)]
        BY <3>2
      <4>2. UNCHANGED modal
        BY <2>9 DEF ResizeNav
      <4> QED
        BY <3>2, <4>1, <4>2 DEF NavInv, PushedTo, BodyLockHasOwner
    <3> QED
      BY <2>9, <3>1, <3>2 DEF ResizeNav
  <2> QED
    BY <1>2, <2>2, <2>3, <2>4, <2>5, <2>6, <2>7, <2>8, <2>9 DEF NavNext
<1>3. CASE UNCHANGED nav /\ (ModalNext \/ PressEscape)
  BY <1>3, NavStepOfModals
<1> QED
  BY <1>1, <1>2, <1>3

\* Every step of the ranges.
LEMMA RangeStep ==
  ASSUME RangeInv, UNCHANGED range \/ RangeNext
  PROVE  RangeInv'
<1>1. CASE UNCHANGED range
  BY <1>1 DEF RangeInv
<1>2. ASSUME NEW to \in Ranges \cup {0}, MoveOverRange(to) PROVE RangeInv'
  <2>1. CASE range.range_mousedown
    BY <1>2, <2>1 DEF RangeInv, MoveOverRange, Grow
  <2>2. CASE ~range.range_mousedown
    BY <1>2, <2>2 DEF RangeInv, MoveOverRange, Shrink
  <2> QED
    BY <2>1, <2>2 DEF RangeInv
<1>3. CASE PressRange
  BY <1>3 DEF RangeInv, PressRange, Grow
<1>5. ASSUME NEW i \in Ranges, KeyRange(i) PROVE RangeInv'
  BY <1>5 DEF RangeInv, KeyRange
<1>4. CASE ReleaseRange
  BY <1>4 DEF RangeInv, ReleaseRange
<1> QED
  BY <1>1, <1>2, <1>3, <1>4, <1>5 DEF RangeNext

\* Every step of the tooltip: only its delay places it, only a frame moves it.
LEMMA TipStep ==
  ASSUME TipInv, UNCHANGED tip \/ TipNext
  PROVE  TipInv'
<1>1. CASE UNCHANGED tip
  BY <1>1 DEF TipInv
<1>2. CASE TipDelayOver
  BY <1>2, FeedbackAssumption DEF TipInv, TipDelayOver, RepositionWithinScreen
<1>3. CASE EnterTip \/ LeaveTip \/ TipHideTimer \/ TipFaded \/ RemoveTip
  BY <1>3 DEF TipInv, EnterTip, LeaveTip, TipHideTimer, TipFaded, RemoveTip
<1>4. ASSUME NEW margin, TipMoves(margin) PROVE TipInv'
  BY <1>4 DEF TipInv, TipMoves
<1> QED
  BY <1>1, <1>2, <1>3, <1>4 DEF TipNext

\* Moved aside, it passes the edge on that side by no more than its margin.
LEMMA TipWithin == TipInv => TipOnScreen
<1> SUFFICES ASSUME TipInv, tip.shown
             PROVE  /\ tip.at + tip.margin >= IF tip.position = "left"
                                              THEN 0 - TipShift ELSE 0
                    /\ tip.at + tip.margin + TipWidth <=
                         IF tip.position = "right" THEN WindowWidth + TipShift
                         ELSE WindowWidth
  BY DEF TipOnScreen
<1>1. tip.at \in Int /\ tip.at >= 0 /\ tip.at + TipWidth <= WindowWidth
  BY DEF TipInv
<1>2. TipShift \in Nat /\ TipWidth \in Nat /\ WindowWidth \in Nat
  BY FeedbackAssumption
<1>3. tip.margin \in Margins(tip.position)
  BY DEF TipInv
<1> QED
  BY <1>1, <1>2, <1>3 DEF Margins

\* What the blur event leaves, after the change event or without one.
LEMMA BlurLeaves ==
  ASSUME FieldInv, field.focus
  PROVE  LET f == Blurred(Changed(field)) IN
         /\ DOMAIN f = DOMAIN field /\ f.focus = FALSE /\ f.counter = "hidden"
         /\ f.value = field.value /\ f.old = field.old
         /\ f.placeholder = field.placeholder /\ f.counted = field.counted
         /\ f.label = (field.value # "none" \/ field.placeholder)
<1> DEFINE c == Changed(field)
           f == Blurred(c)
<1>1. /\ DOMAIN field = {"placeholder", "attr", "value", "old", "focus", "label",
                         "class", "restored", "counted", "counter"}
      /\ field.label = TRUE /\ field.placeholder \in BOOLEAN
  BY DEF FieldInv, FieldTypeOK
<1>2. /\ DOMAIN c = DOMAIN field /\ c.label = TRUE
      /\ c.placeholder = field.placeholder /\ c.value = field.value
      /\ c.old = field.old /\ c.counted = field.counted
  <2>1. CASE field.value = field.old
    BY <1>1, <2>1 DEF Changed
  <2>2. CASE field.value # field.old
    <3>1. c = ValidateField([field EXCEPT !.label = TRUE])
      BY <1>1, <2>2 DEF Changed
    <3> QED
      BY <1>1, <3>1 DEF ValidateField
  <2> QED
    BY <2>1, <2>2
<1> HIDE DEF c
<1>3. f = ValidateField([c EXCEPT !.focus = FALSE, !.counter = "hidden",
                         !.label = @ /\ (field.value # "none" \/ field.placeholder)])
  BY <1>2 DEF Blurred
<1>4. /\ DOMAIN f = DOMAIN field /\ f.focus = FALSE /\ f.counter = "hidden"
      /\ f.value = field.value /\ f.old = field.old
      /\ f.placeholder = field.placeholder /\ f.counted = field.counted
      /\ f.label = (TRUE /\ (field.value # "none" \/ field.placeholder))
  <2> HIDE DEF f
  <2> QED
    BY <1>1, <1>2, <1>3 DEF ValidateField
<1> QED
  BY <1>4 DEF c

\* Every step of the text field.
LEMMA FieldStep ==
  ASSUME FieldInv, UNCHANGED field \/ FieldNext
  PROVE  FieldInv'
<1> USE DEF FieldInv, FieldTypeOK, LabelClearOfText, CounterOfText, FieldValues
<1>1. CASE UNCHANGED field
  BY <1>1
<1>2. CASE FocusField
  BY <1>2 DEF FocusField, UpdateCounter
<1>3. ASSUME NEW value \in FieldValues, TypeField(value) PROVE FieldInv'
  BY <1>3 DEF TypeField, UpdateCounter
<1>4. CASE BlurField
  BY <1>4, BlurLeaves DEF BlurField
<1>5. CASE ResetField
  <2>1. CASE ~field.focus
    BY <1>5, <2>1 DEF ResetField, TextOf
  <2>2. CASE field.focus
    <3> DEFINE f == Blurred(Changed(field))
    <3>1. field' = [f EXCEPT !.class = "none", !.value = TextOf(field.attr),
                             !.label = @ /\ field.attr # "empty",
                             !.restored = field.attr = "text" /\ ~f.label]
      BY <1>5, <2>2 DEF ResetField
    <3>2. /\ DOMAIN f = DOMAIN field /\ f.focus = FALSE /\ f.counter = "hidden"
          /\ f.old = field.old
          /\ f.placeholder = field.placeholder /\ f.counted = field.counted
          /\ f.label \in BOOLEAN
      BY <2>2, BlurLeaves
    <3> HIDE DEF f
    <3> QED
      BY <3>1, <3>2 DEF TextOf
  <2> QED
    BY <2>1, <2>2
<1>6. ASSUME NEW value \in FieldValues, SetField(value) PROVE FieldInv'
  BY <1>6 DEF SetField
<1>7. ASSUME NEW any \in BOOLEAN, ChooseFiles(any) PROVE FieldInv'
  BY <1>7 DEF ChooseFiles, ValidateField
<1> QED
  BY <1>1, <1>2, <1>3, <1>4, <1>5, <1>6, <1>7 DEF FieldNext

\* Every step of the items that are swiped away.
LEMMA ItemsStep ==
  ASSUME ItemsInv, UNCHANGED items \/ ItemsNext
  PROVE  ItemsInv'
<1>1. CASE UNCHANGED items
  BY <1>1 DEF ItemsInv
<1>2. ASSUME NEW i \in Items, NEW flag \in {"none", "left", "right"},
             NEW past \in BOOLEAN, PanItem(i, flag, past)
      PROVE  ItemsInv'
  <2>1. /\ DOMAIN items' = DOMAIN items /\ items'.fingers = items.fingers \cup {i}
        /\ items'.together = (items.together \/ items.fingers \ {i} # {})
        /\ items'.thrown = IF flag = "none" THEN items.thrown ELSE items.thrown \cup {i}
        /\ items'.swipeLeft = (items.swipeLeft \/ flag = "left")
        /\ items'.swipeRight = (items.swipeRight \/ flag = "right")
        /\ items'.taken = items.taken
    BY <1>2 DEF ItemsInv, PanItem
  <2>2. CASE items'.together
    BY <2>1, <2>2 DEF ItemsInv
  <2>3. CASE ~items'.together
    <3>1. ~items.together /\ items'.fingers = {i}
      BY <2>1, <2>3 DEF ItemsInv
    <3>2. i \in items'.thrown \/ (~items'.swipeLeft /\ ~items'.swipeRight)
      BY <2>1, <3>1 DEF ItemsInv
    <3> QED
      BY <2>1, <3>1, <3>2 DEF ItemsInv
  <2> QED
    BY <2>2, <2>3
<1>3. ASSUME NEW i \in Items, PanItemEnd(i) PROVE ItemsInv'
  BY <1>3 DEF ItemsInv, PanItemEnd
<1>4. ASSUME NEW i \in Items, ItemGone(i) PROVE ItemsInv'
  BY <1>4 DEF ItemsInv, ItemGone
<1> QED
  BY <1>1, <1>2, <1>3, <1>4 DEF ItemsNext

\* Every step of the drop-down menus: a click outside closes what another opened.
LEMMA DropStep ==
  ASSUME DropInv, UNCHANGED drop \/ DropNext
  PROVE  DropInv'
<1> USE DEF DropInv, DropTypeOK
<1>1. CASE UNCHANGED drop
  BY <1>1
<1>2. ASSUME NEW d \in Menus, ClickDropdown(d) PROVE DropInv'
  <2> DEFINE own == IF d \in drop.active
                    THEN [HideDropdown(drop, d) EXCEPT !.outside[d] = 0]
                    ELSE [PlaceDropdown(drop, d) EXCEPT !.outside[d] = @ + 1]
             hit == {e \in Menus \ {d} : own.outside[e] > 0}
  <2>1. /\ DOMAIN own = DOMAIN drop
        /\ own.active = IF d \in drop.active THEN drop.active \ {d} ELSE drop.active \cup {d}
        /\ own.byEvent = IF d \in drop.active THEN drop.byEvent \ {d} ELSE drop.byEvent
        /\ own.outside = [drop.outside EXCEPT ![d] = IF d \in drop.active THEN 0 ELSE @ + 1]
    BY DEF HideDropdown, PlaceDropdown
  <2>2. \A e \in Menus : own.outside[e] = IF e # d THEN drop.outside[e]
                         ELSE IF d \in drop.active THEN 0 ELSE drop.outside[d] + 1
    BY <2>1
  <2>3. drop' = OutsideClick(own, Menus \ {d})
    BY <1>2 DEF ClickDropdown
  <2> HIDE DEF own
  <2>4. /\ DOMAIN drop' = DOMAIN drop
        /\ drop'.active = own.active \ hit
        /\ drop'.byEvent = own.byEvent \ hit
        /\ drop'.outside = [e \in Menus |-> IF e # d THEN 0 ELSE own.outside[e]]
    BY <2>1, <2>3 DEF OutsideClick
  <2>5. hit = {e \in Menus \ {d} : drop.outside[e] > 0}
    BY <2>2
  <2>6. \A e \in drop'.active \ drop'.byEvent : e = d
    BY <2>1, <2>4, <2>5
  <2>7. d \in drop'.active \ drop'.byEvent => drop'.outside[d] > 0
    BY <2>1, <2>2, <2>4
  <2>8. DropTypeOK'
    BY <2>1, <2>2, <2>4
  <2> QED
    BY <2>6, <2>7, <2>8
<1>3. CASE ClickElsewhere
  BY <1>3 DEF ClickElsewhere, OutsideClick
<1>4. ASSUME NEW d \in Menus, NEW event \in {"open", "close"}, TriggerDropdown(d, event)
      PROVE  DropInv'
  <2>1. CASE event = "close"
    BY <1>4, <2>1 DEF TriggerDropdown, HideDropdown
  <2>2. CASE event = "open"
    <3>1. drop' = [drop EXCEPT !.active = @ \cup {d}, !.fading = @ \ {d},
                     !.byEvent = IF d \in drop.active THEN @ ELSE @ \cup {d}]
      BY <1>4, <2>2 DEF TriggerDropdown, PlaceDropdown
    <3>2. drop'.active \ drop'.byEvent = drop.active \ drop.byEvent
      BY <3>1
    <3>3. DropTypeOK' /\ drop'.outside = drop.outside
      BY <3>1
    <3> QED
      BY <3>2, <3>3
  <2> QED
    BY <2>1, <2>2
<1>5. ASSUME NEW d \in Menus, DropdownFaded(d) PROVE DropInv'
  BY <1>5 DEF DropdownFaded
<1>6. ASSUME NEW to, MovePointer(to) PROVE DropInv'
  BY <1>6 DEF MovePointer
<1>7. ASSUME NEW event, TriggerHover(event) PROVE DropInv'
  BY <1>7 DEF TriggerHover
<1> QED
  BY <1>1, <1>2, <1>3, <1>4, <1>5, <1>6, <1>7 DEF DropNext

\* A sequence without its element at i.
LEMMA WithoutElement ==
  ASSUME NEW T, NEW r \in Seq(T), NEW i \in 1..Len(r)
  PROVE  LET s == SubSeq(r, 1, i - 1) \o SubSeq(r, i + 1, Len(r)) IN
         /\ s \in Seq(T) /\ Len(s) = Len(r) - 1
         /\ \A k \in 1..Len(r) - 1 : s[k] = IF k <= i - 1 THEN r[k] ELSE r[k + 1]
<1> DEFINE n == Len(r)
           a == SubSeq(r, 1, i - 1)
           b == SubSeq(r, i + 1, n)
           s == a \o b
<1>1. n \in Nat /\ i \in 1..n /\ DOMAIN r = 1..n /\ \A k \in 1..n : r[k] \in T
  OBVIOUS
<1>2. a \in Seq(T) /\ Len(a) = i - 1 /\ \A k \in 1..i - 1 : a[k] = r[k]
  BY <1>1, SubSeqProperties
<1>3. b \in Seq(T) /\ Len(b) = n - i /\ \A k \in 1..n - i : b[k] = r[k + i]
  <2>1. i + 1 \in Int /\ n \in Int /\ \A k \in i + 1..n : r[k] \in T
    BY <1>1
  <2>2. /\ b \in Seq(T) /\ Len(b) = IF i + 1 <= n THEN n - (i + 1) + 1 ELSE 0
        /\ \A k \in 1..n - (i + 1) + 1 : b[k] = r[i + 1 + k - 1]
    BY <2>1, SubSeqProperties
  <2> HIDE DEF b
  <2> HIDE DEF n
  <2>3. /\ n - (i + 1) + 1 = n - i
        /\ (IF i + 1 <= n THEN n - (i + 1) + 1 ELSE 0) = n - i
    BY <1>1
  <2>4. \A k \in 1..n - i : b[k] = r[i + 1 + k - 1]
    BY <2>2, <2>3
  <2>5. \A k \in 1..n - i : i + 1 + k - 1 = k + i
    BY <1>1
  <2>6. \A k \in 1..n - i : b[k] = r[k + i]
    BY <2>4, <2>5
  <2> QED
    BY <2>2, <2>3, <2>6
<1> HIDE DEF a, b
<1>4. /\ s \in Seq(T) /\ Len(s) = Len(a) + Len(b)
      /\ \A k \in 1..Len(a) + Len(b) : s[k] = IF k <= Len(a) THEN a[k] ELSE b[k - Len(a)]
  BY <1>2, <1>3, ConcatProperties
<1> HIDE DEF s
<1>5. Len(s) = n - 1 /\ Len(a) + Len(b) = n - 1
  BY <1>1, <1>2, <1>3, <1>4
<1>6. ASSUME NEW k \in 1..n - 1 PROVE s[k] = IF k <= i - 1 THEN r[k] ELSE r[k + 1]
  <2>1. CASE k <= i - 1
    BY <1>2, <1>4, <1>5, <2>1
  <2>2. CASE ~(k <= i - 1)
    <3>1. k - (i - 1) \in 1..n - i /\ (k - (i - 1)) + i = k + 1
      BY <1>1, <2>2
    <3> QED
      BY <1>2, <1>3, <1>4, <1>5, <2>2, <3>1
  <2> QED
    BY <2>1, <2>2
<1> QED
  BY <1>4, <1>5, <1>6 DEF s, a, b

\* A sequence with x in the place of its last element.
LEMMA ReplaceLast ==
  ASSUME NEW T, NEW r \in Seq(T), NEW x \in T, r # <<>>
  PROVE  LET t == [r EXCEPT ![Len(r)] = x] IN
         /\ t \in Seq(T) /\ Len(t) = Len(r)
         /\ t[Len(r)] = x /\ \A i \in 1..Len(r) : i # Len(r) => t[i] = r[i]
OBVIOUS

\* Everything but the ripples is the same.
SameButRipples(v, w) ==
  /\ DOMAIN v = WavesFields
  /\ v.touches = w.touches /\ v.on = w.on /\ v.off = w.off /\ v.pops = w.pops
  /\ v.button = w.button /\ v.mouseAt = w.mouseAt /\ v.several = w.several

\* Hiding the last ripple leaves none that runs.
LEMMA HideRippleLeaves ==
  ASSUME WavesInv
  PROVE  LET w == HideRipple(waves) IN
         /\ SameButRipples(w, waves) /\ w.listens = waves.listens
         /\ w.ripples \in Seq(BOOLEAN) /\ Len(w.ripples) = Len(waves.ripples)
         /\ ~waves.several => \A i \in 1..Len(w.ripples) : w.ripples[i]
<1> DEFINE w == HideRipple(waves)
           r == waves.ripples
<1>1. DOMAIN waves = WavesFields /\ r \in Seq(BOOLEAN) /\ Len(r) \in Nat
      /\ (Len(r) > 0 => waves.listens)
  BY DEF WavesInv, RipplesAnswer
<1>2. CASE r = <<>>
  <2>1. w = waves /\ Len(r) = 0
    BY <1>2 DEF HideRipple
  <2> HIDE DEF w
  <2>2. \A i \in 1..Len(r) : FALSE
    BY <2>1
  <2> QED
    BY <1>1, <2>1, <2>2 DEF w, SameButRipples
<1>3. CASE r # <<>>
  <2>1. w = [waves EXCEPT !.ripples = [r EXCEPT ![Len(r)] = TRUE]]
    BY <1>1, <1>3 DEF HideRipple, WavesFields
  <2>2. \A i \in 1..Len(r) : ~waves.several /\ ~r[i] => i = Len(r)
    BY DEF WavesInv, RipplesAnswer, OneRippleRuns
  <2> DEFINE t == [r EXCEPT ![Len(r)] = TRUE]
  <2>3. /\ t \in Seq(BOOLEAN) /\ Len(t) = Len(r)
        /\ t[Len(r)] = TRUE /\ \A i \in 1..Len(r) : i # Len(r) => t[i] = r[i]
    BY <1>1, <1>3, ReplaceLast
  <2> HIDE DEF w, t
  <2>4. SameButRipples(w, waves) /\ w.listens = waves.listens /\ w.ripples = t
    BY <1>1, <2>1 DEF WavesFields, SameButRipples, t
  <2>5. ~waves.several => \A i \in 1..Len(t) : t[i]
    BY <2>2, <2>3
  <2> QED
    BY <2>3, <2>4, <2>5 DEF w
<1> QED
  BY <1>2, <1>3

\* A ripple is added behind the others.
LEMMA RippleLeaves ==
  ASSUME NEW w, DOMAIN w = WavesFields, w.ripples \in Seq(BOOLEAN)
  PROVE  LET v == Ripple(w) IN
         /\ SameButRipples(v, w) /\ v.listens = TRUE
         /\ v.ripples \in Seq(BOOLEAN) /\ Len(w.ripples) \in Nat
         /\ Len(v.ripples) = Len(w.ripples) + 1
         /\ \A i \in 1..Len(w.ripples) : v.ripples[i] = w.ripples[i]
<1> DEFINE v == Ripple(w)
<1>0. PICK x \in BOOLEAN : x = FALSE
  OBVIOUS
<1> DEFINE t == Append(w.ripples, x)
<1>1. /\ t \in Seq(BOOLEAN) /\ Len(t) = Len(w.ripples) + 1
      /\ \A i \in 1..Len(w.ripples) : t[i] = w.ripples[i]
  BY AppendProperties
<1>2. Len(w.ripples) \in Nat
  BY LenProperties
<1>3. v = [w EXCEPT !.ripples = t, !.listens = TRUE]
  BY <1>0 DEF Ripple
<1> HIDE DEF v, t
<1>4. SameButRipples(v, w) /\ v.listens = TRUE /\ v.ripples = t
  BY <1>3 DEF SameButRipples, WavesFields
<1> QED
  BY <1>1, <1>2, <1>4 DEF v

\* What changes no ripple and no pointer changes no answer.
LEMMA SameRipplesAnswer ==
  ASSUME RipplesAnswer(waves), NEW v, v.ripples = waves.ripples, v.on = waves.on,
         v.several = waves.several, v.listens = waves.listens,
         v.button = waves.button \/ v.button = TRUE
  PROVE  RipplesAnswer(v)
<1>1. v.button \in BOOLEAN /\ (waves.button => v.button)
  BY DEF RipplesAnswer
<1>2. OneRippleRuns(waves) => OneRippleRuns(v)
  BY <1>1 DEF OneRippleRuns
<1> QED
  BY <1>1, <1>2 DEF RipplesAnswer

\* A finger arrives: it is counted before a ripple starts.
LEMMA TouchStartKeeps ==
  ASSUME WavesInv, NEW yes \in BOOLEAN, TouchStart(yes)
  PROVE  WavesInv'
<1> DEFINE counted == [waves EXCEPT !.touches = @ + 1]
           w == Ripple(counted)
<1>1. DOMAIN waves = WavesFields /\ waves.ripples \in Seq(BOOLEAN)
  BY DEF WavesInv, RipplesAnswer
<1>2. /\ DOMAIN counted = WavesFields /\ counted.touches = waves.touches + 1
      /\ counted.on = waves.on /\ counted.off = waves.off /\ counted.pops = waves.pops
      /\ counted.button = waves.button /\ counted.listens = waves.listens
      /\ counted.ripples = waves.ripples /\ counted.mouseAt = waves.mouseAt
      /\ counted.several = waves.several
  BY <1>1 DEF WavesFields
<1> HIDE DEF counted
<1>3. CASE yes
  <2>1. waves' = [w EXCEPT !.on = @ + 1, !.several = @ \/ waves.on > 0 \/ waves.button]
    BY <1>3 DEF TouchStart, counted
  <2>2. /\ SameButRipples(w, counted) /\ w.listens = TRUE
        /\ w.ripples \in Seq(BOOLEAN) /\ Len(waves.ripples) \in Nat
        /\ Len(w.ripples) = Len(waves.ripples) + 1
        /\ \A i \in 1..Len(waves.ripples) : w.ripples[i] = waves.ripples[i]
    <3> DEFINE q == counted.ripples
    <3>1. q = waves.ripples
      BY <1>2
    <3>2. /\ SameButRipples(w, counted) /\ w.listens = TRUE
          /\ w.ripples \in Seq(BOOLEAN) /\ Len(q) \in Nat
          /\ Len(w.ripples) = Len(q) + 1
          /\ \A i \in 1..Len(q) : w.ripples[i] = q[i]
      BY <1>1, <1>2, RippleLeaves
    <3> HIDE DEF q, w
    <3> QED
      BY <3>1, <3>2
  <2> HIDE DEF w
  <2>3. /\ DOMAIN waves' = WavesFields /\ waves'.on = waves.on + 1
        /\ waves'.touches = waves.touches + 1 /\ waves'.off = waves.off
        /\ waves'.pops = waves.pops /\ waves'.button = waves.button
        /\ waves'.mouseAt = waves.mouseAt /\ waves'.listens = TRUE
        /\ waves'.ripples = w.ripples
        /\ waves'.several = (waves.several \/ waves.on > 0 \/ waves.button)
    BY <1>2, <2>1, <2>2 DEF WavesFields, SameButRipples
  <2>4. TouchesCounted(waves')
    BY <2>3 DEF WavesInv, TouchesCounted
  <2>5. ASSUME ~waves'.several PROVE OneRippleRuns(waves')
    <3>1. ~waves.several /\ ~(waves.on > 0) /\ ~waves.button
      BY <2>3, <2>5
    <3>2. \A i \in 1..Len(waves.ripples) : waves.ripples[i]
      BY <3>1 DEF WavesInv, RipplesAnswer, OneRippleRuns
    <3>3. waves'.on > 0
      BY <2>3 DEF WavesInv, TouchesCounted
    <3> QED
      BY <2>2, <2>3, <3>2, <3>3 DEF OneRippleRuns
  <2>6. RipplesAnswer(waves')
    BY <2>2, <2>3, <2>5 DEF WavesInv, RipplesAnswer
  <2> QED
    BY <2>3, <2>4, <2>6 DEF WavesInv, TouchMutesMouse
<1>4. CASE ~yes
  <2>1. waves' = [counted EXCEPT !.off = @ + 1]
    BY <1>4 DEF TouchStart, counted
  <2>2. /\ DOMAIN waves' = WavesFields /\ waves'.off = waves.off + 1
        /\ waves'.touches = waves.touches + 1 /\ waves'.on = waves.on
        /\ waves'.pops = waves.pops /\ waves'.button = waves.button
        /\ waves'.mouseAt = waves.mouseAt /\ waves'.listens = waves.listens
        /\ waves'.ripples = waves.ripples /\ waves'.several = waves.several
    BY <1>2, <2>1 DEF WavesFields
  <2>3. TouchesCounted(waves')
    BY <2>2 DEF WavesInv, TouchesCounted
  <2>4. RipplesAnswer(waves')
    BY <2>2, SameRipplesAnswer DEF WavesInv
  <2> QED
    BY <2>2, <2>3, <2>4 DEF WavesInv, TouchMutesMouse
<1> QED
  BY <1>3, <1>4

\* A finger leaves: its count follows 500 ms later.
LEMMA TouchEndKeeps ==
  ASSUME WavesInv, NEW yes \in BOOLEAN, TouchEnd(yes)
  PROVE  WavesInv'
<1>1. DOMAIN waves = WavesFields
  BY DEF WavesInv
<1>2. CASE yes
  <2> DEFINE w == HideRipple(waves)
  <2>1. waves' = [w EXCEPT !.on = @ - 1, !.pops = @ + 1] /\ waves.on > 0
    BY <1>2 DEF TouchEnd
  <2>2. /\ SameButRipples(w, waves) /\ w.listens = waves.listens
        /\ w.ripples \in Seq(BOOLEAN) /\ Len(w.ripples) = Len(waves.ripples)
        /\ ~waves.several => \A i \in 1..Len(w.ripples) : w.ripples[i]
    BY HideRippleLeaves
  <2> HIDE DEF w
  <2>3. /\ DOMAIN waves' = WavesFields /\ waves'.on = waves.on - 1
        /\ waves'.pops = waves.pops + 1 /\ waves'.off = waves.off
        /\ waves'.touches = waves.touches /\ waves'.button = waves.button
        /\ waves'.mouseAt = waves.mouseAt /\ waves'.listens = waves.listens
        /\ waves'.ripples = w.ripples /\ waves'.several = waves.several
    BY <2>1, <2>2 DEF WavesFields, SameButRipples
  <2>4. TouchesCounted(waves')
    BY <2>1, <2>3 DEF WavesInv, TouchesCounted
  <2>5. RipplesAnswer(waves')
    BY <2>2, <2>3 DEF WavesInv, RipplesAnswer, OneRippleRuns
  <2> QED
    BY <2>3, <2>4, <2>5 DEF WavesInv, TouchMutesMouse
<1>3. CASE ~yes
  <2>1. waves' = [waves EXCEPT !.off = @ - 1] /\ waves.off > 0
    BY <1>3 DEF TouchEnd
  <2>2. /\ DOMAIN waves' = WavesFields /\ waves'.off = waves.off - 1
        /\ waves'.touches = waves.touches /\ waves'.on = waves.on
        /\ waves'.pops = waves.pops /\ waves'.button = waves.button
        /\ waves'.mouseAt = waves.mouseAt /\ waves'.listens = waves.listens
        /\ waves'.ripples = waves.ripples /\ waves'.several = waves.several
    BY <1>1, <2>1 DEF WavesFields
  <2>3. TouchesCounted(waves')
    BY <2>1, <2>2 DEF WavesInv, TouchesCounted
  <2>4. RipplesAnswer(waves')
    BY <2>2, SameRipplesAnswer DEF WavesInv
  <2> QED
    BY <2>2, <2>3, <2>4 DEF WavesInv, TouchMutesMouse
<1> QED
  BY <1>2, <1>3

\* A press is accepted while no finger is counted.
LEMMA MouseDownKeeps ==
  ASSUME WavesInv, NEW right \in BOOLEAN, MouseDown(right)
  PROVE  WavesInv'
<1>1. DOMAIN waves = WavesFields /\ waves.ripples \in Seq(BOOLEAN) /\ ~waves.button
      /\ Len(waves.ripples) \in Nat
  BY DEF WavesInv, RipplesAnswer, MouseDown
<1>2. CASE waves.touches > 0
  <2>1. waves' = [waves EXCEPT !.button = TRUE]
    BY <1>2 DEF MouseDown
  <2>2. /\ DOMAIN waves' = WavesFields /\ waves'.off = waves.off
        /\ waves'.touches = waves.touches /\ waves'.on = waves.on
        /\ waves'.pops = waves.pops /\ waves'.button = TRUE
        /\ waves'.mouseAt = waves.mouseAt /\ waves'.listens = waves.listens
        /\ waves'.ripples = waves.ripples /\ waves'.several = waves.several
    BY <1>1, <2>1 DEF WavesFields
  <2>3. TouchesCounted(waves')
    BY <2>2 DEF WavesInv, TouchesCounted
  <2>4. RipplesAnswer(waves')
    BY <2>2, SameRipplesAnswer DEF WavesInv
  <2> QED
    BY <2>2, <2>3, <2>4 DEF WavesInv, TouchMutesMouse
<1>3. CASE ~(waves.touches > 0)
  <2> DEFINE w == IF right THEN [waves EXCEPT !.listens = TRUE] ELSE Ripple(waves)
  <2>1. waves' = [w EXCEPT !.button = TRUE, !.several = @ \/ waves.on > 0,
                    !.mouseAt = {waves.on + waves.off + waves.pops > 0}]
    BY <1>3 DEF MouseDown
  <2>2. /\ SameButRipples(w, waves) /\ w.listens = TRUE /\ w.ripples \in Seq(BOOLEAN)
        /\ Len(w.ripples) = Len(waves.ripples) \/ Len(w.ripples) = Len(waves.ripples) + 1
        /\ \A i \in 1..Len(waves.ripples) : w.ripples[i] = waves.ripples[i]
    <3>1. CASE right
      BY <1>1, <3>1 DEF WavesFields, SameButRipples
    <3>2. CASE ~right
      BY <1>1, <3>2, RippleLeaves
    <3> QED
      BY <3>1, <3>2
  <2> HIDE DEF w
  <2>3. /\ DOMAIN waves' = WavesFields /\ waves'.button = TRUE
        /\ waves'.several = (waves.several \/ waves.on > 0)
        /\ waves'.mouseAt = {waves.on + waves.off + waves.pops > 0}
        /\ waves'.touches = waves.touches /\ waves'.on = waves.on
        /\ waves'.off = waves.off /\ waves'.pops = waves.pops
        /\ waves'.listens = TRUE /\ waves'.ripples = w.ripples
    BY <2>1, <2>2 DEF WavesFields, SameButRipples
  <2>4. ~(waves.on + waves.off + waves.pops > 0)
    BY <1>3 DEF WavesInv, TouchesCounted
  <2>5. TouchesCounted(waves')
    BY <2>3, <2>4 DEF WavesInv, TouchesCounted
  <2>6. ASSUME ~waves'.several PROVE OneRippleRuns(waves')
    <3>1. ~waves.several /\ ~(waves.on > 0)
      BY <2>3, <2>6
    <3>2. \A i \in 1..Len(waves.ripples) : waves.ripples[i]
      BY <1>1, <3>1 DEF WavesInv, RipplesAnswer, OneRippleRuns
    <3> QED
      BY <1>1, <2>2, <2>3, <3>2 DEF OneRippleRuns
  <2>7. RipplesAnswer(waves')
    BY <2>2, <2>3, <2>6 DEF RipplesAnswer
  <2>8. TouchMutesMouse'
    BY <2>3, <2>4 DEF TouchMutesMouse
  <2> QED
    BY <2>3, <2>5, <2>7, <2>8 DEF WavesInv
<1> QED
  BY <1>2, <1>3

\* The button is released: the last ripple fades.
LEMMA MouseUpKeeps ==
  ASSUME WavesInv, MouseUp
  PROVE  WavesInv'
<1> DEFINE w == HideRipple(waves)
<1>1. waves' = [w EXCEPT !.button = FALSE, !.mouseAt = {}]
  BY DEF MouseUp
<1>2. /\ SameButRipples(w, waves) /\ w.listens = waves.listens
      /\ w.ripples \in Seq(BOOLEAN) /\ Len(w.ripples) = Len(waves.ripples)
      /\ ~waves.several => \A i \in 1..Len(w.ripples) : w.ripples[i]
  BY HideRippleLeaves
<1> HIDE DEF w
<1>3. /\ DOMAIN waves' = WavesFields /\ waves'.on = waves.on
      /\ waves'.pops = waves.pops /\ waves'.off = waves.off
      /\ waves'.touches = waves.touches /\ waves'.button = FALSE
      /\ waves'.mouseAt = {} /\ waves'.listens = waves.listens
      /\ waves'.ripples = w.ripples /\ waves'.several = waves.several
  BY <1>1, <1>2 DEF WavesFields, SameButRipples
<1>4. TouchesCounted(waves')
  BY <1>3 DEF WavesInv, TouchesCounted
<1>5. RipplesAnswer(waves')
  BY <1>2, <1>3 DEF WavesInv, RipplesAnswer, OneRippleRuns
<1> QED
  BY <1>3, <1>4, <1>5 DEF WavesInv, TouchMutesMouse

\* 500 ms after a finger left.
LEMMA PopTouchKeeps ==
  ASSUME WavesInv, PopTouch
  PROVE  WavesInv'
<1>1. DOMAIN waves = WavesFields
  BY DEF WavesInv
<1>2. /\ DOMAIN waves' = WavesFields /\ waves.pops > 0 /\ waves'.pops = waves.pops - 1
      /\ waves'.touches = IF waves.touches > 0 THEN waves.touches - 1 ELSE waves.touches
      /\ waves'.on = waves.on /\ waves'.off = waves.off /\ waves'.button = waves.button
      /\ waves'.mouseAt = waves.mouseAt /\ waves'.listens = waves.listens
      /\ waves'.ripples = waves.ripples /\ waves'.several = waves.several
  BY <1>1 DEF PopTouch, WavesFields
<1>3. TouchesCounted(waves')
  BY <1>2 DEF WavesInv, TouchesCounted
<1>4. RipplesAnswer(waves')
  BY <1>2, SameRipplesAnswer DEF WavesInv, TouchMutesMouse
<1> QED
  BY <1>2, <1>3, <1>4 DEF WavesInv, TouchMutesMouse

\* A ripple that fades is removed.
LEMMA RippleGoneKeeps ==
  ASSUME WavesInv, NEW i \in 1..MaxTouches, RippleGone(i)
  PROVE  WavesInv'
<1> DEFINE r == waves.ripples
           n == Len(r)
           s == SubSeq(r, 1, i - 1) \o SubSeq(r, i + 1, n)
<1>1. DOMAIN waves = WavesFields /\ r \in Seq(BOOLEAN) /\ n \in Nat /\ DOMAIN r = 1..n
  BY DEF WavesInv, RipplesAnswer
<1>2. i \in 1..n /\ r[i]
  BY <1>1 DEF RippleGone
<1>3. waves' = [waves EXCEPT !.ripples = s]
  BY DEF RippleGone
<1>4. /\ s \in Seq(BOOLEAN) /\ Len(s) = n - 1
      /\ \A k \in 1..n - 1 : s[k] = IF k <= i - 1 THEN r[k] ELSE r[k + 1]
  BY <1>1, <1>2, WithoutElement
<1> HIDE DEF s
<1>5. Len(s) > 0 => n > 0
  BY <1>1, <1>4
<1>8. /\ DOMAIN waves' = WavesFields /\ waves'.ripples = s /\ waves'.on = waves.on
      /\ waves'.off = waves.off /\ waves'.touches = waves.touches
      /\ waves'.pops = waves.pops /\ waves'.button = waves.button
      /\ waves'.mouseAt = waves.mouseAt /\ waves'.listens = waves.listens
      /\ waves'.several = waves.several
  BY <1>1, <1>3 DEF WavesFields
<1>9. TouchesCounted(waves')
  BY <1>8 DEF WavesInv, TouchesCounted
<1>10. ASSUME ~waves.several PROVE OneRippleRuns(waves')
  <2>1. \A k \in 1..n : ~r[k] => k = n /\ (waves.on > 0 \/ waves.button)
    BY <1>10 DEF WavesInv, RipplesAnswer, OneRippleRuns
  <2>2. ASSUME NEW k \in 1..n - 1, ~s[k]
        PROVE  k = n - 1 /\ (waves.on > 0 \/ waves.button)
    <3>1. k \in 1..n /\ k + 1 \in 1..n /\ (k + 1 = n => k = n - 1) /\ k # n
      BY <1>1
    <3> QED
      BY <1>4, <2>1, <2>2, <3>1
  <2> QED
    BY <1>4, <1>8, <2>2 DEF OneRippleRuns
<1>11. RipplesAnswer(waves')
  BY <1>4, <1>5, <1>8, <1>10 DEF WavesInv, RipplesAnswer
<1> QED
  BY <1>8, <1>9, <1>11 DEF WavesInv, TouchMutesMouse

\* Every step of the ripples.
LEMMA WavesStep ==
  ASSUME WavesInv, UNCHANGED waves \/ WavesNext
  PROVE  WavesInv'
<1>1. CASE UNCHANGED waves
  BY <1>1 DEF WavesInv, TouchMutesMouse
<1> QED
  BY <1>1, TouchStartKeeps, TouchEndKeeps, MouseDownKeeps, MouseUpKeeps, PopTouchKeeps,
     RippleGoneKeeps DEF WavesNext

(* The two select boxes.                                                   *)

\* Nothing of r that the other box depends on is new.
NoMore(r, s) == BoxTyped(r) /\ (r.active => s.active) /\ (r.focus => s.focus)

\* Closing a list opens none.
LEMMA CloseListLess ==
  ASSUME NEW r, BoxTyped(r)
  PROVE  /\ NoMore(CloseList(r), r) /\ ~CloseList(r).active
         /\ CloseList(r).visible = r.visible /\ CloseList(r).focus = r.focus
BY DEF CloseList, NoMore, BoxTyped

\* Nor does the blur.
LEMMA BlurLess ==
  ASSUME NEW r, BoxTyped(r)
  PROVE  NoMore(Blur(r), r) /\ ~Blur(r).focus /\ Blur(r).visible = r.visible
BY DEF Blur, CloseList, NoMore, BoxTyped

\* An open list is one that was made visible.
LEMMA OpenListMore ==
  ASSUME NEW r, BoxTyped(r), NEW byFocus \in BOOLEAN
  PROVE  /\ BoxTyped(OpenList(r, byFocus))
         /\ OpenList(r, byFocus).focus = r.focus
BY DEF OpenList, BoxTyped

\* Choosing an option opens and closes nothing.
LEMMA ToggleSame ==
  ASSUME NEW r, BoxTyped(r), NEW e
  PROVE  /\ BoxTyped(ToggleEntry(r, e))
         /\ ToggleEntry(r, e).active = r.active /\ ToggleEntry(r, e).focus = r.focus
BY DEF ToggleEntry, BoxTyped

\* Nor does what the choice writes.
LEMMA ChosenSame ==
  ASSUME NEW r, BoxTyped(r), NEW i
  PROVE  /\ BoxTyped(Chosen(r, i))
         /\ Chosen(r, i).active = r.active /\ Chosen(r, i).focus = r.focus
<1> DEFINE e == i + r.shift
           many == ToggleEntry(r, e)
<1>1. BoxTyped(many) /\ many.active = r.active /\ many.focus = r.focus
  BY ToggleSame
<1>2. CASE ~r.multiple
  <2>1. Chosen(r, i) = [r EXCEPT !.chosen = {i}, !.marked = {e}, !.cursor = e]
    BY <1>2 DEF Chosen
  <2> HIDE DEF many, e
  <2> QED
    BY <2>1 DEF BoxTyped
<1>3. CASE r.multiple
  <2>1. PICK S : Chosen(r, i) = [many EXCEPT !.cursor = e, !.chosen = S]
    BY <1>3 DEF Chosen
  <2> HIDE DEF many, e
  <2> QED
    BY <1>1, <2>1 DEF BoxTyped
<1> QED
  BY <1>2, <1>3

\* A box that takes the focus: the other loses it, and the lists close unless
\* no other was to be seen.
LEMMA FocusedLeaves ==
  ASSUME NEW f, DOMAIN f = Boxes, \A c \in Boxes : BoxTyped(f[c]), NEW b \in Boxes
  PROVE  LET g == Focused(f, b) IN
         /\ DOMAIN g = Boxes /\ BoxTyped(g[b]) /\ BoxTyped(g[Other(b)])
         /\ ~g[Other(b)].active /\ ~g[Other(b)].focus
<1> DEFINE blurred == [c \in Boxes |-> Blur(f[c])]
           closed == IF \E c \in Boxes \ {b} : blurred[c].visible
                     THEN [c \in Boxes |-> CloseList(blurred[c])] ELSE blurred
           g == Focused(f, b)
<1>0. Other(b) \in Boxes /\ Other(b) # b /\ Boxes \ {b} = {Other(b)}
  BY DEF Boxes, Other
<1>1. \A c \in Boxes : BoxTyped(blurred[c]) /\ ~blurred[c].focus
  BY BlurLess DEF NoMore
<1> HIDE DEF blurred
<1>2. DOMAIN closed = Boxes /\ \A c \in Boxes : BoxTyped(closed[c]) /\ ~closed[c].focus
  <2>1. \A c \in Boxes : BoxTyped(CloseList(blurred[c])) /\ ~CloseList(blurred[c]).focus
    BY <1>1, CloseListLess DEF NoMore
  <2>2. DOMAIN blurred = Boxes
    BY DEF blurred
  <2> QED
    BY <1>1, <2>1, <2>2
<1>3. ~closed[Other(b)].active
  <2>1. CASE blurred[Other(b)].visible
    <3>1. closed[Other(b)] = CloseList(blurred[Other(b)])
      BY <1>0, <2>1
    <3> QED
      BY <1>0, <1>1, <3>1, CloseListLess
  <2>2. CASE ~blurred[Other(b)].visible
    <3>1. closed = blurred
      BY <1>0, <2>2
    <3> QED
      BY <1>0, <1>1, <2>2, <3>1 DEF BoxTyped
  <2> QED
    BY <2>1, <2>2
<1>4. g = [closed EXCEPT ![b] =
             [(IF @.visible THEN @ ELSE OpenList(@, TRUE)) EXCEPT !.focus = TRUE]]
  BY DEF Focused, blurred
<1> HIDE DEF closed, g
<1>5. /\ DOMAIN g = Boxes /\ g[Other(b)] = closed[Other(b)]
      /\ g[b] = [(IF closed[b].visible THEN closed[b] ELSE OpenList(closed[b], TRUE))
                   EXCEPT !.focus = TRUE]
  BY <1>0, <1>2, <1>4
<1>6. BoxTyped(IF closed[b].visible THEN closed[b] ELSE OpenList(closed[b], TRUE))
  BY <1>2, OpenListMore
<1>7. BoxTyped(g[b])
  BY <1>5, <1>6 DEF BoxTyped
<1> QED
  BY <1>0, <1>2, <1>3, <1>5, <1>7 DEF g

\* There are two boxes.
LEMMA OtherBox ==
  /\ \A b \in Boxes : Other(b) \in Boxes /\ Other(b) # b /\ Other(Other(b)) = b
  /\ \A b, c \in Boxes : c = b \/ c = Other(b)
BY DEF Boxes, Other

\* When the other box is closed and without focus, b may be in any state.
LEMMA AloneAside ==
  ASSUME NEW f, DOMAIN f = Boxes, NEW b \in Boxes, BoxTyped(f[b]),
         BoxTyped(f[Other(b)]), ~f[Other(b)].active, ~f[Other(b)].focus
  PROVE  BoxesAside(f)
<1> SUFFICES ASSUME NEW c \in Boxes PROVE BoxTyped(f[c]) /\ Aside(f[c], f[Other(c)])
  BY DEF BoxesAside
<1>1. CASE c = b
  BY <1>1 DEF Aside
<1>2. CASE c = Other(b)
  BY <1>2 DEF Aside
<1> QED
  BY <1>1, <1>2, OtherBox

\* Boxes that close or lose the focus keep out of each other's way.
LEMMA NoMoreAside ==
  ASSUME SelectInv, NEW f, DOMAIN f = Boxes, \A c \in Boxes : NoMore(f[c], select[c])
  PROVE  BoxesAside(f)
<1> SUFFICES ASSUME NEW c \in Boxes PROVE BoxTyped(f[c]) /\ Aside(f[c], f[Other(c)])
  BY DEF BoxesAside
<1>1. Other(c) \in Boxes
  BY OtherBox
<1>2. Aside(select[c], select[Other(c)])
  BY DEF SelectInv, BoxesAside
<1> QED
  BY <1>1, <1>2 DEF Aside, NoMore

\* What opens and closes nothing opens no more.
LEMMA SameNoMore ==
  ASSUME NEW r, BoxTyped(r)
  PROVE  NoMore(r, r)
BY DEF NoMore

\* What is done to the box that has the focus is no business of the other.
LEMMA OwnerAside ==
  ASSUME SelectInv, NEW b \in Boxes, select[b].focus, NEW r, BoxTyped(r)
  PROVE  BoxesAside([select EXCEPT ![b] = r])
<1> DEFINE f == [select EXCEPT ![b] = r]
<1>1. /\ DOMAIN select = Boxes /\ BoxTyped(select[Other(b)])
      /\ ~select[Other(b)].active /\ ~select[Other(b)].focus
  BY OtherBox DEF SelectInv, BoxesAside, Aside
<1>2. DOMAIN f = Boxes /\ f[b] = r /\ f[Other(b)] = select[Other(b)]
  BY <1>1, OtherBox
<1> HIDE DEF f
<1>3. BoxesAside(f)
  BY <1>1, <1>2, AloneAside
<1> QED
  BY <1>3 DEF f

\* A box that is redrawn, closed or left alone, with the other as it was.
LEMMA OneNoMoreAside ==
  ASSUME SelectInv, NEW b \in Boxes, NEW r, NoMore(r, select[b])
  PROVE  BoxesAside([select EXCEPT ![b] = r])
<1> DEFINE f == [select EXCEPT ![b] = r]
<1>1. DOMAIN f = Boxes /\ \A c \in Boxes : f[c] = IF c = b THEN r ELSE select[c]
  BY DEF SelectInv, BoxesAside
<1>2. \A c \in Boxes : NoMore(select[c], select[c])
  BY SameNoMore DEF SelectInv, BoxesAside
<1> HIDE DEF f
<1>3. \A c \in Boxes : NoMore(f[c], select[c])
  BY <1>1, <1>2
<1>4. BoxesAside(f)
  BY <1>1, <1>3, NoMoreAside
<1> QED
  BY <1>4 DEF f

\* The mouse is pressed on a row.
LEMMA PressedLess ==
  ASSUME SelectInv, NEW b \in Boxes
  PROVE  DOMAIN Pressed(b) = Boxes /\ \A c \in Boxes : NoMore(Pressed(b)[c], select[c])
<1> DEFINE blur == [c \in Boxes |-> Blur(select[c])]
           blurred == [blur EXCEPT ![b].over = TRUE]
<1>1. \A c \in Boxes : BoxTyped(select[c])
  BY DEF SelectInv, BoxesAside
<1>2. DOMAIN blur = Boxes /\ \A c \in Boxes : NoMore(blur[c], select[c])
  BY <1>1, BlurLess
<1> HIDE DEF blur
<1>3. blurred[b] = [blur[b] EXCEPT !.over = TRUE] /\ DOMAIN blurred = Boxes
      /\ \A c \in Boxes \ {b} : blurred[c] = blur[c]
  BY <1>2
<1>4. NoMore(blurred[b], select[b])
  BY <1>2, <1>3 DEF NoMore, BoxTyped
<1>5. DOMAIN blurred = Boxes /\ \A c \in Boxes : NoMore(blurred[c], select[c])
  BY <1>2, <1>3, <1>4
<1>6. Pressed(b) = blurred
  BY DEF Pressed, blur
<1> HIDE DEF blurred
<1> QED
  BY <1>5, <1>6

\* The window closes lists, and opens none.
LEMMA WindowClickLess ==
  ASSUME SelectInv, NEW f, \A c \in Boxes : NoMore(f[c], select[c])
  PROVE  /\ DOMAIN WindowClick(f) = Boxes
         /\ \A c \in Boxes : /\ NoMore(WindowClick(f)[c], select[c])
                             /\ NoMore(CloseList(WindowClick(f)[c]), select[c])
<1>1. PICK g : g = WindowClick(f)
  OBVIOUS
<1>2. DOMAIN g = Boxes /\ \A c \in Boxes : g[c] = f[c] \/ g[c] = CloseList(f[c])
  BY <1>1 DEF WindowClick
<1>3. \A c \in Boxes : NoMore(CloseList(f[c]), f[c]) /\ NoMore(CloseList(f[c]), select[c])
  BY CloseListLess DEF NoMore
<1>4. \A c \in Boxes : NoMore(g[c], select[c])
  BY <1>2, <1>3
<1>5. \A c \in Boxes : NoMore(CloseList(g[c]), g[c])
  BY <1>4, CloseListLess DEF NoMore
<1> QED
  BY <1>1, <1>2, <1>4, <1>5 DEF NoMore

\* A click on the heading opens nothing.
LEMMA ClickHeadingKeeps ==
  ASSUME SelectInv, NEW b \in Boxes, NEW byKey \in BOOLEAN, ClickHeading(b, byKey)
  PROVE  SelectInv'
<1>1. PICK f : f = IF byKey THEN select ELSE Pressed(b)
  OBVIOUS
<1>2. \A c \in Boxes : NoMore(f[c], select[c])
  <2>1. \A c \in Boxes : NoMore(select[c], select[c])
    BY SameNoMore DEF SelectInv, BoxesAside
  <2> QED
    BY <1>1, <2>1, PressedLess
<1>3. PICK W : W = WindowClick(f)
  OBVIOUS
<1>4. DOMAIN W = Boxes /\ \A c \in Boxes : NoMore(W[c], select[c])
                                         /\ NoMore(CloseList(W[c]), select[c])
  BY <1>2, <1>3, WindowClickLess
<1>5. PICK r : select' = [W EXCEPT ![b] = r] /\ (r = W[b] \/ r = CloseList(W[b]))
  BY <1>1, <1>3 DEF ClickHeading
<1>6. DOMAIN select' = Boxes /\ \A c \in Boxes : NoMore(select'[c], select[c])
  BY <1>4, <1>5
<1> QED
  BY <1>6, NoMoreAside DEF SelectInv

\* A choice in an open list.
LEMMA ChooseOptionKeeps ==
  ASSUME SelectInv, NEW b \in Boxes, NEW i \in Option, ChooseOption(b, i)
  PROVE  SelectInv'
<1> DEFINE blurred == Pressed(b)
<1>5. DOMAIN blurred = Boxes /\ \A c \in Boxes : NoMore(blurred[c], select[c])
  BY PressedLess
<1>6. select' = IF i \in select[b].disabled THEN blurred
                ELSE IF select[b].multiple
                  THEN [Focused(blurred, b) EXCEPT ![b] = Chosen(@, i)]
                  ELSE [blurred EXCEPT ![b] = Chosen(@, i)]
  BY DEF ChooseOption
<1> HIDE DEF blurred
<1>9. CASE i \in select[b].disabled
  BY <1>5, <1>6, <1>9, NoMoreAside DEF SelectInv
<1>7. CASE select[b].multiple /\ i \notin select[b].disabled
  <2> DEFINE g == Focused(blurred, b)
  <2>1. /\ DOMAIN g = Boxes /\ BoxTyped(g[b]) /\ BoxTyped(g[Other(b)])
        /\ ~g[Other(b)].active /\ ~g[Other(b)].focus
    BY <1>5, FocusedLeaves DEF NoMore
  <2> HIDE DEF g
  <2>2. select' = [g EXCEPT ![b] = Chosen(g[b], i)]
    BY <1>6, <1>7 DEF g
  <2>3. /\ DOMAIN select' = Boxes /\ select'[b] = Chosen(g[b], i)
        /\ select'[Other(b)] = g[Other(b)]
    BY <2>1, <2>2, OtherBox
  <2>4. BoxTyped(select'[b])
    BY <2>1, <2>3, ChosenSame
  <2> QED
    BY <2>1, <2>3, <2>4, AloneAside DEF SelectInv
<1>8. CASE ~select[b].multiple /\ i \notin select[b].disabled
  <2>1. select' = [blurred EXCEPT ![b] = Chosen(blurred[b], i)]
    BY <1>6, <1>8
  <2>2. /\ DOMAIN select' = Boxes /\ select'[b] = Chosen(blurred[b], i)
        /\ \A c \in Boxes \ {b} : select'[c] = blurred[c]
    BY <1>5, <2>1
  <2>3. NoMore(select'[b], select[b])
    BY <1>5, <2>2, ChosenSame DEF NoMore
  <2>4. \A c \in Boxes : NoMore(select'[c], select[c])
    BY <1>5, <2>2, <2>3
  <2> QED
    BY <2>2, <2>4, NoMoreAside DEF SelectInv
<1> QED
  BY <1>7, <1>8, <1>9

\* Enter chooses.
LEMMA EnterKeyKeeps ==
  ASSUME SelectInv, NEW b \in Boxes, EnterKey(b)
  PROVE  SelectInv'
<1> DEFINE row == select[b].cursor - select[b].shift
           g == Focused(select, b)
<1>1. \A c \in Boxes : BoxTyped(select[c])
  BY DEF SelectInv, BoxesAside
<1>2. /\ DOMAIN g = Boxes /\ BoxTyped(g[b]) /\ BoxTyped(g[Other(b)])
      /\ ~g[Other(b)].active /\ ~g[Other(b)].focus
  BY <1>1, FocusedLeaves DEF SelectInv, BoxesAside
<1>3. /\ select[b].focus
      /\ select' = IF select[b].multiple THEN [g EXCEPT ![b] = Chosen(@, row)]
                   ELSE [select EXCEPT ![b] = CloseList(Chosen(@, row))]
  BY DEF EnterKey
<1> HIDE DEF g
<1>4. CASE select[b].multiple
  <2>1. select' = [g EXCEPT ![b] = Chosen(g[b], row)]
    BY <1>3, <1>4
  <2>2. /\ DOMAIN select' = Boxes /\ select'[b] = Chosen(g[b], row)
        /\ select'[Other(b)] = g[Other(b)]
    BY <1>2, <2>1, OtherBox
  <2>3. BoxTyped(select'[b])
    BY <1>2, <2>2, ChosenSame
  <2> QED
    BY <1>2, <2>2, <2>3, AloneAside DEF SelectInv
<1>5. CASE ~select[b].multiple
  <2> DEFINE r == Chosen(select[b], row)
  <2>1. BoxTyped(r)
    BY <1>1, ChosenSame
  <2>2. select' = [select EXCEPT ![b] = CloseList(r)]
    BY <1>3, <1>5
  <2> HIDE DEF r
  <2>3. BoxTyped(CloseList(r))
    BY <2>1, CloseListLess DEF NoMore
  <2> QED
    BY <1>3, <2>2, <2>3, OwnerAside DEF SelectInv
<1> QED
  BY <1>4, <1>5

\* A key opens or closes the list, moves the cursor or does nothing.
LEMMA KeyMovesOrCloses ==
  ASSUME NEW b \in Boxes, NEW key \in {"tab", "esc", "down", "up"}, SelectKey(b, key)
  PROVE  \E r : /\ select' = [select EXCEPT ![b] = r]
               /\ \/ r = CloseList(select[b]) \/ r = OpenList(select[b], FALSE)
                  \/ r = select[b]
                  \/ \E n : r = [select[b] EXCEPT !.cursor = n]
<1>1. PICK s, F, first, up, down :
        /\ s = select[b] /\ F = FreeRows(s) /\ first = [s EXCEPT !.cursor = Min(F)]
        /\ up = Moved(s, s.cursor - 1) /\ down = Moved(s, s.cursor + 1)
  OBVIOUS
<1>2. PICK r : r = CASE key \in {"tab", "esc"} -> CloseList(s)
                     [] key = "down" /\ ~s.visible -> OpenList(s, FALSE)
                     [] key = "down" /\ s.visible /\ s.cursor = 0 /\ F # {} -> first
                     [] key = "down" /\ s.visible /\ s.cursor > 0 -> down
                     [] key = "up" /\ s.cursor > 0 -> up
                     [] OTHER -> s
  OBVIOUS
<1>3. select' = [select EXCEPT ![b] = r]
  BY <1>1, <1>2 DEF SelectKey
<1>4. /\ up = s \/ up = [s EXCEPT !.cursor = s.cursor - 1]
      /\ down = s \/ down = [s EXCEPT !.cursor = s.cursor + 1]
  BY <1>1, Zenon DEF Moved
<1>5. \/ r = CloseList(s) \/ r = OpenList(s, FALSE) \/ r = s
      \/ r = first \/ r = down \/ r = up
  <2>1. CASE key \in {"tab", "esc"}
    BY <1>2, <2>1
  <2>2. CASE key = "down" /\ ~s.visible
    BY <1>2, <2>2
  <2>3. CASE key = "down" /\ s.visible /\ s.cursor = 0 /\ F # {}
    BY <1>2, <2>3
  <2>4. CASE key = "down" /\ s.visible /\ s.cursor > 0
    BY <1>2, <2>4
  <2>5. CASE key = "up" /\ s.cursor > 0
    BY <1>2, <2>5
  <2> QED
    BY <1>2, <2>1, <2>2, <2>3, <2>4, <2>5
<1>6. \/ r = CloseList(s) \/ r = OpenList(s, FALSE) \/ r = s
      \/ \E n : r = [s EXCEPT !.cursor = n]
  BY <1>1, <1>4, <1>5, Zenon
<1> QED
  BY <1>1, <1>3, <1>6

\* The other keys.
LEMMA SelectKeyKeeps ==
  ASSUME SelectInv, NEW b \in Boxes, NEW key \in {"tab", "esc", "down", "up"},
         SelectKey(b, key)
  PROVE  SelectInv'
<1> DEFINE s == select[b]
<1>1. BoxTyped(s) /\ s.focus
  BY DEF SelectInv, BoxesAside, SelectKey
<1>2. PICK r : /\ select' = [select EXCEPT ![b] = r]
               /\ \/ r = CloseList(s) \/ r = OpenList(s, FALSE) \/ r = s
                  \/ \E n : r = [s EXCEPT !.cursor = n]
  BY KeyMovesOrCloses
<1> HIDE DEF s
<1>3. BoxTyped(r)
  <2>1. BoxTyped(CloseList(s)) /\ BoxTyped(OpenList(s, FALSE))
    BY <1>1, CloseListLess, OpenListMore DEF NoMore
  <2>2. \A n : BoxTyped([s EXCEPT !.cursor = n])
    BY <1>1 DEF BoxTyped
  <2> QED
    BY <1>1, <1>2, <2>1, <2>2
<1> QED
  BY <1>1, <1>2, <1>3, OwnerAside DEF SelectInv, s

\* A letter.
LEMMA LetterKeyKeeps ==
  ASSUME SelectInv, NEW b \in Boxes, NEW row, LetterKey(b, row)
  PROVE  SelectInv'
<1>1. BoxTyped(select[b]) /\ select[b].focus
  BY DEF SelectInv, BoxesAside, LetterKey
<1>2. PICK r : r = [select[b] EXCEPT !.cursor = row]
  OBVIOUS
<1>3. select' = [select EXCEPT ![b] = r]
  BY <1>2 DEF LetterKey
<1>4. BoxTyped(r)
  BY <1>1, <1>2 DEF BoxTyped
<1> QED
  BY <1>1, <1>3, <1>4, OwnerAside DEF SelectInv

\* A structure torn down or built has neither list nor focus.
LEMMA BuiltTyped ==
  ASSUME NEW r, BoxTyped(r)
  PROVE  \A q \in {TornDown(r), Built(r)} :
           BoxTyped(q) /\ ~q.active /\ ~q.focus /\ ~q.visible
<1>1. PICK torn : torn = TornDown(r)
  OBVIOUS
<1>2. BoxTyped(torn) /\ ~torn.active /\ ~torn.focus /\ ~torn.visible
  <2>1. DOMAIN torn = DOMAIN r
    BY <1>1, Zenon DEF TornDown
  <2>2. torn.active = FALSE /\ torn.visible = FALSE /\ torn.focus = FALSE
    BY <1>1, Zenon DEF TornDown, BoxTyped
  <2> QED
    BY <2>1, <2>2 DEF BoxTyped
<1>3. PICK T, a : /\ T = (IF r.multiple THEN r.chosen \ r.disabled ELSE {})
                  /\ a = Ascending(T)
  OBVIOUS
<1>4. PICK q : q = [torn EXCEPT !.ready = TRUE, !.marked = T, !.values = a]
  OBVIOUS
<1>5. Built(r) = q
  BY <1>1, <1>3, <1>4, Zenon DEF Built
<1>6. BoxTyped(q) /\ ~q.active /\ ~q.focus /\ ~q.visible
  BY <1>2, <1>4 DEF BoxTyped
<1> QED
  BY <1>1, <1>2, <1>5, <1>6

\* material_select again.
LEMMA RebuildSelectKeeps ==
  ASSUME SelectInv, NEW b \in Boxes, NEW destroy \in BOOLEAN, RebuildSelect(b, destroy)
  PROVE  SelectInv'
<1>1. BoxTyped(select[b])
  BY DEF SelectInv, BoxesAside
<1>2. PICK r : /\ select' = [select EXCEPT ![b] = r]
               /\ r = TornDown(select[b]) \/ r = Built(select[b])
  BY DEF RebuildSelect
<1>3. NoMore(r, select[b])
  BY <1>1, <1>2, BuiltTyped DEF NoMore
<1> QED
  BY <1>2, <1>3, OneNoMoreAside DEF SelectInv

\* Every step of the select boxes.
LEMMA SelectStep ==
  ASSUME SelectInv, UNCHANGED select \/ SelectNext
  PROVE  SelectInv'
<1>0. DOMAIN select = Boxes /\ \A c \in Boxes : BoxTyped(select[c])
  BY DEF SelectInv, BoxesAside
<1>1. CASE UNCHANGED select
  BY <1>1 DEF SelectInv
<1>2. CASE LeaveSelects
  <2>1. PICK f : f = [c \in Boxes |-> Blur(select[c])]
    OBVIOUS
  <2>2. \A c \in Boxes : NoMore(f[c], select[c])
    BY <1>0, <2>1, BlurLess
  <2>3. select' = WindowClick(f)
    BY <1>2, <2>1 DEF LeaveSelects
  <2> QED
    BY <2>2, <2>3, WindowClickLess, NoMoreAside DEF SelectInv
<1>3. ASSUME NEW b \in Boxes, NEW row, FocusSelect(b, row) PROVE SelectInv'
  <2>1. PICK g : g = Focused(select, b)
    OBVIOUS
  <2>2. /\ DOMAIN g = Boxes /\ BoxTyped(g[b]) /\ BoxTyped(g[Other(b)])
        /\ ~g[Other(b)].active /\ ~g[Other(b)].focus
    BY <1>0, <2>1, FocusedLeaves
  <2>3. PICK n : select' = [g EXCEPT ![b].cursor = n]
    BY <1>3, <2>1 DEF FocusSelect
  <2>4. PICK r : r = [g[b] EXCEPT !.cursor = n]
    OBVIOUS
  <2>5. /\ DOMAIN select' = Boxes /\ select'[b] = r
        /\ select'[Other(b)] = g[Other(b)]
    BY <2>2, <2>3, <2>4, OtherBox
  <2>6. BoxTyped(r)
    BY <2>2, <2>4 DEF BoxTyped
  <2> QED
    BY <2>2, <2>5, <2>6, AloneAside DEF SelectInv
<1>4. ASSUME NEW b \in Boxes, ClickSelect(b) PROVE SelectInv'
  <2>1. PICK r : /\ select[b].focus /\ select' = [select EXCEPT ![b] = r]
                 /\ r = CloseList(select[b]) \/ r = OpenList(select[b], FALSE)
    BY <1>4 DEF ClickSelect
  <2>2. BoxTyped(r)
    BY <1>0, <2>1, CloseListLess, OpenListMore DEF NoMore
  <2> QED
    BY <2>1, <2>2, OwnerAside DEF SelectInv
<1>5. ASSUME NEW b \in Boxes, SelectFaded(b) PROVE SelectInv'
  <2> DEFINE r == [select[b] EXCEPT !.visible = FALSE, !.over = FALSE]
  <2>1. select' = [select EXCEPT ![b] = r] /\ ~select[b].active
    BY <1>0, <1>5 DEF SelectFaded
  <2>2. NoMore(r, select[b])
    BY <1>0, <2>1 DEF NoMore, BoxTyped
  <2> HIDE DEF r
  <2> QED
    BY <2>1, <2>2, OneNoMoreAside DEF SelectInv
<1>6. ASSUME NEW b \in Boxes, NEW inside \in BOOLEAN, HoverOptions(b, inside)
      PROVE  SelectInv'
  <2> DEFINE r == [select[b] EXCEPT !.over = inside]
  <2>1. select' = [select EXCEPT ![b] = r]
    BY <1>0, <1>6 DEF HoverOptions
  <2>2. NoMore(r, select[b])
    BY <1>0 DEF NoMore, BoxTyped
  <2> HIDE DEF r
  <2> QED
    BY <2>1, <2>2, OneNoMoreAside DEF SelectInv
<1> QED
  BY <1>1, <1>2, <1>3, <1>4, <1>5, <1>6, EnterKeyKeeps, ChooseOptionKeeps,
     ClickHeadingKeeps, SelectKeyKeeps, LetterKeyKeeps, RebuildSelectKeeps
  DEF SelectNext

Timers == {"open", "close", "bind", "unbind"}

\* What the lock does not depend on may change.
LEMMA SameLock ==
  ASSUME NEW p, NEW q, LockOf(p), DOMAIN q = DOMAIN p,
         q.started = p.started, q.open = p.open, q.locked = p.locked,
         q.listening = p.listening, q.toOpen = p.toOpen, q.timers = p.timers,
         q.tall = p.tall, q.resized = p.resized, q.pad = p.pad
  PROVE  LockOf(q)
<1>1. PickerTyped(q)
  BY DEF LockOf, PickerTyped
<1>2. IdleUnlessStarted(q)
  BY DEF LockOf, IdleUnlessStarted
<1>3. LockFollowsOpen(q)
  BY DEF LockOf, LockFollowsOpen
<1>4. ScrollbarWidth(q) = ScrollbarWidth(p)
  BY DEF ScrollbarWidth
<1>5. PadFollowsOpen(q)
  BY <1>4 DEF LockOf, PadFollowsOpen
<1>. QED BY <1>1, <1>2, <1>3, <1>5 DEF LockOf

\* A timer more, of a picker that is started.
LEMMA TimerSet ==
  ASSUME NEW p, NEW q, NEW t \in Timers, LockOf(p), p.started,
         DOMAIN q = DOMAIN p, q.timers = Append(p.timers, t),
         q.started = p.started, q.open = p.open, q.locked = p.locked,
         q.listening = p.listening, q.toOpen \in BOOLEAN,
         q.tall = p.tall, q.resized = p.resized, q.pad = p.pad
  PROVE  LockOf(q)
<1>1. q.timers \in Seq(Timers)
  BY AppendProperties DEF LockOf, PickerTyped, Timers
<1>2. PickerTyped(q)
  BY <1>1 DEF LockOf, PickerTyped, Timers
<1>3. IdleUnlessStarted(q)
  BY DEF LockOf, IdleUnlessStarted
<1>4. LockFollowsOpen(q)
  BY DEF LockOf, LockFollowsOpen
<1>5. ScrollbarWidth(q) = ScrollbarWidth(p)
  BY DEF ScrollbarWidth
<1>6. PadFollowsOpen(q)
  BY <1>5 DEF LockOf, PadFollowsOpen
<1>. QED BY <1>2, <1>3, <1>4, <1>6 DEF LockOf

\* open: the picker and the lock, its padding and the document's handlers.
LEMMA OpeningLocks ==
  ASSUME NEW p, LockOf(p), p.started
  PROVE  LockOf(Opening(p)) /\ Opening(p).started
<1>1. CASE p.open
  BY <1>1 DEF Opening
<1>2. CASE ~p.open
  <2>. DEFINE q == Opening(p)
  <2>1. DOMAIN p = PickerFields
    BY DEF LockOf, PickerTyped
  <2>2. /\ DOMAIN q = PickerFields
        /\ q.started = p.started /\ q.open = TRUE /\ q.locked = DefaultTheme
        /\ q.listening = TRUE /\ q.toOpen = p.toOpen
        /\ q.timers = Append(p.timers, "open")
        /\ q.tall = p.tall /\ q.resized = p.resized
        /\ q.pad = IF DefaultTheme THEN p.pad + ScrollbarWidth(p) ELSE p.pad
    BY <1>2, <2>1 DEF Opening, PickerFields
  <2>. HIDE DEF q
  <2>3. q.timers \in Seq(Timers)
    BY <2>2, AppendProperties DEF LockOf, PickerTyped, Timers
  <2>4. ScrollbarWidth(p) \in Nat /\ ScrollbarWidth(q) = ScrollbarWidth(p)
    BY <2>2 DEF ScrollbarWidth
  <2>5. q.pad \in Nat
    BY <2>2, <2>4 DEF LockOf, PickerTyped
  <2>6. PickerTyped(q)
    BY <2>2, <2>3, <2>5 DEF LockOf, PickerTyped, Timers
  <2>7. IdleUnlessStarted(q)
    BY <2>2 DEF IdleUnlessStarted
  <2>8. LockFollowsOpen(q)
    BY <2>2, PickerAssumption DEF LockFollowsOpen
  <2>9. ASSUME ~p.resized PROVE p.pad = 0
    BY <1>2, <2>9 DEF LockOf, PadFollowsOpen
  <2>10. PadFollowsOpen(q)
    <3>1. CASE DefaultTheme
      BY <2>2, <2>4, <2>9, <3>1 DEF PadFollowsOpen
    <3>2. CASE ~DefaultTheme
      BY <2>2, <2>9, <3>2 DEF PadFollowsOpen
    <3>. QED BY <3>1, <3>2
  <2>11. LockOf(q)
    BY <2>6, <2>7, <2>8, <2>10 DEF LockOf
  <2>. QED BY <2>2, <2>11 DEF q
<1>. QED BY <1>1, <1>2

\* open(false) only shows the root.
LEMMA OpeningUnfocusedLocks ==
  ASSUME NEW p, LockOf(p), p.started
  PROVE  LockOf(OpeningUnfocused(p))
<1>1. CASE p.open
  BY <1>1 DEF OpeningUnfocused
<1>2. CASE ~p.open
  <2>. DEFINE q == OpeningUnfocused(p)
  <2>1. DOMAIN p = PickerFields /\ p.toOpen \in BOOLEAN
    BY DEF LockOf, PickerTyped
  <2>2. /\ DOMAIN q = DOMAIN p
        /\ q.started = p.started /\ q.open = p.open /\ q.locked = p.locked
        /\ q.listening = p.listening /\ q.toOpen = p.toOpen
        /\ q.timers = Append(p.timers, "open")
        /\ q.tall = p.tall /\ q.resized = p.resized /\ q.pad = p.pad
    BY <1>2, <2>1 DEF OpeningUnfocused, PickerFields
  <2>. HIDE DEF q
  <2>3. "open" \in Timers
    BY DEF Timers
  <2>4. LockOf(q)
    BY <2>1, <2>2, <2>3, TimerSet
  <2>. QED BY <2>4 DEF q
<1>. QED BY <1>1, <1>2

\* The focus of the root opens the picker.
LEMMA FocusRootLocks ==
  ASSUME NEW p, LockOf(p)
  PROVE  LockOf(FocusRoot(p)) /\ (p.started => FocusRoot(p).started)
<1>. DEFINE q == [p EXCEPT !.focus = "root"]
<1>1. DOMAIN p = PickerFields
  BY DEF LockOf, PickerTyped
<1>2. /\ DOMAIN q = DOMAIN p
      /\ q.started = p.started /\ q.open = p.open /\ q.locked = p.locked
      /\ q.listening = p.listening /\ q.toOpen = p.toOpen /\ q.timers = p.timers
      /\ q.tall = p.tall /\ q.resized = p.resized /\ q.pad = p.pad
  BY <1>1 DEF PickerFields
<1>3. FocusRoot(p) = IF p.toOpen THEN Opening(q) ELSE q
  BY DEF FocusRoot
<1>. HIDE DEF q
<1>4. LockOf(q)
  BY <1>2, SameLock
<1>5. CASE p.started
  <2>1. LockOf(Opening(q)) /\ Opening(q).started
    BY <1>2, <1>4, <1>5, OpeningLocks
  <2>. QED BY <1>2, <1>3, <1>4, <1>5, <2>1
<1>6. CASE ~p.started
  <2>1. ~p.toOpen
    BY <1>6 DEF LockOf, IdleUnlessStarted
  <2>. QED BY <1>3, <1>4, <1>6, <2>1
<1>. QED BY <1>5, <1>6

\* close undoes what open did, and only once.
LEMMA ClosingUnlocks ==
  ASSUME NEW p, NEW giveFocus \in BOOLEAN, LockOf(p), p.started
  PROVE  LockOf(Closing(p, giveFocus)) /\ Closing(p, giveFocus).started
         /\ ~Closing(p, giveFocus).open
<1>. DEFINE q == IF giveFocus
                 THEN [p EXCEPT !.toOpen = FALSE, !.focus = "root",
                                !.timers = Append(@, "bind")]
                 ELSE p
            r == [q EXCEPT !.active = FALSE, !.timers = Append(@, "close")]
            s == [r EXCEPT !.open = FALSE, !.locked = FALSE, !.listening = FALSE,
                           !.buttons = FALSE, !.today = FALSE,
                           !.pad = IF DefaultTheme /\ @ >= ScrollbarWidth(p)
                                   THEN @ - ScrollbarWidth(p) ELSE @]
<1>1. Closing(p, giveFocus) = IF ~p.open THEN r ELSE s
  BY DEF Closing
<1>2. DOMAIN p = PickerFields /\ p.toOpen \in BOOLEAN
  BY DEF LockOf, PickerTyped
<1>3. LockOf(q) /\ q.started = p.started /\ q.open = p.open /\ q.pad = p.pad
      /\ q.tall = p.tall
  <2>1. CASE giveFocus
    <3>1. /\ DOMAIN q = DOMAIN p
          /\ q.started = p.started /\ q.open = p.open /\ q.locked = p.locked
          /\ q.listening = p.listening /\ q.toOpen = FALSE
          /\ q.timers = Append(p.timers, "bind")
          /\ q.tall = p.tall /\ q.resized = p.resized /\ q.pad = p.pad
      BY <1>2, <2>1 DEF PickerFields
    <3>2. "bind" \in Timers
      BY DEF Timers
    <3>3. LockOf(q)
      <4>. HIDE DEF q
      <4>. QED BY <3>1, <3>2, TimerSet
    <3>. QED BY <3>1, <3>3
  <2>2. CASE ~giveFocus
    BY <2>2
  <2>. QED BY <2>1, <2>2
<1>4. DOMAIN q = PickerFields /\ q.toOpen \in BOOLEAN
  BY <1>3 DEF LockOf, PickerTyped
<1>. HIDE DEF q
<1>5. /\ DOMAIN r = DOMAIN q
      /\ r.started = q.started /\ r.open = q.open /\ r.locked = q.locked
      /\ r.listening = q.listening /\ r.toOpen = q.toOpen
      /\ r.timers = Append(q.timers, "close")
      /\ r.tall = q.tall /\ r.resized = q.resized /\ r.pad = q.pad
  BY <1>4 DEF PickerFields
<1>. HIDE DEF r
<1>6. "close" \in Timers
  BY DEF Timers
<1>7. LockOf(r)
  BY <1>3, <1>4, <1>5, <1>6, TimerSet
<1>8. CASE ~p.open
  BY <1>1, <1>3, <1>5, <1>7, <1>8
<1>9. CASE p.open
  <2>1. DOMAIN r = PickerFields
    BY <1>4, <1>5
  <2>2. /\ DOMAIN s = PickerFields
        /\ s.started = r.started /\ s.open = FALSE /\ s.locked = FALSE
        /\ s.listening = FALSE /\ s.toOpen = r.toOpen /\ s.timers = r.timers
        /\ s.tall = r.tall /\ s.resized = r.resized
        /\ s.pad = IF DefaultTheme /\ r.pad >= ScrollbarWidth(p)
                   THEN r.pad - ScrollbarWidth(p) ELSE r.pad
    BY <2>1 DEF PickerFields
  <2>. HIDE DEF s
  <2>3. ScrollbarWidth(p) \in Nat /\ ScrollbarWidth(r) = ScrollbarWidth(p)
    BY <1>3, <1>5 DEF ScrollbarWidth
  <2>4. r.pad \in Nat
    BY <1>7 DEF LockOf, PickerTyped
  <2>5. s.pad \in Nat
    <3>1. CASE DefaultTheme /\ r.pad >= ScrollbarWidth(p)
      BY <2>2, <2>3, <2>4, <3>1
    <3>2. CASE ~(DefaultTheme /\ r.pad >= ScrollbarWidth(p))
      BY <2>2, <2>4, <3>2
    <3>. QED BY <3>1, <3>2
  <2>6. PickerTyped(s)
    BY <1>7, <2>2, <2>5 DEF LockOf, PickerTyped
  <2>7. IdleUnlessStarted(s)
    BY <1>3, <1>5, <2>2 DEF IdleUnlessStarted
  <2>8. LockFollowsOpen(s)
    BY <2>2 DEF LockFollowsOpen
  <2>9. ASSUME ~r.resized
        PROVE  r.pad = IF DefaultTheme THEN ScrollbarWidth(p) ELSE 0
    BY <1>3, <1>5, <1>7, <1>9, <2>3, <2>9 DEF LockOf, PadFollowsOpen
  <2>10. ASSUME ~s.resized PROVE s.pad = 0
    <3>1. CASE DefaultTheme
      BY <2>2, <2>3, <2>4, <2>9, <2>10, <3>1
    <3>2. CASE ~DefaultTheme
      BY <2>2, <2>9, <2>10, <3>2
    <3>. QED BY <3>1, <3>2
  <2>11. PadFollowsOpen(s)
    BY <2>2, <2>10 DEF PadFollowsOpen
  <2>12. LockOf(s)
    BY <2>6, <2>7, <2>8, <2>11 DEF LockOf
  <2>. QED BY <1>1, <1>3, <1>5, <1>9, <2>2, <2>12
<1>. QED BY <1>8, <1>9

\* The inputs and the buttons.
LEMMA WrittenLocks ==
  ASSUME NEW p, NEW date, LockOf(p)
  PROVE  LockOf(Written(p, date)) /\ Written(p, date).started = p.started
<1>. DEFINE q == Written(p, date)
<1>1. DOMAIN p = PickerFields
  BY DEF LockOf, PickerTyped
<1>2. /\ DOMAIN q = DOMAIN p
      /\ q.started = p.started /\ q.open = p.open /\ q.locked = p.locked
      /\ q.listening = p.listening /\ q.toOpen = p.toOpen /\ q.timers = p.timers
      /\ q.tall = p.tall /\ q.resized = p.resized /\ q.pad = p.pad
  BY <1>1 DEF Written, PickerFields
<1>. HIDE DEF q
<1>3. LockOf(q)
  BY <1>2, SameLock
<1>. QED BY <1>2, <1>3 DEF q

\* render.
LEMMA DrawnLocks ==
  ASSUME NEW p, NEW c, LockOf(p)
  PROVE  LockOf(Drawn(p, c)) /\ Drawn(p, c).started = p.started
<1>. DEFINE q == Drawn(p, c)
<1>1. DOMAIN p = PickerFields
  BY DEF LockOf, PickerTyped
<1>2. /\ DOMAIN q = DOMAIN p
      /\ q.started = p.started /\ q.open = p.open /\ q.locked = p.locked
      /\ q.listening = p.listening /\ q.toOpen = p.toOpen /\ q.timers = p.timers
      /\ q.tall = p.tall /\ q.resized = p.resized /\ q.pad = p.pad
  BY <1>1 DEF Drawn, PickerFields
<1>. HIDE DEF q
<1>3. LockOf(q)
  BY <1>2, SameLock
<1>. QED BY <1>2, <1>3 DEF q

\* A new highlight and view.
LEMMA ViewedLocks ==
  ASSUME NEW p, NEW c, NEW d, LockOf(p)
  PROVE  LockOf(Viewed(p, c, d)) /\ Viewed(p, c, d).started = p.started
<1>. DEFINE s == Drawn(p, d)
            q == Viewed(p, c, d)
<1>1. LockOf(s) /\ s.started = p.started
  BY DrawnLocks
<1>2. PICK x : q = [s EXCEPT !.stray = x]
  BY DEF Viewed
<1>. HIDE DEF s, q
<1>3. DOMAIN s = PickerFields
  BY <1>1 DEF LockOf, PickerTyped
<1>4. /\ DOMAIN q = DOMAIN s
      /\ q.started = s.started /\ q.open = s.open /\ q.locked = s.locked
      /\ q.listening = s.listening /\ q.toOpen = s.toOpen /\ q.timers = s.timers
      /\ q.tall = s.tall /\ q.resized = s.resized /\ q.pad = s.pad
  BY <1>2, <1>3 DEF PickerFields
<1>5. LockOf(q)
  BY <1>1, <1>4, SameLock
<1>. QED BY <1>1, <1>4, <1>5 DEF q

\* start, of a picker that is closed.
LEMMA StartedLocks ==
  ASSUME NEW p, NEW c, LockOf(p), ~p.open
  PROVE  LockOf(Started(p, c)) 
<1>. DEFINE q == [p EXCEPT !.started = TRUE, !.open = FALSE, !.opened = FALSE,
                     !.toOpen = TRUE, !.bound = TRUE, !.buttons = FALSE,
                     !.today = FALSE,
                     !.hidden = IF p.value = NoDate THEN NoDate ELSE c.select,
                     !.kept = c.select # p.value, !.moved = FALSE, !.hasty = FALSE,
                     !.stray = ~CanSettle(c)]
<1>1. DOMAIN p = PickerFields
  BY DEF LockOf, PickerTyped
<1>2. Started(p, c) = IF p.focus = "element" THEN Opening(q) ELSE q
  <2>1. q.focus = p.focus
    BY <1>1 DEF PickerFields
  <2>. QED BY <2>1 DEF Started
<1>3. /\ DOMAIN q = DOMAIN p
      /\ q.started = TRUE /\ q.open = FALSE /\ q.locked = p.locked
      /\ q.listening = p.listening /\ q.toOpen = TRUE /\ q.timers = p.timers
      /\ q.tall = p.tall /\ q.resized = p.resized /\ q.pad = p.pad
  BY <1>1 DEF PickerFields
<1>. HIDE DEF q
<1>4. PickerTyped(q)
  BY <1>3 DEF LockOf, PickerTyped
<1>5. IdleUnlessStarted(q)
  BY <1>3 DEF IdleUnlessStarted
<1>6. LockFollowsOpen(q)
  <2>1. p.locked = FALSE /\ p.listening = FALSE
    BY DEF LockOf, LockFollowsOpen, PickerTyped
  <2>. QED BY <1>3, <2>1 DEF LockFollowsOpen
<1>7. PadFollowsOpen(q)
  BY <1>3 DEF LockOf, PadFollowsOpen
<1>8. LockOf(q)
  BY <1>4, <1>5, <1>6, <1>7 DEF LockOf
<1>9. LockOf(Opening(q))
  BY <1>3, <1>8, OpeningLocks
<1>. QED BY <1>2, <1>8, <1>9

\* The first timeout: a picker that is stopped has none that binds.
LEMMA TimeoutKeeps ==
  ASSUME LockInv, Timeout
  PROVE  LockInv'
<1>. DEFINE p == [picker EXCEPT !.timers = Tail(@)]
            timer == Head(picker.timers)
            q == [p EXCEPT
                   !.opened = IF timer \in {"open", "close"} THEN timer = "open" ELSE @,
                   !.toOpen = @ \/ timer = "bind",
                   !.bound = @ /\ timer # "unbind",
                   !.hasty = @ \/ (timer = "unbind" /\ p.started)]
<1>1. picker' = q /\ picker.timers # <<>>
  BY DEF Timeout
<1>2. LockOf(picker) /\ DOMAIN picker = PickerFields /\ picker.toOpen \in BOOLEAN
      /\ picker.timers \in Seq(Timers)
  BY DEF LockInv, LockOf, PickerTyped, Timers
<1>3. /\ DOMAIN p = PickerFields
      /\ p.started = picker.started /\ p.open = picker.open /\ p.locked = picker.locked
      /\ p.listening = picker.listening /\ p.toOpen = picker.toOpen
      /\ p.timers = Tail(picker.timers)
      /\ p.tall = picker.tall /\ p.resized = picker.resized /\ p.pad = picker.pad
  BY <1>2 DEF PickerFields
<1>. HIDE DEF p
<1>4. /\ DOMAIN q = PickerFields
      /\ q.started = p.started /\ q.open = p.open /\ q.locked = p.locked
      /\ q.listening = p.listening /\ q.toOpen = (p.toOpen \/ timer = "bind")
      /\ q.timers = p.timers
      /\ q.tall = p.tall /\ q.resized = p.resized /\ q.pad = p.pad
  BY <1>3 DEF PickerFields
<1>. HIDE DEF q
<1>5. /\ Tail(picker.timers) \in Seq(Timers)
      /\ \A i \in DOMAIN Tail(picker.timers) :
           i + 1 \in DOMAIN picker.timers /\ Tail(picker.timers)[i] = picker.timers[i + 1]
      /\ 1 \in DOMAIN picker.timers /\ timer = picker.timers[1]
  BY <1>1, <1>2
<1>6. PickerTyped(q)
  BY <1>2, <1>3, <1>4, <1>5 DEF LockOf, PickerTyped, Timers
<1>7. IdleUnlessStarted(q)
  <2>. SUFFICES ASSUME ~q.started PROVE
         /\ ~q.open /\ ~q.toOpen /\ \A i \in DOMAIN q.timers : q.timers[i] # "bind"
    BY DEF IdleUnlessStarted
  <2>1. /\ ~picker.open /\ ~picker.toOpen
        /\ \A i \in DOMAIN picker.timers : picker.timers[i] # "bind"
    BY <1>2, <1>3, <1>4 DEF LockOf, IdleUnlessStarted
  <2>2. timer # "bind"
    BY <1>5, <2>1
  <2>3. \A i \in DOMAIN q.timers : q.timers[i] # "bind"
    <3>. SUFFICES ASSUME NEW i \in DOMAIN q.timers PROVE q.timers[i] # "bind"
      OBVIOUS
    <3>1. i + 1 \in DOMAIN picker.timers /\ q.timers[i] = picker.timers[i + 1]
      BY <1>3, <1>4, <1>5
    <3>. QED BY <2>1, <3>1
  <2>. QED BY <1>3, <1>4, <2>1, <2>2, <2>3
<1>8. LockFollowsOpen(q)
  BY <1>2, <1>3, <1>4 DEF LockOf, LockFollowsOpen
<1>9. ScrollbarWidth(q) = ScrollbarWidth(picker)
  BY <1>3, <1>4 DEF ScrollbarWidth
<1>10. PadFollowsOpen(q)
  BY <1>2, <1>3, <1>4, <1>9 DEF LockOf, PadFollowsOpen
<1>11. LockOf(q)
  BY <1>6, <1>7, <1>8, <1>10 DEF LockOf
<1>. QED BY <1>1, <1>11 DEF LockInv

\* stop leaves only the timeouts that take the handlers away.
LEMMA StopPickerKeeps ==
  ASSUME LockInv, StopPicker
  PROVE  LockInv'
<1>. DEFINE p == Closing(picker, FALSE)
            N == Cardinality({k \in DOMAIN p.timers : p.timers[k] = "unbind"})
            q == [p EXCEPT
                   !.started = FALSE, !.opened = FALSE, !.toOpen = FALSE,
                   !.hidden = NoDate, !.moved = FALSE,
                   !.focus = IF @ = "root" THEN "page" ELSE @,
                   !.timers = [i \in 1..N + 1 |-> "unbind"]]
<1>1. LockOf(p) /\ ~p.open
  BY ClosingUnlocks DEF StopPicker, LockInv
<1>. HIDE DEF p
<1>2. DOMAIN p = PickerFields /\ p.timers \in Seq(Timers)
  BY <1>1 DEF LockOf, PickerTyped, Timers
<1>3. picker' = q
  <2>1. picker' = [p EXCEPT
          !.started = FALSE, !.opened = FALSE, !.toOpen = FALSE,
          !.hidden = NoDate, !.moved = FALSE,
          !.focus = IF @ = "root" THEN "page" ELSE @,
          !.timers = [i \in 1..Cardinality({k \in DOMAIN @ : @[k] = "unbind"}) + 1 |->
                        "unbind"]]
    BY DEF StopPicker, p
  <2>. QED BY <1>2, <2>1 DEF PickerFields
<1>4. N \in Nat
  <2>1. IsFiniteSet(1..Len(p.timers))
    BY <1>2, FS_Interval, LenProperties
  <2>2. {k \in DOMAIN p.timers : p.timers[k] = "unbind"} \subseteq 1..Len(p.timers)
    BY <1>2
  <2>3. IsFiniteSet({k \in DOMAIN p.timers : p.timers[k] = "unbind"})
    BY <2>1, <2>2, FS_Subset
  <2>. QED BY <2>3, FS_CardinalityType
<1>. HIDE DEF N
<1>5. /\ DOMAIN q = PickerFields
      /\ q.started = FALSE /\ q.open = p.open /\ q.locked = p.locked
      /\ q.listening = p.listening /\ q.toOpen = FALSE
      /\ q.timers = [i \in 1..N + 1 |-> "unbind"]
      /\ q.tall = p.tall /\ q.resized = p.resized /\ q.pad = p.pad
  BY <1>2 DEF PickerFields
<1>. HIDE DEF q
<1>6. /\ q.timers \in Seq(Timers)
      /\ \A i \in DOMAIN q.timers : q.timers[i] # "bind"
  <2>1. "unbind" \in Timers /\ N + 1 \in Nat
    BY <1>4 DEF Timers
  <2>2. q.timers \in Seq(Timers)
    BY <1>5, <2>1, SeqDef
  <2>3. \A i \in DOMAIN q.timers : q.timers[i] # "bind"
    BY <1>5
  <2>. QED BY <2>2, <2>3
<1>7. PickerTyped(q)
  BY <1>1, <1>5, <1>6 DEF LockOf, PickerTyped, Timers
<1>8. IdleUnlessStarted(q)
  BY <1>1, <1>5, <1>6 DEF IdleUnlessStarted
<1>9. LockFollowsOpen(q)
  BY <1>1, <1>5 DEF LockOf, LockFollowsOpen
<1>10. ScrollbarWidth(q) = ScrollbarWidth(p)
  BY <1>5 DEF ScrollbarWidth
<1>11. PadFollowsOpen(q)
  BY <1>1, <1>5, <1>10 DEF LockOf, PadFollowsOpen
<1>12. LockOf(q)
  BY <1>7, <1>8, <1>9, <1>11 DEF LockOf
<1>. QED BY <1>3, <1>12 DEF LockInv

\* A step that moves only the focus and the value.
LEMMA FocusLocks ==
  ASSUME NEW p, NEW f, LockOf(p)
  PROVE  /\ LockOf([p EXCEPT !.focus = f]) /\ LockOf([p EXCEPT !.value = f])
         /\ LockOf([p EXCEPT !.stray = f])
<1>. DEFINE q == [p EXCEPT !.focus = f]
            r == [p EXCEPT !.value = f]
            t == [p EXCEPT !.stray = f]
<1>1. DOMAIN p = PickerFields
  BY DEF LockOf, PickerTyped
<1>2. /\ DOMAIN q = DOMAIN p
      /\ q.started = p.started /\ q.open = p.open /\ q.locked = p.locked
      /\ q.listening = p.listening /\ q.toOpen = p.toOpen /\ q.timers = p.timers
      /\ q.tall = p.tall /\ q.resized = p.resized /\ q.pad = p.pad
  BY <1>1 DEF PickerFields
<1>3. /\ DOMAIN r = DOMAIN p
      /\ r.started = p.started /\ r.open = p.open /\ r.locked = p.locked
      /\ r.listening = p.listening /\ r.toOpen = p.toOpen /\ r.timers = p.timers
      /\ r.tall = p.tall /\ r.resized = p.resized /\ r.pad = p.pad
  BY <1>1 DEF PickerFields
<1>6. /\ DOMAIN t = DOMAIN p
      /\ t.started = p.started /\ t.open = p.open /\ t.locked = p.locked
      /\ t.listening = p.listening /\ t.toOpen = p.toOpen /\ t.timers = p.timers
      /\ t.tall = p.tall /\ t.resized = p.resized /\ t.pad = p.pad
  BY <1>1 DEF PickerFields
<1>. HIDE DEF q, r, t
<1>4. LockOf(q)
  BY <1>2, SameLock
<1>5. LockOf(r)
  BY <1>3, SameLock
<1>7. LockOf(t)
  BY <1>6, SameLock
<1>. QED BY <1>4, <1>5, <1>7 DEF q, r, t

\* start.
LEMMA StartPickerKeeps ==
  ASSUME LockInv, StartPicker
  PROVE  LockInv'
<1>1. ~picker.started /\ ~picker.open
  BY DEF StartPicker, LockInv, LockOf, IdleUnlessStarted
<1>2. PICK c : picker' = Started(picker, c)
  BY DEF StartPicker, StartWith
<1>. QED BY <1>1, <1>2, StartedLocks DEF LockInv

\* A click on the input, bound or not.
LEMMA ClickElementKeeps ==
  ASSUME LockInv, ClickElement
  PROVE  LockInv'
<1>1. CASE picker.started /\ picker.bound
  BY <1>1, FocusRootLocks DEF ClickElement, LockInv
<1>2. CASE ~(picker.started /\ picker.bound)
  <2>1. picker' = [picker EXCEPT !.focus = "element"]
    BY <1>2 DEF ClickElement
  <2>. QED BY <2>1, FocusLocks DEF LockInv
<1>. QED BY <1>1, <1>2

\* The document listens only while the picker is open.
LEMMA LeavePickerKeeps ==
  ASSUME LockInv, LeavePicker
  PROVE  LockInv'
<1>. DEFINE p == IF picker.listening THEN Closing(picker, FALSE) ELSE picker
<1>1. picker' = [p EXCEPT !.focus = "page"]
  BY DEF LeavePicker
<1>2. LockOf(p)
  <2>1. CASE picker.listening
    <3>1. picker.started
      BY <2>1 DEF LockInv, LockOf, LockFollowsOpen, IdleUnlessStarted, PickerTyped
    <3>. QED BY <2>1, <3>1, ClosingUnlocks DEF LockInv
  <2>2. CASE ~picker.listening
    BY <2>2 DEF LockInv
  <2>. QED BY <2>1, <2>2
<1>. HIDE DEF p
<1>. QED BY <1>1, <1>2, FocusLocks DEF LockInv

\* A click on the holder opens and closes at once.
LEMMA ClickHolderKeeps ==
  ASSUME LockInv, ClickHolder
  PROVE  LockInv'
<1>. DEFINE p == IF picker.focus = "root" THEN picker ELSE FocusRoot(picker)
<1>1. picker' = IF p.listening THEN Closing(p, TRUE) ELSE p
  BY DEF ClickHolder
<1>2. LockOf(p) /\ p.started
  BY FocusRootLocks DEF ClickHolder, Usable, LockInv
<1>. HIDE DEF p
<1>. QED BY <1>1, <1>2, ClosingUnlocks DEF LockInv

\* The button Clear.
LEMMA ClickClearKeeps ==
  ASSUME LockInv, ClickClear
  PROVE  LockInv'
<1>. DEFINE p == FocusRoot(picker)
            q == Written(p, NoDate)
            r == Closing(q, TRUE)
<1>1. picker' = Drawn(r, cal)
  BY DEF ClickClear, ClearWith
<1>2. LockOf(p) /\ p.started
  BY FocusRootLocks DEF ClickClear, Usable, LockInv
<1>. HIDE DEF p
<1>3. LockOf(q) /\ q.started
  BY <1>2, WrittenLocks
<1>. HIDE DEF q
<1>4. LockOf(r)
  BY <1>3, ClosingUnlocks
<1>. HIDE DEF r
<1>. QED BY <1>1, <1>4, DrawnLocks DEF LockInv

\* The button Close.
LEMMA ClickCloseKeeps ==
  ASSUME LockInv, ClickClose
  PROVE  LockInv'
<1>1. LockOf(FocusRoot(picker)) /\ FocusRoot(picker).started
  BY FocusRootLocks DEF ClickClose, Usable, LockInv
<1>. QED BY <1>1, ClosingUnlocks DEF ClickClose, LockInv

\* Whatever is selected.
LEMMA SelectLocks ==
  ASSUME NEW p, NEW d, LockOf(p), SelectWith(p, d)
  PROVE  LockInv'
<1>1. PICK c : picker' = Written(Viewed(p, cal, c), c.select)
  BY DEF SelectWith, Picked
<1>2. LockOf(Viewed(p, cal, c))
  BY ViewedLocks
<1>. QED BY <1>1, <1>2, WrittenLocks DEF LockInv

\* Whatever is viewed.
LEMMA ViewLocks ==
  ASSUME NEW p, NEW c, LockOf(p), ViewWith(p, c)
  PROVE  LockInv'
BY ViewedLocks DEF ViewWith, LockInv

\* A day.
LEMMA ClickDayKeeps ==
  ASSUME LockInv, NEW d, ClickDay(d)
  PROVE  LockInv'
<1>1. LockOf(FocusRoot(picker)) /\ SelectWith(FocusRoot(picker), d)
  BY FocusRootLocks DEF ClickDay, Usable, LockInv
<1>. QED BY <1>1, SelectLocks

\* The button Today.
LEMMA ClickTodayKeeps ==
  ASSUME LockInv, ClickToday
  PROVE  LockInv'
<1>1. LockOf(FocusRoot(picker)) /\ SelectWith(FocusRoot(picker), Today)
  BY FocusRootLocks DEF ClickToday, Usable, LockInv
<1>. QED BY <1>1, SelectLocks

\* Enter.
LEMMA PressEnterKeeps ==
  ASSUME LockInv, PressEnter
  PROVE  LockInv'
<1>1. LockOf(Closing(picker, FALSE)) /\ SelectWith(Closing(picker, FALSE), cal.highlight)
  BY ClosingUnlocks DEF PressEnter, HasKeys, Usable, LockInv
<1>. QED BY <1>1, SelectLocks

\* Delete.
LEMMA PressDeleteKeeps ==
  ASSUME LockInv, PressDelete
  PROVE  LockInv'
<1>. DEFINE q == Written(picker, NoDate)
            r == Closing(q, FALSE)
<1>1. picker' = Drawn(r, cal)
  BY DEF PressDelete, ClearWith
<1>2. LockOf(q) /\ q.started
  BY WrittenLocks DEF PressDelete, HasKeys, Usable, LockInv
<1>. HIDE DEF q
<1>3. LockOf(r)
  BY <1>2, ClosingUnlocks
<1>. HIDE DEF r
<1>. QED BY <1>1, <1>3, DrawnLocks DEF LockInv

\* clear, called by the page.
LEMMA CallClearKeeps ==
  ASSUME LockInv, CallClear
  PROVE  LockInv'
<1>. DEFINE q == Written(picker, NoDate)
<1>1. picker' = Drawn(q, cal)
  BY DEF CallClear, ClearWith
<1>2. LockOf(q)
  BY WrittenLocks DEF LockInv
<1>. HIDE DEF q
<1>. QED BY <1>1, <1>2, DrawnLocks DEF LockInv

\* An arrow opens the picker or moves the highlight.
LEMMA PressArrowKeeps ==
  ASSUME LockInv, NEW i, PressArrow(i)
  PROVE  LockInv'
<1>1. CASE picker' = Opening(picker)
  BY <1>1, OpeningLocks DEF PressArrow, HasKeys, Usable, LockInv
<1>2. CASE ~(picker' = Opening(picker))
  <2>1. ViewWith(picker, SetHighlight(cal, cal.highlight + i, 0, i))
    BY <1>2 DEF PressArrow
  <2>. QED BY <2>1, ViewLocks DEF LockInv
<1>. QED BY <1>1, <1>2

\* New limits or dates disabled.
LEMMA ChangeKeeps ==
  ASSUME LockInv, NEW c, Change(c)
  PROVE  LockInv'
<1>. DEFINE p == Viewed(picker, cal, c)
<1>1. picker' = [p EXCEPT !.moved = p.moved \/ c.select # cal.select]
  <2>1. picker' = [p EXCEPT !.moved = @ \/ c.select # cal.select]
    BY DEF Change
  <2>. QED BY <2>1
<1>2. LockOf(p)
  BY ViewedLocks DEF LockInv
<1>. HIDE DEF p
<1>. DEFINE x == p.moved \/ c.select # cal.select
            q == [p EXCEPT !.moved = x]
<1>3. picker' = q
  BY <1>1
<1>. HIDE DEF x
<1>4. DOMAIN p = PickerFields
  BY <1>2 DEF LockOf, PickerTyped
<1>5. /\ DOMAIN q = DOMAIN p
      /\ q.started = p.started /\ q.open = p.open /\ q.locked = p.locked
      /\ q.listening = p.listening /\ q.toOpen = p.toOpen /\ q.timers = p.timers
      /\ q.tall = p.tall /\ q.resized = p.resized /\ q.pad = p.pad
  BY <1>4 DEF PickerFields
<1>. HIDE DEF q
<1>. QED BY <1>2, <1>3, <1>5, SameLock DEF LockInv

\* The scrollbar comes or goes.
LEMMA ResizeKeeps ==
  ASSUME LockInv, Resize
  PROVE  LockInv'
<1>. DEFINE q == [picker EXCEPT !.tall = ~picker.tall, !.resized = picker.open]
<1>1. picker' = q /\ ~picker.resized
  <2>1. picker' = [picker EXCEPT !.tall = ~@, !.resized = picker.open]
    BY DEF Resize
  <2>. QED BY <2>1 DEF Resize
<1>2. LockOf(picker) /\ DOMAIN picker = PickerFields
  BY DEF LockInv, LockOf, PickerTyped
<1>3. /\ DOMAIN q = PickerFields
      /\ q.started = picker.started /\ q.open = picker.open /\ q.locked = picker.locked
      /\ q.listening = picker.listening /\ q.toOpen = picker.toOpen
      /\ q.timers = picker.timers
      /\ q.tall = ~picker.tall /\ q.resized = picker.open /\ q.pad = picker.pad
  BY <1>2 DEF PickerFields
<1>. HIDE DEF q
<1>4. PickerTyped(q)
  <2>1. q.tall \in BOOLEAN
    BY <1>3
  <2>. QED BY <1>2, <1>3, <2>1 DEF LockOf, PickerTyped
<1>5. IdleUnlessStarted(q)
  BY <1>2, <1>3 DEF LockOf, IdleUnlessStarted
<1>6. LockFollowsOpen(q)
  BY <1>2, <1>3 DEF LockOf, LockFollowsOpen
<1>7. PadFollowsOpen(q)
  BY <1>1, <1>2, <1>3 DEF LockOf, PadFollowsOpen
<1>8. LockOf(q)
  BY <1>4, <1>5, <1>6, <1>7 DEF LockOf
<1>. QED BY <1>1, <1>8 DEF LockInv

\* Every step of the picker.
LEMMA PickerStep ==
  ASSUME LockInv, UNCHANGED <<picker, cal>> \/ PickerNext
  PROVE  LockInv'
<1>1. CASE UNCHANGED <<picker, cal>>
  BY <1>1, SameLock DEF LockInv
<1>2. CASE Timeout \/ StartPicker \/ StopPicker
  BY <1>2, TimeoutKeeps, StartPickerKeeps, StopPickerKeeps
<1>3. CASE ClickElement \/ LeavePicker \/ ClickHolder \/ ClickClear \/ ClickClose
  BY <1>3, ClickElementKeeps, LeavePickerKeeps, ClickHolderKeeps, ClickClearKeeps,
     ClickCloseKeeps
<1>4. CASE ClickToday \/ Resize
  BY <1>4, ClickTodayKeeps, ResizeKeeps
<1>5. CASE EscapePicker
  BY <1>5, ClosingUnlocks DEF EscapePicker, HasKeys, Usable, LockInv
<1>6. CASE PressSpace
  BY <1>6, OpeningLocks DEF PressSpace, HasKeys, Usable, LockInv
<1>7. CASE PressDelete \/ PressEnter
  BY <1>7, PressDeleteKeeps, PressEnterKeeps
<1>8. ASSUME NEW d \in Dates, ClickDay(d) \/ CallSetSelect(d) PROVE LockInv'
  <2>1. CASE ClickDay(d)
    BY <2>1, ClickDayKeeps
  <2>2. CASE CallSetSelect(d)
    <3>1. SelectWith(picker, d)
      BY <2>2 DEF CallSetSelect
    <3>. QED BY <3>1, SelectLocks DEF LockInv
  <2>. QED BY <1>8, <2>1, <2>2
<1>9. ASSUME NEW d \in {NoDate} \cup Dates, TypeDate(d) PROVE LockInv'
  <2>1. picker' = [picker EXCEPT !.value = d]
    BY <1>9 DEF TypeDate
  <2>. QED BY <2>1, FocusLocks DEF LockInv
<1>10. ASSUME NEW i \in {-Week, -1, 1, Week}, PressArrow(i) PROVE LockInv'
  BY <1>10, PressArrowKeeps
<1>11. ASSUME NEW nv \in {-1, 1}, ClickNav(nv) PROVE LockInv'
  <2>1. ViewWith(FocusRoot(picker), SetHighlight(cal, cal.highlight, nv, 1))
    BY <1>11 DEF ClickNav
  <2>2. LockOf(FocusRoot(picker))
    BY FocusRootLocks DEF LockInv
  <2>. QED BY <2>1, <2>2, ViewLocks
<1>12. ASSUME NEW m \in DOMAIN Months, SelectMonth(m) PROVE LockInv'
  <2>1. ViewWith(picker, ChooseMonth(cal, m))
    BY <1>12 DEF SelectMonth
  <2>. QED BY <2>1, ViewLocks DEF LockInv
<1>13. ASSUME NEW f \in BOOLEAN, CallOpen(f) \/ CallClose(f) PROVE LockInv'
  <2>1. CASE CallOpen(f)
    BY <2>1, OpeningLocks, OpeningUnfocusedLocks DEF CallOpen, Usable, LockInv
  <2>2. CASE CallClose(f)
    BY <2>2, ClosingUnlocks DEF CallClose, Usable, LockInv
  <2>. QED BY <1>13, <2>1, <2>2
<1>14. CASE CallSetLimit
  <2>1. PICK c : Change(c)
    BY <1>14 DEF CallSetLimit
  <2>. QED BY <2>1, ChangeKeeps
<1>15. CASE CallSetDisabled
  <2>1. PICK c : Change(c)
    BY <1>15 DEF CallSetDisabled
  <2>. QED BY <2>1, ChangeKeeps
<1>16. CASE CallClear
  BY <1>16, CallClearKeeps
<1>17. CASE PickerNext
  BY <1>17, <1>2, <1>3, <1>4, <1>5, <1>6, <1>7, <1>8, <1>9, <1>10, <1>11, <1>12,
     <1>13, <1>14, <1>15, <1>16 DEF PickerNext
<1>. QED BY <1>1, <1>17

-----------------------------------------------------------------------------
(* The carousel.                                                           *)

\* Division leaves a remainder.
LEMMA DivMod ==
  ASSUME NEW x \in Int, NEW D \in Nat \ {0}
  PROVE  /\ x \div D \in Int /\ x % D \in 0..D - 1
         /\ x = D * (x \div D) + (x % D)
OBVIOUS

\* A multiple that is positive is no less.
LEMMA AtLeast ==
  ASSUME NEW D \in Nat \ {0}, NEW n \in Int, n >= 1
  PROVE  D * n >= D
OBVIOUS

\* Quotient and remainder are found from the sum they make.
LEMMA Unique ==
  ASSUME NEW D \in Nat \ {0}, NEW k \in Int, NEW r \in 0..D - 1
  PROVE  (D * k + r) \div D = k /\ (D * k + r) % D = r
<1> DEFINE x == D * k + r
           q == x \div D
           s == x % D
<1>1. x \in Int /\ q \in Int /\ s \in 0..D-1 /\ x = D * q + s
  BY DivMod
<1>2. D * (k - q) = s - r
  BY <1>1
<1>3. ~(k - q >= 1)
  BY <1>1, <1>2, AtLeast
<1>4. ~(q - k >= 1)
  <2>1. D * (q - k) = r - s
    BY <1>1
  <2>. QED BY <1>1, <2>1, AtLeast
<1>5. q = k
  BY <1>1, <1>3, <1>4
<1>. QED BY <1>1, <1>5

\* x rounds to the multiple it is.
LEMMA Halves ==
  ASSUME NEW D \in Nat \ {0}, NEW k \in Int
  PROVE  (2 * (D * k) + D) \div (2 * D) = k
<1>1. 2 * (D * k) + D = (2 * D) * k + D /\ D \in 0..(2 * D) - 1 /\ 2 * D \in Nat \ {0}
  OBVIOUS
<1>. QED BY <1>1, Unique

\* What leaves no remainder is a multiple.
LEMMA Multiple ==
  ASSUME NEW D \in Nat \ {0}, NEW x \in Int, x % D = 0
  PROVE  \E k \in Int : x = D * k
<1>1. x \div D \in Int /\ x = D * (x \div D)
  BY DivMod
<1>. QED BY <1>1

CarouselFields == {"offset", "target", "moving", "frames", "pressed", "dragged", "vertical",
                   "midway", "asked"}

CarouselTyped(c) ==
  /\ DOMAIN c = CarouselFields
  /\ c.moving \in BOOLEAN /\ c.pressed \in BOOLEAN /\ c.midway \in BOOLEAN
  /\ c.offset \in Int /\ c.target \in Int /\ c.frames \in Nat /\ c.asked \in Int

\* The position x is that of an image, and of the one asked for.
AtImage(x, asked) ==
  x % Dim = 0 /\ (asked # -1 => Wrap(Nearest(x)) = asked)

\* Not pressed, and not sent on from between two images, it is on an image, or on
\* the way to one until the last frame.
HeadsForImage(c) ==
  ~c.pressed /\ ~c.midway =>
    IF c.moving THEN AtImage(c.target, c.asked) /\ (c.frames = 0 => c.offset = c.target)
    ELSE AtImage(c.offset, c.asked)

CarouselOf(c) == CarouselTyped(c) /\ HeadsForImage(c)

CarouselInv == CarouselOf(carousel)

\* Rounding leaves a position on an image where it is,
LEMMA NearestOfMultiple ==
  ASSUME NEW k \in Int
  PROVE  Nearest(Dim * k) = k /\ (Dim * k) % Dim = 0
<1>1. Nearest(Dim * k) = k
  BY CarouselAssumption, Halves DEF Nearest
<1>2. (Dim * k + 0) % Dim = 0
  BY CarouselAssumption, Unique
<1>3. Dim * k + 0 = Dim * k
  BY CarouselAssumption
<1>. QED BY <1>1, <1>2, <1>3

\* and takes any other to an image.
LEMMA NearestInt ==
  ASSUME NEW x \in Int
  PROVE  Nearest(x) \in Int /\ Nearest(x) * Dim \in Int /\ (Nearest(x) * Dim) % Dim = 0
<1>1. 2 * Dim \in Nat \ {0} /\ 2 * x + Dim \in Int /\ Dim \in Int
  BY CarouselAssumption
<1>2. Nearest(x) \in Int
  BY <1>1, DivMod DEF Nearest
<1>3. PICK k \in Int : k = Nearest(x)
  BY <1>2
<1>4. k * Dim = Dim * k /\ k * Dim \in Int
  BY <1>1
<1>5. (Dim * k) % Dim = 0
  BY NearestOfMultiple
<1>. QED BY <1>3, <1>4, <1>5

\* JavaScript's remainder differs from its dividend by a multiple, too.
LEMMA RemainderOff ==
  ASSUME NEW q \in Int
  PROVE  \E t \in Int : Remainder(q) = q - Images * t
<1>0. Images \in Nat \ {0}
  BY CarouselAssumption
<1>1. CASE q < 0
  <2>. DEFINE t == (-q) \div Images
              r == (-q) % Images
  <2>1. -q \in Int /\ t \in Int /\ r \in Int /\ -q = Images * t + r
    BY <1>0, DivMod
  <2>2. Remainder(q) = -r
    BY <1>1 DEF Remainder
  <2>. HIDE DEF t, r
  <2>3. -r = q - Images * (-t)
    BY <1>0, <2>1
  <2>. QED BY <2>1, <2>2, <2>3
<1>2. CASE ~(q < 0)
  <2>. DEFINE t == q \div Images
              r == q % Images
  <2>1. t \in Int /\ r \in Int /\ q = Images * t + r
    BY <1>0, DivMod
  <2>2. Remainder(q) = r
    BY <1>2 DEF Remainder
  <2>. HIDE DEF t, r
  <2>3. r = q - Images * t
    BY <1>0, <2>1
  <2>. QED BY <2>1, <2>2, <2>3
<1>. QED BY <1>1, <1>2

\* Going back by Difference ends on the image, whichever way round.
LEMMA DifferenceReaches ==
  ASSUME NEW image \in ImageIds, NEW q \in Int, carousel.offset = Dim * q
  PROVE  Difference(image) \in Int /\ Wrap(q - Difference(image)) = image
<1>0. Images \in Nat \ {0} /\ image \in 0..Images - 1
  BY CarouselAssumption DEF ImageIds
<1>1. PICK t \in Int : Remainder(q) = q - Images * t
  BY RemainderOff
<1>2. Nearest(carousel.offset) = q
  BY NearestOfMultiple
<1>3. PICK d \in Int : d = q - Images * t - image
  BY <1>0
<1>4. \/ Difference(image) = d
      \/ Difference(image) = d + Images
      \/ Difference(image) = d - Images
  <2>1. Remainder(Nearest(carousel.offset)) - image = d
    BY <1>1, <1>2, <1>3
  <2>. QED BY <2>1 DEF Difference
<1>5. PICK m \in Int : Difference(image) \in Int /\ q - Difference(image) = Images * m + image
  <2>1. CASE Difference(image) = d
    <3>1. q - Difference(image) = Images * t + image
      BY <1>0, <1>3, <2>1
    <3>. QED BY <2>1, <3>1
  <2>2. CASE Difference(image) = d + Images
    <3>1. q - Difference(image) = Images * (t - 1) + image
      BY <1>0, <1>3, <2>2
    <3>2. Difference(image) \in Int /\ t - 1 \in Int
      BY <1>0, <2>2
    <3>. QED BY <3>1, <3>2
  <2>3. CASE Difference(image) = d - Images
    <3>1. q - Difference(image) = Images * (t + 1) + image
      BY <1>0, <1>3, <2>3
    <3>2. Difference(image) \in Int /\ t + 1 \in Int
      BY <1>0, <2>3
    <3>. QED BY <3>1, <3>2
  <2>. QED BY <1>4, <2>1, <2>2, <2>3
<1>6. (Images * m + image) % Images = image
  BY <1>0, Unique
<1>. QED BY <1>5, <1>6 DEF Wrap

\* carouselNext and carouselPrev by n, and to an image.
LEMMA SentHeads ==
  ASSUME CarouselInv, NEW n \in Int, NEW image \in Int,
         \A q \in Int : carousel.offset = Dim * q /\ image # -1 => Wrap(q + n) = image
  PROVE  CarouselOf(Sent(n, image))
<1>. DEFINE c == Sent(n, image)
<1>1. DOMAIN carousel = CarouselFields /\ carousel.offset \in Int /\ carousel.frames \in Nat
      /\ carousel.pressed \in BOOLEAN
  BY DEF CarouselInv, CarouselOf, CarouselTyped
<1>2. /\ DOMAIN c = CarouselFields /\ c.pressed = carousel.pressed
      /\ c.offset = carousel.offset /\ c.target = carousel.offset + Dim * n
      /\ c.moving = TRUE /\ c.frames = carousel.frames + 1 /\ c.asked = image
      /\ c.midway = (carousel.offset % Dim # 0)
  BY <1>1 DEF Sent, CarouselFields
<1>. HIDE DEF c
<1>3. Dim \in Nat \ {0} /\ c.target \in Int /\ c.frames \in Nat /\ c.frames # 0
  BY <1>1, <1>2, CarouselAssumption
<1>4. c.moving \in BOOLEAN /\ c.pressed \in BOOLEAN /\ c.midway \in BOOLEAN
  BY <1>1, <1>2
<1>5. CarouselTyped(c)
  BY <1>1, <1>2, <1>3, <1>4 DEF CarouselTyped
<1>6. ASSUME ~c.midway PROVE AtImage(c.target, c.asked)
  <2>1. carousel.offset % Dim = 0
    BY <1>2, <1>6
  <2>2. PICK q \in Int : carousel.offset = Dim * q
    BY <1>1, <1>3, <2>1, Multiple
  <2>3. c.target = Dim * (q + n) /\ q + n \in Int
    BY <1>2, <1>3, <2>2
  <2>4. Nearest(c.target) = q + n /\ c.target % Dim = 0
    BY <2>3, NearestOfMultiple
  <2>. QED BY <1>2, <2>2, <2>4 DEF AtImage
<1>7. HeadsForImage(c)
  BY <1>2, <1>3, <1>6 DEF HeadsForImage
<1>. QED BY <1>5, <1>7 DEF CarouselOf, c

\* Every step of the carousel.
LEMMA CarouselStep ==
  ASSUME CarouselInv, UNCHANGED carousel \/ CarouselNext
  PROVE  CarouselInv'
<1>. DEFINE c == carousel
            d == carousel'
<1>0. /\ DOMAIN c = CarouselFields /\ c.offset \in Int /\ c.target \in Int /\ c.frames \in Nat
      /\ c.asked \in Int
      /\ c.moving \in BOOLEAN /\ c.pressed \in BOOLEAN /\ c.midway \in BOOLEAN
      /\ HeadsForImage(c)
  BY DEF CarouselInv, CarouselOf, CarouselTyped
<1>1. CASE UNCHANGED carousel
  BY <1>1 DEF CarouselInv
<1>2. CASE Tap
  <2>1. /\ DOMAIN d = CarouselFields /\ d.pressed = TRUE /\ d.moving = FALSE /\ d.asked = -1
        /\ d.offset = c.offset /\ d.target = c.target /\ d.frames = c.frames
        /\ d.midway = c.midway
    BY <1>0, <1>2 DEF Tap, CarouselFields
  <2>2. d.moving \in BOOLEAN /\ d.pressed \in BOOLEAN /\ d.midway \in BOOLEAN
    BY <1>0, <2>1, Zenon
  <2>3. d.offset \in Int /\ d.target \in Int /\ d.frames \in Nat /\ d.asked \in Int
    BY <1>0, <2>1
  <2>4. CarouselTyped(d)
    BY <2>1, <2>2, <2>3, Zenon DEF CarouselTyped
  <2>5. HeadsForImage(d)
    BY <2>1 DEF HeadsForImage
  <2>. QED BY <2>4, <2>5 DEF CarouselInv, CarouselOf
<1>3. ASSUME NEW delta \in {-1, 0, 1}, Drag(delta) PROVE CarouselInv'
  <2>0. \/ carousel' = [carousel EXCEPT !.vertical = TRUE]
        \/ carousel' = [carousel EXCEPT !.dragged = TRUE, !.offset = @ + delta]
    BY <1>3 DEF Drag
  <2>1. /\ DOMAIN d = CarouselFields /\ d.pressed = c.pressed /\ d.moving = c.moving
        /\ d.asked = c.asked /\ (d.offset = c.offset \/ d.offset = c.offset + delta)
        /\ d.target = c.target /\ d.frames = c.frames /\ d.midway = c.midway
    BY <1>0, <2>0 DEF CarouselFields
  <2>2. d.moving \in BOOLEAN /\ d.pressed \in BOOLEAN /\ d.midway \in BOOLEAN
    BY <1>0, <2>1, Zenon
  <2>3. d.offset \in Int /\ d.target \in Int /\ d.frames \in Nat /\ d.asked \in Int
    BY <1>0, <2>1
  <2>4. CarouselTyped(d)
    BY <2>1, <2>2, <2>3, Zenon DEF CarouselTyped
  <2>5. c.pressed = TRUE
    BY <1>0, <1>3 DEF Drag
  <2>6. d.pressed
    BY <2>1, <2>5
  <2>7. HeadsForImage(d)
    BY <2>6 DEF HeadsForImage
  <2>. QED BY <2>4, <2>7 DEF CarouselInv, CarouselOf
<1>4. ASSUME NEW fling \in {-Dim, 0, Dim}, Release(fling) PROVE CarouselInv'
  <2>. DEFINE target == Nearest(c.offset + fling) * Dim
  <2>1. c.offset + fling \in Int
    BY <1>0, CarouselAssumption
  <2>2. target \in Int /\ target % Dim = 0
    BY <2>1, NearestInt
  <2>3. /\ DOMAIN d = CarouselFields /\ d.pressed = FALSE /\ d.target = target
        /\ d.moving = (target # c.offset) /\ d.asked = -1
        /\ d.offset = c.offset /\ d.frames = c.frames + 1 /\ d.midway = FALSE
    BY <1>0, <1>4 DEF Release, CarouselFields
  <2>. HIDE DEF target
  <2>4. d.frames \in Nat /\ d.frames # 0 /\ d.asked \in Int
    BY <1>0, <2>3
  <2>5. d.moving \in BOOLEAN /\ d.pressed \in BOOLEAN /\ d.midway \in BOOLEAN
    BY <2>3
  <2>6. CarouselTyped(d)
    BY <1>0, <2>2, <2>3, <2>4, <2>5 DEF CarouselTyped
  <2>7. AtImage(target, d.asked)
    BY <2>2, <2>3 DEF AtImage
  <2>8. HeadsForImage(d)
    BY <2>3, <2>4, <2>7 DEF HeadsForImage
  <2>. QED BY <2>6, <2>8 DEF CarouselInv, CarouselOf
<1>5. ASSUME NEW n \in {-2, -1, 1, 2}, CarouselSend(n) PROVE CarouselInv'
  <2>1. carousel' = Sent(n, -1)
    BY <1>5 DEF CarouselSend
  <2>2. CarouselOf(Sent(n, -1))
    BY SentHeads
  <2>. QED BY <2>1, <2>2 DEF CarouselInv
<1>6. ASSUME NEW image \in ImageIds, ClickImage(image) PROVE CarouselInv'
  <2>. DEFINE diff == Difference(image)
  <2>1. CASE UNCHANGED carousel
    BY <2>1 DEF CarouselInv
  <2>2. CASE carousel' = Sent(-diff, image)
    <3>1. image \in Int
      BY CarouselAssumption DEF ImageIds
    <3>2. CASE \E q \in Int : c.offset = Dim * q
      <4>1. PICK q \in Int : c.offset = Dim * q
        BY <3>2
      <4>2. diff \in Int /\ Wrap(q - diff) = image
        BY <4>1, DifferenceReaches
      <4>. HIDE DEF diff
      <4>3. \A p \in Int : c.offset = Dim * p => p = q
        BY <4>1, NearestOfMultiple
      <4>4. q + (-diff) = q - diff /\ -diff \in Int
        BY <4>2
      <4>5. \A p \in Int : c.offset = Dim * p /\ image # -1 => Wrap(p + (-diff)) = image
        BY <4>2, <4>3, <4>4
      <4>6. CarouselOf(Sent(-diff, image))
        BY <3>1, <4>4, <4>5, SentHeads
      <4>. QED BY <2>2, <4>6 DEF CarouselInv
    <3>3. CASE ~\E q \in Int : c.offset = Dim * q
      <4>1. Nearest(c.offset) \in Int
        BY <1>0, NearestInt
      <4>2. PICK t \in Int : Remainder(Nearest(c.offset)) = Nearest(c.offset) - Images * t
        BY <4>1, RemainderOff
      <4>3. PICK e \in Int : e = Nearest(c.offset) - Images * t - image
        BY <3>1, <4>1, CarouselAssumption
      <4>4. diff = e \/ diff = e + Images \/ diff = e - Images
        <5>1. Remainder(Nearest(c.offset)) - image = e
          BY <4>2, <4>3
        <5>. QED BY <5>1 DEF Difference
      <4>. HIDE DEF diff
      <4>5. -diff \in Int
        BY <4>4, CarouselAssumption
      <4>6. CarouselOf(Sent(-diff, image))
        BY <3>1, <3>3, <4>5, SentHeads
      <4>. QED BY <2>2, <4>6 DEF CarouselInv
    <3>. QED BY <3>2, <3>3
  <2>. QED BY <1>6, <2>1, <2>2 DEF ClickImage
<1>7. ASSUME NEW offset \in -MaxOffset..MaxOffset, AutoScroll(offset) PROVE CarouselInv'
  <2>0. offset \in Int /\ c.frames > 0
    BY <1>7, CarouselAssumption DEF AutoScroll
  <2>1. CASE c.moving
    <3>1. /\ DOMAIN d = CarouselFields /\ d.pressed = c.pressed /\ d.moving = c.moving
          /\ d.asked = c.asked /\ d.offset = offset /\ d.midway = c.midway
          /\ d.target = c.target
          /\ d.frames = IF offset = c.target THEN c.frames - 1 ELSE c.frames
      BY <1>0, <1>7, <2>1 DEF AutoScroll, CarouselFields
    <3>2. d.frames \in Nat /\ (d.frames = 0 => d.offset = d.target)
      BY <1>0, <2>0, <3>1
    <3>3. CarouselTyped(d)
      BY <1>0, <2>0, <3>1, <3>2 DEF CarouselTyped
    <3>4. HeadsForImage(d)
      BY <1>0, <2>1, <3>1, <3>2 DEF HeadsForImage
    <3>. QED BY <3>3, <3>4 DEF CarouselInv, CarouselOf
  <2>2. CASE ~c.moving
    <3>1. /\ DOMAIN d = CarouselFields /\ d.pressed = c.pressed /\ d.moving = c.moving
          /\ d.asked = c.asked /\ d.offset = c.offset /\ d.midway = c.midway
          /\ d.target = c.target /\ d.frames = c.frames - 1
      BY <1>0, <1>7, <2>2 DEF AutoScroll, CarouselFields
    <3>2. d.frames \in Nat
      BY <1>0, <2>0, <3>1
    <3>3. CarouselTyped(d)
      BY <1>0, <3>1, <3>2 DEF CarouselTyped
    <3>4. HeadsForImage(d)
      BY <1>0, <2>2, <3>1 DEF HeadsForImage
    <3>. QED BY <3>3, <3>4 DEF CarouselInv, CarouselOf
  <2>. QED BY <2>1, <2>2
<1>. QED BY <1>1, <1>2, <1>3, <1>4, <1>5, <1>6, <1>7 DEF CarouselNext

\* The carousel is on its first image.
LEMMA CarouselInitially == CarouselInit => CarouselInv
<1>. SUFFICES ASSUME CarouselInit PROVE CarouselInv
  OBVIOUS
<1>1. /\ DOMAIN carousel = CarouselFields /\ carousel.pressed = FALSE
      /\ carousel.moving = FALSE /\ carousel.midway = FALSE
      /\ carousel.offset = 0 /\ carousel.target = 0 /\ carousel.frames = 0
      /\ carousel.asked = -1
  BY DEF CarouselInit, CarouselFields
<1>2. CarouselTyped(carousel)
  <2>1. carousel.offset \in Int /\ carousel.target \in Int /\ carousel.frames \in Nat
        /\ carousel.asked \in Int
    BY <1>1
  <2>2. carousel.moving \in BOOLEAN /\ carousel.pressed \in BOOLEAN
        /\ carousel.midway \in BOOLEAN
    BY <1>1, Zenon
  <2>. QED BY <1>1, <2>1, <2>2, Zenon DEF CarouselTyped
<1>3. 0 % Dim = 0
  <2>1. Dim * 0 = 0
    BY CarouselAssumption
  <2>. QED BY <2>1, NearestOfMultiple
<1>4. AtImage(carousel.offset, carousel.asked)
  BY <1>1, <1>3 DEF AtImage
<1>5. HeadsForImage(carousel)
  BY <1>1, <1>4 DEF HeadsForImage
<1>. QED BY <1>2, <1>5 DEF CarouselInv, CarouselOf

\* On an image at the end.
LEMMA CarouselInvRests == CarouselInv => CarouselRests
<1>. SUFFICES ASSUME CarouselInv, carousel.frames = 0, ~carousel.pressed, ~carousel.midway
              PROVE  AtImage(carousel.offset, carousel.asked)
  BY DEF CarouselRests, AtImage
<1>. QED BY DEF CarouselInv, CarouselOf, HeadsForImage

-----------------------------------------------------------------------------
(* What a panel, a tab, the floating menu and a card show.                 *)

\* The open panels are those that slide open, of an accordion one at most.
ListInv ==
  /\ DOMAIN list = {"accordion", "header", "panel", "body", "sliding"}
  /\ list.body = list.panel
  /\ list.accordion =>
       list.panel = list.header /\ \A i, j \in list.header : i = j

TabsInv ==
  /\ DOMAIN tabs = {"active", "index", "content", "shown", "disabled", "left", "right",
                    "moves"}
  /\ tabs.active = {tabs.index} /\ tabs.shown = {tabs.index}
  /\ tabs.content = tabs.index

\* The last animation queued shows what was asked for.
FabInv ==
  /\ DOMAIN fab = {"active", "queue", "shown"}
  /\ fab.active \in BOOLEAN /\ fab.shown \in BOOLEAN
  /\ fab.queue \in Seq({"show", "hide"})
  /\ IF fab.queue = <<>> THEN fab.shown = fab.active
     ELSE fab.active = (fab.queue[Len(fab.queue)] = "show")

\* An animation that hides runs only after a request to hide.
CardInv ==
  /\ DOMAIN card = {"asked", "display", "hiding"}
  /\ card.asked \in BOOLEAN /\ card.display \in BOOLEAN /\ card.hiding \in Nat
  /\ IF card.hiding = 0 THEN card.display = card.asked ELSE ~card.asked

ListNext == \E i \in 1..Panels : ClickHeader(i) \/ PanelSlid(i)

TabsNext ==
  \/ \E i \in 1..Panels : ClickTab(i)
  \/ \E i \in 1..Panels, edge \in {"left", "right"} : IndicatorMoved(edge, i)
  \/ ResizeTabs

FabNext == OpenFAB \/ CloseFAB \/ FabAnimated

CardNext == RevealCard \/ HideCard \/ CardHidden

\* Menus, panels, tabs, the floating menu and the card leave one another alone.
LEMMA ShowingFrame ==
  ASSUME MenusNext
  PROVE  /\ UNCHANGED list \/ ListNext
         /\ UNCHANGED tabs \/ TabsNext
         /\ UNCHANGED fab \/ FabNext
         /\ UNCHANGED card \/ CardNext
<1>1. ASSUME DropNext PROVE UNCHANGED <<list, tabs, fab, card>>
  BY <1>1 DEF DropNext, ClickDropdown, DropdownFaded, TriggerDropdown, ClickElsewhere,
              MovePointer, TriggerHover
<1>2. ASSUME SelectNext PROVE UNCHANGED <<list, tabs, fab, card>>
  BY <1>2 DEF SelectNext, LeaveSelects, FocusSelect, ClickSelect, SelectFaded, EnterKey,
              ChooseOption, ClickHeading, SelectKey, LetterKey, HoverOptions,
              RebuildSelect, SelectVars
<1>3. ASSUME ListNext PROVE UNCHANGED <<tabs, fab, card>>
  BY <1>3 DEF ListNext, ClickHeader, PanelSlid
<1>4. ASSUME TabsNext PROVE UNCHANGED <<list, fab, card>>
  BY <1>4 DEF TabsNext, ClickTab, IndicatorMoved, ResizeTabs
<1>5. PanelNext => ListNext \/ TabsNext
  BY DEF PanelNext, ListNext, TabsNext
<1>6. ASSUME FabNext PROVE UNCHANGED <<list, tabs, card>>
  BY <1>6 DEF FabNext, OpenFAB, CloseFAB, FabAnimated
<1>7. ASSUME CardNext PROVE UNCHANGED <<list, tabs, fab>>
  BY <1>7 DEF CardNext, RevealCard, HideCard, CardHidden
<1>. QED BY <1>1, <1>2, <1>3, <1>4, <1>5, <1>6, <1>7 DEF MenusNext, FabNext, CardNext

\* Every step of a collapsible list,
LEMMA ListStep ==
  ASSUME ListInv, UNCHANGED list \/ ListNext
  PROVE  ListInv'
<1>1. CASE UNCHANGED list
  BY <1>1 DEF ListInv
<1>2. ASSUME NEW i \in 1..Panels, ClickHeader(i) PROVE ListInv'
  <2>. DEFINE toggled == IF i \in list.header THEN list.header \ {i} ELSE list.header \cup {i}
              header == IF list.accordion THEN toggled \cap {i} ELSE toggled
              body == (list.body \ {i}) \cup ({i} \cap header)
  <2>1. DOMAIN list = {"accordion", "header", "panel", "body", "sliding"}
        /\ list.body = list.panel
    BY DEF ListInv
  <2>2. /\ DOMAIN list' = DOMAIN list /\ list'.accordion = list.accordion
        /\ list'.header = header
        /\ list'.panel = IF list.accordion THEN header ELSE body
        /\ list'.body = IF list.accordion THEN header ELSE body
    BY <1>2, <2>1 DEF ClickHeader
  <2>3. list.accordion => \A j, k \in header : j = k
    OBVIOUS
  <2>. HIDE DEF header, body
  <2>. QED BY <2>1, <2>2, <2>3 DEF ListInv
<1>3. ASSUME NEW i \in 1..Panels, PanelSlid(i) PROVE ListInv'
  BY <1>3 DEF ListInv, PanelSlid
<1>. QED BY <1>1, <1>2, <1>3 DEF ListNext

\* of the tabs,
LEMMA TabsStep ==
  ASSUME TabsInv, UNCHANGED tabs \/ TabsNext
  PROVE  TabsInv'
<1>1. CASE UNCHANGED tabs
  BY <1>1 DEF TabsInv
<1>2. ASSUME NEW i \in 1..Panels, ClickTab(i) PROVE TabsInv'
  BY <1>2 DEF TabsInv, ClickTab
<1>3. ASSUME NEW i \in 1..Panels, NEW edge \in {"left", "right"}, IndicatorMoved(edge, i)
      PROVE  TabsInv'
  BY <1>3 DEF TabsInv, IndicatorMoved
<1>4. CASE ResizeTabs
  BY <1>4 DEF TabsInv, ResizeTabs
<1>. QED BY <1>1, <1>2, <1>3, <1>4 DEF TabsNext

\* of the floating menu: closing it empties the queue,
LEMMA FabStep ==
  ASSUME FabInv, UNCHANGED fab \/ FabNext
  PROVE  FabInv'
<1>. DEFINE q == fab.queue
<1>0. /\ DOMAIN fab = {"active", "queue", "shown"} /\ q \in Seq({"show", "hide"})
      /\ fab.active \in BOOLEAN /\ fab.shown \in BOOLEAN
  BY DEF FabInv
<1>1. CASE UNCHANGED fab
  BY <1>1 DEF FabInv
<1>2. CASE OpenFAB
  <2>1. /\ DOMAIN fab' = {"active", "queue", "shown"} /\ fab'.active = TRUE
        /\ fab'.shown = fab.shown /\ fab'.queue = Append(q, "show")
    BY <1>0, <1>2 DEF OpenFAB
  <2>. HIDE DEF q
  <2>2. /\ Append(q, "show") \in Seq({"show", "hide"}) /\ Append(q, "show") # <<>>
        /\ Append(q, "show")[Len(Append(q, "show"))] = "show"
    BY <1>0, AppendProperties
  <2>3. fab'.queue \in Seq({"show", "hide"}) /\ fab'.queue # <<>>
        /\ fab'.queue[Len(fab'.queue)] = "show"
    BY <2>1, <2>2, Zenon
  <2>. QED BY <1>0, <2>1, <2>3, Zenon DEF FabInv
<1>3. CASE CloseFAB
  <2>1. /\ DOMAIN fab' = {"active", "queue", "shown"} /\ fab'.active = FALSE
        /\ fab'.shown = fab.shown /\ fab'.queue = <<"hide">>
    BY <1>0, <1>3 DEF CloseFAB
  <2>2. /\ <<"hide">> \in Seq({"show", "hide"}) /\ <<"hide">> # <<>>
        /\ <<"hide">>[Len(<<"hide">>)] # "show"
    OBVIOUS
  <2>3. fab'.queue \in Seq({"show", "hide"}) /\ fab'.queue # <<>>
        /\ fab'.queue[Len(fab'.queue)] # "show"
    BY <2>1, <2>2, Zenon
  <2>. QED BY <1>0, <2>1, <2>3, Zenon DEF FabInv
<1>4. CASE FabAnimated
  <2>1. /\ DOMAIN fab' = {"active", "queue", "shown"} /\ fab'.active = fab.active
        /\ fab'.shown = (Head(q) = "show") /\ fab'.queue = Tail(q) /\ q # <<>>
    BY <1>0, <1>4 DEF FabAnimated
  <2>2. fab.active = (q[Len(q)] = "show")
    BY <2>1 DEF FabInv
  <2>. HIDE DEF q
  <2>3. Tail(q) \in Seq({"show", "hide"}) /\ Head(q) = q[1]
    BY <1>0, <2>1
  <2>4. CASE Tail(q) = <<>>
    <3>1. Len(q) = 1
      <4>1. Len(q) \in Nat /\ Len(Tail(q)) = Len(q) - 1
        BY <1>0, <2>1, HeadTailProperties
      <4>2. Len(Tail(q)) = 0
        <5>1. Len(<<>>) = 0
          OBVIOUS
        <5>. QED BY <2>4, <5>1, Zenon
      <4>. QED BY <4>1, <4>2
    <3>2. Head(q) = q[Len(q)]
      BY <2>3, <3>1
    <3>3. fab'.shown = fab.active
      <4>1. (Head(q) = "show") = (q[Len(q)] = "show")
        BY <3>2
      <4>. QED BY <2>1, <2>2, <4>1, Zenon
    <3>4. fab'.shown \in BOOLEAN /\ fab'.queue \in Seq({"show", "hide"})
      BY <1>0, <2>1, <2>3, Zenon
    <3>5. fab'.queue = <<>>
      BY <2>1, <2>4
    <3>. QED BY <1>0, <2>1, <3>3, <3>4, <3>5, Zenon DEF FabInv
  <2>5. CASE Tail(q) # <<>>
    <3>1. Tail(q)[Len(Tail(q))] = q[Len(q)]
      BY <1>0, <2>1, <2>5
    <3>2. fab'.queue # <<>> /\ fab'.active = (fab'.queue[Len(fab'.queue)] = "show")
      BY <2>1, <2>2, <2>5, <3>1, Zenon
    <3>3. fab'.shown \in BOOLEAN /\ fab'.queue \in Seq({"show", "hide"})
          /\ fab'.active \in BOOLEAN
      BY <1>0, <2>1, <2>3, Zenon
    <3>. QED BY <2>1, <3>2, <3>3, Zenon DEF FabInv
  <2>. QED BY <2>4, <2>5
<1>. QED BY <1>1, <1>2, <1>3, <1>4 DEF FabNext

\* and of the card.
LEMMA CardStep ==
  ASSUME CardInv, UNCHANGED card \/ CardNext
  PROVE  CardInv'
<1>0. /\ DOMAIN card = {"asked", "display", "hiding"}
      /\ card.asked \in BOOLEAN /\ card.display \in BOOLEAN /\ card.hiding \in Nat
  BY DEF CardInv
<1>1. CASE UNCHANGED card
  BY <1>1 DEF CardInv
<1>2. CASE RevealCard
  BY <1>2 DEF CardInv, RevealCard
<1>3. CASE HideCard
  <2>1. /\ DOMAIN card' = {"asked", "display", "hiding"} /\ card'.asked = FALSE
        /\ card'.display = card.display /\ card'.hiding = card.hiding + 1
    BY <1>0, <1>3 DEF HideCard
  <2>2. card'.hiding \in Nat /\ card'.hiding # 0
    BY <1>0, <2>1
  <2>. QED BY <1>0, <2>1, <2>2, Zenon DEF CardInv
<1>4. CASE CardHidden
  <2>1. /\ DOMAIN card' = {"asked", "display", "hiding"} /\ card'.asked = card.asked
        /\ card'.display = FALSE /\ card'.hiding = card.hiding - 1 /\ card.hiding > 0
    BY <1>0, <1>4 DEF CardHidden
  <2>2. card'.hiding \in Nat /\ card.hiding # 0
    BY <1>0, <2>1
  <2>3. ~card.asked
    BY <2>2 DEF CardInv
  <2>4. card'.asked = FALSE
    BY <1>0, <2>1, <2>3, Zenon
  <2>. QED BY <2>1, <2>2, <2>4, Zenon DEF CardInv
<1>. QED BY <1>1, <1>2, <1>3, <1>4 DEF CardNext

\* At first an accordion has one panel open at most,
LEMMA ListInitially == ListInit => ListInv
BY DEF ListInit, ListInv

\* one tab is active,
LEMMA TabsInitially == TabsInit => TabsInv
BY DEF TabsInit, TabsInv

\* the floating menu is hidden,
LEMMA FabInitially == FabInit => FabInv
BY DEF FabInit, FabInv

\* and so is the back of the card.
LEMMA CardInitially == CardInit => CardInv
BY DEF CardInit, CardInv

-----------------------------------------------------------------------------
(* The slider.                                                             *)

SliderFields == {"active", "indicator", "interval", "swipeLeft", "swipeRight", "touched",
                 "current", "fades", "swipes", "shown", "hasty"}

SliderTyped(s) ==
  /\ DOMAIN s = SliderFields
  /\ s.swipes \in Nat /\ s.touched \in BOOLEAN /\ s.hasty \in BOOLEAN

OneSlide(s) == \E k \in SlideIds : s.active = {k} /\ s.indicator = {k}

\* Unless the user was hasty, the active slide is shown, and a slide that is swiped
\* out is another one, swiped before the next touch.
SwipedIsAnother(s) ==
  ~s.hasty => /\ s.active \subseteq s.shown
              /\ s.swipes > 0 => s.current \notin s.active /\ ~s.touched

SliderOf(s) == SliderTyped(s) /\ OneSlide(s) /\ SwipedIsAnother(s)

SliderInv == SliderOf(slider)

\* The index of the one active slide.
LEMMA ActiveIndexOf ==
  ASSUME NEW s, NEW k \in SlideIds, s.active = {k}
  PROVE  ActiveIndex(s) = k
<1>1. k \in Int
  BY ScrollAssumption DEF SlideIds
<1>2. Min({k}) = k
  BY <1>1 DEF Min
<1>. QED BY <1>2 DEF ActiveIndex

\* moveToSlide.
LEMMA MoveKeeps ==
  ASSUME NEW s, SliderOf(s), NEW k \in SlideIds, s.active = {k}, NEW index \in Int
  PROVE  LET to == IF index >= Slides THEN 0 ELSE IF index < 0 THEN Slides - 1 ELSE index
             m == MoveToSlide(s, index)
         IN /\ SliderOf(m) /\ m.active = {to} /\ m.swipes = s.swipes
            /\ m.touched = s.touched /\ m.current = s.current
            /\ to # k /\ s.swipes > 0 => m.hasty
<1>. DEFINE to == IF index >= Slides THEN 0 ELSE IF index < 0 THEN Slides - 1 ELSE index
            m == MoveToSlide(s, index)
<1>1. to \in SlideIds
  BY ScrollAssumption DEF SlideIds
<1>2. ActiveIndex(s) = k
  BY ActiveIndexOf
<1>3. DOMAIN s = SliderFields /\ s.indicator = {k}
  BY DEF SliderOf, SliderTyped, OneSlide
<1>. HIDE DEF to
<1>4. CASE k = to
  <2>1. m = s
    BY <1>2, <1>4 DEF MoveToSlide, to
  <2>. QED BY <1>4, <2>1 DEF to
<1>5. CASE k # to
  <2>1. m = [s EXCEPT !.active = (@ \ {k}) \cup {to}, !.indicator = (@ \ {k}) \cup {to},
                      !.fades = @ + 1, !.shown = @ \cup {to},
                      !.hasty = @ \/ s.swipes > 0]
    BY <1>2, <1>5 DEF MoveToSlide, to
  <2>2. /\ DOMAIN m = SliderFields /\ m.active = {to} /\ m.indicator = {to}
        /\ m.shown = s.shown \cup {to} /\ m.hasty = (s.hasty \/ s.swipes > 0)
        /\ m.swipes = s.swipes /\ m.touched = s.touched /\ m.current = s.current
    BY <1>3, <2>1 DEF SliderFields
  <2>. HIDE DEF m
  <2>3. s.swipes \in Nat /\ s.touched \in BOOLEAN /\ s.hasty \in BOOLEAN
    BY DEF SliderOf, SliderTyped
  <2>4. m.touched \in BOOLEAN /\ m.hasty \in BOOLEAN
    BY <2>2, <2>3, Zenon
  <2>5. SliderTyped(m)
    BY <2>2, <2>3, <2>4, Zenon DEF SliderTyped
  <2>6. OneSlide(m)
    BY <1>1, <2>2 DEF OneSlide
  <2>7. s.swipes > 0 => m.hasty
    BY <2>2, Zenon
  <2>8. SwipedIsAnother(m)
    <3>1. m.active \subseteq m.shown
      BY <2>2
    <3>2. m.swipes > 0 => m.hasty
      BY <2>2, <2>7
    <3>. QED BY <3>1, <3>2 DEF SwipedIsAnother
  <2>9. SliderOf(m)
    BY <2>5, <2>6, <2>8 DEF SliderOf
  <2>. QED BY <2>2, <2>7, <2>9 DEF m, to
<1>. QED BY <1>4, <1>5

\* The interval, the indicators and the calls of the page.
LEMMA SliderMoves ==
  ASSUME SliderInv, NEW k \in SlideIds, slider.active = {k}
  PROVE  /\ SliderTick => SliderInv'
         /\ \A i \in SlideIds : ClickIndicator(i) => SliderInv'
         /\ \A step \in Int : StepSlider(step) => SliderInv'
         /\ \A on \in BOOLEAN : RunSlider(on) => SliderInv'
<1>0. k \in Int /\ \A i \in SlideIds : i \in Int
  BY ScrollAssumption DEF SlideIds
<1>1. ActiveIndex(slider) = k
  BY ActiveIndexOf
<1>2. \A index \in Int : SliderOf(MoveToSlide(slider, index))
  BY MoveKeeps DEF SliderInv
<1>3. ASSUME NEW s, SliderOf(s), NEW on
      PROVE  SliderOf([s EXCEPT !.interval = on])
  <2>. DEFINE m == [s EXCEPT !.interval = on]
  <2>1. /\ DOMAIN m = SliderFields /\ m.active = s.active /\ m.indicator = s.indicator
        /\ m.shown = s.shown /\ m.hasty = s.hasty
        /\ m.swipes = s.swipes /\ m.touched = s.touched /\ m.current = s.current
    BY <1>3 DEF SliderOf, SliderTyped, SliderFields
  <2>. HIDE DEF m
  <2>2. SliderTyped(m)
    BY <1>3, <2>1 DEF SliderOf, SliderTyped
  <2>3. OneSlide(m)
    BY <1>3, <2>1 DEF SliderOf, OneSlide
  <2>4. SwipedIsAnother(m)
    BY <1>3, <2>1 DEF SliderOf, SwipedIsAnother
  <2>. QED BY <2>2, <2>3, <2>4 DEF SliderOf, m
<1>4. ASSUME SliderTick PROVE SliderInv'
  BY <1>0, <1>1, <1>2, <1>4 DEF SliderTick, SliderInv
<1>5. ASSUME NEW i \in SlideIds, ClickIndicator(i) PROVE SliderInv'
  BY <1>0, <1>2, <1>3, <1>5 DEF ClickIndicator, SliderInv
<1>6. ASSUME NEW step \in Int, StepSlider(step) PROVE SliderInv'
  BY <1>0, <1>1, <1>2, <1>6 DEF StepSlider, SliderInv
<1>7. ASSUME NEW on \in BOOLEAN, RunSlider(on) PROVE SliderInv'
  BY <1>3, <1>7 DEF RunSlider, SliderInv
<1>. QED BY <1>4, <1>5, <1>6, <1>7

\* A touch shows the slides beside the active one.
LEMMA PanSliderKeeps ==
  ASSUME SliderInv, NEW flag, PanSlider(flag)
  PROVE  SliderInv'
<1>1. PICK shown :
        /\ slider.shown \subseteq shown
        /\ \E left, right, at : slider' =
             [slider EXCEPT !.touched = TRUE, !.interval = FALSE, !.current = at,
                            !.swipeLeft = left, !.swipeRight = right,
                            !.hasty = @ \/ slider.swipes > 0, !.shown = shown]
  <2>. DEFINE at == ActiveIndex(slider)
              left == slider.swipeLeft \/ flag = "left"
              right == slider.swipeRight \/ flag = "right"
              more == (IF left THEN {(at + 1) % Slides} ELSE {})
              rest == (IF right THEN {(at + Slides - 1) % Slides} ELSE {})
  <2>1. slider' = [slider EXCEPT
          !.touched = TRUE, !.interval = FALSE, !.current = at,
          !.swipeLeft = left, !.swipeRight = right,
          !.hasty = @ \/ slider.swipes > 0,
          !.shown = @ \cup more \cup rest]
    BY DEF PanSlider
  <2>. HIDE DEF at, left, right, more, rest
  <2>. DEFINE shown == slider.shown \cup more \cup rest
  <2>2. slider' = [slider EXCEPT
          !.touched = TRUE, !.interval = FALSE, !.current = at,
          !.swipeLeft = left, !.swipeRight = right,
          !.hasty = @ \/ slider.swipes > 0, !.shown = shown]
    BY <2>1
  <2>3. slider.shown \subseteq shown
    OBVIOUS
  <2>. QED BY <2>2, <2>3
<1>2. DOMAIN slider = SliderFields /\ slider.swipes \in Nat
  BY DEF SliderInv, SliderOf, SliderTyped
<1>3. /\ DOMAIN slider' = SliderFields /\ slider'.active = slider.active
      /\ slider'.indicator = slider.indicator /\ slider'.touched = TRUE
      /\ slider'.hasty = (slider.hasty \/ slider.swipes > 0)
      /\ slider'.swipes = slider.swipes /\ slider'.shown = shown
  BY <1>1, <1>2 DEF SliderFields
<1>4. slider'.hasty \in BOOLEAN
  BY <1>3 DEF SliderInv, SliderOf, SliderTyped
<1>5. SliderTyped(slider')
  BY <1>2, <1>3, <1>4 DEF SliderTyped
<1>6. OneSlide(slider')
  BY <1>3 DEF SliderInv, SliderOf, OneSlide
<1>7. ~slider'.hasty => ~slider.hasty /\ ~(slider.swipes > 0)
  BY <1>3, Zenon
<1>8. SwipedIsAnother(slider')
  <2>1. ASSUME ~slider.hasty PROVE slider.active \subseteq slider.shown
    BY <2>1 DEF SliderInv, SliderOf, SwipedIsAnother
  <2>. QED BY <1>1, <1>3, <1>7, <2>1 DEF SwipedIsAnother
<1>. QED BY <1>5, <1>6, <1>8 DEF SliderInv, SliderOf

\* The slide that is swiped out is not the one that follows it.
LEMMA PanSliderEndKeeps ==
  ASSUME SliderInv, PanSliderEnd
  PROVE  SliderInv'
<1>0. PICK k \in SlideIds : slider.active = {k} /\ slider.indicator = {k}
  BY DEF SliderInv, SliderOf, OneSlide
<1>1. k \in 0..Slides - 1 /\ Slides \in Nat \ {0}
  BY ScrollAssumption DEF SlideIds
<1>2. ActiveIndex(slider) = k
  BY <1>0, ActiveIndexOf
<1>. DEFINE moves == (slider.swipeLeft \/ slider.swipeRight) /\ Slides > 1
            to == IF slider.swipeLeft THEN k + 1 ELSE k - 1
            s == [slider EXCEPT !.swipeLeft = FALSE, !.swipeRight = FALSE,
                                !.touched = FALSE, !.current = k, !.interval = TRUE]
            m == MoveToSlide(s, to)
            d == [m EXCEPT !.swipes = @ + 1]
<1>3. slider' = IF ~moves THEN s ELSE d
  BY <1>2 DEF PanSliderEnd
<1>4. slider.touched
  BY DEF PanSliderEnd
<1>5. /\ DOMAIN slider = SliderFields /\ slider.swipes \in Nat /\ slider.hasty \in BOOLEAN
  BY DEF SliderInv, SliderOf, SliderTyped
<1>6. ~slider.hasty => slider.active \subseteq slider.shown /\ ~(slider.swipes > 0)
  BY <1>4 DEF SliderInv, SliderOf, SwipedIsAnother
<1>7. /\ DOMAIN s = SliderFields /\ s.active = slider.active
      /\ s.indicator = slider.indicator /\ s.shown = slider.shown
      /\ s.hasty = slider.hasty /\ s.swipes = slider.swipes
      /\ s.touched = FALSE /\ s.current = k
  BY <1>5 DEF SliderFields
<1>. HIDE DEF s
<1>8. SliderOf(s)
  <2>1. SliderTyped(s)
    BY <1>5, <1>7 DEF SliderTyped
  <2>2. OneSlide(s)
    BY <1>0, <1>7 DEF OneSlide
  <2>3. SwipedIsAnother(s)
    BY <1>6, <1>7 DEF SwipedIsAnother
  <2>. QED BY <2>1, <2>2, <2>3 DEF SliderOf
<1>9. CASE ~moves
  BY <1>3, <1>8, <1>9 DEF SliderInv
<1>10. CASE moves
  <2>. DEFINE on == IF to >= Slides THEN 0 ELSE IF to < 0 THEN Slides - 1 ELSE to
  <2>1. to \in Int /\ on # k
    BY <1>1, <1>10
  <2>. HIDE DEF to
  <2>2. s.active = {k}
    BY <1>0, <1>7
  <2>3. SliderOf(m) /\ m.active = {on} /\ m.swipes = s.swipes
        /\ m.touched = s.touched /\ m.current = s.current
        /\ (on # k /\ s.swipes > 0 => m.hasty)
    BY <1>8, <2>1, <2>2, MoveKeeps
  <2>. HIDE DEF m, on
  <2>4. DOMAIN m = SliderFields /\ m.swipes \in Nat
    BY <2>3 DEF SliderOf, SliderTyped
  <2>5. /\ DOMAIN d = SliderFields /\ d.active = m.active /\ d.indicator = m.indicator
        /\ d.shown = m.shown /\ d.hasty = m.hasty /\ d.swipes = m.swipes + 1
        /\ d.touched = m.touched /\ d.current = m.current
    BY <2>4 DEF SliderFields
  <2>. HIDE DEF d
  <2>6. SliderTyped(d)
    <3>1. m.touched \in BOOLEAN /\ m.hasty \in BOOLEAN
      BY <2>3 DEF SliderOf, SliderTyped
    <3>2. d.touched \in BOOLEAN /\ d.hasty \in BOOLEAN
      BY <2>5, <3>1, Zenon
    <3>3. d.swipes \in Nat
      BY <2>4, <2>5
    <3>. QED BY <2>5, <3>2, <3>3, Zenon DEF SliderTyped
  <2>7. OneSlide(d)
    BY <2>3, <2>5 DEF SliderOf, OneSlide
  <2>8. SwipedIsAnother(d)
    <3>1. d.current \notin d.active
      BY <1>7, <2>1, <2>3, <2>5
    <3>2. ~d.touched
      BY <1>7, <2>3, <2>5, Zenon
    <3>3. ASSUME ~d.hasty PROVE d.active \subseteq d.shown
      <4>1. ~m.hasty
        BY <2>5, <3>3, Zenon
      <4>. QED BY <2>3, <2>5, <4>1 DEF SliderOf, SwipedIsAnother
    <3>. QED BY <3>1, <3>2, <3>3 DEF SwipedIsAnother
  <2>9. SliderOf(d)
    BY <2>6, <2>7, <2>8 DEF SliderOf
  <2>. QED BY <1>3, <1>10, <2>9 DEF SliderInv
<1>. QED BY <1>9, <1>10

\* What hides slides spares the active one.
LEMMA SliderEndings ==
  ASSUME SliderInv, SliderFaded \/ SliderSwiped
  PROVE  SliderInv'
<1>0. /\ DOMAIN slider = SliderFields /\ slider.swipes \in Nat
      /\ slider.touched \in BOOLEAN /\ slider.hasty \in BOOLEAN
  BY DEF SliderInv, SliderOf, SliderTyped
<1>1. /\ DOMAIN slider' = SliderFields /\ slider'.active = slider.active
      /\ slider'.indicator = slider.indicator /\ slider'.hasty = slider.hasty
      /\ slider'.touched = slider.touched /\ slider'.current = slider.current
  BY <1>0 DEF SliderFaded, SliderSwiped, SliderFields
<1>2. \/ /\ slider'.swipes = slider.swipes
         /\ slider'.shown = slider.shown \cap slider.active
      \/ /\ slider'.swipes = slider.swipes - 1 /\ slider.swipes > 0
         /\ slider'.shown = slider.shown \ {slider.current}
  BY <1>0 DEF SliderFaded, SliderSwiped, SliderFields
<1>3. slider'.swipes \in Nat /\ (slider'.swipes > 0 => slider.swipes > 0)
  BY <1>0, <1>2
<1>4. SliderTyped(slider')
  <2>1. slider'.touched \in BOOLEAN /\ slider'.hasty \in BOOLEAN
    BY <1>0, <1>1, Zenon
  <2>. QED BY <1>1, <1>3, <2>1, Zenon DEF SliderTyped
<1>5. OneSlide(slider')
  BY <1>1 DEF SliderInv, SliderOf, OneSlide
<1>6. SwipedIsAnother(slider')
  <2>. SUFFICES ASSUME ~slider'.hasty
                PROVE  /\ slider'.active \subseteq slider'.shown
                       /\ slider'.swipes > 0 => slider'.current \notin slider'.active
                                               /\ ~slider'.touched
    BY DEF SwipedIsAnother
  <2>1. ~slider.hasty
    BY <1>1, Zenon
  <2>2. /\ slider.active \subseteq slider.shown
        /\ slider.swipes > 0 => slider.current \notin slider.active /\ ~slider.touched
    BY <2>1 DEF SliderInv, SliderOf, SwipedIsAnother
  <2>3. slider'.active \subseteq slider'.shown
    BY <1>1, <1>2, <2>2
  <2>4. ASSUME slider'.swipes > 0 PROVE slider'.current \notin slider'.active /\ ~slider'.touched
    <3>1. slider.current \notin slider.active /\ ~slider.touched
      BY <1>3, <2>2, <2>4
    <3>. QED BY <1>1, <3>1, Zenon
  <2>. QED BY <2>3, <2>4
<1>. QED BY <1>4, <1>5, <1>6 DEF SliderInv, SliderOf

\* Every step of the slider.
LEMMA SliderStep ==
  ASSUME SliderInv, UNCHANGED slider \/ SliderNext
  PROVE  SliderInv'
<1>1. CASE UNCHANGED slider
  BY <1>1 DEF SliderInv
<1>2. PICK k \in SlideIds : slider.active = {k}
  BY DEF SliderInv, SliderOf, OneSlide
<1>3. CASE SliderNext
  <2>1. /\ SliderTick => SliderInv'
        /\ \A i \in SlideIds : ClickIndicator(i) => SliderInv'
        /\ \A step \in Int : StepSlider(step) => SliderInv'
        /\ \A on \in BOOLEAN : RunSlider(on) => SliderInv'
    BY <1>2, SliderMoves
  <2>2. \A flag : PanSlider(flag) => SliderInv'
    BY PanSliderKeeps
  <2>3. PanSliderEnd => SliderInv'
    BY PanSliderEndKeeps
  <2>4. SliderFaded \/ SliderSwiped => SliderInv'
    BY SliderEndings
  <2>. QED BY <1>3, <2>1, <2>2, <2>3, <2>4 DEF SliderNext
<1>. QED BY <1>1, <1>3

\* The first slide is active and shown.
LEMMA SliderInitially == SliderInit => SliderInv
<1>. SUFFICES ASSUME SliderInit PROVE SliderInv
  OBVIOUS
<1>1. 0 \in SlideIds
  BY ScrollAssumption DEF SlideIds
<1>2. /\ DOMAIN slider = SliderFields /\ slider.active = {0} /\ slider.indicator = {0}
      /\ slider.shown = {0} /\ slider.swipes = 0
      /\ slider.touched = FALSE /\ slider.hasty = FALSE
  BY DEF SliderInit, SliderFields
<1>3. SliderTyped(slider)
  <2>1. slider.swipes \in Nat
    BY <1>2
  <2>2. slider.touched \in BOOLEAN /\ slider.hasty \in BOOLEAN
    BY <1>2, Zenon
  <2>. QED BY <1>2, <2>1, <2>2, Zenon DEF SliderTyped
<1>4. OneSlide(slider)
  BY <1>1, <1>2 DEF OneSlide
<1>5. SwipedIsAnother(slider)
  BY <1>2 DEF SwipedIsAnother
<1>. QED BY <1>3, <1>4, <1>5 DEF SliderInv, SliderOf

\* What scrolls leaves the slider alone.
LEMMA SliderFrame ==
  ASSUME ScrollingNext PROVE UNCHANGED slider \/ SliderNext
<1>1. ASSUME ScrollNext PROVE UNCHANGED slider
  BY <1>1 DEF ScrollNext, ScrollSpied, ClickSpyLink, LaterScan, WaitOver, ScrollFired,
              ScrollPinned, ScrollParallax, FireTick, ParallaxLoaded, SpyVars, FireVars
<1>2. ASSUME ItemsNext PROVE UNCHANGED slider
  BY <1>2 DEF ItemsNext, PanItem, PanItemEnd, ItemGone, ItemsVars
<1>. QED BY <1>1, <1>2 DEF ScrollingNext

-----------------------------------------------------------------------------
(* What the date picker shows.                                             *)

Marks == {"open", "close"}
Mark(active) == IF active THEN "open" ELSE "close"

\* The last of the timers that show or hide the root does what was asked for; when
\* there is none the root is as it was asked to be.
ShowsLast(timers, opened, active) ==
  /\ \A i \in DOMAIN timers :
       timers[i] \in Marks /\ (\A j \in DOMAIN timers : j > i => timers[j] \notin Marks)
         => timers[i] = Mark(active)
  /\ (\A i \in DOMAIN timers : timers[i] \notin Marks) => opened = active

Binds(timers) == \E i \in DOMAIN timers : timers[i] = "bind"

ShowTyped(p) ==
  /\ DOMAIN p = PickerFields
  /\ p.started \in BOOLEAN /\ p.open \in BOOLEAN /\ p.opened \in BOOLEAN
  /\ p.active \in BOOLEAN /\ p.toOpen \in BOOLEAN /\ p.bound \in BOOLEAN
  /\ p.hasty \in BOOLEAN /\ p.timers \in Seq(Timers)

\* A picker that is stopped is closed, and has no timers but those that unbind it.
StoppedIsClosed(p) ==
  ~p.started => /\ ~p.active /\ ~p.opened /\ ~p.open /\ ~p.toOpen
                /\ \A i \in DOMAIN p.timers : p.timers[i] = "unbind"

\* One that is started can be opened, or a timer will see to it.
StartedOpens(p) ==
  p.started => (p.toOpen \/ Binds(p.timers)) /\ (p.bound \/ p.hasty)

ShowOf(p) ==
  /\ ShowTyped(p) /\ StoppedIsClosed(p) /\ StartedOpens(p)
  /\ p.open => p.active
  /\ ShowsLast(p.timers, p.opened, p.active)

ShowInv == ShowOf(picker)

\* A timer that shows or hides is the last one set.
LEMMA MarkAppended ==
  ASSUME NEW s \in Seq(Timers), NEW active \in BOOLEAN, NEW opened
  PROVE  /\ Append(s, Mark(active)) \in Seq(Timers)
         /\ ShowsLast(Append(s, Mark(active)), opened, active)
         /\ Binds(s) => Binds(Append(s, Mark(active)))
<1>. DEFINE n == Len(s) + 1
            t == Mark(active)
            r == Append(s, t)
<1>1. t \in Timers /\ t \in Marks
  BY DEF Mark, Marks, Timers
<1>. HIDE DEF t
<1>2. /\ r \in Seq(Timers) /\ DOMAIN r = 1..n /\ n \in DOMAIN r /\ r[n] = t
      /\ \A i \in DOMAIN s : i \in DOMAIN r /\ r[i] = s[i]
  BY <1>1, AppendProperties
<1>. HIDE DEF r
<1>3. \A i \in DOMAIN r : i = n \/ n > i
  BY <1>2
<1>4. ShowsLast(r, opened, active)
  BY <1>1, <1>2, <1>3 DEF ShowsLast, t
<1>5. Binds(s) => Binds(r)
  BY <1>2 DEF Binds
<1>. QED BY <1>2, <1>4, <1>5 DEF r, t

\* A timer that binds neither shows nor hides.
LEMMA BindAppended ==
  ASSUME NEW s \in Seq(Timers), NEW opened, NEW active, ShowsLast(s, opened, active)
  PROVE  /\ Append(s, "bind") \in Seq(Timers)
         /\ ShowsLast(Append(s, "bind"), opened, active)
         /\ Binds(Append(s, "bind"))
<1>. DEFINE n == Len(s) + 1
            r == Append(s, "bind")
<1>1. "bind" \in Timers /\ "bind" \notin Marks
  BY DEF Timers, Marks
<1>2. /\ r \in Seq(Timers) /\ n \in DOMAIN r /\ r[n] = "bind"
      /\ \A i \in DOMAIN s : i \in DOMAIN r /\ r[i] = s[i]
      /\ \A i \in DOMAIN r : i = n \/ i \in DOMAIN s
  <2>1. r \in Seq(Timers) /\ DOMAIN r = 1..n /\ DOMAIN s = 1..Len(s) /\ Len(s) \in Nat
        /\ r[n] = "bind" /\ \A i \in DOMAIN s : r[i] = s[i]
    BY <1>1, AppendProperties
  <2>. QED BY <2>1
<1>. HIDE DEF r, n
<1>3. ASSUME NEW i \in DOMAIN r, r[i] \in Marks,
             \A j \in DOMAIN r : j > i => r[j] \notin Marks
      PROVE  r[i] = Mark(active)
  <2>1. i \in DOMAIN s /\ s[i] \in Marks
    BY <1>1, <1>2, <1>3
  <2>2. \A j \in DOMAIN s : j > i => s[j] \notin Marks
    BY <1>2, <1>3
  <2>3. s[i] = Mark(active)
    BY <2>1, <2>2 DEF ShowsLast
  <2>. QED BY <1>2, <2>1, <2>3
<1>4. ASSUME \A i \in DOMAIN r : r[i] \notin Marks PROVE opened = active
  <2>1. \A i \in DOMAIN s : s[i] \notin Marks
    BY <1>2, <1>4
  <2>. QED BY <2>1 DEF ShowsLast
<1>5. ShowsLast(r, opened, active)
  BY <1>3, <1>4 DEF ShowsLast
<1>6. Binds(r)
  BY <1>2 DEF Binds
<1>. QED BY <1>2, <1>5, <1>6 DEF r

\* The first of the timers acts.
LEMMA FirstTimerActs ==
  ASSUME NEW s \in Seq(Timers), s # <<>>, NEW active \in BOOLEAN, NEW opened,
         ShowsLast(s, opened, active),
         NEW now, now = IF Head(s) \in Marks THEN Head(s) = "open" ELSE opened
  PROVE  /\ Tail(s) \in Seq(Timers)
         /\ ShowsLast(Tail(s), now, active)
         /\ Binds(s) => Head(s) = "bind" \/ Binds(Tail(s))
<1>. DEFINE r == Tail(s)
<1>1. /\ r \in Seq(Timers) /\ 1 \in DOMAIN s /\ Head(s) = s[1]
      /\ \A i \in DOMAIN r : i \in Int /\ i > 0 /\ i + 1 \in DOMAIN s /\ r[i] = s[i + 1]
      /\ \A i \in DOMAIN s : i = 1 \/ (i \in Int /\ i - 1 \in DOMAIN r /\ r[i - 1] = s[i])
  <2>1. r \in Seq(Timers) /\ Len(s) \in Nat /\ Len(s) > 0 /\ Len(r) = Len(s) - 1
        /\ Head(s) = s[1] /\ DOMAIN s = 1..Len(s) /\ DOMAIN r = 1..Len(r)
        /\ \A i \in 1..Len(r) : r[i] = s[i + 1]
    OBVIOUS
  <2>. QED BY <2>1
<1>. HIDE DEF r
<1>2. ASSUME NEW i \in DOMAIN r, r[i] \in Marks,
             \A j \in DOMAIN r : j > i => r[j] \notin Marks
      PROVE  r[i] = Mark(active)
  <2>1. i + 1 \in DOMAIN s /\ s[i + 1] \in Marks /\ i > 0 /\ i \in Int
    BY <1>1, <1>2
  <2>2. ASSUME NEW j \in DOMAIN s, j > i + 1 PROVE s[j] \notin Marks
    <3>1. j # 1
      BY <2>1, <2>2
    <3>2. j \in Int /\ j - 1 \in DOMAIN r /\ r[j - 1] = s[j]
      BY <1>1, <3>1
    <3>3. j - 1 > i
      BY <2>1, <2>2, <3>2
    <3>. QED BY <1>2, <3>2, <3>3
  <2>3. s[i + 1] = Mark(active)
    BY <2>1, <2>2 DEF ShowsLast
  <2>. QED BY <1>1, <2>3
<1>3. ASSUME \A i \in DOMAIN r : r[i] \notin Marks PROVE now = active
  <2>1. CASE s[1] \in Marks
    <3>1. ASSUME NEW j \in DOMAIN s, j > 1 PROVE s[j] \notin Marks
      <4>1. j # 1
        BY <3>1
      <4>2. j - 1 \in DOMAIN r /\ r[j - 1] = s[j]
        BY <1>1, <4>1
      <4>. QED BY <1>3, <4>2
    <3>2. s[1] = Mark(active)
      BY <1>1, <2>1, <3>1 DEF ShowsLast
    <3>3. now = (s[1] = "open")
      BY <1>1, <2>1
    <3>. QED BY <3>2, <3>3 DEF Mark
  <2>2. CASE s[1] \notin Marks
    <3>1. ASSUME NEW i \in DOMAIN s PROVE s[i] \notin Marks
      <4>1. CASE i = 1
        BY <2>2, <4>1
      <4>2. CASE i # 1
        <5>1. i - 1 \in DOMAIN r /\ r[i - 1] = s[i]
          BY <1>1, <4>2
        <5>. QED BY <1>3, <5>1
      <4>. QED BY <4>1, <4>2
    <3>2. opened = active
      BY <3>1 DEF ShowsLast
    <3>. QED BY <1>1, <2>2, <3>2
  <2>. QED BY <2>1, <2>2
<1>4. ShowsLast(r, now, active)
  BY <1>2, <1>3 DEF ShowsLast
<1>5. ASSUME Binds(s) PROVE s[1] = "bind" \/ Binds(r)
  <2>1. PICK i \in DOMAIN s : s[i] = "bind"
    BY <1>5 DEF Binds
  <2>2. i = 1 \/ (i - 1 \in DOMAIN r /\ r[i - 1] = s[i])
    BY <1>1
  <2>. QED BY <2>1, <2>2 DEF Binds
<1>. QED BY <1>1, <1>4, <1>5 DEF r

\* What is shown does not depend on the rest.
LEMMA SameShow ==
  ASSUME NEW p, NEW q, ShowOf(p), DOMAIN q = DOMAIN p,
         q.started = p.started, q.open = p.open, q.opened = p.opened,
         q.active = p.active, q.toOpen = p.toOpen, q.timers = p.timers,
         q.bound = p.bound, q.hasty = p.hasty
  PROVE  ShowOf(q)
<1>1. ShowTyped(q)
  BY DEF ShowOf, ShowTyped
<1>2. StoppedIsClosed(q)
  BY DEF ShowOf, StoppedIsClosed
<1>3. StartedOpens(q)
  BY DEF ShowOf, StartedOpens
<1>4. (q.open => q.active) /\ ShowsLast(q.timers, q.opened, q.active)
  BY DEF ShowOf
<1>. QED BY <1>1, <1>2, <1>3, <1>4 DEF ShowOf

\* A timer that shows or hides, set by a picker that is started.
LEMMA MarkShows ==
  ASSUME NEW p, NEW q, ShowOf(p), p.started, DOMAIN q = DOMAIN p,
         q.started = p.started, q.opened = p.opened, q.toOpen = p.toOpen,
         q.bound = p.bound, q.hasty = p.hasty,
         q.open \in BOOLEAN, q.active \in BOOLEAN, q.open => q.active,
         q.timers = Append(p.timers, Mark(q.active))
  PROVE  ShowOf(q)
<1>1. p.timers \in Seq(Timers)
  BY DEF ShowOf, ShowTyped
<1>2. /\ q.timers \in Seq(Timers)
      /\ ShowsLast(q.timers, q.opened, q.active)
      /\ Binds(p.timers) => Binds(q.timers)
  BY <1>1, MarkAppended
<1>3. ShowTyped(q)
  BY <1>2 DEF ShowOf, ShowTyped
<1>4. StoppedIsClosed(q)
  BY DEF StoppedIsClosed
<1>5. StartedOpens(q)
  BY <1>2 DEF ShowOf, StartedOpens
<1>. QED BY <1>2, <1>3, <1>4, <1>5 DEF ShowOf

\* open, with the focus or without.
LEMMA OpeningShows ==
  ASSUME NEW p, ShowOf(p), p.started
  PROVE  /\ ShowOf(Opening(p)) /\ Opening(p).started
         /\ ShowOf(OpeningUnfocused(p))
<1>1. CASE p.open
  BY <1>1 DEF Opening, OpeningUnfocused
<1>2. CASE ~p.open
  <2>. DEFINE q == Opening(p)
              r == OpeningUnfocused(p)
  <2>1. DOMAIN p = PickerFields /\ Mark(TRUE) = "open"
    BY DEF ShowOf, ShowTyped, Mark
  <2>2. /\ DOMAIN q = DOMAIN p /\ q.timers = Append(p.timers, "open")
        /\ q.started = p.started /\ q.opened = p.opened /\ q.toOpen = p.toOpen
        /\ q.bound = p.bound /\ q.hasty = p.hasty /\ q.open = TRUE /\ q.active = TRUE
    BY <1>2, <2>1 DEF Opening, PickerFields
  <2>3. /\ DOMAIN r = DOMAIN p /\ r.timers = Append(p.timers, "open")
        /\ r.started = p.started /\ r.opened = p.opened /\ r.toOpen = p.toOpen
        /\ r.bound = p.bound /\ r.hasty = p.hasty /\ r.open = p.open /\ r.active = TRUE
    BY <1>2, <2>1 DEF OpeningUnfocused, PickerFields
  <2>4. p.open \in BOOLEAN
    BY DEF ShowOf, ShowTyped
  <2>. HIDE DEF q, r
  <2>5. ShowOf(q)
    BY <2>1, <2>2, MarkShows
  <2>6. ShowOf(r)
    BY <2>1, <2>3, <2>4, MarkShows
  <2>. QED BY <2>2, <2>5, <2>6 DEF q, r
<1>. QED BY <1>1, <1>2

\* The focus of the root opens the picker.
LEMMA FocusRootShows ==
  ASSUME NEW p, ShowOf(p)
  PROVE  ShowOf(FocusRoot(p)) /\ (p.started => FocusRoot(p).started)
<1>. DEFINE q == [p EXCEPT !.focus = "root"]
<1>1. DOMAIN p = PickerFields
  BY DEF ShowOf, ShowTyped
<1>2. /\ DOMAIN q = DOMAIN p
      /\ q.started = p.started /\ q.open = p.open /\ q.opened = p.opened
      /\ q.active = p.active /\ q.toOpen = p.toOpen /\ q.timers = p.timers
      /\ q.bound = p.bound /\ q.hasty = p.hasty
  BY <1>1 DEF PickerFields
<1>3. FocusRoot(p) = IF p.toOpen THEN Opening(q) ELSE q
  BY DEF FocusRoot
<1>. HIDE DEF q
<1>4. ShowOf(q)
  BY <1>2, SameShow
<1>5. CASE p.started
  <2>1. ShowOf(Opening(q)) /\ Opening(q).started
    BY <1>2, <1>4, <1>5, OpeningShows
  <2>. QED BY <1>2, <1>3, <1>4, <1>5, <2>1
<1>6. CASE ~p.started
  <2>1. ~p.toOpen
    BY <1>6 DEF ShowOf, StoppedIsClosed
  <2>. QED BY <1>3, <1>4, <1>6, <2>1
<1>. QED BY <1>5, <1>6

\* close: the timer that hides follows the one that binds.
LEMMA ClosingShows ==
  ASSUME NEW p, NEW giveFocus \in BOOLEAN, ShowOf(p), p.started
  PROVE  ShowOf(Closing(p, giveFocus)) /\ Closing(p, giveFocus).started
         /\ ~Closing(p, giveFocus).open /\ ~Closing(p, giveFocus).active
<1>. DEFINE q == IF giveFocus
                 THEN [p EXCEPT !.toOpen = FALSE, !.focus = "root",
                                !.timers = Append(@, "bind")]
                 ELSE p
            r == [q EXCEPT !.active = FALSE, !.timers = Append(@, "close")]
            s == [r EXCEPT !.open = FALSE, !.locked = FALSE, !.listening = FALSE,
                           !.buttons = FALSE, !.today = FALSE,
                           !.pad = IF DefaultTheme /\ @ >= ScrollbarWidth(p)
                                   THEN @ - ScrollbarWidth(p) ELSE @]
            d == Closing(p, giveFocus)
<1>1. d = IF ~p.open THEN r ELSE s
  BY DEF Closing
<1>2. DOMAIN p = PickerFields /\ p.timers \in Seq(Timers) /\ p.open \in BOOLEAN
  BY DEF ShowOf, ShowTyped
<1>3. ShowOf(q) /\ q.started = p.started /\ q.open = p.open
  <2>1. CASE giveFocus
    <3>1. /\ DOMAIN q = DOMAIN p /\ q.started = p.started /\ q.open = p.open
          /\ q.opened = p.opened /\ q.active = p.active /\ q.toOpen = FALSE
          /\ q.timers = Append(p.timers, "bind")
          /\ q.bound = p.bound /\ q.hasty = p.hasty
      BY <1>2, <2>1 DEF PickerFields
    <3>. HIDE DEF q
    <3>2. ShowsLast(p.timers, p.opened, p.active)
      BY DEF ShowOf
    <3>3. q.timers \in Seq(Timers) /\ Binds(q.timers)
          /\ ShowsLast(q.timers, q.opened, q.active)
      BY <1>2, <3>1, <3>2, BindAppended
    <3>4. ShowTyped(q)
      BY <3>1, <3>3 DEF ShowOf, ShowTyped
    <3>5. StoppedIsClosed(q)
      BY <3>1 DEF StoppedIsClosed
    <3>6. StartedOpens(q)
      BY <3>1, <3>3 DEF ShowOf, StartedOpens
    <3>7. q.open => q.active
      BY <3>1 DEF ShowOf
    <3>8. ShowOf(q)
      BY <3>3, <3>4, <3>5, <3>6, <3>7 DEF ShowOf
    <3>. QED BY <3>1, <3>8
  <2>2. CASE ~giveFocus
    BY <2>2
  <2>. QED BY <2>1, <2>2
<1>. HIDE DEF q
<1>4. DOMAIN q = PickerFields
  BY <1>3 DEF ShowOf, ShowTyped
<1>5. /\ DOMAIN r = DOMAIN q /\ r.started = q.started /\ r.open = q.open
      /\ r.opened = q.opened /\ r.active = FALSE /\ r.toOpen = q.toOpen
      /\ r.timers = Append(q.timers, "close")
      /\ r.bound = q.bound /\ r.hasty = q.hasty
  BY <1>4 DEF PickerFields
<1>. HIDE DEF r
<1>6. /\ DOMAIN s = DOMAIN r /\ s.started = r.started /\ s.open = FALSE
      /\ s.opened = r.opened /\ s.active = r.active /\ s.toOpen = r.toOpen
      /\ s.timers = r.timers /\ s.bound = r.bound /\ s.hasty = r.hasty
  BY <1>4, <1>5 DEF PickerFields
<1>. HIDE DEF s, d
<1>7. /\ DOMAIN d = DOMAIN q /\ d.started = q.started /\ d.open = FALSE
      /\ d.opened = q.opened /\ d.active = FALSE /\ d.toOpen = q.toOpen
      /\ d.timers = Append(q.timers, "close")
      /\ d.bound = q.bound /\ d.hasty = q.hasty
  <2>1. CASE p.open
    <3>1. d = s
      BY <1>1, <2>1
    <3>. QED BY <1>5, <1>6, <3>1
  <2>2. CASE ~p.open
    <3>1. d = r
      BY <1>1, <2>2
    <3>2. d.open = FALSE
      BY <1>2, <1>3, <1>5, <2>2, <3>1
    <3>. QED BY <1>5, <3>1, <3>2
  <2>. QED BY <2>1, <2>2
<1>8. Mark(FALSE) = "close"
  BY DEF Mark
<1>9. ShowOf(d)
  BY <1>3, <1>7, <1>8, MarkShows
<1>. QED BY <1>3, <1>7, <1>9 DEF d

\* Writing the inputs and drawing the calendar show nothing else.
LEMMA WrittenShows ==
  ASSUME NEW p, NEW date, ShowOf(p)
  PROVE  ShowOf(Written(p, date)) /\ Written(p, date).started = p.started
<1>. DEFINE q == Written(p, date)
<1>1. DOMAIN p = PickerFields
  BY DEF ShowOf, ShowTyped
<1>2. /\ DOMAIN q = DOMAIN p
      /\ q.started = p.started /\ q.open = p.open /\ q.opened = p.opened
      /\ q.active = p.active /\ q.toOpen = p.toOpen /\ q.timers = p.timers
      /\ q.bound = p.bound /\ q.hasty = p.hasty
  BY <1>1 DEF Written, PickerFields
<1>. HIDE DEF q
<1>3. ShowOf(q)
  BY <1>2, SameShow
<1>. QED BY <1>2, <1>3 DEF q

\* Nor does a new highlight or view.
LEMMA ViewedShows ==
  ASSUME NEW p, NEW c, NEW d, ShowOf(p)
  PROVE  ShowOf(Drawn(p, d)) /\ ShowOf(Viewed(p, c, d))
<1>. DEFINE s == Drawn(p, d)
            q == Viewed(p, c, d)
<1>1. DOMAIN p = PickerFields
  BY DEF ShowOf, ShowTyped
<1>2. /\ DOMAIN s = DOMAIN p
      /\ s.started = p.started /\ s.open = p.open /\ s.opened = p.opened
      /\ s.active = p.active /\ s.toOpen = p.toOpen /\ s.timers = p.timers
      /\ s.bound = p.bound /\ s.hasty = p.hasty
  BY <1>1 DEF Drawn, PickerFields
<1>3. PICK x : q = [s EXCEPT !.stray = x]
  BY DEF Viewed
<1>. HIDE DEF s, q
<1>4. /\ DOMAIN q = DOMAIN p
      /\ q.started = p.started /\ q.open = p.open /\ q.opened = p.opened
      /\ q.active = p.active /\ q.toOpen = p.toOpen /\ q.timers = p.timers
      /\ q.bound = p.bound /\ q.hasty = p.hasty
  BY <1>1, <1>2, <1>3 DEF PickerFields
<1>5. ShowOf(s)
  BY <1>2, SameShow
<1>6. ShowOf(q)
  BY <1>4, SameShow
<1>. QED BY <1>5, <1>6 DEF s, q

\* start, of a picker that is stopped.
LEMMA StartedShows ==
  ASSUME NEW p, NEW c, ShowOf(p), ~p.started
  PROVE  ShowOf(Started(p, c))
<1>. DEFINE q == [p EXCEPT !.started = TRUE, !.open = FALSE, !.opened = FALSE,
                     !.toOpen = TRUE, !.bound = TRUE, !.buttons = FALSE,
                     !.today = FALSE,
                     !.hidden = IF p.value = NoDate THEN NoDate ELSE c.select,
                     !.kept = c.select # p.value, !.moved = FALSE, !.hasty = FALSE,
                     !.stray = ~CanSettle(c)]
<1>1. DOMAIN p = PickerFields /\ p.active = FALSE /\ p.timers \in Seq(Timers)
      /\ \A i \in DOMAIN p.timers : p.timers[i] = "unbind"
  BY DEF ShowOf, ShowTyped, StoppedIsClosed
<1>2. Started(p, c) = IF p.focus = "element" THEN Opening(q) ELSE q
  <2>1. q.focus = p.focus
    BY <1>1 DEF PickerFields
  <2>. QED BY <2>1 DEF Started
<1>3. /\ DOMAIN q = PickerFields
      /\ q.started = TRUE /\ q.open = FALSE /\ q.opened = FALSE
      /\ q.active = FALSE /\ q.toOpen = TRUE /\ q.timers = p.timers
      /\ q.bound = TRUE /\ q.hasty = FALSE
  BY <1>1 DEF PickerFields
<1>. HIDE DEF q
<1>4. ShowTyped(q)
  BY <1>1, <1>3 DEF ShowTyped
<1>5. StoppedIsClosed(q) /\ StartedOpens(q)
  BY <1>3 DEF StoppedIsClosed, StartedOpens
<1>6. \A i \in DOMAIN q.timers : q.timers[i] \notin Marks
  BY <1>1, <1>3 DEF Marks
<1>7. ShowsLast(q.timers, q.opened, q.active)
  BY <1>3, <1>6 DEF ShowsLast
<1>8. ShowOf(q)
  BY <1>3, <1>4, <1>5, <1>7 DEF ShowOf
<1>9. ShowOf(Opening(q))
  BY <1>3, <1>8, OpeningShows
<1>. QED BY <1>2, <1>8, <1>9

\* A timeout.
LEMMA TimeoutShows ==
  ASSUME ShowInv, Timeout
  PROVE  ShowInv'
<1>. DEFINE p == [picker EXCEPT !.timers = Tail(@)]
            timer == Head(picker.timers)
            q == [p EXCEPT
                   !.opened = IF timer \in {"open", "close"} THEN timer = "open" ELSE @,
                   !.toOpen = @ \/ timer = "bind",
                   !.bound = @ /\ timer # "unbind",
                   !.hasty = @ \/ (timer = "unbind" /\ p.started)]
            now == IF timer \in Marks THEN timer = "open" ELSE picker.opened
<1>1. picker' = q /\ picker.timers # <<>>
  BY DEF Timeout
<1>2. ShowOf(picker) /\ ShowTyped(picker)
  BY DEF ShowInv, ShowOf
<1>3. DOMAIN picker = PickerFields
  BY <1>2 DEF ShowTyped
<1>4. /\ DOMAIN p = PickerFields
      /\ p.started = picker.started /\ p.open = picker.open /\ p.opened = picker.opened
      /\ p.active = picker.active /\ p.toOpen = picker.toOpen
      /\ p.timers = Tail(picker.timers)
      /\ p.bound = picker.bound /\ p.hasty = picker.hasty
  BY <1>3 DEF PickerFields
<1>. HIDE DEF p
<1>5. /\ DOMAIN q = PickerFields
      /\ q.started = p.started /\ q.open = p.open /\ q.opened = now
      /\ q.active = p.active /\ q.toOpen = (p.toOpen \/ timer = "bind")
      /\ q.timers = p.timers
      /\ q.bound = (p.bound /\ timer # "unbind")
      /\ q.hasty = (p.hasty \/ (timer = "unbind" /\ p.started))
  BY <1>4 DEF PickerFields, Marks
<1>. HIDE DEF q
<1>6. /\ picker.timers \in Seq(Timers) /\ picker.active \in BOOLEAN
      /\ ShowsLast(picker.timers, picker.opened, picker.active)
  BY <1>2 DEF ShowOf, ShowTyped
<1>7. /\ q.timers \in Seq(Timers)
      /\ ShowsLast(q.timers, q.opened, q.active)
      /\ Binds(picker.timers) => timer = "bind" \/ Binds(q.timers)
  <2>1. /\ Tail(picker.timers) \in Seq(Timers)
        /\ ShowsLast(Tail(picker.timers), now, picker.active)
        /\ Binds(picker.timers) => timer = "bind" \/ Binds(Tail(picker.timers))
    BY <1>1, <1>6, FirstTimerActs
  <2>. QED BY <1>4, <1>5, <2>1
<1>8. ShowTyped(q)
  <2>1. now \in BOOLEAN
    BY <1>2 DEF ShowTyped
  <2>. HIDE DEF now
  <2>2. /\ q.opened \in BOOLEAN /\ q.toOpen \in BOOLEAN /\ q.bound \in BOOLEAN
        /\ q.hasty \in BOOLEAN
    BY <1>5, <2>1
  <2>3. q.started \in BOOLEAN /\ q.open \in BOOLEAN /\ q.active \in BOOLEAN
    BY <1>2, <1>4, <1>5 DEF ShowTyped
  <2>. QED BY <1>5, <1>7, <2>2, <2>3 DEF ShowTyped
<1>9. StoppedIsClosed(q)
  <2>. SUFFICES ASSUME ~q.started
                PROVE  /\ ~q.active /\ ~q.opened /\ ~q.open /\ ~q.toOpen
                       /\ \A i \in DOMAIN q.timers : q.timers[i] = "unbind"
    BY DEF StoppedIsClosed
  <2>1. /\ ~picker.active /\ ~picker.opened /\ ~picker.open /\ ~picker.toOpen
        /\ \A i \in DOMAIN picker.timers : picker.timers[i] = "unbind"
    BY <1>2, <1>4, <1>5 DEF ShowOf, StoppedIsClosed
  <2>2. /\ timer = picker.timers[1] /\ 1 \in DOMAIN picker.timers
        /\ \A i \in DOMAIN Tail(picker.timers) :
             i + 1 \in DOMAIN picker.timers
             /\ Tail(picker.timers)[i] = picker.timers[i + 1]
    BY <1>1, <1>6
  <2>3. timer = "unbind"
    BY <2>1, <2>2
  <2>4. ~q.opened /\ ~q.toOpen
    BY <1>4, <1>5, <2>1, <2>3 DEF Marks
  <2>5. \A i \in DOMAIN q.timers : q.timers[i] = "unbind"
    <3>. SUFFICES ASSUME NEW i \in DOMAIN q.timers PROVE q.timers[i] = "unbind"
      OBVIOUS
    <3>1. i + 1 \in DOMAIN picker.timers /\ q.timers[i] = picker.timers[i + 1]
      BY <1>4, <1>5, <2>2
    <3>. QED BY <2>1, <3>1
  <2>. QED BY <1>4, <1>5, <2>1, <2>4, <2>5
<1>10. StartedOpens(q)
  <2>. SUFFICES ASSUME q.started
                PROVE  (q.toOpen \/ Binds(q.timers)) /\ (q.bound \/ q.hasty)
    BY DEF StartedOpens
  <2>1. p.started
    BY <1>5
  <2>2. /\ picker.toOpen \/ Binds(picker.timers)
        /\ picker.bound \/ picker.hasty
    BY <1>2, <1>4, <2>1 DEF ShowOf, StartedOpens
  <2>3. q.toOpen \/ Binds(q.timers)
    BY <1>4, <1>5, <1>7, <2>2
  <2>4. q.bound \/ q.hasty
    BY <1>4, <1>5, <2>1, <2>2
  <2>. QED BY <2>3, <2>4
<1>11. q.open => q.active
  BY <1>2, <1>4, <1>5 DEF ShowOf
<1>12. ShowOf(q)
  BY <1>7, <1>8, <1>9, <1>10, <1>11 DEF ShowOf
<1>. QED BY <1>1, <1>12 DEF ShowInv

\* stop leaves only the timeouts that take the handlers away.
LEMMA StopPickerShows ==
  ASSUME ShowInv, StopPicker
  PROVE  ShowInv'
<1>. DEFINE p == Closing(picker, FALSE)
            N == Cardinality({k \in DOMAIN p.timers : p.timers[k] = "unbind"})
            timers == [i \in 1..N + 1 |-> "unbind"]
            q == [p EXCEPT
                   !.started = FALSE, !.opened = FALSE, !.toOpen = FALSE,
                   !.hidden = NoDate, !.moved = FALSE,
                   !.focus = IF @ = "root" THEN "page" ELSE @,
                   !.timers = timers]
<1>1. ShowOf(p) /\ ~p.open /\ ~p.active
  BY ClosingShows DEF StopPicker, ShowInv
<1>. HIDE DEF p
<1>2. /\ DOMAIN p = PickerFields /\ p.timers \in Seq(Timers)
      /\ p.bound \in BOOLEAN /\ p.hasty \in BOOLEAN
      /\ p.open \in BOOLEAN /\ p.active \in BOOLEAN
  BY <1>1 DEF ShowOf, ShowTyped
<1>3. picker' = q
  <2>1. picker' = [p EXCEPT
          !.started = FALSE, !.opened = FALSE, !.toOpen = FALSE,
          !.hidden = NoDate, !.moved = FALSE,
          !.focus = IF @ = "root" THEN "page" ELSE @,
          !.timers = [i \in 1..Cardinality({k \in DOMAIN @ : @[k] = "unbind"}) + 1 |->
                        "unbind"]]
    BY DEF StopPicker, p
  <2>. QED BY <1>2, <2>1 DEF PickerFields
<1>4. N \in Nat
  <2>1. IsFiniteSet(1..Len(p.timers))
    BY <1>2, FS_Interval, LenProperties
  <2>2. {k \in DOMAIN p.timers : p.timers[k] = "unbind"} \subseteq 1..Len(p.timers)
    BY <1>2
  <2>3. IsFiniteSet({k \in DOMAIN p.timers : p.timers[k] = "unbind"})
    BY <2>1, <2>2, FS_Subset
  <2>. QED BY <2>3, FS_CardinalityType
<1>. HIDE DEF N
<1>5. /\ timers \in Seq(Timers)
      /\ \A i \in DOMAIN timers : timers[i] = "unbind"
  <2>1. "unbind" \in Timers /\ N + 1 \in Nat
    BY <1>4 DEF Timers
  <2>. QED BY <2>1, SeqDef
<1>. HIDE DEF timers
<1>6. /\ DOMAIN q = PickerFields
      /\ q.started = FALSE /\ q.open = p.open /\ q.opened = FALSE
      /\ q.active = p.active /\ q.toOpen = FALSE /\ q.timers = timers
      /\ q.bound = p.bound /\ q.hasty = p.hasty
  BY <1>2 DEF PickerFields
<1>. HIDE DEF q
<1>7. ShowTyped(q)
  BY <1>2, <1>5, <1>6 DEF ShowTyped
<1>8. StoppedIsClosed(q)
  BY <1>1, <1>5, <1>6 DEF StoppedIsClosed
<1>9. StartedOpens(q)
  BY <1>6 DEF StartedOpens
<1>10. q.active = FALSE
  BY <1>1, <1>2, <1>6
<1>11. \A i \in DOMAIN q.timers : q.timers[i] \notin Marks
  BY <1>5, <1>6 DEF Marks
<1>12. ShowsLast(q.timers, q.opened, q.active)
  BY <1>6, <1>10, <1>11 DEF ShowsLast
<1>13. q.open => q.active
  BY <1>1, <1>6
<1>14. ShowOf(q)
  BY <1>7, <1>8, <1>9, <1>12, <1>13 DEF ShowOf
<1>. QED BY <1>3, <1>14 DEF ShowInv

\* The focus, the value and the window show nothing.
LEMMA FieldShows ==
  ASSUME NEW p, NEW x, NEW y, ShowOf(p)
  PROVE  /\ ShowOf([p EXCEPT !.focus = x]) /\ ShowOf([p EXCEPT !.value = x])
         /\ ShowOf([p EXCEPT !.moved = x]) /\ ShowOf([p EXCEPT !.stray = x])
         /\ ShowOf([p EXCEPT !.tall = x, !.resized = y])
<1>. DEFINE a == [p EXCEPT !.focus = x]
            b == [p EXCEPT !.value = x]
            c == [p EXCEPT !.moved = x]
            d == [p EXCEPT !.tall = x, !.resized = y]
            e == [p EXCEPT !.stray = x]
            Same(q) ==
              /\ DOMAIN q = DOMAIN p
              /\ q.started = p.started /\ q.open = p.open /\ q.opened = p.opened
              /\ q.active = p.active /\ q.toOpen = p.toOpen /\ q.timers = p.timers
              /\ q.bound = p.bound /\ q.hasty = p.hasty
<1>1. DOMAIN p = PickerFields
  BY DEF ShowOf, ShowTyped
<1>2. Same(a) /\ Same(b) /\ Same(c) /\ Same(d) /\ Same(e)
  BY <1>1 DEF PickerFields
<1>. HIDE DEF a, b, c, d, e
<1>3. \A q : Same(q) => ShowOf(q)
  BY SameShow
<1>. HIDE DEF Same
<1>4. ShowOf(a) /\ ShowOf(b) /\ ShowOf(c) /\ ShowOf(d) /\ ShowOf(e)
  BY <1>2, <1>3
<1>. QED BY <1>4 DEF a, b, c, d, e

\* Whatever is selected or viewed.
LEMMA SelectShows ==
  ASSUME NEW p, NEW c, ShowOf(p)
  PROVE  /\ SelectWith(p, c) => ShowInv'
         /\ ViewWith(p, c) => ShowInv'
         /\ ClearWith(p) => ShowInv'
<1>1. ASSUME SelectWith(p, c) PROVE ShowInv'
  <2>1. PICK d : picker' = Written(Viewed(p, cal, d), d.select)
    BY <1>1 DEF SelectWith, Picked
  <2>2. ShowOf(Viewed(p, cal, d))
    BY ViewedShows
  <2>. QED BY <2>1, <2>2, WrittenShows DEF ShowInv
<1>2. ASSUME ViewWith(p, c) PROVE ShowInv'
  <2>1. picker' = Viewed(p, cal, c)
    BY <1>2 DEF ViewWith
  <2>. QED BY <2>1, ViewedShows DEF ShowInv
<1>3. ASSUME ClearWith(p) PROVE ShowInv'
  <2>1. picker' = Drawn(p, cal)
    BY <1>3 DEF ClearWith
  <2>. QED BY <2>1, ViewedShows DEF ShowInv
<1>. QED BY <1>1, <1>2, <1>3

\* Starting, stopping and the pointer.
LEMMA PointerShows ==
  ASSUME LockInv, ShowInv
  PROVE  /\ StartPicker => ShowInv'
         /\ ClickElement => ShowInv'
         /\ LeavePicker => ShowInv'
         /\ ClickHolder => ShowInv'
         /\ ClickClear => ShowInv'
         /\ ClickClose => ShowInv'
<1>0. ShowOf(picker)
  BY DEF ShowInv
<1>1. ASSUME StartPicker PROVE ShowInv'
  <2>1. ~picker.started
    BY <1>1 DEF StartPicker
  <2>2. PICK c : picker' = Started(picker, c)
    BY <1>1 DEF StartPicker, StartWith
  <2>. QED BY <1>0, <2>1, <2>2, StartedShows DEF ShowInv
<1>2. ASSUME ClickElement PROVE ShowInv'
  <2>1. picker' = FocusRoot(picker) \/ picker' = [picker EXCEPT !.focus = "element"]
    BY <1>2 DEF ClickElement
  <2>2. ShowOf(FocusRoot(picker)) /\ ShowOf([picker EXCEPT !.focus = "element"])
    BY <1>0, FocusRootShows, FieldShows
  <2>. QED BY <2>1, <2>2 DEF ShowInv
<1>3. ASSUME LeavePicker PROVE ShowInv'
  <2>. DEFINE p == IF picker.listening THEN Closing(picker, FALSE) ELSE picker
  <2>1. picker' = [p EXCEPT !.focus = "page"]
    BY <1>3 DEF LeavePicker
  <2>2. ShowOf(p)
    <3>1. CASE picker.listening
      <4>1. picker.started
        BY <3>1 DEF LockInv, LockOf, LockFollowsOpen, IdleUnlessStarted, PickerTyped
      <4>. QED BY <1>0, <3>1, <4>1, ClosingShows
    <3>2. CASE ~picker.listening
      BY <1>0, <3>2
    <3>. QED BY <3>1, <3>2
  <2>. HIDE DEF p
  <2>. QED BY <2>1, <2>2, FieldShows DEF ShowInv
<1>4. ASSUME ClickHolder PROVE ShowInv'
  <2>. DEFINE p == IF picker.focus = "root" THEN picker ELSE FocusRoot(picker)
  <2>1. picker' = IF p.listening THEN Closing(p, TRUE) ELSE p
    BY <1>4 DEF ClickHolder
  <2>2. ShowOf(p) /\ p.started
    BY <1>0, <1>4, FocusRootShows DEF ClickHolder, Usable
  <2>. HIDE DEF p
  <2>3. ShowOf(Closing(p, TRUE))
    BY <2>2, ClosingShows
  <2>. QED BY <2>1, <2>2, <2>3 DEF ShowInv
<1>5. ASSUME ClickClear PROVE ShowInv'
  <2>. DEFINE p == FocusRoot(picker)
              q == Written(p, NoDate)
              r == Closing(q, TRUE)
  <2>1. ClearWith(r)
    BY <1>5 DEF ClickClear
  <2>2. ShowOf(p) /\ p.started
    BY <1>0, <1>5, FocusRootShows DEF ClickClear, Usable
  <2>. HIDE DEF p
  <2>3. ShowOf(q) /\ q.started
    BY <2>2, WrittenShows
  <2>. HIDE DEF q
  <2>4. ShowOf(r)
    BY <2>3, ClosingShows
  <2>. HIDE DEF r
  <2>. QED BY <2>1, <2>4, SelectShows
<1>6. ASSUME ClickClose PROVE ShowInv'
  <2>1. ShowOf(FocusRoot(picker)) /\ FocusRoot(picker).started
    BY <1>0, <1>6, FocusRootShows DEF ClickClose, Usable
  <2>. QED BY <1>6, <2>1, ClosingShows DEF ClickClose, ShowInv
<1>. QED BY <1>1, <1>2, <1>3, <1>4, <1>5, <1>6

\* The keys and the page's calls.
LEMMA KeyShows ==
  ASSUME ShowInv
  PROVE  /\ EscapePicker => ShowInv'
         /\ PressSpace => ShowInv'
         /\ PressDelete => ShowInv'
         /\ PressEnter => ShowInv'
         /\ \A i : PressArrow(i) => ShowInv'
         /\ \A f \in BOOLEAN : CallOpen(f) \/ CallClose(f) => ShowInv'
         /\ CallClear => ShowInv'
         /\ Resize => ShowInv'
         /\ \A c : Change(c) => ShowInv'
<1>0. ShowOf(picker)
  BY DEF ShowInv
<1>1. ASSUME picker.started
      PROVE  /\ ShowOf(Closing(picker, FALSE)) /\ ShowOf(Closing(picker, TRUE))
             /\ ShowOf(Opening(picker)) /\ ShowOf(OpeningUnfocused(picker))
  BY <1>0, <1>1, ClosingShows, OpeningShows
<1>2. ASSUME EscapePicker PROVE ShowInv'
  BY <1>1, <1>2 DEF EscapePicker, HasKeys, Usable, ShowInv
<1>3. ASSUME PressSpace PROVE ShowInv'
  BY <1>1, <1>3 DEF PressSpace, HasKeys, Usable, ShowInv
<1>4. ASSUME PressDelete PROVE ShowInv'
  <2>. DEFINE q == Written(picker, NoDate)
              r == Closing(q, FALSE)
  <2>1. ClearWith(r) /\ picker.started
    BY <1>4 DEF PressDelete, HasKeys, Usable
  <2>2. ShowOf(q) /\ q.started
    BY <1>0, <2>1, WrittenShows
  <2>. HIDE DEF q
  <2>3. ShowOf(r)
    BY <2>2, ClosingShows
  <2>. HIDE DEF r
  <2>. QED BY <2>1, <2>3, SelectShows
<1>5. ASSUME PressEnter PROVE ShowInv'
  <2>1. picker.started /\ SelectWith(Closing(picker, FALSE), cal.highlight)
    BY <1>5 DEF PressEnter, HasKeys, Usable
  <2>. QED BY <1>1, <2>1, SelectShows
<1>6. ASSUME NEW i, PressArrow(i) PROVE ShowInv'
  <2>1. CASE picker' = Opening(picker)
    BY <1>1, <1>6, <2>1 DEF PressArrow, HasKeys, Usable, ShowInv
  <2>2. CASE ~(picker' = Opening(picker))
    <3>1. ViewWith(picker, SetHighlight(cal, cal.highlight + i, 0, i))
      BY <1>6, <2>2 DEF PressArrow
    <3>. QED BY <1>0, <3>1, SelectShows
  <2>. QED BY <2>1, <2>2
<1>7. ASSUME NEW f \in BOOLEAN, CallOpen(f) \/ CallClose(f) PROVE ShowInv'
  <2>1. picker.started
    BY <1>7 DEF CallOpen, CallClose, Usable
  <2>2. CASE CallOpen(f)
    <3>1. picker' = Opening(picker) \/ picker' = OpeningUnfocused(picker)
      BY <2>2 DEF CallOpen
    <3>. QED BY <1>1, <2>1, <3>1 DEF ShowInv
  <2>3. CASE CallClose(f)
    <3>1. picker' = Closing(picker, f)
      BY <2>3 DEF CallClose
    <3>. QED BY <1>0, <2>1, <3>1, ClosingShows DEF ShowInv
  <2>. QED BY <1>7, <2>2, <2>3
<1>8. ASSUME CallClear PROVE ShowInv'
  <2>1. ShowOf(Written(picker, NoDate)) /\ ClearWith(Written(picker, NoDate))
    BY <1>0, <1>8, WrittenShows DEF CallClear
  <2>. QED BY <2>1, SelectShows
<1>9. ASSUME Resize PROVE ShowInv'
  <2>1. picker' = [picker EXCEPT !.tall = ~@, !.resized = picker.open]
    BY <1>9 DEF Resize
  <2>2. PICK x : picker' = [picker EXCEPT !.tall = x, !.resized = picker.open]
    BY <2>1
  <2>. QED BY <1>0, <2>2, FieldShows DEF ShowInv
<1>10. ASSUME NEW c, Change(c) PROVE ShowInv'
  <2>. DEFINE p == Viewed(picker, cal, c)
  <2>1. picker' = [p EXCEPT !.moved = @ \/ c.select # cal.select]
    BY <1>10 DEF Change
  <2>2. ShowOf(p)
    BY <1>0, ViewedShows
  <2>. HIDE DEF p
  <2>3. PICK x : picker' = [p EXCEPT !.moved = x]
    BY <2>1
  <2>. QED BY <2>2, <2>3, FieldShows DEF ShowInv
<1>. QED BY <1>2, <1>3, <1>4, <1>5, <1>6, <1>7, <1>8, <1>9, <1>10

\* Every step of the picker.
LEMMA PickerShowStep ==
  ASSUME LockInv, ShowInv, UNCHANGED <<picker, cal>> \/ PickerNext
  PROVE  ShowInv'
<1>0. ShowOf(picker)
  BY DEF ShowInv
<1>1. CASE UNCHANGED <<picker, cal>>
  BY <1>1 DEF ShowInv
<1>2. CASE Timeout \/ StartPicker \/ StopPicker
  BY <1>2, TimeoutShows, PointerShows, StopPickerShows
<1>3. CASE ClickElement \/ LeavePicker \/ ClickHolder \/ ClickClear \/ ClickClose
  BY <1>3, PointerShows
<1>4. CASE ClickToday
  <2>1. SelectWith(FocusRoot(picker), Today)
    BY <1>4 DEF ClickToday
  <2>. QED BY <1>0, <2>1, FocusRootShows, SelectShows
<1>5. CASE EscapePicker \/ PressSpace \/ PressDelete \/ PressEnter \/ CallClear \/ Resize
  BY <1>5, KeyShows
<1>6. ASSUME NEW d \in Dates, ClickDay(d) \/ CallSetSelect(d) PROVE ShowInv'
  <2>1. SelectWith(FocusRoot(picker), d) \/ SelectWith(picker, d)
    BY <1>6 DEF ClickDay, CallSetSelect
  <2>. QED BY <1>0, <2>1, FocusRootShows, SelectShows
<1>7. ASSUME NEW d \in {NoDate} \cup Dates, TypeDate(d) PROVE ShowInv'
  <2>1. picker' = [picker EXCEPT !.value = d]
    BY <1>7 DEF TypeDate
  <2>. QED BY <1>0, <2>1, FieldShows DEF ShowInv
<1>8. ASSUME NEW i \in {-Week, -1, 1, Week}, PressArrow(i) PROVE ShowInv'
  BY <1>8, KeyShows
<1>9. ASSUME NEW nv \in {-1, 1}, ClickNav(nv) PROVE ShowInv'
  <2>1. ViewWith(FocusRoot(picker), SetHighlight(cal, cal.highlight, nv, 1))
    BY <1>9 DEF ClickNav
  <2>. QED BY <1>0, <2>1, FocusRootShows, SelectShows
<1>10. ASSUME NEW m \in DOMAIN Months, SelectMonth(m) PROVE ShowInv'
  <2>1. ViewWith(picker, ChooseMonth(cal, m))
    BY <1>10 DEF SelectMonth
  <2>. QED BY <1>0, <2>1, SelectShows
<1>11. ASSUME NEW f \in BOOLEAN, CallOpen(f) \/ CallClose(f) PROVE ShowInv'
  BY <1>11, KeyShows
<1>12. CASE CallSetLimit \/ CallSetDisabled
  <2>1. PICK c : Change(c)
    BY <1>12 DEF CallSetLimit, CallSetDisabled
  <2>. QED BY <2>1, KeyShows
<1>13. CASE PickerNext
  BY <1>13, <1>2, <1>3, <1>4, <1>5, <1>6, <1>7, <1>8, <1>9, <1>10, <1>11, <1>12
  DEF PickerNext
<1>. QED BY <1>1, <1>13

\* The picker of the page "calendar" is open and shown from the start.
LEMMA ShowInitially == PickerInit => ShowInv
<1>. SUFFICES ASSUME PickerInit PROVE ShowInv
  OBVIOUS
<1>1. /\ DOMAIN Stopped = PickerFields
      /\ Stopped.started = FALSE /\ Stopped.open = FALSE /\ Stopped.opened = FALSE
      /\ Stopped.active = FALSE /\ Stopped.toOpen = FALSE /\ Stopped.timers = <<>>
      /\ Stopped.bound = FALSE /\ Stopped.hasty = FALSE
  BY DEF Stopped, PickerFields
<1>2. ShowOf(Stopped)
  <2>1. Stopped.timers \in Seq(Timers) /\ DOMAIN Stopped.timers = {}
    BY <1>1
  <2>2. ShowTyped(Stopped)
    <3>1. /\ Stopped.started \in BOOLEAN /\ Stopped.open \in BOOLEAN
          /\ Stopped.opened \in BOOLEAN /\ Stopped.active \in BOOLEAN
          /\ Stopped.toOpen \in BOOLEAN /\ Stopped.bound \in BOOLEAN
          /\ Stopped.hasty \in BOOLEAN
      BY <1>1, Zenon
    <3>. QED BY <1>1, <2>1, <3>1, Zenon DEF ShowTyped
  <2>3. StoppedIsClosed(Stopped) /\ StartedOpens(Stopped)
    BY <1>1, <2>1 DEF StoppedIsClosed, StartedOpens
  <2>4. ShowsLast(Stopped.timers, Stopped.opened, Stopped.active)
    BY <1>1, <2>1 DEF ShowsLast
  <2>. QED BY <1>1, <2>2, <2>3, <2>4 DEF ShowOf
<1>. DEFINE focused == [Stopped EXCEPT !.focus = "element"]
            c == NewCalendar(Settings[1], Settings[2], NoDate)
            p == Started(focused, c)
            q == [p EXCEPT !.timers = <<>>, !.opened = TRUE]
            r == [Stopped EXCEPT !.stray = ~CanSettle(c)]
<1>3. picker = IF "calendar" \in page THEN q ELSE r
  BY DEF PickerInit
<1>4. ShowOf(focused) /\ focused.started = FALSE
  BY <1>1, <1>2, FieldShows DEF PickerFields
<1>11. ShowOf(r)
  BY <1>1, <1>2, FieldShows DEF PickerFields
<1>5. DOMAIN focused = PickerFields /\ focused.focus = "element"
  BY <1>1 DEF PickerFields
<1>. HIDE DEF focused, c
<1>6. ShowOf(p)
  BY <1>4, StartedShows
<1>7. p.active = TRUE /\ p.toOpen = TRUE /\ p.bound = TRUE /\ p.started = TRUE
  BY <1>5 DEF Started, Opening, PickerFields
<1>. HIDE DEF p
<1>8. DOMAIN p = PickerFields /\ p.open \in BOOLEAN /\ p.hasty \in BOOLEAN
  BY <1>6 DEF ShowOf, ShowTyped
<1>9. /\ DOMAIN q = PickerFields
      /\ q.started = TRUE /\ q.open = p.open /\ q.opened = TRUE
      /\ q.active = TRUE /\ q.toOpen = TRUE /\ q.timers = <<>>
      /\ q.bound = TRUE /\ q.hasty = p.hasty
  BY <1>7, <1>8 DEF PickerFields
<1>. HIDE DEF q
<1>10. ShowOf(q)
  <2>1. q.timers \in Seq(Timers) /\ DOMAIN q.timers = {}
    BY <1>9
  <2>2. ShowTyped(q)
    BY <1>8, <1>9, <2>1 DEF ShowTyped
  <2>3. StoppedIsClosed(q) /\ StartedOpens(q)
    BY <1>9 DEF StoppedIsClosed, StartedOpens
  <2>4. ShowsLast(q.timers, q.opened, q.active)
    BY <1>9, <2>1 DEF ShowsLast
  <2>. QED BY <1>9, <2>2, <2>3, <2>4 DEF ShowOf
<1>. QED BY <1>3, <1>10, <1>11 DEF ShowInv

\* With no timer left the picker is as it was asked to be.
LEMMA ShownPicker == ShowInv => PickerShownAsAsked
<1>. SUFFICES ASSUME ShowInv, picker.started
              PROVE  /\ picker.open => picker.active
                     /\ picker.timers = <<>> =>
                          /\ picker.opened = picker.active /\ picker.toOpen
                          /\ picker.bound \/ picker.hasty
  BY DEF PickerShownAsAsked
<1>1. ASSUME picker.timers = <<>>
      PROVE  picker.opened = picker.active /\ picker.toOpen
  <2>1. DOMAIN picker.timers = {}
    BY <1>1
  <2>2. picker.opened = picker.active
    BY <2>1 DEF ShowInv, ShowOf, ShowsLast
  <2>3. ~Binds(picker.timers)
    BY <2>1 DEF Binds
  <2>. QED BY <2>2, <2>3 DEF ShowInv, ShowOf, StartedOpens
<1>. QED BY <1>1 DEF ShowInv, ShowOf, StartedOpens

-----------------------------------------------------------------------------
(* The initial states.                                                     *)

\* The windows are closed,
LEMMA ModalInitially == ModalInit => ModalInv
<1>. SUFFICES ASSUME ModalInit PROVE ModalInv
  OBVIOUS
<1>1. /\ DOMAIN modal = ModalFields
      /\ modal.open = {} /\ modal.hooked = {} /\ modal.dom = {} /\ modal.escape = {}
      /\ modal.overlay = [m \in Modals |-> 0] /\ modal.lastID = 0 /\ modal.closing = <<>>
  BY DEF ModalInit, ModalFields
<1>2. ModalTypeOK
  BY <1>1 DEF ModalTypeOK
<1>3. NoOrphanModalOverlay /\ EscapeIsOfOpenModals
  BY <1>1 DEF NoOrphanModalOverlay, EscapeIsOfOpenModals
<1>. QED BY <1>1, <1>2, <1>3 DEF ModalInv

\* the menu is out of sight,
LEMMA NavInitially == PageInit /\ NavInit => NavInv
<1>. SUFFICES ASSUME PageInit, NavInit PROVE NavInv
  OBVIOUS
<1>1. PICK kind \in IF "nav" \in page THEN NavKinds ELSE {"missing"} :
        nav = [kind |-> kind, at |-> "out", menuOut |-> FALSE, overlays |-> <<>>,
               opening |-> 0, dragging |-> FALSE, restoring |-> FALSE,
               pushed |-> FALSE]
  BY DEF NavInit
<1>2. kind \in {"plain", "fixed", "missing"}
  BY OverlayAssumption
<1>. QED BY <1>1, <1>2 DEF NavInv, BodyLockHasOwner, PageInit

\* the box is in its place,
LEMMA BoxInitially == BoxInit => BoxInv
<1>. SUFFICES ASSUME BoxInit PROVE BoxInv
  OBVIOUS
<1>1. PICK captioned \in BOOLEAN :
        box = [captioned |-> captioned, overlayActive |-> FALSE,
               doneAnimating |-> TRUE, active |-> FALSE, overlay |-> FALSE,
               caption |-> FALSE, cut |-> FALSE, anim |-> "none"]
  BY DEF BoxInit
<1>. QED BY <1>1 DEF BoxInv, BoxTypeOK, BoxKnowsItsOverlay

\* no menu is open,
LEMMA DropInitially == DropInit => DropInv
BY DEF DropInit, DropInv, DropTypeOK

\* A box before its structure is built.
Unbuilt(multiple, shift, chosen, disabled) ==
  [multiple |-> multiple, shift |-> shift, ready |-> TRUE, active |-> FALSE,
   visible |-> FALSE, isFocused |-> FALSE, focus |-> FALSE, over |-> FALSE,
   values |-> <<>>, chosen |-> chosen, disabled |-> disabled, marked |-> {},
   cursor |-> 0]

\* The boxes are built from their options at the start,
LEMMA SelectBuilt ==
  ASSUME SelectInit
  PROVE  \E many, shift, chosen, disabled :
           /\ \A b \in Boxes : chosen[b] \subseteq Option
           /\ select = [b \in Boxes |-> Built(Unbuilt(many[b], shift, chosen[b], disabled))]
<1>1. PICK many \in IF "select" \in page THEN [Boxes -> BOOLEAN] ELSE {<<FALSE, FALSE>>},
           shift \in IF "select" \in page THEN {0, 1} ELSE {0},
           disabled \in IF "select" \in page THEN DisabledSets ELSE {{}},
           chosen \in IF "select" \in page THEN [Boxes -> SUBSET Option] ELSE {<<{}, {}>>} :
        /\ \A b \in Boxes : many[b] \/ \A i, j \in chosen[b] : i = j
        /\ select = [b \in Boxes |-> Built(
             [multiple |-> many[b], shift |-> shift, ready |-> TRUE,
              active |-> FALSE, visible |-> FALSE, isFocused |-> FALSE,
              focus |-> FALSE, over |-> FALSE, values |-> <<>>,
              chosen |-> chosen[b], disabled |-> disabled, marked |-> {},
              cursor |-> 0])]
  BY Zenon DEF SelectInit
<1>3. \A b \in Boxes : chosen[b] \subseteq Option
  BY <1>1 DEF Boxes
<1>4. select = [b \in Boxes |-> Built(Unbuilt(many[b], shift, chosen[b], disabled))]
  BY <1>1, Zenon DEF Unbuilt
<1> QED
  BY <1>3, <1>4

\* and no list is open;
LEMMA SelectInitially == SelectInit => SelectInv
<1>. SUFFICES ASSUME SelectInit PROVE SelectInv
  OBVIOUS
<1>1. PICK many, shift, chosen, disabled :
        /\ \A b \in Boxes : chosen[b] \subseteq Option
        /\ select = [b \in Boxes |-> Built(Unbuilt(many[b], shift, chosen[b], disabled))]
  BY SelectBuilt, Zenon
<1>2. DOMAIN select = Boxes
  BY <1>1
<1>3. ASSUME NEW b \in Boxes
      PROVE  BoxTyped(select[b]) /\ ~select[b].active /\ ~select[b].focus
  <2>1. PICK r : r = Unbuilt(many[b], shift, chosen[b], disabled)
    OBVIOUS
  <2>2. select[b] = Built(r)
    BY <1>1, <2>1
  <2>3. BoxTyped(r)
    BY <2>1 DEF Unbuilt, BoxTyped
  <2> QED
    BY <2>2, <2>3, BuiltTyped
<1>4. ASSUME NEW b \in Boxes PROVE Aside(select[b], select[Other(b)])
  BY <1>3 DEF Aside
<1>. QED BY <1>2, <1>3, <1>4 DEF SelectInv, BoxesAside

\* no pointer is on the page,
LEMMA WavesInitially == WavesInit => WavesInv
<1>. SUFFICES ASSUME WavesInit PROVE WavesInv
  OBVIOUS
<1>1. /\ DOMAIN waves = WavesFields
      /\ waves.touches = 0 /\ waves.on = 0 /\ waves.off = 0 /\ waves.pops = 0
      /\ waves.button = FALSE /\ waves.listens = FALSE /\ waves.ripples = <<>>
      /\ waves.mouseAt = {} /\ waves.several = FALSE
  BY DEF WavesInit, WavesFields
<1>2. TouchesCounted(waves)
  BY <1>1 DEF TouchesCounted
<1>3. waves.ripples \in Seq(BOOLEAN) /\ Len(waves.ripples) = 0
  BY <1>1
<1>4. OneRippleRuns(waves)
  BY <1>3 DEF OneRippleRuns
<1>5. RipplesAnswer(waves)
  <2>1. ~(Len(waves.ripples) > 0)
    BY <1>3
  <2>. QED BY <1>1, <1>3, <1>4, <2>1 DEF RipplesAnswer
<1>. QED BY <1>1, <1>2, <1>5 DEF WavesInv, TouchMutesMouse

\* on no range,
LEMMA RangeInitially == RangeInit => RangeInv
BY DEF RangeInit, RangeInv

\* and on no item;
LEMMA ItemsInitially == ItemsInit => ItemsInv
BY DEF ItemsInit, ItemsInv

\* the field holds what its attribute gives it,
LEMMA FieldInitially == FieldInit => FieldInv
BY DEF FieldInit, FieldInv, FieldTypeOK, FieldValues, LabelClearOfText, CounterOfText,
       AddCounter, TextOf

\* and no tooltip is shown.
LEMMA TipInitially == TipInit => TipInv
<1> SUFFICES ASSUME TipInit PROVE TipInv
  OBVIOUS
<1>1. 0 \in Margins(tip.position)
  BY FeedbackAssumption DEF Margins
<1> QED
  BY <1>1 DEF TipInit, TipInv

\* The picker of the page "calendar" is started and opened by its focus.
LEMMA PickerInitially == PickerInit => LockInv
<1>. SUFFICES ASSUME PickerInit PROVE LockInv
  OBVIOUS
<1>1. /\ DOMAIN Stopped = PickerFields
      /\ Stopped.started = FALSE /\ Stopped.open = FALSE /\ Stopped.toOpen = FALSE
      /\ Stopped.locked = FALSE /\ Stopped.listening = FALSE /\ Stopped.timers = <<>>
      /\ Stopped.tall = FALSE /\ Stopped.resized = FALSE /\ Stopped.pad = 0
  BY DEF Stopped, PickerFields
<1>2. LockOf(Stopped)
  <2>1. PickerTyped(Stopped)
    <3>1. Stopped.timers \in Seq({"open", "close", "bind", "unbind"})
      BY <1>1
    <3>2. Stopped.started \in BOOLEAN /\ Stopped.open \in BOOLEAN /\ Stopped.toOpen \in BOOLEAN
          /\ Stopped.tall \in BOOLEAN /\ Stopped.resized \in BOOLEAN
      BY <1>1, Zenon
    <3>3. Stopped.pad \in Nat
      BY <1>1
    <3>4. DOMAIN Stopped = PickerFields
      BY <1>1
    <3>. QED BY <3>1, <3>2, <3>3, <3>4, Zenon DEF PickerTyped
  <2>2. IdleUnlessStarted(Stopped)
    BY <1>1 DEF IdleUnlessStarted
  <2>3. LockFollowsOpen(Stopped)
    BY <1>1 DEF LockFollowsOpen
  <2>4. PadFollowsOpen(Stopped)
    BY <1>1 DEF PadFollowsOpen
  <2>. QED BY <2>1, <2>2, <2>3, <2>4 DEF LockOf
<1>. DEFINE focused == [Stopped EXCEPT !.focus = "element"]
            c == NewCalendar(Settings[1], Settings[2], NoDate)
            p == Started(focused, c)
            q == [p EXCEPT !.timers = <<>>, !.opened = TRUE]
            r == [Stopped EXCEPT !.stray = ~CanSettle(c)]
<1>3. picker = IF "calendar" \in page THEN q ELSE r
  BY DEF PickerInit
<1>4. LockOf(focused) /\ focused.open = FALSE
  BY <1>1, <1>2, FocusLocks DEF PickerFields
<1>9. LockOf(r)
  BY <1>1, <1>2, FocusLocks DEF PickerFields
<1>. HIDE DEF focused, c
<1>5. LockOf(p)
  BY <1>4, StartedLocks
<1>. HIDE DEF p
<1>6. DOMAIN p = PickerFields
  BY <1>5 DEF LockOf, PickerTyped
<1>7. /\ DOMAIN q = PickerFields
      /\ q.started = p.started /\ q.open = p.open /\ q.locked = p.locked
      /\ q.listening = p.listening /\ q.toOpen = p.toOpen /\ q.timers = <<>>
      /\ q.tall = p.tall /\ q.resized = p.resized /\ q.pad = p.pad
  BY <1>6 DEF PickerFields
<1>. HIDE DEF q
<1>8. LockOf(q)
  <2>1. PickerTyped(q)
    BY <1>5, <1>7 DEF LockOf, PickerTyped
  <2>2. IdleUnlessStarted(q)
    BY <1>5, <1>7 DEF LockOf, IdleUnlessStarted
  <2>3. LockFollowsOpen(q)
    BY <1>5, <1>7 DEF LockOf, LockFollowsOpen
  <2>4. ScrollbarWidth(q) = ScrollbarWidth(p)
    BY <1>7 DEF ScrollbarWidth
  <2>5. PadFollowsOpen(q)
    BY <1>5, <1>7, <2>4 DEF LockOf, PadFollowsOpen
  <2>. QED BY <2>1, <2>2, <2>3, <2>5 DEF LockOf
<1>. QED BY <1>3, <1>8, <1>9 DEF LockInv

-----------------------------------------------------------------------------
(* The theorems.                                                           *)

\* A set of which any two elements are one has at most one element.
LEMMA AtMostOne ==
  ASSUME NEW S, \A x, y \in S : x = y
  PROVE  Cardinality(S) <= 1
<1>1. CASE S = {}
  BY <1>1, FS_EmptySet
<1>2. CASE S # {}
  <2>1. PICK x \in S : TRUE
    BY <1>2
  <2>2. S = {x}
    BY <2>1
  <2>3. Cardinality({x}) = 1
    BY FS_Singleton
  <2>. QED BY <2>2, <2>3
<1>. QED BY <1>1, <1>2

\* A closed window or image box leaves neither overlay nor Escape handler behind,
\* with any windows and however openModal, closeModal and their animations overlap.
THEOREM OverlaysAreRemoved == Spec => []OverlaysLeaveNothing
<1>1. Init => ModalInv /\ BoxInv
  BY ModalInitially, BoxInitially DEF Init, OverlaysInit
<1>2. ModalInv /\ BoxInv /\ [Next]_vars => (ModalInv /\ BoxInv)'
  BY PageSteps, ModalStep, BoxStep
<1>3. ModalInv /\ BoxInv => OverlaysLeaveNothing
  BY DEF ModalInv, BoxInv, OverlaysLeaveNothing
<1>. QED BY <1>1, <1>2, <1>3, PTL DEF Spec

\* Whoever locked and unlocked the page's scroll before (openModal, closeModal,
\* removeMenu, panend, and open and close of the picker), it is locked only under
\* an open window, menu or date picker, with any limits and any theme.  Excepted are
\* a fixed menu that a narrow resize slid out while it opened or was not known to be
\* open, and a button without its menu (sideNav).
THEOREM LocksHaveOwners == Spec => []ScrollLockHasOwner
<1>. DEFINE Inv == ModalInv /\ NavInv /\ LockInv
<1>1. Init => Inv
  BY ModalInitially, NavInitially, PickerInitially DEF Init, OverlaysInit
<1>2. Inv /\ [Next]_vars => Inv'
  <2>. SUFFICES ASSUME Inv, [Next]_vars PROVE Inv'
    OBVIOUS
  <2>1. DOMAIN modal = ModalFields
    BY DEF ModalInv, ModalTypeOK
  <2>2. ModalInv'
    BY PageSteps, ModalStep
  <2>3. NavInv'
    BY <2>1, PageSteps, NavStep
  <2>4. LockInv'
    BY PageSteps, PickerStep
  <2>. QED BY <2>2, <2>3, <2>4
<1>3. Inv => ScrollLockHasOwner
  <2>. SUFFICES ASSUME Inv PROVE ScrollLockHasOwner
    OBVIOUS
  <2>1. ASSUME ~picker.open PROVE picker.pad = 0 \/ picker.resized
    BY <2>1 DEF LockInv, LockOf, PadFollowsOpen
  <2>2. PickerLockHasOwner
    BY <2>1 DEF PickerLockHasOwner, LockInv, LockOf, LockFollowsOpen
  <2>. QED BY <2>2 DEF NavInv, ScrollLockHasOwner
<1>. QED BY <1>1, <1>2, <1>3, PTL DEF Spec

\* Of any menus one opened by a click is open at most, and has the handler that
\* closes it (activates.click, hideDropdown); of the two select boxes one shows its
\* options at most (onFocus, the document's click, the keys).
THEOREM MenusTakeTurns == Spec => []OneMenuOpen
<1>1. Init => DropInv /\ SelectInv
  BY DropInitially, SelectInitially DEF Init, MenusInit
<1>2. DropInv /\ SelectInv /\ [Next]_vars => (DropInv /\ SelectInv)'
  BY PageSteps, DropStep, SelectStep
<1>3. DropInv /\ SelectInv => OneMenuOpen
  <2>. SUFFICES ASSUME DropInv, SelectInv PROVE OneMenuOpen
    OBVIOUS
  <2>. DEFINE clicked == drop.active \ drop.byEvent
              active == {b \in Boxes : select[b].active}
  <2>1. \A d \in clicked : drop.outside[d] > 0
    BY DEF DropInv
  <2>2. \A d, e \in clicked : d = e
    BY DEF DropInv
  <2>3. Cardinality(clicked) <= 1
    BY <2>2, AtMostOne
  <2>4. \A b, c \in active : b = c
    <3>. SUFFICES ASSUME NEW b \in active, NEW c \in active, b # c PROVE FALSE
      OBVIOUS
    <3>1. c = Other(b)
      BY DEF Boxes, Other
    <3>. QED BY <3>1 DEF SelectInv, BoxesAside, Aside
  <2>5. Cardinality(active) <= 1
    BY <2>4, AtMostOne
  <2>. QED BY <2>1, <2>3, <2>5 DEF OneMenuOpen, ClickedMenuCloses, OneListOpen
<1>. QED BY <1>1, <1>2, <1>3, PTL DEF Spec

\* Ripples fade when nothing presses the element and touches mute the mouse
\* (TouchHandler, Effect.show and hide), thumbs grow under the pointer only until a key changes
\* a range or a press leaves it, and with one finger at a time only the item that was
\* swiped leaves.
THEOREM PointersAreAnswered == Spec => []PointersAnswered
<1>1. Init => PointersInv
  BY WavesInitially, RangeInitially, ItemsInitially
  DEF Init, FeedbackInit, ScrollingInit, PointersInv
<1>2. PointersInv /\ [Next]_vars => PointersInv'
  <2>. SUFFICES ASSUME PointersInv, [Next]_vars PROVE PointersInv'
    OBVIOUS
  <2>1. WavesInv /\ RangeInv /\ ItemsInv
    BY DEF PointersInv
  <2>2. WavesInv'
    BY <2>1, PageSteps, WavesStep
  <2>3. RangeInv'
    BY <2>1, PageSteps, RangeStep
  <2>4. ItemsInv'
    BY <2>1, PageSteps, ItemsStep
  <2>. QED BY <2>2, <2>3, <2>4 DEF PointersInv
<1>3. PointersInv => PointersAnswered
  <2>. SUFFICES ASSUME PointersInv PROVE PointersAnswered
    OBVIOUS
  <2>1. ASSUME waves.on = 0, ~waves.button, ~waves.several
        PROVE  \A i \in DOMAIN waves.ripples : waves.ripples[i]
    <3>1. OneRippleRuns(waves) /\ DOMAIN waves.ripples = 1..Len(waves.ripples)
      BY <2>1 DEF PointersInv, WavesInv, RipplesAnswer
    <3>2. ~(waves.on > 0)
      BY <2>1
    <3>. QED BY <2>1, <3>1, <3>2 DEF OneRippleRuns
  <2>2. RipplesFade
    BY <2>1 DEF RipplesFade
  <2>3. TouchMutesMouse
    BY DEF PointersInv, WavesInv
  <2>4. ThumbUnderPointer
    BY DEF PointersInv, RangeInv, ThumbUnderPointer
  <2>5. SwipedItemLeaves
    BY DEF PointersInv, ItemsInv, SwipedItemLeaves
  <2>. QED BY <2>2, <2>3, <2>4, <2>5 DEF PointersAnswered
<1>. QED BY <1>1, <1>2, <1>3, PTL DEF Spec

\* The label of a field is clear of its text, but for a text that a reset put back
\* under it, and its counter counts that text, whatever is typed, set and reset; a
\* tooltip narrower than the window by 4 pixels is placed within it, and passes its
\* edge only as far as one beside its origin then moves (repositionWithinScreen).
THEOREM TextsAreReadable == Spec => []TextReadable
<1>1. Init => FieldInv /\ TipInv
  BY FieldInitially, TipInitially DEF Init, FeedbackInit
<1>2. FieldInv /\ TipInv /\ [Next]_vars => (FieldInv /\ TipInv)'
  BY PageSteps, FieldStep, TipStep
<1>3. FieldInv /\ TipInv => TextReadable
  BY TipWithin DEF FieldInv, TextReadable
<1>. QED BY <1>1, <1>2, <1>3, PTL DEF Spec

-----------------------------------------------------------------------------
\* What a step of the page is to the widgets that show something.
LEMMA ShowingSteps ==
  ASSUME [Next]_vars
  PROVE  /\ UNCHANGED list \/ ListNext
         /\ UNCHANGED tabs \/ TabsNext
         /\ UNCHANGED fab \/ FabNext
         /\ UNCHANGED card \/ CardNext
         /\ UNCHANGED slider \/ SliderNext
         /\ UNCHANGED carousel \/ CarouselNext
         /\ UNCHANGED <<picker, cal>> \/ PickerNext
BY ShowingFrame, SliderFrame
   DEF Next, vars, pageVars, overlayVars, menuVars, feedbackVars, scrollVars, pickerVars

ShownInv ==
  /\ ListInv /\ TabsInv /\ FabInv /\ CardInv /\ SliderInv /\ CarouselInv
  /\ LockInv /\ ShowInv

\* Together they show what was asked for.
LEMMA ShownInvShows == ShownInv => ShownAsAsked
<1>. SUFFICES ASSUME ShownInv PROVE ShownAsAsked
  OBVIOUS
<1>1. OnePanelShown
  <2>1. list.body = list.panel /\ tabs.shown = {tabs.index} /\ tabs.active = {tabs.index}
    BY DEF ShownInv, ListInv, TabsInv
  <2>2. ASSUME list.accordion PROVE Cardinality(list.body \cup list.header) <= 1
    <3>1. \A i, j \in list.body \cup list.header : i = j
      BY <2>2 DEF ShownInv, ListInv
    <3>. QED BY <3>1, AtMostOne
  <2>. QED BY <2>1, <2>2 DEF OnePanelShown
<1>2. LastRequestShows
  BY DEF ShownInv, FabInv, CardInv, LastRequestShows
<1>3. OneActiveSlide
  <2>1. PICK k \in SlideIds : slider.active = {k} /\ slider.indicator = {k}
    BY DEF ShownInv, SliderInv, SliderOf, OneSlide
  <2>. QED BY <2>1, FS_Singleton DEF OneActiveSlide
<1>4. ActiveSlideShown
  BY DEF ShownInv, SliderInv, SliderOf, SwipedIsAnother, ActiveSlideShown
<1>5. CarouselRests
  BY CarouselInvRests DEF ShownInv
<1>6. PickerShownAsAsked
  BY ShownPicker DEF ShownInv
<1>. QED BY <1>1, <1>2, <1>3, <1>4, <1>5, <1>6 DEF ShownAsAsked

\* Whatever is opened, closed, dragged, thrown, swiped and stopped before the
\* animations and timeouts of the last move are over, and with any number of panels,
\* slides and images: what was asked for last is shown (collapsible, tabs, slider,
\* carousel, open and close of the picker, the floating menu, the card).
THEOREM WidgetsShowWhatWasAsked == Spec => []ShownAsAsked
<1>1. Init => ShownInv
  BY ListInitially, TabsInitially, FabInitially, CardInitially, SliderInitially,
     CarouselInitially, PickerInitially, ShowInitially
  DEF Init, MenusInit, ScrollingInit, ShownInv
<1>2. ShownInv /\ [Next]_vars => ShownInv'
  <2>. SUFFICES ASSUME ShownInv, [Next]_vars PROVE ShownInv'
    OBVIOUS
  <2>1. ListInv' /\ TabsInv' /\ FabInv' /\ CardInv'
    BY ShowingSteps, ListStep, TabsStep, FabStep, CardStep DEF ShownInv
  <2>2. SliderInv' /\ CarouselInv'
    BY ShowingSteps, SliderStep, CarouselStep DEF ShownInv
  <2>3. LockInv' /\ ShowInv'
    BY ShowingSteps, PickerStep, PickerShowStep DEF ShownInv
  <2>. QED BY <2>1, <2>2, <2>3 DEF ShownInv
<1>. QED BY <1>1, <1>2, ShownInvShows, PTL DEF Spec

-----------------------------------------------------------------------------
(* The scroll spy lights the first section of its row, and its row is of *)
(* the sections in view.                                                   *)

SpyFields == {"position", "seen", "inView", "visible", "lit", "cooling", "timer"}

Spies == [position : Int, seen : Int, inView : SUBSET Int, visible : Seq(Int),
          lit : SUBSET Int, cooling : BOOLEAN, timer : BOOLEAN]

LightsFirst(s) ==
  s \in Spies /\ s.lit = IF s.visible = <<>> THEN {} ELSE {s.visible[1]}

Entered(s, e, t) ==
  /\ LightsFirst(t) /\ t.position = s.position
  /\ ToSet(t.visible) = ToSet(s.visible) \cup {e}

Left(s, e, t) ==
  /\ LightsFirst(t) /\ t.position = s.position
  /\ ToSet(t.visible) = ToSet(s.visible) \ {e}

\* The sections of row entered, or left, one after the other.
EntersAll(h, s, n, row) ==
  /\ LightsFirst(s) /\ row \in [1..n -> Int] /\ h[0] = s
  /\ \A i \in 1..n : LightsFirst(h[i - 1]) => Entered(h[i - 1], row[i], h[i])

LeavesAll(h, s, n, row) ==
  /\ LightsFirst(s) /\ row \in [1..n -> Int] /\ h[0] = s
  /\ \A i \in 1..n : LightsFirst(h[i - 1]) => Left(h[i - 1], row[i], h[i])

HaveEntered(s, n, row, t) ==
  /\ LightsFirst(t) /\ t.position = s.position
  /\ ToSet(t.visible) = ToSet(s.visible) \cup {row[i] : i \in 1..n}

HaveLeft(s, n, row, t) ==
  /\ LightsFirst(t) /\ t.position = s.position
  /\ ToSet(t.visible) = ToSet(s.visible) \ {row[i] : i \in 1..n}

\* A row of one.
LEMMA OneElement ==
  ASSUME NEW e \in Int PROVE <<e>> \in Seq(Int) /\ ToSet(<<e>>) = {e}
<1>1. DOMAIN <<e>> = {1} /\ <<e>>[1] = e /\ <<e>> \in Seq(Int)
  OBVIOUS
<1> QED
  BY <1>1 DEF ToSet

\* scrollSpy:enter.
LEMMA EnterOne ==
  ASSUME NEW s, LightsFirst(s), NEW e \in Int
  PROVE  Entered(s, e, EnterView(s, e))
<1>0. PICK one : one = <<e>>
  OBVIOUS
<1>1. PICK v : v = s.visible
  OBVIOUS
<1>2. PICK row : row = IF v = <<>> THEN <<e>> ELSE IF e < v[1] THEN <<e>> \o v ELSE Append(v, e)
  OBVIOUS
<1>3. v \in Seq(Int) /\ s \in Spies /\ s.lit = IF v = <<>> THEN {} ELSE {v[1]}
  BY <1>1 DEF LightsFirst, Spies
<1>4. row \in Seq(Int) /\ row # <<>> /\ ToSet(row) = ToSet(v) \cup {e}
  <2>1. CASE v = <<>>
    BY <1>2, <2>1 DEF ToSet
  <2>2. CASE v # <<>> /\ e < v[1]
    <3>1. row = one \o v
      BY <1>0, <1>2, <2>2
    <3>2. one \in Seq(Int) /\ ToSet(one) = {e}
      BY <1>0, OneElement
    <3>3. row \in Seq(Int) /\ Len(row) = Len(v) + 1
      BY <1>0, <1>3, <3>1
    <3>4. row # <<>>
      BY <1>3, <3>3
    <3>5. v \in Seq(Int)
      BY <1>3
    <3>6. ToSet(one \o v) = ToSet(one) \cup ToSet(v)
      BY ONLY <3>2, <3>5, ToSetOfConcat
    <3>7. ToSet(row) = ToSet(one) \cup ToSet(v)
      BY <3>1, <3>6
    <3> QED
      BY <3>2, <3>3, <3>4, <3>7
  <2>3. CASE v # <<>> /\ ~(e < v[1])
    <3>1. row = v \o one
      BY <1>0, <1>2, <1>3, <2>3, AppendIsConcat
    <3>2. one \in Seq(Int) /\ ToSet(one) = {e}
      BY <1>0, OneElement
    <3>3. row \in Seq(Int) /\ Len(row) = Len(v) + 1
      BY <1>0, <1>3, <3>1
    <3>4. row # <<>>
      BY <1>3, <3>3
    <3>5. v \in Seq(Int)
      BY <1>3
    <3>6. ToSet(v \o one) = ToSet(v) \cup ToSet(one)
      BY ONLY <3>2, <3>5, ToSetOfConcat
    <3>7. ToSet(row) = ToSet(v) \cup ToSet(one)
      BY <3>1, <3>6
    <3> QED
      BY <3>2, <3>3, <3>4, <3>7
  <2> QED
    BY <2>1, <2>2, <2>3
<1>5. row[1] \in Int
  BY <1>4
<1>6. PICK lit : lit = (IF v = <<>> THEN s.lit ELSE s.lit \ {v[1]}) \cup {row[1]}
  OBVIOUS
<1>7. lit = {row[1]}
  BY <1>3, <1>6
<1>8. EnterView(s, e) = [s EXCEPT !.visible = row, !.lit = lit]
  BY <1>1, <1>2, <1>6 DEF EnterView
<1>9. PICK t : t = EnterView(s, e)
  OBVIOUS
<1>10. row \in Seq(Int) /\ lit \in SUBSET Int
  BY <1>4, <1>5, <1>7
<1>11. s \in Spies
  BY <1>3
<1>12. t = [s EXCEPT !.visible = row, !.lit = lit]
  BY <1>8, <1>9
<1>13. t \in Spies /\ t.visible = row /\ t.lit = lit /\ t.position = s.position
  BY <1>10, <1>11, <1>12 DEF Spies
<1> QED
  BY <1>1, <1>4, <1>7, <1>9, <1>13 DEF Entered, LightsFirst

\* scrollSpy:exit.
LEMMA ExitOne ==
  ASSUME NEW s, LightsFirst(s), NEW e \in Int
  PROVE  Left(s, e, ExitView(s, e))
<1>1. PICK v : v = s.visible
  OBVIOUS
<1>2. v \in Seq(Int) /\ s \in Spies /\ s.lit = IF v = <<>> THEN {} ELSE {v[1]}
  BY <1>1 DEF LightsFirst, Spies
<1>3. CASE v = <<>>
  <2>1. ExitView(s, e) = s /\ ToSet(v) = {}
    BY <1>1, <1>3 DEF ExitView, ToSet
  <2> QED
    BY <1>1, <2>1 DEF Left
<1>4. CASE v # <<>>
  <2>1. PICK P : P = {i \in DOMAIN v : v[i] # e}
    OBVIOUS
  <2>2. PICK row : row = ElementsAt(v, P)
    OBVIOUS
  <2>3. PICK lit : lit = (s.lit \ {v[1]}) \cup IF row = <<>> THEN {} ELSE {row[1]}
    OBVIOUS
  <2>4. lit = IF row = <<>> THEN {} ELSE {row[1]}
    BY <1>2, <1>4, <2>3
  <2>5. P \in SUBSET DOMAIN v
    BY <2>1
  <2>6. /\ row \in Seq(Int)
        /\ \A j \in DOMAIN row : \E i \in P : row[j] = v[i]
        /\ \A i \in P : \E j \in DOMAIN row : row[j] = v[i]
    BY <1>2, <2>2, <2>5, ElementsAtSeq
  <2>7. \A x : x \in ToSet(row) <=> x \in ToSet(v) /\ x # e
    BY <2>1, <2>6 DEF ToSet
  <2>8. row # <<>> => row[1] \in Int
    BY <2>6
  <2>9. lit \in SUBSET Int
    BY <2>4, <2>8
  <2>10. PICK t : t = ExitView(s, e)
    OBVIOUS
  <2>11. t = [s EXCEPT !.visible = row, !.lit = lit]
    BY <1>1, <1>4, <2>1, <2>2, <2>3, <2>10 DEF ExitView
  <2>12. s \in Spies
    BY <1>2
  <2>13. t \in Spies /\ t.visible = row /\ t.lit = lit /\ t.position = s.position
    BY <2>6, <2>9, <2>11, <2>12 DEF Spies
  <2> QED
    BY <1>1, <2>4, <2>7, <2>10, <2>13 DEF Left, LightsFirst
<1> QED
  BY <1>3, <1>4

\* All that entered, then all that left.
LEMMA EnteredAll ==
  ASSUME NEW s, NEW n \in Nat, NEW row, NEW h, EntersAll(h, s, n, row)
  PROVE  HaveEntered(s, n, row, h[n])
<1>1. PICK P : P = {k \in 0..n : HaveEntered(s, k, row, h[k])}
  OBVIOUS
<1>2. 0 \in P
  <2>1. {row[i] : i \in 1..0} = {}
    OBVIOUS
  <2> QED
    BY <1>1, <2>1 DEF EntersAll, HaveEntered
<1>3. ASSUME NEW k \in 1..n, k - 1 \in P PROVE k \in P
  <2>1. Entered(h[k - 1], row[k], h[k])
    BY <1>1, <1>3 DEF EntersAll, HaveEntered
  <2>2. \A i : i \in 1..k <=> i \in 1..k - 1 \/ i = k
    OBVIOUS
  <2>3. {row[i] : i \in 1..k} = {row[i] : i \in 1..k - 1} \cup {row[k]}
    BY <2>2
  <2>4. ToSet(h[k].visible) = ToSet(h[k - 1].visible) \cup {row[k]}
    BY <2>1 DEF Entered
  <2>5. ToSet(h[k - 1].visible) = ToSet(s.visible) \cup {row[i] : i \in 1..k - 1}
    BY <1>1, <1>3 DEF HaveEntered
  <2>6. ToSet(h[k].visible) = ToSet(s.visible) \cup {row[i] : i \in 1..k}
    BY <2>3, <2>4, <2>5
  <2>7. LightsFirst(h[k]) /\ h[k].position = s.position
    BY <1>1, <1>3, <2>1 DEF Entered, HaveEntered
  <2> QED
    BY <1>1, <2>6, <2>7 DEF HaveEntered
<1>4. \A k \in 0..n : k \in P
  BY <1>2, <1>3, StepByStep
<1>5. n \in P
  BY <1>4
<1> QED
  BY <1>1, <1>5

\* Sections asked to leave the row one by one have all left,
LEMMA LeftAll ==
  ASSUME NEW s, NEW n \in Nat, NEW row, NEW h, LeavesAll(h, s, n, row)
  PROVE  HaveLeft(s, n, row, h[n])
<1>1. PICK P : P = {k \in 0..n : HaveLeft(s, k, row, h[k])}
  OBVIOUS
<1>2. 0 \in P
  <2>1. {row[i] : i \in 1..0} = {}
    OBVIOUS
  <2> QED
    BY <1>1, <2>1 DEF LeavesAll, HaveLeft
<1>3. ASSUME NEW k \in 1..n, k - 1 \in P PROVE k \in P
  <2>1. Left(h[k - 1], row[k], h[k])
    BY <1>1, <1>3 DEF LeavesAll, HaveLeft
  <2>2. \A i : i \in 1..k <=> i \in 1..k - 1 \/ i = k
    OBVIOUS
  <2>3. {row[i] : i \in 1..k} = {row[i] : i \in 1..k - 1} \cup {row[k]}
    BY <2>2
  <2>4. ToSet(h[k].visible) = ToSet(h[k - 1].visible) \ {row[k]}
    BY <2>1 DEF Left
  <2>5. ToSet(h[k - 1].visible) = ToSet(s.visible) \ {row[i] : i \in 1..k - 1}
    BY <1>1, <1>3 DEF HaveLeft
  <2>6. ToSet(h[k].visible) = ToSet(s.visible) \ {row[i] : i \in 1..k}
    BY <2>3, <2>4, <2>5
  <2>7. LightsFirst(h[k]) /\ h[k].position = s.position
    BY <1>1, <1>3, <2>1 DEF Left, HaveLeft
  <2> QED
    BY <1>1, <2>6, <2>7 DEF HaveLeft
<1>4. \A k \in 0..n : k \in P
  BY <1>2, <1>3, StepByStep
<1>5. n \in P
  BY <1>4
<1> QED
  BY <1>1, <1>5

\* The folds over the list of those that entered, and of those that left.
LEMMA EnterFold ==
  ASSUME NEW s, LightsFirst(s), NEW n \in Nat, NEW row \in [1..n -> Int], NEW t,
         t = FoldLeft(EnterView, s, row)
  PROVE  HaveEntered(s, n, row, t)
<1> DEFINE Body(f) == [q \in SUBSET (1..n) |->
              IF q = {} THEN s ELSE EnterView(f[q \ {Max(q)}], row[Max(q)])]
           f == CHOOSE f : f = Body(f)
<1>1. DOMAIN row = 1..n
  OBVIOUS
<1>2. t = f[1..n]
  BY <1>1, Zenon DEF FoldLeft, MapThenFoldSet
<1> HIDE DEF f, Body
<1>3. PICK D : D = {u \in Spies : LightsFirst(u)}
  OBVIOUS
<1>4. PICK g : g = [p \in D \X (1..n) |-> EnterView(p[1], row[p[2]])]
  OBVIOUS
<1>5. \A u \in D, i \in 1..n : g[<<u, i>>] = EnterView(u, row[i])
  BY <1>4
<1>6. \A u \in D, i \in 1..n : EnterView(u, row[i]) \in D
  <2> TAKE u \in D, i \in 1..n
  <2>1. Entered(u, row[i], EnterView(u, row[i]))
    BY <1>3, EnterOne
  <2> QED
    BY <1>3, <2>1 DEF Entered, LightsFirst
<1>7. s \in D /\ g \in [D \X (1..n) -> D]
  BY <1>3, <1>4, <1>6 DEF LightsFirst
<1>8. PICK F \in [SUBSET (1..n) -> D] : Folds(F, n, s, g)
  BY <1>7, FoldExists
<1>9. F = Body(F)
  <2>1. ASSUME NEW q \in SUBSET (1..n)
        PROVE  F[q] = IF q = {} THEN s ELSE EnterView(F[q \ {Max(q)}], row[Max(q)])
    <3>1. CASE q = {}
      BY <1>8, <3>1 DEF Folds
    <3>2. CASE q # {}
      <4>1. Max(q) \in q /\ \A y \in q : Max(q) >= y
        BY <3>2, LastPlace
      <4>2. PICK m : m = Max(q)
        OBVIOUS
      <4>3. m \in q /\ m \in 1..n /\ (\A y \in q : y <= m) /\ q \ {m} \in SUBSET (1..n)
        BY <4>1, <4>2
      <4>4. F[q] = g[<<F[q \ {m}], m>>]
        BY <1>8, <4>3 DEF Folds
      <4>5. F[q \ {m}] \in D
        BY <4>3
      <4>6. F[q] = EnterView(F[q \ {m}], row[m])
        BY <1>5, <4>3, <4>4, <4>5
      <4> QED
        BY <3>2, <4>2, <4>6
    <3> QED
      BY <3>1, <3>2
  <2>2. F = [q \in SUBSET (1..n) |-> F[q]]
    OBVIOUS
  <2> QED
    BY <2>1, <2>2, Zenon DEF Body
<1>10. f = Body(f)
  BY <1>9, Zenon DEF f
<1>11. f[1..0] = s
  BY <1>10 DEF Body
<1>12. \A i \in 1..n : f[1..i] = EnterView(f[1..i - 1], row[i])
  <2> TAKE i \in 1..n
  <2>1. 1..i \in SUBSET (1..n) /\ i \in Nat /\ i > 0
    OBVIOUS
  <2>2. 1..i # {} /\ (1..i) \ {i} = 1..i - 1 /\ Max(1..i) = i
    <3>1. Max(1..i) \in 1..i /\ \A y \in 1..i : Max(1..i) >= y
      BY <2>1, LastPlace, PlacesUpTo
    <3> QED
      BY <2>1, <3>1, PlacesUpTo
  <2>3. f[1..i] = EnterView(f[(1..i) \ {Max(1..i)}], row[Max(1..i)])
    BY <1>10, <2>1, <2>2 DEF Body
  <2> QED
    BY <2>2, <2>3
<1>13. PICK h : h = [i \in 0..n |-> f[1..i]]
  OBVIOUS
<1>14. h[0] = s /\ \A i \in 1..n : h[i] = EnterView(h[i - 1], row[i])
  <2>1. h[0] = f[1..0] /\ \A i \in 1..n : h[i] = f[1..i] /\ h[i - 1] = f[1..i - 1]
    BY <1>13
  <2> QED
    BY <1>11, <1>12, <2>1
<1>15. EntersAll(h, s, n, row)
  BY <1>14, EnterOne DEF EntersAll
<1>16. t = h[n]
  BY <1>2, <1>13
<1> QED
  BY <1>15, <1>16, EnteredAll

\* which the loop does (exit).
LEMMA ExitFold ==
  ASSUME NEW s, LightsFirst(s), NEW n \in Nat, NEW row \in [1..n -> Int], NEW t,
         t = FoldLeft(ExitView, s, row)
  PROVE  HaveLeft(s, n, row, t)
<1> DEFINE Body(f) == [q \in SUBSET (1..n) |->
              IF q = {} THEN s ELSE ExitView(f[q \ {Max(q)}], row[Max(q)])]
           f == CHOOSE f : f = Body(f)
<1>1. DOMAIN row = 1..n
  OBVIOUS
<1>2. t = f[1..n]
  BY <1>1, Zenon DEF FoldLeft, MapThenFoldSet
<1> HIDE DEF f, Body
<1>3. PICK D : D = {u \in Spies : LightsFirst(u)}
  OBVIOUS
<1>4. PICK g : g = [p \in D \X (1..n) |-> ExitView(p[1], row[p[2]])]
  OBVIOUS
<1>5. \A u \in D, i \in 1..n : g[<<u, i>>] = ExitView(u, row[i])
  BY <1>4
<1>6. \A u \in D, i \in 1..n : ExitView(u, row[i]) \in D
  <2> TAKE u \in D, i \in 1..n
  <2>1. Left(u, row[i], ExitView(u, row[i]))
    BY <1>3, ExitOne
  <2> QED
    BY <1>3, <2>1 DEF Left, LightsFirst
<1>7. s \in D /\ g \in [D \X (1..n) -> D]
  BY <1>3, <1>4, <1>6 DEF LightsFirst
<1>8. PICK F \in [SUBSET (1..n) -> D] : Folds(F, n, s, g)
  BY <1>7, FoldExists
<1>9. F = Body(F)
  <2>1. ASSUME NEW q \in SUBSET (1..n)
        PROVE  F[q] = IF q = {} THEN s ELSE ExitView(F[q \ {Max(q)}], row[Max(q)])
    <3>1. CASE q = {}
      BY <1>8, <3>1 DEF Folds
    <3>2. CASE q # {}
      <4>1. Max(q) \in q /\ \A y \in q : Max(q) >= y
        BY <3>2, LastPlace
      <4>2. PICK m : m = Max(q)
        OBVIOUS
      <4>3. m \in q /\ m \in 1..n /\ (\A y \in q : y <= m) /\ q \ {m} \in SUBSET (1..n)
        BY <4>1, <4>2
      <4>4. F[q] = g[<<F[q \ {m}], m>>]
        BY <1>8, <4>3 DEF Folds
      <4>5. F[q \ {m}] \in D
        BY <4>3
      <4>6. F[q] = ExitView(F[q \ {m}], row[m])
        BY <1>5, <4>3, <4>4, <4>5
      <4> QED
        BY <3>2, <4>2, <4>6
    <3> QED
      BY <3>1, <3>2
  <2>2. F = [q \in SUBSET (1..n) |-> F[q]]
    OBVIOUS
  <2> QED
    BY <2>1, <2>2, Zenon DEF Body
<1>10. f = Body(f)
  BY <1>9, Zenon DEF f
<1>11. f[1..0] = s
  BY <1>10 DEF Body
<1>12. \A i \in 1..n : f[1..i] = ExitView(f[1..i - 1], row[i])
  <2> TAKE i \in 1..n
  <2>1. 1..i \in SUBSET (1..n) /\ i \in Nat /\ i > 0
    OBVIOUS
  <2>2. 1..i # {} /\ (1..i) \ {i} = 1..i - 1 /\ Max(1..i) = i
    <3>1. Max(1..i) \in 1..i /\ \A y \in 1..i : Max(1..i) >= y
      BY <2>1, LastPlace, PlacesUpTo
    <3> QED
      BY <2>1, <3>1, PlacesUpTo
  <2>3. f[1..i] = ExitView(f[(1..i) \ {Max(1..i)}], row[Max(1..i)])
    BY <1>10, <2>1, <2>2 DEF Body
  <2> QED
    BY <2>2, <2>3
<1>13. PICK h : h = [i \in 0..n |-> f[1..i]]
  OBVIOUS
<1>14. h[0] = s /\ \A i \in 1..n : h[i] = ExitView(h[i - 1], row[i])
  <2>1. h[0] = f[1..0] /\ \A i \in 1..n : h[i] = f[1..i] /\ h[i - 1] = f[1..i - 1]
    BY <1>13
  <2> QED
    BY <1>11, <1>12, <2>1
<1>15. LeavesAll(h, s, n, row)
  BY <1>14, ExitOne DEF LeavesAll
<1>16. t = h[n]
  BY <1>2, <1>13
<1> QED
  BY <1>15, <1>16, LeftAll

\* Places in ascending order are all of them.
LEMMA AscendingLists ==
  ASSUME NEW P \in SUBSET Int, IsFiniteSet(P)
  PROVE  {Ascending(P)[i] : i \in 1..Cardinality(P)} = P
<1>1. PICK n : n = Cardinality(P)
  OBVIOUS
<1>2. PICK a : a = Ascending(P)
  OBVIOUS
<1>3. a \in [1..n -> P] /\ \A x \in P : \E k \in 1..n : a[k] = x
  BY <1>1, <1>2, AscendingTheorem
<1>4. {a[i] : i \in 1..n} = P
  BY <1>3
<1> QED
  BY <1>1, <1>2, <1>4

SpyInv ==
  /\ LightsFirst(spy) /\ ToSet(spy.visible) = spy.inView
  /\ spy.inView \subseteq 1..Sections /\ ScanOwed

\* A scan takes in what the window shows now, and no more.
LEMMA ScanKeeps ==
  ASSUME NEW s, LightsFirst(s), ToSet(s.visible) = s.inView,
         s.inView \subseteq 1..Sections, Scan(s)
  PROVE  SpyInv'
<1>1. PICK now : now = InView(s.position)
  OBVIOUS
<1>2. PICK in : in = now \ s.inView
  OBVIOUS
<1>3. PICK out : out = s.inView \ now
  OBVIOUS
<1>4. now \subseteq 1..Sections
  BY <1>1 DEF InView
<1>5. IsFiniteSet(1..Sections) /\ 1..Sections \subseteq Int
  BY FS_Interval, ScrollAssumption
<1>6. in \in SUBSET Int /\ IsFiniteSet(in) /\ out \in SUBSET Int /\ IsFiniteSet(out)
  BY <1>2, <1>3, <1>4, <1>5, FS_Subset
<1>7. PICK entered : /\ entered = FoldLeft(EnterView, s, Ascending(in))
                     /\ spy' = [FoldLeft(ExitView, entered, Ascending(out)) EXCEPT
                          !.inView = now, !.seen = s.position, !.cooling = TRUE,
                          !.timer = FALSE]
  BY <1>1, <1>2, <1>3, Zenon DEF Scan
<1>8. PICK left : left = FoldLeft(ExitView, entered, Ascending(out))
  OBVIOUS
<1>9. HaveEntered(s, Cardinality(in), Ascending(in), entered)
  <2>1. Cardinality(in) \in Nat /\ Ascending(in) \in [1..Cardinality(in) -> Int]
    BY <1>6, AscendingTheorem
  <2> QED
    BY <1>7, <2>1, EnterFold
<1>10. HaveLeft(entered, Cardinality(out), Ascending(out), left)
  <2>1. Cardinality(out) \in Nat /\ Ascending(out) \in [1..Cardinality(out) -> Int]
    BY <1>6, AscendingTheorem
  <2>2. LightsFirst(entered)
    BY <1>9 DEF HaveEntered
  <2> QED
    BY <1>8, <2>1, <2>2, ExitFold
<1>11. {Ascending(in)[i] : i \in 1..Cardinality(in)} = in
  BY <1>6, AscendingLists
<1>12. {Ascending(out)[i] : i \in 1..Cardinality(out)} = out
  BY <1>6, AscendingLists
<1>13. ToSet(left.visible) = now
  <2>1. ToSet(entered.visible) = s.inView \cup in
    BY <1>9, <1>11 DEF HaveEntered
  <2>2. ToSet(left.visible) = ToSet(entered.visible) \ out
    BY <1>10, <1>12 DEF HaveLeft
  <2> QED
    BY <1>2, <1>3, <2>1, <2>2
<1>14. LightsFirst(left) /\ left.position = s.position
  BY <1>9, <1>10 DEF HaveEntered, HaveLeft
<1>15. spy' = [left EXCEPT !.inView = now, !.seen = s.position, !.cooling = TRUE,
                           !.timer = FALSE]
  BY <1>7, <1>8
<1>16. left \in Spies /\ now \in SUBSET Int /\ s.position \in Int
  BY <1>4, <1>14 DEF LightsFirst, Spies
<1>17. /\ spy' \in Spies /\ spy'.visible = left.visible /\ spy'.lit = left.lit
       /\ spy'.inView = now /\ spy'.seen = s.position /\ spy'.position = left.position
  BY <1>15, <1>16 DEF Spies
<1>18. LightsFirst(spy)'
  BY <1>14, <1>17 DEF LightsFirst
<1> QED
  BY <1>4, <1>13, <1>14, <1>17, <1>18 DEF SpyInv, ScanOwed

\* Scrolling, clicks on links, later scans and the end of a wait.
SpyNext ==
  \/ \E p \in 1..Sections + 1 : ScrollSpied(p)
  \/ \E e \in 1..Sections : ClickSpyLink(e)
  \/ LaterScan \/ WaitOver

\* Every step of the scroll spy,
LEMMA SpyStep ==
  ASSUME SpyInv, UNCHANGED spy \/ SpyNext
  PROVE  SpyInv'
<1> USE DEF SpyInv
<1>1. spy \in Spies
  BY DEF LightsFirst
<1>2. ASSUME NEW p \in Int, ScrollSpied(p) PROVE SpyInv'
  <2>1. PICK moved : moved = [spy EXCEPT !.position = p]
    OBVIOUS
  <2>2. /\ moved \in Spies /\ moved.visible = spy.visible /\ moved.lit = spy.lit
        /\ moved.inView = spy.inView
    BY <1>1, <2>1 DEF Spies
  <2>3. LightsFirst(moved)
    BY <2>2 DEF LightsFirst
  <2>4. CASE spy.cooling
    <3>1. spy' = [moved EXCEPT !.timer = TRUE]
      BY <1>2, <2>1, <2>4 DEF ScrollSpied
    <3>2. /\ spy' \in Spies /\ spy'.visible = spy.visible /\ spy'.lit = spy.lit
          /\ spy'.inView = spy.inView /\ spy'.timer = TRUE
      BY <2>2, <3>1 DEF Spies
    <3>3. LightsFirst(spy)'
      BY <3>2 DEF LightsFirst
    <3> QED
      BY <3>2, <3>3 DEF ScanOwed
  <2>5. CASE ~spy.cooling
    <3>1. Scan(moved)
      BY <1>2, <2>1, <2>5 DEF ScrollSpied
    <3> QED
      BY <2>2, <2>3, <3>1, ScanKeeps
  <2> QED
    BY <2>4, <2>5
<1>3. CASE LaterScan
  BY <1>3, ScanKeeps DEF LaterScan
<1>4. CASE WaitOver
  <2>1. spy' = [spy EXCEPT !.cooling = FALSE]
    BY <1>4 DEF WaitOver
  <2>2. /\ spy' \in Spies /\ spy'.visible = spy.visible /\ spy'.lit = spy.lit
        /\ spy'.inView = spy.inView /\ spy'.timer = spy.timer /\ spy'.seen = spy.seen
        /\ spy'.position = spy.position
    BY <1>1, <2>1 DEF Spies
  <2>3. LightsFirst(spy)'
    BY <2>2 DEF LightsFirst
  <2> QED
    BY <2>2, <2>3 DEF ScanOwed
<1>5. CASE UNCHANGED spy
  BY <1>5 DEF LightsFirst, ScanOwed
<1>6. ASSUME SpyNext PROVE SpyInv'
  BY <1>2, <1>3, <1>4, <1>6, ScrollAssumption DEF SpyNext, ClickSpyLink
<1> QED
  BY <1>5, <1>6

\* which lights what it should,
LEMMA SpyLights == SpyInv => ScanOwed /\ LitSectionInView
<1> SUFFICES ASSUME SpyInv PROVE LitSectionInView
  BY DEF SpyInv
<1>1. /\ spy.visible \in Seq(Int) /\ ToSet(spy.visible) = spy.inView
      /\ spy.lit = IF spy.visible = <<>> THEN {} ELSE {spy.visible[1]}
  BY DEF SpyInv, LightsFirst, Spies
<1>2. CASE spy.visible = <<>>
  <2>1. spy.inView = {} /\ spy.lit = {}
    BY <1>1, <1>2 DEF ToSet
  <2> QED
    BY <2>1, FS_EmptySet DEF LitSectionInView
<1>3. CASE spy.visible # <<>>
  <2>1. spy.visible[1] \in spy.inView /\ spy.lit = {spy.visible[1]}
    BY <1>1, <1>3 DEF ToSet
  <2>2. Cardinality(spy.lit) = 1
    BY <2>1, FS_Singleton
  <2> QED
    BY <2>1, <2>2 DEF LitSectionInView
<1> QED
  BY <1>2, <1>3

\* from the start.
LEMMA SpyInitially == SpyInit => SpyInv
<1> SUFFICES ASSUME SpyInit PROVE SpyInv
  OBVIOUS
<1>1. /\ spy \in Spies /\ spy.visible = <<>> /\ spy.lit = {} /\ spy.inView = {}
      /\ spy.timer = TRUE
  BY DEF SpyInit, Spies
<1>2. ToSet(spy.visible) = {}
  BY <1>1 DEF ToSet
<1> QED
  BY <1>1, <1>2 DEF SpyInv, LightsFirst, ScanOwed

-----------------------------------------------------------------------------
(* What scrollFire, the pushpin and the parallax image keep.               *)

Passed(p) == p < fire.position + WindowHeight

FireInv ==
  /\ fire \in [didScroll : BOOLEAN, position : Nat, done : SUBSET Positions,
               calls : [Positions -> Nat], threw : BOOLEAN]
  /\ fire.threw \/
       /\ \A p \in Positions : fire.calls[p] = IF p \in fire.done THEN 1 ELSE 0
       /\ ~fire.didScroll /\ fire.position > 0 =>
            \A p \in Positions : Passed(p) => p \in fire.done

PinFields == {"top", "bottom", "offset", "original", "scrolled", "class", "at"}

\* top, where the element is pinned from, and bottom, where it is pinned to.
PinTyped(p) ==
  /\ p \in [top : Nat, bottom : Nat, offset : Nat, original : Nat, scrolled : Int,
            class : {"pin-top", "pinned", "pin-bottom"}, at : Int]
  /\ p.top <= p.bottom

PinnedAt(p) ==
  /\ p.class = IF p.scrolled < p.top THEN "pin-top"
               ELSE IF p.scrolled > p.bottom THEN "pin-bottom" ELSE "pinned"
  /\ p.at = IF p.scrolled < p.top THEN 0
            ELSE IF p.scrolled > p.bottom THEN p.bottom - p.original ELSE p.offset

PinInv == PinTyped(pin) /\ PinnedAt(pin)

ParallaxInv ==
  parallax \in [top : Nat, height : Nat \ {0}, shown : BOOLEAN, shift : 0..ImageExcess,
               scrollTop : Nat]

\* Every step of scrollFire,
LEMMA FireStep ==
  ASSUME FireInv, \/ UNCHANGED fire \/ \E p \in Positions : ScrollFired(p)
                  \/ \E p \in Positions \cup {-1} : FireTick(p)
  PROVE  FireInv'
<1>1. CASE UNCHANGED fire
  BY <1>1 DEF FireInv, Passed
<1>2. ASSUME NEW p \in Positions, ScrollFired(p) PROVE FireInv'
  <2>1. fire' = [fire EXCEPT !.position = p, !.didScroll = TRUE]
    BY <1>2 DEF ScrollFired
  <2>2. p \in Nat
    BY ScrollAssumption
  <2>3. /\ fire' \in [didScroll : BOOLEAN, position : Nat, done : SUBSET Positions,
                      calls : [Positions -> Nat], threw : BOOLEAN]
        /\ fire'.didScroll /\ fire'.done = fire.done /\ fire'.calls = fire.calls
        /\ fire'.threw = fire.threw
    BY <2>1, <2>2 DEF FireInv
  <2> QED
    BY <2>3 DEF FireInv
<1>3. ASSUME NEW thrown \in Positions \cup {-1}, FireTick(thrown) PROVE FireInv'
  <2> DEFINE passed == {p \in Positions : p < fire.position + WindowHeight} \ fire.done
             run == IF thrown = -1 THEN passed ELSE {p \in passed : p <= thrown}
             calls == [p \in Positions |-> IF p \in run THEN fire.calls[p] + 1
                                           ELSE fire.calls[p]]
             done == fire.done \cup (run \ {thrown})
  <2>1. passed = {p \in Positions : Passed(p)} \ fire.done
    BY DEF Passed
  <2>2. run = IF thrown = -1 THEN passed ELSE {p \in passed : p <= thrown}
    OBVIOUS
  <2>3. calls = [p \in Positions |-> IF p \in run THEN fire.calls[p] + 1 ELSE fire.calls[p]]
    OBVIOUS
  <2>4. done = fire.done \cup (run \ {thrown})
    OBVIOUS
  <2>5. fire' = [fire EXCEPT !.didScroll = FALSE, !.done = done, !.calls = calls,
                             !.threw = fire.threw \/ thrown # -1]
    BY <1>3, Zenon DEF FireTick
  <2> HIDE DEF passed, run, calls, done
  <2>6. calls \in [Positions -> Nat] /\ done \in SUBSET Positions
    BY <2>1, <2>2, <2>3, <2>4 DEF FireInv
  <2>7. /\ fire' \in [didScroll : BOOLEAN, position : Nat, done : SUBSET Positions,
                      calls : [Positions -> Nat], threw : BOOLEAN]
        /\ fire'.position = fire.position /\ fire'.done = done /\ fire'.calls = calls
        /\ fire'.threw = (fire.threw \/ thrown # -1)
    BY <2>5, <2>6 DEF FireInv
  <2>8. ASSUME ~fire.threw, thrown = -1
        PROVE  /\ \A p \in Positions : calls[p] = IF p \in done THEN 1 ELSE 0
               /\ \A p \in Positions : Passed(p) => p \in done
    <3>1. run = passed /\ -1 \notin Positions
      BY <2>2, <2>8, ScrollAssumption
    <3>2. done = fire.done \cup passed
      BY <2>1, <2>4, <2>8, <3>1
    <3>3. \A p \in Positions : fire.calls[p] = IF p \in fire.done THEN 1 ELSE 0
      BY <2>8 DEF FireInv
    <3> QED
      BY <2>1, <2>3, <3>1, <3>2, <3>3
  <2> QED
    BY <2>7, <2>8 DEF FireInv, Passed
<1> QED
  BY <1>1, <1>2, <1>3

\* from the start.
LEMMA FireInitially == FireInit => FireInv
BY ScrollAssumption DEF FireInit, FireInv

\* Every step of the pushpin,
LEMMA PinStep ==
  ASSUME PinInv, UNCHANGED pin \/ \E p \in Positions : ScrollPinned(p)
  PROVE  PinInv'
<1>1. CASE UNCHANGED pin
  BY <1>1 DEF PinInv, PinTyped, PinnedAt
<1>2. ASSUME NEW p \in Positions, ScrollPinned(p) PROVE PinInv'
  <2>1. PICK m : m = [pin EXCEPT !.scrolled = p + pin.offset]
    OBVIOUS
  <2>2. p \in Nat
    BY ScrollAssumption
  <2>3. /\ PinTyped(m) /\ m.top = pin.top /\ m.bottom = pin.bottom
        /\ m.offset = pin.offset /\ m.original = pin.original
        /\ m.class = pin.class /\ m.at = pin.at
    BY <2>1, <2>2 DEF PinInv, PinTyped
  <2>4. /\ m.class = "pin-top" => m.at = 0
        /\ m.class = "pin-bottom" => m.at = m.bottom - m.original
        /\ m.class = "pinned" => m.at = m.offset
    BY <2>3 DEF PinInv, PinTyped, PinnedAt
  <2>5. pin' = UpdateElements(m)
    BY <1>2, <2>1 DEF ScrollPinned
  <2>6. /\ m.top \in Nat /\ m.bottom \in Nat /\ m.scrolled \in Int /\ m.top <= m.bottom
        /\ m.offset \in Int /\ m.bottom - m.original \in Int
    BY <2>3 DEF PinTyped
  <2>7. /\ m.scrolled < m.top => ~(m.top <= m.scrolled) /\ ~(m.scrolled > m.bottom)
        /\ m.scrolled > m.bottom => ~(m.bottom >= m.scrolled) /\ ~(m.scrolled < m.top)
        /\ ~(m.scrolled < m.top) /\ ~(m.scrolled > m.bottom) =>
             m.top <= m.scrolled /\ m.bottom >= m.scrolled
    BY <2>6
  <2>8. ASSUME NEW class \in {"pin-top", "pinned", "pin-bottom"}, NEW at \in Int
        PROVE  /\ PinTyped(Pin(m, class, at)) /\ Pin(m, class, at).top = m.top
               /\ Pin(m, class, at).bottom = m.bottom
               /\ Pin(m, class, at).offset = m.offset
               /\ Pin(m, class, at).original = m.original
               /\ Pin(m, class, at).scrolled = m.scrolled
               /\ Pin(m, class, at).class = class /\ Pin(m, class, at).at = at
    BY <2>3 DEF PinTyped, Pin
  <2>9. PinTyped(UpdateElements(m)) /\ PinnedAt(UpdateElements(m))
    <3>1. CASE m.scrolled < m.top
      <4>1. UpdateElements(m) = IF m.class # "pin-top" THEN Pin(m, "pin-top", 0) ELSE m
        BY <2>7, <3>1, Zenon DEF UpdateElements
      <4> QED
        BY <2>3, <2>4, <2>7, <2>8, <3>1, <4>1 DEF PinnedAt
    <3>2. CASE m.scrolled > m.bottom
      <4>1. UpdateElements(m) = IF m.class # "pin-bottom"
                                THEN Pin(m, "pin-bottom", m.bottom - m.original) ELSE m
        BY <2>7, <3>2, Zenon DEF UpdateElements
      <4> QED
        BY <2>3, <2>4, <2>6, <2>7, <2>8, <3>2, <4>1 DEF PinnedAt
    <3>3. CASE ~(m.scrolled < m.top) /\ ~(m.scrolled > m.bottom)
      <4>1. UpdateElements(m) = IF m.class # "pinned" THEN Pin(m, "pinned", m.offset) ELSE m
        BY <2>7, <3>3, Zenon DEF UpdateElements
      <4> QED
        BY <2>3, <2>4, <2>6, <2>7, <2>8, <3>3, <4>1 DEF PinnedAt
    <3> QED
      BY <3>1, <3>2, <3>3
  <2> QED
    BY <2>5, <2>9 DEF PinInv, PinTyped, PinnedAt
<1> QED
  BY <1>1, <1>2

\* from the start,
LEMMA PinInitially == PinInit => PinInv
<1> SUFFICES ASSUME PinInit PROVE PinInv
  OBVIOUS
<1>1. Positions \subseteq Nat
  BY ScrollAssumption
<1>2. PICK top \in Nat, bottom \in Nat, offset \in Nat, original \in Nat, start \in Nat :
        /\ top <= bottom
        /\ pin = [top |-> top, bottom |-> bottom, offset |-> offset,
                  original |-> original, scrolled |-> start,
                  class |-> IF start < top THEN "pin-top"
                            ELSE IF start > bottom THEN "pin-bottom" ELSE "pinned",
                  at |-> IF start < top THEN 0
                         ELSE IF start > bottom THEN bottom - original ELSE offset]
  <2> DEFINE P == IF "pin" \in page THEN Positions ELSE {0}
             Q == IF "pin" \in page THEN {0, 1} ELSE {0}
  <2>2. P \subseteq Nat /\ Q \subseteq Nat
    BY <1>1
  <2>3. PICK top \in P, bottom \in P, offset \in Q, original \in P, start \in P :
          /\ top <= bottom
          /\ pin = [top |-> top, bottom |-> bottom, offset |-> offset,
                    original |-> original, scrolled |-> start,
                    class |-> IF start < top THEN "pin-top"
                              ELSE IF start > bottom THEN "pin-bottom" ELSE "pinned",
                    at |-> IF start < top THEN 0
                           ELSE IF start > bottom THEN bottom - original ELSE offset]
    BY Zenon DEF PinInit
  <2> HIDE DEF P, Q
  <2> QED
    BY <2>2, <2>3
<1> QED
  BY <1>2 DEF PinInv, PinTyped, PinnedAt

\* so that it is where the scroll puts it.
LEMMA PinFollows == PinInv => PinFollowsScroll
BY DEF PinInv, PinTyped, PinnedAt, PinFollowsScroll

\* A part of the image's excess, rounded, is no more than all of it.
LEMMA RoundBound ==
  ASSUME NEW E \in Nat, NEW a \in Nat, NEW b \in Nat \ {0}, a <= b
  PROVE  Round(E * a, b) \in 0..E
<1>1. PICK x : x = 2 * (E * a) + b
  OBVIOUS
<1>2. PICK D : D = 2 * b
  OBVIOUS
<1>3. PICK q : q = x \div D
  OBVIOUS
<1>4. E * a \in Nat /\ E * b \in Nat /\ E * a <= E * b
  OBVIOUS
<1>5. x \in Nat /\ D \in Nat \ {0} /\ x < D * (E + 1)
  BY <1>1, <1>2, <1>4
<1>6. q \in Int /\ x % D \in 0..D - 1 /\ x = D * q + (x % D)
  BY <1>3, <1>5, DivMod
<1>7. ~(q >= E + 1)
  <2> SUFFICES ASSUME q >= E + 1 PROVE FALSE
    OBVIOUS
  <2>1. D * q >= D * (E + 1)
    BY <1>5, <1>6
  <2>2. D * q \in Int /\ D * (E + 1) \in Int
    BY <1>5, <1>6
  <2> QED
    BY <1>5, <1>6, <2>1, <2>2
<1>8. q >= 0
  <2> SUFFICES ASSUME 0 - q >= 1 PROVE FALSE
    BY <1>6
  <2>1. D * (0 - q) >= D
    BY <1>5, <1>6, AtLeast
  <2>2. D * (0 - q) = 0 - D * q
    BY <1>5, <1>6
  <2> QED
    BY <1>5, <1>6, <2>1, <2>2
<1> QED
  BY <1>1, <1>2, <1>3, <1>6, <1>7, <1>8 DEF Round

\* Every step of the parallax image,
LEMMA ParallaxStep ==
  ASSUME ParallaxInv, \/ UNCHANGED parallax \/ \E p \in Positions : ScrollParallax(p)
                      \/ ParallaxLoaded
  PROVE  ParallaxInv'
<1>1. ASSUME NEW t \in Nat, NEW initial \in BOOLEAN,
             parallax' = UpdateParallax(parallax, t, initial)
      PROVE  ParallaxInv'
  <2>1. PICK within : within = /\ parallax.top + parallax.height > t
                               /\ parallax.top < t + WindowHeight
    OBVIOUS
  <2>2. PICK shift : shift = IF within THEN Round(ImageExcess * (t + WindowHeight - parallax.top),
                                                 parallax.height + WindowHeight)
                             ELSE parallax.shift
    OBVIOUS
  <2>3. parallax' = [parallax EXCEPT !.scrollTop = t, !.shown = parallax.shown \/ initial,
                                     !.shift = shift]
    BY <1>1, <2>1, <2>2 DEF UpdateParallax
  <2>4. ImageExcess \in Nat /\ WindowHeight \in Nat \ {0}
    BY ScrollAssumption
  <2>5. shift \in 0..ImageExcess
    <3>1. CASE within
      <4>1. PICK a, b : /\ a = t + WindowHeight - parallax.top
                        /\ b = parallax.height + WindowHeight
        OBVIOUS
      <4>2. a \in Nat /\ b \in Nat \ {0} /\ a <= b
        <5>1. /\ parallax.top \in Nat /\ parallax.height \in Nat \ {0}
              /\ parallax.top + parallax.height > t /\ parallax.top < t + WindowHeight
          BY <2>1, <3>1 DEF ParallaxInv
        <5> QED
          BY <2>4, <4>1, <5>1
      <4>3. Round(ImageExcess * a, b) \in 0..ImageExcess
        BY <2>4, <4>2, RoundBound
      <4> QED
        BY <2>2, <3>1, <4>1, <4>3
    <3>2. CASE ~within
      BY <2>2, <3>2 DEF ParallaxInv
    <3> QED
      BY <3>1, <3>2
  <2> QED
    BY <2>3, <2>5 DEF ParallaxInv
<1>2. CASE UNCHANGED parallax
  BY <1>2 DEF ParallaxInv
<1>3. ASSUME NEW p \in Positions, ScrollParallax(p) PROVE ParallaxInv'
  BY <1>1, <1>3, ScrollAssumption DEF ScrollParallax
<1>4. CASE ParallaxLoaded
  BY <1>1, <1>4 DEF ParallaxLoaded, ParallaxInv
<1> QED
  BY <1>2, <1>3, <1>4

\* from the start.
LEMMA ParallaxInitially == ParallaxInit => ParallaxInv
<1> SUFFICES ASSUME ParallaxInit PROVE ParallaxInv
  OBVIOUS
<1>1. Positions \subseteq Nat /\ WindowHeight \in Nat \ {0} /\ ImageExcess \in Nat
  BY ScrollAssumption
<1>2. PICK top \in Nat, height \in Nat \ {0} :
        parallax = [top |-> top, height |-> height, shown |-> FALSE, shift |-> 0,
                    scrollTop |-> 0]
  <2>1. PICK P, Q : /\ P = IF "parallax" \in page THEN Positions ELSE {0}
                    /\ Q = IF "parallax" \in page THEN 1..WindowHeight ELSE {1}
    OBVIOUS
  <2>2. P \subseteq Nat /\ Q \subseteq Nat \ {0}
    BY <1>1, <2>1
  <2> QED
    BY <2>1, <2>2, Zenon DEF ParallaxInit
<1> QED
  BY <1>1, <1>2 DEF ParallaxInv

\* A step of the page, to those who listen to the scrolling.
LEMMA ScrollSteps ==
  ASSUME [Next]_vars
  PROVE  /\ UNCHANGED spy \/ SpyNext
         /\ \/ UNCHANGED fire \/ \E p \in Positions : ScrollFired(p)
            \/ \E p \in Positions \cup {-1} : FireTick(p)
         /\ UNCHANGED pin \/ \E p \in Positions : ScrollPinned(p)
         /\ \/ UNCHANGED parallax \/ \E p \in Positions : ScrollParallax(p)
            \/ ParallaxLoaded
<1>1. ASSUME SliderNext PROVE UNCHANGED <<spy, fire, pin, parallax>>
  BY <1>1 DEF SliderNext, SliderTick, PanSliderEnd, SliderFaded, SliderSwiped,
              ClickIndicator, StepSlider, RunSlider, PanSlider, SliderVars
<1>2. ASSUME ItemsNext PROVE UNCHANGED <<spy, fire, pin, parallax>>
  BY <1>2 DEF ItemsNext, PanItem, PanItemEnd, ItemGone, ItemsVars
<1>3. ASSUME SpyNext PROVE UNCHANGED <<fire, pin, parallax>>
  BY <1>3 DEF SpyNext, ScrollSpied, ClickSpyLink, LaterScan, WaitOver, SpyVars
<1>4. ASSUME NEW p \in Positions, ScrollFired(p) PROVE UNCHANGED <<spy, pin, parallax>>
  BY <1>4 DEF ScrollFired, FireVars
<1>5. ASSUME NEW p \in Positions \cup {-1}, FireTick(p)
      PROVE  UNCHANGED <<spy, pin, parallax>>
  BY <1>5 DEF FireTick, FireVars
<1>6. ASSUME NEW p \in Positions, ScrollPinned(p) PROVE UNCHANGED <<spy, fire, parallax>>
  BY <1>6 DEF ScrollPinned
<1>7. ASSUME NEW p \in Positions, ScrollParallax(p) PROVE UNCHANGED <<spy, fire, pin>>
  BY <1>7 DEF ScrollParallax
<1>8. ASSUME ParallaxLoaded PROVE UNCHANGED <<spy, fire, pin>>
  BY <1>8 DEF ParallaxLoaded
<1>9. ScrollNext => \/ SpyNext \/ ParallaxLoaded
                    \/ \E p \in Positions : ScrollFired(p) \/ ScrollPinned(p) \/ ScrollParallax(p)
                    \/ \E p \in Positions \cup {-1} : FireTick(p)
  BY Zenon DEF ScrollNext, SpyNext
<1>10. CASE ScrollNext
  BY <1>3, <1>4, <1>5, <1>6, <1>7, <1>8, <1>9, <1>10
<1>11. ScrollingNext \/ UNCHANGED scrollVars
  BY Zenon DEF Next, vars
<1> QED
  BY <1>1, <1>2, <1>10, <1>11 DEF ScrollingNext, scrollVars

\* Whoever listens to the scrolling has seen where the window is or has a timer
\* set to look, and what it shows fits the position it saw (scrollSpy,
\* scrollFire, pushpin, parallax).
THEOREM ScrollIsAnswered == Spec => []ScrollAnswered
<1> DEFINE Inv == SpyInv /\ FireInv /\ PinInv /\ ParallaxInv
<1>1. Init => Inv
  BY SpyInitially, FireInitially, PinInitially, ParallaxInitially DEF Init, ScrollingInit
<1>2. Inv /\ [Next]_vars => Inv'
  <2> SUFFICES ASSUME Inv, [Next]_vars PROVE Inv'
    OBVIOUS
  <2>1. SpyInv'
    BY ScrollSteps, SpyStep
  <2>2. FireInv'
    BY ScrollSteps, FireStep
  <2>3. PinInv'
    BY ScrollSteps, PinStep
  <2>4. ParallaxInv'
    BY ScrollSteps, ParallaxStep
  <2> QED
    BY <2>1, <2>2, <2>3, <2>4
<1>3. Inv => ScrollAnswered
  <2>1. FireInv => FiredOnce
    BY DEF FireInv, FiredOnce, Passed
  <2>2. ParallaxInv => ParallaxCovers
    BY ScrollAssumption DEF ParallaxInv, ParallaxCovers
  <2> QED
    BY <2>1, <2>2, SpyLights, PinFollows DEF ScrollAnswered
<1> QED
  BY <1>1, <1>2, <1>3, PTL DEF Spec

-----------------------------------------------------------------------------
(* The date picker looks for an enabled date: the walk from a disabled one  *)
(* between the limits, which turns at each of them once (validate).        *)

\* A walk of validate: the date it is at, its step, and the limits it has met.
Walkers == [date : Int, step : Int \ {0}, atMin : BOOLEAN, atMax : BOOLEAN]

Walker(date, step, atMin, atMax) ==
  [date |-> date, step |-> step, atMin |-> atMin, atMax |-> atMax]

\* One turn, from the date d that is left after a return to the start.
Turned(c, s, t, d, k) ==
  \/ d <= c.min /\ ~s.atMax
       /\ t = Walker(IF d = c.min THEN d + 1 ELSE c.min, 1, TRUE, FALSE)
  \/ d > c.min /\ d >= c.max /\ ~s.atMin
       /\ t = Walker(IF d = c.max THEN d - 1 ELSE c.max, -1, FALSE, TRUE)
  \/ d <= c.min /\ s.atMax /\ t \in Walkers /\ t.atMin /\ t.atMax
  \/ d > c.min /\ d >= c.max /\ s.atMin /\ t \in Walkers /\ t.atMin /\ t.atMax
  \/ d > c.min /\ d < c.max /\ t = Walker(d + k, k, s.atMin, s.atMax)

\* A step onward,
LEMMA OnwardWalker ==
  ASSUME NEW r \in Walkers, ~(r.atMin /\ r.atMax)
  PROVE  Onward(r) = Walker(r.date + r.step, r.step, r.atMin, r.atMax)
<1>1. r = [date |-> r.date, step |-> r.step, atMin |-> r.atMin, atMax |-> r.atMax]
  BY DEF Walkers
<1>2. Onward(r) = [r EXCEPT !.date = r.date + r.step]
  BY Zenon DEF Onward
<1> QED
  BY <1>1, <1>2 DEF Walker

\* and one that turns at a limit.
LEMMA TurnWalker ==
  ASSUME NEW c, c.min \in Int, c.max \in Int, NEW w \in Walkers, NEW e
  PROVE  /\ w.date <= c.min /\ e = (IF w.date = c.min THEN w.date ELSE c.min - 1) =>
              TurnAtLimit(c, w) = Walker(e, 1, TRUE, w.atMax)
         /\ ~(w.date <= c.min) /\ w.date >= c.max
              /\ e = (IF w.date = c.max THEN w.date ELSE c.max + 1) =>
              TurnAtLimit(c, w) = Walker(e, -1, w.atMin, TRUE)
         /\ ~(w.date <= c.min) /\ ~(w.date >= c.max) => TurnAtLimit(c, w) = w
<1>1. w = [date |-> w.date, step |-> w.step, atMin |-> w.atMin, atMax |-> w.atMax]
  BY DEF Walkers
<1>2. ASSUME w.date <= c.min, e = (IF w.date = c.min THEN w.date ELSE c.min - 1)
      PROVE  TurnAtLimit(c, w) = Walker(e, 1, TRUE, w.atMax)
  <2>1. TurnAtLimit(c, w) = [w EXCEPT !.atMin = TRUE, !.step = 1, !.date = e]
    BY <1>2, Zenon DEF TurnAtLimit
  <2> QED
    BY <1>1, <2>1 DEF Walker
<1>3. ASSUME ~(w.date <= c.min), w.date >= c.max,
             e = (IF w.date = c.max THEN w.date ELSE c.max + 1)
      PROVE  TurnAtLimit(c, w) = Walker(e, -1, w.atMin, TRUE)
  <2>1. TurnAtLimit(c, w) = [w EXCEPT !.atMax = TRUE, !.step = -1, !.date = e]
    BY <1>3, Zenon DEF TurnAtLimit
  <2> QED
    BY <1>1, <2>1 DEF Walker
<1>4. ASSUME ~(w.date <= c.min), ~(w.date >= c.max)
      PROVE  TurnAtLimit(c, w) = w
  BY <1>4, Zenon DEF TurnAtLimit
<1> QED
  BY <1>2, <1>3, <1>4, Zenon

\* Every turn of the loop is one of Turned, from a disabled date, and once the
\* walk goes by single days it keeps to its direction.
LEMMA StepCases ==
  ASSUME NEW c, c.min \in Int, c.max \in Int, NEW start \in Int, Disabled(c, start),
         NEW s \in Walkers, ~Ended(c, s), NEW t, t = Step(c, s, start)
  PROVE  \E d \in Int, k \in Int \ {0} :
           /\ Disabled(c, d) /\ Turned(c, s, t, d, k)
           /\ (d = s.date /\ k = s.step) \/ (s.step \notin {-1, 1} /\ k \in {-1, 1})
<1>1. PICK q : q = Straighten(s, start)
  OBVIOUS
<1>2. /\ s.date \in Int /\ s.step \in Int \ {0} /\ s.atMin \in BOOLEAN /\ s.atMax \in BOOLEAN
      /\ s = Walker(s.date, s.step, s.atMin, s.atMax)
  BY DEF Walkers, Walker
<1>3. Disabled(c, s.date) /\ ~(s.atMin /\ s.atMax)
  BY DEF Ended
<1>4. \E d \in Int, k \in Int \ {0} :
        /\ q = Walker(d, k, s.atMin, s.atMax) /\ Disabled(c, d)
        /\ (d = s.date /\ k = s.step) \/ (s.step \notin {-1, 1} /\ k \in {-1, 1})
  <2>1. CASE s.step \notin {-1, 1} /\ MonthOf(s.date) # MonthOf(start)
    <3>1. q = Walker(start, IF s.step > 0 THEN 1 ELSE -1, s.atMin, s.atMax)
      BY <1>1, <1>2, <2>1 DEF Straighten, Walker
    <3>2. (IF s.step > 0 THEN 1 ELSE -1) \in {-1, 1}
      OBVIOUS
    <3> QED
      BY <2>1, <3>1, <3>2
  <2>2. CASE ~(s.step \notin {-1, 1} /\ MonthOf(s.date) # MonthOf(start))
    <3>1. q = s
      BY <1>1, <2>2 DEF Straighten
    <3> QED
      BY <1>2, <1>3, <3>1
  <2> QED
    BY <2>1, <2>2
<1>5. PICK d \in Int, k \in Int \ {0} :
        /\ q = Walker(d, k, s.atMin, s.atMax) /\ Disabled(c, d)
        /\ (d = s.date /\ k = s.step) \/ (s.step \notin {-1, 1} /\ k \in {-1, 1})
  BY <1>4
<1>6. t = Onward(TurnAtLimit(c, q))
  BY <1>1 DEF Step
<1>7. /\ q.date = d /\ q.step = k /\ q.atMin = s.atMin /\ q.atMax = s.atMax
      /\ q \in Walkers
  BY <1>2, <1>5 DEF Walker, Walkers
<1>8. Turned(c, s, t, d, k)
  <2>1. CASE d <= c.min
    <3>1. PICK e \in Int : e = IF d = c.min THEN d ELSE c.min - 1
      OBVIOUS
    <3>2. TurnAtLimit(c, q) = Walker(e, 1, TRUE, s.atMax)
      <4>1. q.date <= c.min /\ e = IF q.date = c.min THEN q.date ELSE c.min - 1
        BY <1>7, <2>1, <3>1, Zenon
      <4>2. TurnAtLimit(c, q) = Walker(e, 1, TRUE, q.atMax)
        BY <1>7, <4>1, TurnWalker, Zenon
      <4> QED
        BY <1>7, <4>2, Zenon
    <3>3. PICK r : r = Walker(e, 1, TRUE, s.atMax)
      OBVIOUS
    <3>4. r.date = e /\ r.step = 1 /\ r.atMin = TRUE /\ r.atMax = s.atMax /\ r \in Walkers
      BY <1>2, <3>3 DEF Walker, Walkers
    <3>5. t = Onward(r)
      BY <1>6, <3>2, <3>3, Zenon
    <3>6. CASE s.atMax
      <4>1. t = r
        BY <3>4, <3>5, <3>6, Zenon DEF Onward
      <4> QED
        BY <2>1, <3>4, <3>6, <4>1, Zenon DEF Turned
    <3>7. CASE ~s.atMax
      <4>1. t = Walker(e + 1, 1, TRUE, s.atMax)
        BY <3>4, <3>5, <3>7, OnwardWalker, Zenon
      <4>2. e + 1 = IF d = c.min THEN d + 1 ELSE c.min
        BY <3>1
      <4>3. s.atMax = FALSE
        BY <1>2, <3>7
      <4> QED
        BY <2>1, <3>7, <4>1, <4>2, <4>3, Zenon DEF Turned
    <3> QED
      BY <3>6, <3>7
  <2>2. CASE d > c.min /\ d >= c.max
    <3>1. PICK e \in Int : e = IF d = c.max THEN d ELSE c.max + 1
      OBVIOUS
    <3>2. TurnAtLimit(c, q) = Walker(e, -1, s.atMin, TRUE)
      <4>1. ~(d <= c.min)
        BY <2>2
      <4>2. /\ ~(q.date <= c.min) /\ q.date >= c.max
            /\ e = IF q.date = c.max THEN q.date ELSE c.max + 1
        BY <1>7, <2>2, <3>1, <4>1, Zenon
      <4>3. TurnAtLimit(c, q) = Walker(e, -1, q.atMin, TRUE)
        BY <1>7, <4>2, TurnWalker, Zenon
      <4> QED
        BY <1>7, <4>3, Zenon
    <3>3. PICK r : r = Walker(e, -1, s.atMin, TRUE)
      OBVIOUS
    <3>4. r.date = e /\ r.step = -1 /\ r.atMin = s.atMin /\ r.atMax = TRUE /\ r \in Walkers
      BY <1>2, <3>3 DEF Walker, Walkers
    <3>5. t = Onward(r)
      BY <1>6, <3>2, <3>3, Zenon
    <3>6. CASE s.atMin
      <4>1. t = r
        BY <3>4, <3>5, <3>6, Zenon DEF Onward
      <4> QED
        BY <2>2, <3>4, <3>6, <4>1, Zenon DEF Turned
    <3>7. CASE ~s.atMin
      <4>1. t = Walker(e + (-1), -1, s.atMin, TRUE)
        BY <3>4, <3>5, <3>7, OnwardWalker, Zenon
      <4>2. e + (-1) = IF d = c.max THEN d - 1 ELSE c.max
        BY <3>1
      <4>3. s.atMin = FALSE
        BY <1>2, <3>7
      <4> QED
        BY <2>2, <3>7, <4>1, <4>2, <4>3, Zenon DEF Turned
    <3> QED
      BY <3>6, <3>7
  <2>3. CASE d > c.min /\ d < c.max
    <3>1. TurnAtLimit(c, q) = q
      <4>1. ~(d <= c.min) /\ ~(d >= c.max)
        BY <2>3
      <4> QED
        BY <1>7, <4>1, TurnWalker, Zenon
    <3>2. t = Walker(d + k, k, s.atMin, s.atMax)
      BY <1>3, <1>6, <1>7, <3>1, OnwardWalker, Zenon
    <3> QED
      BY <2>3, <3>2 DEF Turned
  <2> QED
    BY <2>1, <2>2, <2>3
<1> QED
  BY <1>5, <1>8

-----------------------------------------------------------------------------
\* What a walk that turned at a limit has left behind is disabled.
WalkSound(c, s) ==
  /\ s \in Walkers
  /\ s.atMin /\ s.atMax => \A x \in c.min..c.max : Disabled(c, x)
  /\ s.atMin /\ ~s.atMax => /\ s.step = 1 /\ s.date \in c.min..c.max + 1
                            /\ \A x \in c.min..s.date - 1 : Disabled(c, x)
  /\ ~s.atMin /\ s.atMax => /\ s.step = -1 /\ s.date \in c.min - 1..c.max
                            /\ \A x \in s.date + 1..c.max : Disabled(c, x)

\* A bound of the turns it has left.
Room(c, s) ==
  IF s.date \notin c.min..c.max THEN 0
  ELSE IF s.step > 0 THEN c.max - s.date + 1 ELSE s.date - c.min + 1

\* A bound of the turns a walk still takes.
TurnsLeft(c, s) ==
  Room(c, s) + (IF s.atMin \/ s.atMax THEN 0
                ELSE IF s.step \in {-1, 1} THEN c.max - c.min + 3
                ELSE 2 * (c.max - c.min + 3))

\* A turn ends the walk or lessens the turns left.
LEMMA StepSound ==
  ASSUME NEW c, c.min \in Int, c.max \in Int, c.min <= c.max,
         NEW start \in Int, Disabled(c, start),
         NEW s, WalkSound(c, s), ~Ended(c, s), NEW t, t = Step(c, s, start)
  PROVE  /\ WalkSound(c, t)
         /\ Ended(c, t) \/ TurnsLeft(c, t) < TurnsLeft(c, s)
<1>1. /\ s \in Walkers /\ s.date \in Int /\ s.step \in Int \ {0}
      /\ s.atMin \in BOOLEAN /\ s.atMax \in BOOLEAN /\ ~(s.atMin /\ s.atMax)
      /\ Disabled(c, s.date)
  BY DEF WalkSound, Walkers, Ended
<1>2. PICK d \in Int, k \in Int \ {0} :
           /\ Disabled(c, d) /\ Turned(c, s, t, d, k)
           /\ (d = s.date /\ k = s.step) \/ (s.step \notin {-1, 1} /\ k \in {-1, 1})
  BY <1>1, StepCases
<1>3. s.atMin \/ s.atMax => d = s.date /\ k = s.step
  BY <1>1, <1>2 DEF WalkSound
<1>4. PICK L \in Int, U \in Int : L = c.min /\ U = c.max /\ L <= U
  OBVIOUS
<1>5. Room(c, s) >= 0 /\ Room(c, s) \in Int /\ TurnsLeft(c, s) \in Int
  BY <1>1 DEF Room, TurnsLeft
<1>6. CASE d <= c.min /\ ~s.atMax
             /\ t = Walker(IF d = c.min THEN d + 1 ELSE c.min, 1, TRUE, FALSE)
  <2>0. PICK T \in Int : T = IF d = c.min THEN d + 1 ELSE c.min
    OBVIOUS
  <2>1. /\ t.date = T /\ t.step = 1 /\ t.atMin = TRUE /\ t.atMax = FALSE /\ t \in Walkers
    <3>1. t = Walker(T, 1, TRUE, FALSE)
      BY <1>6, <2>0, Zenon
    <3> QED
      BY <3>1 DEF Walker, Walkers
  <2>5. d <= L /\ T \in L..L + 1 /\ (d = L => T = L + 1) /\ (d # L => T = L)
    BY <1>4, <1>6, <2>0
  <2>2. WalkSound(c, t)
    <3>1. t.date \in L..U + 1
      BY <1>4, <2>1, <2>5
    <3>2. \A x \in L..t.date - 1 : Disabled(c, x)
      <4>1. SUFFICES ASSUME NEW x \in L..t.date - 1 PROVE Disabled(c, x)
        OBVIOUS
      <4>2. x = d
        BY <2>1, <2>5
      <4> QED
        BY <1>2, <4>2
    <3> QED
      BY <1>4, <2>1, <3>1, <3>2 DEF WalkSound
  <2>3. CASE s.atMin
    <3>1. s.date \in L..U + 1 /\ d = s.date /\ s.step = 1
      BY <1>3, <1>4, <1>6, <2>3 DEF WalkSound
    <3>2. d = L /\ t.date = L + 1 /\ s.date = L
      BY <1>4, <2>1, <2>5, <3>1
    <3>3. Room(c, s) = U - L + 1 /\ TurnsLeft(c, s) = U - L + 1
      BY <1>4, <2>3, <3>1, <3>2 DEF Room, TurnsLeft
    <3>4. Room(c, t) <= U - L /\ TurnsLeft(c, t) = Room(c, t) + 0 /\ Room(c, t) \in Int
      BY <1>4, <2>1, <2>5, <3>2 DEF Room, TurnsLeft
    <3> QED
      BY <2>2, <3>3, <3>4
  <2>4. CASE ~s.atMin
    <3>1. TurnsLeft(c, s) >= U - L + 3
      BY <1>1, <1>4, <1>5, <1>6, <2>4 DEF TurnsLeft
    <3>2. Room(c, t) <= U - L + 1 /\ TurnsLeft(c, t) = Room(c, t) + 0 /\ Room(c, t) \in Int
      BY <1>4, <2>1, <2>5 DEF Room, TurnsLeft
    <3> QED
      BY <1>5, <2>2, <3>1, <3>2
  <2> QED
    BY <1>1, <2>3, <2>4
<1>7. CASE d > c.min /\ d >= c.max /\ ~s.atMin
             /\ t = Walker(IF d = c.max THEN d - 1 ELSE c.max, -1, FALSE, TRUE)
  <2>0. PICK T \in Int : T = IF d = c.max THEN d - 1 ELSE c.max
    OBVIOUS
  <2>1. /\ t.date = T /\ t.step = -1 /\ t.atMin = FALSE /\ t.atMax = TRUE /\ t \in Walkers
    <3>1. t = Walker(T, -1, FALSE, TRUE)
      BY <1>7, <2>0, Zenon
    <3> QED
      BY <3>1 DEF Walker, Walkers
  <2>5. d >= U /\ T \in U - 1..U /\ (d = U => T = U - 1) /\ (d # U => T = U)
    BY <1>4, <1>7, <2>0
  <2>2. WalkSound(c, t)
    <3>1. t.date \in L - 1..U
      BY <1>4, <2>1, <2>5
    <3>2. \A x \in t.date + 1..U : Disabled(c, x)
      <4>1. SUFFICES ASSUME NEW x \in t.date + 1..U PROVE Disabled(c, x)
        OBVIOUS
      <4>2. x = d
        BY <2>1, <2>5
      <4> QED
        BY <1>2, <4>2
    <3> QED
      BY <1>4, <2>1, <3>1, <3>2 DEF WalkSound
  <2>3. CASE s.atMax
    <3>1. s.date \in L - 1..U /\ d = s.date /\ s.step = -1
      BY <1>3, <1>4, <1>7, <2>3 DEF WalkSound
    <3>2. d = U /\ t.date = U - 1 /\ s.date = U
      BY <1>4, <2>1, <2>5, <3>1
    <3>3. Room(c, s) = U - L + 1 /\ TurnsLeft(c, s) = U - L + 1
      BY <1>4, <2>3, <3>1, <3>2 DEF Room, TurnsLeft
    <3>4. Room(c, t) <= U - L /\ TurnsLeft(c, t) = Room(c, t) + 0 /\ Room(c, t) \in Int
      BY <1>4, <2>1, <2>5, <3>2 DEF Room, TurnsLeft
    <3> QED
      BY <2>2, <3>3, <3>4
  <2>4. CASE ~s.atMax
    <3>1. TurnsLeft(c, s) >= U - L + 3
      BY <1>1, <1>4, <1>5, <1>7, <2>4 DEF TurnsLeft
    <3>2. Room(c, t) <= U - L + 1 /\ TurnsLeft(c, t) = Room(c, t) + 0 /\ Room(c, t) \in Int
      BY <1>4, <2>1, <2>5 DEF Room, TurnsLeft
    <3> QED
      BY <1>5, <2>2, <3>1, <3>2
  <2> QED
    BY <1>1, <2>3, <2>4
<1>8. CASE d <= c.min /\ s.atMax /\ t \in Walkers /\ t.atMin /\ t.atMax
  <2>1. ~s.atMin /\ d = s.date /\ s.date \in L - 1..U
        /\ \A x \in s.date + 1..U : Disabled(c, x)
    BY <1>1, <1>3, <1>4, <1>8 DEF WalkSound
  <2>2. \A x \in L..U : x = d \/ x \in s.date + 1..U
    BY <1>4, <1>8, <2>1
  <2>3. \A x \in L..U : Disabled(c, x)
    BY <1>2, <2>1, <2>2
  <2> QED
    BY <1>4, <1>8, <2>3 DEF WalkSound, Ended
<1>9. CASE d > c.min /\ d >= c.max /\ s.atMin /\ t \in Walkers /\ t.atMin /\ t.atMax
  <2>1. ~s.atMax /\ d = s.date /\ s.date \in L..U + 1
        /\ \A x \in L..s.date - 1 : Disabled(c, x)
    BY <1>1, <1>3, <1>4, <1>9 DEF WalkSound
  <2>2. \A x \in L..U : x = d \/ x \in L..s.date - 1
    BY <1>4, <1>9, <2>1
  <2>3. \A x \in L..U : Disabled(c, x)
    BY <1>2, <2>1, <2>2
  <2> QED
    BY <1>4, <1>9, <2>3 DEF WalkSound, Ended
<1>10. CASE d > c.min /\ d < c.max /\ t = Walker(d + k, k, s.atMin, s.atMax)
  <2>1. /\ t.date = d + k /\ t.step = k /\ t.atMin = s.atMin /\ t.atMax = s.atMax
        /\ t \in Walkers
    BY <1>1, <1>10 DEF Walker, Walkers
  <2>2. L < d /\ d < U
    BY <1>4, <1>10
  <2>3. CASE s.atMin
    <3>1. d = s.date /\ k = 1 /\ s.step = 1 /\ ~s.atMax
      BY <1>1, <1>3, <2>3 DEF WalkSound
    <3>2. \A x \in L..d : x = d \/ x \in L..s.date - 1
      BY <1>1, <2>2, <3>1
    <3>3. \A x \in L..s.date - 1 : Disabled(c, x)
      BY <1>4, <2>3, <3>1 DEF WalkSound
    <3>4. \A x \in L..t.date - 1 : Disabled(c, x)
      <4>1. t.date - 1 = d
        BY <2>1, <3>1
      <4> QED
        BY <1>2, <3>2, <3>3, <4>1
    <3>5. WalkSound(c, t)
      <4>1. t.date \in L..U + 1
        BY <2>1, <2>2, <3>1
      <4> QED
        BY <1>4, <2>1, <2>3, <3>1, <3>4, <4>1 DEF WalkSound
    <3>6. Room(c, s) = U - d + 1 /\ TurnsLeft(c, s) = U - d + 1
      BY <1>4, <2>2, <2>3, <3>1 DEF Room, TurnsLeft
    <3>7. Room(c, t) = U - d /\ TurnsLeft(c, t) = U - d
      BY <1>4, <2>1, <2>2, <2>3, <3>1 DEF Room, TurnsLeft
    <3> QED
      BY <3>5, <3>6, <3>7
  <2>4. CASE s.atMax
    <3>1. d = s.date /\ k = -1 /\ s.step = -1 /\ ~s.atMin
      BY <1>1, <1>3, <2>4 DEF WalkSound
    <3>2. \A x \in d..U : x = d \/ x \in s.date + 1..U
      BY <1>1, <2>2, <3>1
    <3>3. \A x \in s.date + 1..U : Disabled(c, x)
      BY <1>4, <2>4, <3>1 DEF WalkSound
    <3>4. \A x \in t.date + 1..U : Disabled(c, x)
      <4>1. t.date + 1 = d
        BY <2>1, <3>1
      <4> QED
        BY <1>2, <3>2, <3>3, <4>1
    <3>5. WalkSound(c, t)
      <4>1. t.date \in L - 1..U
        BY <2>1, <2>2, <3>1
      <4> QED
        BY <1>4, <2>1, <2>4, <3>1, <3>4, <4>1 DEF WalkSound
    <3>6. Room(c, s) = d - L + 1 /\ TurnsLeft(c, s) = d - L + 1
      BY <1>4, <2>2, <2>4, <3>1 DEF Room, TurnsLeft
    <3>7. Room(c, t) = d - L /\ TurnsLeft(c, t) = d - L
      BY <1>4, <2>1, <2>2, <2>4, <3>1 DEF Room, TurnsLeft
    <3> QED
      BY <3>5, <3>6, <3>7
  <2>5. CASE ~s.atMin /\ ~s.atMax
    <3>1. WalkSound(c, t)
      BY <2>1, <2>5 DEF WalkSound
    <3>2. CASE s.step \in {-1, 1}
      <4>1. d = s.date /\ k = s.step
        BY <1>2, <3>2
      <4>2. TurnsLeft(c, s) = Room(c, s) + (U - L + 3)
        BY <1>4, <2>5, <3>2 DEF TurnsLeft
      <4>3. TurnsLeft(c, t) = Room(c, t) + (U - L + 3)
        BY <1>4, <2>1, <2>5, <3>2, <4>1 DEF TurnsLeft
      <4>4. Room(c, t) \in Int /\ Room(c, t) < Room(c, s)
        <5>1. CASE k = 1
          BY <1>4, <2>1, <2>2, <4>1, <5>1 DEF Room
        <5>2. CASE k = -1
          BY <1>4, <2>1, <2>2, <4>1, <5>2 DEF Room
        <5> QED
          BY <3>2, <4>1, <5>1, <5>2
      <4> QED
        BY <1>5, <3>1, <4>2, <4>3, <4>4
    <3>3. CASE s.step \notin {-1, 1} /\ k \in {-1, 1}
      <4>1. TurnsLeft(c, s) >= 2 * (U - L + 3)
        BY <1>4, <1>5, <2>5, <3>3 DEF TurnsLeft
      <4>2. TurnsLeft(c, t) = Room(c, t) + (U - L + 3)
        BY <1>4, <2>1, <2>5, <3>3 DEF TurnsLeft
      <4>3. Room(c, t) \in Int /\ Room(c, t) <= U - L + 1
        BY <1>4, <2>1 DEF Room
      <4> QED
        BY <1>5, <3>1, <4>1, <4>2, <4>3
    <3>4. CASE s.step \notin {-1, 1} /\ k \notin {-1, 1}
      <4>1. d = s.date /\ k = s.step
        BY <1>2, <3>4
      <4>2. TurnsLeft(c, s) = Room(c, s) + 2 * (U - L + 3)
        BY <1>4, <2>5, <3>4 DEF TurnsLeft
      <4>3. TurnsLeft(c, t) = Room(c, t) + 2 * (U - L + 3)
        BY <1>4, <2>1, <2>5, <3>4 DEF TurnsLeft
      <4>4. Room(c, t) \in Int /\ Room(c, t) < Room(c, s)
        <5>1. CASE k > 0
          BY <1>4, <2>1, <2>2, <4>1, <5>1 DEF Room
        <5>2. CASE k < 0
          BY <1>4, <2>1, <2>2, <4>1, <5>2 DEF Room
        <5> QED
          BY <5>1, <5>2
      <4> QED
        BY <1>5, <3>1, <4>2, <4>3, <4>4
    <3> QED
      BY <3>2, <3>3, <3>4
  <2> QED
    BY <1>1, <2>3, <2>4, <2>5
<1> QED
  BY <1>2, <1>6, <1>7, <1>8, <1>9, <1>10 DEF Turned

\* A walk stays a walk.
LEMMA StepWalks ==
  ASSUME NEW c, c.min \in Int, c.max \in Int, NEW start \in Int, Disabled(c, start),
         NEW s \in Walkers
  PROVE  Step(c, s, start) \in Walkers
<1>1. CASE Ended(c, s)
  BY <1>1, Zenon DEF Step
<1>2. CASE ~Ended(c, s)
  <2>1. PICK t : t = Step(c, s, start)
    OBVIOUS
  <2>2. PICK d \in Int, k \in Int \ {0} : Turned(c, s, t, d, k)
    BY <1>2, <2>1, StepCases
  <2>3. s.atMin \in BOOLEAN /\ s.atMax \in BOOLEAN
    BY DEF Walkers
  <2>5. CASE t \in Walkers
    BY <2>1, <2>5
  <2>6. CASE d <= c.min /\ ~s.atMax
               /\ t = Walker(IF d = c.min THEN d + 1 ELSE c.min, 1, TRUE, FALSE)
    <3>1. PICK e \in Int : e = IF d = c.min THEN d + 1 ELSE c.min
      OBVIOUS
    <3>2. t = Walker(e, 1, TRUE, FALSE)
      BY <2>6, <3>1, Zenon
    <3> QED
      BY <2>1, <3>2 DEF Walker, Walkers
  <2>7. CASE d > c.min /\ d >= c.max /\ ~s.atMin
               /\ t = Walker(IF d = c.max THEN d - 1 ELSE c.max, -1, FALSE, TRUE)
    <3>1. PICK e \in Int : e = IF d = c.max THEN d - 1 ELSE c.max
      OBVIOUS
    <3>2. t = Walker(e, -1, FALSE, TRUE)
      BY <2>7, <3>1, Zenon
    <3> QED
      BY <2>1, <3>2 DEF Walker, Walkers
  <2>8. CASE d > c.min /\ d < c.max /\ t = Walker(d + k, k, s.atMin, s.atMax)
    <3> QED
      BY <2>1, <2>3, <2>8 DEF Walker, Walkers
  <2> QED
    BY <2>2, <2>5, <2>6, <2>7, <2>8, Zenon DEF Turned
<1> QED
  BY <1>1, <1>2

\* w is the walk, n turns long.
WalkFrom(w, n, c, start, interval) ==
  /\ w[0] = Walker(start, interval, FALSE, FALSE)
  /\ \A i \in 1..n : w[i] = Step(c, w[i - 1], start)
  /\ Settle(c, start, interval) = w[n].date

\* The loop of Settle runs as it says.
LEMMA WalkRuns ==
  ASSUME NEW c, c.min \in Int, c.max \in Int, NEW start \in Int, Disabled(c, start),
         NEW interval \in Int \ {0}, NEW n, n = MostTurns(c)
  PROVE  /\ n \in Nat
         /\ \E w \in [0..n -> Walkers] : WalkFrom(w, n, c, start, interval)
<1> DEFINE first == [date |-> start, step |-> interval, atMin |-> FALSE, atMax |-> FALSE]
           Body(f) == [i \in 0..MostTurns(c) |-> IF i = 0 THEN first
                                                 ELSE Step(c, f[i - 1], start)]
           f == CHOOSE f : f = Body(f)
<1>1. Settle(c, start, interval) = f[MostTurns(c)].date
  BY Zenon DEF Settle
<1>2. first \in Walkers /\ first = Walker(start, interval, FALSE, FALSE)
  BY DEF Walkers, Walker
<1>3. n \in Nat
  BY DEF MostTurns
<1> HIDE DEF f, Body, first
<1>4. PICK g : g = [p \in Walkers \X (1..n) |-> Step(c, p[1], start)]
  OBVIOUS
<1>5. \A w \in Walkers, i \in 1..n : g[<<w, i>>] = Step(c, w, start)
  BY <1>4
<1>6. g \in [Walkers \X (1..n) -> Walkers]
  <2>1. \A p \in Walkers \X (1..n) : p[1] \in Walkers
    OBVIOUS
  <2>2. \A p \in Walkers \X (1..n) : Step(c, p[1], start) \in Walkers
    BY <2>1, StepWalks
  <2> QED
    BY <1>4, <2>2
<1>7. PICK h \in [0..n -> Walkers] : Turns(h, n, first, g)
  BY <1>2, <1>3, <1>6, LoopRuns
<1>8. /\ h[0] = first
      /\ \A i \in 1..n : h[i - 1] \in Walkers /\ h[i] = Step(c, h[i - 1], start)
  <2>1. \A i \in 1..n : i - 1 \in 0..n
    BY <1>3
  <2>2. \A i \in 1..n : h[i - 1] \in Walkers
    BY <1>7, <2>1
  <2> QED
    BY <1>5, <1>7, <2>2 DEF Turns
<1>9. h = Body(h)
  <2>1. ASSUME NEW i \in 0..n
        PROVE  h[i] = IF i = 0 THEN first ELSE Step(c, h[i - 1], start)
    <3>1. CASE i = 0
      BY <1>8, <3>1
    <3>2. CASE i # 0
      <4>1. i \in 1..n
        BY <1>3, <3>2
      <4> QED
        BY <1>8, <3>2, <4>1
    <3> QED
      BY <3>1, <3>2
  <2>2. h = [i \in 0..n |-> h[i]]
    BY <1>7
  <2> QED
    BY <2>1, <2>2 DEF Body
<1>10. f = Body(f)
  BY <1>9, Zenon DEF f
<1>11. PICK P : P = {i \in 0..n : f[i] = h[i]}
  OBVIOUS
<1>12. \A i \in 0..n : i \in P
  <2>1. 0 \in P
    <3>1. 0 \in 0..n /\ 0 \in 0..MostTurns(c)
      BY <1>3
    <3>2. f[0] = first
      BY <1>10, <3>1 DEF Body
    <3> QED
      BY <1>8, <1>11, <3>1, <3>2
  <2>2. \A i \in 1..n : i - 1 \in P => i \in P
    <3> TAKE i \in 1..n
    <3> HAVE i - 1 \in P
    <3>1. i \in 0..MostTurns(c) /\ i # 0 /\ i \in 0..n
      BY <1>3
    <3>2. f[i] = Step(c, f[i - 1], start)
      BY <1>10, <3>1 DEF Body
    <3>3. f[i - 1] = h[i - 1]
      BY <1>11
    <3> QED
      BY <1>8, <1>11, <3>1, <3>2, <3>3
  <2> QED
    BY <1>3, <2>1, <2>2, StepByStep
<1>13. f[n] = h[n]
  BY <1>3, <1>11, <1>12
<1>14. WalkFrom(h, n, c, start, interval)
  BY <1>1, <1>2, <1>8, <1>13 DEF WalkFrom
<1> QED
  BY <1>3, <1>7, <1>14

\* The turns left are a number, none of them owed.
LEMMA LeftIsInt ==
  ASSUME NEW c, c.min \in Int, c.max \in Int, NEW s, WalkSound(c, s)
  PROVE  /\ TurnsLeft(c, s) \in Int
         /\ c.min <= c.max => TurnsLeft(c, s) >= 0
<1>1. s.date \in Int /\ s.step \in Int
  BY DEF WalkSound, Walkers
<1>2. Room(c, s) \in Int /\ Room(c, s) >= 0
  BY <1>1 DEF Room
<1> QED
  BY <1>2 DEF TurnsLeft

\* The walk ends on an enabled date when there is one within the limits.
LEMMA SettleFinds ==
  ASSUME NEW c, c.min \in Int, c.max \in Int, NEW start \in Int, Disabled(c, start),
         NEW interval \in Int \ {0}
  PROVE  /\ Settle(c, start, interval) \in Int
         /\ (\E d \in c.min..c.max : ~Disabled(c, d)) =>
              ~Disabled(c, Settle(c, start, interval))
<1>1. PICK n \in Nat : n = MostTurns(c)
  BY WalkRuns
<1>5. PICK w \in [0..n -> Walkers] : WalkFrom(w, n, c, start, interval)
  BY <1>1, WalkRuns
<1>2. /\ w[0] = Walker(start, interval, FALSE, FALSE)
      /\ \A i \in 1..n : w[i] = Step(c, w[i - 1], start)
      /\ Settle(c, start, interval) = w[n].date
  BY <1>5 DEF WalkFrom
<1>3. Settle(c, start, interval) \in Int
  <2>1. w[n] \in Walkers
    OBVIOUS
  <2> QED
    BY <1>2, <2>1 DEF Walkers
<1>4. ASSUME NEW x \in c.min..c.max, ~Disabled(c, x)
      PROVE  ~Disabled(c, Settle(c, start, interval))
  <2>1. c.min <= c.max
    BY <1>4
  <2>2. PICK m \in Int : m = TurnsLeft(c, w[0])
    <3>1. WalkSound(c, w[0])
      BY <1>2 DEF WalkSound, Walker, Walkers
    <3> QED
      BY <3>1, LeftIsInt
  <2>3. m < n
    <3>1. w[0].date = start /\ w[0].step = interval
          /\ w[0].atMin = FALSE /\ w[0].atMax = FALSE
      BY <1>2 DEF Walker
    <3>2. Room(c, w[0]) \in Int /\ Room(c, w[0]) <= c.max - c.min + 1
      BY <2>1, <3>1 DEF Room
    <3>3. m <= Room(c, w[0]) + 2 * (c.max - c.min + 3)
      BY <2>1, <2>2, <3>1, <3>2 DEF TurnsLeft
    <3>4. n = 8 + 3 * (c.max - c.min)
      <4>1. CASE c.min < c.max
        BY <1>1, <4>1 DEF MostTurns
      <4>2. CASE c.min = c.max
        BY <1>1, <4>2 DEF MostTurns
      <4> QED
        BY <2>1, <4>1, <4>2
    <3> QED
      BY <3>2, <3>3, <3>4
  <2>4. PICK P : P = {i \in 0..n : /\ WalkSound(c, w[i])
                                   /\ Ended(c, w[i]) \/ TurnsLeft(c, w[i]) + i <= m}
    OBVIOUS
  <2>5. \A i \in 0..n : i \in P
    <3>1. 0 \in P
      <4>1. WalkSound(c, w[0])
        BY <1>2 DEF WalkSound, Walker, Walkers
      <4>2. TurnsLeft(c, w[0]) + 0 <= m
        BY <2>2
      <4> QED
        BY <2>4, <4>1, <4>2
    <3>2. \A i \in 1..n : i - 1 \in P => i \in P
      <4> TAKE i \in 1..n
      <4> HAVE i - 1 \in P
      <4>1. PICK s : s = w[i - 1]
        OBVIOUS
      <4>2. WalkSound(c, s) /\ (Ended(c, s) \/ TurnsLeft(c, s) + (i - 1) <= m)
        BY <2>4, <4>1
      <4>3. PICK t : t = Step(c, s, start)
        OBVIOUS
      <4>4. w[i] = t
        BY <1>2, <4>1, <4>3
      <4>5. CASE Ended(c, s)
        <5>1. t = s
          BY <4>3, <4>5, Zenon DEF Step
        <5> QED
          BY <2>4, <4>2, <4>4, <4>5, <5>1
      <4>6. CASE ~Ended(c, s)
        <5>1. WalkSound(c, t) /\ (Ended(c, t) \/ TurnsLeft(c, t) < TurnsLeft(c, s))
          BY <2>1, <4>2, <4>3, <4>6, StepSound
        <5>2. TurnsLeft(c, s) \in Int /\ TurnsLeft(c, t) \in Int
          BY <4>2, <5>1, LeftIsInt
        <5>3. Ended(c, t) \/ TurnsLeft(c, t) + i <= m
          BY <4>2, <4>6, <5>1, <5>2
        <5> QED
          BY <2>4, <4>4, <5>1, <5>3
      <4> QED
        BY <4>5, <4>6
    <3> QED
      BY <3>1, <3>2, StepByStep
  <2>6. WalkSound(c, w[n]) /\ (Ended(c, w[n]) \/ TurnsLeft(c, w[n]) + n <= m)
    BY <2>4, <2>5
  <2>7. Ended(c, w[n])
    <3>1. TurnsLeft(c, w[n]) >= 0 /\ TurnsLeft(c, w[n]) \in Int
      BY <2>1, <2>6, LeftIsInt
    <3> QED
      BY <2>3, <2>6, <3>1
  <2>8. ~(w[n].atMin /\ w[n].atMax)
    BY <1>4, <2>6 DEF WalkSound
  <2> QED
    BY <1>2, <2>7, <2>8 DEF Ended
<1> QED
  BY <1>3, <1>4

(* Months, limits and dates.                                               *)

\* The first date of each month is a number.
LEMMA FirstDates ==
  /\ FirstOf \in [1..Len(Months) + 1 -> Int]
  /\ FirstOf[1] = 1 /\ Len(Months) \in Nat \ {0} /\ DOMAIN Months = 1..Len(Months)
  /\ \A m \in DOMAIN Months : Months[m] \in Nat
<1> DEFINE Body(f) == [m \in 1..Len(Months) + 1 |->
                         IF m = 1 THEN 1 ELSE f[m - 1] + Months[m - 1]]
           f == CHOOSE f : f = Body(f)
<1>1. FirstOf = f
  BY Zenon DEF FirstOf
<1> HIDE DEF f, Body
<1>2. PICK n \in Nat : n = Len(Months) /\ n # 0
  BY CalendarAssumption
<1>3. DOMAIN Months = 1..n /\ \A m \in 1..n : Months[m] \in Nat
  BY <1>2, CalendarAssumption
<1>4. PICK D : D = Int
  OBVIOUS
<1>5. PICK g : g = [p \in D \X (1..n) |-> p[1] + Months[p[2]]]
  OBVIOUS
<1>6. /\ g \in [D \X (1..n) -> D]
      /\ \A x \in Int, i \in 1..n : g[<<x, i>>] = x + Months[i]
  <2>1. \A x \in D, i \in 1..n : x + Months[i] \in D
    BY <1>3, <1>4
  <2>2. \A p \in D \X (1..n) : p[1] \in D /\ p[2] \in 1..n
    OBVIOUS
  <2>3. \A p \in D \X (1..n) : g[p] \in D
    BY <1>5, <2>1, <2>2
  <2> QED
    BY <1>4, <1>5, <2>3
<1>7. PICK h \in [0..n -> Int] : Turns(h, n, 1, g)
  <2>1. 1 \in D
    BY <1>4
  <2>2. \E h \in [0..n -> D] : Turns(h, n, 1, g)
    BY <1>6, <2>1, LoopRuns
  <2> QED
    BY <1>4, <2>2
<1>8. h[0] = 1 /\ \A i \in 1..n : h[i - 1] \in Int /\ h[i] = h[i - 1] + Months[i]
  <2>1. \A i \in 1..n : i - 1 \in 0..n
    OBVIOUS
  <2>2. \A i \in 1..n : h[i - 1] \in Int
    BY <1>7, <2>1
  <2> QED
    BY <1>6, <1>7, <2>2 DEF Turns
<1>9. PICK e : e = [m \in 1..n + 1 |-> h[m - 1]]
  OBVIOUS
<1>10. e \in [1..n + 1 -> Int] /\ e[1] = 1
  <2>1. \A m \in 1..n + 1 : m - 1 \in 0..n
    OBVIOUS
  <2> QED
    BY <1>7, <1>8, <1>9, <2>1
<1>11. \A m \in 1..n + 1 : e[m] = IF m = 1 THEN 1 ELSE e[m - 1] + Months[m - 1]
  <2> TAKE m \in 1..n + 1
  <2>1. CASE m = 1
    BY <1>10, <2>1
  <2>2. CASE m # 1
    <3>1. m - 1 \in 1..n /\ m - 1 \in 1..n + 1
      BY <2>2
    <3>2. e[m] = h[m - 1] /\ e[m - 1] = h[(m - 1) - 1]
      BY <1>9, <3>1
    <3>3. h[m - 1] = h[(m - 1) - 1] + Months[m - 1]
      BY <1>8, <3>1
    <3> QED
      BY <2>2, <3>2, <3>3
  <2> QED
    BY <2>1, <2>2
<1>12. e = Body(e)
  <2>1. e = [m \in 1..n + 1 |-> e[m]]
    BY <1>9
  <2> QED
    BY <1>2, <1>11, <2>1 DEF Body
<1>13. f = Body(f)
  BY <1>12, Zenon DEF f
<1>14. DOMAIN f = 1..n + 1
       /\ \A m \in 1..n + 1 : f[m] = IF m = 1 THEN 1 ELSE f[m - 1] + Months[m - 1]
  BY <1>2, <1>13 DEF Body
<1>15. PICK P : P = {i \in 0..n : f[i + 1] = e[i + 1]}
  OBVIOUS
<1>16. \A i \in 0..n : i \in P
  <2>1. 0 \in P
    BY <1>10, <1>14, <1>15
  <2>2. \A i \in 1..n : i - 1 \in P => i \in P
    <3> TAKE i \in 1..n
    <3> HAVE i - 1 \in P
    <3>1. i + 1 \in 1..n + 1 /\ i + 1 # 1 /\ (i + 1) - 1 = i /\ (i - 1) + 1 = i
      OBVIOUS
    <3>2. f[i] = e[i]
      BY <1>15, <3>1
    <3>3. f[i + 1] = f[i] + Months[i] /\ e[i + 1] = e[i] + Months[i]
      BY <1>11, <1>14, <3>1
    <3> QED
      BY <1>15, <3>2, <3>3
  <2> QED
    BY <2>1, <2>2, StepByStep
<1>17. \A m \in 1..n + 1 : f[m] = e[m]
  <2> TAKE m \in 1..n + 1
  <2>1. m - 1 \in 0..n /\ (m - 1) + 1 = m
    OBVIOUS
  <2> QED
    BY <1>15, <1>16, <2>1
<1>18. f = [m \in 1..n + 1 |-> f[m]]
  BY <1>13, <1>14, <1>2 DEF Body
<1>19. f \in [1..n + 1 -> Int] /\ f[1] = 1
  BY <1>10, <1>17, <1>18
<1> QED
  BY <1>1, <1>2, <1>3, <1>19

\* Every date is of some month.
LEMMA MonthIsNumber ==
  ASSUME NEW d \in Int
  PROVE  MonthOf(d) \in Nat
<1>1. PICK n \in Nat \ {0} : n = Len(Months)
  BY FirstDates
<1>2. CASE d < 1
  BY <1>2 DEF MonthOf
<1>3. CASE d >= 1 /\ d \notin Dates
  BY <1>1, <1>3 DEF MonthOf
<1>4. CASE d >= 1 /\ d \in Dates
  <2>1. PICK F \in [1..n + 1 -> Int] : F = FirstOf /\ F[1] = 1
    BY <1>1, FirstDates
  <2>2. n + 1 \in 1..n + 1
    OBVIOUS
  <2>3. d < F[n + 1]
    <3>1. F[n + 1] \in Int /\ d \in 1..F[n + 1] - 1
      BY <1>1, <1>4, <2>1, <2>2 DEF Dates
    <3> QED
      BY <3>1
  <2>4. PICK T : T = {m \in 1..n : d < F[m + 1]}
    OBVIOUS
  <2>5. T \in SUBSET Nat /\ n \in T
    BY <2>3, <2>4
  <2>6. PICK m \in T : \A k \in T : m <= k
    BY <2>5, LeastNumber
  <2>7. m \in 1..n /\ d < F[m + 1] /\ m \in 1..n + 1 /\ m + 1 \in 1..n + 1
    BY <2>4, <2>6
  <2>8. F[m] <= d
    <3>1. CASE m = 1
      BY <1>4, <2>1, <3>1
    <3>2. CASE m # 1
      <4>1. m - 1 \in 1..n /\ (m - 1) + 1 = m
        BY <2>7, <3>2
      <4>2. m - 1 \notin T
        BY <2>6, <2>7, <4>1
      <4>3. ~(d < F[m])
        BY <2>4, <4>1, <4>2
      <4> QED
        BY <2>1, <2>7, <4>3
    <3> QED
      BY <3>1, <3>2
  <2>9. d \in F[m]..F[m + 1] - 1
    <3>1. F[m] \in Int /\ F[m + 1] \in Int
      BY <2>1, <2>7
    <3> QED
      BY <2>7, <2>8, <3>1
  <2>10. \E k \in 1..Len(Months) : d \in FirstOf[k]..FirstOf[k + 1] - 1
    BY <1>1, <2>1, <2>7, <2>9
  <2>11. PICK k : k = CHOOSE j \in 1..Len(Months) : d \in FirstOf[j]..FirstOf[j + 1] - 1
    OBVIOUS
  <2>12. k \in 1..n
    BY <1>1, <2>10, <2>11
  <2>13. MonthOf(d) = k
    BY <1>4, <2>11 DEF MonthOf
  <2> QED
    BY <2>12, <2>13
<1> QED
  BY <1>2, <1>3, <1>4

\* The lesser of two numbers is one.
LEMMA LesserOfTwo ==
  ASSUME NEW a \in Int, NEW b \in Int
  PROVE  Min({a, b}) \in Int
<1>1. \E x \in {a, b} : \A y \in {a, b} : x <= y
  <2>1. CASE a <= b
    BY <2>1
  <2>2. CASE b <= a
    BY <2>2
  <2> QED
    BY <2>1, <2>2
<1>2. PICK m : m = CHOOSE x \in {a, b} : \A y \in {a, b} : x <= y
  OBVIOUS
<1>3. m \in {a, b}
  BY <1>1, <1>2
<1>4. Min({a, b}) = m
  BY <1>2 DEF Min
<1> QED
  BY <1>3, <1>4

\* The date the arrows of the calendar lead to is a date (createDate).
LEMMA NavigateIsDate ==
  ASSUME NEW c, NEW date \in Int, NEW leap \in Int,
         leap = 0 \/ MonthOf(date) \in DOMAIN Months
  PROVE  Navigate(c, date, leap) \in Int
<1>1. PICK month \in Nat : month = MonthOf(date)
  BY MonthIsNumber
<1>2. PICK to : to = (IF leap = 0 THEN month ELSE c.view) + leap
  OBVIOUS
<1>3. CASE to \notin DOMAIN Months
  BY <1>1, <1>2, <1>3 DEF Navigate
<1>4. CASE to \in DOMAIN Months
  <2>1. month \in DOMAIN Months
    BY <1>1, <1>2, <1>4
  <2>2. /\ to \in 1..Len(Months) + 1 /\ month \in 1..Len(Months) + 1
        /\ Months[to] \in Nat /\ FirstOf[to] \in Int /\ FirstOf[month] \in Int
    BY <1>4, <2>1, FirstDates
  <2>3. PICK m \in Int : m = Min({date - FirstOf[month], Months[to] - 1})
    <3>1. PICK x \in Int : x = date - FirstOf[month]
      BY <2>2
    <3>2. PICK y \in Int : y = Months[to] - 1
      BY <2>2
    <3>3. Min({x, y}) \in Int
      BY LesserOfTwo, Zenon
    <3> QED
      BY <3>1, <3>2, <3>3, Zenon
  <2>4. Navigate(c, date, leap) = FirstOf[to] + m
    BY <1>1, <1>2, <1>4, <2>3 DEF Navigate
  <2> QED
    BY <2>2, <2>3, <2>4
<1> QED
  BY <1>3, <1>4

\* So are all of a calendar.
LEMMA DatesAreNumbers == Dates \subseteq Int
<1>1. Len(Months) + 1 \in 1..Len(Months) + 1
  BY FirstDates
<1>2. FirstOf[Len(Months) + 1] \in Int
  BY <1>1, FirstDates
<1> QED
  BY <1>2 DEF Dates

\* What disable holds, whichever calls filled it.
Held == {u \in [kind : {"weekday", "date", "range"}, from : Int, to : Int,
                inverted : BOOLEAN] : u.kind = "date" => u.from = u.to}

\* The parts of a calendar.
CalendarFields == {"min", "max", "select", "highlight", "view", "units", "flipped"}

\* What they are.
CalendarTyped(c) ==
  /\ DOMAIN c = CalendarFields
  /\ c.min \in Int /\ c.max \in Int /\ c.select \in Int /\ c.highlight \in Int
  /\ c.units \in Seq(Held)

\* Calendars c and d disable the same dates,
SameDates(c, d) ==
  c.min = d.min /\ c.max = d.max /\ c.units = d.units /\ c.flipped = d.flipped

\* so that one finds an enabled date where the other does.
LEMMA SameDisabled ==
  ASSUME NEW c, NEW d, SameDates(c, d)
  PROVE  /\ \A x : Disabled(c, x) <=> Disabled(d, x)
         /\ CanSettle(c) <=> CanSettle(d)
<1>1. \A x : Disabled(c, x) <=> Disabled(d, x)
  BY Zenon DEF Disabled, SameDates
<1>2. CanSettle(c) <=> CanSettle(d)
  BY <1>1, Zenon DEF CanSettle, SameDates
<1> QED
  BY <1>1, <1>2

\* validate returns a date; an enabled one as it is, and an enabled one where
\* there is any, unless the user leafs through the months.
LEMMA ValidateSettles ==
  ASSUME NEW c, CalendarTyped(c), NEW date \in Int, NEW leap, NEW interval \in Int \ {0}
  PROVE  /\ Validate(c, date, leap, interval) \in Int
         /\ leap # 0 => Validate(c, date, leap, interval) = date
         /\ ~Disabled(c, date) => Validate(c, date, leap, interval) = date
         /\ CanSettle(c) /\ leap = 0 => ~Disabled(c, Validate(c, date, leap, interval))
<1> DEFINE held(kind) == {c.units[i].from : i \in {j \in DOMAIN c.units : c.units[j].kind = kind}}
           before == \E d \in held("date") : d < date
           after == \E d \in held("date") : d > date
           days == held("weekday") # {}
           turn == c.flipped /\ ~days
                     /\ ((~after /\ interval > 0) \/ (~before /\ interval < 0))
           looks == leap = 0 /\ Disabled(c, date) /\ (c.flipped => days \/ before \/ after)
<1>1. Validate(c, date, leap, interval) =
        IF looks THEN Settle(c, date, IF turn THEN -interval ELSE interval) ELSE date
  BY Zenon DEF Validate
<1> HIDE DEF turn
<1>2. PICK k \in Int \ {0} : k = IF turn THEN -interval ELSE interval
  OBVIOUS
<1>3. c.min \in Int /\ c.max \in Int /\ c.units \in Seq(Held)
  BY DEF CalendarTyped
<1>4. CASE looks
  <2>1. Validate(c, date, leap, interval) = Settle(c, date, k)
    BY <1>1, <1>2, <1>4, Zenon
  <2>2. /\ Settle(c, date, k) \in Int
        /\ (\E d \in c.min..c.max : ~Disabled(c, d)) => ~Disabled(c, Settle(c, date, k))
    BY <1>2, <1>3, <1>4, SettleFinds
  <2>3. CanSettle(c) => \E d \in c.min..c.max : ~Disabled(c, d)
    BY Zenon DEF CanSettle
  <2> QED
    BY <1>4, <2>1, <2>2, <2>3, Zenon
<1>5. CASE ~looks
  <2>1. Validate(c, date, leap, interval) = date
    BY <1>1, <1>5, Zenon
  <2>2. ASSUME CanSettle(c), leap = 0, Disabled(c, date)
        PROVE  FALSE
    <3>1. c.flipped /\ ~days /\ ~before /\ ~after
      BY <1>5, <2>2, Zenon
    <3>2. PICK x \in c.min..c.max : ~Disabled(c, x)
      BY <2>2, Zenon DEF CanSettle
    <3>3. PICK i \in DOMAIN c.units : Matches(c.units[i], x)
      BY <3>1, <3>2, Zenon DEF Disabled
    <3>4. c.units[i] \in Held /\ c.units[i].kind # "range" /\ x \in Int
      <4>1. c.units[i].kind # "range"
        BY <2>2, <3>1, Zenon DEF CanSettle
      <4> QED
        BY <1>3, <4>1
    <3>5. c.units[i].kind # "weekday"
      <4>1. held("weekday") = {}
        BY <3>1, Zenon
      <4> QED
        BY <4>1
    <3>6. c.units[i].kind = "date"
      BY <3>4, <3>5 DEF Held
    <3>7. x = c.units[i].from
      <4>1. x \in c.units[i].from..c.units[i].to
        BY <3>3, <3>5, Zenon DEF Matches, WithinRange
      <4>2. c.units[i].from \in Int /\ c.units[i].to = c.units[i].from
        BY <3>4, <3>6 DEF Held
      <4> QED
        BY <4>1, <4>2
    <3>8. x \in held("date")
      BY <3>6, <3>7
    <3>9. ~(x < date) /\ ~(x > date)
      BY <3>1, <3>8, Zenon
    <3>10. x = date
      BY <3>4, <3>9
    <3> QED
      BY <2>2, <3>2, <3>10
  <2> QED
    BY <2>1, <2>2
<1> QED
  BY <1>4, <1>5

\* Within the month, or from a month that is one of Months.
CanGo(date, leap) == leap = 0 \/ MonthOf(date) \in DOMAIN Months

\* The date highlighted and the month in view.
LEMMA HighlightSound ==
  ASSUME NEW c, CalendarTyped(c), NEW date \in Int, NEW leap \in Int,
         CanGo(date, leap), NEW interval \in Int \ {0},
         NEW d, d = SetHighlight(c, date, leap, interval)
  PROVE  /\ CalendarTyped(d) /\ SameDates(c, d) /\ d.select = c.select
         /\ CanSettle(d) \/ leap # 0 => d.view = MonthOf(d.highlight)
<1>1. PICK x \in Int : x = Navigate(c, date, leap)
  BY NavigateIsDate DEF CanGo
<1>2. PICK h : h = Validate(c, x, leap, interval)
  OBVIOUS
<1>3. h \in Int /\ (CanSettle(c) /\ leap = 0 => ~Disabled(c, h))
  BY <1>1, <1>2, ValidateSettles
<1>4. PICK e : e = [c EXCEPT !.highlight = h]
  OBVIOUS
<1>5. d = View(e, leap, interval)
  BY <1>1, <1>2, <1>4, Zenon DEF SetHighlight
<1>6. DOMAIN c = CalendarFields
  BY DEF CalendarTyped
<1>7. /\ DOMAIN e = CalendarFields /\ e.highlight = h /\ e.select = c.select
      /\ e.min = c.min /\ e.max = c.max /\ e.units = c.units /\ e.flipped = c.flipped
  BY <1>4, <1>6 DEF CalendarFields
<1>8. CalendarTyped(e) /\ SameDates(c, e)
  BY <1>3, <1>7 DEF CalendarTyped, SameDates
<1>9. PICK v : v = MonthOf(Validate(e, h, leap, interval))
  OBVIOUS
<1>10. d = [e EXCEPT !.view = v]
  BY <1>5, <1>7, <1>9, Zenon DEF View
<1>11. /\ DOMAIN d = CalendarFields /\ d.highlight = h /\ d.select = c.select /\ d.view = v
       /\ d.min = c.min /\ d.max = c.max /\ d.units = c.units /\ d.flipped = c.flipped
  BY <1>7, <1>10 DEF CalendarFields
<1>12. CalendarTyped(d) /\ SameDates(c, d)
  BY <1>3, <1>11 DEF CalendarTyped, SameDates
<1>13. ASSUME CanSettle(d) \/ leap # 0
       PROVE  d.view = MonthOf(d.highlight)
  <2>1. leap = 0 => ~Disabled(e, h)
    <3>1. (CanSettle(c) <=> CanSettle(d)) /\ (Disabled(c, h) <=> Disabled(e, h))
      BY <1>8, <1>12, SameDisabled
    <3> QED
      BY <1>3, <1>13, <3>1
  <2>2. Validate(e, h, leap, interval) = h
    BY <1>3, <1>8, <2>1, ValidateSettles
  <2> QED
    BY <1>9, <1>11, <2>2
<1> QED
  BY <1>11, <1>12, <1>13

\* A date selected is enabled and its month in view (set).
LEMMA CalendarSelectSound ==
  ASSUME NEW c, CalendarTyped(c), NEW date \in Int, NEW d, d = SetSelect(c, date)
  PROVE  /\ CalendarTyped(d) /\ SameDates(c, d)
         /\ CanSettle(d) => ~Disabled(d, d.select) /\ d.view = MonthOf(d.highlight)
<1>1. PICK s : s = Validate(c, date, 0, 1)
  OBVIOUS
<1>2. s \in Int /\ (CanSettle(c) => ~Disabled(c, s))
  BY <1>1, ValidateSettles
<1>3. PICK e : e = [c EXCEPT !.select = s]
  OBVIOUS
<1>4. DOMAIN c = CalendarFields
  BY DEF CalendarTyped
<1>5. /\ DOMAIN e = CalendarFields /\ e.highlight = c.highlight /\ e.select = s
      /\ e.min = c.min /\ e.max = c.max /\ e.units = c.units /\ e.flipped = c.flipped
  BY <1>3, <1>4 DEF CalendarFields
<1>6. CalendarTyped(e) /\ SameDates(c, e)
  BY <1>2, <1>5 DEF CalendarTyped, SameDates
<1>7. d = SetHighlight(e, s, 0, 1)
  BY <1>1, <1>3, <1>5, Zenon DEF SetSelect, HighlightSelected
<1>8. /\ CalendarTyped(d) /\ SameDates(e, d) /\ d.select = s
      /\ CanSettle(d) => d.view = MonthOf(d.highlight)
  BY <1>2, <1>5, <1>6, <1>7, HighlightSound DEF CanGo
<1>9. SameDates(c, d)
  BY <1>6, <1>8 DEF SameDates
<1>10. (CanSettle(c) <=> CanSettle(d)) /\ (Disabled(c, s) <=> Disabled(d, s))
  BY <1>9, SameDisabled
<1> QED
  BY <1>2, <1>8, <1>9, <1>10

\* After a change of limits or disabled dates.
LEMMA CascadeSound ==
  ASSUME NEW c, CalendarTyped(c), NEW d, d = Cascade(c)
  PROVE  /\ CalendarTyped(d) /\ SameDates(c, d)
         /\ CanSettle(d) => /\ d.select # NoDate => ~Disabled(d, d.select)
                            /\ \/ d.view = MonthOf(d.highlight)
                               \/ d.view = c.view /\ d.highlight = c.highlight
<1>1. PICK e : e = Reselect(c)
  OBVIOUS
<1>2. d = Rehighlight(e)
  BY <1>1, Zenon DEF Cascade
<1>3. /\ CalendarTyped(e) /\ SameDates(c, e)
      /\ CanSettle(e) => /\ e.select # NoDate => ~Disabled(e, e.select)
                         /\ \/ e.view = MonthOf(e.highlight)
                            \/ e.view = c.view /\ e.highlight = c.highlight
  <2>1. CASE c.select # NoDate /\ Disabled(c, c.select)
    <3>1. e = SetSelect(c, c.select) /\ c.select \in Int
      BY <1>1, <2>1, Zenon DEF Reselect, CalendarTyped
    <3> QED
      BY <3>1, CalendarSelectSound
  <2>2. CASE ~(c.select # NoDate /\ Disabled(c, c.select))
    <3>1. e = c
      BY <1>1, <2>2, Zenon DEF Reselect
    <3> QED
      BY <2>2, <3>1 DEF SameDates
  <2> QED
    BY <2>1, <2>2
<1>4. CASE Disabled(e, e.highlight)
  <2>1. d = SetHighlight(e, e.highlight, 0, 1) /\ e.highlight \in Int
    BY <1>2, <1>3, <1>4, Zenon DEF Rehighlight, CalendarTyped
  <2>2. /\ CalendarTyped(d) /\ SameDates(e, d) /\ d.select = e.select
        /\ CanSettle(d) => d.view = MonthOf(d.highlight)
    BY <1>3, <2>1, HighlightSound DEF CanGo
  <2>3. (CanSettle(e) <=> CanSettle(d)) /\ (Disabled(e, e.select) <=> Disabled(d, e.select))
    BY <2>2, SameDisabled
  <2>4. SameDates(c, d)
    BY <1>3, <2>2 DEF SameDates
  <2> QED
    BY <1>3, <2>2, <2>3, <2>4
<1>5. CASE ~Disabled(e, e.highlight)
  <2>1. d = e
    BY <1>2, <1>5, Zenon DEF Rehighlight
  <2> QED
    BY <1>3, <2>1
<1> QED
  BY <1>4, <1>5

\* What the page disables or enables is held by the calendar,
LEMMA UnitsAreHeld ==
  ASSUME NEW u \in Unit
  PROVE  u \in Held /\ [u EXCEPT !.inverted = TRUE] \in Held
<1>1. Week \in Int /\ Dates \subseteq Int
  BY CalendarAssumption, DatesAreNumbers
<1>2. \E k \in {"weekday", "date", "range"}, a \in Int, b \in Int :
        /\ u = [kind |-> k, from |-> a, to |-> b, inverted |-> FALSE]
        /\ k = "date" => a = b
  <2>1. CASE \E n \in 1..Week : u = Weekdays(n)
    <3>1. PICK n \in Int : u = Weekdays(n)
      BY <1>1, <2>1
    <3> QED
      BY <3>1 DEF Weekdays
  <2>2. CASE \E d \in Dates : u = OneDate(d)
    <3>1. PICK d \in Int : u = OneDate(d)
      BY <1>1, <2>2
    <3> QED
      BY <3>1 DEF OneDate
  <2>3. CASE \E a, b \in Dates : u = DateRange(a, b)
    <3>1. PICK a \in Int, b \in Int : u = DateRange(a, b)
      BY <1>1, <2>3
    <3> QED
      BY <3>1 DEF DateRange
  <2> QED
    BY <2>1, <2>2, <2>3 DEF Unit
<1>3. PICK k \in {"weekday", "date", "range"}, a \in Int, b \in Int :
        /\ u = [kind |-> k, from |-> a, to |-> b, inverted |-> FALSE]
        /\ k = "date" => a = b
  BY <1>2
<1>4. u \in Held
  BY <1>3 DEF Held
<1>5. PICK v : v = [u EXCEPT !.inverted = TRUE]
  OBVIOUS
<1>6. v \in Held
  <2>1. DOMAIN v = {"kind", "from", "to", "inverted"}
    BY <1>3, <1>5
  <2>2. v.kind = k /\ v.from = a /\ v.to = b /\ v.inverted = TRUE
    BY <1>3, <1>5
  <2>3. v = [kind |-> k, from |-> a, to |-> b, inverted |-> TRUE]
    BY <1>5, <2>1, <2>2
  <2> QED
    BY <1>3, <2>3 DEF Held
<1> QED
  BY <1>4, <1>5, <1>6

\* which holds nothing else afterwards (deactivate, activate).
LEMMA ChangesHold ==
  ASSUME NEW units \in Seq(Held), NEW u \in Unit
  PROVE  Deactivate(units, u) \in Seq(Held) /\ Activate(units, u) \in Seq(Held)
<1>1. u \in Held /\ [u EXCEPT !.inverted = TRUE] \in Held
  BY UnitsAreHeld
<1>2. Deactivate(units, u) \in Seq(Held)
  <2>1. Append(units, u) \in Seq(Held)
    BY <1>1
  <2> QED
    BY <2>1, Zenon DEF Deactivate
<1>3. \A s \in Seq(Held) : \A P : WithoutFirst(s, P) \in Seq(Held)
  <2> TAKE s \in Seq(Held)
  <2> TAKE P
  <2>1. DOMAIN s \ FirstPlaces(P, 1) \in SUBSET DOMAIN s
    OBVIOUS
  <2> QED
    BY <2>1, ElementsAtSeq DEF WithoutFirst
<1>4. PICK others \in Seq(Held) : others = WithoutFirst(units, Exact(units, u))
  BY <1>3
<1>5. WithoutFirst(others, Overlapping(others, u)) \in Seq(Held)
  BY <1>3
<1>6. Append(others, [u EXCEPT !.inverted = TRUE]) \in Seq(Held)
  BY <1>1
<1>7. Activate(units, u) \in {units, WithoutFirst(others, Overlapping(others, u)),
                              Append(others, [u EXCEPT !.inverted = TRUE])}
  BY <1>4, Zenon DEF Activate
<1> QED
  BY <1>2, <1>5, <1>6, <1>7

\* The calls of the page.
LEMMA ChangesSound ==
  ASSUME NEW c, CalendarTyped(c), NEW x \in Int, NEW u \in Unit, NEW all \in BOOLEAN,
         NEW d, d \in {SetMin(c, x), SetMax(c, x), Disable(c, u), Enable(c, u),
                       DisableAll(c, all), Flip(c)}
  PROVE  /\ CalendarTyped(d)
         /\ CanSettle(d) => /\ d.select # NoDate => ~Disabled(d, d.select)
                            /\ \/ d.view = MonthOf(d.highlight)
                               \/ d.view = c.view /\ d.highlight = c.highlight
<1>1. DOMAIN c = CalendarFields
  BY DEF CalendarTyped
<1>2. Deactivate(c.units, u) \in Seq(Held) /\ Activate(c.units, u) \in Seq(Held)
  BY ChangesHold DEF CalendarTyped
<1>3. PICK e : /\ CalendarTyped(e) /\ e.view = c.view /\ e.highlight = c.highlight
               /\ d = Cascade(e)
  <2>1. CASE d = SetMin(c, x)
    <3>1. PICK e : e = [c EXCEPT !.min = x]
      OBVIOUS
    <3>2. CalendarTyped(e) /\ e.view = c.view /\ e.highlight = c.highlight
      BY <1>1, <3>1 DEF CalendarTyped, CalendarFields
    <3>3. d = Cascade(e)
      BY <2>1, <3>1, Zenon DEF SetMin
    <3> QED
      BY <3>2, <3>3
  <2>2. CASE d = SetMax(c, x)
    <3>1. PICK e : e = [c EXCEPT !.max = x]
      OBVIOUS
    <3>2. CalendarTyped(e) /\ e.view = c.view /\ e.highlight = c.highlight
      BY <1>1, <3>1 DEF CalendarTyped, CalendarFields
    <3>3. d = Cascade(e)
      BY <2>2, <3>1, Zenon DEF SetMax
    <3> QED
      BY <3>2, <3>3
  <2>3. CASE d = Disable(c, u)
    <3>1. PICK e : e = [c EXCEPT !.units = Deactivate(c.units, u)]
      OBVIOUS
    <3>2. CalendarTyped(e) /\ e.view = c.view /\ e.highlight = c.highlight
      BY <1>1, <1>2, <3>1 DEF CalendarTyped, CalendarFields
    <3>3. d = Cascade(e)
      BY <2>3, <3>1, Zenon DEF Disable
    <3> QED
      BY <3>2, <3>3
  <2>4. CASE d = Enable(c, u)
    <3>1. PICK e : e = [c EXCEPT !.units = Activate(c.units, u)]
      OBVIOUS
    <3>2. CalendarTyped(e) /\ e.view = c.view /\ e.highlight = c.highlight
      BY <1>1, <1>2, <3>1 DEF CalendarTyped, CalendarFields
    <3>3. d = Cascade(e)
      BY <2>4, <3>1, Zenon DEF Enable
    <3> QED
      BY <3>2, <3>3
  <2>5. CASE d = DisableAll(c, all)
    <3>1. PICK e : e = [c EXCEPT !.units = <<>>, !.flipped = all]
      OBVIOUS
    <3>4. <<>> \in Seq(Held)
      OBVIOUS
    <3>2. CalendarTyped(e) /\ e.view = c.view /\ e.highlight = c.highlight
      BY <1>1, <3>1, <3>4 DEF CalendarTyped, CalendarFields
    <3>3. d = Cascade(e)
      BY <2>5, <3>1, Zenon DEF DisableAll
    <3> QED
      BY <3>2, <3>3
  <2>6. CASE d = Flip(c)
    <3>1. PICK e : e = [c EXCEPT !.flipped = ~c.flipped]
      OBVIOUS
    <3>2. CalendarTyped(e) /\ e.view = c.view /\ e.highlight = c.highlight
      BY <1>1, <3>1 DEF CalendarTyped, CalendarFields
    <3>3. d = Cascade(e)
      BY <2>6, <3>1, Zenon DEF Flip
    <3> QED
      BY <3>2, <3>3
  <2> QED
    BY <2>1, <2>2, <2>3, <2>4, <2>5, <2>6
<1> QED
  BY <1>3, CascadeSound

\* The calendar that a picker starts with.
LEMMA NewCalendarSound ==
  ASSUME NEW min \in Int, NEW max \in Int, NEW value \in Int,
         NEW d, d = NewCalendar(min, max, value)
  PROVE  /\ CalendarTyped(d)
         /\ CanSettle(d) => /\ d.select # NoDate => ~Disabled(d, d.select)
                            /\ d.view = MonthOf(d.highlight)
         /\ value = NoDate => d.select = NoDate
<1>1. PICK c : c = [min |-> min, max |-> max, select |-> NoDate, highlight |-> Today,
                    view |-> MonthOf(Today), units |-> <<>>, flipped |-> FALSE]
  OBVIOUS
<1>2. NoDate \in Int /\ Today \in Int /\ <<>> \in Seq(Held)
  BY CalendarAssumption DEF NoDate
<1>3. CalendarTyped(c) /\ c.select = NoDate
  BY <1>1, <1>2 DEF CalendarTyped, CalendarFields
<1>4. CASE value = NoDate
  <2>1. d = SetHighlight(c, Today, 0, 1)
    BY <1>1, <1>4, Zenon DEF NewCalendar
  <2> QED
    BY <1>2, <1>3, <2>1, HighlightSound DEF CanGo
<1>5. CASE value # NoDate
  <2>1. d = SetSelect(c, value)
    BY <1>1, <1>5, Zenon DEF NewCalendar
  <2> QED
    BY <1>3, <1>5, <2>1, CalendarSelectSound
<1> QED
  BY <1>4, <1>5

\* A month chosen from the selector.
LEMMA ChooseMonthSound ==
  ASSUME NEW c, CalendarTyped(c), MonthOf(c.highlight) \in DOMAIN Months,
         NEW month \in DOMAIN Months, NEW d, d = ChooseMonth(c, month)
  PROVE  /\ CalendarTyped(d) /\ SameDates(c, d) /\ d.select = c.select
         /\ CanSettle(d) => d.view = MonthOf(d.highlight)
<1>1. /\ month \in 1..Len(Months) + 1 /\ MonthOf(c.highlight) \in 1..Len(Months) + 1
      /\ Months[month] \in Nat /\ c.highlight \in Int
  BY FirstDates DEF CalendarTyped
<1>2. FirstOf[month] \in Int /\ FirstOf[MonthOf(c.highlight)] \in Int
  BY <1>1, FirstDates
<1>3. PICK m \in Int : m = Min({c.highlight - FirstOf[MonthOf(c.highlight)], Months[month] - 1})
  BY <1>1, <1>2, LesserOfTwo
<1>4. d = SetHighlight(c, FirstOf[month] + m, 0, 1)
  BY <1>3, Zenon DEF ChooseMonth
<1>5. FirstOf[month] + m \in Int
  BY <1>2
<1> QED
  BY <1>4, <1>5, HighlightSound DEF CanGo

(* The picker's choice.                                                    *)

\* What the picker knows of its choice.
ChoiceTyped(p) ==
  /\ DOMAIN p = PickerFields
  /\ p.value \in Int /\ p.started \in BOOLEAN /\ p.moved \in BOOLEAN
  /\ p.kept \in BOOLEAN
  /\ p.stray \in BOOLEAN /\ p.bound \in BOOLEAN /\ p.hasty \in BOOLEAN
  /\ p.started => p.bound \/ p.hasty

\* The input shows the date selected, and the hidden input submits it, but for
\* what is remembered.
ChoiceOf(p, date) ==
  /\ ChoiceTyped(p)
  /\ p.started => /\ p.value = date \/ p.moved \/ p.kept
                  /\ p.hidden = date \/ p.moved \/ p.hasty

\* Pickers p and q know the same of it.
SameChoice(p, q) ==
  /\ DOMAIN q = DOMAIN p
  /\ q.started = p.started /\ q.value = p.value /\ q.hidden = p.hidden
  /\ q.moved = p.moved /\ q.kept = p.kept /\ q.stray = p.stray
        /\ q.bound = p.bound /\ q.hasty = p.hasty

\* A date selected is enabled while some date is.
EnabledSelected(c) ==
  CanSettle(c) => (c.select # NoDate => ~Disabled(c, c.select))

\* The month in view is that of the date highlighted.
HighlightInView(p, c) == c.view = MonthOf(c.highlight) \/ p.stray

\* The invariant of picker and calendar.
DateInv == /\ CalendarTyped(cal) /\ EnabledSelected(cal)
           /\ ChoiceOf(picker, cal.select) /\ HighlightInView(picker, cal)

\* A picker that knows the same of its choice is as sound.
LEMMA SameChoiceKeeps ==
  ASSUME NEW p, NEW q, SameChoice(p, q), ChoiceTyped(p), NEW date, NEW c
  PROVE  /\ ChoiceTyped(q)
         /\ ChoiceOf(p, date) => ChoiceOf(q, date)
         /\ HighlightInView(p, c) => HighlightInView(q, c)
<1>1. ChoiceTyped(q)
  BY DEF ChoiceTyped, SameChoice
<1>2. ChoiceOf(p, date) => ChoiceOf(q, date)
  BY <1>1 DEF ChoiceOf, SameChoice
<1>3. HighlightInView(p, c) => HighlightInView(q, c)
  BY DEF HighlightInView, SameChoice
<1> QED
  BY <1>1, <1>2, <1>3

\* Opening changes no choice,
LEMMA OpeningsKeepChoice ==
  ASSUME NEW p, ChoiceTyped(p)
  PROVE  SameChoice(p, Opening(p)) /\ SameChoice(p, OpeningUnfocused(p))
<1>1. DOMAIN p = PickerFields
  BY DEF ChoiceTyped
<1>2. CASE p.open
  BY <1>2 DEF Opening, OpeningUnfocused, SameChoice
<1>3. CASE ~p.open
  <2> DEFINE q == Opening(p)
             r == OpeningUnfocused(p)
  <2>1. /\ DOMAIN q = DOMAIN p
        /\ q.started = p.started /\ q.value = p.value /\ q.hidden = p.hidden
        /\ q.moved = p.moved /\ q.kept = p.kept /\ q.stray = p.stray
        /\ q.bound = p.bound /\ q.hasty = p.hasty
    BY <1>1, <1>3 DEF Opening, PickerFields
  <2>2. /\ DOMAIN r = DOMAIN p
        /\ r.started = p.started /\ r.value = p.value /\ r.hidden = p.hidden
        /\ r.moved = p.moved /\ r.kept = p.kept /\ r.stray = p.stray
        /\ r.bound = p.bound /\ r.hasty = p.hasty
    BY <1>1, <1>3 DEF OpeningUnfocused, PickerFields
  <2> QED
    BY <2>1, <2>2 DEF SameChoice
<1> QED
  BY <1>2, <1>3

\* nor does the focus,
LEMMA FocusKeepsChoice ==
  ASSUME NEW p, ChoiceTyped(p)
  PROVE  SameChoice(p, FocusRoot(p))
<1> DEFINE q == [p EXCEPT !.focus = "root"]
<1>1. DOMAIN p = PickerFields
  BY DEF ChoiceTyped
<1>2. SameChoice(p, q)
  BY <1>1 DEF SameChoice, PickerFields
<1>3. FocusRoot(p) = IF p.toOpen THEN Opening(q) ELSE q
  BY DEF FocusRoot
<1> HIDE DEF q
<1>4. ChoiceTyped(q)
  BY <1>2, SameChoiceKeeps
<1>5. SameChoice(q, Opening(q))
  BY <1>4, OpeningsKeepChoice
<1>6. SameChoice(p, Opening(q))
  BY <1>2, <1>5 DEF SameChoice
<1> QED
  BY <1>2, <1>3, <1>6

\* nor closing.
LEMMA ClosingKeepsChoice ==
  ASSUME NEW p, ChoiceTyped(p), NEW giveFocus
  PROVE  SameChoice(p, Closing(p, giveFocus))
<1> DEFINE q == IF giveFocus
                THEN [p EXCEPT !.toOpen = FALSE, !.focus = "root",
                               !.timers = Append(@, "bind")]
                ELSE p
           r == [q EXCEPT !.active = FALSE, !.timers = Append(@, "close")]
           s == [r EXCEPT !.open = FALSE, !.locked = FALSE, !.listening = FALSE,
                          !.buttons = FALSE, !.today = FALSE,
                          !.pad = IF DefaultTheme /\ @ >= ScrollbarWidth(p)
                                  THEN @ - ScrollbarWidth(p) ELSE @]
<1>1. Closing(p, giveFocus) = IF ~p.open THEN r ELSE s
  BY DEF Closing
<1>2. DOMAIN p = PickerFields
  BY DEF ChoiceTyped
<1>3. SameChoice(p, q)
  <2>1. CASE giveFocus
    <3>1. /\ DOMAIN q = DOMAIN p
          /\ q.started = p.started /\ q.value = p.value /\ q.hidden = p.hidden
          /\ q.moved = p.moved /\ q.kept = p.kept /\ q.stray = p.stray
        /\ q.bound = p.bound /\ q.hasty = p.hasty
      BY <1>2, <2>1 DEF PickerFields
    <3> QED
      BY <3>1 DEF SameChoice
  <2>2. CASE ~giveFocus
    BY <2>2 DEF SameChoice
  <2> QED
    BY <2>1, <2>2
<1> HIDE DEF q
<1>4. DOMAIN q = PickerFields
  BY <1>2, <1>3 DEF SameChoice
<1>5. /\ DOMAIN r = DOMAIN q
      /\ r.started = q.started /\ r.value = q.value /\ r.hidden = q.hidden
      /\ r.moved = q.moved /\ r.kept = q.kept /\ r.stray = q.stray
        /\ r.bound = q.bound /\ r.hasty = q.hasty
  BY <1>4 DEF PickerFields
<1> HIDE DEF r
<1>6. /\ DOMAIN s = DOMAIN r
      /\ s.started = r.started /\ s.value = r.value /\ s.hidden = r.hidden
      /\ s.moved = r.moved /\ s.kept = r.kept /\ s.stray = r.stray
        /\ s.bound = r.bound /\ s.hasty = r.hasty
  BY <1>4, <1>5 DEF PickerFields
<1> HIDE DEF s
<1>7. SameChoice(p, r) /\ SameChoice(p, s)
  BY <1>3, <1>5, <1>6 DEF SameChoice
<1> QED
  BY <1>1, <1>7

\* Writing a date to the inputs shows it and submits it.
LEMMA WrittenChoice ==
  ASSUME NEW p, ChoiceTyped(p), NEW date \in Int
  PROVE  ChoiceOf(Written(p, date), date) /\ Written(p, date).stray = p.stray
<1>1. DOMAIN p = PickerFields
  BY DEF ChoiceTyped
<1>2. PICK q : q = Written(p, date)
  OBVIOUS
<1>3. /\ DOMAIN q = PickerFields
      /\ q.started = p.started /\ q.value = date
      /\ q.hidden = IF p.bound THEN date ELSE p.hidden
      /\ q.moved = FALSE /\ q.kept = FALSE /\ q.stray = p.stray
      /\ q.bound = p.bound /\ q.hasty = p.hasty
  BY <1>1, <1>2 DEF Written, PickerFields
<1>4. ChoiceTyped(q)
  BY <1>3 DEF ChoiceTyped
<1>5. ChoiceOf(q, date)
  BY <1>3, <1>4 DEF ChoiceOf, ChoiceTyped
<1> QED
  BY <1>2, <1>3, <1>5

\* Drawing the month anew changes no choice, and strays only where no date is
\* enabled or the highlight stays.
LEMMA DrawnChoice ==
  ASSUME NEW p, ChoiceTyped(p), NEW c, NEW d
  PROVE  /\ SameChoice(p, Drawn(p, c))
         /\ \E x \in BOOLEAN :
              /\ SameChoice([p EXCEPT !.stray = x], Viewed(p, c, d))
              /\ ~CanSettle(d) => x
              /\ c.highlight = d.highlight => (p.stray => x)
<1>1. DOMAIN p = PickerFields /\ p.stray \in BOOLEAN
  BY DEF ChoiceTyped
<1>2. \A e : SameChoice(p, Drawn(p, e)) /\ DOMAIN Drawn(p, e) = PickerFields
  <2> TAKE e
  <2>1. PICK q : q = Drawn(p, e)
    OBVIOUS
  <2>2. /\ DOMAIN q = DOMAIN p
        /\ q.started = p.started /\ q.value = p.value /\ q.hidden = p.hidden
        /\ q.moved = p.moved /\ q.kept = p.kept /\ q.stray = p.stray
        /\ q.bound = p.bound /\ q.hasty = p.hasty
    BY <1>1, <2>1 DEF Drawn, PickerFields
  <2> QED
    BY <1>1, <2>1, <2>2 DEF SameChoice
<1>3. PICK s : s = Drawn(p, d)
  OBVIOUS
<1>4. SameChoice(p, s) /\ DOMAIN s = PickerFields
  BY <1>2, <1>3
<1>5. PICK x \in BOOLEAN : x = IF c.highlight = d.highlight THEN s.stray \/ ~CanSettle(d)
                               ELSE ~CanSettle(d)
  OBVIOUS
<1>6. Viewed(p, c, d) = [s EXCEPT !.stray = x]
  BY <1>3, <1>5, Zenon DEF Viewed
<1>7. PICK q : q = [s EXCEPT !.stray = x]
  OBVIOUS
<1>8. PICK r : r = [p EXCEPT !.stray = x]
  OBVIOUS
<1>9. SameChoice(r, q)
  BY <1>1, <1>4, <1>7, <1>8 DEF SameChoice, PickerFields
<1>10. /\ ~CanSettle(d) => x
       /\ c.highlight = d.highlight => (p.stray => x)
  BY <1>4, <1>5 DEF SameChoice
<1> QED
  BY <1>2, <1>6, <1>7, <1>8, <1>9, <1>10

\* Drawing the month in view keeps the picker sound.
LEMMA ViewedChoice ==
  ASSUME NEW p, ChoiceTyped(p), NEW c, NEW d, NEW date,
         HighlightInView(p, c),
         CanSettle(d) => \/ d.view = MonthOf(d.highlight)
                         \/ d.view = c.view /\ d.highlight = c.highlight
  PROVE  /\ ChoiceTyped(Viewed(p, c, d))
         /\ ChoiceOf(p, date) => ChoiceOf(Viewed(p, c, d), date)
         /\ HighlightInView(Viewed(p, c, d), d)
         /\ Viewed(p, c, d).started = p.started
<1>1. PICK x \in BOOLEAN :
              /\ SameChoice([p EXCEPT !.stray = x], Viewed(p, c, d))
              /\ ~CanSettle(d) => x
              /\ c.highlight = d.highlight => (p.stray => x)
  BY DrawnChoice
<1>2. PICK r : r = [p EXCEPT !.stray = x]
  OBVIOUS
<1>3. DOMAIN p = PickerFields
  BY DEF ChoiceTyped
<1>4. /\ DOMAIN r = PickerFields
      /\ r.started = p.started /\ r.value = p.value /\ r.hidden = p.hidden
      /\ r.moved = p.moved /\ r.kept = p.kept /\ r.stray = x /\ r.bound = p.bound /\ r.hasty = p.hasty
  BY <1>2, <1>3 DEF PickerFields
<1>5. ChoiceTyped(r)
  BY <1>4 DEF ChoiceTyped
<1>6. ChoiceOf(p, date) => ChoiceOf(r, date)
  BY <1>4, <1>5 DEF ChoiceOf
<1>7. HighlightInView(r, d)
  BY <1>1, <1>4 DEF HighlightInView
<1>8. SameChoice(r, Viewed(p, c, d))
  BY <1>1, <1>2
<1>9. Viewed(p, c, d).started = p.started
  BY <1>4, <1>8 DEF SameChoice
<1> QED
  BY <1>5, <1>6, <1>7, <1>8, <1>9, SameChoiceKeeps

\* A new selection is written to the inputs.
LEMMA SelectWithKeeps ==
  ASSUME DateInv, NEW p, ChoiceTyped(p), p.stray = picker.stray, NEW d \in Int,
         SelectWith(p, d)
  PROVE  DateInv'
<1>1. PICK c : c = SetSelect(cal, d)
  OBVIOUS
<1>2. /\ CalendarTyped(c)
      /\ CanSettle(c) => ~Disabled(c, c.select) /\ c.view = MonthOf(c.highlight)
  BY <1>1, CalendarSelectSound DEF DateInv
<1>3. PICK q : q = Viewed(p, cal, c)
  OBVIOUS
<1>4. cal' = c /\ picker' = Written(q, c.select)
  BY <1>1, <1>3, Zenon DEF SelectWith, Picked
<1>5. HighlightInView(p, cal)
  BY DEF DateInv, HighlightInView
<1>6. ChoiceTyped(q) /\ HighlightInView(q, c)
  BY <1>2, <1>3, <1>5, ViewedChoice
<1>7. c.select \in Int
  BY <1>2 DEF CalendarTyped
<1>8. PICK r : r = Written(q, c.select)
  OBVIOUS
<1>9. ChoiceOf(r, c.select) /\ r.stray = q.stray
  BY <1>6, <1>7, <1>8, WrittenChoice
<1>10. HighlightInView(r, c)
  BY <1>6, <1>9 DEF HighlightInView
<1>11. EnabledSelected(c)
  BY <1>2 DEF EnabledSelected
<1>12. cal' = c /\ picker' = r
  BY <1>4, <1>8
<1> QED
  BY <1>2, <1>9, <1>10, <1>11, <1>12 DEF DateInv

\* A new highlight or month in view.
LEMMA ViewWithKeeps ==
  ASSUME DateInv, NEW p, SameChoice(picker, p), NEW c, ViewWith(p, c),
         CalendarTyped(c), SameDates(cal, c), c.select = cal.select,
         CanSettle(c) => c.view = MonthOf(c.highlight)
  PROVE  DateInv'
<1>1. PICK r : r = Viewed(p, cal, c)
  OBVIOUS
<1>2. cal' = c /\ picker' = r
  BY <1>1 DEF ViewWith
<1>3. ChoiceTyped(p) /\ HighlightInView(p, cal) /\ ChoiceOf(p, cal.select)
  <2>1. ChoiceTyped(picker) /\ HighlightInView(picker, cal) /\ ChoiceOf(picker, cal.select)
    BY DEF DateInv, ChoiceOf
  <2> QED
    BY <2>1, SameChoiceKeeps
<1>4. ChoiceOf(r, c.select) /\ HighlightInView(r, c)
  BY <1>1, <1>3, ViewedChoice
<1>5. (CanSettle(cal) <=> CanSettle(c)) /\ (Disabled(cal, c.select) <=> Disabled(c, c.select))
  BY SameDisabled
<1>6. EnabledSelected(c)
  BY <1>5 DEF EnabledSelected, DateInv
<1> QED
  BY <1>2, <1>4, <1>6 DEF DateInv

\* Nothing is selected.
LEMMA ClearWithKeeps ==
  ASSUME DateInv, NEW p, ChoiceOf(p, NoDate), p.stray = picker.stray, ClearWith(p)
  PROVE  DateInv'
<1>1. PICK c : c = [cal EXCEPT !.select = NoDate]
  OBVIOUS
<1>2. PICK r : r = Drawn(p, cal)
  OBVIOUS
<1>3. cal' = c /\ picker' = r
  BY <1>1, <1>2 DEF ClearWith
<1>4. DOMAIN cal = CalendarFields /\ NoDate \in Int
  BY DEF DateInv, CalendarTyped, NoDate
<1>5. /\ DOMAIN c = CalendarFields /\ c.select = NoDate /\ c.highlight = cal.highlight
      /\ c.view = cal.view /\ c.min = cal.min /\ c.max = cal.max /\ c.units = cal.units
  BY <1>1, <1>4 DEF CalendarFields
<1>6. CalendarTyped(c) /\ EnabledSelected(c)
  BY <1>4, <1>5 DEF DateInv, CalendarTyped, EnabledSelected
<1>7. ChoiceTyped(p)
  BY DEF ChoiceOf
<1>8. SameChoice(p, r)
  BY <1>2, <1>7, DrawnChoice
<1>9. ChoiceOf(r, NoDate)
  BY <1>7, <1>8, SameChoiceKeeps
<1>10. HighlightInView(r, c)
  BY <1>5, <1>8 DEF DateInv, HighlightInView, SameChoice
<1> QED
  BY <1>3, <1>5, <1>6, <1>9, <1>10 DEF DateInv

\* The limits or the disabled dates change.
LEMMA ChangeKeepsDate ==
  ASSUME DateInv, NEW c, Change(c), CalendarTyped(c), EnabledSelected(c),
         CanSettle(c) => \/ c.view = MonthOf(c.highlight)
                         \/ c.view = cal.view /\ c.highlight = cal.highlight
  PROVE  DateInv'
<1>1. PICK q : q = Viewed(picker, cal, c)
  OBVIOUS
<1>2. ChoiceTyped(picker) /\ HighlightInView(picker, cal) /\ ChoiceOf(picker, cal.select)
  BY DEF DateInv, ChoiceOf
<1>3. ChoiceTyped(q) /\ ChoiceOf(q, cal.select) /\ HighlightInView(q, c)
  BY <1>1, <1>2, ViewedChoice
<1>4. PICK x \in BOOLEAN : x = (q.moved \/ c.select # cal.select)
  OBVIOUS
<1>5. PICK r : r = [q EXCEPT !.moved = x]
  OBVIOUS
<1>6. DOMAIN q = PickerFields
  BY <1>3 DEF ChoiceTyped
<1>7. cal' = c /\ picker' = r
  BY <1>1, <1>4, <1>5, Zenon DEF Change
<1>8. /\ DOMAIN r = PickerFields
      /\ r.started = q.started /\ r.value = q.value /\ r.hidden = q.hidden
      /\ r.moved = x /\ r.kept = q.kept /\ r.stray = q.stray /\ r.bound = q.bound /\ r.hasty = q.hasty
  BY <1>5, <1>6 DEF PickerFields
<1>9. ChoiceTyped(r)
  BY <1>3, <1>8 DEF ChoiceTyped
<1>10. ChoiceOf(r, c.select)
  BY <1>3, <1>4, <1>8, <1>9 DEF ChoiceOf
<1>11. HighlightInView(r, c)
  BY <1>3, <1>8 DEF HighlightInView
<1> QED
  BY <1>7, <1>10, <1>11 DEF DateInv

\* A timeout.
LEMMA TimeoutKeepsDate ==
  ASSUME DateInv, Timeout
  PROVE  DateInv'
<1> DEFINE p == [picker EXCEPT !.timers = Tail(@)]
           timer == Head(picker.timers)
           q == [p EXCEPT
                  !.opened = IF timer \in {"open", "close"} THEN timer = "open" ELSE @,
                  !.toOpen = @ \/ timer = "bind",
                  !.bound = @ /\ timer # "unbind",
                  !.hasty = @ \/ (timer = "unbind" /\ p.started)]
<1>1. picker' = q /\ cal' = cal
  BY DEF Timeout
<1>2. DOMAIN picker = PickerFields
  BY DEF DateInv, ChoiceOf, ChoiceTyped
<1>3. /\ DOMAIN p = PickerFields
      /\ p.started = picker.started /\ p.value = picker.value /\ p.hidden = picker.hidden
      /\ p.moved = picker.moved /\ p.kept = picker.kept /\ p.stray = picker.stray
        /\ p.bound = picker.bound
      /\ p.hasty = picker.hasty
  BY <1>2 DEF PickerFields
<1> HIDE DEF p
<1>4. /\ DOMAIN q = PickerFields
      /\ q.started = p.started /\ q.value = p.value /\ q.hidden = p.hidden
      /\ q.moved = p.moved /\ q.kept = p.kept /\ q.stray = p.stray
      /\ q.bound = (p.bound /\ timer # "unbind")
      /\ q.hasty = (p.hasty \/ (timer = "unbind" /\ p.started))
  BY <1>3 DEF PickerFields
<1> HIDE DEF q, timer
<1>5. ChoiceTyped(q)
  BY <1>3, <1>4 DEF DateInv, ChoiceOf, ChoiceTyped
<1>6. ChoiceOf(q, cal.select)
  BY <1>3, <1>4, <1>5 DEF DateInv, ChoiceOf
<1>7. HighlightInView(q, cal)
  BY <1>3, <1>4 DEF DateInv, HighlightInView
<1> QED
  BY <1>1, <1>6, <1>7 DEF DateInv

\* The picker is stopped, or starts.
LEMMA StopKeepsDate ==
  ASSUME DateInv, StopPicker
  PROVE  DateInv'
<1>1. PICK p : p = Closing(picker, FALSE)
  OBVIOUS
<1>2. PICK f, t : picker' = [p EXCEPT
                !.started = FALSE, !.opened = FALSE, !.toOpen = FALSE,
                !.hidden = NoDate, !.moved = FALSE, !.focus = f, !.timers = t]
  BY <1>1 DEF StopPicker
<1>3. cal' = cal
  BY DEF StopPicker
<1>4. ChoiceTyped(picker)
  BY DEF DateInv, ChoiceOf
<1>5. SameChoice(picker, p) /\ ChoiceTyped(p)
  BY <1>1, <1>4, ClosingKeepsChoice, SameChoiceKeeps
<1>6. DOMAIN p = PickerFields
  BY <1>5 DEF ChoiceTyped
<1>7. PICK q : q = picker'
  OBVIOUS
<1>8. /\ DOMAIN q = PickerFields /\ q.started = FALSE /\ q.value = p.value
      /\ q.moved = FALSE /\ q.kept = p.kept /\ q.stray = p.stray
      /\ q.bound = p.bound /\ q.hasty = p.hasty
  BY <1>2, <1>6, <1>7 DEF PickerFields
<1>9. ChoiceTyped(q)
  BY <1>5, <1>8 DEF ChoiceTyped
<1>10. ChoiceOf(q, cal.select)
  BY <1>8, <1>9 DEF ChoiceOf
<1>11. HighlightInView(q, cal)
  BY <1>5, <1>8 DEF DateInv, HighlightInView, SameChoice
<1> QED
  BY <1>3, <1>7, <1>10, <1>11 DEF DateInv

\* A picker that starts shows and submits its calendar's date.
LEMMA StartedChoice ==
  ASSUME NEW p, DOMAIN p = PickerFields, p.value \in Int, NEW c,
         p.value = NoDate => c.select = NoDate,
         CanSettle(c) => c.view = MonthOf(c.highlight)
  PROVE  ChoiceOf(Started(p, c), c.select) /\ HighlightInView(Started(p, c), c)
<1> DEFINE q == [p EXCEPT !.started = TRUE, !.open = FALSE, !.opened = FALSE,
                     !.toOpen = TRUE, !.bound = TRUE, !.buttons = FALSE,
                     !.today = FALSE,
                     !.hidden = IF p.value = NoDate THEN NoDate ELSE c.select,
                     !.kept = c.select # p.value, !.moved = FALSE, !.hasty = FALSE,
                     !.stray = ~CanSettle(c)]
<1>1. Started(p, c) = IF q.focus = "element" THEN Opening(q) ELSE q
  <2>1. q.focus = p.focus
    BY DEF PickerFields
  <2> QED
    BY <2>1 DEF Started
<1>2. /\ DOMAIN q = PickerFields /\ q.started = TRUE /\ q.value = p.value
      /\ q.hidden = IF p.value = NoDate THEN NoDate ELSE c.select
      /\ q.moved = FALSE /\ q.kept = (c.select # p.value) /\ q.stray = ~CanSettle(c)
      /\ q.bound = TRUE /\ q.hasty = FALSE
  BY DEF PickerFields
<1> HIDE DEF q
<1>3. ChoiceTyped(q)
  BY <1>2 DEF ChoiceTyped
<1>4. ChoiceOf(q, c.select)
  BY <1>2, <1>3 DEF ChoiceOf
<1>5. HighlightInView(q, c)
  BY <1>2 DEF HighlightInView
<1>6. SameChoice(q, Opening(q))
  BY <1>3, OpeningsKeepChoice
<1>7. ChoiceOf(Opening(q), c.select) /\ HighlightInView(Opening(q), c)
  BY <1>3, <1>4, <1>5, <1>6, SameChoiceKeeps
<1> QED
  BY <1>1, <1>4, <1>5, <1>7

\* The limits the page sets are dates.
LEMMA SettingsAreDates == Settings[1] \in Int /\ Settings[2] \in Int
<1>1. PickerLimits \in Int \X Int /\ CalendarLimits \in Int \X Int
  BY PickerAssumption, DatesAreNumbers
<1> QED
  BY <1>1 DEF Settings

\* The picker starts.
LEMMA StartKeepsDate ==
  ASSUME DateInv, StartPicker
  PROVE  DateInv'
<1>1. PICK c : c = NewCalendar(Settings[1], Settings[2], picker.value)
  OBVIOUS
<1>2. cal' = c /\ picker' = Started(picker, c)
  BY <1>1 DEF StartPicker, StartWith
<1>3. DOMAIN picker = PickerFields /\ picker.value \in Int
  BY DEF DateInv, ChoiceOf, ChoiceTyped
<1>4. /\ CalendarTyped(c)
      /\ CanSettle(c) => /\ c.select # NoDate => ~Disabled(c, c.select)
                         /\ c.view = MonthOf(c.highlight)
      /\ picker.value = NoDate => c.select = NoDate
  BY <1>1, <1>3, NewCalendarSound, SettingsAreDates
<1>5. PICK r : r = Started(picker, c)
  OBVIOUS
<1>6. ChoiceOf(r, c.select) /\ HighlightInView(r, c)
  BY <1>3, <1>4, <1>5, StartedChoice
<1>7. EnabledSelected(c)
  BY <1>4 DEF EnabledSelected
<1> QED
  BY <1>2, <1>4, <1>5, <1>6, <1>7 DEF DateInv

\* Neither the calendar nor what the inputs hold changes.
LEMMA SameDateKept ==
  ASSUME DateInv, NEW q, SameChoice(picker, q), picker' = q, cal' = cal
  PROVE  DateInv'
<1>1. ChoiceTyped(picker) /\ ChoiceOf(picker, cal.select) /\ HighlightInView(picker, cal)
  BY DEF DateInv, ChoiceOf
<1>2. ChoiceOf(q, cal.select) /\ HighlightInView(q, cal)
  BY <1>1, SameChoiceKeeps
<1> QED
  BY <1>2 DEF DateInv

\* Opening, closing and the focus.
LEMMA FocusStepsKeepDate ==
  ASSUME DateInv
  PROVE  /\ ClickElement => DateInv'
         /\ LeavePicker => DateInv'
         /\ ClickHolder => DateInv'
         /\ ClickClose => DateInv'
         /\ EscapePicker => DateInv'
         /\ PressSpace => DateInv'
         /\ Resize => DateInv'
         /\ \A f : CallOpen(f) \/ CallClose(f) => DateInv'
         /\ \A d \in {NoDate} \cup Dates : TypeDate(d) => DateInv'
<1>1. ChoiceTyped(picker) /\ DOMAIN picker = PickerFields /\ SameChoice(picker, picker)
  BY DEF DateInv, ChoiceOf, ChoiceTyped, SameChoice
<1>2. /\ SameChoice(picker, FocusRoot(picker)) /\ ChoiceTyped(FocusRoot(picker))
      /\ SameChoice(picker, Opening(picker)) /\ SameChoice(picker, OpeningUnfocused(picker))
  BY <1>1, FocusKeepsChoice, OpeningsKeepChoice, SameChoiceKeeps
<1>3. \A p, g : SameChoice(picker, p) /\ ChoiceTyped(p) => SameChoice(picker, Closing(p, g))
  <2> TAKE p, g
  <2> HAVE SameChoice(picker, p) /\ ChoiceTyped(p)
  <2>1. SameChoice(p, Closing(p, g))
    BY ClosingKeepsChoice
  <2> QED
    BY <2>1 DEF SameChoice
<1>4. \A p, f : SameChoice(picker, p) => SameChoice(picker, [p EXCEPT !.focus = f])
  BY <1>1 DEF SameChoice, PickerFields
<1>5. ASSUME ClickElement PROVE DateInv'
  <2>1. picker' = FocusRoot(picker) \/ picker' = [picker EXCEPT !.focus = "element"]
    BY <1>5 DEF ClickElement
  <2>2. SameChoice(picker, picker') /\ cal' = cal
    BY <1>1, <1>2, <1>4, <1>5, <2>1 DEF ClickElement
  <2> QED
    BY <2>2, SameDateKept
<1>6. ASSUME LeavePicker PROVE DateInv'
  <2>1. PICK p : /\ p = IF picker.listening THEN Closing(picker, FALSE) ELSE picker
                 /\ picker' = [p EXCEPT !.focus = "page"]
    BY <1>6 DEF LeavePicker
  <2>2. SameChoice(picker, p)
    BY <1>1, <1>3, <2>1
  <2>3. SameChoice(picker, picker') /\ cal' = cal
    <3>1. SameChoice(picker, [p EXCEPT !.focus = "page"])
      BY <1>4, <2>2
    <3> QED
      BY <1>6, <2>1, <3>1 DEF LeavePicker
  <2> QED
    BY <2>3, SameDateKept
<1>7. ASSUME ClickHolder PROVE DateInv'
  <2>1. PICK p : /\ p = IF picker.focus = "root" THEN picker ELSE FocusRoot(picker)
                 /\ picker' = IF p.listening THEN Closing(p, TRUE) ELSE p
    BY <1>7 DEF ClickHolder
  <2>2. SameChoice(picker, p) /\ ChoiceTyped(p)
    BY <1>1, <1>2, <2>1
  <2>3. SameChoice(picker, picker') /\ cal' = cal
    BY <1>3, <1>7, <2>1, <2>2 DEF ClickHolder
  <2> QED
    BY <2>3, SameDateKept
<1>8. ASSUME ClickClose PROVE DateInv'
  <2>1. SameChoice(picker, picker') /\ cal' = cal
    BY <1>2, <1>3, <1>8 DEF ClickClose
  <2> QED
    BY <2>1, SameDateKept
<1>9. ASSUME EscapePicker \/ PressSpace PROVE DateInv'
  <2>1. SameChoice(picker, picker') /\ cal' = cal
    BY <1>1, <1>2, <1>3, <1>9 DEF EscapePicker, PressSpace
  <2> QED
    BY <2>1, SameDateKept
<1>10. ASSUME Resize PROVE DateInv'
  <2>1. PICK x, y : picker' = [picker EXCEPT !.tall = x, !.resized = y]
    BY <1>10 DEF Resize
  <2>2. PICK q : q = picker'
    OBVIOUS
  <2>3. SameChoice(picker, q)
    BY <1>1, <2>1, <2>2 DEF SameChoice, PickerFields
  <2>4. cal' = cal
    BY <1>10 DEF Resize
  <2> QED
    BY <2>2, <2>3, <2>4, SameDateKept
<1>11. ASSUME NEW f, CallOpen(f) \/ CallClose(f) PROVE DateInv'
  <2>1. SameChoice(picker, picker') /\ cal' = cal
    BY <1>1, <1>2, <1>3, <1>11 DEF CallOpen, CallClose
  <2> QED
    BY <2>1, SameDateKept
<1>12. ASSUME NEW d \in {NoDate} \cup Dates, TypeDate(d) PROVE DateInv'
  <2>1. picker' = [picker EXCEPT !.value = d] /\ cal' = cal /\ ~picker.started
    BY <1>12 DEF TypeDate
  <2>2. d \in Int
    BY DatesAreNumbers DEF NoDate
  <2>3. PICK q : q = picker'
    OBVIOUS
  <2>4. /\ DOMAIN q = PickerFields /\ q.value = d /\ q.started = picker.started
        /\ q.moved = picker.moved /\ q.kept = picker.kept /\ q.stray = picker.stray
        /\ q.bound = picker.bound /\ q.hasty = picker.hasty
    BY <1>1, <2>1, <2>3 DEF PickerFields
  <2>5. ChoiceTyped(q)
    BY <1>1, <2>2, <2>4 DEF ChoiceTyped
  <2>6. ChoiceOf(q, cal.select)
    BY <2>1, <2>4, <2>5 DEF ChoiceOf
  <2>7. HighlightInView(q, cal)
    BY <2>4 DEF DateInv, HighlightInView
  <2> QED
    BY <2>1, <2>3, <2>6, <2>7 DEF DateInv
<1> QED
  BY <1>5, <1>6, <1>7, <1>8, <1>9, <1>10, <1>11, <1>12

\* Selecting, clearing and viewing.
LEMMA SelectStepsKeepDate ==
  ASSUME DateInv
  PROVE  /\ \A d \in Dates : ClickDay(d) \/ CallSetSelect(d) => DateInv'
         /\ ClickToday => DateInv'
         /\ PressEnter => DateInv'
         /\ ClickClear \/ PressDelete \/ CallClear => DateInv'
<1>1. ChoiceTyped(picker) /\ cal.highlight \in Int /\ Today \in Int /\ NoDate \in Int
  BY CalendarAssumption DEF DateInv, ChoiceOf, CalendarTyped, NoDate
<1>2. /\ SameChoice(picker, FocusRoot(picker)) /\ ChoiceTyped(FocusRoot(picker))
      /\ FocusRoot(picker).stray = picker.stray
  BY <1>1, FocusKeepsChoice, SameChoiceKeeps DEF SameChoice
<1>3. \A p, g : ChoiceTyped(p) => /\ SameChoice(p, Closing(p, g)) /\ ChoiceTyped(Closing(p, g))
                                  /\ Closing(p, g).stray = p.stray
  <2> TAKE p, g
  <2> HAVE ChoiceTyped(p)
  <2>1. SameChoice(p, Closing(p, g))
    BY ClosingKeepsChoice
  <2> QED
    BY <2>1, SameChoiceKeeps DEF SameChoice
<1>4. ASSUME NEW d \in Dates, ClickDay(d) \/ CallSetSelect(d) PROVE DateInv'
  <2>1. SelectWith(FocusRoot(picker), d) \/ SelectWith(picker, d)
    BY <1>4 DEF ClickDay, CallSetSelect
  <2>2. d \in Int
    BY DatesAreNumbers
  <2> QED
    BY <1>1, <1>2, <2>1, <2>2, SelectWithKeeps
<1>5. ASSUME ClickToday PROVE DateInv'
  <2>1. SelectWith(FocusRoot(picker), Today)
    BY <1>5 DEF ClickToday
  <2> QED
    BY <1>1, <1>2, <2>1, SelectWithKeeps
<1>6. ASSUME PressEnter PROVE DateInv'
  <2>1. SelectWith(Closing(picker, FALSE), cal.highlight)
    BY <1>6 DEF PressEnter
  <2>2. PICK p : p = Closing(picker, FALSE)
    OBVIOUS
  <2>3. ChoiceTyped(p) /\ p.stray = picker.stray
    BY <1>1, <1>3, <2>2
  <2> QED
    BY <1>1, <2>1, <2>2, <2>3, SelectWithKeeps
<1>7. \A p, g : ChoiceTyped(p) => /\ ChoiceOf(Written(p, NoDate), NoDate)
                                  /\ Written(p, NoDate).stray = p.stray
                                  /\ ChoiceOf(Closing(Written(p, NoDate), g), NoDate)
                                  /\ Closing(Written(p, NoDate), g).stray = p.stray
  <2> TAKE p, g
  <2> HAVE ChoiceTyped(p)
  <2>1. PICK q : q = Written(p, NoDate)
    OBVIOUS
  <2>2. ChoiceOf(q, NoDate) /\ q.stray = p.stray /\ ChoiceTyped(q)
    BY <1>1, <2>1, WrittenChoice DEF ChoiceOf
  <2>3. SameChoice(q, Closing(q, g)) /\ Closing(q, g).stray = q.stray
    BY <1>3, <2>2
  <2>4. ChoiceOf(Closing(q, g), NoDate)
    BY <2>2, <2>3, SameChoiceKeeps
  <2> QED
    BY <2>1, <2>2, <2>3, <2>4
<1>8. ASSUME ClickClear \/ PressDelete \/ CallClear PROVE DateInv'
  <2>1. PICK p : ClearWith(p) /\ ChoiceOf(p, NoDate) /\ p.stray = picker.stray
    <3>1. CASE ClickClear
      <4>1. ClearWith(Closing(Written(FocusRoot(picker), NoDate), TRUE))
        BY <3>1 DEF ClickClear
      <4>2. PICK f : f = FocusRoot(picker)
        OBVIOUS
      <4>3. PICK p : p = Closing(Written(f, NoDate), TRUE)
        OBVIOUS
      <4>4. ChoiceOf(p, NoDate) /\ p.stray = f.stray
        BY <1>2, <1>7, <4>2, <4>3, Zenon
      <4>5. p.stray = picker.stray /\ ClearWith(p)
        BY <1>2, <4>1, <4>2, <4>3, <4>4
      <4> QED
        BY <4>4, <4>5
    <3>2. CASE PressDelete
      <4>1. ClearWith(Closing(Written(picker, NoDate), FALSE))
        BY <3>2 DEF PressDelete
      <4> QED
        BY <1>1, <1>7, <4>1
    <3>3. CASE CallClear
      <4>1. ClearWith(Written(picker, NoDate))
        BY <3>3 DEF CallClear
      <4> QED
        BY <1>1, <1>7, <4>1
    <3> QED
      BY <1>8, <3>1, <3>2, <3>3
  <2> QED
    BY <2>1, ClearWithKeeps
<1> QED
  BY <1>4, <1>5, <1>6, <1>8

\* Arrows, months, limits and disabled dates.
LEMMA ViewStepsKeepDate ==
  ASSUME DateInv
  PROVE  /\ \A i \in {-Week, -1, 1, Week} : PressArrow(i) => DateInv'
         /\ \A n \in {-1, 1} : ClickNav(n) => DateInv'
         /\ \A m \in DOMAIN Months : SelectMonth(m) => DateInv'
         /\ CallSetLimit => DateInv'
         /\ CallSetDisabled => DateInv'
<1>1. /\ ChoiceTyped(picker) /\ SameChoice(picker, picker) /\ CalendarTyped(cal)
      /\ cal.highlight \in Int
  BY DEF DateInv, ChoiceOf, CalendarTyped, SameChoice
<1>2. SameChoice(picker, FocusRoot(picker)) /\ SameChoice(picker, Opening(picker))
  BY <1>1, FocusKeepsChoice, OpeningsKeepChoice
<1>3. ASSUME NEW i \in {-Week, -1, 1, Week}, PressArrow(i) PROVE DateInv'
  <2>1. CASE picker' = Opening(picker) /\ cal' = cal
    BY <1>2, <2>1, SameDateKept
  <2>2. CASE /\ cal.highlight + i \in Dates
             /\ ViewWith(picker, SetHighlight(cal, cal.highlight + i, 0, i))
    <3>1. i \in Int \ {0} /\ cal.highlight + i \in Int
      BY <1>1, <2>2, CalendarAssumption, DatesAreNumbers
    <3>2. PICK c : c = SetHighlight(cal, cal.highlight + i, 0, i)
      OBVIOUS
    <3>3. /\ CalendarTyped(c) /\ SameDates(cal, c) /\ c.select = cal.select
          /\ CanSettle(c) => c.view = MonthOf(c.highlight)
      BY <1>1, <3>1, <3>2, HighlightSound DEF CanGo
    <3> QED
      BY <1>1, <2>2, <3>2, <3>3, ViewWithKeeps
  <2> QED
    BY <1>3, <2>1, <2>2 DEF PressArrow
<1>4. ASSUME NEW n \in {-1, 1}, ClickNav(n) PROVE DateInv'
  <2>1. /\ MonthOf(cal.highlight) \in DOMAIN Months
        /\ ViewWith(FocusRoot(picker), SetHighlight(cal, cal.highlight, n, 1))
    BY <1>4 DEF ClickNav
  <2>2. PICK c : c = SetHighlight(cal, cal.highlight, n, 1)
    OBVIOUS
  <2>3. n \in Int /\ 1 \in Int \ {0}
    OBVIOUS
  <2>4. /\ CalendarTyped(c) /\ SameDates(cal, c) /\ c.select = cal.select
        /\ CanSettle(c) => c.view = MonthOf(c.highlight)
    <3>1. PICK date \in Int : date = cal.highlight
      BY <1>1
    <3>4. PICK k \in Int \ {0} : k = 1
      BY <2>3
    <3>5. PICK v \in Int : v = n
      BY <2>3
    <3>2. MonthOf(date) \in DOMAIN Months /\ c = SetHighlight(cal, date, v, k)
      BY <2>1, <2>2, <3>1, <3>4, <3>5
    <3>3. /\ CalendarTyped(c) /\ SameDates(cal, c) /\ c.select = cal.select
          /\ (CanSettle(c) \/ v # 0 => c.view = MonthOf(c.highlight))
      <4>1. CanGo(date, v)
        BY <3>2 DEF CanGo
      <4> QED
        BY <1>1, <3>2, <4>1, HighlightSound
    <3> QED
      BY <3>3
  <2> QED
    BY <1>2, <2>1, <2>2, <2>4, ViewWithKeeps
<1>5. ASSUME NEW m \in DOMAIN Months, SelectMonth(m) PROVE DateInv'
  <2>1. MonthOf(cal.highlight) \in DOMAIN Months /\ ViewWith(picker, ChooseMonth(cal, m))
    BY <1>5 DEF SelectMonth
  <2>2. PICK c : c = ChooseMonth(cal, m)
    OBVIOUS
  <2>3. /\ CalendarTyped(c) /\ SameDates(cal, c) /\ c.select = cal.select
        /\ CanSettle(c) => c.view = MonthOf(c.highlight)
    BY <1>1, <2>1, <2>2, ChooseMonthSound
  <2> QED
    BY <1>1, <2>1, <2>2, <2>3, ViewWithKeeps
<1>6. \A x \in Int, u \in Unit, all \in BOOLEAN :
        \A c \in {SetMin(cal, x), SetMax(cal, x), Disable(cal, u), Enable(cal, u),
                  DisableAll(cal, all), Flip(cal)} : Change(c) => DateInv'
  <2> TAKE x \in Int, u \in Unit, all \in BOOLEAN
  <2> TAKE c \in {SetMin(cal, x), SetMax(cal, x), Disable(cal, u), Enable(cal, u),
                  DisableAll(cal, all), Flip(cal)}
  <2> HAVE Change(c)
  <2>1. /\ CalendarTyped(c)
        /\ CanSettle(c) => /\ c.select # NoDate => ~Disabled(c, c.select)
                           /\ \/ c.view = MonthOf(c.highlight)
                              \/ c.view = cal.view /\ c.highlight = cal.highlight
    BY <1>1, ChangesSound
  <2>2. EnabledSelected(c)
    BY <2>1 DEF EnabledSelected
  <2> QED
    BY <2>1, <2>2, ChangeKeepsDate
<1>7. \E x \in Int, u \in Unit, all \in BOOLEAN : TRUE
  <2>1. Weekdays(1) \in Unit
    <3>1. 1 \in 1..Week
      BY CalendarAssumption
    <3> QED
      BY <3>1 DEF Unit
  <2>2. 0 \in Int /\ TRUE \in BOOLEAN
    OBVIOUS
  <2> QED
    BY <2>1, <2>2, Zenon
<1>8. ASSUME CallSetLimit PROVE DateInv'
  <2>1. PICK x \in Int : Change(SetMin(cal, x)) \/ Change(SetMax(cal, x))
    <3>1. Mins \subseteq Int /\ Maxs \subseteq Int
      BY PickerAssumption, DatesAreNumbers
    <3> QED
      BY <1>8, <3>1 DEF CallSetLimit
  <2>2. PICK u \in Unit, all \in BOOLEAN : TRUE
    BY <1>7
  <2> QED
    BY <1>6, <2>1, <2>2, Zenon
<1>9. ASSUME CallSetDisabled PROVE DateInv'
  <2>1. PICK u \in Unit, all \in BOOLEAN :
          \/ Change(Disable(cal, u)) \/ Change(Enable(cal, u))
          \/ Change(DisableAll(cal, all)) \/ Change(Flip(cal))
    <3>1. Units \subseteq Unit
      BY PickerAssumption
    <3> QED
      BY <1>7, <1>9, <3>1 DEF CallSetDisabled
  <2>2. 0 \in Int
    OBVIOUS
  <2> QED
    BY <1>6, <2>1, <2>2, Zenon
<1> QED
  BY <1>3, <1>4, <1>5, <1>8, <1>9

\* Every step of the picker.
LEMMA PickerKeepsDate ==
  ASSUME DateInv, UNCHANGED <<picker, cal>> \/ PickerNext
  PROVE  DateInv'
<1>1. CASE UNCHANGED <<picker, cal>>
  BY <1>1 DEF DateInv
<1>2. CASE Timeout \/ StartPicker \/ StopPicker
  BY <1>2, TimeoutKeepsDate, StartKeepsDate, StopKeepsDate
<1>3. CASE ClickElement \/ LeavePicker \/ ClickHolder \/ ClickClose \/ EscapePicker
           \/ PressSpace \/ Resize
  BY <1>3, FocusStepsKeepDate
<1>4. CASE \/ \E focus \in BOOLEAN : CallOpen(focus) \/ CallClose(focus)
           \/ \E d \in {NoDate} \cup Dates : TypeDate(d)
  BY <1>4, FocusStepsKeepDate
<1>5. CASE \/ \E d \in Dates : ClickDay(d) \/ CallSetSelect(d)
           \/ ClickToday \/ PressEnter \/ ClickClear \/ PressDelete \/ CallClear
  BY <1>5, SelectStepsKeepDate
<1>6. CASE \/ \E i \in {-Week, -1, 1, Week} : PressArrow(i)
           \/ \E n \in {-1, 1} : ClickNav(n)
           \/ \E m \in DOMAIN Months : SelectMonth(m)
           \/ CallSetLimit \/ CallSetDisabled
  BY <1>6, ViewStepsKeepDate
<1> QED
  BY <1>1, <1>2, <1>3, <1>4, <1>5, <1>6 DEF PickerNext

\* The picker at the start.
LEMMA DateInitially == PickerInit => DateInv
<1> SUFFICES ASSUME PickerInit PROVE DateInv
  OBVIOUS
<1>1. PICK c : c = NewCalendar(Settings[1], Settings[2], NoDate)
  OBVIOUS
<1>2. NoDate \in Int
  BY DEF NoDate
<1>3. /\ CalendarTyped(c)
      /\ CanSettle(c) => /\ c.select # NoDate => ~Disabled(c, c.select)
                         /\ c.view = MonthOf(c.highlight)
      /\ c.select = NoDate
  BY <1>1, <1>2, NewCalendarSound, SettingsAreDates
<1>4. PICK p : p = [Stopped EXCEPT !.focus = "element"]
  OBVIOUS
<1>5. PICK q : q = Started(p, c)
  OBVIOUS
<1>6. PICK r : r = [Stopped EXCEPT !.stray = ~CanSettle(c)]
  OBVIOUS
<1>7. PICK s : s = [q EXCEPT !.timers = <<>>, !.opened = TRUE]
  OBVIOUS
<1>8. cal = c /\ picker = IF "calendar" \in page THEN s ELSE r
  BY <1>1, <1>4, <1>5, <1>6, <1>7 DEF PickerInit
<1>9. DOMAIN p = PickerFields /\ p.value = NoDate
  BY <1>4 DEF Stopped, PickerFields
<1>10. ChoiceOf(q, NoDate) /\ HighlightInView(q, c)
  BY <1>2, <1>3, <1>5, <1>9, StartedChoice
<1>11. DOMAIN q = PickerFields /\ ChoiceTyped(q)
  BY <1>10 DEF ChoiceOf, ChoiceTyped
<1>12. SameChoice(q, s)
  BY <1>7, <1>11 DEF SameChoice, PickerFields
<1>13. ChoiceOf(s, NoDate) /\ HighlightInView(s, c)
  BY <1>10, <1>11, <1>12, SameChoiceKeeps
<1>14. /\ DOMAIN r = PickerFields /\ r.started = FALSE /\ r.value = NoDate
       /\ r.moved = FALSE /\ r.kept = FALSE
       /\ r.stray = ~CanSettle(c) /\ r.bound = FALSE /\ r.hasty = FALSE
  BY <1>6 DEF Stopped, PickerFields
<1>15. ChoiceOf(r, NoDate) /\ HighlightInView(r, c)
  BY <1>2, <1>3, <1>14 DEF ChoiceOf, ChoiceTyped, HighlightInView
<1>16. EnabledSelected(c)
  BY <1>3 DEF EnabledSelected
<1> QED
  BY <1>3, <1>8, <1>13, <1>15, <1>16 DEF DateInv

\* What the picker shows and submits.
LEMMA DatesAgree == DateInv => DateSelectionAgrees
BY DEF DateInv, EnabledSelected, HighlightInView, ChoiceOf, DateSelectionAgrees

-----------------------------------------------------------------------------
(* What a select box of several options holds.                             *)

\* The script's list, the rows marked and the options selected that can be
\* chosen are one set.
OptionsAgree(r) ==
  r.multiple /\ r.shift = 0 =>
    /\ r.chosen \subseteq Option /\ r.values \in Seq(Int)
    /\ r.ready => /\ ToSet(r.values) = r.chosen \ r.disabled
                  /\ r.marked = r.chosen \ r.disabled

\* Box r has the options and the choice of box s.
SameOptions(r, s) ==
  /\ r.multiple = s.multiple /\ r.shift = s.shift /\ r.ready = s.ready
  /\ r.values = s.values /\ r.chosen = s.chosen /\ r.marked = s.marked
  /\ r.disabled = s.disabled

\* In every box.
OptionsInv == \A b \in Boxes : OptionsAgree(select[b])

\* The agreement is about the options and the choice alone.
LEMMA SameOptionsAgree ==
  ASSUME NEW r, NEW s, OptionsAgree(s), SameOptions(r, s)
  PROVE  OptionsAgree(r)
BY DEF OptionsAgree, SameOptions

\* A list that opens, closes or loses the focus keeps its choice.
LEMMA ListsKeepOptions ==
  ASSUME NEW r, BoxTyped(r)
  PROVE  /\ SameOptions(CloseList(r), r) /\ SameOptions(Blur(r), r)
         /\ \A byFocus \in BOOLEAN : SameOptions(OpenList(r, byFocus), r)
<1>1. SameOptions(CloseList(r), r) /\ DOMAIN CloseList(r) = DOMAIN r
  BY DEF CloseList, SameOptions, BoxTyped
<1>2. SameOptions(Blur(r), r)
  <2>1. PICK q : q = IF r.multiple THEN r ELSE CloseList(r)
    OBVIOUS
  <2>2. SameOptions(q, r) /\ DOMAIN q = DOMAIN r
    BY <1>1, <2>1 DEF SameOptions
  <2>3. Blur(r) = IF ~r.focus THEN r ELSE [q EXCEPT !.focus = FALSE, !.cursor = 0]
    BY <2>1 DEF Blur
  <2> QED
    BY <2>2, <2>3 DEF SameOptions, BoxTyped
<1>3. \A byFocus \in BOOLEAN : SameOptions(OpenList(r, byFocus), r)
  BY DEF OpenList, SameOptions, BoxTyped
<1> QED
  BY <1>1, <1>2, <1>3

\* So does every box when one takes the focus.
LEMMA FocusedKeepsOptions ==
  ASSUME NEW f, DOMAIN f = Boxes, \A c \in Boxes : BoxTyped(f[c]), NEW b \in Boxes
  PROVE  \A c \in Boxes : SameOptions(Focused(f, b)[c], f[c])
<1> DEFINE blurred == [c \in Boxes |-> Blur(f[c])]
           closed == IF \E c \in Boxes \ {b} : blurred[c].visible
                     THEN [c \in Boxes |-> CloseList(blurred[c])] ELSE blurred
           g == Focused(f, b)
<1>1. DOMAIN blurred = Boxes /\ \A c \in Boxes : BoxTyped(blurred[c])
                                                /\ SameOptions(blurred[c], f[c])
  BY BlurLess, ListsKeepOptions DEF NoMore
<1> HIDE DEF blurred
<1>2. DOMAIN closed = Boxes /\ \A c \in Boxes : BoxTyped(closed[c])
                                               /\ SameOptions(closed[c], f[c])
  <2>1. \A c \in Boxes : BoxTyped(CloseList(blurred[c]))
    BY <1>1, CloseListLess DEF NoMore
  <2>2. \A c \in Boxes : SameOptions(CloseList(blurred[c]), f[c])
    BY <1>1, ListsKeepOptions DEF SameOptions
  <2> QED
    BY <1>1, <2>1, <2>2
<1>3. g = [closed EXCEPT ![b] =
             [(IF @.visible THEN @ ELSE OpenList(@, TRUE)) EXCEPT !.focus = TRUE]]
  BY DEF Focused, blurred
<1> HIDE DEF closed, g
<1>4. PICK q : q = IF closed[b].visible THEN closed[b] ELSE OpenList(closed[b], TRUE)
  OBVIOUS
<1>5. BoxTyped(q) /\ SameOptions(q, f[b])
  <2>1. BoxTyped(closed[b]) /\ SameOptions(closed[b], f[b])
    BY <1>2
  <2>2. BoxTyped(OpenList(closed[b], TRUE)) /\ SameOptions(OpenList(closed[b], TRUE), closed[b])
    BY <2>1, OpenListMore, ListsKeepOptions
  <2> QED
    BY <1>4, <2>1, <2>2 DEF SameOptions
<1>6. g = [closed EXCEPT ![b] = [q EXCEPT !.focus = TRUE]]
  BY <1>3, <1>4
<1>7. SameOptions([q EXCEPT !.focus = TRUE], f[b])
  BY <1>5 DEF SameOptions, BoxTyped
<1>8. ASSUME NEW c \in Boxes PROVE SameOptions(g[c], f[c])
  BY <1>2, <1>6, <1>7
<1> QED
  BY <1>8 DEF g

\* The list of values without one of them, and with another.
LEMMA ListWithout ==
  ASSUME NEW s \in Seq(Int), NEW e \in Int
  PROVE  LET P == {i \in DOMAIN s : s[i] # e} IN
         /\ ElementsAt(s, P) \in Seq(Int) /\ ToSet(ElementsAt(s, P)) = ToSet(s) \ {e}
         /\ Append(s, e) \in Seq(Int) /\ ToSet(Append(s, e)) = ToSet(s) \cup {e}
<1> DEFINE P == {i \in DOMAIN s : s[i] # e}
           t == ElementsAt(s, P)
<1>1. /\ t \in Seq(Int)
      /\ \A j \in DOMAIN t : \E i \in P : t[j] = s[i]
      /\ \A i \in P : \E j \in DOMAIN t : t[j] = s[i]
  <2>1. P \in SUBSET DOMAIN s
    OBVIOUS
  <2> QED
    BY <2>1, ElementsAtSeq
<1> HIDE DEF t
<1>2. ToSet(t) = ToSet(s) \ {e}
  BY <1>1 DEF ToSet
<1>3. /\ Append(s, e) \in Seq(Int) /\ DOMAIN Append(s, e) = DOMAIN s \cup {Len(s) + 1}
      /\ Append(s, e)[Len(s) + 1] = e /\ \A i \in DOMAIN s : Append(s, e)[i] = s[i]
  OBVIOUS
<1>4. ToSet(Append(s, e)) = ToSet(s) \cup {e}
  BY <1>3 DEF ToSet
<1> QED
  BY <1>1, <1>2, <1>3, <1>4 DEF t

\* The choice of an option that can be chosen keeps the agreement.
LEMMA ChosenAgrees ==
  ASSUME NEW r, BoxTyped(r), OptionsAgree(r), NEW i \in Option \ r.disabled
  PROVE  OptionsAgree(Chosen(r, i))
<1>1. CASE ~r.multiple
  <2>1. PICK e : e = i + r.shift
    OBVIOUS
  <2>2. Chosen(r, i) = [r EXCEPT !.chosen = {i}, !.marked = {e}, !.cursor = e]
    BY <1>1, <2>1 DEF Chosen
  <2> QED
    BY <1>1, <2>2 DEF OptionsAgree, BoxTyped
<1>2. CASE r.multiple
  <2>1. PICK e, P, t, u : /\ e = i + r.shift /\ P = {k \in DOMAIN r.values : r.values[k] # e}
                          /\ t = ElementsAt(r.values, P) /\ u = Append(r.values, e)
    OBVIOUS
  <2>2. PICK many : many = ToggleEntry(r, e)
    OBVIOUS
  <2>3. many = IF e \in ToSet(r.values)
               THEN [r EXCEPT !.values = t, !.chosen = r.chosen \ {e},
                              !.marked = r.marked \ {e}]
               ELSE [r EXCEPT !.values = u, !.marked = r.marked \cup {e},
                              !.chosen = r.chosen \cup ({e} \cap Option)]
    BY <2>1, <2>2 DEF ToggleEntry
  <2>4. /\ DOMAIN many = DOMAIN r /\ many.multiple = r.multiple /\ many.shift = r.shift
        /\ many.ready = r.ready /\ many.disabled = r.disabled
        /\ many.values = IF e \in ToSet(r.values) THEN t ELSE u
        /\ many.chosen = IF e \in ToSet(r.values) THEN r.chosen \ {e}
                         ELSE r.chosen \cup ({e} \cap Option)
        /\ many.marked = IF e \in ToSet(r.values) THEN r.marked \ {e}
                         ELSE r.marked \cup {e}
    BY <2>3 DEF BoxTyped
  <2>5. PICK S : S = IF e \in ToSet(many.values) THEN many.chosen \cup {i}
                     ELSE many.chosen \ {i}
    OBVIOUS
  <2>6. Chosen(r, i) = [many EXCEPT !.cursor = e, !.chosen = S]
    BY <1>2, <2>1, <2>2, <2>5 DEF Chosen
  <2>7. PICK q : q = Chosen(r, i)
    OBVIOUS
  <2>8. /\ q.multiple = r.multiple /\ q.shift = r.shift /\ q.ready = r.ready
        /\ q.values = many.values /\ q.chosen = S /\ q.marked = many.marked
        /\ q.disabled = r.disabled
    BY <2>4, <2>6, <2>7 DEF BoxTyped
  <2>9. SUFFICES ASSUME r.shift = 0
                 PROVE  /\ S \subseteq Option /\ many.values \in Seq(Int)
                        /\ r.ready => /\ ToSet(many.values) = S \ r.disabled
                                      /\ many.marked = S \ r.disabled
    BY <2>7, <2>8 DEF OptionsAgree
  <2>10. e = i /\ e \in Option /\ e \in Int /\ e \notin r.disabled
    BY <2>1, <2>9, MenuAssumption DEF Option
  <2>11. /\ r.chosen \subseteq Option /\ r.values \in Seq(Int)
         /\ r.ready => /\ ToSet(r.values) = r.chosen \ r.disabled
                       /\ r.marked = r.chosen \ r.disabled
    BY <1>2, <2>9 DEF OptionsAgree
  <2>12. /\ t \in Seq(Int) /\ ToSet(t) = ToSet(r.values) \ {e}
         /\ u \in Seq(Int) /\ ToSet(u) = ToSet(r.values) \cup {e}
    BY <2>1, <2>10, <2>11, ListWithout
  <2>13. CASE e \in ToSet(r.values)
    <3>1. many.values = t /\ S = r.chosen \ {e} /\ many.marked = r.marked \ {e}
      BY <2>4, <2>5, <2>10, <2>12, <2>13
    <3> QED
      BY <2>11, <2>12, <3>1
  <2>14. CASE e \notin ToSet(r.values)
    <3>1. many.values = u /\ S = r.chosen \cup {e} /\ many.marked = r.marked \cup {e}
      BY <2>4, <2>5, <2>10, <2>12, <2>14
    <3> QED
      BY <2>10, <2>11, <2>12, <3>1
  <2> QED
    BY <2>13, <2>14
<1> QED
  BY <1>1, <1>2

\* The values read anew are the options that are selected and can be chosen.
LEMMA RebuiltAgrees ==
  ASSUME NEW r, BoxTyped(r), r.multiple /\ r.shift = 0 => r.chosen \subseteq Option
  PROVE  OptionsAgree(TornDown(r)) /\ OptionsAgree(Built(r))
<1>1. PICK torn, q : torn = TornDown(r) /\ q = Built(r)
  OBVIOUS
<1>2. /\ DOMAIN torn = DOMAIN r /\ torn.multiple = r.multiple /\ torn.shift = r.shift
      /\ torn.chosen = r.chosen /\ torn.disabled = r.disabled
      /\ torn.values = <<>> /\ torn.ready = FALSE
  BY <1>1, Zenon DEF TornDown, BoxTyped
<1>3. OptionsAgree(torn)
  <2>1. <<>> \in Seq(Int)
    OBVIOUS
  <2> QED
    BY <1>2, <2>1 DEF OptionsAgree
<1>4. PICK T, a : T = (IF r.multiple THEN r.chosen \ r.disabled ELSE {}) /\ a = Ascending(T)
  OBVIOUS
<1>5. q = [torn EXCEPT !.ready = TRUE, !.marked = T, !.values = a]
  BY <1>1, <1>4, Zenon DEF Built
<1>6. /\ q.multiple = r.multiple /\ q.shift = r.shift /\ q.chosen = r.chosen
      /\ q.disabled = r.disabled /\ q.values = a /\ q.marked = T
  BY <1>2, <1>5 DEF BoxTyped
<1>7. OptionsAgree(q)
  <2>1. SUFFICES ASSUME r.multiple, r.shift = 0
                 PROVE  /\ r.chosen \subseteq Option /\ a \in Seq(Int)
                        /\ ToSet(a) = r.chosen \ r.disabled
                        /\ T = r.chosen \ r.disabled
    BY <1>6 DEF OptionsAgree
  <2>2. r.chosen \subseteq Option /\ T = r.chosen \ r.disabled
    BY <1>4, <2>1
  <2>3. T \in SUBSET Int /\ IsFiniteSet(T)
    <3>1. Option \in SUBSET Int /\ IsFiniteSet(Option)
      BY MenuAssumption, FS_Interval DEF Option
    <3> QED
      BY <2>2, <3>1, FS_Subset
  <2>4. PICK n : n = Cardinality(T)
    OBVIOUS
  <2>5. n \in Nat /\ a \in [1..n -> T] /\ \A x \in T : \E k \in 1..n : a[k] = x
    BY <1>4, <2>3, <2>4, AscendingTheorem
  <2>6. a \in Seq(Int)
    <3>1. a \in [1..n -> Int]
      BY <2>3, <2>5
    <3> QED
      BY <2>5, <3>1
  <2>7. ToSet(a) = T
    BY <2>5 DEF ToSet
  <2> QED
    BY <2>2, <2>6, <2>7
<1> QED
  BY <1>1, <1>3, <1>7

\* A step that leaves every box its options and its choice,
LEMMA SameOptionsKeep ==
  ASSUME OptionsInv, \A c \in Boxes : SameOptions(select'[c], select[c])
  PROVE  OptionsInv'
BY SameOptionsAgree DEF OptionsInv

\* and one that gives one box another.
LEMMA OneChoiceKeeps ==
  ASSUME OptionsInv, NEW b \in Boxes, OptionsAgree(select'[b]),
         \A c \in Boxes \ {b} : SameOptions(select'[c], select[c])
  PROVE  OptionsInv'
BY SameOptionsAgree DEF OptionsInv

\* The mouse pressed on a row,
LEMMA PressedKeepsOptions ==
  ASSUME SelectInv, NEW b \in Boxes
  PROVE  /\ DOMAIN Pressed(b) = Boxes
         /\ \A c \in Boxes : BoxTyped(Pressed(b)[c]) /\ SameOptions(Pressed(b)[c], select[c])
<1>1. DOMAIN select = Boxes /\ \A c \in Boxes : BoxTyped(select[c])
  BY DEF SelectInv, BoxesAside
<1>2. PICK blur : blur = [c \in Boxes |-> Blur(select[c])]
  OBVIOUS
<1>3. DOMAIN blur = Boxes /\ \A c \in Boxes : BoxTyped(blur[c])
                                             /\ SameOptions(blur[c], select[c])
  BY <1>1, <1>2, BlurLess, ListsKeepOptions DEF NoMore
<1>4. PICK r : r = [blur[b] EXCEPT !.over = TRUE]
  OBVIOUS
<1>5. BoxTyped(r) /\ SameOptions(r, select[b])
  BY <1>3, <1>4 DEF BoxTyped, SameOptions
<1>6. Pressed(b) = [blur EXCEPT ![b] = r]
  BY <1>2, <1>4 DEF Pressed
<1> QED
  BY <1>3, <1>5, <1>6

\* and the click at the window.
LEMMA WindowKeepsOptions ==
  ASSUME NEW f, \A c \in Boxes : BoxTyped(f[c]) /\ SameOptions(f[c], select[c])
  PROVE  /\ DOMAIN WindowClick(f) = Boxes
         /\ \A c \in Boxes : /\ BoxTyped(WindowClick(f)[c])
                             /\ SameOptions(WindowClick(f)[c], select[c])
<1>1. PICK g : g = WindowClick(f)
  OBVIOUS
<1>2. DOMAIN g = Boxes /\ \A c \in Boxes : g[c] = f[c] \/ g[c] = CloseList(f[c])
  BY <1>1 DEF WindowClick
<1>3. \A c \in Boxes : BoxTyped(CloseList(f[c])) /\ SameOptions(CloseList(f[c]), f[c])
  BY CloseListLess, ListsKeepOptions DEF NoMore
<1>4. \A c \in Boxes : SameOptions(CloseList(f[c]), select[c])
  BY <1>3 DEF SameOptions
<1> QED
  BY <1>1, <1>2, <1>3, <1>4

\* Opening, closing and leaving the lists.
LEMMA ListStepsKeepOptions ==
  ASSUME SelectInv, OptionsInv, NEW b \in Boxes, NEW row,
         FocusSelect(b, row) \/ LetterKey(b, row) \/ ClickSelect(b) \/ SelectFaded(b) \/ LeaveSelects
         \/ \E inside \in BOOLEAN : HoverOptions(b, inside)
  PROVE  OptionsInv'
<1>1. DOMAIN select = Boxes /\ \A c \in Boxes : BoxTyped(select[c])
  BY DEF SelectInv, BoxesAside
<1>2. \A c \in Boxes : SameOptions(select[c], select[c])
  BY DEF SameOptions
<1>3. CASE FocusSelect(b, row)
  <2>1. PICK g : g = Focused(select, b)
    OBVIOUS
  <2>2. /\ DOMAIN g = Boxes /\ BoxTyped(g[b])
        /\ \A c \in Boxes : SameOptions(g[c], select[c])
    BY <1>1, <2>1, FocusedLeaves, FocusedKeepsOptions
  <2>3. PICK n : select' = [g EXCEPT ![b].cursor = n]
    BY <1>3, <2>1 DEF FocusSelect
  <2>4. PICK r : r = [g[b] EXCEPT !.cursor = n]
    OBVIOUS
  <2>5. SameOptions(r, select[b]) /\ select' = [g EXCEPT ![b] = r]
    BY <2>2, <2>3, <2>4 DEF SameOptions, BoxTyped
  <2> QED
    BY <2>2, <2>5, SameOptionsKeep
<1>8. CASE LetterKey(b, row)
  <2>1. PICK r : r = [select[b] EXCEPT !.cursor = row]
    OBVIOUS
  <2>2. select' = [select EXCEPT ![b] = r]
    BY <1>8, <2>1 DEF LetterKey
  <2>3. SameOptions(r, select[b])
    BY <1>1, <2>1 DEF SameOptions, BoxTyped
  <2> QED
    BY <1>1, <1>2, <2>2, <2>3, SameOptionsKeep
<1>4. CASE ClickSelect(b)
  <2>1. PICK r : r = IF select[b].active THEN CloseList(select[b])
                     ELSE OpenList(select[b], FALSE)
    OBVIOUS
  <2>2. select' = [select EXCEPT ![b] = r]
    BY <1>4, <2>1 DEF ClickSelect
  <2>3. SameOptions(r, select[b])
    BY <1>1, <2>1, ListsKeepOptions
  <2> QED
    BY <1>1, <1>2, <2>2, <2>3, SameOptionsKeep
<1>5. CASE SelectFaded(b)
  <2>1. select' = [select EXCEPT ![b].visible = FALSE, ![b].over = FALSE]
    BY <1>5 DEF SelectFaded
  <2>2. \A c \in Boxes : SameOptions(select'[c], select[c])
    BY <1>1, <2>1 DEF SameOptions, BoxTyped
  <2> QED
    BY <2>2, SameOptionsKeep
<1>6. CASE LeaveSelects
  <2>1. PICK f : f = [c \in Boxes |-> Blur(select[c])]
    OBVIOUS
  <2>2. \A c \in Boxes : BoxTyped(f[c]) /\ SameOptions(f[c], select[c])
    BY <1>1, <2>1, BlurLess, ListsKeepOptions DEF NoMore
  <2>3. select' = WindowClick(f)
    BY <1>6, <2>1 DEF LeaveSelects
  <2> QED
    BY <2>2, <2>3, WindowKeepsOptions, SameOptionsKeep
<1>7. ASSUME NEW inside \in BOOLEAN, HoverOptions(b, inside) PROVE OptionsInv'
  <2>1. select' = [select EXCEPT ![b].over = inside]
    BY <1>7 DEF HoverOptions
  <2>2. \A c \in Boxes : SameOptions(select'[c], select[c])
    BY <1>1, <2>1 DEF SameOptions, BoxTyped
  <2> QED
    BY <2>2, SameOptionsKeep
<1> QED
  BY <1>3, <1>4, <1>5, <1>6, <1>7, <1>8

\* A click on the heading.
LEMMA ClickHeadingKeepsOptions ==
  ASSUME SelectInv, OptionsInv, NEW b \in Boxes, NEW byKey \in BOOLEAN,
         ClickHeading(b, byKey)
  PROVE  OptionsInv'
<1>1. DOMAIN select = Boxes /\ \A c \in Boxes : BoxTyped(select[c])
  BY DEF SelectInv, BoxesAside
<1>2. PICK f : f = IF byKey THEN select ELSE Pressed(b)
  OBVIOUS
<1>3. \A c \in Boxes : BoxTyped(f[c]) /\ SameOptions(f[c], select[c])
  <2>1. \A c \in Boxes : SameOptions(select[c], select[c])
    BY DEF SameOptions
  <2> QED
    BY <1>1, <1>2, <2>1, PressedKeepsOptions
<1>4. PICK W : W = WindowClick(f)
  OBVIOUS
<1>5. DOMAIN W = Boxes /\ \A c \in Boxes : BoxTyped(W[c]) /\ SameOptions(W[c], select[c])
  BY <1>3, <1>4, WindowKeepsOptions
<1>6. PICK r : select' = [W EXCEPT ![b] = r] /\ (r = W[b] \/ r = CloseList(W[b]))
  BY <1>2, <1>4 DEF ClickHeading
<1>7. SameOptions(r, select[b])
  BY <1>5, <1>6, ListsKeepOptions DEF SameOptions
<1>8. \A c \in Boxes : SameOptions(select'[c], select[c])
  BY <1>5, <1>6, <1>7
<1> QED
  BY <1>8, SameOptionsKeep

\* A key moves the cursor or the list.
LEMMA SelectKeyKeepsOptions ==
  ASSUME SelectInv, OptionsInv, NEW b \in Boxes,
         NEW key \in {"tab", "esc", "down", "up"}, SelectKey(b, key)
  PROVE  OptionsInv'
<1>1. DOMAIN select = Boxes /\ \A c \in Boxes : BoxTyped(select[c])
  BY DEF SelectInv, BoxesAside
<1>2. PICK s : s = select[b]
  OBVIOUS
<1>4. PICK r : /\ select' = [select EXCEPT ![b] = r]
               /\ \/ r = CloseList(s) \/ r = OpenList(s, FALSE) \/ r = s
                  \/ \E n : r = [s EXCEPT !.cursor = n]
  BY <1>2, KeyMovesOrCloses
<1>6. SameOptions(r, s)
  <2>1. SameOptions(CloseList(s), s) /\ SameOptions(OpenList(s, FALSE), s)
        /\ SameOptions(s, s)
    BY <1>1, <1>2, ListsKeepOptions DEF SameOptions
  <2>2. \A n : SameOptions([s EXCEPT !.cursor = n], s)
    BY <1>1, <1>2 DEF SameOptions, BoxTyped
  <2> QED
    BY <1>4, <2>1, <2>2, Zenon
<1>7. \A c \in Boxes : SameOptions(select'[c], select[c])
  BY <1>1, <1>2, <1>4, <1>6 DEF SameOptions
<1> QED
  BY <1>7, SameOptionsKeep

\* A click on an option,
LEMMA ChooseOptionAgrees ==
  ASSUME SelectInv, OptionsInv, NEW b \in Boxes, NEW i \in Option, ChooseOption(b, i)
  PROVE  OptionsInv'
<1>1. DOMAIN select = Boxes /\ \A c \in Boxes : BoxTyped(select[c])
  BY DEF SelectInv, BoxesAside
<1>2. PICK blurred : blurred = Pressed(b)
  OBVIOUS
<1>5. DOMAIN blurred = Boxes /\ \A c \in Boxes : BoxTyped(blurred[c])
                                                /\ SameOptions(blurred[c], select[c])
  BY <1>2, PressedKeepsOptions
<1>4. CASE i \in select[b].disabled
  <2>1. select' = blurred
    BY <1>2, <1>4 DEF ChooseOption
  <2> QED
    BY <1>5, <2>1, SameOptionsKeep
<1>3. SUFFICES ASSUME i \notin select[b].disabled PROVE OptionsInv'
  BY <1>4
<1>6. PICK g : g = IF select[b].multiple THEN Focused(blurred, b) ELSE blurred
  OBVIOUS
<1>7. BoxTyped(g[b]) /\ DOMAIN g = Boxes /\ \A c \in Boxes : SameOptions(g[c], select[c])
  <2>1. /\ DOMAIN Focused(blurred, b) = Boxes /\ BoxTyped(Focused(blurred, b)[b])
        /\ \A c \in Boxes : SameOptions(Focused(blurred, b)[c], blurred[c])
    BY <1>5, FocusedLeaves, FocusedKeepsOptions
  <2>2. \A c \in Boxes : SameOptions(Focused(blurred, b)[c], select[c])
    BY <1>5, <2>1 DEF SameOptions
  <2> QED
    BY <1>5, <1>6, <2>1, <2>2
<1>8. select' = [g EXCEPT ![b] = Chosen(g[b], i)]
  BY <1>2, <1>3, <1>6, Zenon DEF ChooseOption
<1>9. OptionsAgree(g[b])
  BY <1>7, SameOptionsAgree DEF OptionsInv
<1>10. OptionsAgree(Chosen(g[b], i))
  <2>1. i \in Option \ g[b].disabled
    BY <1>3, <1>7 DEF SameOptions
  <2> QED
    BY <1>7, <1>9, <2>1, ChosenAgrees
<1> QED
  BY <1>7, <1>8, <1>10, OneChoiceKeeps

\* and the Enter key.
LEMMA EnterKeyAgrees ==
  ASSUME SelectInv, OptionsInv, NEW b \in Boxes, EnterKey(b)
  PROVE  OptionsInv'
<1>1. DOMAIN select = Boxes /\ \A c \in Boxes : BoxTyped(select[c])
  BY DEF SelectInv, BoxesAside
<1>2. PICK row, g : row = select[b].cursor - select[b].shift /\ g = Focused(select, b)
  OBVIOUS
<1>3. /\ DOMAIN g = Boxes /\ BoxTyped(g[b]) /\ \A c \in Boxes : SameOptions(g[c], select[c])
  BY <1>1, <1>2, FocusedLeaves, FocusedKeepsOptions
<1>4. /\ row \in Option \ select[b].disabled
      /\ select' = IF select[b].multiple THEN [g EXCEPT ![b] = Chosen(g[b], row)]
                   ELSE [select EXCEPT ![b] = CloseList(Chosen(select[b], row))]
  BY <1>2 DEF EnterKey
<1>5. CASE select[b].multiple
  <2>1. OptionsAgree(g[b]) /\ row \in Option \ g[b].disabled
    BY <1>3, <1>4, SameOptionsAgree DEF OptionsInv, SameOptions
  <2>2. OptionsAgree(Chosen(g[b], row))
    BY <1>3, <2>1, ChosenAgrees
  <2> QED
    BY <1>3, <1>4, <1>5, <2>2, OneChoiceKeeps
<1>6. CASE ~select[b].multiple
  <2>1. PICK r, q : r = Chosen(select[b], row) /\ q = CloseList(r)
    OBVIOUS
  <2>2. OptionsAgree(r) /\ BoxTyped(r)
    BY <1>1, <1>4, <2>1, ChosenAgrees, ChosenSame DEF OptionsInv
  <2>3. OptionsAgree(q)
    BY <2>1, <2>2, ListsKeepOptions, SameOptionsAgree
  <2>4. select' = [select EXCEPT ![b] = q]
    BY <1>4, <1>6, <2>1
  <2>5. \A c \in Boxes \ {b} : SameOptions(select'[c], select[c])
    BY <1>1, <2>4 DEF SameOptions
  <2> QED
    BY <1>1, <2>3, <2>4, <2>5, OneChoiceKeeps
<1> QED
  BY <1>5, <1>6

\* The structure rebuilt or torn down.
LEMMA RebuildAgrees ==
  ASSUME SelectInv, OptionsInv, NEW b \in Boxes, NEW destroy \in BOOLEAN,
         RebuildSelect(b, destroy)
  PROVE  OptionsInv'
<1>1. DOMAIN select = Boxes /\ \A c \in Boxes : BoxTyped(select[c])
  BY DEF SelectInv, BoxesAside
<1>2. PICK r : r = select[b]
  OBVIOUS
<1>3. PICK q : q = IF destroy THEN TornDown(r) ELSE Built(r)
  OBVIOUS
<1>5. select' = [select EXCEPT ![b] = q]
  BY <1>2, <1>3 DEF RebuildSelect
<1>6. OptionsAgree(q)
  BY <1>1, <1>2, <1>3, RebuiltAgrees DEF OptionsInv, OptionsAgree
<1>7. \A c \in Boxes \ {b} : SameOptions(select'[c], select[c])
  BY <1>1, <1>5 DEF SameOptions
<1> QED
  BY <1>1, <1>5, <1>6, <1>7, OneChoiceKeeps

\* Every step of the two boxes.
LEMMA OptionsStep ==
  ASSUME SelectInv, OptionsInv, UNCHANGED select \/ SelectNext
  PROVE  OptionsInv'
<1>1. CASE UNCHANGED select
  BY <1>1 DEF OptionsInv, OptionsAgree
<1>2. CASE SelectNext
  <2>1. 1 \in Boxes
    BY DEF Boxes
  <2> QED
    BY <1>2, <2>1, ListStepsKeepOptions, ClickHeadingKeepsOptions,
       SelectKeyKeepsOptions, ChooseOptionAgrees, EnterKeyAgrees, RebuildAgrees
    DEF SelectNext
<1> QED
  BY <1>1, <1>2

\* The structure is built at the start, and the invariant says what the run
\* checks.
LEMMA OptionsInitially ==
  /\ SelectInit => OptionsInv
  /\ OptionsInv => SelectBoxAgrees
<1>1. ASSUME SelectInit PROVE OptionsInv
  <2>1. PICK many, shift, chosen, disabled :
          /\ \A b \in Boxes : chosen[b] \subseteq Option
          /\ select = [b \in Boxes |-> Built(Unbuilt(many[b], shift, chosen[b], disabled))]
    BY <1>1, SelectBuilt, Zenon
  <2>2. ASSUME NEW b \in Boxes PROVE OptionsAgree(select[b])
    <3>1. PICK r : r = Unbuilt(many[b], shift, chosen[b], disabled)
      OBVIOUS
    <3>2. select[b] = Built(r)
      BY <2>1, <3>1
    <3>4. BoxTyped(r) /\ r.chosen \subseteq Option
      BY <2>1, <3>1 DEF Unbuilt, BoxTyped
    <3> QED
      BY <3>2, <3>4, RebuiltAgrees
  <2> QED
    BY <2>2 DEF OptionsInv
<1>2. OptionsInv => SelectBoxAgrees
  BY DEF OptionsInv, OptionsAgree, SelectBoxAgrees
<1> QED
  BY <1>1, <1>2

\* The script's list of a select box of several options without headings, the
\* selected options that are not disabled and the marked rows agree; no disabled date is selected while one
\* is free; and a date picker submits the date selected unless limits or disabled
\* dates set later moved it or an earlier picker's handlers were taken, and shows it
\* unless those moved it or it started on a date that the limits exclude
\* (material_select, pickadate).
THEOREM SelectionsAgree == Spec => []SelectionAgrees
<1> DEFINE Inv == SelectInv /\ OptionsInv /\ DateInv
<1>1. Init => Inv
  BY SelectInitially, OptionsInitially, DateInitially DEF Init, MenusInit
<1>2. Inv /\ [Next]_vars => Inv'
  BY PageSteps, SelectStep, OptionsStep, PickerKeepsDate
<1>3. Inv => SelectionAgrees
  BY OptionsInitially, DatesAgree DEF SelectionAgrees
<1> QED
  BY <1>1, <1>2, <1>3, PTL DEF Spec
=============================================================================
