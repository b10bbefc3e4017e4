------------------------------ MODULE WebPage ------------------------------
(***************************************************************************)
(* A page of the web application with the widgets of materialize.js on it: *)
(* the browser runs one handler, timer or completion at a time.            *)
(***************************************************************************)
EXTENDS Overlays, Menus, Feedback, Scrolling, Picker, Carousel

vars == <<pageVars, overlayVars, menuVars, feedbackVars, scrollVars, pickerVars,
          carousel>>

Init == /\ PageInit
        /\ OverlaysInit /\ MenusInit /\ FeedbackInit /\ ScrollingInit
        /\ PickerInit /\ CarouselInit

Next ==
  \/ /\ OverlaysNext
     /\ UNCHANGED <<menuVars, feedbackVars, scrollVars, pickerVars, carousel>>
  \/ /\ MenusNext
     /\ UNCHANGED <<overlayVars, feedbackVars, scrollVars, pickerVars, carousel>>
  \/ /\ FeedbackNext
     /\ UNCHANGED <<overlayVars, menuVars, scrollVars, pickerVars, carousel>>
  \/ /\ ScrollingNext
     /\ UNCHANGED <<overlayVars, menuVars, feedbackVars, pickerVars, carousel>>
  \/ /\ PickerNext
     /\ UNCHANGED <<overlayVars, menuVars, feedbackVars, scrollVars, carousel>>
  \/ /\ CarouselNext
     /\ UNCHANGED <<overlayVars, menuVars, feedbackVars, scrollVars, pickerVars>>

Spec == /\ Init /\ [][Next]_vars
        /\ OverlaysFairness /\ FeedbackFairness /\ ScrollingFairness

-----------------------------------------------------------------------------
(* Properties: what the widgets promise, by the kind of promise.           *)

\* A modal window or an image box that is closed leaves neither an overlay nor
\* a handler of the Escape key behind, however openings and closings overlap
\* (openModal, closeModal, returnToOriginal).
OverlaysLeaveNothing ==
  NoOrphanModalOverlay /\ EscapeIsOfOpenModals /\ BoxKnowsItsOverlay

\* The page is locked for scrolling only under an open window, menu or date
\* picker that owns the lock, whoever locked and unlocked it before.
ScrollLockHasOwner == BodyLockHasOwner /\ PickerLockHasOwner

\* What a widget says is selected, what it shows and what the form submits agree,
\* for the select boxes and the date picker.
SelectionAgrees == SelectBoxAgrees /\ DateSelectionAgrees

\* Of the menus opened by a click and of the lists of select boxes one is open
\* at most: opening the next closes the last, whichever event opened it.
OneMenuOpen == ClickedMenuCloses /\ OneListOpen

\* Panels, tabs, slides, the images of the carousel, the date picker, the floating
\* menu and the back of a card show what was asked for last, and no completion of an earlier animation hides it.
ShownAsAsked ==
  /\ OnePanelShown /\ LastRequestShows /\ OneActiveSlide /\ ActiveSlideShown
  /\ CarouselRests /\ PickerShownAsAsked

\* Ripples, thumbs and swiped items answer the finger or button that is on them
\* and no other, although the counters and flags behind them are shared; the thumbs
\* until the keyboard changes a range or a press leaves it.
PointersAnswered ==
  TouchMutesMouse /\ RipplesFade /\ ThumbUnderPointer /\ SwipedItemLeaves

\* Whoever listens to the scrolling has seen where the window is or has a timer
\* set to look, and what it shows fits the position it saw.
ScrollAnswered ==
  ScanOwed /\ LitSectionInView /\ FiredOnce /\ PinFollowsScroll /\ ParallaxCovers

\* What the user reads is not covered, cut or out of date: a label is clear of the
\* text of its field unless a reset put it back, the counter counts that text, and a
\* tooltip passes the edge of the window only as far as one beside its origin moves.
TextReadable == LabelClearOfText /\ CounterOfText /\ TipOnScreen

\* When the user rests the widgets come to rest: a captioned image returns, a
\* toast leaves, a tooltip follows the pointer, the spy sees the position.
WidgetsSettle == BoxReturns /\ ToastLeaves /\ TipFollowsPointer /\ SpyCatchesUp
=============================================================================
