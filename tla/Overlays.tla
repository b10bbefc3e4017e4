------------------------------ MODULE Overlays ------------------------------
(***************************************************************************)
(* The widgets that cover the page: modal windows, the side navigation and *)
(* the image box.  Modals and the side navigation write the same scroll    *)
(* lock; modals and the image box answer the same Escape key.              *)
(***************************************************************************)
EXTENDS Materialize, SequencesExt

CONSTANTS Modals,        \* the modal windows of the page
          Dismissible,   \* those opened with dismissible: true
          MaxOpen,       \* bound: windows opened in one behaviour
          MaxOpenNav,    \* the same on a page with a side navigation
          MaxClosing,    \* bound: closing animations under way
          MaxNavOverlays,\* bound: #sidenav-overlay elements at a time
          NavKinds       \* "plain", "fixed", or "missing": no element has the
                         \* id in data-activates

ASSUME OverlayAssumption == /\ IsFiniteSet(Modals) /\ Dismissible \subseteq Modals
                            /\ MaxOpen \in Nat
                            /\ MaxOpenNav \in 0..MaxOpen
                            /\ MaxClosing \in Nat
                            /\ MaxNavOverlays \in Nat
                            /\ NavKinds \subseteq {"plain", "fixed", "missing"}

VARIABLES modal, nav, box

overlayVars == <<modal, nav, box>>

OverlayIds == 1..MaxOpen

-----------------------------------------------------------------------------
(* Modal windows.  z[m] is the level its z-index is computed from, levels  *)
(* is _stack, closing the closing animations under way: all take the same  *)
(* time, so that they complete in the order they were started.             *)

ModalInit ==
  modal = [open    |-> {}, shown |-> {}, overlay |-> [m \in Modals |-> 0],
           dom     |-> {}, escape |-> {}, hooked |-> {}, lastID |-> 0,
           levels  |-> 0, z |-> [m \in Modals |-> 0],
           closing |-> <<>>]

\* Mutant: no early return for a window that is open.
OpenModalAgain(m) ==
  /\ On("modal")
  /\ bodyLocked' = TRUE
  /\ modal.lastID < IF "nav" \in page THEN MaxOpenNav ELSE MaxOpen
  /\ LET id == modal.lastID + 1
     IN modal' = [modal EXCEPT
          !.lastID = id, !.levels = @ + 1, !.z[m] = modal.levels + 1,
          !.overlay[m] = id, !.open = @ \cup {m}, !.shown = @ \cup {m},
          !.dom = @ \cup {<<m, id>>}, !.hooked = @ \cup {m},
          !.escape = IF m \in Dismissible THEN @ \cup {<<m, id>>} ELSE @]
  /\ UNCHANGED <<nav, box>>

\* A click on the window's trigger, or openModal called by the page.
OpenModal(m) ==
  /\ On("modal")
  /\ bodyLocked' = TRUE
  /\ \/ m \in modal.open /\ UNCHANGED modal
     \/ /\ m \notin modal.open
        /\ modal.lastID < IF "nav" \in page THEN MaxOpenNav ELSE MaxOpen
        /\ LET id == modal.lastID + 1
               level == modal.levels + 1
           IN modal' = [modal EXCEPT
                !.lastID = id, !.levels = level, !.z[m] = level,
                !.overlay[m] = id, !.open = @ \cup {m}, !.shown = @ \cup {m},
                !.dom = @ \cup {<<m, id>>}, !.hooked = @ \cup {m},
                !.escape = IF m \in Dismissible THEN @ \cup {<<m, id>>} ELSE @]
  /\ UNCHANGED <<nav, box>>

\* The windows with their overlays, in the order they were opened.
InOrder(current) ==
  [i \in 1..Cardinality(current) |->
     CHOOSE p \in current : Cardinality({q \in current : q[2] <= p[2]}) = i]

\* closeModal on every window of S, each opened before.
CloseModal(S) ==
  LET current == {<<m, modal.overlay[m]>> : m \in S}
  IN /\ modal' = [modal EXCEPT
          !.open = @ \ S, !.hooked = @ \ S, !.escape = @ \ current,
          !.closing = @ \o InOrder(current)]
     /\ bodyLocked' = (bodyLocked /\ S = {})

\* The overlay stays clickable while it fades.
ClickModalOverlay(m, o) ==
  /\ On("modal")
  /\ <<m, o>> \in modal.dom /\ m \in Dismissible
  /\ Len(modal.closing) < MaxClosing
  /\ CloseModal({m})
  /\ UNCHANGED <<nav, box>>

ClickModalClose(m) ==
  /\ On("modal")
  /\ m \in modal.hooked /\ m \in modal.shown
  /\ CloseModal({m})
  /\ UNCHANGED <<nav, box>>

\* A closing animation completes.
ModalClosed ==
  /\ On("modal")
  /\ modal.closing # <<>>
  /\ modal' = [modal EXCEPT !.closing = Tail(@),
                            !.shown = @ \ {Head(modal.closing)[1]},
                            !.dom = @ \ {Head(modal.closing)},
                            !.levels = @ - 1]
  /\ UNCHANGED <<bodyLocked, nav, box>>

-----------------------------------------------------------------------------
(* Side navigation.  overlays is the sequence of #sidenav-overlay elements *)
(* in document order, opening the number of opening animations under way   *)
(* (they outlive their overlay), at where the menu was last sent to;       *)
(* pushed: out, by a handler that does not release the scroll lock.        *)

NavOverlay == [by: {"button", "pan"}, fading: BOOLEAN]

NavInit ==
  \E kind \in IF "nav" \in page THEN NavKinds ELSE {"missing"} :
    nav = [kind |-> kind, at |-> "out", menuOut |-> FALSE, overlays |-> <<>>,
           opening |-> 0, dragging |-> FALSE, restoring |-> FALSE,
           pushed |-> FALSE]

Slide(place) == IF nav.kind = "missing" THEN "out" ELSE place

PushedTo(place) == place = "out" /\ (nav.pushed \/ (nav.at # "out" /\ bodyLocked))

\* The selector of an id finds the first element that has it.
FadeFirst(overlays) ==
  IF overlays = <<>> THEN <<>> ELSE [overlays EXCEPT ![1].fading = TRUE]

\* Mutant: the scroll lock is not released.
RemoveMenuLocked(overlays, restoreNav) ==
  /\ UNCHANGED bodyLocked
  /\ nav' = [nav EXCEPT !.menuOut = FALSE, !.at = "out", !.pushed = FALSE,
                        !.overlays = FadeFirst(overlays),
                        !.restoring = @ \/ restoreNav]

RemoveMenu(overlays, restoreNav) ==
  /\ bodyLocked' = FALSE
  /\ nav' = [nav EXCEPT !.menuOut = FALSE, !.at = "out", !.pushed = FALSE,
                        !.overlays = FadeFirst(overlays),
                        !.restoring = @ \/ restoreNav]

\* A click on the button, or sideNav('show').
ClickNavButton ==
  /\ On("nav")
  /\ \/ nav.menuOut /\ RemoveMenu(nav.overlays, FALSE)
     \/ /\ ~nav.menuOut
        /\ Len(nav.overlays) < MaxNavOverlays /\ nav.opening < MaxNavOverlays
        /\ bodyLocked' = TRUE
        /\ nav' = [nav EXCEPT
             !.at = Slide("in"), !.pushed = FALSE, !.opening = @ + 1,
             !.overlays = Append(@, [by |-> "button", fading |-> FALSE])]
  /\ UNCHANGED <<modal, box>>

NavOpened ==
  /\ On("nav")
  /\ nav.opening > 0
  /\ nav' = [nav EXCEPT !.opening = @ - 1, !.menuOut = TRUE]
  /\ UNCHANGED <<bodyLocked, modal, box>>

\* The overlay on top is clicked, or sideNav('hide') clicks the first one.
ClickNavOverlay ==
  /\ On("nav")
  /\ \E i \in {1, Len(nav.overlays)} \cap DOMAIN nav.overlays :
       RemoveMenu(IF nav.overlays[i].by = "button"
                  THEN [nav.overlays EXCEPT ![i].fading = TRUE]
                  ELSE nav.overlays, FALSE)
  /\ UNCHANGED <<modal, box>>

ClickDragTarget ==
  /\ On("nav")
  /\ RemoveMenu(nav.overlays, FALSE)
  /\ UNCHANGED <<modal, box>>

NavOverlayFaded(i) ==
  /\ On("nav")
  /\ i \in DOMAIN nav.overlays /\ nav.overlays[i].fading
  /\ nav' = [nav EXCEPT
       !.overlays = SubSeq(@, 1, i - 1) \o SubSeq(@, i + 1, Len(@))]
  /\ UNCHANGED <<bodyLocked, modal, box>>

\* A touch drags the menu; past is whether it is dragged past its middle.
PanNav(past) ==
  /\ On("nav")
  /\ bodyLocked' = TRUE
  /\ nav' = [nav EXCEPT
       !.at = Slide("dragged"), !.pushed = FALSE,
       !.menuOut = past, !.dragging = TRUE,
       !.overlays = IF @ = <<>> THEN <<[by |-> "pan", fading |-> FALSE]>>
                    ELSE @]
  /\ UNCHANGED <<modal, box>>

\* The touch ends: slowly, flung towards open or flung towards closed.
PanNavEnd(velocity) ==
  /\ On("nav")
  /\ nav.dragging
  /\ IF velocity = "open" \/ (nav.menuOut /\ velocity = "slow")
     THEN /\ nav' = [nav EXCEPT !.dragging = FALSE, !.at = Slide("in"),
                                !.pushed = FALSE]
          /\ UNCHANGED bodyLocked
     ELSE /\ nav' = [nav EXCEPT !.dragging = FALSE, !.at = "out",
                                !.pushed = FALSE, !.overlays = FadeFirst(@)]
          /\ bodyLocked' = FALSE
  /\ UNCHANGED <<modal, box>>

\* The window is resized, to a width past 992 or not.
ResizeNav(wide) ==
  /\ On("nav")
  /\ nav.kind = "fixed"
  /\ IF wide /\ nav.overlays # <<>> /\ nav.menuOut
     THEN RemoveMenu(nav.overlays, TRUE)
     ELSE /\ LET place == IF wide THEN "in" ELSE IF nav.menuOut THEN nav.at ELSE "out"
             IN nav' = [nav EXCEPT !.at = place, !.pushed = PushedTo(place)]
          /\ UNCHANGED bodyLocked
  /\ UNCHANGED <<modal, box>>

\* A fixed menu that slid out on a resize gets its stylesheet position back.
NavRestored ==
  /\ On("nav")
  /\ nav.restoring
  /\ \E place \in {"in", "out"} :
       nav' = [nav EXCEPT !.restoring = FALSE, !.at = place,
                          !.pushed = PushedTo(place)]
  /\ UNCHANGED <<bodyLocked, modal, box>>

-----------------------------------------------------------------------------
(* The image box.  cut is whether an ancestor's overflow is overridden;    *)
(* captioned whether data-caption is other than the empty string.          *)

BoxInit ==
  \E captioned \in IF "box" \in page THEN BOOLEAN ELSE {FALSE} :
    box = [captioned |-> captioned, overlayActive |-> FALSE,
           doneAnimating |-> TRUE, active |-> FALSE, overlay |-> FALSE,
           caption |-> FALSE, cut |-> FALSE, anim |-> "none"]

\* Stops what is under way and starts the way back.
ReturnToOriginal == [box EXCEPT !.doneAnimating = FALSE, !.anim = "back"]

ClickBox ==
  /\ On("box")
  /\ box' = IF ~box.doneAnimating \/ box.overlayActive THEN ReturnToOriginal
            ELSE [box EXCEPT
                    !.doneAnimating = FALSE, !.active = TRUE,
                    !.overlayActive = TRUE, !.overlay = TRUE,
                    !.caption = box.captioned, !.cut = TRUE, !.anim = "grow"]
  /\ UNCHANGED <<bodyLocked, modal, nav>>

BoxGrown ==
  /\ On("box")
  /\ box.anim = "grow"
  /\ box' = [box EXCEPT !.doneAnimating = TRUE, !.anim = "none"]
  /\ UNCHANGED <<bodyLocked, modal, nav>>

ScrollBox ==
  /\ On("box")
  /\ box.overlayActive
  /\ box' = ReturnToOriginal
  /\ UNCHANGED <<bodyLocked, modal, nav>>

ClickBoxOverlay ==
  /\ On("box")
  /\ box.overlay /\ box.doneAnimating
  /\ box' = ReturnToOriginal
  /\ UNCHANGED <<bodyLocked, modal, nav>>

\* The overlay and the caption fade with the same duration: their callbacks
\* run in one tick, the overlay's first.  Without a caption element the second
\* callback, which ends the return, never runs.
BoxBack ==
  /\ On("box")
  /\ box.anim = "back"
  /\ box' = IF box.caption
            THEN [box EXCEPT !.overlayActive = FALSE, !.overlay = FALSE,
                             !.active = FALSE, !.doneAnimating = TRUE,
                             !.caption = FALSE, !.cut = FALSE, !.anim = "none"]
            ELSE [box EXCEPT !.overlayActive = FALSE, !.overlay = FALSE,
                             !.anim = "none"]
  /\ UNCHANGED <<bodyLocked, modal, nav>>

-----------------------------------------------------------------------------
\* Escape: the handlers of all open dismissible windows and of the box run.
PressEscape ==
  /\ "modal" \in page \/ "box" \in page
  /\ UNCHANGED <<page, nav>>
  /\ CloseModal({p[1] : p \in modal.escape})
  /\ box' = IF box.doneAnimating /\ box.overlayActive THEN ReturnToOriginal
            ELSE box

OverlaysInit == ModalInit /\ NavInit /\ BoxInit

ModalNext ==
  \/ \E m \in Modals : OpenModal(m) \/ ClickModalClose(m)
  \/ \E m \in Modals, o \in OverlayIds : ClickModalOverlay(m, o)
  \/ ModalClosed

NavNext ==
  \/ ClickNavButton \/ NavOpened \/ ClickNavOverlay \/ ClickDragTarget
  \/ NavRestored
  \/ \E i \in 1..MaxNavOverlays : NavOverlayFaded(i)
  \/ \E past \in BOOLEAN : PanNav(past)
  \/ \E velocity \in {"slow", "open", "closed"} : PanNavEnd(velocity)
  \/ \E wide \in BOOLEAN : ResizeNav(wide)

BoxNext == ClickBox \/ BoxGrown \/ ScrollBox \/ ClickBoxOverlay \/ BoxBack

OverlaysNext == ModalNext \/ NavNext \/ BoxNext \/ PressEscape

\* Animations end.
OverlaysFairness ==
  LET v == <<pageVars, overlayVars>> IN
  /\ WF_v(ModalClosed)
  /\ \A i \in 1..MaxNavOverlays : WF_v(NavOverlayFaded(i))
  /\ WF_v(BoxGrown) /\ WF_v(BoxBack)

-----------------------------------------------------------------------------
(* Properties *)

\* Every overlay of a modal in the document is the current one of an open
\* window or is being removed: however windows are opened, closed twice or
\* reopened while they still fade, no overlay is left over the page.
NoOrphanModalOverlay ==
  \A p \in modal.dom :
    \/ p[1] \in modal.open /\ modal.overlay[p[1]] = p[2]
    \/ p \in ToSet(modal.closing)

\* The Escape handlers registered on the document are those of the open
\* dismissible windows: a closed window never answers the key again.
EscapeIsOfOpenModals ==
  modal.escape = {<<m, modal.overlay[m]>> : m \in modal.open \cap Dismissible}

\* The page is locked for scrolling only under an open window or a menu that
\* is not slid out, though both widgets write the lock (openModal, closeModal,
\* removeMenu, pan, panend).  Two cases are excepted, in which it is not so: a
\* button without its menu locks the page all the same, under an overlay; and a
\* fixed menu that is opening, or was flung open from before its middle, has
\* menuOut false: a resize to a narrow window slides it out and leaves the lock,
\* and so may giving back its place while it opens again.
BodyLockHasOwner ==
  bodyLocked => \/ modal.open # {}
                \/ nav.at # "out"
                \/ nav.pushed
                \/ "nav" \in page /\ nav.kind = "missing"

\* The box knows whether its overlay covers the page, and never loses the
\* override it put on an ancestor: it is undone unless the image is active.
BoxKnowsItsOverlay ==
  /\ box.overlayActive = box.overlay
  /\ box.cut => box.active
  /\ box.caption => box.active

\* A box with a caption that is returning to its place becomes usable again.
BoxReturns ==
  (box.captioned /\ box.anim = "back") ~> (box.doneAnimating /\ ~box.active)
=============================================================================
