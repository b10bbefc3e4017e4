------------------------------ MODULE Carousel ------------------------------
(***************************************************************************)
(* The carousel: a ring of images that is dragged, thrown, clicked or sent *)
(* on by the page, and scrolls by itself, frame by frame, to where it      *)
(* should rest.                                                            *)
(***************************************************************************)
EXTENDS Materialize, SequencesExt

CONSTANTS Images,    \* number of images
          Dim,       \* the distance of two of them
          MaxOffset, \* bound: how far it scrolls from where it began
          MaxFrames  \* bound: animation frames requested

ASSUME CarouselAssumption ==
  Images \in Nat \ {0} /\ Dim \in Nat \ {0} /\ MaxOffset \in Nat /\ MaxFrames \in Nat

VARIABLE carousel

-----------------------------------------------------------------------------
\* moving: amplitude is not zero; frames are the frames requested.  midway
\* remembers that it was sent on from between two images, asked the image
\* clicked, -1 once something else was done.
CarouselInit ==
  carousel = [offset |-> 0, target |-> 0, moving |-> FALSE, frames |-> 0,
              pressed |-> FALSE, dragged |-> FALSE, vertical |-> FALSE,
              midway |-> FALSE, asked |-> -1]

OnCarousel == On("carousel") /\ UNCHANGED bodyLocked

ImageIds == 0..Images - 1

\* Math.round(x / dim), which is also scroll's center.
Nearest(x) == (2 * x + Dim) \div (2 * Dim)

Wrap(center) == center % Images

Within(x) == x \in -MaxOffset..MaxOffset

Tap ==
  /\ OnCarousel
  /\ carousel' = [carousel EXCEPT
       !.pressed = TRUE, !.dragged = FALSE, !.vertical = FALSE,
       !.moving = FALSE, !.asked = -1]

\* The pointer moves by delta across the carousel; delta 0 stands for a move up
\* or down.  A button let go elsewhere still counts as pressed.
Drag(delta) ==
  /\ OnCarousel
  /\ carousel.pressed
  /\ \/ /\ delta = 0 /\ ~carousel.dragged
        /\ carousel' = [carousel EXCEPT !.vertical = TRUE]
     \/ /\ delta # 0 /\ ~carousel.vertical
        /\ Within(carousel.offset + delta)
        /\ carousel' = [carousel EXCEPT !.dragged = TRUE, !.offset = @ + delta]

\* Let go with the velocity that carries it by fling.
Release(fling) ==
  /\ OnCarousel
  /\ fling # 0 => carousel.dragged
  /\ carousel.frames < MaxFrames
  /\ LET target == Nearest(carousel.offset + fling) * Dim
     IN /\ Within(target)
        /\ carousel' = [carousel EXCEPT
             !.pressed = FALSE, !.target = target,
             !.moving = target # carousel.offset,
             !.frames = @ + 1, !.midway = FALSE, !.asked = -1]

\* What carouselNext (n > 0) and carouselPrev (n < 0) leave; image is the one
\* clicked, -1 when the page calls.
Sent(n, image) ==
  [carousel EXCEPT !.target = carousel.offset + Dim * n, !.moving = TRUE,
                   !.frames = @ + 1, !.asked = image,
                   !.midway = carousel.offset % Dim # 0]

CarouselSend(n) ==
  /\ OnCarousel
  /\ carousel.frames < MaxFrames /\ Within(carousel.offset + Dim * n)
  /\ carousel' = Sent(n, -1)

\* JavaScript's remainder has the sign of the dividend.
Remainder(x) == IF x < 0 THEN -((-x) % Images) ELSE x % Images

\* The way back to the image clicked, the shorter way round.
Difference(image) ==
  LET diff == Remainder(Nearest(carousel.offset)) - image
      abs(x) == IF x < 0 THEN -x ELSE x
  IN IF diff < 0 /\ abs(diff + Images) < abs(diff) THEN diff + Images
     ELSE IF diff > 0 /\ abs(diff - Images) < diff THEN diff - Images
     ELSE diff

\* A click follows a tap and its release, and does nothing after a drag.
ClickImage(image) ==
  /\ OnCarousel
  /\ ~carousel.pressed /\ ~carousel.dragged
  /\ LET diff == Difference(image)
     IN \/ /\ diff = 0
           /\ UNCHANGED carousel
        \/ /\ diff # 0
           /\ carousel.frames < MaxFrames /\ Within(carousel.offset - Dim * diff)
           /\ carousel' = Sent(-diff, image)

\* A frame: offset is where the carousel scrolls to, nearer to the target, or
\* the target.  After a tap nothing moves.
AutoScroll(offset) ==
  /\ OnCarousel
  /\ carousel.frames > 0
  /\ IF carousel.moving
     THEN /\ offset \in carousel.offset..carousel.target
                        \cup carousel.target..carousel.offset
          /\ carousel' = [carousel EXCEPT
               !.offset = offset,
               !.frames = IF offset = carousel.target THEN @ - 1 ELSE @]
     ELSE /\ offset = carousel.offset
          /\ carousel' = [carousel EXCEPT !.frames = @ - 1]

-----------------------------------------------------------------------------
CarouselNext ==
  \/ Tap
  \/ \E delta \in {-1, 0, 1} : Drag(delta)
  \/ \E fling \in {-Dim, 0, Dim} : Release(fling)
  \/ \E n \in {-2, -1, 1, 2} : CarouselSend(n)
  \/ \E image \in ImageIds : ClickImage(image)
  \/ \E offset \in -MaxOffset..MaxOffset : AutoScroll(offset)

-----------------------------------------------------------------------------
(* Properties *)

\* Left alone the carousel comes to rest on an image, and on the one clicked if
\* that was the last thing done, whatever was dragged, thrown and sent on before,
\* unless it was sent on from between two images (release, carouselNext).
CarouselRests ==
  carousel.frames = 0 /\ ~carousel.pressed /\ ~carousel.midway =>
    /\ carousel.offset % Dim = 0
    /\ carousel.asked # -1 => Wrap(Nearest(carousel.offset)) = carousel.asked
=============================================================================
