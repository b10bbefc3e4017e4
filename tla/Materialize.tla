---------------------------- MODULE Materialize ----------------------------
(***************************************************************************)
(* What the widgets of materialize.js share: the page they are on and the  *)
(* scroll lock of its body.  The modules that extend this one model the    *)
(* widgets; each of their actions is one handler (a DOM event, a timer or  *)
(* the completion of an animation), run to its end as the browser runs it. *)
(* A page is the set of widgets found on it; a behaviour picks one of      *)
(* Pages and stays on it.                                                  *)
(*                                                                         *)
(* Velocity and jQuery animations end when they like, in any order, unless *)
(* the code starts them together with the same duration; stopping one      *)
(* drops its completion callback, removing its element does not.           *)
(***************************************************************************)
EXTENDS Integers, Sequences, FiniteSets

CONSTANT Pages

VARIABLES page,        \* the widgets on this page
          bodyLocked   \* body { overflow: hidden }

pageVars == <<page, bodyLocked>>

PageInit == page \in Pages /\ bodyLocked = FALSE

On(widget) == widget \in page /\ UNCHANGED page
=============================================================================
