----------------------------- MODULE SearchBox -----------------------------
(***************************************************************************)
(* The search box and the suggestion engine of typeahead.js.  What passes  *)
(* between them is a query and its suggestions, at once and later, in any  *)
(* order, which the box leaves open; so a behaviour exercises the box or   *)
(* one part of the engine, and the other stays as it was made.             *)
(***************************************************************************)
EXTENDS Typeahead, Bloodhound

ASSUME SearchBoxAssumption == "box" \in Parts

vars == <<ta, engineVars>>

Init ==
  /\ TypeaheadInit /\ EngineInit
  /\ part # "box" => ta.source = "engine"

Next ==
  \/ part = "box" /\ TypeaheadNext /\ UNCHANGED engineVars
  \/ part # "box" /\ EngineNext /\ UNCHANGED ta

Spec == Init /\ [][Next]_vars /\ EngineFairness
=============================================================================
