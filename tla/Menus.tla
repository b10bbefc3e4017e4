-------------------------------- MODULE Menus --------------------------------
(***************************************************************************)
(* The widgets that open and choose: drop-down menus, the select boxes     *)
(* built on them, collapsible lists, tabs, the floating action button and  *)
(* the card that reveals its back.                                         *)
(***************************************************************************)
EXTENDS Materialize, SequencesExt, Ranks

CONSTANTS Menus,         \* drop-down menus opened by a click on their button
          Options,       \* number of options of a select box
          DisabledSets,  \* the sets of them that may be disabled
          Panels         \* number of panels of a list and of tabs of a bar

ASSUME MenuAssumption == /\ Options \in Nat /\ Panels \in Nat \ {0}
                         /\ DisabledSets \subseteq SUBSET (1..Options)

VARIABLES drop, hoverMenu, select, list, tabs, fab, card

menuVars == <<drop, hoverMenu, select, list, tabs, fab, card>>

-----------------------------------------------------------------------------
(* Drop-down menus.  outside[d] counts the handlers on the document that   *)
(* close menu d on a click elsewhere; byEvent those opened by the event    *)
(* 'open', which binds none.                                               *)

DropInit == drop = [active |-> {}, outside |-> [d \in Menus |-> 0],
                    byEvent |-> {}, fading |-> {}]

PlaceDropdown(r, d) == [r EXCEPT !.active = @ \cup {d}, !.fading = @ \ {d}]

HideDropdown(r, d) == [r EXCEPT !.active = @ \ {d}, !.fading = @ \cup {d},
                                !.byEvent = @ \ {d}]

\* A click outside the menus of S and their buttons reaches their handlers on
\* the document.
OutsideClick(r, S) ==
  LET hit == {d \in S : r.outside[d] > 0}
  IN [r EXCEPT !.active = @ \ hit, !.fading = @ \cup hit, !.byEvent = @ \ hit,
               !.outside = [d \in Menus |-> IF d \in S THEN 0 ELSE @[d]]]

\* A click on the button of d, which bubbles to the document.
ClickDropdown(d) ==
  /\ On("dropdown")
  /\ drop.outside[d] < 2
  /\ LET own == IF d \in drop.active
                THEN [HideDropdown(drop, d) EXCEPT !.outside[d] = 0]
                ELSE [PlaceDropdown(drop, d) EXCEPT !.outside[d] = @ + 1]
     IN drop' = OutsideClick(own, Menus \ {d})
  /\ UNCHANGED <<bodyLocked, hoverMenu, select, list, tabs, fab, card>>

ClickElsewhere ==
  /\ On("dropdown")
  /\ drop' = OutsideClick(drop, Menus)
  /\ UNCHANGED <<bodyLocked, hoverMenu, select, list, tabs, fab, card>>

\* The page triggers 'open' or 'close' on the button of d.
TriggerDropdown(d, event) ==
  /\ On("dropdown")
  /\ drop' = IF event = "close" THEN HideDropdown(drop, d)
             ELSE [PlaceDropdown(drop, d) EXCEPT
                     !.byEvent = IF d \in drop.active THEN @ ELSE @ \cup {d}]
  /\ UNCHANGED <<bodyLocked, hoverMenu, select, list, tabs, fab, card>>

DropdownFaded(d) ==
  /\ On("dropdown")
  /\ d \in drop.fading
  /\ drop' = [drop EXCEPT !.fading = @ \ {d}]
  /\ UNCHANGED <<bodyLocked, hoverMenu, select, list, tabs, fab, card>>

\* A menu that opens under the mouse; pointer is where the mouse is.
HoverInit == hoverMenu = [open |-> FALSE, active |-> FALSE, pointer |-> "away"]

\* The mouse moves: between button and menu neither handler closes it.
MovePointer(to) ==
  /\ On("dropdown")
  /\ to # hoverMenu.pointer
  /\ to = "menu" => hoverMenu.active
  /\ hoverMenu' =
       IF to = "button"
       THEN IF hoverMenu.open THEN [hoverMenu EXCEPT !.pointer = to]
            ELSE [open |-> TRUE, active |-> TRUE, pointer |-> to]
       ELSE IF to = "menu" THEN [hoverMenu EXCEPT !.pointer = to]
            ELSE [open |-> FALSE, active |-> FALSE, pointer |-> to]
  /\ UNCHANGED <<bodyLocked, drop, select, list, tabs, fab, card>>

TriggerHover(event) ==
  /\ On("dropdown")
  /\ hoverMenu' = [hoverMenu EXCEPT !.active = (event = "open")]
  /\ UNCHANGED <<bodyLocked, drop, select, list, tabs, fab, card>>

-----------------------------------------------------------------------------
(* Two select boxes.  Rows above the options (an optgroup's heading) shift *)
(* the index of an option's row in the list from its index in the select.  *)
(* values is valuesSelected, chosen the options whose property selected is *)
(* set, disabled those that cannot be chosen, a selected placeholder among *)
(* them; marked the rows with class active, cursor the row with class      *)
(* selected (0: none), focus whether the box has the focus.                *)

Boxes == {1, 2}
Option == 1..Options

\* The box without its structure; the structure built from the options of a
\* box, where of several selected options those not disabled become values.
TornDown(r) ==
  [r EXCEPT !.ready = FALSE, !.active = FALSE, !.visible = FALSE, !.cursor = 0,
            !.isFocused = FALSE, !.focus = FALSE, !.over = FALSE,
            !.values = <<>>, !.marked = {}]
Built(r) ==
  LET picked == IF r.multiple THEN r.chosen \ r.disabled ELSE {}
  IN [TornDown(r) EXCEPT !.ready = TRUE, !.marked = picked,
                         !.values = Ascending(picked)]

SelectInit ==
  \E multiple \in IF "select" \in page THEN [Boxes -> BOOLEAN] ELSE {<<FALSE, FALSE>>},
     shift \in IF "select" \in page THEN {0, 1} ELSE {0},
     disabled \in IF "select" \in page THEN DisabledSets ELSE {{}},
     chosen \in IF "select" \in page THEN [Boxes -> SUBSET Option] ELSE {<<{}, {}>>} :
    /\ \A b \in Boxes : multiple[b] \/ \A i, j \in chosen[b] : i = j
    /\ select = [b \in Boxes |-> Built(
         [multiple |-> multiple[b], shift |-> shift, ready |-> TRUE,
          active |-> FALSE, visible |-> FALSE, isFocused |-> FALSE,
          focus |-> FALSE, over |-> FALSE, values |-> <<>>,
          chosen |-> chosen[b], disabled |-> disabled, marked |-> {},
          cursor |-> 0])]

SelectVars == <<bodyLocked, drop, hoverMenu, list, tabs, fab, card>>

CloseList(r) == [r EXCEPT !.active = FALSE, !.isFocused = FALSE]
OpenList(r, byFocus) == [r EXCEPT !.active = TRUE, !.visible = TRUE,
                                  !.isFocused = @ \/ byFocus]

\* Focus leaves every other box: a box that takes one option closes.
Blur(r) == IF ~r.focus THEN r
           ELSE [(IF r.multiple THEN r ELSE CloseList(r)) EXCEPT
                   !.focus = FALSE, !.cursor = 0]

\* Mutant: the other visible lists are not closed.
FocusedOnly(f, b) ==
  LET blurred == [c \in Boxes |-> Blur(f[c])]
  IN [blurred EXCEPT ![b] =
       [(IF @.visible THEN @ ELSE OpenList(@, TRUE)) EXCEPT !.focus = TRUE]]

\* The box b takes the focus from whichever of the boxes f has it: when any
\* other list is visible, all are closed, b's too; b opens if it is hidden.
Focused(f, b) ==
  LET blurred == [c \in Boxes |-> Blur(f[c])]
      closed == IF \E c \in Boxes \ {b} : blurred[c].visible
                THEN [c \in Boxes |-> CloseList(blurred[c])] ELSE blurred
  IN [closed EXCEPT ![b] =
       [(IF @.visible THEN @ ELSE OpenList(@, TRUE)) EXCEPT !.focus = TRUE]]

\* A list that opens has its cursor on the row with the text of the input, if
\* there is one.
FocusSelect(b, row) ==
  /\ On("select")
  /\ select[b].ready /\ ~select[b].focus
  /\ row \in 0..Options + select[b].shift
  /\ select' = [Focused(select, b) EXCEPT
                  ![b].cursor = IF select[b].visible THEN @ ELSE row]
  /\ UNCHANGED SelectVars

\* A click on a box that has the focus: the menu's own handler.
ClickSelect(b) ==
  /\ On("select")
  /\ select[b].focus /\ ~select[b].isFocused
  /\ select' = [select EXCEPT ![b] = IF @.active THEN CloseList(@)
                                     ELSE OpenList(@, FALSE)]
  /\ UNCHANGED SelectVars

\* A click reaches the window.
WindowClick(f) ==
  [c \in Boxes |-> IF f[c].multiple /\ ~f[c].over THEN CloseList(f[c]) ELSE f[c]]

\* A click elsewhere: blur, then the click reaches the window.
LeaveSelects ==
  /\ On("select")
  /\ select' = WindowClick([c \in Boxes |-> Blur(select[c])])
  /\ UNCHANGED SelectVars

\* Mutant: the entry that is toggled off stays in the array.
ToggleEntryKept(r, e) ==
  IF e \in ToSet(r.values)
  THEN [r EXCEPT !.chosen = @ \ {e}, !.marked = @ \ {e}]
  ELSE [r EXCEPT !.values = Append(@, e), !.marked = @ \cup {e},
                 !.chosen = @ \cup ({e} \cap Option)]

\* toggleEntryFromArray: the index of the row serves as index of the option.
ToggleEntry(r, e) ==
  IF e \in ToSet(r.values)
  THEN [r EXCEPT !.values = ElementsAt(@, {i \in DOMAIN @ : @[i] # e}),
                 !.chosen = @ \ {e}, !.marked = @ \ {e}]
  ELSE [r EXCEPT !.values = Append(@, e), !.marked = @ \cup {e},
                 !.chosen = @ \cup ({e} \cap Option)]

\* The click on the row of option i, not disabled, and the state it leaves.
Chosen(r, i) ==
  LET e == i + r.shift
      one == [r EXCEPT !.chosen = {i}, !.marked = {e}, !.cursor = e]
      many == ToggleEntry(r, e)
  IN IF ~r.multiple THEN one
     ELSE [many EXCEPT !.cursor = e,
             !.chosen = IF e \in ToSet(many.values) THEN @ \cup {i} ELSE @ \ {i}]

\* Pressing the mouse on a row of b blurs every box.
Pressed(b) == [[c \in Boxes |-> Blur(select[c])] EXCEPT ![b].over = TRUE]

\* A click on an option's row, which stops before the window; nothing else
\* happens on a disabled one.
ChooseOption(b, i) ==
  /\ On("select")
  /\ select[b].visible
  /\ select' = IF i \in select[b].disabled THEN Pressed(b)
               ELSE IF select[b].multiple
                 THEN [Focused(Pressed(b), b) EXCEPT ![b] = Chosen(@, i)]
                 ELSE [Pressed(b) EXCEPT ![b] = Chosen(@, i)]
  /\ UNCHANGED SelectVars

\* Enter on a row of a visible list: a click on the row under the cursor.
EnterKey(b) ==
  /\ On("select")
  /\ select[b].focus /\ select[b].visible
  /\ LET row == select[b].cursor - select[b].shift
         focused == Focused(select, b)
     IN /\ row \in Option \ select[b].disabled
        /\ select' = IF select[b].multiple
                     THEN [focused EXCEPT ![b] = Chosen(@, row)]
                     ELSE [select EXCEPT ![b] = CloseList(Chosen(@, row))]
  /\ UNCHANGED SelectVars

\* A click on the heading, or Enter there, which the keys reach: no handler
\* stops it before the document, where a list that a click opened has one.
ClickHeading(b, byKey) ==
  /\ On("select")
  /\ select[b].visible /\ select[b].shift = 1
  /\ byKey => select[b].focus /\ select[b].cursor = 1
  /\ \E byClick \in BOOLEAN :
       select' = [WindowClick(IF byKey THEN select ELSE Pressed(b)) EXCEPT
         ![b] = IF byClick \/ (byKey /\ ~@.multiple) THEN CloseList(@) ELSE @]
  /\ UNCHANGED SelectVars

\* The rows, without those of disabled options.
FreeRows(r) == (1..Options + r.shift) \ {i + r.shift : i \in r.disabled}

\* Keys that move the cursor to the next row, if it is not a disabled one.
Moved(r, row) == IF row \in FreeRows(r) THEN [r EXCEPT !.cursor = row] ELSE r

\* Any other key in the box that has the focus.
SelectKey(b, key) ==
  /\ On("select")
  /\ select[b].focus
  /\ select' = [select EXCEPT ![b] =
       CASE key \in {"tab", "esc"} -> CloseList(@)
         [] key = "down" /\ ~@.visible -> OpenList(@, FALSE)
         [] key = "down" /\ @.visible /\ @.cursor = 0 /\ FreeRows(@) # {} ->
              [@ EXCEPT !.cursor = Min(FreeRows(select[b]))]
         [] key = "down" /\ @.visible /\ @.cursor > 0 -> Moved(@, @.cursor + 1)
         [] key = "up" /\ @.cursor > 0 -> Moved(@, @.cursor - 1)
         [] OTHER -> @]
  /\ UNCHANGED SelectVars

\* A letter moves the cursor to a row that begins with what was typed.
LetterKey(b, row) ==
  /\ On("select")
  /\ select[b].focus
  /\ row \in 1..Options + select[b].shift
  /\ select' = [select EXCEPT ![b].cursor = row]
  /\ UNCHANGED SelectVars

\* The mouse enters or leaves the list of rows.
HoverOptions(b, inside) ==
  /\ On("select")
  /\ select[b].over # inside /\ inside => select[b].visible
  /\ select' = [select EXCEPT ![b].over = inside]
  /\ UNCHANGED SelectVars

SelectFaded(b) ==
  /\ On("select")
  /\ select[b].visible /\ ~select[b].active
  /\ select' = [select EXCEPT ![b].visible = FALSE, ![b].over = FALSE]
  /\ UNCHANGED SelectVars

\* material_select() again, which tears the structure down and reads the
\* options anew, or material_select('destroy').
RebuildSelect(b, destroy) ==
  /\ On("select")
  /\ ~destroy \/ select[b].ready
  /\ select' = [select EXCEPT ![b] =
       IF destroy THEN TornDown(@) ELSE Built(@)]
  /\ UNCHANGED SelectVars

-----------------------------------------------------------------------------
(* A collapsible list.  header and panel are the classes active of the     *)
(* header and its li; body the panel heights the last slides lead to.      *)

ListInit ==
  \E accordion \in IF "list" \in page THEN BOOLEAN ELSE {TRUE},
     open \in IF "list" \in page THEN SUBSET (1..Panels) ELSE {{}} :
    list = [accordion |-> accordion,
            header |-> IF accordion /\ open # {} THEN {Min(open)} ELSE open,
            panel |-> IF accordion /\ open # {} THEN {Min(open)} ELSE open,
            body |-> IF accordion /\ open # {} THEN {Min(open)} ELSE open,
            sliding |-> {}]

ClickHeader(i) ==
  /\ On("list")
  /\ LET toggled == IF i \in list.header THEN list.header \ {i}
                    ELSE list.header \cup {i}
         header == IF list.accordion THEN toggled \cap {i} ELSE toggled
     IN list' = [list EXCEPT
          !.header = header,
          !.panel = IF list.accordion THEN header
                    ELSE (@ \ {i}) \cup ({i} \cap header),
          !.body = IF list.accordion THEN header
                   ELSE (@ \ {i}) \cup ({i} \cap header),
          !.sliding = @ \cup IF list.accordion THEN 1..Panels ELSE {i}]
  /\ UNCHANGED <<bodyLocked, drop, hoverMenu, select, tabs, fab, card>>

PanelSlid(i) ==
  /\ On("list")
  /\ i \in list.sliding
  /\ list' = [list EXCEPT !.sliding = @ \ {i}]
  /\ UNCHANGED <<bodyLocked, drop, hoverMenu, select, tabs, fab, card>>

-----------------------------------------------------------------------------
(* Tabs.  Two edges of the indicator move to the active tab, one of them   *)
(* after a delay; moves is what is still to be applied, in any order.      *)

TabsInit ==
  \E first \in IF "tabs" \in page THEN 1..Panels ELSE {1} :
    tabs = [active |-> {first}, index |-> first, content |-> first,
            shown |-> {first}, disabled |-> {Panels} \ {first},
            left |-> first, right |-> first, moves |-> {}]

\* A click on a tab, or tabs('select_tab').
ClickTab(i) ==
  /\ On("tabs")
  /\ i \notin tabs.disabled
  /\ tabs' = [tabs EXCEPT
       !.active = (@ \ {tabs.index}) \cup {i}, !.index = i, !.content = i,
       !.shown = (@ \ {tabs.content}) \cup {i},
       !.moves = @ \cup {<<"left", i>>, <<"right", i>>}]
  /\ UNCHANGED <<bodyLocked, drop, hoverMenu, select, list, fab, card>>

IndicatorMoved(edge, i) ==
  /\ On("tabs")
  /\ <<edge, i>> \in tabs.moves
  /\ tabs' = [tabs EXCEPT
       !.moves = @ \ {<<edge, i>>},
       !.left = IF edge = "left" THEN i ELSE @,
       !.right = IF edge = "right" THEN i ELSE @]
  /\ UNCHANGED <<bodyLocked, drop, hoverMenu, select, list, fab, card>>

ResizeTabs ==
  /\ On("tabs")
  /\ tabs' = [tabs EXCEPT !.left = tabs.index, !.right = tabs.index]
  /\ UNCHANGED <<bodyLocked, drop, hoverMenu, select, list, fab, card>>

-----------------------------------------------------------------------------
(* The floating action button: its menu's animations are queued, and       *)
(* closing empties the queue.  The card: revealing stops the animation     *)
(* that hides, hiding does not stop the one that reveals.                  *)

FabInit == fab = [active |-> FALSE, queue |-> <<>>, shown |-> FALSE]

OpenFAB ==
  /\ On("fab")
  /\ ~fab.active
  /\ fab' = [fab EXCEPT !.active = TRUE, !.queue = Append(@, "show")]
  /\ UNCHANGED <<bodyLocked, drop, hoverMenu, select, list, tabs, card>>

CloseFAB ==
  /\ On("fab")
  /\ fab' = [fab EXCEPT !.active = FALSE, !.queue = <<"hide">>]
  /\ UNCHANGED <<bodyLocked, drop, hoverMenu, select, list, tabs, card>>

FabAnimated ==
  /\ On("fab")
  /\ fab.queue # <<>>
  /\ fab' = [fab EXCEPT !.queue = Tail(@), !.shown = (Head(fab.queue) = "show")]
  /\ UNCHANGED <<bodyLocked, drop, hoverMenu, select, list, tabs, card>>

CardInit == card = [asked |-> FALSE, display |-> FALSE, hiding |-> 0]

RevealCard ==
  /\ On("card")
  /\ card' = [asked |-> TRUE, display |-> TRUE, hiding |-> 0]
  /\ UNCHANGED <<bodyLocked, drop, hoverMenu, select, list, tabs, fab>>

HideCard ==
  /\ On("card")
  /\ card.display /\ card.hiding < 2
  /\ card' = [card EXCEPT !.asked = FALSE, !.hiding = @ + 1]
  /\ UNCHANGED <<bodyLocked, drop, hoverMenu, select, list, tabs, fab>>

CardHidden ==
  /\ On("card")
  /\ card.hiding > 0
  /\ card' = [card EXCEPT !.display = FALSE, !.hiding = @ - 1]
  /\ UNCHANGED <<bodyLocked, drop, hoverMenu, select, list, tabs, fab>>

-----------------------------------------------------------------------------
MenusInit == /\ DropInit /\ HoverInit /\ SelectInit /\ ListInit /\ TabsInit
             /\ FabInit /\ CardInit

DropNext ==
  \/ \E d \in Menus : ClickDropdown(d) \/ DropdownFaded(d)
  \/ \E d \in Menus, event \in {"open", "close"} : TriggerDropdown(d, event)
  \/ ClickElsewhere
  \/ \E to \in {"button", "menu", "away"} : MovePointer(to)
  \/ \E event \in {"open", "close"} : TriggerHover(event)

SelectNext ==
  \/ LeaveSelects
  \/ \E b \in Boxes : ClickSelect(b) \/ SelectFaded(b) \/ EnterKey(b)
  \/ \E b \in Boxes, row \in 0..Options + 1 : FocusSelect(b, row) \/ LetterKey(b, row)
  \/ \E b \in Boxes, i \in Option : ChooseOption(b, i)
  \/ \E b \in Boxes, byKey \in BOOLEAN : ClickHeading(b, byKey)
  \/ \E b \in Boxes, key \in {"tab", "esc", "down", "up"} : SelectKey(b, key)
  \/ \E b \in Boxes, yes \in BOOLEAN : HoverOptions(b, yes) \/ RebuildSelect(b, yes)

PanelNext ==
  \/ \E i \in 1..Panels : ClickHeader(i) \/ PanelSlid(i) \/ ClickTab(i)
  \/ \E i \in 1..Panels, edge \in {"left", "right"} : IndicatorMoved(edge, i)
  \/ ResizeTabs

MenusNext ==
  \/ DropNext \/ SelectNext \/ PanelNext
  \/ OpenFAB \/ CloseFAB \/ FabAnimated \/ RevealCard \/ HideCard \/ CardHidden

-----------------------------------------------------------------------------
(* Properties *)

\* A menu opened by a click has its handler on the document, so that the next
\* click elsewhere closes it; hence a page never shows two such menus, though
\* the click that opens the second one runs the handler of the first.
ClickedMenuCloses ==
  LET clicked == drop.active \ drop.byEvent
  IN /\ \A d \in clicked : drop.outside[d] > 0
     /\ Cardinality(clicked) <= 1

\* At most one select box shows its options, whatever opened them: focus, a
\* click, a key or a choice in the other box, while an earlier list fades.
OneListOpen == Cardinality({b \in Boxes : select[b].active}) <= 1

\* In a box of several options without headings the script's list of chosen
\* values, the marked rows and what the form submits, which are the selected
\* options that are not disabled, agree after any sequence of clicks, keys and
\* rebuilds.
SelectBoxAgrees ==
  \A b \in Boxes :
    (select[b].ready /\ select[b].multiple /\ select[b].shift = 0) =>
       /\ ToSet(select[b].values) = select[b].chosen \ select[b].disabled
       /\ select[b].marked = select[b].chosen \ select[b].disabled

\* Whatever the order of clicks and animations, one panel of an accordion is
\* open at a time, and exactly the active tab's content is shown.
OnePanelShown ==
  /\ list.accordion => Cardinality(list.body \cup list.header) <= 1
  /\ list.body = list.panel
  /\ tabs.shown = {tabs.index} /\ tabs.active = {tabs.index}

\* When no animation runs, the floating menu and the back of the card are
\* visible if and only if the last request was to show them.
LastRequestShows ==
  /\ fab.queue = <<>> => fab.shown = fab.active
  /\ card.hiding = 0 => card.display = card.asked
=============================================================================
