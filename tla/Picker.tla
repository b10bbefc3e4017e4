------------------------------- MODULE Picker -------------------------------
(***************************************************************************)
(* The date picker: an input, a hidden input that is submitted in its      *)
(* place, and a root that covers the page with the calendar.  On the page  *)
(* "picker" it is started, opened, closed and stopped; on the page         *)
(* "calendar" it stays open and the calendar is used and changed.          *)
(***************************************************************************)
EXTENDS Calendar

CONSTANTS DefaultTheme,   \* the root is fixed: opening locks the page's scroll
          PickerLimits,   \* <<min, max>> in the settings, on the page "picker"
          CalendarLimits, \* the same on the page "calendar"
          Mins, Maxs,     \* limits set there later
          Units,          \* dates disabled or enabled there
          MaxUnits,       \* bound: length of disable
          MaxTimers       \* bound: timers set

ASSUME PickerAssumption ==
  /\ DefaultTheme \in BOOLEAN /\ MaxUnits \in Nat /\ MaxTimers \in Nat
  /\ PickerLimits \in Dates \X Dates /\ CalendarLimits \in Dates \X Dates
  /\ Mins \subseteq Dates /\ Maxs \subseteq Dates /\ Units \subseteq Unit

VARIABLES picker,  \* the state of the picker and of the elements it handles
          cal      \* the item of its component

pickerVars == <<picker, cal>>

\* timers are the timeouts set, all of 0 ms and so in order.  toOpen: focus on
\* the root opens the picker; bound: the input has the picker's handlers;
\* listening: the document has; buttons, today: the buttons Clear and Close, and
\* Today, are enabled.  tall: the page has a scrollbar, pad is the padding given
\* to html for it.  moved remembers that limits or disabled dates set later moved
\* the selection, kept that the input kept a date outside the limits when the
\* picker started, stray a highlight set while no date was enabled, hasty a
\* picker started before the handlers of the one before it were taken away,
\* resized a change of tall while the picker was open.
Stopped == [started |-> FALSE, open |-> FALSE, opened |-> FALSE, active |-> FALSE,
            focus |-> "page", locked |-> FALSE, pad |-> 0, tall |-> FALSE,
            resized |-> FALSE, listening |-> FALSE, toOpen |-> FALSE,
            timers |-> <<>>, bound |-> FALSE, buttons |-> FALSE,
            today |-> FALSE, value |-> NoDate, hidden |-> NoDate, moved |-> FALSE,
            kept |-> FALSE, stray |-> FALSE, hasty |-> FALSE]

InUse == page \cap {"picker", "calendar"} # {} /\ UNCHANGED <<page, bodyLocked>>
OnPicker == On("picker") /\ UNCHANGED bodyLocked
OnCalendar == On("calendar") /\ UNCHANGED bodyLocked

-----------------------------------------------------------------------------
(* Opening and closing                                                     *)

\* getScrollbarWidth, in units of it.
ScrollbarWidth(p) == IF p.tall THEN 1 ELSE 0

Opening(p) ==
  IF p.open THEN p
  ELSE [p EXCEPT !.active = TRUE, !.timers = Append(@, "open"), !.open = TRUE,
                 !.locked = DefaultTheme, !.focus = "root", !.listening = TRUE,
                 !.pad = IF DefaultTheme THEN @ + ScrollbarWidth(p) ELSE @,
                 !.buttons = TRUE, !.today = TRUE]

\* open(false): the root is shown, and that is all.
OpeningUnfocused(p) ==
  IF p.open THEN p
  ELSE [p EXCEPT !.active = TRUE, !.timers = Append(@, "open"),
                 !.buttons = TRUE, !.today = TRUE]

\* focus() runs the handlers even when the root has the focus already.
FocusRoot(p) ==
  LET q == [p EXCEPT !.focus = "root"] IN IF p.toOpen THEN Opening(q) ELSE q

\* A padding below zero is not accepted.
Closing(p, giveFocus) ==
  LET q == IF giveFocus
           THEN [p EXCEPT !.toOpen = FALSE, !.focus = "root",
                          !.timers = Append(@, "bind")]
           ELSE p
      r == [q EXCEPT !.active = FALSE, !.timers = Append(@, "close")]
  IN IF ~p.open THEN r
     ELSE [r EXCEPT !.open = FALSE, !.locked = FALSE, !.listening = FALSE,
                    !.buttons = FALSE, !.today = FALSE,
                    !.pad = IF DefaultTheme /\ @ >= ScrollbarWidth(p)
                            THEN @ - ScrollbarWidth(p) ELSE @]

\* A timeout acts on the root it was set for, or on the input.
Timeout ==
  /\ OnPicker
  /\ picker.timers # <<>>
  /\ LET p == [picker EXCEPT !.timers = Tail(@)]
         timer == Head(picker.timers)
     IN picker' = [p EXCEPT
          !.opened = IF timer \in {"open", "close"} THEN timer = "open" ELSE @,
          !.toOpen = @ \/ timer = "bind",
          !.bound = @ /\ timer # "unbind",
          !.hasty = @ \/ (timer = "unbind" /\ p.started)]
  /\ UNCHANGED cal

-----------------------------------------------------------------------------
(* The selection and the two inputs                                        *)

\* set('select') and set('clear') write the input; its change handler writes
\* the hidden input.  The inputs are given as dates: FormatAssumption says that
\* what is written to them is read back as the same date.
Written(p, date) ==
  [p EXCEPT !.value = date, !.hidden = IF p.bound THEN date ELSE @,
            !.moved = FALSE, !.kept = FALSE]

\* Some date within the limits is enabled, and validate can find it: it looks for
\* no range when all but what disable holds is disabled.
CanSettle(c) ==
  /\ \E d \in c.min..c.max : ~Disabled(c, d)
  /\ c.flipped => \A i \in DOMAIN c.units : c.units[i].kind # "range"

\* render with the component c.
Drawn(p, c) ==
  [p EXCEPT !.buttons = p.open, !.today = p.open /\ ~Disabled(c, Today)]

\* The component goes from c to d; only a new highlight sets the view.
Viewed(p, c, d) == [Drawn(p, d) EXCEPT !.stray = IF c.highlight = d.highlight THEN @ \/ ~CanSettle(d)
                                       ELSE ~CanSettle(d)]

ViewWith(p, c) == cal' = c /\ picker' = Viewed(p, cal, c)

Picked(p, c) == cal' = c /\ picker' = Written(Viewed(p, cal, c), c.select)

SelectWith(p, d) == Picked(p, SetSelect(cal, d))

ClearWith(p) ==
  /\ cal' = [cal EXCEPT !.select = NoDate]
  /\ picker' = Drawn(p, cal)

-----------------------------------------------------------------------------
(* Starting and stopping                                                   *)

Settings == IF "calendar" \in page THEN CalendarLimits ELSE PickerLimits

Started(p, c) ==
  LET q == [p EXCEPT !.started = TRUE, !.open = FALSE, !.opened = FALSE,
                     !.toOpen = TRUE, !.bound = TRUE, !.buttons = FALSE,
                     !.today = FALSE,
                     !.hidden = IF p.value = NoDate THEN NoDate ELSE c.select,
                     !.kept = c.select # p.value, !.moved = FALSE, !.hasty = FALSE,
                     !.stray = ~CanSettle(c)]
  IN IF p.focus = "element" THEN Opening(q) ELSE q

StartWith(c) == cal' = c /\ picker' = Started(picker, c)

PickerInit ==
  LET c == NewCalendar(Settings[1], Settings[2], NoDate)
      calendar == [Started([Stopped EXCEPT !.focus = "element"], c) EXCEPT
                     !.timers = <<>>, !.opened = TRUE]
  IN /\ cal = c
     /\ picker = IF "calendar" \in page THEN calendar
                 ELSE [Stopped EXCEPT !.stray = ~CanSettle(c)]

StartPicker ==
  /\ OnPicker
  /\ ~picker.started
  /\ StartWith(NewCalendar(Settings[1], Settings[2], picker.value))

\* The root goes with its handlers and its timers, the handlers of the input
\* in a timeout.
StopPicker ==
  /\ OnPicker
  /\ picker.started /\ Len(picker.timers) < MaxTimers
  /\ LET p == Closing(picker, FALSE)
     IN picker' = [p EXCEPT
          !.started = FALSE, !.opened = FALSE, !.toOpen = FALSE,
          !.hidden = NoDate, !.moved = FALSE,
          !.focus = IF @ = "root" THEN "page" ELSE @,
          !.timers = [i \in 1..Cardinality({k \in DOMAIN @ : @[k] = "unbind"}) + 1 |->
                        "unbind"]]
  /\ UNCHANGED cal

\* The input without a picker is typed into.
TypeDate(d) ==
  /\ OnPicker
  /\ ~picker.started /\ picker.focus = "element"
  /\ picker' = [picker EXCEPT !.value = d]
  /\ UNCHANGED cal

-----------------------------------------------------------------------------
(* Pointer, keys, and the page's calls                                     *)

Usable == picker.started /\ Len(picker.timers) < MaxTimers

\* A click gives the input the focus, which its handlers pass to the root.
ClickElement ==
  /\ OnPicker
  /\ Len(picker.timers) < MaxTimers
  /\ picker' = IF picker.started /\ picker.bound THEN FocusRoot(picker)
               ELSE [picker EXCEPT !.focus = "element"]
  /\ UNCHANGED cal

\* A click or the focus elsewhere on the page.
LeavePicker ==
  /\ OnPicker
  /\ Len(picker.timers) < MaxTimers
  /\ LET p == IF picker.listening THEN Closing(picker, FALSE) ELSE picker
     IN picker' = [p EXCEPT !.focus = "page"]
  /\ UNCHANGED cal

\* A click on the holder around the calendar bubbles to the document.
ClickHolder ==
  /\ OnPicker
  /\ Usable /\ picker.opened
  /\ LET p == IF picker.focus = "root" THEN picker ELSE FocusRoot(picker)
     IN picker' = IF p.listening THEN Closing(p, TRUE) ELSE p
  /\ UNCHANGED cal

\* The buttons Clear and Close.
ClickClear ==
  /\ OnPicker
  /\ Usable /\ picker.opened /\ picker.buttons
  /\ ClearWith(Closing(Written(FocusRoot(picker), NoDate), TRUE))

ClickClose ==
  /\ OnPicker
  /\ Usable /\ picker.opened /\ picker.buttons
  /\ picker' = Closing(FocusRoot(picker), TRUE)
  /\ UNCHANGED cal

\* A click on a day that is not disabled.
ClickDay(d) ==
  /\ InUse
  /\ Usable /\ picker.opened
  /\ d \in Cells(cal) \cap Dates /\ ~CellDisabled(cal, d)
  /\ SelectWith(FocusRoot(picker), d)

\* The button Today: opening enables it even when today is disabled.
ClickToday ==
  /\ InUse
  /\ Usable /\ picker.opened /\ picker.today
  /\ SelectWith(FocusRoot(picker), Today)

ClickNav(nav) ==
  /\ OnCalendar
  /\ ~NavDisabled(cal, nav) /\ MonthOf(cal.highlight) \in DOMAIN Months
  /\ ViewWith(FocusRoot(picker), SetHighlight(cal, cal.highlight, nav, 1))

SelectMonth(month) ==
  /\ OnCalendar
  /\ MonthOf(cal.highlight) \in DOMAIN Months
  /\ month \in MonthOptions(cal) \ {cal.view}
  /\ ViewWith(picker, ChooseMonth(cal, month))

HasKeys == Usable /\ picker.focus = "root"

\* The handler of the root comes first: Escape, space, delete, and an arrow
\* while the picker is closed go no further.
EscapePicker == OnPicker /\ HasKeys /\ picker' = Closing(picker, FALSE) /\ UNCHANGED cal

PressSpace == OnPicker /\ HasKeys /\ picker' = Opening(picker) /\ UNCHANGED cal

PressDelete ==
  /\ OnPicker
  /\ HasKeys
  /\ ClearWith(Closing(Written(picker, NoDate), FALSE))

PressArrow(interval) ==
  /\ InUse
  /\ HasKeys
  /\ \/ ~picker.open /\ picker' = Opening(picker) /\ UNCHANGED cal
     \/ /\ picker.open /\ picker.listening
        /\ cal.highlight + interval \in Dates
        /\ ViewWith(picker, SetHighlight(cal, cal.highlight + interval, 0, interval))

\* Enter selects the date highlighted unless its cell is drawn as disabled.
PressEnter ==
  /\ OnPicker
  /\ HasKeys /\ picker.listening
  /\ cal.highlight \in Cells(cal) => ~CellDisabled(cal, cal.highlight)
  /\ SelectWith(Closing(picker, FALSE), cal.highlight)

\* picker.open(), picker.open(false), picker.close(giveFocus).
CallOpen(focusing) ==
  /\ OnPicker
  /\ Usable
  /\ picker' = IF focusing THEN Opening(picker) ELSE OpeningUnfocused(picker)
  /\ UNCHANGED cal

CallClose(giveFocus) ==
  /\ OnPicker
  /\ Usable
  /\ picker' = Closing(picker, giveFocus)
  /\ UNCHANGED cal

\* The page's content grows beyond the window or shrinks to fit.
Resize ==
  /\ OnPicker
  /\ ~picker.resized
  /\ picker' = [picker EXCEPT !.tall = ~@, !.resized = picker.open]
  /\ UNCHANGED cal

\* set with a limit or with disabled dates: the calendar is drawn again,
\* but the input keeps its date when the selection moves.
Change(c) ==
  /\ cal' = c
  /\ picker' = [Viewed(picker, cal, c) EXCEPT !.moved = @ \/ c.select # cal.select]

CallSetLimit ==
  /\ OnCalendar
  /\ \/ \E d \in Mins : d <= cal.max /\ Change(SetMin(cal, d))
     \/ \E d \in Maxs : d >= cal.min /\ Change(SetMax(cal, d))

CallSetDisabled ==
  /\ OnCalendar
  /\ \/ \E u \in Units :
          /\ Len(cal.units) < MaxUnits
          /\ Change(Disable(cal, u)) \/ Change(Enable(cal, u))
     \/ \E all \in BOOLEAN : Change(DisableAll(cal, all))
     \/ Change(Flip(cal))

\* picker.set('select', d) with a date that cannot be clicked.
CallSetSelect(d) ==
  /\ OnCalendar
  /\ CellDisabled(cal, d)
  /\ SelectWith(picker, d)

CallClear ==
  /\ OnCalendar
  /\ ClearWith(Written(picker, NoDate))

-----------------------------------------------------------------------------
PickerNext ==
  \/ Timeout \/ StartPicker \/ StopPicker
  \/ ClickElement \/ LeavePicker \/ ClickHolder \/ ClickClear \/ ClickClose
  \/ ClickToday \/ Resize
  \/ EscapePicker \/ PressSpace \/ PressDelete \/ PressEnter
  \/ \E d \in Dates : ClickDay(d) \/ CallSetSelect(d)
  \/ \E d \in {NoDate} \cup Dates : TypeDate(d)
  \/ \E i \in {-Week, -1, 1, Week} : PressArrow(i)
  \/ \E nav \in {-1, 1} : ClickNav(nav)
  \/ \E m \in DOMAIN Months : SelectMonth(m)
  \/ \E focus \in BOOLEAN : CallOpen(focus) \/ CallClose(focus)
  \/ CallSetLimit \/ CallSetDisabled \/ CallClear

-----------------------------------------------------------------------------
(* Properties *)

\* When the timeouts have acted the picker shows what was asked for last: the
\* root is shown exactly when the input is marked active, focus opens it, and
\* the input keeps its handlers unless the picker was stopped and started again
\* within a timeout (open, close, stop).
PickerShownAsAsked ==
  picker.started =>
    /\ picker.open => picker.active
    /\ picker.timers = <<>> =>
         /\ picker.opened = picker.active /\ picker.toOpen
         /\ picker.bound \/ picker.hasty

\* The page's scroll is locked, and the document watched, exactly while the
\* picker is open, whichever way it was opened and closed or stopped; and its
\* padding returns to what it was unless the page's scrollbar came or went.
PickerLockHasOwner ==
  /\ picker.locked = (picker.open /\ DefaultTheme)
  /\ picker.listening = picker.open
  /\ ~picker.open => picker.pad = 0 \/ picker.resized

\* While an enabled date is left, a disabled one is never selected, whatever
\* limits and dates were set after it was; the month in view is the one of the
\* date highlighted; what is submitted is the date selected unless limits or
\* disabled dates set later moved it, or the handlers of an earlier picker were
\* taken from the input; and so is what is shown, unless those moved it or the
\* picker started on an input whose date the limits exclude, which goes on
\* showing that date until another is chosen.
DateSelectionAgrees ==
  /\ CanSettle(cal) =>
       /\ cal.select # NoDate => ~Disabled(cal, cal.select)
       /\ cal.view = MonthOf(cal.highlight) \/ picker.stray
  /\ picker.started =>
       /\ picker.value = cal.select \/ picker.moved \/ picker.kept
       /\ picker.hidden = cal.select \/ picker.moved \/ picker.hasty
=============================================================================
