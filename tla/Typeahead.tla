----------------------------- MODULE Typeahead -----------------------------
(***************************************************************************)
(* The search box of the archived application: the input with its hint,    *)
(* the menu and its data set, and the controller that ties them together   *)
(* (typeahead.js), fed by the substring matcher of ld.js or by a           *)
(* suggestion engine that answers twice, at once and later.                *)
(*                                                                         *)
(* A text is a sequence of letters.  The state is one record; a handler of *)
(* the code is an operator from the state to the state it leaves, and an   *)
(* action is an event run to its end through all handlers it triggers.     *)
(* Page handlers do not prevent the before- events.                        *)
(***************************************************************************)
EXTENDS Integers, Sequences, FiniteSets, SequencesExt, Ranks

CONSTANTS Letters,
          Blank,       \* the letter that is white space
          Dot,         \* the letter that matches any in a regular expression
          Paren,       \* a letter that makes it invalid, as ( or [ alone do
          Texts,       \* what the user or the page may enter
          Local,       \* the suggestions known at once, in order
          Remote,      \* those that come later
          Limit,       \* options limit and minLength
          MinLength,
          Width,       \* longest text the input shows without overflow
          Sources,     \* "substring" (ld.js) or "engine" (Bloodhound)
          MaxPending   \* bound: answers under way

ASSUME TypeaheadAssumption ==
  /\ Limit \in Nat \ {0} /\ MinLength \in Nat /\ Width \in Nat
  /\ MaxPending \in Nat /\ Sources \subseteq {"substring", "engine"}
  /\ {Blank, Dot, Paren} \subseteq Letters /\ Paren \notin {Blank, Dot}
  /\ Texts \subseteq Seq(Letters)
  /\ Local \in Seq(Seq(Letters)) /\ Remote \in Seq(Seq(Letters))

\* asked is {} or {menu.query}; cursor the index of the item under it (0:
\* none); pending the callbacks async of earlier updates; message the notFound
\* template; unasked: the menu was opened and has not been asked since.
VARIABLE ta

-----------------------------------------------------------------------------
(* The source of suggestions.                                              *)

\* White space goes in front of a text, and shrinks to one blank within.
Normalize(s) ==
  ElementsAt(s, {i \in DOMAIN s : s[i] # Blank \/ (i > 1 /\ s[i - 1] # Blank)})

\* new RegExp(q, 'i').test(s), for a q of letters and dots.
RegExpTest(q, s) ==
  \E i \in 0..Len(s) - Len(q) :
    \A j \in 1..Len(q) : q[j] = Dot \/ q[j] = s[i + j]

FindMatches(q) == ElementsAt(Local, {i \in DOMAIN Local : RegExpTest(q, Local[i])})

Suggested(from, q) ==
  ElementsAt(from, {i \in DOMAIN from : IsPrefix(Normalize(q), from[i])})

IsAsync(w) == w.source = "engine"

\* The matcher of ld.js makes a pattern of the query as it is.
Throws(w, q) == ~IsAsync(w) /\ Paren \in ToSet(q)

SyncSuggestions(w, q) == IF IsAsync(w) THEN Suggested(Local, q) ELSE FindMatches(q)

\* What processRemote passes on: the remote suggestions not known at once.
NonDuplicates(q) ==
  LET late == Suggested(Remote, q)
  IN ElementsAt(late, {i \in DOMAIN late : late[i] \notin ToSet(Suggested(Local, q))})

\* Array.prototype.slice(0, n), where a negative n counts from the end.
Slice(s, n) == SubSeq(s, 1, Min({Len(s), IF n < 0 THEN Len(s) + n ELSE n}))

-----------------------------------------------------------------------------
(* The input and its hint.                                                 *)

HasOverflow(w) == Len(w.value) > Width

\* Mutant: the hint is kept as long as there is text.
ClearHintIfEmpty(w) ==
  IF w.value # <<>> /\ ~HasOverflow(w) THEN w ELSE [w EXCEPT !.hint = <<>>]

ClearHintIfInvalid(w) ==
  IF w.value # <<>> /\ IsStrictPrefix(w.value, w.hint) /\ ~HasOverflow(w)
  THEN w ELSE [w EXCEPT !.hint = <<>>]

SetInputValue(w, value) == ClearHintIfInvalid([w EXCEPT !.value = value])
ResetInputValue(w) == SetInputValue(w, w.query)

\* When the top suggestion does not begin with the query the hint stays.
UpdateHint(w) ==
  LET query == Normalize(w.value)
  IN IF w.items = <<>> \/ query = <<>> \/ HasOverflow(w)
     THEN [w EXCEPT !.hint = <<>>]
     ELSE LET top == w.items[1].text
          IN IF IsStrictPrefix(query, top)
             THEN [w EXCEPT !.hint =
                     w.value \o SubSeq(top, Len(query) + 1, Len(top))]
             ELSE w

-----------------------------------------------------------------------------
(* The menu and its data set.                                              *)

IsEmpty(w) == w.items = <<>> /\ ~w.message

\* A render or clear event of the data set, up to the controller.
Rendered(w) == UpdateHint([w EXCEPT !.shown = ~IsEmpty(w) /\ (@ \/ w.open)])

\* Where highlight() wraps the pattern: its matches from the left, each behind
\* the end of the one before.
Highlight(text, pattern) ==
  LET occurs(i) == /\ pattern # <<>> /\ i + Len(pattern) - 1 <= Len(text)
                   /\ SubSeq(text, i, i + Len(pattern) - 1) = pattern
      marks[i \in 0..Len(text)] ==
        IF i = 0 THEN {}
        ELSE marks[i - 1] \cup
               {j \in {i} : occurs(j) /\ \A m \in marks[i - 1] : m + Len(pattern) <= j}
  IN marks[Len(text)]

Items(q, found) ==
  [i \in DOMAIN found |-> [text |-> found[i], q |-> q,
                           marks |-> Highlight(found[i], q)]]

Cancel(w) == [w EXCEPT !.pending = [k \in DOMAIN @ |->
                                      [@[k] EXCEPT !.canceled = TRUE]]]

\* Dataset.update: cancels the update before, shows what is known at once.  A
\* source that throws leaves the items as they are, under the menu's new query.
UpdateDataset(w, q) ==
  IF Throws(w, q) THEN Cancel(w)
  ELSE
  LET found == Slice(SyncSuggestions(w, q), Limit)
      asks == IF IsAsync(w)
              THEN <<[q |-> q, rendered |-> Len(found), canceled |-> FALSE]>>
              ELSE <<>>
  IN Rendered([Cancel(w) EXCEPT
       !.items = Items(q, found), !.cursor = 0,
       !.message = found = <<>> /\ ~IsAsync(w), !.pending = @ \o asks])

\* Mutant: an answer to a canceled update is rendered.
ReceiveLate(w, ask, suggestions) ==
  IF ask.rendered >= Limit THEN w
  ELSE LET rendered == ask.rendered + Len(suggestions)
           more == Items(ask.q, Slice(suggestions, Limit - rendered))
       IN Rendered([w EXCEPT !.items = @ \o more,
                             !.message = (@ \/ w.items = <<>>) /\ more = <<>>])

\* Dataset's async: rendered already counts the suggestions to be appended.
ReceiveAsync(w, ask, suggestions) ==
  IF ask.canceled \/ ask.rendered >= Limit THEN w
  ELSE LET rendered == ask.rendered + Len(suggestions)
           more == Items(ask.q, Slice(suggestions, Limit - rendered))
       IN Rendered([w EXCEPT !.items = @ \o more,
                             !.message = (@ \/ w.items = <<>>) /\ more = <<>>])

MenuUpdate(w, q) ==
  LET own == [w EXCEPT !.unasked = FALSE]
  IN IF w.asked = {q} THEN own ELSE UpdateDataset([own EXCEPT !.asked = {q}], q)

MenuEmpty(w) ==
  [Rendered([Cancel(w) EXCEPT !.items = <<>>, !.message = FALSE, !.cursor = 0])
     EXCEPT !.asked = {}, !.unasked = FALSE]

-----------------------------------------------------------------------------
(* The controller.                                                         *)

MinLengthMet(w) == Len(w.query) >= MinLength

Open(w) ==
  IF w.open THEN w
  ELSE UpdateHint([w EXCEPT !.open = TRUE, !.shown = @ \/ ~IsEmpty(w),
                            !.unasked = TRUE])

\* Mutant: the input keeps the suggestion that was under the cursor.
CloseOnly(w) ==
  IF ~w.open THEN w
  ELSE [w EXCEPT !.open = FALSE, !.shown = FALSE, !.cursor = 0, !.hint = <<>>,
                 !.unasked = FALSE]

Close(w) ==
  IF ~w.open THEN w
  ELSE ResetInputValue([w EXCEPT !.open = FALSE, !.shown = FALSE, !.cursor = 0,
                                 !.hint = <<>>, !.unasked = FALSE])

OpenIfActive(w) == IF w.active THEN Open(w) ELSE w

OnQueryChanged(w) == IF MinLengthMet(w) THEN MenuUpdate(w, w.query) ELSE MenuEmpty(w)

\* _setQuery, not silent: a change of white space only moves the hint.
SetQuery(w, query) ==
  LET set == [w EXCEPT !.query = query]
  IN IF Normalize(query) # Normalize(w.query)
     THEN OnQueryChanged(OpenIfActive(set))
     ELSE IF Len(query) # Len(w.query) THEN UpdateHint(OpenIfActive(set)) ELSE set

Activate(w) == [w EXCEPT !.active = @ \/ w.enabled]
Deactivate(w) == IF w.active THEN Close([w EXCEPT !.active = FALSE]) ELSE w

Select(w, text) == Close([SetInputValue(w, text) EXCEPT !.query = text])

AutocompleteTo(w, text) ==
  IF w.query = text THEN w ELSE SetQuery(SetInputValue(w, text), text)

Autocomplete(w) == IF w.items = <<>> THEN w ELSE AutocompleteTo(w, w.items[1].text)

\* The cursor wraps around through "none"; a menu that asks anew stays put.
MoveCursor(w, delta) ==
  LET at == (w.cursor + delta) % (Len(w.items) + 1)
      moved == [w EXCEPT !.cursor = at]
  IN IF MinLengthMet(w) /\ w.asked # {w.query}
     THEN MenuUpdate(w, w.query)
     ELSE IF at # 0 THEN SetInputValue(moved, w.items[at].text)
          ELSE UpdateHint(ResetInputValue(moved))

-----------------------------------------------------------------------------
Fresh(source) ==
  [source |-> source, attached |-> TRUE, enabled |-> TRUE, active |-> FALSE,
   focus |-> FALSE, value |-> <<>>, query |-> <<>>, hint |-> <<>>,
   open |-> FALSE, shown |-> FALSE, asked |-> {}, items |-> <<>>,
   message |-> FALSE, cursor |-> 0, pending |-> <<>>, unasked |-> FALSE]

TypeaheadInit == \E source \in Sources : ta = Fresh(source)

Becomes(w) == ta.attached /\ Len(w.pending) <= MaxPending /\ ta' = w

Focus ==
  /\ ~ta.focus
  /\ LET active == Activate([ta EXCEPT !.focus = TRUE])
         open == Open(active)
     IN Becomes(IF ~active.active THEN active
                ELSE IF MinLengthMet(open) THEN MenuUpdate(open, open.query)
                ELSE open)

Blur ==
  /\ ta.focus
  /\ Becomes(Deactivate([ResetInputValue(ta) EXCEPT !.focus = FALSE]))

\* The user edits the text.  An update that throws ends the handler, and only
\* here does the handler have more to do.
Type(text) ==
  /\ ta.focus /\ text # ta.value
  /\ LET typed == SetQuery([ta EXCEPT !.value = text], text)
         threw == typed.asked # ta.asked /\ \E q \in typed.asked : Throws(ta, q)
     IN Becomes(IF threw THEN typed ELSE ClearHintIfInvalid(typed))

EnterKeyed ==
  /\ ta.focus /\ ta.active /\ ta.open
  /\ ta.cursor # 0
  /\ Becomes(Select(ta, ta.items[ta.cursor].text))

TabKeyed ==
  /\ ta.focus /\ ta.active /\ ta.open
  /\ Becomes(IF ta.cursor # 0 THEN Select(ta, ta.items[ta.cursor].text)
             ELSE Autocomplete(ta))

EscKeyed ==
  /\ ta.focus /\ ta.active
  /\ Becomes(Close(ta))

ArrowKeyed(delta) ==
  /\ ta.focus /\ ta.active
  /\ Becomes(MoveCursor(Open(ta), delta))

\* The right arrow with the caret at the end of the text.
RightKeyed ==
  /\ ta.focus /\ ta.active /\ ta.open
  /\ Becomes(Autocomplete(ta))

ClickSelectable(i) ==
  /\ ta.shown /\ i \in DOMAIN ta.items
  /\ Becomes(Select(ta, ta.items[i].text))

\* The source answers an earlier update, or fails.
AsyncSuggestions(k, fails) ==
  /\ k \in DOMAIN ta.pending
  /\ Becomes(ReceiveAsync([ta EXCEPT !.pending = RemoveAt(@, k)], ta.pending[k],
                          IF fails THEN <<>> ELSE NonDuplicates(ta.pending[k].q)))

\* typeahead('val', text), and the other methods the page may call: those that
\* take an item of the menu do so whether it is shown or not, and moveCursor
\* does not ask whether the menu is open.
SetVal(text) == Becomes(SetQuery(SetInputValue(ta, text), text))

CallMethod(method) ==
  Becomes(CASE method = "open" -> Open(ta)
            [] method = "close" -> Close(ta)
            [] method = "activate" -> Activate(ta)
            [] method = "deactivate" -> Deactivate(ta)
            [] method = "enable" -> [ta EXCEPT !.enabled = TRUE]
            [] method = "disable" -> [ta EXCEPT !.enabled = FALSE])

CallSelect(i) == i \in DOMAIN ta.items /\ Becomes(Select(ta, ta.items[i].text))

CallAutocomplete(i) ==
  /\ i \in DOMAIN ta.items
  /\ Becomes(AutocompleteTo(ta, ta.items[i].text))

CallMoveCursor(delta) == Becomes(MoveCursor(ta, delta))

\* destroy reverts the input, and the page may call typeahead() again; late
\* answers then reach the detached data set.
Destroy == ta.attached /\ ta' = [Fresh(ta.source) EXCEPT !.attached = FALSE]

Initialize == ~ta.attached /\ ta' = Fresh(ta.source)

TypeaheadNext ==
  \/ Focus \/ Blur \/ EnterKeyed \/ TabKeyed \/ EscKeyed \/ RightKeyed
  \/ \E text \in Texts : Type(text) \/ SetVal(text)
  \/ \E delta \in {-1, 1} : ArrowKeyed(delta) \/ CallMoveCursor(delta)
  \/ \E i \in 1..Limit : ClickSelectable(i) \/ CallSelect(i) \/ CallAutocomplete(i)
  \/ \E k \in 1..MaxPending, fails \in BOOLEAN : AsyncSuggestions(k, fails)
  \/ \E method \in {"open", "close", "activate", "deactivate", "enable", "disable"} :
       CallMethod(method)
  \/ Destroy \/ Initialize

-----------------------------------------------------------------------------
(* Properties *)

\* highlight() marks every occurrence of the query in a suggestion or one that
\* overlaps it, and its marks do not overlap.
Marked(it) ==
  LET end(m) == m + Len(it.q) - 1
      occurs(a) == it.q # <<>> /\ SubSeq(it.text, a, end(a)) = it.q
  IN /\ \A m \in it.marks : occurs(m) /\ \A n \in it.marks : m < n => end(m) < n
     /\ \A a \in 1..Len(it.text) + 1 - Len(it.q) :
          occurs(a) => \E m \in it.marks : m <= end(a) /\ a <= end(m)

\* Every suggestion in the menu answers the query the menu was last updated
\* with and is marked for it: an answer that comes after the next query, a
\* clear or a destroy is never mixed with the new ones, nor do the answers of
\* both kinds together exceed the limit.  Not so for a query the matcher throws
\* on: the menu keeps the suggestions of the query before.
ItemsOfQuery ==
  /\ Len(ta.items) <= Limit
  /\ \A i \in DOMAIN ta.items :
       /\ ta.items[i].q \in ta.asked \/ \E q \in ta.asked : Throws(ta, q)
       /\ Marked(ta.items[i])

\* The hint, drawn behind the input, begins with the text in the input: what
\* the user typed never sits on a text that does not continue it.  Not so for a
\* text the matcher throws on, which keeps the hint of the text before.
HintExtendsInput ==
  ta.hint # <<>> => IsStrictPrefix(ta.value, ta.hint) \/ Throws(ta, ta.value)

\* Through selections, completions and changes of focus an open menu was last
\* updated with the query of the input, unless it was opened without being asked:
\* by the page, for too short a query, or for a blank typed in front of a
\* suggestion that was picked.  Open or closed, the cursor is on an item of the
\* menu, and the text in the input is the query or the suggestion under the
\* cursor: a move of the cursor is never half undone.
InputOfMenu ==
  /\ (ta.open /\ ~ta.unasked) =>
        IF ta.asked = {} THEN Len(Normalize(ta.query)) < MinLength
        ELSE \E q \in ta.asked : Normalize(q) = Normalize(ta.query)
  /\ ta.cursor # 0 => ta.cursor \in DOMAIN ta.items
  /\ \/ Normalize(ta.value) = Normalize(ta.query)
     \/ ta.cursor # 0 /\ ta.value = ta.items[ta.cursor].text
=============================================================================
