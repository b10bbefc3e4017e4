--------------------------- MODULE SearchBoxProofs ---------------------------
(***************************************************************************)
(* Proofs about the search box.  Its input and menu: the hint continues    *)
(* the text in the input, and an open menu belongs to its query; BoxInv is *)
(* the inductive invariant, every handler gets a lemma of what it leaves   *)
(* alone and what it leaves, and every event a lemma that composes its     *)
(* handlers.  Its engine: a search of the index finds what was added, the  *)
(* prefetched data are those of the deployment they say they are of, the   *)
(* pool of requests that all searches share is counted right, and the      *)
(* cache is one list.                                                      *)
(***************************************************************************)
EXTENDS SearchBox, RankTheorems, SequenceTheorems

-----------------------------------------------------------------------------
(* Texts and their elements.                                               *)

Text == Seq(Letters)

\* Normalizing a text makes it no longer.
LEMMA NormalizeShorter ==
  ASSUME NEW s \in Text
  PROVE  /\ Normalize(s) \in Text /\ Len(Normalize(s)) \in Nat
         /\ Len(Normalize(s)) <= Len(s)
<1> DEFINE P == {i \in DOMAIN s : s[i] # Blank \/ (i > 1 /\ s[i - 1] # Blank)}
<1>1. P \in SUBSET DOMAIN s
  OBVIOUS
<1>2. Normalize(s) = ElementsAt(s, P)
  BY DEF Normalize
<1> HIDE DEF P
<1>3. /\ ElementsAt(s, P) \in Seq(Letters)
      /\ Len(ElementsAt(s, P)) = Cardinality(P) /\ Cardinality(P) <= Len(s)
  BY <1>1, ElementsAtSeq DEF Text
<1> QED
  BY <1>2, <1>3, LenProperties DEF Text

\* A text continued by another that is not empty is a strict prefix of it.
LEMMA Continued ==
  ASSUME NEW S, NEW s \in Seq(S), NEW t \in Seq(S), t # <<>>
  PROVE  IsStrictPrefix(s, s \o t)
<1>1. /\ s \o t \in Seq(S) /\ Len(s \o t) = Len(s) + Len(t)
      /\ Len(s) \in Nat /\ Len(t) \in Nat \ {0}
  BY ConcatProperties, EmptySeq
<1>2. SubSeq(s, 1, Len(s)) = SubSeq(s \o t, 1, Len(s))
  <2>1. CASE s = <<>>
    <3>1. Len(s) < 1 /\ Len(s) \in Int
      BY <2>1
    <3> QED
      BY <3>1, SubSeqEmpty
  <2>2. CASE s # <<>>
    <3>1. 1 \in 1..Len(s) /\ Len(s) \in 1..Len(s)
      BY <2>2, EmptySeq
    <3> QED
      BY <3>1, SubSeqOfConcat1
  <2> QED
    BY <2>1, <2>2
<1>3. s # s \o t
  BY <1>1
<1> QED
  BY <1>1, <1>2, <1>3 DEF IsStrictPrefix, IsPrefix

\* What a text continues another with is not empty.
LEMMA Continuation ==
  ASSUME NEW S, NEW s \in Seq(S), NEW t \in Seq(S), IsStrictPrefix(s, t)
  PROVE  /\ SubSeq(t, Len(s) + 1, Len(t)) \in Seq(S)
         /\ SubSeq(t, Len(s) + 1, Len(t)) # <<>>
<1>1. /\ Len(s) \in Nat /\ Len(t) \in Nat /\ Len(s) <= Len(t)
      /\ SubSeq(s, 1, Len(s)) = SubSeq(t, 1, Len(s)) /\ s # t
  BY DEF IsStrictPrefix, IsPrefix
<1>2. Len(s) # Len(t)
  <2>1. SubSeq(s, 1, Len(s)) = s /\ SubSeq(t, 1, Len(t)) = t
    BY SubSeqFull
  <2> QED
    BY <1>1, <2>1
<1>3. \A i \in Len(s) + 1..Len(t) : t[i] \in S
  BY <1>1
<1>4. /\ SubSeq(t, Len(s) + 1, Len(t)) \in Seq(S)
      /\ Len(SubSeq(t, Len(s) + 1, Len(t))) =
           IF Len(s) + 1 <= Len(t) THEN Len(t) - (Len(s) + 1) + 1 ELSE 0
  <2>1. Len(s) + 1 \in Int /\ Len(t) \in Int
    BY <1>1
  <2> QED
    BY <1>3, <2>1, SubSeqProperties, Zenon
<1>5. Len(SubSeq(t, Len(s) + 1, Len(t))) # 0
  BY <1>1, <1>2, <1>4
<1> QED
  BY <1>4, <1>5

\* A slice of a sequence is one.
LEMMA SliceSeq ==
  ASSUME NEW S, NEW s \in Seq(S), NEW n \in Int
  PROVE  Slice(s, n) \in Seq(S)
<1> DEFINE end == IF n < 0 THEN Len(s) + n ELSE n
           m == Min({Len(s), end})
<1>1. Len(s) \in Nat /\ end \in Int
  OBVIOUS
<1> HIDE DEF end
<1>2. m \in Int /\ m <= Len(s)
  <2>1. \E x \in {Len(s), end} : \A y \in {Len(s), end} : x <= y
    BY <1>1
  <2>2. m \in {Len(s), end} /\ \A y \in {Len(s), end} : m <= y
    BY <2>1 DEF Min
  <2> QED
    BY <1>1, <2>2
<1>3. Slice(s, n) = SubSeq(s, 1, m)
  BY DEF Slice, end
<1> HIDE DEF m
<1>4. \A i \in 1..m : s[i] \in S
  BY <1>1, <1>2
<1> QED
  BY <1>2, <1>3, <1>4, SubSeqProperties

-----------------------------------------------------------------------------
(* The handlers of the box: what each leaves alone and what it leaves.     *)

BoxFields ==
  {"source", "attached", "enabled", "active", "focus", "value", "query", "hint", "open",
   "shown", "asked", "items", "message", "cursor", "pending", "unasked"}

\* u is w but for the fields in X.
Agree(u, w, X) == DOMAIN u = BoxFields /\ \A f \in BoxFields \ X : u[f] = w[f]

HintOk(w) ==
  w.hint # <<>> => IsStrictPrefix(w.value, w.hint) \/ Throws(w, w.value)

Ask == [q : Text, rendered : Nat, canceled : BOOLEAN]

\* A sequence of items, each with a text.
IsItems(items) ==
  /\ items \in Seq(ToSet(items))
  /\ \A i \in DOMAIN items : items[i].text \in Text

BoxType(w) ==
  /\ DOMAIN w = BoxFields
  /\ w.value \in Text /\ w.query \in Text
  /\ IsItems(w.items) /\ w.pending \in Seq(Ask)

\* The first of the items, if any, is one.
LEMMA ItemsFacts ==
  ASSUME NEW items, IsItems(items)
  PROVE  /\ Len(items) \in Nat /\ DOMAIN items = 1..Len(items)
         /\ items # <<>> => 1 \in DOMAIN items /\ items[1].text \in Text
<1>1. items \in Seq(ToSet(items))
  BY DEF IsItems
<1>2. Len(items) \in Nat /\ DOMAIN items = 1..Len(items)
  BY <1>1, LenProperties
<1>3. ASSUME items # <<>> PROVE 1 \in DOMAIN items
  <2>1. Len(items) # 0
    BY <1>1, <1>3, EmptySeq
  <2> QED
    BY <1>2, <2>1
<1> QED
  BY <1>2, <1>3 DEF IsItems

\* Writing the hint writes the hint alone.
LEMMA SetHint ==
  ASSUME NEW w, DOMAIN w = BoxFields, NEW h
  PROVE  /\ Agree([w EXCEPT !.hint = h], w, {"hint"})
         /\ [w EXCEPT !.hint = h].hint = h
BY DEF Agree, BoxFields

\* A hint stays as fitting as it is while nothing is written that it depends on.
LEMMA HintKept ==
  ASSUME NEW w, HintOk(w), NEW X, X \cap {"source", "value", "hint"} = {},
         NEW u, Agree(u, w, X)
  PROVE  HintOk(u)
<1>1. u.hint = w.hint /\ u.value = w.value /\ u.source = w.source
  BY DEF Agree, BoxFields
<1> QED
  BY <1>1 DEF HintOk, Throws, IsAsync

\* A hint that does not fit is cleared.
LEMMA ClearHintFacts ==
  ASSUME NEW w, DOMAIN w = BoxFields
  PROVE  /\ Agree(ClearHintIfInvalid(w), w, {"hint"})
         /\ HintOk(ClearHintIfInvalid(w))
<1>1. /\ Agree([w EXCEPT !.hint = <<>>], w, {"hint"}) /\ [w EXCEPT !.hint = <<>>].hint = <<>>
  BY SetHint
<1>2. Agree(w, w, {"hint"})
  BY DEF Agree
<1> QED
  BY <1>1, <1>2 DEF ClearHintIfInvalid, HintOk

\* Writing the input leaves a hint that fits (setInputValue).
LEMMA SetInputFacts ==
  ASSUME NEW w, DOMAIN w = BoxFields, NEW value
  PROVE  /\ Agree(SetInputValue(w, value), w, {"hint", "value"})
         /\ SetInputValue(w, value).value = value
         /\ HintOk(SetInputValue(w, value))
<1>1. PICK u : u = [w EXCEPT !.value = value]
  OBVIOUS
<1>2. DOMAIN u = BoxFields /\ u.value = value /\ Agree(u, w, {"value"})
  BY <1>1 DEF BoxFields, Agree
<1>3. Agree(ClearHintIfInvalid(u), u, {"hint"}) /\ HintOk(ClearHintIfInvalid(u))
  BY <1>2, ClearHintFacts
<1>4. SetInputValue(w, value) = ClearHintIfInvalid(u)
  BY <1>1 DEF SetInputValue
<1> QED
  BY <1>2, <1>3, <1>4 DEF Agree, BoxFields

\* A new hint fits the input (_updateHint).
LEMMA UpdateHintFacts ==
  ASSUME NEW w, BoxType(w)
  PROVE  /\ Agree(UpdateHint(w), w, {"hint"})
         /\ HintOk(w) => HintOk(UpdateHint(w))
<1> DEFINE query == Normalize(w.value)
           top == w.items[1].text
           tail == SubSeq(top, Len(query) + 1, Len(top))
<1>1. DOMAIN w = BoxFields /\ w.value \in Text /\ IsItems(w.items)
  BY DEF BoxType
<1>2. Agree(w, w, {"hint"})
  BY <1>1 DEF Agree
<1>3. CASE UpdateHint(w) = w
  BY <1>2, <1>3
<1>4. CASE UpdateHint(w) = [w EXCEPT !.hint = <<>>]
  <2>1. PICK u : u = [w EXCEPT !.hint = <<>>]
    OBVIOUS
  <2>2. Agree(u, w, {"hint"}) /\ u.hint = <<>>
    BY <1>1, <2>1, SetHint
  <2>3. HintOk(u)
    BY <2>2 DEF HintOk
  <2>4. UpdateHint(w) = u
    BY <1>4, <2>1
  <2> QED
    BY <2>2, <2>3, <2>4, Zenon
<1>5. CASE /\ w.items # <<>> /\ IsStrictPrefix(query, top)
           /\ UpdateHint(w) = [w EXCEPT !.hint = w.value \o tail]
  <2>1. top \in Seq(Letters) /\ query \in Seq(Letters)
    BY <1>1, <1>5, ItemsFacts, NormalizeShorter DEF Text
  <2> HIDE DEF query, top
  <2>2. tail \in Seq(Letters) /\ tail # <<>>
    BY <1>5, <2>1, Continuation
  <2> HIDE DEF tail
  <2>3. IsStrictPrefix(w.value, w.value \o tail)
    BY <1>1, <2>2, Continued DEF Text
  <2>4. /\ Agree([w EXCEPT !.hint = w.value \o tail], w, {"hint"})
        /\ [w EXCEPT !.hint = w.value \o tail].hint = w.value \o tail
    BY <1>1, SetHint
  <2>5. UpdateHint(w).value = w.value
    BY <1>5, <2>4 DEF Agree, BoxFields
  <2> QED
    BY <1>5, <2>3, <2>4, <2>5 DEF HintOk
<1> HIDE DEF query, top, tail
<1> QED
  BY <1>3, <1>4, <1>5 DEF UpdateHint, query, top, tail

\* A box is typed whatever its other parts are.
LEMMA AgreeTyped ==
  ASSUME NEW w, BoxType(w), NEW X, X \cap {"value", "query", "items", "pending"} = {},
         NEW u, Agree(u, w, X)
  PROVE  BoxType(u)
<1>1. /\ DOMAIN u = BoxFields /\ u.value = w.value /\ u.query = w.query
      /\ u.items = w.items /\ u.pending = w.pending
  BY DEF Agree, BoxFields
<1> QED
  BY <1>1 DEF BoxType

\* The items made of texts.
LEMMA ItemsOfTexts ==
  ASSUME NEW q, NEW found \in Seq(Text)
  PROVE  IsItems(Items(q, found))
<1>1. Len(found) \in Nat /\ DOMAIN found = 1..Len(found)
  OBVIOUS
<1>2. PICK items : items = Items(q, found)
  OBVIOUS
<1>3. /\ items = [i \in DOMAIN found |-> items[i]]
      /\ DOMAIN items = DOMAIN found /\ \A i \in DOMAIN found : items[i].text = found[i]
  BY <1>2 DEF Items
<1>4. items \in [1..Len(found) -> ToSet(items)]
  BY <1>1, <1>3 DEF ToSet
<1>5. items \in Seq(ToSet(items))
  BY <1>1, <1>4
<1>6. \A i \in DOMAIN items : items[i].text \in Text
  BY <1>1, <1>3
<1> QED
  BY <1>2, <1>5, <1>6 DEF IsItems

\* A sequence is one of its own elements.
LEMMA OwnElements ==
  ASSUME NEW S, NEW s \in Seq(S)
  PROVE  s \in Seq(ToSet(s))
<1>1. Len(s) \in Nat /\ DOMAIN s = 1..Len(s) /\ s = [i \in 1..Len(s) |-> s[i]]
  BY LenProperties
<1>2. \A i \in 1..Len(s) : s[i] \in ToSet(s)
  BY <1>1 DEF ToSet
<1>3. s \in [1..Len(s) -> ToSet(s)]
  BY <1>1, <1>2
<1> QED
  BY <1>1, <1>3

\* Items appended to items leave the first where they are.
LEMMA ConcatItems ==
  ASSUME NEW a, IsItems(a), NEW b, IsItems(b)
  PROVE  /\ IsItems(a \o b) /\ DOMAIN a \subseteq DOMAIN (a \o b)
         /\ \A i \in DOMAIN a : (a \o b)[i] = a[i]
<1> DEFINE E == ToSet(a) \cup ToSet(b)
<1>1. a \in Seq(E) /\ b \in Seq(E)
  BY SeqMonotonic DEF IsItems
<1> HIDE DEF E
<1>2. /\ a \o b \in Seq(E) /\ Len(a \o b) = Len(a) + Len(b)
      /\ \A i \in 1..Len(a) + Len(b) :
           (a \o b)[i] = IF i <= Len(a) THEN a[i] ELSE b[i - Len(a)]
  BY <1>1, ConcatProperties
<1>3. /\ Len(a) \in Nat /\ DOMAIN a = 1..Len(a) /\ Len(b) \in Nat /\ DOMAIN b = 1..Len(b)
      /\ Len(a \o b) \in Nat /\ DOMAIN (a \o b) = 1..Len(a \o b)
  BY <1>1, <1>2, LenProperties
<1>4. DOMAIN a \subseteq DOMAIN (a \o b) /\ \A i \in DOMAIN a : (a \o b)[i] = a[i]
  BY <1>2, <1>3
<1>5. a \o b \in Seq(ToSet(a \o b))
  BY <1>2, OwnElements
<1>6. \A i \in DOMAIN (a \o b) : (a \o b)[i].text \in Text
  <2> SUFFICES ASSUME NEW i \in DOMAIN (a \o b) PROVE (a \o b)[i].text \in Text
    OBVIOUS
  <2>1. CASE i <= Len(a)
    BY <1>2, <1>3, <2>1 DEF IsItems
  <2>2. CASE ~(i <= Len(a))
    <3>1. i - Len(a) \in DOMAIN b /\ (a \o b)[i] = b[i - Len(a)]
      BY <1>2, <1>3, <2>2
    <3> QED
      BY <3>1 DEF IsItems
  <2> QED
    BY <2>1, <2>2
<1> QED
  BY <1>4, <1>5, <1>6 DEF IsItems

\* Suggestions are texts.
LEMMA SuggestionsTyped ==
  ASSUME NEW q
  PROVE  /\ \A w : SyncSuggestions(w, q) \in Seq(Text)
         /\ NonDuplicates(q) \in Seq(Text)
<1>1. Local \in Seq(Text) /\ Remote \in Seq(Text)
  BY TypeaheadAssumption DEF Text
<1>2. \A s \in Seq(Text) : \A P \in SUBSET DOMAIN s : ElementsAt(s, P) \in Seq(Text)
  BY ElementsAtSeq
<1>3. \A s \in Seq(Text) : Suggested(s, q) \in Seq(Text)
  <2> SUFFICES ASSUME NEW s \in Seq(Text) PROVE Suggested(s, q) \in Seq(Text)
    OBVIOUS
  <2> DEFINE P == {i \in DOMAIN s : IsPrefix(Normalize(q), s[i])}
  <2>1. Suggested(s, q) = ElementsAt(s, P) /\ P \in SUBSET DOMAIN s
    BY DEF Suggested
  <2> HIDE DEF P
  <2> QED
    BY <1>2, <2>1
<1>4. FindMatches(q) \in Seq(Text)
  <2> DEFINE P == {i \in DOMAIN Local : RegExpTest(q, Local[i])}
  <2>1. FindMatches(q) = ElementsAt(Local, P) /\ P \in SUBSET DOMAIN Local
    BY DEF FindMatches
  <2> HIDE DEF P
  <2> QED
    BY <1>1, <1>2, <2>1
<1>5. NonDuplicates(q) \in Seq(Text)
  <2> DEFINE late == Suggested(Remote, q)
             P == {i \in DOMAIN late : late[i] \notin ToSet(Suggested(Local, q))}
  <2>1. NonDuplicates(q) = ElementsAt(late, P) /\ P \in SUBSET DOMAIN late
    BY DEF NonDuplicates
  <2>2. late \in Seq(Text)
    BY <1>1, <1>3
  <2> HIDE DEF late, P
  <2> QED
    BY <1>2, <2>1, <2>2
<1> QED
  BY <1>1, <1>3, <1>4, <1>5 DEF SyncSuggestions

\* What open writes,
LEMMA OpenFacts ==
  ASSUME NEW w, BoxType(w)
  PROVE  /\ Agree(Open(w), w, {"open", "shown", "hint", "unasked"}) /\ BoxType(Open(w))
         /\ w.open => Open(w) = w
         /\ (~w.open) => Open(w).open = TRUE /\ Open(w).unasked = TRUE
         /\ HintOk(w) => HintOk(Open(w))
<1>1. CASE w.open
  <2>1. Open(w) = w
    BY <1>1 DEF Open
  <2> QED
    BY <1>1, <2>1 DEF Agree, BoxType
<1>2. CASE ~w.open
  <2>1. PICK u : u = [w EXCEPT !.open = TRUE, !.shown = @ \/ ~IsEmpty(w), !.unasked = TRUE]
    OBVIOUS
  <2>2. Agree(u, w, {"open", "shown", "unasked"}) /\ u.open = TRUE /\ u.unasked = TRUE
    BY <2>1 DEF Agree, BoxFields, BoxType
  <2>3. BoxType(u) /\ (HintOk(w) => HintOk(u))
    BY <2>2, AgreeTyped, HintKept
  <2>4. Agree(UpdateHint(u), u, {"hint"}) /\ (HintOk(u) => HintOk(UpdateHint(u)))
    BY <2>3, UpdateHintFacts
  <2>5. Open(w) = UpdateHint(u)
    BY <1>2, <2>1 DEF Open
  <2>6. Agree(UpdateHint(u), w, {"open", "shown", "hint", "unasked"})
    BY <2>2, <2>4 DEF Agree
  <2>7. UpdateHint(u).open = TRUE /\ UpdateHint(u).unasked = TRUE
    BY <2>2, <2>4 DEF Agree, BoxFields
  <2>8. BoxType(UpdateHint(u))
    BY <2>3, <2>4, AgreeTyped
  <2> QED
    BY <1>2, <2>3, <2>4, <2>5, <2>6, <2>7, <2>8
<1> QED
  BY <1>1, <1>2

\* what close does,
LEMMA CloseFacts ==
  ASSUME NEW w, BoxType(w)
  PROVE  /\ Agree(Close(w), w, {"open", "shown", "cursor", "hint", "unasked", "value"})
         /\ (~w.open) => Close(w) = w
         /\ w.open => /\ Close(w).open = FALSE /\ Close(w).cursor = 0
                      /\ Close(w).value = w.query
         /\ BoxType(Close(w)) /\ (HintOk(w) => HintOk(Close(w)))
<1>1. CASE ~w.open
  BY <1>1 DEF Close, Agree, BoxType
<1>2. CASE w.open
  <2>1. PICK u : u = [w EXCEPT !.open = FALSE, !.shown = FALSE, !.cursor = 0,
                               !.hint = <<>>, !.unasked = FALSE]
    OBVIOUS
  <2>2. /\ Agree(u, w, {"open", "shown", "cursor", "hint", "unasked"})
        /\ u.open = FALSE /\ u.cursor = 0
    BY <2>1 DEF Agree, BoxFields, BoxType
  <2>3. DOMAIN u = BoxFields /\ u.query = w.query
    BY <2>2 DEF Agree, BoxFields
  <2>4. /\ Agree(SetInputValue(u, u.query), u, {"hint", "value"})
        /\ SetInputValue(u, u.query).value = u.query
        /\ HintOk(SetInputValue(u, u.query))
    BY <2>3, SetInputFacts
  <2>5. Close(w) = SetInputValue(u, u.query)
    BY <1>2, <2>1 DEF Close, ResetInputValue
  <2>6. Agree(Close(w), w, {"open", "shown", "cursor", "hint", "unasked", "value"})
    BY <2>2, <2>4, <2>5 DEF Agree
  <2>7. Close(w).open = FALSE /\ Close(w).cursor = 0 /\ Close(w).value = w.query
    BY <2>2, <2>3, <2>4, <2>5 DEF Agree, BoxFields
  <2>8. BoxType(Close(w))
    BY <2>6, <2>7 DEF Agree, BoxFields, BoxType
  <2> QED
    BY <1>2, <2>4, <2>5, <2>6, <2>7, <2>8
<1> QED
  BY <1>1, <1>2

\* what rendering does,
LEMMA RenderedFacts ==
  ASSUME NEW w, BoxType(w)
  PROVE  /\ Agree(Rendered(w), w, {"shown", "hint"}) /\ BoxType(Rendered(w))
         /\ HintOk(w) => HintOk(Rendered(w))
<1>1. PICK u : u = [w EXCEPT !.shown = ~IsEmpty(w) /\ (@ \/ w.open)]
  OBVIOUS
<1>2. Agree(u, w, {"shown"})
  BY <1>1 DEF Agree, BoxFields, BoxType
<1>3. BoxType(u) /\ (HintOk(w) => HintOk(u))
  BY <1>2, AgreeTyped, HintKept
<1>4. Agree(UpdateHint(u), u, {"hint"}) /\ (HintOk(u) => HintOk(UpdateHint(u)))
  BY <1>3, UpdateHintFacts
<1>5. Rendered(w) = UpdateHint(u)
  BY <1>1 DEF Rendered
<1> QED
  <2>1. Agree(UpdateHint(u), w, {"shown", "hint"})
    BY <1>2, <1>4 DEF Agree
  <2>2. BoxType(UpdateHint(u))
    BY <1>3, <1>4, AgreeTyped
  <2> QED
    BY <1>3, <1>4, <1>5, <2>1, <2>2

\* what canceling an update does,
LEMMA CancelFacts ==
  ASSUME NEW w, BoxType(w)
  PROVE  Agree(Cancel(w), w, {"pending"}) /\ Cancel(w).pending \in Seq(Ask)
<1>1. w.pending \in Seq(Ask) /\ DOMAIN w = BoxFields
  BY DEF BoxType
<1>2. PICK p : p = [k \in DOMAIN w.pending |-> [w.pending[k] EXCEPT !.canceled = TRUE]]
  OBVIOUS
<1>3. Cancel(w) = [w EXCEPT !.pending = p]
  BY <1>2 DEF Cancel
<1>4. \A a \in Ask : [a EXCEPT !.canceled = TRUE] \in Ask
  BY DEF Ask
<1>5. p \in [1..Len(w.pending) -> Ask] /\ Len(w.pending) \in Nat
  <2>1. /\ DOMAIN w.pending = 1..Len(w.pending) /\ Len(w.pending) \in Nat
        /\ \A k \in DOMAIN w.pending : w.pending[k] \in Ask
    BY <1>1
  <2>2. DOMAIN p = 1..Len(w.pending) /\ \A k \in DOMAIN p : p[k] \in Ask
    BY <1>2, <1>4, <2>1
  <2>3. p = [k \in 1..Len(w.pending) |-> p[k]]
    BY <1>2, <2>1
  <2> QED
    BY <2>1, <2>2, <2>3
<1>6. p \in Seq(Ask)
  BY <1>5
<1> QED
  BY <1>1, <1>3, <1>6 DEF Agree, BoxFields

\* An update cancels the one before and puts the cursor nowhere, unless its
\* source throws: then it leaves the items and the cursor as they are.
LEMMA UpdateDatasetFacts ==
  ASSUME NEW w, BoxType(w), NEW q \in Text
  PROVE  /\ Agree(UpdateDataset(w, q), w,
                  {"items", "cursor", "message", "pending", "shown", "hint"})
         /\ BoxType(UpdateDataset(w, q))
         /\ \/ UpdateDataset(w, q).cursor = 0
            \/ /\ UpdateDataset(w, q).cursor = w.cursor
               /\ UpdateDataset(w, q).items = w.items
         /\ HintOk(w) => HintOk(UpdateDataset(w, q))
<1>0. CASE Throws(w, q)
  <2>1. PICK c : c = Cancel(w)
    OBVIOUS
  <2>2. Agree(c, w, {"pending"}) /\ c.pending \in Seq(Ask)
    BY <2>1, CancelFacts
  <2>3. /\ DOMAIN c = BoxFields /\ c.value = w.value /\ c.query = w.query
        /\ c.items = w.items /\ c.cursor = w.cursor
    BY <2>2 DEF Agree, BoxFields
  <2>4. BoxType(c) /\ (HintOk(w) => HintOk(c))
    BY <2>2, <2>3, HintKept DEF BoxType
  <2>5. Agree(c, w, {"items", "cursor", "message", "pending", "shown", "hint"})
    BY <2>2 DEF Agree
  <2>6. UpdateDataset(w, q) = c
    BY <1>0, <2>1 DEF UpdateDataset
  <2> QED
    BY <2>3, <2>4, <2>5, <2>6
<1> DEFINE found == Slice(SyncSuggestions(w, q), Limit)
           asks == IF IsAsync(w)
                   THEN <<[q |-> q, rendered |-> Len(found), canceled |-> FALSE]>>
                   ELSE <<>>
<1>1. found \in Seq(Text) /\ Len(found) \in Nat
  <2>1. SyncSuggestions(w, q) \in Seq(Text)
    BY SuggestionsTyped, Zenon
  <2>2. Limit \in Int
    BY TypeaheadAssumption
  <2> QED
    BY <2>1, <2>2, SliceSeq, LenProperties
<1>2. asks \in Seq(Ask)
  <2> HIDE DEF found
  <2>1. [q |-> q, rendered |-> Len(found), canceled |-> FALSE] \in Ask
    BY <1>1 DEF Ask
  <2> QED
    BY <2>1
<1>3. IsItems(Items(q, found))
  BY <1>1, ItemsOfTexts
<1>4. PICK c : c = Cancel(w)
  OBVIOUS
<1>5. Agree(c, w, {"pending"}) /\ c.pending \in Seq(Ask)
  BY <1>4, CancelFacts
<1>6. PICK u : u = [c EXCEPT !.items = Items(q, found), !.cursor = 0,
                             !.message = found = <<>> /\ ~IsAsync(w),
                             !.pending = @ \o asks]
  OBVIOUS
<1>7. ~Throws(w, q) => UpdateDataset(w, q) = Rendered(u)
  BY <1>4, <1>6 DEF UpdateDataset
<1> HIDE DEF found, asks
<1>8. /\ Agree(u, w, {"items", "cursor", "message", "pending"}) /\ u.cursor = 0
      /\ u.items = Items(q, found) /\ u.pending = c.pending \o asks
  BY <1>5, <1>6 DEF Agree, BoxFields
<1>9. u.pending \in Seq(Ask)
  BY <1>2, <1>5, <1>8
<1>10. BoxType(u)
  <2>1. DOMAIN u = BoxFields /\ u.value = w.value /\ u.query = w.query
    BY <1>8 DEF Agree, BoxFields
  <2> QED
    BY <1>3, <1>8, <1>9, <2>1 DEF BoxType
<1>11. /\ Agree(Rendered(u), u, {"shown", "hint"}) /\ BoxType(Rendered(u))
       /\ HintOk(u) => HintOk(Rendered(u))
  BY <1>10, RenderedFacts
<1>12. /\ Rendered(u).cursor = 0
       /\ HintOk(w) => HintOk(u)
  <2>1. Rendered(u).cursor = 0
    BY <1>8, <1>11 DEF Agree, BoxFields
  <2>2. HintOk(w) => HintOk(u)
    BY <1>8, HintKept
  <2> QED
    BY <2>1, <2>2
<1>13. Agree(Rendered(u), w, {"items", "cursor", "message", "pending", "shown", "hint"})
  BY <1>8, <1>11 DEF Agree
<1> QED
  BY <1>0, <1>7, <1>11, <1>12, <1>13

\* What asking for q leaves of w.
MenuUpdated(u, w, q) ==
  /\ Agree(u, w, {"asked", "unasked", "items", "cursor", "message", "pending",
                  "shown", "hint"})
  /\ BoxType(u) /\ u.asked = {q} /\ u.unasked = FALSE
  /\ u.cursor = 0 \/ (u.items = w.items /\ u.cursor = w.cursor)
  /\ w.asked = {q} => u.items = w.items /\ u.cursor = w.cursor
  /\ HintOk(w) => HintOk(u)

\* what updating the menu does,
LEMMA MenuUpdateFacts ==
  ASSUME NEW w, BoxType(w), NEW q \in Text
  PROVE  MenuUpdated(MenuUpdate(w, q), w, q)
<1>1. CASE w.asked = {q}
  <2>1. PICK u : u = [w EXCEPT !.unasked = FALSE]
    OBVIOUS
  <2>2. Agree(u, w, {"unasked"}) /\ u.unasked = FALSE
    BY <2>1 DEF Agree, BoxFields, BoxType
  <2>3. /\ u.asked = {q} /\ u.items = w.items /\ u.cursor = w.cursor
        /\ HintOk(w) => HintOk(u)
    <3>1. HintOk(w) => HintOk(u)
      BY <2>2, HintKept
    <3> QED
      BY <1>1, <2>2, <3>1 DEF Agree, BoxFields
  <2>4. MenuUpdate(w, q) = u
    BY <1>1, <2>1 DEF MenuUpdate
  <2>5. BoxType(u)
    BY <2>2, AgreeTyped
  <2>6. MenuUpdated(u, w, q)
    BY <1>1, <2>2, <2>3, <2>5 DEF MenuUpdated, Agree
  <2> QED
    BY <2>4, <2>6, Zenon
<1>2. CASE w.asked # {q}
  <2>1. PICK v : v = [[w EXCEPT !.unasked = FALSE] EXCEPT !.asked = {q}]
    OBVIOUS
  <2>2. Agree(v, w, {"asked", "unasked"}) /\ v.asked = {q} /\ v.unasked = FALSE
    BY <2>1 DEF Agree, BoxFields, BoxType
  <2>3. BoxType(v) /\ (HintOk(w) => HintOk(v))
    BY <2>2, AgreeTyped, HintKept
  <2>4. MenuUpdate(w, q) = UpdateDataset(v, q)
    <3>1. [w EXCEPT !.unasked = FALSE].asked = w.asked
      BY DEF BoxType, BoxFields
    <3> QED
      BY <1>2, <2>1, <3>1 DEF MenuUpdate
  <2>5. PICK u : u = UpdateDataset(v, q)
    OBVIOUS
  <2>6. /\ Agree(u, v, {"items", "cursor", "message", "pending", "shown", "hint"})
        /\ u.cursor = 0 \/ (u.cursor = v.cursor /\ u.items = v.items)
        /\ BoxType(u) /\ (HintOk(v) => HintOk(u))
    BY <2>3, <2>5, UpdateDatasetFacts
  <2>7. /\ u.asked = {q} /\ u.unasked = FALSE
        /\ v.cursor = w.cursor /\ v.items = w.items
    BY <2>2, <2>6 DEF Agree, BoxFields
  <2>8. Agree(u, w, {"asked", "unasked", "items", "cursor", "message", "pending",
                     "shown", "hint"})
    BY <2>2, <2>6 DEF Agree
  <2>9. MenuUpdated(u, w, q)
    BY <1>2, <2>3, <2>6, <2>7, <2>8 DEF MenuUpdated
  <2> QED
    BY <2>4, <2>5, <2>9, Zenon
<1> QED
  BY <1>1, <1>2

\* and what emptying it does.
LEMMA MenuEmptyFacts ==
  ASSUME NEW w, BoxType(w)
  PROVE  LET u == MenuEmpty(w) IN
         /\ Agree(u, w, {"asked", "unasked", "items", "cursor", "message", "pending",
                         "shown", "hint"})
         /\ BoxType(u) /\ u.asked = {} /\ u.unasked = FALSE /\ u.cursor = 0
         /\ HintOk(w) => HintOk(u)
<1>1. PICK c : c = Cancel(w)
  OBVIOUS
<1>2. Agree(c, w, {"pending"}) /\ c.pending \in Seq(Ask)
  BY <1>1, CancelFacts
<1>3. PICK v : v = [c EXCEPT !.items = <<>>, !.message = FALSE, !.cursor = 0]
  OBVIOUS
<1>4. /\ Agree(v, w, {"pending", "items", "message", "cursor"})
      /\ v.items = <<>> /\ v.cursor = 0 /\ v.pending = c.pending
  BY <1>2, <1>3 DEF Agree, BoxFields
<1>5. IsItems(<<>>)
  BY DEF IsItems
<1>6. BoxType(v) /\ (HintOk(w) => HintOk(v))
  <2>1. DOMAIN v = BoxFields /\ v.value = w.value /\ v.query = w.query
    BY <1>4 DEF Agree, BoxFields
  <2> QED
    BY <1>2, <1>4, <1>5, <2>1, HintKept DEF BoxType
<1>7. PICK r : r = Rendered(v)
  OBVIOUS
<1>8. /\ Agree(r, v, {"shown", "hint"}) /\ BoxType(r) /\ (HintOk(v) => HintOk(r))
  BY <1>6, <1>7, RenderedFacts
<1>9. PICK u : u = [r EXCEPT !.asked = {}, !.unasked = FALSE]
  OBVIOUS
<1>10. MenuEmpty(w) = u
  BY <1>1, <1>3, <1>7, <1>9 DEF MenuEmpty
<1>11. Agree(u, r, {"asked", "unasked"}) /\ u.asked = {} /\ u.unasked = FALSE
  BY <1>8, <1>9 DEF Agree, BoxFields
<1>12. u.cursor = 0 /\ (HintOk(r) => HintOk(u))
  <2>1. u.cursor = 0
    BY <1>4, <1>8, <1>11 DEF Agree, BoxFields
  <2>2. HintOk(r) => HintOk(u)
    BY <1>11, HintKept
  <2> QED
    BY <2>1, <2>2
<1>13. Agree(u, w, {"asked", "unasked", "items", "cursor", "message", "pending",
                    "shown", "hint"})
  BY <1>4, <1>8, <1>11 DEF Agree
<1>14. BoxType(u)
  BY <1>8, <1>11, AgreeTyped
<1> QED
  BY <1>6, <1>8, <1>10, <1>11, <1>12, <1>13, <1>14

-----------------------------------------------------------------------------
(* The invariant of the box.                                               *)

CursorOk(w) == w.cursor # 0 => w.cursor \in DOMAIN w.items

MenuOk(w) ==
  (w.open /\ ~w.unasked) =>
    IF w.asked = {} THEN Len(Normalize(w.query)) < MinLength
    ELSE \E q \in w.asked : Normalize(q) = Normalize(w.query)

\* A suggestion shown in the input is under the cursor of a menu that has been
\* asked for the query, unless the query is too short to ask for.
InputOk(w) ==
  \/ Normalize(w.value) = Normalize(w.query)
  \/ /\ w.cursor # 0 /\ w.value = w.items[w.cursor].text
     /\ MinLengthMet(w) => w.asked = {w.query}

BoxInv(w) == BoxType(w) /\ HintOk(w) /\ CursorOk(w) /\ MenuOk(w) /\ InputOk(w)

\* Opening keeps the invariant of the menu,
LEMMA OpenInv ==
  ASSUME NEW w, BoxType(w), CursorOk(w)
  PROVE  /\ CursorOk(Open(w)) /\ (MenuOk(w) => MenuOk(Open(w)))
         /\ InputOk(w) => InputOk(Open(w))
<1>1. PICK o : o = Open(w)
  OBVIOUS
<1>2. CASE w.open
  <2>1. o = w
    BY <1>1, <1>2, OpenFacts
  <2> QED
    BY <1>1, <2>1
<1>3. CASE ~w.open
  <2>1. /\ Agree(o, w, {"open", "shown", "hint", "unasked"})
        /\ o.open = TRUE /\ o.unasked = TRUE
    BY <1>1, <1>3, OpenFacts
  <2>2. /\ o.cursor = w.cursor /\ o.items = w.items /\ o.value = w.value
        /\ o.query = w.query /\ o.asked = w.asked
    BY <2>1 DEF Agree, BoxFields
  <2>4. CursorOk(o) /\ MenuOk(o)
    BY <2>1, <2>2 DEF CursorOk, MenuOk
  <2>5. InputOk(w) => InputOk(o)
    BY <2>2 DEF InputOk, MinLengthMet
  <2> QED
    BY <1>1, <2>4, <2>5
<1> QED
  BY <1>2, <1>3

\* closing that of the box,
LEMMA CloseInv == ASSUME NEW w, BoxInv(w) PROVE BoxInv(Close(w))
<1>1. PICK c : c = Close(w)
  OBVIOUS
<1>2. /\ Agree(c, w, {"open", "shown", "cursor", "hint", "unasked", "value"})
      /\ (~w.open) => c = w
      /\ w.open => c.open = FALSE /\ c.cursor = 0 /\ c.value = w.query
      /\ BoxType(c) /\ HintOk(c)
  BY <1>1, CloseFacts DEF BoxInv
<1>3. CASE w.open
  <2>1. c.query = w.query
    BY <1>2 DEF Agree, BoxFields
  <2> QED
    BY <1>1, <1>2, <1>3, <2>1 DEF BoxInv, CursorOk, MenuOk, InputOk
<1> QED
  BY <1>1, <1>2, <1>3

\* A new query, once the text in the input is that query.
LEMMA SetQueryInv ==
  ASSUME NEW w, BoxType(w), CursorOk(w), MenuOk(w), NEW q \in Text, w.value = q
  PROVE  LET r == SetQuery(w, q) IN
         /\ BoxType(r) /\ CursorOk(r) /\ MenuOk(r) /\ InputOk(r)
         /\ HintOk(w) => HintOk(r)
         /\ r.value = q /\ r.source = w.source
         /\ r.asked = w.asked \/ r.asked \subseteq {q}
<1>1. PICK s : s = [w EXCEPT !.query = q]
  OBVIOUS
<1>2. Agree(s, w, {"query"}) /\ s.query = q
  BY <1>1 DEF Agree, BoxFields, BoxType
<1>3. /\ s.cursor = w.cursor /\ s.open = w.open /\ s.items = w.items /\ s.hint = w.hint
      /\ s.value = q /\ s.unasked = w.unasked /\ s.asked = w.asked
      /\ s.pending = w.pending /\ s.source = w.source /\ DOMAIN s = BoxFields
  BY <1>2 DEF Agree, BoxFields
<1>4. BoxType(s) /\ CursorOk(s) /\ (HintOk(w) => HintOk(s))
  BY <1>2, <1>3, HintKept DEF BoxType, CursorOk
<1>5. PICK o : o = OpenIfActive(s)
  OBVIOUS
<1>6. o = s \/ o = Open(s)
  BY <1>5 DEF OpenIfActive
<1>7. /\ Agree(o, s, {"open", "shown", "hint", "unasked"}) /\ BoxType(o)
      /\ CursorOk(o) /\ (MenuOk(s) => MenuOk(o)) /\ (HintOk(s) => HintOk(o))
  <2>1. CASE o = s
    BY <1>3, <1>4, <2>1 DEF Agree
  <2>2. CASE o = Open(s)
    BY <1>4, <2>2, OpenFacts, OpenInv
  <2> QED
    BY <1>6, <2>1, <2>2
<1>8. /\ o.value = q /\ o.query = q /\ o.items = s.items /\ o.cursor = s.cursor
      /\ o.asked = s.asked /\ o.source = s.source
  BY <1>2, <1>3, <1>7 DEF Agree, BoxFields
<1>9. PICK r : r = SetQuery(w, q)
  OBVIOUS
<1>10. CASE Normalize(q) # Normalize(w.query) /\ MinLengthMet(o)
  <2>1. r = MenuUpdate(o, q)
    BY <1>1, <1>5, <1>8, <1>9, <1>10 DEF SetQuery, OnQueryChanged
  <2>2. /\ Agree(r, o, {"asked", "unasked", "items", "cursor", "message", "pending",
                        "shown", "hint"})
        /\ BoxType(r) /\ r.asked = {q}
        /\ r.cursor = 0 \/ (r.items = o.items /\ r.cursor = o.cursor)
        /\ HintOk(o) => HintOk(r)
    <3>1. MenuUpdated(r, o, q)
      BY <1>7, <2>1, MenuUpdateFacts, Zenon
    <3> QED
      BY <1>7, <3>1, Zenon DEF MenuUpdated
  <2>3. r.value = q /\ r.query = q /\ r.open = o.open /\ r.source = o.source
    BY <1>8, <2>2 DEF Agree, BoxFields
  <2>4. CursorOk(r) /\ MenuOk(r) /\ InputOk(r)
    BY <1>7, <2>2, <2>3 DEF CursorOk, MenuOk, InputOk
  <2> QED
    BY <1>3, <1>4, <1>7, <1>8, <1>9, <2>2, <2>3, <2>4
<1>11. CASE Normalize(q) # Normalize(w.query) /\ ~MinLengthMet(o)
  <2>1. r = MenuEmpty(o)
    BY <1>1, <1>5, <1>9, <1>11 DEF SetQuery, OnQueryChanged
  <2>2. /\ Agree(r, o, {"asked", "unasked", "items", "cursor", "message", "pending",
                        "shown", "hint"})
        /\ BoxType(r) /\ r.asked = {} /\ r.cursor = 0 /\ (HintOk(o) => HintOk(r))
    BY <1>7, <2>1, MenuEmptyFacts
  <2>3. r.value = q /\ r.query = q /\ r.source = o.source
    BY <1>8, <2>2 DEF Agree, BoxFields
  <2>4. Len(Normalize(q)) < MinLength
    <3>1. Len(Normalize(q)) \in Nat /\ Len(Normalize(q)) <= Len(q) /\ Len(q) \in Nat
      BY NormalizeShorter DEF Text
    <3>2. ~(Len(q) >= MinLength) /\ MinLength \in Nat
      BY <1>8, <1>11, TypeaheadAssumption DEF MinLengthMet
    <3> QED
      BY <3>1, <3>2
  <2>5. CursorOk(r) /\ MenuOk(r) /\ InputOk(r)
    BY <2>2, <2>3, <2>4 DEF CursorOk, MenuOk, InputOk
  <2> QED
    BY <1>3, <1>4, <1>7, <1>8, <1>9, <2>2, <2>3, <2>5
<1>12. CASE Normalize(q) = Normalize(w.query)
  <2>1. MenuOk(s)
    BY <1>2, <1>3, <1>12 DEF MenuOk
  <2>2. InputOk(s) /\ InputOk(o)
    BY <1>2, <1>3, <1>8 DEF InputOk
  <2>3. CASE r = s
    BY <1>3, <1>4, <1>9, <2>1, <2>2, <2>3
  <2>4. CASE r = UpdateHint(o)
    <3>1. Agree(r, o, {"hint"}) /\ (HintOk(o) => HintOk(r))
      BY <1>7, <2>4, UpdateHintFacts
    <3>2. BoxType(r)
      BY <1>7, <3>1, AgreeTyped
    <3>3. /\ r.value = o.value /\ r.query = o.query /\ r.cursor = o.cursor
          /\ r.open = o.open /\ r.items = o.items /\ r.asked = o.asked
          /\ r.unasked = o.unasked /\ r.source = o.source
      BY <3>1 DEF Agree, BoxFields
    <3>4. CursorOk(r) /\ MenuOk(r) /\ InputOk(r)
      BY <1>7, <1>8, <2>1, <3>3 DEF CursorOk, MenuOk, InputOk
    <3> QED
      BY <1>3, <1>4, <1>7, <1>8, <1>9, <3>1, <3>2, <3>3, <3>4
  <2> QED
    BY <1>1, <1>5, <1>9, <1>12, <2>3, <2>4 DEF SetQuery
<1> QED
  BY <1>10, <1>11, <1>12

\* as does a selection (select),
LEMMA SelectInv ==
  ASSUME NEW w, BoxInv(w), NEW text \in Text
  PROVE  BoxInv(Select(w, text))
<1>1. PICK s : s = SetInputValue(w, text)
  OBVIOUS
<1>2. Agree(s, w, {"hint", "value"}) /\ s.value = text /\ HintOk(s)
  BY <1>1, SetInputFacts DEF BoxInv, BoxType
<1>3. PICK t : t = [s EXCEPT !.query = text]
  OBVIOUS
<1>4. Agree(t, s, {"query"}) /\ t.query = text
  BY <1>2, <1>3 DEF Agree, BoxFields
<1>5. /\ t.value = text /\ t.hint = s.hint /\ t.items = w.items /\ t.pending = w.pending
      /\ t.open = w.open /\ t.cursor = w.cursor /\ DOMAIN t = BoxFields
  BY <1>2, <1>4 DEF Agree, BoxFields
<1>6. BoxType(t) /\ HintOk(t) /\ CursorOk(t) /\ InputOk(t)
  BY <1>2, <1>4, <1>5, HintKept DEF BoxInv, BoxType, CursorOk, InputOk
<1>7. PICK c : c = Close(t)
  OBVIOUS
<1>8. /\ Agree(c, t, {"open", "shown", "cursor", "hint", "unasked", "value"})
      /\ (~t.open) => c = t
      /\ t.open => c.open = FALSE /\ c.cursor = 0 /\ c.value = t.query
      /\ BoxType(c) /\ HintOk(c)
  BY <1>6, <1>7, CloseFacts
<1>9. c.query = t.query
  BY <1>8 DEF Agree, BoxFields
<1>10. BoxInv(c)
  <2>1. CASE t.open
    BY <1>8, <1>9, <2>1 DEF BoxInv, CursorOk, MenuOk, InputOk
  <2>2. CASE ~t.open
    BY <1>6, <1>8, <2>2 DEF BoxInv, MenuOk
  <2> QED
    BY <2>1, <2>2
<1> QED
  BY <1>1, <1>3, <1>7, <1>10 DEF Select

\* a completion (autocomplete),
LEMMA AutocompleteInv ==
  ASSUME NEW w, BoxInv(w), NEW text \in Text
  PROVE  BoxInv(AutocompleteTo(w, text))
<1>1. CASE w.query = text
  BY <1>1 DEF AutocompleteTo
<1>2. CASE w.query # text
  <2>3. PICK s : s = SetInputValue(w, text)
    OBVIOUS
  <2>4. Agree(s, w, {"hint", "value"}) /\ s.value = text /\ HintOk(s)
    BY <2>3, SetInputFacts DEF BoxInv, BoxType
  <2>5. /\ s.query = w.query /\ s.items = w.items /\ s.pending = w.pending
        /\ s.open = w.open /\ s.cursor = w.cursor /\ s.unasked = w.unasked
        /\ s.asked = w.asked /\ DOMAIN s = BoxFields
    BY <2>4 DEF Agree, BoxFields
  <2>6. BoxType(s) /\ CursorOk(s) /\ MenuOk(s)
    BY <2>4, <2>5 DEF BoxInv, BoxType, CursorOk, MenuOk
  <2>7. BoxInv(SetQuery(s, text))
    BY <2>4, <2>6, SetQueryInv DEF BoxInv
  <2>8. AutocompleteTo(w, text) = SetQuery(s, text)
    BY <1>2, <2>3 DEF AutocompleteTo
  <2> QED
    BY <2>7, <2>8
<1> QED
  BY <1>1, <1>2

\* that of the item on top,
LEMMA AutocompleteTopInv ==
  ASSUME NEW w, BoxInv(w)
  PROVE  BoxInv(Autocomplete(w))
<1>1. w.items # <<>> => w.items[1].text \in Text
  BY ItemsFacts DEF BoxInv, BoxType
<1> QED
  BY <1>1, AutocompleteInv DEF Autocomplete

\* An answer adds items behind the one under the cursor.
LEMMA ReceiveInv ==
  ASSUME NEW w, BoxInv(w), NEW ask \in Ask, NEW suggestions \in Seq(Text)
  PROVE  BoxInv(ReceiveAsync(w, ask, suggestions))
<1>1. CASE ask.canceled \/ ask.rendered >= Limit
  BY <1>1 DEF ReceiveAsync
<1>2. CASE ~(ask.canceled \/ ask.rendered >= Limit)
  <2> DEFINE rendered == ask.rendered + Len(suggestions)
             more == Items(ask.q, Slice(suggestions, Limit - rendered))
  <2>1. IsItems(more)
    <3>1. ask.rendered \in Nat /\ Len(suggestions) \in Nat /\ Limit \in Nat
      BY TypeaheadAssumption DEF Ask
    <3>2. Limit - rendered \in Int
      BY <3>1
    <3> QED
      BY <3>2, SliceSeq, ItemsOfTexts
  <2>2. PICK v : v = [w EXCEPT !.items = @ \o more,
                               !.message = (@ \/ w.items = <<>>) /\ more = <<>>]
    OBVIOUS
  <2>3. ReceiveAsync(w, ask, suggestions) = Rendered(v)
    BY <1>2, <2>2 DEF ReceiveAsync
  <2> HIDE DEF more
  <2>4. Agree(v, w, {"items", "message"}) /\ v.items = w.items \o more
    BY <2>2 DEF Agree, BoxFields, BoxInv, BoxType
  <2>5. /\ IsItems(v.items) /\ DOMAIN w.items \subseteq DOMAIN v.items
        /\ \A i \in DOMAIN w.items : v.items[i] = w.items[i]
    BY <2>1, <2>4, ConcatItems DEF BoxInv, BoxType
  <2>6. BoxType(v)
    <3>1. /\ DOMAIN v = BoxFields /\ v.value = w.value /\ v.query = w.query
          /\ v.pending = w.pending
      BY <2>4 DEF Agree, BoxFields
    <3> QED
      BY <2>5, <3>1 DEF BoxInv, BoxType
  <2>7. PICK r : r = Rendered(v)
    OBVIOUS
  <2>8. Agree(r, v, {"shown", "hint"}) /\ BoxType(r) /\ (HintOk(v) => HintOk(r))
    BY <2>6, <2>7, RenderedFacts
  <2>9. /\ r.value = w.value /\ r.query = w.query /\ r.cursor = w.cursor
        /\ r.open = w.open /\ r.items = v.items /\ r.asked = w.asked
        /\ r.unasked = w.unasked
    BY <2>4, <2>8 DEF Agree, BoxFields
  <2>10. HintOk(r)
    BY <2>4, <2>8, HintKept DEF BoxInv
  <2>11. CursorOk(r) /\ MenuOk(r)
    BY <2>5, <2>9 DEF BoxInv, CursorOk, MenuOk
  <2>12. InputOk(r)
    BY <2>5, <2>9 DEF BoxInv, CursorOk, InputOk, MinLengthMet
  <2> QED
    BY <2>3, <2>7, <2>8, <2>10, <2>11, <2>12 DEF BoxInv
<1> QED
  BY <1>1, <1>2

\* A menu that has been asked anew, with the query in the input.
LEMMA MenuUpdateInv ==
  ASSUME NEW w, BoxInv(w), MinLengthMet(w)
  PROVE  BoxInv(MenuUpdate(w, w.query))
<1>1. PICK r : r = MenuUpdate(w, w.query)
  OBVIOUS
<1>2. /\ Agree(r, w, {"asked", "unasked", "items", "cursor", "message", "pending",
                      "shown", "hint"})
      /\ BoxType(r) /\ r.asked = {w.query}
      /\ r.cursor = 0 \/ (r.items = w.items /\ r.cursor = w.cursor)
      /\ w.asked = {w.query} => r.items = w.items /\ r.cursor = w.cursor
      /\ HintOk(r)
  <2>1. BoxType(w) /\ w.query \in Text /\ HintOk(w)
    BY DEF BoxInv, BoxType
  <2>2. MenuUpdated(r, w, w.query)
    BY <1>1, <2>1, MenuUpdateFacts, Zenon
  <2> QED
    BY <2>1, <2>2, Zenon DEF MenuUpdated
<1>3. r.value = w.value /\ r.query = w.query /\ r.open = w.open
  BY <1>2 DEF Agree, BoxFields
<1>4. CursorOk(r) /\ MenuOk(r)
  BY <1>2, <1>3 DEF BoxInv, CursorOk, MenuOk
<1>5. w.asked # {w.query} => Normalize(w.value) = Normalize(w.query)
  BY DEF BoxInv, InputOk
<1>6. InputOk(r)
  BY <1>2, <1>3, <1>5 DEF BoxInv, InputOk
<1> QED
  BY <1>1, <1>2, <1>4, <1>6 DEF BoxInv

\* a move of the cursor (moveCursor),
LEMMA MoveInv ==
  ASSUME NEW w, BoxInv(w), NEW delta \in {-1, 1}
  PROVE  BoxInv(MoveCursor(w, delta))
<1>1. CASE MinLengthMet(w) /\ w.asked # {w.query}
  BY <1>1, MenuUpdateInv DEF MoveCursor
<1>2. CASE ~(MinLengthMet(w) /\ w.asked # {w.query})
  <2>1. PICK at : at = (w.cursor + delta) % (Len(w.items) + 1)
    OBVIOUS
  <2>2. at \in Nat /\ (at # 0 => at \in DOMAIN w.items)
    <3>1. Len(w.items) \in Nat /\ DOMAIN w.items = 1..Len(w.items)
      BY ItemsFacts DEF BoxInv, BoxType
    <3>2. w.cursor \in Int
      BY <3>1 DEF BoxInv, CursorOk
    <3>3. at \in 0..Len(w.items)
      <4>1. PICK c \in Int : c = w.cursor + delta
        BY <3>2
      <4>2. PICK n \in Nat : n = Len(w.items)
        BY <3>1
      <4>3. c % (n + 1) \in 0..n
        BY <4>1, <4>2
      <4> QED
        BY <2>1, <4>1, <4>2, <4>3
    <3> QED
      BY <3>1, <3>3
  <2>3. PICK m : m = [w EXCEPT !.cursor = at]
    OBVIOUS
  <2>4. Agree(m, w, {"cursor"}) /\ m.cursor = at
    BY <2>3 DEF Agree, BoxFields, BoxInv, BoxType
  <2>5. BoxType(m)
    BY <2>4, AgreeTyped DEF BoxInv
  <2>6. /\ m.open = w.open /\ m.items = w.items /\ m.unasked = w.unasked
        /\ m.asked = w.asked /\ m.query = w.query
        /\ DOMAIN m = BoxFields
    BY <2>4 DEF Agree, BoxFields
  <2>7. ASSUME NEW s, NEW text \in Text, s = SetInputValue(m, text)
        PROVE  /\ s.open = w.open /\ s.items = w.items /\ s.cursor = at
               /\ s.asked = w.asked /\ s.query = w.query
               /\ s.value = text /\ BoxType(s) /\ HintOk(s) /\ MenuOk(s) /\ CursorOk(s)
    <3>1. Agree(s, m, {"hint", "value"}) /\ s.value = text /\ HintOk(s)
      BY <2>6, <2>7, SetInputFacts
    <3>2. /\ s.open = w.open /\ s.items = w.items /\ s.cursor = at
          /\ s.asked = w.asked /\ s.query = w.query
          /\ s.unasked = w.unasked /\ s.pending = m.pending /\ DOMAIN s = BoxFields
      BY <2>4, <2>6, <3>1 DEF Agree, BoxFields
    <3>3. BoxType(s) /\ MenuOk(s) /\ CursorOk(s)
      BY <2>2, <2>5, <2>6, <3>1, <3>2 DEF BoxInv, BoxType, MenuOk, CursorOk
    <3> QED
      BY <3>1, <3>2, <3>3
  <2>8. CASE at # 0
    <3>1. PICK text : text = w.items[at].text
      OBVIOUS
    <3>2. text \in Text
      BY <2>2, <2>8, <3>1 DEF BoxInv, BoxType, IsItems
    <3>3. PICK s : s = SetInputValue(m, text)
      OBVIOUS
    <3>4. /\ s.open = w.open /\ s.items = w.items /\ s.cursor = at
          /\ s.asked = w.asked /\ s.query = w.query
          /\ s.value = text /\ BoxType(s) /\ HintOk(s) /\ MenuOk(s) /\ CursorOk(s)
      BY <2>7, <3>2, <3>3
    <3>5. InputOk(s)
      BY <1>2, <2>8, <3>1, <3>4 DEF InputOk, MinLengthMet
    <3>6. MoveCursor(w, delta) = s
      BY <1>2, <2>1, <2>3, <2>8, <3>1, <3>3 DEF MoveCursor
    <3> QED
      BY <3>4, <3>5, <3>6 DEF BoxInv
  <2>9. CASE at = 0
    <3>1. PICK s : s = SetInputValue(m, m.query)
      OBVIOUS
    <3>2. m.query \in Text
      BY <2>5 DEF BoxType
    <3>3. /\ s.query = m.query /\ s.value = m.query /\ BoxType(s) /\ HintOk(s)
          /\ MenuOk(s) /\ CursorOk(s)
      BY <2>6, <2>7, <3>1, <3>2
    <3>4. PICK r : r = UpdateHint(s)
      OBVIOUS
    <3>5. Agree(r, s, {"hint"}) /\ HintOk(r)
      BY <3>3, <3>4, UpdateHintFacts
    <3>6. /\ BoxType(r) /\ r.value = s.value /\ r.query = s.query /\ r.cursor = s.cursor
          /\ r.open = s.open /\ r.items = s.items /\ r.asked = s.asked
          /\ r.unasked = s.unasked
      <4>1. BoxType(r)
        BY <3>3, <3>5, AgreeTyped
      <4> QED
        BY <3>5, <4>1 DEF Agree, BoxFields
    <3>7. CursorOk(r) /\ MenuOk(r) /\ InputOk(r)
      BY <3>3, <3>6 DEF CursorOk, MenuOk, InputOk
    <3>8. MoveCursor(w, delta) = r
      BY <1>2, <2>1, <2>3, <2>9, <3>1, <3>4 DEF MoveCursor, ResetInputValue
    <3> QED
      BY <3>5, <3>6, <3>7, <3>8 DEF BoxInv
  <2> QED
    BY <2>8, <2>9
<1> QED
  BY <1>1, <1>2

\* and a box just made has it.
LEMMA FreshInv == ASSUME NEW source PROVE BoxInv(Fresh(source))
<1>1. PICK w : w = Fresh(source)
  OBVIOUS
<1>2. /\ DOMAIN w = BoxFields /\ w.value = <<>> /\ w.query = <<>> /\ w.items = <<>>
      /\ w.pending = <<>> /\ w.hint = <<>> /\ w.cursor = 0 /\ w.open = FALSE
  BY <1>1 DEF Fresh, BoxFields
<1>3. <<>> \in Text /\ <<>> \in Seq(Ask) /\ IsItems(<<>>)
  BY DEF Text, IsItems
<1> QED
  BY <1>1, <1>2, <1>3 DEF BoxInv, BoxType, HintOk, CursorOk, MenuOk, InputOk

\* The flags of the box that the menu and its hint do not depend on.
LEMMA FlagInv ==
  ASSUME NEW w, BoxInv(w), NEW u, Agree(u, w, {"enabled", "active", "focus", "attached"})
  PROVE  BoxInv(u)
<1>1. /\ u.value = w.value /\ u.query = w.query /\ u.items = w.items /\ u.hint = w.hint
      /\ u.pending = w.pending /\ u.open = w.open /\ u.unasked = w.unasked
      /\ u.asked = w.asked /\ u.cursor = w.cursor /\ DOMAIN u = BoxFields
  BY DEF Agree, BoxFields
<1>2. BoxType(u) /\ HintOk(u) /\ CursorOk(u) /\ MenuOk(u)
  BY <1>1, HintKept DEF BoxInv, BoxType, CursorOk, MenuOk
<1>3. InputOk(u)
  BY <1>1 DEF BoxInv, InputOk, MinLengthMet
<1> QED
  BY <1>2, <1>3 DEF BoxInv

\* An opened box has it.
LEMMA OpenKeeps == ASSUME NEW w, BoxInv(w) PROVE BoxInv(Open(w))
BY OpenFacts, OpenInv DEF BoxInv

\* Deactivating closes,
LEMMA DeactivateInv ==
  ASSUME NEW w, BoxInv(w)
  PROVE  BoxInv(Deactivate(w))
<1>1. PICK u : u = [w EXCEPT !.active = FALSE]
  OBVIOUS
<1>2. Agree(u, w, {"active"}) /\ u.focus = w.focus
  BY <1>1 DEF Agree, BoxFields, BoxInv, BoxType
<1>3. BoxInv(u)
  BY <1>2, FlagInv DEF Agree
<1>4. BoxInv(Close(u))
  BY <1>3, CloseInv
<1> QED
  BY <1>1, <1>4 DEF Deactivate

\* activating writes active alone.
LEMMA ActivateInv ==
  ASSUME NEW w, BoxInv(w)
  PROVE  BoxInv(Activate(w)) /\ Agree(Activate(w), w, {"active"})
<1>1. PICK u : u = Activate(w)
  OBVIOUS
<1>2. Agree(u, w, {"active"}) /\ u.focus = w.focus
  BY <1>1 DEF Activate, Agree, BoxFields, BoxInv, BoxType
<1>3. BoxInv(u)
  BY <1>2, FlagInv DEF Agree
<1> QED
  BY <1>1, <1>2, <1>3

\* A sequence without one of its elements.
LEMMA RemoveAtSeq ==
  ASSUME NEW S, NEW s \in Seq(S), NEW k \in DOMAIN s
  PROVE  RemoveAt(s, k) \in Seq(S)
<1>1. Len(s) \in Nat /\ k \in 1..Len(s)
  OBVIOUS
<1>2. SubSeq(s, 1, k - 1) \in Seq(S)
  <2>1. k - 1 \in Int /\ \A i \in 1..k - 1 : s[i] \in S
    BY <1>1
  <2> QED
    BY <2>1, SubSeqProperties
<1>3. SubSeq(s, k + 1, Len(s)) \in Seq(S)
  <2>1. k + 1 \in Int /\ Len(s) \in Int /\ \A i \in k + 1..Len(s) : s[i] \in S
    BY <1>1
  <2> QED
    BY <2>1, SubSeqProperties
<1> QED
  BY <1>2, <1>3, ConcatProperties DEF RemoveAt

\* The input takes the focus,
LEMMA FocusStep == ASSUME BoxInv(ta), Focus PROVE BoxInv(ta')
<1>1. PICK f : f = [ta EXCEPT !.focus = TRUE]
  OBVIOUS
<1>2. Agree(f, ta, {"focus"})
  BY <1>1 DEF Agree, BoxFields, BoxInv, BoxType
<1>3. BoxInv(f)
  BY <1>2, FlagInv DEF Agree
<1>4. PICK a : a = Activate(f)
  OBVIOUS
<1>5. BoxInv(a)
  BY <1>3, <1>4, ActivateInv
<1>6. PICK o : o = Open(a)
  OBVIOUS
<1>7. BoxInv(o)
  BY <1>5, <1>6, OpenKeeps
<1>8. MinLengthMet(o) => BoxInv(MenuUpdate(o, o.query))
  BY <1>7, MenuUpdateInv
<1>9. ta' = IF ~a.active THEN a
            ELSE IF MinLengthMet(o) THEN MenuUpdate(o, o.query) ELSE o
  BY <1>1, <1>4, <1>6 DEF Focus, Becomes
<1> QED
  BY <1>5, <1>7, <1>8, <1>9

\* or loses it.
LEMMA BlurStep == ASSUME BoxInv(ta), Blur PROVE BoxInv(ta')
<1>1. PICK s : s = ResetInputValue(ta)
  OBVIOUS
<1>2. Agree(s, ta, {"hint", "value"}) /\ s.value = ta.query /\ HintOk(s)
  BY <1>1, SetInputFacts DEF ResetInputValue, BoxInv, BoxType
<1>3. /\ s.query = ta.query /\ s.items = ta.items /\ s.pending = ta.pending
      /\ s.open = ta.open /\ s.cursor = ta.cursor /\ s.unasked = ta.unasked
      /\ s.asked = ta.asked /\ DOMAIN s = BoxFields
  BY <1>2 DEF Agree, BoxFields
<1>4. BoxInv(s)
  BY <1>2, <1>3 DEF BoxInv, BoxType, CursorOk, MenuOk, InputOk
<1>5. PICK u : u = [s EXCEPT !.focus = FALSE]
  OBVIOUS
<1>6. Agree(u, s, {"focus"})
  BY <1>3, <1>5 DEF Agree, BoxFields
<1>7. BoxInv(u)
  BY <1>2, <1>3, <1>4, <1>6, FlagInv DEF Agree
<1>8. ta' = Deactivate(u)
  BY <1>1, <1>5 DEF Blur, Becomes
<1> QED
  BY <1>7, <1>8, DeactivateInv

\* The user types,
LEMMA TypeStep ==
  ASSUME BoxInv(ta), NEW text \in Texts, Type(text)
  PROVE  BoxInv(ta')
<1>1. text \in Text
  BY TypeaheadAssumption DEF Text
<1>2. PICK s : s = [ta EXCEPT !.value = text]
  OBVIOUS
<1>3. Agree(s, ta, {"value"}) /\ s.value = text
  BY <1>2 DEF Agree, BoxFields, BoxInv, BoxType
<1>4. /\ s.query = ta.query /\ s.items = ta.items /\ s.pending = ta.pending
      /\ s.open = ta.open /\ s.cursor = ta.cursor /\ s.unasked = ta.unasked
      /\ s.asked = ta.asked /\ s.source = ta.source /\ DOMAIN s = BoxFields
  BY <1>3 DEF Agree, BoxFields
<1>5. BoxType(s) /\ CursorOk(s) /\ MenuOk(s)
  BY <1>1, <1>3, <1>4 DEF BoxInv, BoxType, CursorOk, MenuOk
<1>6. PICK r : r = SetQuery(s, text)
  OBVIOUS
<1>7. /\ BoxType(r) /\ CursorOk(r) /\ MenuOk(r) /\ InputOk(r)
      /\ r.value = text /\ r.source = ta.source
      /\ r.asked = ta.asked \/ r.asked \subseteq {text}
  BY <1>1, <1>3, <1>4, <1>5, <1>6, SetQueryInv
<1>8. PICK c : c = ClearHintIfInvalid(r)
  OBVIOUS
<1>9. Agree(c, r, {"hint"}) /\ HintOk(c)
  BY <1>7, <1>8, ClearHintFacts DEF BoxType
<1>10. /\ c.query = r.query /\ c.items = r.items /\ c.value = r.value
       /\ c.open = r.open /\ c.cursor = r.cursor /\ c.unasked = r.unasked
       /\ c.asked = r.asked
  BY <1>9 DEF Agree, BoxFields
<1>11. BoxType(c) /\ CursorOk(c) /\ MenuOk(c)
  <2>1. BoxType(c)
    BY <1>7, <1>9, AgreeTyped
  <2> QED
    BY <1>7, <1>10, <2>1 DEF CursorOk, MenuOk
<1>12. InputOk(c)
  BY <1>7, <1>10 DEF InputOk, MinLengthMet
<1>13. PICK threw : threw = (r.asked # ta.asked /\ \E q \in r.asked : Throws(ta, q))
  OBVIOUS
<1>14. ASSUME threw PROVE HintOk(r)
  <2>1. Throws(ta, text)
    BY <1>7, <1>13, <1>14
  <2> QED
    BY <1>7, <2>1 DEF HintOk, Throws, IsAsync
<1>15. ta' = IF threw THEN r ELSE c
  BY <1>2, <1>6, <1>8, <1>13 DEF Type, Becomes
<1> QED
  BY <1>7, <1>9, <1>11, <1>12, <1>14, <1>15 DEF BoxInv

\* the page writes the input,
LEMMA SetValStep ==
  ASSUME BoxInv(ta), NEW text \in Texts, SetVal(text)
  PROVE  BoxInv(ta')
<1>1. text \in Text
  BY TypeaheadAssumption DEF Text
<1>2. PICK s : s = SetInputValue(ta, text)
  OBVIOUS
<1>3. Agree(s, ta, {"hint", "value"}) /\ s.value = text /\ HintOk(s)
  BY <1>2, SetInputFacts DEF BoxInv, BoxType
<1>4. /\ s.query = ta.query /\ s.items = ta.items /\ s.pending = ta.pending
      /\ s.open = ta.open /\ s.cursor = ta.cursor /\ s.unasked = ta.unasked
      /\ s.asked = ta.asked /\ DOMAIN s = BoxFields
  BY <1>3 DEF Agree, BoxFields
<1>5. BoxType(s) /\ CursorOk(s) /\ MenuOk(s)
  BY <1>1, <1>3, <1>4 DEF BoxInv, BoxType, CursorOk, MenuOk
<1>6. BoxInv(SetQuery(s, text))
  BY <1>1, <1>3, <1>5, SetQueryInv DEF BoxInv
<1> QED
  BY <1>2, <1>6 DEF SetVal, Becomes

\* a late answer comes or fails,
LEMMA AsyncStep ==
  ASSUME BoxInv(ta), NEW k, NEW fails \in BOOLEAN, AsyncSuggestions(k, fails)
  PROVE  BoxInv(ta')
<1>1. ta.pending \in Seq(Ask) /\ k \in DOMAIN ta.pending /\ DOMAIN ta = BoxFields
  BY DEF AsyncSuggestions, BoxInv, BoxType
<1>2. ta.pending[k] \in Ask /\ RemoveAt(ta.pending, k) \in Seq(Ask)
  BY <1>1, RemoveAtSeq
<1>3. PICK ask \in Ask : ask = ta.pending[k]
  BY <1>2
<1>4. PICK s : s = [ta EXCEPT !.pending = RemoveAt(@, k)]
  OBVIOUS
<1>5. Agree(s, ta, {"pending"}) /\ s.pending = RemoveAt(ta.pending, k)
  BY <1>1, <1>4 DEF Agree, BoxFields
<1>6. /\ s.query = ta.query /\ s.items = ta.items /\ s.value = ta.value
      /\ s.open = ta.open /\ s.cursor = ta.cursor /\ s.unasked = ta.unasked
      /\ s.asked = ta.asked
      /\ DOMAIN s = BoxFields
  BY <1>5 DEF Agree, BoxFields
<1>7. BoxType(s) /\ HintOk(s) /\ CursorOk(s) /\ MenuOk(s)
  BY <1>2, <1>5, <1>6, HintKept DEF BoxInv, BoxType, CursorOk, MenuOk
<1>8. InputOk(s)
  BY <1>6 DEF BoxInv, InputOk, MinLengthMet
<1>9. PICK late : late = IF fails THEN <<>> ELSE NonDuplicates(ta.pending[k].q)
  OBVIOUS
<1>10. late \in Seq(Text)
  <2>1. NonDuplicates(ta.pending[k].q) \in Seq(Text) /\ <<>> \in Seq(Text)
    BY SuggestionsTyped, EmptySeq, Zenon
  <2> QED
    BY <1>9, <2>1
<1>11. BoxInv(ReceiveAsync(s, ask, late))
  BY <1>7, <1>8, <1>10, ReceiveInv DEF BoxInv
<1> QED
  BY <1>3, <1>4, <1>9, <1>11 DEF AsyncSuggestions, Becomes

\* the page calls a method.
LEMMA CallStep ==
  ASSUME BoxInv(ta),
         NEW method \in {"open", "close", "activate", "deactivate", "enable", "disable"},
         CallMethod(method)
  PROVE  BoxInv(ta')
<1>1. BoxInv(Open(ta)) /\ BoxInv(Close(ta)) /\ BoxInv(Activate(ta)) /\ BoxInv(Deactivate(ta))
  BY OpenKeeps, CloseInv, ActivateInv, DeactivateInv
<1>2. ASSUME NEW b \in BOOLEAN PROVE BoxInv([ta EXCEPT !.enabled = b])
  <2>1. PICK u : u = [ta EXCEPT !.enabled = b]
    OBVIOUS
  <2>2. Agree(u, ta, {"enabled"}) /\ u.focus = ta.focus
    BY <2>1 DEF Agree, BoxFields, BoxInv, BoxType
  <2> QED
    BY <2>1, <2>2, FlagInv DEF Agree
<1>3. BoxInv([ta EXCEPT !.enabled = TRUE]) /\ BoxInv([ta EXCEPT !.enabled = FALSE])
  BY <1>2
<1> QED
  BY <1>1, <1>3 DEF CallMethod, Becomes

\* Every step of the box.
LEMMA BoxStep == ASSUME BoxInv(ta), TypeaheadNext PROVE BoxInv(ta')
<1>1. CASE Focus \/ Blur
  BY <1>1, FocusStep, BlurStep
<1>2. CASE EnterKeyed \/ TabKeyed \/ RightKeyed
  <2>1. BoxInv(Autocomplete(ta))
    BY AutocompleteTopInv
  <2>2. ASSUME ta.cursor # 0 PROVE BoxInv(Select(ta, ta.items[ta.cursor].text))
    <3>1. ta.items[ta.cursor].text \in Text
      BY <2>2 DEF BoxInv, BoxType, CursorOk, IsItems
    <3> QED
      BY <3>1, SelectInv
  <2> QED
    BY <1>2, <2>1, <2>2 DEF EnterKeyed, TabKeyed, RightKeyed, Becomes
<1>3. CASE EscKeyed
  BY <1>3, CloseInv DEF EscKeyed, Becomes
<1>4. ASSUME NEW text \in Texts, Type(text) \/ SetVal(text) PROVE BoxInv(ta')
  BY <1>4, TypeStep, SetValStep
<1>5. ASSUME NEW delta \in {-1, 1}, ArrowKeyed(delta) \/ CallMoveCursor(delta)
      PROVE  BoxInv(ta')
  <2>1. BoxInv(MoveCursor(Open(ta), delta)) /\ BoxInv(MoveCursor(ta, delta))
    BY OpenKeeps, MoveInv
  <2> QED
    BY <1>5, <2>1 DEF ArrowKeyed, CallMoveCursor, Becomes
<1>6. ASSUME NEW i \in 1..Limit, ClickSelectable(i) \/ CallSelect(i) \/ CallAutocomplete(i)
      PROVE  BoxInv(ta')
  <2>1. ta.items[i].text \in Text
    BY <1>6 DEF ClickSelectable, CallSelect, CallAutocomplete, BoxInv, BoxType, IsItems
  <2>2. /\ BoxInv(Select(ta, ta.items[i].text))
        /\ BoxInv(AutocompleteTo(ta, ta.items[i].text))
    BY <2>1, SelectInv, AutocompleteInv
  <2> QED
    BY <1>6, <2>2 DEF ClickSelectable, CallSelect, CallAutocomplete, Becomes
<1>7. CASE \E k \in 1..MaxPending, fails \in BOOLEAN : AsyncSuggestions(k, fails)
  BY <1>7, AsyncStep
<1>8. CASE \E method \in {"open", "close", "activate", "deactivate", "enable", "disable"} :
             CallMethod(method)
  BY <1>8, CallStep
<1>9. CASE Destroy \/ Initialize
  <2>1. PICK w : w = Fresh(ta.source)
    OBVIOUS
  <2>2. BoxInv(w)
    BY <2>1, FreshInv
  <2>3. PICK u : u = [w EXCEPT !.attached = FALSE]
    OBVIOUS
  <2>4. Agree(u, w, {"attached"}) /\ u.focus = w.focus
    BY <2>2, <2>3 DEF Agree, BoxFields, BoxInv, BoxType
  <2>5. BoxInv(u)
    BY <2>2, <2>4, FlagInv DEF Agree
  <2> QED
    BY <1>9, <2>1, <2>2, <2>3, <2>5 DEF Destroy, Initialize
<1> QED
  BY <1>1, <1>2, <1>3, <1>4, <1>5, <1>6, <1>7, <1>8, <1>9 DEF TypeaheadNext

-----------------------------------------------------------------------------
\* The invariant of the box, always.
LEMMA BoxInvariant == Spec => []BoxInv(ta)
<1>1. Init => BoxInv(ta)
  BY FreshInv DEF Init, TypeaheadInit
<1>2. BoxInv(ta) /\ [Next]_vars => BoxInv(ta)'
  <2> SUFFICES ASSUME BoxInv(ta), [Next]_vars PROVE BoxInv(ta')
    OBVIOUS
  <2>1. TypeaheadNext \/ ta' = ta
    BY DEF Next, vars
  <2> QED
    BY <2>1, BoxStep
<1> QED
  BY <1>1, <1>2, PTL DEF Spec

\* The hint drawn behind the input always continues the text in it, for every
\* set of suggestions and every order of keys, answers and calls of the page,
\* unless the text is one the matcher of ld.js throws on.
THEOREM HintContinues == Spec => []HintExtendsInput
<1>1. BoxInv(ta) => HintExtendsInput
  BY DEF BoxInv, HintOk, HintExtendsInput
<1> QED
  BY <1>1, BoxInvariant, PTL

\* An open menu that has been asked was last updated with the query of the input,
\* and the text in the input is the query or the suggestion under the cursor,
\* which may be that of a menu that is closed.
THEOREM MenuOfInput == Spec => []InputOfMenu
<1>1. BoxInv(ta) => InputOfMenu
  BY DEF BoxInv, CursorOk, MenuOk, InputOk, InputOfMenu
<1> QED
  BY <1>1, BoxInvariant, PTL

-----------------------------------------------------------------------------
(* The suggestions in the menu.                                            *)

Occurs(text, q, i) ==
  /\ q # <<>> /\ i + Len(q) - 1 <= Len(text)
  /\ SubSeq(text, i, i + Len(q) - 1) = q

\* The marks after the first k places of text.
MarkedUpTo(text, q, k, marks) ==
  /\ marks \subseteq 1..k
  /\ \A m \in marks : Occurs(text, q, m)
  /\ \A m, n \in marks : m < n => m + Len(q) <= n
  /\ \A a \in 1..k : Occurs(text, q, a) =>
       \E m \in marks : m <= a /\ a < m + Len(q)

\* One place more.
LEMMA MarkOne ==
  ASSUME NEW text \in Text, NEW q \in Text, NEW k \in Nat \ {0}, NEW marks,
         MarkedUpTo(text, q, k - 1, marks),
         NEW more, more = marks \cup {j \in {k} : /\ Occurs(text, q, j)
                                                 /\ \A m \in marks : m + Len(q) <= j}
  PROVE  MarkedUpTo(text, q, k, more)
<1>1. Len(q) \in Nat /\ marks \subseteq 1..k - 1 /\ marks \subseteq 1..k
  BY DEF MarkedUpTo, Text
<1>2. ASSUME Occurs(text, q, k), \A m \in marks : m + Len(q) <= k
      PROVE  MarkedUpTo(text, q, k, more)
  <2>1. more = marks \cup {k}
    BY <1>2
  <2>2. Len(q) > 0
    BY <1>2, EmptySeq DEF Occurs, Text
  <2>3. more \subseteq 1..k /\ \A m \in more : Occurs(text, q, m)
    <3>1. \A m \in marks : Occurs(text, q, m)
      BY DEF MarkedUpTo
    <3>2. \A m \in more : m \in marks \/ m = k
      BY <2>1
    <3>3. k \in 1..k /\ Occurs(text, q, k)
      BY <1>2
    <3>4. \A m \in more : m \in 1..k
      BY <1>1, <3>2, <3>3
    <3>5. \A m \in more : Occurs(text, q, m)
      BY <3>1, <3>2, <3>3, Zenon
    <3> QED
      BY <3>4, <3>5
  <2>4. ASSUME NEW m \in more, NEW n \in more, m < n PROVE m + Len(q) <= n
    <3>1. \A x \in marks : x < k /\ x \in Int
      BY <1>1
    <3>2. CASE n = k
      BY <1>2, <2>1, <2>4, <3>2
    <3>3. CASE n # k
      <4>1. n \in marks /\ m \in marks
        BY <2>1, <2>4, <3>1, <3>3
      <4> QED
        BY <2>4, <4>1 DEF MarkedUpTo
    <3> QED
      BY <3>2, <3>3
  <2>5. ASSUME NEW a \in 1..k, Occurs(text, q, a)
        PROVE  \E m \in more : m <= a /\ a < m + Len(q)
    <3>1. CASE a = k
      BY <1>1, <2>1, <2>2, <3>1
    <3>2. CASE a # k
      <4>1. a \in 1..k - 1
        BY <3>2
      <4> QED
        BY <2>1, <2>5, <4>1 DEF MarkedUpTo
    <3> QED
      BY <3>1, <3>2
  <2> QED
    BY <2>3, <2>4, <2>5 DEF MarkedUpTo
<1>3. ASSUME ~(Occurs(text, q, k) /\ \A m \in marks : m + Len(q) <= k)
      PROVE  MarkedUpTo(text, q, k, more)
  <2>1. more = marks
    BY <1>3
  <2>2. ASSUME NEW a \in 1..k, Occurs(text, q, a)
        PROVE  \E m \in more : m <= a /\ a < m + Len(q)
    <3>1. CASE a = k
      <4>1. PICK m \in marks : ~(m + Len(q) <= k)
        BY <1>3, <2>2, <3>1
      <4> QED
        BY <1>1, <2>1, <3>1, <4>1
    <3>2. CASE a # k
      <4>1. a \in 1..k - 1
        BY <3>2
      <4> QED
        BY <2>1, <2>2, <4>1 DEF MarkedUpTo
    <3> QED
      BY <3>1, <3>2
  <2>3. more \subseteq 1..k /\ \A m \in more : Occurs(text, q, m)
    BY <1>1, <2>1 DEF MarkedUpTo
  <2>4. \A m, n \in more : m < n => m + Len(q) <= n
    BY <2>1 DEF MarkedUpTo
  <2> QED
    BY <2>2, <2>3, <2>4 DEF MarkedUpTo
<1> QED
  BY <1>2, <1>3

\* highlight marks exactly the occurrences of the query, from the left.
LEMMA HighlightMarks ==
  ASSUME NEW text \in Text, NEW q \in Text
  PROVE  MarkedUpTo(text, q, Len(text), Highlight(text, q))
<1> DEFINE New(i, marks) == {j \in {i} : Occurs(text, q, j) /\ \A m \in marks : m + Len(q) <= j}
           Body(f) == [i \in 0..Len(text) |-> IF i = 0 THEN {} ELSE f[i - 1] \cup New(i, f[i - 1])]
           f == CHOOSE f : f = Body(f)
<1>1. Highlight(text, q) = f[Len(text)]
  BY DEF Highlight, Occurs
<1> HIDE DEF f, Body, New
<1>2. PICK n \in Nat : n = Len(text)
  BY DEF Text
<1>3. PICK D : D = SUBSET Nat
  OBVIOUS
<1>4. PICK g : g = [p \in D \X (1..n) |-> p[1] \cup New(p[2], p[1])]
  OBVIOUS
<1>5. \A marks \in D, i \in 1..n : /\ g[<<marks, i>>] = marks \cup New(i, marks)
                                   /\ marks \cup New(i, marks) \in D
  <2> TAKE marks \in D, i \in 1..n
  <2>1. g[<<marks, i>>] = marks \cup New(i, marks)
    BY <1>4
  <2>2. New(i, marks) \subseteq {i} /\ i \in Nat
    BY DEF New
  <2> QED
    BY <1>3, <2>1, <2>2
<1>6. {} \in D /\ g \in [D \X (1..n) -> D]
  BY <1>3, <1>4, <1>5
<1>7. PICK h \in [0..n -> D] : Turns(h, n, {}, g)
  BY <1>6, LoopRuns
<1>8. h = Body(h)
  <2>1. ASSUME NEW i \in 0..n
        PROVE  h[i] = IF i = 0 THEN {} ELSE h[i - 1] \cup New(i, h[i - 1])
    <3>1. CASE i = 0
      BY <1>7, <3>1 DEF Turns
    <3>2. CASE i # 0
      <4>1. i \in 1..n /\ i - 1 \in 0..n
        BY <3>2
      <4>2. h[i] = g[<<h[i - 1], i>>] /\ h[i - 1] \in D
        BY <1>7, <4>1 DEF Turns
      <4> QED
        BY <1>5, <3>2, <4>1, <4>2
    <3> QED
      BY <3>1, <3>2
  <2>2. h = [i \in 0..n |-> h[i]]
    OBVIOUS
  <2> QED
    BY <1>2, <2>1, <2>2, Zenon DEF Body
<1>9. f = Body(f)
  BY <1>8, Zenon DEF f
<1>10. f[0] = {} /\ \A i \in 1..n : f[i] = f[i - 1] \cup New(i, f[i - 1])
  BY <1>2, <1>9 DEF Body
<1>11. PICK P : P = {k \in 0..n : MarkedUpTo(text, q, k, f[k])}
  OBVIOUS
<1>12. 0 \in P
  BY <1>10, <1>11 DEF MarkedUpTo
<1>13. ASSUME NEW k \in 1..n, k - 1 \in P PROVE k \in P
  <2>1. f[k] = f[k - 1] \cup {j \in {k} : /\ Occurs(text, q, j)
                                          /\ \A m \in f[k - 1] : m + Len(q) <= j}
    BY <1>10 DEF New
  <2>2. MarkedUpTo(text, q, k, f[k])
    BY <1>11, <1>13, <2>1, MarkOne
  <2> QED
    BY <1>11, <2>2
<1>14. \A k \in 0..n : k \in P
  BY <1>12, <1>13, StepByStep
<1>15. n \in P
  BY <1>14
<1> QED
  BY <1>1, <1>2, <1>11, <1>15

\* An item the menu makes is marked.
LEMMA ItemMarked ==
  ASSUME NEW text \in Text, NEW q \in Text
  PROVE  Marked([text |-> text, q |-> q, marks |-> Highlight(text, q)])
<1>1. PICK it : it = [text |-> text, q |-> q, marks |-> Highlight(text, q)]
  OBVIOUS
<1>2. it.text = text /\ it.q = q /\ it.marks = Highlight(text, q)
  BY <1>1
<1>3. PICK marks : marks = Highlight(text, q)
  OBVIOUS
<1>4. MarkedUpTo(text, q, Len(text), marks)
  BY <1>3, HighlightMarks
<1>5. Len(q) \in Nat /\ Len(text) \in Nat
  BY DEF Text
<1>6. marks \subseteq 1..Len(text)
  BY <1>4 DEF MarkedUpTo
<1>7. /\ \A m \in marks : q # <<>> /\ SubSeq(text, m, m + Len(q) - 1) = q
      /\ \A m, n \in marks : m < n => m + Len(q) <= n
      /\ \A a \in 1..Len(text) : Occurs(text, q, a) =>
           \E m \in marks : m <= a /\ a < m + Len(q)
  BY <1>4 DEF MarkedUpTo, Occurs
<1>8. \A m, n \in marks : m < n => m + Len(q) - 1 < n
  BY <1>5, <1>6, <1>7
<1>9. ASSUME NEW a \in 1..Len(text) + 1 - Len(q), q # <<>>,
             SubSeq(text, a, a + Len(q) - 1) = q
      PROVE  \E m \in marks : m <= a + Len(q) - 1 /\ a <= m + Len(q) - 1
  <2>1. Len(q) > 0
    BY <1>5, <1>9, EmptySeq DEF Text
  <2>2. a \in 1..Len(text) /\ Occurs(text, q, a)
    BY <1>5, <1>9, <2>1 DEF Occurs
  <2>3. PICK m \in marks : m <= a /\ a < m + Len(q)
    BY <1>7, <2>2
  <2>4. m \in Int
    BY <1>6
  <2> QED
    BY <1>5, <2>1, <2>3, <2>4
<1>10. Marked(it)
  <2>1. \A m \in marks : /\ q # <<>> /\ SubSeq(text, m, m + Len(q) - 1) = q
                         /\ \A n \in marks : m < n => m + Len(q) - 1 < n
    BY <1>7, <1>8, Zenon
  <2>2. \A a \in 1..Len(text) + 1 - Len(q) :
          q # <<>> /\ SubSeq(text, a, a + Len(q) - 1) = q =>
            \E m \in marks : m <= a + Len(q) - 1 /\ a <= m + Len(q) - 1
    BY <1>9, Zenon
  <2>3. it.q = q /\ it.text = text /\ it.marks = marks
    BY <1>2, <1>3
  <2> QED
    BY <2>1, <2>2, <2>3, Zenon DEF Marked
<1> QED
  BY <1>1, <1>10

\* The length of a slice.
LEMMA SliceLength ==
  ASSUME NEW S, NEW s \in Seq(S), NEW n \in Int
  PROVE  /\ n >= 0 => Len(Slice(s, n)) <= n
         /\ n < 0 /\ Len(s) + n >= 0 => Len(Slice(s, n)) <= Len(s) + n
<1>1. PICK end : end = IF n < 0 THEN Len(s) + n ELSE n
  OBVIOUS
<1>2. PICK m : m = Min({Len(s), end})
  OBVIOUS
<1>3. Len(s) \in Nat /\ end \in Int
  BY <1>1
<1>4. m \in {Len(s), end} /\ \A y \in {Len(s), end} : m <= y
  <2>1. \E x \in {Len(s), end} : \A y \in {Len(s), end} : x <= y
    BY <1>3
  <2> QED
    BY <1>2, <2>1 DEF Min
<1>5. m \in Int /\ m <= Len(s) /\ m <= end
  BY <1>3, <1>4
<1>6. Slice(s, n) = SubSeq(s, 1, m)
  BY <1>1, <1>2 DEF Slice
<1>7. Len(SubSeq(s, 1, m)) = IF 1 <= m THEN m - 1 + 1 ELSE 0
  <2>1. \A i \in 1..m : s[i] \in S
    BY <1>3, <1>5
  <2> QED
    BY <1>5, <2>1, SubSeqProperties
<1> QED
  BY <1>1, <1>3, <1>5, <1>6, <1>7

\* What is left when one element is removed.
LEMMA RemoveAtElements ==
  ASSUME NEW S, NEW s \in Seq(S), NEW k \in DOMAIN s
  PROVE  /\ Len(RemoveAt(s, k)) = Len(s) - 1
         /\ \A j \in 1..Len(s) - 1 : RemoveAt(s, k)[j] = IF j < k THEN s[j] ELSE s[j + 1]
<1>1. Len(s) \in Nat /\ k \in 1..Len(s)
  OBVIOUS
<1>2. PICK a : a = SubSeq(s, 1, k - 1)
  OBVIOUS
<1>3. PICK b : b = SubSeq(s, k + 1, Len(s))
  OBVIOUS
<1>4. a \in Seq(S) /\ Len(a) = k - 1 /\ \A i \in 1..k - 1 : a[i] = s[i]
  <2>1. k - 1 \in Int /\ \A i \in 1..k - 1 : s[i] \in S
    BY <1>1
  <2> QED
    BY <1>1, <1>2, <2>1, SubSeqProperties
<1>5. b \in Seq(S) /\ Len(b) = Len(s) - k /\ \A i \in 1..Len(s) - k : b[i] = s[k + i]
  <2>1. k + 1 \in Int /\ Len(s) \in Int /\ \A i \in k + 1..Len(s) : s[i] \in S
    BY <1>1
  <2>2. /\ b \in Seq(S)
        /\ Len(b) = IF k + 1 <= Len(s) THEN Len(s) - (k + 1) + 1 ELSE 0
        /\ \A i \in 1..Len(s) - (k + 1) + 1 : b[i] = s[k + 1 + i - 1]
    BY <1>3, <2>1, SubSeqProperties
  <2>3. \A i \in 1..Len(s) - k : i \in 1..Len(s) - (k + 1) + 1 /\ k + 1 + i - 1 = k + i
    BY <1>1
  <2> QED
    BY <1>1, <2>2, <2>3
<1>6. RemoveAt(s, k) = a \o b
  BY <1>2, <1>3 DEF RemoveAt
<1>7. Len(a \o b) = Len(s) - 1
  BY <1>1, <1>4, <1>5, ConcatProperties
<1>8. ASSUME NEW j \in 1..Len(s) - 1 PROVE (a \o b)[j] = IF j < k THEN s[j] ELSE s[j + 1]
  <2>0. j \in 1..Len(a) + Len(b)
    BY <1>1, <1>4, <1>5
  <2>1. j \in 1..Len(a) + Len(b) /\ (a \o b)[j] = IF j <= Len(a) THEN a[j] ELSE b[j - Len(a)]
    BY <1>4, <1>5, <2>0, ConcatProperties, Zenon
  <2>2. CASE j < k
    BY <1>1, <1>4, <2>1, <2>2
  <2>3. CASE ~(j < k)
    <3>1. j - (k - 1) \in 1..Len(s) - k /\ k + (j - (k - 1)) = j + 1
      BY <1>1, <2>3
    <3>2. (a \o b)[j] = b[j - (k - 1)]
      BY <1>1, <1>4, <2>1, <2>3
    <3> QED
      BY <1>5, <2>3, <3>1, <3>2
  <2> QED
    BY <2>2, <2>3
<1> QED
  BY <1>6, <1>7, <1>8

\* The items answer the query asked, and the one update that is not canceled is
\* the last, which counts them all.
ItemsSound(w) ==
  /\ Len(w.items) <= Limit
  /\ \A i \in DOMAIN w.items :
       /\ w.items[i].q \in w.asked \/ \E q \in w.asked : Throws(w, q)
       /\ Marked(w.items[i])
  /\ \A k \in DOMAIN w.pending : ~w.pending[k].canceled =>
       /\ k = Len(w.pending) /\ w.asked = {w.pending[k].q}
       /\ Len(w.items) <= w.pending[k].rendered

\* The items are sound whatever the other parts of the box are.
LEMMA SameItems ==
  ASSUME NEW w, ItemsSound(w), NEW X,
         X \cap {"source", "items", "asked", "pending"} = {},
         NEW u, Agree(u, w, X)
  PROVE  ItemsSound(u)
<1>1. /\ u.items = w.items /\ u.asked = w.asked /\ u.pending = w.pending
      /\ u.source = w.source
  BY DEF Agree, BoxFields
<1> QED
  BY <1>1 DEF ItemsSound, Throws, IsAsync

\* Items made for a query are of it, and marked for it.
LEMMA ItemsMade ==
  ASSUME NEW q \in Text, NEW found \in Seq(Text)
  PROVE  /\ Len(Items(q, found)) = Len(found)
         /\ \A i \in DOMAIN Items(q, found) : /\ Items(q, found)[i].q = q
                                              /\ Marked(Items(q, found)[i])
<1>1. /\ Len(found) \in Nat /\ DOMAIN found = 1..Len(found)
      /\ \A i \in DOMAIN found : found[i] \in Text
  OBVIOUS
<1>2. PICK items : items = Items(q, found)
  OBVIOUS
<1>3. /\ DOMAIN items = DOMAIN found
      /\ \A i \in DOMAIN found :
           items[i] = [text |-> found[i], q |-> q, marks |-> Highlight(found[i], q)]
  BY <1>2 DEF Items
<1>4. items \in Seq(ToSet(items))
  BY <1>2, ItemsOfTexts DEF IsItems
<1>5. Len(items) = Len(found)
  BY <1>1, <1>3, <1>4
<1>6. \A i \in DOMAIN found : items[i].q = q /\ Marked(items[i])
  <2> TAKE i \in DOMAIN found
  <2>1. Marked([text |-> found[i], q |-> q, marks |-> Highlight(found[i], q)])
    BY <1>1, ItemMarked
  <2> QED
    BY <1>3, <2>1
<1> QED
  BY <1>2, <1>3, <1>5, <1>6

\* Cancel leaves no update that is not canceled.
LEMMA CancelAll ==
  ASSUME NEW w, BoxType(w), NEW k \in DOMAIN Cancel(w).pending
  PROVE  Cancel(w).pending[k].canceled
<1>1. w.pending \in Seq(Ask) /\ DOMAIN w = BoxFields
  BY DEF BoxType
<1>2. PICK p : p = [j \in DOMAIN w.pending |-> [w.pending[j] EXCEPT !.canceled = TRUE]]
  OBVIOUS
<1>3. Cancel(w).pending = p
  BY <1>1, <1>2 DEF Cancel, BoxFields
<1>4. \A j \in DOMAIN w.pending : w.pending[j] \in Ask
  BY <1>1
<1>5. \A a \in Ask : [a EXCEPT !.canceled = TRUE].canceled
  BY DEF Ask
<1> QED
  BY <1>2, <1>3, <1>4, <1>5

\* The items of an update are of its query and within the limit, or, if the
\* source throws, those there were,
LEMMA UpdateDatasetSound ==
  ASSUME NEW w, BoxType(w), NEW q \in Text, w.asked = {q},
         Len(w.items) <= Limit, \A i \in DOMAIN w.items : Marked(w.items[i])
  PROVE  ItemsSound(UpdateDataset(w, q))
<1>0. CASE Throws(w, q)
  <2>1. PICK c : c = Cancel(w)
    OBVIOUS
  <2>2. Agree(c, w, {"pending"}) /\ \A k \in DOMAIN c.pending : c.pending[k].canceled
    BY <2>1, CancelFacts, CancelAll
  <2>3. c.items = w.items /\ c.asked = {q} /\ Throws(c, q)
    BY <1>0, <2>2 DEF Agree, BoxFields, Throws, IsAsync
  <2>4. UpdateDataset(w, q) = c
    BY <1>0, <2>1 DEF UpdateDataset
  <2> QED
    BY <2>2, <2>3, <2>4 DEF ItemsSound
<1>1. PICK found : found = Slice(SyncSuggestions(w, q), Limit)
  OBVIOUS
<1>2. PICK ask : ask = [q |-> q, rendered |-> Len(found), canceled |-> FALSE]
  OBVIOUS
<1>3. PICK asks : asks = IF IsAsync(w) THEN <<ask>> ELSE <<>>
  OBVIOUS
<1>4. found \in Seq(Text) /\ Len(found) \in Nat /\ Len(found) <= Limit
  <2>1. SyncSuggestions(w, q) \in Seq(Text)
    BY SuggestionsTyped, Zenon
  <2>2. Limit \in Int /\ Limit >= 0
    BY TypeaheadAssumption
  <2> QED
    BY <1>1, <2>1, <2>2, SliceSeq, SliceLength, LenProperties
<1>5. /\ ask \in Ask /\ ask.q = q /\ ask.rendered = Len(found) /\ asks \in Seq(Ask)
      /\ \A j \in DOMAIN asks : j = 1 /\ Len(asks) = 1 /\ asks[j] = ask
  <2>1. ask \in Ask /\ ask.q = q /\ ask.rendered = Len(found)
    BY <1>2, <1>4 DEF Ask
  <2> QED
    BY <1>3, <2>1
<1>6. PICK c : c = Cancel(w)
  OBVIOUS
<1>7. /\ Agree(c, w, {"pending"}) /\ c.pending \in Seq(Ask)
      /\ \A k \in DOMAIN c.pending : c.pending[k].canceled
  BY <1>6, CancelFacts, CancelAll
<1>8. PICK u : u = [c EXCEPT !.items = Items(q, found), !.cursor = 0,
                             !.message = found = <<>> /\ ~IsAsync(w),
                             !.pending = @ \o asks]
  OBVIOUS
<1>9. ~Throws(w, q) => UpdateDataset(w, q) = Rendered(u)
  BY <1>1, <1>2, <1>3, <1>6, <1>8 DEF UpdateDataset
<1>10. /\ DOMAIN u = BoxFields /\ u.value = w.value /\ u.query = w.query
       /\ u.items = Items(q, found) /\ u.pending = c.pending \o asks /\ u.asked = {q}
  BY <1>7, <1>8 DEF Agree, BoxFields
<1>11. u.pending \in Seq(Ask)
  BY <1>5, <1>7, <1>10
<1>12. BoxType(u)
  <2>1. IsItems(u.items)
    BY <1>4, <1>10, ItemsOfTexts
  <2> QED
    BY <1>10, <1>11, <2>1 DEF BoxType
<1>13. /\ Len(u.items) = Len(found)
       /\ \A i \in DOMAIN u.items : u.items[i].q = q /\ Marked(u.items[i])
  BY <1>4, <1>10, ItemsMade
<1>14. ASSUME NEW k \in DOMAIN u.pending, ~u.pending[k].canceled
       PROVE  k = Len(u.pending) /\ u.pending[k] = ask
  <2>0. /\ Len(c.pending) \in Nat /\ DOMAIN c.pending = 1..Len(c.pending)
        /\ Len(asks) \in Nat /\ DOMAIN asks = 1..Len(asks)
    BY <1>5, <1>7
  <2>p. PICK p : p = c.pending \o asks
    OBVIOUS
  <2>q. Len(p) = Len(c.pending) + Len(asks) /\ p \in Seq(Ask)
        /\ \A i \in 1..Len(c.pending) + Len(asks) :
             p[i] = IF i <= Len(c.pending) THEN c.pending[i] ELSE asks[i - Len(c.pending)]
    BY ONLY <1>5, <1>7, <2>p, ConcatProperties
  <2>r. u.pending = p
    BY <1>10, <2>p
  <2>s. k \in 1..Len(c.pending) + Len(asks)
    BY <1>14, <2>q, <2>r
  <2>1. /\ Len(u.pending) = Len(c.pending) + Len(asks) /\ k \in 1..Len(c.pending) + Len(asks)
        /\ u.pending[k] = IF k <= Len(c.pending) THEN c.pending[k]
                          ELSE asks[k - Len(c.pending)]
        /\ Len(c.pending) \in Nat /\ DOMAIN c.pending = 1..Len(c.pending)
        /\ Len(asks) \in Nat /\ DOMAIN asks = 1..Len(asks)
    BY <2>0, <2>q, <2>r, <2>s
  <2>2. ~(k <= Len(c.pending))
    BY <1>7, <1>14, <2>1
  <2>3. PICK j : j = k - Len(c.pending)
    OBVIOUS
  <2>4. j \in 1..Len(asks)
    BY <2>1, <2>2, <2>3
  <2>5. j = 1 /\ Len(asks) = 1 /\ asks[j] = ask
    BY <1>5, <2>0, <2>4
  <2>6. u.pending[k] = asks[j]
    BY <2>1, <2>2, <2>3
  <2>7. k = Len(c.pending) + j
    BY <2>1, <2>3, <2>4
  <2> QED
    BY <2>1, <2>5, <2>6, <2>7
<1>15. ItemsSound(u)
  BY <1>4, <1>5, <1>10, <1>13, <1>14 DEF ItemsSound
<1>16. Agree(Rendered(u), u, {"shown", "hint"})
  BY <1>12, RenderedFacts
<1> QED
  BY <1>0, <1>9, <1>15, <1>16, SameItems

\* and so are those of the menu,
LEMMA MenuUpdateSound ==
  ASSUME NEW w, BoxType(w), ItemsSound(w), NEW q \in Text
  PROVE  ItemsSound(MenuUpdate(w, q))
<1>1. PICK own : own = [w EXCEPT !.unasked = FALSE]
  OBVIOUS
<1>2. Agree(own, w, {"unasked"})
  BY <1>1 DEF Agree, BoxFields, BoxType
<1>3. BoxType(own) /\ ItemsSound(own)
  BY <1>2, AgreeTyped, SameItems
<1>4. PICK v : v = [own EXCEPT !.asked = {q}]
  OBVIOUS
<1>5. Agree(v, own, {"asked"}) /\ v.asked = {q}
  BY <1>3, <1>4 DEF Agree, BoxFields, BoxType
<1>6. BoxType(v)
  BY <1>3, <1>5, AgreeTyped
<1>7. ItemsSound(UpdateDataset(v, q))
  <2>1. v.items = own.items
    BY <1>5 DEF Agree, BoxFields
  <2> QED
    BY <1>3, <1>5, <1>6, <2>1, UpdateDatasetSound DEF ItemsSound
<1> QED
  BY <1>1, <1>3, <1>4, <1>7 DEF MenuUpdate

\* which may be emptied.
LEMMA MenuEmptySound ==
  ASSUME NEW w, BoxType(w)
  PROVE  ItemsSound(MenuEmpty(w))
<1>1. PICK c : c = Cancel(w)
  OBVIOUS
<1>2. /\ Agree(c, w, {"pending"}) /\ c.pending \in Seq(Ask)
      /\ \A k \in DOMAIN c.pending : c.pending[k].canceled
  BY <1>1, CancelFacts, CancelAll
<1>3. PICK v : v = [c EXCEPT !.items = <<>>, !.message = FALSE, !.cursor = 0]
  OBVIOUS
<1>4. /\ DOMAIN v = BoxFields /\ v.value = w.value /\ v.query = w.query
      /\ v.items = <<>> /\ v.pending = c.pending
  BY <1>2, <1>3 DEF Agree, BoxFields
<1>5. IsItems(<<>>)
  BY DEF IsItems
<1>6. BoxType(v)
  BY <1>2, <1>4, <1>5 DEF BoxType
<1>7. PICK r : r = Rendered(v)
  OBVIOUS
<1>8. Agree(r, v, {"shown", "hint"})
  BY <1>6, <1>7, RenderedFacts
<1>9. PICK u : u = [r EXCEPT !.asked = {}, !.unasked = FALSE]
  OBVIOUS
<1>10. u.items = <<>> /\ u.pending = c.pending
  BY <1>4, <1>8, <1>9 DEF Agree, BoxFields
<1>11. Len(<<>>) = 0 /\ DOMAIN <<>> = {} /\ 0 <= Limit
  BY TypeaheadAssumption
<1>12. ItemsSound(u)
  BY <1>2, <1>10, <1>11 DEF ItemsSound
<1> QED
  BY <1>1, <1>3, <1>7, <1>9, <1>12 DEF MenuEmpty

\* Opening keeps the items,
LEMMA OpenSound ==
  ASSUME NEW w, BoxType(w), ItemsSound(w)
  PROVE  ItemsSound(Open(w)) /\ BoxType(Open(w))
<1>1. Agree(Open(w), w, {"open", "shown", "hint", "unasked"}) /\ BoxType(Open(w))
  BY OpenFacts
<1> QED
  BY <1>1, SameItems

\* so does closing,
LEMMA CloseSound ==
  ASSUME NEW w, BoxType(w), ItemsSound(w)
  PROVE  ItemsSound(Close(w))
<1>1. Agree(Close(w), w, {"open", "shown", "cursor", "hint", "unasked", "value"})
  BY CloseFacts
<1> QED
  BY <1>1, SameItems

\* writing the input,
LEMMA SetInputSound ==
  ASSUME NEW w, BoxType(w), ItemsSound(w), NEW value
  PROVE  /\ ItemsSound(SetInputValue(w, value))
         /\ value \in Text => BoxType(SetInputValue(w, value))
<1>1. PICK s : s = SetInputValue(w, value)
  OBVIOUS
<1>2. Agree(s, w, {"hint", "value"}) /\ s.value = value
  BY <1>1, SetInputFacts DEF BoxType
<1>3. ItemsSound(s)
  BY <1>2, SameItems
<1>4. /\ s.query = w.query /\ s.items = w.items /\ s.pending = w.pending
      /\ DOMAIN s = BoxFields
  BY <1>2 DEF Agree, BoxFields
<1>5. value \in Text => BoxType(s)
  BY <1>2, <1>4 DEF BoxType
<1> QED
  BY <1>1, <1>3, <1>5

\* the hint,
LEMMA UpdateHintSound ==
  ASSUME NEW w, BoxType(w), ItemsSound(w)
  PROVE  ItemsSound(UpdateHint(w))
<1>1. Agree(UpdateHint(w), w, {"hint"})
  BY UpdateHintFacts
<1> QED
  BY <1>1, SameItems

\* a new query,
LEMMA SetQuerySound ==
  ASSUME NEW w, BoxType(w), ItemsSound(w), NEW q \in Text
  PROVE  ItemsSound(SetQuery(w, q)) /\ BoxType(SetQuery(w, q))
<1>1. PICK s : s = [w EXCEPT !.query = q]
  OBVIOUS
<1>2. Agree(s, w, {"query"}) /\ s.query = q
  BY <1>1 DEF Agree, BoxFields, BoxType
<1>3. /\ DOMAIN s = BoxFields /\ s.value = w.value /\ s.items = w.items
      /\ s.pending = w.pending
  BY <1>2 DEF Agree, BoxFields
<1>4. BoxType(s)
  BY <1>2, <1>3 DEF BoxType
<1>5. ItemsSound(s)
  BY <1>2, SameItems
<1>6. PICK o : o = OpenIfActive(s)
  OBVIOUS
<1>7. o = s \/ o = Open(s)
  BY <1>6 DEF OpenIfActive
<1>8. BoxType(o) /\ ItemsSound(o)
  BY <1>4, <1>5, <1>7, OpenSound
<1>9. o.query = q
  <2>1. Agree(Open(s), s, {"open", "shown", "hint", "unasked"})
    BY <1>4, OpenFacts
  <2> QED
    BY <1>2, <1>7, <2>1 DEF Agree, BoxFields
<1>10. BoxType(OnQueryChanged(o)) /\ ItemsSound(OnQueryChanged(o))
  <2>1. BoxType(MenuUpdate(o, q)) /\ ItemsSound(MenuUpdate(o, q))
    BY <1>8, MenuUpdateFacts, MenuUpdateSound DEF MenuUpdated
  <2>2. BoxType(MenuEmpty(o)) /\ ItemsSound(MenuEmpty(o))
    BY <1>8, MenuEmptyFacts, MenuEmptySound
  <2> QED
    BY <1>9, <2>1, <2>2 DEF OnQueryChanged
<1>11. BoxType(UpdateHint(o)) /\ ItemsSound(UpdateHint(o))
  BY <1>8, UpdateHintFacts, UpdateHintSound, AgreeTyped
<1> QED
  BY <1>1, <1>4, <1>5, <1>6, <1>10, <1>11 DEF SetQuery

\* a selection,
LEMMA SelectSound ==
  ASSUME NEW w, BoxType(w), ItemsSound(w), NEW text \in Text
  PROVE  ItemsSound(Select(w, text))
<1>1. PICK s : s = SetInputValue(w, text)
  OBVIOUS
<1>2. BoxType(s) /\ ItemsSound(s)
  BY <1>1, SetInputSound
<1>3. PICK t : t = [s EXCEPT !.query = text]
  OBVIOUS
<1>4. Agree(t, s, {"query"}) /\ t.query = text
  BY <1>2, <1>3 DEF Agree, BoxFields, BoxType
<1>5. /\ DOMAIN t = BoxFields /\ t.value = s.value /\ t.items = s.items
      /\ t.pending = s.pending
  BY <1>4 DEF Agree, BoxFields
<1>6. BoxType(t) /\ ItemsSound(t)
  BY <1>2, <1>4, <1>5, SameItems DEF BoxType
<1> QED
  BY <1>1, <1>3, <1>6, CloseSound DEF Select

\* a completion,
LEMMA AutocompleteSound ==
  ASSUME NEW w, BoxType(w), ItemsSound(w)
  PROVE  /\ \A text \in Text : ItemsSound(AutocompleteTo(w, text))
         /\ ItemsSound(Autocomplete(w))
<1>1. ASSUME NEW text \in Text PROVE ItemsSound(AutocompleteTo(w, text))
  <2>1. BoxType(SetInputValue(w, text)) /\ ItemsSound(SetInputValue(w, text))
    BY SetInputSound
  <2> QED
    BY <2>1, SetQuerySound DEF AutocompleteTo
<1>2. w.items # <<>> => w.items[1].text \in Text
  BY ItemsFacts DEF BoxType
<1> QED
  BY <1>1, <1>2 DEF Autocomplete

\* a move of the cursor,
LEMMA MoveSound ==
  ASSUME NEW w, BoxType(w), ItemsSound(w), NEW delta
  PROVE  ItemsSound(MoveCursor(w, delta))
<1>1. PICK at : at = (w.cursor + delta) % (Len(w.items) + 1)
  OBVIOUS
<1>2. PICK m : m = [w EXCEPT !.cursor = at]
  OBVIOUS
<1>3. Agree(m, w, {"cursor"}) /\ w.query \in Text
  BY <1>2 DEF Agree, BoxFields, BoxType
<1>4. BoxType(m) /\ ItemsSound(m) /\ m.query \in Text
  BY <1>3, AgreeTyped, SameItems DEF BoxType
<1>5. ItemsSound(MenuUpdate(w, w.query))
  BY <1>3, MenuUpdateSound
<1>6. ItemsSound(SetInputValue(m, w.items[at].text))
  BY <1>4, SetInputSound
<1>7. ItemsSound(UpdateHint(ResetInputValue(m)))
  BY <1>4, SetInputSound, UpdateHintSound DEF ResetInputValue
<1> QED
  BY <1>1, <1>2, <1>5, <1>6, <1>7 DEF MoveCursor

\* An answer to the update that is not canceled: what it adds counts for the
\* limit, and no other update is left that is not canceled.
LEMMA ReceiveSound ==
  ASSUME NEW w, BoxType(w), ItemsSound(w), NEW ask \in Ask, NEW suggestions \in Seq(Text),
         ~ask.canceled => /\ w.asked = {ask.q} /\ Len(w.items) <= ask.rendered
                          /\ \A k \in DOMAIN w.pending : w.pending[k].canceled
  PROVE  ItemsSound(ReceiveAsync(w, ask, suggestions))
<1>1. CASE ask.canceled \/ ask.rendered >= Limit
  BY <1>1 DEF ReceiveAsync
<1>2. CASE ~(ask.canceled \/ ask.rendered >= Limit)
  <2>1. PICK n : n = Limit - (ask.rendered + Len(suggestions))
    OBVIOUS
  <2>2. PICK more : more = Slice(suggestions, n)
    OBVIOUS
  <2>3. /\ ask.rendered \in Nat /\ Len(suggestions) \in Nat /\ Limit \in Nat /\ n \in Int
        /\ ask.q \in Text /\ ask.rendered < Limit
    BY <1>2, <2>1, TypeaheadAssumption DEF Ask
  <2>4. more \in Seq(Text) /\ Len(more) \in Nat /\ Len(more) <= Limit - ask.rendered
    <3>1. more \in Seq(Text) /\ Len(more) \in Nat
      BY <2>2, <2>3, SliceSeq, LenProperties
    <3>2. /\ n >= 0 => Len(more) <= n
          /\ n < 0 /\ Len(suggestions) + n >= 0 => Len(more) <= Len(suggestions) + n
      BY <2>2, <2>3, SliceLength
    <3>3. Len(suggestions) + n = Limit - ask.rendered /\ n <= Limit - ask.rendered
      BY <2>1, <2>3
    <3> QED
      BY <2>3, <3>1, <3>2, <3>3
  <2>5. PICK added : added = Items(ask.q, more)
    OBVIOUS
  <2>6. /\ IsItems(added) /\ Len(added) = Len(more)
        /\ \A i \in DOMAIN added : added[i].q = ask.q /\ Marked(added[i])
    BY <2>3, <2>4, <2>5, ItemsOfTexts, ItemsMade
  <2>7. PICK v : v = [w EXCEPT !.items = @ \o added,
                               !.message = (@ \/ w.items = <<>>) /\ added = <<>>]
    OBVIOUS
  <2>8. ReceiveAsync(w, ask, suggestions) = Rendered(v)
    BY <1>2, <2>1, <2>2, <2>5, <2>7 DEF ReceiveAsync
  <2>9. Agree(v, w, {"items", "message"}) /\ v.items = w.items \o added
    BY <2>7 DEF Agree, BoxFields, BoxType
  <2>10. /\ DOMAIN v = BoxFields /\ v.value = w.value /\ v.query = w.query
         /\ v.pending = w.pending /\ v.asked = w.asked
    BY <2>9 DEF Agree, BoxFields
  <2>11. IsItems(w.items)
    BY DEF BoxType
  <2>12. IsItems(v.items)
    BY <2>6, <2>9, <2>11, ConcatItems
  <2>13. BoxType(v)
    BY <2>10, <2>12 DEF BoxType
  <2>14. PICK E : w.items \in Seq(E) /\ added \in Seq(E)
    <3>1. w.items \in Seq(ToSet(w.items) \cup ToSet(added))
      BY <2>11, SeqMonotonic DEF IsItems
    <3>2. added \in Seq(ToSet(w.items) \cup ToSet(added))
      BY <2>6, SeqMonotonic DEF IsItems
    <3> QED
      BY <3>1, <3>2
  <2>15. PICK s : s = w.items \o added
    OBVIOUS
  <2>16. /\ Len(s) = Len(w.items) + Len(added) /\ s \in Seq(E)
         /\ \A i \in 1..Len(w.items) + Len(added) :
              s[i] = IF i <= Len(w.items) THEN w.items[i] ELSE added[i - Len(w.items)]
    BY ONLY <2>14, <2>15, ConcatProperties
  <2>17. /\ Len(w.items) \in Nat /\ DOMAIN w.items = 1..Len(w.items)
         /\ Len(added) \in Nat /\ DOMAIN added = 1..Len(added)
         /\ DOMAIN s = 1..Len(s)
    BY <2>14, <2>16, LenProperties
  <2>18. /\ w.asked = {ask.q} /\ Len(w.items) <= ask.rendered
         /\ \A k \in DOMAIN w.pending : w.pending[k].canceled
    BY <1>2
  <2>19. Len(s) <= Limit
    BY <2>3, <2>4, <2>6, <2>16, <2>17, <2>18
  <2>20. ASSUME NEW i \in DOMAIN s
         PROVE  /\ s[i].q \in w.asked \/ \E q \in w.asked : Throws(w, q)
                /\ Marked(s[i])
    <3>1. i \in 1..Len(w.items) + Len(added)
      BY <2>16, <2>17, <2>20
    <3>2. CASE i <= Len(w.items)
      <4>1. s[i] = w.items[i] /\ i \in DOMAIN w.items
        BY <2>16, <2>17, <3>1, <3>2
      <4> QED
        BY <4>1 DEF ItemsSound
    <3>3. CASE ~(i <= Len(w.items))
      <4>1. PICK j : j = i - Len(w.items)
        OBVIOUS
      <4>2. s[i] = added[j] /\ j \in DOMAIN added
        BY <2>16, <2>17, <3>1, <3>3, <4>1
      <4> QED
        BY <2>6, <2>18, <4>2
    <3> QED
      BY <3>2, <3>3
  <2>21. /\ v.items = s /\ v.pending = w.pending /\ v.asked = w.asked
         /\ \A q : Throws(v, q) <=> Throws(w, q)
    BY <2>9, <2>10, <2>15 DEF Throws, IsAsync, Agree, BoxFields
  <2>22. ItemsSound(v)
    BY <2>18, <2>19, <2>20, <2>21 DEF ItemsSound
  <2>23. Agree(Rendered(v), v, {"shown", "hint"})
    BY <2>13, RenderedFacts
  <2> QED
    BY <2>8, <2>22, <2>23, SameItems
<1> QED
  BY <1>1, <1>2

\* a late answer,
LEMMA AsyncSound ==
  ASSUME BoxType(ta), ItemsSound(ta), NEW k, NEW fails \in BOOLEAN,
         AsyncSuggestions(k, fails)
  PROVE  ItemsSound(ta')
<1>1. ta.pending \in Seq(Ask) /\ k \in DOMAIN ta.pending /\ DOMAIN ta = BoxFields
  BY DEF AsyncSuggestions, BoxType
<1>2. PICK n \in Nat : n = Len(ta.pending) /\ DOMAIN ta.pending = 1..n
  BY <1>1, LenProperties
<1>3. PICK rest \in Seq(Ask) : rest = RemoveAt(ta.pending, k)
  BY <1>1, RemoveAtSeq
<1>4. /\ DOMAIN rest = 1..n - 1
      /\ \A j \in 1..n - 1 : rest[j] = IF j < k THEN ta.pending[j] ELSE ta.pending[j + 1]
  <2>1. Len(rest) = n - 1
    BY <1>1, <1>2, <1>3, RemoveAtElements
  <2>2. \A j \in 1..Len(ta.pending) - 1 :
          rest[j] = IF j < k THEN ta.pending[j] ELSE ta.pending[j + 1]
    BY <1>1, <1>3, RemoveAtElements
  <2>3. DOMAIN rest = 1..Len(rest)
    BY <1>3
  <2> QED
    BY <1>2, <2>1, <2>2, <2>3
<1>5. PICK ask \in Ask : ask = ta.pending[k]
  BY <1>1
<1>6. PICK s : s = [ta EXCEPT !.pending = RemoveAt(@, k)]
  OBVIOUS
<1>7. Agree(s, ta, {"pending"}) /\ s.pending = rest
  BY <1>1, <1>3, <1>6 DEF Agree, BoxFields
<1>8. /\ DOMAIN s = BoxFields /\ s.query = ta.query /\ s.items = ta.items
      /\ s.value = ta.value /\ s.asked = ta.asked
  BY <1>7 DEF Agree, BoxFields
<1>9. BoxType(s)
  BY <1>3, <1>7, <1>8 DEF BoxType
<1>10. \A j \in 1..n : ~ta.pending[j].canceled =>
         /\ j = n /\ ta.asked = {ta.pending[j].q}
         /\ Len(ta.items) <= ta.pending[j].rendered
  BY <1>2 DEF ItemsSound
<1>11. ASSUME NEW j \in 1..n - 1, ~rest[j].canceled
       PROVE  /\ j = n - 1 /\ ta.asked = {rest[j].q} /\ Len(ta.items) <= rest[j].rendered
              /\ k # n
  <2>1. k \in 1..n
    BY <1>1, <1>2
  <2>2. j < k => rest[j] = ta.pending[j] /\ j \in 1..n /\ j # n
    BY <1>4, <1>11
  <2>3. ~(j < k)
    BY <1>10, <1>11, <2>2
  <2>4. rest[j] = ta.pending[j + 1] /\ j + 1 \in 1..n
    BY <1>4, <1>11, <2>3
  <2>5. j + 1 = n /\ ta.asked = {rest[j].q} /\ Len(ta.items) <= rest[j].rendered
    BY <1>10, <1>11, <2>4
  <2> QED
    BY <2>1, <2>3, <2>5
<1>12. ItemsSound(s)
  <2>0. s.source = ta.source
    BY <1>7 DEF Agree, BoxFields
  <2>1. /\ Len(s.items) <= Limit
        /\ \A i \in DOMAIN s.items :
             /\ s.items[i].q \in s.asked \/ \E q \in s.asked : Throws(s, q)
             /\ Marked(s.items[i])
    BY <1>8, <2>0 DEF ItemsSound, Throws, IsAsync
  <2>2. Len(s.pending) = n - 1 /\ DOMAIN s.pending = 1..n - 1
    BY <1>1, <1>2, <1>3, <1>4, <1>7, RemoveAtElements
  <2>3. \A j \in DOMAIN s.pending : ~s.pending[j].canceled =>
          /\ j = Len(s.pending) /\ s.asked = {s.pending[j].q}
          /\ Len(s.items) <= s.pending[j].rendered
    BY <1>7, <1>8, <1>11, <2>2
  <2> QED
    BY <2>1, <2>3 DEF ItemsSound
<1>13. ~ask.canceled => /\ s.asked = {ask.q} /\ Len(s.items) <= ask.rendered
                        /\ \A j \in DOMAIN s.pending : s.pending[j].canceled
  <2> SUFFICES ASSUME ~ask.canceled
               PROVE  /\ s.asked = {ask.q} /\ Len(s.items) <= ask.rendered
                      /\ \A j \in DOMAIN s.pending : s.pending[j].canceled
    OBVIOUS
  <2>1. k = n /\ ta.asked = {ask.q} /\ Len(ta.items) <= ask.rendered
    BY <1>1, <1>2, <1>5, <1>10
  <2>2. \A j \in DOMAIN s.pending : s.pending[j].canceled
    BY <1>4, <1>7, <1>11, <2>1
  <2> QED
    BY <1>8, <2>1, <2>2
<1>14. PICK late : late = IF fails THEN <<>> ELSE NonDuplicates(ta.pending[k].q)
  OBVIOUS
<1>15. late \in Seq(Text)
  <2>1. NonDuplicates(ta.pending[k].q) \in Seq(Text) /\ <<>> \in Seq(Text)
    BY SuggestionsTyped, EmptySeq, Zenon
  <2> QED
    BY <1>14, <2>1
<1>16. ItemsSound(ReceiveAsync(s, ask, late))
  BY <1>9, <1>12, <1>13, <1>15, ReceiveSound
<1> QED
  BY <1>5, <1>6, <1>14, <1>16 DEF AsyncSuggestions, Becomes

\* deactivating,
LEMMA DeactivateSound ==
  ASSUME NEW w, BoxType(w), ItemsSound(w)
  PROVE  ItemsSound(Deactivate(w))
<1>1. PICK u : u = [w EXCEPT !.active = FALSE]
  OBVIOUS
<1>2. Agree(u, w, {"active"})
  BY <1>1 DEF Agree, BoxFields, BoxType
<1>3. BoxType(u) /\ ItemsSound(u)
  BY <1>2, AgreeTyped, SameItems
<1> QED
  BY <1>1, <1>3, CloseSound DEF Deactivate

\* activating,
LEMMA ActivateSound ==
  ASSUME NEW w, BoxType(w), ItemsSound(w)
  PROVE  ItemsSound(Activate(w)) /\ BoxType(Activate(w))
<1>1. PICK u : u = Activate(w)
  OBVIOUS
<1>2. Agree(u, w, {"active"})
  BY <1>1 DEF Activate, Agree, BoxFields, BoxType
<1> QED
  BY <1>1, <1>2, AgreeTyped, SameItems

\* the focus,
LEMMA FocusSound == ASSUME BoxType(ta), ItemsSound(ta), Focus PROVE ItemsSound(ta')
<1>1. PICK f : f = [ta EXCEPT !.focus = TRUE]
  OBVIOUS
<1>2. Agree(f, ta, {"focus"})
  BY <1>1 DEF Agree, BoxFields, BoxType
<1>3. BoxType(f) /\ ItemsSound(f)
  BY <1>2, AgreeTyped, SameItems
<1>4. PICK a : a = Activate(f)
  OBVIOUS
<1>5. BoxType(a) /\ ItemsSound(a)
  BY <1>3, <1>4, ActivateSound
<1>6. PICK o : o = Open(a)
  OBVIOUS
<1>7. BoxType(o) /\ ItemsSound(o) /\ o.query \in Text
  BY <1>5, <1>6, OpenSound DEF BoxType
<1>8. ItemsSound(MenuUpdate(o, o.query))
  BY <1>7, MenuUpdateSound
<1>9. ta' = IF ~a.active THEN a
            ELSE IF MinLengthMet(o) THEN MenuUpdate(o, o.query) ELSE o
  BY <1>1, <1>4, <1>6 DEF Focus, Becomes
<1> QED
  BY <1>5, <1>7, <1>8, <1>9

\* the loss of it,
LEMMA BlurSound == ASSUME BoxType(ta), ItemsSound(ta), Blur PROVE ItemsSound(ta')
<1>1. PICK s : s = ResetInputValue(ta)
  OBVIOUS
<1>2. ta.query \in Text
  BY DEF BoxType
<1>3. BoxType(s) /\ ItemsSound(s)
  BY <1>1, <1>2, SetInputSound DEF ResetInputValue
<1>4. PICK u : u = [s EXCEPT !.focus = FALSE]
  OBVIOUS
<1>5. Agree(u, s, {"focus"})
  BY <1>3, <1>4 DEF Agree, BoxFields, BoxType
<1>6. BoxType(u) /\ ItemsSound(u)
  BY <1>3, <1>5, AgreeTyped, SameItems
<1> QED
  BY <1>1, <1>4, <1>6, DeactivateSound DEF Blur, Becomes

\* typing,
LEMMA TypeSound ==
  ASSUME BoxType(ta), ItemsSound(ta), NEW text \in Texts, Type(text)
  PROVE  ItemsSound(ta')
<1>1. text \in Text
  BY TypeaheadAssumption DEF Text
<1>2. PICK s : s = [ta EXCEPT !.value = text]
  OBVIOUS
<1>3. Agree(s, ta, {"value"}) /\ s.value = text
  BY <1>2 DEF Agree, BoxFields, BoxType
<1>4. /\ DOMAIN s = BoxFields /\ s.query = ta.query /\ s.items = ta.items
      /\ s.pending = ta.pending
  BY <1>3 DEF Agree, BoxFields
<1>5. BoxType(s) /\ ItemsSound(s)
  BY <1>1, <1>3, <1>4, SameItems DEF BoxType
<1>6. PICK r : r = SetQuery(s, text)
  OBVIOUS
<1>7. BoxType(r) /\ ItemsSound(r)
  BY <1>1, <1>5, <1>6, SetQuerySound
<1>8. Agree(ClearHintIfInvalid(r), r, {"hint"})
  BY <1>7, ClearHintFacts DEF BoxType
<1>9. ItemsSound(ClearHintIfInvalid(r))
  BY <1>7, <1>8, SameItems
<1> QED
  BY <1>2, <1>6, <1>7, <1>9 DEF Type, Becomes

\* and a call of the page.
LEMMA CallSound ==
  ASSUME BoxType(ta), ItemsSound(ta),
         NEW method \in {"open", "close", "activate", "deactivate", "enable", "disable"},
         CallMethod(method)
  PROVE  ItemsSound(ta')
<1>1. /\ ItemsSound(Open(ta)) /\ ItemsSound(Close(ta)) /\ ItemsSound(Activate(ta))
      /\ ItemsSound(Deactivate(ta))
  BY OpenSound, CloseSound, ActivateSound, DeactivateSound
<1>2. ASSUME NEW b \in BOOLEAN PROVE ItemsSound([ta EXCEPT !.enabled = b])
  <2>1. Agree([ta EXCEPT !.enabled = b], ta, {"enabled"})
    BY DEF Agree, BoxFields, BoxType
  <2> QED
    BY <2>1, SameItems
<1>3. ItemsSound([ta EXCEPT !.enabled = TRUE]) /\ ItemsSound([ta EXCEPT !.enabled = FALSE])
  BY <1>2
<1> QED
  BY <1>1, <1>3 DEF CallMethod, Becomes

\* A new box has no items.
LEMMA FreshSound == ASSUME NEW source PROVE ItemsSound(Fresh(source))
<1>1. /\ Fresh(source).items = <<>> /\ Fresh(source).pending = <<>>
  BY DEF Fresh
<1>2. Len(<<>>) = 0 /\ DOMAIN <<>> = {} /\ 0 <= Limit
  BY TypeaheadAssumption
<1> QED
  BY <1>1, <1>2 DEF ItemsSound

\* Every step keeps the items.
LEMMA ItemsStep ==
  ASSUME BoxInv(ta), ItemsSound(ta), TypeaheadNext
  PROVE  ItemsSound(ta')
<1>1. BoxType(ta) /\ CursorOk(ta)
  BY DEF BoxInv
<1>2. CASE Focus \/ Blur
  BY <1>1, <1>2, FocusSound, BlurSound
<1>3. CASE EnterKeyed \/ TabKeyed \/ RightKeyed
  <2>1. ItemsSound(Autocomplete(ta))
    BY <1>1, AutocompleteSound
  <2>2. ASSUME ta.cursor # 0 PROVE ItemsSound(Select(ta, ta.items[ta.cursor].text))
    <3>1. ta.items[ta.cursor].text \in Text
      BY <1>1, <2>2 DEF BoxType, CursorOk, IsItems
    <3> QED
      BY <1>1, <3>1, SelectSound
  <2> QED
    BY <1>3, <2>1, <2>2 DEF EnterKeyed, TabKeyed, RightKeyed, Becomes
<1>4. CASE EscKeyed
  BY <1>1, <1>4, CloseSound DEF EscKeyed, Becomes
<1>5. ASSUME NEW text \in Texts, Type(text) PROVE ItemsSound(ta')
  BY <1>1, <1>5, TypeSound
<1>6. ASSUME NEW text \in Texts, SetVal(text) PROVE ItemsSound(ta')
  <2>1. text \in Text
    BY TypeaheadAssumption DEF Text
  <2>2. ItemsSound(SetQuery(SetInputValue(ta, text), text))
    BY <1>1, <2>1, SetInputSound, SetQuerySound
  <2> QED
    BY <1>6, <2>2 DEF SetVal, Becomes
<1>7. ASSUME NEW delta \in {-1, 1}, ArrowKeyed(delta) \/ CallMoveCursor(delta)
      PROVE  ItemsSound(ta')
  <2>1. ItemsSound(MoveCursor(Open(ta), delta)) /\ ItemsSound(MoveCursor(ta, delta))
    BY <1>1, OpenSound, MoveSound
  <2> QED
    BY <1>7, <2>1 DEF ArrowKeyed, CallMoveCursor, Becomes
<1>8. ASSUME NEW i \in 1..Limit, ClickSelectable(i) \/ CallSelect(i) \/ CallAutocomplete(i)
      PROVE  ItemsSound(ta')
  <2>1. ta.items[i].text \in Text
    BY <1>1, <1>8 DEF ClickSelectable, CallSelect, CallAutocomplete, BoxType, IsItems
  <2>2. /\ ItemsSound(Select(ta, ta.items[i].text))
        /\ ItemsSound(AutocompleteTo(ta, ta.items[i].text))
    BY <1>1, <2>1, SelectSound, AutocompleteSound
  <2> QED
    BY <1>8, <2>2 DEF ClickSelectable, CallSelect, CallAutocomplete, Becomes
<1>9. CASE \E k \in 1..MaxPending, fails \in BOOLEAN : AsyncSuggestions(k, fails)
  BY <1>1, <1>9, AsyncSound
<1>10. CASE \E method \in {"open", "close", "activate", "deactivate", "enable", "disable"} :
              CallMethod(method)
  BY <1>1, <1>10, CallSound
<1>11. CASE Destroy \/ Initialize
  <2>1. PICK w : w = Fresh(ta.source)
    OBVIOUS
  <2>2. BoxType(w) /\ ItemsSound(w)
    BY <2>1, FreshInv, FreshSound DEF BoxInv
  <2>3. Agree([w EXCEPT !.attached = FALSE], w, {"attached"})
    BY <2>2 DEF Agree, BoxFields, BoxType
  <2>4. ItemsSound([w EXCEPT !.attached = FALSE])
    BY <2>2, <2>3, SameItems
  <2> QED
    BY <1>11, <2>1, <2>2, <2>4 DEF Destroy, Initialize
<1> QED
  BY <1>2, <1>3, <1>4, <1>5, <1>6, <1>7, <1>8, <1>9, <1>10, <1>11 DEF TypeaheadNext

\* The menu holds no suggestion for another query, marked right and no more than
\* the limit, whatever answers come late, fail, or belong to an update canceled;
\* but for a query the matcher of ld.js throws on.
THEOREM ItemsAnswerQuery == Spec => []ItemsOfQuery
<1>1. Init => ItemsSound(ta)
  BY FreshSound DEF Init, TypeaheadInit
<1>2. BoxInv(ta) /\ ItemsSound(ta) /\ [Next]_vars => ItemsSound(ta)'
  <2> SUFFICES ASSUME BoxInv(ta), ItemsSound(ta), [Next]_vars PROVE ItemsSound(ta')
    OBVIOUS
  <2>1. TypeaheadNext \/ ta' = ta
    BY DEF Next, vars
  <2> QED
    BY <2>1, ItemsStep
<1>3. ItemsSound(ta) => ItemsOfQuery
  BY DEF ItemsSound, ItemsOfQuery
<1> QED
  BY <1>1, <1>2, <1>3, BoxInvariant, PTL DEF Spec

-----------------------------------------------------------------------------
(* Sequences of ids: sorted, walked along together, and without repeats.   *)

Nondecreasing(s) == \A i, j \in DOMAIN s : i < j => s[i] <= s[j]

\* Ids that sort() can place.
Sortable(ids) == \A x \in ids : SortKey(x) \in Int

\* A sorted array has the elements of the array, lesser ones first if that is the
\* order of their texts (sort).
LEMMA SortArraySorts ==
  ASSUME NEW a \in Seq(Int), Sortable(ToSet(a))
  PROVE  /\ SortArray(a) \in Seq(Int) /\ Len(SortArray(a)) = Len(a)
         /\ ToSet(SortArray(a)) = ToSet(a)
         /\ InTextOrder(ToSet(a)) => Nondecreasing(SortArray(a))
<1>1. PICK P : P = DOMAIN a
  OBVIOUS
<1>2. PICK n \in Nat : n = Len(a) /\ P = 1..n
  BY <1>1
<1>3. P \in SUBSET Int /\ IsFiniteSet(P) /\ Cardinality(P) = n /\ a \in [P -> Int]
  BY <1>1, <1>2, OneToN
<1>k. PICK key : key = [p \in P |-> SortKey(a[p])]
  OBVIOUS
<1>e. \A p \in P : a[p] \in ToSet(a)
  BY <1>1, Zenon DEF ToSet
<1>d. key \in [P -> Int] /\ \A p \in P : key[p] = SortKey(a[p])
  BY <1>k, <1>e DEF Sortable
<1>4. PICK R : R = {p \in P \X P : SortKey(a[p[1]]) < SortKey(a[p[2]])}
  OBVIOUS
<1>5. ComparesBy(R, P, key)
  BY <1>4, <1>d DEF ComparesBy
<1>6. PICK at : at = Sorted(P, Stable(P, R))
  OBVIOUS
<1>7. SortedBy(at, n, P, key)
  BY <1>3, <1>d, <1>5, <1>6, StableTheorem
<1>8. /\ at \in [1..n -> P] /\ \A x \in P : \E k \in 1..n : at[k] = x
      /\ \A j, k \in 1..n : j < k => key[at[j]] <= key[at[k]]
  BY <1>7 DEF SortedBy
<1>9. PICK s : s = [k \in P |-> a[at[k]]]
  OBVIOUS
<1>10. SortArray(a) = s
  BY <1>1, <1>4, <1>6, <1>9 DEF SortArray
<1>11. s \in [1..n -> Int] /\ \A k \in 1..n : s[k] = a[at[k]]
  BY <1>2, <1>3, <1>8, <1>9
<1>12. s \in Seq(Int) /\ Len(s) = n /\ DOMAIN s = 1..n
  BY <1>11
<1>13. ToSet(s) = ToSet(a)
  <2>1. \A k \in 1..n : at[k] \in P /\ s[k] = a[at[k]]
    BY <1>8, <1>11
  <2>2. \A x \in P : \E k \in 1..n : s[k] = a[x]
    <3> TAKE x \in P
    <3>1. PICK k \in 1..n : at[k] = x
      BY <1>8, Zenon
    <3>2. s[k] = a[x]
      BY <2>1, <3>1, Zenon
    <3> QED
      BY <3>2, Zenon
  <2>3. ToSet(s) = {s[k] : k \in 1..n} /\ ToSet(a) = {a[x] : x \in P}
    <3>1. DOMAIN s = 1..n /\ DOMAIN a = P
      BY <1>1, <1>12
    <3> QED
      BY <3>1, Zenon DEF ToSet
  <2>4. \A k \in 1..n : s[k] \in {a[x] : x \in P}
    BY <2>1
  <2>5. \A x \in P : a[x] \in {s[k] : k \in 1..n}
    BY <2>2
  <2> QED
    BY <2>3, <2>4, <2>5
<1>14. InTextOrder(ToSet(a)) => Nondecreasing(s)
  <2> SUFFICES ASSUME InTextOrder(ToSet(a)), NEW i \in 1..n, NEW j \in 1..n, i < j
      PROVE  s[i] <= s[j]
    BY <1>12 DEF Nondecreasing
  <2>1. s[i] = a[at[i]] /\ s[j] = a[at[j]] /\ at[i] \in P /\ at[j] \in P
    BY <1>8, <1>11
  <2>2. s[i] \in ToSet(a) /\ s[j] \in ToSet(a)
    BY <1>e, <2>1
  <2>3. SortKey(s[i]) <= SortKey(s[j]) /\ SortKey(s[i]) \in Int /\ SortKey(s[j]) \in Int
    <3>1. key[at[i]] <= key[at[j]]
      BY <1>8
    <3>2. key[at[i]] = SortKey(s[i]) /\ key[at[j]] = SortKey(s[j])
      BY <1>d, <2>1
    <3>3. key[at[i]] \in Int /\ key[at[j]] \in Int
      BY <1>d, <2>1
    <3> QED
      BY <3>1, <3>2, <3>3
  <2>4. s[j] < s[i] => SortKey(s[j]) < SortKey(s[i])
    BY <2>2 DEF InTextOrder
  <2>5. s[i] \in Int /\ s[j] \in Int
    BY <1>11
  <2> QED
    BY <2>3, <2>4, <2>5
<1> QED
  BY <1>2, <1>10, <1>12, <1>13, <1>14

Walks(A, B) == [ai : 1..Len(A) + 1, bi : 1..Len(B) + 1, intersection : Seq(Int)]

BothSorted(A, B) == Nondecreasing(A) /\ Nondecreasing(B)

\* What the walk has found where its fingers are: common elements only, and all
\* of them if the arrays are sorted as they compare.
Found(w, A, B) ==
  /\ w \in Walks(A, B)
  /\ \A x \in ToSet(w.intersection) : x \in ToSet(A) /\ x \in ToSet(B)
  /\ BothSorted(A, B) => \A i \in DOMAIN A :
        i < w.ai /\ A[i] \in ToSet(B) => A[i] \in ToSet(w.intersection)
  /\ BothSorted(A, B) => \A i \in DOMAIN B :
        i < w.bi /\ B[i] \in ToSet(A) => B[i] \in ToSet(w.intersection)

AtEnd(w, A, B) == w.ai > Len(A) \/ w.bi > Len(B)

\* What an appended sequence has.
LEMMA AppendElements ==
  ASSUME NEW S, NEW s \in Seq(S), NEW x \in S
  PROVE  /\ Append(s, x) \in Seq(S) /\ ToSet(Append(s, x)) = ToSet(s) \cup {x}
<1>1. PICK t : t = Append(s, x)
  OBVIOUS
<1>2. /\ Len(s) \in Nat /\ DOMAIN s = 1..Len(s) /\ t \in Seq(S) /\ Len(t) = Len(s) + 1
      /\ DOMAIN t = 1..Len(s) + 1
      /\ \A i \in 1..Len(s) : t[i] = s[i]
      /\ t[Len(s) + 1] = x
  BY <1>1, AppendProperties
<1>3. \A i : i \in DOMAIN t <=> i \in DOMAIN s \/ i = Len(s) + 1
  BY <1>2
<1> QED
  BY <1>1, <1>2, <1>3 DEF ToSet

\* A turn of the walk moves on and misses no common element of sorted arrays,
LEMMA AdvanceFinds ==
  ASSUME NEW A \in Seq(Int), NEW B \in Seq(Int), NEW w, Found(w, A, B)
  PROVE  /\ Found(Advance(w, A, B), A, B)
         /\ AtEnd(w, A, B) => Advance(w, A, B) = w
         /\ ~AtEnd(w, A, B) =>
              Advance(w, A, B).ai + Advance(w, A, B).bi >= w.ai + w.bi + 1
<1>1. /\ Len(A) \in Nat /\ DOMAIN A = 1..Len(A) /\ Len(B) \in Nat /\ DOMAIN B = 1..Len(B)
      /\ w.ai \in 1..Len(A) + 1 /\ w.bi \in 1..Len(B) + 1 /\ w.intersection \in Seq(Int)
      /\ w \in Walks(A, B)
  BY DEF Found, Walks
<1>2. CASE AtEnd(w, A, B)
  BY <1>2 DEF Advance, AtEnd
<1>3. CASE ~AtEnd(w, A, B)
  <2> DEFINE a == A[w.ai]
             b == B[w.bi]
  <2>1. w.ai \in DOMAIN A /\ w.bi \in DOMAIN B /\ a \in Int /\ b \in Int
    BY <1>1, <1>3 DEF AtEnd
  <2>2. a \in ToSet(A) /\ b \in ToSet(B)
    BY <2>1 DEF ToSet
  <2>3. CASE a < b
    <3>1. PICK v : v = [w EXCEPT !.ai = @ + 1]
      OBVIOUS
    <3>2. Advance(w, A, B) = v
      BY <1>3, <2>3, <3>1 DEF Advance, AtEnd
    <3>3. v.ai = w.ai + 1 /\ v.bi = w.bi /\ v.intersection = w.intersection /\ v \in Walks(A, B)
      <4>1. v = [ai |-> w.ai + 1, bi |-> w.bi, intersection |-> w.intersection]
        BY <1>1, <3>1 DEF Walks
      <4>0. w.ai \in 1..Len(A) /\ w.bi \in 1..Len(B) + 1 /\ Len(A) \in Nat
        BY <1>1, <2>1
      <4>2. w.ai + 1 \in 1..Len(A) + 1 /\ w.bi \in 1..Len(B) + 1
        <5>1. \A n \in Nat : \A i \in 1..n : i + 1 \in 1..n + 1
          OBVIOUS
        <5> QED
          BY ONLY <4>0, <5>1, Zenon
      <4> QED
        BY <1>1, <4>1, <4>2 DEF Walks
    <3>4. BothSorted(A, B) /\ a \in ToSet(B) => a \in ToSet(w.intersection)
      <4> SUFFICES ASSUME BothSorted(A, B), a \in ToSet(B)
          PROVE  a \in ToSet(w.intersection)
        OBVIOUS
      <4>1. PICK j \in DOMAIN B : B[j] = a
        BY DEF ToSet
      <4>2. j \in Int /\ w.bi \in Int
        BY <1>1, <4>1
      <4>3. j < w.bi
        <5>1. j # w.bi
          BY <2>1, <2>3, <4>1
        <5>2. w.bi < j => b <= B[j]
          BY <2>1 DEF BothSorted, Nondecreasing
        <5> QED
          BY <2>1, <2>3, <4>1, <4>2, <5>1, <5>2
      <4> QED
        BY <2>2, <4>1, <4>3 DEF Found
    <3>5. \A i \in DOMAIN A : i < v.ai => i < w.ai \/ i = w.ai
      BY <1>1, <3>3
    <3>6. Found(v, A, B)
      BY <3>3, <3>4, <3>5 DEF Found
    <3> QED
      BY <1>1, <1>3, <3>2, <3>3, <3>6
  <2>4. CASE a > b
    <3>1. PICK v : v = [w EXCEPT !.bi = @ + 1]
      OBVIOUS
    <3>2. Advance(w, A, B) = v
      BY <1>3, <2>1, <2>4, <3>1 DEF Advance, AtEnd
    <3>3. v.ai = w.ai /\ v.bi = w.bi + 1 /\ v.intersection = w.intersection /\ v \in Walks(A, B)
      <4>1. v = [ai |-> w.ai, bi |-> w.bi + 1, intersection |-> w.intersection]
        BY <1>1, <3>1 DEF Walks
      <4>0. w.bi \in 1..Len(B) /\ w.ai \in 1..Len(A) + 1 /\ Len(B) \in Nat
        BY <1>1, <2>1
      <4>2. w.ai \in 1..Len(A) + 1 /\ w.bi + 1 \in 1..Len(B) + 1
        <5>1. \A n \in Nat : \A j \in 1..n : j + 1 \in 1..n + 1
          OBVIOUS
        <5> QED
          BY ONLY <4>0, <5>1, Zenon
      <4> QED
        BY <1>1, <4>1, <4>2 DEF Walks
    <3>4. BothSorted(A, B) /\ b \in ToSet(A) => b \in ToSet(w.intersection)
      <4> SUFFICES ASSUME BothSorted(A, B), b \in ToSet(A)
          PROVE  b \in ToSet(w.intersection)
        OBVIOUS
      <4>1. PICK j \in DOMAIN A : A[j] = b
        BY DEF ToSet
      <4>2. j \in Int /\ w.ai \in Int
        BY <1>1, <4>1
      <4>3. j < w.ai
        <5>1. j # w.ai
          BY <2>1, <2>4, <4>1
        <5>2. w.ai < j => a <= A[j]
          BY <2>1 DEF BothSorted, Nondecreasing
        <5> QED
          BY <2>1, <2>4, <4>1, <4>2, <5>1, <5>2
      <4> QED
        BY <2>2, <4>1, <4>3 DEF Found
    <3>5. \A i \in DOMAIN B : i < v.bi => i < w.bi \/ i = w.bi
      BY <1>1, <3>3
    <3>6. Found(v, A, B)
      BY <3>3, <3>4, <3>5 DEF Found
    <3> QED
      BY <1>1, <1>3, <3>2, <3>3, <3>6
  <2>5. CASE a = b
    <3>1. PICK v : v = [ai |-> w.ai + 1, bi |-> w.bi + 1,
                        intersection |-> Append(w.intersection, A[w.ai])]
      OBVIOUS
    <3>2. Advance(w, A, B) = v
      BY <1>3, <2>1, <2>5, <3>1 DEF Advance, AtEnd
    <3>3. /\ Append(w.intersection, a) \in Seq(Int)
          /\ ToSet(Append(w.intersection, a)) = ToSet(w.intersection) \cup {a}
      BY <1>1, <2>1, AppendElements
    <3>4. /\ v.ai = w.ai + 1 /\ v.bi = w.bi + 1 /\ v \in Walks(A, B)
          /\ ToSet(v.intersection) = ToSet(w.intersection) \cup {a}
      <4>0. w.ai \in 1..Len(A) /\ w.bi \in 1..Len(B) /\ Len(A) \in Nat /\ Len(B) \in Nat
        BY <1>1, <2>1
      <4>1. w.ai + 1 \in 1..Len(A) + 1 /\ w.bi + 1 \in 1..Len(B) + 1
        <5>1. \A n \in Nat : \A j \in 1..n : j + 1 \in 1..n + 1
          OBVIOUS
        <5> QED
          BY ONLY <4>0, <5>1, Zenon
      <4>2. v.ai = w.ai + 1 /\ v.bi = w.bi + 1 /\ v.intersection = Append(w.intersection, a)
        BY <3>1
      <4>3. v \in Walks(A, B)
        BY <3>1, <3>3, <4>1 DEF Walks
      <4> QED
        BY <3>3, <4>2, <4>3
    <3>5. /\ \A i \in DOMAIN A : i < v.ai => i < w.ai \/ i = w.ai
          /\ \A i \in DOMAIN B : i < v.bi => i < w.bi \/ i = w.bi
      <4>1. \A i \in DOMAIN A : i < v.ai => i < w.ai \/ i = w.ai
        BY <1>1, <3>4
      <4>2. \A i \in DOMAIN B : i < v.bi => i < w.bi \/ i = w.bi
        BY <1>1, <3>4
      <4> QED
        BY <4>1, <4>2
    <3>6. Found(v, A, B)
      <4>1. \A x \in ToSet(v.intersection) : x \in ToSet(A) /\ x \in ToSet(B)
        BY <2>2, <2>5, <3>4 DEF Found
      <4>2. BothSorted(A, B) => \A i \in DOMAIN A :
              i < v.ai /\ A[i] \in ToSet(B) => A[i] \in ToSet(v.intersection)
        BY <3>4, <3>5 DEF Found
      <4>3. BothSorted(A, B) => \A i \in DOMAIN B :
              i < v.bi /\ B[i] \in ToSet(A) => B[i] \in ToSet(v.intersection)
        BY <2>5, <3>4, <3>5 DEF Found
      <4> QED
        BY <3>4, <4>1, <4>2, <4>3 DEF Found
    <3> QED
      BY <1>1, <1>3, <3>2, <3>4, <3>6
  <2> QED
    BY <2>1, <2>3, <2>4, <2>5
<1> QED
  BY <1>2, <1>3

\* so that the walk collects those of both arrays, or some of them.
LEMMA WalkIntersects ==
  ASSUME NEW A \in Seq(Int), NEW B \in Seq(Int)
  PROVE  /\ Walk(A, B) \in Seq(Int) /\ ToSet(Walk(A, B)) \subseteq ToSet(A) \cap ToSet(B)
         /\ BothSorted(A, B) => ToSet(Walk(A, B)) = ToSet(A) \cap ToSet(B)
<1> DEFINE turns == Len(A) + Len(B)
           first == [ai |-> 1, bi |-> 1, intersection |-> <<>>]
           Body(f) == [i \in 0..turns |-> IF i = 0 THEN first ELSE Advance(f[i - 1], A, B)]
           f == CHOOSE f : f = Body(f)
<1>1. Walk(A, B) = f[turns].intersection
  BY Zenon DEF Walk
<1>2. PICK n \in Nat : n = turns
  OBVIOUS
<1> HIDE DEF f, Body, turns
<1>3. PICK D : D = {w \in Walks(A, B) : Found(w, A, B)}
  OBVIOUS
<1>4. PICK g : g = [p \in D \X (1..n) |-> Advance(p[1], A, B)]
  OBVIOUS
<1>5. \A w \in D, i \in 1..n : g[<<w, i>>] = Advance(w, A, B)
  BY <1>4
<1>6. \A w \in D : /\ Advance(w, A, B) \in D
                   /\ AtEnd(w, A, B) => Advance(w, A, B) = w
                   /\ ~AtEnd(w, A, B) =>
                        Advance(w, A, B).ai + Advance(w, A, B).bi >= w.ai + w.bi + 1
  <2> TAKE w \in D
  <2>1. Found(w, A, B)
    BY <1>3
  <2>2. Found(Advance(w, A, B), A, B)
    BY <2>1, AdvanceFinds
  <2>3. Advance(w, A, B) \in D
    BY <1>3, <2>2 DEF Found
  <2> QED
    BY <2>1, <2>3, AdvanceFinds
<1>7. first \in D
  <2>1. Len(A) \in Nat /\ Len(B) \in Nat /\ DOMAIN A = 1..Len(A) /\ DOMAIN B = 1..Len(B)
    OBVIOUS
  <2>2. PICK w : w = first
    OBVIOUS
  <2>3. w.ai = 1 /\ w.bi = 1 /\ w.intersection = <<>> /\ w \in Walks(A, B)
    BY <2>1, <2>2 DEF Walks
  <2>4. ToSet(<<>>) = {}
    BY DEF ToSet
  <2>5. (\A i \in DOMAIN A : ~(i < 1)) /\ (\A i \in DOMAIN B : ~(i < 1))
    BY <2>1
  <2>6. Found(w, A, B)
    BY <2>3, <2>4, <2>5 DEF Found
  <2> QED
    BY <1>3, <2>2, <2>3, <2>6
<1> HIDE DEF first
<1>8. g \in [D \X (1..n) -> D]
  BY <1>4, <1>6
<1>9. PICK h \in [0..n -> D] : Turns(h, n, first, g)
  BY <1>7, <1>8, LoopRuns
<1>10. h[0] = first /\ \A i \in 1..n : h[i - 1] \in D /\ h[i] = Advance(h[i - 1], A, B)
  <2>1. \A i \in 1..n : i - 1 \in 0..n
    OBVIOUS
  <2> QED
    BY <1>5, <1>9, <2>1 DEF Turns
<1>11. h = Body(h)
  <2>1. h = [i \in 0..n |-> IF i = 0 THEN first ELSE Advance(h[i - 1], A, B)]
    <3>1. \A i \in 0..n : h[i] = IF i = 0 THEN first ELSE Advance(h[i - 1], A, B)
      BY <1>10
    <3>2. h = [i \in 0..n |-> h[i]]
      OBVIOUS
    <3> QED
      BY <3>1, <3>2
  <2> QED
    BY <1>2, <2>1, Zenon DEF Body
<1>12. f = Body(f)
  BY <1>11, Zenon DEF f
<1>13. f[0] = first /\ \A i \in 1..n : f[i] = Advance(f[i - 1], A, B)
  BY <1>2, <1>12 DEF Body
<1>14. PICK P : P = {i \in 0..n : f[i] \in D /\ (AtEnd(f[i], A, B) \/ f[i].ai + f[i].bi >= i + 2)}
  OBVIOUS
<1>15. 0 \in P
  <2>1. first.ai + first.bi >= 0 + 2
    BY DEF first
  <2> QED
    BY <1>7, <1>13, <1>14, <2>1
<1>16. ASSUME NEW i \in 1..n, i - 1 \in P PROVE i \in P
  <2>1. PICK w : w = f[i - 1]
    OBVIOUS
  <2>2. w \in D /\ (AtEnd(w, A, B) \/ w.ai + w.bi >= (i - 1) + 2) /\ f[i] = Advance(w, A, B)
    BY <1>13, <1>14, <1>16, <2>1
  <2>3. f[i] \in D
    BY <1>6, <2>2
  <2>4. CASE AtEnd(w, A, B)
    BY <1>6, <1>14, <2>2, <2>4
  <2>5. CASE ~AtEnd(w, A, B)
    <3>1. f[i].ai + f[i].bi >= w.ai + w.bi + 1
      BY <1>6, <2>2, <2>5
    <3>2. w.ai \in Int /\ w.bi \in Int /\ f[i].ai \in Int /\ f[i].bi \in Int
      BY <1>3, <2>2, <2>3 DEF Walks
    <3>3. f[i].ai + f[i].bi >= i + 2
      <4>1. w.ai + w.bi >= (i - 1) + 2
        BY <2>2, <2>5
      <4>2. PICK p \in Int : p = w.ai + w.bi
        BY ONLY <3>2
      <4>3. PICK q \in Int : q = f[i].ai + f[i].bi
        BY ONLY <3>2
      <4>4. q >= p + 1 /\ p >= (i - 1) + 2
        BY ONLY <3>1, <4>1, <4>2, <4>3
      <4>5. q >= i + 2
        BY ONLY <4>2, <4>3, <4>4, i \in 1..n, n \in Nat
      <4> QED
        BY ONLY <4>3, <4>5
    <3> QED
      BY <1>14, <2>3, <3>3
  <2> QED
    BY <2>4, <2>5
<1>17. \A i \in 0..n : i \in P
  BY <1>15, <1>16, StepByStep
<1>18. n \in P
  BY <1>17
<1>19. PICK w : w = f[n]
  OBVIOUS
<1>20. w \in Walks(A, B) /\ Found(w, A, B) /\ (AtEnd(w, A, B) \/ w.ai + w.bi >= n + 2)
  BY <1>3, <1>14, <1>18, <1>19
<1>21. AtEnd(w, A, B)
  <2>1. /\ w.ai \in 1..Len(A) + 1 /\ w.bi \in 1..Len(B) + 1
        /\ Len(A) \in Nat /\ Len(B) \in Nat /\ n = Len(A) + Len(B)
    BY <1>2, <1>20 DEF Walks, turns
  <2> QED
    BY <1>20, <2>1 DEF AtEnd
<1>22. ASSUME BothSorted(A, B), NEW x, x \in ToSet(A), x \in ToSet(B)
       PROVE  x \in ToSet(w.intersection)
  <2>1. PICK i \in DOMAIN A : A[i] = x
    BY <1>22 DEF ToSet
  <2>2. PICK j \in DOMAIN B : B[j] = x
    BY <1>22 DEF ToSet
  <2>3. w.ai \in Int /\ w.bi \in Int /\ i \in 1..Len(A) /\ j \in 1..Len(B)
        /\ Len(A) \in Nat /\ Len(B) \in Nat
    BY <1>20, <2>1, <2>2 DEF Walks
  <2>4. i < w.ai \/ j < w.bi
    BY <1>21, <2>3 DEF AtEnd
  <2> QED
    BY <1>20, <1>22, <2>1, <2>2, <2>4 DEF Found
<1>23. Walk(A, B) = w.intersection
  BY <1>1, <1>2, <1>19
<1>24. w.intersection \in Seq(Int)
  BY <1>20 DEF Walks
<1>25. /\ ToSet(w.intersection) \subseteq ToSet(A) \cap ToSet(B)
       /\ BothSorted(A, B) => ToSet(w.intersection) = ToSet(A) \cap ToSet(B)
  BY <1>20, <1>22 DEF Found
<1> QED
  BY <1>23, <1>24, <1>25

\* Ids of the data of the index, as the nodes and the matches hold them.
IdArrays == {a \in Seq(Int) : ToSet(a) \subseteq index.datums}

\* Whatever order the two arrays come in.
LEMMA GetIntersectionIntersects ==
  ASSUME Sortable(index.datums), NEW a \in IdArrays, NEW b \in IdArrays
  PROVE  /\ GetIntersection(a, b) \in IdArrays
         /\ ToSet(GetIntersection(a, b)) \subseteq ToSet(a) \cap ToSet(b)
         /\ InTextOrder(index.datums) =>
              ToSet(GetIntersection(a, b)) = ToSet(a) \cap ToSet(b)
<1>0. /\ a \in Seq(Int) /\ ToSet(a) \subseteq index.datums /\ Sortable(ToSet(a))
      /\ b \in Seq(Int) /\ ToSet(b) \subseteq index.datums /\ Sortable(ToSet(b))
  BY DEF IdArrays, Sortable
<1>1. PICK A \in Seq(Int) : /\ A = SortArray(a) /\ ToSet(A) = ToSet(a)
                            /\ InTextOrder(ToSet(a)) => Nondecreasing(A)
  BY <1>0, SortArraySorts
<1>2. PICK B \in Seq(Int) : /\ B = SortArray(b) /\ ToSet(B) = ToSet(b)
                            /\ InTextOrder(ToSet(b)) => Nondecreasing(B)
  BY <1>0, SortArraySorts
<1>3. /\ Walk(A, B) \in Seq(Int) /\ ToSet(Walk(A, B)) \subseteq ToSet(A) \cap ToSet(B)
      /\ BothSorted(A, B) => ToSet(Walk(A, B)) = ToSet(A) \cap ToSet(B)
  BY WalkIntersects
<1>4. InTextOrder(index.datums) => BothSorted(A, B)
  BY <1>0, <1>1, <1>2 DEF InTextOrder, BothSorted
<1>5. GetIntersection(a, b) = Walk(A, B)
  BY <1>1, <1>2 DEF GetIntersection
<1> QED
  BY <1>0, <1>1, <1>2, <1>3, <1>4, <1>5 DEF IdArrays

\* One more element for the sequence of the unique ones.
WithUnique(u, x) == IF x \in ToSet(u) THEN u ELSE Append(u, x)

\* An id is kept once,
LEMMA WithUniqueKeeps ==
  ASSUME NEW u \in Seq(Int), IsInjective(u), NEW x \in Int
  PROVE  /\ WithUnique(u, x) \in Seq(Int) /\ IsInjective(WithUnique(u, x))
         /\ ToSet(WithUnique(u, x)) = ToSet(u) \cup {x}
<1>1. CASE x \in ToSet(u)
  BY <1>1 DEF WithUnique
<1>2. CASE x \notin ToSet(u)
  <2>1. PICK t : t = Append(u, x)
    OBVIOUS
  <2>2. t \in Seq(Int) /\ ToSet(t) = ToSet(u) \cup {x}
    BY <2>1, AppendElements
  <2>3. /\ Len(u) \in Nat /\ DOMAIN u = 1..Len(u) /\ DOMAIN t = 1..Len(u) + 1
        /\ \A i \in 1..Len(u) : t[i] = u[i]
        /\ t[Len(u) + 1] = x
    BY <2>1, AppendProperties
  <2>4. \A i \in 1..Len(u) : t[i] # x
    BY <1>2, <2>3 DEF ToSet
  <2>5. \A i \in DOMAIN t : i \in 1..Len(u) \/ i = Len(u) + 1
    BY <2>3
  <2>6. \A i, j \in 1..Len(u) : u[i] = u[j] => i = j
    BY <2>3 DEF IsInjective
  <2>7. IsInjective(t)
    <3> SUFFICES ASSUME NEW i \in DOMAIN t, NEW j \in DOMAIN t, t[i] = t[j] PROVE i = j
      BY DEF IsInjective
    <3>1. CASE i \in 1..Len(u) /\ j \in 1..Len(u)
      BY <2>3, <2>6, <3>1
    <3>2. CASE i = Len(u) + 1
      BY <2>3, <2>4, <2>5, <3>2
    <3>3. CASE j = Len(u) + 1
      BY <2>3, <2>4, <2>5, <3>3
    <3> QED
      BY <2>5, <3>1, <3>2, <3>3
  <2> QED
    BY <1>2, <2>1, <2>2, <2>7 DEF WithUnique
<1> QED
  BY <1>1, <1>2

\* and all are kept (unique).
LEMMA UniqueIsSet ==
  ASSUME NEW a \in Seq(Int)
  PROVE  IsInjective(Unique(a)) /\ ToSet(Unique(a)) = ToSet(a)
<1>1. PICK n \in Nat : n = Len(a) /\ DOMAIN a = 1..n /\ a \in [1..n -> Int]
  BY LenProperties
<1> DEFINE Body(f) == [q \in SUBSET (1..n) |->
              IF q = {} THEN <<>> ELSE WithUnique(f[q \ {Max(q)}], a[Max(q)])]
           f == CHOOSE f : f = Body(f)
<1>2. Unique(a) = f[1..n]
  BY <1>1, Zenon DEF Unique, FoldLeft, MapThenFoldSet, WithUnique
<1> HIDE DEF f, Body
<1>3. PICK D : D = {u \in Seq(Int) : IsInjective(u)}
  OBVIOUS
<1>4. PICK g : g = [p \in D \X (1..n) |-> WithUnique(p[1], a[p[2]])]
  OBVIOUS
<1>5. \A u \in D, i \in 1..n : g[<<u, i>>] = WithUnique(u, a[i])
  BY <1>4
<1>6. \A u \in D, i \in 1..n : /\ WithUnique(u, a[i]) \in D
                               /\ ToSet(WithUnique(u, a[i])) = ToSet(u) \cup {a[i]}
  <2> TAKE u \in D, i \in 1..n
  <2>1. u \in Seq(Int) /\ IsInjective(u) /\ a[i] \in Int
    BY <1>1, <1>3
  <2>2. /\ WithUnique(u, a[i]) \in Seq(Int) /\ IsInjective(WithUnique(u, a[i]))
        /\ ToSet(WithUnique(u, a[i])) = ToSet(u) \cup {a[i]}
    BY <2>1, WithUniqueKeeps
  <2> QED
    BY <1>3, <2>2
<1>7. <<>> \in D /\ g \in [D \X (1..n) -> D]
  <2>1. <<>> \in Seq(Int) /\ IsInjective(<<>>)
    BY DEF IsInjective
  <2> QED
    BY <1>3, <1>4, <1>6, <2>1
<1>e. PICK e \in D : e = <<>>
  BY <1>7
<1>8. PICK F \in [SUBSET (1..n) -> D] : Folds(F, n, e, g)
  BY <1>7, FoldExists
<1>9. F = Body(F)
  <2>1. ASSUME NEW q \in SUBSET (1..n)
        PROVE  F[q] = IF q = {} THEN <<>> ELSE WithUnique(F[q \ {Max(q)}], a[Max(q)])
    <3>1. TakesLast(F, D, n, e, g)
      BY <1>1, <1>e, <1>8, FoldTurn
    <3> QED
      BY <1>5, <1>e, <2>1, <3>1 DEF TakesLast
  <2>2. F = [q \in SUBSET (1..n) |-> F[q]]
    OBVIOUS
  <2> QED
    BY <2>1, <2>2, Zenon DEF Body
<1>10. f = Body(f)
  BY <1>9, Zenon DEF f
<1>11. f[1..0] = <<>> /\ \A i \in 1..n : f[1..i] = WithUnique(f[1..i - 1], a[i])
  <2>1. f[1..0] = <<>>
    BY <1>10 DEF Body
  <2>2. ASSUME NEW i \in 1..n PROVE f[1..i] = WithUnique(f[1..i - 1], a[i])
    <3>1. /\ 1..i \in SUBSET (1..n) /\ 1..i # {} /\ Max(1..i) = i
          /\ (1..i) \ {Max(1..i)} = 1..i - 1
      BY LastUpTo
    <3>2. f[1..i] = WithUnique(f[(1..i) \ {Max(1..i)}], a[Max(1..i)])
      BY <1>10, <3>1 DEF Body
    <3> QED
      BY <3>1, <3>2
  <2> QED
    BY <2>1, <2>2
<1>12. PICK P : P = {i \in 0..n : f[1..i] \in D /\ ToSet(f[1..i]) = {a[j] : j \in 1..i}}
  OBVIOUS
<1>13. 0 \in P
  <2>1. ToSet(<<>>) = {}
    BY DEF ToSet
  <2>2. {a[j] : j \in 1..0} = {}
    OBVIOUS
  <2> QED
    BY <1>7, <1>11, <1>12, <2>1, <2>2
<1>14. ASSUME NEW i \in 1..n, i - 1 \in P PROVE i \in P
  <2>1. PICK u \in D : u = f[1..i - 1] /\ ToSet(u) = {a[j] : j \in 1..i - 1}
    BY <1>12, <1>14
  <2>2. f[1..i] \in D /\ ToSet(f[1..i]) = ToSet(u) \cup {a[i]}
    BY <1>6, <1>11, <2>1
  <2>3. \A j : j \in 1..i <=> j \in 1..i - 1 \/ j = i
    OBVIOUS
  <2>4. {a[j] : j \in 1..i} = {a[j] : j \in 1..i - 1} \cup {a[i]}
    BY <2>3
  <2>5. ToSet(f[1..i]) = {a[j] : j \in 1..i}
    BY <2>1, <2>2, <2>4
  <2>6. i \in 0..n
    OBVIOUS
  <2> QED
    BY <1>12, <2>2, <2>5, <2>6, Zenon
<1>15. \A i \in 0..n : i \in P
  BY <1>13, <1>14, StepByStep
<1>16. n \in P
  BY <1>15
<1>17. IsInjective(f[1..n]) /\ ToSet(f[1..n]) = {a[j] : j \in 1..n}
  BY <1>3, <1>12, <1>16
<1>18. ToSet(a) = {a[j] : j \in 1..n}
  BY <1>1 DEF ToSet
<1> QED
  BY <1>2, <1>17, <1>18

\* A token leaves the matches on its node.
LEMMA MatchIntersects ==
  ASSUME Sortable(index.datums), NEW token, IdsOf(token) \in IdArrays, NEW m \in IdArrays
  PROVE  /\ Match(m, token) \in IdArrays
         /\ ToSet(Match(m, token)) \subseteq ToSet(m) \cap ToSet(IdsOf(token))
         /\ InTextOrder(index.datums) =>
              ToSet(Match(m, token)) = ToSet(m) \cap ToSet(IdsOf(token))
<1>1. CASE m = <<>>
  <2>1. ToSet(<<>>) = {} /\ <<>> \in Seq(Int)
    BY DEF ToSet
  <2>2. Match(m, token) = <<>> /\ ToSet(m) = {}
    BY <1>1, <2>1 DEF Match
  <2> QED
    BY <2>1, <2>2 DEF IdArrays
<1>2. CASE m # <<>>
  <2>1. Match(m, token) = GetIntersection(m, IdsOf(token))
    BY <1>2 DEF Match
  <2> QED
    BY <2>1, GetIntersectionIntersects
<1> QED
  BY <1>1, <1>2

\* The words of a query one after the other: what all of them lead to.
MatchAll(b, s) == FoldLeft(Match, b, s)

Matchable(s, n, W, b) == /\ n \in Nat /\ s \in [1..n -> W] /\ b \in IdArrays
                         /\ \A w \in W : IdsOf(w) \in IdArrays
                         /\ Sortable(index.datums)

\* The ids of b that are on the nodes of the first i tokens of s.
OnNodes(b, s, i) == {x \in ToSet(b) : \A j \in 1..i : x \in ToSet(IdsOf(s[j]))}

\* All tokens leave those on the nodes of each, or some of them.
LEMMA MatchFold ==
  ASSUME NEW W, NEW n, NEW s, NEW b, Matchable(s, n, W, b)
  PROVE  /\ MatchAll(b, s) \in Seq(Int)
         /\ ToSet(MatchAll(b, s)) \subseteq OnNodes(b, s, n)
         /\ n = 0 \/ InTextOrder(index.datums) => ToSet(MatchAll(b, s)) = OnNodes(b, s, n)
<1>0. /\ n \in Nat /\ s \in [1..n -> W] /\ b \in IdArrays
      /\ \A w \in W : IdsOf(w) \in IdArrays
      /\ Sortable(index.datums)
  BY DEF Matchable
<1>t. PICK t : t = MatchAll(b, s)
  OBVIOUS
<1> DEFINE Body(f) == [q \in SUBSET (1..n) |->
              IF q = {} THEN b ELSE Match(f[q \ {Max(q)}], s[Max(q)])]
           f == CHOOSE f : f = Body(f)
<1>1. DOMAIN s = 1..n
  BY <1>0
<1>2. t = f[1..n]
  BY <1>1, <1>t, Zenon DEF MatchAll, FoldLeft, MapThenFoldSet
<1> HIDE DEF f, Body
<1>3. PICK D : D = IdArrays
  OBVIOUS
<1>4. PICK g : g = [p \in D \X (1..n) |-> Match(p[1], s[p[2]])]
  OBVIOUS
<1>5. \A m \in D, i \in 1..n : g[<<m, i>>] = Match(m, s[i])
  BY <1>4
<1>6. \A m \in D, i \in 1..n :
        /\ Match(m, s[i]) \in D
        /\ ToSet(Match(m, s[i])) \subseteq ToSet(m) \cap ToSet(IdsOf(s[i]))
        /\ InTextOrder(index.datums) =>
             ToSet(Match(m, s[i])) = ToSet(m) \cap ToSet(IdsOf(s[i]))
  <2> TAKE m \in D, i \in 1..n
  <2>1. IdsOf(s[i]) \in IdArrays /\ m \in IdArrays
    BY <1>0, <1>3
  <2> QED
    BY <1>0, <1>3, <2>1, MatchIntersects
<1>7. b \in D /\ g \in [D \X (1..n) -> D]
  BY <1>0, <1>3, <1>4, <1>6
<1>8. PICK F \in [SUBSET (1..n) -> D] : Folds(F, n, b, g)
  BY <1>0, <1>7, FoldExists
<1>9. F = Body(F)
  <2>1. ASSUME NEW q \in SUBSET (1..n)
        PROVE  F[q] = IF q = {} THEN b ELSE Match(F[q \ {Max(q)}], s[Max(q)])
    <3>1. TakesLast(F, D, n, b, g)
      BY <1>0, <1>7, <1>8, FoldTurn
    <3> QED
      BY <1>5, <2>1, <3>1 DEF TakesLast
  <2>2. F = [q \in SUBSET (1..n) |-> F[q]]
    OBVIOUS
  <2> QED
    BY <2>1, <2>2, Zenon DEF Body
<1>10. f = Body(f)
  BY <1>9, Zenon DEF f
<1>11. f[1..0] = b /\ \A i \in 1..n : f[1..i] = Match(f[1..i - 1], s[i])
  <2>1. f[1..0] = b
    BY <1>0, <1>10 DEF Body
  <2>2. ASSUME NEW i \in 1..n PROVE f[1..i] = Match(f[1..i - 1], s[i])
    <3>1. /\ 1..i \in SUBSET (1..n) /\ 1..i # {} /\ Max(1..i) = i
          /\ (1..i) \ {Max(1..i)} = 1..i - 1
      BY <1>0, LastUpTo
    <3>2. f[1..i] = Match(f[(1..i) \ {Max(1..i)}], s[Max(1..i)])
      BY <1>0, <1>10, <3>1 DEF Body
    <3> QED
      BY <3>1, <3>2
  <2> QED
    BY <2>1, <2>2
<1>12. PICK P : P = {i \in 0..n :
         /\ f[1..i] \in D /\ ToSet(f[1..i]) \subseteq OnNodes(b, s, i)
         /\ i = 0 \/ InTextOrder(index.datums) => ToSet(f[1..i]) = OnNodes(b, s, i)}
  OBVIOUS
<1>13. 0 \in P
  <2>1. \A x \in ToSet(b) : \A j \in 1..0 : x \in ToSet(IdsOf(s[j]))
    OBVIOUS
  <2>2. ToSet(b) = OnNodes(b, s, 0)
    BY <2>1 DEF OnNodes
  <2>3. 0 \in 0..n
    BY <1>0
  <2> QED
    BY <1>7, <1>11, <1>12, <2>2, <2>3, Zenon
<1>14. ASSUME NEW i \in 1..n, i - 1 \in P PROVE i \in P
  <2>1. PICK m \in D :
          /\ m = f[1..i - 1] /\ ToSet(m) \subseteq OnNodes(b, s, i - 1)
          /\ InTextOrder(index.datums) => ToSet(m) = OnNodes(b, s, i - 1)
    BY <1>0, <1>12, <1>14
  <2>0. f[1..i] = Match(m, s[i])
    BY <1>11, <2>1
  <2>2. /\ f[1..i] \in D /\ ToSet(f[1..i]) \subseteq ToSet(m) \cap ToSet(IdsOf(s[i]))
        /\ InTextOrder(index.datums) =>
             ToSet(f[1..i]) = ToSet(m) \cap ToSet(IdsOf(s[i]))
    BY <1>6, <2>0
  <2>3. OnNodes(b, s, i) = OnNodes(b, s, i - 1) \cap ToSet(IdsOf(s[i]))
    <3>1. \A j : j \in 1..i <=> j \in 1..i - 1 \/ j = i
      BY <1>0
    <3> QED
      BY <3>1 DEF OnNodes
  <2>4. /\ ToSet(f[1..i]) \subseteq OnNodes(b, s, i)
        /\ i = 0 \/ InTextOrder(index.datums) => ToSet(f[1..i]) = OnNodes(b, s, i)
    <3>1. i # 0
      BY <1>0
    <3> QED
      BY <2>1, <2>2, <2>3, <3>1
  <2>6. i \in 0..n
    BY <1>0
  <2> QED
    BY <1>12, <2>2, <2>4, <2>6, Zenon
<1>15. \A i \in 0..n : i \in P
  BY <1>13, <1>14, <1>0, StepByStep
<1>16. n \in P
  BY <1>0, <1>15
<1>17. t \in Seq(Int)
  BY <1>2, <1>3, <1>12, <1>16 DEF IdArrays
<1> QED
  BY <1>2, <1>12, <1>16, <1>17, <1>t, Zenon

-----------------------------------------------------------------------------
(* The trie, and what adding a datum leaves in it.                         *)

Tries == UNION {[W -> Seq(Int)] : W \in SUBSET Token}

\* A trie is a function from tokens to the ids on their nodes.
LEMMA TrieShape ==
  ASSUME NEW t
  PROVE  t \in Tries <=> /\ DOMAIN t \subseteq Token /\ t = [w \in DOMAIN t |-> t[w]]
                         /\ \A w \in DOMAIN t : t[w] \in Seq(Int)
<1>1. ASSUME t \in Tries
      PROVE  /\ DOMAIN t \subseteq Token /\ t = [w \in DOMAIN t |-> t[w]]
             /\ \A w \in DOMAIN t : t[w] \in Seq(Int)
  <2>1. PICK W \in SUBSET Token : t \in [W -> Seq(Int)]
    BY <1>1 DEF Tries
  <2> QED
    BY <2>1
<1>2. ASSUME DOMAIN t \subseteq Token, t = [w \in DOMAIN t |-> t[w]],
             \A w \in DOMAIN t : t[w] \in Seq(Int)
      PROVE  t \in Tries
  <2>1. PICK W : W = DOMAIN t
    OBVIOUS
  <2>2. t \in [W -> Seq(Int)] /\ W \in SUBSET Token
    BY <1>2, <2>1
  <2> QED
    BY <2>2 DEF Tries
<1> QED
  BY <1>1, <1>2

\* What a node of the trie holds, if there is one.
IdsAt(t, w) == IF w \in DOMAIN t THEN ToSet(t[w]) ELSE {}

\* The nodes of a token are its prefixes.
LEMMA PrefixNodes ==
  ASSUME NEW token \in Token
  PROVE  /\ PrefixesOf(token) \subseteq Token
         /\ \A w \in Token : w \in PrefixesOf(token) <=> IsPrefix(w, token)
<1>1. token \in Seq(Chars) /\ Len(token) \in Nat
  BY DEF Token
<1>2. \A n \in 1..Len(token) : /\ SubSeq(token, 1, n) \in Seq(Chars)
                               /\ Len(SubSeq(token, 1, n)) = n
  <2> TAKE n \in 1..Len(token)
  <2>1. 1 \in Int /\ n \in Int /\ \A i \in 1..n : token[i] \in Chars
    BY <1>1
  <2>2. /\ SubSeq(token, 1, n) \in Seq(Chars)
        /\ Len(SubSeq(token, 1, n)) = IF 1 <= n THEN n - 1 + 1 ELSE 0
    BY <1>1, <2>1, SubSeqProperties
  <2> QED
    BY <2>2
<1>3. ASSUME NEW w \in PrefixesOf(token) PROVE w \in Token /\ IsPrefix(w, token)
  <2>1. PICK n \in 1..Len(token) : w = SubSeq(token, 1, n)
    BY DEF PrefixesOf
  <2>2. w \in Seq(Chars) /\ Len(w) = n /\ n # 0
    BY <1>1, <1>2, <2>1
  <2>3. w # <<>>
    BY <2>2
  <2>4. SubSeq(w, 1, Len(w)) = w
    BY <2>2, SubSeqFull
  <2> QED
    BY <1>1, <2>1, <2>2, <2>3, <2>4 DEF Token, IsPrefix
<1>4. ASSUME NEW w \in Token, IsPrefix(w, token) PROVE w \in PrefixesOf(token)
  <2>1. w \in Seq(Chars) /\ w # <<>> /\ Len(w) \in Nat
    BY DEF Token
  <2>2. Len(w) # 0
    BY <2>1, EmptySeq
  <2>3. Len(w) \in 1..Len(token)
    BY <1>1, <1>4, <2>1, <2>2 DEF IsPrefix
  <2>4. SubSeq(w, 1, Len(w)) = w
    BY <2>1, SubSeqFull
  <2>5. w = SubSeq(token, 1, Len(w))
    BY <1>4, <2>4 DEF IsPrefix
  <2> QED
    BY <2>3, <2>5 DEF PrefixesOf
<1> QED
  BY <1>3, <1>4

\* A token adds its datum to the nodes of its prefixes and to no other.
LEMMA AddTokenAdds ==
  ASSUME NEW t \in Tries, NEW id \in Int, NEW token \in Token
  PROVE  /\ AddToken(t, id, token) \in Tries
         /\ \A w : IdsAt(AddToken(t, id, token), w) =
                     IdsAt(t, w) \cup (IF w \in PrefixesOf(token) THEN {id} ELSE {})
<1> DEFINE node(w) == (IF w \in DOMAIN t THEN t[w] ELSE <<>>) \o
                      (IF w \in PrefixesOf(token) THEN <<id>> ELSE <<>>)
<1>1. DOMAIN t \subseteq Token /\ \A w \in DOMAIN t : t[w] \in Seq(Int)
  BY TrieShape
<1>2. PrefixesOf(token) \subseteq Token
  BY PrefixNodes
<1>3. ASSUME NEW w
      PROVE  /\ node(w) \in Seq(Int)
             /\ ToSet(node(w)) = IdsAt(t, w) \cup (IF w \in PrefixesOf(token) THEN {id} ELSE {})
  <2>0. PICK old : old = IF w \in DOMAIN t THEN t[w] ELSE <<>>
    OBVIOUS
  <2>1. old \in Seq(Int) /\ old = IF w \in DOMAIN t THEN t[w] ELSE <<>>
    <3>1. <<>> \in Seq(Int)
      OBVIOUS
    <3> QED
      BY <1>1, <2>0, <3>1
  <2>2. ToSet(<<>>) = {}
    BY DEF ToSet
  <2>3. ToSet(old) = IdsAt(t, w)
    BY <2>1, <2>2 DEF IdsAt
  <2>4. CASE w \in PrefixesOf(token)
    <3>1. node(w) = old \o <<id>>
      BY <2>1, <2>4
    <3>2. old \o <<id>> = Append(old, id)
      BY AppendIsConcat
    <3>0. old \in Seq(Int) /\ id \in Int
      BY <2>1
    <3>3. Append(old, id) \in Seq(Int) /\ ToSet(Append(old, id)) = ToSet(old) \cup {id}
      BY ONLY <3>0, AppendElements
    <3>4. PICK new : new = node(w)
      OBVIOUS
    <3>5. new = Append(old, id)
      BY <3>1, <3>2, <3>4
    <3>6. new \in Seq(Int) /\ ToSet(new) = IdsAt(t, w) \cup {id}
      BY <2>3, <3>3, <3>5
    <3>7. IdsAt(t, w) \cup {id} =
            IdsAt(t, w) \cup (IF w \in PrefixesOf(token) THEN {id} ELSE {})
      BY <2>4
    <3> QED
      BY <3>4, <3>6, <3>7, Zenon
  <2>5. CASE w \notin PrefixesOf(token)
    <3>1. node(w) = old \o <<>>
      BY <2>1, <2>5
    <3>2. old \o <<>> = old
      BY <2>1, ConcatEmptySeq
    <3>3. node(w) = old
      BY <3>1, <3>2, Zenon
    <3>4. IdsAt(t, w) = IdsAt(t, w) \cup (IF w \in PrefixesOf(token) THEN {id} ELSE {})
      BY <2>5
    <3> QED
      BY <2>1, <2>3, <3>3, <3>4, Zenon
  <2> QED
    BY <2>4, <2>5
<1> HIDE DEF node
<1>4. PICK u : u = [w \in DOMAIN t \cup PrefixesOf(token) |-> node(w)]
  OBVIOUS
<1>5. AddToken(t, id, token) = u
  BY <1>4 DEF AddToken, node
<1>6. u \in Tries
  <2>1. DOMAIN u \subseteq Token /\ u = [w \in DOMAIN u |-> u[w]]
    BY <1>1, <1>2, <1>4
  <2>2. \A w \in DOMAIN u : u[w] \in Seq(Int)
    BY <1>3, <1>4
  <2> QED
    BY <2>1, <2>2, TrieShape
<1>7. ASSUME NEW w
      PROVE  IdsAt(u, w) = IdsAt(t, w) \cup (IF w \in PrefixesOf(token) THEN {id} ELSE {})
  <2>1. CASE w \in DOMAIN t \cup PrefixesOf(token)
    <3>1. w \in DOMAIN u /\ u[w] = node(w)
      BY <1>4, <2>1
    <3> QED
      BY <1>3, <3>1 DEF IdsAt
  <2>2. CASE w \notin DOMAIN t \cup PrefixesOf(token)
    BY <1>4, <2>2 DEF IdsAt
  <2> QED
    BY <2>1, <2>2
<1> QED
  BY <1>5, <1>6, <1>7

\* The tokens of a datum one after the other: what every node then holds.
LEMMA AddTokensAdds ==
  ASSUME NEW t \in Tries, NEW id \in Int, NEW s \in Seq(Token), NEW r,
         r = AddTokens(t, id, s)
  PROVE  /\ r \in Tries
         /\ \A w \in Token : \A x : x \in IdsAt(r, w) <=>
              x \in IdsAt(t, w) \/ (x = id /\ \E j \in DOMAIN s : IsPrefix(w, s[j]))
<1>1. PICK n \in Nat : n = Len(s) /\ DOMAIN s = 1..n /\ s \in [1..n -> Token]
  BY LenProperties
<1> DEFINE Body(f) == [q \in SUBSET (1..n) |->
              IF q = {} THEN t ELSE AddToken(f[q \ {Max(q)}], id, s[Max(q)])]
           f == CHOOSE f : f = Body(f)
<1>2. r = f[1..n]
  BY <1>1, Zenon DEF AddTokens, FoldLeft, MapThenFoldSet
<1> HIDE DEF f, Body
<1>3. PICK D : D = Tries
  OBVIOUS
<1>4. PICK g : g = [p \in D \X (1..n) |-> AddToken(p[1], id, s[p[2]])]
  OBVIOUS
<1>5. \A u \in D, i \in 1..n : g[<<u, i>>] = AddToken(u, id, s[i])
  BY <1>4
<1>6. \A u \in D, i \in 1..n :
        /\ AddToken(u, id, s[i]) \in D
        /\ \A w \in Token : \A x : x \in IdsAt(AddToken(u, id, s[i]), w) <=>
             x \in IdsAt(u, w) \/ (x = id /\ IsPrefix(w, s[i]))
  <2> TAKE u \in D, i \in 1..n
  <2>1. PICK token \in Token : token = s[i]
    BY <1>1
  <2>2. PICK v : v = AddToken(u, id, token)
    OBVIOUS
  <2>3. /\ v \in Tries
        /\ \A w : IdsAt(v, w) = IdsAt(u, w) \cup (IF w \in PrefixesOf(token) THEN {id} ELSE {})
    BY <1>3, <2>2, AddTokenAdds
  <2>4. \A w \in Token : w \in PrefixesOf(token) <=> IsPrefix(w, token)
    BY PrefixNodes
  <2>5. \A w \in Token : \A x : x \in IdsAt(v, w) <=>
          x \in IdsAt(u, w) \/ (x = id /\ IsPrefix(w, token))
    BY <2>3, <2>4
  <2>6. AddToken(u, id, s[i]) = v
    BY <2>1, <2>2
  <2>7. AddToken(u, id, s[i]) \in D
    BY <1>3, <2>3, <2>6
  <2>8. ASSUME NEW w \in Token, NEW x
        PROVE  x \in IdsAt(AddToken(u, id, s[i]), w) <=>
                 x \in IdsAt(u, w) \/ (x = id /\ IsPrefix(w, s[i]))
    <3>1. x \in IdsAt(v, w) <=> x \in IdsAt(u, w) \/ (x = id /\ IsPrefix(w, token))
      BY <2>5
    <3> QED
      BY <2>1, <2>6, <3>1
  <2> QED
    BY <2>7, <2>8
<1>7. t \in D /\ g \in [D \X (1..n) -> D]
  BY <1>3, <1>4, <1>6
<1>8. PICK F \in [SUBSET (1..n) -> D] : Folds(F, n, t, g)
  BY <1>7, FoldExists
<1>9. F = Body(F)
  <2>1. ASSUME NEW q \in SUBSET (1..n)
        PROVE  F[q] = IF q = {} THEN t ELSE AddToken(F[q \ {Max(q)}], id, s[Max(q)])
    <3>1. TakesLast(F, D, n, t, g)
      BY <1>1, <1>7, <1>8, FoldTurn
    <3> QED
      BY <1>5, <2>1, <3>1 DEF TakesLast
  <2>2. F = [q \in SUBSET (1..n) |-> F[q]]
    OBVIOUS
  <2> QED
    BY <2>1, <2>2, Zenon DEF Body
<1>10. f = Body(f)
  BY <1>9, Zenon DEF f
<1>11. f[1..0] = t /\ \A i \in 1..n : f[1..i] = AddToken(f[1..i - 1], id, s[i])
  <2>1. f[1..0] = t
    BY <1>10 DEF Body
  <2>2. ASSUME NEW i \in 1..n PROVE f[1..i] = AddToken(f[1..i - 1], id, s[i])
    <3>1. /\ 1..i \in SUBSET (1..n) /\ 1..i # {} /\ Max(1..i) = i
          /\ (1..i) \ {Max(1..i)} = 1..i - 1
      BY LastUpTo
    <3>2. f[1..i] = AddToken(f[(1..i) \ {Max(1..i)}], id, s[Max(1..i)])
      BY <1>10, <3>1 DEF Body
    <3> QED
      BY <3>1, <3>2
  <2> QED
    BY <2>1, <2>2
<1> DEFINE holds(u, i) == \A w \in Token : \A x : x \in IdsAt(u, w) <=>
                            x \in IdsAt(t, w) \/ (x = id /\ \E j \in 1..i : IsPrefix(w, s[j]))
<1>12. PICK P : P = {i \in 0..n : f[1..i] \in D /\ holds(f[1..i], i)}
  OBVIOUS
<1>13. 0 \in P
  <2>1. holds(t, 0)
    <3>1. ~ \E j \in 1..0 : TRUE
      OBVIOUS
    <3> QED
      BY <3>1
  <2>2. 0 \in 0..n
    OBVIOUS
  <2> HIDE DEF holds
  <2> QED
    BY <1>7, <1>11, <1>12, <2>1, <2>2
<1>14. ASSUME NEW i \in 1..n, i - 1 \in P PROVE i \in P
  <2>1. PICK u \in D : u = f[1..i - 1] /\ holds(u, i - 1)
    BY <1>12, <1>14
  <2>2. PICK v : v = f[1..i]
    OBVIOUS
  <2>3. v = AddToken(u, id, s[i])
    BY <1>11, <2>1, <2>2
  <2>4. v \in D /\ \A w \in Token : \A x : x \in IdsAt(v, w) <=>
                     x \in IdsAt(u, w) \/ (x = id /\ IsPrefix(w, s[i]))
    BY <1>6, <2>3
  <2>5. \A j : j \in 1..i <=> j \in 1..i - 1 \/ j = i
    OBVIOUS
  <2>6. \A w : (\E j \in 1..i : IsPrefix(w, s[j])) <=>
               (\E j \in 1..i - 1 : IsPrefix(w, s[j])) \/ IsPrefix(w, s[i])
    BY <2>5, Zenon
  <2>7. holds(v, i)
    <3>1. ASSUME NEW w \in Token, NEW x
          PROVE  x \in IdsAt(v, w) <=>
                   x \in IdsAt(t, w) \/ (x = id /\ \E j \in 1..i : IsPrefix(w, s[j]))
      <4>1. x \in IdsAt(u, w) <=>
              x \in IdsAt(t, w) \/ (x = id /\ \E j \in 1..i - 1 : IsPrefix(w, s[j]))
        BY <2>1
      <4>2. x \in IdsAt(v, w) <=> x \in IdsAt(u, w) \/ (x = id /\ IsPrefix(w, s[i]))
        BY <2>4
      <4> QED
        BY <2>6, <4>1, <4>2, Zenon
    <3> QED
      BY <3>1
  <2>8. i \in 0..n
    OBVIOUS
  <2> QED
    BY <1>12, <2>2, <2>4, <2>7, <2>8, Zenon
<1> HIDE DEF holds
<1>15. \A i \in 0..n : i \in P
  BY <1>13, <1>14, StepByStep
<1>16. n \in P
  BY <1>15
<1>17. r \in D /\ holds(r, n)
  BY <1>2, <1>12, <1>16
<1> QED
  BY <1>1, <1>3, <1>17 DEF holds

\* What a node of the trie holds are the data added with a token that begins
\* with its word.
Leads(id, w) == \E i \in DOMAIN Datums[id] : IsPrefix(w, Datums[id][i])

\* The invariant: what the trie holds is what was added.
IndexSound ==
  /\ index = [numbers |-> index.numbers, datums |-> index.datums,
              trie |-> index.trie, adds |-> index.adds]
  /\ index.datums \subseteq DOMAIN Datums /\ index.trie \in Tries
  /\ \A w \in Token : \A id : id \in IdsAt(index.trie, w) <=>
                               id \in index.datums /\ Leads(id, w)

\* An empty trie has no ids.
LEMMA EmptyTrie == <<>> \in Tries /\ \A w : IdsAt(<<>>, w) = {}
<1>1. DOMAIN <<>> = {}
  OBVIOUS
<1>2. <<>> = [w \in DOMAIN <<>> |-> <<>>[w]]
  OBVIOUS
<1>3. <<>> \in Tries
  BY <1>1, <1>2, TrieShape
<1> QED
  BY <1>1, <1>3 DEF IdsAt

\* The index at the start is sound,
LEMMA IndexStarts == Init => IndexSound
<1> SUFFICES ASSUME Init PROVE IndexSound
  OBVIOUS
<1>1. PICK numbers : index = [numbers |-> numbers, datums |-> {}, trie |-> <<>>, adds |-> 0]
  BY DEF Init, EngineInit, IndexInit
<1>2. index.datums = {} /\ index.trie = <<>> /\ index.adds = 0
  BY <1>1
<1> QED
  BY <1>1, <1>2, EmptyTrie DEF IndexSound

\* and stays so with a datum more,
LEMMA AddToIndexKeeps ==
  ASSUME IndexSound, NEW id \in DOMAIN Datums, AddToIndex(id)
  PROVE  IndexSound'
<1>1. PICK r : r = AddTokens(index.trie, id, Datums[id])
  OBVIOUS
<1>2. index' = [numbers |-> index.numbers, datums |-> index.datums \cup {id},
                trie |-> r, adds |-> index.adds + 1]
  BY <1>1 DEF AddToIndex, IndexSound
<1>3. /\ index'.datums = index.datums \cup {id} /\ index'.trie = r
      /\ index' = [numbers |-> index'.numbers, datums |-> index'.datums,
                   trie |-> index'.trie, adds |-> index'.adds]
  BY <1>2
<1>4. PICK s \in Seq(Token) : s = Datums[id]
  BY BloodhoundAssumption
<1>5. id \in Int
  BY BloodhoundAssumption
<1>6. index.trie \in Tries
  BY DEF IndexSound
<1>7. /\ r \in Tries
      /\ \A w \in Token : \A x : x \in IdsAt(r, w) <=>
           x \in IdsAt(index.trie, w) \/ (x = id /\ \E j \in DOMAIN s : IsPrefix(w, s[j]))
  BY <1>1, <1>4, <1>5, <1>6, AddTokensAdds
<1>8. ASSUME NEW w \in Token, NEW x
      PROVE  x \in IdsAt(r, w) <=> x \in index'.datums /\ Leads(x, w)
  <2>1. x \in IdsAt(index.trie, w) <=> x \in index.datums /\ Leads(x, w)
    BY DEF IndexSound
  <2>2. x \in IdsAt(r, w) <=>
          x \in IdsAt(index.trie, w) \/ (x = id /\ \E j \in DOMAIN s : IsPrefix(w, s[j]))
    BY <1>7
  <2>3. (\E j \in DOMAIN s : IsPrefix(w, s[j])) <=> Leads(id, w)
    BY <1>4 DEF Leads
  <2> QED
    BY <1>3, <2>1, <2>2, <2>3
<1>9. index'.datums \subseteq DOMAIN Datums
  BY <1>3 DEF IndexSound
<1> QED
  BY <1>3, <1>7, <1>8, <1>9 DEF IndexSound

\* and with none,
LEMMA ResetIndexKeeps == IndexSound /\ ResetIndex => IndexSound'
<1> SUFFICES ASSUME IndexSound, ResetIndex PROVE IndexSound'
  OBVIOUS
<1>1. index' = [numbers |-> index.numbers, datums |-> {}, trie |-> <<>>, adds |-> index.adds]
  BY DEF IndexSound, ResetIndex
<1>2. index'.datums = {} /\ index'.trie = <<>> /\ index'.adds = index.adds
  BY <1>1
<1> QED
  BY <1>1, <1>2, EmptyTrie DEF IndexSound

\* through every step.
LEMMA IndexSteps == IndexSound /\ [Next]_vars => IndexSound'
<1> SUFFICES ASSUME IndexSound, [Next]_vars PROVE IndexSound'
  OBVIOUS
<1>1. ASSUME UNCHANGED index PROVE IndexSound'
  BY <1>1 DEF IndexSound
<1>2. CASE UNCHANGED vars
  BY <1>1, <1>2 DEF vars, engineVars
<1>3. CASE part = "box" /\ TypeaheadNext /\ UNCHANGED engineVars
  BY <1>1, <1>3 DEF engineVars
<1>4. CASE part # "box" /\ EngineNext /\ UNCHANGED ta
  <2>1. ASSUME NEW id \in DOMAIN Datums, AddToIndex(id) PROVE IndexSound'
    BY <2>1, AddToIndexKeeps
  <2>2. CASE ResetIndex
    BY <2>2, ResetIndexKeeps
  <2>3. CASE RemoteNext
    BY <1>1, <2>3 DEF RemoteNext, RemoteSearch, Respond, LimiterFires, LimitOver, ResetCache
  <2>4. CASE PrefetchNext
    BY <1>1, <2>4 DEF PrefetchNext, OpenPage, ForceInitialize, AddData, ClearIndex,
         ClearPrefetchCache, Tick, Deploy, PrefetchAnswers, PrefetchFails, PreVars
  <2> QED
    BY <1>4, <2>1, <2>2, <2>3, <2>4 DEF EngineNext
<1> QED
  BY <1>2, <1>3, <1>4 DEF Next

-----------------------------------------------------------------------------
(* A search: each word leads to a node, and what the nodes hold is         *)
(* intersected.                                                            *)

LEMMA IdsOfNode ==
  ASSUME IndexSound, NEW w \in Token
  PROVE  IdsOf(w) \in IdArrays /\ ToSet(IdsOf(w)) = IdsAt(index.trie, w)
<1>1. \A x \in DOMAIN index.trie : index.trie[x] \in Seq(Int)
  BY TrieShape DEF IndexSound
<1>2. <<>> \in Seq(Int) /\ ToSet(<<>>) = {}
  BY DEF ToSet
<1>5. IdsOf(w) \in Seq(Int) /\ ToSet(IdsOf(w)) = IdsAt(index.trie, w)
  <2>1. CASE w \in DOMAIN index.trie
    BY <1>1, <2>1 DEF IdsOf, IdsAt
  <2>2. CASE w \notin DOMAIN index.trie
    BY <1>2, <2>2 DEF IdsOf, IdsAt
  <2> QED
    BY <2>1, <2>2
<1>6. IdsAt(index.trie, w) \subseteq index.datums
  BY DEF IndexSound
<1> QED
  BY <1>5, <1>6 DEF IdArrays

\* and every id of the index has its place.
LEMMA IndexSortable == IndexSound => Sortable(index.datums)
<1> SUFFICES ASSUME IndexSound, NEW x \in index.datums PROVE SortKey(x) \in Int
  BY DEF Sortable
<1>1. x \in DOMAIN Datums /\ x \in Int /\ TextOrder[x] \in Int
  BY BloodhoundAssumption DEF IndexSound
<1> QED
  BY <1>1 DEF SortKey

\* A search of a sound index finds what it should, once each,
LEMMA SearchFinds ==
  ASSUME IndexSound, NEW query \in Seq(Token)
  PROVE  /\ IsInjective(Search(query))
         /\ ToSet(Search(query)) \subseteq Matching(query)
         /\ Len(query) <= 1 \/ InTextOrder(index.datums) =>
              ToSet(Search(query)) = Matching(query)
<1>1. CASE query = <<>>
  <2>1. Search(query) = <<>> /\ Matching(query) = {}
    BY <1>1 DEF Search, Matching
  <2>2. ToSet(<<>>) = {} /\ IsInjective(<<>>)
    BY DEF ToSet, IsInjective
  <2> QED
    BY <1>1, <2>1, <2>2
<1>2. CASE query # <<>>
  <2>1. PICK m \in Nat : /\ Len(query) = m + 1 /\ DOMAIN query = 1..m + 1
                         /\ \A j \in 1..m + 1 : query[j] \in Token
    <3>1. Len(query) \in Nat /\ Len(query) # 0 /\ DOMAIN query = 1..Len(query)
      BY <1>2, EmptySeq
    <3>2. Len(query) - 1 \in Nat /\ Len(query) = Len(query) - 1 + 1
      BY <3>1
    <3>3. \A j \in 1..Len(query) : query[j] \in Token
      BY <3>1
    <3> QED
      BY <3>1, <3>2, <3>3
  <2>2. PICK s : s = Tail(query)
    OBVIOUS
  <2>3. s \in [1..m -> Token] /\ \A i \in 1..m : s[i] = query[i + 1]
    <3>1. s \in Seq(Token) /\ Len(s) = m /\ \A i \in 1..m : s[i] = query[i + 1]
      BY <1>2, <2>1, <2>2, HeadTailProperties
    <3>2. s \in [1..Len(s) -> Token]
      BY <3>1, LenProperties
    <3> QED
      BY <3>1, <3>2
  <2>4. PICK b \in IdArrays : b = IdsOf(query[1]) /\ ToSet(b) = IdsAt(index.trie, query[1])
    <3>1. query[1] \in Token
      BY <2>1
    <3> QED
      BY <3>1, IdsOfNode
  <2>5. PICK t : t = MatchAll(b, s)
    OBVIOUS
  <2>6. \A w \in Token : IdsOf(w) \in IdArrays
    BY IdsOfNode
  <2>7. /\ t \in Seq(Int)
        /\ ToSet(t) \subseteq OnNodes(b, s, m)
        /\ m = 0 \/ InTextOrder(index.datums) => ToSet(t) = OnNodes(b, s, m)
    <3>1. Matchable(s, m, Token, b)
      BY <2>3, <2>6, IndexSortable DEF Matchable
    <3> QED
      BY <2>5, <3>1, MatchFold
  <2>8. Search(query) = Unique(t)
    BY <1>2, <2>2, <2>4, <2>5, Zenon DEF Search, MatchAll
  <2>9. IsInjective(Search(query)) /\ ToSet(Search(query)) = ToSet(t)
    BY <2>7, <2>8, UniqueIsSet
  <2>10. \A x, w : w \in Token =>
           (x \in IdsAt(index.trie, w) <=> x \in index.datums /\ Leads(x, w))
    BY DEF IndexSound
  <2>11. \A x : x \in OnNodes(b, s, m) <=>
           x \in index.datums /\ \A j \in 1..m + 1 : Leads(x, query[j])
    <3> TAKE x
    <3>1. x \in ToSet(b) <=> x \in index.datums /\ Leads(x, query[1])
      <4>1. query[1] \in Token
        BY <2>1
      <4> QED
        BY <2>4, <2>10, <4>1
    <3>2. ASSUME NEW i \in 1..m
          PROVE  x \in ToSet(IdsOf(s[i])) <=> x \in index.datums /\ Leads(x, query[i + 1])
      <4>1. s[i] \in Token /\ s[i] = query[i + 1]
        BY <2>3
      <4>2. ToSet(IdsOf(s[i])) = IdsAt(index.trie, s[i])
        BY <4>1, IdsOfNode
      <4> QED
        BY <2>10, <4>1, <4>2
    <3>3. x \in OnNodes(b, s, m) <=>
            x \in ToSet(b) /\ \A i \in 1..m : x \in ToSet(IdsOf(s[i]))
      BY DEF OnNodes
    <3>4. \A j \in 1..m + 1 : j = 1 \/ (j - 1 \in 1..m /\ j - 1 + 1 = j)
      BY <2>1
    <3>5. (\A j \in 1..m + 1 : Leads(x, query[j])) <=>
            Leads(x, query[1]) /\ \A i \in 1..m : Leads(x, query[i + 1])
      <4>1. 1 \in 1..m + 1 /\ \A i \in 1..m : i + 1 \in 1..m + 1
        BY <2>1
      <4>2. ASSUME Leads(x, query[1]), \A i \in 1..m : Leads(x, query[i + 1]),
                   NEW j \in 1..m + 1
            PROVE  Leads(x, query[j])
        BY <3>4, <4>2
      <4> QED
        BY <4>1, <4>2
    <3> QED
      BY <3>1, <3>2, <3>3, <3>5
  <2>12. OnNodes(b, s, m) = Matching(query)
    <3>1. Matching(query) = {x \in index.datums : \A j \in DOMAIN query : Leads(x, query[j])}
      BY <1>2, Zenon DEF Matching, Leads
    <3> QED
      BY <2>1, <2>11, <3>1
  <2>13. Len(query) <= 1 => m = 0
    BY <2>1
  <2> QED
    BY <2>7, <2>9, <2>12, <2>13
<1> QED
  BY <1>1, <1>2

\* which is what the run checks.
LEMMA IndexSoundFinds == IndexSound => SearchFindsPrefixes
<1> SUFFICES ASSUME IndexSound, NEW query \in Queries
    PROVE  /\ IsInjective(Search(query))
           /\ ToSet(Search(query)) \subseteq Matching(query)
           /\ \/ ToSet(Search(query)) = Matching(query)
              \/ Len(query) > 1 /\ ~InTextOrder(index.datums)
  BY Zenon DEF SearchFindsPrefixes
<1>1. query \in Seq(Token)
  BY BloodhoundAssumption
<1>2. Len(query) <= 1 \/ Len(query) > 1
  BY <1>1
<1> QED
  BY <1>1, <1>2, SearchFinds, Zenon

\* A search finds, once each, only data added since the index was last cleared of
\* which some token begins with each of its words, and all of them if it has one word
\* or the ids sort as they compare (GetIntersection, Unique), whatever was added, in
\* which order and how often.
THEOREM SearchIsExact == Spec => []SearchFindsPrefixes
<1>1. Spec => []IndexSound
  BY IndexStarts, IndexSteps, PTL DEF Spec
<1> QED
  BY <1>1, IndexSoundFinds, PTL

-----------------------------------------------------------------------------
(* Prefetched data.                                                        *)

Parsed == Nat \X Nat
Entries == [items : SUBSET Parsed, thumbprint : Nat, until : Nat]

PreType(p) ==
  /\ p \in [time : Nat, deployed : Nat \ {0}, thumbprint : Nat \ {0}, opened : Nat,
            stored : SUBSET Entries, noop : BOOLEAN, items : SUBSET Parsed,
            promise : {"none", "pending", "resolved", "rejected"},
            orphans : Nat, overlap : BOOLEAN, relabelled : BOOLEAN, cleared : BOOLEAN]
  /\ p.opened <= p.time

\* An entry of the storage holds what was fetched, under its thumbprint and, but
\* for requests that overlapped, for as long as it says; unless it took the
\* thumbprint and the time of another.
StoredSound(p) ==
  \A s \in p.stored :
    /\ \E item \in s.items : IsFetched(item)
    /\ \A item \in s.items : IsFetched(item) =>
         \/ p.relabelled
         \/ item[1] = s.thumbprint /\ (p.overlap \/ s.until <= item[2] + Ttl)

\* Without an overlap the latest request is the only one, and while it is under
\* way nothing in the index was fetched.
OneRequest(p) ==
  ~p.overlap =>
    /\ p.orphans = 0
    /\ p.promise = "pending" => \A item \in p.items : ~IsFetched(item)

ItemsCurrent(p) ==
  \A item \in p.items : IsFetched(item) =>
    \/ p.relabelled
    \/ item[1] = p.thumbprint /\ (p.overlap \/ p.opened <= item[2] + Ttl)

Complete(p) ==
  (p.promise = "resolved" /\ ~p.cleared) =>
     LocalItem \in p.items /\ \E item \in p.items : IsFetched(item)

PreSound(p) ==
  PreType(p) /\ StoredSound(p) /\ OneRequest(p) /\ ItemsCurrent(p) /\ Complete(p)

\* The items of several stores.
LEMMA ItemsOfAll ==
  \A S : \A x : x \in ItemsIn(S) <=> \E s \in S : x \in s.items
BY DEF ItemsIn

\* What initialize leaves, from what a page may find when it is opened.
LEMMA InitializedSound ==
  ASSUME NEW p, PreType(p), StoredSound(p)
  PROVE  PreSound(Initialized(p))
<1> DEFINE hit == FromCache(p)
           q == Initialized(p)
           more == IF p.promise = "pending" THEN 1 ELSE 0
<1>1. /\ q.time = p.time /\ q.deployed = p.deployed /\ q.thumbprint = p.thumbprint
      /\ q.opened = p.opened /\ q.noop = p.noop /\ q.cleared = FALSE
      /\ q.relabelled = p.relabelled
      /\ q.orphans = p.orphans + more /\ q.overlap = (p.overlap \/ p.orphans + more > 0)
      /\ q.stored = {s \in p.stored : p.noop \/ p.time <= s.until}
      /\ q.promise = (IF hit = {} THEN "pending" ELSE "resolved")
  BY DEF Initialized, PreType
<1>i. /\ hit = {} => q.items = {}
      /\ \A x \in q.items : x = LocalItem \/ \E s \in hit : x \in s.items
      /\ \A s \in hit : s.items \subseteq q.items /\ LocalItem \in q.items
  <2>1. CASE hit = {}
    BY <2>1 DEF Initialized, PreType
  <2>2. CASE hit # {}
    <3>1. q.items = ItemsIn(hit) \cup {LocalItem}
      BY <2>2 DEF Initialized, PreType
    <3> HIDE DEF q, hit
    <3>2. \A x : x \in ItemsIn(hit) <=> \E s \in hit : x \in s.items
      BY ItemsOfAll
    <3> HIDE DEF q, hit
    <3>3. \A x \in q.items : x = LocalItem \/ \E s \in hit : x \in s.items
      BY <3>1, <3>2
    <3>4. \A s \in hit : s.items \subseteq q.items
      BY <3>1, <3>2
    <3> QED
      BY <2>2, <3>1, <3>3, <3>4
  <2> QED
    BY <2>1, <2>2
<1>q. q = [time |-> q.time, deployed |-> q.deployed, thumbprint |-> q.thumbprint,
           opened |-> q.opened, stored |-> q.stored, noop |-> q.noop, items |-> q.items,
           promise |-> q.promise, orphans |-> q.orphans, overlap |-> q.overlap,
           relabelled |-> q.relabelled, cleared |-> q.cleared]
  BY DEF Initialized, PreType
<1>2. /\ \A s \in hit : s \in p.stored /\ s.thumbprint = p.thumbprint /\ p.time <= s.until
      /\ \A s \in hit : s.items \in SUBSET Parsed
  BY DEF FromCache, PreType, Entries
<1>3. LocalItem \in Parsed /\ ~IsFetched(LocalItem)
  BY DEF LocalItem, Parsed, IsFetched
<1> HIDE DEF q, hit
<1>4. q.items \in SUBSET Parsed
  BY <1>i, <1>2, <1>3
<1>a. /\ p.orphans \in Nat /\ p.overlap \in BOOLEAN /\ p.opened <= p.time
      /\ more \in {0, 1} /\ p.stored \in SUBSET Entries
  BY DEF PreType
<1> HIDE DEF more
<1>b. /\ q.orphans \in Nat /\ q.overlap \in BOOLEAN
      /\ ~q.overlap => ~p.overlap /\ q.orphans = 0
      /\ p.overlap => q.overlap
  <2>1. p.orphans + more \in Nat
    BY <1>a
  <2>2. ~(p.orphans + more > 0) => p.orphans + more = 0
    BY <2>1
  <2> QED
    BY <1>1, <1>a, <2>1, <2>2
<1>5. PreType(q)
  <2>1. q.stored \in SUBSET Entries /\ q.opened <= q.time
    BY <1>1, <1>a
  <2>2. q.promise \in {"none", "pending", "resolved", "rejected"}
    BY <1>1
  <2>3. /\ q.time \in Nat /\ q.deployed \in Nat \ {0} /\ q.thumbprint \in Nat \ {0}
        /\ q.opened \in Nat /\ q.noop \in BOOLEAN /\ q.cleared \in BOOLEAN
        /\ q.relabelled \in BOOLEAN
    BY <1>1 DEF PreType
  <2> QED
    BY <1>q, <1>4, <1>b, <2>1, <2>2, <2>3 DEF PreType
<1>6. StoredSound(q)
  <2>1. \A s \in q.stored : s \in p.stored
    BY <1>1
  <2> QED
    BY <1>1, <1>b, <2>1 DEF StoredSound
<1>7. OneRequest(q)
  <2>1. q.promise = "pending" => q.items = {}
    BY <1>1, <1>i
  <2> QED
    BY <1>b, <2>1 DEF OneRequest
<1>8. ItemsCurrent(q)
  <2> SUFFICES ASSUME NEW item \in q.items, IsFetched(item)
               PROVE  \/ q.relabelled
                      \/ /\ item[1] = q.thumbprint
                         /\ q.overlap \/ q.opened <= item[2] + Ttl
    BY DEF ItemsCurrent
  <2>1. PICK s \in hit : item \in s.items
    BY <1>i, <1>3
  <2>2. \/ p.relabelled
        \/ item[1] = s.thumbprint /\ (p.overlap \/ s.until <= item[2] + Ttl)
    BY <1>2, <2>1 DEF StoredSound
  <2>3. s.until \in Nat /\ item[2] \in Nat /\ Ttl \in Nat /\ p.time \in Nat /\ p.opened \in Nat
    BY <1>2, <1>4, <2>1, BloodhoundAssumption DEF PreType, Entries, Parsed
  <2> QED
    BY <1>1, <1>2, <1>a, <1>b, <2>1, <2>2, <2>3
<1>9. Complete(q)
  <2>1. CASE hit = {}
    BY <1>1, <2>1 DEF Complete
  <2>2. ASSUME NEW s \in hit PROVE Complete(q)
    <3>1. PICK item \in s.items : IsFetched(item)
      BY <1>2 DEF StoredSound
    <3>2. item \in q.items /\ LocalItem \in q.items
      BY <1>i, <2>2
    <3> QED
      BY <3>1, <3>2 DEF Complete
  <2> QED
    BY <2>1, <2>2
<1> QED
  BY <1>5, <1>6, <1>7, <1>8, <1>9 DEF PreSound, q

\* Storing it, however it ends.
LEMMA StoreSound ==
  ASSUME NEW p, PreSound(p), NEW write \in Writes,
         NEW entry \in Entries, \E item \in entry.items : IsFetched(item),
         \A item \in entry.items : IsFetched(item) =>
           \/ p.relabelled
           \/ item[1] = entry.thumbprint /\ (p.overlap \/ entry.until <= item[2] + Ttl)
  PROVE  PreSound(Store(p, entry, write))
<1>1. PICK q : q = Store(p, entry, write)
  OBVIOUS
<1>2. PreType(p) /\ StoredSound(p)
  BY DEF PreSound
<1>3. PICK kept : kept = {[entry EXCEPT !.items = s.items] : s \in p.stored}
  OBVIOUS
<1>4. /\ kept \in SUBSET Entries
      /\ \A k \in kept : \E item \in k.items : IsFetched(item)
      /\ p.stored = {} => kept = {}
  <2>1. ASSUME NEW s \in p.stored
        PROVE  /\ [entry EXCEPT !.items = s.items] \in Entries
               /\ \E item \in [entry EXCEPT !.items = s.items].items : IsFetched(item)
    <3>1. s.items \in SUBSET Parsed /\ \E item \in s.items : IsFetched(item)
      BY <1>2 DEF PreType, StoredSound, Entries
    <3> QED
      BY <3>1 DEF Entries
  <2> QED
    BY <1>3, <2>1
<1>5. \/ q = p
      \/ q = [p EXCEPT !.stored = {}, !.noop = TRUE]
      \/ q = [p EXCEPT !.stored = {entry}]
      \/ q = [p EXCEPT !.stored = kept, !.relabelled = @ \/ p.stored # {}]
  BY <1>1, <1>3 DEF Store
<1>6. /\ PreType(q) /\ q.items = p.items /\ q.thumbprint = p.thumbprint
      /\ q.opened = p.opened /\ q.overlap = p.overlap /\ q.orphans = p.orphans
      /\ q.promise = p.promise /\ q.cleared = p.cleared
      /\ p.relabelled => q.relabelled
      /\ q.stored \in {p.stored, {}, {entry}} \/ (q.stored = kept /\ (q.relabelled \/ kept = {}))
  <2>1. CASE q = p
    BY <1>2, <2>1
  <2>2. CASE q = [p EXCEPT !.stored = {}, !.noop = TRUE]
    BY <1>2, <2>2 DEF PreType
  <2>3. CASE q = [p EXCEPT !.stored = {entry}]
    BY <1>2, <2>3 DEF PreType
  <2>4. CASE q = [p EXCEPT !.stored = kept, !.relabelled = @ \/ p.stored # {}]
    <3>1. (p.relabelled \/ p.stored # {}) \in BOOLEAN /\ p.relabelled \in BOOLEAN
      BY <1>2 DEF PreType
    <3>2. PICK b \in BOOLEAN : b = (p.relabelled \/ p.stored # {})
      BY <3>1
    <3>3. q = [p EXCEPT !.stored = kept, !.relabelled = b]
      BY <2>4, <3>2
    <3>4. PreType(q) /\ q.stored = kept /\ q.relabelled = b
      BY <1>2, <1>4, <3>3 DEF PreType
    <3>5. /\ q.items = p.items /\ q.thumbprint = p.thumbprint
          /\ q.opened = p.opened /\ q.overlap = p.overlap /\ q.orphans = p.orphans
          /\ q.promise = p.promise /\ q.cleared = p.cleared
      BY <1>2, <3>3 DEF PreType
    <3> QED
      BY <1>4, <3>2, <3>4, <3>5
  <2> QED
    BY <1>5, <2>1, <2>2, <2>3, <2>4
<1>7. StoredSound(q)
  <2>1. CASE q.stored \in {p.stored, {}}
    BY <1>2, <1>6, <2>1 DEF StoredSound
  <2>2. CASE q.stored = {entry}
    BY <1>6, <2>2 DEF StoredSound
  <2>3. CASE q.stored = kept /\ (q.relabelled \/ kept = {})
    BY <1>4, <2>3 DEF StoredSound
  <2> QED
    BY <1>6, <2>1, <2>2, <2>3
<1>8. OneRequest(q) /\ ItemsCurrent(q) /\ Complete(q)
  BY <1>6 DEF PreSound, OneRequest, ItemsCurrent, Complete
<1> QED
  BY <1>1, <1>6, <1>7, <1>8 DEF PreSound

\* A response, and what storing it makes of it.
LEMMA PrefetchAnswersSound ==
  ASSUME PreSound(pre), NEW latest \in BOOLEAN, NEW write \in Writes,
         PrefetchAnswers(latest, write)
  PROVE  PreSound(pre')
<1>i. PICK items : items = pre.items \cup {Fetched(pre.thumbprint, pre.time)}
  OBVIOUS
<1>p. PICK p : p = [pre EXCEPT !.orphans = IF latest THEN @ ELSE @ - 1,
                               !.items = items \cup {LocalItem},
                               !.promise = IF latest THEN "resolved" ELSE @]
  OBVIOUS
<1>e. PICK entry : entry = [items |-> items, thumbprint |-> pre.thumbprint,
                            until |-> pre.time + Ttl]
  OBVIOUS
<1>s. UnderWay(latest) /\ pre' = Store(p, entry, write)
  BY <1>i, <1>p, <1>e DEF PrefetchAnswers
<1> DEFINE fresh == Fetched(pre.thumbprint, pre.time)
<1>1. /\ p.time = pre.time /\ p.deployed = pre.deployed
      /\ p.thumbprint = pre.thumbprint /\ p.opened = pre.opened
      /\ p.overlap = pre.overlap /\ p.cleared = pre.cleared
      /\ p.relabelled = pre.relabelled /\ p.noop = pre.noop
      /\ p.items = items \cup {LocalItem}
      /\ p.promise = (IF latest THEN "resolved" ELSE pre.promise)
      /\ p.orphans = (IF latest THEN pre.orphans ELSE pre.orphans - 1)
      /\ p.stored = pre.stored
      /\ p = [time |-> p.time, deployed |-> p.deployed, thumbprint |-> p.thumbprint,
              opened |-> p.opened, stored |-> p.stored, noop |-> p.noop,
              items |-> p.items, promise |-> p.promise, orphans |-> p.orphans,
              overlap |-> p.overlap, relabelled |-> p.relabelled, cleared |-> p.cleared]
  BY <1>p DEF PreSound, PreType
<1>2. /\ fresh \in Parsed /\ IsFetched(fresh) /\ fresh[1] = pre.thumbprint
      /\ fresh[2] = pre.time /\ LocalItem \in Parsed /\ ~IsFetched(LocalItem)
  BY DEF Fetched, IsFetched, LocalItem, Parsed, PreSound, PreType
<1>3. IF latest THEN pre.promise = "pending" ELSE pre.orphans > 0
  BY <1>s DEF UnderWay
<1>a. Ttl \in Nat
  BY BloodhoundAssumption
<1> HIDE DEF fresh
<1>b. items \in SUBSET Parsed /\ entry \in Entries
  BY <1>i, <1>e, <1>2, <1>a DEF PreSound, PreType, Entries, fresh
<1>4. PreType(p)
  <2>1. p.stored \in SUBSET Entries /\ p.items \in SUBSET Parsed
    BY <1>1, <1>2, <1>b DEF PreSound, PreType
  <2>2. p.orphans \in Nat
    BY <1>1, <1>3 DEF PreSound, PreType
  <2> QED
    BY <1>1, <2>1, <2>2 DEF PreSound, PreType
\* Without an overlap nothing else was fetched when the answer comes.
<1>5. ~pre.overlap => latest /\ \A item \in pre.items : ~IsFetched(item)
  BY <1>3 DEF PreSound, OneRequest, PreType
<1>6. /\ \A item \in entry.items : IsFetched(item) =>
           \/ p.relabelled
           \/ item[1] = entry.thumbprint /\ (p.overlap \/ entry.until <= item[2] + Ttl)
      /\ \E item \in entry.items : IsFetched(item)
  <2>1. \A item \in items : IsFetched(item) =>
          p.relabelled \/ (item[1] = pre.thumbprint /\ (pre.overlap \/ item = fresh))
    BY <1>i, <1>1, <1>2, <1>5 DEF PreSound, ItemsCurrent, fresh
  <2>2. pre.time + Ttl <= fresh[2] + Ttl
    BY <1>2, <1>a DEF PreSound, PreType
  <2>3. fresh \in items
    BY <1>i DEF fresh
  <2> QED
    BY <1>e, <1>1, <1>2, <2>1, <2>2, <2>3
<1>7. OneRequest(p)
  BY <1>1, <1>5 DEF PreSound, OneRequest
<1>8. ItemsCurrent(p)
  <2>1. pre.opened <= fresh[2] + Ttl
    BY <1>2, <1>a DEF PreSound, PreType
  <2> QED
    BY <1>i, <1>1, <1>2, <2>1 DEF PreSound, ItemsCurrent, fresh
<1>9. Complete(p)
  BY <1>i, <1>1, <1>2 DEF Complete, fresh
<1>10. StoredSound(p)
  BY <1>1 DEF PreSound, StoredSound
<1>11. PreSound(p)
  BY <1>4, <1>7, <1>8, <1>9, <1>10 DEF PreSound
<1> QED
  BY <1>s, <1>b, <1>6, <1>11, StoreSound

\* The other actions of the page and the site.
LEMMA PreStep == ASSUME PreSound(pre), [Next]_vars PROVE PreSound(pre')
<1> USE DEF PreSound
<1>1. CASE UNCHANGED pre
  BY <1>1 DEF PreType, StoredSound, OneRequest, ItemsCurrent, Complete
<1>2. ASSUME NEW taken \in BOOLEAN, OpenPage(taken) PROVE PreSound(pre')
  <2> DEFINE p == [pre EXCEPT !.thumbprint = pre.deployed, !.noop = ~taken,
                              !.opened = pre.time, !.promise = "none", !.orphans = 0]
  <2>1. PICK q : q = p
    OBVIOUS
  <2>3. /\ q.time = pre.time /\ q.deployed = pre.deployed /\ q.thumbprint = pre.deployed
        /\ q.opened = pre.time /\ q.stored = pre.stored /\ q.noop = ~taken
        /\ q.items = pre.items /\ q.promise = "none" /\ q.orphans = 0
        /\ q.overlap = pre.overlap /\ q.cleared = pre.cleared
        /\ q.relabelled = pre.relabelled
    BY <2>1 DEF PreType
  <2>7. q = [time |-> q.time, deployed |-> q.deployed, thumbprint |-> q.thumbprint,
             opened |-> q.opened, stored |-> q.stored, noop |-> q.noop, items |-> q.items,
             promise |-> q.promise, orphans |-> q.orphans, overlap |-> q.overlap,
             relabelled |-> q.relabelled, cleared |-> q.cleared]
    BY <2>1 DEF PreType
  <2>4. pre' = Initialized(q)
    BY <1>2, <2>1 DEF OpenPage
  <2> HIDE DEF p
  <2>5. PreType(q)
    <3>1. /\ pre.time \in Nat /\ pre.deployed \in Nat \ {0} /\ pre.stored \in SUBSET Entries
          /\ pre.items \in SUBSET Parsed /\ pre.overlap \in BOOLEAN
          /\ pre.cleared \in BOOLEAN /\ pre.relabelled \in BOOLEAN
      BY DEF PreType
    <3>2. /\ q.time \in Nat /\ q.deployed \in Nat \ {0} /\ q.stored \in SUBSET Entries
          /\ q.items \in SUBSET Parsed /\ q.overlap \in BOOLEAN /\ q.cleared \in BOOLEAN
          /\ q.relabelled \in BOOLEAN
      BY <2>3, <3>1
    <3>3. /\ q.thumbprint \in Nat \ {0} /\ q.opened \in Nat /\ q.opened <= q.time
          /\ q.orphans \in Nat
      BY <2>3, <3>1
    <3>4. q.noop \in BOOLEAN /\ q.promise \in {"none", "pending", "resolved", "rejected"}
      BY <2>3
    <3> QED
      BY <2>7, <3>2, <3>3, <3>4 DEF PreType
  <2>6. StoredSound(q)
    BY <2>3 DEF StoredSound
  <2> QED
    BY <2>4, <2>5, <2>6, InitializedSound
<1>3. CASE ForceInitialize
  BY <1>3, InitializedSound DEF ForceInitialize
<1>4. ASSUME NEW latest \in BOOLEAN, NEW write \in Writes, PrefetchAnswers(latest, write)
      PROVE  PreSound(pre')
  BY <1>4, PrefetchAnswersSound
<1>5. ASSUME NEW latest \in BOOLEAN, PrefetchFails(latest) PROVE PreSound(pre')
  <2>1. pre.overlap \/ latest
    BY <1>5 DEF PrefetchFails, UnderWay, OneRequest, PreType
  <2>2. /\ pre' = [pre EXCEPT !.orphans = IF latest THEN @ ELSE @ - 1,
                              !.promise = IF latest THEN "rejected" ELSE @]
        /\ IF latest THEN pre.promise = "pending" ELSE pre.orphans > 0
    BY <1>5 DEF PrefetchFails, UnderWay
  <2>3. PreType(pre')
    <3>1. /\ (IF latest THEN pre.orphans ELSE pre.orphans - 1) \in Nat
          /\ (IF latest THEN "rejected" ELSE pre.promise)
               \in {"none", "pending", "resolved", "rejected"}
      BY <2>2 DEF PreType
    <3> QED
      BY <2>2, <3>1 DEF PreType
  <2> QED
    BY <2>1, <2>2, <2>3
       DEF PreType, StoredSound, OneRequest, ItemsCurrent, Complete
<1>6. CASE AddData
  <2>1. pre' = [pre EXCEPT !.items = @ \cup {Added}] /\ Added \in Parsed /\ ~IsFetched(Added)
    BY <1>6 DEF AddData, Added, Parsed, IsFetched
  <2>2. PreType(pre')
    BY <2>1 DEF PreType
  <2> QED
    BY <2>1, <2>2 DEF PreType, StoredSound, OneRequest, ItemsCurrent, Complete
<1>7. CASE ClearIndex
  BY <1>7 DEF ClearIndex, PreType, StoredSound, OneRequest, ItemsCurrent, Complete
<1>8. CASE ClearPrefetchCache
  BY <1>8 DEF ClearPrefetchCache, PreType, StoredSound, OneRequest, ItemsCurrent, Complete
<1>9. CASE Tick
  BY <1>9 DEF Tick, PreType, StoredSound, OneRequest, ItemsCurrent, Complete
<1>10. CASE Deploy
  BY <1>10 DEF Deploy, PreType, StoredSound, OneRequest, ItemsCurrent, Complete
<1>11. CASE (part = "box" /\ TypeaheadNext /\ UNCHANGED engineVars) \/ UNCHANGED vars
  BY <1>1, <1>11 DEF vars, engineVars
<1>12. CASE EngineNext
  <2>1. CASE (\E id \in DOMAIN Datums : AddToIndex(id)) \/ ResetIndex \/ RemoteNext
    BY <1>1, <2>1 DEF AddToIndex, ResetIndex, RemoteNext, RemoteSearch, Respond,
                      LimiterFires, LimitOver, ResetCache
  <2>2. CASE PrefetchNext
    BY <1>2, <1>3, <1>4, <1>5, <1>6, <1>7, <1>8, <1>9, <1>10, <2>2 DEF PrefetchNext
  <2> QED
    BY <1>12, <2>1, <2>2 DEF EngineNext
<1> QED
  BY <1>11, <1>12 DEF Next

\* The prefetched data are sound, always.
LEMMA PreInvariant == Spec => []PreSound(pre)
<1>1. Init => PreSound(pre)
  <2> SUFFICES ASSUME PreInit PROVE PreSound(pre)
    BY DEF Init, EngineInit
  <2>1. PreType(pre)
    BY DEF PreInit, PreType
  <2> QED
    BY <2>1 DEF PreInit, PreSound, StoredSound, OneRequest, ItemsCurrent, Complete
<1>2. PreSound(pre) /\ [Next]_vars => PreSound(pre)'
  BY PreStep
<1> QED
  BY <1>1, <1>2, PTL DEF Spec

\* Whatever is deployed, stored, expired, forced or refused, what was prefetched
\* is of the deployment the page is of and of its time, but for overlapping
\* requests and a storage that kept old data under a new thumbprint; and a ready
\* engine has it.
THEOREM PrefetchIsSound == Spec => []PrefetchSound
<1>1. PreSound(pre) => PrefetchSound
  BY DEF PreSound, ItemsCurrent, Complete, PrefetchSound, PrefetchedIsCurrent, ReadyIsComplete
<1> QED
  BY <1>1, PreInvariant, PTL

-----------------------------------------------------------------------------
(* The pool of remote requests.                                            *)

Fields == {"limiter", "timer", "cooling", "cancelled", "lastReq", "onDeck",
           "pendingRequestsCount", "pending", "asks", "last", "crowded"}

Counted(r) ==
  /\ DOMAIN r = Fields
  /\ IsFiniteSet(DOMAIN r.pending)
  /\ r.pendingRequestsCount = Cardinality(DOMAIN r.pending)
  /\ r.pendingRequestsCount <= maxPendingRequests

HasWaker(r) == r.onDeck # {} => DOMAIN r.pending # {}

\* Of a change to other fields.
LEMMA OtherFields ==
  ASSUME NEW r, NEW q, Counted(r), DOMAIN q = Fields, q.pending = r.pending,
         q.pendingRequestsCount = r.pendingRequestsCount
  PROVE  Counted(q) /\ (q.onDeck = r.onDeck => (HasWaker(r) => HasWaker(q)))
BY DEF Counted, HasWaker

\* A key joins the requests under way, starts one, or waits on deck behind one.
LEMMA GetCounted ==
  ASSUME NEW r, Counted(r), NEW k
  PROVE  Counted(Get(r, k)) /\ (HasWaker(r) => HasWaker(Get(r, k)))
<1> DEFINE q == Get(r, k)
<1>0. maxPendingRequests \in Nat \ {0} /\ Cardinality(DOMAIN r.pending) \in Nat
  BY BloodhoundAssumption, FS_CardinalityType DEF Counted
<1>1. CASE q = r
  BY <1>1
<1>2. CASE q = [r EXCEPT !.pending[k] = @ + 1, !.last = "sent"]
  <2>1. /\ DOMAIN q = Fields /\ DOMAIN q.pending = DOMAIN r.pending
        /\ q.pendingRequestsCount = r.pendingRequestsCount /\ q.onDeck = r.onDeck
    BY <1>2 DEF Counted, Fields
  <2> QED
    BY <2>1 DEF Counted, HasWaker
<1>3. CASE /\ k \notin DOMAIN r.pending /\ r.pendingRequestsCount < maxPendingRequests
           /\ q = [r EXCEPT !.pending = With(@, k, 1), !.pendingRequestsCount = @ + 1,
                            !.last = "sent"]
  <2>1. /\ DOMAIN q = Fields /\ DOMAIN q.pending = DOMAIN r.pending \cup {k}
        /\ q.pendingRequestsCount = r.pendingRequestsCount + 1
    BY <1>3 DEF Counted, Fields, With
  <2>2. /\ IsFiniteSet(DOMAIN r.pending \cup {k})
        /\ Cardinality(DOMAIN r.pending \cup {k}) = Cardinality(DOMAIN r.pending) + 1
    BY <1>3, FS_AddElement DEF Counted
  <2>3. /\ r.pendingRequestsCount = Cardinality(DOMAIN r.pending)
        /\ r.pendingRequestsCount < maxPendingRequests
    BY <1>3 DEF Counted
  <2> HIDE DEF q
  <2>4. /\ q.pendingRequestsCount = Cardinality(DOMAIN q.pending)
        /\ q.pendingRequestsCount <= maxPendingRequests
    BY <1>0, <2>1, <2>2, <2>3
  <2>5. IsFiniteSet(DOMAIN q.pending) /\ DOMAIN q.pending # {}
    BY <2>1, <2>2
  <2>6. Counted(q) /\ HasWaker(q)
    BY <2>1, <2>4, <2>5 DEF Counted, HasWaker
  <2> QED
    BY <2>6 DEF q
<1>4. CASE /\ r.pendingRequestsCount >= maxPendingRequests
           /\ q = [r EXCEPT !.onDeck = {k}, !.last = "on deck", !.crowded = TRUE]
  <2>1. DOMAIN r.pending # {}
    BY <1>0, <1>4, FS_EmptySet DEF Counted
  <2>2. /\ DOMAIN q = Fields /\ q.pending = r.pending
        /\ q.pendingRequestsCount = r.pendingRequestsCount
    BY <1>4 DEF Counted, Fields
  <2> QED
    BY <2>1, <2>2 DEF Counted, HasWaker
<1>5. r.pendingRequestsCount < maxPendingRequests \/ r.pendingRequestsCount >= maxPendingRequests
  BY <1>0 DEF Counted
<1> QED
  BY <1>1, <1>2, <1>3, <1>4, <1>5 DEF Get

\* A request that is sent, put on deck or refused is counted (_get).
LEMMA LimitedGetCounted ==
  ASSUME NEW r, Counted(r), NEW k
  PROVE  Counted(LimitedGet(r, k)) /\ (HasWaker(r) => HasWaker(LimitedGet(r, k)))
<1>1. PICK q : q = [r EXCEPT !.timer = {}, !.cooling = TRUE]
  OBVIOUS
<1>2. PICK t : t = [r EXCEPT !.timer = {k}]
  OBVIOUS
<1>3. /\ DOMAIN q = Fields /\ q.pending = r.pending /\ q.onDeck = r.onDeck
      /\ q.pendingRequestsCount = r.pendingRequestsCount
      /\ DOMAIN t = Fields /\ t.pending = r.pending /\ t.onDeck = r.onDeck
      /\ t.pendingRequestsCount = r.pendingRequestsCount
  BY <1>1, <1>2 DEF Counted, Fields
<1>4. /\ Counted(q) /\ (HasWaker(r) => HasWaker(q))
      /\ Counted(t) /\ (HasWaker(r) => HasWaker(t))
  BY <1>3, OtherFields
<1>5. Counted(Get(q, k)) /\ (HasWaker(q) => HasWaker(Get(q, k)))
  BY <1>4, GetCounted
<1>6. LimitedGet(r, k) = Get(q, k) \/ LimitedGet(r, k) = t
  BY <1>1, <1>2 DEF LimitedGet
<1> QED
  BY <1>4, <1>5, <1>6

\* A request ends, and the one on deck goes through the limiter.
LEMMA FinishedCounted ==
  ASSUME NEW r, Counted(r), HasWaker(r), NEW k \in DOMAIN r.pending
  PROVE  Counted(Finished(r, k)) /\ HasWaker(Finished(r, k))
<1>0. Cardinality(DOMAIN r.pending) \in Nat /\ maxPendingRequests \in Nat
  BY BloodhoundAssumption, FS_CardinalityType DEF Counted
<1>1. PICK q : q = [r EXCEPT !.pendingRequestsCount = @ - 1, !.pending = Without(@, k)]
  OBVIOUS
<1>2. /\ DOMAIN q = Fields /\ DOMAIN q.pending = DOMAIN r.pending \ {k}
      /\ q.pendingRequestsCount = r.pendingRequestsCount - 1 /\ q.onDeck = r.onDeck
  BY <1>1 DEF Counted, Fields, Without
<1>3. /\ IsFiniteSet(DOMAIN r.pending \ {k})
      /\ Cardinality(DOMAIN r.pending \ {k}) = Cardinality(DOMAIN r.pending) - 1
  BY FS_RemoveElement DEF Counted
<1>4. Counted(q)
  BY <1>0, <1>2, <1>3 DEF Counted
<1>5. CASE r.onDeck = {}
  <2>1. Finished(r, k) = q
    BY <1>1, <1>5 DEF Finished
  <2> QED
    BY <1>2, <1>4, <1>5, <2>1 DEF HasWaker
<1>6. CASE r.onDeck # {}
  <2>1. PICK w : w = LimitedGet(q, CHOOSE x \in r.onDeck : TRUE)
    OBVIOUS
  <2>2. Counted(w)
    BY <1>4, <2>1, LimitedGetCounted
  <2>3. Finished(r, k) = [w EXCEPT !.onDeck = {}]
    BY <1>1, <1>6, <2>1 DEF Finished
  <2>4. /\ DOMAIN Finished(r, k) = Fields /\ Finished(r, k).pending = w.pending
        /\ Finished(r, k).pendingRequestsCount = w.pendingRequestsCount
        /\ Finished(r, k).onDeck = {}
    BY <2>2, <2>3 DEF Counted, Fields
  <2>5. Counted(Finished(r, k))
    BY <2>2, <2>4, OtherFields
  <2> QED
    BY <2>4, <2>5 DEF HasWaker
<1> QED
  BY <1>5, <1>6

PoolInv == Counted(remote) /\ HasWaker(remote)

\* Every step keeps the count.
LEMMA PoolStep == ASSUME PoolInv, [Next]_vars PROVE PoolInv'
<1> USE DEF PoolInv
<1>1. CASE UNCHANGED remote
  BY <1>1 DEF Counted, HasWaker
<1>2. ASSUME NEW k \in Keys, RemoteSearch(k) PROVE PoolInv'
  <2>1. PICK r : r = [remote EXCEPT !.asks = @ + 1, !.lastReq = {k}, !.cancelled = FALSE]
    OBVIOUS
  <2>2. PICK l : l = [r EXCEPT !.last = "limited"]
    OBVIOUS
  <2>3. PICK a : a = [r EXCEPT !.last = "answered"]
    OBVIOUS
  <2>4. PICK c : c = [remote EXCEPT !.asks = @ + 1, !.cancelled = TRUE, !.last = "none"]
    OBVIOUS
  <2>5. \A q \in {r, l, a, c} :
          /\ DOMAIN q = Fields /\ q.pending = remote.pending /\ q.onDeck = remote.onDeck
          /\ q.pendingRequestsCount = remote.pendingRequestsCount
    BY <2>1, <2>2, <2>3, <2>4 DEF Counted, Fields
  <2>6. \A q \in {r, l, a, c} : Counted(q) /\ HasWaker(q)
    BY <2>5, OtherFields
  <2>7. Counted(LimitedGet(l, k)) /\ HasWaker(LimitedGet(l, k))
    BY <2>6, LimitedGetCounted
  <2>8. remote' = c \/ remote' = a \/ remote' = LimitedGet(l, k)
    BY <1>2, <2>1, <2>2, <2>3, <2>4 DEF RemoteSearch
  <2> QED
    BY <2>6, <2>7, <2>8
<1>3. CASE LimiterFires
  <2>1. PICK r : r = [remote EXCEPT !.timer = {},
                                    !.cooling = (@ \/ remote.limiter = "throttle")]
    OBVIOUS
  <2>2. /\ DOMAIN r = Fields /\ r.pending = remote.pending /\ r.onDeck = remote.onDeck
        /\ r.pendingRequestsCount = remote.pendingRequestsCount
    BY <2>1 DEF Counted, Fields
  <2>3. Counted(r) /\ HasWaker(r)
    BY <2>2, OtherFields
  <2>4. \E k : remote' = Get(r, k)
    BY <1>3, <2>1 DEF LimiterFires
  <2> QED
    BY <2>3, <2>4, GetCounted
<1>4. CASE LimitOver
  <2>1. /\ DOMAIN remote' = Fields /\ remote'.pending = remote.pending
        /\ remote'.onDeck = remote.onDeck
        /\ remote'.pendingRequestsCount = remote.pendingRequestsCount
    BY <1>4 DEF LimitOver, Counted, Fields
  <2> QED
    BY <2>1, OtherFields
<1>5. ASSUME NEW k \in Keys, NEW ok \in BOOLEAN, Respond(k, ok) PROVE PoolInv'
  <2>1. PICK r : r = IF remote.last = "sent" /\ remote.lastReq = {k}
                     THEN [remote EXCEPT !.last = "answered"] ELSE remote
    OBVIOUS
  <2>2. /\ DOMAIN r = Fields /\ r.pending = remote.pending /\ r.onDeck = remote.onDeck
        /\ r.pendingRequestsCount = remote.pendingRequestsCount
    BY <2>1 DEF Counted, Fields
  <2>3. Counted(r) /\ HasWaker(r)
    BY <2>2, OtherFields
  <2>4. remote' = Finished(r, k) /\ k \in DOMAIN r.pending
    BY <1>5, <2>1, <2>2 DEF Respond
  <2> QED
    BY <2>3, <2>4, FinishedCounted
<1>6. CASE ResetCache \/ PrefetchNext \/ ResetIndex \/ (\E id \in DOMAIN Datums : AddToIndex(id))
  BY <1>1, <1>6
     DEF ResetCache, AddToIndex, ResetIndex, PrefetchNext, OpenPage, ForceInitialize,
         AddData, ClearIndex, ClearPrefetchCache, Tick, Deploy, PrefetchAnswers,
         PrefetchFails, PreVars
<1>7. CASE (part = "box" /\ TypeaheadNext /\ UNCHANGED engineVars) \/ UNCHANGED vars
  BY <1>1, <1>7 DEF vars, engineVars
<1> QED
  BY <1>2, <1>3, <1>4, <1>5, <1>6, <1>7 DEF Next, EngineNext, RemoteNext

-----------------------------------------------------------------------------
(* The LRU cache.  s is its list, a sequence of n nodes; what every call    *)
(* keeps is that the links, the hash and the keys agree on it, until a head *)
(* that was moved to the front is moved there again.                        *)

LruFields == {"size", "hash", "head", "tail", "key", "prev", "next", "rehit", "threw"}

NodesOf(s, n) == {s[i] : i \in 1..n}

\* The n nodes of s are the list of cache l, from its head on.
Chain(l, s, n) ==
  /\ n \in Nat /\ s \in [1..n -> Nat \ {0}]
  /\ \A i, j \in 1..n : s[i] = s[j] => i = j
  /\ \A i \in 1..n : s[i] \in DOMAIN l.next /\ s[i] \in DOMAIN l.prev
  /\ n = 0 => l.head = Null /\ l.tail = Null
  /\ n > 0 => l.head = s[1] /\ l.tail = s[n] /\ l.next[s[n]] = Null
  /\ \A i \in 1..n - 1 : l.next[s[i]] = s[i + 1] /\ l.prev[s[i + 1]] = s[i]

\* t is s with x in front.
InFront(x, s, n, t) ==
  t \in [1..n + 1 -> Nat \ {0}] /\ t[1] = x /\ \A i \in 1..n : t[i + 1] = s[i]

\* What add writes,
LEMMA ListAddFields ==
  ASSUME NEW l, NEW x, DOMAIN l = LruFields
  PROVE  /\ ListAdd(l, x).head = x
         /\ ListAdd(l, x).tail = (IF l.tail = Null THEN x ELSE l.tail)
         /\ ListAdd(l, x).next = (IF l.head = Null THEN l.next
                                 ELSE [l.next EXCEPT ![x] = l.head])
         /\ ListAdd(l, x).prev = (IF l.head = Null THEN l.prev
                                 ELSE [l.prev EXCEPT ![l.head] = x])
<1>1. CASE l.head = Null
  BY <1>1 DEF ListAdd, LruFields
<1>2. CASE l.head # Null
  BY <1>2 DEF ListAdd, LruFields
<1> QED
  BY <1>1, <1>2

\* and what it does not,
LEMMA ListAddKeeps ==
  ASSUME NEW l, NEW x, DOMAIN l = LruFields, NEW m, m = ListAdd(l, x)
  PROVE  /\ DOMAIN m = LruFields /\ m.hash = l.hash /\ m.size = l.size /\ m.key = l.key
         /\ m.threw = l.threw /\ m.rehit = l.rehit
<1>1. CASE l.head = Null
  BY <1>1 DEF ListAdd, LruFields
<1>2. CASE l.head # Null
  BY <1>2 DEF ListAdd, LruFields
<1> QED
  BY <1>1, <1>2

\* and what remove writes.
LEMMA ListRemoveFields ==
  ASSUME NEW l, NEW x, DOMAIN l = LruFields
  PROVE  LET m == ListRemove(l, x)
             next == IF l.prev[x] # Null THEN [l.next EXCEPT ![l.prev[x]] = l.next[x]]
                     ELSE l.next
         IN /\ DOMAIN m = LruFields
            /\ m.size = l.size /\ m.hash = l.hash /\ m.key = l.key
            /\ m.rehit = l.rehit /\ m.threw = l.threw /\ m.next = next
            /\ m.head = (IF l.prev[x] # Null THEN l.head ELSE l.next[x])
            /\ m.tail = (IF next[x] # Null THEN l.tail ELSE l.prev[x])
            /\ m.prev = (IF next[x] # Null THEN [l.prev EXCEPT ![next[x]] = l.prev[x]]
                         ELSE l.prev)
<1>1. CASE l.prev[x] # Null
  BY <1>1 DEF ListRemove, LruFields
<1>2. CASE l.prev[x] = Null
  BY <1>2 DEF ListRemove, LruFields
<1> QED
  BY <1>1, <1>2

\* A node in front of the list.
LEMMA ListAddChain ==
  ASSUME NEW l, DOMAIN l = LruFields, NEW s, NEW n, Chain(l, s, n),
         NEW x \in Nat \ {0}, x \notin NodesOf(s, n), x \in DOMAIN l.next,
         x \in DOMAIN l.prev, n = 0 => l.next[x] = Null,
         NEW m, m = ListAdd(l, x),
         NEW t, InFront(x, s, n, t)
  PROVE  /\ Chain(m, t, n + 1)
         /\ m.prev[x] = l.prev[x]
         /\ NodesOf(t, n + 1) = NodesOf(s, n) \cup {x}
         /\ DOMAIN m.next = DOMAIN l.next /\ DOMAIN m.prev = DOMAIN l.prev
<1>n. n \in Nat /\ s \in [1..n -> Nat \ {0}]
  BY DEF Chain
<1>7. t \in [1..n + 1 -> Nat \ {0}] /\ t[1] = x /\ \A i \in 1..n : t[i + 1] = s[i]
  BY DEF InFront
<1>3. /\ t[1] = x /\ \A i \in 1..n : t[i + 1] = s[i]
      /\ \A i \in 1..n + 1 : i = 1 \/ \E j \in 1..n : i = j + 1
  <2>1. 1 \in 1..n + 1 /\ \A i \in 1..n : i + 1 \in 1..n + 1 /\ i + 1 # 1 /\ (i + 1) - 1 = i
    BY <1>n
  <2>2. \A i \in 1..n + 1 : i = 1 \/ (i - 1 \in 1..n /\ i = (i - 1) + 1)
    BY <1>n
  <2> QED
    BY <1>7, <2>1, <2>2
<1>4. /\ m.head = x
      /\ m.tail = (IF l.tail = Null THEN x ELSE l.tail)
      /\ m.next = (IF l.head = Null THEN l.next ELSE [l.next EXCEPT ![x] = l.head])
      /\ m.prev = (IF l.head = Null THEN l.prev ELSE [l.prev EXCEPT ![l.head] = x])
  BY ListAddFields
<1>5. \A i \in 1..n : s[i] # x /\ s[i] # 0 /\ s[i] \in Nat
  BY <1>n DEF NodesOf
<1>6. NodesOf(t, n + 1) = NodesOf(s, n) \cup {x}
  <2>1. \A i \in 1..n : i + 1 \in 1..n + 1
    BY <1>n
  <2>2. 1 \in 1..n + 1
    BY <1>n
  <2> QED
    BY <1>3, <2>1, <2>2 DEF NodesOf
<1>8. \A i, j \in 1..n + 1 : t[i] = t[j] => i = j
  <2> TAKE i, j \in 1..n + 1
  <2> HAVE t[i] = t[j]
  <2>1. CASE i = 1 /\ j = 1
    BY <2>1
  <2>2. ASSUME i = 1, NEW b \in 1..n, j = b + 1 PROVE FALSE
    <3>1. t[i] = x /\ t[j] = s[b]
      BY <1>3, <2>2
    <3> QED
      BY <1>5, <3>1
  <2>3. ASSUME j = 1, NEW b \in 1..n, i = b + 1 PROVE FALSE
    <3>1. t[j] = x /\ t[i] = s[b]
      BY <1>3, <2>3
    <3> QED
      BY <1>5, <3>1
  <2>4. ASSUME NEW a \in 1..n, i = a + 1, NEW b \in 1..n, j = b + 1 PROVE i = j
    <3>1. t[i] = s[a] /\ t[j] = s[b]
      BY <1>3, <2>4
    <3>2. \A c, d \in 1..n : s[c] = s[d] => c = d
      BY DEF Chain
    <3> QED
      BY <2>4, <3>1, <3>2
  <2> QED
    BY <1>3, <2>1, <2>2, <2>3, <2>4
<1>d. DOMAIN m.next = DOMAIN l.next /\ DOMAIN m.prev = DOMAIN l.prev
  BY <1>4
<1>9. \A i \in 1..n + 1 : t[i] \in DOMAIN m.next /\ t[i] \in DOMAIN m.prev
  <2>1. \A i \in 1..n : s[i] \in DOMAIN l.next /\ s[i] \in DOMAIN l.prev
    BY DEF Chain
  <2> TAKE i \in 1..n + 1
  <2>2. t[i] = x \/ \E j \in 1..n : t[i] = s[j]
    BY <1>3
  <2> QED
    BY <1>d, <2>1, <2>2
<1>10. CASE n = 0
  <2>1. l.head = Null /\ l.tail = Null /\ m.next = l.next /\ m.prev = l.prev
    BY <1>10, <1>4 DEF Chain
  <2>2. m.head = t[1] /\ m.tail = t[n + 1] /\ m.next[t[n + 1]] = Null
    BY <1>3, <1>4, <1>10, <2>1
  <2>3. (1..(n + 1) - 1) = {} /\ n + 1 \in Nat /\ n + 1 # 0
    BY <1>10
  <2>4. Chain(m, t, n + 1)
    BY <1>7, <1>8, <1>9, <2>2, <2>3 DEF Chain
  <2> QED
    BY <1>6, <1>d, <2>1, <2>4
<1>11. CASE n > 0
  <2>1. /\ l.head = s[1] /\ l.tail = s[n] /\ 1 \in 1..n /\ n \in 1..n
        /\ l.head # Null /\ l.tail # Null
    BY <1>5, <1>11, <1>n DEF Chain, Null
  <2>2. /\ m.next = [l.next EXCEPT ![x] = s[1]] /\ m.prev = [l.prev EXCEPT ![s[1]] = x]
        /\ m.tail = s[n]
    BY <1>4, <2>1
  <2>3. m.head = t[1] /\ m.tail = t[n + 1]
    BY <1>3, <1>4, <2>1, <2>2
  <2>4. m.next[t[n + 1]] = Null
    BY <1>3, <1>5, <1>11, <2>1, <2>2 DEF Chain
  <2>5. \A i \in 1..(n + 1) - 1 : m.next[t[i]] = t[i + 1] /\ m.prev[t[i + 1]] = t[i]
    <3> TAKE i \in 1..(n + 1) - 1
    <3>0. i \in 1..n
      BY <1>n
    <3>1. CASE i = 1
      BY <1>3, <2>1, <2>2, <3>0, <3>1 DEF Chain
    <3>2. CASE i # 1
      <4>1. PICK j : j \in 1..n - 1 /\ i = j + 1 /\ j \in 1..n /\ i \in 1..n
        <5>1. i - 1 \in 1..n - 1 /\ i = (i - 1) + 1 /\ i - 1 \in 1..n
          BY <1>n, <3>0, <3>2
        <5> QED
          BY <3>0, <5>1
      <4>2. t[i] = s[j] /\ t[i + 1] = s[i] /\ l.next[s[j]] = s[i] /\ l.prev[s[i]] = s[j]
        BY <1>3, <4>1 DEF Chain
      <4>3. s[j] # x /\ s[i] # s[1]
        BY <1>5, <2>1, <3>2, <4>1 DEF Chain
      <4> QED
        BY <2>2, <4>1, <4>2, <4>3 DEF Chain
    <3> QED
      BY <3>1, <3>2
  <2>6. n + 1 \in Nat /\ n + 1 # 0 /\ n + 1 > 0
    BY <1>n
  <2>7. Chain(m, t, n + 1)
    BY <1>7, <1>8, <1>9, <2>3, <2>4, <2>5, <2>6 DEF Chain
  <2>8. m.prev[x] = l.prev[x]
    BY <1>5, <2>1, <2>2
  <2> QED
    BY <1>6, <1>d, <2>7, <2>8
<1> QED
  BY <1>n, <1>10, <1>11

\* A node leaves the list; a head that leaves leads nowhere backwards.
LEMMA ListRemoveChain ==
  ASSUME NEW l, DOMAIN l = LruFields, NEW s, NEW n, Chain(l, s, n),
         NEW j \in 1..n, j = 1 => l.prev[s[1]] = Null
  PROVE  LET m == ListRemove(l, s[j])
             t == [i \in 1..n - 1 |-> IF i < j THEN s[i] ELSE s[i + 1]]
         IN /\ Chain(m, t, n - 1)
            /\ s[j] \notin NodesOf(t, n - 1)
            /\ NodesOf(t, n - 1) = NodesOf(s, n) \ {s[j]}
            /\ DOMAIN m.next = DOMAIN l.next /\ DOMAIN m.prev = DOMAIN l.prev
            /\ m.next[s[j]] = l.next[s[j]]
            /\ m.prev[s[j]] = l.prev[s[j]]
            /\ n > 1 => m.prev[m.head] = (IF j = 1 THEN Null ELSE l.prev[s[1]])
<1>1. PICK m : m = ListRemove(l, s[j])
  OBVIOUS
<1>2. PICK t : t = [i \in 1..n - 1 |-> IF i < j THEN s[i] ELSE s[i + 1]]
  OBVIOUS
<1>n. n \in Nat /\ s \in [1..n -> Nat \ {0}] /\ n > 0 /\ 1 \in 1..n /\ n \in 1..n
  BY DEF Chain
<1>c. /\ \A c, d \in 1..n : s[c] = s[d] => c = d
      /\ \A i \in 1..n : s[i] \in DOMAIN l.next /\ s[i] \in DOMAIN l.prev
      /\ l.head = s[1] /\ l.tail = s[n] /\ l.next[s[n]] = Null
      /\ \A i \in 1..n - 1 : l.next[s[i]] = s[i + 1] /\ l.prev[s[i + 1]] = s[i]
  BY <1>n DEF Chain
<1>0. \A i \in 1..n : s[i] # Null /\ s[i] \in Nat \ {0}
  BY <1>n DEF Null
<1>3. /\ \A i \in 1..n - 1 : i < j => t[i] = s[i] /\ i \in 1..n
      /\ \A i \in 1..n - 1 : i >= j => t[i] = s[i + 1] /\ i + 1 \in 1..n
  BY <1>2, <1>n
<1>4. PICK next : next = IF j = 1 THEN l.next ELSE [l.next EXCEPT ![s[j - 1]] = l.next[s[j]]]
  OBVIOUS
<1>5. j # 1 => j - 1 \in 1..n - 1 /\ j - 1 \in 1..n /\ (j - 1) + 1 = j
  BY <1>n
<1>6. l.prev[s[j]] = (IF j = 1 THEN Null ELSE s[j - 1])
  BY <1>5, <1>c
<1>7. next = IF l.prev[s[j]] # Null THEN [l.next EXCEPT ![l.prev[s[j]]] = l.next[s[j]]]
             ELSE l.next
  BY <1>0, <1>4, <1>5, <1>6
<1>8. /\ m.next = next
      /\ m.head = (IF l.prev[s[j]] # Null THEN l.head ELSE l.next[s[j]])
      /\ m.tail = (IF next[s[j]] # Null THEN l.tail ELSE l.prev[s[j]])
      /\ m.prev = (IF next[s[j]] # Null THEN [l.prev EXCEPT ![next[s[j]]] = l.prev[s[j]]]
                   ELSE l.prev)
  BY <1>1, <1>7, ListRemoveFields
<1>9. DOMAIN m.next = DOMAIN l.next /\ DOMAIN m.prev = DOMAIN l.prev
  BY <1>8, <1>4
<1>10. next[s[j]] = l.next[s[j]]
  BY <1>4, <1>5, <1>c
<1>11. l.next[s[j]] = (IF j = n THEN Null ELSE s[j + 1])
  <2>1. j # n => j \in 1..n - 1
    BY <1>n
  <2> QED
    BY <2>1, <1>c
<1>12. j # n => j + 1 \in 1..n /\ s[j + 1] # Null
  BY <1>n, <1>0
<1>13. /\ m.next = (IF j = 1 THEN l.next
                   ELSE [l.next EXCEPT ![s[j - 1]] = IF j = n THEN Null ELSE s[j + 1]])
       /\ m.head = (IF j # 1 THEN s[1] ELSE IF j = n THEN Null ELSE s[j + 1])
       /\ m.tail = (IF j # n THEN s[n] ELSE IF j = 1 THEN Null ELSE s[j - 1])
       /\ m.prev = (IF j # n THEN [l.prev EXCEPT ![s[j + 1]] = l.prev[s[j]]] ELSE l.prev)
  BY <1>0, <1>4, <1>5, <1>6, <1>8, <1>10, <1>11, <1>12, <1>c
<1>14. t \in [1..n - 1 -> Nat \ {0}] /\ n - 1 \in Nat
  <2>1. \A i \in 1..n - 1 : t[i] \in Nat \ {0}
    BY <1>0, <1>3
  <2> QED
    BY <1>2, <1>n, <2>1
<1>15. \A a, b \in 1..n - 1 : t[a] = t[b] => a = b
  <2> TAKE a, b \in 1..n - 1
  <2> HAVE t[a] = t[b]
  <2>1. CASE a < j /\ b < j
    BY <1>3, <1>c, <2>1
  <2>2. CASE a >= j /\ b >= j
    <3>1. a + 1 = b + 1
      BY <1>3, <1>c, <2>2
    <3> QED
      BY <3>1, <1>n
  <2>3. ASSUME a < j, b >= j PROVE FALSE
    <3>1. a = b + 1
      BY <1>3, <1>c, <2>3
    <3> QED
      BY <3>1, <2>3, <1>n
  <2>4. ASSUME b < j, a >= j PROVE FALSE
    <3>1. b = a + 1
      BY <1>3, <1>c, <2>4
    <3> QED
      BY <3>1, <2>4, <1>n
  <2> QED
    BY <2>1, <2>2, <2>3, <2>4, <1>n
<1>16. \A i \in 1..n - 1 : t[i] \in DOMAIN m.next /\ t[i] \in DOMAIN m.prev
  <2> TAKE i \in 1..n - 1
  <2>1. PICK b \in 1..n : t[i] = s[b]
    BY <1>3
  <2> QED
    BY <1>9, <1>c, <2>1
<1>17. s[j] \notin NodesOf(t, n - 1) /\ NodesOf(t, n - 1) = NodesOf(s, n) \ {s[j]}
  <2>1. ASSUME NEW i \in 1..n - 1 PROVE t[i] # s[j] /\ \E b \in 1..n : t[i] = s[b]
    <3>1. PICK b \in 1..n : t[i] = s[b] /\ b # j
      <4>1. i < j \/ (i >= j /\ i + 1 # j)
        BY <1>n
      <4> QED
        BY <1>3, <4>1
    <3> QED
      BY <1>c, <3>1
  <2>2. ASSUME NEW b \in 1..n, b # j PROVE \E i \in 1..n - 1 : t[i] = s[b]
    <3>1. CASE b < j
      <4>1. b \in 1..n - 1
        BY <1>n, <3>1
      <4> QED
        BY <1>3, <3>1, <4>1
    <3>2. CASE b > j
      <4>1. b - 1 \in 1..n - 1 /\ b - 1 >= j /\ (b - 1) + 1 = b
        BY <1>n, <3>2
      <4>2. t[b - 1] = s[(b - 1) + 1]
        BY <1>3, <4>1
      <4> QED
        BY <4>1, <4>2
    <3> QED
      BY <2>2, <3>1, <3>2, <1>n
  <2> QED
    BY <2>1, <2>2 DEF NodesOf
<1>18. m.next[s[j]] = l.next[s[j]] /\ m.prev[s[j]] = l.prev[s[j]]
  <2>1. m.next[s[j]] = l.next[s[j]]
    BY <1>8, <1>10
  <2>2. j # n => s[j + 1] # s[j]
    BY <1>12, <1>c, <1>n
  <2> QED
    BY <1>13, <2>1, <2>2, <1>c
<1>19. n > 1 => m.prev[m.head] = (IF j = 1 THEN Null ELSE l.prev[s[1]])
  <2> HAVE n > 1
  <2>1. CASE j = 1
    <3>1. j # n /\ j + 1 \in 1..n
      BY <1>n, <2>1
    <3>2. m.head = s[j + 1] /\ m.prev = [l.prev EXCEPT ![s[j + 1]] = Null]
      BY <1>13, <2>1, <3>1
    <3>3. s[j + 1] \in DOMAIN l.prev
      BY <1>c, <3>1
    <3> QED
      BY <2>1, <3>2, <3>3
  <2>2. CASE j # 1
    <3>1. m.head = s[1] /\ s[1] \in DOMAIN l.prev
      BY <1>13, <1>c, <1>n, <2>2
    <3>2. j # n => s[j + 1] # s[1]
      BY <1>12, <1>c, <1>n
    <3> QED
      BY <1>13, <2>2, <3>1, <3>2
  <2> QED
    BY <2>1, <2>2
<1>20. n - 1 = 0 => m.head = Null /\ m.tail = Null
  <2> HAVE n - 1 = 0
  <2>1. j = 1 /\ j = n
    BY <1>n
  <2> QED
    BY <1>13, <2>1
<1>21. n - 1 > 0 => m.head = t[1] /\ m.tail = t[n - 1] /\ m.next[t[n - 1]] = Null
  <2> HAVE n - 1 > 0
  <2>1. 1 \in 1..n - 1 /\ n - 1 \in 1..n - 1 /\ n - 1 \in 1..n /\ (n - 1) + 1 = n
    BY <1>n
  <2>2. m.head = t[1]
    <3>1. CASE j = 1
      <4>1. t[1] = s[1 + 1] /\ j # n /\ m.head = s[j + 1]
        BY <1>3, <1>13, <2>1, <3>1
      <4> QED
        BY <4>1, <3>1
    <3>2. CASE j # 1
      <4>1. 1 < j
        BY <1>n, <3>2
      <4>2. t[1] = s[1]
        BY <1>3, <2>1, <4>1
      <4> QED
        BY <1>13, <3>2, <4>2
    <3> QED
      BY <3>1, <3>2
  <2>3. CASE j = n
    <3>1. n - 1 < j /\ j # 1
      BY <1>n, <2>1, <2>3
    <3>2. t[n - 1] = s[n - 1]
      BY <1>3, <2>1, <3>1
    <3>3. m.tail = s[j - 1] /\ m.next = [l.next EXCEPT ![s[j - 1]] = Null]
      BY <1>13, <2>3, <3>1
    <3>4. s[j - 1] = s[n - 1] /\ s[j - 1] \in DOMAIN l.next
      BY <1>5, <1>c, <2>3, <3>1
    <3> QED
      BY <2>2, <3>2, <3>3, <3>4
  <2>4. CASE j # n
    <3>1. n - 1 >= j
      BY <1>n, <2>4
    <3>2. t[n - 1] = s[n]
      BY <1>3, <2>1, <3>1
    <3>3. m.tail = s[n]
      BY <1>13, <2>4
    <3>4. j # 1 => s[j - 1] # s[n]
      BY <1>5, <1>c, <1>n, <2>4, <3>1
    <3>5. m.next[s[n]] = Null
      BY <1>13, <1>c, <3>4
    <3> QED
      BY <2>2, <3>2, <3>3, <3>5
  <2> QED
    BY <2>3, <2>4
<1>22. \A i \in 1..(n - 1) - 1 : m.next[t[i]] = t[i + 1] /\ m.prev[t[i + 1]] = t[i]
  <2> TAKE i \in 1..(n - 1) - 1
  <2>0. /\ i \in 1..n - 1 /\ i + 1 \in 1..n - 1 /\ i \in 1..n /\ i + 1 \in 1..n
        /\ (i + 1) + 1 \in 1..n /\ i \in Nat
    BY <1>n
  <2>1. CASE i + 1 < j
    <3>1. t[i] = s[i] /\ t[i + 1] = s[i + 1] /\ i < j
      BY <1>3, <2>0, <2>1
    <3>2. j # 1 /\ s[j - 1] # s[i]
      BY <1>5, <1>c, <2>0, <2>1
    <3>3. j # n => s[j + 1] # s[i + 1]
      <4>1. j + 1 # i + 1
        BY <2>0, <2>1
      <4> QED
        BY <1>12, <1>c, <2>0, <4>1
    <3>4. l.next[s[i]] = s[i + 1] /\ l.prev[s[i + 1]] = s[i]
      BY <1>c, <2>0
    <3>5. m.next[s[i]] = s[i + 1]
      BY <1>13, <1>c, <2>0, <3>2, <3>4
    <3>6. m.prev[s[i + 1]] = s[i]
      BY <1>13, <1>c, <2>0, <3>3, <3>4
    <3> QED
      BY <3>1, <3>5, <3>6
  <2>2. CASE i + 1 = j
    <3>1. t[i] = s[i] /\ t[i + 1] = s[(i + 1) + 1]
      BY <1>3, <2>0, <2>2
    <3>2. j # 1 /\ j # n /\ j - 1 = i /\ j + 1 = (i + 1) + 1
      BY <1>n, <2>0, <2>2
    <3>3. l.prev[s[j]] = s[i] /\ s[i] \in DOMAIN l.next /\ s[(i + 1) + 1] \in DOMAIN l.prev
      BY <1>c, <2>0, <2>2
    <3>4. m.next[s[i]] = s[j + 1]
      BY <1>13, <3>2, <3>3
    <3>5. m.prev[s[j + 1]] = s[i]
      BY <1>13, <3>2, <3>3
    <3> QED
      BY <3>1, <3>2, <3>4, <3>5
  <2>3. CASE i + 1 > j
    <3>1. t[i] = s[i + 1] /\ t[i + 1] = s[(i + 1) + 1]
      BY <1>3, <2>0, <2>3
    <3>2. l.next[s[i + 1]] = s[(i + 1) + 1] /\ l.prev[s[(i + 1) + 1]] = s[i + 1]
      BY <1>c, <2>0
    <3>3. j # 1 => s[j - 1] # s[i + 1]
      BY <1>5, <1>c, <2>0, <2>3
    <3>4. j # n => s[j + 1] # s[(i + 1) + 1]
      <4>1. j + 1 # (i + 1) + 1
        BY <2>0, <2>3
      <4> QED
        BY <1>12, <1>c, <2>0, <4>1
    <3>5. m.next[s[i + 1]] = s[(i + 1) + 1]
      BY <1>13, <1>c, <2>0, <3>2, <3>3
    <3>6. m.prev[s[(i + 1) + 1]] = s[i + 1]
      BY <1>13, <1>c, <2>0, <3>2, <3>4
    <3> QED
      BY <3>1, <3>5, <3>6
  <2> QED
    BY <2>0, <2>1, <2>2, <2>3, <1>n
<1>23. Chain(m, t, n - 1)
  BY <1>14, <1>15, <1>16, <1>20, <1>21, <1>22 DEF Chain
<1> QED
  BY <1>1, <1>2, <1>9, <1>17, <1>18, <1>19, <1>23

Hashed(l, s, n) ==
  /\ l.size = n
  /\ IsFiniteSet(DOMAIN l.hash) /\ Cardinality(DOMAIN l.hash) = n
  /\ \A k \in DOMAIN l.hash : l.hash[k] \in NodesOf(s, n) /\ l.key[l.hash[k]] = k
  /\ \A x \in NodesOf(s, n) : l.key[x] \in DOMAIN l.hash /\ l.hash[l.key[x]] = x

\* The head may still have the link of its former place in the list.
HeadFirst(l, s, n) ==
  n > 0 => l.prev[s[1]] \in (NodesOf(s, n) \ {s[1]}) \cup {Null}

Stored(l, s, n) ==
  /\ Chain(l, s, n) /\ Hashed(l, s, n)
  /\ DOMAIN l.prev = DOMAIN l.key /\ DOMAIN l.next = DOMAIN l.key
  /\ ~l.threw

Settled(l, s, n) ==
  /\ Stored(l, s, n) /\ HeadFirst(l, s, n)
  /\ DOMAIN l.key = NodesOf(s, n)
  /\ n <= CacheSize

LruOk(l) ==
  /\ DOMAIN l = LruFields /\ l.rehit \in BOOLEAN
  /\ ~l.rehit => \E n \in Nat : \E s \in [1..n -> Nat \ {0}] : Settled(l, s, n)

\* A chain is one whatever the nodes outside it are,
LEMMA SameChain ==
  ASSUME NEW l, NEW s, NEW n, Chain(l, s, n), NEW q,
         q.head = l.head, q.tail = l.tail,
         DOMAIN l.next \subseteq DOMAIN q.next, DOMAIN l.prev \subseteq DOMAIN q.prev,
         \A x \in NodesOf(s, n) : q.next[x] = l.next[x] /\ q.prev[x] = l.prev[x]
  PROVE  Chain(q, s, n)
<1>1. \A i \in 1..n : q.next[s[i]] = l.next[s[i]] /\ q.prev[s[i]] = l.prev[s[i]]
  BY DEF NodesOf
<1>2. /\ n \in Nat /\ s \in [1..n -> Nat \ {0}]
      /\ \A i, j \in 1..n : s[i] = s[j] => i = j
      /\ \A i \in 1..n : s[i] \in DOMAIN l.next /\ s[i] \in DOMAIN l.prev
      /\ n = 0 => l.head = Null /\ l.tail = Null
      /\ n > 0 => l.head = s[1] /\ l.tail = s[n] /\ l.next[s[n]] = Null
      /\ \A i \in 1..n - 1 : l.next[s[i]] = s[i + 1] /\ l.prev[s[i + 1]] = s[i]
  BY DEF Chain
<1>3. n > 0 => n \in 1..n
  BY <1>2
<1>4. \A i \in 1..n - 1 : i \in 1..n /\ i + 1 \in 1..n
  BY <1>2
<1>5. \A i \in 1..n : s[i] \in DOMAIN q.next /\ s[i] \in DOMAIN q.prev
  BY <1>2
<1>6. n > 0 => q.head = s[1] /\ q.tail = s[n] /\ q.next[s[n]] = Null
  BY <1>1, <1>2, <1>3
<1>7. \A i \in 1..n - 1 : q.next[s[i]] = s[i + 1] /\ q.prev[s[i + 1]] = s[i]
  BY <1>1, <1>2, <1>4
<1>8. n = 0 => q.head = Null /\ q.tail = Null
  BY <1>2
<1> QED
  BY <1>2, <1>5, <1>6, <1>7, <1>8 DEF Chain

\* and so is its hash.
LEMMA SameHashed ==
  ASSUME NEW l, NEW s, NEW n, Hashed(l, s, n), NEW q, NEW t, NodesOf(t, n) = NodesOf(s, n),
         q.size = l.size, q.hash = l.hash,
         \A x \in NodesOf(s, n) : q.key[x] = l.key[x]
  PROVE  Hashed(q, t, n)
BY DEF Hashed

\* Where the nodes of a chain lead to.
LEMMA ChainLinks ==
  ASSUME NEW l, NEW s, NEW n, Chain(l, s, n)
  PROVE  /\ \A x \in NodesOf(s, n) : l.next[x] \in NodesOf(s, n) \cup {Null}
         /\ \A x \in NodesOf(s, n) \ {s[1]} : l.prev[x] \in NodesOf(s, n)
         /\ l.head \in NodesOf(s, n) \cup {Null} /\ l.tail \in NodesOf(s, n) \cup {Null}
         /\ n > 0 => s[1] \in NodesOf(s, n) /\ s[n] \in NodesOf(s, n)
         /\ NodesOf(s, n) \subseteq DOMAIN l.next /\ NodesOf(s, n) \subseteq DOMAIN l.prev
         /\ Null \notin NodesOf(s, n)
<1>2. /\ n \in Nat /\ s \in [1..n -> Nat \ {0}]
      /\ \A i \in 1..n : s[i] \in DOMAIN l.next /\ s[i] \in DOMAIN l.prev
      /\ n = 0 => l.head = Null /\ l.tail = Null
      /\ n > 0 => l.head = s[1] /\ l.tail = s[n] /\ l.next[s[n]] = Null
      /\ \A i \in 1..n - 1 : l.next[s[i]] = s[i + 1] /\ l.prev[s[i + 1]] = s[i]
  BY DEF Chain
<1>3. \A i \in 1..n : s[i] \in NodesOf(s, n) /\ s[i] # Null
  BY <1>2 DEF NodesOf, Null
<1>4. ASSUME NEW i \in 1..n PROVE l.next[s[i]] \in NodesOf(s, n) \cup {Null}
  <2>1. CASE i = n
    BY <1>2, <2>1
  <2>2. CASE i # n
    <3>1. i \in 1..n - 1 /\ i + 1 \in 1..n
      BY <1>2, <2>2
    <3> QED
      BY <1>2, <1>3, <3>1
  <2> QED
    BY <2>1, <2>2
<1>5. ASSUME NEW i \in 1..n, s[i] # s[1] PROVE l.prev[s[i]] \in NodesOf(s, n)
  <2>1. i # 1
    BY <1>5
  <2>2. i - 1 \in 1..n - 1 /\ i - 1 \in 1..n /\ (i - 1) + 1 = i
    BY <1>2, <2>1
  <2>3. l.prev[s[i]] = s[i - 1]
    BY <1>2, <2>2
  <2> QED
    BY <1>3, <2>2, <2>3
<1>6. n > 0 => 1 \in 1..n /\ n \in 1..n
  BY <1>2
<1>7. n = 0 \/ n > 0
  BY <1>2
<1>8. l.head \in NodesOf(s, n) \cup {Null} /\ l.tail \in NodesOf(s, n) \cup {Null}
  BY <1>2, <1>3, <1>6, <1>7
<1>9. \A x \in NodesOf(s, n) : \E i \in 1..n : x = s[i]
  BY DEF NodesOf
<1> QED
  BY <1>2, <1>3, <1>4, <1>5, <1>6, <1>8, <1>9

\* The garbage collector leaves what the list and the hash hold.
LEMMA CollectOk ==
  ASSUME NEW l, DOMAIN l = LruFields, NEW s, NEW n, Stored(l, s, n), HeadFirst(l, s, n),
         NodesOf(s, n) \subseteq DOMAIN l.key, n <= CacheSize
  PROVE  Settled(Collect(l), s, n)
<1> DEFINE nodes == NodesOf(s, n)
<1>1. /\ \A x \in nodes : l.next[x] \in nodes \cup {Null}
      /\ \A x \in nodes \ {s[1]} : l.prev[x] \in nodes
      /\ l.head \in nodes \cup {Null} /\ l.tail \in nodes \cup {Null}
  BY ChainLinks DEF Stored
<1>2. \A x \in nodes : l.prev[x] \in nodes \cup {Null}
  <2>1. CASE n > 0
    BY <1>1, <2>1 DEF HeadFirst
  <2>2. CASE ~(n > 0)
    <3>1. (1..n) = {}
      BY <2>2 DEF Stored, Chain
    <3> QED
      BY <3>1 DEF NodesOf
  <2> QED
    BY <2>1, <2>2
<1>3. Linked(l, nodes) \subseteq nodes
  BY <1>1, <1>2 DEF Linked, Stored, Hashed
<1>4. \A S : Linked(l, S) \subseteq S => nodes \subseteq S
  <2> SUFFICES ASSUME NEW S, Linked(l, S) \subseteq S, NEW x \in nodes PROVE x \in S
    OBVIOUS
  <2>1. x # Null
    BY ChainLinks DEF Stored
  <2>2. l.key[x] \in DOMAIN l.hash /\ l.hash[l.key[x]] = x
    BY DEF Stored, Hashed
  <2> QED
    BY <2>1, <2>2 DEF Linked
<1>5. Reached(l) = nodes
  <2>1. nodes \in SUBSET DOMAIN l.key
    OBVIOUS
  <2> QED
    BY <1>3, <1>4, <2>1 DEF Reached
<1>6. PICK q : q = Collect(l)
  OBVIOUS
<1>7. /\ q.size = l.size /\ q.hash = l.hash /\ q.head = l.head /\ q.tail = l.tail
      /\ q.threw = l.threw
      /\ q.key = [x \in nodes |-> l.key[x]] /\ q.prev = [x \in nodes |-> l.prev[x]]
      /\ q.next = [x \in nodes |-> l.next[x]]
  BY <1>5, <1>6 DEF Collect, LruFields
<1>8. Chain(q, s, n)
  <2>1. Chain(l, s, n)
    BY DEF Stored
  <2>2. \A i \in 1..n : s[i] \in nodes
    BY DEF NodesOf
  <2>3. /\ \A i \in 1..n : q.next[s[i]] = l.next[s[i]] /\ q.prev[s[i]] = l.prev[s[i]]
        /\ \A i \in 1..n : s[i] \in DOMAIN q.next /\ s[i] \in DOMAIN q.prev
    BY <1>7, <2>2
  <2>4. n \in Nat /\ (n > 0 => n \in 1..n) /\ \A i \in 1..n - 1 : i \in 1..n /\ i + 1 \in 1..n
    BY <2>1 DEF Chain
  <2>5. n > 0 => q.head = s[1] /\ q.tail = s[n] /\ q.next[s[n]] = Null
    BY <1>7, <2>1, <2>3, <2>4 DEF Chain
  <2>6. \A i \in 1..n - 1 : q.next[s[i]] = s[i + 1] /\ q.prev[s[i + 1]] = s[i]
    BY <2>1, <2>3, <2>4 DEF Chain
  <2> QED
    BY <1>7, <2>1, <2>3, <2>5, <2>6 DEF Chain
<1>9. Hashed(q, s, n)
  <2>1. Hashed(l, s, n) /\ \A x \in NodesOf(s, n) : q.key[x] = l.key[x]
    BY <1>7 DEF Stored
  <2> QED
    BY <1>7, <2>1, SameHashed
<1>10. HeadFirst(q, s, n)
  <2>1. n > 0 => s[1] \in nodes
    BY ChainLinks DEF Stored
  <2> QED
    BY <1>7, <2>1 DEF HeadFirst
<1>11. DOMAIN q.key = nodes /\ DOMAIN q.prev = nodes /\ DOMAIN q.next = nodes /\ ~q.threw
  BY <1>7 DEF Stored
<1> QED
  BY <1>6, <1>8, <1>9, <1>10, <1>11 DEF Settled, Stored

\* What collecting leaves,
LEMMA CollectFields ==
  ASSUME NEW l, DOMAIN l = LruFields
  PROVE  DOMAIN Collect(l) = LruFields /\ Collect(l).rehit = l.rehit
BY DEF Collect, LruFields

\* and what moving to the front does.
LEMMA MoveFields ==
  ASSUME NEW l, DOMAIN l = LruFields, l.rehit \in BOOLEAN, NEW x
  PROVE  LET m == MoveToFront(l, x)
         IN /\ DOMAIN m = LruFields /\ m.hash = l.hash /\ m.size = l.size
            /\ m.key = l.key /\ m.threw = l.threw
            /\ m.rehit = (l.rehit \/ (x = l.head /\ l.prev[x] # Null))
            /\ m.rehit \in BOOLEAN
<1>1. PICK q : q = [l EXCEPT !.rehit = @ \/ (x = l.head /\ l.prev[x] # Null)]
  OBVIOUS
<1>2. /\ DOMAIN q = LruFields /\ q.hash = l.hash /\ q.size = l.size /\ q.key = l.key
      /\ q.threw = l.threw /\ q.rehit = (l.rehit \/ (x = l.head /\ l.prev[x] # Null))
  BY <1>1 DEF LruFields
<1>3. PICK r : r = ListRemove(q, x)
  OBVIOUS
<1>4. /\ DOMAIN r = LruFields /\ r.hash = q.hash /\ r.size = q.size /\ r.key = q.key
      /\ r.threw = q.threw /\ r.rehit = q.rehit
  BY <1>2, <1>3, ListRemoveFields
<1>5. PICK m : m = ListAdd(r, x)
  OBVIOUS
<1>6. /\ DOMAIN m = LruFields /\ m.hash = r.hash /\ m.size = r.size /\ m.key = r.key
      /\ m.threw = r.threw /\ m.rehit = r.rehit
  BY <1>4, <1>5, ListAddKeeps
<1>7. MoveToFront(l, x) = m
  BY <1>1, <1>3, <1>5 DEF MoveToFront
<1> QED
  BY <1>2, <1>4, <1>6, <1>7

\* A node of the list is moved to its front.
LEMMA MoveStored ==
  ASSUME NEW l, DOMAIN l = LruFields, l.rehit \in BOOLEAN, NEW s, NEW n, Stored(l, s, n),
         NEW x \in NodesOf(s, n), ~MoveToFront(l, x).rehit
  PROVE  \E t : /\ Stored(MoveToFront(l, x), t, n) /\ HeadFirst(MoveToFront(l, x), t, n)
                /\ NodesOf(t, n) = NodesOf(s, n)
<1>1. PICK q : q = [l EXCEPT !.rehit = @ \/ (x = l.head /\ l.prev[x] # Null)]
  OBVIOUS
<1>2. /\ DOMAIN q = LruFields /\ q.head = l.head /\ q.tail = l.tail /\ q.next = l.next
      /\ q.prev = l.prev
  BY <1>1 DEF LruFields
<1>3. Chain(l, s, n)
  BY DEF Stored
<1>4. Chain(q, s, n)
  BY <1>2, <1>3, SameChain
<1>5. PICK j \in 1..n : x = s[j]
  BY DEF NodesOf
<1>n. n \in Nat /\ n > 0 /\ (n - 1) + 1 = n /\ x \in Nat \ {0} /\ s[1] \in NodesOf(s, n)
  <2>1. n \in Nat /\ s \in [1..n -> Nat \ {0}]
    BY <1>3 DEF Chain
  <2>2. n > 0 /\ (n - 1) + 1 = n /\ 1 \in 1..n /\ x \in Nat \ {0}
    BY <1>5, <2>1
  <2> QED
    BY <2>1, <2>2 DEF NodesOf
<1>6. j = 1 => q.prev[s[1]] = Null
  <2>1. ~(x = l.head /\ l.prev[x] # Null)
    BY MoveFields
  <2>2. l.head = s[1]
    BY <1>3, <1>n DEF Chain
  <2> QED
    BY <1>2, <1>5, <2>1, <2>2
<1>7. PICK r : r = ListRemove(q, x)
  OBVIOUS
<1>8. PICK u : u = [i \in 1..n - 1 |-> IF i < j THEN s[i] ELSE s[i + 1]]
  OBVIOUS
<1>9. /\ Chain(r, u, n - 1) /\ x \notin NodesOf(u, n - 1)
      /\ NodesOf(u, n - 1) = NodesOf(s, n) \ {x}
      /\ DOMAIN r.next = DOMAIN l.next /\ DOMAIN r.prev = DOMAIN l.prev
      /\ r.next[x] = l.next[x] /\ r.prev[x] = l.prev[x]
  BY <1>2, <1>4, <1>5, <1>6, <1>7, <1>8, ListRemoveChain
<1>10. DOMAIN r = LruFields
  BY <1>2, <1>7, ListRemoveFields
<1>11. x \in DOMAIN r.next /\ x \in DOMAIN r.prev
  BY <1>3, <1>9, ChainLinks
<1>12. n - 1 = 0 => r.next[x] = Null
  <2> HAVE n - 1 = 0
  <2>1. n = 1 /\ j = n
    BY <1>n
  <2> QED
    BY <1>3, <1>5, <1>9, <1>n, <2>1 DEF Chain
<1>13. PICK m : m = ListAdd(r, x)
  OBVIOUS
<1>a. PICK k \in Nat : k = n - 1
  BY <1>n
<1>14. PICK t : t = [i \in 1..k + 1 |-> IF i = 1 THEN x ELSE u[i - 1]]
  OBVIOUS
<1>c. t \in [1..k + 1 -> Nat \ {0}] /\ t[1] = x /\ \A i \in 1..k : t[i + 1] = u[i]
  <2>1. u \in [1..k -> Nat \ {0}]
    BY <1>9, <1>a DEF Chain
  <2>2. \A i \in 1..k + 1 : i = 1 \/ i - 1 \in 1..k
    OBVIOUS
  <2>3. \A i \in 1..k : i + 1 \in 1..k + 1 /\ i + 1 # 1 /\ (i + 1) - 1 = i
    OBVIOUS
  <2>4. 1 \in 1..k + 1
    OBVIOUS
  <2>5. \A i \in 1..k + 1 : t[i] \in Nat \ {0}
    BY <1>14, <1>n, <2>1, <2>2
  <2>6. t[1] = x /\ \A i \in 1..k : t[i + 1] = u[i]
    BY <1>14, <2>3, <2>4
  <2> QED
    BY <1>14, <2>5, <2>6
<1>d. InFront(x, u, k, t)
  BY <1>c DEF InFront
<1>b. Chain(r, u, k) /\ x \notin NodesOf(u, k) /\ (k = 0 => r.next[x] = Null)
  BY <1>9, <1>12, <1>a
<1>15. /\ Chain(m, t, k + 1) /\ m.prev[x] = r.prev[x]
       /\ NodesOf(t, k + 1) = NodesOf(u, k) \cup {x}
       /\ DOMAIN m.next = DOMAIN r.next /\ DOMAIN m.prev = DOMAIN r.prev
  BY <1>b, <1>d, <1>10, <1>11, <1>13, <1>n, ListAddChain
<1>16. Chain(m, t, n) /\ NodesOf(t, n) = NodesOf(s, n)
  BY <1>9, <1>15, <1>a, <1>n
<1>17. MoveToFront(l, x) = m
  BY <1>1, <1>7, <1>13 DEF MoveToFront
<1>18. m.hash = l.hash /\ m.size = l.size /\ m.key = l.key /\ m.threw = l.threw
  BY <1>17, MoveFields
<1>19. Hashed(m, t, n)
  BY <1>16, <1>18, SameHashed DEF Stored
<1>20. Stored(m, t, n)
  BY <1>9, <1>15, <1>16, <1>18, <1>19 DEF Stored
<1>21. HeadFirst(m, t, n)
  <2>1. t[1] = x
    BY <1>14, <1>n
  <2>2. m.prev[x] = l.prev[x]
    BY <1>9, <1>15
  <2>3. CASE j = 1
    BY <1>2, <1>5, <1>6, <2>1, <2>2, <2>3 DEF HeadFirst
  <2>4. CASE j # 1
    <3>1. j - 1 \in 1..n - 1 /\ j - 1 \in 1..n /\ (j - 1) + 1 = j /\ j - 1 # j
      BY <1>n, <2>4
    <3>2. l.prev[x] = s[j - 1] /\ s[j - 1] # x
      BY <1>3, <1>5, <3>1 DEF Chain
    <3>3. s[j - 1] \in NodesOf(s, n)
      BY <3>1 DEF NodesOf
    <3> QED
      BY <1>16, <2>1, <2>2, <3>2, <3>3 DEF HeadFirst
  <2> QED
    BY <2>3, <2>4
<1> QED
  BY <1>16, <1>17, <1>20, <1>21

\* A settled cache is sound.
LEMMA SettledIntro ==
  ASSUME NEW l, NEW s, NEW n, Settled(l, s, n), DOMAIN l = LruFields, l.rehit \in BOOLEAN
  PROVE  LruOk(l)
<1>1. n \in Nat /\ s \in [1..n -> Nat \ {0}]
  BY DEF Settled, Stored, Chain
<1> QED
  BY <1>1 DEF LruOk

\* A node of a list that has room is moved to the front.
LEMMA MoveOk ==
  ASSUME NEW l, DOMAIN l = LruFields, l.rehit \in BOOLEAN, NEW x,
         ~l.rehit => \E n, s : /\ Stored(l, s, n) /\ n <= CacheSize /\ x \in NodesOf(s, n)
                               /\ NodesOf(s, n) \subseteq DOMAIN l.key
  PROVE  LruOk(Collect(MoveToFront(l, x)))
<1>1. PICK m : m = MoveToFront(l, x)
  OBVIOUS
<1>2. /\ DOMAIN m = LruFields /\ m.key = l.key /\ m.rehit \in BOOLEAN
      /\ l.rehit => m.rehit
  BY <1>1, MoveFields
<1>3. PICK c : c = Collect(m)
  OBVIOUS
<1>4. DOMAIN c = LruFields /\ c.rehit = m.rehit
  BY <1>2, <1>3, CollectFields
<1>5. CASE m.rehit
  BY <1>1, <1>3, <1>4, <1>5 DEF LruOk
<1>6. CASE ~m.rehit
  <2>1. PICK n, s : /\ Stored(l, s, n) /\ n <= CacheSize /\ x \in NodesOf(s, n)
                    /\ NodesOf(s, n) \subseteq DOMAIN l.key
    BY <1>2, <1>6
  <2>2. PICK t : Stored(m, t, n) /\ HeadFirst(m, t, n) /\ NodesOf(t, n) = NodesOf(s, n)
    BY <1>1, <1>6, <2>1, MoveStored
  <2>3. Settled(c, t, n)
    BY <1>2, <1>3, <2>1, <2>2, CollectOk
  <2>4. LruOk(c)
    BY <1>2, <1>4, <2>3, SettledIntro
  <2> QED
    BY <1>1, <1>3, <2>4
<1> QED
  BY <1>5, <1>6

\* Reading keeps the cache sound.
LEMMA LruGetOk ==
  ASSUME NEW l, LruOk(l), NEW k \in DOMAIN l.hash
  PROVE  LruOk(LruGet(l, k))
<1>1. DOMAIN l = LruFields /\ l.rehit \in BOOLEAN
  BY DEF LruOk
<1>2. ASSUME ~l.rehit
      PROVE  \E n, s : /\ Stored(l, s, n) /\ n <= CacheSize /\ l.hash[k] \in NodesOf(s, n)
                       /\ NodesOf(s, n) \subseteq DOMAIN l.key
  <2>1. PICK n \in Nat : \E s \in [1..n -> Nat \ {0}] : Settled(l, s, n)
    BY <1>2 DEF LruOk
  <2>2. PICK s \in [1..n -> Nat \ {0}] : Settled(l, s, n)
    BY <2>1
  <2> QED
    BY <2>2 DEF Settled, Stored, Hashed
<1> QED
  BY <1>1, <1>2, MoveOk DEF LruGet

\* The place of a key that is evicted.
LEMMA EvictOk ==
  ASSUME NEW l, DOMAIN l = LruFields, NEW s, NEW n, Settled(l, s, n), n > 0,
         NEW e, e = [ListRemove(l, l.tail) EXCEPT
                       !.hash = Without(@, l.key[l.tail]), !.size = @ - 1]
  PROVE  \E t : /\ Stored(e, t, n - 1)
                /\ NodesOf(t, n - 1) \subseteq DOMAIN e.key /\ DOMAIN e.key = DOMAIN l.key
<1>1. Stored(l, s, n) /\ Chain(l, s, n) /\ Hashed(l, s, n)
  BY DEF Settled, Stored
<1>n. n \in Nat /\ n \in 1..n /\ 1 \in 1..n /\ l.tail = s[n] /\ s[n] \in NodesOf(s, n)
  <2>1. n \in Nat /\ l.tail = s[n]
    BY <1>1 DEF Chain
  <2>2. n \in 1..n /\ 1 \in 1..n
    BY <2>1
  <2> QED
    BY <2>1, <2>2 DEF NodesOf
<1>2. n = 1 => l.prev[s[1]] = Null
  <2> HAVE n = 1
  <2>1. NodesOf(s, n) = {s[1]}
    BY <1>n DEF NodesOf
  <2> QED
    BY <2>1 DEF Settled, HeadFirst
<1>3. PICK r : r = ListRemove(l, s[n])
  OBVIOUS
<1>4. PICK t : t = [i \in 1..n - 1 |-> IF i < n THEN s[i] ELSE s[i + 1]]
  OBVIOUS
<1>5. /\ Chain(r, t, n - 1) /\ s[n] \notin NodesOf(t, n - 1)
      /\ NodesOf(t, n - 1) = NodesOf(s, n) \ {s[n]}
      /\ DOMAIN r.next = DOMAIN l.next /\ DOMAIN r.prev = DOMAIN l.prev
  BY <1>1, <1>2, <1>3, <1>4, <1>n, ListRemoveChain
<1>6. /\ DOMAIN r = LruFields /\ r.size = l.size /\ r.hash = l.hash /\ r.key = l.key
      /\ r.threw = l.threw
  BY <1>3, ListRemoveFields
<1>7. PICK key : key = l.key[s[n]]
  OBVIOUS
<1>8. /\ e.size = l.size - 1 /\ e.hash = Without(l.hash, key) /\ e.key = l.key
      /\ e.threw = l.threw /\ e.head = r.head /\ e.tail = r.tail /\ e.next = r.next
      /\ e.prev = r.prev
  BY <1>3, <1>6, <1>7, <1>n DEF LruFields
<1>9. Chain(e, t, n - 1)
  BY <1>5, <1>8, SameChain
<1>10. key \in DOMAIN l.hash /\ l.hash[key] = s[n] /\ l.size = n
  BY <1>1, <1>7, <1>n DEF Hashed
<1>11. /\ DOMAIN e.hash = DOMAIN l.hash \ {key}
       /\ \A k \in DOMAIN e.hash : e.hash[k] = l.hash[k]
  BY <1>8 DEF Without
<1>12. IsFiniteSet(DOMAIN e.hash) /\ Cardinality(DOMAIN e.hash) = n - 1
  BY <1>1, <1>10, <1>11, FS_RemoveElement DEF Hashed
<1>13. \A k \in DOMAIN e.hash : e.hash[k] \in NodesOf(t, n - 1) /\ e.key[e.hash[k]] = k
  <2> TAKE k \in DOMAIN e.hash
  <2>1. k \in DOMAIN l.hash /\ k # key /\ e.hash[k] = l.hash[k]
    BY <1>11
  <2>2. l.hash[k] \in NodesOf(s, n) /\ l.key[l.hash[k]] = k
    BY <1>1, <2>1 DEF Hashed
  <2>3. l.hash[k] # s[n]
    BY <1>7, <2>1, <2>2
  <2> QED
    BY <1>5, <1>8, <2>1, <2>2, <2>3
<1>14. \A x \in NodesOf(t, n - 1) : e.key[x] \in DOMAIN e.hash /\ e.hash[e.key[x]] = x
  <2> TAKE x \in NodesOf(t, n - 1)
  <2>1. x \in NodesOf(s, n) /\ x # s[n]
    BY <1>5
  <2>2. l.key[x] \in DOMAIN l.hash /\ l.hash[l.key[x]] = x
    BY <1>1, <2>1 DEF Hashed
  <2>3. l.key[x] # key
    BY <1>10, <2>1, <2>2
  <2> QED
    BY <1>8, <1>11, <2>2, <2>3
<1>15. Hashed(e, t, n - 1)
  BY <1>8, <1>10, <1>12, <1>13, <1>14 DEF Hashed
<1>16. Stored(e, t, n - 1)
  BY <1>1, <1>5, <1>8, <1>9, <1>15 DEF Stored
<1>17. DOMAIN e.key = DOMAIN l.key /\ NodesOf(t, n - 1) \subseteq DOMAIN e.key
  BY <1>5, <1>8 DEF Settled
<1> QED
  BY <1>16, <1>17

\* There is always a node for one more key.
LEMMA FreshNode ==
  ASSUME NEW l, IsFiniteSet(DOMAIN l.key)
  PROVE  NewNode(l) \in Nat \ {0} /\ NewNode(l) \notin DOMAIN l.key
<1>1. PICK c \in Nat : c = Cardinality(DOMAIN l.key)
  BY FS_CardinalityType
<1>2. IsFiniteSet(1..c + 1) /\ Cardinality(1..c + 1) = c + 1
  <2>1. 1 \in Int /\ c + 1 \in Int /\ ~(1 > c + 1) /\ (c + 1) - 1 + 1 = c + 1
    OBVIOUS
  <2> QED
    BY <2>1, FS_Interval
<1>3. \E n \in 1..c + 1 : n \notin DOMAIN l.key
  <2> SUFFICES ASSUME 1..c + 1 \subseteq DOMAIN l.key PROVE FALSE
    OBVIOUS
  <2>1. c + 1 <= c
    BY <1>1, <1>2, FS_Subset
  <2> QED
    BY <2>1
<1>4. NewNode(l) \in 1..c + 1 /\ NewNode(l) \notin DOMAIN l.key
  BY <1>1, <1>3 DEF NewNode
<1> QED
  BY <1>4

\* The nodes of a chain are finite.
LEMMA NodesFinite ==
  ASSUME NEW s, NEW n \in Nat
  PROVE  IsFiniteSet(NodesOf(s, n))
<1>1. IsFiniteSet(1..n)
  BY FS_Interval
<1>2. PICK f : f = [i \in 1..n |-> s[i]]
  OBVIOUS
<1>3. f \in Surjection(1..n, NodesOf(s, n))
  BY <1>2 DEF Surjection, NodesOf
<1> QED
  BY <1>1, <1>3, FS_Surjection

\* A node is created for key k, and put in front.
Created(l, k, x, c) ==
  c = [l EXCEPT !.key = With(@, x, k), !.prev = With(@, x, Null), !.next = With(@, x, Null)]
Entered(c, k, x, r) ==
  r = [ListAdd(c, x) EXCEPT !.hash = With(@, k, x), !.size = @ + 1]

\* A new key in a list that has room for it.
LEMMA CreateOk ==
  ASSUME NEW l, DOMAIN l = LruFields, l.rehit \in BOOLEAN, NEW k, k \notin DOMAIN l.hash,
         ~l.rehit => \E n, s : /\ Stored(l, s, n) /\ n + 1 <= CacheSize
                               /\ NodesOf(s, n) \subseteq DOMAIN l.key
                               /\ IsFiniteSet(DOMAIN l.key),
         NEW x, x = NewNode(l),
         NEW c, Created(l, k, x, c), NEW r, Entered(c, k, x, r)
  PROVE  LruOk(Collect(r))
<1>1. /\ DOMAIN c = LruFields /\ c.key = With(l.key, x, k) /\ c.prev = With(l.prev, x, Null)
      /\ c.next = With(l.next, x, Null) /\ c.hash = l.hash /\ c.size = l.size
      /\ c.head = l.head /\ c.tail = l.tail /\ c.rehit = l.rehit /\ c.threw = l.threw
  BY DEF LruFields, Created
<1>2. PICK m : m = ListAdd(c, x)
  OBVIOUS
<1>3. /\ DOMAIN m = LruFields /\ m.hash = c.hash /\ m.size = c.size /\ m.key = c.key
      /\ m.threw = c.threw /\ m.rehit = c.rehit
  BY <1>1, <1>2, ListAddKeeps
<1>4. /\ DOMAIN r = LruFields /\ r.hash = With(m.hash, k, x) /\ r.size = m.size + 1
      /\ r.key = m.key /\ r.threw = m.threw /\ r.rehit = m.rehit /\ r.head = m.head
      /\ r.tail = m.tail /\ r.next = m.next /\ r.prev = m.prev
  BY <1>2, <1>3 DEF LruFields, Entered
<1>5. DOMAIN Collect(r) = LruFields /\ Collect(r).rehit = l.rehit
  BY <1>1, <1>3, <1>4, CollectFields
<1>6. CASE l.rehit
  BY <1>5, <1>6 DEF LruOk
<1>7. CASE ~l.rehit
  <2>1. PICK n, s : /\ Stored(l, s, n) /\ n + 1 <= CacheSize
                    /\ NodesOf(s, n) \subseteq DOMAIN l.key /\ IsFiniteSet(DOMAIN l.key)
    BY <1>7
  <2>2. Chain(l, s, n) /\ Hashed(l, s, n) /\ n \in Nat /\ s \in [1..n -> Nat \ {0}]
    BY <2>1 DEF Stored, Chain
  <2>3. x \in Nat \ {0} /\ x \notin DOMAIN l.key /\ x \notin NodesOf(s, n)
    BY <2>1, FreshNode
  <2>4. /\ DOMAIN c.next = DOMAIN l.key \cup {x} /\ DOMAIN c.prev = DOMAIN l.key \cup {x}
        /\ DOMAIN c.key = DOMAIN l.key \cup {x}
        /\ c.next[x] = Null /\ c.prev[x] = Null /\ c.key[x] = k
        /\ \A y \in DOMAIN l.key : /\ c.next[y] = l.next[y] /\ c.prev[y] = l.prev[y]
                                   /\ c.key[y] = l.key[y]
    BY <1>1, <2>1, <2>3 DEF With, Stored
  <2>5. Chain(c, s, n)
    <3>1. DOMAIN l.next \subseteq DOMAIN c.next /\ DOMAIN l.prev \subseteq DOMAIN c.prev
      BY <2>1, <2>4 DEF Stored
    <3>2. \A y \in NodesOf(s, n) : c.next[y] = l.next[y] /\ c.prev[y] = l.prev[y]
      BY <2>1, <2>4
    <3> QED
      BY <1>1, <2>2, <3>1, <3>2, SameChain
  <2>6. PICK t : t = [i \in 1..n + 1 |-> IF i = 1 THEN x ELSE s[i - 1]]
    OBVIOUS
  <2>7. InFront(x, s, n, t)
    <3>1. \A i \in 1..n + 1 : i = 1 \/ i - 1 \in 1..n
      BY <2>2
    <3>2. \A i \in 1..n : i + 1 \in 1..n + 1 /\ i + 1 # 1 /\ (i + 1) - 1 = i
      BY <2>2
    <3>3. 1 \in 1..n + 1
      BY <2>2
    <3>4. \A i \in 1..n + 1 : t[i] \in Nat \ {0}
      BY <2>2, <2>3, <2>6, <3>1
    <3>5. t[1] = x /\ \A i \in 1..n : t[i + 1] = s[i]
      BY <2>6, <3>2, <3>3
    <3> QED
      BY <2>6, <3>4, <3>5 DEF InFront
  <2>8. /\ Chain(m, t, n + 1) /\ m.prev[x] = c.prev[x]
        /\ NodesOf(t, n + 1) = NodesOf(s, n) \cup {x}
        /\ DOMAIN m.next = DOMAIN c.next /\ DOMAIN m.prev = DOMAIN c.prev
    <3>1. x \in DOMAIN c.next /\ x \in DOMAIN c.prev /\ (n = 0 => c.next[x] = Null)
      BY <2>4
    <3> QED
      BY <1>1, <1>2, <2>3, <2>5, <2>7, <3>1, ListAddChain
  <2>9. Chain(r, t, n + 1)
    BY <1>4, <2>8, SameChain
  <2>10. Hashed(r, t, n + 1)
    <3>1. r.size = n + 1
      BY <1>1, <1>3, <1>4, <2>2 DEF Hashed
    <3>2. /\ DOMAIN r.hash = DOMAIN l.hash \cup {k} /\ r.hash[k] = x
          /\ \A q \in DOMAIN l.hash : r.hash[q] = l.hash[q]
      <4>1. PICK h : h = l.hash
        OBVIOUS
      <4>2. r.hash = With(h, k, x) /\ k \notin DOMAIN h
        BY <1>1, <1>3, <1>4, <4>1
      <4>3. /\ DOMAIN r.hash = DOMAIN h \cup {k} /\ r.hash[k] = x
            /\ \A q \in DOMAIN h : q # k => r.hash[q] = h[q]
        BY <4>2 DEF With
      <4> QED
        BY <4>1, <4>2, <4>3
    <3>3. IsFiniteSet(DOMAIN r.hash) /\ Cardinality(DOMAIN r.hash) = n + 1
      <4>1. IsFiniteSet(DOMAIN l.hash) /\ Cardinality(DOMAIN l.hash) = n
        BY <2>2 DEF Hashed
      <4> QED
        BY <3>2, <4>1, FS_AddElement
    <3>4. r.key[x] = k /\ \A y \in NodesOf(s, n) : r.key[y] = l.key[y]
      BY <1>3, <1>4, <2>1, <2>4
    <3>5. \A q \in DOMAIN r.hash : r.hash[q] \in NodesOf(t, n + 1) /\ r.key[r.hash[q]] = q
      BY <2>2, <2>8, <3>2, <3>4 DEF Hashed
    <3>6. \A y \in NodesOf(t, n + 1) : r.key[y] \in DOMAIN r.hash /\ r.hash[r.key[y]] = y
      BY <2>2, <2>8, <3>2, <3>4 DEF Hashed
    <3> QED
      BY <3>1, <3>3, <3>5, <3>6 DEF Hashed
  <2>11. Stored(r, t, n + 1)
    BY <1>1, <1>3, <1>4, <2>1, <2>4, <2>8, <2>9, <2>10 DEF Stored
  <2>12. HeadFirst(r, t, n + 1)
    BY <1>4, <2>4, <2>7, <2>8 DEF HeadFirst, InFront
  <2>13. NodesOf(t, n + 1) \subseteq DOMAIN r.key
    BY <1>3, <1>4, <2>1, <2>4, <2>8
  <2>14. Settled(Collect(r), t, n + 1)
    BY <1>4, <2>1, <2>11, <2>12, <2>13, CollectOk
  <2> QED
    BY <1>5, <2>14, SettledIntro
<1> QED
  BY <1>6, <1>7

\* What set does.
LEMMA LruSetOk ==
  ASSUME NEW l, LruOk(l), NEW k
  PROVE  LruOk(LruSet(l, k))
<1>0. DOMAIN l = LruFields /\ l.rehit \in BOOLEAN /\ CacheSize \in Nat \ {0}
  BY BloodhoundAssumption DEF LruOk
<1> DEFINE e == [ListRemove(l, l.tail) EXCEPT
                   !.hash = Without(@, l.key[l.tail]), !.size = @ - 1]
           room == IF l.size >= CacheSize THEN e ELSE l
           x == NewNode(room)
           c == [room EXCEPT !.key = With(@, x, k), !.prev = With(@, x, Null),
                             !.next = With(@, x, Null)]
           r == [ListAdd(c, x) EXCEPT !.hash = With(@, k, x), !.size = @ + 1]
<1>1. e = [ListRemove(l, l.tail) EXCEPT
             !.hash = Without(@, l.key[l.tail]), !.size = @ - 1]
  OBVIOUS
<1>2. room = IF l.size >= CacheSize THEN e ELSE l
  OBVIOUS
<1>4. x = NewNode(room)
  OBVIOUS
<1>5. c = [room EXCEPT !.key = With(@, x, k), !.prev = With(@, x, Null),
                       !.next = With(@, x, Null)]
  OBVIOUS
<1>6. r = [ListAdd(c, x) EXCEPT !.hash = With(@, k, x), !.size = @ + 1]
  OBVIOUS
<1>7. LruSet(l, k) =
        IF l.size >= CacheSize /\ l.tail = Null THEN [l EXCEPT !.threw = TRUE]
        ELSE IF k \in DOMAIN room.hash THEN Collect(MoveToFront(room, room.hash[k]))
        ELSE Collect(r)
  BY Zenon DEF LruSet
<1> HIDE DEF e, room, x, c, r
<1>3. DOMAIN room = LruFields /\ room.rehit = l.rehit
  <2>1. PICK cut : cut = ListRemove(l, l.tail)
    OBVIOUS
  <2>2. DOMAIN cut = LruFields /\ cut.rehit = l.rehit
    BY <1>0, <2>1, ListRemoveFields
  <2>3. DOMAIN e = LruFields /\ e.rehit = l.rehit
    BY <1>1, <2>1, <2>2 DEF LruFields
  <2> QED
    BY <1>0, <1>2, <2>3
\* A list with room for one more.
<1>8. ASSUME ~l.rehit
      PROVE  /\ ~(l.size >= CacheSize /\ l.tail = Null)
             /\ \E n, s : /\ Stored(room, s, n) /\ n + 1 <= CacheSize /\ n <= CacheSize
                          /\ NodesOf(s, n) \subseteq DOMAIN room.key
                          /\ IsFiniteSet(DOMAIN room.key)
  <2>1. PICK n \in Nat : \E s \in [1..n -> Nat \ {0}] : Settled(l, s, n)
    BY <1>8 DEF LruOk
  <2>2. PICK s \in [1..n -> Nat \ {0}] : Settled(l, s, n)
    BY <2>1
  <2>3. l.size = n /\ n <= CacheSize /\ Chain(l, s, n)
    BY <2>2 DEF Settled, Stored, Hashed
  <2>4. IsFiniteSet(DOMAIN l.key)
    BY <2>2, NodesFinite DEF Settled
  <2>5. CASE n >= CacheSize
    <3>1. n > 0 /\ n = CacheSize /\ n \in 1..n
      BY <1>0, <2>3, <2>5
    <3>2. l.tail # Null
      BY <2>3, <3>1 DEF Chain, Null
    <3>3. room = e
      BY <1>2, <2>3, <2>5
    <3>4. PICK t : /\ Stored(e, t, n - 1)
                   /\ NodesOf(t, n - 1) \subseteq DOMAIN e.key /\ DOMAIN e.key = DOMAIN l.key
      BY <1>0, <1>1, <2>2, <3>1, EvictOk
    <3>5. (n - 1) + 1 <= CacheSize /\ n - 1 <= CacheSize
      BY <3>1
    <3>6. \E q : /\ Stored(e, t, q) /\ q + 1 <= CacheSize /\ q <= CacheSize
                 /\ NodesOf(t, q) \subseteq DOMAIN e.key
      BY <3>4, <3>5
    <3> QED
      BY <2>4, <3>2, <3>3, <3>4, <3>6
  <2>6. CASE ~(n >= CacheSize)
    <3>1. room = l /\ n + 1 <= CacheSize /\ n <= CacheSize
      BY <1>0, <1>2, <2>3, <2>6
    <3> QED
      BY <2>2, <2>3, <2>4, <2>6, <3>1 DEF Settled
  <2> QED
    BY <2>5, <2>6
<1>9. CASE l.size >= CacheSize /\ l.tail = Null
  <2>1. l.rehit
    BY <1>0, <1>8, <1>9
  <2>2. PICK q : q = [l EXCEPT !.threw = TRUE]
    OBVIOUS
  <2>3. DOMAIN q = LruFields /\ q.rehit = l.rehit
    BY <1>0, <2>2 DEF LruFields
  <2> QED
    BY <1>7, <1>9, <2>1, <2>2, <2>3 DEF LruOk
<1>10. CASE ~(l.size >= CacheSize /\ l.tail = Null) /\ k \in DOMAIN room.hash
  <2>1. ~room.rehit => \E n, s : /\ Stored(room, s, n) /\ n <= CacheSize
                                 /\ room.hash[k] \in NodesOf(s, n)
                                 /\ NodesOf(s, n) \subseteq DOMAIN room.key
    <3> HAVE ~room.rehit
    <3>1. PICK n, s : /\ Stored(room, s, n) /\ n + 1 <= CacheSize /\ n <= CacheSize
                      /\ NodesOf(s, n) \subseteq DOMAIN room.key
      BY <1>3, <1>8
    <3>2. room.hash[k] \in NodesOf(s, n)
      BY <1>10, <3>1 DEF Stored, Hashed
    <3> QED
      BY <3>1, <3>2
  <2>2. LruOk(Collect(MoveToFront(room, room.hash[k])))
    BY <1>0, <1>3, <2>1, MoveOk
  <2> QED
    BY <1>7, <1>10, <2>2
<1>11. CASE ~(l.size >= CacheSize /\ l.tail = Null) /\ k \notin DOMAIN room.hash
  <2>1. ~room.rehit => \E n, s : /\ Stored(room, s, n) /\ n + 1 <= CacheSize
                                 /\ NodesOf(s, n) \subseteq DOMAIN room.key
                                 /\ IsFiniteSet(DOMAIN room.key)
    BY <1>3, <1>8
  <2>2. LruOk(Collect(r))
    <3>1. Created(room, k, x, c) /\ Entered(c, k, x, r)
      BY <1>5, <1>6 DEF Created, Entered
    <3> QED
      BY <1>0, <1>3, <1>4, <1>11, <2>1, <3>1, CreateOk
  <2> QED
    BY <1>7, <1>11, <2>2
<1> QED
  BY <1>9, <1>10, <1>11

\* An empty cache is sound,
LEMMA EmptyLruOk == LruOk(EmptyLru)
<1>1. PICK s : s \in [1..0 -> Nat \ {0}]
  <2>1. [i \in 1..0 |-> 1] \in [1..0 -> Nat \ {0}]
    OBVIOUS
  <2> QED
    BY <2>1
<1>2. PICK l : l = EmptyLru
  OBVIOUS
<1>3. /\ DOMAIN l = LruFields /\ l.rehit = FALSE /\ l.threw = FALSE /\ l.size = 0
      /\ l.head = Null /\ l.tail = Null
      /\ l.hash = <<>> /\ l.key = <<>> /\ l.prev = <<>> /\ l.next = <<>>
  BY <1>2 DEF EmptyLru, LruFields
<1>4. DOMAIN l.hash = {} /\ DOMAIN l.key = {} /\ DOMAIN l.prev = {} /\ DOMAIN l.next = {}
  BY <1>3
<1>5. NodesOf(s, 0) = {}
  BY DEF NodesOf
<1>6. Chain(l, s, 0)
  <2>1. (1..0) = {} /\ (1..0 - 1) = {} /\ 0 \in Nat /\ ~(0 > 0)
    OBVIOUS
  <2> QED
    BY <1>1, <1>3, <2>1 DEF Chain
<1>7. Hashed(l, s, 0)
  BY <1>3, <1>4, <1>5, FS_EmptySet DEF Hashed
<1>8. Settled(l, s, 0)
  BY <1>3, <1>4, <1>5, <1>6, <1>7, BloodhoundAssumption DEF Settled, Stored, HeadFirst
<1> QED
  BY <1>2, <1>3, <1>8, SettledIntro

\* and stays so through every step,
LEMMA LruStep == ASSUME LruOk(lru), [Next]_vars PROVE LruOk(lru')
<1>1. CASE UNCHANGED lru
  BY <1>1
<1>2. ASSUME NEW k \in Keys, RemoteSearch(k) PROVE LruOk(lru')
  <2>1. lru' = lru \/ (k \in DOMAIN lru.hash /\ lru' = LruGet(lru, k))
    BY <1>2 DEF RemoteSearch
  <2> QED
    BY <2>1, LruGetOk
<1>3. ASSUME NEW k \in Keys, NEW ok \in BOOLEAN, Respond(k, ok) PROVE LruOk(lru')
  <2>1. lru' = lru \/ lru' = LruSet(lru, k) \/ lru' = LruSet(LruSet(lru, k), k)
    BY <1>3 DEF Respond
  <2>2. LruOk(LruSet(lru, k))
    BY LruSetOk
  <2>3. LruOk(LruSet(LruSet(lru, k), k))
    BY <2>2, LruSetOk
  <2> QED
    BY <2>1, <2>2, <2>3
<1>4. CASE ResetCache
  BY <1>4, EmptyLruOk DEF ResetCache
<1>5. CASE LimiterFires \/ LimitOver
  BY <1>1, <1>5 DEF LimiterFires, LimitOver
<1>6. CASE PrefetchNext \/ ResetIndex \/ (\E id \in DOMAIN Datums : AddToIndex(id))
  BY <1>1, <1>6
     DEF AddToIndex, ResetIndex, PrefetchNext, OpenPage, ForceInitialize,
         AddData, ClearIndex, ClearPrefetchCache, Tick, Deploy, PrefetchAnswers,
         PrefetchFails, PreVars
<1>7. CASE (part = "box" /\ TypeaheadNext /\ UNCHANGED engineVars) \/ UNCHANGED vars
  BY <1>1, <1>7 DEF vars, engineVars
<1> QED
  BY <1>2, <1>3, <1>4, <1>5, <1>6, <1>7 DEF Next, EngineNext, RemoteNext

\* which is what the run checks.
LEMMA LruOkIsSound == LruOk(lru) => LruSound
<1> SUFFICES ASSUME LruOk(lru), ~lru.rehit
             PROVE  LET nodes == {lru.hash[k] : k \in DOMAIN lru.hash}
                    IN /\ ~lru.threw
                       /\ lru.size = Cardinality(DOMAIN lru.hash) /\ lru.size <= CacheSize
                       /\ \A k \in DOMAIN lru.hash : lru.key[lru.hash[k]] = k
                       /\ \E list \in [1..lru.size -> nodes] : Listed(lru, list)
  BY DEF LruSound
<1>1. PICK n \in Nat : \E s \in [1..n -> Nat \ {0}] : Settled(lru, s, n)
  BY DEF LruOk
<1>2. PICK s \in [1..n -> Nat \ {0}] : Settled(lru, s, n)
  BY <1>1
<1>3. Chain(lru, s, n) /\ Hashed(lru, s, n) /\ ~lru.threw /\ n <= CacheSize
  BY <1>2 DEF Settled, Stored
<1> DEFINE nodes == {lru.hash[k] : k \in DOMAIN lru.hash}
<1>4. nodes = NodesOf(s, n)
  <2>1. \A x \in NodesOf(s, n) : lru.key[x] \in DOMAIN lru.hash /\ lru.hash[lru.key[x]] = x
    BY <1>3 DEF Hashed
  <2>2. \A k \in DOMAIN lru.hash : lru.hash[k] \in NodesOf(s, n)
    BY <1>3 DEF Hashed
  <2> QED
    BY <2>1, <2>2
<1>5. s \in [1..n -> nodes] /\ lru.size = n
  <2>1. \A i \in 1..n : s[i] \in NodesOf(s, n)
    BY DEF NodesOf
  <2> QED
    BY <1>3, <1>4, <2>1 DEF Hashed
<1>6. s \in Seq(nodes) /\ Len(s) = n /\ DOMAIN s = 1..n
  BY <1>5
<1>7. Listed(lru, s)
  <2>1. IsInjective(s)
    BY <1>3, <1>6 DEF IsInjective, Chain
  <2>2. CASE n = 0
    BY <1>3, <1>6, <2>1, <2>2 DEF Listed, Chain
  <2>3. CASE n # 0
    <3>1. s # <<>> /\ Last(s) = s[n]
      BY <1>6, <2>3 DEF Last
    <3> QED
      BY <1>3, <1>6, <2>1, <2>3, <3>1 DEF Listed, Chain
  <2> QED
    BY <2>2, <2>3
<1>8. \A k \in DOMAIN lru.hash : lru.key[lru.hash[k]] = k
  BY <1>3 DEF Hashed
<1>9. lru.size = Cardinality(DOMAIN lru.hash)
  BY <1>3 DEF Hashed
<1> QED
  BY <1>3, <1>5, <1>7, <1>8, <1>9

\* However searches are joined, fail, are refused a place or cancelled, the shared
\* counter is that of the requests under way, and one that waits for a place
\* waits behind a request that will give it one; and whatever is found, stored
\* and evicted, the cache holds each key once, in one list of its size.
THEOREM TransportIsSound == Spec => []TransportSound
<1>1. Init => PoolInv /\ LruOk(lru)
  <2> SUFFICES ASSUME Init PROVE PoolInv /\ LruOk(lru)
    OBVIOUS
  <2>1. /\ DOMAIN remote = Fields /\ remote.pending = <<>> /\ remote.onDeck = {}
        /\ remote.pendingRequestsCount = 0
    BY DEF Init, EngineInit, RemoteInit, Fields
  <2>2. DOMAIN remote.pending = {}
    BY <2>1
  <2>3. LruOk(lru)
    BY EmptyLruOk DEF Init, EngineInit, LruInit
  <2> QED
    BY <2>1, <2>2, <2>3, FS_EmptySet, BloodhoundAssumption DEF PoolInv, Counted, HasWaker
<1>2. PoolInv /\ LruOk(lru) /\ [Next]_vars => PoolInv' /\ LruOk(lru)'
  BY PoolStep, LruStep
<1>3. PoolInv /\ LruOk(lru) => TransportSound
  <2>1. PoolInv => PendingRequestsCounted /\ OnDeckHasWaker
    BY DEF PoolInv, Counted, HasWaker, PendingRequestsCounted, OnDeckHasWaker
  <2> QED
    BY <2>1, LruOkIsSound DEF TransportSound
<1> QED
  BY <1>1, <1>2, <1>3, PTL DEF Spec
=============================================================================
