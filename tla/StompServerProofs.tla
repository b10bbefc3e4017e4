-------------------------- MODULE StompServerProofs ---------------------------
(***************************************************************************)
(* Theorems about StompServer, for any clients, channels and requests.     *)
(***************************************************************************)
EXTENDS StompServer, SequenceTheorems, TLAPS

-----------------------------------------------------------------------------
(* Sequences and their elements.                                             *)

LEMMA ElementsIn ==
    ASSUME NEW S, NEW s \in Seq(S)
    PROVE  ToSet(s) \subseteq S
  BY DEF ToSet

\* The elements of a sequence: its head and those of its tail,
LEMMA ElementsOfTail ==
    ASSUME NEW S, NEW s \in Seq(S), s # <<>>
    PROVE  /\ Head(s) \in S /\ Tail(s) \in Seq(S)
           /\ ToSet(s) = {Head(s)} \cup ToSet(Tail(s))
<1>1. /\ Head(s) \in S /\ Tail(s) \in Seq(S) /\ Len(Tail(s)) = Len(s) - 1
      /\ \A i \in 1..Len(Tail(s)) : Tail(s)[i] = s[i + 1]
  BY HeadTailProperties
<1>2. /\ Len(s) \in Nat \ {0} /\ DOMAIN s = 1..Len(s)
      /\ DOMAIN Tail(s) = 1..Len(Tail(s))
  BY <1>1, EmptySeq, LenProperties
<1>3. ASSUME NEW x \in ToSet(s) PROVE x \in {Head(s)} \cup ToSet(Tail(s))
  <2>1. PICK i \in 1..Len(s) : x = s[i]
    BY <1>2 DEF ToSet
  <2>2. CASE i = 1
    BY <2>1, <2>2
  <2>3. CASE i # 1
    <3>1. i - 1 \in 1..Len(Tail(s)) /\ x = Tail(s)[i - 1]
      BY <1>1, <1>2, <2>1, <2>3
    <3> QED
      BY <1>2, <3>1 DEF ToSet
  <2> QED
    BY <2>2, <2>3
<1>4. Head(s) \in ToSet(s)
  BY <1>2 DEF ToSet
<1>5. ASSUME NEW x \in ToSet(Tail(s)) PROVE x \in ToSet(s)
  <2>1. PICK i \in 1..Len(Tail(s)) : x = Tail(s)[i]
    BY <1>2 DEF ToSet
  <2>2. i + 1 \in 1..Len(s) /\ x = s[i + 1]
    BY <1>1, <1>2, <2>1
  <2> QED
    BY <1>2, <2>2 DEF ToSet
<1> QED
  BY <1>1, <1>3, <1>4, <1>5

\* those of two sequences joined,
LEMMA ElementsOfConcat ==
    ASSUME NEW S, NEW s \in Seq(S), NEW t \in Seq(S)
    PROVE  s \o t \in Seq(S) /\ ToSet(s \o t) = ToSet(s) \cup ToSet(t)
<1>1. /\ s \o t \in Seq(S) /\ Len(s \o t) = Len(s) + Len(t)
      /\ \A i \in 1..Len(s) + Len(t) :
           (s \o t)[i] = IF i <= Len(s) THEN s[i] ELSE t[i - Len(s)]
  BY ConcatProperties
<1>2. /\ Len(s) \in Nat /\ Len(t) \in Nat /\ DOMAIN s = 1..Len(s) /\ DOMAIN t = 1..Len(t)
      /\ DOMAIN (s \o t) = 1..Len(s \o t)
  BY <1>1, LenProperties
<1>3. ASSUME NEW x \in ToSet(s \o t) PROVE x \in ToSet(s) \cup ToSet(t)
  <2>1. PICK i \in 1..Len(s) + Len(t) : x = (s \o t)[i]
    BY <1>1, <1>2 DEF ToSet
  <2>2. CASE i <= Len(s)
    <3>1. i \in DOMAIN s /\ x = s[i]
      BY <1>1, <1>2, <2>1, <2>2
    <3> QED
      BY <3>1 DEF ToSet
  <2>3. CASE ~(i <= Len(s))
    <3>1. i - Len(s) \in DOMAIN t /\ x = t[i - Len(s)]
      BY <1>1, <1>2, <2>1, <2>3
    <3> QED
      BY <3>1 DEF ToSet
  <2> QED
    BY <2>2, <2>3
<1>4. ASSUME NEW x \in ToSet(s) PROVE x \in ToSet(s \o t)
  <2>1. PICK i \in 1..Len(s) : x = s[i]
    BY <1>2 DEF ToSet
  <2>2. i \in DOMAIN (s \o t) /\ (s \o t)[i] = x
    BY <1>1, <1>2, <2>1
  <2> QED
    BY <2>2 DEF ToSet
<1>5. ASSUME NEW x \in ToSet(t) PROVE x \in ToSet(s \o t)
  <2>1. PICK i \in 1..Len(t) : x = t[i]
    BY <1>2 DEF ToSet
  <2>2. i + Len(s) \in 1..Len(s) + Len(t) /\ ~(i + Len(s) <= Len(s))
        /\ (i + Len(s)) - Len(s) = i
    BY <1>2, <2>1
  <2>3. i + Len(s) \in DOMAIN (s \o t) /\ (s \o t)[i + Len(s)] = x
    BY <1>1, <1>2, <2>1, <2>2
  <2> QED
    BY <2>3 DEF ToSet
<1> QED
  BY <1>1, <1>3, <1>4, <1>5

\* those of none and of one,
LEMMA ElementsOfFew ==
    /\ ToSet(<<>>) = {}
    /\ \A x : ToSet(<<x>>) = {x}
  BY DEF ToSet

\* and those of one appended.
LEMMA ElementsOfAppend ==
    ASSUME NEW S, NEW s \in Seq(S), NEW e \in S
    PROVE  /\ Append(s, e) \in Seq(S) /\ Append(s, e) = s \o <<e>>
           /\ ToSet(Append(s, e)) = ToSet(s) \cup {e}
<1>1. Append(s, e) = s \o <<e>>
  BY AppendIsConcat
<1>2. <<e>> \in Seq(S) /\ ToSet(<<e>>) = {e}
  BY DEF ToSet
<1>3. s \o <<e>> \in Seq(S) /\ ToSet(s \o <<e>>) = ToSet(s) \cup ToSet(<<e>>)
  <2>1. PICK t : t = <<e>>
    OBVIOUS
  <2>2. t \in Seq(S)
    BY <1>2, <2>1
  <2>3. s \o t \in Seq(S) /\ ToSet(s \o t) = ToSet(s) \cup ToSet(t)
    BY <2>2, ElementsOfConcat
  <2> QED
    BY <2>1, <2>3, Zenon
<1>4. Append(s, e) \in Seq(S)
  OBVIOUS
<1>5. ToSet(s \o <<e>>) = ToSet(s) \cup {e}
  BY <1>2, <1>3, Zenon
<1> QED
  BY <1>1, <1>4, <1>5, Zenon

\* No element twice.
Distinct(s) == \A i, j \in DOMAIN s : s[i] = s[j] => i = j

\* A head taken off is not in the rest,
LEMMA DistinctTail ==
    ASSUME NEW S, NEW s \in Seq(S), s # <<>>, Distinct(s)
    PROVE  Distinct(Tail(s)) /\ Head(s) \notin ToSet(Tail(s))
<1>1. /\ Tail(s) \in Seq(S) /\ Len(Tail(s)) = Len(s) - 1
      /\ \A i \in 1..Len(Tail(s)) : Tail(s)[i] = s[i + 1]
  BY HeadTailProperties
<1>2. /\ Len(s) \in Nat \ {0} /\ DOMAIN s = 1..Len(s)
      /\ DOMAIN Tail(s) = 1..Len(Tail(s)) /\ Head(s) = s[1]
  BY <1>1, EmptySeq, LenProperties
<1>3. \A i \in DOMAIN Tail(s) : i + 1 \in DOMAIN s /\ Tail(s)[i] = s[i + 1] /\ i \in Nat
                                /\ i + 1 # 1
  BY <1>1, <1>2
<1>4. Distinct(Tail(s))
  <2> SUFFICES ASSUME NEW i \in DOMAIN Tail(s), NEW j \in DOMAIN Tail(s),
                      Tail(s)[i] = Tail(s)[j]
               PROVE  i = j
    BY DEF Distinct
  <2>1. i + 1 = j + 1
    BY <1>3 DEF Distinct
  <2> QED
    BY <1>3, <2>1
<1>5. Head(s) \notin ToSet(Tail(s))
  <2> SUFFICES ASSUME NEW i \in DOMAIN Tail(s), Tail(s)[i] = Head(s) PROVE FALSE
    BY DEF ToSet
  <2>1. 1 \in DOMAIN s
    BY <1>2
  <2> QED
    BY <1>2, <1>3, <2>1 DEF Distinct
<1> QED
  BY <1>4, <1>5

\* and one appended anew is not there twice.
LEMMA DistinctAppend ==
    ASSUME NEW S, NEW s \in Seq(S), NEW e \in S, Distinct(s), e \notin ToSet(s)
    PROVE  Distinct(Append(s, e))
<1>1. /\ Append(s, e) \in Seq(S) /\ Len(Append(s, e)) = Len(s) + 1
      /\ \A i \in 1..Len(s) : Append(s, e)[i] = s[i]
      /\ Append(s, e)[Len(s) + 1] = e
  BY AppendProperties
<1>2. /\ Len(s) \in Nat /\ DOMAIN s = 1..Len(s)
      /\ DOMAIN Append(s, e) = 1..Len(s) + 1
  BY <1>1, LenProperties
<1>3. \A i \in DOMAIN Append(s, e) :
        \/ i \in DOMAIN s /\ Append(s, e)[i] = s[i] /\ s[i] # e
        \/ i = Len(s) + 1 /\ Append(s, e)[i] = e
  BY <1>1, <1>2 DEF ToSet
<1> QED
  BY <1>3 DEF Distinct

\* ArrayList.remove on a list without duplicates.
LEMMA RemoveFacts ==
    ASSUME NEW S, NEW s \in Seq(S), NEW e, Distinct(s)
    PROVE  RemoveFirst(s, e) \in Seq(S) /\ Distinct(RemoveFirst(s, e))
<1>1. Len(s) \in Nat /\ DOMAIN s = 1..Len(s) /\ \A i \in 1..Len(s) : s[i] \in S
  BY LenProperties
<1>2. CASE \E i \in 1..Len(s) : s[i] = e
  <2>1. PICK k \in 1..Len(s) : s[k] = e
    BY <1>2
  <2>2. {i \in 1..Len(s) : s[i] = e} = {k}
    BY <1>1, <2>1 DEF Distinct
  <2>3. SelectInSeq(s, LAMBDA v : v = e) = k
    BY <2>1, <2>2 DEF SelectInSeq, Min
  <2>4. RemoveFirst(s, e) = SubSeq(s, 1, k - 1) \o SubSeq(s, k + 1, Len(s))
    BY <1>2, <2>3 DEF RemoveFirst, RemoveAt
  <2> DEFINE a == SubSeq(s, 1, k - 1)
             b == SubSeq(s, k + 1, Len(s))
  <2>5. /\ a \in Seq(S) /\ Len(a) = k - 1
        /\ \A i \in 1..k - 1 : a[i] = s[i]
    <3>1. /\ 1 \in Int /\ k - 1 \in Int /\ (k - 1) - 1 + 1 = k - 1
          /\ \A i \in 1..k - 1 : s[i] \in S /\ 1 + i - 1 = i
      BY <1>1, <2>1
    <3>2. /\ a \in Seq(S)
          /\ Len(a) = IF 1 <= k - 1 THEN (k - 1) - 1 + 1 ELSE 0
          /\ \A i \in 1..(k - 1) - 1 + 1 : a[i] = s[1 + i - 1]
      BY <3>1, SubSeqProperties
    <3> QED
      BY <2>1, <3>1, <3>2
  <2>6. /\ b \in Seq(S) /\ Len(b) = Len(s) - k
        /\ \A i \in 1..Len(s) - k : b[i] = s[i + k]
    <3>1. /\ k + 1 \in Int /\ Len(s) \in Int /\ Len(s) - (k + 1) + 1 = Len(s) - k
          /\ \A i \in (k + 1)..Len(s) : s[i] \in S
          /\ \A i \in 1..Len(s) - k : (k + 1) + i - 1 = i + k
      BY <1>1, <2>1
    <3>2. /\ b \in Seq(S)
          /\ Len(b) = IF k + 1 <= Len(s) THEN Len(s) - (k + 1) + 1 ELSE 0
          /\ \A i \in 1..Len(s) - (k + 1) + 1 : b[i] = s[(k + 1) + i - 1]
      BY <3>1, SubSeqProperties
    <3>3. Len(b) = Len(s) - k
      <4>1. CASE k + 1 <= Len(s)
        BY <3>1, <3>2, <4>1
      <4>2. CASE ~(k + 1 <= Len(s))
        <5>1. Len(b) = 0
          BY <3>2, <4>2
        <5>2. Len(s) - k = 0
          <6>1. Len(s) \in Int /\ k \in Int /\ k <= Len(s)
            BY <1>1
          <6> QED
            BY <4>2, <6>1
        <5> QED
          BY <5>1, <5>2
      <4> QED
        BY <4>1, <4>2
    <3>4. ASSUME NEW i \in 1..Len(s) - k PROVE b[i] = s[i + k]
      <4>1. i \in 1..Len(s) - (k + 1) + 1
        BY <3>1
      <4>2. b[i] = s[(k + 1) + i - 1]
        BY <3>2, <4>1
      <4> QED
        BY <3>1, <4>2
    <3> QED
      BY <3>2, <3>3, <3>4
  <2> HIDE DEF a, b
  <2>7. /\ a \o b \in Seq(S) /\ Len(a \o b) = Len(s) - 1
        /\ \A i \in 1..Len(s) - 1 : (a \o b)[i] = IF i < k THEN s[i] ELSE s[i + 1]
    <3>1. /\ a \o b \in Seq(S) /\ Len(a \o b) = Len(a) + Len(b)
          /\ \A i \in 1..Len(a) + Len(b) :
               (a \o b)[i] = IF i <= Len(a) THEN a[i] ELSE b[i - Len(a)]
      BY <2>5, <2>6, ConcatProperties
    <3>2. Len(a) + Len(b) = Len(s) - 1
      BY <1>1, <2>1, <2>5, <2>6
    <3>3. ASSUME NEW i \in 1..Len(s) - 1
          PROVE  (a \o b)[i] = IF i < k THEN s[i] ELSE s[i + 1]
      <4>1. CASE i < k
        BY <1>1, <2>1, <2>5, <3>1, <3>2, <4>1
      <4>2. CASE ~(i < k)
        <5>1. i - (k - 1) \in 1..Len(s) - k /\ (i - (k - 1)) + k = i + 1
          BY <1>1, <2>1, <4>2
        <5>2. (a \o b)[i] = b[i - (k - 1)]
          BY <1>1, <2>1, <2>5, <3>1, <3>2, <4>2
        <5> QED
          BY <2>6, <4>2, <5>1, <5>2
      <4> QED
        BY <4>1, <4>2
    <3> QED
      BY <3>1, <3>2, <3>3
  <2>8. DOMAIN (a \o b) = 1..Len(s) - 1
    BY <2>7, LenProperties
  <2>9. Distinct(a \o b)
    <3> SUFFICES ASSUME NEW i \in 1..Len(s) - 1, NEW j \in 1..Len(s) - 1,
                        (a \o b)[i] = (a \o b)[j]
                 PROVE  i = j
      BY <2>8 DEF Distinct
    <3> DEFINE at(n) == IF n < k THEN n ELSE n + 1
    <3>1. at(i) \in DOMAIN s /\ at(j) \in DOMAIN s
      BY <1>1, <2>1
    <3>2. s[at(i)] = s[at(j)]
      BY <2>7
    <3>3. at(i) = at(j)
      BY <3>1, <3>2 DEF Distinct
    <3> QED
      BY <1>1, <2>1, <3>3
  <2> QED
    BY <2>4, <2>7, <2>9 DEF a, b
<1>3. CASE ~\E i \in 1..Len(s) : s[i] = e
  BY <1>3 DEF RemoveFirst
<1> QED
  BY <1>2, <1>3

-----------------------------------------------------------------------------
(* The inductive invariant.                                                  *)

Commands == OfChannel \cup {"BEGIN", "COMMIT", "ABORT", "DISCONNECT"}
Closing == {"COMMIT", "COMMITTED", "ABORT"}

RequestsOf(c) ==
    {r \in [cmd : Commands \cup {"COMMITTED", "RECEIPT"}, ch : Channels \cup {None},
            id : {c} \X Nat] :
       r.cmd \in OfChannel => r.ch \in Channels}

Requests == UNION {RequestsOf(c) : c \in Clients}

Number(r) == r.id[2]

\* Of two requests a client's thread will receive one after the other: nothing
\* follows the end of a transaction, and only a receipt has the number of what it
\* answers.
Before(r, s) ==
    /\ r.cmd \notin Closing
    /\ Number(r) <= Number(s)
    /\ s.cmd # "RECEIPT" => Number(r) < Number(s)

Sorted(s) == \A i, j \in DOMAIN s : i < j => Before(s[i], s[j])

Domains ==
    /\ DOMAIN todo = Clients /\ DOMAIN trans = Clients /\ DOMAIN left = Clients
    /\ DOMAIN calls = Clients /\ DOMAIN receipts = Clients /\ DOMAIN socket = Clients
    /\ got \in [Clients -> Seq(Requests)] /\ aborted \subseteq Clients \X Nat
    /\ subs \in [Channels -> Seq(Clients)]
    /\ \A ch \in Channels : Distinct(subs[ch])

\* The requests of a client: what is queued in its transaction comes before what
\* its thread still has to receive.
Queue(c) ==
    /\ todo[c] \in Seq(RequestsOf(c)) /\ trans[c] \in Seq(RequestsOf(c))
    /\ calls[c] \in Nat
    /\ Sorted(todo[c]) /\ Sorted(trans[c])
    /\ \A s \in ToSet(todo[c]) : Number(s) <= calls[c]
    /\ \A r \in ToSet(trans[c]) :
         /\ r.cmd \notin Closing /\ Number(r) <= calls[c]
         /\ \A s \in ToSet(todo[c]) : Before(r, s)
    /\ trans[c] # <<>> => c \in open

\* While a COMMIT is replayed no transaction is open, save a nested one.
Replay(c) ==
    c \notin nested =>
        /\ \A r \in ToSet(trans[c]) : r.cmd # "BEGIN"
        /\ \A r \in ToSet(todo[c]) : r.cmd = "COMMITTED" =>
             c \notin open /\ \A s \in ToSet(todo[c]) : s.cmd # "BEGIN"

\* A thread that delivers has the monitor of _listeners and a SEND in hand.
Sending(c) ==
    /\ left[c] \in Seq(Clients) /\ Distinct(left[c])
    /\ left[c] # <<>> => /\ todo[c] # <<>> /\ First(c).cmd = "SEND"
                         /\ c \notin open /\ subLock = c

\* What has been received from a client was sent before all it still has to say,
\* but for the receipt of a message, and the message that is being delivered.
Passed(c) ==
    \A d \in Clients : \A g \in ToSet(got[d]) : g.id[1] = c =>
        /\ Number(g) <= calls[c]
        /\ \A r \in ToSet(trans[c]) : Number(g) < Number(r)
        /\ \A r \in ToSet(todo[c]) :
             \/ Number(g) < Number(r)
             \/ /\ Number(g) = Number(r) /\ c \notin open
                /\ \/ r.cmd = "RECEIPT"
                   \/ left[c] # <<>> /\ r = First(c) /\ d \notin ToSet(left[c])

\* What was aborted was asked for before all that is still to be received.
Gone(c) ==
    \A a \in aborted : a[1] = c =>
        /\ a[2] <= calls[c]
        /\ \A r \in ToSet(todo[c]) \cup ToSet(trans[c]) : a[2] < Number(r)

\* A transaction whose receipt has come is over.
Confirmed(c) ==
    c \in Local \ nested => \A a \in receipts[c] : a.cmd = "COMMITTED" =>
        /\ Number(a) \in Nat /\ Number(a) <= calls[c]
        /\ \A r \in ToSet(todo[c]) \cup ToSet(trans[c]) : Number(a) < Number(r)

NoneAborted == \A d \in Clients : Ids(got[d]) \cap aborted = {}

ServerInv ==
    /\ Domains
    /\ \A c \in Clients : Queue(c) /\ Replay(c) /\ Sending(c)
    /\ \A c \in Clients : Passed(c) /\ Gone(c) /\ Confirmed(c)
    /\ NoneAborted
    /\ InOrderOnce
    /\ DeliveredToSubscribers

-----------------------------------------------------------------------------
(* Sorted sequences.                                                         *)

LEMMA SortedTail ==
    ASSUME NEW S, NEW s \in Seq(S), s # <<>>, Sorted(s)
    PROVE  Sorted(Tail(s)) /\ \A x \in ToSet(Tail(s)) : Before(Head(s), x)
<1>1. /\ Tail(s) \in Seq(S) /\ Len(Tail(s)) = Len(s) - 1
      /\ \A i \in 1..Len(Tail(s)) : Tail(s)[i] = s[i + 1]
  BY HeadTailProperties
<1>2. /\ Len(s) \in Nat \ {0} /\ DOMAIN s = 1..Len(s)
      /\ DOMAIN Tail(s) = 1..Len(Tail(s)) /\ Head(s) = s[1]
  BY <1>1, EmptySeq, LenProperties
<1>3. \A i \in DOMAIN Tail(s) : i + 1 \in DOMAIN s /\ Tail(s)[i] = s[i + 1] /\ i \in Nat
                                /\ 1 < i + 1 /\ 1 \in DOMAIN s
  BY <1>1, <1>2
<1>4. Sorted(Tail(s))
  <2> SUFFICES ASSUME NEW i \in DOMAIN Tail(s), NEW j \in DOMAIN Tail(s), i < j
               PROVE  Before(Tail(s)[i], Tail(s)[j])
    BY DEF Sorted
  <2>1. i + 1 < j + 1
    BY <1>3
  <2> QED
    BY <1>3, <2>1 DEF Sorted
<1>5. \A x \in ToSet(Tail(s)) : Before(Head(s), x)
  <2> SUFFICES ASSUME NEW i \in DOMAIN Tail(s) PROVE Before(Head(s), Tail(s)[i])
    BY DEF ToSet
  <2> QED
    BY <1>2, <1>3 DEF Sorted
<1> QED
  BY <1>4, <1>5

\* Two sorted sequences, the one before the other, are sorted.
LEMMA SortedConcat ==
    ASSUME NEW S, NEW s \in Seq(S), NEW t \in Seq(S), Sorted(s), Sorted(t),
           \A x \in ToSet(s) : \A y \in ToSet(t) : Before(x, y)
    PROVE  Sorted(s \o t)
<1>1. /\ s \o t \in Seq(S) /\ Len(s \o t) = Len(s) + Len(t)
      /\ \A i \in 1..Len(s) + Len(t) :
           (s \o t)[i] = IF i <= Len(s) THEN s[i] ELSE t[i - Len(s)]
  BY ConcatProperties
<1>2. /\ Len(s) \in Nat /\ Len(t) \in Nat /\ DOMAIN s = 1..Len(s) /\ DOMAIN t = 1..Len(t)
      /\ DOMAIN (s \o t) = 1..Len(s) + Len(t)
  BY <1>1, LenProperties
<1> SUFFICES ASSUME NEW i \in 1..Len(s) + Len(t), NEW j \in 1..Len(s) + Len(t), i < j
             PROVE  Before((s \o t)[i], (s \o t)[j])
  BY <1>2 DEF Sorted
<1>3. CASE j <= Len(s)
  <2>1. i \in DOMAIN s /\ j \in DOMAIN s /\ (s \o t)[i] = s[i] /\ (s \o t)[j] = s[j]
    BY <1>1, <1>2, <1>3
  <2> QED
    BY <2>1 DEF Sorted
<1>4. CASE i <= Len(s) /\ ~(j <= Len(s))
  <2>1. i \in DOMAIN s /\ (s \o t)[i] = s[i]
    BY <1>1, <1>2, <1>4
  <2>2. j - Len(s) \in DOMAIN t /\ (s \o t)[j] = t[j - Len(s)]
    BY <1>1, <1>2, <1>4
  <2> QED
    BY <2>1, <2>2 DEF ToSet
<1>5. CASE ~(i <= Len(s))
  <2>1. i - Len(s) \in DOMAIN t /\ (s \o t)[i] = t[i - Len(s)]
    BY <1>1, <1>2, <1>5
  <2>2. j - Len(s) \in DOMAIN t /\ (s \o t)[j] = t[j - Len(s)]
        /\ i - Len(s) < j - Len(s)
    BY <1>1, <1>2, <1>5
  <2> QED
    BY <2>1, <2>2 DEF Sorted
<1> QED
  BY <1>2, <1>3, <1>4, <1>5

\* None and one are sorted.
LEMMA SortedFew ==
    ASSUME NEW S, NEW x \in S
    PROVE  /\ <<>> \in Seq(S) /\ Sorted(<<>>)
           /\ <<x>> \in Seq(S) /\ Sorted(<<x>>) /\ ToSet(<<x>>) = {x}
  BY DEF Sorted, ToSet

-----------------------------------------------------------------------------
(* What the parts of a step have in common.                                  *)

LEMMA CallFacts ==
    ASSUME NEW c, Calls(c)
    PROVE  todo[c] = <<>> /\ calls' = [calls EXCEPT ![c] = @ + 1]
  BY DEF Calls, Idle

\* A client the step is not of.
Same(e) ==
    /\ UNCHANGED <<todo[e], trans[e], left[e], calls[e], receipts[e]>>
    /\ e \in open' <=> e \in open
    /\ e \in nested' <=> e \in nested

OthersSame(c) == \A e \in Clients \ {c} : Same(e)

Mine(c) ==
    /\ Queue(c) /\ Replay(c) /\ Sending(c)
    /\ Passed(c) /\ Gone(c) /\ Confirmed(c)

\* What a client does leaves the requests of another.
LEMMA OtherKept ==
    ASSUME ServerInv, NEW c \in Clients, NEW e \in Clients \ {c}, Same(e),
           left[e] # <<>> => subLock' = subLock,
           \A d \in Clients : \A g \in ToSet(got'[d]) : g \in ToSet(got[d]) \/ g.id[1] = c,
           \A a \in aborted' : a \in aborted \/ a[1] = c
    PROVE  Mine(e)'
<1>1. Mine(e)
  BY DEF ServerInv, Mine
<1>2. Queue(e)' /\ Replay(e)'
  BY <1>1 DEF Mine, Queue, Replay, Same, Sorted, Before, Number
<1>3. Sending(e)'
  BY <1>1 DEF Mine, Sending, Same, First, Distinct
<1>4. Passed(e)'
  <2> SUFFICES ASSUME NEW d \in Clients, NEW g \in ToSet(got'[d]), g.id[1] = e
               PROVE  /\ Number(g) <= calls[e]
                      /\ \A r \in ToSet(trans[e]) : Number(g) < Number(r)
                      /\ \A r \in ToSet(todo[e]) :
                           \/ Number(g) < Number(r)
                           \/ /\ Number(g) = Number(r) /\ e \notin open
                              /\ \/ r.cmd = "RECEIPT"
                                 \/ left[e] # <<>> /\ r = First(e) /\ d \notin ToSet(left[e])
    BY DEF Passed, Same, First, Number
  <2>1. g \in ToSet(got[d])
    OBVIOUS
  <2> QED
    BY <1>1, <2>1 DEF Mine, Passed
<1>5. Gone(e)'
  BY <1>1 DEF Mine, Gone, Same, Number
<1>6. Confirmed(e)'
  BY <1>1 DEF Mine, Confirmed, Same, Number
<1> QED
  BY <1>2, <1>3, <1>4, <1>5, <1>6 DEF Mine

\* The message that is delivered has a channel.
LEMMA SendFacts ==
    ASSUME ServerInv, NEW c \in Clients, left[c] # <<>>
    PROVE  /\ First(c) \in RequestsOf(c) /\ First(c).cmd = "SEND"
           /\ First(c).ch \in Channels /\ ToSet(subs[First(c).ch]) \subseteq Clients
<1>1. /\ todo[c] \in Seq(RequestsOf(c)) /\ todo[c] # <<>> /\ First(c).cmd = "SEND"
  BY DEF ServerInv, Queue, Sending
<1>2. First(c) \in RequestsOf(c)
  BY <1>1, ElementsOfTail DEF First
<1>3. First(c).ch \in Channels
  BY <1>1, <1>2 DEF RequestsOf, OfChannel
<1>4. subs[First(c).ch] \in Seq(Clients)
  BY <1>3 DEF ServerInv, Domains
<1> QED
  BY <1>1, <1>2, <1>3, <1>4, ElementsIn

\* A step that delivers nothing, aborts nothing and subscribes nobody.
LEMMA QuietStep ==
    ASSUME ServerInv, NEW c \in Clients, OthersSame(c), Domains', Mine(c)',
           UNCHANGED <<got, aborted, subs, left, subLock>>,
           \A d \in Clients : socket'[d] \in Attached => socket[d] \in Attached,
           left[c] # <<>> => todo'[c] = todo[c]
    PROVE  ServerInv'
<1>1. \A e \in Clients : Mine(e)'
  BY OtherKept DEF OthersSame
<1>2. NoneAborted' /\ InOrderOnce'
  BY DEF ServerInv, NoneAborted, InOrderOnce, Ids
<1>3. DeliveredToSubscribers'
  <2> SUFFICES ASSUME NEW e \in Clients, left[e] # <<>>
               PROVE  /\ ToSet(left[e]) \subseteq ToSet(subs[First(e)'.ch])
                      /\ \A d \in ToSet(subs[First(e)'.ch]) \ ToSet(left[e]) :
                           socket'[d] \in Attached => First(e)'.id \in Ids(got[d])
    BY DEF DeliveredToSubscribers, Ids
  <2>1. First(e)' = First(e)
    BY DEF OthersSame, Same, First
  <2>2. /\ ToSet(left[e]) \subseteq ToSet(subs[First(e).ch])
        /\ \A d \in ToSet(subs[First(e).ch]) \ ToSet(left[e]) :
             socket[d] \in Attached => First(e).id \in Ids(got[d])
    BY DEF ServerInv, DeliveredToSubscribers
  <2>3. ASSUME NEW d \in ToSet(subs[First(e).ch]) \ ToSet(left[e]), socket'[d] \in Attached
        PROVE  socket[d] \in Attached
    <3>1. d \in Clients
      BY SendFacts
    <3> QED
      BY <2>3, <3>1
  <2> QED
    BY <2>1, <2>2, <2>3
<1> QED
  BY <1>1, <1>2, <1>3 DEF ServerInv, Mine

\* Answering leaves the rest of what is to be received, after the receipt that
\* goes back through the handler of a network client.
LEMMA AnswerFacts ==
    ASSUME ServerInv, NEW c \in Clients, todo[c] # <<>>, Answer(c)
    PROVE  /\ DOMAIN todo' = Clients /\ DOMAIN receipts' = Clients
           /\ \A e \in Clients \ {c} : todo'[e] = todo[e] /\ receipts'[e] = receipts[e]
           /\ First(c) \in RequestsOf(c) /\ First(c) \in ToSet(todo[c])
           /\ todo'[c] \in Seq(RequestsOf(c)) /\ Sorted(todo'[c])
           /\ \A s \in ToSet(todo'[c]) :
                \/ s \in ToSet(todo[c]) /\ Before(First(c), s)
                \/ c \in Remote /\ s.cmd = "RECEIPT" /\ Number(s) = Number(First(c))
           /\ \A a \in receipts'[c] : a \in receipts[c] \/ a = First(c)
<1>1. todo[c] \in Seq(RequestsOf(c)) /\ Sorted(todo[c])
  BY DEF ServerInv, Queue
<1>2. /\ First(c) \in RequestsOf(c) /\ Tail(todo[c]) \in Seq(RequestsOf(c))
      /\ ToSet(todo[c]) = {First(c)} \cup ToSet(Tail(todo[c]))
  BY <1>1, ElementsOfTail DEF First
<1>3. /\ Sorted(Tail(todo[c]))
      /\ \A x \in ToSet(Tail(todo[c])) : Before(First(c), x)
  BY <1>1, SortedTail DEF First
<1>4. DOMAIN todo = Clients /\ DOMAIN receipts = Clients
  BY DEF ServerInv, Domains
<1> DEFINE R == [First(c) EXCEPT !.cmd = "RECEIPT"]
           A == IF c \in Remote /\ First(c).cmd # "RECEIPT" THEN <<R>> ELSE <<>>
<1>5. todo' = [todo EXCEPT ![c] = A \o Tail(todo[c])]
  BY <1>4 DEF Answer
<1>6. todo'[c] = A \o Tail(todo[c]) /\ DOMAIN todo' = Clients
      /\ \A e \in Clients \ {c} : todo'[e] = todo[e]
  BY <1>4, <1>5
<1>7. /\ DOMAIN receipts' = Clients
      /\ \A e \in Clients \ {c} : receipts'[e] = receipts[e]
      /\ \A a \in receipts'[c] : a \in receipts[c] \/ a = First(c)
  BY <1>4 DEF Answer
<1>8. R \in RequestsOf(c) /\ R.cmd = "RECEIPT" /\ Number(R) = Number(First(c))
  BY <1>2 DEF RequestsOf, Number, OfChannel
<1> HIDE DEF R
<1>9. CASE c \in Remote /\ First(c).cmd # "RECEIPT"
  <2>1. /\ <<R>> \in Seq(RequestsOf(c)) /\ Sorted(<<R>>) /\ ToSet(<<R>>) = {R}
    BY <1>8, SortedFew
  <2>2. \A y \in ToSet(Tail(todo[c])) : Before(R, y)
    BY <1>3, <1>8 DEF Before, Closing
  <2>3. todo'[c] = <<R>> \o Tail(todo[c])
    BY <1>6, <1>9
  <2> DEFINE answer == <<R>>
             rest == Tail(todo[c])
  <2> HIDE DEF answer, rest
  <2>4. answer \in Seq(RequestsOf(c)) /\ rest \in Seq(RequestsOf(c))
        /\ Sorted(answer) /\ Sorted(rest) /\ ToSet(answer) = {R}
        /\ \A y \in ToSet(rest) : Before(R, y)
    BY <1>2, <1>3, <2>1, <2>2 DEF answer, rest
  <2>5. /\ answer \o rest \in Seq(RequestsOf(c))
        /\ ToSet(answer \o rest) = ToSet(answer) \cup ToSet(rest)
    BY <2>4, ElementsOfConcat
  <2>6. Sorted(answer \o rest)
    BY <2>4, SortedConcat
  <2>7. /\ todo'[c] \in Seq(RequestsOf(c)) /\ Sorted(todo'[c])
        /\ ToSet(todo'[c]) = {R} \cup ToSet(Tail(todo[c]))
    BY <2>3, <2>4, <2>5, <2>6 DEF answer, rest
  <2> QED
    BY <1>2, <1>3, <1>6, <1>7, <1>8, <1>9, <2>7
<1>10. CASE ~(c \in Remote /\ First(c).cmd # "RECEIPT")
  <2>1. todo'[c] = Tail(todo[c])
    BY <1>2, <1>6, <1>10, ConcatEmptySeq
  <2> QED
    BY <1>2, <1>3, <1>6, <1>7, <2>1
<1> QED
  BY <1>9, <1>10

\* Requests have numbers.
LEMMA NumberNat ==
    ASSUME NEW c \in Clients, NEW r \in RequestsOf(c)
    PROVE  /\ Number(r) \in Nat /\ r.id[1] = c /\ r.id = <<c, Number(r)>>
           /\ r \in Requests /\ r.id \in Clients \X Nat
  BY DEF RequestsOf, Requests, Number

\* Once a client's request is answered, all is as before with what is left.
LEMMA AnswerMine ==
    ASSUME ServerInv, NEW c \in Clients, todo[c] # <<>>, Answer(c), UNCHANGED calls,
           c \in nested' <=> c \in nested,
           left[c] # <<>> => First(c).cmd = "SEND", left'[c] = <<>>,
           trans'[c] = trans[c] \/ trans'[c] = <<>>, trans'[c] # <<>> => c \in open',
           c \in open' => c \in open \/ First(c).cmd = "BEGIN",
           \A d \in Clients : \A g \in ToSet(got'[d]) :
             g \in ToSet(got[d]) \/ (g = First(c) /\ First(c).cmd = "SEND" /\ c \notin open),
           \A a \in aborted' : \/ a \in aborted
                               \/ /\ trans'[c] = <<>> /\ First(c).cmd = "ABORT"
                                  /\ \E r \in ToSet(trans[c]) : a = r.id
    PROVE  Mine(c)'
<1>0. Queue(c) /\ Replay(c) /\ Passed(c) /\ Gone(c) /\ Confirmed(c)
  BY DEF ServerInv
<1> DEFINE f == First(c)
<1>1. /\ f \in RequestsOf(c) /\ f \in ToSet(todo[c])
      /\ todo'[c] \in Seq(RequestsOf(c)) /\ Sorted(todo'[c])
      /\ \A s \in ToSet(todo'[c]) :
           \/ s \in ToSet(todo[c]) /\ Before(f, s)
           \/ c \in Remote /\ s.cmd = "RECEIPT" /\ Number(s) = Number(f)
      /\ \A a \in receipts'[c] : a \in receipts[c] \/ a = f
  BY AnswerFacts
<1>2. /\ todo[c] \in Seq(RequestsOf(c)) /\ trans[c] \in Seq(RequestsOf(c)) /\ calls[c] \in Nat
      /\ \A s \in ToSet(todo[c]) : Number(s) <= calls[c]
      /\ \A r \in ToSet(trans[c]) : Before(r, f) /\ Number(r) <= calls[c] /\ r.cmd \notin Closing
  BY <1>0, <1>1 DEF Queue
<1>3. /\ \A s \in ToSet(todo[c]) : s \in RequestsOf(c)
      /\ \A s \in ToSet(todo'[c]) : s \in RequestsOf(c)
      /\ \A r \in ToSet(trans[c]) : r \in RequestsOf(c)
      /\ ToSet(trans'[c]) \subseteq ToSet(trans[c])
  BY <1>1, <1>2, ElementsIn, ElementsOfFew
<1>4. /\ \A s \in ToSet(todo[c]) : Number(s) \in Nat
      /\ \A s \in ToSet(todo'[c]) : Number(s) \in Nat
      /\ \A r \in ToSet(trans[c]) : Number(r) \in Nat
      /\ Number(f) \in Nat /\ Number(f) <= calls[c] /\ f.id[1] = c
  BY <1>1, <1>2, <1>3, NumberNat
<1>5. \A s \in ToSet(todo'[c]) : /\ Number(f) <= Number(s)
                                 /\ s.cmd # "RECEIPT" => Number(f) < Number(s)
                                 /\ Number(s) <= calls[c]
  BY <1>1, <1>2, <1>4 DEF Before
<1> HIDE DEF f
<1>6. Queue(c)'
  <2>1. trans'[c] \in Seq(RequestsOf(c)) /\ Sorted(trans'[c])
    BY <1>0, <1>1, SortedFew DEF Queue
  <2>2. ASSUME NEW r \in ToSet(trans'[c]), NEW s \in ToSet(todo'[c]) PROVE Before(r, s)
    BY <1>2, <1>3, <1>4, <1>5, <2>2 DEF Before
  <2> QED
    BY <1>1, <1>2, <1>3, <1>5, <2>1, <2>2 DEF Queue, Number, Before, Sorted
<1>7. Replay(c)'
  <2> SUFFICES ASSUME c \notin nested
               PROVE  /\ \A r \in ToSet(trans'[c]) : r.cmd # "BEGIN"
                      /\ \A r \in ToSet(todo'[c]) : r.cmd = "COMMITTED" =>
                           c \notin open' /\ \A s \in ToSet(todo'[c]) : s.cmd # "BEGIN"
    BY DEF Replay
  <2>1. \A s \in ToSet(todo'[c]) : s \in ToSet(todo[c]) \/ s.cmd = "RECEIPT"
    BY <1>1
  <2> QED
    BY <1>0, <1>1, <1>3, <2>1 DEF Replay, f
<1>8. Sending(c)'
  BY SortedFew, EmptySeq DEF Sending, Distinct
<1>9. Passed(c)'
  <2> SUFFICES ASSUME NEW d \in Clients, NEW g \in ToSet(got'[d]), g.id[1] = c
               PROVE  /\ Number(g) <= calls[c]
                      /\ \A r \in ToSet(trans'[c]) : Number(g) < Number(r)
                      /\ \A r \in ToSet(todo'[c]) :
                           \/ Number(g) < Number(r)
                           \/ Number(g) = Number(r) /\ c \notin open' /\ r.cmd = "RECEIPT"
    BY DEF Passed, Number
  <2>1. CASE g = f /\ f.cmd = "SEND" /\ c \notin open
    <3>1. trans[c] = <<>> /\ c \notin open'
      BY <1>0, <2>1 DEF Queue, f
    <3> QED
      BY <1>3, <1>4, <1>5, <2>1, <3>1, ElementsOfFew
  <2>2. CASE g \in ToSet(got[d])
    <3>1. /\ Number(g) <= calls[c]
          /\ \A r \in ToSet(trans[c]) : Number(g) < Number(r)
          /\ \/ Number(g) < Number(f)
             \/ /\ Number(g) = Number(f) /\ c \notin open
                /\ f.cmd = "RECEIPT" \/ f.cmd = "SEND"
          /\ \A r \in ToSet(todo[c]) : Number(g) < Number(r)
                                       \/ (Number(g) = Number(r) /\ c \notin open)
      BY <1>0, <1>1, <2>2 DEF Passed, f
    <3>2. Number(g) \in Nat
      <4>1. got[d] \in Seq(Requests)
        BY DEF ServerInv, Domains
      <4> QED
        BY <2>2, <4>1, ElementsIn, NumberNat DEF Requests
    <3>3. Number(g) <= Number(f) /\ (c \in open' => Number(g) < Number(f))
      BY <1>4, <3>1, <3>2 DEF f
    <3> QED
      BY <1>3, <1>4, <1>5, <3>1, <3>2, <3>3
  <2> QED
    BY <2>1, <2>2 DEF f
<1>10. Gone(c)'
  <2> SUFFICES ASSUME NEW a \in aborted', a[1] = c
               PROVE  /\ a[2] <= calls[c]
                      /\ \A r \in ToSet(todo'[c]) \cup ToSet(trans'[c]) : a[2] < Number(r)
    BY DEF Gone, Number
  <2>1. CASE a \in aborted
    <3>1. a[2] <= calls[c] /\ a[2] < Number(f) /\ a[2] \in Nat
          /\ \A r \in ToSet(trans[c]) : a[2] < Number(r)
      BY <1>0, <1>1, <2>1 DEF Gone, ServerInv, Domains
    <3> QED
      BY <1>3, <1>4, <1>5, <3>1
  <2>2. CASE trans'[c] = <<>> /\ f.cmd = "ABORT" /\ \E r \in ToSet(trans[c]) : a = r.id
    <3>1. PICK r \in ToSet(trans[c]) : a = r.id
      BY <2>2
    <3>2. a[2] = Number(r) /\ Number(r) <= Number(f) /\ Number(r) \in Nat
          /\ Number(r) <= calls[c] /\ Number(r) < Number(f)
      BY <1>2, <1>4, <2>2, <3>1 DEF Before, Number
    <3>3. ToSet(trans'[c]) = {}
      BY <2>2, ElementsOfFew
    <3> QED
      BY <1>4, <1>5, <3>2, <3>3
  <2> QED
    BY <2>1, <2>2 DEF f
<1>11. Confirmed(c)'
  <2> SUFFICES ASSUME c \in Local, c \notin nested, NEW a \in receipts'[c], a.cmd = "COMMITTED"
               PROVE  /\ Number(a) \in Nat /\ Number(a) <= calls[c]
                      /\ \A r \in ToSet(todo'[c]) \cup ToSet(trans'[c]) : Number(a) < Number(r)
    BY DEF Confirmed, Number
  <2>1. CASE a \in receipts[c]
    <3>1. /\ Number(a) \in Nat /\ Number(a) <= calls[c] /\ Number(a) < Number(f)
          /\ \A r \in ToSet(trans[c]) : Number(a) < Number(r)
      BY <1>0, <1>1, <2>1 DEF Confirmed
    <3> QED
      BY <1>3, <1>4, <1>5, <3>1
  <2>2. CASE a = f
    <3>1. ToSet(todo'[c]) = {}
      <4> SUFFICES ASSUME NEW s \in ToSet(todo'[c]) PROVE FALSE
        OBVIOUS
      <4>1. c \notin Remote
        BY ServerAssumption
      <4>2. ~Before(f, s)
        BY <2>2 DEF Before, Closing
      <4> QED
        BY <1>1, <4>1, <4>2
    <3>2. c \notin open
      BY <1>0, <1>1, <2>2 DEF Replay
    <3>3. ToSet(trans'[c]) = {}
      BY <1>0, <3>2, ElementsOfFew DEF Queue
    <3> QED
      BY <1>4, <2>2, <3>1, <3>3
  <2> QED
    BY <1>1, <2>1, <2>2
<1> QED
  BY <1>6, <1>7, <1>8, <1>9, <1>10, <1>11 DEF Mine

-----------------------------------------------------------------------------
(* The steps.                                                                *)

LEMMA ServerInit == Init => ServerInv
<1> SUFFICES ASSUME Init PROVE ServerInv
  OBVIOUS
<1>1. Domains
  BY DEF Init, Domains, Distinct
<1>2. ASSUME NEW c \in Clients PROVE Queue(c) /\ Replay(c) /\ Sending(c)
  <2>1. /\ todo[c] = <<>> /\ trans[c] = <<>> /\ left[c] = <<>> /\ calls[c] = 0
    BY <1>2 DEF Init
  <2> QED
    BY <2>1, ElementsOfFew, SortedFew DEF Queue, Replay, Sending, Distinct, Sorted
<1>3. ASSUME NEW c \in Clients PROVE Passed(c) /\ Gone(c) /\ Confirmed(c)
  BY ElementsOfFew DEF Init, Passed, Gone, Confirmed
<1>4. NoneAborted /\ InOrderOnce /\ DeliveredToSubscribers
  BY DEF Init, NoneAborted, InOrderOnce, DeliveredToSubscribers
<1> QED
  BY <1>1, <1>2, <1>3, <1>4 DEF ServerInv

\* A client asks for something, or for nothing the server hears of.
LEMMA CallMine ==
    ASSUME ServerInv, NEW c \in Clients, Calls(c),
           UNCHANGED <<open, trans, left, nested, receipts, aborted, got, subLock>>,
           todo'[c] \in Seq(RequestsOf(c)), Sorted(todo'[c]),
           \A r \in ToSet(todo'[c]) : r.cmd \in Commands /\ Number(r) = calls[c] + 1
    PROVE  Mine(c)'
<1>1. /\ todo[c] = <<>> /\ calls'[c] = calls[c] + 1
  BY CallFacts DEF ServerInv, Domains
<1>2. /\ Queue(c) /\ Replay(c) /\ Passed(c) /\ Gone(c) /\ Confirmed(c) /\ left[c] = <<>>
      /\ Sending(c)
  BY <1>1 DEF ServerInv, Sending
<1>3. /\ trans[c] \in Seq(RequestsOf(c)) /\ calls[c] \in Nat
      /\ \A r \in ToSet(trans[c]) : Number(r) \in Nat /\ Number(r) <= calls[c]
                                    /\ r.cmd \notin Closing
  BY <1>2, ElementsIn, NumberNat DEF Queue
<1>4. Queue(c)'
  <2>1. \A r \in ToSet(trans[c]) : \A s \in ToSet(todo'[c]) : Before(r, s)
    BY <1>3 DEF Before
  <2> QED
    BY <1>1, <1>2, <1>3, <2>1 DEF Queue, Number, Before, Sorted
<1>5. Replay(c)'
  BY <1>2 DEF Replay, Commands, OfChannel
<1>6. Sending(c)'
  BY <1>2 DEF Sending
<1>7. Passed(c)'
  <2> SUFFICES ASSUME NEW d \in Clients, NEW g \in ToSet(got[d]), g.id[1] = c
               PROVE  /\ Number(g) <= calls'[c]
                      /\ \A r \in ToSet(trans[c]) : Number(g) < Number(r)
                      /\ \A r \in ToSet(todo'[c]) : Number(g) < Number(r)
    BY DEF Passed, Number
  <2>1. Number(g) \in Nat
    <3>1. got[d] \in Seq(Requests)
      BY DEF ServerInv, Domains
    <3> QED
      BY <3>1, ElementsIn, NumberNat DEF Requests
  <2> QED
    BY <1>1, <1>2, <1>3, <2>1 DEF Passed
<1>8. Gone(c)'
  <2> SUFFICES ASSUME NEW a \in aborted, a[1] = c
               PROVE  /\ a[2] <= calls'[c]
                      /\ \A r \in ToSet(todo'[c]) \cup ToSet(trans[c]) : a[2] < Number(r)
    BY DEF Gone, Number
  <2>1. a[2] \in Nat
    BY DEF ServerInv, Domains
  <2> QED
    BY <1>1, <1>2, <1>3, <2>1 DEF Gone
<1>9. Confirmed(c)'
  BY <1>1, <1>2, <1>3 DEF Confirmed, Number
<1> QED
  BY <1>4, <1>5, <1>6, <1>7, <1>8, <1>9 DEF Mine

\* A request is numbered next.
LEMMA RequestFacts ==
    ASSUME ServerInv, NEW c \in Clients, NEW q \in May[c]
    PROVE  /\ Request(c, q[1], q[2]) \in RequestsOf(c)
           /\ Request(c, q[1], q[2]).cmd \in Commands
           /\ Number(Request(c, q[1], q[2])) = calls[c] + 1
<1>1. \/ q[1] \in OfChannel /\ q[2] \in Channels
      \/ q[1] \in {"BEGIN", "COMMIT", "ABORT", "DISCONNECT"} /\ q[2] = None
  BY MayAssumption
<1>2. calls[c] + 1 \in Nat
  BY DEF ServerInv, Queue
<1>3. <<c, calls[c] + 1>> \in {c} \X Nat
  BY <1>2
<1> QED
  BY <1>1, <1>3 DEF Request, RequestsOf, Commands, OfChannel, Number

\* A call of a client,
LEMMA CallStep ==
    ASSUME ServerInv, NEW c \in Clients, NEW q \in May[c],
           \/ LocalCall(c, q[1], q[2]) \/ RemoteFrame(c, q[1], q[2])
           \/ Unlisten(c, q[2]) /\ q[1] = "UNSUBSCRIBE"
    PROVE  ServerInv'
<1> DEFINE r == Request(c, q[1], q[2])
<1>1. /\ Calls(c) /\ todo' = [todo EXCEPT ![c] = <<r>>]
      /\ UNCHANGED <<open, trans, left, nested, receipts, aborted, got, subs, subLock, socket>>
  BY DEF LocalCall, RemoteFrame, Unlisten, serverVars, seenVars
<1>2. r \in RequestsOf(c) /\ r.cmd \in Commands /\ Number(r) = calls[c] + 1
  BY RequestFacts
<1>3. /\ todo[c] = <<>> /\ calls' = [calls EXCEPT ![c] = @ + 1]
  BY <1>1, CallFacts
<1> HIDE DEF r
<1>4. todo'[c] = <<r>> /\ DOMAIN todo' = Clients /\ DOMAIN calls' = Clients
      /\ OthersSame(c)
  BY <1>1, <1>3 DEF ServerInv, Domains, OthersSame, Same
<1>5. <<r>> \in Seq(RequestsOf(c)) /\ Sorted(<<r>>) /\ ToSet(<<r>>) = {r}
  BY <1>2, SortedFew
<1>6. Mine(c)'
  BY <1>1, <1>2, <1>4, <1>5, CallMine
<1>7. Domains'
  BY <1>1, <1>4 DEF ServerInv, Domains
<1>8. left[c] = <<>>
  BY <1>3 DEF ServerInv, Sending
<1> QED
  BY <1>1, <1>4, <1>6, <1>7, <1>8, QuietStep

\* a connection made, closed or lost,
LEMMA ConnectionStep ==
    ASSUME ServerInv, NEW c \in Clients,
           Connection(c)
    PROVE  ServerInv'
<1>1. /\ UNCHANGED <<todo, open, trans, left, nested, receipts, aborted, got, subs, subLock>>
      /\ \/ socket' = socket
         \/ \E x \in {"closed", "lost"} : socket' = [socket EXCEPT ![c] = x]
         \/ /\ socket[c] \in Attached
            /\ \E x \in Attached : socket' = [socket EXCEPT ![c] = x]
      /\ calls' = calls \/ Calls(c)
  BY DEF Connection, Login, RemoteDisconnect, LoseClient, StopReading, ReadAgain, Attached,
         serverVars, seenVars
<1>2. /\ DOMAIN socket' = Clients
      /\ \A d \in Clients : socket'[d] \in Attached => socket[d] \in Attached
  BY <1>1 DEF ServerInv, Domains, Attached
<1>3. OthersSame(c) /\ DOMAIN calls' = Clients
  BY <1>1, CallFacts DEF ServerInv, Domains, OthersSame, Same
<1>4. Domains'
  BY <1>1, <1>2, <1>3 DEF ServerInv, Domains
<1>5. Mine(c)'
  <2>1. CASE calls' = calls
    <3>1. Queue(c) /\ Replay(c) /\ Sending(c) /\ Passed(c) /\ Gone(c) /\ Confirmed(c)
      BY DEF ServerInv
    <3>2. Queue(c)' /\ Replay(c)' /\ Sending(c)'
      BY <1>1, <2>1, <3>1 DEF Queue, Replay, Sending, First, Number, Before, Sorted, Distinct
    <3>3. Passed(c)' /\ Gone(c)' /\ Confirmed(c)'
      BY <1>1, <2>1, <3>1 DEF Passed, Gone, Confirmed, First, Number
    <3> QED
      BY <3>2, <3>3 DEF Mine
  <2>2. CASE Calls(c)
    <3>1. todo'[c] = <<>>
      BY <1>1, <2>2, CallFacts
    <3> QED
      <4>1. todo'[c] \in Seq(RequestsOf(c)) /\ Sorted(todo'[c]) /\ ToSet(todo'[c]) = {}
        BY <3>1, ElementsOfFew DEF Sorted
      <4> QED
        BY <1>1, <2>2, <4>1, CallMine
  <2> QED
    BY <1>1, <2>1, <2>2
<1> QED
  BY <1>1, <1>2, <1>3, <1>4, <1>5, QuietStep

\* the stop of the server,
LEMMA StopStep == ServerInv /\ Stop => ServerInv'
<1> SUFFICES ASSUME ServerInv, Stop PROVE ServerInv'
  OBVIOUS
<1>1. UNCHANGED <<serverVars, todo, left, inClient, socket, granted, calls, seenVars>>
  BY DEF Stop
<1>2. Domains'
  BY <1>1 DEF ServerInv, Domains, serverVars, seenVars
<1>3. ASSUME NEW c \in Clients PROVE Mine(c)'
  BY <1>1 DEF ServerInv, Mine, Queue, Replay, Sending, Passed, Gone, Confirmed,
              First, Number, Before, Sorted, Distinct, serverVars, seenVars
<1>4. NoneAborted' /\ InOrderOnce' /\ DeliveredToSubscribers'
  BY <1>1 DEF ServerInv, NoneAborted, InOrderOnce, DeliveredToSubscribers, Ids, First,
              serverVars, seenVars
<1> QED
  BY <1>2, <1>3, <1>4 DEF ServerInv, Mine

\* A request that is answered and changes at most which transactions are open.
LEMMA AnswerStep ==
    ASSUME ServerInv, NEW c \in Clients, EndCommit(c) \/ Begin(c) \/ ReceiveNothing(c)
    PROVE  ServerInv'
<1>1. /\ todo[c] # <<>> /\ left[c] = <<>> /\ Answer(c)
      /\ UNCHANGED <<trans, left, nested, aborted, got, subs, subLock, socket, calls>>
      /\ open' = open \/ (open' = open \cup {c} /\ First(c).cmd = "BEGIN")
  BY DEF EndCommit, Begin, ReceiveNothing, Receives, Idle, serverVars
<1>2. /\ DOMAIN todo' = Clients /\ DOMAIN receipts' = Clients
      /\ \A e \in Clients \ {c} : todo'[e] = todo[e] /\ receipts'[e] = receipts[e]
  BY <1>1, AnswerFacts
<1>3. Domains'
  BY <1>1, <1>2 DEF ServerInv, Domains
<1>4. OthersSame(c)
  BY <1>1, <1>2 DEF OthersSame, Same
<1>5. trans[c] # <<>> => c \in open
  BY DEF ServerInv, Queue
<1>6. Mine(c)'
  BY <1>1, <1>5, AnswerMine
<1> QED
  BY <1>1, <1>3, <1>4, <1>6, QuietStep

\* an abort,
LEMMA AbortStep ==
    ASSUME ServerInv, NEW c \in Clients, Abort(c)
    PROVE  ServerInv'
<1>1. /\ todo[c] # <<>> /\ left[c] = <<>> /\ Answer(c) /\ First(c).cmd = "ABORT"
      /\ UNCHANGED <<left, nested, got, subs, subLock, socket, calls>>
      /\ open' = open \ {c} /\ trans' = [trans EXCEPT ![c] = <<>>]
      /\ aborted' = aborted \cup {r.id : r \in ToSet(trans[c])}
  BY DEF Abort, Receives, Idle
<1>2. /\ DOMAIN todo' = Clients /\ DOMAIN receipts' = Clients
      /\ \A e \in Clients \ {c} : todo'[e] = todo[e] /\ receipts'[e] = receipts[e]
  BY <1>1, AnswerFacts
<1>3. trans'[c] = <<>> /\ DOMAIN trans' = Clients
      /\ \A e \in Clients \ {c} : trans'[e] = trans[e]
  BY <1>1 DEF ServerInv, Domains
<1>4. \A r \in ToSet(trans[c]) : r \in RequestsOf(c) /\ r.id \in Clients \X Nat /\ r.id[1] = c
  <2>1. trans[c] \in Seq(RequestsOf(c))
    BY DEF ServerInv, Queue
  <2> QED
    BY <2>1, ElementsIn, NumberNat
<1>5. Domains'
  <2>1. aborted' \subseteq Clients \X Nat
    BY <1>1, <1>4 DEF ServerInv, Domains
  <2> QED
    BY <1>1, <1>2, <1>3, <2>1 DEF ServerInv, Domains
<1>6. OthersSame(c)
  BY <1>1, <1>2, <1>3 DEF OthersSame, Same
<1>7. Mine(c)'
  BY <1>1, <1>3, AnswerMine
<1>8. \A e \in Clients : Mine(e)'
  BY <1>1, <1>4, <1>6, <1>7, OtherKept DEF OthersSame
<1>9. NoneAborted'
  <2> SUFFICES ASSUME NEW d \in Clients, NEW g \in ToSet(got[d]), g.id \in aborted'
               PROVE  FALSE
    BY <1>1 DEF NoneAborted, Ids
  <2>1. CASE g.id \in aborted
    BY <2>1 DEF ServerInv, NoneAborted, Ids
  <2>2. CASE \E r \in ToSet(trans[c]) : g.id = r.id
    <3>1. PICK r \in ToSet(trans[c]) : g.id = r.id
      BY <2>2
    <3>2. g.id[1] = c /\ Number(g) = Number(r) /\ Number(r) \in Nat
      BY <1>4, <3>1, NumberNat DEF Number
    <3>3. Number(g) < Number(r)
      BY <3>2 DEF ServerInv, Passed
    <3> QED
      BY <3>2, <3>3
  <2> QED
    BY <1>1, <2>1, <2>2
<1>10. InOrderOnce'
  BY <1>1 DEF ServerInv, InOrderOnce
<1>11. DeliveredToSubscribers'
  <2> SUFFICES ASSUME NEW e \in Clients, left[e] # <<>>
               PROVE  /\ ToSet(left[e]) \subseteq ToSet(subs[First(e)'.ch])
                      /\ \A d \in ToSet(subs[First(e)'.ch]) \ ToSet(left[e]) :
                           socket[d] \in Attached => First(e)'.id \in Ids(got[d])
    BY <1>1 DEF DeliveredToSubscribers, Ids
  <2>1. First(e)' = First(e)
    BY <1>1, <1>2 DEF First
  <2> QED
    BY <2>1 DEF ServerInv, DeliveredToSubscribers
<1> QED
  BY <1>5, <1>8, <1>9, <1>10, <1>11 DEF ServerInv, Mine

\* a request queued in its transaction,
LEMMA EnqueueStep ==
    ASSUME ServerInv, NEW c \in Clients, Enqueue(c)
    PROVE  ServerInv'
<1> DEFINE f == First(c)
<1>1. /\ todo[c] # <<>> /\ Answer(c) /\ f.cmd \notin Closing /\ c \in open
      /\ UNCHANGED <<left, aborted, got, subs, subLock, socket, calls, open>>
      /\ trans' = [trans EXCEPT ![c] = Append(@, f)]
      /\ nested' = IF f.cmd = "BEGIN" THEN nested \cup {c} ELSE nested
  BY DEF Enqueue, Idle, InTransaction, Closing
<1>2. /\ DOMAIN todo' = Clients /\ DOMAIN receipts' = Clients
      /\ \A e \in Clients \ {c} : todo'[e] = todo[e] /\ receipts'[e] = receipts[e]
      /\ f \in RequestsOf(c) /\ f \in ToSet(todo[c])
      /\ todo'[c] \in Seq(RequestsOf(c)) /\ Sorted(todo'[c])
      /\ \A s \in ToSet(todo'[c]) :
           \/ s \in ToSet(todo[c]) /\ Before(f, s)
           \/ c \in Remote /\ s.cmd = "RECEIPT" /\ Number(s) = Number(f)
      /\ \A a \in receipts'[c] : a \in receipts[c] \/ a = f
  BY <1>1, AnswerFacts
<1> HIDE DEF f
<1>3. trans'[c] = Append(trans[c], f) /\ DOMAIN trans' = Clients
      /\ \A e \in Clients \ {c} : trans'[e] = trans[e]
  BY <1>1 DEF ServerInv, Domains
<1>4. left[c] = <<>>
  BY <1>1 DEF ServerInv, Sending
<1>5. /\ Queue(c) /\ Replay(c) /\ Passed(c) /\ Gone(c) /\ Confirmed(c)
      /\ todo[c] \in Seq(RequestsOf(c)) /\ trans[c] \in Seq(RequestsOf(c))
      /\ Sorted(trans[c]) /\ calls[c] \in Nat
  BY DEF ServerInv, Queue
<1>a. /\ Append(trans[c], f) \in Seq(RequestsOf(c))
      /\ Append(trans[c], f) = trans[c] \o <<f>>
      /\ ToSet(Append(trans[c], f)) = ToSet(trans[c]) \cup {f}
  BY <1>2, <1>5, ElementsOfAppend
<1>6. /\ trans'[c] \in Seq(RequestsOf(c)) /\ ToSet(trans'[c]) = ToSet(trans[c]) \cup {f}
  BY <1>3, <1>a
<1>7. /\ \A s \in ToSet(todo[c]) : Number(s) \in Nat /\ Number(s) <= calls[c]
      /\ \A s \in ToSet(todo'[c]) : Number(s) \in Nat
      /\ \A r \in ToSet(trans[c]) : /\ Number(r) \in Nat /\ Number(r) <= calls[c]
                                    /\ r.cmd \notin Closing /\ Before(r, f)
      /\ Number(f) \in Nat /\ Number(f) <= calls[c]
  <2>1. /\ \A s \in ToSet(todo[c]) : s \in RequestsOf(c)
        /\ \A s \in ToSet(todo'[c]) : s \in RequestsOf(c)
        /\ \A r \in ToSet(trans[c]) : r \in RequestsOf(c)
    BY <1>2, <1>5, ElementsIn
  <2>2. /\ \A s \in ToSet(todo[c]) : Number(s) <= calls[c]
        /\ \A r \in ToSet(trans[c]) : /\ r.cmd \notin Closing /\ Number(r) <= calls[c]
                                      /\ Before(r, f)
    BY <1>2, <1>5 DEF Queue
  <2>3. /\ \A s \in ToSet(todo[c]) : Number(s) \in Nat
        /\ \A s \in ToSet(todo'[c]) : Number(s) \in Nat
        /\ \A r \in ToSet(trans[c]) : Number(r) \in Nat
    BY <2>1, NumberNat
  <2> QED
    BY <1>2, <2>2, <2>3
<1>8. \A s \in ToSet(todo'[c]) : /\ Number(f) <= Number(s) /\ Number(s) <= calls[c]
                                 /\ s.cmd # "RECEIPT" => Number(f) < Number(s)
  BY <1>2, <1>7 DEF Before
<1>9. Queue(c)'
  <2>1. Sorted(trans'[c])
    <3>1. <<f>> \in Seq(RequestsOf(c)) /\ Sorted(<<f>>) /\ ToSet(<<f>>) = {f}
      BY <1>2, SortedFew
    <3>2. Sorted(trans[c] \o <<f>>)
      BY <1>5, <1>7, <3>1, SortedConcat
    <3> QED
      BY <1>3, <1>a, <3>2
  <2>2. ASSUME NEW r \in ToSet(trans'[c]), NEW s \in ToSet(todo'[c]) PROVE Before(r, s)
    <3>1. Number(r) <= Number(f) /\ r.cmd \notin Closing /\ Number(r) \in Nat
      BY <1>1, <1>6, <1>7 DEF Before
    <3> QED
      BY <1>7, <1>8, <3>1 DEF Before
  <2>3. \A r \in ToSet(trans'[c]) : r.cmd \notin Closing /\ Number(r) <= calls[c]
    BY <1>1, <1>6, <1>7
  <2> QED
    BY <1>1, <1>2, <1>5, <1>6, <1>8, <2>1, <2>2, <2>3 DEF Queue, Number, Before, Sorted
<1>10. Replay(c)'
  <2> SUFFICES ASSUME c \notin nested'
               PROVE  /\ \A r \in ToSet(trans'[c]) : r.cmd # "BEGIN"
                      /\ \A r \in ToSet(todo'[c]) : r.cmd = "COMMITTED" =>
                           c \notin open /\ \A s \in ToSet(todo'[c]) : s.cmd # "BEGIN"
    BY <1>1 DEF Replay
  <2>1. c \notin nested /\ f.cmd # "BEGIN"
    BY <1>1
  <2>2. \A s \in ToSet(todo'[c]) : s \in ToSet(todo[c]) \/ s.cmd = "RECEIPT"
    BY <1>2
  <2> QED
    BY <1>1, <1>5, <1>6, <2>1, <2>2 DEF Replay
<1>11. Sending(c)'
  BY <1>1, <1>4, SortedFew DEF Sending, Distinct
<1>12. Passed(c)'
  <2> SUFFICES ASSUME NEW d \in Clients, NEW g \in ToSet(got[d]), g.id[1] = c
               PROVE  /\ Number(g) <= calls[c]
                      /\ \A r \in ToSet(trans'[c]) : Number(g) < Number(r)
                      /\ \A r \in ToSet(todo'[c]) : Number(g) < Number(r)
    BY <1>1 DEF Passed, Number
  <2>1. /\ Number(g) <= calls[c] /\ Number(g) < Number(f)
        /\ \A r \in ToSet(trans[c]) : Number(g) < Number(r)
    BY <1>1, <1>2, <1>5 DEF Passed
  <2>2. Number(g) \in Nat
    <3>1. got[d] \in Seq(Requests)
      BY DEF ServerInv, Domains
    <3> QED
      BY <3>1, ElementsIn, NumberNat DEF Requests
  <2> QED
    BY <1>6, <1>7, <1>8, <2>1, <2>2
<1>13. Gone(c)'
  <2> SUFFICES ASSUME NEW a \in aborted, a[1] = c
               PROVE  /\ a[2] <= calls[c]
                      /\ \A r \in ToSet(todo'[c]) \cup ToSet(trans'[c]) : a[2] < Number(r)
    BY <1>1 DEF Gone, Number
  <2>1. a[2] <= calls[c] /\ a[2] < Number(f) /\ a[2] \in Nat
        /\ \A r \in ToSet(trans[c]) : a[2] < Number(r)
    BY <1>2, <1>5 DEF Gone, ServerInv, Domains
  <2> QED
    BY <1>6, <1>7, <1>8, <2>1
<1>14. Confirmed(c)'
  <2> SUFFICES ASSUME c \in Local, c \notin nested, NEW a \in receipts'[c], a.cmd = "COMMITTED"
               PROVE  /\ Number(a) \in Nat /\ Number(a) <= calls[c]
                      /\ \A r \in ToSet(todo'[c]) \cup ToSet(trans'[c]) : Number(a) < Number(r)
    BY <1>1 DEF Confirmed, Number
  <2>1. a \in receipts[c]
    BY <1>1, <1>2 DEF Closing
  <2>2. /\ Number(a) \in Nat /\ Number(a) <= calls[c] /\ Number(a) < Number(f)
        /\ \A r \in ToSet(trans[c]) : Number(a) < Number(r)
    BY <1>2, <1>5, <2>1 DEF Confirmed
  <2> QED
    BY <1>6, <1>7, <1>8, <2>2
<1>15. Mine(c)'
  BY <1>9, <1>10, <1>11, <1>12, <1>13, <1>14 DEF Mine
<1>16. Domains'
  BY <1>1, <1>2, <1>3 DEF ServerInv, Domains
<1>17. OthersSame(c)
  BY <1>1, <1>2, <1>3 DEF OthersSame, Same
<1> QED
  BY <1>1, <1>4, <1>15, <1>16, <1>17, QuietStep

\* a commit,
LEMMA StartCommitStep ==
    ASSUME ServerInv, NEW c \in Clients, StartCommit(c)
    PROVE  ServerInv'
<1> DEFINE f == First(c)
           C == [f EXCEPT !.cmd = "COMMITTED"]
<1>1. /\ todo[c] # <<>> /\ left[c] = <<>> /\ f.cmd = "COMMIT"
      /\ UNCHANGED <<left, nested, receipts, aborted, got, subs, subLock, socket, calls>>
      /\ open' = open \ {c} /\ trans' = [trans EXCEPT ![c] = <<>>]
      /\ todo' = [todo EXCEPT ![c] = IF c \notin open THEN Tail(@) ELSE trans[c] \o <<C>>]
  <2>1. /\ todo[c] # <<>> /\ left[c] = <<>> /\ f.cmd = "COMMIT"
        /\ UNCHANGED <<left, nested, receipts, aborted, got, subs, subLock, socket, calls>>
        /\ open' = open \ {c} /\ trans' = [trans EXCEPT ![c] = <<>>]
    BY DEF StartCommit, Receives, Idle, seenVars
  <2>2. todo' = [todo EXCEPT ![c] = IF c \notin open THEN Tail(@) ELSE trans[c] \o <<C>>]
    BY DEF StartCommit, First
  <2> QED
    BY <2>1, <2>2
<1>2. /\ Queue(c) /\ Replay(c) /\ Passed(c) /\ Gone(c) /\ Confirmed(c)
      /\ todo[c] \in Seq(RequestsOf(c)) /\ trans[c] \in Seq(RequestsOf(c))
      /\ Sorted(todo[c]) /\ Sorted(trans[c]) /\ calls[c] \in Nat
  BY DEF ServerInv, Queue
<1>3. /\ f \in RequestsOf(c) /\ f \in ToSet(todo[c]) /\ Tail(todo[c]) \in Seq(RequestsOf(c))
      /\ Sorted(Tail(todo[c])) /\ \A x \in ToSet(Tail(todo[c])) : Before(f, x)
  BY <1>1, <1>2, ElementsOfTail, SortedTail DEF First
<1>4. C \in RequestsOf(c) /\ C.cmd = "COMMITTED" /\ Number(C) = Number(f)
  BY <1>3 DEF RequestsOf, Number, OfChannel
<1> HIDE DEF f, C
<1>5. /\ DOMAIN todo' = Clients /\ DOMAIN trans' = Clients /\ trans'[c] = <<>>
      /\ todo'[c] = IF c \notin open THEN Tail(todo[c]) ELSE trans[c] \o <<C>>
      /\ \A e \in Clients \ {c} : todo'[e] = todo[e] /\ trans'[e] = trans[e]
  BY <1>1 DEF ServerInv, Domains
<1>6. /\ \A r \in ToSet(trans[c]) : /\ Before(r, f) /\ r.cmd \notin Closing
                                    /\ Number(r) <= calls[c] /\ Number(r) \in Nat
      /\ Number(f) \in Nat /\ Number(f) <= calls[c]
  <2>1. \A r \in ToSet(trans[c]) : r \in RequestsOf(c)
    BY <1>2, ElementsIn
  <2>2. \A r \in ToSet(trans[c]) : Number(r) \in Nat
    BY <2>1, NumberNat
  <2>3. Number(f) \in Nat
    BY <1>3, NumberNat
  <2>4. /\ Number(f) <= calls[c]
        /\ \A r \in ToSet(trans[c]) : Before(r, f) /\ r.cmd \notin Closing
                                      /\ Number(r) <= calls[c]
    BY <1>2, <1>3 DEF Queue
  <2> QED
    BY <2>2, <2>3, <2>4
<1>7. /\ todo'[c] \in Seq(RequestsOf(c)) /\ Sorted(todo'[c])
      /\ \A s \in ToSet(todo'[c]) : c \in open /\ (s \in ToSet(trans[c]) \/ s = C)
  <2>1. CASE c \notin open
    <3>1. \A x \in ToSet(Tail(todo[c])) : FALSE
      BY <1>1, <1>3 DEF Before, Closing
    <3> QED
      BY <1>3, <1>5, <2>1, <3>1
  <2>2. CASE c \in open
    <3> DEFINE end == <<C>>
    <3>1. end \in Seq(RequestsOf(c)) /\ Sorted(end) /\ ToSet(end) = {C}
      BY <1>4, SortedFew
    <3> HIDE DEF end
    <3>2. \A x \in ToSet(trans[c]) : \A y \in ToSet(end) : Before(x, y)
      BY <1>1, <1>4, <1>6, <3>1 DEF Before
    <3>3. /\ trans[c] \o end \in Seq(RequestsOf(c))
          /\ ToSet(trans[c] \o end) = ToSet(trans[c]) \cup ToSet(end)
      BY <1>2, <3>1, ElementsOfConcat
    <3>4. Sorted(trans[c] \o end)
      BY <1>2, <3>1, <3>2, SortedConcat
    <3>5. todo'[c] = trans[c] \o end
      BY <1>5, <2>2 DEF end
    <3> QED
      BY <2>2, <3>1, <3>3, <3>4, <3>5
  <2> QED
    BY <2>1, <2>2
<1>8. ToSet(trans'[c]) = {} /\ trans'[c] \in Seq(RequestsOf(c)) /\ Sorted(trans'[c])
  BY <1>3, <1>5, SortedFew, ElementsOfFew
<1>9. \A s \in ToSet(todo'[c]) : Number(s) \in Nat /\ Number(s) <= calls[c]
  BY <1>4, <1>6, <1>7
<1>10. Queue(c)'
  BY <1>1, <1>2, <1>5, <1>7, <1>8, <1>9 DEF Queue, Number, Before, Sorted
<1>11. Replay(c)'
  <2> SUFFICES ASSUME c \notin nested
               PROVE  \A s \in ToSet(todo'[c]) : s.cmd # "BEGIN"
    BY <1>1, <1>8 DEF Replay
  <2> QED
    BY <1>2, <1>4, <1>7 DEF Replay
<1>12. Sending(c)'
  <2>1. left'[c] = <<>> /\ <<>> \in Seq(Clients) /\ Distinct(<<>>)
    BY <1>1, EmptySeq DEF Distinct
  <2> QED
    BY <2>1 DEF Sending
<1>13. Passed(c)'
  <2> SUFFICES ASSUME NEW d \in Clients, NEW g \in ToSet(got[d]), g.id[1] = c
               PROVE  /\ Number(g) <= calls[c]
                      /\ \A r \in ToSet(todo'[c]) : Number(g) < Number(r)
    BY <1>1, <1>8 DEF Passed, Number
  <2>1. /\ Number(g) <= calls[c]
        /\ c \in open => Number(g) < Number(f)
        /\ \A r \in ToSet(trans[c]) : Number(g) < Number(r)
    BY <1>2, <1>3 DEF Passed
  <2> QED
    BY <1>4, <1>7, <2>1
<1>14. Gone(c)'
  <2> SUFFICES ASSUME NEW a \in aborted, a[1] = c
               PROVE  a[2] <= calls[c] /\ \A r \in ToSet(todo'[c]) : a[2] < Number(r)
    BY <1>1, <1>8 DEF Gone, Number
  <2>1. a[2] <= calls[c] /\ a[2] < Number(f)
        /\ \A r \in ToSet(trans[c]) : a[2] < Number(r)
    BY <1>2, <1>3 DEF Gone
  <2> QED
    BY <1>4, <1>7, <2>1
<1>15. Confirmed(c)'
  <2> SUFFICES ASSUME c \in Local, c \notin nested, NEW a \in receipts[c], a.cmd = "COMMITTED"
               PROVE  /\ Number(a) \in Nat /\ Number(a) <= calls[c]
                      /\ \A r \in ToSet(todo'[c]) : Number(a) < Number(r)
    BY <1>1, <1>8 DEF Confirmed, Number
  <2>1. /\ Number(a) \in Nat /\ Number(a) <= calls[c] /\ Number(a) < Number(f)
        /\ \A r \in ToSet(trans[c]) : Number(a) < Number(r)
    BY <1>2, <1>3 DEF Confirmed
  <2> QED
    BY <1>4, <1>7, <2>1
<1>16. Mine(c)'
  BY <1>10, <1>11, <1>12, <1>13, <1>14, <1>15 DEF Mine
<1>17. Domains' /\ OthersSame(c)
  BY <1>1, <1>5 DEF ServerInv, Domains, OthersSame, Same
<1> QED
  BY <1>1, <1>16, <1>17, QuietStep

\* Whoever enters the monitor of _listeners finds nobody delivering.
LEMMA NobodySends ==
    ASSUME ServerInv, NEW c \in Clients, Free(subLock, c), left[c] = <<>>
    PROVE  \A e \in Clients : left[e] = <<>>
<1> SUFFICES ASSUME NEW e \in Clients, left[e] # <<>> PROVE FALSE
  OBVIOUS
<1>1. subLock = e
  BY DEF ServerInv, Sending
<1> QED
  BY <1>1, ServerAssumption DEF Free

\* a subscription,
LEMMA ChangeStep ==
    ASSUME ServerInv, NEW c \in Clients, Change(c)
    PROVE  ServerInv'
<1> DEFINE f == First(c)
<1>1. /\ todo[c] # <<>> /\ left[c] = <<>> /\ Answer(c) /\ Free(subLock, c)
      /\ f.cmd \in {"SUBSCRIBE", "UNSUBSCRIBE", "DISCONNECT"}
      /\ UNCHANGED <<open, trans, left, nested, aborted, got, subLock, socket, calls>>
  BY DEF Change, Receives, Idle
<1>2. /\ DOMAIN todo' = Clients /\ DOMAIN receipts' = Clients
      /\ \A e \in Clients \ {c} : todo'[e] = todo[e] /\ receipts'[e] = receipts[e]
      /\ f \in RequestsOf(c)
  BY <1>1, AnswerFacts
<1>3. subs' \in [Channels -> Seq(Clients)] /\ \A ch \in Channels : Distinct(subs'[ch])
  <2>1. subs \in [Channels -> Seq(Clients)] /\ \A ch \in Channels : Distinct(subs[ch])
    BY DEF ServerInv, Domains
  <2>2. \A ch \in Channels : /\ RemoveFirst(subs[ch], c) \in Seq(Clients)
                             /\ Distinct(RemoveFirst(subs[ch], c))
    BY <2>1, RemoveFacts
  <2>3. CASE f.cmd = "SUBSCRIBE"
    <3> DEFINE new == IF c \in ToSet(subs[f.ch]) THEN subs[f.ch] ELSE Append(subs[f.ch], c)
    <3>1. f.ch \in Channels
      BY <1>2, <2>3 DEF RequestsOf, OfChannel
    <3>2. new \in Seq(Clients) /\ Distinct(new)
      BY <2>1, <3>1, DistinctAppend, AppendProperties
    <3>3. subs' = [subs EXCEPT ![f.ch] = new]
      BY <2>3 DEF Change
    <3> HIDE DEF new
    <3> QED
      BY <2>1, <3>1, <3>2, <3>3
  <2>4. CASE f.cmd = "UNSUBSCRIBE"
    <3>1. f.ch \in Channels
      BY <1>2, <2>4 DEF RequestsOf, OfChannel
    <3>2. subs' = [subs EXCEPT ![f.ch] = RemoveFirst(@, c)]
      BY <2>4 DEF Change
    <3> QED
      BY <2>1, <2>2, <3>1, <3>2
  <2>5. CASE f.cmd = "DISCONNECT"
    <3>1. subs' = [ch \in Channels |-> RemoveFirst(subs[ch], c)]
      BY <2>5 DEF Change
    <3> QED
      BY <2>2, <3>1
  <2> QED
    BY <1>1, <2>3, <2>4, <2>5
<1>4. Domains'
  BY <1>1, <1>2, <1>3 DEF ServerInv, Domains
<1>5. OthersSame(c)
  BY <1>1, <1>2 DEF OthersSame, Same
<1>6. Mine(c)'
  <2>1. trans[c] # <<>> => c \in open
    BY DEF ServerInv, Queue
  <2> QED
    BY <1>1, <2>1, AnswerMine
<1>7. \A e \in Clients : Mine(e)'
  BY <1>1, <1>5, <1>6, OtherKept DEF OthersSame
<1>8. NoneAborted' /\ InOrderOnce'
  BY <1>1 DEF ServerInv, NoneAborted, InOrderOnce, Ids
<1>9. DeliveredToSubscribers'
  BY <1>1, NobodySends DEF DeliveredToSubscribers
<1> QED
  BY <1>4, <1>7, <1>8, <1>9 DEF ServerInv, Mine

\* a message,
LEMMA StartSendStep ==
    ASSUME ServerInv, NEW c \in Clients, StartSend(c)
    PROVE  ServerInv'
<1> DEFINE f == First(c)
<1>1. /\ todo[c] # <<>> /\ left[c] = <<>> /\ f.cmd = "SEND" /\ c \notin open
      /\ Free(subLock, c) /\ subLock' = c /\ left' = [left EXCEPT ![c] = subs[f.ch]]
      /\ UNCHANGED <<todo, open, trans, nested, receipts, aborted, got, subs, socket, calls>>
  BY DEF StartSend, Receives, Idle, InTransaction, seenVars
<1>2. Queue(c) /\ Replay(c) /\ Passed(c) /\ Gone(c) /\ Confirmed(c)
      /\ todo[c] \in Seq(RequestsOf(c))
  BY DEF ServerInv, Queue
<1>3. f \in RequestsOf(c)
  BY <1>1, <1>2, ElementsOfTail DEF First
<1>4. f.ch \in Channels /\ subs[f.ch] \in Seq(Clients) /\ Distinct(subs[f.ch])
  BY <1>1, <1>3 DEF RequestsOf, OfChannel, ServerInv, Domains
<1>5. /\ left'[c] = subs[f.ch] /\ DOMAIN left' = Clients
      /\ \A e \in Clients \ {c} : left'[e] = left[e] /\ left[e] = <<>>
  BY <1>1, NobodySends DEF ServerInv, Domains
<1>6. OthersSame(c) /\ Domains'
  BY <1>1, <1>5 DEF ServerInv, Domains, OthersSame, Same
<1>7. Mine(c)'
  <2>1. Queue(c)' /\ Replay(c)' /\ Gone(c)' /\ Confirmed(c)'
    BY <1>1, <1>2 DEF Queue, Replay, Gone, Confirmed, Number, Before, Sorted
  <2>2. Sending(c)'
    BY <1>1, <1>4, <1>5 DEF Sending, First, Distinct
  <2>3. Passed(c)'
    BY <1>1, <1>2 DEF Passed, First, Number
  <2> QED
    BY <2>1, <2>2, <2>3 DEF Mine
<1>8. \A e \in Clients : Mine(e)'
  BY <1>1, <1>5, <1>6, <1>7, OtherKept DEF OthersSame
<1>9. NoneAborted' /\ InOrderOnce'
  BY <1>1 DEF ServerInv, NoneAborted, InOrderOnce, Ids
<1>10. DeliveredToSubscribers'
  <2> SUFFICES ToSet(left'[c]) = ToSet(subs[f.ch])
    BY <1>1, <1>5 DEF DeliveredToSubscribers, First
  <2> QED
    BY <1>5
<1> QED
  BY <1>6, <1>8, <1>9, <1>10 DEF ServerInv, Mine

\* and its delivery.
LEMMA DeliverStep ==
    ASSUME ServerInv, NEW c \in Clients, Deliver(c)
    PROVE  ServerInv'
<1> DEFINE f == First(c)
           d == Head(left[c])
           rest == Tail(left[c])
<1>1. /\ left[c] # <<>>
      /\ got' = IF socket[d] = "open" THEN [got EXCEPT ![d] = Append(@, f)] ELSE got
      /\ socket[d] # "full"
      /\ socket' = [socket EXCEPT ![d] = IF @ = "lost" THEN "closed" ELSE @]
      /\ left' = [left EXCEPT ![c] = rest]
      /\ UNCHANGED <<subs, open, trans, calls, aborted, nested>>
  BY DEF Deliver
<1>2. \/ rest # <<>> /\ UNCHANGED <<subLock, todo, receipts>>
      \/ rest = <<>> /\ subLock' = None /\ Answer(c)
  BY DEF Deliver
<1>3. /\ Queue(c) /\ Replay(c) /\ Passed(c) /\ Gone(c) /\ Confirmed(c)
      /\ todo[c] # <<>> /\ todo[c] \in Seq(RequestsOf(c)) /\ calls[c] \in Nat
      /\ left[c] \in Seq(Clients) /\ Distinct(left[c])
      /\ f.cmd = "SEND" /\ c \notin open /\ subLock = c
  BY <1>1 DEF ServerInv, Queue, Sending
<1>4. /\ d \in Clients /\ rest \in Seq(Clients) /\ Distinct(rest)
      /\ ToSet(left[c]) = {d} \cup ToSet(rest) /\ d \notin ToSet(rest)
  BY <1>1, <1>3, ElementsOfTail, DistinctTail
<1>5. /\ f \in RequestsOf(c) /\ f \in ToSet(todo[c]) /\ f \in Requests
      /\ Number(f) \in Nat /\ f.id = <<c, Number(f)>> /\ f.id[1] = c
      /\ ToSet(todo[c]) = {f} \cup ToSet(Tail(todo[c]))
      /\ \A x \in ToSet(Tail(todo[c])) : Before(f, x)
  <2>1. f \in RequestsOf(c) /\ ToSet(todo[c]) = {f} \cup ToSet(Tail(todo[c]))
    BY <1>3, ElementsOfTail DEF First
  <2>2. \A x \in ToSet(Tail(todo[c])) : Before(f, x)
    BY <1>3, SortedTail DEF First, Queue
  <2> QED
    BY <2>1, <2>2, NumberNat
<1> HIDE DEF f, d, rest
<1>6. /\ left'[c] = rest /\ DOMAIN left' = Clients
      /\ \A e \in Clients \ {c} : left'[e] = left[e] /\ left[e] = <<>>
  <2>1. \A e \in Clients \ {c} : left[e] = <<>>
    BY <1>3 DEF ServerInv, Sending
  <2> QED
    BY <1>1, <2>1 DEF ServerInv, Domains
<1>7. /\ got \in [Clients -> Seq(Requests)] /\ got' \in [Clients -> Seq(Requests)]
      /\ DOMAIN socket' = Clients
      /\ \A x \in Clients \ {d} : got'[x] = got[x] /\ socket'[x] = socket[x]
      /\ \/ got'[d] = got[d] /\ socket[d] \notin Attached
         \/ got'[d] = Append(got[d], f) /\ socket[d] \in Attached
      /\ socket'[d] \in Attached => socket[d] \in Attached
  <2>1. got \in [Clients -> Seq(Requests)] /\ DOMAIN socket = Clients
    BY DEF ServerInv, Domains
  <2>2. Append(got[d], f) \in Seq(Requests)
    BY <1>4, <1>5, <2>1, AppendProperties
  <2>3. /\ socket[d] = "open" <=> socket[d] \in Attached
        /\ (IF socket[d] = "lost" THEN "closed" ELSE socket[d]) \in Attached => socket[d] \in Attached
    BY <1>1 DEF Attached
  <2> QED
    BY <1>1, <1>4, <2>1, <2>2, <2>3
<1>8. /\ \A x \in Clients \ {d} : ToSet(got'[x]) = ToSet(got[x])
      /\ \/ ToSet(got'[d]) = ToSet(got[d]) /\ socket[d] \notin Attached
         \/ ToSet(got'[d]) = ToSet(got[d]) \cup {f} /\ socket[d] \in Attached
  <2>1. got[d] \in Seq(Requests) /\ f \in Requests
    BY <1>4, <1>5 DEF ServerInv, Domains
  <2>2. ToSet(Append(got[d], f)) = ToSet(got[d]) \cup {f}
    <3>1. ASSUME NEW s \in Seq(Requests), NEW e \in Requests
          PROVE  /\ Append(s, e) \in Seq(Requests) /\ Append(s, e) = s \o <<e>>
                 /\ ToSet(Append(s, e)) = ToSet(s) \cup {e}
      BY ElementsOfAppend
    <3> QED
      BY <2>1, <3>1
  <2>3. \A x \in Clients \ {d} : ToSet(got'[x]) = ToSet(got[x])
    BY <1>7
  <2>4. CASE got'[d] = got[d] /\ socket[d] \notin Attached
    BY <2>3, <2>4
  <2>5. CASE got'[d] = Append(got[d], f) /\ socket[d] \in Attached
    <3>1. ToSet(got'[d]) = ToSet(got[d]) \cup {f}
      BY <2>2, <2>5
    <3> QED
      BY <2>3, <2>5, <3>1
  <2> QED
    BY <1>7, <2>4, <2>5
<1>9. \A x \in Clients : \A g \in ToSet(got'[x]) : g \in ToSet(got[x]) \/ (x = d /\ g = f)
  BY <1>8
<1>10. Mine(c)'
  <2>1. CASE rest = <<>>
    <3>1. Answer(c) /\ left'[c] = <<>>
      BY <1>2, <1>6, <2>1
    <3>2. trans[c] # <<>> => c \in open
      BY <1>3 DEF Queue
    <3> QED
      BY <1>1, <1>3, <1>9, <3>1, <3>2, AnswerMine DEF f
  <2>2. CASE rest # <<>>
    <3>1. UNCHANGED <<subLock, todo, receipts>>
      BY <1>2, <2>2
    <3>2. Queue(c)' /\ Replay(c)' /\ Gone(c)' /\ Confirmed(c)'
      BY <1>1, <1>3, <3>1 DEF Queue, Replay, Gone, Confirmed, Number, Before, Sorted
    <3>3. Sending(c)'
      BY <1>1, <1>3, <1>4, <1>6, <3>1 DEF Sending, First, Distinct, f
    <3>4. Passed(c)'
      <4> SUFFICES ASSUME NEW x \in Clients, NEW g \in ToSet(got'[x]), g.id[1] = c
                   PROVE  /\ Number(g) <= calls[c]
                          /\ \A r \in ToSet(trans[c]) : Number(g) < Number(r)
                          /\ \A r \in ToSet(todo[c]) :
                               \/ Number(g) < Number(r)
                               \/ /\ Number(g) = Number(r) /\ c \notin open
                                  /\ r.cmd = "RECEIPT" \/ (r = f /\ x \notin ToSet(rest))
        BY <1>1, <1>6, <2>2, <3>1 DEF Passed, First, Number, f
      <4>1. CASE g \in ToSet(got[x])
        BY <1>3, <1>4, <4>1 DEF Passed, f
      <4>2. CASE x = d /\ g = f
        <5>1. Number(f) <= calls[c] /\ ToSet(trans[c]) = {}
          BY <1>3, <1>5, ElementsOfFew DEF Queue
        <5>2. ASSUME NEW r \in ToSet(todo[c])
              PROVE  \/ Number(f) < Number(r)
                     \/ Number(f) = Number(r) /\ (r.cmd = "RECEIPT" \/ r = f)
          <6>1. CASE r = f
            BY <6>1
          <6>2. CASE r \in ToSet(Tail(todo[c]))
            <7>1. Before(f, r) /\ r \in RequestsOf(c)
              BY <1>3, <1>5, <5>2, <6>2, ElementsIn
            <7>2. Number(r) \in Nat
              BY <7>1, NumberNat
            <7> QED
              BY <1>5, <7>1, <7>2 DEF Before
          <6> QED
            BY <1>5, <6>1, <6>2
        <5> QED
          BY <1>3, <1>4, <4>2, <5>1, <5>2
      <4> QED
        BY <1>9, <4>1, <4>2
    <3> QED
      BY <3>2, <3>3, <3>4 DEF Mine
  <2> QED
    BY <2>1, <2>2
<1>11. /\ DOMAIN todo' = Clients /\ DOMAIN receipts' = Clients
       /\ \A e \in Clients \ {c} : todo'[e] = todo[e] /\ receipts'[e] = receipts[e]
  <2>1. CASE UNCHANGED <<todo, receipts>>
    BY <2>1 DEF ServerInv, Domains
  <2>2. CASE Answer(c)
    BY <1>3, <2>2, AnswerFacts
  <2> QED
    BY <1>2, <2>1, <2>2
<1>12. Domains'
  BY <1>1, <1>6, <1>7, <1>11 DEF ServerInv, Domains
<1>13. OthersSame(c)
  BY <1>1, <1>6, <1>11 DEF OthersSame, Same
<1>14. \A e \in Clients : Mine(e)'
  <2>1. \A x \in Clients : \A g \in ToSet(got'[x]) : g \in ToSet(got[x]) \/ g.id[1] = c
    BY <1>5, <1>9
  <2>2. ASSUME NEW e \in Clients \ {c} PROVE Mine(e)'
    BY <1>1, <1>6, <1>13, <2>1, OtherKept DEF OthersSame
  <2> QED
    BY <1>10, <2>2
\* Who is being delivered to has not had the message.
<1>15. \A g \in ToSet(got[d]) : g.id[1] = c => Number(g) < Number(f)
  BY <1>1, <1>3, <1>4, <1>5 DEF Passed
<1>16. NoneAborted'
  <2>1. f.id \notin aborted
    <3>1. ASSUME f.id \in aborted PROVE Number(f) < Number(f)
      BY <1>3, <1>5, <3>1 DEF Gone, Number
    <3> QED
      BY <1>5, <3>1
  <2> QED
    BY <1>1, <1>9, <2>1 DEF ServerInv, NoneAborted, Ids
<1>17. InOrderOnce'
  <2>3. ASSUME NEW x \in Clients \ {d}, NEW i \in DOMAIN got'[x], NEW j \in DOMAIN got'[x],
               i < j, got'[x][i].id[1] = got'[x][j].id[1]
        PROVE  got'[x][i].id[2] < got'[x][j].id[2]
    <3>1. got'[x] = got[x]
      BY <1>7
    <3> QED
      BY <2>3, <3>1 DEF ServerInv, InOrderOnce
  <2> SUFFICES ASSUME NEW i \in DOMAIN got'[d], NEW j \in DOMAIN got'[d], i < j,
                      got'[d][i].id[1] = got'[d][j].id[1]
               PROVE  got'[d][i].id[2] < got'[d][j].id[2]
    BY <2>3 DEF InOrderOnce
  <2>1. CASE got'[d] = got[d]
    BY <1>4, <2>1 DEF ServerInv, InOrderOnce
  <2>2. CASE got'[d] = Append(got[d], f)
    <3>1. /\ Len(got[d]) \in Nat /\ DOMAIN got[d] = 1..Len(got[d])
          /\ DOMAIN got'[d] = 1..Len(got[d]) + 1
          /\ \A n \in 1..Len(got[d]) : got'[d][n] = got[d][n]
          /\ got'[d][Len(got[d]) + 1] = f
      BY <1>4, <1>5, <1>7, <2>2, AppendProperties, LenProperties
    <3>2. i \in DOMAIN got[d] /\ got'[d][i] = got[d][i]
      BY <3>1
    <3>3. CASE j \in DOMAIN got[d]
      BY <1>4, <3>1, <3>2, <3>3 DEF ServerInv, InOrderOnce
    <3>4. CASE j = Len(got[d]) + 1
      BY <1>5, <1>15, <3>1, <3>2, <3>4 DEF ToSet, Number
    <3> QED
      BY <3>1, <3>3, <3>4
  <2> QED
    BY <1>7, <2>1, <2>2
<1>18. DeliveredToSubscribers'
  <2>1. CASE rest = <<>>
    <3>1. \A e \in Clients : left'[e] = <<>>
      BY <1>6, <2>1
    <3> QED
      BY <3>1 DEF DeliveredToSubscribers
  <2>2. CASE rest # <<>>
    <3>1. UNCHANGED <<todo, subs>>
      BY <1>1, <1>2, <2>2
    <3>2. /\ ToSet(left[c]) \subseteq ToSet(subs[f.ch])
          /\ \A x \in ToSet(subs[f.ch]) \ ToSet(left[c]) :
               socket[x] \in Attached => f.id \in Ids(got[x])
      BY <1>1 DEF ServerInv, DeliveredToSubscribers, f
    <3>3. ToSet(subs[f.ch]) \subseteq Clients
      BY <1>1, SendFacts DEF f
    <3>4. ASSUME NEW x \in ToSet(subs[f.ch]) \ ToSet(rest), socket'[x] \in Attached
          PROVE  \E g \in ToSet(got'[x]) : g.id = f.id
      <4>1. CASE x = d
        BY <1>7, <1>8, <3>4, <4>1
      <4>2. CASE x # d
        <5>1. x \in Clients \ {d} /\ x \notin ToSet(left[c])
          BY <1>4, <3>3, <4>2
        <5>2. f.id \in Ids(got[x])
          BY <1>7, <3>2, <3>4, <5>1
        <5> QED
          BY <1>8, <5>1, <5>2 DEF Ids
      <4> QED
        BY <4>1, <4>2
    <3>5. /\ ToSet(left'[c]) \subseteq ToSet(subs[f.ch])
          /\ \A x \in ToSet(subs[f.ch]) \ ToSet(left'[c]) :
               socket'[x] \in Attached => f.id \in Ids(got'[x])
      BY <1>4, <1>6, <3>2, <3>4 DEF Ids
    <3>6. First(c)' = f /\ subs' = subs
      BY <3>1 DEF First, f
    <3> QED
      BY <1>6, <3>5, <3>6 DEF DeliveredToSubscribers, Ids
  <2> QED
    BY <2>1, <2>2
<1> QED
  BY <1>12, <1>14, <1>16, <1>17, <1>18 DEF ServerInv, Mine

\* The invariant of the server, always.
LEMMA ServerInvariant == Spec => []ServerInv
<1>1. ServerInv /\ [Next]_vars => ServerInv'
  <2> SUFFICES ASSUME ServerInv, [Next]_vars PROVE ServerInv'
    OBVIOUS
  <2>1. ASSUME NEW c \in Clients, Step(c) PROVE ServerInv'
    BY <2>1, StartCommitStep, AnswerStep, AbortStep, EnqueueStep, StartSendStep, DeliverStep,
       ChangeStep DEF Step
  <2>2. ASSUME NEW c \in Clients, NEW q \in May[c],
               \/ LocalCall(c, q[1], q[2]) \/ RemoteFrame(c, q[1], q[2])
               \/ q[1] = "UNSUBSCRIBE" /\ Unlisten(c, q[2])
        PROVE  ServerInv'
    BY <2>2, CallStep
  <2>3. ASSUME NEW c \in Clients, Connection(c)
        PROVE  ServerInv'
    BY <2>3, ConnectionStep
  <2>4. CASE UNCHANGED vars
    <3>1. UNCHANGED <<serverVars, todo, left, inClient, socket, granted, calls, seenVars>>
      BY <2>4 DEF vars, threadVars
    <3>2. Domains'
      BY <3>1 DEF ServerInv, Domains, serverVars, seenVars
    <3>3. ASSUME NEW c \in Clients PROVE Mine(c)'
      BY <3>1 DEF ServerInv, Mine, Queue, Replay, Sending, Passed, Gone, Confirmed,
                  First, Number, Before, Sorted, Distinct, serverVars, seenVars
    <3>4. NoneAborted' /\ InOrderOnce' /\ DeliveredToSubscribers'
      BY <3>1 DEF ServerInv, NoneAborted, InOrderOnce, DeliveredToSubscribers, Ids, First,
                  serverVars, seenVars
    <3> QED
      BY <3>2, <3>3, <3>4 DEF ServerInv, Mine
  <2> QED
    BY <2>1, <2>2, <2>3, <2>4, StopStep DEF Next
<1> QED
  BY ServerInit, <1>1, PTL DEF Spec

-----------------------------------------------------------------------------
(* Theorems.                                                                 *)

\* No message is delivered before its transaction is committed, and none of an
\* aborted one ever, whatever transactions are begun in transactions and replayed.
THEOREM NothingUncommitted == Spec => []CommittedOnly
<1>1. ServerInv => CommittedOnly
  <2> SUFFICES ASSUME ServerInv, NEW c \in Clients, NEW d \in Clients,
                      NEW g \in ToSet(got[d]), NEW r \in ToSet(trans[c]), g.id = r.id
               PROVE  FALSE
    BY DEF ServerInv, NoneAborted, CommittedOnly, Ids
  <2>1. trans[c] \in Seq(RequestsOf(c))
    BY DEF ServerInv, Queue
  <2>2. r \in RequestsOf(c)
    BY <2>1, ElementsIn
  <2>3. Number(r) \in Nat /\ r.id[1] = c
    BY <2>2, NumberNat
  <2>4. Number(g) < Number(r)
    BY <2>3 DEF ServerInv, Passed
  <2> QED
    BY <2>3, <2>4 DEF Number
<1> QED
  BY <1>1, ServerInvariant, PTL

\* A subscriber receives what each client sent once and in the order it was sent,
\* however the threads of the clients are scheduled.
THEOREM ReceivedInOrder == Spec => []InOrderOnce
<1>1. ServerInv => InOrderOnce
  BY DEF ServerInv
<1> QED
  BY <1>1, ServerInvariant, PTL

\* Those a message is being delivered to are the subscribers of its channel, and
\* those it no longer is have it, or have lost their connection.
THEOREM AllSubscribersServed == Spec => []DeliveredToSubscribers
<1>1. ServerInv => DeliveredToSubscribers
  BY DEF ServerInv
<1> QED
  BY <1>1, ServerInvariant, PTL

\* When the receipt of a COMMIT has come, nothing asked for before it is left to
\* be done, save by a client that began a transaction in a transaction.
THEOREM ReceiptMeansCommitted == Spec => []CommitConfirms
<1>1. ServerInv => CommitConfirms
  <2> SUFFICES ASSUME ServerInv, NEW c \in Local \ nested, NEW a \in receipts[c],
                      NEW r \in ToSet(trans[c] \o todo[c]), a.cmd = "COMMITTED"
               PROVE  r.id[2] > a.id[2]
    BY DEF CommitConfirms
  <2>1. c \in Clients
    BY DEF Clients
  <2>2. trans[c] \in Seq(RequestsOf(c)) /\ todo[c] \in Seq(RequestsOf(c))
    BY <2>1 DEF ServerInv, Queue
  <2>3. r \in ToSet(todo[c]) \cup ToSet(trans[c]) /\ r \in RequestsOf(c)
    BY <2>2, ElementsOfConcat, ElementsIn
  <2>4. Number(a) \in Nat /\ Number(a) < Number(r)
    BY <2>1, <2>3 DEF ServerInv, Confirmed
  <2>5. Number(r) \in Nat
    BY <2>1, <2>3, NumberNat
  <2> QED
    BY <2>4, <2>5 DEF Number
<1> QED
  BY <1>1, ServerInvariant, PTL
=============================================================================
