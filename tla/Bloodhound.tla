----------------------------- MODULE Bloodhound -----------------------------
(***************************************************************************)
(* The suggestion engine of typeahead.js, in its three parts: the search   *)
(* index (a trie), the remote requests behind a limiter, a pool of pending *)
(* requests and an LRU cache, and the data prefetched at start-up and kept *)
(* in the browser's storage.  A behaviour exercises one of Parts.          *)
(***************************************************************************)
EXTENDS Integers, Sequences, FiniteSets, SequencesExt, Ranks

CONSTANTS Parts,          \* of "index", "remote" and "prefetch"
          Chars,          \* characters of tokens
          Datums,         \* a sequence of data, each a sequence of tokens
          TextOrder,      \* the places of their ids, as texts, in order
          Queries,        \* sequences of tokens
          MaxAdds,        \* bound: data added to the index
          Keys,           \* what is asked of the remote source
          Sufficient,     \* keys with enough local suggestions
          Limiters,       \* "debounce", "throttle"
          maxPendingRequests,
          CacheSize,
          MaxAsks,        \* bound: searches
          Versions,       \* bound: thumbprints deployed, 1..Versions
          Ttl, MaxTime,   \* option ttl, and the bound of the clock
          MaxFetches      \* bound: prefetch requests under way

\* What normalizeTokens leaves.
Token == Seq(Chars) \ {<<>>}

ASSUME BloodhoundAssumption ==
  /\ Datums \in Seq(Seq(Token)) /\ Queries \subseteq Seq(Token)
  /\ TextOrder \in [DOMAIN Datums -> Nat]
  /\ MaxAdds \in Nat /\ Sufficient \subseteq Keys
  /\ Limiters \subseteq {"debounce", "throttle"}
  /\ maxPendingRequests \in Nat \ {0} /\ CacheSize \in Nat \ {0}
  /\ MaxAsks \in Nat /\ Versions \in Nat \ {0} /\ Ttl \in Nat
  /\ MaxTime \in Nat /\ MaxFetches \in Nat

VARIABLES part, index, remote, lru, pre

engineVars == <<part, index, remote, lru, pre>>

-----------------------------------------------------------------------------
(* The search index.  A node of the trie is the word that leads to it; ids *)
(* are positions in Datums, which order them as they compare.  numbers is  *)
(* whether the option identify makes them numbers and not strings.         *)

IndexInit ==
  \E numbers \in IF part = "index" THEN BOOLEAN ELSE {FALSE} :
    index = [numbers |-> numbers, datums |-> {}, trie |-> <<>>, adds |-> 0]

PrefixesOf(token) == {SubSeq(token, 1, n) : n \in 1..Len(token)}

\* One token of datum id: its id is pushed on every node on the way.
AddToken(trie, id, token) ==
  [node \in DOMAIN trie \cup PrefixesOf(token) |->
     (IF node \in DOMAIN trie THEN trie[node] ELSE <<>>) \o
     (IF node \in PrefixesOf(token) THEN <<id>> ELSE <<>>)]

AddTokens(trie, id, tokens) ==
  FoldLeft(LAMBDA t, token : AddToken(t, id, token), trie, tokens)

AddToIndex(id) ==
  /\ part = "index"
  /\ index.adds < MaxAdds
  /\ index' = [index EXCEPT !.datums = @ \cup {id}, !.adds = @ + 1,
                            !.trie = AddTokens(@, id, Datums[id])]
  /\ UNCHANGED <<part, remote, lru, pre>>

ResetIndex ==
  /\ part = "index"
  /\ index' = [index EXCEPT !.datums = {}, !.trie = <<>>]
  /\ UNCHANGED <<part, remote, lru, pre>>

\* What sort() goes by: it compares numbers, too, as texts.
SortKey(id) == IF index.numbers THEN TextOrder[id] ELSE id

SortArray(array) ==
  LET P == DOMAIN array
      before == {p \in P \X P : SortKey(array[p[1]]) < SortKey(array[p[2]])}
      at == Sorted(P, Stable(P, before))
  IN [k \in P |-> array[at[k]]]

\* One turn of the walk along two sequences, with one finger in each.
Advance(w, arrayA, arrayB) ==
  IF w.ai > Len(arrayA) \/ w.bi > Len(arrayB) THEN w
  ELSE IF arrayA[w.ai] < arrayB[w.bi] THEN [w EXCEPT !.ai = @ + 1]
  ELSE IF arrayA[w.ai] > arrayB[w.bi] THEN [w EXCEPT !.bi = @ + 1]
  ELSE [ai |-> w.ai + 1, bi |-> w.bi + 1,
        intersection |-> Append(w.intersection, arrayA[w.ai])]

Walk(arrayA, arrayB) ==
  LET turns == Len(arrayA) + Len(arrayB)
      walk[i \in 0..turns] ==
        IF i = 0 THEN [ai |-> 1, bi |-> 1, intersection |-> <<>>]
        ELSE Advance(walk[i - 1], arrayA, arrayB)
  IN walk[turns].intersection

\* Mutant: the two arrays are not sorted first.
GetIntersectionUnsorted(a, b) == Walk(a, b)

GetIntersection(a, b) == Walk(SortArray(a), SortArray(b))

Unique(array) ==
  FoldLeft(LAMBDA u, x : IF x \in ToSet(u) THEN u ELSE Append(u, x), <<>>, array)

IdsOf(token) == IF token \in DOMAIN index.trie THEN index.trie[token] ELSE <<>>

Match(matches, token) ==
  IF matches = <<>> THEN <<>> ELSE GetIntersection(matches, IdsOf(token))

Search(query) ==
  IF query = <<>> THEN <<>>
  ELSE Unique(FoldLeft(Match, IdsOf(query[1]), Tail(query)))

-----------------------------------------------------------------------------
(* The LRU cache: a hash from keys to nodes of a doubly linked list.  A    *)
(* node that leaves the list keeps its links.  rehit: the head was moved   *)
(* to the front while it still had the link of its former place.           *)

Null == 0
NewNode(l) == CHOOSE n \in 1..Cardinality(DOMAIN l.key) + 1 : n \notin DOMAIN l.key

EmptyLru == [size |-> 0, hash |-> <<>>, head |-> Null, tail |-> Null,
             key |-> <<>>, prev |-> <<>>, next |-> <<>>, rehit |-> FALSE,
             threw |-> FALSE]

LruInit == lru = EmptyLru

With(f, x, y) == [z \in DOMAIN f \cup {x} |-> IF z = x THEN y ELSE f[z]]
Without(f, x) == [z \in DOMAIN f \ {x} |-> f[z]]

ListAdd(l, node) ==
  LET linked == IF l.head = Null THEN l
                ELSE LET m == [l EXCEPT !.next[node] = l.head]
                     IN [m EXCEPT !.prev[l.head] = node]
  IN [linked EXCEPT !.head = node,
                    !.tail = IF @ = Null THEN node ELSE @]

\* node.prev and node.next are read again after the first assignment.
ListRemove(l, node) ==
  LET m == IF l.prev[node] # Null
           THEN [l EXCEPT !.next[l.prev[node]] = l.next[node]]
           ELSE [l EXCEPT !.head = l.next[node]]
  IN IF m.next[node] # Null THEN [m EXCEPT !.prev[m.next[node]] = m.prev[node]]
     ELSE [m EXCEPT !.tail = m.prev[node]]

MoveToFront(l, node) ==
  LET marked == [l EXCEPT !.rehit = @ \/ (node = l.head /\ l.prev[node] # Null)]
  IN ListAdd(ListRemove(marked, node), node)

\* Where the list, the hash and the nodes of S lead to.
Linked(l, S) ==
  ({l.head, l.tail} \cup {l.hash[k] : k \in DOMAIN l.hash}
     \cup {l.prev[n] : n \in S} \cup {l.next[n] : n \in S}) \ {Null}

\* Nodes nothing leads to are forgotten.
Reached(l) ==
  {n \in DOMAIN l.key : \A S \in SUBSET DOMAIN l.key : Linked(l, S) \subseteq S => n \in S}

Collect(l) ==
  LET live == Reached(l)
  IN [l EXCEPT !.key = [n \in live |-> @[n]], !.prev = [n \in live |-> @[n]],
               !.next = [n \in live |-> @[n]]]

\* Mutant: what is evicted stays in the hash.
LruSetOver(l, k) ==
  LET room == IF l.size >= CacheSize THEN [ListRemove(l, l.tail) EXCEPT !.size = @ - 1]
              ELSE l
      fresh == NewNode(room)
      created == [room EXCEPT !.key = With(@, fresh, k),
                              !.prev = With(@, fresh, Null),
                              !.next = With(@, fresh, Null)]
  IN IF l.size >= CacheSize /\ l.tail = Null THEN [l EXCEPT !.threw = TRUE]
     ELSE IF k \in DOMAIN room.hash THEN Collect(MoveToFront(room, room.hash[k]))
     ELSE Collect([ListAdd(created, fresh) EXCEPT
                     !.hash = With(@, k, fresh), !.size = @ + 1])

\* set: makes room first, whether the key is new or not.
LruSet(l, k) ==
  LET evicted == [ListRemove(l, l.tail) EXCEPT
                    !.hash = Without(@, l.key[l.tail]), !.size = @ - 1]
      room == IF l.size >= CacheSize THEN evicted ELSE l
      fresh == NewNode(room)
      created == [room EXCEPT !.key = With(@, fresh, k),
                              !.prev = With(@, fresh, Null),
                              !.next = With(@, fresh, Null)]
  IN IF l.size >= CacheSize /\ l.tail = Null THEN [l EXCEPT !.threw = TRUE]
     ELSE IF k \in DOMAIN room.hash THEN Collect(MoveToFront(room, room.hash[k]))
     ELSE Collect([ListAdd(created, fresh) EXCEPT
                     !.hash = With(@, k, fresh), !.size = @ + 1])

LruGet(l, k) == Collect(MoveToFront(l, l.hash[k]))

-----------------------------------------------------------------------------
(* The remote source.  timer holds the arguments of the limited call that  *)
(* is due ({} for none), onDeck those kept for want of room, pending maps  *)
(* a request under way to the number of callbacks that wait for it.  last  *)
(* is the latest search: where its key is.  crowded: a request waited on   *)
(* deck.                                                                   *)

RemoteInit ==
  \E limiter \in IF part = "remote" THEN Limiters ELSE {"debounce"} :
    remote = [limiter |-> limiter, timer |-> {}, cooling |-> FALSE,
              cancelled |-> FALSE, lastReq |-> {}, onDeck |-> {},
              pendingRequestsCount |-> 0, pending |-> <<>>, asks |-> 0,
              last |-> "none", crowded |-> FALSE]

\* Mutant: a request already under way is not joined.
GetUnlessPending(r, k) ==
  IF r.cancelled \/ r.lastReq # {k} \/ k \in DOMAIN r.pending THEN r
  ELSE IF r.pendingRequestsCount < maxPendingRequests
       THEN [r EXCEPT !.pending = With(@, k, 1), !.pendingRequestsCount = @ + 1,
                      !.last = "sent"]
  ELSE [r EXCEPT !.onDeck = {k}, !.last = "on deck", !.crowded = TRUE]

\* Transport's _get.
Get(r, k) ==
  IF r.cancelled \/ r.lastReq # {k} THEN r
  ELSE IF k \in DOMAIN r.pending
       THEN [r EXCEPT !.pending[k] = @ + 1, !.last = "sent"]
  ELSE IF r.pendingRequestsCount < maxPendingRequests
       THEN [r EXCEPT !.pending = With(@, k, 1), !.pendingRequestsCount = @ + 1,
                      !.last = "sent"]
  ELSE [r EXCEPT !.onDeck = {k}, !.last = "on deck", !.crowded = TRUE]

\* The limited _get: debounce starts its timer anew, throttle calls at once
\* unless it did so less than wait ago.
LimitedGet(r, k) ==
  IF r.limiter = "throttle" /\ ~r.cooling
  THEN Get([r EXCEPT !.timer = {}, !.cooling = TRUE], k)
  ELSE [r EXCEPT !.timer = {k}]

\* Bloodhound.search for a key: a search the index answers cancels.
RemoteSearch(k) ==
  /\ part = "remote"
  /\ remote.asks < MaxAsks
  /\ LET r == [remote EXCEPT !.asks = @ + 1, !.lastReq = {k}, !.cancelled = FALSE]
     IN IF k \in Sufficient
        THEN /\ remote' = [remote EXCEPT !.asks = @ + 1, !.cancelled = TRUE,
                                         !.last = "none"]
             /\ UNCHANGED lru
        ELSE IF k \in DOMAIN lru.hash
        THEN remote' = [r EXCEPT !.last = "answered"] /\ lru' = LruGet(lru, k)
        ELSE /\ remote' = LimitedGet([r EXCEPT !.last = "limited"], k)
             /\ UNCHANGED lru
  /\ UNCHANGED <<part, index, pre>>

LimiterFires ==
  /\ part = "remote"
  /\ remote.timer # {} /\ ~remote.cooling
  /\ LET r == [remote EXCEPT !.timer = {}, !.cooling = (@ \/ remote.limiter = "throttle")]
     IN remote' = Get(r, CHOOSE k \in remote.timer : TRUE)
  /\ UNCHANGED <<part, index, lru, pre>>

LimitOver ==
  /\ part = "remote"
  /\ remote.cooling
  /\ remote' = [remote EXCEPT !.cooling = FALSE]
  /\ UNCHANGED <<part, index, lru, pre>>

\* always: the request leaves the pool, the one on deck goes through the
\* limiter again.
Finished(r, k) ==
  LET left == [r EXCEPT !.pendingRequestsCount = @ - 1, !.pending = Without(@, k)]
  IN IF r.onDeck = {} THEN left
     ELSE [LimitedGet(left, CHOOSE q \in r.onDeck : TRUE) EXCEPT !.onDeck = {}]

\* A response, or a failure, which answers with nothing and caches nothing.
Respond(k, ok) ==
  /\ part = "remote"
  /\ k \in DOMAIN remote.pending
  /\ LET answered == IF remote.last = "sent" /\ remote.lastReq = {k}
                     THEN [remote EXCEPT !.last = "answered"] ELSE remote
     IN remote' = Finished(answered, k)
  /\ lru' = IF ~ok THEN lru
            ELSE IF remote.pending[k] = 1 THEN LruSet(lru, k)
            ELSE LruSet(LruSet(lru, k), k)
  /\ UNCHANGED <<part, index, pre>>

\* clearRemoteCache.
ResetCache ==
  /\ part = "remote"
  /\ lru' = EmptyLru
  /\ UNCHANGED <<part, index, remote, pre>>

-----------------------------------------------------------------------------
(* Prefetched data.  An item of the index is local, Added by the page, or  *)
(* Fetched: under which thumbprint and when.  stored is {} or what the     *)
(* storage holds; promise is that of the latest initialisation, orphans    *)
(* the requests under way of the earlier ones of this page.  overlap: some *)
(* page had one; relabelled: the storage kept its data but took the        *)
(* thumbprint and the time of those it did not take; cleared: the page     *)
(* emptied the index.                                                      *)

LocalItem == <<0, 0>>
Added == <<0, 1>>
Fetched(thumbprint, time) == <<thumbprint, time>>
IsFetched(item) == item[1] > 0

PreInit == pre = [time |-> 0, deployed |-> 1, thumbprint |-> 1, opened |-> 0,
                  stored |-> {}, noop |-> FALSE, items |-> {},
                  promise |-> "none", orphans |-> 0, overlap |-> FALSE,
                  relabelled |-> FALSE, cleared |-> TRUE]

\* Mutant: the thumbprint is not compared.
FromAnyCache(p) == {s \in p.stored : p.time <= s.until /\ ~p.noop}

\* The entries of the storage expire together.
FromCache(p) ==
  {s \in p.stored : s.thumbprint = p.thumbprint /\ p.time <= s.until /\ ~p.noop}

ItemsIn(entries) == UNION {s.items : s \in entries}

\* clear, then _loadPrefetch, and the local data when it is done.  Reading
\* the storage drops what has expired.
Initialized(p) ==
  LET hit == FromCache(p)
      more == IF p.promise = "pending" THEN 1 ELSE 0
      q == [p EXCEPT !.cleared = FALSE, !.orphans = @ + more,
                     !.overlap = @ \/ p.orphans + more > 0,
                     !.stored = {s \in @ : p.noop \/ p.time <= s.until}]
  IN IF hit = {} THEN [q EXCEPT !.items = {}, !.promise = "pending"]
     ELSE [q EXCEPT !.items = ItemsIn(hit) \cup {LocalItem},
                    !.promise = "resolved"]

PreVars == <<part, index, remote, lru>>

\* The page is opened, or reloaded: what was under way is gone.  A storage that
\* does not take the first item tried is not used.
OpenPage(taken) ==
  /\ part = "prefetch"
  /\ pre' = Initialized([pre EXCEPT !.thumbprint = pre.deployed, !.noop = ~taken,
                                    !.opened = pre.time, !.promise = "none",
                                    !.orphans = 0])
  /\ UNCHANGED PreVars

\* initialize(true)
ForceInitialize ==
  /\ part = "prefetch"
  /\ pre.promise # "none" /\ pre.orphans < MaxFetches
  /\ pre' = Initialized(pre)
  /\ UNCHANGED PreVars

UnderWay(latest) == IF latest THEN pre.promise = "pending" ELSE pre.orphans > 0

\* What setItem makes of a store: all is written; the quota is reached; another
\* error meets the data, which are as long as the index, or every write.
Writes == {"all", "quota", "notData", "nothing"}

\* PersistentStorage.set of data, protocol and thumbprint, each with its time.
\* Only an error named for the quota empties the storage and gives it up: any
\* other is swallowed, and what could not be written stays as it was.
Store(p, entry, write) ==
  IF p.noop \/ write = "nothing" THEN p
  ELSE IF write = "quota" THEN [p EXCEPT !.stored = {}, !.noop = TRUE]
  ELSE IF write = "all" THEN [p EXCEPT !.stored = {entry}]
  ELSE [p EXCEPT !.stored = {[entry EXCEPT !.items = s.items] : s \in @},
                 !.relabelled = @ \/ p.stored # {}]

\* The data are added, then the whole index is stored; then the local data.
PrefetchAnswers(latest, write) ==
  /\ part = "prefetch"
  /\ UnderWay(latest)
  /\ LET items == pre.items \cup {Fetched(pre.thumbprint, pre.time)}
         entry == [items |-> items, thumbprint |-> pre.thumbprint,
                   until |-> pre.time + Ttl]
         p == [pre EXCEPT !.orphans = IF latest THEN @ ELSE @ - 1,
                          !.items = items \cup {LocalItem},
                          !.promise = IF latest THEN "resolved" ELSE @]
     IN pre' = Store(p, entry, write)
  /\ UNCHANGED PreVars

PrefetchFails(latest) ==
  /\ part = "prefetch"
  /\ UnderWay(latest)
  /\ pre' = [pre EXCEPT !.orphans = IF latest THEN @ ELSE @ - 1,
                        !.promise = IF latest THEN "rejected" ELSE @]
  /\ UNCHANGED PreVars

\* add, clear and clearPrefetchCache.
AddData ==
  /\ part = "prefetch"
  /\ pre' = [pre EXCEPT !.items = @ \cup {Added}]
  /\ UNCHANGED PreVars

ClearIndex ==
  /\ part = "prefetch"
  /\ pre' = [pre EXCEPT !.items = {}, !.cleared = TRUE]
  /\ UNCHANGED PreVars

ClearPrefetchCache ==
  /\ part = "prefetch"
  /\ pre' = [pre EXCEPT !.stored = IF pre.noop THEN @ ELSE {}]
  /\ UNCHANGED PreVars

\* Time passes; the site is deployed with another thumbprint.
Tick ==
  /\ part = "prefetch"
  /\ pre.time < MaxTime
  /\ pre' = [pre EXCEPT !.time = @ + 1]
  /\ UNCHANGED PreVars

Deploy ==
  /\ part = "prefetch"
  /\ pre.deployed < Versions
  /\ pre' = [pre EXCEPT !.deployed = @ + 1]
  /\ UNCHANGED PreVars

-----------------------------------------------------------------------------
EngineInit == part \in Parts /\ IndexInit /\ LruInit /\ RemoteInit /\ PreInit

RemoteNext ==
  \/ \E k \in Keys : RemoteSearch(k)
  \/ \E k \in Keys, ok \in BOOLEAN : Respond(k, ok)
  \/ LimiterFires \/ LimitOver \/ ResetCache

PrefetchNext ==
  \/ (\E taken \in BOOLEAN : OpenPage(taken)) \/ ForceInitialize \/ AddData \/ ClearIndex
  \/ ClearPrefetchCache \/ Tick \/ Deploy
  \/ \E latest \in BOOLEAN, write \in Writes : PrefetchAnswers(latest, write)
  \/ \E latest \in BOOLEAN : PrefetchFails(latest)

EngineNext == (\E id \in DOMAIN Datums : AddToIndex(id)) \/ ResetIndex
        \/ RemoteNext \/ PrefetchNext

\* Timers fire and the server answers.
EngineFairness ==
  /\ WF_engineVars(LimiterFires) /\ WF_engineVars(LimitOver)
  /\ \A k \in Keys : WF_engineVars(\E ok \in BOOLEAN : Respond(k, ok))

-----------------------------------------------------------------------------
(* Properties *)

\* Ids that sort() leaves in the order in which they compare, as it does strings,
\* and numbers of as many digits.
InTextOrder(ids) == \A i, j \in ids : i < j => SortKey(i) < SortKey(j)

\* The data of which some token begins with each word of a query.
Matching(query) ==
  IF query = <<>> THEN {}
  ELSE {id \in index.datums : \A j \in DOMAIN query :
          \E i \in DOMAIN Datums[id] : IsPrefix(query[j], Datums[id][i])}

\* The trie finds, once each, only data that match the query, and all of them,
\* however often and in which order they were added; of ids that are numbers and
\* sort otherwise than they compare, the walk for a second word may miss some.
SearchFindsPrefixes ==
  part = "index" =>
  \A query \in Queries :
    LET found == ToSet(Search(query))
    IN /\ IsInjective(Search(query))
       /\ found \subseteq Matching(query)
       /\ found = Matching(query) \/ (Len(query) > 1 /\ ~InTextOrder(index.datums))

\* The shared counter is the number of requests under way and stays within
\* its maximum, through joined requests, failures and requests on deck.
PendingRequestsCounted ==
  /\ remote.pendingRequestsCount = Cardinality(DOMAIN remote.pending)
  /\ remote.pendingRequestsCount <= maxPendingRequests

\* A request on deck is one a request under way will take off.
OnDeckHasWaker == remote.onDeck # {} => remote.pending # <<>>

\* list is the list of the cache, from its head on, in both directions.
Listed(l, list) ==
  /\ IsInjective(list)
  /\ IF list = <<>> THEN l.head = Null /\ l.tail = Null
     ELSE l.head = list[1] /\ l.tail = Last(list) /\ l.next[l.tail] = Null
  /\ \A i \in 1..Len(list) - 1 : /\ l.next[list[i]] = list[i + 1]
                                 /\ l.prev[list[i + 1]] = list[i]

\* The nodes of the cache's list are those its hash holds, each under its key,
\* within its size - until a head that was moved to the front is moved there
\* again, which links it to itself or puts an evicted node in its place
\* (moveToFront); a cleared cache begins anew.
LruSound ==
  ~lru.rehit =>
    LET nodes == {lru.hash[k] : k \in DOMAIN lru.hash}
    IN /\ ~lru.threw
       /\ lru.size = Cardinality(DOMAIN lru.hash) /\ lru.size <= CacheSize
       /\ \A k \in DOMAIN lru.hash : lru.key[lru.hash[k]] = k
       /\ \E list \in [1..lru.size -> nodes] : Listed(lru, list)

\* The pool of requests, the place on deck and the cache are kept right through
\* joined requests, failures, evictions and a cleared cache.
TransportSound == PendingRequestsCounted /\ OnDeckHasWaker /\ LruSound

\* When the user has stopped searching, the last search is answered, unless
\* a request waited on deck: on its way back through the limiter it replaces
\* the last search, and is then dropped itself.
LastSearchAnswered ==
  []<>(remote.crowded \/ remote.last \in {"none", "answered"})

\* Prefetched data in the index was fetched under the thumbprint of this page,
\* through reloads, deployments, forced initialisations and a storage that is
\* full or takes nothing, and had not expired when the page was opened.  Not so
\* once two requests of one page overlapped: the second stores what the first
\* fetched as its own; nor once the storage kept old data under a new thumbprint.
PrefetchedIsCurrent ==
  \A item \in pre.items : IsFetched(item) =>
    \/ pre.relabelled
    \/ /\ item[1] = pre.thumbprint
       /\ pre.overlap \/ pre.opened <= item[2] + Ttl

\* An engine that is ready holds the local and the prefetched data, unless the
\* page cleared the index.
ReadyIsComplete ==
  (pre.promise = "resolved" /\ ~pre.cleared) =>
     LocalItem \in pre.items /\ \E item \in pre.items : IsFetched(item)

\* The engine never offers data of another deployment or past their time, but
\* for what a storage may do that PrefetchedIsCurrent names, and is complete when
\* it says that it is ready.
PrefetchSound == PrefetchedIsCurrent /\ ReadyIsComplete
=============================================================================
