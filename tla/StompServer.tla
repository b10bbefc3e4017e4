---------------------------- MODULE StompServer ----------------------------
(***************************************************************************)
(* The embeddable STOMP server (Server.java) between clients in the same   *)
(* virtual machine (IntraVMClient), whose threads call it directly, and    *)
(* clients on the network, each behind the thread of a SocketHandler.  The *)
(* threads meet in three kinds of monitor: _transactions, the server's     *)
(* _listeners, and the _listeners of each client in the machine.           *)
(***************************************************************************)
EXTENDS Integers, Sequences, FiniteSets, SequencesExt

CONSTANTS Local,        \* clients in the virtual machine
          Remote,       \* network clients
          Channels,
          Denied,       \* pairs of a network client and a channel that the
                        \* authenticator refuses
          MaxCalls,     \* bound: calls of all clients together
          May           \* bound: the requests each client makes, as pairs
                        \* of a command and a channel

Clients == Local \cup Remote
None == "none"

\* A HashMap of fewer than 13 entries does not grow: a get without the monitor
\* then misses no entry of its own thread (_transactions.get in receive).
ASSUME ServerAssumption == /\ Local \cap Remote = {} /\ None \notin Clients
                           /\ Denied \subseteq Remote \X Channels
                           /\ MaxCalls \in Nat
                           /\ IsFiniteSet(Clients) /\ Cardinality(Clients) <= 12

\* A request of a channel names one.
OfChannel == {"SEND", "SUBSCRIBE", "UNSUBSCRIBE"}

ASSUME MayAssumption ==
  \A c \in Clients : May[c] \subseteq (OfChannel \X Channels)
                                 \cup ({"BEGIN", "COMMIT", "ABORT", "DISCONNECT"} \X {None})

VARIABLES
  subs,      \* _listeners: the subscribers of a channel
  open,      \* the clients with an entry in _transactions
  trans,     \* and what is queued in it
  txLock,    \* the owner of the monitor of _transactions
  subLock,   \* the owner of the monitor of _listeners
  todo,      \* the requests a client's thread still has to receive
  left,      \* the subscribers its SEND is still to be delivered to
  inClient,  \* the client's thread is in unsubscribe(name, l), in the
             \* monitor of its own _listeners
  socket,    \* of a network client: "open", "full" (it does not read, and its
             \* buffers take no more), "lost", "closed"
  granted,   \* _authenticated
  running,   \* the thread calls, or reads, more requests
  calls,     \* number of calls made
  got,       \* the messages a client received
  receipts,  \* the requests it had receipts for
  aborted,   \* messages of transactions that were aborted
  nested     \* clients that began a transaction in a transaction

serverVars == <<subs, open, trans, txLock, subLock>>
threadVars == <<todo, left, inClient, socket, granted, running, calls>>
seenVars == <<got, receipts, aborted, nested>>
vars == <<serverVars, threadVars, seenVars>>

Init ==
  /\ subs = [ch \in Channels |-> <<>>]
  /\ open = {} /\ trans = [c \in Clients |-> <<>>]
  /\ txLock = None /\ subLock = None
  /\ todo = [c \in Clients |-> <<>>] /\ left = [c \in Clients |-> <<>>]
  /\ inClient = {}
  /\ socket = [c \in Clients |-> "open"]
  /\ granted = Local /\ running = Clients
  /\ calls = [c \in Clients |-> 0]
  /\ got = [c \in Clients |-> <<>>] /\ receipts = [c \in Clients |-> {}]
  /\ aborted = {} /\ nested = {}

Idle(c) == todo[c] = <<>>

\* A network client that is there, whether it reads or not.
Attached == {"open", "full"}

\* The requests of a client; a SEND is identified by its sender and number.
Request(c, cmd, ch) == [cmd |-> cmd, ch |-> ch, id |-> <<c, calls[c] + 1>>]

Calls(c) ==
  /\ Idle(c) /\ c \in running /\ socket[c] \in Attached
  /\ MapThenSumSet(LAMBDA d : calls[d], Clients) < MaxCalls
  /\ calls' = [calls EXCEPT ![c] = @ + 1]

-----------------------------------------------------------------------------
(* Calls. *)

\* A method of Stomp that transmits one request.  disconnect forgets the
\* server; commit(Map) transmits BEGIN, and is one more way to call begin.
LocalCall(c, cmd, ch) ==
  /\ c \in Local /\ Calls(c)
  /\ todo' = [todo EXCEPT ![c] = <<Request(c, cmd, ch)>>]
  /\ running' = IF cmd = "DISCONNECT" THEN running \ {c} ELSE running
  /\ UNCHANGED <<serverVars, left, inClient, socket, granted, seenVars>>

\* unsubscribe(name, l) of the last listener calls the server in the monitor.
Unlisten(c, ch) ==
  /\ c \in Local /\ Calls(c)
  /\ inClient' = inClient \cup {c}
  /\ todo' = [todo EXCEPT ![c] = <<Request(c, "UNSUBSCRIBE", ch)>>]
  /\ UNCHANGED <<serverVars, left, socket, granted, running, seenVars>>

\* A frame reaches the SocketHandler: it answers CONNECT itself, refuses
\* everything before it, and handles DISCONNECT without telling the server.
RemoteFrame(c, cmd, ch) ==
  /\ c \in Remote /\ Calls(c) /\ c \in granted
  /\ todo' = [todo EXCEPT ![c] = <<Request(c, cmd, ch)>>]
  /\ UNCHANGED <<serverVars, left, inClient, socket, granted, running, seenVars>>

\* CONNECTED is written before _authenticated is set.
Login(c) ==
  /\ c \in Remote /\ Calls(c) /\ socket[c] = "open"
  /\ granted' = granted \cup {c}
  /\ UNCHANGED <<serverVars, todo, left, inClient, socket, running, seenVars>>

RemoteDisconnect(c) ==
  /\ c \in Remote /\ Calls(c) /\ c \in granted
  /\ running' = running \ {c} /\ socket' = [socket EXCEPT ![c] = "closed"]
  /\ UNCHANGED <<serverVars, todo, left, inClient, granted, seenVars>>

\* A network client that does not read lets the buffers of its connection run
\* full; then writing to it blocks, until it reads again or goes away.
StopReading(c) ==
  /\ c \in Remote /\ socket[c] = "open"
  /\ socket' = [socket EXCEPT ![c] = "full"]
  /\ UNCHANGED <<serverVars, todo, left, inClient, granted, running, calls, seenVars>>

ReadAgain(c) ==
  /\ c \in Remote /\ socket[c] = "full"
  /\ socket' = [socket EXCEPT ![c] = "open"]
  /\ UNCHANGED <<serverVars, todo, left, inClient, granted, running, calls, seenVars>>

\* A network client goes away; the handler does not notice before it writes.
LoseClient(c) ==
  /\ c \in Remote /\ socket[c] \in Attached
  /\ socket' = [socket EXCEPT ![c] = "lost"]
  /\ UNCHANGED <<serverVars, todo, left, inClient, granted, running, calls, seenVars>>

\* Server.stop interrupts the handlers, which end after their frame; close(-1)
\* looks for handlers among the lists of subscribers and finds none.
Stop ==
  /\ running \cap Remote # {}
  /\ running' = running \ Remote
  /\ UNCHANGED <<serverVars, todo, left, inClient, socket, granted, calls, seenVars>>

-----------------------------------------------------------------------------
(* Server.receive, one step per monitor entered.  In a COMMIT the requests *)
(* of the transaction stand before it in todo, marked "COMMITTED".         *)

First(c) == Head(todo[c])
Receives(c, cmds) == ~Idle(c) /\ left[c] = <<>> /\ First(c).cmd \in cmds
Free(lock, c) == lock \in {None, c}

\* Only a client in the machine sees its receipt: a SocketHandler hands it to
\* Server.receive, which queues it or drops it.  DISCONNECT has no headers,
\* and unsubscribe(name, l) asks for none.
Answer(c) ==
  /\ receipts' = IF c \in Local /\ c \notin inClient /\ First(c).cmd # "DISCONNECT"
                 THEN [receipts EXCEPT ![c] = @ \cup {First(c)}] ELSE receipts
  /\ todo' = [todo EXCEPT ![c] =
                (IF c \in Remote /\ First(c).cmd # "RECEIPT"
                 THEN <<[First(c) EXCEPT !.cmd = "RECEIPT"]>> ELSE <<>>) \o Tail(@)]
  /\ inClient' = inClient \ {c}

\* Mutant: the receipt comes before what was queued is received.
StartCommitEarly(c) ==
  /\ Receives(c, {"COMMIT"}) /\ Free(txLock, c)
  /\ todo' = [todo EXCEPT ![c] = IF c \notin open THEN Tail(@)
                                 ELSE <<[Head(@) EXCEPT !.cmd = "COMMITTED"]>> \o trans[c]]
  /\ txLock' = IF c \in open THEN c ELSE txLock
  /\ open' = open \ {c} /\ trans' = [trans EXCEPT ![c] = <<>>]
  /\ UNCHANGED <<subs, subLock, left, inClient, socket, granted, running, calls, seenVars>>

\* trans = new ArrayList(null) throws when there is no transaction: no receipt.
StartCommit(c) ==
  /\ Receives(c, {"COMMIT"}) /\ Free(txLock, c)
  /\ todo' = [todo EXCEPT ![c] = IF c \notin open THEN Tail(@)
                                 ELSE trans[c] \o <<[Head(@) EXCEPT !.cmd = "COMMITTED"]>>]
  /\ txLock' = IF c \in open THEN c ELSE txLock
  /\ open' = open \ {c} /\ trans' = [trans EXCEPT ![c] = <<>>]
  /\ UNCHANGED <<subs, subLock, left, inClient, socket, granted, running, calls, seenVars>>

\* Mutant: the monitor of _transactions is kept.
EndCommitLocked(c) ==
  /\ Receives(c, {"COMMITTED"})
  /\ txLock' = "nobody"
  /\ Answer(c)
  /\ UNCHANGED <<subs, open, trans, subLock, left, socket, granted, running,
                 calls, got, aborted, nested>>

EndCommit(c) ==
  /\ Receives(c, {"COMMITTED"})
  /\ txLock' = None
  /\ Answer(c)
  /\ UNCHANGED <<subs, open, trans, subLock, left, socket, granted, running,
                 calls, got, aborted, nested>>

\* Mutant: the transaction goes on.
AbortNothing(c) ==
  /\ Receives(c, {"ABORT"}) /\ Free(txLock, c)
  /\ aborted' = aborted \cup {r.id : r \in ToSet(trans[c])}
  /\ Answer(c)
  /\ UNCHANGED <<subs, open, trans, txLock, subLock, left, socket, granted,
                 running, calls, got, nested>>

Abort(c) ==
  /\ Receives(c, {"ABORT"}) /\ Free(txLock, c)
  /\ open' = open \ {c} /\ trans' = [trans EXCEPT ![c] = <<>>]
  /\ aborted' = aborted \cup {r.id : r \in ToSet(trans[c])}
  /\ Answer(c)
  /\ UNCHANGED <<subs, txLock, subLock, left, socket, granted, running, calls,
                 got, nested>>

InTransaction(c) == c \in open

\* Mutant: the last request is queued first.
EnqueueFirst(c) ==
  /\ ~Idle(c) /\ First(c).cmd \notin {"COMMIT", "COMMITTED", "ABORT"}
  /\ InTransaction(c) /\ Free(txLock, c)
  /\ trans' = [trans EXCEPT ![c] = <<First(c)>> \o @]
  /\ nested' = IF First(c).cmd = "BEGIN" THEN nested \cup {c} ELSE nested
  /\ Answer(c)
  /\ UNCHANGED <<subs, open, txLock, subLock, left, socket, granted, running,
                 calls, got, aborted>>

\* Whatever else comes in a transaction, from the replay of another too.
Enqueue(c) ==
  /\ ~Idle(c) /\ First(c).cmd \notin {"COMMIT", "COMMITTED", "ABORT"}
  /\ InTransaction(c) /\ Free(txLock, c)
  /\ trans' = [trans EXCEPT ![c] = Append(@, First(c))]
  /\ nested' = IF First(c).cmd = "BEGIN" THEN nested \cup {c} ELSE nested
  /\ Answer(c)
  /\ UNCHANGED <<subs, open, txLock, subLock, left, socket, granted, running,
                 calls, got, aborted>>

Begin(c) ==
  /\ Receives(c, {"BEGIN"}) /\ ~InTransaction(c) /\ Free(txLock, c)
  /\ open' = open \cup {c}
  /\ Answer(c)
  /\ UNCHANGED <<subs, trans, txLock, subLock, left, socket, granted, running,
                 calls, got, aborted, nested>>

\* Mutant: the monitor of _listeners is left after the copy.
StartSendUnlocked(c) ==
  /\ Receives(c, {"SEND"}) /\ ~InTransaction(c)
  /\ <<c, First(c).ch>> \notin Denied /\ subs[First(c).ch] # <<>>
  /\ Free(subLock, c)
  /\ left' = [left EXCEPT ![c] = subs[First(c).ch]]
  /\ UNCHANGED <<subs, open, trans, txLock, subLock, todo, inClient, socket,
                 granted, running, calls, seenVars>>

\* The list of subscribers is copied, and the monitor kept to the last.
StartSend(c) ==
  /\ Receives(c, {"SEND"}) /\ ~InTransaction(c)
  /\ <<c, First(c).ch>> \notin Denied /\ subs[First(c).ch] # <<>>
  /\ Free(subLock, c)
  /\ subLock' = c /\ left' = [left EXCEPT ![c] = subs[First(c).ch]]
  /\ UNCHANGED <<subs, open, trans, txLock, todo, inClient, socket, granted,
                 running, calls, seenVars>>

\* Listener.message: a client in the machine enters its own monitor; writing to
\* one on the network waits for room, with the monitor of _listeners held, and to
\* a lost one fails, closes its socket and interrupts its thread.
Deliver(c) ==
  /\ left[c] # <<>>
  /\ LET d == Head(left[c])
         rest == Tail(left[c])
     IN /\ d \in inClient => d = c
        /\ socket[d] # "full"
        /\ got' = IF socket[d] = "open" THEN [got EXCEPT ![d] = Append(@, First(c))]
                  ELSE got
        /\ socket' = [socket EXCEPT ![d] = IF @ = "lost" THEN "closed" ELSE @]
        /\ running' = IF socket[d] = "open" THEN running ELSE running \ {d}
        /\ left' = [left EXCEPT ![c] = rest]
        /\ IF rest # <<>> THEN UNCHANGED <<subLock, todo, receipts, inClient>>
           ELSE subLock' = None /\ Answer(c)
  /\ UNCHANGED <<subs, open, trans, txLock, granted, calls, aborted, nested>>

\* A SEND nobody is subscribed to, a request that is refused (its ERROR is
\* written, and then there is a receipt) and a RECEIPT change nothing.
ReceiveNothing(c) ==
  /\ Receives(c, {"SEND", "SUBSCRIBE", "RECEIPT"}) /\ ~InTransaction(c)
  /\ \/ First(c).cmd = "SEND" /\ subs[First(c).ch] = <<>> /\ Free(subLock, c)
     \/ First(c).cmd # "RECEIPT" /\ <<c, First(c).ch>> \in Denied /\ socket[c] # "full"
     \/ First(c).cmd = "RECEIPT"
  /\ Answer(c)
  /\ UNCHANGED <<serverVars, left, socket, granted, running, calls, got,
                 aborted, nested>>

Change(c) ==
  /\ Receives(c, {"SUBSCRIBE", "UNSUBSCRIBE", "DISCONNECT"}) /\ ~InTransaction(c)
  /\ First(c).cmd = "SUBSCRIBE" => <<c, First(c).ch>> \notin Denied
  /\ Free(subLock, c)
  /\ LET r == First(c)
     IN subs' = CASE r.cmd = "SUBSCRIBE" ->
                       [subs EXCEPT ![r.ch] = IF c \in ToSet(@) THEN @ ELSE Append(@, c)]
                  [] r.cmd = "UNSUBSCRIBE" -> [subs EXCEPT ![r.ch] = RemoveFirst(@, c)]
                  [] r.cmd = "DISCONNECT" -> [ch \in Channels |-> RemoveFirst(subs[ch], c)]
  /\ Answer(c)
  /\ UNCHANGED <<open, trans, txLock, subLock, left, socket, granted, running,
                 calls, got, aborted, nested>>

-----------------------------------------------------------------------------
Step(c) ==
  \/ StartCommit(c) \/ EndCommit(c) \/ Abort(c) \/ Enqueue(c) \/ Begin(c)
  \/ StartSend(c) \/ Deliver(c) \/ ReceiveNothing(c) \/ Change(c)

Connection(c) == \/ Login(c) \/ RemoteDisconnect(c) \/ LoseClient(c)
                 \/ StopReading(c) \/ ReadAgain(c)

Next ==
  \/ \E c \in Clients : Step(c)
  \/ \E c \in Clients : \E q \in May[c] :
       \/ LocalCall(c, q[1], q[2]) \/ RemoteFrame(c, q[1], q[2])
       \/ q[1] = "UNSUBSCRIBE" /\ Unlisten(c, q[2])
  \/ \E c \in Clients : Connection(c)
  \/ Stop

\* A thread goes on whenever it is neither kept out of a monitor nor waiting to
\* write.  No client has to read.
Spec == Init /\ [][Next]_vars /\ \A c \in Clients : WF_vars(Step(c))

-----------------------------------------------------------------------------
(* Properties *)

Ids(requests) == {r.id : r \in ToSet(requests)}

\* Messages are not delivered until their transaction is committed, and those
\* of an aborted one never ("Messages sent since begin() was called are
\* destroyed"), through replays that open a transaction again.
CommittedOnly ==
  \A c, d \in Clients : Ids(got[d]) \cap (Ids(trans[c]) \cup aborted) = {}

\* A subscriber receives the messages of each sender once and in the order they
\* were sent, in and out of transactions.
InOrderOnce ==
  \A d \in Clients : \A i, j \in DOMAIN got[d] :
    (i < j /\ got[d][i].id[1] = got[d][j].id[1]) => got[d][i].id[2] < got[d][j].id[2]

\* While a message is being delivered, its recipients are the subscribers: none
\* that has unsubscribed receives it, and none that has subscribed is missed.
DeliveredToSubscribers ==
  \A c \in Clients : left[c] # <<>> =>
    /\ ToSet(left[c]) \subseteq ToSet(subs[First(c).ch])
    /\ \A d \in ToSet(subs[First(c).ch]) \ ToSet(left[c]) :
         socket[d] \in Attached => First(c).id \in Ids(got[d])

\* When commitW returns on its receipt, nothing the client asked for before is
\* still queued, unless it began a transaction in a transaction.
CommitConfirms ==
  \A c \in Local \ nested :
    \A a \in receipts[c], r \in ToSet(trans[c] \o todo[c]) :
      a.cmd = "COMMITTED" => r.id[2] > a.id[2]

\* Each of two threads holds the monitor the other waits for: one takes its last
\* listener off a channel (Stomp.unsubscribe), the other delivers to it.
Embrace ==
  \E a, b \in Clients : a \in inClient /\ subLock = b /\ b # a
                        /\ left[b] # <<>> /\ Head(left[b]) = a

\* Every call returns, unless two threads embrace or a network client that has
\* stopped reading never reads again (each delivery is written with the monitor of
\* _listeners held, so that one such subscriber keeps everybody out): the other
\* monitors, taken again in replays and kept through deliveries, keep nobody out
\* for ever.
AllRead == \A d \in Remote : socket[d] # "full"

CallsReturn == <>[]AllRead => \A c \in Clients : ~Idle(c) ~> (Idle(c) \/ Embrace)
=============================================================================
