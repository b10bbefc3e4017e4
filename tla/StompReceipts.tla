----------------------------- MODULE StompReceipts -----------------------------
(***************************************************************************)
(* The operations of the STOMP client that wait for a receipt (commitW,    *)
(* subscribeW, sendW, unsubscribeW, and waitOnReceipt after a send of the  *)
(* caller's), called by several threads, with the receiver thread that     *)
(* collects receipts and wakes the waiters through Java's monitor of       *)
(* _receipts.  The server answers every request for a receipt.             *)
(***************************************************************************)
EXTENDS Integers, Sequences

CONSTANTS
    Threads,    \* threads that call the client
    Calls,      \* the calls they make, from AllCalls
    None,       \* nobody holds the monitor
    MaxTime,    \* bound: the clock, in milliseconds
    MaxCalls    \* bound: calls of one thread

\* op is commitW, subscribeW and sendW, which differ in the command only
\* ("operation"), unsubscribeW ("unsubscribe"), or waitOnReceipt with a timeout
\* for a receipt the caller has asked for himself, under an id made in the same
\* way ("timed"); header tells whether the caller passed a map of headers.
AllCalls == [op : {"operation", "unsubscribe"}, header : BOOLEAN]
              \cup {[op |-> "timed", header |-> TRUE]}

ASSUME CallsAssumption == Calls \subseteq AllCalls
ASSUME NobodyAssumption == None \notin Threads
ASSUME BoundsAssumption == MaxTime \in Nat /\ MaxCalls \in Nat

\* unsubscribeW(name) does not wait; the others do.
Waits(call) == call.op # "unsubscribe" \/ call.header

\* addReceipt writes into the map the caller passed, if there is one, and
\* unsubscribeW sends no headers at all.
Asks(call) == call.op # "unsubscribe" /\ call.header

VARIABLES
    ms,         \* System.currentTimeMillis
    pc,         \* of each thread: idle, entering, scanning, waiting, woken, returned, failed
    call,       \* of each thread: its call
    id,         \* of each thread: the receipt id of its call
    count,      \* of each thread: calls made, which MaxCalls bounds
    monitor,    \* the holder of the monitor of _receipts
    receipts,   \* Stomp._receipts, as the set of its members
    receiver,   \* the receiver thread: reading, or about to notify
    requests,   \* the ids of the receipts asked for, under way to the server
    answers,    \* receipts under way to the client
    acked       \* history: the ids the server has answered

threadVars == <<pc, call, id, count>>
netVars == <<requests, answers, acked>>
vars == <<ms, threadVars, monitor, receipts, receiver, netVars>>

Init ==
    /\ ms = 0
    /\ pc = [t \in Threads |-> "idle"]
    /\ call = [t \in Threads |-> [op |-> "operation", header |-> TRUE]]
    /\ id = [t \in Threads |-> 0] /\ count = [t \in Threads |-> 0]
    /\ monitor = None /\ receipts = {} /\ receiver = "reading"
    /\ requests = <<>> /\ answers = <<>> /\ acked = {}

Tick ==
    /\ ms < MaxTime
    /\ ms' = ms + 1
    /\ UNCHANGED <<threadVars, monitor, receipts, receiver, netVars>>

-----------------------------------------------------------------------------
(* The calling threads.                                                      *)

\* addReceipt and transmit.  The id is the client's hash code and the time, so
\* calls of one client differ in the time only.
Call(t, c) ==
    /\ pc[t] \in {"idle", "returned", "failed"} /\ count[t] < MaxCalls
    /\ call' = [call EXCEPT ![t] = c]
    /\ id' = [id EXCEPT ![t] = ms]
    /\ count' = [count EXCEPT ![t] = @ + 1]
    /\ pc' = [pc EXCEPT ![t] = IF Waits(c) THEN "entering" ELSE "returned"]
    /\ requests' = IF Asks(c) THEN Append(requests, ms) ELSE requests
    /\ UNCHANGED <<ms, monitor, receipts, receiver, answers, acked>>

\* Entering the synchronized block of waitOnReceipt, or returning from wait.
Enter(t) ==
    /\ pc[t] \in {"entering", "woken"} /\ monitor = None
    /\ monitor' = t
    /\ pc' = [pc EXCEPT ![t] = "scanning"]
    /\ UNCHANGED <<ms, call, id, count, receipts, receiver, netVars>>

\* Mutant: waiting once, not in a loop.
FindOrGiveUp(t) ==
    /\ pc[t] = "scanning"
    /\ pc' = [pc EXCEPT ![t] = "returned"]
    /\ monitor' = None
    /\ UNCHANGED <<ms, call, id, count, receipts, receiver, netVars>>

\* hasReceipt: return, or wait and release the monitor.
Find(t) ==
    /\ pc[t] = "scanning"
    /\ pc' = [pc EXCEPT ![t] = IF id[t] \in receipts THEN "returned" ELSE "waiting"]
    /\ monitor' = None
    /\ UNCHANGED <<ms, call, id, count, receipts, receiver, netVars>>

\* wait(timeout) ends by itself, and the loop looks again.
Timeout(t) ==
    /\ pc[t] = "waiting" /\ call[t].op = "timed"
    /\ pc' = [pc EXCEPT ![t] = "woken"]
    /\ UNCHANGED <<ms, call, id, count, monitor, receipts, receiver, netVars>>

-----------------------------------------------------------------------------
(* The receiver thread and the server.                                       *)

\* Mutant: collecting without waking anybody.
CollectOnly ==
    /\ receiver = "reading" /\ answers # <<>>
    /\ receipts' = receipts \cup {Head(answers)}
    /\ answers' = Tail(answers)
    /\ UNCHANGED <<ms, threadVars, monitor, receiver, requests, acked>>

\* receive of a RECEIPT: the list is changed outside the monitor.  A thread that
\* iterates over it at that moment may fail (ConcurrentModificationException),
\* and leaves the monitor.
Collect ==
    /\ receiver = "reading" /\ answers # <<>>
    /\ receipts' = receipts \cup {Head(answers)}
    /\ answers' = Tail(answers)
    /\ receiver' = "notifying"
    /\ \/ UNCHANGED <<pc, monitor>>
       \/ \E t \in Threads :
             /\ pc[t] = "scanning"
             /\ pc' = [pc EXCEPT ![t] = "failed"]
             /\ monitor' = None
    /\ UNCHANGED <<ms, call, id, count, requests, acked>>

\* Then one waiting thread is woken, in the monitor.
Notify ==
    /\ receiver = "notifying" /\ monitor = None
    /\ \/ /\ \A t \in Threads : pc[t] # "waiting"
          /\ UNCHANGED pc
       \/ \E t \in Threads :
             /\ pc[t] = "waiting"
             /\ pc' = [pc EXCEPT ![t] = "woken"]
    /\ receiver' = "reading"
    /\ UNCHANGED <<ms, call, id, count, monitor, receipts, netVars>>

Answer ==
    /\ requests # <<>>
    /\ answers' = Append(answers, Head(requests))
    /\ acked' = acked \cup {Head(requests)}
    /\ requests' = Tail(requests)
    /\ UNCHANGED <<ms, threadVars, monitor, receipts, receiver>>

Thread(t) == \/ \E c \in Calls : Call(t, c)
             \/ Enter(t) \/ Find(t) \/ Timeout(t)

Next == Tick \/ (\E t \in Threads : Thread(t)) \/ Collect \/ Notify \/ Answer

\* The receiver and the server go on; a thread that wants the monitor gets it in
\* the end, and a timeout passes.  No thread has to make a call.
Fairness ==
    /\ WF_vars(Collect) /\ SF_vars(Notify) /\ WF_vars(Answer)
    /\ \A t \in Threads : SF_vars(Enter(t)) /\ WF_vars(Find(t)) /\ WF_vars(Timeout(t))

Spec == Init /\ [][Next]_vars
FairSpec == Spec /\ Fairness

-----------------------------------------------------------------------------
(* Properties.                                                               *)

\* Types of the variables; the monitor is held exactly while its thread scans.
TypeOK ==
    /\ ms \in 0 .. MaxTime
    /\ pc \in [Threads -> {"idle", "entering", "scanning", "waiting", "woken",
                           "returned", "failed"}]
    /\ call \in [Threads -> AllCalls] /\ id \in [Threads -> 0 .. MaxTime]
    /\ count \in [Threads -> 0 .. MaxCalls]
    /\ monitor \in Threads \cup {None}
    /\ \A t \in Threads : pc[t] = "scanning" <=> monitor = t
    /\ receipts \subseteq 0 .. MaxTime
    /\ receiver \in {"reading", "notifying"}
    /\ requests \in Seq(0 .. MaxTime) /\ answers \in Seq(0 .. MaxTime)
    /\ acked \subseteq 0 .. MaxTime

\* A call that waits returns only after the server has answered a request with
\* its id: no wakeup, timeout or data race lets it through early.
ReturnsAfterAnAnswer ==
    \A t \in Threads : pc[t] = "returned" /\ Waits(call[t]) => id[t] \in acked

\* What the client's comments say of subscribeW and sendW, that the call blocks
\* until it receives a receipt: when the receipt has come, a call that waits for
\* it goes on.
ReceiptEndsWait ==
    \A t \in Threads :
        (pc[t] = "waiting" /\ id[t] \in receipts) ~> pc[t] # "waiting"

\* A call that asks for a receipt ends, in a return or in the exception of a
\* list that changed under the iteration, whether the receipt comes before, while
\* or after the thread looks for it: if no other thread waits, which may be given
\* the wakeup, and in any case if the wait has a timeout.
CallEnds ==
    \A t \in Threads :
        (pc[t] = "entering" /\ Asks(call[t]))
            ~> \/ pc[t] \in {"returned", "failed"}
               \/ call[t].op # "timed" /\ \E u \in Threads \ {t} : pc[u] = "waiting"
=============================================================================
