-------------------------- MODULE StompReceiptsProofs ---------------------------
(***************************************************************************)
(* Theorems about StompReceipts, for any number of threads, calls and      *)
(* milliseconds.                                                           *)
(***************************************************************************)
EXTENDS StompReceipts, SequenceTheorems, TLAPS

PC == {"idle", "entering", "scanning", "waiting", "woken", "returned", "failed"}

\* A receipt comes from the server, wherever it is on its way.
ReceiptsAreAnswers ==
    /\ receipts \subseteq acked
    /\ \A i \in 1 .. Len(answers) : answers[i] \in acked

ReceiptsInv == TypeOK /\ ReceiptsAreAnswers /\ ReturnsAfterAnAnswer

-----------------------------------------------------------------------------
(* Type correctness, and with it the mutual exclusion of the monitor.        *)

LEMMA TypeInit == Init => TypeOK
<1> SUFFICES ASSUME Init PROVE TypeOK
  OBVIOUS
<1>1. call \in [Threads -> AllCalls]
  BY DEF Init, AllCalls
<1>2. /\ ms \in 0 .. MaxTime /\ id \in [Threads -> 0 .. MaxTime]
      /\ count \in [Threads -> 0 .. MaxCalls]
      /\ requests \in Seq(0 .. MaxTime) /\ answers \in Seq(0 .. MaxTime)
  BY BoundsAssumption DEF Init
<1> QED
  BY <1>1, <1>2, NobodyAssumption DEF Init, TypeOK

\* One thread's step to another place in the code, in or out of the monitor.
LEMMA MonitorStep ==
    ASSUME TypeOK, NEW t \in Threads, NEW p \in PC,
           pc' = [pc EXCEPT ![t] = p],
           \/ monitor' = monitor /\ pc[t] # "scanning" /\ p # "scanning"
           \/ monitor' = t /\ monitor = None /\ p = "scanning"
           \/ monitor' = None /\ pc[t] = "scanning" /\ p # "scanning"
    PROVE  /\ pc' \in [Threads -> PC]
           /\ monitor' \in Threads \cup {None}
           /\ \A u \in Threads : pc'[u] = "scanning" <=> monitor' = u
  BY NobodyAssumption DEF TypeOK, PC

\* Every step keeps the types.
LEMMA TypeStep == TypeOK /\ [Next]_vars => TypeOK'
<1> SUFFICES ASSUME TypeOK, [Next]_vars PROVE TypeOK'
  OBVIOUS
<1> USE BoundsAssumption, NobodyAssumption
<1>1. CASE Tick
  BY <1>1 DEF TypeOK, Tick, threadVars, netVars
<1>2. ASSUME NEW t \in Threads, NEW c \in Calls, Call(t, c) PROVE TypeOK'
  <2>1. call' \in [Threads -> AllCalls] /\ id' \in [Threads -> 0 .. MaxTime]
    BY <1>2, CallsAssumption DEF TypeOK, Call
  <2>2. count' \in [Threads -> 0 .. MaxCalls]
    BY <1>2 DEF TypeOK, Call
  <2>3. requests' \in Seq(0 .. MaxTime)
    BY <1>2, AppendProperties DEF TypeOK, Call
  <2>4. PICK p \in {"entering", "returned"} : pc' = [pc EXCEPT ![t] = p]
    BY <1>2 DEF Call
  <2>5. pc[t] # "scanning" /\ UNCHANGED <<ms, monitor, receipts, receiver, answers, acked>>
    BY <1>2 DEF Call
  <2>6. /\ pc' \in [Threads -> PC]
        /\ \A u \in Threads : pc'[u] = "scanning" <=> monitor' = u
    BY <2>4, <2>5, MonitorStep DEF PC
  <2> QED
    BY <2>1, <2>2, <2>3, <2>5, <2>6 DEF TypeOK, PC
<1>3. ASSUME NEW t \in Threads, Enter(t) \/ Find(t) \/ Timeout(t) PROVE TypeOK'
  <2>1. PICK p \in PC :
          /\ pc' = [pc EXCEPT ![t] = p]
          /\ \/ monitor' = monitor /\ pc[t] # "scanning" /\ p # "scanning"
             \/ monitor' = t /\ monitor = None /\ p = "scanning"
             \/ monitor' = None /\ pc[t] = "scanning" /\ p # "scanning"
    BY <1>3 DEF Enter, Find, Timeout, PC
  <2>2. UNCHANGED <<ms, call, id, count, receipts, receiver, requests, answers, acked>>
    BY <1>3 DEF Enter, Find, Timeout, netVars
  <2>3. /\ pc' \in [Threads -> PC] /\ monitor' \in Threads \cup {None}
        /\ \A u \in Threads : pc'[u] = "scanning" <=> monitor' = u
    BY <2>1, MonitorStep
  <2> QED
    BY <2>2, <2>3 DEF TypeOK, PC
<1>4. CASE Collect
  <2>1. Head(answers) \in 0 .. MaxTime /\ answers' \in Seq(0 .. MaxTime)
    BY <1>4, HeadTailProperties DEF TypeOK, Collect
  <2>3. /\ receipts' \subseteq 0 .. MaxTime /\ receiver' = "notifying"
        /\ UNCHANGED <<ms, call, id, count, requests, acked>>
    BY <1>4, <2>1 DEF TypeOK, Collect
  <2>2. /\ pc' \in [Threads -> PC] /\ monitor' \in Threads \cup {None}
        /\ \A u \in Threads : pc'[u] = "scanning" <=> monitor' = u
    <3>1. CASE UNCHANGED <<pc, monitor>>
      BY <3>1 DEF TypeOK, PC
    <3>2. ASSUME NEW t \in Threads, pc[t] = "scanning",
                 pc' = [pc EXCEPT ![t] = "failed"], monitor' = None
          PROVE  /\ pc' \in [Threads -> PC] /\ monitor' \in Threads \cup {None}
                 /\ \A u \in Threads : pc'[u] = "scanning" <=> monitor' = u
      BY <3>2, MonitorStep DEF PC
    <3> QED
      BY <1>4, <3>1, <3>2 DEF Collect
  <2> QED
    BY <2>1, <2>2, <2>3 DEF TypeOK, PC
<1>5. CASE Notify
  <2>1. receiver' = "reading"
        /\ UNCHANGED <<ms, call, id, count, monitor, receipts, requests, answers, acked>>
    BY <1>5 DEF Notify, netVars
  <2>2. /\ pc' \in [Threads -> PC] /\ monitor' \in Threads \cup {None}
        /\ \A u \in Threads : pc'[u] = "scanning" <=> monitor' = u
    <3>1. CASE UNCHANGED pc
      BY <2>1, <3>1 DEF TypeOK, PC
    <3>2. ASSUME NEW t \in Threads, pc[t] = "waiting", pc' = [pc EXCEPT ![t] = "woken"]
          PROVE  /\ pc' \in [Threads -> PC] /\ monitor' \in Threads \cup {None}
                 /\ \A u \in Threads : pc'[u] = "scanning" <=> monitor' = u
      BY <2>1, <3>2, MonitorStep DEF PC
    <3> QED
      BY <1>5, <3>1, <3>2 DEF Notify
  <2> QED
    BY <2>1, <2>2 DEF TypeOK, PC
<1>6. CASE Answer
  <2>1. Head(requests) \in 0 .. MaxTime /\ requests' \in Seq(0 .. MaxTime)
    BY <1>6, HeadTailProperties DEF TypeOK, Answer
  <2>2. answers' \in Seq(0 .. MaxTime) /\ acked' \subseteq 0 .. MaxTime
    BY <1>6, <2>1, AppendProperties DEF TypeOK, Answer
  <2> QED
    BY <1>6, <2>1, <2>2 DEF TypeOK, Answer, threadVars
<1>7. CASE UNCHANGED vars
  BY <1>7 DEF TypeOK, vars, threadVars, netVars
<1> QED
  BY <1>1, <1>2, <1>3, <1>4, <1>5, <1>6, <1>7 DEF Next, Thread

\* The types; and at most one thread is in the monitor, though the receiver
\* changes the list outside it and a reader may be thrown out of it.
THEOREM ReceiptsTypeCorrect == Spec => []TypeOK
  BY TypeInit, TypeStep, PTL DEF Spec

-----------------------------------------------------------------------------
(* A call returns on an answer only.                                         *)

LEMMA AnswersStep == TypeOK /\ ReceiptsAreAnswers /\ [Next]_vars => ReceiptsAreAnswers'
<1> SUFFICES ASSUME TypeOK, ReceiptsAreAnswers, [Next]_vars PROVE ReceiptsAreAnswers'
  OBVIOUS
<1>1. CASE Collect
  <2>1. /\ answers \in Seq(0 .. MaxTime) /\ answers # <<>> /\ answers' = Tail(answers)
        /\ receipts' = receipts \cup {Head(answers)} /\ acked' = acked
    BY <1>1 DEF TypeOK, Collect
  <2>2. /\ \E i \in 1 .. Len(answers) : Head(answers) = answers[i]
        /\ \A i \in 1 .. Len(answers') : \E j \in 1 .. Len(answers) : answers'[i] = answers[j]
    <3>1. /\ Len(answers) \in Nat \ {0} /\ Len(answers') = Len(answers) - 1
          /\ Head(answers) = answers[1]
          /\ \A i \in 1 .. Len(answers') : answers'[i] = answers[i + 1]
      BY <2>1, HeadTailProperties, EmptySeq
    <3> QED
      BY <3>1
  <2> QED
    BY <2>1, <2>2 DEF ReceiptsAreAnswers
<1>2. CASE Answer
  <2>1. /\ requests \in Seq(0 .. MaxTime) /\ requests # <<>>
        /\ answers \in Seq(0 .. MaxTime)
        /\ answers' = Append(answers, Head(requests)) /\ acked' = acked \cup {Head(requests)}
        /\ receipts' = receipts
    BY <1>2 DEF TypeOK, Answer
  <2>2. \A i \in 1 .. Len(answers') :
            \/ i \in 1 .. Len(answers) /\ answers'[i] = answers[i]
            \/ answers'[i] = Head(requests)
    BY <2>1, HeadTailProperties, AppendProperties
  <2> QED
    BY <2>1, <2>2 DEF ReceiptsAreAnswers
<1>3. CASE UNCHANGED <<receipts, answers, acked>>
  BY <1>3 DEF ReceiptsAreAnswers
<1> QED
  BY <1>1, <1>2, <1>3 DEF Next, Tick, Thread, Call, Enter, Find, Timeout, Notify, vars, netVars

\* Every step keeps that a return follows an answer.
LEMMA ReturnsStep ==
    TypeOK /\ ReceiptsAreAnswers /\ ReturnsAfterAnAnswer /\ [Next]_vars => ReturnsAfterAnAnswer'
<1> SUFFICES ASSUME TypeOK, ReceiptsAreAnswers, ReturnsAfterAnAnswer, [Next]_vars,
                    NEW t \in Threads, pc'[t] = "returned", Waits(call'[t])
             PROVE  id'[t] \in acked'
  BY DEF ReturnsAfterAnAnswer, Waits
<1>1. acked \subseteq acked'
  BY DEF Next, Tick, Thread, Call, Enter, Find, Timeout, Collect, Notify, Answer, vars, netVars
<1>2. ASSUME NEW u \in Threads, NEW c \in Calls, Call(u, c) PROVE id'[t] \in acked'
  <2>1. u # t
    BY <1>2 DEF Call, TypeOK
  <2>2. pc'[t] = pc[t] /\ call'[t] = call[t] /\ id'[t] = id[t]
    BY <1>2, <2>1 DEF Call, TypeOK
  <2> QED
    BY <1>1, <2>2 DEF ReturnsAfterAnAnswer
<1>3. ASSUME NEW u \in Threads, Find(u) PROVE id'[t] \in acked'
  <2>1. pc[t] = "returned" \/ (u = t /\ id[t] \in receipts)
    BY <1>3 DEF Find, TypeOK
  <2>2. UNCHANGED <<call, id>>
    BY <1>3 DEF Find
  <2> QED
    BY <1>1, <2>1, <2>2 DEF ReturnsAfterAnAnswer, ReceiptsAreAnswers
<1>4. CASE pc[t] = "returned" /\ UNCHANGED <<call, id>>
  BY <1>1, <1>4 DEF ReturnsAfterAnAnswer
<1> QED
  <2>1. ASSUME NEW u \in Threads, Enter(u) \/ Timeout(u) PROVE pc[t] = "returned" /\ UNCHANGED <<call, id>>
    BY <2>1 DEF Enter, Timeout, TypeOK
  <2>2. CASE Tick \/ Answer \/ UNCHANGED vars
    BY <1>4, <2>2 DEF Tick, Answer, vars, threadVars
  <2>3. CASE Collect \/ Notify
    BY <1>4, <2>3 DEF Collect, Notify, TypeOK
  <2> QED
    BY <1>2, <1>3, <1>4, <2>1, <2>2, <2>3 DEF Next, Thread

\* No wakeup, timeout, or exception in the iteration lets a call that waits for
\* a receipt return before the server has answered a request with its id.
THEOREM ReturnMeansAnswer == Spec => []ReturnsAfterAnAnswer
<1>1. Init => ReceiptsInv
  BY TypeInit DEF Init, ReceiptsInv, ReceiptsAreAnswers, ReturnsAfterAnAnswer
<1>2. ReceiptsInv /\ [Next]_vars => ReceiptsInv'
  BY TypeStep, AnswersStep, ReturnsStep DEF ReceiptsInv
<1>3. ReceiptsInv => ReturnsAfterAnAnswer
  BY DEF ReceiptsInv
<1> QED
  BY <1>1, <1>2, <1>3, PTL DEF Spec
=============================================================================
