-------------------------- MODULE StompSessionProofs ---------------------------
(***************************************************************************)
(* Theorems about StompSession, for any number of messages.                *)
(***************************************************************************)
EXTENDS StompSession, SequenceTheorems, TLAPS

Granted == {"session", "subscribed", "gone"}
Registered == {"registered", "subscribed", "disconnecting", "closing", "disconnected"}

\* Whoever believes in the session can: the flag, the frame that will set it,
\* and the threads that went on because of it.
Grants ==
    /\ connected => peer \in Granted
    /\ \A i \in 1 .. Len(toClient) : toClient[i] = Connected => peer \in Granted
    /\ main \in Registered \cup {"loggedIn"} => peer \in Granted
    /\ main = "connecting" => peer = "none" /\ receiver = "none"

\* The listener is there before the command, the subscription and the messages.
Listens ==
    /\ main \in Registered => listening
    /\ \A i \in 1 .. Len(toServer) : toServer[i] = "SUBSCRIBE" => listening
    /\ peer = "subscribed" => listening
    /\ \A i \in 1 .. Len(toClient) : toClient[i].kind = "MESSAGE" => listening

\* An answer to the login at the head of what is under way.
Offset == IF Len(toClient) > 0 /\ toClient[1].kind \in {"CONNECTED", "ERROR"} THEN 1 ELSE 0

\* While the receiver reads, what is under way goes on where the listener is:
\* an answer to the login only at the head, then the next messages, and the
\* cut only at the end.
AnswerFirst ==
    \A i \in 1 .. Len(toClient) : toClient[i].kind \in {"CONNECTED", "ERROR"} => i = 1

CutLast ==
    \A i \in 1 .. Len(toClient) :
        toClient[i].kind = "CUT" => i = Len(toClient) /\ peer = "gone"

Numbered ==
    \A i \in 1 .. Len(toClient) :
        toClient[i].kind = "MESSAGE" => /\ toClient[i].nr = Len(delivered) + i - Offset
                                        /\ toClient[i].nr <= sent

NothingMissing == peer = "subscribed" => Len(delivered) + Len(toClient) - Offset = sent

InTransit == AnswerFirst /\ CutLast /\ Numbered /\ NothingMissing

\* Nothing is sent before the subscription, nothing at all before the answer.
NotYet ==
    /\ peer \in {"none", "greeting"} => toClient = <<>>
    /\ peer \in {"none", "greeting", "refused", "session"} =>
          /\ sent = 0
          /\ \A i \in 1 .. Len(toClient) : i = 1 /\ toClient[i].kind # "MESSAGE"

\* Whoever has a session to use has a receiver thread.
HasReceiver == main \notin {"connecting", "failed"} => receiver # "none"

SessionInv ==
    /\ TypeOK
    /\ HasReceiver
    /\ Grants
    /\ Listens
    /\ NotYet
    /\ receiver # "stopped" => InTransit
    /\ NoMessageQueued
    /\ DeliveredInOrder

-----------------------------------------------------------------------------
\* What a frame is: its kind tells all but the number of a message.
LEMMA FrameKinds ==
    ASSUME NEW f \in Frames
    PROVE  /\ f.kind \in {"CONNECTED", "ERROR", "CUT", "MESSAGE"}
           /\ f.kind = "CONNECTED" <=> f = Connected
           /\ f.kind = "ERROR" <=> f = Refused
           /\ f.kind = "CUT" <=> f = Cut
           /\ f.kind = "MESSAGE" => f.nr \in 1 .. MaxMessages
  BY MessagesAssumption DEF Frames, Connected, Refused, Cut, Message

\* Sending a command changes the commands under way or the errors.
LEMMA TransmitFacts ==
    ASSUME TypeOK, NEW command \in Commands, Transmit(command)
    PROVE  /\ toServer' \in Seq(Commands)
           /\ errors' \in Seq({"text", "null"})
           /\ \A i \in 1 .. Len(toServer') :
                 \/ i \in 1 .. Len(toServer) /\ toServer'[i] = toServer[i]
                 \/ toServer'[i] = command
<1>1. CASE toServer' = Append(toServer, command) /\ errors' = errors
  BY <1>1, AppendProperties DEF TypeOK
<1>2. CASE errors' = Append(errors, "text") /\ toServer' = toServer
  BY <1>2, AppendProperties DEF TypeOK
<1> QED
  BY <1>1, <1>2 DEF Transmit

\* What arrives when the server goes: the first frames under way, and perhaps
\* the beginning of one more.
LEMMA GoAwayFacts ==
    ASSUME TypeOK, GoAway
    PROVE  /\ toClient' \in Seq(Frames)
           /\ Len(toClient') <= Len(toClient) + 1
           /\ \A i \in 1 .. Len(toClient') :
                 \/ i \in 1 .. Len(toClient) /\ toClient'[i] = toClient[i]
                 \/ i = Len(toClient') /\ toClient'[i] = Cut
<1>1. PICK n \in 0 .. Len(toClient) :
          toClient' \in {SubSeq(toClient, 1, n), Append(SubSeq(toClient, 1, n), Cut)}
  BY DEF GoAway
<1>2. /\ SubSeq(toClient, 1, n) \in Seq(Frames) /\ Len(SubSeq(toClient, 1, n)) = n
      /\ \A i \in 1 .. n : SubSeq(toClient, 1, n)[i] = toClient[i]
  BY <1>1, SubSeqProperties, ElementOfSeq, LenProperties DEF TypeOK
<1>3. Cut \in Frames /\ Len(toClient) \in Nat
  BY DEF TypeOK, Frames
<1>4. CASE toClient' = SubSeq(toClient, 1, n)
  BY <1>1, <1>2, <1>3, <1>4
<1>5. CASE toClient' = Append(SubSeq(toClient, 1, n), Cut)
  BY <1>1, <1>2, <1>3, <1>5, AppendProperties
<1> QED
  BY <1>1, <1>4, <1>5

-----------------------------------------------------------------------------
(* Type correctness.                                                         *)

LEMMA TypeInit == Init => TypeOK
<1> SUFFICES ASSUME Init PROVE TypeOK
  OBVIOUS
<1>1. /\ queue \in Seq(1 .. MaxMessages) /\ delivered \in Seq(1 .. MaxMessages)
      /\ sent \in 0 .. MaxMessages
  BY MessagesAssumption DEF Init
<1>2. errors \in Seq({"text", "null"}) /\ toServer \in Seq(Commands) /\ toClient \in Seq(Frames)
  BY DEF Init
<1> QED
  BY <1>1, <1>2 DEF Init, TypeOK

\* Errors may be added, and taken out while there are any.
LEMMA ErrorFacts ==
    ASSUME TypeOK
    PROVE  /\ \A e \in {"text", "null"} : Append(errors, e) \in Seq({"text", "null"})
           /\ errors # <<>> => Tail(errors) \in Seq({"text", "null"})
<1>1. errors \in Seq({"text", "null"})
  BY DEF TypeOK
<1> QED
  BY <1>1, AppendProperties, HeadTailProperties

\* Every step keeps the types,
LEMMA TypeStep == TypeOK /\ HasReceiver /\ [Next]_vars => TypeOK'
<1> SUFFICES ASSUME TypeOK, HasReceiver, [Next]_vars PROVE TypeOK'
  OBVIOUS
<1> USE MessagesAssumption
<1>1. CASE OpenSocket
  BY <1>1 DEF TypeOK, OpenSocket, clientVars
<1>11. CASE OpenFails \/ LoginSucceeds \/ LoginLook \/ CloseSocket
  <2>1. /\ main' \in {"failed", "loggedIn", "asking", "closing"}
        /\ socket' = socket \/ (socket' = "closed" /\ receiver # "none")
        /\ UNCHANGED <<receiver, interrupted, connected, listening, queue, errors, delivered,
                       peer, toServer, toClient, sent>>
    BY <1>11 DEF OpenFails, LoginSucceeds, LoginLook, CloseSocket, clientVars, netVars,
                HasReceiver
  <2> QED
    BY <2>1 DEF TypeOK
<1>2. CASE SendConnect \/ SendSubscribe \/ SendDisconnect
  <2>1. PICK command \in Commands : Transmit(command)
    BY <1>2 DEF SendConnect, SendSubscribe, SendDisconnect, Commands
  <2>2. toServer' \in Seq(Commands) /\ errors' \in Seq({"text", "null"})
    BY <2>1, TransmitFacts
  <2>3. /\ main' \in {"login", "subscribed", "disconnecting"}
        /\ interrupted' \in BOOLEAN
        /\ UNCHANGED <<receiver, socket, connected, listening, queue, delivered, peer,
                       toClient, sent>>
    BY <1>2 DEF TypeOK, SendConnect, SendSubscribe, SendDisconnect
  <2> QED
    BY <2>2, <2>3 DEF TypeOK
<1>3. CASE LoginGoesOn \/ LoginFails
  <2>1. errors' \in Seq({"text", "null"})
    BY <1>3, ErrorFacts DEF LoginGoesOn, LoginFails, nextError
  <2> QED
    BY <1>3, <2>1 DEF TypeOK, LoginGoesOn, LoginFails, netVars
<1>4. CASE Register \/ ClearConnected
  BY <1>4 DEF TypeOK, Register, ClearConnected, netVars
<1>41. CASE CheckInterrupt \/ FindNothing \/ Sleep
  BY <1>41 DEF TypeOK, CheckInterrupt, FindNothing, Sleep, clientVars, netVars
<1>5. CASE HandleFrame
  <2>1. /\ toClient \in Seq(Frames) /\ toClient # <<>> /\ Head(toClient) # Cut
        /\ Receive(Head(toClient)) /\ toClient' = Tail(toClient)
        /\ receiver' = "looping"
        /\ UNCHANGED <<main, interrupted, socket, peer, toServer, sent>>
        /\ receiver # "none"
    BY <1>5 DEF TypeOK, HandleFrame
  <2>2. Head(toClient) \in Frames /\ toClient' \in Seq(Frames)
    BY <2>1, HeadTailProperties
  <2>3. /\ errors' \in Seq({"text", "null"})
        /\ queue' \in Seq(1 .. MaxMessages) /\ delivered' \in Seq(1 .. MaxMessages)
        /\ connected' \in BOOLEAN /\ listening' \in BOOLEAN
    <3>1. CASE Head(toClient).kind = "MESSAGE"
      <4>1. Head(toClient).nr \in 1 .. MaxMessages
        BY <2>2, <3>1, FrameKinds
      <4>2. /\ Append(queue, Head(toClient).nr) \in Seq(1 .. MaxMessages)
            /\ Append(delivered, Head(toClient).nr) \in Seq(1 .. MaxMessages)
        BY <4>1, AppendProperties DEF TypeOK
      <4> QED
        BY <2>1, <3>1, <4>2 DEF Receive, TypeOK
    <3>2. CASE Head(toClient).kind # "MESSAGE"
      BY <2>1, <3>2, ErrorFacts DEF Receive, TypeOK
    <3> QED
      BY <3>1, <3>2
  <2> QED
    BY <2>1, <2>2, <2>3 DEF TypeOK
<1>6. CASE HandleCut \/ HandleClosed \/ StopClosed
  <2>1. errors' \in Seq({"text", "null"})
    <3>1. errors \in Seq({"text", "null"})
      BY DEF TypeOK
    <3>2. errors' = errors \/ \E e \in {"text", "null"} : errors' = Append(errors, e)
      BY <1>6 DEF HandleCut, HandleClosed, StopClosed
    <3> QED
      BY <3>1, <3>2, ErrorFacts
  <2>2. toClient' \in Seq(Frames)
    BY <1>6, HeadTailProperties DEF TypeOK, HandleCut, HandleClosed, StopClosed, netVars
  <2> QED
    BY <1>6, <2>1, <2>2 DEF TypeOK, HandleCut, HandleClosed, StopClosed, netVars
<1>7. CASE AnswerLogin \/ AcceptSubscription
  <2>1. toServer' \in Seq(Commands)
    BY <1>7, HeadTailProperties DEF TypeOK, AnswerLogin, AcceptSubscription, Takes
  <2>2. toClient' \in Seq(Frames)
    <3>1. toClient' \in {toClient, Append(toClient, Connected), Append(toClient, Refused)}
      BY <1>7 DEF AnswerLogin, AcceptSubscription
    <3>2. toClient \in Seq(Frames) /\ Connected \in Frames /\ Refused \in Frames
      BY DEF TypeOK, Frames
    <3> QED
      BY <3>1, <3>2, AppendProperties
  <2>3. /\ peer' \in {"session", "refused", "subscribed"}
        /\ UNCHANGED <<main, receiver, interrupted, socket, connected, listening, queue,
                       errors, delivered, sent>>
    BY <1>7 DEF AnswerLogin, AcceptSubscription, threadVars, clientVars
  <2> QED
    BY <2>1, <2>2, <2>3 DEF TypeOK
<1>8. CASE SendMessage
  <2>1. sent' \in 1 .. MaxMessages
    BY <1>8 DEF TypeOK, SendMessage
  <2>2. toClient' \in Seq(Frames)
    BY <1>8, <2>1, AppendProperties DEF TypeOK, SendMessage, Frames
  <2> QED
    BY <1>8, <2>1, <2>2 DEF TypeOK, SendMessage, threadVars, clientVars
<1>9. CASE GoAway
  <2>1. toClient' \in Seq(Frames)
    BY <1>9, GoAwayFacts
  <2> QED
    BY <1>9, <2>1 DEF TypeOK, GoAway, threadVars, clientVars
<1>10. CASE UNCHANGED vars
  BY <1>10 DEF TypeOK, vars, threadVars, clientVars, netVars
<1> QED
  BY <1>1, <1>2, <1>3, <1>4, <1>41, <1>5, <1>6, <1>7, <1>8, <1>9, <1>10, <1>11
     DEF Next, Subscriber, Owner, ReceiverThread, Server

\* and the receiver thread of whoever has a session.
LEMMA ReceiverStep == TypeOK /\ HasReceiver /\ [Next]_vars => HasReceiver'
<1> SUFFICES ASSUME TypeOK, HasReceiver, [Next]_vars PROVE HasReceiver'
  OBVIOUS
<1> USE DEF HasReceiver
<1>1. CASE Subscriber
  BY <1>1 DEF Subscriber, OpenSocket, OpenFails, SendConnect, LoginSucceeds, LoginLook,
              LoginGoesOn, LoginFails, Register, SendSubscribe
<1>2. CASE Owner
  BY <1>2 DEF Owner, SendDisconnect, CloseSocket, ClearConnected
<1>3. CASE ReceiverThread
  BY <1>3 DEF ReceiverThread, CheckInterrupt, HandleFrame, HandleCut, HandleClosed,
              FindNothing, Sleep, StopClosed
<1>4. CASE Server \/ UNCHANGED vars
  BY <1>4 DEF Server, AnswerLogin, AcceptSubscription, SendMessage, GoAway, vars, threadVars
<1> QED
  BY <1>1, <1>2, <1>3, <1>4 DEF Next

\* The types of the session, and a receiver for every socket: nobody closes or
\* reads a connection that was never opened.
THEOREM SessionTypeCorrect == Spec => []TypeOK
<1>1. Init => TypeOK /\ HasReceiver
  BY TypeInit DEF Init, HasReceiver
<1>2. TypeOK /\ HasReceiver /\ [Next]_vars => (TypeOK /\ HasReceiver)'
  BY TypeStep, ReceiverStep
<1> QED
  BY <1>1, <1>2, PTL DEF Spec

-----------------------------------------------------------------------------
(* The invariant.                                                            *)

LEMMA SessionInit == Init => SessionInv
<1> SUFFICES ASSUME Init PROVE SessionInv
  OBVIOUS
<1>1. TypeOK
  BY TypeInit
<1>2. Grants /\ Listens /\ HasReceiver
  BY DEF Init, Grants, Listens, HasReceiver, Registered
<1>3. NotYet /\ InTransit
  BY DEF Init, NotYet, InTransit, AnswerFirst, CutLast, Numbered, NothingMissing
<1>4. NoMessageQueued /\ DeliveredInOrder
  BY DEF Init, NoMessageQueued, DeliveredInOrder
<1> QED
  BY <1>1, <1>2, <1>3, <1>4 DEF SessionInv

\* What each thread does to the login and the listener.
LEMMA GrantsStep == SessionInv /\ [Next]_vars => Grants'
<1> SUFFICES ASSUME SessionInv, [Next]_vars PROVE Grants'
  OBVIOUS
<1>a. TypeOK /\ Grants /\ NotYet
  BY DEF SessionInv
<1> USE DEF Grants, Granted, Registered
<1>1. CASE Subscriber \/ Owner
  <2>1. UNCHANGED toClient /\ (peer' = peer \/ (main = "connecting" /\ peer' = "greeting" /\ main' = "opened"))
    BY <1>1 DEF Subscriber, OpenSocket, OpenFails, SendConnect, LoginSucceeds, LoginLook,
                LoginGoesOn, LoginFails, Register, SendSubscribe, Owner, SendDisconnect,
                CloseSocket, ClearConnected, netVars
  <2>2. connected' => connected
    BY <1>1 DEF Subscriber, OpenSocket, OpenFails, SendConnect, LoginSucceeds, LoginLook,
                LoginGoesOn, LoginFails, Register, SendSubscribe, Owner, SendDisconnect,
                CloseSocket, ClearConnected, clientVars
  <2>3. /\ main' # "connecting"
        /\ main' \in Registered \cup {"loggedIn"} =>
              connected \/ main \in Registered \cup {"loggedIn"}
    BY <1>1 DEF Subscriber, OpenSocket, OpenFails, SendConnect, LoginSucceeds, LoginLook,
                LoginGoesOn, LoginFails, Register, SendSubscribe, Owner, SendDisconnect,
                CloseSocket, ClearConnected
  <2> QED
    BY <1>a, <2>1, <2>2, <2>3
<1>2. CASE ReceiverThread
  <2>1. UNCHANGED <<main, peer>> /\ receiver # "none"
    BY <1>2 DEF ReceiverThread, CheckInterrupt, HandleFrame, HandleCut, HandleClosed,
                FindNothing, Sleep, StopClosed, netVars
  <2>2. CASE UNCHANGED <<connected, toClient>>
    BY <1>a, <2>1, <2>2
  <2>3. CASE toClient # <<>> /\ toClient' = Tail(toClient)
    <3>1. /\ Head(toClient) \in Frames /\ Head(toClient) = toClient[1]
          /\ \A i \in 1 .. Len(toClient') : i + 1 \in 1 .. Len(toClient) /\ toClient'[i] = toClient[i + 1]
      BY <2>3, HeadTailProperties DEF TypeOK, SessionInv
    <3>2. connected' => connected \/ Head(toClient).kind = "CONNECTED"
      BY <1>2, <2>3 DEF ReceiverThread, CheckInterrupt, HandleFrame, HandleCut, HandleClosed,
                  Receive, FindNothing, Sleep, StopClosed, clientVars
    <3>3. Head(toClient).kind = "CONNECTED" => peer \in Granted
      BY <1>a, <2>3, <3>1, FrameKinds, LenProperties DEF TypeOK
    <3> QED
      BY <1>a, <2>1, <3>1, <3>2, <3>3
  <2>4. CASE ~connected' /\ UNCHANGED toClient
    BY <1>a, <2>1, <2>4
  <2> QED
    BY <1>2, <2>2, <2>3, <2>4 DEF ReceiverThread, CheckInterrupt, HandleFrame, HandleCut,
          HandleClosed, FindNothing, Sleep, StopClosed, clientVars, netVars
<1>3. CASE AnswerLogin \/ AcceptSubscription \/ SendMessage
  <2>1. /\ peer' \in {"session", "subscribed"} \/ (peer' = "refused" /\ peer = "greeting")
        /\ UNCHANGED <<main, connected, receiver>>
    BY <1>3 DEF AnswerLogin, AcceptSubscription, SendMessage, threadVars, clientVars
  <2>2. CASE peer' \in {"session", "subscribed"}
    BY <1>a, <2>1, <2>2, <1>3 DEF AnswerLogin, AcceptSubscription, SendMessage
  <2>3. CASE peer' = "refused" /\ peer = "greeting"
    <3>1. toClient = <<>> /\ toClient' = <<Refused>>
      BY <1>3, <1>a, <2>3 DEF NotYet, AnswerLogin, AcceptSubscription, SendMessage
    <3>2. Refused # Connected
      BY DEF Refused, Connected
    <3> QED
      BY <1>a, <2>1, <2>3, <3>1, <3>2
  <2> QED
    BY <2>1, <2>2, <2>3
<1>5. CASE GoAway
  BY <1>5, <1>a DEF GoAway, threadVars, clientVars
<1>4. CASE UNCHANGED vars
  BY <1>4, <1>a DEF vars, threadVars, clientVars, netVars
<1> QED
  BY <1>1, <1>2, <1>3, <1>4, <1>5 DEF Next, Server

-----------------------------------------------------------------------------
(* The steps, by what they do to what the server sends.                      *)

stream == <<peer, toClient, sent, queue, delivered>>

\* A frame is thrown away with the connection, by a receiver that reads no more.
DropFrame ==
    /\ toClient # <<>> /\ toClient' = Tail(toClient)
    /\ receiver' = "stopped" \/ (receiver' = "stuck" /\ Head(toClient) = Cut)
    /\ UNCHANGED <<peer, sent, queue, delivered>>

\* What a step does to the stream of frames.
LEMMA StreamKinds ==
    ASSUME [Next]_vars
    PROVE  \/ UNCHANGED stream
           \/ OpenSocket
           \/ HandleFrame
           \/ DropFrame
           \/ AnswerLogin
           \/ AcceptSubscription
           \/ SendMessage
           \/ GoAway
<1> USE DEF stream
<1>1. CASE Subscriber
  BY <1>1 DEF Subscriber, OpenFails, SendConnect, LoginSucceeds, LoginLook,
              LoginGoesOn, LoginFails, Register, SendSubscribe, clientVars, netVars
<1>2. CASE Owner
  BY <1>2 DEF Owner, SendDisconnect, CloseSocket, ClearConnected, clientVars, netVars
<1>3. CASE ReceiverThread
  BY <1>3 DEF ReceiverThread, CheckInterrupt, HandleCut, HandleClosed, DropFrame,
              FindNothing, Sleep, StopClosed, clientVars, netVars
<1>4. CASE Server
  BY <1>4 DEF Server
<1>5. CASE UNCHANGED vars
  BY <1>5 DEF vars, clientVars, netVars
<1> QED
  BY <1>1, <1>2, <1>3, <1>4, <1>5 DEF Next

\* A listener stays, and a command is a new one only from the thread that
\* registers it.
LEMMA ListensStep == SessionInv /\ [Next]_vars => Listens'
<1> SUFFICES ASSUME SessionInv, [Next]_vars PROVE Listens'
  OBVIOUS
<1>a. TypeOK /\ Listens
  BY DEF SessionInv
<1>1. listening => listening'
  BY DEF Next, Subscriber, OpenSocket, OpenFails, SendConnect, LoginSucceeds, LoginLook,
         LoginGoesOn, LoginFails, Register, SendSubscribe, Owner, SendDisconnect, CloseSocket,
         ClearConnected, ReceiverThread, CheckInterrupt, HandleFrame, Receive, HandleCut,
         HandleClosed, FindNothing, Sleep, StopClosed, Server, AnswerLogin,
         AcceptSubscription, SendMessage, GoAway, vars, clientVars
<1>2. main' \in Registered => main \in Registered \/ listening'
  BY DEF Registered, Next, Subscriber, OpenSocket, OpenFails, SendConnect, LoginSucceeds,
         LoginLook, LoginGoesOn, LoginFails, Register, SendSubscribe, Owner, SendDisconnect,
         CloseSocket, ClearConnected, ReceiverThread, CheckInterrupt, HandleFrame, HandleCut,
         HandleClosed, FindNothing, Sleep, StopClosed, Server, AnswerLogin,
         AcceptSubscription, SendMessage, GoAway, vars, threadVars
<1>3. \A i \in 1 .. Len(toServer') :
          toServer'[i] = "SUBSCRIBE" => \/ \E j \in 1 .. Len(toServer) : toServer[j] = "SUBSCRIBE"
                                        \/ main \in Registered
  <2>1. CASE SendConnect \/ SendDisconnect
    <3>1. PICK command \in Commands \ {"SUBSCRIBE"} : Transmit(command)
      BY <2>1 DEF SendConnect, SendDisconnect, Commands
    <3> QED
      BY <1>a, <3>1, TransmitFacts
  <2>2. CASE SendSubscribe
    BY <2>2 DEF SendSubscribe, Registered
  <2>3. CASE toServer # <<>> /\ toServer' = Tail(toServer)
    BY <1>a, <2>3, HeadTailProperties DEF TypeOK
  <2>4. CASE UNCHANGED toServer
    BY <2>4
  <2> QED
    BY <2>1, <2>2, <2>3, <2>4
    DEF Next, Subscriber, OpenSocket, OpenFails, LoginSucceeds, LoginLook,
        LoginGoesOn, LoginFails, Register, Owner, CloseSocket, ClearConnected, ReceiverThread,
        CheckInterrupt, HandleFrame, HandleCut, HandleClosed, FindNothing, Sleep, StopClosed, Server, AnswerLogin, AcceptSubscription, Takes, SendMessage, GoAway, vars, netVars
<1>4. peer' = "subscribed" =>
          peer = "subscribed" \/ \E j \in 1 .. Len(toServer) : toServer[j] = "SUBSCRIBE"
  <2>1. ASSUME Takes("SUBSCRIBE") PROVE \E j \in 1 .. Len(toServer) : toServer[j] = "SUBSCRIBE"
    <3>1. 1 \in 1 .. Len(toServer) /\ toServer[1] = "SUBSCRIBE"
      BY <1>a, <2>1 DEF TypeOK, Takes
    <3> QED
      BY <3>1
  <2> QED
    BY <2>1, StreamKinds DEF OpenSocket, HandleFrame, DropFrame, AnswerLogin,
         AcceptSubscription, SendMessage, GoAway, stream
<1>5. \A i \in 1 .. Len(toClient') :
          toClient'[i].kind = "MESSAGE" =>
              \/ \E j \in 1 .. Len(toClient) : toClient[j].kind = "MESSAGE"
              \/ peer = "subscribed"
  <2>1. CASE toClient # <<>> /\ toClient' = Tail(toClient)
    BY <1>a, <2>1, HeadTailProperties DEF TypeOK
  <2>2. CASE AnswerLogin
    <3>1. PICK f \in {Connected, Refused} : toClient' = Append(toClient, f)
      BY <2>2 DEF AnswerLogin
    <3>2. f \in Frames /\ f.kind # "MESSAGE"
      BY DEF Connected, Refused, Frames
    <3> QED
      BY <1>a, <3>1, <3>2, AppendProperties DEF TypeOK
  <2>3. CASE SendMessage
    BY <2>3 DEF SendMessage
  <2>4. CASE GoAway
    BY <1>a, <2>4, GoAwayFacts DEF Cut
  <2>5. CASE UNCHANGED toClient
    BY <2>5
  <2> QED
    BY <2>1, <2>2, <2>3, <2>4, <2>5, StreamKinds
       DEF OpenSocket, HandleFrame, DropFrame, AcceptSubscription, stream
<1> QED
  BY <1>a, <1>1, <1>2, <1>3, <1>4, <1>5 DEF Listens

\* Every step keeps the feed silent before the subscription.
LEMMA NotYetStep == SessionInv /\ [Next]_vars => NotYet'
<1> SUFFICES ASSUME SessionInv, [Next]_vars PROVE NotYet'
  OBVIOUS
<1>a. TypeOK /\ NotYet
  BY DEF SessionInv
<1> USE DEF NotYet
<1>1. CASE UNCHANGED stream
  BY <1>1, <1>a DEF stream
<1>2. CASE OpenSocket
  <2>1. peer = "none" /\ UNCHANGED <<toClient, sent>>
    BY <1>2 DEF OpenSocket, SessionInv, Grants
  <2> QED
    BY <1>a, <2>1
<1>3. CASE HandleFrame \/ DropFrame
  <2>1. toClient \in Seq(Frames) /\ toClient # <<>> /\ toClient' = Tail(toClient)
        /\ UNCHANGED <<peer, sent>>
    BY <1>3, <1>a DEF HandleFrame, DropFrame, TypeOK
  <2>2. peer \in {"none", "greeting", "refused", "session"} => toClient' = <<>>
    BY <1>a, <2>1, HeadTailProperties
  <2> QED
    BY <1>a, <2>1, <2>2
<1>4. CASE AnswerLogin
  <2>1. /\ peer' \in {"session", "refused"} /\ sent' = 0
        /\ toClient' \in {<<Connected>>, <<Refused>>}
    BY <1>4, <1>a DEF AnswerLogin
  <2>2. Connected.kind # "MESSAGE" /\ Refused.kind # "MESSAGE"
    BY DEF Connected, Refused
  <2>3. PICK f \in {Connected, Refused} : toClient' = <<f>>
    BY <2>1
  <2> QED
    BY <2>1, <2>2, <2>3
<1>5. CASE AcceptSubscription \/ SendMessage \/ GoAway
  BY <1>5 DEF AcceptSubscription, SendMessage, GoAway
<1> QED
  BY <1>1, <1>2, <1>3, <1>4, <1>5, StreamKinds

-----------------------------------------------------------------------------
(* The order of the messages.                                                *)

\* Taking the head off what is under way moves the rest one place, and the
\* listener one message.
LEMMA InTransitTail ==
    ASSUME SessionInv, InTransit, HandleFrame
    PROVE  InTransit' /\ queue' = <<>> /\ DeliveredInOrder'
<1>1. /\ toClient \in Seq(Frames) /\ toClient # <<>> /\ toClient' = Tail(toClient)
      /\ Receive(Head(toClient)) /\ Head(toClient) # Cut
  BY DEF SessionInv, TypeOK, HandleFrame
<1>a. UNCHANGED <<peer, sent>>
  BY DEF HandleFrame
<1>2. /\ Head(toClient) \in Frames /\ Head(toClient) = toClient[1]
      /\ Len(toClient) \in Nat \ {0} /\ Len(toClient') = Len(toClient) - 1
  BY <1>1, HeadTailProperties, EmptySeq
<1>3. \A i \in 1 .. Len(toClient') : i + 1 \in 2 .. Len(toClient) /\ toClient'[i] = toClient[i + 1]
  BY <1>1, <1>2, HeadTailProperties
<1>4. Head(toClient).kind \in {"CONNECTED", "ERROR", "MESSAGE"}
  BY <1>1, <1>2, FrameKinds
<1>5. AnswerFirst' /\ Offset' = 0
  <2>1. \A i \in 1 .. Len(toClient') : toClient'[i].kind \notin {"CONNECTED", "ERROR"}
    BY <1>2, <1>3 DEF InTransit, AnswerFirst
  <2> QED
    BY <1>2, <2>1 DEF AnswerFirst, Offset
<1>6. CutLast'
  <2> SUFFICES ASSUME NEW i \in 1 .. Len(toClient'), toClient'[i].kind = "CUT"
               PROVE  i = Len(toClient') /\ peer' = "gone"
    BY DEF CutLast
  <2>1. i + 1 = Len(toClient) /\ peer = "gone"
    BY <1>3 DEF InTransit, CutLast
  <2> QED
    BY <1>a, <1>2, <2>1
<1>7. /\ queue = <<>> /\ Len(delivered) \in Nat /\ sent \in Nat
      /\ Len(delivered) <= sent /\ \A i \in 1 .. Len(delivered) : delivered[i] = i
  BY DEF SessionInv, TypeOK, NoMessageQueued, DeliveredInOrder
<1>8. /\ queue' = <<>>
      /\ Len(delivered') \in Nat /\ Len(delivered') - Offset' = Len(delivered) + 1 - Offset
      /\ DeliveredInOrder'
  <2>1. CASE Head(toClient).kind = "MESSAGE"
    <3>1. delivered' = Append(delivered, Head(toClient).nr) /\ queue' = queue
      BY <1>1, <1>2, <2>1 DEF Receive, SessionInv, Listens
    <3>2. Offset = 0
      BY <1>2, <2>1 DEF Offset
    <3>3. Head(toClient).nr = Len(delivered) + 1 /\ Len(delivered) + 1 <= sent
      BY <1>2, <1>7, <2>1, <3>2 DEF InTransit, Numbered
    <3>4. Len(delivered') = Len(delivered) + 1
          /\ \A i \in 1 .. Len(delivered') : delivered'[i] = i
      <4>1. delivered \in Seq(1 .. MaxMessages) /\ sent \in 0 .. MaxMessages
        BY DEF SessionInv, TypeOK
      <4>2. Len(delivered) + 1 \in 1 .. MaxMessages
        BY <1>7, <3>3, <4>1, MessagesAssumption
      <4> QED
        BY <1>7, <3>1, <3>3, <4>1, <4>2, AppendProperties
    <3> QED
      BY <1>a, <1>5, <1>7, <3>1, <3>2, <3>3, <3>4 DEF DeliveredInOrder
  <2>2. CASE Head(toClient).kind \in {"CONNECTED", "ERROR"}
    <3>1. UNCHANGED <<delivered, queue>>
      BY <1>1, <2>2 DEF Receive
    <3>2. Offset = 1
      BY <1>2, <2>2 DEF Offset
    <3> QED
      BY <1>a, <1>5, <1>7, <3>1, <3>2 DEF DeliveredInOrder
  <2> QED
    BY <1>4, <2>1, <2>2
<1>9. Offset \in {0, 1}
  BY DEF Offset
<1>10. Numbered'
  <2> SUFFICES ASSUME NEW i \in 1 .. Len(toClient'), toClient'[i].kind = "MESSAGE"
               PROVE  toClient'[i].nr = Len(delivered') + i - Offset' /\ toClient'[i].nr <= sent'
    BY DEF Numbered
  <2>1. toClient[i + 1].nr = Len(delivered) + (i + 1) - Offset /\ toClient[i + 1].nr <= sent
    BY <1>3 DEF InTransit, Numbered
  <2>2. toClient'[i] = toClient[i + 1] /\ i \in Nat
    BY <1>2, <1>3
  <2>3. toClient'[i].nr = Len(delivered) + (i + 1) - Offset /\ toClient'[i].nr <= sent
    BY <2>1, <2>2
  <2>4. Len(delivered) + (i + 1) - Offset = Len(delivered') + i - Offset'
    BY <1>5, <1>7, <1>8, <1>9, <2>2
  <2> QED
    BY <1>a, <2>3, <2>4
<1>11. NothingMissing'
  BY <1>a, <1>2, <1>5, <1>7, <1>8, <1>9 DEF InTransit, NothingMissing
<1> QED
  BY <1>5, <1>6, <1>8, <1>10, <1>11 DEF InTransit

\* Order and completeness: a receiver that stops may lose frames, and then
\* nothing is delivered any more.
LEMMA OrderStep ==
    SessionInv /\ [Next]_vars
        => /\ receiver' # "stopped" => InTransit'
           /\ NoMessageQueued'
           /\ DeliveredInOrder'
<1> SUFFICES ASSUME SessionInv, [Next]_vars
             PROVE  /\ receiver' # "stopped" => InTransit'
                    /\ NoMessageQueued'
                    /\ DeliveredInOrder'
  OBVIOUS
<1>a. /\ NoMessageQueued /\ DeliveredInOrder /\ NotYet
      /\ receiver # "stopped" => InTransit
      /\ toClient \in Seq(Frames) /\ Len(toClient) \in Nat
      /\ \A i \in 1 .. Len(toClient) : toClient[i] \in Frames
      /\ sent \in Nat /\ Len(delivered) \in Nat
  BY LenProperties, ElementOfSeq DEF SessionInv, TypeOK
<1>b. receiver = "stopped" => receiver' = "stopped"
  <2>1. CASE Subscriber \/ Owner
    BY <2>1 DEF Subscriber, OpenSocket, OpenFails, SendConnect, LoginSucceeds, LoginLook,
         LoginGoesOn, LoginFails, Register, SendSubscribe, Owner, SendDisconnect, CloseSocket,
         ClearConnected, SessionInv, Grants
  <2>2. CASE ReceiverThread
    BY <2>2 DEF ReceiverThread, CheckInterrupt, HandleFrame, HandleCut, HandleClosed,
         FindNothing, Sleep, StopClosed
  <2>3. CASE Server \/ UNCHANGED vars
    BY <2>3 DEF Server, AnswerLogin, AcceptSubscription, SendMessage, GoAway, vars, threadVars
  <2> QED
    BY <2>1, <2>2, <2>3 DEF Next
<1>1. CASE UNCHANGED stream
  <2>1. UNCHANGED <<toClient, sent, delivered, peer, queue>>
    BY <1>1 DEF stream
  <2>2. InTransit => InTransit'
    BY <2>1 DEF InTransit, AnswerFirst, CutLast, Numbered, NothingMissing, Offset
  <2> QED
    BY <1>a, <1>b, <2>1, <2>2 DEF NoMessageQueued, DeliveredInOrder
<1>2. CASE OpenSocket
  <2>1. /\ toClient = <<>> /\ peer' = "greeting" /\ UNCHANGED <<toClient, delivered, queue, sent>>
    BY <1>2 DEF OpenSocket, SessionInv, Grants, NotYet, clientVars
  <2>2. InTransit'
    BY <2>1 DEF InTransit, AnswerFirst, CutLast, Numbered, NothingMissing
  <2> QED
    BY <1>a, <2>1, <2>2 DEF NoMessageQueued, DeliveredInOrder
<1>3. CASE HandleFrame
  <2>1. receiver # "stopped"
    BY <1>3 DEF HandleFrame
  <2> QED
    BY <1>3, <1>a, <2>1, InTransitTail DEF NoMessageQueued
<1>4. CASE DropFrame
  <2>1. UNCHANGED <<sent, queue, delivered, peer>> /\ toClient # <<>> /\ toClient' = Tail(toClient)
    BY <1>4 DEF DropFrame
  <2>2. CASE receiver' = "stopped"
    BY <1>a, <2>1, <2>2 DEF NoMessageQueued, DeliveredInOrder
  <2>3. CASE Head(toClient) = Cut /\ receiver' = "stuck"
    <3>1. /\ Head(toClient) = toClient[1] /\ Len(toClient) \in Nat \ {0}
          /\ toClient' \in Seq(Frames) /\ Len(toClient') = Len(toClient) - 1
      BY <1>a, <2>1, HeadTailProperties, EmptySeq
    <3>2. CutLast
      BY <1>a, <1>b, <2>3 DEF InTransit
    <3>3. Len(toClient) = 1 /\ peer = "gone"
      <4>1. 1 \in 1 .. Len(toClient) /\ toClient[1].kind = "CUT"
        BY <2>3, <3>1 DEF Cut
      <4> QED
        BY <3>2, <4>1 DEF CutLast
    <3>4. toClient' = <<>>
      BY <3>1, <3>3, EmptySeq
    <3>5. InTransit'
      <4>1. peer' = "gone"
        BY <2>1, <3>3
      <4> QED
        BY <3>4, <4>1 DEF InTransit, AnswerFirst, CutLast, Numbered, NothingMissing
    <3> QED
      BY <1>a, <2>1, <3>5 DEF NoMessageQueued, DeliveredInOrder
  <2> QED
    BY <1>4, <2>2, <2>3 DEF DropFrame
<1>5. CASE AnswerLogin
  <2>1. PICK f \in {Connected, Refused} : toClient' = Append(toClient, f)
    BY <1>5 DEF AnswerLogin
  <2>2. toClient = <<>> /\ peer' # "subscribed" /\ UNCHANGED <<sent, queue, delivered>>
    BY <1>5, <1>a DEF AnswerLogin, NotYet, clientVars
  <2>3. f.kind \in {"CONNECTED", "ERROR"} /\ toClient' = <<f>>
    BY <2>1, <2>2 DEF Connected, Refused
  <2>4. InTransit'
    BY <2>2, <2>3 DEF InTransit, AnswerFirst, CutLast, Numbered, NothingMissing
  <2> QED
    BY <1>a, <2>2, <2>4 DEF NoMessageQueued, DeliveredInOrder
<1>6. CASE AcceptSubscription
  <2>1. /\ peer = "session" /\ UNCHANGED <<toClient, sent, queue, delivered>>
    BY <1>6 DEF AcceptSubscription, clientVars
  <2>2. sent = 0 /\ Len(delivered) = 0
    BY <1>a, <2>1 DEF NotYet, DeliveredInOrder
  <2>3. ASSUME InTransit PROVE InTransit'
    <3>1. Len(toClient) = Offset
      <4>1. \A i \in 1 .. Len(toClient) : i = 1 /\ toClient[i].kind \in {"CONNECTED", "ERROR"}
        <5>1. \A i \in 1 .. Len(toClient) : i = 1 /\ toClient[i].kind # "MESSAGE"
          BY <1>a, <2>1 DEF NotYet
        <5>2. \A i \in 1 .. Len(toClient) : toClient[i].kind # "CUT"
          BY <2>1, <2>3 DEF InTransit, CutLast
        <5> QED
          BY <1>a, <5>1, <5>2, FrameKinds
      <4>2. Len(toClient) \in {0, 1}
        <5>1. 2 \notin 1 .. Len(toClient)
          BY <4>1
        <5>2. Len(toClient) \in Nat
          BY <1>a
        <5> QED
          BY <5>1, <5>2
      <4> QED
        BY <4>1, <4>2 DEF Offset
    <3>2. NothingMissing'
      BY <1>a, <2>1, <2>2, <3>1 DEF NothingMissing, Offset
    <3>3. AnswerFirst' /\ CutLast' /\ Numbered'
      BY <2>1, <2>3 DEF InTransit, AnswerFirst, CutLast, Numbered, Offset
    <3> QED
      BY <3>2, <3>3 DEF InTransit
  <2> QED
    BY <1>a, <1>b, <2>1, <2>3 DEF NoMessageQueued, DeliveredInOrder
<1>7. CASE SendMessage
  <2>1. /\ peer = "subscribed" /\ sent' = sent + 1
        /\ toClient' = Append(toClient, Message(sent + 1))
        /\ UNCHANGED <<peer, queue, delivered>>
        /\ sent + 1 \in 1 .. MaxMessages
    BY <1>7, <1>a, MessagesAssumption DEF SendMessage, clientVars
  <2>2. /\ Len(toClient') = Len(toClient) + 1
        /\ \A i \in 1 .. Len(toClient) : toClient'[i] = toClient[i]
        /\ toClient'[Len(toClient) + 1] = Message(sent + 1)
    BY <1>a, <2>1, AppendProperties DEF Frames
  <2>3. ASSUME InTransit PROVE InTransit'
    <3>1. Offset' = Offset /\ Offset \in {0, 1}
      BY <1>a, <2>2 DEF Offset, Message
    <3>2. AnswerFirst'
      BY <1>a, <2>2, <2>3 DEF InTransit, AnswerFirst, Message
    <3>3. CutLast'
      BY <1>a, <2>1, <2>2, <2>3 DEF InTransit, CutLast, Message
    <3>4. Numbered'
      <4> SUFFICES ASSUME NEW i \in 1 .. Len(toClient'), toClient'[i].kind = "MESSAGE"
                   PROVE  toClient'[i].nr = Len(delivered) + i - Offset /\ toClient'[i].nr <= sent + 1
        BY <2>1, <3>1 DEF Numbered
      <4>1. CASE i \in 1 .. Len(toClient)
        <5>1. toClient[i].nr = Len(delivered) + i - Offset /\ toClient[i].nr <= sent
          BY <2>2, <2>3, <4>1 DEF InTransit, Numbered
        <5> QED
          BY <1>a, <2>2, <3>1, <4>1, <5>1
      <4>2. CASE i = Len(toClient) + 1
        <5>1. toClient'[i].nr = sent + 1
          BY <2>2, <4>2 DEF Message
        <5>2. Len(delivered) + Len(toClient) - Offset = sent
          BY <2>1, <2>3 DEF InTransit, NothingMissing
        <5> QED
          BY <1>a, <3>1, <4>2, <5>1, <5>2
      <4> QED
        BY <1>a, <2>2, <4>1, <4>2
    <3>5. NothingMissing'
      BY <1>a, <2>1, <2>2, <2>3, <3>1 DEF InTransit, NothingMissing
    <3> QED
      BY <3>2, <3>3, <3>4, <3>5 DEF InTransit
  <2> QED
    BY <1>a, <1>b, <2>1, <2>3 DEF NoMessageQueued, DeliveredInOrder
<1>8. CASE GoAway
  <2>1. peer' = "gone" /\ UNCHANGED <<sent, queue, delivered>>
    BY <1>8 DEF GoAway, clientVars
  <2>2. /\ peer # "gone" /\ Len(toClient') \in Nat /\ Cut.kind = "CUT"
        /\ \A i \in 1 .. Len(toClient') :
              \/ i \in 1 .. Len(toClient) /\ toClient'[i] = toClient[i]
              \/ i = Len(toClient') /\ toClient'[i] = Cut
    BY <1>8, GoAwayFacts, LenProperties DEF GoAway, SessionInv, Cut
  <2>3. ASSUME InTransit PROVE InTransit'
    <3>1. AnswerFirst'
      BY <2>2, <2>3 DEF InTransit, AnswerFirst
    <3>2. CutLast'
      BY <2>1, <2>2, <2>3 DEF InTransit, CutLast
    <3>3. Numbered'
      <4> SUFFICES ASSUME NEW i \in 1 .. Len(toClient'), toClient'[i].kind = "MESSAGE"
                   PROVE  toClient'[i].nr = Len(delivered) + i - Offset' /\ toClient'[i].nr <= sent
        BY <2>1 DEF Numbered
      <4>1. i \in 1 .. Len(toClient) /\ toClient'[i] = toClient[i]
        BY <2>2
      <4>2. toClient'[1] = toClient[1] /\ Len(toClient) > 0 /\ Len(toClient') > 0
        BY <1>a, <2>2, <4>1
      <4>3. Offset' = Offset
        BY <4>2 DEF Offset
      <4> QED
        BY <2>3, <4>1, <4>3 DEF InTransit, Numbered
    <3>4. NothingMissing'
      BY <2>1 DEF NothingMissing
    <3> QED
      BY <3>1, <3>2, <3>3, <3>4 DEF InTransit
  <2> QED
    BY <1>a, <1>b, <2>1, <2>3 DEF NoMessageQueued, DeliveredInOrder
<1> QED
  BY <1>1, <1>2, <1>3, <1>4, <1>5, <1>6, <1>7, <1>8, StreamKinds

-----------------------------------------------------------------------------
(* The theorems.                                                             *)

LEMMA SessionInvariant == Spec => []SessionInv
<1>1. SessionInv /\ [Next]_vars => SessionInv'
  <2> SUFFICES ASSUME SessionInv, [Next]_vars PROVE SessionInv'
    OBVIOUS
  <2>1. TypeOK' /\ HasReceiver'
    BY TypeStep, ReceiverStep DEF SessionInv
  <2> QED
    BY <2>1, GrantsStep, ListensStep, NotYetStep, OrderStep DEF SessionInv
<1> QED
  BY SessionInit, <1>1, PTL DEF Spec

\* No message finds the listener missing, though the registration, the command
\* and the messages cross in three queues: Stomp.subscribe registers first.
THEOREM NothingQueued == Spec => []NoMessageQueued
<1>1. SessionInv => NoMessageQueued
  BY DEF SessionInv
<1> QED
  BY <1>1, SessionInvariant, PTL

\* Whenever the connection ends, and wherever the receiver is cut off, what the
\* listener has seen is an initial part of what the server sent.
THEOREM DeliveryInOrder == Spec => []DeliveredInOrder
<1>1. SessionInv => DeliveredInOrder
  BY DEF SessionInv
<1> QED
  BY <1>1, SessionInvariant, PTL

\* No subscription without a session the server has granted: the flag, the frame
\* that sets it and the thread that polls it never claim more than the server.
THEOREM SubscriptionGranted == Spec => []SubscribesOnlyWhenGranted
<1>1. SessionInv => SubscribesOnlyWhenGranted
  BY DEF SessionInv, Grants, Registered, Granted, SubscribesOnlyWhenGranted
<1> QED
  BY <1>1, SessionInvariant, PTL
=============================================================================
