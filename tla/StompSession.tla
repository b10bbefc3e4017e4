----------------------------- MODULE StompSession ------------------------------
(***************************************************************************)
(* The STOMP session that feeds the pipeline: the thread that runs         *)
(* TrustMessagesStomp.subscribe (it logs in, registers the listener and    *)
(* subscribes, and then ends), the receiver thread that polls the socket   *)
(* and hands frames to Stomp.receive, and the feed's server, which may     *)
(* refuse the login and may go away at any moment, in mid-frame too.       *)
(*                                                                         *)
(* TrainWatch itself never disconnects a session; the operation belongs to *)
(* the client class and is modelled with it.                               *)
(***************************************************************************)
EXTENDS Integers, Sequences

CONSTANT MaxMessages    \* bound: messages the server sends

ASSUME MessagesAssumption == MaxMessages \in Nat

\* Frames to the client: answers to CONNECT, the messages of the channel, by
\* number, and the beginning of a frame whose end never comes.
Connected == [kind |-> "CONNECTED", nr |-> 0]
Refused   == [kind |-> "ERROR", nr |-> 0]
Cut       == [kind |-> "CUT", nr |-> 0]
Message(n) == [kind |-> "MESSAGE", nr |-> n]
Frames == {Connected, Refused, Cut} \cup {Message(n) : n \in 1 .. MaxMessages}
Commands == {"CONNECT", "SUBSCRIBE", "DISCONNECT"}

VARIABLES
    main,       \* the thread that runs subscribe, and later the session's owner
    socket,     \* the client's end: none, open, closed
    receiver,   \* the receiver thread: none, looping, polling, idle, stuck, stopped
    interrupted,\* its interrupt flag
    connected,  \* Stomp._connected
    listening,  \* is the listener in Stomp._listeners
    queue,      \* Stomp._queue: messages nobody listened to
    errors,     \* Stomp._errors: whether each has a text or is null
    delivered,  \* messages the listener was called with
    peer,       \* the server's end: none, greeting, refused, session, subscribed, gone
    toServer,   \* commands under way
    toClient,   \* frames under way
    sent        \* messages the server has sent

clientVars == <<connected, listening, queue, errors, delivered>>
threadVars == <<main, receiver, interrupted>>
netVars    == <<peer, toServer, toClient, sent>>
vars == <<threadVars, socket, clientVars, netVars>>

Init ==
    /\ main = "connecting" /\ socket = "none"
    /\ receiver = "none" /\ interrupted = FALSE
    /\ connected = FALSE /\ listening = FALSE
    /\ queue = <<>> /\ errors = <<>> /\ delivered = <<>>
    /\ peer = "none" /\ toServer = <<>> /\ toClient = <<>> /\ sent = 0

-----------------------------------------------------------------------------
(* The subscribing thread.                                                   *)

\* Client.transmit: a write may fail when the server is gone; the failure is
\* received as an ERROR.
Transmit(command) ==
    \/ /\ toServer' = Append(toServer, command)
       /\ UNCHANGED errors
    \/ /\ peer = "gone"
       /\ errors' = Append(errors, "text")
       /\ UNCHANGED toServer

\* The Client constructor opens the socket and starts the receiver ...
OpenSocket ==
    /\ main = "connecting"
    /\ socket' = "open" /\ peer' = "greeting"
    /\ receiver' = "looping"
    /\ main' = "opened"
    /\ UNCHANGED <<interrupted, clientVars, toServer, toClient, sent>>

\* ... or throws; then TrustMessagesStomp's handler finds client null, and the
\* thread ends with a NullPointerException.
OpenFails ==
    /\ main = "connecting"
    /\ main' = "failed"
    /\ UNCHANGED <<receiver, interrupted, socket, clientVars, netVars>>

SendConnect ==
    /\ main = "opened"
    /\ Transmit("CONNECT")
    /\ main' = "login"
    /\ UNCHANGED <<receiver, interrupted, socket, connected, listening, queue,
                   delivered, peer, toClient, sent>>

\* The loop that sleeps until there is a connection or an error: it asks for
\* the connection ...
LoginSucceeds ==
    /\ main = "login" /\ connected
    /\ main' = "loggedIn"
    /\ UNCHANGED <<receiver, interrupted, socket, clientVars, netVars>>

LoginLook ==
    /\ main = "login" /\ ~connected
    /\ main' = "asking"
    /\ UNCHANGED <<receiver, interrupted, socket, clientVars, netVars>>

nextError == IF errors = <<>> THEN "null" ELSE Head(errors)

\* ... and then for an error.  An error without a text is taken for none.
LoginGoesOn ==
    /\ main = "asking" /\ nextError = "null"
    /\ errors' = IF errors = <<>> THEN errors ELSE Tail(errors)
    /\ main' = "login"
    /\ UNCHANGED <<receiver, interrupted, socket, connected, listening, queue,
                   delivered, netVars>>

\* On an error the socket stays open, and the handler fails as in OpenFails.
LoginFails ==
    /\ main = "asking" /\ nextError = "text"
    /\ errors' = Tail(errors)
    /\ interrupted' = TRUE
    /\ main' = "failed"
    /\ UNCHANGED <<receiver, socket, connected, listening, queue, delivered, netVars>>

\* Mutant: going on to subscribe without a listener.
RegisterNothing ==
    /\ main = "loggedIn"
    /\ main' = "registered"
    /\ UNCHANGED <<receiver, interrupted, socket, clientVars, netVars>>

\* Stomp.subscribe: first the listener, under the lock of _listeners ...
Register ==
    /\ main = "loggedIn"
    /\ listening' = TRUE
    /\ main' = "registered"
    /\ UNCHANGED <<receiver, interrupted, socket, connected, queue, errors,
                   delivered, netVars>>

\* ... then the command.
SendSubscribe ==
    /\ main = "registered"
    /\ Transmit("SUBSCRIBE")
    /\ main' = "subscribed"
    /\ UNCHANGED <<receiver, interrupted, socket, connected, listening, queue,
                   delivered, peer, toClient, sent>>

\* Mutant: telling the server only, and leaving it to it to close the connection.
SendDisconnectOnly ==
    /\ main = "subscribed" /\ connected
    /\ Transmit("DISCONNECT")
    /\ main' = "closing"
    /\ UNCHANGED <<receiver, interrupted, socket, connected, listening, queue,
                   delivered, peer, toClient, sent>>

\* Client.disconnect, in three steps other threads may come between.
SendDisconnect ==
    /\ main = "subscribed" /\ connected
    /\ Transmit("DISCONNECT")
    /\ interrupted' = TRUE
    /\ main' = "disconnecting"
    /\ UNCHANGED <<receiver, socket, connected, listening, queue, delivered,
                   peer, toClient, sent>>

CloseSocket ==
    /\ main = "disconnecting"
    /\ socket' = "closed"
    /\ main' = "closing"
    /\ UNCHANGED <<receiver, interrupted, clientVars, netVars>>

ClearConnected ==
    /\ main = "closing"
    /\ connected' = FALSE
    /\ main' = "disconnected"
    /\ UNCHANGED <<receiver, interrupted, socket, listening, queue, errors,
                   delivered, netVars>>

-----------------------------------------------------------------------------
(* The receiver thread.                                                      *)

CheckInterrupt ==
    /\ receiver = "looping"
    /\ receiver' = IF interrupted THEN "stopped" ELSE "polling"
    /\ UNCHANGED <<main, interrupted, socket, clientVars, netVars>>

\* Mutant: reporting an error of the server as a connection.
ReceiveAnyAnswer(f) ==
    CASE f.kind \in {"CONNECTED", "ERROR"} ->
            /\ connected' = TRUE
            /\ UNCHANGED <<listening, queue, errors, delivered>>
      [] f.kind = "MESSAGE" ->
            /\ delivered' = Append(delivered, f.nr)
            /\ UNCHANGED <<connected, listening, queue, errors>>

\* Mutant: calling a listener that has been registered twice.
ReceiveTwice(f) ==
    CASE f.kind = "CONNECTED" ->
            /\ connected' = TRUE
            /\ UNCHANGED <<listening, queue, errors, delivered>>
      [] f.kind = "ERROR" ->
            /\ errors' = Append(errors, "text")
            /\ UNCHANGED <<connected, listening, queue, delivered>>
      [] f.kind = "MESSAGE" ->
            /\ delivered' = delivered \o <<f.nr, f.nr>>
            /\ UNCHANGED <<connected, listening, queue, errors>>

\* Mutant: only telling error listeners of an error, and there are none.
ReceiveNoError(f) ==
    /\ connected' = (connected \/ f.kind = "CONNECTED")
    /\ delivered' = IF f.kind = "MESSAGE" THEN Append(delivered, f.nr) ELSE delivered
    /\ UNCHANGED <<listening, queue, errors>>

\* Stomp.receive.  What the listener throws is swallowed.
Receive(f) ==
    \/ /\ f.kind = "CONNECTED"
       /\ connected' = TRUE
       /\ UNCHANGED <<listening, queue, errors, delivered>>
    \/ /\ f.kind = "ERROR"
       /\ errors' = Append(errors, "text")
       /\ UNCHANGED <<connected, listening, queue, delivered>>
    \/ /\ f.kind = "MESSAGE"
       /\ IF listening
          THEN delivered' = Append(delivered, f.nr) /\ UNCHANGED queue
          ELSE queue' = Append(queue, f.nr) /\ UNCHANGED delivered
       /\ UNCHANGED <<connected, listening, errors>>

\* A whole frame is there.  (What the reader has buffered is still handled
\* after the socket was closed.)
HandleFrame ==
    /\ receiver = "polling" /\ toClient # <<>> /\ Head(toClient) # Cut
    /\ Receive(Head(toClient))
    /\ toClient' = Tail(toClient)
    /\ receiver' = "looping"
    /\ UNCHANGED <<main, interrupted, socket, peer, toServer, sent>>

\* The server goes away in mid-frame.  At the end of the stream readLine, in a
\* header, returns null, and the NullPointerException that ends the thread has
\* no text; read, in a body, returns -1, not 0, forever, and goes on doing so when
\* this end is closed: a stream that has met its end is not asked again.  A reset
\* connection throws an exception with a text.
HandleCut ==
    /\ receiver = "polling" /\ toClient # <<>> /\ Head(toClient) = Cut
    /\ \/ receiver' = "stuck" /\ UNCHANGED errors
       \/ \E e \in {"text", "null"} :
             receiver' = "stopped" /\ errors' = Append(errors, e)
    /\ toClient' = Tail(toClient)
    /\ UNCHANGED <<main, interrupted, socket, connected, listening, queue,
                   delivered, peer, toServer, sent>>

\* This end was closed when only a part of the frame had been buffered.
HandleClosed ==
    /\ receiver = "polling" /\ toClient # <<>> /\ socket = "closed"
    /\ receiver' = "stopped"
    /\ errors' = Append(errors, "text")
    /\ toClient' = Tail(toClient)
    /\ UNCHANGED <<main, interrupted, socket, connected, listening, queue,
                   delivered, peer, toServer, sent>>

\* Mutant: ending when there is nothing to read.
FindNothingAndStop ==
    /\ receiver = "polling"
    /\ toClient = <<>> \/ socket = "closed"
    /\ receiver' = "stopped"
    /\ UNCHANGED <<main, interrupted, socket, clientVars, netVars>>

\* ready() is false: nothing has arrived, the server is gone, or this end is
\* closed (the decoder turns the exception into false).
FindNothing ==
    /\ receiver = "polling"
    /\ toClient = <<>> \/ socket = "closed"
    /\ receiver' = "idle"
    /\ UNCHANGED <<main, interrupted, socket, clientVars, netVars>>

\* Then it asks whether this end was closed, and sleeps if not.
Sleep ==
    /\ receiver = "idle" /\ socket # "closed"
    /\ receiver' = "looping"
    /\ UNCHANGED <<main, interrupted, socket, clientVars, netVars>>

\* If it was, it calls disconnect itself, whose command cannot be written any
\* more when the owner has not cleared the flag yet.
StopClosed ==
    /\ receiver = "idle" /\ socket = "closed"
    /\ receiver' = "stopped"
    /\ errors' = IF connected THEN Append(errors, "text") ELSE errors
    /\ interrupted' = (interrupted \/ connected)
    /\ connected' = FALSE
    /\ UNCHANGED <<main, socket, listening, queue, delivered, netVars>>

-----------------------------------------------------------------------------
(* The server.                                                               *)

Takes(command) == toServer # <<>> /\ Head(toServer) = command /\ toServer' = Tail(toServer)

AnswerLogin ==
    /\ peer = "greeting" /\ Takes("CONNECT")
    /\ \/ peer' = "session" /\ toClient' = Append(toClient, Connected)
       \/ peer' = "refused" /\ toClient' = Append(toClient, Refused)
    /\ UNCHANGED <<threadVars, socket, clientVars, sent>>

AcceptSubscription ==
    /\ peer = "session" /\ Takes("SUBSCRIBE")
    /\ peer' = "subscribed"
    /\ UNCHANGED <<threadVars, socket, clientVars, toClient, sent>>

SendMessage ==
    /\ peer = "subscribed" /\ sent < MaxMessages
    /\ sent' = sent + 1
    /\ toClient' = Append(toClient, Message(sent + 1))
    /\ UNCHANGED <<threadVars, socket, clientVars, peer, toServer>>

\* The connection ends: by the client's wish or not, between frames or in one.
\* Frames under way arrive up to some point.
GoAway ==
    /\ peer \notin {"none", "gone"}
    /\ peer' = "gone"
    /\ \E n \in 0 .. Len(toClient) :
          LET arriving == SubSeq(toClient, 1, n)
          IN  toClient' \in {arriving, Append(arriving, Cut)}
    /\ UNCHANGED <<threadVars, socket, clientVars, toServer, sent>>

Subscriber == \/ OpenSocket \/ OpenFails \/ SendConnect \/ LoginSucceeds \/ LoginLook
              \/ LoginGoesOn \/ LoginFails \/ Register \/ SendSubscribe
Owner == SendDisconnect \/ CloseSocket \/ ClearConnected
ReceiverThread == \/ CheckInterrupt \/ HandleFrame \/ HandleCut \/ HandleClosed
                  \/ FindNothing \/ Sleep \/ StopClosed
Server == AnswerLogin \/ AcceptSubscription \/ SendMessage \/ GoAway

Next == Subscriber \/ Owner \/ ReceiverThread \/ Server

\* Both threads run on; the owner finishes a disconnect it has begun.  The server
\* owes nothing.
Fairness ==
    /\ WF_vars(SendConnect \/ LoginSucceeds \/ LoginLook \/ LoginGoesOn \/ LoginFails
                \/ Register \/ SendSubscribe)
    /\ WF_vars(CloseSocket \/ ClearConnected)
    /\ WF_vars(ReceiverThread)

Spec == Init /\ [][Next]_vars
FairSpec == Spec /\ Fairness

-----------------------------------------------------------------------------
(* Properties.                                                               *)

\* Types of the variables; there is a receiver exactly when there is a socket.
TypeOK ==
    /\ main \in {"connecting", "opened", "login", "asking", "loggedIn", "registered",
                 "subscribed", "disconnecting", "closing", "disconnected", "failed"}
    /\ socket \in {"none", "open", "closed"}
    /\ socket = "none" <=> receiver = "none"
    /\ receiver \in {"none", "looping", "polling", "idle", "stuck", "stopped"}
    /\ interrupted \in BOOLEAN /\ connected \in BOOLEAN /\ listening \in BOOLEAN
    /\ queue \in Seq(1 .. MaxMessages) /\ delivered \in Seq(1 .. MaxMessages)
    /\ errors \in Seq({"text", "null"})
    /\ peer \in {"none", "greeting", "refused", "session", "subscribed", "gone"}
    /\ toServer \in Seq(Commands) /\ toClient \in Seq(Frames)
    /\ sent \in 0 .. MaxMessages

\* No message of the channel finds the listener missing: the first one cannot
\* arrive between the subscription and the registration.  (Stomp.subscribe
\* registers the listener before it transmits SUBSCRIBE.)
NoMessageQueued == queue = <<>>

\* The listener is called with the messages in the order the server sent them,
\* none of them skipped or repeated, up to the moment the connection ends.
DeliveredInOrder ==
    /\ Len(delivered) <= sent
    /\ \A i \in 1 .. Len(delivered) : delivered[i] = i

\* The subscription is only sent, and the listener only registered, in a
\* session the server has granted: a refused or lost login never goes on.
SubscribesOnlyWhenGranted ==
    main \in {"loggedIn", "registered", "subscribed"} => peer \in {"session", "subscribed", "gone"}

\* The login loop ends once the server has answered, whatever the answer, unless
\* the connection ends (then nothing else ends the loop).
AnswerEndsLogin ==
    (main \in {"login", "asking"} /\ peer \in {"session", "refused"})
        ~> (main \notin {"login", "asking"} \/ peer = "gone")

\* Every message the server has sent reaches the listener, unless the owner
\* disconnects or the connection ends.
SentIsDelivered ==
    \A n \in 1 .. MaxMessages :
        (sent >= n) ~> \/ Len(delivered) >= n
                       \/ main \notin {"registered", "subscribed"} \/ peer = "gone"

\* The receiver thread ends after a disconnect, wherever it was: polling, asleep
\* or in the middle of a frame.  The server closing its end would not do it:
\* ready() does not report that.  One state is excepted, the endless read of a body
\* the server broke off (Receiver reads until 0, and gets -1): not even a
\* disconnect, which closes the socket under it, gets the thread out of there.
DisconnectStopsReceiver ==
    (main \in {"disconnecting", "closing"})
        ~> (receiver = "stopped" \/ (receiver = "stuck" /\ peer = "gone"))

\* What Stomp says of _connected: true if connected to a server, false otherwise.
\* So when the server has gone, the flag must not stay true.
ConnectedIsCurrent == (peer = "gone" /\ connected) ~> ~connected
=============================================================================
