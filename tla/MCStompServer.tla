--------------------------- MODULE MCStompServer ---------------------------
EXTENDS StompServer
CONSTANTS a, b, far, x, y
On(ch, cmds) == cmds \X {ch}

MCDenied == {<<far, y>>}
MCMay == (a :> On(x, {"SEND"}) \cup On(None, {"BEGIN", "COMMIT", "ABORT", "DISCONNECT"})) @@
         (b :> On(x, {"SUBSCRIBE", "UNSUBSCRIBE", "SEND"}) \cup On(None, {"DISCONNECT"})) @@
         (far :> On(x, {"SUBSCRIBE", "SEND"}) \cup On(y, {"SUBSCRIBE"})
               \cup On(None, {"BEGIN", "COMMIT"}))
=============================================================================
