---------------------------- MODULE MCSearchBox ----------------------------
(* Letters 1 and 2, the blank 0, the dot 9 and the bracket 8. *)
EXTENDS SearchBox

MCTexts == {<<>>, <<1>>, <<0, 1>>, <<2>>, <<1, 2>>, <<1, 1>>, <<9>>,
            <<0, 1, 2>>, <<1, 8>>}
MCLetters == {0, 1, 2, 8, 9}
MCLocal == <<<<1, 2>>, <<1, 2, 1>>, <<2, 1, 1>>>>
MCRemote == <<<<1, 2>>, <<1, 1>>, <<2, 2>>>>

MCDatums == << <<<<1>>, <<1, 2>>>>, <<<<1, 2>>, <<2>>>>, <<<<2, 1>>, <<1, 1>>>> >>
\* As the texts "1", "2" and "10".
MCTextOrder == <<1, 3, 2>>
MCTokens == {<<1>>, <<2>>, <<1, 1>>, <<1, 2>>, <<2, 1>>}
MCQueries == {<<>>} \cup {<<t>> : t \in MCTokens} \cup (MCTokens \X MCTokens)
=============================================================================
