---------------------------- MODULE MCDepartures ----------------------------
(* Two tiplocs of one stanox on the first day; the stanox of one changes, and *)
(* a third has none.                                                         *)
EXTENDS Departures
CONSTANTS t1, t2, t3, x1, x2

Run(key, origin, passenger, recent) ==
  [key |-> key, origin |-> origin, passenger |-> passenger, recent |-> recent]

MCFeeds == <<
  [stanox |-> (t1 :> x1) @@ (t2 :> x1) @@ (t3 :> NoStanox),
   schedules |-> {Run("k1", t1, TRUE, TRUE), Run("k2", t3, TRUE, FALSE),
                  Run("k4", t1, FALSE, TRUE)}],
  [stanox |-> (t1 :> x1) @@ (t2 :> x2) @@ (t3 :> NoStanox),
   schedules |-> {Run("k1", t2, TRUE, TRUE), Run("k2", t1, TRUE, FALSE)}] >>
=============================================================================
