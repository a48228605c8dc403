---------------------------- MODULE MCScheduler ----------------------------
(***************************************************************************)
(* Small instances of Scheduler.  Every job carries its own id (`fresh'),  *)
(* or a2 repeats the request a1, and c1 the request b1 (`retry').          *)
(***************************************************************************)
EXTENDS Scheduler, TLC

\* With fresh ids a1 and a2 come from one client, b1 from another and c1 from
\* a third.
CONSTANTS a1, a2, b1, c1, ra, rb, rc, rd, chat1, chat2, chat3

Jobs4 == {a1, a2, b1, c1}
Ids4 == {ra, rb, rc, rd}
FreshIds == (a1 :> ra) @@ (a2 :> rb) @@ (b1 :> rc) @@ (c1 :> rd)
Mfes4 == (a1 :> chat1) @@ (a2 :> chat1) @@ (b1 :> chat2) @@ (c1 :> chat3)
Priorities4 == (a1 :> "normal") @@ (a2 :> "normal") @@ (b1 :> "low") @@ (c1 :> "high")

\* With repeated ids all come from one client: one runs, two of one id may
\* wait, and then the queue is full.
Ids2 == {ra, rb}
RetryIds == (a1 :> ra) @@ (a2 :> ra) @@ (b1 :> rb) @@ (c1 :> rb)
OneMfe == [j \in Jobs4 |-> chat1]
Priorities2 == (a1 :> "normal") @@ (a2 :> "normal") @@ (b1 :> "low") @@ (c1 :> "low")

=============================================================================
