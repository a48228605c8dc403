------------------------- MODULE MCRequestRegistry -------------------------
(***************************************************************************)
(* A small instance of RequestRegistry: two requests with one id and one   *)
(* with another.                                                           *)
(***************************************************************************)
EXTENDS RequestRegistry, TLC

CONSTANTS c1, c2, d1, r0, s0

\* c1 and c2 carry id r0; d1 carries s0.  c2 and d1 are streams.
Calls == {c1, c2, d1}
Ids == (c1 :> r0) @@ (c2 :> r0) @@ (d1 :> s0)
StreamCalls == {c2, d1}

=============================================================================
