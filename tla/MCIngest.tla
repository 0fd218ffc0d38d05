------------------------------- MODULE MCIngest -------------------------------
(***************************************************************************)
(* Ingest for TLC: two live readings that disagree about one timestamp of  *)
(* a sensor that may be unknown, and two bulks over two timestamps in      *)
(* opposite orders, one of them with an invalid and a repeated reading.    *)
(***************************************************************************)
EXTENDS Ingest, TLC

CONSTANTS l1, l2, b1, b2, m, t1, t2, x, y

MCJob ==
    (l1 :> [kind |-> "live", mac |-> m, readings |-> <<[at |-> t1, value |-> x]>>])
    @@ (l2 :> [kind |-> "live", mac |-> m, readings |-> <<[at |-> t1, value |-> y]>>])
    @@ (b1 :> [kind |-> "bulk", mac |-> m,
               readings |-> <<[at |-> t1, value |-> x], [at |-> t2, value |-> x]>>])
    @@ (b2 :> [kind |-> "bulk", mac |-> m,
               readings |-> <<[at |-> t2, value |-> y], [at |-> t2, value |-> Invalid],
                              [at |-> t1, value |-> y]>>])
==============================================================================
