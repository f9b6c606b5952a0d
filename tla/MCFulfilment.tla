----------------------------- MODULE MCFulfilment -----------------------------
(* Instances of OrderFulfilment for TLC. *)
EXTENDS OrderFulfilment, TLC

CONSTANTS o1, o2

Units == (o1 :> 1) @@ (o2 :> 2)

Call(kind, o, isolation) == [kind |-> kind, order |-> o, isolation |-> isolation]

\* Two orders that do not fit in the stock together, a webhook at each kind of
\* isolation, and a startAndWait.
Mixed == [place1 |-> Call("place", o1, "default"),
          place2 |-> Call("place", o2, "default"),
          deliver1 |-> Call("deliver", o1, "READ_COMMITTED"),
          strict1 |-> Call("deliver", o1, "SERIALIZABLE"),
          wait1 |-> Call("wait", o1, "default")]
===============================================================================
