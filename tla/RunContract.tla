----------------------------- MODULE RunContract -----------------------------
(***************************************************************************)
(* What one invocation of TransactionManager.run promises its caller and   *)
(* the database, whatever happens inside: at most one transaction of the   *)
(* call is open at a time, once one has committed the call opens no other, *)
(* and the call only returns normally when everything it opened is in the  *)
(* database.                                                               *)
(***************************************************************************)
CONSTANT Calls

VARIABLES phase,   \* "idle", "running", "returned" or "threw"
          work     \* the call's transaction: "none", "open", "committed", "undone"

vars == <<phase, work>>

Init == /\ phase = [c \in Calls |-> "idle"]
        /\ work = [c \in Calls |-> "none"]

Invoke(c) == /\ phase[c] = "idle"
             /\ \E p \in {"running", "threw"} : phase' = [phase EXCEPT ![c] = p]
             /\ UNCHANGED work

Open(c) == /\ phase[c] = "running" /\ work[c] \in {"none", "undone"}
           /\ work' = [work EXCEPT ![c] = "open"]
           /\ UNCHANGED phase

End(c) == /\ phase[c] = "running" /\ work[c] = "open"
          /\ \E w \in {"committed", "undone"} : work' = [work EXCEPT ![c] = w]
          /\ UNCHANGED phase

Return(c) == /\ phase[c] = "running" /\ work[c] \in {"none", "committed"}
             /\ phase' = [phase EXCEPT ![c] = "returned"]
             /\ UNCHANGED work

Throw(c) == /\ phase[c] = "running" /\ work[c] # "open"
            /\ phase' = [phase EXCEPT ![c] = "threw"]
            /\ UNCHANGED work

Next == \E c \in Calls : Invoke(c) \/ Open(c) \/ End(c) \/ Return(c) \/ Throw(c)

Spec == Init /\ [][Next]_vars
===============================================================================
