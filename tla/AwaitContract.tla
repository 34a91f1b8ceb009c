---------------------------- MODULE AwaitContract ----------------------------
(***************************************************************************)
(* What a durable await promises to the agent that suspended itself on it, *)
(* with no word about rows, listeners, sweeps or crashes: the parent is    *)
(* handed a join message, or failed because it cannot be resumed, only     *)
(* once every run it waits for has ended, and neither is taken back.       *)
(*                                                                         *)
(* AgentAwait.tla, the code's way of keeping the promise, implements this  *)
(* module under the mapping given there.                                   *)
(***************************************************************************)
CONSTANTS Awaits,      \* one await per suspended parent step
          Children,    \* the runs that may be awaited
          Awaited      \* Awaited[a]: the runs the parent of a waits for

VARIABLES ended,       \* the children that have ended
          resumed,     \* the awaits whose parent was sent a join message
          dropped      \* the awaits whose parent job was failed instead

vars == <<ended, resumed, dropped>>

Joinable(a) == Awaited[a] \subseteq ended

Init == ended = {} /\ resumed = {} /\ dropped = {}

End(c) == /\ ended' = ended \cup {c}
          /\ UNCHANGED <<resumed, dropped>>

Resume(a) == /\ Joinable(a)
             /\ resumed' = resumed \cup {a}
             /\ UNCHANGED <<ended, dropped>>

Drop(a) == /\ Joinable(a)
           /\ dropped' = dropped \cup {a}
           /\ UNCHANGED <<ended, resumed>>

Next == \/ \E c \in Children : End(c)
        \/ \E a \in Awaits : Resume(a) \/ Drop(a)

Spec == Init /\ [][Next]_vars
=============================================================================
