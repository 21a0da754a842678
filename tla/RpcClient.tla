----------------------------- MODULE RpcClient -----------------------------
(***************************************************************************)
(* What a caller may rely on when it talks to an extension: calls are made *)
(* one at a time; each ends once, answered or failed; it is answered only  *)
(* with an answer the extension gave to that very call; and it ends.       *)
(***************************************************************************)
EXTENDS Naturals

CONSTANT MaxCalls       \* bound: calls a caller makes

VARIABLES
    status,             \* of each call
    offered             \* the calls the extension has answered

Call == 1 .. MaxCalls

rpcVars == <<status, offered>>

RpcInit ==
    /\ status = [c \in Call |-> "none"]
    /\ offered = {}

Ask(c) ==
    /\ \A d \in Call : status[d] # "waiting" /\ (status[d] = "none" <=> d >= c)
    /\ status' = [status EXCEPT ![c] = "waiting"]
    /\ UNCHANGED offered

\* The extension answers when it likes, be it too late or twice.
Offer(c) ==
    /\ status[c] # "none"
    /\ offered' = offered \cup {c}
    /\ UNCHANGED status

Answered(c) ==
    /\ status[c] = "waiting"
    /\ c \in offered
    /\ status' = [status EXCEPT ![c] = "answered"]
    /\ UNCHANGED offered

Failed(c) ==
    /\ status[c] = "waiting"
    /\ status' = [status EXCEPT ![c] = "failed"]
    /\ UNCHANGED offered

RpcNext == \E c \in Call : Ask(c) \/ Offer(c) \/ Answered(c) \/ Failed(c)

RpcSafe == RpcInit /\ [][RpcNext]_rpcVars

RpcSpec ==
    /\ RpcSafe
    /\ \A c \in Call : WF_rpcVars(Answered(c) \/ Failed(c))
=============================================================================
