-------------------------- MODULE ContainerSupply --------------------------
(***************************************************************************)
(* What an exec node promises about the containers it hands out at         *)
(* /container/create, without saying how it keeps them.                    *)
(*                                                                         *)
(* Every request is refused or given one container, and nobody is given a  *)
(* container that is in use.  A restart of the node makes it forget what   *)
(* is in use.  ContainerPool implements this with warm containers.         *)
(***************************************************************************)
CONSTANTS
    Requests,       \* calls of /container/create
    Containers,     \* identities of docker containers
    NoContainer

VARIABLES
    answer,         \* what a request has been told
    held,           \* the container it was given
    inUse           \* containers handed out since the node last started

vars == <<answer, held, inUse>>

Init ==
    /\ answer = [r \in Requests |-> "none"]
    /\ held = [r \in Requests |-> NoContainer]
    /\ inUse = {}

Ask(r) ==
    /\ answer[r] = "none"
    /\ answer' = [answer EXCEPT ![r] = "asked"]
    /\ UNCHANGED <<held, inUse>>

Give(r, c) ==
    /\ answer[r] = "asked"
    /\ c \notin inUse
    /\ answer' = [answer EXCEPT ![r] = "given"]
    /\ held' = [held EXCEPT ![r] = c]
    /\ inUse' = inUse \union {c}

Refuse(r) ==
    /\ answer[r] = "asked"
    /\ answer' = [answer EXCEPT ![r] = "refused"]
    /\ UNCHANGED <<held, inUse>>

(* The holder has given its container back. *)
Close(r) ==
    /\ answer[r] = "given"
    /\ answer' = [answer EXCEPT ![r] = "closed"]
    /\ held' = [held EXCEPT ![r] = NoContainer]
    /\ inUse' = inUse \ {held[r]}

(* Requests under way end without a container, and everything handed out is *)
(* forgotten.                                                               *)
Restart ==
    /\ answer' = [r \in Requests |-> IF answer[r] = "asked" THEN "refused" ELSE answer[r]]
    /\ inUse' = {}
    /\ UNCHANGED held

Next ==
    \/ \E r \in Requests : Ask(r) \/ Refuse(r) \/ Close(r)
    \/ \E r \in Requests, c \in Containers : Give(r, c)
    \/ Restart

(* Every request is answered. *)
Answered == \A r \in Requests : answer[r] = "asked" ~> answer[r] # "asked"

Spec == Init /\ [][Next]_vars /\ Answered
=============================================================================
