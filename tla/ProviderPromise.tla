--------------------------- MODULE ProviderPromise ---------------------------
(***************************************************************************)
(* What the governed subsystem promises the owner of an AWS account, with  *)
(* no word about rows, queues or workers: a plan is authorized by at most  *)
(* one approval, ever; the provider is called for it at most once, and     *)
(* only after the authorization.                                           *)
(***************************************************************************)
EXTENDS Naturals

CONSTANTS Plans, MaxApprovals

VARIABLES
    authorization,  \* authorization[p]: the approval that authorizes p, or 0
    calls           \* calls[p]: mutating provider calls made for p

Init ==
    /\ authorization = [p \in Plans |-> 0]
    /\ calls = [p \in Plans |-> 0]

Authorize(p) ==
    /\ authorization[p] = 0
    /\ \E a \in 1..MaxApprovals : authorization' = [authorization EXCEPT ![p] = a]
    /\ UNCHANGED calls

Call(p) ==
    /\ authorization[p] # 0
    /\ calls[p] = 0
    /\ calls' = [calls EXCEPT ![p] = 1]
    /\ UNCHANGED authorization

Next == \E p \in Plans : Authorize(p) \/ Call(p)

vars == <<authorization, calls>>

Spec == Init /\ [][Next]_vars
=============================================================================
