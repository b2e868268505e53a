------------------------- MODULE ResourceRefinement -------------------------
(***************************************************************************)
(* ResourceLifecycle implements ResourceContract: the API shows the state  *)
(* of the row, and the object is past once it was made and is absent.      *)
(***************************************************************************)
EXTENDS ResourceLifecycle

Contract == INSTANCE ResourceContract WITH
    shown  <- [r \in Resources |-> row[r].state],
    object <- [r \in Resources |->
                 IF obj[r] # "absent" THEN obj[r] ELSE IF made[r] = 0 THEN "never" ELSE "past"]

\* Every step of the API calls, the lanes, the provider and the clock is a
\* step of the contract or changes nothing a client can see (AcceptVPC,
\* AcceptSubnet, DeleteVPC, DeleteSubnet, Claim, BeginMutation and Finish of
\* internal/data/network; Worker.Step).
KeepsContract == Contract!Spec

\* And removals go on to their end: once failures cease, the object of a
\* resource being removed is deleted, vanishes, and the resource is reported
\* deleted (Worker.Step retries from the durable row).
KeepsPromise == Contract!Promise
=============================================================================
