----------------------------- MODULE StartLease -----------------------------
(***************************************************************************)
(* What the start claim promises, stated without files, links or locks: at *)
(* any moment at most one start owns the attempt to bring up a root's      *)
(* daemon, ownership is only ever taken from nobody, and it ends by a      *)
(* release or by the owner's death.  StartClaim implements this.           *)
(***************************************************************************)
CONSTANTS Starter,  \* the `daemon start` processes of one root
          None      \* "nobody"

VARIABLE owner

LeaseInit == owner = None

Grant(s) == owner = None /\ owner' = s

\* A release and a death look the same to the other starts.
Relinquish(s) == owner = s /\ owner' = None

LeaseNext == \E s \in Starter : Grant(s) \/ Relinquish(s)

LeaseSpec == LeaseInit /\ [][LeaseNext]_owner
=============================================================================
