----------------------------- MODULE StartClaim -----------------------------
(***************************************************************************)
(* The start claim of ktsense-cli/src/daemon.rs: one lock file beside the  *)
(* root's socket, taken with a non-blocking flock(2) and removed when the  *)
(* claim is released.                                                      *)
(*                                                                         *)
(* The model is the file system as the code meets it.  The claim path names*)
(* at most one inode; a removed inode lives on, nameless, for as long as   *)
(* some start has it open, and its number may be reused after that.  A lock*)
(* belongs to an inode, not to a name, which is why take_claim looks at    *)
(* the link count after it has been granted one.                           *)
(***************************************************************************)
CONSTANTS Starter,  \* the `daemon start` processes of one root
          Inode,    \* inode numbers of the directory the claim lives in
          None      \* "no start" / "no inode"

ASSUME NoneAssumption == None \notin Starter /\ None \notin Inode

VARIABLES claim,    \* claim[s]: how far start s is through take_claim / drop
          fd,       \* fd[s]: the inode start s has open, or None
          linked,   \* the inode the claim path names, or None
          locker    \* locker[i]: the start whose flock is on inode i, or None

claimVars == <<claim, fd, linked, locker>>

ClaimStage == {"none", "opened", "locked", "held", "unlinked"}

ClaimTypeOK ==
  /\ claim \in [Starter -> ClaimStage]
  /\ fd \in [Starter -> Inode \cup {None}]
  /\ linked \in Inode \cup {None}
  /\ locker \in [Inode -> Starter \cup {None}]

ClaimInit ==
  /\ claim = [s \in Starter |-> "none"]
  /\ fd = [s \in Starter |-> None]
  /\ linked \in Inode \cup {None}     \* a crashed start may have left its file
  /\ locker = [i \in Inode |-> None]
-----------------------------------------------------------------------------
\* A number can be reused once nothing names the inode and nothing has it open.
FreeInode(i) == i # linked /\ \A s \in Starter : fd[s] # i

\* Closing a descriptor frees the flock taken through it.
Close(s) ==
  /\ fd' = [fd EXCEPT ![s] = None]
  /\ locker' = [i \in Inode |-> IF locker[i] = s THEN None ELSE locker[i]]
  /\ claim' = [claim EXCEPT ![s] = "none"]

\* open(create): the inode the path names, or a fresh one the path now names.
OpenClaim(s) ==
  /\ claim[s] = "none"
  /\ \E i \in Inode :
       /\ i = linked \/ (linked = None /\ FreeInode(i))
       /\ linked' = i
       /\ fd' = [fd EXCEPT ![s] = i]
  /\ claim' = [claim EXCEPT ![s] = "opened"]
  /\ UNCHANGED locker

\* Mutant: a shared flock, granted beside another start's.
LockClaimShared(s) ==
  /\ claim[s] = "opened"
  /\ locker' = [locker EXCEPT ![fd[s]] = s]
  /\ claim' = [claim EXCEPT ![s] = "locked"]
  /\ UNCHANGED <<fd, linked>>

LockClaim(s) ==
  /\ claim[s] = "opened"
  /\ locker[fd[s]] = None
  /\ locker' = [locker EXCEPT ![fd[s]] = s]
  /\ claim' = [claim EXCEPT ![s] = "locked"]
  /\ UNCHANGED <<fd, linked>>

\* WouldBlock: another start's flock is on this inode.
LockHeld(s) ==
  /\ claim[s] = "opened"
  /\ locker[fd[s]] # None
  /\ Close(s)
  /\ UNCHANGED linked

\* Any other errno of flock, or a metadata call that fails: the `?` closes.
LockRefused(s) ==
  /\ claim[s] \in {"opened", "locked"}
  /\ Close(s)
  /\ UNCHANGED linked

\* Mutant: the lock is taken at its word, without a look at the link count.
ConfirmUnchecked(s) ==
  /\ claim[s] = "locked"
  /\ claim' = [claim EXCEPT ![s] = "held"]
  /\ UNCHANGED <<fd, linked, locker>>

\* still_names_the_claim: nlink > 0, and only the claim path is ever linked.
ConfirmClaim(s) ==
  /\ claim[s] = "locked"
  /\ fd[s] = linked
  /\ claim' = [claim EXCEPT ![s] = "held"]
  /\ UNCHANGED <<fd, linked, locker>>

\* nlink = 0: the lock is on a claim that was released meanwhile.
AbandonClaim(s) ==
  /\ claim[s] = "locked"
  /\ fd[s] # linked
  /\ Close(s)
  /\ UNCHANGED linked

\* Drop for StartClaim, first half: remove_file(path), whatever path names.
UnlinkClaim(s) ==
  /\ claim[s] = "held"
  /\ linked' = None
  /\ claim' = [claim EXCEPT ![s] = "unlinked"]
  /\ UNCHANGED <<fd, locker>>

\* Second half: the File field is dropped after the body of drop has run.
CloseClaim(s) ==
  /\ claim[s] = "unlinked"
  /\ Close(s)
  /\ UNCHANGED linked

\* The kernel closes a dead start's descriptor; the file stays linked.
KillClaimant(s) ==
  /\ claim[s] # "none"
  /\ Close(s)
  /\ UNCHANGED linked

ClaimNext ==
  \E s \in Starter :
    \/ OpenClaim(s)    \/ LockClaim(s)    \/ LockHeld(s)   \/ LockRefused(s)
    \/ ConfirmClaim(s) \/ AbandonClaim(s) \/ UnlinkClaim(s)
    \/ CloseClaim(s)   \/ KillClaimant(s)

ClaimSpec == ClaimInit /\ [][ClaimNext]_claimVars
-----------------------------------------------------------------------------
\* "Exactly one of them owns the attempt": two starts never both hold a claim,
\* however their opens, locks, unlinks, deaths and inode reuse interleave.
ClaimExclusive ==
  \A s, t \in Starter : claim[s] = "held" /\ claim[t] = "held" => s = t

\* "The only claim a release can remove is its own": when a start's drop
\* removes the claim path, the path still names the file that start locked.
ReleaseRemovesOwnClaim ==
  [][\A s \in Starter : UnlinkClaim(s) => linked = fd[s]]_claimVars

\* The strengthening that makes ClaimExclusive inductive.  A descriptor is
\* open exactly while an attempt is under way; the stages past flock own the
\* lock of the inode they opened, and nobody else's lock exists; and a holder's
\* inode is the one the path names.
OpenWhileTrying ==
  \A s \in Starter : (fd[s] = None) <=> (claim[s] = "none")
LockedStages ==
  \A s \in Starter :
    claim[s] \in {"locked", "held", "unlinked"} => locker[fd[s]] = s
LocksAreOpen ==
  \A i \in Inode : locker[i] # None => fd[locker[i]] = i
HolderIsLinked ==
  \A s \in Starter : claim[s] = "held" => fd[s] = linked
ClaimIInv ==
  ClaimTypeOK /\ OpenWhileTrying /\ LockedStages /\ LocksAreOpen /\ HolderIsLinked

\* The refinement: the owner is the start that holds the claim.  A start whose
\* drop has unlinked the file but not yet closed it no longer owns anything:
\* the next start may already hold a fresh file of the same name.
ClaimOwner ==
  IF \E s \in Starter : claim[s] = "held"
  THEN CHOOSE s \in Starter : claim[s] = "held"
  ELSE None

Lease == INSTANCE StartLease WITH owner <- ClaimOwner

\* The file protocol implements the abstract lease.
ImplementsLease == Lease!LeaseSpec
=============================================================================
