-------------------------- MODULE SocketPlacement ---------------------------
(***************************************************************************)
(* Where the processes of one user put, and look for, a root's daemon      *)
(* socket (ktsense-daemon/src/placement.rs, lib.rs and socket_for of       *)
(* ktsense-cli/src/daemon.rs).                                             *)
(*                                                                         *)
(* A directory is [name, length, absolute].  A process is [runtime, home,  *)
(* cwd, root]: its environment, its working directory and the root as it   *)
(* was named.  A key is kept as the path it is the key of: keys of         *)
(* different paths are taken to differ.                                    *)
(***************************************************************************)
EXTENDS Integers, Sequences, FiniteSets

CONSTANTS Commands,          \* pairs of processes that resolve one after the other
          Canonical(_),      \* the real root behind a name for it
          ShortBase,         \* the per-user directory under /tmp
          MAX_SOCKET_PATH, COMPANION_RESERVE, KeyLength, SuffixLength

Unset == [name |-> "unset", length |-> 0, absolute |-> FALSE]
\* Bytes of the longest file a start places beside its socket, ".start".
ClaimLength == 6

Directory == [name : STRING, length : Nat, absolute : {TRUE}]

\* The reserve covers the claim, and a user's environment names absolute
\* directories: HOME is set, XDG_RUNTIME_DIR may not be.
PlacementAssumption ==
  /\ {COMPANION_RESERVE, MAX_SOCKET_PATH, KeyLength, SuffixLength} \subseteq Nat
  /\ ClaimLength <= COMPANION_RESERVE /\ COMPANION_RESERVE < MAX_SOCKET_PATH
  /\ ShortBase \in Directory
  /\ \A pair \in Commands :
       /\ pair = <<pair[1], pair[2]>>
       /\ \A p \in {pair[1], pair[2]} : p.runtime \in Directory \cup {Unset} /\ p.home \in Directory

VARIABLES processes, base, sockets
placementVars == <<processes, base, sockets>>

Bases == {"absent", "own", "foreign", "writable", "symlink", "file"}
PlacementInit == processes \in Commands /\ base \in Bases /\ sockets = <<>>

\* XDG_RUNTIME_DIR, else a directory under HOME, else one under ".".
SocketDir(p) ==
  LET home == IF p.home = Unset THEN [name |-> ".", length |-> 1, absolute |-> FALSE] ELSE p.home
      under == IF p.runtime # Unset THEN [dir |-> p.runtime, more |-> 8] ELSE [dir |-> home, more |-> 19]
  IN [in |-> under.dir, length |-> under.dir.length + under.more]

\* A socket: the directory, the keys in its path, and its length in bytes.
SocketPath(dir, keys, root) ==
  [in |-> dir.in, keys |-> Append(keys, root), length |-> dir.length + 1 + KeyLength + SuffixLength]

\* Mutant: the budget forgets the files beside the socket.
WithinBudgetAlone(path) == path.length <= MAX_SOCKET_PATH

WithinBudget(path) == path.length <= MAX_SOCKET_PATH - COMPANION_RESERVE

\* Mutant: every deep directory falls back to the same place.
FallbackShared(preferred, root) ==
  SocketPath([in |-> ShortBase, length |-> ShortBase.length], <<>>, root)

\* The short base, by the key of the directory that was too deep.
Fallback(preferred, root) ==
  SocketPath([in |-> ShortBase, length |-> ShortBase.length + 1 + KeyLength], <<preferred.in>>, root)

\* fault_in; a base that does not exist yet is made by whoever needs it.
AcceptShortBase == base \in {"absent", "own"}

\* Mutant: the root is taken as it was named.
IdentityAsNamed(p) == p.root

Identity(p) == Canonical(p.root)

\* resolve_socket_path
Resolution(p) ==
  LET preferred == SocketPath(SocketDir(p), <<>>, Identity(p))
      fallback == Fallback(SocketDir(p), Identity(p))
  IN CASE WithinBudget(preferred) -> [kind |-> "placed", path |-> preferred]
       [] ~WithinBudget(preferred) /\ ~WithinBudget(fallback) ->
             [kind |-> "no short path", path |-> preferred]
       [] OTHER -> [kind |-> IF AcceptShortBase THEN "placed" ELSE "unsafe base", path |-> fallback]

Resolve ==
  /\ Len(sockets) < Len(processes)
  /\ sockets' = Append(sockets, Resolution(processes[Len(sockets) + 1]))
  /\ UNCHANGED <<processes, base>>

\* A start that falls back makes its base, owner-only.
MakeBase ==
  /\ base = "absent"
  /\ sockets # <<>>
  /\ sockets[Len(sockets)].kind = "placed"
  /\ sockets[Len(sockets)].path.in = ShortBase
  /\ base' = "own" /\ UNCHANGED <<processes, sockets>>

Placed == Len(sockets) = Len(processes) /\ UNCHANGED placementVars

PlacementNext == Resolve \/ MakeBase \/ Placed
PlacementSpec == PlacementInit /\ [][PlacementNext]_placementVars
-----------------------------------------------------------------------------
(* Properties *)

\* Where a socket really is: a relative directory is the process's own.
RealPlace(i) ==
  LET socket == sockets[i].path
  IN IF socket.in.absolute THEN <<socket.in, socket.keys>> ELSE <<processes[i].cwd, socket.keys>>

BothPlaced == Len(sockets) = 2 /\ sockets[1].kind = "placed" /\ sockets[2].kind = "placed"
SameEnvironment == processes[1].runtime = processes[2].runtime /\ processes[1].home = processes[2].home

\* The command that starts a daemon, the daemon and every later command that
\* looks for it agree on one path, however each was told the root.
AgreeOnOnePath ==
  BothPlaced /\ SameEnvironment /\ Canonical(processes[1].root) = Canonical(processes[2].root) =>
      RealPlace(1) = RealPlace(2)

\* Different roots, and different runtime directories, never share a daemon,
\* deep directories included.
NeverShared ==
  BothPlaced /\ RealPlace(1) = RealPlace(2) =>
    Canonical(processes[1].root) = Canonical(processes[2].root)
        /\ SocketDir(processes[1]).in = SocketDir(processes[2]).in

\* The claim beside a placed socket can be bound as well, and whether a path
\* is placed does not depend on who came first.
ClaimFits ==
  /\ \A i \in DOMAIN sockets : sockets[i].kind = "placed" =>
       sockets[i].path.length + ClaimLength <= MAX_SOCKET_PATH
  /\ Len(sockets) = 2 /\ SameEnvironment => sockets[1].kind = sockets[2].kind

\* socket_path: the commands of one root agree on a path, no two roots share one, and
\* the claim beside it can be bound.
OneSocketPerRoot == AgreeOnOnePath /\ NeverShared /\ ClaimFits

\* What makes it inductive: a base made meanwhile changes no resolution.
PlacementIInv ==
  LET first == Resolution(processes[1])
      second == Resolution(processes[2])
  IN  /\ processes \in Commands
      /\ sockets \in {<<>>, <<first>>, <<first, second>>}
=============================================================================
