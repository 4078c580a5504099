--------------------------- MODULE McpServerProofs ---------------------------
(***************************************************************************)
(* Proof, for any calls, roots and number of changes, that the claim in    *)
(* WarmEngines::ensure gives every root at most one engine session, and    *)
(* that no engine outlives the warm-up that opened it unheld; and, for any *)
(* answer and cap, that the index of an answer cites what its text states. *)
(***************************************************************************)
EXTENDS McpServer, AnswerIndex, TLAPS

USE McpAssumption

\* What ensure's steps must keep: everything but the types.
WarmInv == WarmthLater /\ NoStrayEngine /\ OwnersDecided /\ OneOwner

\* The server starts with nothing claimed and nothing running.
LEMMA McpInitInv == McpInit => McpIInv
BY DEF McpInit, McpIInv, McpTypeOK, WarmthLater, NoStrayEngine, OwnersDecided,
       OneOwner, Owns, Deciding, Workspace, NotesAreChanges

\* The steps before the claim move one call between stages that own nothing.
LEMMA EarlyKeepsWarm ==
  ASSUME McpTypeOK, WarmInv, UNCHANGED warmVars,
         NEW c \in Call, NEW l \in {"listing", "storing", "dispatched", "claiming"},
         pc[c] \in {"idle", "listing", "storing", "dispatched"},
         pc' = [pc EXCEPT ![c] = l],
         chosen' = chosen \/ \E r \in Workspace : chosen' = [chosen EXCEPT ![c] = r]
  PROVE  WarmInv'
<1>1. \A d \in Call : pc'[d] = IF d = c THEN l ELSE pc[d]
  BY DEF McpTypeOK
<1>2. \A d \in Call \ {c} : chosen'[d] = chosen[d]
  BY DEF McpTypeOK
<1>3. warmth[c] = "none" /\ warmth' = warmth /\ decided' = decided /\ engine' = engine
  BY DEF WarmInv, WarmthLater, warmVars
<1>4. \A d \in Call : Owns(d)' <=> d # c /\ Owns(d)
  BY <1>1, <1>3 DEF Owns, Deciding
<1> QED
  BY <1>1, <1>2, <1>3, <1>4 DEF WarmInv, WarmthLater, NoStrayEngine, OwnersDecided, OneOwner

\* Every step keeps the invariant.
LEMMA McpStepInv == McpIInv /\ [McpNext]_mcpVars => McpIInv'
<1> SUFFICES ASSUME McpIInv, [McpNext]_mcpVars PROVE McpIInv'
  OBVIOUS
<1> USE DEF McpIInv
<1>0. WarmInv
  BY DEF WarmInv
<1>1. ASSUME UNCHANGED <<pc, chosen, warmVars>> PROVE WarmInv'
  BY <1>0, <1>1 DEF WarmInv, WarmthLater, NoStrayEngine, OwnersDecided, OneOwner, Owns, warmVars
<1>2. CASE RootsChange
  <2>1. /\ changes \in 0 .. MaxChanges /\ unhandled \in 0 .. MaxChanges
        /\ changes < MaxChanges /\ unhandled <= changes
        /\ changes' = changes + 1 /\ unhandled' = unhandled + 1
    BY <1>2 DEF RootsChange, McpTypeOK, NotesAreChanges
  <2>2. changes' \in 0 .. MaxChanges /\ unhandled' \in 0 .. MaxChanges /\ NotesAreChanges'
    BY <2>1 DEF NotesAreChanges
  <2>3. McpTypeOK'
    BY <1>2, <2>2 DEF RootsChange, McpTypeOK, warmVars
  <2> QED
    BY <1>1, <1>2, <2>2, <2>3 DEF RootsChange, WarmInv
<1>3. CASE OnRootsListChanged
  <2>1. /\ changes \in 0 .. MaxChanges /\ unhandled \in 0 .. MaxChanges
        /\ unhandled > 0 /\ unhandled <= changes
        /\ changes' = changes /\ unhandled' = unhandled - 1
    BY <1>3 DEF OnRootsListChanged, McpTypeOK, NotesAreChanges
  <2>2. unhandled' \in 0 .. MaxChanges /\ NotesAreChanges'
    BY <2>1 DEF NotesAreChanges
  <2>3. McpTypeOK'
    BY <1>3, <2>1, <2>2 DEF OnRootsListChanged, McpTypeOK, callVars, warmVars
  <2> QED
    BY <1>1, <1>3, <2>2, <2>3 DEF OnRootsListChanged, WarmInv, callVars
<1> USE DEF NotesAreChanges, rootVars
<1>4. ASSUME NEW c \in Call, BeginCall(c) PROVE McpIInv'
  <2>1. McpTypeOK'
    BY <1>4 DEF BeginCall, Goto, McpTypeOK, rootVars, warmVars
  <2>2. WarmInv'
    BY <1>0, <1>4, EarlyKeepsWarm DEF BeginCall, Goto
  <2> QED
    BY <1>4, <2>1, <2>2 DEF WarmInv, BeginCall
<1>5. ASSUME NEW c \in Call, ListRoots(c) PROVE McpIInv'
  <2>0. /\ pc' = [pc EXCEPT ![c] = "storing"]
        /\ \E answer \in Root \cup {"empty"} : got' = [got EXCEPT ![c] = answer]
        /\ UNCHANGED <<workspace, changes, unhandled, clientRoots, chosen, quiet,
                       warmth, decided, engine>>
    BY <1>5 DEF ListRoots, Goto, McpTypeOK, rootVars, warmVars
  <2>1. McpTypeOK'
    BY <2>0 DEF McpTypeOK
  <2>2. WarmInv'
    BY <1>0, <1>5, EarlyKeepsWarm DEF ListRoots, Goto
  <2> QED
    BY <1>5, <2>1, <2>2 DEF WarmInv, ListRoots
<1>6. ASSUME NEW c \in Call, StoreRoots(c) PROVE McpIInv'
  <2>1. McpTypeOK'
    BY <1>6 DEF StoreRoots, Goto, McpTypeOK, warmVars
  <2>2. WarmInv'
    BY <1>0, <1>6, EarlyKeepsWarm DEF StoreRoots, Goto
  <2> QED
    BY <1>6, <2>1, <2>2 DEF WarmInv, StoreRoots
<1>7. ASSUME NEW c \in Call, RootFor(c) PROVE McpIInv'
  <2>1. PICK r \in Workspace : chosen' = [chosen EXCEPT ![c] = r]
    BY <1>7 DEF RootFor, Workspace
  <2>0. /\ pc' = [pc EXCEPT ![c] = "claiming"]
        /\ UNCHANGED <<workspace, changes, unhandled, clientRoots, got, quiet,
                       warmth, decided, engine>>
    BY <1>7 DEF RootFor, Goto, rootVars, warmVars
  <2>2. McpTypeOK'
    BY <2>0, <2>1 DEF McpTypeOK
  <2>3. WarmInv'
    BY <1>0, <1>7, <2>1, EarlyKeepsWarm DEF RootFor, Goto
  <2> QED
    BY <1>7, <2>2, <2>3 DEF WarmInv, RootFor
<1>8. ASSUME NEW c \in Call, Claim(c) PROVE McpIInv'
  <2>1. warmth[c] = "none" /\ engine[c] = "none"
    BY <1>8 DEF Claim, WarmthLater, NoStrayEngine, McpTypeOK
  <2>2. CASE chosen[c] \in decided
    <3>1. /\ warmth' = [warmth EXCEPT ![c] = "decided"]
          /\ pc' = [pc EXCEPT ![c] = "running"]
          /\ UNCHANGED <<rootVars, got, chosen, quiet, engine, decided>>
      BY <1>8, <2>2 DEF Claim, Warmed, Goto
    <3>2. McpTypeOK'
      BY <3>1 DEF McpTypeOK, rootVars
    <3>3. \A d \in Call : Owns(d)' <=> Owns(d)
      BY <1>8, <2>1, <3>1 DEF Owns, Deciding, McpTypeOK, Claim
    <3>4. WarmthLater' /\ NoStrayEngine'
      BY <1>8, <2>1, <3>1 DEF WarmthLater, NoStrayEngine, McpTypeOK, Claim
    <3> QED
      BY <3>1, <3>2, <3>3, <3>4 DEF OwnersDecided, OneOwner
  <2>3. CASE chosen[c] \notin decided
    <3>1. /\ pc' = [pc EXCEPT ![c] = "probing"]
          /\ decided' = decided \cup {chosen[c]}
          /\ UNCHANGED <<rootVars, got, chosen, quiet, engine, warmth>>
      BY <1>8, <2>3 DEF Claim, Goto
    <3>2. McpTypeOK'
      BY <3>1 DEF McpTypeOK, Deciding, rootVars
    <3>3. \A d \in Call : Owns(d)' <=> d = c \/ Owns(d)
      BY <3>1 DEF Owns, Deciding, McpTypeOK
    <3>4. \A d \in Call : Owns(d) => chosen[d] # chosen[c]
      BY <2>3 DEF OwnersDecided
    <3>5. WarmthLater' /\ NoStrayEngine'
      BY <1>8, <2>1, <3>1 DEF WarmthLater, NoStrayEngine, McpTypeOK, Claim
    <3>6. OwnersDecided' /\ OneOwner'
      BY <3>1, <3>3, <3>4 DEF OwnersDecided, OneOwner
    <3> QED
      BY <3>1, <3>2, <3>5, <3>6
  <2> QED
    BY <2>2, <2>3
<1>9. ASSUME NEW c \in Call, pc[c] \in Deciding,
             NEW w \in {"left to daemon", "opened", "failed"}, Warmed(c, w),
             engine' = [engine EXCEPT ![c] = IF w = "opened" THEN "held" ELSE "none"],
             UNCHANGED <<rootVars, got, chosen, quiet, decided>>
      PROVE  McpIInv'
  <2>1. McpTypeOK'
    BY <1>9 DEF McpTypeOK, Warmed, Goto, rootVars
  <2>2. \A d \in Call : Owns(d)' <=> Owns(d)
    BY <1>9 DEF Owns, Deciding, McpTypeOK, Warmed, Goto
  <2>3. WarmthLater'
    BY <1>9 DEF WarmthLater, McpTypeOK, Warmed, Goto
  <2>4. NoStrayEngine'
    BY <1>9 DEF NoStrayEngine, McpTypeOK, Warmed, Goto
  <2> QED
    BY <1>9, <2>1, <2>2, <2>3, <2>4 DEF OwnersDecided, OneOwner
<1>10. ASSUME NEW c \in Call, ProbeDaemon(c) PROVE McpIInv'
  <2>1. engine[c] = "none" /\ warmth[c] = "none"
    BY <1>10 DEF ProbeDaemon, NoStrayEngine, WarmthLater, McpTypeOK
  <2>2. CASE Warmed(c, "left to daemon") /\ UNCHANGED engine
    <3>1. engine' = [engine EXCEPT ![c] = "none"]
      BY <2>1, <2>2 DEF McpTypeOK
    <3> QED
      BY <1>9, <1>10, <2>2, <3>1 DEF ProbeDaemon, Deciding
  <2>3. CASE ~(Warmed(c, "left to daemon") /\ UNCHANGED engine)
    <3>1. /\ pc[c] = "probing" /\ pc' = [pc EXCEPT ![c] = "opening"]
          /\ engine' = [engine EXCEPT ![c] = "opening"]
          /\ UNCHANGED <<rootVars, got, chosen, quiet, decided, warmth>>
      BY <1>10, <2>3 DEF ProbeDaemon, Goto
    <3>2. McpTypeOK'
      BY <3>1 DEF McpTypeOK, Deciding, rootVars
    <3>3. \A d \in Call : Owns(d)' <=> Owns(d)
      BY <3>1 DEF Owns, Deciding, McpTypeOK
    <3>4. WarmthLater' /\ NoStrayEngine'
      BY <2>1, <3>1 DEF WarmthLater, NoStrayEngine, McpTypeOK
    <3> QED
      BY <3>1, <3>2, <3>3, <3>4 DEF OwnersDecided, OneOwner
  <2> QED
    BY <2>2, <2>3
<1>11. ASSUME NEW c \in Call, Open(c) PROVE McpIInv'
  <2>1. PICK w \in {"opened", "failed"} :
          /\ Warmed(c, w)
          /\ engine' = [engine EXCEPT ![c] = IF w = "opened" THEN "held" ELSE "none"]
    BY <1>11 DEF Open
  <2> QED
    BY <1>9, <1>11, <2>1 DEF Open, Deciding
<1>12. ASSUME NEW c \in Call, WarmUpTimesOut(c) PROVE McpIInv'
  BY <1>9, <1>12 DEF WarmUpTimesOut
<1>13. ASSUME NEW c \in Call, Run(c) PROVE McpIInv'
  <2>1. /\ pc[c] = "running" /\ pc' = [pc EXCEPT ![c] = "done"]
        /\ UNCHANGED <<rootVars, got, chosen, quiet, warmVars>>
    BY <1>13 DEF Run, Goto
  <2>2. McpTypeOK'
    BY <2>1 DEF McpTypeOK, rootVars, warmVars
  <2>3. \A d \in Call : Owns(d)' <=> Owns(d)
    BY <2>1 DEF Owns, Deciding, McpTypeOK, warmVars
  <2>4. WarmthLater' /\ NoStrayEngine'
    BY <2>1 DEF WarmthLater, NoStrayEngine, McpTypeOK, warmVars
  <2> QED
    BY <2>1, <2>2, <2>3, <2>4 DEF OwnersDecided, OneOwner, warmVars
<1>14. CASE UNCHANGED mcpVars
  <2>1. McpTypeOK'
    BY <1>14 DEF mcpVars, McpTypeOK, rootVars, callVars, warmVars
  <2> QED
    BY <1>1, <1>14, <2>1 DEF mcpVars, callVars, WarmInv
<1> QED
  BY <1>2, <1>3, <1>4, <1>5, <1>6, <1>7, <1>8, <1>10, <1>11, <1>12, <1>13, <1>14
  DEF McpNext, ServerStep

\* The invariant of claim, probe, open and timeout holds throughout.
THEOREM McpInvariant == McpSpec => []McpIInv
BY McpInitInv, McpStepInv, PTL DEF McpSpec

\* At most one engine session per root, for any number of concurrent calls.
THEOREM McpOneSessionPerRoot == McpSpec => []OneSessionPerRoot
<1>1. McpIInv => OneSessionPerRoot
  <2> SUFFICES ASSUME McpIInv, NEW c \in Call, NEW d \in Call,
                      engine[c] # "none", engine[d] # "none", chosen[c] = chosen[d]
               PROVE  c = d
    BY DEF OneSessionPerRoot
  <2>1. \A e \in Call : engine[e] # "none" => Owns(e)
    BY DEF McpIInv, McpTypeOK, NoStrayEngine, Owns, Deciding
  <2> QED
    BY <2>1 DEF McpIInv, OneOwner
<1> QED
  BY <1>1, McpInvariant, PTL

\* No engine outlives the warm-up that opened it unless a call holds it: one that
\* failed, or that the bound cut off while probing or opening, leaves none.
THEOREM McpNoStrayEngine == McpSpec => []NoStrayEngine
<1>1. McpIInv => NoStrayEngine
  BY DEF McpIInv
<1> QED
  BY <1>1, McpInvariant, PTL
-----------------------------------------------------------------------------
(* The index of an answer. *)

\* The places stated before p and at all, among the spots S of t; the first n of a list.
Earlier(t, S, p) == {Place(t, q) : q \in {q \in S : Before(q, p)}}
Places(t, S) == {Place(t, q) : q \in S}
First(c, n) == {c[i] : i \in 1 .. n}

\* One more spot, behind all the others, is one more place on the list, unless
\* its place is there already or the list is full.
LEMMA ListGrows ==
  ASSUME MAX_CITATIONS \in Nat, NEW t, NEW S, NEW p, NEW V, NEW c \in Seq(V), Place(t, p) \in V,
         Lists(c, t, S), ~ Before(p, p), \A q \in S : Before(q, p) /\ ~ Before(p, q)
  PROVE  /\ Place(t, p) \in ToSet(c) \/ Len(c) = MAX_CITATIONS => Lists(c, t, S \cup {p})
         /\ Place(t, p) \notin ToSet(c) /\ Len(c) # MAX_CITATIONS =>
              Lists(Append(c, Place(t, p)), t, S \cup {p})
<1> DEFINE T == S \cup {p}
           x == Place(t, p)
<1>0. Len(c) \in Nat /\ Len(c) <= MAX_CITATIONS
  BY DEF Lists
<1>1. DOMAIN c = 1 .. Len(c) /\ \A j \in DOMAIN c : c[j] \in V
  OBVIOUS
<1>2. ASSUME NEW q \in S PROVE Earlier(t, T, q) = Earlier(t, S, q)
  <2>1. {r \in T : Before(r, q)} = {r \in S : Before(r, q)}
    OBVIOUS
  <2> QED
    BY <2>1 DEF Earlier
<1>3. Earlier(t, T, p) = Places(t, S)
  <2>1. {r \in S \cup {p} : Before(r, p)} = S
    OBVIOUS
  <2> QED
    BY <2>1 DEF Earlier, Places
<1>a. ASSUME NEW d, NEW j, NEW q
      PROVE  FirstStatedAt(d, j, t, T, q)
               <=> d[j] = Place(t, q) /\ (\A i \in 1 .. j - 1 : d[i] # d[j]) /\ Earlier(t, T, q) = First(d, j - 1)
  BY DEF FirstStatedAt, Earlier, First
<1>b. ASSUME NEW j \in DOMAIN c
      PROVE  \E q \in S : c[j] = Place(t, q) /\ (\A i \in 1 .. j - 1 : c[i] # c[j]) /\ Earlier(t, T, q) = First(c, j - 1)
  <2>1. PICK q \in S : FirstStatedAt(c, j, t, S, q)
    BY DEF Lists
  <2> QED
    BY <1>2, <2>1 DEF FirstStatedAt, Earlier, First
<1>4. Len(c) < MAX_CITATIONS => \A q \in S : Place(t, q) \in ToSet(c)
  BY DEF Lists
<1> HIDE DEF T
<1>5. ASSUME x \in ToSet(c) \/ Len(c) = MAX_CITATIONS PROVE Lists(c, t, T)
  <2>1. ASSUME Len(c) < MAX_CITATIONS, NEW q \in T PROVE Place(t, q) \in ToSet(c)
    <3>1. Len(c) # MAX_CITATIONS
      BY <1>0, <2>1
    <3>2. CASE q = p
      BY <1>5, <3>1, <3>2, Zenon
    <3>3. CASE q \in S
      BY <1>4, <2>1, <3>3
    <3> QED
      BY <3>2, <3>3 DEF T
  <2>2. \A j \in DOMAIN c : \E q \in T : FirstStatedAt(c, j, t, T, q)
    BY <1>a, <1>b DEF T
  <2> QED
    BY <1>0, <2>1, <2>2 DEF Lists
<1>6. ASSUME x \notin ToSet(c), Len(c) # MAX_CITATIONS PROVE Lists(Append(c, x), t, T)
  <2> DEFINE d == Append(c, x)
             n == Len(c) + 1
  <2>1. /\ Len(d) = n /\ DOMAIN d = 1 .. n /\ d[n] = x
        /\ \A j \in DOMAIN c : d[j] = c[j]
    BY <1>0, <1>1
  <2> HIDE DEF d
  <2>2. Len(d) <= MAX_CITATIONS
    BY <1>0, <1>6, <2>1
  <2>3. \A y : y \in ToSet(c) <=> \E i \in DOMAIN c : y = c[i]
    BY DEF ToSet
  <2>4. ASSUME NEW j \in 1 .. n PROVE First(d, j - 1) = First(c, j - 1)
    <3>1. \A i \in 1 .. j - 1 : d[i] = c[i]
      BY <1>0, <1>1, <2>1
    <3> QED
      BY <3>1 DEF First
  <2>5. Places(t, S) = First(c, n - 1)
    <3>1. First(c, n - 1) = ToSet(c)
      <4>1. n - 1 = Len(c)
        BY <1>0
      <4> QED
        BY <1>1, <4>1, Zenon DEF First, ToSet
    <3>2. \A r \in S : Place(t, r) \in ToSet(c)
      BY <1>0, <1>4, <1>6
    <3>3. \A i \in DOMAIN c : \E r \in S : c[i] = Place(t, r)
      BY <1>b
    <3> QED
      BY <2>3, <3>1, <3>2, <3>3 DEF Places
  <2>6. \A i \in 1 .. n - 1 : d[i] # d[n]
    <3>1. ASSUME NEW i \in 1 .. n - 1 PROVE i \in DOMAIN c
      BY <1>0, <1>1
    <3> QED
      BY <1>6, <2>1, <2>3, <3>1
  <2>7. ASSUME NEW j \in DOMAIN d PROVE \E q \in T : FirstStatedAt(d, j, t, T, q)
    <3>1. CASE j = n
      <4>1. p \in T /\ n \in 1 .. n
        BY <1>0, <1>1 DEF T
      <4>2. Earlier(t, T, p) = First(d, n - 1)
        BY <1>3, <2>4, <2>5, <4>1
      <4> QED
        BY <1>a, <2>1, <2>6, <3>1, <4>1, <4>2
    <3>2. CASE j \in DOMAIN c
      <4>1. PICK q \in S : c[j] = Place(t, q) /\ (\A i \in 1 .. j - 1 : c[i] # c[j]) /\ Earlier(t, T, q) = First(c, j - 1)
        BY <1>b, <3>2
      <4>2. j \in 1 .. n /\ d[j] = c[j] /\ \A i \in 1 .. j - 1 : d[i] = c[i]
        BY <1>0, <1>1, <2>1, <3>2
      <4>3. First(d, j - 1) = First(c, j - 1) /\ q \in T
        BY <2>4, <4>2 DEF T
      <4> QED
        BY <1>a, <4>1, <4>2, <4>3
    <3> QED
      BY <1>0, <1>1, <2>1, <3>1, <3>2
  <2>8. ASSUME NEW q \in T PROVE Place(t, q) \in ToSet(d)
    <3>1. \A j \in DOMAIN d : d[j] \in ToSet(d)
      BY DEF ToSet
    <3>2. CASE q = p
      BY <1>0, <1>1, <2>1, <3>1, <3>2
    <3>3. CASE q \in S
      <4>1. Place(t, q) \in ToSet(c)
        BY <1>0, <1>4, <1>6, <3>3
      <4>2. PICK i \in DOMAIN c : Place(t, q) = c[i]
        BY <2>3, <4>1
      <4> QED
        <5>1. i \in DOMAIN d /\ d[i] = c[i]
          BY <1>0, <1>1, <2>1
        <5> QED
          BY <3>1, <4>2, <5>1
    <3> QED
      BY <3>2, <3>3 DEF T
  <2> QED
    BY <2>2, <2>7, <2>8 DEF Lists, d
<1> QED
  BY <1>5, <1>6 DEF T

\* note_file, on the list of files.
Noted(f, name) == IF name \in ToSet(f) THEN f ELSE Append(f, name)

\* A list of distinct files stays one, and has the file noted.
LEMMA FileIsNoted ==
  ASSUME NEW W, NEW f \in Seq(W), NEW name \in W, NEW c, FilesCover(f, c)
  PROVE  /\ Noted(f, name) \in Seq(W) /\ FilesCover(Noted(f, name), c) /\ name \in ToSet(Noted(f, name))
<1>1. CASE name \in ToSet(f)
  BY <1>1 DEF Noted
<1>2. CASE name \notin ToSet(f)
  <2> DEFINE g == Append(f, name)
             n == Len(f) + 1
  <2>0. Len(f) \in Nat
    OBVIOUS
  <2>1. /\ g \in Seq(W) /\ DOMAIN g = 1 .. n /\ g[n] = name
        /\ DOMAIN f = 1 .. Len(f) /\ \A i \in DOMAIN f : g[i] = f[i]
    OBVIOUS
  <2> HIDE DEF g
  <2>2. \A i \in DOMAIN f : f[i] # name
    BY <1>2 DEF ToSet
  <2>3. ASSUME NEW i \in DOMAIN g PROVE i = n \/ i \in DOMAIN f
    BY <2>0, <2>1
  <2>4. \A i, j \in DOMAIN f : f[i] = f[j] => i = j
    BY DEF FilesCover
  <2>5. \A i, j \in DOMAIN g : g[i] = g[j] => i = j
    BY <2>1, <2>2, <2>3, <2>4
  <2>6. ToSet(f) \subseteq ToSet(g)
    <3>1. ASSUME NEW i \in DOMAIN f PROVE i \in DOMAIN g /\ f[i] = g[i]
      BY <2>0, <2>1
    <3> QED
      BY <3>1 DEF ToSet
  <2>7. n \in DOMAIN g
    BY <2>0, <2>1
  <2>8. name \in ToSet(g)
    BY <2>1, <2>7 DEF ToSet
  <2>9. Noted(f, name) = g
    BY <1>2 DEF Noted, g
  <2>10. \A i \in DOMAIN c : c[i].path \in ToSet(g)
    BY <2>6 DEF FilesCover
  <2> QED
    BY <2>1, <2>5, <2>8, <2>9, <2>10 DEF FilesCover
<1> QED
  BY <1>1, <1>2

\* note_file touches nothing else.
LEMMA NotingKeeps ==
  ASSUME NEW V, NEW W, NEW s, IsScan(s, V, W), NEW name \in W, FilesCover(s.files, s.citations)
  PROVE  /\ IsScan(NoteFile(s, name), V, W)
         /\ NoteFile(s, name).citations = s.citations
         /\ NoteFile(s, name).files = Noted(s.files, name)
         /\ FilesCover(NoteFile(s, name).files, s.citations)
<1> DEFINE f == Noted(s.files, name)
<1>1. f \in Seq(W) /\ FilesCover(f, s.citations)
  BY FileIsNoted DEF IsScan
<1>2. s = [index |-> s.index, files |-> s.files, citations |-> s.citations, omitted |-> s.omitted]
  BY DEF IsScan
<1>3. NoteFile(s, name) = [index |-> s.index, files |-> f, citations |-> s.citations, omitted |-> s.omitted]
  <2>1. CASE name \in ToSet(s.files)
    BY <1>2, <2>1 DEF NoteFile, Noted
  <2>2. CASE name \notin ToSet(s.files)
    <3>1. NoteFile(s, name) = [s EXCEPT !.files = f]
      BY <2>2 DEF NoteFile, Noted
    <3> HIDE DEF f
    <3> QED
      BY <1>2, <3>1
  <2> QED
    BY <2>1, <2>2
<1> HIDE DEF f
<1> QED
  BY <1>1, <1>3 DEF IsScan, f

\* cite, at a spot behind all the others.
LEMMA CitingKeeps ==
  ASSUME MAX_CITATIONS \in Nat, NEW t, NEW S, NEW p, NEW V, NEW W, NEW s, IsScan(s, V, W),
         Place(t, p) \in V, Place(t, p).path \in W,
         Lists(s.citations, t, S), FilesCover(s.files, s.citations),
         ~ Before(p, p), \A q \in S : Before(q, p) /\ ~ Before(p, q)
  PROVE  LET r == Cite(s, Place(t, p))
         IN IsScan(r, V, W) /\ Lists(r.citations, t, S \cup {p}) /\ FilesCover(r.files, r.citations)
<1> DEFINE x == Place(t, p)
           c == s.citations
           r == Cite(s, x)
           T == S \cup {p}
<1>1. c \in Seq(V) /\ s.omitted \in Nat /\ s.files \in Seq(W)
  BY DEF IsScan
<1>2. s = [index |-> s.index, files |-> s.files, citations |-> c, omitted |-> s.omitted]
  BY DEF IsScan
<1>3. /\ x \in ToSet(c) \/ Len(c) = MAX_CITATIONS => Lists(c, t, T)
      /\ x \notin ToSet(c) /\ Len(c) # MAX_CITATIONS => Lists(Append(c, x), t, T)
  BY <1>1, ListGrows
<1> HIDE DEF T, x
<1>4. CASE x \in ToSet(c)
  <2>1. r = s
    BY <1>4 DEF Cite
  <2> QED
    BY <1>3, <1>4, <2>1 DEF T, x
<1>5. CASE x \notin ToSet(c) /\ Len(c) = MAX_CITATIONS
  <2>1. r = [s EXCEPT !.omitted = @ + 1]
    BY <1>5 DEF Cite
  <2>2. r = [index |-> s.index, files |-> s.files, citations |-> c, omitted |-> s.omitted + 1]
    BY <1>2, <2>1
  <2> HIDE DEF r
  <2>3. IsScan(r, V, W) /\ r.citations = c /\ r.files = s.files
    BY <1>1, <2>2 DEF IsScan
  <2> QED
    BY <1>3, <1>5, <2>3 DEF T, x, r
<1>6. CASE x \notin ToSet(c) /\ Len(c) # MAX_CITATIONS
  <2> DEFINE n == NoteFile(s, x.path)
             d == Append(c, x)
             f == n.files
  <2>1. x \in V /\ x.path \in W
    BY DEF x
  <2>2. /\ IsScan(n, V, W) /\ n.citations = c /\ f = Noted(s.files, x.path) /\ FilesCover(f, c)
    BY <2>1, NotingKeeps
  <2>3. x.path \in ToSet(f)
    <3> DEFINE name == x.path
               g == s.files
    <3>1. name \in W /\ g \in Seq(W) /\ FilesCover(g, c)
      BY <1>1, <2>1
    <3> HIDE DEF name, g, c
    <3>2. name \in ToSet(Noted(g, name))
      BY <3>1, FileIsNoted
    <3> QED
      BY <2>2, <3>2 DEF name, g
  <2>4. r = [n EXCEPT !.citations = Append(@, x)]
    BY <1>6 DEF Cite
  <2> HIDE DEF n
  <2>5. n = [index |-> n.index, files |-> f, citations |-> c, omitted |-> n.omitted] /\ f \in Seq(W) /\ n.omitted \in Nat
    BY <2>2 DEF IsScan
  <2>6. r = [index |-> n.index, files |-> f, citations |-> d, omitted |-> n.omitted]
    <3>1. r = [n EXCEPT !.citations = d]
      BY <2>2, <2>4
    <3> DEFINE i == n.index
               o == n.omitted
    <3>2. n = [index |-> i, files |-> f, citations |-> c, omitted |-> o]
      BY <2>5
    <3> HIDE DEF d, r, f, c, i, o
    <3>3. r = [index |-> i, files |-> f, citations |-> d, omitted |-> o]
      BY <3>1, <3>2
    <3> QED
      BY <3>3 DEF i, o
  <2>7. /\ d \in Seq(V) /\ DOMAIN d = 1 .. Len(c) + 1 /\ d[Len(c) + 1] = x
        /\ DOMAIN c = 1 .. Len(c) /\ \A i \in DOMAIN c : d[i] = c[i]
    BY <1>1, <2>1
  <2> HIDE DEF d, r, f
  <2>8. FilesCover(f, d)
    <3>0. Len(c) \in Nat
      BY <1>1
    <3>1. ASSUME NEW i \in DOMAIN d PROVE d[i].path \in ToSet(f)
      <4>1. i = Len(c) + 1 \/ i \in DOMAIN c
        BY <3>0, <2>7
      <4>2. CASE i = Len(c) + 1
        BY <2>3, <2>7, <4>2
      <4>3. CASE i \in DOMAIN c
        BY <2>2, <2>7, <4>3 DEF FilesCover
      <4> QED
        BY <4>1, <4>2, <4>3
    <3> QED
      BY <2>2, <3>1 DEF FilesCover
  <2>9. IsScan(r, V, W) /\ r.citations = d /\ r.files = f
    BY <2>5, <2>6, <2>7 DEF IsScan
  <2> QED
    BY <1>3, <1>6, <2>8, <2>9 DEF T, d, r, x
<1> QED
  BY <1>4, <1>5, <1>6

\* A spot is a line and one of the places it states.
LEMMA SpotIs ==
  ASSUME NEW t, NEW p
  PROVE  p \in Spots(t) <=> \E i \in DOMAIN t : \E k \in DOMAIN Stated(t, i) : p = <<i, k>>
BY DEF Spots

\* A numbered item states one place, a row as many as it has positions.
LEMMA StatedPlaces ==
  ASSUME NEW t, NEW i
  PROVE  /\ IsNumbered(t[i]) => /\ DOMAIN Stated(t, i) = {1}
                                /\ Stated(t, i)[1] = Citation(FileAbove(t, i), t[i].line, NoColumn)
         /\ t[i].form = "row" =>
              /\ DOMAIN Stated(t, i) = 1 .. Len(t[i].at)
              /\ \A k \in 1 .. Len(t[i].at) :
                   Stated(t, i)[k] = Citation(t[i].at[k].path.name, t[i].at[k].line, t[i].at[k].column)
         /\ ~ IsNumbered(t[i]) /\ t[i].form # "row" => DOMAIN Stated(t, i) = {}
<1>1. CASE IsNumbered(t[i])
  <2>1. t[i].form # "row"
    BY <1>1 DEF IsNumbered
  <2>2. Stated(t, i) = <<Citation(FileAbove(t, i), t[i].line, NoColumn)>>
    BY <1>1, <2>1 DEF Stated
  <2> QED
    BY <1>1, <2>1, <2>2
<1>2. CASE ~ IsNumbered(t[i]) /\ t[i].form = "row"
  <2> DEFINE cited(k) == Citation(t[i].at[k].path.name, t[i].at[k].line, t[i].at[k].column)
             n == Len(t[i].at)
  <2>1. Stated(t, i) = [k \in 1 .. n |-> cited(k)]
    BY <1>2, Zenon DEF Stated
  <2> HIDE DEF cited, n
  <2>2. DOMAIN Stated(t, i) = 1 .. n /\ \A k \in 1 .. n : Stated(t, i)[k] = cited(k)
    BY <2>1
  <2> QED
    BY <1>2, <2>2 DEF cited, n
<1>3. CASE ~ IsNumbered(t[i]) /\ t[i].form # "row"
  <2>1. Stated(t, i) = <<>>
    BY <1>3 DEF Stated
  <2> QED
    BY <1>3, <2>1
<1> QED
  BY <1>1, <1>2, <1>3

\* The lines of a text and the places of a line are numbered from one.
LEMMA SpotsAreNumbered ==
  ASSUME NEW t, IsAnswer(t), NEW p \in Spots(t)
  PROVE  /\ p[1] \in Nat /\ p[2] \in Nat /\ p[2] > 0 /\ p = <<p[1], p[2]>>
         /\ p[1] \in DOMAIN t /\ p[2] \in DOMAIN Stated(t, p[1])
<1>1. PICK i \in DOMAIN t : \E k \in DOMAIN Stated(t, i) : p = <<i, k>>
  BY SpotIs
<1>2. PICK k \in DOMAIN Stated(t, i) : p = <<i, k>>
  BY <1>1
<1>3. i \in Nat
  BY DEF IsAnswer
<1>4. k \in Nat /\ k > 0
  <2>1. CASE IsNumbered(t[i])
    <3>1. DOMAIN Stated(t, i) = {1}
      BY <2>1, StatedPlaces
    <3> QED
      BY <3>1
  <2>2. CASE t[i].form = "row"
    <3>1. DOMAIN Stated(t, i) = 1 .. Len(t[i].at)
      BY <2>2, StatedPlaces
    <3>2. Len(t[i].at) \in Nat
      <4>1. t[i].at \in Seq(ToSet(t[i].at))
        BY <2>2 DEF IsAnswer
      <4> QED
        BY <4>1
    <3> QED
      BY <3>1, <3>2
  <2>3. CASE ~ IsNumbered(t[i]) /\ t[i].form # "row"
    <3>1. DOMAIN Stated(t, i) = {}
      BY <2>3, StatedPlaces
    <3> QED
      BY <3>1
  <2> QED
    BY <2>1, <2>2, <2>3
<1> QED
  BY <1>2, <1>3, <1>4

\* Going on to the next line, behind the last place of this one, reaches no spot.
LEMMA LineEnds ==
  ASSUME NEW t, IsAnswer(t), NEW i \in DOMAIN t, NEW n \in Nat, \A k \in DOMAIN Stated(t, i) : k <= n
  PROVE  SpotsTo(t, i + 1, 0) = SpotsTo(t, i, n)
<1>1. i \in Nat
  BY DEF IsAnswer
<1>2. ASSUME NEW p \in Spots(t)
      PROVE  p[1] < i + 1 \/ (p[1] = i + 1 /\ p[2] <= 0) <=> p[1] < i \/ (p[1] = i /\ p[2] <= n)
  <2>1. p[1] \in Nat /\ p[2] \in Nat /\ p[2] > 0
    BY SpotsAreNumbered
  <2>2. p[1] = i => p[2] <= n
    BY SpotsAreNumbered
  <2> QED
    BY <1>1, <2>1, <2>2
<1> QED
  BY <1>2 DEF SpotsTo

\* The next place of a line is one spot more, behind all that were reached.
LEMMA SpotReached ==
  ASSUME NEW t, IsAnswer(t), NEW i \in DOMAIN t, NEW k \in Nat, k + 1 \in DOMAIN Stated(t, i)
  PROVE  /\ SpotsTo(t, i, k + 1) = SpotsTo(t, i, k) \cup {<<i, k + 1>>}
         /\ <<i, k + 1>> \in Spots(t) /\ ~ Before(<<i, k + 1>>, <<i, k + 1>>)
         /\ \A q \in SpotsTo(t, i, k) : Before(q, <<i, k + 1>>) /\ ~ Before(<<i, k + 1>>, q)
<1> DEFINE p == <<i, k + 1>>
<1>1. i \in Nat
  BY DEF IsAnswer
<1>2. p \in Spots(t) /\ p[1] = i /\ p[2] = k + 1
  BY SpotIs
<1>3. ~ Before(p, p)
  BY <1>1, <1>2 DEF Before
<1>4. ASSUME NEW q \in Spots(t)
      PROVE  /\ q[1] < i \/ (q[1] = i /\ q[2] <= k + 1) <=> q = p \/ q[1] < i \/ (q[1] = i /\ q[2] <= k)
             /\ q[1] < i \/ (q[1] = i /\ q[2] <= k) => Before(q, p) /\ ~ Before(p, q)
  <2>1. q[1] \in Nat /\ q[2] \in Nat /\ q = <<q[1], q[2]>>
    BY SpotsAreNumbered
  <2>2. q[1] = i /\ q[2] = k + 1 <=> q = p
    BY <2>1
  <2> HIDE DEF p
  <2>3. q[1] < i \/ (q[1] = i /\ q[2] <= k + 1) <=> q = p \/ q[1] < i \/ (q[1] = i /\ q[2] <= k)
    BY <1>1, <2>1, <2>2
  <2>4. q[1] < i \/ (q[1] = i /\ q[2] <= k) => Before(q, p) /\ ~ Before(p, q)
    BY <1>1, <1>2, <2>1 DEF Before
  <2> QED
    BY <2>3, <2>4
<1> HIDE DEF p
<1>5. SpotsTo(t, i, k + 1) = SpotsTo(t, i, k) \cup {p}
  BY <1>2, <1>4 DEF SpotsTo
<1>6. \A q \in SpotsTo(t, i, k) : Before(q, p) /\ ~ Before(p, q)
  BY <1>4 DEF SpotsTo
<1> QED
  BY <1>2, <1>3, <1>5, <1>6 DEF p

\* A numbered item stands under the group that is open: the last line above it
\* to open one is the file line right above it.
LEMMA GroupIsTheFile ==
  ASSUME NEW t, IsAnswer(t), NEW i \in DOMAIN t, IsNumbered(t[i]),
         NEW m \in Opening(t, i), \A j \in Opening(t, i) : j <= m
  PROVE  t[m].path.name = FileAbove(t, i)
<1> DEFINE above == {k \in 1 .. i - 1 : t[k].form = "file"}
<1>1. i \in Nat
  BY DEF IsAnswer
<1>2. PICK k \in 1 .. i - 1 :
        /\ t[k].form = "file" /\ IsSourcePath(t[k].path)
        /\ \A j \in k + 1 .. i - 1 : t[j].form # "file" /\ ~ (t[j].form = "heading" /\ IsSourcePath(t[j].path))
  BY DEF IsAnswer
<1>3. /\ k \in Opening(t, i) /\ k \in above
  BY <1>2 DEF Opening
<1>4. m \in 1 .. i - 1 /\ t[m].form \in {"heading", "file"} /\ IsSourcePath(t[m].path)
  BY DEF Opening
<1>5. m = k
  <2>1. k <= m
    BY <1>3
  <2>2. m \notin k + 1 .. i - 1
    BY <1>2, <1>4
  <2> QED
    BY <1>1, <1>2, <1>4, <2>1, <2>2
<1>6. \A j \in above : j <= k
  <2>1. ASSUME NEW j \in above PROVE j \notin k + 1 .. i - 1
    BY <1>2
  <2> QED
    BY <1>1, <1>2, <2>1
<1>7. \A a \in above : (\A j \in above : j <= a) => a = k
  BY <1>1, <1>3, <1>6
<1>8. (CHOOSE a \in above : \A j \in above : j <= a) = k
  <2> HIDE DEF above
  <2> QED
    BY <1>3, <1>6, <1>7
<1> QED
  BY <1>5, <1>8 DEF FileAbove

\* The lines above the next line are those above this one, and this one.
LEMMA OpeningNext ==
  ASSUME NEW t, NEW i \in Nat, i > 0
  PROVE  Opening(t, i + 1) = Opening(t, i) \cup
           (IF t[i].form \in {"heading", "file"} /\ IsSourcePath(t[i].path) THEN {i} ELSE {})
BY DEF Opening

\* The spot the scan is at is a place of the text, and its path is a name of it.
LEMMA PlaceIsKnown ==
  ASSUME NEW t, NEW p \in Spots(t)
  PROVE  Place(t, p) \in PlacesOf(t) /\ Place(t, p).path \in NamesIn(t)
BY DEF PlacesOf, NamesIn

\* An empty index of no line is right.
LEMMA IndexStarts == ASSUME IndexAssumption, IndexInit PROVE IndexIInv
<1>0. IsAnswer(text) /\ text \in Texts /\ at = 1 /\ spot = 0 /\ group = <<>> /\ scan = NothingFound
  BY DEF IndexAssumption, IndexInit
<1>a. Len(text) \in Nat /\ MAX_CITATIONS \in Nat
  BY <1>0 DEF IsAnswer, IndexAssumption
<1>1. IndexTypeOK
  <2>1. IsScan(scan, PlacesOf(text), NamesIn(text))
    <3>1. 0 \in Nat /\ \A s1 : <<>> \in Seq(s1)
      OBVIOUS
    <3>2. /\ scan.citations = <<>> /\ scan.files = <<>> /\ scan.omitted = 0 /\ scan.index = ""
          /\ scan = [index |-> "", files |-> <<>>, citations |-> <<>>, omitted |-> 0]
      BY <1>0 DEF NothingFound
    <3> QED
      BY <3>1, <3>2, Zenon DEF IsScan
  <2> QED
    <3>1. at \in 1 .. Len(text) + 1 /\ spot \in Nat /\ ~ (spot > 0)
      BY <1>0, <1>a
    <3> QED
      BY <1>0, <2>1, <3>1, Zenon DEF IndexTypeOK
<1>2. GroupIsLast
  BY <1>0 DEF GroupIsLast, Opening
<1>3. SpotsTo(text, at, spot) = {}
  <2>1. ASSUME NEW p \in Spots(text) PROVE ~ (p[1] < 1 \/ (p[1] = 1 /\ p[2] <= 0))
    <3>1. p[1] \in DOMAIN text /\ p[2] \in Nat /\ p[2] > 0
      BY <1>0, SpotsAreNumbered
    <3>2. p[1] \in Nat /\ p[1] > 0
      BY <1>0, <3>1 DEF IsAnswer
    <3> QED
      BY <3>1, <3>2
  <2> QED
    BY <1>0, <2>1 DEF SpotsTo
<1>4. CitationsAreTheTexts
  <2>1. scan.citations = <<>> /\ scan.files = <<>>
    BY <1>0 DEF NothingFound
  <2> QED
    BY <1>3, <1>a, <2>1 DEF CitationsAreTheTexts, Lists, FilesCover
<1> QED
  BY <1>1, <1>2, <1>4 DEF IndexIInv

\* And stays so line by line, position by position.
LEMMA IndexStep == ASSUME IndexAssumption, IndexIInv, [IndexNext]_indexVars PROVE IndexIInv'
<1> DEFINE V == PlacesOf(text)
           W == NamesIn(text)
           S == SpotsTo(text, at, spot)
           good(s, T) == IsScan(s, V, W) /\ Lists(s.citations, text, T) /\ FilesCover(s.files, s.citations)
<1>0. /\ text \in Texts /\ IsAnswer(text) /\ MAX_CITATIONS \in Nat /\ Len(text) \in Nat
      /\ DOMAIN text = 1 .. Len(text) /\ at \in 1 .. Len(text) + 1 /\ spot \in Nat
  <2>1. text \in Texts /\ at \in 1 .. Len(text) + 1 /\ spot \in Nat
    BY DEF IndexIInv, IndexTypeOK
  <2>2. IsAnswer(text) /\ MAX_CITATIONS \in Nat
    BY <2>1 DEF IndexAssumption
  <2> QED
    BY <2>1, <2>2 DEF IsAnswer
<1>a. at \in Nat /\ at > 0
  BY <1>0
<1>1. /\ spot > 0 => at <= Len(text) /\ text[at].form = "row" /\ spot <= Len(text[at].at)
      /\ good(scan, S) /\ GroupIsLast
  BY DEF IndexIInv, IndexTypeOK, CitationsAreTheTexts
<1>2. ASSUME text' = text, at' \in 1 .. Len(text) + 1, spot' \in Nat,
             spot' > 0 => at' <= Len(text) /\ text[at'].form = "row" /\ spot' <= Len(text[at'].at),
             good(scan', SpotsTo(text, at', spot')), GroupIsLast'
      PROVE  IndexIInv'
  <2>1. IndexTypeOK'
    BY <1>0, <1>2 DEF IndexTypeOK
  <2>2. CitationsAreTheTexts'
    BY <1>2 DEF CitationsAreTheTexts
  <2> QED
    BY <1>2, <2>1, <2>2 DEF IndexIInv
<1>3. ASSUME at <= Len(text), text' = text, at' = at + 1, spot' = 0, group' = group,
             ~ (text[at].form \in {"heading", "file"} /\ IsSourcePath(text[at].path)),
             good(scan', SpotsTo(text, at + 1, 0))
      PROVE  IndexIInv'
  <2>1. Opening(text, at + 1) = Opening(text, at)
    <3>1. Opening(text, at + 1) = Opening(text, at) \cup {}
      BY <1>a, <1>3, OpeningNext
    <3> QED
      BY <3>1, Zenon
  <2>2. GroupIsLast'
    BY <1>1, <1>3, <2>1 DEF GroupIsLast
  <2>3. at' \in 1 .. Len(text) + 1 /\ spot' \in Nat /\ ~ (spot' > 0)
    BY <1>0, <1>3
  <2>4. good(scan', SpotsTo(text, at', spot'))
    BY <1>3
  <2> HIDE DEF good
  <2> QED
    BY <1>2, <1>3, <2>2, <2>3, <2>4
<1>4. ASSUME at <= Len(text), ~ IsNumbered(text[at]), text[at].form # "row"
      PROVE  spot = 0 /\ SpotsTo(text, at + 1, 0) = S
  <2>1. at \in DOMAIN text /\ spot = 0
    BY <1>0, <1>1, <1>4
  <2>2. DOMAIN Stated(text, at) = {}
    BY <1>4, StatedPlaces
  <2> QED
    BY <1>0, <2>1, <2>2, LineEnds
<1>5. CASE Marker
  <2>1. /\ at <= Len(text) /\ text[at].form = "marker" /\ at' = at + 1 /\ text' = text /\ spot' = spot /\ group' = group
        /\ scan' = [scan EXCEPT !.index = IF @ = "" THEN text[at].word ELSE @]
    BY <1>5 DEF Marker, Reading, NextLine
  <2>2. ~ IsNumbered(text[at])
    BY <2>1 DEF IsNumbered
  <2>3. good(scan', S)
    <3> DEFINE i == IF scan.index = "" THEN text[at].word ELSE scan.index
    <3>1. scan = [index |-> scan.index, files |-> scan.files, citations |-> scan.citations, omitted |-> scan.omitted]
      BY <1>1 DEF IsScan
    <3>2. scan' = [scan EXCEPT !.index = i]
      BY <2>1
    <3> HIDE DEF i
    <3>3. scan' = [index |-> i, files |-> scan.files, citations |-> scan.citations, omitted |-> scan.omitted]
      BY <3>1, <3>2
    <3> QED
      BY <1>1, <3>3 DEF IsScan
  <2> HIDE DEF good, S
  <2> QED
    BY <1>3, <1>4, <2>1, <2>2, <2>3
<1>6. CASE FileLine
  <2>1. at <= Len(text) /\ text[at].form \in {"heading", "file"} /\ at' = at + 1 /\ text' = text /\ spot' = spot
    BY <1>6 DEF FileLine, Reading, NextLine
  <2>2. spot = 0 /\ SpotsTo(text, at + 1, 0) = S
    BY <1>4, <2>1 DEF IsNumbered
  <2>3. CASE IsSourcePath(text[at].path)
    <3> DEFINE name == text[at].path.name
    <3>1. scan' = NoteFile(scan, name) /\ group' = <<name>>
      BY <1>6, <2>3 DEF FileLine
    <3>2. at \in DOMAIN text
      BY <1>0, <2>1
    <3>3. name \in W
      BY <3>2 DEF NamesIn
    <3>4. good(scan', S)
      BY <1>1, <3>1, <3>3, NotingKeeps
    <3>5. Opening(text, at + 1) = Opening(text, at) \cup {at}
      BY <1>a, <2>1, <2>3, OpeningNext
    <3>6. at <= at /\ \A j \in Opening(text, at) : j <= at
      BY <1>a DEF Opening
    <3>7. GroupIsLast'
      <4>1. at \in Opening(text', at') /\ \A j \in Opening(text', at') : j <= at
        BY <2>1, <3>5, <3>6
      <4> QED
        BY <2>1, <3>1, <4>1 DEF GroupIsLast
    <3>8. at' \in 1 .. Len(text) + 1 /\ spot' \in Nat /\ ~ (spot' > 0) /\ spot' = 0
      BY <1>0, <2>1, <2>2
    <3>9. good(scan', SpotsTo(text, at', spot'))
      BY <2>1, <2>2, <3>4, <3>8
    <3> HIDE DEF good
    <3> QED
      BY <1>2, <2>1, <3>7, <3>8, <3>9
  <2>4. CASE ~ IsSourcePath(text[at].path)
    <3>1. scan' = scan /\ group' = group
      BY <1>6, <2>4 DEF FileLine
    <3>2. good(scan', SpotsTo(text, at + 1, 0))
      BY <1>1, <2>2, <3>1
    <3> HIDE DEF good
    <3> QED
      BY <1>3, <2>1, <2>2, <2>4, <3>1, <3>2
  <2> QED
    BY <2>3, <2>4
<1>7. CASE Item
  <2>1. at <= Len(text) /\ text[at].form = "item" /\ at' = at + 1 /\ text' = text /\ spot' = spot /\ group' = group
    BY <1>7 DEF Item, Reading, NextLine
  <2>2. spot = 0 /\ at \in DOMAIN text
    BY <1>0, <1>1, <2>1
  <2>3. CASE IsNumbered(text[at])
    <3> DEFINE p == <<at, 1>>
    <3>1. DOMAIN Stated(text, at) = {1} /\ Place(text, p) = Citation(FileAbove(text, at), text[at].line, NoColumn)
      BY <2>3, StatedPlaces DEF Place
    <3>2. IsGroupedLine(text[at]) /\ Opening(text, at) # {}
      <4>1. PICK k \in 1 .. at - 1 : text[k].form = "file" /\ IsSourcePath(text[k].path)
        BY <1>0, <2>2, <2>3 DEF IsAnswer
      <4>2. k \in Opening(text, at)
        BY <4>1 DEF Opening
      <4> QED
        BY <1>0, <2>2, <2>3, <4>2 DEF IsAnswer
    <3>3. PICK m \in Opening(text, at) : group = <<text[m].path.name>> /\ \A j \in Opening(text, at) : j <= m
      BY <1>1, <3>2 DEF GroupIsLast
    <3>4. group = <<FileAbove(text, at)>>
      BY <1>0, <2>2, <2>3, <3>3, GroupIsTheFile
    <3>5. scan' = Cite(scan, Place(text, p))
      BY <1>7, <3>1, <3>2, <3>4 DEF Item
    <3>6. /\ SpotsTo(text, at, 1) = S \cup {p} /\ p \in Spots(text) /\ ~ Before(p, p)
          /\ \A q \in S : Before(q, p) /\ ~ Before(p, q)
      <4>1. 0 \in Nat /\ 0 + 1 = 1 /\ 0 + 1 \in DOMAIN Stated(text, at)
        BY <3>1
      <4> QED
        BY <1>0, <2>2, <4>1, SpotReached
    <3>7. SpotsTo(text, at + 1, 0) = SpotsTo(text, at, 1)
      <4>1. 1 \in Nat /\ \A k \in DOMAIN Stated(text, at) : k <= 1
        BY <3>1
      <4> QED
        BY <1>0, <2>2, <4>1, LineEnds
    <3>8. Place(text, p) \in V /\ Place(text, p).path \in W
      BY <3>6, PlaceIsKnown
    <3> HIDE DEF p, V, W, S
    <3>9. good(Cite(scan, Place(text, p)), S \cup {p})
      BY <1>0, <1>1, <3>6, <3>8, CitingKeeps
    <3>10. good(scan', SpotsTo(text, at + 1, 0))
      BY <3>5, <3>6, <3>7, <3>9
    <3> HIDE DEF good
    <3> QED
      BY <1>3, <2>1, <2>2, <3>10
  <2>4. CASE ~ IsNumbered(text[at])
    <3>1. scan' = scan
      BY <1>7, <2>1, <2>4 DEF Item, IsGroupedLine, IsNumbered
    <3>2. SpotsTo(text, at + 1, 0) = S
      BY <1>4, <2>1, <2>4
    <3>3. good(scan', SpotsTo(text, at + 1, 0))
      BY <1>1, <3>1, <3>2
    <3> HIDE DEF good
    <3> QED
      BY <1>3, <2>1, <2>2, <3>3
  <2> QED
    BY <2>3, <2>4
<1>8. CASE Position
  <2> DEFINE p == <<at, spot + 1>>
             z == text[at].at[spot + 1]
  <2>1. /\ at <= Len(text) /\ text[at].form = "row" /\ spot < Len(text[at].at)
        /\ scan' = IF z.path.kotlin THEN Cite(scan, Citation(z.path.run, z.line, z.column)) ELSE scan
        /\ spot' = spot + 1 /\ text' = text /\ at' = at /\ group' = group
    BY <1>8 DEF Position, Reading
  <2>2. at \in DOMAIN text
    BY <1>0, <2>1
  <2>3. text[at].at \in Seq(ToSet(text[at].at)) /\ \A k \in DOMAIN text[at].at : IsSourcePath(text[at].at[k].path)
    BY <1>0, <2>1, <2>2 DEF IsAnswer
  <2>4. Len(text[at].at) \in Nat /\ DOMAIN text[at].at = 1 .. Len(text[at].at)
    BY <2>3
  <2>5. spot + 1 \in 1 .. Len(text[at].at)
    BY <1>0, <2>1, <2>4
  <2>6. z.path.kotlin /\ z.path.run = z.path.name
    BY <2>3, <2>4, <2>5 DEF IsSourcePath
  <2>7. spot + 1 \in DOMAIN Stated(text, at) /\ Place(text, p) = Citation(z.path.name, z.line, z.column)
    BY <2>1, <2>5, StatedPlaces DEF Place
  <2>8. scan' = Cite(scan, Place(text, p))
    BY <2>1, <2>6, <2>7
  <2>9. /\ SpotsTo(text, at, spot + 1) = S \cup {p} /\ p \in Spots(text) /\ ~ Before(p, p)
        /\ \A q \in S : Before(q, p) /\ ~ Before(p, q)
    BY <1>0, <2>2, <2>7, SpotReached
  <2>10. Place(text, p) \in V /\ Place(text, p).path \in W
    BY <2>9, PlaceIsKnown
  <2> HIDE DEF p, V, W, S
  <2>11. good(Cite(scan, Place(text, p)), S \cup {p})
    BY <1>0, <1>1, <2>9, <2>10, CitingKeeps
  <2>12. good(scan', SpotsTo(text, at', spot'))
    BY <2>1, <2>8, <2>9, <2>11
  <2>13. GroupIsLast'
    BY <1>1, <2>1 DEF GroupIsLast
  <2>14. spot' \in Nat /\ spot' <= Len(text[at].at)
    BY <1>0, <2>1, <2>5, <2>4
  <2> HIDE DEF good, z
  <2> QED
    BY <1>0, <1>2, <2>1, <2>12, <2>13, <2>14
<1>9. CASE RowEnds
  <2>1. /\ at <= Len(text) /\ text[at].form = "row" /\ spot = Len(text[at].at)
        /\ at' = at + 1 /\ spot' = 0 /\ text' = text /\ group' = group /\ scan' = scan
    BY <1>9 DEF RowEnds, Reading
  <2>2. at \in DOMAIN text
    BY <1>0, <2>1
  <2>3. \A k \in DOMAIN Stated(text, at) : k <= spot
    <3>1. DOMAIN Stated(text, at) = 1 .. spot
      BY <2>1, StatedPlaces
    <3> QED
      BY <1>0, <3>1
  <2>4. SpotsTo(text, at + 1, 0) = S
    BY <1>0, <2>2, <2>3, LineEnds
  <2>5. good(scan', SpotsTo(text, at + 1, 0))
    BY <1>1, <2>1, <2>4
  <2> HIDE DEF good
  <2> QED
    BY <1>3, <2>1, <2>5
<1>10. CASE Prose
  <2>1. /\ at <= Len(text) /\ text[at].form = "prose" /\ at' = at + 1 /\ text' = text /\ spot' = spot
        /\ group' = group /\ scan' = scan
    BY <1>10 DEF Prose, Reading, NextLine
  <2>2. spot = 0 /\ SpotsTo(text, at + 1, 0) = S
    BY <1>4, <2>1 DEF IsNumbered
  <2>3. good(scan', SpotsTo(text, at + 1, 0))
    BY <1>1, <2>1, <2>2
  <2> HIDE DEF good
  <2> QED
    BY <1>3, <2>1, <2>2, <2>3
<1>11. CASE UNCHANGED indexVars
  <2>1. text' = text /\ at' = at /\ spot' = spot /\ group' = group /\ scan' = scan
    BY <1>11 DEF indexVars
  <2>2. GroupIsLast' /\ good(scan', SpotsTo(text, at', spot'))
    BY <1>1, <2>1 DEF GroupIsLast
  <2> HIDE DEF good
  <2> QED
    BY <1>0, <1>1, <1>2, <2>1, <2>2
<1> QED
  BY <1>5, <1>6, <1>7, <1>8, <1>9, <1>10, <1>11 DEF IndexNext, Indexed

\* index_answer, for every cap and every text as the renderers write it: the citations
\* are the places the text states, in the order they appear, each once however often
\* it is stated, up to the cap, and every file cited is listed, once.
THEOREM CitationsAreWhatIsStated ==
  ASSUME IndexAssumption
  PROVE  IndexSpec => []CitationsAreTheTexts
<1>1. IndexInit => IndexIInv
  BY IndexStarts
<1>2. IndexIInv /\ [IndexNext]_indexVars => IndexIInv'
  BY IndexStep
<1>3. IndexIInv => CitationsAreTheTexts
  BY DEF IndexIInv
<1> QED
  BY <1>1, <1>2, <1>3, PTL DEF IndexSpec
=============================================================================
