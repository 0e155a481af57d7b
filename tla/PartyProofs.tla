---------------------------- MODULE PartyProofs -----------------------------
(***************************************************************************)
(* What players and parties keep about each other agrees, for every number *)
(* of players and parties.                                                 *)
(***************************************************************************)
EXTENDS Party, SequenceTheorems, TLAPS

-----------------------------------------------------------------------------
(* The invariant *)

\* What party P and the players keep about each other in g agrees, and they are among those in the
\* game; a party that is not allocated is empty.
Agrees(g, on, P) ==
    /\ IsInjective(g.memberList[P])
    /\ g.leader[P] \notin Members(g, P)
    /\ \A p \in Players :
          /\ g.party[p] = P <=> p = g.leader[P] \/ p \in Members(g, P)
          /\ P \in g.invitations[p] <=> p \in g.inviteList[P]
          /\ p \in g.inviteList[P] => g.party[p] # P
          /\ g.party[p] = P \/ p \in g.inviteList[P] => p \in on
    /\ g.leader[P] = NoPlayer =>
          g.memberList[P] = <<>> /\ g.inviteList[P] = {} /\ ~g.active[P]

\* SharingNeedsEverybody, of party P.
Shares(g, P) == g.active[P] /\ g.enabled[P] => CanEnableSharedExperience(g, P, TRUE)

Sound(g, on) == g \in States /\ \A P \in Parties : Agrees(g, on, P) /\ Shares(g, P)

\* No party is left without members and invitees.
Populated(g, Ps) == \A P \in Ps : g.leader[P] # NoPlayer => ~Empty(g, P)

\* The inductive invariant.
Inv == online \subseteq Players /\ Sound(game, online) /\ Populated(game, Parties)

-----------------------------------------------------------------------------
(* Lists without repetition *)

\* What std::list's erase does to the list of the members.
LEMMA RemoveFirstElement ==
    ASSUME NEW S, NEW s \in Seq(S), IsInjective(s), NEW e \in S
    PROVE  /\ RemoveFirst(s, e) \in Seq(S)
           /\ IsInjective(RemoveFirst(s, e))
           /\ ToSet(RemoveFirst(s, e)) = ToSet(s) \ {e}
           /\ e \notin ToSet(s) => RemoveFirst(s, e) = s
<1>1. Len(s) \in Nat /\ DOMAIN s = 1 .. Len(s) /\ \A i \in 1 .. Len(s) : s[i] \in S
  OBVIOUS
<1>2. CASE \A i \in 1 .. Len(s) : s[i] # e
  <2>1. RemoveFirst(s, e) = s
    BY <1>2 DEF RemoveFirst
  <2>2. e \notin ToSet(s)
    BY <1>1, <1>2 DEF ToSet
  <2> QED
    BY <2>1, <2>2
<1>3. ASSUME NEW k \in 1 .. Len(s), s[k] = e
      PROVE  /\ RemoveFirst(s, e) \in Seq(S)
             /\ IsInjective(RemoveFirst(s, e))
             /\ ToSet(RemoveFirst(s, e)) = ToSet(s) \ {e}
             /\ e \notin ToSet(s) => RemoveFirst(s, e) = s
  <2> DEFINE r == RemoveFirst(s, e)
  <2>1. {i \in 1 .. Len(s) : s[i] = e} = {k}
    BY <1>1, <1>3 DEF IsInjective
  <2>2. Min({k}) = k
    BY <1>1 DEF Min
  <2>3. r = SubSeq(s, 1, k - 1) \o SubSeq(s, k + 1, Len(s))
    BY <1>3, <2>1, <2>2 DEF RemoveFirst, RemoveAt, SelectInSeq
  <2>4. /\ r \in Seq(S) /\ Len(r) = Len(s) - 1
        /\ \A i \in 1 .. Len(s) - 1 : r[i] = IF i < k THEN s[i] ELSE s[i + 1]
    <3> DEFINE a == SubSeq(s, 1, k - 1)
               b == SubSeq(s, k + 1, Len(s))
    <3>1. /\ a \in Seq(S) /\ Len(a) = k - 1 /\ \A i \in 1 .. k - 1 : a[i] = s[i]
      <4>1. /\ k \in Nat \ {0} /\ 1 \in Int /\ k - 1 \in Int
            /\ \A i \in 1 .. k - 1 : s[i] \in S
        BY <1>1
      <4>2. /\ a \in Seq(S) /\ Len(a) = IF 1 <= k - 1 THEN (k - 1) - 1 + 1 ELSE 0
            /\ \A i \in 1 .. (k - 1) - 1 + 1 : a[i] = s[1 + i - 1]
        BY <4>1, SubSeqProperties
      <4> HIDE DEF a
      <4> QED
        BY <4>1, <4>2
    <3>2. /\ b \in Seq(S) /\ Len(b) = Len(s) - k /\ \A i \in 1 .. Len(s) - k : b[i] = s[k + i]
      <4>1. /\ k \in Nat \ {0} /\ k + 1 \in Int /\ Len(s) \in Int /\ k <= Len(s)
            /\ \A i \in k + 1 .. Len(s) : s[i] \in S
        BY <1>1
      <4>2. /\ b \in Seq(S) /\ Len(b) = IF k + 1 <= Len(s) THEN Len(s) - (k + 1) + 1 ELSE 0
            /\ \A i \in 1 .. Len(s) - (k + 1) + 1 : b[i] = s[(k + 1) + i - 1]
        BY <4>1, SubSeqProperties
      <4> HIDE DEF b
      <4>3. Len(b) = Len(s) - k
        <5>1. CASE k + 1 <= Len(s)
          BY <4>1, <4>2, <5>1
        <5>2. CASE k = Len(s)
          BY <4>1, <4>2, <5>2
        <5> QED
          BY <4>1, <5>1, <5>2
      <4>4. ASSUME NEW i \in 1 .. Len(s) - k PROVE b[i] = s[k + i]
        <5>1. i \in 1 .. Len(s) - (k + 1) + 1 /\ (k + 1) + i - 1 = k + i
          BY <4>1
        <5> QED
          BY <4>2, <5>1
      <4> QED
        BY <4>2, <4>3, <4>4
    <3> HIDE DEF a, b
    <3>3. /\ a \o b \in Seq(S) /\ Len(a \o b) = Len(s) - 1
          /\ \A i \in 1 .. Len(s) - 1 : (a \o b)[i] = IF i <= k - 1 THEN a[i] ELSE b[i - (k - 1)]
      <4>1. /\ a \o b \in Seq(S) /\ Len(a \o b) = Len(a) + Len(b)
            /\ \A i \in 1 .. Len(a) + Len(b) : (a \o b)[i] = IF i <= Len(a) THEN a[i] ELSE b[i - Len(a)]
        BY <3>1, <3>2, ConcatProperties
      <4>2. Len(a) = k - 1 /\ Len(a) + Len(b) = Len(s) - 1
        BY <1>1, <3>1, <3>2
      <4> QED
        BY <4>1, <4>2
    <3>4. ASSUME NEW i \in 1 .. Len(s) - 1
          PROVE  (a \o b)[i] = IF i < k THEN s[i] ELSE s[i + 1]
      <4>1. CASE i < k
        <5>1. i \in 1 .. k - 1
          BY <1>1, <4>1
        <5> QED
          BY <1>1, <3>1, <3>3, <4>1, <5>1
      <4>2. CASE ~(i < k)
        <5>1. i - (k - 1) \in 1 .. Len(s) - k /\ k + (i - (k - 1)) = i + 1 /\ ~(i <= k - 1)
          BY <1>1, <4>2
        <5> QED
          BY <3>2, <3>3, <4>2, <5>1
      <4> QED
        BY <4>1, <4>2
    <3> QED
      BY <2>3, <3>3, <3>4 DEF a, b
  <2> HIDE DEF r
  <2>5. DOMAIN r = 1 .. Len(s) - 1
    BY <1>1, <2>4
  <2>6. IsInjective(r)
    <3> SUFFICES ASSUME NEW i \in 1 .. Len(s) - 1, NEW j \in 1 .. Len(s) - 1, r[i] = r[j]
                 PROVE  i = j
      BY <2>5 DEF IsInjective
    <3>1. \A m, n \in 1 .. Len(s) : s[m] = s[n] => m = n
      BY <1>1 DEF IsInjective
    <3> QED
      BY <1>1, <2>4, <3>1
  <2>7. ToSet(r) = ToSet(s) \ {e}
    <3>1. ASSUME NEW i \in 1 .. Len(s) - 1 PROVE r[i] \in ToSet(s) \ {e}
      <4>1. \A m, n \in 1 .. Len(s) : s[m] = s[n] => m = n
        BY <1>1 DEF IsInjective
      <4> QED
        BY <1>1, <1>3, <2>4, <4>1 DEF ToSet
    <3>2. ASSUME NEW i \in 1 .. Len(s), s[i] # e PROVE s[i] \in ToSet(r)
      <4>1. CASE i < k
        <5>1. i \in 1 .. Len(s) - 1 /\ r[i] = s[i]
          BY <1>1, <2>4, <4>1
        <5> QED
          BY <2>5, <5>1 DEF ToSet
      <4>2. CASE i > k
        <5>1. i - 1 \in 1 .. Len(s) - 1 /\ r[i - 1] = s[i]
          BY <1>1, <2>4, <4>2
        <5> QED
          BY <2>5, <5>1 DEF ToSet
      <4> QED
        BY <1>1, <1>3, <3>2, <4>1, <4>2
    <3> QED
      BY <1>1, <2>5, <3>1, <3>2 DEF ToSet
  <2>8. e \in ToSet(s)
    BY <1>1, <1>3 DEF ToSet
  <2> QED
    BY <2>4, <2>6, <2>7, <2>8 DEF r
<1> QED
  BY <1>2, <1>3

\* What std::list's push_front does.
LEMMA PrependElement ==
    ASSUME NEW S, NEW s \in Seq(S), IsInjective(s), NEW e \in S, e \notin ToSet(s)
    PROVE  /\ <<e>> \o s \in Seq(S)
           /\ IsInjective(<<e>> \o s)
           /\ ToSet(<<e>> \o s) = {e} \cup ToSet(s)
<1> DEFINE r == <<e>> \o s
<1>1. Len(s) \in Nat /\ DOMAIN s = 1 .. Len(s) /\ <<e>> \in Seq(S) /\ Len(<<e>>) = 1 /\ <<e>>[1] = e
  OBVIOUS
<1>2. /\ r \in Seq(S) /\ Len(r) = 1 + Len(s)
      /\ \A i \in 1 .. 1 + Len(s) : r[i] = IF i <= 1 THEN <<e>>[i] ELSE s[i - 1]
  BY <1>1, ConcatProperties
<1> HIDE DEF r
<1>3. /\ DOMAIN r = 1 .. 1 + Len(s) /\ r[1] = e
      /\ \A i \in 2 .. 1 + Len(s) : r[i] = s[i - 1] /\ i - 1 \in 1 .. Len(s)
      /\ \A i \in 1 .. Len(s) : s[i] = r[i + 1] /\ i + 1 \in 2 .. 1 + Len(s)
  BY <1>1, <1>2
<1>4. IsInjective(r)
  <2> SUFFICES ASSUME NEW i \in 1 .. 1 + Len(s), NEW j \in 1 .. 1 + Len(s), r[i] = r[j]
               PROVE  i = j
    BY <1>3 DEF IsInjective
  <2>1. \A m, n \in 1 .. Len(s) : s[m] = s[n] => m = n
    BY <1>1 DEF IsInjective
  <2>2. \A m \in 1 .. Len(s) : s[m] # e
    BY <1>1 DEF ToSet
  <2>3. i = 1 \/ i \in 2 .. 1 + Len(s)
    BY <1>1
  <2>4. j = 1 \/ j \in 2 .. 1 + Len(s)
    BY <1>1
  <2> QED
    BY <1>1, <1>3, <2>1, <2>2, <2>3, <2>4
<1>5. ToSet(r) = {e} \cup ToSet(s)
  <2>1. ASSUME NEW i \in 1 .. 1 + Len(s) PROVE r[i] \in {e} \cup ToSet(s)
    <3>1. i = 1 \/ i \in 2 .. 1 + Len(s)
      BY <1>1
    <3> QED
      BY <1>1, <1>3, <3>1 DEF ToSet
  <2>2. ASSUME NEW i \in 1 .. Len(s) PROVE s[i] \in ToSet(r)
    <3>1. i + 1 \in 1 .. 1 + Len(s)
      BY <1>1
    <3> QED
      BY <1>3, <3>1 DEF ToSet
  <2>3. e \in ToSet(r)
    <3>1. 1 \in 1 .. 1 + Len(s)
      BY <1>1
    <3> QED
      BY <1>3, <3>1 DEF ToSet
  <2> QED
    BY <1>1, <1>3, <2>1, <2>2, <2>3 DEF ToSet
<1> QED
  BY <1>2, <1>4, <1>5 DEF r

\* What std::list's push_back does.
LEMMA AppendElement ==
    ASSUME NEW S, NEW s \in Seq(S), IsInjective(s), NEW e \in S, e \notin ToSet(s)
    PROVE  /\ Append(s, e) \in Seq(S)
           /\ IsInjective(Append(s, e))
           /\ ToSet(Append(s, e)) = ToSet(s) \cup {e}
<1> DEFINE r == Append(s, e)
<1>1. Len(s) \in Nat /\ DOMAIN s = 1 .. Len(s)
  OBVIOUS
<1>2. /\ r \in Seq(S) /\ DOMAIN r = 1 .. Len(s) + 1
      /\ \A i \in 1 .. Len(s) : r[i] = s[i]
      /\ r[Len(s) + 1] = e
  BY <1>1
<1> HIDE DEF r
<1>3. \A i \in 1 .. Len(s) + 1 : i \in 1 .. Len(s) \/ i = Len(s) + 1
  BY <1>1
<1>4. \A m, n \in 1 .. Len(s) : s[m] = s[n] => m = n
  BY <1>1 DEF IsInjective
<1>5. \A m \in 1 .. Len(s) : s[m] # e
  BY <1>1 DEF ToSet
<1>6. IsInjective(r)
  <2> SUFFICES ASSUME NEW i \in 1 .. Len(s) + 1, NEW j \in 1 .. Len(s) + 1, r[i] = r[j]
               PROVE  i = j
    BY <1>2 DEF IsInjective
  <2> QED
    BY <1>2, <1>3, <1>4, <1>5
<1>7. ToSet(r) = ToSet(s) \cup {e}
  <2>1. 1 .. Len(s) + 1 = 1 .. Len(s) \cup {Len(s) + 1}
    BY <1>1
  <2>2. ToSet(r) = {r[i] : i \in 1 .. Len(s)} \cup {r[Len(s) + 1]}
    BY <1>2, <2>1 DEF ToSet
  <2> QED
    BY <1>1, <1>2, <2>2 DEF ToSet
<1> QED
  BY <1>2, <1>6, <1>7 DEF r

-----------------------------------------------------------------------------
(* Shared experience *)

\* From g to h only the shared experience of P changes, and rightly.
Reshared(g, h, P) ==
    /\ h \in States
    /\ h.party = g.party /\ h.invitations = g.invitations
    /\ h.leader = g.leader /\ h.memberList = g.memberList /\ h.inviteList = g.inviteList
    /\ h.active = g.active
    /\ \A Q \in Parties \ {P} : h.ticks[Q] = g.ticks[Q] /\ h.enabled[Q] = g.enabled[Q]
    /\ Shares(h, P)

\* updateSharedExperience
LEMMA UpdateReshares ==
    ASSUME NEW g \in States, NEW P \in Parties, NEW fit \in BOOLEAN
    PROVE  Reshared(g, UpdateSharedExperience(g, P, fit), P)
<1> DEFINE can == CanEnableSharedExperience(g, P, fit)
           h == [g EXCEPT !.enabled[P] = can]
<1>1. CASE g.active[P]
  <2>1. UpdateSharedExperience(g, P, fit) = h
    BY <1>1 DEF UpdateSharedExperience
  <2>2. can \in BOOLEAN /\ (can => CanEnableSharedExperience(g, P, TRUE))
    BY DEF CanEnableSharedExperience
  <2> HIDE DEF can
  <2>3. /\ h \in States
        /\ h.party = g.party /\ h.invitations = g.invitations
        /\ h.leader = g.leader /\ h.memberList = g.memberList /\ h.inviteList = g.inviteList
        /\ h.active = g.active /\ h.ticks = g.ticks
        /\ h.enabled = [g.enabled EXCEPT ![P] = can]
    BY <2>2 DEF States
  <2> HIDE DEF h
  <2>4. h.enabled[P] = can /\ \A Q \in Parties \ {P} : h.enabled[Q] = g.enabled[Q]
    BY <2>3 DEF States
  <2>5. Shares(h, P)
    BY <2>2, <2>3, <2>4 DEF Shares, CanEnableSharedExperience, Members
  <2> QED
    BY <2>1, <2>3, <2>4, <2>5 DEF Reshared
<1>2. CASE ~g.active[P]
  BY <1>2 DEF UpdateSharedExperience, Reshared, Shares
<1> QED
  BY <1>1, <1>2

\* Sharing may be recomputed twice.
LEMMA ResharedTwice ==
    ASSUME NEW g, NEW h, NEW k, NEW P \in Parties, Reshared(g, h, P), Reshared(h, k, P)
    PROVE  Reshared(g, k, P)
  BY DEF Reshared

\* clearPlayerPoints and updatePlayerTicks
LEMMA TicksReshare ==
    ASSUME NEW g \in States, NEW P \in Parties, Shares(g, P), NEW p \in Players, NEW fit \in BOOLEAN
    PROVE  /\ Reshared(g, ClearPlayerPoints(g, P, p, fit), P)
           /\ Reshared(g, UpdatePlayerTicks(g, P, p, fit), P)
<1>1. Reshared(g, g, P)
  BY DEF Reshared
<1>2. ASSUME NEW T \in SUBSET Players
      PROVE  Reshared(g, UpdateSharedExperience([g EXCEPT !.ticks[P] = T], P, fit), P)
  <2> DEFINE h == [g EXCEPT !.ticks[P] = T]
  <2>1. /\ h \in States
        /\ h.party = g.party /\ h.invitations = g.invitations
        /\ h.leader = g.leader /\ h.memberList = g.memberList /\ h.inviteList = g.inviteList
        /\ h.active = g.active /\ h.enabled = g.enabled
        /\ \A Q \in Parties \ {P} : h.ticks[Q] = g.ticks[Q]
    BY DEF States
  <2> HIDE DEF h
  <2>2. Reshared(h, UpdateSharedExperience(h, P, fit), P)
    BY <2>1, UpdateReshares
  <2>3. Reshared(g, UpdateSharedExperience(h, P, fit), P)
    BY <2>1, <2>2 DEF Reshared
  <2> QED
    BY <2>3 DEF h
<1>3. g.ticks[P] \ {p} \in SUBSET Players /\ g.ticks[P] \cup {p} \in SUBSET Players
  BY DEF States
<1>4. /\ [g EXCEPT !.ticks[P] = @ \ {p}] = [g EXCEPT !.ticks[P] = g.ticks[P] \ {p}]
      /\ [g EXCEPT !.ticks[P] = @ \cup {p}] = [g EXCEPT !.ticks[P] = g.ticks[P] \cup {p}]
  OBVIOUS
<1>5. Reshared(g, ClearPlayerPoints(g, P, p, fit), P)
  BY <1>1, <1>2, <1>3, <1>4 DEF ClearPlayerPoints
<1>6. Reshared(g, UpdatePlayerTicks(g, P, p, fit), P)
  BY <1>1, <1>2, <1>3, <1>4 DEF UpdatePlayerTicks
<1> QED
  BY <1>5, <1>6

\* Whoever agreed before its sharing was recomputed agrees after it.
LEMMA ResharedKeeps ==
    ASSUME NEW g, NEW h, NEW on, NEW P \in Parties, Reshared(g, h, P), NEW Q \in Parties
    PROVE  /\ Members(h, Q) = Members(g, Q) /\ Empty(h, Q) = Empty(g, Q)
           /\ Agrees(g, on, Q) => Agrees(h, on, Q)
           /\ Q = P \/ Shares(g, Q) => Shares(h, Q)
<1>1. Members(h, Q) = Members(g, Q) /\ Empty(h, Q) = Empty(g, Q)
  BY DEF Reshared, Members, Empty
<1>2. ASSUME Agrees(g, on, Q) PROVE Agrees(h, on, Q)
  BY <1>1, <1>2 DEF Reshared, Agrees
<1>3. ASSUME Q = P \/ Shares(g, Q) PROVE Shares(h, Q)
  BY <1>1, <1>3 DEF Reshared, Shares, CanEnableSharedExperience
<1> QED
  BY <1>1, <1>2, <1>3

\* A state in which all but the sharing of one party is sound becomes sound when it is recomputed.
LEMMA ResharedSound ==
    ASSUME NEW g, NEW h, NEW on, NEW P \in Parties, Reshared(g, h, P),
           \A Q \in Parties : Agrees(g, on, Q), \A Q \in Parties \ {P} : Shares(g, Q)
    PROVE  Sound(h, on) /\ \A Q \in Parties : Empty(h, Q) = Empty(g, Q) /\ Members(h, Q) = Members(g, Q)
<1>1. \A Q \in Parties : Agrees(h, on, Q) /\ Shares(h, Q)
  BY ResharedKeeps
<1>2. \A Q \in Parties : Empty(h, Q) = Empty(g, Q) /\ Members(h, Q) = Members(g, Q)
  BY ResharedKeeps
<1> QED
  BY <1>1, <1>2 DEF Sound, Reshared

-----------------------------------------------------------------------------
(* Disbanding *)

Outside(g, Ps) == UNION {Members(g, P) \cup {g.leader[P]} : P \in Ps}

\* From g to h the parties Ps are disbanded.
Disbanded(g, h, Ps) ==
    /\ h \in States
    /\ \A p \in Players :
          /\ h.party[p] = IF p \in Outside(g, Ps) THEN NoParty ELSE g.party[p]
          /\ h.invitations[p] = g.invitations[p] \ {P \in Ps : p \in g.inviteList[P]}
    /\ \A P \in Ps : /\ h.leader[P] = NoPlayer /\ h.memberList[P] = <<>>
                     /\ h.inviteList[P] = {} /\ h.active[P] = FALSE
    /\ \A P \in Parties \ Ps :
          /\ h.leader[P] = g.leader[P] /\ h.memberList[P] = g.memberList[P]
          /\ h.inviteList[P] = g.inviteList[P] /\ h.ticks[P] = g.ticks[P]
          /\ h.active[P] = g.active[P] /\ h.enabled[P] = g.enabled[P]

\* disband
LEMMA DisbandDisbands ==
    ASSUME NEW g \in States, NEW Ps \in SUBSET Parties
    PROVE  Disbanded(g, Disband(g, Ps), Ps)
<1> DEFINE h == Disband(g, Ps)
<1>1. /\ [p \in Players |-> IF p \in Outside(g, Ps) THEN NoParty ELSE g.party[p]]
            \in [Players -> Parties \cup {NoParty}]
      /\ [p \in Players |-> g.invitations[p] \ {P \in Ps : p \in g.inviteList[P]}]
            \in [Players -> SUBSET Parties]
  BY DEF States
<1>2. /\ Cleared(g.leader, Ps, NoPlayer) \in [Parties -> Players \cup {NoPlayer}]
      /\ Cleared(g.memberList, Ps, <<>>) \in [Parties -> Seq(Players)]
      /\ Cleared(g.inviteList, Ps, {}) \in [Parties -> SUBSET Players]
      /\ Cleared(g.ticks, Ps, {}) \in [Parties -> SUBSET Players]
      /\ Cleared(g.active, Ps, FALSE) \in [Parties -> BOOLEAN]
      /\ Cleared(g.enabled, Ps, FALSE) \in [Parties -> BOOLEAN]
  <2>1. ASSUME NEW S, NEW f \in [Parties -> S], NEW none \in S PROVE Cleared(f, Ps, none) \in [Parties -> S]
    BY DEF Cleared
  <2>2. <<>> \in Seq(Players) /\ {} \in SUBSET Players /\ FALSE \in BOOLEAN
    OBVIOUS
  <2>3. /\ g.leader \in [Parties -> Players \cup {NoPlayer}] /\ g.memberList \in [Parties -> Seq(Players)]
        /\ g.inviteList \in [Parties -> SUBSET Players] /\ g.ticks \in [Parties -> SUBSET Players]
        /\ g.active \in [Parties -> BOOLEAN] /\ g.enabled \in [Parties -> BOOLEAN]
    BY DEF States
  <2>4. Cleared(g.leader, Ps, NoPlayer) \in [Parties -> Players \cup {NoPlayer}]
    BY <2>1, <2>3
  <2>5. Cleared(g.memberList, Ps, <<>>) \in [Parties -> Seq(Players)]
    BY <2>1, <2>2, <2>3
  <2>6. /\ Cleared(g.inviteList, Ps, {}) \in [Parties -> SUBSET Players]
        /\ Cleared(g.ticks, Ps, {}) \in [Parties -> SUBSET Players]
    BY <2>1, <2>2, <2>3
  <2>7. /\ Cleared(g.active, Ps, FALSE) \in [Parties -> BOOLEAN]
        /\ Cleared(g.enabled, Ps, FALSE) \in [Parties -> BOOLEAN]
    BY <2>1, <2>2, <2>3
  <2> QED
    BY <2>4, <2>5, <2>6, <2>7
<1>3. /\ h.party = [p \in Players |-> IF p \in Outside(g, Ps) THEN NoParty ELSE g.party[p]]
      /\ h.invitations = [p \in Players |-> g.invitations[p] \ {P \in Ps : p \in g.inviteList[P]}]
      /\ h.leader = Cleared(g.leader, Ps, NoPlayer)
      /\ h.memberList = Cleared(g.memberList, Ps, <<>>)
      /\ h.inviteList = Cleared(g.inviteList, Ps, {})
      /\ h.ticks = Cleared(g.ticks, Ps, {})
      /\ h.active = Cleared(g.active, Ps, FALSE)
      /\ h.enabled = Cleared(g.enabled, Ps, FALSE)
  BY DEF Disband, Outside, States
<1>4. h \in States
  BY <1>1, <1>2 DEF Disband, Outside, States
<1> HIDE DEF h
<1>5. \A p \in Players :
          /\ h.party[p] = IF p \in Outside(g, Ps) THEN NoParty ELSE g.party[p]
          /\ h.invitations[p] = g.invitations[p] \ {P \in Ps : p \in g.inviteList[P]}
  BY <1>3
<1>6. \A P \in Parties :
          /\ h.leader[P] = IF P \in Ps THEN NoPlayer ELSE g.leader[P]
          /\ h.memberList[P] = IF P \in Ps THEN <<>> ELSE g.memberList[P]
          /\ h.inviteList[P] = IF P \in Ps THEN {} ELSE g.inviteList[P]
          /\ h.ticks[P] = IF P \in Ps THEN {} ELSE g.ticks[P]
          /\ h.active[P] = IF P \in Ps THEN FALSE ELSE g.active[P]
          /\ h.enabled[P] = IF P \in Ps THEN FALSE ELSE g.enabled[P]
  BY <1>3 DEF Cleared
<1>7. Disbanded(g, h, Ps)
  BY <1>4, <1>5, <1>6 DEF Disbanded
<1> QED
  BY <1>7 DEF h

\* Nobody keeps a disbanded party, and the other parties lose nobody, if the members of the
\* disbanded ones have no other party and every invitation is in their lists.
LEMMA DisbandedSound ==
    ASSUME NEW g, NEW h, NEW on, NEW Ps \in SUBSET Parties, Disbanded(g, h, Ps), g \in States,
           \A Q \in Parties \ Ps : Agrees(g, on, Q) /\ Shares(g, Q),
           \A p \in Outside(g, Ps) \cap Players : g.party[p] \in Ps \cup {NoParty},
           \A P \in Ps, p \in Players : /\ g.party[p] = P => p \in Outside(g, Ps)
                                        /\ P \in g.invitations[p] => p \in g.inviteList[P]
    PROVE  Sound(h, on)
<1> USE PartyAssumption
<1>1. ASSUME NEW P \in Ps PROVE Agrees(h, on, P) /\ Shares(h, P)
  <2>1. /\ h.leader[P] = NoPlayer /\ h.memberList[P] = <<>> /\ h.inviteList[P] = {} /\ h.active[P] = FALSE
        /\ P \in Parties
    BY DEF Disbanded
  <2>2. Members(h, P) = {} /\ IsInjective(h.memberList[P])
    BY <2>1 DEF Members, ToSet, IsInjective
  <2>3. ASSUME NEW p \in Players PROVE h.party[p] # P /\ P \notin h.invitations[p]
    BY <2>1 DEF Disbanded
  <2> QED
    BY <2>1, <2>2, <2>3 DEF Agrees, Shares
<1>2. ASSUME NEW Q \in Parties \ Ps PROVE Agrees(h, on, Q) /\ Shares(h, Q)
  <2>1. /\ h.leader[Q] = g.leader[Q] /\ h.memberList[Q] = g.memberList[Q]
        /\ h.inviteList[Q] = g.inviteList[Q] /\ h.ticks[Q] = g.ticks[Q]
        /\ h.active[Q] = g.active[Q] /\ h.enabled[Q] = g.enabled[Q]
    BY DEF Disbanded
  <2>2. Members(h, Q) = Members(g, Q)
    BY <2>1 DEF Members
  <2>3. ASSUME NEW p \in Players
        PROVE  /\ h.party[p] = Q <=> g.party[p] = Q
               /\ Q \in h.invitations[p] <=> Q \in g.invitations[p]
    BY DEF Disbanded
  <2>4. Agrees(g, on, Q) /\ Shares(g, Q)
    OBVIOUS
  <2>5. Agrees(h, on, Q)
    BY <2>1, <2>2, <2>3, <2>4 DEF Agrees
  <2>6. Shares(h, Q)
    BY <2>1, <2>2, <2>4 DEF Shares, CanEnableSharedExperience
  <2> QED
    BY <2>5, <2>6
<1> QED
  BY <1>1, <1>2 DEF Sound, Disbanded

\* Disbanding leaves the parties populated that were.
LEMMA DisbandedPopulated ==
    ASSUME NEW g, NEW h, NEW Ps \in SUBSET Parties, Disbanded(g, h, Ps), Populated(g, Parties \ Ps)
    PROVE  Populated(h, Parties)
  BY DEF Disbanded, Populated, Empty

-----------------------------------------------------------------------------
(* The handlers *)

\* A party that is sound may be disbanded.
LEMMA DisbandedAll ==
    ASSUME NEW g, NEW h, NEW on, Sound(g, on), NEW Ps \in SUBSET Parties, Disbanded(g, h, Ps),
           Populated(g, Parties \ Ps)
    PROVE  Sound(h, on) /\ Populated(h, Parties)
<1>1. \A p \in Outside(g, Ps) \cap Players : g.party[p] \in Ps \cup {NoParty}
  BY DEF Sound, Agrees, Outside
<1>2. \A P \in Ps, p \in Players : /\ g.party[p] = P => p \in Outside(g, Ps)
                                   /\ P \in g.invitations[p] => p \in g.inviteList[P]
  BY DEF Sound, Agrees, Outside
<1>3. Sound(h, on)
  BY <1>1, <1>2, DisbandedSound DEF Sound
<1> QED
  BY <1>3, DisbandedPopulated

LEMMA DisbandSound ==
    ASSUME NEW g, NEW on, Sound(g, on), NEW Ps \in SUBSET Parties, Populated(g, Parties \ Ps)
    PROVE  LET h == Disband(g, Ps)
           IN  /\ Sound(h, on) /\ Populated(h, Parties)
               /\ \A p \in Players : h.party[p] \in {NoParty, g.party[p]}
               /\ \A p \in Players : h.invitations[p] \subseteq g.invitations[p]
<1>1. Disbanded(g, Disband(g, Ps), Ps)
  BY DisbandDisbands DEF Sound
<1>2. Sound(Disband(g, Ps), on) /\ Populated(Disband(g, Ps), Parties)
  BY <1>1, DisbandedAll
<1> QED
  BY <1>1, <1>2 DEF Disbanded

\* passPartyLeadership to a member
LEMMA PassSound ==
    ASSUME NEW g, NEW on, Sound(g, on), NEW P \in Parties, NEW q \in Players, NEW fit \in BOOLEAN,
           g.leader[P] # NoPlayer, g.leader[P] # q, g.party[q] = P
    PROVE  LET h == PassPartyLeadership(g, P, q, fit)
           IN  /\ Sound(h, on) /\ h.party = g.party /\ h.invitations = g.invitations
               /\ h.inviteList = g.inviteList
               /\ h.leader = [g.leader EXCEPT ![P] = q]
               /\ \A Q \in Parties \ {P} : h.memberList[Q] = g.memberList[Q]
               /\ Members(h, P) = (Members(g, P) \ {q}) \cup {g.leader[P]}
<1> USE PartyAssumption
<1> DEFINE l == g.leader[P]
           s == RemoveFirst(g.memberList[P], q)
           k == [g EXCEPT !.memberList[P] = <<l>> \o s, !.leader[P] = q]
<1>1. g \in States /\ Agrees(g, on, P) /\ \A Q \in Parties : Agrees(g, on, Q) /\ Shares(g, Q)
  BY DEF Sound
<1>2. l \in Players /\ g.memberList[P] \in Seq(Players) /\ l \notin Members(g, P)
  BY <1>1 DEF States, Agrees
<1>3. s \in Seq(Players) /\ IsInjective(s) /\ ToSet(s) = Members(g, P) \ {q}
  BY <1>1, <1>2, RemoveFirstElement DEF Agrees, Members
<1>4. PassPartyLeadership(g, P, q, fit) = UpdateSharedExperience(k, P, fit)
  BY DEF PassPartyLeadership
<1> HIDE DEF s
<1>5. /\ <<l>> \o s \in Seq(Players) /\ IsInjective(<<l>> \o s)
      /\ ToSet(<<l>> \o s) = {l} \cup ToSet(s)
  BY <1>2, <1>3, PrependElement
<1>6. /\ k \in States /\ k.party = g.party /\ k.invitations = g.invitations
      /\ k.inviteList = g.inviteList /\ k.leader = [g.leader EXCEPT ![P] = q]
      /\ k.memberList = [g.memberList EXCEPT ![P] = <<l>> \o s]
      /\ k.ticks = g.ticks /\ k.active = g.active /\ k.enabled = g.enabled
  BY <1>1, <1>5 DEF States
<1> HIDE DEF k
<1>7. /\ k.memberList[P] = <<l>> \o s /\ k.leader[P] = q
      /\ \A Q \in Parties \ {P} : k.memberList[Q] = g.memberList[Q] /\ k.leader[Q] = g.leader[Q]
  BY <1>1, <1>6 DEF States
<1>8. /\ Members(k, P) = (Members(g, P) \ {q}) \cup {l}
      /\ \A Q \in Parties \ {P} : Members(k, Q) = Members(g, Q)
  BY <1>3, <1>5, <1>7 DEF Members
<1>9. ASSUME NEW Q \in Parties PROVE Agrees(k, on, Q)
  <2>1. CASE Q = P
    <3>1. q \in Members(g, P)
      BY <1>1 DEF Agrees
    <3>2. q # NoPlayer /\ k.leader[P] \notin Members(k, P)
      BY <1>7, <1>8
    <3>3. IsInjective(k.memberList[P])
      BY <1>5, <1>7
    <3>4. \A p \in Players : p = g.leader[P] \/ p \in Members(g, P) <=> p = k.leader[P] \/ p \in Members(k, P)
      BY <1>7, <1>8, <3>1
    <3> QED
      BY <1>1, <1>6, <1>7, <2>1, <3>2, <3>3, <3>4 DEF Agrees
  <2>2. CASE Q # P
    <3>1. Agrees(g, on, Q) /\ Q \in Parties \ {P}
      BY <1>1, <2>2
    <3> QED
      BY <1>6, <1>7, <1>8, <3>1 DEF Agrees
  <2> QED
    BY <2>1, <2>2
<1>10. ASSUME NEW Q \in Parties \ {P} PROVE Shares(k, Q)
  BY <1>1, <1>6, <1>7, <1>8 DEF Shares, CanEnableSharedExperience
<1> DEFINE h == UpdateSharedExperience(k, P, fit)
<1>11. Reshared(k, h, P)
  BY <1>6, UpdateReshares
<1> HIDE DEF h
<1>12. Sound(h, on) /\ \A Q \in Parties : Members(h, Q) = Members(k, Q)
  BY <1>9, <1>10, <1>11, ResharedSound
<1>13. /\ h.party = g.party /\ h.invitations = g.invitations /\ h.inviteList = g.inviteList
       /\ h.leader = [g.leader EXCEPT ![P] = q] /\ h.memberList = k.memberList
  BY <1>6, <1>11 DEF Reshared
<1> QED
  BY <1>4, <1>7, <1>8, <1>12, <1>13 DEF h

\* The member p leaves P: it forgets the party, and the party forgets it.
Left(g, P, p) == [g EXCEPT !.memberList[P] = RemoveFirst(@, p), !.party[p] = NoParty]

\* What leaveParty recomputes.
Recomputed(g, P, p, fit) == ClearPlayerPoints(UpdateSharedExperience(g, P, fit), P, p, fit)

LEMMA RecomputedReshares ==
    ASSUME NEW g \in States, NEW P \in Parties, NEW p \in Players, NEW fit \in BOOLEAN
    PROVE  Reshared(g, Recomputed(g, P, p, fit), P)
<1> DEFINE u == UpdateSharedExperience(g, P, fit)
<1>1. Reshared(g, u, P)
  BY UpdateReshares
<1> HIDE DEF u
<1>2. u \in States /\ Shares(u, P)
  BY <1>1 DEF Reshared
<1>3. Reshared(u, ClearPlayerPoints(u, P, p, fit), P)
  BY <1>2, TicksReshare
<1> QED
  BY <1>1, <1>3, ResharedTwice DEF Recomputed, u

\* The fields of what a member leaves behind.
LEMMA LeftFields ==
    ASSUME NEW g, NEW on, Sound(g, on), NEW P \in Parties, NEW p \in Players, g.party[p] = P
    PROVE  LET k == Left(g, P, p)
           IN  /\ k \in States
               /\ k.party = [g.party EXCEPT ![p] = NoParty] /\ k.invitations = g.invitations
               /\ k.leader = g.leader /\ k.inviteList = g.inviteList
               /\ k.ticks = g.ticks /\ k.active = g.active /\ k.enabled = g.enabled
               /\ \A Q \in Parties \ {P} : k.memberList[Q] = g.memberList[Q]
               /\ Members(k, P) = Members(g, P) \ {p} /\ IsInjective(k.memberList[P])
               /\ \A Q \in Parties \ {P} : Agrees(k, on, Q) /\ Shares(k, Q)
<1> USE PartyAssumption
<1> DEFINE s == RemoveFirst(g.memberList[P], p)
           k == Left(g, P, p)
<1>1. g \in States /\ \A Q \in Parties : Agrees(g, on, Q) /\ Shares(g, Q)
  BY DEF Sound
<1>2. g.memberList[P] \in Seq(Players) /\ IsInjective(g.memberList[P])
  BY <1>1 DEF States, Agrees
<1>3. s \in Seq(Players) /\ IsInjective(s) /\ ToSet(s) = Members(g, P) \ {p}
  BY <1>2, RemoveFirstElement DEF Members
<1>4. k = [g EXCEPT !.memberList[P] = s, !.party[p] = NoParty]
  BY DEF Left
<1> HIDE DEF s, k
<1>5. /\ k \in States
      /\ k.party = [g.party EXCEPT ![p] = NoParty] /\ k.invitations = g.invitations
      /\ k.leader = g.leader /\ k.inviteList = g.inviteList
      /\ k.ticks = g.ticks /\ k.active = g.active /\ k.enabled = g.enabled
      /\ k.memberList = [g.memberList EXCEPT ![P] = s]
  BY <1>1, <1>3, <1>4 DEF States
<1>6. k.memberList[P] = s /\ \A Q \in Parties \ {P} : k.memberList[Q] = g.memberList[Q]
  BY <1>1, <1>5 DEF States
<1>7. Members(k, P) = Members(g, P) \ {p} /\ \A Q \in Parties \ {P} : Members(k, Q) = Members(g, Q)
  BY <1>3, <1>6 DEF Members
<1>8. k.party[p] = NoParty /\ \A q \in Players \ {p} : k.party[q] = g.party[q]
  BY <1>1, <1>5 DEF States
<1>9. ASSUME NEW Q \in Parties \ {P} PROVE Agrees(k, on, Q) /\ Shares(k, Q)
  <2>1. Agrees(g, on, Q) /\ Shares(g, Q) /\ p \notin Members(g, Q) \cup {g.leader[Q]} /\ NoParty # Q
    BY <1>1 DEF Agrees
  <2>2. ASSUME NEW q \in Players PROVE k.party[q] = Q <=> g.party[q] = Q
    BY <1>8, <2>1
  <2>3. Agrees(k, on, Q)
    BY <1>5, <1>6, <1>7, <2>1, <2>2 DEF Agrees
  <2>4. Shares(k, Q)
    BY <1>5, <1>6, <1>7, <2>1 DEF Shares, CanEnableSharedExperience
  <2> QED
    BY <2>3, <2>4
<1>10. IsInjective(k.memberList[P])
  BY <1>3, <1>6
<1> QED
  BY <1>5, <1>6, <1>7, <1>9, <1>10 DEF k

\* A member that is not the leader leaves, and the party goes on or is disbanded.
LEMMA MemberLeaves ==
    ASSUME NEW g, NEW on, Sound(g, on), NEW P \in Parties, NEW p \in Players, g.party[p] = P,
           g.leader[P] # p, Populated(g, Parties \ {P}), NEW fit \in BOOLEAN
    PROVE  LET c == Recomputed(Left(g, P, p), P, p, fit)
               h == IF Empty(c, P) THEN Disband(c, {P}) ELSE c
           IN  /\ Sound(h, on) /\ Populated(h, Parties)
               /\ h.party[p] = NoParty /\ h.invitations[p] \subseteq g.invitations[p]
<1> USE PartyAssumption
<1> DEFINE k == Left(g, P, p)
           c == Recomputed(k, P, p, fit)
           h == IF Empty(c, P) THEN Disband(c, {P}) ELSE c
<1>1. g \in States /\ Agrees(g, on, P)
  BY DEF Sound
<1>2. /\ k \in States
      /\ k.party = [g.party EXCEPT ![p] = NoParty] /\ k.invitations = g.invitations
      /\ k.leader = g.leader /\ k.inviteList = g.inviteList /\ k.active = g.active
      /\ \A Q \in Parties \ {P} : k.memberList[Q] = g.memberList[Q]
      /\ Members(k, P) = Members(g, P) \ {p} /\ IsInjective(k.memberList[P])
      /\ \A Q \in Parties \ {P} : Agrees(k, on, Q) /\ Shares(k, Q)
  BY LeftFields
<1> HIDE DEF k
<1>3. g.leader[P] # NoPlayer
  BY <1>1 DEF Agrees, Members, ToSet
<1>4. Agrees(k, on, P)
  <2>1. k.party[p] = NoParty /\ \A q \in Players \ {p} : k.party[q] = g.party[q]
    BY <1>1, <1>2 DEF States
  <2>2. NoParty # P
    OBVIOUS
  <2> QED
    BY <1>1, <1>2, <1>3, <2>1, <2>2 DEF Agrees
<1>5. Reshared(k, c, P)
  BY <1>2, RecomputedReshares
<1> HIDE DEF c
<1>6. Sound(c, on) /\ \A Q \in Parties : Empty(c, Q) = Empty(k, Q)
  BY <1>2, <1>4, <1>5, ResharedSound
<1>7. Populated(c, Parties \ {P})
  BY <1>2, <1>5, <1>6 DEF Populated, Reshared, Empty
<1>8. c.party[p] = NoParty /\ c.invitations = g.invitations
  BY <1>1, <1>2, <1>5 DEF Reshared, States
<1>9. CASE Empty(c, P)
  <2>1. {P} \in SUBSET Parties
    OBVIOUS
  <2>2. /\ Sound(Disband(c, {P}), on) /\ Populated(Disband(c, {P}), Parties)
        /\ Disband(c, {P}).party[p] \in {NoParty, c.party[p]}
        /\ Disband(c, {P}).invitations[p] \subseteq c.invitations[p]
    BY <1>6, <1>7, <2>1, DisbandSound
  <2> QED
    BY <1>8, <1>9, <2>2 DEF c, k
<1>10. CASE ~Empty(c, P)
  <2>1. Populated(c, Parties)
    BY <1>7, <1>10 DEF Populated
  <2> QED
    BY <1>6, <1>8, <1>10, <2>1 DEF c, k
<1> QED
  BY <1>9, <1>10

\* The last leader leaves, and the party is disbanded.
LEMMA LeaderDisbands ==
    ASSUME NEW g, NEW on, Sound(g, on), NEW P \in Parties, NEW p \in Players, g.party[p] = P,
           g.leader[P] = p, Populated(g, Parties), NEW fit \in BOOLEAN
    PROVE  LET h == Disband(Recomputed(Left(g, P, p), P, p, fit), {P})
           IN  /\ Sound(h, on) /\ Populated(h, Parties)
               /\ h.party[p] = NoParty /\ h.invitations[p] \subseteq g.invitations[p]
<1> USE PartyAssumption
<1> DEFINE k == Left(g, P, p)
           c == Recomputed(k, P, p, fit)
           h == Disband(c, {P})
<1>1. g \in States /\ Agrees(g, on, P)
  BY DEF Sound
<1>2. /\ k \in States
      /\ k.party = [g.party EXCEPT ![p] = NoParty] /\ k.invitations = g.invitations
      /\ k.leader = g.leader /\ k.inviteList = g.inviteList /\ k.active = g.active
      /\ \A Q \in Parties \ {P} : k.memberList[Q] = g.memberList[Q]
      /\ Members(k, P) = Members(g, P) \ {p}
      /\ \A Q \in Parties \ {P} : Agrees(k, on, Q) /\ Shares(k, Q)
  BY LeftFields
<1> HIDE DEF k
<1>3. Reshared(k, c, P)
  BY <1>2, RecomputedReshares
<1> HIDE DEF c
<1>4. /\ c \in States /\ c.party = k.party /\ c.invitations = k.invitations /\ c.leader = k.leader
      /\ c.memberList = k.memberList /\ c.inviteList = k.inviteList
  BY <1>3 DEF Reshared
<1>5. ASSUME NEW Q \in Parties \ {P} PROVE Agrees(c, on, Q) /\ Shares(c, Q)
  BY <1>2, <1>3, ResharedKeeps
<1>6. c.party[p] = NoParty /\ \A q \in Players \ {p} : c.party[q] = g.party[q]
  BY <1>1, <1>2, <1>4 DEF States
<1>7. Outside(c, {P}) = (Members(g, P) \ {p}) \cup {p}
  BY <1>2, <1>4 DEF Outside, Members
<1>8. \A q \in Outside(c, {P}) \cap Players : c.party[q] \in {P} \cup {NoParty}
  BY <1>1, <1>6, <1>7 DEF Agrees
<1>9. \A q \in Players : /\ c.party[q] = P => q \in Outside(c, {P})
                         /\ P \in c.invitations[q] => q \in c.inviteList[P]
  BY <1>1, <1>2, <1>4, <1>6, <1>7 DEF Agrees
<1>10. {P} \in SUBSET Parties /\ Disbanded(c, h, {P})
  BY <1>4, DisbandDisbands
<1> HIDE DEF h
<1>11. Sound(h, on)
  <2>1. /\ {P} \in SUBSET Parties /\ Disbanded(c, h, {P}) /\ c \in States
        /\ \A Q \in Parties \ {P} : Agrees(c, on, Q) /\ Shares(c, Q)
    BY <1>4, <1>5, <1>10
  <2>2. \A R \in {P}, q \in Players : /\ c.party[q] = R => q \in Outside(c, {P})
                                      /\ R \in c.invitations[q] => q \in c.inviteList[R]
    BY <1>9
  <2> QED
    BY <1>8, <2>1, <2>2, DisbandedSound
<1>12. Populated(c, Parties \ {P})
  BY <1>2, <1>4 DEF Populated, Empty
<1>13. Populated(h, Parties)
  BY <1>10, <1>12, DisbandedPopulated
<1>14. h.party[p] = NoParty /\ h.invitations[p] \subseteq g.invitations[p]
  BY <1>2, <1>4, <1>6, <1>10 DEF Disbanded
<1> QED
  BY <1>11, <1>13, <1>14 DEF h, c, k

\* leaveParty
LEMMA LeaveSound ==
    ASSUME NEW g, NEW on, Sound(g, on), Populated(g, Parties), NEW P \in Parties, NEW p \in Players,
           g.party[p] = P, NEW fit \in BOOLEAN
    PROVE  LET h == LeaveParty(g, P, p, fit)
           IN  /\ Sound(h, on) /\ Populated(h, Parties)
               /\ h.party[p] = NoParty /\ h.invitations[p] \subseteq g.invitations[p]
<1> USE PartyAssumption
<1> DEFINE l == Head(g.memberList[P])
           passed == IF g.leader[P] = p /\ ~MissingLeader(g, P, p)
                     THEN PassPartyLeadership(g, P, l, fit) ELSE g
           c == Recomputed(Left(passed, P, p), P, p, fit)
<1>1. LeaveParty(g, P, p, fit) =
          IF MissingLeader(g, P, p) \/ Empty(c, P) THEN Disband(c, {P}) ELSE c
  BY DEF LeaveParty, Recomputed, Left
<1>2. g \in States /\ Agrees(g, on, P)
  BY DEF Sound
<1>3. CASE MissingLeader(g, P, p)
  <2>1. passed = g /\ g.leader[P] = p
    BY <1>3 DEF MissingLeader
  <2>2. LeaveParty(g, P, p, fit) = Disband(Recomputed(Left(g, P, p), P, p, fit), {P})
    BY <1>1, <1>3, <2>1
  <2>3. LET h == Disband(Recomputed(Left(g, P, p), P, p, fit), {P})
        IN  /\ Sound(h, on) /\ Populated(h, Parties)
            /\ h.party[p] = NoParty /\ h.invitations[p] \subseteq g.invitations[p]
    BY <2>1, LeaderDisbands
  <2> QED
    BY <2>2, <2>3
<1>4. CASE ~MissingLeader(g, P, p) /\ g.leader[P] = p
  <2>1. passed = PassPartyLeadership(g, P, l, fit)
    BY <1>4
  <2>2. g.memberList[P] \in Seq(Players) /\ g.memberList[P] # <<>>
    BY <1>2, <1>4 DEF MissingLeader, States
  <2>3. l \in Players /\ l \in Members(g, P)
    <3>1. 1 \in DOMAIN g.memberList[P] /\ l = g.memberList[P][1]
      BY <2>2
    <3> QED
      BY <2>2, <3>1 DEF Members, ToSet
  <2>4. g.leader[P] # NoPlayer /\ g.leader[P] # l /\ g.party[l] = P
    BY <1>2, <1>4, <2>3 DEF Agrees
  <2> HIDE DEF l
  <2>5. /\ Sound(passed, on) /\ passed.party = g.party /\ passed.invitations = g.invitations
        /\ passed.inviteList = g.inviteList
        /\ passed.leader = [g.leader EXCEPT ![P] = l]
        /\ \A Q \in Parties \ {P} : passed.memberList[Q] = g.memberList[Q]
    BY <2>1, <2>3, <2>4, PassSound
  <2> HIDE DEF passed
  <2>6. passed.leader[P] # p
    BY <1>2, <1>4, <2>4, <2>5 DEF States
  <2>7. Populated(passed, Parties \ {P})
    BY <1>2, <2>5 DEF Populated, Empty, States
  <2>8. LET h == IF Empty(c, P) THEN Disband(c, {P}) ELSE c
        IN  /\ Sound(h, on) /\ Populated(h, Parties)
            /\ h.party[p] = NoParty /\ h.invitations[p] \subseteq passed.invitations[p]
    <3>1. passed.party[p] = P /\ Sound(passed, on)
      BY <2>5
    <3> QED
      BY <2>6, <2>7, <3>1, MemberLeaves
  <2> QED
    BY <1>1, <1>4, <2>5, <2>8
<1>5. CASE g.leader[P] # p
  <2>1. passed = g /\ ~MissingLeader(g, P, p)
    BY <1>5 DEF MissingLeader
  <2>2. Populated(g, Parties \ {P})
    BY DEF Populated
  <2>3. LET h == IF Empty(c, P) THEN Disband(c, {P}) ELSE c
        IN  /\ Sound(h, on) /\ Populated(h, Parties)
            /\ h.party[p] = NoParty /\ h.invitations[p] \subseteq g.invitations[p]
    BY <1>5, <2>1, <2>2, MemberLeaves
  <2> QED
    BY <1>1, <2>1, <2>3
<1> QED
  BY <1>3, <1>4, <1>5

\* joinParty of an invited player
LEMMA JoinSound ==
    ASSUME NEW g, NEW on, Sound(g, on), Populated(g, Parties), NEW P \in Parties, NEW p \in Players,
           p \in g.inviteList[P], g.party[p] = NoParty, NEW fit \in BOOLEAN
    PROVE  Sound(JoinParty(g, P, p, fit), on) /\ Populated(JoinParty(g, P, p, fit), Parties)
<1> USE PartyAssumption
<1> DEFINE s == Append(g.memberList[P], p)
           k == [g EXCEPT !.inviteList[P] = @ \ {p}, !.party[p] = P, !.memberList[P] = s,
                          !.invitations[p] = @ \ {P}]
           h == UpdateSharedExperience(k, P, fit)
<1>1. g \in States /\ \A Q \in Parties : Agrees(g, on, Q) /\ Shares(g, Q)
  BY DEF Sound
<1>2. /\ g.memberList[P] \in Seq(Players) /\ IsInjective(g.memberList[P])
      /\ p \notin Members(g, P) /\ p # g.leader[P] /\ g.leader[P] # NoPlayer /\ p \in on
  BY <1>1 DEF States, Agrees
<1>3. s \in Seq(Players) /\ IsInjective(s) /\ ToSet(s) = Members(g, P) \cup {p}
  BY <1>2, AppendElement DEF Members
<1>4. JoinParty(g, P, p, fit) = h
  BY DEF JoinParty
<1> HIDE DEF s
<1>5. /\ k \in States
      /\ k.party = [g.party EXCEPT ![p] = P]
      /\ k.invitations = [g.invitations EXCEPT ![p] = g.invitations[p] \ {P}]
      /\ k.leader = g.leader /\ k.memberList = [g.memberList EXCEPT ![P] = s]
      /\ k.inviteList = [g.inviteList EXCEPT ![P] = g.inviteList[P] \ {p}]
      /\ k.ticks = g.ticks /\ k.active = g.active /\ k.enabled = g.enabled
  BY <1>1, <1>3 DEF States
<1> HIDE DEF k
<1>6. /\ k.party[p] = P /\ \A q \in Players \ {p} : k.party[q] = g.party[q]
      /\ k.invitations[p] = g.invitations[p] \ {P}
      /\ \A q \in Players \ {p} : k.invitations[q] = g.invitations[q]
      /\ k.memberList[P] = s /\ k.inviteList[P] = g.inviteList[P] \ {p}
      /\ \A Q \in Parties \ {P} : /\ k.memberList[Q] = g.memberList[Q]
                                  /\ k.inviteList[Q] = g.inviteList[Q]
  BY <1>1, <1>5 DEF States
<1>7. Members(k, P) = Members(g, P) \cup {p} /\ \A Q \in Parties \ {P} : Members(k, Q) = Members(g, Q)
  BY <1>3, <1>6 DEF Members
<1>8. Agrees(k, on, P)
  <2>1. Agrees(g, on, P)
    BY <1>1
  <2>2. IsInjective(k.memberList[P]) /\ k.leader[P] \notin Members(k, P) /\ k.leader[P] # NoPlayer
    BY <1>2, <1>3, <1>5, <1>6, <1>7, <2>1 DEF Agrees
  <2>3. ASSUME NEW q \in Players
        PROVE  /\ k.party[q] = P <=> q = k.leader[P] \/ q \in Members(k, P)
               /\ P \in k.invitations[q] <=> q \in k.inviteList[P]
               /\ q \in k.inviteList[P] => k.party[q] # P
               /\ k.party[q] = P \/ q \in k.inviteList[P] => q \in on
    <3>1. CASE q = p
      BY <1>2, <1>5, <1>6, <1>7, <3>1
    <3>2. CASE q # p
      BY <1>5, <1>6, <1>7, <2>1, <3>2 DEF Agrees
    <3> QED
      BY <3>1, <3>2
  <2> QED
    BY <2>2, <2>3 DEF Agrees
<1>9. ASSUME NEW Q \in Parties \ {P} PROVE Agrees(k, on, Q) /\ Shares(k, Q)
  <2>1. Agrees(g, on, Q) /\ Shares(g, Q) /\ NoParty # Q
    BY <1>1
  <2>2. ASSUME NEW q \in Players
        PROVE  /\ k.party[q] = Q <=> g.party[q] = Q
               /\ Q \in k.invitations[q] <=> Q \in g.invitations[q]
    BY <1>6, <2>1
  <2>3. Agrees(k, on, Q)
    BY <1>5, <1>6, <1>7, <2>1, <2>2 DEF Agrees
  <2>4. Shares(k, Q)
    BY <1>5, <1>7, <1>6, <2>1 DEF Shares, CanEnableSharedExperience
  <2> QED
    BY <2>3, <2>4
<1>10. Reshared(k, h, P)
  BY <1>5, UpdateReshares
<1> HIDE DEF h
<1>11. Sound(h, on) /\ \A Q \in Parties : Empty(h, Q) = Empty(k, Q) /\ Members(h, Q) = Members(k, Q)
  BY <1>8, <1>9, <1>10, ResharedSound
<1>12. h.leader = g.leader
  BY <1>5, <1>10 DEF Reshared
<1>13. ASSUME NEW Q \in Parties, h.leader[Q] # NoPlayer PROVE ~Empty(h, Q)
  <2>1. CASE Q = P
    BY <1>7, <1>11, <2>1 DEF Empty, Members, ToSet
  <2>2. CASE Q # P
    BY <1>6, <1>11, <1>12, <1>13, <2>2 DEF Empty, Populated
  <2> QED
    BY <2>1, <2>2
<1> QED
  BY <1>4, <1>11, <1>13 DEF Populated

\* From g to h the parties Ps withdraw their invitation of p, which may remember them.
Withdrawn(g, h, Ps, p) ==
    /\ h \in States
    /\ h.party = g.party /\ h.leader = g.leader /\ h.memberList = g.memberList
    /\ h.ticks = g.ticks /\ h.active = g.active /\ h.enabled = g.enabled
    /\ \A P \in Ps : h.inviteList[P] = g.inviteList[P] \ {p}
    /\ \A P \in Parties \ Ps : h.inviteList[P] = g.inviteList[P]
    /\ \A q \in Players \ {p} : h.invitations[q] = g.invitations[q]

\* removeInvite, before the empty parties are disbanded; the player forgets the invitation or does not.
Revoked(g, Ps, p) == InviteRemoved(g, Ps, p, TRUE)
Withdrew(g, Ps, p) == InviteRemoved(g, Ps, p, FALSE)

LEMMA InviteRemovedFields ==
    ASSUME NEW g \in States, NEW Ps \in SUBSET Parties, NEW p \in Players
    PROVE  LET r == Revoked(g, Ps, p)
               f == Withdrew(g, Ps, p)
           IN  /\ Withdrawn(g, r, Ps, p) /\ r.invitations[p] = g.invitations[p] \ Ps
               /\ Withdrawn(g, f, Ps, p) /\ f.invitations[p] = g.invitations[p]
<1> DEFINE L == [P \in Parties |-> IF P \in Ps THEN g.inviteList[P] \ {p} ELSE g.inviteList[P]]
           I(X) == [g.invitations EXCEPT ![p] = X]
           h(X) == [g EXCEPT !.inviteList = L, !.invitations = I(X)]
<1>1. L \in [Parties -> SUBSET Players]
      /\ \A P \in Parties : L[P] = IF P \in Ps THEN g.inviteList[P] \ {p} ELSE g.inviteList[P]
  BY DEF States
<1>2. ASSUME NEW X \in SUBSET Parties
      PROVE  Withdrawn(g, h(X), Ps, p) /\ h(X).invitations[p] = X
  <2>1. I(X) \in [Players -> SUBSET Parties] /\ I(X)[p] = X
        /\ \A q \in Players \ {p} : I(X)[q] = g.invitations[q]
    BY DEF States
  <2> DEFINE k == h(X)
  <2> HIDE DEF L, I
  <2>2. /\ k \in States /\ k.party = g.party /\ k.leader = g.leader /\ k.memberList = g.memberList
        /\ k.inviteList = L /\ k.ticks = g.ticks /\ k.active = g.active /\ k.enabled = g.enabled
        /\ k.invitations = I(X)
    BY <1>1, <2>1 DEF States
  <2> HIDE DEF h, k
  <2>3. Withdrawn(g, k, Ps, p) /\ k.invitations[p] = X
    BY <1>1, <2>1, <2>2 DEF Withdrawn
  <2> QED
    BY <2>3 DEF k
<1>3. g.invitations[p] \in SUBSET Parties /\ g.invitations[p] \ Ps \in SUBSET Parties
  BY DEF States
<1>4. /\ Revoked(g, Ps, p) = h(g.invitations[p] \ Ps)
      /\ Withdrew(g, Ps, p) = h(g.invitations[p])
  BY DEF Revoked, Withdrew, InviteRemoved
<1> HIDE DEF h
<1> QED
  BY <1>2, <1>3, <1>4

LEMMA WithdrawnSound ==
    ASSUME NEW g, NEW h, NEW on, Sound(g, on), Populated(g, Parties), NEW Ps \in SUBSET Parties,
           NEW p \in Players, Withdrawn(g, h, Ps, p), h.invitations[p] = g.invitations[p] \ Ps
    PROVE  Sound(h, on) /\ Populated(h, Parties \ {P \in Ps : Empty(h, P)})
<1>1. \A Q \in Parties : Agrees(g, on, Q) /\ Shares(g, Q)
  BY DEF Sound
<1>2. \A Q \in Parties : Members(h, Q) = Members(g, Q)
  BY DEF Members, Withdrawn
<1>3. ASSUME NEW Q \in Parties PROVE Agrees(h, on, Q) /\ Shares(h, Q)
  <2>1. Agrees(g, on, Q) /\ Shares(g, Q)
    BY <1>1
  <2>2. ASSUME NEW q \in Players PROVE Q \in h.invitations[q] <=> q \in h.inviteList[Q]
    <3>1. Q \in g.invitations[q] <=> q \in g.inviteList[Q]
      BY <2>1 DEF Agrees
    <3>2. h.invitations[q] = IF q = p THEN g.invitations[p] \ Ps ELSE g.invitations[q]
      BY DEF Withdrawn
    <3>3. h.inviteList[Q] = IF Q \in Ps THEN g.inviteList[Q] \ {p} ELSE g.inviteList[Q]
      BY DEF Withdrawn
    <3> QED
      BY <3>1, <3>2, <3>3
  <2>3. h.inviteList[Q] \subseteq g.inviteList[Q]
    BY DEF Withdrawn
  <2>4. Agrees(h, on, Q)
    BY <1>2, <2>1, <2>2, <2>3 DEF Agrees, Withdrawn
  <2>5. Shares(h, Q)
    BY <1>2, <2>1 DEF Shares, CanEnableSharedExperience, Withdrawn
  <2> QED
    BY <2>4, <2>5
<1>4. ASSUME NEW Q \in Parties \ {P \in Ps : Empty(h, P)}, h.leader[Q] # NoPlayer PROVE ~Empty(h, Q)
  BY <1>4 DEF Populated, Empty, Withdrawn
<1> QED
  BY <1>3, <1>4 DEF Sound, Populated, Withdrawn

\* removeInvite for an invitation that is revoked
LEMMA RevokeSound ==
    ASSUME NEW g, NEW on, Sound(g, on), Populated(g, Parties), NEW Ps \in SUBSET Parties, NEW p \in Players
    PROVE  LET h == RemoveInvite(g, Ps, p, TRUE) IN Sound(h, on) /\ Populated(h, Parties)
<1> DEFINE inviting == {P \in Ps : p \in g.inviteList[P]}
           r == Revoked(g, inviting, p)
           D == {P \in inviting : Empty(r, P)}
<1>1. RemoveInvite(g, Ps, p, TRUE) = Disband(r, D)
  BY DEF RemoveInvite, Revoked
<1>2. inviting \in SUBSET Parties /\ g \in States
  BY DEF Sound
<1> HIDE DEF inviting
<1>3. Withdrawn(g, r, inviting, p) /\ r.invitations[p] = g.invitations[p] \ inviting
  BY <1>2, InviteRemovedFields
<1> HIDE DEF r
<1>4. Sound(r, on) /\ Populated(r, Parties \ D)
  BY <1>2, <1>3, WithdrawnSound
<1>5. D \in SUBSET Parties
  BY <1>2
<1> HIDE DEF D
<1> QED
  BY <1>1, <1>4, <1>5, DisbandSound

\* clearPartyInvitations
LEMMA ClearSound ==
    ASSUME NEW g, NEW on, Sound(g, on), Populated(g, Parties), NEW p \in Players
    PROVE  LET h == ClearPartyInvitations(g, p)
           IN  Sound(h, on) /\ Populated(h, Parties) /\ h.invitations[p] = {}
<1> DEFINE Ps == g.invitations[p]
           r == Revoked(g, Ps, p)
           f == Withdrew(g, Ps, p)
           D == {P \in Ps : Empty(f, P)}
           e == Disband(f, D)
           h == [e EXCEPT !.invitations[p] = {}]
<1>1. g \in States /\ \A Q \in Parties : Agrees(g, on, Q)
  BY DEF Sound
<1>2. Ps \in SUBSET Parties /\ {P \in Ps : p \in g.inviteList[P]} = Ps
  BY <1>1 DEF States, Agrees
<1>3. ClearPartyInvitations(g, p) = h
  BY <1>2 DEF ClearPartyInvitations, RemoveInvite, Withdrew
<1>4. /\ Withdrawn(g, r, Ps, p) /\ r.invitations[p] = g.invitations[p] \ Ps
      /\ Withdrawn(g, f, Ps, p)
  <2>1. Ps \in SUBSET Parties
    BY <1>2
  <2> HIDE DEF Ps
  <2> QED
    BY <1>1, <2>1, InviteRemovedFields
<1> HIDE DEF r, f
<1>5. /\ f \in States /\ r \in States /\ f.party = r.party /\ f.leader = r.leader
      /\ f.memberList = r.memberList
      /\ f.ticks = r.ticks /\ f.active = r.active /\ f.enabled = r.enabled
      /\ r.invitations[p] = {} /\ \A q \in Players \ {p} : f.invitations[q] = r.invitations[q]
      /\ \A P \in Parties : f.inviteList[P] = r.inviteList[P]
  <2>1. \A P \in Parties : P \in Ps \/ P \in Parties \ Ps
    OBVIOUS
  <2>2. r.invitations[p] = {}
    BY <1>4
  <2> HIDE DEF Ps
  <2> QED
    BY <1>4, <2>1, <2>2 DEF Withdrawn
<1>6. Sound(r, on) /\ Populated(r, Parties \ {P \in Ps : Empty(r, P)})
  BY <1>2, <1>4, WithdrawnSound
<1>7. D \in SUBSET Parties /\ D = {P \in Ps : Empty(r, P)}
  <2>1. \A P \in Parties : Empty(f, P) = Empty(r, P)
    BY <1>5 DEF Empty
  <2> QED
    BY <1>2, <2>1
<1> HIDE DEF D, Ps
<1>8. Disbanded(f, e, D)
  BY <1>5, <1>7, DisbandDisbands
<1> HIDE DEF e
<1>9. /\ h \in States /\ h.party = e.party /\ h.leader = e.leader /\ h.memberList = e.memberList
      /\ h.inviteList = e.inviteList /\ h.ticks = e.ticks /\ h.active = e.active /\ h.enabled = e.enabled
      /\ h.invitations[p] = {} /\ \A q \in Players \ {p} : h.invitations[q] = e.invitations[q]
  <2>1. e \in States /\ h = [e EXCEPT !.invitations = [e.invitations EXCEPT ![p] = {}]]
    BY <1>8 DEF Disbanded
  <2> HIDE DEF h
  <2>2. e.invitations \in [Players -> SUBSET Parties]
    BY <2>1 DEF States
  <2>3. [e.invitations EXCEPT ![p] = {}] \in [Players -> SUBSET Parties]
    BY <2>2
  <2>4. /\ h \in States /\ h.party = e.party /\ h.leader = e.leader /\ h.memberList = e.memberList
        /\ h.inviteList = e.inviteList /\ h.ticks = e.ticks /\ h.active = e.active /\ h.enabled = e.enabled
        /\ h.invitations = [e.invitations EXCEPT ![p] = {}]
    BY <2>1, <2>3 DEF States
  <2> QED
    BY <2>2, <2>4
<1> HIDE DEF h
<1>10. Outside(f, D) = Outside(r, D)
  BY <1>5 DEF Outside, Members
<1>11. ASSUME NEW q \in Players
       PROVE  /\ h.party[q] = IF q \in Outside(r, D) THEN NoParty ELSE r.party[q]
              /\ h.invitations[q] = r.invitations[q] \ {P \in D : q \in r.inviteList[P]}
  <2>1. {P \in D : q \in f.inviteList[P]} = {P \in D : q \in r.inviteList[P]}
    BY <1>5, <1>7
  <2>2. /\ e.party[q] = IF q \in Outside(r, D) THEN NoParty ELSE r.party[q]
        /\ e.invitations[q] = f.invitations[q] \ {P \in D : q \in r.inviteList[P]}
    BY <1>5, <1>8, <1>10, <2>1 DEF Disbanded
  <2>3. CASE q = p
    BY <1>5, <1>9, <2>2, <2>3
  <2>4. CASE q # p
    BY <1>5, <1>9, <2>2, <2>4
  <2> QED
    BY <2>3, <2>4
<1>12. Disbanded(r, h, D)
  BY <1>5, <1>8, <1>9, <1>11 DEF Disbanded
<1>13. Sound(h, on) /\ Populated(h, Parties)
  BY <1>6, <1>7, <1>12, DisbandedAll
<1> QED
  BY <1>3, <1>9, <1>13

\* Player::onRemoveCreature
LEMMA RemoveSound ==
    ASSUME NEW g, NEW on, Sound(g, on), Populated(g, Parties), NEW p \in Players, NEW fit \in BOOLEAN
    PROVE  LET h == OnRemoveCreature(g, p, fit) IN Sound(h, on \ {p}) /\ Populated(h, Parties)
<1> USE PartyAssumption
<1> DEFINE c == ClearPartyInvitations(g, p)
           h == OnRemoveCreature(g, p, fit)
<1>1. Sound(c, on) /\ Populated(c, Parties) /\ c.invitations[p] = {}
  BY ClearSound
<1>2. h = IF c.party[p] # NoParty THEN LeaveParty(c, c.party[p], p, fit) ELSE c
  BY DEF OnRemoveCreature
<1> HIDE DEF c, h
<1>3. Sound(h, on) /\ Populated(h, Parties) /\ h.party[p] = NoParty /\ h.invitations[p] = {}
  <2>1. CASE c.party[p] = NoParty
    BY <1>1, <1>2, <2>1
  <2>2. ASSUME NEW P \in Parties, c.party[p] = P
        PROVE  Sound(h, on) /\ Populated(h, Parties) /\ h.party[p] = NoParty /\ h.invitations[p] = {}
    <3>1. h = LeaveParty(c, P, p, fit)
      BY <1>2, <2>2
    <3>2. LET l == LeaveParty(c, P, p, fit)
          IN  /\ Sound(l, on) /\ Populated(l, Parties)
              /\ l.party[p] = NoParty /\ l.invitations[p] \subseteq c.invitations[p]
      BY <1>1, <2>2, LeaveSound
    <3> QED
      BY <1>1, <3>1, <3>2
  <2>3. c.party[p] \in Parties \cup {NoParty}
    BY <1>1 DEF Sound, States
  <2> QED
    BY <2>1, <2>2, <2>3
<1>4. ASSUME NEW Q \in Parties PROVE Agrees(h, on \ {p}, Q)
  <2>1. Agrees(h, on, Q) /\ h.party[p] # Q /\ p \notin h.inviteList[Q]
    BY <1>3 DEF Sound, Agrees
  <2> QED
    BY <2>1 DEF Agrees
<1> QED
  BY <1>3, <1>4 DEF Sound, h

\* invitePlayer
LEMMA InviteSound ==
    ASSUME NEW g, NEW on, Sound(g, on), NEW P \in Parties, NEW p \in Players, p \in on,
           g.leader[P] # NoPlayer, g.party[p] # P, Populated(g, Parties \ {P})
    PROVE  Sound(InvitePlayer(g, P, p), on) /\ Populated(InvitePlayer(g, P, p), Parties)
<1> DEFINE k == InvitePlayer(g, P, p)
<1>1. g \in States /\ \A Q \in Parties : Agrees(g, on, Q) /\ Shares(g, Q)
  BY DEF Sound
<1>2. /\ k \in States /\ k.party = g.party /\ k.leader = g.leader /\ k.memberList = g.memberList
      /\ k.ticks = g.ticks /\ k.active = g.active /\ k.enabled = g.enabled
      /\ k.inviteList = [g.inviteList EXCEPT ![P] = g.inviteList[P] \cup {p}]
      /\ k.invitations = [g.invitations EXCEPT ![p] = g.invitations[p] \cup {P}]
  BY <1>1 DEF InvitePlayer, States
<1> HIDE DEF k
<1>3. /\ k.inviteList[P] = g.inviteList[P] \cup {p} /\ k.invitations[p] = g.invitations[p] \cup {P}
      /\ \A Q \in Parties \ {P} : k.inviteList[Q] = g.inviteList[Q]
      /\ \A q \in Players \ {p} : k.invitations[q] = g.invitations[q]
  BY <1>1, <1>2 DEF States
<1>4. \A Q \in Parties : Members(k, Q) = Members(g, Q)
  BY <1>2 DEF Members
<1>5. ASSUME NEW Q \in Parties PROVE Agrees(k, on, Q) /\ Shares(k, Q)
  <2>1. Agrees(g, on, Q) /\ Shares(g, Q)
    BY <1>1
  <2>2. ASSUME NEW q \in Players
        PROVE  /\ Q \in k.invitations[q] <=> q \in k.inviteList[Q]
               /\ q \in k.inviteList[Q] => k.party[q] # Q /\ q \in on
    <3>1. Q \in g.invitations[q] <=> q \in g.inviteList[Q]
      BY <2>1 DEF Agrees
    <3>2. q \in g.inviteList[Q] => g.party[q] # Q /\ q \in on
      BY <2>1 DEF Agrees
    <3> QED
      BY <1>2, <1>3, <3>1, <3>2
  <2>3. Agrees(k, on, Q)
    <3>1. CASE Q = P
      BY <1>2, <1>4, <2>1, <2>2, <3>1 DEF Agrees
    <3>2. CASE Q # P
      BY <1>2, <1>3, <1>4, <2>1, <2>2, <3>2 DEF Agrees
    <3> QED
      BY <3>1, <3>2
  <2>4. Shares(k, Q)
    BY <1>2, <1>4, <2>1 DEF Shares, CanEnableSharedExperience
  <2> QED
    BY <2>3, <2>4
<1>6. Populated(k, Parties)
  <2>1. ASSUME NEW Q \in Parties, k.leader[Q] # NoPlayer PROVE ~Empty(k, Q)
    BY <1>2, <1>3, <2>1 DEF Empty, Populated
  <2> QED
    BY <2>1 DEF Populated
<1> QED
  BY <1>2, <1>5, <1>6 DEF Sound, k

\* The constructor
LEMMA NewPartySound ==
    ASSUME NEW g, NEW on, Sound(g, on), Populated(g, Parties), NEW P \in Parties, NEW p \in Players, p \in on,
           g.leader[P] = NoPlayer, g.party[p] = NoParty
    PROVE  LET k == NewParty(g, P, p)
           IN  /\ Sound(k, on) /\ Populated(k, Parties \ {P}) /\ k.leader[P] = p
               /\ \A q \in Players \ {p} : k.party[q] = g.party[q]
<1> USE PartyAssumption
<1> DEFINE k == NewParty(g, P, p)
<1>1. g \in States /\ \A Q \in Parties : Agrees(g, on, Q) /\ Shares(g, Q)
  BY DEF Sound
<1>2. /\ k \in States /\ k.party = [g.party EXCEPT ![p] = P] /\ k.leader = [g.leader EXCEPT ![P] = p]
      /\ k.memberList = g.memberList /\ k.invitations = g.invitations /\ k.inviteList = g.inviteList
      /\ k.ticks = g.ticks /\ k.active = g.active /\ k.enabled = g.enabled
  BY <1>1 DEF NewParty, States
<1> HIDE DEF k
<1>3. /\ k.party[p] = P /\ \A q \in Players \ {p} : k.party[q] = g.party[q]
      /\ k.leader[P] = p /\ \A Q \in Parties \ {P} : k.leader[Q] = g.leader[Q]
  BY <1>1, <1>2 DEF States
<1>4. \A Q \in Parties : Members(k, Q) = Members(g, Q)
  BY <1>2 DEF Members
<1>5. g.memberList[P] = <<>> /\ g.inviteList[P] = {} /\ ~g.active[P]
  BY <1>1 DEF Agrees
<1>6. Members(g, P) = {}
  BY <1>5 DEF Members, ToSet
<1>7. ASSUME NEW Q \in Parties PROVE Agrees(k, on, Q) /\ Shares(k, Q)
  <2>1. Agrees(g, on, Q) /\ Shares(g, Q)
    BY <1>1
  <2>2. CASE Q = P
    <3>1. \A q \in Players : k.party[q] = P <=> q = p
      BY <1>3, <1>6, <2>1, <2>2 DEF Agrees
    <3>2. Agrees(k, on, Q)
      BY <1>2, <1>3, <1>4, <1>5, <1>6, <2>1, <2>2, <3>1 DEF Agrees
    <3> QED
      BY <1>2, <1>5, <2>2, <3>2 DEF Shares
  <2>3. CASE Q # P
    <3>1. \A q \in Players : k.party[q] = Q <=> g.party[q] = Q
      BY <1>3, <2>3
    <3>2. Agrees(k, on, Q)
      BY <1>2, <1>3, <1>4, <2>1, <2>3, <3>1 DEF Agrees
    <3>3. Shares(k, Q)
      BY <1>2, <1>3, <1>4, <2>1, <2>3 DEF Shares, CanEnableSharedExperience
    <3> QED
      BY <3>2, <3>3
  <2> QED
    BY <2>2, <2>3
<1>8. Populated(k, Parties \ {P})
  BY <1>2, <1>3 DEF Populated, Empty
<1> QED
  BY <1>2, <1>3, <1>7, <1>8 DEF Sound, k

\* setSharedExperience, in an allocated party
LEMMA SetSound ==
    ASSUME NEW g, NEW on, Sound(g, on), Populated(g, Parties), NEW P \in Parties, g.leader[P] # NoPlayer,
           NEW b \in BOOLEAN, NEW fit \in BOOLEAN
    PROVE  LET h == SetSharedExperience(g, P, b, fit) IN Sound(h, on) /\ Populated(h, Parties)
<1> DEFINE can == CanEnableSharedExperience(g, P, fit)
           en == IF b THEN can ELSE g.enabled[P]
           k == [g EXCEPT !.active[P] = b, !.enabled[P] = en]
<1>1. g \in States /\ \A Q \in Parties : Agrees(g, on, Q) /\ Shares(g, Q)
  BY DEF Sound
<1>2. SetSharedExperience(g, P, b, fit) \in {g, k}
  BY DEF SetSharedExperience
<1>3. can \in BOOLEAN /\ (can => CanEnableSharedExperience(g, P, TRUE))
  BY DEF CanEnableSharedExperience
<1> HIDE DEF can
<1>4. en \in BOOLEAN /\ (b => en = can)
  BY <1>1, <1>3 DEF States
<1> HIDE DEF en
<1>5. /\ k \in States /\ k.party = g.party /\ k.leader = g.leader /\ k.memberList = g.memberList
      /\ k.invitations = g.invitations /\ k.inviteList = g.inviteList /\ k.ticks = g.ticks
      /\ k.active = [g.active EXCEPT ![P] = b] /\ k.enabled = [g.enabled EXCEPT ![P] = en]
  BY <1>1, <1>4 DEF States
<1> HIDE DEF k
<1>6. /\ k.active[P] = b /\ k.enabled[P] = en
      /\ \A Q \in Parties \ {P} : k.active[Q] = g.active[Q] /\ k.enabled[Q] = g.enabled[Q]
  BY <1>1, <1>5 DEF States
<1>7. \A Q \in Parties : Members(k, Q) = Members(g, Q)
  BY <1>5 DEF Members
<1>8. ASSUME NEW Q \in Parties PROVE Agrees(k, on, Q) /\ Shares(k, Q)
  <2>1. Agrees(g, on, Q) /\ Shares(g, Q)
    BY <1>1
  <2>2. Agrees(k, on, Q)
    BY <1>5, <1>6, <1>7, <2>1 DEF Agrees
  <2>3. Shares(k, Q)
    <3>1. CASE Q = P
      BY <1>3, <1>4, <1>5, <1>6, <1>7, <3>1 DEF Shares, CanEnableSharedExperience
    <3>2. CASE Q # P
      BY <1>5, <1>6, <1>7, <2>1, <3>2 DEF Shares, CanEnableSharedExperience
    <3> QED
      BY <3>1, <3>2
  <2> QED
    BY <2>2, <2>3
<1>9. Sound(k, on) /\ Populated(k, Parties)
  BY <1>5, <1>8 DEF Sound, Populated, Empty
<1> QED
  BY <1>2, <1>9

-----------------------------------------------------------------------------
(* The steps *)

\* Login and Logout
LEMMA StepOnline ==
    ASSUME Inv, NEW p \in Players, Login(p) \/ \E fit \in BOOLEAN : Logout(p, fit)
    PROVE  Inv'
<1>1. CASE Login(p)
  <2>1. online' = online \cup {p} /\ game' = game
    BY <1>1 DEF Login
  <2>2. ASSUME NEW P \in Parties PROVE Agrees(game, online', P)
    <3>1. Agrees(game, online, P)
      BY DEF Inv, Sound
    <3> QED
      BY <2>1, <3>1 DEF Agrees
  <2> QED
    BY <2>1, <2>2 DEF Inv, Sound
<1>2. ASSUME NEW fit \in BOOLEAN, Logout(p, fit) PROVE Inv'
  <2>1. online' = online \ {p} /\ game' = OnRemoveCreature(game, p, fit)
    BY <1>2 DEF Logout
  <2>2. Sound(OnRemoveCreature(game, p, fit), online \ {p}) /\ Populated(OnRemoveCreature(game, p, fit), Parties)
    BY RemoveSound DEF Inv
  <2> QED
    BY <2>1, <2>2 DEF Inv
<1> QED
  BY <1>1, <1>2

\* playerInviteToParty
LEMMA StepInvite ==
    ASSUME Inv, NEW p \in Players, NEW q \in Players, PlayerInviteToParty(p, q)
    PROVE  Inv'
<1> USE PartyAssumption
<1>1. /\ p \in online /\ q \in online /\ p # q /\ online' = online /\ game.party[q] = NoParty
      /\ Sound(game, online) /\ Populated(game, Parties)
  BY DEF PlayerInviteToParty, InvitedIsFree, Inv
<1>2. ASSUME NEW P \in Parties, game.party[p] = NoParty, game.leader[P] = NoPlayer,
             game' = InvitePlayer(NewParty(game, P, p), P, q)
      PROVE  Inv'
  <2> DEFINE k == NewParty(game, P, p)
  <2>1. /\ Sound(k, online) /\ Populated(k, Parties \ {P}) /\ k.leader[P] = p
        /\ \A r \in Players \ {p} : k.party[r] = game.party[r]
    BY <1>1, <1>2, NewPartySound
  <2> HIDE DEF k
  <2>2. k.leader[P] # NoPlayer /\ k.party[q] # P
    BY <1>1, <2>1
  <2>3. Sound(InvitePlayer(k, P, q), online) /\ Populated(InvitePlayer(k, P, q), Parties)
    BY <1>1, <2>1, <2>2, InviteSound
  <2> QED
    BY <1>1, <1>2, <2>3 DEF Inv, k
<1>3. ASSUME NEW P \in Parties, IsLeader(game, P, p), game' = InvitePlayer(game, P, q)
      PROVE  Inv'
  <2>1. game.leader[P] # NoPlayer /\ game.party[q] # P /\ Populated(game, Parties \ {P})
    BY <1>1, <1>3 DEF IsLeader, Populated
  <2>2. Sound(InvitePlayer(game, P, q), online) /\ Populated(InvitePlayer(game, P, q), Parties)
    BY <1>1, <2>1, InviteSound
  <2> QED
    BY <1>1, <1>3, <2>2 DEF Inv
<1> QED
  BY <1>2, <1>3 DEF PlayerInviteToParty

\* playerRevokePartyInvitation and playerJoinParty
LEMMA StepInvited ==
    ASSUME Inv, NEW p \in Players, NEW q \in Players,
           \/ PlayerRevokePartyInvitation(p, q)
           \/ \E fit \in BOOLEAN : PlayerJoinParty(p, q, fit)
    PROVE  Inv'
<1>1. Sound(game, online) /\ Populated(game, Parties)
  BY DEF Inv
<1>2. CASE PlayerRevokePartyInvitation(p, q)
  <2>1. PICK P \in Parties : game.party[p] = P
    BY <1>2 DEF PlayerRevokePartyInvitation, IsInviting
  <2>2. game' = RemoveInvite(game, {P}, q, TRUE) /\ online' = online
    BY <1>2, <2>1 DEF PlayerRevokePartyInvitation
  <2>3. {P} \in SUBSET Parties
    OBVIOUS
  <2>4. LET h == RemoveInvite(game, {P}, q, TRUE) IN Sound(h, online) /\ Populated(h, Parties)
    BY <1>1, <2>3, RevokeSound
  <2> QED
    BY <2>2, <2>4 DEF Inv
<1>3. ASSUME NEW fit \in BOOLEAN, PlayerJoinParty(p, q, fit) PROVE Inv'
  <2>1. PICK P \in Parties : game.party[q] = P /\ p \in game.inviteList[P]
    BY <1>3 DEF PlayerJoinParty, MayJoin, IsInviting
  <2>2. game' = JoinParty(game, P, p, fit) /\ online' = online /\ game.party[p] = NoParty
    BY <1>3, <2>1 DEF PlayerJoinParty, MayJoin
  <2>3. Sound(JoinParty(game, P, p, fit), online) /\ Populated(JoinParty(game, P, p, fit), Parties)
    BY <1>1, <2>1, <2>2, JoinSound
  <2> QED
    BY <2>2, <2>3 DEF Inv
<1> QED
  BY <1>2, <1>3

\* playerPassPartyLeadership
LEMMA StepPass ==
    ASSUME Inv, NEW p \in Players, NEW q \in Players, NEW fit \in BOOLEAN,
           PlayerPassPartyLeadership(p, q, fit)
    PROVE  Inv'
<1> USE PartyAssumption
<1>1. PICK P \in Parties : IsLeader(game, P, p) /\ game.party[q] = P
  BY DEF PlayerPassPartyLeadership
<1>2. /\ game' = PassPartyLeadership(game, P, q, fit) /\ online' = online
      /\ game.leader[P] # NoPlayer /\ game.leader[P] # q
  BY <1>1 DEF PlayerPassPartyLeadership, IsLeader
<1> DEFINE h == PassPartyLeadership(game, P, q, fit)
<1>3. /\ Sound(h, online) /\ h.leader = [game.leader EXCEPT ![P] = q]
      /\ \A Q \in Parties \ {P} : h.memberList[Q] = game.memberList[Q]
      /\ h.inviteList = game.inviteList
      /\ Members(h, P) = (Members(game, P) \ {q}) \cup {game.leader[P]}
  BY <1>1, <1>2, PassSound DEF Inv
<1> HIDE DEF h
<1>4. ASSUME NEW Q \in Parties, h.leader[Q] # NoPlayer PROVE ~Empty(h, Q)
  <2>1. CASE Q = P
    <3>1. h.memberList[P] = <<>> => Members(h, P) = {}
      BY DEF Members, ToSet
    <3> QED
      BY <1>3, <2>1, <3>1 DEF Empty
  <2>2. CASE Q # P
    BY <1>3, <1>4, <2>2 DEF Inv, Sound, States, Populated, Empty
  <2> QED
    BY <2>1, <2>2
<1> QED
  BY <1>2, <1>3, <1>4 DEF Inv, Populated, h

\* playerLeaveParty and playerEnableSharedPartyExperience
LEMMA StepLeave ==
    ASSUME Inv, NEW p \in Players, NEW fit \in BOOLEAN,
           \/ PlayerLeaveParty(p, fit)
           \/ \E b \in BOOLEAN : PlayerEnableSharedPartyExperience(p, b, fit)
    PROVE  Inv'
<1> USE PartyAssumption
<1>1. Sound(game, online) /\ Populated(game, Parties)
  BY DEF Inv
<1>2. CASE PlayerLeaveParty(p, fit)
  <2>1. PICK P \in Parties : game.party[p] = P
    BY <1>1, <1>2 DEF PlayerLeaveParty, Sound, States
  <2>2. game' = LeaveParty(game, P, p, fit) /\ online' = online
    BY <1>2, <2>1 DEF PlayerLeaveParty
  <2>3. LET h == LeaveParty(game, P, p, fit) IN Sound(h, online) /\ Populated(h, Parties)
    BY <1>1, <2>1, LeaveSound
  <2> QED
    BY <2>2, <2>3 DEF Inv
<1>3. ASSUME NEW b \in BOOLEAN, PlayerEnableSharedPartyExperience(p, b, fit) PROVE Inv'
  <2>1. PICK P \in Parties : IsLeader(game, P, p) /\ game' = SetSharedExperience(game, P, b, fit)
    BY <1>3 DEF PlayerEnableSharedPartyExperience
  <2>2. online' = online /\ game.leader[P] # NoPlayer
    BY <1>3, <2>1 DEF PlayerEnableSharedPartyExperience, IsLeader
  <2>3. LET h == SetSharedExperience(game, P, b, fit) IN Sound(h, online) /\ Populated(h, Parties)
    BY <1>1, <2>2, SetSound
  <2> QED
    BY <2>1, <2>2, <2>3 DEF Inv
<1> QED
  BY <1>2, <1>3

\* What players do while they fight, heal, rest and move
LEMMA StepTicks ==
    ASSUME Inv, NEW p \in Players, NEW fit \in BOOLEAN,
           \/ OnAttackedCreatureDrainHealth(p, fit)
           \/ OnIdleStatus(p, fit)
           \/ OnMoveOrLevel(p, fit)
           \/ \E q \in Players, summon \in BOOLEAN : OnTargetCreatureGainHealth(p, q, summon, fit)
    PROVE  Inv'
<1>1. Sound(game, online) /\ Populated(game, Parties) /\ game \in States /\ online' = online
  BY DEF Inv, Sound, OnAttackedCreatureDrainHealth, OnIdleStatus, OnMoveOrLevel,
         OnTargetCreatureGainHealth
<1>2. PICK P \in Parties : game.party[p] = P
  BY <1>1 DEF States, OnAttackedCreatureDrainHealth, OnIdleStatus, OnMoveOrLevel,
              OnTargetCreatureGainHealth, IsPartner
<1>3. Shares(game, P)
  BY <1>1 DEF Sound
<1>4. game' = game \/ Reshared(game, game', P)
  <2>1. game' \in {game, UpdatePlayerTicks(game, P, p, fit), ClearPlayerPoints(game, P, p, fit),
                   UpdateSharedExperience(game, P, fit)}
    BY <1>2 DEF OnAttackedCreatureDrainHealth, OnIdleStatus, OnMoveOrLevel, OnTargetCreatureGainHealth
  <2>2. /\ Reshared(game, UpdatePlayerTicks(game, P, p, fit), P)
        /\ Reshared(game, ClearPlayerPoints(game, P, p, fit), P)
        /\ Reshared(game, UpdateSharedExperience(game, P, fit), P)
    BY <1>1, <1>3, TicksReshare, UpdateReshares
  <2> QED
    BY <2>1, <2>2
<1>5. ASSUME Reshared(game, game', P) PROVE Sound(game', online) /\ Populated(game', Parties)
  <2>1. Sound(game', online) /\ \A Q \in Parties : Empty(game', Q) = Empty(game, Q)
    BY <1>1, <1>5, ResharedSound DEF Sound
  <2> QED
    BY <1>1, <1>5, <2>1 DEF Populated, Reshared
<1> QED
  BY <1>1, <1>4, <1>5 DEF Inv

-----------------------------------------------------------------------------
(* The theorems *)

\* Nobody is in the game, and no party is allocated.
LEMMA Initially == Init => Inv
<1> USE PartyAssumption
<1> SUFFICES ASSUME Init PROVE Inv
  OBVIOUS
<1>1. game \in States
  <2>1. <<>> \in Seq(Players)
    OBVIOUS
  <2> QED
    BY <2>1 DEF Init, States
<1>2. ASSUME NEW P \in Parties PROVE Agrees(game, online, P) /\ Shares(game, P)
  <2>1. /\ game.leader[P] = NoPlayer /\ game.memberList[P] = <<>> /\ game.inviteList[P] = {}
        /\ game.active[P] = FALSE
        /\ \A p \in Players : game.party[p] = NoParty /\ game.invitations[p] = {}
    BY DEF Init
  <2>2. Members(game, P) = {} /\ IsInjective(game.memberList[P])
    BY <2>1 DEF Members, ToSet, IsInjective
  <2> QED
    BY <2>1, <2>2 DEF Agrees, Shares
<1>3. Populated(game, Parties) /\ online \subseteq Players
  BY DEF Init, Populated
<1> QED
  BY <1>1, <1>2, <1>3 DEF Inv, Sound

\* Inv holds in every state.
THEOREM Inductive == Spec => []Inv
<1>1. Inv /\ [Next]_vars => Inv'
  <2> SUFFICES ASSUME Inv, [Next]_vars PROVE Inv'
    OBVIOUS
  <2>1. ASSUME NEW p \in Players, Login(p) \/ \E fit \in BOOLEAN : Logout(p, fit) PROVE Inv'
    BY <2>1, StepOnline
  <2>2. ASSUME NEW p \in Players, NEW fit \in BOOLEAN,
               \/ PlayerLeaveParty(p, fit)
               \/ \E b \in BOOLEAN : PlayerEnableSharedPartyExperience(p, b, fit)
        PROVE  Inv'
    BY <2>2, StepLeave
  <2>3. ASSUME NEW p \in Players, NEW fit \in BOOLEAN,
               \/ OnAttackedCreatureDrainHealth(p, fit)
               \/ OnIdleStatus(p, fit)
               \/ OnMoveOrLevel(p, fit)
               \/ \E q \in Players, summon \in BOOLEAN : OnTargetCreatureGainHealth(p, q, summon, fit)
        PROVE  Inv'
    BY <2>3, StepTicks
  <2>4. ASSUME NEW p \in Players, NEW q \in Players, PlayerInviteToParty(p, q) PROVE Inv'
    BY <2>4, StepInvite
  <2>5. ASSUME NEW p \in Players, NEW q \in Players,
               \/ PlayerRevokePartyInvitation(p, q)
               \/ \E fit \in BOOLEAN : PlayerJoinParty(p, q, fit)
        PROVE  Inv'
    BY <2>5, StepInvited
  <2>6. ASSUME NEW p \in Players, NEW q \in Players, NEW fit \in BOOLEAN,
               PlayerPassPartyLeadership(p, q, fit)
        PROVE  Inv'
    BY <2>6, StepPass
  <2>7. CASE UNCHANGED vars
    BY <2>7 DEF vars, Inv, Sound, Populated
  <2> QED
    BY <2>1, <2>2, <2>3, <2>4, <2>5, <2>6, <2>7 DEF Next
<1> QED
  BY Initially, <1>1, PTL DEF Spec

\* The fields of players and parties keep their types, and a member list holds nobody twice and not
\* the leader, through every passing of the leadership.
THEOREM TypeCorrect == Spec => []TypeOK
<1>1. Inv => TypeOK
  BY DEF Inv, Sound, Agrees, TypeOK
<1> QED
  BY <1>1, Inductive, PTL

\* Player::party and the lists of the parties agree, everybody in a party is in the game, and no
\* party is left empty.
THEOREM MembershipHolds == Spec => []MembershipAgrees
<1>1. ASSUME Inv PROVE MembershipAgrees
  <2>1. game \in States /\ \A P \in Parties : Agrees(game, online, P)
    BY <1>1 DEF Inv, Sound
  <2>2. ASSUME NEW P \in Allocated
        PROVE  Members(game, P) \cup {game.leader[P]} \subseteq online /\ ~Empty(game, P)
    <3>1. P \in Parties /\ game.leader[P] # NoPlayer
      BY DEF Allocated
    <3>2. game.leader[P] \in Players /\ game.memberList[P] \in Seq(Players)
      BY <2>1, <3>1 DEF States
    <3>3. Members(game, P) \subseteq Players
      BY <3>2 DEF Members, ToSet
    <3>4. \A p \in Members(game, P) \cup {game.leader[P]} : p \in Players /\ game.party[p] = P
      BY <2>1, <3>1, <3>2, <3>3 DEF Agrees
    <3>5. Members(game, P) \cup {game.leader[P]} \subseteq online
      BY <2>1, <3>1, <3>4 DEF Agrees
    <3> QED
      BY <1>1, <3>1, <3>5 DEF Inv, Populated
  <2> QED
    BY <2>1, <2>2 DEF MembershipAgrees, Agrees
<1> QED
  BY <1>1, Inductive, PTL

\* The invitations that players and parties remember are the same, and none outlives the player's or
\* the party's presence.
THEOREM InvitationsHold == Spec => []InvitationsAgree
<1>1. Inv => InvitationsAgree
  BY DEF Inv, Sound, Agrees, InvitationsAgree
<1> QED
  BY <1>1, Inductive, PTL

\* Shared experience is enabled only while everybody in the party takes part.
THEOREM SharingHolds == Spec => []SharingNeedsEverybody
<1>1. Inv => SharingNeedsEverybody
  BY DEF Inv, Sound, Shares, SharingNeedsEverybody
<1> QED
  BY <1>1, Inductive, PTL
=============================================================================
