---------------------------- MODULE DeliveryProofs ----------------------------
(***************************************************************************)
(* What a client makes of a queue of messages, and what each step of the   *)
(* server adds to the queues: lemmas that RosterProofs rests on.           *)
(*                                                                         *)
(* Told folds a queue with Shown.  A message that is queued is the last to *)
(* arrive (ToldLast), the head of the queue the first (ToldFirst): a write *)
(* and its delivery leave what the client will show as it is.  RosterKinds *)
(* sorts the steps of RosterNext by what they put on somebody's way.       *)
(***************************************************************************)
EXTENDS SignalingProofs, Roster, WellFoundedInduction

------------------------------------------------------------------------------
(* Lists of peers under a queue of messages.                               *)

LEMMA Least ==
  ASSUME NEW T \in SUBSET Nat, T # {}
  PROVE  \E n \in T : \A k \in T : n <= k
<1> DEFINE R == OpToRel(<, Nat)
<1>1. IsWellFoundedOn(R, Nat)
  BY NatLessThanWellFounded
<1>2. \A k, n \in Nat : k < n => <<k, n>> \in R
  BY DEF OpToRel
<1> HIDE DEF R
<1>3. PICK n \in T : \A k \in T : ~ (<<k, n>> \in R)
  BY <1>1, WFMin
<1>4. \A k \in T : n \in Nat /\ k \in Nat /\ ~(k < n)
  BY <1>2, <1>3
<1> QED
  BY <1>3, <1>4

(* f[n] is what is shown when n messages of q have arrived. *)
Follows(f, peers, q) ==
  f = [n \in 0 .. Len(q) |-> IF n = 0 THEN peers ELSE Shown(f[n - 1], q[n])]

LEMMA FollowsUnique ==
  ASSUME NEW peers, NEW q, Len(q) \in Nat,
         NEW f, Follows(f, peers, q), NEW g, Follows(g, peers, q)
  PROVE  f = g
<1> DEFINE Differ == {n \in 0 .. Len(q) : f[n] # g[n]}
<1>1. Differ = {}
  <2>1. SUFFICES ASSUME Differ # {} PROVE FALSE
    OBVIOUS
  <2>2. PICK n \in Differ : \A k \in Differ : n <= k
    <3>1. Differ \in SUBSET Nat
      OBVIOUS
    <3> HIDE DEF Differ
    <3> QED
      BY <2>1, <3>1, Least
  <2>3. CASE n = 0
    BY <2>2, <2>3 DEF Follows
  <2>4. CASE n # 0
    <3>1. n - 1 \in 0 .. Len(q) /\ n - 1 < n /\ n \in 0 .. Len(q)
      BY <2>4
    <3>2. f[n - 1] = g[n - 1]
      BY <2>2, <3>1
    <3>3. f[n] = Shown(f[n - 1], q[n]) /\ g[n] = Shown(g[n - 1], q[n])
      BY <2>4, <3>1 DEF Follows
    <3> QED
      BY <2>2, <3>2, <3>3
  <2> QED
    BY <2>3, <2>4
<1>2. f = [n \in 0 .. Len(q) |-> f[n]] /\ g = [n \in 0 .. Len(q) |-> g[n]]
  BY DEF Follows
<1>3. \A n \in 0 .. Len(q) : f[n] = g[n]
  BY <1>1
<1> HIDE DEF Differ
<1> QED
  BY <1>2, <1>3

LEMMA FollowsExists ==
  ASSUME NEW peers, NEW q, Len(q) \in Nat
  PROVE  \E f : Follows(f, peers, q)
<1> DEFINE Upto(n, f) == f = [k \in 0 .. n |-> IF k = 0 THEN peers ELSE Shown(f[k - 1], q[k])]
           Stuck == {n \in 0 .. Len(q) : ~ \E f : Upto(n, f)}
<1>1. SUFFICES ASSUME Stuck # {} PROVE FALSE
  BY DEF Follows
<1>2. PICK n \in Stuck : \A k \in Stuck : n <= k
  <2>1. Stuck \in SUBSET Nat
    OBVIOUS
  <2> HIDE DEF Stuck
  <2> QED
    BY <1>1, <2>1, Least
<1>3. CASE n = 0
  <2>1. Upto(0, [k \in 0 .. 0 |-> peers])
    OBVIOUS
  <2> QED
    BY <1>2, <1>3, <2>1
<1>4. CASE n # 0
  <2>1. n \in Nat /\ n - 1 \in 0 .. Len(q) /\ ~(n <= n - 1)
    BY <1>2, <1>4
  <2>2. PICK f : Upto(n - 1, f)
    BY <1>2, <2>1
  <2> DEFINE g == [k \in 0 .. n |-> IF k = n THEN Shown(f[n - 1], q[n]) ELSE f[k]]
  <2>3. \A k \in 0 .. n : g[k] = IF k = 0 THEN peers ELSE Shown(g[k - 1], q[k])
    <3>1. SUFFICES ASSUME NEW k \in 0 .. n
                   PROVE  g[k] = IF k = 0 THEN peers ELSE Shown(g[k - 1], q[k])
      OBVIOUS
    <3>2. CASE k = n
      <4>1. g[k] = Shown(f[n - 1], q[n]) /\ k # 0
        BY <1>4, <3>2
      <4>2. g[n - 1] = f[n - 1]
        BY <2>1
      <4> QED
        BY <3>2, <4>1, <4>2
    <3>3. CASE k # n
      <4>1. k \in 0 .. (n - 1) /\ g[k] = f[k]
        BY <2>1, <3>3
      <4>2. k # 0 => k - 1 \in 0 .. n /\ k - 1 # n
        BY <2>1, <4>1
      <4>3. k # 0 => g[k - 1] = f[k - 1]
        BY <4>2
      <4>4. f[k] = IF k = 0 THEN peers ELSE Shown(f[k - 1], q[k])
        BY <2>2, <4>1
      <4> HIDE DEF g
      <4> QED
        BY <4>1, <4>3, <4>4
    <3> QED
      BY <3>2, <3>3
  <2>4. g = [k \in 0 .. n |-> g[k]]
    OBVIOUS
  <2> HIDE DEF g
  <2>5. Upto(n, g)
    BY <2>3, <2>4
  <2> QED
    BY <1>2, <2>5
<1> QED
  BY <1>3, <1>4

LEMMA ToldBy ==
  ASSUME NEW peers, NEW q, Len(q) \in Nat, NEW f, Follows(f, peers, q)
  PROVE  Told(peers, q) = f[Len(q)]
<1> DEFINE h == CHOOSE h : h = [n \in 0 .. Len(q) |-> IF n = 0 THEN peers ELSE Shown(h[n - 1], q[n])]
<1>1. Follows(h, peers, q)
  BY FollowsExists DEF Follows
<1>2. h = f
  BY <1>1, FollowsUnique
<1>3. Told(peers, q) = h[Len(q)]
  BY DEF Told
<1> QED
  BY <1>2, <1>3

LEMMA ToldNothing ==
  ASSUME NEW peers PROVE Told(peers, <<>>) = peers
<1>1. Len(<<>>) = 0 /\ 0 \in 0 .. 0
  OBVIOUS
<1>2. PICK f : Follows(f, peers, <<>>)
  BY <1>1, FollowsExists
<1>3. f[0] = peers
  BY <1>1, <1>2 DEF Follows
<1> QED
  BY <1>1, <1>2, <1>3, ToldBy

(* A message that joins the queue is the last to arrive. *)
LEMMA ToldLast ==
  ASSUME NEW peers, NEW S, NEW q \in Seq(S), NEW m \in S
  PROVE  Told(peers, Append(q, m)) = Shown(Told(peers, q), m)
<1> DEFINE qm == Append(q, m)
<1>1. /\ Len(q) \in Nat /\ Len(qm) = Len(q) + 1 /\ Len(qm) \in Nat
      /\ qm[Len(q) + 1] = m
      /\ \A n \in 1 .. Len(q) : qm[n] = q[n]
  OBVIOUS
<1> HIDE DEF qm
<1>2. PICK f : Follows(f, peers, qm)
  BY <1>1, FollowsExists
<1> DEFINE g == [n \in 0 .. Len(q) |-> f[n]]
<1>3. Follows(g, peers, q)
  <2>1. ASSUME NEW n \in 0 .. Len(q)
        PROVE  g[n] = IF n = 0 THEN peers ELSE Shown(g[n - 1], q[n])
    <3>1. n \in 0 .. Len(qm)
      BY <1>1
    <3>2. f[n] = IF n = 0 THEN peers ELSE Shown(f[n - 1], qm[n])
      BY <1>2, <3>1 DEF Follows
    <3>3. n # 0 => qm[n] = q[n] /\ g[n - 1] = f[n - 1]
      BY <1>1
    <3>4. g[n] = f[n]
      OBVIOUS
    <3> HIDE DEF g
    <3> QED
      BY <3>2, <3>3, <3>4
  <2>2. g = [n \in 0 .. Len(q) |-> g[n]]
    OBVIOUS
  <2> HIDE DEF g
  <2> QED
    BY <2>1, <2>2 DEF Follows
<1>4. Told(peers, q) = f[Len(q)]
  BY <1>1, <1>3, ToldBy
<1>5. f[Len(qm)] = Shown(f[Len(q)], m)
  <2>1. Len(qm) \in 0 .. Len(qm) /\ Len(qm) # 0 /\ Len(qm) - 1 = Len(q)
    BY <1>1
  <2>2. f[Len(qm)] = Shown(f[Len(qm) - 1], qm[Len(qm)])
    BY <1>2, <2>1 DEF Follows
  <2> QED
    BY <1>1, <2>1, <2>2
<1>6. Told(peers, qm) = f[Len(qm)]
  BY <1>1, <1>2, ToldBy
<1> QED
  BY <1>4, <1>5, <1>6 DEF qm

(* The message at the head of the queue is the first to arrive. *)
LEMMA ToldFirst ==
  ASSUME NEW peers, NEW S, NEW q \in Seq(S), NEW m \in S
  PROVE  Told(peers, <<m>> \o q) = Told(Shown(peers, m), q)
<1> DEFINE mq == <<m>> \o q
<1>1. /\ Len(q) \in Nat /\ Len(mq) = Len(q) + 1 /\ Len(mq) \in Nat
      /\ mq[1] = m
      /\ \A n \in 1 .. Len(q) : mq[n + 1] = q[n]
  OBVIOUS
<1> HIDE DEF mq
<1>2. PICK f : Follows(f, peers, mq)
  BY <1>1, FollowsExists
<1> DEFINE g == [n \in 0 .. Len(q) |-> f[n + 1]]
<1>f. \A n \in 0 .. Len(mq) : f[n] = IF n = 0 THEN peers ELSE Shown(f[n - 1], mq[n])
  BY <1>2 DEF Follows
<1>3. Follows(g, Shown(peers, m), q)
  <2>1. ASSUME NEW n \in 0 .. Len(q)
        PROVE  g[n] = IF n = 0 THEN Shown(peers, m) ELSE Shown(g[n - 1], q[n])
    <3>1. n + 1 \in 0 .. Len(mq) /\ n + 1 # 0 /\ (n + 1) - 1 = n
      BY <1>1
    <3>2. f[n + 1] = Shown(f[n], mq[n + 1])
      BY <1>f, <3>1
    <3>3. n # 0 => mq[n + 1] = q[n] /\ g[n - 1] = f[n]
      <4>1. SUFFICES ASSUME n # 0 PROVE mq[n + 1] = q[n] /\ g[n - 1] = f[n]
        OBVIOUS
      <4>2. n - 1 \in 0 .. Len(q) /\ (n - 1) + 1 = n
        BY <4>1
      <4>3. g[n - 1] = f[n]
        BY <4>2
      <4> QED
        BY <1>1, <4>1, <4>3
    <3>4. f[0] = peers /\ mq[1] = m
      BY <1>1, <1>f
    <3>5. g[n] = f[n + 1]
      OBVIOUS
    <3> HIDE DEF g
    <3>6. CASE n = 0
      BY <3>2, <3>4, <3>5, <3>6
    <3>7. CASE n # 0
      BY <3>2, <3>3, <3>5, <3>7
    <3> QED
      BY <3>6, <3>7
  <2>2. g = [n \in 0 .. Len(q) |-> g[n]]
    OBVIOUS
  <2> HIDE DEF g
  <2> QED
    BY <2>1, <2>2 DEF Follows
<1>4. Told(Shown(peers, m), q) = f[Len(mq)]
  <2>1. Told(Shown(peers, m), q) = g[Len(q)]
    BY <1>1, <1>3, ToldBy
  <2> QED
    BY <1>1, <2>1
<1>5. Told(peers, mq) = f[Len(mq)]
  BY <1>1, <1>2, ToldBy
<1> QED
  BY <1>4, <1>5 DEF mq


------------------------------------------------------------------------------
(* One message.                                                            *)

Plain(m) == m.type \notin {"Joined", "PeerJoined", "PeerUpdated", "PeerLeft"}

LEMMA ShownPlain ==
  ASSUME NEW peers, NEW m, Plain(m) PROVE Shown(peers, m) = peers
  BY DEF Plain, Shown

LEMMA ShownPeerUpdated ==
  ASSUME NEW peers, NEW m, m.type = "PeerUpdated"
  PROVE  Shown(peers, m) = [p \in DOMAIN peers |-> IF p = m.peer.pid THEN m.peer.key ELSE peers[p]]
  BY DEF Shown

LEMMA ShownDomains ==
  /\ \A peers, p, k : DOMAIN Shown(peers, PeerJoined([pid |-> p, key |-> k])) = DOMAIN peers \cup {p}
  /\ \A peers, p : DOMAIN Shown(peers, PeerLeft(p)) = DOMAIN peers \ {p}
<1>1. ASSUME NEW peers, NEW p, NEW k
      PROVE  DOMAIN Shown(peers, PeerJoined([pid |-> p, key |-> k])) = DOMAIN peers \cup {p}
  BY DEF Shown, PeerJoined, Listed
<1>2. ASSUME NEW peers, NEW p PROVE DOMAIN Shown(peers, PeerLeft(p)) = DOMAIN peers \ {p}
  BY DEF Shown, PeerLeft, Restrict
<1> QED
  BY <1>1, <1>2

LEMMA JoinedDomain ==
  ASSUME NEW peers, NEW D PROVE DOMAIN Shown(peers, Joined(D)) = {d.pid : d \in D}
  BY DEF Shown, Joined

LEMMA SnapshotDomain ==
  ASSUME NEW peers, NEW p
  PROVE  DOMAIN Shown(peers, Joined(PeersOf(p))) = Members \ {p}
<1>1. DOMAIN Shown(peers, Joined(PeersOf(p))) = {d.pid : d \in PeersOf(p)}
  BY JoinedDomain
<1>2. \A d \in PeersOf(p) : d.pid \in Members \ {p}
  BY DEF PeersOf, Descriptor
<1>3. \A q \in Members \ {p} : Descriptor(q) \in PeersOf(p) /\ Descriptor(q).pid = q
  BY DEF PeersOf, Descriptor
<1>4. {d.pid : d \in PeersOf(p)} = Members \ {p}
  BY <1>2, <1>3
<1> QED
  BY <1>1, <1>4

LEMMA ShownKey ==
  ASSUME NEW peers, NEW q
  PROVE  /\ \A p, k : q \in DOMAIN peers => Shown(peers, PeerJoined([pid |-> p, key |-> k]))[q] = peers[q]
         /\ \A p, k : q \notin DOMAIN peers /\ q = p =>
              Shown(peers, PeerJoined([pid |-> p, key |-> k]))[q] = k
         /\ \A p : q \in DOMAIN peers \ {p} => Shown(peers, PeerLeft(p))[q] = peers[q]
         /\ \A m : m.type = "PeerUpdated" /\ q \in DOMAIN peers =>
              Shown(peers, m)[q] = IF q = m.peer.pid THEN m.peer.key ELSE peers[q]
<1>1. ASSUME NEW p, NEW k, q \in DOMAIN peers
      PROVE  Shown(peers, PeerJoined([pid |-> p, key |-> k]))[q] = peers[q]
  BY <1>1 DEF Shown, PeerJoined, Listed
<1>2. ASSUME NEW p, NEW k, q \notin DOMAIN peers, q = p
      PROVE  Shown(peers, PeerJoined([pid |-> p, key |-> k]))[q] = k
  BY <1>2 DEF Shown, PeerJoined, Listed
<1>3. ASSUME NEW p, q \in DOMAIN peers \ {p}
      PROVE  Shown(peers, PeerLeft(p))[q] = peers[q]
  BY <1>3 DEF Shown, PeerLeft, Restrict
<1>4. ASSUME NEW m, m.type = "PeerUpdated", q \in DOMAIN peers
      PROVE  Shown(peers, m)[q] = IF q = m.peer.pid THEN m.peer.key ELSE peers[q]
  BY <1>4 DEF Shown
<1> QED
  BY <1>1, <1>2, <1>3, <1>4

(* The snapshot has the keys as they are recorded when it is taken.        *)
LEMMA SnapshotKey ==
  ASSUME NEW peers, NEW p, NEW q \in Members \ {p}
  PROVE  Shown(peers, Joined(PeersOf(p)))[q] = pubkey[q]
<1> DEFINE D == PeersOf(p)
<1>1. \A d \in D : d = [pid |-> d.pid, key |-> pubkey[d.pid]]
  BY DEF PeersOf, Descriptor
<1>2. \E d \in D : d.pid = q
  <2>1. Descriptor(q) \in D /\ Descriptor(q).pid = q
    BY DEF PeersOf, Descriptor
  <2> QED
    BY <2>1
<1> HIDE DEF D
<1> DEFINE w == CHOOSE d \in D : d.pid = q
           shown == [x \in {d.pid : d \in D} |-> (CHOOSE d \in D : d.pid = x).key]
<1>3. w \in D /\ w.pid = q
  BY <1>2
<1>4. Shown(peers, Joined(D)) = shown
  BY DEF Shown, Joined
<1>5. q \in {d.pid : d \in D}
  BY <1>2
<1>6. shown[q] = w.key
  BY <1>5
<1> HIDE DEF w, shown
<1>7. w.key = pubkey[q]
  BY <1>1, <1>3
<1> QED
  BY <1>4, <1>6, <1>7 DEF D

------------------------------------------------------------------------------
(* What a client will show, as what it shows once the message in hand has  *)
(* arrived and the queue that is left.                                     *)

Start(c) == IF pc[c] \in {"joining", "sending"} THEN Shown(roster[c], held[c]) ELSE roster[c]

LEMMA ProspectIs == TypeInv => \A c \in Conns : Prospect(c) = Told(Start(c), out[c])
<1> SUFFICES ASSUME TypeInv, NEW c \in Conns PROVE Prospect(c) = Told(Start(c), out[c])
  OBVIOUS
<1>1. out[c] \in Seq(ServerMsg)
  BY DEF TypeInv, TypeOK, QueuesTyped
<1>2. CASE pc[c] \in {"joining", "sending"}
  <2>1. held[c] \in ServerMsg
    BY <1>2 DEF TypeInv, MessageInHand
  <2>2. Told(roster[c], <<held[c]>> \o out[c]) = Told(Shown(roster[c], held[c]), out[c])
    BY <1>1, <2>1, ToldFirst
  <2> QED
    BY <1>2, <2>2 DEF Prospect, Pending, Start
<1>3. CASE pc[c] \notin {"joining", "sending"}
  <2>1. <<>> \o out[c] = out[c]
    BY <1>1
  <2> QED
    BY <1>3, <2>1 DEF Prospect, Pending, Start
<1> QED
  BY <1>2, <1>3

LEMMA ProspectNext == TypeInv' => (\A c \in Conns : Prospect(c) = Told(Start(c), out[c]))'
  BY ProspectIs, PTL

------------------------------------------------------------------------------
(* The steps of the system, by what they mean to the clients' lists.       *)

Deaf == {"leaving", "departing", "sfu_leaving", "closed", "aborted"}

Lists == roster = [c \in Conns |-> roster[c]]

(* What is on its way to d stays as it is. *)
Still(d) == Start(d)' = Start(d) /\ out'[d] = out[d]

(* The head of the queue of d is taken out and is shown, or is in hand. *)
Taken(d) ==
  /\ pc[d] = "looping" /\ out[d] # <<>>
  /\ Start(d)' = Shown(Start(d), Head(out[d]))
  /\ out'[d] = Tail(out[d])

CalmMove(k, l) ==
  \/ k = l
  \/ k = "joining" /\ l = "announcing"
  \/ k = "sfu_joining" /\ l = "looping"
  \/ {k, l} \subseteq Running \ {"updating"}
  \/ k = "sfu_leaving" /\ l = "closed"

(* A step that nobody is told of. *)
Calm(c) ==
  /\ UNCHANGED <<owner, pubkey, listening, lagged>>
  /\ \E l \in PcValues : pc' = [pc EXCEPT ![c] = l] /\ CalmMove(pc[c], l)
  /\ \A d \in Conns : pc[d] = "updating" => held'[d] = held[d]
  /\ Lists'
  /\ \A d \in Conns : roster'[d] \in {roster[d], Start(d)'}
  /\ \A d \in Conns : Still(d) \/ (d = c /\ Taken(d))

Recording(c, k) ==
  /\ pc[c] = "looping"
  /\ pc' = [pc EXCEPT ![c] = "updating"]
  /\ held' = [held EXCEPT ![c] = PeerUpdated([pid |-> PidOf[c], key |-> k])]
  /\ pubkey' = [pubkey EXCEPT ![PidOf[c]] = k]
  /\ UNCHANGED <<owner, listening, out, lagged, roster>>

(* Messages that say nothing of the participants. *)
Chatter(c) ==
  /\ \E S \in SUBSET {owner[p] : p \in Members}, m \in ServerMsg : Plain(m) /\ TrySend(S, m)
  /\ \E l \in {"looping", "offering"} : pc' = [pc EXCEPT ![c] = l]
  /\ pc[c] \in {"looping", "offering"}
  /\ UNCHANGED <<owner, pubkey, listening, held, roster>>

Deafening(c) ==
  /\ DropReceiver(c)
  /\ held' = [held EXCEPT ![c] = NoMsg]
  /\ \/ pc[c] = "joining" /\ pc' = [pc EXCEPT ![c] = "aborted"]
     \/ pc[c] \in Running \ {"updating"} /\ pc' = [pc EXCEPT ![c] = "leaving"]
  /\ UNCHANGED <<owner, pubkey, lagged, roster>>

LEMMA WriteKinds ==
  ASSUME TypeInv, Lists, NEW c \in Conns, WriteStep(c), Delivery(c)
  PROVE  Calm(c)
<1> USE DEF Goto, Hold, PcValues, Running, Lists, Start, Still
<1>0. /\ pc \in [Conns -> PcValues] /\ held \in [Conns -> ServerMsg \cup {NoMsg}]
      /\ out = [d \in Conns |-> out[d]]
  BY DEF TypeInv, TypeOK, QueuesTyped
<1>1. CASE SendJoined(c) \/ FinishSend(c)
  <2>1. /\ roster' = [roster EXCEPT ![c] = Shown(@, held[c])]
        /\ UNCHANGED hubVars
        /\ held' = [held EXCEPT ![c] = NoMsg]
        /\ \/ pc[c] = "joining" /\ pc' = [pc EXCEPT ![c] = "announcing"]
           \/ pc[c] = "sending" /\ pc' = [pc EXCEPT ![c] = "looping"]
    BY <1>1 DEF SendJoined, FinishSend, Delivery, Receive
  <2>2. \A d \in Conns : Still(d) /\ roster'[d] \in {roster[d], Start(d)'}
    BY <1>0, <2>1 DEF hubVars
  <2>3. \E l \in PcValues : pc' = [pc EXCEPT ![c] = l] /\ CalmMove(pc[c], l)
    BY <2>1 DEF CalmMove
  <2>4. \A d \in Conns : pc[d] = "updating" => held'[d] = held[d]
    BY <1>0, <2>1
  <2>5. Lists'
    BY <2>1
  <2> QED
    BY <2>1, <2>2, <2>3, <2>4, <2>5 DEF Calm, hubVars
<1>2. CASE DrainOut(c)
  <2>1. /\ pc[c] = "looping" /\ out[c] # <<>>
        /\ out' = [out EXCEPT ![c] = Tail(@)]
        /\ UNCHANGED <<owner, pubkey, listening, lagged>>
    BY <1>2 DEF DrainOut
  <2>2. CASE link[c] = "stalled"
    <3>1. /\ UNCHANGED roster
          /\ held' = [held EXCEPT ![c] = Head(out[c])]
          /\ pc' = [pc EXCEPT ![c] = "sending"]
      BY <1>2, <2>1, <2>2 DEF DrainOut, Delivery
    <3>2. Taken(c) /\ \A d \in Conns \ {c} : Still(d)
      BY <1>0, <2>1, <3>1 DEF Taken
    <3>3. \E l \in PcValues : pc' = [pc EXCEPT ![c] = l] /\ CalmMove(pc[c], l)
      BY <2>1, <3>1 DEF CalmMove
    <3>4. \A d \in Conns : pc[d] = "updating" => held'[d] = held[d]
      BY <1>0, <2>1, <3>1
    <3>5. Lists' /\ \A d \in Conns : roster'[d] = roster[d]
      BY <3>1
    <3> QED
      BY <2>1, <3>2, <3>3, <3>4, <3>5 DEF Calm
  <2>3. CASE link[c] # "stalled"
    <3>1. /\ roster' = [roster EXCEPT ![c] = Shown(@, Head(out[c]))]
          /\ UNCHANGED <<held, pc>>
      BY <1>2, <2>1, <2>3 DEF DrainOut, Delivery, Receive
    <3>2. Taken(c) /\ (\A d \in Conns \ {c} : Still(d)) /\ roster'[c] = Start(c)'
      BY <1>0, <2>1, <3>1 DEF Taken
    <3>3. pc' = [pc EXCEPT ![c] = "looping"]
      BY <1>0, <2>1, <3>1
    <3> QED
      BY <1>0, <2>1, <3>1, <3>2, <3>3 DEF Calm, CalmMove
  <2> QED
    BY <2>2, <2>3
<1> QED
  BY <1>1, <1>2 DEF WriteStep

LEMMA CalmQuiet ==
  ASSUME TypeInv, Lists, NEW c \in Conns, NEW l \in PcValues,
         UNCHANGED <<owner, pubkey, listening, lagged, out, held, roster>>,
         pc' = [pc EXCEPT ![c] = l], CalmMove(pc[c], l),
         l = pc[c] \/ {pc[c], l} \cap {"joining", "sending"} = {}
  PROVE  Calm(c)
<1>0. pc \in [Conns -> PcValues]
  BY DEF TypeInv, TypeOK
<1>1. \A d \in Conns : Still(d)
  BY <1>0 DEF Still, Start
<1>2. Lists' /\ \A d \in Conns : roster'[d] = roster[d] /\ held'[d] = held[d]
  BY DEF Lists
<1> QED
  BY <1>1, <1>2 DEF Calm

LEMMA ClientKinds ==
  ASSUME TypeInv, Lists, NEW c \in Conns, ClientStep(c), UNCHANGED roster
  PROVE  Calm(c)
<1>1. UNCHANGED <<owner, pubkey, listening, lagged, out, held, pc>>
  BY DEF ClientStep, Disconnect, Stall, Unstall, Silence, hubVars
<1>2. pc' = [pc EXCEPT ![c] = pc[c]] /\ pc[c] \in PcValues
  BY <1>1 DEF TypeInv, TypeOK
<1>3. CalmMove(pc[c], pc[c])
  BY DEF CalmMove
<1> QED
  BY <1>1, <1>2, <1>3, CalmQuiet

LEMMA ExitLoopDeafens ==
  ASSUME NEW c \in Conns, ExitLoop(c), pc[c] \in Running \ {"updating"}, UNCHANGED roster
  PROVE  Deafening(c)
  BY DEF ExitLoop, Deafening, Hold, Goto

LEMMA KickKinds ==
  ASSUME TypeInv, Lists, NEW c \in Conns, Kick(c), pc[c] = "looping", UNCHANGED roster
  PROVE  Calm(c) \/ Deafening(c)
<1>1. CASE link[c] = "stalled"
  <2>1. /\ UNCHANGED <<owner, pubkey, listening, lagged, out, held>>
        /\ pc' = [pc EXCEPT ![c] = "closing"]
    BY <1>1 DEF Kick, Goto, hubVars
  <2>2. "closing" \in PcValues /\ CalmMove(pc[c], "closing")
    BY DEF PcValues, CalmMove, Running
  <2> QED
    BY <2>1, <2>2, CalmQuiet
<1>2. CASE link[c] # "stalled"
  BY <1>2, ExitLoopDeafens DEF Kick, Running
<1> QED
  BY <1>1, <1>2

LEMMA PlainMessages ==
  /\ Plain(Pong) /\ Plain(Answer)
  /\ \A code \in {4400, 4409, 4429} : Plain(ErrorMsg(code))
  /\ \A p \in Pids : Plain(Chat(p))
  BY DEF Plain, Pong, Answer, ErrorMsg, Chat

LEMMA SendToOne ==
  ASSUME NEW p \in Pids, NEW m \in ServerMsg, Plain(m), SendTo(p, m)
  PROVE  \E S \in SUBSET {owner[q] : q \in Members}, x \in ServerMsg : Plain(x) /\ TrySend(S, x)
<1>1. {owner[p]} \ {NoConn} \in SUBSET {owner[q] : q \in Members}
  BY DEF Members
<1> QED
  BY <1>1 DEF SendTo

(* A message to one participant that says nothing of the others. *)
LEMMA OneChatters ==
  ASSUME NEW c \in Conns, pc[c] \in {"looping", "offering"},
         pc' = [pc EXCEPT ![c] = "looping"],
         UNCHANGED <<owner, pubkey, listening, held, roster>>,
         \E p \in Pids, m \in ServerMsg : Plain(m) /\ SendTo(p, m)
  PROVE  Chatter(c)
<1>1. PICK p \in Pids, m \in ServerMsg : Plain(m) /\ SendTo(p, m)
  OBVIOUS
<1>2. \E S \in SUBSET {owner[q] : q \in Members}, x \in ServerMsg : Plain(x) /\ TrySend(S, x)
  BY <1>1, SendToOne
<1> QED
  BY <1>2 DEF Chatter

(* The part of the task that is not a write. *)
LEMMA ServeKinds ==
  ASSUME TypeInv, Lists, NEW c \in Conns, ServeStep(c), UNCHANGED roster
  PROVE  \/ Calm(c) \/ Deafening(c) \/ Chatter(c) \/ \E k \in Keys : Recording(c, k)
         \/ Refuse(c) \/ HubJoin(c) \/ AnnounceJoin(c) \/ BroadcastUpdate(c)
         \/ Leave(c) \/ AnnounceLeft(c)
<1> DEFINE p == PidOf[c]
           Goal == \/ Calm(c) \/ Deafening(c) \/ Chatter(c) \/ \E k \in Keys : Recording(c, k)
                   \/ Refuse(c) \/ HubJoin(c) \/ AnnounceJoin(c) \/ BroadcastUpdate(c)
                   \/ Leave(c) \/ AnnounceLeft(c)
<1>0. /\ pc \in [Conns -> PcValues] /\ held \in [Conns -> ServerMsg \cup {NoMsg}]
      /\ p \in Pids
      /\ pc = [pc EXCEPT ![c] = pc[c]]
  BY ConnAssumption DEF TypeInv, TypeOK
<1>1. CASE SendJoinedFails(c)
  BY <1>1 DEF SendJoinedFails, Deafening, Hold, Goto
<1>2. CASE SfuJoin(c) \/ SfuJoinFails(c)
  <2>1. /\ UNCHANGED <<owner, pubkey, listening, lagged, out, held>>
        /\ pc[c] = "sfu_joining" /\ pc' = [pc EXCEPT ![c] = "looping"]
    BY <1>2 DEF SfuJoin, SfuJoinFails, Goto, hubVars
  <2>2. "looping" \in PcValues /\ CalmMove(pc[c], "looping")
    BY <2>1 DEF PcValues, CalmMove
  <2> QED
    BY <2>1, <2>2, CalmQuiet
<1>3. CASE SfuLeave(c)
  <2>1. /\ UNCHANGED <<owner, pubkey, listening, lagged, out, held>>
        /\ pc[c] = "sfu_leaving" /\ pc' = [pc EXCEPT ![c] = "closed"]
    BY <1>3 DEF SfuLeave, Goto, hubVars
  <2>2. "closed" \in PcValues /\ CalmMove(pc[c], "closed")
    BY <2>1 DEF PcValues, CalmMove
  <2> QED
    BY <2>1, <2>2, CalmQuiet
<1>4. CASE ConnLost(c) \/ CloseWritten(c)
  BY <1>4, ExitLoopDeafens DEF ConnLost, CloseWritten, Running
<1>5. CASE Heartbeat(c) \/ Violation(c)
  BY <1>5, KickKinds DEF Heartbeat, Violation, Inbound
<1>6. CASE WsPing(c) /\ link[c] = "stalled"
  <2>1. /\ UNCHANGED <<owner, pubkey, listening, lagged, out>>
        /\ pc[c] = "looping" /\ pc' = [pc EXCEPT ![c] = "sending"]
        /\ held' = [held EXCEPT ![c] = Pong]
    BY <1>6 DEF WsPing, Inbound, Goto, Hold, hubVars
  <2>2. Shown(roster[c], Pong) = roster[c]
    BY ShownPlain, PlainMessages
  <2>3. \A d \in Conns : Still(d)
    BY <1>0, <2>1, <2>2 DEF Still, Start
  <2>4. "sending" \in PcValues /\ CalmMove(pc[c], "sending")
    BY <2>1 DEF PcValues, CalmMove, Running
  <2>5. Lists' /\ \A d \in Conns : roster'[d] = roster[d]
    BY DEF Lists
  <2>6. \A d \in Conns : pc[d] = "updating" => held'[d] = held[d]
    BY <1>0, <2>1
  <2> QED
    BY <2>1, <2>3, <2>4, <2>5, <2>6 DEF Calm
<1>7. CASE \/ WsPing(c) /\ link[c] # "stalled"
           \/ Media(c)
  <2>1. UNCHANGED <<owner, pubkey, listening, lagged, out, held, pc>>
    BY <1>7 DEF WsPing, Media, hubVars
  <2>2. pc[c] \in PcValues /\ CalmMove(pc[c], pc[c]) /\ pc' = [pc EXCEPT ![c] = pc[c]]
    BY <1>0, <2>1 DEF CalmMove
  <2> QED
    BY <2>1, <2>2, CalmQuiet
<1>8. CASE Ping(c) \/ ChatDenied(c) \/ \E to \in Pids : ChatTo(c, to)
  <2>1. /\ UNCHANGED <<owner, pubkey, listening, held, roster, pc>>
        /\ pc[c] = "looping"
    BY <1>8 DEF Ping, ChatDenied, ChatTo, Inbound
  <2>2. pc' = [pc EXCEPT ![c] = "looping"]
    BY <1>0, <2>1
  <2>3. \E x \in Pids, m \in {Pong, ErrorMsg(4429), Chat(p)} : SendTo(x, m)
    BY <1>0, <1>8 DEF Ping, ChatDenied, ChatTo
  <2>4. \A m \in {Pong, ErrorMsg(4429), Chat(p)} : m \in ServerMsg /\ Plain(m)
    BY <1>0, Messages, PlainMessages
  <2>5. \E x \in Pids, m \in ServerMsg : Plain(m) /\ SendTo(x, m)
    BY <2>3, <2>4
  <2> HIDE DEF Goal
  <2>6. Chatter(c)
    BY <2>1, <2>2, <2>5, OneChatters
  <2> QED
    BY <2>6 DEF Goal
<1>9. CASE ChatAll(c)
  <2>1. /\ UNCHANGED <<owner, pubkey, listening, held, roster, pc>>
        /\ pc[c] = "looping"
    BY <1>9 DEF ChatAll, Inbound
  <2>2. pc' = [pc EXCEPT ![c] = "looping"]
    BY <1>0, <2>1
  <2>3. TrySend({owner[q] : q \in Members \ {p}}, Chat(p))
    BY <1>9 DEF ChatAll, Broadcast
  <2>4. /\ Chat(p) \in ServerMsg /\ Plain(Chat(p))
        /\ {owner[q] : q \in Members \ {p}} \in SUBSET {owner[q] : q \in Members}
    BY <1>0, Messages, PlainMessages
  <2> QED
    BY <2>1, <2>2, <2>3, <2>4 DEF Chatter
<1>10. ASSUME NEW k \in Keys, Announce(c, k) PROVE Goal
  <2>1. /\ UNCHANGED <<owner, listening, out, lagged>>
        /\ pc[c] = "looping"
    BY <1>10 DEF Announce, Inbound
  <2>2. CASE SetPubkey(p, k) /\ Hold(c, PeerUpdated([pid |-> p, key |-> k])) /\ Goto(c, "updating")
    BY <2>1, <2>2 DEF Recording, SetPubkey, Hold, Goto
  <2>3. CASE UNCHANGED <<pubkey, held, pc>>
    <3>1. pc[c] \in PcValues /\ CalmMove(pc[c], pc[c]) /\ pc' = [pc EXCEPT ![c] = pc[c]]
      BY <1>0, <2>3 DEF CalmMove
    <3> QED
      BY <2>1, <2>3, <3>1, CalmQuiet
  <2> QED
    BY <1>10, <2>2, <2>3 DEF Announce
<1>11. CASE Offer(c) /\ p \in Admitted
  <2>1. /\ UNCHANGED <<owner, pubkey, listening, lagged, out, held>>
        /\ pc[c] = "looping" /\ pc' = [pc EXCEPT ![c] = "offering"]
    BY <1>11 DEF Offer, Inbound, Goto
  <2>2. "offering" \in PcValues /\ CalmMove(pc[c], "offering")
    BY <2>1 DEF PcValues, CalmMove, Running
  <2> QED
    BY <2>1, <2>2, CalmQuiet
<1>12. CASE Offer(c) /\ p \notin Admitted
  <2>1. /\ UNCHANGED <<owner, pubkey, listening, held, roster, pc>>
        /\ pc[c] = "looping"
    BY <1>12 DEF Offer, Inbound
  <2>2. pc' = [pc EXCEPT ![c] = "looping"]
    BY <1>0, <2>1
  <2>3. ErrorMsg(4400) \in ServerMsg /\ Plain(ErrorMsg(4400))
    BY Messages, PlainMessages
  <2>4. \E x \in Pids, m \in ServerMsg : Plain(m) /\ SendTo(x, m)
    BY <1>0, <1>12, <2>3 DEF Offer
  <2> HIDE DEF Goal
  <2>5. Chatter(c)
    BY <2>1, <2>2, <2>4, OneChatters
  <2> QED
    BY <2>5 DEF Goal
<1>13. CASE OfferAnswered(c)
  <2>1. /\ UNCHANGED <<owner, pubkey, listening, held, roster>>
        /\ pc[c] = "offering" /\ pc' = [pc EXCEPT ![c] = "looping"]
    BY <1>13 DEF OfferAnswered, Goto
  <2>2. \E m \in {Answer, ErrorMsg(4400)} : SendTo(p, m)
    BY <1>13 DEF OfferAnswered
  <2>3. \A m \in {Answer, ErrorMsg(4400)} : m \in ServerMsg /\ Plain(m)
    BY Messages, PlainMessages
  <2>4. \E x \in Pids, m \in ServerMsg : Plain(m) /\ SendTo(x, m)
    BY <1>0, <2>2, <2>3
  <2> HIDE DEF Goal
  <2>5. Chatter(c)
    BY <2>1, <2>4, OneChatters
  <2> QED
    BY <2>5 DEF Goal
<1> QED
  BY <1>1, <1>2, <1>3, <1>4, <1>5, <1>6, <1>7, <1>8, <1>9, <1>10, <1>11, <1>12, <1>13
     DEF ServeStep, ClientFrame


(* Every step of the system and its clients is one of these. *)
LEMMA RosterKinds ==
  ASSUME TypeInv, Lists, NEW P, [RosterNext]_rosterVars,
         ASSUME NEW c \in Conns, Calm(c) PROVE P,
         ASSUME NEW c \in Conns, Chatter(c) PROVE P,
         ASSUME NEW c \in Conns, Deafening(c) PROVE P,
         ASSUME NEW c \in Conns, Refuse(c), UNCHANGED roster PROVE P,
         ASSUME NEW c \in Conns, HubJoin(c), UNCHANGED roster PROVE P,
         ASSUME NEW c \in Conns, AnnounceJoin(c), UNCHANGED roster PROVE P,
         ASSUME NEW c \in Conns, NEW k \in Keys, Recording(c, k) PROVE P,
         ASSUME NEW c \in Conns, BroadcastUpdate(c), UNCHANGED roster PROVE P,
         ASSUME NEW c \in Conns, Leave(c), UNCHANGED roster PROVE P,
         ASSUME NEW c \in Conns, AnnounceLeft(c), UNCHANGED roster PROVE P,
         ASSUME UNCHANGED rosterVars PROVE P
  PROVE  P
<1>1. ASSUME NEW c \in Conns, WriteStep(c), Delivery(c) PROVE P
  BY <1>1, WriteKinds
<1>2. ASSUME NEW c \in Conns, ServeStep(c), UNCHANGED roster PROVE P
  BY <1>2, ServeKinds
<1>3. ASSUME NEW c \in Conns, ClientStep(c), UNCHANGED roster PROVE P
  BY <1>3, ClientKinds
<1>4. ASSUME Idle, UNCHANGED roster PROVE P
  BY <1>4 DEF Idle, rosterVars
<1> QED
  BY <1>1, <1>2, <1>3, <1>4 DEF RosterNext

LEMMA RosterSteps == [RosterNext]_rosterVars => [Next]_vars
  BY DEF RosterNext, rosterVars, Next, TaskStep

------------------------------------------------------------------------------
(* What is on its way, after a message was sent and after the queue of a   *)
(* connection was dropped.                                                 *)

LEMMA ProspectCalm ==
  ASSUME TypeInv, TypeInv', NEW c \in Conns, Calm(c)
  PROVE  \A d \in Conns : Prospect(d)' = Prospect(d)
<1> SUFFICES ASSUME NEW d \in Conns PROVE Prospect(d)' = Prospect(d)
  OBVIOUS
<1>1. Prospect(d) = Told(Start(d), out[d])
  BY ProspectIs
<1>2. Prospect(d)' = Told(Start(d)', out'[d])
  BY ProspectNext
<1>3. CASE Still(d)
  BY <1>1, <1>2, <1>3 DEF Still
<1>4. CASE Taken(d)
  <2>1. out[d] \in Seq(ServerMsg) /\ out[d] # <<>>
    BY <1>4 DEF Taken, TypeInv, TypeOK, QueuesTyped
  <2>2. /\ Head(out[d]) \in ServerMsg /\ Tail(out[d]) \in Seq(ServerMsg)
        /\ <<Head(out[d])>> \o Tail(out[d]) = out[d]
    BY <2>1
  <2>3. Told(Start(d), out[d]) = Told(Shown(Start(d), Head(out[d])), Tail(out[d]))
    BY <2>2, ToldFirst
  <2> QED
    BY <1>1, <1>2, <1>4, <2>3 DEF Taken
<1> QED
  BY <1>3, <1>4 DEF Calm

LEMMA ProspectSent ==
  ASSUME TypeInv, TypeInv', NEW S, NEW m \in ServerMsg, TrySend(S, m),
         \A d \in Conns : Start(d)' = Start(d)
  PROVE  \A d \in Conns :
           Prospect(d)' = IF d \in S /\ HasRoom(d) THEN Shown(Prospect(d), m) ELSE Prospect(d)
<1> SUFFICES ASSUME NEW d \in Conns
             PROVE  Prospect(d)' = IF d \in S /\ HasRoom(d)
                                     THEN Shown(Prospect(d), m) ELSE Prospect(d)
  OBVIOUS
<1>1. Prospect(d) = Told(Start(d), out[d])
  BY ProspectIs
<1>2. Prospect(d)' = Told(Start(d), out'[d])
  BY ProspectNext
<1>3. CASE d \in S /\ HasRoom(d)
  <2>1. out[d] \in Seq(ServerMsg) /\ out'[d] = Append(out[d], m)
    BY <1>3 DEF TrySend, TypeInv, TypeOK, QueuesTyped
  <2>2. Told(Start(d), Append(out[d], m)) = Shown(Told(Start(d), out[d]), m)
    BY <2>1, ToldLast
  <2> QED
    BY <1>1, <1>2, <1>3, <2>1, <2>2
<1>4. CASE ~(d \in S /\ HasRoom(d))
  <2>1. out'[d] = out[d]
    BY <1>4 DEF TrySend
  <2> QED
    BY <1>1, <1>2, <1>4, <2>1
<1> QED
  BY <1>3, <1>4

LEMMA ProspectStill ==
  ASSUME TypeInv, TypeInv', NEW d \in Conns, Still(d)
  PROVE  Prospect(d)' = Prospect(d)
  BY ProspectIs, ProspectNext DEF Still

------------------------------------------------------------------------------
(* What is sent, and to whom.                                              *)

(* m is put on the queues of S, and nothing else happens to what is on its *)
(* way to anyone.                                                          *)
Posts(S, m) ==
  /\ S \in SUBSET {owner[p] : p \in Members} /\ m \in ServerMsg
  /\ TrySend(S, m)
  /\ UNCHANGED roster /\ \A d \in Conns : Start(d)' = Start(d)

AllBut(p) == {owner[q] : q \in Members \ {p}}

LEMMA AllButOwners == \A p : AllBut(p) \in SUBSET {owner[q] : q \in Members}
  BY DEF AllBut

LEMMA ChatterPosts ==
  ASSUME TypeInv, NEW c \in Conns, Chatter(c)
  PROVE  \E S, m : Plain(m) /\ Posts(S, m)
<1>1. \A d \in Conns : Start(d)' = Start(d)
  BY Typed DEF Chatter, Start
<1>2. PICK S \in SUBSET {owner[p] : p \in Members}, m \in ServerMsg : Plain(m) /\ TrySend(S, m)
  BY DEF Chatter
<1>3. UNCHANGED roster
  BY DEF Chatter
<1> QED
  BY <1>1, <1>2, <1>3 DEF Posts

LEMMA AnnounceJoinPosts ==
  ASSUME TypeInv, NEW c \in Conns, AnnounceJoin(c), UNCHANGED roster
  PROVE  Posts(AllBut(PidOf[c]), PeerJoined([pid |-> PidOf[c], key |-> NoKey]))
<1>1. \A d \in Conns : Start(d)' = Start(d)
  BY Typed DEF AnnounceJoin, Goto, Start
<1>2. PeerJoined([pid |-> PidOf[c], key |-> NoKey]) \in ServerMsg
  BY Typed, DescriptorOK, Messages DEF TypeInv, TypeOK
<1>3. TrySend(AllBut(PidOf[c]), PeerJoined([pid |-> PidOf[c], key |-> NoKey]))
  BY DEF AnnounceJoin, Broadcast, AllBut
<1> QED
  BY <1>1, <1>2, <1>3, AllButOwners DEF Posts

LEMMA AnnounceLeftPosts ==
  ASSUME TypeInv, NEW c \in Conns, AnnounceLeft(c), UNCHANGED roster
  PROVE  Posts(AllBut(PidOf[c]), PeerLeft(PidOf[c]))
<1>1. \A d \in Conns : Start(d)' = Start(d)
  BY Typed DEF AnnounceLeft, Goto, Start
<1>2. PeerLeft(PidOf[c]) \in ServerMsg
  BY Typed, Messages
<1>3. TrySend(AllBut(PidOf[c]), PeerLeft(PidOf[c]))
  BY DEF AnnounceLeft, Broadcast, AllBut
<1> QED
  BY <1>1, <1>2, <1>3, AllButOwners DEF Posts

LEMMA UpdatePosts ==
  ASSUME TypeInv, NEW c \in Conns, BroadcastUpdate(c), UNCHANGED roster
  PROVE  Posts(AllBut(NoPid), held[c])
<1>1. \A d \in Conns : Start(d)' = Start(d)
  BY Typed DEF BroadcastUpdate, Goto, Hold, Start
<1>2. held[c] \in ServerMsg
  BY DEF BroadcastUpdate, TypeInv, MessageInHand
<1>3. TrySend(AllBut(NoPid), held[c])
  BY DEF BroadcastUpdate, Broadcast, AllBut
<1> QED
  BY <1>1, <1>2, <1>3, AllButOwners DEF Posts

(* The connection a newcomer replaces is told so; what the newcomer finds  *)
(* is the first thing it is told.                                          *)
LEMMA HubJoinSends ==
  ASSUME TypeInv, NEW c \in Conns, HubJoin(c), UNCHANGED roster
  PROVE  /\ \A d \in Conns \ {c} : Start(d)' = Start(d)
         /\ Start(c)' = Shown(roster[c], Joined(PeersOf(PidOf[c])))
         /\ \E S \in SUBSET {owner[q] : q \in Members}, m \in ServerMsg :
              Plain(m) /\ TrySend(S, m) /\ \A d \in S : d = owner[PidOf[c]]
<1>1. \A d \in Conns \ {c} : Start(d)' = Start(d)
  BY Typed DEF HubJoin, Goto, Hold, Start
<1>2. Start(c)' = Shown(roster[c], Joined(PeersOf(PidOf[c])))
  BY Typed DEF HubJoin, Goto, Hold, Start
<1>3. {owner[PidOf[c]]} \ {NoConn} \in SUBSET {owner[q] : q \in Members}
  BY Typed DEF Members
<1>4. \E m \in ServerMsg : Plain(m) /\ TrySend({owner[PidOf[c]]} \ {NoConn}, m)
  BY Messages, PlainMessages DEF HubJoin, SendTo
<1> QED
  BY <1>1, <1>2, <1>3, <1>4

(* What is sent is queued only for connections that are registered.        *)
LEMMA SentToRegistered ==
  ASSUME TypeInv, HubServed, NEW S \in SUBSET {owner[p] : p \in Members}, NEW m, TrySend(S, m)
  PROVE  \A d \in Conns : out'[d] # out[d] =>
           owner[PidOf[d]] = d /\ pc[d] \in Registered \cup {"aborted"}
<1> SUFFICES ASSUME NEW d \in Conns, out'[d] # out[d]
             PROVE  owner[PidOf[d]] = d /\ pc[d] \in Registered \cup {"aborted"}
  OBVIOUS
<1>1. d \in S
  BY DEF TrySend
<1>2. PICK p \in Members : d = owner[p]
  BY <1>1
<1>3. p \in Pids /\ owner[p] # NoConn
  BY <1>2 DEF Members
<1> QED
  BY <1>2, <1>3 DEF HubServed

==============================================================================
