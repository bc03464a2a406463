-------------------------- MODULE AttestationProof --------------------------
(***************************************************************************)
(* Proofs about the attestation exchange, for any number of clients and    *)
(* devices and a network that loses, delays, reorders and duplicates.      *)
(***************************************************************************)
EXTENDS Attestation, TLAPS

-----------------------------------------------------------------------------
(* The inductive invariant.                                                 *)

Sent(c) == pc[c] \notin {"idle", "open"}

IsChallenge(m) == m.from = Host /\ m.to = Target[m.run] /\ m.by = <<>>

IsAnswer(m) == m.from = Target[m.run] /\ m.to = Host /\ m.by = <<Target[m.run]>>

\* A packet belongs to a run that has sent it, carries its nonce, and was computed
\* on since; one that no promiscuous device has answered is a challenge or its answer.
Genuine(m) ==
    /\ Sent(m.run) /\ m.nonce = nonce[m.run] /\ m.took + sent[m.run] <= now
    /\ ~m.stray => IsChallenge(m) \/ IsAnswer(m)

NetInv == \A m \in net : Genuine(m)

DevInv ==
    \A d \in Devices : dev[d] # Idle =>
        /\ dev[d].packet \in Packets /\ Genuine(dev[d].packet)
        /\ sent[dev[d].packet.run] <= dev[d].since /\ dev[d].since <= now

SockInv ==
    \A c \in Clients : \A k \in DOMAIN sock[c] : Genuine(sock[c][k]) /\ sock[c][k].to = Host

\* A client that waits and has met no packet of another run will not meet one.
MixedInv ==
    \A c \in Clients : pc[c] = "waiting" /\ c \notin mixed => About(c) \subseteq {c, None}

IInv ==
    /\ TypeOK /\ NetInv /\ DevInv /\ SockInv /\ MixedInv
    /\ ResultIsTheAnswer /\ VerdictHonest /\ NotInVain

-----------------------------------------------------------------------------
(* Facts about packets.                                                     *)

\* A challenge is a packet.
LEMMA PacketFacts ==
    ASSUME NEW n \in Nat, NEW c \in Clients
    PROVE  LET p == Packet(n, Target[c], c)
           IN  /\ p \in Packets /\ p.run = c /\ p.nonce = n /\ p.took = 0 /\ p.by = <<>>
               /\ p.from = Host /\ p.to = Target[c]
  <1>1. Target[c] \in Devices
    BY AttestationAssumption
  <1> QED BY <1>1 DEF Packet, Packets

\* What a socket holds after one more packet.
LEMMA AppendFacts ==
    ASSUME NEW s \in Seq(Packets), NEW m \in Packets
    PROVE  LET t == Append(s, m)
           IN  /\ \A k \in DOMAIN t : t[k] = m \/ (k \in DOMAIN s /\ t[k] = s[k])
               /\ \A k \in DOMAIN s : k \in DOMAIN t /\ t[k] = s[k]
               /\ \E k \in DOMAIN t : t[k] = m
  <1> DEFINE t == Append(s, m)
  <1>1. ASSUME NEW k \in DOMAIN t PROVE t[k] = m \/ (k \in DOMAIN s /\ t[k] = s[k])
    <2>1. CASE k = Len(s) + 1
      BY <2>1
    <2>2. CASE k # Len(s) + 1
      BY <2>2
    <2> QED BY <2>1, <2>2
  <1>2. \A k \in DOMAIN s : k \in DOMAIN t /\ t[k] = s[k]
    OBVIOUS
  <1>3. Len(s) + 1 \in DOMAIN t /\ t[Len(s) + 1] = m
    OBVIOUS
  <1> QED BY <1>1, <1>2, <1>3

\* No packet is of no run, and no run is nobody's.
LEMMA IdleFacts == Idle.packet = NoPacket /\ NoPacket.run = None /\ None \notin Clients
  BY AttestationAssumption DEF Idle, NoPacket, Packet

\* What a device sends back is of the run and the nonce it was sent; it is
\* genuine if the challenge was.
LEMMA AnswerFacts ==
    ASSUME TypeOK, DevInv, NEW d \in Devices, dev[d] # Idle
    PROVE  /\ Answer(d) \in Packets /\ Genuine(Answer(d))
           /\ Answer(d).run = dev[d].packet.run
  <1> DEFINE m == dev[d].packet
             a == Answer(d)
  <1>1. m \in Packets /\ Genuine(m) /\ sent[m.run] <= dev[d].since /\ dev[d].since <= now
    BY DEF DevInv
  <1>2. m.run \in Clients /\ m.by \in Seq(Devices) /\ m.from \in Devices \cup {Host}
        /\ m.to \in Devices \cup {Host} /\ m.nonce \in Nat /\ m.stray \in BOOLEAN
    BY <1>1 DEF Packets
  <1>3. now \in Nat /\ dev[d].since \in Nat /\ sent[m.run] \in Nat
    BY <1>2 DEF TypeOK
  <1>4. /\ a.by = Append(m.by, d) /\ a.from = m.to /\ a.to = m.from
        /\ a.took = now - dev[d].since /\ a.run = m.run /\ a.nonce = m.nonce
        /\ a.stray = (m.stray \/ m.to # d)
    BY <1>1 DEF Answer, Packets
  <1>5. a \in Packets
    <2>1. PICK s \in BOOLEAN : s = (m.stray \/ m.to # d)
      OBVIOUS
    <2>2. PICK k \in Nat : k = now - dev[d].since
      BY <1>1, <1>3
    <2>3. PICK b \in Seq(Devices) : b = Append(m.by, d)
      <3>1. Append(m.by, d) \in Seq(Devices)
        BY <1>2
      <3> QED BY <3>1, Zenon
    <2>4. [m EXCEPT !.by = b, !.from = m.to, !.to = m.from, !.took = k, !.stray = s] \in Packets
      BY <1>1, <1>2 DEF Packets
    <2>5. a = [m EXCEPT !.by = b, !.from = m.to, !.to = m.from, !.took = k, !.stray = s]
      BY <2>1, <2>2, <2>3 DEF Answer
    <2> QED BY <2>4, <2>5
  <1>6. Genuine(a)
    <2>1. Sent(a.run) /\ a.nonce = nonce[a.run]
      BY <1>1, <1>4 DEF Genuine
    <2>2. a.took + sent[a.run] <= now
      BY <1>1, <1>3, <1>4
    <2>3. ASSUME ~a.stray PROVE IsAnswer(a)
      <3>1. ~m.stray /\ m.to = d
        BY <1>4, <2>3
      <3>2. Target[m.run] \in Devices /\ Host \notin Devices
        BY <1>2, AttestationAssumption
      <3>3. IsChallenge(m)
        BY <1>1, <3>1, <3>2 DEF Genuine, IsAnswer
      <3>4. a.by = <<d>>
        BY <1>4, <3>3 DEF IsChallenge
      <3> QED BY <1>4, <3>1, <3>3, <3>4 DEF IsChallenge, IsAnswer
    <2> QED BY <2>1, <2>2, <2>3 DEF Genuine
  <1> QED BY <1>4, <1>5, <1>6

-----------------------------------------------------------------------------
(* The invariant is inductive.                                              *)

\* The invariant holds before anything was sent.
LEMMA InitIInv == Init => IInv
  <1> SUFFICES ASSUME Init PROVE IInv
    OBVIOUS
  <1>1. Idle \in [packet : Packets \cup {NoPacket}, since : Nat]
    BY DEF Idle
  <1>2. TypeOK
    BY <1>1, AttestationAssumption DEF Init, TypeOK
  <1>3. NetInv /\ DevInv /\ SockInv /\ MixedInv
    BY DEF Init, NetInv, DevInv, SockInv, MixedInv
  <1>4. ResultIsTheAnswer /\ VerdictHonest /\ NotInVain
    BY DEF Init, ResultIsTheAnswer, VerdictHonest, NotInVain
  <1> QED BY <1>2, <1>3, <1>4 DEF IInv

\* A run sends once: what a packet was made of stays as it is.
Keeps ==
    /\ now' \in Nat /\ now <= now'
    /\ \A c \in Clients : Sent(c) => Sent(c)' /\ nonce'[c] = nonce[c] /\ sent'[c] = sent[c]

\* Every step keeps it.
LEMMA NextKeeps == TypeOK /\ [Next]_vars => Keeps
  <1> SUFFICES ASSUME TypeOK, [Next]_vars PROVE Keeps
    OBVIOUS
  <1> USE DEF TypeOK, Keeps, Sent, clientVars
  <1>1. CASE Tick
    BY <1>1, AttestationAssumption DEF Tick
  <1>2. ASSUME NEW c \in Clients, Client(c) PROVE Keeps
    BY <1>2 DEF Client, Open, Send, Recv, RecvFails, Kill, Shows
  <1>3. ASSUME NEW m \in net, Lose(m) \/ ToHost(m) PROVE Keeps
    BY <1>3 DEF Lose, ToHost
  <1>4. ASSUME NEW m \in net, NEW d \in Devices, ToDevice(d, m) \/ Overhears(d, m) PROVE Keeps
    BY <1>4 DEF ToDevice, Overhears
  <1>5. ASSUME NEW d \in Devices, DeviceAnswers(d) PROVE Keeps
    BY <1>5 DEF DeviceAnswers
  <1>6. CASE UNCHANGED vars
    BY <1>6 DEF vars
  <1> QED BY <1>1, <1>2, <1>3, <1>4, <1>5, <1>6 DEF Next, Deliver

\* A clock divided by a second is a number.
LEMMA SecondsAreNumbers == ASSUME NEW a \in Nat, NEW b \in Nat \ {0} PROVE a \div b \in Nat
  OBVIOUS

\* A genuine packet remains one.
LEMMA GenuineStays ==
    ASSUME TypeOK, Keeps, NEW m \in Packets, Genuine(m)
    PROVE  Genuine(m)'
  <1>1. m.run \in Clients /\ m.took \in Nat /\ now \in Nat
    BY DEF TypeOK, Packets
  <1>2. Sent(m.run)' /\ nonce'[m.run] = nonce[m.run] /\ sent'[m.run] = sent[m.run]
    BY <1>1 DEF Genuine, Keeps
  <1>3. m.took + sent'[m.run] <= now'
    BY <1>1, <1>2 DEF Genuine, Keeps, TypeOK
  <1> QED BY <1>2, <1>3 DEF Genuine, IsChallenge, IsAnswer, Sent

\* Steps keep the types.
LEMMA NextTypeOK == IInv /\ [Next]_vars => TypeOK'
  <1> SUFFICES ASSUME IInv, [Next]_vars PROVE TypeOK'
    OBVIOUS
  <1>1. TypeOK /\ DevInv
    BY DEF IInv
  <1> USE AttestationAssumption, <1>1 DEF clientVars, bounds, history
  <1>2. CASE Tick
    BY <1>2 DEF Tick, TypeOK
  <1>3. ASSUME NEW c \in Clients, Open(c) \/ Kill(c) PROVE TypeOK'
    <2>1. CASE Open(c)
      BY <2>1 DEF Open, TypeOK
    <2>2. CASE Kill(c)
      <3>1. sock' \in [Clients -> Seq(Packets)]
        BY <2>2 DEF Kill, TypeOK
      <3> QED BY <2>2, <3>1 DEF Kill, TypeOK
    <2> QED BY <1>3, <2>1, <2>2
  <1>4. ASSUME NEW c \in Clients, Send(c) PROVE TypeOK'
    <2>1. now \div Second \in Nat
      <3>1. now \in Nat
        BY DEF TypeOK
      <3> QED BY <3>1, SecondsAreNumbers
    <2>2. Packet(now \div Second, Target[c], c) \in Packets
      BY <2>1, PacketFacts
    <2>3. net' \subseteq Packets
      BY <1>4, <2>2 DEF Send, TypeOK
    <2>4. nonce' \in [Clients -> Nat] /\ sent' \in [Clients -> Nat]
      BY <1>4, <2>1 DEF Send, TypeOK
    <2>5. hurt' \subseteq Clients /\ mixed' \subseteq Clients
      BY <1>4 DEF Send, TypeOK
    <2> QED BY <1>4, <2>3, <2>4, <2>5 DEF Send, TypeOK
  <1>5. ASSUME NEW c \in Clients, NEW m \in Packets, Shows(c, m) PROVE
            /\ pc' \in [Clients -> {"idle", "open", "waiting", "done", "killed"}]
            /\ result' \in [Clients -> Packets \cup {NoPacket}]
            /\ verdict' \in [Clients -> {"none", "correct", "over"}]
    BY <1>5 DEF Shows, Verdict, TypeOK
  <1>6. ASSUME NEW c \in Clients, Recv(c) PROVE TypeOK'
    <2>1. Head(sock[c]) \in Packets
      BY <1>6 DEF Recv, TypeOK
    <2>2. sock' \in [Clients -> Seq(Packets)]
      BY <1>6 DEF Recv, TypeOK
    <2> QED BY <1>5, <1>6, <2>1, <2>2 DEF Recv, TypeOK
  <1>7. ASSUME NEW c \in Clients, RecvFails(c) PROVE TypeOK'
    <2>1. Packet(nonce[c], Target[c], c) \in Packets
      BY PacketFacts DEF TypeOK
    <2>2. sock' \in [Clients -> Seq(Packets)]
      BY <1>7 DEF RecvFails, TypeOK
    <2> QED BY <1>5, <1>7, <2>1, <2>2 DEF RecvFails, TypeOK
  <1>8. ASSUME NEW m \in net, Lose(m) PROVE TypeOK'
    <2>1. m.run \in Clients
      BY DEF TypeOK, Packets
    <2> QED BY <1>8, <2>1 DEF Lose, TypeOK
  <1>9. ASSUME NEW m \in net, Leaves(m) PROVE net' \subseteq Packets /\ dups' \in 0..MaxDups
    BY <1>9 DEF Leaves, TypeOK
  <1>10. ASSUME NEW m \in net, ToHost(m) PROVE TypeOK'
    <2>1. sock' \in [Clients -> Seq(Packets)]
      BY <1>10 DEF ToHost, TypeOK
    <2> QED BY <1>9, <1>10, <2>1 DEF ToHost, TypeOK
  <1>11. ASSUME NEW m \in net, NEW d \in Devices, ToDevice(d, m) \/ Overhears(d, m) PROVE TypeOK'
    <2>1. [packet |-> m, since |-> now] \in [packet : Packets \cup {NoPacket}, since : Nat]
      BY DEF TypeOK
    <2>2. dev' \in [Devices -> [packet : Packets \cup {NoPacket}, since : Nat]]
      BY <1>11, <2>1 DEF ToDevice, Overhears, TypeOK
    <2>3. CASE ToDevice(d, m)
      BY <1>9, <2>2, <2>3 DEF ToDevice, TypeOK
    <2>4. CASE Overhears(d, m)
      BY <2>2, <2>4 DEF Overhears, TypeOK
    <2> QED BY <1>11, <2>3, <2>4
  <1>12. ASSUME NEW d \in Devices, DeviceAnswers(d) PROVE TypeOK'
    <2>1. Idle \in [packet : Packets \cup {NoPacket}, since : Nat]
      BY DEF Idle
    <2>2. net' \subseteq Packets
      BY <1>12, AnswerFacts DEF DeviceAnswers, TypeOK
    <2> QED BY <1>12, <2>1, <2>2 DEF DeviceAnswers, TypeOK
  <1>13. CASE UNCHANGED vars
    BY <1>13 DEF vars, TypeOK
  <1> QED BY <1>2, <1>3, <1>4, <1>6, <1>7, <1>8, <1>10, <1>11, <1>12, <1>13
          DEF Next, Client, Deliver

\* Packets under way are genuine, at the devices too.
LEMMA NextNet == IInv /\ [Next]_vars => NetInv' /\ DevInv'
  <1> SUFFICES ASSUME IInv, [Next]_vars PROVE NetInv' /\ DevInv'
    OBVIOUS
  <1>1. TypeOK /\ NetInv /\ DevInv /\ Keeps
    BY NextKeeps DEF IInv
  <1>2. \A m \in Packets : Genuine(m) => Genuine(m)'
    BY <1>1, GenuineStays
  <1>3. net \subseteq Packets /\ \A m \in net : Genuine(m)'
    BY <1>1, <1>2 DEF TypeOK, NetInv
  \* A device that goes on with what it has.
  <1>4. ASSUME NEW d \in Devices, dev'[d] = dev[d], dev[d] # Idle
        PROVE  /\ dev'[d].packet \in Packets /\ Genuine(dev[d].packet)'
               /\ sent'[dev'[d].packet.run] <= dev'[d].since /\ dev'[d].since <= now'
    <2> DEFINE m == dev[d].packet
    <2>1. m \in Packets /\ Genuine(m) /\ sent[m.run] <= dev[d].since /\ dev[d].since <= now
      BY <1>1, <1>4 DEF DevInv
    <2>2. PICK p \in Packets : p = m
      BY <2>1
    <2>3. Genuine(p)'
      BY <1>2, <2>1, <2>2
    <2>4. p.run \in Clients /\ sent'[p.run] = sent[p.run]
      BY <1>1, <2>1, <2>2 DEF Keeps, Genuine, Packets
    <2>5. dev[d].since \in Nat /\ now \in Nat
      BY <1>1 DEF TypeOK
    <2>6. dev[d].since <= now'
      BY <1>1, <2>1, <2>5 DEF Keeps
    <2> QED BY <1>4, <2>1, <2>2, <2>3, <2>4, <2>6 DEF Genuine
  <1>5. ASSUME net' \subseteq net, dev' = dev PROVE NetInv' /\ DevInv'
    BY <1>3, <1>4, <1>5 DEF NetInv, DevInv
  <1>6. ASSUME NEW c \in Clients, Send(c) PROVE NetInv' /\ DevInv'
    <2> DEFINE p == Packet(now \div Second, Target[c], c)
    <2>1. now \in Nat /\ now \div Second \in Nat
      <3>1. now \in Nat /\ Second \in Nat \ {0}
        BY <1>1, AttestationAssumption DEF TypeOK
      <3> QED BY <3>1, SecondsAreNumbers
    <2>2. /\ p \in Packets /\ p.run = c /\ p.nonce = now \div Second /\ p.took = 0 /\ p.by = <<>>
          /\ p.from = Host /\ p.to = Target[c]
      BY <2>1, PacketFacts
    <2>3. Sent(c)' /\ nonce'[c] = now \div Second /\ sent'[c] = now /\ now' = now
      BY <1>1, <1>6 DEF Send, Sent, TypeOK
    <2>4. PICK q \in Packets : q = p
      BY <2>2
    <2>5. Genuine(q)'
      BY <2>1, <2>2, <2>3, <2>4 DEF Genuine, IsChallenge, Sent
    <2>6. net' \subseteq net \cup {q} /\ dev' = dev
      BY <1>6, <2>4 DEF Send
    <2>7. NetInv'
      BY <1>3, <2>5, <2>6 DEF NetInv
    <2>8. DevInv'
      BY <1>4, <2>6 DEF DevInv
    <2> QED BY <2>7, <2>8
  <1>7. ASSUME NEW m \in net, NEW d \in Devices, ToDevice(d, m) \/ Overhears(d, m)
        PROVE  NetInv' /\ DevInv'
    <2>1. /\ net' \subseteq net /\ now' = now
          /\ dev' = [dev EXCEPT ![d] = [packet |-> m, since |-> now]]
      BY <1>7 DEF ToDevice, Overhears, Leaves
    <2>2. NetInv'
      BY <1>3, <2>1 DEF NetInv
    <2>3. m \in Packets /\ Genuine(m) /\ Genuine(m)' /\ m.run \in Clients /\ m.took \in Nat
      BY <1>1, <1>3 DEF NetInv, Packets
    <2>4. sent'[m.run] <= now'
      <3>1. sent'[m.run] = sent[m.run] /\ sent[m.run] \in Nat /\ now \in Nat
        BY <1>1, <2>3 DEF Keeps, Genuine, TypeOK
      <3> QED BY <2>1, <2>3, <3>1 DEF Genuine
    <2>5. dev'[d].packet = m /\ dev'[d].since = now' /\ now' <= now'
      BY <1>1, <2>1 DEF TypeOK
    <2>6. \A e \in Devices \ {d} : dev'[e] = dev[e]
      BY <1>1, <2>1 DEF TypeOK
    <2>7. DevInv'
      <3> SUFFICES ASSUME NEW e \in Devices, dev'[e] # Idle
                   PROVE  /\ dev'[e].packet \in Packets /\ Genuine(dev[e].packet)'
                          /\ sent'[dev'[e].packet.run] <= dev'[e].since /\ dev'[e].since <= now'
        BY DEF DevInv, Idle, NoPacket, Packet
      <3>1. CASE e = d
        BY <2>3, <2>4, <2>5, <3>1
      <3>2. CASE e # d
        BY <1>4, <2>6, <3>2
      <3> QED BY <3>1, <3>2
    <2> QED BY <2>2, <2>7
  <1>8. ASSUME NEW d \in Devices, DeviceAnswers(d) PROVE NetInv' /\ DevInv'
    <2>1. dev[d] # Idle /\ net' = net \cup {Answer(d)} /\ dev' = [dev EXCEPT ![d] = Idle]
      BY <1>8 DEF DeviceAnswers
    <2>2. PICK q \in Packets : q = Answer(d) /\ Genuine(q)
      BY <1>1, <2>1, AnswerFacts
    <2>3. NetInv'
      BY <1>2, <1>3, <2>1, <2>2 DEF NetInv
    <2>4. dev'[d] = Idle /\ \A e \in Devices \ {d} : dev'[e] = dev[e]
      BY <1>1, <2>1 DEF TypeOK
    <2>5. DevInv'
      BY <1>4, <2>4 DEF DevInv
    <2> QED BY <2>3, <2>5
  <1>9. \/ net' \subseteq net /\ dev' = dev
        \/ \E c \in Clients : Send(c)
        \/ \E m \in net, d \in Devices : ToDevice(d, m) \/ Overhears(d, m)
        \/ \E d \in Devices : DeviceAnswers(d)
    <2>1. ASSUME NEW c \in Clients, Client(c), ~Send(c) PROVE net' \subseteq net /\ dev' = dev
      BY <2>1 DEF Client, Open, Recv, RecvFails, Kill
    <2>2. ASSUME NEW m \in net, Lose(m) \/ ToHost(m) PROVE net' \subseteq net /\ dev' = dev
      BY <2>2 DEF Lose, ToHost, Leaves
    <2>3. CASE Tick \/ UNCHANGED vars
      BY <2>3 DEF Tick, vars
    <2> QED BY <2>1, <2>2, <2>3 DEF Next, Deliver
  <1> QED BY <1>5, <1>6, <1>7, <1>8, <1>9

\* What a socket holds is genuine and was sent to the host.
LEMMA NextSock == IInv /\ [Next]_vars => SockInv'
  <1> SUFFICES ASSUME IInv, [Next]_vars PROVE SockInv'
    OBVIOUS
  <1>1. TypeOK /\ NetInv /\ SockInv /\ Keeps
    BY NextKeeps DEF IInv
  <1>2. \A m \in Packets : Genuine(m) => Genuine(m)'
    BY <1>1, GenuineStays
  <1>3. \A c \in Clients : \A k \in DOMAIN sock[c] : sock[c][k] \in Packets
    BY <1>1 DEF TypeOK
  <1>4. ASSUME NEW c \in Clients, sock'[c] \in {sock[c], <<>>}, NEW k \in DOMAIN sock'[c]
        PROVE  Genuine(sock[c][k])' /\ sock'[c][k].to = Host
    <2>1. sock'[c] = sock[c] /\ k \in DOMAIN sock[c]
      BY <1>4
    <2>2. PICK m \in Packets : m = sock[c][k]
      BY <1>3, <2>1
    <2>3. Genuine(m)' /\ m.to = Host
      BY <1>1, <1>2, <2>1, <2>2 DEF SockInv
    <2> QED BY <2>1, <2>2, <2>3
  <1>5. ASSUME NEW m \in net, ToHost(m) PROVE SockInv'
    <2> SUFFICES ASSUME NEW c \in Clients, NEW k \in DOMAIN sock'[c]
                 PROVE  Genuine(sock[c][k])' /\ sock'[c][k].to = Host
      BY DEF SockInv
    <2>1. m \in Packets /\ Genuine(m)' /\ m.to = Host
      BY <1>1, <1>2, <1>5 DEF TypeOK, NetInv, ToHost
    <2>2. CASE sock'[c] = sock[c]
      BY <1>4, <2>2
    <2>3. CASE sock'[c] = Append(sock[c], m)
      <3>1. sock[c] \in Seq(Packets)
        BY <1>1 DEF TypeOK
      <3>2. CASE sock'[c][k] = m
        BY <2>1, <3>2
      <3>3. CASE k \in DOMAIN sock[c] /\ sock'[c][k] = sock[c][k]
        <4>1. PICK p \in Packets : p = sock[c][k]
          BY <1>3, <3>3
        <4>2. Genuine(p)' /\ p.to = Host
          BY <1>1, <1>2, <3>3, <4>1 DEF SockInv
        <4> QED BY <3>3, <4>1, <4>2
      <3> QED BY <2>1, <2>3, <3>1, <3>2, <3>3, AppendFacts
    <2> QED BY <1>5, <2>2, <2>3 DEF ToHost
  <1>6. ASSUME \A c \in Clients : sock'[c] \in {sock[c], <<>>} PROVE SockInv'
    BY <1>4, <1>6 DEF SockInv
  <1>7. \/ \E m \in net : ToHost(m)
        \/ \A c \in Clients : sock'[c] \in {sock[c], <<>>}
    <2> USE <1>1 DEF TypeOK, clientVars
    <2>1. ASSUME NEW c \in Clients, Client(c)
          PROVE  \A x \in Clients : sock'[x] \in {sock[x], <<>>}
      BY <2>1 DEF Client, Open, Send, Recv, RecvFails, Kill
    <2>2. ASSUME \/ Tick \/ UNCHANGED vars \/ \E m \in net : Lose(m)
                 \/ \E m \in net, d \in Devices : ToDevice(d, m) \/ Overhears(d, m)
                 \/ \E d \in Devices : DeviceAnswers(d)
          PROVE  sock' = sock
      BY <2>2 DEF Tick, vars, Lose, ToDevice, Overhears, DeviceAnswers
    <2> QED BY <2>1, <2>2 DEF Next, Deliver
  <1> QED BY <1>5, <1>6, <1>7

\* A client that has met no other run's packet meets none.
LEMMA NextMixed == IInv /\ [Next]_vars => MixedInv'
  <1> SUFFICES ASSUME IInv, [Next]_vars, NEW c \in Clients, pc'[c] = "waiting", c \notin mixed'
               PROVE  About(c)' \subseteq {c, None}
    BY DEF MixedInv
  <1>1. TypeOK /\ DevInv /\ MixedInv
    BY DEF IInv
  <1>2. ASSUME Send(c) PROVE About(c)' \subseteq {c, None}
    <2>1. About(c) \subseteq {c, None}
      BY <1>2 DEF Send
    <2>2. \A n : Packet(n, Target[c], c).run = c
      BY DEF Packet
    <2>3. dev' = dev /\ sock' = sock /\ \A m \in net' : m \in net \/ m.run = c
      BY <1>2, <2>2 DEF Send
    <2> QED BY <2>1, <2>3 DEF About
  <1>3. ASSUME pc[c] = "waiting", mixed \subseteq mixed', dev' = dev, sock'[c] = sock[c],
               net' \subseteq net
        PROVE  About(c)' \subseteq {c, None}
    <2>1. About(c) \subseteq {c, None}
      BY <1>1, <1>3 DEF MixedInv
    <2> QED BY <1>3, <2>1 DEF About
  <1> USE DEF clientVars, bounds, history
  <1>4. CASE Tick \/ UNCHANGED vars \/ \E m \in net : Lose(m)
    BY <1>3, <1>4 DEF Tick, vars, Lose
  <1>5. ASSUME NEW x \in Clients, Client(x), ~Send(c) PROVE About(c)' \subseteq {c, None}
    <2>1. CASE x = c
      BY <1>1, <1>5, <2>1 DEF TypeOK, Client, Open, Recv, RecvFails, Kill, Shows
    <2>2. CASE x # c
      <3>1. pc'[c] = pc[c] /\ sock'[c] = sock[c] /\ dev' = dev /\ mixed \subseteq mixed'
        BY <1>1, <1>5, <2>2 DEF TypeOK, Client, Open, Send, Recv, RecvFails, Kill, Shows
      <3>2. ~Send(x)
        BY <2>2, <3>1 DEF Send
      <3>3. net' \subseteq net
        BY <1>5, <3>2 DEF Client, Open, Recv, RecvFails, Kill
      <3> QED BY <1>3, <3>1, <3>3
    <2> QED BY <2>1, <2>2
  <1>6. ASSUME pc' = pc, mixed' = mixed PROVE About(c) \subseteq {c, None}
    BY <1>1, <1>6 DEF MixedInv
  <1>7. ASSUME NEW m \in net, ToHost(m) PROVE About(c)' \subseteq {c, None}
    <2>1. About(c) \subseteq {c, None} /\ m.run \in {c, None}
      BY <1>6, <1>7 DEF ToHost, About
    <2>2. sock'[c] = Append(sock[c], m) /\ sock[c] \in Seq(Packets) /\ m \in Packets
      BY <1>1, <1>7 DEF ToHost, TypeOK
    <2>3. \A k \in DOMAIN sock'[c] :
              sock'[c][k] = m \/ (k \in DOMAIN sock[c] /\ sock'[c][k] = sock[c][k])
      BY <2>2, AppendFacts
    <2>4. dev' = dev /\ net' \subseteq net
      BY <1>7 DEF ToHost, Leaves
    <2> QED BY <2>1, <2>3, <2>4 DEF About
  <1>8. ASSUME NEW m \in net, NEW d \in Devices, ToDevice(d, m) \/ Overhears(d, m)
        PROVE  About(c)' \subseteq {c, None}
    <2>1. About(c) \subseteq {c, None} /\ m.run \in {c, None}
      BY <1>6, <1>8 DEF ToDevice, Overhears, About
    <2>2. \A e \in Devices : dev'[e].packet = m \/ dev'[e] = dev[e]
      BY <1>1, <1>8 DEF ToDevice, Overhears, TypeOK
    <2>3. sock' = sock /\ net' \subseteq net
      BY <1>8 DEF ToDevice, Overhears, Leaves
    <2> QED BY <2>1, <2>2, <2>3 DEF About
  <1>9. ASSUME NEW d \in Devices, DeviceAnswers(d) PROVE About(c)' \subseteq {c, None}
    <2>1. About(c) \subseteq {c, None}
      BY <1>6, <1>9 DEF DeviceAnswers
    <2>2. Answer(d).run \in {c, None}
      BY <1>1, <1>9, <2>1, AnswerFacts DEF DeviceAnswers, About
    <2>3. \A e \in Devices : dev'[e].packet.run = None \/ dev'[e] = dev[e]
      BY <1>1, <1>9, IdleFacts DEF DeviceAnswers, TypeOK
    <2>4. sock' = sock /\ net' = net \cup {Answer(d)}
      BY <1>9 DEF DeviceAnswers
    <2> QED BY <2>1, <2>2, <2>3, <2>4 DEF About
  <1> QED BY <1>2, <1>4, <1>5, <1>7, <1>8, <1>9 DEF Next, Deliver

\* What a client shows is the answer, and came within the threshold.
LEMMA NextResult == IInv /\ [Next]_vars => ResultIsTheAnswer' /\ VerdictHonest'
  <1> SUFFICES ASSUME IInv, [Next]_vars PROVE ResultIsTheAnswer' /\ VerdictHonest'
    OBVIOUS
  <1>1. /\ TypeOK /\ SockInv /\ MixedInv /\ Keeps
        /\ ResultIsTheAnswer /\ VerdictHonest
    BY NextKeeps DEF IInv
  <1> USE DEF clientVars, bounds, history
  \* A client that shows nothing new.
  <1>2. ASSUME NEW c \in Clients, pc'[c] # pc[c] => pc'[c] # "done", result'[c] = result[c],
               verdict'[c] = verdict[c], mixed \subseteq mixed', misread \subseteq misread'
        PROVE  /\ pc'[c] = "done" /\ c \notin mixed' \cup misread' /\ ~result'[c].stray =>
                      result'[c].by = <<Target[c]>> /\ result'[c].nonce = nonce'[c]
               /\ verdict'[c] = "correct" /\ c \notin mixed' \cup misread' =>
                      result'[c].took < Threshold
    <2>1. pc[c] = "done" => nonce'[c] = nonce[c]
      BY <1>1 DEF Keeps, Sent
    <2> QED BY <1>1, <1>2, <2>1 DEF ResultIsTheAnswer, VerdictHonest
  \* A packet that a client takes for the answer.
  <1>3. ASSUME NEW c \in Clients, Recv(c), c \notin mixed
        PROVE  /\ ~result'[c].stray => result'[c].by = <<Target[c]>> /\ result'[c].nonce = nonce'[c]
               /\ verdict'[c] = "correct" => result'[c].took < Threshold
    <2> DEFINE m == Head(sock[c])
    <2>1. 1 \in DOMAIN sock[c] /\ m = sock[c][1] /\ m \in Packets
      BY <1>1, <1>3 DEF Recv, TypeOK
    <2>2. Genuine(m) /\ m.to = Host
      BY <1>1, <2>1 DEF SockInv
    <2>3. m.run = c
      <3>1. m.run \in {c, None}
        <4>1. About(c) \subseteq {c, None}
          BY <1>1, <1>3 DEF Recv, MixedInv
        <4>2. m.run \in About(c)
          BY <2>1 DEF About
        <4> QED BY <4>1, <4>2
      <3>2. m.run \in Clients
        BY <2>1 DEF Packets
      <3> QED BY <3>1, <3>2, AttestationAssumption
    <2>4. result'[c] = m /\ verdict'[c] = Verdict(c) /\ nonce'[c] = nonce[c]
      BY <1>1, <1>3 DEF Recv, Shows, TypeOK
    <2>5. ASSUME ~m.stray PROVE m.by = <<Target[c]>>
      <3>1. m.to # Target[c]
        BY <2>2, AttestationAssumption
      <3> QED BY <2>2, <2>3, <2>5, <3>1 DEF Genuine, IsChallenge, IsAnswer
    <2>6. m.nonce = nonce[c] /\ m.took + sent[c] <= now
      BY <2>2, <2>3 DEF Genuine
    <2>7. Verdict(c) = "correct" => m.took < Threshold
      <3>1. m.took \in Nat /\ sent[c] \in Nat /\ now \in Nat /\ Threshold \in Nat
        BY <1>1, <2>1, AttestationAssumption DEF TypeOK, Packets
      <3> QED BY <2>6, <3>1 DEF Verdict
    <2> QED BY <2>4, <2>5, <2>6, <2>7
  <1>4. mixed \subseteq mixed' /\ misread \subseteq misread'
    <2>1. ASSUME NEW c \in Clients, Client(c)
          PROVE  mixed \subseteq mixed' /\ misread \subseteq misread'
      BY <2>1 DEF Client, Open, Send, Recv, RecvFails, Kill
    <2>2. ASSUME \/ Tick \/ UNCHANGED vars \/ \E m \in net : Lose(m) \/ ToHost(m)
                 \/ \E m \in net, d \in Devices : ToDevice(d, m) \/ Overhears(d, m)
                 \/ \E d \in Devices : DeviceAnswers(d)
          PROVE  mixed' = mixed /\ misread' = misread
      BY <2>2 DEF Tick, vars, Lose, ToHost, ToDevice, Overhears, DeviceAnswers
    <2> QED BY <2>1, <2>2 DEF Next, Deliver
  <1>5. ASSUME NEW c \in Clients
        PROVE  \/ Recv(c)
               \/ c \in misread'
               \/ /\ pc'[c] # pc[c] => pc'[c] # "done"
                  /\ result'[c] = result[c] /\ verdict'[c] = verdict[c]
    <2>1. ASSUME NEW x \in Clients, Client(x), x # c
          PROVE  pc'[c] = pc[c] /\ result'[c] = result[c] /\ verdict'[c] = verdict[c]
      BY <1>1, <2>1 DEF TypeOK, Client, Open, Send, Recv, RecvFails, Kill, Shows
    <2>2. ASSUME Open(c) \/ Send(c) \/ Kill(c)
          PROVE  pc'[c] # "done" /\ result'[c] = result[c] /\ verdict'[c] = verdict[c]
      BY <1>1, <2>2 DEF TypeOK, Open, Send, Kill
    <2>3. ASSUME RecvFails(c) PROVE c \in misread'
      BY <2>3 DEF RecvFails
    <2>4. ASSUME \/ Tick \/ UNCHANGED vars \/ \E m \in net : Lose(m) \/ ToHost(m)
                 \/ \E m \in net, d \in Devices : ToDevice(d, m) \/ Overhears(d, m)
                 \/ \E d \in Devices : DeviceAnswers(d)
          PROVE  pc' = pc /\ result' = result /\ verdict' = verdict
      BY <2>4 DEF Tick, vars, Lose, ToHost, ToDevice, Overhears, DeviceAnswers
    <2> QED BY <2>1, <2>2, <2>3, <2>4 DEF Next, Deliver, Client
  <1>6. ASSUME NEW c \in Clients
        PROVE  /\ pc'[c] = "done" /\ c \notin mixed' \cup misread' /\ ~result'[c].stray =>
                      result'[c].by = <<Target[c]>> /\ result'[c].nonce = nonce'[c]
               /\ verdict'[c] = "correct" /\ c \notin mixed' \cup misread' =>
                      result'[c].took < Threshold
    BY <1>2, <1>3, <1>4, <1>5
  <1> QED BY <1>6 DEF ResultIsTheAnswer, VerdictHonest

\* A client whose packets were not lost has one that is still about.
LEMMA NextInVain == IInv /\ [Next]_vars => NotInVain'
  <1> SUFFICES ASSUME IInv, [Next]_vars, NEW c \in Clients, pc'[c] = "waiting", c \notin hurt'
               PROVE  c \in About(c)'
    BY DEF NotInVain
  <1>1. TypeOK /\ DevInv /\ NotInVain
    BY DEF IInv
  <1> USE DEF clientVars, bounds, history
  <1>2. ASSUME Send(c) PROVE c \in About(c)'
    <2>1. \A n : Packet(n, Target[c], c).run = c
      BY DEF Packet
    <2>2. \E m \in net' : m.run = c
      BY <1>2, <2>1 DEF Send
    <2> QED BY <2>2 DEF About
  <1>3. ASSUME pc[c] = "waiting", hurt \subseteq hurt'
        PROVE  \/ \E m \in net : m.run = c
               \/ \E d \in Devices : dev[d].packet.run = c
               \/ \E k \in DOMAIN sock[c] : sock[c][k].run = c
    BY <1>1, <1>3 DEF NotInVain, About
  <1>4. ASSUME pc[c] = "waiting", hurt \subseteq hurt', dev' = dev, sock'[c] = sock[c],
               net \subseteq net'
        PROVE  c \in About(c)'
    BY <1>3, <1>4 DEF About
  <1>5. CASE Tick \/ UNCHANGED vars
    BY <1>4, <1>5 DEF Tick, vars
  <1>6. ASSUME NEW x \in Clients, Client(x), ~Send(c) PROVE c \in About(c)'
    <2>1. CASE x = c
      BY <1>1, <1>6, <2>1 DEF TypeOK, Client, Open, Recv, RecvFails, Kill, Shows
    <2>2. CASE x # c
      <3>1. pc'[c] = pc[c] /\ sock'[c] = sock[c] /\ dev' = dev
        BY <1>1, <1>6, <2>2 DEF TypeOK, Client, Open, Send, Recv, RecvFails, Kill, Shows
      <3>2. net \subseteq net' /\ hurt \subseteq hurt'
        BY <1>6 DEF Client, Open, Send, Recv, RecvFails, Kill
      <3> QED BY <1>4, <3>1, <3>2
    <2> QED BY <2>1, <2>2
  <1>7. ASSUME NEW m \in net, Lose(m) PROVE c \in About(c)'
    <2>1. /\ m.run # c /\ hurt \subseteq hurt' /\ net' = net \ {m}
          /\ pc' = pc /\ dev' = dev /\ sock' = sock
      BY <1>7 DEF Lose
    <2> QED BY <1>3, <2>1 DEF About
  <1>8. ASSUME NEW m \in net, ToHost(m) PROVE c \in About(c)'
    <2>1. pc' = pc /\ hurt' = hurt /\ dev' = dev /\ net \ {m} \subseteq net'
      BY <1>8 DEF ToHost, Leaves
    <2>2. sock'[c] = Append(sock[c], m) /\ sock[c] \in Seq(Packets) /\ m \in Packets
      BY <1>1, <1>8, <2>1 DEF ToHost, TypeOK
    <2>3. /\ \A k \in DOMAIN sock[c] : k \in DOMAIN sock'[c] /\ sock'[c][k] = sock[c][k]
          /\ \E k \in DOMAIN sock'[c] : sock'[c][k] = m
      BY <2>2, AppendFacts
    <2> QED BY <1>3, <2>1, <2>3 DEF About
  <1>9. ASSUME NEW m \in net, NEW d \in Devices, ToDevice(d, m) \/ Overhears(d, m)
        PROVE  c \in About(c)'
    <2>1. pc' = pc /\ hurt' = hurt /\ sock' = sock /\ net \ {m} \subseteq net' /\ dev[d] = Idle
      BY <1>9 DEF ToDevice, Overhears, Leaves
    <2>2. dev'[d].packet = m /\ \A e \in Devices \ {d} : dev'[e] = dev[e]
      BY <1>1, <1>9 DEF ToDevice, Overhears, TypeOK
    <2>3. dev[d].packet.run # c
      BY <2>1, IdleFacts
    <2> QED BY <1>3, <2>1, <2>2, <2>3 DEF About
  <1>10. ASSUME NEW d \in Devices, DeviceAnswers(d) PROVE c \in About(c)'
    <2>1. pc' = pc /\ hurt' = hurt /\ sock' = sock /\ net' = net \cup {Answer(d)}
      BY <1>10 DEF DeviceAnswers
    <2>2. Answer(d).run = dev[d].packet.run
      BY <1>1, <1>10, AnswerFacts DEF DeviceAnswers
    <2>3. \A e \in Devices \ {d} : dev'[e] = dev[e]
      BY <1>1, <1>10 DEF DeviceAnswers, TypeOK
    <2> QED BY <1>3, <2>1, <2>2, <2>3 DEF About
  <1> QED BY <1>2, <1>5, <1>6, <1>7, <1>8, <1>9, <1>10 DEF Next, Deliver

-----------------------------------------------------------------------------
(* The results.                                                             *)

\* The invariant holds throughout.
THEOREM Invariance == Spec => []IInv
  <1>1. IInv /\ [Next]_vars => IInv'
    BY NextTypeOK, NextNet, NextSock, NextMixed, NextResult, NextInVain DEF IInv
  <1> QED BY <1>1, InitIInv, PTL DEF Spec

\* A client shows the checksum of its device over its nonce (icmp.c compares
\* neither), unless another run, a promiscuous device or recvfrom interferes.
THEOREM ResultIsTrue == Spec => []ResultIsTheAnswer
  <1>1. IInv => ResultIsTheAnswer
    BY DEF IInv
  <1> QED BY <1>1, Invariance, PTL

\* "Results are correct" is said of an answer that was computed within the threshold
\* (the two readings of the clock in icmp.c).
THEOREM VerdictIsHonest == Spec => []VerdictHonest
  <1>1. IInv => VerdictHonest
    BY DEF IInv
  <1> QED BY <1>1, Invariance, PTL

\* An answer is not answered (the poll's test and its exchange of the addresses).
THEOREM AnswersAreNotAnswered == Spec => []NoEcho
  <1>1. IInv => NoEcho
    <2> SUFFICES ASSUME IInv, NEW m \in net \cup {dev[d].packet : d \in Devices}, ~m.stray
                 PROVE  (m.to \in Devices => m.by = <<>>) /\ (m.to = Host => Len(m.by) = 1)
      BY DEF NoEcho
    <2>1. m = NoPacket \/ (m \in Packets /\ Genuine(m))
      <3>1. CASE m \in net
        BY <3>1 DEF IInv, TypeOK, NetInv
      <3>2. ASSUME NEW d \in Devices, m = dev[d].packet
            PROVE  m = NoPacket \/ (m \in Packets /\ Genuine(m))
        BY <3>2, IdleFacts DEF IInv, DevInv
      <3> QED BY <3>1, <3>2
    <2>2. CASE m = NoPacket
      BY <2>2, AttestationAssumption DEF NoPacket, Packet
    <2>3. CASE m \in Packets /\ Genuine(m)
      <3>1. Target[m.run] \in Devices /\ Host \notin Devices
        BY <2>3, AttestationAssumption DEF Packets
      <3>2. Len(<<Target[m.run]>>) = 1
        OBVIOUS
      <3> QED BY <2>3, <3>1, <3>2 DEF Genuine, IsChallenge, IsAnswer
    <2> QED BY <2>1, <2>2, <2>3
  <1> QED BY <1>1, Invariance, PTL

\* A client waits in vain only for a packet that was lost (icmp.c opens its socket
\* before it sends; a device answers what it gets).
THEOREM NobodyWaitsInVain == Spec => []NotInVain
  <1>1. IInv => NotInVain
    BY DEF IInv
  <1> QED BY <1>1, Invariance, PTL

=============================================================================
