---------------------------- MODULE Attestation ----------------------------
(***************************************************************************)
(* The exchange between the verifier icmp_client/icmp.c and the devices:   *)
(* a client opens a raw socket, sends a nonce in an ICMP packet of type 2  *)
(* and waits for a packet of that type; the poll of a device's driver      *)
(* answers each such packet it receives with the checksum of its memory,   *)
(* with source and destination exchanged. The network loses, delays,       *)
(* reorders and duplicates.                                                *)
(*                                                                         *)
(* What a packet carries is a nonce and the devices that have computed on  *)
(* it since. The clients run on one host, beside each other or one after   *)
(* the other: a raw socket gets a copy of every ICMP packet of its host,   *)
(* and a client that has lost its packet waits until it is killed.         *)
(* Packets of other ICMP types only take the client round its loop.        *)
(***************************************************************************)
EXTENDS Naturals, Sequences

CONSTANTS
    Clients,    \* runs of the client, all on one host
    Devices,
    Target,     \* the device that each client is given
    Promisc,    \* devices whose interface is in promiscuous mode
    Host,       \* the host's address
    None,       \* no packet, no device
    Second,     \* ticks in a second: the nonces are seeded with time(0)
    Threshold,  \* ticks in 1.1 seconds
    Work,       \* ticks that the checksum takes at least
    MaxTime,    \* bound: the clock
    MaxDups,    \* bound: packets delivered twice
    MaxHeard    \* bound: packets that promiscuous devices overhear

ASSUME AttestationAssumption ==
    /\ Target \in [Clients -> Devices]
    /\ Promisc \subseteq Devices /\ Host \notin Devices
    /\ None \notin Devices \cup Clients /\ None # Host
    /\ Second \in Nat \ {0} /\ Threshold \in Nat /\ Work \in Nat
    /\ MaxTime \in Nat /\ MaxDups \in Nat /\ MaxHeard \in Nat

VARIABLES
    now,      \* the clock
    net,      \* packets under way
    dev,      \* what each device computes on, and since when
    pc,       \* where each client is
    sock,     \* packets in its socket
    nonce,    \* its nonce
    sent,     \* when it sent it
    result,   \* what it shows as the checksum
    verdict,  \* what it says of the time
    \* History and bounds.
    dups, heard,
    hurt,     \* clients whose packet was lost, or not sent
    mixed,    \* clients during whose run packets of another one were about
    misread   \* clients that have taken a failed recvfrom for a packet

clientVars == <<pc, sock, nonce, sent, result, verdict>>
bounds == <<dups, heard>>
history == <<hurt, mixed, misread>>
vars == <<now, net, dev, pc, sock, nonce, sent, result, verdict, dups, heard, hurt,
          mixed, misread>>

-----------------------------------------------------------------------------
\* A packet. run and took are not in it: who sent the nonce, and how long the
\* device has computed. stray says that a device answered it that it was not for.
Packet(n, d, c) ==
    [nonce |-> n, by |-> <<>>, from |-> Host, to |-> d, run |-> c, took |-> 0, stray |-> FALSE]

NoPacket == Packet(0, None, None)
Idle == [packet |-> NoPacket, since |-> 0]

Packets == [nonce : Nat, by : Seq(Devices), from : Devices \cup {Host},
            to : Devices \cup {Host}, run : Clients, took : Nat, stray : BOOLEAN]

TypeOK ==
    /\ now \in 0..MaxTime /\ net \subseteq Packets
    /\ dev \in [Devices -> [packet : Packets \cup {NoPacket}, since : Nat]]
    /\ pc \in [Clients -> {"idle", "open", "waiting", "done", "killed"}]
    /\ sock \in [Clients -> Seq(Packets)]
    /\ nonce \in [Clients -> Nat] /\ sent \in [Clients -> Nat]
    /\ result \in [Clients -> Packets \cup {NoPacket}]
    /\ verdict \in [Clients -> {"none", "correct", "over"}]
    /\ dups \in 0..MaxDups /\ heard \in 0..MaxHeard
    /\ hurt \subseteq Clients /\ mixed \subseteq Clients /\ misread \subseteq Clients

Init ==
    /\ now = 0 /\ net = {} /\ dev = [d \in Devices |-> Idle]
    /\ pc = [c \in Clients |-> "idle"]
    /\ sock = [c \in Clients |-> <<>>]
    /\ nonce = [c \in Clients |-> 0]
    /\ sent = [c \in Clients |-> 0]
    /\ result = [c \in Clients |-> NoPacket] /\ verdict = [c \in Clients |-> "none"]
    /\ dups = 0 /\ heard = 0
    /\ hurt = {} /\ mixed = {} /\ misread = {}

Tick ==
    /\ now < MaxTime /\ now' = now + 1
    /\ UNCHANGED <<net, dev, clientVars, bounds, history>>

\* Runs of which a packet is about: under way, at a device, or in a socket of c.
About(c) ==
    {m.run : m \in net} \cup {dev[d].packet.run : d \in Devices}
    \cup {sock[c][k].run : k \in DOMAIN sock[c]}

-----------------------------------------------------------------------------
(* The client.                                                              *)

\* socket(): from now on ICMP packets of the host are queued.
Open(c) ==
    /\ pc[c] = "idle" /\ pc' = [pc EXCEPT ![c] = "open"]
    /\ UNCHANGED <<now, net, dev, sock, nonce, sent, result, verdict, bounds, history>>

\* Mutant of Send: the challenge is sent first and the socket opened then.
SendBeforeOpen(c) ==
    /\ \/ /\ pc[c] = "idle" /\ pc' = [pc EXCEPT ![c] = "unopened"]
          /\ nonce' = [nonce EXCEPT ![c] = now \div Second]
          /\ sent' = [sent EXCEPT ![c] = now]
          /\ net' = net \cup {Packet(now \div Second, Target[c], c)}
       \/ /\ pc[c] = "unopened" /\ pc' = [pc EXCEPT ![c] = "waiting"]
          /\ UNCHANGED <<net, nonce, sent>>
    /\ UNCHANGED <<now, dev, sock, result, verdict, bounds, history>>

\* The nonce is drawn, the clock is read and sendto is called; its failure is
\* reported and ignored.
Send(c) ==
    /\ pc[c] = "open" /\ pc' = [pc EXCEPT ![c] = "waiting"]
    /\ nonce' = [nonce EXCEPT ![c] = now \div Second]
    /\ sent' = [sent EXCEPT ![c] = now]
    /\ \/ /\ net' = net \cup {Packet(now \div Second, Target[c], c)}
          /\ UNCHANGED hurt
       \/ hurt' = hurt \cup {c} /\ UNCHANGED net
    \* Everything of another run that can still reach c, and c's packet the others.
    /\ mixed' = mixed \cup {x \in Clients : x # c /\ pc[x] \in {"open", "waiting"}}
                      \cup (IF About(c) \subseteq {c, None} THEN {} ELSE {c})
    /\ UNCHANGED <<now, dev, sock, result, verdict, bounds, misread>>

\* Mutant of Verdict: an off-by-one at the threshold.
VerdictLoose(c) == IF now - sent[c] <= Threshold THEN "correct" ELSE "over"

Verdict(c) == IF now - sent[c] < Threshold THEN "correct" ELSE "over"

Shows(c, m) ==
    /\ pc' = [pc EXCEPT ![c] = "done"]
    /\ result' = [result EXCEPT ![c] = m]
    /\ verdict' = [verdict EXCEPT ![c] = Verdict(c)]

\* recvfrom returns a packet of type 2: shown, whoever it is from.
Recv(c) ==
    /\ pc[c] = "waiting" /\ sock[c] # <<>>
    /\ Shows(c, Head(sock[c]))
    /\ sock' = [sock EXCEPT ![c] = <<>>]
    /\ UNCHANGED <<now, net, dev, nonce, sent, bounds, history>>

\* recvfrom fails, which is not looked at, and byte 20 of the challenge, still in the
\* buffer, happens to equal VET_ICMP_TYPE.
RecvFails(c) ==
    /\ pc[c] = "waiting"
    /\ Shows(c, Packet(nonce[c], Target[c], c))
    /\ sock' = [sock EXCEPT ![c] = <<>>]
    /\ misread' = misread \cup {c}
    /\ UNCHANGED <<now, net, dev, nonce, sent, bounds, hurt, mixed>>

\* There is no timeout; the user has had enough.
Kill(c) ==
    /\ pc[c] \in {"open", "waiting"} /\ pc' = [pc EXCEPT ![c] = "killed"]
    /\ sock' = [sock EXCEPT ![c] = <<>>]
    /\ UNCHANGED <<now, net, dev, nonce, sent, result, verdict, bounds, history>>

-----------------------------------------------------------------------------
(* The network.                                                             *)

Lose(m) ==
    /\ m \in net /\ net' = net \ {m}
    /\ hurt' = hurt \cup {m.run}
    /\ UNCHANGED <<now, dev, clientVars, bounds, mixed, misread>>

\* The packet leaves the network, or stays for a second delivery.
Leaves(m) ==
    \/ net' = net \ {m} /\ UNCHANGED dups
    \/ dups < MaxDups /\ dups' = dups + 1 /\ UNCHANGED net

\* Every socket of the host gets a copy.
ToHost(m) ==
    /\ m \in net /\ m.to = Host /\ Leaves(m)
    /\ sock' = [c \in Clients |-> IF pc[c] \in {"open", "waiting"} THEN Append(sock[c], m)
                                  ELSE sock[c]]
    /\ UNCHANGED <<now, dev, pc, nonce, sent, result, verdict, heard, history>>

\* smsc911x_poll takes the packet for a challenge.
ToDevice(d, m) ==
    /\ m \in net /\ m.to = d /\ dev[d] = Idle /\ Leaves(m)
    /\ dev' = [dev EXCEPT ![d] = [packet |-> m, since |-> now]]
    /\ UNCHANGED <<now, clientVars, heard, history>>

\* ... and does so without looking at the address.
Overhears(d, m) ==
    /\ d \in Promisc /\ m \in net /\ m.to # d /\ m.from # d /\ dev[d] = Idle
    /\ heard < MaxHeard /\ heard' = heard + 1
    /\ dev' = [dev EXCEPT ![d] = [packet |-> m, since |-> now]]
    /\ UNCHANGED <<now, net, clientVars, dups, history>>

-----------------------------------------------------------------------------
(* The device.                                                              *)

\* Mutant of Answer: the checksum is not copied back into the packet.
AnswerUnchanged(d) ==
    LET m == dev[d].packet
    IN  [m EXCEPT !.from = m.to, !.to = m.from,
                  !.took = now - dev[d].since, !.stray = @ \/ m.to # d]

\* Mutant of Answer: the addresses stay where they are.
AnswerToSelf(d) ==
    LET m == dev[d].packet
    IN  [m EXCEPT !.by = Append(@, d),
                  !.took = now - dev[d].since, !.stray = @ \/ m.to # d]

\* The checksum replaces the nonce; source and destination change places.
Answer(d) ==
    LET m == dev[d].packet
    IN  [m EXCEPT !.by = Append(@, d), !.from = m.to, !.to = m.from,
                  !.took = now - dev[d].since, !.stray = @ \/ m.to # d]

\* At its bound the clock stands still.
DeviceAnswers(d) ==
    /\ dev[d] # Idle /\ (now - dev[d].since >= Work \/ now = MaxTime)
    /\ dev' = [dev EXCEPT ![d] = Idle]
    /\ net' = net \cup {Answer(d)}
    /\ UNCHANGED <<now, clientVars, bounds, history>>

-----------------------------------------------------------------------------
Client(c) == Open(c) \/ Send(c) \/ Recv(c) \/ RecvFails(c) \/ Kill(c)

Deliver == \E m \in net : ToHost(m) \/ \E d \in Devices : ToDevice(d, m)

Next ==
    \/ Tick \/ Deliver
    \/ \E c \in Clients : Client(c)
    \/ \E m \in net : Lose(m) \/ \E d \in Devices : Overhears(d, m)
    \/ \E d \in Devices : DeviceAnswers(d)

Spec == Init /\ [][Next]_vars

-----------------------------------------------------------------------------
(* Properties.                                                              *)

\* What the client shows is the checksum of the device it was pointed at, over
\* the nonce it sent: the client compares neither the sender nor the nonce, so
\* this rests on no other run's packets being about, on no promiscuous
\* device having answered, and on recvfrom.
ResultIsTheAnswer ==
    \A c \in Clients :
        pc[c] = "done" /\ c \notin mixed \cup misread /\ ~result[c].stray =>
            result[c].by = <<Target[c]>> /\ result[c].nonce = nonce[c]

\* "Results are correct, attestation is within the threshold": the device really
\* computed this answer within the threshold, whatever the network did.
VerdictHonest ==
    \A c \in Clients :
        verdict[c] = "correct" /\ c \notin mixed \cup misread =>
            result[c].took < Threshold

\* An answer is not answered, so that the exchange comes to an end, unless a
\* promiscuous device joins in.
NoEcho ==
    \A m \in net \cup {dev[d].packet : d \in Devices} :
        ~m.stray => /\ m.to \in Devices => m.by = <<>>
                    /\ m.to = Host => Len(m.by) = 1

\* A client waits in vain only if one of its packets was lost: otherwise the
\* challenge or its answer is still under way. (There is no timeout; the
\* socket is open before the challenge is sent, and every socket of the
\* host gets a copy.)
NotInVain == \A c \in Clients : pc[c] = "waiting" /\ c \notin hurt => c \in About(c)

=============================================================================
