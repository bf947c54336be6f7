------------------------------ MODULE Network ------------------------------
(***************************************************************************)
(* The whole protocol: one proposer (`NodeActor::run_proposer`), the        *)
(* receivers of module NodeActor, and the P2P layer between them.           *)
(*                                                                         *)
(* The P2P layer is the commonware-p2p library, seen through its use: a    *)
(* send reaches the peers connected at that moment, each peer's messages   *)
(* of one channel arrive in order, the two channels are independent.  With *)
(* Lossy a send may skip any of its recipients (rate quotas 10/s and 256/s,*)
(* full mailboxes, a sender that exits): the code retries none of them.    *)
(*                                                                         *)
(* Messages to the proposer are not modelled: run_proposer reads nothing.  *)
(***************************************************************************)
EXTENDS NodeActor

CONSTANTS Proposer,       \* the node with role "proposer"
          MeshDegree,     \* --mesh-degree
          InitialLinks,   \* pairs connected from the start
          Lossy           \* may a send skip a connected recipient?

Wires == {{p, q} : p, q \in Peer}     \* who can be connected to whom

ASSUME NodesAssumption == Peer = Receiver \cup {Proposer} /\ Proposer \notin Receiver
ASSUME MeshAssumption == MeshDegree \in Nat
ASSUME LinksAssumption == InitialLinks \subseteq Wires
ASSUME LossyAssumption == Lossy \in BOOLEAN

VARIABLES linked,      \* pairs of connected nodes
          net,         \* messages under way: per sender, receiver and channel, in order
          started,     \* the proposer has found a peer
          next_block,  \* the block the proposer proposes next
          injected     \* history: packets of each block the proposer got out, the dropped ones not

netVars == <<linked, net, started, next_block, injected>>
vars == <<nodeVars, netVars>>

Channel == {"announce", "data"}
Link == Peer \X Receiver \X Channel

NetInit ==
    /\ Init
    /\ linked = InitialLinks
    /\ net = [l \in Link |-> <<>>]
    /\ started = FALSE
    /\ next_block = 0
    /\ injected = [b \in Blocks |-> {}]

-----------------------------------------------------------------------------
(***************************************************************************)
(* Sending.                                                                *)
(***************************************************************************)

\* Send msgs, one message per link: each goes out or, if Lossy, may be dropped.
Transmit(msgs) ==
    \E lost \in SUBSET DOMAIN msgs :
        /\ lost # {} => Lossy
        /\ net' = [l \in Link |->
                     IF l \in DOMAIN msgs \ lost THEN Append(net[l], msgs[l]) ELSE net[l]]

\* Messages for different links, sent together.
Both(f, g) == [l \in DOMAIN f \cup DOMAIN g |-> IF l \in DOMAIN f THEN f[l] ELSE g[l]]

Reachable(p) == {r \in Receiver : {p, r} \in linked /\ r # p}

\* Mutant: the next block is announced.
AnnounceNextFrom(p, b) ==
    [l \in {<<p, r, "announce">> : r \in Reachable(p)} |-> Announcement(b + 1, p)]

\* Recipients::All on the announce channel.
AnnounceFrom(p, b) ==
    [l \in {<<p, r, "announce">> : r \in Reachable(p)} |-> Announcement(b, p)]

\* Mutant: the sender is not filled in.
DataFromNobody(p, b, packet) ==
    [l \in {<<p, r, "data">> : r \in Reachable(p) \cap DOMAIN packet} |-> Data(b, packet[l[2]], NoPeer)]

\* Recipients::One for each target: packet i to target i, nothing to a peer that
\* is not connected.
DataFrom(p, b, packet) ==
    [l \in {<<p, r, "data">> : r \in Reachable(p) \cap DOMAIN packet} |-> Data(b, packet[l[2]], p)]

\* select_peers: mesh_degree random peers, never the excluded sender.
SelectPeers(p, exclude) ==
    LET candidates == Peer \ {p, exclude}
        size == IF MeshDegree < Cardinality(candidates) THEN MeshDegree ELSE Cardinality(candidates)
    IN  {T \in SUBSET candidates : Cardinality(T) = size}

-----------------------------------------------------------------------------
(***************************************************************************)
(* The proposer.                                                           *)
(***************************************************************************)

\* The library connects two nodes.
Connect(p, q) ==
    /\ p # q
    /\ {p, q} \notin linked
    /\ linked' = linked \cup {{p, q}}
    /\ UNCHANGED <<nodeVars, net, started, next_block, injected>>

\* The startup delay is over and a probe has reached somebody.
Probe ==
    /\ ~started
    /\ Reachable(Proposer) # {}
    /\ started' = TRUE
    /\ UNCHANGED <<nodeVars, linked, net, next_block, injected>>

\* The receivers a packet of the proposer's is now under way to: it was not dropped.
GotOut == {r \in Receiver : net'[<<Proposer, r, "data">>] # net[<<Proposer, r, "data">>]}

\* One turn of the proposer's loop: announce the block to everyone connected,
\* send one packet to each of mesh_degree peers, and never look back.  A packet is
\* a fresh random combination of the block's chunks: any element of Vec.  (The
\* sends are awaited one by one, but what receivers do meanwhile cannot affect
\* them.)
Propose ==
    /\ started
    /\ next_block < NumBlocks
    /\ \E targets \in SelectPeers(Proposer, NoPeer) :
       \E packet \in [targets -> Vec] :
           /\ Transmit(Both(AnnounceFrom(Proposer, next_block),
                            DataFrom(Proposer, next_block, packet)))
           /\ injected' = [injected EXCEPT ![next_block] =
                             {packet[r] : r \in targets \cap GotOut}]
    /\ next_block' = next_block + 1
    /\ UNCHANGED <<nodeVars, linked, started>>

-----------------------------------------------------------------------------
(***************************************************************************)
(* The receivers.                                                          *)
(***************************************************************************)

\* The select loop takes the next message of one link.
Deliver(r) ==
    \E p \in Peer, ch \in Channel :
        LET l == <<p, r, ch>>
        IN  /\ net[l] # <<>>
            /\ Receive(r, Head(net[l]))
            /\ net' = [net EXCEPT ![l] = Tail(@)]
            /\ UNCHANGED <<linked, started, next_block, injected>>

RecodingsAny(r) == Vec      \* mutant: packets made up
Recodings(r) == Span[Vecs(Extended(r))]

\* A recoding of what the decoder knows, per target, after this packet.
Forward(r) ==
    IF Forwards(r)
    THEN \E targets \in SelectPeers(r, Head(work[r]).from) :
         \E packet \in [targets -> Recodings(r)] :
             Transmit(DataFrom(r, block[r], packet))
    ELSE UNCHANGED net

\* One iteration of route's loop, with what it sends.
NodeStep(r) ==
    /\ \/ (SkipItem(r) \/ IgnoreAnnouncement(r) \/ BufferData(r) \/ RejectData(r)) /\ UNCHANGED net
       \/ IngestAnnouncement(r) /\ Transmit(AnnounceFrom(r, block[r]))
       \/ (AcceptData(r) \/ CompleteBlock(r)) /\ Forward(r)
    /\ UNCHANGED <<linked, started, next_block, injected>>

NetNext ==
    \/ \E p, q \in Peer : Connect(p, q)
    \/ Probe
    \/ Propose
    \/ \E r \in Receiver : Deliver(r) \/ NodeStep(r)

NetSpec == NetInit /\ [][NetNext]_vars

\* Timers fire, connections come up, a select loop with messages waiting takes
\* one, and a started route runs on.
NetFairness ==
    /\ WF_vars(Probe)
    /\ WF_vars(Propose)
    /\ \A p, q \in Peer : WF_vars(Connect(p, q))
    /\ \A r \in Receiver : WF_vars(Deliver(r)) /\ WF_vars(NodeStep(r))

FairNetSpec == NetSpec /\ NetFairness

-----------------------------------------------------------------------------
(***************************************************************************)
(* Properties.                                                             *)
(***************************************************************************)

NetTypeOK ==
    /\ linked \subseteq Wires
    /\ net \in [Link -> Seq(Arriving)]
    /\ started \in BOOLEAN
    /\ next_block \in BlockNum
    /\ injected \in [Blocks -> SUBSET Vec]

\* Recoding creates no information: whatever is under way, buffered, queued or
\* accepted anywhere can be derived from what the proposer got out of that block.
FromSource(b, v) == v \in Span[injected[b]]

NoInformationCreated ==
    /\ \A l \in Link : \A i \in 1 .. Len(net[l]) :
           net[l][i].ch = "data" => FromSource(net[l][i].block, net[l][i].vec)
    /\ \A r \in Receiver :
           /\ \A p \in got[r] : FromSource(p.block, p.vec)
           /\ \A p \in accepted[r] : FromSource(p.block, p.vec)

\* Hence nobody decodes a block the proposer did not get enough packets out of.
DecodableOnly ==
    \A r \in Receiver : \A b \in Blocks : b < block[r] => Span[injected[b]] = Vec

\* Receivers never run ahead of the proposer, and only ever hear of blocks it has
\* announced.
BehindProposer ==
    \A r \in Receiver :
        /\ block[r] <= next_block
        /\ phase[r] = "Decoding" => block[r] < next_block
        /\ \A b \in heard[r] : b < next_block

\* Everyone decodes every block.
EveryReceiverDecodes == <>(\A r \in Receiver : decoded_count[r] = NumBlocks)
=============================================================================
