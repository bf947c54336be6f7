--------------------------- MODULE NetworkProofs ---------------------------
(***************************************************************************)
(* Proofs about NodeActor, for any receivers, any number of blocks, any    *)
(* packet space with a closure operator, and each forward condition; and   *)
(* about Network, whose receivers behave as NodeActor's do, so that what   *)
(* is proved of them holds in it.                                          *)
(***************************************************************************)
EXTENDS Network, FiniteSetTheorems, TLAPS

\* Popping without queueing anything.
LEMMA PopOnly ==
    ASSUME NEW S, NEW w \in Seq(S), w # <<>>
    PROVE  Tail(w) \o <<>> = Tail(w)
  OBVIOUS

\* The head of a queue of messages is a message, of one of the two kinds.
LEMMA HeadFacts ==
    ASSUME NEW w \in Seq(Message), w # <<>>
    PROVE  /\ Head(w) \in Message
           /\ Head(w) = w[1]
           /\ Head(w).block \in Blocks
           /\ Head(w).ch \in {"announce", "data"}
           /\ Head(w).ch = "data" => Head(w).vec \in Vec
  <1>1. Head(w) \in Message /\ Head(w) = w[1]
    OBVIOUS
  <1>2. QED
    BY <1>1 DEF Message, AnnMsg, DataMsg

\* A buffer entry turns into messages of its block.
LEMMA ItemFacts ==
    ASSUME NEW b \in Blocks, NEW n \in Nat, NEW vs \in Seq(Vec)
    PROVE  /\ AnnItems(b, n) \in Seq(Message)
           /\ DataItems(b, vs) \in Seq(Message)
           /\ Len(AnnItems(b, n)) = n
           /\ Len(DataItems(b, vs)) = Len(vs)
           /\ \A i \in 1 .. n : AnnItems(b, n)[i] = Announcement(b, NoPeer)
           /\ \A i \in 1 .. Len(vs) : DataItems(b, vs)[i] = Data(b, vs[i], NoPeer)
  <1>1. Announcement(b, NoPeer) \in Message
    BY DEF Announcement, Message, AnnMsg
  <1>2. \A i \in 1 .. Len(vs) : Data(b, vs[i], NoPeer) \in Message
    BY DEF Data, Message, DataMsg
  <1>3. QED
    BY <1>1, <1>2 DEF AnnItems, DataItems

\* An empty buffer entry turns into nothing.
LEMMA NoItems ==
    ASSUME NEW b
    PROVE  AnnItems(b, 0) = <<>> /\ DataItems(b, <<>>) = <<>>
  BY DEF AnnItems, DataItems

\* Replacing one entry of a table keeps its type and every other entry.
LEMMA CountTableEntry ==
    \A f \in CountTable : \A r \in Receiver : \A b \in BlockNum : f[r][b] \in Nat
  BY DEF CountTable

\* A table of counts keeps its type when one entry is replaced.
LEMMA CountTableType ==
    \A f \in CountTable : \A r \in Receiver : \A b \in BlockNum : \A x \in Nat :
        SetAt(f, r, b, x) \in CountTable
  <1> SUFFICES ASSUME NEW f \in CountTable, NEW r \in Receiver, NEW b \in BlockNum, NEW x \in Nat
               PROVE  SetAt(f, r, b, x) \in CountTable
    OBVIOUS
  <1> DEFINE D == [BlockNum -> Nat]
             g == [f[r] EXCEPT ![b] = x]
  <1>1. f[r] \in D /\ f \in [Receiver -> D]
    BY DEF CountTable
  <1>2. g \in D
    BY <1>1
  <1>3. SetAt(f, r, b, x) = [f EXCEPT ![r] = g]
    BY DEF SetAt
  <1> HIDE DEF g, D
  <1>4. SetAt(f, r, b, x) \in [Receiver -> D]
    BY <1>1, <1>2, <1>3
  <1>5. QED
    BY <1>4 DEF D, CountTable

\* What SetAt leaves in a table of counts, entry by entry.
LEMMA CountTableAt ==
    \A f \in CountTable : \A r, q \in Receiver : \A b, e \in BlockNum : \A x \in Nat :
        SetAt(f, r, b, x)[q][e] = IF q = r /\ e = b THEN x ELSE f[q][e]
  <1> SUFFICES ASSUME NEW f \in CountTable, NEW r \in Receiver, NEW q \in Receiver,
                      NEW b \in BlockNum, NEW e \in BlockNum, NEW x \in Nat
               PROVE  SetAt(f, r, b, x)[q][e] = IF q = r /\ e = b THEN x ELSE f[q][e]
    OBVIOUS
  <1> DEFINE D == [BlockNum -> Nat]
             g == [f[r] EXCEPT ![b] = x]
  <1>1. f[r] \in D /\ f \in [Receiver -> D]
    BY DEF CountTable
  <1>2. g[e] = IF e = b THEN x ELSE f[r][e]
    BY <1>1
  <1>3. SetAt(f, r, b, x) = [f EXCEPT ![r] = g]
    BY DEF SetAt
  <1> HIDE DEF g, D
  <1>4. SetAt(f, r, b, x)[q] = IF q = r THEN g ELSE f[q]
    BY <1>1, <1>3
  <1>5. QED
    BY <1>2, <1>4

\* An entry of a table of queues is a queue.
LEMMA QueueTableEntry ==
    \A f \in QueueTable : \A r \in Receiver : \A b \in BlockNum : f[r][b] \in Seq(Vec)
  BY DEF QueueTable

\* A table of queues keeps its type when one entry is replaced.
LEMMA QueueTableType ==
    \A f \in QueueTable : \A r \in Receiver : \A b \in BlockNum : \A x \in Seq(Vec) :
        SetAt(f, r, b, x) \in QueueTable
  <1> SUFFICES ASSUME NEW f \in QueueTable, NEW r \in Receiver, NEW b \in BlockNum, NEW x \in Seq(Vec)
               PROVE  SetAt(f, r, b, x) \in QueueTable
    OBVIOUS
  <1> DEFINE D == [BlockNum -> Seq(Vec)]
             g == [f[r] EXCEPT ![b] = x]
  <1>1. f[r] \in D /\ f \in [Receiver -> D]
    BY DEF QueueTable
  <1>2. g \in D
    BY <1>1
  <1>3. SetAt(f, r, b, x) = [f EXCEPT ![r] = g]
    BY DEF SetAt
  <1> HIDE DEF g, D
  <1>4. SetAt(f, r, b, x) \in [Receiver -> D]
    BY <1>1, <1>2, <1>3
  <1>5. QED
    BY <1>4 DEF D, QueueTable

\* What SetAt leaves in a table of queues, entry by entry.
LEMMA QueueTableAt ==
    \A f \in QueueTable : \A r, q \in Receiver : \A b, e \in BlockNum : \A x \in Seq(Vec) :
        SetAt(f, r, b, x)[q][e] = IF q = r /\ e = b THEN x ELSE f[q][e]
  <1> SUFFICES ASSUME NEW f \in QueueTable, NEW r \in Receiver, NEW q \in Receiver,
                      NEW b \in BlockNum, NEW e \in BlockNum, NEW x \in Seq(Vec)
               PROVE  SetAt(f, r, b, x)[q][e] = IF q = r /\ e = b THEN x ELSE f[q][e]
    OBVIOUS
  <1> DEFINE D == [BlockNum -> Seq(Vec)]
             g == [f[r] EXCEPT ![b] = x]
  <1>1. f[r] \in D /\ f \in [Receiver -> D]
    BY DEF QueueTable
  <1>2. g[e] = IF e = b THEN x ELSE f[r][e]
    BY <1>1
  <1>3. SetAt(f, r, b, x) = [f EXCEPT ![r] = g]
    BY DEF SetAt
  <1> HIDE DEF g, D
  <1>4. SetAt(f, r, b, x)[q] = IF q = r THEN g ELSE f[q]
    BY <1>1, <1>3
  <1>5. QED
    BY <1>2, <1>4

-----------------------------------------------------------------------------
(***************************************************************************)
(* Type correctness, action by action.                                     *)
(***************************************************************************)

\* The block after the last is a block number but no block.
LEMMA NumBlocksIsBlockNum == NumBlocks \in BlockNum /\ NumBlocks \notin Blocks
  BY BlocksAssumption DEF BlockNum, Blocks

\* NodeActor::new: the initial state has the declared types.
LEMMA TypeInit == Init => TypeOK
  BY BlocksAssumption DEF Init, TypeOK, BlockNum, Blocks, NoBlock, CountTable, QueueTable

\* The history a message leaves is well typed.
LEMMA RecordType ==
    ASSUME TypeOK, NEW r \in Receiver, NEW m \in Message, Record(r, m)
    PROVE  /\ got' \in [Receiver -> SUBSET Packet]
           /\ heard' \in [Receiver -> SUBSET Blocks]
           /\ UNCHANGED <<decoded, failed, fwds, rebcast>>
  <1>1. m.block \in Blocks /\ (m.ch = "data" => m.vec \in Vec)
    BY DEF Message, AnnMsg, DataMsg
  <1>2. m.ch = "data" => [block |-> m.block, vec |-> m.vec] \in Packet
    BY <1>1 DEF Packet
  <1>3. QED
    BY <1>1, <1>2 DEF Record, TypeOK

\* The head of route keeps the types.
LEMMA ReceiveType ==
    ASSUME TypeOK, NEW r \in Receiver, NEW m \in Arriving, Receive(r, m)
    PROVE  TypeOK'
  <1>1. m \in Message /\ m.block \in Blocks /\ (m.ch = "data" => m.vec \in Vec)
    BY DEF Arriving, Message, AnnMsg, DataMsg
  <1>2. CASE RouteStale(r, m)
    BY <1>1, <1>2, RecordType DEF RouteStale, actorVars, protocolVars, TypeOK
  <1>3. CASE RouteFuture(r, m)
    <2> USE <1>1, <1>3 DEF RouteFuture, Future
    <2>1. m.block \in BlockNum /\ m.block # NumBlocks
      BY BlocksAssumption DEF Blocks, BlockNum
    <2>2. /\ bufAnn' \in CountTable
          /\ \A q \in Receiver : bufAnn'[q][NumBlocks] = 0
      <3>1. /\ bufAnn \in CountTable
            /\ \A q \in Receiver : bufAnn[q][NumBlocks] = 0
            /\ bufAnn' = bufAnn \/ bufAnn' = SetAt(bufAnn, r, m.block, bufAnn[r][m.block] + 1)
        BY DEF TypeOK
      <3>2. bufAnn[r][m.block] + 1 \in Nat
        BY <2>1, <3>1, CountTableEntry
      <3>3. QED
        BY ONLY <2>1, <3>1, <3>2, CountTableType, CountTableAt, NumBlocksIsBlockNum, r \in Receiver
    <2>3. /\ bufData' \in QueueTable
          /\ \A q \in Receiver : bufData'[q][NumBlocks] = <<>>
      <3>1. /\ bufData \in QueueTable
            /\ \A q \in Receiver : bufData[q][NumBlocks] = <<>>
            /\ \/ bufData' = bufData
               \/ /\ m.ch = "data"
                  /\ bufData' = SetAt(bufData, r, m.block, Append(bufData[r][m.block], m.vec))
        BY DEF TypeOK
      <3>2. m.ch = "data" => Append(bufData[r][m.block], m.vec) \in Seq(Vec)
        BY <2>1, <3>1, QueueTableEntry
      <3>3. bufData' = bufData \/ \E x \in Seq(Vec) : bufData' = SetAt(bufData, r, m.block, x)
        BY <3>1, <3>2
      <3>4. QED
        BY ONLY <2>1, <3>1, <3>3, QueueTableType, QueueTableAt, NumBlocksIsBlockNum, r \in Receiver
    <2>4. QED
      BY <2>2, <2>3, RecordType DEF protocolVars, TypeOK
  <1>4. CASE RouteCurrent(r, m)
    <2>1. work' \in [Receiver -> Seq(Message)]
      BY <1>1, <1>4 DEF RouteCurrent, Current, TypeOK
    <2>2. QED
      BY <1>1, <1>4, <2>1, RecordType DEF RouteCurrent, Current, protocolVars, TypeOK
  <1>5. QED
    BY <1>2, <1>3, <1>4 DEF Receive

\* Facts every loop iteration starts from.
LEMMA WorkingFacts ==
    ASSUME TypeOK, NEW r \in Receiver, work[r] # <<>>
    PROVE  /\ work[r] \in Seq(Message)
           /\ Head(work[r]) \in Message
           /\ Head(work[r]) = work[r][1]
           /\ Head(work[r]).block \in Blocks
           /\ Head(work[r]).ch \in {"announce", "data"}
           /\ Head(work[r]).ch = "data" => Head(work[r]).vec \in Vec
           /\ block[r] \in BlockNum
           /\ Tail(work[r]) \in Seq(Message)
           /\ Tail(work[r]) \o <<>> = Tail(work[r])
  <1>1. work[r] \in Seq(Message)
    BY DEF TypeOK
  <1>2. Tail(work[r]) \in Seq(Message)
    BY <1>1
  <1>3. QED
    BY <1>1, <1>2, HeadFacts, PopOnly DEF TypeOK

\* The loop's branches that ingest nothing useful keep the types.
LEMMA SimpleStepType ==
    ASSUME TypeOK, NEW r \in Receiver,
           SkipItem(r) \/ IgnoreAnnouncement(r) \/ BufferData(r) \/ RejectData(r)
    PROVE  TypeOK'
  <1>1. work[r] # <<>>
    BY DEF SkipItem, IgnoreAnnouncement, BufferData, RejectData, Ingesting, Working
  <1>2. work' = [work EXCEPT ![r] = Tail(@)]
    BY <1>1, WorkingFacts
    DEF SkipItem, IgnoreAnnouncement, BufferData, RejectData, PopTo, TypeOK
  <1>3. work' \in [Receiver -> Seq(Message)]
    BY <1>1, <1>2, WorkingFacts DEF TypeOK
  <1>4. CASE SkipItem(r)
    BY <1>3, <1>4 DEF SkipItem, TypeOK, protocolVars, historyVars
  <1>5. CASE IgnoreAnnouncement(r)
    BY <1>3, <1>5 DEF IgnoreAnnouncement, TypeOK, protocolVars, historyVars
  <1>6. CASE BufferData(r)
    <2>1. block[r] \in BlockNum /\ block[r] # NumBlocks /\ Head(work[r]).vec \in Vec
      BY <1>1, <1>6, WorkingFacts, BlocksAssumption DEF BufferData, Working, Blocks, BlockNum
    <2>2. /\ bufData' \in QueueTable
          /\ \A q \in Receiver : bufData'[q][NumBlocks] = <<>>
      <3>1. /\ bufData \in QueueTable
            /\ \A q \in Receiver : bufData[q][NumBlocks] = <<>>
            /\ bufData' = SetAt(bufData, r, block[r],
                                Append(bufData[r][block[r]], Head(work[r]).vec))
        BY <1>6 DEF TypeOK, BufferData
      <3>2. Append(bufData[r][block[r]], Head(work[r]).vec) \in Seq(Vec)
        BY <2>1, <3>1, QueueTableEntry
      <3>3. \E x \in Seq(Vec) : bufData' = SetAt(bufData, r, block[r], x)
        BY <3>1, <3>2
      <3>4. QED
        BY ONLY <2>1, <3>1, <3>3, QueueTableType, QueueTableAt, NumBlocksIsBlockNum, r \in Receiver
    <2>3. QED
      BY <1>3, <1>6, <2>2 DEF BufferData, TypeOK, protocolVars, historyVars
  <1>7. CASE RejectData(r)
    <2>1. failed' \in [Receiver -> Nat]
      BY <1>7 DEF RejectData, TypeOK
    <2>2. QED
      BY <1>3, <1>7, <2>1 DEF RejectData, TypeOK, protocolVars
  <1>8. QED
    BY <1>4, <1>5, <1>6, <1>7

\* Emptying a buffer entry.
LEMMA ClearType ==
    ASSUME TypeOK, NEW r \in Receiver, NEW b \in BlockNum,
           bufAnn' = SetAt(bufAnn, r, b, 0), bufData' = SetAt(bufData, r, b, <<>>)
    PROVE  /\ bufAnn' \in CountTable
           /\ bufData' \in QueueTable
           /\ \A q \in Receiver : bufAnn'[q][NumBlocks] = 0 /\ bufData'[q][NumBlocks] = <<>>
  <1> DEFINE none == <<>>
  <1>1. /\ bufAnn \in CountTable
        /\ bufData \in QueueTable
        /\ \A q \in Receiver : bufAnn[q][NumBlocks] = 0
        /\ \A q \in Receiver : bufData[q][NumBlocks] = none
    BY DEF TypeOK
  <1>2. \E x \in Nat : x = 0 /\ bufAnn' = SetAt(bufAnn, r, b, x)
    OBVIOUS
  <1>3. none \in Seq(Vec) /\ bufData' = SetAt(bufData, r, b, none)
    OBVIOUS
  <1> HIDE DEF none
  <1>4. bufAnn' \in CountTable /\ \A q \in Receiver : bufAnn'[q][NumBlocks] = 0
    BY ONLY <1>1, <1>2, CountTableType, CountTableAt, NumBlocksIsBlockNum, r \in Receiver, b \in BlockNum
  <1>5. bufData' \in QueueTable /\ \A q \in Receiver : bufData'[q][NumBlocks] = none
    BY ONLY <1>1, <1>3, QueueTableType, QueueTableAt, NumBlocksIsBlockNum, r \in Receiver, b \in BlockNum
  <1>6. QED
    BY <1>4, <1>5 DEF none

\* Ingesting an announcement keeps the types.
LEMMA IngestAnnouncementType ==
    ASSUME TypeOK, NEW r \in Receiver, IngestAnnouncement(r)
    PROVE  TypeOK'
  <1> USE DEF IngestAnnouncement
  <1>1. work[r] # <<>> /\ Head(work[r]).block = block[r]
    BY DEF Working
  <1>2. block[r] \in Blocks /\ block[r] \in BlockNum /\ block[r] # NumBlocks
    BY <1>1, WorkingFacts, BlocksAssumption DEF Blocks, BlockNum
  <1>3. bufAnn \in CountTable /\ bufData \in QueueTable /\ rebcast \in CountTable
    BY DEF TypeOK
  <1>4. bufData[r][block[r]] \in Seq(Vec) /\ rebcast[r][block[r]] + 1 \in Nat
    BY <1>2, <1>3, QueueTableEntry, CountTableEntry
  <1>5. Tail(work[r]) \o DataItems(block[r], bufData[r][block[r]]) \in Seq(Message)
    <2>1. DataItems(block[r], bufData[r][block[r]]) \in Seq(Message)
      BY <1>2, <1>4, ItemFacts
    <2>2. QED
      BY <1>1, <2>1, WorkingFacts
  <1>6. work' \in [Receiver -> Seq(Message)]
    BY <1>5 DEF PopTo, TypeOK
  <1>7. rebcast' \in CountTable
    BY <1>2, <1>3, <1>4, CountTableType
  <1>8. /\ bufAnn' \in CountTable
        /\ bufData' \in QueueTable
        /\ \A q \in Receiver : bufAnn'[q][NumBlocks] = 0 /\ bufData'[q][NumBlocks] = <<>>
    BY <1>2, ClearType
  <1>9. ctx' \in [Receiver -> Blocks \cup {NoBlock}] /\ phase' \in [Receiver -> {"Init", "Decoding"}]
    BY <1>2 DEF TypeOK
  <1>10. QED
    BY <1>6, <1>7, <1>8, <1>9 DEF TypeOK

\* Accepting a packet of the current block keeps the decoder well typed.
LEMMA ExtendedType ==
    ASSUME TypeOK, NEW r \in Receiver, Ingesting(r)
    PROVE  /\ Extended(r) \in SUBSET Packet
           /\ block[r] \in Blocks
           /\ block[r] \in BlockNum
           /\ block[r] # NumBlocks
           /\ work[r] # <<>>
  <1>1. work[r] # <<>> /\ Head(work[r]).block = block[r] /\ Head(work[r]).ch = "data"
    BY DEF Ingesting, Working
  <1>2. block[r] \in Blocks /\ Head(work[r]).vec \in Vec
    BY <1>1, WorkingFacts
  <1>3. [block |-> block[r], vec |-> Head(work[r]).vec] \in Packet
    BY <1>2 DEF Packet
  <1>4. accepted[r] \in SUBSET Packet
    BY DEF TypeOK
  <1>5. QED
    BY <1>1, <1>2, <1>3, <1>4, BlocksAssumption DEF Extended, Blocks, BlockNum

\* The count of forwarding rounds keeps its type, forwarded or not.
LEMMA ForwardCountType ==
    ASSUME TypeOK, NEW r \in Receiver, block[r] \in BlockNum,
           fwds' = IF Forwards(r) THEN SetAt(fwds, r, block[r], fwds[r][block[r]] + 1) ELSE fwds
    PROVE  fwds' \in CountTable
  <1>1. fwds \in CountTable
    BY DEF TypeOK
  <1>2. fwds[r][block[r]] + 1 \in Nat
    BY <1>1, CountTableEntry
  <1>3. QED
    BY <1>1, <1>2, CountTableType

\* Accepting a packet short of full rank keeps the types.
LEMMA AcceptDataType ==
    ASSUME TypeOK, NEW r \in Receiver, AcceptData(r)
    PROVE  TypeOK'
  <1> USE DEF AcceptData
  <1>1. fwds' \in CountTable
    BY ExtendedType, ForwardCountType
  <1>2. work' \in [Receiver -> Seq(Message)]
    BY ExtendedType, WorkingFacts DEF PopTo, TypeOK
  <1>3. accepted' \in [Receiver -> SUBSET Packet]
    BY ExtendedType DEF TypeOK
  <1>4. Forwards(r) \in BOOLEAN
    BY ForwardAssumption DEF Forwards, ShouldForward, TypeOK
  <1>5. forwarded' \in [Receiver -> BOOLEAN]
    BY <1>4 DEF TypeOK
  <1>6. QED
    BY <1>1, <1>2, <1>3, <1>5 DEF TypeOK

\* Completing a block keeps the types: a next block number exists.
LEMMA CompleteBlockType ==
    ASSUME TypeOK, DecodedInOrder, BlockIsolation, NEW r \in Receiver, CompleteBlock(r)
    PROVE  TypeOK'
  <1> USE DEF CompleteBlock, ResetProtocol
  <1> DEFINE next == block[r] + 1
             ann == AnnItems(next, bufAnn[r][next])
             dat == DataItems(next, bufData[r][next])
  <1>1. /\ block[r] \in Blocks /\ block[r] \in BlockNum /\ next \in BlockNum
        /\ work[r] # <<>> /\ Extended(r) \in SUBSET Packet
    BY ExtendedType, BlocksAssumption DEF Blocks, BlockNum
  <1>2. fwds' \in CountTable
    BY <1>1, ForwardCountType
  <1>3. /\ bufAnn' \in CountTable
        /\ bufData' \in QueueTable
        /\ \A q \in Receiver : bufAnn'[q][NumBlocks] = 0 /\ bufData'[q][NumBlocks] = <<>>
    BY <1>1, ClearType
  <1>4. ann \in Seq(Message) /\ dat \in Seq(Message)
    <2>1. bufAnn[r][next] \in Nat /\ bufData[r][next] \in Seq(Vec)
      BY <1>1, CountTableEntry, QueueTableEntry DEF TypeOK
    <2>2. CASE next \in Blocks
      BY <2>1, <2>2, ItemFacts
    <2>3. CASE next = NumBlocks
      <3>1. bufAnn[r][next] = 0 /\ bufData[r][next] = <<>>
        <4>1. bufAnn[r][NumBlocks] = 0 /\ bufData[r][NumBlocks] = <<>>
          BY DEF TypeOK
        <4>2. QED
          BY ONLY <2>3, <4>1
      <3>2. ann = <<>> /\ dat = <<>>
        <4>1. AnnItems(next, 0) = <<>> /\ DataItems(next, <<>>) = <<>>
          BY NoItems
        <4>2. QED
          BY ONLY <3>1, <4>1, Zenon
      <3>3. <<>> \in Seq(Message)
        OBVIOUS
      <3>4. QED
        BY ONLY <3>2, <3>3, Zenon
    <2>4. QED
      BY <1>1, <2>2, <2>3, BlocksAssumption DEF Blocks, BlockNum
  <1>5. work' = [work EXCEPT ![r] = Tail(@) \o (ann \o dat)]
    BY DEF PopTo
  <1> HIDE DEF ann, dat
  <1>6. Tail(work[r]) \o (ann \o dat) \in Seq(Message)
    BY <1>1, <1>4, WorkingFacts
  <1>7. work' \in [Receiver -> Seq(Message)]
    BY <1>5, <1>6 DEF TypeOK
  <1>8. decoded' \in [Receiver -> Seq(DecodedRecord)]
    <2>1. ctx[r] \in Blocks
      BY <1>1 DEF BlockIsolation, IsolatedAt, Ingesting
    <2>2. [ctx |-> ctx[r], packets |-> Extended(r)] \in DecodedRecord
      BY <1>1, <2>1 DEF DecodedRecord
    <2>3. QED
      BY <2>2 DEF TypeOK
  <1>9. decoded_count' \in [Receiver -> BlockNum] /\ block' \in [Receiver -> BlockNum]
    BY <1>1 DEF TypeOK, DecodedInOrder, DecodedAt
  <1>10. /\ accepted' \in [Receiver -> SUBSET Packet]
         /\ ctx' \in [Receiver -> Blocks \cup {NoBlock}]
         /\ forwarded' \in [Receiver -> BOOLEAN]
         /\ phase' \in [Receiver -> {"Init", "Decoding"}]
    BY DEF TypeOK
  <1>11. QED
    BY <1>2, <1>3, <1>7, <1>8, <1>9, <1>10 DEF TypeOK

\* One step of a receiver.
Act(r) == (\E m \in Arriving : Receive(r, m)) \/ ChannelClosed(r) \/ Step(r)

\* Every step keeps the types.
LEMMA TypeStep ==
    ASSUME TypeOK, DecodedInOrder, BlockIsolation, NEW r \in Receiver, Act(r)
    PROVE  TypeOK'
  <1>1. CASE \E m \in Arriving : Receive(r, m)
    BY <1>1, ReceiveType
  <1>2. CASE ChannelClosed(r)
    BY <1>2 DEF ChannelClosed, TypeOK, protocolVars, historyVars
  <1>3. CASE Step(r)
    BY <1>3, SimpleStepType, IngestAnnouncementType, AcceptDataType, CompleteBlockType DEF Step
  <1>4. QED
    BY <1>1, <1>2, <1>3 DEF Act

-----------------------------------------------------------------------------
(***************************************************************************)
(* The inductive invariant is local to a receiver, and a step of one       *)
(* receiver leaves the others alone.                                       *)
(***************************************************************************)

\* What ForwardPolicy needs besides itself: the flag says whether the block was
\* forwarded, and the decoder's packets can be counted.
FlagAt(r) ==
    /\ forwarded[r] <=> fwds[r][block[r]] > 0
    /\ IsFiniteSet(accepted[r])

LocalInv(r) ==
    /\ IsolatedAt(r)
    /\ failed[r] = 0
    /\ DecodedAt(r)
    /\ KeptAt(r)
    /\ AnnKeptAt(r)
    /\ PrunedAt(r)
    /\ NotAheadAt(r)
    /\ AnnouncedAt(r)
    /\ ForwardAt(r)
    /\ FlagAt(r)

IInv == TypeOK /\ \A r \in Receiver : LocalInv(r)

Same(q) ==
    /\ phase'[q] = phase[q] /\ block'[q] = block[q]
    /\ bufAnn'[q] = bufAnn[q] /\ bufData'[q] = bufData[q]
    /\ work'[q] = work[q] /\ forwarded'[q] = forwarded[q]
    /\ ctx'[q] = ctx[q] /\ accepted'[q] = accepted[q]
    /\ decoded_count'[q] = decoded_count[q] /\ running'[q] = running[q]
    /\ got'[q] = got[q] /\ heard'[q] = heard[q]
    /\ decoded'[q] = decoded[q] /\ failed'[q] = failed[q]
    /\ fwds'[q] = fwds[q] /\ rebcast'[q] = rebcast[q]

\* SetAt leaves the other receivers' rows alone.
LEMMA SetAtOther ==
    ASSUME NEW f, DOMAIN f = Receiver, NEW r \in Receiver, NEW q \in Receiver, q # r, NEW b, NEW x
    PROVE  SetAt(f, r, b, x)[q] = f[q]
  BY DEF SetAt

\* Every variable is a table over the receivers.
LEMMA TableDomains ==
    ASSUME TypeOK
    PROVE  /\ DOMAIN bufAnn = Receiver /\ DOMAIN bufData = Receiver
           /\ DOMAIN fwds = Receiver /\ DOMAIN rebcast = Receiver
  BY DEF TypeOK, CountTable, QueueTable

\* A step of one receiver changes nothing of another's.
LEMMA Frame ==
    ASSUME TypeOK, NEW r \in Receiver, Act(r), NEW q \in Receiver, q # r
    PROVE  Same(q)
  <1> USE TableDomains, SetAtOther DEF Same
  <1>1. ASSUME NEW m \in Arriving, Receive(r, m) PROVE Same(q)
    <2>1. got'[q] = got[q] /\ heard'[q] = heard[q] /\ UNCHANGED <<decoded, failed, fwds, rebcast>>
      BY <1>1 DEF Receive, RouteStale, RouteFuture, RouteCurrent, Record, TypeOK
    <2>2. CASE RouteStale(r, m)
      BY <2>1, <2>2 DEF RouteStale, actorVars, protocolVars
    <2>3. CASE RouteFuture(r, m)
      BY <2>1, <2>3 DEF RouteFuture, Future, protocolVars
    <2>4. CASE RouteCurrent(r, m)
      BY <2>1, <2>4 DEF RouteCurrent, Current, protocolVars, TypeOK
    <2>5. QED
      BY <1>1, <2>2, <2>3, <2>4 DEF Receive
  <1>2. CASE ChannelClosed(r)
    BY <1>2 DEF ChannelClosed, protocolVars, historyVars, TypeOK
  <1>3. CASE SkipItem(r)
    BY <1>3 DEF SkipItem, PopTo, protocolVars, historyVars, TypeOK
  <1>4. CASE IgnoreAnnouncement(r)
    BY <1>4 DEF IgnoreAnnouncement, PopTo, protocolVars, historyVars, TypeOK
  <1>5. CASE BufferData(r)
    BY <1>5 DEF BufferData, PopTo, protocolVars, historyVars, TypeOK
  <1>6. CASE RejectData(r)
    BY <1>6 DEF RejectData, PopTo, protocolVars, TypeOK
  <1>7. CASE IngestAnnouncement(r)
    BY <1>7 DEF IngestAnnouncement, PopTo, TypeOK
  <1>8. CASE AcceptData(r)
    BY <1>8 DEF AcceptData, PopTo, TypeOK
  <1>9. CASE CompleteBlock(r)
    BY <1>9 DEF CompleteBlock, ResetProtocol, PopTo, TypeOK
  <1>10. QED
    BY <1>1, <1>2, <1>3, <1>4, <1>5, <1>6, <1>7, <1>8, <1>9 DEF Act, Step

\* A receiver whose variables are unchanged keeps its local invariant.
LEMMA SameLocal ==
    ASSUME NEW q \in Receiver, Same(q), LocalInv(q)
    PROVE  LocalInv(q)'
  <1>1. IsolatedAt(q)' /\ failed'[q] = 0 /\ FlagAt(q)'
    BY DEF Same, LocalInv, IsolatedAt, FlagAt
  <1>2. DecodedAt(q)'
    BY DEF Same, LocalInv, DecodedAt
  <1>3. KeptAt(q)'
    BY DEF Same, LocalInv, KeptAt, InBuffer, InWork, Derived
  <1>4. AnnKeptAt(q)' /\ NotAheadAt(q)'
    BY DEF Same, LocalInv, AnnKeptAt, AnnInWork, NotAheadAt
  <1>5. PrunedAt(q)' /\ AnnouncedAt(q)'
    BY DEF Same, LocalInv, PrunedAt, AnnouncedAt
  <1>6. ForwardAt(q)'
    BY DEF Same, LocalInv, ForwardAt
  <1>7. QED
    BY <1>1, <1>2, <1>3, <1>4, <1>5, <1>6 DEF LocalInv

-----------------------------------------------------------------------------
(***************************************************************************)
(* The receiver that steps.                                                *)
(***************************************************************************)

\* An iteration takes the head off the work queue and queues u: every other
\* item stays, and those of u are there.
LEMMA PopKeeps ==
    ASSUME TypeOK, NEW r \in Receiver, work[r] # <<>>, NEW u \in Seq(Message),
           work'[r] = Tail(work[r]) \o u
    PROVE  /\ \A p : InWork(r, p) =>
                  \/ InWork(r, p)'
                  \/ /\ Head(work[r]).ch = "data"
                     /\ Head(work[r]).block = p.block
                     /\ Head(work[r]).vec = p.vec
           /\ \A b : AnnInWork(r, b) =>
                  AnnInWork(r, b)' \/ (Head(work[r]).ch = "announce" /\ Head(work[r]).block = b)
           /\ \A i \in 1 .. Len(u) : \E j \in 1 .. Len(work'[r]) : work'[r][j] = u[i]
           /\ \A n \in Int :
                  /\ \A i \in 1 .. Len(work[r]) : work[r][i].block <= n
                  /\ \A i \in 1 .. Len(u) : u[i].block <= n
                  => \A i \in 1 .. Len(work'[r]) : work'[r][i].block <= n
  <1> DEFINE w == work[r]
             v == work'[r]
  <1>1. /\ w \in Seq(Message) /\ w # <<>> /\ v = Tail(w) \o u
        /\ Head(w) = w[1] /\ Len(w) \in Nat /\ Len(u) \in Nat
    BY WorkingFacts
  <1> HIDE DEF w, v
  <1>2. /\ Len(v) = Len(w) - 1 + Len(u)
        /\ \A i \in 1 .. Len(w) - 1 : v[i] = w[i + 1]
        /\ \A i \in 1 .. Len(u) : v[Len(w) - 1 + i] = u[i]
    BY ONLY <1>1, u \in Seq(Message)
  <1>3. \A i \in 1 .. Len(w) : i = 1 \/ (i - 1 \in 1 .. Len(v) /\ v[i - 1] = w[i])
    BY ONLY <1>1, <1>2
  <1>4. \A i \in 1 .. Len(u) : \E j \in 1 .. Len(v) : v[j] = u[i]
    <2> TAKE i \in 1 .. Len(u)
    <2>1. Len(w) - 1 \in Nat
      BY <1>1
    <2>2. Len(w) - 1 + i \in 1 .. Len(v) /\ v[Len(w) - 1 + i] = u[i]
      BY <1>1, <1>2, <2>1
    <2>3. QED
      BY <2>2
  <1>5. \A j \in 1 .. Len(v) :
            \/ j + 1 \in 1 .. Len(w) /\ v[j] = w[j + 1]
            \/ \E i \in 1 .. Len(u) : v[j] = u[i]
    <2> TAKE j \in 1 .. Len(v)
    <2>1. CASE j <= Len(w) - 1
      BY <1>1, <1>2, <2>1
    <2>2. CASE j > Len(w) - 1
      <3> DEFINE k == j - (Len(w) - 1)
      <3>1. k \in 1 .. Len(u) /\ Len(w) - 1 + k = j
        BY <1>1, <1>2, <2>2
      <3> HIDE DEF k
      <3>2. v[j] = u[k]
        BY <1>2, <3>1
      <3>3. QED
        BY <3>1, <3>2
    <2>3. QED
      BY <1>1, <2>1, <2>2
  <1>6. \A p : InWork(r, p) =>
            \/ InWork(r, p)'
            \/ Head(w).ch = "data" /\ Head(w).block = p.block /\ Head(w).vec = p.vec
    BY <1>1, <1>3 DEF InWork, w, v
  <1>7. \A b : AnnInWork(r, b) =>
            AnnInWork(r, b)' \/ (Head(w).ch = "announce" /\ Head(w).block = b)
    BY <1>1, <1>3 DEF AnnInWork, w, v
  <1>8. ASSUME NEW n \in Int,
               \A i \in 1 .. Len(w) : w[i].block <= n,
               \A i \in 1 .. Len(u) : u[i].block <= n
        PROVE  \A i \in 1 .. Len(v) : v[i].block <= n
    BY <1>5, <1>8
  <1>9. QED
    BY <1>4, <1>6, <1>7, <1>8 DEF w, v

\* The same when nothing is queued.
LEMMA PopOnlyKeeps ==
    ASSUME TypeOK, NEW r \in Receiver, work[r] # <<>>, PopTo(r, <<>>), NotAheadAt(r)
    PROVE  /\ \A p : InWork(r, p) =>
                  \/ InWork(r, p)'
                  \/ /\ Head(work[r]).ch = "data"
                     /\ Head(work[r]).block = p.block
                     /\ Head(work[r]).vec = p.vec
           /\ \A b : AnnInWork(r, b) =>
                  AnnInWork(r, b)' \/ (Head(work[r]).ch = "announce" /\ Head(work[r]).block = b)
           /\ \A i \in 1 .. Len(work'[r]) : work'[r][i].block <= block[r]
  <1>1. work'[r] = Tail(work[r]) \o <<>> /\ <<>> \in Seq(Message) /\ block[r] \in Int
    BY DEF PopTo, TypeOK, BlockNum
  <1>2. \A i \in 1 .. Len(<<>>) : <<>>[i].block <= block[r]
    OBVIOUS
  <1>3. QED
    BY <1>1, <1>2, PopKeeps DEF NotAheadAt

\* An early message adds to one buffer entry.
LEMMA RouteFutureAt ==
    ASSUME TypeOK, NEW r \in Receiver, NEW m \in Arriving, RouteFuture(r, m)
    PROVE  /\ \A b \in BlockNum :
                 bufAnn'[r][b] = IF m.ch = "announce" /\ b = m.block
                                 THEN bufAnn[r][b] + 1 ELSE bufAnn[r][b]
           /\ \A b \in BlockNum :
                 bufData'[r][b] = IF m.ch = "data" /\ b = m.block
                                  THEN Append(bufData[r][b], m.vec) ELSE bufData[r][b]
  <1>1. /\ m.block \in BlockNum /\ m.ch \in {"announce", "data"}
        /\ m.ch = "data" => m.vec \in Vec
    BY BlocksAssumption DEF Arriving, Message, AnnMsg, DataMsg, Blocks, BlockNum
  <1>2. bufAnn \in CountTable /\ bufData \in QueueTable
    BY DEF TypeOK
  <1>3. \A b \in BlockNum :
            bufAnn'[r][b] = IF m.ch = "announce" /\ b = m.block
                            THEN bufAnn[r][b] + 1 ELSE bufAnn[r][b]
    <2>1. bufAnn[r][m.block] + 1 \in Nat
      BY <1>1, <1>2, CountTableEntry
    <2>2. QED
      BY <1>1, <1>2, <2>1, CountTableAt DEF RouteFuture
  <1>4. \A b \in BlockNum :
            bufData'[r][b] = IF m.ch = "data" /\ b = m.block
                             THEN Append(bufData[r][b], m.vec) ELSE bufData[r][b]
    <2>1. CASE m.ch = "data"
      <3> DEFINE x == Append(bufData[r][m.block], m.vec)
      <3>1. x \in Seq(Vec)
        BY <1>1, <1>2, <2>1, QueueTableEntry
      <3>2. bufData' = SetAt(bufData, r, m.block, x)
        BY <2>1 DEF RouteFuture
      <3> HIDE DEF x
      <3>3. \A b \in BlockNum : bufData'[r][b] = IF b = m.block THEN x ELSE bufData[r][b]
        BY ONLY <1>1, <1>2, <3>1, <3>2, QueueTableAt, r \in Receiver
      <3>4. QED
        BY <2>1, <3>3 DEF x
    <2>2. CASE m.ch # "data"
      BY <2>2 DEF RouteFuture
    <2>3. QED
      BY <2>1, <2>2
  <1>5. QED
    BY <1>3, <1>4

\* An arriving message: the buffer or the work queue has it, or it is stale.
LEMMA ReceiveLocal ==
    ASSUME TypeOK, NEW r \in Receiver, LocalInv(r), NEW m \in Arriving, Receive(r, m)
    PROVE  LocalInv(r)'
  <1>1. /\ m \in Message /\ m.block \in Blocks /\ m.block \in BlockNum
        /\ m.ch \in {"announce", "data"} /\ (m.ch = "data" => m.vec \in Vec)
        /\ block[r] \in BlockNum
    BY BlocksAssumption DEF Arriving, Message, AnnMsg, DataMsg, Blocks, BlockNum, TypeOK
  <1>2. work[r] = <<>>
    BY DEF Receive, RouteStale, RouteFuture, RouteCurrent, Listening
  <1>3. /\ m.ch = "data" => got'[r] = got[r] \cup {[block |-> m.block, vec |-> m.vec]}
        /\ m.ch # "data" => got'[r] = got[r]
        /\ m.ch = "announce" => heard'[r] = heard[r] \cup {m.block}
        /\ m.ch # "announce" => heard'[r] = heard[r]
        /\ UNCHANGED <<decoded, failed, fwds, rebcast>>
    BY DEF Receive, RouteStale, RouteFuture, RouteCurrent, Record, TypeOK
  <1>4. UNCHANGED <<phase, block, forwarded, ctx, accepted, decoded_count>>
    BY DEF Receive, RouteStale, RouteFuture, RouteCurrent, actorVars, protocolVars
  <1>5. IsolatedAt(r)' /\ failed'[r] = 0 /\ FlagAt(r)' /\ AnnouncedAt(r)'
    BY <1>3, <1>4 DEF LocalInv, IsolatedAt, FlagAt, AnnouncedAt
  <1>6. DecodedAt(r)' /\ ForwardAt(r)'
    BY <1>3, <1>4 DEF LocalInv, DecodedAt, ForwardAt
  <1>7. \A p \in got'[r] : p \in got[r] \/ (m.ch = "data" /\ p.block = m.block /\ p.vec = m.vec)
    BY <1>1, <1>3
  <1>8. \A b \in heard'[r] : b \in heard[r] \/ (m.ch = "announce" /\ b = m.block)
    BY <1>1, <1>3
  <1>9. CASE RouteStale(r, m)
    <2>1. UNCHANGED <<bufAnn, bufData, work>> /\ m.block < block[r]
      BY <1>9 DEF RouteStale, Stale, actorVars
    <2>2. KeptAt(r)'
      BY <1>1, <1>4, <1>7, <2>1 DEF LocalInv, KeptAt, InBuffer, InWork, Derived, BlockNum
    <2>3. AnnKeptAt(r)'
      BY <1>1, <1>4, <1>8, <2>1 DEF LocalInv, AnnKeptAt, AnnInWork, BlockNum
    <2>4. PrunedAt(r)' /\ NotAheadAt(r)'
      BY <1>4, <2>1 DEF LocalInv, PrunedAt, NotAheadAt
    <2>5. QED
      BY <1>5, <1>6, <2>2, <2>3, <2>4 DEF LocalInv
  <1>10. CASE RouteCurrent(r, m)
    <2>1. UNCHANGED <<bufAnn, bufData>> /\ m.block = block[r] /\ work'[r] = <<m>>
      BY <1>10 DEF RouteCurrent, Current, TypeOK
    <2>2. Len(work'[r]) = 1 /\ work'[r][1] = m
      BY <2>1
    <2>3. \A p : ~InWork(r, p)
      BY <1>2 DEF InWork
    <2>4. KeptAt(r)'
      BY <1>1, <1>4, <1>7, <2>1, <2>2, <2>3 DEF LocalInv, KeptAt, InBuffer, InWork, Derived
    <2>5. \A b : ~AnnInWork(r, b)
      BY <1>2 DEF AnnInWork
    <2>6. AnnKeptAt(r)'
      <3>1. m.ch = "announce" => AnnInWork(r, m.block)'
        BY <2>2 DEF AnnInWork
      <3>2. QED
        BY <1>1, <1>4, <1>8, <2>1, <2>5, <3>1 DEF LocalInv, AnnKeptAt, BlockNum
    <2>7. PrunedAt(r)'
      BY <1>4, <2>1 DEF LocalInv, PrunedAt
    <2>8. NotAheadAt(r)'
      BY <1>1, <1>4, <2>1, <2>2 DEF NotAheadAt, BlockNum
    <2>9. QED
      BY <1>5, <1>6, <2>4, <2>6, <2>7, <2>8 DEF LocalInv
  <1>11. CASE RouteFuture(r, m)
    <2>1. m.block > block[r] /\ work' = work
      BY <1>11 DEF RouteFuture, Future
    <2>2. bufAnn \in CountTable /\ bufData \in QueueTable
      BY DEF TypeOK
    <2>3. \A b \in BlockNum :
              bufAnn'[r][b] = IF m.ch = "announce" /\ b = m.block
                              THEN bufAnn[r][b] + 1 ELSE bufAnn[r][b]
      BY <1>11, RouteFutureAt
    <2>4. \A b \in BlockNum :
              bufData'[r][b] = IF m.ch = "data" /\ b = m.block
                               THEN Append(bufData[r][b], m.vec) ELSE bufData[r][b]
      BY <1>11, RouteFutureAt
    <2>5. \A b \in BlockNum : bufData[r][b] \in Seq(Vec) /\ bufAnn[r][b] \in Nat
      BY <2>2, QueueTableEntry, CountTableEntry
    <2>6. ASSUME NEW p \in got'[r], p.block \in BlockNum, p.block >= block[r]
          PROVE  InBuffer(r, p)' \/ InWork(r, p)' \/ Derived(r, p)'
      <3>1. bufData[r][p.block] \in Seq(Vec)
        BY <2>5, <2>6
      <3>2. CASE p \in got[r]
        <4>1. InBuffer(r, p) \/ InWork(r, p) \/ Derived(r, p)
          BY <2>6, <3>2 DEF LocalInv, KeptAt
        <4>2. CASE InBuffer(r, p)
          <5>1. CASE m.ch = "data" /\ p.block = m.block
            <6>1. bufData'[r][p.block] = Append(bufData[r][p.block], m.vec)
              BY <2>4, <2>6, <5>1
            <6>2. m.vec \in Vec
              BY <1>1, <5>1
            <6>3. QED
              BY <3>1, <4>2, <6>1, <6>2 DEF InBuffer
          <5>2. CASE ~(m.ch = "data" /\ p.block = m.block)
            <6>1. bufData'[r][p.block] = bufData[r][p.block]
              BY <2>4, <2>6, <5>2
            <6>2. QED
              BY <4>2, <6>1 DEF InBuffer
          <5>3. QED
            BY <5>1, <5>2
        <4>3. QED
          BY <1>4, <2>1, <4>1, <4>2 DEF InWork, Derived
      <3>3. CASE m.ch = "data" /\ p.block = m.block /\ p.vec = m.vec
        <4>1. bufData'[r][p.block] = Append(bufData[r][p.block], m.vec) /\ m.vec \in Vec
          BY <1>1, <2>4, <2>6, <3>3
        <4>2. InBuffer(r, p)'
          BY <3>1, <3>3, <4>1 DEF InBuffer
        <4>3. QED
          BY <4>2
      <3>4. QED
        BY <1>7, <3>2, <3>3
    <2>7. \A p \in got'[r] : p.block \in BlockNum
      BY ReceiveType, BlocksAssumption, SMTT(30) DEF TypeOK, Packet, Blocks, BlockNum
    <2>8. KeptAt(r)'
      BY <1>4, <2>6, <2>7 DEF KeptAt
    <2>9. heard[r] \subseteq BlockNum
      BY BlocksAssumption DEF TypeOK, Blocks, BlockNum
    <2>10. AnnKeptAt(r)'
      BY <1>1, <1>4, <1>8, <2>1, <2>3, <2>5, <2>9 DEF LocalInv, AnnKeptAt, AnnInWork, BlockNum
    <2>11. PrunedAt(r)' /\ NotAheadAt(r)'
      BY <1>1, <1>4, <2>1, <2>3, <2>4 DEF LocalInv, PrunedAt, NotAheadAt, BlockNum
    <2>12. QED
      BY <1>5, <1>6, <2>8, <2>10, <2>11 DEF LocalInv
  <1>12. QED
    BY <1>9, <1>10, <1>11 DEF Receive

\* Dropping an item: it is stale, a known announcement, or a useless packet.
LEMMA DropLocal ==
    ASSUME TypeOK, NEW r \in Receiver, LocalInv(r),
           SkipItem(r) \/ IgnoreAnnouncement(r) \/ RejectData(r)
    PROVE  LocalInv(r)'
  <1>1. /\ work[r] # <<>> /\ PopTo(r, <<>>) /\ NotAheadAt(r)
        /\ UNCHANGED <<phase, block, bufAnn, bufData, forwarded, ctx, accepted,
                       decoded_count, got, heard, decoded, fwds, rebcast>>
    BY DEF SkipItem, IgnoreAnnouncement, RejectData, Ingesting, Working, protocolVars,
           historyVars, LocalInv
  <1>2. /\ Head(work[r]).block \in Blocks /\ Head(work[r]).block <= block[r]
        /\ block[r] \in BlockNum
    <2>1. /\ work[r] \in Seq(Message) /\ Head(work[r]) = work[r][1]
          /\ Head(work[r]).block \in Blocks /\ block[r] \in BlockNum
      BY <1>1, WorkingFacts
    <2>2. 1 \in 1 .. Len(work[r])
      BY ONLY <1>1, <2>1
    <2>3. QED
      BY ONLY <1>1, <2>1, <2>2 DEF NotAheadAt
  <1>3. failed'[r] = 0
    BY DEF SkipItem, IgnoreAnnouncement, RejectData, Ingesting, Working, Verifies,
           historyVars, LocalInv, IsolatedAt
  <1>4. Head(work[r]).ch = "data" /\ Head(work[r]).block = block[r]
            => Head(work[r]).vec \in Span[Vecs(accepted[r])]
    BY DEF SkipItem, IgnoreAnnouncement, RejectData, Ingesting, Working, Verifies,
           Innovative, LocalInv, IsolatedAt
  <1>5. Head(work[r]).ch = "announce" /\ Head(work[r]).block = block[r] => phase[r] = "Decoding"
    BY DEF SkipItem, IgnoreAnnouncement, RejectData, Ingesting, Working
  <1>6. NotAheadAt(r)'
    BY <1>1, PopOnlyKeeps DEF NotAheadAt
  <1>7. KeptAt(r)'
    <2> SUFFICES ASSUME NEW p \in got[r], p.block >= block[r]
                 PROVE  InBuffer(r, p)' \/ InWork(r, p)' \/ Derived(r, p)'
      BY <1>1 DEF KeptAt
    <2>1. InBuffer(r, p) \/ InWork(r, p) \/ Derived(r, p)
      BY DEF LocalInv, KeptAt
    <2>2. CASE InBuffer(r, p) \/ Derived(r, p)
      BY <1>1, <2>2 DEF InBuffer, Derived
    <2>3. CASE InWork(r, p)
      <3>1. \/ InWork(r, p)'
            \/ /\ Head(work[r]).ch = "data"
               /\ Head(work[r]).block = p.block
               /\ Head(work[r]).vec = p.vec
        BY <1>1, <2>3, PopOnlyKeeps
      <3>2. p.block = Head(work[r]).block => p.block = block[r]
        BY <1>2, BlocksAssumption DEF Blocks, BlockNum
      <3>3. QED
        BY <1>1, <1>4, <3>1, <3>2 DEF Derived
    <2>4. QED
      BY <2>1, <2>2, <2>3
  <1>8. AnnKeptAt(r)'
    <2>1. \A b : AnnInWork(r, b) =>
              AnnInWork(r, b)' \/ (Head(work[r]).ch = "announce" /\ Head(work[r]).block = b)
      BY <1>1, PopOnlyKeeps
    <2>2. QED
      BY <1>1, <1>5, <2>1 DEF LocalInv, AnnKeptAt
  <1>9. IsolatedAt(r)' /\ FlagAt(r)' /\ AnnouncedAt(r)' /\ PrunedAt(r)'
    BY <1>1 DEF LocalInv, IsolatedAt, FlagAt, AnnouncedAt, PrunedAt
  <1>10. DecodedAt(r)' /\ ForwardAt(r)'
    BY <1>1 DEF LocalInv, DecodedAt, ForwardAt
  <1>11. QED
    BY <1>3, <1>6, <1>7, <1>8, <1>9, <1>10 DEF LocalInv

\* A packet ahead of its announcement moves from the work queue to the buffer.
LEMMA BufferDataLocal ==
    ASSUME TypeOK, NEW r \in Receiver, LocalInv(r), BufferData(r)
    PROVE  LocalInv(r)'
  <1>1. /\ work[r] # <<>> /\ PopTo(r, <<>>) /\ NotAheadAt(r)
        /\ Head(work[r]).block = block[r] /\ Head(work[r]).ch = "data" /\ phase[r] = "Init"
        /\ UNCHANGED <<phase, block, bufAnn, forwarded, ctx, accepted, decoded_count,
                       got, heard, decoded, failed, fwds, rebcast>>
    BY DEF BufferData, Working, protocolVars, historyVars, LocalInv
  <1>2. Head(work[r]).vec \in Vec /\ block[r] \in BlockNum
    BY <1>1, WorkingFacts
  <1> DEFINE x == Append(bufData[r][block[r]], Head(work[r]).vec)
  <1>3. bufData \in QueueTable /\ \A b \in BlockNum : bufData[r][b] \in Seq(Vec)
    BY QueueTableEntry DEF TypeOK
  <1>4. x \in Seq(Vec) /\ bufData' = SetAt(bufData, r, block[r], x)
    BY <1>2, <1>3 DEF BufferData
  <1> HIDE DEF x
  <1>5. \A b \in BlockNum : bufData'[r][b] = IF b = block[r] THEN x ELSE bufData[r][b]
    BY ONLY <1>2, <1>3, <1>4, QueueTableAt, r \in Receiver
  <1>6. NotAheadAt(r)'
    BY <1>1, PopOnlyKeeps DEF NotAheadAt
  <1>7. KeptAt(r)'
    <2> SUFFICES ASSUME NEW p \in got[r], p.block >= block[r]
                 PROVE  InBuffer(r, p)' \/ InWork(r, p)' \/ Derived(r, p)'
      BY <1>1 DEF KeptAt
    <2>1. InBuffer(r, p) \/ InWork(r, p) \/ Derived(r, p)
      BY DEF LocalInv, KeptAt
    <2>2. p.block \in BlockNum
      BY BlocksAssumption DEF TypeOK, Packet, Blocks, BlockNum
    <2>3. ASSUME p.block = block[r], InBuffer(r, p) \/ Head(work[r]).vec = p.vec
          PROVE  InBuffer(r, p)'
      <3>1. bufData'[r][p.block] = Append(bufData[r][p.block], Head(work[r]).vec)
        BY <1>5, <2>2, <2>3 DEF x
      <3>2. bufData[r][p.block] \in Seq(Vec)
        BY <1>3, <2>2
      <3>3. QED
        BY <1>2, <2>3, <3>1, <3>2 DEF InBuffer
    <2>4. ASSUME p.block # block[r], InBuffer(r, p)
          PROVE  InBuffer(r, p)'
      BY <1>5, <2>2, <2>4 DEF InBuffer
    <2>5. CASE InWork(r, p)
      <3>1. \/ InWork(r, p)'
            \/ Head(work[r]).block = p.block /\ Head(work[r]).vec = p.vec
        BY <1>1, <2>5, PopOnlyKeeps
      <3>2. QED
        BY <1>1, <2>3, <3>1
    <2>6. CASE Derived(r, p)
      BY <1>1, <2>6 DEF Derived
    <2>7. QED
      BY <2>1, <2>3, <2>4, <2>5, <2>6
  <1>8. AnnKeptAt(r)'
    <2>1. \A b : AnnInWork(r, b) =>
              AnnInWork(r, b)' \/ (Head(work[r]).ch = "announce" /\ Head(work[r]).block = b)
      BY <1>1, PopOnlyKeeps
    <2>2. QED
      BY <1>1, <2>1 DEF LocalInv, AnnKeptAt
  <1>9. IsolatedAt(r)' /\ failed'[r] = 0 /\ FlagAt(r)' /\ AnnouncedAt(r)'
    BY <1>1 DEF LocalInv, IsolatedAt, FlagAt, AnnouncedAt
  <1>10. DecodedAt(r)' /\ ForwardAt(r)'
    BY <1>1 DEF LocalInv, DecodedAt, ForwardAt
  <1>11. PrunedAt(r)'
    BY <1>1, <1>2, <1>5 DEF LocalInv, PrunedAt, BlockNum
  <1>12. QED
    BY <1>6, <1>7, <1>8, <1>9, <1>10, <1>11 DEF LocalInv

\* Emptying a buffer entry, seen from the receiver.
LEMMA ClearAt ==
    ASSUME TypeOK, NEW r \in Receiver, NEW b \in BlockNum,
           bufAnn' = SetAt(bufAnn, r, b, 0), bufData' = SetAt(bufData, r, b, <<>>)
    PROVE  /\ \A e \in BlockNum : bufAnn'[r][e] = IF e = b THEN 0 ELSE bufAnn[r][e]
           /\ \A e \in BlockNum : bufData'[r][e] = IF e = b THEN <<>> ELSE bufData[r][e]
  <1> DEFINE none == <<>>
  <1>1. bufAnn \in CountTable /\ bufData \in QueueTable
    BY DEF TypeOK
  <1>2. \E x \in Nat : x = 0 /\ bufAnn' = SetAt(bufAnn, r, b, x)
    OBVIOUS
  <1>3. none \in Seq(Vec) /\ bufData' = SetAt(bufData, r, b, none)
    OBVIOUS
  <1> HIDE DEF none
  <1>4. \A e \in BlockNum : bufAnn'[r][e] = IF e = b THEN 0 ELSE bufAnn[r][e]
    BY ONLY <1>1, <1>2, CountTableAt, r \in Receiver, b \in BlockNum
  <1>5. \A e \in BlockNum : bufData'[r][e] = IF e = b THEN none ELSE bufData[r][e]
    BY ONLY <1>1, <1>3, QueueTableAt, r \in Receiver, b \in BlockNum
  <1>6. QED
    BY <1>4, <1>5 DEF none

\* Ingesting the announcement moves the buffered data of the block to the queue.
LEMMA IngestAnnouncementLocal ==
    ASSUME TypeOK, NEW r \in Receiver, LocalInv(r), IngestAnnouncement(r)
    PROVE  LocalInv(r)'
  <1> DEFINE u == DataItems(block[r], bufData[r][block[r]])
  <1>1. /\ work[r] # <<>> /\ NotAheadAt(r) /\ phase[r] = "Init"
        /\ Head(work[r]).block = block[r] /\ Head(work[r]).ch = "announce"
        /\ phase'[r] = "Decoding" /\ ctx'[r] = block[r]
        /\ UNCHANGED <<block, forwarded, accepted, decoded_count,
                       got, heard, decoded, failed, fwds>>
    BY DEF IngestAnnouncement, Working, LocalInv, TypeOK
  <1>2. block[r] \in Blocks /\ block[r] \in BlockNum
    BY <1>1, WorkingFacts
  <1>3. bufData[r][block[r]] \in Seq(Vec)
    BY <1>2, QueueTableEntry DEF TypeOK
  <1>4. /\ u \in Seq(Message) /\ Len(u) = Len(bufData[r][block[r]])
        /\ \A i \in 1 .. Len(u) : u[i] = Data(block[r], bufData[r][block[r]][i], NoPeer)
    BY <1>2, <1>3, ItemFacts
  <1>5. work'[r] = Tail(work[r]) \o u
    BY DEF IngestAnnouncement, PopTo, TypeOK
  <1> HIDE DEF u
  <1>6. /\ \A e \in BlockNum : bufAnn'[r][e] = IF e = block[r] THEN 0 ELSE bufAnn[r][e]
        /\ \A e \in BlockNum : bufData'[r][e] = IF e = block[r] THEN <<>> ELSE bufData[r][e]
    BY <1>2, ClearAt DEF IngestAnnouncement
  <1>7. \A i \in 1 .. Len(u) : /\ u[i].ch = "data" /\ u[i].block = block[r]
                               /\ u[i].vec = bufData[r][block[r]][i]
    <2>1. \A b, v : LET d == Data(b, v, NoPeer) IN d.ch = "data" /\ d.block = b /\ d.vec = v
      BY DEF Data
    <2>2. QED
      BY ONLY <1>4, <2>1
  <1>8. NotAheadAt(r)'
    <2>1. \A i \in 1 .. Len(u) : u[i].block <= block[r]
      BY <1>2, <1>7 DEF BlockNum
    <2>2. block[r] \in Int /\ \A i \in 1 .. Len(work[r]) : work[r][i].block <= block[r]
      BY <1>1, <1>2 DEF NotAheadAt, BlockNum
    <2>3. \A i \in 1 .. Len(work'[r]) : work'[r][i].block <= block[r]
      BY <1>1, <1>4, <1>5, <2>1, <2>2, PopKeeps
    <2>4. QED
      BY <1>1, <2>3 DEF NotAheadAt
  <1>9. KeptAt(r)'
    <2> SUFFICES ASSUME NEW p \in got[r], p.block >= block[r]
                 PROVE  InBuffer(r, p)' \/ InWork(r, p)' \/ Derived(r, p)'
      BY <1>1 DEF KeptAt
    <2>1. InBuffer(r, p) \/ InWork(r, p) \/ Derived(r, p)
      BY DEF LocalInv, KeptAt
    <2>2. p.block \in BlockNum
      BY BlocksAssumption DEF TypeOK, Packet, Blocks, BlockNum
    <2>3. CASE InBuffer(r, p) /\ p.block # block[r]
      BY <1>6, <2>2, <2>3 DEF InBuffer
    <2>4. CASE InBuffer(r, p) /\ p.block = block[r]
      <3>1. PICK i \in 1 .. Len(u) : bufData[r][block[r]][i] = p.vec
        BY <1>4, <2>4 DEF InBuffer
      <3>2. PICK j \in 1 .. Len(work'[r]) : work'[r][j] = u[i]
        BY <1>1, <1>4, <1>5, PopKeeps
      <3>3. InWork(r, p)'
        BY <1>7, <2>4, <3>1, <3>2 DEF InWork
      <3>4. QED
        BY <3>3
    <2>5. CASE InWork(r, p)
      BY <1>1, <1>4, <1>5, <2>5, PopKeeps
    <2>6. CASE Derived(r, p)
      BY <1>1, <2>6 DEF Derived
    <2>7. QED
      BY <2>1, <2>3, <2>4, <2>5, <2>6
  <1>10. AnnKeptAt(r)'
    <2>1. \A b \in heard[r] : b \in BlockNum
      BY BlocksAssumption DEF TypeOK, Blocks, BlockNum
    <2>2. QED
      BY <1>1, <1>2, <1>6, <2>1 DEF LocalInv, AnnKeptAt, BlockNum
  <1>11. IsolatedAt(r)' /\ failed'[r] = 0 /\ FlagAt(r)'
    BY <1>1 DEF LocalInv, IsolatedAt, FlagAt
  <1>12. DecodedAt(r)' /\ ForwardAt(r)'
    BY <1>1 DEF LocalInv, DecodedAt, ForwardAt
  <1>13. PrunedAt(r)'
    BY <1>1, <1>2, <1>6 DEF LocalInv, PrunedAt, BlockNum
  <1>14. AnnouncedAt(r)'
    <2>1. rebcast \in CountTable /\ rebcast[r][block[r]] = 0
      <3>1. rebcast \in CountTable /\ AnnouncedAt(r) /\ block[r] \in Int
        BY <1>2 DEF LocalInv, TypeOK, BlockNum
      <3>2. QED
        BY <1>1, <1>2, <3>1 DEF AnnouncedAt
    <2>2. rebcast' = SetAt(rebcast, r, block[r], 1)
      BY <2>1 DEF IngestAnnouncement
    <2>3. \A e \in BlockNum : rebcast'[r][e] = IF e = block[r] THEN 1 ELSE rebcast[r][e]
      BY ONLY <1>2, <2>1, <2>2, CountTableAt, r \in Receiver, 1 \in Nat
    <2>4. QED
      BY <1>1, <1>2, <2>3 DEF LocalInv, AnnouncedAt, BlockNum
  <1>15. QED
    BY <1>8, <1>9, <1>10, <1>11, <1>12, <1>13, <1>14 DEF LocalInv

\* A useful packet is new to the decoder, and nothing it knew is lost.
LEMMA ExtendedFacts ==
    ASSUME TypeOK, NEW r \in Receiver, Ingesting(r), Innovative(r, Head(work[r])),
           IsFiniteSet(accepted[r])
    PROVE  /\ IsFiniteSet(Extended(r))
           /\ Cardinality(accepted[r]) \in Nat
           /\ Cardinality(Extended(r)) = Cardinality(accepted[r]) + 1
           /\ Extended(r) # {}
           /\ Span[Vecs(accepted[r])] \subseteq Span[Vecs(Extended(r))]
           /\ Head(work[r]).vec \in Span[Vecs(Extended(r))]
           /\ accepted[r] \subseteq Extended(r)
           /\ \A p \in Extended(r) : p \in accepted[r] \/ p.block = block[r]
  <1> DEFINE e == [block |-> block[r], vec |-> Head(work[r]).vec]
  <1>1. Extended(r) = accepted[r] \cup {e} /\ e.vec = Head(work[r]).vec /\ e.block = block[r]
    BY DEF Extended
  <1>2. accepted[r] \in SUBSET Packet /\ Extended(r) \in SUBSET Packet
    BY ExtendedType DEF TypeOK
  <1>3. Vecs(accepted[r]) \in SUBSET Vec /\ Vecs(Extended(r)) \in SUBSET Vec
    BY <1>2 DEF Vecs, Packet
  <1> HIDE DEF e
  <1>4. Vecs(accepted[r]) \subseteq Vecs(Extended(r)) /\ e.vec \in Vecs(Extended(r))
    BY <1>1 DEF Vecs
  <1>5. Vecs(Extended(r)) \subseteq Span[Vecs(Extended(r))]
    BY <1>3, SpanAssumption
  <1>6. Span[Vecs(accepted[r])] \subseteq Span[Vecs(Extended(r))]
    BY <1>3, <1>4, <1>5, SpanAssumption
  <1>7. e \notin accepted[r]
    <2>1. Vecs(accepted[r]) \subseteq Span[Vecs(accepted[r])]
      BY <1>3, SpanAssumption
    <2>2. e.vec \notin Vecs(accepted[r])
      BY <1>1, <2>1 DEF Innovative
    <2>3. QED
      BY <2>2 DEF Vecs
  <1>8. Cardinality(accepted[r]) \in Nat
    BY FS_CardinalityType
  <1>9. /\ IsFiniteSet(Extended(r))
        /\ Cardinality(Extended(r)) = Cardinality(accepted[r]) + 1
    BY <1>1, <1>7, FS_AddElement
  <1>10. QED
    BY <1>1, <1>4, <1>5, <1>6, <1>8, <1>9

\* The forwarding rounds of a block follow the condition as a packet is taken.
LEMMA ForwardCounts ==
    ASSUME TypeOK, NEW r \in Receiver, LocalInv(r), Ingesting(r),
           Innovative(r, Head(work[r])),
           fwds' = IF Forwards(r) THEN SetAt(fwds, r, block[r], fwds[r][block[r]] + 1) ELSE fwds
    PROVE  /\ fwds'[r][block[r]] = ForwardRounds(Extended(r), Complete(Extended(r)))
           /\ fwds'[r][block[r]] > 0 <=> (forwarded[r] \/ Forwards(r))
           /\ \A e \in BlockNum : e # block[r] => fwds'[r][e] = fwds[r][e]
  <1>1. /\ fwds \in CountTable /\ block[r] \in BlockNum /\ fwds[r][block[r]] \in Nat
        /\ fwds[r][block[r]] + 1 \in Nat
    BY ExtendedType, CountTableEntry DEF TypeOK
  <1> DEFINE n == fwds[r][block[r]]
             m == n + 1
  <1>2. m \in Nat /\ fwds' = IF Forwards(r) THEN SetAt(fwds, r, block[r], m) ELSE fwds
    BY <1>1
  <1> HIDE DEF m
  <1>3. \A e \in BlockNum :
            fwds'[r][e] = IF e = block[r] /\ Forwards(r) THEN m ELSE fwds[r][e]
    BY ONLY <1>1, <1>2, CountTableAt, r \in Receiver
  <1>4. /\ n \in Nat /\ m = n + 1
        /\ n = ForwardRounds(accepted[r], FALSE)
        /\ forwarded[r] \in BOOLEAN
        /\ forwarded[r] <=> n > 0
    <2>1. n \in Nat /\ m = n + 1
      BY <1>1 DEF m
    <2>2. n = ForwardRounds(accepted[r], FALSE)
      BY DEF LocalInv, ForwardAt
    <2>3. forwarded[r] \in BOOLEAN
      BY DEF TypeOK
    <2>4. forwarded[r] <=> n > 0
      BY Zenon DEF LocalInv, FlagAt
    <2>5. QED
      BY <2>1, <2>2, <2>3, <2>4
  <1>5. /\ Cardinality(accepted[r]) \in Nat
        /\ Cardinality(Extended(r)) = Cardinality(accepted[r]) + 1
        /\ Extended(r) # {}
    BY ExtendedFacts DEF LocalInv, FlagAt
  <1>6. fwds'[r][block[r]] = IF Forwards(r) THEN n + 1 ELSE n
    BY <1>1, <1>3, <1>4
  <1> HIDE DEF n
  <1>7. fwds'[r][block[r]] > 0 <=> (forwarded[r] \/ Forwards(r))
    <2>1. CASE Forwards(r)
      <3>1. fwds'[r][block[r]] = n + 1 /\ n \in Nat
        BY <1>4, <1>6, <2>1, Zenon
      <3>2. fwds'[r][block[r]] > 0
        BY ONLY <3>1
      <3>3. QED
        BY <2>1, <3>2, Zenon
    <2>2. CASE ~Forwards(r)
      <3>1. fwds'[r][block[r]] = n
        BY <1>6, <2>2
      <3>2. QED
        BY <1>4, <2>2, <3>1, Zenon
    <2>3. QED
      BY <2>1, <2>2
  <1>8. fwds'[r][block[r]] = ForwardRounds(Extended(r), Complete(Extended(r)))
    <2> DEFINE c == Complete(Extended(r))
    <2>1. c \in BOOLEAN
      BY DEF Complete
    <2> HIDE DEF c
    <2>2. Forwards(r) = ShouldForward(c, forwarded[r])
      BY DEF Forwards, c
    <2>3. CASE ForwardWhen = "AfterDecode"
      <3>1. n = 0 /\ ~forwarded[r]
        BY <1>4, <2>3 DEF ForwardRounds
      <3>2. Forwards(r) <=> c
        BY <2>2, <2>3, <3>1 DEF ShouldForward
      <3>3. QED
        BY <1>6, <2>3, <3>1, <3>2 DEF ForwardRounds, c
    <2>4. CASE ForwardWhen = "UntilDecode"
      <3>1. n = Cardinality(accepted[r])
        BY <1>4, <2>4 DEF ForwardRounds
      <3>2. Forwards(r) <=> ~c
        BY <2>2, <2>4 DEF ShouldForward
      <3>3. QED
        BY <1>5, <1>6, <2>4, <3>1, <3>2 DEF ForwardRounds, c
    <2>5. CASE ForwardWhen = "OneShot"
      <3>1. n = IF forwarded[r] THEN 1 ELSE 0
        BY <1>4, <2>5 DEF ForwardRounds
      <3>2. Forwards(r) <=> ~forwarded[r]
        BY <2>2, <2>5 DEF ShouldForward
      <3>3. QED
        BY <1>5, <1>6, <2>5, <3>1, <3>2 DEF ForwardRounds
    <2>6. QED
      BY <2>3, <2>4, <2>5, ForwardAssumption
  <1>9. QED
    BY <1>3, <1>7, <1>8

\* A useful packet short of full rank.
LEMMA AcceptDataLocal ==
    ASSUME TypeOK, NEW r \in Receiver, LocalInv(r), AcceptData(r)
    PROVE  LocalInv(r)'
  <1> USE DEF AcceptData
  <1>1. /\ work[r] # <<>> /\ NotAheadAt(r) /\ PopTo(r, <<>>) /\ phase[r] = "Decoding"
        /\ Head(work[r]).block = block[r] /\ Head(work[r]).ch = "data"
        /\ accepted'[r] = Extended(r)
        /\ forwarded'[r] = (forwarded[r] \/ Forwards(r))
        /\ UNCHANGED <<phase, block, bufAnn, bufData, ctx, decoded_count,
                       got, heard, decoded, failed, rebcast>>
    BY DEF Ingesting, Working, LocalInv, TypeOK
  <1>2. /\ IsFiniteSet(Extended(r))
        /\ Span[Vecs(accepted[r])] \subseteq Span[Vecs(Extended(r))]
        /\ Head(work[r]).vec \in Span[Vecs(Extended(r))]
        /\ \A p \in Extended(r) : p \in accepted[r] \/ p.block = block[r]
    BY ExtendedFacts DEF LocalInv, FlagAt
  <1>3. block[r] \in BlockNum
    BY DEF TypeOK
  <1>4. NotAheadAt(r)'
    BY <1>1, PopOnlyKeeps DEF NotAheadAt
  <1>5. KeptAt(r)'
    <2> SUFFICES ASSUME NEW p \in got[r], p.block >= block[r]
                 PROVE  InBuffer(r, p)' \/ InWork(r, p)' \/ Derived(r, p)'
      BY <1>1 DEF KeptAt
    <2>1. InBuffer(r, p) \/ InWork(r, p) \/ Derived(r, p)
      BY DEF LocalInv, KeptAt
    <2>2. CASE InBuffer(r, p)
      BY <1>1, <2>2 DEF InBuffer
    <2>3. CASE InWork(r, p)
      <3>1. \/ InWork(r, p)'
            \/ Head(work[r]).block = p.block /\ Head(work[r]).vec = p.vec
        BY <1>1, <2>3, PopOnlyKeeps
      <3>2. QED
        BY <1>1, <1>2, <3>1 DEF Derived
    <2>4. CASE Derived(r, p)
      BY <1>1, <1>2, <2>4 DEF Derived
    <2>5. QED
      BY <2>1, <2>2, <2>3, <2>4
  <1>6. AnnKeptAt(r)'
    BY <1>1 DEF LocalInv, AnnKeptAt
  <1>7. IsolatedAt(r)' /\ failed'[r] = 0 /\ AnnouncedAt(r)' /\ PrunedAt(r)'
    BY <1>1, <1>2 DEF LocalInv, IsolatedAt, AnnouncedAt, PrunedAt
  <1>8. DecodedAt(r)'
    BY <1>1 DEF LocalInv, DecodedAt
  <1>9. /\ fwds'[r][block[r]] = ForwardRounds(Extended(r), FALSE)
        /\ fwds'[r][block[r]] > 0 <=> (forwarded[r] \/ Forwards(r))
        /\ \A e \in BlockNum : e # block[r] => fwds'[r][e] = fwds[r][e]
    <2>1. Complete(Extended(r)) = FALSE
      BY DEF Complete
    <2>2. QED
      BY <2>1, ForwardCounts
  <1>10. ForwardAt(r)'
    <2>1. \A b \in BlockNum : b < block[r] => b # block[r]
      BY <1>3 DEF BlockNum
    <2>2. \A b \in BlockNum : b > block[r] => b # block[r]
      BY <1>3 DEF BlockNum
    <2>3. QED
      BY <1>1, <1>9, <2>1, <2>2 DEF LocalInv, ForwardAt
  <1>11. FlagAt(r)'
    BY <1>1, <1>2, <1>9 DEF FlagAt
  <1>12. QED
    BY <1>4, <1>5, <1>6, <1>7, <1>8, <1>10, <1>11 DEF LocalInv

\* What the next block's buffer entry turns into: announcements, then data, all
\* of that block.  (Nothing is buffered for the block after the last.)
Drained(u, b, n, vs) ==
    /\ u \in Seq(Message)
    /\ \A i \in 1 .. Len(u) : u[i].block = b
    /\ n > 0 => \E i \in 1 .. Len(u) : u[i] = Announcement(b, NoPeer)
    /\ \A j \in 1 .. Len(vs) : \E i \in 1 .. Len(u) : u[i] = Data(b, vs[j], NoPeer)

\* The queue CompleteBlock appends is a drained buffer entry.
LEMMA DrainFacts ==
    ASSUME NEW b \in BlockNum, NEW n \in Nat, NEW vs \in Seq(Vec),
           b = NumBlocks => n = 0 /\ Len(vs) = 0,
           NEW u, u = AnnItems(b, n) \o DataItems(b, vs)
    PROVE  Drained(u, b, n, vs)
  <1> USE DEF Drained
  <1>1. CASE b = NumBlocks
    <2>1. AnnItems(b, 0) = <<>> /\ DataItems(b, <<>>) = <<>>
      BY NoItems
    <2>3. n = 0 /\ vs = <<>>
      BY <1>1
    <2>2. AnnItems(b, n) = <<>> /\ DataItems(b, vs) = <<>>
      BY <2>1, <2>3, Zenon
    <2>4. u = <<>> \o <<>>
      BY <2>2, Zenon
    <2>5. <<>> \o <<>> = <<>>
      OBVIOUS
    <2>6. u = <<>>
      BY ONLY <2>4, <2>5, Zenon
    <2>7. QED
      BY ONLY <2>3, <2>6
  <1>2. CASE b # NumBlocks
    <2> DEFINE ann == AnnItems(b, n)
               dat == DataItems(b, vs)
    <2>1. b \in Blocks
      BY <1>2, BlocksAssumption DEF Blocks, BlockNum
    <2>2. /\ ann \in Seq(Message) /\ dat \in Seq(Message)
          /\ Len(ann) = n /\ Len(dat) = Len(vs)
          /\ \A i \in 1 .. n : ann[i] = Announcement(b, NoPeer)
          /\ \A i \in 1 .. Len(vs) : dat[i] = Data(b, vs[i], NoPeer)
      BY <2>1, ItemFacts
    <2>9. u = ann \o dat
      OBVIOUS
    <2> HIDE DEF ann, dat
    <2>3. /\ u \in Seq(Message)
          /\ Len(u) = n + Len(vs)
          /\ \A i \in 1 .. n : u[i] = ann[i]
          /\ \A i \in 1 .. Len(vs) : u[n + i] = dat[i]
      <3>1. /\ ann \o dat \in Seq(Message)
            /\ Len(ann \o dat) = Len(ann) + Len(dat)
            /\ \A i \in 1 .. Len(ann) : (ann \o dat)[i] = ann[i]
            /\ \A i \in 1 .. Len(dat) : (ann \o dat)[Len(ann) + i] = dat[i]
        <4>1. ann \in Seq(Message) /\ dat \in Seq(Message)
          BY ONLY <2>2
        <4>2. ann \o dat \in Seq(Message) /\ Len(ann \o dat) = Len(ann) + Len(dat)
          BY ONLY <4>1
        <4>3. \A i \in 1 .. Len(ann) : (ann \o dat)[i] = ann[i]
          BY ONLY <4>1
        <4>4. \A i \in 1 .. Len(dat) : (ann \o dat)[Len(ann) + i] = dat[i]
          BY ONLY <4>1
        <4>5. QED
          BY ONLY <4>2, <4>3, <4>4, Zenon
      <3>2. /\ ann \o dat \in Seq(Message)
            /\ Len(ann \o dat) = n + Len(vs)
            /\ \A i \in 1 .. n : (ann \o dat)[i] = ann[i]
            /\ \A i \in 1 .. Len(vs) : (ann \o dat)[n + i] = dat[i]
        <4>1. Len(ann) = n /\ Len(dat) = Len(vs)
          BY ONLY <2>2
        <4>2. QED
          BY ONLY <3>1, <4>1, Zenon
      <3>3. QED
        BY ONLY <2>9, <3>2, Zenon
    <2>4. Len(vs) \in Nat
      OBVIOUS
    <2>5. \A i \in 1 .. Len(u) : u[i].block = b
      <3>1. \A v : Data(b, v, NoPeer).block = b
        BY DEF Data
      <3>2. Announcement(b, NoPeer).block = b
        BY DEF Announcement
      <3> TAKE i \in 1 .. Len(u)
      <3>3. CASE i <= n
        BY <2>2, <2>3, <3>2, <3>3
      <3>4. CASE i > n
        <4> DEFINE k == i - n
        <4>1. k \in 1 .. Len(vs) /\ n + k = i
          BY <2>3, <2>4, <3>4
        <4> HIDE DEF k
        <4>2. u[i] = Data(b, vs[k], NoPeer)
          BY <2>2, <2>3, <4>1
        <4>3. QED
          BY <3>1, <4>2, Zenon
      <3>5. QED
        BY <2>3, <2>4, <3>3, <3>4
    <2>6. n > 0 => \E i \in 1 .. Len(u) : u[i] = Announcement(b, NoPeer)
      <3>1. n > 0 => 1 \in 1 .. n /\ 1 \in 1 .. Len(u)
        BY <2>3, <2>4
      <3>2. n > 0 => u[1] = Announcement(b, NoPeer)
        BY <2>2, <2>3, <3>1
      <3>3. QED
        BY <3>1, <3>2
    <2>7. \A j \in 1 .. Len(vs) : \E i \in 1 .. Len(u) : u[i] = Data(b, vs[j], NoPeer)
      <3> TAKE j \in 1 .. Len(vs)
      <3> DEFINE k == n + j
      <3>1. k \in 1 .. Len(u)
        BY <2>3, <2>4
      <3>2. u[k] = Data(b, vs[j], NoPeer)
        BY <2>2, <2>3
      <3>3. QED
        BY <3>1, <3>2
    <2>8. QED
      BY <2>3, <2>5, <2>6, <2>7
  <1>3. QED
    BY <1>1, <1>2

\* The block completes: what its successor has in the buffer goes to the queue.
LEMMA CompleteBlockLocal ==
    ASSUME TypeOK, NEW r \in Receiver, LocalInv(r), CompleteBlock(r)
    PROVE  LocalInv(r)'
  <1> USE DEF CompleteBlock, ResetProtocol
  <1> DEFINE next == block[r] + 1
             u == AnnItems(next, bufAnn[r][next]) \o DataItems(next, bufData[r][next])
             rec == [ctx |-> ctx[r], packets |-> Extended(r)]
  <1>1. /\ work[r] # <<>> /\ NotAheadAt(r) /\ phase[r] = "Decoding" /\ ctx[r] = block[r]
        /\ block'[r] = next /\ phase'[r] = "Init" /\ ctx'[r] = NoBlock
        /\ accepted'[r] = {} /\ forwarded'[r] = FALSE
        /\ decoded_count'[r] = decoded_count[r] + 1
        /\ decoded'[r] = Append(decoded[r], rec)
        /\ UNCHANGED <<got, heard, failed, rebcast>>
    BY DEF Ingesting, Working, LocalInv, IsolatedAt, TypeOK
  <1>2. /\ block[r] \in BlockNum /\ block[r] \in Nat /\ next \in BlockNum /\ next > block[r]
        /\ next # block[r] /\ next \in Int
    BY ExtendedType, BlocksAssumption DEF Blocks, BlockNum
  <1>3. /\ bufAnn[r][next] \in Nat /\ bufData[r][next] \in Seq(Vec)
        /\ next = NumBlocks => bufAnn[r][next] = 0 /\ Len(bufData[r][next]) = 0
    <2>1. bufAnn[r][next] \in Nat /\ bufData[r][next] \in Seq(Vec)
      BY <1>2, CountTableEntry, QueueTableEntry DEF TypeOK
    <2>2. bufAnn[r][NumBlocks] = 0 /\ Len(bufData[r][NumBlocks]) = 0
      BY DEF TypeOK
    <2> HIDE DEF next
    <2>3. QED
      BY ONLY <2>1, <2>2
  <1>4. /\ u \in Seq(Message)
        /\ \A i \in 1 .. Len(u) : u[i].block = next
        /\ bufAnn[r][next] > 0 => \E i \in 1 .. Len(u) : u[i] = Announcement(next, NoPeer)
        /\ \A j \in 1 .. Len(bufData[r][next]) :
              \E i \in 1 .. Len(u) : u[i] = Data(next, bufData[r][next][j], NoPeer)
    <2> DEFINE n == bufAnn[r][next]
               vs == bufData[r][next]
    <2>1. next \in BlockNum /\ n \in Nat /\ vs \in Seq(Vec) /\ (next = NumBlocks => n = 0 /\ Len(vs) = 0)
      BY ONLY <1>2, <1>3
    <2>2. u = AnnItems(next, n) \o DataItems(next, vs)
      OBVIOUS
    <2> HIDE DEF next, n, vs
    <2>3. Drained(u, next, n, vs)
      <3> HIDE DEF u
      <3>1. QED
        BY ONLY <2>1, <2>2, DrainFacts
    <2>4. QED
      BY <2>3 DEF n, vs, Drained
  <1>5. work'[r] = Tail(work[r]) \o u
    BY DEF PopTo, TypeOK
  <1>6. /\ \A e \in BlockNum : bufAnn'[r][e] = IF e = next THEN 0 ELSE bufAnn[r][e]
        /\ \A e \in BlockNum : bufData'[r][e] = IF e = next THEN <<>> ELSE bufData[r][e]
    BY <1>2, ClearAt
  <1>7. /\ fwds'[r][block[r]] = ForwardRounds(Extended(r), TRUE)
        /\ \A e \in BlockNum : e # block[r] => fwds'[r][e] = fwds[r][e]
    <2>1. Complete(Extended(r)) = TRUE
      BY DEF Complete
    <2>2. QED
      BY <2>1, ForwardCounts
  <1>8. \A p \in Extended(r) : p.block = block[r]
    BY ExtendedFacts DEF LocalInv, FlagAt, IsolatedAt
  <1>9. /\ Len(decoded[r]) = block[r] /\ Len(decoded'[r]) = next
        /\ decoded'[r][next] = rec
        /\ \A i \in 1 .. block[r] : decoded'[r][i] = decoded[r][i]
    <2>1. Len(decoded[r]) = block[r] /\ decoded[r] \in Seq(DecodedRecord)
      BY DEF LocalInv, DecodedAt, TypeOK
    <2> HIDE DEF rec
    <2>2. QED
      BY <1>1, <1>2, <2>1
  <1>10. rec.ctx = block[r] /\ rec.packets = Extended(r) /\ Span[Vecs(Extended(r))] = Vec
    BY <1>1 DEF Complete
  <1>11. next - 1 = block[r] /\ (\A b \in BlockNum : b < next <=> b < block[r] \/ b = block[r])
    BY <1>2 DEF BlockNum
  <1> HIDE DEF next, u, rec, CompleteBlock, ResetProtocol
  <1>21. \A i \in 1 .. Len(u) : \E j \in 1 .. Len(work'[r]) : work'[r][j] = u[i]
    BY <1>1, <1>4, <1>5, PopKeeps
  <1>12. IsolatedAt(r)' /\ failed'[r] = 0
    BY <1>1 DEF LocalInv, IsolatedAt
  <1>13. DecodedAt(r)'
    <2>1. decoded_count'[r] = next
      BY <1>1 DEF next, LocalInv, DecodedAt
    <2>2. ASSUME NEW i \in 1 .. next
          PROVE  /\ decoded'[r][i].ctx = i - 1
                 /\ \A p \in decoded'[r][i].packets : p.block = i - 1
                 /\ Span[Vecs(decoded'[r][i].packets)] = Vec
      <3>1. CASE i = next
        BY <1>8, <1>9, <1>10, <1>11, <3>1, Zenon
      <3>2. CASE i # next
        <4>1. i \in 1 .. block[r]
          BY <1>2, <3>2 DEF next
        <4>2. QED
          BY <1>9, <4>1 DEF LocalInv, DecodedAt
      <3>3. QED
        BY <3>1, <3>2
    <2>3. QED
      BY <1>1, <1>9, <2>1, <2>2 DEF DecodedAt, Vecs
  <1>14. NotAheadAt(r)'
    <2>1. \A i \in 1 .. Len(u) : u[i].block <= next
      BY <1>2, <1>4
    <2>2. \A i \in 1 .. Len(work[r]) : work[r][i].block <= next
      <3>1. work[r] \in Seq(Message) /\ \A m \in Message : m.block \in Nat
        BY DEF TypeOK, Message, AnnMsg, DataMsg, Blocks
      <3>2. \A i \in 1 .. Len(work[r]) : work[r][i].block \in Nat
        BY <3>1
      <3>3. QED
        BY <1>1, <1>2, <3>2 DEF NotAheadAt
    <2>3. \A i \in 1 .. Len(work'[r]) : work'[r][i].block <= next
      BY <1>1, <1>2, <1>4, <1>5, <2>1, <2>2, PopKeeps
    <2>4. QED
      BY <1>1, <2>3 DEF NotAheadAt
  <1>15. KeptAt(r)'
    <2> SUFFICES ASSUME NEW p \in got[r], p.block >= next
                 PROVE  InBuffer(r, p)' \/ InWork(r, p)' \/ Derived(r, p)'
      BY <1>1 DEF KeptAt
    <2>1. p.block \in BlockNum /\ p.block \in Nat
      BY BlocksAssumption DEF TypeOK, Packet, Blocks, BlockNum
    <2>2. p.block > block[r]
      BY <1>2, <2>1 DEF next
    <2>3. InBuffer(r, p) \/ InWork(r, p)
      BY <1>2, <2>1, <2>2 DEF LocalInv, KeptAt, Derived
    <2>4. ~InWork(r, p)
      BY <1>1, <1>2, <2>1, <2>2 DEF InWork, NotAheadAt
    <2>5. CASE p.block # next
      BY <1>6, <2>1, <2>3, <2>4, <2>5 DEF InBuffer
    <2>6. CASE p.block = next
      <3>1. PICK j \in 1 .. Len(bufData[r][next]) : bufData[r][next][j] = p.vec
        BY <2>3, <2>4, <2>6 DEF InBuffer
      <3>2. PICK i \in 1 .. Len(u) : u[i] = Data(next, p.vec, NoPeer)
        BY <1>4, <3>1
      <3>3. PICK k \in 1 .. Len(work'[r]) : work'[r][k] = u[i]
        BY <1>21
      <3>4. /\ Data(next, p.vec, NoPeer).ch = "data"
            /\ Data(next, p.vec, NoPeer).block = next
            /\ Data(next, p.vec, NoPeer).vec = p.vec
        BY DEF Data
      <3>5. InWork(r, p)'
        BY <2>6, <3>2, <3>3, <3>4 DEF InWork
      <3>6. QED
        BY <3>5
    <2>7. QED
      BY <2>5, <2>6
  <1>16. AnnKeptAt(r)'
    <2> SUFFICES ASSUME NEW b \in heard[r]
                 PROVE  /\ b > next => bufAnn'[r][b] > 0
                        /\ b = next => AnnInWork(r, b)'
      BY <1>1 DEF AnnKeptAt
    <2>1. b \in BlockNum /\ b \in Nat
      BY BlocksAssumption DEF TypeOK, Blocks, BlockNum
    <2>2. b >= next => bufAnn[r][b] > 0
      BY <1>2, <2>1 DEF LocalInv, AnnKeptAt, next
    <2>3. b > next => bufAnn'[r][b] > 0
      BY <1>2, <1>6, <2>1, <2>2
    <2>4. ASSUME b = next
          PROVE  AnnInWork(r, b)'
      <3>1. PICK i \in 1 .. Len(u) : u[i] = Announcement(next, NoPeer)
        BY <1>2, <1>4, <2>2, <2>4
      <3>2. PICK k \in 1 .. Len(work'[r]) : work'[r][k] = u[i]
        BY <1>21
      <3>3. /\ Announcement(next, NoPeer).ch = "announce"
            /\ Announcement(next, NoPeer).block = next
        BY DEF Announcement
      <3>4. QED
        BY <2>4, <3>1, <3>2, <3>3 DEF AnnInWork
    <2>5. QED
      BY <2>3, <2>4
  <1>17. PrunedAt(r)'
    <2>1. /\ \A b \in BlockNum : b < block[r] => bufAnn[r][b] = 0 /\ bufData[r][b] = <<>>
          /\ bufAnn[r][block[r]] = 0 /\ bufData[r][block[r]] = <<>>
      BY <1>1 DEF LocalInv, PrunedAt
    <2>2. ASSUME NEW b \in BlockNum, b < next
          PROVE  bufAnn'[r][b] = 0 /\ bufData'[r][b] = <<>>
      <3>1. b # next /\ (b < block[r] \/ b = block[r])
        BY <1>2, <1>11, <2>2 DEF BlockNum
      <3>2. bufAnn'[r][b] = bufAnn[r][b] /\ bufData'[r][b] = bufData[r][b]
        BY <1>6, <3>1
      <3>3. QED
        BY <2>1, <3>1, <3>2
    <2>3. bufAnn'[r][next] = 0
      BY <1>2, <1>6
    <2>4. QED
      BY <1>1, <2>2, <2>3 DEF PrunedAt
  <1>18. AnnouncedAt(r)'
    BY <1>1, <1>11 DEF LocalInv, AnnouncedAt
  <1>19. ForwardAt(r)' /\ FlagAt(r)'
    <2>1. ForwardRounds({}, FALSE) = 0
      BY FS_EmptySet, ForwardAssumption DEF ForwardRounds
    <2>2. fwds'[r][next] = 0
      BY <1>2, <1>7 DEF LocalInv, ForwardAt
    <2>3. ASSUME NEW b \in BlockNum, b < next
          PROVE  fwds'[r][b] = ForwardRounds(decoded'[r][b + 1].packets, TRUE)
      <3>1. CASE b = block[r]
        <4>1. b + 1 = next
          BY <3>1 DEF next
        <4>2. QED
          BY <1>7, <1>9, <1>10, <3>1, <4>1, Zenon
      <3>2. CASE b # block[r]
        <4>1. b < block[r] /\ b + 1 \in 1 .. block[r]
          BY <1>2, <1>11, <2>3, <3>2 DEF BlockNum
        <4>2. fwds'[r][b] = fwds[r][b] /\ decoded'[r][b + 1] = decoded[r][b + 1]
          BY <1>7, <1>9, <3>2, <4>1
        <4>3. QED
          BY <4>1, <4>2 DEF LocalInv, ForwardAt
      <3>3. QED
        BY <3>1, <3>2
    <2>4. ASSUME NEW b \in BlockNum, b > next
          PROVE  fwds'[r][b] = 0
      <3>1. b # block[r] /\ b > block[r]
        BY <1>2, <2>4 DEF BlockNum
      <3>2. QED
        BY <1>7, <3>1 DEF LocalInv, ForwardAt
    <2>5. ForwardAt(r)'
      BY <1>1, <2>1, <2>2, <2>3, <2>4 DEF ForwardAt
    <2>6. FlagAt(r)'
      <3>1. ~(fwds'[r][block'[r]] > 0) /\ ~forwarded'[r] /\ IsFiniteSet(accepted'[r])
        BY <1>1, <2>2, FS_EmptySet
      <3>2. QED
        BY <3>1, Zenon DEF FlagAt
    <2>7. QED
      BY <2>5, <2>6
  <1>20. QED
    BY <1>12, <1>13, <1>14, <1>15, <1>16, <1>17, <1>18, <1>19 DEF LocalInv

-----------------------------------------------------------------------------
(***************************************************************************)
(* The inductive invariant, and the theorems.                              *)
(***************************************************************************)

\* The local invariant holds initially.
LEMMA InitLocal ==
    ASSUME Init, NEW r \in Receiver
    PROVE  LocalInv(r)
  <1> USE BlocksAssumption DEF Init
  <1>1. 0 \in BlockNum /\ block[r] = 0 /\ work[r] = <<>> /\ decoded[r] = <<>> /\ accepted[r] = {}
    BY DEF BlockNum
  <1>2. /\ bufAnn[r] = [b \in BlockNum |-> 0] /\ bufData[r] = [b \in BlockNum |-> <<>>]
        /\ rebcast[r] = [b \in BlockNum |-> 0]
    OBVIOUS
  <1>3. \A b \in BlockNum : ~(b < 0)
    BY DEF BlockNum
  <1>4. IsolatedAt(r) /\ failed[r] = 0 /\ KeptAt(r) /\ AnnKeptAt(r)
    BY DEF IsolatedAt, KeptAt, AnnKeptAt
  <1>5. DecodedAt(r) /\ NotAheadAt(r)
    BY <1>1 DEF DecodedAt, NotAheadAt
  <1>6. PrunedAt(r) /\ AnnouncedAt(r)
    BY <1>1, <1>2, <1>3 DEF PrunedAt, AnnouncedAt
  <1>7. ForwardRounds({}, FALSE) = 0
    BY FS_EmptySet, ForwardAssumption DEF ForwardRounds
  <1>8. fwds[r] = [b \in BlockNum |-> 0] /\ forwarded[r] = FALSE
    OBVIOUS
  <1>9. ForwardAt(r)
    BY <1>1, <1>3, <1>7, <1>8 DEF ForwardAt
  <1>10. FlagAt(r)
    BY <1>1, <1>8, FS_EmptySet DEF FlagAt
  <1>11. QED
    BY <1>4, <1>5, <1>6, <1>9, <1>10 DEF LocalInv

\* Every step of a receiver keeps its local invariant.
LEMMA StepLocal ==
    ASSUME TypeOK, NEW r \in Receiver, LocalInv(r), Act(r)
    PROVE  LocalInv(r)'
  <1>1. CASE \E m \in Arriving : Receive(r, m)
    BY <1>1, ReceiveLocal
  <1>2. CASE ChannelClosed(r)
    <2>1. UNCHANGED <<phase, block, bufAnn, bufData, work, forwarded, ctx, accepted,
                      decoded_count, got, heard, decoded, failed, fwds, rebcast>>
      BY <1>2 DEF ChannelClosed, protocolVars, historyVars
    <2>2. IsolatedAt(r)' /\ failed'[r] = 0 /\ FlagAt(r)' /\ KeptAt(r)'
      BY <2>1 DEF LocalInv, IsolatedAt, FlagAt, KeptAt, InBuffer, InWork, Derived
    <2>3. AnnKeptAt(r)' /\ NotAheadAt(r)' /\ PrunedAt(r)' /\ AnnouncedAt(r)'
      BY <2>1 DEF LocalInv, AnnKeptAt, AnnInWork, NotAheadAt, PrunedAt, AnnouncedAt
    <2>4. DecodedAt(r)' /\ ForwardAt(r)'
      BY <2>1 DEF LocalInv, DecodedAt, ForwardAt
    <2>5. QED
      BY <2>2, <2>3, <2>4 DEF LocalInv
  <1>3. CASE Step(r)
    BY <1>3, DropLocal, IngestAnnouncementLocal, BufferDataLocal, AcceptDataLocal,
       CompleteBlockLocal DEF Step
  <1>4. QED
    BY <1>1, <1>2, <1>3 DEF Act

\* The inductive step.
LEMMA Inductive == IInv /\ [Next]_nodeVars => IInv'
  <1> SUFFICES ASSUME IInv, [Next]_nodeVars
               PROVE  IInv'
    OBVIOUS
  <1>1. CASE Next
    <2>1. PICK r \in Receiver : Act(r)
      BY <1>1 DEF Next, Act
    <2>2. TypeOK'
      BY <2>1, TypeStep DEF IInv, LocalInv, DecodedInOrder, BlockIsolation
    <2>3. ASSUME NEW q \in Receiver PROVE LocalInv(q)'
      <3>1. CASE q = r
        BY <2>1, <3>1, StepLocal DEF IInv
      <3>2. CASE q # r
        BY <2>1, <3>2, Frame, SameLocal DEF IInv
      <3>3. QED
        BY <3>1, <3>2
    <2>4. QED
      BY <2>2, <2>3 DEF IInv
  <1>2. CASE UNCHANGED nodeVars
    <2>1. UNCHANGED <<phase, block, bufAnn, bufData, work, forwarded, running>>
      BY <1>2 DEF nodeVars, actorVars
    <2>2. UNCHANGED <<ctx, accepted, decoded_count>>
      BY <1>2 DEF nodeVars, protocolVars
    <2>3. UNCHANGED <<got, heard, decoded, failed, fwds, rebcast>>
      BY <1>2 DEF nodeVars, historyVars
    <2>4. TypeOK'
      BY <2>1, <2>2, <2>3 DEF IInv, TypeOK
    <2>5. \A q \in Receiver : Same(q)
      BY <2>1, <2>2, <2>3 DEF Same
    <2>6. QED
      BY <2>4, <2>5, SameLocal DEF IInv
  <1>3. QED
    BY <1>1, <1>2

\* IInv holds in every state of every behaviour.
LEMMA InvariantHolds == Spec => []IInv
  <1>1. Init => IInv
    BY TypeInit, InitLocal DEF IInv
  <1>2. QED
    BY <1>1, Inductive, PTL DEF Spec

\* Every variable of a receiver keeps its type, for any number of receivers and
\* blocks and any packet space.
THEOREM TypeCorrect == Spec => []TypeOK
  <1>1. IInv => TypeOK
    BY DEF IInv
  <1>2. QED
    BY <1>1, InvariantHolds, PTL

\* The protocol object's announcement state and decoder are always those of the
\* current block (baseline.rs, pedersen.rs, bfkw.rs: reset between blocks).
THEOREM Isolation == Spec => []BlockIsolation
  <1>1. IInv => BlockIsolation
    BY DEF IInv, LocalInv, BlockIsolation
  <1>2. QED
    BY <1>1, InvariantHolds, PTL

\* An honest packet never fails to ingest, in whatever order messages arrive.
THEOREM IngestNeverFails == Spec => []NoIngestError
  <1>1. IInv => NoIngestError
    BY DEF IInv, LocalInv, NoIngestError
  <1>2. QED
    BY <1>1, InvariantHolds, PTL

\* Blocks are decoded in order, once each, from their own complete packets.
THEOREM InOrder == Spec => []DecodedInOrder
  <1>1. IInv => DecodedInOrder
    BY DEF IInv, LocalInv, DecodedInOrder
  <1>2. QED
    BY <1>1, InvariantHolds, PTL

\* Route drops no information: what arrived for a block still to be decoded is
\* in the buffer, the work queue or the decoder, announcements included.
THEOREM Retention == Spec => []NothingLost
  <1>1. IInv => NothingLost
    BY DEF IInv, LocalInv, NothingLost
  <1>2. QED
    BY <1>1, InvariantHolds, PTL

\* The buffer is emptied as the node advances, and the work queue holds no item
\* of a block the node has not reached.
THEOREM Housekeeping == Spec => []NothingOutOfTurn
  <1>1. IInv => NothingOutOfTurn
    BY DEF IInv, LocalInv, NothingOutOfTurn
  <1>2. QED
    BY <1>1, InvariantHolds, PTL

\* A node re-broadcasts the announcement of a block exactly once.
THEOREM FloodOnce == Spec => []AnnouncedOnce
  <1>1. IInv => AnnouncedOnce
    BY DEF IInv, LocalInv, AnnouncedOnce
  <1>2. QED
    BY <1>1, InvariantHolds, PTL

\* The number of forwarding rounds of every block follows the forward condition.
THEOREM Forwarding == Spec => []ForwardPolicy
  <1>1. IInv => ForwardPolicy
    BY DEF IInv, LocalInv, ForwardPolicy
  <1>2. QED
    BY <1>1, InvariantHolds, PTL

-----------------------------------------------------------------------------
(***************************************************************************)
(* Where everything a receiver holds comes from.  The invariant is         *)
(* inductive relative to IInv.                                             *)
(***************************************************************************)


\* Popping an item and queueing u: what is in the queue then was there or is of u.
LEMMA PopOrigin ==
    ASSUME TypeOK, NEW r \in Receiver, work[r] # <<>>, NEW u \in Seq(Message),
           work'[r] = Tail(work[r]) \o u, UNCHANGED <<got, heard>>,
           \A i \in 1 .. Len(work[r]) : Arrived(r, work[r][i]),
           \A i \in 1 .. Len(u) : Arrived(r, u[i])
    PROVE  \A i \in 1 .. Len(work'[r]) : Arrived(r, work[r][i])'
  <1> DEFINE w == work[r]
             v == work'[r]
  <1>1. w \in Seq(Message) /\ w # <<>> /\ v = Tail(w) \o u
    BY WorkingFacts
  <1> HIDE DEF w, v
  <1>2. /\ Len(v) = Len(w) - 1 + Len(u)
        /\ \A i \in 1 .. Len(w) - 1 : v[i] = w[i + 1]
        /\ \A i \in 1 .. Len(u) : v[Len(w) - 1 + i] = u[i]
        /\ Len(w) \in Nat /\ Len(u) \in Nat
    BY ONLY <1>1, u \in Seq(Message)
  <1>3. ASSUME NEW i \in 1 .. Len(v) PROVE Arrived(r, v[i])
    <2>1. CASE i <= Len(w) - 1
      <3>1. i + 1 \in 1 .. Len(w) /\ v[i] = w[i + 1]
        BY <1>2, <2>1
      <3>2. Arrived(r, w[i + 1])
        BY <3>1 DEF w
      <3>3. QED
        BY <3>1, <3>2
    <2>2. CASE i > Len(w) - 1
      <3> DEFINE k == i - (Len(w) - 1)
      <3>1. k \in 1 .. Len(u) /\ Len(w) - 1 + k = i
        BY <1>2, <2>2
      <3> HIDE DEF k
      <3>2. v[i] = u[k] /\ Arrived(r, u[k])
        BY <1>2, <3>1
      <3>3. QED
        BY <3>2
    <2>3. QED
      BY <1>2, <2>1, <2>2
  <1>4. QED
    BY <1>3 DEF v, Arrived

\* The same when nothing is queued.
LEMMA PopOnlyOrigin ==
    ASSUME TypeOK, NEW r \in Receiver, work[r] # <<>>, PopTo(r, <<>>),
           UNCHANGED <<got, heard>>, \A i \in 1 .. Len(work[r]) : Arrived(r, work[r][i])
    PROVE  \A i \in 1 .. Len(work'[r]) : Arrived(r, work[r][i])'
  <1> DEFINE u == <<>>
  <1>1. work'[r] = Tail(work[r]) \o u /\ u \in Seq(Message) /\ \A i \in 1 .. Len(u) : FALSE
    BY DEF PopTo, TypeOK
  <1> HIDE DEF u
  <1>2. QED
    BY <1>1, PopOrigin

\* The item the loop holds has arrived.
LEMMA HeadOrigin ==
    ASSUME TypeOK, NEW r \in Receiver, OriginAt(r), Working(r)
    PROVE  /\ Arrived(r, Head(work[r]))
           /\ Head(work[r]).ch = "announce" => block[r] \in heard[r]
           /\ Head(work[r]).ch = "data" => Extended(r) \subseteq got[r]
  <1>1. /\ work[r] \in Seq(Message) /\ work[r] # <<>> /\ Head(work[r]) = work[r][1]
        /\ Head(work[r]).block = block[r]
    BY WorkingFacts DEF Working
  <1>2. 1 \in 1 .. Len(work[r])
    BY ONLY <1>1
  <1>3. Arrived(r, Head(work[r]))
    BY <1>1, <1>2 DEF OriginAt
  <1>4. QED
    BY <1>1, <1>3 DEF Arrived, OriginAt, Extended

\* Dropping an item.
LEMMA DropOrigin ==
    ASSUME TypeOK, NEW r \in Receiver, OriginAt(r),
           SkipItem(r) \/ IgnoreAnnouncement(r) \/ RejectData(r)
    PROVE  OriginAt(r)'
  <1>1. /\ work[r] # <<>> /\ PopTo(r, <<>>)
        /\ UNCHANGED <<phase, block, bufAnn, bufData, accepted, got, heard, decoded>>
    BY DEF SkipItem, IgnoreAnnouncement, RejectData, Ingesting, Working, protocolVars, historyVars
  <1>2. \A i \in 1 .. Len(work'[r]) : Arrived(r, work[r][i])'
    BY <1>1, PopOnlyOrigin DEF OriginAt
  <1>3. QED
    BY <1>1, <1>2 DEF OriginAt

\* A packet goes back to the buffer, under its own block.
LEMMA BufferDataOrigin ==
    ASSUME TypeOK, NEW r \in Receiver, OriginAt(r), BufferData(r)
    PROVE  OriginAt(r)'
  <1>1. /\ work[r] # <<>> /\ PopTo(r, <<>>) /\ Working(r) /\ Head(work[r]).ch = "data"
        /\ Head(work[r]).block = block[r]
        /\ UNCHANGED <<phase, block, bufAnn, accepted, got, heard, decoded>>
    BY DEF BufferData, Working, protocolVars, historyVars
  <1>2. \A i \in 1 .. Len(work'[r]) : Arrived(r, work[r][i])'
    BY <1>1, PopOnlyOrigin DEF OriginAt
  <1>3. [block |-> block[r], vec |-> Head(work[r]).vec] \in got[r]
    BY <1>1, HeadOrigin DEF Arrived
  <1>4. Head(work[r]).vec \in Vec /\ block[r] \in BlockNum
    BY <1>1, WorkingFacts
  <1> DEFINE x == Append(bufData[r][block[r]], Head(work[r]).vec)
  <1>5. bufData \in QueueTable /\ \A b \in BlockNum : bufData[r][b] \in Seq(Vec)
    BY QueueTableEntry DEF TypeOK
  <1>6. x \in Seq(Vec) /\ bufData' = SetAt(bufData, r, block[r], x)
    BY <1>4, <1>5 DEF BufferData
  <1> HIDE DEF x
  <1>7. \A b \in BlockNum : bufData'[r][b] = IF b = block[r] THEN x ELSE bufData[r][b]
    BY ONLY <1>4, <1>5, <1>6, QueueTableAt, r \in Receiver
  <1>8. ASSUME NEW b \in BlockNum, NEW i \in 1 .. Len(bufData'[r][b])
        PROVE  [block |-> b, vec |-> bufData'[r][b][i]] \in got[r]
    <2>1. CASE b # block[r]
      BY <1>7, <2>1 DEF OriginAt
    <2>2. CASE b = block[r]
      <3>1. /\ bufData'[r][b] = Append(bufData[r][b], Head(work[r]).vec)
            /\ bufData[r][b] \in Seq(Vec)
        BY <1>4, <1>5, <1>7, <2>2 DEF x
      <3>2. \/ i \in 1 .. Len(bufData[r][b]) /\ bufData'[r][b][i] = bufData[r][b][i]
            \/ bufData'[r][b][i] = Head(work[r]).vec
        BY <1>4, <3>1
      <3>3. QED
        BY <1>3, <2>2, <3>2 DEF OriginAt
    <2>3. QED
      BY <2>1, <2>2
  <1>9. QED
    BY <1>1, <1>2, <1>8 DEF OriginAt

\* A useful packet enters the decoder.
LEMMA AcceptDataOrigin ==
    ASSUME TypeOK, NEW r \in Receiver, OriginAt(r), AcceptData(r)
    PROVE  OriginAt(r)'
  <1>1. /\ work[r] # <<>> /\ PopTo(r, <<>>) /\ Working(r) /\ Head(work[r]).ch = "data"
        /\ accepted'[r] = Extended(r)
        /\ UNCHANGED <<phase, block, bufAnn, bufData, got, heard, decoded>>
    BY DEF AcceptData, Ingesting, Working, TypeOK
  <1>2. \A i \in 1 .. Len(work'[r]) : Arrived(r, work[r][i])'
    BY <1>1, PopOnlyOrigin DEF OriginAt
  <1>3. Extended(r) \subseteq got[r]
    BY <1>1, HeadOrigin
  <1>4. QED
    BY <1>1, <1>2, <1>3 DEF OriginAt

\* The items a buffer entry turns into have arrived, since what it held has.
LEMMA ItemsOrigin ==
    ASSUME TypeOK, NEW r \in Receiver, OriginAt(r), NEW b \in Blocks
    PROVE  /\ \A i \in 1 .. Len(AnnItems(b, bufAnn[r][b])) :
                 Arrived(r, AnnItems(b, bufAnn[r][b])[i])
           /\ \A i \in 1 .. Len(DataItems(b, bufData[r][b])) :
                 Arrived(r, DataItems(b, bufData[r][b])[i])
  <1> DEFINE n == bufAnn[r][b]
             vs == bufData[r][b]
  <1>1. b \in BlockNum /\ n \in Nat /\ vs \in Seq(Vec)
    BY BlocksAssumption, CountTableEntry, QueueTableEntry DEF TypeOK, Blocks, BlockNum
  <1>2. n > 0 => b \in heard[r]
    BY <1>1 DEF OriginAt
  <1>3. \A i \in 1 .. Len(vs) : [block |-> b, vec |-> vs[i]] \in got[r]
    BY <1>1 DEF OriginAt
  <1> HIDE DEF n, vs
  <1>4. /\ Len(AnnItems(b, n)) = n /\ Len(DataItems(b, vs)) = Len(vs)
        /\ \A i \in 1 .. n : AnnItems(b, n)[i] = Announcement(b, NoPeer)
        /\ \A i \in 1 .. Len(vs) : DataItems(b, vs)[i] = Data(b, vs[i], NoPeer)
    BY <1>1, ItemFacts
  <1>5. n > 0 => Arrived(r, Announcement(b, NoPeer))
    BY <1>2 DEF Arrived, Announcement
  <1>6. \A i \in 1 .. Len(vs) : Arrived(r, Data(b, vs[i], NoPeer))
    BY <1>3 DEF Arrived, Data
  <1>7. \A i \in 1 .. Len(AnnItems(b, n)) : Arrived(r, AnnItems(b, n)[i])
    BY <1>1, <1>4, <1>5
  <1>8. \A i \in 1 .. Len(DataItems(b, vs)) : Arrived(r, DataItems(b, vs)[i])
    BY <1>4, <1>6
  <1>9. QED
    BY <1>7, <1>8 DEF n, vs

\* The announcement is ingested, and the data that came before it is queued.
LEMMA IngestAnnouncementOrigin ==
    ASSUME TypeOK, NEW r \in Receiver, OriginAt(r), IngestAnnouncement(r)
    PROVE  OriginAt(r)'
  <1> DEFINE u == DataItems(block[r], bufData[r][block[r]])
  <1>1. /\ work[r] # <<>> /\ Working(r) /\ Head(work[r]).ch = "announce"
        /\ UNCHANGED <<block, accepted, got, heard, decoded>>
    BY DEF IngestAnnouncement, Working
  <1>2. block[r] \in Blocks /\ block[r] \in BlockNum
    BY <1>1, WorkingFacts DEF Working
  <1>3. u \in Seq(Message) /\ \A i \in 1 .. Len(u) : Arrived(r, u[i])
    BY <1>2, ItemsOrigin, ItemFacts, QueueTableEntry, CountTableEntry DEF TypeOK
  <1>4. work'[r] = Tail(work[r]) \o u
    BY DEF IngestAnnouncement, PopTo, TypeOK
  <1>5. /\ \A e \in BlockNum : bufAnn'[r][e] = IF e = block[r] THEN 0 ELSE bufAnn[r][e]
        /\ \A e \in BlockNum : bufData'[r][e] = IF e = block[r] THEN <<>> ELSE bufData[r][e]
    BY <1>2, ClearAt DEF IngestAnnouncement
  <1> HIDE DEF u
  <1>6. \A i \in 1 .. Len(work'[r]) : Arrived(r, work[r][i])'
    BY <1>1, <1>3, <1>4, PopOrigin DEF OriginAt
  <1>7. block[r] \in heard[r]
    BY <1>1, HeadOrigin
  <1>8. /\ \A b \in BlockNum : bufAnn'[r][b] > 0 => b \in heard[r]
        /\ \A b \in BlockNum : \A i \in 1 .. Len(bufData'[r][b]) :
               [block |-> b, vec |-> bufData'[r][b][i]] \in got[r]
    BY <1>5 DEF OriginAt
  <1>9. QED
    BY <1>1, <1>6, <1>7, <1>8 DEF OriginAt

\* The block is decoded from what arrived, and its successor's buffer entry queued.
LEMMA CompleteBlockOrigin ==
    ASSUME TypeOK, NEW r \in Receiver, LocalInv(r), OriginAt(r), CompleteBlock(r)
    PROVE  OriginAt(r)'
  <1> DEFINE next == block[r] + 1
             ann == AnnItems(next, bufAnn[r][next])
             dat == DataItems(next, bufData[r][next])
             u == ann \o dat
             rec == [ctx |-> ctx[r], packets |-> Extended(r)]
  <1>1. /\ work[r] # <<>> /\ Working(r) /\ Head(work[r]).ch = "data" /\ phase[r] = "Decoding"
        /\ block'[r] = next /\ phase'[r] = "Init" /\ accepted'[r] = {}
        /\ decoded'[r] = Append(decoded[r], rec)
        /\ UNCHANGED <<got, heard>>
    BY DEF CompleteBlock, ResetProtocol, Ingesting, Working, TypeOK
  <1>2. block[r] \in Blocks /\ block[r] \in Nat /\ next \in BlockNum
    BY <1>1, WorkingFacts, BlocksAssumption DEF Working, Blocks, BlockNum
  <1>3. block[r] \in heard[r] /\ Extended(r) \subseteq got[r]
    BY <1>1, HeadOrigin DEF OriginAt
  <1>4. /\ ann \in Seq(Message) /\ \A i \in 1 .. Len(ann) : Arrived(r, ann[i])
        /\ dat \in Seq(Message) /\ \A i \in 1 .. Len(dat) : Arrived(r, dat[i])
    <2>1. CASE next \in Blocks
      BY <1>2, <2>1, ItemsOrigin, ItemFacts, QueueTableEntry, CountTableEntry DEF TypeOK
    <2>2. CASE next \notin Blocks
      <3>1. next = NumBlocks
        BY <1>2, <2>2, BlocksAssumption DEF Blocks, BlockNum
      <3>2. bufAnn[r][next] = 0 /\ bufData[r][next] = <<>>
        BY <3>1 DEF TypeOK
      <3>3. AnnItems(next, 0) = <<>> /\ DataItems(next, <<>>) = <<>>
        BY NoItems
      <3>4. ann = <<>> /\ dat = <<>>
        BY <3>2, <3>3, Zenon
      <3> HIDE DEF ann, dat
      <3>5. QED
        BY ONLY <3>4
    <2>3. QED
      BY <2>1, <2>2
  <1>5. work'[r] = Tail(work[r]) \o u
    BY DEF CompleteBlock, PopTo, TypeOK
  <1>6. /\ \A e \in BlockNum : bufAnn'[r][e] = IF e = next THEN 0 ELSE bufAnn[r][e]
        /\ \A e \in BlockNum : bufData'[r][e] = IF e = next THEN <<>> ELSE bufData[r][e]
    BY <1>2, ClearAt DEF CompleteBlock
  <1>7. /\ Len(decoded[r]) = block[r] /\ decoded[r] \in Seq(DecodedRecord)
        /\ rec.packets = Extended(r)
    BY DEF LocalInv, DecodedAt, TypeOK
  <1>8. u \in Seq(Message) /\ \A i \in 1 .. Len(u) : Arrived(r, u[i])
    <2> HIDE DEF ann, dat
    <2>1. /\ u \in Seq(Message) /\ Len(u) = Len(ann) + Len(dat)
          /\ Len(ann) \in Nat /\ Len(dat) \in Nat
      BY ONLY <1>4
    <2>2. \A i \in 1 .. Len(ann) : u[i] = ann[i]
      BY ONLY <1>4
    <2>3. \A i \in 1 .. Len(dat) : u[Len(ann) + i] = dat[i]
      BY ONLY <1>4
    <2> HIDE DEF u
    <2>4. ASSUME NEW i \in 1 .. Len(u) PROVE Arrived(r, u[i])
      <3>1. CASE i <= Len(ann)
        BY <1>4, <2>1, <2>2, <3>1
      <3>2. CASE i > Len(ann)
        <4> DEFINE k == i - Len(ann)
        <4>1. k \in 1 .. Len(dat) /\ Len(ann) + k = i
          BY <2>1, <3>2
        <4> HIDE DEF k
        <4>2. u[i] = dat[k] /\ Arrived(r, dat[k])
          BY <1>4, <2>3, <4>1
        <4>3. QED
          BY <4>2
      <3>3. QED
        BY <2>1, <3>1, <3>2
    <2>5. QED
      BY <2>1, <2>4
  <1> HIDE DEF u, rec
  <1>9. \A i \in 1 .. Len(work'[r]) : Arrived(r, work[r][i])'
    BY <1>1, <1>5, <1>8, PopOrigin DEF OriginAt
  <1>10. /\ \A b \in BlockNum : bufAnn'[r][b] > 0 => b \in heard[r]
         /\ \A b \in BlockNum : \A i \in 1 .. Len(bufData'[r][b]) :
                [block |-> b, vec |-> bufData'[r][b][i]] \in got[r]
    BY <1>6 DEF OriginAt
  <1>11. ASSUME NEW b \in Blocks, b < next
         PROVE  b \in heard[r] /\ decoded'[r][b + 1].packets \subseteq got[r]
    <2>1. CASE b < block[r]
      <3>1. b + 1 \in 1 .. Len(decoded[r])
        BY <1>2, <1>7, <2>1, BlocksAssumption DEF Blocks
      <3>2. decoded'[r][b + 1] = decoded[r][b + 1]
        BY <1>1, <1>7, <3>1
      <3>3. QED
        BY <2>1, <3>2 DEF OriginAt
    <2>2. CASE b = block[r]
      <3>1. decoded'[r][b + 1] = rec
        BY <1>1, <1>2, <1>7, <2>2
      <3>2. QED
        BY <1>3, <1>7, <2>2, <3>1
    <2>3. QED
      BY <1>2, <1>11, <2>1, <2>2, BlocksAssumption DEF Blocks
  <1>12. QED
    BY <1>1, <1>9, <1>10, <1>11 DEF OriginAt

\* A message comes in: it is recorded, and buffered or queued as what it is.
LEMMA ReceiveOrigin ==
    ASSUME TypeOK, NEW r \in Receiver, OriginAt(r), NEW m \in Arriving, Receive(r, m)
    PROVE  OriginAt(r)'
  <1>1. /\ m.block \in BlockNum /\ m.ch \in {"announce", "data"}
        /\ m.ch = "data" => m.vec \in Vec
    BY BlocksAssumption DEF Arriving, Message, AnnMsg, DataMsg, Blocks, BlockNum
  <1>2. /\ m.ch = "data" => got'[r] = got[r] \cup {[block |-> m.block, vec |-> m.vec]}
        /\ m.ch # "data" => got'[r] = got[r]
        /\ m.ch = "announce" => heard'[r] = heard[r] \cup {m.block}
        /\ m.ch # "announce" => heard'[r] = heard[r]
    BY DEF Receive, RouteStale, RouteFuture, RouteCurrent, Record, TypeOK
  <1>3. work[r] = <<>> /\ UNCHANGED <<phase, block, accepted, decoded>>
    BY DEF Receive, RouteStale, RouteFuture, RouteCurrent, Listening, Record, actorVars, protocolVars
  <1>4. /\ got[r] \subseteq got'[r] /\ heard[r] \subseteq heard'[r]
        /\ m.ch = "announce" => m.block \in heard'[r]
        /\ m.ch = "data" => [block |-> m.block, vec |-> m.vec] \in got'[r]
    BY <1>2
  <1>5. /\ accepted'[r] \subseteq got'[r]
        /\ phase'[r] = "Decoding" => block'[r] \in heard'[r]
        /\ \A b \in Blocks : b < block'[r] =>
               b \in heard'[r] /\ decoded'[r][b + 1].packets \subseteq got'[r]
    BY <1>3, <1>4 DEF OriginAt
  <1>6. \A i \in 1 .. Len(work'[r]) : Arrived(r, work[r][i])'
    <2>1. CASE RouteCurrent(r, m)
      <3>1. work'[r] = <<m>>
        BY <2>1 DEF RouteCurrent, TypeOK
      <3>2. Len(work'[r]) = 1 /\ work'[r][1] = m
        BY <3>1
      <3>3. QED
        BY <1>1, <1>4, <3>2 DEF Arrived
    <2>2. CASE RouteStale(r, m) \/ RouteFuture(r, m)
      BY <1>3, <2>2 DEF RouteStale, RouteFuture, actorVars
    <2>3. QED
      BY <2>1, <2>2 DEF Receive
  <1>7. /\ \A b \in BlockNum : bufAnn'[r][b] > 0 => b \in heard'[r]
        /\ \A b \in BlockNum : \A i \in 1 .. Len(bufData'[r][b]) :
               [block |-> b, vec |-> bufData'[r][b][i]] \in got'[r]
    <2>1. CASE RouteFuture(r, m)
      <3>1. \A b \in BlockNum :
                bufAnn'[r][b] = IF m.ch = "announce" /\ b = m.block
                                THEN bufAnn[r][b] + 1 ELSE bufAnn[r][b]
        BY <2>1, RouteFutureAt
      <3>2. ASSUME NEW b \in BlockNum, NEW i \in 1 .. Len(bufData'[r][b])
            PROVE  [block |-> b, vec |-> bufData'[r][b][i]] \in got'[r]
        <4>1. bufData[r][b] \in Seq(Vec)
          BY QueueTableEntry DEF TypeOK
        <4>2. CASE m.ch = "data" /\ b = m.block
          <5>1. bufData'[r][b] = Append(bufData[r][b], m.vec) /\ m.vec \in Vec
            BY <1>1, <2>1, <4>2, RouteFutureAt
          <5>2. \/ i \in 1 .. Len(bufData[r][b]) /\ bufData'[r][b][i] = bufData[r][b][i]
                \/ bufData'[r][b][i] = m.vec
            BY <4>1, <5>1
          <5>3. QED
            BY <1>4, <4>2, <5>2 DEF OriginAt
        <4>3. CASE ~(m.ch = "data" /\ b = m.block)
          <5>1. bufData'[r][b] = bufData[r][b]
            BY <2>1, <4>3, RouteFutureAt
          <5>2. QED
            BY <1>4, <5>1 DEF OriginAt
        <4>4. QED
          BY <4>2, <4>3
      <3>3. QED
        BY <1>4, <3>1, <3>2 DEF OriginAt
    <2>2. CASE RouteStale(r, m) \/ RouteCurrent(r, m)
      <3>1. UNCHANGED <<bufAnn, bufData>>
        BY <2>2 DEF RouteStale, RouteCurrent, actorVars
      <3>2. QED
        BY <1>4, <3>1 DEF OriginAt
    <2>3. QED
      BY <2>1, <2>2 DEF Receive
  <1>8. QED
    BY <1>5, <1>6, <1>7 DEF OriginAt

-----------------------------------------------------------------------------
(***************************************************************************)
(* The invariant, and the theorem.                                         *)
(***************************************************************************)

\* A receiver whose variables are unchanged keeps it.
LEMMA SameOrigin ==
    ASSUME NEW q \in Receiver, Same(q), OriginAt(q)
    PROVE  OriginAt(q)'
  BY DEF Same, OriginAt, Arrived

\* Every step of a receiver keeps it.
LEMMA StepOrigin ==
    ASSUME TypeOK, NEW r \in Receiver, LocalInv(r), OriginAt(r), Act(r)
    PROVE  OriginAt(r)'
  <1>1. CASE \E m \in Arriving : Receive(r, m)
    BY <1>1, ReceiveOrigin
  <1>2. CASE ChannelClosed(r)
    <2>1. UNCHANGED <<phase, block, bufAnn, bufData, work, accepted, got, heard, decoded>>
      BY <1>2 DEF ChannelClosed, protocolVars, historyVars
    <2>2. QED
      BY <2>1 DEF OriginAt, Arrived
  <1>3. CASE Step(r)
    BY <1>3, DropOrigin, IngestAnnouncementOrigin, BufferDataOrigin, AcceptDataOrigin,
       CompleteBlockOrigin DEF Step
  <1>4. QED
    BY <1>1, <1>2, <1>3 DEF Act

OriginInv == IInv /\ NothingInvented

\* Initially nothing has come in, and nothing is held.
LEMMA OriginInit == Init => NothingInvented
  <1> SUFFICES ASSUME Init, NEW r \in Receiver PROVE OriginAt(r)
    BY DEF NothingInvented
  <1>1. /\ block[r] = 0 /\ work[r] = <<>> /\ accepted[r] = {} /\ phase[r] = "Init"
        /\ \A b \in BlockNum : bufAnn[r][b] = 0 /\ bufData[r][b] = <<>>
    BY DEF Init
  <1>2. \A b \in Blocks : ~(b < 0)
    BY BlocksAssumption DEF Blocks
  <1>3. QED
    BY <1>1, <1>2 DEF OriginAt

\* The inductive step.
LEMMA OriginInductive == OriginInv /\ [Next]_nodeVars => OriginInv'
  <1> SUFFICES ASSUME OriginInv, [Next]_nodeVars PROVE OriginInv'
    OBVIOUS
  <1>1. IInv'
    BY Inductive DEF OriginInv
  <1>2. ASSUME NEW q \in Receiver PROVE OriginAt(q)'
    <2>1. TypeOK /\ LocalInv(q) /\ OriginAt(q)
      BY DEF OriginInv, IInv, NothingInvented
    <2>2. CASE Next
      <3>1. PICK r \in Receiver : Act(r)
        BY <2>2 DEF Next, Act
      <3>2. CASE q = r
        BY <2>1, <3>1, <3>2, StepOrigin
      <3>3. CASE q # r
        BY <2>1, <3>1, <3>3, Frame, SameOrigin
      <3>4. QED
        BY <3>2, <3>3
    <2>3. CASE UNCHANGED nodeVars
      <3>1. UNCHANGED <<phase, block, bufAnn, bufData, work, accepted, got, heard, decoded>>
        BY <2>3 DEF nodeVars, actorVars, protocolVars, historyVars
      <3>2. QED
        BY <2>1, <3>1 DEF OriginAt, Arrived
    <2>4. QED
      BY <2>2, <2>3
  <1>3. QED
    BY <1>1, <1>2 DEF OriginInv, NothingInvented

\* Receivers' local invariants, with where everything comes from.
LEMMA OriginHolds == Spec => []OriginInv
  <1>1. Init => OriginInv
    BY OriginInit, TypeInit, InitLocal DEF OriginInv, IInv
  <1>2. QED
    BY <1>1, OriginInductive, PTL DEF Spec

\* Whatever a receiver buffers, queues, accepts or decodes came in, as that block's;
\* it decodes and moves on only with the announcement (route's buffering, draining
\* and requeueing in actor.rs).
THEOREM Provenance == Spec => []NothingInvented
  <1>1. OriginInv => NothingInvented
    BY DEF OriginInv
  <1>2. QED
    BY <1>1, OriginHolds, PTL

---------------------------------------------------------------------------
\* The network.

\* A batch of messages for existing links, each announced by a known sender.
Sendable(msgs) == DOMAIN msgs \subseteq Link /\ \A l \in DOMAIN msgs : msgs[l] \in Arriving

\* Sending a batch keeps what is under way well typed.
LEMMA TransmitType ==
    ASSUME NetTypeOK, NEW msgs, Sendable(msgs), Transmit(msgs)
    PROVE  net' \in [Link -> Seq(Arriving)]
  <1>1. PICK lost \in SUBSET DOMAIN msgs :
           net' = [l \in Link |->
                     IF l \in DOMAIN msgs \ lost THEN Append(net[l], msgs[l]) ELSE net[l]]
    BY DEF Transmit
  <1>2. \A l \in Link : net[l] \in Seq(Arriving)
    BY DEF NetTypeOK
  <1>3. ASSUME NEW l \in Link, l \in DOMAIN msgs PROVE Append(net[l], msgs[l]) \in Seq(Arriving)
    BY <1>2, <1>3 DEF Sendable
  <1>4. QED
    BY <1>1, <1>2, <1>3

\* The announcement of a block, from a node.
LEMMA AnnounceSendable ==
    ASSUME NEW p \in Peer, NEW b \in Blocks
    PROVE  Sendable(AnnounceFrom(p, b))
  <1>1. Announcement(b, p) \in Arriving
    BY PeerAssumption DEF Announcement, Arriving, Message, AnnMsg
  <1>2. ASSUME NEW r \in Reachable(p) PROVE <<p, r, "announce">> \in Link
    BY DEF Link, Channel, Reachable
  <1>3. QED
    BY <1>1, <1>2 DEF AnnounceFrom, Sendable

\* Data packets, from a node.
LEMMA DataSendable ==
    ASSUME NEW p \in Peer, NEW b \in Blocks, NEW T, NEW packet \in [T -> Vec]
    PROVE  Sendable(DataFrom(p, b, packet))
  <1>1. ASSUME NEW v \in Vec PROVE Data(b, v, p) \in Arriving
    BY PeerAssumption DEF Data, Arriving, Message, DataMsg
  <1>2. ASSUME NEW r \in Reachable(p) \cap DOMAIN packet
        PROVE  <<p, r, "data">> \in Link /\ Data(b, packet[<<p, r, "data">>[2]], p) \in Arriving
    BY <1>1 DEF Link, Channel, Reachable
  <1>3. QED
    BY <1>2 DEF DataFrom, Sendable

\* Two batches in one.
LEMMA BothSendable ==
    ASSUME NEW f, NEW g, Sendable(f), Sendable(g)
    PROVE  Sendable(Both(f, g))
  BY DEF Sendable, Both

\* What a node can recode lies in the packet space.
LEMMA RecodingsType ==
    ASSUME TypeOK, NEW r \in Receiver, work[r] # <<>>, Head(work[r]).ch = "data"
    PROVE  Recodings(r) \in SUBSET Vec
  <1>1. Head(work[r]).vec \in Vec
    BY WorkingFacts
  <1>2. \A q \in accepted[r] : q.vec \in Vec
    BY DEF TypeOK, Packet
  <1>3. Vecs(Extended(r)) \in SUBSET Vec
    BY <1>1, <1>2 DEF Vecs, Extended
  <1>4. QED
    BY <1>3, SpanAssumption DEF Recodings

\* One step of a receiver, with what it sends, keeps what is under way well typed.
LEMMA NodeStepNet ==
    ASSUME TypeOK, NetTypeOK, NEW r \in Receiver, NodeStep(r)
    PROVE  net' \in [Link -> Seq(Arriving)]
  <1>1. CASE UNCHANGED net
    BY <1>1 DEF NetTypeOK
  <1>2. r \in Peer
    BY NodesAssumption
  <1>3. CASE IngestAnnouncement(r) /\ Transmit(AnnounceFrom(r, block[r]))
    <2>1. work[r] # <<>> /\ Head(work[r]).block = block[r]
      BY <1>3 DEF IngestAnnouncement, Working
    <2>2. block[r] \in Blocks
      BY <2>1, WorkingFacts
    <2>3. Sendable(AnnounceFrom(r, block[r]))
      BY <1>2, <2>2, AnnounceSendable
    <2>4. QED
      BY <1>3, <2>3, TransmitType
  <1>4. CASE (AcceptData(r) \/ CompleteBlock(r)) /\ Forward(r)
    <2>1. work[r] # <<>> /\ Head(work[r]).block = block[r] /\ Head(work[r]).ch = "data"
      BY <1>4 DEF AcceptData, CompleteBlock, Ingesting, Working
    <2>2. block[r] \in Blocks
      BY <2>1, WorkingFacts
    <2>3. CASE Forwards(r)
      <3>1. PICK targets \in SelectPeers(r, Head(work[r]).from) :
               \E packet \in [targets -> Recodings(r)] : Transmit(DataFrom(r, block[r], packet))
        BY <1>4, <2>3 DEF Forward
      <3>2. PICK packet \in [targets -> Recodings(r)] : Transmit(DataFrom(r, block[r], packet))
        BY <3>1
      <3>3. packet \in [targets -> Vec]
        BY <2>1, <3>2, RecodingsType
      <3>4. Sendable(DataFrom(r, block[r], packet))
        BY <1>2, <2>2, <3>3, DataSendable
      <3>5. QED
        BY <3>2, <3>4, TransmitType
    <2>4. CASE ~Forwards(r)
      BY <1>1, <1>4, <2>4 DEF Forward
    <2>5. QED
      BY <2>3, <2>4
  <1>5. QED
    BY <1>1, <1>3, <1>4 DEF NodeStep

\* The proposer's turn keeps the types.
LEMMA ProposeType ==
    ASSUME NetTypeOK, Propose
    PROVE  NetTypeOK'
  <1>1. next_block \in Blocks /\ next_block' \in BlockNum
    BY BlocksAssumption DEF Propose, NetTypeOK, Blocks, BlockNum
  <1>11. PICK targets \in SelectPeers(Proposer, NoPeer) :
         \E packet \in [targets -> Vec] :
           /\ Transmit(Both(AnnounceFrom(Proposer, next_block),
                            DataFrom(Proposer, next_block, packet)))
           /\ injected' = [injected EXCEPT ![next_block] =
                             {packet[r] : r \in targets \cap GotOut}]
    BY DEF Propose
  <1>2. PICK packet \in [targets -> Vec] :
           /\ Transmit(Both(AnnounceFrom(Proposer, next_block),
                            DataFrom(Proposer, next_block, packet)))
           /\ injected' = [injected EXCEPT ![next_block] =
                             {packet[r] : r \in targets \cap GotOut}]
    BY <1>11
  <1>3. Proposer \in Peer
    BY NodesAssumption
  <1>4. Sendable(AnnounceFrom(Proposer, next_block))
    BY <1>1, <1>3, AnnounceSendable
  <1>5. Sendable(DataFrom(Proposer, next_block, packet))
    BY <1>1, <1>2, <1>3, DataSendable
  <1>6. Sendable(Both(AnnounceFrom(Proposer, next_block), DataFrom(Proposer, next_block, packet)))
    BY <1>4, <1>5, BothSendable
  <1>7. net' \in [Link -> Seq(Arriving)]
    BY <1>2, <1>6, TransmitType
  <1>8. {packet[r] : r \in targets \cap GotOut} \in SUBSET Vec
    BY <1>2
  <1>9. injected' \in [Blocks -> SUBSET Vec]
    BY <1>1, <1>2, <1>8 DEF NetTypeOK
  <1>10. QED
    BY <1>1, <1>7, <1>9 DEF NetTypeOK, Propose

\* Every step of the network keeps the types.
LEMMA NetTypeStep ==
    ASSUME TypeOK, NetTypeOK, [NetNext]_vars
    PROVE  NetTypeOK'
  <1>1. ASSUME NEW p \in Peer, NEW q \in Peer, Connect(p, q) PROVE NetTypeOK'
    BY <1>1 DEF Connect, NetTypeOK, Wires
  <1>2. CASE Probe
    BY <1>2 DEF Probe, NetTypeOK
  <1>3. CASE Propose
    BY <1>3, ProposeType
  <1>4. ASSUME NEW r \in Receiver, Deliver(r) PROVE NetTypeOK'
    <2>1. PICK l \in Link : /\ net[l] # <<>>
                            /\ net' = [net EXCEPT ![l] = Tail(@)]
                            /\ UNCHANGED <<linked, started, next_block, injected>>
      BY <1>4 DEF Deliver, Link
    <2>2. net[l] \in Seq(Arriving)
      BY DEF NetTypeOK
    <2>3. Tail(net[l]) \in Seq(Arriving)
      BY <2>1, <2>2
    <2>4. net' \in [Link -> Seq(Arriving)]
      BY <2>1, <2>3 DEF NetTypeOK
    <2>5. QED
      BY <2>1, <2>4 DEF NetTypeOK
  <1>5. ASSUME NEW r \in Receiver, NodeStep(r) PROVE NetTypeOK'
    <2>1. net' \in [Link -> Seq(Arriving)]
      BY <1>5, NodeStepNet
    <2>2. QED
      BY <1>5, <2>1 DEF NodeStep, NetTypeOK
  <1>6. CASE UNCHANGED vars
    BY <1>6 DEF vars, netVars, NetTypeOK
  <1>7. QED
    BY <1>1, <1>2, <1>3, <1>4, <1>5, <1>6 DEF NetNext

\* Every step of the network is a step of the receivers, or none of theirs.
LEMMA NetSimulates ==
    ASSUME NetTypeOK, [NetNext]_vars
    PROVE  [Next]_nodeVars
  <1>1. ASSUME NEW r \in Receiver, Deliver(r) PROVE Next
    <2>1. PICK l \in Link : net[l] # <<>> /\ Receive(r, Head(net[l]))
      BY <1>1 DEF Deliver, Link
    <2>2. net[l] \in Seq(Arriving)
      BY DEF NetTypeOK
    <2>3. Head(net[l]) \in Arriving
      BY <2>1, <2>2
    <2>4. QED
      BY <2>1, <2>3 DEF Next
  <1>2. ASSUME NEW r \in Receiver, NodeStep(r) PROVE Next
    BY <1>2 DEF NodeStep, Next, Step
  <1>3. CASE (\E p, q \in Peer : Connect(p, q)) \/ Probe \/ Propose
    BY <1>3 DEF Connect, Probe, Propose
  <1>4. CASE UNCHANGED vars
    BY <1>4 DEF vars
  <1>5. QED
    BY <1>1, <1>2, <1>3, <1>4 DEF NetNext

\* The initial state of the network.
LEMMA NetTypeInit == NetInit => NetTypeOK
  <1> SUFFICES ASSUME NetInit PROVE NetTypeOK
    OBVIOUS
  <1>1. net \in [Link -> Seq(Arriving)]
    <2>1. <<>> \in Seq(Arriving)
      OBVIOUS
    <2>2. net = [l \in Link |-> <<>>]
      BY DEF NetInit
    <2>3. QED
      BY ONLY <2>1, <2>2, Zenon
  <1>2. next_block \in BlockNum
    BY BlocksAssumption DEF NetInit, BlockNum
  <1>3. linked \subseteq Wires /\ started \in BOOLEAN
    BY LinksAssumption DEF NetInit
  <1>4. injected \in [Blocks -> SUBSET Vec]
    BY DEF NetInit
  <1>5. QED
    BY <1>1, <1>2, <1>3, <1>4 DEF NetTypeOK

NetInv == IInv /\ NetTypeOK

\* Receivers' invariants and the network's types hold together.
LEMMA NetInvariant == NetSpec => []NetInv
  <1>1. NetInit => NetInv
    BY NetTypeInit, TypeInit, InitLocal DEF NetInit, NetInv, IInv
  <1>2. NetInv /\ [NetNext]_vars => NetInv'
    <2> SUFFICES ASSUME NetInv, [NetNext]_vars PROVE NetInv'
      OBVIOUS
    <2>1. TypeOK /\ NetTypeOK /\ IInv
      BY DEF NetInv, IInv
    <2>2. NetTypeOK'
      BY <2>1, NetTypeStep
    <2>3. [Next]_nodeVars
      BY <2>1, NetSimulates
    <2>4. QED
      BY <2>1, <2>2, <2>3, Inductive DEF NetInv
  <1>3. QED
    BY <1>1, <1>2, PTL DEF NetSpec

\* Every variable of the network keeps its type; in particular whatever is under
\* way to a receiver is a message of an announced block from a known sender.
THEOREM NetworkTypeCorrect == NetSpec => []NetTypeOK
  <1>1. NetInv => NetTypeOK
    BY DEF NetInv
  <1>2. QED
    BY <1>1, NetInvariant, PTL

\* The network, with its proposer, its links and its losses, is one environment of
\* the open receiver specification.
LEMMA NetworkIsEnvironment == NetSpec => Spec
  <1>1. NetInit => Init
    BY DEF NetInit
  <1>2. NetInv /\ [NetNext]_vars => [Next]_nodeVars
    BY NetSimulates DEF NetInv
  <1>3. QED
    BY <1>1, <1>2, NetInvariant, PTL DEF NetSpec, Spec

-----------------------------------------------------------------------------
(***************************************************************************)
(* What is under way is genuine: an announcement of a block the proposer    *)
(* has proposed, or a packet derivable from what it got out of that block.  *)
(***************************************************************************)

Genuine ==
    {m \in Arriving : IF m.ch = "announce" THEN m.block < next_block
                                           ELSE FromSource(m.block, m.vec)}

\* What receivers were told is genuine, and so is what is under way to them.
SourceInv ==
    /\ \A l \in Link : net[l] \in Seq(Genuine)
    /\ \A r \in Receiver : \A b \in heard[r] : b < next_block
    /\ \A r \in Receiver : \A p \in got[r] : FromSource(p.block, p.vec)
    /\ \A b \in Blocks : b >= next_block => injected[b] = {}

\* A sequence over a set is one over a larger set.
LEMMA SeqMono ==
    ASSUME NEW S, NEW T, S \subseteq T, NEW s \in Seq(S)
    PROVE  s \in Seq(T)
  OBVIOUS

\* If the messages sent and not dropped are of a set, what is under way stays in that set.
LEMMA SurvivorsWithin ==
    ASSUME NEW G, NEW msgs, Transmit(msgs),
           \A l \in Link : net[l] \in Seq(G),
           \A l \in DOMAIN msgs \cap Link : net'[l] # net[l] => msgs[l] \in G
    PROVE  \A l \in Link : net'[l] \in Seq(G)
  <1>1. PICK lost \in SUBSET DOMAIN msgs :
           net' = [l \in Link |->
                     IF l \in DOMAIN msgs \ lost THEN Append(net[l], msgs[l]) ELSE net[l]]
    BY DEF Transmit
  <1>2. SUFFICES ASSUME NEW l \in Link, net'[l] # net[l] PROVE net'[l] \in Seq(G)
    OBVIOUS
  <1>3. l \in DOMAIN msgs /\ net'[l] = Append(net[l], msgs[l])
    BY <1>1, <1>2
  <1>4. msgs[l] \in G
    BY <1>2, <1>3
  <1>5. QED
    BY <1>3, <1>4

LEMMA TransmitWithin ==
    ASSUME NEW G, NEW msgs, Transmit(msgs),
           \A l \in Link : net[l] \in Seq(G),
           \A l \in DOMAIN msgs : msgs[l] \in G
    PROVE  \A l \in Link : net'[l] \in Seq(G)
  BY SurvivorsWithin

\* What a node can recode is derivable from what the proposer got out.
LEMMA RecodingsGenuine ==
    ASSUME TypeOK, NetTypeOK, SourceInv, NEW r \in Receiver, IsolatedAt(r), OriginAt(r),
           Working(r), Head(work[r]).ch = "data", NEW v \in Recodings(r)
    PROVE  FromSource(block[r], v)
  <1>1. block[r] \in Blocks /\ injected[block[r]] \in SUBSET Vec
    BY WorkingFacts DEF Working, NetTypeOK
  <1>2. Extended(r) \subseteq got[r] /\ \A p \in Extended(r) : p.block = block[r]
    BY HeadOrigin DEF Extended, IsolatedAt
  <1>3. Vecs(Extended(r)) \subseteq Span[injected[block[r]]]
    BY <1>2 DEF SourceInv, FromSource, Vecs
  <1>4. Span[injected[block[r]]] \in SUBSET Vec
    BY <1>1, SpanAssumption
  <1>5. Span[Vecs(Extended(r))] \subseteq Span[injected[block[r]]]
    BY <1>1, <1>3, <1>4, SpanAssumption
  <1>6. QED
    BY <1>5 DEF Recodings, FromSource

\* A receiver passes on genuine messages only.
LEMMA NodeStepGenuine ==
    ASSUME TypeOK, NetTypeOK, SourceInv, NEW r \in Receiver, IsolatedAt(r), OriginAt(r),
           NodeStep(r)
    PROVE  \A l \in Link : net'[l] \in Seq(Genuine)
  <1>1. r \in Peer
    BY NodesAssumption
  <1>2. CASE UNCHANGED net
    BY <1>2 DEF SourceInv
  <1>3. CASE IngestAnnouncement(r) /\ Transmit(AnnounceFrom(r, block[r]))
    <2>1. Working(r) /\ Head(work[r]).ch = "announce"
      BY <1>3 DEF IngestAnnouncement
    <2>2. block[r] \in Blocks /\ block[r] < next_block
      BY <2>1, WorkingFacts, HeadOrigin DEF Working, SourceInv
    <2>3. Announcement(block[r], r) \in Genuine
      BY <1>1, <2>2, PeerAssumption DEF Genuine, Announcement, Arriving, Message, AnnMsg
    <2>4. \A l \in DOMAIN AnnounceFrom(r, block[r]) : AnnounceFrom(r, block[r])[l] \in Genuine
      BY <2>3 DEF AnnounceFrom
    <2>5. QED
      BY <1>3, <2>4, TransmitWithin DEF SourceInv
  <1>4. CASE (AcceptData(r) \/ CompleteBlock(r)) /\ Forward(r)
    <2>1. Working(r) /\ Head(work[r]).ch = "data" /\ work[r] # <<>>
      BY <1>4 DEF AcceptData, CompleteBlock, Ingesting, Working
    <2>2. block[r] \in Blocks
      BY <2>1, WorkingFacts DEF Working
    <2>3. CASE Forwards(r)
      <3>1. PICK targets \in SelectPeers(r, Head(work[r]).from) :
               \E packet \in [targets -> Recodings(r)] : Transmit(DataFrom(r, block[r], packet))
        BY <1>4, <2>3 DEF Forward
      <3>2. PICK packet \in [targets -> Recodings(r)] : Transmit(DataFrom(r, block[r], packet))
        BY <3>1
      <3>3. ASSUME NEW v \in Recodings(r) PROVE Data(block[r], v, r) \in Genuine
        <4>1. FromSource(block[r], v)
          BY <2>1, RecodingsGenuine
        <4>2. v \in Vec
          BY <2>1, RecodingsType
        <4>3. QED
          BY <1>1, <2>2, <4>1, <4>2, PeerAssumption
             DEF Genuine, Data, Arriving, Message, DataMsg
      <3>4. \A l \in DOMAIN DataFrom(r, block[r], packet) :
                DataFrom(r, block[r], packet)[l] \in Genuine
        BY <3>2, <3>3 DEF DataFrom
      <3>5. QED
        BY <3>2, <3>4, TransmitWithin DEF SourceInv
    <2>4. CASE ~Forwards(r)
      BY <1>2, <1>4, <2>4 DEF Forward
    <2>5. QED
      BY <2>3, <2>4
  <1>5. QED
    BY <1>2, <1>3, <1>4 DEF NodeStep

\* What is genuine stays so as the proposer goes on.
LEMMA GenuineGrows ==
    ASSUME NetTypeOK, NetTypeOK', next_block <= next_block',
           \A b \in Blocks : injected[b] \subseteq injected'[b]
    PROVE  /\ \A b \in Blocks : \A v : FromSource(b, v) => FromSource(b, v)'
           /\ Genuine \subseteq Genuine'
  <1>1. ASSUME NEW b \in Blocks PROVE Span[injected[b]] \subseteq Span[injected'[b]]
    <2>1. injected[b] \in SUBSET Vec /\ injected'[b] \in SUBSET Vec
      BY DEF NetTypeOK
    <2>2. injected[b] \subseteq Span[injected'[b]]
      BY <1>1, <2>1, SpanAssumption
    <2>3. QED
      BY <2>1, <2>2, SpanAssumption
  <1>2. \A b \in Blocks : \A v : FromSource(b, v) => FromSource(b, v)'
    BY <1>1 DEF FromSource
  <1>3. next_block \in Int /\ next_block' \in Int
    BY BlocksAssumption DEF NetTypeOK, BlockNum
  <1>4. ASSUME NEW m \in Genuine PROVE m \in Genuine'
    <2>1. m \in Arriving /\ m.block \in Blocks /\ m.block \in Int
      BY BlocksAssumption DEF Genuine, Arriving, Message, AnnMsg, DataMsg, Blocks
    <2>2. CASE m.ch = "announce"
      BY <1>3, <2>1, <2>2 DEF Genuine
    <2>3. CASE m.ch # "announce"
      BY <1>2, <2>1, <2>3 DEF Genuine
    <2>4. QED
      BY <2>2, <2>3
  <1>5. QED
    BY <1>2, <1>4

\* The proposer's messages are genuine.
LEMMA ProposeGenuine ==
    ASSUME TypeOK, NetTypeOK, SourceInv, Propose
    PROVE  SourceInv'
  <1>1. next_block \in Blocks /\ next_block' = next_block + 1 /\ next_block \in Int
    BY BlocksAssumption DEF Propose, NetTypeOK, Blocks, BlockNum
  <1>2. PICK targets \in SelectPeers(Proposer, NoPeer) :
         \E packet \in [targets -> Vec] :
           /\ Transmit(Both(AnnounceFrom(Proposer, next_block),
                            DataFrom(Proposer, next_block, packet)))
           /\ injected' = [injected EXCEPT ![next_block] =
                             {packet[r] : r \in targets \cap GotOut}]
    BY DEF Propose
  <1>3. PICK packet \in [targets -> Vec] :
           /\ Transmit(Both(AnnounceFrom(Proposer, next_block),
                            DataFrom(Proposer, next_block, packet)))
           /\ injected' = [injected EXCEPT ![next_block] =
                             {packet[r] : r \in targets \cap GotOut}]
    BY <1>2
  <1> DEFINE sent == {packet[r] : r \in targets \cap GotOut}
             ann == AnnounceFrom(Proposer, next_block)
             dat == DataFrom(Proposer, next_block, packet)
  <1>4. NetTypeOK'
    BY ProposeType
  <1>5. Proposer \in Peer /\ Proposer # NoPeer
    BY NodesAssumption, PeerAssumption
  <1>6. sent \in SUBSET Vec
    BY <1>3
  <1>7. \A b \in Blocks : injected'[b] = IF b = next_block THEN sent ELSE injected[b]
    BY <1>1, <1>3 DEF NetTypeOK
  <1>8. \A b \in Blocks : injected[b] \subseteq injected'[b]
    <2>1. next_block >= next_block
      BY <1>1
    <2>2. injected[next_block] = {}
      BY <1>1, <2>1 DEF SourceInv
    <2>3. QED
      BY <1>7, <2>2
  <1>9. /\ \A b \in Blocks : \A v : FromSource(b, v) => FromSource(b, v)'
        /\ Genuine \subseteq Genuine'
    <2>1. next_block <= next_block'
      BY <1>1
    <2>2. QED
      BY <1>4, <1>8, <2>1, GenuineGrows
  <1>10. Announcement(next_block, Proposer) \in Genuine'
    BY <1>1, <1>5 DEF Genuine, Announcement, Arriving, Message, AnnMsg
  <1>11. ASSUME NEW v \in sent PROVE Data(next_block, v, Proposer) \in Genuine'
    <2>1. PICK b \in Blocks : b = next_block
      BY <1>1
    <2>2. FromSource(b, v)'
      BY <1>6, <1>7, <2>1, SpanAssumption DEF FromSource
    <2>3. Data(b, v, Proposer) \in Genuine'
      BY <1>5, <1>6, <2>2 DEF Genuine, Data, Arriving, Message, DataMsg
    <2>4. QED
      BY <2>1, <2>3
  <1>12. \A l \in DOMAIN Both(ann, dat) \cap Link :
            net'[l] # net[l] => Both(ann, dat)[l] \in Genuine'
    <2>1. \A l \in DOMAIN ann : ann[l] \in Genuine'
      BY <1>10 DEF AnnounceFrom
    <2>2. ASSUME NEW l \in DOMAIN dat, net'[l] # net[l] PROVE dat[l] \in Genuine'
      <3>1. PICK r \in Reachable(Proposer) \cap DOMAIN packet :
               l = <<Proposer, r, "data">> /\ dat[l] = Data(next_block, packet[r], Proposer)
        BY DEF DataFrom
      <3>2. r \in targets \cap GotOut
        BY <1>3, <2>2, <3>1 DEF GotOut, Reachable
      <3>3. QED
        BY <1>11, <3>1, <3>2
    <2> HIDE DEF ann, dat
    <2>3. QED
      BY <2>1, <2>2 DEF Both
  <1>13. \A l \in Link : net[l] \in Seq(Genuine')
    BY <1>9, SeqMono DEF SourceInv
  <1>14. \A l \in Link : net'[l] \in Seq(Genuine')
    BY <1>3, <1>12, <1>13, SurvivorsWithin
  <1>15. UNCHANGED <<got, heard>>
    BY DEF Propose, nodeVars, historyVars
  <1>16. ASSUME NEW r \in Receiver
         PROVE  /\ \A b \in heard'[r] : b < next_block'
                /\ \A p \in got'[r] : FromSource(p.block, p.vec)'
    <2>1. \A b \in heard[r] : b \in Int /\ b < next_block
      BY BlocksAssumption DEF SourceInv, TypeOK, Blocks
    <2>2. \A p \in got[r] : p.block \in Blocks /\ FromSource(p.block, p.vec)
      BY DEF SourceInv, TypeOK, Packet
    <2>3. \A b \in heard'[r] : b < next_block'
      BY <1>1, <1>15, <2>1
    <2>4. ASSUME NEW p \in got'[r] PROVE FromSource(p.block, p.vec)'
      <3>1. p \in got[r]
        BY <1>15
      <3>2. QED
        BY <1>9, <2>2, <3>1
    <2>5. QED
      BY <2>3, <2>4
  <1>17. \A b \in Blocks : b >= next_block' => injected'[b] = {}
    <2>1. \A b \in Blocks : b >= next_block + 1 => b >= next_block /\ b # next_block
      BY <1>1, BlocksAssumption DEF Blocks
    <2>2. QED
      BY <1>1, <1>7, <2>1 DEF SourceInv
  <1>18. QED
    BY <1>14, <1>16, <1>17 DEF SourceInv

\* A step that leaves the proposer alone keeps SourceInv, if what it sends and what
\* it tells a receiver is genuine.
LEMMA QuietSource ==
    ASSUME TypeOK', NetTypeOK, NetTypeOK', SourceInv, UNCHANGED <<next_block, injected>>,
           \A l \in Link : net'[l] \in Seq(Genuine),
           \A r \in Receiver : \A b \in heard'[r] : b < next_block,
           \A r \in Receiver : \A p \in got'[r] : FromSource(p.block, p.vec)
    PROVE  SourceInv'
  <1>1. next_block \in Int
    BY BlocksAssumption DEF NetTypeOK, BlockNum
  <1>2. /\ \A b \in Blocks : \A v : FromSource(b, v) => FromSource(b, v)'
        /\ Genuine \subseteq Genuine'
    <2>1. next_block <= next_block'
      BY <1>1
    <2>2. QED
      BY <2>1, GenuineGrows
  <1>3. \A l \in Link : net'[l] \in Seq(Genuine')
    BY <1>2, SeqMono
  <1>4. ASSUME NEW r \in Receiver, NEW p \in got'[r] PROVE FromSource(p.block, p.vec)'
    <2>1. p.block \in Blocks /\ FromSource(p.block, p.vec)
      BY DEF TypeOK, Packet
    <2>2. QED
      BY <1>2, <2>1
  <1>5. \A b \in Blocks : b >= next_block' => injected'[b] = {}
    BY DEF SourceInv
  <1>6. \A r \in Receiver : \A b \in heard'[r] : b < next_block'
    OBVIOUS
  <1>7. QED
    BY <1>3, <1>4, <1>5, <1>6 DEF SourceInv

\* A message taken off a link is genuine, and so is what stays.
LEMMA DeliverGenuine ==
    ASSUME TypeOK, NetTypeOK, SourceInv, NEW r \in Receiver, Deliver(r)
    PROVE  /\ \A l \in Link : net'[l] \in Seq(Genuine)
           /\ \A q \in Receiver : \A b \in heard'[q] : b < next_block
           /\ \A q \in Receiver : \A p \in got'[q] : FromSource(p.block, p.vec)
  <1>1. PICK l \in Link : /\ net[l] # <<>>
                          /\ Receive(r, Head(net[l]))
                          /\ net' = [net EXCEPT ![l] = Tail(@)]
    BY DEF Deliver, Link
  <1> DEFINE m == Head(net[l])
  <1>2. net[l] \in Seq(Genuine)
    BY DEF SourceInv
  <1>3. m \in Genuine /\ Tail(net[l]) \in Seq(Genuine)
    BY <1>1, <1>2
  <1>4. \A k \in Link : net'[k] \in Seq(Genuine)
    BY <1>1, <1>3 DEF SourceInv, NetTypeOK
  <1>5. m.ch = "announce" => m.block < next_block
    BY <1>3 DEF Genuine
  <1>6. m.ch # "announce" => FromSource(m.block, m.vec)
    BY <1>3 DEF Genuine
  <1> HIDE DEF m
  <1>7. Record(r, m)
    BY <1>1 DEF m, Receive, RouteStale, RouteFuture, RouteCurrent
  <1>8. ASSUME NEW q \in Receiver, NEW b \in heard'[q] PROVE b < next_block
    <2>1. b \in heard[q] \/ (m.ch = "announce" /\ b = m.block)
      BY <1>7 DEF Record, TypeOK
    <2>2. QED
      BY <1>5, <2>1 DEF SourceInv
  <1>9. ASSUME NEW q \in Receiver, NEW p \in got'[q] PROVE FromSource(p.block, p.vec)
    <2>1. p \in got[q] \/ (m.ch = "data" /\ p = [block |-> m.block, vec |-> m.vec])
      BY <1>7 DEF Record, TypeOK
    <2>2. QED
      BY <1>6, <2>1 DEF SourceInv
  <1>10. QED
    BY <1>4, <1>8, <1>9

SourcedInv == OriginInv /\ NetTypeOK /\ SourceInv

\* Every step of the network keeps what is told and under way genuine.
LEMMA SourceStep == SourcedInv /\ [NetNext]_vars => SourcedInv'
  <1> SUFFICES ASSUME SourcedInv, [NetNext]_vars PROVE SourcedInv'
    OBVIOUS
  <1>1. /\ TypeOK /\ NetTypeOK /\ SourceInv /\ OriginInv
        /\ \A r \in Receiver : IsolatedAt(r) /\ OriginAt(r)
    BY DEF SourcedInv, OriginInv, IInv, LocalInv, NothingInvented
  <1>2. NetTypeOK'
    BY <1>1, NetTypeStep
  <1>3. OriginInv' /\ TypeOK'
    BY <1>1, NetSimulates, OriginInductive DEF OriginInv, IInv
  <1>4. CASE Propose
    BY <1>1, <1>2, <1>3, <1>4, ProposeGenuine DEF SourcedInv
  <1>5. ASSUME UNCHANGED <<net, got, heard, next_block, injected>> PROVE SourcedInv'
    BY <1>1, <1>2, <1>3, <1>5, QuietSource DEF SourcedInv, SourceInv
  <1>6. ASSUME NEW r \in Receiver, Deliver(r) PROVE SourcedInv'
    <2>1. UNCHANGED <<next_block, injected>>
      BY <1>6 DEF Deliver
    <2>2. QED
      BY <1>1, <1>2, <1>3, <1>6, <2>1, DeliverGenuine, QuietSource DEF SourcedInv
  <1>7. ASSUME NEW r \in Receiver, NodeStep(r) PROVE SourcedInv'
    <2>1. UNCHANGED <<got, heard, next_block, injected>>
      BY <1>7 DEF NodeStep, SkipItem, IgnoreAnnouncement, BufferData, RejectData,
                  IngestAnnouncement, AcceptData, CompleteBlock, historyVars
    <2>2. \A l \in Link : net'[l] \in Seq(Genuine)
      BY <1>1, <1>7, NodeStepGenuine
    <2>3. QED
      BY <1>1, <1>2, <1>3, <2>1, <2>2, QuietSource DEF SourcedInv, SourceInv
  <1>8. CASE (\E p, q \in Peer : Connect(p, q)) \/ Probe \/ UNCHANGED vars
    BY <1>5, <1>8 DEF Connect, Probe, vars, netVars, nodeVars, historyVars
  <1>9. QED
    BY <1>4, <1>6, <1>7, <1>8 DEF NetNext

\* Initially nothing is under way.
LEMMA SourceInit == NetInit => SourceInv
  <1> SUFFICES ASSUME NetInit PROVE SourceInv
    OBVIOUS
  <1>1. \A l \in Link : net[l] \in Seq(Genuine)
    <2>1. <<>> \in Seq(Genuine)
      OBVIOUS
    <2>2. net = [l \in Link |-> <<>>]
      BY DEF NetInit
    <2>3. QED
      BY ONLY <2>1, <2>2, Zenon
  <1>2. QED
    BY <1>1 DEF NetInit, Init, SourceInv

\* The network's whole invariant.
LEMMA SourcedHolds == NetSpec => []SourcedInv
  <1>1. NetInit => SourcedInv
    BY NetTypeInit, SourceInit, TypeInit, InitLocal, OriginInit
       DEF NetInit, SourcedInv, OriginInv, IInv
  <1>2. QED
    BY <1>1, SourceStep, PTL DEF NetSpec

\* Recoding creates no information, whatever is lost and whoever is connected: what
\* is under way, received or accepted anywhere is derivable from what the proposer got
\* out of that block (coded_forward, and the proposer's single round of packets).
THEOREM NoInformation == NetSpec => []NoInformationCreated
  <1>1. SourcedInv => NoInformationCreated
    <2> SUFFICES ASSUME SourcedInv PROVE NoInformationCreated
      OBVIOUS
    <2>1. ASSUME NEW l \in Link, NEW i \in 1 .. Len(net[l]), net[l][i].ch = "data"
          PROVE  FromSource(net[l][i].block, net[l][i].vec)
      <3>1. net[l] \in Seq(Genuine)
        BY DEF SourcedInv, SourceInv
      <3>2. net[l][i] \in Genuine
        BY <3>1
      <3>3. QED
        BY <2>1, <3>2 DEF Genuine
    <2>2. ASSUME NEW r \in Receiver
          PROVE  /\ \A p \in got[r] : FromSource(p.block, p.vec)
                 /\ \A p \in accepted[r] : FromSource(p.block, p.vec)
      BY DEF SourcedInv, SourceInv, OriginInv, NothingInvented, OriginAt
    <2>3. QED
      BY <2>1, <2>2 DEF NoInformationCreated
  <1>2. QED
    BY <1>1, SourcedHolds, PTL

\* Nobody decodes a block of which the proposer did not get enough out: decode()
\* never succeeds on packets of too small a span.
THEOREM OnlyDecodable == NetSpec => []DecodableOnly
  <1>1. SourcedInv => DecodableOnly
    <2> SUFFICES ASSUME SourcedInv, NEW r \in Receiver, NEW b \in Blocks, b < block[r]
                 PROVE  Span[injected[b]] = Vec
      BY DEF DecodableOnly
    <2> DEFINE packets == decoded[r][b + 1].packets
    <2>1. injected[b] \in SUBSET Vec
      BY DEF SourcedInv, NetTypeOK
    <2>2. b + 1 \in 1 .. block[r] /\ (b + 1) - 1 = b
      BY BlocksAssumption DEF SourcedInv, OriginInv, IInv, TypeOK, Blocks, BlockNum
    <2>3. (\A p \in packets : p.block = b) /\ Span[Vecs(packets)] = Vec
      BY <2>2 DEF SourcedInv, OriginInv, IInv, LocalInv, DecodedAt
    <2>4. packets \subseteq got[r] /\ got[r] \in SUBSET Packet
      BY DEF SourcedInv, OriginInv, IInv, TypeOK, NothingInvented, OriginAt
    <2> HIDE DEF packets
    <2>5. Vecs(packets) \subseteq Span[injected[b]]
      BY <2>3, <2>4 DEF SourcedInv, SourceInv, FromSource, Vecs
    <2>6. Vecs(packets) \in SUBSET Vec /\ Span[injected[b]] \in SUBSET Vec
      BY <2>1, <2>4, SpanAssumption DEF Vecs, Packet
    <2>7. Span[Vecs(packets)] \subseteq Span[injected[b]]
      BY <2>1, <2>5, <2>6, SpanAssumption
    <2>8. QED
      BY <2>3, <2>6, <2>7
  <1>2. QED
    BY <1>1, SourcedHolds, PTL

\* Receivers stay behind the proposer (route moves on only by completing a block, and
\* completes only what was announced).
THEOREM StaysBehind == NetSpec => []BehindProposer
  <1>1. SourcedInv => BehindProposer
    <2> SUFFICES ASSUME SourcedInv, NEW r \in Receiver
                 PROVE  /\ block[r] <= next_block
                        /\ phase[r] = "Decoding" => block[r] < next_block
                        /\ \A b \in heard[r] : b < next_block
      BY DEF BehindProposer
    <2>1. \A b \in heard[r] : b < next_block
      BY DEF SourcedInv, SourceInv
    <2>2. phase[r] = "Decoding" => block[r] \in heard[r]
      BY DEF SourcedInv, OriginInv, NothingInvented, OriginAt
    <2>3. block[r] \in BlockNum /\ next_block \in BlockNum
      BY DEF SourcedInv, OriginInv, IInv, TypeOK, NetTypeOK
    <2>4. CASE block[r] > 0
      <3>1. block[r] - 1 \in Blocks /\ block[r] - 1 < block[r]
        BY <2>3, <2>4, BlocksAssumption DEF Blocks, BlockNum
      <3>2. block[r] - 1 \in heard[r]
        BY <3>1 DEF SourcedInv, OriginInv, NothingInvented, OriginAt
      <3>3. QED
        BY <2>1, <2>2, <2>3, <3>2 DEF BlockNum
    <2>5. QED
      BY <2>1, <2>2, <2>3, <2>4 DEF BlockNum
  <1>2. QED
    BY <1>1, SourcedHolds, PTL
=============================================================================
